---------------------------- MODULE WorkerPoolProofs ----------------------------
(***************************************************************************)
(* WorkerPool, for any number of calls and workers, any texts, any batch   *)
(* size and any division of pretokens into ids: an answer of the workers   *)
(* is the ids of the text in order, nobody waits for what was not posted,  *)
(* and the telemetry of a call that had the pool for itself is exact.      *)
(*                                                                         *)
(* Folds and flattened sequences are defined by recursion.  What they      *)
(* compute for every input is proved by induction in the form of           *)
(* Induction: a set of natural numbers with 0 that is closed under the     *)
(* successor has them all, which rests on their order being well-founded.  *)
(***************************************************************************)
EXTENDS WorkerPool, FiniteSetTheorems, SequenceTheorems, WellFoundedInduction, TLAPS

(***************************************************************************)
(* The inductive invariant                                                 *)
(***************************************************************************)
Id      == [pretoken: Nat, chunk: Nat, version: {0, 1}]
Request == [call: Call, item: Nat, part: Nat, pieces: Seq([pretoken: Nat, first: Nat, last: Nat, version: {0, 1}])]
Task    == [state: {"encoding", "enlarging", "done", "failed"}, spliced: Nat, enlargements: Nat, parts: Seq(Seq(Id))]

\* A text whose pretokens have ids.
Good(txt) == /\ txt \in Seq(Nat \ {0})
             /\ \A p \in DOMAIN txt : \A k \in 1 .. txt[p] : IdCount(p, k) \in Nat \ {0}

Types ==
    /\ chunking \in BOOLEAN /\ closed \in BOOLEAN
    /\ text \in [Call -> Seq(Nat \ {0})] /\ \A c \in Call : Good(text[c])
    /\ written \in [Call -> {0, 1}]
    /\ phase \in [Call -> {"idle", "awaiting", "answered", "rejected"}]
    /\ tasks \in [Call -> Seq(Task)]
    /\ route \in [Call -> {"none", "workers", "single"}]
    /\ answer \in [Call -> Seq(Id)]
    /\ telemetry \in [Call -> [tasks: Nat, activeWorkers: Nat, enlargements: Nat]]
    /\ alone \in [Call -> BOOLEAN]
    /\ queue \in [Worker -> Seq(Request)]
    /\ failure \in [Worker -> BOOLEAN]
    /\ nextWorker \in Worker /\ poolTasks \in Nat /\ active \in SUBSET Worker

\* The pieces of a batch, as encode found them.
Batch(pretokens) == [e \in DOMAIN pretokens |-> Piece(pretokens[e], 1, 1, 0)]

\* The chunks of pretoken p, the first `covered` of which were encoded as one, at `version`.
Parts(p, n, covered, version) ==
    [k \in 1 .. n |-> IF k = 1 THEN Ids(Piece(p, 1, covered, version))
                      ELSE IF k <= covered THEN <<>> ELSE Ids(Piece(p, k, k, 0))]

\* What a task has of its item.
BatchTask(item, task) ==
    /\ task.state \in {"encoding", "done", "failed"}
    /\ task.enlargements = 0
    /\ task.parts = IF task.state = "done" THEN [e \in DOMAIN item.pretokens |-> Ids(Piece(item.pretokens[e], 1, 1, 0))]
                    ELSE <<>>
LongTask(txt, wrote, item, task) ==
    LET p == item.pretokens[1] IN
    /\ Len(task.parts) = txt[p]
    /\ task.state = "encoding" =>
          /\ task.enlargements = 0
          /\ \A k \in 1 .. txt[p] : task.parts[k] \in {<<>>, Ids(Piece(p, k, k, 0))}
    /\ task.state = "enlarging" => task.spliced \in 1 .. txt[p] - 1
    /\ task.state = "done" => task.spliced = txt[p]
    /\ task.state \in {"enlarging", "done"} =>
          \E covered \in 1 .. task.spliced, version \in {0, wrote} :
              /\ task.parts = Parts(p, txt[p], covered, version)
              /\ task.enlargements = 0 => covered = 1 /\ version = 0
TaskFits(txt, wrote, item, task) ==
    IF item.long THEN LongTask(txt, wrote, item, task) ELSE BatchTask(item, task)

TasksFit ==
    \A c \in Call :
        /\ DOMAIN tasks[c] = DOMAIN Items(text[c])
        /\ \A i \in DOMAIN tasks[c] : TaskFits(text[c], written[c], Items(text[c])[i], tasks[c][i])

\* A request is for what its task still lacks, unless the task has failed.
RequestFits(txt, wrote, item, task, r) ==
    LET p == item.pretokens[1] IN
    IF ~item.long
    THEN /\ r.part = 0 /\ r.pieces = Batch(item.pretokens)
         /\ task.state \in {"encoding", "failed"}
    ELSE \/ /\ r.part \in 1 .. txt[p] /\ r.pieces = <<Piece(p, r.part, r.part, 0)>>
            /\ \/ task.state = "failed"
               \/ task.state = "encoding" /\ task.parts[r.part] = <<>>
         \/ /\ r.part = 0
            /\ \E m \in 1 .. txt[p] - 1, version \in {0, wrote} :
                  /\ r.pieces = <<Piece(p, 1, m + 1, version)>>
                  /\ task.state = "failed" \/ (task.state = "enlarging" /\ task.spliced = m)

RequestsFit ==
    \A w \in Worker : \A j \in DOMAIN queue[w] :
        LET r == queue[w][j] IN
        /\ r.item \in DOMAIN tasks[r.call]
        /\ RequestFits(text[r.call], written[r.call], Items(text[r.call])[r.item], TaskOf(r), r)

\* No two requests are for the same part of a task.
Same(r, s) == r.call = s.call /\ r.item = s.item /\ r.part = s.part
RequestsUnique ==
    \A v, w \in Worker : \A j \in DOMAIN queue[v], k \in DOMAIN queue[w] :
        Same(queue[v][j], queue[w][k]) => v = w /\ j = k

\* What a task lacks is posted.
Posted(c, i, part) ==
    \E w \in Worker : \E j \in DOMAIN queue[w] :
        queue[w][j].call = c /\ queue[w][j].item = i /\ queue[w][j].part = part
Lacks(item, task) ==
    IF item.long /\ task.state = "encoding" THEN {k \in DOMAIN task.parts : task.parts[k] = <<>>} ELSE {0}
AllPosted ==
    \A c \in Call : \A i \in DOMAIN tasks[c] : Unsettled(tasks[c][i]) =>
        LET lacks == Lacks(Items(text[c])[i], tasks[c][i]) IN
        lacks # {} /\ \A part \in lacks : Posted(c, i, part)

FailuresEmpty == /\ \A w \in Worker : failure[w] => queue[w] = <<>>
                 /\ closed => \A w \in Worker : failure[w]

\* What a call's phase says of its tasks.
PhasesFit ==
    \A c \in Call :
        /\ phase[c] = "idle" => text[c] = <<>>
        /\ phase[c] = "awaiting" => /\ \A i \in DOMAIN tasks[c] : tasks[c][i].state # "failed"
                                    /\ \E i \in DOMAIN tasks[c] : tasks[c][i].state # "done"
        /\ route[c] # "none" => phase[c] = "answered"
        /\ route[c] = "none" => answer[c] = <<>>
        /\ route[c] = "single" => answer[c] \in {Whole(text[c], 0), Whole(text[c], written[c])}
        /\ route[c] = "workers" => /\ \A i \in DOMAIN tasks[c] : tasks[c][i].state = "done"
                                   /\ answer[c] = FlatIds([i \in DOMAIN tasks[c] |-> FlatIds(tasks[c][i].parts)])

\* How many entries of an item have been answered.
Counted(txt, item, task) ==
    IF ~item.long THEN IF task.state = "done" THEN Len(item.pretokens) ELSE 0
    ELSE IF task.state = "encoding" THEN Cardinality({k \in DOMAIN task.parts : task.parts[k] # <<>>})
    ELSE txt[item.pretokens[1]] + task.enlargements
Counts(c) == [i \in DOMAIN tasks[c] |-> Counted(text[c], Items(text[c])[i], tasks[c][i])]

Telemetry ==
    \A c \in Call : alone[c] =>
        /\ phase[c] = "awaiting" =>
              /\ poolTasks = Total(Counts(c)) /\ Cardinality(active) <= poolTasks
              /\ \A w \in Worker : \A j \in DOMAIN queue[w] : queue[w][j].call = c
        /\ route[c] = "workers" =>
              /\ telemetry[c].tasks = Total(text[c]) + telemetry[c].enlargements
              /\ telemetry[c].activeWorkers <= telemetry[c].tasks

Work  == TasksFit /\ RequestsFit /\ RequestsUnique /\ AllPosted /\ FailuresEmpty /\ PhasesFit
IInv  == Types /\ Work /\ Telemetry

(***************************************************************************)
(* Induction                                                               *)
(***************************************************************************)
\* The sum of natural numbers is one.
LEMMA NatSum ==
    ASSUME NEW a \in Nat, NEW b \in Nat
    PROVE  a + b \in Nat
OBVIOUS

\* A sequence with an element replaced is one.
LEMMA ReplacedType ==
    ASSUME NEW S, NEW s \in Seq(S), NEW i \in DOMAIN s, NEW new \in S
    PROVE  [s EXCEPT ![i] = new] \in Seq(S)
OBVIOUS

\* The elements of two sequences one after the other.
LEMMA ConcatPlaces ==
    ASSUME NEW S, NEW s \in Seq(S), NEW t \in Seq(S)
    PROVE  \A i \in 1 .. Len(s) + Len(t) : (s \o t)[i] = IF i <= Len(s) THEN s[i] ELSE t[i - Len(s)]
BY ConcatProperties

\* A set of natural numbers has a least member.
LEMMA LeastMember ==
    ASSUME NEW S \in SUBSET Nat, S # {}
    PROVE  \E m \in S : \A x \in S : m <= x
<1>1. PICK m \in S : \A x \in S : ~(<<x, m>> \in OpToRel(<, Nat))
  BY NatLessThanWellFounded, WFMin, Zenon
<1>2. ASSUME NEW x \in S PROVE m <= x
  <2>1. <<x, m>> \notin OpToRel(<, Nat)
    BY <1>1, Zenon
  <2>2. ~(x < m)
    BY <2>1 DEF OpToRel
  <2> QED
    BY <2>2
<1> QED
  BY <1>2

\* A set with 0 and with the successor of each member has every natural number.
LEMMA Induction ==
    ASSUME NEW S \in SUBSET Nat, 0 \in S, \A n \in S : n + 1 \in S
    PROVE  S = Nat
<1> SUFFICES ASSUME S # Nat PROVE FALSE
  OBVIOUS
<1>1. PICK n \in Nat \ S : \A m \in Nat \ S : n <= m
  BY LeastMember, Zenon
<1>2. n - 1 \in Nat /\ n - 1 \notin Nat \ S
  BY <1>1
<1> QED
  BY <1>1, <1>2

(***************************************************************************)
(* Folds: the function that defines one exists.                            *)
(***************************************************************************)
\* Its values when step[k] is applied for the k-th element, the last one first.
FoldsTo(g, n, base, step) ==
    \A r \in SUBSET (1 .. n) : g[r] = IF r = {} THEN base ELSE step[Max(r)][g[r \ {Max(r)}]]

\* The greatest of the first n numbers, and of some of them.
LEMMA Greatest ==
    ASSUME NEW n \in Nat \ {0}
    PROVE  /\ Max(1 .. n) = n /\ (1 .. n) \ {Max(1 .. n)} = 1 .. n - 1
           /\ \A r \in SUBSET (1 .. n) : n \in r => Max(r) = n /\ r \ {n} \in SUBSET (1 .. n - 1)
<1>1. ASSUME NEW r \in SUBSET (1 .. n), n \in r
      PROVE  Max(r) = n /\ r \ {n} \in SUBSET (1 .. n - 1)
  <2>1. n \in r /\ \A y \in r : n >= y
    BY <1>1
  <2>2. \A x \in r : (\A y \in r : x >= y) => x = n
    BY <1>1
  <2>3. Max(r) = n
    BY <2>1, <2>2, Zenon DEF Max
  <2> QED
    BY <1>1, <2>3
<1>2. 1 .. n \in SUBSET (1 .. n) /\ n \in 1 .. n /\ (1 .. n) \ {n} = 1 .. n - 1
  OBVIOUS
<1> QED
  BY <1>1, <1>2

\* A step for each element gives such a function.
LEMMA FoldExists ==
    ASSUME NEW State, NEW base \in State, NEW n \in Nat, NEW step \in [1 .. n -> [State -> State]]
    PROVE  \E g \in [SUBSET (1 .. n) -> State] : FoldsTo(g, n, base, step)
<1> DEFINE S == {m \in Nat : m <= n => \E g \in [SUBSET (1 .. m) -> State] : FoldsTo(g, m, base, step)}
<1>1. 0 \in S
  <2>1. 1 .. 0 = {}
    OBVIOUS
  <2>2. PICK g : g = [r \in SUBSET (1 .. 0) |-> base]
    BY Zenon
  <2>3. g \in [SUBSET (1 .. 0) -> State] /\ FoldsTo(g, 0, base, step)
    BY <2>1, <2>2 DEF FoldsTo
  <2> QED
    BY <2>3, Zenon
<1>2. ASSUME NEW m \in S PROVE m + 1 \in S
  <2> SUFFICES ASSUME m + 1 <= n
               PROVE  \E g \in [SUBSET (1 .. m + 1) -> State] : FoldsTo(g, m + 1, base, step)
    <3>1. m + 1 \in Nat
      BY <1>2
    <3> QED
      BY <3>1, Zenon
  <2>1. m \in Nat /\ m <= n /\ m + 1 \in 1 .. n /\ m + 1 \in Nat \ {0} /\ m + 1 - 1 = m
    OBVIOUS
  <2>2. PICK g \in [SUBSET (1 .. m) -> State] : FoldsTo(g, m, base, step)
    BY <2>1, Zenon
  <2>3. PICK h : h = [r \in SUBSET (1 .. m + 1) |-> IF m + 1 \in r THEN step[m + 1][g[r \ {m + 1}]] ELSE g[r]]
    BY Zenon
  <2>4. \A r \in SUBSET (1 .. m + 1) : m + 1 \in r => Max(r) = m + 1 /\ r \ {m + 1} \in SUBSET (1 .. m)
    BY <2>1, Greatest
  <2>5. \A r \in SUBSET (1 .. m + 1) : m + 1 \notin r => r \in SUBSET (1 .. m)
    BY <2>1
  <2>6. SUBSET (1 .. m) \subseteq SUBSET (1 .. m + 1)
    BY <2>1
  <2>7. step[m + 1] \in [State -> State]
    BY <2>1
  <2>8. \A r \in SUBSET (1 .. m + 1) : h[r] \in State
    BY <2>3, <2>4, <2>5, <2>7
  <2>9. h \in [SUBSET (1 .. m + 1) -> State]
    BY <2>3, <2>8
  <2>10. ASSUME NEW r \in SUBSET (1 .. m + 1)
         PROVE  h[r] = IF r = {} THEN base ELSE step[Max(r)][h[r \ {Max(r)}]]
    <3>1. CASE m + 1 \in r
      <4>1. Max(r) = m + 1 /\ r \ {m + 1} \in SUBSET (1 .. m) /\ r \ {m + 1} \in SUBSET (1 .. m + 1)
        BY <2>4, <2>6, <3>1
      <4>2. h[r \ {m + 1}] = g[r \ {m + 1}]
        BY <2>3, <4>1
      <4> QED
        BY <2>3, <3>1, <4>1, <4>2
    <3>2. CASE m + 1 \notin r
      <4>1. r \in SUBSET (1 .. m) /\ h[r] = g[r]
        BY <2>3, <2>5, <3>2
      <4>2. r \ {Max(r)} \in SUBSET (1 .. m) /\ r \ {Max(r)} \in SUBSET (1 .. m + 1) /\ m + 1 \notin r \ {Max(r)}
        BY <2>6, <3>2, <4>1, Zenon
      <4>3. h[r \ {Max(r)}] = g[r \ {Max(r)}]
        BY <2>3, <4>2
      <4> QED
        BY <2>2, <4>1, <4>3, Zenon DEF FoldsTo
    <3> QED
      BY <3>1, <3>2
  <2> QED
    BY <2>9, <2>10, Zenon DEF FoldsTo
<1>3. S = Nat
  <2> HIDE DEF S
  <2>1. S \in SUBSET Nat
    BY DEF S
  <2> QED
    BY <1>1, <1>2, <2>1, Induction
<1>4. n \in S
  <2> HIDE DEF S
  <2> QED
    BY <1>3
<1>5. n <= n
  OBVIOUS
<1> QED
  BY <1>4, <1>5, Zenon

\* The greatest of some numbers is one of them.
LEMMA GreatestIn ==
    ASSUME NEW n \in Nat, NEW r \in SUBSET (1 .. n), r # {}
    PROVE  Max(r) \in r
<1>1. PICK S \in SUBSET Nat : S = {n - x : x \in r}
  <2>1. \A x \in r : n - x \in Nat
    OBVIOUS
  <2> QED
    BY <2>1, Zenon
<1>2. S # {}
  BY <1>1, Zenon
<1>3. PICK m \in S : \A y \in S : m <= y
  BY <1>2, LeastMember
<1>4. PICK x \in r : m = n - x
  BY <1>1, <1>3
<1>5. \A y \in r : n - y \in S
  BY <1>1
<1>6. \A y \in r : x >= y
  BY <1>3, <1>4, <1>5
<1> QED
  BY <1>6, Zenon DEF Max

\* The first k numbers.
LEMMA FirstNumbers ==
    ASSUME NEW n \in Nat, NEW k \in 1 .. n
    PROVE  /\ 1 .. k \in SUBSET (1 .. n) /\ 1 .. k # {} /\ Max(1 .. k) = k /\ (1 .. k) \ {Max(1 .. k)} = 1 .. k - 1
           /\ 1 .. k - 1 \in SUBSET (1 .. n) /\ k - 1 \in 0 .. n /\ k \in 0 .. n
<1>1. k \in Nat \ {0}
  OBVIOUS
<1>2. Max(1 .. k) = k /\ (1 .. k) \ {Max(1 .. k)} = 1 .. k - 1
  BY <1>1, Greatest
<1>3. 1 .. k \in SUBSET (1 .. n) /\ k \in 1 .. k /\ 1 .. k - 1 \in SUBSET (1 .. n) /\ k - 1 \in 0 .. n /\ k \in 0 .. n
  OBVIOUS
<1> QED
  BY <1>2, <1>3

(***************************************************************************)
(* FlattenSeq, and the folds of the module, element by element             *)
(***************************************************************************)
\* Items, by the pretokens taken so far.
ItemType == [long: BOOLEAN, pretokens: Seq(Nat)]
ItemsUpTo(f, txt) ==
    /\ f[0] = <<>> /\ \A k \in 1 .. Len(txt) : f[k] = Added(f[k - 1], txt, k)
    /\ Items(txt) = f[Len(txt)]

\* One more pretoken.
LEMMA AddedItem ==
    ASSUME NEW txt, NEW items \in Seq(ItemType), NEW p \in Nat
    PROVE  /\ Added(items, txt, p) \in Seq(ItemType) /\ Added(items, txt, p) # <<>>
           /\ \/ /\ ~Long(txt, p) /\ items # <<>> /\ ~items[Len(items)].long
                 /\ Added(items, txt, p) = [items EXCEPT ![Len(items)] =
                        [long |-> FALSE, pretokens |-> Append(items[Len(items)].pretokens, p)]]
              \/ Added(items, txt, p) = Append(items, [long |-> Long(txt, p), pretokens |-> <<p>>])
<1>1. Long(txt, p) \in BOOLEAN /\ <<p>> \in Seq(Nat)
  BY DEF Long
<1>2. CASE /\ ~Long(txt, p) /\ items # <<>>
           /\ ~Last(items).long /\ Len(Last(items).pretokens) < BatchSize
  <2>1. Last(items) = items[Len(items)] /\ Len(items) \in DOMAIN items /\ items[Len(items)] \in ItemType
    BY <1>2 DEF Last
  <2>2. PICK new : new = [long |-> FALSE, pretokens |-> Append(items[Len(items)].pretokens, p)]
    BY Zenon
  <2>3. new \in ItemType
    BY <2>1, <2>2 DEF ItemType
  <2>4. Added(items, txt, p) = [items EXCEPT ![Len(items)] = new]
    <3>1. [items[Len(items)] EXCEPT !.pretokens = Append(@, p)] = new
      <4>1. PICK item \in ItemType : item = items[Len(items)]
        BY <2>1
      <4>2. item.long = FALSE
        BY <1>2, <2>1, <4>1 DEF ItemType
      <4>3. PICK more : more = Append(item.pretokens, p)
        BY Zenon
      <4>4. [item EXCEPT !.pretokens = more] = [long |-> item.long, pretokens |-> more]
        BY DEF ItemType
      <4> QED
        BY <2>2, <4>1, <4>2, <4>3, <4>4, Zenon
    <3>2. Added(items, txt, p) = [items EXCEPT ![Len(items)].pretokens = Append(@, p)]
      BY <1>2 DEF Added
    <3> QED
      BY <2>1, <3>1, <3>2, Zenon
  <2>5. [items EXCEPT ![Len(items)] = new] \in Seq(ItemType) /\ [items EXCEPT ![Len(items)] = new] # <<>>
    BY <2>1, <2>3
  <2> QED
    BY <1>2, <2>1, <2>2, <2>4, <2>5, Zenon
<1>3. CASE ~(/\ ~Long(txt, p) /\ items # <<>>
             /\ ~Last(items).long /\ Len(Last(items).pretokens) < BatchSize)
  <2>1. PICK new : new = [long |-> Long(txt, p), pretokens |-> <<p>>]
    BY Zenon
  <2>2. new \in ItemType
    BY <1>1, <2>1 DEF ItemType
  <2>3. Added(items, txt, p) = Append(items, new)
    BY <1>3, <2>1 DEF Added
  <2> QED
    BY <2>1, <2>2, <2>3
<1> QED
  BY <1>2, <1>3

\* Items is what Added makes of the pretokens one after the other.
LEMMA ItemsFold ==
    ASSUME NEW txt, txt \in Seq(Nat \ {0})
    PROVE  \E f : ItemsUpTo(f, txt)
<1>1. PICK n \in Nat : n = Len(txt) /\ DOMAIN txt = 1 .. n
  OBVIOUS
<1>2. PICK step : step = [k \in 1 .. n |-> [items \in Seq(ItemType) |-> Added(items, txt, k)]]
  BY Zenon
<1>3. step \in [1 .. n -> [Seq(ItemType) -> Seq(ItemType)]]
  <2>1. \A k \in 1 .. n : \A items \in Seq(ItemType) : Added(items, txt, k) \in Seq(ItemType)
    <3>1. \A k \in 1 .. n : k \in Nat
      OBVIOUS
    <3> QED
      BY <3>1, AddedItem, Zenon
  <2> QED
    BY <1>2, <2>1
<1>4. PICK g \in [SUBSET (1 .. n) -> Seq(ItemType)] : FoldsTo(g, n, <<>>, step)
  <2>1. <<>> \in Seq(ItemType)
    OBVIOUS
  <2> QED
    BY <1>3, <2>1, FoldExists, Zenon
<1> DEFINE Fold(h) == h = [r \in SUBSET (1 .. n) |-> IF r = {} THEN <<>> ELSE Added(h[r \ {Max(r)}], txt, Max(r))]
<1>5. \A r \in SUBSET (1 .. n) : r # {} => Max(r) \in 1 .. n /\ r \ {Max(r)} \in SUBSET (1 .. n)
  BY GreatestIn, Zenon
<1>6. Fold(g)
  BY <1>2, <1>4, <1>5, Zenon DEF FoldsTo
<1>7. PICK it : it = CHOOSE h : Fold(h)
  BY Zenon
<1>8. Fold(it)
  BY <1>6, <1>7, Zenon
<1>9. Items(txt) = it[1 .. n]
  BY <1>1, <1>5, <1>7, Zenon DEF Items, FoldLeft, MapThenFoldSet
<1>10. PICK f : f = [k \in 0 .. n |-> it[1 .. k]]
  BY Zenon
<1>11. f[0] = <<>> /\ Items(txt) = f[n]
  <2>1. 1 .. 0 = {} /\ {} \in SUBSET (1 .. n) /\ 0 \in 0 .. n /\ n \in 0 .. n
    OBVIOUS
  <2> QED
    BY <1>8, <1>9, <1>10, <2>1, Zenon
<1>12. ASSUME NEW k \in 1 .. n PROVE f[k] = Added(f[k - 1], txt, k)
  <2>1. 1 .. k \in SUBSET (1 .. n) /\ 1 .. k # {} /\ Max(1 .. k) = k /\ (1 .. k) \ {Max(1 .. k)} = 1 .. k - 1
        /\ k - 1 \in 0 .. n /\ k \in 0 .. n
    BY FirstNumbers, Zenon
  <2>2. it[1 .. k] = Added(it[(1 .. k) \ {Max(1 .. k)}], txt, Max(1 .. k))
    BY <1>8, <2>1, Zenon
  <2> QED
    BY <1>10, <2>1, <2>2, Zenon
<1> QED
  BY <1>1, <1>11, <1>12 DEF ItemsUpTo

\* What f has for the first numbers: base, and then what each step makes of the one before.
Recurses(f, n, base, step) == f[0] = base /\ \A k \in 1 .. n : f[k] = step[k][f[k - 1]]

\* A function that is defined by recursion over the first n numbers exists.
LEMMA Recursion ==
    ASSUME NEW State, NEW base \in State, NEW n \in Nat, NEW step \in [1 .. n -> [State -> State]]
    PROVE  \E f \in [0 .. n -> State] : Recurses(f, n, base, step)
<1>1. PICK g \in [SUBSET (1 .. n) -> State] : FoldsTo(g, n, base, step)
  BY FoldExists, Zenon
<1>2. PICK f : f = [k \in 0 .. n |-> g[1 .. k]]
  BY Zenon
<1>3. \A k \in 0 .. n : 1 .. k \in SUBSET (1 .. n)
  OBVIOUS
<1>4. f \in [0 .. n -> State]
  BY <1>2, <1>3
<1>5. f[0] = base
  <2>1. 1 .. 0 = {} /\ {} \in SUBSET (1 .. n) /\ 0 \in 0 .. n
    OBVIOUS
  <2> QED
    BY <1>1, <1>2, <2>1, Zenon DEF FoldsTo
<1>6. ASSUME NEW k \in 1 .. n PROVE f[k] = step[k][f[k - 1]]
  <2>1. 1 .. k \in SUBSET (1 .. n) /\ 1 .. k # {} /\ Max(1 .. k) = k /\ (1 .. k) \ {Max(1 .. k)} = 1 .. k - 1
        /\ k - 1 \in 0 .. n /\ k \in 0 .. n
    BY FirstNumbers, Zenon
  <2>2. g[1 .. k] = step[Max(1 .. k)][g[(1 .. k) \ {Max(1 .. k)}]]
    BY <1>1, <2>1 DEF FoldsTo
  <2> QED
    BY <1>2, <2>1, <2>2, Zenon
<1> QED
  BY <1>4, <1>5, <1>6 DEF Recurses

\* What holds of 0 and passes from each number below n to the next holds up to n.
LEMMA UpTo ==
    ASSUME NEW n \in Nat, NEW S, 0 \in S, \A k \in 0 .. n - 1 : k \in S => k + 1 \in S
    PROVE  0 .. n \subseteq S
<1>1. PICK T \in SUBSET Nat : T = {k \in Nat : k <= n => k \in S}
  BY Zenon
<1>2. 0 \in T /\ \A k \in T : k + 1 \in T
  <2>1. 0 \in T
    BY <1>1
  <2>2. ASSUME NEW k \in T PROVE k + 1 \in T
    <3>1. k + 1 \in Nat
      OBVIOUS
    <3>2. ASSUME k + 1 <= n PROVE k + 1 \in S
      <4>1. k \in 0 .. n - 1 /\ k <= n
        BY <3>2
      <4> QED
        BY <1>1, <4>1
    <3> QED
      BY <1>1, <3>1, <3>2
  <2> QED
    BY <2>1, <2>2
<1>3. T = Nat
  BY <1>2, Induction
<1> QED
  BY <1>1, <1>3

\* FlattenSeq by the sequences it has joined.
FlatUpTo(f, s, S) ==
    /\ f \in [0 .. Len(s) -> Seq(S)]
    /\ f[0] = <<>> /\ \A k \in 1 .. Len(s) : f[k] = f[k - 1] \o s[k]
    /\ FlattenSeq(s) = f[Len(s)]

\* FlattenSeq joins the sequences one after the other.
LEMMA FlatFold ==
    ASSUME NEW S, NEW s \in Seq(Seq(S))
    PROVE  \E f : FlatUpTo(f, s, S)
<1>1. PICK n \in Nat : n = Len(s) /\ DOMAIN s = 1 .. n
  OBVIOUS
<1>2. \A k \in 1 .. n : s[k] \in Seq(S)
  BY <1>1
<1>3. PICK State : State = Seq(S)
  OBVIOUS
<1>4. PICK step : step = [k \in 1 .. n |-> [q \in State |-> q \o s[k]]]
  BY Zenon
<1>5. PICK f \in [0 .. n -> State] : f[0] = <<>> /\ \A k \in 1 .. n : f[k] = step[k][f[k - 1]]
  <2>1. \A k \in 1 .. n : \A q \in State : q \o s[k] \in State
    BY <1>2, <1>3
  <2>2. step \in [1 .. n -> [State -> State]]
    BY <1>4, <2>1
  <2>3. PICK base \in State : base = <<>>
    <3>1. <<>> \in Seq(S)
      OBVIOUS
    <3> QED
      BY <1>3, <3>1, Zenon
  <2>4. \E f \in [0 .. n -> State] : Recurses(f, n, base, step)
    BY <2>2, Recursion
  <2> QED
    BY <2>3, <2>4 DEF Recurses
<1>6. \A k \in 1 .. n : k - 1 \in 0 .. n /\ k \in 0 .. n /\ f[k] = f[k - 1] \o s[k]
  <2>1. \A k \in 1 .. n : k - 1 \in 0 .. n /\ k \in 0 .. n
    OBVIOUS
  <2> QED
    BY <1>4, <1>5, <2>1, Zenon
<1>7. CASE n = 0
  <2>1. FlattenSeq(s) = s /\ s = <<>>
    BY <1>1, <1>7 DEF FlattenSeq
  <2> QED
    BY <1>1, <1>3, <1>5, <1>6, <1>7, <2>1 DEF FlatUpTo
<1>8. CASE n # 0
  <2> DEFINE Flat(h) == h = [i \in 1 .. n |-> IF i = 1 THEN s[i] ELSE h[i - 1] \o s[i]]
  <2>1. PICK g : g = [i \in 1 .. n |-> f[i]]
    OBVIOUS
  <2>2. Flat(g)
    <3>1. ASSUME NEW i \in 1 .. n PROVE g[i] = IF i = 1 THEN s[i] ELSE g[i - 1] \o s[i]
      <4>1. CASE i = 1
        <5>1. <<>> \o s[i] = s[i]
          BY <1>2
        <5>2. i - 1 = 0
          BY <4>1
        <5>3. f[i] = f[i - 1] \o s[i]
          BY <1>6, Zenon
        <5> QED
          BY <1>5, <2>1, <4>1, <5>1, <5>2, <5>3, Zenon
      <4>2. CASE i # 1
        <5>1. i - 1 \in 1 .. n
          BY <4>2
        <5> QED
          BY <1>6, <2>1, <4>2, <5>1, Zenon
      <4> QED
        BY <4>1, <4>2
    <3> QED
      BY <2>1, <3>1
  <2>3. PICK it : it = CHOOSE h : Flat(h)
    BY Zenon
  <2>4. Flat(it)
    BY <2>2, <2>3, Zenon
  <2>5. FlattenSeq(s) = it[n]
    BY <1>1, <1>8, <2>3 DEF FlattenSeq
  <2>6. PICK T : T = {k \in 0 .. n : k # 0 => it[k] = f[k]}
    BY Zenon
  <2>7. ASSUME NEW k \in 0 .. n - 1, k \in T PROVE k + 1 \in T
    <3>1. PICK j \in 1 .. n : j = k + 1 /\ j - 1 = k /\ j \in 0 .. n /\ (j = 1 <=> k = 0)
      OBVIOUS
    <3>2. f[j] = f[k] \o s[j]
      BY <1>6, <3>1, Zenon
    <3>3. it[j] = IF k = 0 THEN s[j] ELSE it[k] \o s[j]
      <4>1. it[j] = IF j = 1 THEN s[j] ELSE it[j - 1] \o s[j]
        BY <2>4, Zenon
      <4> QED
        BY <3>1, <4>1
    <3>4. k = 0 => f[k] \o s[j] = s[j]
      BY <1>2, <1>5, <3>1
    <3>5. k # 0 => it[k] = f[k]
      BY <2>6, <2>7
    <3>6. it[j] = f[j]
      BY <3>2, <3>3, <3>4, <3>5, Zenon
    <3> QED
      BY <2>6, <3>1, <3>6
  <2>8. 0 .. n \subseteq T
    <3>1. 0 \in T
      BY <2>6
    <3> QED
      BY <2>7, <3>1, UpTo, Zenon
  <2>9. it[n] = f[n]
    BY <1>8, <2>6, <2>8
  <2> QED
    BY <1>1, <1>3, <1>5, <1>6, <2>5, <2>9, Zenon DEF FlatUpTo
<1> QED
  BY <1>7, <1>8

\* Where each sequence is in what l of them give, and that there is nothing else.
PlacedUpTo(at, q, s, l) ==
    /\ \A k \in 1 .. l : /\ at[k] = at[k - 1] + Len(s[k]) /\ at[k] <= at[l]
                         /\ \A j \in 1 .. Len(s[k]) : q[at[k - 1] + j] = s[k][j]
    /\ \A m \in 1 .. at[l] : \E k \in 1 .. l : \E j \in 1 .. Len(s[k]) : m = at[k - 1] + j
Places(at, s, S) ==
    /\ FlattenSeq(s) \in Seq(S)
    /\ at \in [0 .. Len(s) -> Nat] /\ at[0] = 0 /\ at[Len(s)] = Len(FlattenSeq(s))
    /\ PlacedUpTo(at, FlattenSeq(s), s, Len(s))

\* One more sequence keeps the places of those before it.
LEMMA PlacedNext ==
    ASSUME NEW S, NEW s \in Seq(Seq(S)), NEW l \in 1 .. Len(s), NEW at \in [0 .. Len(s) -> Nat],
           NEW q \in Seq(S), NEW more, more = q \o s[l],
           Len(q) = at[l - 1], at[l] = at[l - 1] + Len(s[l]), PlacedUpTo(at, q, s, l - 1)
    PROVE  PlacedUpTo(at, more, s, l)
<1>1. s[l] \in Seq(S) /\ l - 1 \in Nat /\ l - 1 \in 0 .. Len(s) /\ l \in 0 .. Len(s) /\ at[l - 1] \in Nat /\ at[l] \in Nat
      /\ Len(s[l]) \in Nat
  OBVIOUS
<1>2. \A m \in 1 .. at[l - 1] : more[m] = q[m]
  BY <1>1
<1>3. \A j \in 1 .. Len(s[l]) : more[at[l - 1] + j] = s[l][j]
  <2>1. PICK t \in Seq(S) : t = s[l]
    BY <1>1
  <2>2. PICK a \in Nat, b \in Nat : a = Len(q) /\ b = Len(t)
    OBVIOUS
  <2>3. \A i \in 1 .. a + b : (q \o t)[i] = IF i <= a THEN q[i] ELSE t[i - a]
    <3>1. \A i \in 1 .. Len(q) + Len(t) : (q \o t)[i] = IF i <= Len(q) THEN q[i] ELSE t[i - Len(q)]
      BY ConcatPlaces, Zenon
    <3> QED
      BY <2>2, <3>1
  <2>4. \A j \in 1 .. b : a + j \in 1 .. a + b /\ ~(a + j <= a) /\ (a + j) - a = j
    OBVIOUS
  <2>5. \A j \in 1 .. b : (q \o t)[a + j] = t[j]
    BY <2>3, <2>4, Zenon
  <2> QED
    BY <2>1, <2>2, <2>5
<1>4. ASSUME NEW k \in 1 .. l
      PROVE  /\ at[k] = at[k - 1] + Len(s[k]) /\ at[k] <= at[l]
             /\ \A j \in 1 .. Len(s[k]) : more[at[k - 1] + j] = s[k][j]
  <2>1. k \in Nat /\ k - 1 \in 0 .. Len(s) /\ k \in 0 .. Len(s) /\ at[k - 1] \in Nat /\ at[k] \in Nat
    <3>1. PICK n \in Nat : n = Len(s) /\ l \in 1 .. n
      OBVIOUS
    <3>2. k \in Nat /\ k - 1 \in 0 .. n /\ k \in 0 .. n
      BY <3>1
    <3> QED
      BY <3>1, <3>2, Zenon
  <2>2. CASE k = l
    <3>1. at[l] <= at[l]
      BY <1>1
    <3>2. at[l] = at[l - 1] + Len(s[l])
      OBVIOUS
    <3> QED
      BY <1>3, <2>2, <3>1, <3>2
  <2>3. CASE k # l
    <3>1. k \in 1 .. l - 1
      BY <1>1, <2>3
    <3>2. at[k] = at[k - 1] + Len(s[k]) /\ at[k] <= at[l - 1] /\ \A j \in 1 .. Len(s[k]) : q[at[k - 1] + j] = s[k][j]
      BY <3>1 DEF PlacedUpTo
    <3>3. k \in 1 .. Len(s)
      BY <2>1
    <3>4. s[k] \in Seq(S) /\ Len(s[k]) \in Nat
      BY <3>3
    <3>5. ASSUME NEW j \in 1 .. Len(s[k]) PROVE more[at[k - 1] + j] = s[k][j]
      <4>1. PICK a \in Nat, b \in Nat, c \in Nat, d \in Nat : a = at[k - 1] /\ b = at[k] /\ c = at[l - 1] /\ d = Len(s[k])
        BY <1>1, <2>1, <3>4
      <4>2. b = a + d /\ b <= c /\ j \in 1 .. d
        BY <3>2, <4>1
      <4>3. a + j \in 1 .. c
        BY <4>2
      <4>4. at[k - 1] + j \in 1 .. at[l - 1]
        BY <4>1, <4>3
      <4> QED
        BY <1>2, <3>2, <4>4
    <3>6. at[l - 1] <= at[l]
      BY <1>1
    <3>7. at[k] <= at[l]
      BY <1>1, <2>1, <3>2, <3>6
    <3> QED
      BY <3>2, <3>5, <3>7, Zenon
  <2> QED
    BY <2>2, <2>3, Zenon
<1>5. ASSUME NEW m \in 1 .. at[l] PROVE \E k \in 1 .. l : \E j \in 1 .. Len(s[k]) : m = at[k - 1] + j
  <2>1. CASE m <= at[l - 1]
    <3>1. m \in 1 .. at[l - 1]
      BY <1>1, <2>1
    <3>2. PICK k \in 1 .. l - 1 : \E j \in 1 .. Len(s[k]) : m = at[k - 1] + j
      BY <3>1 DEF PlacedUpTo
    <3>3. k \in 1 .. l
      BY <1>1
    <3> QED
      BY <3>2, <3>3
  <2>2. CASE ~(m <= at[l - 1])
    <3>1. PICK a \in Nat, b \in Nat, d \in Nat : a = at[l - 1] /\ b = at[l] /\ d = Len(s[l])
      BY <1>1
    <3>2. m \in 1 .. b /\ ~(m <= a) /\ b = a + d
      BY <2>2, <3>1
    <3>3. PICK j : j = m - a
      OBVIOUS
    <3>4. j \in 1 .. d /\ m = a + j
      BY <3>2, <3>3
    <3>5. l \in 1 .. l
      OBVIOUS
    <3> QED
      BY <3>1, <3>4, <3>5
  <2> QED
    BY <2>1, <2>2
<1> QED
  BY <1>4, <1>5, Zenon DEF PlacedUpTo

\* Every place of the flattened sequence is one of one sequence in it.
LEMMA FlatPlaces ==
    ASSUME NEW S, NEW s \in Seq(Seq(S))
    PROVE  \E at : Places(at, s, S)
<1>1. PICK f : FlatUpTo(f, s, S)
  BY FlatFold
<1>2. PICK n \in Nat : n = Len(s)
  OBVIOUS
<1>3. f \in [0 .. n -> Seq(S)] /\ f[0] = <<>> /\ (\A k \in 1 .. n : f[k] = f[k - 1] \o s[k]) /\ FlattenSeq(s) = f[n]
  BY <1>1, <1>2, Zenon DEF FlatUpTo
<1>4. PICK at : at = [k \in 0 .. n |-> Len(f[k])]
  BY Zenon
<1>5. at \in [0 .. n -> Nat] /\ at[0] = 0 /\ at[n] = Len(FlattenSeq(s)) /\ FlattenSeq(s) \in Seq(S)
  <2>1. \A k \in 0 .. n : Len(f[k]) \in Nat
    BY <1>3
  <2>2. 0 \in 0 .. n /\ n \in 0 .. n /\ Len(f[0]) = 0
    BY <1>3
  <2> QED
    BY <1>3, <1>4, <2>1, <2>2
<1>6. PICK T : T = {k \in 0 .. n : PlacedUpTo(at, f[k], s, k)}
  BY Zenon
<1>7. 0 \in T
  <2>1. PlacedUpTo(at, f[0], s, 0)
    BY <1>5 DEF PlacedUpTo
  <2> QED
    BY <1>6, <2>1
<1>8. ASSUME NEW k \in 0 .. n - 1, k \in T PROVE k + 1 \in T
  <2>1. PICK l \in 1 .. n : l = k + 1 /\ l - 1 = k /\ l \in 0 .. n /\ k \in 0 .. n
    OBVIOUS
  <2>2. PICK q \in Seq(S) : q = f[k]
    BY <1>3, <2>1
  <2>3. f[l] = q \o s[l] /\ s[l] \in Seq(S) /\ PlacedUpTo(at, q, s, k)
    <3>1. f[l] = f[l - 1] \o s[l]
      BY <1>3, Zenon
    <3>2. l \in 1 .. Len(s)
      BY <1>2
    <3> QED
      BY <1>6, <1>8, <2>1, <2>2, <3>1, <3>2
  <2>4. Len(q) = at[k] /\ at[l] = at[k] + Len(s[l])
    <3>1. Len(q \o s[l]) = Len(q) + Len(s[l])
      BY <2>3
    <3> QED
      BY <1>4, <2>1, <2>2, <2>3, <3>1, Zenon
  <2>5. PICK more : more = f[l]
    OBVIOUS
  <2>6. PlacedUpTo(at, more, s, l)
    <3>1. l \in 1 .. Len(s) /\ at \in [0 .. Len(s) -> Nat] /\ PlacedUpTo(at, q, s, l - 1) /\ more = q \o s[l]
          /\ Len(q) = at[l - 1] /\ at[l] = at[l - 1] + Len(s[l])
      BY <1>2, <1>5, <2>1, <2>3, <2>4, <2>5
    <3> QED
      BY <3>1, PlacedNext, Zenon
  <2> QED
    BY <1>6, <2>1, <2>5, <2>6
<1>9. PlacedUpTo(at, f[n], s, n)
  <2>1. 0 .. n \subseteq T
    BY <1>7, <1>8, UpTo
  <2>2. n \in 0 .. n
    OBVIOUS
  <2> QED
    BY <1>6, <2>1, <2>2
<1> QED
  BY <1>2, <1>3, <1>5, <1>9 DEF Places

\* Sequences with one more element.
LEMMA AppendFacts ==
    ASSUME NEW X, NEW x \in Seq(X), NEW y \in X
    PROVE  /\ Append(x, y) \in Seq(X) /\ Len(Append(x, y)) = Len(x) + 1 /\ Append(x, y)[Len(x) + 1] = y
           /\ \A k \in 1 .. Len(x) : Append(x, y)[k] = x[k]
           /\ <<>> \in Seq(X) /\ Len(x) \in Nat /\ DOMAIN x = 1 .. Len(x)
OBVIOUS

\* What joins the sequences one after the other ends with FlattenSeq.
LEMMA FlatUnique ==
    ASSUME NEW S, NEW s \in Seq(Seq(S)), NEW g, g[0] = <<>>, \A k \in 1 .. Len(s) : g[k] = g[k - 1] \o s[k]
    PROVE  FlattenSeq(s) = g[Len(s)]
<1>1. PICK f : FlatUpTo(f, s, S)
  BY FlatFold
<1>2. PICK n \in Nat : n = Len(s)
  OBVIOUS
<1>3. f[0] = <<>> /\ (\A k \in 1 .. n : f[k] = f[k - 1] \o s[k]) /\ FlattenSeq(s) = f[n]
  BY <1>1, <1>2, Zenon DEF FlatUpTo
<1>4. PICK T : T = {k \in 0 .. n : g[k] = f[k]}
  BY Zenon
<1>5. 0 \in T
  BY <1>3, <1>4
<1>6. ASSUME NEW k \in 0 .. n - 1, k \in T PROVE k + 1 \in T
  <2>1. PICK l \in 1 .. n : l = k + 1 /\ l - 1 = k /\ l \in 0 .. n
    OBVIOUS
  <2>2. f[l] = f[l - 1] \o s[l] /\ g[l] = g[l - 1] \o s[l]
    BY <1>2, <1>3, Zenon
  <2>3. g[k] = f[k]
    BY <1>4, <1>6
  <2> QED
    BY <1>4, <2>1, <2>2, <2>3, Zenon
<1>7. 0 .. n \subseteq T
  BY <1>5, <1>6, UpTo, Zenon
<1>8. n \in 0 .. n
  OBVIOUS
<1> QED
  BY <1>2, <1>3, <1>4, <1>7, <1>8

\* No sequence, one more sequence, one sequence only.
LEMMA FlatAppend ==
    ASSUME NEW S, NEW s \in Seq(Seq(S)), NEW q \in Seq(S)
    PROVE  /\ FlattenSeq(s) \in Seq(S) /\ FlattenSeq(<<>>) = <<>> /\ FlattenSeq(<<q>>) = q
           /\ FlattenSeq(Append(s, q)) = FlattenSeq(s) \o q
<1>1. PICK f : FlatUpTo(f, s, S)
  BY FlatFold
<1>2. PICK n \in Nat : n = Len(s)
  OBVIOUS
<1>3. f \in [0 .. n -> Seq(S)] /\ f[0] = <<>> /\ (\A k \in 1 .. n : f[k] = f[k - 1] \o s[k]) /\ FlattenSeq(s) = f[n]
  BY <1>1, <1>2, Zenon DEF FlatUpTo
<1>4. FlattenSeq(s) \in Seq(S)
  <2>1. n \in 0 .. n
    OBVIOUS
  <2> QED
    BY <1>3, <2>1
<1>5. FlattenSeq(<<>>) = <<>>
  <2>1. Len(<<>>) = 0
    OBVIOUS
  <2> QED
    BY <2>1 DEF FlattenSeq
<1>6. ASSUME NEW t \in Seq(Seq(S)), NEW m \in Nat, NEW h, m = Len(t), FlatUpTo(h, t, S)
      PROVE  FlattenSeq(Append(t, q)) = FlattenSeq(t) \o q
  <2>1. h[0] = <<>> /\ (\A k \in 1 .. m : h[k] = h[k - 1] \o t[k]) /\ FlattenSeq(t) = h[m]
    BY <1>6, Zenon DEF FlatUpTo
  <2>2. PICK r \in Seq(Seq(S)) : r = Append(t, q)
    BY AppendFacts, Zenon
  <2>3. Len(r) = m + 1 /\ r[m + 1] = q /\ \A k \in 1 .. m : r[k] = t[k]
    BY <1>6, <2>2, AppendFacts
  <2>4. PICK g : g = [k \in 0 .. m + 1 |-> IF k = m + 1 THEN h[m] \o q ELSE h[k]]
    BY Zenon
  <2>5. g[0] = <<>> /\ g[m + 1] = h[m] \o q
    <3>1. 0 \in 0 .. m + 1 /\ m + 1 \in 0 .. m + 1 /\ 0 # m + 1
      OBVIOUS
    <3> QED
      BY <2>1, <2>4, <3>1
  <2>6. ASSUME NEW k \in 1 .. m + 1 PROVE g[k] = g[k - 1] \o r[k]
    <3>1. k \in 0 .. m + 1 /\ k - 1 \in 0 .. m + 1 /\ k - 1 # m + 1 /\ (k # m + 1 => k \in 1 .. m) /\ m + 1 - 1 = m
      OBVIOUS
    <3>2. g[k - 1] = h[k - 1]
      BY <2>4, <3>1
    <3>3. CASE k = m + 1
      <4>1. g[k - 1] = h[m] /\ r[k] = q /\ g[k] = h[m] \o q
        BY <2>3, <2>5, <3>1, <3>2, <3>3
      <4> QED
        BY <4>1
    <3>4. CASE k # m + 1
      <4>1. g[k] = h[k]
        BY <2>4, <3>1, <3>4
      <4>2. h[k] = h[k - 1] \o t[k] /\ r[k] = t[k]
        BY <2>1, <2>3, <3>1, <3>4, Zenon
      <4> QED
        BY <3>2, <4>1, <4>2
    <3> QED
      BY <3>3, <3>4, Zenon
  <2>7. \A k \in 1 .. Len(r) : g[k] = g[k - 1] \o r[k]
    BY <2>3, <2>6
  <2>8. FlattenSeq(r) = g[Len(r)]
    BY <2>5, <2>7, FlatUnique, Zenon
  <2> QED
    BY <2>1, <2>2, <2>3, <2>5, <2>8
<1>7. FlattenSeq(Append(s, q)) = FlattenSeq(s) \o q
  BY <1>1, <1>2, <1>6
<1>8. FlattenSeq(<<q>>) = q
  <2>1. PICK t \in Seq(Seq(S)) : t = <<>>
    BY AppendFacts, Zenon
  <2>2. PICK h : FlatUpTo(h, t, S)
    BY FlatFold
  <2>3. 0 = Len(t) /\ 0 \in Nat
    BY <2>1
  <2>4. FlattenSeq(Append(t, q)) = FlattenSeq(t) \o q
    BY <1>6, <2>2, <2>3, Zenon
  <2>5. Append(t, q) = <<q>> /\ <<>> \o q = q
    BY <2>1
  <2> QED
    BY <1>5, <2>1, <2>4, <2>5
<1> QED
  BY <1>4, <1>5, <1>7, <1>8

\* What is in the flattened sequence is in one of the sequences.
LEMMA FlatMember ==
    ASSUME NEW S, NEW s \in Seq(Seq(S)), NEW m \in DOMAIN FlattenSeq(s)
    PROVE  \E k \in DOMAIN s : \E j \in DOMAIN s[k] : FlattenSeq(s)[m] = s[k][j]
<1>1. PICK at : Places(at, s, S)
  BY FlatPlaces
<1>2. m \in 1 .. at[Len(s)] /\ PlacedUpTo(at, FlattenSeq(s), s, Len(s))
  BY <1>1 DEF Places
<1>3. PICK k \in 1 .. Len(s) : \E j \in 1 .. Len(s[k]) : m = at[k - 1] + j
  BY <1>2, Zenon DEF PlacedUpTo
<1>4. PICK j \in 1 .. Len(s[k]) : m = at[k - 1] + j
  BY <1>3
<1>5. FlattenSeq(s)[m] = s[k][j]
  BY <1>2, <1>4 DEF PlacedUpTo
<1>6. k \in DOMAIN s /\ j \in DOMAIN s[k]
  OBVIOUS
<1> QED
  BY <1>5, <1>6

\* \o is associative.
LEMMA Associative ==
    ASSUME NEW X, NEW x \in Seq(X), NEW y \in Seq(X), NEW z \in Seq(X)
    PROVE  x \o y \in Seq(X) /\ (x \o y) \o z = x \o (y \o z)
BY ConcatAssociative

\* t is s with q at the end of its last sequence, the n-th.
LastExtended(s, t, q, n) == Len(s) = n /\ Len(t) = n /\ t[n] = s[n] \o q /\ \A k \in 1 .. n - 1 : t[k] = s[k]

\* More at the end of the last sequence.
LEMMA FlatLast ==
    ASSUME NEW S, NEW s \in Seq(Seq(S)), NEW t \in Seq(Seq(S)), NEW q \in Seq(S), NEW n \in Nat \ {0},
           LastExtended(s, t, q, n)
    PROVE  FlattenSeq(t) = FlattenSeq(s) \o q
<1>0. Len(s) = n /\ Len(t) = n /\ t[n] = s[n] \o q /\ \A k \in 1 .. n - 1 : t[k] = s[k]
  BY DEF LastExtended
<1>1. PICK f : FlatUpTo(f, s, S)
  BY FlatFold
<1>2. f \in [0 .. n -> Seq(S)] /\ f[0] = <<>> /\ (\A k \in 1 .. n : f[k] = f[k - 1] \o s[k]) /\ FlattenSeq(s) = f[n]
  BY <1>0, <1>1, Zenon DEF FlatUpTo
<1>3. PICK g : g = [k \in 0 .. n |-> IF k = n THEN f[n] \o q ELSE f[k]]
  BY Zenon
<1>4. g[0] = <<>> /\ g[n] = f[n] \o q
  <2>1. 0 \in 0 .. n /\ n \in 0 .. n /\ 0 # n
    OBVIOUS
  <2> QED
    BY <1>2, <1>3, <2>1
<1>5. ASSUME NEW k \in 1 .. n PROVE g[k] = g[k - 1] \o t[k]
  <2>1. k \in 0 .. n /\ k - 1 \in 0 .. n /\ k - 1 # n /\ (k # n => k \in 1 .. n - 1)
    OBVIOUS
  <2>2. g[k - 1] = f[k - 1] /\ f[k] = f[k - 1] \o s[k] /\ f[k - 1] \in Seq(S)
    BY <1>2, <1>3, <2>1, Zenon
  <2>3. CASE k = n
    <3>1. s[n] \in Seq(S)
      <4>1. n \in 1 .. Len(s)
        BY <1>0
      <4> QED
        BY <4>1
    <3>2. PICK a \in Seq(S), b \in Seq(S) : a = f[k - 1] /\ b = s[n]
      BY <2>2, <3>1
    <3>3. (a \o b) \o q = a \o (b \o q)
      <4>1. q \in Seq(S) /\ a \in Seq(S) /\ b \in Seq(S)
        OBVIOUS
      <4>2. a \o b \in Seq(S) /\ (a \o b) \o q = a \o (b \o q)
        BY <4>1, Associative
      <4> QED
        BY <4>2
    <3>4. f[n] = a \o b /\ t[n] = b \o q /\ g[k - 1] = a
      BY <1>0, <2>2, <2>3, <3>2
    <3> QED
      BY <1>4, <2>3, <3>3, <3>4, Zenon
  <2>4. CASE k # n
    <3>1. g[k] = f[k] /\ t[k] = s[k]
      BY <1>0, <1>3, <2>1, <2>4
    <3> QED
      BY <2>2, <3>1
  <2> QED
    BY <2>3, <2>4, Zenon
<1>6. \A k \in 1 .. Len(t) : g[k] = g[k - 1] \o t[k]
  BY <1>0, <1>5
<1>7. FlattenSeq(t) = g[Len(t)]
  BY <1>4, <1>6, FlatUnique, Zenon
<1> QED
  BY <1>0, <1>2, <1>4, <1>7, Zenon

(***************************************************************************)
(* Totals                                                                  *)
(***************************************************************************)
\* The total of the first k.
TotalUpTo(f, s) ==
    /\ f \in [0 .. Len(s) -> Nat]
    /\ f[0] = 0 /\ \A k \in 1 .. Len(s) : f[k] = f[k - 1] + s[k]
    /\ Total(s) = f[Len(s)]

\* A total adds one number after the other.
LEMMA TotalFold ==
    ASSUME NEW s \in Seq(Nat)
    PROVE  \E f : TotalUpTo(f, s)
<1>1. PICK n \in Nat : n = Len(s) /\ DOMAIN s = 1 .. n
  OBVIOUS
<1>2. \A k \in 1 .. n : s[k] \in Nat
  BY <1>1
<1>3. PICK step : step = [k \in 1 .. n |-> [m \in Nat |-> m + s[k]]]
  BY Zenon
<1>4. step \in [1 .. n -> [Nat -> Nat]]
  <2>1. \A k \in 1 .. n : \A m \in Nat : m + s[k] \in Nat
    BY <1>2
  <2> QED
    BY <1>3, <2>1, Zenon
<1>5. PICK g \in [SUBSET (1 .. n) -> Nat] : FoldsTo(g, n, 0, step)
  <2>1. 0 \in Nat
    OBVIOUS
  <2> QED
    BY <1>4, <2>1, FoldExists, Zenon
<1> DEFINE Fold(h) == h = [r \in SUBSET (1 .. n) |-> IF r = {} THEN 0 ELSE h[r \ {Max(r)}] + s[Max(r)]]
<1>6. \A r \in SUBSET (1 .. n) : r # {} => Max(r) \in 1 .. n /\ r \ {Max(r)} \in SUBSET (1 .. n)
  BY GreatestIn, Zenon
<1>7. Fold(g)
  <2>1. ASSUME NEW r \in SUBSET (1 .. n) PROVE g[r] = IF r = {} THEN 0 ELSE g[r \ {Max(r)}] + s[Max(r)]
    <3>1. CASE r = {}
      BY <1>5, <3>1, Zenon DEF FoldsTo
    <3>2. CASE r # {}
      <4>1. PICK k \in 1 .. n : k = Max(r)
        BY <1>6, <3>2
      <4>2. PICK m \in Nat : m = g[r \ {k}]
        BY <1>5, <1>6, <3>2, <4>1
      <4>3. step[k][m] = m + s[k]
        BY <1>3
      <4>4. g[r] = step[k][m]
        BY <1>5, <3>2, <4>1, <4>2, Zenon DEF FoldsTo
      <4> QED
        BY <3>2, <4>1, <4>2, <4>3, <4>4, Zenon
    <3> QED
      BY <3>1, <3>2
  <2> QED
    BY <1>5, <2>1, Zenon
<1>8. PICK it : it = CHOOSE h : Fold(h)
  BY Zenon
<1>9. Fold(it)
  BY <1>7, <1>8, Zenon
<1>10. Total(s) = it[1 .. n]
  BY <1>1, <1>6, <1>8 DEF Total, FoldLeft, MapThenFoldSet
<1>11. PICK f : f = [k \in 0 .. n |-> it[1 .. k]]
  BY Zenon
<1>12. f[0] = 0 /\ Total(s) = f[n]
  <2>1. 1 .. 0 = {} /\ {} \in SUBSET (1 .. n) /\ 0 \in 0 .. n /\ n \in 0 .. n
    OBVIOUS
  <2> QED
    BY <1>9, <1>10, <1>11, <2>1, Zenon
<1>13. ASSUME NEW k \in 1 .. n PROVE k \in 0 .. n /\ k - 1 \in 0 .. n /\ f[k] = f[k - 1] + s[k]
  <2>1. 1 .. k \in SUBSET (1 .. n) /\ 1 .. k # {} /\ Max(1 .. k) = k /\ (1 .. k) \ {Max(1 .. k)} = 1 .. k - 1
        /\ k - 1 \in 0 .. n /\ k \in 0 .. n
    BY FirstNumbers, Zenon
  <2>2. it[1 .. k] = it[(1 .. k) \ {Max(1 .. k)}] + s[Max(1 .. k)]
    BY <1>9, <2>1, Zenon
  <2> QED
    BY <1>11, <2>1, <2>2, Zenon
<1>14. f \in [0 .. n -> Nat]
  <2>1. PICK T : T = {k \in 0 .. n : f[k] \in Nat}
    BY Zenon
  <2>2. 0 \in T
    BY <1>12, <2>1
  <2>3. ASSUME NEW k \in 0 .. n - 1, k \in T PROVE k + 1 \in T
    <3>1. PICK l \in 1 .. n : l = k + 1 /\ l - 1 = k
      OBVIOUS
    <3>2. f[l] = f[k] + s[l] /\ l \in 0 .. n
      BY <1>13, <3>1
    <3>3. f[k] \in Nat /\ s[l] \in Nat
      BY <1>2, <2>1, <2>3
    <3> QED
      BY <2>1, <3>1, <3>2, <3>3
  <2>4. 0 .. n \subseteq T
    BY <2>2, <2>3, UpTo, Zenon
  <2> QED
    BY <1>11, <2>1, <2>4
<1> QED
  BY <1>1, <1>12, <1>13, <1>14, Zenon DEF TotalUpTo

\* What adds one number after the other ends with the total.
LEMMA TotalUnique ==
    ASSUME NEW s \in Seq(Nat), NEW g, g[0] = 0, \A k \in 1 .. Len(s) : g[k] = g[k - 1] + s[k]
    PROVE  Total(s) = g[Len(s)]
<1>1. PICK f : TotalUpTo(f, s)
  BY TotalFold
<1>2. PICK n \in Nat : n = Len(s)
  OBVIOUS
<1>3. f[0] = 0 /\ (\A k \in 1 .. n : f[k] = f[k - 1] + s[k]) /\ Total(s) = f[n]
  BY <1>1, <1>2 DEF TotalUpTo
<1>4. PICK T : T = {k \in 0 .. n : g[k] = f[k]}
  BY Zenon
<1>5. 0 \in T
  BY <1>3, <1>4
<1>6. ASSUME NEW k \in 0 .. n - 1, k \in T PROVE k + 1 \in T
  <2>1. PICK l \in 1 .. n : l = k + 1 /\ l - 1 = k /\ l \in 0 .. n
    OBVIOUS
  <2>2. f[l] = f[l - 1] + s[l] /\ g[l] = g[l - 1] + s[l]
    BY <1>2, <1>3
  <2>3. g[k] = f[k]
    BY <1>4, <1>6
  <2> QED
    BY <1>4, <2>1, <2>2, <2>3
<1>7. 0 .. n \subseteq T
  BY <1>5, <1>6, UpTo
<1>8. n \in 0 .. n
  OBVIOUS
<1> QED
  BY <1>2, <1>3, <1>4, <1>7, <1>8

\* What each change of the numbers does to their total.
LEMMA TotalZero ==
    ASSUME NEW s \in Seq(Nat), \A k \in DOMAIN s : s[k] = 0
    PROVE  Total(s) = 0
<1>1. PICK n \in Nat : n = Len(s)
  OBVIOUS
<1>2. PICK g : g = [k \in 0 .. n |-> 0]
  BY Zenon
<1>3. g[0] = 0 /\ g[n] = 0
  BY <1>2
<1>4. ASSUME NEW k \in 1 .. Len(s) PROVE g[k] = g[k - 1] + s[k]
  <2>1. k \in 0 .. n /\ k - 1 \in 0 .. n /\ k \in DOMAIN s
    BY <1>1
  <2>2. g[k] = 0 /\ g[k - 1] = 0 /\ s[k] = 0
    BY <1>2, <2>1
  <2> QED
    BY <2>2
<1>5. Total(s) = g[Len(s)]
  BY <1>3, <1>4, TotalUnique
<1> QED
  BY <1>1, <1>3, <1>5

\* The total of some counts is a number.
LEMMA TotalNat ==
    ASSUME NEW s \in Seq(Nat)
    PROVE  Total(s) \in Nat
<1>1. PICK f : TotalUpTo(f, s)
  BY TotalFold
<1>2. Len(s) \in 0 .. Len(s)
  OBVIOUS
<1> QED
  BY <1>1, <1>2 DEF TotalUpTo

\* When one count grows, the total grows by as much.
LEMMA TotalChange ==
    ASSUME NEW s \in Seq(Nat), NEW t \in Seq(Nat), NEW i \in 1 .. Len(s), NEW d \in Nat,
           Len(t) = Len(s), t[i] = s[i] + d, \A k \in 1 .. Len(s) : k # i => t[k] = s[k]
    PROVE  Total(t) = Total(s) + d
<1>1. PICK n \in Nat : n = Len(s)
  OBVIOUS
<1>2. PICK f : TotalUpTo(f, s)
  BY TotalFold
<1>3. f \in [0 .. n -> Nat] /\ f[0] = 0 /\ (\A k \in 1 .. n : f[k] = f[k - 1] + s[k]) /\ Total(s) = f[n]
  BY <1>1, <1>2 DEF TotalUpTo
<1>4. PICK g : g = [k \in 0 .. n |-> IF i <= k THEN f[k] + d ELSE f[k]]
  BY Zenon
<1>5. g[0] = 0 /\ g[n] = f[n] + d
  <2>1. 0 \in 0 .. n /\ n \in 0 .. n /\ ~(i <= 0) /\ i <= n
    BY <1>1
  <2> QED
    BY <1>3, <1>4, <2>1
<1>6. ASSUME NEW k \in 1 .. n PROVE g[k] = g[k - 1] + t[k]
  <2>1. k \in 0 .. n /\ k - 1 \in 0 .. n /\ (i <= k /\ k # i => i <= k - 1) /\ (i <= k - 1 => i <= k /\ k # i) /\ i <= i
        /\ k \in 1 .. Len(s)
    BY <1>1
  <2>2. f[k] = f[k - 1] + s[k] /\ f[k - 1] \in Nat /\ s[k] \in Nat
    <3>1. s[k] \in Nat
      BY <2>1
    <3>2. f[k - 1] \in Nat
      BY <1>3, <2>1
    <3> QED
      BY <1>3, <3>1, <3>2
  <2>3. PICK a \in Nat, b \in Nat : a = f[k - 1] /\ b = s[k]
    BY <2>2
  <2>4. f[k] = a + b /\ g[k] = (IF i <= k THEN a + b + d ELSE a + b) /\ g[k - 1] = (IF i <= k - 1 THEN a + d ELSE a)
    BY <1>4, <2>1, <2>2, <2>3, Zenon
  <2>5. t[k] = IF k = i THEN b + d ELSE b
    BY <2>1, <2>3
  <2>6. CASE k = i
    BY <2>1, <2>4, <2>5, <2>6
  <2>7. CASE k # i /\ i <= k
    BY <2>1, <2>4, <2>5, <2>7
  <2>8. CASE ~(i <= k)
    BY <2>1, <2>4, <2>5, <2>8
  <2> QED
    BY <2>6, <2>7, <2>8
<1>7. \A k \in 1 .. Len(t) : g[k] = g[k - 1] + t[k]
  BY <1>1, <1>6
<1>8. Total(t) = g[Len(t)]
  BY <1>5, <1>7, TotalUnique
<1> QED
  BY <1>1, <1>3, <1>5, <1>8

\* The total of sums is the sum of the totals.
LEMMA TotalPlus ==
    ASSUME NEW s \in Seq(Nat), NEW t \in Seq(Nat), NEW u \in Seq(Nat), Len(t) = Len(s), Len(u) = Len(s),
           \A k \in 1 .. Len(s) : u[k] = s[k] + t[k]
    PROVE  Total(u) = Total(s) + Total(t)
<1>1. PICK n \in Nat : n = Len(s)
  OBVIOUS
<1>2. PICK f : TotalUpTo(f, s)
  BY TotalFold
<1>3. f \in [0 .. n -> Nat] /\ f[0] = 0 /\ (\A k \in 1 .. n : f[k] = f[k - 1] + s[k]) /\ Total(s) = f[n]
  BY <1>1, <1>2 DEF TotalUpTo
<1>4. PICK h : TotalUpTo(h, t)
  BY TotalFold
<1>5. h \in [0 .. n -> Nat] /\ h[0] = 0 /\ (\A k \in 1 .. n : h[k] = h[k - 1] + t[k]) /\ Total(t) = h[n]
  BY <1>1, <1>4 DEF TotalUpTo
<1>6. PICK g : g = [k \in 0 .. n |-> f[k] + h[k]]
  BY Zenon
<1>7. g[0] = 0 /\ g[n] = f[n] + h[n]
  BY <1>3, <1>5, <1>6
<1>8. ASSUME NEW k \in 1 .. n PROVE g[k] = g[k - 1] + u[k]
  <2>1. k \in 0 .. n /\ k - 1 \in 0 .. n /\ k \in 1 .. Len(s) /\ k \in 1 .. Len(t)
    BY <1>1
  <2>2. f[k - 1] \in Nat /\ s[k] \in Nat /\ h[k - 1] \in Nat /\ t[k] \in Nat
    <3>1. s[k] \in Nat /\ t[k] \in Nat
      BY <2>1
    <3>2. f[k - 1] \in Nat
      BY <1>3, <2>1
    <3>3. h[k - 1] \in Nat
      BY <1>5, <2>1
    <3> QED
      BY <3>1, <3>2, <3>3
  <2>3. PICK a \in Nat, b \in Nat, c \in Nat, d \in Nat : a = f[k - 1] /\ b = s[k] /\ c = h[k - 1] /\ d = t[k]
    BY <2>2, Zenon
  <2>4. f[k] = a + b /\ h[k] = c + d /\ u[k] = b + d
    BY <1>3, <1>5, <2>1, <2>3
  <2>5. g[k] = (a + b) + (c + d) /\ g[k - 1] = a + c
    BY <1>6, <2>1, <2>3, <2>4
  <2> QED
    BY <2>4, <2>5
<1>9. \A k \in 1 .. Len(u) : g[k] = g[k - 1] + u[k]
  BY <1>1, <1>8
<1>10. Total(u) = g[Len(u)]
  BY <1>7, <1>9, TotalUnique
<1> QED
  BY <1>1, <1>3, <1>5, <1>7, <1>10

\* One more count adds to the total.
LEMMA TotalAppend ==
    ASSUME NEW s \in Seq(Nat), NEW d \in Nat
    PROVE  Total(Append(s, d)) = Total(s) + d
<1>1. PICK n \in Nat : n = Len(s)
  OBVIOUS
<1>2. PICK f : TotalUpTo(f, s)
  BY TotalFold
<1>3. f \in [0 .. n -> Nat] /\ f[0] = 0 /\ (\A k \in 1 .. n : f[k] = f[k - 1] + s[k]) /\ Total(s) = f[n]
  BY <1>1, <1>2 DEF TotalUpTo
<1>4. PICK t \in Seq(Nat) : t = Append(s, d)
  BY AppendFacts, Zenon
<1>5. Len(t) = n + 1 /\ t[n + 1] = d /\ \A k \in 1 .. n : t[k] = s[k]
  BY <1>1, <1>4, AppendFacts
<1>6. PICK g : g = [k \in 0 .. n + 1 |-> IF k = n + 1 THEN f[n] + d ELSE f[k]]
  BY Zenon
<1>7. g[0] = 0 /\ g[n + 1] = f[n] + d
  <2>1. 0 \in 0 .. n + 1 /\ n + 1 \in 0 .. n + 1 /\ 0 # n + 1
    OBVIOUS
  <2> QED
    BY <1>3, <1>6, <2>1
<1>8. ASSUME NEW k \in 1 .. n + 1 PROVE g[k] = g[k - 1] + t[k]
  <2>1. k \in 0 .. n + 1 /\ k - 1 \in 0 .. n + 1 /\ k - 1 # n + 1 /\ (k # n + 1 => k \in 1 .. n) /\ n + 1 - 1 = n
    OBVIOUS
  <2>2. g[k - 1] = f[k - 1]
    BY <1>6, <2>1
  <2>3. CASE k = n + 1
    BY <1>5, <1>7, <2>1, <2>2, <2>3
  <2>4. CASE k # n + 1
    BY <1>3, <1>5, <1>6, <2>1, <2>2, <2>4
  <2> QED
    BY <2>3, <2>4
<1>9. \A k \in 1 .. Len(t) : g[k] = g[k - 1] + t[k]
  BY <1>5, <1>8
<1>10. Total(t) = g[Len(t)]
  BY <1>7, <1>9, TotalUnique
<1> QED
  BY <1>3, <1>4, <1>5, <1>7, <1>10

(***************************************************************************)
(* The ids of a piece                                                      *)
(***************************************************************************)
\* The ids of one chunk, and of those from one to another.
Chunk(p, k, version)     == [j \in 1 .. IdCount(p, k) |-> [pretoken |-> p, chunk |-> k, version |-> version]]
Chunks(p, a, b, version) == [k \in 1 .. b - a + 1 |-> Chunk(p, a + k - 1, version)]

\* Each of the first n chunks of p has ids.
Countable(p, n) == p \in Nat /\ n \in Nat /\ \A k \in 1 .. n : IdCount(p, k) \in Nat \ {0}

\* The ids of a chunk.
LEMMA ChunkType ==
    ASSUME NEW p, NEW n, Countable(p, n), NEW k \in 1 .. n, NEW v \in {0, 1}
    PROVE  /\ Chunk(p, k, v) \in Seq(Id) /\ Chunk(p, k, v) # <<>>
           /\ \A m \in DOMAIN Chunk(p, k, v) : Chunk(p, k, v)[m].pretoken = p /\ Chunk(p, k, v)[m].version = v
           /\ \A m \in DOMAIN Chunk(p, k, v) : [Chunk(p, k, v)[m] EXCEPT !.version = 0] = Chunk(p, k, 0)[m]
<1>1. PICK c \in Nat \ {0} : c = IdCount(p, k)
  BY DEF Countable
<1>2. p \in Nat /\ k \in Nat
  <2>1. p \in Nat /\ n \in Nat
    BY DEF Countable
  <2> QED
    BY <2>1
<1>3. PICK id \in Id : id = [pretoken |-> p, chunk |-> k, version |-> v]
  BY <1>2, Zenon DEF Id
<1>4. Chunk(p, k, v) = [j \in 1 .. c |-> id]
  BY <1>1, <1>3 DEF Chunk
<1>5. Chunk(p, k, v) \in Seq(Id) /\ Chunk(p, k, v) # <<>> /\ DOMAIN Chunk(p, k, v) = 1 .. c
  <2>1. PICK q : q = [j \in 1 .. c |-> id]
    BY Zenon
  <2>2. q \in Seq(Id) /\ DOMAIN q = 1 .. c /\ Len(q) = c
    BY <2>1
  <2> QED
    BY <1>4, <2>1, <2>2
<1>6. id.pretoken = p /\ id.version = v /\ [id EXCEPT !.version = 0] = [pretoken |-> p, chunk |-> k, version |-> 0]
  BY <1>3
<1>7. \A m \in 1 .. c : Chunk(p, k, v)[m] = id /\ Chunk(p, k, 0)[m] = [pretoken |-> p, chunk |-> k, version |-> 0]
  BY <1>1, <1>4 DEF Chunk
<1> QED
  BY <1>5, <1>6, <1>7, Zenon

\* s has the ids of each chunk of a piece.
Chunked(s, p, n, a, b, version) ==
    /\ Len(s) = b - a + 1
    /\ \A k \in 1 .. b - a + 1 : a + k - 1 \in 1 .. n /\ s[k] = Chunk(p, a + k - 1, version)
    /\ Ids(Piece(p, a, b, version)) = FlattenSeq(s)

\* The chunks of a piece.
LEMMA ChunksType ==
    ASSUME NEW p, NEW n, Countable(p, n), NEW a \in 1 .. n, NEW b \in a - 1 .. n, NEW v \in {0, 1}
    PROVE  \E s \in Seq(Seq(Id)) : Chunked(s, p, n, a, b, v)
<1>1. n \in Nat
  BY DEF Countable
<1>2. PICK l \in Nat : l = b - a + 1
  <2>1. b - a + 1 \in Nat
    BY <1>1
  <2> QED
    BY <2>1
<1>3. \A k \in 1 .. l : a + k - 1 \in 1 .. n
  BY <1>1, <1>2
<1>4. PICK q : q = Chunks(p, a, b, v)
  OBVIOUS
<1>5. q = [k \in 1 .. l |-> Chunk(p, a + k - 1, v)]
  BY <1>2, <1>4 DEF Chunks
<1>6. \A k \in 1 .. l : Chunk(p, a + k - 1, v) \in Seq(Id)
  BY <1>3, ChunkType
<1>7. q \in Seq(Seq(Id)) /\ Len(q) = l /\ DOMAIN q = 1 .. l
  <2>1. PICK X : X = Seq(Id)
    OBVIOUS
  <2>2. \A k \in 1 .. l : q[k] \in X
    BY <1>5, <1>6, <2>1, Zenon
  <2>3. q \in Seq(X) /\ Len(q) = l /\ DOMAIN q = 1 .. l
    BY <1>5, <2>2
  <2> QED
    BY <2>1, <2>3
<1>8. \A k \in 1 .. l : q[k] = Chunk(p, a + k - 1, v)
  BY <1>5
<1>9. Ids(Piece(p, a, b, v)) = FlattenSeq(q)
  BY <1>4 DEF Ids, Piece, Chunks, Chunk
<1>10. Chunked(q, p, n, a, b, v)
  BY <1>2, <1>3, <1>7, <1>8, <1>9, Zenon DEF Chunked
<1> QED
  BY <1>7, <1>10

\* A piece's ids are of its pretoken and its version, and if it has a chunk, there are some.
LEMMA IdsType ==
    ASSUME NEW p, NEW n, Countable(p, n), NEW a \in 1 .. n, NEW b \in a .. n, NEW v \in {0, 1}
    PROVE  /\ Ids(Piece(p, a, b, v)) \in Seq(Id) /\ Ids(Piece(p, a, b, v)) # <<>>
           /\ \A m \in DOMAIN Ids(Piece(p, a, b, v)) :
                  Ids(Piece(p, a, b, v))[m].pretoken = p /\ Ids(Piece(p, a, b, v))[m].version = v
<1>1. n \in Nat /\ b \in a - 1 .. n
  BY DEF Countable
<1>2. PICK s \in Seq(Seq(Id)) : Chunked(s, p, n, a, b, v)
  BY <1>1, ChunksType
<1>3. PICK l \in Nat \ {0} : l = b - a + 1
  <2>1. b - a + 1 \in Nat \ {0}
    BY <1>1
  <2> QED
    BY <2>1
<1>4. /\ Len(s) = l /\ DOMAIN s = 1 .. l /\ Ids(Piece(p, a, b, v)) = FlattenSeq(s)
      /\ \A k \in 1 .. l : a + k - 1 \in 1 .. n /\ s[k] = Chunk(p, a + k - 1, v)
  BY <1>2, <1>3 DEF Chunked
<1>5. PICK at : Places(at, s, Id)
  BY FlatPlaces
<1>6. FlattenSeq(s) \in Seq(Id)
  BY <1>5 DEF Places
<1>7. FlattenSeq(s) # <<>>
  <2>1. 1 \in 1 .. l /\ s[1] # <<>> /\ s[1] \in Seq(Id)
    <3>1. 1 \in 1 .. l /\ a + 1 - 1 = a
      BY <1>3
    <3>2. s[1] = Chunk(p, a, v)
      BY <1>4, <3>1
    <3>3. Chunk(p, a, v) \in Seq(Id) /\ Chunk(p, a, v) # <<>>
      <4>1. Countable(p, n) /\ a \in 1 .. n /\ v \in {0, 1}
        OBVIOUS
      <4> QED
        BY <4>1, ChunkType
    <3> QED
      BY <3>1, <3>2, <3>3
  <2>2. Len(s[1]) \in Nat \ {0}
    BY <2>1
  <2>3. 1 \in 0 .. l /\ l \in 0 .. l /\ 0 \in 0 .. l /\ 1 - 1 = 0
    BY <1>3
  <2>4. at[1] = at[1 - 1] + Len(s[1]) /\ at[1] <= at[l] /\ at[0] = 0 /\ at[l] = Len(FlattenSeq(s))
    BY <1>4, <1>5, <2>1 DEF Places, PlacedUpTo
  <2>5. Len(FlattenSeq(s)) \in Nat \ {0}
    <3>1. Len(FlattenSeq(s)) \in Nat
      BY <1>6
    <3> QED
      BY <2>2, <2>3, <2>4, <3>1
  <2>6. Len(<<>>) = 0
    OBVIOUS
  <2> QED
    BY <2>5, <2>6
<1>8. ASSUME NEW m \in DOMAIN FlattenSeq(s) PROVE FlattenSeq(s)[m].pretoken = p /\ FlattenSeq(s)[m].version = v
  <2>1. PICK k \in DOMAIN s : \E j \in DOMAIN s[k] : FlattenSeq(s)[m] = s[k][j]
    BY FlatMember
  <2>2. PICK j \in DOMAIN s[k] : FlattenSeq(s)[m] = s[k][j]
    BY <2>1
  <2>3. a + k - 1 \in 1 .. n /\ s[k] = Chunk(p, a + k - 1, v)
    BY <1>4
  <2>4. \A i \in DOMAIN Chunk(p, a + k - 1, v) : Chunk(p, a + k - 1, v)[i].pretoken = p /\ Chunk(p, a + k - 1, v)[i].version = v
    BY <2>3, ChunkType
  <2> QED
    BY <2>2, <2>3, <2>4
<1> QED
  BY <1>4, <1>6, <1>7, <1>8

\* The ids of a single chunk.
LEMMA OneChunkIds ==
    ASSUME NEW p, NEW n, Countable(p, n), NEW a \in 1 .. n, NEW v \in {0, 1}, NEW ids, ids = Ids(Piece(p, a, a, v))
    PROVE  ids \in Seq(Id) /\ ids # <<>> /\ \A i \in DOMAIN ids : ids[i].pretoken = p /\ ids[i].version = v
<1>1. a \in a .. n
  OBVIOUS
<1> QED
  BY <1>1, IdsType

\* With one more chunk, a piece has its ids too.
LEMMA IdsNext ==
    ASSUME NEW p, NEW n, Countable(p, n), NEW b \in 1 .. n, b + 1 <= n, NEW v \in {0, 1}
    PROVE  Ids(Piece(p, 1, b + 1, v)) = Ids(Piece(p, 1, b, v)) \o Ids(Piece(p, b + 1, b + 1, v))
<1>1. n \in Nat /\ 1 \in 1 .. n /\ b \in 1 - 1 .. n /\ b + 1 \in 1 - 1 .. n /\ b + 1 \in 1 .. n /\ b + 1 \in b + 1 - 1 .. n
      /\ b - 1 + 1 = b /\ b + 1 - 1 + 1 = b + 1 /\ b + 1 - (b + 1) + 1 = 1
  <2>1. n \in Nat
    BY DEF Countable
  <2> QED
    BY <2>1
<1>2. PICK s \in Seq(Seq(Id)) : Chunked(s, p, n, 1, b, v)
  BY <1>1, ChunksType
<1>3. PICK t \in Seq(Seq(Id)) : Chunked(t, p, n, 1, b + 1, v)
  <2>1. PICK c : c = b + 1 /\ c \in 1 - 1 .. n
    BY <1>1
  <2>2. \E t \in Seq(Seq(Id)) : Chunked(t, p, n, 1, c, v)
    BY <1>1, <2>1, ChunksType
  <2> QED
    BY <2>1, <2>2
<1>4. PICK u \in Seq(Seq(Id)) : Chunked(u, p, n, b + 1, b + 1, v)
  <2>1. PICK c \in 1 .. n : c = b + 1 /\ c \in c - 1 .. n
    BY <1>1
  <2>2. \E u \in Seq(Seq(Id)) : Chunked(u, p, n, c, c, v)
    BY <2>1, ChunksType
  <2> QED
    BY <2>1, <2>2
<1>5. PICK q \in Seq(Id) : q = Chunk(p, b + 1, v)
  BY <1>1, ChunkType, Zenon
<1>6. Len(s) = b /\ Ids(Piece(p, 1, b, v)) = FlattenSeq(s) /\ \A k \in 1 .. b : s[k] = Chunk(p, k, v)
  <2>1. Len(s) = b /\ Ids(Piece(p, 1, b, v)) = FlattenSeq(s) /\ \A k \in 1 .. b - 1 + 1 : s[k] = Chunk(p, 1 + k - 1, v)
    BY <1>1, <1>2 DEF Chunked
  <2>2. \A k \in 1 .. b : 1 + k - 1 = k
    OBVIOUS
  <2> QED
    BY <1>1, <2>1, <2>2
<1>7. Len(t) = b + 1 /\ Ids(Piece(p, 1, b + 1, v)) = FlattenSeq(t) /\ \A k \in 1 .. b + 1 : t[k] = Chunk(p, k, v)
  <2>1. Len(t) = b + 1 /\ Ids(Piece(p, 1, b + 1, v)) = FlattenSeq(t) /\ \A k \in 1 .. b + 1 - 1 + 1 : t[k] = Chunk(p, 1 + k - 1, v)
    BY <1>1, <1>3 DEF Chunked
  <2>2. \A k \in 1 .. b + 1 : 1 + k - 1 = k
    OBVIOUS
  <2> QED
    BY <1>1, <2>1, <2>2
<1>8. u = <<q>> /\ Ids(Piece(p, b + 1, b + 1, v)) = FlattenSeq(u)
  <2>1. Len(u) = 1 /\ Ids(Piece(p, b + 1, b + 1, v)) = FlattenSeq(u) /\ \A k \in 1 .. 1 : u[k] = Chunk(p, b + 1 + k - 1, v)
    BY <1>1, <1>4 DEF Chunked
  <2>2. u[1] = q
    <3>1. 1 \in 1 .. 1 /\ b + 1 + 1 - 1 = b + 1
      OBVIOUS
    <3> QED
      BY <1>5, <2>1, <3>1
  <2> QED
    BY <2>1, <2>2
<1>9. t = Append(s, q)
  <2>1. \A k \in 1 .. b : k \in 1 .. b + 1 /\ t[k] = s[k]
    BY <1>6, <1>7
  <2>2. t[b + 1] = q
    BY <1>5, <1>7
  <2> QED
    BY <1>6, <1>7, <2>1, <2>2
<1>10. FlattenSeq(Append(s, q)) = FlattenSeq(s) \o q /\ FlattenSeq(<<q>>) = q
  BY FlatAppend, Zenon
<1> QED
  BY <1>6, <1>7, <1>8, <1>9, <1>10

(***************************************************************************)
(* Ids without their versions                                              *)
(***************************************************************************)
Erase(q)    == [m \in DOMAIN q |-> [q[m] EXCEPT !.version = 0]]
EraseAll(s) == [k \in DOMAIN s |-> Erase(s[k])]

\* Erasing keeps the shape of what is joined.
LEMMA EraseJoined ==
    ASSUME NEW q \in Seq(Id), NEW r \in Seq(Id)
    PROVE  Erase(q) \in Seq(Id) /\ Erase(<<>>) = <<>> /\ Erase(q \o r) = Erase(q) \o Erase(r)
<1>1. \A id \in Id : [id EXCEPT !.version = 0] \in Id
  <2>1. ASSUME NEW id \in Id PROVE [id EXCEPT !.version = 0] \in Id
    BY Zenon DEF Id
  <2> QED
    BY <2>1, Zenon
<1>2. ASSUME NEW t \in Seq(Id)
      PROVE  Erase(t) \in Seq(Id) /\ Len(Erase(t)) = Len(t) /\ DOMAIN Erase(t) = DOMAIN t
  <2>1. \A m \in DOMAIN t : t[m] \in Id
    OBVIOUS
  <2>2. PICK e : e = Erase(t)
    OBVIOUS
  <2>3. \A m \in DOMAIN t : e[m] \in Id
    BY <1>1, <2>1, <2>2 DEF Erase
  <2>4. DOMAIN e = DOMAIN t /\ e = [m \in DOMAIN t |-> e[m]]
    BY <2>2 DEF Erase
  <2>5. e \in Seq(Id) /\ Len(e) = Len(t)
    BY <2>3, <2>4
  <2> QED
    BY <2>2, <2>4, <2>5
<1>3. Erase(<<>>) = <<>>
  BY DEF Erase
<1>4. PICK l \in Seq(Id) : l = Erase(q \o r) /\ Len(l) = Len(q) + Len(r)
  <2>1. q \o r \in Seq(Id) /\ Len(q \o r) = Len(q) + Len(r)
    OBVIOUS
  <2> QED
    BY <1>2, <2>1, Zenon
<1>5. PICK a \in Seq(Id), b \in Seq(Id) : a = Erase(q) /\ b = Erase(r) /\ Len(a) = Len(q) /\ Len(b) = Len(r)
  BY <1>2
<1>6. PICK j \in Seq(Id) : j = a \o b
  BY Associative, Zenon
<1>7. Len(j) = Len(q) + Len(r)
  BY <1>5, <1>6
<1>8. ASSUME NEW m \in 1 .. Len(q) + Len(r) PROVE l[m] = j[m]
  <2>1. m \in DOMAIN (q \o r)
    OBVIOUS
  <2>2. l[m] = [(q \o r)[m] EXCEPT !.version = 0]
    BY <1>4, <2>1, Zenon DEF Erase
  <2>3. PICK x \in Nat, y \in Nat : x = Len(q) /\ y = Len(r)
    OBVIOUS
  <2>4. CASE m <= x
    <3>1. m \in DOMAIN q /\ (q \o r)[m] = q[m] /\ (a \o b)[m] = a[m]
      BY <1>5, <2>3, <2>4
    <3>2. a[m] = [q[m] EXCEPT !.version = 0]
      BY <1>5, <3>1 DEF Erase
    <3> QED
      BY <1>6, <2>2, <3>1, <3>2
  <2>5. CASE ~(m <= x)
    <3>1. m - x \in DOMAIN r /\ (q \o r)[m] = r[m - x] /\ (a \o b)[m] = b[m - x]
      BY <1>5, <2>3, <2>5
    <3>2. b[m - x] = [r[m - x] EXCEPT !.version = 0]
      BY <1>5, <3>1 DEF Erase
    <3> QED
      BY <1>6, <2>2, <3>1, <3>2
  <2> QED
    BY <2>4, <2>5
<1>9. l = j
  BY <1>4, <1>7, <1>8
<1> QED
  BY <1>2, <1>3, <1>4, <1>5, <1>6, <1>9

\* Erasing what is joined erases each of the sequences.
LEMMA EraseFlat ==
    ASSUME NEW s \in Seq(Seq(Id))
    PROVE  EraseAll(s) \in Seq(Seq(Id)) /\ Erase(FlattenSeq(s)) = FlattenSeq(EraseAll(s))
<1>1. PICK f : FlatUpTo(f, s, Id)
  BY FlatFold
<1>2. PICK n \in Nat : n = Len(s) /\ DOMAIN s = 1 .. n
  OBVIOUS
<1>3. f \in [0 .. n -> Seq(Id)] /\ f[0] = <<>> /\ (\A k \in 1 .. n : f[k] = f[k - 1] \o s[k]) /\ FlattenSeq(s) = f[n]
  BY <1>1, <1>2, Zenon DEF FlatUpTo
<1>4. \A k \in 1 .. n : s[k] \in Seq(Id)
  BY <1>2
<1>5. PICK t : t = EraseAll(s)
  OBVIOUS
<1>6. t \in Seq(Seq(Id)) /\ Len(t) = n /\ \A k \in 1 .. n : t[k] = Erase(s[k])
  <2>1. PICK X : X = Seq(Id)
    OBVIOUS
  <2>2. \A k \in 1 .. n : t[k] = Erase(s[k])
    BY <1>2, <1>5 DEF EraseAll
  <2>3. \A k \in 1 .. n : t[k] \in X
    BY <1>4, <2>1, <2>2, EraseJoined
  <2>4. t = [k \in 1 .. n |-> t[k]]
    BY <1>2, <1>5 DEF EraseAll
  <2>5. t \in Seq(X) /\ Len(t) = n
    BY <2>3, <2>4
  <2> QED
    BY <2>1, <2>2, <2>5
<1>7. PICK g : g = [k \in 0 .. n |-> Erase(f[k])]
  BY Zenon
<1>8. g[0] = <<>> /\ g[n] = Erase(f[n])
  <2>1. 0 \in 0 .. n /\ n \in 0 .. n
    OBVIOUS
  <2>2. Erase(<<>>) = <<>>
    BY DEF Erase
  <2> QED
    BY <1>3, <1>7, <2>1, <2>2
<1>9. ASSUME NEW k \in 1 .. n PROVE g[k] = g[k - 1] \o t[k]
  <2>1. k \in 0 .. n /\ k - 1 \in 0 .. n
    OBVIOUS
  <2>2. PICK a \in Seq(Id), b \in Seq(Id) : a = f[k - 1] /\ b = s[k]
    BY <1>3, <1>4, <2>1
  <2>3. f[k] = a \o b
    BY <1>3, <2>2, Zenon
  <2>4. Erase(a \o b) = Erase(a) \o Erase(b)
    BY EraseJoined, Zenon
  <2>5. g[k] = Erase(f[k]) /\ g[k - 1] = Erase(f[k - 1])
    BY <1>7, <2>1
  <2>6. t[k] = Erase(s[k])
    BY <1>6
  <2> QED
    BY <2>2, <2>3, <2>4, <2>5, <2>6
<1>10. \A k \in 1 .. Len(t) : g[k] = g[k - 1] \o t[k]
  BY <1>6, <1>9
<1>11. FlattenSeq(t) = g[Len(t)]
  BY <1>6, <1>8, <1>10, FlatUnique, Zenon
<1> QED
  BY <1>3, <1>5, <1>6, <1>8, <1>11

\* The ids of a piece are those of its first version.
LEMMA EraseIds ==
    ASSUME NEW p, NEW n, Countable(p, n), NEW a \in 1 .. n, NEW b \in a .. n, NEW v \in {0, 1}
    PROVE  Erase(Ids(Piece(p, a, b, v))) = Ids(Piece(p, a, b, 0))
<1>1. n \in Nat /\ b \in a - 1 .. n /\ 0 \in {0, 1}
  BY DEF Countable
<1>2. PICK s \in Seq(Seq(Id)) : Chunked(s, p, n, a, b, v)
  BY <1>1, ChunksType
<1>3. PICK t \in Seq(Seq(Id)) : Chunked(t, p, n, a, b, 0)
  BY <1>1, ChunksType
<1>4. PICK l \in Nat : l = b - a + 1
  <2>1. b - a + 1 \in Nat
    BY <1>1
  <2> QED
    BY <2>1
<1>5. Len(s) = l /\ Ids(Piece(p, a, b, v)) = FlattenSeq(s)
      /\ \A k \in 1 .. l : a + k - 1 \in 1 .. n /\ s[k] = Chunk(p, a + k - 1, v)
  BY <1>2, <1>4 DEF Chunked
<1>6. Len(t) = l /\ Ids(Piece(p, a, b, 0)) = FlattenSeq(t)
      /\ \A k \in 1 .. l : t[k] = Chunk(p, a + k - 1, 0)
  BY <1>3, <1>4 DEF Chunked
<1>7. ASSUME NEW k \in 1 .. l PROVE Erase(s[k]) = t[k]
  <2>1. PICK c \in 1 .. n : c = a + k - 1 /\ s[k] = Chunk(p, c, v) /\ t[k] = Chunk(p, c, 0)
    BY <1>5, <1>6
  <2>2. \A m \in 1 .. IdCount(p, c) : Chunk(p, c, v)[m] = [pretoken |-> p, chunk |-> c, version |-> v]
    BY DEF Chunk
  <2>3. DOMAIN Chunk(p, c, v) = 1 .. IdCount(p, c)
    BY DEF Chunk
  <2>4. Erase(Chunk(p, c, v)) = Chunk(p, c, 0)
    <3>1. [[pretoken |-> p, chunk |-> c, version |-> v] EXCEPT !.version = 0] = [pretoken |-> p, chunk |-> c, version |-> 0]
      OBVIOUS
    <3> QED
      BY <2>2, <2>3, <3>1 DEF Erase, Chunk
  <2> QED
    BY <2>1, <2>4
<1>8. EraseAll(s) = t
  <2>1. DOMAIN s = 1 .. l /\ t = [k \in 1 .. l |-> t[k]]
    BY <1>5, <1>6
  <2> QED
    BY <1>7, <2>1 DEF EraseAll
<1> QED
  BY <1>5, <1>6, <1>8, EraseFlat

\* The parts of a pretoken, wherever they were joined, are its ids.
LEMMA PartsErased ==
    ASSUME NEW p, NEW n, Countable(p, n), NEW covered \in 1 .. n, NEW v \in {0, 1}
    PROVE  /\ Parts(p, n, covered, v) \in Seq(Seq(Id))
           /\ Erase(FlattenSeq(Parts(p, n, covered, v))) = Ids(Piece(p, 1, n, 0))
<1>1. n \in Nat \ {0} /\ 0 \in {0, 1} /\ 1 \in 1 .. n /\ n \in 1 .. n
  <2>1. n \in Nat
    BY DEF Countable
  <2> QED
    BY <2>1
<1>2. PICK s : s = Parts(p, n, covered, v)
  OBVIOUS
<1>3. \A k \in 1 .. n : s[k] = IF k = 1 THEN Ids(Piece(p, 1, covered, v))
                               ELSE IF k <= covered THEN <<>> ELSE Ids(Piece(p, k, k, 0))
  BY <1>2 DEF Parts
<1>4. covered \in 1 .. n /\ Ids(Piece(p, 1, covered, v)) \in Seq(Id) /\ \A k \in 1 .. n : Ids(Piece(p, k, k, 0)) \in Seq(Id)
  <2>1. covered \in 1 .. n
    OBVIOUS
  <2>2. Ids(Piece(p, 1, covered, v)) \in Seq(Id)
    BY <1>1, IdsType
  <2>3. ASSUME NEW k \in 1 .. n PROVE Ids(Piece(p, k, k, 0)) \in Seq(Id)
    <3>1. k \in k .. n
      BY <1>1
    <3> QED
      BY <1>1, <3>1, IdsType
  <2> QED
    BY <2>1, <2>2, <2>3
<1>5. s \in Seq(Seq(Id)) /\ Len(s) = n /\ DOMAIN s = 1 .. n
  <2>1. PICK X : X = Seq(Id)
    OBVIOUS
  <2>2. \A k \in 1 .. n : s[k] \in X
    <3>1. <<>> \in Seq(Id)
      OBVIOUS
    <3> QED
      BY <1>3, <1>4, <2>1, <3>1, Zenon
  <2>3. s = [k \in 1 .. n |-> s[k]]
    BY <1>2 DEF Parts
  <2>4. s \in Seq(X) /\ Len(s) = n /\ DOMAIN s = 1 .. n
    BY <1>1, <2>2, <2>3
  <2> QED
    BY <2>1, <2>4
<1>6. PICK t \in Seq(Seq(Id)) : t = EraseAll(s)
  BY <1>5, EraseFlat
<1>7. Len(t) = n /\ \A k \in 1 .. n : t[k] = IF k = 1 THEN Ids(Piece(p, 1, covered, 0))
                                             ELSE IF k <= covered THEN <<>> ELSE Ids(Piece(p, k, k, 0))
  <2>1. DOMAIN t = 1 .. n /\ \A k \in 1 .. n : t[k] = Erase(s[k])
    BY <1>5, <1>6 DEF EraseAll
  <2>2. Len(t) = n
    BY <1>1, <2>1
  <2>3. Erase(Ids(Piece(p, 1, covered, v))) = Ids(Piece(p, 1, covered, 0)) /\ Erase(<<>>) = <<>>
    <3>1. Erase(<<>>) = <<>>
      BY DEF Erase
    <3> QED
      BY <1>1, <3>1, EraseIds
  <2>4. ASSUME NEW k \in 1 .. n PROVE Erase(Ids(Piece(p, k, k, 0))) = Ids(Piece(p, k, k, 0))
    <3>1. k \in k .. n
      BY <1>1
    <3> QED
      BY <1>1, <3>1, EraseIds
  <2> QED
    BY <1>3, <2>1, <2>2, <2>3, <2>4
<1>8. PICK g : g = [k \in 0 .. n |-> IF k = 0 THEN <<>> ELSE Ids(Piece(p, 1, IF k <= covered THEN covered ELSE k, 0))]
  BY Zenon
<1>9. g[0] = <<>> /\ g[n] = Ids(Piece(p, 1, n, 0))
  <2>1. 0 \in 0 .. n /\ n \in 0 .. n /\ n # 0 /\ (n <= covered => n = covered)
    BY <1>1
  <2> QED
    BY <1>8, <2>1
<1>10. ASSUME NEW k \in 1 .. n PROVE g[k] = g[k - 1] \o t[k]
  <2>1. k \in 0 .. n /\ k - 1 \in 0 .. n /\ k # 0 /\ (k - 1 = 0 <=> k = 1)
    BY <1>1
  <2>2. PICK q \in Seq(Id) : q = Ids(Piece(p, 1, covered, 0))
    BY <1>1, IdsType
  <2>3. <<>> \o q = q /\ q \o <<>> = q
    OBVIOUS
  <2>4. CASE k = 1
    <3>1. k <= covered /\ k - 1 = 0
      BY <2>4
    <3>2. g[k] = q /\ g[k - 1] = <<>> /\ t[k] = q
      BY <1>7, <1>8, <2>1, <2>2, <2>4, <3>1
    <3> QED
      BY <2>3, <3>2
  <2>5. CASE k # 1 /\ k <= covered
    <3>1. k - 1 <= covered
      BY <2>5
    <3>2. g[k] = q /\ g[k - 1] = q /\ t[k] = <<>>
      BY <1>7, <1>8, <2>1, <2>2, <2>5, <3>1
    <3> QED
      BY <2>3, <3>2
  <2>6. CASE ~(k <= covered)
    <3>1. PICK b \in 1 .. n : b = k - 1 /\ b + 1 = k /\ b + 1 <= n /\ (b <= covered => b = covered) /\ k # 1
      BY <1>1, <2>6
    <3>2. g[b] = Ids(Piece(p, 1, b, 0))
      BY <1>8, <2>1, <3>1
    <3>3. g[k] = Ids(Piece(p, 1, k, 0)) /\ t[k] = Ids(Piece(p, k, k, 0))
      BY <1>7, <1>8, <2>1, <2>6, <3>1
    <3>4. Ids(Piece(p, 1, b + 1, 0)) = Ids(Piece(p, 1, b, 0)) \o Ids(Piece(p, b + 1, b + 1, 0))
      BY <1>1, <3>1, IdsNext
    <3> QED
      BY <3>1, <3>2, <3>3, <3>4
  <2> QED
    BY <2>4, <2>5, <2>6, Zenon
<1>11. \A k \in 1 .. Len(t) : g[k] = g[k - 1] \o t[k]
  BY <1>7, <1>10, Zenon
<1>12. FlattenSeq(t) = g[Len(t)]
  BY <1>9, <1>11, FlatUnique, Zenon
<1> QED
  BY <1>2, <1>5, <1>6, <1>7, <1>9, <1>12, EraseFlat

(***************************************************************************)
(* The items of a text                                                     *)
(***************************************************************************)
\* The ids of a pretoken, and of the pretokens of an item; how many answers an item takes.
Entry(txt, p)      == Ids(Piece(p, 1, txt[p], 0))
Entries(txt, item) == [e \in DOMAIN item.pretokens |-> Entry(txt, item.pretokens[e])]
Fulls(txt, items)  == [i \in DOMAIN items |-> FlattenSeq(Entries(txt, items[i]))]
Size(txt, item)    == IF item.long THEN txt[item.pretokens[1]] ELSE Len(item.pretokens)
Sizes(txt, items)  == [i \in DOMAIN items |-> Size(txt, items[i])]

\* An item is a long pretoken or some short ones.
ItemFits(txt, item) ==
    /\ item.long \in BOOLEAN /\ item.pretokens \in Seq(DOMAIN txt) /\ item.pretokens # <<>>
    /\ item.long => Len(item.pretokens) = 1 /\ txt[item.pretokens[1]] > 1
    /\ ~item.long => \A e \in DOMAIN item.pretokens : txt[item.pretokens[e]] = 1

\* Items that have some ids, and take so many answers.
ItemsGood(items, txt, ids, size) ==
    /\ items \in Seq(ItemType) /\ \A i \in DOMAIN items : ItemFits(txt, items[i])
    /\ FlattenSeq(Fulls(txt, items)) = ids
    /\ Total(Sizes(txt, items)) = size

\* A pretoken of a text has so many chunks, and ids of the right kind.
LEMMA EntryType ==
    ASSUME NEW txt, Good(txt), NEW p \in DOMAIN txt
    PROVE  /\ Countable(p, txt[p]) /\ txt[p] \in Nat \ {0} /\ p \in Nat /\ 1 \in 1 .. txt[p] /\ txt[p] \in 1 .. txt[p]
           /\ Entry(txt, p) \in Seq(Id)
<1>1. txt \in Seq(Nat \ {0}) /\ \A k \in 1 .. txt[p] : IdCount(p, k) \in Nat \ {0}
  BY DEF Good
<1>2. txt[p] \in Nat \ {0} /\ p \in Nat
  BY <1>1
<1>3. Countable(p, txt[p])
  BY <1>1, <1>2 DEF Countable
<1>4. PICK n \in Nat \ {0} : n = txt[p]
  BY <1>2
<1>5. 1 \in 1 .. n /\ n \in 1 .. n /\ 0 \in {0, 1}
  OBVIOUS
<1>6. Ids(Piece(p, 1, n, 0)) \in Seq(Id)
  BY <1>3, <1>4, <1>5, IdsType
<1> QED
  BY <1>2, <1>3, <1>4, <1>5, <1>6 DEF Entry

\* The ids of each entry of an item.
LEMMA EntriesType ==
    ASSUME NEW txt, Good(txt), NEW item, item.pretokens \in Seq(DOMAIN txt)
    PROVE  /\ Entries(txt, item) \in Seq(Seq(Id)) /\ Len(Entries(txt, item)) = Len(item.pretokens)
           /\ FlattenSeq(Entries(txt, item)) \in Seq(Id)
<1>1. PICK n \in Nat : n = Len(item.pretokens) /\ DOMAIN item.pretokens = 1 .. n
  OBVIOUS
<1>2. \A e \in 1 .. n : item.pretokens[e] \in DOMAIN txt
  BY <1>1
<1>3. PICK X : X = Seq(Id)
  OBVIOUS
<1>4. PICK s : s = Entries(txt, item)
  OBVIOUS
<1>5. \A e \in 1 .. n : s[e] \in X
  <2>1. \A e \in 1 .. n : s[e] = Entry(txt, item.pretokens[e])
    BY <1>1, <1>4 DEF Entries
  <2> QED
    BY <1>2, <1>3, <2>1, EntryType
<1>6. s = [e \in 1 .. n |-> s[e]]
  BY <1>1, <1>4 DEF Entries
<1>7. s \in Seq(X) /\ Len(s) = n
  BY <1>5, <1>6
<1>8. s \in Seq(Seq(Id))
  BY <1>3, <1>7
<1>9. FlattenSeq(s) \in Seq(Id)
  <2>1. PICK at : Places(at, s, Id)
    BY <1>8, FlatPlaces
  <2> QED
    BY <2>1 DEF Places
<1> QED
  BY <1>1, <1>4, <1>7, <1>8, <1>9

\* The ids and the size of each item.
LEMMA FullsType ==
    ASSUME NEW txt, Good(txt), NEW items, items \in Seq(ItemType), \A i \in DOMAIN items : ItemFits(txt, items[i])
    PROVE  /\ Fulls(txt, items) \in Seq(Seq(Id)) /\ Len(Fulls(txt, items)) = Len(items)
           /\ Sizes(txt, items) \in Seq(Nat) /\ Len(Sizes(txt, items)) = Len(items)
<1>1. PICK n \in Nat : n = Len(items) /\ DOMAIN items = 1 .. n
  OBVIOUS
<1>2. PICK X : X = Seq(Id)
  OBVIOUS
<1>3. PICK s : s = Fulls(txt, items)
  OBVIOUS
<1>4. \A i \in 1 .. n : s[i] \in X
  <2>1. \A i \in 1 .. n : s[i] = FlattenSeq(Entries(txt, items[i]))
    BY <1>1, <1>3 DEF Fulls
  <2>2. \A i \in 1 .. n : items[i].pretokens \in Seq(DOMAIN txt)
    BY <1>1 DEF ItemFits
  <2> QED
    BY <1>2, <2>1, <2>2, EntriesType
<1>5. s = [i \in 1 .. n |-> s[i]]
  BY <1>1, <1>3 DEF Fulls
<1>6. s \in Seq(X) /\ Len(s) = n
  BY <1>4, <1>5
<1>7. PICK z : z = Sizes(txt, items)
  OBVIOUS
<1>8. ASSUME NEW i \in 1 .. n PROVE z[i] \in Nat
  <2>1. z[i] = Size(txt, items[i]) /\ ItemFits(txt, items[i])
    BY <1>1, <1>7 DEF Sizes
  <2>2. PICK q \in Seq(DOMAIN txt) : q = items[i].pretokens /\ q # <<>>
    BY <2>1 DEF ItemFits
  <2>3. Len(q) \in Nat /\ q[1] \in DOMAIN txt
    BY <2>2
  <2>4. txt[q[1]] \in Nat
    BY <2>3, EntryType
  <2> QED
    BY <2>1, <2>2, <2>3, <2>4 DEF Size
<1>9. z = [i \in 1 .. n |-> z[i]]
  BY <1>1, <1>7 DEF Sizes
<1>10. z \in Seq(Nat) /\ Len(z) = n
  BY <1>8, <1>9
<1> QED
  BY <1>1, <1>2, <1>3, <1>6, <1>7, <1>10

\* A pretoken by itself, and one more in an item.
LEMMA EntriesMore ==
    ASSUME NEW txt, Good(txt), NEW p \in DOMAIN txt, NEW q \in Seq(DOMAIN txt), NEW item, item.pretokens = q,
           NEW new, new.pretokens = Append(q, p)
    PROVE  FlattenSeq(Entries(txt, new)) = FlattenSeq(Entries(txt, item)) \o Entry(txt, p)
<1>1. PICK r \in Seq(DOMAIN txt) : r = Append(q, p)
  BY AppendFacts
<1>2. Len(r) = Len(q) + 1 /\ r[Len(q) + 1] = p /\ \A e \in 1 .. Len(q) : r[e] = q[e]
  BY <1>1, AppendFacts
<1>3. PICK s \in Seq(Seq(Id)) : s = Entries(txt, item) /\ Len(s) = Len(q)
  BY EntriesType
<1>4. PICK t \in Seq(Seq(Id)) : t = Entries(txt, new) /\ Len(t) = Len(r)
  BY <1>1, EntriesType, Zenon
<1>5. PICK x \in Seq(Id) : x = Entry(txt, p)
  BY EntryType
<1>6. PICK n \in Nat : n = Len(q)
  OBVIOUS
<1>7. \A e \in 1 .. n : s[e] = Entry(txt, q[e])
  BY <1>3, <1>6 DEF Entries
<1>8. \A e \in 1 .. n + 1 : t[e] = Entry(txt, r[e])
  BY <1>1, <1>2, <1>4, <1>6 DEF Entries
<1>9. t = Append(s, x)
  <2>1. \A e \in 1 .. n : t[e] = s[e]
    BY <1>2, <1>6, <1>7, <1>8
  <2>2. t[n + 1] = x
    BY <1>2, <1>5, <1>6, <1>8
  <2> QED
    BY <1>2, <1>3, <1>4, <1>6, <2>1, <2>2
<1>10. FlattenSeq(Append(s, x)) = FlattenSeq(s) \o x
  BY FlatAppend, Zenon
<1> QED
  BY <1>3, <1>4, <1>5, <1>9, <1>10

\* An item of one pretoken has the ids of that pretoken.
LEMMA EntriesOne ==
    ASSUME NEW txt, Good(txt), NEW p \in DOMAIN txt, NEW new, new.pretokens = <<p>>
    PROVE  FlattenSeq(Entries(txt, new)) = Entry(txt, p)
<1>1. PICK q \in Seq(DOMAIN txt) : q = <<>>
  <2>1. <<>> \in Seq(DOMAIN txt)
    OBVIOUS
  <2> QED
    BY <2>1, Zenon
<1>2. PICK item : item = [pretokens |-> q]
  BY Zenon
<1>3. item.pretokens = q /\ Append(q, p) = <<p>>
  BY <1>1, <1>2
<1>4. FlattenSeq(Entries(txt, new)) = FlattenSeq(Entries(txt, item)) \o Entry(txt, p)
  BY <1>3, EntriesMore, Zenon
<1>5. Entries(txt, item) = <<>>
  BY <1>1, <1>3 DEF Entries
<1>6. PICK x \in Seq(Id) : x = Entry(txt, p)
  BY EntryType
<1>7. FlattenSeq(<<>>) = <<>> /\ <<>> \o x = x
  <2>1. Len(<<>>) = 0 /\ <<>> \o x = x
    OBVIOUS
  <2> QED
    BY <2>1 DEF FlattenSeq
<1> QED
  BY <1>4, <1>5, <1>6, <1>7

\* One more item.
LEMMA GoodAppend ==
    ASSUME NEW txt, Good(txt), NEW p \in DOMAIN txt, NEW items, NEW ids, NEW size, ItemsGood(items, txt, ids, size),
           NEW new \in ItemType, new.long = Long(txt, p), new.pretokens = <<p>>
    PROVE  ItemsGood(Append(items, new), txt, ids \o Entry(txt, p), size + txt[p])
<1>1. items \in Seq(ItemType) /\ (\A i \in DOMAIN items : ItemFits(txt, items[i])) /\ FlattenSeq(Fulls(txt, items)) = ids
      /\ Total(Sizes(txt, items)) = size
  BY DEF ItemsGood
<1>2. PICK n \in Nat : n = Len(items) /\ DOMAIN items = 1 .. n
  BY <1>1
<1>3. PICK r \in Seq(ItemType) : r = Append(items, new)
  BY <1>1, AppendFacts, Zenon
<1>4. Len(r) = n + 1 /\ DOMAIN r = 1 .. n + 1 /\ r[n + 1] = new /\ \A i \in 1 .. n : r[i] = items[i]
  BY <1>1, <1>2, <1>3, AppendFacts
<1>5. PICK m \in Nat \ {0} : m = txt[p]
  BY EntryType
<1>6. ItemFits(txt, new) /\ Size(txt, new) = m
  <2>1. PICK q \in Seq(DOMAIN txt) : q = new.pretokens
    <3>1. <<p>> \in Seq(DOMAIN txt)
      OBVIOUS
    <3> QED
      BY <3>1, Zenon
  <2>2. q # <<>> /\ Len(q) = 1 /\ q[1] = p /\ DOMAIN q = {1}
    BY <2>1
  <2>3. new.long \in BOOLEAN /\ (new.long <=> m > 1)
    <3>1. Long(txt, p) = (m > 1)
      BY <1>5 DEF Long
    <3>2. new.long = (m > 1) /\ (m > 1) \in BOOLEAN
      BY <3>1
    <3> QED
      BY <3>2, Zenon
  <2>4. ItemFits(txt, new)
    BY <1>5, <2>1, <2>2, <2>3 DEF ItemFits
  <2>5. Size(txt, new) = m
    <3>1. ~(m > 1) => m = 1
      OBVIOUS
    <3> QED
      BY <1>5, <2>1, <2>2, <2>3, <3>1 DEF Size
  <2> QED
    BY <2>4, <2>5
<1>7. \A i \in DOMAIN r : ItemFits(txt, r[i])
  <2>1. \A i \in 1 .. n + 1 : i # n + 1 => i \in 1 .. n
    OBVIOUS
  <2> QED
    BY <1>1, <1>2, <1>4, <1>6, <2>1
<1>8. FlattenSeq(Fulls(txt, r)) = ids \o Entry(txt, p)
  <2>1. PICK s \in Seq(Seq(Id)) : s = Fulls(txt, items) /\ Len(s) = n
    BY <1>1, <1>2, FullsType, Zenon
  <2>2. PICK t \in Seq(Seq(Id)) : t = Fulls(txt, r) /\ Len(t) = n + 1
    <3>1. Fulls(txt, r) \in Seq(Seq(Id)) /\ Len(Fulls(txt, r)) = Len(r)
      BY <1>7, FullsType
    <3> QED
      BY <1>4, <3>1
  <2>3. PICK x \in Seq(Id) : x = Entry(txt, p)
    BY EntryType
  <2>4. \A i \in 1 .. n : t[i] = s[i]
    BY <1>2, <1>4, <2>1, <2>2 DEF Fulls
  <2>5. t[n + 1] = x
    <3>1. n + 1 \in 1 .. n + 1
      OBVIOUS
    <3>2. t[n + 1] = FlattenSeq(Entries(txt, new))
      BY <1>4, <2>2, <3>1 DEF Fulls
    <3> QED
      BY <2>3, <3>2, EntriesOne
  <2>6. t = Append(s, x)
    BY <2>1, <2>2, <2>3, <2>4, <2>5
  <2>7. FlattenSeq(Append(s, x)) = FlattenSeq(s) \o x
    BY FlatAppend, Zenon
  <2> QED
    BY <1>1, <2>1, <2>2, <2>3, <2>6, <2>7
<1>9. Total(Sizes(txt, r)) = size + txt[p]
  <2>1. PICK s \in Seq(Nat) : s = Sizes(txt, items) /\ Len(s) = n
    BY <1>1, <1>2, FullsType
  <2>2. PICK t \in Seq(Nat) : t = Sizes(txt, r) /\ Len(t) = n + 1
    <3>1. Sizes(txt, r) \in Seq(Nat) /\ Len(Sizes(txt, r)) = Len(r)
      BY <1>7, FullsType
    <3> QED
      BY <1>4, <3>1
  <2>3. \A i \in 1 .. n : t[i] = s[i]
    BY <1>2, <1>4, <2>1, <2>2 DEF Sizes
  <2>4. t[n + 1] = m
    <3>1. n + 1 \in 1 .. n + 1
      OBVIOUS
    <3> QED
      BY <1>4, <1>6, <2>2, <3>1 DEF Sizes
  <2>5. t = Append(s, m)
    BY <2>1, <2>2, <2>3, <2>4
  <2>6. Total(Append(s, m)) = Total(s) + m
    BY TotalAppend
  <2> QED
    BY <1>1, <1>5, <2>1, <2>2, <2>5, <2>6
<1> QED
  BY <1>3, <1>7, <1>8, <1>9 DEF ItemsGood

\* One more pretoken in the last item.
LEMMA GoodLast ==
    ASSUME NEW txt, Good(txt), NEW p \in DOMAIN txt, txt[p] = 1, NEW items, NEW ids, NEW size,
           ItemsGood(items, txt, ids, size), items # <<>>, ~items[Len(items)].long,
           NEW new \in ItemType, ~new.long, new.pretokens = Append(items[Len(items)].pretokens, p)
    PROVE  ItemsGood([items EXCEPT ![Len(items)] = new], txt, ids \o Entry(txt, p), size + txt[p])
<1>1. items \in Seq(ItemType) /\ (\A i \in DOMAIN items : ItemFits(txt, items[i])) /\ FlattenSeq(Fulls(txt, items)) = ids
      /\ Total(Sizes(txt, items)) = size
  BY DEF ItemsGood
<1>2. PICK n \in Nat \ {0} : n = Len(items) /\ DOMAIN items = 1 .. n
  <2>1. Len(items) \in Nat \ {0} /\ DOMAIN items = 1 .. Len(items)
    BY <1>1
  <2> QED
    BY <2>1, Zenon
<1>3. PICK r : r = [items EXCEPT ![n] = new]
  BY Zenon
<1>4. r \in Seq(ItemType) /\ Len(r) = n /\ DOMAIN r = 1 .. n /\ r[n] = new /\ \A i \in 1 .. n - 1 : r[i] = items[i]
  BY <1>1, <1>2, <1>3
<1>5. n \in 1 .. n /\ \A i \in 1 .. n : i # n => i \in 1 .. n - 1
  OBVIOUS
<1>6. PICK q \in Seq(DOMAIN txt) : q = items[n].pretokens
  BY <1>1, <1>2, <1>5 DEF ItemFits
<1>7. \A e \in DOMAIN q : txt[q[e]] = 1
  BY <1>1, <1>2, <1>5, <1>6 DEF ItemFits
<1>8. PICK u \in Seq(DOMAIN txt) : u = Append(q, p) /\ u = new.pretokens
  BY <1>2, <1>6, AppendFacts, Zenon
<1>9. Len(u) = Len(q) + 1 /\ u # <<>> /\ (\A e \in DOMAIN u : txt[u[e]] = 1) /\ Len(q) \in Nat
  <2>1. Len(u) = Len(q) + 1 /\ u[Len(q) + 1] = p /\ (\A e \in 1 .. Len(q) : u[e] = q[e]) /\ Len(q) \in Nat
    <3>1. /\ Len(Append(q, p)) = Len(q) + 1 /\ Append(q, p)[Len(q) + 1] = p /\ Len(q) \in Nat
          /\ \A e \in 1 .. Len(q) : Append(q, p)[e] = q[e]
      BY AppendFacts
    <3> QED
      BY <1>8, <3>1
  <2>2. u # <<>> /\ \A e \in DOMAIN u : e = Len(q) + 1 \/ e \in 1 .. Len(q)
    BY <2>1
  <2>3. \A e \in 1 .. Len(q) : txt[q[e]] = 1
    BY <1>7
  <2> QED
    BY <2>1, <2>2, <2>3
<1>10. ItemFits(txt, new)
  <2>1. new.long \in BOOLEAN
    BY DEF ItemType
  <2> QED
    BY <1>8, <1>9, <2>1 DEF ItemFits
<1>11. \A i \in DOMAIN r : ItemFits(txt, r[i])
  BY <1>1, <1>2, <1>4, <1>5, <1>10
<1>12. PICK x \in Seq(Id) : x = Entry(txt, p)
  BY EntryType
<1>13. FlattenSeq(Fulls(txt, r)) = ids \o x
  <2>1. PICK s \in Seq(Seq(Id)) : s = Fulls(txt, items) /\ Len(s) = n
    BY <1>1, <1>2, FullsType, Zenon
  <2>2. PICK t \in Seq(Seq(Id)) : t = Fulls(txt, r) /\ Len(t) = n
    BY <1>4, <1>11, FullsType, Zenon
  <2>3. \A i \in 1 .. n - 1 : t[i] = s[i]
    <3>1. \A i \in 1 .. n - 1 : i \in 1 .. n
      OBVIOUS
    <3> QED
      BY <1>2, <1>4, <2>1, <2>2, <3>1 DEF Fulls
  <2>4. t[n] = s[n] \o x
    <3>1. t[n] = FlattenSeq(Entries(txt, new)) /\ s[n] = FlattenSeq(Entries(txt, items[n]))
      BY <1>2, <1>4, <1>5, <2>1, <2>2 DEF Fulls
    <3>2. new.pretokens = Append(q, p)
      BY <1>8
    <3>3. FlattenSeq(Entries(txt, new)) = FlattenSeq(Entries(txt, items[n])) \o Entry(txt, p)
      <4>1. PICK old : old = items[n] /\ old.pretokens = q
        BY <1>6
      <4>2. FlattenSeq(Entries(txt, new)) = FlattenSeq(Entries(txt, old)) \o Entry(txt, p)
        BY <3>2, <4>1, EntriesMore, Zenon
      <4> QED
        BY <4>1, <4>2
    <3> QED
      BY <1>12, <3>1, <3>3
  <2>5. LastExtended(s, t, x, n)
    BY <2>1, <2>2, <2>3, <2>4 DEF LastExtended
  <2>6. FlattenSeq(t) = FlattenSeq(s) \o x
    BY <2>5, FlatLast
  <2> QED
    BY <1>1, <2>1, <2>2, <2>6
<1>14. Total(Sizes(txt, r)) = size + 1
  <2>1. PICK s \in Seq(Nat) : s = Sizes(txt, items) /\ Len(s) = n
    BY <1>1, <1>2, FullsType, Zenon
  <2>2. PICK t \in Seq(Nat) : t = Sizes(txt, r) /\ Len(t) = n
    BY <1>4, <1>11, FullsType, Zenon
  <2>3. \A k \in 1 .. n : k # n => t[k] = s[k]
    BY <1>2, <1>4, <1>5, <2>1, <2>2 DEF Sizes
  <2>4. t[n] = s[n] + 1
    <3>1. t[n] = Len(u) /\ s[n] = Len(q)
      BY <1>2, <1>4, <1>5, <1>6, <1>8, <2>1, <2>2 DEF Sizes, Size
    <3> QED
      BY <1>9, <3>1
  <2>5. Total(t) = Total(s) + 1
    <3>1. n \in 1 .. Len(s) /\ 1 \in Nat /\ Len(t) = Len(s) /\ \A k \in 1 .. Len(s) : k # n => t[k] = s[k]
      BY <2>1, <2>2, <2>3
    <3> QED
      BY <2>4, <3>1, TotalChange, Zenon
  <2> QED
    BY <1>1, <2>1, <2>2, <2>5
<1> QED
  BY <1>2, <1>3, <1>4, <1>11, <1>12, <1>13, <1>14, Zenon DEF ItemsGood

\* The items of a text are its pretokens in order.
LEMMA ItemsFacts ==
    ASSUME NEW txt, Good(txt)
    PROVE  ItemsGood(Items(txt), txt, Whole(txt, 0), Total(txt))
<1>1. txt \in Seq(Nat \ {0}) /\ txt \in Seq(Nat)
  BY DEF Good
<1>2. PICK n \in Nat : n = Len(txt) /\ DOMAIN txt = 1 .. n
  BY <1>1
<1>3. PICK f : ItemsUpTo(f, txt)
  BY <1>1, ItemsFold
<1>4. f[0] = <<>> /\ (\A k \in 1 .. n : f[k] = Added(f[k - 1], txt, k)) /\ Items(txt) = f[n]
  BY <1>2, <1>3 DEF ItemsUpTo
<1>5. PICK s : s = [p \in 1 .. n |-> Entry(txt, p)]
  BY Zenon
<1>6. s \in Seq(Seq(Id)) /\ Len(s) = n /\ FlattenSeq(s) = Whole(txt, 0)
  <2>1. PICK X : X = Seq(Id)
    OBVIOUS
  <2>2. \A p \in 1 .. n : Entry(txt, p) \in X
    BY <1>2, <2>1, EntryType
  <2>3. s \in Seq(X) /\ Len(s) = n
    BY <1>5, <2>2
  <2>4. FlattenSeq(s) = Whole(txt, 0)
    BY <1>2, <1>5 DEF Whole, Entry
  <2> QED
    BY <2>1, <2>3, <2>4
<1>7. PICK w : FlatUpTo(w, s, Id)
  BY <1>6, FlatFold
<1>8. w[0] = <<>> /\ (\A k \in 1 .. n : w[k] = w[k - 1] \o s[k]) /\ w[n] = Whole(txt, 0)
  BY <1>6, <1>7, Zenon DEF FlatUpTo
<1>9. PICK m : TotalUpTo(m, txt)
  BY <1>1, TotalFold
<1>10. m[0] = 0 /\ (\A k \in 1 .. n : m[k] = m[k - 1] + txt[k]) /\ m[n] = Total(txt)
  BY <1>2, <1>9 DEF TotalUpTo
<1>11. PICK T : T = {k \in 0 .. n : ItemsGood(f[k], txt, w[k], m[k])}
  BY Zenon
<1>12. 0 \in T
  <2>1. Fulls(txt, <<>>) = <<>> /\ Sizes(txt, <<>>) = <<>>
    BY DEF Fulls, Sizes
  <2>2. FlattenSeq(<<>>) = <<>>
    <3>1. Len(<<>>) = 0
      OBVIOUS
    <3> QED
      BY <3>1 DEF FlattenSeq
  <2>3. Total(<<>>) = 0
    <3>1. PICK z \in Seq(Nat) : z = <<>>
      <4>1. <<>> \in Seq(Nat)
        BY EmptySeq
      <4> QED
        BY <4>1, Zenon
    <3>2. \A k \in DOMAIN z : z[k] = 0
      BY <3>1
    <3>3. Total(z) = 0
      BY <3>2, TotalZero
    <3> QED
      BY <3>1, <3>3
  <2>4. <<>> \in Seq(ItemType) /\ DOMAIN <<>> = {}
    OBVIOUS
  <2>5. ItemsGood(<<>>, txt, <<>>, 0)
    BY <2>1, <2>2, <2>3, <2>4 DEF ItemsGood
  <2> QED
    BY <1>4, <1>8, <1>10, <1>11, <2>5
<1>13. ASSUME NEW j \in 0 .. n - 1, j \in T PROVE j + 1 \in T
  <2>1. PICK k \in 1 .. n : k = j + 1 /\ k - 1 = j /\ k \in 0 .. n /\ k \in Nat
    OBVIOUS
  <2>2. k \in DOMAIN txt /\ txt[k] \in Nat \ {0}
    BY <1>2, EntryType
  <2>3. PICK items, ids, size : items = f[j] /\ ids = w[j] /\ size = m[j]
    OBVIOUS
  <2>4. ItemsGood(items, txt, ids, size)
    BY <1>11, <1>13, <2>3
  <2>5. w[k] = ids \o Entry(txt, k) /\ m[k] = size + txt[k] /\ f[k] = Added(items, txt, k)
    BY <1>4, <1>5, <1>8, <1>10, <2>1, <2>3, Zenon
  <2>6. items \in Seq(ItemType)
    BY <2>4 DEF ItemsGood
  <2>7. ItemsGood(Added(items, txt, k), txt, ids \o Entry(txt, k), size + txt[k])
    <3>1. CASE /\ ~Long(txt, k) /\ items # <<>> /\ ~items[Len(items)].long
               /\ Added(items, txt, k) = [items EXCEPT ![Len(items)] =
                      [long |-> FALSE, pretokens |-> Append(items[Len(items)].pretokens, k)]]
      <4>1. PICK new : new = [long |-> FALSE, pretokens |-> Append(items[Len(items)].pretokens, k)]
        BY Zenon
      <4>2. items[Len(items)] \in ItemType
        BY <2>6, <3>1
      <4>3. items[Len(items)].pretokens \in Seq(Nat)
        BY <4>2 DEF ItemType
      <4>4. new \in ItemType /\ ~new.long /\ new.pretokens = Append(items[Len(items)].pretokens, k)
        <5>1. Append(items[Len(items)].pretokens, k) \in Seq(Nat)
          BY <2>1, <4>3, AppendFacts
        <5> QED
          BY <4>1, <5>1 DEF ItemType
      <4>5. txt[k] = 1
        <5>1. ~(txt[k] > 1)
          BY <3>1 DEF Long
        <5> QED
          BY <2>2, <5>1
      <4>6. ItemsGood([items EXCEPT ![Len(items)] = new], txt, ids \o Entry(txt, k), size + txt[k])
        BY <2>2, <2>4, <3>1, <4>4, <4>5, GoodLast, Zenon
      <4> QED
        BY <3>1, <4>1, <4>6
    <3>2. CASE Added(items, txt, k) = Append(items, [long |-> Long(txt, k), pretokens |-> <<k>>])
      <4>1. PICK new : new = [long |-> Long(txt, k), pretokens |-> <<k>>]
        BY Zenon
      <4>2. new \in ItemType /\ new.long = Long(txt, k) /\ new.pretokens = <<k>>
        <5>1. Long(txt, k) \in BOOLEAN /\ <<k>> \in Seq(Nat)
          BY <2>1 DEF Long
        <5> QED
          BY <4>1, <5>1 DEF ItemType
      <4>3. ItemsGood(Append(items, new), txt, ids \o Entry(txt, k), size + txt[k])
        BY <2>2, <2>4, <4>2, GoodAppend
      <4> QED
        BY <3>2, <4>1, <4>3
    <3> QED
      BY <2>1, <2>6, <3>1, <3>2, AddedItem, Zenon
  <2>8. ItemsGood(f[k], txt, w[k], m[k])
    BY <2>5, <2>7
  <2> QED
    BY <1>11, <2>1, <2>8
<1>14. 0 .. n \subseteq T
  BY <1>12, <1>13, UpTo
<1>15. n \in 0 .. n
  OBVIOUS
<1>16. ItemsGood(f[n], txt, w[n], m[n])
  BY <1>11, <1>14, <1>15
<1> QED
  BY <1>4, <1>8, <1>10, <1>16

\* What a thread sends for its entries is sliced into the ids of each.
LEMMA SlicedEncoded ==
    ASSUME NEW X, NEW pieces \in Seq(X), \A e \in DOMAIN pieces : Ids(pieces[e]) \in Seq(Id)
    PROVE  Sliced(Encoded(pieces)) = [e \in DOMAIN pieces |-> Ids(pieces[e])]
<1>1. PICK n \in Nat : n = Len(pieces) /\ DOMAIN pieces = 1 .. n
  OBVIOUS
<1>2. PICK s : s = [e \in 1 .. n |-> Ids(pieces[e])]
  BY Zenon
<1>3. s \in Seq(Seq(Id)) /\ Len(s) = n /\ DOMAIN s = 1 .. n /\ \A e \in 1 .. n : s[e] = Ids(pieces[e])
  <2>1. PICK Y : Y = Seq(Id)
    OBVIOUS
  <2>2. \A e \in 1 .. n : Ids(pieces[e]) \in Y
    BY <1>1, <2>1
  <2>3. s \in Seq(Y) /\ Len(s) = n /\ DOMAIN s = 1 .. n /\ \A e \in 1 .. n : s[e] = Ids(pieces[e])
    BY <1>2, <2>2
  <2> QED
    BY <2>1, <2>3
<1>4. PICK ls, flat : ls = [e \in 1 .. n |-> Len(s[e])] /\ flat = FlattenSeq(s)
  BY Zenon
<1>5. Len(ls) = n /\ DOMAIN ls = 1 .. n
  BY <1>4
<1>6. Encoded(pieces) = [lengths |-> ls, flatIds |-> flat]
  BY <1>1, <1>2, <1>3, <1>4, Zenon DEF Encoded
<1>7. PICK at : Places(at, s, Id)
  BY <1>3, FlatPlaces
<1>8. /\ flat \in Seq(Id) /\ at \in [0 .. n -> Nat] /\ at[0] = 0 /\ at[n] = Len(flat)
      /\ PlacedUpTo(at, flat, s, n)
  BY <1>3, <1>4, <1>7 DEF Places
<1>9. \A k \in 1 .. n : /\ at[k] = at[k - 1] + Len(s[k]) /\ at[k] <= Len(flat)
                        /\ \A j \in 1 .. Len(s[k]) : flat[at[k - 1] + j] = s[k][j]
  BY <1>8 DEF PlacedUpTo
<1> DEFINE lengths == Encoded(pieces).lengths
<1> DEFINE End(h)  == h = [e \in 0 .. Len(lengths) |-> IF e = 0 THEN 0 ELSE h[e - 1] + lengths[e]]
<1>0. lengths = ls /\ Encoded(pieces).flatIds = flat
  BY <1>6
<1>10. End(at)
  <2>1. ASSUME NEW e \in 0 .. n PROVE at[e] = IF e = 0 THEN 0 ELSE at[e - 1] + ls[e]
    <3>1. e # 0 => e \in 1 .. n
      OBVIOUS
    <3> QED
      BY <1>4, <1>8, <1>9, <3>1
  <2> QED
    BY <1>0, <1>5, <1>8, <2>1
<1>11. PICK it : it = CHOOSE h : End(h)
  OBVIOUS
<1>12. End(it)
  BY <1>10, <1>11
<1>13. Sliced(Encoded(pieces)) = [e \in 1 .. n |-> SubSeq(flat, it[e - 1] + 1, it[e])]
  <2>1. Sliced(Encoded(pieces)) = [e \in DOMAIN lengths |-> SubSeq(Encoded(pieces).flatIds, it[e - 1] + 1, it[e])]
    BY <1>11 DEF Sliced
  <2> QED
    BY <1>0, <1>5, <2>1
<1>14. \A e \in 0 .. n : it[e] = at[e]
  <2>1. PICK T : T = {k \in 0 .. n : it[k] = at[k]}
    BY Zenon
  <2>2. 0 \in T
    BY <1>0, <1>5, <1>8, <1>12, <2>1
  <2>3. ASSUME NEW k \in 0 .. n - 1, k \in T PROVE k + 1 \in T
    <3>1. PICK l \in 1 .. n : l = k + 1 /\ l - 1 = k /\ l \in 0 .. n /\ l # 0
      OBVIOUS
    <3>2. it[l] = it[l - 1] + ls[l] /\ at[l] = at[l - 1] + ls[l]
      BY <1>0, <1>5, <1>10, <1>12, <3>1
    <3>3. it[k] = at[k]
      BY <2>1, <2>3
    <3> QED
      BY <2>1, <3>1, <3>2, <3>3
  <2>4. 0 .. n \subseteq T
    BY <2>2, <2>3, UpTo
  <2> QED
    BY <2>1, <2>4
<1>15. ASSUME NEW e \in 1 .. n PROVE SubSeq(flat, it[e - 1] + 1, it[e]) = s[e]
  <2>1. e \in 0 .. n /\ e - 1 \in 0 .. n
    OBVIOUS
  <2>2. PICK a \in Nat, b \in Nat, l \in Nat : a = at[e - 1] /\ b = at[e] /\ l = Len(flat)
    <3>1. at[e - 1] \in Nat /\ at[e] \in Nat
      BY <1>8, <2>1
    <3>2. Len(flat) \in Nat
      BY <1>8
    <3> QED
      BY <3>1, <3>2
  <2>3. PICK q \in Seq(Id) : q = s[e]
    BY <1>3
  <2>4. b = a + Len(q) /\ b <= l /\ \A j \in 1 .. Len(q) : flat[a + j] = q[j]
    BY <1>9, <2>2, <2>3
  <2>5. PICK r : r = SubSeq(flat, a + 1, b)
    BY Zenon
  <2>6. r \in Seq(Id) /\ Len(r) = Len(q) /\ \A j \in 1 .. Len(q) : r[j] = flat[a + j]
    <3>1. PICK d \in Nat : d = Len(q)
      OBVIOUS
    <3>2. PICK x \in Int, y \in Int : x = a + 1 /\ y = b
      OBVIOUS
    <3>3. \A i \in x .. y : flat[i] \in Id
      <4>1. \A i \in x .. y : i \in 1 .. Len(flat)
        BY <2>2, <2>4, <3>2
      <4> QED
        BY <1>8, <4>1
    <3>4. /\ SubSeq(flat, x, y) \in Seq(Id) /\ Len(SubSeq(flat, x, y)) = (IF x <= y THEN y - x + 1 ELSE 0)
          /\ \A i \in 1 .. y - x + 1 : SubSeq(flat, x, y)[i] = flat[x + i - 1]
      BY <3>3, SubSeqProperties
    <3>5. y - x + 1 = d /\ (IF x <= y THEN y - x + 1 ELSE 0) = d /\ \A i \in 1 .. d : x + i - 1 = a + i
      BY <2>4, <3>1, <3>2
    <3> QED
      BY <2>5, <3>1, <3>2, <3>4, <3>5
  <2>7. r = q
    BY <2>4, <2>6
  <2> QED
    BY <1>14, <2>1, <2>2, <2>3, <2>5, <2>7, Zenon
<1> QED
  BY <1>1, <1>2, <1>3, <1>13, <1>15

(***************************************************************************)
(* The requests of a worker                                                *)
(***************************************************************************)
\* mine has those of the first n numbers that hit, each once.
Chosen(mine, hits, n) ==
    /\ mine \in Seq(1 .. n) /\ \A j \in DOMAIN mine : hits[mine[j]]
    /\ \A i, j \in DOMAIN mine : mine[i] = mine[j] => i = j
    /\ \A k \in 1 .. n : hits[k] => \E j \in DOMAIN mine : mine[j] = k

\* The numbers chosen up to k are those up to k - 1, and k if it is a hit.
LEMMA ChosenNext ==
    ASSUME NEW n \in Nat, NEW k \in 1 .. n, NEW hits \in [1 .. n -> BOOLEAN], NEW mine, Chosen(mine, hits, k - 1)
    PROVE  Chosen(IF hits[k] THEN Append(mine, k) ELSE mine, hits, k)
<1>1. /\ mine \in Seq(1 .. k - 1) /\ (\A j \in DOMAIN mine : hits[mine[j]])
      /\ (\A i, j \in DOMAIN mine : mine[i] = mine[j] => i = j)
      /\ \A i \in 1 .. k - 1 : hits[i] => \E j \in DOMAIN mine : mine[j] = i
  BY DEF Chosen
<1>2. PICK l \in Nat : l = Len(mine) /\ DOMAIN mine = 1 .. l
  BY <1>1
<1>3. \A j \in 1 .. l : mine[j] \in 1 .. k - 1 /\ mine[j] \in 1 .. k /\ mine[j] # k
  BY <1>1, <1>2
<1>4. mine \in Seq(1 .. k)
  BY <1>1, <1>2, <1>3
<1>5. CASE ~hits[k]
  <2>1. \A i \in 1 .. k : hits[i] => i \in 1 .. k - 1
    BY <1>5
  <2> QED
    BY <1>1, <1>4, <1>5, <2>1 DEF Chosen
<1>6. CASE hits[k]
  <2>1. k \in 1 .. k
    OBVIOUS
  <2>2. PICK r \in Seq(1 .. k) : r = Append(mine, k)
    BY <1>4, <2>1, AppendFacts, Zenon
  <2>3. Len(r) = l + 1 /\ DOMAIN r = 1 .. l + 1 /\ r[l + 1] = k /\ \A j \in 1 .. l : r[j] = mine[j]
    BY <1>2, <1>4, <2>1, <2>2, AppendFacts
  <2>4. \A j \in 1 .. l + 1 : j = l + 1 \/ j \in 1 .. l
    OBVIOUS
  <2>5. \A j \in DOMAIN r : hits[r[j]]
    BY <1>1, <1>2, <1>6, <2>3, <2>4
  <2>6. ASSUME NEW i \in 1 .. l + 1, NEW j \in 1 .. l + 1, r[i] = r[j] PROVE i = j
    <3>1. CASE i = l + 1 /\ j = l + 1
      BY <3>1
    <3>2. CASE i = l + 1 /\ j \in 1 .. l
      BY <1>3, <2>3, <2>6, <3>2
    <3>3. CASE i \in 1 .. l /\ j = l + 1
      BY <1>3, <2>3, <2>6, <3>3
    <3>4. CASE i \in 1 .. l /\ j \in 1 .. l
      <4>1. mine[i] = mine[j]
        BY <2>3, <2>6, <3>4
      <4>2. i \in DOMAIN mine /\ j \in DOMAIN mine
        BY <1>2, <3>4
      <4> QED
        BY <1>1, <4>1, <4>2
    <3> QED
      BY <2>4, <3>1, <3>2, <3>3, <3>4
  <2>7. ASSUME NEW i \in 1 .. k, hits[i] PROVE \E j \in DOMAIN r : r[j] = i
    <3>1. CASE i = k
      <4>1. l + 1 \in DOMAIN r
        BY <2>3
      <4> QED
        BY <2>3, <3>1, <4>1
    <3>2. CASE i # k
      <4>1. i \in 1 .. k - 1
        BY <3>2
      <4>2. PICK j \in 1 .. l : mine[j] = i
        BY <1>1, <1>2, <2>7, <4>1
      <4>3. j \in DOMAIN r /\ r[j] = i
        BY <2>3, <4>2
      <4> QED
        BY <4>3
    <3> QED
      BY <3>1, <3>2
  <2>9. \A i, j \in DOMAIN r : r[i] = r[j] => i = j
    BY <2>3, <2>6
  <2>8. Chosen(r, hits, k)
    BY <2>5, <2>7, <2>9 DEF Chosen
  <2> QED
    BY <1>6, <2>2, <2>8
<1> QED
  BY <1>5, <1>6

\* Which requests a worker is given: mine are their numbers.
Given(mine, rs, w) ==
    /\ Assigned(rs, w) = [j \in DOMAIN mine |-> rs[mine[j]]]
    /\ mine \in Seq(DOMAIN rs)
    /\ \A j \in DOMAIN mine : Later(mine[j] - 1) = w
    /\ \A i, j \in DOMAIN mine : mine[i] = mine[j] => i = j
    /\ \A k \in DOMAIN rs : Later(k - 1) = w => \E j \in DOMAIN mine : mine[j] = k

\* What the round robin assigns to a worker is some of the requests, each of its own once,
\* in their order (Assigned's fold computes the numbers of those requests).
LEMMA AssignedGiven ==
    ASSUME NEW X, NEW rs \in Seq(X), NEW w
    PROVE  \E mine : Given(mine, rs, w)
<1>1. PICK n \in Nat : n = Len(rs) /\ DOMAIN rs = 1 .. n
  OBVIOUS
<1>2. PICK hits : hits = [k \in 1 .. n |-> Later(k - 1) = w]
  BY Zenon
<1>3. hits \in [1 .. n -> BOOLEAN] /\ \A k \in 1 .. n : hits[k] <=> Later(k - 1) = w
  <2>1. \A k \in 1 .. n : hits[k] = (Later(k - 1) = w)
    BY <1>2
  <2> QED
    BY <1>2, <2>1, Zenon
<1>4. PICK step : step = [k \in 1 .. n |-> [ks \in Seq(Nat) |-> IF hits[k] THEN Append(ks, k) ELSE ks]]
  BY Zenon
<1>5. step \in [1 .. n -> [Seq(Nat) -> Seq(Nat)]]
  <2>1. ASSUME NEW k \in 1 .. n, NEW ks \in Seq(Nat) PROVE (IF hits[k] THEN Append(ks, k) ELSE ks) \in Seq(Nat)
    <3>1. k \in Nat
      OBVIOUS
    <3>2. Append(ks, k) \in Seq(Nat)
      BY <3>1, AppendFacts
    <3> QED
      BY <3>2
  <2> QED
    BY <1>4, <2>1
<1>6. PICK g \in [SUBSET (1 .. n) -> Seq(Nat)] : FoldsTo(g, n, <<>>, step)
  <2>1. <<>> \in Seq(Nat)
    BY EmptySeq
  <2> QED
    BY <1>5, <2>1, FoldExists, Zenon
<1> DEFINE Fold(h) == h = [r \in SUBSET (1 .. n) |->
              IF r = {} THEN <<>>
              ELSE IF Later(Max(r) - 1) = w THEN Append(h[r \ {Max(r)}], Max(r)) ELSE h[r \ {Max(r)}]]
<1>7. \A r \in SUBSET (1 .. n) : r # {} => Max(r) \in 1 .. n /\ r \ {Max(r)} \in SUBSET (1 .. n)
  BY GreatestIn, Zenon
<1>8. Fold(g)
  <2>1. ASSUME NEW r \in SUBSET (1 .. n)
        PROVE  g[r] = IF r = {} THEN <<>>
                      ELSE IF Later(Max(r) - 1) = w THEN Append(g[r \ {Max(r)}], Max(r)) ELSE g[r \ {Max(r)}]
    <3>1. CASE r = {}
      BY <1>6, <3>1, Zenon DEF FoldsTo
    <3>2. CASE r # {}
      <4>1. PICK k \in 1 .. n : k = Max(r)
        BY <1>7, <3>2
      <4>2. PICK ks \in Seq(Nat) : ks = g[r \ {k}]
        BY <1>6, <1>7, <3>2, <4>1, Zenon
      <4>3. step[k][ks] = IF hits[k] THEN Append(ks, k) ELSE ks
        BY <1>4
      <4>4. g[r] = step[k][ks]
        BY <1>6, <3>2, <4>1, <4>2, Zenon DEF FoldsTo
      <4> QED
        BY <1>3, <3>2, <4>1, <4>2, <4>3, <4>4, Zenon
    <3> QED
      BY <3>1, <3>2
  <2> QED
    BY <1>6, <2>1, Zenon
<1> DEFINE numbers == [k \in DOMAIN rs |-> k]
<1> DEFINE ByDefinition(h) == h = [r \in SUBSET (DOMAIN numbers) |->
              IF r = {} THEN <<>>
              ELSE IF Later(numbers[Max(r)] - 1) = w THEN Append(h[r \ {Max(r)}], numbers[Max(r)])
                   ELSE h[r \ {Max(r)}]]
<1>9. PICK it : it = CHOOSE h : ByDefinition(h)
  BY Zenon
<1>10. Fold(it)
  <2>1. DOMAIN numbers = 1 .. n /\ \A k \in 1 .. n : numbers[k] = k
    BY <1>1
  <2>2. \A r \in SUBSET (1 .. n) : r # {} => numbers[Max(r)] = Max(r)
    BY <1>7, <2>1
  <2> HIDE DEF numbers
  <2>3. ByDefinition(g)
    <3>1. ASSUME NEW r \in SUBSET (1 .. n)
          PROVE  g[r] = IF r = {} THEN <<>>
                        ELSE IF Later(numbers[Max(r)] - 1) = w THEN Append(g[r \ {Max(r)}], numbers[Max(r)])
                             ELSE g[r \ {Max(r)}]
      <4>1. g[r] = IF r = {} THEN <<>>
                   ELSE IF Later(Max(r) - 1) = w THEN Append(g[r \ {Max(r)}], Max(r)) ELSE g[r \ {Max(r)}]
        BY <1>8, Zenon
      <4> QED
        BY <2>2, <4>1
    <3> QED
      BY <1>6, <2>1, <3>1, Zenon
  <2>4. ByDefinition(it)
    BY <1>9, <2>3, Zenon
  <2> QED
    BY <2>1, <2>2, <2>4, Zenon
<1>11. PICK mine : mine = it[1 .. n]
  OBVIOUS
<1>12. Assigned(rs, w) = [j \in DOMAIN mine |-> rs[mine[j]]]
  <2>1. DOMAIN numbers = 1 .. n
    BY <1>1
  <2>2. mine = it[DOMAIN numbers]
    BY <1>11, <2>1
  <2> QED
    BY <1>9, <2>2 DEF Assigned, FoldLeft, MapThenFoldSet
<1>13. PICK f : f = [k \in 0 .. n |-> it[1 .. k]]
  BY Zenon
<1>14. f[0] = <<>> /\ f[n] = mine
  <2>1. 1 .. 0 = {} /\ {} \in SUBSET (1 .. n) /\ 0 \in 0 .. n /\ n \in 0 .. n
    OBVIOUS
  <2> QED
    BY <1>10, <1>11, <1>13, <2>1, Zenon
<1>15. ASSUME NEW k \in 1 .. n PROVE f[k] = IF hits[k] THEN Append(f[k - 1], k) ELSE f[k - 1]
  <2>1. 1 .. k \in SUBSET (1 .. n) /\ 1 .. k # {} /\ Max(1 .. k) = k /\ (1 .. k) \ {Max(1 .. k)} = 1 .. k - 1
        /\ k - 1 \in 0 .. n /\ k \in 0 .. n
    BY FirstNumbers, Zenon
  <2>2. it[1 .. k] = IF Later(Max(1 .. k) - 1) = w THEN Append(it[(1 .. k) \ {Max(1 .. k)}], Max(1 .. k))
                     ELSE it[(1 .. k) \ {Max(1 .. k)}]
    BY <1>10, <2>1, Zenon
  <2> QED
    BY <1>3, <1>13, <2>1, <2>2, Zenon
<1>16. Chosen(mine, hits, n)
  <2>1. PICK T : T = {k \in 0 .. n : Chosen(f[k], hits, k)}
    BY Zenon
  <2>2. 0 \in T
    <3>1. Chosen(<<>>, hits, 0)
      <4>1. <<>> \in Seq(1 .. 0) /\ DOMAIN <<>> = {} /\ 1 .. 0 = {}
        OBVIOUS
      <4> QED
        BY <4>1 DEF Chosen
    <3> QED
      BY <1>14, <2>1, <3>1
  <2>3. ASSUME NEW k \in 0 .. n - 1, k \in T PROVE k + 1 \in T
    <3>1. PICK l \in 1 .. n : l = k + 1 /\ l - 1 = k /\ l \in 0 .. n
      OBVIOUS
    <3>2. PICK q : q = f[k]
      OBVIOUS
    <3>3. Chosen(q, hits, l - 1)
      BY <2>1, <2>3, <3>1, <3>2
    <3>4. Chosen(IF hits[l] THEN Append(q, l) ELSE q, hits, l)
      BY <1>3, <3>3, ChosenNext, Zenon
    <3>5. f[l] = IF hits[l] THEN Append(q, l) ELSE q
      BY <1>15, <3>1, <3>2
    <3>6. Chosen(f[l], hits, l)
      BY <3>4, <3>5
    <3> QED
      BY <2>1, <3>1, <3>6
  <2>4. 0 .. n \subseteq T
    BY <2>2, <2>3, UpTo
  <2>5. n \in 0 .. n
    OBVIOUS
  <2> QED
    BY <1>14, <2>1, <2>4, <2>5
<1>17. /\ mine \in Seq(1 .. n) /\ (\A j \in DOMAIN mine : hits[mine[j]])
       /\ (\A i, j \in DOMAIN mine : mine[i] = mine[j] => i = j)
       /\ \A k \in 1 .. n : hits[k] => \E j \in DOMAIN mine : mine[j] = k
  BY <1>16 DEF Chosen
<1>18. \A j \in DOMAIN mine : mine[j] \in 1 .. n
  BY <1>17
<1>19. Given(mine, rs, w)
  BY <1>1, <1>3, <1>12, <1>17, <1>18 DEF Given
<1> QED
  BY <1>19

(***************************************************************************)
(* The requests of a text                                                  *)
(***************************************************************************)
\* A request of an item: its batch, or one chunk.
ForItem(c, txt, i, item, r) ==
    /\ r.call = c /\ r.item = i
    /\ IF ~item.long THEN r.part = 0 /\ r.pieces = Batch(item.pretokens)
       ELSE LET p == item.pretokens[1] IN r.part \in 1 .. txt[p] /\ r.pieces = <<Piece(p, r.part, r.part, 0)>>

\* The parts that are requested of an item.
Asked(txt, item) == IF ~item.long THEN {0} ELSE IF chunking THEN 1 .. txt[item.pretokens[1]] ELSE {}

\* q has one request for each of these parts.
AllAsked(q, c, txt, i, item) ==
    /\ \A a \in DOMAIN q : ForItem(c, txt, i, item, q[a])
    /\ \A a, b \in DOMAIN q : q[a].part = q[b].part => a = b
    /\ \A part \in Asked(txt, item) : \E a \in DOMAIN q : q[a].part = part

\* The requests of an item are one for each part that is asked for (encodeBatch of a batch,
\* the initial chunks of a long pretoken).
LEMMA AskedOfItem ==
    ASSUME NEW c \in Call, NEW txt, Good(txt), NEW i \in DOMAIN Items(txt)
    PROVE  /\ ItemRequests(c, txt, i, 0) \in Seq(Request)
           /\ AllAsked(ItemRequests(c, txt, i, 0), c, txt, i, Items(txt)[i])
<1>1. Items(txt) \in Seq(ItemType) /\ ItemFits(txt, Items(txt)[i])
  BY ItemsFacts DEF ItemsGood
<1>2. PICK item \in ItemType : item = Items(txt)[i] /\ i \in Nat
  BY <1>1
<1>3. PICK q : q = ItemRequests(c, txt, i, 0)
  OBVIOUS
<1>4. PICK ps \in Seq(DOMAIN txt) : ps = item.pretokens /\ ps # <<>>
  BY <1>1, <1>2 DEF ItemFits
<1>5. ps[1] \in DOMAIN txt
  BY <1>4
<1>6. PICK p \in Nat, n \in Nat \ {0} : p = ps[1] /\ n = txt[p]
  BY <1>5, EntryType
<1>7. \A e \in DOMAIN ps : ps[e] \in Nat
  <2>1. \A e \in DOMAIN ps : ps[e] \in DOMAIN txt
    OBVIOUS
  <2> QED
    BY <2>1, EntryType
<1> DEFINE PieceType == [pretoken : Nat, first : Nat, last : Nat, version : {0, 1}]
<1>8. \A x, y, z \in Nat : Piece(x, y, z, 0) \in PieceType
  BY DEF Piece
<1>9. CASE ~item.long
  <2>1. PICK b : b = Batch(ps)
    OBVIOUS
  <2>2. b \in Seq(PieceType)
    <3>1. PICK l \in Nat : l = Len(ps) /\ DOMAIN ps = 1 .. l
      OBVIOUS
    <3>2. b = [e \in 1 .. l |-> Piece(ps[e], 1, 1, 0)]
      BY <2>1, <3>1 DEF Batch
    <3>3. \A e \in 1 .. l : Piece(ps[e], 1, 1, 0) \in PieceType
      BY <1>7, <1>8, <3>1, Zenon
    <3> HIDE DEF PieceType
    <3> QED
      BY <3>2, <3>3
  <2>3. PICK r \in Request : r = [call |-> c, item |-> i, part |-> 0, pieces |-> b]
    BY <1>2, <2>2, Zenon DEF Request
  <2>4. q = <<r>>
    BY <1>2, <1>3, <1>4, <1>9, <2>1, <2>3 DEF ItemRequests, Batch
  <2>5. q \in Seq(Request) /\ DOMAIN q = {1} /\ q[1] = r
    BY <2>4
  <2>6. r.call = c /\ r.item = i /\ r.part = 0 /\ r.pieces = b
    BY <2>3
  <2>7. ForItem(c, txt, i, item, r)
    BY <1>4, <1>9, <2>1, <2>6 DEF ForItem
  <2>8. Asked(txt, item) = {0}
    BY <1>9 DEF Asked
  <2> QED
    BY <1>2, <1>3, <2>5, <2>6, <2>7, <2>8 DEF AllAsked
<1>10. CASE item.long /\ ~chunking
  <2>1. q = <<>>
    BY <1>2, <1>3, <1>10 DEF ItemRequests
  <2>2. Asked(txt, item) = {}
    BY <1>10 DEF Asked
  <2>3. q \in Seq(Request) /\ DOMAIN q = {}
    BY <2>1, EmptySeq
  <2>4. AllAsked(q, c, txt, i, item)
    BY <2>2, <2>3 DEF AllAsked
  <2> QED
    BY <1>2, <1>3, <2>3, <2>4
<1>11. CASE item.long /\ chunking
  <2>1. q = [k \in 1 .. n |-> [call |-> c, item |-> i, part |-> k, pieces |-> <<Piece(p, k, k, 0)>>]]
    BY <1>2, <1>3, <1>4, <1>6, <1>11 DEF ItemRequests
  <2>2. ASSUME NEW k \in 1 .. n
        PROVE  [call |-> c, item |-> i, part |-> k, pieces |-> <<Piece(p, k, k, 0)>>] \in Request
    <3>1. k \in Nat
      OBVIOUS
    <3>2. PICK x \in PieceType : x = Piece(p, k, k, 0)
      BY <1>8, <3>1, Zenon
    <3>3. <<x>> \in Seq(PieceType)
      OBVIOUS
    <3> QED
      BY <1>2, <3>1, <3>2, <3>3 DEF Request
  <2>3. \A k \in 1 .. n : q[k] \in Request
    BY <2>1, <2>2
  <2>4. q \in Seq(Request) /\ DOMAIN q = 1 .. n
    <3>1. q = [k \in 1 .. n |-> q[k]]
      BY <2>1
    <3> QED
      BY <2>3, <3>1
  <2>5. ASSUME NEW k \in 1 .. n
        PROVE  /\ q[k].call = c /\ q[k].item = i /\ q[k].part = k /\ q[k].pieces = <<Piece(p, k, k, 0)>>
    BY <2>1
  <2>6. \A k \in 1 .. n : ForItem(c, txt, i, item, q[k])
    BY <1>4, <1>6, <1>11, <2>5 DEF ForItem
  <2>7. Asked(txt, item) = 1 .. n
    BY <1>4, <1>6, <1>11 DEF Asked
  <2>8. AllAsked(q, c, txt, i, item)
    BY <2>4, <2>5, <2>6, <2>7 DEF AllAsked
  <2> QED
    BY <1>2, <1>3, <2>4, <2>8
<1> QED
  BY <1>9, <1>10, <1>11

\* The requests of a text: one for each part that is asked of an item.
Requested(rs, c, txt) ==
    /\ rs \in Seq(Request)
    /\ \A k \in DOMAIN rs : rs[k].item \in DOMAIN Items(txt) /\ ForItem(c, txt, rs[k].item, Items(txt)[rs[k].item], rs[k])
    /\ \A k, l \in DOMAIN rs : Same(rs[k], rs[l]) => k = l
    /\ \A i \in DOMAIN Items(txt) : \A part \in Asked(txt, Items(txt)[i]) :
           \E k \in DOMAIN rs : rs[k].item = i /\ rs[k].part = part

\* The requests of an encode are those of its items, no two for the same part.
LEMMA RequestsFacts ==
    ASSUME NEW c \in Call, NEW txt, Good(txt)
    PROVE  Requested(Requests(c, txt, 0), c, txt)
<1>1. PICK n \in Nat : n = Len(Items(txt)) /\ DOMAIN Items(txt) = 1 .. n
  <2>1. Items(txt) \in Seq(ItemType)
    BY ItemsFacts DEF ItemsGood
  <2> QED
    BY <2>1
<1>2. PICK s : s = [i \in 1 .. n |-> ItemRequests(c, txt, i, 0)]
  BY Zenon
<1>3. \A i \in 1 .. n : s[i] \in Seq(Request) /\ AllAsked(s[i], c, txt, i, Items(txt)[i])
  <2>1. \A i \in 1 .. n : s[i] = ItemRequests(c, txt, i, 0)
    BY <1>2
  <2> QED
    BY <1>1, <2>1, AskedOfItem
<1>4. s \in Seq(Seq(Request)) /\ Len(s) = n
  <2>1. PICK Y : Y = Seq(Request)
    OBVIOUS
  <2>2. \A i \in 1 .. n : s[i] \in Y
    BY <1>3, <2>1
  <2>3. s = [i \in 1 .. n |-> s[i]]
    BY <1>2
  <2>4. s \in Seq(Y) /\ Len(s) = n
    BY <2>2, <2>3
  <2> QED
    BY <2>1, <2>4
<1>5. PICK rs : rs = FlattenSeq(s) /\ rs = Requests(c, txt, 0)
  BY <1>1, <1>2 DEF Requests
<1>6. PICK at : Places(at, s, Request)
  BY <1>4, FlatPlaces
<1>7. /\ rs \in Seq(Request) /\ at \in [0 .. n -> Nat] /\ at[0] = 0 /\ at[n] = Len(rs) /\ PlacedUpTo(at, rs, s, n)
  BY <1>4, <1>5, <1>6, Zenon DEF Places
<1>8. /\ \A i \in 1 .. n : /\ at[i] = at[i - 1] + Len(s[i]) /\ at[i] <= Len(rs)
                           /\ \A a \in 1 .. Len(s[i]) : rs[at[i - 1] + a] = s[i][a]
      /\ \A k \in 1 .. Len(rs) : \E i \in 1 .. n : \E a \in 1 .. Len(s[i]) : k = at[i - 1] + a
  BY <1>7 DEF PlacedUpTo
<1>9. ASSUME NEW k \in DOMAIN rs
      PROVE  \E i \in 1 .. n : \E a \in DOMAIN s[i] : k = at[i - 1] + a /\ rs[k] = s[i][a] /\ ForItem(c, txt, i, Items(txt)[i], rs[k])
  <2>1. k \in 1 .. Len(rs)
    BY <1>7
  <2>2. PICK i \in 1 .. n : \E a \in 1 .. Len(s[i]) : k = at[i - 1] + a
    BY <1>8, <2>1, Zenon
  <2>3. PICK a \in 1 .. Len(s[i]) : k = at[i - 1] + a
    BY <2>2
  <2>4. a \in DOMAIN s[i] /\ rs[k] = s[i][a]
    <3>1. PICK q \in Seq(Request) : q = s[i]
      BY <1>3
    <3>2. DOMAIN q = 1 .. Len(q)
      OBVIOUS
    <3> QED
      BY <1>8, <2>3, <3>1, <3>2
  <2>5. ForItem(c, txt, i, Items(txt)[i], s[i][a])
    BY <1>3, <2>4 DEF AllAsked
  <2> QED
    BY <2>3, <2>4, <2>5
<1>10. ASSUME NEW k \in DOMAIN rs
       PROVE  rs[k].item \in DOMAIN Items(txt) /\ ForItem(c, txt, rs[k].item, Items(txt)[rs[k].item], rs[k])
  <2>1. PICK i \in 1 .. n : ForItem(c, txt, i, Items(txt)[i], rs[k])
    BY <1>9
  <2>2. rs[k].item = i
    BY <2>1 DEF ForItem
  <2> QED
    BY <1>1, <2>1, <2>2
<1>11. ASSUME NEW k \in DOMAIN rs, NEW l \in DOMAIN rs, Same(rs[k], rs[l]) PROVE k = l
  <2>1. PICK i \in 1 .. n : \E a \in DOMAIN s[i] : k = at[i - 1] + a /\ rs[k] = s[i][a] /\ ForItem(c, txt, i, Items(txt)[i], rs[k])
    BY <1>9
  <2>2. PICK a \in DOMAIN s[i] : k = at[i - 1] + a /\ rs[k] = s[i][a] /\ ForItem(c, txt, i, Items(txt)[i], rs[k])
    BY <2>1
  <2>3. PICK j \in 1 .. n : \E b \in DOMAIN s[j] : l = at[j - 1] + b /\ rs[l] = s[j][b] /\ ForItem(c, txt, j, Items(txt)[j], rs[l])
    BY <1>9
  <2>4. PICK b \in DOMAIN s[j] : l = at[j - 1] + b /\ rs[l] = s[j][b] /\ ForItem(c, txt, j, Items(txt)[j], rs[l])
    BY <2>3
  <2>5. rs[k].item = i /\ rs[l].item = j
    BY <2>2, <2>4 DEF ForItem
  <2>6. i = j /\ rs[k].part = rs[l].part
    BY <1>11, <2>5, Zenon DEF Same
  <2>7. s[i][a].part = s[i][b].part /\ b \in DOMAIN s[i]
    BY <2>2, <2>4, <2>6
  <2>8. a = b
    BY <1>3, <2>7 DEF AllAsked
  <2> QED
    BY <2>2, <2>4, <2>6, <2>8
<1>12. ASSUME NEW i \in DOMAIN Items(txt), NEW part \in Asked(txt, Items(txt)[i])
       PROVE  \E k \in DOMAIN rs : rs[k].item = i /\ rs[k].part = part
  <2>1. i \in 1 .. n /\ AllAsked(s[i], c, txt, i, Items(txt)[i]) /\ s[i] \in Seq(Request)
    BY <1>1, <1>3
  <2>2. PICK a \in DOMAIN s[i] : s[i][a].part = part /\ s[i][a].item = i
    BY <2>1 DEF AllAsked, ForItem
  <2>3. a \in 1 .. Len(s[i]) /\ Len(s[i]) \in Nat
    BY <2>1
  <2>4. rs[at[i - 1] + a] = s[i][a]
    BY <1>8, <2>1, <2>3
  <2>5. at[i - 1] + a \in DOMAIN rs
    <3>1. i - 1 \in 0 .. n
      BY <2>1
    <3>2. PICK x \in Nat, y \in Nat, z \in Nat : x = at[i - 1] /\ y = Len(s[i]) /\ z = Len(rs)
      BY <1>7, <2>3, <3>1
    <3>3. x + y <= z
      BY <1>8, <2>1, <3>2
    <3>4. x + a \in 1 .. z
      BY <2>3, <3>2, <3>3
    <3> QED
      BY <1>7, <3>2, <3>4
  <2> QED
    BY <2>2, <2>4, <2>5
<1> QED
  BY <1>5, <1>7, <1>10, <1>11, <1>12 DEF Requested

(***************************************************************************)
(* What the invariant says of answers                                      *)
(***************************************************************************)
\* The parts of a task that is done, and the ids they have.
LEMMA DoneParts ==
    ASSUME NEW txt, Good(txt), NEW wrote \in {0, 1}, NEW item, ItemFits(txt, item), NEW task,
           TaskFits(txt, wrote, item, task), task.state = "done"
    PROVE  /\ task.parts \in Seq(Seq(Id)) /\ Erase(FlattenSeq(task.parts)) = FlattenSeq(Entries(txt, item))
           /\ \A k \in DOMAIN task.parts : \A j \in DOMAIN task.parts[k] :
                  /\ task.parts[k][j].pretoken \in ToSet(item.pretokens)
                  /\ task.parts[k][j].version = 1 => wrote = 1 /\ task.enlargements # 0
<1>1. PICK ps \in Seq(DOMAIN txt) : ps = item.pretokens /\ ps # <<>>
  BY DEF ItemFits
<1>2. PICK l \in Nat \ {0} : l = Len(ps) /\ DOMAIN ps = 1 .. l
  <2>1. Len(ps) \in Nat \ {0} /\ DOMAIN ps = 1 .. Len(ps)
    BY <1>1
  <2> QED
    BY <2>1, Zenon
<1>3. \A e \in 1 .. l : ps[e] \in DOMAIN txt /\ ps[e] \in ToSet(ps)
  BY <1>2 DEF ToSet
<1>4. CASE ~item.long
  <2>1. task.parts = [e \in 1 .. l |-> Ids(Piece(ps[e], 1, 1, 0))]
    BY <1>1, <1>2, <1>4 DEF TaskFits, BatchTask
  <2>2. \A e \in 1 .. l : txt[ps[e]] = 1
    BY <1>1, <1>2, <1>4 DEF ItemFits
  <2>3. ASSUME NEW e \in 1 .. l
        PROVE  /\ Ids(Piece(ps[e], 1, 1, 0)) \in Seq(Id)
               /\ \A j \in DOMAIN Ids(Piece(ps[e], 1, 1, 0)) : /\ Ids(Piece(ps[e], 1, 1, 0))[j].pretoken = ps[e]
                                                               /\ Ids(Piece(ps[e], 1, 1, 0))[j].version = 0
               /\ Erase(Ids(Piece(ps[e], 1, 1, 0))) = Ids(Piece(ps[e], 1, 1, 0))
    <3>1. PICK p \in DOMAIN txt : p = ps[e]
      BY <1>3
    <3>2. Countable(p, 1)
      <4>1. Countable(p, txt[p])
        BY EntryType
      <4> QED
        BY <2>2, <3>1, <4>1
    <3>3. 1 \in 1 .. 1 /\ 0 \in {0, 1}
      OBVIOUS
    <3>4. /\ Ids(Piece(p, 1, 1, 0)) \in Seq(Id)
          /\ \A j \in DOMAIN Ids(Piece(p, 1, 1, 0)) : /\ Ids(Piece(p, 1, 1, 0))[j].pretoken = p
                                                      /\ Ids(Piece(p, 1, 1, 0))[j].version = 0
      BY <3>2, <3>3, IdsType
    <3>5. Erase(Ids(Piece(p, 1, 1, 0))) = Ids(Piece(p, 1, 1, 0))
      BY <3>2, <3>3, EraseIds
    <3> QED
      BY <3>1, <3>4, <3>5
  <2>4. PICK s \in Seq(Seq(Id)) : s = task.parts
    <3>1. PICK Y : Y = Seq(Id)
      OBVIOUS
    <3>2. task.parts \in Seq(Y)
      BY <2>1, <2>3, <3>1
    <3> QED
      BY <3>1, <3>2
  <2>5. EraseAll(s) = Entries(txt, item)
    <3>1. EraseAll(s) = [e \in 1 .. l |-> Ids(Piece(ps[e], 1, 1, 0))]
      BY <2>1, <2>3, <2>4 DEF EraseAll
    <3>2. Entries(txt, item) = [e \in 1 .. l |-> Ids(Piece(ps[e], 1, 1, 0))]
      BY <1>1, <1>2, <2>2 DEF Entries, Entry
    <3> QED
      BY <3>1, <3>2
  <2>6. Erase(FlattenSeq(s)) = FlattenSeq(EraseAll(s))
    BY EraseFlat
  <2>7. \A k \in DOMAIN s : \A j \in DOMAIN s[k] : s[k][j].pretoken = ps[k] /\ s[k][j].version = 0 /\ ps[k] \in ToSet(ps)
    <3>1. ASSUME NEW k \in DOMAIN s, NEW j \in DOMAIN s[k] PROVE s[k][j].pretoken = ps[k] /\ s[k][j].version = 0 /\ ps[k] \in ToSet(ps)
      <4>1. k \in 1 .. l /\ s[k] = Ids(Piece(ps[k], 1, 1, 0))
        BY <2>1, <2>4
      <4>2. j \in DOMAIN Ids(Piece(ps[k], 1, 1, 0))
        BY <4>1
      <4> QED
        BY <1>3, <2>3, <4>1, <4>2, Zenon
    <3> QED
      BY <3>1
  <2> QED
    BY <1>1, <2>4, <2>5, <2>6, <2>7
<1>5. CASE item.long
  <2>1. l = 1 /\ ps = <<ps[1]>>
    BY <1>1, <1>2, <1>5 DEF ItemFits
  <2>2. PICK p \in DOMAIN txt : p = ps[1] /\ p \in ToSet(ps)
    BY <1>3, <2>1
  <2>3. PICK n \in Nat \ {0} : n = txt[p] /\ Countable(p, n)
    BY EntryType
  <2>4. task.spliced = n
    BY <1>1, <1>5, <2>2, <2>3 DEF TaskFits, LongTask
  <2>5. PICK covered \in 1 .. n, version \in {0, wrote} :
            task.parts = Parts(p, n, covered, version) /\ (task.enlargements = 0 => version = 0)
    BY <1>1, <1>5, <2>2, <2>3, <2>4 DEF TaskFits, LongTask
  <2>6. version \in {0, 1} /\ 0 \in {0, 1} /\ 1 \in 1 .. n
    OBVIOUS
  <2>7. PICK s \in Seq(Seq(Id)) : s = task.parts /\ Erase(FlattenSeq(s)) = Ids(Piece(p, 1, n, 0))
    BY <2>3, <2>5, <2>6, PartsErased
  <2>8. FlattenSeq(Entries(txt, item)) = Ids(Piece(p, 1, n, 0))
    BY <1>1, <2>1, <2>2, <2>3, EntriesOne DEF Entry
  <2>9. ASSUME NEW k \in DOMAIN s, NEW j \in DOMAIN s[k]
        PROVE  s[k][j].pretoken = p /\ (s[k][j].version = 1 => version = 1)
    <3>1. k \in 1 .. n /\ s[k] = IF k = 1 THEN Ids(Piece(p, 1, covered, version))
                                 ELSE IF k <= covered THEN <<>> ELSE Ids(Piece(p, k, k, 0))
      BY <2>5, <2>7 DEF Parts
    <3>2. CASE k = 1
      <4>1. \A i \in DOMAIN Ids(Piece(p, 1, covered, version)) :
                Ids(Piece(p, 1, covered, version))[i].pretoken = p /\ Ids(Piece(p, 1, covered, version))[i].version = version
        <5>1. PICK ids : ids = Ids(Piece(p, 1, covered, version))
          OBVIOUS
        <5>2. ids \in Seq(Id) /\ ids # <<>> /\ \A i \in DOMAIN ids : ids[i].pretoken = p /\ ids[i].version = version
          BY <2>3, <2>6, <5>1, IdsType
        <5> QED
          BY <5>1, <5>2
      <4> QED
        BY <3>1, <3>2, <4>1
    <3>3. CASE k # 1 /\ ~(k <= covered)
      <4>1. PICK a \in 1 .. n : a = k /\ a \in a .. n
        BY <3>1
      <4>2. \A i \in DOMAIN Ids(Piece(p, a, a, 0)) : Ids(Piece(p, a, a, 0))[i].pretoken = p /\ Ids(Piece(p, a, a, 0))[i].version = 0
        <5>1. PICK ids : ids = Ids(Piece(p, a, a, 0))
          OBVIOUS
        <5>2. ids \in Seq(Id) /\ ids # <<>> /\ \A i \in DOMAIN ids : ids[i].pretoken = p /\ ids[i].version = 0
          BY <2>3, <2>6, <4>1, <5>1, OneChunkIds
        <5> QED
          BY <5>1, <5>2
      <4> QED
        BY <3>1, <3>3, <4>1, <4>2
    <3>4. CASE k # 1 /\ k <= covered
      BY <3>1, <3>4
    <3> QED
      BY <3>2, <3>3, <3>4
  <2> QED
    BY <1>1, <2>2, <2>5, <2>7, <2>8, <2>9
<1>6. item.long \in BOOLEAN
  BY DEF ItemFits
<1> QED
  BY <1>4, <1>5, <1>6

\* What the workers answered is in order, and of two versions where something was enlarged.
LEMMA OrderInvariant ==
    ASSUME Types, TasksFit, PhasesFit
    PROVE  AnswersInOrder
<1> SUFFICES ASSUME NEW c \in Call, route[c] = "workers"
             PROVE  /\ [n \in DOMAIN answer[c] |-> [answer[c][n] EXCEPT !.version = 0]] = Whole(text[c], 0)
                    /\ \A n \in DOMAIN answer[c] : answer[c][n].version = 1 =>
                           /\ written[c] = 1
                           /\ \E i \in DOMAIN tasks[c] :
                                  /\ answer[c][n].pretoken \in ToSet(Items(text[c])[i].pretokens)
                                  /\ tasks[c][i].enlargements > 0
  <2>1. \A c \in Call : route[c] = "single" => answer[c] \in {Whole(text[c], 0), Whole(text[c], written[c])}
    BY Zenon DEF PhasesFit
  <2> QED
    BY <2>1 DEF AnswersInOrder
<1>0. PICK wrote \in {0, 1} : wrote = written[c]
  BY DEF Types
<1>1. PICK txt, ts : txt = text[c] /\ wrote = written[c] /\ ts = tasks[c]
  BY <1>0
<1>2. Good(txt)
  BY <1>1 DEF Types
<1>3. PICK items : items = Items(txt)
  OBVIOUS
<1>4. /\ items \in Seq(ItemType) /\ (\A i \in DOMAIN items : ItemFits(txt, items[i]))
      /\ FlattenSeq(Fulls(txt, items)) = Whole(txt, 0)
  BY <1>2, <1>3, ItemsFacts DEF ItemsGood
<1>5. /\ \A i \in DOMAIN ts : ts[i].state = "done"
      /\ answer[c] = FlattenSeq([i \in DOMAIN ts |-> FlattenSeq(ts[i].parts)])
  BY <1>1 DEF PhasesFit, FlatIds
<1>6. DOMAIN ts = DOMAIN items /\ \A i \in DOMAIN ts : TaskFits(txt, wrote, items[i], ts[i])
  BY <1>1, <1>3 DEF TasksFit
<1>7. ASSUME NEW i \in DOMAIN items
      PROVE  /\ ts[i].parts \in Seq(Seq(Id)) /\ Erase(FlattenSeq(ts[i].parts)) = FlattenSeq(Entries(txt, items[i]))
             /\ \A k \in DOMAIN ts[i].parts : \A j \in DOMAIN ts[i].parts[k] :
                    /\ ts[i].parts[k][j].pretoken \in ToSet(items[i].pretokens)
                    /\ ts[i].parts[k][j].version = 1 => wrote = 1 /\ ts[i].enlargements # 0
  <2>1. PICK item, task : item = items[i] /\ task = ts[i]
    OBVIOUS
  <2>2. ItemFits(txt, item) /\ TaskFits(txt, wrote, item, task) /\ task.state = "done"
    BY <1>4, <1>5, <1>6, <2>1
  <2>3. /\ task.parts \in Seq(Seq(Id)) /\ Erase(FlattenSeq(task.parts)) = FlattenSeq(Entries(txt, item))
        /\ \A k \in DOMAIN task.parts : \A j \in DOMAIN task.parts[k] :
                  /\ task.parts[k][j].pretoken \in ToSet(item.pretokens)
                  /\ task.parts[k][j].version = 1 => wrote = 1 /\ task.enlargements # 0
    BY <1>2, <2>2, DoneParts
  <2> QED
    BY <2>1, <2>3
<1>8. PICK m \in Nat : m = Len(items) /\ DOMAIN items = 1 .. m
  BY <1>4
<1>9. PICK s : s = [i \in DOMAIN ts |-> FlattenSeq(ts[i].parts)]
  BY Zenon
<1>10. s \in Seq(Seq(Id)) /\ DOMAIN s = 1 .. m /\ \A i \in 1 .. m : s[i] = FlattenSeq(ts[i].parts)
  <2>1. PICK Y : Y = Seq(Id)
    OBVIOUS
  <2>2. ASSUME NEW i \in 1 .. m PROVE s[i] = FlattenSeq(ts[i].parts) /\ s[i] \in Y
    <3>1. PICK q \in Seq(Seq(Id)) : q = ts[i].parts
      BY <1>7, <1>8
    <3>2. PICK at : Places(at, q, Id)
      BY FlatPlaces
    <3>3. FlattenSeq(q) \in Seq(Id)
      BY <3>2 DEF Places
    <3> QED
      BY <1>6, <1>8, <1>9, <2>1, <3>1, <3>3
  <2>3. s = [i \in 1 .. m |-> s[i]]
    BY <1>6, <1>8, <1>9
  <2>4. s \in Seq(Y) /\ DOMAIN s = 1 .. m
    BY <2>2, <2>3
  <2> QED
    BY <2>1, <2>2, <2>4
<1>11. PICK ans \in Seq(Id) : ans = FlattenSeq(s) /\ ans = answer[c]
  <2>1. PICK at : Places(at, s, Id)
    BY <1>10, FlatPlaces
  <2>2. FlattenSeq(s) \in Seq(Id)
    BY <2>1 DEF Places
  <2> QED
    BY <1>5, <1>9, <2>2
<1>12. Erase(ans) = Whole(txt, 0)
  <2>1. EraseAll(s) = Fulls(txt, items)
    <3>1. \A i \in 1 .. m : Erase(s[i]) = FlattenSeq(Entries(txt, items[i]))
      BY <1>7, <1>8, <1>10
    <3> QED
      BY <1>8, <1>10, <3>1 DEF EraseAll, Fulls
  <2>2. Erase(FlattenSeq(s)) = FlattenSeq(EraseAll(s))
    BY <1>10, EraseFlat
  <2> QED
    BY <1>4, <1>11, <2>1, <2>2
<1>13. ASSUME NEW n \in DOMAIN ans, ans[n].version = 1
       PROVE  wrote = 1 /\ \E i \in DOMAIN ts : ans[n].pretoken \in ToSet(items[i].pretokens) /\ ts[i].enlargements > 0
  <2>1. PICK i \in DOMAIN s : \E k \in DOMAIN s[i] : FlattenSeq(s)[n] = s[i][k]
    <3>1. n \in DOMAIN FlattenSeq(s)
      BY <1>11
    <3> QED
      BY <1>10, <3>1, FlatMember
  <2>2. PICK k \in DOMAIN s[i] : ans[n] = s[i][k]
    BY <1>11, <2>1
  <2>3. PICK q \in Seq(Seq(Id)) : q = ts[i].parts
    BY <1>7, <1>8, <1>10
  <2>4. k \in DOMAIN FlattenSeq(q) /\ ans[n] = FlattenSeq(q)[k]
    BY <1>10, <2>2, <2>3
  <2>5. PICK l \in DOMAIN q : \E j \in DOMAIN q[l] : FlattenSeq(q)[k] = q[l][j]
    BY <2>4, FlatMember
  <2>6. PICK j \in DOMAIN q[l] : ans[n] = q[l][j]
    BY <2>4, <2>5
  <2>7. i \in DOMAIN items /\ i \in DOMAIN ts
    BY <1>6, <1>8, <1>10
  <2>8. ans[n].pretoken \in ToSet(items[i].pretokens) /\ wrote = 1 /\ ts[i].enlargements # 0
    BY <1>7, <1>13, <2>3, <2>6, <2>7
  <2>9. ts[i].enlargements \in Nat
    <3>1. ts \in Seq(Task)
      BY <1>1 DEF Types
    <3>2. ts[i] \in Task
      BY <2>7, <3>1
    <3> QED
      BY <3>2 DEF Task
  <2>10. ts[i].enlargements > 0
    BY <2>8, <2>9
  <2> QED
    BY <2>7, <2>8, <2>10
<1>14. [n \in DOMAIN answer[c] |-> [answer[c][n] EXCEPT !.version = 0]] = Whole(text[c], 0)
  BY <1>1, <1>11, <1>12 DEF Erase
<1> QED
  BY <1>1, <1>3, <1>11, <1>13, <1>14

\* Whoever waits has something posted.
LEMMA StrandedInvariant ==
    ASSUME TasksFit, AllPosted, PhasesFit, Types
    PROVE  NothingStranded
<1>1. ASSUME NEW c \in Call, NEW i \in DOMAIN tasks[c], Unsettled(tasks[c][i])
      PROVE  \E w \in Worker : \E r \in ToSet(queue[w]) : r.call = c /\ r.item = i
  <2>1. PICK part : Posted(c, i, part)
    BY <1>1 DEF AllPosted
  <2>2. PICK w, j : w \in Worker /\ j \in DOMAIN queue[w] /\ queue[w][j].call = c /\ queue[w][j].item = i
    BY <2>1 DEF Posted
  <2>3. queue[w][j] \in ToSet(queue[w])
    BY <2>2 DEF ToSet
  <2> QED
    BY <2>2, <2>3
<1>2. ASSUME NEW c \in Call, phase[c] = "awaiting" PROVE \E i \in DOMAIN tasks[c] : Unsettled(tasks[c][i])
  <2>1. PICK i \in DOMAIN tasks[c] : tasks[c][i].state # "done" /\ tasks[c][i].state # "failed"
    BY <1>2, Zenon DEF PhasesFit
  <2>2. tasks[c][i].state \in {"encoding", "enlarging", "done", "failed"}
    <3>1. tasks[c] \in Seq(Task)
      BY DEF Types
    <3>2. tasks[c][i] \in Task
      BY <3>1
    <3> QED
      BY <3>2 DEF Task
  <2>3. Unsettled(tasks[c][i])
    BY <2>1, <2>2 DEF Unsettled
  <2> QED
    BY <2>3
<1> QED
  BY <1>1, <1>2 DEF NothingStranded

\* The invariant's part about telemetry is what TelemetryOfOne promises.
LEMMA TelemetryInvariant ==
    ASSUME Telemetry
    PROVE  TelemetryOfOne
BY DEF Telemetry, TelemetryOfOne

(***************************************************************************)
(* The invariant holds at first                                            *)
(***************************************************************************)
LEMMA ItemsEmpty == Good(<<>>) /\ Items(<<>>) = <<>> /\ DOMAIN Items(<<>>) = {}
<1>1. PICK txt \in Seq(Nat \ {0}) : txt = <<>>
  <2>1. <<>> \in Seq(Nat \ {0})
    BY EmptySeq
  <2> QED
    BY <2>1, Zenon
<1>2. PICK f : ItemsUpTo(f, txt)
  BY ItemsFold
<1>3. Items(txt) = f[0] /\ f[0] = <<>>
  <2>1. Len(txt) = 0
    BY <1>1
  <2> QED
    BY <1>2, <2>1 DEF ItemsUpTo
<1>4. Good(txt)
  <2>1. DOMAIN txt = {}
    BY <1>1
  <2> QED
    BY <2>1 DEF Good
<1>5. DOMAIN <<>> = {}
  OBVIOUS
<1> QED
  BY <1>1, <1>3, <1>4, <1>5

\* A pool that was not used yet satisfies the invariant.
LEMMA InitInv == Init => IInv
<1> SUFFICES ASSUME Init PROVE IInv
  OBVIOUS
<1>1. \A c \in Call : text[c] = <<>> /\ written[c] = 0 /\ phase[c] = "idle" /\ tasks[c] = <<>> /\ route[c] = "none"
                      /\ answer[c] = <<>> /\ alone[c] = FALSE
  BY DEF Init
<1>2. \A w \in Worker : queue[w] = <<>> /\ failure[w] = FALSE
  BY DEF Init
<1>3. \A X : <<>> \in Seq(X)
  BY EmptySeq
<1>4. Types
  <2>1. chunking \in BOOLEAN /\ closed \in BOOLEAN /\ poolTasks \in Nat /\ active \in SUBSET Worker
    BY Zenon DEF Init
  <2>2. nextWorker \in Worker
    BY PoolAssumption DEF Init, Worker
  <2>3. text \in [Call -> Seq(Nat \ {0})] /\ \A c \in Call : Good(text[c])
    BY <1>1, <1>3, ItemsEmpty DEF Init
  <2>4. written \in [Call -> {0, 1}] /\ phase \in [Call -> {"idle", "awaiting", "answered", "rejected"}]
        /\ route \in [Call -> {"none", "workers", "single"}] /\ alone \in [Call -> BOOLEAN] /\ failure \in [Worker -> BOOLEAN]
    BY DEF Init
  <2>5. tasks \in [Call -> Seq(Task)]
    BY <1>3 DEF Init
  <2>6. answer \in [Call -> Seq(Id)]
    BY <1>3 DEF Init
  <2>7. queue \in [Worker -> Seq(Request)]
    BY <1>3 DEF Init
  <2>8. telemetry \in [Call -> [tasks: Nat, activeWorkers: Nat, enlargements: Nat]]
    BY DEF Init, NoTelemetry
  <2> QED
    BY <2>1, <2>2, <2>3, <2>4, <2>5, <2>6, <2>7, <2>8 DEF Types
<1>5. DOMAIN <<>> = {}
  OBVIOUS
<1>6. TasksFit
  BY <1>1, <1>5, ItemsEmpty DEF TasksFit
<1>7. RequestsFit /\ RequestsUnique
  BY <1>2, <1>5 DEF RequestsFit, RequestsUnique
<1>8. AllPosted
  BY <1>1, <1>5 DEF AllPosted
<1>9. FailuresEmpty
  BY <1>2 DEF FailuresEmpty, Init
<1>10. PhasesFit
  BY <1>1 DEF PhasesFit
<1>11. Telemetry
  BY <1>1 DEF Telemetry
<1> QED
  BY <1>4, <1>6, <1>7, <1>8, <1>9, <1>10, <1>11 DEF IInv, Work

(***************************************************************************)
(* What Conclude does                                                      *)
(***************************************************************************)
\* The calls of A, which await their tasks, conclude, and what the others have stays.
Concluding(A, after) ==
    /\ A \in SUBSET Call /\ Awaiting \subseteq A /\ \A c \in A : phase[c] \in {"idle", "awaiting"}
    /\ after \in [Call -> Seq(Task)]
    /\ \A c \in Call \ A : /\ text'[c] = text[c] /\ DOMAIN after[c] = DOMAIN tasks[c]
                           /\ \A i \in DOMAIN tasks[c] : tasks[c][i].state = "done" => after[c][i] = tasks[c][i]
    /\ written' = written /\ Conclude(A, after)

HasFailed(ts)  == \E i \in DOMAIN ts : ts[i].state = "failed"
HasEnded(ts)   == \A i \in DOMAIN ts : ts[i].state = "done"

\* What a call is after it concluded.
ConcludedAs(c, ts) ==
    \/ /\ HasFailed(ts) /\ ~closed' /\ phase'[c] = "answered" /\ route'[c] = "single"
       /\ answer'[c] = Whole(text'[c], written'[c]) /\ telemetry'[c] = telemetry[c]
    \/ /\ HasFailed(ts) /\ closed' /\ phase'[c] = "rejected" /\ route'[c] = route[c]
       /\ answer'[c] = answer[c] /\ telemetry'[c] = telemetry[c]
    \/ /\ HasEnded(ts) /\ ~HasFailed(ts) /\ phase'[c] = "answered" /\ route'[c] = "workers"
       /\ answer'[c] = FlatIds([i \in DOMAIN ts |-> FlatIds(ts[i].parts)]) /\ telemetry'[c] = TelemetryOf(ts)
    \/ /\ ~HasEnded(ts) /\ ~HasFailed(ts) /\ phase'[c] = "awaiting" /\ route'[c] = route[c]
       /\ answer'[c] = answer[c] /\ telemetry'[c] = telemetry[c]

\* What Promise.all and encodeForTier make of each call: the single encoder's answer when a
\* task failed and the session is open, the workers' when all are done, or it awaits on.
LEMMA Concludes ==
    ASSUME NEW A \in SUBSET Call, NEW after, Conclude(A, after), closed' \in BOOLEAN
    PROVE  /\ tasks' = after
           /\ \A c \in A : ConcludedAs(c, after[c])
           /\ \A c \in Call \ A : phase'[c] = phase[c] /\ route'[c] = route[c] /\ answer'[c] = answer[c] /\ telemetry'[c] = telemetry[c]
           /\ DOMAIN phase' = Call /\ DOMAIN route' = Call /\ DOMAIN answer' = Call /\ DOMAIN telemetry' = Call
<1> DEFINE single  == IF closed' THEN {} ELSE {c \in A : HasFailed(after[c])}
<1> DEFINE workers == {c \in A : HasEnded(after[c])}
<1>1. /\ tasks' = after
      /\ phase' = [c \in Call |->
               IF c \in single \union workers THEN "answered"
               ELSE IF c \in A THEN IF HasFailed(after[c]) THEN "rejected" ELSE "awaiting"
               ELSE phase[c]]
      /\ route' = [c \in Call |-> IF c \in single THEN "single"
                                    ELSE IF c \in workers THEN "workers" ELSE route[c]]
      /\ answer' = [c \in Call |->
               IF c \in single THEN Whole(text'[c], written'[c])
               ELSE IF c \in workers
               THEN FlatIds([i \in DOMAIN after[c] |-> FlatIds(after[c][i].parts)])
               ELSE answer[c]]
      /\ telemetry' = [c \in Call |-> IF c \in workers THEN TelemetryOf(after[c])
                                        ELSE telemetry[c]]
  BY Zenon DEF Conclude, HasFailed, HasEnded
<1>2. ASSUME NEW c \in A PROVE ConcludedAs(c, after[c])
  <2>1. c \in Call /\ (c \in single <=> ~closed' /\ HasFailed(after[c])) /\ (c \in workers <=> HasEnded(after[c]))
    OBVIOUS
  <2>2. ~(HasFailed(after[c]) /\ HasEnded(after[c]))
    BY DEF HasFailed, HasEnded
  <2> HIDE DEF single, workers
  <2>3. /\ phase'[c] = (IF c \in single \union workers THEN "answered" ELSE IF HasFailed(after[c]) THEN "rejected" ELSE "awaiting")
        /\ route'[c] = (IF c \in single THEN "single" ELSE IF c \in workers THEN "workers" ELSE route[c])
        /\ answer'[c] = (IF c \in single THEN Whole(text'[c], written'[c])
                         ELSE IF c \in workers THEN FlatIds([i \in DOMAIN after[c] |-> FlatIds(after[c][i].parts)])
                         ELSE answer[c])
        /\ telemetry'[c] = (IF c \in workers THEN TelemetryOf(after[c]) ELSE telemetry[c])
    BY <1>1, <2>1
  <2>4. c \in single \union workers <=> c \in single \/ c \in workers
    OBVIOUS
  <2> QED
    BY <2>1, <2>2, <2>3, <2>4 DEF ConcludedAs
<1>3. ASSUME NEW c \in Call \ A
      PROVE  phase'[c] = phase[c] /\ route'[c] = route[c] /\ answer'[c] = answer[c] /\ telemetry'[c] = telemetry[c]
  <2>1. c \notin single /\ c \notin workers /\ c \notin single \union workers /\ c \notin A
    OBVIOUS
  <2> HIDE DEF single, workers
  <2> QED
    BY <1>1, <2>1
<1> HIDE DEF single, workers
<1> QED
  BY <1>1, <1>2, <1>3

\* What the phases say of the tasks still fits when calls conclude.
LEMMA PhasesNext ==
    ASSUME NEW A, NEW after, Concluding(A, after), PhasesFit, closed' \in BOOLEAN
    PROVE  PhasesFit'
<1>1. /\ A \in SUBSET Call /\ Awaiting \subseteq A /\ Conclude(A, after) /\ written' = written
      /\ \A c \in A : phase[c] \in {"idle", "awaiting"}
  BY DEF Concluding
<1>2. /\ tasks' = after /\ (\A c \in A : ConcludedAs(c, after[c]))
      /\ \A c \in Call \ A : phase'[c] = phase[c] /\ route'[c] = route[c] /\ answer'[c] = answer[c] /\ telemetry'[c] = telemetry[c]
  BY <1>1, Concludes
<1>3. ASSUME NEW c \in Call
      PROVE  /\ phase'[c] = "idle" => text'[c] = <<>>
             /\ phase'[c] = "awaiting" => /\ \A i \in DOMAIN tasks'[c] : tasks'[c][i].state # "failed"
                                          /\ \E i \in DOMAIN tasks'[c] : tasks'[c][i].state # "done"
             /\ route'[c] # "none" => phase'[c] = "answered"
             /\ route'[c] = "none" => answer'[c] = <<>>
             /\ route'[c] = "single" => answer'[c] \in {Whole(text'[c], 0), Whole(text'[c], written'[c])}
             /\ route'[c] = "workers" => /\ \A i \in DOMAIN tasks'[c] : tasks'[c][i].state = "done"
                                         /\ answer'[c] = FlatIds([i \in DOMAIN tasks'[c] |-> FlatIds(tasks'[c][i].parts)])
  <2>1. CASE c \in A
    <3>1. ConcludedAs(c, after[c]) /\ tasks'[c] = after[c]
      BY <1>2, <2>1
    <3>2. route[c] = "none" /\ answer[c] = <<>>
      <4>1. phase[c] # "answered"
        BY <1>1, <2>1
      <4> QED
        BY <4>1, Zenon DEF PhasesFit
    <3>3. PICK ts : ts = after[c]
      OBVIOUS
    <3> QED
      BY <3>1, <3>2, <3>3 DEF ConcludedAs, HasFailed, HasEnded
  <2>2. CASE c \notin A
    <3>1. /\ phase'[c] = phase[c] /\ route'[c] = route[c] /\ answer'[c] = answer[c]
          /\ text'[c] = text[c] /\ written'[c] = written[c] /\ DOMAIN tasks'[c] = DOMAIN tasks[c]
          /\ \A i \in DOMAIN tasks[c] : tasks[c][i].state = "done" => tasks'[c][i] = tasks[c][i]
      BY <1>1, <1>2, <2>2 DEF Concluding
    <3>2. phase[c] # "awaiting"
      BY <1>1, <2>2 DEF Awaiting
    <3>3. /\ phase[c] = "idle" => text[c] = <<>>
          /\ route[c] # "none" => phase[c] = "answered"
          /\ route[c] = "none" => answer[c] = <<>>
          /\ route[c] = "single" => answer[c] \in {Whole(text[c], 0), Whole(text[c], written[c])}
          /\ route[c] = "workers" => /\ \A i \in DOMAIN tasks[c] : tasks[c][i].state = "done"
                                     /\ answer[c] = FlatIds([i \in DOMAIN tasks[c] |-> FlatIds(tasks[c][i].parts)])
      BY DEF PhasesFit
    <3>4. ASSUME route[c] = "workers"
          PROVE  /\ \A i \in DOMAIN tasks'[c] : tasks'[c][i] = tasks[c][i]
                 /\ [i \in DOMAIN tasks'[c] |-> FlatIds(tasks'[c][i].parts)] = [i \in DOMAIN tasks[c] |-> FlatIds(tasks[c][i].parts)]
      BY <3>1, <3>3, <3>4
    <3>5. route'[c] = "workers" => /\ \A i \in DOMAIN tasks'[c] : tasks'[c][i].state = "done"
                                   /\ answer'[c] = FlatIds([i \in DOMAIN tasks'[c] |-> FlatIds(tasks'[c][i].parts)])
      BY <3>1, <3>3, <3>4
    <3> QED
      BY <3>1, <3>2, <3>3, <3>5
  <2> QED
    BY <2>1, <2>2
<1> QED
  BY <1>3 DEF PhasesFit

\* The ids of a whole text.
LEMMA WholeType ==
    ASSUME NEW txt, Good(txt), NEW v \in {0, 1}
    PROVE  Whole(txt, v) \in Seq(Id)
<1>1. PICK s : s = [p \in DOMAIN txt |-> Ids(Piece(p, 1, txt[p], v))]
  BY Zenon
<1>2. PICK Y : Y = Seq(Id)
  OBVIOUS
<1>3. PICK n \in Nat : DOMAIN txt = 1 .. n
  BY DEF Good
<1>4. \A p \in 1 .. n : s[p] \in Y
  <2>1. ASSUME NEW p \in 1 .. n PROVE Ids(Piece(p, 1, txt[p], v)) \in Seq(Id)
    <3>1. p \in DOMAIN txt
      BY <1>3
    <3>2. Countable(p, txt[p]) /\ 1 \in 1 .. txt[p] /\ txt[p] \in 1 .. txt[p]
      BY <3>1, EntryType
    <3> QED
      BY <3>2, IdsType
  <2> QED
    BY <1>1, <1>2, <1>3, <2>1
<1>5. s \in Seq(Y)
  <2>1. s = [p \in 1 .. n |-> s[p]]
    BY <1>1, <1>3
  <2> QED
    BY <1>4, <2>1
<1>6. PICK at : Places(at, s, Id)
  BY <1>2, <1>5, FlatPlaces
<1> QED
  BY <1>1, <1>6 DEF Whole, Places

\* The ids of some tasks.
LEMMA FlatType ==
    ASSUME NEW ts \in Seq(Task)
    PROVE  FlatIds([i \in DOMAIN ts |-> FlatIds(ts[i].parts)]) \in Seq(Id)
<1>1. PICK s : s = [i \in DOMAIN ts |-> FlatIds(ts[i].parts)]
  BY Zenon
<1>2. PICK Y : Y = Seq(Id)
  OBVIOUS
<1>3. PICK n \in Nat : DOMAIN ts = 1 .. n
  OBVIOUS
<1>4. \A i \in 1 .. n : s[i] \in Y
  <2>1. ASSUME NEW i \in 1 .. n PROVE FlatIds(ts[i].parts) \in Seq(Id)
    <3>1. ts[i] \in Task
      BY <1>3
    <3>2. PICK q \in Seq(Seq(Id)) : q = ts[i].parts
      BY <3>1 DEF Task
    <3>3. PICK at : Places(at, q, Id)
      BY FlatPlaces
    <3> QED
      BY <3>2, <3>3 DEF FlatIds, Places
  <2> QED
    BY <1>1, <1>2, <1>3, <2>1
<1>5. s \in Seq(Y)
  <2>1. s = [i \in 1 .. n |-> s[i]]
    BY <1>1, <1>3
  <2> QED
    BY <1>4, <2>1
<1>6. PICK at : Places(at, s, Id)
  BY <1>2, <1>5, FlatPlaces
<1> QED
  BY <1>1, <1>6 DEF FlatIds, Places

\* How many enlargements some tasks took.
LEMMA EnlargementsType ==
    ASSUME NEW ts \in Seq(Task)
    PROVE  [i \in DOMAIN ts |-> ts[i].enlargements] \in Seq(Nat) /\ Total([i \in DOMAIN ts |-> ts[i].enlargements]) \in Nat
<1>1. PICK s : s = [i \in DOMAIN ts |-> ts[i].enlargements]
  BY Zenon
<1>2. PICK n \in Nat : DOMAIN ts = 1 .. n
  OBVIOUS
<1>3. \A i \in 1 .. n : s[i] \in Nat
  <2>1. ASSUME NEW i \in 1 .. n PROVE ts[i].enlargements \in Nat
    <3>1. ts[i] \in Task
      BY <1>2
    <3> QED
      BY <3>1 DEF Task
  <2> QED
    BY <1>1, <1>2, <2>1
<1>4. s \in Seq(Nat)
  <2>1. s = [i \in 1 .. n |-> s[i]]
    BY <1>1, <1>2
  <2> QED
    BY <1>3, <2>1
<1>5. Total(s) \in Nat
  BY <1>4, TotalNat
<1> QED
  BY <1>1, <1>4, <1>5

\* The part of the types that Conclude answers for.
CallTypes ==
    /\ phase \in [Call -> {"idle", "awaiting", "answered", "rejected"}]
    /\ tasks \in [Call -> Seq(Task)]
    /\ route \in [Call -> {"none", "workers", "single"}]
    /\ answer \in [Call -> Seq(Id)]
    /\ telemetry \in [Call -> [tasks: Nat, activeWorkers: Nat, enlargements: Nat]]

\* When calls conclude, what they have is still of the right type.
LEMMA CallTypesNext ==
    ASSUME NEW A, NEW after, Concluding(A, after), CallTypes, closed' \in BOOLEAN, written \in [Call -> {0, 1}],
           \A c \in Call : Good(text'[c]), poolTasks' \in Nat, active' \in SUBSET Worker
    PROVE  CallTypes'
<1>1. A \in SUBSET Call /\ Conclude(A, after) /\ written' = written /\ after \in [Call -> Seq(Task)]
  BY DEF Concluding
<1>2. /\ tasks' = after /\ (\A c \in A : ConcludedAs(c, after[c]))
      /\ \A c \in Call \ A : phase'[c] = phase[c] /\ route'[c] = route[c] /\ answer'[c] = answer[c] /\ telemetry'[c] = telemetry[c]
  BY <1>1, Concludes
<1>3. /\ phase' = [c \in Call |-> phase'[c]] /\ route' = [c \in Call |-> route'[c]]
      /\ answer' = [c \in Call |-> answer'[c]] /\ telemetry' = [c \in Call |-> telemetry'[c]]
  BY <1>1, Zenon DEF Conclude
<1>4. \A c \in Call : Whole(text'[c], written'[c]) \in Seq(Id)
  BY <1>1, WholeType
<1>5. \A c \in Call : FlatIds([i \in DOMAIN after[c] |-> FlatIds(after[c][i].parts)]) \in Seq(Id)
  BY <1>1, FlatType
<1>6. Cardinality(active') \in Nat
  <2>1. IsFiniteSet(Worker)
    <3>1. 0 \in Int /\ WorkerCount - 1 \in Int
      BY PoolAssumption
    <3> QED
      BY <3>1, FS_Interval DEF Worker
  <2>2. IsFiniteSet(active')
    BY <2>1, FS_Subset
  <2> QED
    BY <2>2, FS_CardinalityType
<1>7. \A c \in Call : TelemetryOf(after[c]) \in [tasks: Nat, activeWorkers: Nat, enlargements: Nat]
  <2>1. ASSUME NEW c \in Call PROVE Total([i \in DOMAIN after[c] |-> after[c][i].enlargements]) \in Nat
    <3>1. after[c] \in Seq(Task)
      BY <1>1
    <3> QED
      BY <3>1, EnlargementsType
  <2> QED
    BY <1>6, <2>1 DEF TelemetryOf
<1>8. ASSUME NEW c \in Call
      PROVE  /\ phase'[c] \in {"idle", "awaiting", "answered", "rejected"} /\ route'[c] \in {"none", "workers", "single"}
             /\ answer'[c] \in Seq(Id) /\ telemetry'[c] \in [tasks: Nat, activeWorkers: Nat, enlargements: Nat]
  <2>1. /\ phase[c] \in {"idle", "awaiting", "answered", "rejected"} /\ route[c] \in {"none", "workers", "single"}
        /\ answer[c] \in Seq(Id) /\ telemetry[c] \in [tasks: Nat, activeWorkers: Nat, enlargements: Nat]
    BY DEF CallTypes
  <2>2. CASE c \in A
    <3>1. ConcludedAs(c, after[c])
      BY <1>2, <2>2
    <3> QED
      BY <1>4, <1>5, <1>7, <2>1, <3>1 DEF ConcludedAs
  <2>3. CASE c \notin A
    BY <1>2, <2>1, <2>3
  <2> QED
    BY <2>2, <2>3
<1>9. phase' \in [Call -> {"idle", "awaiting", "answered", "rejected"}] /\ route' \in [Call -> {"none", "workers", "single"}]
  BY <1>3, <1>8, Zenon
<1>10. answer' \in [Call -> Seq(Id)]
  BY <1>3, <1>8, Zenon
<1>11. telemetry' \in [Call -> [tasks: Nat, activeWorkers: Nat, enlargements: Nat]]
  BY <1>3, <1>8, Zenon
<1> QED
  BY <1>1, <1>2, <1>9, <1>10, <1>11 DEF CallTypes

(***************************************************************************)
(* What is in the queues                                                   *)
(***************************************************************************)
Queues      == [Worker -> Seq(Request)]
In(q, r)    == \E v \in Worker : \E j \in DOMAIN q[v] : q[v][j] = r
Distinct(q) == \A v, w \in Worker : \A j \in DOMAIN q[v], k \in DOMAIN q[w] : Same(q[v][j], q[w][k]) => v = w /\ j = k
Apart(q, m) == \A r, s : In(q, r) /\ In(m, s) => ~Same(r, s)

\* What is posted behind what is there.
LEMMA QueuesJoined ==
    ASSUME NEW q \in Queues, NEW m \in Queues, NEW t, t = [v \in Worker |-> q[v] \o m[v]]
    PROVE  /\ t \in Queues /\ \A r : In(t, r) <=> In(q, r) \/ In(m, r)
           /\ Distinct(q) /\ Distinct(m) /\ Apart(q, m) => Distinct(t)
<1>1. ASSUME NEW v \in Worker
      PROVE  /\ t[v] \in Seq(Request) /\ Len(q[v]) \in Nat /\ Len(m[v]) \in Nat /\ Len(t[v]) = Len(q[v]) + Len(m[v])
             /\ DOMAIN q[v] = 1 .. Len(q[v]) /\ DOMAIN m[v] = 1 .. Len(m[v]) /\ DOMAIN t[v] = 1 .. Len(q[v]) + Len(m[v])
             /\ \A j \in 1 .. Len(q[v]) : t[v][j] = q[v][j]
             /\ \A j \in 1 .. Len(m[v]) : t[v][Len(q[v]) + j] = m[v][j]
             /\ \A j \in DOMAIN t[v] : \/ j \in DOMAIN q[v] /\ t[v][j] = q[v][j]
                                       \/ j - Len(q[v]) \in DOMAIN m[v] /\ t[v][j] = m[v][j - Len(q[v])]
  <2>1. PICK a \in Seq(Request), b \in Seq(Request) : a = q[v] /\ b = m[v] /\ t[v] = a \o b
    BY DEF Queues
  <2>2. a \o b \in Seq(Request) /\ Len(a) \in Nat /\ Len(b) \in Nat /\ Len(a \o b) = Len(a) + Len(b)
        /\ DOMAIN a = 1 .. Len(a) /\ DOMAIN b = 1 .. Len(b) /\ DOMAIN (a \o b) = 1 .. Len(a) + Len(b)
        /\ \A j \in 1 .. Len(a) + Len(b) : (a \o b)[j] = IF j <= Len(a) THEN a[j] ELSE b[j - Len(a)]
    OBVIOUS
  <2>3. PICK x \in Nat, y \in Nat : x = Len(a) /\ y = Len(b)
    BY <2>2, Zenon
  <2>4. \A j \in 1 .. x : (a \o b)[j] = a[j]
    <3>1. \A j \in 1 .. x : j \in 1 .. x + y /\ j <= x
      OBVIOUS
    <3> QED
      BY <2>2, <2>3, <3>1
  <2>5. \A j \in 1 .. y : (a \o b)[x + j] = b[j]
    <3>1. \A j \in 1 .. y : x + j \in 1 .. x + y /\ ~(x + j <= x) /\ (x + j) - x = j
      OBVIOUS
    <3> QED
      BY <2>2, <2>3, <3>1
  <2>6. \A j \in 1 .. x + y : (j \in 1 .. x /\ (a \o b)[j] = a[j]) \/ (j - x \in 1 .. y /\ (a \o b)[j] = b[j - x])
    <3>1. \A j \in 1 .. x + y : (j <= x => j \in 1 .. x) /\ (~(j <= x) => j - x \in 1 .. y)
      OBVIOUS
    <3> QED
      BY <2>2, <2>3, <3>1
  <2>7. /\ t[v] \in Seq(Request) /\ Len(q[v]) = x /\ Len(m[v]) = y /\ Len(t[v]) = x + y
        /\ DOMAIN q[v] = 1 .. x /\ DOMAIN m[v] = 1 .. y /\ DOMAIN t[v] = 1 .. x + y
    BY <2>1, <2>2, <2>3
  <2>8. /\ \A j \in 1 .. x : t[v][j] = q[v][j]
        /\ \A j \in 1 .. y : t[v][x + j] = m[v][j]
        /\ \A j \in 1 .. x + y : (j \in 1 .. x /\ t[v][j] = q[v][j]) \/ (j - x \in 1 .. y /\ t[v][j] = m[v][j - x])
    BY <2>1, <2>4, <2>5, <2>6, Zenon
  <2> QED
    BY <2>7, <2>8, Zenon
<1>2. t \in Queues
  BY <1>1 DEF Queues
<1>3. ASSUME NEW r PROVE In(t, r) <=> In(q, r) \/ In(m, r)
  <2>1. ASSUME In(t, r) PROVE In(q, r) \/ In(m, r)
    <3>1. PICK v \in Worker : \E j \in DOMAIN t[v] : t[v][j] = r
      BY <2>1, Zenon DEF In
    <3>2. PICK j \in DOMAIN t[v] : t[v][j] = r
      BY <3>1, Zenon
    <3>3. \/ j \in DOMAIN q[v] /\ t[v][j] = q[v][j]
          \/ j - Len(q[v]) \in DOMAIN m[v] /\ t[v][j] = m[v][j - Len(q[v])]
      BY <1>1, <3>2, Zenon
    <3> QED
      BY <3>2, <3>3 DEF In
  <2>2. ASSUME In(q, r) PROVE In(t, r)
    <3>1. PICK v \in Worker : \E j \in DOMAIN q[v] : q[v][j] = r
      BY <2>2 DEF In
    <3>2. PICK j \in DOMAIN q[v] : q[v][j] = r
      BY <3>1
    <3>3. j \in DOMAIN t[v] /\ t[v][j] = r
      <4>1. PICK x \in Nat, y \in Nat :
                /\ DOMAIN q[v] = 1 .. x /\ DOMAIN t[v] = 1 .. x + y /\ \A l \in 1 .. x : t[v][l] = q[v][l]
        BY <1>1, Zenon
      <4>2. j \in 1 .. x /\ j \in 1 .. x + y
        BY <3>2, <4>1
      <4> QED
        BY <3>2, <4>1, <4>2, Zenon
    <3> QED
      BY <3>3, Zenon DEF In
  <2>3. ASSUME In(m, r) PROVE In(t, r)
    <3>1. PICK v \in Worker : \E j \in DOMAIN m[v] : m[v][j] = r
      BY <2>3 DEF In
    <3>2. PICK j \in DOMAIN m[v] : m[v][j] = r
      BY <3>1
    <3>3. Len(q[v]) + j \in DOMAIN t[v] /\ t[v][Len(q[v]) + j] = r
      <4>1. PICK x \in Nat, y \in Nat :
                /\ x = Len(q[v]) /\ DOMAIN m[v] = 1 .. y /\ DOMAIN t[v] = 1 .. x + y
                /\ \A l \in 1 .. y : t[v][x + l] = m[v][l]
        BY <1>1, Zenon
      <4>2. j \in 1 .. y /\ x + j \in 1 .. x + y
        BY <3>2, <4>1
      <4> QED
        BY <3>2, <4>1, <4>2, Zenon
    <3> QED
      BY <3>3, Zenon DEF In
  <2> QED
    BY <2>1, <2>2, <2>3
<1>4. ASSUME Distinct(q), Distinct(m), Apart(q, m) PROVE Distinct(t)
  <2> SUFFICES ASSUME NEW v \in Worker, NEW w \in Worker, NEW j \in DOMAIN t[v], NEW k \in DOMAIN t[w], Same(t[v][j], t[w][k])
               PROVE  v = w /\ j = k
    BY Zenon DEF Distinct
  <2>1. \/ j \in DOMAIN q[v] /\ t[v][j] = q[v][j]
        \/ j - Len(q[v]) \in DOMAIN m[v] /\ t[v][j] = m[v][j - Len(q[v])]
    BY <1>1, Zenon
  <2>2. \/ k \in DOMAIN q[w] /\ t[w][k] = q[w][k]
        \/ k - Len(q[w]) \in DOMAIN m[w] /\ t[w][k] = m[w][k - Len(q[w])]
    BY <1>1, Zenon
  <2>3. CASE j \in DOMAIN q[v] /\ t[v][j] = q[v][j] /\ k \in DOMAIN q[w] /\ t[w][k] = q[w][k]
    BY <1>4, <2>3 DEF Distinct
  <2>4. CASE j - Len(q[v]) \in DOMAIN m[v] /\ t[v][j] = m[v][j - Len(q[v])] /\ k - Len(q[w]) \in DOMAIN m[w] /\ t[w][k] = m[w][k - Len(q[w])]
    <3>1. v = w /\ j - Len(q[v]) = k - Len(q[w])
      BY <1>4, <2>4 DEF Distinct
    <3>2. j \in Int /\ k \in Int /\ Len(q[v]) \in Int /\ Len(q[w]) \in Int
      BY <1>1
    <3>3. PICK n \in Int : n = Len(q[v]) /\ n = Len(q[w]) /\ j - n = k - n
      BY <3>1, <3>2
    <3>4. j = k
      BY <3>2, <3>3
    <3> QED
      BY <3>1, <3>4
  <2>5. CASE j \in DOMAIN q[v] /\ t[v][j] = q[v][j] /\ k - Len(q[w]) \in DOMAIN m[w] /\ t[w][k] = m[w][k - Len(q[w])]
    <3>1. In(q, t[v][j]) /\ In(m, t[w][k])
      BY <2>5 DEF In
    <3> QED
      BY <1>4, <3>1 DEF Apart
  <2>6. CASE j - Len(q[v]) \in DOMAIN m[v] /\ t[v][j] = m[v][j - Len(q[v])] /\ k \in DOMAIN q[w] /\ t[w][k] = q[w][k]
    <3>1. In(m, t[v][j]) /\ In(q, t[w][k]) /\ Same(t[w][k], t[v][j])
      BY <2>6 DEF In, Same
    <3> QED
      BY <1>4, <3>1 DEF Apart
  <2> QED
    BY <2>1, <2>2, <2>3, <2>4, <2>5, <2>6
<1> QED
  BY <1>2, <1>3, <1>4, Zenon

\* A worker's oldest request is taken.
LEMMA QueueTaken ==
    ASSUME NEW q \in Queues, Distinct(q), NEW w \in Worker, q[w] # <<>>,
           NEW t, t = [v \in Worker |-> IF v = w THEN Tail(q[v]) ELSE q[v]]
    PROVE  /\ t \in Queues /\ Distinct(t) /\ In(q, Head(q[w])) /\ Head(q[w]) \in Request
           /\ \A r : In(t, r) <=> In(q, r) /\ ~Same(r, Head(q[w]))
<1>1. /\ Head(q[w]) = q[w][1] /\ Head(q[w]) \in Request /\ 1 \in DOMAIN q[w]
      /\ Tail(q[w]) \in Seq(Request) /\ DOMAIN q[w] = 1 .. Len(q[w]) /\ DOMAIN Tail(q[w]) = 1 .. Len(q[w]) - 1
      /\ Len(q[w]) \in Nat \ {0}
      /\ \A j \in 1 .. Len(q[w]) - 1 : Tail(q[w])[j] = q[w][j + 1]
  <2>1. q[w] \in Seq(Request)
    BY DEF Queues
  <2> QED
    BY <2>1
<1>2. t \in Queues /\ \A v \in Worker : t[v] = IF v = w THEN Tail(q[v]) ELSE q[v]
  BY <1>1 DEF Queues
<1>3. ASSUME NEW v \in Worker, NEW j \in DOMAIN t[v]
      PROVE  LET i == IF v = w THEN j + 1 ELSE j IN i \in DOMAIN q[v] /\ t[v][j] = q[v][i] /\ (v = w => i # 1 /\ j \in Int)
  <2>1. CASE v = w
    <3>1. j \in 1 .. Len(q[w]) - 1 /\ t[v][j] = q[w][j + 1]
      BY <1>1, <1>2, <2>1
    <3>2. j + 1 \in 1 .. Len(q[w]) /\ j + 1 # 1
      BY <1>1, <3>1
    <3> QED
      BY <1>1, <2>1, <3>1, <3>2
  <2>2. CASE v # w
    BY <1>2, <2>2
  <2> QED
    BY <2>1, <2>2
<1>4. ASSUME NEW v \in Worker, NEW i \in DOMAIN q[v], ~(v = w /\ i = 1)
      PROVE  \E j \in DOMAIN t[v] : t[v][j] = q[v][i]
  <2>1. CASE v = w
    <3>1. i \in 1 .. Len(q[w]) /\ i # 1
      BY <1>1, <1>4, <2>1
    <3>2. i - 1 \in 1 .. Len(q[w]) - 1 /\ (i - 1) + 1 = i
      BY <1>1, <3>1
    <3>3. PICK j \in 1 .. Len(q[w]) - 1 : j + 1 = i
      BY <3>2
    <3>4. j \in DOMAIN t[v] /\ t[v][j] = q[v][i]
      BY <1>1, <1>2, <2>1, <3>3
    <3> QED
      BY <3>4
  <2>2. CASE v # w
    BY <1>2, <2>2
  <2> QED
    BY <2>1, <2>2
<1>5. Distinct(t)
  <2> SUFFICES ASSUME NEW v \in Worker, NEW u \in Worker, NEW j \in DOMAIN t[v], NEW k \in DOMAIN t[u], Same(t[v][j], t[u][k])
               PROVE  v = u /\ j = k
    BY Zenon DEF Distinct
  <2>1. PICK a : a = IF v = w THEN j + 1 ELSE j
    OBVIOUS
  <2>2. PICK b : b = IF u = w THEN k + 1 ELSE k
    OBVIOUS
  <2>3. a \in DOMAIN q[v] /\ t[v][j] = q[v][a] /\ (v = w => j \in Int)
    BY <1>3, <2>1
  <2>4. b \in DOMAIN q[u] /\ t[u][k] = q[u][b] /\ (u = w => k \in Int)
    BY <1>3, <2>2
  <2>5. v = u /\ a = b
    BY <2>3, <2>4 DEF Distinct
  <2> QED
    BY <2>1, <2>2, <2>3, <2>4, <2>5
<1>6. In(q, Head(q[w]))
  BY <1>1 DEF In
<1>7. ASSUME NEW r PROVE In(t, r) <=> In(q, r) /\ ~Same(r, Head(q[w]))
  <2>1. ASSUME In(t, r) PROVE In(q, r) /\ ~Same(r, Head(q[w]))
    <3>1. PICK v \in Worker : \E j \in DOMAIN t[v] : t[v][j] = r
      BY <2>1 DEF In
    <3>2. PICK j \in DOMAIN t[v] : t[v][j] = r
      BY <3>1
    <3>3. PICK i : i = IF v = w THEN j + 1 ELSE j
      OBVIOUS
    <3>4. i \in DOMAIN q[v] /\ r = q[v][i] /\ (v = w => i # 1)
      BY <1>3, <3>2, <3>3
    <3>5. ~Same(q[v][i], q[w][1])
      BY <1>1, <3>4 DEF Distinct
    <3> QED
      BY <1>1, <3>4, <3>5 DEF In
  <2>2. ASSUME In(q, r), ~Same(r, Head(q[w])) PROVE In(t, r)
    <3>1. PICK v \in Worker : \E i \in DOMAIN q[v] : q[v][i] = r
      BY <2>2 DEF In
    <3>2. PICK i \in DOMAIN q[v] : q[v][i] = r
      BY <3>1
    <3>3. ~(v = w /\ i = 1)
      BY <1>1, <2>2, <3>2 DEF Same
    <3>4. \E j \in DOMAIN t[v] : t[v][j] = r
      BY <1>4, <3>2, <3>3
    <3> QED
      BY <3>4 DEF In
  <2> QED
    BY <2>1, <2>2
<1> QED
  BY <1>1, <1>2, <1>5, <1>6, <1>7

\* What was posted to some workers is dropped.
LEMMA QueuesDropped ==
    ASSUME NEW q \in Queues, Distinct(q), NEW ws \in SUBSET Worker,
           NEW t, t = [v \in Worker |-> IF v \in ws THEN <<>> ELSE q[v]]
    PROVE  /\ t \in Queues /\ Distinct(t)
           /\ \A r : In(t, r) => In(q, r)
           /\ \A r : In(q, r) => In(t, r) \/ \E v \in ws : \E j \in DOMAIN q[v] : q[v][j] = r
<1>1. <<>> \in Seq(Request) /\ DOMAIN <<>> = {}
  BY EmptySeq
<1>2. t \in Queues
  BY <1>1 DEF Queues
<1>3. \A v \in Worker : \A j \in DOMAIN t[v] : v \notin ws /\ j \in DOMAIN q[v] /\ t[v][j] = q[v][j]
  BY <1>1
<1>4. \A v \in Worker : v \notin ws => t[v] = q[v]
  OBVIOUS
<1>5. Distinct(t)
  BY <1>3 DEF Distinct
<1>6. \A r : In(t, r) => In(q, r)
  BY <1>3 DEF In
<1>7. ASSUME NEW r, In(q, r) PROVE In(t, r) \/ \E v \in ws : \E j \in DOMAIN q[v] : q[v][j] = r
  <2>1. PICK v \in Worker : \E j \in DOMAIN q[v] : q[v][j] = r
    BY <1>7 DEF In
  <2> QED
    BY <1>4, <2>1 DEF In
<1> QED
  BY <1>2, <1>5, <1>6, <1>7

\* The invariant's parts that are about what is posted.
Fitting(texts, wrote, all, r) ==
    /\ r.item \in DOMAIN all[r.call]
    /\ RequestFits(texts[r.call], wrote[r.call], Items(texts[r.call])[r.item], all[r.call][r.item], r)
AllFit(q, texts, wrote, all) == \A r : In(q, r) => Fitting(texts, wrote, all, r)
PostedIn(q, c, i, part)      == \E r : In(q, r) /\ r.call = c /\ r.item = i /\ r.part = part

\* The invariant's parts about queues, said of what is in the queues.
LEMMA QueueParts ==
    /\ RequestsFit <=> AllFit(queue, text, written, tasks)
    /\ RequestsUnique <=> Distinct(queue)
    /\ \A c, i, part : Posted(c, i, part) <=> PostedIn(queue, c, i, part)
<1>1. RequestsFit <=> AllFit(queue, text, written, tasks)
  <2>1. RequestsFit <=> \A w \in Worker : \A j \in DOMAIN queue[w] : Fitting(text, written, tasks, queue[w][j])
    BY DEF RequestsFit, Fitting, TaskOf
  <2> QED
    BY <2>1 DEF In, AllFit
<1>2. RequestsUnique <=> Distinct(queue)
  BY DEF RequestsUnique, Distinct
<1>3. \A c, i, part : Posted(c, i, part) <=> PostedIn(queue, c, i, part)
  BY DEF Posted, PostedIn, In
<1> QED
  BY <1>1, <1>2, <1>3

\* The same of the next state.
LEMMA QueuePartsNext ==
    /\ RequestsFit' <=> AllFit(queue', text', written', tasks')
    /\ RequestsUnique' <=> Distinct(queue')
    /\ \A c, i, part : Posted(c, i, part)' <=> PostedIn(queue', c, i, part)
<1>1. RequestsFit' <=> AllFit(queue', text', written', tasks')
  <2>1. RequestsFit' <=> \A w \in Worker : \A j \in DOMAIN queue'[w] : Fitting(text', written', tasks', queue'[w][j])
    BY DEF RequestsFit, Fitting, TaskOf
  <2> QED
    BY <2>1 DEF In, AllFit
<1>2. RequestsUnique' <=> Distinct(queue')
  BY DEF RequestsUnique, Distinct
<1>3. \A c, i, part : Posted(c, i, part)' <=> PostedIn(queue', c, i, part)
  BY DEF Posted, PostedIn, In
<1> QED
  BY <1>1, <1>2, <1>3

(***************************************************************************)
(* A message moves one task on                                             *)
(***************************************************************************)
\* The oldest request of a worker is gone, its task is now `new`, and more is posted.
Moved(w, new, more) ==
    /\ queue[w] # <<>>
    /\ tasks' = WithTask(Head(queue[w]), new)
    /\ queue' = [v \in Worker |-> (IF v = w THEN Tail(queue[v]) ELSE queue[v]) \o more[v]]
    /\ text' = text /\ written' = written /\ failure' = failure /\ closed' = closed

\* The new task fits its item, what else was posted for the old one still fits, and what the
\* new one lacks was posted before or is now.
GoodMove(r, txt, wrote, item, old, new, more) ==
    /\ TaskFits(txt, wrote, item, new)
    /\ \A s : s.part # r.part /\ RequestFits(txt, wrote, item, old, s) => RequestFits(txt, wrote, item, new, s)
    /\ more \in Queues /\ Distinct(more) /\ \A v \in Worker : failure[v] => more[v] = <<>>
    /\ \A n : In(more, n) => /\ n.call = r.call /\ n.item = r.item /\ RequestFits(txt, wrote, item, new, n)
                             /\ \A s : s.part # r.part /\ RequestFits(txt, wrote, item, old, s) => s.part # n.part
    /\ Unsettled(new) =>
          /\ Lacks(item, new) # {}
          /\ \A part \in Lacks(item, new) : \/ Unsettled(old) /\ part \in Lacks(item, old) /\ part # r.part
                                            \/ \E n : In(more, n) /\ n.part = part

\* The members of a queue are requests.
LEMMA InType ==
    ASSUME NEW q \in Queues, NEW r, In(q, r)
    PROVE  r \in Request /\ r.call \in Call
<1>1. PICK v \in Worker : \E j \in DOMAIN q[v] : q[v][j] = r
  BY DEF In
<1>2. q[v] \in Seq(Request)
  BY DEF Queues
<1>3. r \in Request
  BY <1>1, <1>2
<1> QED
  BY <1>3 DEF Request

\* One task of one call is exchanged.
LEMMA TaskExchanged ==
    ASSUME NEW ts \in [Call -> Seq(Task)], NEW c \in Call, NEW i \in DOMAIN ts[c], NEW new \in Task,
           NEW us, us = [ts EXCEPT ![c][i] = new]
    PROVE  /\ us \in [Call -> Seq(Task)] /\ \A d \in Call : DOMAIN us[d] = DOMAIN ts[d]
           /\ us[c][i] = new
           /\ \A d \in Call : \A j \in DOMAIN ts[d] : ~(d = c /\ j = i) => us[d][j] = ts[d][j]
<1>1. PICK s \in Seq(Task) : s = ts[c]
  OBVIOUS
<1>2. [s EXCEPT ![i] = new] \in Seq(Task) /\ DOMAIN [s EXCEPT ![i] = new] = DOMAIN s
      /\ [s EXCEPT ![i] = new][i] = new /\ \A j \in DOMAIN s : j # i => [s EXCEPT ![i] = new][j] = s[j]
  BY <1>1
<1>3. us = [ts EXCEPT ![c] = [s EXCEPT ![i] = new]]
  BY <1>1
<1>4. \A d \in Call : us[d] = IF d = c THEN [s EXCEPT ![i] = new] ELSE ts[d]
  BY <1>3, Zenon
<1>5. us \in [Call -> Seq(Task)]
  BY <1>2, <1>3
<1>6. \A d \in Call : DOMAIN us[d] = DOMAIN ts[d]
  BY <1>1, <1>2, <1>4
<1>7. us[c][i] = new
  BY <1>2, <1>4
<1>8. \A d \in Call : \A j \in DOMAIN ts[d] : ~(d = c /\ j = i) => us[d][j] = ts[d][j]
  BY <1>1, <1>2, <1>4
<1> QED
  BY <1>5, <1>6, <1>7, <1>8

\* What is posted after a message.
LEMMA QueueMoved ==
    ASSUME queue \in Queues, Distinct(queue), NEW w \in Worker, queue[w] # <<>>, NEW more \in Queues,
           queue' = [v \in Worker |-> (IF v = w THEN Tail(queue[v]) ELSE queue[v]) \o more[v]]
    PROVE  /\ queue' \in Queues
           /\ \A s : In(queue', s) <=> (In(queue, s) /\ ~Same(s, Head(queue[w]))) \/ In(more, s)
           /\ In(queue, Head(queue[w])) /\ Head(queue[w]) \in Request
           /\ Distinct(more) /\ (\A s, n : In(queue, s) /\ ~Same(s, Head(queue[w])) /\ In(more, n) => ~Same(s, n)) => Distinct(queue')
<1>1. PICK q : q = queue
  OBVIOUS
<1>2. PICK t : t = [v \in Worker |-> IF v = w THEN Tail(q[v]) ELSE q[v]]
  BY Zenon
<1>3. /\ t \in Queues /\ Distinct(t) /\ In(q, Head(q[w])) /\ Head(q[w]) \in Request
      /\ \A s : In(t, s) <=> In(q, s) /\ ~Same(s, Head(q[w]))
  <2>1. q \in Queues /\ Distinct(q) /\ q[w] # <<>>
    BY <1>1
  <2> QED
    BY <1>2, <2>1, QueueTaken
<1>4. PICK u : u = [v \in Worker |-> t[v] \o more[v]]
  BY Zenon
<1>5. u = queue'
  BY <1>1, <1>2, <1>4, Zenon
<1>6. /\ u \in Queues /\ \A s : In(u, s) <=> In(t, s) \/ In(more, s)
      /\ Distinct(t) /\ Distinct(more) /\ Apart(t, more) => Distinct(u)
  <2>1. t \in Queues
    BY <1>3
  <2> QED
    BY <1>4, <2>1, QueuesJoined, Zenon
<1>7. ASSUME Distinct(more), \A s, n : In(q, s) /\ ~Same(s, Head(q[w])) /\ In(more, n) => ~Same(s, n)
      PROVE  Distinct(u)
  <2>1. Apart(t, more)
    BY <1>3, <1>7 DEF Apart
  <2> QED
    BY <1>3, <1>6, <1>7, <2>1
<1>8. \A s : In(u, s) <=> (In(q, s) /\ ~Same(s, Head(q[w]))) \/ In(more, s)
  BY <1>3, <1>6
<1> QED
  BY <1>1, <1>3, <1>5, <1>6, <1>7, <1>8, Zenon

\* What fits still fits, and nothing that is lacked is missing, after a good move.
LEMMA MovedWork ==
    ASSUME Types, Work, NEW w \in Worker, NEW new \in Task, NEW more, Moved(w, new, more),
           LET r == Head(queue[w]) IN
           GoodMove(r, text[r.call], written[r.call], Items(text[r.call])[r.item], TaskOf(r), new, more)
    PROVE  TasksFit' /\ RequestsFit' /\ RequestsUnique' /\ AllPosted' /\ FailuresEmpty'
<1>1. PICK r, c, i : r = Head(queue[w]) /\ c = r.call /\ i = r.item
  OBVIOUS
<1>2. /\ queue[w] # <<>> /\ tasks' = [tasks EXCEPT ![c][i] = new]
      /\ queue' = [v \in Worker |-> (IF v = w THEN Tail(queue[v]) ELSE queue[v]) \o more[v]]
      /\ text' = text /\ written' = written /\ failure' = failure /\ closed' = closed
  BY <1>1 DEF Moved, WithTask
<1>3. PICK txt, wrote, item, old : txt = text[c] /\ wrote = written[c] /\ item = Items(text[c])[i] /\ old = tasks[c][i]
  OBVIOUS
<1>4. GoodMove(r, txt, wrote, item, old, new, more)
  BY <1>1, <1>3 DEF TaskOf
<1>5. queue \in Queues /\ Distinct(queue) /\ more \in Queues /\ Distinct(more)
  BY <1>4, QueueParts DEF Types, Queues, Work, GoodMove
<1>6. /\ queue' \in Queues
      /\ \A s : In(queue', s) <=> (In(queue, s) /\ ~Same(s, r)) \/ In(more, s)
      /\ In(queue, r) /\ r \in Request
      /\ Distinct(more) /\ (\A s, n : In(queue, s) /\ ~Same(s, r) /\ In(more, n) => ~Same(s, n)) => Distinct(queue')
  <2>1. /\ queue' \in Queues
        /\ \A s : In(queue', s) <=> (In(queue, s) /\ ~Same(s, Head(queue[w]))) \/ In(more, s)
        /\ In(queue, Head(queue[w])) /\ Head(queue[w]) \in Request
        /\ Distinct(more) /\ (\A s, n : In(queue, s) /\ ~Same(s, Head(queue[w])) /\ In(more, n) => ~Same(s, n)) => Distinct(queue')
    BY <1>2, <1>5, QueueMoved, Zenon
  <2> QED
    BY <1>1, <2>1
<1>7. \A s : In(queue, s) => s.call \in Call /\ Fitting(text, written, tasks, s)
  BY <1>5, InType, QueueParts DEF Work, AllFit
<1>8. c \in Call /\ i \in DOMAIN tasks[c]
  BY <1>1, <1>6, <1>7 DEF Fitting
<1>9. /\ tasks' \in [Call -> Seq(Task)] /\ \A d \in Call : DOMAIN tasks'[d] = DOMAIN tasks[d]
      /\ tasks'[c][i] = new
      /\ \A d \in Call : \A j \in DOMAIN tasks[d] : ~(d = c /\ j = i) => tasks'[d][j] = tasks[d][j]
  <2>1. PICK ts \in [Call -> Seq(Task)] : ts = tasks
    BY DEF Types
  <2>2. PICK us : us = [ts EXCEPT ![c][i] = new]
    BY Zenon
  <2>3. /\ us \in [Call -> Seq(Task)] /\ \A d \in Call : DOMAIN us[d] = DOMAIN ts[d]
        /\ us[c][i] = new
        /\ \A d \in Call : \A j \in DOMAIN ts[d] : ~(d = c /\ j = i) => us[d][j] = ts[d][j]
    BY <1>8, <2>1, <2>2, TaskExchanged
  <2>4. us = tasks'
    BY <1>2, <2>1, <2>2
  <2> QED
    BY <2>1, <2>3, <2>4
<1>10. TasksFit'
  <2>1. ASSUME NEW d \in Call
        PROVE  /\ DOMAIN tasks'[d] = DOMAIN Items(text'[d])
               /\ \A j \in DOMAIN tasks'[d] : TaskFits(text'[d], written'[d], Items(text'[d])[j], tasks'[d][j])
    <3>1. DOMAIN tasks[d] = DOMAIN Items(text[d]) /\ \A j \in DOMAIN tasks[d] : TaskFits(text[d], written[d], Items(text[d])[j], tasks[d][j])
      BY DEF Work, TasksFit
    <3>2. TaskFits(txt, wrote, item, new)
      BY <1>4 DEF GoodMove
    <3>3. ASSUME NEW j \in DOMAIN tasks'[d] PROVE TaskFits(text'[d], written'[d], Items(text'[d])[j], tasks'[d][j])
      <4>1. j \in DOMAIN tasks[d]
        BY <1>9
      <4>2. CASE d = c /\ j = i
        BY <1>2, <1>3, <1>9, <3>2, <4>2
      <4>3. CASE ~(d = c /\ j = i)
        BY <1>2, <1>9, <3>1, <4>1, <4>3
      <4> QED
        BY <4>2, <4>3
    <3> QED
      BY <1>2, <1>9, <3>1, <3>3
  <2> QED
    BY <2>1 DEF TasksFit
<1>11. ASSUME NEW s, In(queue, s), ~Same(s, r)
       PROVE  s.call = c /\ s.item = i => s.part # r.part /\ RequestFits(txt, wrote, item, old, s)
  <2>1. Fitting(text, written, tasks, s)
    BY <1>7, <1>11
  <2> QED
    BY <1>1, <1>3, <1>11, <2>1 DEF Fitting, Same
<1>12. RequestsFit'
  <2>1. ASSUME NEW s, In(queue, s), ~Same(s, r) PROVE Fitting(text', written', tasks', s)
    <3>1. s.call \in Call /\ Fitting(text, written, tasks, s)
      BY <1>7, <2>1
    <3>2. s.item \in DOMAIN tasks[s.call] /\ s.item \in DOMAIN tasks'[s.call]
      BY <1>9, <3>1 DEF Fitting
    <3>3. CASE s.call = c /\ s.item = i
      <4>1. RequestFits(txt, wrote, item, new, s)
        BY <1>4, <1>11, <2>1, <3>3 DEF GoodMove
      <4> QED
        BY <1>2, <1>3, <1>9, <3>2, <3>3, <4>1 DEF Fitting
    <3>4. CASE ~(s.call = c /\ s.item = i)
      <4>1. tasks'[s.call][s.item] = tasks[s.call][s.item]
        BY <1>9, <3>1, <3>2, <3>4
      <4> QED
        BY <1>2, <3>1, <3>2, <4>1 DEF Fitting
    <3> QED
      BY <3>3, <3>4
  <2>2. ASSUME NEW n, In(more, n) PROVE Fitting(text', written', tasks', n)
    <3>1. n.call = c /\ n.item = i /\ RequestFits(txt, wrote, item, new, n)
      BY <1>1, <1>4, <2>2 DEF GoodMove
    <3>2. i \in DOMAIN tasks'[c]
      BY <1>8, <1>9
    <3> QED
      BY <1>2, <1>3, <1>9, <3>1, <3>2 DEF Fitting
  <2>3. AllFit(queue', text', written', tasks')
    BY <1>6, <2>1, <2>2 DEF AllFit
  <2> QED
    BY <2>3, QueuePartsNext
<1>13. RequestsUnique'
  <2>1. ASSUME NEW s, NEW n, In(queue, s), ~Same(s, r), In(more, n) PROVE ~Same(s, n)
    <3>1. n.call = c /\ n.item = i /\ \A x : x.part # r.part /\ RequestFits(txt, wrote, item, old, x) => x.part # n.part
      BY <1>1, <1>4, <2>1, Zenon DEF GoodMove
    <3>2. s.call = c /\ s.item = i => s.part # r.part /\ RequestFits(txt, wrote, item, old, s)
      BY <1>11, <2>1
    <3> QED
      BY <3>1, <3>2 DEF Same
  <2>2. Distinct(queue')
    BY <1>5, <1>6, <2>1
  <2> QED
    BY <2>2, QueuePartsNext
<1>14. AllPosted'
  <2>1. ASSUME NEW d \in Call, NEW j \in DOMAIN tasks'[d], Unsettled(tasks'[d][j])
        PROVE  /\ Lacks(Items(text'[d])[j], tasks'[d][j]) # {}
               /\ \A part \in Lacks(Items(text'[d])[j], tasks'[d][j]) : PostedIn(queue', d, j, part)
    <3>1. j \in DOMAIN tasks[d]
      BY <1>9
    <3>2. Unsettled(tasks[d][j]) => /\ Lacks(Items(text[d])[j], tasks[d][j]) # {}
                                    /\ \A part \in Lacks(Items(text[d])[j], tasks[d][j]) : PostedIn(queue, d, j, part)
      BY <3>1, QueueParts DEF Work, AllPosted
    <3>3. CASE d = c /\ j = i
      <4>1. tasks'[d][j] = new /\ Items(text'[d])[j] = item /\ Unsettled(new)
        BY <1>2, <1>3, <1>9, <2>1, <3>3
      <4>2. /\ Lacks(item, new) # {}
            /\ \A part \in Lacks(item, new) : \/ Unsettled(old) /\ part \in Lacks(item, old) /\ part # r.part
                                              \/ \E n : In(more, n) /\ n.part = part
        BY <1>4, <4>1 DEF GoodMove
      <4>3. ASSUME NEW part \in Lacks(item, new) PROVE PostedIn(queue', c, i, part)
        <5>1. CASE \E n : In(more, n) /\ n.part = part
          <6>1. PICK n : In(more, n) /\ n.part = part
            BY <5>1
          <6>2. n.call = c /\ n.item = i
            BY <1>1, <1>4, <6>1 DEF GoodMove
          <6> QED
            BY <1>6, <6>1, <6>2 DEF PostedIn
        <5>2. CASE Unsettled(old) /\ part \in Lacks(item, old) /\ part # r.part
          <6>1. PostedIn(queue, c, i, part)
            BY <1>3, <3>2, <3>3, <5>2
          <6>2. PICK s : In(queue, s) /\ s.call = c /\ s.item = i /\ s.part = part
            BY <6>1 DEF PostedIn
          <6>3. ~Same(s, r)
            BY <5>2, <6>2 DEF Same
          <6> QED
            BY <1>6, <6>2, <6>3 DEF PostedIn
        <5> QED
          BY <4>2, <5>1, <5>2
      <4> QED
        BY <3>3, <4>1, <4>2, <4>3
    <3>4. CASE ~(d = c /\ j = i)
      <4>1. tasks'[d][j] = tasks[d][j] /\ text'[d] = text[d]
        BY <1>2, <1>9, <3>1, <3>4
      <4>2. ASSUME NEW part, PostedIn(queue, d, j, part) PROVE PostedIn(queue', d, j, part)
        <5>1. PICK s : In(queue, s) /\ s.call = d /\ s.item = j /\ s.part = part
          BY <4>2 DEF PostedIn
        <5>2. ~Same(s, r)
          BY <1>1, <3>4, <5>1 DEF Same
        <5> QED
          BY <1>6, <5>1, <5>2 DEF PostedIn
      <4> QED
        BY <2>1, <3>2, <4>1, <4>2
    <3> QED
      BY <3>3, <3>4
  <2> QED
    BY <2>1, QueuePartsNext DEF AllPosted
<1>15. FailuresEmpty'
  <2>1. ASSUME NEW v \in Worker, failure'[v] PROVE queue'[v] = <<>>
    <3>1. queue[v] = <<>> /\ more[v] = <<>>
      BY <1>2, <1>4, <2>1, Zenon DEF Work, FailuresEmpty, GoodMove
    <3>2. v # w
      BY <1>2, <3>1
    <3>3. <<>> \o <<>> = <<>>
      OBVIOUS
    <3> QED
      BY <1>2, <3>1, <3>2, <3>3
  <2>2. closed' => \A v \in Worker : failure'[v]
    BY <1>2 DEF Work, FailuresEmpty
  <2> QED
    BY <2>1, <2>2 DEF FailuresEmpty
<1> QED
  BY <1>10, <1>12, <1>13, <1>14, <1>15

(***************************************************************************)
(* What is counted                                                         *)
(***************************************************************************)
CountsOf(txt, ts) == [i \in DOMAIN ts |-> Counted(txt, Items(txt)[i], ts[i])]

\* The tasks of a text fit its items.
AllTasksFit(txt, wrote, ts) ==
    DOMAIN ts = DOMAIN Items(txt) /\ \A i \in DOMAIN ts : TaskFits(txt, wrote, Items(txt)[i], ts[i])

\* A count is a number.
LEMMA CountedType ==
    ASSUME NEW txt, Good(txt), NEW wrote, NEW item, ItemFits(txt, item), NEW task \in Task, TaskFits(txt, wrote, item, task)
    PROVE  Counted(txt, item, task) \in Nat
<1>1. task.enlargements \in Nat /\ task.parts \in Seq(Seq(Id))
  BY DEF Task
<1>2. Len(item.pretokens) \in Nat /\ (item.long => txt[item.pretokens[1]] \in Nat)
  <2>1. PICK q \in Seq(DOMAIN txt) : q = item.pretokens
    BY DEF ItemFits
  <2>2. item.long => 1 \in DOMAIN q
    BY <2>1 DEF ItemFits
  <2>3. item.long => q[1] \in DOMAIN txt
    BY <2>1, <2>2
  <2>4. \A p \in DOMAIN txt : txt[p] \in Nat
    BY DEF Good
  <2> QED
    BY <2>1, <2>3, <2>4
<1>3. Cardinality({k \in DOMAIN task.parts : task.parts[k] # <<>>}) \in Nat
  <2>1. PICK n \in Nat : DOMAIN task.parts = 1 .. n
    BY <1>1
  <2>2. IsFiniteSet(1 .. n)
    BY FS_Interval
  <2>3. IsFiniteSet({k \in DOMAIN task.parts : task.parts[k] # <<>>})
    BY <2>1, <2>2, FS_Subset
  <2> QED
    BY <2>3, FS_CardinalityType
<1> QED
  BY <1>1, <1>2, <1>3 DEF Counted

\* The counts of a text's tasks are numbers.
LEMMA CountsType ==
    ASSUME NEW txt, Good(txt), NEW wrote, NEW ts \in Seq(Task), AllTasksFit(txt, wrote, ts)
    PROVE  CountsOf(txt, ts) \in Seq(Nat) /\ Len(CountsOf(txt, ts)) = Len(ts)
<1>1. PICK n \in Nat : n = Len(ts) /\ DOMAIN ts = 1 .. n
  OBVIOUS
<1>2. \A i \in DOMAIN Items(txt) : ItemFits(txt, Items(txt)[i])
  BY ItemsFacts DEF ItemsGood
<1>3. PICK s : s = CountsOf(txt, ts)
  OBVIOUS
<1>4. ASSUME NEW i \in 1 .. n PROVE s[i] \in Nat
  <2>1. ts[i] \in Task /\ TaskFits(txt, wrote, Items(txt)[i], ts[i]) /\ ItemFits(txt, Items(txt)[i])
    BY <1>1, <1>2 DEF AllTasksFit
  <2>2. Counted(txt, Items(txt)[i], ts[i]) \in Nat
    BY <2>1, CountedType
  <2> QED
    BY <1>1, <1>3, <2>2 DEF CountsOf
<1>5. s = [i \in 1 .. n |-> s[i]]
  BY <1>1, <1>3 DEF CountsOf
<1>6. s \in Seq(Nat) /\ Len(s) = n
  BY <1>4, <1>5
<1> QED
  BY <1>1, <1>3, <1>6

\* When all tasks are done, each pretoken and chunk, and each enlargement, was counted once.
LEMMA CountsEnded ==
    ASSUME NEW txt, Good(txt), NEW wrote, NEW ts \in Seq(Task), AllTasksFit(txt, wrote, ts), HasEnded(ts)
    PROVE  Total(CountsOf(txt, ts)) = Total(txt) + Total([i \in DOMAIN ts |-> ts[i].enlargements])
<1>1. PICK items : items = Items(txt)
  OBVIOUS
<1>2. items \in Seq(ItemType) /\ (\A i \in DOMAIN items : ItemFits(txt, items[i])) /\ Total(Sizes(txt, items)) = Total(txt)
  BY <1>1, ItemsFacts DEF ItemsGood
<1>3. Sizes(txt, items) \in Seq(Nat) /\ Len(Sizes(txt, items)) = Len(items)
  BY <1>2, FullsType
<1>4. PICK s \in Seq(Nat) : s = Sizes(txt, items)
  BY <1>3
<1>5. PICK t \in Seq(Nat) : t = [i \in DOMAIN ts |-> ts[i].enlargements]
  BY EnlargementsType, Zenon
<1>6. PICK u \in Seq(Nat) : u = CountsOf(txt, ts)
  BY CountsType
<1>7. PICK n \in Nat : n = Len(ts) /\ DOMAIN ts = 1 .. n /\ DOMAIN items = 1 .. n /\ Len(items) = n
  BY <1>1, <1>2 DEF AllTasksFit
<1>8. Len(s) = n /\ Len(t) = n /\ Len(u) = n
  <2>1. DOMAIN t = 1 .. n /\ DOMAIN u = 1 .. n
    BY <1>5, <1>6, <1>7 DEF CountsOf
  <2> QED
    BY <1>3, <1>4, <1>7, <2>1
<1>9. ASSUME NEW i \in 1 .. n PROVE u[i] = s[i] + t[i]
  <2>1. PICK item, task : item = items[i] /\ task = ts[i]
    OBVIOUS
  <2>2. /\ u[i] = Counted(txt, item, task) /\ s[i] = Size(txt, item) /\ t[i] = task.enlargements
        /\ TaskFits(txt, wrote, item, task) /\ task.state = "done"
    BY <1>1, <1>4, <1>5, <1>6, <1>7, <2>1 DEF CountsOf, Sizes, AllTasksFit, HasEnded
  <2>3. s[i] \in Nat
    BY <1>8
  <2>4. CASE item.long
    BY <2>2, <2>4 DEF Counted, Size
  <2>5. CASE ~item.long
    <3>1. task.enlargements = 0
      BY <2>2, <2>5 DEF TaskFits, BatchTask
    <3>2. u[i] = s[i]
      BY <2>2, <2>5 DEF Counted, Size
    <3> QED
      BY <2>2, <2>3, <3>1, <3>2
  <2> QED
    BY <2>4, <2>5
<1>10. Total(u) = Total(s) + Total(t)
  <2>1. Len(t) = Len(s) /\ Len(u) = Len(s)
    BY <1>8
  <2>2. \A k \in 1 .. Len(s) : u[k] = s[k] + t[k]
    BY <1>8, <1>9
  <2> QED
    BY <2>1, <2>2, TotalPlus
<1> QED
  BY <1>2, <1>4, <1>5, <1>6, <1>10

\* What a call that has the pool for itself counts, and whose requests there are.
Counting(c, ts) ==
    /\ poolTasks' = Total(CountsOf(text'[c], ts)) /\ Cardinality(active') <= poolTasks'
    /\ \A s : In(queue', s) => s.call = c

\* The telemetry of calls that conclude is what they counted.
LEMMA TelemetryNext ==
    ASSUME NEW A, NEW after, Concluding(A, after), PhasesFit, Telemetry, TasksFit', closed' \in BOOLEAN,
           \A c \in Call : Good(text'[c]),
           \A c \in Call : alone'[c] => c \in A \/ alone[c],
           \A c \in A : alone'[c] /\ ~HasFailed(after[c]) => Counting(c, after[c])
    PROVE  Telemetry'
<1>1. A \in SUBSET Call /\ Awaiting \subseteq A /\ Conclude(A, after) /\ after \in [Call -> Seq(Task)]
      /\ \A c \in Call \ A : text'[c] = text[c]
  BY DEF Concluding
<1>2. /\ tasks' = after /\ (\A c \in A : ConcludedAs(c, after[c]))
      /\ \A c \in Call \ A : phase'[c] = phase[c] /\ route'[c] = route[c] /\ answer'[c] = answer[c] /\ telemetry'[c] = telemetry[c]
  BY <1>1, Concludes
<1>3. ASSUME NEW c \in Call, alone'[c]
      PROVE  /\ phase'[c] = "awaiting" =>
                  /\ poolTasks' = Total(CountsOf(text'[c], tasks'[c])) /\ Cardinality(active') <= poolTasks'
                  /\ \A w \in Worker : \A j \in DOMAIN queue'[w] : queue'[w][j].call = c
             /\ route'[c] = "workers" =>
                  /\ telemetry'[c].tasks = Total(text'[c]) + telemetry'[c].enlargements
                  /\ telemetry'[c].activeWorkers <= telemetry'[c].tasks
  <2>1. CASE c \in A
    <3>1. PICK ts \in Seq(Task) : ts = after[c] /\ ts = tasks'[c]
      BY <1>1, <1>2
    <3>2. ConcludedAs(c, ts)
      BY <1>2, <2>1, <3>1
    <3>3. route[c] = "workers" => FALSE
      <4>1. phase[c] # "answered"
        BY <2>1 DEF Concluding
      <4> QED
        BY <4>1, Zenon DEF PhasesFit
    <3>4. ASSUME phase'[c] = "awaiting"
          PROVE  /\ poolTasks' = Total(CountsOf(text'[c], tasks'[c])) /\ Cardinality(active') <= poolTasks'
                 /\ \A w \in Worker : \A j \in DOMAIN queue'[w] : queue'[w][j].call = c
      <4>1. ~HasFailed(ts)
        BY <3>2, <3>4 DEF ConcludedAs
      <4>2. Counting(c, ts)
        BY <1>3, <2>1, <3>1, <4>1, Zenon
      <4>3. \A w \in Worker : \A j \in DOMAIN queue'[w] : In(queue', queue'[w][j])
        BY DEF In
      <4> QED
        BY <3>1, <4>2, <4>3 DEF Counting
    <3>5. ASSUME route'[c] = "workers"
          PROVE  /\ telemetry'[c].tasks = Total(text'[c]) + telemetry'[c].enlargements
                 /\ telemetry'[c].activeWorkers <= telemetry'[c].tasks
      <4>1. HasEnded(ts) /\ ~HasFailed(ts) /\ telemetry'[c] = TelemetryOf(ts)
        BY <3>2, <3>3, <3>5 DEF ConcludedAs
      <4>2. Counting(c, ts)
        BY <1>3, <2>1, <3>1, <4>1, Zenon
      <4>3. PICK txt, wrote : txt = text'[c] /\ wrote = written'[c]
        OBVIOUS
      <4>4. AllTasksFit(txt, wrote, ts)
        BY <3>1, <4>3 DEF TasksFit, AllTasksFit
      <4>5. Total(CountsOf(txt, ts)) = Total(txt) + Total([i \in DOMAIN ts |-> ts[i].enlargements])
        BY <4>1, <4>3, <4>4, CountsEnded
      <4> QED
        BY <4>1, <4>2, <4>3, <4>5 DEF Counting, TelemetryOf
    <3> QED
      BY <3>4, <3>5
  <2>2. CASE c \notin A
    <3>1. phase[c] # "awaiting" /\ alone[c] /\ text'[c] = text[c]
      BY <1>1, <1>3, <2>2 DEF Awaiting
    <3> QED
      BY <1>2, <2>2, <3>1 DEF Telemetry
  <2> QED
    BY <2>1, <2>2
<1>4. \A c \in Call : Counts(c)' = CountsOf(text'[c], tasks'[c])
  BY DEF Counts, CountsOf
<1> QED
  BY <1>3, <1>4 DEF Telemetry

\* An answer is counted once, or its task has failed.
CountMove(r, txt, item, old, new) ==
    \/ new.state = "failed"
    \/ /\ Counted(txt, item, new) = Counted(txt, item, old) + Len(r.pieces) /\ Len(r.pieces) \in Nat \ {0}
       /\ poolTasks' = poolTasks + Len(r.pieces) /\ \E w \in Worker : active' = active \union {w}

\* A worker is added.
LEMMA ActiveMore ==
    ASSUME NEW w \in Worker, active \in SUBSET Worker
    PROVE  /\ Cardinality(active) \in Nat /\ Cardinality(active \union {w}) \in Nat
           /\ Cardinality(active \union {w}) <= Cardinality(active) + 1
<1>1. IsFiniteSet(Worker)
  <2>1. 0 \in Int /\ WorkerCount - 1 \in Int
    BY PoolAssumption
  <2> QED
    BY <2>1, FS_Interval DEF Worker
<1>2. IsFiniteSet(active)
  BY <1>1, FS_Subset
<1>3. /\ Cardinality(active) \in Nat
      /\ Cardinality(active \union {w}) = IF w \in active THEN Cardinality(active) ELSE Cardinality(active) + 1
  BY <1>2, FS_CardinalityType, FS_AddElement
<1> QED
  BY <1>3

\* A sequence has as many elements as one with its domain.
LEMMA SameLength ==
    ASSUME NEW s \in Seq(Task), NEW t \in Seq(Task)
    PROVE  (\E n \in Nat : DOMAIN s = 1 .. n /\ Len(s) = n) /\ (DOMAIN s = DOMAIN t => Len(s) = Len(t))
OBVIOUS

\* Some entries more are enough for one worker more.
LEMMA OneMore ==
    ASSUME NEW x \in Nat, NEW y \in Nat, NEW z \in Nat, NEW d \in Nat \ {0}, x <= z, y <= x + 1
    PROVE  y <= z + d
OBVIOUS

\* Who has the pool for itself counts the answers of its own requests.
LEMMA MovedCounting ==
    ASSUME Types, Work, Telemetry, NEW w \in Worker, NEW new \in Task, NEW more, Moved(w, new, more), TasksFit',
           LET r == Head(queue[w]) IN
           /\ GoodMove(r, text[r.call], written[r.call], Items(text[r.call])[r.item], TaskOf(r), new, more)
           /\ CountMove(r, text[r.call], Items(text[r.call])[r.item], TaskOf(r), new),
           NEW c \in Call, alone[c], phase[c] = "awaiting", ~HasFailed(tasks'[c])
    PROVE  Counting(c, tasks'[c])
<1>1. PICK r, i : r = Head(queue[w]) /\ i = r.item
  OBVIOUS
<1>2. /\ poolTasks = Total(CountsOf(text[c], tasks[c])) /\ Cardinality(active) <= poolTasks
      /\ \A s : In(queue, s) => s.call = c
  <2>1. Counts(c) = CountsOf(text[c], tasks[c])
    BY DEF Counts, CountsOf
  <2>2. /\ poolTasks = Total(Counts(c)) /\ Cardinality(active) <= poolTasks
        /\ \A v \in Worker : \A j \in DOMAIN queue[v] : queue[v][j].call = c
    BY Zenon DEF Telemetry
  <2>3. \A s : In(queue, s) => s.call = c
    BY <2>2 DEF In
  <2> QED
    BY <2>1, <2>2, <2>3
<1>3. queue[w] # <<>> /\ text' = text /\ written' = written
      /\ queue' = [v \in Worker |-> (IF v = w THEN Tail(queue[v]) ELSE queue[v]) \o more[v]]
      /\ tasks' = [tasks EXCEPT ![r.call][r.item] = new]
  BY <1>1 DEF Moved, WithTask
<1>4. queue \in Queues /\ Distinct(queue) /\ more \in Queues
  BY QueueParts, Zenon DEF Types, Queues, Work, GoodMove
<1>5. /\ \A s : In(queue', s) <=> (In(queue, s) /\ ~Same(s, r)) \/ In(more, s)
      /\ In(queue, r)
  <2>1. /\ \A s : In(queue', s) <=> (In(queue, s) /\ ~Same(s, Head(queue[w]))) \/ In(more, s)
        /\ In(queue, Head(queue[w]))
    BY <1>3, <1>4, QueueMoved, Zenon
  <2> QED
    BY <1>1, <2>1
<1>6. r.call = c
  BY <1>2, <1>5
<1>7. \A s : In(queue', s) => s.call = c
  <2>1. \A n : In(more, n) => n.call = c
    BY <1>1, <1>6, Zenon DEF GoodMove
  <2> QED
    BY <1>2, <1>5, <2>1
<1>8. i \in DOMAIN tasks[c]
  BY <1>1, <1>5, <1>6, QueueParts DEF Work, AllFit, Fitting
<1>9. PICK ts \in Seq(Task), us \in Seq(Task) : ts = tasks[c] /\ us = tasks'[c] /\ us = [ts EXCEPT ![i] = new]
  <2>1. tasks \in [Call -> Seq(Task)]
    BY DEF Types
  <2>2. tasks[c] \in Seq(Task) /\ [tasks[c] EXCEPT ![i] = new] \in Seq(Task)
    <3>1. PICK u \in Seq(Task) : u = tasks[c]
      BY <2>1
    <3>2. i \in DOMAIN u
      BY <1>8, <3>1
    <3>3. [u EXCEPT ![i] = new] \in Seq(Task)
      BY <3>2, ReplacedType, Zenon
    <3> QED
      BY <3>1, <3>3
  <2>3. tasks'[c] = [tasks[c] EXCEPT ![i] = new]
    BY <1>1, <1>3, <1>6, <2>1
  <2> QED
    BY <2>2, <2>3
<1>10. PICK txt, wrote, item, old : txt = text[c] /\ wrote = written[c] /\ item = Items(txt)[i] /\ old = ts[i]
  OBVIOUS
<1>11. Good(txt) /\ AllTasksFit(txt, wrote, ts) /\ AllTasksFit(txt, wrote, us)
  BY <1>3, <1>9, <1>10 DEF Types, Work, TasksFit, AllTasksFit
<1>12. PICK s \in Seq(Nat) : s = CountsOf(txt, ts) /\ Len(s) = Len(ts)
  BY <1>11, CountsType
<1>13. PICK t \in Seq(Nat) : t = CountsOf(txt, us) /\ Len(t) = Len(us)
  BY <1>11, CountsType
<1>14. PICK n \in Nat : DOMAIN ts = 1 .. n /\ DOMAIN us = 1 .. n /\ Len(ts) = n /\ Len(us) = n /\ i \in 1 .. n
  <2>1. PICK n \in Nat : DOMAIN ts = 1 .. n /\ Len(ts) = n
    BY SameLength
  <2>2. DOMAIN us = DOMAIN ts
    BY <1>9
  <2>3. DOMAIN us = 1 .. n /\ Len(us) = n
    BY <2>1, <2>2, SameLength
  <2>4. i \in 1 .. n
    BY <1>8, <1>9, <2>1
  <2> QED
    BY <2>1, <2>2, <2>3, <2>4
<1>15. new.state # "failed"
  <2>1. us[i] = new /\ i \in DOMAIN us
    BY <1>9, <1>14
  <2> QED
    BY <1>9, <2>1 DEF HasFailed
<1>16. PICK d \in Nat \ {0} : /\ Counted(txt, item, new) = Counted(txt, item, old) + d
                              /\ poolTasks' = poolTasks + d /\ \E u \in Worker : active' = active \union {u}
  <2>1. CountMove(r, txt, item, old, new)
    BY <1>1, <1>6, <1>9, <1>10 DEF TaskOf
  <2> QED
    BY <1>15, <2>1 DEF CountMove
<1>17. Total(t) = Total(s) + d
  <2>1. t[i] = s[i] + d
    BY <1>9, <1>10, <1>12, <1>13, <1>14, <1>16 DEF CountsOf
  <2>2. \A k \in 1 .. Len(s) : k # i => t[k] = s[k]
    BY <1>9, <1>12, <1>13, <1>14 DEF CountsOf
  <2>3. Len(t) = Len(s) /\ i \in 1 .. Len(s) /\ d \in Nat
    BY <1>12, <1>13, <1>14
  <2> QED
    BY <2>1, <2>2, <2>3, TotalChange, Zenon
<1>18. poolTasks' = Total(t)
  BY <1>2, <1>9, <1>10, <1>12, <1>16, <1>17
<1>19. Cardinality(active') <= poolTasks'
  <2>1. PICK u \in Worker : active' = active \union {u}
    BY <1>16
  <2>2. /\ Cardinality(active) \in Nat /\ Cardinality(active \union {u}) \in Nat
        /\ Cardinality(active \union {u}) <= Cardinality(active) + 1
    BY ActiveMore, Zenon DEF Types
  <2>3. PICK x \in Nat, y \in Nat, z \in Nat : x = Cardinality(active) /\ y = Cardinality(active') /\ z = poolTasks
    BY <2>1, <2>2 DEF Types
  <2>4. x <= z /\ y <= x + 1 /\ poolTasks' = z + d
    BY <1>2, <1>16, <2>1, <2>2, <2>3
  <2>5. y <= z + d
    BY <2>4, OneMore, Zenon
  <2> QED
    BY <2>3, <2>4, <2>5
<1> QED
  BY <1>3, <1>7, <1>9, <1>10, <1>13, <1>18, <1>19, Zenon DEF Counting

\* Requests are for tasks that are not done.
LEMMA RequestedNotDone ==
    ASSUME NEW txt, NEW wrote, NEW item, NEW task, NEW r, RequestFits(txt, wrote, item, task, r)
    PROVE  task.state # "done"
BY DEF RequestFits

\* A good move that is counted keeps the invariant.
LEMMA MovedInv ==
    ASSUME IInv, NEW w \in Worker, NEW new \in Task, NEW more, Moved(w, new, more), Conclude(Awaiting, tasks'),
           LET r == Head(queue[w]) IN
           /\ GoodMove(r, text[r.call], written[r.call], Items(text[r.call])[r.item], TaskOf(r), new, more)
           /\ CountMove(r, text[r.call], Items(text[r.call])[r.item], TaskOf(r), new),
           UNCHANGED <<chunking, alone>>, nextWorker' \in Worker, poolTasks' \in Nat, active' \in SUBSET Worker
    PROVE  IInv'
<1>1. Types /\ Work /\ Telemetry /\ PhasesFit
  BY DEF IInv, Work
<1>2. PICK r, c, i : r = Head(queue[w]) /\ c = r.call /\ i = r.item
  OBVIOUS
<1>3. /\ queue[w] # <<>> /\ text' = text /\ written' = written /\ failure' = failure /\ closed' = closed
      /\ queue' = [v \in Worker |-> (IF v = w THEN Tail(queue[v]) ELSE queue[v]) \o more[v]]
      /\ tasks' = [tasks EXCEPT ![c][i] = new] /\ chunking' = chunking /\ alone' = alone
  BY <1>2 DEF Moved, WithTask
<1>4. TasksFit' /\ RequestsFit' /\ RequestsUnique' /\ AllPosted' /\ FailuresEmpty'
  BY <1>1, MovedWork
<1>5. queue \in Queues /\ Distinct(queue) /\ more \in Queues
  BY <1>1, QueueParts, Zenon DEF Types, Queues, Work, GoodMove
<1>6. queue' \in Queues /\ In(queue, r)
  <2>1. queue' \in Queues /\ In(queue, Head(queue[w]))
    BY <1>3, <1>5, QueueMoved, Zenon
  <2> QED
    BY <1>2, <2>1
<1>7. c \in Call /\ i \in DOMAIN tasks[c] /\ tasks[c][i].state # "done"
  <2>1. Fitting(text, written, tasks, r)
    BY <1>1, <1>6, QueueParts DEF Work, AllFit
  <2>2. RequestFits(text[c], written[c], Items(text[c])[i], tasks[c][i], r) /\ i \in DOMAIN tasks[c]
    BY <1>2, <2>1 DEF Fitting
  <2>3. c \in Call
    BY <1>2, <1>5, <1>6, InType
  <2> QED
    BY <2>2, <2>3, RequestedNotDone
<1>8. /\ tasks' \in [Call -> Seq(Task)] /\ \A d \in Call : DOMAIN tasks'[d] = DOMAIN tasks[d]
      /\ \A d \in Call : \A j \in DOMAIN tasks[d] : tasks[d][j].state = "done" => tasks'[d][j] = tasks[d][j]
  <2>1. PICK ts \in [Call -> Seq(Task)] : ts = tasks
    BY <1>1 DEF Types
  <2>2. PICK us : us = [ts EXCEPT ![c][i] = new]
    BY Zenon
  <2>3. /\ us \in [Call -> Seq(Task)] /\ \A d \in Call : DOMAIN us[d] = DOMAIN ts[d]
        /\ \A d \in Call : \A j \in DOMAIN ts[d] : ~(d = c /\ j = i) => us[d][j] = ts[d][j]
    BY <1>7, <2>1, <2>2, TaskExchanged
  <2>4. us = tasks'
    BY <1>3, <2>1, <2>2
  <2> QED
    BY <1>7, <2>1, <2>3, <2>4
<1>9. Concluding(Awaiting, tasks')
  BY <1>3, <1>8 DEF Concluding, Awaiting
<1>10. closed' \in BOOLEAN /\ written \in [Call -> {0, 1}] /\ \A d \in Call : Good(text'[d])
  BY <1>1, <1>3 DEF Types
<1>11. PhasesFit'
  BY <1>1, <1>9, <1>10, PhasesNext
<1>12. CallTypes'
  <2>1. CallTypes
    BY <1>1 DEF Types, CallTypes
  <2> QED
    BY <1>9, <1>10, <2>1, CallTypesNext
<1>13. Telemetry'
  <2>1. ASSUME NEW d \in Awaiting, alone'[d], ~HasFailed(tasks'[d]) PROVE Counting(d, tasks'[d])
    <3>1. d \in Call /\ phase[d] = "awaiting" /\ alone[d]
      BY <1>3, <2>1 DEF Awaiting
    <3> QED
      BY <1>1, <1>4, <2>1, <3>1, MovedCounting
  <2>2. \A d \in Call : alone'[d] => d \in Awaiting \/ alone[d]
    BY <1>3
  <2> QED
    BY <1>1, <1>4, <1>9, <1>10, <2>1, <2>2, TelemetryNext
<1>14. Types'
  BY <1>1, <1>3, <1>6, <1>10, <1>12, Zenon DEF Types, CallTypes, Queues
<1> QED
  BY <1>4, <1>11, <1>13, <1>14 DEF IInv, Work

(***************************************************************************)
(* What each message makes of its task                                     *)
(***************************************************************************)
\* A request of a task, and what it is about.
Asks(r, txt, wrote, item, task) ==
    /\ r \in Request /\ Good(txt) /\ wrote \in {0, 1} /\ ItemFits(txt, item)
    /\ task \in Task /\ TaskFits(txt, wrote, item, task) /\ RequestFits(txt, wrote, item, task, r)

\* Nothing is posted.
LEMMA NothingPosted == Nothing \in Queues /\ Distinct(Nothing) /\ \A n : ~In(Nothing, n)
<1>1. <<>> \in Seq(Request) /\ DOMAIN <<>> = {}
  BY EmptySeq
<1>2. \A v \in Worker : Nothing[v] = <<>>
  BY DEF Nothing
<1> QED
  BY <1>1, <1>2 DEF Nothing, Queues, Distinct, In

\* One request is posted.
LEMMA OnePosted ==
    ASSUME NEW u \in Worker, NEW next \in Request, NEW m, m = [Nothing EXCEPT ![u] = <<next>>]
    PROVE  /\ m \in Queues /\ Distinct(m) /\ \A n : In(m, n) <=> n = next
           /\ \A v \in Worker : v # u => m[v] = <<>>
<1>1. <<>> \in Seq(Request) /\ DOMAIN <<>> = {}
  BY EmptySeq
<1>2. <<next>> \in Seq(Request) /\ DOMAIN <<next>> = {1} /\ <<next>>[1] = next
  OBVIOUS
<1>3. m = [v \in Worker |-> IF v = u THEN <<next>> ELSE <<>>]
  BY DEF Nothing
<1>4. m \in Queues
  BY <1>1, <1>2, <1>3, Zenon DEF Queues
<1>5. \A v \in Worker : \A j \in DOMAIN m[v] : v = u /\ j = 1 /\ m[v][j] = next
  BY <1>1, <1>2, <1>3
<1>6. 1 \in DOMAIN m[u] /\ m[u][1] = next
  BY <1>2, <1>3
<1>7. Distinct(m)
  BY <1>5 DEF Distinct
<1>8. \A n : In(m, n) <=> n = next
  BY <1>5, <1>6 DEF In
<1> QED
  BY <1>3, <1>4, <1>7, <1>8, Zenon

\* A task that fails keeps what was posted for it.
LEMMA FailedMove ==
    ASSUME NEW r, NEW txt, NEW wrote, NEW item, NEW old, Asks(r, txt, wrote, item, old),
           NEW new, new = IF Unsettled(old) THEN Failed(old) ELSE old
    PROVE  new \in Task /\ GoodMove(r, txt, wrote, item, old, new, Nothing) /\ CountMove(r, txt, item, old, new)
<1>1. old \in Task /\ TaskFits(txt, wrote, item, old) /\ old.state # "done"
  BY RequestedNotDone DEF Asks
<1>2. /\ new \in Task /\ new.state = "failed" /\ new.parts = old.parts /\ new.enlargements = old.enlargements
  <2>1. CASE Unsettled(old)
    <3>1. new = [old EXCEPT !.state = "failed"]
      BY <2>1 DEF Failed
    <3> QED
      BY <1>1, <3>1 DEF Task
  <2>2. CASE ~Unsettled(old)
    <3>1. old.state = "failed"
      BY <1>1, <2>2 DEF Unsettled, Task
    <3> QED
      BY <1>1, <2>2, <3>1
  <2> QED
    BY <2>1, <2>2
<1>3. TaskFits(txt, wrote, item, new)
  <2>1. CASE item.long
    <3>1. LongTask(txt, wrote, item, old)
      BY <1>1, <2>1 DEF TaskFits
    <3>2. LongTask(txt, wrote, item, new)
      BY <1>2, <3>1 DEF LongTask
    <3> QED
      BY <2>1, <3>2 DEF TaskFits
  <2>2. CASE ~item.long
    <3>1. BatchTask(item, old)
      BY <1>1, <2>2 DEF TaskFits
    <3>2. BatchTask(item, new)
      BY <1>1, <1>2, <3>1 DEF BatchTask
    <3> QED
      BY <2>2, <3>2 DEF TaskFits
  <2> QED
    BY <2>1, <2>2
<1>4. \A s : RequestFits(txt, wrote, item, old, s) => RequestFits(txt, wrote, item, new, s)
  BY <1>2 DEF RequestFits
<1>5. ~Unsettled(new)
  BY <1>2 DEF Unsettled
<1>6. GoodMove(r, txt, wrote, item, old, new, Nothing)
  <2>1. \A v \in Worker : Nothing[v] = <<>>
    BY DEF Nothing
  <2> QED
    BY <1>3, <1>4, <1>5, <2>1, NothingPosted DEF GoodMove
<1> QED
  BY <1>2, <1>6 DEF CountMove

\* A batch is done when its results are there.
BatchDone(old, r) == [old EXCEPT !.state = "done", !.parts = Sliced(Encoded(r.pieces))]

\* The answer to a batch has the ids of its pretokens, as many as were asked for.
LEMMA BatchMove ==
    ASSUME NEW r, NEW txt, NEW wrote, NEW item, NEW old, Asks(r, txt, wrote, item, old), r.part = 0, old.state = "encoding",
           NEW new, new = BatchDone(old, r)
    PROVE  /\ new \in Task /\ GoodMove(r, txt, wrote, item, old, new, Nothing)
           /\ Counted(txt, item, new) = Counted(txt, item, old) + Len(r.pieces) /\ Len(r.pieces) \in Nat \ {0}
<1>1. old \in Task /\ TaskFits(txt, wrote, item, old) /\ ItemFits(txt, item) /\ Good(txt) /\ RequestFits(txt, wrote, item, old, r)
  BY DEF Asks
<1>2. ~item.long /\ r.pieces = Batch(item.pretokens)
  <2>1. txt[item.pretokens[1]] \in Nat \/ ~item.long
    <3>1. PICK q \in Seq(DOMAIN txt) : q = item.pretokens /\ q # <<>>
      BY <1>1 DEF ItemFits
    <3>2. q[1] \in DOMAIN txt
      BY <3>1
    <3> QED
      BY <1>1, <3>1, <3>2 DEF Good
  <2>2. \A n \in Nat : 0 \notin 1 .. n
    OBVIOUS
  <2> QED
    BY <1>1, <2>1, <2>2 DEF RequestFits
<1>3. PICK q \in Seq(DOMAIN txt) : q = item.pretokens /\ q # <<>> /\ \A e \in DOMAIN q : txt[q[e]] = 1
  BY <1>1, <1>2 DEF ItemFits
<1>4. PICK n \in Nat \ {0} : n = Len(q) /\ DOMAIN q = 1 .. n
  BY <1>3
<1>5. PICK pieces : pieces = [e \in 1 .. n |-> Piece(q[e], 1, 1, 0)]
  BY Zenon
<1>6. r.pieces = pieces /\ Len(pieces) = n /\ DOMAIN pieces = 1 .. n
  BY <1>2, <1>3, <1>4, <1>5 DEF Batch
<1>7. \A e \in 1 .. n : Ids(pieces[e]) \in Seq(Id)
  <2>1. ASSUME NEW e \in 1 .. n PROVE Ids(Piece(q[e], 1, 1, 0)) \in Seq(Id)
    <3>1. PICK p \in DOMAIN txt : p = q[e] /\ txt[p] = 1
      BY <1>3, <1>4
    <3>2. Countable(p, txt[p]) /\ 1 \in 1 .. txt[p]
      BY <1>1, EntryType
    <3>3. 1 \in 1 .. 1
      OBVIOUS
    <3>4. Ids(Piece(p, 1, 1, 0)) \in Seq(Id)
      BY <3>1, <3>2, <3>3, IdsType
    <3> QED
      BY <3>1, <3>4
  <2> QED
    BY <1>5, <2>1
<1>8. PICK parts : parts = [e \in 1 .. n |-> Ids(pieces[e])]
  BY Zenon
<1>9. Sliced(Encoded(r.pieces)) = parts
  <2>1. PICK X : X = {pieces[e] : e \in 1 .. n}
    BY Zenon
  <2>2. pieces \in Seq(X)
    <3>1. \A e \in 1 .. n : pieces[e] \in X
      BY <2>1
    <3>2. pieces = [e \in 1 .. n |-> pieces[e]]
      BY <1>5
    <3> QED
      BY <3>1, <3>2
  <2>3. Sliced(Encoded(pieces)) = [e \in DOMAIN pieces |-> Ids(pieces[e])]
    BY <1>6, <1>7, <2>2, SlicedEncoded
  <2> QED
    BY <1>6, <1>8, <2>3
<1>10. parts \in Seq(Seq(Id))
  <2>1. PICK Y : Y = Seq(Id)
    OBVIOUS
  <2>2. \A e \in 1 .. n : parts[e] \in Y
    BY <1>7, <1>8, <2>1
  <2>3. parts = [e \in 1 .. n |-> parts[e]]
    BY <1>8
  <2>4. parts \in Seq(Y)
    BY <2>2, <2>3
  <2> QED
    BY <2>1, <2>4
<1>11. /\ new \in Task /\ new.state = "done" /\ new.parts = parts /\ new.enlargements = old.enlargements
  BY <1>1, <1>9, <1>10, Zenon DEF Task, BatchDone
<1>12. TaskFits(txt, wrote, item, new)
  <2>1. parts = [e \in DOMAIN item.pretokens |-> Ids(Piece(item.pretokens[e], 1, 1, 0))]
    BY <1>3, <1>4, <1>5, <1>8
  <2>2. BatchTask(item, old)
    BY <1>1, <1>2 DEF TaskFits
  <2>3. BatchTask(item, new)
    BY <1>11, <2>1, <2>2 DEF BatchTask
  <2> QED
    BY <1>2, <2>3 DEF TaskFits
<1>13. \A s : RequestFits(txt, wrote, item, old, s) => s.part = r.part
  BY <1>2 DEF RequestFits
<1>14. ~Unsettled(new)
  BY <1>11 DEF Unsettled
<1>15. GoodMove(r, txt, wrote, item, old, new, Nothing)
  <2>1. \A v \in Worker : Nothing[v] = <<>>
    BY DEF Nothing
  <2> QED
    BY <1>12, <1>13, <1>14, <2>1, NothingPosted DEF GoodMove
<1>16. Counted(txt, item, new) = n /\ Counted(txt, item, old) = 0
  BY <1>2, <1>3, <1>4, <1>11 DEF Counted
<1> QED
  BY <1>4, <1>6, <1>11, <1>15, <1>16

\* The pretoken of a long item and what its task has of it.
LEMMA LongItem ==
    ASSUME NEW r, NEW txt, NEW wrote, NEW item, NEW old, Asks(r, txt, wrote, item, old), item.long,
           NEW p, p = item.pretokens[1], NEW n, n = txt[p]
    PROVE  /\ p \in DOMAIN txt /\ n \in Nat \ {0} /\ Countable(p, n) /\ LongTask(txt, wrote, item, old)
           /\ old.parts \in Seq(Seq(Id)) /\ Len(old.parts) = n /\ DOMAIN old.parts = 1 .. n /\ old.enlargements \in Nat
<1>1. old \in Task /\ TaskFits(txt, wrote, item, old) /\ ItemFits(txt, item) /\ Good(txt)
  BY DEF Asks
<1>2. p \in DOMAIN txt
  <2>1. PICK q \in Seq(DOMAIN txt) : q = item.pretokens /\ q # <<>>
    BY <1>1 DEF ItemFits
  <2>2. q[1] \in DOMAIN txt
    BY <2>1
  <2> QED
    BY <2>1, <2>2
<1>3. n \in Nat \ {0} /\ Countable(p, n)
  BY <1>1, <1>2, EntryType
<1>4. LongTask(txt, wrote, item, old)
  BY <1>1 DEF TaskFits
<1>5. PICK parts \in Seq(Seq(Id)) : parts = old.parts /\ old.enlargements \in Nat
  BY <1>1 DEF Task
<1>6. Len(parts) = n
  BY <1>4, <1>5 DEF LongTask
<1>7. DOMAIN parts = 1 .. n
  BY <1>6
<1> QED
  BY <1>2, <1>3, <1>4, <1>5, <1>6, <1>7

\* One piece is encoded as its ids.
LEMMA OnePiece ==
    ASSUME NEW x, Ids(x) \in Seq(Id)
    PROVE  Sliced(Encoded(<<x>>))[1] = Ids(x) /\ Len(<<x>>) = 1
<1>1. PICK pieces : pieces = <<x>>
  BY Zenon
<1>2. pieces \in Seq({x}) /\ DOMAIN pieces = {1} /\ pieces[1] = x /\ Len(pieces) = 1
  BY <1>1
<1>3. Sliced(Encoded(pieces)) = [e \in DOMAIN pieces |-> Ids(pieces[e])]
  <2>1. \A e \in DOMAIN pieces : Ids(pieces[e]) \in Seq(Id)
    BY <1>2
  <2> QED
    BY <1>2, <2>1, SlicedEncoded
<1> QED
  BY <1>1, <1>2, <1>3

\* What a long task is once all its chunks are there.
AllJoined(txt, wrote, item, old, joined) ==
    LET p == item.pretokens[1] IN
    \E covered \in 1 .. txt[p], version \in {0, wrote} :
        /\ joined \in Task /\ joined.parts = Parts(p, txt[p], covered, version)
        /\ joined.enlargements = 0 => covered = 1 /\ version = 0
        /\ txt[p] + joined.enlargements = Counted(txt, item, old) + 1
        /\ old.state = "enlarging" => covered = old.spliced + 1
        /\ old.state = "encoding" => covered = 1

\* Only one request is posted for a task.
OnlyOne(r, txt, wrote, item, old) == \A s : RequestFits(txt, wrote, item, old, s) => s.part = r.part

\* The answer to a chunk.
ChunkJoined(old, r) == [old EXCEPT !.parts[r.part] = Sliced(Encoded(r.pieces))[1]]

\* A chunk that is not the last to be answered leaves the others as they are.
Collects(r, txt, wrote, item, old, joined) ==
    /\ GoodMove(r, txt, wrote, item, old, joined, Nothing)
    /\ Counted(txt, item, joined) = Counted(txt, item, old) + 1

\* The answer to an initial chunk completes the chunks of its pretoken, or others are lacking.
LEMMA ChunkMove ==
    ASSUME NEW r, NEW txt, NEW wrote, NEW item, NEW old, Asks(r, txt, wrote, item, old), r.part # 0, old.state = "encoding",
           NEW joined, joined = ChunkJoined(old, r)
    PROVE  /\ item.long /\ joined \in Task /\ Len(r.pieces) = 1
           /\ (\E k \in DOMAIN joined.parts : joined.parts[k] = <<>>) => Collects(r, txt, wrote, item, old, joined)
           /\ ~(\E k \in DOMAIN joined.parts : joined.parts[k] = <<>>) =>
                  AllJoined(txt, wrote, item, old, joined) /\ OnlyOne(r, txt, wrote, item, old)
<1>1. RequestFits(txt, wrote, item, old, r)
  BY DEF Asks
<1>2. item.long
  BY <1>1 DEF RequestFits
<1>3. PICK p, n, k : p = item.pretokens[1] /\ n = txt[p] /\ k = r.part
  OBVIOUS
<1>4. /\ p \in DOMAIN txt /\ n \in Nat \ {0} /\ Countable(p, n) /\ LongTask(txt, wrote, item, old)
      /\ old.parts \in Seq(Seq(Id)) /\ Len(old.parts) = n /\ DOMAIN old.parts = 1 .. n /\ old.enlargements \in Nat
  BY <1>2, <1>3, LongItem
<1>5. k \in 1 .. n /\ r.pieces = <<Piece(p, k, k, 0)>> /\ old.parts[k] = <<>>
  BY <1>1, <1>2, <1>3 DEF RequestFits
<1>6. PICK ids \in Seq(Id) : ids = Ids(Piece(p, k, k, 0)) /\ ids # <<>>
  <2>1. k \in k .. n
    BY <1>4, <1>5
  <2> QED
    BY <1>4, <1>5, <2>1, IdsType
<1>7. Sliced(Encoded(r.pieces))[1] = ids /\ Len(r.pieces) = 1
  BY <1>5, <1>6, OnePiece
<1>8. PICK was \in Seq(Seq(Id)), now \in Seq(Seq(Id)) : was = old.parts /\ now = [was EXCEPT ![k] = ids]
  <2>1. PICK Y : Y = Seq(Id)
    OBVIOUS
  <2>2. PICK was \in Seq(Y) : was = old.parts
    BY <1>4, <2>1
  <2>3. [was EXCEPT ![k] = ids] \in Seq(Y)
    <3>1. ids \in Y /\ k \in DOMAIN was
      BY <1>4, <1>5, <1>6, <2>1, <2>2
    <3> QED
      BY <3>1
  <2> QED
    BY <2>1, <2>2, <2>3, Zenon
<1>9. old \in Task
  BY DEF Asks
<1>10. /\ joined \in Task /\ joined.parts = now /\ joined.state = "encoding" /\ joined.enlargements = old.enlargements
       /\ joined.spliced = old.spliced
  <2>1. joined = [old EXCEPT !.parts = now]
    BY <1>3, <1>7, <1>8, <1>9 DEF Task, ChunkJoined
  <2> QED
    BY <1>8, <1>9, <2>1, Zenon DEF Task
<1>11. /\ DOMAIN was = 1 .. n /\ DOMAIN now = 1 .. n /\ Len(now) = n /\ now[k] = ids /\ was[k] = <<>>
       /\ \A l \in 1 .. n : l # k => now[l] = was[l]
  BY <1>4, <1>5, <1>8
<1>12. old.enlargements = 0 /\ \A l \in 1 .. n : was[l] \in {<<>>, Ids(Piece(p, l, l, 0))}
  BY <1>3, <1>4, <1>8, Zenon DEF LongTask
<1>13. PICK before : before = {l \in 1 .. n : was[l] # <<>>}
  BY Zenon
<1>14. {l \in 1 .. n : now[l] # <<>>} = before \union {k} /\ k \notin before
  BY <1>5, <1>6, <1>11, <1>13
<1>15. Cardinality(before) \in Nat /\ Cardinality(before \union {k}) = Cardinality(before) + 1
  <2>1. IsFiniteSet(1 .. n)
    <3>1. 1 \in Int /\ n \in Int
      BY <1>4
    <3> QED
      BY <3>1, FS_Interval
  <2>2. IsFiniteSet(before)
    BY <1>13, <2>1, FS_Subset, Zenon
  <2> QED
    BY <1>14, <2>2, FS_CardinalityType, FS_AddElement, Zenon
<1>16. Counted(txt, item, old) = Cardinality(before)
  <2>1. before = {l \in DOMAIN old.parts : old.parts[l] # <<>>}
    BY <1>8, <1>11, <1>13
  <2> QED
    BY <1>2, <2>1 DEF Counted
<1>17. ASSUME \E l \in DOMAIN joined.parts : joined.parts[l] = <<>>
       PROVE  Collects(r, txt, wrote, item, old, joined)
  <2>1. TaskFits(txt, wrote, item, joined)
    <3>1. \A l \in 1 .. n : now[l] \in {<<>>, Ids(Piece(p, l, l, 0))}
      BY <1>6, <1>11, <1>12
    <3>2. LongTask(txt, wrote, item, joined)
      BY <1>3, <1>10, <1>11, <1>12, <3>1 DEF LongTask
    <3> QED
      BY <1>2, <3>2 DEF TaskFits
  <2>2. ASSUME NEW s, s.part # r.part, RequestFits(txt, wrote, item, old, s) PROVE RequestFits(txt, wrote, item, joined, s)
    <3>1. s.part \in 1 .. n /\ s.pieces = <<Piece(p, s.part, s.part, 0)>> /\ was[s.part] = <<>>
      BY <1>2, <1>3, <1>8, <2>2 DEF RequestFits
    <3>2. now[s.part] = <<>>
      BY <1>3, <1>11, <2>2, <3>1
    <3> QED
      BY <1>2, <1>3, <1>10, <3>1, <3>2 DEF RequestFits
  <2>3. Lacks(item, joined) # {} /\ \A part \in Lacks(item, joined) : Unsettled(old) /\ part \in Lacks(item, old) /\ part # r.part
    <3>1. Lacks(item, joined) = {l \in 1 .. n : now[l] = <<>>} /\ Lacks(item, old) = {l \in 1 .. n : was[l] = <<>>}
      <4>1. Lacks(item, joined) = {l \in 1 .. n : now[l] = <<>>}
        BY <1>2, <1>10, <1>11 DEF Lacks
      <4>2. Lacks(item, old) = {l \in 1 .. n : was[l] = <<>>}
        BY <1>2, <1>8, <1>11 DEF Lacks
      <4> QED
        BY <4>1, <4>2
    <3>2. PICK l \in 1 .. n : now[l] = <<>>
      BY <1>10, <1>11, <1>17
    <3>3. Unsettled(old)
      BY DEF Unsettled
    <3>4. \A l2 \in 1 .. n : now[l2] = <<>> => was[l2] = <<>> /\ l2 # k
      BY <1>6, <1>11, Zenon
    <3> QED
      BY <1>3, <3>1, <3>2, <3>3, <3>4, Zenon
  <2>4. GoodMove(r, txt, wrote, item, old, joined, Nothing)
    <3>1. \A v \in Worker : Nothing[v] = <<>>
      BY DEF Nothing
    <3> QED
      BY <2>1, <2>2, <2>3, <3>1, NothingPosted DEF GoodMove
  <2>5. Counted(txt, item, joined) = Cardinality(before \union {k})
    <3>1. {l \in DOMAIN joined.parts : joined.parts[l] # <<>>} = before \union {k}
      BY <1>10, <1>11, <1>14
    <3> QED
      BY <1>2, <1>10, <3>1, Zenon DEF Counted
  <2> QED
    BY <1>15, <1>16, <2>4, <2>5 DEF Collects
<1>18. ASSUME ~(\E l \in DOMAIN joined.parts : joined.parts[l] = <<>>)
       PROVE  AllJoined(txt, wrote, item, old, joined) /\ OnlyOne(r, txt, wrote, item, old)
  <2>1. \A l \in 1 .. n : now[l] # <<>>
    BY <1>10, <1>11, <1>18, Zenon
  <2>2. \A l \in 1 .. n : now[l] = Ids(Piece(p, l, l, 0))
    <3>1. \A l \in 1 .. n : now[l] \in {<<>>, Ids(Piece(p, l, l, 0))}
      BY <1>6, <1>11, <1>12
    <3> QED
      BY <2>1, <3>1
  <2>3. now = Parts(p, n, 1, 0)
    <3>1. \A l \in 1 .. n : now[l] = IF l = 1 THEN Ids(Piece(p, 1, 1, 0)) ELSE IF l <= 1 THEN <<>> ELSE Ids(Piece(p, l, l, 0))
      BY <2>2
    <3>2. now = [l \in 1 .. n |-> now[l]]
      BY <1>11
    <3> QED
      BY <3>1, <3>2 DEF Parts
  <2>4. n = Cardinality(before) + 1
    <3>1. before \union {k} = 1 .. n
      BY <1>14, <2>1
    <3>2. Cardinality(1 .. n) = n
      <4>1. 1 \in Int /\ n \in Int /\ ~(1 > n) /\ n - 1 + 1 = n
        BY <1>4
      <4> QED
        BY <4>1, FS_Interval
    <3> QED
      BY <1>15, <3>1, <3>2, Zenon
  <2>5. AllJoined(txt, wrote, item, old, joined)
    <3>1. 1 \in 1 .. n /\ n + joined.enlargements = Counted(txt, item, old) + 1
      BY <1>4, <1>10, <1>12, <1>16, <2>4
    <3> QED
      BY <1>3, <1>10, <2>3, <3>1 DEF AllJoined
  <2>6. ASSUME NEW s, RequestFits(txt, wrote, item, old, s) PROVE s.part = r.part
    <3>1. s.part \in 1 .. n /\ was[s.part] = <<>>
      BY <1>2, <1>3, <1>8, <2>6 DEF RequestFits
    <3> QED
      BY <1>3, <1>11, <2>1, <3>1
  <2> QED
    BY <2>5, <2>6 DEF OnlyOne
<1> QED
  BY <1>2, <1>7, <1>10, <1>17, <1>18

\* An enlargement stands for the parts it covers.
Enlarged(old, r) ==
    [old EXCEPT !.enlargements = @ + 1,
                !.parts = [k \in DOMAIN @ |-> IF k = 1 THEN Sliced(Encoded(r.pieces))[1]
                                              ELSE IF k <= old.spliced + 1 THEN <<>> ELSE @[k]]]

\* Nothing else is posted for its task.
LEMMA EnlargementMove ==
    ASSUME NEW r, NEW txt, NEW wrote, NEW item, NEW old, Asks(r, txt, wrote, item, old), r.part = 0, old.state = "enlarging",
           NEW joined, joined = Enlarged(old, r)
    PROVE  /\ item.long /\ joined \in Task /\ Len(r.pieces) = 1 /\ Len(old.parts) = txt[item.pretokens[1]]
           /\ AllJoined(txt, wrote, item, old, joined) /\ OnlyOne(r, txt, wrote, item, old)
<1>1. RequestFits(txt, wrote, item, old, r) /\ wrote \in {0, 1}
  BY DEF Asks
<1>2. item.long
  <2>1. TaskFits(txt, wrote, item, old)
    BY DEF Asks
  <2> QED
    BY <2>1 DEF TaskFits, BatchTask
<1>3. PICK p, n : p = item.pretokens[1] /\ n = txt[p]
  OBVIOUS
<1>4. /\ p \in DOMAIN txt /\ n \in Nat \ {0} /\ Countable(p, n) /\ LongTask(txt, wrote, item, old)
      /\ old.parts \in Seq(Seq(Id)) /\ Len(old.parts) = n /\ DOMAIN old.parts = 1 .. n /\ old.enlargements \in Nat
  BY <1>2, <1>3, LongItem
<1>5. PICK m \in 1 .. n - 1, version \in {0, wrote} : r.pieces = <<Piece(p, 1, m + 1, version)>> /\ old.spliced = m
  <2>1. \A k \in 1 .. n : k # 0
    BY <1>4
  <2> QED
    BY <1>1, <1>2, <1>3, <2>1 DEF RequestFits
<1>6. PICK c \in Nat : c = m + 1 /\ c \in 1 .. n
  BY <1>4, <1>5
<1>7. PICK ids \in Seq(Id) : ids = Ids(Piece(p, 1, c, version))
  <2>1. 1 \in 1 .. n /\ c \in 1 .. n
    BY <1>4, <1>6
  <2>2. version \in {0, 1}
    BY <1>1, <1>5
  <2> QED
    BY <1>4, <2>1, <2>2, IdsType
<1>8. Sliced(Encoded(r.pieces))[1] = ids /\ Len(r.pieces) = 1
  BY <1>5, <1>6, <1>7, OnePiece
<1>9. PICK before \in 1 .. m, v \in {0, wrote} : old.parts = Parts(p, n, before, v)
  BY <1>3, <1>4, <1>5 DEF LongTask
<1>10. PICK now : now = [k \in 1 .. n |-> IF k = 1 THEN ids ELSE IF k <= c THEN <<>> ELSE old.parts[k]]
  BY Zenon
<1>11. now = Parts(p, n, c, version)
  <2>1. ASSUME NEW k \in 1 .. n, k # 1, ~(k <= c) PROVE old.parts[k] = Ids(Piece(p, k, k, 0))
    <3>1. ~(k <= before)
      BY <1>5, <1>6, <1>9, <2>1
    <3> QED
      BY <1>9, <2>1, <3>1 DEF Parts
  <2> QED
    BY <1>7, <1>10, <2>1 DEF Parts
<1>12. Parts(p, n, c, version) \in Seq(Seq(Id))
  <2>1. version \in {0, 1}
    BY <1>1, <1>5
  <2> QED
    BY <1>4, <1>6, <2>1, PartsErased
<1>13. old \in Task
  BY DEF Asks
<1>14. joined = [old EXCEPT !.enlargements = @ + 1, !.parts = now]
  <2>1. old.spliced + 1 = c
    BY <1>5, <1>6
  <2> QED
    BY <1>4, <1>8, <1>10, <2>1, Zenon DEF Enlarged
<1>15. /\ joined \in Task /\ joined.parts = Parts(p, n, c, version) /\ joined.enlargements = old.enlargements + 1
  <2>1. old.enlargements + 1 \in Nat
    BY <1>4
  <2> QED
    BY <1>11, <1>12, <1>13, <1>14, <2>1, Zenon DEF Task
<1>16. Counted(txt, item, old) = n + old.enlargements
  BY <1>2, <1>3 DEF Counted
<1>17. n + joined.enlargements = Counted(txt, item, old) + 1 /\ joined.enlargements # 0
  <2>1. PICK x \in Nat, y \in Nat : x = n /\ y = old.enlargements
    BY <1>4
  <2>2. x + (y + 1) = (x + y) + 1 /\ y + 1 # 0
    BY <2>1
  <2> QED
    BY <1>15, <1>16, <2>1, <2>2
<1>18. AllJoined(txt, wrote, item, old, joined)
  BY <1>3, <1>5, <1>6, <1>15, <1>17 DEF AllJoined
<1>19. OnlyOne(r, txt, wrote, item, old)
  BY <1>2 DEF RequestFits, OnlyOne
<1> QED
  BY <1>2, <1>3, <1>4, <1>8, <1>15, <1>18, <1>19

\* What the reconciler does after it joined m of n parts: nothing, or it asks for the range of
\* these and the next one, or cannot, because the next worker has failed.
Advanced(r, txt, wrote, item, joined, m, new, more) ==
    LET p == item.pretokens[1]
        n == txt[p]
    IN
    \/ m = n /\ new = [joined EXCEPT !.state = "done", !.spliced = m] /\ more = Nothing
    \/ m # n /\ new = [joined EXCEPT !.state = "failed", !.spliced = m] /\ more = Nothing
    \/ /\ m # n /\ new = [joined EXCEPT !.state = "enlarging", !.spliced = m]
       /\ \E u \in Worker :
              /\ ~failure[u]
              /\ more = [Nothing EXCEPT ![u] = <<[call |-> r.call, item |-> r.item, part |-> 0,
                                                  pieces |-> <<Piece(p, 1, m + 1, wrote)>>]>>]

\* The reconciler may join m parts.
Ready(r, txt, wrote, item, old, joined, m) ==
    /\ Asks(r, txt, wrote, item, old) /\ item.long /\ Unsettled(old) /\ OnlyOne(r, txt, wrote, item, old)
    /\ Len(r.pieces) = 1 /\ AllJoined(txt, wrote, item, old, joined)
    /\ m \in 1 .. txt[item.pretokens[1]] /\ (old.state = "enlarging" => m > old.spliced)

\* As many parts as chunks.
LEMMA JoinedLength ==
    ASSUME NEW r, NEW txt, NEW wrote, NEW item, NEW old, NEW joined, NEW m, Ready(r, txt, wrote, item, old, joined, m)
    PROVE  Len(joined.parts) = txt[item.pretokens[1]] /\ txt[item.pretokens[1]] \in Nat \ {0}
<1>1. PICK p : p = item.pretokens[1]
  OBVIOUS
<1>2. PICK n \in Nat \ {0} : n = txt[p]
  <2>1. Asks(r, txt, wrote, item, old) /\ item.long
    BY DEF Ready
  <2> QED
    BY <1>1, <2>1, LongItem
<1>3. AllJoined(txt, wrote, item, old, joined)
  BY DEF Ready
<1>4. PICK covered \in 1 .. n, version \in {0, wrote} : joined.parts = Parts(p, n, covered, version)
  BY <1>1, <1>2, <1>3 DEF AllJoined
<1>5. Len(Parts(p, n, covered, version)) = n
  BY <1>2 DEF Parts
<1> QED
  BY <1>1, <1>2, <1>4, <1>5

\* Then its task is done, or fails, or what it lacks is posted.
LEMMA AdvanceMove ==
    ASSUME NEW r, NEW txt, NEW wrote, NEW item, NEW old, NEW joined, NEW m, Ready(r, txt, wrote, item, old, joined, m),
           NEW more, NEW new, Advanced(r, txt, wrote, item, joined, m, new, more)
    PROVE  /\ new \in Task /\ GoodMove(r, txt, wrote, item, old, new, more)
           /\ Counted(txt, item, new) = Counted(txt, item, old) + 1
<1>0. /\ Asks(r, txt, wrote, item, old) /\ item.long /\ Unsettled(old) /\ OnlyOne(r, txt, wrote, item, old)
      /\ Len(r.pieces) = 1 /\ AllJoined(txt, wrote, item, old, joined)
      /\ m \in 1 .. txt[item.pretokens[1]] /\ (old.state = "enlarging" => m > old.spliced)
  BY DEF Ready
<1>1. PICK p, n : p = item.pretokens[1] /\ n = txt[p]
  OBVIOUS
<1>2. /\ p \in DOMAIN txt /\ n \in Nat \ {0} /\ Countable(p, n) /\ LongTask(txt, wrote, item, old)
      /\ old.parts \in Seq(Seq(Id)) /\ Len(old.parts) = n /\ DOMAIN old.parts = 1 .. n /\ old.enlargements \in Nat
  BY <1>0, <1>1, LongItem
<1>3. PICK covered \in 1 .. n, version \in {0, wrote} :
          /\ joined \in Task /\ joined.parts = Parts(p, n, covered, version)
          /\ joined.enlargements = 0 => covered = 1 /\ version = 0
          /\ n + joined.enlargements = Counted(txt, item, old) + 1
          /\ old.state = "enlarging" => covered = old.spliced + 1
          /\ old.state = "encoding" => covered = 1
  BY <1>0, <1>1 DEF AllJoined
<1>4. covered \in 1 .. m /\ m \in Nat /\ m \in 1 .. n
  <2>1. CASE old.state = "enlarging"
    <3>1. old.spliced \in 1 .. n - 1
      BY <1>1, <1>2, <2>1 DEF LongTask
    <3> QED
      BY <1>0, <1>1, <1>2, <1>3, <2>1, <3>1
  <2>2. CASE old.state = "encoding"
    BY <1>0, <1>1, <1>2, <1>3, <2>2
  <2> QED
    BY <1>0, <2>1, <2>2 DEF Unsettled
<1>5. /\ new \in Task /\ new.parts = joined.parts /\ new.enlargements = joined.enlargements /\ new.spliced = m
      /\ new.state \in {"done", "failed", "enlarging"}
      /\ new.state = "done" => m = n
      /\ new.state = "enlarging" => m # n
  <2>1. joined \in Task /\ m \in Nat
    BY <1>3, <1>4
  <2>2. PICK state \in {"done", "failed", "enlarging"} :
            new = [joined EXCEPT !.state = state, !.spliced = m] /\ (state = "done" => m = n) /\ (state = "enlarging" => m # n)
    BY <1>1 DEF Advanced
  <2>3. new \in Task /\ new.parts = joined.parts /\ new.enlargements = joined.enlargements /\ new.spliced = m /\ new.state = state
    BY <2>1, <2>2, Zenon DEF Task
  <2> QED
    BY <2>2, <2>3
<1>6. Len(new.parts) = n
  <2>1. Len(Parts(p, n, covered, version)) = n
    BY <1>2 DEF Parts
  <2> QED
    BY <1>3, <1>5, <2>1
<1>7. TaskFits(txt, wrote, item, new)
  <2>1. new.state = "enlarging" => m \in 1 .. n - 1
    BY <1>2, <1>4, <1>5
  <2>2. \E c \in 1 .. new.spliced, v \in {0, wrote} :
            new.parts = Parts(p, n, c, v) /\ (new.enlargements = 0 => c = 1 /\ v = 0)
    BY <1>3, <1>4, <1>5
  <2>3. LongTask(txt, wrote, item, new)
    BY <1>1, <1>5, <1>6, <2>1, <2>2 DEF LongTask
  <2> QED
    BY <1>0, <2>3 DEF TaskFits
<1>8. Counted(txt, item, new) = Counted(txt, item, old) + 1
  BY <1>0, <1>1, <1>3, <1>5 DEF Counted
<1>9. GoodMove(r, txt, wrote, item, old, new, more)
  <2>1. CASE new.state # "enlarging" /\ more = Nothing
    <3>1. ~Unsettled(new)
      BY <1>5, <2>1 DEF Unsettled
    <3>2. \A v \in Worker : more[v] = <<>>
      BY <2>1 DEF Nothing
    <3> QED
      BY <1>7, <2>1, <3>1, <3>2, NothingPosted, <1>0 DEF GoodMove, OnlyOne
  <2>2. CASE new.state = "enlarging"
    <3>1. PICK next : next = [call |-> r.call, item |-> r.item, part |-> 0, pieces |-> <<Piece(p, 1, m + 1, wrote)>>]
      BY Zenon
    <3>2. PICK u \in Worker : ~failure[u] /\ more = [Nothing EXCEPT ![u] = <<next>>]
      <4>1. new # [joined EXCEPT !.state = "done", !.spliced = m] /\ new # [joined EXCEPT !.state = "failed", !.spliced = m]
        BY <1>3, <2>2, Zenon DEF Task
      <4> QED
        BY <1>1, <3>1, <4>1 DEF Advanced
    <3>3. next \in Request
      <4>1. r.call \in Call /\ r.item \in Nat /\ wrote \in {0, 1} /\ p \in Nat /\ m + 1 \in Nat
        <5>1. r \in Request /\ wrote \in {0, 1}
          BY <1>0 DEF Asks
        <5>2. p \in Nat /\ m + 1 \in Nat
          BY <1>2, <1>4 DEF Countable
        <5> QED
          BY <5>1, <5>2 DEF Request
      <4>2. Piece(p, 1, m + 1, wrote) \in [pretoken: Nat, first: Nat, last: Nat, version: {0, 1}]
        BY <4>1 DEF Piece
      <4>3. <<Piece(p, 1, m + 1, wrote)>> \in Seq([pretoken: Nat, first: Nat, last: Nat, version: {0, 1}])
        BY <4>2
      <4> QED
        BY <3>1, <4>1, <4>3 DEF Request
    <3>4. /\ more \in Queues /\ Distinct(more) /\ \A x : In(more, x) <=> x = next
          /\ \A v \in Worker : v # u => more[v] = <<>>
      <4>1. PICK t : t = [Nothing EXCEPT ![u] = <<next>>]
        BY Zenon
      <4>2. t \in Queues /\ Distinct(t)
        BY <3>3, <4>1, OnePosted, Zenon
      <4>3. \A x : In(t, x) <=> x = next
        BY <3>3, <4>1, OnePosted, Zenon
      <4>4. \A v \in Worker : v # u => t[v] = <<>>
        BY <4>1 DEF Nothing
      <4>5. t = more
        BY <3>2, <4>1
      <4> QED
        BY <4>2, <4>3, <4>4, <4>5
    <3>5. m \in 1 .. n - 1
      BY <1>2, <1>4, <1>5, <2>2
    <3>6. RequestFits(txt, wrote, item, new, next) /\ next.call = r.call /\ next.item = r.item /\ next.part = 0
      <4>1. next.part = 0 /\ next.pieces = <<Piece(p, 1, m + 1, wrote)>> /\ next.call = r.call /\ next.item = r.item
        BY <3>1
      <4> QED
        BY <1>1, <1>5, <2>2, <3>5, <4>1, <1>0 DEF RequestFits
    <3>7. Lacks(item, new) = {0}
      BY <1>0, <2>2 DEF Lacks
    <3>8. \A v \in Worker : failure[v] => more[v] = <<>>
      BY <3>2, <3>4
    <3> QED
      BY <1>7, <3>4, <3>6, <3>7, <3>8, <1>0 DEF GoodMove, OnlyOne
  <2> QED
    <3>1. CASE more # Nothing
      <4>1. new = [joined EXCEPT !.state = "enlarging", !.spliced = m]
        BY <3>1 DEF Advanced
      <4> QED
        BY <1>3, <2>2, <4>1 DEF Task
    <3> QED
      BY <2>1, <2>2, <3>1
<1> QED
  BY <1>5, <1>8, <1>9

(***************************************************************************)
(* A thread's message keeps the invariant                                  *)
(***************************************************************************)
\* The request that a message answers is for a task that lacks it, or that has failed.
LEMMA Delivered ==
    ASSUME IInv, NEW w \in Worker, queue[w] # <<>>, NEW r, r = Head(queue[w])
    PROVE  /\ Asks(r, text[r.call], written[r.call], Items(text[r.call])[r.item], TaskOf(r))
           /\ r.call \in Call /\ r.item \in DOMAIN tasks[r.call] /\ Len(r.pieces) \in Nat
<1>1. Types /\ Work
  BY DEF IInv
<1>2. queue \in Queues
  BY <1>1 DEF Types, Queues
<1>3. PICK q \in Seq(Request) : q = queue[w] /\ q # <<>>
  BY <1>2 DEF Queues
<1>4. r = queue[w][1] /\ 1 \in DOMAIN queue[w]
  BY <1>3
<1>5. In(queue, r)
  BY <1>4 DEF In
<1>6. r \in Request /\ r.call \in Call
  BY <1>2, <1>5, InType
<1>7. Fitting(text, written, tasks, r)
  BY <1>1, <1>5, QueueParts DEF Work, AllFit
<1>8. PICK c, i, txt, item, task : c = r.call /\ i = r.item /\ txt = text[c] /\ item = Items(txt)[i] /\ task = tasks[c][i]
  OBVIOUS
<1>9. c \in Call /\ i \in DOMAIN tasks[c] /\ RequestFits(txt, written[c], item, task, r)
  BY <1>6, <1>7, <1>8 DEF Fitting
<1>10. Good(txt) /\ written[c] \in {0, 1}
  BY <1>1, <1>8, <1>9 DEF Types
<1>11. i \in DOMAIN Items(txt) /\ TaskFits(txt, written[c], item, task)
  BY <1>1, <1>8, <1>9 DEF Work, TasksFit
<1>12. ItemFits(txt, item)
  BY <1>8, <1>10, <1>11, ItemsFacts DEF ItemsGood
<1>13. task \in Task
  <2>1. PICK u \in Seq(Task) : u = tasks[c]
    BY <1>1, <1>9 DEF Types
  <2>2. i \in DOMAIN u
    BY <1>9, <2>1
  <2>3. u[i] \in Task
    BY <2>2
  <2> QED
    BY <1>8, <2>1, <2>3
<1>14. Len(r.pieces) \in Nat
  <2>1. PICK q2 : q2 = r.pieces /\ q2 \in Seq([pretoken: Nat, first: Nat, last: Nat, version: {0, 1}])
    BY <1>6 DEF Request
  <2> QED
    BY <2>1
<1> QED
  BY <1>6, <1>8, <1>9, <1>10, <1>11, <1>12, <1>13, <1>14, Zenon DEF Asks, TaskOf

\* A worker of the round robin.
LEMMA LaterType ==
    ASSUME nextWorker \in Worker, NEW n \in Nat
    PROVE  Later(n) \in Worker
<1>1. PICK count \in Nat \ {0} : count = WorkerCount
  BY PoolAssumption
<1>2. nextWorker + n \in Nat
  BY <1>1 DEF Worker
<1>3. (nextWorker + n) % count \in 0 .. count - 1
  BY <1>1, <1>2
<1> QED
  BY <1>1, <1>3 DEF Later, Worker

\* Conclude says what the tasks are.
LEMMA ConcludeTasks ==
    ASSUME NEW A, NEW after, Conclude(A, after)
    PROVE  tasks' = after
BY Zenon DEF Conclude

\* An answer that moves its task on well keeps the invariant.
LEMMA AnsweredInv ==
    ASSUME IInv, NEW w \in Worker, queue[w] # <<>>, NEW new \in Task, NEW more, Answered(w, more),
           NEW r, r = Head(queue[w]), Conclude(Awaiting, WithTask(r, new)), nextWorker' \in Worker,
           GoodMove(r, text[r.call], written[r.call], Items(text[r.call])[r.item], TaskOf(r), new, more),
           \/ new.state = "failed"
           \/ /\ Counted(text[r.call], Items(text[r.call])[r.item], new) =
                     Counted(text[r.call], Items(text[r.call])[r.item], TaskOf(r)) + Len(r.pieces)
              /\ Len(r.pieces) \in Nat \ {0}
    PROVE  IInv'
<1>1. /\ queue' = [v \in Worker |-> (IF v = w THEN Tail(queue[v]) ELSE queue[v]) \o more[v]]
      /\ poolTasks' = poolTasks + Len(r.pieces) /\ active' = active \union {w}
      /\ chunking' = chunking /\ text' = text /\ written' = written /\ alone' = alone /\ failure' = failure /\ closed' = closed
  BY DEF Answered
<1>2. tasks' = WithTask(r, new)
  BY ConcludeTasks
<1>3. Moved(w, new, more)
  BY <1>1, <1>2 DEF Moved
<1>4. Conclude(Awaiting, tasks')
  BY <1>2
<1>5. CountMove(r, text[r.call], Items(text[r.call])[r.item], TaskOf(r), new)
  BY <1>1 DEF CountMove
<1>6. poolTasks' \in Nat /\ active' \in SUBSET Worker
  <2>1. Len(r.pieces) \in Nat
    BY Delivered
  <2>2. poolTasks \in Nat /\ active \in SUBSET Worker
    BY DEF IInv, Types
  <2>3. PICK a \in Nat, b \in Nat : a = poolTasks /\ b = Len(r.pieces)
    BY <2>1, <2>2
  <2>4. a + b \in Nat
    BY NatSum, Zenon
  <2>5. poolTasks' \in Nat
    BY <1>1, <2>3, <2>4
  <2> QED
    BY <1>1, <2>2, <2>5
<1> QED
  BY <1>1, <1>3, <1>4, <1>5, <1>6, MovedInv, Zenon

\* A batch's answer keeps the invariant.
LEMMA BatchAnsweredInv ==
    ASSUME IInv, NEW w \in Worker, queue[w] # <<>>, BatchAnswered(w, Head(queue[w]))
    PROVE  IInv'
<1>1. PICK r, txt, wrote, item, old :
          /\ r = Head(queue[w]) /\ txt = text[r.call] /\ wrote = written[r.call] /\ item = Items(txt)[r.item]
          /\ old = TaskOf(r)
  OBVIOUS
<1>2. PICK new : new = BatchDone(old, r)
  OBVIOUS
<1>3. /\ r.part = 0 /\ old.state = "encoding" /\ Answered(w, Nothing) /\ nextWorker' = nextWorker
      /\ Conclude(Awaiting, WithTask(r, new))
  BY <1>1, <1>2 DEF BatchAnswered, BatchDone
<1>4. Asks(r, txt, wrote, item, old)
  BY <1>1, Delivered
<1>5. /\ new \in Task /\ GoodMove(r, txt, wrote, item, old, new, Nothing)
      /\ Counted(txt, item, new) = Counted(txt, item, old) + Len(r.pieces) /\ Len(r.pieces) \in Nat \ {0}
  BY <1>2, <1>3, <1>4, BatchMove
<1>6. nextWorker' \in Worker
  BY <1>3 DEF IInv, Types
<1> QED
  BY <1>1, <1>3, <1>5, <1>6, AnsweredInv

\* A worker's oldest request, and what it is about.
About(w, r, txt, wrote, item, old) ==
    /\ r = Head(queue[w]) /\ txt = text[r.call] /\ wrote = written[r.call] /\ item = Items(txt)[r.item]
    /\ old = TaskOf(r)

\* The reconciler's next step keeps the invariant, whether it is done, asks for an
\* enlargement, or the worker it would ask has failed.
LEMMA AdvanceInv ==
    ASSUME IInv, NEW w \in Worker, queue[w] # <<>>, NEW r, NEW txt, NEW wrote, NEW item, NEW old,
           About(w, r, txt, wrote, item, old), NEW joined, NEW m, Ready(r, txt, wrote, item, old, joined, m),
           Advance(w, r, joined, m)
    PROVE  IInv'
<1>1. PICK p, n : p = item.pretokens[1] /\ n = txt[p]
  OBVIOUS
<1>4. Len(joined.parts) = n
  <2>1. Len(joined.parts) = txt[item.pretokens[1]] /\ txt[item.pretokens[1]] \in Nat \ {0}
    BY JoinedLength
  <2> QED
    BY <1>1, <2>1
<1>5. PICK next : next = [call |-> r.call, item |-> r.item, part |-> 0, pieces |-> <<Piece(p, 1, m + 1, wrote)>>]
  BY Zenon
<1>6. \/ /\ m = n /\ Answered(w, Nothing) /\ nextWorker' = nextWorker
         /\ Conclude(Awaiting, WithTask(r, [joined EXCEPT !.state = "done", !.spliced = m]))
      \/ /\ m # n /\ nextWorker' = Later(1)
         /\ Answered(w, IF failure[nextWorker] THEN Nothing ELSE [Nothing EXCEPT ![nextWorker] = <<next>>])
         /\ Conclude(Awaiting, WithTask(r, [joined EXCEPT !.state = IF failure[nextWorker] THEN "failed" ELSE "enlarging",
                                                          !.spliced = m]))
  BY <1>1, <1>4, <1>5, Zenon DEF Advance, About
<1>7. nextWorker \in Worker /\ nextWorker' \in Worker
  <2>1. nextWorker \in Worker /\ Later(1) \in Worker
    BY LaterType DEF IInv, Types
  <2> QED
    BY <1>6, <2>1
<1>8. PICK more, new :
          /\ Answered(w, more) /\ Conclude(Awaiting, WithTask(r, new))
          /\ Advanced(r, txt, wrote, item, joined, m, new, more)
  <2>1. CASE m = n
    BY <1>1, <1>6, <2>1 DEF Advanced
  <2>2. CASE m # n /\ failure[nextWorker]
    BY <1>1, <1>6, <2>2 DEF Advanced
  <2>3. CASE m # n /\ ~failure[nextWorker]
    <3>1. PICK more : more = [Nothing EXCEPT ![nextWorker] = <<next>>]
      BY Zenon
    <3>2. PICK new : new = [joined EXCEPT !.state = "enlarging", !.spliced = m]
      OBVIOUS
    <3>3. Answered(w, more) /\ Conclude(Awaiting, WithTask(r, new))
      BY <1>6, <2>3, <3>1, <3>2
    <3>4. Advanced(r, txt, wrote, item, joined, m, new, more)
      BY <1>1, <1>5, <1>7, <2>3, <3>1, <3>2, Zenon DEF Advanced
    <3> QED
      BY <3>3, <3>4
  <2> QED
    BY <2>1, <2>2, <2>3
<1>9. /\ new \in Task /\ GoodMove(r, txt, wrote, item, old, new, more)
      /\ Counted(txt, item, new) = Counted(txt, item, old) + 1
  BY <1>8, AdvanceMove
<1>10. Counted(txt, item, new) = Counted(txt, item, old) + Len(r.pieces) /\ Len(r.pieces) \in Nat \ {0}
  <2>1. Len(r.pieces) = 1
    BY DEF Ready
  <2> QED
    BY <1>9, <2>1
<1> QED
  BY <1>7, <1>8, <1>9, <1>10, AnsweredInv, Zenon DEF About

\* An initial chunk's answer keeps the invariant.
LEMMA ChunkAnsweredInv ==
    ASSUME IInv, NEW w \in Worker, queue[w] # <<>>, ChunkAnswered(w, Head(queue[w]))
    PROVE  IInv'
<1>1. PICK r, txt, wrote, item, old :
          /\ r = Head(queue[w]) /\ txt = text[r.call] /\ wrote = written[r.call] /\ item = Items(txt)[r.item]
          /\ old = TaskOf(r)
  OBVIOUS
<1>2. PICK joined : joined = ChunkJoined(old, r)
  OBVIOUS
<1>3. /\ r.part # 0 /\ old.state = "encoding"
      /\ IF \E k \in DOMAIN joined.parts : joined.parts[k] = <<>>
         THEN Answered(w, Nothing) /\ nextWorker' = nextWorker /\ Conclude(Awaiting, WithTask(r, joined))
         ELSE \E m \in DOMAIN joined.parts : Advance(w, r, joined, m)
  BY <1>1, <1>2 DEF ChunkAnswered, ChunkJoined
<1>4. Asks(r, txt, wrote, item, old)
  BY <1>1, Delivered
<1>5. /\ item.long /\ joined \in Task /\ Len(r.pieces) = 1
      /\ (\E k \in DOMAIN joined.parts : joined.parts[k] = <<>>) => Collects(r, txt, wrote, item, old, joined)
      /\ ~(\E k \in DOMAIN joined.parts : joined.parts[k] = <<>>) =>
             AllJoined(txt, wrote, item, old, joined) /\ OnlyOne(r, txt, wrote, item, old)
  BY <1>2, <1>3, <1>4, ChunkMove
<1>6. CASE \E k \in DOMAIN joined.parts : joined.parts[k] = <<>>
  <2>1. /\ GoodMove(r, txt, wrote, item, old, joined, Nothing) /\ Answered(w, Nothing) /\ nextWorker' = nextWorker
        /\ Conclude(Awaiting, WithTask(r, joined))
        /\ Counted(txt, item, joined) = Counted(txt, item, old) + Len(r.pieces) /\ Len(r.pieces) \in Nat \ {0}
    BY <1>3, <1>5, <1>6 DEF Collects
  <2>2. nextWorker' \in Worker
    BY <2>1 DEF IInv, Types
  <2> QED
    BY <1>1, <1>5, <2>1, <2>2, AnsweredInv
<1>7. CASE ~(\E k \in DOMAIN joined.parts : joined.parts[k] = <<>>)
  <2>1. PICK m \in DOMAIN joined.parts : Advance(w, r, joined, m)
    BY <1>3, <1>7
  <2>2. AllJoined(txt, wrote, item, old, joined) /\ OnlyOne(r, txt, wrote, item, old)
    BY <1>5, <1>7
  <2>3. m \in 1 .. txt[item.pretokens[1]]
    BY <2>1, <2>2 DEF AllJoined, Parts
  <2>4. Unsettled(old) /\ old.state # "enlarging"
    BY <1>3 DEF Unsettled
  <2> QED
    <3>1. Ready(r, txt, wrote, item, old, joined, m)
      BY <1>4, <1>5, <2>2, <2>3, <2>4 DEF Ready
    <3> QED
      BY <1>1, <2>1, <3>1, AdvanceInv DEF About
<1> QED
  BY <1>6, <1>7

\* An enlargement's answer keeps the invariant.
LEMMA EnlargementAnsweredInv ==
    ASSUME IInv, NEW w \in Worker, queue[w] # <<>>, EnlargementAnswered(w, Head(queue[w]))
    PROVE  IInv'
<1>1. PICK r, txt, wrote, item, old :
          /\ r = Head(queue[w]) /\ txt = text[r.call] /\ wrote = written[r.call] /\ item = Items(txt)[r.item]
          /\ old = TaskOf(r)
  OBVIOUS
<1>2. PICK joined : joined = Enlarged(old, r)
  OBVIOUS
<1>3. /\ r.part = 0 /\ old.state = "enlarging"
      /\ \E m \in old.spliced + 1 .. Len(old.parts) : Advance(w, r, joined, m)
  BY <1>1, <1>2, Zenon DEF EnlargementAnswered, Enlarged
<1>4. Asks(r, txt, wrote, item, old)
  BY <1>1, Delivered
<1>5. /\ item.long /\ joined \in Task /\ Len(r.pieces) = 1 /\ Len(old.parts) = txt[item.pretokens[1]]
      /\ AllJoined(txt, wrote, item, old, joined) /\ OnlyOne(r, txt, wrote, item, old)
  BY <1>2, <1>3, <1>4, EnlargementMove
<1>6. PICK m \in old.spliced + 1 .. Len(old.parts) : Advance(w, r, joined, m)
  BY <1>3
<1>7. PICK n \in Nat, spliced \in Nat : n = txt[item.pretokens[1]] /\ spliced = old.spliced
  <2>1. txt[item.pretokens[1]] \in Nat
    BY <1>4, <1>5, LongItem
  <2>2. old.spliced \in Nat
    BY <1>4 DEF Asks, Task
  <2> QED
    BY <2>1, <2>2
<1>8. m \in 1 .. n /\ m > spliced
  BY <1>5, <1>6, <1>7
<1>9. Unsettled(old)
  BY <1>3 DEF Unsettled
<1> QED
  <2>1. Ready(r, txt, wrote, item, old, joined, m)
    BY <1>4, <1>5, <1>7, <1>8, <1>9 DEF Ready
  <2> QED
    BY <1>1, <1>6, <2>1, AdvanceInv DEF About

\* An answer that nobody waits for keeps the invariant.
LEMMA LateAnswerInv ==
    ASSUME IInv, NEW w \in Worker, queue[w] # <<>>, LateAnswer(w, Head(queue[w]))
    PROVE  IInv'
<1>1. PICK r, txt, wrote, item, old : About(w, r, txt, wrote, item, old)
  BY DEF About
<1>2. /\ ~Unsettled(old) /\ Answered(w, Nothing) /\ nextWorker' = nextWorker /\ Conclude(Awaiting, tasks)
  BY <1>1 DEF LateAnswer, About
<1>3. Asks(r, txt, wrote, item, old) /\ r.call \in Call /\ r.item \in DOMAIN tasks[r.call]
  BY <1>1, Delivered DEF About
<1>4. old \in Task /\ GoodMove(r, txt, wrote, item, old, old, Nothing)
  <2>1. old = IF Unsettled(old) THEN Failed(old) ELSE old
    BY <1>2
  <2> QED
    BY <1>3, <2>1, FailedMove
<1>5. old.state = "failed"
  <2>1. old.state # "done"
    BY <1>3, RequestedNotDone DEF Asks
  <2> QED
    BY <1>2, <1>4, <2>1 DEF Unsettled, Task
<1>6. tasks = WithTask(r, old)
  <2>1. PICK ts \in [Call -> Seq(Task)] : ts = tasks
    BY DEF IInv, Types
  <2>2. PICK s \in Seq(Task) : s = ts[r.call]
    BY <1>3, <2>1
  <2>3. [s EXCEPT ![r.item] = s[r.item]] = s
    BY <1>3, <2>1, <2>2
  <2>4. [ts EXCEPT ![r.call] = s] = ts
    BY <1>3, <2>1, <2>2
  <2>5. old = s[r.item]
    BY <1>1, <2>1, <2>2 DEF About, TaskOf
  <2> QED
    BY <2>1, <2>2, <2>3, <2>4, <2>5 DEF WithTask
<1>7. nextWorker' \in Worker
  BY <1>2 DEF IInv, Types
<1>8. Conclude(Awaiting, WithTask(r, old))
  BY <1>2, <1>6
<1> QED
  BY <1>1, <1>2, <1>4, <1>5, <1>7, <1>8, AnsweredInv DEF About

\* A thread that throws keeps the invariant.
LEMMA RefusedInv ==
    ASSUME IInv, NEW w \in Worker, queue[w] # <<>>, Refused(w, Head(queue[w]))
    PROVE  IInv'
<1>1. PICK r, txt, wrote, item, old : About(w, r, txt, wrote, item, old)
  BY DEF About
<1>2. PICK new : new = IF Unsettled(old) THEN Failed(old) ELSE old
  OBVIOUS
<1>3. /\ queue' = [queue EXCEPT ![w] = Tail(@)] /\ Conclude(Awaiting, WithTask(r, new))
      /\ UNCHANGED <<chunking, text, written, alone, failure, nextWorker, poolTasks, active, closed>>
  BY <1>1, <1>2 DEF Refused, About
<1>4. Asks(r, txt, wrote, item, old)
  BY <1>1, Delivered DEF About
<1>5. new \in Task /\ GoodMove(r, txt, wrote, item, old, new, Nothing) /\ CountMove(r, txt, item, old, new)
  BY <1>2, <1>4, FailedMove
<1>6. queue' = [v \in Worker |-> (IF v = w THEN Tail(queue[v]) ELSE queue[v]) \o Nothing[v]]
  <2>1. PICK q \in Queues : q = queue
    BY DEF IInv, Types, Queues
  <2>2. \A v \in Worker : Nothing[v] = <<>>
    BY DEF Nothing
  <2>3. ASSUME NEW s \in Seq(Request) PROVE s \o <<>> = s
    OBVIOUS
  <2>4. \A v \in Worker : (IF v = w THEN Tail(q[v]) ELSE q[v]) \in Seq(Request)
    <3>1. Tail(q[w]) \in Seq(Request)
      BY <2>1 DEF Queues
    <3> QED
      BY <2>1, <3>1 DEF Queues
  <2>5. \A v \in Worker : (IF v = w THEN Tail(q[v]) ELSE q[v]) \o Nothing[v] = IF v = w THEN Tail(q[v]) ELSE q[v]
    BY <2>2, <2>3, <2>4, Zenon
  <2>6. queue' = [v \in Worker |-> IF v = w THEN Tail(q[v]) ELSE q[v]]
    BY <1>3, <2>1, Zenon DEF Queues
  <2> QED
    BY <2>1, <2>5, <2>6, Zenon
<1>7. tasks' = WithTask(r, new)
  BY <1>3, ConcludeTasks
<1>8. Moved(w, new, Nothing)
  BY <1>1, <1>3, <1>6, <1>7, Zenon DEF Moved, About
<1>9. Conclude(Awaiting, tasks')
  BY <1>3, <1>7
<1>10. nextWorker' \in Worker /\ poolTasks' \in Nat /\ active' \in SUBSET Worker /\ chunking' = chunking /\ alone' = alone
  BY <1>3 DEF IInv, Types
<1> QED
  BY <1>1, <1>5, <1>8, <1>9, <1>10, MovedInv DEF About

\* Whatever a thread answers.
LEMMA DeliverInv ==
    ASSUME IInv, NEW w \in Worker, Deliver(w)
    PROVE  IInv'
BY BatchAnsweredInv, ChunkAnsweredInv, EnlargementAnsweredInv, LateAnswerInv, RefusedInv DEF Deliver

(***************************************************************************)
(* A client's write and a refused encode keep the invariant                *)
(***************************************************************************)
\* What fits an array nobody wrote to fits it afterwards.
LEMMA FitsWritten ==
    ASSUME NEW txt, NEW item, NEW task, NEW wrote \in {0, 1}
    PROVE  /\ TaskFits(txt, wrote, item, task) /\ wrote = 0 => TaskFits(txt, 1, item, task)
           /\ \A r : RequestFits(txt, wrote, item, task, r) /\ wrote = 0 => RequestFits(txt, 1, item, task, r)
<1>1. TaskFits(txt, wrote, item, task) /\ wrote = 0 => TaskFits(txt, 1, item, task)
  BY DEF TaskFits, LongTask
<1>2. \A r : RequestFits(txt, wrote, item, task, r) /\ wrote = 0 => RequestFits(txt, 1, item, task, r)
  BY DEF RequestFits
<1> QED
  BY <1>1, <1>2

\* A client's write to its array keeps the invariant.
LEMMA ClientWritesInv ==
    ASSUME IInv, NEW c \in Call, ClientWrites(c)
    PROVE  IInv'
<1>1. /\ phase[c] = "awaiting" /\ written[c] = 0 /\ written' = [written EXCEPT ![c] = 1]
      /\ chunking' = chunking /\ text' = text /\ phase' = phase /\ tasks' = tasks /\ route' = route /\ answer' = answer
      /\ telemetry' = telemetry /\ alone' = alone /\ queue' = queue /\ failure' = failure /\ nextWorker' = nextWorker
      /\ poolTasks' = poolTasks /\ active' = active /\ closed' = closed
  BY DEF ClientWrites, pool
<1>2. Types /\ Work /\ Telemetry
  BY DEF IInv
<1>3. written \in [Call -> {0, 1}] /\ written'[c] = 1 /\ \A d \in Call : d # c => written'[d] = written[d]
  BY <1>1, <1>2 DEF Types
<1>4. written' \in [Call -> {0, 1}]
  BY <1>1, <1>3
<1>5. Types'
  BY <1>1, <1>2, <1>4 DEF Types
<1>6. TasksFit'
  <2>1. ASSUME NEW d \in Call
        PROVE  /\ DOMAIN tasks[d] = DOMAIN Items(text[d])
               /\ \A i \in DOMAIN tasks[d] : TaskFits(text[d], written'[d], Items(text[d])[i], tasks[d][i])
    <3>1. /\ DOMAIN tasks[d] = DOMAIN Items(text[d])
          /\ \A i \in DOMAIN tasks[d] : TaskFits(text[d], written[d], Items(text[d])[i], tasks[d][i])
      BY <1>2 DEF Work, TasksFit
    <3> QED
      BY <1>1, <1>3, <3>1, FitsWritten
  <2> QED
    BY <1>1, <2>1 DEF TasksFit
<1>7. RequestsFit'
  <2>1. queue \in Queues /\ AllFit(queue, text, written, tasks)
    BY <1>2, QueueParts DEF Types, Queues, Work
  <2>2. ASSUME NEW r, In(queue, r) PROVE Fitting(text, written', tasks, r)
    <3>1. r.call \in Call /\ Fitting(text, written, tasks, r)
      BY <2>1, <2>2, InType DEF AllFit
    <3> QED
      BY <1>1, <1>3, <3>1, FitsWritten DEF Fitting
  <2>3. AllFit(queue', text', written', tasks')
    BY <1>1, <2>2, Zenon DEF AllFit
  <2> QED
    BY <2>3, QueuePartsNext
<1>8. RequestsUnique' /\ AllPosted' /\ FailuresEmpty'
  <2>1. RequestsUnique'
    BY <1>1, <1>2 DEF Work, RequestsUnique
  <2>2. \A d, i, part : Posted(d, i, part)' <=> Posted(d, i, part)
    BY <1>1 DEF Posted
  <2>3. AllPosted'
    BY <1>1, <1>2, <2>2 DEF Work, AllPosted
  <2>4. FailuresEmpty'
    BY <1>1, <1>2 DEF Work, FailuresEmpty
  <2> QED
    BY <2>1, <2>3, <2>4
<1>9. PhasesFit'
  <2>1. route[c] = "none"
    BY <1>1, <1>2, Zenon DEF Work, PhasesFit
  <2> QED
    BY <1>1, <1>2, <1>3, <2>1 DEF Work, PhasesFit
<1>10. Telemetry'
  <2>1. \A d \in Call : Counts(d)' = Counts(d)
    BY <1>1 DEF Counts
  <2> QED
    BY <1>1, <1>2, <2>1 DEF Telemetry
<1> QED
  BY <1>5, <1>6, <1>7, <1>8, <1>9, <1>10 DEF IInv, Work

\* An encode that throws at once keeps the invariant.
LEMMA StartRefusedInv ==
    ASSUME IInv, NEW c \in Call, StartRefused(c)
    PROVE  IInv'
<1>1. /\ phase[c] = "idle" /\ phase' = [phase EXCEPT ![c] = "rejected"]
      /\ chunking' = chunking /\ text' = text /\ written' = written /\ tasks' = tasks /\ route' = route /\ answer' = answer
      /\ telemetry' = telemetry /\ alone' = alone /\ queue' = queue /\ failure' = failure /\ nextWorker' = nextWorker
      /\ poolTasks' = poolTasks /\ active' = active /\ closed' = closed
  BY DEF StartRefused, pool
<1>2. Types /\ Work /\ Telemetry
  BY DEF IInv
<1>3. /\ phase \in [Call -> {"idle", "awaiting", "answered", "rejected"}] /\ phase'[c] = "rejected"
      /\ \A d \in Call : d # c => phase'[d] = phase[d]
  BY <1>1, <1>2 DEF Types
<1>4. phase' \in [Call -> {"idle", "awaiting", "answered", "rejected"}]
  BY <1>1, <1>3
<1>5. Types'
  BY <1>1, <1>2, <1>4 DEF Types
<1>6. TasksFit' /\ RequestsUnique' /\ FailuresEmpty'
  BY <1>1, <1>2 DEF Work, TasksFit, RequestsUnique, FailuresEmpty
<1>7. RequestsFit'
  BY <1>1, <1>2, QueueParts, QueuePartsNext DEF Work
<1>8. AllPosted'
  <2>1. \A d, i, part : Posted(d, i, part)' <=> Posted(d, i, part)
    BY <1>1 DEF Posted
  <2> QED
    BY <1>1, <1>2, <2>1 DEF Work, AllPosted
<1>9. PhasesFit'
  <2>1. route[c] = "none"
    BY <1>1, <1>2, Zenon DEF Work, PhasesFit
  <2> QED
    BY <1>1, <1>2, <1>3, <2>1 DEF Work, PhasesFit
<1>10. Telemetry'
  <2>1. \A d \in Call : Counts(d)' = Counts(d)
    BY <1>1 DEF Counts
  <2> QED
    BY <1>1, <1>2, <1>3, <2>1 DEF Telemetry
<1> QED
  BY <1>5, <1>6, <1>7, <1>8, <1>9, <1>10 DEF IInv, Work

(***************************************************************************)
(* Errors and close keep the invariant                                     *)
(***************************************************************************)
\* Something was posted to some workers for a task.
Loses(ws, c, i) == \E w \in ws : \E r \in ToSet(queue[w]) : r.call = c /\ r.item = i

\* Each task is as it was, or it fails, which it does not when it had settled.
RejectedAs(ws, c, i, after) ==
    \/ Unsettled(tasks[c][i]) /\ Loses(ws, c, i) /\ after = Failed(tasks[c][i])
    \/ ~(Unsettled(tasks[c][i]) /\ Loses(ws, c, i)) /\ after = tasks[c][i]

\* The tasks after a rejection.
LEMMA RejectedFacts ==
    ASSUME tasks \in [Call -> Seq(Task)], NEW ws
    PROVE  /\ Rejected(ws) \in [Call -> Seq(Task)]
           /\ \A c \in Call : DOMAIN Rejected(ws)[c] = DOMAIN tasks[c]
           /\ \A c \in Call : \A i \in DOMAIN tasks[c] : RejectedAs(ws, c, i, Rejected(ws)[c][i])
<1>1. PICK all : all = Rejected(ws)
  OBVIOUS
<1>2. all = [c \in Call |-> [i \in DOMAIN tasks[c] |->
                IF Unsettled(tasks[c][i]) /\ Loses(ws, c, i) THEN Failed(tasks[c][i]) ELSE tasks[c][i]]]
  BY <1>1, Zenon DEF Rejected, Loses
<1>3. ASSUME NEW c \in Call
      PROVE  /\ all[c] = [i \in DOMAIN tasks[c] |->
                             IF Unsettled(tasks[c][i]) /\ Loses(ws, c, i) THEN Failed(tasks[c][i]) ELSE tasks[c][i]]
             /\ DOMAIN all[c] = DOMAIN tasks[c] /\ all[c] \in Seq(Task)
             /\ \A i \in DOMAIN tasks[c] : RejectedAs(ws, c, i, all[c][i])
  <2>1. all[c] = [i \in DOMAIN tasks[c] |->
                      IF Unsettled(tasks[c][i]) /\ Loses(ws, c, i) THEN Failed(tasks[c][i]) ELSE tasks[c][i]]
    BY <1>2
  <2>2. DOMAIN all[c] = DOMAIN tasks[c]
    BY <2>1
  <2>3. PICK n \in Nat : DOMAIN tasks[c] = 1 .. n /\ tasks[c] \in Seq(Task)
    OBVIOUS
  <2>4. ASSUME NEW i \in 1 .. n PROVE RejectedAs(ws, c, i, all[c][i]) /\ all[c][i] \in Task
    <3>1. tasks[c][i] \in Task
      BY <2>3
    <3>2. all[c][i] = IF Unsettled(tasks[c][i]) /\ Loses(ws, c, i) THEN Failed(tasks[c][i]) ELSE tasks[c][i]
      BY <2>1, <2>3
    <3>3. RejectedAs(ws, c, i, all[c][i])
      BY <3>2 DEF RejectedAs
    <3>4. Failed(tasks[c][i]) \in Task
      BY <3>1, Zenon DEF Failed, Task
    <3> QED
      BY <3>1, <3>2, <3>3, <3>4
  <2>5. all[c] \in Seq(Task)
    <3>1. all[c] = [i \in 1 .. n |-> all[c][i]]
      BY <2>1, <2>3
    <3> QED
      BY <2>4, <3>1
  <2> QED
    BY <2>1, <2>2, <2>3, <2>4, <2>5
<1>4. all \in [Call -> Seq(Task)]
  <2>1. all = [c \in Call |-> all[c]]
    BY <1>2
  <2> QED
    BY <1>3, <2>1
<1>5. /\ \A c \in Call : DOMAIN all[c] = DOMAIN tasks[c]
      /\ \A c \in Call : \A i \in DOMAIN tasks[c] : RejectedAs(ws, c, i, all[c][i])
  BY <1>3, Zenon
<1> QED
  BY <1>1, <1>4, <1>5

\* A task that fails fits its item and what was posted for it.
LEMMA FailedFits ==
    ASSUME NEW txt, NEW wrote, NEW item, NEW old \in Task, Unsettled(old), TaskFits(txt, wrote, item, old)
    PROVE  /\ TaskFits(txt, wrote, item, Failed(old)) /\ Failed(old).state = "failed"
           /\ \A s : RequestFits(txt, wrote, item, old, s) => RequestFits(txt, wrote, item, Failed(old), s)
<1>1. PICK new : new = Failed(old)
  OBVIOUS
<1>2. new.state = "failed" /\ new.parts = old.parts /\ new.enlargements = old.enlargements
  BY <1>1 DEF Failed, Task
<1>3. old.state # "done" /\ old.state # "failed"
  BY DEF Unsettled
<1>4. TaskFits(txt, wrote, item, new)
  <2>1. CASE item.long
    <3>1. LongTask(txt, wrote, item, old)
      BY <2>1 DEF TaskFits
    <3>2. LongTask(txt, wrote, item, new)
      BY <1>2, <3>1 DEF LongTask
    <3> QED
      BY <2>1, <3>2 DEF TaskFits
  <2>2. CASE ~item.long
    <3>1. BatchTask(item, old)
      BY <2>2 DEF TaskFits
    <3>2. BatchTask(item, new)
      BY <1>2, <1>3, <3>1 DEF BatchTask
    <3> QED
      BY <2>2, <3>2 DEF TaskFits
  <2> QED
    BY <2>1, <2>2
<1>5. \A s : RequestFits(txt, wrote, item, old, s) => RequestFits(txt, wrote, item, new, s)
  BY <1>2 DEF RequestFits
<1> QED
  BY <1>1, <1>2, <1>4, <1>5

\* What was posted to some workers is rejected, and they take no more.
Drops(ws) ==
    /\ queue' = [v \in Worker |-> IF v \in ws THEN <<>> ELSE queue[v]]
    /\ failure' = [v \in Worker |-> failure[v] \/ v \in ws]
    /\ text' = text /\ written' = written /\ tasks' = Rejected(ws) /\ closed' \in BOOLEAN
    /\ closed' => closed \/ ws = Worker

\* What was posted is gone, and so is every task that waited for it.
LEMMA DroppedWork ==
    ASSUME Types, Work, NEW ws \in SUBSET Worker, Drops(ws)
    PROVE  TasksFit' /\ RequestsFit' /\ RequestsUnique' /\ AllPosted' /\ FailuresEmpty' /\ queue' \in Queues /\ \A r : In(queue', r) => In(queue, r)
<1>1. /\ queue' = [v \in Worker |-> IF v \in ws THEN <<>> ELSE queue[v]]
      /\ failure' = [v \in Worker |-> failure[v] \/ v \in ws]
      /\ text' = text /\ written' = written /\ tasks' = Rejected(ws) /\ closed' \in BOOLEAN
      /\ closed' => closed \/ ws = Worker
  BY DEF Drops
<1>2. queue \in Queues /\ Distinct(queue) /\ AllFit(queue, text, written, tasks)
  BY QueueParts DEF Types, Queues, Work
<1>3. /\ queue' \in Queues /\ Distinct(queue')
      /\ \A r : In(queue', r) => In(queue, r)
      /\ \A r : In(queue, r) => In(queue', r) \/ \E v \in ws : \E j \in DOMAIN queue[v] : queue[v][j] = r
  <2>1. PICK q, t : q = queue /\ t = [v \in Worker |-> IF v \in ws THEN <<>> ELSE q[v]]
    BY Zenon
  <2>2. q \in Queues /\ Distinct(q) /\ t = queue'
    BY <1>1, <1>2, <2>1
  <2>3. /\ t \in Queues /\ Distinct(t)
        /\ \A r : In(t, r) => In(q, r)
        /\ \A r : In(q, r) => In(t, r) \/ \E v \in ws : \E j \in DOMAIN q[v] : q[v][j] = r
    BY <2>1, <2>2, QueuesDropped, Zenon
  <2> QED
    BY <2>1, <2>2, <2>3
<1>4. tasks \in [Call -> Seq(Task)]
  BY DEF Types
<1>5. /\ tasks' \in [Call -> Seq(Task)] /\ \A c \in Call : DOMAIN tasks'[c] = DOMAIN tasks[c]
      /\ \A c \in Call : \A i \in DOMAIN tasks[c] : RejectedAs(ws, c, i, tasks'[c][i])
  BY <1>1, <1>4, RejectedFacts
<1>6. ASSUME NEW c \in Call, NEW i \in DOMAIN tasks[c]
      PROVE  /\ tasks[c][i] \in Task /\ i \in DOMAIN Items(text[c])
             /\ TaskFits(text[c], written[c], Items(text[c])[i], tasks'[c][i])
             /\ \A s : RequestFits(text[c], written[c], Items(text[c])[i], tasks[c][i], s)
                       => RequestFits(text[c], written[c], Items(text[c])[i], tasks'[c][i], s)
             /\ Unsettled(tasks'[c][i]) => tasks'[c][i] = tasks[c][i] /\ ~Loses(ws, c, i)
  <2>1. PICK txt, wrote, item, old, new :
            /\ txt = text[c] /\ wrote = written[c] /\ item = Items(text[c])[i] /\ old = tasks[c][i] /\ new = tasks'[c][i]
    OBVIOUS
  <2>2. old \in Task
    <3>1. tasks[c] \in Seq(Task)
      BY <1>4
    <3> QED
      BY <2>1, <3>1
  <2>3. TaskFits(txt, wrote, item, old) /\ i \in DOMAIN Items(text[c])
    BY <2>1 DEF Work, TasksFit
  <2>4. RejectedAs(ws, c, i, new)
    BY <1>5, <2>1
  <2>5. CASE Unsettled(old) /\ Loses(ws, c, i) /\ new = Failed(old)
    <3>1. /\ TaskFits(txt, wrote, item, new) /\ new.state = "failed"
          /\ \A s : RequestFits(txt, wrote, item, old, s) => RequestFits(txt, wrote, item, new, s)
      BY <2>2, <2>3, <2>5, FailedFits
    <3>2. ~Unsettled(new)
      BY <3>1 DEF Unsettled
    <3> QED
      BY <2>1, <2>2, <2>3, <3>1, <3>2
  <2>6. CASE ~(Unsettled(old) /\ Loses(ws, c, i)) /\ new = old
    BY <2>1, <2>2, <2>3, <2>6
  <2> QED
    BY <2>1, <2>4, <2>5, <2>6 DEF RejectedAs
<1>7. TasksFit'
  <2>1. ASSUME NEW c \in Call
        PROVE  /\ DOMAIN tasks'[c] = DOMAIN Items(text[c])
               /\ \A i \in DOMAIN tasks'[c] : TaskFits(text[c], written[c], Items(text[c])[i], tasks'[c][i])
    <3>1. DOMAIN tasks[c] = DOMAIN Items(text[c])
      BY DEF Work, TasksFit
    <3> QED
      BY <1>5, <1>6, <3>1
  <2> QED
    BY <1>1, <2>1 DEF TasksFit
<1>8. RequestsFit'
  <2>1. ASSUME NEW r, In(queue', r) PROVE Fitting(text, written, tasks', r)
    <3>1. In(queue, r)
      BY <1>3, <2>1
    <3>2. r.call \in Call /\ Fitting(text, written, tasks, r)
      BY <1>2, <3>1, InType DEF AllFit
    <3>3. PICK c, i : c = r.call /\ i = r.item
      OBVIOUS
    <3>4. c \in Call /\ i \in DOMAIN tasks[c] /\ RequestFits(text[c], written[c], Items(text[c])[i], tasks[c][i], r)
      BY <3>2, <3>3 DEF Fitting
    <3>5. RequestFits(text[c], written[c], Items(text[c])[i], tasks'[c][i], r) /\ i \in DOMAIN tasks'[c]
      BY <1>5, <1>6, <3>4, Zenon
    <3> QED
      BY <3>3, <3>5 DEF Fitting
  <2>2. AllFit(queue', text', written', tasks')
    BY <1>1, <2>1 DEF AllFit
  <2> QED
    BY <2>2, QueuePartsNext
<1>9. RequestsUnique'
  BY <1>3, QueuePartsNext
<1>10. AllPosted'
  <2>1. ASSUME NEW c \in Call, NEW i \in DOMAIN tasks'[c], Unsettled(tasks'[c][i])
        PROVE  /\ Lacks(Items(text[c])[i], tasks'[c][i]) # {}
               /\ \A part \in Lacks(Items(text[c])[i], tasks'[c][i]) : PostedIn(queue', c, i, part)
    <3>1. i \in DOMAIN tasks[c]
      BY <1>5
    <3>2. tasks'[c][i] = tasks[c][i] /\ ~Loses(ws, c, i)
      BY <1>6, <2>1, <3>1
    <3>3. /\ Lacks(Items(text[c])[i], tasks[c][i]) # {}
          /\ \A part \in Lacks(Items(text[c])[i], tasks[c][i]) : PostedIn(queue, c, i, part)
      BY <2>1, <3>1, <3>2, QueueParts DEF Work, AllPosted
    <3>4. ASSUME NEW part, PostedIn(queue, c, i, part) PROVE PostedIn(queue', c, i, part)
      <4>1. PICK s : In(queue, s) /\ s.call = c /\ s.item = i /\ s.part = part
        BY <3>4 DEF PostedIn
      <4>2. ASSUME NEW v \in ws, NEW j \in DOMAIN queue[v], queue[v][j] = s PROVE FALSE
        <5>1. s \in ToSet(queue[v])
          BY <4>2 DEF ToSet
        <5> QED
          BY <3>2, <4>1, <4>2, <5>1 DEF Loses
      <4>3. In(queue', s)
        BY <1>3, <4>1, <4>2
      <4> QED
        BY <4>1, <4>3 DEF PostedIn
    <3> QED
      BY <3>2, <3>3, <3>4
  <2> QED
    BY <1>1, <2>1, QueuePartsNext, Zenon DEF AllPosted
<1>11. FailuresEmpty'
  <2>1. \A v \in Worker : failure'[v] => queue'[v] = <<>>
    BY <1>1 DEF Work, FailuresEmpty
  <2>2. closed' => \A v \in Worker : failure'[v]
    BY <1>1, Zenon DEF Work, FailuresEmpty
  <2> QED
    BY <2>1, <2>2 DEF FailuresEmpty
<1> QED
  BY <1>3, <1>7, <1>8, <1>9, <1>10, <1>11

\* A rejection keeps the invariant.
LEMMA DroppedInv ==
    ASSUME IInv, NEW ws \in SUBSET Worker, Drops(ws), Conclude(Awaiting, Rejected(ws)),
           UNCHANGED <<chunking, alone, nextWorker, poolTasks, active>>
    PROVE  IInv'
<1>1. Types /\ Work /\ Telemetry /\ PhasesFit
  BY DEF IInv, Work
<1>2. /\ failure' = [v \in Worker |-> failure[v] \/ v \in ws]
      /\ text' = text /\ written' = written /\ tasks' = Rejected(ws) /\ closed' \in BOOLEAN
      /\ chunking' = chunking /\ alone' = alone /\ nextWorker' = nextWorker /\ poolTasks' = poolTasks /\ active' = active
  BY DEF Drops
<1>3. /\ TasksFit' /\ RequestsFit' /\ RequestsUnique' /\ AllPosted' /\ FailuresEmpty' /\ queue' \in Queues
      /\ \A r : In(queue', r) => In(queue, r)
  BY <1>1, DroppedWork
<1>4. tasks \in [Call -> Seq(Task)]
  BY <1>1 DEF Types
<1>5. /\ tasks' \in [Call -> Seq(Task)] /\ \A c \in Call : DOMAIN tasks'[c] = DOMAIN tasks[c]
      /\ \A c \in Call : \A i \in DOMAIN tasks[c] : RejectedAs(ws, c, i, tasks'[c][i])
  BY <1>2, <1>4, RejectedFacts
<1>6. \A c \in Call : \A i \in DOMAIN tasks[c] : tasks[c][i].state = "done" => tasks'[c][i] = tasks[c][i]
  BY <1>5 DEF RejectedAs, Unsettled
<1>7. Concluding(Awaiting, tasks')
  BY <1>2, <1>5, <1>6 DEF Concluding, Awaiting
<1>8. written \in [Call -> {0, 1}] /\ \A d \in Call : Good(text'[d])
  BY <1>1, <1>2 DEF Types
<1>9. PhasesFit'
  BY <1>1, <1>2, <1>7, PhasesNext
<1>10. poolTasks' \in Nat /\ active' \in SUBSET Worker
  BY <1>1, <1>2 DEF Types
<1>11. CallTypes'
  <2>1. CallTypes
    BY <1>1 DEF Types, CallTypes
  <2> QED
    BY <1>2, <1>7, <1>8, <1>10, <2>1, CallTypesNext
<1>12. Telemetry'
  <2>1. ASSUME NEW c \in Awaiting, alone'[c], ~HasFailed(tasks'[c]) PROVE Counting(c, tasks'[c])
    <3>1. c \in Call /\ phase[c] = "awaiting" /\ alone[c]
      BY <1>2, <2>1 DEF Awaiting
    <3>2. tasks'[c] = tasks[c]
      <4>1. ASSUME NEW i \in DOMAIN tasks[c] PROVE tasks'[c][i] = tasks[c][i]
        <5>1. RejectedAs(ws, c, i, tasks'[c][i]) /\ tasks'[c][i].state # "failed"
          BY <1>5, <2>1, <3>1 DEF HasFailed
        <5>2. tasks[c][i] \in Task
          <6>1. tasks[c] \in Seq(Task)
            BY <1>4, <3>1
          <6> QED
            BY <6>1
        <5>3. Failed(tasks[c][i]).state = "failed"
          BY <5>2 DEF Failed, Task
        <5> QED
          BY <5>1, <5>3 DEF RejectedAs
      <4>2. PICK s \in Seq(Task), t \in Seq(Task) : s = tasks[c] /\ t = tasks'[c]
        BY <1>4, <1>5, <3>1
      <4>3. DOMAIN s = DOMAIN t /\ \A i \in DOMAIN s : s[i] = t[i]
        BY <1>5, <3>1, <4>1, <4>2
      <4>4. s = t
        BY <4>3
      <4> QED
        BY <4>2, <4>4
    <3>3. /\ poolTasks = Total(CountsOf(text[c], tasks[c])) /\ Cardinality(active) <= poolTasks
          /\ \A s : In(queue, s) => s.call = c
      <4>1. Counts(c) = CountsOf(text[c], tasks[c])
        BY DEF Counts, CountsOf
      <4> QED
        BY <1>1, <3>1, <4>1 DEF Telemetry, In
    <3> QED
      BY <1>2, <1>3, <3>2, <3>3 DEF Counting
  <2>2. \A d \in Call : alone'[d] => d \in Awaiting \/ alone[d]
    BY <1>2
  <2> QED
    BY <1>1, <1>2, <1>3, <1>7, <1>8, <2>1, <2>2, TelemetryNext
<1>13. failure' \in [Worker -> BOOLEAN]
  BY <1>1, <1>2 DEF Types
<1>14. Types'
  BY <1>1, <1>2, <1>3, <1>8, <1>11, <1>13 DEF Types, CallTypes, Queues
<1> QED
  BY <1>3, <1>9, <1>12, <1>14 DEF IInv, Work

\* An error of a thread keeps the invariant.
LEMMA WorkerFailsInv ==
    ASSUME IInv, NEW w \in Worker, WorkerFails(w)
    PROVE  IInv'
<1>1. /\ failure' = [failure EXCEPT ![w] = TRUE] /\ queue' = [queue EXCEPT ![w] = <<>>]
      /\ chunking' = chunking /\ text' = text /\ written' = written /\ alone' = alone /\ nextWorker' = nextWorker
      /\ poolTasks' = poolTasks /\ active' = active /\ closed' = closed
      /\ Conclude(Awaiting, Rejected({w}))
  BY DEF WorkerFails
<1>2. queue \in [Worker -> Seq(Request)] /\ failure \in [Worker -> BOOLEAN] /\ closed \in BOOLEAN
  BY DEF IInv, Types
<1>3. queue' = [v \in Worker |-> IF v \in {w} THEN <<>> ELSE queue[v]]
  BY <1>1, <1>2, Zenon
<1>4. failure' = [v \in Worker |-> failure[v] \/ v \in {w}]
  BY <1>1, <1>2, Zenon
<1>5. tasks' = Rejected({w})
  BY <1>1, ConcludeTasks
<1>6. Drops({w}) /\ {w} \in SUBSET Worker
  BY <1>1, <1>2, <1>3, <1>4, <1>5, Zenon DEF Drops
<1> QED
  BY <1>1, <1>6, DroppedInv

\* close() keeps the invariant.
LEMMA CloseInv ==
    ASSUME IInv, Close
    PROVE  IInv'
<1>1. /\ failure' = [v \in Worker |-> TRUE] /\ queue' = [v \in Worker |-> <<>>] /\ closed' = TRUE
      /\ chunking' = chunking /\ text' = text /\ written' = written /\ alone' = alone /\ nextWorker' = nextWorker
      /\ poolTasks' = poolTasks /\ active' = active
      /\ Conclude(Awaiting, Rejected(Worker))
  BY DEF Close
<1>2. queue' = [v \in Worker |-> IF v \in Worker THEN <<>> ELSE queue[v]]
  BY <1>1
<1>3. failure' = [v \in Worker |-> failure[v] \/ v \in Worker]
  BY <1>1, Zenon
<1>4. tasks' = Rejected(Worker)
  BY <1>1, ConcludeTasks
<1>5. Drops(Worker)
  BY <1>1, <1>2, <1>3, <1>4, Zenon DEF Drops
<1> QED
  BY <1>1, <1>5, DroppedInv

(***************************************************************************)
(* A call of encode keeps the invariant                                    *)
(***************************************************************************)
\* A task as it begins, and the requests that are posted for it.
LEMMA NewTaskFacts ==
    ASSUME NEW txt, Good(txt), NEW i \in DOMAIN Items(txt), NEW wrote, NEW item, item = Items(txt)[i],
           NEW task, task = NewTask(txt, i)
    PROVE  /\ task \in Task /\ task.state = "encoding" /\ TaskFits(txt, wrote, item, task)
           /\ \A c, r : ForItem(c, txt, i, item, r) => RequestFits(txt, wrote, item, task, r)
           /\ Lacks(item, task) # {} /\ Counted(txt, item, task) = 0
           /\ item.long => Lacks(item, task) = 1 .. txt[item.pretokens[1]]
           /\ ~item.long => Lacks(item, task) = {0}
<1>1. ItemFits(txt, item)
  BY ItemsFacts DEF ItemsGood
<1>2. PICK p, n : p = item.pretokens[1] /\ n = txt[p]
  OBVIOUS
<1>3. n \in Nat \ {0}
  <2>1. PICK q \in Seq(DOMAIN txt) : q = item.pretokens /\ q # <<>>
    BY <1>1 DEF ItemFits
  <2>2. q[1] \in DOMAIN txt
    BY <2>1
  <2> QED
    BY <1>2, <2>1, <2>2, EntryType
<1>4. PICK parts : parts = IF item.long THEN [k \in 1 .. n |-> <<>>] ELSE <<>>
  BY Zenon
<1>5. parts \in Seq(Seq(Id)) /\ (item.long => DOMAIN parts = 1 .. n /\ Len(parts) = n /\ \A k \in 1 .. n : parts[k] = <<>>)
  <2>1. PICK Y : Y = Seq(Id)
    OBVIOUS
  <2>2. <<>> \in Y /\ <<>> \in Seq(Y)
    BY <2>1, EmptySeq
  <2>3. [k \in 1 .. n |-> <<>>] \in Seq(Y)
    BY <1>3, <2>2
  <2>4. item.long => DOMAIN parts = 1 .. n /\ Len(parts) = n /\ \A k \in 1 .. n : parts[k] = <<>>
    BY <1>3, <1>4
  <2> QED
    BY <1>4, <2>1, <2>2, <2>3, <2>4, Zenon
<1>6. task = [state |-> "encoding", spliced |-> 0, enlargements |-> 0, parts |-> parts]
  BY <1>2, <1>4 DEF NewTask
<1>7. task \in Task /\ task.state = "encoding" /\ task.enlargements = 0 /\ task.parts = parts
  BY <1>5, <1>6 DEF Task
<1>8. CASE item.long
  <2>1. LongTask(txt, wrote, item, task)
    BY <1>2, <1>5, <1>7, <1>8 DEF LongTask
  <2>2. \A c, r : ForItem(c, txt, i, item, r) => RequestFits(txt, wrote, item, task, r)
    BY <1>2, <1>5, <1>7, <1>8 DEF ForItem, RequestFits
  <2>3. Lacks(item, task) = 1 .. n /\ 1 \in 1 .. n
    BY <1>3, <1>5, <1>7, <1>8 DEF Lacks
  <2>4. Counted(txt, item, task) = 0
    <3>1. {k \in DOMAIN task.parts : task.parts[k] # <<>>} = {}
      BY <1>5, <1>7, <1>8
    <3>2. Cardinality({}) = 0
      BY FS_EmptySet
    <3> QED
      BY <1>7, <1>8, <3>1, <3>2, Zenon DEF Counted
  <2> QED
    BY <1>2, <1>7, <1>8, <2>1, <2>2, <2>3, <2>4 DEF TaskFits
<1>9. CASE ~item.long
  <2>1. BatchTask(item, task)
    BY <1>4, <1>7, <1>9 DEF BatchTask
  <2>2. \A c, r : ForItem(c, txt, i, item, r) => RequestFits(txt, wrote, item, task, r)
    BY <1>7, <1>9 DEF ForItem, RequestFits
  <2>3. Lacks(item, task) = {0}
    BY <1>9 DEF Lacks
  <2>4. Counted(txt, item, task) = 0
    BY <1>7, <1>9 DEF Counted
  <2> QED
    BY <1>7, <1>9, <2>1, <2>2, <2>3, <2>4 DEF TaskFits
<1> QED
  BY <1>8, <1>9

\* What the round robin posts: the requests whose worker has not failed.
PostedFirst(rs, m) ==
    /\ m \in Queues /\ Distinct(m) /\ \A w \in Worker : failure[w] => m[w] = <<>>
    /\ \A s : In(m, s) <=> \E k \in DOMAIN rs : s = rs[k] /\ ~failure[Later(k - 1)]

\* The round robin posts each request once, to a worker that has not failed.
LEMMA RoundRobin ==
    ASSUME nextWorker \in Worker, NEW c \in Call, NEW txt, NEW rs, Requested(rs, c, txt),
           NEW m, m = [w \in Worker |-> IF failure[w] THEN <<>> ELSE Assigned(rs, w)]
    PROVE  PostedFirst(rs, m)
<1>1. rs \in Seq(Request) /\ \A k, l \in DOMAIN rs : Same(rs[k], rs[l]) => k = l
  BY DEF Requested
<1>2. ASSUME NEW w \in Worker
      PROVE  /\ m[w] \in Seq(Request) /\ (failure[w] => m[w] = <<>>)
             /\ \A j \in DOMAIN m[w] : \E k \in DOMAIN rs : m[w][j] = rs[k] /\ Later(k - 1) = w /\ ~failure[w]
             /\ \A i, j \in DOMAIN m[w] : Same(m[w][i], m[w][j]) => i = j
             /\ ~failure[w] => \A k \in DOMAIN rs : Later(k - 1) = w => \E j \in DOMAIN m[w] : m[w][j] = rs[k]
  <2>1. CASE failure[w]
    <3>1. m[w] = <<>>
      BY <2>1
    <3>2. <<>> \in Seq(Request) /\ DOMAIN <<>> = {}
      BY EmptySeq
    <3> QED
      BY <2>1, <3>1, <3>2
  <2>2. CASE ~failure[w]
    <3>1. PICK mine : Given(mine, rs, w)
      BY <1>1, AssignedGiven, Zenon
    <3>2. /\ mine \in Seq(DOMAIN rs) /\ \A j \in DOMAIN mine : Later(mine[j] - 1) = w
          /\ \A i, j \in DOMAIN mine : mine[i] = mine[j] => i = j
          /\ \A k \in DOMAIN rs : Later(k - 1) = w => \E j \in DOMAIN mine : mine[j] = k
      BY <3>1 DEF Given
    <3>3. m[w] = [j \in DOMAIN mine |-> rs[mine[j]]]
      BY <2>2, <3>1 DEF Given
    <3>4. DOMAIN m[w] = DOMAIN mine /\ \A j \in DOMAIN mine : m[w][j] = rs[mine[j]] /\ mine[j] \in DOMAIN rs
      BY <3>2, <3>3
    <3>5. m[w] \in Seq(Request)
      <4>1. PICK n \in Nat : DOMAIN mine = 1 .. n
        BY <3>2
      <4>2. \A j \in 1 .. n : rs[mine[j]] \in Request
        BY <1>1, <3>4, <4>1
      <4>3. m[w] = [j \in 1 .. n |-> rs[mine[j]]]
        BY <3>3, <4>1
      <4> QED
        BY <4>2, <4>3
    <3>6. \A j \in DOMAIN m[w] : \E k \in DOMAIN rs : m[w][j] = rs[k] /\ Later(k - 1) = w /\ ~failure[w]
      BY <2>2, <3>2, <3>4
    <3>7. \A i, j \in DOMAIN m[w] : Same(m[w][i], m[w][j]) => i = j
      BY <1>1, <3>2, <3>4
    <3>8. \A k \in DOMAIN rs : Later(k - 1) = w => \E j \in DOMAIN m[w] : m[w][j] = rs[k]
      BY <3>2, <3>4
    <3> QED
      BY <2>2, <3>5, <3>6, <3>7, <3>8
  <2> QED
    BY <2>1, <2>2
<1>3. m \in Queues
  BY <1>2 DEF Queues
<1>4. Distinct(m)
  <2> SUFFICES ASSUME NEW v \in Worker, NEW w \in Worker, NEW j \in DOMAIN m[v], NEW l \in DOMAIN m[w], Same(m[v][j], m[w][l])
               PROVE  v = w /\ j = l
    BY DEF Distinct
  <2>1. PICK a \in DOMAIN rs : m[v][j] = rs[a] /\ Later(a - 1) = v
    BY <1>2
  <2>2. PICK b \in DOMAIN rs : m[w][l] = rs[b] /\ Later(b - 1) = w
    BY <1>2
  <2>3. a = b
    BY <1>1, <2>1, <2>2
  <2>4. v = w
    BY <2>1, <2>2, <2>3
  <2> QED
    BY <1>2, <2>4
<1>5. ASSUME NEW s, In(m, s) PROVE \E k \in DOMAIN rs : s = rs[k] /\ ~failure[Later(k - 1)]
  <2>1. PICK w \in Worker : \E j \in DOMAIN m[w] : m[w][j] = s
    BY <1>5 DEF In
  <2>2. PICK j \in DOMAIN m[w] : m[w][j] = s
    BY <2>1
  <2>3. PICK k \in DOMAIN rs : m[w][j] = rs[k] /\ Later(k - 1) = w /\ ~failure[w]
    BY <1>2, <2>2
  <2> QED
    BY <2>2, <2>3
<1>6. ASSUME NEW k \in DOMAIN rs, ~failure[Later(k - 1)] PROVE In(m, rs[k])
  <2>1. Later(k - 1) \in Worker
    <3>1. k - 1 \in Nat
      BY <1>1
    <3> QED
      BY <3>1, LaterType
  <2>2. PICK w \in Worker : w = Later(k - 1)
    BY <2>1
  <2>3. \E j \in DOMAIN m[w] : m[w][j] = rs[k]
    BY <1>2, <1>6, <2>2
  <2> QED
    BY <2>3 DEF In
<1>7. \A w \in Worker : failure[w] => m[w] = <<>>
  BY <1>2
<1> QED
  BY <1>3, <1>4, <1>5, <1>6, <1>7 DEF PostedFirst

\* A thread that failed refuses one of a task's requests, or there is no chunking for it.
Refuses(txt, rs, i) == \/ Items(txt)[i].long /\ ~chunking
                       \/ \E k \in DOMAIN rs : rs[k].item = i /\ failure[Later(k - 1)]

\* A task that begins, or fails at once.
Begun(txt, wrote, rs, i, item, task) ==
    /\ task \in Task /\ task.state \in {"encoding", "failed"} /\ TaskFits(txt, wrote, item, task)
    /\ \A c, r : ForItem(c, txt, i, item, r) => RequestFits(txt, wrote, item, task, r)
    /\ task.state = "encoding" => /\ ~Refuses(txt, rs, i) /\ Lacks(item, task) = Asked(txt, item)
                                  /\ Lacks(item, task) # {} /\ Counted(txt, item, task) = 0
BegunTasks(txt, rs) ==
    [i \in DOMAIN Items(txt) |-> IF Refuses(txt, rs, i) THEN Failed(NewTask(txt, i)) ELSE NewTask(txt, i)]

\* The tasks of a text as they begin.
LEMMA BegunFacts ==
    ASSUME NEW txt, Good(txt), NEW wrote, NEW rs, NEW new, new = BegunTasks(txt, rs)
    PROVE  /\ new \in Seq(Task) /\ DOMAIN new = DOMAIN Items(txt)
           /\ \A i \in DOMAIN new : Begun(txt, wrote, rs, i, Items(txt)[i], new[i])
<1>1. PICK n \in Nat : DOMAIN Items(txt) = 1 .. n
  <2>1. Items(txt) \in Seq(ItemType)
    BY ItemsFacts DEF ItemsGood
  <2> QED
    BY <2>1
<1>2. new = [i \in 1 .. n |-> IF Refuses(txt, rs, i) THEN Failed(NewTask(txt, i)) ELSE NewTask(txt, i)]
  BY <1>1 DEF BegunTasks
<1>3. ASSUME NEW i \in 1 .. n PROVE Begun(txt, wrote, rs, i, Items(txt)[i], new[i])
  <2>1. PICK item, task : item = Items(txt)[i] /\ task = NewTask(txt, i)
    OBVIOUS
  <2>2. i \in DOMAIN Items(txt)
    BY <1>1
  <2>3. /\ task \in Task /\ task.state = "encoding" /\ TaskFits(txt, wrote, item, task)
        /\ \A c, r : ForItem(c, txt, i, item, r) => RequestFits(txt, wrote, item, task, r)
        /\ Lacks(item, task) # {} /\ Counted(txt, item, task) = 0
        /\ item.long => Lacks(item, task) = 1 .. txt[item.pretokens[1]]
        /\ ~item.long => Lacks(item, task) = {0}
    BY <2>1, <2>2, NewTaskFacts
  <2>4. CASE Refuses(txt, rs, i)
    <3>1. new[i] = Failed(task)
      BY <1>2, <2>1, <2>4
    <3>2. Unsettled(task)
      BY <2>3 DEF Unsettled
    <3>3. /\ TaskFits(txt, wrote, item, Failed(task)) /\ Failed(task).state = "failed"
          /\ \A s : RequestFits(txt, wrote, item, task, s) => RequestFits(txt, wrote, item, Failed(task), s)
      BY <2>3, <3>2, FailedFits, Zenon
    <3>4. Failed(task) \in Task
      BY <2>3 DEF Failed, Task
    <3>5. PICK failed : failed = Failed(task)
      OBVIOUS
    <3>6. Begun(txt, wrote, rs, i, item, failed)
      BY <2>3, <3>3, <3>4, <3>5 DEF Begun
    <3> QED
      BY <2>1, <3>1, <3>5, <3>6
  <2>5. CASE ~Refuses(txt, rs, i)
    <3>1. new[i] = task
      BY <1>2, <2>1, <2>5
    <3>2. item.long => chunking
      BY <2>1, <2>5 DEF Refuses
    <3>3. Lacks(item, task) = Asked(txt, item)
      BY <2>3, <3>2 DEF Asked
    <3>4. Begun(txt, wrote, rs, i, item, task)
      BY <2>3, <2>5, <3>3 DEF Begun
    <3> QED
      BY <2>1, <3>1, <3>4
  <2> QED
    BY <2>4, <2>5
<1>4. ASSUME NEW i \in 1 .. n PROVE new[i] \in Task
  BY <1>3 DEF Begun
<1>5. new = [i \in 1 .. n |-> new[i]]
  BY <1>2
<1>6. new \in Seq(Task)
  BY <1>4, <1>5
<1> QED
  BY <1>1, <1>2, <1>3, <1>6

\* What a call of encode does to the queues and its tasks.
Starts(c, txt, rs, m, new) ==
    /\ phase[c] = "idle" /\ Good(txt) /\ Requested(rs, c, txt) /\ PostedFirst(rs, m)
    /\ text' = [text EXCEPT ![c] = txt] /\ tasks' = [tasks EXCEPT ![c] = new]
    /\ queue' = [w \in Worker |-> queue[w] \o m[w]]
    /\ DOMAIN new = DOMAIN Items(txt) /\ \A i \in DOMAIN new : Begun(txt, written[c], rs, i, Items(txt)[i], new[i])
    /\ written' = written /\ failure' = failure /\ closed' = closed

\* What is in the queues then.
LEMMA StartsQueues ==
    ASSUME Types, Work, NEW c \in Call, NEW txt, NEW rs, NEW m, NEW new, Starts(c, txt, rs, m, new)
    PROVE  /\ queue' \in Queues /\ Distinct(queue') /\ \A r : In(queue', r) <=> In(queue, r) \/ In(m, r)
           /\ \A r : In(queue, r) => r.call \in Call /\ r.call # c
           /\ \A r : In(m, r) <=> \E k \in DOMAIN rs : r = rs[k] /\ ~failure[Later(k - 1)]
           /\ \A k \in DOMAIN rs : rs[k].call = c
           /\ \A w \in Worker : failure[w] => queue'[w] = <<>>
<1>1. queue \in Queues /\ Distinct(queue) /\ AllFit(queue, text, written, tasks)
  BY QueueParts DEF Types, Queues, Work
<1>2. /\ m \in Queues /\ Distinct(m) /\ \A w \in Worker : failure[w] => m[w] = <<>>
      /\ \A r : In(m, r) <=> \E k \in DOMAIN rs : r = rs[k] /\ ~failure[Later(k - 1)]
  BY DEF Starts, PostedFirst
<1>3. \A k \in DOMAIN rs : rs[k].call = c
  BY DEF Starts, Requested, ForItem
<1>4. ASSUME NEW r, In(queue, r) PROVE r.call \in Call /\ r.call # c
  <2>1. r.call \in Call /\ r.item \in DOMAIN tasks[r.call]
    BY <1>1, <1>4, InType DEF AllFit, Fitting
  <2>2. text[c] = <<>>
    BY Zenon DEF Starts, Work, PhasesFit
  <2>3. DOMAIN tasks[c] = {}
    BY <2>2, ItemsEmpty DEF Work, TasksFit
  <2> QED
    BY <2>1, <2>3
<1>5. Apart(queue, m)
  BY <1>2, <1>3, <1>4 DEF Apart, Same
<1>6. PICK t : t = [w \in Worker |-> queue[w] \o m[w]]
  BY Zenon
<1>7. /\ t \in Queues /\ \A r : In(t, r) <=> In(queue, r) \/ In(m, r)
      /\ Distinct(queue) /\ Distinct(m) /\ Apart(queue, m) => Distinct(t)
  <2>1. PICK q : q = queue
    OBVIOUS
  <2>2. q \in Queues /\ m \in Queues /\ t = [w \in Worker |-> q[w] \o m[w]]
    BY <1>1, <1>2, <1>6, <2>1
  <2>3. /\ t \in Queues /\ \A r : In(t, r) <=> In(q, r) \/ In(m, r)
        /\ Distinct(q) /\ Distinct(m) /\ Apart(q, m) => Distinct(t)
    BY <2>2, QueuesJoined, Zenon
  <2> QED
    BY <2>1, <2>3
<1>8. t = queue'
  BY <1>6 DEF Starts
<1>9. ASSUME NEW w \in Worker, failure[w] PROVE queue'[w] = <<>>
  <2>1. queue[w] = <<>> /\ m[w] = <<>>
    BY <1>2, <1>9 DEF Work, FailuresEmpty
  <2>2. queue'[w] = <<>> \o <<>>
    BY <1>6, <1>8, <2>1, Zenon
  <2> QED
    BY <2>2
<1> QED
  BY <1>1, <1>2, <1>3, <1>4, <1>5, <1>7, <1>8, <1>9

\* The tasks of an encode that begins fit what is posted for them.
LEMMA StartsWork ==
    ASSUME Types, Work, NEW c \in Call, NEW txt, NEW rs, NEW m, NEW new, Starts(c, txt, rs, m, new)
    PROVE  TasksFit' /\ RequestsFit' /\ RequestsUnique' /\ AllPosted' /\ FailuresEmpty'
<1>1. /\ queue' \in Queues /\ Distinct(queue') /\ \A r : In(queue', r) <=> In(queue, r) \/ In(m, r)
      /\ \A r : In(queue, r) => r.call \in Call /\ r.call # c
      /\ \A r : In(m, r) <=> \E k \in DOMAIN rs : r = rs[k] /\ ~failure[Later(k - 1)]
      /\ \A k \in DOMAIN rs : rs[k].call = c
      /\ \A w \in Worker : failure[w] => queue'[w] = <<>>
  BY StartsQueues
<1>2. /\ text' = [text EXCEPT ![c] = txt] /\ tasks' = [tasks EXCEPT ![c] = new]
      /\ written' = written /\ failure' = failure /\ closed' = closed
      /\ DOMAIN new = DOMAIN Items(txt)
  BY DEF Starts
<1>3. /\ text'[c] = txt /\ tasks'[c] = new
      /\ \A d \in Call : d # c => text'[d] = text[d] /\ tasks'[d] = tasks[d]
  BY <1>2 DEF Types
<1>4. \A i \in DOMAIN new : Begun(txt, written[c], rs, i, Items(txt)[i], new[i])
  BY DEF Starts
<1>5. TasksFit'
  <2>1. ASSUME NEW d \in Call
        PROVE  /\ DOMAIN tasks'[d] = DOMAIN Items(text'[d])
               /\ \A i \in DOMAIN tasks'[d] : TaskFits(text'[d], written[d], Items(text'[d])[i], tasks'[d][i])
    <3>1. CASE d = c
      BY <1>2, <1>3, <1>4, <3>1 DEF Begun
    <3>2. CASE d # c
      BY <1>3, <3>2 DEF Work, TasksFit
    <3> QED
      BY <3>1, <3>2
  <2> QED
    BY <1>2, <2>1 DEF TasksFit
<1>6. RequestsFit'
  <2>1. AllFit(queue, text, written, tasks)
    BY QueueParts DEF Work
  <2>2. ASSUME NEW r, In(queue', r) PROVE Fitting(text', written', tasks', r)
    <3>1. CASE In(queue, r)
      <4>1. r.call \in Call /\ r.call # c /\ Fitting(text, written, tasks, r)
        BY <1>1, <2>1, <3>1 DEF AllFit
      <4> QED
        BY <1>2, <1>3, <4>1 DEF Fitting
    <3>2. CASE In(m, r)
      <4>1. PICK k \in DOMAIN rs : r = rs[k]
        BY <1>1, <3>2
      <4>2. r.call = c /\ r.item \in DOMAIN Items(txt) /\ ForItem(c, txt, r.item, Items(txt)[r.item], r)
        BY <1>1, <4>1 DEF Starts, Requested
      <4>3. PICK i \in DOMAIN new : i = r.item
        BY <1>2, <4>2
      <4>4. RequestFits(txt, written[c], Items(txt)[i], new[i], r)
        BY <1>4, <4>2, <4>3 DEF Begun
      <4> QED
        BY <1>2, <1>3, <4>2, <4>3, <4>4 DEF Fitting
    <3> QED
      BY <1>1, <2>2, <3>1, <3>2
  <2>3. AllFit(queue', text', written', tasks')
    BY <2>2 DEF AllFit
  <2> QED
    BY <2>3, QueuePartsNext
<1>7. RequestsUnique'
  BY <1>1, QueuePartsNext
<1>8. AllPosted'
  <2>1. ASSUME NEW d \in Call, NEW i \in DOMAIN tasks'[d], Unsettled(tasks'[d][i])
        PROVE  /\ Lacks(Items(text'[d])[i], tasks'[d][i]) # {}
               /\ \A part \in Lacks(Items(text'[d])[i], tasks'[d][i]) : PostedIn(queue', d, i, part)
    <3>1. CASE d = c
      <4>1. i \in DOMAIN new /\ Begun(txt, written[c], rs, i, Items(txt)[i], new[i]) /\ Unsettled(new[i])
        BY <1>3, <1>4, <2>1, <3>1
      <4>2. new[i].state = "encoding"
        BY <4>1 DEF Begun, Unsettled
      <4>3. /\ ~Refuses(txt, rs, i) /\ Lacks(Items(txt)[i], new[i]) = Asked(txt, Items(txt)[i])
            /\ Lacks(Items(txt)[i], new[i]) # {}
        BY <4>1, <4>2 DEF Begun
      <4>4. ASSUME NEW part \in Asked(txt, Items(txt)[i]) PROVE PostedIn(queue', c, i, part)
        <5>1. PICK k \in DOMAIN rs : rs[k].item = i /\ rs[k].part = part
          BY <1>2, <4>1 DEF Starts, Requested
        <5>2. ~failure[Later(k - 1)]
          BY <4>3, <5>1 DEF Refuses
        <5>3. In(queue', rs[k])
          BY <1>1, <5>2
        <5> QED
          BY <1>1, <5>1, <5>3 DEF PostedIn
      <4> QED
        BY <1>3, <3>1, <4>3, <4>4
    <3>2. CASE d # c
      <4>1. text'[d] = text[d] /\ tasks'[d] = tasks[d]
        BY <1>3, <3>2
      <4>2. /\ Lacks(Items(text[d])[i], tasks[d][i]) # {}
            /\ \A part \in Lacks(Items(text[d])[i], tasks[d][i]) : PostedIn(queue, d, i, part)
        BY <2>1, <4>1, QueueParts DEF Work, AllPosted
      <4>3. \A part : PostedIn(queue, d, i, part) => PostedIn(queue', d, i, part)
        BY <1>1 DEF PostedIn
      <4> QED
        BY <4>1, <4>2, <4>3
    <3> QED
      BY <3>1, <3>2
  <2> QED
    BY <2>1, QueuePartsNext DEF AllPosted
<1>9. FailuresEmpty'
  BY <1>1, <1>2 DEF Work, FailuresEmpty
<1> QED
  BY <1>5, <1>6, <1>7, <1>8, <1>9

\* A call that begins with nothing posted has counted nothing.
LEMMA NothingCounted ==
    ASSUME NEW txt, Good(txt), NEW wrote, NEW rs, NEW ts \in Seq(Task), DOMAIN ts = DOMAIN Items(txt), ~HasFailed(ts),
           \A i \in DOMAIN ts : Begun(txt, wrote, rs, i, Items(txt)[i], ts[i])
    PROVE  Total(CountsOf(txt, ts)) = 0
<1>1. AllTasksFit(txt, wrote, ts)
  BY DEF AllTasksFit, Begun
<1>2. PICK s \in Seq(Nat) : s = CountsOf(txt, ts)
  BY <1>1, CountsType
<1>3. \A i \in DOMAIN ts : Counted(txt, Items(txt)[i], ts[i]) = 0
  BY DEF Begun, HasFailed
<1>4. \A i \in DOMAIN s : s[i] = 0
  BY <1>2, <1>3 DEF CountsOf
<1> QED
  BY <1>2, <1>4, TotalZero

\* The beginning of an encode keeps the invariant.
LEMMA StartInv ==
    ASSUME IInv, NEW c \in Call, NEW txt \in Texts, Start(c, txt)
    PROVE  IInv'
<1>1. PICK rs : rs = Requests(c, txt, 0)
  OBVIOUS
<1>2. PICK new : new = BegunTasks(txt, rs)
  OBVIOUS
<1>3. PICK m : m = [w \in Worker |-> IF failure[w] THEN <<>> ELSE Assigned(rs, w)]
  BY Zenon
<1>4. /\ phase[c] = "idle" /\ ~closed /\ txt # NotText
      /\ text' = [text EXCEPT ![c] = txt] /\ queue' = [w \in Worker |-> CallWorker(w, rs)]
      /\ nextWorker' = Later(Len(rs)) /\ poolTasks' = 0 /\ active' = {}
      /\ alone' = [d \in Call |-> IF d = c THEN \A w \in Worker : queue[w] = <<>> ELSE alone[d] /\ phase[d] # "awaiting"]
      /\ chunking' = chunking /\ written' = written /\ failure' = failure /\ closed' = closed
  BY <1>1 DEF Start, ResetTelemetry
<1>5. Conclude(Awaiting \union {c}, [tasks EXCEPT ![c] = new])
  BY <1>1, <1>2 DEF Start, BegunTasks, Refuses
<1>6. Types /\ Work /\ Telemetry /\ PhasesFit
  BY DEF IInv, Work
<1>7. Good(txt)
  BY <1>4, TextAssumption, IdCountAssumption DEF Good
<1>8. Requested(rs, c, txt) /\ rs \in Seq(Request)
  BY <1>1, <1>7, RequestsFacts DEF Requested
<1>9. nextWorker \in Worker
  BY <1>6 DEF Types
<1>10. PostedFirst(rs, m)
  BY <1>3, <1>8, <1>9, RoundRobin
<1>11. queue' = [w \in Worker |-> queue[w] \o m[w]]
  <2>1. ASSUME NEW w \in Worker PROVE CallWorker(w, rs) = queue[w] \o m[w]
    <3>1. CASE failure[w]
      <4>1. m[w] = <<>> /\ queue[w] \in Seq(Request) /\ CallWorker(w, rs) = queue[w]
        BY <1>3, <1>6, <3>1 DEF Types, CallWorker
      <4>2. queue[w] \o <<>> = queue[w]
        BY <4>1
      <4> QED
        BY <4>1, <4>2
    <3>2. CASE ~failure[w]
      BY <1>3, <3>2, Zenon DEF CallWorker
    <3> QED
      BY <3>1, <3>2, Zenon
  <2> QED
    BY <1>4, <2>1, Zenon
<1>12. /\ new \in Seq(Task) /\ DOMAIN new = DOMAIN Items(txt)
       /\ \A i \in DOMAIN new : Begun(txt, written[c], rs, i, Items(txt)[i], new[i])
  BY <1>2, <1>7, BegunFacts, Zenon
<1>13. tasks' = [tasks EXCEPT ![c] = new]
  BY <1>5, ConcludeTasks
<1>14. Starts(c, txt, rs, m, new)
  BY <1>4, <1>7, <1>8, <1>10, <1>11, <1>12, <1>13, Zenon DEF Starts
<1>15. TasksFit' /\ RequestsFit' /\ RequestsUnique' /\ AllPosted' /\ FailuresEmpty'
  BY <1>6, <1>14, StartsWork
<1>16. /\ queue' \in Queues /\ \A r : In(queue', r) <=> In(queue, r) \/ In(m, r)
       /\ \A r : In(m, r) <=> \E k \in DOMAIN rs : r = rs[k] /\ ~failure[Later(k - 1)]
       /\ \A k \in DOMAIN rs : rs[k].call = c
  BY <1>6, <1>14, StartsQueues
<1>17. /\ text \in [Call -> Seq(Nat \ {0})] /\ tasks \in [Call -> Seq(Task)] /\ written \in [Call -> {0, 1}]
       /\ \A d \in Call : Good(text[d])
  BY <1>6 DEF Types
<1>18. /\ text'[c] = txt /\ tasks'[c] = new
       /\ \A d \in Call : d # c => text'[d] = text[d] /\ tasks'[d] = tasks[d]
  BY <1>4, <1>13, <1>17
<1>19. text' \in [Call -> Seq(Nat \ {0})] /\ \A d \in Call : Good(text'[d])
  <2>1. txt \in Seq(Nat \ {0})
    BY <1>7 DEF Good
  <2> QED
    BY <1>4, <1>7, <1>17, <1>18, <2>1
<1>20. tasks' \in [Call -> Seq(Task)]
  BY <1>12, <1>13, <1>17
<1>21. Concluding(Awaiting \union {c}, tasks')
  <2>1. Awaiting \union {c} \in SUBSET Call /\ \A d \in Awaiting \union {c} : phase[d] \in {"idle", "awaiting"}
    BY <1>4 DEF Awaiting
  <2>2. \A d \in Call \ (Awaiting \union {c}) : text'[d] = text[d] /\ tasks'[d] = tasks[d]
    BY <1>18
  <2>3. Conclude(Awaiting \union {c}, tasks')
    BY <1>5, <1>13
  <2> QED
    BY <1>4, <1>20, <2>1, <2>2, <2>3 DEF Concluding
<1>22. closed' \in BOOLEAN /\ poolTasks' \in Nat /\ active' \in SUBSET Worker
  BY <1>4, <1>6 DEF Types
<1>23. PhasesFit'
  BY <1>6, <1>21, <1>22, PhasesNext
<1>24. CallTypes'
  <2>1. CallTypes
    BY <1>6 DEF Types, CallTypes
  <2> QED
    BY <1>17, <1>19, <1>21, <1>22, <2>1, CallTypesNext, Zenon
<1>25. Telemetry'
  <2>1. ASSUME NEW d \in Awaiting \union {c}, alone'[d], ~HasFailed(tasks'[d]) PROVE Counting(d, tasks'[d])
    <3>1. d = c /\ \A w \in Worker : queue[w] = <<>>
      BY <1>4, <2>1, Zenon DEF Awaiting
    <3>2. \A r : ~In(queue, r)
      BY <3>1 DEF In
    <3>3. \A r : In(queue', r) => r.call = c
      BY <1>16, <3>2
    <3>4. Total(CountsOf(txt, new)) = 0
      BY <1>7, <1>12, <1>18, <2>1, <3>1, NothingCounted, Zenon
    <3>5. Cardinality(active') = 0
      BY <1>4, FS_EmptySet
    <3> QED
      BY <1>4, <1>18, <3>1, <3>3, <3>4, <3>5 DEF Counting
  <2>2. \A d \in Call : alone'[d] => d \in Awaiting \union {c} \/ alone[d]
    BY <1>4, Zenon
  <2> QED
    BY <1>6, <1>15, <1>19, <1>21, <1>22, <2>1, <2>2, TelemetryNext
<1>26. alone' \in [Call -> BOOLEAN]
  BY <1>4, <1>6, Zenon DEF Types
<1>27. nextWorker' \in Worker
  <2>1. Len(rs) \in Nat
    BY <1>8
  <2> QED
    BY <1>4, <1>9, <2>1, LaterType
<1>28. Types'
  BY <1>4, <1>6, <1>16, <1>19, <1>22, <1>24, <1>26, <1>27, Zenon DEF Types, CallTypes, Queues
<1> QED
  BY <1>15, <1>23, <1>25, <1>28 DEF IInv, Work

(***************************************************************************)
(* The theorems                                                            *)
(***************************************************************************)
\* Each action of the pool keeps the invariant, and so does a step that changes nothing.
LEMMA StepInv == IInv /\ [Next]_vars => IInv'
<1> SUFFICES ASSUME IInv, [Next]_vars PROVE IInv'
  OBVIOUS
<1>1. ASSUME NEW c \in Call, NEW txt \in Texts, Start(c, txt) PROVE IInv'
  BY <1>1, StartInv
<1>2. ASSUME NEW c \in Call, StartRefused(c) PROVE IInv'
  BY <1>2, StartRefusedInv
<1>3. ASSUME NEW c \in Call, ClientWrites(c) PROVE IInv'
  BY <1>3, ClientWritesInv
<1>4. ASSUME NEW w \in Worker, Deliver(w) PROVE IInv'
  BY <1>4, DeliverInv
<1>5. ASSUME NEW w \in Worker, WorkerFails(w) PROVE IInv'
  BY <1>5, WorkerFailsInv
<1>6. CASE Close
  BY <1>6, CloseInv
<1>7. CASE UNCHANGED vars
  <2>1. /\ chunking' = chunking /\ text' = text /\ written' = written /\ phase' = phase /\ tasks' = tasks
        /\ route' = route /\ answer' = answer /\ telemetry' = telemetry /\ alone' = alone /\ queue' = queue
        /\ failure' = failure /\ nextWorker' = nextWorker /\ poolTasks' = poolTasks /\ active' = active /\ closed' = closed
    BY <1>7 DEF vars, calls, pool
  <2>2. Types'
    BY <2>1 DEF IInv, Types
  <2>3. TasksFit' /\ RequestsUnique' /\ FailuresEmpty' /\ PhasesFit'
    BY <2>1 DEF IInv, Work, TasksFit, RequestsUnique, FailuresEmpty, PhasesFit
  <2>4. RequestsFit'
    BY <2>1, QueueParts, QueuePartsNext DEF IInv, Work
  <2>5. AllPosted'
    <3>1. \A d, i, part : Posted(d, i, part)' <=> Posted(d, i, part)
      BY <2>1 DEF Posted
    <3> QED
      BY <2>1, <3>1 DEF IInv, Work, AllPosted
  <2>6. Telemetry'
    <3>1. \A d \in Call : Counts(d)' = Counts(d)
      BY <2>1 DEF Counts
    <3> QED
      BY <2>1, <3>1 DEF IInv, Telemetry
  <2> QED
    BY <2>2, <2>3, <2>4, <2>5, <2>6 DEF IInv, Work
<1> QED
  BY <1>1, <1>2, <1>3, <1>4, <1>5, <1>6, <1>7 DEF Next

\* What tasks, requests and counts have to do with one another holds in every state of
\* the pool (encodeWithWorkers, encodeLongPretoken, RpcWorker and close).
THEOREM PoolInvariant == Spec => []IInv
BY InitInv, StepInv, PTL DEF Spec

\* What the workers answer is the ids of the text in its order, of the version that was
\* read when encode was called except for what was enlarged, whichever thread answered
\* which batch or chunk when (encodeWithWorkers, encodeLongPretoken, encodeBatch), and
\* what the fallback answers is of one version (encodeForTier).
THEOREM PoolAnswersInOrder == Spec => []AnswersInOrder
<1>1. IInv => AnswersInOrder
  BY OrderInvariant DEF IInv, Work
<1> QED
  BY <1>1, PoolInvariant, PTL

\* Whoever awaits the workers has something posted to them that will be answered or
\* rejected, after failures and close as well (RpcWorker.call, its error listener, close).
THEOREM PoolNothingStranded == Spec => []NothingStranded
<1>1. IInv => NothingStranded
  BY StrandedInvariant DEF IInv, Work
<1> QED
  BY <1>1, PoolInvariant, PTL

\* The telemetry of an encode that had the pool for itself counts each of its pretokens,
\* chunks and enlargements once (IndependentWorkerPool.encodeBatch, resetTelemetry).
THEOREM PoolTelemetryOfOne == Spec => []TelemetryOfOne
<1>1. IInv => TelemetryOfOne
  BY TelemetryInvariant DEF IInv
<1> QED
  BY <1>1, PoolInvariant, PTL
=============================================================================
