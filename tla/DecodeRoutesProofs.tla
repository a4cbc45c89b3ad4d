-------------------------- MODULE DecodeRoutesProofs --------------------------
(***************************************************************************)
(* What holds of the decoder of every configuration, for every vocabulary, *)
(* every array and every getter.                                           *)
(***************************************************************************)
EXTENDS DecodeRoutes, SequenceTheorems, WellFoundedInduction, FiniteSetTheorems, TLAPS

(***************************************************************************)
(* Numbers, recursion and folds: induction, with a least counterexample   *)
(***************************************************************************)

\* A set of natural numbers has a least member.
LEMMA LeastMember ==
    ASSUME NEW S \in SUBSET Nat, S # {}
    PROVE  \E m \in S : \A x \in S : m <= x
<1>1. PICK m \in S : \A x \in S : ~(<<x, m>> \in OpToRel(<, Nat))
  BY NatLessThanWellFounded, WFMin, Zenon
<1>2. ASSUME NEW x \in S PROVE m <= x
  <2>1. <<x, m>> \notin OpToRel(<, Nat)
    BY <1>1, Zenon
  <2>2. ~(x < m)
    BY <2>1 DEF OpToRel
  <2> QED
    BY <2>2
<1> QED
  BY <1>2

\* A set with 0 and with the successor of each member has every natural number.
LEMMA Induction ==
    ASSUME NEW S \in SUBSET Nat, 0 \in S, \A n \in S : n + 1 \in S
    PROVE  S = Nat
<1> SUFFICES ASSUME S # Nat PROVE FALSE
  OBVIOUS
<1>1. PICK n \in Nat \ S : \A m \in Nat \ S : n <= m
  BY LeastMember, Zenon
<1>2. n - 1 \in Nat /\ n - 1 \notin Nat \ S
  BY <1>1
<1> QED
  BY <1>1, <1>2

\* Its values when step[k] is applied for the k-th element, the last one first.
FoldsTo(g, n, base, step) ==
    \A r \in SUBSET (1 .. n) : g[r] = IF r = {} THEN base ELSE step[Max(r)][g[r \ {Max(r)}]]

\* The greatest of the first n numbers, and of some of them.
LEMMA Greatest ==
    ASSUME NEW n \in Nat \ {0}
    PROVE  /\ Max(1 .. n) = n /\ (1 .. n) \ {Max(1 .. n)} = 1 .. n - 1
           /\ \A r \in SUBSET (1 .. n) : n \in r => Max(r) = n /\ r \ {n} \in SUBSET (1 .. n - 1)
<1>1. ASSUME NEW r \in SUBSET (1 .. n), n \in r
      PROVE  Max(r) = n /\ r \ {n} \in SUBSET (1 .. n - 1)
  <2>1. n \in r /\ \A y \in r : n >= y
    BY <1>1
  <2>2. \A x \in r : (\A y \in r : x >= y) => x = n
    BY <1>1
  <2>3. Max(r) = n
    BY <2>1, <2>2, Zenon DEF Max
  <2> QED
    BY <1>1, <2>3
<1>2. 1 .. n \in SUBSET (1 .. n) /\ n \in 1 .. n /\ (1 .. n) \ {n} = 1 .. n - 1
  OBVIOUS
<1> QED
  BY <1>1, <1>2

\* A step for each element gives such a function.
LEMMA FoldExists ==
    ASSUME NEW State, NEW base \in State, NEW n \in Nat, NEW step \in [1 .. n -> [State -> State]]
    PROVE  \E g \in [SUBSET (1 .. n) -> State] : FoldsTo(g, n, base, step)
<1> DEFINE S == {m \in Nat : m <= n => \E g \in [SUBSET (1 .. m) -> State] : FoldsTo(g, m, base, step)}
<1>1. 0 \in S
  <2>1. 1 .. 0 = {}
    OBVIOUS
  <2>2. PICK g : g = [r \in SUBSET (1 .. 0) |-> base]
    BY Zenon
  <2>3. g \in [SUBSET (1 .. 0) -> State] /\ FoldsTo(g, 0, base, step)
    BY <2>1, <2>2 DEF FoldsTo
  <2> QED
    BY <2>3, Zenon
<1>2. ASSUME NEW m \in S PROVE m + 1 \in S
  <2> SUFFICES ASSUME m + 1 <= n
               PROVE  \E g \in [SUBSET (1 .. m + 1) -> State] : FoldsTo(g, m + 1, base, step)
    <3>1. m + 1 \in Nat
      BY <1>2
    <3> QED
      BY <3>1, Zenon
  <2>1. m \in Nat /\ m <= n /\ m + 1 \in 1 .. n /\ m + 1 \in Nat \ {0} /\ m + 1 - 1 = m
    OBVIOUS
  <2>2. PICK g \in [SUBSET (1 .. m) -> State] : FoldsTo(g, m, base, step)
    BY <2>1, Zenon
  <2>3. PICK h : h = [r \in SUBSET (1 .. m + 1) |-> IF m + 1 \in r THEN step[m + 1][g[r \ {m + 1}]] ELSE g[r]]
    BY Zenon
  <2>4. \A r \in SUBSET (1 .. m + 1) : m + 1 \in r => Max(r) = m + 1 /\ r \ {m + 1} \in SUBSET (1 .. m)
    BY <2>1, Greatest
  <2>5. \A r \in SUBSET (1 .. m + 1) : m + 1 \notin r => r \in SUBSET (1 .. m)
    BY <2>1
  <2>6. SUBSET (1 .. m) \subseteq SUBSET (1 .. m + 1)
    BY <2>1
  <2>7. step[m + 1] \in [State -> State]
    BY <2>1
  <2>8. \A r \in SUBSET (1 .. m + 1) : h[r] \in State
    BY <2>3, <2>4, <2>5, <2>7
  <2>9. h \in [SUBSET (1 .. m + 1) -> State]
    BY <2>3, <2>8
  <2>10. ASSUME NEW r \in SUBSET (1 .. m + 1)
         PROVE  h[r] = IF r = {} THEN base ELSE step[Max(r)][h[r \ {Max(r)}]]
    <3>1. CASE m + 1 \in r
      <4>1. Max(r) = m + 1 /\ r \ {m + 1} \in SUBSET (1 .. m) /\ r \ {m + 1} \in SUBSET (1 .. m + 1)
        BY <2>4, <2>6, <3>1
      <4>2. h[r \ {m + 1}] = g[r \ {m + 1}]
        BY <2>3, <4>1
      <4> QED
        BY <2>3, <3>1, <4>1, <4>2
    <3>2. CASE m + 1 \notin r
      <4>1. r \in SUBSET (1 .. m) /\ h[r] = g[r]
        BY <2>3, <2>5, <3>2
      <4>2. r \ {Max(r)} \in SUBSET (1 .. m) /\ r \ {Max(r)} \in SUBSET (1 .. m + 1) /\ m + 1 \notin r \ {Max(r)}
        BY <2>6, <3>2, <4>1, Zenon
      <4>3. h[r \ {Max(r)}] = g[r \ {Max(r)}]
        BY <2>3, <4>2
      <4> QED
        BY <2>2, <4>1, <4>3, Zenon DEF FoldsTo
    <3> QED
      BY <3>1, <3>2
  <2> QED
    BY <2>9, <2>10, Zenon DEF FoldsTo
<1>3. S = Nat
  <2> HIDE DEF S
  <2>1. S \in SUBSET Nat
    BY DEF S
  <2> QED
    BY <1>1, <1>2, <2>1, Induction
<1>4. n \in S
  <2> HIDE DEF S
  <2> QED
    BY <1>3
<1>5. n <= n
  OBVIOUS
<1> QED
  BY <1>4, <1>5, Zenon

\* The greatest of some numbers is one of them.
LEMMA GreatestIn ==
    ASSUME NEW n \in Nat, NEW r \in SUBSET (1 .. n), r # {}
    PROVE  Max(r) \in r
<1>1. PICK S \in SUBSET Nat : S = {n - x : x \in r}
  <2>1. \A x \in r : n - x \in Nat
    OBVIOUS
  <2> QED
    BY <2>1, Zenon
<1>2. S # {}
  BY <1>1, Zenon
<1>3. PICK m \in S : \A y \in S : m <= y
  BY <1>2, LeastMember
<1>4. PICK x \in r : m = n - x
  BY <1>1, <1>3
<1>5. \A y \in r : n - y \in S
  BY <1>1
<1>6. \A y \in r : x >= y
  BY <1>3, <1>4, <1>5
<1> QED
  BY <1>6, Zenon DEF Max

\* The first k numbers.
LEMMA FirstNumbers ==
    ASSUME NEW n \in Nat, NEW k \in 1 .. n
    PROVE  /\ 1 .. k \in SUBSET (1 .. n) /\ 1 .. k # {} /\ Max(1 .. k) = k /\ (1 .. k) \ {Max(1 .. k)} = 1 .. k - 1
           /\ 1 .. k - 1 \in SUBSET (1 .. n) /\ k - 1 \in 0 .. n /\ k \in 0 .. n
<1>1. k \in Nat \ {0}
  OBVIOUS
<1>2. Max(1 .. k) = k /\ (1 .. k) \ {Max(1 .. k)} = 1 .. k - 1
  BY <1>1, Greatest
<1>3. 1 .. k \in SUBSET (1 .. n) /\ k \in 1 .. k /\ 1 .. k - 1 \in SUBSET (1 .. n) /\ k - 1 \in 0 .. n /\ k \in 0 .. n
  OBVIOUS
<1> QED
  BY <1>2, <1>3

\* What holds of 0 and passes from each number below n to the next holds up to n.
LEMMA UpTo ==
    ASSUME NEW n \in Nat, NEW S, 0 \in S, \A k \in 0 .. n - 1 : k \in S => k + 1 \in S
    PROVE  0 .. n \subseteq S
<1>1. PICK T \in SUBSET Nat : T = {k \in Nat : k <= n => k \in S}
  BY Zenon
<1>2. 0 \in T /\ \A k \in T : k + 1 \in T
  <2>1. 0 \in T
    BY <1>1
  <2>2. ASSUME NEW k \in T PROVE k + 1 \in T
    <3>1. k + 1 \in Nat
      OBVIOUS
    <3>2. ASSUME k + 1 <= n PROVE k + 1 \in S
      <4>1. k \in 0 .. n - 1 /\ k <= n
        BY <3>2
      <4> QED
        BY <1>1, <4>1
    <3> QED
      BY <1>1, <3>1, <3>2
  <2> QED
    BY <2>1, <2>2
<1>3. T = Nat
  BY <1>2, Induction
<1> QED
  BY <1>1, <1>3

\* What holds of the empty sequence and passes from each to those with one element more.
LEMMA SeqInduction ==
    ASSUME NEW S, NEW T, <<>> \in T, \A s \in Seq(S), e \in S : s \in T => Append(s, e) \in T
    PROVE  Seq(S) \subseteq T
<1>1. PICK N \in SUBSET Nat : N = {n \in Nat : \A s \in Seq(S) : Len(s) = n => s \in T}
  BY Zenon
<1>2. 0 \in N
  <2>1. \A s \in Seq(S) : Len(s) = 0 => s = <<>>
    OBVIOUS
  <2> QED
    BY <1>1, <2>1
<1>3. ASSUME NEW n \in N PROVE n + 1 \in N
  <2>1. n + 1 \in Nat
    OBVIOUS
  <2>2. ASSUME NEW s \in Seq(S), Len(s) = n + 1 PROVE s \in T
    <3>1. s # <<>>
      BY <2>2
    <3>2. PICK t \in Seq(S), e \in S : s = Append(t, e)
      BY <3>1, SequenceEmptyOrAppend, Zenon
    <3>3. Len(t) = n
      BY <2>2, <3>2
    <3>4. t \in T
      BY <1>1, <3>3
    <3> QED
      BY <3>2, <3>4
  <2> QED
    BY <1>1, <2>1, <2>2
<1>4. N = Nat
  BY <1>2, <1>3, Induction
<1>5. ASSUME NEW s \in Seq(S) PROVE s \in T
  <2>1. Len(s) \in Nat
    OBVIOUS
  <2> QED
    BY <1>1, <1>4, <2>1
<1> QED
  BY <1>5

\* f begins with base, and step[k] leads from its value for k - 1 to that for k.
Follows(f, n, base, step) == f[0] = base /\ \A k \in 1 .. n : f[k] = step[k][f[k - 1]]

\* A function may be defined on the first numbers by what it is for the one before.
LEMMA RecursionExists ==
    ASSUME NEW State, NEW base \in State, NEW n \in Nat, NEW step \in [1 .. n -> [State -> State]]
    PROVE  \E f \in [0 .. n -> State] : Follows(f, n, base, step)
<1>1. PICK g \in [SUBSET (1 .. n) -> State] : FoldsTo(g, n, base, step)
  BY FoldExists
<1>2. PICK f : f = [k \in 0 .. n |-> g[1 .. k]]
  BY Zenon
<1>3. f[0] = base
  <2>1. 1 .. 0 = {} /\ {} \in SUBSET (1 .. n) /\ 0 \in 0 .. n
    OBVIOUS
  <2> QED
    BY <1>1, <1>2, <2>1, Zenon DEF FoldsTo
<1>4. ASSUME NEW k \in 1 .. n PROVE f[k] = step[k][f[k - 1]]
  <2>1. 1 .. k \in SUBSET (1 .. n) /\ 1 .. k # {} /\ Max(1 .. k) = k /\ (1 .. k) \ {Max(1 .. k)} = 1 .. k - 1
        /\ k - 1 \in 0 .. n /\ k \in 0 .. n
    BY FirstNumbers, Zenon
  <2>2. g[1 .. k] = step[Max(1 .. k)][g[(1 .. k) \ {Max(1 .. k)}]]
    BY <1>1, <2>1, Zenon DEF FoldsTo
  <2> QED
    BY <1>2, <2>1, <2>2, Zenon
<1>5. f \in [0 .. n -> State]
  <2>1. \A k \in 0 .. n : 1 .. k \in SUBSET (1 .. n)
    OBVIOUS
  <2> QED
    BY <1>2, <2>1, Zenon
<1>6. Follows(f, n, base, step)
  BY <1>3, <1>4 DEF Follows
<1> QED
  BY <1>5, <1>6

\* The same steps from the same start lead to the same values.
LEMMA FollowsUnique ==
    ASSUME NEW n \in Nat, NEW base, NEW step, NEW f, NEW g, NEW m \in 0 .. n,
           Follows(f, n, base, step), Follows(g, m, base, step)
    PROVE  \A k \in 0 .. m : f[k] = g[k]
<1>1. PICK T : T = {k \in 0 .. m : f[k] = g[k]}
  BY Zenon
<1>2. 0 \in T
  BY <1>1 DEF Follows
<1>3. ASSUME NEW k \in 0 .. m - 1, k \in T PROVE k + 1 \in T
  <2>1. PICK i \in 1 .. m : i = k + 1
    OBVIOUS
  <2>2. i \in 1 .. n /\ i - 1 = k /\ i \in 0 .. m
    BY <2>1
  <2>3. f[i] = step[i][f[k]] /\ g[i] = step[i][g[k]]
    BY <2>2 DEF Follows
  <2>4. f[k] = g[k]
    BY <1>1, <1>3
  <2>5. f[i] = g[i]
    BY <2>3, <2>4
  <2> QED
    BY <1>1, <2>1, <2>2, <2>5
<1>4. \A k \in 0 .. m - 1 : k \in T => k + 1 \in T
  BY <1>3, Zenon
<1>5. 0 .. m \subseteq T
  <2>1. m \in Nat
    OBVIOUS
  <2> QED
    BY <1>2, <1>4, <2>1, UpTo, Zenon
<1> QED
  BY <1>1, <1>5, Zenon

\* For each element, what becomes of a state.
Steps(step, S, State) == step \in [S -> [State -> State]]

\* The values of a fold of s along the functions of step, and the last of them.
Stages(f, step, base, s) == Follows(f, Len(s), base, [k \in 1 .. Len(s) |-> step[s[k]]])
FoldOf(State, step, base, s) ==
    CHOOSE v : \E f \in [0 .. Len(s) -> State] : Stages(f, step, base, s) /\ v = f[Len(s)]

\* A fold is the last of its stages, whichever they are called.
LEMMA FoldOfStages ==
    ASSUME NEW State, NEW S, NEW step, Steps(step, S, State), NEW base \in State, NEW s \in Seq(S)
    PROVE  /\ \E f \in [0 .. Len(s) -> State] : Stages(f, step, base, s) /\ FoldOf(State, step, base, s) = f[Len(s)]
           /\ \A f : Stages(f, step, base, s) => FoldOf(State, step, base, s) = f[Len(s)]
           /\ FoldOf(State, step, base, s) \in State
<1>1. PICK n \in Nat : n = Len(s)
  OBVIOUS
<1>2. PICK steps : steps = [k \in 1 .. n |-> step[s[k]]]
  BY Zenon
<1>3. \A k \in 1 .. n : s[k] \in S
  BY <1>1
<1>4. steps \in [1 .. n -> [State -> State]]
  BY <1>2, <1>3, Zenon DEF Steps
<1>5. PICK f \in [0 .. n -> State] : Follows(f, n, base, steps)
  BY <1>4, RecursionExists, Zenon
<1>6. \A g : Stages(g, step, base, s) <=> Follows(g, n, base, steps)
  BY <1>1, <1>2, Zenon DEF Stages
<1>7. \E v : \E g \in [0 .. Len(s) -> State] : Stages(g, step, base, s) /\ v = g[Len(s)]
  BY <1>1, <1>5, <1>6, Zenon
<1>8. PICK g \in [0 .. Len(s) -> State] : Stages(g, step, base, s) /\ FoldOf(State, step, base, s) = g[Len(s)]
  BY <1>7, Zenon DEF FoldOf
<1>9. ASSUME NEW h, Stages(h, step, base, s) PROVE FoldOf(State, step, base, s) = h[Len(s)]
  <2>1. Follows(g, n, base, steps) /\ Follows(h, n, base, steps)
    BY <1>6, <1>8, <1>9, Zenon
  <2>2. n \in 0 .. n
    OBVIOUS
  <2>3. g[n] = h[n]
    BY <2>1, <2>2, FollowsUnique
  <2> QED
    BY <1>1, <1>8, <2>3, Zenon
<1>10. FoldOf(State, step, base, s) \in State
  <2>1. n \in 0 .. n
    OBVIOUS
  <2> QED
    BY <1>1, <1>8, <2>1, Zenon
<1> QED
  BY <1>8, <1>9, <1>10, Zenon

\* A fold begins with the base, and one element more is one step more.
LEMMA FoldOfEmpty ==
    ASSUME NEW State, NEW S, NEW step, Steps(step, S, State), NEW base \in State
    PROVE  FoldOf(State, step, base, <<>>) = base
<1>1. PICK e \in Seq(S) : e = <<>> /\ Len(e) = 0
  <2>1. <<>> \in Seq(S) /\ Len(<<>>) = 0
    BY EmptySeq
  <2> QED
    BY <2>1, Zenon
<1>2. PICK f : Stages(f, step, base, e) /\ FoldOf(State, step, base, e) = f[Len(e)]
  BY FoldOfStages
<1> QED
  BY <1>1, <1>2, Zenon DEF Stages, Follows

\* One element more is one step more.
LEMMA FoldOfAppend ==
    ASSUME NEW State, NEW S, NEW step, Steps(step, S, State), NEW base \in State, NEW s \in Seq(S), NEW x \in S
    PROVE  FoldOf(State, step, base, Append(s, x)) = step[x][FoldOf(State, step, base, s)]
<1>1. PICK n \in Nat : n = Len(s)
  OBVIOUS
<1>2. PICK t \in Seq(S) : t = Append(s, x)
  BY AppendProperties, Zenon
<1>3. Len(t) = n + 1 /\ t[n + 1] = x /\ \A k \in 1 .. n : t[k] = s[k]
  BY <1>1, <1>2
<1>4. PICK f : Stages(f, step, base, t) /\ FoldOf(State, step, base, t) = f[n + 1]
  BY <1>3, FoldOfStages
<1>5. f[0] = base /\ \A k \in 1 .. n + 1 : f[k] = step[t[k]][f[k - 1]]
  BY <1>3, <1>4 DEF Stages, Follows
<1>6. Stages(f, step, base, s)
  <2>1. \A k \in 1 .. n : k \in 1 .. n + 1
    OBVIOUS
  <2>2. PICK steps : steps = [k \in 1 .. n |-> step[s[k]]]
    BY Zenon
  <2>3. \A k \in 1 .. n : f[k] = steps[k][f[k - 1]]
    BY <1>3, <1>5, <2>1, <2>2
  <2>4. Follows(f, n, base, steps)
    BY <1>5, <2>3 DEF Follows
  <2> QED
    BY <1>1, <2>2, <2>4, Zenon DEF Stages
<1>7. FoldOf(State, step, base, s) = f[n]
  BY <1>1, <1>6, FoldOfStages
<1>8. n + 1 \in 1 .. n + 1 /\ (n + 1) - 1 = n
  OBVIOUS
<1>9. f[n + 1] = step[x][f[n]]
  BY <1>3, <1>5, <1>8
<1> QED
  BY <1>2, <1>4, <1>7, <1>9

\* Folding one sequence after another.
LEMMA FoldOfConcat ==
    ASSUME NEW State, NEW S, NEW step, Steps(step, S, State), NEW base \in State, NEW s \in Seq(S), NEW t \in Seq(S)
    PROVE  FoldOf(State, step, base, s \o t) = FoldOf(State, step, FoldOf(State, step, base, s), t)
<1>1. PICK mid \in State : mid = FoldOf(State, step, base, s)
  BY FoldOfStages
<1>2. PICK T : T = {u \in Seq(S) : FoldOf(State, step, base, s \o u) = FoldOf(State, step, mid, u)}
  BY Zenon
<1>3. <<>> \in T
  <2>1. <<>> \in Seq(S) /\ s \o <<>> = s
    OBVIOUS
  <2>2. FoldOf(State, step, mid, <<>>) = mid
    BY FoldOfEmpty
  <2> QED
    BY <1>1, <1>2, <2>1, <2>2
<1>4. ASSUME NEW u \in Seq(S), NEW x \in S, u \in T PROVE Append(u, x) \in T
  <2>1. PICK v \in Seq(S) : v = s \o u
    BY ConcatProperties, Zenon
  <2>2. s \o Append(u, x) = Append(v, x) /\ Append(u, x) \in Seq(S)
    BY <2>1
  <2>3. FoldOf(State, step, base, v) = FoldOf(State, step, mid, u)
    BY <1>2, <1>4, <2>1
  <2>4. FoldOf(State, step, base, Append(v, x)) = step[x][FoldOf(State, step, base, v)]
    BY FoldOfAppend
  <2>5. FoldOf(State, step, mid, Append(u, x)) = step[x][FoldOf(State, step, mid, u)]
    BY FoldOfAppend
  <2>6. FoldOf(State, step, base, s \o Append(u, x)) = FoldOf(State, step, mid, Append(u, x))
    BY <2>2, <2>3, <2>4, <2>5
  <2> QED
    BY <1>2, <2>2, <2>6
<1>5. Seq(S) \subseteq T
  BY <1>3, <1>4, SeqInduction
<1> QED
  BY <1>1, <1>2, <1>5

\* FlattenSeq joins one after the other.
Joining(S) == [x \in Seq(S) |-> [joined \in Seq(S) |-> joined \o x]]

\* FlattenSeq is a fold.
LEMMA Flattens ==
    ASSUME NEW S, NEW ss \in Seq(Seq(S))
    PROVE  FlattenSeq(ss) = FoldOf(Seq(S), Joining(S), <<>>, ss)
<1>1. PICK n \in Nat : n = Len(ss)
  OBVIOUS
<1>2. PICK State : State = Seq(S)
  OBVIOUS
<1>3. PICK step : step = [k \in 1 .. n |-> [x \in State |-> x \o ss[k]]]
  BY Zenon
<1>4. \A k \in 1 .. n : ss[k] \in State
  BY <1>1, <1>2
<1>5. <<>> \in State /\ \A x, y \in State : x \o y \in State /\ <<>> \o y = y
  BY <1>2
<1>6. step \in [1 .. n -> [State -> State]]
  BY <1>3, <1>4, <1>5
<1>7. PICK f \in [0 .. n -> State] : Follows(f, n, <<>>, step)
  <2>1. <<>> \in State
    BY <1>5
  <2> QED
    BY <2>1, <1>6, RecursionExists, Zenon
<1>8. \A k \in 1 .. n : k - 1 \in 0 .. n /\ k \in 0 .. n
  OBVIOUS
<1>9. \A k \in 1 .. n : f[k] = f[k - 1] \o ss[k]
  BY <1>3, <1>7, <1>8 DEF Follows
<1>10. f[0] = <<>>
  BY <1>7 DEF Follows
<1>11. FlattenSeq(ss) = f[n]
  <2>1. CASE n = 0
    <3>1. ss = <<>>
      BY <1>1, <2>1, EmptySeq
    <3> QED
      BY <1>1, <1>10, <2>1, <3>1, Zenon DEF FlattenSeq
  <2>2. CASE n # 0
    <3> DEFINE Flat(h) == h = [i \in 1 .. n |-> IF i = 1 THEN ss[i] ELSE h[i - 1] \o ss[i]]
    <3>1. PICK g : g = [i \in 1 .. n |-> f[i]]
      BY Zenon
    <3>2. Flat(g)
      <4>1. ASSUME NEW i \in 1 .. n PROVE g[i] = IF i = 1 THEN ss[i] ELSE g[i - 1] \o ss[i]
        <5>1. CASE i = 1
          <6>1. i - 1 = 0
            BY <5>1
          <6>2. f[i] = <<>> \o ss[i] /\ ss[i] \in State
            BY <1>4, <1>9, <1>10, <6>1
          <6> QED
            BY <1>5, <3>1, <5>1, <6>2
        <5>2. CASE i # 1
          <6>1. i - 1 \in 1 .. n
            BY <5>2
          <6> QED
            BY <1>9, <3>1, <5>2, <6>1
        <5> QED
          BY <5>1, <5>2
      <4> QED
        BY <3>1, <4>1, Zenon
    <3>3. PICK it : it = CHOOSE h : Flat(h)
      BY Zenon
    <3>4. Flat(it)
      BY <3>2, <3>3, Zenon
    <3>5. FlattenSeq(ss) = it[n]
      BY <1>1, <2>2, <3>3, Zenon DEF FlattenSeq
    <3>6. \A i \in 1 .. n : it[i] = IF i = 1 THEN ss[i] ELSE it[i - 1] \o ss[i]
      BY <3>4, Zenon
    <3>7. \A i \in 1 .. n : g[i] = IF i = 1 THEN ss[i] ELSE g[i - 1] \o ss[i]
      BY <3>2, Zenon
    <3>8. PICK T : T = {k \in 0 .. n : k # 0 => it[k] = g[k]}
      BY Zenon
    <3>9. 0 \in T
      BY <3>8
    <3>10. ASSUME NEW k \in 0 .. n - 1, k \in T PROVE k + 1 \in T
      <4>1. PICK i \in 1 .. n : i = k + 1
        OBVIOUS
      <4>2. i - 1 = k /\ i \in 0 .. n
        BY <4>1
      <4>3. i # 1 => it[i - 1] = g[i - 1]
        BY <3>8, <3>10, <4>1, <4>2
      <4>4. it[i] = g[i]
        BY <3>6, <3>7, <4>3
      <4> QED
        BY <3>8, <4>1, <4>2, <4>4
    <3>11. n \in T
      <4>1. \A k \in 0 .. n - 1 : k \in T => k + 1 \in T
        BY <3>10, Zenon
      <4>2. 0 .. n \subseteq T
        BY <3>9, <4>1, UpTo, Zenon
      <4> QED
        BY <4>2
    <3> QED
      BY <2>2, <3>1, <3>5, <3>8, <3>11
  <2> QED
    BY <2>1, <2>2
<1>12. Steps(Joining(S), State, State)
  BY <1>2, <1>5 DEF Joining, Steps
<1>13. Stages(f, Joining(S), <<>>, ss)
  <2>1. PICK steps : steps = [k \in 1 .. n |-> Joining(S)[ss[k]]]
    BY Zenon
  <2>2. steps = step
    BY <1>2, <1>3, <1>4, <2>1 DEF Joining
  <2> QED
    BY <1>1, <1>7, <2>1, <2>2, Zenon DEF Stages
<1> QED
  <2>1. <<>> \in State /\ ss \in Seq(State)
    BY <1>2, <1>5
  <2> QED
    BY <1>1, <1>2, <1>11, <1>12, <1>13, <2>1, FoldOfStages

\* What sequences of sequences join to.
LEMMA FlattenEmpty == FlattenSeq(<<>>) = <<>>
<1>1. Len(<<>>) = 0
  OBVIOUS
<1> QED
  BY <1>1, Zenon DEF FlattenSeq

\* Joining is a step from sequences to sequences.
LEMMA JoiningSteps ==
    ASSUME NEW S
    PROVE  Steps(Joining(S), Seq(S), Seq(S)) /\ <<>> \in Seq(S)
           /\ \A x, y \in Seq(S) : Joining(S)[x][y] = y \o x
<1>1. <<>> \in Seq(S) /\ \A x, y \in Seq(S) : y \o x \in Seq(S)
  OBVIOUS
<1> QED
  BY <1>1 DEF Joining, Steps

\* Sequences of a set join to one of that set.
LEMMA FlattenIsSeq ==
    ASSUME NEW S, NEW ss \in Seq(Seq(S))
    PROVE  FlattenSeq(ss) \in Seq(S)
<1>1. PICK T : T = Seq(S)
  OBVIOUS
<1>2. PICK base \in T : base = <<>>
  BY <1>1, JoiningSteps
<1>3. Steps(Joining(S), T, T) /\ ss \in Seq(T)
  BY <1>1, JoiningSteps
<1>4. FoldOf(T, Joining(S), base, ss) \in T
  BY <1>3, FoldOfStages
<1> QED
  BY <1>1, <1>2, <1>4, Flattens

\* One sequence more stands behind the others.
LEMMA FlattenAppend ==
    ASSUME NEW S, NEW ss \in Seq(Seq(S)), NEW x \in Seq(S)
    PROVE  FlattenSeq(Append(ss, x)) = FlattenSeq(ss) \o x
<1>1. PICK T : T = Seq(S)
  OBVIOUS
<1>2. PICK base \in T : base = <<>>
  BY <1>1, JoiningSteps
<1>3. Steps(Joining(S), T, T) /\ ss \in Seq(T) /\ x \in T
  BY <1>1, JoiningSteps
<1>4. FoldOf(T, Joining(S), base, Append(ss, x)) = Joining(S)[x][FoldOf(T, Joining(S), base, ss)]
  BY <1>3, FoldOfAppend
<1>5. FoldOf(T, Joining(S), base, ss) \in T
  BY <1>3, FoldOfStages
<1>6. Append(ss, x) \in Seq(Seq(S))
  BY AppendProperties, Zenon
<1>7. FlattenSeq(Append(ss, x)) = FoldOf(T, Joining(S), base, Append(ss, x))
  BY <1>1, <1>2, <1>6, Flattens
<1>8. FlattenSeq(ss) = FoldOf(T, Joining(S), base, ss)
  BY <1>1, <1>2, Flattens
<1> QED
  BY <1>1, <1>3, <1>4, <1>5, <1>7, <1>8, JoiningSteps

\* Two lists of sequences can be joined one after the other.
LEMMA FlattenConcat ==
    ASSUME NEW S, NEW ss \in Seq(Seq(S)), NEW tt \in Seq(Seq(S))
    PROVE  FlattenSeq(ss \o tt) = FlattenSeq(ss) \o FlattenSeq(tt)
<1>1. PICK T : T = Seq(S)
  OBVIOUS
<1>2. PICK U : U = {u \in Seq(T) : FlattenSeq(ss \o u) = FlattenSeq(ss) \o FlattenSeq(u)}
  BY Zenon
<1>3. \A u \in Seq(T) : FlattenSeq(u) \in T
  BY <1>1, FlattenIsSeq
<1>4. \A a, b, c \in T : (a \o b) \o c = a \o (b \o c)
  BY <1>1
<1>5. <<>> \in U
  <2>1. <<>> \in Seq(T) /\ ss \o <<>> = ss
    BY <1>1
  <2>2. FlattenSeq(ss) \o <<>> = FlattenSeq(ss)
    BY <1>1, FlattenIsSeq
  <2> QED
    BY <1>2, <2>1, <2>2, FlattenEmpty
<1>6. ASSUME NEW u \in Seq(T), NEW x \in T, u \in U PROVE Append(u, x) \in U
  <2>1. ss \in Seq(T)
    BY <1>1
  <2>2. ss \o u \in Seq(T) /\ ss \o Append(u, x) = Append(ss \o u, x) /\ Append(u, x) \in Seq(T)
    BY <2>1
  <2>3. FlattenSeq(Append(ss \o u, x)) = FlattenSeq(ss \o u) \o x
    BY <1>1, <2>2, FlattenAppend
  <2>4. FlattenSeq(Append(u, x)) = FlattenSeq(u) \o x
    BY <1>1, FlattenAppend
  <2>5. FlattenSeq(ss \o u) = FlattenSeq(ss) \o FlattenSeq(u)
    BY <1>2, <1>6
  <2>6. (FlattenSeq(ss) \o FlattenSeq(u)) \o x = FlattenSeq(ss) \o (FlattenSeq(u) \o x)
    BY <1>3, <1>4, <2>1
  <2>7. FlattenSeq(ss \o Append(u, x)) = FlattenSeq(ss) \o FlattenSeq(Append(u, x))
    BY <2>2, <2>3, <2>4, <2>5, <2>6
  <2> QED
    BY <1>2, <2>2, <2>7
<1>7. Seq(T) \subseteq U
  BY <1>5, <1>6, SeqInduction
<1> QED
  BY <1>1, <1>2, <1>7

\* A sequence by itself is what it joins to.
LEMMA FlattenOne ==
    ASSUME NEW S, NEW x \in Seq(S)
    PROVE  FlattenSeq(<<x>>) = x
<1>1. PICK T : T = Seq(S) /\ x \in T
  OBVIOUS
<1>2. <<>> \in Seq(T) /\ Append(<<>>, x) = <<x>>
  BY <1>1
<1>3. FlattenSeq(Append(<<>>, x)) = FlattenSeq(<<>>) \o x
  BY <1>1, <1>2, FlattenAppend
<1>4. <<>> \o x = x
  OBVIOUS
<1> QED
  BY <1>2, <1>3, <1>4, FlattenEmpty

\* A function on the sets of indices that folds s as FoldLeft does: the last index first.
IndexFold(h, State, step, base, s) ==
    \A r \in SUBSET (1 .. Len(s)) :
        /\ r = {} => h[r] = base
        /\ r # {} /\ h[r \ {Max(r)}] \in State => h[r] = step[s[Max(r)]][h[r \ {Max(r)}]]

\* There is such a function, and the indices left are a set of them again.
LEMMA IndexFoldExists ==
    ASSUME NEW State, NEW S, NEW step, Steps(step, S, State), NEW base \in State, NEW s \in Seq(S)
    PROVE  /\ \E g \in [SUBSET (1 .. Len(s)) -> State] : IndexFold(g, State, step, base, s)
           /\ \A r \in SUBSET (1 .. Len(s)) : r # {} => s[Max(r)] \in S /\ r \ {Max(r)} \in SUBSET (1 .. Len(s))
<1>1. PICK n \in Nat : n = Len(s)
  OBVIOUS
<1>2. \A r \in SUBSET (1 .. n) : r # {} => Max(r) \in 1 .. n /\ r \ {Max(r)} \in SUBSET (1 .. n)
  BY GreatestIn, Zenon
<1>3. \A k \in 1 .. n : s[k] \in S
  BY <1>1
<1>4. PICK steps : steps = [k \in 1 .. n |-> step[s[k]]]
  BY Zenon
<1>5. steps \in [1 .. n -> [State -> State]]
  BY <1>3, <1>4, Zenon DEF Steps
<1>6. PICK g \in [SUBSET (1 .. n) -> State] : FoldsTo(g, n, base, steps)
  BY <1>5, FoldExists, Zenon
<1>7. ASSUME NEW r \in SUBSET (1 .. n)
      PROVE  /\ r = {} => g[r] = base
             /\ r # {} => g[r] = step[s[Max(r)]][g[r \ {Max(r)}]]
  <2>1. g[r] = IF r = {} THEN base ELSE steps[Max(r)][g[r \ {Max(r)}]]
    BY <1>6, Zenon DEF FoldsTo
  <2> QED
    BY <1>2, <1>4, <2>1, Zenon
<1>8. IndexFold(g, State, step, base, s)
  BY <1>1, <1>7, Zenon DEF IndexFold
<1> QED
  BY <1>1, <1>2, <1>3, <1>6, <1>8, Zenon

\* Whatever such a function holds for all indices is the fold.
LEMMA IndexFoldFolds ==
    ASSUME NEW State, NEW S, NEW step, Steps(step, S, State), NEW base \in State, NEW s \in Seq(S),
           NEW h, IndexFold(h, State, step, base, s)
    PROVE  h[1 .. Len(s)] = FoldOf(State, step, base, s)
<1>1. PICK n \in Nat : n = Len(s)
  OBVIOUS
<1>2. PICK f : f = [k \in 0 .. n |-> h[1 .. k]]
  BY Zenon
<1>3. f[0] = base
  <2>1. 1 .. 0 = {} /\ {} \in SUBSET (1 .. n) /\ 0 \in 0 .. n
    OBVIOUS
  <2> QED
    BY <1>1, <1>2, <2>1, Zenon DEF IndexFold
<1>4. \A k \in 1 .. n : s[k] \in S
  BY <1>1
<1>5. ASSUME NEW k \in 1 .. n, f[k - 1] \in State PROVE f[k] = step[s[k]][f[k - 1]]
  <2>1. 1 .. k \in SUBSET (1 .. n) /\ 1 .. k # {} /\ Max(1 .. k) = k /\ (1 .. k) \ {Max(1 .. k)} = 1 .. k - 1
        /\ k - 1 \in 0 .. n /\ k \in 0 .. n
    BY FirstNumbers, Zenon
  <2>2. h[(1 .. k) \ {Max(1 .. k)}] \in State
    BY <1>2, <1>5, <2>1, Zenon
  <2>3. h[1 .. k] = step[s[Max(1 .. k)]][h[(1 .. k) \ {Max(1 .. k)}]]
    BY <1>1, <2>1, <2>2, Zenon DEF IndexFold
  <2> QED
    BY <1>2, <2>1, <2>3, Zenon
<1>6. PICK T : T = {k \in 0 .. n : f[k] \in State}
  BY Zenon
<1>7. 0 \in T
  BY <1>3, <1>6
<1>8. ASSUME NEW k \in 0 .. n - 1, k \in T PROVE k + 1 \in T
  <2>1. PICK i \in 1 .. n : i = k + 1 /\ i - 1 = k /\ i \in 0 .. n
    OBVIOUS
  <2>2. f[k] \in State
    BY <1>6, <1>8
  <2>3. f[i] = step[s[i]][f[k]]
    BY <1>5, <2>1, <2>2
  <2>4. f[i] \in State
    BY <1>4, <2>2, <2>3 DEF Steps
  <2> QED
    BY <1>6, <2>1, <2>4
<1>9. 0 .. n \subseteq T
  <2>1. \A k \in 0 .. n - 1 : k \in T => k + 1 \in T
    BY <1>8, Zenon
  <2> QED
    BY <1>7, <2>1, UpTo, Zenon
<1>10. \A k \in 1 .. n : f[k] = step[s[k]][f[k - 1]]
  <2>1. \A k \in 1 .. n : k - 1 \in 0 .. n
    OBVIOUS
  <2>2. \A k \in 1 .. n : f[k - 1] \in State
    BY <1>6, <1>9, <2>1, Zenon
  <2> QED
    BY <1>5, <2>2, Zenon
<1>11. Stages(f, step, base, s)
  <2>1. PICK steps : steps = [k \in 1 .. n |-> step[s[k]]]
    BY Zenon
  <2>2. \A k \in 1 .. n : f[k] = steps[k][f[k - 1]]
    BY <1>10, <2>1, Zenon
  <2>3. Follows(f, n, base, steps)
    BY <1>3, <2>2, Zenon DEF Follows
  <2> QED
    BY <1>1, <2>1, <2>3, Zenon DEF Stages
<1>12. FoldOf(State, step, base, s) = f[Len(s)]
  BY <1>11, FoldOfStages
<1>13. n \in 0 .. n
  OBVIOUS
<1> QED
  BY <1>1, <1>2, <1>12, <1>13, Zenon

(***************************************************************************)
(* The scratch                                                             *)
(***************************************************************************)
\* What the shared storage may hold.
Word == Elements \union {0}

\* A call that reads an array.
FrameOf(l, p, o, g, m, x) ==
    [length |-> l, pass |-> p, own |-> o, given |-> g, miss |-> m, prefix |-> x]
IsFrame(c) ==
    /\ c = FrameOf(c.length, c.pass, c.own, c.given, c.miss, c.prefix)
    /\ c.length \in Nat /\ c.given \in Seq(Elements) /\ Len(c.given) <= c.length
    /\ c.own \in BOOLEAN /\ (c.own => c.pass = "copy")

\* It has the shared storage, of its length, and what it has read is there.
Holds(kept, c) ==
    c.own => /\ c.length <= Len(kept)
             /\ \A i \in 1 .. Len(c.given) : kept[i] = c.given[i]

ScratchInvariant ==
    /\ stack \in Seq(ToSet(stack)) /\ storage \in Seq(Word) /\ active \in BOOLEAN
    /\ \A k \in 1 .. Len(stack) : IsFrame(stack[k]) /\ Holds(storage, stack[k])
    /\ \A j, k \in 1 .. Len(stack) : stack[j].own /\ stack[k].own => j = k
    /\ active <=> \E k \in 1 .. Len(stack) : stack[k].own

\* A frame with other fields than those of the call that is on top is one, too.
Fits(c, q, g) == IsFrame(c) /\ g \in Seq(Elements) /\ Len(g) <= c.length /\ (c.own => q = "copy")
Like(c, d, g) == IsFrame(d) /\ d.own = c.own /\ d.length = c.length /\ d.given = g

\* A call is still one with other fields.
LEMMA Reframed ==
    ASSUME NEW c, NEW q, NEW g, NEW m, NEW x, Fits(c, q, g)
    PROVE  Like(c, FrameOf(c.length, q, c.own, g, m, x), g)
<1>1. PICK d : d = FrameOf(c.length, q, c.own, g, m, x)
  OBVIOUS
<1>2. d.own = c.own /\ d.length = c.length /\ d.given = g /\ d.pass = q /\ d.miss = m /\ d.prefix = x
  BY <1>1 DEF FrameOf
<1>3. c.length \in Nat /\ c.own \in BOOLEAN
  BY DEF IsFrame, Fits
<1>4. IsFrame(d)
  BY <1>1, <1>2, <1>3, Zenon DEF IsFrame, Fits
<1> QED
  BY <1>1, <1>2, <1>4, Zenon DEF Like

\* Frames that differ in what was read, or in how it is read.
Refilled(c, h, y) == [c EXCEPT !.given = h, !.miss = y]
Fused(c, q, h, y, z) == [c EXCEPT !.pass = q, !.given = h, !.miss = y, !.prefix = z]

\* What EXCEPT makes of a call, field by field.
LEMMA FrameExcept ==
    ASSUME NEW c, IsFrame(c), NEW q, NEW h, NEW y, NEW z
    PROVE  /\ Refilled(c, h, y) = FrameOf(c.length, c.pass, c.own, h, y, c.prefix)
           /\ Fused(c, q, h, y, z) = FrameOf(c.length, q, c.own, h, y, z)
<1>1. PICK l, p, o, g, m, x : l = c.length /\ p = c.pass /\ o = c.own /\ g = c.given /\ m = c.miss /\ x = c.prefix
  OBVIOUS
<1>2. c = FrameOf(l, p, o, g, m, x)
  BY <1>1 DEF IsFrame
<1>3. Refilled(c, h, y) = FrameOf(l, p, o, h, y, x)
  <2>1. PICK d : d = [c EXCEPT !.given = h, !.miss = y]
    OBVIOUS
  <2>2. d = FrameOf(l, p, o, h, y, x)
    BY <1>2, <2>1 DEF FrameOf
  <2> QED
    BY <2>1, <2>2 DEF Refilled
<1>4. Fused(c, q, h, y, z) = FrameOf(l, q, o, h, y, z)
  <2>1. PICK d : d = [c EXCEPT !.pass = q, !.given = h, !.miss = y, !.prefix = z]
    OBVIOUS
  <2>2. PICK e : e = [c EXCEPT !.pass = q, !.given = h]
    OBVIOUS
  <2>3. d = [e EXCEPT !.miss = y, !.prefix = z]
    BY <2>1, <2>2
  <2>4. e = FrameOf(l, q, o, h, m, x)
    BY <1>2, <2>2 DEF FrameOf
  <2>5. d = FrameOf(l, q, o, h, y, z)
    BY <2>3, <2>4 DEF FrameOf
  <2> QED
    BY <2>1, <2>5 DEF Fused
<1> QED
  BY <1>1, <1>3, <1>4

\* A call begins with a frame.
Begins(d, n, o) == IsFrame(d) /\ d.own = o /\ d.length = n /\ d.given = <<>>

\* A call that has read nothing.
LEMMA FramedNew ==
    ASSUME NEW n \in Nat, NEW p, NEW o \in BOOLEAN, o => p = "copy"
    PROVE  Begins(FrameOf(n, p, o, <<>>, 0, <<>>), n, o)
<1>1. PICK d : d = FrameOf(n, p, o, <<>>, 0, <<>>)
  OBVIOUS
<1>2. d.own = o /\ d.length = n /\ d.given = <<>> /\ d.pass = p /\ d.miss = 0 /\ d.prefix = <<>>
  BY <1>1 DEF FrameOf
<1>3. <<>> \in Seq(Elements) /\ Len(<<>>) <= n
  OBVIOUS
<1>4. IsFrame(d)
  BY <1>1, <1>2, <1>3, Zenon DEF IsFrame
<1> QED
  BY <1>1, <1>2, <1>4, Zenon DEF Begins

\* A sequence is one of what it holds.
LEMMA SeqOfItsOwn ==
    ASSUME NEW S, NEW s \in Seq(S)
    PROVE  s \in Seq(ToSet(s)) /\ DOMAIN s = 1 .. Len(s) /\ Len(s) \in Nat
<1>2. DOMAIN s = 1 .. Len(s) /\ Len(s) \in Nat /\ s = [i \in 1 .. Len(s) |-> s[i]]
  OBVIOUS
<1>1. PICK T : T = ToSet(s) /\ \A i \in 1 .. Len(s) : s[i] \in T
  <2>1. ToSet(s) = {s[i] : i \in 1 .. Len(s)}
    BY <1>2, Zenon DEF ToSet
  <2> QED
    BY <2>1
<1>3. s \in Seq(T)
  BY <1>1, <1>2
<1> QED
  BY <1>1, <1>2, <1>3

\* Without its last element, and with another one.
Replaced(S, s, x) ==
    /\ Len(s) \in 1 .. Len(s) /\ Front(s) \in Seq(S) /\ Len(Front(s)) = Len(s) - 1
    /\ \A k \in 1 .. Len(s) - 1 : Front(s)[k] = s[k]
    /\ Append(Front(s), x) \in Seq(ToSet(Append(Front(s), x))) /\ Len(Append(Front(s), x)) = Len(s)
    /\ \A k \in 1 .. Len(s) - 1 : Append(Front(s), x)[k] = s[k]
    /\ Append(Front(s), x)[Len(s)] = x

\* What is on top of a sequence may be replaced.
LEMMA Replacing ==
    ASSUME NEW S, NEW s \in Seq(S), s # <<>>, NEW x
    PROVE  Replaced(S, s, x)
<1>1. Len(s) \in Nat \ {0}
  OBVIOUS
<1>2. PICK f \in Seq(S) : f = Front(s) /\ Len(f) = Len(s) - 1 /\ \A k \in 1 .. Len(s) - 1 : f[k] = s[k]
  <2>1. PICK n \in Nat : n = Len(s) - 1
    BY <1>1
  <2>2. Front(s) = SubSeq(s, 1, n)
    BY <2>1, Zenon DEF Front
  <2>3. SubSeq(s, 1, n) \in Seq(S) /\ Len(SubSeq(s, 1, n)) = n /\ \A k \in 1 .. n : SubSeq(s, 1, n)[k] = s[k]
    BY <2>1
  <2> QED
    BY <2>1, <2>2, <2>3, Zenon
<1>3. PICK T : T = S \union {x}
  OBVIOUS
<1>4. f \in Seq(T) /\ x \in T
  BY <1>3
<1>5. PICK g \in Seq(T) : g = Append(f, x) /\ Len(g) = Len(s) /\ g[Len(s)] = x
                          /\ \A k \in 1 .. Len(s) - 1 : g[k] = f[k]
  <2>1. Append(f, x) \in Seq(T) /\ Len(Append(f, x)) = Len(f) + 1 /\ Append(f, x)[Len(f) + 1] = x
        /\ \A k \in 1 .. Len(f) : Append(f, x)[k] = f[k]
    BY <1>4
  <2>2. Len(f) + 1 = Len(s) /\ Len(f) = Len(s) - 1
    BY <1>1, <1>2
  <2> QED
    BY <2>1, <2>2, Zenon
<1>6. g \in Seq(ToSet(g))
  BY SeqOfItsOwn, Zenon
<1>7. Len(s) \in 1 .. Len(s) /\ \A k \in 1 .. Len(s) - 1 : g[k] = s[k]
  BY <1>1, <1>2, <1>5
<1> QED
  BY <1>2, <1>5, <1>6, <1>7, Zenon DEF Replaced

\* What is put on top of a sequence leaves the others in their places.
LEMMA Adding ==
    ASSUME NEW S, NEW s \in Seq(S), NEW x
    PROVE  /\ Append(s, x) \in Seq(ToSet(Append(s, x))) /\ Len(Append(s, x)) = Len(s) + 1 /\ Len(s) \in Nat
           /\ \A k \in 1 .. Len(s) : Append(s, x)[k] = s[k]
           /\ Append(s, x)[Len(s) + 1] = x
<1>1. PICK T : T = S \union {x}
  OBVIOUS
<1>2. s \in Seq(T) /\ x \in T
  BY <1>1
<1>3. PICK g \in Seq(T) : g = Append(s, x) /\ Len(g) = Len(s) + 1 /\ g[Len(s) + 1] = x
                          /\ \A k \in 1 .. Len(s) : g[k] = s[k]
  <2>1. Append(s, x) \in Seq(T) /\ Len(Append(s, x)) = Len(s) + 1 /\ Append(s, x)[Len(s) + 1] = x
        /\ \A k \in 1 .. Len(s) : Append(s, x)[k] = s[k]
    BY <1>2
  <2> QED
    BY <2>1, Zenon
<1>4. g \in Seq(ToSet(g))
  BY SeqOfItsOwn, Zenon
<1> QED
  BY <1>3, <1>4

\* nextCapacity is enough.
LEMMA CapacitySuffices ==
    ASSUME NEW n \in Nat
    PROVE  NextCapacity(n) \in Nat /\ n <= NextCapacity(n)
<1>1. PICK step : step = [k \in 1 .. n |-> [c \in Nat |-> IF c < n THEN 2 * c ELSE c]]
  BY Zenon
<1>2. step \in [1 .. n -> [Nat -> Nat]]
  BY <1>1
<1>3. PICK f \in [0 .. n -> Nat] : Follows(f, n, 1, step)
  BY <1>2, RecursionExists
<1>4. f[0] = 1 /\ \A k \in 1 .. n : f[k] = IF f[k - 1] < n THEN 2 * f[k - 1] ELSE f[k - 1]
  <2>1. ASSUME NEW k \in 1 .. n PROVE f[k] = IF f[k - 1] < n THEN 2 * f[k - 1] ELSE f[k - 1]
    <3>1. k - 1 \in 0 .. n /\ f[k - 1] \in Nat
      OBVIOUS
    <3>2. f[k] = step[k][f[k - 1]]
      BY <1>3 DEF Follows
    <3> QED
      BY <1>1, <3>1, <3>2
  <2>2. f[0] = 1
    BY <1>3 DEF Follows
  <2> QED
    BY <2>1, <2>2
<1> DEFINE Doubles(h) == h = [k \in 0 .. n |-> IF k = 0 THEN 1
                                ELSE IF h[k - 1] < n THEN 2 * h[k - 1] ELSE h[k - 1]]
<1>5. Doubles(f)
  <2>1. \A k \in 0 .. n : f[k] = IF k = 0 THEN 1 ELSE IF f[k - 1] < n THEN 2 * f[k - 1] ELSE f[k - 1]
    BY <1>4
  <2> QED
    BY <2>1
<1>6. PICK it : it = CHOOSE h : Doubles(h)
  BY Zenon
<1>7. Doubles(it)
  BY <1>5, <1>6, Zenon
<1>8. \A k \in 0 .. n : it[k] = IF k = 0 THEN 1 ELSE IF it[k - 1] < n THEN 2 * it[k - 1] ELSE it[k - 1]
  BY <1>7, Zenon
<1>9. NextCapacity(n) = it[n]
  BY <1>6, Zenon DEF NextCapacity
<1>10. PICK T : T = {k \in 0 .. n : it[k] \in Nat /\ 1 <= it[k] /\ (n <= it[k] \/ k < it[k])}
  BY Zenon
<1>11. 0 \in T
  BY <1>8, <1>10
<1>12. ASSUME NEW k \in 0 .. n - 1, k \in T PROVE k + 1 \in T
  <2>1. PICK i \in 1 .. n : i = k + 1 /\ i - 1 = k /\ i \in 0 .. n /\ i # 0
    OBVIOUS
  <2>2. it[i] = IF it[k] < n THEN 2 * it[k] ELSE it[k]
    BY <1>8, <2>1
  <2>3. it[k] \in Nat /\ 1 <= it[k] /\ (n <= it[k] \/ k < it[k])
    BY <1>10, <1>12
  <2>4. it[i] \in Nat /\ 1 <= it[i] /\ (n <= it[i] \/ i < it[i])
    BY <2>1, <2>2, <2>3, SMTT(30)
  <2> QED
    BY <1>10, <2>1, <2>4
<1>13. n \in T
  <2>1. \A k \in 0 .. n - 1 : k \in T => k + 1 \in T
    BY <1>12, Zenon
  <2>2. 0 .. n \subseteq T
    BY <1>11, <2>1, UpTo, Zenon
  <2> QED
    BY <2>2
<1> QED
  BY <1>9, <1>10, <1>13

\* The scratch is free at first.
LEMMA ScratchInit == Init => ScratchInvariant
<1> SUFFICES ASSUME Init PROVE ScratchInvariant
  OBVIOUS
<1>1. stack = <<>> /\ storage = <<>> /\ active = FALSE
  BY DEF Init
<1>2. <<>> \in Seq(ToSet(<<>>)) /\ <<>> \in Seq(Word) /\ Len(<<>>) = 0
  OBVIOUS
<1>3. 1 .. Len(stack) = {}
  BY <1>1, <1>2
<1> QED
  BY <1>1, <1>2, <1>3 DEF ScratchInvariant

\* Every step keeps the scratch to one call.
LEMMA ScratchStep == ScratchInvariant /\ [Next]_vars => ScratchInvariant'
<1> SUFFICES ASSUME ScratchInvariant, [Next]_vars PROVE ScratchInvariant'
  OBVIOUS
<1>0. /\ stack \in Seq(ToSet(stack)) /\ storage \in Seq(Word) /\ active \in BOOLEAN
      /\ \A k \in 1 .. Len(stack) : IsFrame(stack[k]) /\ Holds(storage, stack[k])
      /\ \A j, k \in 1 .. Len(stack) : stack[j].own /\ stack[k].own => j = k
      /\ active <=> \E k \in 1 .. Len(stack) : stack[k].own
  BY DEF ScratchInvariant
<1>00. Len(stack) \in Nat
  BY <1>0
<1>1. ASSUME UNCHANGED <<storage, active, stack>> PROVE ScratchInvariant'
  BY <1>1, Zenon DEF ScratchInvariant
<1>2. ASSUME NEW n \in 0 .. MaxLength, EnterScratch(n) PROVE ScratchInvariant'
  <2>0. n \in Nat
    BY InputAssumption
  <2>00. PICK free \in BOOLEAN : free = ~active
    BY <1>0
  <2>1. PICK c : c = FrameOf(n, "copy", free, <<>>, 0, <<>>) /\ Begins(c, n, free)
    BY <2>0, FramedNew
  <2>2. stack' = Append(stack, c) /\ active' = TRUE
        /\ storage' = IF ~active /\ Len(storage) < n THEN [k \in 1 .. NextCapacity(n) |-> 0] ELSE storage
    BY <1>2, <2>00, <2>1 DEF EnterScratch, FrameOf
  <2>3. /\ stack' \in Seq(ToSet(stack')) /\ Len(stack') = Len(stack) + 1
        /\ \A k \in 1 .. Len(stack) : stack'[k] = stack[k]
        /\ stack'[Len(stack) + 1] = c
    BY <1>0, <2>2, Adding
  <2>4. n \in Nat
    BY InputAssumption
  <2>5. storage' \in Seq(Word) /\ (~active => n <= Len(storage'))
    <3>1. NextCapacity(n) \in Nat /\ n <= NextCapacity(n)
      BY <2>4, CapacitySuffices
    <3>2. CASE ~active /\ Len(storage) < n
      <4>1. PICK s : s = [k \in 1 .. NextCapacity(n) |-> 0]
        BY Zenon
      <4>2. s \in Seq(Word) /\ Len(s) = NextCapacity(n)
        BY <3>1, <4>1 DEF Word
      <4> QED
        BY <2>2, <3>1, <3>2, <4>1, <4>2
    <3>3. CASE ~(~active /\ Len(storage) < n)
      BY <1>0, <2>2, <2>4, <3>3
    <3> QED
      BY <3>2, <3>3
  <2>6. c.own = ~active /\ c.length = n /\ c.given = <<>> /\ IsFrame(c)
    BY <2>00, <2>1 DEF Begins
  <2>7. ASSUME NEW k \in 1 .. Len(stack') PROVE IsFrame(stack'[k]) /\ Holds(storage', stack'[k])
    <3>1. CASE k \in 1 .. Len(stack)
      <4>1. stack'[k] = stack[k] /\ IsFrame(stack[k]) /\ Holds(storage, stack[k])
        BY <1>0, <2>3, <3>1
      <4>2. stack[k].own => storage' = storage
        BY <1>0, <2>2, <3>1
      <4> QED
        BY <4>1, <4>2 DEF Holds
    <3>2. CASE k = Len(stack) + 1
      <4>1. stack'[k] = c /\ Len(c.given) = 0
        BY <2>3, <2>6, <3>2
      <4>2. 1 .. Len(c.given) = {}
        BY <4>1
      <4> QED
        BY <2>5, <2>6, <4>1, <4>2 DEF Holds
    <3> QED
      BY <1>00, <2>3, <3>1, <3>2
  <2>8. \A j, k \in 1 .. Len(stack') : stack'[j].own /\ stack'[k].own => j = k
    <3>1. \A k \in 1 .. Len(stack') : k \in 1 .. Len(stack) \/ k = Len(stack) + 1
      BY <1>00, <2>3
    <3>2. \A k \in 1 .. Len(stack') : stack'[k].own =>
             (k \in 1 .. Len(stack) /\ stack[k].own /\ active) \/ (k = Len(stack) + 1 /\ ~active)
      BY <1>0, <2>3, <2>6, <3>1, Zenon
    <3> QED
      BY <1>0, <3>2, Zenon
  <2>9. \E k \in 1 .. Len(stack') : stack'[k].own
    <3>1. CASE active
      <4>1. PICK k \in 1 .. Len(stack) : stack[k].own
        BY <1>0, <3>1
      <4>2. k \in 1 .. Len(stack')
        BY <1>00, <2>3
      <4> QED
        BY <2>3, <4>1, <4>2
    <3>2. CASE ~active
      <4>1. Len(stack) + 1 \in 1 .. Len(stack')
        BY <1>00, <2>3
      <4> QED
        BY <2>3, <2>6, <3>2, <4>1
    <3> QED
      BY <3>1, <3>2
  <2> QED
    BY <2>2, <2>3, <2>5, <2>7, <2>8, <2>9 DEF ScratchInvariant
<1>3. ASSUME NEW n \in 0 .. MaxLength, EnterJoin(n) PROVE ScratchInvariant'
  <2>0. n \in Nat
    BY InputAssumption
  <2>1. PICK c : c = FrameOf(n, "join", FALSE, <<>>, 0, <<>>) /\ Begins(c, n, FALSE)
    BY <2>0, FramedNew
  <2>2. stack' = Append(stack, c) /\ active' = active /\ storage' = storage
    BY <1>3, <2>1 DEF EnterJoin, FrameOf
  <2>3. /\ stack' \in Seq(ToSet(stack')) /\ Len(stack') = Len(stack) + 1
        /\ \A k \in 1 .. Len(stack) : stack'[k] = stack[k]
        /\ stack'[Len(stack) + 1] = c
    BY <1>0, <2>2, Adding
  <2>4. n \in Nat
    BY InputAssumption
  <2>5. ~c.own /\ IsFrame(c)
    BY <2>1 DEF Begins
  <2>6. ASSUME NEW k \in 1 .. Len(stack') PROVE IsFrame(stack'[k]) /\ Holds(storage', stack'[k])
    BY <1>0, <1>00, <2>2, <2>3, <2>5 DEF Holds
  <2>7. \A j, k \in 1 .. Len(stack') : stack'[j].own /\ stack'[k].own => j = k
    BY <1>0, <1>00, <2>3, <2>5
  <2>8. active' <=> \E k \in 1 .. Len(stack') : stack'[k].own
    <3>1. \A k \in 1 .. Len(stack') : k \in 1 .. Len(stack) \/ k = Len(stack) + 1
      BY <1>00, <2>3
    <3>2. \A k \in 1 .. Len(stack) : k \in 1 .. Len(stack')
      BY <1>00, <2>3
    <3> QED
      BY <1>0, <2>2, <2>3, <2>5, <3>1, <3>2, Zenon
  <2> QED
    BY <1>0, <2>2, <2>3, <2>6, <2>7, <2>8 DEF ScratchInvariant
\* A step that ends the call on top.
<1>4. ASSUME stack # <<>>, stack' = Below, active' = (active /\ ~Top.own), storage' = storage
      PROVE  ScratchInvariant'
  <2>1. /\ Len(stack) \in 1 .. Len(stack) /\ stack' \in Seq(ToSet(stack)) /\ Len(stack') = Len(stack) - 1
        /\ \A k \in 1 .. Len(stack) - 1 : stack'[k] = stack[k]
    <3>1. Replaced(ToSet(stack), stack, 0)
      BY <1>0, <1>4, Replacing
    <3> QED
      BY <1>4, <3>1 DEF Replaced, Below
  <2>2. stack' \in Seq(ToSet(stack'))
    BY <2>1, SeqOfItsOwn
  <2>3. \A k \in 1 .. Len(stack') : k \in 1 .. Len(stack) /\ stack'[k] = stack[k] /\ k # Len(stack)
    BY <2>1
  <2>4. \A k \in 1 .. Len(stack) : k # Len(stack) => k \in 1 .. Len(stack')
    BY <2>1
  <2>5. ASSUME NEW k \in 1 .. Len(stack') PROVE IsFrame(stack'[k]) /\ Holds(storage', stack'[k])
    BY <1>0, <1>4, <2>3 DEF Holds
  <2>6. \A j, k \in 1 .. Len(stack') : stack'[j].own /\ stack'[k].own => j = k
    BY <1>0, <2>3
  <2>7. active' <=> \E k \in 1 .. Len(stack') : stack'[k].own
    <3>1. Top = stack[Len(stack)] /\ Len(stack) \in 1 .. Len(stack)
      BY <2>1 DEF Top
    <3> QED
      BY <1>0, <1>4, <2>3, <2>4, <3>1, Zenon
  <2>8. active' \in BOOLEAN
    BY <1>4
  <2> QED
    BY <1>0, <1>4, <2>2, <2>5, <2>6, <2>7, <2>8 DEF ScratchInvariant
\* A step that leaves another call on top, of the same length and with or without the storage as before.
<1>5. ASSUME NEW c, stack # <<>>, IsFrame(c), c.own = Top.own, Holds(storage', c),
             stack' = Append(Below, c), active' = active, storage' \in Seq(Word),
             ~Top.own => storage' = storage
      PROVE  ScratchInvariant'
  <2>1. /\ Len(stack) \in 1 .. Len(stack) /\ stack' \in Seq(ToSet(stack')) /\ Len(stack') = Len(stack)
        /\ \A k \in 1 .. Len(stack) - 1 : stack'[k] = stack[k]
        /\ stack'[Len(stack)] = c
    <3>1. Replaced(ToSet(stack), stack, c)
      BY <1>0, <1>5, Replacing
    <3> QED
      BY <1>5, <3>1 DEF Replaced, Below
  <2>2. \A k \in 1 .. Len(stack) : k # Len(stack) => stack'[k] = stack[k]
    BY <2>1
  <2>3. Top = stack[Len(stack)]
    BY DEF Top
  <2>4. \A k \in 1 .. Len(stack) : stack'[k].own = stack[k].own
    BY <1>5, <2>1, <2>2, <2>3
  <2>5. ASSUME NEW k \in 1 .. Len(stack') PROVE IsFrame(stack'[k]) /\ Holds(storage', stack'[k])
    <3>1. CASE k = Len(stack)
      BY <1>5, <2>1, <3>1
    <3>2. CASE k # Len(stack)
      <4>1. k \in 1 .. Len(stack) /\ stack'[k] = stack[k]
        BY <2>1, <2>2, <3>2
      <4>2. stack[k].own => ~Top.own
        BY <1>0, <2>1, <2>3, <3>2, <4>1
      <4> QED
        BY <1>0, <1>5, <4>1, <4>2 DEF Holds
    <3> QED
      BY <3>1, <3>2
  <2>6. \A j, k \in 1 .. Len(stack') : stack'[j].own /\ stack'[k].own => j = k
    BY <1>0, <2>1, <2>4
  <2>7. active' <=> \E k \in 1 .. Len(stack') : stack'[k].own
    BY <1>0, <1>5, <2>1, <2>4
  <2> QED
    BY <1>0, <1>5, <2>1, <2>5, <2>6, <2>7 DEF ScratchInvariant
<1>6. ASSUME NEW v \in Elements, Read(v) PROVE ScratchInvariant'
  <2>1. stack # <<>> /\ Len(Top.given) < Top.length
    BY <1>6 DEF Read
  <2>2. PICK top : top = Top /\ top = stack[Len(stack)] /\ Len(stack) \in 1 .. Len(stack) /\ IsFrame(top) /\ Holds(storage, top)
    <3>1. Len(stack) \in 1 .. Len(stack)
      BY <1>0, <2>1
    <3> QED
      BY <1>0, <3>1 DEF Top
  <2>3. PICK g \in Seq(Elements) : g = top.given /\ Len(g) < top.length
    BY <2>1, <2>2 DEF IsFrame
  <2>4. top = FrameOf(top.length, top.pass, top.own, top.given, top.miss, top.prefix) /\ top.length \in Nat
        /\ top.own \in BOOLEAN /\ (top.own => top.pass = "copy")
    BY <2>2 DEF IsFrame
  <2>5. PICK h \in Seq(Elements) :
           /\ h = Append(g, v) /\ Len(h) = Len(g) + 1 /\ Len(g) \in Nat /\ Len(h) <= top.length
           /\ h[Len(g) + 1] = v /\ \A i \in 1 .. Len(g) : h[i] = g[i]
    <3>1. /\ Append(g, v) \in Seq(Elements) /\ Len(Append(g, v)) = Len(g) + 1 /\ Len(g) \in Nat
          /\ Append(g, v)[Len(g) + 1] = v /\ \A i \in 1 .. Len(g) : Append(g, v)[i] = g[i]
      OBVIOUS
    <3>2. Len(g) + 1 <= top.length
      BY <2>3, <2>4, <3>1
    <3> QED
      BY <3>1, <3>2, Zenon
  <2>5a. Fits(top, top.pass, h)
    BY <2>2, <2>4, <2>5 DEF Fits
  <2>6. CASE Refuse(v)
    BY <1>4, <2>1, <2>6 DEF Refuse
  <2>7. CASE Copy(v) /\ v # Invalid
    <3>0. PICK c : c = FrameOf(top.length, top.pass, top.own, h, top.miss, top.prefix)
      OBVIOUS
    <3>00. Like(top, c, h)
      BY <2>5a, <3>0, Reframed
    <3>1. c = FrameOf(top.length, top.pass, top.own, h, top.miss, top.prefix)
          /\ IsFrame(c) /\ c.own = top.own /\ c.length = top.length /\ c.given = h
      BY <3>0, <3>00 DEF Like
    <3>2. c = [top EXCEPT !.given = h]
      BY <2>4, <3>1 DEF FrameOf
    <3>3. /\ stack' = Append(Below, c) /\ active' = active
          /\ storage' = IF top.own THEN [storage EXCEPT ![Len(g) + 1] = v] ELSE storage
      BY <2>2, <2>3, <2>5, <2>7, <3>2, Zenon DEF Copy
    <3>5. storage' \in Seq(Word)
          /\ (top.own => top.length <= Len(storage') /\ \A i \in 1 .. Len(g) + 1 : storage'[i] = h[i])
      <4>1. CASE top.own
        <5>1. Len(storage) \in Nat /\ top.length <= Len(storage) /\ \A i \in 1 .. Len(g) : storage[i] = g[i]
          BY <1>0, <2>2, <2>3, <4>1 DEF Holds
        <5>2. Len(g) + 1 \in 1 .. Len(storage) /\ v \in Word
          BY <2>3, <2>4, <2>5, <5>1 DEF Word
        <5>3. storage' = [storage EXCEPT ![Len(g) + 1] = v]
          BY <3>3, <4>1
        <5>4. storage' \in Seq(Word) /\ Len(storage') = Len(storage) /\ storage'[Len(g) + 1] = v
              /\ \A i \in 1 .. Len(g) : storage'[i] = storage[i]
          BY <1>0, <2>5, <5>2, <5>3
        <5> QED
          BY <2>5, <5>1, <5>4
      <4>2. CASE ~top.own
        BY <1>0, <3>3, <4>2
      <4> QED
        BY <4>1, <4>2
    <3>6. Holds(storage', c)
      BY <2>5, <3>1, <3>5 DEF Holds
    <3>7. ~top.own => storage' = storage
      BY <3>3
    <3> QED
      BY <1>5, <2>1, <2>2, <3>1, <3>3, <3>5, <3>6, <3>7
  <2>8. CASE JoinNext(v)
    <3>1. top.pass = "join" /\ ~top.own /\ storage' = storage /\ active' = active
      <4>1. top.pass = "join" /\ storage' = storage /\ active' = active
        BY <2>2, <2>8 DEF JoinNext
      <4>2. "join" # "copy"
        OBVIOUS
      <4> QED
        BY <2>4, <4>1, <4>2, Zenon
    <3>2. PICK c : c = IF v \in table.strings THEN [top EXCEPT !.given = Append(@, v)]
                       ELSE [top EXCEPT !.pass = "fuse", !.given = <<>>, !.miss = Len(top.given) + 1,
                                        !.prefix = Prefix(top.given, Len(top.given) + 1)]
      BY Zenon
    <3>3. stack' = Append(Below, c)
      BY <2>2, <2>8, <3>2, Zenon DEF JoinNext
    <3>4. IsFrame(c) /\ c.own = top.own /\ c.length = top.length
      <4>1. CASE v \in table.strings
        <5>0. PICK d : d = FrameOf(top.length, top.pass, top.own, h, top.miss, top.prefix)
          OBVIOUS
        <5>00. Like(top, d, h)
          BY <2>5a, <5>0, Reframed
        <5>1. d = FrameOf(top.length, top.pass, top.own, h, top.miss, top.prefix)
              /\ IsFrame(d) /\ d.own = top.own /\ d.length = top.length
          BY <5>0, <5>00 DEF Like
        <5>2. c = [top EXCEPT !.given = h]
          BY <2>3, <2>5, <3>2, <4>1
        <5>3. c = d
          BY <2>4, <5>1, <5>2 DEF FrameOf
        <5> QED
          BY <5>1, <5>3, Zenon
      <4>2. CASE v \notin table.strings
        <5>1. PICK z, y : z = Prefix(top.given, Len(top.given) + 1) /\ y = Len(top.given) + 1
          BY Zenon
        <5>2. <<>> \in Seq(Elements) /\ Len(<<>>) <= top.length
          BY <2>4
        <5>a. PICK d : d = FrameOf(top.length, "fuse", top.own, <<>>, y, z)
          OBVIOUS
        <5>b. Fits(top, "fuse", <<>>)
          BY <2>2, <3>1, <5>2 DEF Fits
        <5>c. Like(top, d, <<>>)
          BY <5>a, <5>b, Reframed
        <5>3. d = FrameOf(top.length, "fuse", top.own, <<>>, y, z)
              /\ IsFrame(d) /\ d.own = top.own /\ d.length = top.length
          BY <5>a, <5>c DEF Like
        <5>4. c = [top EXCEPT !.pass = "fuse", !.given = <<>>, !.miss = y, !.prefix = z]
          BY <3>2, <4>2, <5>1, Zenon
        <5>5. c = d
          <6>1. Fused(top, "fuse", <<>>, y, z) = d
            BY <2>2, <5>3, FrameExcept
          <6> QED
            BY <5>4, <6>1 DEF Fused
        <5> QED
          BY <5>3, <5>5, Zenon
      <4> QED
        BY <4>1, <4>2
    <3>6. Holds(storage', c)
      BY <3>1, <3>4 DEF Holds
    <3> QED
      BY <1>0, <1>5, <2>1, <2>2, <3>1, <3>3, <3>4, <3>6
  <2>9. CASE Fuse(v) /\ v # Invalid
    <3>1. top.pass = "fuse" /\ ~top.own /\ storage' = storage /\ active' = active
      <4>1. top.pass = "fuse" /\ storage' = storage /\ active' = active
        BY <2>2, <2>9 DEF Fuse
      <4>2. "fuse" # "copy"
        OBVIOUS
      <4> QED
        BY <2>4, <4>1, <4>2, Zenon
    <3>2. PICK y : y = IF Len(g) + 1 < top.miss /\ v \notin table.strings THEN Len(g) + 1 ELSE top.miss
      BY Zenon
    <3>a. PICK c : c = FrameOf(top.length, top.pass, top.own, h, y, top.prefix)
      OBVIOUS
    <3>b. Like(top, c, h)
      BY <2>5a, <3>a, Reframed
    <3>3. c = FrameOf(top.length, top.pass, top.own, h, y, top.prefix)
          /\ IsFrame(c) /\ c.own = top.own /\ c.length = top.length
      BY <3>a, <3>b DEF Like
    <3>4. c = [top EXCEPT !.given = h, !.miss = y]
      <4>1. Refilled(top, h, y) = c
        BY <2>2, <3>3, FrameExcept
      <4> QED
        BY <4>1 DEF Refilled
    <3>5. c = [top EXCEPT !.given = Append(@, v),
                          !.miss = IF Len(g) + 1 < @ /\ v \notin table.strings THEN Len(g) + 1 ELSE @]
      BY <2>3, <2>5, <3>2, <3>4
    <3>6. stack' = Append(Below, c)
      BY <2>2, <2>3, <2>9, <3>5, Zenon DEF Fuse
    <3>7. Holds(storage', c)
      BY <3>1, <3>3 DEF Holds
    <3> QED
      BY <1>0, <1>5, <2>1, <2>2, <3>1, <3>3, <3>6, <3>7
  <2>10. Refuse(v) \/ (Copy(v) /\ v # Invalid) \/ JoinNext(v) \/ (Fuse(v) /\ v # Invalid)
    BY <1>6 DEF Read, Copy, Fuse
  <2> QED
    BY <2>6, <2>7, <2>8, <2>9, <2>10
<1>7. CASE Resolve
  BY <1>1, <1>7 DEF Resolve
<1>8. CASE Compose
  BY <1>1, <1>8 DEF Compose
<1>9. CASE \E ids \in Inputs : Decode(ids)
  BY <1>1, <1>9, Zenon DEF Decode
<1>10. CASE \E n \in 0 .. MaxLength : DecodeArray(n)
  BY <1>2, <1>3, <1>10, Zenon DEF DecodeArray
<1>11. CASE Finish
  BY <1>4, <1>11, Zenon DEF Finish
<1>12. CASE UNCHANGED vars
  BY <1>1, <1>12, Zenon DEF vars
<1> QED
  BY <1>6, <1>7, <1>8, <1>9, <1>10, <1>11, <1>12 DEF Next

\* The shared scratch belongs to one call at most, and holds what it has read.
THEOREM ScratchOfOne == Spec => []ScratchIsolated
<1>1. ScratchInvariant => ScratchIsolated
  <2> SUFFICES ASSUME ScratchInvariant PROVE ScratchIsolated
    OBVIOUS
  <2>0. /\ stack \in Seq(ToSet(stack)) /\ storage \in Seq(Word) /\ active \in BOOLEAN
        /\ \A k \in 1 .. Len(stack) : IsFrame(stack[k]) /\ Holds(storage, stack[k])
        /\ \A j, k \in 1 .. Len(stack) : stack[j].own /\ stack[k].own => j = k
        /\ active <=> \E k \in 1 .. Len(stack) : stack[k].own
    BY DEF ScratchInvariant
  <2>1. DOMAIN stack = 1 .. Len(stack)
    BY <2>0
  <2>2. PICK owners : owners = {k \in DOMAIN stack : stack[k].own}
    BY Zenon
  <2>3. Cardinality(owners) <= 1
    <3>1. CASE owners = {}
      BY <3>1, FS_EmptySet
    <3>2. CASE owners # {}
      <4>1. PICK k : k \in owners
        BY <3>2
      <4>2. owners = {k}
        BY <2>0, <2>1, <2>2, <4>1
      <4> QED
        BY <4>2, FS_Singleton
    <3> QED
      BY <3>1, <3>2
  <2>4. active = (owners # {})
    BY <2>0, <2>1, <2>2
  <2>5. ASSUME NEW k \in owners PROVE SubSeq(storage, 1, Len(stack[k].given)) = stack[k].given
    <3>1. k \in 1 .. Len(stack) /\ stack[k].own
      BY <2>1, <2>2
    <3>2. PICK g \in Seq(Elements) : g = stack[k].given /\ Len(g) <= Len(storage)
                                     /\ \A i \in 1 .. Len(g) : storage[i] = g[i]
      BY <2>0, <3>1 DEF IsFrame, Holds
    <3>3. SubSeq(storage, 1, Len(g)) = g
      BY <2>0, <3>2
    <3> QED
      BY <3>2, <3>3
  <2> QED
    BY <2>2, <2>3, <2>4, <2>5 DEF ScratchIsolated
<1> QED
  BY ScratchInit, ScratchStep, <1>1, PTL DEF Spec

(***************************************************************************)
(* The construction                                                        *)
(***************************************************************************)
\* What was resolved from a client's optimizations was not refused.
ConstructionInvariant ==
    /\ request \in Requests /\ phase \in {"new", "refused", "resolved", "ready", "uncomposable"}
    /\ phase \in {"resolved", "ready", "uncomposable"} /\ "given" \in DOMAIN request =>
           ~RefusedState(request.given) /\ config = Resolved(request.given)
    /\ ResolvedComposes

\* The layers of a resolved configuration have what they rest on.
LEMMA Layers ==
    ASSUME NEW given, NEW c, c = Resolved(given)
    PROVE  /\ c.borrowedOutput <=> BorrowsOutput(given)
           /\ c.utf16Output <=> /\ On(given, "decodeAssembly") /\ ~Builtins(given) /\ NodeRuntime
                                /\ On(given, "decodeUtf16Output")
           /\ c.stringBuiltins <=> Builtins(given)
           /\ c.utf16Output \/ c.borrowedOutput => c.assembly
           /\ c.byteTable \/ c.mixedRuns \/ c.nativeLatin1 \/ c.portableLatin1 => c.table
           /\ c.runCache \/ c.dirtyRunBatch \/ c.directScratch => c.mixedRuns
           /\ c.runStitcher => c.dirtyRunBatch
<1>1. /\ c.borrowedOutput <=> BorrowsOutput(given)
      /\ c.utf16Output <=> /\ On(given, "decodeAssembly") /\ ~Builtins(given) /\ NodeRuntime
                           /\ On(given, "decodeUtf16Output")
      /\ c.stringBuiltins <=> Builtins(given)
  BY DEF Resolved
<1>2. c.utf16Output \/ c.borrowedOutput => c.assembly
  BY DEF Resolved, BorrowsOutput
<1>3. (c.byteTable => c.table) /\ (c.mixedRuns => c.table)
  BY DEF Resolved
<1>4. (c.nativeLatin1 => c.table) /\ (c.portableLatin1 => c.table)
  BY DEF Resolved
<1>5. (c.runCache => c.mixedRuns) /\ (c.dirtyRunBatch => c.mixedRuns)
  BY DEF Resolved
<1>6. (c.directScratch => c.mixedRuns) /\ (c.runStitcher => c.dirtyRunBatch)
  BY DEF Resolved
<1> QED
  BY <1>1, <1>2, <1>3, <1>4, <1>5, <1>6

\* Optimizations that were not refused give such a decoder, or both kinds of output.
LEMMA Composable ==
    ASSUME NEW given, ~RefusedState(given), NEW c, c = Resolved(given),
           ~(Composes(c) /\ (c.table => TableAccepts(c)))
    PROVE  c.utf16Output /\ c.borrowedOutput /\ States(given).decodeBorrowedOutput = "auto"
<1>1. c.utf16Output /\ c.borrowedOutput
  BY Layers DEF Composes, TableAccepts, BorrowsOutput
<1>2. On(given, "decodeUtf16Output") /\ On(given, "decodeBorrowedOutput")
  BY <1>1, Layers DEF BorrowsOutput
<1>3. Definitions["decodeUtf16Output"].admitted = FALSE
  BY DEF Definitions
<1>4. States(given)["decodeUtf16Output"] = "on"
  BY <1>2, <1>3 DEF On
<1>5. States(given)["decodeBorrowedOutput"] # "on"
  BY <1>4 DEF RefusedState
<1>6. States(given)["decodeBorrowedOutput"] = "auto"
  BY <1>2, <1>5 DEF On
<1> QED
  BY <1>1, <1>6

\* A client gets the decoder that its optimizations ask for.
THEOREM ResolvedIsComposed == Spec => []ResolvedComposes
<1>1. Init => ConstructionInvariant
  BY DEF Init, ConstructionInvariant, ResolvedComposes
<1>2. ConstructionInvariant /\ [Next]_vars => ConstructionInvariant'
  <2> SUFFICES ASSUME ConstructionInvariant, [Next]_vars PROVE ConstructionInvariant'
    OBVIOUS
  <2>1. ASSUME UNCHANGED <<request, phase, config>> PROVE ConstructionInvariant'
    BY <2>1 DEF ConstructionInvariant, ResolvedComposes
  <2>2. CASE Resolve
    <3>1. phase = "new" /\ request' = request /\ request \in Requests
      BY <2>2 DEF Resolve, ConstructionInvariant
    <3>2. ("config" \in DOMAIN request) => ("given" \notin DOMAIN request)
      BY <3>1, RequestAssumption
    <3> QED
      BY <2>2, <3>1, <3>2 DEF Resolve, ConstructionInvariant, ResolvedComposes
  <2>3. CASE Compose
    <3>1. /\ phase = "resolved" /\ request' = request /\ config' = config
          /\ phase' = IF Composes(config) /\ (config.table => TableAccepts(config)) THEN "ready" ELSE "uncomposable"
      BY <2>3 DEF Compose
    <3>2. phase' = "uncomposable" /\ "given" \in DOMAIN request =>
              config.utf16Output /\ config.borrowedOutput /\ States(request.given).decodeBorrowedOutput = "auto"
      BY <3>1, Composable DEF ConstructionInvariant
    <3> QED
      BY <3>1, <3>2 DEF ConstructionInvariant, ResolvedComposes
  <2>4. CASE \E ids \in Inputs : Decode(ids)
    BY <2>1, <2>4, Zenon DEF Decode
  <2>5. CASE \E n \in 0 .. MaxLength : DecodeArray(n)
    BY <2>1, <2>5, Zenon DEF DecodeArray
  <2>6. CASE \E v \in Elements : Read(v)
    BY <2>1, <2>6, Zenon DEF Read
  <2>7. CASE Finish
    BY <2>1, <2>7, Zenon DEF Finish
  <2>8. CASE UNCHANGED vars
    BY <2>1, <2>8, Zenon DEF vars
  <2> QED
    BY <2>2, <2>3, <2>4, <2>5, <2>6, <2>7, <2>8 DEF Next
<1>3. ConstructionInvariant => ResolvedComposes
  BY DEF ConstructionInvariant
<1> QED
  BY <1>1, <1>2, <1>3, PTL DEF Spec

(***************************************************************************)
(* UTF-8                                                                   *)
(***************************************************************************)
\* What was read of a code point, and the state of the reader.
Partial == {<<>>} \union {<<b>> : b \in Lead} \union {<<"EF", c>> : c \in Continuation}
Chars   == Seq(Seq(Byte))
Reading == [text : Chars, pending : Partial]
Since(p) == [text |-> <<>>, pending |-> p]
After(text, p) == [text |-> text, pending |-> p]

Flush(p) == IF p = <<>> THEN <<>> ELSE <<Replacement>>

\* What a byte adds to the text after a part of a code point, and what it leaves pending.
Emit(p, b) ==
    IF p # <<>> /\ b \in Continuation
    THEN IF Len(Append(p, b)) = Size(p[1]) THEN <<Append(p, b)>> ELSE <<>>
    ELSE IF b \in Lead THEN Flush(p)
    ELSE IF b \in Continuation THEN Append(Flush(p), Replacement)
    ELSE Append(Flush(p), <<b>>)
Rest(p, b) ==
    IF p # <<>> /\ b \in Continuation
    THEN IF Len(Append(p, b)) = Size(p[1]) THEN <<>> ELSE Append(p, b)
    ELSE IF b \in Lead THEN <<b>> ELSE <<>>

\* The kinds of bytes.
LEMMA Bytes ==
    /\ "a" \in Byte /\ "C3" \in Byte /\ "EF" \in Byte /\ "BB" \in Byte /\ "BF" \in Byte
    /\ \A b \in Byte : b \in Ascii \/ b \in Lead \/ b \in Continuation
    /\ \A b \in Lead : b \in Byte /\ b \notin Ascii /\ b \notin Continuation
    /\ \A b \in Continuation : b \in Byte /\ b \notin Ascii /\ b \notin Lead
    /\ \A b \in Ascii : b \in Byte /\ b \notin Lead /\ b \notin Continuation
  BY DEF Byte, Ascii, Lead, Continuation

\* How many bytes of UTF-8 each kind of byte announces.
LEMMA Sizes ==
    /\ \A b \in Ascii : Size(b) = 1
    /\ Size("C3") = 2 /\ Size("EF") = 3
    /\ \A b \in Byte : Size(b) \in 1 .. 4
  BY DEF Byte, Ascii, Lead, Continuation, Size

\* Texts are closed under what the decoder does with them.
LEMMA CharsClosed ==
    /\ <<>> \in Chars /\ Replacement \in Seq(Byte) /\ \A p : Flush(p) \in Chars
    /\ \A x, y \in Chars : x \o y \in Chars /\ <<>> \o y = y /\ x \o <<>> = x
    /\ \A x \in Chars, c \in Seq(Byte) : Append(x, c) \in Chars /\ Append(x, c) = x \o <<c>>
    /\ \A c \in Seq(Byte) : <<c>> \in Chars
    /\ \A x, y, z \in Chars : (x \o y) \o z = x \o (y \o z)
<1>1. PICK S : S = Seq(Byte)
  OBVIOUS
<1>2. <<>> \in S
  BY <1>1
<1>3. /\ <<>> \in Seq(S)
      /\ \A x, y \in Seq(S) : x \o y \in Seq(S) /\ <<>> \o y = y /\ x \o <<>> = x
      /\ \A x \in Seq(S), c \in S : Append(x, c) \in Seq(S) /\ Append(x, c) = x \o <<c>>
      /\ \A c \in S : <<c>> \in Seq(S)
      /\ \A x, y, z \in Seq(S) : (x \o y) \o z = x \o (y \o z)
  OBVIOUS
<1>4. Replacement = <<>>
  BY DEF Replacement
<1>5. \A p : Flush(p) \in Seq(S)
  BY <1>2, <1>3, <1>4 DEF Flush
<1> QED
  BY <1>1, <1>2, <1>3, <1>4, <1>5 DEF Chars

\* Joining texts is associative.
LEMMA CharsJoin ==
    ASSUME NEW x \in Chars, NEW y \in Chars, NEW z \in Chars
    PROVE  (x \o y) \o z = x \o (y \o z)
  BY CharsClosed

\* A part of a code point is a sequence of one or two bytes, or none.
LEMMA Partials ==
    ASSUME NEW p \in Partial
    PROVE  p \in Seq(Byte) /\ Len(p) <= 2 /\ (p # <<>> => p[1] \in Lead)
           /\ \A b \in Byte : Emit(p, b) \in Chars /\ Rest(p, b) \in Partial
<1>1. p \in Seq(Byte) /\ Len(p) <= 2 /\ (p # <<>> => p[1] \in Lead)
  <2>1. CASE p = <<>>
    BY <2>1
  <2>2. CASE \E b \in Lead : p = <<b>>
    BY <2>2, Bytes
  <2>3. CASE \E c \in Continuation : p = <<"EF", c>>
    BY <2>3, Bytes DEF Lead
  <2> QED
    BY <2>1, <2>2, <2>3 DEF Partial
<1>2. ASSUME NEW b \in Byte PROVE Emit(p, b) \in Chars /\ Rest(p, b) \in Partial
  <2>1. Append(p, b) \in Seq(Byte) /\ <<b>> \in Seq(Byte)
    BY <1>1
  <2>2. <<Append(p, b)>> \in Chars /\ <<>> \in Chars /\ Flush(p) \in Chars
        /\ Append(Flush(p), Replacement) \in Chars /\ Append(Flush(p), <<b>>) \in Chars
    BY <2>1, CharsClosed
  <2>3. Emit(p, b) \in Chars
    BY <2>2, Zenon DEF Emit
  <2>4. <<>> \in Partial /\ (b \in Lead => <<b>> \in Partial)
    BY DEF Partial
  <2>5. ASSUME p # <<>>, b \in Continuation, Len(Append(p, b)) # Size(p[1]) PROVE Append(p, b) \in Partial
    <3>1. CASE \E l \in Lead : p = <<l>>
      <4>1. PICK l \in Lead : p = <<l>>
        BY <3>1
      <4>2. p[1] = l /\ Append(p, b) = <<l, b>> /\ Len(Append(p, b)) = 2
        <5>1. Append(<<l>>, b) = <<l, b>>
          <6>1. l \in Byte /\ <<l>> \in Seq(Byte) /\ Len(<<l>>) = 1
            BY Bytes
          <6>2. PICK q, r : q = Append(<<l>>, b) /\ r = <<l, b>>
            OBVIOUS
          <6>3. q \in Seq(Byte) /\ Len(q) = 2 /\ q[1] = l /\ q[2] = b
            BY <6>1, <6>2
          <6>4. r \in Seq(Byte) /\ Len(r) = 2 /\ r[1] = l /\ r[2] = b
            BY <6>1, <6>2
          <6>5. \A i \in 1 .. Len(q) : q[i] = r[i]
            BY <6>3, <6>4
          <6> QED
            BY <6>2, <6>3, <6>4, <6>5, SeqEqual, Zenon
        <5>2. Len(<<l, b>>) = 2 /\ <<l>>[1] = l
          OBVIOUS
        <5> QED
          BY <4>1, <5>1, <5>2, Zenon
      <4>3. l = "EF"
        BY <2>5, <4>2, Sizes DEF Lead
      <4> QED
        BY <2>5, <4>2, <4>3 DEF Partial
    <3>2. CASE \E c \in Continuation : p = <<"EF", c>>
      <4>1. p[1] = "EF" /\ Len(Append(p, b)) = 3
        BY <3>2
      <4> QED
        BY <2>5, <4>1, Sizes
    <3> QED
      BY <2>5, <3>1, <3>2 DEF Partial
  <2>6. Rest(p, b) \in Partial
    BY <2>4, <2>5, Zenon DEF Rest
  <2> QED
    BY <2>3, <2>6
<1> QED
  BY <1>1, <1>2

\* A step of the reader adds to its text, and does not look at it.
LEMMA StepEmits ==
    ASSUME NEW x \in Chars, NEW p \in Partial, NEW b \in Byte
    PROVE  LossyStep(After(x, p), b) = After(x \o Emit(p, b), Rest(p, b))
<1>1. PICK st : st = After(x, p) /\ st.text = x /\ st.pending = p
  <2>1. After(x, p).text = x /\ After(x, p).pending = p
    BY DEF After
  <2> QED
    BY <2>1, Zenon
<1>2. Append(p, b) \in Seq(Byte) /\ <<b>> \in Seq(Byte)
  BY Partials
<1>3. Append(x, Append(p, b)) = x \o <<Append(p, b)>> /\ x \o <<>> = x
  BY <1>2, CharsClosed
<1>4. PICK flushed \in Chars : flushed = (IF p = <<>> THEN x ELSE Append(x, Replacement))
  BY CharsClosed
<1>5. flushed = x \o Flush(p)
  BY <1>4, CharsClosed DEF Flush
<1>6. \A c \in Seq(Byte) : Append(flushed, c) = x \o Append(Flush(p), c)
  <2>1. Flush(p) \in Chars
    BY CharsClosed
  <2>2. ASSUME NEW c \in Seq(Byte) PROVE Append(flushed, c) = x \o Append(Flush(p), c)
    <3>1. <<c>> \in Chars /\ Append(flushed, c) = flushed \o <<c>> /\ Append(Flush(p), c) = Flush(p) \o <<c>>
      BY <2>1, CharsClosed
    <3>2. PICK f \in Chars, d \in Chars : f = Flush(p) /\ d = <<c>>
      BY <2>1, <3>1, Zenon
    <3>3. (x \o f) \o d = x \o (f \o d)
      BY CharsClosed, SMTT(30)
    <3> QED
      BY <1>5, <3>1, <3>2, <3>3, Zenon
  <2> QED
    BY <2>2, Zenon
<1>7. Replacement \in Seq(Byte)
  BY CharsClosed
<1>8. CASE p # <<>> /\ b \in Continuation
  BY <1>1, <1>3, <1>8, Zenon DEF LossyStep, Emit, Rest, After
<1>9. CASE ~(p # <<>> /\ b \in Continuation)
  <2>1. LossyStep(st, b) = CASE b \in Lead         -> [text |-> flushed, pending |-> <<b>>]
                             [] b \in Continuation -> [text |-> Append(flushed, Replacement), pending |-> <<>>]
                             [] b \in Ascii        -> [text |-> Append(flushed, <<b>>), pending |-> <<>>]
    BY <1>1, <1>4, <1>9, Zenon DEF LossyStep
  <2>2. CASE b \in Lead
    <3>1. LossyStep(st, b) = After(flushed, <<b>>)
      BY <2>1, <2>2, Bytes DEF After
    <3> QED
      BY <1>1, <1>5, <1>9, <2>2, <3>1, Zenon DEF Emit, Rest
  <2>3. CASE b \in Continuation
    <3>1. LossyStep(st, b) = After(Append(flushed, Replacement), <<>>) /\ b \notin Lead
      BY <2>1, <2>3, Bytes DEF After
    <3> QED
      BY <1>1, <1>6, <1>7, <1>9, <2>3, <3>1, Zenon DEF Emit, Rest
  <2>4. CASE b \in Ascii
    <3>1. LossyStep(st, b) = After(Append(flushed, <<b>>), <<>>) /\ b \notin Lead /\ b \notin Continuation
      BY <2>1, <2>4, Bytes DEF After
    <3> QED
      BY <1>1, <1>2, <1>6, <1>9, <2>4, <3>1, Zenon DEF Emit, Rest
  <2> QED
    BY <2>2, <2>3, <2>4, Bytes
<1> QED
  BY <1>8, <1>9

\* The states of a reader.
LEMMA Readings ==
    /\ \A x \in Chars, p \in Partial : After(x, p) \in Reading /\ After(x, p).text = x /\ After(x, p).pending = p
    /\ \A st \in Reading : st = After(st.text, st.pending) /\ st.text \in Chars /\ st.pending \in Partial
    /\ \A p : Since(p) = After(<<>>, p)
  BY DEF After, Reading, Since

LossySteps == [b \in Byte |-> [st \in Reading |-> LossyStep(st, b)]]
Reads(st, s) == FoldOf(Reading, LossySteps, st, s)

\* The steps of the lossy reader, read as a fold that carries text and pending bytes.
LEMMA LossyStepsAre ==
    /\ Steps(LossySteps, Byte, Reading)
    /\ \A b \in Byte, st \in Reading : LossySteps[b][st] = LossyStep(st, b)
    /\ \A b \in Byte, x \in Chars, p \in Partial :
          LossySteps[b][After(x, p)] = After(x \o Emit(p, b), Rest(p, b))
<1>1. \A b \in Byte, st \in Reading : LossySteps[b][st] = LossyStep(st, b)
  BY DEF LossySteps
<1>2. ASSUME NEW b \in Byte, NEW x \in Chars, NEW p \in Partial
      PROVE  LossySteps[b][After(x, p)] = After(x \o Emit(p, b), Rest(p, b))
  BY <1>1, Readings, StepEmits
<1>3. ASSUME NEW b \in Byte, NEW st \in Reading PROVE LossyStep(st, b) \in Reading
  <2>1. PICK x \in Chars, p \in Partial : st = After(x, p)
    BY Readings
  <2>2. LossyStep(st, b) = After(x \o Emit(p, b), Rest(p, b))
    BY <2>1, StepEmits
  <2>3. Emit(p, b) \in Chars /\ Rest(p, b) \in Partial
    BY Partials
  <2>4. x \o Emit(p, b) \in Chars
    BY <2>3, CharsClosed
  <2> QED
    BY <2>2, <2>3, <2>4, Readings
<1>4. Steps(LossySteps, Byte, Reading)
  BY <1>3 DEF Steps, LossySteps
<1> QED
  BY <1>1, <1>2, <1>4

\* Reading bytes, one after the other and one part after the other.
LEMMA ReadsBytes ==
    ASSUME NEW st \in Reading
    PROVE  /\ Reads(st, <<>>) = st
           /\ \A s \in Seq(Byte) : Reads(st, s) \in Reading
           /\ \A s \in Seq(Byte), b \in Byte : Reads(st, Append(s, b)) = LossySteps[b][Reads(st, s)]
           /\ \A s, t \in Seq(Byte) : Reads(st, s \o t) = Reads(Reads(st, s), t)
<1>1. Reads(st, <<>>) = st
  BY LossyStepsAre, FoldOfEmpty DEF Reads
<1>2. \A s \in Seq(Byte) : Reads(st, s) \in Reading
  BY LossyStepsAre, FoldOfStages DEF Reads
<1>3. \A s \in Seq(Byte), b \in Byte : Reads(st, Append(s, b)) = LossySteps[b][Reads(st, s)]
  BY LossyStepsAre, FoldOfAppend DEF Reads
<1>4. \A s, t \in Seq(Byte) : Reads(st, s \o t) = Reads(Reads(st, s), t)
  BY LossyStepsAre, FoldOfConcat DEF Reads
<1> QED
  BY <1>1, <1>2, <1>3, <1>4

\* What was read before is kept, and does not matter for what comes.
LEMMA ReadsShift ==
    ASSUME NEW x \in Chars, NEW p \in Partial, NEW s \in Seq(Byte)
    PROVE  Reads(After(x, p), s) = After(x \o Reads(Since(p), s).text, Reads(Since(p), s).pending)
<1>1. PICK T : T = {u \in Seq(Byte) :
                       Reads(After(x, p), u) = After(x \o Reads(Since(p), u).text, Reads(Since(p), u).pending)}
  BY Zenon
<1>2. After(x, p) \in Reading /\ Since(p) \in Reading /\ Since(p) = After(<<>>, p)
  BY CharsClosed, Readings
<1>3. <<>> \in T
  <2>1. <<>> \in Seq(Byte)
    OBVIOUS
  <2>2. Reads(After(x, p), <<>>) = After(x, p) /\ Reads(Since(p), <<>>) = Since(p)
    BY <1>2, ReadsBytes
  <2>3. Since(p).text = <<>> /\ Since(p).pending = p /\ x \o <<>> = x
    BY CharsClosed DEF Since
  <2> QED
    BY <1>1, <2>1, <2>2, <2>3
<1>4. ASSUME NEW u \in Seq(Byte), NEW b \in Byte, u \in T PROVE Append(u, b) \in T
  <2>1. PICK st \in Reading : st = Reads(Since(p), u)
    BY <1>2, ReadsBytes
  <2>2. PICK y \in Chars, q \in Partial : y = st.text /\ q = st.pending /\ st = After(y, q)
    BY Readings
  <2>3. Reads(After(x, p), u) = After(x \o y, q)
    BY <1>1, <1>4, <2>1, <2>2
  <2>4. x \o y \in Chars /\ Emit(q, b) \in Chars /\ Rest(q, b) \in Partial
    BY CharsClosed, Partials
  <2>5. Reads(After(x, p), Append(u, b)) = After((x \o y) \o Emit(q, b), Rest(q, b))
    BY <1>2, <2>3, <2>4, ReadsBytes, LossyStepsAre
  <2>6. Reads(Since(p), Append(u, b)) = After(y \o Emit(q, b), Rest(q, b))
    BY <1>2, <2>1, <2>2, ReadsBytes, LossyStepsAre
  <2>7. PICK e \in Chars : e = Emit(q, b)
    BY <2>4
  <2>8. (x \o y) \o e = x \o (y \o e)
    BY CharsJoin, Zenon
  <2>8a. PICK z \in Chars, q2 \in Partial : z = y \o e /\ q2 = Rest(q, b)
    BY <2>4, CharsClosed
  <2>9. Reads(Since(p), Append(u, b)).text = y \o e /\ Reads(Since(p), Append(u, b)).pending = Rest(q, b)
    <3>1. Reads(Since(p), Append(u, b)) = After(z, q2)
      BY <2>6, <2>7, <2>8a, Zenon
    <3>2. After(z, q2).text = z /\ After(z, q2).pending = q2
      BY Readings, Zenon
    <3> QED
      BY <2>8a, <3>1, <3>2, Zenon
  <2>10. Reads(After(x, p), Append(u, b)) = After(x \o (y \o e), Rest(q, b))
    BY <2>5, <2>7, <2>8
  <2>11. Append(u, b) \in Seq(Byte)
    OBVIOUS
  <2> QED
    BY <1>1, <2>9, <2>10, <2>11
<1>5. Seq(Byte) \subseteq T
  BY <1>3, <1>4, SeqInduction
<1> QED
  BY <1>1, <1>5

\* The text of bytes that follow a part of a code point.
Ends(p, s) == Reads(Since(p), s).text \o Flush(Reads(Since(p), s).pending)

\* Nothing of a code point is pending after these bytes.
Whole(s) == Reads(Since(<<>>), s).pending = <<>>

\* Lossy reads the bytes and gives up what is pending.
LEMMA LossyReads ==
    ASSUME NEW s \in Seq(Byte)
    PROVE  Lossy(s) = Ends(<<>>, s) /\ Lossy(s) \in Chars
<1>1. PICK n \in Nat : n = Len(s) /\ DOMAIN s = 1 .. n
  OBVIOUS
<1>2. PICK base \in Reading : base = [text |-> <<>>, pending |-> <<>>] /\ base = Since(<<>>)
  BY CharsClosed DEF Reading, Partial, Since
<1>3. PICK g \in [SUBSET (1 .. Len(s)) -> Reading] : IndexFold(g, Reading, LossySteps, base, s)
  BY LossyStepsAre, IndexFoldExists
<1>4. \A r \in SUBSET (1 .. Len(s)) : r # {} => s[Max(r)] \in Byte /\ r \ {Max(r)} \in SUBSET (1 .. Len(s))
  BY LossyStepsAre, <1>2, IndexFoldExists
<1> DEFINE Folded(h) == h = [r \in SUBSET (1 .. Len(s)) |->
                                IF r = {} THEN base ELSE LossyStep(h[r \ {Max(r)}], s[Max(r)])]
<1>5. Folded(g)
  <2>1. ASSUME NEW r \in SUBSET (1 .. Len(s))
        PROVE  g[r] = IF r = {} THEN base ELSE LossyStep(g[r \ {Max(r)}], s[Max(r)])
    <3>1. r # {} => g[r \ {Max(r)}] \in Reading
      BY <1>4, Zenon
    <3> QED
      BY <1>3, <1>4, <3>1, LossyStepsAre, Zenon DEF IndexFold
  <2> QED
    BY <2>1, Zenon
<1>6. PICK it : it = CHOOSE h : Folded(h)
  BY Zenon
<1>7. Folded(it)
  <2> HIDE DEF Folded
  <2> QED
    BY <1>5, <1>6, Zenon
<1>8. IndexFold(it, Reading, LossySteps, base, s)
  <2>1. ASSUME NEW r \in SUBSET (1 .. Len(s))
        PROVE  /\ r = {} => it[r] = base
               /\ r # {} /\ it[r \ {Max(r)}] \in Reading => it[r] = LossySteps[s[Max(r)]][it[r \ {Max(r)}]]
    BY <1>4, <1>7, LossyStepsAre, Zenon
  <2> QED
    BY <2>1, Zenon DEF IndexFold
<1>9. it[1 .. Len(s)] = Reads(base, s)
  BY <1>8, LossyStepsAre, IndexFoldFolds DEF Reads
<1>10. FoldLeft(LossyStep, base, s) = it[DOMAIN s]
  BY <1>1, <1>6, Zenon DEF FoldLeft, MapThenFoldSet
<1>11. PICK end \in Reading : end = Reads(Since(<<>>), s)
  BY <1>2, ReadsBytes
<1>12. FoldLeft(LossyStep, [text |-> <<>>, pending |-> <<>>], s) = end
  BY <1>1, <1>2, <1>9, <1>10, <1>11, Zenon
<1>13. Lossy(s) = IF end.pending = <<>> THEN end.text ELSE Append(end.text, Replacement)
  BY <1>12, Zenon DEF Lossy
<1>14. end.text \in Chars
  BY Readings
<1>15. Lossy(s) = end.text \o Flush(end.pending)
  BY <1>13, <1>14, CharsClosed DEF Flush
<1>16. Lossy(s) \in Chars
  BY <1>14, <1>15, CharsClosed
<1> QED
  BY <1>11, <1>15, <1>16 DEF Ends

\* What is read first, and what comes after it.
ReadsOn(p, s, y, q, t) ==
    /\ Ends(p, s \o t) = y \o Ends(q, t)
    /\ Reads(Since(p), s \o t).pending = Reads(Since(q), t).pending

\* Reading on after a first part: its text, then what the rest ends as.
LEMMA EndsConcat ==
    ASSUME NEW p \in Partial, NEW s \in Seq(Byte), NEW t \in Seq(Byte), NEW y \in Chars, NEW q \in Partial,
           Reads(Since(p), s) = After(y, q)
    PROVE  ReadsOn(p, s, y, q, t)
<1>1. Since(p) \in Reading /\ Since(q) \in Reading
  BY CharsClosed, Readings
<1>2. PICK z \in Chars, r \in Partial : Reads(Since(q), t) = After(z, r) /\ Reads(Since(q), t).text = z
                                        /\ Reads(Since(q), t).pending = r
  <2>1. PICK st \in Reading : st = Reads(Since(q), t)
    BY <1>1, ReadsBytes
  <2> QED
    BY <2>1, Readings
<1>3. Reads(Since(p), s \o t) = Reads(After(y, q), t)
  BY <1>1, ReadsBytes
<1>4. Reads(After(y, q), t) = After(y \o z, r)
  BY <1>2, ReadsShift
<1>5. PICK w \in Chars, f \in Chars : w = y \o z /\ f = Flush(r)
  BY CharsClosed
<1>6. Reads(Since(p), s \o t).text = w /\ Reads(Since(p), s \o t).pending = r
  <2>1. Reads(Since(p), s \o t) = After(w, r)
    BY <1>3, <1>4, <1>5, Zenon
  <2>2. After(w, r).text = w /\ After(w, r).pending = r
    BY Readings, Zenon
  <2> QED
    BY <2>1, <2>2, Zenon
<1>7. Ends(p, s \o t) = (y \o z) \o f
  BY <1>5, <1>6, Zenon DEF Ends
<1>8. Ends(q, t) = z \o f
  BY <1>2, <1>5, Zenon DEF Ends
<1>9. (y \o z) \o f = y \o (z \o f)
  BY CharsJoin, Zenon
<1> QED
  BY <1>2, <1>6, <1>7, <1>8, <1>9, Zenon DEF ReadsOn

\* What a reading ends as is a text, made of what it wrote and what it left pending.
LEMMA EndsTyped ==
    ASSUME NEW p \in Partial, NEW t \in Seq(Byte)
    PROVE  /\ Ends(p, t) \in Chars
           /\ \E y \in Chars, q \in Partial :
                 /\ Reads(Since(p), t) = After(y, q) /\ Reads(Since(p), t).pending = q
                 /\ Reads(Since(p), t).text = y /\ Ends(p, t) = y \o Flush(q)
<1>1. PICK st \in Reading : st = Reads(Since(p), t)
  BY CharsClosed, Readings, ReadsBytes
<1>2. PICK a \in Chars, b \in Partial : a = st.text /\ b = st.pending /\ st = After(a, b)
  BY Readings
<1>3. PICK g \in Chars : g = Flush(b)
  BY CharsClosed
<1>4. a \o g \in Chars
  BY CharsClosed
<1> QED
  BY <1>1, <1>2, <1>3, <1>4, Zenon DEF Ends

\* One byte.
LEMMA ReadsOne ==
    ASSUME NEW p \in Partial, NEW b \in Byte
    PROVE  /\ <<b>> \in Seq(Byte) /\ Emit(p, b) \in Chars /\ Rest(p, b) \in Partial
           /\ Reads(Since(p), <<b>>) = After(Emit(p, b), Rest(p, b))
<1>1. <<>> \in Seq(Byte) /\ Append(<<>>, b) = <<b>> /\ <<b>> \in Seq(Byte)
  OBVIOUS
<1>2. Since(p) \in Reading /\ Since(p) = After(<<>>, p) /\ <<>> \in Chars
  BY CharsClosed, Readings
<1>3. Reads(Since(p), <<b>>) = LossySteps[b][Reads(Since(p), <<>>)]
  <2>1. PICK e \in Seq(Byte) : e = <<>> /\ Append(e, b) = <<b>>
    BY <1>1
  <2>2. Reads(Since(p), Append(e, b)) = LossySteps[b][Reads(Since(p), e)]
    BY <1>2, ReadsBytes
  <2> QED
    BY <2>1, <2>2, Zenon
<1>4. Reads(Since(p), <<>>) = After(<<>>, p)
  BY <1>2, ReadsBytes
<1>5. LossySteps[b][After(<<>>, p)] = After(<<>> \o Emit(p, b), Rest(p, b))
  BY <1>2, LossyStepsAre
<1>6. Emit(p, b) \in Chars /\ Rest(p, b) \in Partial
  BY Partials
<1>7. <<>> \o Emit(p, b) = Emit(p, b)
  BY <1>6, CharsClosed
<1> QED
  BY <1>1, <1>3, <1>4, <1>5, <1>6, <1>7, Zenon

\* A byte that continues no code point ends the one before it.
Starts(t) == t = <<>> \/ t[1] \notin Continuation

\* Bytes that start a character flush whatever was pending before them.
LEMMA EndsFresh ==
    ASSUME NEW p \in Partial, NEW t \in Seq(Byte), Starts(t)
    PROVE  Ends(p, t) = Flush(p) \o Ends(<<>>, t)
<1>1. <<>> \in Partial /\ Flush(p) \in Chars /\ Ends(<<>>, t) \in Chars
  BY CharsClosed, EndsTyped DEF Partial
<1>2. CASE t = <<>>
  <2>1. \A q \in Partial : Ends(q, <<>>) = Flush(q)
    <3>1. ASSUME NEW q \in Partial PROVE Ends(q, <<>>) = Flush(q)
      <4>1. Reads(Since(q), <<>>) = After(<<>>, q) /\ <<>> \in Chars /\ Since(q) = After(<<>>, q)
        BY CharsClosed, Readings, ReadsBytes
      <4>2. After(<<>>, q).text = <<>> /\ After(<<>>, q).pending = q
        BY <4>1, Readings
      <4>3. PICK f \in Chars : f = Flush(q)
        BY CharsClosed
      <4>4. <<>> \o f = f
        BY CharsClosed
      <4> QED
        BY <4>1, <4>2, <4>3, <4>4, Zenon DEF Ends
    <3> QED
      BY <3>1
  <2>2. Flush(<<>>) = <<>>
    BY DEF Flush
  <2>3. Flush(p) \o <<>> = Flush(p)
    BY <1>1, CharsClosed
  <2> QED
    BY <1>1, <1>2, <2>1, <2>2, <2>3, Zenon
<1>3. CASE t # <<>>
  <2>1. PICK b \in Byte, u \in Seq(Byte) : t = <<b>> \o u /\ t[1] = b
    <3>1. t[1] \in Byte /\ Tail(t) \in Seq(Byte)
      BY <1>3
    <3>2. t = <<t[1]>> \o Tail(t)
      BY <1>3
    <3> QED
      BY <3>1, <3>2, Zenon
  <2>2. b \notin Continuation
    BY <1>3, <2>1 DEF Starts
  <2>3. PICK r \in Partial, e \in Chars, f \in Chars :
           r = Rest(<<>>, b) /\ e = Emit(<<>>, b) /\ f = Flush(p)
    BY <1>1, ReadsOne
  <2>4. Rest(p, b) = r /\ Emit(p, b) = f \o e
    <3>1. Flush(<<>>) = <<>>
      BY DEF Flush
    <3>2. Rest(p, b) = r
      BY <2>2, <2>3, Zenon DEF Rest
    <3>3. CASE b \in Lead
      <4>1. e = <<>> /\ Emit(p, b) = f /\ f \o <<>> = f
        BY <2>2, <2>3, <3>1, <3>3, CharsClosed, Zenon DEF Emit
      <4> QED
        BY <3>2, <4>1
    <3>4. CASE b \notin Lead
      <4>1. e = Append(<<>>, <<b>>) /\ Emit(p, b) = Append(f, <<b>>)
        BY <2>2, <2>3, <3>1, <3>4, Zenon DEF Emit
      <4>2. <<b>> \in Seq(Byte)
        OBVIOUS
      <4>3. <<>> \in Chars /\ Append(<<>>, <<b>>) = <<>> \o <<<<b>>>> /\ Append(f, <<b>>) = f \o <<<<b>>>> /\ <<<<b>>>> \in Chars
        BY <4>2, CharsClosed
      <4>4. <<>> \o <<<<b>>>> = <<<<b>>>>
        BY <4>3, CharsClosed
      <4> QED
        BY <3>2, <4>1, <4>3, <4>4, Zenon
    <3> QED
      BY <3>3, <3>4
  <2>5. PICK g \in Chars, v \in Chars : g = f \o e /\ v = Ends(r, u)
    BY CharsClosed, EndsTyped
  <2>6. Reads(Since(p), <<b>>) = After(g, r) /\ Reads(Since(<<>>), <<b>>) = After(e, r) /\ <<b>> \in Seq(Byte)
    BY <1>1, <2>3, <2>4, <2>5, ReadsOne
  <2>7. Ends(p, t) = g \o v /\ Ends(<<>>, t) = e \o v
    <3>1. PICK n \in Partial, a \in Seq(Byte) : n = <<>> /\ a = <<b>>
      BY <1>1, <2>6
    <3>2. Reads(Since(p), a) = After(g, r) /\ Reads(Since(n), a) = After(e, r)
      BY <2>6, <3>1, Zenon
    <3>3. ReadsOn(p, a, g, r, u) /\ ReadsOn(n, a, e, r, u)
      BY <3>2, EndsConcat
    <3>4. Ends(p, a \o u) = g \o Ends(r, u) /\ Ends(n, a \o u) = e \o Ends(r, u)
      BY <3>3, Zenon DEF ReadsOn
    <3> QED
      BY <2>1, <2>5, <3>1, <3>4, Zenon
  <2>8. (f \o e) \o v = f \o (e \o v)
    BY CharsJoin, Zenon
  <2> QED
    BY <2>3, <2>5, <2>7, <2>8, Zenon
<1> QED
  BY <1>2, <1>3

\* The text of bytes joined where a code point ends is the texts joined.
LEMMA LossyConcat ==
    ASSUME NEW s \in Seq(Byte), NEW t \in Seq(Byte), Starts(t) \/ Whole(s)
    PROVE  Lossy(s \o t) = Lossy(s) \o Lossy(t)
<1>1. <<>> \in Partial
  BY DEF Partial
<1>2. PICK y \in Chars, q \in Partial :
         /\ Reads(Since(<<>>), s) = After(y, q) /\ Reads(Since(<<>>), s).pending = q
         /\ Ends(<<>>, s) = y \o Flush(q)
  BY <1>1, EndsTyped
<1>3. Ends(<<>>, s \o t) = y \o Ends(q, t)
  <2>1. ReadsOn(<<>>, s, y, q, t)
    BY <1>1, <1>2, EndsConcat
  <2> QED
    BY <2>1 DEF ReadsOn
<1>4. PICK v \in Chars, f \in Chars : v = Ends(<<>>, t) /\ f = Flush(q)
  BY <1>1, CharsClosed, EndsTyped
<1>5. Ends(q, t) = f \o v
  <2>1. CASE Starts(t)
    BY <1>4, <2>1, EndsFresh
  <2>2. CASE Whole(s)
    <3>1. q = <<>> /\ f = <<>>
      BY <1>2, <1>4, <2>2 DEF Whole, Flush
    <3>2. <<>> \o v = v
      BY CharsClosed
    <3> QED
      BY <1>4, <3>1, <3>2, Zenon
  <2> QED
    BY <2>1, <2>2
<1>6. y \o (f \o v) = (y \o f) \o v
  BY CharsJoin, Zenon
<1>7. s \o t \in Seq(Byte)
  OBVIOUS
<1> QED
  BY <1>2, <1>3, <1>4, <1>5, <1>6, <1>7, LossyReads

\* Whole texts behind one another are whole.
LEMMA WholeConcat ==
    ASSUME NEW s \in Seq(Byte), NEW t \in Seq(Byte), Whole(s), Whole(t)
    PROVE  Whole(s \o t)
<1>1. <<>> \in Partial
  BY DEF Partial
<1>2. PICK y \in Chars, q \in Partial :
         /\ Reads(Since(<<>>), s) = After(y, q) /\ Reads(Since(<<>>), s).pending = q
  BY <1>1, EndsTyped
<1>3. Reads(Since(<<>>), s \o t).pending = Reads(Since(q), t).pending
  <2>1. ReadsOn(<<>>, s, y, q, t)
    BY <1>1, <1>2, EndsConcat
  <2> QED
    BY <2>1 DEF ReadsOn
<1> QED
  BY <1>2, <1>3 DEF Whole

\* Nothing read is whole, and no text.
LEMMA NothingRead == Whole(<<>>) /\ Lossy(<<>>) = <<>> /\ Starts(<<>>)
<1>1. <<>> \in Partial /\ <<>> \in Chars /\ <<>> \in Seq(Byte)
  BY CharsClosed DEF Partial
<1>2. Reads(Since(<<>>), <<>>) = Since(<<>>) /\ Since(<<>>).pending = <<>> /\ Since(<<>>).text = <<>>
  BY <1>1, Readings, ReadsBytes
<1>3. Ends(<<>>, <<>>) = <<>> \o <<>>
  BY <1>2, Zenon DEF Ends, Flush
<1>4. <<>> \o <<>> = <<>>
  BY <1>1, CharsClosed
<1> QED
  BY <1>1, <1>2, <1>3, <1>4, LossyReads DEF Whole, Starts

\* What passes to each number from all those above it, up to hi, holds from lo on.
LEMMA DownTo ==
    ASSUME NEW lo \in Nat, NEW hi \in Nat, NEW S,
           \A i \in lo .. hi : (\A j \in i + 1 .. hi : j \in S) => i \in S
    PROVE  lo .. hi \subseteq S
<1> SUFFICES ASSUME NEW x \in lo .. hi, x \notin S PROVE FALSE
  OBVIOUS
<1>1. PICK D \in SUBSET Nat : D = {d \in Nat : hi - d \in lo .. hi /\ hi - d \notin S}
  BY Zenon
<1>2. hi - x \in Nat /\ hi - (hi - x) = x
  OBVIOUS
<1>3. hi - x \in D
  BY <1>1, <1>2
<1>4. PICK m \in D : \A d \in D : m <= d
  BY <1>3, LeastMember
<1>5. PICK i \in lo .. hi : i = hi - m /\ i \notin S
  BY <1>1, <1>4
<1>6. ASSUME NEW j \in i + 1 .. hi PROVE j \in S
  <2> SUFFICES ASSUME j \notin S PROVE FALSE
    OBVIOUS
  <2>1. PICK d \in Nat : d = hi - j
    BY <1>5
  <2>2. hi - d = j /\ j \in lo .. hi /\ ~(m <= d)
    BY <1>5, <2>1
  <2>3. d \in D
    BY <1>1, <2>2
  <2> QED
    BY <1>4, <2>2, <2>3
<1> QED
  BY <1>5, <1>6

\* f is base beyond n, and below what step makes of its value for a later number.
Returning(f, lo, hi, n, base, step, next) ==
    \A i \in lo .. hi : f[i] = IF i > n THEN base ELSE step[i][f[next[i]]]
Onward(next, lo, hi, n) == \A i \in lo .. hi : i <= n => next[i] \in i + 1 .. hi
Turns(step, lo, hi, State) == \A i \in lo .. hi : step[i] \in [State -> State]

\* A function that recurs backwards over a bounded range exists.
LEMMA ReturningExists ==
    ASSUME NEW State, NEW base \in State, NEW lo \in Nat, NEW hi \in Nat, NEW n \in Nat, NEW step, NEW next,
           Onward(next, lo, hi, n), Turns(step, lo, hi, State)
    PROVE  \E f \in [lo .. hi -> State] : Returning(f, lo, hi, n, base, step, next)
<1>1. PICK D \in SUBSET Nat : D = {d \in Nat : \A l \in Nat : lo <= l /\ l + d = hi + 1 =>
                                     \E f \in [l .. hi -> State] : Returning(f, l, hi, n, base, step, next)}
  BY Zenon
<1>2. 0 \in D
  <2>1. ASSUME NEW l \in Nat, lo <= l, l + 0 = hi + 1
        PROVE  \E f \in [l .. hi -> State] : Returning(f, l, hi, n, base, step, next)
    <3>1. l .. hi = {}
      BY <2>1
    <3>2. PICK f : f = [i \in l .. hi |-> base]
      BY Zenon
    <3>3. f \in [l .. hi -> State] /\ Returning(f, l, hi, n, base, step, next)
      BY <3>1, <3>2 DEF Returning
    <3> QED
      BY <3>3, Zenon
  <2> QED
    BY <1>1, <2>1
<1>3. ASSUME NEW d \in D PROVE d + 1 \in D
  <2>0. d \in Nat /\ d + 1 \in Nat
    OBVIOUS
  <2>1. ASSUME NEW l \in Nat, lo <= l, l + (d + 1) = hi + 1
        PROVE  \E f \in [l .. hi -> State] : Returning(f, l, hi, n, base, step, next)
    <3>1. PICK k \in Nat : k = l + 1 /\ lo <= k /\ k + d = hi + 1
      BY <2>0, <2>1
    <3>2. PICK g \in [k .. hi -> State] : Returning(g, k, hi, n, base, step, next)
      BY <1>1, <3>1
    <3>3. l \in lo .. hi /\ l \in l .. hi /\ \A i \in l .. hi : i # l => i \in k .. hi
      BY <2>0, <2>1, <3>1
    <3>3a. \A i \in k .. hi : i \in l .. hi /\ i # l /\ i \in lo .. hi
      BY <3>1, <2>1
    <3>4. step[l] \in [State -> State] /\ (l <= n => next[l] \in k .. hi)
      BY <3>1, <3>3 DEF Turns, Onward
    <3>5. PICK v \in State : v = IF l > n THEN base ELSE step[l][g[next[l]]]
      BY <3>4
    <3>6. PICK f : f = [i \in l .. hi |-> IF i = l THEN v ELSE g[i]]
      BY Zenon
    <3>7. f \in [l .. hi -> State]
      BY <3>3, <3>6
    <3>8. \A i \in k .. hi : f[i] = g[i]
      BY <3>3a, <3>6
    <3>9. ASSUME NEW i \in l .. hi PROVE f[i] = IF i > n THEN base ELSE step[i][f[next[i]]]
      <4>1. CASE i = l
        <5>1. f[i] = v
          BY <3>6, <4>1
        <5>2. l <= n => f[next[l]] = g[next[l]]
          BY <3>4, <3>8
        <5> QED
          BY <3>5, <4>1, <5>1, <5>2
      <4>2. CASE i # l
        <5>1. i \in k .. hi /\ i \in lo .. hi
          BY <3>3, <3>3a, <4>2
        <5>2. f[i] = g[i] /\ g[i] = IF i > n THEN base ELSE step[i][g[next[i]]]
          BY <3>2, <3>8, <5>1 DEF Returning
        <5>3. i <= n => next[i] \in k .. hi
          BY <5>1 DEF Onward
        <5>4. i <= n => f[next[i]] = g[next[i]]
          BY <3>8, <5>3
        <5> QED
          BY <5>1, <5>2, <5>4
      <4> QED
        BY <4>1, <4>2
    <3>10. Returning(f, l, hi, n, base, step, next)
      BY <3>9 DEF Returning
    <3> QED
      BY <3>7, <3>10
  <2> QED
    BY <1>1, <2>0, <2>1
<1>4. D = Nat
  BY <1>2, <1>3, Induction
<1>5. CASE lo <= hi
  <2>1. PICK d \in Nat : d = hi + 1 - lo /\ lo + d = hi + 1 /\ lo <= lo
    BY <1>5
  <2> QED
    BY <1>1, <1>4, <2>1
<1>6. CASE ~(lo <= hi)
  <2>1. lo .. hi = {}
    BY <1>6
  <2>2. PICK f : f = [i \in lo .. hi |-> base]
    BY Zenon
  <2>3. f \in [lo .. hi -> State] /\ Returning(f, lo, hi, n, base, step, next)
    BY <2>1, <2>2 DEF Returning
  <2> QED
    BY <2>3, Zenon
<1> QED
  BY <1>5, <1>6

\* Reading on by one byte.
LEMMA EndsCons ==
    ASSUME NEW p \in Partial, NEW b \in Byte, NEW t \in Seq(Byte)
    PROVE  ReadsOn(p, <<b>>, Emit(p, b), Rest(p, b), t)
<1>1. PICK e \in Chars, r \in Partial, a \in Seq(Byte) :
         e = Emit(p, b) /\ r = Rest(p, b) /\ a = <<b>> /\ Reads(Since(p), a) = After(e, r)
  BY ReadsOne
<1>2. ReadsOn(p, a, e, r, t)
  BY <1>1, EndsConcat
<1> QED
  BY <1>1, <1>2, Zenon

\* Tuples put together.
Pair(S, a, b) == <<a>> \o <<b>> = <<a, b>> /\ Append(<<a>>, b) = <<a, b>> /\ <<a>> \in Seq(S) /\ <<a, b>> \in Seq(S)
Triple(a, b, c) == <<a>> \o <<b, c>> = <<a, b, c>> /\ Append(<<a, b>>, c) = <<a, b, c>>

\* What sequences of two and three are made of.
LEMMA Tuples ==
    ASSUME NEW S, NEW a \in S, NEW b \in S, NEW c \in S
    PROVE  Pair(S, a, b) /\ Triple(a, b, c)
<1>1. <<a>> \o <<b>> = <<a, b>>
  <2>1. PICK q, r : q = <<a>> \o <<b>> /\ r = <<a, b>>
    OBVIOUS
  <2>2. q \in Seq(S) /\ Len(q) = 2 /\ q[1] = a /\ q[2] = b
    BY <2>1
  <2>3. r \in Seq(S) /\ Len(r) = 2 /\ r[1] = a /\ r[2] = b
    BY <2>1
  <2>4. \A i \in 1 .. Len(q) : q[i] = r[i]
    BY <2>2, <2>3
  <2> QED
    BY <2>1, <2>2, <2>3, <2>4, SeqEqual, Zenon
<1>2. Append(<<a>>, b) = <<a, b>>
  <2>1. PICK q, r : q = Append(<<a>>, b) /\ r = <<a, b>>
    OBVIOUS
  <2>2. q \in Seq(S) /\ Len(q) = 2 /\ q[1] = a /\ q[2] = b
    BY <2>1
  <2>3. r \in Seq(S) /\ Len(r) = 2 /\ r[1] = a /\ r[2] = b
    BY <2>1
  <2>4. \A i \in 1 .. Len(q) : q[i] = r[i]
    BY <2>2, <2>3
  <2> QED
    BY <2>1, <2>2, <2>3, <2>4, SeqEqual, Zenon
<1>3. <<a>> \o <<b, c>> = <<a, b, c>>
  <2>1. PICK q, r : q = <<a>> \o <<b, c>> /\ r = <<a, b, c>>
    OBVIOUS
  <2>2. q \in Seq(S) /\ Len(q) = 3 /\ q[1] = a /\ q[2] = b /\ q[3] = c
    BY <2>1
  <2>3. r \in Seq(S) /\ Len(r) = 3 /\ r[1] = a /\ r[2] = b /\ r[3] = c
    BY <2>1
  <2>4. \A i \in 1 .. Len(q) : q[i] = r[i]
    BY <2>2, <2>3
  <2> QED
    BY <2>1, <2>2, <2>3, <2>4, SeqEqual, Zenon
<1>4. Append(<<a, b>>, c) = <<a, b, c>>
  <2>1. PICK q, r : q = Append(<<a, b>>, c) /\ r = <<a, b, c>>
    OBVIOUS
  <2>2. q \in Seq(S) /\ Len(q) = 3 /\ q[1] = a /\ q[2] = b /\ q[3] = c
    BY <2>1
  <2>3. r \in Seq(S) /\ Len(r) = 3 /\ r[1] = a /\ r[2] = b /\ r[3] = c
    BY <2>1
  <2>4. \A i \in 1 .. Len(q) : q[i] = r[i]
    BY <2>2, <2>3
  <2> QED
    BY <2>1, <2>2, <2>3, <2>4, SeqEqual, Zenon
<1>5. <<a>> \in Seq(S) /\ <<a, b>> \in Seq(S)
  OBVIOUS
<1> QED
  BY <1>1, <1>2, <1>3, <1>4, <1>5, Zenon DEF Pair, Triple

\* The bytes of one code point.
CodePoint(c) ==
    /\ c # <<>> /\ c[1] \notin Continuation /\ Len(c) = Size(c[1])
    /\ \A k \in 2 .. Len(c) : c[k] \in Continuation

\* The bytes of one code point read as that character.
LEMMA LossyOfOne ==
    ASSUME NEW c \in Seq(Byte), CodePoint(c)
    PROVE  Lossy(c) = <<c>> /\ Whole(c) /\ <<c>> \in Chars
<1>0. <<>> \in Partial /\ <<>> \in Seq(Byte) /\ <<>> \in Chars /\ <<c>> \in Chars /\ c[1] \in Byte
  <2>1. Len(c) # 0
    BY DEF CodePoint
  <2>2. c[1] \in Byte
    BY <2>1
  <2> QED
    BY <2>2, CharsClosed DEF Partial
<1>1. \A p \in Partial : Ends(p, <<>>) = Flush(p) /\ Reads(Since(p), <<>>).pending = p
  <2>1. ASSUME NEW p \in Partial PROVE Ends(p, <<>>) = Flush(p) /\ Reads(Since(p), <<>>).pending = p
    <3>1. Reads(Since(p), <<>>) = After(<<>>, p)
      BY <1>0, Readings, ReadsBytes
    <3>2. After(<<>>, p).text = <<>> /\ After(<<>>, p).pending = p
      BY <1>0, Readings
    <3>3. PICK f \in Chars : f = Flush(p) /\ <<>> \o f = f
      BY CharsClosed
    <3> QED
      BY <3>1, <3>2, <3>3, Zenon DEF Ends
  <2> QED
    BY <2>1
<1>2. ASSUME NEW p \in Partial, NEW b \in Byte, Emit(p, b) = <<c>>, Rest(p, b) = <<>>
      PROVE  /\ <<b>> \o <<>> = <<b>>
             /\ Ends(p, <<b>>) = <<c>> /\ Reads(Since(p), <<b>>).pending = <<>>
  <2>1. PICK a \in Seq(Byte), e \in Seq(Byte) : a = <<b>> /\ e = <<>> /\ a \o e = a
    <3>1. <<b>> \in Seq(Byte) /\ <<b>> \o <<>> = <<b>>
      OBVIOUS
    <3> QED
      BY <1>0, <3>1, Zenon
  <2>2. Ends(p, a \o e) = <<c>> \o Ends(<<>>, e) /\ Reads(Since(p), a \o e).pending = Reads(Since(<<>>), e).pending
    <3>1. ReadsOn(p, <<b>>, Emit(p, b), Rest(p, b), e)
      BY EndsCons
    <3> QED
      BY <1>2, <2>1, <3>1, Zenon DEF ReadsOn
  <2>3. Ends(<<>>, e) = <<>> /\ Reads(Since(<<>>), e).pending = <<>>
    BY <1>0, <1>1, <2>1 DEF Flush
  <2>4. <<c>> \o <<>> = <<c>>
    BY <1>0, CharsClosed
  <2> QED
    BY <2>1, <2>2, <2>3, <2>4, Zenon
<1>3. Ends(<<>>, c) = <<c>> /\ Reads(Since(<<>>), c).pending = <<>>
  <2>1. CASE c[1] \in Ascii
    <3>1. PICK b \in Byte : b = c[1] /\ b \notin Lead /\ b \notin Continuation
      BY <2>1, Bytes
    <3>2. c = <<b>>
      <4>1. Len(c) = 1
        BY <2>1, Sizes DEF CodePoint
      <4> QED
        BY <3>1, <4>1
    <3>3. Emit(<<>>, b) = <<c>> /\ Rest(<<>>, b) = <<>>
      <4>1. Append(<<>>, <<b>>) = <<<<b>>>>
        OBVIOUS
      <4> QED
        BY <3>1, <3>2, <4>1, Zenon DEF Emit, Rest, Flush
    <3> QED
      BY <1>0, <1>2, <3>2, <3>3
  <2>2. CASE c[1] = "C3"
    <3>1. Len(c) = 2
      BY <2>2, Sizes DEF CodePoint
    <3>2. PICK b \in Byte, k \in Byte : b = "C3" /\ k = c[2] /\ k \in Continuation
      BY <2>2, <3>1, Bytes DEF CodePoint
    <3>3. c = <<b>> \o <<k>> /\ Append(<<b>>, k) = c /\ <<k>> \in Seq(Byte)
      BY <2>2, <3>1, <3>2
    <3>4. <<b>> \in Partial /\ b \in Lead
      BY <3>2 DEF Partial, Lead
    <3>5. Emit(<<b>>, k) = <<c>> /\ Rest(<<b>>, k) = <<>>
      <4>1. <<b>> # <<>> /\ <<b>>[1] = b /\ Len(Append(<<b>>, k)) = Size(b)
        BY <3>1, <3>2, <3>3, Sizes
      <4> QED
        BY <3>2, <3>3, <4>1, Zenon DEF Emit, Rest
    <3>6. Emit(<<>>, b) = <<>> /\ Rest(<<>>, b) = <<b>>
      BY <3>4, Zenon DEF Emit, Rest, Flush
    <3>7. Ends(<<b>>, <<k>>) = <<c>> /\ Reads(Since(<<b>>), <<k>>).pending = <<>>
      BY <1>2, <3>4, <3>5
    <3>8. Ends(<<>>, <<b>> \o <<k>>) = <<>> \o Ends(<<b>>, <<k>>)
          /\ Reads(Since(<<>>), <<b>> \o <<k>>).pending = Reads(Since(<<b>>), <<k>>).pending
      <4>1. ReadsOn(<<>>, <<b>>, Emit(<<>>, b), Rest(<<>>, b), <<k>>)
        BY <1>0, <3>3, EndsCons
      <4> QED
        BY <3>6, <4>1, Zenon DEF ReadsOn
    <3>9. <<>> \o <<c>> = <<c>>
      BY <1>0, CharsClosed
    <3> QED
      BY <3>3, <3>7, <3>8, <3>9
  <2>3. CASE c[1] = "EF"
    <3>1. Len(c) = 3
      BY <2>3, Sizes DEF CodePoint
    <3>2. PICK b \in Byte, k \in Byte, l \in Byte :
             b = "EF" /\ k = c[2] /\ k \in Continuation /\ l = c[3] /\ l \in Continuation
      BY <2>3, <3>1, Bytes DEF CodePoint
    <3>3. c = <<b>> \o (<<k>> \o <<l>>) /\ Append(<<b, k>>, l) = c /\ <<k>> \in Seq(Byte) /\ <<l>> \in Seq(Byte)
          /\ <<k>> \o <<l>> \in Seq(Byte) /\ Append(<<b>>, k) = <<b, k>>
      <4>0. Pair(Byte, k, l) /\ Pair(Byte, l, l) /\ Pair(Byte, b, k) /\ Triple(b, k, l)
        BY Tuples
      <4>1. <<k>> \in Seq(Byte) /\ <<l>> \in Seq(Byte) /\ <<k>> \o <<l>> = <<k, l>> /\ <<k, l>> \in Seq(Byte)
        BY <4>0 DEF Pair
      <4>2. <<b>> \o <<k, l>> = <<b, k, l>> /\ Append(<<b>>, k) = <<b, k>> /\ Append(<<b, k>>, l) = <<b, k, l>>
        BY <4>0, Zenon DEF Pair, Triple
      <4>4. c = <<b, k, l>>
        BY <2>3, <3>1, <3>2
      <4> QED
        BY <4>1, <4>2, <4>4, Zenon
    <3>4. <<b>> \in Partial /\ b \in Lead /\ <<b, k>> \in Partial
      BY <3>2 DEF Partial, Lead
    <3>5. Emit(<<b, k>>, l) = <<c>> /\ Rest(<<b, k>>, l) = <<>>
      <4>1. <<b, k>> # <<>> /\ <<b, k>>[1] = b /\ Len(Append(<<b, k>>, l)) = Size(b)
        BY <3>1, <3>2, <3>3, Sizes
      <4> QED
        BY <3>2, <3>3, <4>1, Zenon DEF Emit, Rest
    <3>6. Emit(<<>>, b) = <<>> /\ Rest(<<>>, b) = <<b>>
      BY <3>4, Zenon DEF Emit, Rest, Flush
    <3>6a. Emit(<<b>>, k) = <<>> /\ Rest(<<b>>, k) = <<b, k>>
      <4>1. <<b>> # <<>> /\ <<b>>[1] = b /\ Len(<<b, k>>) # Size(b)
        BY <3>2, Sizes
      <4> QED
        BY <3>2, <3>3, <4>1, Zenon DEF Emit, Rest
    <3>7. Ends(<<b, k>>, <<l>>) = <<c>> /\ Reads(Since(<<b, k>>), <<l>>).pending = <<>>
      BY <1>2, <3>4, <3>5
    <3>8. Ends(<<b>>, <<k>> \o <<l>>) = <<>> \o Ends(<<b, k>>, <<l>>)
          /\ Reads(Since(<<b>>), <<k>> \o <<l>>).pending = Reads(Since(<<b, k>>), <<l>>).pending
      <4>1. ReadsOn(<<b>>, <<k>>, Emit(<<b>>, k), Rest(<<b>>, k), <<l>>)
        BY <3>3, <3>4, EndsCons
      <4> QED
        BY <3>6a, <4>1, Zenon DEF ReadsOn
    <3>9. PICK t \in Seq(Byte) : t = <<k>> \o <<l>>
      BY <3>3
    <3>10. Ends(<<>>, <<b>> \o t) = <<>> \o Ends(<<b>>, t)
          /\ Reads(Since(<<>>), <<b>> \o t).pending = Reads(Since(<<b>>), t).pending
      <4>1. ReadsOn(<<>>, <<b>>, Emit(<<>>, b), Rest(<<>>, b), t)
        BY <1>0, EndsCons
      <4> QED
        BY <3>6, <4>1, Zenon DEF ReadsOn
    <3>11. <<>> \o <<c>> = <<c>>
      BY <1>0, CharsClosed
    <3> QED
      BY <3>3, <3>7, <3>8, <3>9, <3>10, <3>11, Zenon
  <2>4. c[1] \in Ascii \/ c[1] = "C3" \/ c[1] = "EF"
    BY <1>0, Bytes DEF CodePoint, Lead
  <2> QED
    BY <2>1, <2>2, <2>3, <2>4
<1> QED
  BY <1>0, <1>3, LossyReads DEF Whole

\* A part of a sequence, and two parts that meet.
Part(S, s, i, k) ==
    /\ SubSeq(s, i, k) \in Seq(S) /\ Len(SubSeq(s, i, k)) = k + 1 - i
    /\ \A x \in 1 .. k + 1 - i : SubSeq(s, i, k)[x] = s[i + x - 1]

\* A part of a sequence, element by element.
LEMMA Parts ==
    ASSUME NEW S, NEW s \in Seq(S), NEW i \in 1 .. Len(s) + 1, NEW k \in 0 .. Len(s), i <= k + 1
    PROVE  Part(S, s, i, k)
<1>1. SubSeq(s, i, k) \in Seq(S) /\ Len(SubSeq(s, i, k)) = k + 1 - i
  OBVIOUS
<1>2. \A x \in 1 .. k + 1 - i : SubSeq(s, i, k)[x] = s[i + x - 1]
  OBVIOUS
<1> QED
  BY <1>1, <1>2 DEF Part

\* Two adjoining parts make the part they cover.
LEMMA PartsMeet ==
    ASSUME NEW S, NEW s \in Seq(S), NEW i \in 1 .. Len(s) + 1, NEW k \in 0 .. Len(s), NEW j \in i .. k + 1
    PROVE  SubSeq(s, i, k) = SubSeq(s, i, j - 1) \o SubSeq(s, j, k)
<1>0. i <= k + 1 /\ j \in 1 .. Len(s) + 1 /\ j <= k + 1 /\ j - 1 \in 0 .. Len(s) /\ i <= (j - 1) + 1
  OBVIOUS
<1>1. Part(S, s, i, k) /\ Part(S, s, i, j - 1) /\ Part(S, s, j, k)
  BY <1>0, Parts
<1>2. PICK a, b, c : a = SubSeq(s, i, k) /\ b = SubSeq(s, i, j - 1) /\ c = SubSeq(s, j, k)
  OBVIOUS
<1>3. a \in Seq(S) /\ Len(a) = k + 1 - i /\ \A x \in 1 .. k + 1 - i : a[x] = s[i + x - 1]
  BY <1>1, <1>2 DEF Part
<1>4. b \in Seq(S) /\ Len(b) = j - i /\ \A x \in 1 .. j - i : b[x] = s[i + x - 1]
  BY <1>1, <1>2 DEF Part
<1>5. c \in Seq(S) /\ Len(c) = k + 1 - j /\ \A x \in 1 .. k + 1 - j : c[x] = s[j + x - 1]
  BY <1>1, <1>2 DEF Part
<1>6. PICK d : d = b \o c
  OBVIOUS
<1>7. d \in Seq(S) /\ Len(d) = Len(b) + Len(c)
      /\ \A x \in 1 .. Len(b) + Len(c) : d[x] = IF x <= Len(b) THEN b[x] ELSE c[x - Len(b)]
  BY <1>4, <1>5, <1>6, ConcatProperties, Zenon
<1>8. Len(d) = Len(a)
  <2>1. (j - i) + (k + 1 - j) = k + 1 - i
    OBVIOUS
  <2> QED
    BY <1>3, <1>4, <1>5, <1>7, <2>1, Zenon
<1>9. ASSUME NEW x \in 1 .. Len(a) PROVE a[x] = d[x]
  <2>1. CASE x <= j - i
    <3>1. x \in 1 .. j - i /\ x \in 1 .. k + 1 - i /\ x \in 1 .. Len(b) + Len(c) /\ x <= Len(b)
      BY <1>3, <1>4, <1>5, <2>1
    <3>2. d[x] = b[x] /\ b[x] = s[i + x - 1] /\ a[x] = s[i + x - 1]
      BY <1>3, <1>4, <1>7, <3>1, Zenon
    <3> QED
      BY <3>2
  <2>2. CASE ~(x <= j - i)
    <3>1. PICK y \in 1 .. k + 1 - j : y = x - (j - i) /\ j + y - 1 = i + x - 1
      BY <1>3, <2>2
    <3>2. d[x] = c[y]
      <4>1. x \in 1 .. Len(b) + Len(c) /\ ~(x <= Len(b)) /\ x - Len(b) = y
        BY <1>3, <1>4, <1>5, <2>2, <3>1
      <4> QED
        BY <1>7, <4>1, Zenon
    <3> QED
      BY <1>3, <1>5, <3>1, <3>2
  <2> QED
    BY <2>1, <2>2
<1> QED
  BY <1>2, <1>3, <1>6, <1>7, <1>8, <1>9, SeqEqual, Zenon

\* What begins at an index of valid bytes.
Point(s, i, a) ==
    /\ s[i] \in Byte /\ s[i] \notin Continuation /\ a = i + Size(s[i]) /\ a \in i + 1 .. Len(s) + 1
    /\ SubSeq(s, i, a - 1) \in Seq(Byte) /\ CodePoint(SubSeq(s, i, a - 1))
    /\ SubSeq(s, a, Len(s)) \in Seq(Byte)
    /\ SubSeq(s, i, Len(s)) = SubSeq(s, i, a - 1) \o SubSeq(s, a, Len(s))

\* Where the validator finds a code point, its bytes are one.
LEMMA PointAt ==
    ASSUME NEW s \in Seq(Byte), NEW i \in 1 .. Len(s), AfterCodePoint(s, i) # 0
    PROVE  Point(s, i, AfterCodePoint(s, i))
<1>1. PICK a : a = AfterCodePoint(s, i)
  OBVIOUS
<1>2. s[i] \in Byte /\ Size(s[i]) \in 1 .. 4
  BY Sizes
<1>3. /\ s[i] \notin Continuation /\ i + Size(s[i]) - 1 <= Len(s) /\ a = i + Size(s[i]) - 1 + 1
      /\ \A k \in i + 1 .. i + Size(s[i]) - 1 : s[k] \in Continuation
  BY <1>1, Zenon DEF AfterCodePoint
<1>4. a = i + Size(s[i]) /\ a \in i + 1 .. Len(s) + 1
  BY <1>2, <1>3
<1>5. Part(Byte, s, i, a - 1) /\ Part(Byte, s, a, Len(s))
  <2>1. a - 1 \in 0 .. Len(s) /\ i <= a - 1 + 1 /\ i \in 1 .. Len(s) + 1 /\ a \in 1 .. Len(s) + 1 /\ Len(s) \in 0 .. Len(s)
        /\ a <= Len(s) + 1
    BY <1>4
  <2> QED
    BY <2>1, Parts
<1>6. SubSeq(s, i, Len(s)) = SubSeq(s, i, a - 1) \o SubSeq(s, a, Len(s))
  <2>1. i \in 1 .. Len(s) + 1 /\ Len(s) \in 0 .. Len(s) /\ a \in i .. Len(s) + 1
    BY <1>4
  <2> QED
    BY <2>1, PartsMeet
<1>7. CodePoint(SubSeq(s, i, a - 1))
  <2>1. PICK c : c = SubSeq(s, i, a - 1)
    OBVIOUS
  <2>2. c \in Seq(Byte) /\ Len(c) = Size(s[i]) /\ \A x \in 1 .. Size(s[i]) : c[x] = s[i + x - 1]
    <3>1. a - 1 + 1 - i = Size(s[i])
      BY <1>2, <1>4
    <3> QED
      BY <1>5, <2>1, <3>1, Zenon DEF Part
  <2>3. c[1] = s[i] /\ c # <<>>
    BY <1>2, <2>2
  <2>4. ASSUME NEW k \in 2 .. Len(c) PROVE c[k] \in Continuation
    <3>1. c[k] = s[i + k - 1] /\ i + k - 1 \in i + 1 .. i + Size(s[i]) - 1
      BY <1>2, <2>2
    <3> QED
      BY <1>3, <3>1
  <2> QED
    BY <1>3, <2>1, <2>2, <2>3, <2>4, Zenon DEF CodePoint
<1> QED
  BY <1>1, <1>2, <1>3, <1>4, <1>5, <1>6, <1>7 DEF Point, Part

\* Valid bytes are those whose code points are all there, and the decoder of valid bytes
\* and the one for any bytes give the same text.
Spells(s, i, text) ==
    text = Lossy(SubSeq(s, i, Len(s))) /\ Whole(SubSeq(s, i, Len(s))) /\ (i <= Len(s) => s[i] \notin Continuation)

\* On valid UTF-8 the strict decoder of the table (decodeValidUtf8) gives what the lossy one of
\* the core gives, and nothing is left pending: what lets strings of tokens stand for their bytes.
THEOREM ValidText ==
    ASSUME NEW s \in Seq(Byte), IsValidUtf8(s)
    PROVE  Whole(s) /\ Starts(s) /\ DecodeValidUtf8(s) = Lossy(s)
<1>1. PICK n \in Nat : n = Len(s)
  OBVIOUS
<1> DEFINE Valid(h) == h = [i \in 1 .. Len(s) + 1 |->
                              \/ i = Len(s) + 1
                              \/ AfterCodePoint(s, i) # 0 /\ h[AfterCodePoint(s, i)]]
           Texts(h) == h = [i \in 1 .. Len(s) + 4 |->
                              IF i > Len(s) THEN <<>>
                              ELSE <<SubSeq(s, i, i + Size(s[i]) - 1)>> \o h[i + Size(s[i])]]
<1>2. \A i \in 1 .. n : AfterCodePoint(s, i) # 0 => Point(s, i, AfterCodePoint(s, i))
  BY <1>1, PointAt
<1>3. \E f : Valid(f)
  <2>1. PICK next : next = [i \in 1 .. n + 1 |-> IF AfterCodePoint(s, i) = 0 THEN i + 1 ELSE AfterCodePoint(s, i)]
    BY Zenon
  <2>2. PICK step : step = [i \in 1 .. n + 1 |-> [x \in {0, 1} |-> IF AfterCodePoint(s, i) = 0 THEN 0 ELSE x]]
    BY Zenon
  <2>3. Onward(next, 1, n + 1, n)
    <3>1. ASSUME NEW i \in 1 .. n + 1, i <= n PROVE next[i] \in i + 1 .. n + 1
      <4>1. CASE AfterCodePoint(s, i) = 0
        BY <2>1, <3>1, <4>1
      <4>2. CASE AfterCodePoint(s, i) # 0
        <5>1. Point(s, i, AfterCodePoint(s, i))
          BY <1>2, <3>1, <4>2
        <5> QED
          BY <1>1, <2>1, <4>2, <5>1 DEF Point
      <4> QED
        BY <4>1, <4>2
    <3> QED
      BY <3>1 DEF Onward
  <2>4. Turns(step, 1, n + 1, {0, 1})
    BY <2>2 DEF Turns
  <2>5. PICK g \in [1 .. n + 1 -> {0, 1}] : Returning(g, 1, n + 1, n, 1, step, next)
    <3>1. PICK hi \in Nat : hi = n + 1
      OBVIOUS
    <3>2. 1 \in Nat /\ 1 \in {0, 1} /\ Onward(next, 1, hi, n) /\ Turns(step, 1, hi, {0, 1})
      BY <2>3, <2>4, <3>1
    <3>3. \E g \in [1 .. hi -> {0, 1}] : Returning(g, 1, hi, n, 1, step, next)
      BY <3>2, ReturningExists
    <3> QED
      BY <3>1, <3>3
  <2>6. PICK f : f = [i \in 1 .. n + 1 |-> g[i] = 1]
    BY Zenon
  <2>7. ASSUME NEW i \in 1 .. n + 1
        PROVE  f[i] = (i = n + 1 \/ (AfterCodePoint(s, i) # 0 /\ f[AfterCodePoint(s, i)]))
    <3>0. f[i] = (g[i] = 1) /\ g[i] = IF i > n THEN 1 ELSE step[i][g[next[i]]]
      BY <2>5, <2>6 DEF Returning
    <3>1. CASE i = n + 1
      <4>1. g[i] = 1
        BY <3>0, <3>1
      <4> QED
        BY <3>0, <3>1, <4>1
    <3>2. CASE i # n + 1 /\ AfterCodePoint(s, i) = 0
      <4>1. g[next[i]] \in {0, 1}
        BY <2>3, <2>5, <3>2 DEF Onward
      <4>2. step[i][g[next[i]]] = 0
        BY <2>2, <3>2, <4>1
      <4>3. g[i] # 1
        BY <3>0, <3>2, <4>2
      <4> QED
        BY <3>0, <3>2, <4>3
    <3>3. CASE i # n + 1 /\ AfterCodePoint(s, i) # 0
      <4>1. next[i] = AfterCodePoint(s, i) /\ next[i] \in 1 .. n + 1
        BY <2>1, <2>3, <3>3 DEF Onward
      <4>2. step[i][g[next[i]]] = g[next[i]]
        BY <2>2, <3>3, <4>1
      <4>3. g[i] = g[next[i]] /\ f[next[i]] = (g[next[i]] = 1)
        BY <2>6, <3>0, <3>3, <4>1, <4>2
      <4> QED
        BY <3>0, <3>3, <4>1, <4>3
    <3> QED
      BY <3>1, <3>2, <3>3
  <2>8. f = [i \in 1 .. n + 1 |-> i = n + 1 \/ (AfterCodePoint(s, i) # 0 /\ f[AfterCodePoint(s, i)])]
    BY <2>6, <2>7, Zenon
  <2>9. Valid(f)
    BY <1>1, <2>8, Zenon
  <2> QED
    BY <2>9, Zenon
<1>4. \E f : Texts(f)
  <2>1. PICK next : next = [i \in 1 .. n + 4 |-> i + Size(s[i])]
    BY Zenon
  <2>0. PICK V : V = {SubSeq(s, i, i + Size(s[i]) - 1) : i \in 1 .. n + 4}
    BY Zenon
  <2>2. PICK step : step = [i \in 1 .. n + 4 |-> [x \in Seq(V) |-> IF i > n THEN <<>>
                                                    ELSE <<SubSeq(s, i, i + Size(s[i]) - 1)>> \o x]]
    BY Zenon
  <2>3. Onward(next, 1, n + 4, n)
    <3>1. ASSUME NEW i \in 1 .. n + 4, i <= n PROVE next[i] \in i + 1 .. n + 4
      <4>1. s[i] \in Byte
        BY <1>1, <3>1
      <4>2. Size(s[i]) \in 1 .. 4
        BY <4>1, Sizes
      <4> QED
        BY <2>1, <3>1, <4>2
    <3> QED
      BY <3>1 DEF Onward
  <2>4. Turns(step, 1, n + 4, Seq(V))
    <3>1. ASSUME NEW i \in 1 .. n + 4, NEW x \in Seq(V)
          PROVE  (IF i > n THEN <<>> ELSE <<SubSeq(s, i, i + Size(s[i]) - 1)>> \o x) \in Seq(V)
      <4>1. PICK c \in V : c = SubSeq(s, i, i + Size(s[i]) - 1)
        BY <2>0
      <4>2. <<>> \in Seq(V) /\ <<c>> \o x \in Seq(V)
        OBVIOUS
      <4> QED
        BY <4>1, <4>2
    <3> QED
      BY <2>2, <3>1 DEF Turns
  <2>5. PICK hi \in Nat : hi = n + 4
    OBVIOUS
  <2>6. PICK base \in Seq(V) : base = <<>>
    BY EmptySeq, Zenon
  <2>7. PICK g \in [1 .. hi -> Seq(V)] : Returning(g, 1, hi, n, base, step, next)
    <3>1. 1 \in Nat /\ Onward(next, 1, hi, n) /\ Turns(step, 1, hi, Seq(V))
      BY <2>3, <2>4, <2>5
    <3> QED
      BY <3>1, ReturningExists
  <2>8. ASSUME NEW i \in 1 .. n + 4
        PROVE  g[i] = IF i > n THEN <<>> ELSE <<SubSeq(s, i, i + Size(s[i]) - 1)>> \o g[i + Size(s[i])]
    <3>1. g[i] = IF i > n THEN <<>> ELSE step[i][g[next[i]]]
      BY <2>5, <2>6, <2>7 DEF Returning
    <3>2. CASE i > n
      BY <3>1, <3>2
    <3>3. CASE ~(i > n)
      <4>1. next[i] \in 1 .. n + 4 /\ next[i] = i + Size(s[i])
        BY <2>1, <2>3, <3>3 DEF Onward
      <4>2. g[next[i]] \in Seq(V)
        BY <2>5, <2>7, <4>1
      <4>3. step[i][g[next[i]]] = <<SubSeq(s, i, i + Size(s[i]) - 1)>> \o g[next[i]]
        BY <2>2, <3>3, <4>2, Zenon
      <4> QED
        BY <3>1, <3>3, <4>1, <4>3
    <3> QED
      BY <3>2, <3>3
  <2>9. g = [i \in 1 .. n + 4 |->
                IF i > n THEN <<>> ELSE <<SubSeq(s, i, i + Size(s[i]) - 1)>> \o g[i + Size(s[i])]]
    <3>1. \A h : h \in [1 .. n + 4 -> Seq(V)] => h = [i \in 1 .. n + 4 |-> h[i]]
      OBVIOUS
    <3>2. g = [i \in 1 .. n + 4 |-> g[i]]
      BY <2>5, <2>7, <3>1
    <3> QED
      BY <2>8, <3>2, Zenon
  <2> QED
    BY <1>1, <2>9, Zenon
<1>5. PICK f : f = CHOOSE h : Valid(h)
  BY Zenon
<1>6. PICK g : g = CHOOSE h : Texts(h)
  BY Zenon
<1>7. \A i \in 1 .. n + 1 : f[i] = (i = n + 1 \/ (AfterCodePoint(s, i) # 0 /\ f[AfterCodePoint(s, i)]))
  <2>1. Valid(f)
    BY <1>3, <1>5, Zenon
  <2> QED
    BY <1>1, <2>1, Zenon
<1>8. \A i \in 1 .. n + 4 : g[i] = IF i > n THEN <<>>
                                   ELSE <<SubSeq(s, i, i + Size(s[i]) - 1)>> \o g[i + Size(s[i])]
  <2>1. Texts(g)
    BY <1>4, <1>6, Zenon
  <2> QED
    BY <1>1, <2>1, Zenon
<1>9. f[1] = IsValidUtf8(s) /\ g[1] = DecodeValidUtf8(s)
  BY <1>5, <1>6, Zenon DEF IsValidUtf8, DecodeValidUtf8
<1>10. PICK T : T = {i \in 1 .. n + 1 : f[i] => Spells(s, i, g[i])}
  BY Zenon
<1>11. n + 1 \in T
  <2>1. g[n + 1] = <<>>
    <3>1. n + 1 \in 1 .. n + 4 /\ n + 1 > n
      OBVIOUS
    <3> QED
      BY <1>8, <3>1, Zenon
  <2>2. SubSeq(s, n + 1, n) = <<>>
    BY <1>1
  <2>3. Spells(s, n + 1, <<>>)
    <3>1. ~(n + 1 <= n)
      OBVIOUS
    <3> QED
      BY <1>1, <2>2, <3>1, NothingRead, Zenon DEF Spells
  <2>4. n + 1 \in 1 .. n + 1
    OBVIOUS
  <2> QED
    BY <1>10, <2>1, <2>3, <2>4, Zenon
<1>12. ASSUME NEW i \in 1 .. n, \A j \in i + 1 .. n + 1 : j \in T PROVE i \in T
  <2>1. i \in 1 .. n + 1 /\ i # n + 1 /\ i \in 1 .. n + 4 /\ ~(i > n)
    OBVIOUS
  <2>2. SUFFICES ASSUME f[i] PROVE Spells(s, i, g[i])
    BY <1>10, <2>1
  <2>3. AfterCodePoint(s, i) # 0 /\ f[AfterCodePoint(s, i)]
    BY <1>7, <2>1, <2>2, Zenon
  <2>4. PICK a : a = AfterCodePoint(s, i) /\ Point(s, i, a)
    BY <1>2, <2>3
  <2>5. PICK c : c = SubSeq(s, i, a - 1)
    OBVIOUS
  <2>6. PICK d : d = SubSeq(s, a, n)
    OBVIOUS
  <2>7. /\ s[i] \notin Continuation /\ a = i + Size(s[i]) /\ a \in i + 1 .. n + 1
        /\ c \in Seq(Byte) /\ CodePoint(c) /\ d \in Seq(Byte) /\ SubSeq(s, i, n) = c \o d
    BY <1>1, <2>4, <2>5, <2>6, Zenon DEF Point
  <2>8. Spells(s, a, g[a])
    BY <1>10, <1>12, <2>3, <2>4, <2>7
  <2>9. g[a] = Lossy(d) /\ Whole(d)
    BY <1>1, <2>6, <2>8, Zenon DEF Spells
  <2>10. Lossy(c) = <<c>> /\ Whole(c)
    BY <2>7, LossyOfOne
  <2>11. Lossy(c \o d) = Lossy(c) \o Lossy(d)
    BY <2>7, <2>10, LossyConcat
  <2>12. Whole(c \o d)
    BY <2>7, <2>9, <2>10, WholeConcat
  <2>13. g[i] = <<c>> \o g[a]
    <3>1. s[i] \in Byte
      BY <1>1
    <3>2. Size(s[i]) \in 1 .. 4
      BY <3>1, Sizes
    <3>3. i + Size(s[i]) - 1 = a - 1
      BY <2>7, <3>2
    <3> QED
      BY <1>8, <2>1, <2>5, <2>7, <3>3, Zenon
  <2> QED
    BY <1>1, <2>7, <2>9, <2>10, <2>11, <2>12, <2>13, Zenon DEF Spells
<1>13. 1 .. n + 1 \subseteq T
  <2>1. PICK hi \in Nat : hi = n + 1
    OBVIOUS
  <2>2. ASSUME NEW i \in 1 .. hi, \A j \in i + 1 .. hi : j \in T PROVE i \in T
    <3>1. CASE i = n + 1
      BY <1>11, <3>1
    <3>2. CASE i # n + 1
      <4>1. i \in 1 .. n /\ \A j \in i + 1 .. n + 1 : j \in T
        BY <2>1, <2>2, <3>2
      <4> QED
        BY <1>12, <4>1
    <3> QED
      BY <3>1, <3>2
  <2>3. 1 \in Nat /\ \A i \in 1 .. hi : (\A j \in i + 1 .. hi : j \in T) => i \in T
    BY <2>2, Zenon
  <2> QED
    BY <2>1, <2>3, DownTo
<1>14. Spells(s, 1, g[1])
  <2>1. 1 \in 1 .. n + 1
    OBVIOUS
  <2>2. 1 \in T
    BY <1>13, <2>1
  <2>3. f[1]
    BY <1>9, Zenon
  <2> QED
    BY <1>10, <2>2, <2>3, Zenon
<1>15. SubSeq(s, 1, n) = s
  <2>1. 1 \in 1 .. Len(s) + 1 /\ n \in 0 .. Len(s) /\ 1 <= n + 1 /\ n + 1 - 1 = Len(s)
    BY <1>1
  <2>2. Part(Byte, s, 1, n)
    BY <2>1, Parts
  <2>3. SubSeq(s, 1, n) \in Seq(Byte) /\ Len(SubSeq(s, 1, n)) = Len(s)
    BY <2>1, <2>2, Zenon DEF Part
  <2>4. \A x \in 1 .. Len(SubSeq(s, 1, n)) : x \in 1 .. n + 1 - 1 /\ 1 + x - 1 = x
    BY <1>1, <2>3
  <2>5. \A x \in 1 .. Len(SubSeq(s, 1, n)) : SubSeq(s, 1, n)[x] = s[x]
    BY <2>2, <2>4, Zenon DEF Part
  <2> QED
    BY <2>3, <2>5, SeqEqual, Zenon
<1>16. Starts(s)
  <2>1. n = 0 => s = <<>>
    BY <1>1, EmptySeq, Zenon
  <2>2. n # 0 => 1 <= n
    OBVIOUS
  <2> QED
    BY <1>1, <1>14, <2>1, <2>2 DEF Spells, Starts
<1> QED
  BY <1>1, <1>9, <1>14, <1>15, <1>16, Zenon DEF Spells

(***************************************************************************)
(* Tokens and their bytes                                                  *)
(***************************************************************************)
\* A sequence with a function applied to each element.
Mapped(w, s) == [k \in DOMAIN s |-> w[s[k]]]
MapsTo(T, w, s) ==
    /\ Mapped(w, s) \in Seq(T) /\ Len(Mapped(w, s)) = Len(s)
    /\ \A k \in 1 .. Len(s) : Mapped(w, s)[k] = w[s[k]]

\* It is a sequence of the values, and can be made piece by piece.
LEMMA Mapping ==
    ASSUME NEW S, NEW T, NEW w \in [S -> T], NEW s \in Seq(S)
    PROVE  MapsTo(T, w, s)
<1>1. DOMAIN s = 1 .. Len(s) /\ Len(s) \in Nat /\ \A k \in 1 .. Len(s) : s[k] \in S
  OBVIOUS
<1>2. PICK m : m = [k \in 1 .. Len(s) |-> w[s[k]]]
  BY Zenon
<1>3. m \in [1 .. Len(s) -> T]
  BY <1>1, <1>2
<1>4. m \in Seq(T) /\ Len(m) = Len(s)
  BY <1>1, <1>3, IsASeq
<1>5. Mapped(w, s) = m
  BY <1>1, <1>2, Zenon DEF Mapped
<1> QED
  BY <1>2, <1>4, <1>5, Zenon DEF MapsTo

MapsPieces(w, s, t) == Mapped(w, s \o t) = Mapped(w, s) \o Mapped(w, t)
\* Mapping piece by piece and joining distributes over concatenation.
LEMMA MappingConcat ==
    ASSUME NEW S, NEW T, NEW w \in [S -> T], NEW s \in Seq(S), NEW t \in Seq(S)
    PROVE  MapsPieces(w, s, t)
<1>1. PICK u \in Seq(S) : u = s \o t
  BY ConcatProperties, Zenon
<1>2. Len(u) = Len(s) + Len(t) /\ \A k \in 1 .. Len(s) + Len(t) : u[k] = IF k <= Len(s) THEN s[k] ELSE t[k - Len(s)]
  BY <1>1, ConcatProperties, Zenon
<1>3. MapsTo(T, w, s) /\ MapsTo(T, w, t) /\ MapsTo(T, w, u)
  BY Mapping
<1>4. PICK a, b, c : a = Mapped(w, s) /\ b = Mapped(w, t) /\ c = Mapped(w, u)
  OBVIOUS
<1>5. a \in Seq(T) /\ Len(a) = Len(s) /\ \A k \in 1 .. Len(s) : a[k] = w[s[k]]
  BY <1>3, <1>4, Zenon DEF MapsTo
<1>6. b \in Seq(T) /\ Len(b) = Len(t) /\ \A k \in 1 .. Len(t) : b[k] = w[t[k]]
  BY <1>3, <1>4, Zenon DEF MapsTo
<1>7. c \in Seq(T) /\ Len(c) = Len(u) /\ \A k \in 1 .. Len(u) : c[k] = w[u[k]]
  BY <1>3, <1>4, Zenon DEF MapsTo
<1>8. PICK d : d = a \o b
  OBVIOUS
<1>9. d \in Seq(T) /\ Len(d) = Len(a) + Len(b)
      /\ \A k \in 1 .. Len(a) + Len(b) : d[k] = IF k <= Len(a) THEN a[k] ELSE b[k - Len(a)]
  <2>1. a \in Seq(T) /\ b \in Seq(T)
    BY <1>5, <1>6
  <2> QED
    BY <1>8, <2>1, ConcatProperties, Zenon
<1>10. ASSUME NEW k \in 1 .. Len(c) PROVE c[k] = d[k]
  <2>0. Len(s) \in Nat /\ Len(t) \in Nat
    OBVIOUS
  <2>1. k \in 1 .. Len(s) + Len(t) /\ k \in 1 .. Len(a) + Len(b) /\ k \in 1 .. Len(u) /\ k \in Nat
    BY <1>2, <1>5, <1>6, <1>7, <2>0
  <2>2. CASE k <= Len(s)
    <3>1. k \in 1 .. Len(s)
      BY <2>0, <2>1, <2>2
    <3> QED
      <4>1. c[k] = w[u[k]] /\ u[k] = s[k]
        BY <1>2, <1>7, <2>1, <2>2, Zenon
      <4>2. d[k] = a[k] /\ a[k] = w[s[k]]
        BY <1>5, <1>9, <2>1, <2>2, <3>1, Zenon
      <4> QED
        BY <4>1, <4>2
  <2>3. CASE ~(k <= Len(s))
    <3>1. k - Len(s) \in 1 .. Len(t) /\ Len(a) = Len(s)
      BY <1>5, <2>0, <2>1, <2>3
    <3> QED
      BY <1>2, <1>6, <1>7, <1>9, <2>1, <2>3, <3>1, Zenon
  <2> QED
    BY <2>2, <2>3
<1>11. Len(c) = Len(d)
  BY <1>2, <1>5, <1>6, <1>7, <1>9
<1>12. c = d
  BY <1>7, <1>9, <1>10, <1>11, SeqEqual, Zenon
<1> QED
  BY <1>1, <1>4, <1>8, <1>12 DEF MapsPieces

\* Mapping and joining none and one.
LEMMA MappingFew ==
    ASSUME NEW S, NEW T, NEW w \in [S -> T]
    PROVE  Mapped(w, <<>>) = <<>> /\ \A x \in S : Mapped(w, <<x>>) = <<w[x]>>
<1>1. <<>> \in Seq(S) /\ Len(<<>>) = 0
  OBVIOUS
<1>2. Mapped(w, <<>>) = <<>>
  <2>1. MapsTo(T, w, <<>>)
    BY <1>1, Mapping
  <2>2. Mapped(w, <<>>) \in Seq(T) /\ Len(Mapped(w, <<>>)) = 0
    BY <1>1, <2>1, Zenon DEF MapsTo
  <2> QED
    BY <2>2
<1>3. ASSUME NEW x \in S PROVE Mapped(w, <<x>>) = <<w[x]>>
  <2>1. <<x>> \in Seq(S) /\ Len(<<x>>) = 1 /\ <<x>>[1] = x
    OBVIOUS
  <2>2. MapsTo(T, w, <<x>>)
    BY <2>1, Mapping
  <2>3. PICK m : m = Mapped(w, <<x>>)
    OBVIOUS
  <2>4. m \in Seq(T) /\ Len(m) = 1 /\ m[1] = w[x]
    BY <2>1, <2>2, <2>3 DEF MapsTo
  <2>5. m = <<w[x]>>
    BY <2>4
  <2> QED
    BY <2>3, <2>5
<1> QED
  BY <1>2, <1>3

\* The tokens that are UTF-8 by themselves.
Cleans == {id \in Present : Clean(id)}
Spelling == [id \in Present |-> TokenBytes(id)]

\* What is known of a token, and of a clean one.
LEMMA Tokens ==
    /\ Spelling \in [Present -> Seq(Byte)]
    /\ \A id \in Present : TokenBytes(id) \in Seq(Byte) /\ TokenBytes(id) # <<>> /\ ~Unknown(id)
                           /\ Spelling[id] = TokenBytes(id)
  BY VocabularyAssumption DEF Unknown, Spelling

CleanToken(id) ==
    /\ id \in Present /\ TokenBytes(id) \in Seq(Byte) /\ TokenBytes(id) # <<>>
    /\ Whole(TokenBytes(id)) /\ Starts(TokenBytes(id))
    /\ TextOf(id) = Lossy(TokenBytes(id)) /\ TextOf(id) \in Chars
\* A clean token is valid UTF-8 by itself, wherever it stands.
LEMMA CleanTokens ==
    ASSUME NEW id, Clean(id)
    PROVE  CleanToken(id)
<1>1. id \in Present /\ IsValidUtf8(TokenBytes(id))
  BY DEF Clean, Unknown
<1>2. PICK b \in Seq(Byte) : b = TokenBytes(id) /\ b # <<>>
  BY <1>1, Tokens
<1>3. Whole(b) /\ Starts(b) /\ DecodeValidUtf8(b) = Lossy(b)
  BY <1>1, <1>2, ValidText
<1>4. Lossy(b) \in Chars
  BY LossyReads
<1> QED
  BY <1>1, <1>2, <1>3, <1>4, Zenon DEF CleanToken, TextOf

\* The bytes of tokens are those of some followed by those of the others.
LEMMA BytesAre ==
    ASSUME NEW ids \in Seq(Present)
    PROVE  BytesOf(ids) \in Seq(Byte) /\ BytesOf(ids) = FlattenSeq(Mapped(Spelling, ids))
           /\ Mapped(Spelling, ids) \in Seq(Seq(Byte))
<1>1. \A k \in DOMAIN ids : ids[k] \in Present
  OBVIOUS
<1>2. \A k \in DOMAIN ids : TokenBytes(ids[k]) = Spelling[ids[k]]
  BY <1>1, Tokens
<1>3. [k \in DOMAIN ids |-> TokenBytes(ids[k])] = [k \in DOMAIN ids |-> Spelling[ids[k]]]
  BY <1>2, Zenon
<1>4. BytesOf(ids) = FlattenSeq(Mapped(Spelling, ids))
  BY <1>3, Zenon DEF BytesOf, Mapped
<1>5. MapsTo(Seq(Byte), Spelling, ids)
  BY Tokens, Mapping
<1>6. Mapped(Spelling, ids) \in Seq(Seq(Byte))
  BY <1>5, Zenon DEF MapsTo
<1>7. FlattenSeq(Mapped(Spelling, ids)) \in Seq(Byte)
  BY <1>6, FlattenIsSeq, Zenon
<1> QED
  BY <1>4, <1>6, <1>7

\* The bytes of a list of tokens are those of its halves, joined.
LEMMA BytesConcat ==
    ASSUME NEW ids \in Seq(Present), NEW more \in Seq(Present)
    PROVE  BytesOf(ids \o more) = BytesOf(ids) \o BytesOf(more)
<1>1. PICK all \in Seq(Present) : all = ids \o more
  BY ConcatProperties, Zenon
<1>2. PICK x, y : x = Mapped(Spelling, ids) /\ y = Mapped(Spelling, more)
  OBVIOUS
<1>3. x \in Seq(Seq(Byte)) /\ y \in Seq(Seq(Byte)) /\ BytesOf(ids) = FlattenSeq(x) /\ BytesOf(more) = FlattenSeq(y)
      /\ BytesOf(all) = FlattenSeq(Mapped(Spelling, all))
  BY <1>2, BytesAre, Zenon
<1>4. Mapped(Spelling, all) = x \o y
  <2>1. Spelling \in [Present -> Seq(Byte)]
    BY Tokens
  <2>2. Mapped(Spelling, ids \o more) = Mapped(Spelling, ids) \o Mapped(Spelling, more)
    <3>1. MapsPieces(Spelling, ids, more)
      BY <2>1, MappingConcat
    <3> QED
      BY <3>1, Zenon DEF MapsPieces
  <2> QED
    BY <1>1, <1>2, <2>2, Zenon
<1>5. FlattenSeq(x \o y) = FlattenSeq(x) \o FlattenSeq(y)
  BY <1>3, FlattenConcat, Zenon
<1> QED
  BY <1>1, <1>3, <1>4, <1>5

\* The bytes of no token and of one.
LEMMA BytesFew == BytesOf(<<>>) = <<>> /\ \A id \in Present : BytesOf(<<id>>) = TokenBytes(id)
<1>0. Spelling \in [Present -> Seq(Byte)]
  BY Tokens
<1>1. Mapped(Spelling, <<>>) = <<>> /\ \A id \in Present : Mapped(Spelling, <<id>>) = <<Spelling[id]>>
  BY <1>0, MappingFew
<1>2. <<>> \in Seq(Present) /\ \A id \in Present : <<id>> \in Seq(Present)
  OBVIOUS
<1>3. BytesOf(<<>>) = FlattenSeq(Mapped(Spelling, <<>>)) /\ \A id \in Present : BytesOf(<<id>>) = FlattenSeq(Mapped(Spelling, <<id>>))
  BY <1>2, BytesAre
<1>4. ASSUME NEW id \in Present PROVE BytesOf(<<id>>) = TokenBytes(id)
  <2>1. Spelling[id] = TokenBytes(id) /\ TokenBytes(id) \in Seq(Byte)
    BY Tokens
  <2>2. FlattenSeq(<<TokenBytes(id)>>) = TokenBytes(id)
    BY <2>1, FlattenOne, Zenon
  <2> QED
    BY <1>1, <1>3, <2>1, <2>2
<1> QED
  BY <1>1, <1>3, <1>4, FlattenEmpty

(***************************************************************************)
(* The run cache                                                           *)
(***************************************************************************)
Sums == [n \in Nat |-> [sum \in Nat |-> sum + n]]

\* Total adds one number after the other.
LEMMA TotalFolds ==
    ASSUME NEW s \in Seq(Nat)
    PROVE  Total(s) = FoldOf(Nat, Sums, 0, s) /\ Steps(Sums, Nat, Nat)
<1>0. Steps(Sums, Nat, Nat) /\ \A n, m \in Nat : Sums[n][m] = m + n
  BY DEF Steps, Sums
<1>1. PICK n \in Nat : n = Len(s) /\ DOMAIN s = 1 .. n
  OBVIOUS
<1>2. PICK base \in Nat : base = 0
  OBVIOUS
<1>3. PICK g \in [SUBSET (1 .. Len(s)) -> Nat] : IndexFold(g, Nat, Sums, base, s)
  BY <1>0, IndexFoldExists
<1>4. \A r \in SUBSET (1 .. Len(s)) : r # {} => s[Max(r)] \in Nat /\ r \ {Max(r)} \in SUBSET (1 .. Len(s))
  BY <1>0, <1>2, IndexFoldExists
<1> DEFINE Folded(h) == h = [r \in SUBSET (1 .. Len(s)) |->
                                IF r = {} THEN base ELSE h[r \ {Max(r)}] + s[Max(r)]]
<1>5. Folded(g)
  <2>1. ASSUME NEW r \in SUBSET (1 .. Len(s))
        PROVE  g[r] = IF r = {} THEN base ELSE g[r \ {Max(r)}] + s[Max(r)]
    <3>1. r # {} => g[r \ {Max(r)}] \in Nat
      BY <1>4, Zenon
    <3> QED
      BY <1>0, <1>3, <1>4, <3>1, Zenon DEF IndexFold
  <2> QED
    BY <2>1, Zenon
<1>6. PICK it : it = CHOOSE h : Folded(h)
  BY Zenon
<1>7. Folded(it)
  <2> HIDE DEF Folded
  <2> QED
    BY <1>5, <1>6, Zenon
<1>8. IndexFold(it, Nat, Sums, base, s)
  <2>1. ASSUME NEW r \in SUBSET (1 .. Len(s))
        PROVE  /\ r = {} => it[r] = base
               /\ r # {} /\ it[r \ {Max(r)}] \in Nat => it[r] = Sums[s[Max(r)]][it[r \ {Max(r)}]]
    BY <1>0, <1>4, <1>7, ZenonT(60)
  <2> QED
    BY <2>1, Zenon DEF IndexFold
<1>9. it[1 .. Len(s)] = FoldOf(Nat, Sums, base, s)
  <2>1. PICK N : N = Nat /\ Steps(Sums, N, N)
    BY <1>0
  <2>2. base \in N /\ s \in Seq(N) /\ IndexFold(it, N, Sums, base, s) /\ Steps(Sums, N, N)
    BY <1>8, <2>1
  <2>3. it[1 .. Len(s)] = FoldOf(N, Sums, base, s)
    BY <2>2, IndexFoldFolds
  <2> QED
    BY <2>1, <2>3
<1>10. Total(s) = it[DOMAIN s]
  BY <1>1, <1>2, <1>6, Zenon DEF Total, FoldLeft, MapThenFoldSet
<1> QED
  BY <1>0, <1>1, <1>2, <1>9, <1>10, Zenon

\* The sum of a list, one number at a time.
LEMMA Totals ==
    /\ Total(<<>>) = 0
    /\ \A s \in Seq(Nat) : Total(s) \in Nat /\ \A n \in Nat : Total(Append(s, n)) = Total(s) + n
<1>1. <<>> \in Seq(Nat) /\ 0 \in Nat /\ Steps(Sums, Nat, Nat)
  BY EmptySeq, TotalFolds
<1>2. Total(<<>>) = 0
  <2>1. Total(<<>>) = FoldOf(Nat, Sums, 0, <<>>)
    BY <1>1, TotalFolds
  <2>2. FoldOf(Nat, Sums, 0, <<>>) = 0
    BY <1>1, FoldOfEmpty
  <2> QED
    BY <2>1, <2>2
<1>3. ASSUME NEW s \in Seq(Nat), NEW n \in Nat PROVE Total(s) \in Nat /\ Total(Append(s, n)) = Total(s) + n
  <2>1. PICK t \in Seq(Nat) : t = Append(s, n)
    BY AppendProperties, Zenon
  <2>2. Total(s) = FoldOf(Nat, Sums, 0, s) /\ Total(t) = FoldOf(Nat, Sums, 0, t)
    BY TotalFolds
  <2>3. FoldOf(Nat, Sums, 0, s) \in Nat
    BY <1>1, FoldOfStages
  <2>4. FoldOf(Nat, Sums, 0, Append(s, n)) = Sums[n][FoldOf(Nat, Sums, 0, s)]
    <3>1. PICK N : N = Nat /\ Steps(Sums, N, N)
      BY <1>1
    <3>2. 0 \in N /\ s \in Seq(N) /\ n \in N /\ Steps(Sums, N, N)
      BY <3>1
    <3>3. FoldOf(N, Sums, 0, Append(s, n)) = Sums[n][FoldOf(N, Sums, 0, s)]
      BY <3>2, FoldOfAppend
    <3> QED
      BY <3>1, <3>3
  <2> QED
    BY <2>1, <2>2, <2>3, <2>4 DEF Sums
<1>4. \A s \in Seq(Nat) : Total(s) \in Nat
  BY <1>3
<1> QED
  BY <1>2, <1>3, <1>4

\* The sum of two lists is the sum of their sums.
LEMMA TotalConcat ==
    ASSUME NEW s \in Seq(Nat), NEW t \in Seq(Nat)
    PROVE  Total(s \o t) = Total(s) + Total(t)
<1>1. PICK T : T = {u \in Seq(Nat) : Total(s \o u) = Total(s) + Total(u)}
  BY Zenon
<1>2. Total(s) \in Nat
  BY Totals
<1>3. <<>> \in T
  <2>1. <<>> \in Seq(Nat) /\ s \o <<>> = s
    OBVIOUS
  <2> QED
    BY <1>1, <1>2, <2>1, Totals
<1>4. ASSUME NEW u \in Seq(Nat), NEW n \in Nat, u \in T PROVE Append(u, n) \in T
  <2>1. PICK v \in Seq(Nat) : v = s \o u
    BY ConcatProperties, Zenon
  <2>2. s \o Append(u, n) = Append(v, n)
    BY <2>1
  <2>3. Append(u, n) \in Seq(Nat)
    BY AppendProperties, Zenon
  <2>4. Total(v) = Total(s) + Total(u) /\ Total(u) \in Nat
    BY <1>1, <1>4, <2>1, Totals
  <2>5. Total(Append(v, n)) = Total(v) + n /\ Total(Append(u, n)) = Total(u) + n
    BY Totals
  <2>6. Total(s \o Append(u, n)) = Total(s) + Total(Append(u, n))
    BY <1>2, <2>2, <2>4, <2>5
  <2> QED
    BY <1>1, <2>3, <2>6
<1>5. Seq(Nat) \subseteq T
  BY <1>3, <1>4, SeqInduction
<1> QED
  BY <1>1, <1>5

\* What a sequence weighs, each element as w has it.
Weight(w, s) == Total(Mapped(w, s))
Weighs(w, s, t) == Weight(w, s) \in Nat /\ Weight(w, t) \in Nat /\ Weight(w, s \o t) = Weight(w, s) + Weight(w, t)
\* What a list of entries weighs, by entry.
LEMMA Weights ==
    ASSUME NEW S, NEW w \in [S -> Nat]
    PROVE  /\ Weight(w, <<>>) = 0
           /\ \A x \in S : Weight(w, <<x>>) = w[x] /\ w[x] \in Nat
           /\ \A s, t \in Seq(S) : Weighs(w, s, t)
<1>1. Mapped(w, <<>>) = <<>> /\ \A x \in S : Mapped(w, <<x>>) = <<w[x]>>
  BY MappingFew
<1>2. \A n \in Nat : Total(<<n>>) = n
  <2>1. ASSUME NEW n \in Nat PROVE Total(<<n>>) = n
    <3>1. <<>> \in Seq(Nat) /\ Append(<<>>, n) = <<n>>
      OBVIOUS
    <3>2. Total(Append(<<>>, n)) = 0 + n
      BY <3>1, Totals
    <3> QED
      BY <3>1, <3>2
  <2> QED
    BY <2>1
<1>3. ASSUME NEW s \in Seq(S), NEW t \in Seq(S) PROVE Weighs(w, s, t)
  <2>1. MapsTo(Nat, w, s) /\ MapsTo(Nat, w, t) /\ MapsPieces(w, s, t)
    BY Mapping, MappingConcat
  <2>2. PICK x \in Seq(Nat), y \in Seq(Nat) : x = Mapped(w, s) /\ y = Mapped(w, t)
    BY <2>1 DEF MapsTo
  <2>3. Mapped(w, s \o t) = x \o y
    BY <2>1, <2>2, Zenon DEF MapsPieces
  <2>4. Total(x \o y) = Total(x) + Total(y) /\ Total(x) \in Nat /\ Total(y) \in Nat
    BY TotalConcat, Totals
  <2> QED
    BY <2>2, <2>3, <2>4, Zenon DEF Weighs, Weight
<1>4. \A x \in S : w[x] \in Nat
  OBVIOUS
<1>5. Weight(w, <<>>) = 0 /\ \A x \in S : Weight(w, <<x>>) = w[x]
  BY <1>1, <1>2, <1>4, Totals DEF Weight
<1> QED
  BY <1>3, <1>4, <1>5

\* The entries of a cache, and the cache that holds them and nothing else.
RunText(run) == Lossy(BytesOf(run))
Entry == [key : Seq(Present), output : Chars]
KeyUnits == [e \in Entry |-> KeyCodeUnits(e.key)]
TextUnits == [e \in Entry |-> Len(e.output)]
Filled(es) == [entries |-> es, keyCodeUnits |-> Weight(KeyUnits, es), outputCodeUnits |-> Weight(TextUnits, es)]
Right(es) ==
    /\ es \in Seq(Entry) /\ Len(es) <= Capacity
    /\ \A i, j \in 1 .. Len(es) : es[i].key = es[j].key => i = j
    /\ \A i \in 1 .. Len(es) : es[i].output = RunText(es[i].key)
Caches == {Filled(es) : es \in {es \in Seq(Entry) : Right(es)}}

\* A run of tokens has a text, and is a key with it.
EntryFor(run) == [key |-> run, output |-> RunText(run)]
\* The text of a run is a text, and its entry an entry.
LEMMA RunTexts ==
    ASSUME NEW run \in Seq(Present)
    PROVE  RunText(run) \in Chars /\ EntryFor(run) \in Entry
<1>1. BytesOf(run) \in Seq(Byte)
  BY BytesAre
<1>2. RunText(run) \in Chars
  BY <1>1, LossyReads DEF RunText
<1> QED
  BY <1>2 DEF EntryFor, Entry

\* The units an entry is charged are numbers.
LEMMA Units ==
    KeyUnits \in [Entry -> Nat] /\ TextUnits \in [Entry -> Nat]
<1>1. \A e \in Entry : e.key \in Seq(Present) /\ e.output \in Chars
  BY DEF Entry
<1>2. \A s \in Seq(Present) : Len(s) \in Nat /\ 2 * Len(s) \in Nat
  OBVIOUS
<1>3. \A s \in Chars : Len(s) \in Nat
  BY DEF Chars
<1>4. \A e \in Entry : KeyCodeUnits(e.key) \in Nat /\ Len(e.output) \in Nat
  BY <1>1, <1>2, <1>3 DEF KeyCodeUnits
<1> QED
  BY <1>4 DEF KeyUnits, TextUnits

\* A cache is as CachesSound has it.
LEMMA CachesAreSound ==
    ASSUME NEW cache \in Caches
    PROVE  Sound(cache, LAMBDA ids : Lossy(BytesOf(ids))) /\ Accounted(cache)
<1>1. PICK es \in Seq(Entry) : Right(es) /\ cache = Filled(es)
  BY Zenon DEF Caches
<1>2. cache.entries = es /\ cache.keyCodeUnits = Weight(KeyUnits, es) /\ cache.outputCodeUnits = Weight(TextUnits, es)
  BY <1>1 DEF Filled
<1>3. DOMAIN es = 1 .. Len(es) /\ \A i \in 1 .. Len(es) : es[i] \in Entry
  OBVIOUS
<1>4. Sound(cache, LAMBDA ids : Lossy(BytesOf(ids)))
  <2>1. Len(cache.entries) <= Capacity
    BY <1>1, <1>2, Zenon DEF Right
  <2>2. \A i, j \in DOMAIN cache.entries : cache.entries[i].key = cache.entries[j].key => i = j
    <3>1. \A i, j \in 1 .. Len(es) : es[i].key = es[j].key => i = j
      BY <1>1, Zenon DEF Right
    <3> QED
      BY <1>2, <1>3, <3>1
  <2>3. \A i \in DOMAIN cache.entries : cache.entries[i].output = Lossy(BytesOf(cache.entries[i].key))
    BY <1>1, <1>2, <1>3, Zenon DEF Right, RunText
  <2> QED
    BY <2>1, <2>2, <2>3, Zenon DEF Sound
<1>5. [i \in DOMAIN es |-> KeyCodeUnits(es[i].key)] = Mapped(KeyUnits, es)
  <2>1. \A i \in DOMAIN es : KeyCodeUnits(es[i].key) = KeyUnits[es[i]]
    BY <1>3, Zenon DEF KeyUnits
  <2> QED
    BY <2>1, Zenon DEF Mapped
<1>6. [i \in DOMAIN es |-> Len(es[i].output)] = Mapped(TextUnits, es)
  <2>1. \A i \in DOMAIN es : Len(es[i].output) = TextUnits[es[i]]
    BY <1>3, Zenon DEF TextUnits
  <2> QED
    BY <2>1, Zenon DEF Mapped
<1>7. Accounted(cache)
  BY <1>2, <1>5, <1>6, Zenon DEF Accounted, Weight
<1> QED
  BY <1>4, <1>7

\* The empty run cache is right.
LEMMA EmptyIsCache == EmptyCache \in Caches
<1>1. <<>> \in Seq(Entry) /\ Len(<<>>) = 0 /\ 1 .. Len(<<>>) = {}
  OBVIOUS
<1>2. Weight(KeyUnits, <<>>) = 0 /\ Weight(TextUnits, <<>>) = 0
  BY Units, Weights
<1>3. Right(<<>>)
  BY <1>1, CapacityAssumption DEF Right
<1>4. EmptyCache = Filled(<<>>)
  BY <1>2 DEF EmptyCache, Filled
<1> QED
  BY <1>1, <1>3, <1>4, Zenon DEF Caches

\* A full cache forgets its oldest entry and has room for one.
Room(es, run) == Right(es) /\ Len(es) < Capacity /\ \A i \in 1 .. Len(es) : es[i].key # run
\* Evicting leaves a right cache, with room for the run that is to come.
LEMMA Evicting ==
    ASSUME NEW es \in Seq(Entry), Right(es), NEW run, ~Cached(Filled(es), run)
    PROVE  \E fs \in Seq(Entry) : Evict(Filled(es)) = Filled(fs) /\ Room(fs, run)
<1>0. Filled(es).entries = es /\ DOMAIN es = 1 .. Len(es) /\ Len(es) \in Nat /\ Capacity \in Nat \ {0}
  BY CapacityAssumption DEF Filled
<1>1. \A i \in 1 .. Len(es) : es[i].key # run
  BY <1>0 DEF Cached
<1>2. CASE Len(es) < Capacity
  BY <1>0, <1>1, <1>2 DEF Evict, Room
<1>3. CASE ~(Len(es) < Capacity)
  <2>1. es # <<>> /\ Len(es) = Capacity
    <3>1. Len(es) <= Capacity
      BY Zenon DEF Right
    <3>2. PICK n, cap \in Nat : n = Len(es) /\ cap = Capacity
      BY <1>0
    <3>3. cap # 0
      BY <1>0, <3>2
    <3>4. n = cap /\ n # 0
      BY <1>3, <3>1, <3>2, <3>3
    <3> QED
      BY <3>2, <3>4, EmptySeq
  <2>2. PICK fs \in Seq(Entry) : fs = Tail(es)
    BY <2>1, HeadTailProperties
  <2>3. Len(fs) = Len(es) - 1 /\ \A i \in 1 .. Len(fs) : fs[i] = es[i + 1]
    BY <2>1, <2>2, HeadTailProperties
  <2>4. PICK e \in Entry : e = es[1]
    BY <1>0, <2>1
  <2>5. es = <<e>> \o fs
    <3>1. <<e>> \in Seq(Entry) /\ Len(<<e>>) = 1 /\ <<e>>[1] = e
      OBVIOUS
    <3>2. PICK gs \in Seq(Entry) : gs = <<e>> \o fs
      BY <3>1, ConcatProperties, Zenon
    <3>3. Len(gs) = 1 + Len(fs) /\ \A i \in 1 .. 1 + Len(fs) : gs[i] = IF i <= 1 THEN <<e>>[i] ELSE fs[i - 1]
      BY <3>1, <3>2, ConcatProperties
    <3>4. ASSUME NEW i \in 1 .. Len(es) PROVE es[i] = gs[i]
      <4>1. CASE i = 1
        BY <2>4, <3>1, <3>3, <4>1
      <4>2. CASE i # 1
        <5>1. i - 1 \in 1 .. Len(fs) /\ i \in 1 .. 1 + Len(fs) /\ ~(i <= 1) /\ i - 1 + 1 = i
          BY <2>3, <4>2
        <5> QED
          BY <2>3, <3>3, <5>1, Zenon
      <4> QED
        BY <4>1, <4>2
    <3>5. Len(es) = Len(gs)
      BY <2>3, <3>3
    <3> QED
      BY <3>2, <3>4, <3>5, SeqEqual, Zenon
  <2>6. Weight(KeyUnits, es) = KeyUnits[e] + Weight(KeyUnits, fs) /\ KeyUnits[e] \in Nat /\ Weight(KeyUnits, fs) \in Nat
        /\ Weight(TextUnits, es) = TextUnits[e] + Weight(TextUnits, fs) /\ TextUnits[e] \in Nat /\ Weight(TextUnits, fs) \in Nat
    <3>1. <<e>> \in Seq(Entry)
      OBVIOUS
    <3>2. Weighs(KeyUnits, <<e>>, fs) /\ Weighs(TextUnits, <<e>>, fs)
      BY <3>1, Units, Weights
    <3>3. Weight(KeyUnits, <<e>>) = KeyUnits[e] /\ Weight(TextUnits, <<e>>) = TextUnits[e]
          /\ KeyUnits[e] \in Nat /\ TextUnits[e] \in Nat
      BY Units, Weights
    <3> QED
      BY <2>5, <3>2, <3>3, Zenon DEF Weighs
  <2>7. KeyUnits[e] = KeyCodeUnits(e.key) /\ TextUnits[e] = Len(e.output)
    BY DEF KeyUnits, TextUnits
  <2>8. Evict(Filled(es)) = [entries |-> fs, keyCodeUnits |-> Weight(KeyUnits, es) - KeyUnits[e],
                             outputCodeUnits |-> Weight(TextUnits, es) - TextUnits[e]]
    BY <1>0, <1>3, <2>2, <2>4, <2>7, Zenon DEF Evict, Filled
  <2>9. Evict(Filled(es)) = Filled(fs)
    <3>1. Weight(KeyUnits, es) - KeyUnits[e] = Weight(KeyUnits, fs)
          /\ Weight(TextUnits, es) - TextUnits[e] = Weight(TextUnits, fs)
      BY <2>6
    <3> QED
      BY <2>8, <3>1, Zenon DEF Filled
  <2>10. Room(fs, run)
    <3>1. \A i \in 1 .. Len(fs) : i + 1 \in 1 .. Len(es)
      BY <2>3
    <3>2. \A i, j \in 1 .. Len(fs) : fs[i].key = fs[j].key => i = j
      <4>1. ASSUME NEW i \in 1 .. Len(fs), NEW j \in 1 .. Len(fs), fs[i].key = fs[j].key PROVE i = j
        <5>1. es[i + 1].key = es[j + 1].key /\ i + 1 \in 1 .. Len(es) /\ j + 1 \in 1 .. Len(es)
          BY <2>3, <3>1, <4>1
        <5>2. i + 1 = j + 1
          BY <5>1, Zenon DEF Right
        <5> QED
          BY <5>2
      <4> QED
        BY <4>1, Zenon
    <3>3. \A i \in 1 .. Len(fs) : fs[i].output = RunText(fs[i].key) /\ fs[i].key # run
      BY <1>1, <2>3, <3>1, Zenon DEF Right
    <3>4. Len(fs) < Capacity /\ Len(fs) <= Capacity
      BY <1>0, <2>1, <2>3
    <3> QED
      BY <3>2, <3>3, <3>4, Zenon DEF Right, Room
  <2> QED
    BY <2>9, <2>10
<1> QED
  BY <1>2, <1>3

\* One entry more, of a run that no entry has.
Put(fs, run) == Append(fs, EntryFor(run))
Puts(fs, run, gs) ==
    /\ gs \in Seq(Entry) /\ Right(gs)
    /\ Weight(KeyUnits, gs) = Weight(KeyUnits, fs) + KeyCodeUnits(run)
    /\ Weight(TextUnits, gs) = Weight(TextUnits, fs) + Len(RunText(run))
\* Putting a run with its own text leaves a right cache.
LEMMA Putting ==
    ASSUME NEW fs \in Seq(Entry), NEW run \in Seq(Present), Room(fs, run)
    PROVE  Puts(fs, run, Put(fs, run))
<1>1. PICK e \in Entry : e = EntryFor(run)
  BY RunTexts
<1>2. e.key = run /\ e.output = RunText(run)
  BY <1>1 DEF EntryFor
<1>3. PICK gs \in Seq(Entry) : gs = Append(fs, e)
  BY AppendProperties, Zenon
<1>4. Len(fs) \in Nat /\ Len(gs) = Len(fs) + 1 /\ gs[Len(fs) + 1] = e /\ \A i \in 1 .. Len(fs) : gs[i] = fs[i]
  BY <1>3, AppendProperties
<1>5. gs = fs \o <<e>>
  <2>1. gs = fs \o <<e>> <=> Append(fs, e) = fs \o <<e>>
    BY <1>3
  <2>2. Append(fs, e) = fs \o <<e>>
    BY AppendIsConcat
  <2> QED
    BY <2>1, <2>2
<1>6. Weight(KeyUnits, gs) = Weight(KeyUnits, fs) + KeyUnits[e] /\ Weight(TextUnits, gs) = Weight(TextUnits, fs) + TextUnits[e]
  <2>1. <<e>> \in Seq(Entry)
    OBVIOUS
  <2>2. Weighs(KeyUnits, fs, <<e>>) /\ Weighs(TextUnits, fs, <<e>>)
    BY <2>1, Units, Weights
  <2>3. Weight(KeyUnits, <<e>>) = KeyUnits[e] /\ Weight(TextUnits, <<e>>) = TextUnits[e]
    BY Units, Weights
  <2> QED
    BY <1>5, <2>2, <2>3, Zenon DEF Weighs
<1>7. KeyUnits[e] = KeyCodeUnits(run) /\ TextUnits[e] = Len(RunText(run))
  BY <1>2 DEF KeyUnits, TextUnits
<1>8. Right(fs) /\ Len(fs) < Capacity /\ \A i \in 1 .. Len(fs) : fs[i].key # run
  BY Zenon DEF Room
<1>9. Len(gs) <= Capacity
  BY <1>4, <1>8, CapacityAssumption
<1>10. \A i \in 1 .. Len(gs) : i \in 1 .. Len(fs) \/ i = Len(fs) + 1
  BY <1>4
<1>11. \A i \in 1 .. Len(gs) : gs[i].output = RunText(gs[i].key)
  <2>1. \A i \in 1 .. Len(fs) : fs[i].output = RunText(fs[i].key)
    BY <1>8, Zenon DEF Right
  <2> QED
    BY <1>2, <1>4, <1>10, <2>1, Zenon
<1>12. \A i, j \in 1 .. Len(gs) : gs[i].key = gs[j].key => i = j
  <2>1. \A i, j \in 1 .. Len(fs) : fs[i].key = fs[j].key => i = j
    BY <1>8, Zenon DEF Right
  <2> QED
    BY <1>2, <1>4, <1>8, <1>10, <2>1, Zenon
<1>13. Right(gs)
  BY <1>9, <1>11, <1>12, Zenon DEF Right
<1> QED
  BY <1>1, <1>3, <1>6, <1>7, <1>13, Zenon DEF Puts, Put

\* Without the entry of a run.
Removed(es, i, run, fs) ==
    /\ fs = RemoveAt(es, i) /\ Room(fs, run)
    /\ Weight(KeyUnits, es) = Weight(KeyUnits, fs) + KeyCodeUnits(run)
    /\ Weight(TextUnits, es) = Weight(TextUnits, fs) + Len(RunText(run))
\* An entry found is the right one, and without it the cache is right.
LEMMA Removing ==
    ASSUME NEW es \in Seq(Entry), Right(es), NEW run, NEW i \in 1 .. Len(es), es[i].key = run
    PROVE  /\ es[i] = EntryFor(run)
           /\ \E fs \in Seq(Entry) : Removed(es, i, run, fs)
<1>1. PICK e \in Entry : e = es[i]
  OBVIOUS
<1>2. e.key = run /\ e.output = RunText(run)
  <2>1. es[i].output = RunText(es[i].key)
    BY Zenon DEF Right
  <2> QED
    BY <1>1, <2>1
<1>3. e = EntryFor(run)
  BY <1>1, <1>2 DEF EntryFor, Entry
<1>4. PICK n \in Nat : n = Len(es) /\ i \in 1 .. n
  OBVIOUS
<1>5. PICK A \in Seq(Entry) : A = SubSeq(es, 1, i - 1) /\ Len(A) = i - 1 /\ \A x \in 1 .. i - 1 : A[x] = es[x]
  <2>1. 1 \in 1 .. Len(es) + 1 /\ i - 1 \in 0 .. Len(es) /\ 1 <= i - 1 + 1 /\ i - 1 + 1 - 1 = i - 1
    BY <1>4
  <2>2. Part(Entry, es, 1, i - 1)
    BY <2>1, Parts
  <2>3. SubSeq(es, 1, i - 1) \in Seq(Entry) /\ Len(SubSeq(es, 1, i - 1)) = i - 1 + 1 - 1
        /\ \A x \in 1 .. i - 1 + 1 - 1 : SubSeq(es, 1, i - 1)[x] = es[1 + x - 1]
    BY <2>2, Zenon DEF Part
  <2>4. \A x \in 1 .. i - 1 : 1 + x - 1 = x
    BY <1>4
  <2> QED
    BY <2>1, <2>3, <2>4
<1>6. PICK B \in Seq(Entry) : B = SubSeq(es, i + 1, n) /\ Len(B) = n - i /\ \A x \in 1 .. n - i : B[x] = es[i + x]
  <2>1. i + 1 \in 1 .. Len(es) + 1 /\ n \in 0 .. Len(es) /\ i + 1 <= n + 1 /\ n + 1 - (i + 1) = n - i
    BY <1>4
  <2>2. Part(Entry, es, i + 1, n)
    BY <2>1, Parts
  <2>3. SubSeq(es, i + 1, n) \in Seq(Entry) /\ Len(SubSeq(es, i + 1, n)) = n + 1 - (i + 1)
        /\ \A x \in 1 .. n + 1 - (i + 1) : SubSeq(es, i + 1, n)[x] = es[i + 1 + x - 1]
    BY <2>2, Zenon DEF Part
  <2>4. \A x \in 1 .. n - i : i + 1 + x - 1 = i + x
    BY <1>4
  <2>5. PICK B \in Seq(Entry) : B = SubSeq(es, i + 1, n)
    BY <2>3, Zenon
  <2>6. Len(B) = n - i
    BY <2>1, <2>3, <2>5, Zenon
  <2>7. \A x \in 1 .. n - i : B[x] = es[i + x]
    BY <2>1, <2>3, <2>4, <2>5, Zenon
  <2> QED
    BY <2>5, <2>6, <2>7, Zenon
<1>7. <<e>> \in Seq(Entry) /\ Len(<<e>>) = 1 /\ <<e>>[1] = e
  OBVIOUS
<1>8. PICK fs \in Seq(Entry) : fs = A \o B
  BY ConcatProperties, Zenon
<1>9. Len(fs) = n - 1 /\ \A x \in 1 .. n - 1 : fs[x] = IF x < i THEN es[x] ELSE es[x + 1]
  <2>1. Len(fs) = Len(A) + Len(B) /\ \A x \in 1 .. Len(A) + Len(B) : fs[x] = IF x <= Len(A) THEN A[x] ELSE B[x - Len(A)]
    BY <1>8, ConcatProperties
  <2>2. Len(A) + Len(B) = n - 1
    <3>1. Len(A) = i - 1 /\ Len(B) = n - i
      BY <1>5, <1>6, Zenon
    <3> QED
      BY <1>4, <3>1
  <2>3. ASSUME NEW x \in 1 .. n - 1 PROVE fs[x] = IF x < i THEN es[x] ELSE es[x + 1]
    <3>1. CASE x < i
      <4>1. x <= Len(A) /\ x \in 1 .. i - 1
        BY <1>4, <1>5, <3>1
      <4> QED
        BY <1>5, <2>1, <2>2, <3>1, <4>1, Zenon
    <3>2. CASE ~(x < i)
      <4>1. ~(x <= Len(A)) /\ x - Len(A) = x - i + 1 /\ x - i + 1 \in 1 .. n - i /\ i + (x - i + 1) = x + 1
        BY <1>4, <1>5, <3>2
      <4>2. fs[x] = B[x - i + 1]
        BY <2>1, <2>2, <4>1, Zenon
      <4>3. fs[x] = es[x + 1]
        BY <1>6, <4>1, <4>2, Zenon
      <4> QED
        BY <3>2, <4>3, Zenon
    <3> QED
      BY <3>1, <3>2, Zenon
  <2> QED
    BY <2>1, <2>2, <2>3
<1>10. es = (A \o <<e>>) \o B
  <2>1. i \in 1 .. n /\ i - 1 \in 0 .. n
    BY <1>4
  <2>2. SubSeq(es, 1, n) = A \o SubSeq(es, i, n)
    <3>1. 1 \in 1 .. Len(es) + 1 /\ n \in 0 .. Len(es) /\ i \in 1 .. n + 1
      BY <1>4
    <3> QED
      BY <1>5, <3>1, PartsMeet
  <2>3. SubSeq(es, i, n) = SubSeq(es, i, i) \o B
    <3>1. i \in 1 .. Len(es) + 1 /\ n \in 0 .. Len(es) /\ i + 1 \in i .. n + 1 /\ i + 1 - 1 = i
      BY <1>4
    <3>2. SubSeq(es, i, n) = SubSeq(es, i, i + 1 - 1) \o SubSeq(es, i + 1, n)
      BY <3>1, PartsMeet
    <3> QED
      BY <1>6, <3>1, <3>2, Zenon
  <2>4. SubSeq(es, i, i) = <<e>>
    <3>1. i \in 1 .. Len(es) + 1 /\ i \in 0 .. Len(es) /\ i <= i + 1 /\ i + 1 - i = 1 /\ i + 1 - 1 = i /\ 1 \in 1 .. 1
      BY <1>4
    <3>2. Part(Entry, es, i, i)
      BY <3>1, Parts
    <3>3. SubSeq(es, i, i) \in Seq(Entry) /\ Len(SubSeq(es, i, i)) = 1 /\ SubSeq(es, i, i)[1] = es[i]
      BY <3>1, <3>2, Zenon DEF Part
    <3>4. PICK u \in Seq(Entry) : u = SubSeq(es, i, i)
      BY <3>3, Zenon
    <3>5. Len(u) = 1 /\ u[1] = e
      BY <1>1, <3>3, <3>4, Zenon
    <3>6. \A x \in 1 .. Len(u) : u[x] = <<e>>[x]
      BY <1>7, <3>5
    <3>7. u = <<e>>
      BY <1>7, <3>5, <3>6, SeqEqual, Zenon
    <3> QED
      BY <3>4, <3>7, Zenon
  <2>5. SubSeq(es, 1, n) = es
    BY <1>4, SubSeqFull
  <2>6. (A \o <<e>>) \o B = A \o (<<e>> \o B)
    BY <1>7, ConcatAssociative, SMTT(30)
  <2> QED
    BY <2>2, <2>3, <2>4, <2>5, <2>6
<1>11. Weight(KeyUnits, es) = Weight(KeyUnits, fs) + KeyUnits[e] /\ Weight(TextUnits, es) = Weight(TextUnits, fs) + TextUnits[e]
  <2>1. PICK C \in Seq(Entry) : C = A \o <<e>>
    BY <1>7, ConcatProperties, Zenon
  <2>2. Weighs(KeyUnits, A, B) /\ Weighs(TextUnits, A, B) /\ Weighs(KeyUnits, A, <<e>>) /\ Weighs(TextUnits, A, <<e>>)
        /\ Weighs(KeyUnits, C, B) /\ Weighs(TextUnits, C, B)
    BY <1>7, Units, Weights
  <2>3. Weight(KeyUnits, <<e>>) = KeyUnits[e] /\ Weight(TextUnits, <<e>>) = TextUnits[e] /\ KeyUnits[e] \in Nat /\ TextUnits[e] \in Nat
    BY Units, Weights
  <2>4. /\ Weight(KeyUnits, A) \in Nat /\ Weight(KeyUnits, B) \in Nat /\ Weight(TextUnits, A) \in Nat /\ Weight(TextUnits, B) \in Nat
        /\ Weight(KeyUnits, fs) = Weight(KeyUnits, A) + Weight(KeyUnits, B)
        /\ Weight(TextUnits, fs) = Weight(TextUnits, A) + Weight(TextUnits, B)
        /\ Weight(KeyUnits, es) = (Weight(KeyUnits, A) + KeyUnits[e]) + Weight(KeyUnits, B)
        /\ Weight(TextUnits, es) = (Weight(TextUnits, A) + TextUnits[e]) + Weight(TextUnits, B)
    BY <1>8, <1>10, <2>1, <2>2, <2>3, Zenon DEF Weighs
  <2>5. \A a, x, b \in Nat : (a + x) + b = (a + b) + x
    OBVIOUS
  <2>6. (Weight(KeyUnits, A) + KeyUnits[e]) + Weight(KeyUnits, B) = (Weight(KeyUnits, A) + Weight(KeyUnits, B)) + KeyUnits[e]
    <3>1. Weight(KeyUnits, A) \in Nat /\ KeyUnits[e] \in Nat /\ Weight(KeyUnits, B) \in Nat
      BY <2>3, <2>4, Zenon
    <3> QED
      BY <3>1, <2>5, Zenon
  <2>7. (Weight(TextUnits, A) + TextUnits[e]) + Weight(TextUnits, B) = (Weight(TextUnits, A) + Weight(TextUnits, B)) + TextUnits[e]
    <3>1. Weight(TextUnits, A) \in Nat /\ TextUnits[e] \in Nat /\ Weight(TextUnits, B) \in Nat
      BY <2>3, <2>4, Zenon
    <3> QED
      BY <3>1, <2>5, Zenon
  <2> QED
    BY <2>4, <2>6, <2>7, Zenon
<1>12. KeyUnits[e] = KeyCodeUnits(run) /\ TextUnits[e] = Len(RunText(run))
  BY <1>2 DEF KeyUnits, TextUnits
<1>13. Room(fs, run)
  <2>1. /\ Len(es) <= Capacity
        /\ \A x, y \in 1 .. Len(es) : es[x].key = es[y].key => x = y
        /\ \A x \in 1 .. Len(es) : es[x].output = RunText(es[x].key)
    BY Zenon DEF Right
  <2>2. Len(fs) \in Nat /\ Len(fs) < Capacity /\ Len(fs) <= Capacity
    BY <1>4, <1>9, <2>1, CapacityAssumption
  <2>3. ASSUME NEW x \in 1 .. Len(fs)
        PROVE  \E m \in 1 .. Len(es) : fs[x] = es[m] /\ m # i /\ m = IF x < i THEN x ELSE x + 1
    <3>1. CASE x < i
      <4>1. x \in 1 .. Len(es) /\ x # i /\ x \in 1 .. n - 1
        BY <1>4, <1>9, <3>1
      <4> QED
        BY <1>9, <3>1, <4>1, Zenon
    <3>2. CASE ~(x < i)
      <4>1. x + 1 \in 1 .. Len(es) /\ x + 1 # i /\ x \in 1 .. n - 1
        BY <1>4, <1>9, <3>2
      <4> QED
        BY <1>9, <3>2, <4>1, Zenon
    <3> QED
      BY <3>1, <3>2, Zenon
  <2>4. \A x, y \in 1 .. Len(fs) : fs[x].key = fs[y].key => x = y
    <3>1. ASSUME NEW x \in 1 .. Len(fs), NEW y \in 1 .. Len(fs), fs[x].key = fs[y].key PROVE x = y
      <4>1. PICK m \in 1 .. Len(es) : fs[x] = es[m] /\ m # i /\ m = IF x < i THEN x ELSE x + 1
        BY <2>3
      <4>2. PICK k \in 1 .. Len(es) : fs[y] = es[k] /\ k # i /\ k = IF y < i THEN y ELSE y + 1
        BY <2>3
      <4>3. m = k
        BY <2>1, <3>1, <4>1, <4>2, Zenon
      <4> QED
        BY <4>1, <4>2, <4>3, <1>4
    <3> QED
      BY <3>1, Zenon
  <2>5. \A x \in 1 .. Len(fs) : fs[x].output = RunText(fs[x].key) /\ fs[x].key # run
    <3>1. ASSUME NEW x \in 1 .. Len(fs) PROVE fs[x].output = RunText(fs[x].key) /\ fs[x].key # run
      <4>1. PICK m \in 1 .. Len(es) : fs[x] = es[m] /\ m # i
        BY <2>3, Zenon
      <4>2. es[m].key # es[i].key
        BY <2>1, <4>1, Zenon
      <4>3. es[i].key = run
        OBVIOUS
      <4> QED
        BY <2>1, <4>1, <4>2, <4>3, Zenon
    <3> QED
      BY <3>1, Zenon
  <2>6. Right(fs)
    BY <2>2, <2>4, <2>5, Zenon DEF Right
  <2> QED
    BY <2>2, <2>5, <2>6, Zenon DEF Room
<1>14. fs = RemoveAt(es, i)
  BY <1>4, <1>5, <1>6, <1>8, Zenon DEF RemoveAt
<1> QED
  BY <1>1, <1>3, <1>8, <1>11, <1>12, <1>13, <1>14, Zenon DEF Removed

\* The cache decodes a run as the decoder does, whether it knows the run or not.
THEOREM DecodedIs ==
    ASSUME NEW cache \in Caches, NEW run \in Seq(Present)
    PROVE  /\ Decoded(cache, run, RunText(run)).cache \in Caches
           /\ Decoded(cache, run, RunText(run)).text = RunText(run)
<1>1. PICK es \in Seq(Entry) : Right(es) /\ cache = Filled(es)
  BY Zenon DEF Caches
<1>2. cache.entries = es /\ cache.keyCodeUnits = Weight(KeyUnits, es) /\ cache.outputCodeUnits = Weight(TextUnits, es)
      /\ DOMAIN es = 1 .. Len(es)
  BY <1>1 DEF Filled
<1>3. CASE Cached(cache, run)
  <2>1. PICK i \in 1 .. Len(es) : i = IndexOf(cache, run) /\ es[i].key = run
    <3>1. \E i \in DOMAIN cache.entries : cache.entries[i].key = run
      BY <1>3, Zenon DEF Cached
    <3>2. IndexOf(cache, run) \in DOMAIN cache.entries /\ cache.entries[IndexOf(cache, run)].key = run
      BY <3>1, Zenon DEF IndexOf
    <3> QED
      BY <1>2, <3>2
  <2>2. es[i] = EntryFor(run) /\ EntryOf(cache, run) = es[i]
    <3>1. es[i] = EntryFor(run)
      BY <1>1, <2>1, Removing
    <3> QED
      BY <1>2, <2>1, <3>1, Zenon DEF EntryOf
  <2>3. PICK fs \in Seq(Entry) : Removed(es, i, run, fs)
    BY <1>1, <2>1, Removing
  <2>4. fs = RemoveAt(es, i) /\ Room(fs, run)
    BY <2>3, Zenon DEF Removed
  <2>5. PICK gs \in Seq(Entry) : gs = Put(fs, run) /\ Puts(fs, run, gs)
    <3>1. Puts(fs, run, Put(fs, run))
      BY <2>4, Putting
    <3> QED
      BY <3>1, Zenon DEF Puts
  <2>6. Weight(KeyUnits, gs) = Weight(KeyUnits, es) /\ Weight(TextUnits, gs) = Weight(TextUnits, es) /\ Right(gs)
    BY <2>3, <2>5, Zenon DEF Removed, Puts
  <2>7. Append(RemoveAt(cache.entries, IndexOf(cache, run)), EntryOf(cache, run)) = gs
    BY <1>2, <2>1, <2>2, <2>4, <2>5, Zenon DEF Put
  <2>8. Hit(cache, run) = [cache EXCEPT !.entries = gs]
    BY <2>7, Zenon DEF Hit
  <2>9. [cache EXCEPT !.entries = gs] = [entries |-> gs, keyCodeUnits |-> cache.keyCodeUnits, outputCodeUnits |-> cache.outputCodeUnits]
    BY <1>1 DEF Filled
  <2>10. Hit(cache, run) = Filled(gs)
    BY <1>2, <2>6, <2>8, <2>9, Zenon DEF Filled
  <2>11. Hit(cache, run) \in Caches
    BY <2>6, <2>10, Zenon DEF Caches
  <2>12. Decoded(cache, run, RunText(run)) = [cache |-> Hit(cache, run), text |-> EntryOf(cache, run).output]
    BY <1>3, Zenon DEF Decoded
  <2>13. EntryOf(cache, run).output = RunText(run)
    BY <2>2 DEF EntryFor
  <2>14. Decoded(cache, run, RunText(run)).cache = Hit(cache, run)
         /\ Decoded(cache, run, RunText(run)).text = EntryOf(cache, run).output
    BY <2>12
  <2> QED
    BY <2>11, <2>13, <2>14
<1>4. CASE ~Cached(cache, run)
  <2>1. PICK fs \in Seq(Entry) : Evict(cache) = Filled(fs) /\ Room(fs, run)
    BY <1>1, <1>4, Evicting
  <2>2. PICK gs \in Seq(Entry) : gs = Put(fs, run) /\ Puts(fs, run, gs)
    <3>1. Puts(fs, run, Put(fs, run))
      BY <2>1, Putting
    <3> QED
      BY <3>1, Zenon DEF Puts
  <2>3. Evict(cache).entries = fs /\ Evict(cache).keyCodeUnits = Weight(KeyUnits, fs) /\ Evict(cache).outputCodeUnits = Weight(TextUnits, fs)
    BY <2>1 DEF Filled
  <2>4. Insert(cache, run, RunText(run)) = Filled(gs)
    BY <2>2, <2>3, Zenon DEF Insert, Filled, Puts, Put, EntryFor
  <2>5. Insert(cache, run, RunText(run)) \in Caches
    BY <2>2, <2>4, Zenon DEF Caches, Puts
  <2>6. Decoded(cache, run, RunText(run)) = [cache |-> Insert(cache, run, RunText(run)), text |-> RunText(run)]
    BY <1>4, Zenon DEF Decoded
  <2> QED
    BY <2>5, <2>6
<1> QED
  BY <1>3, <1>4

(***************************************************************************)
(* Runs, each by itself                                                    *)
(***************************************************************************)
Texted == [run \in Seq(Present) |-> RunText(run)]
Decoding == [cache : Caches, texts : Seq(Chars)]
With(cache, texts) == [cache |-> cache, texts |-> texts]

\* What becomes of the cache and the texts with one run more.
Each(c, done, run) ==
    IF ~c.runCache THEN [done EXCEPT !.texts = Append(@, RunText(run))]
    ELSE [cache |-> Decoded(done.cache, run, RunText(run)).cache,
          texts |-> Append(done.texts, Decoded(done.cache, run, RunText(run)).text)]
EachSteps(c) == [run \in Seq(Present) |-> [done \in Decoding |-> Each(c, done, run)]]

\* The texts of runs as a function, and what a decoding carries.
LEMMA TextedRuns ==
    /\ Texted \in [Seq(Present) -> Chars]
    /\ \A run \in Seq(Present) : Texted[run] = RunText(run)
    /\ \A cache \in Caches, ts \in Seq(Chars) :
           With(cache, ts) \in Decoding /\ With(cache, ts).cache = cache /\ With(cache, ts).texts = ts
<1>1. \A run \in Seq(Present) : RunText(run) \in Chars
  BY RunTexts
<1> QED
  BY <1>1 DEF Texted, Decoding, With

\* Decoding one run, hit or miss, appends its text and nothing else.
LEMMA EachIs ==
    ASSUME NEW c, NEW done \in Decoding, NEW run \in Seq(Present)
    PROVE  /\ Each(c, done, run) \in Decoding
           /\ Each(c, done, run).texts = Append(done.texts, RunText(run))
<1>1. PICK cache \in Caches, ts \in Seq(Chars) : done = With(cache, ts)
  BY DEF Decoding, With
<1>2. done.cache = cache /\ done.texts = ts
  BY <1>1 DEF With
<1>3. PICK text \in Chars : text = RunText(run)
  BY RunTexts
<1>4. PICK more \in Seq(Chars) : more = Append(ts, text)
  BY AppendProperties, Zenon
<1>5. CASE ~c.runCache
  <2>1. [done EXCEPT !.texts = more] = With(cache, more)
    BY <1>1 DEF With
  <2>2. Append(done.texts, RunText(run)) = more
    BY <1>2, <1>3, <1>4, Zenon
  <2>3. Each(c, done, run) = With(cache, more)
    BY <1>5, <2>1, <2>2, Zenon DEF Each
  <2>4. With(cache, more) \in Decoding /\ With(cache, more).texts = more
    BY TextedRuns
  <2> QED
    BY <2>2, <2>3, <2>4, Zenon
<1>6. CASE c.runCache
  <2>1. Decoded(cache, run, text).cache \in Caches /\ Decoded(cache, run, text).text = text
    BY <1>3, DecodedIs
  <2>2. Each(c, done, run) = With(Decoded(cache, run, text).cache, more)
    BY <1>2, <1>3, <1>4, <1>6, <2>1, Zenon DEF Each, With
  <2>3. With(Decoded(cache, run, text).cache, more) \in Decoding /\ With(Decoded(cache, run, text).cache, more).texts = more
    BY <2>1, TextedRuns
  <2>4. Append(done.texts, RunText(run)) = more
    BY <1>2, <1>3, <1>4, Zenon
  <2> QED
    BY <2>2, <2>3, <2>4, Zenon
<1> QED
  BY <1>5, <1>6

\* Decoding runs is a fold.
LEMMA EachStepsAre ==
    ASSUME NEW c
    PROVE  /\ Steps(EachSteps(c), Seq(Present), Decoding)
           /\ \A run \in Seq(Present), done \in Decoding : EachSteps(c)[run][done] = Each(c, done, run)
<1>1. \A run \in Seq(Present), done \in Decoding : Each(c, done, run) \in Decoding
  BY EachIs
<1> QED
  BY <1>1, Zenon DEF Steps, EachSteps

\* Folding the steps gives each run its text.
LEMMA EachFolds ==
    ASSUME NEW c, NEW base \in Decoding, base.texts = <<>>, NEW runs \in Seq(Seq(Present))
    PROVE  /\ FoldOf(Decoding, EachSteps(c), base, runs) \in Decoding
           /\ FoldOf(Decoding, EachSteps(c), base, runs).texts = Mapped(Texted, runs)
<1> DEFINE At(s) == FoldOf(Decoding, EachSteps(c), base, s)
           T == {s \in Seq(Seq(Present)) : At(s).texts = Mapped(Texted, s)}
<1>1. PICK R : R = Seq(Present) /\ Steps(EachSteps(c), R, Decoding) /\ Texted \in [R -> Chars]
      /\ \A run \in R : Texted[run] = RunText(run)
  BY EachStepsAre, TextedRuns
<1>2. <<>> \in T
  <2>1. At(<<>>) = base
    BY <1>1, FoldOfEmpty
  <2>2. Mapped(Texted, <<>>) = <<>>
    BY <1>1, MappingFew
  <2>3. <<>> \in Seq(Seq(Present))
    BY EmptySeq
  <2> QED
    BY <2>1, <2>2, <2>3
<1>3. ASSUME NEW s \in Seq(R), NEW run \in R, s \in T PROVE Append(s, run) \in T
  <2>1. PICK t \in Seq(R) : t = Append(s, run)
    BY AppendProperties, Zenon
  <2>2. At(t) = EachSteps(c)[run][At(s)] /\ At(s) \in Decoding
    <3>1. FoldOf(Decoding, EachSteps(c), base, Append(s, run)) = EachSteps(c)[run][FoldOf(Decoding, EachSteps(c), base, s)]
      BY <1>1, FoldOfAppend
    <3>2. FoldOf(Decoding, EachSteps(c), base, s) \in Decoding
      BY <1>1, FoldOfStages
    <3> QED
      BY <2>1, <3>1, <3>2
  <2>3. PICK d \in Decoding : d = At(s)
    BY <2>2
  <2>4. At(t).texts = Append(d.texts, RunText(run))
    <3>1. EachSteps(c)[run][d] = Each(c, d, run)
      BY <1>1, EachStepsAre
    <3>2. Each(c, d, run).texts = Append(d.texts, RunText(run))
      BY <1>1, EachIs
    <3> QED
      BY <2>2, <2>3, <3>1, <3>2, Zenon
  <2>5. Mapped(Texted, t) = Append(Mapped(Texted, s), RunText(run))
    <3>1. <<run>> \in Seq(R)
      OBVIOUS
    <3>2. MapsPieces(Texted, s, <<run>>)
      BY <1>1, <3>1, MappingConcat
    <3>3. t = s \o <<run>>
      <4>1. Append(s, run) = s \o <<run>>
        BY <1>1, AppendIsConcat, Zenon
      <4> QED
        BY <2>1, <4>1
    <3>4. Mapped(Texted, <<run>>) = <<RunText(run)>>
      <4>1. Mapped(Texted, <<run>>) = <<Texted[run]>>
        <5>1. Mapped(Texted, <<>>) = <<>> /\ \A x \in R : Mapped(Texted, <<x>>) = <<Texted[x]>>
          BY <1>1, MappingFew, ZenonT(30)
        <5>2. run \in R
          BY <1>1, Zenon
        <5> QED
          BY <5>1, <5>2, Zenon
      <4>2. Texted[run] = RunText(run)
        BY <1>1, Zenon
      <4> QED
        BY <4>1, <4>2, Zenon
    <3>5. Mapped(Texted, s) \in Seq(Chars) /\ RunText(run) \in Chars
      <4>1. MapsTo(Chars, Texted, s)
        BY <1>1, Mapping
      <4> QED
        BY <4>1, <1>1, RunTexts, Zenon DEF MapsTo
    <3>6. Append(Mapped(Texted, s), RunText(run)) = Mapped(Texted, s) \o <<RunText(run)>>
      BY <3>5, AppendIsConcat
    <3> QED
      BY <3>2, <3>3, <3>4, <3>6, Zenon DEF MapsPieces
  <2>6. d.texts = Mapped(Texted, s)
    BY <1>3, <2>3, Zenon
  <2>7. t \in Seq(Seq(Present))
    BY <1>1, <2>1
  <2> QED
    BY <2>1, <2>4, <2>5, <2>6, <2>7, Zenon
<1>4. Seq(R) \subseteq T
  <2>1. \A s \in Seq(R), e \in R : s \in T => Append(s, e) \in T
    BY <1>3, Zenon
  <2> HIDE DEF T
  <2> QED
    BY <1>2, <2>1, SeqInduction
<1>5. runs \in T
  BY <1>1, <1>4
<1>6. At(runs) \in Decoding
  <2>1. runs \in Seq(R)
    BY <1>1
  <2>2. FoldOf(Decoding, EachSteps(c), base, runs) \in Decoding
    BY <1>1, <2>1, FoldOfStages
  <2> QED
    BY <2>2
<1> QED
  BY <1>5, <1>6

\* Decoding each run keeps the cache and gives each its text.
LEMMA DecodesEach ==
    ASSUME NEW c, NEW cache \in Caches, NEW runs \in Seq(Seq(Present))
    PROVE  /\ DecodeEach(c, cache, runs) \in Decoding
           /\ DecodeEach(c, cache, runs).texts = Mapped(Texted, runs)
<1>1. PICK n \in Nat : n = Len(runs) /\ DOMAIN runs = 1 .. n
  OBVIOUS
<1>2. PICK base \in Decoding : base = [cache |-> cache, texts |-> <<>>] /\ base.texts = <<>>
  <2>1. <<>> \in Seq(Chars)
    BY EmptySeq
  <2> QED
    <3>1. With(cache, <<>>) \in Decoding /\ With(cache, <<>>).texts = <<>>
      BY <2>1, TextedRuns
    <3> QED
      BY <3>1, Zenon DEF With
<1>3. Steps(EachSteps(c), Seq(Present), Decoding)
      /\ \A run \in Seq(Present), done \in Decoding : EachSteps(c)[run][done] = Each(c, done, run)
  BY EachStepsAre
<1>3a. PICK R : R = Seq(Present) /\ Steps(EachSteps(c), R, Decoding) /\ runs \in Seq(R)
  BY <1>3
<1>4. PICK g \in [SUBSET (1 .. Len(runs)) -> Decoding] : IndexFold(g, Decoding, EachSteps(c), base, runs)
  BY <1>3a, IndexFoldExists
<1>5. \A r \in SUBSET (1 .. Len(runs)) : r # {} => runs[Max(r)] \in Seq(Present) /\ r \ {Max(r)} \in SUBSET (1 .. Len(runs))
  <2>1. \A r \in SUBSET (1 .. Len(runs)) : r # {} => runs[Max(r)] \in R /\ r \ {Max(r)} \in SUBSET (1 .. Len(runs))
    BY <1>3a, IndexFoldExists
  <2> QED
    BY <1>3a, <2>1
<1> DEFINE Folded(h) == h = [r \in SUBSET (1 .. Len(runs)) |->
                                IF r = {} THEN [cache |-> cache, texts |-> <<>>] ELSE Each(c, h[r \ {Max(r)}], runs[Max(r)])]
<1>6. Folded(g)
  <2>1. ASSUME NEW r \in SUBSET (1 .. Len(runs))
        PROVE  g[r] = IF r = {} THEN [cache |-> cache, texts |-> <<>>] ELSE Each(c, g[r \ {Max(r)}], runs[Max(r)])
    <3>1. r # {} => g[r \ {Max(r)}] \in Decoding
      BY <1>5, Zenon
    <3> QED
      BY <1>2, <1>3, <1>4, <1>5, <3>1, Zenon DEF IndexFold
  <2> QED
    BY <2>1, Zenon
<1>7. PICK it : it = CHOOSE h : Folded(h)
  BY Zenon
<1>8. Folded(it)
  BY <1>6, <1>7, Zenon
<1>9. IndexFold(it, Decoding, EachSteps(c), base, runs)
  <2>1. ASSUME NEW r \in SUBSET (1 .. Len(runs))
        PROVE  /\ r = {} => it[r] = base
               /\ r # {} /\ it[r \ {Max(r)}] \in Decoding => it[r] = EachSteps(c)[runs[Max(r)]][it[r \ {Max(r)}]]
    BY <1>2, <1>3, <1>5, <1>8, Zenon
  <2> QED
    BY <2>1, Zenon DEF IndexFold
<1>10. it[1 .. Len(runs)] = FoldOf(Decoding, EachSteps(c), base, runs)
  BY <1>3a, <1>9, IndexFoldFolds
<1>11. DecodeEach(c, cache, runs) = it[DOMAIN runs]
  BY <1>1, <1>7, Zenon DEF DecodeEach, FoldLeft, MapThenFoldSet, Each, RunText
<1>12. FoldOf(Decoding, EachSteps(c), base, runs) \in Decoding
       /\ FoldOf(Decoding, EachSteps(c), base, runs).texts = Mapped(Texted, runs)
  BY <1>2, EachFolds
<1> QED
  BY <1>1, <1>10, <1>11, <1>12, Zenon

(***************************************************************************)
(* Where the runs of dirty ids are                                         *)
(***************************************************************************)
\* A run of dirty ids that begins at k, or before, ends at e.
IsRun(ids, k, e) ==
    /\ e \in k .. Len(ids)
    /\ \A j \in k .. e : Dirty(ids[j])
    /\ e < Len(ids) => ~Dirty(ids[e + 1])
\* The run at a dirty token ends before the next clean one.
LEMMA RunEnds ==
    ASSUME NEW ids \in Seq(Present), NEW k \in 1 .. Len(ids), Dirty(ids[k])
    PROVE  IsRun(ids, k, RunEnd(ids, k))
<1>1. PICK n \in Nat : n = Len(ids) /\ k \in 1 .. n
  OBVIOUS
<1>2. \E e \in k .. n : IsRun(ids, k, e)
  <2> DEFINE G == {m \in k .. n : ~Dirty(ids[m])}
  <2>1. CASE G = {}
    <3>1. n \in k .. n /\ ~(n < n)
      BY <1>1
    <3>2. \A j \in k .. n : Dirty(ids[j])
      BY <2>1, Zenon
    <3> QED
      BY <1>1, <3>1, <3>2, Zenon DEF IsRun
  <2>2. CASE G # {}
    <3>1. G \in SUBSET Nat
      BY <1>1
    <3>2. PICK m \in G : \A x \in G : m <= x
      <4> HIDE DEF G
      <4> QED
        BY <2>2, <3>1, LeastMember
    <3>3. m \in k .. n /\ m # k /\ ~Dirty(ids[m])
      BY <3>2
    <3>4. PICK e : e = m - 1
      OBVIOUS
    <3>5. e \in k .. n /\ e + 1 = m /\ \A j \in k .. e : j \in k .. n /\ ~(m <= j)
      BY <1>1, <3>3, <3>4
    <3>6. \A j \in k .. e : Dirty(ids[j])
      BY <3>2, <3>5, Zenon
    <3> QED
      BY <1>1, <3>3, <3>5, <3>6, Zenon DEF IsRun
  <2> QED
    BY <2>1, <2>2
<1>3. \E e \in k .. Len(ids) : /\ \A j \in k .. e : Dirty(ids[j])
                               /\ e < Len(ids) => ~Dirty(ids[e + 1])
  BY <1>1, <1>2, Zenon DEF IsRun
<1> QED
  BY <1>3, Zenon DEF RunEnd, IsRun

\* How many runs have started up to k, and up to the one before it.
Begun(ids, from, k) == {j \in from .. k : StartsRun(ids, from, j)}
\* How many runs begin up to a place.
LEMMA RunCounts ==
    ASSUME NEW ids, NEW from \in Nat \ {0}, NEW k \in Nat, from <= k + 1
    PROVE  /\ IsFiniteSet(Begun(ids, from, k)) /\ RunNumber(ids, from, k) = Cardinality(Begun(ids, from, k))
           /\ RunNumber(ids, from, k) \in Nat
           /\ k + 1 = from => RunNumber(ids, from, k) = 0
           /\ from <= k => RunNumber(ids, from, k) =
                  RunNumber(ids, from, k - 1) + IF StartsRun(ids, from, k) THEN 1 ELSE 0
<1>1. \A m \in Nat : IsFiniteSet(Begun(ids, from, m)) /\ Cardinality(Begun(ids, from, m)) \in Nat
  <2>1. ASSUME NEW m \in Nat PROVE IsFiniteSet(Begun(ids, from, m)) /\ Cardinality(Begun(ids, from, m)) \in Nat
    <3>1. IsFiniteSet(from .. m)
      BY FS_Interval
    <3>2. Begun(ids, from, m) \subseteq from .. m
      BY DEF Begun
    <3>3. IsFiniteSet(Begun(ids, from, m))
      BY <3>1, <3>2, FS_Subset
    <3> QED
      BY <3>3, FS_CardinalityType
  <2> QED
    BY <2>1
<1>2. \A m : RunNumber(ids, from, m) = Cardinality(Begun(ids, from, m))
  BY Zenon DEF RunNumber, Begun
<1>3. k + 1 = from => RunNumber(ids, from, k) = 0
  <2>1. ASSUME k + 1 = from PROVE Begun(ids, from, k) = {}
    BY <2>1 DEF Begun
  <2> QED
    BY <1>2, <2>1, FS_EmptySet
<1>4. ASSUME from <= k
      PROVE  RunNumber(ids, from, k) = RunNumber(ids, from, k - 1) + IF StartsRun(ids, from, k) THEN 1 ELSE 0
  <2>1. PICK m \in Nat : m = k - 1
    BY <1>4
  <2>2. k \in from .. k /\ (from .. k) = (from .. m) \union {k} /\ k \notin from .. m
    BY <1>4, <2>1
  <2>3. CASE StartsRun(ids, from, k)
    <3>1. Begun(ids, from, k) = Begun(ids, from, m) \union {k} /\ k \notin Begun(ids, from, m)
      BY <2>2, <2>3, Zenon DEF Begun
    <3>2. Cardinality(Begun(ids, from, m) \union {k}) = Cardinality(Begun(ids, from, m)) + 1
      BY <1>1, <3>1, FS_AddElement
    <3> QED
      BY <1>2, <2>1, <2>3, <3>1, <3>2
  <2>4. CASE ~StartsRun(ids, from, k)
    <3>1. Begun(ids, from, k) = Begun(ids, from, m)
      BY <2>2, <2>4, Zenon DEF Begun
    <3>2. Cardinality(Begun(ids, from, m)) \in Nat
      BY <1>1
    <3> QED
      BY <1>2, <2>1, <2>4, <3>1, <3>2
  <2> QED
    BY <2>3, <2>4
<1> QED
  BY <1>1, <1>2, <1>3, <1>4

\* Later runs have greater numbers.
LEMMA RunNumbers ==
    ASSUME NEW ids, NEW from \in Nat \ {0}, NEW j \in Nat, NEW k \in Nat, from <= j + 1, j <= k
    PROVE  /\ RunNumber(ids, from, j) <= RunNumber(ids, from, k)
           /\ j < k /\ StartsRun(ids, from, k) => RunNumber(ids, from, j) < RunNumber(ids, from, k)
<1>1. PICK a \in Nat : a = RunNumber(ids, from, j) /\ a = Cardinality(Begun(ids, from, j)) /\ IsFiniteSet(Begun(ids, from, j))
  BY RunCounts
<1>2. from <= k + 1
  OBVIOUS
<1>3. PICK b \in Nat : b = RunNumber(ids, from, k) /\ b = Cardinality(Begun(ids, from, k)) /\ IsFiniteSet(Begun(ids, from, k))
  BY <1>2, RunCounts
<1>4. Begun(ids, from, j) \subseteq Begun(ids, from, k)
  BY DEF Begun
<1>5. a <= b /\ (a = b => Begun(ids, from, j) = Begun(ids, from, k))
  BY <1>1, <1>3, <1>4, FS_Subset
<1>6. j < k /\ StartsRun(ids, from, k) => k \in Begun(ids, from, k) /\ k \notin Begun(ids, from, j)
  BY DEF Begun
<1> QED
  BY <1>1, <1>3, <1>5, <1>6

\* A run has a number of its own, and each number a run.
Started(ids, from, k, r) == StartsRun(ids, from, k) /\ RunNumber(ids, from, k) = r
\* Every number of a run is that of a place where one begins.
LEMMA RunOfNumber ==
    ASSUME NEW ids \in Seq(Present), NEW from \in 1 .. Len(ids), NEW r \in 1 .. RunNumber(ids, from, Len(ids))
    PROVE  \E k \in from .. Len(ids) : Started(ids, from, k, r)
<1>1. PICK n \in Nat : n = Len(ids) /\ from \in 1 .. n /\ from \in Nat \ {0}
  OBVIOUS
<1>2. r \in Nat /\ r # 0 /\ r <= RunNumber(ids, from, n) /\ RunNumber(ids, from, n) \in Nat
  <2>1. RunNumber(ids, from, n) \in Nat
    BY <1>1, RunCounts
  <2>2. r \in 1 .. RunNumber(ids, from, n)
    BY <1>1
  <2> QED
    BY <2>1, <2>2
<1> DEFINE G == {m \in from .. n : r <= RunNumber(ids, from, m)}
<1>3. n \in G /\ G \in SUBSET Nat
  BY <1>1, <1>2
<1>4. PICK k \in G : \A x \in G : k <= x
  <2> HIDE DEF G
  <2> QED
    BY <1>3, LeastMember
<1>5. k \in from .. n /\ k \in Nat /\ from <= k /\ r <= RunNumber(ids, from, k)
  BY <1>1, <1>4
<1>6. PICK b \in Nat : b = RunNumber(ids, from, k)
  BY <1>1, <1>5, RunCounts
<1>7. PICK j \in Nat : j = k - 1 /\ from <= j + 1 /\ j + 1 = k
  BY <1>1, <1>5
<1>8. PICK a \in Nat : a = RunNumber(ids, from, j)
  BY <1>1, <1>7, RunCounts
<1>9. b = a + IF StartsRun(ids, from, k) THEN 1 ELSE 0
  BY <1>1, <1>5, <1>6, <1>7, <1>8, RunCounts
<1>10. ~(r <= a)
  <2>1. CASE j + 1 = from
    <3>1. a = 0
      BY <1>1, <1>7, <1>8, <2>1, RunCounts
    <3> QED
      BY <1>2, <3>1
  <2>2. CASE j + 1 # from
    <3>1. j \in from .. n /\ ~(k <= j)
      BY <1>1, <1>5, <1>7, <2>2
    <3>2. j \notin G
      BY <1>4, <3>1, Zenon
    <3> QED
      BY <1>8, <3>1, <3>2
  <2> QED
    BY <2>1, <2>2
<1>11. StartsRun(ids, from, k) /\ b = r
  BY <1>2, <1>5, <1>6, <1>9, <1>10
<1> QED
  BY <1>1, <1>5, <1>6, <1>11, Zenon DEF Started

\* A dirty id is in a run that has started.
LEMMA InRun ==
    ASSUME NEW ids \in Seq(Present), NEW from \in 1 .. Len(ids), NEW k \in from .. Len(ids), Dirty(ids[k])
    PROVE  RunNumber(ids, from, k) \in 1 .. RunNumber(ids, from, Len(ids))
<1>1. PICK n \in Nat : n = Len(ids) /\ from \in 1 .. n /\ from \in Nat \ {0} /\ k \in Nat /\ k \in from .. n
  OBVIOUS
<1> DEFINE G == {m \in from .. k : \A j \in m .. k : Dirty(ids[j])}
<1>2. k \in G /\ G \in SUBSET Nat
  <2>1. \A j \in k .. k : j = k
    BY <1>1
  <2> QED
    BY <1>1, <2>1
<1>3. PICK m \in G : \A x \in G : m <= x
  <2> HIDE DEF G
  <2> QED
    BY <1>2, LeastMember
<1>4. m \in from .. k /\ m \in Nat /\ Dirty(ids[m]) /\ \A j \in m .. k : Dirty(ids[j])
  <2>1. m \in from .. k /\ \A j \in m .. k : Dirty(ids[j])
    BY <1>3
  <2>2. m \in m .. k /\ m \in Nat
    BY <1>1, <2>1
  <2> QED
    BY <2>1, <2>2, Zenon
<1>5. StartsRun(ids, from, m)
  <2>1. CASE m = from
    BY <1>4, <2>1, Zenon DEF StartsRun
  <2>2. CASE m # from
    <3>1. m - 1 \in from .. k /\ ~(m <= m - 1) /\ \A j \in m - 1 .. k : j = m - 1 \/ j \in m .. k
      BY <1>1, <1>4, <2>2
    <3>2. ~Dirty(ids[m - 1])
      <4>1. ~(\A j \in m - 1 .. k : Dirty(ids[j]))
        BY <1>3, <3>1, Zenon
      <4> QED
        BY <1>4, <3>1, <4>1, Zenon
    <3> QED
      BY <1>4, <3>2, Zenon DEF StartsRun
  <2> QED
    BY <2>1, <2>2
<1>6. PICK a \in Nat : a = RunNumber(ids, from, m)
  BY <1>1, <1>4, RunCounts
<1>7. PICK z \in Nat : z = RunNumber(ids, from, m - 1) /\ a = z + 1
  <2>1. m - 1 \in Nat /\ from <= m - 1 + 1 /\ from <= m /\ from <= m + 1
    BY <1>1, <1>4
  <2>2. RunNumber(ids, from, m - 1) \in Nat
    BY <1>1, <2>1, RunCounts
  <2>3. RunNumber(ids, from, m) = RunNumber(ids, from, m - 1) + 1
    BY <1>1, <1>4, <1>5, <2>1, RunCounts
  <2> QED
    BY <1>6, <2>2, <2>3
<1>8. RunNumber(ids, from, k) \in Nat /\ RunNumber(ids, from, n) \in Nat
  BY <1>1, RunCounts
<1>9. a <= RunNumber(ids, from, k)
  <2>1. from <= m + 1 /\ m <= k
    BY <1>1, <1>4
  <2> QED
    BY <1>1, <1>4, <1>6, <2>1, RunNumbers
<1>10. RunNumber(ids, from, k) <= RunNumber(ids, from, n)
  <2>1. from <= k + 1 /\ k <= n
    BY <1>1
  <2> QED
    BY <1>1, <2>1, RunNumbers
<1> QED
  BY <1>1, <1>7, <1>8, <1>9, <1>10

\* Tokens in the order of their ids, and the bytes of a part of them.
Remaining(ids, k) == SubSeq(ids, k, Len(ids))
\* What is left of the array, as tokens and as bytes.
LEMMA TailsAre ==
    ASSUME NEW ids \in Seq(Present), NEW k \in 1 .. Len(ids) + 1, NEW m \in k .. Len(ids) + 1
    PROVE  /\ Remaining(ids, k) \in Seq(Present) /\ SubSeq(ids, k, m - 1) \in Seq(Present)
           /\ BytesOf(SubSeq(ids, k, m - 1)) \in Seq(Byte) /\ BytesOf(Remaining(ids, m)) \in Seq(Byte)
           /\ BytesOf(Remaining(ids, k)) = BytesOf(SubSeq(ids, k, m - 1)) \o BytesOf(Remaining(ids, m))
<1>1. PICK n \in Nat : n = Len(ids) /\ k \in 1 .. n + 1 /\ m \in k .. n + 1
  OBVIOUS
<1>2. Part(Present, ids, k, n)
  <2>1. n \in 0 .. Len(ids) /\ k <= n + 1
    BY <1>1
  <2> QED
    BY <2>1, Parts
<1>3. Part(Present, ids, m, n)
  <2>1. n \in 0 .. Len(ids) /\ m <= n + 1 /\ m \in 1 .. Len(ids) + 1
    BY <1>1
  <2> QED
    BY <2>1, Parts
<1>4. Part(Present, ids, k, m - 1)
  <2>1. m - 1 \in 0 .. Len(ids) /\ k <= m - 1 + 1
    BY <1>1
  <2> QED
    BY <2>1, Parts
<1>5. PICK a, b, c \in Seq(Present) : a = SubSeq(ids, k, n) /\ b = SubSeq(ids, k, m - 1) /\ c = SubSeq(ids, m, n)
  BY <1>2, <1>3, <1>4, Zenon DEF Part
<1>6. a = b \o c
  <2>1. n \in 0 .. Len(ids) /\ m \in k .. n + 1
    BY <1>1
  <2> QED
    BY <1>5, <2>1, PartsMeet
<1>7. BytesOf(a) = BytesOf(b) \o BytesOf(c) /\ BytesOf(b) \in Seq(Byte) /\ BytesOf(c) \in Seq(Byte)
  <2>1. BytesOf(b \o c) = BytesOf(b) \o BytesOf(c)
    BY BytesConcat
  <2>2. BytesOf(b) \in Seq(Byte) /\ BytesOf(c) \in Seq(Byte)
    BY BytesAre
  <2> QED
    BY <1>6, <2>1, <2>2
<1>8. Remaining(ids, k) = a /\ Remaining(ids, m) = c /\ SubSeq(ids, k, m - 1) = b
  BY <1>1, <1>5, Zenon DEF Remaining
<1> QED
  BY <1>5, <1>7, <1>8, Zenon

\* One token, and the tokens after it.
LEMMA TailsOne ==
    ASSUME NEW ids \in Seq(Present), NEW k \in 1 .. Len(ids)
    PROVE  BytesOf(SubSeq(ids, k, k + 1 - 1)) = TokenBytes(ids[k])
<1>1. k \in 1 .. Len(ids) + 1 /\ k \in 0 .. Len(ids) /\ k <= k + 1 /\ k + 1 - k = 1 /\ k + 1 - 1 = k /\ 1 \in 1 .. 1
  OBVIOUS
<1>2. Part(Present, ids, k, k)
  BY <1>1, Parts
<1>3. SubSeq(ids, k, k) \in Seq(Present) /\ Len(SubSeq(ids, k, k)) = 1 /\ SubSeq(ids, k, k)[1] = ids[k]
  BY <1>1, <1>2, Zenon DEF Part
<1>4. PICK x \in Present : x = ids[k]
  OBVIOUS
<1>5. PICK u \in Seq(Present) : u = SubSeq(ids, k, k) /\ Len(u) = 1 /\ u[1] = x
  BY <1>3, <1>4, Zenon
<1>6. <<x>> \in Seq(Present) /\ Len(<<x>>) = 1 /\ <<x>>[1] = x
  OBVIOUS
<1>7. \A i \in 1 .. Len(u) : u[i] = <<x>>[i]
  BY <1>5, <1>6
<1>8. u = <<x>>
  BY <1>5, <1>6, <1>7, SeqEqual, Zenon
<1>9. BytesOf(<<x>>) = TokenBytes(x)
  BY BytesFew
<1> QED
  BY <1>1, <1>4, <1>5, <1>8, <1>9

\* The runs are sequences of tokens, and the one that starts at k is that of its number.
RunAt(ids, k) == SubSeq(ids, k, RunEnd(ids, k))
\* The runs of an array are those that begin in it, in order.
LEMMA RunsAre ==
    ASSUME NEW ids \in Seq(Present), NEW from \in 1 .. Len(ids)
    PROVE  /\ Runs(ids, from) \in Seq(Seq(Present)) /\ Len(Runs(ids, from)) = RunNumber(ids, from, Len(ids))
           /\ \A r \in 1 .. RunNumber(ids, from, Len(ids)) :
                 \E k \in from .. Len(ids) : Started(ids, from, k, r) /\ Runs(ids, from)[r] = RunAt(ids, k)
           /\ \A k \in from .. Len(ids) : StartsRun(ids, from, k) =>
                 Runs(ids, from)[RunNumber(ids, from, k)] = RunAt(ids, k)
<1>1. PICK n \in Nat : n = Len(ids) /\ from \in 1 .. n /\ from \in Nat \ {0} /\ from <= n + 1
  OBVIOUS
<1>2. PICK c \in Nat : c = RunNumber(ids, from, n)
  BY <1>1, RunCounts
<1> DEFINE start(r) == CHOOSE k \in from .. Len(ids) :
                           StartsRun(ids, from, k) /\ RunNumber(ids, from, k) = r
<1>3. Runs(ids, from) = [r \in 1 .. c |-> SubSeq(ids, start(r), RunEnd(ids, start(r)))]
  BY <1>1, <1>2, Zenon DEF Runs
<1>4. ASSUME NEW r \in 1 .. c PROVE start(r) \in from .. n /\ Started(ids, from, start(r), r)
  <2>1. r \in 1 .. RunNumber(ids, from, Len(ids))
    BY <1>1, <1>2
  <2>2. \E k \in from .. Len(ids) : StartsRun(ids, from, k) /\ RunNumber(ids, from, k) = r
    BY <2>1, RunOfNumber, Zenon DEF Started
  <2>3. start(r) \in from .. Len(ids) /\ StartsRun(ids, from, start(r)) /\ RunNumber(ids, from, start(r)) = r
    BY <2>2, Zenon
  <2> QED
    BY <1>1, <2>3, Zenon DEF Started
<1>5. ASSUME NEW k \in from .. n, StartsRun(ids, from, k) PROVE RunAt(ids, k) \in Seq(Present)
  <2>1. k \in 1 .. Len(ids) /\ k \in 1 .. Len(ids) + 1
    BY <1>1
  <2>2. Dirty(ids[k])
    BY <1>5, Zenon DEF StartsRun
  <2>3. IsRun(ids, k, RunEnd(ids, k))
    BY <2>1, <2>2, RunEnds
  <2>4. PICK e : e = RunEnd(ids, k) /\ e \in k .. Len(ids)
    BY <2>3, Zenon DEF IsRun
  <2>5. PICK m \in k .. Len(ids) + 1 : m - 1 = e
    <3>1. PICK m : m = e + 1
      OBVIOUS
    <3>2. m \in k .. Len(ids) + 1 /\ m - 1 = e
      BY <1>1, <2>4, <3>1
    <3> QED
      BY <3>2
  <2>6. SubSeq(ids, k, m - 1) \in Seq(Present)
    BY <2>1, TailsAre
  <2> QED
    BY <2>4, <2>5, <2>6, Zenon DEF RunAt
<1>6. \A r \in 1 .. c : Runs(ids, from)[r] = RunAt(ids, start(r)) /\ RunAt(ids, start(r)) \in Seq(Present)
  <2>1. \A r \in 1 .. c : Runs(ids, from)[r] = RunAt(ids, start(r))
    BY <1>3, Zenon DEF RunAt
  <2>2. ASSUME NEW r \in 1 .. c PROVE RunAt(ids, start(r)) \in Seq(Present)
    <3>1. start(r) \in from .. n /\ StartsRun(ids, from, start(r))
      BY <1>4, Zenon DEF Started
    <3> HIDE DEF start
    <3> QED
      BY <1>5, <3>1
  <2> QED
    BY <2>1, <2>2
<1>7. Runs(ids, from) \in [1 .. c -> Seq(Present)]
  <2> HIDE DEF start
  <2>1. \A r \in 1 .. c : SubSeq(ids, start(r), RunEnd(ids, start(r))) \in Seq(Present)
    BY <1>6, Zenon DEF RunAt
  <2> QED
    BY <1>3, <2>1
<1>8. Runs(ids, from) \in Seq(Seq(Present)) /\ Len(Runs(ids, from)) = c
  <2>1. PICK f \in [1 .. c -> Seq(Present)] : f = Runs(ids, from)
    BY <1>7
  <2>2. [r \in 1 .. c |-> f[r]] \in Seq(Seq(Present)) /\ f = [r \in 1 .. c |-> f[r]]
    <3>1. \A r \in 1 .. c : f[r] \in Seq(Present)
      OBVIOUS
    <3>2. [r \in 1 .. c |-> f[r]] \in Seq(Seq(Present))
      BY <3>1, IsASeq
    <3>3. f = [r \in 1 .. c |-> f[r]]
      OBVIOUS
    <3> QED
      BY <3>2, <3>3
  <2>3. f \in Seq(Seq(Present))
    BY <2>2, Zenon
  <2>4. Len(f) \in Nat /\ 1 .. Len(f) = 1 .. c
    <3>1. DOMAIN f = 1 .. Len(f) /\ Len(f) \in Nat
      BY <2>3, LenProperties
    <3>2. DOMAIN f = 1 .. c
      OBVIOUS
    <3> QED
      BY <3>1, <3>2
  <2>5. Len(f) = c
    BY <2>4
  <2> QED
    BY <2>1, <2>3, <2>5
<1>9. \A r \in 1 .. c : \E k \in from .. n : Started(ids, from, k, r) /\ Runs(ids, from)[r] = RunAt(ids, k)
  <2> HIDE DEF start
  <2> QED
    BY <1>4, <1>6, Zenon
<1>10. ASSUME NEW k \in from .. n, StartsRun(ids, from, k)
       PROVE  Runs(ids, from)[RunNumber(ids, from, k)] = RunAt(ids, k)
  <2>1. PICK r : r = RunNumber(ids, from, k) /\ r \in 1 .. c
    <3>1. Dirty(ids[k]) /\ k \in from .. Len(ids)
      BY <1>1, <1>10, Zenon DEF StartsRun
    <3>2. RunNumber(ids, from, k) \in 1 .. RunNumber(ids, from, Len(ids))
      BY <3>1, InRun
    <3> QED
      BY <1>1, <1>2, <3>2
  <2>2. PICK m \in from .. n : Started(ids, from, m, r) /\ Runs(ids, from)[r] = RunAt(ids, m)
    BY <1>9, <2>1
  <2>3. StartsRun(ids, from, m) /\ RunNumber(ids, from, m) = r
    BY <2>2, Zenon DEF Started
  <2>4. k = m
    <3>1. m \in Nat /\ k \in Nat /\ from <= m + 1 /\ from <= k + 1 /\ from <= m /\ from <= k
      BY <1>1
    <3>2. PICK a, b \in Nat : a = RunNumber(ids, from, m) /\ b = RunNumber(ids, from, k)
      BY <1>1, <3>1, RunCounts
    <3>3. k < m => b < a
      BY <1>1, <2>3, <3>1, <3>2, RunNumbers
    <3>4. m < k => a < b
      BY <1>1, <1>10, <3>1, <3>2, RunNumbers
    <3> QED
      BY <2>1, <2>3, <3>1, <3>2, <3>3, <3>4
  <2> QED
    BY <2>1, <2>2, <2>4
<1> QED
  BY <1>1, <1>2, <1>8, <1>9, <1>10, Zenon

\* What the stitcher puts at an index, and where it goes on.
Piece(ids, from, texts, k) == IF Dirty(ids[k]) THEN texts[RunNumber(ids, from, k)] ELSE TextOf(ids[k])
Onto(ids, k) == IF Dirty(ids[k]) THEN RunEnd(ids, k) + 1 ELSE k + 1
Seam(ids, from, k) == k <= Len(ids) /\ Dirty(ids[k]) => StartsRun(ids, from, k)

\* A token that is not dirty is clean.
LEMMA CleanOrDirty ==
    ASSUME NEW id \in Present
    PROVE  /\ Dirty(id) \/ Clean(id)
           /\ ~Dirty(id) => CleanToken(id)
<1>1. Dirty(id) \/ Clean(id)
  BY Tokens DEF Dirty, Clean
<1> QED
  BY <1>1, CleanTokens

\* What is stitched has a text for every index, and begins with the text of a run or a token.
Goes(ids, from, texts, k) ==
    /\ Onto(ids, k) \in k + 1 .. Len(ids) + 1
    /\ Piece(ids, from, texts, k) \in Chars
    /\ Seam(ids, from, k) =>
           /\ Seam(ids, from, Onto(ids, k))
           /\ Piece(ids, from, texts, k) = Lossy(BytesOf(SubSeq(ids, k, Onto(ids, k) - 1)))
           /\ Starts(BytesOf(Remaining(ids, Onto(ids, k)))) \/ Whole(BytesOf(SubSeq(ids, k, Onto(ids, k) - 1)))
\* What follows a run starts a character.
LEMMA StartsClean ==
    ASSUME NEW ids \in Seq(Present), NEW m \in 1 .. Len(ids) + 1, m <= Len(ids) => ~Dirty(ids[m])
    PROVE  Starts(BytesOf(Remaining(ids, m)))
<1>1. PICK n \in Nat : n = Len(ids) /\ m \in 1 .. n + 1
  OBVIOUS
<1>2. CASE m = n + 1
  <2>1. Remaining(ids, m) = <<>>
    BY <1>1, <1>2 DEF Remaining
  <2> QED
    BY <2>1, BytesFew DEF Starts
<1>3. CASE m # n + 1
  <2>1. m \in 1 .. Len(ids) /\ m <= Len(ids)
    BY <1>1, <1>3
  <2>2. PICK id \in Present : id = ids[m]
    BY <2>1
  <2>3. CleanToken(id)
    BY <2>1, <2>2, CleanOrDirty
  <2>4. PICK p : p = m + 1
    OBVIOUS
  <2>5. p \in m .. Len(ids) + 1 /\ p - 1 = m + 1 - 1
    BY <1>1, <1>3, <2>4
  <2>6. BytesOf(Remaining(ids, m)) = BytesOf(SubSeq(ids, m, p - 1)) \o BytesOf(Remaining(ids, p))
        /\ BytesOf(Remaining(ids, p)) \in Seq(Byte)
    BY <2>5, TailsAre
  <2>7. BytesOf(SubSeq(ids, m, p - 1)) = TokenBytes(id)
    BY <2>1, <2>2, <2>5, TailsOne
  <2>8. PICK s, t \in Seq(Byte) : s = TokenBytes(id) /\ t = BytesOf(Remaining(ids, p)) /\ s # <<>> /\ s[1] \notin Continuation
    BY <2>3, <2>6, Zenon DEF CleanToken, Starts
  <2>9. (s \o t)[1] = s[1]
    <3>1. Len(s) \in Nat /\ Len(s) # 0 /\ Len(t) \in Nat
      BY <2>8, EmptySeq
    <3>2. 1 \in 1 .. Len(s) + Len(t) /\ 1 <= Len(s)
      BY <3>1
    <3> QED
      BY <3>2, ConcatProperties
  <2> QED
    BY <2>6, <2>7, <2>8, <2>9, Zenon DEF Starts
<1> QED
  BY <1>2, <1>3

\* From every place, stitching the runs' texts between the clean strings gives the text of what is left.
LEMMA StitchGoes ==
    ASSUME NEW ids \in Seq(Present), NEW from \in 1 .. Len(ids), NEW texts, texts = Mapped(Texted, Runs(ids, from)),
           NEW k \in from .. Len(ids)
    PROVE  Goes(ids, from, texts, k)
<1>1. PICK n \in Nat : n = Len(ids) /\ from \in 1 .. n /\ k \in from .. n /\ k \in 1 .. n
  OBVIOUS
<1>2. PICK id \in Present : id = ids[k]
  BY <1>1
<1>3. CASE ~Dirty(id)
  <2>1. CleanToken(id) /\ Onto(ids, k) = k + 1 /\ Piece(ids, from, texts, k) = TextOf(id)
    BY <1>2, <1>3, CleanOrDirty DEF Onto, Piece
  <2>2. BytesOf(SubSeq(ids, k, k + 1 - 1)) = TokenBytes(id)
    BY <1>1, <1>2, TailsOne
  <2>3. Piece(ids, from, texts, k) \in Chars /\ Whole(BytesOf(SubSeq(ids, k, k + 1 - 1)))
        /\ Piece(ids, from, texts, k) = Lossy(BytesOf(SubSeq(ids, k, k + 1 - 1)))
    BY <2>1, <2>2, Zenon DEF CleanToken
  <2>4. Seam(ids, from, k + 1)
    <3>1. k + 1 - 1 = k
      BY <1>1
    <3>2. PICK m : m = k + 1 /\ m - 1 = k
      BY <3>1
    <3>3. ~Dirty(ids[m - 1])
      BY <1>2, <1>3, <3>2
    <3>4. Seam(ids, from, m)
      BY <3>3, Zenon DEF Seam, StartsRun
    <3> QED
      BY <3>2, <3>4
  <2>5. k + 1 \in k + 1 .. Len(ids) + 1
    BY <1>1
  <2>6. PICK m : m = k + 1
    OBVIOUS
  <2>7. /\ Onto(ids, k) = m /\ m \in k + 1 .. Len(ids) + 1 /\ Seam(ids, from, m)
        /\ Piece(ids, from, texts, k) \in Chars /\ Whole(BytesOf(SubSeq(ids, k, m - 1)))
        /\ Piece(ids, from, texts, k) = Lossy(BytesOf(SubSeq(ids, k, m - 1)))
    BY <2>1, <2>3, <2>4, <2>5, <2>6
  <2> QED
    BY <2>7, Zenon DEF Goes
<1>4. CASE Dirty(id)
  <2>1. IsRun(ids, k, RunEnd(ids, k))
    BY <1>1, <1>2, <1>4, RunEnds
  <2>2. PICK e : e = RunEnd(ids, k) /\ e \in k .. n /\ (e < n => ~Dirty(ids[e + 1]))
    BY <1>1, <2>1, Zenon DEF IsRun
  <2>3. PICK m : m = e + 1
    OBVIOUS
  <2>4. m \in k + 1 .. n + 1 /\ m - 1 = e /\ m \in k .. n + 1 /\ m \in 1 .. n + 1 /\ (m <= n => e < n)
    BY <1>1, <2>2, <2>3
  <2>5. Onto(ids, k) = m /\ Piece(ids, from, texts, k) = texts[RunNumber(ids, from, k)]
    BY <1>2, <1>4, <2>2, <2>3, Zenon DEF Onto, Piece
  <2>6. m <= n => ~Dirty(ids[m])
    BY <2>2, <2>3, <2>4
  <2>7. Seam(ids, from, m) /\ Starts(BytesOf(Remaining(ids, m)))
    <3>1. Starts(BytesOf(Remaining(ids, m)))
      BY <1>1, <2>4, <2>6, StartsClean
    <3> QED
      BY <1>1, <2>6, <3>1, Zenon DEF Seam
  <2>8. PICK r : r = RunNumber(ids, from, k) /\ r \in 1 .. RunNumber(ids, from, Len(ids))
    <3>1. RunNumber(ids, from, k) \in 1 .. RunNumber(ids, from, Len(ids))
      BY <1>1, <1>2, <1>4, InRun
    <3> QED
      BY <3>1
  <2>9. PICK runs \in Seq(Seq(Present)) : runs = Runs(ids, from) /\ r \in 1 .. Len(runs)
    <3>1. Runs(ids, from) \in Seq(Seq(Present)) /\ Len(Runs(ids, from)) = RunNumber(ids, from, Len(ids))
      BY RunsAre
    <3> QED
      BY <2>8, <3>1
  <2>10. texts[r] = RunText(runs[r]) /\ runs[r] \in Seq(Present) /\ texts[r] \in Chars
    <3>1. PICK R : R = Seq(Present) /\ Texted \in [R -> Chars] /\ runs \in Seq(R) /\ runs[r] \in R
      BY <2>9, TextedRuns
    <3>2. MapsTo(Chars, Texted, runs)
      BY <3>1, Mapping
    <3>3. texts[r] = Texted[runs[r]]
      BY <2>9, <3>2, Zenon DEF MapsTo
    <3>4. Texted[runs[r]] = RunText(runs[r]) /\ RunText(runs[r]) \in Chars
      BY <3>1, TextedRuns, RunTexts
    <3> QED
      BY <3>1, <3>3, <3>4
  <2>11. StartsRun(ids, from, k) => runs[r] = SubSeq(ids, k, m - 1)
    <3>1. StartsRun(ids, from, k) => Runs(ids, from)[RunNumber(ids, from, k)] = RunAt(ids, k)
      BY RunsAre
    <3>2. RunAt(ids, k) = SubSeq(ids, k, m - 1)
      BY <2>2, <2>4, Zenon DEF RunAt
    <3> QED
      BY <2>8, <2>9, <3>1, <3>2, Zenon
  <2>12. Seam(ids, from, k) => StartsRun(ids, from, k)
    <3>1. k <= Len(ids)
      BY <1>1
    <3> QED
      BY <1>2, <1>4, <3>1, Zenon DEF Seam
  <2>13. Seam(ids, from, k) => Piece(ids, from, texts, k) = Lossy(BytesOf(SubSeq(ids, k, m - 1)))
    BY <2>5, <2>8, <2>10, <2>11, <2>12, Zenon DEF RunText
  <2> QED
    BY <1>1, <2>4, <2>5, <2>7, <2>8, <2>10, <2>13, Zenon DEF Goes
<1> QED
  BY <1>3, <1>4

\* The text that is stitched is the one of the bytes of all ids from there on.
THEOREM Stitches ==
    ASSUME NEW ids \in Seq(Present), NEW from \in 1 .. Len(ids), NEW texts, texts = Mapped(Texted, Runs(ids, from))
    PROVE  Stitch(ids, from, texts) = Lossy(BytesOf(Remaining(ids, from)))
<1>1. PICK n \in Nat : n = Len(ids) /\ from \in 1 .. n /\ from \in Nat
  OBVIOUS
<1>2. \A k \in from .. n : Goes(ids, from, texts, k)
  BY <1>1, StitchGoes
<1> DEFINE Texts(h) == h = [k \in from .. Len(ids) + 1 |->
                IF k = Len(ids) + 1 THEN <<>>
                ELSE IF Dirty(ids[k])
                THEN texts[RunNumber(ids, from, k)] \o h[RunEnd(ids, k) + 1]
                ELSE TextOf(ids[k]) \o h[k + 1]]
<1>3. PICK hi \in Nat : hi = n + 1
  OBVIOUS
<1>4. PICK next : next = [k \in from .. hi |-> Onto(ids, k)]
  BY Zenon
<1>5. PICK step : step = [k \in from .. hi |-> [x \in Chars |-> IF k > n THEN <<>> ELSE Piece(ids, from, texts, k) \o x]]
  BY Zenon
<1>6. Onward(next, from, hi, n)
  <2>1. ASSUME NEW k \in from .. hi, k <= n PROVE next[k] \in k + 1 .. hi
    <3>1. k \in from .. n
      BY <1>1, <2>1
    <3>2. Onto(ids, k) \in k + 1 .. Len(ids) + 1
      BY <1>2, <3>1, Zenon DEF Goes
    <3> QED
      BY <1>1, <1>3, <1>4, <3>2
  <2> QED
    BY <2>1, Zenon DEF Onward
<1>7. Turns(step, from, hi, Chars)
  <2>1. ASSUME NEW k \in from .. hi PROVE step[k] \in [Chars -> Chars]
    <3>1. \A x \in Chars : (IF k > n THEN <<>> ELSE Piece(ids, from, texts, k) \o x) \in Chars
      <4>1. CASE k > n
        BY <4>1, CharsClosed
      <4>2. CASE ~(k > n)
        <5>1. k \in from .. n
          BY <1>1, <1>3, <4>2
        <5>2. Piece(ids, from, texts, k) \in Chars
          BY <1>2, <5>1, Zenon DEF Goes
        <5> QED
          BY <4>2, <5>2, CharsClosed
      <4> QED
        BY <4>1, <4>2
    <3> QED
      BY <1>5, <3>1
  <2> QED
    BY <2>1, Zenon DEF Turns
<1>8. PICK base \in Chars : base = <<>>
  BY CharsClosed
<1>9. PICK g \in [from .. hi -> Chars] : Returning(g, from, hi, n, base, step, next)
  BY <1>1, <1>6, <1>7, ReturningExists
<1>10. ASSUME NEW k \in from .. n + 1
       PROVE  g[k] = IF k = n + 1 THEN <<>> ELSE Piece(ids, from, texts, k) \o g[Onto(ids, k)]
  <2>1. k \in from .. hi
    BY <1>3
  <2>2. g[k] = IF k > n THEN base ELSE step[k][g[next[k]]]
    BY <1>9, <2>1, Zenon DEF Returning
  <2>3. CASE k = n + 1
    <3>1. k > n
      BY <1>1, <2>3
    <3> QED
      BY <1>8, <2>2, <2>3, <3>1, Zenon
  <2>4. CASE k # n + 1
    <3>1. k \in from .. n /\ ~(k > n) /\ k <= n
      BY <1>1, <2>4
    <3>2. next[k] = Onto(ids, k) /\ next[k] \in k + 1 .. hi
      BY <1>4, <1>6, <2>1, <3>1, Zenon DEF Onward
    <3>3. next[k] \in from .. hi
      BY <1>1, <3>1, <3>2
    <3>4. g[next[k]] \in Chars
      BY <1>9, <3>3
    <3>5. step[k][g[next[k]]] = Piece(ids, from, texts, k) \o g[next[k]]
      BY <1>5, <2>1, <3>1, <3>4, Zenon
    <3> QED
      BY <2>2, <2>4, <3>1, <3>2, <3>5, Zenon
  <2> QED
    BY <2>3, <2>4
<1>11. \A k : Dirty(ids[k]) => Piece(ids, from, texts, k) = texts[RunNumber(ids, from, k)] /\ Onto(ids, k) = RunEnd(ids, k) + 1
  BY Zenon DEF Piece, Onto
<1>12. \A k : ~Dirty(ids[k]) => Piece(ids, from, texts, k) = TextOf(ids[k]) /\ Onto(ids, k) = k + 1
  BY Zenon DEF Piece, Onto
<1>13. Texts(g)
  <2>1. g = [k \in from .. n + 1 |-> g[k]]
    BY <1>3, <1>9
  <2>2. ASSUME NEW k \in from .. n + 1
        PROVE  g[k] = IF k = n + 1 THEN <<>>
                      ELSE IF Dirty(ids[k])
                      THEN texts[RunNumber(ids, from, k)] \o g[RunEnd(ids, k) + 1]
                      ELSE TextOf(ids[k]) \o g[k + 1]
    BY <1>10, <1>11, <1>12, Zenon
  <2> QED
    BY <1>1, <2>1, <2>2, Zenon
<1>14. PICK f : f = CHOOSE h : Texts(h)
  BY Zenon
<1>15. Texts(f)
  BY <1>13, <1>14, Zenon
<1>16. \A k \in from .. n + 1 : f[k] = IF k = n + 1 THEN <<>> ELSE Piece(ids, from, texts, k) \o f[Onto(ids, k)]
  <2>1. ASSUME NEW k \in from .. n + 1
        PROVE  f[k] = IF k = n + 1 THEN <<>>
                      ELSE IF Dirty(ids[k])
                      THEN texts[RunNumber(ids, from, k)] \o f[RunEnd(ids, k) + 1]
                      ELSE TextOf(ids[k]) \o f[k + 1]
    BY <1>1, <1>15, Zenon
  <2> QED
    BY <1>11, <1>12, <2>1, Zenon
<1>17. Stitch(ids, from, texts) = f[from]
  BY <1>14, Zenon DEF Stitch
<1> DEFINE Says(k) == Seam(ids, from, k) => f[k] = Lossy(BytesOf(Remaining(ids, k)))
           T == {k \in from .. hi : Says(k)}
<1>18. ASSUME NEW k \in from .. hi, \A j \in k + 1 .. hi : j \in T PROVE Says(k)
  <2>1. CASE k = n + 1
    <3>1. Remaining(ids, k) = <<>>
      BY <1>1, <2>1 DEF Remaining
    <3>2. f[k] = <<>>
      BY <1>3, <1>16, <2>1
    <3> QED
      BY <3>1, <3>2, BytesFew, NothingRead
  <2>2. CASE k # n + 1
    <3>1. k \in from .. n /\ k \in 1 .. Len(ids) + 1
      BY <1>1, <1>3, <2>2
    <3>2. PICK m : m = Onto(ids, k) /\ m \in k + 1 .. hi
      BY <1>1, <1>2, <1>3, <3>1, Zenon DEF Goes
    <3>3. f[k] = Piece(ids, from, texts, k) \o f[m]
      <4>1. k \in from .. n + 1
        BY <1>3
      <4> QED
        BY <1>16, <2>2, <3>2, <4>1, Zenon
    <3>4. Says(m)
      BY <1>18, <3>2
    <3>5. ASSUME Seam(ids, from, k) PROVE f[k] = Lossy(BytesOf(Remaining(ids, k)))
      <4>1. /\ Seam(ids, from, m) /\ Piece(ids, from, texts, k) = Lossy(BytesOf(SubSeq(ids, k, m - 1)))
            /\ Starts(BytesOf(Remaining(ids, m))) \/ Whole(BytesOf(SubSeq(ids, k, m - 1)))
        BY <1>2, <3>1, <3>2, <3>5, Zenon DEF Goes
      <4>2. m \in k .. Len(ids) + 1
        BY <1>1, <1>3, <3>1, <3>2
      <4>3. /\ BytesOf(SubSeq(ids, k, m - 1)) \in Seq(Byte) /\ BytesOf(Remaining(ids, m)) \in Seq(Byte)
            /\ BytesOf(Remaining(ids, k)) = BytesOf(SubSeq(ids, k, m - 1)) \o BytesOf(Remaining(ids, m))
        BY <3>1, <4>2, TailsAre
      <4>4. Lossy(BytesOf(SubSeq(ids, k, m - 1)) \o BytesOf(Remaining(ids, m)))
            = Lossy(BytesOf(SubSeq(ids, k, m - 1))) \o Lossy(BytesOf(Remaining(ids, m)))
        BY <4>1, <4>3, LossyConcat
      <4> QED
        BY <3>3, <3>4, <4>1, <4>3, <4>4, Zenon
    <3> QED
      BY <3>5
  <2> QED
    BY <2>1, <2>2
<1>19. from .. hi \subseteq T
  <2> HIDE DEF Says
  <2>1. \A k \in from .. hi : (\A j \in k + 1 .. hi : j \in T) => k \in T
    BY <1>18
  <2> HIDE DEF T
  <2> QED
    BY <1>1, <2>1, DownTo
<1>20. Says(from)
  <2>1. from \in from .. hi
    BY <1>1, <1>3
  <2> QED
    BY <1>19, <2>1
<1>21. Seam(ids, from, from)
  BY Zenon DEF Seam, StartsRun
<1> QED
  BY <1>17, <1>20, <1>21

(***************************************************************************)
(* Clean tokens, joined                                                    *)
(***************************************************************************)
CleanTexts == [id \in Cleans |-> TextOf(id)]
\* The strings of the clean tokens as a function.
LEMMA CleanTextsAre ==
    /\ CleanTexts \in [Cleans -> Chars]
    /\ \A id \in Cleans : CleanTexts[id] = TextOf(id) /\ CleanToken(id) /\ id \in Present
<1>1. \A id \in Cleans : CleanToken(id) /\ id \in Present
  BY CleanTokens DEF Cleans
<1>2. \A id \in Cleans : TextOf(id) \in Chars
  BY <1>1, Zenon DEF CleanToken
<1> QED
  BY <1>1, <1>2 DEF CleanTexts

\* The strings of clean tokens joined are the text of their bytes.
JoinsClean(s) == FlattenSeq(Mapped(CleanTexts, s)) = Lossy(BytesOf(s)) /\ Whole(BytesOf(s))
\* Joining the strings of clean tokens gives their text.
LEMMA CleanJoins ==
    ASSUME NEW ids \in Seq(Cleans)
    PROVE  JoinsClean(ids)
<1> DEFINE T == {s \in Seq(Cleans) : JoinsClean(s)}
<1>1. <<>> \in T
  <2>1. Mapped(CleanTexts, <<>>) = <<>>
    BY CleanTextsAre, MappingFew
  <2>2. JoinsClean(<<>>)
    BY <2>1, FlattenEmpty, BytesFew, NothingRead DEF JoinsClean
  <2> QED
    BY <2>2, EmptySeq
<1>2. ASSUME NEW s \in Seq(Cleans), NEW x \in Cleans, s \in T PROVE Append(s, x) \in T
  <2>1. PICK t \in Seq(Cleans) : t = Append(s, x)
    BY AppendProperties, Zenon
  <2>2. t = s \o <<x>> /\ <<x>> \in Seq(Cleans)
    <3>1. Append(s, x) = s \o <<x>>
      BY AppendIsConcat
    <3> QED
      BY <2>1, <3>1
  <2>3. Cleans \subseteq Present
    BY DEF Cleans
  <2>4. s \in Seq(Present) /\ <<x>> \in Seq(Present) /\ x \in Present
    BY <2>2, <2>3, SeqMonotonic
  <2>5. BytesOf(t) = BytesOf(s) \o TokenBytes(x) /\ BytesOf(s) \in Seq(Byte)
    <3>1. BytesOf(s \o <<x>>) = BytesOf(s) \o BytesOf(<<x>>)
      BY <2>4, BytesConcat
    <3>2. BytesOf(<<x>>) = TokenBytes(x) /\ BytesOf(s) \in Seq(Byte)
      BY <2>4, BytesFew, BytesAre
    <3> QED
      BY <2>2, <3>1, <3>2
  <2>6. TokenBytes(x) \in Seq(Byte) /\ Whole(TokenBytes(x)) /\ Starts(TokenBytes(x)) /\ TextOf(x) = Lossy(TokenBytes(x))
        /\ TextOf(x) \in Chars
    BY CleanTextsAre, Zenon DEF CleanToken
  <2>7. Lossy(BytesOf(s) \o TokenBytes(x)) = Lossy(BytesOf(s)) \o Lossy(TokenBytes(x))
    BY <2>5, <2>6, LossyConcat
  <2>8. JoinsClean(s)
    BY <1>2
  <2>9. Whole(BytesOf(s) \o TokenBytes(x))
    BY <2>5, <2>6, <2>8, WholeConcat DEF JoinsClean
  <2>10. FlattenSeq(Mapped(CleanTexts, t)) = FlattenSeq(Mapped(CleanTexts, s)) \o TextOf(x)
    <3>1. MapsPieces(CleanTexts, s, <<x>>)
      BY <2>2, CleanTextsAre, MappingConcat
    <3>2. Mapped(CleanTexts, <<x>>) = <<CleanTexts[x]>>
      BY CleanTextsAre, MappingFew
    <3>3. MapsTo(Chars, CleanTexts, s)
      BY CleanTextsAre, Mapping
    <3>4. PICK m \in Seq(Chars) : m = Mapped(CleanTexts, s)
      BY <3>3, Zenon DEF MapsTo
    <3>5. CleanTexts[x] = TextOf(x)
      BY CleanTextsAre
    <3>6. Mapped(CleanTexts, t) = m \o <<TextOf(x)>>
      BY <2>2, <3>1, <3>2, <3>4, <3>5, Zenon DEF MapsPieces
    <3>7. m \o <<TextOf(x)>> = Append(m, TextOf(x))
      <4>1. Append(m, TextOf(x)) = m \o <<TextOf(x)>>
        BY <2>6, AppendIsConcat
      <4> QED
        BY <4>1
    <3>8. FlattenSeq(Append(m, TextOf(x))) = FlattenSeq(m) \o TextOf(x)
      <4>1. PICK B : B = Seq(Byte) /\ Chars = Seq(B)
        BY DEF Chars
      <4>2. m \in Seq(Seq(B)) /\ TextOf(x) \in Seq(B)
        BY <2>6, <4>1
      <4> QED
        BY <4>2, FlattenAppend
    <3> QED
      BY <3>4, <3>6, <3>7, <3>8
  <2>11. JoinsClean(t)
    BY <2>5, <2>6, <2>7, <2>8, <2>9, <2>10, Zenon DEF JoinsClean
  <2> QED
    BY <2>1, <2>11
<1>3. Seq(Cleans) \subseteq T
  <2>1. \A s \in Seq(Cleans), e \in Cleans : s \in T => Append(s, e) \in T
    BY <1>2, Zenon
  <2> HIDE DEF T
  <2> QED
    BY <1>1, <2>1, SeqInduction
<1> QED
  BY <1>3

\* The text before the first id without a string.
Before(ids, miss) == SubSeq(ids, 1, miss - 1)
PrefixIs(ids, miss) ==
    /\ Before(ids, miss) \in Seq(Cleans) /\ BytesOf(Before(ids, miss)) \in Seq(Byte) /\ Whole(BytesOf(Before(ids, miss)))
    /\ Prefix(ids, miss) = Lossy(BytesOf(Before(ids, miss))) /\ Prefix(ids, miss) \in Chars
\* So does joining the strings before the first miss.
LEMMA CleanPrefixes ==
    ASSUME NEW S, NEW ids \in Seq(S), NEW miss \in 1 .. Len(ids) + 1, \A k \in 1 .. miss - 1 : ids[k] \in Cleans
    PROVE  PrefixIs(ids, miss)
<1>1. PICK n \in Nat : n = Len(ids) /\ miss \in 1 .. n + 1 /\ miss \in Nat
  OBVIOUS
<1>2. PICK m \in 0 .. n : m = miss - 1
  BY <1>1
<1>3. Part(S, ids, 1, m)
  <2>1. 1 \in 1 .. Len(ids) + 1 /\ m \in 0 .. Len(ids) /\ 1 <= m + 1
    BY <1>1
  <2> QED
    BY <2>1, Parts
<1>4. PICK s \in Seq(S) : s = SubSeq(ids, 1, m) /\ Len(s) = m + 1 - 1 /\ \A x \in 1 .. m + 1 - 1 : s[x] = ids[1 + x - 1]
  BY <1>3, Zenon DEF Part
<1>5. Len(s) = m /\ \A x \in 1 .. m : s[x] = ids[x]
  <2>1. m + 1 - 1 = m /\ \A x \in 1 .. m : 1 + x - 1 = x
    BY <1>1
  <2> QED
    BY <1>4, <2>1
<1>6. s \in Seq(Cleans)
  <2>1. s = [x \in 1 .. m |-> s[x]]
    BY <1>5
  <2>2. \A x \in 1 .. m : s[x] \in Cleans
    BY <1>2, <1>5
  <2>3. [x \in 1 .. m |-> s[x]] \in Seq(Cleans)
    BY <1>1, <2>2, IsASeq
  <2> QED
    BY <2>1, <2>3
<1>7. s \in Seq(Present) /\ BytesOf(s) \in Seq(Byte)
  <2>1. Cleans \subseteq Present
    BY DEF Cleans
  <2>2. s \in Seq(Present)
    BY <1>6, <2>1, SeqMonotonic
  <2> QED
    BY <2>2, BytesAre
<1>8. JoinsClean(s)
  BY <1>6, CleanJoins
<1>9. [k \in 1 .. miss - 1 |-> TextOf(ids[k])] = Mapped(CleanTexts, s)
  <2>1. DOMAIN s = 1 .. m
    BY <1>5, <1>6
  <2>2. \A k \in 1 .. m : TextOf(ids[k]) = CleanTexts[s[k]]
    <3>1. ASSUME NEW k \in 1 .. m PROVE TextOf(ids[k]) = CleanTexts[s[k]]
      <4>1. s[k] \in Cleans /\ s[k] = ids[k]
        BY <1>5, <1>6
      <4>2. CleanTexts[s[k]] = TextOf(s[k])
        BY <4>1, CleanTextsAre
      <4> QED
        BY <4>1, <4>2
    <3> QED
      BY <3>1, Zenon
  <2>3. [k \in 1 .. m |-> TextOf(ids[k])] = [k \in DOMAIN s |-> CleanTexts[s[k]]]
    BY <2>1, <2>2, Zenon
  <2> QED
    BY <1>2, <2>3, Zenon DEF Mapped
<1>10. Prefix(ids, miss) = Lossy(BytesOf(s))
  BY <1>8, <1>9, Zenon DEF Prefix, JoinsClean
<1>11. Lossy(BytesOf(s)) \in Chars
  BY <1>7, LossyReads
<1>12. Before(ids, miss) = s
  BY <1>2, <1>4, Zenon DEF Before
<1>13. Whole(BytesOf(s)) /\ Prefix(ids, miss) \in Chars
  BY <1>8, <1>10, <1>11 DEF JoinsClean
<1> QED
  <2>1. /\ Before(ids, miss) \in Seq(Cleans) /\ BytesOf(Before(ids, miss)) \in Seq(Byte) /\ Whole(BytesOf(Before(ids, miss)))
        /\ Prefix(ids, miss) = Lossy(BytesOf(Before(ids, miss)))
    BY <1>6, <1>7, <1>10, <1>12, <1>13
  <2>2. Prefix(ids, miss) \in Chars
    BY <1>13
  <2> QED
    BY <2>1, <2>2, Zenon DEF PrefixIs

(***************************************************************************)
(* Runs joined by the separator                                            *)
(***************************************************************************)
\* The separator is a code point of its own.
LEMMA SeparatorIs ==
    /\ Separator \in Seq(Byte) /\ Len(Separator) = 3 /\ Separator # <<>>
    /\ Starts(Separator) /\ Whole(Separator) /\ Lossy(Separator) = <<Separator>>
<1>1. Separator \in Seq(Byte) /\ Len(Separator) = 3 /\ Separator # <<>>
      /\ Separator[1] = "EF" /\ Separator[2] = "BF" /\ Separator[3] = "BF"
  BY Bytes DEF Separator
<1>2. "EF" \in Lead /\ "BF" \in Continuation
  BY DEF Lead, Continuation
<1>3. "EF" \notin Continuation /\ Size("EF") = 3
  BY <1>2, Bytes, Sizes
<1>4. \A k \in 2 .. 3 : k = 2 \/ k = 3
  OBVIOUS
<1>5. CodePoint(Separator)
  BY <1>1, <1>2, <1>3, <1>4, Zenon DEF CodePoint
<1>6. Lossy(Separator) = <<Separator>> /\ Whole(Separator)
  BY <1>1, <1>5, LossyOfOne
<1> QED
  BY <1>1, <1>3, <1>6 DEF Starts

\* Where its bytes stand, includes finds them.
Has(s) == \E u, v \in Seq(Byte) : s = (u \o Separator) \o v
\* A separator found in a part is in the whole.
LEMMA HasMore ==
    ASSUME NEW s \in Seq(Byte), Has(s), NEW t \in Seq(Byte)
    PROVE  Has(s \o t)
<1>1. PICK d, e \in Seq(Byte) : s = (d \o Separator) \o e
  BY Zenon DEF Has
<1>2. PICK g \in Seq(Byte) : g = d \o Separator
  BY SeparatorIs, ConcatProperties, Zenon
<1>3. PICK f \in Seq(Byte) : f = e \o t
  BY ConcatProperties, Zenon
<1>4. (g \o e) \o t = g \o (e \o t)
  BY ConcatAssociative, SMTT(30)
<1>5. s \o t = (d \o Separator) \o f
  BY <1>1, <1>2, <1>3, <1>4, Zenon
<1> QED
  BY <1>3, <1>5, Zenon DEF Has

\* Finding the separator's bytes is what the code's includes tells.
LEMMA HasIncludes ==
    ASSUME NEW s \in Seq(Byte), Has(s)
    PROVE  Includes(s, Separator)
<1>1. PICK u, v \in Seq(Byte) : s = (u \o Separator) \o v
  BY Zenon DEF Has
<1>2. PICK w \in Seq(Byte) : w = Separator /\ Len(w) = 3
  BY SeparatorIs
<1>3. PICK a, b \in Nat : a = Len(u) /\ b = Len(v)
  OBVIOUS
<1>4. PICK t \in Seq(Byte) : t = u \o w
  BY ConcatProperties, Zenon
<1>5. Len(t) = a + 3 /\ \A x \in 1 .. a + 3 : t[x] = IF x <= a THEN u[x] ELSE w[x - a]
  <2>1. Len(t) = Len(u) + Len(w) /\ \A x \in 1 .. Len(u) + Len(w) : t[x] = IF x <= Len(u) THEN u[x] ELSE w[x - Len(u)]
    BY <1>4, ConcatProperties, Zenon
  <2> QED
    BY <1>2, <1>3, <2>1
<1>6. s = t \o v
  BY <1>1, <1>2, <1>4
<1>7. Len(s) = a + 3 + b /\ \A x \in 1 .. a + 3 : s[x] = t[x]
  <2>1. Len(s) = Len(t) + Len(v) /\ \A x \in 1 .. Len(t) + Len(v) : s[x] = IF x <= Len(t) THEN t[x] ELSE v[x - Len(t)]
    BY <1>6, ConcatProperties, Zenon
  <2>2. Len(t) + Len(v) = a + 3 + b /\ \A x \in 1 .. a + 3 : x \in 1 .. a + 3 + b /\ x <= Len(t)
    BY <1>3, <1>5
  <2> QED
    BY <2>1, <2>2
<1>8. PICK i \in Nat : i = a + 1
  BY <1>3
<1>9. i \in 1 .. Len(s) - 3 + 1 /\ i \in 1 .. Len(s) + 1 /\ i + 3 - 1 \in 0 .. Len(s) /\ i <= i + 3 - 1 + 1 /\ i + 3 - 1 + 1 - i = 3
  BY <1>3, <1>7, <1>8
<1>10. PICK k : k = i + 3 - 1
  OBVIOUS
<1>11. Part(Byte, s, i, k)
  BY <1>9, <1>10, Parts
<1>12. SubSeq(s, i, k) \in Seq(Byte) /\ Len(SubSeq(s, i, k)) = k + 1 - i /\ \A x \in 1 .. k + 1 - i : SubSeq(s, i, k)[x] = s[i + x - 1]
  BY <1>11, Zenon DEF Part
<1>13. PICK p \in Seq(Byte) : p = SubSeq(s, i, k)
  BY <1>12, Zenon
<1>14. Len(p) = 3 /\ \A x \in 1 .. 3 : p[x] = s[i + x - 1]
  <2>1. k + 1 - i = 3
    BY <1>9, <1>10
  <2> QED
    BY <1>12, <1>13, <2>1, Zenon
<1>15. \A x \in 1 .. Len(p) : p[x] = w[x]
  <2>1. ASSUME NEW x \in 1 .. Len(p) PROVE p[x] = w[x]
    <3>1. x \in 1 .. 3 /\ i + x - 1 \in 1 .. a + 3 /\ ~(i + x - 1 <= a) /\ i + x - 1 - a = x
      BY <1>3, <1>8, <1>14, <2>1
    <3>2. PICK y : y = i + x - 1
      OBVIOUS
    <3>3. p[x] = s[y]
      BY <1>14, <3>1, <3>2, Zenon
    <3>4. s[y] = t[y]
      BY <1>7, <3>1, <3>2, Zenon
    <3>5. t[y] = w[y - a] /\ y - a = x
      <4>1. y \in 1 .. a + 3 /\ ~(y <= a) /\ y - a = x
        BY <3>1, <3>2
      <4> QED
        BY <1>5, <4>1, Zenon
    <3> QED
      BY <3>3, <3>4, <3>5
  <2> QED
    BY <2>1, Zenon
<1>16. p = w
  BY <1>2, <1>14, <1>15, SeqEqual, Zenon
<1>17. SubSeq(s, i, i + Len(Separator) - 1) = Separator /\ i \in 1 .. Len(s) - Len(Separator) + 1
  BY <1>2, <1>9, <1>10, <1>13, <1>16
<1> QED
  BY <1>17, Zenon DEF Includes

\* A reader makes a separator of the bytes of one only.
Free(text) == text \in Seq(Seq(Byte) \ {Separator})
Tracks(s, st) ==
    /\ Has(s) \/ Free(st.text)
    /\ \E u \in Seq(Byte) : s = u \o st.pending
\* The reader writes the separator only for its bytes.
LEMMA ReadsTrack ==
    ASSUME NEW s \in Seq(Byte)
    PROVE  Tracks(s, Reads(Since(<<>>), s))
<1>1. PICK start \in Reading : start = Since(<<>>) /\ start.text = <<>> /\ start.pending = <<>>
  <2>1. <<>> \in Chars /\ <<>> \in Partial
    BY CharsClosed DEF Partial
  <2> QED
    BY <2>1, Readings
<1> DEFINE T == {t \in Seq(Byte) : Tracks(t, Reads(start, t))}
<1>2. <<>> \in T
  <2>1. <<>> \in Seq(Byte) /\ <<>> \in Seq(Seq(Byte) \ {Separator}) /\ <<>> = <<>> \o <<>>
    BY EmptySeq
  <2>2. Reads(start, <<>>) = start
    BY ReadsBytes
  <2>3. Tracks(<<>>, start)
    BY <1>1, <2>1, Zenon DEF Tracks, Free
  <2> QED
    BY <2>1, <2>2, <2>3
<1>3. ASSUME NEW t \in Seq(Byte), NEW b \in Byte, t \in T PROVE Append(t, b) \in T
  <2>1. PICK x \in Chars, p \in Partial : Reads(start, t) = After(x, p)
    <3>1. Reads(start, t) \in Reading
      BY ReadsBytes
    <3> QED
      BY <3>1, Readings
  <2>2. After(x, p).text = x /\ After(x, p).pending = p
    BY Readings
  <2>3. PICK r \in Seq(Byte) : r = Append(t, b)
    BY AppendProperties, Zenon
  <2>4. Reads(start, r) = After(x \o Emit(p, b), Rest(p, b))
    <3>1. Reads(start, Append(t, b)) = LossySteps[b][Reads(start, t)]
      BY ReadsBytes
    <3>2. LossySteps[b][After(x, p)] = After(x \o Emit(p, b), Rest(p, b))
      BY LossyStepsAre
    <3> QED
      BY <2>1, <2>3, <3>1, <3>2
  <2>5. Tracks(t, After(x, p))
    BY <1>3, <2>1
  <2>6. PICK u \in Seq(Byte) : t = u \o p
    BY <2>2, <2>5 DEF Tracks
  <2>7. Emit(p, b) \in Chars /\ Rest(p, b) \in Partial /\ p \in Seq(Byte) /\ Rest(p, b) \in Seq(Byte) /\ <<b>> \in Seq(Byte)
    <3>1. Emit(p, b) \in Chars /\ Rest(p, b) \in Partial /\ p \in Seq(Byte) /\ <<b>> \in Seq(Byte)
      BY Partials
    <3> QED
      BY <3>1, Partials
  <2>8. PICK y \in Chars : y = x \o Emit(p, b)
    BY <2>7, CharsClosed
  <2>9. After(y, Rest(p, b)).text = y /\ After(y, Rest(p, b)).pending = Rest(p, b)
    BY <2>7, Readings
  <2>10. r = t \o <<b>>
    <3>1. Append(t, b) = t \o <<b>>
      BY AppendIsConcat
    <3> QED
      BY <2>3, <3>1
  <2>11. Has(t) => Has(r)
    <3>1. Has(t) => Has(t \o <<b>>)
      BY <2>7, HasMore
    <3> QED
      BY <2>10, <3>1
  <2>12. \E v \in Seq(Byte) : r = v \o Rest(p, b)
    <3>1. CASE Rest(p, b) = <<>>
      <4>1. r = r \o <<>>
        BY ConcatEmptySeq
      <4> QED
        BY <3>1, <4>1
    <3>2. CASE Rest(p, b) = <<b>>
      BY <2>10, <3>2
    <3>3. CASE Rest(p, b) = Append(p, b)
      <4>1. Append(p, b) = p \o <<b>>
        BY <2>7, AppendIsConcat, Zenon
      <4>2. (u \o p) \o <<b>> = u \o (p \o <<b>>)
        BY <2>7, ConcatAssociative, SMTT(30)
      <4>3. r = u \o Rest(p, b)
        BY <2>6, <2>10, <3>3, <4>1, <4>2
      <4> QED
        BY <4>3
    <3>4. Rest(p, b) = <<>> \/ Rest(p, b) = <<b>> \/ Rest(p, b) = Append(p, b)
      BY Zenon DEF Rest
    <3> QED
      BY <3>1, <3>2, <3>3, <3>4
  <2>13. Has(r) \/ Free(Emit(p, b))
    <3>1. PICK C : C = Seq(Byte) \ {Separator}
      OBVIOUS
    <3>2. Replacement \in C /\ <<b>> \in C /\ <<>> \in Seq(C)
      <4>1. <<>> \in Seq(Byte) /\ Separator # <<>>
        BY SeparatorIs, EmptySeq
      <4>2. Len(<<b>>) = 1 /\ Len(Separator) = 3
        BY SeparatorIs
      <4>3. <<b>> # Separator
        BY <4>2
      <4>4. <<>> \in Seq(C)
        BY EmptySeq
      <4> QED
        BY <2>7, <3>1, <4>1, <4>3, <4>4 DEF Replacement
    <3>3. \A c \in C : <<c>> \in Seq(C)
      OBVIOUS
    <3>4. Flush(p) \in Seq(C)
      BY <3>2, <3>3 DEF Flush
    <3>5. Append(Flush(p), Replacement) \in Seq(C) /\ Append(Flush(p), <<b>>) \in Seq(C)
      BY <3>2, <3>4, AppendProperties
    <3>6. CASE Append(p, b) = Separator
      <4>1. p \o <<b>> = Separator
        <5>1. Append(p, b) = p \o <<b>>
          BY <2>7, AppendIsConcat, Zenon
        <5> QED
          BY <3>6, <5>1
      <4>2. (u \o p) \o <<b>> = u \o (p \o <<b>>)
        BY <2>7, ConcatAssociative, SMTT(30)
      <4>3. r = u \o Separator
        BY <2>6, <2>10, <4>1, <4>2
      <4>4. u \o Separator \in Seq(Byte)
        BY SeparatorIs, ConcatProperties, Zenon
      <4>5. (u \o Separator) \o <<>> = u \o Separator /\ <<>> \in Seq(Byte)
        BY <4>4, ConcatEmptySeq, EmptySeq
      <4> QED
        BY <4>3, <4>5, Zenon DEF Has
    <3>7. CASE Append(p, b) # Separator
      <4>1. Append(p, b) \in Seq(Byte)
        BY <2>7, AppendProperties
      <4>2. <<Append(p, b)>> \in Seq(C)
        BY <3>1, <3>3, <3>7, <4>1
      <4>3. Emit(p, b) = <<Append(p, b)>> \/ Emit(p, b) = <<>> \/ Emit(p, b) = Flush(p)
            \/ Emit(p, b) = Append(Flush(p), Replacement) \/ Emit(p, b) = Append(Flush(p), <<b>>)
        BY Zenon DEF Emit
      <4> QED
        BY <3>1, <3>2, <3>4, <3>5, <4>2, <4>3, Zenon DEF Free
    <3> QED
      BY <3>6, <3>7
  <2>14. Has(r) \/ Free(y)
    <3>1. Has(t) \/ Free(x)
      BY <2>2, <2>5 DEF Tracks
    <3>2. ASSUME Free(x), Free(Emit(p, b)) PROVE Free(y)
      <4>1. PICK C : C = Seq(Byte) \ {Separator} /\ x \in Seq(C) /\ Emit(p, b) \in Seq(C)
        BY <3>2 DEF Free
      <4>2. x \o Emit(p, b) \in Seq(C)
        BY <4>1, ConcatProperties, Zenon
      <4> QED
        BY <2>8, <4>1, <4>2 DEF Free
    <3> QED
      BY <2>11, <2>13, <3>1, <3>2
  <2>15. Tracks(r, After(y, Rest(p, b)))
    BY <2>9, <2>12, <2>14 DEF Tracks
  <2> QED
    BY <2>3, <2>4, <2>8, <2>15
<1>4. Seq(Byte) \subseteq T
  <2>1. \A t \in Seq(Byte), b \in Byte : t \in T => Append(t, b) \in T
    BY <1>3, Zenon
  <2> HIDE DEF T
  <2> QED
    BY <1>2, <2>1, SeqInduction
<1> QED
  BY <1>1, <1>4

\* Bytes without a separator give a text without one.
LEMMA LossyFree ==
    ASSUME NEW s \in Seq(Byte), ~Includes(s, Separator)
    PROVE  Free(Lossy(s))
<1>1. Tracks(s, Reads(Since(<<>>), s))
  BY ReadsTrack
<1>2. ~Has(s)
  BY HasIncludes
<1>3. PICK C : C = Seq(Byte) \ {Separator} /\ Reads(Since(<<>>), s).text \in Seq(C)
  BY <1>1, <1>2 DEF Tracks, Free
<1>4. Replacement \in C
  <2>1. <<>> \in Seq(Byte)
    BY EmptySeq
  <2> QED
    BY <1>3, <2>1, SeparatorIs DEF Replacement
<1>5. Flush(Reads(Since(<<>>), s).pending) \in Seq(C)
  <2>1. <<>> \in Seq(C) /\ <<Replacement>> \in Seq(C)
    BY <1>4, EmptySeq
  <2> QED
    BY <2>1 DEF Flush
<1>6. Ends(<<>>, s) \in Seq(C)
  BY <1>3, <1>5, ConcatProperties, Zenon DEF Ends
<1>7. Lossy(s) = Ends(<<>>, s)
  BY LossyReads
<1> QED
  BY <1>3, <1>6, <1>7 DEF Free

(***************************************************************************)
(* Split and Join                                                          *)
(***************************************************************************)
Pieces == Seq(Chars) \ {<<>>}
SplitStep(pieces, c) ==
    IF c = Separator THEN Append(pieces, <<>>) ELSE [pieces EXCEPT ![Len(pieces)] = Append(@, c)]
SplitSteps == [c \in Seq(Byte) |-> [pieces \in Pieces |-> SplitStep(pieces, c)]]
SplitOn(pieces, text) == FoldOf(Pieces, SplitSteps, pieces, text)

\* The last piece grows until the next separator.
Grown(A, u) == Append(A, u)
\* Splitting is a step at a time.
LEMMA Growing ==
    ASSUME NEW A \in Seq(Chars), NEW u \in Chars, NEW c \in Seq(Byte)
    PROVE  /\ Grown(A, u) \in Pieces
           /\ c # Separator => SplitStep(Grown(A, u), c) = Grown(A, u \o <<c>>)
           /\ SplitStep(Grown(A, u), Separator) = Grown(Grown(A, u), <<>>)
<1>1. PICK g \in Seq(Chars) : g = Append(A, u)
  BY AppendProperties, Zenon
<1>2. PICK n \in Nat : n = Len(A) /\ Len(g) = n + 1 /\ g[n + 1] = u /\ \A i \in 1 .. n : g[i] = A[i]
  BY <1>1, AppendProperties
<1>3. g \in Pieces
  <2>1. Len(<<>>) = 0
    OBVIOUS
  <2>2. g # <<>>
    BY <1>2, <2>1
  <2> QED
    BY <2>2 DEF Pieces
<1>4. SplitStep(g, Separator) = Append(g, <<>>)
  BY Zenon DEF SplitStep
<1>5. ASSUME c # Separator PROVE SplitStep(g, c) = Grown(A, u \o <<c>>)
  <2>1. PICK v \in Chars : v = Append(u, c) /\ v = u \o <<c>>
    BY CharsClosed
  <2>2. SplitStep(g, c) = [g EXCEPT ![n + 1] = v]
    BY <1>2, <1>5, <2>1, Zenon DEF SplitStep
  <2>3. n + 1 \in 1 .. Len(g) /\ n \in Nat
    BY <1>2
  <2>4. PICK h \in Seq(Chars) : /\ h = [g EXCEPT ![n + 1] = v] /\ Len(h) = Len(g)
                               /\ \A j \in 1 .. Len(g) : h[j] = IF j = n + 1 THEN v ELSE g[j]
    <3>1. PICK m \in 1 .. Len(g) : m = n + 1
      BY <2>3
    <3>2. /\ [g EXCEPT ![m] = v] \in Seq(Chars) /\ Len([g EXCEPT ![m] = v]) = Len(g)
          /\ \A j \in 1 .. Len(g) : [g EXCEPT ![m] = v][j] = IF j = m THEN v ELSE g[j]
      BY ExceptSeq
    <3> QED
      BY <3>1, <3>2, Zenon
  <2>5. Len(h) = n + 1 /\ h[n + 1] = v /\ \A i \in 1 .. n : h[i] = A[i]
    <3>1. Len(h) = Len(g) /\ \A j \in 1 .. Len(g) : h[j] = IF j = n + 1 THEN v ELSE g[j]
      BY <2>4, Zenon
    <3>2. \A i \in 1 .. n : i \in 1 .. Len(g) /\ i # n + 1
      BY <1>2
    <3> QED
      BY <1>2, <2>3, <3>1, <3>2, Zenon
  <2>6. PICK k \in Seq(Chars) : k = Append(A, v)
    BY AppendProperties, Zenon
  <2>7. Len(k) = n + 1 /\ k[n + 1] = v /\ \A i \in 1 .. n : k[i] = A[i]
    BY <1>2, <2>6, AppendProperties
  <2>8. \A i \in 1 .. Len(h) : i \in 1 .. n \/ i = n + 1
    BY <2>5
  <2>9. \A i \in 1 .. Len(h) : h[i] = k[i]
    BY <2>5, <2>7, <2>8, Zenon
  <2>10. h = k
    BY <2>5, <2>7, <2>9, SeqEqual, Zenon
  <2> QED
    BY <2>1, <2>2, <2>4, <2>6, <2>10, Zenon DEF Grown
<1> QED
  BY <1>1, <1>3, <1>4, <1>5, Zenon DEF Grown

\* Splitting is a fold.
LEMMA SplitStepsAre ==
    /\ Steps(SplitSteps, Seq(Byte), Pieces)
    /\ \A c \in Seq(Byte), ps \in Pieces : SplitSteps[c][ps] = SplitStep(ps, c)
    /\ \A ps \in Pieces : \E A \in Seq(Chars), u \in Chars : ps = Grown(A, u)
<1>1. ASSUME NEW ps \in Pieces PROVE \E A \in Seq(Chars), u \in Chars : ps = Grown(A, u)
  <2>1. ps \in Seq(Chars) /\ ps # <<>>
    BY DEF Pieces
  <2>2. Replaced(Chars, ps, <<>>)
    BY <2>1, Replacing
  <2>3. PICK n \in Nat : n = Len(ps) /\ n # 0
    BY <2>1, EmptySeq
  <2>4. PICK A \in Seq(Chars) : A = Front(ps) /\ Len(A) = n - 1 /\ \A k \in 1 .. n - 1 : A[k] = ps[k]
    BY <2>2, <2>3, Zenon DEF Replaced
  <2>5. PICK u \in Chars : u = ps[n]
    BY <2>1, <2>3
  <2>6. PICK g \in Seq(Chars) : g = Append(A, u)
    BY AppendProperties, Zenon
  <2>7. Len(g) = n /\ g[n] = u /\ \A k \in 1 .. n - 1 : g[k] = A[k]
    <3>1. Len(g) = Len(A) + 1 /\ g[Len(A) + 1] = u /\ \A k \in 1 .. Len(A) : g[k] = A[k]
      BY <2>6, AppendProperties
    <3>2. Len(A) + 1 = n /\ Len(A) = n - 1
      BY <2>3, <2>4
    <3> QED
      BY <3>1, <3>2
  <2>8. \A k \in 1 .. Len(ps) : k = n \/ k \in 1 .. n - 1
    BY <2>3
  <2>9. \A k \in 1 .. Len(ps) : ps[k] = g[k]
    BY <2>4, <2>5, <2>7, <2>8, Zenon
  <2>10. ps = g
    BY <2>1, <2>3, <2>7, <2>9, SeqEqual, Zenon
  <2> QED
    BY <2>6, <2>10, Zenon DEF Grown
<1>2. ASSUME NEW c \in Seq(Byte), NEW ps \in Pieces PROVE SplitStep(ps, c) \in Pieces
  <2>1. PICK A \in Seq(Chars), u \in Chars : ps = Grown(A, u)
    BY <1>1
  <2>2. CASE c = Separator
    <3>1. Grown(A, u) \in Seq(Chars) /\ <<>> \in Chars
      BY AppendProperties, CharsClosed DEF Grown
    <3>2. Grown(Grown(A, u), <<>>) \in Pieces
      BY <2>2, <3>1, Growing
    <3> QED
      BY <2>1, <2>2, <3>2, Growing
  <2>3. CASE c # Separator
    <3>1. SplitStep(ps, c) = Grown(A, u \o <<c>>)
      BY <2>1, <2>3, Growing
    <3>2. u \o <<c>> \in Chars
      BY CharsClosed
    <3> QED
      BY <3>1, <3>2, Growing
  <2> QED
    BY <2>2, <2>3
<1>3. \A c \in Seq(Byte), ps \in Pieces : SplitSteps[c][ps] = SplitStep(ps, c)
  BY Zenon DEF SplitSteps
<1>4. Steps(SplitSteps, Seq(Byte), Pieces)
  <2>1. \A c \in Seq(Byte), ps \in Pieces : SplitStep(ps, c) \in Pieces
    BY <1>2
  <2> QED
    BY <2>1, Zenon DEF Steps, SplitSteps
<1> QED
  BY <1>1, <1>3, <1>4

\* Split is the fold.
LEMMA Splits ==
    ASSUME NEW text \in Chars
    PROVE  Split(text, Separator) = SplitOn(<<<<>>>>, text) /\ <<<<>>>> \in Pieces /\ SplitOn(<<<<>>>>, text) \in Pieces
<1>1. PICK n \in Nat : n = Len(text) /\ DOMAIN text = 1 .. n
  BY DEF Chars
<1>2. PICK C : C = Seq(Byte) /\ text \in Seq(C) /\ Steps(SplitSteps, C, Pieces)
      /\ \A c \in C, ps \in Pieces : SplitSteps[c][ps] = SplitStep(ps, c)
  BY SplitStepsAre DEF Chars
<1>3. <<<<>>>> \in Pieces
  <2>1. <<>> \in Chars /\ <<>> \in Seq(Chars)
    BY CharsClosed, EmptySeq
  <2>2. PICK e \in Chars : e = <<>>
    BY <2>1
  <2>3. <<e>> \in Seq(Chars) /\ Len(<<e>>) = 1
    OBVIOUS
  <2>4. <<e>> # <<>>
    OBVIOUS
  <2> QED
    BY <2>2, <2>3, <2>4 DEF Pieces
<1>4. PICK base \in Pieces : base = <<<<>>>>
  BY <1>3
<1>5. PICK g \in [SUBSET (1 .. Len(text)) -> Pieces] : IndexFold(g, Pieces, SplitSteps, base, text)
  BY <1>2, IndexFoldExists
<1>6. \A r \in SUBSET (1 .. Len(text)) : r # {} => text[Max(r)] \in C /\ r \ {Max(r)} \in SUBSET (1 .. Len(text))
  BY <1>2, IndexFoldExists
<1> DEFINE Folded(h) == h = [r \in SUBSET (1 .. Len(text)) |->
                                IF r = {} THEN <<<<>>>> ELSE SplitStep(h[r \ {Max(r)}], text[Max(r)])]
<1>7. Folded(g)
  <2>1. ASSUME NEW r \in SUBSET (1 .. Len(text))
        PROVE  g[r] = IF r = {} THEN <<<<>>>> ELSE SplitStep(g[r \ {Max(r)}], text[Max(r)])
    <3>1. r # {} => g[r \ {Max(r)}] \in Pieces
      BY <1>6, Zenon
    <3> QED
      BY <1>2, <1>4, <1>5, <1>6, <3>1, Zenon DEF IndexFold
  <2> QED
    BY <2>1, Zenon
<1>8. PICK it : it = CHOOSE h : Folded(h)
  BY Zenon
<1>9. Folded(it)
  <2> HIDE DEF Folded
  <2> QED
    BY <1>7, <1>8, Zenon
<1>10. IndexFold(it, Pieces, SplitSteps, base, text)
  <2>1. ASSUME NEW r \in SUBSET (1 .. Len(text))
        PROVE  /\ r = {} => it[r] = base
               /\ r # {} /\ it[r \ {Max(r)}] \in Pieces => it[r] = SplitSteps[text[Max(r)]][it[r \ {Max(r)}]]
    BY <1>2, <1>4, <1>6, <1>9, ZenonT(60)
  <2> QED
    BY <2>1, Zenon DEF IndexFold
<1>11. it[1 .. Len(text)] = SplitOn(base, text)
  BY <1>2, <1>10, IndexFoldFolds DEF SplitOn
<1>12. Split(text, Separator) = it[DOMAIN text]
  BY <1>1, <1>8, Zenon DEF Split, FoldLeft, MapThenFoldSet, SplitStep
<1>13. SplitOn(base, text) \in Pieces
  BY <1>2, FoldOfStages DEF SplitOn
<1> QED
  BY <1>1, <1>3, <1>4, <1>11, <1>12, <1>13, Zenon

\* Text without a separator goes to the last piece.
LEMMA SplitFree ==
    ASSUME NEW A \in Seq(Chars), NEW u \in Chars, NEW text, Free(text)
    PROVE  SplitOn(Grown(A, u), text) = Grown(A, u \o text) /\ text \in Chars
<1>1. PICK F : F = Seq(Byte) \ {Separator} /\ text \in Seq(F)
  BY DEF Free
<1>2. PICK C : C = Seq(Byte) /\ F \subseteq C /\ Steps(SplitSteps, C, Pieces) /\ Chars = Seq(C)
      /\ \A c \in C, ps \in Pieces : SplitSteps[c][ps] = SplitStep(ps, c)
  BY <1>1, SplitStepsAre DEF Chars
<1>3. PICK start \in Pieces : start = Grown(A, u)
  <2>1. <<>> \in Seq(Byte)
    BY EmptySeq
  <2> QED
    BY <2>1, Growing
<1> DEFINE T == {t \in Seq(F) : SplitOn(start, t) = Grown(A, u \o t)}
<1>4. <<>> \in T
  <2>1. SplitOn(start, <<>>) = start
    BY <1>2, FoldOfEmpty DEF SplitOn
  <2>2. u \o <<>> = u /\ <<>> \in Seq(F)
    BY CharsClosed, EmptySeq
  <2> QED
    BY <1>3, <2>1, <2>2
<1>5. ASSUME NEW t \in Seq(F), NEW c \in F, t \in T PROVE Append(t, c) \in T
  <2>1. PICK r \in Seq(F) : r = Append(t, c)
    BY AppendProperties, Zenon
  <2>2. t \in Seq(C) /\ t \in Chars /\ c \in C /\ c \in Seq(Byte) /\ c # Separator
    <3>1. t \in Seq(C)
      BY <1>2, SeqMonotonic
    <3> QED
      BY <1>1, <1>2, <3>1
  <2>3. SplitOn(start, r) = SplitSteps[c][SplitOn(start, t)]
    BY <1>2, <2>1, <2>2, FoldOfAppend DEF SplitOn
  <2>4. PICK v \in Chars : v = u \o t
    BY <2>2, CharsClosed
  <2>5. SplitOn(start, t) = Grown(A, v)
    BY <1>5, <2>4
  <2>6. SplitSteps[c][Grown(A, v)] = Grown(A, v \o <<c>>)
    <3>1. Grown(A, v) \in Pieces /\ SplitStep(Grown(A, v), c) = Grown(A, v \o <<c>>)
      BY <2>2, Growing
    <3> QED
      BY <1>2, <2>2, <3>1
  <2>7. v \o <<c>> = u \o r
    <3>1. PICK one \in Chars : one = <<c>>
      BY <2>2, CharsClosed
    <3>2. (u \o t) \o one = u \o (t \o one)
      BY <2>2, CharsJoin
    <3>3. Append(t, c) = t \o <<c>>
      BY AppendIsConcat
    <3> QED
      BY <2>1, <2>4, <3>1, <3>2, <3>3
  <2> QED
    BY <2>1, <2>3, <2>5, <2>6, <2>7
<1>6. Seq(F) \subseteq T
  <2>1. \A t \in Seq(F), c \in F : t \in T => Append(t, c) \in T
    BY <1>5, Zenon
  <2> HIDE DEF T
  <2> QED
    BY <1>4, <2>1, SeqInduction
<1>7. text \in T
  BY <1>1, <1>6
<1>8. text \in Chars
  <2>1. text \in Seq(C)
    BY <1>1, <1>2, SeqMonotonic
  <2> QED
    BY <1>2, <2>1
<1> QED
  BY <1>3, <1>7, <1>8

\* A text without separators is one piece, and another one after a separator one piece more.
LEMMA SplitPieces ==
    /\ \A y : Free(y) => Split(y, Separator) = <<y>>
    /\ \A x \in Chars : \A y : Free(y) => Split((x \o <<Separator>>) \o y, Separator) = Append(Split(x, Separator), y)
<1>1. <<>> \in Chars /\ <<>> \in Seq(Chars) /\ <<Separator>> \in Chars /\ Separator \in Seq(Byte)
  BY CharsClosed, EmptySeq, SeparatorIs
<1>2. Append(<<>>, <<>>) = <<<<>>>>
  OBVIOUS
<1>3. ASSUME NEW y, Free(y) PROVE Split(y, Separator) = <<y>>
  <2>1. SplitOn(Grown(<<>>, <<>>), y) = Grown(<<>>, <<>> \o y) /\ y \in Chars
    BY <1>1, <1>3, SplitFree
  <2>2. <<>> \o y = y
    BY <2>1, CharsClosed
  <2>3. Append(<<>>, y) = <<y>>
    BY <2>1
  <2>4. Split(y, Separator) = SplitOn(<<<<>>>>, y)
    BY <2>1, Splits
  <2> QED
    BY <1>2, <2>1, <2>2, <2>3, <2>4, Zenon DEF Grown
<1>4. ASSUME NEW x \in Chars, NEW y, Free(y)
      PROVE  Split((x \o <<Separator>>) \o y, Separator) = Append(Split(x, Separator), y)
  <2>1. PICK C : C = Seq(Byte) /\ Steps(SplitSteps, C, Pieces) /\ Chars = Seq(C)
        /\ \A c \in C, ps \in Pieces : SplitSteps[c][ps] = SplitStep(ps, c)
    BY SplitStepsAre DEF Chars
  <2>2. PICK base \in Pieces : base = <<<<>>>>
    BY Splits, <1>1
  <2>3. y \in Chars
    BY <1>1, <1>4, SplitFree
  <2>4. PICK z \in Chars : z = x \o <<Separator>>
    BY <1>1, CharsClosed
  <2>5. PICK w \in Chars : w = z \o y
    BY <2>3, CharsClosed
  <2>6. PICK ps \in Pieces : ps = SplitOn(base, x) /\ ps = Split(x, Separator)
    BY <2>2, Splits
  <2>7. SplitOn(base, z) = Grown(ps, <<>>)
    <3>1. z = Append(x, Separator)
      BY <1>1, <2>4, CharsClosed
    <3>2. SplitOn(base, Append(x, Separator)) = SplitSteps[Separator][ps]
      <4>1. PICK c \in C : c = Separator
        BY <1>1, <2>1
      <4>2. x \in Seq(C)
        BY <2>1
      <4>3. FoldOf(Pieces, SplitSteps, base, Append(x, c)) = SplitSteps[c][FoldOf(Pieces, SplitSteps, base, x)]
        BY <2>1, <4>2, FoldOfAppend
      <4> QED
        BY <2>6, <4>1, <4>3, Zenon DEF SplitOn
    <3>3. SplitSteps[Separator][ps] = Grown(ps, <<>>)
      BY <1>1, <2>1, Zenon DEF SplitStep, Grown
    <3> QED
      BY <3>1, <3>2, <3>3
  <2>8. SplitOn(base, w) = SplitOn(Grown(ps, <<>>), y)
    <3>1. SplitOn(base, z \o y) = SplitOn(SplitOn(base, z), y)
      BY <2>1, <2>3, FoldOfConcat DEF SplitOn
    <3> QED
      BY <2>5, <2>7, <3>1
  <2>9. SplitOn(Grown(ps, <<>>), y) = Grown(ps, <<>> \o y)
    <3>1. ps \in Seq(Chars)
      BY DEF Pieces
    <3> QED
      BY <1>1, <1>4, <3>1, SplitFree
  <2>10. <<>> \o y = y
    BY <2>3, CharsClosed
  <2>11. Split(w, Separator) = SplitOn(base, w)
    BY <2>2, Splits
  <2> QED
    BY <2>4, <2>5, <2>6, <2>8, <2>9, <2>10, <2>11, Zenon DEF Grown
<1> QED
  BY <1>3, <1>4, Zenon

(***************************************************************************)
(* Runs joined by the separator                                            *)
(***************************************************************************)
\* A function on the first numbers is a sequence.
LEMMA Listed ==
    ASSUME NEW n \in Nat, NEW T, NEW f \in [1 .. n -> T]
    PROVE  f \in Seq(T) /\ Len(f) = n /\ DOMAIN f = 1 .. n
<1>1. [i \in 1 .. n |-> f[i]] \in Seq(T)
  BY IsASeq
<1>2. f = [i \in 1 .. n |-> f[i]]
  OBVIOUS
<1> QED
  BY <1>1, <1>2

JoinStep(parts, joined, i) == joined \o (IF i = 1 THEN <<>> ELSE Separator) \o parts[i]
JoinSteps(parts) == [i \in 1 .. Len(parts) |-> [joined \in Seq(Byte) |-> JoinStep(parts, joined, i)]]

\* Joining with separators is a fold.
LEMMA JoinStepsAre ==
    ASSUME NEW parts \in Seq(Seq(Byte))
    PROVE  /\ Steps(JoinSteps(parts), 1 .. Len(parts), Seq(Byte))
           /\ \A i \in 1 .. Len(parts), joined \in Seq(Byte) :
                 JoinSteps(parts)[i][joined] = JoinStep(parts, joined, i)
<1>1. ASSUME NEW i \in 1 .. Len(parts), NEW joined \in Seq(Byte)
      PROVE  JoinStep(parts, joined, i) \in Seq(Byte)
  <2>1. PICK b \in Seq(Byte) : b = IF i = 1 THEN <<>> ELSE Separator
    BY SeparatorIs, EmptySeq
  <2>2. PICK p \in Seq(Byte) : p = parts[i]
    OBVIOUS
  <2>3. PICK q \in Seq(Byte) : q = joined \o b
    BY ConcatProperties, Zenon
  <2>4. q \o p \in Seq(Byte)
    BY ConcatProperties, Zenon
  <2> QED
    BY <2>1, <2>2, <2>3, <2>4, Zenon DEF JoinStep
<1> QED
  BY <1>1, Zenon DEF Steps, JoinSteps

JoinsUp(f, parts) ==
    /\ f \in [0 .. Len(parts) -> Seq(Byte)] /\ f[0] = <<>>
    /\ \A k \in 1 .. Len(parts) : f[k] = JoinStep(parts, f[k - 1], k)
\* The joined bytes, as a recurrence.
LEMMA Joins ==
    ASSUME NEW parts \in Seq(Seq(Byte))
    PROVE  \E f : JoinsUp(f, parts) /\ Join(parts, Separator) = f[Len(parts)]
<1>1. PICK n \in Nat : n = Len(parts)
  OBVIOUS
<1>2. PICK s : s = [i \in 1 .. n |-> i]
  BY Zenon
<1>3. PICK C : C = 1 .. n /\ s \in Seq(C) /\ Len(s) = n /\ DOMAIN s = 1 .. n /\ \A k \in 1 .. n : s[k] = k
  <2>1. s \in [1 .. n -> 1 .. n]
    BY <1>2
  <2>2. s \in Seq(1 .. n) /\ Len(s) = n /\ DOMAIN s = 1 .. n
    BY <2>1, Listed
  <2> QED
    BY <1>2, <2>2
<1>4. PICK B, step : /\ B = Seq(Byte) /\ step = JoinSteps(parts) /\ Steps(step, C, B)
                     /\ \A i \in C, joined \in B : step[i][joined] = JoinStep(parts, joined, i)
  BY <1>1, <1>3, JoinStepsAre
<1>5. PICK base \in B : base = <<>>
  BY <1>4, EmptySeq
<1>6. s \in Seq(C) /\ Steps(step, C, B)
  BY <1>3, <1>4
<1>7. PICK g \in [SUBSET (1 .. Len(s)) -> B] : IndexFold(g, B, step, base, s)
  BY <1>6, IndexFoldExists
<1>8. \A r \in SUBSET (1 .. Len(s)) : r # {} => s[Max(r)] \in C /\ r \ {Max(r)} \in SUBSET (1 .. Len(s))
  BY <1>6, IndexFoldExists
<1> DEFINE Listing == [i \in 1 .. Len(parts) |-> i]
           Folded(h) == h = [r \in SUBSET (DOMAIN Listing) |->
                                IF r = {} THEN <<>> ELSE JoinStep(parts, h[r \ {Max(r)}], Listing[Max(r)])]
<1>9. Listing = s /\ DOMAIN Listing = 1 .. Len(s)
  BY <1>1, <1>2, <1>3, Zenon
<1>10. Folded(g)
  <2>1. ASSUME NEW r \in SUBSET (1 .. Len(s))
        PROVE  g[r] = IF r = {} THEN <<>> ELSE JoinStep(parts, g[r \ {Max(r)}], s[Max(r)])
    <3>1. r # {} => g[r \ {Max(r)}] \in B
      BY <1>8, Zenon
    <3> QED
      BY <1>4, <1>5, <1>7, <1>8, <3>1, Zenon DEF IndexFold
  <2> HIDE DEF Listing
  <2> QED
    BY <1>9, <2>1, Zenon
<1>11. PICK it : it = CHOOSE h : Folded(h)
  BY Zenon
<1>12. IndexFold(it, B, step, base, s)
  <2>1. Folded(it)
    BY <1>10, <1>11, Zenon
  <2> HIDE DEF Listing
  <2>2. ASSUME NEW r \in SUBSET (1 .. Len(s))
        PROVE  /\ r = {} => it[r] = base
               /\ r # {} /\ it[r \ {Max(r)}] \in B => it[r] = step[s[Max(r)]][it[r \ {Max(r)}]]
    BY <1>4, <1>5, <1>8, <1>9, <2>1, Zenon
  <2> QED
    BY <2>2, Zenon DEF IndexFold
<1>13. it[1 .. Len(s)] = FoldOf(B, step, base, s)
  BY <1>6, <1>12, IndexFoldFolds
<1>14. Join(parts, Separator) = it[1 .. Len(s)]
  <2>1. Join(parts, Separator) = it[DOMAIN Listing]
    BY <1>11, Zenon DEF Join, FoldLeft, MapThenFoldSet, JoinStep
  <2> HIDE DEF Listing
  <2> QED
    BY <1>9, <2>1, Zenon
<1>20. PICK f \in [0 .. Len(s) -> B] : Stages(f, step, base, s) /\ FoldOf(B, step, base, s) = f[Len(s)]
  BY <1>6, FoldOfStages
<1>15. f[0] = <<>> /\ \A k \in 1 .. n : f[k] = step[s[k]][f[k - 1]]
  BY <1>3, <1>5, <1>20, Zenon DEF Stages, Follows
<1>16. \A k \in 1 .. n : k - 1 \in 0 .. n
  OBVIOUS
<1>17. \A k \in 1 .. n : f[k] = JoinStep(parts, f[k - 1], k)
  <2>1. ASSUME NEW k \in 1 .. n PROVE f[k] = JoinStep(parts, f[k - 1], k)
    <3>1. f[k - 1] \in B /\ s[k] = k /\ k \in C
      BY <1>3, <1>16, <1>20
    <3> QED
      BY <1>4, <1>15, <3>1, Zenon
  <2> QED
    BY <2>1
<1>18. JoinsUp(f, parts)
  BY <1>1, <1>3, <1>4, <1>20, <1>15, <1>17, Zenon DEF JoinsUp
<1>19. Join(parts, Separator) = f[Len(parts)]
  BY <1>1, <1>3, <1>13, <1>14, <1>20, Zenon
<1> QED
  BY <1>18, <1>19, Zenon

\* What the separator does to the text.
LEMMA SeparatedText ==
    ASSUME NEW x \in Seq(Byte), NEW p \in Seq(Byte)
    PROVE  Lossy((x \o Separator) \o p) = (Lossy(x) \o <<Separator>>) \o Lossy(p)
<1>1. PICK w \in Seq(Byte) : w = Separator /\ Len(w) = 3 /\ Starts(w) /\ Whole(w) /\ Lossy(w) = <<Separator>> /\ w # <<>>
  BY SeparatorIs
<1>2. PICK t \in Seq(Byte) : t = w \o p
  BY ConcatProperties, Zenon
<1>3. Starts(t)
  <2>1. t[1] = w[1] /\ t # <<>>
    <3>1. Len(t) = Len(w) + Len(p) /\ \A i \in 1 .. Len(w) + Len(p) : t[i] = IF i <= Len(w) THEN w[i] ELSE p[i - Len(w)]
      BY <1>2, ConcatProperties, Zenon
    <3>2. Len(p) \in Nat
      OBVIOUS
    <3>3. Len(t) # 0 /\ 1 \in 1 .. Len(w) + Len(p) /\ 1 <= Len(w)
      BY <1>1, <3>1, <3>2
    <3>4. t[1] = w[1]
      BY <3>1, <3>3, Zenon
    <3> QED
      BY <3>3, <3>4, EmptySeq
  <2> QED
    BY <1>1, <2>1, Zenon DEF Starts
<1>4. (x \o w) \o p = x \o t
  BY <1>2, ConcatAssociative
<1>5. Lossy(x \o t) = Lossy(x) \o Lossy(t)
  BY <1>3, LossyConcat
<1>6. Lossy(t) = Lossy(w) \o Lossy(p)
  BY <1>1, <1>2, LossyConcat
<1>7. PICK X, P, W \in Chars : X = Lossy(x) /\ P = Lossy(p) /\ W = Lossy(w)
  BY LossyReads
<1>8. X \o (W \o P) = (X \o W) \o P
  BY CharsJoin
<1> QED
  BY <1>1, <1>4, <1>5, <1>6, <1>7, <1>8, Zenon

TextsUpTo(parts, k) == [r \in 1 .. k |-> Lossy(parts[r])]
\* The texts of the parts, one part more at a time.
LEMMA TextsGrow ==
    ASSUME NEW parts \in Seq(Seq(Byte)), NEW k \in Nat, k + 1 <= Len(parts)
    PROVE  /\ TextsUpTo(parts, k) \in Seq(Chars) /\ Lossy(parts[k + 1]) \in Chars
           /\ TextsUpTo(parts, k + 1) = Append(TextsUpTo(parts, k), Lossy(parts[k + 1]))
<1>1. PICK n \in Nat : n = Len(parts)
  OBVIOUS
<1>2. \A r \in 1 .. n : parts[r] \in Seq(Byte)
  BY <1>1
<1>3. \A r \in 1 .. n : Lossy(parts[r]) \in Chars
  BY <1>2, LossyReads
<1>4. PICK m \in Nat : m = k + 1 /\ m \in 1 .. n
  BY <1>1
<1>5. PICK a \in Seq(Chars) : a = TextsUpTo(parts, k) /\ Len(a) = k /\ \A r \in 1 .. k : a[r] = Lossy(parts[r])
  <2>1. \A r \in 1 .. k : Lossy(parts[r]) \in Chars
    BY <1>3, <1>4
  <2>2. PICK t : t = TextsUpTo(parts, k)
    BY Zenon
  <2>3. t = [r \in 1 .. k |-> Lossy(parts[r])]
    BY <2>2, Zenon DEF TextsUpTo
  <2>4. t \in [1 .. k -> Chars] /\ \A r \in 1 .. k : t[r] = Lossy(parts[r])
    BY <2>1, <2>3, Zenon
  <2>5. t \in Seq(Chars) /\ Len(t) = k
    BY <1>4, <2>4, Listed
  <2> QED
    BY <2>2, <2>4, <2>5
<1>6. PICK b \in Seq(Chars) : b = TextsUpTo(parts, m) /\ Len(b) = m /\ \A r \in 1 .. m : b[r] = Lossy(parts[r])
  <2>1. \A r \in 1 .. m : Lossy(parts[r]) \in Chars
    BY <1>3, <1>4
  <2>2. PICK t : t = TextsUpTo(parts, m)
    BY Zenon
  <2>3. t = [r \in 1 .. m |-> Lossy(parts[r])]
    BY <2>2, Zenon DEF TextsUpTo
  <2>4. t \in [1 .. m -> Chars] /\ \A r \in 1 .. m : t[r] = Lossy(parts[r])
    BY <2>1, <2>3, Zenon
  <2>5. t \in Seq(Chars) /\ Len(t) = m
    BY <1>4, <2>4, Listed
  <2> QED
    BY <2>2, <2>4, <2>5
<1>7. PICK v \in Chars : v = Lossy(parts[m])
  BY <1>3, <1>4
<1>8. PICK d \in Seq(Chars) : d = Append(a, v) /\ Len(d) = Len(a) + 1 /\ d[Len(a) + 1] = v /\ \A r \in 1 .. Len(a) : d[r] = a[r]
  <2>1. PICK d \in Seq(Chars) : d = Append(a, v)
    BY AppendProperties, Zenon
  <2>2. Len(d) = Len(a) + 1 /\ d[Len(a) + 1] = v /\ \A r \in 1 .. Len(a) : d[r] = a[r]
    BY <2>1, AppendProperties
  <2> QED
    BY <2>1, <2>2
<1>9. \A r \in 1 .. Len(b) : b[r] = d[r]
  <2>1. \A r \in 1 .. Len(b) : r = m \/ r \in 1 .. k
    BY <1>4, <1>6
  <2>2. d[m] = v /\ b[m] = v
    <3>1. Len(a) + 1 = m /\ m \in 1 .. m
      BY <1>4, <1>5
    <3> QED
      BY <1>6, <1>7, <1>8, <3>1, Zenon
  <2>3. \A r \in 1 .. k : d[r] = Lossy(parts[r]) /\ r \in 1 .. m
    BY <1>4, <1>5, <1>8
  <2> QED
    BY <1>6, <2>1, <2>2, <2>3, Zenon
<1>10. b = d
  <2>1. Len(b) = Len(d)
    BY <1>4, <1>5, <1>6, <1>8
  <2> QED
    BY <1>9, <2>1, SeqEqual, Zenon
<1> QED
  BY <1>4, <1>5, <1>6, <1>7, <1>8, <1>10, Zenon

\* The separator separates again what it joined.
THEOREM JoinedSplits ==
    ASSUME NEW parts \in Seq(Seq(Byte)), parts # <<>>, \A r \in 1 .. Len(parts) : ~Includes(parts[r], Separator)
    PROVE  Split(Lossy(Join(parts, Separator)), Separator) = TextsUpTo(parts, Len(parts))
<1>1. PICK n \in Nat : n = Len(parts) /\ n # 0
  BY EmptySeq
<1>2. PICK f : JoinsUp(f, parts) /\ Join(parts, Separator) = f[n]
  BY <1>1, Joins, Zenon
<1>3. f \in [0 .. n -> Seq(Byte)] /\ f[0] = <<>> /\ \A k \in 1 .. n : f[k] = JoinStep(parts, f[k - 1], k)
  BY <1>1, <1>2, Zenon DEF JoinsUp
<1>4. ASSUME NEW r \in 1 .. n PROVE parts[r] \in Seq(Byte) /\ Free(Lossy(parts[r]))
  <2>1. parts[r] \in Seq(Byte) /\ ~Includes(parts[r], Separator)
    BY <1>1
  <2> QED
    BY <2>1, LossyFree
<1> DEFINE S == {k \in 0 .. n : k = 0 \/ Split(Lossy(f[k]), Separator) = TextsUpTo(parts, k)}
<1>5. 0 \in S
  OBVIOUS
<1>6. ASSUME NEW k \in 0 .. n - 1, k \in S PROVE k + 1 \in S
  <2>1. PICK m \in 1 .. n : m = k + 1 /\ m - 1 = k /\ k \in 0 .. n /\ k \in Nat
    OBVIOUS
  <2>2. PICK p \in Seq(Byte) : p = parts[m] /\ Free(Lossy(p))
    <3>1. Free(Lossy(parts[m])) /\ parts[m] \in Seq(Byte)
      BY <1>1, <1>4, <2>1, ElementOfSeq, Zenon
    <3> QED
      BY <3>1, Zenon
  <2>3. PICK x \in Seq(Byte) : x = f[k]
    BY <1>3, <2>1
  <2>4. f[m] = JoinStep(parts, x, m)
    BY <1>3, <2>1, <2>3, Zenon
  <2>5. TextsUpTo(parts, m) = Append(TextsUpTo(parts, k), Lossy(p))
    BY <1>1, <2>1, <2>2, TextsGrow, SMTT(30)
  <2>6. CASE k = 0
    <3>1. x = <<>> /\ m = 1
      BY <1>3, <2>1, <2>3, <2>6
    <3>2. f[m] = (<<>> \o <<>>) \o p
      BY <2>2, <2>4, <3>1, Zenon DEF JoinStep
    <3>3. <<>> \o <<>> = <<>> /\ <<>> \o p = p
      BY <2>3, <3>1, EmptySeq, ConcatEmptySeq
    <3>4. Split(Lossy(p), Separator) = <<Lossy(p)>>
      BY <2>2, SplitPieces, Zenon
    <3>5. TextsUpTo(parts, k) = <<>>
      BY <2>6 DEF TextsUpTo
    <3>6. Append(<<>>, Lossy(p)) = <<Lossy(p)>>
      OBVIOUS
    <3> QED
      <4>1. Split(Lossy(f[m]), Separator) = TextsUpTo(parts, m)
        BY <2>5, <3>2, <3>3, <3>4, <3>5, <3>6, Zenon
      <4> QED
        BY <2>1, <4>1
  <2>7. CASE k # 0
    <3>1. m # 1
      BY <2>1, <2>7
    <3>2. f[m] = (x \o Separator) \o p
      BY <2>2, <2>4, <3>1, Zenon DEF JoinStep
    <3>3. Lossy(f[m]) = (Lossy(x) \o <<Separator>>) \o Lossy(p)
      BY <3>2, SeparatedText
    <3>4. Lossy(x) \in Chars
      BY LossyReads
    <3>5. Split((Lossy(x) \o <<Separator>>) \o Lossy(p), Separator) = Append(Split(Lossy(x), Separator), Lossy(p))
      BY <2>2, <3>4, SplitPieces, Zenon
    <3>6. Split(Lossy(x), Separator) = TextsUpTo(parts, k)
      BY <1>6, <2>3, <2>7
    <3> QED
      <4>1. Split(Lossy(f[m]), Separator) = TextsUpTo(parts, m)
        BY <2>5, <3>3, <3>5, <3>6, Zenon
      <4> QED
        BY <2>1, <4>1
  <2> QED
    BY <2>6, <2>7
<1>7. n \in S
  <2>1. 0 .. n \subseteq S
    <3>1. \A k \in 0 .. n - 1 : k \in S => k + 1 \in S
      BY <1>6, Zenon
    <3> HIDE DEF S
    <3> QED
      BY <1>5, <3>1, UpTo
  <2> QED
    BY <2>1
<1> QED
  BY <1>1, <1>2, <1>7

RunParts(runs) == [r \in DOMAIN runs |-> BytesOf(runs[r])]
\* decodeDirtyRuns gives each run its text, together as well as one after the other.
LEMMA DecodesRuns ==
    ASSUME NEW c, NEW cache \in Caches, NEW runs \in Seq(Seq(Present))
    PROVE  /\ DecodeRuns(c, cache, runs) \in Decoding
           /\ DecodeRuns(c, cache, runs).texts = Mapped(Texted, runs)
<1>1. DecodeEach(c, cache, runs) \in Decoding /\ DecodeEach(c, cache, runs).texts = Mapped(Texted, runs)
  BY DecodesEach
<1>2. PICK n \in Nat : n = Len(runs) /\ DOMAIN runs = 1 .. n
  OBVIOUS
<1>3. PICK parts \in Seq(Seq(Byte)) : parts = RunParts(runs) /\ Len(parts) = n /\ DOMAIN parts = 1 .. n
                                      /\ \A r \in 1 .. n : parts[r] = BytesOf(runs[r])
  <2>1. \A r \in 1 .. n : runs[r] \in Seq(Present)
    BY <1>2
  <2>2. \A r \in 1 .. n : BytesOf(runs[r]) \in Seq(Byte)
    BY <2>1, BytesAre
  <2>3. PICK p : p = RunParts(runs)
    BY Zenon
  <2>4. p = [r \in 1 .. n |-> BytesOf(runs[r])]
    BY <1>2, <2>3, Zenon DEF RunParts
  <2>5. PICK B : B = Seq(Byte)
    BY Zenon
  <2>6. p \in [1 .. n -> B] /\ \A r \in 1 .. n : p[r] = BytesOf(runs[r])
    BY <2>2, <2>4, <2>5, Zenon
  <2>7. p \in Seq(B) /\ Len(p) = n /\ DOMAIN p = 1 .. n
    BY <2>6, Listed
  <2> QED
    BY <2>3, <2>5, <2>6, <2>7
<1>4. PICK separated : separated = Split(Lossy(Join(parts, Separator)), Separator)
  BY Zenon
<1>5. CASE /\ c.dirtyRunBatch /\ Len(runs) > 1
           /\ \A r \in DOMAIN parts : ~Includes(parts[r], Separator)
           /\ Len(separated) = Len(runs)
  <2>1. DecodeRuns(c, cache, runs) = With(cache, separated)
    BY <1>3, <1>4, <1>5, Zenon DEF DecodeRuns, RunParts, With
  <2>2. parts # <<>>
    BY <1>2, <1>3, <1>5
  <2>3. \A r \in 1 .. Len(parts) : ~Includes(parts[r], Separator)
    BY <1>3, <1>5
  <2>4. separated = TextsUpTo(parts, n)
    BY <1>3, <1>4, <2>2, <2>3, JoinedSplits
  <2>5. TextsUpTo(parts, n) = Mapped(Texted, runs)
    <3>1. \A r \in 1 .. n : Texted[runs[r]] = Lossy(parts[r])
      <4>1. \A r \in 1 .. n : runs[r] \in Seq(Present)
        BY <1>2
      <4> QED
        BY <1>3, <4>1, TextedRuns DEF RunText
    <3> QED
      BY <1>2, <3>1, Zenon DEF TextsUpTo, Mapped
  <2>6. Mapped(Texted, runs) \in Seq(Chars)
    <3>1. PICK R : R = Seq(Present) /\ Texted \in [R -> Chars] /\ runs \in Seq(R)
      BY TextedRuns
    <3>2. MapsTo(Chars, Texted, runs)
      BY <3>1, Mapping
    <3> QED
      BY <3>2 DEF MapsTo
  <2>7. With(cache, separated) \in Decoding /\ With(cache, separated).texts = separated
    BY <2>4, <2>5, <2>6, TextedRuns
  <2> QED
    BY <2>1, <2>4, <2>5, <2>7
<1>6. CASE ~ /\ c.dirtyRunBatch /\ Len(runs) > 1
             /\ \A r \in DOMAIN parts : ~Includes(parts[r], Separator)
             /\ Len(separated) = Len(runs)
  <2>1. DecodeRuns(c, cache, runs) = DecodeEach(c, cache, runs)
    BY <1>3, <1>4, <1>6, Zenon DEF DecodeRuns, RunParts
  <2> QED
    BY <1>1, <2>1
<1> QED
  BY <1>5, <1>6, Zenon

(***************************************************************************)
(* The arena                                                               *)
(***************************************************************************)
Cell(k) == IF Unknown(k - 1) THEN <<>> ELSE TokenBytes(k - 1)
Cells == [k \in 1 .. VocabSize |-> Cell(k)]
FirstCells(k) == SubSeq(Cells, 1, k)
OffsetStep == [k \in 1 .. VocabSize |-> [offset \in Nat |-> offset + Len(Cell(k))]]

\* The cells of the table are the tokens' bytes in order.
LEMMA CellsAre ==
    /\ VocabSize \in Nat /\ Cells \in Seq(Seq(Byte)) /\ Len(Cells) = VocabSize
    /\ \A k \in 1 .. VocabSize : Cells[k] = Cell(k) /\ Cell(k) \in Seq(Byte)
    /\ \A id \in Present : id \in 0 .. VocabSize - 1 /\ Cell(id + 1) = TokenBytes(id)
<1>1. PICK n \in Nat : n = VocabSize
  BY VocabularyAssumption
<1>2. \A id \in Present : id \in 0 .. n - 1
  BY <1>1, VocabularyAssumption DEF Vocabulary
<1>3. \A k \in 1 .. n : Cell(k) \in Seq(Byte)
  <2>1. ASSUME NEW k \in 1 .. n PROVE Cell(k) \in Seq(Byte)
    <3>1. PICK id : id = k - 1
      BY Zenon
    <3>2. CASE id \in Present
      BY <3>1, <3>2, Tokens DEF Cell
    <3>3. CASE id \notin Present
      BY <3>1, <3>3, EmptySeq, Zenon DEF Cell, Unknown
    <3> QED
      BY <3>2, <3>3
  <2> QED
    BY <2>1
<1>4. PICK B, cells : B = Seq(Byte) /\ cells = Cells /\ cells \in [1 .. n -> B] /\ \A k \in 1 .. n : cells[k] = Cell(k)
  <2>1. PICK B : B = Seq(Byte)
    BY Zenon
  <2>2. PICK cells : cells = Cells
    BY Zenon
  <2>3. cells \in [1 .. n -> B] /\ \A k \in 1 .. n : cells[k] = Cell(k)
    BY <1>1, <1>3, <2>1, <2>2, Zenon DEF Cells
  <2> QED
    BY <2>1, <2>2, <2>3
<1>5. cells \in Seq(B) /\ Len(cells) = n
  BY <1>4, Listed
<1>6. ASSUME NEW id \in Present PROVE Cell(id + 1) = TokenBytes(id)
  <2>1. id \in Nat
    BY <1>2
  <2>2. id + 1 - 1 = id
    BY <2>1
  <2>3. ~Unknown(id)
    BY Zenon DEF Unknown
  <2> QED
    <3>1. PICK j \in Nat : j = id + 1 /\ j - 1 = id
      BY <2>1
    <3>2. Cell(j) = TokenBytes(id)
      BY <2>3, <3>1, Zenon DEF Cell
    <3> QED
      BY <3>1, <3>2
<1> QED
  BY <1>1, <1>2, <1>3, <1>4, <1>5, <1>6, Zenon

\* One more of the first elements.
Firsts(S, s, i, m) ==
    /\ SubSeq(s, 1, i) \in Seq(S) /\ SubSeq(s, 1, m) \in Seq(S) /\ s[m] \in S
    /\ SubSeq(s, 1, m) = Append(SubSeq(s, 1, i), s[m])
\* The first elements, one more.
LEMMA FirstsGrow ==
    ASSUME NEW S, NEW s \in Seq(S), NEW m \in 1 .. Len(s), NEW i, i = m - 1
    PROVE  Firsts(S, s, i, m)
<1>1. PICK n \in Nat : n = Len(s) /\ m \in 1 .. n /\ i \in 0 .. n /\ i + 1 = m
  OBVIOUS
<1>2. PICK a \in Seq(S) : a = SubSeq(s, 1, i) /\ Len(a) = i /\ \A x \in 1 .. i : a[x] = s[x]
  <2>1. 1 \in 1 .. Len(s) + 1 /\ i \in 0 .. Len(s) /\ 1 <= i + 1
    BY <1>1
  <2>2. Part(S, s, 1, i)
    BY <2>1, Parts
  <2>3. i + 1 - 1 = i /\ \A x \in 1 .. i : 1 + x - 1 = x
    BY <1>1
  <2>4. PICK a \in Seq(S) : a = SubSeq(s, 1, i)
    BY <2>2 DEF Part
  <2>5. Len(a) = i /\ \A x \in 1 .. i : a[x] = s[x]
    BY <2>2, <2>3, <2>4, Zenon DEF Part
  <2> QED
    BY <2>4, <2>5
<1>3. PICK b \in Seq(S) : b = SubSeq(s, 1, m) /\ Len(b) = m /\ \A x \in 1 .. m : b[x] = s[x]
  <2>1. 1 \in 1 .. Len(s) + 1 /\ m \in 0 .. Len(s) /\ 1 <= m + 1
    BY <1>1
  <2>2. Part(S, s, 1, m)
    BY <2>1, Parts
  <2>3. m + 1 - 1 = m /\ \A x \in 1 .. m : 1 + x - 1 = x
    BY <1>1
  <2> QED
    BY <2>2, <2>3 DEF Part
<1>4. PICK z \in S : z = s[m]
  BY <1>1
<1>5. PICK d \in Seq(S) : d = Append(a, z)
  BY AppendProperties, Zenon
<1>6. Len(d) = Len(a) + 1 /\ d[Len(a) + 1] = z /\ \A x \in 1 .. Len(a) : d[x] = a[x]
  BY <1>5, AppendProperties
<1>7. Len(d) = m /\ d[m] = z /\ \A x \in 1 .. i : d[x] = a[x]
  BY <1>1, <1>2, <1>6
<1>8. \A x \in 1 .. m : x = m \/ x \in 1 .. i
  BY <1>1
<1>9. \A x \in 1 .. i : x \in 1 .. m
  BY <1>1
<1>10. \A x \in 1 .. m : b[x] = d[x]
  BY <1>2, <1>3, <1>4, <1>7, <1>8, <1>9, Zenon
<1>11. m \in 1 .. m
  BY <1>1
<1>12. b = d
  BY <1>3, <1>7, <1>10, SeqEqual, Zenon
<1> QED
  BY <1>2, <1>3, <1>4, <1>5, <1>12, Zenon DEF Firsts

\* An offset is the length of all the tokens before.
LEMMA OffsetIs ==
    ASSUME NEW k \in 0 .. VocabSize
    PROVE  Offset(k) = Len(FlattenSeq(FirstCells(k)))
<1>1. PICK n \in Nat : n = VocabSize /\ k \in 0 .. n
  BY CellsAre
<1>2. PICK B, cells : B = Seq(Byte) /\ cells = Cells /\ cells \in Seq(B) /\ Len(cells) = n
      /\ \A i \in 1 .. n : cells[i] = Cell(i) /\ Cell(i) \in B
  BY <1>1, CellsAre
<1>3. \A i \in 1 .. n : Len(Cell(i)) \in Nat
  BY <1>2
<1>4. PICK step : step = [i \in 1 .. n |-> [offset \in Nat |-> offset + Len(Cell(i))]]
  BY Zenon
<1>5. step \in [1 .. n -> [Nat -> Nat]] /\ \A i \in 1 .. n, offset \in Nat : step[i][offset] = offset + Len(Cell(i))
  BY <1>3, <1>4
<1>6. PICK N, zero : N = Nat /\ zero = 0 /\ zero \in N /\ n \in Nat /\ step \in [1 .. n -> [N -> N]]
  BY <1>5
<1>7. PICK f \in [0 .. n -> N] : Follows(f, n, zero, step)
  BY <1>6, RecursionExists
<1>8. f[0] = 0 /\ (\A i \in 1 .. n : f[i] = step[i][f[i - 1]]) /\ f \in [0 .. n -> Nat]
  BY <1>6, <1>7, Zenon DEF Follows
<1>9. \A i \in 1 .. n : f[i] = f[i - 1] + Len(Cell(i))
  <2>1. ASSUME NEW i \in 1 .. n PROVE f[i] = f[i - 1] + Len(Cell(i))
    <3>1. i - 1 \in 0 .. n
      OBVIOUS
    <3>2. f[i - 1] \in Nat
      BY <1>8, <3>1
    <3> QED
      BY <1>5, <1>8, <3>2, Zenon
  <2> QED
    BY <2>1
<1> DEFINE Offsets(h) == h = [i \in 0 .. VocabSize |->
                IF i = 0 THEN 0 ELSE h[i - 1] + IF Unknown(i - 1) THEN 0 ELSE Len(TokenBytes(i - 1))]
<1>10. \A i \in 0 .. n : i # 0 => i \in 1 .. n /\ i - 1 \in 0 .. n
  OBVIOUS
<1>11. \A i \in 1 .. n : Len(Cell(i)) = IF Unknown(i - 1) THEN 0 ELSE Len(TokenBytes(i - 1))
  <2>1. Len(<<>>) = 0
    OBVIOUS
  <2>2. ASSUME NEW i \in 1 .. n PROVE Len(Cell(i)) = IF Unknown(i - 1) THEN 0 ELSE Len(TokenBytes(i - 1))
    <3>1. Unknown(i - 1) => Cell(i) = <<>>
      BY Zenon DEF Cell
    <3>2. ~Unknown(i - 1) => Cell(i) = TokenBytes(i - 1)
      BY Zenon DEF Cell
    <3> QED
      BY <2>1, <3>1, <3>2, Zenon
  <2> QED
    BY <2>2
<1>12. Offsets(f)
  <2>1. \A i \in 0 .. n :
            f[i] = IF i = 0 THEN 0 ELSE f[i - 1] + IF Unknown(i - 1) THEN 0 ELSE Len(TokenBytes(i - 1))
    BY <1>8, <1>9, <1>10, <1>11, Zenon
  <2> QED
    BY <1>1, <1>8, <2>1, Zenon
<1>13. PICK it : it = CHOOSE h : Offsets(h)
  BY Zenon
<1>14. Offsets(it)
  BY <1>12, <1>13, Zenon
<1>15. it[0] = 0 /\ \A i \in 1 .. n : it[i] = it[i - 1] + Len(Cell(i))
  <2>1. 0 \in 0 .. n /\ \A i \in 1 .. n : i \in 0 .. n /\ i # 0
    OBVIOUS
  <2>2. \A i \in 0 .. n :
            it[i] = IF i = 0 THEN 0 ELSE it[i - 1] + IF Unknown(i - 1) THEN 0 ELSE Len(TokenBytes(i - 1))
    BY <1>1, <1>14, Zenon
  <2> QED
    BY <1>11, <2>1, <2>2, Zenon
<1> DEFINE S == {i \in 0 .. n : it[i] = Len(FlattenSeq(FirstCells(i)))}
<1>16. 0 \in S
  <2>1. FirstCells(0) = <<>>
    BY <1>2 DEF FirstCells
  <2>2. Len(FlattenSeq(<<>>)) = 0
    BY FlattenEmpty
  <2> QED
    BY <1>15, <2>1, <2>2
<1>17. ASSUME NEW i \in 0 .. n - 1, i \in S PROVE i + 1 \in S
  <2>1. PICK m \in 1 .. n : m = i + 1 /\ m - 1 = i /\ i \in 0 .. n /\ m \in 0 .. n
    OBVIOUS
  <2>2. Firsts(B, cells, i, m)
    BY <1>2, <2>1, FirstsGrow
  <2>3. PICK a, b \in Seq(B) : a = FirstCells(i) /\ b = FirstCells(m) /\ b = Append(a, cells[m])
    BY <1>2, <2>2, Zenon DEF Firsts, FirstCells
  <2>4. PICK z \in B : z = Cell(m) /\ z = cells[m]
    BY <1>2, <2>1
  <2>5. FlattenSeq(Append(a, z)) = FlattenSeq(a) \o z
    BY <1>2, FlattenAppend
  <2>6. PICK A \in Seq(Byte) : A = FlattenSeq(a)
    BY <1>2, FlattenIsSeq
  <2>7. FlattenSeq(b) = A \o z
    BY <2>3, <2>4, <2>5, <2>6, Zenon
  <2>8. z \in Seq(Byte)
    BY <1>2
  <2>9. Len(FlattenSeq(b)) = Len(A) + Len(z)
    BY <2>7, <2>8
  <2>10. it[m] = it[i] + Len(z)
    BY <1>15, <2>1, <2>4
  <2> QED
    BY <1>17, <2>1, <2>3, <2>6, <2>9, <2>10
<1>18. k \in S
  <2>1. 0 .. n \subseteq S
    <3>1. \A i \in 0 .. n - 1 : i \in S => i + 1 \in S
      BY <1>17, Zenon
    <3> HIDE DEF S
    <3> QED
      BY <1>16, <3>1, UpTo
  <2> QED
    BY <1>1, <2>1
<1>19. Offset(k) = it[k]
  BY <1>13, Zenon DEF Offset
<1> QED
  BY <1>18, <1>19

\* A piece in the middle of a sequence.
LEMMA Middle ==
    ASSUME NEW S, NEW a \in Seq(S), NEW b \in Seq(S), NEW c \in Seq(S)
    PROVE  SubSeq((a \o b) \o c, Len(a) + 1, Len(a) + Len(b)) = b
<1>1. PICK g \in Seq(S) : g = a \o b
  BY ConcatProperties, Zenon
<1>2. PICK h \in Seq(S) : h = g \o c
  BY ConcatProperties, Zenon
<1>3. PICK m, n, q \in Nat : m = Len(a) /\ n = Len(b) /\ q = Len(c)
  OBVIOUS
<1>4. Len(g) = m + n /\ \A x \in 1 .. n : g[m + x] = b[x]
  BY <1>1, <1>3
<1>5. Len(h) = m + n + q /\ \A x \in 1 .. m + n : h[x] = g[x]
  <2>1. Len(h) = Len(g) + Len(c) /\ \A x \in 1 .. Len(g) + Len(c) : h[x] = IF x <= Len(g) THEN g[x] ELSE c[x - Len(g)]
    BY <1>2, ConcatProperties, Zenon
  <2>2. \A x \in 1 .. m + n : x \in 1 .. Len(g) + Len(c) /\ x <= Len(g)
    BY <1>3, <1>4
  <2> QED
    BY <1>3, <1>4, <2>1, <2>2, Zenon
<1>6. Part(S, h, m + 1, m + n)
  <2>1. PICK i, k : i = m + 1 /\ k = m + n
    BY Zenon
  <2>2. i \in 1 .. Len(h) + 1 /\ k \in 0 .. Len(h) /\ i <= k + 1
    BY <1>3, <1>5, <2>1
  <2>3. Part(S, h, i, k)
    BY <2>2, Parts
  <2> QED
    BY <2>1, <2>3
<1>7. PICK s \in Seq(S) : s = SubSeq(h, m + 1, m + n) /\ Len(s) = n /\ \A x \in 1 .. n : s[x] = h[m + x]
  <2>1. /\ SubSeq(h, m + 1, m + n) \in Seq(S) /\ Len(SubSeq(h, m + 1, m + n)) = m + n + 1 - (m + 1)
        /\ \A x \in 1 .. m + n + 1 - (m + 1) : SubSeq(h, m + 1, m + n)[x] = h[m + 1 + x - 1]
    BY <1>6, Zenon DEF Part
  <2>2. m + n + 1 - (m + 1) = n /\ \A x \in 1 .. n : m + 1 + x - 1 = m + x
    BY <1>3
  <2>3. PICK s \in Seq(S) : s = SubSeq(h, m + 1, m + n)
    BY <2>1
  <2>4. Len(s) = n /\ \A x \in 1 .. n : s[x] = h[m + x]
    BY <2>1, <2>2, <2>3, Zenon
  <2> QED
    BY <2>3, <2>4
<1>8. \A x \in 1 .. Len(s) : s[x] = b[x]
  <2>1. \A x \in 1 .. n : m + x \in 1 .. m + n
    BY <1>3
  <2> QED
    BY <1>4, <1>5, <1>7, <2>1
<1>9. s = b
  BY <1>3, <1>7, <1>8, SeqEqual
<1> QED
  BY <1>1, <1>2, <1>3, <1>7, <1>9, Zenon

\* The bytes between the offsets of a token are the token's.
LEMMA ArenaHolds ==
    ASSUME NEW id \in Present
    PROVE  SubSeq(Arena, Offset(id) + 1, Offset(id + 1)) = TokenBytes(id)
<1>1. PICK n \in Nat : n = VocabSize /\ id \in 0 .. n - 1
  BY CellsAre
<1>2. PICK B, cells : B = Seq(Byte) /\ cells = Cells /\ cells \in Seq(B) /\ Len(cells) = n
      /\ \A i \in 1 .. n : cells[i] = Cell(i) /\ Cell(i) \in B
  BY <1>1, CellsAre
<1>3. PICK m \in 1 .. n : m = id + 1 /\ m - 1 = id /\ m \in 0 .. n /\ id \in 0 .. n
  BY <1>1
<1>4. PICK z \in B : z = TokenBytes(id) /\ z = cells[m]
  BY <1>2, <1>3, CellsAre
<1>5. Arena = FlattenSeq(cells)
  BY <1>2, Zenon DEF Arena, Cells, Cell
<1>6. PICK a, b \in Seq(B) : a = SubSeq(cells, 1, id) /\ b = SubSeq(cells, 1, m) /\ b = Append(a, z)
  <2>1. Firsts(B, cells, id, m)
    BY <1>2, <1>3, FirstsGrow
  <2> QED
    BY <1>4, <2>1, Zenon DEF Firsts
<1>7. PICK c \in Seq(B) : cells = b \o c
  <2>1. PICK j : j = m + 1 /\ j - 1 = m
    BY <1>3
  <2>2. 1 \in 1 .. Len(cells) + 1 /\ n \in 0 .. Len(cells) /\ j \in 1 .. n + 1 /\ j \in 1 .. Len(cells) + 1 /\ j <= n + 1
    BY <1>2, <1>3, <2>1
  <2>3. SubSeq(cells, 1, n) = SubSeq(cells, 1, j - 1) \o SubSeq(cells, j, n)
    BY <2>2, PartsMeet
  <2>4. Part(B, cells, j, n)
    BY <1>2, <2>2, Parts
  <2>5. SubSeq(cells, j, n) \in Seq(B)
    BY <2>4, Zenon DEF Part
  <2>6. SubSeq(cells, 1, n) = cells
    BY <1>2
  <2> QED
    BY <1>6, <2>1, <2>3, <2>5, <2>6, Zenon
<1>9. PICK A, C \in Seq(Byte) : A = FlattenSeq(a) /\ C = FlattenSeq(c)
  BY <1>2, FlattenIsSeq
<1>10. FlattenSeq(b) = A \o z
  <2>1. FlattenSeq(Append(a, z)) = FlattenSeq(a) \o z
    BY <1>2, FlattenAppend
  <2> QED
    BY <1>6, <1>9, <2>1, Zenon
<1>11. Arena = (A \o z) \o C
  <2>1. FlattenSeq(b \o c) = FlattenSeq(b) \o FlattenSeq(c)
    BY <1>2, FlattenConcat
  <2> QED
    BY <1>5, <1>7, <1>9, <1>10, <2>1, Zenon
<1>12. z \in Seq(Byte)
  BY <1>2
<1>13. Offset(id) = Len(A)
  BY <1>1, <1>2, <1>3, <1>6, <1>9, OffsetIs DEF FirstCells
<1>14. Offset(m) = Len(A) + Len(z)
  <2>1. Offset(m) = Len(FlattenSeq(b))
    BY <1>1, <1>2, <1>3, <1>6, OffsetIs DEF FirstCells
  <2> QED
    BY <1>10, <1>12, <2>1
<1>15. SubSeq((A \o z) \o C, Len(A) + 1, Len(A) + Len(z)) = z
  BY <1>9, <1>12, Middle
<1> QED
  BY <1>3, <1>4, <1>11, <1>13, <1>14, <1>15, Zenon

\* The gathered bytes of the wasm route are the tokens' own bytes.
THEOREM GatheredIs ==
    ASSUME NEW ids \in Seq(Present)
    PROVE  Gathered(ids) = BytesOf(ids)
<1>1. \A k \in DOMAIN ids : ids[k] \in Present
  OBVIOUS
<1>2. \A k \in DOMAIN ids : SubSeq(Arena, Offset(ids[k]) + 1, Offset(ids[k] + 1)) = TokenBytes(ids[k])
  BY <1>1, ArenaHolds
<1>3. [k \in DOMAIN ids |-> SubSeq(Arena, Offset(ids[k]) + 1, Offset(ids[k] + 1))]
        = [k \in DOMAIN ids |-> TokenBytes(ids[k])]
  BY <1>2, Zenon
<1> QED
  BY <1>3, Zenon DEF Gathered, BytesOf

(***************************************************************************)
(* The table                                                               *)
(***************************************************************************)
Tables == [strings : SUBSET Cleans, gathered : BOOLEAN, latin1 : BOOLEAN, runs : Caches]
TableOf(strings, gathered, latin1, runs) ==
    [strings |-> strings, gathered |-> gathered, latin1 |-> latin1, runs |-> runs]
\* It never loses a string.
Grows(t, u) == u \in Tables /\ t.strings \subseteq u.strings
\* A route answers as the core does.
Serves(t, answered, ids) == Grows(t, answered.table) /\ answered.value = CoreDecode(ids)

\* The parts of a table.
LEMMA TablesAre ==
    ASSUME NEW t \in Tables
    PROVE  /\ t = TableOf(t.strings, t.gathered, t.latin1, t.runs)
           /\ t.strings \subseteq Cleans /\ t.runs \in Caches
           /\ Grows(t, t)
<1>1. t = TableOf(t.strings, t.gathered, t.latin1, t.runs) /\ t.strings \in SUBSET Cleans /\ t.runs \in Caches
  BY DEF Tables, TableOf
<1> QED
  BY <1>1, Zenon DEF Grows

\* Growing is transitive.
LEMMA GrowsOn ==
    ASSUME NEW t, NEW u, NEW v, Grows(t, u), Grows(u, v)
    PROVE  Grows(t, v)
BY DEF Grows

\* What a route does to it.
Known(ids) == {id \in ids : Clean(id)}
\* Materialising strings, gathering and building the Latin-1 table only grow a table.
LEMMA Materializes ==
    ASSUME NEW t \in Tables, NEW ids
    PROVE  /\ Grows(t, Materialize(t, ids)) /\ Materialize(t, ids).strings = t.strings \union Known(ids)
           /\ Grows(t, Gather(t)) /\ Gather(t).strings = t.strings /\ Gather(t).runs = t.runs
           /\ Grows(t, [t EXCEPT !.latin1 = TRUE])
<1>1. PICK s \in SUBSET Cleans, g \in BOOLEAN, l \in BOOLEAN, r \in Caches : t = TableOf(s, g, l, r)
  BY DEF Tables, TableOf
<1>2. t.strings = s /\ t.runs = r
  BY <1>1 DEF TableOf
<1>3. PICK more : more = t.strings \union Known(ids)
  BY Zenon
<1>4. more \in SUBSET Cleans /\ s \subseteq more
  <2>1. ASSUME NEW id \in Known(ids) PROVE id \in Cleans
    <3>1. Clean(id)
      BY Zenon DEF Known
    <3>2. id \in Present
      BY <3>1, Zenon DEF Clean, Unknown
    <3> QED
      BY <3>1, <3>2, Zenon DEF Cleans
  <2> QED
    BY <1>2, <1>3, <2>1
<1>5. Materialize(t, ids) = TableOf(more, g, l, r)
  <2>1. [t EXCEPT !.strings = more] = TableOf(more, g, l, r)
    BY <1>1 DEF TableOf
  <2>2. Materialize(t, ids) = [t EXCEPT !.strings = more]
    BY <1>3, Zenon DEF Materialize, Known
  <2> QED
    BY <2>1, <2>2
<1>6. Gather(t) = TableOf(s, TRUE, l, r) /\ [t EXCEPT !.latin1 = TRUE] = TableOf(s, g, TRUE, r)
  <2>1. PICK yes \in BOOLEAN : yes = TRUE
    BY Zenon
  <2>2. [t EXCEPT !.gathered = yes] = TableOf(s, yes, l, r) /\ [t EXCEPT !.latin1 = yes] = TableOf(s, g, yes, r)
    BY <1>1 DEF TableOf
  <2> QED
    BY <2>1, <2>2, Zenon DEF Gather
<1>7. /\ TableOf(more, g, l, r) \in Tables /\ TableOf(s, TRUE, l, r) \in Tables /\ TableOf(s, g, TRUE, r) \in Tables
      /\ TableOf(more, g, l, r).strings = more /\ TableOf(s, g, TRUE, r).strings = s
      /\ TableOf(s, TRUE, l, r).strings = s /\ TableOf(s, TRUE, l, r).runs = r
  BY <1>4 DEF Tables, TableOf
<1> QED
  BY <1>2, <1>3, <1>4, <1>5, <1>6, <1>7, Zenon DEF Grows

\* Exchanging one right run cache for another grows a table.
LEMMA Recaches ==
    ASSUME NEW t \in Tables, NEW cache \in Caches
    PROVE  Grows(t, [t EXCEPT !.runs = cache])
<1>1. PICK s \in SUBSET Cleans, g \in BOOLEAN, l \in BOOLEAN, r \in Caches : t = TableOf(s, g, l, r)
  BY DEF Tables, TableOf
<1>2. [t EXCEPT !.runs = cache] = TableOf(s, g, l, cache) /\ t.strings = s
  BY <1>1 DEF TableOf
<1>3. TableOf(s, g, l, cache) \in Tables /\ TableOf(s, g, l, cache).strings = s
  BY DEF Tables, TableOf
<1> QED
  BY <1>2, <1>3, Zenon DEF Grows

\* The table of a new decoder is sound.
LEMMA EmptyIsTable == EmptyTable \in Tables
<1>1. {} \in SUBSET Cleans /\ EmptyCache \in Caches
  BY EmptyIsCache
<1> QED
  BY <1>1 DEF EmptyTable, Tables

\* The parts of an answer.
LEMMA Answering ==
    ASSUME NEW t, NEW v
    PROVE  Answered(t, v).table = t /\ Answered(t, v).value = v
BY DEF Answered

\* To answer what the core gives serves the call.
LEMMA AnswersAsCore ==
    ASSUME NEW t, NEW u, Grows(t, u), NEW ids, NEW answered, answered = Answered(u, CoreDecode(ids))
    PROVE  Serves(t, answered, ids)
<1>1. answered.table = u /\ answered.value = CoreDecode(ids)
  BY Answering
<1> QED
  BY <1>1 DEF Serves

(***************************************************************************)
(* The last resorts                                                        *)
(***************************************************************************)
LEMMA KnownIds ==
    ASSUME NEW S, NEW ids \in Seq(S)
    PROVE  /\ ~(\E k \in DOMAIN ids : Unknown(ids[k])) =>
                  ids \in Seq(Present) /\ CoreDecode(ids) = Text(Lossy(BytesOf(ids)))
           /\ (\E k \in DOMAIN ids : Unknown(ids[k])) => CoreDecode(ids) = Throws("unknown")
<1>1. PICK n \in Nat : n = Len(ids) /\ DOMAIN ids = 1 .. n /\ ids \in [1 .. n -> S]
  OBVIOUS
<1>2. ASSUME ~(\E k \in DOMAIN ids : Unknown(ids[k])) PROVE ids \in Seq(Present)
  <2>1. \A k \in 1 .. n : ids[k] \in Present
    BY <1>1, <1>2, Zenon DEF Unknown
  <2>2. ids \in [1 .. n -> Present]
    BY <1>1, <2>1
  <2> QED
    BY <2>2, Listed
<1> QED
  BY <1>2, Zenon DEF CoreDecode

\* The fallback of the inner decoder serves the call.
LEMMA FallbackServes ==
    ASSUME NEW t, NEW u, Grows(t, u), NEW ids
    PROVE  Serves(t, Fallback(u, ids), ids)
BY Answering, Zenon DEF Fallback, Serves

\* The Latin-1 route serves the call.
LEMMA Latin1Serves ==
    ASSUME NEW t, NEW u, Grows(t, u), NEW ids
    PROVE  Serves(t, Latin1(u, ids), ids)
<1>1. u \in Tables
  BY DEF Grows
<1>2. PICK w : w = [u EXCEPT !.latin1 = TRUE]
  BY Zenon
<1>3. Grows(t, w)
  BY <1>1, <1>2, Materializes, GrowsOn
<1>4. Latin1(u, ids) = Answered(w, CoreDecode(ids))
  BY <1>2, Zenon DEF Latin1, CoreDecode
<1> QED
  BY <1>3, <1>4, AnswersAsCore

\* The byte-table route serves the call.
LEMMA ByteTableServes ==
    ASSUME NEW t, NEW u, Grows(t, u), NEW S, NEW ids \in Seq(S)
    PROVE  Serves(t, ByteTable(u, ids), ids)
<1>1. u \in Tables
  BY DEF Grows
<1>2. Grows(t, Gather(u))
  BY <1>1, Materializes, GrowsOn
<1>3. ByteTable(u, ids) = Answered(Gather(u), CoreDecode(ids))
  <2>1. CASE \E k \in DOMAIN ids : Unknown(ids[k])
    BY <2>1, Zenon DEF ByteTable, CoreDecode
  <2>2. CASE ~(\E k \in DOMAIN ids : Unknown(ids[k]))
    <3>1. ids \in Seq(Present) /\ CoreDecode(ids) = Text(Lossy(BytesOf(ids)))
      BY <2>2, KnownIds
    <3>2. Gathered(ids) = BytesOf(ids)
      BY <3>1, GatheredIs
    <3> QED
      BY <2>2, <3>1, <3>2, Zenon DEF ByteTable
  <2> QED
    BY <2>1, <2>2
<1> QED
  BY <1>2, <1>3, AnswersAsCore

\* The route of dirty arrays serves the call.
LEMMA DirtyServes ==
    ASSUME NEW t, NEW u, Grows(t, u), NEW S, NEW ids \in Seq(S), NEW c
    PROVE  Serves(t, DecodeDirty(c, u, ids), ids)
<1>1. Serves(t, Latin1(u, ids), ids)
  BY Latin1Serves
<1>2. Serves(t, Fallback(u, ids), ids)
  BY FallbackServes
<1>3. Serves(t, ByteTable(u, ids), ids)
  BY ByteTableServes
<1> QED
  BY <1>1, <1>2, <1>3, Zenon DEF DecodeDirty

(***************************************************************************)
(* The scan                                                                *)
(***************************************************************************)
\* The ids before have their strings, which are the text so far.
Ready(ids, from, prefix) ==
    /\ from \in 1 .. Len(ids) /\ prefix = Prefix(ids, from)
    /\ \A k \in 1 .. from - 1 : ids[k] \in Cleans

\* The mixed route, from any place where it may start, serves the call.
LEMMA MixedServes ==
    ASSUME NEW t, NEW u, Grows(t, u), NEW ids \in Seq(Present), NEW from, NEW prefix, Ready(ids, from, prefix),
           Converged(u, ids, from), NEW c
    PROVE  Serves(t, Mixed(c, u, ids, from, prefix), ids)
<1>1. u \in Tables /\ from \in 1 .. Len(ids) /\ prefix = Prefix(ids, from)
      /\ \A k \in 1 .. from - 1 : ids[k] \in Cleans
  BY DEF Grows, Ready
<1>2. PICK runs \in Seq(Seq(Present)) : runs = Runs(ids, from)
  BY <1>1, RunsAre
<1>3. PICK known \in Tables : /\ known = IF runs = <<>> THEN u ELSE IF c.byteTable THEN Gather(u) ELSE u
                              /\ Grows(t, known)
  <2>1. Grows(u, Gather(u)) /\ u \in Tables
    BY <1>1, Materializes
  <2>2. Grows(t, Gather(u)) /\ Gather(u) \in Tables
    BY <2>1, GrowsOn DEF Grows
  <2> QED
    BY <2>1, <2>2, Zenon
<1>4. known.runs \in Caches
  BY TablesAre
<1>5. PICK decoded \in Decoding :
          /\ decoded = IF c.mixedRuns THEN DecodeRuns(c, known.runs, runs)
                       ELSE DecodeEach([c EXCEPT !.runCache = FALSE], known.runs, runs)
          /\ decoded.texts = Mapped(Texted, runs)
  <2>1. DecodeRuns(c, known.runs, runs) \in Decoding /\ DecodeRuns(c, known.runs, runs).texts = Mapped(Texted, runs)
    BY <1>4, DecodesRuns
  <2>2. PICK d : d = [c EXCEPT !.runCache = FALSE]
    BY Zenon
  <2>3. DecodeEach(d, known.runs, runs) \in Decoding /\ DecodeEach(d, known.runs, runs).texts = Mapped(Texted, runs)
    BY <1>4, DecodesEach
  <2> QED
    BY <2>1, <2>2, <2>3, Zenon
<1>6. decoded.cache \in Caches
  BY DEF Decoding
<1>7. PICK w : w = [known EXCEPT !.runs = decoded.cache]
  BY Zenon
<1>8. Grows(t, w)
  <2>1. Grows(known, w)
    BY <1>6, <1>7, Recaches
  <2> QED
    BY <1>3, <2>1, GrowsOn
<1>9. Mixed(c, u, ids, from, prefix) = Answered(w, Text(prefix \o Stitch(ids, from, decoded.texts)))
  BY <1>2, <1>3, <1>5, <1>7, Zenon DEF Mixed
<1>10. PICK rest : rest = Remaining(ids, from) /\ rest \in Seq(Present) /\ BytesOf(rest) \in Seq(Byte)
  <2>1. from \in 1 .. Len(ids) + 1 /\ from \in from .. Len(ids) + 1
    BY <1>1
  <2> QED
    BY <2>1, TailsAre
<1>11. Stitch(ids, from, decoded.texts) = Lossy(BytesOf(rest))
  BY <1>1, <1>2, <1>5, <1>10, Stitches
<1>12. PICK head \in Seq(Present) : head = Before(ids, from) /\ BytesOf(head) \in Seq(Byte) /\ Whole(BytesOf(head))
       /\ Prefix(ids, from) = Lossy(BytesOf(head))
  <2>1. from \in 1 .. Len(ids) + 1
    BY <1>1
  <2>2. PrefixIs(ids, from)
    BY <1>1, <2>1, CleanPrefixes
  <2>3. Cleans \subseteq Present
    BY DEF Cleans
  <2>4. Before(ids, from) \in Seq(Cleans)
    BY <2>2, Zenon DEF PrefixIs
  <2>5. Before(ids, from) \in Seq(Present)
    BY <2>3, <2>4, SeqMonotonic
  <2> QED
    BY <2>2, <2>5, Zenon DEF PrefixIs
<1>13. ids = head \o rest
  <2>1. PICK n \in Nat : n = Len(ids)
    OBVIOUS
  <2>2. 1 \in 1 .. Len(ids) + 1 /\ n \in 0 .. Len(ids) /\ from \in 1 .. n + 1
    BY <1>1, <2>1
  <2>3. SubSeq(ids, 1, n) = SubSeq(ids, 1, from - 1) \o SubSeq(ids, from, n)
    BY <2>2, PartsMeet
  <2>4. SubSeq(ids, 1, n) = ids
    BY <2>1
  <2> QED
    BY <1>10, <1>12, <2>1, <2>3, <2>4, Zenon DEF Remaining, Before
<1>14. BytesOf(ids) = BytesOf(head) \o BytesOf(rest)
  BY <1>10, <1>13, BytesConcat
<1>15. Lossy(BytesOf(ids)) = Lossy(BytesOf(head)) \o Lossy(BytesOf(rest))
  <2>1. PICK a, b \in Seq(Byte) : a = BytesOf(head) /\ b = BytesOf(rest) /\ Whole(a)
    BY <1>10, <1>12
  <2>2. Lossy(a \o b) = Lossy(a) \o Lossy(b)
    BY <2>1, LossyConcat
  <2> QED
    BY <1>14, <2>1, <2>2, Zenon
<1>16. CoreDecode(ids) = Text(Lossy(BytesOf(ids)))
  <2>1. \A k \in DOMAIN ids : ~Unknown(ids[k])
    BY DEF Unknown
  <2> QED
    BY <2>1, Zenon DEF CoreDecode
<1>17. Mixed(c, u, ids, from, prefix) = Answered(w, CoreDecode(ids))
  BY <1>1, <1>9, <1>11, <1>12, <1>15, <1>16, Zenon
<1> QED
  BY <1>8, <1>17, AnswersAsCore

\* Where a scan stops.
LEMMA StopIs ==
    ASSUME NEW c, NEW S, NEW ids \in Seq(S), NEW from \in 1 .. Len(ids)
    PROVE  /\ Stop(c, ids, from) \in from .. Len(ids) + 1
           /\ Stop(c, ids, from) > Len(ids) => \A k \in from .. Len(ids) : ~Unknown(ids[k])
           /\ Stop(c, ids, from) > Len(ids) => Stop(c, ids, from) = Len(ids) + 1
<1>1. PICK n \in Nat : n = Len(ids) /\ from \in 1 .. n
  OBVIOUS
<1>2. PICK ends : ends = {k \in from .. n : Unknown(ids[k]) \/ TooDirty(c, ids, from, k)}
  BY Zenon
<1>3. ends \in SUBSET (from .. n)
  BY <1>2
<1>4. CASE ends = {}
  <2>1. Stop(c, ids, from) = n + 1
    BY <1>1, <1>2, <1>4, Zenon DEF Stop
  <2>2. \A k \in from .. n : ~Unknown(ids[k])
    BY <1>2, <1>4
  <2> QED
    BY <1>1, <2>1, <2>2
<1>5. CASE ends # {}
  <2>1. ends \in SUBSET Nat
    BY <1>1, <1>3
  <2>2. \E k \in ends : \A j \in ends : k <= j
    BY <1>5, <2>1, LeastMember
  <2>3. PICK k \in ends : k = CHOOSE i \in ends : \A j \in ends : i <= j
    BY <2>2, Zenon
  <2>4. Stop(c, ids, from) = k
    BY <1>1, <1>2, <1>5, <2>3, Zenon DEF Stop
  <2>5. k \in from .. n
    BY <1>3
  <2> QED
    BY <1>1, <2>4, <2>5
<1> QED
  BY <1>4, <1>5

\* A scan that comes to the end knows all ids, and has the strings of the clean ones.
LEMMA ScanConverges ==
    ASSUME NEW c, NEW t \in Tables, NEW S, NEW ids \in Seq(S), NEW from, NEW prefix, Ready(ids, from, prefix),
           Stop(c, ids, from) > Len(ids)
    PROVE  /\ ids \in Seq(Present)
           /\ Converged(Materialize(t, Slice(ids, from, Stop(c, ids, from) - 1)), ids, from)
<1>1. from \in 1 .. Len(ids) /\ \A k \in 1 .. from - 1 : ids[k] \in Cleans
  BY DEF Ready
<1>2. PICK n \in Nat : n = Len(ids) /\ DOMAIN ids = 1 .. n
  OBVIOUS
<1>3. Stop(c, ids, from) = n + 1 /\ \A k \in from .. n : ~Unknown(ids[k])
  BY <1>1, <1>2, StopIs
<1>4. \A k \in 1 .. n : ~Unknown(ids[k])
  <2>1. \A k \in 1 .. n : k \in 1 .. from - 1 \/ k \in from .. n
    BY <1>1, <1>2
  <2>2. \A id \in Cleans : ~Unknown(id)
    BY Zenon DEF Cleans, Clean
  <2> QED
    BY <1>1, <1>3, <2>1, <2>2, Zenon
<1>5. ids \in Seq(Present)
  BY <1>2, <1>4, KnownIds
<1>6. PICK slice : slice = Slice(ids, from, Stop(c, ids, from) - 1)
  BY Zenon
<1>7. slice = {ids[k] : k \in from .. n}
  <2>1. n + 1 - 1 = n
    BY <1>2
  <2> QED
    <3>1. PICK m : m = Stop(c, ids, from) - 1 /\ m = n
      BY <1>3, <2>1
    <3>2. slice = Slice(ids, from, m)
      BY <1>6, <3>1, Zenon
    <3> QED
      BY <3>1, <3>2, Zenon DEF Slice
<1>8. Materialize(t, slice).strings = t.strings \union Known(slice)
  BY Materializes
<1>9. \A k \in from .. n : Clean(ids[k]) => ids[k] \in Materialize(t, slice).strings
  <2>1. \A k \in from .. n : Clean(ids[k]) => ids[k] \in Known(slice)
    BY <1>7, Zenon DEF Known
  <2> QED
    BY <1>8, <2>1, Zenon
<1>10. Converged(Materialize(t, slice), ids, from)
  BY <1>2, <1>9, Zenon DEF Converged
<1> QED
  BY <1>5, <1>6, <1>10, Zenon

\* The run-stitching scan and the careful one serve the call.
LEMMA ScanServes ==
    ASSUME NEW c, NEW t \in Tables, NEW S, NEW ids \in Seq(S), NEW from, NEW prefix, Ready(ids, from, prefix)
    PROVE  /\ Serves(t, DecodeRunStitched(c, t, ids, from, prefix), ids)
           /\ Serves(t, DecodeCareful(c, t, ids, from, prefix), ids)
<1>1. from \in 1 .. Len(ids)
  BY DEF Ready
<1>2. PICK stop : stop = Stop(c, ids, from)
  BY Zenon
<1>3. stop \in from .. Len(ids) + 1
  BY <1>1, <1>2, StopIs
<1>4. PICK seen : seen = Materialize(t, Slice(ids, from, stop - 1)) /\ Grows(t, seen)
  BY Materializes
<1>5. Grows(t, t)
  BY TablesAre
<1>6. /\ Serves(t, Fallback(t, ids), ids) /\ Serves(t, Fallback(seen, ids), ids)
      /\ Serves(t, Latin1(t, ids), ids) /\ Serves(t, Latin1(seen, ids), ids)
      /\ Serves(t, DecodeDirty(c, t, ids), ids) /\ Serves(t, DecodeDirty(c, seen, ids), ids)
  BY <1>4, <1>5, FallbackServes, Latin1Serves, DirtyServes
<1>7. stop > Len(ids) => Serves(t, Mixed(c, seen, ids, from, prefix), ids)
  <2> SUFFICES ASSUME stop > Len(ids) PROVE Serves(t, Mixed(c, seen, ids, from, prefix), ids)
    OBVIOUS
  <2>1. ids \in Seq(Present) /\ Converged(seen, ids, from)
    BY <1>2, <1>4, ScanConverges
  <2> QED
    BY <1>4, <2>1, MixedServes
<1>8. ~(stop <= Len(ids)) => stop > Len(ids)
  BY <1>1, <1>3
<1>9. Serves(t, DecodeRunStitched(c, t, ids, from, prefix), ids)
  <2>1. CASE SampleUnknown(ids) \/ SampleOver(ids, MaxMixed)
    BY <1>6, <2>1, Zenon DEF DecodeRunStitched
  <2>2. CASE ~(SampleUnknown(ids) \/ SampleOver(ids, MaxMixed))
    <3>1. CASE stop <= Len(ids) \/ (from = 1 /\ Dirty(ids[1]) /\ RunEnd(ids, 1) = Len(ids))
      BY <1>2, <1>4, <1>6, <2>2, <3>1, Zenon DEF DecodeRunStitched
    <3>2. CASE ~(stop <= Len(ids) \/ (from = 1 /\ Dirty(ids[1]) /\ RunEnd(ids, 1) = Len(ids)))
      BY <1>2, <1>4, <1>7, <1>8, <2>2, <3>2, Zenon DEF DecodeRunStitched
    <3> QED
      BY <3>1, <3>2, Zenon
  <2> QED
    BY <2>1, <2>2
<1>10. Serves(t, DecodeCareful(c, t, ids, from, prefix), ids)
  BY <1>2, <1>4, <1>6, <1>7, Zenon DEF DecodeCareful
<1> QED
  BY <1>9, <1>10

(***************************************************************************)
(* What is prepared for the ids                                            *)
(***************************************************************************)
Planned(plan, ids) ==
    \/ plan.route = "joined" /\ ids \in Seq(Cleans) /\ plan.prefix = Prefix(ids, Len(ids) + 1)
    \/ plan.route = "core"
    \/ plan.route = "missed" /\ Ready(ids, plan.from, plan.prefix)

\* The parts of a plan.
LEMMA PlansAre ==
    /\ \A text : Joined(text).route = "joined" /\ Joined(text).prefix = text
    /\ \A from, prefix : /\ Missed(from, prefix).route = "missed" /\ Missed(from, prefix).from = from
                         /\ Missed(from, prefix).prefix = prefix
    /\ ToCore.route = "core"
BY DEF Joined, Missed, ToCore

\* The text of nothing.
LEMMA PrefixOfNone ==
    ASSUME NEW ids
    PROVE  Prefix(ids, 1) = <<>>
<1>1. [k \in 1 .. 1 - 1 |-> TextOf(ids[k])] = <<>>
  OBVIOUS
<1> QED
  BY <1>1, FlattenEmpty, Zenon DEF Prefix

\* Ids that all have their strings.
LEMMA JoinedText ==
    ASSUME NEW ids \in Seq(Cleans)
    PROVE  Text(Prefix(ids, Len(ids) + 1)) = CoreDecode(ids)
<1>1. PICK n \in Nat : n = Len(ids) /\ n + 1 \in 1 .. Len(ids) + 1 /\ \A k \in 1 .. n + 1 - 1 : ids[k] \in Cleans
  OBVIOUS
<1>2. PrefixIs(ids, n + 1)
  BY <1>1, CleanPrefixes
<1>3. Before(ids, n + 1) = ids
  <2>1. PICK m \in Nat : m = n + 1 /\ m - 1 = n
    BY <1>1
  <2>2. SubSeq(ids, 1, n) = ids
    BY <1>1
  <2>3. Before(ids, m) = ids
    BY <2>1, <2>2, Zenon DEF Before
  <2> QED
    BY <2>1, <2>3
<1>4. Prefix(ids, n + 1) = Lossy(BytesOf(ids))
  BY <1>2, <1>3, Zenon DEF PrefixIs
<1>5. \A k \in DOMAIN ids : ~Unknown(ids[k])
  <2>1. \A k \in DOMAIN ids : ids[k] \in Cleans
    OBVIOUS
  <2> QED
    BY <2>1, Zenon DEF Cleans, Clean
<1> QED
  BY <1>1, <1>4, <1>5, Zenon DEF CoreDecode

\* What was planned for the ids serves them.
LEMMA DecodeByServes ==
    ASSUME NEW c, NEW t \in Tables, NEW S, NEW ids \in Seq(S), NEW plan, Planned(plan, ids)
    PROVE  Serves(t, DecodeBy(c, t, ids, plan), ids)
<1>1. Grows(t, t)
  BY TablesAre
<1>2. CASE plan.route = "joined" /\ ids \in Seq(Cleans) /\ plan.prefix = Prefix(ids, Len(ids) + 1)
  <2>1. DecodeBy(c, t, ids, plan) = Answered(t, Text(plan.prefix))
    BY <1>2 DEF DecodeBy
  <2>2. Text(plan.prefix) = CoreDecode(ids)
    BY <1>2, JoinedText
  <2> QED
    BY <1>1, <2>1, <2>2, AnswersAsCore
<1>3. CASE plan.route = "core"
  <2>1. DecodeBy(c, t, ids, plan) = Fallback(t, ids)
    BY <1>3 DEF DecodeBy
  <2> QED
    BY <1>1, <2>1, FallbackServes
<1>4. CASE plan.route = "missed" /\ Ready(ids, plan.from, plan.prefix)
  <2>1. DecodeBy(c, t, ids, plan) = IF c.runStitcher THEN DecodeRunStitched(c, t, ids, plan.from, plan.prefix)
                                    ELSE DecodeCareful(c, t, ids, plan.from, plan.prefix)
    BY <1>4 DEF DecodeBy
  <2>2. /\ Serves(t, DecodeRunStitched(c, t, ids, plan.from, plan.prefix), ids)
        /\ Serves(t, DecodeCareful(c, t, ids, plan.from, plan.prefix), ids)
    BY <1>4, ScanServes
  <2> QED
    BY <2>1, <2>2, Zenon
<1> QED
  BY <1>2, <1>3, <1>4, Zenon DEF Planned

\* Before the first miss every token has a string.
LEMMA FirstMissIs ==
    ASSUME NEW t \in Tables, NEW S, NEW ids \in Seq(S)
    PROVE  /\ FirstMiss(t, ids) \in 1 .. Len(ids) + 1
           /\ \A k \in 1 .. FirstMiss(t, ids) - 1 : ids[k] \in Cleans
<1>1. PICK n \in Nat : n = Len(ids) /\ DOMAIN ids = 1 .. n
  OBVIOUS
<1>2. t.strings \subseteq Cleans
  BY TablesAre
<1>3. PICK misses : misses = {k \in 1 .. n : ids[k] \notin t.strings}
  BY Zenon
<1>4. CASE misses = {}
  <2>1. FirstMiss(t, ids) = n + 1
    BY <1>1, <1>3, <1>4, Zenon DEF FirstMiss
  <2>2. n + 1 - 1 = n
    BY <1>1
  <2>3. \A k \in 1 .. n : ids[k] \in Cleans
    BY <1>2, <1>3, <1>4
  <2>4. \A k \in 1 .. FirstMiss(t, ids) - 1 : ids[k] \in Cleans
    BY <2>1, <2>2, <2>3
  <2>5. FirstMiss(t, ids) \in 1 .. Len(ids) + 1
    BY <1>1, <2>1
  <2> QED
    BY <2>4, <2>5
<1>5. CASE misses # {}
  <2>1. misses \in SUBSET Nat /\ misses \subseteq 1 .. n
    BY <1>3
  <2>2. \E k \in misses : \A j \in misses : k <= j
    BY <1>5, <2>1, LeastMember
  <2>3. PICK k \in misses : k = (CHOOSE i \in misses : \A j \in misses : i <= j) /\ \A j \in misses : k <= j
    BY <2>2, Zenon
  <2>4. FirstMiss(t, ids) = k
    BY <1>1, <1>3, <1>5, <2>3, Zenon DEF FirstMiss
  <2>5. k \in 1 .. n
    BY <2>1
  <2>6. \A j \in 1 .. k - 1 : j \in 1 .. n /\ ~(k <= j)
    BY <2>5
  <2>7. \A j \in 1 .. k - 1 : ids[j] \in Cleans
    BY <1>2, <1>3, <2>3, <2>6
  <2> QED
    BY <1>1, <2>4, <2>5, <2>7
<1> QED
  BY <1>4, <1>5

\* What prepare plans is a plan for this array.
LEMMA PreparedPlans ==
    ASSUME NEW c, NEW t \in Tables, NEW S, NEW ids \in Seq(S), NEW scratch
    PROVE  Planned(Prepared(c, t, ids, scratch), ids)
<1>1. PICK miss : miss = FirstMiss(t, ids)
  BY Zenon
<1>2. PICK n \in Nat : n = Len(ids)
  OBVIOUS
<1>3. miss \in 1 .. n + 1 /\ \A k \in 1 .. miss - 1 : ids[k] \in Cleans
  BY <1>1, <1>2, FirstMissIs
<1>4. ids = <<>> => Planned(Joined(<<>>), ids)
  <2> SUFFICES ASSUME ids = <<>> PROVE Planned(Joined(<<>>), ids)
    OBVIOUS
  <2>1. ids \in Seq(Cleans) /\ Len(ids) + 1 = 1
    BY EmptySeq
  <2>2. Prefix(ids, 1) = <<>>
    BY PrefixOfNone
  <2>3. Joined(<<>>).route = "joined" /\ Joined(<<>>).prefix = <<>>
    BY PlansAre, Zenon
  <2> QED
    BY <2>1, <2>2, <2>3, Zenon DEF Planned
<1>5. Planned(ToCore, ids)
  BY PlansAre, Zenon DEF Planned
<1>6. miss > Len(ids) => Planned(Joined(Prefix(ids, miss)), ids)
  <2> SUFFICES ASSUME miss > Len(ids) PROVE Planned(Joined(Prefix(ids, miss)), ids)
    OBVIOUS
  <2>1. miss = Len(ids) + 1 /\ miss - 1 = n
    BY <1>2, <1>3
  <2>2. ids \in Seq(Cleans)
    <3>1. ids \in [1 .. n -> Cleans]
      BY <1>2, <1>3, <2>1
    <3> QED
      BY <3>1, Listed
  <2>3. PICK text : text = Prefix(ids, miss)
    BY Zenon
  <2>4. Joined(text).route = "joined" /\ Joined(text).prefix = text
    BY PlansAre, Zenon
  <2> QED
    BY <2>1, <2>2, <2>3, <2>4, Zenon DEF Planned
<1>7. ids # <<>> /\ ~(miss > Len(ids)) => Planned(Missed(miss, Prefix(ids, miss)), ids)
  <2> SUFFICES ASSUME ids # <<>>, ~(miss > Len(ids)) PROVE Planned(Missed(miss, Prefix(ids, miss)), ids)
    BY Zenon
  <2>1. Ready(ids, miss, Prefix(ids, miss))
    <3>1. miss \in 1 .. Len(ids)
      BY <1>2, <1>3
    <3> QED
      BY <1>3, <3>1, Zenon DEF Ready
  <2>2. PICK text : text = Prefix(ids, miss)
    BY Zenon
  <2>3. Missed(miss, text).route = "missed" /\ Missed(miss, text).from = miss /\ Missed(miss, text).prefix = text
    BY PlansAre, Zenon
  <2> QED
    BY <2>1, <2>2, <2>3, Zenon DEF Planned
<1>8. ids # <<>> => Planned(Missed(1, <<>>), ids)
  <2> SUFFICES ASSUME ids # <<>> PROVE Planned(Missed(1, <<>>), ids)
    OBVIOUS
  <2>1. 1 \in 1 .. Len(ids) /\ \A k \in 1 .. 1 - 1 : ids[k] \in Cleans
    BY EmptySeq
  <2>2. Ready(ids, 1, <<>>)
    BY <2>1, PrefixOfNone, Zenon DEF Ready
  <2>3. Missed(1, <<>>).route = "missed" /\ Missed(1, <<>>).from = 1 /\ Missed(1, <<>>).prefix = <<>>
    BY PlansAre, Zenon
  <2> QED
    BY <2>2, <2>3, Zenon DEF Planned
<1>9. \/ Prepared(c, t, ids, scratch) = Joined(<<>>) /\ ids = <<>>
      \/ Prepared(c, t, ids, scratch) = ToCore
      \/ Prepared(c, t, ids, scratch) = Joined(Prefix(ids, miss)) /\ miss > Len(ids)
      \/ Prepared(c, t, ids, scratch) = Missed(miss, Prefix(ids, miss)) /\ ids # <<>> /\ ~(miss > Len(ids))
      \/ Prepared(c, t, ids, scratch) = Missed(1, <<>>) /\ ids # <<>>
  <2>1. CASE ids = <<>>
    <3>1. Prepared(c, t, ids, scratch) = Joined(<<>>)
      BY <2>1 DEF Prepared
    <3> QED
      BY <2>1, <3>1
  <2>2. CASE ids # <<>>
    <3> DEFINE P1 == ids # <<>> /\ ~c.runStitcher /\ Len(ids) > MaxTableIds
               P2 == /\ ids # <<>> /\ ~c.runStitcher /\ Len(ids) <= MaxTableIds /\ scratch
                     /\ SampleUnknown(ids) \/ SampleOver(ids, MaxMixed)
    <3>1. Prepared(c, t, ids, scratch) =
              CASE ids = <<>> -> Joined(<<>>) [] P1 -> ToCore [] P2 -> ToCore
                [] OTHER -> IF miss > Len(ids) THEN Joined(Prefix(ids, miss))
                            ELSE IF c.fusedValidation THEN Missed(miss, Prefix(ids, miss))
                            ELSE Missed(1, <<>>)
      BY <1>1, Zenon DEF Prepared
    <3> HIDE DEF P1, P2
    <3>2. CASE P1 \/ P2
      BY <2>2, <3>1, <3>2
    <3>3. CASE ~P1 /\ ~P2
      <4>1. Prepared(c, t, ids, scratch) = IF miss > Len(ids) THEN Joined(Prefix(ids, miss))
                            ELSE IF c.fusedValidation THEN Missed(miss, Prefix(ids, miss))
                            ELSE Missed(1, <<>>)
        BY <2>2, <3>1, <3>3
      <4> QED
        BY <2>2, <4>1, Zenon
    <3> QED
      BY <3>2, <3>3, Zenon
  <2> QED
    BY <2>1, <2>2
<1> QED
  BY <1>4, <1>5, <1>6, <1>7, <1>8, <1>9, Zenon

\* initialize() and the decoder below the hot strings.
LEMMA SeededGrows ==
    ASSUME NEW t \in Tables
    PROVE  Grows(t, Seeded(t)) /\ Seeded(t) \in Tables
<1>1. Grows(t, Seeded(t))
  BY Materializes, Zenon DEF Seeded
<1> QED
  BY <1>1 DEF Grows

\* A call served from a grown table is served from the table before.
LEMMA ServesOn ==
    ASSUME NEW t, NEW u, Grows(t, u), NEW answered, NEW ids, Serves(u, answered, ids)
    PROVE  Serves(t, answered, ids)
BY GrowsOn DEF Serves

\* The whole inner decoder, route by route, serves the call.
THEOREM InnerServes ==
    ASSUME NEW t \in Tables, NEW S, NEW ids \in Seq(S)
    PROVE  Serves(t, Inner(t, ids), ids)
<1>1. PICK seeded \in Tables : seeded = Seeded(t) /\ Grows(t, seeded)
  BY SeededGrows
<1>2. PICK plan : plan = Prepared(config, seeded, ids, FALSE)
  BY Zenon
<1>3. Planned(plan, ids)
  BY <1>2, PreparedPlans
<1>4. Serves(seeded, DecodeBy(config, seeded, ids, plan), ids)
  BY <1>3, DecodeByServes
<1>5. Serves(t, DecodeBy(config, seeded, ids, plan), ids)
  BY <1>1, <1>4, ServesOn
<1>6. Serves(t, Fallback(t, ids), ids)
  BY TablesAre, FallbackServes
<1> QED
  BY <1>1, <1>2, <1>5, <1>6, Zenon DEF Inner

(***************************************************************************)
(* The hot strings                                                         *)
(***************************************************************************)
HotStates == [initialized : BOOLEAN, active : BOOLEAN, cached : SUBSET Cleans, entries : Nat,
              payloadBytes : Nat, distinct : Nat, observed : Nat, covered : Nat]
HotOf(i, a, c, e, p, d, o, v) ==
    [initialized |-> i, active |-> a, cached |-> c, entries |-> e,
     payloadBytes |-> p, distinct |-> d, observed |-> o, covered |-> v]

\* The parts of the state of the hot strings.
LEMMA HotStatesAre ==
    ASSUME NEW h \in HotStates
    PROVE  \E i, a \in BOOLEAN, c \in SUBSET Cleans, e, p, d, o, v \in Nat :
               h = HotOf(i, a, c, e, p, d, o, v)
<1>1. h = HotOf(h.initialized, h.active, h.cached, h.entries, h.payloadBytes, h.distinct, h.observed, h.covered)
  BY DEF HotStates, HotOf
<1>2. /\ h.initialized \in BOOLEAN /\ h.active \in BOOLEAN /\ h.cached \in SUBSET Cleans /\ h.entries \in Nat
      /\ h.payloadBytes \in Nat /\ h.distinct \in Nat /\ h.observed \in Nat /\ h.covered \in Nat
  BY DEF HotStates
<1> QED
  BY <1>1, <1>2, Zenon

\* The same, the other way.
LEMMA HotOfIs ==
    ASSUME NEW i \in BOOLEAN, NEW a \in BOOLEAN, NEW c \in SUBSET Cleans, NEW e \in Nat, NEW p \in Nat,
           NEW d \in Nat, NEW o \in Nat, NEW v \in Nat
    PROVE  /\ HotOf(i, a, c, e, p, d, o, v) \in HotStates
           /\ HotOf(i, a, c, e, p, d, o, v).initialized = i /\ HotOf(i, a, c, e, p, d, o, v).cached = c
           /\ HotOf(i, a, c, e, p, d, o, v).distinct = d
BY DEF HotStates, HotOf

\* The counts the hot strings are chosen by.
LEMMA Counting ==
    ASSUME NEW S, NEW ids \in Seq(S)
    PROVE  /\ \A id : Frequency(ids, id) \in Nat
           /\ IsFiniteSet(Counted(ids)) /\ Cardinality(Counted(ids)) \in Nat
           /\ Counted(ids) \subseteq {ids[k] : k \in DOMAIN ids}
<1>1. PICK n \in Nat : n = Len(ids) /\ DOMAIN ids = 1 .. n
  OBVIOUS
<1>2. IsFiniteSet(1 .. n)
  BY FS_Interval
<1>3. ASSUME NEW id PROVE Frequency(ids, id) \in Nat
  <2>1. {k \in 1 .. n : ids[k] = id} \subseteq 1 .. n
    BY Zenon
  <2>2. IsFiniteSet({k \in 1 .. n : ids[k] = id})
    BY <1>2, <2>1, FS_Subset
  <2> QED
    BY <1>1, <2>2, FS_CardinalityType, Zenon DEF Frequency
<1>4. PICK K : K = {k \in DOMAIN ids : DirectIndex => \A j \in 1 .. k : ids[j] \in Vocabulary}
  BY Zenon
<1>5. K \subseteq 1 .. n
  BY <1>1, <1>4, Zenon
<1>6. IsFiniteSet(K)
  BY <1>2, <1>5, FS_Subset
<1>7. IsFiniteSet({ids[k] : k \in K})
  <2>1. PICK T : T = {ids[k] : k \in K}
    BY Zenon
  <2>2. PICK f : f = [k \in K |-> ids[k]]
    BY Zenon
  <2>3. f \in Surjection(K, T)
    BY <2>1, <2>2 DEF Surjection
  <2> QED
    BY <1>6, <2>1, <2>3, FS_Surjection
<1>8. Counted(ids) = {ids[k] : k \in K}
  BY <1>4, Zenon DEF Counted
<1> QED
  BY <1>1, <1>3, <1>5, <1>7, <1>8, FS_CardinalityType, Zenon

\* With a direct index, what is counted are numbers.
LEMMA CountedIds ==
    ASSUME NEW S, NEW ids \in Seq(S), DirectIndex
    PROVE  Counted(ids) \subseteq Nat
<1>1. Vocabulary \subseteq Nat
  BY DEF Vocabulary
<1>2. ASSUME NEW k \in DOMAIN ids, \A j \in 1 .. k : ids[j] \in Vocabulary PROVE ids[k] \in Nat
  <2>1. k \in 1 .. k
    BY <1>2
  <2> QED
    BY <1>1, <1>2, <2>1, Zenon
<1> QED
  BY <1>2, Zenon DEF Counted

\* Being used more is an order.
LEMMA HotterOrders ==
    ASSUME NEW S, NEW ids \in Seq(S)
    PROVE  \A i, j, k \in Nat : /\ ~Hotter(ids, i, i)
                                /\ Hotter(ids, i, j) /\ Hotter(ids, j, k) => Hotter(ids, i, k)
<1> SUFFICES ASSUME NEW i \in Nat, NEW j \in Nat, NEW k \in Nat
             PROVE  /\ ~Hotter(ids, i, i)
                    /\ Hotter(ids, i, j) /\ Hotter(ids, j, k) => Hotter(ids, i, k)
  OBVIOUS
<1>1. PICK x, y, z \in Nat : x = Frequency(ids, i) /\ y = Frequency(ids, j) /\ z = Frequency(ids, k)
  BY Counting
<1>2. /\ Hotter(ids, i, i) <=> (x > x \/ (x = x /\ i < i))
      /\ Hotter(ids, i, j) <=> (x > y \/ (x = y /\ i < j))
      /\ Hotter(ids, j, k) <=> (y > z \/ (y = z /\ j < k))
      /\ Hotter(ids, i, k) <=> (x > z \/ (x = z /\ i < k))
  BY <1>1 DEF Hotter
<1> QED
  BY <1>2

\* Fewer than asked for are all there are: of those left out, the hottest would have its place.
LEMMA HottestAll ==
    ASSUME NEW S, NEW ids \in Seq(S), NEW n \in Nat, DirectIndex, Cardinality(Hottest(ids, n)) < n
    PROVE  Hottest(ids, n) = Counted(ids)
<1> DEFINE Above(i) == {j \in Counted(ids) : Hotter(ids, j, i)}
<1>0. \A i, j, k \in Nat : /\ ~Hotter(ids, i, i)
                           /\ Hotter(ids, i, j) /\ Hotter(ids, j, k) => Hotter(ids, i, k)
  BY HotterOrders
<1>1. PICK C \in SUBSET Nat : C = Counted(ids) /\ IsFiniteSet(C)
  BY CountedIds, Counting
<1>2. PICK H \in SUBSET C : H = Hottest(ids, n) /\ \A i \in C : i \in H <=> Cardinality(Above(i)) < n
  <2>1. Hottest(ids, n) = {i \in C : Cardinality(Above(i)) < n}
    BY <1>1, Zenon DEF Hottest
  <2> HIDE DEF Above
  <2> QED
    BY <2>1
<1>3. IsFiniteSet(H) /\ Cardinality(H) \in Nat
  BY <1>1, FS_Subset, FS_CardinalityType
<1>4. ASSUME NEW i PROVE Above(i) \in SUBSET C /\ IsFiniteSet(Above(i)) /\ Cardinality(Above(i)) \in Nat
  <2>1. Above(i) \in SUBSET C
    BY <1>1, Zenon
  <2>2. IsFiniteSet(Above(i))
    BY <1>1, <2>1, FS_Subset
  <2> HIDE DEF Above
  <2> QED
    BY <2>1, <2>2, FS_CardinalityType, Zenon
<1>5. ASSUME NEW i \in C, NEW j \in Above(i) PROVE Cardinality(Above(j)) < Cardinality(Above(i))
  <2>1. j \in C /\ Hotter(ids, j, i) /\ i \in Nat /\ j \in Nat
    BY <1>1, <1>5
  <2>2. \A k \in C : Hotter(ids, k, j) => Hotter(ids, k, i)
    BY <1>0, <1>1, <2>1, Zenon
  <2>3. Above(j) \in SUBSET Above(i) /\ j \notin Above(j)
    <3>1. ~Hotter(ids, j, j)
      BY <1>0, <2>1, Zenon
    <3> QED
      BY <1>1, <2>2, <3>1, Zenon
  <2> HIDE DEF Above
  <2>4. Cardinality(Above(j)) <= Cardinality(Above(i)) /\ Cardinality(Above(i)) # Cardinality(Above(j))
    <3>1. Above(i) # Above(j)
      BY <1>5, <2>3, Zenon
    <3> QED
      BY <1>4, <2>3, <3>1, FS_Subset, Zenon
  <2> QED
    BY <1>4, <2>4
<1> HIDE DEF Above
<1>6. ASSUME C \ H # {} PROVE FALSE
  <2>1. PICK R \in SUBSET Nat : R = {Cardinality(Above(i)) : i \in C \ H}
    BY <1>4, Zenon
  <2>2. R # {}
    BY <1>6, <2>1, Zenon
  <2>3. PICK m \in R : \A x \in R : m <= x
    BY <2>2, LeastMember, Zenon
  <2>4. PICK i \in C \ H : m = Cardinality(Above(i))
    BY <2>1, <2>3, Zenon
  <2>5. Above(i) \in SUBSET H
    <3>1. ASSUME NEW j \in Above(i), j \notin H PROVE FALSE
      <4>1. j \in C /\ Cardinality(Above(j)) \in R
        BY <1>4, <2>1, <3>1, Zenon
      <4>2. m <= Cardinality(Above(j)) /\ Cardinality(Above(j)) < m
        BY <1>5, <2>3, <2>4, <3>1, <4>1, Zenon
      <4>3. m \in Nat /\ Cardinality(Above(j)) \in Nat
        BY <4>1
      <4> QED
        BY <4>2, <4>3
    <3> QED
      BY <3>1, Zenon
  <2>6. m <= Cardinality(H)
    BY <1>3, <2>4, <2>5, FS_Subset, Zenon
  <2>7. ~(m < n)
    BY <1>2, <2>4, Zenon
  <2>8. m \in Nat /\ Cardinality(H) < n
    BY <1>2
  <2> QED
    BY <1>3, <2>6, <2>7, <2>8
<1> QED
  BY <1>1, <1>2, <1>6, Zenon

\* Is the heap longer than the ids that are put into it?
Longer(h, ids) == DirectIndex /\ Cardinality(Counted(ids)) < ObservedDistinct(h, ids)
\* What is selected is of the ids; a heap that is too long names token 0 besides.
Selected(h, ids) == {ids[k] : k \in DOMAIN ids} \union (IF Longer(h, ids) THEN {0} ELSE {})
\* Every order the sort may leave is one of selected tokens.
LEMMA OrdersAre ==
    ASSUME NEW h \in HotStates, NEW S, NEW ids \in Seq(S), NEW order \in Orders(h, ids)
    PROVE  order \in Seq(Selected(h, ids)) /\ ObservedDistinct(h, ids) \in Nat
<1>1. PICK c \in Nat : c = Cardinality(Counted(ids))
  BY Counting
<1>2. h.distinct \in Nat
  BY DEF HotStates
<1>3. PICK distinct \in Nat : distinct = ObservedDistinct(h, ids)
  <2>1. (IF DirectIndex THEN h.distinct ELSE 0) + c \in Nat
    BY <1>1, <1>2
  <2> QED
    BY <1>1, <2>1, HotAssumption, Zenon DEF ObservedDistinct
<1>4. PICK capacity \in Nat : capacity = IF distinct < MaxHotEntries THEN distinct ELSE MaxHotEntries
  BY <1>3, HotAssumption
<1>5. PICK hottest : hottest = Hottest(ids, capacity)
  BY Zenon
<1>6. hottest \subseteq Counted(ids)
  BY <1>5, Zenon DEF Hottest
<1>7. PICK m \in Nat : m = Cardinality(hottest)
  <2>1. IsFiniteSet(hottest)
    BY <1>6, Counting, FS_Subset
  <2> QED
    BY <2>1, FS_CardinalityType
<1>8. PICK T : T = {ids[k] : k \in DOMAIN ids} /\ hottest \subseteq T
  BY <1>6, Counting, Zenon
<1>9. ASSUME NEW o \in SetToSeqs(hottest) PROVE o \in Seq(T)
  <2>1. o \in [1 .. m -> hottest]
    BY <1>7, Zenon DEF SetToSeqs
  <2>2. o \in Seq(hottest)
    BY <2>1, Listed
  <2> QED
    BY <1>8, <2>2, SeqMonotonic
<1>10. CASE DirectIndex /\ m < capacity
  <2>0. Longer(h, ids)
    <3>1. hottest = Counted(ids)
      BY <1>4, <1>5, <1>7, <1>10, HottestAll
    <3>2. m < distinct
      BY <1>3, <1>4, <1>7, <1>10, HotAssumption
    <3> QED
      BY <1>3, <1>7, <1>10, <3>1, <3>2, Zenon DEF Longer
  <2>1. PICK rest : rest = [k \in 1 .. capacity - m |-> 0]
    BY Zenon
  <2>2. rest \in Seq({0})
    <3>1. PICK r \in Nat : r = capacity - m
      BY <1>10
    <3>2. rest \in [1 .. r -> {0}]
      BY <2>1, <3>1
    <3> QED
      BY <3>2, Listed
  <2>3. PICK o \in SetToSeqs(hottest) : order = o \o rest
    BY <1>3, <1>4, <1>5, <1>7, <1>10, <2>1, Zenon DEF Orders
  <2>4. PICK U : U = Selected(h, ids) /\ T \subseteq U /\ {0} \subseteq U
    <3>1. Selected(h, ids) = T \union {0}
      BY <1>8, <2>0, Zenon DEF Selected
    <3>2. T \subseteq T \union {0} /\ {0} \subseteq T \union {0}
      OBVIOUS
    <3> QED
      BY <3>1, <3>2, Zenon
  <2>5. o \in Seq(U) /\ rest \in Seq(U)
    BY <1>9, <2>2, <2>4, SeqMonotonic
  <2>6. o \o rest \in Seq(U)
    BY <2>5, ConcatProperties, Zenon
  <2> QED
    BY <1>3, <2>3, <2>4, <2>6
<1>11. T \subseteq Selected(h, ids)
  BY <1>8, Zenon DEF Selected
<1>12. ASSUME NEW o \in SetToSeqs(hottest) PROVE o \in Seq(Selected(h, ids))
  BY <1>9, <1>11, <1>12, SeqMonotonic
<1>13. CASE DirectIndex /\ ~(m < capacity)
  <2>1. PICK rest : rest = [k \in 1 .. capacity - m |-> 0]
    BY Zenon
  <2>2. rest = <<>>
    <3>1. 1 .. capacity - m = {}
      BY <1>13
    <3> QED
      BY <2>1, <3>1
  <2>3. PICK o \in SetToSeqs(hottest) : order = o \o rest
    BY <1>3, <1>4, <1>5, <1>7, <1>13, <2>1, Zenon DEF Orders
  <2>4. o \in Seq(Selected(h, ids)) /\ o \o <<>> = o
    BY <1>12, ConcatEmptySeq
  <2> QED
    BY <1>3, <2>2, <2>3, <2>4, Zenon
<1>14. CASE ~DirectIndex
  <2>1. order \in SetToSeqs(hottest)
    BY <1>3, <1>4, <1>5, <1>14, Zenon DEF Orders
  <2> QED
    BY <1>3, <1>12, <2>1, Zenon
<1> QED
  BY <1>10, <1>13, <1>14

\* The string the hot strings hold of a clean token is its text, but for a leading byte order mark.
LEMMA HotTexts ==
    ASSUME NEW id \in Cleans
    PROVE  HotText(id) \in Chars /\ (TextOf(id)[1] # BOM => HotText(id) = TextOf(id))
<1>1. CleanToken(id)
  BY CleanTextsAre
<1>2. PICK text \in Chars : text = Lossy(TokenBytes(id)) /\ text = TextOf(id)
  BY <1>1 DEF CleanToken
<1>3. text # <<>> => Tail(text) \in Chars
  BY DEF Chars
<1> QED
  BY <1>2, <1>3, Zenon DEF HotText

\* Taking one hot string.
LEMMA Takes ==
    ASSUME NEW h \in HotStates, NEW S, NEW ids \in Seq(S), NEW id
    PROVE  /\ Take(h, ids, id) \in HotStates
           /\ Take(h, ids, id).initialized = h.initialized /\ Take(h, ids, id).distinct = h.distinct
<1>1. PICK i, a \in BOOLEAN, c \in SUBSET Cleans, e, p, d, o, v \in Nat : h = HotOf(i, a, c, e, p, d, o, v)
  BY HotStatesAre, Zenon
<1>2. CASE id \in Cleans
  <2>1. PICK retained \in Nat : retained = 2 * Len(HotText(id))
    <3>1. HotText(id) \in Chars
      BY <1>2, HotTexts
    <3>2. Len(HotText(id)) \in Nat
      BY <3>1 DEF Chars
    <3> QED
      BY <3>2
  <2>2. PICK f \in Nat : f = Frequency(ids, id)
    BY Counting
  <2>3. PICK more \in SUBSET Cleans : more = c \union {id}
    BY <1>2
  <2>4. PICK e1, p1, v1 \in Nat : e1 = e + 1 /\ p1 = p + retained /\ v1 = v + f
    <3>1. e + 1 \in Nat /\ p + retained \in Nat /\ v + f \in Nat
      BY <2>1, <2>2
    <3> QED
      BY <3>1, Zenon
  <2>5. h.cached = c /\ h.entries = e /\ h.payloadBytes = p /\ h.covered = v
    BY <1>1 DEF HotOf
  <2>6. [h EXCEPT !.cached = more, !.entries = e1, !.payloadBytes = p1, !.covered = v1]
          = HotOf(i, a, more, e1, p1, d, o, v1)
    <3>1. PICK g : g = [h EXCEPT !.cached = more, !.entries = e1]
      BY Zenon
    <3>2. g = HotOf(i, a, more, e1, p, d, o, v)
      BY <1>1, <3>1 DEF HotOf
    <3>3. [g EXCEPT !.payloadBytes = p1, !.covered = v1] = HotOf(i, a, more, e1, p1, d, o, v1)
      <4>1. PICK q : q = [g EXCEPT !.payloadBytes = p1]
        BY Zenon
      <4>2. q = HotOf(i, a, more, e1, p1, d, o, v)
        BY <3>2, <4>1 DEF HotOf
      <4>3. [q EXCEPT !.covered = v1] = HotOf(i, a, more, e1, p1, d, o, v1)
        BY <4>2 DEF HotOf
      <4>4. [g EXCEPT !.payloadBytes = p1, !.covered = v1] = [q EXCEPT !.covered = v1]
        BY <4>1
      <4> QED
        BY <4>3, <4>4, Zenon
    <3>4. [h EXCEPT !.cached = more, !.entries = e1, !.payloadBytes = p1, !.covered = v1]
            = [g EXCEPT !.payloadBytes = p1, !.covered = v1]
      BY <3>1
    <3> QED
      BY <3>3, <3>4, Zenon
  <2>7. Take(h, ids, id) = h \/ Take(h, ids, id) = HotOf(i, a, more, e1, p1, d, o, v1)
    <3>1. [h EXCEPT !.cached = @ \union {id}, !.entries = @ + 1,
                    !.payloadBytes = @ + retained, !.covered = @ + Frequency(ids, id)]
            = [h EXCEPT !.cached = more, !.entries = e1, !.payloadBytes = p1, !.covered = v1]
      BY <2>2, <2>3, <2>4, <2>5, Zenon
    <3> QED
      BY <2>1, <2>6, <3>1, Zenon DEF Take
  <2>8. HotOf(i, a, more, e1, p1, d, o, v1) \in HotStates /\ HotOf(i, a, more, e1, p1, d, o, v1).initialized = i
        /\ HotOf(i, a, more, e1, p1, d, o, v1).distinct = d /\ h.initialized = i /\ h.distinct = d
    BY <1>1, HotOfIs
  <2> QED
    BY <2>7, <2>8, Zenon
<1>3. CASE id \notin Cleans
  <2>1. Unknown(id) \/ ~Clean(id)
    BY <1>3, Zenon DEF Cleans, Unknown
  <2> QED
    BY <2>1, Zenon DEF Take
<1> QED
  BY <1>2, <1>3

\* What has been taken, and whether something threw: then one of the selected is unknown.
Doubt(U) == \E id \in U : Unknown(id)
Taking(h, U) ==
    {s \in [hot : HotStates, threw : BOOLEAN] :
        /\ s.hot.initialized = h.initialized /\ s.hot.distinct = h.distinct
        /\ s.threw => Doubt(U)}
Taken(hot1, threw) == [hot |-> hot1, threw |-> threw]
TakeStep(ids, before, id) ==
    IF before.threw THEN before
    ELSE IF Unknown(id) /\ before.hot.entries # MaxHotEntries
         THEN [before EXCEPT !.threw = TRUE]
         ELSE [before EXCEPT !.hot = Take(before.hot, ids, id)]

\* What taking hot strings carries along.
LEMMA TakingIs ==
    ASSUME NEW h, NEW U, NEW g \in HotStates, NEW threw \in BOOLEAN, g.initialized = h.initialized,
           g.distinct = h.distinct, threw => Doubt(U)
    PROVE  Taken(g, threw) \in Taking(h, U) /\ Taken(g, threw).hot = g /\ Taken(g, threw).threw = threw
<1>1. Taken(g, threw) \in [hot : HotStates, threw : BOOLEAN] /\ Taken(g, threw).hot = g /\ Taken(g, threw).threw = threw
  BY DEF Taken
<1> QED
  BY <1>1, Zenon DEF Taking

\* Taking one more keeps it.
LEMMA TakeSteps ==
    ASSUME NEW h, NEW S, NEW ids \in Seq(S), NEW U, NEW s \in Taking(h, U), NEW id \in U
    PROVE  TakeStep(ids, s, id) \in Taking(h, U)
<1>1. PICK g \in HotStates, threw \in BOOLEAN :
          /\ s = Taken(g, threw) /\ g = s.hot /\ threw = s.threw /\ (threw => Doubt(U))
          /\ g.initialized = h.initialized /\ g.distinct = h.distinct
  <2>1. /\ s \in [hot : HotStates, threw : BOOLEAN] /\ (s.threw => Doubt(U))
        /\ s.hot.initialized = h.initialized /\ s.hot.distinct = h.distinct
    BY Zenon DEF Taking
  <2>2. s = Taken(s.hot, s.threw) /\ s.hot \in HotStates /\ s.threw \in BOOLEAN
    BY <2>1 DEF Taken
  <2> QED
    BY <2>1, <2>2, Zenon
<1>2. CASE threw
  BY <1>1, <1>2, Zenon DEF TakeStep
<1>3. CASE ~threw /\ Unknown(id) /\ g.entries # MaxHotEntries
  <2>1. PICK yes \in BOOLEAN : yes = TRUE
    BY Zenon
  <2>2. [s EXCEPT !.threw = yes] = Taken(g, yes)
    BY <1>1 DEF Taken
  <2>3. TakeStep(ids, s, id) = Taken(g, yes)
    BY <1>1, <1>3, <2>1, <2>2, Zenon DEF TakeStep
  <2>4. Doubt(U)
    BY <1>3, Zenon DEF Doubt
  <2> QED
    BY <1>1, <2>3, <2>4, TakingIs
<1>4. CASE ~threw /\ ~(Unknown(id) /\ g.entries # MaxHotEntries)
  <2>1. PICK f \in HotStates : f = Take(g, ids, id) /\ f.initialized = h.initialized /\ f.distinct = h.distinct
    BY <1>1, Takes
  <2>2. [s EXCEPT !.hot = f] = Taken(f, threw)
    BY <1>1 DEF Taken
  <2>3. TakeStep(ids, s, id) = Taken(f, threw)
    BY <1>1, <1>4, <2>1, <2>2, Zenon DEF TakeStep
  <2> QED
    BY <1>1, <2>1, <2>3, TakingIs
<1> QED
  BY <1>2, <1>3, <1>4

\* So does taking all that come first.
LEMMA TakesBefore ==
    ASSUME NEW h \in HotStates, NEW S, NEW ids \in Seq(S), NEW U, NEW order \in Seq(U)
    PROVE  TakenBefore(h, ids, order) \in Taking(h, U)
<1>1. PICK n \in Nat : n = Len(order)
  OBVIOUS
<1>2. PICK T : T = Taking(h, U)
  BY Zenon
<1>3. PICK base \in T : base = [hot |-> h, threw |-> FALSE]
  <2>1. PICK no \in BOOLEAN : no = FALSE
    BY Zenon
  <2>2. Taken(h, no) \in T
    BY <1>2, <2>1, TakingIs
  <2> QED
    BY <2>1, <2>2, Zenon DEF Taken
<1>4. \A k \in 1 .. n, s \in T : TakeStep(ids, s, order[k]) \in T
  <2>1. \A k \in 1 .. n : order[k] \in U
    BY <1>1
  <2> QED
    BY <1>2, <2>1, TakeSteps
<1>5. PICK step : step = [k \in 1 .. n |-> [s \in T |-> TakeStep(ids, s, order[k])]]
  BY Zenon
<1>6. step \in [1 .. n -> [T -> T]] /\ \A k \in 1 .. n, s \in T : step[k][s] = TakeStep(ids, s, order[k])
  BY <1>4, <1>5, Zenon
<1>7. PICK f \in [0 .. n -> T] : Follows(f, n, base, step)
  BY <1>6, RecursionExists
<1>8. f[0] = base /\ \A k \in 1 .. n : f[k] = TakeStep(ids, f[k - 1], order[k])
  <2>1. \A k \in 1 .. n : k - 1 \in 0 .. n
    OBVIOUS
  <2>2. \A k \in 1 .. n : f[k - 1] \in T
    BY <2>1
  <2> QED
    BY <1>6, <1>7, <2>2, Zenon DEF Follows
<1> DEFINE Taking2(g) == g = [k \in 0 .. Len(order) |->
            IF k = 0 THEN [hot |-> h, threw |-> FALSE]
            ELSE LET before == g[k - 1] IN
                 IF before.threw THEN before
                 ELSE IF Unknown(order[k]) /\ before.hot.entries # MaxHotEntries
                      THEN [before EXCEPT !.threw = TRUE]
                      ELSE [before EXCEPT !.hot = Take(before.hot, ids, order[k])]]
<1> DEFINE Plain(g) == g = [k \in 0 .. Len(order) |->
            IF k = 0 THEN [hot |-> h, threw |-> FALSE] ELSE TakeStep(ids, g[k - 1], order[k])]
<1>9. \A g : Taking2(g) <=> Plain(g)
  BY Zenon DEF TakeStep
<1>10. Plain(f)
  <2>1. \A k \in 0 .. n : f[k] = IF k = 0 THEN base ELSE TakeStep(ids, f[k - 1], order[k])
    <3>1. \A k \in 0 .. n : k = 0 \/ k \in 1 .. n
      OBVIOUS
    <3>2. \A k \in 1 .. n : k # 0
      OBVIOUS
    <3> QED
      BY <1>8, <3>1, <3>2, Zenon
  <2> QED
    BY <1>1, <1>3, <1>7, <2>1, Zenon
<1>11. PICK it : it = CHOOSE g : Taking2(g)
  BY Zenon
<1>12. Plain(it)
  <2>1. Taking2(f)
    BY <1>9, <1>10, Zenon
  <2>2. Taking2(it)
    BY <1>11, <2>1, Zenon
  <2> QED
    BY <1>9, <2>2, Zenon
<1>13. it[0] = base /\ \A k \in 1 .. n : it[k] = TakeStep(ids, it[k - 1], order[k])
  <2>1. 0 \in 0 .. n /\ \A k \in 1 .. n : k \in 0 .. n /\ k # 0
    OBVIOUS
  <2> QED
    BY <1>1, <1>3, <1>12, <2>1, Zenon
<1> DEFINE R == {k \in 0 .. n : it[k] \in T}
<1>14. 0 \in R
  BY <1>13
<1>15. ASSUME NEW k \in 0 .. n - 1, k \in R PROVE k + 1 \in R
  <2>1. PICK m \in 1 .. n : m = k + 1 /\ m - 1 = k /\ m \in 0 .. n
    OBVIOUS
  <2>2. it[m] \in T
    BY <1>4, <1>13, <1>15, <2>1, Zenon
  <2> QED
    BY <2>1, <2>2
<1>16. it[n] \in T
  <2>1. 0 .. n \subseteq R
    <3>1. \A k \in 0 .. n - 1 : k \in R => k + 1 \in R
      BY <1>15, Zenon
    <3> HIDE DEF R
    <3> QED
      BY <1>14, <3>1, UpTo
  <2>2. n \in R
    BY <2>1
  <2> QED
    BY <2>2
<1>17. TakenBefore(h, ids, order) = it[Len(order)]
  BY <1>11, Zenon DEF TakenBefore
<1> QED
  BY <1>1, <1>2, <1>16, <1>17

\* Turning the hot strings on leaves the strings as they are.
LEMMA Activates ==
    ASSUME NEW h \in HotStates
    PROVE  Activate(h) \in HotStates
<1>1. PICK i, a \in BOOLEAN, c \in SUBSET Cleans, e, p, d, o, v \in Nat : h = HotOf(i, a, c, e, p, d, o, v)
  BY HotStatesAre, Zenon
<1>2. PICK yes \in BOOLEAN : yes = TRUE
  BY Zenon
<1>3. PICK none \in SUBSET Cleans : none = {}
  BY Zenon
<1>4. PICK zero \in Nat : zero = 0
  OBVIOUS
<1>5. [h EXCEPT !.initialized = yes, !.active = yes] = HotOf(yes, yes, c, e, p, d, o, v)
  <2>1. PICK g : g = [h EXCEPT !.initialized = yes]
    BY Zenon
  <2>2. g = HotOf(yes, a, c, e, p, d, o, v)
    BY <1>1, <2>1 DEF HotOf
  <2>3. [g EXCEPT !.active = yes] = HotOf(yes, yes, c, e, p, d, o, v)
    BY <2>2 DEF HotOf
  <2>4. [h EXCEPT !.initialized = yes, !.active = yes] = [g EXCEPT !.active = yes]
    BY <2>1
  <2> QED
    BY <2>3, <2>4, Zenon
<1>6. [h EXCEPT !.initialized = yes, !.cached = none, !.entries = zero, !.payloadBytes = zero]
        = HotOf(yes, a, none, zero, zero, d, o, v)
  <2>1. PICK g : g = [h EXCEPT !.initialized = yes, !.cached = none]
    BY Zenon
  <2>2. g = HotOf(yes, a, none, e, p, d, o, v)
    <3>1. PICK q : q = [h EXCEPT !.initialized = yes]
      BY Zenon
    <3>2. q = HotOf(yes, a, c, e, p, d, o, v)
      BY <1>1, <3>1 DEF HotOf
    <3>3. [q EXCEPT !.cached = none] = HotOf(yes, a, none, e, p, d, o, v)
      BY <3>2 DEF HotOf
    <3>4. g = [q EXCEPT !.cached = none]
      BY <2>1, <3>1
    <3> QED
      BY <3>3, <3>4, Zenon
  <2>3. [g EXCEPT !.entries = zero, !.payloadBytes = zero] = HotOf(yes, a, none, zero, zero, d, o, v)
    <3>1. PICK q : q = [g EXCEPT !.entries = zero]
      BY Zenon
    <3>2. q = HotOf(yes, a, none, zero, p, d, o, v)
      BY <2>2, <3>1 DEF HotOf
    <3>3. [q EXCEPT !.payloadBytes = zero] = HotOf(yes, a, none, zero, zero, d, o, v)
      BY <3>2 DEF HotOf
    <3>4. [g EXCEPT !.entries = zero, !.payloadBytes = zero] = [q EXCEPT !.payloadBytes = zero]
      BY <3>1
    <3> QED
      BY <3>3, <3>4, Zenon
  <2>4. [h EXCEPT !.initialized = yes, !.cached = none, !.entries = zero, !.payloadBytes = zero]
          = [g EXCEPT !.entries = zero, !.payloadBytes = zero]
    BY <2>1
  <2> QED
    BY <2>3, <2>4, Zenon
<1>7. \/ Activate(h) = HotOf(yes, yes, c, e, p, d, o, v)
      \/ Activate(h) = HotOf(yes, a, none, zero, zero, d, o, v)
  BY <1>2, <1>3, <1>4, <1>5, <1>6, Zenon DEF Activate
<1> QED
  BY <1>7, HotOfIs

\* initialize() keeps what it must, and throws for an id that is unknown or for token 0.
LEMMA Initializes ==
    ASSUME NEW h \in HotStates, NEW S, NEW ids \in Seq(S), NEW order \in Orders(h, ids), NEW start,
           start = HotInitialized(h, ids, order)
    PROVE  /\ start.hot \in HotStates
           /\ start.threw => /\ ~start.hot.initialized /\ Doubt(Selected(h, ids))
                             /\ start.hot.distinct = ObservedDistinct(h, ids)
<1>0. PICK U : U = Selected(h, ids)
  BY Zenon
<1>1. order \in Seq(U) /\ ObservedDistinct(h, ids) \in Nat
  BY <1>0, OrdersAre
<1>2. PICK i, a \in BOOLEAN, c \in SUBSET Cleans, e, p, d, o, v \in Nat : h = HotOf(i, a, c, e, p, d, o, v)
  BY HotStatesAre, Zenon
<1>3. PICK n, m \in Nat : n = Len(ids) /\ m = ObservedDistinct(h, ids)
  BY <1>1
<1>4. PICK counted \in HotStates : counted = [h EXCEPT !.distinct = ObservedDistinct(h, ids)] /\ counted.initialized = i /\ counted.distinct = m
                                   /\ counted = HotOf(i, a, c, e, p, m, o, v)
  <2>1. [h EXCEPT !.distinct = m] = HotOf(i, a, c, e, p, m, o, v)
    BY <1>2 DEF HotOf
  <2> QED
    BY <1>3, <2>1, HotOfIs
<1>5. PICK begun \in HotStates : begun = [counted EXCEPT !.observed = Len(ids)] /\ begun.initialized = i /\ begun.distinct = m
  <2>1. [counted EXCEPT !.observed = n] = HotOf(i, a, c, e, p, m, n, v)
    <3>1. counted = HotOf(i, a, c, e, p, m, o, v)
      BY <1>4
    <3> QED
      BY <3>1 DEF HotOf
  <2> QED
    BY <1>3, <2>1, HotOfIs
<1>6. PICK taken : taken = TakenBefore(begun, ids, order)
  BY Zenon
<1>7. taken \in Taking(begun, U)
  BY <1>1, <1>6, TakesBefore
<1>8. PICK g \in HotStates, threw \in BOOLEAN :
          /\ taken = Taken(g, threw) /\ taken.hot = g /\ taken.threw = threw /\ (threw => Doubt(U))
          /\ g.initialized = i /\ g.distinct = m
  <2>1. /\ taken \in [hot : HotStates, threw : BOOLEAN] /\ (taken.threw => Doubt(U))
        /\ taken.hot.initialized = begun.initialized /\ taken.hot.distinct = begun.distinct
    BY <1>7, Zenon DEF Taking
  <2>2. taken = Taken(taken.hot, taken.threw) /\ taken.hot \in HotStates /\ taken.threw \in BOOLEAN
    BY <2>1 DEF Taken
  <2> QED
    BY <1>5, <2>1, <2>2, Zenon
<1>9. h.initialized = i
  BY <1>2 DEF HotOf
<1>10. CASE i
  <2>1. start = Taken(h, FALSE)
    BY <1>9, <1>10, Zenon DEF HotInitialized, Taken
  <2>2. start.hot = h /\ start.threw = FALSE
    BY <2>1 DEF Taken
  <2> QED
    BY <2>2
<1>11. CASE ~i /\ DirectIndex /\ \E k \in DOMAIN ids : ids[k] \notin Vocabulary
  <2>1. start = Taken(counted, TRUE)
    BY <1>4, <1>9, <1>11, Zenon DEF HotInitialized, Taken
  <2>2. start.hot = counted /\ start.threw = TRUE
    BY <2>1 DEF Taken
  <2>3. Doubt(U)
    <3>1. PICK k \in DOMAIN ids : ids[k] \notin Vocabulary
      BY <1>11
    <3>2. Unknown(ids[k])
      BY <3>1, VocabularyAssumption DEF Unknown
    <3> QED
      BY <1>0, <3>2, Zenon DEF Doubt, Selected
  <2> QED
    BY <1>0, <1>3, <1>4, <1>11, <2>2, <2>3
<1>12. CASE ~i /\ ~(DirectIndex /\ \E k \in DOMAIN ids : ids[k] \notin Vocabulary)
  <2>1. start = IF taken.threw THEN taken ELSE [taken EXCEPT !.hot = Activate(taken.hot)]
    BY <1>4, <1>5, <1>6, <1>9, <1>12, Zenon DEF HotInitialized
  <2>2. CASE threw
    BY <1>0, <1>3, <1>8, <1>12, <2>1, <2>2, Zenon
  <2>3. CASE ~threw
    <3>1. PICK w \in HotStates : w = Activate(g)
      BY Activates
    <3>2. [taken EXCEPT !.hot = w] = Taken(w, threw) /\ Taken(w, threw).hot = w /\ Taken(w, threw).threw = threw
      BY <1>8 DEF Taken
    <3> QED
      BY <1>8, <2>1, <2>3, <3>1, <3>2, Zenon
  <2> QED
    BY <2>2, <2>3
<1> QED
  BY <1>10, <1>11, <1>12

(***************************************************************************)
(* The texts that are hot, and the ids between them                        *)
(***************************************************************************)
\* What is whole and starts with a first byte leaves nothing behind, whatever is before it.
LEMMA WholeFresh ==
    ASSUME NEW s \in Seq(Byte), NEW t \in Seq(Byte), Starts(t), t # <<>>, Whole(t)
    PROVE  Whole(s \o t)
<1>1. PICK b \in Byte, u \in Seq(Byte) : t = <<b>> \o u /\ t[1] = b
  <2>1. t[1] \in Byte /\ Tail(t) \in Seq(Byte)
    OBVIOUS
  <2>2. t = <<t[1]>> \o Tail(t)
    OBVIOUS
  <2> QED
    BY <2>1, <2>2, Zenon
<1>2. b \notin Continuation
  BY <1>1 DEF Starts
<1>3. <<>> \in Partial
  BY DEF Partial
<1>4. PICK y \in Chars, q \in Partial : Reads(Since(<<>>), s) = After(y, q)
  BY <1>3, EndsTyped
<1>5. Reads(Since(<<>>), s \o t).pending = Reads(Since(q), t).pending
  <2>1. ReadsOn(<<>>, s, y, q, t)
    BY <1>3, <1>4, EndsConcat
  <2> QED
    BY <2>1, Zenon DEF ReadsOn
<1>6. Rest(q, b) = Rest(<<>>, b)
  BY <1>2, Zenon DEF Rest
<1>7. Reads(Since(q), t).pending = Reads(Since(<<>>), t).pending
  <2>1. ReadsOn(q, <<b>>, Emit(q, b), Rest(q, b), u) /\ ReadsOn(<<>>, <<b>>, Emit(<<>>, b), Rest(<<>>, b), u)
    BY <1>3, EndsCons
  <2> QED
    BY <1>1, <1>6, <2>1, Zenon DEF ReadsOn
<1> QED
  BY <1>5, <1>7, Zenon DEF Whole

IsCold(h, ids, k, e) ==
    /\ e \in k .. Len(ids)
    /\ \A j \in k .. e : ids[j] \notin h.cached
    /\ e < Len(ids) => ids[e + 1] \in h.cached
\* A cold stretch ends before the next hot token.
LEMMA ColdEnds ==
    ASSUME NEW h, NEW S, NEW ids \in Seq(S), NEW k \in 1 .. Len(ids), ids[k] \notin h.cached
    PROVE  IsCold(h, ids, k, ColdEnd(h, ids, k))
<1>1. PICK n \in Nat : n = Len(ids) /\ k \in 1 .. n
  OBVIOUS
<1>2. \E e \in k .. n : IsCold(h, ids, k, e)
  <2> DEFINE G == {m \in k .. n : ids[m] \in h.cached}
  <2>1. CASE G = {}
    <3>1. n \in k .. n /\ ~(n < n)
      BY <1>1
    <3>2. \A j \in k .. n : ids[j] \notin h.cached
      BY <2>1, Zenon
    <3> QED
      BY <1>1, <3>1, <3>2, Zenon DEF IsCold
  <2>2. CASE G # {}
    <3>1. G \in SUBSET Nat
      BY <1>1
    <3>2. PICK m \in G : \A x \in G : m <= x
      <4> HIDE DEF G
      <4> QED
        BY <2>2, <3>1, LeastMember
    <3>3. m \in k .. n /\ m # k /\ ids[m] \in h.cached
      BY <3>2
    <3>4. PICK e : e = m - 1
      OBVIOUS
    <3>5. e \in k .. n /\ e + 1 = m /\ \A j \in k .. e : j \in k .. n /\ ~(m <= j)
      BY <1>1, <3>3, <3>4
    <3>6. \A j \in k .. e : ids[j] \notin h.cached
      BY <3>2, <3>5, Zenon
    <3> QED
      BY <1>1, <3>3, <3>5, <3>6, Zenon DEF IsCold
  <2> QED
    BY <2>1, <2>2
<1>3. \E e \in k .. Len(ids) : /\ \A j \in k .. e : ids[j] \notin h.cached
                               /\ e < Len(ids) => ids[e + 1] \in h.cached
  BY <1>1, <1>2, Zenon DEF IsCold
<1> QED
  BY <1>3, Zenon DEF ColdEnd, IsCold

\* How far the ids were decoded.
Values == {Throws("unknown")} \union {Text(x) : x \in Chars}
Stride == [table : Tables, value : Values, next : Nat]
StrideOf(u, v, m) == [table |-> u, value |-> v, next |-> m]

\* What the walk over an array carries.
LEMMA Strides ==
    /\ \A u \in Tables, v \in Values, m \in Nat :
           /\ StrideOf(u, v, m) \in Stride /\ StrideOf(u, v, m).table = u
           /\ StrideOf(u, v, m).value = v /\ StrideOf(u, v, m).next = m
    /\ \A d \in Stride : /\ d = StrideOf(d.table, d.value, d.next)
                         /\ d.table \in Tables /\ d.value \in Values /\ d.next \in Nat
BY DEF Stride, StrideOf

\* What can be answered: texts and the error.
LEMMA ValuesAre ==
    /\ \A x \in Chars : Text(x) \in Values /\ Text(x).kind = "text" /\ Text(x).text = x
    /\ Throws("unknown") \in Values /\ Throws("unknown").kind # "text"
    /\ \A v \in Values : v.kind = "text" => \E x \in Chars : v = Text(x) /\ v.text = x
    /\ \A v \in Values : v.kind # "text" => v = Throws("unknown")
<1>1. \A x : Text(x).kind = "text" /\ Text(x).text = x
  BY DEF Text
<1>2. Throws("unknown").kind = "unknown"
  BY DEF Throws
<1>3. Throws("unknown").kind # "text"
  BY <1>2
<1> QED
  BY <1>1, <1>3, Zenon DEF Values

\* What the core answers is one of them.
LEMMA CoreValues ==
    ASSUME NEW S, NEW ids \in Seq(S)
    PROVE  CoreDecode(ids) \in Values
<1>1. CASE \E k \in DOMAIN ids : Unknown(ids[k])
  BY <1>1, KnownIds, ValuesAre
<1>2. CASE ~(\E k \in DOMAIN ids : Unknown(ids[k]))
  <2>1. ids \in Seq(Present) /\ CoreDecode(ids) = Text(Lossy(BytesOf(ids)))
    BY <1>2, KnownIds
  <2>2. Lossy(BytesOf(ids)) \in Chars
    BY <2>1, BytesAre, LossyReads
  <2> QED
    BY <2>1, <2>2, ValuesAre
<1> QED
  BY <1>1, <1>2

\* The ids up to the next one.
LEMMA Reaching ==
    ASSUME NEW S, NEW ids \in Seq(S), NEW k \in 1 .. Len(ids), NEW e \in k .. Len(ids)
    PROVE  /\ Before(ids, e + 1) = Before(ids, k) \o SubSeq(ids, k, e) /\ SubSeq(ids, k, e) \in Seq(S)
           /\ Before(ids, k) \in Seq(S) /\ e + 1 \in k + 1 .. Len(ids) + 1
           /\ DOMAIN SubSeq(ids, k, e) = 1 .. e + 1 - k
           /\ \A x \in 1 .. e + 1 - k : SubSeq(ids, k, e)[x] = ids[k + x - 1]
<1>1. PICK n \in Nat : n = Len(ids) /\ k \in 1 .. n /\ e \in k .. n
  OBVIOUS
<1>2. PICK m \in Nat : m = e + 1 /\ m - 1 = e /\ m \in k + 1 .. n + 1
  BY <1>1
<1>3. SubSeq(ids, 1, e) = SubSeq(ids, 1, k - 1) \o SubSeq(ids, k, e)
  <2>1. 1 \in 1 .. Len(ids) + 1 /\ e \in 0 .. Len(ids) /\ k \in 1 .. e + 1
    BY <1>1
  <2> QED
    BY <2>1, PartsMeet
<1>4. Part(S, ids, k, e)
  <2>1. k \in 1 .. Len(ids) + 1 /\ e \in 0 .. Len(ids) /\ k <= e + 1
    BY <1>1
  <2> QED
    BY <2>1, Parts
<1>5. Part(S, ids, 1, k - 1)
  <2>1. 1 \in 1 .. Len(ids) + 1 /\ k - 1 \in 0 .. Len(ids) /\ 1 <= k - 1 + 1
    BY <1>1
  <2> QED
    BY <2>1, Parts
<1>6. PICK s \in Seq(S) : s = SubSeq(ids, k, e) /\ Len(s) = e + 1 - k /\ \A x \in 1 .. e + 1 - k : s[x] = ids[k + x - 1]
  BY <1>4, Zenon DEF Part
<1>7. DOMAIN s = 1 .. e + 1 - k
  BY <1>6
<1>8. Before(ids, k) \in Seq(S)
  BY <1>5, Zenon DEF Part, Before
<1>9. Before(ids, m) = Before(ids, k) \o s
  BY <1>2, <1>3, <1>6, Zenon DEF Before
<1> QED
  BY <1>1, <1>2, <1>6, <1>7, <1>8, <1>9, Zenon

\* One id of a call with hot strings.
HotStep(h, ids, done, k) ==
    IF done.value.kind # "text" \/ k < done.next THEN done
    ELSE IF ids[k] \in h.cached
    THEN [done EXCEPT !.value.text = @ \o HotText(ids[k]), !.next = k + 1]
    ELSE LET inner == Inner(done.table, SubSeq(ids, k, ColdEnd(h, ids, k)))
         IN  [table |-> inner.table, next |-> ColdEnd(h, ids, k) + 1,
              value |-> IF inner.value.kind # "text" THEN inner.value
                        ELSE Text(done.value.text \o inner.value.text)]

\* What a hot text makes of it, and what the decoder below makes of the cold ids.
Warmer(h, ids, done, k, next) ==
    /\ ids[k] \in h.cached
    /\ next = StrideOf(done.table, Text(done.value.text \o HotText(ids[k])), k + 1)
Colder(h, ids, done, k, next) ==
    /\ ids[k] \notin h.cached
    /\ \E e \in k .. Len(ids) :
          /\ IsCold(h, ids, k, e)
          /\ next.next = e + 1 /\ Grows(done.table, next.table)
          /\ next.value = LET cold == CoreDecode(SubSeq(ids, k, e)) IN
                          IF cold.kind # "text" THEN cold ELSE Text(done.value.text \o cold.text)
\* One step of the walk: over, through a hot token, or through a cold stretch.
LEMMA HotSteps ==
    ASSUME NEW h \in HotStates, NEW S, NEW ids \in Seq(S), NEW done \in Stride, NEW k \in 1 .. Len(ids)
    PROVE  /\ HotStep(h, ids, done, k) \in Stride /\ Grows(done.table, HotStep(h, ids, done, k).table)
           /\ \/ HotStep(h, ids, done, k) = done /\ (done.value.kind # "text" \/ k < done.next)
              \/ /\ done.value.kind = "text" /\ ~(k < done.next)
                 /\ \/ Warmer(h, ids, done, k, HotStep(h, ids, done, k))
                    \/ Colder(h, ids, done, k, HotStep(h, ids, done, k))
<1>1. PICK u \in Tables, v \in Values, m \in Nat :
          done = StrideOf(u, v, m) /\ done.table = u /\ done.value = v /\ done.next = m
  BY Strides, Zenon
<1>2. Grows(u, u)
  BY TablesAre
<1>3. PICK it : it = HotStep(h, ids, done, k)
  BY Zenon
<1>4. k \in Nat /\ k + 1 \in Nat
  OBVIOUS
<1>5. CASE done.value.kind # "text" \/ k < done.next
  <2>1. it = done
    BY <1>3, <1>5, Zenon DEF HotStep
  <2> QED
    BY <1>1, <1>2, <1>3, <1>5, <2>1, Zenon
<1>6. CASE done.value.kind = "text" /\ ~(k < done.next) /\ ids[k] \in h.cached
  <2>1. PICK x \in Chars : v = Text(x) /\ v.text = x
    BY <1>1, <1>6, ValuesAre
  <2>2. ids[k] \in Cleans
    BY <1>6 DEF HotStates
  <2>3. PICK y \in Chars : y = x \o HotText(ids[k])
    BY <2>2, HotTexts, CharsClosed
  <2>4. PICK next \in Nat : next = k + 1
    BY <1>4
  <2>5. [done EXCEPT !.value.text = y, !.next = next] = StrideOf(u, Text(y), next)
    <3>1. PICK w : w = [v EXCEPT !.text = y]
      BY Zenon
    <3>2. w = Text(y)
      BY <2>1, <3>1 DEF Text
    <3>3. PICK g : g = [done EXCEPT !.value = w]
      BY Zenon
    <3>4. g = StrideOf(u, w, m)
      BY <1>1, <3>3 DEF StrideOf
    <3>5. [g EXCEPT !.next = next] = StrideOf(u, w, next)
      BY <3>4 DEF StrideOf
    <3>6. [done EXCEPT !.value.text = y] = g
      BY <1>1, <3>1, <3>3
    <3>7. [done EXCEPT !.value.text = y, !.next = next] = [g EXCEPT !.next = next]
      BY <3>6
    <3> QED
      BY <3>2, <3>5, <3>7, Zenon
  <2>6. it = [done EXCEPT !.value.text = y, !.next = next]
    <3>1. it = [done EXCEPT !.value.text = @ \o HotText(ids[k]), !.next = k + 1]
      BY <1>3, <1>6, Zenon DEF HotStep
    <3>2. done.value.text = x
      BY <1>1, <2>1, Zenon
    <3> QED
      BY <2>3, <2>4, <3>1, <3>2, Zenon
  <2>7. PICK w \in Values : w = Text(y)
    BY ValuesAre
  <2>8. it = StrideOf(u, Text(y), next) /\ it \in Stride /\ it.table = u
    <3>1. StrideOf(u, w, next) \in Stride /\ StrideOf(u, w, next).table = u
      BY Strides
    <3>2. it = StrideOf(u, w, next)
      BY <2>5, <2>6, <2>7, Zenon
    <3> QED
      BY <2>7, <3>1, <3>2, Zenon
  <2>9. Warmer(h, ids, done, k, it)
    BY <1>1, <1>6, <2>1, <2>3, <2>4, <2>8, Zenon DEF Warmer
  <2> QED
    BY <1>1, <1>2, <1>3, <1>6, <2>8, <2>9, Zenon
<1>7. CASE done.value.kind = "text" /\ ~(k < done.next) /\ ids[k] \notin h.cached
  <2>1. PICK x \in Chars : v = Text(x) /\ v.text = x
    BY <1>1, <1>7, ValuesAre
  <2>2. PICK e \in k .. Len(ids) : e = ColdEnd(h, ids, k) /\ IsCold(h, ids, k, e)
    <3>1. IsCold(h, ids, k, ColdEnd(h, ids, k))
      BY <1>7, ColdEnds
    <3> QED
      BY <3>1, Zenon DEF IsCold
  <2>3. PICK s \in Seq(S) : s = SubSeq(ids, k, e)
    BY Reaching
  <2>4. PICK inner : inner = Inner(u, s) /\ Serves(u, inner, s)
    BY InnerServes
  <2>5. Grows(u, inner.table) /\ inner.value = CoreDecode(s)
    BY <2>4, Zenon DEF Serves
  <2>6. PICK cold \in Values : cold = CoreDecode(s)
    BY CoreValues
  <2>7. PICK value : value = IF cold.kind # "text" THEN cold ELSE Text(x \o cold.text)
    BY Zenon
  <2>8. value \in Values
    <3>1. CASE cold.kind # "text"
      BY <2>7, <3>1
    <3>2. CASE cold.kind = "text"
      <4>1. PICK z \in Chars : cold.text = z
        BY <3>2, ValuesAre
      <4>2. PICK y \in Chars : y = x \o cold.text
        BY <4>1, CharsClosed
      <4> QED
        BY <2>7, <3>2, <4>2, ValuesAre
    <3> QED
      BY <3>1, <3>2
  <2>9. PICK next \in Nat : next = e + 1
    <3>1. e + 1 \in Nat
      BY <1>4
    <3> QED
      BY <3>1, Zenon
  <2>10. PICK w \in Tables : w = inner.table
    BY <2>5 DEF Grows
  <2>11. it = [table |-> w, next |-> next, value |-> value]
    <3>1. done.value.text = x
      BY <1>1, <2>1, Zenon
    <3> QED
      BY <1>1, <1>3, <1>7, <2>2, <2>3, <2>4, <2>5, <2>6, <2>7, <2>9, <2>10, <3>1, Zenon DEF HotStep
  <2>12. it = StrideOf(w, value, next)
    BY <2>11 DEF StrideOf
  <2>13. it \in Stride /\ it.table = w /\ it.value = value /\ it.next = next
    BY <2>8, <2>12, Strides
  <2>14. Colder(h, ids, done, k, it)
    <3>1. done.value.text = x
      BY <1>1, <2>1, Zenon
    <3> QED
      BY <1>1, <1>7, <2>2, <2>3, <2>5, <2>6, <2>7, <2>9, <2>10, <2>13, <3>1, Zenon DEF Colder
  <2> QED
    BY <1>1, <1>3, <1>7, <2>5, <2>10, <2>13, <2>14, Zenon
<1> QED
  BY <1>5, <1>6, <1>7

\* No hot text of the ids is without the byte order mark that it began with.
Unmarked(h, ids) == \A k \in 1 .. Len(ids) : ids[k] \in h.cached => TextOf(ids[k])[1] # BOM
\* So far it is the core's text, or an id is unknown.
Follow(h, ids, k, done) ==
    \/ done.value = Throws("unknown") /\ \E j \in 1 .. Len(ids) : Unknown(ids[j])
    \/ /\ done.next \in k .. Len(ids) + 1
       /\ Before(ids, done.next) \in Seq(Present)
       /\ done.value = Text(Lossy(BytesOf(Before(ids, done.next))))
       /\ done.next <= Len(ids) /\ ids[done.next] \notin h.cached => Whole(BytesOf(Before(ids, done.next)))

\* More ids that are known.
LEMMA TextGoesOn ==
    ASSUME NEW S, NEW ids \in Seq(S), NEW k \in 1 .. Len(ids), NEW e \in k .. Len(ids),
           Before(ids, k) \in Seq(Present), SubSeq(ids, k, e) \in Seq(Present)
    PROVE  /\ Before(ids, e + 1) \in Seq(Present)
           /\ BytesOf(Before(ids, k)) \in Seq(Byte) /\ BytesOf(SubSeq(ids, k, e)) \in Seq(Byte)
           /\ BytesOf(Before(ids, e + 1)) = BytesOf(Before(ids, k)) \o BytesOf(SubSeq(ids, k, e))
<1>1. PICK a, b \in Seq(Present) : a = Before(ids, k) /\ b = SubSeq(ids, k, e)
  OBVIOUS
<1>2. Before(ids, e + 1) = a \o b
  BY <1>1, Reaching
<1>3. a \o b \in Seq(Present)
  BY ConcatProperties, Zenon
<1>4. BytesOf(a \o b) = BytesOf(a) \o BytesOf(b)
  BY BytesConcat
<1>5. BytesOf(a) \in Seq(Byte) /\ BytesOf(b) \in Seq(Byte)
  BY BytesAre
<1> QED
  BY <1>1, <1>2, <1>3, <1>4, <1>5, Zenon

\* A hot token adds its text.
LEMMA WarmFollows ==
    ASSUME NEW h \in HotStates, NEW S, NEW ids \in Seq(S), NEW k \in 1 .. Len(ids), Unmarked(h, ids),
           NEW done, done.next = k, Follow(h, ids, k, done), done.value.kind = "text",
           NEW next, Warmer(h, ids, done, k, next), next \in Stride
    PROVE  Follow(h, ids, k + 1, next)
<1>1. PICK id : id = ids[k] /\ id \in h.cached /\ id \in Cleans /\ TextOf(id)[1] # BOM
  BY Zenon DEF Warmer, HotStates, Unmarked
<1>2. CleanToken(id) /\ id \in Present
  BY <1>1, CleanTextsAre
<1>3. HotText(id) = TextOf(id)
  BY <1>1, HotTexts
<1>4. PICK n, e \in Nat : n = Len(ids) /\ e = k + 1 /\ e \in k + 1 .. n + 1 /\ k \in k .. Len(ids) /\ k + 1 - k = 1 /\ k + 1 - 1 = k
  OBVIOUS
<1>5. SubSeq(ids, k, k) = <<id>>
  <2>1. PICK s \in Seq(S) : s = SubSeq(ids, k, k)
    BY <1>4, Reaching
  <2>2. DOMAIN s = 1 .. k + 1 - k /\ \A x \in 1 .. k + 1 - k : s[x] = ids[k + x - 1]
    BY <1>4, <2>1, Reaching
  <2>3. DOMAIN s = 1 .. 1 /\ s[1] = id
    BY <1>1, <1>4, <2>2
  <2>4. s = <<id>>
    <3>1. PICK x \in S : x = id
      BY <1>1
    <3>2. <<x>> \in Seq(S) /\ Len(<<x>>) = 1 /\ <<x>>[1] = x /\ Len(s) = 1 /\ s[1] = x
      BY <2>3, <3>1
    <3>3. \A i \in 1 .. Len(s) : s[i] = <<x>>[i]
      BY <3>2
    <3>4. s = <<x>>
      BY <3>2, <3>3, SeqEqual, Zenon
    <3> QED
      BY <3>1, <3>4, Zenon
  <2> QED
    BY <2>1, <2>4
<1>6. <<id>> \in Seq(Present) /\ BytesOf(<<id>>) = TokenBytes(id)
  BY <1>2, BytesFew
<1>7. done.value # Throws("unknown")
  BY ValuesAre
<1>8. Before(ids, k) \in Seq(Present) /\ done.value = Text(Lossy(BytesOf(Before(ids, k))))
  BY <1>7, Zenon DEF Follow
<1>9. PICK a \in Seq(Byte) : a = BytesOf(Before(ids, k))
  BY <1>8, BytesAre
<1>10. PICK t \in Seq(Byte) : /\ t = TokenBytes(id) /\ t # <<>> /\ Whole(t) /\ Starts(t)
                              /\ TextOf(id) = Lossy(t)
  BY <1>2, Zenon DEF CleanToken
<1>11. Before(ids, e) \in Seq(Present) /\ BytesOf(Before(ids, e)) = a \o t
  <2>1. k \in k .. Len(ids) /\ SubSeq(ids, k, k) \in Seq(Present)
    BY <1>4, <1>5, <1>6
  <2>2. Before(ids, k + 1) \in Seq(Present) /\ BytesOf(Before(ids, k + 1)) = BytesOf(Before(ids, k)) \o BytesOf(SubSeq(ids, k, k))
    BY <1>8, <2>1, TextGoesOn
  <2> QED
    BY <1>4, <1>5, <1>6, <1>9, <1>10, <2>2, Zenon
<1>12. Lossy(a \o t) = Lossy(a) \o Lossy(t) /\ Whole(a \o t)
  BY <1>10, LossyConcat, WholeFresh
<1>13. done.value.text = Lossy(a)
  <2>1. Lossy(a) \in Chars
    BY LossyReads
  <2> QED
    BY <1>8, <1>9, <2>1, ValuesAre
<1>14. next.next = e /\ next.value = Text(Lossy(a \o t))
  <2>1. next = StrideOf(done.table, Text(done.value.text \o HotText(ids[k])), k + 1)
    BY Zenon DEF Warmer
  <2>2. next = StrideOf(done.table, Text(Lossy(a \o t)), e)
    BY <1>1, <1>3, <1>4, <1>10, <1>12, <1>13, <2>1, Zenon
  <2> QED
    BY <2>2 DEF StrideOf
<1> QED
  BY <1>4, <1>9, <1>11, <1>12, <1>14, Zenon DEF Follow

\* A cold stretch adds what the core gives for it.
LEMMA ColdFollows ==
    ASSUME NEW h \in HotStates, NEW S, NEW ids \in Seq(S), NEW k \in 1 .. Len(ids),
           NEW done, done.next = k, Follow(h, ids, k, done), done.value.kind = "text",
           NEW next, Colder(h, ids, done, k, next)
    PROVE  Follow(h, ids, k + 1, next)
<1>1. PICK e \in k .. Len(ids) : /\ IsCold(h, ids, k, e) /\ next.next = e + 1 /\ ids[k] \notin h.cached
                                 /\ next.value = LET cold == CoreDecode(SubSeq(ids, k, e)) IN
                                          IF cold.kind # "text" THEN cold ELSE Text(done.value.text \o cold.text)
  BY Zenon DEF Colder
<1>2. PICK s \in Seq(S) : /\ s = SubSeq(ids, k, e) /\ DOMAIN s = 1 .. e + 1 - k
                          /\ \A x \in 1 .. e + 1 - k : s[x] = ids[k + x - 1]
  <2>1. /\ SubSeq(ids, k, e) \in Seq(S) /\ DOMAIN SubSeq(ids, k, e) = 1 .. e + 1 - k
        /\ \A x \in 1 .. e + 1 - k : SubSeq(ids, k, e)[x] = ids[k + x - 1]
    BY Reaching
  <2> QED
    BY <2>1, Zenon
<1>3. k <= Len(ids) /\ e + 1 \in k + 1 .. Len(ids) + 1
  OBVIOUS
<1>4. CASE \E x \in DOMAIN s : Unknown(s[x])
  <2>1. CoreDecode(s) = Throws("unknown")
    BY <1>4, KnownIds
  <2>2. next.value = Throws("unknown")
    BY <1>1, <1>2, <2>1, ValuesAre, Zenon
  <2>3. PICK x \in 1 .. e + 1 - k : Unknown(ids[k + x - 1])
    BY <1>2, <1>4, Zenon
  <2>4. k + x - 1 \in 1 .. Len(ids)
    OBVIOUS
  <2> QED
    BY <2>2, <2>3, <2>4, Zenon DEF Follow
<1>5. CASE ~(\E x \in DOMAIN s : Unknown(s[x]))
  <2>1. s \in Seq(Present) /\ CoreDecode(s) = Text(Lossy(BytesOf(s)))
    BY <1>5, KnownIds
  <2>2. done.value # Throws("unknown")
    BY ValuesAre
  <2>3. Before(ids, k) \in Seq(Present) /\ done.value = Text(Lossy(BytesOf(Before(ids, k)))) /\ Whole(BytesOf(Before(ids, k)))
    BY <1>1, <1>3, <2>2, Zenon DEF Follow
  <2>4. PICK a, b \in Seq(Byte) : a = BytesOf(Before(ids, k)) /\ b = BytesOf(s) /\ Whole(a)
    BY <2>1, <2>3, BytesAre
  <2>5. Before(ids, e + 1) \in Seq(Present) /\ BytesOf(Before(ids, e + 1)) = a \o b
    BY <1>2, <2>1, <2>3, <2>4, TextGoesOn
  <2>6. PICK x, y \in Chars : x = Lossy(a) /\ y = Lossy(b)
    BY LossyReads
  <2>7. Lossy(a \o b) = x \o y
    BY <2>4, <2>6, LossyConcat
  <2>8. done.value.text = x /\ CoreDecode(s) = Text(y) /\ Text(y).kind = "text" /\ Text(y).text = y
    BY <2>1, <2>3, <2>4, <2>6, ValuesAre
  <2>9. next.value = Text(Lossy(a \o b))
    BY <1>1, <1>2, <2>7, <2>8, Zenon
  <2>10. ~(e + 1 <= Len(ids) /\ ids[e + 1] \notin h.cached)
    <3>1. e + 1 <= Len(ids) => e < Len(ids)
      OBVIOUS
    <3> QED
      BY <1>1, <3>1 DEF IsCold
  <2> QED
    BY <1>1, <1>3, <2>5, <2>9, <2>10, Zenon DEF Follow
<1> QED
  BY <1>4, <1>5

\* Every step of the walk follows the text.
LEMMA HotFollows ==
    ASSUME NEW h \in HotStates, NEW S, NEW ids \in Seq(S), NEW k \in 1 .. Len(ids), Unmarked(h, ids),
           NEW done \in Stride, Follow(h, ids, k, done)
    PROVE  Follow(h, ids, k + 1, HotStep(h, ids, done, k))
<1>1. PICK next \in Stride : next = HotStep(h, ids, done, k)
  BY HotSteps
<1>2. \/ next = done /\ (done.value.kind # "text" \/ k < done.next)
      \/ /\ done.value.kind = "text" /\ ~(k < done.next)
         /\ Warmer(h, ids, done, k, next) \/ Colder(h, ids, done, k, next)
  BY <1>1, HotSteps
<1>3. CASE next = done /\ (done.value.kind # "text" \/ k < done.next)
  <2>1. CASE done.value = Throws("unknown")
    <3>1. CASE \E j \in 1 .. Len(ids) : Unknown(ids[j])
      BY <1>1, <1>3, <2>1, <3>1, Zenon DEF Follow
    <3>2. CASE ~(\E j \in 1 .. Len(ids) : Unknown(ids[j]))
      <4>1. done.value = Text(Lossy(BytesOf(Before(ids, done.next)))) /\ Before(ids, done.next) \in Seq(Present)
        BY <3>2, Zenon DEF Follow
      <4>2. Lossy(BytesOf(Before(ids, done.next))) \in Chars
        BY <4>1, BytesAre, LossyReads
      <4> QED
        BY <2>1, <4>1, <4>2, ValuesAre
    <3> QED
      BY <3>1, <3>2
  <2>2. CASE done.value # Throws("unknown")
    <3>1. /\ done.next \in k .. Len(ids) + 1 /\ Before(ids, done.next) \in Seq(Present)
          /\ done.value = Text(Lossy(BytesOf(Before(ids, done.next))))
          /\ done.next <= Len(ids) /\ ids[done.next] \notin h.cached => Whole(BytesOf(Before(ids, done.next)))
      BY <2>2, Zenon DEF Follow
    <3>2. k < done.next
      <4>1. done.value \in Values
        BY Strides
      <4> QED
        BY <1>3, <2>2, <4>1, ValuesAre
    <3>3. done.next \in k + 1 .. Len(ids) + 1
      BY <3>1, <3>2
    <3> QED
      BY <1>1, <1>3, <3>1, <3>3, Zenon DEF Follow
  <2> QED
    BY <2>1, <2>2
<1>4. CASE /\ done.value.kind = "text" /\ ~(k < done.next)
           /\ Warmer(h, ids, done, k, next) \/ Colder(h, ids, done, k, next)
  <2>1. done.value # Throws("unknown")
    BY <1>4, ValuesAre
  <2>2. done.next \in k .. Len(ids) + 1
    BY <2>1, Zenon DEF Follow
  <2>3. done.next = k
    BY <1>4, <2>2
  <2> QED
    BY <1>1, <1>4, <2>3, WarmFollows, ColdFollows
<1> QED
  BY <1>2, <1>3, <1>4

\* The walk begins with nothing read.
LEMMA FollowBegins ==
    ASSUME NEW h, NEW S, NEW ids \in Seq(S), NEW t \in Tables
    PROVE  StrideOf(t, Text(<<>>), 1) \in Stride /\ Follow(h, ids, 1, StrideOf(t, Text(<<>>), 1))
<1>1. PICK v \in Values : v = Text(<<>>)
  BY CharsClosed, ValuesAre
<1>2. PICK one \in Nat : one = 1 /\ one \in 1 .. Len(ids) + 1
  OBVIOUS
<1>3. PICK done \in Stride : done = StrideOf(t, v, one) /\ done.value = v /\ done.next = one
  BY Strides
<1>4. Before(ids, one) = <<>>
  <2>1. SubSeq(ids, 1, 0) = <<>> /\ one - 1 = 0
    BY <1>2
  <2> QED
    BY <2>1, Zenon DEF Before
<1>5. <<>> \in Seq(Present) /\ BytesOf(<<>>) = <<>>
  BY BytesFew
<1>6. Lossy(<<>>) = <<>> /\ Whole(<<>>)
  BY NothingRead
<1>7. Follow(h, ids, 1, done)
  BY <1>1, <1>2, <1>3, <1>4, <1>5, <1>6, Zenon DEF Follow
<1> QED
  BY <1>1, <1>2, <1>3, <1>7, Zenon

\* At the end of the walk the answer is the core's.
LEMMA FollowEnds ==
    ASSUME NEW h, NEW S, NEW ids \in Seq(S), NEW done, Follow(h, ids, Len(ids) + 1, done)
    PROVE  done.value = CoreDecode(ids)
<1>1. PICK n, m \in Nat : n = Len(ids) /\ DOMAIN ids = 1 .. n /\ m = n + 1 /\ m - 1 = n
  OBVIOUS
<1>2. CASE done.value = Throws("unknown") /\ \E j \in 1 .. Len(ids) : Unknown(ids[j])
  BY <1>1, <1>2, Zenon DEF CoreDecode
<1>3. CASE /\ done.next \in Len(ids) + 1 .. Len(ids) + 1 /\ Before(ids, done.next) \in Seq(Present)
           /\ done.value = Text(Lossy(BytesOf(Before(ids, done.next))))
  <2>1. done.next = m
    BY <1>1, <1>3
  <2>2. SubSeq(ids, 1, n) = ids
    BY <1>1
  <2>3. Before(ids, m) = ids
    BY <1>1, <2>2, Zenon DEF Before
  <2>4. ids \in Seq(Present) /\ done.value = Text(Lossy(BytesOf(ids)))
    BY <1>3, <2>1, <2>3
  <2>5. ~(\E j \in DOMAIN ids : Unknown(ids[j]))
    BY <2>4 DEF Unknown
  <2> QED
    BY <2>4, <2>5, Zenon DEF CoreDecode
<1> QED
  BY <1>2, <1>3, Zenon DEF Follow

\* Hot strings give the text of the core, but for the byte order marks they begin with.
LEMMA HotDecodes ==
    ASSUME NEW h \in HotStates, NEW t \in Tables, NEW S, NEW ids \in Seq(S)
    PROVE  /\ Grows(t, HotDecode(h, t, ids, Inner).table)
           /\ Unmarked(h, ids) => HotDecode(h, t, ids, Inner).value = CoreDecode(ids)
<1>1. PICK n \in Nat : n = Len(ids)
  OBVIOUS
<1>2. PICK base \in Stride : base = [table |-> t, value |-> Text(<<>>), next |-> 1]
                             /\ Follow(h, ids, 1, base) /\ base.table = t
  <2>1. PICK d : d = StrideOf(t, Text(<<>>), 1)
    BY Zenon
  <2>2. d.table = t
    BY <2>1 DEF StrideOf
  <2> QED
    BY <2>1, <2>2, FollowBegins, Zenon DEF StrideOf
<1>3. \A k \in 1 .. n, s \in Stride : HotStep(h, ids, s, k) \in Stride
  BY <1>1, HotSteps
<1>4. PICK step : step = [k \in 1 .. n |-> [s \in Stride |-> HotStep(h, ids, s, k)]]
  BY Zenon
<1>5. step \in [1 .. n -> [Stride -> Stride]] /\ \A k \in 1 .. n, s \in Stride : step[k][s] = HotStep(h, ids, s, k)
  BY <1>3, <1>4, Zenon
<1>6. PICK f \in [0 .. n -> Stride] : Follows(f, n, base, step)
  BY <1>5, RecursionExists
<1>7. f[0] = base /\ \A k \in 1 .. n : f[k] = HotStep(h, ids, f[k - 1], k)
  <2>1. \A k \in 1 .. n : k - 1 \in 0 .. n
    OBVIOUS
  <2>2. \A k \in 1 .. n : f[k - 1] \in Stride
    BY <2>1
  <2> QED
    BY <1>5, <1>6, <2>2, Zenon DEF Follows
<1> DEFINE From(g) == g = [k \in 0 .. Len(ids) |->
            IF k = 0 THEN [table |-> t, value |-> Text(<<>>), next |-> 1]
            ELSE LET done == g[k - 1] IN
                 IF done.value.kind # "text" \/ k < done.next THEN done
                 ELSE IF ids[k] \in h.cached
                 THEN [done EXCEPT !.value.text = @ \o HotText(ids[k]), !.next = k + 1]
                 ELSE LET inner == Inner(done.table, SubSeq(ids, k, ColdEnd(h, ids, k)))
                      IN  [table |-> inner.table, next |-> ColdEnd(h, ids, k) + 1,
                           value |-> IF inner.value.kind # "text" THEN inner.value
                                     ELSE Text(done.value.text \o inner.value.text)]]
<1> DEFINE Plain(g) == g = [k \in 0 .. Len(ids) |->
            IF k = 0 THEN [table |-> t, value |-> Text(<<>>), next |-> 1] ELSE HotStep(h, ids, g[k - 1], k)]
<1>8. \A g : From(g) <=> Plain(g)
  BY Zenon DEF HotStep
<1>9. Plain(f)
  <2>1. \A k \in 0 .. n : f[k] = IF k = 0 THEN base ELSE HotStep(h, ids, f[k - 1], k)
    <3>1. \A k \in 0 .. n : k = 0 \/ k \in 1 .. n
      OBVIOUS
    <3>2. \A k \in 1 .. n : k # 0
      OBVIOUS
    <3> QED
      BY <1>7, <3>1, <3>2, Zenon
  <2> QED
    BY <1>1, <1>2, <1>6, <2>1, Zenon
<1>10. PICK it : it = CHOOSE g : From(g)
  BY Zenon
<1>11. Plain(it)
  <2>1. From(f)
    BY <1>8, <1>9, Zenon
  <2>2. From(it)
    <3> HIDE DEF From
    <3> QED
      BY <1>10, <2>1, Zenon
  <2> QED
    BY <1>8, <2>2, Zenon
<1>12. it[0] = base /\ \A k \in 1 .. n : it[k] = HotStep(h, ids, it[k - 1], k)
  <2>1. 0 \in 0 .. n /\ \A k \in 1 .. n : k \in 0 .. n /\ k # 0
    OBVIOUS
  <2> QED
    BY <1>1, <1>2, <1>11, <2>1, Zenon
<1> DEFINE Stage(k) == /\ it[k] \in Stride /\ Grows(t, it[k].table)
                       /\ Unmarked(h, ids) => Follow(h, ids, k + 1, it[k])
           R == {k \in 0 .. n : Stage(k)}
<1>13. 0 \in R
  <2>1. Grows(t, t) /\ 0 \in 0 .. n /\ 0 + 1 = 1
    BY TablesAre
  <2> QED
    BY <1>2, <1>12, <2>1, Zenon
<1>14. ASSUME NEW k \in 0 .. n - 1, k \in R PROVE k + 1 \in R
  <2>1. PICK m \in 1 .. n : m = k + 1 /\ m - 1 = k /\ m \in 0 .. n
    OBVIOUS
  <2>2. PICK done \in Stride : done = it[k] /\ Grows(t, done.table) /\ (Unmarked(h, ids) => Follow(h, ids, m, done))
    BY <1>14, <2>1, Zenon
  <2>3. it[m] = HotStep(h, ids, done, m) /\ m \in 1 .. Len(ids)
    BY <1>1, <1>12, <2>1, <2>2, Zenon
  <2>4. it[m] \in Stride /\ Grows(done.table, it[m].table)
    BY <2>3, HotSteps
  <2>5. Grows(t, it[m].table)
    BY <2>2, <2>4, GrowsOn
  <2>6. Unmarked(h, ids) => Follow(h, ids, m + 1, it[m])
    BY <2>2, <2>3, HotFollows
  <2> QED
    BY <2>1, <2>4, <2>5, <2>6, Zenon
<1>15. Stage(n)
  <2>1. 0 .. n \subseteq R
    <3>1. \A k \in 0 .. n - 1 : k \in R => k + 1 \in R
      BY <1>14, Zenon
    <3> HIDE DEF R
    <3> QED
      BY <1>13, <3>1, UpTo
  <2>2. n \in 0 .. n
    OBVIOUS
  <2> QED
    BY <2>1, <2>2, Zenon
<1>16. HotDecode(h, t, ids, Inner) = Answered(it[n].table, it[n].value)
  BY <1>1, <1>10, Zenon DEF HotDecode
<1>17. HotDecode(h, t, ids, Inner).table = it[n].table /\ HotDecode(h, t, ids, Inner).value = it[n].value
  BY <1>16, Answering
<1>18. Unmarked(h, ids) => it[n].value = CoreDecode(ids)
  BY <1>1, <1>15, FollowEnds
<1> QED
  BY <1>15, <1>17, <1>18

(***************************************************************************)
(* The calls that read an array                                            *)
(***************************************************************************)
\* What was read is valid; what is to be joined has its string.
Careful(c, strings) ==
    /\ c.pass \in {"copy", "join", "fuse"}
    /\ \A i \in 1 .. Len(c.given) : c.given[i] # Invalid
    /\ c.pass = "join" => \A i \in 1 .. Len(c.given) : c.given[i] \in strings
    /\ c.pass = "fuse" => /\ c.miss \in 1 .. c.length
                          /\ \A i \in 1 .. Len(c.given) : i < c.miss => c.given[i] \in strings
Watched(s, strings) == \A k \in 1 .. Len(s) : Careful(s[k], strings)

\* A careful call stays careful when more strings are known.
LEMMA CarefulOn ==
    ASSUME NEW c, NEW t, NEW u, Careful(c, t), t \subseteq u
    PROVE  Careful(c, u)
BY Zenon DEF Careful

\* What entering, replacing and leaving a call keep of the stack.
LEMMA Watching ==
    ASSUME NEW S, NEW s \in Seq(S), NEW t, NEW u, Watched(s, t), t \subseteq u
    PROVE  /\ Watched(s, u)
           /\ \A c : Careful(c, u) => Watched(Append(s, c), u)
           /\ s # <<>> => Watched(Front(s), u) /\ Careful(s[Len(s)], u) /\ Careful(s[Len(s)], t)
           /\ s # <<>> => \A c : Careful(c, u) => Watched(Append(Front(s), c), u)
<1>1. Len(s) \in Nat /\ \A k \in 1 .. Len(s) : Careful(s[k], u) /\ Careful(s[k], t)
  BY CarefulOn DEF Watched
<1>2. ASSUME NEW c, Careful(c, u) PROVE Watched(Append(s, c), u)
  <2>1. /\ Len(Append(s, c)) = Len(s) + 1 /\ \A k \in 1 .. Len(s) : Append(s, c)[k] = s[k]
        /\ Append(s, c)[Len(s) + 1] = c
    BY Adding
  <2>2. \A k \in 1 .. Len(Append(s, c)) : k \in 1 .. Len(s) \/ k = Len(s) + 1
    BY <1>1, <2>1
  <2>3. \A k \in 1 .. Len(Append(s, c)) : Careful(Append(s, c)[k], u)
    BY <1>1, <1>2, <2>1, <2>2, Zenon
  <2> QED
    BY <2>3, Zenon DEF Watched
<1>3. ASSUME s # <<>>
      PROVE  Watched(Front(s), u) /\ Len(s) \in 1 .. Len(s) /\ \A c : Careful(c, u) => Watched(Append(Front(s), c), u)
  <2>1. ASSUME NEW c
        PROVE  /\ Len(s) \in 1 .. Len(s) /\ Len(Front(s)) = Len(s) - 1
               /\ \A k \in 1 .. Len(s) - 1 : Front(s)[k] = s[k]
               /\ Len(Append(Front(s), c)) = Len(s) /\ \A k \in 1 .. Len(s) - 1 : Append(Front(s), c)[k] = s[k]
               /\ Append(Front(s), c)[Len(s)] = c
    <3>1. Replaced(S, s, c)
      BY <1>3, Replacing
    <3> QED
      BY <3>1, Zenon DEF Replaced
  <2>2. \A k \in 1 .. Len(s) : k \in 1 .. Len(s) - 1 \/ k = Len(s)
    BY <1>1
  <2>3. \A k \in 1 .. Len(s) - 1 : k \in 1 .. Len(s)
    BY <1>1
  <2>4. Watched(Front(s), u)
    <3>1. \A k \in 1 .. Len(Front(s)) : Careful(Front(s)[k], u)
      BY <1>1, <2>1, <2>3, Zenon
    <3> QED
      BY <3>1, Zenon DEF Watched
  <2>5. ASSUME NEW c, Careful(c, u) PROVE Watched(Append(Front(s), c), u)
    <3>1. \A k \in 1 .. Len(Append(Front(s), c)) : Careful(Append(Front(s), c)[k], u)
      BY <1>1, <2>1, <2>2, <2>3, <2>5, Zenon
    <3> QED
      BY <3>1, Zenon DEF Watched
  <2> QED
    BY <2>1, <2>4, <2>5, Zenon
<1>4. Watched(s, u)
  BY <1>1, Zenon DEF Watched
<1> QED
  BY <1>1, <1>2, <1>3, <1>4, Zenon

\* The call on top.
TopIs(c) ==
    /\ c = Top /\ c = stack[Len(stack)] /\ IsFrame(c) /\ Holds(storage, c) /\ Careful(c, table.strings)
\* The parts of the call on top.
LEMMA TopFrame ==
    ASSUME ScratchInvariant, Watched(stack, table.strings), stack # <<>>
    PROVE  TopIs(Top)
<1>1. /\ stack \in Seq(ToSet(stack)) /\ \A k \in 1 .. Len(stack) : IsFrame(stack[k]) /\ Holds(storage, stack[k])
  BY DEF ScratchInvariant
<1>2. Len(stack) \in 1 .. Len(stack)
  BY <1>1
<1>3. Careful(stack[Len(stack)], table.strings)
  BY <1>2 DEF Watched
<1> QED
  BY <1>1, <1>2, <1>3, Zenon DEF Top, TopIs

\* What the call on top has read is what it decodes, and its plan serves that.
LEMMA FinishPlans ==
    ASSUME ScratchInvariant, table \in Tables, NEW c, TopIs(c), Len(c.given) = c.length,
           NEW ids, ids = IF c.own THEN SubSeq(storage, 1, c.length) ELSE c.given,
           NEW plan, plan = CASE c.pass = "copy" -> Prepared(config, table, ids, TRUE)
                              [] c.pass = "join" -> Joined(Prefix(ids, Len(ids) + 1))
                              [] c.pass = "fuse" -> Missed(c.miss, PreparedPrefix(c))
    PROVE  /\ ids = c.given /\ ids \in Seq(Elements) /\ \A i \in 1 .. Len(ids) : ids[i] # Invalid
           /\ Planned(plan, ids)
<1>1. IsFrame(c) /\ Holds(storage, c) /\ Careful(c, table.strings)
  BY DEF TopIs
<1>2. PICK g \in Seq(Elements) : g = c.given
  BY <1>1 DEF IsFrame
<1>3. ids = g
  <2>1. CASE c.own
    <3>1. Len(g) <= Len(storage) /\ \A i \in 1 .. Len(g) : storage[i] = g[i]
      BY <1>1, <1>2, <2>1 DEF Holds
    <3>2. storage \in Seq(Word)
      BY DEF ScratchInvariant
    <3>3. SubSeq(storage, 1, Len(g)) = g
      BY <3>1, <3>2
    <3> QED
      BY <1>2, <2>1, <3>3
  <2>2. CASE ~c.own
    BY <1>2, <2>2
  <2> QED
    BY <2>1, <2>2
<1>4. PICK n \in Nat : n = Len(g) /\ n = c.length
  BY <1>2
<1>5. \A i \in 1 .. n : g[i] # Invalid
  BY <1>1, <1>2, <1>4, Zenon DEF Careful
<1>6. table.strings \subseteq Cleans
  BY TablesAre
<1>7. Planned(plan, g)
  <2>1. CASE c.pass = "copy"
    <3>1. plan = Prepared(config, table, g, TRUE)
      BY <1>3, <2>1
    <3> QED
      BY <3>1, PreparedPlans
  <2>2. CASE c.pass = "join"
    <3>1. plan = Joined(Prefix(g, Len(g) + 1))
      BY <1>3, <2>2
    <3>2. \A i \in 1 .. n : g[i] \in Cleans
      BY <1>1, <1>2, <1>4, <1>6, <2>2, Zenon DEF Careful
    <3>3. g \in [1 .. n -> Cleans]
      <4>1. g \in [1 .. n -> Elements]
        <5>1. g \in [1 .. Len(g) -> Elements]
          OBVIOUS
        <5> QED
          BY <1>4, <5>1, Zenon
      <4> QED
        BY <3>2, <4>1
    <3>4. g \in Seq(Cleans)
      BY <3>3, Listed
    <3>5. plan.route = "joined" /\ plan.prefix = Prefix(g, Len(g) + 1)
      BY <3>1, PlansAre
    <3> QED
      BY <3>4, <3>5, Zenon DEF Planned
  <2>3. CASE c.pass = "fuse"
    <3>1. plan = Missed(c.miss, PreparedPrefix(c))
      BY <2>3
    <3>2. PreparedPrefix(c) = Prefix(g, c.miss)
      BY <1>2, Zenon DEF PreparedPrefix
    <3>3. PICK m \in 1 .. n : m = c.miss /\ \A i \in 1 .. n : i < m => g[i] \in table.strings
      BY <1>1, <1>2, <1>4, <2>3, Zenon DEF Careful
    <3>4. \A i \in 1 .. m - 1 : i \in 1 .. n /\ i < m
      BY <3>3
    <3>5. \A i \in 1 .. m - 1 : g[i] \in Cleans
      BY <1>6, <3>3, <3>4
    <3>6. Ready(g, m, Prefix(g, m))
      BY <1>4, <3>5, Zenon DEF Ready
    <3>7. plan.route = "missed" /\ plan.from = m /\ plan.prefix = Prefix(g, m)
      <4>1. PICK x : x = Prefix(g, m)
        BY Zenon
      <4>2. plan = Missed(m, x)
        BY <3>1, <3>2, <3>3, <4>1, Zenon
      <4> QED
        <5>1. /\ Missed(m, x).route = "missed" /\ Missed(m, x).from = m
              /\ Missed(m, x).prefix = x
          BY PlansAre, Zenon
        <5> QED
          BY <4>1, <4>2, <5>1, Zenon
    <3> QED
      BY <3>6, <3>7, Zenon DEF Planned
  <2>4. c.pass = "copy" \/ c.pass = "join" \/ c.pass = "fuse"
    BY <1>1 DEF Careful
  <2> QED
    BY <2>1, <2>2, <2>3, <2>4
<1> QED
  BY <1>2, <1>3, <1>4, <1>5, <1>7, Zenon

(***************************************************************************)
(* The answers                                                             *)
(***************************************************************************)
ExactFor(a, h, c) ==
    \/ a = NoAnswer
    \/ a.value = Expected(a.given)
    \/ \E id \in h.cached \intersect ToSet(a.given) : TextOf(id)[1] = BOM
    \/ /\ c.hotStrings /\ DirectIndex /\ ~h.initialized /\ Unknown(0)
       /\ Cardinality(Counted(a.given)) < h.distinct
       /\ a.value = Throws("unknown")

\* What a call must answer: the error of the type check, or what the core gives.
LEMMA ExpectedIs ==
    ASSUME NEW S, NEW ids \in Seq(S)
    PROVE  /\ (\A i \in 1 .. Len(ids) : ids[i] # Invalid) => Expected(ids) = CoreDecode(ids)
           /\ (\E i \in 1 .. Len(ids) : ids[i] = Invalid) => Expected(ids) = Throws("type")
           /\ Invalid \in ToSet(ids) <=> \E i \in 1 .. Len(ids) : ids[i] = Invalid
<1>1. DOMAIN ids = 1 .. Len(ids)
  OBVIOUS
<1>2. ToSet(ids) = {ids[i] : i \in 1 .. Len(ids)}
  BY <1>1, Zenon DEF ToSet
<1>3. Invalid \in ToSet(ids) <=> \E i \in 1 .. Len(ids) : ids[i] = Invalid
  BY <1>2
<1> QED
  BY <1>3, Zenon DEF Expected

\* What a return leaves.
LEMMA ReturnsIs ==
    ASSUME NEW given, NEW answered, Returns(given, answered)
    PROVE  table' = answered.table /\ answer'.given = given /\ answer'.value = answered.value
<1>1. answer' = [given |-> given, value |-> answered.value] /\ table' = answered.table
  BY DEF Returns
<1>2. \A x, y : [given |-> x, value |-> y].given = x /\ [given |-> x, value |-> y].value = y
  OBVIOUS
<1> QED
  BY <1>1, <1>2, Zenon

\* What a call leaves.
Leaves == /\ Grows(table, table') /\ hot' \in HotStates /\ ExactFor(answer', hot', config')
          /\ config' = config /\ phase' = phase /\ phase = "ready" /\ stack' = stack
          /\ UNCHANGED <<storage, active>>

\* A call through the hot strings answers as the core does, or names token 0 for its padding.
LEMMA HotCalls ==
    ASSUME table \in Tables, hot \in HotStates, NEW S, NEW ids \in Seq(S), Invalid \notin ToSet(ids),
           NEW order, order \in IF config.hotStrings THEN Orders(hot, ids) ELSE {<<>>},
           NEW start, start = IF config.hotStrings THEN HotInitialized(hot, ids, order)
                              ELSE [hot |-> hot, threw |-> FALSE],
           NEW answered, answered = IF start.threw THEN Answered(table, Throws("unknown"))
                                    ELSE HotDecode(start.hot, table, ids, Inner),
           NEW a, a.given = ids, a.value = answered.value
    PROVE  Grows(table, answered.table) /\ start.hot \in HotStates /\ ExactFor(a, start.hot, config)
<1>1. Expected(ids) = CoreDecode(ids) /\ DOMAIN ids = 1 .. Len(ids) /\ ToSet(ids) = {ids[i] : i \in 1 .. Len(ids)}
  <2>1. DOMAIN ids = 1 .. Len(ids)
    OBVIOUS
  <2> QED
    BY <2>1, ExpectedIs, Zenon DEF ToSet
<1>2. /\ start.hot \in HotStates
      /\ start.threw => /\ config.hotStrings /\ ~start.hot.initialized /\ Doubt(Selected(hot, ids))
                        /\ start.hot.distinct = ObservedDistinct(hot, ids)
  <2>1. CASE config.hotStrings
    <3>1. order \in Orders(hot, ids) /\ start = HotInitialized(hot, ids, order)
      BY <2>1
    <3> QED
      BY <2>1, <3>1, Initializes
  <2>2. CASE ~config.hotStrings
    <3>1. start = Taken(hot, FALSE)
      BY <2>2 DEF Taken
    <3>2. start.hot = hot /\ start.threw = FALSE
      BY <3>1 DEF Taken
    <3> QED
      BY <3>2
  <2> QED
    BY <2>1, <2>2
<1>3. CASE start.threw
  <2>1. answered = Answered(table, Throws("unknown"))
    BY <1>3
  <2>2. answered.table = table /\ answered.value = Throws("unknown")
    BY <2>1, Answering
  <2>3. Grows(table, answered.table)
    BY <2>2, TablesAre
  <2>4. PICK id \in Selected(hot, ids) : Unknown(id)
    BY <1>2, <1>3 DEF Doubt
  <2>5. CASE \E k \in DOMAIN ids : id = ids[k]
    <3>1. CoreDecode(ids) = Throws("unknown")
      BY <2>4, <2>5, Zenon DEF CoreDecode
    <3> QED
      BY <1>1, <1>2, <2>2, <2>3, <3>1, Zenon DEF ExactFor
  <2>6. CASE ~(\E k \in DOMAIN ids : id = ids[k])
    <3>1. Longer(hot, ids) /\ id = 0
      BY <2>4, <2>6 DEF Selected
    <3>3. DirectIndex /\ Cardinality(Counted(a.given)) < start.hot.distinct
      BY <1>2, <1>3, <3>1, Zenon DEF Longer
    <3>2. Unknown(0)
      BY <2>4, <3>1
    <3> QED
      BY <1>2, <1>3, <2>2, <2>3, <3>2, <3>3, Zenon DEF ExactFor
  <2> QED
    BY <2>5, <2>6
<1>4. CASE ~start.threw
  <2>1. PICK h \in HotStates : h = start.hot
    BY <1>2
  <2>2. answered = HotDecode(h, table, ids, Inner)
    BY <1>4, <2>1
  <2>3. Grows(table, answered.table) /\ (Unmarked(h, ids) => answered.value = CoreDecode(ids))
    BY <2>2, HotDecodes
  <2>4. CASE Unmarked(h, ids)
    BY <1>1, <2>1, <2>3, <2>4, Zenon DEF ExactFor
  <2>5. CASE ~Unmarked(h, ids)
    <3>1. PICK k \in 1 .. Len(ids) : ids[k] \in h.cached /\ TextOf(ids[k])[1] = BOM
      BY <2>5, Zenon DEF Unmarked
    <3>2. ids[k] \in ToSet(ids)
      BY <1>1
    <3>3. ids[k] \in h.cached \intersect ToSet(a.given)
      BY <3>1, <3>2
    <3> QED
      BY <2>1, <2>3, <3>1, <3>3, Zenon DEF ExactFor
  <2> QED
    BY <2>4, <2>5
<1> QED
  BY <1>3, <1>4

\* A call of decode keeps tables, caches and hot strings sound, and answers exactly.
LEMMA DecodeLeaves ==
    ASSUME table \in Tables, hot \in HotStates, NEW ids \in Inputs, Decode(ids)
    PROVE  Leaves
<1>1. ids \in Seq(ToSet(ids))
  BY InputAssumption
<1>2. /\ phase = "ready" /\ phase' = phase /\ config' = config /\ stack' = stack
      /\ UNCHANGED <<storage, active>>
  BY DEF Decode, CanCall
<1>3. PICK none \in Tables : none = Seeded(table) /\ Grows(table, none)
  BY SeededGrows
<1>4. Grows(table, table)
  BY TablesAre
<1>5. CASE /\ Invalid \in ToSet(ids)
           /\ ~config.directScratch \/ config.hotStrings
           /\ Returns(ids, Answered(IF config.table /\ ~config.hotStrings THEN Seeded(table) ELSE table,
                                    Throws("type")))
           /\ UNCHANGED hot
  <2>1. PICK u : u = (IF config.table /\ ~config.hotStrings THEN Seeded(table) ELSE table) /\ Grows(table, u)
    BY <1>3, <1>4, Zenon
  <2>2. Returns(ids, Answered(u, Throws("type")))
    BY <1>5, <2>1, Zenon
  <2>3. table' = u /\ answer'.given = ids /\ answer'.value = Throws("type")
    BY <2>2, ReturnsIs, Answering
  <2>4. Expected(ids) = Throws("type")
    BY <1>5, Zenon DEF Expected
  <2> QED
    BY <1>2, <1>5, <2>1, <2>3, <2>4, Zenon DEF Leaves, ExactFor
<1>6. CASE /\ ids = <<>>
           /\ Returns(ids, Answered(IF config.table THEN Seeded(table) ELSE table, Text(<<>>)))
           /\ UNCHANGED hot
  <2>1. PICK u : u = (IF config.table THEN Seeded(table) ELSE table) /\ Grows(table, u)
    BY <1>3, <1>4, Zenon
  <2>2. Returns(ids, Answered(u, Text(<<>>)))
    BY <1>6, <2>1, Zenon
  <2>3. table' = u /\ answer'.given = ids /\ answer'.value = Text(<<>>)
    BY <2>2, ReturnsIs, Answering
  <2>4. Expected(ids) = Text(<<>>)
    <3>1. <<>> \in Seq(Present) /\ \A i \in 1 .. Len(<<>>) : <<>>[i] # Invalid
      OBVIOUS
    <3>2. Expected(<<>>) = CoreDecode(<<>>)
      BY <3>1, ExpectedIs
    <3>3. DOMAIN <<>> = {}
      OBVIOUS
    <3>4. CoreDecode(<<>>) = Text(Lossy(BytesOf(<<>>)))
      BY <3>3, Zenon DEF CoreDecode
    <3> QED
      BY <1>6, <3>2, <3>4, BytesFew, NothingRead, Zenon
  <2> QED
    BY <1>2, <1>6, <2>1, <2>3, <2>4, Zenon DEF Leaves, ExactFor
<1>7. CASE /\ ids # <<>> /\ Invalid \notin ToSet(ids)
           /\ \E order \in IF config.hotStrings THEN Orders(hot, ids) ELSE {<<>>} :
                 LET start == IF config.hotStrings THEN HotInitialized(hot, ids, order)
                              ELSE [hot |-> hot, threw |-> FALSE]
                 IN  /\ hot' = start.hot
                     /\ Returns(ids, IF start.threw THEN Answered(table, Throws("unknown"))
                                     ELSE HotDecode(start.hot, table, ids, Inner))
  <2>1. PICK order : /\ order \in IF config.hotStrings THEN Orders(hot, ids) ELSE {<<>>}
                     /\ LET start == IF config.hotStrings THEN HotInitialized(hot, ids, order)
                                     ELSE [hot |-> hot, threw |-> FALSE]
                        IN  /\ hot' = start.hot
                            /\ Returns(ids, IF start.threw THEN Answered(table, Throws("unknown"))
                                            ELSE HotDecode(start.hot, table, ids, Inner))
    BY <1>7, Zenon
  <2>2. PICK start : start = IF config.hotStrings THEN HotInitialized(hot, ids, order)
                             ELSE [hot |-> hot, threw |-> FALSE]
    BY Zenon
  <2>3. PICK answered : answered = IF start.threw THEN Answered(table, Throws("unknown"))
                                   ELSE HotDecode(start.hot, table, ids, Inner)
    BY Zenon
  <2>4. hot' = start.hot /\ Returns(ids, answered)
    BY <2>1, <2>2, <2>3, Zenon
  <2>5. table' = answered.table /\ answer'.given = ids /\ answer'.value = answered.value
    BY <2>4, ReturnsIs
  <2>6. PICK a : a = answer' /\ a.given = ids /\ a.value = answered.value
    BY <2>5, Zenon
  <2>7. Grows(table, answered.table) /\ start.hot \in HotStates /\ ExactFor(a, start.hot, config)
    BY <1>1, <1>7, <2>1, <2>2, <2>3, <2>6, HotCalls
  <2> QED
    BY <1>2, <2>4, <2>5, <2>6, <2>7, Zenon DEF Leaves
<1> QED
  BY <1>5, <1>6, <1>7, Zenon DEF Decode

RoutesInvariant ==
    /\ table \in Tables /\ hot \in HotStates /\ Watched(stack, table.strings)
    /\ stack # <<>> => phase = "ready"
    /\ phase # "ready" => answer = NoAnswer
    /\ ExactFor(answer, hot, config)

\* The invariant holds of a new decoder.
LEMMA RoutesInit == Init => RoutesInvariant
<1> SUFFICES ASSUME Init PROVE RoutesInvariant
  OBVIOUS
<1>1. table = EmptyTable /\ hot = NoHotStrings /\ stack = <<>> /\ answer = NoAnswer
  BY DEF Init
<1>2. NoHotStrings \in HotStates
  <2>1. PICK no \in BOOLEAN : no = FALSE
    BY Zenon
  <2>2. PICK none \in SUBSET Cleans : none = {}
    BY Zenon
  <2>3. HotOf(no, no, none, 0, 0, 0, 0, 0) \in HotStates
    BY HotOfIs
  <2>4. NoHotStrings = HotOf(no, no, none, 0, 0, 0, 0, 0)
    BY <2>1, <2>2, Zenon DEF NoHotStrings, HotOf
  <2> QED
    BY <2>3, <2>4
<1>3. Watched(<<>>, table.strings)
  BY DEF Watched
<1> QED
  BY <1>1, <1>2, <1>3, EmptyIsTable, Zenon DEF RoutesInvariant, ExactFor

\* A call that begins to read.
LEMMA ArrayBegins ==
    ASSUME ScratchInvariant, RoutesInvariant, NEW n \in 0 .. MaxLength, DecodeArray(n)
    PROVE  RoutesInvariant'
<1>1. /\ phase = "ready" /\ phase' = phase /\ config' = config /\ hot' = hot /\ answer' = NoAnswer
      /\ table' = Seeded(table) /\ (EnterScratch(n) \/ EnterJoin(n))
  BY DEF DecodeArray, CanCall
<1>2. table \in Tables /\ hot \in HotStates /\ Watched(stack, table.strings)
  BY DEF RoutesInvariant
<1>3. Grows(table, table') /\ table' \in Tables
  BY <1>1, <1>2, SeededGrows
<1>4. PICK t, u : t = table.strings /\ u = table'.strings /\ t \subseteq u
  BY <1>3 DEF Grows
<1>5. stack \in Seq(ToSet(stack)) /\ MaxLength \in Nat
  BY InputAssumption DEF ScratchInvariant
<1>6. \E p \in {"copy", "join"} : \E o : stack' = Append(stack, FrameOf(n, p, o, <<>>, 0, <<>>))
  BY <1>1, Zenon DEF EnterScratch, EnterJoin, FrameOf
<1>a. PICK p \in {"copy", "join"} : \E o : stack' = Append(stack, FrameOf(n, p, o, <<>>, 0, <<>>))
  BY <1>6
<1>7. PICK o : stack' = Append(stack, FrameOf(n, p, o, <<>>, 0, <<>>))
  BY <1>a
<1>8. PICK c : c = FrameOf(n, p, o, <<>>, 0, <<>>) /\ c.pass = p /\ c.given = <<>>
  <2>1. PICK d : d = FrameOf(n, p, o, <<>>, 0, <<>>)
    BY Zenon
  <2>2. d.pass = p /\ d.given = <<>>
    BY <2>1 DEF FrameOf
  <2> QED
    BY <2>1, <2>2, Zenon
<1>9. Careful(c, u)
  <2>1. 1 .. Len(c.given) = {} /\ p \in {"copy", "join", "fuse"} /\ p # "fuse"
    BY <1>7, <1>8
  <2> QED
    BY <1>8, <2>1, Zenon DEF Careful
<1>10. Watched(stack', u)
  <2>1. Watched(stack, t)
    BY <1>2, <1>4
  <2>2. Watched(Append(stack, c), u)
    BY <1>4, <1>5, <1>9, <2>1, Watching
  <2> QED
    BY <1>7, <1>8, <2>2
<1> QED
  BY <1>1, <1>2, <1>3, <1>4, <1>10, Zenon DEF RoutesInvariant, ExactFor

\* A call that is refused for what it has read.
LEMMA RefusedIs ==
    ASSUME NEW g \in Seq(Elements), NEW v \in Elements, v = Invalid
    PROVE  Expected(Append(g, v)) = Throws("type")
<1>1. PICK s \in Seq(Elements) : s = Append(g, v) /\ Len(s) = Len(g) + 1 /\ s[Len(g) + 1] = v /\ Len(g) \in Nat
  <2>1. /\ Append(g, v) \in Seq(Elements) /\ Len(Append(g, v)) = Len(g) + 1
        /\ Append(g, v)[Len(g) + 1] = v /\ Len(g) \in Nat
    OBVIOUS
  <2> QED
    BY <2>1, Zenon
<1>2. Len(g) + 1 \in 1 .. Len(s) /\ s[Len(g) + 1] = Invalid
  BY <1>1
<1>3. Expected(s) = Throws("type")
  BY <1>2, ExpectedIs
<1> QED
  BY <1>1, <1>3

\* A frame with one more element.
LEMMA CarefulMore ==
    ASSUME NEW c, IsFrame(c), Len(c.given) < c.length, NEW strings, Careful(c, strings),
           NEW v \in Elements, v # Invalid,
           NEW d, d.pass = c.pass, d.given = Append(c.given, v), d.length = c.length,
           c.pass = "join" => v \in strings,
           c.pass = "fuse" => d.miss = IF Len(c.given) + 1 < c.miss /\ v \notin strings
                                       THEN Len(c.given) + 1 ELSE c.miss
    PROVE  Careful(d, strings)
<1>1. PICK g \in Seq(Elements) : g = c.given /\ Len(g) < c.length /\ c.length \in Nat
  BY DEF IsFrame
<1>2. PICK m, n \in Nat : m = Len(g) /\ n = m + 1 /\ n \in 1 .. c.length
  BY <1>1
<1>3. PICK h \in Seq(Elements) : h = Append(g, v) /\ Len(h) = n /\ h[n] = v /\ \A i \in 1 .. m : h[i] = g[i]
  <2>1. /\ Append(g, v) \in Seq(Elements) /\ Len(Append(g, v)) = Len(g) + 1 /\ Append(g, v)[Len(g) + 1] = v
        /\ \A i \in 1 .. Len(g) : Append(g, v)[i] = g[i]
    OBVIOUS
  <2> QED
    BY <1>2, <2>1, Zenon
<1>4. \A i \in 1 .. n : i \in 1 .. m \/ i = n
  BY <1>2
<1>5. /\ c.pass \in {"copy", "join", "fuse"}
      /\ \A i \in 1 .. m : g[i] # Invalid
      /\ c.pass = "join" => \A i \in 1 .. m : g[i] \in strings
      /\ c.pass = "fuse" => c.miss \in 1 .. c.length /\ \A i \in 1 .. m : i < c.miss => g[i] \in strings
  BY <1>1, <1>2, Zenon DEF Careful
<1>6. d.given = h /\ \A i \in 1 .. n : h[i] # Invalid
  BY <1>1, <1>3, <1>4, <1>5, Zenon
<1>7. c.pass = "join" => \A i \in 1 .. n : h[i] \in strings
  BY <1>3, <1>4, <1>5, Zenon
<1>8. ASSUME c.pass = "fuse" PROVE d.miss \in 1 .. d.length /\ \A i \in 1 .. n : i < d.miss => h[i] \in strings
  <2>1. PICK y \in 1 .. c.length : y = c.miss
    BY <1>5, <1>8
  <2>2. CASE n < y /\ v \notin strings
    <3>1. d.miss = n
      BY <1>1, <1>2, <1>8, <2>1, <2>2, Zenon
    <3>2. \A i \in 1 .. n : i < n => i \in 1 .. m /\ i < y
      BY <1>2, <2>2
    <3>3. \A i \in 1 .. n : i < n => h[i] \in strings
      BY <1>3, <1>5, <1>8, <2>1, <3>2, Zenon
    <3> QED
      BY <1>2, <3>1, <3>3
  <2>3. CASE ~(n < y /\ v \notin strings)
    <3>1. d.miss = y
      BY <1>1, <1>2, <1>8, <2>1, <2>3, Zenon
    <3>2. \A i \in 1 .. n : i < y => h[i] \in strings
      BY <1>3, <1>4, <1>5, <1>8, <2>1, <2>3, Zenon
    <3> QED
      BY <2>1, <3>1, <3>2
  <2> QED
    BY <2>2, <2>3
<1> QED
  BY <1>3, <1>5, <1>6, <1>7, <1>8, Zenon DEF Careful

\* One element is read.
LEMMA ReadKeeps ==
    ASSUME ScratchInvariant, RoutesInvariant, NEW v \in Elements, Read(v)
    PROVE  RoutesInvariant'
<1>1. /\ stack # <<>> /\ Len(Top.given) < Top.length /\ (Copy(v) \/ JoinNext(v) \/ Fuse(v))
      /\ phase' = phase /\ config' = config /\ table' = table /\ hot' = hot
  BY DEF Read
<1>2. table \in Tables /\ hot \in HotStates /\ Watched(stack, table.strings) /\ phase = "ready"
  BY <1>1 DEF RoutesInvariant
<1>3. PICK top : top = Top /\ TopIs(top)
  BY <1>1, <1>2, TopFrame
<1>4. IsFrame(top) /\ Careful(top, table.strings) /\ Len(top.given) < top.length
  BY <1>1, <1>3, Zenon DEF TopIs
<1>5. PICK g \in Seq(Elements) : g = top.given
  BY <1>4 DEF IsFrame
<1>6. stack \in Seq(ToSet(stack))
  BY DEF ScratchInvariant
<1>7. PICK strings : strings = table.strings
  BY Zenon
<1>8. Watched(Below, strings) /\ \A c : Careful(c, strings) => Watched(Append(Below, c), strings)
  <2>1. Watched(Front(stack), strings) /\ \A c : Careful(c, strings) => Watched(Append(Front(stack), c), strings)
    BY <1>1, <1>2, <1>6, <1>7, Watching
  <2> QED
    BY <2>1, Zenon DEF Below
\* It is enough that the call is refused, or leaves such a frame.
<1>9. ASSUME NEW d, stack' = Append(Below, d), Careful(d, strings), answer' = NoAnswer PROVE RoutesInvariant'
  <2>1. Watched(stack', table'.strings)
    BY <1>1, <1>7, <1>8, <1>9, Zenon
  <2> QED
    BY <1>1, <1>2, <1>9, <2>1, Zenon DEF RoutesInvariant, ExactFor
<1>10. CASE Refuse(v) /\ v = Invalid
  <2>1. stack' = Below /\ answer' = [given |-> Append(g, v), value |-> Throws("type")]
    BY <1>3, <1>5, <1>10, Zenon DEF Refuse
  <2>2. answer'.given = Append(g, v) /\ answer'.value = Throws("type")
    BY <2>1
  <2>3. Expected(Append(g, v)) = Throws("type")
    BY <1>10, RefusedIs
  <2>4. Watched(stack', table'.strings)
    BY <1>1, <1>7, <1>8, <2>1, Zenon
  <2> QED
    BY <1>1, <1>2, <2>2, <2>3, <2>4, Zenon DEF RoutesInvariant, ExactFor
<1>11. PICK l, p, o, m, x : top = FrameOf(l, p, o, g, m, x) /\ l = top.length /\ p = top.pass /\ m = top.miss
  <2>1. top = FrameOf(top.length, top.pass, top.own, top.given, top.miss, top.prefix)
    BY <1>4 DEF IsFrame
  <2> QED
    BY <1>5, <2>1, Zenon
<1>12. PICK h \in Seq(Elements) : h = Append(g, v)
  <2>1. Append(g, v) \in Seq(Elements)
    OBVIOUS
  <2> QED
    BY <2>1, Zenon
<1>13. CASE Copy(v) /\ v # Invalid
  <2>1. stack' = Append(Below, [top EXCEPT !.given = Append(@, v)]) /\ answer' = NoAnswer /\ top.pass = "copy"
    BY <1>3, <1>13, Zenon DEF Copy
  <2>2. PICK d : d = [top EXCEPT !.given = Append(@, v)]
    BY Zenon
  <2>3. d = [top EXCEPT !.given = h]
    BY <1>5, <1>12, <2>2
  <2>4. d = FrameOf(l, p, o, h, m, x)
    BY <1>11, <2>3 DEF FrameOf
  <2>5. d.pass = p /\ d.given = h /\ d.length = l
    BY <2>4 DEF FrameOf
  <2>6. Careful(d, strings)
    <3>1. "copy" # "join" /\ "copy" # "fuse"
      OBVIOUS
    <3>2. (top.pass = "join" => v \in strings) /\ top.pass # "fuse" /\ v # Invalid
      BY <1>13, <2>1, <3>1, Zenon
    <3>3. d.pass = top.pass /\ d.given = Append(top.given, v) /\ d.length = top.length
      BY <1>5, <1>11, <1>12, <2>5, Zenon
    <3> QED
      BY <1>4, <1>7, <3>2, <3>3, CarefulMore
  <2> QED
    BY <1>9, <2>1, <2>2, <2>6, Zenon
<1>14. CASE JoinNext(v)
  <2>1. PICK d : /\ d = IF v \in table.strings THEN [top EXCEPT !.given = Append(@, v)]
                        ELSE [top EXCEPT !.pass = "fuse", !.given = <<>>, !.miss = Len(top.given) + 1,
                                         !.prefix = Prefix(top.given, Len(top.given) + 1)]
                 /\ stack' = Append(Below, d) /\ answer' = NoAnswer /\ top.pass = "join"
    BY <1>3, <1>14, Zenon DEF JoinNext
  <2>2. CASE v \in table.strings
    <3>1. d = [top EXCEPT !.given = h]
      BY <1>5, <1>12, <2>1, <2>2
    <3>2. d = FrameOf(l, p, o, h, m, x)
      BY <1>11, <3>1 DEF FrameOf
    <3>3. d.pass = p /\ d.given = h /\ d.length = l
      BY <3>2 DEF FrameOf
    <3>4. v # Invalid
      <4>1. v \in Cleans
        BY <1>2, <2>2, TablesAre
      <4> QED
        BY <4>1, InputAssumption, VocabularyAssumption DEF Cleans
    <3>5. "join" # "fuse"
      OBVIOUS
    <3>6. (top.pass = "join" => v \in strings) /\ top.pass # "fuse"
      BY <1>7, <2>1, <2>2, <3>5, Zenon
    <3>7. d.pass = top.pass /\ d.given = Append(top.given, v) /\ d.length = top.length
      BY <1>5, <1>11, <1>12, <3>3, Zenon
    <3>8. Careful(d, strings)
      BY <1>4, <1>7, <3>4, <3>6, <3>7, CarefulMore
    <3> QED
      BY <1>9, <2>1, <3>8, Zenon
  <2>3. CASE v \notin table.strings
    <3>1. PICK y \in 1 .. l : y = Len(top.given) + 1
      <4>1. Len(g) \in Nat /\ Len(g) < l /\ l \in Nat
        <5>1. Len(g) \in Nat
          OBVIOUS
        <5>2. l = top.length /\ top.length \in Nat
          BY <1>4, <1>11, Zenon DEF IsFrame
        <5> QED
          BY <1>4, <1>5, <5>1, <5>2, Zenon
      <4> QED
        BY <1>5, <4>1
    <3>2. PICK z : z = Prefix(top.given, Len(top.given) + 1)
      BY Zenon
    <3>3. d = Fused(top, "fuse", <<>>, y, z)
      BY <2>1, <2>3, <3>1, <3>2, Zenon DEF Fused
    <3>4. d = FrameOf(top.length, "fuse", top.own, <<>>, y, z)
      BY <1>4, <3>3, FrameExcept
    <3>5. d.pass = "fuse" /\ d.given = <<>> /\ d.length = l /\ d.miss = y
      BY <1>11, <3>4 DEF FrameOf
    <3>6. 1 .. Len(d.given) = {} /\ d.pass \in {"copy", "join", "fuse"} /\ d.pass # "join"
      BY <3>5
    <3>7. Careful(d, strings)
      BY <3>1, <3>5, <3>6, Zenon DEF Careful
    <3> QED
      BY <1>9, <2>1, <3>7, Zenon
  <2> QED
    BY <2>2, <2>3
<1>15. CASE Fuse(v) /\ v # Invalid
  <2>1. PICK y : y = IF Len(top.given) + 1 < m /\ v \notin table.strings THEN Len(top.given) + 1 ELSE m
    BY Zenon
  <2>2. PICK d : /\ d = [top EXCEPT !.given = Append(@, v),
                                    !.miss = IF Len(top.given) + 1 < @ /\ v \notin table.strings
                                             THEN Len(top.given) + 1 ELSE @]
                 /\ stack' = Append(Below, d) /\ answer' = NoAnswer /\ top.pass = "fuse"
    BY <1>3, <1>15, Zenon DEF Fuse
  <2>3. d = Refilled(top, h, y)
    <3>1. d = [top EXCEPT !.given = h, !.miss = y]
      BY <1>5, <1>11, <1>12, <2>1, <2>2
    <3> QED
      BY <3>1, Zenon DEF Refilled
  <2>4. d = FrameOf(top.length, top.pass, top.own, h, y, top.prefix)
    BY <1>4, <2>3, FrameExcept
  <2>5. d.pass = top.pass /\ d.given = h /\ d.length = top.length /\ d.miss = y
    BY <2>4 DEF FrameOf
  <2>6. "fuse" # "join"
    OBVIOUS
  <2>7. top.pass # "join" /\ v # Invalid /\ d.given = Append(top.given, v)
    BY <1>5, <1>12, <1>15, <2>2, <2>5, <2>6, Zenon
  <2>8. d.miss = IF Len(top.given) + 1 < top.miss /\ v \notin strings THEN Len(top.given) + 1 ELSE top.miss
    BY <1>7, <1>11, <2>1, <2>5, Zenon
  <2>9. Careful(d, strings)
    BY <1>4, <1>7, <2>5, <2>7, <2>8, CarefulMore
  <2> QED
    BY <1>9, <2>2, <2>9, Zenon
<1>16. (Refuse(v) /\ v = Invalid) \/ (Copy(v) /\ v # Invalid) \/ JoinNext(v) \/ (Fuse(v) /\ v # Invalid)
  BY <1>1 DEF Copy, Fuse
<1> QED
  BY <1>10, <1>13, <1>14, <1>15, <1>16

\* All was read: the answer is that of the core for it.
LEMMA FinishKeeps ==
    ASSUME ScratchInvariant, RoutesInvariant, Finish
    PROVE  RoutesInvariant'
<1>1. /\ stack # <<>> /\ Len(Top.given) = Top.length
      /\ stack' = Below /\ phase' = phase /\ config' = config /\ hot' = hot
  BY DEF Finish
<1>2. table \in Tables /\ hot \in HotStates /\ Watched(stack, table.strings) /\ phase = "ready"
  BY <1>1 DEF RoutesInvariant
<1>3. PICK top : top = Top /\ TopIs(top)
  BY <1>1, <1>2, TopFrame
<1>4. PICK ids : ids = IF top.own THEN SubSeq(storage, 1, top.length) ELSE top.given
  BY Zenon
<1>5. PICK plan : plan = CASE top.pass = "copy" -> Prepared(config, table, ids, TRUE)
                           [] top.pass = "join" -> Joined(Prefix(ids, Len(ids) + 1))
                           [] top.pass = "fuse" -> Missed(top.miss, PreparedPrefix(top))
  BY Zenon
<1>6. PICK answered : answered = DecodeBy(config, table, ids, plan)
  BY Zenon
<1>7. Returns(top.given, answered)
  BY <1>3, <1>4, <1>5, <1>6, Zenon DEF Finish
<1>8. /\ ids = top.given /\ ids \in Seq(Elements) /\ \A i \in 1 .. Len(ids) : ids[i] # Invalid
      /\ Planned(plan, ids)
  <2>1. Len(top.given) = top.length
    BY <1>1, <1>3, Zenon
  <2> QED
    BY <1>2, <1>3, <1>4, <1>5, <2>1, FinishPlans
<1>9. Serves(table, answered, ids)
  BY <1>2, <1>6, <1>8, DecodeByServes
<1>10. Grows(table, answered.table) /\ answered.value = CoreDecode(ids)
  BY <1>9, Zenon DEF Serves
<1>11. Expected(ids) = CoreDecode(ids)
  BY <1>8, ExpectedIs
<1>12. table' = answered.table /\ answer'.given = top.given /\ answer'.value = answered.value
  BY <1>7, ReturnsIs
<1>13. PICK t, u : t = table.strings /\ u = table'.strings /\ t \subseteq u /\ table' \in Tables
  BY <1>10, <1>12 DEF Grows
<1>14. Watched(stack', u)
  <2>1. stack \in Seq(ToSet(stack)) /\ Watched(stack, t)
    BY <1>2, <1>13 DEF ScratchInvariant
  <2>2. Watched(Front(stack), u)
    BY <1>1, <1>13, <2>1, Watching
  <2> QED
    BY <1>1, <2>2, Zenon DEF Below
<1> QED
  BY <1>1, <1>2, <1>8, <1>10, <1>11, <1>12, <1>13, <1>14, Zenon DEF RoutesInvariant, ExactFor

\* Every step keeps it.
LEMMA RoutesStep ==
    ASSUME ScratchInvariant, RoutesInvariant, [Next]_vars
    PROVE  RoutesInvariant'
<1>1. CASE Resolve
  <2>1. phase = "new" /\ stack' = stack /\ answer' = answer /\ table' = table /\ hot' = hot
    BY <1>1 DEF Resolve
  <2>2. phase # "ready"
    BY <2>1
  <2>3. answer = NoAnswer /\ stack = <<>>
    BY <2>2, Zenon DEF RoutesInvariant
  <2> QED
    BY <2>1, <2>3, Zenon DEF RoutesInvariant, ExactFor
<1>2. CASE Compose
  <2>1. phase = "resolved" /\ stack' = stack /\ answer' = answer /\ table' = table /\ hot' = hot
    BY <1>2 DEF Compose
  <2>2. phase # "ready"
    BY <2>1
  <2>3. answer = NoAnswer /\ stack = <<>>
    BY <2>2, Zenon DEF RoutesInvariant
  <2> QED
    BY <2>1, <2>3, Zenon DEF RoutesInvariant, ExactFor
<1>3. ASSUME NEW ids \in Inputs, Decode(ids) PROVE RoutesInvariant'
  <2>1. table \in Tables /\ hot \in HotStates /\ Watched(stack, table.strings)
    BY DEF RoutesInvariant
  <2>2. Leaves
    BY <1>3, <2>1, DecodeLeaves
  <2>3. /\ Grows(table, table') /\ hot' \in HotStates /\ ExactFor(answer', hot', config')
        /\ phase' = phase /\ phase = "ready" /\ stack' = stack
    BY <2>2, Zenon DEF Leaves
  <2>4. PICK t, u : t = table.strings /\ u = table'.strings /\ t \subseteq u /\ table' \in Tables
    BY <2>3 DEF Grows
  <2>5. Watched(stack', u)
    <3>1. stack \in Seq(ToSet(stack)) /\ Watched(stack, t)
      BY <2>1, <2>4 DEF ScratchInvariant
    <3>2. Watched(stack, u)
      BY <2>4, <3>1, Watching
    <3> QED
      BY <2>3, <3>2, Zenon
  <2> QED
    BY <2>3, <2>4, <2>5, Zenon DEF RoutesInvariant
<1>4. CASE UNCHANGED vars
  <2>1. /\ table' = table /\ hot' = hot /\ stack' = stack /\ phase' = phase /\ answer' = answer /\ config' = config
    BY <1>4 DEF vars
  <2> QED
    BY <2>1, Zenon DEF RoutesInvariant
<1> QED
  BY <1>1, <1>2, <1>3, <1>4, ArrayBegins, ReadKeeps, FinishKeeps, Zenon DEF Next

\* It holds throughout.
LEMMA RoutesAlways == Spec => []RoutesInvariant
<1>1. Init => RoutesInvariant
  BY RoutesInit
<1>2. ScratchInvariant /\ RoutesInvariant /\ [Next]_vars => RoutesInvariant'
  BY RoutesStep
<1> QED
  BY ScratchInit, ScratchStep, <1>1, <1>2, PTL DEF Spec

\* Whatever was decoded before and within it: a call returns the text of the core for what it
\* has read, or what the core throws; the exceptions are hot texts that begin with a byte
\* order mark, and a heap that names token 0 where there is none.
THEOREM RoutesAreExact == Spec => []Exact
<1>1. RoutesInvariant => Exact
  BY Zenon DEF RoutesInvariant, Exact, ExactFor
<1> QED
  BY <1>1, RoutesAlways, PTL

\* The run cache keeps within its capacity and its accounts and holds the text of each of its
\* runs, and only tokens that are UTF-8 by themselves get strings of their own.
THEOREM CachesAreKept == Spec => []CachesSound
<1>1. RoutesInvariant => CachesSound
  <2> SUFFICES ASSUME RoutesInvariant PROVE CachesSound
    OBVIOUS
  <2>1. table \in Tables /\ hot \in HotStates
    BY DEF RoutesInvariant
  <2>2. table.strings \subseteq Cleans /\ table.runs \in Caches
    BY <2>1, TablesAre
  <2>3. hot.cached \subseteq Cleans
    BY <2>1 DEF HotStates
  <2>4. table.strings \union hot.cached \subseteq {id \in Present : Clean(id)}
    BY <2>2, <2>3 DEF Cleans
  <2>5. Sound(table.runs, LAMBDA ids : Lossy(BytesOf(ids))) /\ Accounted(table.runs)
    BY <2>2, CachesAreSound
  <2> QED
    BY <2>4, <2>5, Zenon DEF CachesSound
<1> QED
  BY <1>1, RoutesAlways, PTL
=============================================================================
