------------------------------ MODULE WorkerPool ------------------------------
(***************************************************************************)
(* The worker tier of hypertok-js/src/tier-runtime.mjs once its pool is    *)
(* there: IndependentWorkerPool, encodeWithWorkers, encodeLongPretoken and *)
(* the fallback of encodeForTier, over the pool's threads                  *)
(* (tier-worker.mjs).                                                      *)
(*                                                                         *)
(* A text is the sequence of its pretokens, a pretoken the number of       *)
(* chunks it is divided into (1: no longer than the chunk size).  An id is *)
(* known by the pretoken and the chunk it encodes, and by the version of   *)
(* the client's array it was read from.  A step is a task of the session's *)
(* event loop with all the promise reactions it causes.                    *)
(***************************************************************************)
EXTENDS Integers, Sequences, FiniteSets, SequencesExt

CONSTANTS
    Call,             \* the calls of encode on handles of the worker tier
    Texts,            \* the inputs considered
    NotText,          \* an input that is not UTF-8
    WorkerCount,
    BatchSize,        \* 1024
    IdCount(_, _)     \* pretoken, chunk -> how many ids encode it

ASSUME PoolAssumption == WorkerCount \in Nat \ {0} /\ BatchSize \in Nat \ {0}
ASSUME TextAssumption == \A txt \in Texts \ {NotText} : txt \in Seq(Nat \ {0})
ASSUME IdCountAssumption ==
    \A txt \in Texts \ {NotText} : \A p \in DOMAIN txt : \A k \in 1 .. txt[p] :
        IdCount(p, k) \in Nat \ {0}

Worker == 0 .. WorkerCount - 1

VARIABLES
    chunking,      \* chunking_available of the resident tokenizer
    text,          \* what a call encodes
    written,       \* did the client write to a call's array since?  0 or 1
    phase,         \* "idle", "awaiting", "answered", "rejected"
    tasks,         \* the promises of encodeWithWorkers, one for each batch or long pretoken
    route,         \* whose ids a call was answered with: "none", "workers", "single"
    answer,        \* those ids
    queue,         \* RpcWorker.pending: what was posted to a thread, the oldest first
    failure,       \* RpcWorker.failure
    nextWorker, poolTasks, active,      \* IndependentWorkerPool
    telemetry,     \* lastTelemetry of a call that the workers answered
    alone,         \* history: did nobody else use the pool during a call?
    closed

calls == <<chunking, text, written, phase, tasks, route, answer, telemetry, alone>>
pool  == <<queue, failure, nextWorker, poolTasks, active, closed>>
vars  == <<calls, pool>>

(***************************************************************************)
(* Batches, pieces and their ids                                           *)
(***************************************************************************)
Long(txt, p) == txt[p] > 1

\* encodeWithWorkers: short pretokens in batches, a long one by itself.
Added(items, txt, p) ==
    IF /\ ~Long(txt, p) /\ items # <<>>
       /\ ~Last(items).long /\ Len(Last(items).pretokens) < BatchSize
    THEN [items EXCEPT ![Len(items)].pretokens = Append(@, p)]
    ELSE Append(items, [long |-> Long(txt, p), pretokens |-> <<p>>])
Items(txt) ==
    FoldLeft(LAMBDA items, p : Added(items, txt, p), <<>>, [p \in DOMAIN txt |-> p])

Piece(p, first, last, version) ==
    [pretoken |-> p, first |-> first, last |-> last, version |-> version]

\* What is posted for item i: a batch, or a chunk for each of a pretoken's initial ranges.
ItemRequests(c, txt, i, version) ==
    LET item == Items(txt)[i] IN
    IF ~item.long
    THEN <<[call |-> c, item |-> i, part |-> 0,
            pieces |-> [e \in DOMAIN item.pretokens |-> Piece(item.pretokens[e], 1, 1, version)]]>>
    ELSE IF ~chunking THEN <<>>       \* beginOverlap throws
    ELSE [k \in 1 .. txt[item.pretokens[1]] |->
             [call |-> c, item |-> i, part |-> k,
              pieces |-> <<Piece(item.pretokens[1], k, k, version)>>]]

Requests(c, txt, version) ==
    FlattenSeq([i \in DOMAIN Items(txt) |-> ItemRequests(c, txt, i, version)])

Ids(piece) ==
    FlattenSeq([k \in 1 .. piece.last - piece.first + 1 |->
        [j \in 1 .. IdCount(piece.pretoken, piece.first + k - 1) |->
            [pretoken |-> piece.pretoken, chunk |-> piece.first + k - 1,
             version |-> piece.version]]])

\* encodePretokens in the thread: the ids of all entries, and how many each has.
Encoded(pieces) ==
    [lengths |-> [e \in DOMAIN pieces |-> Len(Ids(pieces[e]))],
     flatIds |-> FlattenSeq([e \in DOMAIN pieces |-> Ids(pieces[e])])]

\* Mutant: an entry starts where the one before it started.
SlicedLate(result) ==
    LET end[e \in 0 .. Len(result.lengths)] ==
            IF e = 0 THEN 0 ELSE end[e - 1] + result.lengths[e]
    IN  [e \in DOMAIN result.lengths |->
            SubSeq(result.flatIds, (IF e = 1 THEN 0 ELSE end[e - 2]) + 1,
                   (IF e = 1 THEN 0 ELSE end[e - 2]) + result.lengths[e])]

\* encodeBatch: the ids of each entry again.
Sliced(result) ==
    LET end[e \in 0 .. Len(result.lengths)] ==
            IF e = 0 THEN 0 ELSE end[e - 1] + result.lengths[e]
    IN  [e \in DOMAIN result.lengths |-> SubSeq(result.flatIds, end[e - 1] + 1, end[e])]

\* single.encode: the ids of a text, all of one version.
Whole(txt, version) ==
    FlattenSeq([p \in DOMAIN txt |-> Ids(Piece(p, 1, txt[p], version))])

(***************************************************************************)
(* Promises                                                                *)
(***************************************************************************)
\* A task awaits its batch or initial chunks, or an enlargement; the reconciler of a long
\* pretoken lives as long (finally).
Unsettled(task) == task.state \in {"encoding", "enlarging"}
Failed(task)    == [task EXCEPT !.state = "failed"]

NewTask(txt, i) ==
    LET p == Items(txt)[i].pretokens[1] IN
    [state |-> "encoding", spliced |-> 0, enlargements |-> 0,
     parts |-> IF Items(txt)[i].long THEN [k \in 1 .. txt[p] |-> <<>>] ELSE <<>>]

\* flattenIds
FlatIds(parts) == FlattenSeq(parts)

Total(counts) == FoldLeft(LAMBDA m, n : m + n, 0, counts)

TelemetryOf(after) ==
    [tasks |-> poolTasks', activeWorkers |-> Cardinality(active'),
     enlargements |-> Total([i \in DOMAIN after |-> after[i].enlargements])]

\* Promise.all of the tasks of the calls that await them, which are now `after`, and what
\* encodeForTier does then: the first that fails makes it encode by itself, unless the
\* session is closed.
Conclude(awaiting, after) ==
    LET fails(c) == \E i \in DOMAIN after[c] : after[c][i].state = "failed"
        ends(c)  == \A i \in DOMAIN after[c] : after[c][i].state = "done"
        single   == IF closed' THEN {} ELSE {c \in awaiting : fails(c)}
        workers  == {c \in awaiting : ends(c)}
    IN  /\ tasks' = after
        /\ phase' = [c \in Call |->
               IF c \in single \union workers THEN "answered"
               ELSE IF c \in awaiting THEN IF fails(c) THEN "rejected" ELSE "awaiting"
               ELSE phase[c]]
        /\ route' = [c \in Call |-> IF c \in single THEN "single"
                                    ELSE IF c \in workers THEN "workers" ELSE route[c]]
        /\ answer' = [c \in Call |->
               IF c \in single THEN Whole(text'[c], written'[c])
               ELSE IF c \in workers
               THEN FlatIds([i \in DOMAIN after[c] |-> FlatIds(after[c][i].parts)])
               ELSE answer[c]]
        /\ telemetry' = [c \in Call |-> IF c \in workers THEN TelemetryOf(after[c])
                                        ELSE telemetry[c]]

Awaiting == {c \in Call : phase[c] = "awaiting"}

(***************************************************************************)
(* encode                                                                  *)
(***************************************************************************)
\* The worker n after the next one.
Later(n) == (nextWorker + n) % WorkerCount

\* Round robin: the k-th request goes to the worker k - 1 after the next one.
Assigned(rs, w) ==
    LET mine == FoldLeft(LAMBDA ks, k : IF Later(k - 1) = w THEN Append(ks, k) ELSE ks,
                         <<>>, [k \in DOMAIN rs |-> k])
    IN  [n \in DOMAIN mine |-> rs[mine[n]]]

\* RpcWorker.call for all requests of an encode: a thread that failed refuses its own.
CallWorker(w, rs) == IF failure[w] THEN queue[w] ELSE queue[w] \o Assigned(rs, w)

\* Mutant: what the encode before counted is kept.
KeepTelemetry == UNCHANGED <<poolTasks, active>>

ResetTelemetry == poolTasks' = 0 /\ active' = {}

\* encodeWithWorkers up to its await: the requests of all tasks are posted in one go.
Start(c, txt) ==
    LET rs         == Requests(c, txt, 0)
        refused(i) == \/ Items(txt)[i].long /\ ~chunking
                      \/ \E k \in DOMAIN rs : rs[k].item = i /\ failure[Later(k - 1)]
        new        == [i \in DOMAIN Items(txt) |->
                          IF refused(i) THEN Failed(NewTask(txt, i)) ELSE NewTask(txt, i)]
    IN  /\ phase[c] = "idle" /\ ~closed /\ txt # NotText
        /\ text' = [text EXCEPT ![c] = txt]
        /\ queue' = [w \in Worker |-> CallWorker(w, rs)]
        /\ nextWorker' = Later(Len(rs))
        /\ ResetTelemetry
        /\ alone' = [d \in Call |-> IF d = c THEN \A w \in Worker : queue[w] = <<>>
                                    ELSE alone[d] /\ phase[d] # "awaiting"]
        /\ UNCHANGED <<chunking, written, failure, closed>>
        /\ Conclude(Awaiting \union {c}, [tasks EXCEPT ![c] = new])

\* pretokenRanges throws, and so does single.encode; ensureOpen does after close.
StartRefused(c) ==
    /\ phase[c] = "idle"
    /\ closed \/ NotText \in Texts
    /\ phase' = [phase EXCEPT ![c] = "rejected"]
    /\ UNCHANGED <<chunking, text, written, tasks, route, answer, telemetry, alone, pool>>

\* The client may write to the array it encodes (a string it cannot).
ClientWrites(c) ==
    /\ phase[c] = "awaiting" /\ written[c] = 0
    /\ written' = [written EXCEPT ![c] = 1]
    /\ UNCHANGED <<chunking, text, phase, tasks, route, answer, telemetry, alone, pool>>

(***************************************************************************)
(* Answers                                                                 *)
(***************************************************************************)
TaskOf(r) == tasks[r.call][r.item]
WithTask(r, task) == [tasks EXCEPT ![r.call][r.item] = task]

\* What a message changes before its task goes on.
Answered(w, more) ==
    /\ queue' = [v \in Worker |-> (IF v = w THEN Tail(queue[v]) ELSE queue[v]) \o more[v]]
    /\ poolTasks' = poolTasks + Len(Head(queue[w]).pieces)
    /\ active' = active \union {w}
    /\ UNCHANGED <<chunking, text, written, alone, failure, closed>>

Nothing == [v \in Worker |-> <<>>]

\* The results of a batch are the ids of its entries.
BatchAnswered(w, r) ==
    /\ r.part = 0 /\ TaskOf(r).state = "encoding"
    /\ Answered(w, Nothing) /\ UNCHANGED nextWorker
    /\ Conclude(Awaiting, WithTask(r, [TaskOf(r) EXCEPT !.state = "done",
                                                       !.parts = Sliced(Encoded(r.pieces))]))

\* The reconciler joined the first m parts: it is done, or asks for the range of these and
\* the next one, which goes to the next worker.  If that one failed, so does the task.
Advance(w, r, joined, m) ==
    LET p    == Items(text[r.call])[r.item].pretokens[1]
        next == [call |-> r.call, item |-> r.item, part |-> 0,
                 pieces |-> <<Piece(p, 1, m + 1, written[r.call])>>]
    IN  IF m = Len(joined.parts)
        THEN /\ Answered(w, Nothing) /\ UNCHANGED nextWorker
             /\ Conclude(Awaiting, WithTask(r, [joined EXCEPT !.state = "done", !.spliced = m]))
        ELSE /\ nextWorker' = Later(1)
             /\ Answered(w, IF failure[nextWorker] THEN Nothing
                            ELSE [Nothing EXCEPT ![nextWorker] = <<next>>])
             /\ Conclude(Awaiting, WithTask(r,
                    [joined EXCEPT !.state = IF failure[nextWorker] THEN "failed" ELSE "enlarging",
                                   !.spliced = m]))

\* An initial chunk; with the last of them acceptInitial joins some.
ChunkAnswered(w, r) ==
    /\ r.part # 0 /\ TaskOf(r).state = "encoding"
    /\ LET joined == [TaskOf(r) EXCEPT !.parts[r.part] = Sliced(Encoded(r.pieces))[1]] IN
       IF \E k \in DOMAIN joined.parts : joined.parts[k] = <<>>
       THEN /\ Answered(w, Nothing) /\ UNCHANGED nextWorker
            /\ Conclude(Awaiting, WithTask(r, joined))
       ELSE \E m \in DOMAIN joined.parts : Advance(w, r, joined, m)

\* acceptEnlargement: the answer stands for the parts it covers.
EnlargementAnswered(w, r) ==
    /\ r.part = 0 /\ TaskOf(r).state = "enlarging"
    /\ LET task    == TaskOf(r)
           covered == task.spliced + 1
           ids     == Sliced(Encoded(r.pieces))[1]
           joined  == [task EXCEPT
                          !.enlargements = @ + 1,
                          !.parts = [k \in DOMAIN @ |-> IF k = 1 THEN ids
                                                        ELSE IF k <= covered THEN <<>>
                                                        ELSE @[k]]]
       IN  \E m \in covered .. Len(task.parts) : Advance(w, r, joined, m)

\* An answer nobody waits for: another chunk of its pretoken failed.
LateAnswer(w, r) ==
    /\ ~Unsettled(TaskOf(r))
    /\ Answered(w, Nothing) /\ UNCHANGED nextWorker
    /\ Conclude(Awaiting, tasks)

\* The thread could not encode: it threw.
Refused(w, r) ==
    /\ queue' = [queue EXCEPT ![w] = Tail(@)]
    /\ UNCHANGED <<chunking, text, written, alone, failure, nextWorker, poolTasks, active, closed>>
    /\ Conclude(Awaiting, WithTask(r, IF Unsettled(TaskOf(r)) THEN Failed(TaskOf(r))
                                      ELSE TaskOf(r)))

\* A thread's message to the session.
Deliver(w) ==
    /\ queue[w] # <<>>
    /\ \/ BatchAnswered(w, Head(queue[w]))
       \/ ChunkAnswered(w, Head(queue[w]))
       \/ EnlargementAnswered(w, Head(queue[w]))
       \/ LateAnswer(w, Head(queue[w]))
       \/ Refused(w, Head(queue[w]))

(***************************************************************************)
(* Errors and close                                                        *)
(***************************************************************************)
\* Mutant: who awaits an enlargement is not told.
RejectedInitial(ws) ==
    [c \in Call |-> [i \in DOMAIN tasks[c] |->
        IF /\ tasks[c][i].state = "encoding"
           /\ \E w \in ws : \E r \in ToSet(queue[w]) : r.call = c /\ r.item = i
        THEN Failed(tasks[c][i]) ELSE tasks[c][i]]]

\* The tasks after all that was posted to some workers is rejected.
Rejected(ws) ==
    [c \in Call |-> [i \in DOMAIN tasks[c] |->
        IF /\ Unsettled(tasks[c][i])
           /\ \E w \in ws : \E r \in ToSet(queue[w]) : r.call = c /\ r.item = i
        THEN Failed(tasks[c][i]) ELSE tasks[c][i]]]

\* Mutant: the pending promises are forgotten.
WorkerFailsSilently(w) ==
    /\ ~failure[w]
    /\ failure' = [failure EXCEPT ![w] = TRUE]
    /\ queue' = [queue EXCEPT ![w] = <<>>]
    /\ UNCHANGED <<chunking, text, written, alone, nextWorker, poolTasks, active, closed>>
    /\ Conclude(Awaiting, tasks)

\* The error listener of RpcWorker.
WorkerFails(w) ==
    /\ ~failure[w]
    /\ failure' = [failure EXCEPT ![w] = TRUE]
    /\ queue' = [queue EXCEPT ![w] = <<>>]
    /\ UNCHANGED <<chunking, text, written, alone, nextWorker, poolTasks, active, closed>>
    /\ Conclude(Awaiting, Rejected({w}))

\* close() of the session and of its pool.
Close ==
    /\ ~closed
    /\ closed' = TRUE
    /\ failure' = [w \in Worker |-> TRUE]
    /\ queue' = [w \in Worker |-> <<>>]
    /\ UNCHANGED <<chunking, text, written, alone, nextWorker, poolTasks, active>>
    /\ Conclude(Awaiting, Rejected(Worker))

NoTelemetry == [tasks |-> 0, activeWorkers |-> 0, enlargements |-> 0]

Init ==
    /\ chunking \in BOOLEAN
    /\ text = [c \in Call |-> <<>>] /\ written = [c \in Call |-> 0]
    /\ phase = [c \in Call |-> "idle"] /\ tasks = [c \in Call |-> <<>>]
    /\ route = [c \in Call |-> "none"] /\ answer = [c \in Call |-> <<>>]
    /\ telemetry = [c \in Call |-> NoTelemetry] /\ alone = [c \in Call |-> FALSE]
    /\ queue = [w \in Worker |-> <<>>] /\ failure = [w \in Worker |-> FALSE]
    /\ nextWorker = 0 /\ poolTasks = 0 /\ active = {}
    /\ closed = FALSE

Next ==
    \/ \E c \in Call : \/ \E txt \in Texts : Start(c, txt)
                       \/ StartRefused(c)
                       \/ ClientWrites(c)
    \/ \E w \in Worker : Deliver(w) \/ WorkerFails(w)
    \/ Close

Spec == Init /\ [][Next]_vars

\* A thread answers what is posted to it: WF_vars(Deliver(w)), as Deliver(w) is enabled when
\* something is (written out, because TLC is slow to find that Deliver is enabled).
FairSpec == Spec /\ \A w \in Worker : []<>(queue[w] = <<>>) \/ []<><<Deliver(w)>>_vars

(***************************************************************************)
(* Properties                                                              *)
(***************************************************************************)
\* An answer of the workers is the ids of the text in its order, whichever worker answered
\* which batch or chunk when.  It was read when encode was called, except for what was
\* enlarged: only there can a client that writes to its array find both versions.  What
\* the fallback answers is of one version.
AnswersInOrder ==
    \A c \in Call :
        LET first == [n \in DOMAIN answer[c] |-> [answer[c][n] EXCEPT !.version = 0]]
        IN  /\ route[c] = "single" => answer[c] \in {Whole(text[c], 0), Whole(text[c], written[c])}
            /\ route[c] = "workers" => first = Whole(text[c], 0)
            /\ \A n \in DOMAIN answer[c] : route[c] = "workers" /\ answer[c][n].version = 1 =>
                   /\ written[c] = 1
                   /\ \E i \in DOMAIN tasks[c] :
                          /\ answer[c][n].pretoken \in ToSet(Items(text[c])[i].pretokens)
                          /\ tasks[c][i].enlargements > 0

\* Whoever waits has something posted that will be answered or rejected: every part a task
\* lacks.  So a closed session leaves no promise and no reconciler behind.
NothingStranded ==
    /\ \A c \in Call : \A i \in DOMAIN tasks[c] : Unsettled(tasks[c][i]) =>
           \E w \in Worker : \E r \in ToSet(queue[w]) : r.call = c /\ r.item = i
    /\ \A c \in Call : phase[c] = "awaiting" =>
           \E i \in DOMAIN tasks[c] : Unsettled(tasks[c][i])

\* The telemetry of an encode that had the pool for itself, with nothing left over from
\* those before it, counts its pretokens, chunks and enlargements.
TelemetryOfOne ==
    \A c \in Call : route[c] = "workers" /\ alone[c] =>
        /\ telemetry[c].tasks = Total(text[c]) + telemetry[c].enlargements
        /\ telemetry[c].activeWorkers <= telemetry[c].tasks

\* Every encode is answered or rejected, and late answers leave every thread idle.
EncodesSettle ==
    /\ \A c \in Call : phase[c] = "awaiting" ~> phase[c] \in {"answered", "rejected"}
    /\ \A w \in Worker : []<>(queue[w] = <<>>)
=============================================================================
