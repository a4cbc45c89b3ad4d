----------------------------- MODULE TierRuntime -----------------------------
(***************************************************************************)
(* One execution-tier session: the closures of createTierRuntime in        *)
(* hypertok-js/src/tier-runtime.mjs, with the RpcWorker and                *)
(* IndependentWorkerPool objects they own and, across postMessage, the     *)
(* worker threads of tier-worker.mjs and shared-controller.mjs.            *)
(*                                                                         *)
(* The runtime is single-threaded JavaScript, so what can go wrong is      *)
(* decided by the event loop.  The model keeps it exactly:                 *)
(*   - a task (a client's turn, a "message" event, an "error" event)       *)
(*     starts only when the microtask queue `jobs` is empty;               *)
(*   - a continuation (what follows an await, a .then, Promise.all) is a   *)
(*     job; jobs run first in, first out;                                  *)
(*   - a job stands for `ticks` successive promise reactions of which only *)
(*     the last changes session state; the earlier ones re-enter the queue *)
(*     at its end, as the reactions they stand for do;                     *)
(*   - when a client's promise settles, its continuation is a job, during  *)
(*     which the client may make further calls before the next job runs.   *)
(*                                                                         *)
(* Input bytes and token ids are abstracted to what the session promises   *)
(* about them: ids are "exact" (those of the resident single tokenizer),   *)
(* "foreign" (computed by a thread with another vocabulary), or the call   *)
(* is "rejected"; "trap" is the use of the freed resident tokenizer.       *)
(***************************************************************************)
EXTENDS Naturals, Sequences, FiniteSets, SequencesExt

CONSTANTS
    Slot,                 \* client continuations that may be in flight at once
    Boot,                 \* the initial activation inside createTierRuntime
    WorkerCount,          \* options.workerCount
    MaxAttempts,          \* bound: activations of a parallel tier per session
    Environments,         \* the values of browserCapabilities() considered
    HasThreadedArtifact,  \* threadedModuleUrl !== undefined
    Requests,             \* options.tier, "auto" when undefined: the values considered
    Htk,                  \* format === "htk"
    LazyWorkerImage       \* optimizations.lazyWorkerImage

Tiers == {"single", "worker", "shared"}

ASSUME BoundAssumption == WorkerCount \in Nat \ {0} /\ MaxAttempts \in Nat \ {0}
ASSUME CapabilityAssumption ==
    /\ Environments \subseteq [isolated: BOOLEAN, sharedArrayBuffer: BOOLEAN, worker: BOOLEAN]
    /\ HasThreadedArtifact \in BOOLEAN
    /\ Htk \in BOOLEAN
    /\ LazyWorkerImage \in BOOLEAN
    /\ Requests \subseteq Tiers \union {"auto"}

Attempt == 1 .. MaxAttempts
Thread  == Attempt \X (1 .. WorkerCount)
Caller  == Slot \union {Boot}
Init0   == "initialize"          \* the id of an initialize RPC
Rpc     == Slot \union {Init0}   \* an encode RPC is named after its caller

ASSUME SlotAssumption == IsFiniteSet(Slot) /\ Boot \notin Slot /\ Init0 \notin Slot

VARIABLES
    phase,            \* "booting" | "open" | "refused": has createTierRuntime returned?
    capabilities,     \* capabilities
    optionsTier,      \* options.tier
    closed,           \* closed
    freed,            \* single.free() has run
    image,            \* workerImage / workerImageError: "none" | "ready" | "error"
    workerPool,       \* workerPool: the attempt that built it, 0 is undefined
    workerInitialization, \* workerInitialization: its attempt, 0 is undefined
    sharedController,     \* sharedController: its attempt, 0 is undefined
    sharedInitialization, \* sharedInitialization: its attempt, 0 is undefined
    started,          \* attempts started so far
    init,             \* attempt -> its promise, who awaits it, the pool's nextWorker
    thread,           \* RpcWorker and the thread behind it
    call,             \* what each caller awaits
    handles,          \* the tiers of the handles the client holds
    closing,          \* the caller whose close() is on the stack, the worker it is at
    jobs,             \* the microtask queue
    turn              \* TRUE while client code is on the stack

options == <<capabilities, optionsTier>>
session == <<phase, options, closed, freed, image>>
tiers   == <<workerPool, workerInitialization, sharedController, sharedInitialization>>
vars    == <<session, tiers, started, init, thread, call, handles, closing, jobs, turn>>

(***************************************************************************)
(* selectTier; "unavailable" stands for the thrown error.                  *)
(***************************************************************************)
SharedAvailable == /\ capabilities.isolated
                   /\ capabilities.sharedArrayBuffer
                   /\ capabilities.worker
                   /\ HasThreadedArtifact
WorkerAvailable == ~capabilities.isolated /\ capabilities.worker

SelectTier(requested) ==
    CASE requested = "auto" -> IF SharedAvailable THEN "shared"
                               ELSE IF WorkerAvailable THEN "worker"
                               ELSE "single"
      [] requested = "shared" /\ ~SharedAvailable -> "unavailable"
      [] requested = "worker" /\ ~WorkerAvailable -> "unavailable"
      [] OTHER -> requested

(***************************************************************************)
(* Records                                                                 *)
(***************************************************************************)
IdleCall == [op |-> "idle", tier |-> "single"]
NoInit   == [promise |-> "none", awaiting |-> <<>>, nextWorker |-> 1]
NotClosing == [who |-> Boot, worker |-> 0]
NoThread == [alive |-> FALSE, failure |-> "none", model |-> "none", queue |-> <<>>]

Job(run, who, ticks, with) ==
    [run |-> run, who |-> who, ticks |-> ticks, with |-> with, attempt |-> 0]

\* What follows the await of attempt a's promise.
Awaited(run, who, a, outcome) ==
    [run |-> run, who |-> who, ticks |-> 1, with |-> outcome, attempt |-> a]

Threads(a) == {<<a, i>> : i \in 1 .. WorkerCount}
SharedThread(a) == <<a, 1>>

(***************************************************************************)
(* Promises.  A settled promise queues the continuations that await it.    *)
(***************************************************************************)
Queue(js)  == jobs' = jobs \o js          \* by the code on the stack
Resume(js) == jobs' = Tail(jobs) \o js    \* by the job that is running

\* A call of the client, or the initial activation of createTierRuntime, learns r.
Answer(c, ticks, r) ==
    IF c = Boot THEN Job("boot", Boot, 4, r) ELSE Job("client", c, ticks, r)

\* encodeForTier settles with v.  encodeDetailed goes on with v; encode() has adopted
\* the promise, one reaction earlier when it was still pending.
Encoded(c, op, adoption, v) ==
    IF op = "detailed" THEN Job("detailed", c, 1, v) ELSE Job("client", c, adoption, v)

\* What reacts to the RPC of an encode: on the shared tier encodeForTier itself, on the
\* worker tier encodeBatch, its .then, Promise.all, encodeWithWorkers, encodeForTier.
EncodeReaction(c, tier, with) == Job("encoded", c, IF tier = "worker" THEN 5 ELSE 1, with)

\* What reacts to an initialize RPC: initializeWorkerPool behind a .then and a
\* Promise.all, or the .then that makes sharedInitialization.
InitReaction(a, with) ==
    IF WorkerAvailable THEN Job("poolReady", a, 3, with) ELSE Job("sharedReady", a, 1, with)

Reaction(t, rpc, with) ==
    IF rpc = Init0 THEN InitReaction(t[1], with)
                   ELSE EncodeReaction(rpc, call[rpc].tier, with)

\* The calls an RpcWorker rejects when its thread fails or is closed, oldest first.
Rejections(t) ==
    [k \in DOMAIN thread[t].queue |-> Reaction(t, thread[t].queue[k], "error")]

\* Mutant: only the first caller learns how an activation ended.
SettleFirst(a, outcome) ==
    /\ init' = [init EXCEPT ![a].promise = outcome, ![a].awaiting = <<>>]
    /\ Resume(<<Awaited(Head(init[a].awaiting).run, Head(init[a].awaiting).who, a, outcome)>>)

\* Promise of attempt a settles: its awaiters resume in the order they came.
Settle(a, outcome) ==
    /\ init' = [init EXCEPT ![a].promise = outcome, ![a].awaiting = <<>>]
    /\ Resume([k \in DOMAIN init[a].awaiting |->
                 Awaited(init[a].awaiting[k].run, init[a].awaiting[k].who, a, outcome)])

\* Caller c awaits the promise of attempt a and resumes as `run`.
Await(a, c, run) ==
    IF init[a].promise = "pending"
    THEN /\ init' = [init EXCEPT ![a].awaiting = Append(@, [run |-> run, who |-> c])]
         /\ UNCHANGED jobs
    ELSE /\ Queue(<<Awaited(run, c, a, init[a].promise)>>)
         /\ UNCHANGED init

(***************************************************************************)
(* RpcWorker                                                               *)
(***************************************************************************)
FailedThread(t) == [thread[t] EXCEPT !.failure = "fault", !.queue = <<>>]
ClosedThread(t) == [thread[t] EXCEPT !.alive = FALSE,
                                     !.failure = IF @ = "none" THEN "closed" ELSE @,
                                     !.queue = <<>>]
StartedThread   == [NoThread EXCEPT !.alive = TRUE, !.queue = <<Init0>>]

\* RpcWorker.call of an encode by c on thread t: a failed worker rejects at once.
Post(c, t, tier) ==
    IF thread[t].failure # "none"
    THEN /\ Queue(<<EncodeReaction(c, tier, "error")>>)
         /\ UNCHANGED thread
    ELSE /\ thread' = [thread EXCEPT ![t].queue = Append(@, c)]
         /\ UNCHANGED jobs

(***************************************************************************)
(* The event loop                                                          *)
(***************************************************************************)
\* Client code runs: in a task of its own or in the continuation of a settled call.
OnClientTurn(c) == /\ phase = "open"
                   /\ c \in Slot
                   /\ call[c].op = "idle"
                   /\ closing = NotClosing
                   /\ turn \/ jobs = <<>>

\* The browser may start a task that delivers a worker's message or error.
BetweenTasks == jobs = <<>> /\ closing = NotClosing

Calling(c, op, tier) ==
    /\ call' = [call EXCEPT ![c] = [op |-> op, tier |-> tier]]
    /\ turn' = TRUE

\* The job at the head of the queue is `run` and has no reaction left before it.
Runs(run) == /\ jobs # <<>>
             /\ closing = NotClosing
             /\ Head(jobs).run = run
             /\ Head(jobs).ticks = 1
             /\ turn' = FALSE

(***************************************************************************)
(* ensureTier: switchTier of a client, or the initial activation           *)
(***************************************************************************)
Activating(c, requested) ==
    IF c = Boot
    THEN phase = "booting" /\ call[Boot].op = "idle" /\ requested = SelectTier(optionsTier)
    ELSE OnClientTurn(c)

\* ensureOpen and selectTier throw.
RefuseTier(c, requested) ==
    /\ Activating(c, requested)
    /\ closed \/ SelectTier(requested) = "unavailable"
    /\ Calling(c, "switch", "single")
    /\ Queue(<<Answer(c, 2, "refused")>>)
    /\ UNCHANGED <<session, tiers, started, init, thread, handles, closing>>

ReuseSingle(c, requested) ==
    /\ Activating(c, requested)
    /\ ~closed /\ SelectTier(requested) = "single"
    /\ Calling(c, "switch", "single")
    /\ Queue(<<Answer(c, 2, "single")>>)
    /\ UNCHANGED <<session, tiers, started, init, thread, handles, closing>>

\* ensureWorkerImage: exported once, its error kept and thrown again.
ImageFails == image = "error" \/ (Htk /\ image = "none")
ImageReady == /\ image # "error"
              /\ image' = IF Htk THEN "ready" ELSE image

RefuseImage(c, requested) ==
    /\ Activating(c, requested)
    /\ ~closed /\ SelectTier(requested) \in {"worker", "shared"}
    /\ ImageFails
    /\ image' = "error"
    /\ Calling(c, "switch", "single")
    /\ Queue(<<Answer(c, 2, "refused")>>)
    /\ UNCHANGED <<phase, options, closed, freed, tiers, started, init, thread, handles,
                   closing>>

\* Common to every activation of parallel tier `tier` that goes past the image.
Activate(c, requested, tier) ==
    /\ Activating(c, requested)
    /\ ~closed /\ SelectTier(requested) = tier
    /\ ImageReady
    /\ Calling(c, "switch", tier)
    /\ UNCHANGED <<phase, options, closed, freed, handles, closing>>

ReusePool(c, requested) ==
    /\ workerPool # 0
    /\ Activate(c, requested, "worker")
    /\ Queue(<<Answer(c, 2, "worker")>>)
    /\ UNCHANGED <<tiers, started, init, thread>>

JoinPool(c, requested) ==
    /\ workerPool = 0 /\ workerInitialization # 0
    /\ Activate(c, requested, "worker")
    /\ Await(workerInitialization, c, "adoptPool")
    /\ UNCHANGED <<tiers, started, thread>>

\* Starts attempt a and awaits it as `run`; every thread is posted its initialize.
StartAttempt(c, a, run, threads) ==
    /\ a = started + 1 /\ a \in Attempt
    /\ started' = a
    /\ init' = [init EXCEPT ![a] = [promise |-> "pending",
                                    awaiting |-> <<[run |-> run, who |-> c]>>,
                                    nextWorker |-> 1]]
    /\ thread' = [t \in Thread |-> IF t \in threads THEN StartedThread ELSE thread[t]]
    /\ UNCHANGED jobs

\* Mutant: every caller starts a pool of its own.
StartPoolAlways(c, requested) ==
    /\ workerPool = 0
    /\ Activate(c, requested, "worker")
    /\ StartAttempt(c, started + 1, "adoptPool", Threads(started + 1))
    /\ workerInitialization' = started + 1
    /\ UNCHANGED <<workerPool, sharedController, sharedInitialization>>

StartPool(c, requested) ==
    /\ workerPool = 0 /\ workerInitialization = 0
    /\ Activate(c, requested, "worker")
    /\ StartAttempt(c, started + 1, "adoptPool", Threads(started + 1))
    /\ workerInitialization' = started + 1
    /\ UNCHANGED <<workerPool, sharedController, sharedInitialization>>

\* A second caller awaits sharedInitialization and checks nothing afterwards.
JoinShared(c, requested) ==
    /\ sharedController # 0 /\ sharedInitialization # 0
    /\ Activate(c, requested, "shared")
    /\ Await(sharedInitialization, c, "joinShared")
    /\ UNCHANGED <<tiers, started, thread>>

StartShared(c, requested) ==
    /\ sharedInitialization = 0
    /\ Activate(c, requested, "shared")
    /\ StartAttempt(c, started + 1, "verifyShared", {SharedThread(started + 1)})
    /\ sharedController' = started + 1
    /\ sharedInitialization' = started + 1
    /\ UNCHANGED <<workerPool, workerInitialization>>

EnsureTier(c, requested) ==
    \/ RefuseTier(c, requested)
    \/ ReuseSingle(c, requested)
    \/ RefuseImage(c, requested)
    \/ ReusePool(c, requested)
    \/ JoinPool(c, requested)
    \/ StartPool(c, requested)
    \/ JoinShared(c, requested)
    \/ StartShared(c, requested)

(***************************************************************************)
(* The continuations of initializeWorkerPool and ensureTier                *)
(***************************************************************************)
Foreign(threads) == Htk /\ \E t \in threads : thread[t].model = "foreign"

\* Every worker answered and holds the resident vocabulary.
PoolReady ==
    /\ Runs("poolReady")
    /\ LET a == Head(jobs).who IN
         /\ Head(jobs).with = "ok" /\ ~Foreign(Threads(a))
         /\ Settle(a, "ok")
    /\ UNCHANGED <<session, tiers, started, thread, call, handles, closing>>

\* Mutant: the workers of a pool that failed are left running.
PoolAbandoned ==
    /\ Runs("poolReady")
    /\ LET a == Head(jobs).who IN
         /\ Head(jobs).with = "error" \/ Foreign(Threads(a))
         /\ Resume(<<Job("poolFailed", a, 2, "error")>>)
    /\ UNCHANGED <<session, tiers, started, init, thread, call, handles, closing>>

\* One failed or holds another vocabulary: all the workers are closed.
PoolUnusable ==
    /\ Runs("poolReady")
    /\ LET a == Head(jobs).who IN
         /\ Head(jobs).with = "error" \/ Foreign(Threads(a))
         /\ thread' = [t \in Thread |-> IF t \in Threads(a) THEN ClosedThread(t)
                                                            ELSE thread[t]]
         /\ Resume(<<Job("poolFailed", a, 2, "error")>>)
    /\ UNCHANGED <<session, tiers, started, init, call, handles, closing>>

PoolFailed ==
    /\ Runs("poolFailed")
    /\ Settle(Head(jobs).who, "failed")
    /\ UNCHANGED <<session, tiers, started, thread, call, handles, closing>>

\* ensureTier after `workerPool = await workerInitialization`.
AdoptPool ==
    /\ Runs("adoptPool") /\ Head(jobs).with = "ok"
    /\ workerPool' = Head(jobs).attempt
    /\ Resume(<<Answer(Head(jobs).who, 2, "worker")>>)
    /\ UNCHANGED <<session, workerInitialization, sharedController, sharedInitialization,
                   started, init, thread, call, handles, closing>>

PoolRefused ==
    /\ Runs("adoptPool") /\ Head(jobs).with = "failed"
    /\ workerInitialization' = 0
    /\ Resume(<<Answer(Head(jobs).who, 2, "refused")>>)
    /\ UNCHANGED <<session, workerPool, sharedController, sharedInitialization, started,
                   init, thread, call, handles, closing>>

\* The .then that adds `detached` to the controller's answer.
SharedReady ==
    /\ Runs("sharedReady")
    /\ Settle(Head(jobs).who, IF Head(jobs).with = "ok" THEN "ok" ELSE "failed")
    /\ UNCHANGED <<session, tiers, started, thread, call, handles, closing>>

\* Mutant: the controller's vocabulary is not checked.
TrustShared ==
    /\ Runs("verifyShared") /\ Head(jobs).with = "ok"
    /\ Resume(<<Answer(Head(jobs).who, 2, "shared")>>)
    /\ UNCHANGED <<session, tiers, started, init, thread, call, handles, closing>>

VerifyShared ==
    /\ Runs("verifyShared") /\ Head(jobs).with = "ok"
    /\ ~Foreign({SharedThread(Head(jobs).attempt)})
    /\ Resume(<<Answer(Head(jobs).who, 2, "shared")>>)
    /\ UNCHANGED <<session, tiers, started, init, thread, call, handles, closing>>

\* Mutant: the controller is forgotten and not closed.
SharedAbandoned ==
    /\ Runs("verifyShared")
    /\ \/ Head(jobs).with = "failed"
       \/ Foreign({SharedThread(Head(jobs).attempt)})
    /\ Resume(<<Answer(Head(jobs).who, 2, "refused")>>)
    /\ sharedController' = 0
    /\ sharedInitialization' = 0
    /\ UNCHANGED <<session, workerPool, workerInitialization, started, init, thread, call,
                   handles, closing>>

\* The starter's catch: forget and close the controller.  Encodes another handle had
\* posted to it are rejected.
SharedUnusable ==
    /\ Runs("verifyShared")
    /\ \/ Head(jobs).with = "failed"
       \/ Foreign({SharedThread(Head(jobs).attempt)})
    /\ LET t == SharedThread(sharedController) IN
         /\ thread' = [thread EXCEPT ![t] = ClosedThread(t)]
         /\ Resume(Rejections(t) \o <<Answer(Head(jobs).who, 2, "refused")>>)
    /\ sharedController' = 0
    /\ sharedInitialization' = 0
    /\ UNCHANGED <<session, workerPool, workerInitialization, started, init, call,
                   handles, closing>>

JoinedShared ==
    /\ Runs("joinShared")
    /\ Resume(<<Answer(Head(jobs).who, 2,
                       IF Head(jobs).with = "ok" THEN "shared" ELSE "refused")>>)
    /\ UNCHANGED <<session, tiers, started, init, thread, call, handles, closing>>

\* createTierRuntime after its initial activation: an explicit tier that cannot be had
\* closes the session and is an error, "auto" falls back to the single tier.
Booted ==
    /\ Runs("boot") /\ call[Boot].op = "switch"
    /\ Head(jobs).with # "refused" \/ optionsTier = "auto"
    /\ phase' = "open"
    /\ handles' = {IF Head(jobs).with = "refused" THEN "single" ELSE Head(jobs).with}
    /\ call' = [call EXCEPT ![Boot] = IdleCall]
    /\ Resume(<<>>)
    /\ UNCHANGED <<options, closed, freed, image, tiers, started, init, thread, closing>>

(***************************************************************************)
(* close                                                                   *)
(***************************************************************************)
CloseAgain(c) ==
    /\ OnClientTurn(c) /\ closed
    /\ Calling(c, "close", "single")
    /\ Queue(<<Answer(c, 1, "done")>>)
    /\ UNCHANGED <<session, tiers, started, init, thread, handles, closing>>

\* `closed = true` and `workerPool?.close()`, which closes worker by worker before it
\* yields.
Close(c) ==
    /\ OnClientTurn(c) /\ ~closed
    /\ Calling(c, "close", "single")
    /\ closed' = TRUE
    /\ IF workerPool # 0
       THEN closing' = [who |-> c, worker |-> 1] /\ UNCHANGED jobs
       ELSE Queue(<<Job("poolClosed", c, 1, "done")>>) /\ UNCHANGED closing
    /\ UNCHANGED <<phase, options, freed, image, tiers, started, init, thread, handles>>

\* createTierRuntime closes the session whose explicit tier was refused.
BootRefused ==
    /\ Runs("boot") /\ call[Boot].op = "switch"
    /\ Head(jobs).with = "refused" /\ optionsTier # "auto"
    /\ closed' = TRUE
    /\ call' = [call EXCEPT ![Boot].op = "close"]
    /\ Resume(<<Job("poolClosed", Boot, 1, "done")>>)
    /\ UNCHANGED <<phase, options, freed, image, tiers, started, init, thread, handles,
                   closing>>

\* Mutant: closing a worker that has failed throws, and close() ends there.
CloseWorkerThrows ==
    /\ closing # NotClosing
    /\ LET t    == <<workerPool, closing.worker>>
           last == closing.worker = WorkerCount \/ thread[t].failure # "none"
       IN  /\ thread' = [thread EXCEPT ![t] = ClosedThread(t)]
           /\ Queue(IF last /\ thread[t].failure = "none"
                    THEN Append(Rejections(t), Job("poolClosed", closing.who, 3, "done"))
                    ELSE Rejections(t))
           /\ closing' = IF last THEN NotClosing ELSE [closing EXCEPT !.worker = @ + 1]
    /\ UNCHANGED <<session, tiers, started, init, call, handles, turn>>

\* Mutant: the pending calls of a closed worker are not rejected.
CloseWorkerSilently ==
    /\ closing # NotClosing
    /\ LET t    == <<workerPool, closing.worker>>
           last == closing.worker = WorkerCount
       IN  /\ thread' = [thread EXCEPT ![t] = ClosedThread(t)]
           /\ Queue(IF last THEN <<Job("poolClosed", closing.who, 3, "done")>> ELSE <<>>)
           /\ closing' = IF last THEN NotClosing ELSE [closing EXCEPT !.worker = @ + 1]
    /\ UNCHANGED <<session, tiers, started, init, call, handles, turn>>

CloseWorker ==
    /\ closing # NotClosing
    /\ LET t    == <<workerPool, closing.worker>>
           last == closing.worker = WorkerCount
       IN  /\ thread' = [thread EXCEPT ![t] = ClosedThread(t)]
           /\ Queue(Rejections(t) \o
                    IF last THEN <<Job("poolClosed", closing.who, 3, "done")>> ELSE <<>>)
           /\ closing' = IF last THEN NotClosing ELSE [closing EXCEPT !.worker = @ + 1]
    /\ UNCHANGED <<session, tiers, started, init, call, handles, turn>>

\* Mutant: the controller is left to answer, its pending calls are not rejected.
KeepController ==
    /\ Runs("poolClosed")
    /\ LET t == SharedThread(sharedController)
           free == Job("freeSingle", Head(jobs).who, 1, "done")
       IN  IF sharedController = 0
           THEN Resume(<<free>>) /\ UNCHANGED thread
           ELSE /\ thread' = [thread EXCEPT ![t] = ClosedThread(t)]
                /\ Resume(<<free>>)
    /\ UNCHANGED <<session, tiers, started, init, call, handles, closing>>

\* `await sharedController?.close()`
CloseController ==
    /\ Runs("poolClosed")
    /\ LET t == SharedThread(sharedController)
           free == Job("freeSingle", Head(jobs).who, 1, "done")
       IN  IF sharedController = 0
           THEN Resume(<<free>>) /\ UNCHANGED thread
           ELSE /\ thread' = [thread EXCEPT ![t] = ClosedThread(t)]
                /\ Resume(Append(Rejections(t), free))
    /\ UNCHANGED <<session, tiers, started, init, call, handles, closing>>

FreeSingle ==
    /\ Runs("freeSingle")
    /\ freed' = TRUE
    /\ Resume(<<Answer(Head(jobs).who, 1, "done")>>)
    /\ UNCHANGED <<phase, options, closed, image, tiers, started, init, thread, call, handles,
                   closing>>

\* createTierRuntime throws; nobody holds a handle.
BootClosed ==
    /\ Runs("boot") /\ call[Boot].op = "close"
    /\ phase' = "refused"
    /\ call' = [call EXCEPT ![Boot] = IdleCall]
    /\ Resume(<<>>)
    /\ UNCHANGED <<options, closed, freed, image, tiers, started, init, thread, handles,
                   closing>>

(***************************************************************************)
(* encode and encodeDetailed                                               *)
(***************************************************************************)
EncodeOps == {"encode"} \union (IF Htk THEN {"detailed"} ELSE {})

\* The resident tokenizer encodes: exact, unless it has been freed.
ResidentIds == IF freed THEN "trap" ELSE "exact"

Encoding(c, op, tier) ==
    /\ OnClientTurn(c) /\ tier \in handles
    /\ Calling(c, op, tier)
    /\ UNCHANGED <<session, tiers, started, handles, closing>>

RefuseEncode(c, op, tier) ==
    /\ Encoding(c, op, tier)
    /\ closed
    /\ Queue(<<Answer(c, IF op = "detailed" THEN 1 ELSE 3, "rejected")>>)
    /\ UNCHANGED <<init, thread>>

\* The single tier, or (.htk only) an input the workers' policy does not support.
EncodeResident(c, op, tier) ==
    /\ Encoding(c, op, tier)
    /\ ~closed
    /\ tier = "single" \/ Htk
    /\ Queue(<<Encoded(c, op, 3, ResidentIds)>>)
    /\ UNCHANGED <<init, thread>>

\* One batch, to the next worker in turn.
EncodeOnPool(c, op) ==
    /\ Encoding(c, op, "worker")
    /\ ~closed /\ workerPool # 0
    /\ Post(c, <<workerPool, init[workerPool].nextWorker>>, "worker")
    /\ init' = [init EXCEPT ![workerPool].nextWorker = (@ % WorkerCount) + 1]

EncodeOnController(c, op) ==
    /\ Encoding(c, op, "shared")
    /\ ~closed /\ sharedController # 0
    /\ Post(c, SharedThread(sharedController), "shared")
    /\ UNCHANGED init

\* `sharedController.call` throws on undefined; the catch encodes on the single tier.
EncodeWithoutController(c, op) ==
    /\ Encoding(c, op, "shared")
    /\ ~closed /\ sharedController = 0
    /\ Queue(<<Encoded(c, op, 3, ResidentIds)>>)
    /\ UNCHANGED <<init, thread>>

\* Mutant: the catch falls back without asking whether the session is closed.
AlwaysFallBack ==
    /\ Runs("encoded")
    /\ LET c == Head(jobs).who
           v == IF Head(jobs).with # "error" THEN Head(jobs).with ELSE ResidentIds
       IN  Resume(<<Encoded(c, call[c].op, 2, v)>>)
    /\ UNCHANGED <<session, tiers, started, init, thread, call, handles, closing>>

\* encodeForTier resumes: the worker's ids, or the catch: rethrow when closed, else
\* encode on the single tier.
EncodeResumes ==
    /\ Runs("encoded")
    /\ LET c == Head(jobs).who
           v == IF Head(jobs).with # "error" THEN Head(jobs).with
                ELSE IF closed THEN "rejected"
                ELSE ResidentIds
       IN  Resume(<<Encoded(c, call[c].op, 2, v)>>)
    /\ UNCHANGED <<session, tiers, started, init, thread, call, handles, closing>>

\* encodeDetailed resumes and asks the resident tokenizer for the token starts.
DetailedResumes ==
    /\ Runs("detailed")
    /\ LET v == Head(jobs).with IN
         Resume(<<Answer(Head(jobs).who, 1,
                         IF v # "rejected" /\ freed THEN "trap" ELSE v)>>)
    /\ UNCHANGED <<session, tiers, started, init, thread, call, handles, closing>>

\* The client's own continuation: it learns the outcome and may call again.
ClientResumes ==
    /\ jobs # <<>> /\ closing = NotClosing
    /\ Head(jobs).run = "client" /\ Head(jobs).ticks = 1
    /\ turn' = TRUE
    /\ LET c == Head(jobs).who IN
         /\ call' = [call EXCEPT ![c] = IdleCall]
         /\ handles' = IF call[c].op = "switch" /\ Head(jobs).with # "refused"
                       THEN handles \union {Head(jobs).with} ELSE handles
    /\ Resume(<<>>)
    /\ UNCHANGED <<session, tiers, started, init, thread, closing>>

\* A reaction before the one that matters.
Tick ==
    /\ jobs # <<>> /\ closing = NotClosing
    /\ Head(jobs).ticks > 1
    /\ turn' = FALSE
    /\ Resume(<<[Head(jobs) EXCEPT !.ticks = @ - 1]>>)
    /\ UNCHANGED <<session, tiers, started, init, thread, call, handles, closing>>

(***************************************************************************)
(* The worker threads, and the "message" and "error" events of their       *)
(* RpcWorkers.  A thread may also never answer.                            *)
(***************************************************************************)
Delivered(t) == /\ BetweenTasks
                /\ turn' = FALSE
                /\ UNCHANGED <<session, tiers, started, init, call, handles, closing>>

\* The thread built its tokenizer; an .htk image could be of another vocabulary.
InitAnswered(t, model) ==
    /\ Delivered(t)
    /\ Htk \/ model = "match"
    /\ \E k \in DOMAIN thread[t].queue :
          /\ thread[t].queue[k] = Init0
          /\ thread' = [thread EXCEPT ![t].model = model, ![t].queue = RemoveAt(@, k)]
    /\ IF SharedAvailable \/ \A u \in Threads(t[1]) \ {t} : thread[u].model # "none"
       THEN Queue(<<InitReaction(t[1], "ok")>>)
       ELSE UNCHANGED jobs

InitFailed(t) ==
    /\ Delivered(t)
    /\ \E k \in DOMAIN thread[t].queue :
          /\ thread[t].queue[k] = Init0
          /\ thread' = [thread EXCEPT ![t].queue = RemoveAt(@, k)]
    /\ Queue(<<InitReaction(t[1], "error")>>)

\* Encodes are answered in the order they were posted; one that finds no tokenizer fails.
EncodeAnswered(t, with) ==
    /\ Delivered(t)
    /\ with = "error" \/ thread[t].model # "none"
    /\ \E k \in DOMAIN thread[t].queue :
          LET c == thread[t].queue[k] IN
          /\ c # Init0 /\ \A j \in 1 .. k - 1 : thread[t].queue[j] = Init0
          /\ thread' = [thread EXCEPT ![t].queue = RemoveAt(@, k)]
          /\ Queue(<<EncodeReaction(c, call[c].tier,
                       CASE with = "error" -> "error"
                         [] with = "ids" /\ thread[t].model = "foreign" -> "foreign"
                         [] OTHER -> "exact")>>)

\* Mutant: an "error" event is recorded, the pending calls are left pending.
FaultUnreported(t) ==
    /\ Delivered(t)
    /\ thread[t].alive /\ thread[t].failure = "none"
    /\ thread' = [thread EXCEPT ![t] = FailedThread(t)]
    /\ UNCHANGED jobs

\* An "error" event: every pending call is rejected, every later one will be.
Fault(t) ==
    /\ Delivered(t)
    /\ thread[t].alive /\ thread[t].failure = "none"
    /\ thread' = [thread EXCEPT ![t] = FailedThread(t)]
    /\ Queue(Rejections(t))

Initializes(t) == (\E model \in {"match", "foreign"} : InitAnswered(t, model)) \/ InitFailed(t)
Answers(t)     == \E with \in {"ids", "error"} : EncodeAnswered(t, with)

\* The exception of createTierRuntime is the end of a refused session.
Refused == phase = "refused" /\ jobs = <<>> /\ UNCHANGED vars

(***************************************************************************)
(* The session                                                             *)
(***************************************************************************)
Init ==
    /\ phase = "booting"
    /\ capabilities \in Environments
    \* An explicit tier that is unavailable is refused before there is a session.
    /\ optionsTier \in {r \in Requests : SelectTier(r) # "unavailable"}
    /\ closed = FALSE /\ freed = FALSE
    \* The digest may be unreadable; an eager export has succeeded or failed.
    /\ image \in IF ~Htk THEN {"none"}
                 ELSE IF LazyWorkerImage THEN {"none", "error"} ELSE {"ready", "error"}
    /\ workerPool = 0 /\ workerInitialization = 0
    /\ sharedController = 0 /\ sharedInitialization = 0
    /\ started = 0
    /\ init = [a \in Attempt |-> NoInit]
    /\ thread = [t \in Thread |-> NoThread]
    /\ call = [c \in Caller |-> IdleCall]
    /\ handles = {}
    /\ closing = NotClosing
    /\ jobs = <<>>
    /\ turn = FALSE

Continue ==
    \/ Tick \/ ClientResumes
    \/ PoolReady \/ PoolUnusable \/ PoolFailed \/ AdoptPool \/ PoolRefused
    \/ SharedReady \/ VerifyShared \/ SharedUnusable \/ JoinedShared
    \/ Booted \/ BootRefused \/ BootClosed
    \/ CloseWorker \/ CloseController \/ FreeSingle
    \/ EncodeResumes \/ DetailedResumes

Encode(c, op) ==
    \/ \E tier \in Tiers : RefuseEncode(c, op, tier) \/ EncodeResident(c, op, tier)
    \/ EncodeOnPool(c, op)
    \/ EncodeOnController(c, op)
    \/ EncodeWithoutController(c, op)

Client(c) ==
    \/ \E requested \in Tiers \union {"auto"} : EnsureTier(c, requested)
    \/ \E op \in EncodeOps : Encode(c, op)
    \/ CloseAgain(c)
    \/ Close(c)

Next ==
    \/ \E requested \in Tiers : EnsureTier(Boot, requested)
    \/ \E c \in Slot : Client(c)
    \/ Continue
    \/ \E t \in Thread : Initializes(t) \/ Answers(t) \/ Fault(t)
    \/ Refused

Spec == Init /\ [][Next]_vars

(***************************************************************************)
(* The event loop runs every queued job; the browser delivers what a       *)
(* thread sent once the microtask queue drains, however often it fills     *)
(* again; a thread answers its initialize, and its encodes, or raises an   *)
(* error (a thread that does neither is outside these guarantees: the      *)
(* runtime has no timeout).  Clients need not call anything.               *)
(***************************************************************************)
Fairness ==
    /\ WF_vars(Continue)
    /\ WF_vars(\E requested \in Tiers : EnsureTier(Boot, requested))
    /\ \A t \in Thread : SF_vars(Initializes(t) \/ Fault(t)) /\ SF_vars(Answers(t) \/ Fault(t))

FairSpec == Spec /\ Fairness

(***************************************************************************)
(* Safety                                                                  *)
(***************************************************************************)
Quiet       == jobs = <<>> /\ closing = NotClosing
Encodes(c)  == call[c].op \in {"encode", "detailed"}
Activated   == {a \in Attempt : init[a].promise = "pending"}

\* A client's encode or encodeDetailed, seen from outside: it is settled once its
\* continuation is queued.
Observed(c) ==
    IF ~Encodes(c) THEN "idle"
    ELSE IF \E k \in DOMAIN jobs : jobs[k].run = "client" /\ jobs[k].who = c
    THEN (CHOOSE j \in {jobs[k] : k \in DOMAIN jobs} : j.run = "client" /\ j.who = c).with
    ELSE "pending"

Abstract == INSTANCE TokenizerSession WITH
                closed   <- closed,
                released <- freed,
                request  <- [c \in Slot |-> Observed(c)]

\* Every tier keeps the session's promise: whatever workers fail, whatever vocabulary a
\* thread turns out to hold, and however switchTier, encode, encodeDetailed and close
\* overlap, an encode ends with the exact ids or, once the session is closed, is
\* rejected.  No foreign ids, no use of the freed resident tokenizer (encodeForTier's
\* catch, encodeDetailed after its await), no rejection of an open session.
SessionPromise == Abstract!Spec

\* No worker thread is lost track of while the session is open: when the event loop is
\* at rest each live one belongs to the pool, the controller or the activation in
\* progress (the closes in the catch blocks of initializeWorkerPool and ensureTier, and
\* the single activation several callers share).
ThreadsOwned ==
    Quiet /\ ~closed =>
        \A t \in Thread : thread[t].alive =>
            t[1] \in {workerPool, workerInitialization, sharedController}

\* Callers that switch to a tier together share one activation: no two are ever under
\* way, whatever failed before (workerInitialization and sharedInitialization are
\* reset by every caller that saw the failure).
OneActivation == Cardinality(Activated) <= 1

\* close() leaves no encode hanging, on whatever tier and however lost its worker: when
\* the resident tokenizer is freed and the event loop at rest, every one has settled.
CloseSettlesEncodes == Quiet /\ freed => \A c \in Slot : ~Encodes(c)

\* Claims of the repository that the code does not keep --------------------------

\* The switch verification plants a wrong source digest and requires the switch to fail
\* (verify_tier_switch.mjs, "source-digest"): a client that holds a handle of the shared
\* tier got it from a controller of the resident vocabulary.
SharedHandleVerified ==
    "shared" \in handles =>
        \E a \in Attempt : init[a].promise = "ok" /\ ~Foreign({SharedThread(a)})

\* A closed session refuses to switch (verify_tier_switch.mjs, switchAfterCloseRejected)
\* and free() ends its workers (benches/instruments/12-teardown-cost.mjs books their
\* terminate calls): once it is freed and nothing is starting, no thread of it is left.
CloseEndsThreads ==
    Quiet /\ freed /\ Activated = {} => \A t \in Thread : ~thread[t].alive

(***************************************************************************)
(* Liveness                                                                *)
(***************************************************************************)
\* The client does not fill the microtask queue for ever.
ClientYields == []<>Quiet

\* An encode on any tier is answered: its worker's answer, the worker's failure or the
\* session's close each settle it, through the fallback where there is one.
EncodesSettle ==
    ClientYields => \A c \in Slot : Encodes(c) ~> call[c].op = "idle"

\* So is a switch, also for the callers that joined an activation that fails.
SwitchesSettle ==
    ClientYields => \A c \in Slot : call[c].op = "switch" ~> call[c].op = "idle"

\* close() frees the resident tokenizer though no worker ever answers again.
CloseFrees == closed ~> freed
=============================================================================
