------------------------ MODULE TierRuntimeProofs ------------------------
(***************************************************************************)
(* The activation of the parallel tiers in TierRuntime, for any number of  *)
(* workers, of clients in flight and of activations, in any browser.       *)
(*                                                                         *)
(* The invariant Core says which phase an activation is in.  Between tasks *)
(* there is a pool or none, or one whose threads have still to answer      *)
(* (Calm); when the last of them has answered, the reactions by which the  *)
(* pool comes up are alone in the microtask queue (Coming), and then those *)
(* that awaited it are at its front (Adopting), so that no client sees     *)
(* workerInitialization before each of them has run.  The controller's     *)
(* tier is verified by its starter alone (Controller).                     *)
(***************************************************************************)
EXTENDS TierRuntime, SequenceTheorems, FiniteSetTheorems, TLAPS

Plain    == {"boot", "client", "encoded", "detailed", "poolClosed", "freeSingle", "joinShared"}
Chain    == {"poolReady", "poolFailed", "adoptPool"}
JobRuns    == Plain \union Chain \union {"sharedReady", "verifyShared"}
Awaits   == {"adoptPool", "verifyShared", "joinShared"}
Outcomes == {"ok", "failed", "error", "exact", "foreign", "rejected", "trap", "refused", "done"}
            \union Tiers
Ops      == {"idle", "switch", "close", "encode", "detailed"}

JobType == [run: JobRuns, who: Caller \union Attempt, ticks: 1 .. 5, with: Outcomes,
            attempt: 0 .. MaxAttempts]

\* For whom a job runs and with what.
WellFormed(job) ==
    IF job.run \in {"poolReady", "poolFailed", "sharedReady"}
    THEN /\ job.who \in Attempt /\ job.with \in {"ok", "error"}
         /\ job.run = "sharedReady" => job.ticks = 1
    ELSE /\ job.who \in Caller
         /\ job.run \in Awaits =>
               job.attempt \in Attempt /\ job.ticks = 1 /\ job.with \in {"ok", "failed"}
         /\ job.run \in {"client", "encoded", "detailed"} => job.who \in Slot
         /\ job.run = "boot" => job.who = Boot

InitType   == [promise: {"none", "pending", "ok", "failed"},
               awaiting: Seq([run: Awaits, who: Caller]), nextWorker: 1 .. WorkerCount]
ThreadType == [alive: BOOLEAN, failure: {"none", "fault", "closed"},
               model: {"none", "match", "foreign"}, queue: Seq(Rpc)]

Jobs == {jobs[k] : k \in DOMAIN jobs}

Types ==
    /\ workerPool \in 0 .. MaxAttempts /\ workerInitialization \in 0 .. MaxAttempts
    /\ sharedController \in 0 .. MaxAttempts /\ sharedInitialization \in 0 .. MaxAttempts
    /\ started \in 0 .. MaxAttempts
    /\ init \in [Attempt -> InitType]
    /\ thread \in [Thread -> ThreadType]
    /\ call \in [Caller -> [op: Ops, tier: Tiers]]
    /\ closing \in [who: Caller, worker: 0 .. WorkerCount]
    /\ jobs \in Seq(JobType) /\ \A job \in Jobs : WellFormed(job)
    /\ turn \in BOOLEAN

Pending(a) == init[a].promise = "pending"
Closing    == closing # NotClosing
Dead(a)    == \A t \in Threads(a) : ~thread[t].alive /\ thread[t].queue = <<>>

\* Before the initial activation nothing has happened.
Booting ==
    phase = "booting" /\ call[Boot].op = "idle" =>
       jobs = <<>> /\ ~Closing /\ \A t \in Thread : ~thread[t].alive /\ thread[t].queue = <<>>

\* What may wait for a thread.
Queues ==
    \A t \in Thread :
       /\ thread[t].queue # <<>> => thread[t].failure = "none"
       /\ \A k \in DOMAIN thread[t].queue : thread[t].queue[k] = Init0 =>
             /\ k = 1 /\ Pending(t[1]) /\ thread[t].model = "none"
             /\ WorkerAvailable => thread[t].queue = <<Init0>>
       /\ IF WorkerAvailable
          THEN \A k \in DOMAIN thread[t].queue : thread[t].queue[k] \in Slot => t[1] = workerPool
          ELSE thread[t].queue # <<>> => t = SharedThread(sharedController)

Attempts ==
    /\ \A a \in Attempt : IF Pending(a)
                          THEN a \in {workerInitialization, sharedInitialization} /\ init[a].awaiting # <<>>
                          ELSE init[a].awaiting = <<>>
    /\ workerInitialization # 0 => WorkerAvailable /\ init[workerInitialization].promise # "none"
    /\ sharedInitialization # 0 => SharedAvailable /\ init[sharedInitialization].promise # "none"
    /\ sharedController = sharedInitialization
    /\ workerPool # 0 => workerPool = workerInitialization /\ init[workerPool].promise = "ok"

\* No pool is coming up: the one there is has been adopted.
Calm ==
    /\ \A job \in Jobs : job.run \notin Chain
    /\ workerInitialization # 0 => workerPool = workerInitialization \/ Pending(workerInitialization)

\* The reactions by which a pool comes up run by themselves.
Coming ==
    /\ Len(jobs) = 1 /\ jobs[1].run \in {"poolReady", "poolFailed"} /\ Pending(jobs[1].who)
    /\ WorkerAvailable /\ ~turn /\ ~Closing
    /\ jobs[1].run = "poolReady" /\ jobs[1].with = "ok" =>
          \A t \in Threads(jobs[1].who) : thread[t].model # "none"
    /\ jobs[1].run = "poolFailed" => Dead(jobs[1].who)

\* All that waited for the pool learn of it before anything else happens.
Adopts(job) ==
    IF job.with = "ok"
    THEN job.attempt = workerInitialization /\ init[job.attempt].promise = "ok"
    ELSE /\ workerPool = 0 /\ workerInitialization \in {0, job.attempt}
         /\ init[job.attempt].promise = "failed"
Adopting ==
    /\ jobs # <<>> /\ jobs[1].run = "adoptPool"
    /\ WorkerAvailable /\ ~turn /\ ~Closing
    /\ \A k \in DOMAIN jobs :
          /\ jobs[k].run \notin {"poolReady", "poolFailed"}
          /\ jobs[k].run = "adoptPool" =>
                Adopts(jobs[k]) /\ \A j \in 1 .. k : jobs[j].run = "adoptPool"

PoolThreads ==
    WorkerAvailable =>
       /\ \A a \in Attempt :
             /\ init[a].promise = "failed" => Dead(a)
             /\ init[a].promise = "ok" => ~Foreign(Threads(a))
             /\ \A k \in DOMAIN init[a].awaiting : init[a].awaiting[k].run = "adoptPool"
       /\ \A t \in Thread : thread[t].alive => t[1] = workerInitialization
       /\ \A job \in Jobs : job.run \notin {"sharedReady", "verifyShared"}

Once(run) == \A j, k \in DOMAIN jobs : jobs[j].run = run /\ jobs[k].run = run => j = k

Controller ==
    ~WorkerAvailable =>
       /\ Once("sharedReady") /\ Once("verifyShared")
       /\ \A job \in Jobs : job.run = "sharedReady" =>
             /\ job.who = sharedController /\ Pending(sharedController)
             /\ \A j \in DOMAIN thread[SharedThread(sharedController)].queue :
                   thread[SharedThread(sharedController)].queue[j] # Init0
       /\ \A job \in Jobs : job.run = "verifyShared" =>
             job.attempt = sharedController /\ ~Pending(sharedController)
       /\ \A a \in Attempt : \A k \in DOMAIN init[a].awaiting :
             init[a].awaiting[k].run = IF k = 1 THEN "verifyShared" ELSE "joinShared"
       /\ \A t \in Thread : thread[t].alive => t = SharedThread(sharedController)

Core == /\ Types /\ Booting /\ Queues /\ Attempts
        /\ Calm \/ Coming \/ Adopting
        /\ PoolThreads /\ Controller

\* close() is among the workers of a pool.
ClosingPool == Closing => workerPool # 0 /\ closing.worker # 0

\* Every element of a sequence over S is in S.
LEMMA InSeq ==
    ASSUME NEW S, NEW s \in Seq(S), NEW k \in DOMAIN s
    PROVE  s[k] \in S
OBVIOUS

\* What stands where in a sequence that grows by one element.
LEMMA AppendAt ==
    ASSUME NEW S, NEW s \in Seq(S), NEW e \in S
    PROVE  /\ Append(s, e) \in Seq(S) /\ Append(s, e) # <<>>
           /\ Len(Append(s, e)) = Len(s) + 1 /\ Append(s, e)[Len(s) + 1] = e
           /\ \A k \in DOMAIN s : Append(s, e)[k] = s[k]
           /\ DOMAIN s = 1 .. Len(s) /\ DOMAIN Append(s, e) = 1 .. Len(s) + 1 /\ Len(s) \in Nat
<1>1. Len(s) \in Nat /\ DOMAIN s = 1 .. Len(s)
  OBVIOUS
<1>2. Append(s, e) \in Seq(S) /\ Len(Append(s, e)) = Len(s) + 1
  OBVIOUS
<1>3. Append(s, e)[Len(s) + 1] = e /\ Append(s, e) # <<>>
  OBVIOUS
<1>4. \A k \in DOMAIN s : Append(s, e)[k] = s[k]
  OBVIOUS
<1>5. DOMAIN Append(s, e) = 1 .. Len(s) + 1
  BY <1>1, <1>2
<1> QED
  BY <1>1, <1>2, <1>3, <1>4, <1>5

\* What stands where in a concatenation.
LEMMA QueueAt ==
    ASSUME NEW S, NEW s \in Seq(S), NEW js \in Seq(S)
    PROVE  /\ s \o js \in Seq(S)
           /\ Len(s \o js) = Len(s) + Len(js)
           /\ \A k \in 1 .. Len(s) : (s \o js)[k] = s[k]
           /\ \A k \in 1 .. Len(js) : (s \o js)[Len(s) + k] = js[k]
           /\ \A k \in 1 .. Len(s) + Len(js) : k > Len(s) => (s \o js)[k] = js[k - Len(s)]
OBVIOUS

\* What stands where when a sequence loses its head and another follows it.
LEMMA ResumeAt ==
    ASSUME NEW S, NEW s \in Seq(S), NEW js \in Seq(S), s # <<>>
    PROVE  /\ Tail(s) \o js \in Seq(S)
           /\ Len(Tail(s) \o js) = Len(s) - 1 + Len(js)
           /\ \A k \in 1 .. Len(s) - 1 : (Tail(s) \o js)[k] = s[k + 1]
           /\ \A k \in 1 .. Len(s) - 1 + Len(js) : k >= Len(s) => (Tail(s) \o js)[k] = js[k - Len(s) + 1]
OBVIOUS

\* What stands where when a sequence loses its i-th element.
LEMMA RemoveAtAt ==
    ASSUME NEW S, NEW s \in Seq(S), NEW i \in 1 .. Len(s)
    PROVE  /\ RemoveAt(s, i) \in Seq(S)
           /\ Len(RemoveAt(s, i)) = Len(s) - 1
           /\ \A k \in 1 .. Len(s) - 1 : k < i => RemoveAt(s, i)[k] = s[k]
           /\ \A k \in 1 .. Len(s) - 1 : k >= i => RemoveAt(s, i)[k] = s[k + 1]
<1>1. /\ SubSeq(s, 1, i - 1) \in Seq(S) /\ Len(SubSeq(s, 1, i - 1)) = i - 1
      /\ \A k \in 1 .. i - 1 : SubSeq(s, 1, i - 1)[k] = s[k]
  OBVIOUS
<1>2. /\ SubSeq(s, i + 1, Len(s)) \in Seq(S) /\ Len(SubSeq(s, i + 1, Len(s))) = Len(s) - i
      /\ \A k \in 1 .. Len(s) - i : SubSeq(s, i + 1, Len(s))[k] = s[k + i]
  OBVIOUS
<1> SUFFICES ASSUME NEW l \in Seq(S), NEW r \in Seq(S), RemoveAt(s, i) = l \o r,
                    Len(l) = i - 1, \A k \in 1 .. i - 1 : l[k] = s[k],
                    Len(r) = Len(s) - i, \A k \in 1 .. Len(s) - i : r[k] = s[k + i]
             PROVE  /\ l \o r \in Seq(S) /\ Len(l \o r) = Len(s) - 1
                    /\ \A k \in 1 .. Len(s) - 1 : k < i => (l \o r)[k] = s[k]
                    /\ \A k \in 1 .. Len(s) - 1 : k >= i => (l \o r)[k] = s[k + 1]
  BY <1>1, <1>2, Zenon DEF RemoveAt
<1>3. Len(s) \in Nat /\ Len(l) \in Nat /\ Len(r) \in Nat
  OBVIOUS
<1>4. l \o r \in Seq(S) /\ Len(l \o r) = Len(l) + Len(r)
  BY QueueAt, Zenon
<1>5. Len(l \o r) = Len(s) - 1
  BY <1>3, <1>4
<1>6. ASSUME NEW k \in 1 .. Len(s) - 1, k >= i PROVE (l \o r)[k] = s[k + 1]
  <2>1. k > Len(l) /\ k \in 1 .. Len(l) + Len(r) /\ k - Len(l) \in 1 .. Len(s) - i
    BY <1>3, <1>6
  <2>2. (l \o r)[k] = r[k - Len(l)]
    BY <2>1, QueueAt
  <2>3. r[k - Len(l)] = s[(k - Len(l)) + i]
    BY <2>1, Zenon
  <2>4. (k - Len(l)) + i = k + 1
    BY <1>3
  <2> QED
    BY <2>2, <2>3, <2>4, Zenon
<1>7. ASSUME NEW k \in 1 .. Len(s) - 1, k < i PROVE (l \o r)[k] = s[k]
  BY <1>3, <1>7
<1> QED
  BY <1>4, <1>5, <1>6, <1>7

\* The queue after Queue(js) and after Resume(js).
LEMMA Queued ==
    ASSUME Types, NEW js \in Seq(JobType), \A k \in DOMAIN js : WellFormed(js[k]), Queue(js)
    PROVE  /\ jobs' \in Seq(JobType) /\ \A job \in Jobs' : WellFormed(job)
           /\ \A job \in Jobs' : job \in Jobs \/ \E k \in DOMAIN js : job = js[k]
           /\ Len(jobs') = Len(jobs) + Len(js)
           /\ \A k \in DOMAIN jobs : k \in DOMAIN jobs' /\ jobs'[k] = jobs[k]
           /\ \A k \in DOMAIN js : Len(jobs) + k \in DOMAIN jobs' /\ jobs'[Len(jobs) + k] = js[k]
           /\ \A k \in DOMAIN jobs' : k \in DOMAIN jobs \/
                 (k > Len(jobs) /\ k - Len(jobs) \in DOMAIN js /\ jobs'[k] = js[k - Len(jobs)])
<1>1. jobs \in Seq(JobType) /\ jobs' = jobs \o js /\ \A k \in DOMAIN jobs : WellFormed(jobs[k])
  BY DEF Types, Queue, Jobs
<1>2. /\ jobs' \in Seq(JobType) /\ Len(jobs') = Len(jobs) + Len(js)
      /\ \A k \in 1 .. Len(jobs) : jobs'[k] = jobs[k]
      /\ \A k \in 1 .. Len(js) : jobs'[Len(jobs) + k] = js[k]
      /\ \A k \in 1 .. Len(jobs) + Len(js) : k > Len(jobs) => jobs'[k] = js[k - Len(jobs)]
  BY <1>1, QueueAt
<1>3. /\ DOMAIN jobs = 1 .. Len(jobs) /\ DOMAIN js = 1 .. Len(js) /\ DOMAIN jobs' = 1 .. Len(jobs')
      /\ Len(jobs) \in Nat /\ Len(js) \in Nat
  BY <1>1, <1>2
<1>4. ASSUME NEW k \in DOMAIN jobs'
      PROVE  k \in DOMAIN jobs \/ (k > Len(jobs) /\ k - Len(jobs) \in DOMAIN js /\ jobs'[k] = js[k - Len(jobs)])
  BY <1>2, <1>3
<1>5. ASSUME NEW k \in DOMAIN jobs' PROVE WellFormed(jobs'[k])
  BY <1>1, <1>2, <1>3, <1>4
<1>6. /\ \A k \in DOMAIN jobs : k \in DOMAIN jobs'
      /\ \A k \in DOMAIN js : Len(jobs) + k \in DOMAIN jobs'
  BY <1>2, <1>3
<1>7. /\ \A job \in Jobs' : WellFormed(job)
      /\ \A job \in Jobs' : job \in Jobs \/ \E k \in DOMAIN js : job = js[k]
  <2> SUFFICES ASSUME NEW k \in DOMAIN jobs'
               PROVE  WellFormed(jobs'[k]) /\ (jobs'[k] \in Jobs \/ \E i \in DOMAIN js : jobs'[k] = js[i])
    BY Zenon DEF Jobs
  <2> QED
    BY <1>2, <1>3, <1>4, <1>5 DEF Jobs
<1> QED
  BY <1>2, <1>3, <1>4, <1>6, <1>7

\* The microtask queue after Resume(js): the head is gone and js are at the end.
LEMMA Resumed ==
    ASSUME Types, NEW js \in Seq(JobType), \A k \in DOMAIN js : WellFormed(js[k]), Resume(js), jobs # <<>>
    PROVE  /\ jobs' \in Seq(JobType) /\ \A job \in Jobs' : WellFormed(job)
           /\ \A job \in Jobs' : job \in Jobs \/ \E k \in DOMAIN js : job = js[k]
           /\ Len(jobs') = Len(jobs) - 1 + Len(js)
           /\ \A k \in DOMAIN jobs : k # 1 => k - 1 \in DOMAIN jobs' /\ jobs'[k - 1] = jobs[k]
           /\ \A k \in DOMAIN js : Len(jobs) - 1 + k \in DOMAIN jobs' /\ jobs'[Len(jobs) - 1 + k] = js[k]
           /\ \A k \in DOMAIN jobs' :
                 \/ k < Len(jobs) /\ k + 1 \in DOMAIN jobs /\ jobs'[k] = jobs[k + 1]
                 \/ k >= Len(jobs) /\ k - Len(jobs) + 1 \in DOMAIN js /\ jobs'[k] = js[k - Len(jobs) + 1]
<1>1. jobs \in Seq(JobType) /\ jobs' = Tail(jobs) \o js /\ \A k \in DOMAIN jobs : WellFormed(jobs[k])
  BY DEF Types, Resume, Jobs
<1>2. /\ jobs' \in Seq(JobType) /\ Len(jobs') = Len(jobs) - 1 + Len(js)
      /\ \A k \in 1 .. Len(jobs) - 1 : jobs'[k] = jobs[k + 1]
      /\ \A k \in 1 .. Len(jobs) - 1 + Len(js) : k >= Len(jobs) => jobs'[k] = js[k - Len(jobs) + 1]
  BY <1>1, ResumeAt
<1>3. /\ DOMAIN jobs = 1 .. Len(jobs) /\ DOMAIN js = 1 .. Len(js) /\ DOMAIN jobs' = 1 .. Len(jobs')
      /\ Len(jobs) \in Nat /\ Len(js) \in Nat /\ Len(jobs) # 0
  BY <1>1, <1>2
<1>4. ASSUME NEW k \in DOMAIN jobs'
      PROVE  \/ k < Len(jobs) /\ k + 1 \in DOMAIN jobs /\ jobs'[k] = jobs[k + 1]
             \/ k >= Len(jobs) /\ k - Len(jobs) + 1 \in DOMAIN js /\ jobs'[k] = js[k - Len(jobs) + 1]
  BY <1>2, <1>3
<1>5. ASSUME NEW k \in DOMAIN jobs' PROVE WellFormed(jobs'[k])
  BY <1>1, <1>4
<1>6. ASSUME NEW k \in DOMAIN jobs, k # 1 PROVE k - 1 \in DOMAIN jobs' /\ jobs'[k - 1] = jobs[k]
  <2>1. k - 1 \in 1 .. Len(jobs) - 1 /\ (k - 1) + 1 = k /\ k - 1 \in DOMAIN jobs'
    BY <1>2, <1>3, <1>6
  <2> QED
    BY <2>1, <1>2
<1>7. ASSUME NEW k \in DOMAIN js
      PROVE  Len(jobs) - 1 + k \in DOMAIN jobs' /\ jobs'[Len(jobs) - 1 + k] = js[k]
  <2>1. /\ Len(jobs) - 1 + k \in 1 .. Len(jobs) - 1 + Len(js) /\ Len(jobs) - 1 + k >= Len(jobs)
        /\ (Len(jobs) - 1 + k) - Len(jobs) + 1 = k /\ Len(jobs) - 1 + k \in DOMAIN jobs'
    BY <1>2, <1>3
  <2> QED
    BY <2>1, <1>2
<1>8. /\ \A job \in Jobs' : WellFormed(job)
      /\ \A job \in Jobs' : job \in Jobs \/ \E k \in DOMAIN js : job = js[k]
  <2> SUFFICES ASSUME NEW k \in DOMAIN jobs'
               PROVE  WellFormed(jobs'[k]) /\ (jobs'[k] \in Jobs \/ \E i \in DOMAIN js : jobs'[k] = js[i])
    BY Zenon DEF Jobs
  <2> QED
    BY <1>2, <1>3, <1>4, <1>5 DEF Jobs
<1> QED
  BY <1>2, <1>4, <1>6, <1>7, <1>8

---------------------------------------------------------------------------
\* The jobs that the microtask queue gets.

\* The job by which a caller learns an outcome is well-formed.
LEMMA AnswerJob ==
    ASSUME NEW c \in Caller, NEW n \in 1 .. 5, NEW r \in Outcomes
    PROVE  /\ Answer(c, n, r) \in JobType /\ WellFormed(Answer(c, n, r))
           /\ Answer(c, n, r).run \in {"boot", "client"} /\ Answer(c, n, r).who = c
           /\ Answer(c, n, r).with = r
BY BoundAssumption DEF Answer, Job, JobType, WellFormed, Caller, JobRuns, Plain, Chain, Awaits

\* The job by which an encode goes on after encodeForTier is well-formed.
LEMMA EncodedJob ==
    ASSUME NEW c \in Slot, NEW op, NEW n \in 1 .. 5, NEW r \in Outcomes
    PROVE  /\ Encoded(c, op, n, r) \in JobType /\ WellFormed(Encoded(c, op, n, r))
           /\ Encoded(c, op, n, r).run = IF op = "detailed" THEN "detailed" ELSE "client"
           /\ Encoded(c, op, n, r).who = c /\ Encoded(c, op, n, r).with = r
BY BoundAssumption DEF Encoded, Job, JobType, WellFormed, Caller, JobRuns, Plain, Chain, Awaits

\* The reaction of an encode to its worker's answer is well-formed.
LEMMA ReactionJob ==
    ASSUME NEW c \in Slot, NEW tier, NEW r \in Outcomes
    PROVE  /\ EncodeReaction(c, tier, r) \in JobType /\ WellFormed(EncodeReaction(c, tier, r))
           /\ EncodeReaction(c, tier, r).run = "encoded" /\ EncodeReaction(c, tier, r).who = c
           /\ EncodeReaction(c, tier, r).with = r
BY BoundAssumption DEF EncodeReaction, Job, JobType, WellFormed, Caller, JobRuns, Plain, Chain, Awaits

\* The reaction to the answer of an initialize call is well-formed.
LEMMA InitJob ==
    ASSUME NEW a \in Attempt, NEW r \in {"ok", "error"}
    PROVE  /\ InitReaction(a, r) \in JobType /\ WellFormed(InitReaction(a, r))
           /\ InitReaction(a, r).run = IF WorkerAvailable THEN "poolReady" ELSE "sharedReady"
           /\ InitReaction(a, r).who = a /\ InitReaction(a, r).with = r
BY BoundAssumption
   DEF InitReaction, Job, JobType, WellFormed, Caller, JobRuns, Plain, Chain, Awaits, Outcomes

\* The continuation of a caller that awaited an activation is well-formed.
LEMMA AwaitedJob ==
    ASSUME NEW run \in Awaits, NEW c \in Caller, NEW a \in Attempt, NEW r \in {"ok", "failed"}
    PROVE  /\ Awaited(run, c, a, r) \in JobType /\ WellFormed(Awaited(run, c, a, r))
           /\ Awaited(run, c, a, r).run = run /\ Awaited(run, c, a, r).who = c
           /\ Awaited(run, c, a, r).with = r /\ Awaited(run, c, a, r).attempt = a
BY BoundAssumption
   DEF Awaited, JobType, WellFormed, Caller, JobRuns, Plain, Chain, Awaits, Outcomes, Attempt

\* The two continuations of close() are well-formed.
LEMMA CloseJob ==
    ASSUME NEW c \in Caller, NEW run \in {"poolClosed", "freeSingle"}, NEW n \in 1 .. 5
    PROVE  /\ Job(run, c, n, "done") \in JobType /\ WellFormed(Job(run, c, n, "done"))
           /\ Job(run, c, n, "done").run = run /\ Job(run, c, n, "done").who = c
BY BoundAssumption
   DEF Job, JobType, WellFormed, Caller, JobRuns, Plain, Chain, Awaits, Outcomes

\* The rejection that closes a pool that could not come up is well-formed.
LEMMA FailedJob ==
    ASSUME NEW a \in Attempt
    PROVE  /\ Job("poolFailed", a, 2, "error") \in JobType
           /\ WellFormed(Job("poolFailed", a, 2, "error"))
           /\ Job("poolFailed", a, 2, "error").run = "poolFailed"
           /\ Job("poolFailed", a, 2, "error").who = a
BY BoundAssumption
   DEF Job, JobType, WellFormed, Caller, JobRuns, Plain, Chain, Awaits, Outcomes

\* RpcWorker rejects each call that waits for it, and nothing else.
LEMMA RejectionJobs ==
    ASSUME Types, NEW t \in Thread
    PROVE  /\ Rejections(t) \in Seq(JobType) /\ Len(Rejections(t)) = Len(thread[t].queue)
           /\ \A k \in DOMAIN Rejections(t) :
                 /\ WellFormed(Rejections(t)[k]) /\ k \in DOMAIN thread[t].queue
                 /\ Rejections(t)[k].with = "error"
                 /\ IF thread[t].queue[k] = Init0
                    THEN /\ Rejections(t)[k].run = IF WorkerAvailable THEN "poolReady" ELSE "sharedReady"
                         /\ Rejections(t)[k].who = t[1]
                    ELSE /\ thread[t].queue[k] \in Slot
                         /\ Rejections(t)[k].run = "encoded"
                         /\ Rejections(t)[k].who = thread[t].queue[k]
<1> DEFINE q == thread[t].queue
<1>1. q \in Seq(Rpc) /\ t[1] \in Attempt
  BY DEF Types, ThreadType, Thread
<1>2. ASSUME NEW k \in DOMAIN q
      PROVE  /\ Reaction(t, q[k], "error") \in JobType /\ WellFormed(Reaction(t, q[k], "error"))
             /\ Reaction(t, q[k], "error").with = "error"
             /\ IF q[k] = Init0
                THEN /\ Reaction(t, q[k], "error").run = IF WorkerAvailable THEN "poolReady" ELSE "sharedReady"
                     /\ Reaction(t, q[k], "error").who = t[1]
                ELSE /\ q[k] \in Slot
                     /\ Reaction(t, q[k], "error").run = "encoded"
                     /\ Reaction(t, q[k], "error").who = q[k]
  <2>1. q[k] \in Rpc
    BY <1>1, <1>2
  <2>2. CASE q[k] = Init0
    BY <1>1, <2>2, InitJob DEF Reaction
  <2>3. CASE q[k] # Init0
    <3>1. q[k] \in Slot /\ "error" \in Outcomes
      BY <2>1, <2>3 DEF Rpc, Outcomes
    <3> QED
      BY <2>3, <3>1, ReactionJob, SMTT(30) DEF Reaction
  <2> QED
    BY <2>2, <2>3
<1>3. Rejections(t) = [k \in DOMAIN q |-> Reaction(t, q[k], "error")]
  BY DEF Rejections
<1>4. DOMAIN q = 1 .. Len(q) /\ Len(q) \in Nat
  BY <1>1
<1> HIDE DEF q
<1>5. Rejections(t) \in Seq(JobType) /\ Len(Rejections(t)) = Len(q) /\ DOMAIN Rejections(t) = DOMAIN q
  BY <1>2, <1>3, <1>4
<1>6. ASSUME NEW k \in DOMAIN Rejections(t) PROVE Rejections(t)[k] = Reaction(t, q[k], "error")
  BY <1>3, <1>5, <1>6
<1> QED
  BY <1>2, <1>5, <1>6 DEF q
---------------------------------------------------------------------------
\* What the queue looks like after a step.

\* One job behind the others.
LEMMA QueuedOne ==
    ASSUME Types, NEW job \in JobType, WellFormed(job), Queue(<<job>>)
    PROVE  /\ jobs' \in Seq(JobType) /\ \A i \in Jobs' : WellFormed(i)
           /\ \A i \in Jobs' : i \in Jobs \/ i = job
           /\ Len(jobs') = Len(jobs) + 1
           /\ \A k \in DOMAIN jobs : k \in DOMAIN jobs' /\ jobs'[k] = jobs[k]
           /\ Len(jobs) + 1 \in DOMAIN jobs' /\ jobs'[Len(jobs) + 1] = job
           /\ \A k \in DOMAIN jobs' : k \in DOMAIN jobs \/ k = Len(jobs) + 1
<1> DEFINE js == <<job>>
<1>1. js \in Seq(JobType) /\ Len(js) = 1 /\ DOMAIN js = 1 .. 1 /\ js[1] = job
  OBVIOUS
<1>2. \A k \in DOMAIN js : WellFormed(js[k])
  BY <1>1
<1>3. Len(jobs) \in Nat /\ DOMAIN jobs = 1 .. Len(jobs)
  BY DEF Types
<1> HIDE DEF js
<1>4. Queue(js)
  BY DEF js
<1>5. /\ jobs' \in Seq(JobType) /\ \A i \in Jobs' : WellFormed(i)
      /\ \A i \in Jobs' : i \in Jobs \/ \E k \in DOMAIN js : i = js[k]
      /\ Len(jobs') = Len(jobs) + Len(js)
      /\ \A k \in DOMAIN jobs : k \in DOMAIN jobs' /\ jobs'[k] = jobs[k]
      /\ \A k \in DOMAIN js : Len(jobs) + k \in DOMAIN jobs' /\ jobs'[Len(jobs) + k] = js[k]
  BY <1>1, <1>2, <1>4, Queued, Zenon
<1>6. \A i \in Jobs' : i \in Jobs \/ i = job
  BY <1>1, <1>5
<1>7. \A k \in DOMAIN jobs' : k \in DOMAIN jobs \/ k = Len(jobs) + 1
  BY <1>1, <1>3, <1>5
<1> QED
  BY <1>1, <1>5, <1>6, <1>7

\* The head gone, one job behind the others.
LEMMA ResumedOne ==
    ASSUME Types, NEW job \in JobType, WellFormed(job), Resume(<<job>>), jobs # <<>>
    PROVE  /\ jobs' \in Seq(JobType) /\ \A i \in Jobs' : WellFormed(i)
           /\ \A i \in Jobs' : i \in Jobs \/ i = job
           /\ Len(jobs') = Len(jobs)
           /\ \A k \in DOMAIN jobs : k # 1 => k - 1 \in DOMAIN jobs' /\ jobs'[k - 1] = jobs[k]
           /\ Len(jobs) \in DOMAIN jobs' /\ jobs'[Len(jobs)] = job
           /\ \A k \in DOMAIN jobs' :
                 \/ k < Len(jobs) /\ k + 1 \in DOMAIN jobs /\ jobs'[k] = jobs[k + 1]
                 \/ k = Len(jobs) /\ jobs'[k] = job
<1> DEFINE js == <<job>>
<1>1. js \in Seq(JobType) /\ Len(js) = 1 /\ DOMAIN js = 1 .. 1 /\ js[1] = job
  OBVIOUS
<1>2. \A k \in DOMAIN js : WellFormed(js[k])
  BY <1>1
<1>3. Len(jobs) \in Nat /\ DOMAIN jobs = 1 .. Len(jobs)
  BY DEF Types
<1> HIDE DEF js
<1>4. Resume(js)
  BY DEF js
<1>5. /\ jobs' \in Seq(JobType) /\ \A i \in Jobs' : WellFormed(i)
      /\ \A i \in Jobs' : i \in Jobs \/ \E k \in DOMAIN js : i = js[k]
      /\ Len(jobs') = Len(jobs) - 1 + Len(js)
      /\ \A k \in DOMAIN jobs : k # 1 => k - 1 \in DOMAIN jobs' /\ jobs'[k - 1] = jobs[k]
      /\ \A k \in DOMAIN js : Len(jobs) - 1 + k \in DOMAIN jobs' /\ jobs'[Len(jobs) - 1 + k] = js[k]
      /\ \A k \in DOMAIN jobs' :
            \/ k < Len(jobs) /\ k + 1 \in DOMAIN jobs /\ jobs'[k] = jobs[k + 1]
            \/ k >= Len(jobs) /\ k - Len(jobs) + 1 \in DOMAIN js /\ jobs'[k] = js[k - Len(jobs) + 1]
  BY <1>1, <1>2, <1>4, Resumed, Zenon
<1>6. \A i \in Jobs' : i \in Jobs \/ i = job
  BY <1>1, <1>5
<1>7. ASSUME NEW k \in DOMAIN jobs'
      PROVE  \/ k < Len(jobs) /\ k + 1 \in DOMAIN jobs /\ jobs'[k] = jobs[k + 1]
             \/ k = Len(jobs) /\ jobs'[k] = job
  <2>1. CASE k >= Len(jobs) /\ k - Len(jobs) + 1 \in DOMAIN js /\ jobs'[k] = js[k - Len(jobs) + 1]
    <3>1. k - Len(jobs) + 1 = 1
      BY <1>1, <2>1
    <3> QED
      BY <1>1, <1>3, <1>5, <2>1, <3>1
  <2> QED
    BY <1>5, <2>1, Zenon
<1>8. Len(jobs') = Len(jobs) /\ Len(jobs) - 1 + 1 = Len(jobs)
  BY <1>1, <1>3, <1>5
<1>9. Len(jobs) \in DOMAIN jobs' /\ jobs'[Len(jobs)] = job
  BY <1>1, <1>5, <1>8
<1> QED
  BY <1>5, <1>6, <1>7, <1>8, <1>9, Zenon

\* The head gone.
LEMMA Dropped ==
    ASSUME Types, Resume(<<>>), jobs # <<>>
    PROVE  /\ jobs' \in Seq(JobType) /\ \A i \in Jobs' : WellFormed(i)
           /\ \A i \in Jobs' : i \in Jobs
           /\ \A k \in DOMAIN jobs' : k + 1 \in DOMAIN jobs /\ jobs'[k] = jobs[k + 1]
           /\ Len(jobs') = Len(jobs) - 1
           /\ \A k \in DOMAIN jobs : k # 1 => k - 1 \in DOMAIN jobs' /\ jobs'[k - 1] = jobs[k]
<1> DEFINE js == <<>>
<1>1. js \in Seq(JobType) /\ Len(js) = 0 /\ DOMAIN js = {}
  OBVIOUS
<1>3. Len(jobs) \in Nat /\ DOMAIN jobs = 1 .. Len(jobs)
  BY DEF Types
<1> HIDE DEF js
<1>4. Resume(js)
  BY DEF js
<1>2. \A k \in DOMAIN js : WellFormed(js[k])
  BY <1>1
<1>5. /\ jobs' \in Seq(JobType) /\ \A i \in Jobs' : WellFormed(i)
      /\ \A i \in Jobs' : i \in Jobs \/ \E k \in DOMAIN js : i = js[k]
      /\ Len(jobs') = Len(jobs) - 1 + Len(js)
      /\ \A k \in DOMAIN jobs : k # 1 => k - 1 \in DOMAIN jobs' /\ jobs'[k - 1] = jobs[k]
      /\ \A k \in DOMAIN jobs' :
            \/ k < Len(jobs) /\ k + 1 \in DOMAIN jobs /\ jobs'[k] = jobs[k + 1]
            \/ k >= Len(jobs) /\ k - Len(jobs) + 1 \in DOMAIN js /\ jobs'[k] = js[k - Len(jobs) + 1]
  BY <1>1, <1>2, <1>4, Resumed, Zenon
<1>6. Len(jobs') = Len(jobs) - 1
  BY <1>1, <1>3, <1>5
<1> QED
  BY <1>1, <1>5, <1>6

\* A kind of job there is at most one of stays so when the step queues none of it, or the
\* only one.
LEMMA OnceQueued ==
    ASSUME Types, NEW js \in Seq(JobType), \A k \in DOMAIN js : WellFormed(js[k]), Queue(js),
           NEW run, Once(run),
           \/ \A k \in DOMAIN js : js[k].run # run
           \/ /\ \A job \in Jobs : job.run # run
              /\ \A j, k \in DOMAIN js : js[j].run = run /\ js[k].run = run => j = k
    PROVE  Once(run)'
<1> SUFFICES ASSUME NEW j \in DOMAIN jobs', NEW k \in DOMAIN jobs', jobs'[j].run = run, jobs'[k].run = run
             PROVE  j = k
  BY DEF Once
<1>1. /\ \A i \in DOMAIN jobs : jobs'[i] = jobs[i]
      /\ \A i \in DOMAIN jobs' : i \in DOMAIN jobs \/
            (i > Len(jobs) /\ i - Len(jobs) \in DOMAIN js /\ jobs'[i] = js[i - Len(jobs)])
  BY Queued, Zenon
<1>2. Len(jobs) \in Nat /\ DOMAIN jobs = 1 .. Len(jobs) /\ DOMAIN js = 1 .. Len(js)
      /\ \A i \in DOMAIN jobs : jobs[i] \in Jobs
  BY DEF Types, Jobs
<1>3. CASE j \in DOMAIN jobs /\ k \in DOMAIN jobs
  BY <1>1, <1>3 DEF Once
<1>4. CASE j \notin DOMAIN jobs /\ k \notin DOMAIN jobs
  <2>1. /\ j - Len(jobs) \in DOMAIN js /\ js[j - Len(jobs)].run = run
        /\ k - Len(jobs) \in DOMAIN js /\ js[k - Len(jobs)].run = run
    BY <1>1, <1>4, Zenon
  <2>2. j - Len(jobs) = k - Len(jobs)
    BY <2>1, Zenon
  <2>3. j \in Int /\ k \in Int
    <3>1. Len(jobs') \in Nat /\ DOMAIN jobs' = 1 .. Len(jobs')
      BY Queued
    <3> QED
      BY <3>1
  <2> QED
    BY <1>2, <2>2, <2>3
<1>5. CASE j \in DOMAIN jobs /\ k \notin DOMAIN jobs
  <2>1. k - Len(jobs) \in DOMAIN js /\ js[k - Len(jobs)].run = run /\ jobs[j].run = run
    BY <1>1, <1>5, Zenon
  <2> QED
    BY <1>2, <1>5, <2>1, Zenon
<1>6. CASE j \notin DOMAIN jobs /\ k \in DOMAIN jobs
  <2>1. j - Len(jobs) \in DOMAIN js /\ js[j - Len(jobs)].run = run /\ jobs[k].run = run
    BY <1>1, <1>6, Zenon
  <2> QED
    BY <1>2, <1>6, <2>1, Zenon
<1> QED
  BY <1>3, <1>4, <1>5, <1>6

\* The same when the head of the queue has run.
LEMMA OnceResumed ==
    ASSUME Types, NEW js \in Seq(JobType), \A k \in DOMAIN js : WellFormed(js[k]), Resume(js),
           jobs # <<>>, NEW run, Once(run),
           \/ \A k \in DOMAIN js : js[k].run # run
           \/ /\ \A job \in Jobs : job.run # run
              /\ \A j, k \in DOMAIN js : js[j].run = run /\ js[k].run = run => j = k
    PROVE  Once(run)'
<1> SUFFICES ASSUME NEW j \in DOMAIN jobs', NEW k \in DOMAIN jobs', jobs'[j].run = run, jobs'[k].run = run
             PROVE  j = k
  BY DEF Once
<1> DEFINE old(i) == i < Len(jobs) /\ i + 1 \in DOMAIN jobs /\ jobs'[i] = jobs[i + 1]
           new(i) == i >= Len(jobs) /\ i - Len(jobs) + 1 \in DOMAIN js /\ jobs'[i] = js[i - Len(jobs) + 1]
<1>1. jobs' \in Seq(JobType) /\ \A i \in DOMAIN jobs' : old(i) \/ new(i)
  BY Resumed, Zenon
<1>2. Len(jobs) \in Nat /\ DOMAIN jobs = 1 .. Len(jobs) /\ DOMAIN js = 1 .. Len(js)
      /\ \A i \in DOMAIN jobs : jobs[i] \in Jobs
  BY DEF Types, Jobs
<1>0. j \in Int /\ k \in Int
  BY <1>1
<1>3. CASE old(j) /\ old(k)
  <2>1. j + 1 = k + 1
    BY <1>3, Zenon DEF Once
  <2> QED
    BY <2>1, <1>0
<1>4. CASE new(j) /\ new(k)
  <2>1. j - Len(jobs) + 1 = k - Len(jobs) + 1
    BY <1>4, Zenon
  <2> QED
    BY <1>2, <2>1, <1>0
<1>5. CASE old(j) /\ new(k)
  BY <1>2, <1>5, Zenon
<1>6. CASE new(j) /\ old(k)
  BY <1>2, <1>6, Zenon
<1> QED
  BY <1>1, <1>3, <1>4, <1>5, <1>6, Zenon

---------------------------------------------------------------------------
\* What most steps have in common.

\* No environment has both parallel tiers, and selectTier picks only one that it has.
LEMMA TiersExclude ==
    /\ ~(WorkerAvailable /\ SharedAvailable)
    /\ \A r : SelectTier(r) = "worker" /\ r \in Tiers \union {"auto"} => WorkerAvailable
    /\ \A r : SelectTier(r) = "shared" /\ r \in Tiers \union {"auto"} => SharedAvailable
BY DEF WorkerAvailable, SharedAvailable, SelectTier, Tiers

\* Client code, a task, a close and an ordinary job only run when no pool is coming up.
LEMMA WhenCalm ==
    ASSUME Core, turn \/ jobs = <<>> \/ Closing \/ Head(jobs).run \notin Chain
    PROVE  Calm
<1>1. Calm \/ Coming \/ Adopting
  BY DEF Core
<1>2. ~Coming
  <2> SUFFICES ASSUME Coming PROVE FALSE
    OBVIOUS
  <2>1. jobs \in Seq(JobType) /\ Len(jobs) = 1
    BY DEF Core, Types, Coming
  <2>2. jobs # <<>> /\ Head(jobs) = jobs[1]
    BY <2>1
  <2> QED
    BY <2>2 DEF Coming, Chain
<1>3. ~Adopting
  <2> SUFFICES ASSUME Adopting PROVE FALSE
    OBVIOUS
  <2>1. jobs \in Seq(JobType) /\ jobs # <<>>
    BY DEF Core, Types, Adopting
  <2>2. Head(jobs) = jobs[1]
    BY <2>1
  <2> QED
    BY <2>1, <2>2 DEF Adopting, Chain
<1> QED
  BY <1>1, <1>2, <1>3

\* Promises as they were.
SameInit ==
    /\ init' \in [Attempt -> InitType]
    /\ \A a \in Attempt : init'[a].promise = init[a].promise /\ init'[a].awaiting = init[a].awaiting

\* The attempts the session variables name, and those of the threads, are attempts.
LEMMA AttemptOf ==
    ASSUME Types
    PROVE  /\ workerPool # 0 => workerPool \in Attempt
           /\ workerInitialization # 0 => workerInitialization \in Attempt
           /\ sharedController # 0 => sharedController \in Attempt
           /\ sharedInitialization # 0 => sharedInitialization \in Attempt
           /\ \A t \in Thread : t[1] \in Attempt
           /\ \A a \in Attempt : Threads(a) \subseteq Thread /\ SharedThread(a) \in Threads(a)
           /\ 0 \notin Attempt
BY BoundAssumption DEF Types, Attempt, Thread, Threads, SharedThread

\* A step that queues ordinary jobs only and changes no thread, promise or tier.
LEMMA PlainStep ==
    ASSUME Core, Calm, SameInit, UNCHANGED <<capabilities, tiers, started, thread>>,
           \A job \in Jobs' : job \in Jobs \/ job.run \in Plain,
           Once("sharedReady")' \/ ~Once("sharedReady"),
           Once("verifyShared")' \/ ~Once("verifyShared")
    PROVE  Queues' /\ Attempts' /\ Calm' /\ PoolThreads' /\ Controller'
<1>0. /\ WorkerAvailable' = WorkerAvailable /\ SharedAvailable' = SharedAvailable
      /\ workerPool' = workerPool /\ workerInitialization' = workerInitialization
      /\ sharedController' = sharedController /\ sharedInitialization' = sharedInitialization
      /\ thread' = thread
      /\ \A threads : Foreign(threads)' = Foreign(threads)
      /\ \A a : Dead(a)' = Dead(a)
  BY DEF tiers, WorkerAvailable, SharedAvailable, Foreign, Dead
<1>1. /\ workerPool # 0 => workerPool \in Attempt
      /\ workerInitialization # 0 => workerInitialization \in Attempt
      /\ sharedController # 0 => sharedController \in Attempt
      /\ sharedInitialization # 0 => sharedInitialization \in Attempt
      /\ \A t \in Thread : t[1] \in Attempt
  BY AttemptOf DEF Core
<1>2. \A a \in Attempt : Pending(a)' <=> Pending(a)
  BY DEF SameInit, Pending
<1>3. Queues'
  BY <1>0, <1>1, <1>2 DEF Core, Queues, SharedThread
<1>4. Attempts'
  BY <1>0, <1>1, <1>2 DEF Core, Attempts, SameInit
<1>5. Calm'
  BY <1>0, <1>1, <1>2 DEF Calm, Plain, Chain
<1>6. PoolThreads'
  BY <1>0, <1>1 DEF Core, PoolThreads, SameInit, Plain
<1>7. Controller'
  <2> SUFFICES ASSUME ~WorkerAvailable PROVE Controller'
    BY <1>0 DEF Controller
  <2>1. Once("sharedReady")' /\ Once("verifyShared")'
    BY DEF Core, Controller
  <2>2. ASSUME NEW job \in Jobs', job.run = "sharedReady"
        PROVE  /\ job.who = sharedController /\ Pending(sharedController)'
               /\ \A j \in DOMAIN thread[SharedThread(sharedController)].queue :
                     thread[SharedThread(sharedController)].queue[j] # Init0
    <3>1. job \in Jobs /\ job.who \in Attempt
      BY <2>2 DEF Plain, Core, Types, WellFormed
    <3> QED
      BY <1>0, <1>2, <2>2, <3>1 DEF Core, Controller, Pending
  <2>3. ASSUME NEW job \in Jobs', job.run = "verifyShared"
        PROVE  job.attempt = sharedController /\ ~Pending(sharedController)'
    <3>1. job \in Jobs /\ job.attempt \in Attempt
      BY <2>3 DEF Plain, Core, Types, WellFormed, Awaits
    <3> QED
      BY <1>0, <1>2, <2>3, <3>1 DEF Core, Controller, Pending
  <2>4. \A a \in Attempt : \A k \in DOMAIN init'[a].awaiting :
             init'[a].awaiting[k].run = IF k = 1 THEN "verifyShared" ELSE "joinShared"
    BY DEF Core, Controller, SameInit
  <2>5. \A t \in Thread : thread[t].alive => t = SharedThread(sharedController)
    BY DEF Core, Controller
  <2> QED
    BY <1>0, <2>1, <2>2, <2>3, <2>4, <2>5 DEF Controller, SharedThread
<1> QED
  BY <1>3, <1>4, <1>5, <1>6, <1>7

\* Before the initial activation only that activation can happen.
Awake == ~(phase = "booting" /\ call[Boot].op = "idle")

\* The initial activation begins once: what is said of the time before it stays true.
LEMMA StaysAwake ==
    ASSUME \/ Awake /\ (phase' = "booting" => phase = "booting" /\ (call'[Boot] = call[Boot] \/ call'[Boot].op # "idle"))
           \/ ~(phase' = "booting" /\ call'[Boot].op = "idle")
    PROVE  Booting'
BY DEF Awake, Booting

\* Jobs, a close, an open session or a living thread: the initial activation has begun.
LEMMA IsAwake ==
    ASSUME Core,
           \/ jobs # <<>> \/ Closing \/ phase = "open"
           \/ \E t \in Thread : thread[t].alive \/ thread[t].queue # <<>>
    PROVE  Awake
BY DEF Core, Booting, Awake

\* A caller gets a job at once, or what it awaits has settled: one ordinary job.
LEMMA Replies ==
    ASSUME Core, NEW c \in Caller, NEW op \in Ops \ {"idle"}, NEW tier \in Tiers,
           turn \/ jobs = <<>>, ~Closing, c = Boot \/ phase = "open",
           Calling(c, op, tier), SameInit,
           NEW job \in JobType, WellFormed(job), job.run \in Plain, Queue(<<job>>),
           UNCHANGED <<phase, capabilities, tiers, started, thread, closing>>
    PROVE  Core'
<1>1. Types /\ Calm
  BY WhenCalm DEF Core
<1>2. /\ jobs' \in Seq(JobType) /\ \A i \in Jobs' : WellFormed(i)
      /\ \A i \in Jobs' : i \in Jobs \/ i = job
  BY <1>1, QueuedOne, Zenon
<1>3. call' \in [Caller -> [op: Ops, tier: Tiers]] /\ turn' \in BOOLEAN
      /\ call'[c].op # "idle" /\ \A i \in Caller \ {c} : call'[i] = call[i]
  BY <1>1 DEF Types, Calling
<1>4. Types'
  BY <1>1, <1>2, <1>3 DEF Types, SameInit, tiers
<1>5. Booting'
  <2>1. Boot \in Caller
    BY DEF Caller
  <2>2. CASE c = Boot
    BY <1>3, <2>2, StaysAwake
  <2>3. CASE c # Boot
    BY <2>3, StaysAwake
  <2> QED
    BY <2>2, <2>3
<1>6. ASSUME NEW run \in {"sharedReady", "verifyShared"}, Once(run) PROVE Once(run)'
  <2>1. <<job>> \in Seq(JobType) /\ DOMAIN <<job>> = 1 .. 1 /\ <<job>>[1] = job
    OBVIOUS
  <2>2. \A k \in DOMAIN <<job>> : WellFormed(<<job>>[k]) /\ <<job>>[k].run # run
    BY <1>6, <2>1 DEF Plain
  <2> QED
    BY <1>1, <1>6, <2>1, <2>2, OnceQueued, Zenon
<1>7. Queues' /\ Attempts' /\ Calm' /\ PoolThreads' /\ Controller'
  BY <1>1, <1>2, <1>6, PlainStep
<1> QED
  BY <1>4, <1>5, <1>7 DEF Core

\* An ordinary job runs and queues ordinary jobs.
LEMMA Proceeds ==
    ASSUME Core, jobs # <<>>, ~Closing, Head(jobs).run \notin Chain,
           NEW js \in Seq(JobType), \A k \in DOMAIN js : WellFormed(js[k]) /\ js[k].run \in Plain,
           Resume(js),
           UNCHANGED <<capabilities, tiers, started, init, thread, closing>>,
           turn' \in BOOLEAN, call' \in [Caller -> [op: Ops, tier: Tiers]],
           phase' = "booting" => phase = "booting" /\ (call'[Boot] = call[Boot] \/ call'[Boot].op # "idle")
    PROVE  Core'
<1>1. Types /\ Calm /\ Awake
  BY WhenCalm, IsAwake DEF Core
<1>2. /\ jobs' \in Seq(JobType) /\ \A i \in Jobs' : WellFormed(i)
      /\ \A i \in Jobs' : i \in Jobs \/ \E k \in DOMAIN js : i = js[k]
  BY <1>1, Resumed, Zenon
<1>3. Types' /\ SameInit
  BY <1>1, <1>2 DEF Types, tiers, SameInit
<1>4. Booting'
  BY <1>1, StaysAwake
<1>5. ASSUME NEW run \in {"sharedReady", "verifyShared"}, Once(run) PROVE Once(run)'
  <2>1. \A k \in DOMAIN js : WellFormed(js[k]) /\ js[k].run # run
    BY <1>5 DEF Plain
  <2> QED
    BY <1>1, <1>5, <2>1, OnceResumed, Zenon
<1>6. Queues' /\ Attempts' /\ Calm' /\ PoolThreads' /\ Controller'
  BY <1>1, <1>2, <1>3, <1>5, PlainStep
<1> QED
  BY <1>3, <1>4, <1>6 DEF Core

---------------------------------------------------------------------------
\* ensureTier

\* switchTier and the initial activation run when no pool is coming up.
LEMMA Activation ==
    ASSUME Core, NEW c \in Caller, NEW requested, Activating(c, requested)
    PROVE  /\ turn \/ jobs = <<>>
           /\ c = Boot \/ phase = "open"
           /\ ~Closing /\ Calm
           /\ \A t \in Thread : c = Boot => ~thread[t].alive /\ thread[t].queue = <<>>
<1>1. (turn \/ jobs = <<>>) /\ ~Closing
  BY DEF Activating, OnClientTurn, Core, Booting, Closing
<1>2. \A t \in Thread : c = Boot => ~thread[t].alive /\ thread[t].queue = <<>>
  BY DEF Activating, Core, Booting
<1> QED
  BY <1>1, <1>2, WhenCalm DEF Activating, OnClientTurn

\* A call on the stack is recorded with its caller and keeps the types.
LEMMA Calls ==
    ASSUME Types, NEW c \in Caller, NEW op \in Ops \ {"idle"}, NEW tier \in Tiers,
           Calling(c, op, tier), c = Boot \/ phase = "open", phase' = phase
    PROVE  /\ call' \in [Caller -> [op: Ops, tier: Tiers]] /\ turn' = TRUE
           /\ Booting'
<1>1. /\ call' \in [Caller -> [op: Ops, tier: Tiers]] /\ turn' = TRUE
      /\ call'[c].op # "idle"
  BY DEF Types, Calling
<1> QED
  BY <1>1, StaysAwake

\* Caller c joins those that await the promise of attempt a.
LEMMA Joins ==
    ASSUME Core, Calm, NEW c \in Caller, NEW run, NEW a \in Attempt, Pending(a),
           run = IF WorkerAvailable THEN "adoptPool" ELSE "joinShared",
           init' = [init EXCEPT ![a].awaiting = Append(@, [run |-> run, who |-> c])],
           UNCHANGED <<capabilities, tiers, started, thread, jobs, closing>>,
           Booting', turn' \in BOOLEAN, call' \in [Caller -> [op: Ops, tier: Tiers]]
    PROVE  Core'
<1> DEFINE new == [run |-> run, who |-> c]
           q   == init[a].awaiting
<1>1. Types /\ new \in [run: Awaits, who: Caller] /\ q \in Seq([run: Awaits, who: Caller])
  BY DEF Core, Types, InitType, Awaits
<1> HIDE DEF new, q
<1>2. /\ Append(q, new) \in Seq([run: Awaits, who: Caller]) /\ Append(q, new) # <<>>
      /\ Len(Append(q, new)) = Len(q) + 1 /\ Append(q, new)[Len(q) + 1] = new
      /\ \A k \in DOMAIN q : Append(q, new)[k] = q[k]
      /\ DOMAIN q = 1 .. Len(q) /\ DOMAIN Append(q, new) = 1 .. Len(q) + 1 /\ Len(q) \in Nat
  <2>1. PICK S : S = [run: Awaits, who: Caller]
    OBVIOUS
  <2>2. new \in S /\ q \in Seq(S)
    BY <1>1, <2>1
  <2>3. /\ Append(q, new) \in Seq(S) /\ Append(q, new) # <<>>
        /\ Len(Append(q, new)) = Len(q) + 1 /\ Append(q, new)[Len(q) + 1] = new
        /\ \A k \in DOMAIN q : Append(q, new)[k] = q[k]
        /\ DOMAIN q = 1 .. Len(q) /\ DOMAIN Append(q, new) = 1 .. Len(q) + 1 /\ Len(q) \in Nat
    BY <2>2, AppendAt, Zenon
  <2> QED
    BY <2>1, <2>3, Zenon
<1> USE DEF new, q
<1>3. /\ init'[a].awaiting = Append(q, new) /\ init'[a].promise = init[a].promise
      /\ init'[a].nextWorker = init[a].nextWorker
      /\ init' \in [Attempt -> InitType]
      /\ \A b \in Attempt : b # a => init'[b] = init[b]
  <2>1. init \in [Attempt -> InitType] /\ init[a] \in InitType
    BY <1>1 DEF Types
  <2>2. init' = [init EXCEPT ![a] = [init[a] EXCEPT !.awaiting = Append(q, new)]]
    BY DEF Types
  <2>3. [init[a] EXCEPT !.awaiting = Append(q, new)] \in InitType
    BY <1>2, <2>1 DEF InitType
  <2>4. init' \in [Attempt -> InitType] /\ \A b \in Attempt : b # a => init'[b] = init[b]
    BY <2>1, <2>2, <2>3, Zenon
  <2>5. init'[a] = [init[a] EXCEPT !.awaiting = Append(q, new)]
    BY <2>1, <2>2, Zenon
  <2> QED
    BY <2>1, <2>4, <2>5 DEF InitType
<1>4. \A b \in Attempt : Pending(b)' <=> Pending(b)
  BY <1>3 DEF Pending
<1> HIDE DEF new, q
<1>5. /\ WorkerAvailable' = WorkerAvailable /\ SharedAvailable' = SharedAvailable
      /\ workerPool' = workerPool /\ workerInitialization' = workerInitialization
      /\ sharedController' = sharedController /\ sharedInitialization' = sharedInitialization
      /\ thread' = thread /\ Jobs' = Jobs
      /\ \A threads : Foreign(threads)' = Foreign(threads)
      /\ \A b : Dead(b)' = Dead(b)
  BY DEF tiers, WorkerAvailable, SharedAvailable, Foreign, Dead, Jobs
<1>6. /\ workerPool # 0 => workerPool \in Attempt
      /\ workerInitialization # 0 => workerInitialization \in Attempt
      /\ sharedController # 0 => sharedController \in Attempt
      /\ sharedInitialization # 0 => sharedInitialization \in Attempt
      /\ \A t \in Thread : t[1] \in Attempt
  BY <1>1, AttemptOf
<1>7. Types'
  BY <1>1, <1>3, <1>5 DEF Types
<1>8. Queues'
  BY <1>4, <1>5, <1>6 DEF Core, Queues, SharedThread
<1>9. Attempts'
  <2>1. ASSUME NEW b \in Attempt
        PROVE  IF Pending(b)'
               THEN b \in {workerInitialization, sharedInitialization} /\ init'[b].awaiting # <<>>
               ELSE init'[b].awaiting = <<>>
    BY <1>2, <1>3, <1>4 DEF Core, Attempts, Pending
  <2>2. \A b \in Attempt : init'[b].promise = init[b].promise
    BY <1>3
  <2> QED
    BY <1>5, <1>6, <2>1, <2>2 DEF Core, Attempts
<1>10. Calm'
  BY <1>4, <1>5, <1>6 DEF Calm
<1>11. ASSUME NEW b \in Attempt, NEW k \in DOMAIN init'[b].awaiting
       PROVE  init'[b].awaiting[k].run = run \/ (k \in DOMAIN init[b].awaiting /\ init'[b].awaiting[k] = init[b].awaiting[k])
  BY <1>2, <1>3 DEF new, q
<1>12. PoolThreads'
  <2> SUFFICES ASSUME WorkerAvailable PROVE PoolThreads'
    BY <1>5 DEF PoolThreads
  <2>1. \A b \in Attempt : init'[b].promise = init[b].promise
    BY <1>3
  <2> QED
    BY <1>5, <1>11, <2>1, SMTT(30) DEF Core, PoolThreads
<1>13. Controller'
  <2> SUFFICES ASSUME ~WorkerAvailable PROVE Controller'
    BY <1>5 DEF Controller
  <2>1. ASSUME NEW b \in Attempt, NEW k \in DOMAIN init'[b].awaiting
        PROVE  init'[b].awaiting[k].run = IF k = 1 THEN "verifyShared" ELSE "joinShared"
    <3>1. CASE b # a
      <4>1. init'[b] = init[b]
        BY <1>3, <3>1, Zenon
      <4>2. k \in DOMAIN init[b].awaiting
        BY <4>1
      <4>3. init[b].awaiting[k].run = IF k = 1 THEN "verifyShared" ELSE "joinShared"
        BY <4>2 DEF Core, Controller
      <4> QED
        BY <4>1, <4>3
    <3>2. CASE b = a /\ k \in DOMAIN q
      <4>1. init'[b].awaiting[k] = init[b].awaiting[k] /\ k \in DOMAIN init[b].awaiting
        BY <1>2, <1>3, <3>2 DEF q
      <4> QED
        BY <4>1 DEF Core, Controller
    <3>3. CASE b = a /\ k \notin DOMAIN q
      <4>1. k = Len(q) + 1 /\ q # <<>>
        BY <1>2, <1>3, <3>3 DEF q, Core, Attempts
      <4>2. k # 1 /\ init'[b].awaiting[k].run = "joinShared"
        BY <1>1, <1>2, <1>3, <3>3, <4>1 DEF new, q
      <4> QED
        BY <4>2
    <3> QED
      BY <3>1, <3>2, <3>3
  <2>2. \A job \in Jobs : job.run = "sharedReady" => job.who \in Attempt
    BY <1>1 DEF Types, WellFormed
  <2>3. \A job \in Jobs : job.run = "verifyShared" => job.attempt \in Attempt
    BY <1>1 DEF Types, WellFormed, Awaits
  <2>4. jobs' = jobs
    OBVIOUS
  <2> QED
    BY <1>4, <1>5, <2>1, <2>2, <2>3, <2>4 DEF Core, Controller, SharedThread, Once, Pending
<1> QED
  BY <1>7, <1>8, <1>9, <1>10, <1>12, <1>13 DEF Core

\* What StartAttempt leaves behind.
StartedAs(c, a, run, threads) ==
    /\ a \in Attempt /\ started' \in 0 .. MaxAttempts /\ jobs' = jobs
    /\ init' \in [Attempt -> InitType] /\ thread' \in [Thread -> ThreadType]
    /\ init'[a].promise = "pending" /\ init'[a].awaiting # <<>>
    /\ \A k \in DOMAIN init'[a].awaiting : k = 1 /\ init'[a].awaiting[k] = [run |-> run, who |-> c]
    /\ \A b \in Attempt : b # a => init'[b] = init[b]
    /\ \A t \in threads : /\ thread'[t].alive /\ thread'[t].queue = <<Init0>>
                          /\ thread'[t].failure = "none" /\ thread'[t].model = "none"
    /\ \A t \in Thread \ threads : thread'[t] = thread[t]

\* initializeWorkerPool and the controller's start: a fresh promise, awaited by its
\* starter alone, and threads that were all posted their initialize.
LEMMA Started ==
    ASSUME Types, NEW c \in Caller, NEW a, NEW run \in Awaits, NEW threads \in SUBSET Thread,
           StartAttempt(c, a, run, threads)
    PROVE  StartedAs(c, a, run, threads)
<1> DEFINE new == [run |-> run, who |-> c]
           aw == <<new>>
           record == [promise |-> "pending", awaiting |-> aw, nextWorker |-> 1]
<1>1. /\ a \in Attempt /\ started' = a /\ jobs' = jobs
      /\ init' = [init EXCEPT ![a] = record]
      /\ thread' = [t \in Thread |-> IF t \in threads THEN StartedThread ELSE thread[t]]
      /\ init \in [Attempt -> InitType] /\ thread \in [Thread -> ThreadType]
  BY DEF StartAttempt, Types
<1>2. /\ aw \in Seq([run: Awaits, who: Caller]) /\ aw # <<>>
      /\ \A k \in DOMAIN aw : k = 1 /\ aw[k] = new
  OBVIOUS
<1>3. record \in InitType /\ record.promise = "pending" /\ record.awaiting = aw
  BY <1>2, BoundAssumption DEF InitType
<1> HIDE DEF aw, record
<1>4. init' \in [Attempt -> InitType] /\ init'[a] = record /\ \A b \in Attempt : b # a => init'[b] = init[b]
  BY <1>1, <1>3
<1>5. /\ StartedThread \in ThreadType /\ StartedThread.alive /\ StartedThread.queue = <<Init0>>
      /\ StartedThread.failure = "none" /\ StartedThread.model = "none"
  <2> DEFINE q == <<Init0>>
  <2>1. q \in Seq(Rpc) /\ <<>> \in Seq(Rpc)
    BY DEF Rpc
  <2> HIDE DEF q
  <2>2. StartedThread = [NoThread EXCEPT !.alive = TRUE, !.queue = q]
    BY DEF StartedThread, q
  <2>3. NoThread \in ThreadType
    BY <2>1 DEF NoThread, ThreadType
  <2>4. /\ StartedThread \in ThreadType /\ StartedThread.alive /\ StartedThread.queue = q
        /\ StartedThread.failure = "none" /\ StartedThread.model = "none"
    BY <2>1, <2>2, <2>3 DEF NoThread, ThreadType
  <2> QED
    BY <2>4 DEF q
<1>6. /\ thread' \in [Thread -> ThreadType] /\ \A t \in threads : thread'[t] = StartedThread
      /\ \A t \in Thread \ threads : thread'[t] = thread[t]
  BY <1>1, <1>5
<1>7. started' \in 0 .. MaxAttempts
  BY <1>1 DEF Attempt
<1> QED
  BY <1>1, <1>2, <1>3, <1>4, <1>5, <1>6, <1>7 DEF StartedAs

\* The start of a pool by the one caller that found none leaves the invariant true.
LEMMA StartsPool ==
    ASSUME Core, Calm, NEW c \in Caller, NEW a, WorkerAvailable,
           workerPool = 0, workerInitialization = 0,
           StartAttempt(c, a, "adoptPool", Threads(a)), workerInitialization' = a,
           UNCHANGED <<capabilities, workerPool, sharedController, sharedInitialization, closing>>,
           Booting', turn' \in BOOLEAN, call' \in [Caller -> [op: Ops, tier: Tiers]]
    PROVE  Core'
<1>0. Types
  BY DEF Core
<1>1. /\ a \in Attempt /\ Threads(a) \in SUBSET Thread /\ "adoptPool" \in Awaits
      /\ \A t \in Thread : t \in Threads(a) <=> t[1] = a
      /\ \A b \in Attempt : \A t \in Threads(b) : t \in Thread /\ t[1] = b
      /\ \A t \in Thread : t[1] \in Attempt
      /\ 0 \notin Attempt
  BY BoundAssumption DEF StartAttempt, Threads, Thread, Awaits, Attempt
<1>2. StartedAs(c, a, "adoptPool", Threads(a))
  BY <1>0, <1>1, Started
<1>3. /\ WorkerAvailable' /\ sharedInitialization = 0 /\ sharedController = 0
      /\ \A b \in Attempt : ~Pending(b)
  BY <1>1, TiersExclude DEF Core, Attempts, WorkerAvailable
<1>4. \A t \in Thread : thread[t].queue = <<>> /\ ~thread[t].alive
  <2> SUFFICES ASSUME NEW t \in Thread PROVE thread[t].queue = <<>> /\ ~thread[t].alive
    OBVIOUS
  <2>1. \A k \in DOMAIN thread[t].queue : thread[t].queue[k] # Init0 /\ thread[t].queue[k] \notin Slot
    BY <1>1, <1>3 DEF Core, Queues
  <2>2. thread[t].queue \in Seq(Rpc)
    BY <1>0 DEF Types, ThreadType
  <2>3. thread[t].queue = <<>>
    BY <2>1, <2>2 DEF Rpc
  <2> QED
    BY <1>1, <2>3 DEF Core, PoolThreads
<1>5. Types'
  BY <1>0, <1>1, <1>2 DEF StartedAs, Types, Attempt, Jobs
<1>6. Queues'
  <2>1. ASSUME NEW t \in Threads(a)
        PROVE  /\ \A k \in DOMAIN thread'[t].queue : k = 1 /\ thread'[t].queue[k] = Init0
    BY <1>2 DEF StartedAs
  <2> QED
    BY <1>1, <1>2, <1>3, <1>4, <2>1, SlotAssumption DEF StartedAs, Queues, Pending
<1>7. Attempts'
  BY <1>1, <1>2, <1>3 DEF StartedAs, Core, Attempts, Pending
<1>8. Calm'
  BY <1>2 DEF StartedAs, Calm, Jobs, Pending
<1>9. PoolThreads'
  <2>1. ASSUME NEW b \in Attempt
        PROVE  /\ init'[b].promise = "failed" => Dead(b)'
               /\ init'[b].promise = "ok" => ~Foreign(Threads(b))'
               /\ \A k \in DOMAIN init'[b].awaiting : init'[b].awaiting[k].run = "adoptPool"
    <3>1. CASE b = a
      BY <1>2, <3>1 DEF StartedAs
    <3>2. CASE b # a
      <4>1. \A t \in Threads(b) : thread'[t] = thread[t]
        BY <1>1, <1>2, <3>2 DEF StartedAs
      <4> QED
        BY <1>2, <3>2, <4>1 DEF StartedAs, Core, PoolThreads, Dead, Foreign
    <3> QED
      BY <3>1, <3>2
  <2>2. \A t \in Thread : thread'[t].alive => t[1] = a
    BY <1>1, <1>2, <1>4 DEF StartedAs
  <2> QED
    BY <1>2, <2>1, <2>2 DEF StartedAs, Core, PoolThreads, Jobs
<1>10. Controller'
  BY <1>3 DEF Controller
<1> QED
  BY <1>5, <1>6, <1>7, <1>8, <1>9, <1>10 DEF Core

\* So does the start of the controller.
LEMMA StartsShared ==
    ASSUME Core, Calm, NEW c \in Caller, NEW a, SharedAvailable, sharedController = 0,
           StartAttempt(c, a, "verifyShared", {SharedThread(a)}),
           sharedController' = a, sharedInitialization' = a,
           UNCHANGED <<capabilities, workerPool, workerInitialization, closing>>,
           Booting', turn' \in BOOLEAN, call' \in [Caller -> [op: Ops, tier: Tiers]]
    PROVE  Core'
<1>0. Types
  BY DEF Core
<1>1. /\ a \in Attempt /\ {SharedThread(a)} \in SUBSET Thread /\ "verifyShared" \in Awaits
      /\ SharedThread(a) \in Thread /\ SharedThread(a)[1] = a
      /\ \A t \in Thread : t # SharedThread(0) /\ t[1] \in Attempt
      /\ 0 \notin Attempt
  BY BoundAssumption DEF StartAttempt, SharedThread, Thread, Awaits, Attempt
<1>2. StartedAs(c, a, "verifyShared", {SharedThread(a)})
  BY <1>0, <1>1, Started
<1>3. /\ ~WorkerAvailable' /\ ~WorkerAvailable /\ SharedAvailable'
      /\ workerInitialization = 0 /\ workerPool = 0 /\ sharedInitialization = 0
      /\ \A b \in Attempt : ~Pending(b)
  BY <1>1, TiersExclude DEF Core, Attempts, WorkerAvailable, SharedAvailable
<1>4. \A t \in Thread : thread[t].queue = <<>> /\ ~thread[t].alive
  BY <1>1, <1>3 DEF Core, Queues, Controller
<1>5. Types'
  BY <1>0, <1>1, <1>2 DEF StartedAs, Types, Attempt, Jobs
<1>6. Queues'
  <2>1. \A k \in DOMAIN thread'[SharedThread(a)].queue : k = 1
    BY <1>2 DEF StartedAs
  <2> QED
    BY <1>1, <1>2, <1>3, <1>4, <2>1 DEF StartedAs, Queues, Pending, SharedThread
<1>7. Attempts'
  BY <1>1, <1>2, <1>3 DEF StartedAs, Core, Attempts, Pending
<1>8. Calm'
  BY <1>2, <1>3 DEF StartedAs, Calm, Jobs
<1>9. PoolThreads'
  BY <1>3 DEF PoolThreads
<1>10. Controller'
  <2>1. ASSUME NEW job \in Jobs' PROVE job.run \notin {"sharedReady", "verifyShared"}
    <3>1. job \in Jobs /\ WellFormed(job)
      BY <1>0, <1>2 DEF StartedAs, Jobs, Types
    <3> QED
      BY <1>1, <1>3, <3>1 DEF WellFormed, Core, Controller, Awaits
  <2>2. Once("sharedReady")' /\ Once("verifyShared")'
    BY <1>2, <1>3 DEF StartedAs, Core, Controller, Once
  <2>3. ASSUME NEW b \in Attempt, NEW k \in DOMAIN init'[b].awaiting
        PROVE  init'[b].awaiting[k].run = IF k = 1 THEN "verifyShared" ELSE "joinShared"
    BY <1>2, <1>3 DEF StartedAs, Core, Controller
  <2>4. \A t \in Thread : thread'[t].alive => t = SharedThread(a)
    BY <1>1, <1>2, <1>4 DEF StartedAs
  <2> QED
    BY <1>3, <2>1, <2>2, <2>3, <2>4 DEF Controller, SharedThread
<1> QED
  BY <1>5, <1>6, <1>7, <1>8, <1>9, <1>10 DEF Core

\* Every way through ensureTier before its first await leaves the invariant true.
LEMMA EnsureTierStep ==
    ASSUME Core, NEW c \in Caller, NEW requested \in Tiers \union {"auto"}, EnsureTier(c, requested)
    PROVE  Core'
<1>0. Types
  BY DEF Core
<1>1. SUFFICES ASSUME Activating(c, requested) PROVE Core'
  BY DEF EnsureTier, RefuseTier, ReuseSingle, RefuseImage, ReusePool, JoinPool, StartPool,
         JoinShared, StartShared, Activate
<1>2. /\ turn \/ jobs = <<>>
      /\ c = Boot \/ phase = "open"
      /\ ~Closing /\ Calm
  BY <1>1, Activation
<1>3. /\ "switch" \in Ops \ {"idle"} /\ Tiers \subseteq Outcomes /\ "refused" \in Outcomes
      /\ "single" \in Tiers /\ "worker" \in Tiers /\ "shared" \in Tiers /\ 2 \in 1 .. 5
  BY DEF Ops, Tiers, Outcomes
<1>4. ASSUME UNCHANGED init PROVE SameInit
  BY <1>0, <1>4 DEF SameInit, Types
\* A caller that learns the outcome at once.
<1>5. ASSUME NEW tier \in Tiers, NEW r \in Outcomes, Calling(c, "switch", tier),
             Queue(<<Answer(c, 2, r)>>),
             UNCHANGED <<phase, capabilities, tiers, started, init, thread, closing>>
      PROVE  Core'
  <2>1. /\ Answer(c, 2, r) \in JobType /\ WellFormed(Answer(c, 2, r))
        /\ Answer(c, 2, r).run \in Plain
    BY <1>3, AnswerJob DEF Plain
  <2> QED
    BY <1>2, <1>3, <1>4, <1>5, <2>1, Replies
<1>6. CASE RefuseTier(c, requested)
  BY <1>3, <1>5, <1>6 DEF RefuseTier, session, options
<1>7. CASE ReuseSingle(c, requested)
  BY <1>3, <1>5, <1>7 DEF ReuseSingle, session, options
<1>8. CASE RefuseImage(c, requested)
  BY <1>3, <1>5, <1>8 DEF RefuseImage, session, options
<1>9. CASE ReusePool(c, requested)
  BY <1>3, <1>5, <1>9 DEF ReusePool, Activate, options
<1>10. CASE JoinPool(c, requested)
  <2>1. /\ workerPool = 0 /\ workerInitialization # 0 /\ Calling(c, "switch", "worker")
        /\ Await(workerInitialization, c, "adoptPool")
        /\ UNCHANGED <<phase, capabilities, tiers, started, thread, closing>>
    BY <1>10 DEF JoinPool, Activate, options
  <2>2. workerInitialization \in Attempt /\ Pending(workerInitialization) /\ WorkerAvailable
    BY <1>0, <1>2, <2>1, AttemptOf DEF Core, Attempts, Calm
  <2>3. /\ init' = [init EXCEPT ![workerInitialization].awaiting = Append(@, [run |-> "adoptPool", who |-> c])]
        /\ jobs' = jobs
    BY <2>1, <2>2 DEF Await, Pending
  <2>4. /\ call' \in [Caller -> [op: Ops, tier: Tiers]] /\ turn' \in BOOLEAN /\ Booting'
    BY <1>0, <1>2, <1>3, <2>1, Calls
  <2> QED
    BY <1>2, <2>1, <2>2, <2>3, <2>4, Joins
<1>11. CASE StartPool(c, requested)
  <2>1. PICK a : a = started + 1
    OBVIOUS
  <2>2. /\ workerPool = 0 /\ workerInitialization = 0 /\ Calling(c, "switch", "worker")
        /\ SelectTier(requested) = "worker"
        /\ StartAttempt(c, a, "adoptPool", Threads(a)) /\ workerInitialization' = a
        /\ UNCHANGED <<phase, capabilities, workerPool, sharedController, sharedInitialization, closing>>
    BY <1>11, <2>1 DEF StartPool, Activate, options
  <2>3. /\ call' \in [Caller -> [op: Ops, tier: Tiers]] /\ turn' \in BOOLEAN /\ Booting'
    BY <1>0, <1>2, <1>3, <2>2, Calls
  <2>4. WorkerAvailable
    BY <2>2, TiersExclude
  <2> QED
    BY <1>2, <2>2, <2>3, <2>4, StartsPool
<1>12. CASE JoinShared(c, requested)
  <2>1. /\ sharedInitialization # 0 /\ Calling(c, "switch", "shared")
        /\ Await(sharedInitialization, c, "joinShared")
        /\ UNCHANGED <<phase, capabilities, tiers, started, thread, closing>>
    BY <1>0, <1>12 DEF JoinShared, Activate, options, Core, Attempts
  <2>2. PICK a \in Attempt : a = sharedInitialization
    BY <1>0, <2>1, AttemptOf
  <2>3. ~WorkerAvailable /\ init[a].promise # "none" /\ init[a] \in InitType
    BY <1>0, <2>1, <2>2, TiersExclude DEF Core, Attempts, Types
  <2>4. CASE Pending(a)
    <3>1. /\ init' = [init EXCEPT ![a].awaiting = Append(@, [run |-> "joinShared", who |-> c])]
          /\ jobs' = jobs
      BY <2>1, <2>2, <2>4 DEF Await, Pending
    <3>2. /\ call' \in [Caller -> [op: Ops, tier: Tiers]] /\ turn' \in BOOLEAN /\ Booting'
      BY <1>0, <1>2, <1>3, <2>1, Calls
    <3> QED
      BY <1>2, <2>1, <2>3, <2>4, <3>1, <3>2, Joins
  <2>5. CASE ~Pending(a)
    <3>1. PICK job : job = Awaited("joinShared", c, a, init[a].promise)
      OBVIOUS
    <3>2. init[a].promise \in {"ok", "failed"}
      BY <2>3, <2>5 DEF InitType, Pending
    <3>3. job \in JobType /\ WellFormed(job) /\ job.run \in Plain
      BY <3>1, <3>2, AwaitedJob DEF Awaits, Plain
    <3>4. Queue(<<job>>) /\ UNCHANGED init
      BY <2>1, <2>2, <2>5, <3>1 DEF Await, Pending
    <3> QED
      BY <1>2, <1>3, <1>4, <2>1, <3>3, <3>4, Replies
  <2> QED
    BY <2>4, <2>5
<1>13. CASE StartShared(c, requested)
  <2>1. PICK a : a = started + 1
    OBVIOUS
  <2>2. /\ sharedController = 0 /\ Calling(c, "switch", "shared")
        /\ SelectTier(requested) = "shared"
        /\ StartAttempt(c, a, "verifyShared", {SharedThread(a)})
        /\ sharedController' = a /\ sharedInitialization' = a
        /\ UNCHANGED <<phase, capabilities, workerPool, workerInitialization, closing>>
    BY <1>0, <1>13, <2>1 DEF StartShared, Activate, options, Core, Attempts
  <2>3. /\ call' \in [Caller -> [op: Ops, tier: Tiers]] /\ turn' \in BOOLEAN /\ Booting'
    BY <1>0, <1>2, <1>3, <2>2, Calls
  <2>4. SharedAvailable
    BY <2>2, TiersExclude
  <2> QED
    BY <1>2, <2>2, <2>3, <2>4, StartsShared
<1> QED
  BY <1>6, <1>7, <1>8, <1>9, <1>10, <1>11, <1>12, <1>13 DEF EnsureTier

---------------------------------------------------------------------------
\* The other calls of a client

\* An encode is posted to thread t of the tier.
LEMMA Posts ==
    ASSUME Core, Calm, NEW c \in Slot, NEW t \in Thread, thread[t].failure = "none",
           IF WorkerAvailable THEN t[1] = workerPool ELSE t = SharedThread(sharedController),
           SameInit, thread' = [thread EXCEPT ![t].queue = Append(@, c)],
           UNCHANGED <<capabilities, tiers, started, jobs, closing>>,
           Booting', turn' \in BOOLEAN, call' \in [Caller -> [op: Ops, tier: Tiers]]
    PROVE  Core'
<1> DEFINE q == thread[t].queue
<1>0. Types /\ q \in Seq(Rpc) /\ c \in Rpc /\ c # Init0
  BY SlotAssumption DEF Core, Types, ThreadType, Rpc
<1> HIDE DEF q
<1>1. /\ Append(q, c) \in Seq(Rpc) /\ Len(q) \in Nat
      /\ DOMAIN q = 1 .. Len(q) /\ DOMAIN Append(q, c) = 1 .. Len(q) + 1
      /\ Append(q, c)[Len(q) + 1] = c /\ \A k \in DOMAIN q : Append(q, c)[k] = q[k]
  BY <1>0
<1>2. /\ thread' \in [Thread -> ThreadType] /\ thread'[t].queue = Append(q, c)
      /\ thread'[t].failure = "none" /\ thread'[t].model = thread[t].model
      /\ thread'[t].alive = thread[t].alive
      /\ \A u \in Thread : u # t => thread'[u] = thread[u]
  <2>1. thread \in [Thread -> ThreadType] /\ thread[t] \in ThreadType
    BY <1>0 DEF Types
  <2>2. thread' = [thread EXCEPT ![t] = [thread[t] EXCEPT !.queue = Append(q, c)]]
    BY DEF q
  <2>3. [thread[t] EXCEPT !.queue = Append(q, c)] \in ThreadType
    BY <1>1, <2>1 DEF ThreadType
  <2>4. thread' \in [Thread -> ThreadType] /\ \A u \in Thread : u # t => thread'[u] = thread[u]
    BY <2>1, <2>2, <2>3, Zenon
  <2>5. thread'[t] = [thread[t] EXCEPT !.queue = Append(q, c)]
    BY <2>1, <2>2, Zenon
  <2> QED
    BY <2>1, <2>4, <2>5 DEF ThreadType
<1>3. /\ WorkerAvailable' = WorkerAvailable /\ SharedAvailable' = SharedAvailable
      /\ workerPool' = workerPool /\ workerInitialization' = workerInitialization
      /\ sharedController' = sharedController /\ sharedInitialization' = sharedInitialization
      /\ jobs' = jobs /\ Jobs' = Jobs
  BY DEF tiers, WorkerAvailable, SharedAvailable, Jobs
<1>4. /\ \A a \in Attempt : Pending(a)' <=> Pending(a)
      /\ \A u \in Thread : thread'[u].model = thread[u].model /\ thread'[u].alive = thread[u].alive
  BY <1>2 DEF SameInit, Pending
<1>5. /\ workerPool # 0 => workerPool \in Attempt
      /\ workerInitialization # 0 => workerInitialization \in Attempt
      /\ sharedController # 0 => sharedController \in Attempt
      /\ sharedInitialization # 0 => sharedInitialization \in Attempt
      /\ \A u \in Thread : u[1] \in Attempt
      /\ \A a \in Attempt : Threads(a) \subseteq Thread /\ SharedThread(a) \in Threads(a)
      /\ 0 \notin Attempt
      /\ \A a \in Attempt : \A u \in Threads(a) : u[1] = a
  BY <1>0, AttemptOf DEF Threads
<1>6. Types'
  BY <1>0, <1>2, <1>3 DEF Types, SameInit
<1>7. Queues'
  <2>1. ASSUME NEW k \in DOMAIN Append(q, c), Append(q, c)[k] = Init0
        PROVE  /\ k = 1 /\ Pending(t[1]) /\ thread[t].model = "none" /\ ~WorkerAvailable
    <3>1. k \in DOMAIN q /\ q[k] = Init0
      BY <1>0, <1>1, <2>1
    <3>2. k = 1 /\ Pending(t[1]) /\ thread[t].model = "none"
      BY <3>1 DEF q, Core, Queues
    <3> QED
      BY <1>5, <3>2 DEF Core, Attempts, Pending
  <2> QED
    BY <1>2, <1>3, <1>4, <1>5, <2>1, SMTT(30) DEF Core, Queues, SharedThread
<1>8. Attempts'
  BY <1>3, <1>4, <1>5 DEF Core, Attempts, SameInit
<1>9. Calm'
  BY <1>3, <1>4, <1>5 DEF Calm
<1>10. PoolThreads'
  <2> SUFFICES ASSUME WorkerAvailable PROVE PoolThreads'
    BY <1>3 DEF PoolThreads
  <2>1. t[1] = workerPool /\ init[t[1]].promise = "ok"
    BY <1>5 DEF Core, Attempts
  <2>2. ASSUME NEW a \in Attempt, init[a].promise = "failed" PROVE Dead(a)'
    <3>1. Dead(a) /\ a # t[1]
      BY <2>1, <2>2 DEF Core, PoolThreads
    <3> QED
      BY <1>2, <1>5, <3>1 DEF Dead
  <2>3. \A a \in Attempt : Foreign(Threads(a))' = Foreign(Threads(a))
    BY <1>4, <1>5 DEF Foreign
  <2> QED
    BY <1>3, <1>4, <2>2, <2>3 DEF Core, PoolThreads, SameInit
<1>11. Controller'
  <2> SUFFICES ASSUME ~WorkerAvailable PROVE Controller'
    BY <1>3 DEF Controller
  <2>1. \A job \in Jobs : /\ job.run = "sharedReady" => job.who \in Attempt
                          /\ job.run = "verifyShared" => job.attempt \in Attempt
    BY <1>0 DEF Types, WellFormed, Awaits
  <2>2. ASSUME \A j \in DOMAIN q : q[j] # Init0
        PROVE  \A j \in DOMAIN Append(q, c) : Append(q, c)[j] # Init0
    BY <1>0, <1>1, <2>2
  <2>3. \A job \in Jobs : job.run = "sharedReady" =>
             /\ job.who = sharedController /\ Pending(sharedController)'
             /\ \A j \in DOMAIN thread'[SharedThread(sharedController)].queue :
                   thread'[SharedThread(sharedController)].queue[j] # Init0
    BY <1>2, <1>3, <1>4, <2>1, <2>2, SMTT(30) DEF Core, Controller, q, Pending
  <2>4. \A job \in Jobs : job.run = "verifyShared" => job.attempt = sharedController /\ ~Pending(sharedController)'
    BY <1>3, <1>4, <2>1 DEF Core, Controller, Pending
  <2>5. Once("sharedReady")' /\ Once("verifyShared")'
    BY <1>3 DEF Core, Controller, Once
  <2>6. \A u \in Thread : thread'[u].alive => u = SharedThread(sharedController)
    BY <1>4 DEF Core, Controller
  <2>7. \A a \in Attempt : \A k \in DOMAIN init'[a].awaiting :
             init'[a].awaiting[k].run = IF k = 1 THEN "verifyShared" ELSE "joinShared"
    BY DEF Core, Controller, SameInit
  <2> QED
    BY <1>3, <2>3, <2>4, <2>5, <2>6, <2>7 DEF Controller, SharedThread
<1> QED
  BY <1>6, <1>7, <1>8, <1>9, <1>10, <1>11 DEF Core

\* So does every call of a client: switchTier, encode, encodeDetailed and close.
LEMMA ClientStep ==
    ASSUME Core, NEW c \in Slot, Client(c)
    PROVE  Core'
<1>0. Types /\ c \in Caller
  BY DEF Core, Caller
<1>1. CASE \E requested \in Tiers \union {"auto"} : EnsureTier(c, requested)
  BY <1>0, <1>1, EnsureTierStep
<1>2. SUFFICES ASSUME OnClientTurn(c) PROVE Core'
  BY <1>1 DEF Client, Encode, Encoding, RefuseEncode, EncodeResident, EncodeOnPool,
              EncodeOnController, EncodeWithoutController, CloseAgain, Close
<1>3. /\ turn \/ jobs = <<>>
      /\ ~Closing /\ phase = "open"
  BY <1>2 DEF OnClientTurn, Closing
<1>4. Calm
  BY <1>3, WhenCalm
<1>5. /\ {"close", "encode", "detailed"} \subseteq Ops \ {"idle"}
      /\ {"rejected", "done", "trap", "exact", "error"} \subseteq Outcomes
      /\ {"single", "worker", "shared"} \subseteq Tiers
      /\ {1, 3, 5} \subseteq 1 .. 5
  BY DEF Ops, Tiers, Outcomes
<1>6. ASSUME UNCHANGED init PROVE SameInit
  BY <1>0, <1>6 DEF SameInit, Types
\* A call that is answered or passed on at once.
<1>7. ASSUME NEW op \in Ops \ {"idle"}, NEW tier \in Tiers, NEW job \in JobType, WellFormed(job),
             job.run \in Plain, Calling(c, op, tier), Queue(<<job>>), SameInit,
             UNCHANGED <<phase, capabilities, tiers, started, thread, closing>>
      PROVE  Core'
  BY <1>0, <1>3, <1>7, Replies
<1>8. CASE CloseAgain(c)
  <2>1. PICK job : job = Answer(c, 1, "done")
    OBVIOUS
  <2>2. job \in JobType /\ WellFormed(job) /\ job.run \in Plain
    BY <1>0, <1>5, <2>1, AnswerJob DEF Plain
  <2>3. /\ Calling(c, "close", "single") /\ Queue(<<job>>) /\ UNCHANGED init
        /\ UNCHANGED <<phase, capabilities, tiers, started, thread, closing>>
    BY <1>8, <2>1 DEF CloseAgain, session, options
  <2> QED
    BY <1>5, <1>6, <1>7, <2>2, <2>3
<1>9. CASE Close(c)
  <2>1. /\ Calling(c, "close", "single") /\ UNCHANGED init
        /\ UNCHANGED <<phase, capabilities, tiers, started, thread>>
    BY <1>9 DEF Close, options
  <2>2. CASE workerPool = 0
    <3>1. PICK job : job = Job("poolClosed", c, 1, "done")
      OBVIOUS
    <3>2. job \in JobType /\ WellFormed(job) /\ job.run \in Plain
      BY <1>0, <1>5, <3>1, CloseJob DEF Plain
    <3>3. Queue(<<job>>) /\ UNCHANGED closing
      BY <1>9, <2>2, <3>1 DEF Close
    <3> QED
      BY <1>5, <1>6, <1>7, <2>1, <3>2, <3>3
  <2>3. CASE workerPool # 0
    <3>1. closing' = [who |-> c, worker |-> 1] /\ UNCHANGED jobs
      BY <1>9, <2>3 DEF Close
    <3>2. /\ call' \in [Caller -> [op: Ops, tier: Tiers]] /\ turn' = TRUE /\ Booting'
      BY <1>0, <1>3, <1>5, <2>1, Calls
    <3>3. Types'
      BY <1>0, <2>1, <3>1, <3>2, BoundAssumption DEF Types, tiers, Jobs
    <3>4. SameInit /\ Jobs' = Jobs
      BY <1>6, <2>1, <3>1 DEF Jobs
    <3>5. ASSUME NEW run PROVE Once(run)' <=> Once(run)
      BY <3>1 DEF Once
    <3>6. Queues' /\ Attempts' /\ Calm' /\ PoolThreads' /\ Controller'
      BY <1>4, <2>1, <3>4, <3>5, PlainStep
    <3> QED
      BY <3>2, <3>3, <3>6 DEF Core
  <2> QED
    BY <2>2, <2>3
<1>10. ASSUME NEW op \in EncodeOps, Encode(c, op) PROVE Core'
  <2>0. op \in {"encode", "detailed"} /\ op \in Ops \ {"idle"}
    BY <1>10 DEF EncodeOps, Ops
  <2>1. CASE \E tier \in Tiers : RefuseEncode(c, op, tier)
    <3>1. PICK tier \in Tiers : RefuseEncode(c, op, tier)
      BY <2>1
    <3>2. PICK n \in 1 .. 5 : n = IF op = "detailed" THEN 1 ELSE 3
      BY <1>5
    <3>3. PICK job : job = Answer(c, n, "rejected")
      OBVIOUS
    <3>4. job \in JobType /\ WellFormed(job) /\ job.run \in Plain
      BY <1>0, <1>5, <3>3, AnswerJob DEF Plain
    <3>5. /\ Calling(c, op, tier) /\ Queue(<<job>>) /\ UNCHANGED init
          /\ UNCHANGED <<phase, capabilities, tiers, started, thread, closing>>
      BY <3>1, <3>2, <3>3 DEF RefuseEncode, Encoding, session, options
    <3> QED
      BY <1>6, <1>7, <2>0, <3>4, <3>5
  <2>2. ASSUME NEW tier \in Tiers, NEW r \in Outcomes, Calling(c, op, tier),
               Queue(<<Encoded(c, op, 3, r)>>), UNCHANGED init,
               UNCHANGED <<phase, capabilities, tiers, started, thread, closing>>
        PROVE  Core'
    <3>1. PICK job : job = Encoded(c, op, 3, r)
      OBVIOUS
    <3>2. job \in JobType /\ WellFormed(job) /\ job.run = IF op = "detailed" THEN "detailed" ELSE "client"
      BY <3>1, EncodedJob
    <3>3. job.run \in Plain
      BY <3>2 DEF Plain
    <3> QED
      BY <1>6, <1>7, <2>0, <2>2, <3>1, <3>2, <3>3
  <2>3. ResidentIds \in Outcomes
    BY <1>5 DEF ResidentIds
  <2>4. CASE \E tier \in Tiers : EncodeResident(c, op, tier)
    BY <2>2, <2>3, <2>4 DEF EncodeResident, Encoding, session, options
  <2>5. CASE EncodeWithoutController(c, op)
    BY <1>5, <2>2, <2>3, <2>5 DEF EncodeWithoutController, Encoding, session, options
  <2>6. ASSUME NEW tier \in Tiers, NEW t \in Thread, Calling(c, op, tier), Post(c, t, tier), SameInit,
               IF WorkerAvailable THEN t[1] = workerPool ELSE t = SharedThread(sharedController),
               UNCHANGED <<phase, capabilities, tiers, started, closing>>
        PROVE  Core'
    <3>1. CASE thread[t].failure = "none"
      <4>1. thread' = [thread EXCEPT ![t].queue = Append(@, c)] /\ UNCHANGED jobs
        BY <2>6, <3>1 DEF Post
      <4>2. /\ call' \in [Caller -> [op: Ops, tier: Tiers]] /\ turn' = TRUE /\ Booting'
        BY <1>0, <1>3, <2>0, <2>6, Calls
      <4> QED
        BY <1>4, <2>6, <3>1, <4>1, <4>2, Posts
    <3>2. CASE thread[t].failure # "none"
      <4>1. PICK job : job = EncodeReaction(c, tier, "error")
        OBVIOUS
      <4>2. job \in JobType /\ WellFormed(job) /\ job.run \in Plain
        BY <1>5, <4>1, ReactionJob DEF Plain
      <4>3. Queue(<<job>>) /\ UNCHANGED thread
        BY <2>6, <3>2, <4>1 DEF Post
      <4> QED
        BY <1>7, <2>0, <2>6, <4>2, <4>3
    <3> QED
      BY <3>1, <3>2
  <2>7. CASE EncodeOnPool(c, op)
    <3>1. /\ workerPool # 0 /\ Calling(c, op, "worker")
          /\ Post(c, <<workerPool, init[workerPool].nextWorker>>, "worker")
          /\ init' = [init EXCEPT ![workerPool].nextWorker = (@ % WorkerCount) + 1]
          /\ UNCHANGED <<phase, capabilities, tiers, started, closing>>
      BY <2>7 DEF EncodeOnPool, Encoding, session, options
    <3>2. PICK a \in Attempt : a = workerPool
      BY <1>0, <3>1, AttemptOf
    <3>3. init \in [Attempt -> InitType] /\ init[a] \in InitType /\ init[a].nextWorker \in 1 .. WorkerCount
      BY <1>0 DEF Types, InitType
    <3>4. PICK t \in Thread : t = <<workerPool, init[workerPool].nextWorker>> /\ t[1] = workerPool
      <4>1. <<a, init[a].nextWorker>> \in Thread
        BY <3>3 DEF Thread
      <4> QED
        BY <3>2, <4>1
    <3>5. (init[a].nextWorker % WorkerCount) + 1 \in 1 .. WorkerCount
      BY <3>3, BoundAssumption
    <3>6. SameInit
      <4> DEFINE n == (init[a].nextWorker % WorkerCount) + 1
      <4>1. n \in 1 .. WorkerCount
        BY <3>5
      <4>2. init' = [init EXCEPT ![a] = [init[a] EXCEPT !.nextWorker = n]]
        BY <3>1, <3>2
      <4> HIDE DEF n
      <4>3. [init[a] EXCEPT !.nextWorker = n] \in InitType
        BY <3>3, <4>1 DEF InitType
      <4> QED
        BY <3>3, <4>2, <4>3 DEF SameInit, InitType
    <3>7. WorkerAvailable
      BY <1>0, <3>1, <3>2, AttemptOf DEF Core, Attempts
    <3> QED
      BY <1>5, <2>6, <3>1, <3>4, <3>6, <3>7
  <2>8. CASE EncodeOnController(c, op)
    <3>1. /\ sharedController # 0 /\ Calling(c, op, "shared")
          /\ Post(c, SharedThread(sharedController), "shared") /\ UNCHANGED init
          /\ UNCHANGED <<phase, capabilities, tiers, started, closing>>
      BY <2>8 DEF EncodeOnController, Encoding, session, options
    <3>2. PICK t \in Thread : t = SharedThread(sharedController)
      BY <1>0, <3>1, AttemptOf
    <3>3. ~WorkerAvailable
      BY <3>1, TiersExclude DEF Core, Attempts
    <3> QED
      BY <1>5, <1>6, <2>6, <3>1, <3>2, <3>3
  <2> QED
    BY <1>10, <2>1, <2>4, <2>5, <2>7, <2>8 DEF Encode
<1> QED
  BY <1>1, <1>8, <1>9, <1>10 DEF Client

---------------------------------------------------------------------------
\* The jobs

\* The job that runs is the first of the queue and well-formed.
LEMMA HeadJob ==
    ASSUME Types, jobs # <<>>
    PROVE  /\ Head(jobs) \in JobType /\ WellFormed(Head(jobs)) /\ Head(jobs) \in Jobs
           /\ Head(jobs) = jobs[1] /\ 1 \in DOMAIN jobs
<1>1. jobs \in Seq(JobType) /\ Len(jobs) \in Nat \ {0} /\ DOMAIN jobs = 1 .. Len(jobs)
  BY DEF Types
<1>2. Head(jobs) = jobs[1] /\ 1 \in DOMAIN jobs /\ jobs[1] \in JobType
  BY <1>1
<1> QED
  BY <1>2 DEF Types, Jobs

\* An ordinary job that queues one.
LEMMA ProceedsWith ==
    ASSUME Core, jobs # <<>>, ~Closing, Head(jobs).run \notin Chain,
           NEW job \in JobType, WellFormed(job), job.run \in Plain, Resume(<<job>>),
           UNCHANGED <<capabilities, tiers, started, init, thread, closing>>,
           turn' \in BOOLEAN, call' \in [Caller -> [op: Ops, tier: Tiers]],
           phase' = "booting" => phase = "booting" /\ (call'[Boot] = call[Boot] \/ call'[Boot].op # "idle")
    PROVE  Core'
<1>1. <<job>> \in Seq(JobType) /\ DOMAIN <<job>> = 1 .. 1 /\ <<job>>[1] = job
  OBVIOUS
<1>2. \A k \in DOMAIN <<job>> : WellFormed(<<job>>[k]) /\ <<job>>[k].run \in Plain
  BY <1>1
<1> QED
  BY <1>1, <1>2, Proceeds

\* A reaction before the one that matters changes nothing but the queue's order.
LEMMA TickStep ==
    ASSUME Core, Tick
    PROVE  Core'
<1>0. Types /\ jobs # <<>> /\ ~Closing
  BY DEF Core, Tick, Closing
<1>1. /\ Head(jobs) \in JobType /\ WellFormed(Head(jobs)) /\ Head(jobs) \in Jobs
      /\ Head(jobs) = jobs[1] /\ 1 \in DOMAIN jobs
  BY <1>0, HeadJob
<1>2. PICK job : job = [Head(jobs) EXCEPT !.ticks = @ - 1]
  OBVIOUS
<1>3. Head(jobs).ticks \in 1 .. 5 /\ Head(jobs).ticks > 1
  BY <1>1 DEF JobType, Tick
<1>4. Head(jobs).ticks - 1 \in 1 .. 5
  BY <1>3
<1>5. /\ job \in JobType /\ job.run = Head(jobs).run /\ job.who = Head(jobs).who
      /\ job.with = Head(jobs).with
      /\ Head(jobs).run \in Plain \union {"poolReady", "poolFailed"}
      /\ Head(jobs).run # "joinShared"
  BY <1>1, <1>2, <1>3, <1>4 DEF JobType, WellFormed, JobRuns, Chain, Awaits
<1>6. WellFormed(job)
  BY <1>1, <1>5 DEF WellFormed, Awaits, Plain
<1>7. /\ turn' = FALSE /\ Resume(<<job>>)
      /\ UNCHANGED <<phase, capabilities, tiers, started, init, thread, call, closing>>
  BY <1>2 DEF Tick, session, options
<1>8. CASE Head(jobs).run \in Plain
  <2>1. Head(jobs).run \notin Chain
    BY <1>8 DEF Plain, Chain
  <2>2. turn' \in BOOLEAN /\ call' \in [Caller -> [op: Ops, tier: Tiers]]
    BY <1>0, <1>7 DEF Types
  <2>3. phase' = "booting" => phase = "booting" /\ (call'[Boot] = call[Boot] \/ call'[Boot].op # "idle")
    BY <1>7
  <2>4. job.run \in Plain
    BY <1>5, <1>8
  <2>5. UNCHANGED <<capabilities, tiers, started, init, thread, closing>>
    BY <1>7
  <2> QED
    BY <1>0, <1>6, <1>5, <1>7, <2>1, <2>2, <2>3, <2>4, <2>5, ProceedsWith
<1>9. CASE Head(jobs).run \in {"poolReady", "poolFailed"}
  <2>1. Coming
    BY <1>1, <1>9 DEF Core, Calm, Adopting, Chain
  <2>2. /\ jobs' \in Seq(JobType) /\ \A i \in Jobs' : WellFormed(i)
        /\ Len(jobs') = Len(jobs) /\ jobs'[Len(jobs)] = job
    BY <1>0, <1>5, <1>6, <1>7, ResumedOne
  <2>3. Len(jobs') = 1 /\ jobs'[1] = job
    BY <2>1, <2>2 DEF Coming
  <2>4. /\ WorkerAvailable' = WorkerAvailable /\ SharedAvailable' = SharedAvailable
        /\ workerPool' = workerPool /\ workerInitialization' = workerInitialization
        /\ sharedController' = sharedController /\ sharedInitialization' = sharedInitialization
        /\ thread' = thread /\ init' = init /\ closing' = closing /\ ~Closing'
    BY <1>0, <1>7 DEF tiers, WorkerAvailable, SharedAvailable, Closing
  <2>5. Types'
    BY <1>0, <1>7, <2>2 DEF Types, tiers
  <2>6. Booting'
    BY <1>0, <1>7, IsAwake, StaysAwake
  <2>7. Queues' /\ Attempts'
    BY <2>4 DEF Core, Queues, Attempts, Pending, SharedThread
  <2>8. Coming'
    BY <1>1, <1>5, <1>7, <2>1, <2>3, <2>4 DEF Coming, Pending, Dead
  <2>9. \A i \in Jobs' : i = job
    BY <2>2, <2>3 DEF Jobs
  <2>10. PoolThreads'
    BY <1>5, <1>9, <2>4, <2>9 DEF Core, PoolThreads, Dead, Foreign, Plain
  <2>11. Controller'
    BY <2>1, <2>4 DEF Coming, Controller
  <2> QED
    BY <2>5, <2>6, <2>7, <2>8, <2>10, <2>11 DEF Core
<1> QED
  BY <1>5, <1>8, <1>9

\* The jobs that are answered, passed on or end without touching a tier, a thread or a promise.
PlainJobs ==
    \/ ClientResumes \/ VerifyShared \/ JoinedShared
    \/ Booted \/ BootRefused \/ BootClosed
    \/ FreeSingle \/ EncodeResumes \/ DetailedResumes

\* The continuations of boot, close, encode and encodeDetailed leave the invariant true.
LEMMA PlainJobStep ==
    ASSUME Core, PlainJobs
    PROVE  Core'
<1>0. Types /\ jobs # <<>> /\ ~Closing
  BY DEF Core, PlainJobs, ClientResumes, VerifyShared, JoinedShared, Booted, BootRefused, BootClosed,
         FreeSingle, EncodeResumes, DetailedResumes, Runs, Closing
<1>1. Head(jobs) \in JobType /\ WellFormed(Head(jobs))
  BY <1>0, HeadJob
<1>2. {"rejected", "done", "trap", "exact", "error", "refused", "shared", "single"} \subseteq Outcomes
      /\ {1, 2, 3} \subseteq 1 .. 5 /\ {"close"} \subseteq Ops
  BY DEF Outcomes, Tiers, Ops
<1>3. /\ Boot \in Caller /\ IdleCall \in [op: Ops, tier: Tiers]
      /\ call \in [Caller -> [op: Ops, tier: Tiers]]
  BY <1>0 DEF Caller, IdleCall, Ops, Tiers, Types
<1>4. Head(jobs).with \in Outcomes
  BY <1>1 DEF JobType
\* One that queues a reaction.
<1>5. ASSUME NEW job \in JobType, WellFormed(job), job.run \in Plain, Resume(<<job>>),
             Head(jobs).run \notin Chain,
             UNCHANGED <<phase, capabilities, tiers, started, init, thread, call, closing>>,
             turn' = FALSE
      PROVE  Core'
  <2>1. turn' \in BOOLEAN /\ call' \in [Caller -> [op: Ops, tier: Tiers]]
        /\ (phase' = "booting" => phase = "booting" /\ (call'[Boot] = call[Boot] \/ call'[Boot].op # "idle"))
        /\ UNCHANGED <<capabilities, tiers, started, init, thread, closing>>
    BY <1>3, <1>5
  <2> QED
    BY <1>0, <1>5, <2>1, ProceedsWith
\* One that ends.
<1>6. ASSUME Resume(<<>>), Head(jobs).run \notin Chain, turn' \in BOOLEAN,
             call' \in [Caller -> [op: Ops, tier: Tiers]],
             phase' = "booting" => phase = "booting" /\ (call'[Boot] = call[Boot] \/ call'[Boot].op # "idle"),
             UNCHANGED <<capabilities, tiers, started, init, thread, closing>>
      PROVE  Core'
  <2>0. <<>> \in Seq(JobType)
    OBVIOUS
  <2>1. PICK js \in Seq(JobType) : js = <<>>
    BY <2>0
  <2>2. \A k \in DOMAIN js : WellFormed(js[k]) /\ js[k].run \in Plain
    BY <2>1
  <2> QED
    BY <1>0, <1>6, <2>1, <2>2, Proceeds
<1>7. CASE ClientResumes
  <2>1. Head(jobs).run = "client" /\ Head(jobs).who \in Slot
    BY <1>1, <1>7 DEF ClientResumes, WellFormed, Awaits
  <2>2. Head(jobs).who # Boot
    BY <2>1, SlotAssumption
  <2>3. /\ Resume(<<>>) /\ turn' = TRUE /\ call' = [call EXCEPT ![Head(jobs).who] = IdleCall]
        /\ UNCHANGED <<phase, capabilities, tiers, started, init, thread, closing>>
    BY <1>7 DEF ClientResumes, session, options
  <2>4. call' \in [Caller -> [op: Ops, tier: Tiers]] /\ call'[Boot] = call[Boot]
    BY <1>3, <2>2, <2>3
  <2> QED
    BY <1>6, <2>1, <2>3, <2>4 DEF Chain
<1>8. CASE VerifyShared \/ JoinedShared \/ FreeSingle \/ DetailedResumes
  <2>1. \E c \in Caller, n \in {1, 2}, r \in Outcomes : Resume(<<Answer(c, n, r)>>)
    BY <1>1, <1>2, <1>4, <1>8
       DEF VerifyShared, JoinedShared, FreeSingle, DetailedResumes, Runs, WellFormed
  <2>2. PICK c \in Caller, n \in {1, 2}, r \in Outcomes : Resume(<<Answer(c, n, r)>>)
    BY <2>1
  <2>3. PICK job : job = Answer(c, n, r)
    OBVIOUS
  <2>4. job \in JobType /\ WellFormed(job) /\ job.run \in Plain
    BY <1>2, <2>3, AnswerJob DEF Plain
  <2>5. /\ UNCHANGED <<phase, capabilities, tiers, started, init, thread, call, closing>>
        /\ turn' = FALSE /\ Head(jobs).run \notin Chain
    BY <1>8 DEF VerifyShared, JoinedShared, FreeSingle, DetailedResumes, Runs, session, options, Chain
  <2> QED
    BY <1>5, <2>2, <2>3, <2>4, <2>5
<1>9. CASE EncodeResumes
  <2>1. PICK c : c = Head(jobs).who
    OBVIOUS
  <2>2. c \in Slot /\ Head(jobs).run = "encoded"
    BY <1>1, <1>9, <2>1 DEF EncodeResumes, Runs, WellFormed
  <2>3. PICK r : r = IF Head(jobs).with # "error" THEN Head(jobs).with
                     ELSE IF closed THEN "rejected" ELSE ResidentIds
    OBVIOUS
  <2>4. r \in Outcomes
    BY <1>2, <1>4, <2>3 DEF ResidentIds
  <2>5. PICK op : op = call[c].op
    OBVIOUS
  <2>6. PICK job : job = Encoded(c, op, 2, r)
    OBVIOUS
  <2>7. job \in JobType /\ WellFormed(job) /\ job.run = IF op = "detailed" THEN "detailed" ELSE "client"
    BY <2>2, <2>4, <2>6, EncodedJob
  <2>8. Resume(<<job>>)
    BY <1>9, <2>1, <2>3, <2>5, <2>6 DEF EncodeResumes
  <2>9. /\ UNCHANGED <<phase, capabilities, tiers, started, init, thread, call, closing>>
        /\ turn' = FALSE /\ Head(jobs).run \notin Chain /\ job.run \in Plain
    BY <1>9, <2>7 DEF EncodeResumes, Runs, session, options, Chain, Plain
  <2> QED
    BY <1>5, <2>7, <2>8, <2>9
<1>10. CASE BootRefused
  <2>1. PICK job : job = Job("poolClosed", Boot, 1, "done")
    OBVIOUS
  <2>2. job \in JobType /\ WellFormed(job) /\ job.run \in Plain
    BY <1>3, <2>1, CloseJob DEF Plain
  <2>3. /\ Resume(<<job>>) /\ turn' \in BOOLEAN /\ call' = [call EXCEPT ![Boot].op = "close"]
        /\ phase' = phase /\ Head(jobs).run \notin Chain
        /\ UNCHANGED <<capabilities, tiers, started, init, thread, closing>>
    BY <1>10, <2>1 DEF BootRefused, Runs, options, Chain
  <2>4. call' \in [Caller -> [op: Ops, tier: Tiers]] /\ call'[Boot].op = "close"
    BY <1>2, <1>3, <2>3
  <2>5. phase' = "booting" => phase = "booting" /\ (call'[Boot] = call[Boot] \/ call'[Boot].op # "idle")
    BY <2>3, <2>4
  <2> QED
    BY <1>0, <2>2, <2>3, <2>4, <2>5, ProceedsWith
<1>11. CASE Booted \/ BootClosed
  <2>1. /\ Resume(<<>>) /\ turn' \in BOOLEAN /\ call' = [call EXCEPT ![Boot] = IdleCall]
        /\ phase' # "booting" /\ Head(jobs).run \notin Chain
        /\ UNCHANGED <<capabilities, tiers, started, init, thread, closing>>
    BY <1>11 DEF Booted, BootClosed, Runs, options, Chain
  <2>2. call' \in [Caller -> [op: Ops, tier: Tiers]]
    BY <1>3, <2>1
  <2> QED
    BY <1>6, <2>1, <2>2
<1> QED
  BY <1>7, <1>8, <1>9, <1>10, <1>11 DEF PlainJobs

\* What Settle leaves behind: jobs' is Tail(jobs) and js behind it.
SettledAs(a, outcome, js) ==
    /\ js \in Seq(JobType) /\ Len(js) = Len(init[a].awaiting) /\ Resume(js)
    /\ \A k \in DOMAIN js : /\ WellFormed(js[k]) /\ js[k].run = init[a].awaiting[k].run
                            /\ js[k].attempt = a /\ js[k].with = outcome
                            /\ js[k].who = init[a].awaiting[k].who
    /\ init' \in [Attempt -> InitType]
    /\ init'[a].promise = outcome /\ init'[a].awaiting = <<>>
    /\ \A b \in Attempt : b # a => init'[b] = init[b]

\* A settled promise has no awaiters left; their continuations are queued in their order.
LEMMA Settled ==
    ASSUME Types, NEW a \in Attempt, NEW outcome \in {"ok", "failed"}, Settle(a, outcome)
    PROVE  \E js : SettledAs(a, outcome, js)
<1> DEFINE q == init[a].awaiting
           js == [k \in DOMAIN q |-> Awaited(q[k].run, q[k].who, a, outcome)]
<1>1. init \in [Attempt -> InitType] /\ init[a] \in InitType /\ q \in Seq([run: Awaits, who: Caller])
  BY DEF Types, InitType
<1>2. Resume(js) /\ init' = [init EXCEPT ![a].promise = outcome, ![a].awaiting = <<>>]
  BY DEF Settle
<1> HIDE DEF q
<1>3. ASSUME NEW k \in DOMAIN q
      PROVE  /\ Awaited(q[k].run, q[k].who, a, outcome) \in JobType
             /\ WellFormed(Awaited(q[k].run, q[k].who, a, outcome))
             /\ Awaited(q[k].run, q[k].who, a, outcome).run = q[k].run
             /\ Awaited(q[k].run, q[k].who, a, outcome).attempt = a
             /\ Awaited(q[k].run, q[k].who, a, outcome).with = outcome
             /\ Awaited(q[k].run, q[k].who, a, outcome).who = q[k].who
  <2> HIDE DEF js
  <2>0. q[k] \in [run: Awaits, who: Caller]
    BY <1>1, <1>3, InSeq, Zenon
  <2>1. q[k].run \in Awaits /\ q[k].who \in Caller
    BY <2>0
  <2> QED
    BY <2>1, AwaitedJob
<1>4. js \in Seq(JobType) /\ Len(js) = Len(q) /\ DOMAIN js = DOMAIN q
  <2>1. DOMAIN q = 1 .. Len(q) /\ Len(q) \in Nat
    BY <1>1
  <2> QED
    BY <1>3, <2>1
<1>5. \A k \in DOMAIN js : /\ WellFormed(js[k]) /\ js[k].run = q[k].run
                           /\ js[k].attempt = a /\ js[k].with = outcome
                           /\ js[k].who = q[k].who
  BY <1>3, <1>4
<1>6. /\ init' \in [Attempt -> InitType]
      /\ init'[a].promise = outcome /\ init'[a].awaiting = <<>>
      /\ \A b \in Attempt : b # a => init'[b] = init[b]
  <2>1. /\ <<>> \in Seq([run: Awaits, who: Caller])
        /\ outcome \in {"none", "pending", "ok", "failed"}
    OBVIOUS
  <2> DEFINE new == [init[a] EXCEPT !.promise = outcome, !.awaiting = <<>>]
  <2>2. new \in InitType /\ new.promise = outcome /\ new.awaiting = <<>>
    BY <1>1, <2>1 DEF InitType
  <2>3. init' = [init EXCEPT ![a] = new]
    BY <1>1, <1>2
  <2> HIDE DEF new
  <2> QED
    BY <1>1, <2>2, <2>3
<1> HIDE DEF js
<1> QED
  BY <1>2, <1>4, <1>5, <1>6 DEF SettledAs, q

\* The promise of a pool settles and all that awaited it learn.
LEMMA PoolSettles ==
    ASSUME Core, Coming, NEW a \in Attempt, a = jobs[1].who, NEW outcome \in {"ok", "failed"},
           Settle(a, outcome), turn' = FALSE,
           IF outcome = "ok" THEN /\ ~Foreign(Threads(a))
                                  /\ \A t \in Threads(a) : thread[t].model # "none"
                             ELSE Dead(a),
           UNCHANGED <<phase, capabilities, tiers, started, thread, call, closing>>
    PROVE  Core'
<1>0. Types /\ jobs # <<>> /\ Len(jobs) = 1
  <2>1. Types /\ Len(jobs) = 1 /\ jobs \in Seq(JobType)
    BY DEF Core, Coming, Types
  <2> QED
    BY <2>1
<1>1. PICK js : SettledAs(a, outcome, js)
  BY <1>0, Settled
<1>2. /\ js \in Seq(JobType) /\ Len(js) = Len(init[a].awaiting) /\ Resume(js)
      /\ \A k \in DOMAIN js : /\ WellFormed(js[k]) /\ js[k].run = init[a].awaiting[k].run
                              /\ js[k].attempt = a /\ js[k].with = outcome
      /\ init' \in [Attempt -> InitType]
      /\ init'[a].promise = outcome /\ init'[a].awaiting = <<>>
      /\ \A b \in Attempt : b # a => init'[b] = init[b]
  BY <1>1 DEF SettledAs
<1>3. /\ WorkerAvailable' = WorkerAvailable /\ SharedAvailable' = SharedAvailable
      /\ workerPool' = workerPool /\ workerInitialization' = workerInitialization
      /\ sharedController' = sharedController /\ sharedInitialization' = sharedInitialization
      /\ thread' = thread /\ closing' = closing /\ ~Closing' /\ WorkerAvailable
  BY DEF tiers, WorkerAvailable, SharedAvailable, Closing, Coming
<1>4. /\ Pending(a) /\ ~SharedAvailable /\ sharedInitialization = 0 /\ sharedController = 0
      /\ workerInitialization = a /\ workerPool = 0 /\ init[a].awaiting # <<>>
      /\ \A b \in Attempt : Pending(b) => b = a
  BY <1>0, TiersExclude, AttemptOf DEF Core, Coming, Attempts, Pending
<1>5. \A b \in Attempt : ~Pending(b)'
  BY <1>2, <1>4 DEF Pending
<1>6. /\ jobs' \in Seq(JobType) /\ \A i \in Jobs' : WellFormed(i)
      /\ Len(jobs') = Len(jobs) - 1 + Len(js)
      /\ \A k \in DOMAIN jobs' :
            \/ k < Len(jobs) /\ k + 1 \in DOMAIN jobs /\ jobs'[k] = jobs[k + 1]
            \/ k >= Len(jobs) /\ k - Len(jobs) + 1 \in DOMAIN js /\ jobs'[k] = js[k - Len(jobs) + 1]
  BY <1>0, <1>2, Resumed
<1>7. /\ Len(jobs') = Len(js) /\ Len(js) \in Nat \ {0}
      /\ \A k \in DOMAIN jobs' : k \in DOMAIN js /\ jobs'[k] = js[k] /\ k \in DOMAIN init[a].awaiting
  <2>0. init[a].awaiting \in Seq([run: Awaits, who: Caller])
    BY <1>0 DEF Types, InitType
  <2>1. Len(js) \in Nat \ {0} /\ DOMAIN js = 1 .. Len(js) /\ DOMAIN init[a].awaiting = 1 .. Len(js)
    BY <1>2, <1>4, <2>0, SMTT(30)
  <2>2. Len(jobs) = 1
    BY DEF Coming
  <2>3. Len(jobs') = Len(js) /\ DOMAIN jobs' = 1 .. Len(js)
    BY <1>6, <2>1, <2>2
  <2>4. ASSUME NEW k \in DOMAIN jobs' PROVE k \in DOMAIN js /\ jobs'[k] = js[k]
    <3>1. k \in 1 .. Len(js) /\ k - 1 + 1 = k /\ ~(k < 1) /\ k \in DOMAIN js
      BY <2>1, <2>3, <2>4
    <3> QED
      BY <1>6, <2>2, <2>4, <3>1
  <2> QED
    BY <2>1, <2>3, <2>4
<1>8. \A k \in DOMAIN jobs' : jobs'[k].run = "adoptPool" /\ jobs'[k].attempt = a /\ jobs'[k].with = outcome
  BY <1>2, <1>3, <1>7, SMTT(30) DEF Core, PoolThreads
<1>9. Types'
  BY <1>0, <1>2, <1>6 DEF Types, tiers
<1>10. Booting'
  BY <1>0, IsAwake, StaysAwake
<1>11. Queues'
  <2>1. ASSUME NEW t \in Thread, NEW k \in DOMAIN thread[t].queue, thread[t].queue[k] = Init0 PROVE FALSE
    <3>1. t[1] = a /\ thread[t].model = "none" /\ thread[t].queue # <<>>
      BY <1>0, <1>4, <2>1, AttemptOf DEF Core, Queues
    <3>2. t \in Threads(a)
      BY <3>1 DEF Thread, Threads
    <3> QED
      BY <3>1, <3>2 DEF Dead
  <2> QED
    BY <1>3, <2>1 DEF Core, Queues, SharedThread
<1>12. Attempts'
  BY <1>2, <1>3, <1>4, <1>5 DEF Core, Attempts, Pending
<1>13. Adopting'
  <2>1. jobs' # <<>> /\ 1 \in DOMAIN jobs'
    BY <1>6, <1>7
  <2>2. \A k \in DOMAIN jobs' : \A j \in 1 .. k : j \in DOMAIN jobs'
    BY <1>6
  <2>3. \A k \in DOMAIN jobs' : Adopts(jobs[k])'
    BY <1>2, <1>3, <1>4, <1>8 DEF Adopts
  <2> QED
    BY <1>3, <1>8, <2>1, <2>2, <2>3 DEF Adopting
<1>14. PoolThreads'
  <2>1. ASSUME NEW b \in Attempt
        PROVE  /\ init'[b].promise = "failed" => Dead(b)'
               /\ init'[b].promise = "ok" => ~Foreign(Threads(b))'
               /\ \A k \in DOMAIN init'[b].awaiting : init'[b].awaiting[k].run = "adoptPool"
    BY <1>2, <1>3 DEF Core, PoolThreads, Dead, Foreign
  <2>2. \A i \in Jobs' : i.run = "adoptPool"
    BY <1>8 DEF Jobs
  <2> QED
    BY <1>3, <2>1, <2>2 DEF Core, PoolThreads
<1>15. Controller'
  BY <1>3 DEF Controller
<1> QED
  BY <1>9, <1>10, <1>11, <1>12, <1>13, <1>14, <1>15 DEF Core

\* The answer of the controller: its starter learns first.
LEMMA SharedSettles ==
    ASSUME Core, NEW a \in Attempt, jobs # <<>>, Head(jobs).run = "sharedReady", a = Head(jobs).who,
           NEW outcome \in {"ok", "failed"}, Settle(a, outcome), turn' = FALSE, ~Closing,
           UNCHANGED <<phase, capabilities, tiers, started, thread, call, closing>>
    PROVE  Core'
<1>0. Types /\ Calm /\ Head(jobs) \in Jobs /\ Head(jobs) = jobs[1] /\ 1 \in DOMAIN jobs
  BY WhenCalm, HeadJob DEF Core, Chain
<1>1. PICK js : SettledAs(a, outcome, js)
  BY <1>0, Settled
<1>2. /\ js \in Seq(JobType) /\ Len(js) = Len(init[a].awaiting) /\ Resume(js)
      /\ \A k \in DOMAIN js : /\ WellFormed(js[k]) /\ js[k].run = init[a].awaiting[k].run
                              /\ js[k].attempt = a /\ js[k].with = outcome
      /\ init' \in [Attempt -> InitType]
      /\ init'[a].promise = outcome /\ init'[a].awaiting = <<>>
      /\ \A b \in Attempt : b # a => init'[b] = init[b]
  BY <1>1 DEF SettledAs
<1>3. /\ WorkerAvailable' = WorkerAvailable /\ SharedAvailable' = SharedAvailable
      /\ workerPool' = workerPool /\ workerInitialization' = workerInitialization
      /\ sharedController' = sharedController /\ sharedInitialization' = sharedInitialization
      /\ thread' = thread /\ ~WorkerAvailable
  BY <1>0 DEF tiers, WorkerAvailable, SharedAvailable, Core, PoolThreads
<1>4. /\ a = sharedController /\ Pending(a) /\ workerInitialization = 0 /\ workerPool = 0
      /\ sharedInitialization = a
      /\ \A j \in DOMAIN thread[SharedThread(a)].queue : thread[SharedThread(a)].queue[j] # Init0
      /\ \A b \in Attempt : Pending(b) => b = a
  BY <1>0, <1>3, AttemptOf DEF Core, Controller, Attempts
<1>5. \A b \in Attempt : ~Pending(b)'
  BY <1>2, <1>4 DEF Pending
<1>6. /\ jobs' \in Seq(JobType) /\ \A i \in Jobs' : WellFormed(i)
      /\ \A i \in Jobs' : i \in Jobs \/ \E k \in DOMAIN js : i = js[k]
      /\ \A k \in DOMAIN jobs' :
            \/ k < Len(jobs) /\ k + 1 \in DOMAIN jobs /\ jobs'[k] = jobs[k + 1]
            \/ k >= Len(jobs) /\ k - Len(jobs) + 1 \in DOMAIN js /\ jobs'[k] = js[k - Len(jobs) + 1]
  BY <1>0, <1>2, Resumed
<1>7. \A k \in DOMAIN js : k \in DOMAIN init[a].awaiting /\ js[k].run = IF k = 1 THEN "verifyShared" ELSE "joinShared"
  <2>1. init[a].awaiting \in Seq([run: Awaits, who: Caller])
    BY <1>0 DEF Types, InitType
  <2>2. PICK q \in Seq([run: Awaits, who: Caller]) : q = init[a].awaiting
    BY <2>1
  <2>3. Len(js) = Len(q) /\ \A k \in DOMAIN js : js[k].run = q[k].run
    BY <1>2, <2>2
  <2>4. DOMAIN js = DOMAIN q
    BY <1>2, <2>3
  <2>5. \A k \in DOMAIN q : q[k].run = IF k = 1 THEN "verifyShared" ELSE "joinShared"
    BY <1>3, <2>2, Zenon DEF Core, Controller
  <2>6. ASSUME NEW k \in DOMAIN js
        PROVE  k \in DOMAIN init[a].awaiting /\ js[k].run = IF k = 1 THEN "verifyShared" ELSE "joinShared"
    <3>1. k \in DOMAIN q /\ js[k].run = q[k].run
      BY <2>3, <2>4, <2>6
    <3> QED
      BY <2>2, <2>5, <3>1
  <2> QED
    BY <2>6, Zenon
<1>8. Types'
  BY <1>0, <1>2, <1>6 DEF Types, tiers
<1>9. Booting'
  BY <1>0, IsAwake, StaysAwake
<1>10. Queues'
  <2>1. ASSUME NEW t \in Thread, NEW k \in DOMAIN thread[t].queue, thread[t].queue[k] = Init0 PROVE FALSE
    <3>1. thread[t].queue # <<>>
      BY <1>0, <2>1 DEF Types, ThreadType
    <3>2. t = SharedThread(a)
      BY <1>3, <1>4, <3>1 DEF Core, Queues
    <3> QED
      BY <1>4, <2>1, <3>2
  <2> QED
    BY <1>3, <2>1 DEF Core, Queues, SharedThread
<1>11. Attempts'
  BY <1>2, <1>3, <1>4, <1>5 DEF Core, Attempts, Pending
<1>12. Calm'
  BY <1>0, <1>3, <1>4, <1>6, <1>7 DEF Calm, Chain
<1>13. PoolThreads'
  BY <1>3 DEF PoolThreads
<1>14. Controller'
  <2>1. \A i \in Jobs : i.run # "verifyShared"
    BY <1>3, <1>4 DEF Core, Controller
  <2>2. Once("verifyShared")'
    <3>1. \A j, k \in DOMAIN js : js[j].run = "verifyShared" /\ js[k].run = "verifyShared" => j = k
      BY <1>7
    <3>2. Once("verifyShared")
      BY <1>3 DEF Core, Controller
    <3> QED
      BY <1>0, <1>2, <2>1, <3>1, <3>2, OnceResumed
  <2>3. \A i \in Jobs' : i.run # "sharedReady"
    <3> SUFFICES ASSUME NEW k \in DOMAIN jobs', jobs'[k].run = "sharedReady" PROVE FALSE
      BY DEF Jobs
    <3>1. k + 1 \in DOMAIN jobs /\ jobs[k + 1].run = "sharedReady"
      BY <1>6, <1>7
    <3>2. k + 1 = 1
      BY <1>0, <1>3, <3>1 DEF Core, Controller, Once
    <3> QED
      BY <1>6, <3>2
  <2>4. Once("sharedReady")'
    BY <2>3 DEF Once, Jobs
  <2>5. \A i \in Jobs' : i.run = "verifyShared" => i.attempt = a
    BY <1>2, <1>6, <2>1
  <2>6. \A b \in Attempt : \A k \in DOMAIN init'[b].awaiting :
             init'[b].awaiting[k].run = IF k = 1 THEN "verifyShared" ELSE "joinShared"
    BY <1>2, <1>3 DEF Core, Controller
  <2>7. \A t \in Thread : thread'[t].alive => t = SharedThread(a)
    BY <1>3, <1>4 DEF Core, Controller
  <2> QED
    BY <1>3, <1>4, <1>5, <2>2, <2>3, <2>4, <2>5, <2>6, <2>7 DEF Controller, SharedThread, Pending
<1> QED
  BY <1>8, <1>9, <1>10, <1>11, <1>12, <1>13, <1>14 DEF Core

\* One more job behind a sequence of them.
LEMMA Behind ==
    ASSUME NEW s \in Seq(JobType), NEW job \in JobType
    PROVE  /\ s \o <<job>> \in Seq(JobType)
           /\ \A k \in DOMAIN (s \o <<job>>) :
                 (k \in DOMAIN s /\ (s \o <<job>>)[k] = s[k]) \/ (s \o <<job>>)[k] = job
           /\ Len(s) + 1 \in DOMAIN (s \o <<job>>) /\ (s \o <<job>>)[Len(s) + 1] = job
           /\ \A k \in DOMAIN s : k \in DOMAIN (s \o <<job>>) /\ (s \o <<job>>)[k] = s[k]
           /\ Len(s \o <<job>>) = Len(s) + 1
<1>1. <<job>> \in Seq(JobType) /\ Len(<<job>>) = 1 /\ <<job>>[1] = job
  OBVIOUS
<1>2. /\ s \o <<job>> \in Seq(JobType) /\ Len(s \o <<job>>) = Len(s) + Len(<<job>>)
      /\ \A k \in 1 .. Len(s) : (s \o <<job>>)[k] = s[k]
      /\ \A k \in 1 .. Len(<<job>>) : (s \o <<job>>)[Len(s) + k] = <<job>>[k]
  BY <1>1, QueueAt
<1>3. DOMAIN s = 1 .. Len(s) /\ Len(s) \in Nat /\ DOMAIN (s \o <<job>>) = 1 .. Len(s) + 1
  BY <1>1, <1>2
<1>4. (s \o <<job>>)[Len(s) + 1] = job
  BY <1>1, <1>2
<1>5. \A k \in 1 .. Len(s) + 1 : k \in 1 .. Len(s) \/ k = Len(s) + 1
  BY <1>3
<1> QED
  BY <1>1, <1>2, <1>3, <1>4, <1>5

\* When one awaiter of a pool has run, another is next or the pool has come up.
LEMMA AdoptsNext ==
    ASSUME Core, Adopting, NEW job \in JobType, WellFormed(job), job.run \notin Chain, Resume(<<job>>),
           turn' = FALSE, UNCHANGED <<closing, capabilities>>,
           \A j \in Jobs : j.run = "adoptPool" => Adopts(j)',
           workerInitialization' # 0 => workerPool' = workerInitialization'
    PROVE  Calm' \/ Adopting'
<1>0. Types /\ jobs # <<>> /\ WorkerAvailable' /\ ~Closing'
  BY DEF Core, Adopting, WorkerAvailable, Closing
<1>1. /\ jobs' \in Seq(JobType) /\ Len(jobs') = Len(jobs)
      /\ Len(jobs) \in DOMAIN jobs' /\ jobs'[Len(jobs)] = job
      /\ \A k \in DOMAIN jobs' :
            \/ k < Len(jobs) /\ k + 1 \in DOMAIN jobs /\ jobs'[k] = jobs[k + 1]
            \/ k = Len(jobs) /\ jobs'[k] = job
  BY <1>0, ResumedOne
<1>2. /\ \A k \in DOMAIN jobs : jobs[k] \in Jobs
      /\ DOMAIN jobs = 1 .. Len(jobs) /\ Len(jobs) \in Nat \ {0} /\ DOMAIN jobs' = 1 .. Len(jobs)
  BY <1>0, <1>1 DEF Types, Jobs
<1>3. \A k \in DOMAIN jobs' : jobs'[k].run \notin {"poolReady", "poolFailed"}
  BY <1>1 DEF Adopting, Chain
<1>4. ASSUME NEW k \in DOMAIN jobs', jobs'[k].run = "adoptPool"
      PROVE  Adopts(jobs[k])' /\ \A j \in 1 .. k : jobs'[j].run = "adoptPool"
  <2>1. k < Len(jobs) /\ k + 1 \in DOMAIN jobs /\ jobs'[k] = jobs[k + 1]
    BY <1>1, <1>4 DEF Chain
  <2>2. jobs'[k] \in Jobs
    BY <2>1, Zenon DEF Jobs
  <2>3. Adopts(jobs[k])'
    BY <1>4, <2>2 DEF Adopts
  <2>4. ASSUME NEW j \in 1 .. k PROVE jobs'[j].run = "adoptPool"
    <3>0. k \in 1 .. Len(jobs) /\ k < Len(jobs) /\ Len(jobs) \in Nat /\ DOMAIN jobs' = 1 .. Len(jobs)
      BY <1>2, <1>4, <2>1
    <3>1. j \in DOMAIN jobs' /\ j # Len(jobs) /\ j + 1 \in 1 .. (k + 1)
      BY <3>0
    <3>2. jobs'[j] = jobs[j + 1]
      BY <1>1, <3>1
    <3>3. jobs[j + 1].run = "adoptPool"
      BY <1>4, <2>1, <3>1 DEF Adopting
    <3> QED
      BY <3>2, <3>3
  <2> QED
    BY <2>3, <2>4
<1>5. 1 \in DOMAIN jobs' /\ jobs' # <<>>
  BY <1>1, <1>2
<1>6. CASE jobs'[1].run = "adoptPool"
  BY <1>0, <1>3, <1>4, <1>5, <1>6 DEF Adopting
<1>7. CASE jobs'[1].run # "adoptPool"
  <2>1. \A k \in DOMAIN jobs' : 1 \in 1 .. k
    BY <1>2
  <2>2. \A k \in DOMAIN jobs' : jobs'[k].run \notin Chain
    BY <1>3, <1>4, <1>7, <2>1 DEF Chain
  <2> QED
    BY <2>2 DEF Calm, Jobs
<1> QED
  BY <1>6, <1>7

\* The end of initializeWorkerPool and what follows its await in ensureTier leave the
\* invariant true.
LEMMA PoolJobStep ==
    ASSUME Core, PoolReady \/ PoolFailed \/ AdoptPool \/ PoolRefused
    PROVE  Core'
<1>0. /\ Types /\ jobs # <<>> /\ ~Closing /\ turn' = FALSE /\ Head(jobs).ticks = 1
      /\ Head(jobs).run \in Chain
  BY DEF Core, PoolReady, PoolFailed, AdoptPool, PoolRefused, Runs, Closing, Chain
<1>1. /\ Head(jobs) \in JobType /\ WellFormed(Head(jobs)) /\ Head(jobs) \in Jobs
      /\ Head(jobs) = jobs[1] /\ 1 \in DOMAIN jobs
  BY <1>0, HeadJob
<1>2. UNCHANGED <<phase, capabilities, started, thread, call, closing>>
  BY DEF PoolReady, PoolFailed, AdoptPool, PoolRefused, session, options, tiers
<1>3. CASE PoolReady
  <2>1. Coming /\ Head(jobs).run = "poolReady"
    BY <1>1, <1>3 DEF Core, Calm, Adopting, PoolReady, Runs, Chain
  <2>2. PICK a \in Attempt : a = Head(jobs).who
    BY <1>1, <2>1 DEF WellFormed
  <2>3. Head(jobs).with = "ok" /\ ~Foreign(Threads(a)) /\ Settle(a, "ok") /\ UNCHANGED tiers
    BY <1>3, <2>2 DEF PoolReady
  <2>4. \A t \in Threads(a) : thread[t].model # "none"
    BY <1>1, <2>1, <2>2, <2>3 DEF Coming
  <2> QED
    BY <1>0, <1>1, <1>2, <2>1, <2>2, <2>3, <2>4, PoolSettles
<1>4. CASE PoolFailed
  <2>1. Coming /\ Head(jobs).run = "poolFailed"
    BY <1>1, <1>4 DEF Core, Calm, Adopting, PoolFailed, Runs, Chain
  <2>2. PICK a \in Attempt : a = Head(jobs).who
    BY <1>1, <2>1 DEF WellFormed
  <2>3. Settle(a, "failed") /\ UNCHANGED tiers
    BY <1>4, <2>2 DEF PoolFailed
  <2>4. Dead(a)
    BY <1>1, <2>1, <2>2 DEF Coming
  <2> QED
    BY <1>0, <1>1, <1>2, <2>1, <2>2, <2>3, <2>4, PoolSettles
<1>5. CASE AdoptPool \/ PoolRefused
  <2>1. Adopting /\ WorkerAvailable /\ Head(jobs).run = "adoptPool"
    BY <1>1, <1>5 DEF Core, Calm, Coming, AdoptPool, PoolRefused, Runs, Adopting, Chain
  <2>2. PICK a \in Attempt : a = Head(jobs).attempt
    BY <1>1, <2>1 DEF WellFormed, Awaits
  <2>3. Head(jobs).who \in Caller /\ Adopts(Head(jobs))
    BY <1>1, <2>1 DEF WellFormed, Awaits, Adopting
  <2>4. PICK job : job = Answer(Head(jobs).who, 2, IF Head(jobs).with = "ok" THEN "worker" ELSE "refused")
    OBVIOUS
  <2>5. {"worker", "refused"} \subseteq Outcomes /\ 2 \in 1 .. 5
    BY DEF Outcomes, Tiers
  <2>6. job \in JobType /\ WellFormed(job) /\ job.run \in {"boot", "client"}
    BY <2>3, <2>4, <2>5, AnswerJob
  <2>7. Resume(<<job>>)
    BY <1>5, <2>4 DEF AdoptPool, PoolRefused
  <2>8. /\ jobs' \in Seq(JobType) /\ \A i \in Jobs' : WellFormed(i)
        /\ \A i \in Jobs' : i \in Jobs \/ i = job
    BY <1>0, <2>6, <2>7, ResumedOne
  <2>9. /\ init' = init /\ sharedController' = sharedController
        /\ sharedInitialization' = sharedInitialization
    BY <1>5 DEF AdoptPool, PoolRefused
  <2>10. /\ WorkerAvailable' /\ SharedAvailable' = SharedAvailable /\ ~SharedAvailable
         /\ sharedInitialization = 0 /\ sharedController = 0
         /\ thread' = thread /\ \A i \in Jobs' : i.run \notin {"sharedReady", "verifyShared"}
    BY <1>2, <2>1, <2>6, <2>8, TiersExclude DEF WorkerAvailable, SharedAvailable, Core, Attempts, PoolThreads
  <2>11. Booting'
    BY <1>0, <1>2, IsAwake, StaysAwake
  <2>12. /\ \A t \in Thread : t[1] \in Attempt /\ t \in Threads(t[1])
         /\ 0 \notin Attempt
    BY BoundAssumption DEF Thread, Threads, Attempt
  <2>13. CASE AdoptPool
    <3>1. /\ workerPool' = a /\ workerInitialization' = workerInitialization
          /\ workerInitialization = a /\ init[a].promise = "ok"
      BY <2>2, <2>3, <2>13 DEF AdoptPool, Adopts
    <3>2. workerPool \in {0, a}
      BY <3>1 DEF Core, Attempts
    <3>3. Types'
      BY <1>0, <1>2, <2>8, <2>9, <3>1 DEF Types, Attempt
    <3>4. Queues'
      BY <2>1, <2>9, <2>10, <2>12, <3>1, <3>2 DEF Core, Queues, Pending
    <3>5. Attempts'
      BY <2>1, <2>9, <2>10, <3>1 DEF Core, Attempts, Pending, WorkerAvailable
    <3>6. Calm' \/ Adopting'
      <4>1. ASSUME NEW j \in Jobs, j.run = "adoptPool" PROVE Adopts(j)'
        <5>1. Adopts(j)
          BY <2>1, <4>1 DEF Adopting, Jobs
        <5> QED
          BY <2>2, <2>9, <3>1, <5>1 DEF Adopts
      <4> QED
        BY <1>0, <1>2, <2>1, <2>6, <2>7, <3>1, <4>1, AdoptsNext DEF Chain
    <3>7. PoolThreads'
      BY <2>1, <2>9, <2>10, <3>1 DEF Core, PoolThreads, Dead, Foreign
    <3>8. Controller'
      BY <2>10 DEF Controller
    <3> QED
      BY <2>11, <3>3, <3>4, <3>5, <3>6, <3>7, <3>8 DEF Core
  <2>14. CASE PoolRefused
    <3>1. /\ workerPool' = workerPool /\ workerInitialization' = 0 /\ Head(jobs).with = "failed"
          /\ workerPool = 0 /\ workerInitialization \in {0, a} /\ init[a].promise = "failed"
      BY <2>2, <2>3, <2>14 DEF PoolRefused, Adopts
    <3>2. \A b \in Attempt : ~Pending(b)
      BY <2>10, <2>12, <3>1 DEF Core, Attempts, Pending
    <3>3. Types'
      BY <1>0, <1>2, <2>8, <2>9, <3>1, BoundAssumption DEF Types
    <3>4. Queues'
      BY <2>1, <2>9, <2>10, <3>1 DEF Core, Queues, Pending
    <3>5. Attempts'
      BY <2>9, <2>10, <3>1, <3>2 DEF Core, Attempts, Pending
    <3>6. Calm' \/ Adopting'
      <4>1. ASSUME NEW j \in Jobs, j.run = "adoptPool" PROVE Adopts(j)'
        <5>1. Adopts(j) /\ WellFormed(j)
          BY <1>0, <2>1, <4>1 DEF Adopting, Jobs, Types
        <5>2. j.attempt \in Attempt
          BY <4>1, <5>1 DEF WellFormed, Awaits
        <5> QED
          BY <2>9, <2>12, <3>1, <5>1, <5>2 DEF Adopts
      <4> QED
        BY <1>0, <1>2, <2>1, <2>6, <2>7, <3>1, <4>1, AdoptsNext DEF Chain
    <3>7. PoolThreads'
      <4>1. \A t \in Thread : ~thread[t].alive
        BY <2>1, <2>12, <3>1 DEF Core, PoolThreads, Dead
      <4> QED
        BY <2>1, <2>9, <2>10, <4>1 DEF Core, PoolThreads, Dead, Foreign
    <3>8. Controller'
      BY <2>10 DEF Controller
    <3> QED
      BY <2>11, <3>3, <3>4, <3>5, <3>6, <3>7, <3>8 DEF Core
  <2> QED
    BY <1>5, <2>13, <2>14
<1> QED
  BY <1>3, <1>4, <1>5

\* So does the controller's answer to its initialize.
LEMMA SharedReadyStep ==
    ASSUME Core, SharedReady
    PROVE  Core'
<1>0. /\ Types /\ jobs # <<>> /\ ~Closing /\ turn' = FALSE /\ Head(jobs).run = "sharedReady"
  BY DEF Core, SharedReady, Runs, Closing
<1>1. Head(jobs) \in JobType /\ WellFormed(Head(jobs))
  BY <1>0, HeadJob
<1>2. PICK a \in Attempt : a = Head(jobs).who
  BY <1>0, <1>1 DEF WellFormed
<1>3. PICK outcome \in {"ok", "failed"} : outcome = IF Head(jobs).with = "ok" THEN "ok" ELSE "failed"
  OBVIOUS
<1>4. Settle(a, outcome) /\ UNCHANGED <<phase, capabilities, tiers, started, thread, call, closing>>
  BY <1>2, <1>3 DEF SharedReady, session, options
<1> QED
  BY <1>0, <1>2, <1>4, SharedSettles

---------------------------------------------------------------------------
\* RpcWorker.close

\* RpcWorker.close: no thread, no pending call, and a failure for every later one.
LEMMA ClosedAs ==
    ASSUME Types, NEW t \in Thread
    PROVE  /\ ClosedThread(t) \in ThreadType /\ ~ClosedThread(t).alive
           /\ ClosedThread(t).queue = <<>> /\ ClosedThread(t).model = thread[t].model
           /\ ClosedThread(t).failure # "none"
<1>1. thread[t] \in ThreadType /\ <<>> \in Seq(Rpc)
  BY DEF Types
<1> QED
  BY <1>1 DEF ClosedThread, ThreadType

\* Threads of a set are closed, the others are left alone.
Closes(threads) ==
    /\ thread' \in [Thread -> ThreadType]
    /\ \A t \in threads : ~thread'[t].alive /\ thread'[t].queue = <<>> /\ thread'[t].model = thread[t].model
                          /\ thread'[t].failure # "none"
    /\ \A t \in Thread \ threads : thread'[t] = thread[t]

\* Closing one worker closes that one.
LEMMA ClosesOne ==
    ASSUME Types, NEW t \in Thread, thread' = [thread EXCEPT ![t] = ClosedThread(t)]
    PROVE  Closes({t})
<1>1. thread \in [Thread -> ThreadType]
  BY DEF Types
<1> QED
  BY <1>1, ClosedAs DEF Closes

\* Closing the workers of an attempt closes those.
LEMMA ClosesAll ==
    ASSUME Types, NEW a \in Attempt,
           thread' = [t \in Thread |-> IF t \in Threads(a) THEN ClosedThread(t) ELSE thread[t]]
    PROVE  Closes(Threads(a))
<1>1. thread \in [Thread -> ThreadType] /\ Threads(a) \subseteq Thread
  BY AttemptOf DEF Types
<1> QED
  BY <1>1, ClosedAs DEF Closes

\* A close takes nothing from what is said of threads.
LEMMA CloseFrame ==
    ASSUME Core, NEW threads \in SUBSET Thread, Closes(threads), SameInit,
           UNCHANGED <<capabilities, tiers>>
    PROVE  /\ Queues'
           /\ \A t \in Thread : thread'[t].model = thread[t].model
           /\ \A t \in Thread : thread'[t].alive => thread[t].alive
           /\ \A t \in Thread : thread[t].queue = <<>> => thread'[t].queue = <<>>
           /\ \A t \in Thread : thread'[t].queue = <<>> \/ thread'[t].queue = thread[t].queue
<1>1. /\ \A t \in Thread : thread'[t].model = thread[t].model
      /\ \A t \in Thread : thread'[t].alive => thread[t].alive
      /\ \A t \in Thread : thread'[t].queue = <<>> \/ thread'[t] = thread[t]
  BY DEF Closes
<1>2. /\ WorkerAvailable' = WorkerAvailable
      /\ workerPool' = workerPool /\ sharedController' = sharedController
      /\ \A t \in Thread : t[1] \in Attempt
      /\ \A a \in Attempt : Pending(a)' <=> Pending(a)
  BY AttemptOf DEF tiers, WorkerAvailable, SameInit, Pending, Core
<1>3. Queues'
  BY <1>1, <1>2 DEF Core, Queues, SharedThread
<1> QED
  BY <1>1, <1>3

\* initializeWorkerPool's catch closes every worker of the pool that could not come up.
LEMMA PoolUnusableStep ==
    ASSUME Core, PoolUnusable
    PROVE  Core'
<1>0. /\ Types /\ jobs # <<>> /\ ~Closing /\ turn' = FALSE /\ Head(jobs).run = "poolReady"
  BY DEF Core, PoolUnusable, Runs, Closing
<1>1. /\ Head(jobs) \in JobType /\ WellFormed(Head(jobs)) /\ Head(jobs) = jobs[1]
  BY <1>0, HeadJob
<1>2. Coming
  BY <1>0, WhenCalm, HeadJob DEF Core, Calm, Adopting, Chain
<1>3. PICK a \in Attempt : a = jobs[1].who
  BY <1>0, <1>1 DEF WellFormed
<1>4. /\ thread' = [t \in Thread |-> IF t \in Threads(a) THEN ClosedThread(t) ELSE thread[t]]
      /\ Resume(<<Job("poolFailed", a, 2, "error")>>)
      /\ UNCHANGED <<phase, capabilities, tiers, started, init, call, closing>>
  BY <1>1, <1>3 DEF PoolUnusable, session, options
<1>5. PICK job : job = Job("poolFailed", a, 2, "error")
  OBVIOUS
<1>6. job \in JobType /\ WellFormed(job) /\ job.run = "poolFailed" /\ job.who = a
  BY <1>5, FailedJob
<1>7. /\ jobs' \in Seq(JobType) /\ \A i \in Jobs' : WellFormed(i)
      /\ Len(jobs') = Len(jobs) /\ jobs'[Len(jobs)] = job
  BY <1>0, <1>4, <1>5, <1>6, ResumedOne
<1>8. Len(jobs') = 1 /\ jobs'[1] = job /\ \A i \in Jobs' : i = job
  BY <1>2, <1>7 DEF Coming, Jobs
<1>9. Closes(Threads(a)) /\ Threads(a) \in SUBSET Thread /\ SameInit
  BY <1>0, <1>4, ClosesAll, AttemptOf DEF SameInit, Types
<1>10. /\ Queues'
       /\ \A t \in Thread : thread'[t].model = thread[t].model
       /\ \A t \in Thread : thread'[t].alive => thread[t].alive
       /\ \A t \in Thread : thread[t].queue = <<>> => thread'[t].queue = <<>>
  BY <1>4, <1>9, CloseFrame
<1>11. /\ WorkerAvailable' /\ WorkerAvailable /\ SharedAvailable' = SharedAvailable
       /\ workerPool' = workerPool /\ workerInitialization' = workerInitialization
       /\ sharedController' = sharedController /\ sharedInitialization' = sharedInitialization
       /\ init' = init /\ ~Closing' /\ \A b \in Attempt : Threads(b) \subseteq Thread
  BY <1>0, <1>2, <1>4, AttemptOf DEF tiers, WorkerAvailable, SharedAvailable, Closing, Coming
<1>12. Types'
  BY <1>0, <1>4, <1>7, <1>9 DEF Types, tiers, Closes
<1>13. Booting'
  BY <1>0, <1>4, IsAwake, StaysAwake
<1>14. Attempts'
  BY <1>11 DEF Core, Attempts, Pending
<1>15. Coming'
  <2>1. Dead(a)'
    BY <1>9 DEF Closes, Dead
  <2>2. Pending(a)
    BY <1>2, <1>3 DEF Coming
  <2> QED
    BY <1>0, <1>6, <1>8, <1>11, <2>1, <2>2 DEF Coming, Pending
<1>16. PoolThreads'
  <2>1. ASSUME NEW b \in Attempt
        PROVE  /\ init'[b].promise = "failed" => Dead(b)'
               /\ init'[b].promise = "ok" => ~Foreign(Threads(b))'
               /\ \A k \in DOMAIN init'[b].awaiting : init'[b].awaiting[k].run = "adoptPool"
    BY <1>10, <1>11 DEF Core, PoolThreads, Dead, Foreign
  <2> QED
    BY <1>6, <1>8, <1>10, <1>11, <2>1 DEF Core, PoolThreads
<1>17. Controller'
  BY <1>11 DEF Controller
<1> QED
  BY <1>10, <1>12, <1>13, <1>14, <1>15, <1>16, <1>17 DEF Core

\* A thread that is closed while nothing initializes: its encodes are rejected.
LEMMA SharedUnusableStep ==
    ASSUME Core, SharedUnusable
    PROVE  Core'
<1>0. /\ Types /\ jobs # <<>> /\ ~Closing /\ turn' = FALSE /\ Head(jobs).run = "verifyShared"
  BY DEF Core, SharedUnusable, Runs, Closing
<1>1. /\ Head(jobs) \in JobType /\ WellFormed(Head(jobs)) /\ Head(jobs) \in Jobs
      /\ Head(jobs) = jobs[1] /\ 1 \in DOMAIN jobs
  BY <1>0, HeadJob
<1>2. Calm /\ Awake /\ ~WorkerAvailable
  BY <1>0, <1>1, WhenCalm, IsAwake DEF Chain, Core, PoolThreads
<1>3. /\ sharedController \in Attempt /\ ~Pending(sharedController)
      /\ sharedInitialization = sharedController /\ workerInitialization = 0 /\ workerPool = 0
  BY <1>0, <1>1, <1>2 DEF Core, Controller, Attempts, WellFormed, Awaits
<1>4. PICK t \in Thread : t = SharedThread(sharedController)
  BY <1>0, <1>3, AttemptOf
<1>5. PICK job : job = Answer(Head(jobs).who, 2, "refused")
  OBVIOUS
<1>6. job \in JobType /\ WellFormed(job) /\ job.run \in {"boot", "client"}
  <2>1. Head(jobs).who \in Caller /\ "refused" \in Outcomes /\ 2 \in 1 .. 5
    BY <1>0, <1>1 DEF WellFormed, Awaits, Outcomes
  <2> QED
    BY <1>5, <2>1, AnswerJob
<1>7. /\ thread' = [thread EXCEPT ![t] = ClosedThread(t)]
      /\ Resume(Rejections(t) \o <<job>>)
      /\ sharedController' = 0 /\ sharedInitialization' = 0
      /\ UNCHANGED <<phase, capabilities, workerPool, workerInitialization, started, init, call, closing>>
  BY <1>4, <1>5 DEF SharedUnusable, session, options
<1>8. \A k \in DOMAIN thread[t].queue : thread[t].queue[k] # Init0
  BY <1>3, <1>4 DEF Core, Queues, SharedThread
<1>9. PICK js : js = Rejections(t) \o <<job>>
  OBVIOUS
<1>10. js \in Seq(JobType) /\ \A k \in DOMAIN js : WellFormed(js[k]) /\ js[k].run \in Plain
  <2>1. /\ Rejections(t) \in Seq(JobType)
        /\ \A k \in DOMAIN Rejections(t) : WellFormed(Rejections(t)[k]) /\ Rejections(t)[k].run \in Plain
    BY <1>0, <1>8, RejectionJobs DEF Plain
  <2>2. job.run \in Plain
    BY <1>6 DEF Plain
  <2> QED
    BY <1>6, <1>9, <2>1, <2>2, Behind
<1>11. /\ jobs' \in Seq(JobType) /\ \A i \in Jobs' : WellFormed(i)
       /\ \A i \in Jobs' : i \in Jobs \/ \E k \in DOMAIN js : i = js[k]
       /\ \A k \in DOMAIN jobs' :
             \/ k < Len(jobs) /\ k + 1 \in DOMAIN jobs /\ jobs'[k] = jobs[k + 1]
             \/ k >= Len(jobs) /\ k - Len(jobs) + 1 \in DOMAIN js /\ jobs'[k] = js[k - Len(jobs) + 1]
  BY <1>0, <1>7, <1>9, <1>10, Resumed
<1>12. Closes({t})
  BY <1>0, <1>7, ClosesOne
<1>13. /\ ~WorkerAvailable' /\ SharedAvailable' = SharedAvailable
       /\ workerPool' = 0 /\ workerInitialization' = 0
  BY <1>2, <1>3, <1>7 DEF WorkerAvailable, SharedAvailable
<1>14. Types'
  <2>1. 0 \in 0 .. MaxAttempts
    BY BoundAssumption
  <2>3. turn' \in BOOLEAN /\ thread' \in [Thread -> ThreadType]
    BY <1>0, <1>12 DEF Closes
  <2>2. /\ init' = init /\ call' = call /\ closing' = closing /\ started' = started
        /\ workerPool' = workerPool /\ workerInitialization' = workerInitialization
        /\ sharedController' = 0 /\ sharedInitialization' = 0
    BY <1>7
  <2> QED
    BY <1>0, <1>11, <2>1, <2>2, <2>3 DEF Types
<1>15. Booting'
  BY <1>2, <1>7, StaysAwake
<1>16. \A u \in Thread : thread'[u].queue = <<>> /\ ~thread'[u].alive
  BY <1>2, <1>4, <1>12 DEF Core, Queues, Controller, Closes
<1>17. Queues'
  BY <1>13, <1>16 DEF Queues
<1>18. Attempts'
  BY <1>3, <1>7, <1>13 DEF Core, Attempts, Pending
<1>19. Calm'
  BY <1>2, <1>10, <1>11, <1>13 DEF Calm, Plain, Chain
<1>20. PoolThreads'
  BY <1>13 DEF PoolThreads
<1>21. Controller'
  <2>1. \A i \in Jobs : i.run # "sharedReady"
    BY <1>2, <1>3 DEF Core, Controller
  <2>2. \A i \in Jobs' : i.run # "verifyShared"
    <3> SUFFICES ASSUME NEW k \in DOMAIN jobs', jobs'[k].run = "verifyShared" PROVE FALSE
      BY DEF Jobs
    <3>1. k + 1 \in DOMAIN jobs /\ jobs[k + 1].run = "verifyShared"
      BY <1>10, <1>11 DEF Plain
    <3>2. k + 1 = 1
      BY <1>0, <1>1, <1>2, <3>1 DEF Core, Controller, Once
    <3> QED
      BY <1>11, <3>2
  <2>3. \A i \in Jobs' : i.run # "sharedReady"
    BY <1>10, <1>11, <2>1 DEF Plain
  <2>4. Once("sharedReady")' /\ Once("verifyShared")'
    BY <2>2, <2>3 DEF Once, Jobs
  <2> QED
    BY <1>2, <1>7, <1>13, <1>16, <2>2, <2>3, <2>4 DEF Core, Controller
<1> QED
  BY <1>14, <1>15, <1>17, <1>18, <1>19, <1>20, <1>21 DEF Core

\* close() after its pool: the controller is closed, its pending calls rejected.
LEMMA CloseControllerStep ==
    ASSUME Core, CloseController
    PROVE  Core'
<1>0. /\ Types /\ jobs # <<>> /\ ~Closing /\ turn' = FALSE /\ Head(jobs).run = "poolClosed"
      /\ UNCHANGED <<phase, capabilities, tiers, started, init, call, closing>>
  BY DEF Core, CloseController, Runs, Closing, session, options
<1>1. /\ Head(jobs) \in JobType /\ WellFormed(Head(jobs)) /\ Head(jobs) \in Jobs
      /\ Head(jobs) = jobs[1] /\ 1 \in DOMAIN jobs
  BY <1>0, HeadJob
<1>2. Calm /\ Awake
  BY <1>0, <1>1, WhenCalm, IsAwake DEF Chain
<1>3. PICK job : job = Job("freeSingle", Head(jobs).who, 1, "done")
  OBVIOUS
<1>4. job \in JobType /\ WellFormed(job) /\ job.run = "freeSingle"
  <2>1. Head(jobs).who \in Caller
    BY <1>0, <1>1 DEF WellFormed
  <2> QED
    BY <1>3, <2>1, CloseJob
<1>5. CASE sharedController = 0
  <2>1. Resume(<<job>>) /\ UNCHANGED thread
    BY <1>3, <1>5 DEF CloseController
  <2>2. /\ Head(jobs).run \notin Chain /\ job.run \in Plain
        /\ turn' \in BOOLEAN /\ call' \in [Caller -> [op: Ops, tier: Tiers]]
        /\ (phase' = "booting" => phase = "booting" /\ (call'[Boot] = call[Boot] \/ call'[Boot].op # "idle"))
        /\ UNCHANGED <<capabilities, tiers, started, init, thread, closing>>
    BY <1>0, <1>4, <2>1 DEF Chain, Plain, Types
  <2> QED
    BY <1>0, <1>4, <2>1, <2>2, ProceedsWith
<1>6. CASE sharedController # 0
  <2>1. /\ sharedController \in Attempt /\ ~WorkerAvailable /\ workerInitialization = 0 /\ workerPool = 0
    BY <1>0, <1>6, AttemptOf, TiersExclude DEF Core, Attempts
  <2>2. PICK t \in Thread : t = SharedThread(sharedController)
    BY <1>0, <2>1, AttemptOf
  <2>3. /\ thread' = [thread EXCEPT ![t] = ClosedThread(t)]
        /\ Resume(Append(Rejections(t), job))
    BY <1>3, <1>6, <2>2 DEF CloseController
  <2>4. PICK js : js = Rejections(t) \o <<job>>
    OBVIOUS
  <2>5. /\ Rejections(t) \in Seq(JobType) /\ Len(Rejections(t)) = Len(thread[t].queue)
        /\ \A k \in DOMAIN Rejections(t) :
              /\ WellFormed(Rejections(t)[k]) /\ k \in DOMAIN thread[t].queue
              /\ IF thread[t].queue[k] = Init0
                 THEN Rejections(t)[k].run = "sharedReady" /\ Rejections(t)[k].who = t[1]
                 ELSE Rejections(t)[k].run = "encoded"
    BY <1>0, <2>1, RejectionJobs
  <2>6. /\ js \in Seq(JobType) /\ Resume(js)
        /\ \A k \in DOMAIN js : WellFormed(js[k]) /\ (js[k] = job \/ (k \in DOMAIN Rejections(t) /\ js[k] = Rejections(t)[k]))
    <3>1. Append(Rejections(t), job) = Rejections(t) \o <<job>>
      BY <1>4, <2>5
    <3> QED
      BY <1>4, <2>3, <2>4, <2>5, <3>1, Behind
  <2>7. \A k \in DOMAIN js : js[k].run \in {"freeSingle", "encoded"} \/
              (js[k].run = "sharedReady" /\ k = 1 /\ js[k].who = sharedController /\ thread[t].queue[1] = Init0)
    <3>1. ASSUME NEW k \in DOMAIN Rejections(t), thread[t].queue[k] = Init0
          PROVE  k = 1
      BY <2>5, <3>1 DEF Core, Queues
    <3>2. t[1] = sharedController
      BY <2>2 DEF SharedThread
    <3> QED
      BY <1>4, <2>5, <2>6, <3>1, <3>2
  <2>8. /\ jobs' \in Seq(JobType) /\ \A i \in Jobs' : WellFormed(i)
        /\ \A i \in Jobs' : i \in Jobs \/ \E k \in DOMAIN js : i = js[k]
    BY <1>0, <2>6, Resumed
  <2>9. Closes({t}) /\ SameInit /\ {t} \in SUBSET Thread
    BY <1>0, <2>3, ClosesOne DEF SameInit, Types
  <2>10. /\ Queues'
         /\ \A u \in Thread : thread'[u].model = thread[u].model
         /\ \A u \in Thread : thread'[u].alive => thread[u].alive
    BY <1>0, <2>9, CloseFrame
  <2>11. /\ ~WorkerAvailable' /\ SharedAvailable' = SharedAvailable
         /\ workerPool' = workerPool /\ workerInitialization' = workerInitialization
         /\ sharedController' = sharedController /\ sharedInitialization' = sharedInitialization
         /\ init' = init
    BY <1>0, <2>1 DEF tiers, WorkerAvailable, SharedAvailable
  <2>12. Types'
    BY <1>0, <2>8, <2>9 DEF Types, tiers, Closes
  <2>13. Booting'
    BY <1>0, <1>2, StaysAwake
  <2>14. Attempts'
    BY <2>1, <2>11 DEF Core, Attempts, Pending
  <2>15. Calm'
    BY <1>2, <2>1, <2>7, <2>8, <2>11 DEF Calm, Chain
  <2>16. PoolThreads'
    BY <2>11 DEF PoolThreads
  <2>17. Controller'
    <3>1. Once("verifyShared")'
      <4>1. Once("verifyShared") /\ \A k \in DOMAIN js : WellFormed(js[k]) /\ js[k].run # "verifyShared"
        BY <2>1, <2>6, <2>7 DEF Core, Controller
      <4> QED
        BY <1>0, <2>6, <4>1, OnceResumed
    <3>2. CASE \E i \in Jobs : i.run = "sharedReady"
      <4>1. Pending(sharedController) /\ \A j \in DOMAIN thread[t].queue : thread[t].queue[j] # Init0
        BY <2>1, <2>2, <3>2 DEF Core, Controller
      <4>2. \A k \in DOMAIN js : WellFormed(js[k]) /\ js[k].run # "sharedReady"
        <5>1. 1 \in DOMAIN js => 1 \in DOMAIN thread[t].queue \/ js[1].run = "freeSingle"
          BY <1>4, <2>5, <2>6
        <5> QED
          BY <2>6, <2>7, <4>1, <5>1
      <4>3. Once("sharedReady")'
        BY <1>0, <2>1, <2>6, <4>2, OnceResumed DEF Core, Controller
      <4> QED
        BY <2>1, <2>2, <2>7, <2>8, <2>9, <2>10, <2>11, <3>1, <4>1, <4>2, <4>3
           DEF Core, Controller, Closes, Pending, SharedThread
    <3>3. CASE \A i \in Jobs : i.run # "sharedReady"
      <4>1. Once("sharedReady")'
        <5>1. Once("sharedReady") /\ \A j, k \in DOMAIN js : js[j].run = "sharedReady" /\ js[k].run = "sharedReady" => j = k
          BY <2>1, <2>7 DEF Core, Controller
        <5> QED
          BY <1>0, <2>6, <3>3, <5>1, OnceResumed
      <4>2. ASSUME NEW i \in Jobs', i.run = "sharedReady"
            PROVE  i.who = sharedController /\ Pending(sharedController)
        <5>1. PICK k \in DOMAIN js : i = js[k]
          BY <2>8, <3>3, <4>2
        <5>2. js[k].who = sharedController /\ k \in DOMAIN Rejections(t) /\ thread[t].queue[k] = Init0 /\ k \in DOMAIN thread[t].queue
          BY <1>4, <2>5, <2>6, <2>7, <4>2, <5>1
        <5>3. Pending(t[1]) /\ t[1] = sharedController
          BY <2>2, <5>2 DEF Core, Queues, SharedThread
        <5> QED
          BY <5>1, <5>2, <5>3
      <4>3. \A j \in DOMAIN thread'[t].queue : thread'[t].queue[j] # Init0
        BY <2>9 DEF Closes
      <4>4. \A i \in Jobs' : i.run = "verifyShared" => i.attempt = sharedController /\ ~Pending(sharedController)
        BY <2>1, <2>7, <2>8 DEF Core, Controller
      <4> QED
        BY <2>1, <2>2, <2>10, <2>11, <3>1, <4>1, <4>2, <4>3, <4>4 DEF Core, Controller, Pending, SharedThread
    <3> QED
      BY <3>2, <3>3
  <2> QED
    BY <2>10, <2>12, <2>13, <2>14, <2>15, <2>16, <2>17 DEF Core
<1> QED
  BY <1>5, <1>6

\* close() on one worker of the pool, whose pending calls are all encodes.
LEMMA CloseWorkerStep ==
    ASSUME Core, ClosingPool, CloseWorker
    PROVE  Core'
<1>0. /\ Types /\ Closing /\ Calm /\ Awake /\ workerPool # 0 /\ closing.worker # 0
      /\ UNCHANGED <<phase, capabilities, tiers, started, init, call, turn>>
  BY WhenCalm, IsAwake DEF Core, CloseWorker, Closing, ClosingPool, session, options
<1>1. /\ workerPool \in Attempt /\ workerInitialization = workerPool /\ WorkerAvailable
      /\ init[workerPool].promise = "ok"
  BY <1>0, AttemptOf DEF Core, Attempts
<1>2. /\ closing \in [who: Caller, worker: 0 .. WorkerCount] /\ closing.who \in Caller
      /\ closing.worker \in 1 .. WorkerCount
  BY <1>0 DEF Types
<1>3. PICK t \in Thread : t = <<workerPool, closing.worker>>
  BY <1>1, <1>2 DEF Thread
<1>4. PICK job : job = Job("poolClosed", closing.who, 3, "done")
  OBVIOUS
<1>5. job \in JobType /\ WellFormed(job) /\ job.run = "poolClosed"
  <2>1. 3 \in 1 .. 5
    OBVIOUS
  <2> QED
    BY <1>2, <1>4, <2>1, CloseJob
<1>6. PICK js : js = IF closing.worker = WorkerCount THEN Rejections(t) \o <<job>> ELSE Rejections(t) \o <<>>
  OBVIOUS
<1>7. /\ thread' = [thread EXCEPT ![t] = ClosedThread(t)]
      /\ Queue(js)
      /\ closing' = IF closing.worker = WorkerCount THEN NotClosing
                    ELSE [closing EXCEPT !.worker = @ + 1]
  BY <1>3, <1>4, <1>6 DEF CloseWorker
<1>8. \A k \in DOMAIN thread[t].queue : thread[t].queue[k] # Init0
  <2>1. ~Pending(t[1])
    BY <1>1, <1>3 DEF Pending
  <2> QED
    BY <2>1 DEF Core, Queues
<1>9. /\ Rejections(t) \in Seq(JobType)
      /\ \A k \in DOMAIN Rejections(t) : WellFormed(Rejections(t)[k]) /\ Rejections(t)[k].run \in Plain
  BY <1>0, <1>8, RejectionJobs DEF Plain
<1>10. /\ js \in Seq(JobType)
       /\ \A k \in DOMAIN js : WellFormed(js[k]) /\ js[k].run \in Plain
  <2>1. job.run \in Plain
    BY <1>5 DEF Plain
  <2>2. CASE closing.worker = WorkerCount
    BY <1>5, <1>6, <1>9, <2>1, <2>2, Behind
  <2>3. CASE closing.worker # WorkerCount
    <3>1. js = Rejections(t)
      BY <1>6, <1>9, <2>3
    <3> QED
      BY <1>9, <3>1
  <2> QED
    BY <2>2, <2>3
<1>11. /\ jobs' \in Seq(JobType) /\ \A i \in Jobs' : WellFormed(i)
       /\ \A i \in Jobs' : i \in Jobs \/ \E k \in DOMAIN js : i = js[k]
  BY <1>0, <1>7, <1>10, Queued
<1>12. Closes({t}) /\ {t} \in SUBSET Thread /\ SameInit
  BY <1>0, <1>7, ClosesOne DEF SameInit, Types
<1>13. /\ Queues'
       /\ \A u \in Thread : thread'[u].model = thread[u].model
       /\ \A u \in Thread : thread'[u].alive => thread[u].alive
       /\ \A u \in Thread : thread[u].queue = <<>> => thread'[u].queue = <<>>
  BY <1>0, <1>12, CloseFrame
<1>14. /\ WorkerAvailable' /\ SharedAvailable' = SharedAvailable
       /\ workerPool' = workerPool /\ workerInitialization' = workerInitialization
       /\ sharedController' = sharedController /\ sharedInitialization' = sharedInitialization
       /\ init' = init /\ \A b \in Attempt : Threads(b) \subseteq Thread
  BY <1>0, <1>1, AttemptOf DEF tiers, WorkerAvailable, SharedAvailable
<1>15. Types'
  <2>1. closing' \in [who: Caller, worker: 0 .. WorkerCount]
    <3>1. CASE closing.worker = WorkerCount
      BY <1>7, <3>1, BoundAssumption DEF NotClosing, Caller
    <3>2. CASE closing.worker # WorkerCount
      <4>1. closing.worker + 1 \in 0 .. WorkerCount
        BY <1>2, <3>2, BoundAssumption
      <4> QED
        BY <1>2, <1>7, <3>2, <4>1
    <3> QED
      BY <3>1, <3>2
  <2>2. thread' \in [Thread -> ThreadType]
    BY <1>12 DEF Closes
  <2>3. /\ call' = call /\ started' = started /\ turn' = turn
    BY <1>0
  <2> QED
    BY <1>0, <1>11, <1>14, <2>1, <2>2, <2>3 DEF Types
<1>16. Booting'
  BY <1>0, StaysAwake
<1>17. Attempts'
  BY <1>14, <1>1 DEF Core, Attempts, Pending
<1>18. Calm'
  BY <1>0, <1>10, <1>11, <1>14 DEF Calm, Plain, Chain, Pending
<1>19. PoolThreads'
  <2>1. ASSUME NEW b \in Attempt
        PROVE  /\ init'[b].promise = "failed" => Dead(b)'
               /\ init'[b].promise = "ok" => ~Foreign(Threads(b))'
               /\ \A k \in DOMAIN init'[b].awaiting : init'[b].awaiting[k].run = "adoptPool"
    BY <1>1, <1>13, <1>14 DEF Core, PoolThreads, Dead, Foreign
  <2>2. \A i \in Jobs' : i.run \notin {"sharedReady", "verifyShared"}
    BY <1>1, <1>10, <1>11 DEF Core, PoolThreads, Plain
  <2> QED
    BY <1>1, <1>13, <1>14, <2>1, <2>2 DEF Core, PoolThreads
<1>20. Controller'
  BY <1>14 DEF Controller
<1> QED
  BY <1>13, <1>15, <1>16, <1>17, <1>18, <1>19, <1>20 DEF Core

---------------------------------------------------------------------------
\* What a thread sends

\* Thread t has answered or failed: what is said of the others stands.
Hears(t) ==
    /\ thread' \in [Thread -> ThreadType]
    /\ \A u \in Thread \ {t} : thread'[u] = thread[u]
    /\ thread'[t].alive = thread[t].alive
    /\ thread'[t].model = thread[t].model \/ Pending(t[1])
    /\ thread[t].queue = <<>> => thread'[t].queue = <<>>

\* What it leads to: reactions of encodes, the end of a pool's start, or that of the
\* controller's.
Told(js) ==
    \/ \A k \in DOMAIN js : js[k].run \in Plain
    \/ /\ WorkerAvailable /\ Len(js) = 1 /\ js[1].run = "poolReady" /\ Pending(js[1].who)
       /\ js[1].with = "ok" => \A u \in Threads(js[1].who) : thread'[u].model # "none"
    \/ /\ ~WorkerAvailable
       /\ \A k \in DOMAIN js : js[k].run \in Plain \/
             (js[k].run = "sharedReady" /\ js[k].who = sharedController /\ k = 1)
       /\ Pending(sharedController)
       /\ \A j \in DOMAIN thread'[SharedThread(sharedController)].queue :
             thread'[SharedThread(sharedController)].queue[j] # Init0

\* A task that delivers what thread t sent leaves the invariant true.
LEMMA EventStep ==
    ASSUME Core, Awake, NEW t \in Thread, Delivered(t), Hears(t), Queues',
           NEW js \in Seq(JobType), \A k \in DOMAIN js : WellFormed(js[k]), Queue(js), Told(js)
    PROVE  Core'
<1>0. /\ Types /\ jobs = <<>> /\ ~Closing /\ turn' = FALSE
      /\ UNCHANGED <<phase, capabilities, tiers, started, init, call, closing>>
  BY DEF Core, Delivered, BetweenTasks, Closing, session, options
<1>1. Calm
  BY <1>0, WhenCalm
<1>2. jobs' = js
  <2>1. <<>> \o js = js
    OBVIOUS
  <2> QED
    BY <1>0, <2>1 DEF Queue
<1>3. /\ jobs' \in Seq(JobType) /\ \A i \in Jobs' : WellFormed(i)
  BY <1>2 DEF Jobs
<1>4. /\ WorkerAvailable' = WorkerAvailable /\ SharedAvailable' = SharedAvailable
      /\ workerPool' = workerPool /\ workerInitialization' = workerInitialization
      /\ sharedController' = sharedController /\ sharedInitialization' = sharedInitialization
      /\ init' = init /\ ~Closing'
      /\ \A b \in Attempt : Threads(b) \subseteq Thread /\ \A u \in Threads(b) : u[1] = b
  BY <1>0, AttemptOf DEF tiers, WorkerAvailable, SharedAvailable, Closing, Threads
<1>5. Types'
  <2>1. thread' \in [Thread -> ThreadType] /\ turn' \in BOOLEAN
    BY <1>0 DEF Hears
  <2>2. call' = call /\ started' = started /\ closing' = closing
    BY <1>0
  <2> QED
    BY <1>0, <1>3, <1>4, <2>1, <2>2 DEF Types
<1>6. Booting'
  BY <1>0, StaysAwake
<1>7. Attempts'
  BY <1>4 DEF Core, Attempts, Pending
<1>8. /\ \A u \in Thread : thread'[u].alive = thread[u].alive
      /\ \A u \in Thread : thread[u].queue = <<>> => thread'[u].queue = <<>>
      /\ \A u \in Thread : ~Pending(u[1]) => thread'[u].model = thread[u].model
  BY DEF Hears
<1>9. ASSUME WorkerAvailable, NEW b \in Attempt
      PROVE  /\ init'[b].promise = "failed" => Dead(b)'
             /\ init'[b].promise = "ok" => ~Foreign(Threads(b))'
             /\ \A k \in DOMAIN init'[b].awaiting : init'[b].awaiting[k].run = "adoptPool"
  <2>1. init[b].promise = "failed" => Dead(b)'
    BY <1>4, <1>8, <1>9 DEF Core, PoolThreads, Dead
  <2>2. init[b].promise = "ok" => ~Foreign(Threads(b))'
    BY <1>4, <1>8, <1>9 DEF Core, PoolThreads, Foreign, Pending
  <2> QED
    BY <1>4, <1>9, <2>1, <2>2 DEF Core, PoolThreads
<1>10. ASSUME \A i \in Jobs' : i.run \notin {"sharedReady", "verifyShared"}
       PROVE  PoolThreads'
  BY <1>4, <1>8, <1>9, <1>10 DEF Core, PoolThreads
<1>11. ASSUME ~WorkerAvailable
       PROVE  /\ \A a \in Attempt : \A k \in DOMAIN init'[a].awaiting :
                    init'[a].awaiting[k].run = IF k = 1 THEN "verifyShared" ELSE "joinShared"
              /\ \A u \in Thread : thread'[u].alive => u = SharedThread(sharedController)'
  BY <1>4, <1>8, <1>11 DEF Core, Controller, SharedThread
<1>12. CASE \A k \in DOMAIN js : js[k].run \in Plain
  <2>1. \A i \in Jobs' : i.run \in Plain
    BY <1>2, <1>12 DEF Jobs
  <2>2. Calm'
    BY <1>1, <1>4, <2>1 DEF Calm, Plain, Chain, Pending
  <2>3. PoolThreads'
    BY <1>10, <2>1 DEF Plain
  <2>4. Controller'
    <3>1. Once("sharedReady")' /\ Once("verifyShared")'
      BY <2>1 DEF Once, Jobs, Plain
    <3> QED
      BY <1>4, <1>11, <2>1, <3>1 DEF Controller, Plain
  <2> QED
    BY <1>5, <1>6, <1>7, <2>2, <2>3, <2>4 DEF Core
<1>13. CASE /\ WorkerAvailable /\ Len(js) = 1 /\ js[1].run = "poolReady" /\ Pending(js[1].who)
            /\ js[1].with = "ok" => \A u \in Threads(js[1].who) : thread'[u].model # "none"
  <2>1. Coming'
    BY <1>0, <1>2, <1>4, <1>13 DEF Coming, Pending
  <2>2. \A i \in Jobs' : i.run \notin {"sharedReady", "verifyShared"}
    BY <1>2, <1>3, <1>13 DEF Jobs
  <2>3. PoolThreads'
    BY <1>10, <2>2
  <2>4. Controller'
    BY <1>4, <1>13 DEF Controller
  <2> QED
    BY <1>5, <1>6, <1>7, <2>1, <2>3, <2>4 DEF Core
<1>14. CASE /\ ~WorkerAvailable
            /\ \A k \in DOMAIN js : js[k].run \in Plain \/
                  (js[k].run = "sharedReady" /\ js[k].who = sharedController /\ k = 1)
            /\ Pending(sharedController)
            /\ \A j \in DOMAIN thread'[SharedThread(sharedController)].queue :
                  thread'[SharedThread(sharedController)].queue[j] # Init0
  <2>1. \A i \in Jobs' : i.run \in Plain \/ (i.run = "sharedReady" /\ i.who = sharedController)
    BY <1>2, <1>14 DEF Jobs
  <2>2. Calm'
    BY <1>1, <1>4, <2>1 DEF Calm, Plain, Chain, Pending
  <2>3. PoolThreads'
    BY <1>4, <1>14 DEF PoolThreads
  <2>4. Once("sharedReady")' /\ Once("verifyShared")'
    BY <1>2, <1>14 DEF Once, Plain
  <2>5. \A i \in Jobs' : i.run # "verifyShared"
    BY <2>1 DEF Plain
  <2>6. Pending(sharedController)' /\ SharedThread(sharedController)' = SharedThread(sharedController)
    BY <1>4, <1>14 DEF Pending, SharedThread
  <2>7. Controller'
    BY <1>4, <1>11, <1>14, <2>1, <2>4, <2>5, <2>6 DEF Controller, Plain
  <2> QED
    BY <1>5, <1>6, <1>7, <2>2, <2>3, <2>7 DEF Core
<1> QED
  BY <1>12, <1>13, <1>14 DEF Told

\* Thread t answers the k-th call that waits for it.
LEMMA TakesOne ==
    ASSUME Core, NEW t \in Thread, NEW k \in DOMAIN thread[t].queue, NEW model \in {"none", "match", "foreign"},
           thread' = [thread EXCEPT ![t].model = model, ![t].queue = RemoveAt(@, k)],
           model = thread[t].model \/ thread[t].queue[k] = Init0,
           Delivered(t)
    PROVE  /\ Hears(t) /\ Queues' /\ Awake
           /\ thread'[t].model = model
           /\ \A j \in DOMAIN thread'[t].queue : thread[t].queue[k] = Init0 => thread'[t].queue[j] # Init0
<1>0. /\ Types /\ UNCHANGED <<capabilities, tiers, init>>
  BY DEF Core, Delivered, session, options
<1>1. PICK q \in Seq(Rpc) : q = thread[t].queue
  BY <1>0 DEF Types, ThreadType
<1>2. k \in 1 .. Len(q) /\ Len(q) \in Nat /\ q # <<>> /\ DOMAIN q = 1 .. Len(q)
  BY <1>1
<1>3. PICK r : r = RemoveAt(q, k)
  OBVIOUS
<1>4. /\ r \in Seq(Rpc) /\ Len(r) = Len(q) - 1 /\ DOMAIN r = 1 .. Len(r)
      /\ \A j \in 1 .. Len(q) - 1 : j < k => r[j] = q[j]
      /\ \A j \in 1 .. Len(q) - 1 : j >= k => r[j] = q[j + 1]
  <2>1. /\ RemoveAt(q, k) \in Seq(Rpc) /\ Len(RemoveAt(q, k)) = Len(q) - 1
        /\ \A j \in 1 .. Len(q) - 1 : j < k => RemoveAt(q, k)[j] = q[j]
        /\ \A j \in 1 .. Len(q) - 1 : j >= k => RemoveAt(q, k)[j] = q[j + 1]
    BY <1>2, RemoveAtAt, Zenon
  <2> QED
    BY <1>3, <2>1
<1>5. \A j \in DOMAIN r : \E i \in DOMAIN q : /\ r[j] = q[i] /\ i # k
                                              /\ (j < k => i = j) /\ (j >= k => i = j + 1)
  <2> SUFFICES ASSUME NEW j \in DOMAIN r
               PROVE  \E i \in DOMAIN q : /\ r[j] = q[i] /\ i # k
                                          /\ (j < k => i = j) /\ (j >= k => i = j + 1)
    OBVIOUS
  <2>1. CASE j < k
    BY <1>2, <1>4, <2>1
  <2>2. CASE j >= k
    BY <1>2, <1>4, <2>2
  <2> QED
    BY <1>2, <1>4, <2>1, <2>2
<1>6. /\ thread'[t] = [thread[t] EXCEPT !.model = model, !.queue = r]
      /\ \A u \in Thread \ {t} : thread'[u] = thread[u]
      /\ thread \in [Thread -> ThreadType] /\ thread[t] \in ThreadType
  BY <1>0, <1>1, <1>3 DEF Types
<1>7. /\ thread'[t].alive = thread[t].alive /\ thread'[t].failure = thread[t].failure
      /\ thread'[t].model = model /\ thread'[t].queue = r /\ thread'[t] \in ThreadType
  BY <1>4, <1>6 DEF ThreadType
<1>8. thread' \in [Thread -> ThreadType]
  BY <1>6, <1>7
<1>9. q[k] = Init0 => k = 1 /\ Pending(t[1]) /\ (WorkerAvailable => q = <<Init0>>)
  BY <1>1 DEF Core, Queues
<1>10. \A i \in DOMAIN q : q[i] = Init0 => i = 1 /\ Pending(t[1]) /\ thread[t].model = "none" /\ (WorkerAvailable => Len(q) = 1)
  BY <1>1 DEF Core, Queues
<1>11. thread[t].failure = "none"
  BY <1>1, <1>2 DEF Core, Queues
<1>12. Hears(t)
  BY <1>1, <1>2, <1>6, <1>7, <1>8, <1>9 DEF Hears
<1>13. Awake
  BY <1>1, <1>2, IsAwake
<1>14. \A j \in DOMAIN r : r[j] = Init0 => /\ q[k] # Init0 /\ j = 1 /\ Pending(t[1])
                                           /\ thread[t].model = "none" /\ ~WorkerAvailable
  <2> SUFFICES ASSUME NEW j \in DOMAIN r, r[j] = Init0
               PROVE  /\ q[k] # Init0 /\ j = 1 /\ Pending(t[1])
                      /\ thread[t].model = "none" /\ ~WorkerAvailable
    OBVIOUS
  <2>1. PICK i \in DOMAIN q : r[j] = q[i] /\ i # k /\ (j < k => i = j) /\ (j >= k => i = j + 1)
    BY <1>5
  <2>2. i = 1 /\ Pending(t[1]) /\ thread[t].model = "none" /\ (WorkerAvailable => Len(q) = 1)
    BY <1>10, <2>1
  <2>3. j \in Nat /\ j # 0 /\ k \in Nat
    BY <1>2, <1>4
  <2> QED
    BY <1>2, <1>9, <2>1, <2>2, <2>3
<1>15. /\ WorkerAvailable' = WorkerAvailable /\ workerPool' = workerPool
       /\ sharedController' = sharedController /\ init' = init
  BY <1>0 DEF tiers, WorkerAvailable
<1>16. \A j \in DOMAIN r : r[j] \in Slot /\ WorkerAvailable => t[1] = workerPool
  BY <1>1, <1>5 DEF Core, Queues
<1>17. ~WorkerAvailable => t = SharedThread(sharedController)
  BY <1>1, <1>2 DEF Core, Queues
<1>18. Queues'
  <2> SUFFICES ASSUME NEW u \in Thread
               PROVE  /\ thread'[u].queue # <<>> => thread'[u].failure = "none"
                      /\ \A j \in DOMAIN thread'[u].queue : thread'[u].queue[j] = Init0 =>
                            /\ j = 1 /\ Pending(u[1])' /\ thread'[u].model = "none"
                            /\ WorkerAvailable' => thread'[u].queue = <<Init0>>
                      /\ IF WorkerAvailable'
                         THEN \A j \in DOMAIN thread'[u].queue : thread'[u].queue[j] \in Slot => u[1] = workerPool'
                         ELSE thread'[u].queue # <<>> => u = SharedThread(sharedController)'
    BY DEF Queues
  <2>1. CASE u = t
    BY <1>1, <1>7, <1>11, <1>14, <1>15, <1>16, <1>17, <2>1 DEF Pending, SharedThread
  <2>2. CASE u # t
    BY <1>6, <1>15, <2>2 DEF Core, Queues, Pending, SharedThread
  <2> QED
    BY <2>1, <2>2
<1> QED
  BY <1>1, <1>7, <1>12, <1>13, <1>14, <1>18

\* The one job an event queues.
LEMMA OneTold ==
    ASSUME NEW job \in JobType, WellFormed(job)
    PROVE  /\ <<job>> \in Seq(JobType) /\ Len(<<job>>) = 1 /\ <<job>>[1] = job
           /\ DOMAIN <<job>> = {1} /\ \A k \in DOMAIN <<job>> : WellFormed(<<job>>[k])
<1>1. <<job>> \in Seq(JobType) /\ Len(<<job>>) = 1 /\ <<job>>[1] = job
  OBVIOUS
<1>2. DOMAIN <<job>> = {1}
  OBVIOUS
<1> QED
  BY <1>1, <1>2

\* A thread that answers its initialize, with or without a tokenizer, tells the pool or
\* the controller at most once.
LEMMA InitEndsStep ==
    ASSUME Core, NEW t \in Thread, NEW k \in DOMAIN thread[t].queue, thread[t].queue[k] = Init0,
           NEW model \in {"none", "match", "foreign"}, NEW r \in {"ok", "error"},
           thread' = [thread EXCEPT ![t].model = model, ![t].queue = RemoveAt(@, k)],
           Delivered(t),
           \/ UNCHANGED jobs
           \/ /\ Queue(<<InitReaction(t[1], r)>>)
              /\ r = "ok" /\ WorkerAvailable => \A u \in Threads(t[1]) : thread'[u].model # "none"
    PROVE  Core'
<1>0. Types /\ t[1] \in Attempt /\ jobs = <<>>
  BY AttemptOf DEF Core, Delivered, BetweenTasks
<1>1. /\ Hears(t) /\ Queues' /\ Awake
      /\ \A j \in DOMAIN thread'[t].queue : thread'[t].queue[j] # Init0
  BY TakesOne
<1>2. CASE UNCHANGED jobs
  <2>1. PICK js : js = <<>>
    OBVIOUS
  <2>2. /\ js \in Seq(JobType) /\ \A j \in DOMAIN js : WellFormed(js[j])
        /\ \A j \in DOMAIN js : js[j].run \in Plain
    BY <2>1
  <2>3. Queue(js)
    BY <1>0, <1>2, <2>1 DEF Queue
  <2>4. Told(js)
    BY <2>2 DEF Told
  <2> QED
    BY <1>1, <2>2, <2>3, <2>4, EventStep
<1>3. CASE /\ Queue(<<InitReaction(t[1], r)>>)
           /\ r = "ok" /\ WorkerAvailable => \A u \in Threads(t[1]) : thread'[u].model # "none"
  <2>1. PICK job : job = InitReaction(t[1], r)
    OBVIOUS
  <2>2. /\ job \in JobType /\ WellFormed(job) /\ job.who = t[1] /\ job.with = r
        /\ job.run = IF WorkerAvailable THEN "poolReady" ELSE "sharedReady"
    BY <1>0, <2>1, InitJob
  <2>3. PICK js : js = <<job>>
    OBVIOUS
  <2>4. /\ js \in Seq(JobType) /\ Len(js) = 1 /\ js[1] = job /\ DOMAIN js = {1}
        /\ \A j \in DOMAIN js : WellFormed(js[j])
    BY <2>2, <2>3, OneTold
  <2>5. Queue(js)
    BY <1>3, <2>1, <2>3
  <2>6. Pending(t[1]) /\ (~WorkerAvailable => t = SharedThread(sharedController))
    BY DEF Core, Queues
  <2>7. Told(js)
    <3>1. CASE WorkerAvailable
      BY <1>3, <2>2, <2>4, <2>6, <3>1 DEF Told
    <3>2. CASE ~WorkerAvailable
      <4>1. t[1] = sharedController
        BY <2>6, <3>2 DEF SharedThread
      <4> QED
        BY <1>1, <2>2, <2>4, <2>6, <3>2, <4>1 DEF Told
    <3> QED
      BY <3>1, <3>2
  <2> QED
    BY <1>1, <2>4, <2>5, <2>7, EventStep
<1> QED
  BY <1>2, <1>3

\* Both answers to an initialize leave the invariant true.
LEMMA InitializesStep ==
    ASSUME Core, NEW t \in Thread, Initializes(t)
    PROVE  Core'
<1>0. /\ Types /\ \A a \in Attempt : Threads(a) \subseteq Thread
      /\ \A u \in Thread : thread[u] \in ThreadType
  BY AttemptOf DEF Core, Types
<1>1. CASE InitFailed(t)
  <2>1. PICK k \in DOMAIN thread[t].queue :
           /\ thread[t].queue[k] = Init0
           /\ thread' = [thread EXCEPT ![t].queue = RemoveAt(@, k)]
    BY <1>1 DEF InitFailed
  <2>2. PICK model \in {"none", "match", "foreign"} : model = thread[t].model
    BY <1>0 DEF ThreadType
  <2>3. thread' = [thread EXCEPT ![t].model = model, ![t].queue = RemoveAt(@, k)]
    <3>1. [thread[t] EXCEPT !.queue = RemoveAt(thread[t].queue, k)]
            = [[thread[t] EXCEPT !.model = model] EXCEPT !.queue = RemoveAt(thread[t].queue, k)]
      BY <1>0, <2>2 DEF ThreadType
    <3> QED
      BY <1>0, <2>1, <3>1 DEF Types
  <2>4. Delivered(t) /\ Queue(<<InitReaction(t[1], "error")>>)
    BY <1>1 DEF InitFailed
  <2> QED
    BY <2>1, <2>3, <2>4, InitEndsStep
<1>2. ASSUME NEW model \in {"match", "foreign"}, InitAnswered(t, model)
      PROVE  Core'
  <2>1. PICK k \in DOMAIN thread[t].queue :
           /\ thread[t].queue[k] = Init0
           /\ thread' = [thread EXCEPT ![t].model = model, ![t].queue = RemoveAt(@, k)]
    BY <1>2 DEF InitAnswered
  <2>2. Delivered(t)
    BY <1>2 DEF InitAnswered
  <2>3. thread'[t].model = model /\ Hears(t)
    BY <1>2, <2>1, <2>2, TakesOne
  <2>4. CASE SharedAvailable \/ \A u \in Threads(t[1]) \ {t} : thread[u].model # "none"
    <3>1. Queue(<<InitReaction(t[1], "ok")>>)
      BY <1>2, <2>4 DEF InitAnswered
    <3>2. WorkerAvailable => \A u \in Threads(t[1]) : thread'[u].model # "none"
      <4>1. ASSUME WorkerAvailable, NEW u \in Threads(t[1]) PROVE thread'[u].model # "none"
        <5>1. u \in Thread /\ (u # t => thread[u].model # "none")
          BY <1>0, <2>4, <4>1, AttemptOf, TiersExclude
        <5> QED
          BY <2>3, <5>1 DEF Hears
      <4> QED
        BY <4>1
    <3> QED
      BY <2>1, <2>2, <3>1, <3>2, InitEndsStep
  <2>5. CASE ~(SharedAvailable \/ \A u \in Threads(t[1]) \ {t} : thread[u].model # "none")
    <3>1. UNCHANGED jobs
      BY <1>2, <2>5 DEF InitAnswered
    <3> QED
      BY <2>1, <2>2, <3>1, InitEndsStep
  <2> QED
    BY <2>4, <2>5
<1> QED
  BY <1>1, <1>2 DEF Initializes

\* So does the answer to an encode.
LEMMA AnswersStep ==
    ASSUME Core, NEW t \in Thread, Answers(t)
    PROVE  Core'
<1>0. /\ Types /\ \A u \in Thread : thread[u] \in ThreadType
  BY DEF Core, Types
<1>1. PICK with \in {"ids", "error"} : EncodeAnswered(t, with)
  BY DEF Answers
<1>2. PICK r : r = CASE with = "error" -> "error"
                     [] with = "ids" /\ thread[t].model = "foreign" -> "foreign"
                     [] OTHER -> "exact"
  OBVIOUS
<1>3. PICK k \in DOMAIN thread[t].queue :
         /\ thread[t].queue[k] # Init0
         /\ thread' = [thread EXCEPT ![t].queue = RemoveAt(@, k)]
         /\ Queue(<<EncodeReaction(thread[t].queue[k], call[thread[t].queue[k]].tier, r)>>)
  BY <1>1, <1>2 DEF EncodeAnswered
<1>4. PICK model \in {"none", "match", "foreign"} : model = thread[t].model
  BY <1>0 DEF ThreadType
<1>5. thread' = [thread EXCEPT ![t].model = model, ![t].queue = RemoveAt(@, k)]
  <2>1. [thread[t] EXCEPT !.queue = RemoveAt(thread[t].queue, k)]
          = [[thread[t] EXCEPT !.model = model] EXCEPT !.queue = RemoveAt(thread[t].queue, k)]
    BY <1>0, <1>4 DEF ThreadType
  <2> QED
    BY <1>0, <1>3, <2>1 DEF Types, Core
<1>6. Delivered(t)
  BY <1>1 DEF EncodeAnswered
<1>7. Hears(t) /\ Queues' /\ Awake
  BY <1>4, <1>5, <1>6, TakesOne
<1>8. PICK c \in Slot : c = thread[t].queue[k]
  <2>1. thread[t].queue \in Seq(Rpc)
    BY <1>0 DEF ThreadType
  <2>2. thread[t].queue[k] \in Rpc
    BY <2>1, InSeq, Zenon
  <2> QED
    BY <1>3, <2>2 DEF Rpc
<1>9. PICK job : job = EncodeReaction(c, call[c].tier, r)
  OBVIOUS
<1>10. job \in JobType /\ WellFormed(job) /\ job.run = "encoded"
  <2>1. r \in Outcomes
    BY <1>2 DEF Outcomes
  <2> QED
    BY <1>9, <2>1, ReactionJob
<1>11. PICK js : js = <<job>>
  OBVIOUS
<1>12. /\ js \in Seq(JobType) /\ js[1] = job /\ DOMAIN js = {1}
       /\ \A j \in DOMAIN js : WellFormed(js[j])
  BY <1>10, <1>11, OneTold
<1>13. Queue(js)
  BY <1>3, <1>8, <1>9, <1>11
<1>14. Told(js)
  BY <1>10, <1>12 DEF Told, Plain
<1> QED
  BY <1>6, <1>7, <1>12, <1>13, <1>14, EventStep

\* So does an error event, which rejects all that waits for the thread.
LEMMA FaultStep ==
    ASSUME Core, NEW t \in Thread, Fault(t)
    PROVE  Core'
<1>0. /\ Types /\ thread \in [Thread -> ThreadType] /\ thread[t] \in ThreadType
      /\ Delivered(t) /\ thread[t].alive /\ Queue(Rejections(t))
      /\ thread' = [thread EXCEPT ![t] = FailedThread(t)]
  BY DEF Core, Types, Fault
<1>1. /\ FailedThread(t) \in ThreadType /\ FailedThread(t).alive = thread[t].alive
      /\ FailedThread(t).model = thread[t].model /\ FailedThread(t).queue = <<>>
  <2>1. <<>> \in Seq(Rpc)
    OBVIOUS
  <2> QED
    BY <1>0, <2>1 DEF FailedThread, ThreadType
<1>2. /\ thread'[t] = FailedThread(t) /\ thread' \in [Thread -> ThreadType]
      /\ \A u \in Thread \ {t} : thread'[u] = thread[u]
  BY <1>0, <1>1
<1>3. Hears(t)
  BY <1>1, <1>2 DEF Hears
<1>4. Awake
  BY <1>0, IsAwake
<1>5. /\ UNCHANGED <<capabilities, workerPool, sharedController, init>>
  BY <1>0 DEF Delivered, session, options, tiers
<1>6. Queues'
  <2> SUFFICES ASSUME NEW u \in Thread
               PROVE  /\ thread'[u].queue # <<>> => thread'[u].failure = "none"
                      /\ \A j \in DOMAIN thread'[u].queue : thread'[u].queue[j] = Init0 =>
                            /\ j = 1 /\ Pending(u[1])' /\ thread'[u].model = "none"
                            /\ WorkerAvailable' => thread'[u].queue = <<Init0>>
                      /\ IF WorkerAvailable'
                         THEN \A j \in DOMAIN thread'[u].queue : thread'[u].queue[j] \in Slot => u[1] = workerPool'
                         ELSE thread'[u].queue # <<>> => u = SharedThread(sharedController)'
    BY DEF Queues
  <2>1. CASE u = t
    BY <1>1, <1>2, <2>1
  <2>2. CASE u # t
    BY <1>2, <1>5, <2>2 DEF Core, Queues, Pending, SharedThread, WorkerAvailable
  <2> QED
    BY <2>1, <2>2
<1>7. PICK js : js = Rejections(t)
  OBVIOUS
<1>8. /\ js \in Seq(JobType) /\ Len(js) = Len(thread[t].queue)
      /\ \A k \in DOMAIN js :
            /\ WellFormed(js[k]) /\ k \in DOMAIN thread[t].queue
            /\ js[k].with = "error"
            /\ IF thread[t].queue[k] = Init0
               THEN /\ js[k].run = IF WorkerAvailable THEN "poolReady" ELSE "sharedReady"
                    /\ js[k].who = t[1]
               ELSE js[k].run = "encoded"
  BY <1>0, <1>7, RejectionJobs
<1>9. Told(js)
  <2>1. CASE \A k \in DOMAIN js : thread[t].queue[k] # Init0
    BY <1>8, <2>1 DEF Told, Plain
  <2>2. ASSUME NEW i \in DOMAIN js, thread[t].queue[i] = Init0
        PROVE  Told(js)
    <3>1. /\ i = 1 /\ Pending(t[1]) /\ (WorkerAvailable => thread[t].queue = <<Init0>>)
          /\ (~WorkerAvailable => t = SharedThread(sharedController))
      BY <1>8, <2>2 DEF Core, Queues
    <3>2. CASE WorkerAvailable
      <4>1. Len(js) = 1
        BY <1>8, <3>1, <3>2
      <4> QED
        BY <1>8, <2>2, <3>1, <3>2, <4>1 DEF Told
    <3>3. CASE ~WorkerAvailable
      <4>1. t[1] = sharedController /\ SharedThread(sharedController) = t
        BY <3>1, <3>3 DEF SharedThread
      <4>2. \A k \in DOMAIN js : js[k].run \in Plain \/ (js[k].run = "sharedReady" /\ js[k].who = sharedController /\ k = 1)
        BY <1>8, <3>3, <4>1 DEF Core, Queues, Plain
      <4>3. \A j \in DOMAIN thread'[t].queue : thread'[t].queue[j] # Init0
        BY <1>1, <1>2
      <4> QED
        BY <3>1, <3>3, <4>1, <4>2, <4>3 DEF Told
    <3> QED
      BY <3>2, <3>3
  <2> QED
    BY <2>1, <2>2
<1>10. Queue(js)
  BY <1>0, <1>7
<1> QED
  BY <1>0, <1>3, <1>4, <1>6, <1>8, <1>9, <1>10, EventStep

---------------------------------------------------------------------------
\* The session

\* A close that is on the stack is among the workers of the pool there is.
LEMMA ClosingPoolStep ==
    ASSUME Core, ClosingPool, [Next]_vars
    PROVE  ClosingPool'
<1>0. /\ Types /\ workerPool \in 0 .. MaxAttempts /\ closing.worker \in 0 .. WorkerCount
  BY DEF Core, Types
<1>1. CASE closing' = closing /\ workerPool' = workerPool
  BY <1>1 DEF ClosingPool, Closing
<1>2. CASE closing' = NotClosing
  BY <1>2 DEF ClosingPool, Closing
<1>3. ASSUME NEW c \in Slot, Close(c) PROVE ClosingPool'
  <2>1. CASE workerPool # 0
    BY <1>3, <2>1 DEF Close, tiers, ClosingPool, Closing
  <2>2. CASE workerPool = 0
    BY <1>1, <1>3, <2>2 DEF Close, tiers
  <2> QED
    BY <2>1, <2>2
<1>4. CASE CloseWorker
  <2>1. CASE closing.worker = WorkerCount
    BY <1>2, <1>4, <2>1 DEF CloseWorker
  <2>2. CASE closing.worker # WorkerCount
    <3>1. closing' = [closing EXCEPT !.worker = @ + 1] /\ workerPool' = workerPool /\ workerPool # 0
      BY <1>4, <2>2 DEF CloseWorker, tiers, ClosingPool, Closing
    <3>2. closing'.worker # 0
      BY <1>0, <3>1 DEF Types
    <3> QED
      BY <3>1, <3>2 DEF ClosingPool
  <2> QED
    BY <2>1, <2>2
<1>5. CASE AdoptPool
  BY <1>2, <1>5 DEF AdoptPool, Runs
<1>6. ASSUME NEW c \in Caller, NEW r \in Tiers \union {"auto"}, EnsureTier(c, r) PROVE ClosingPool'
  <2>1. closing' = closing /\ workerPool' = workerPool
    BY <1>6 DEF EnsureTier, RefuseTier, ReuseSingle, RefuseImage, ReusePool, JoinPool, StartPool, JoinShared,
                StartShared, Activate, tiers
  <2> QED
    BY <1>1, <2>1
<1>7. ASSUME NEW c \in Slot, Client(c) PROVE ClosingPool'
  <2>1. ASSUME NEW op \in EncodeOps, Encode(c, op) PROVE closing' = closing /\ workerPool' = workerPool
    BY <2>1 DEF Encode, RefuseEncode, EncodeResident, EncodeOnPool, EncodeOnController, EncodeWithoutController,
                Encoding, tiers
  <2>2. CASE CloseAgain(c)
    BY <1>1, <2>2 DEF CloseAgain, tiers
  <2> QED
    BY <1>1, <1>3, <1>6, <1>7, <2>1, <2>2 DEF Client, Caller
<1>8. CASE Continue
  <2>1. CASE Tick \/ ClientResumes \/ PoolReady \/ PoolUnusable \/ PoolFailed \/ PoolRefused
    BY <1>1, <2>1 DEF Tick, ClientResumes, PoolReady, PoolUnusable, PoolFailed, PoolRefused, tiers
  <2>2. CASE SharedReady \/ VerifyShared \/ SharedUnusable \/ JoinedShared \/ Booted \/ BootRefused \/ BootClosed
    BY <1>1, <2>2 DEF SharedReady, VerifyShared, SharedUnusable, JoinedShared, Booted, BootRefused, BootClosed, tiers
  <2>3. CASE CloseController \/ FreeSingle \/ EncodeResumes \/ DetailedResumes
    BY <1>1, <2>3 DEF CloseController, FreeSingle, EncodeResumes, DetailedResumes, tiers
  <2> QED
    BY <1>4, <1>5, <1>8, <2>1, <2>2, <2>3 DEF Continue
<1>9. ASSUME NEW t \in Thread, Initializes(t) \/ Answers(t) \/ Fault(t) PROVE ClosingPool'
  <2>1. Delivered(t)
    BY <1>9 DEF Initializes, InitAnswered, InitFailed, Answers, EncodeAnswered, Fault
  <2> QED
    BY <1>1, <2>1 DEF Delivered, tiers
<1>10. CASE UNCHANGED vars
  BY <1>1, <1>10 DEF vars, tiers
<1> QED
  BY <1>6, <1>7, <1>8, <1>9, <1>10 DEF Next, Refused, Caller

\* A session starts with nothing activated, queued or closing.
LEMMA Initially ==
    ASSUME Init
    PROVE  Core /\ ClosingPool
<1>0. 0 \in 0 .. MaxAttempts /\ 0 \in 0 .. WorkerCount /\ 1 \in 1 .. WorkerCount
  BY BoundAssumption
<1>1. /\ NoInit \in InitType /\ NoThread \in ThreadType /\ IdleCall \in [op: Ops, tier: Tiers]
      /\ NotClosing \in [who: Caller, worker: 0 .. WorkerCount] /\ <<>> \in Seq(JobType)
  <2>1. <<>> \in Seq([run: Awaits, who: Caller]) /\ <<>> \in Seq(Rpc) /\ <<>> \in Seq(JobType)
    OBVIOUS
  <2> QED
    BY <1>0, <2>1 DEF NoInit, InitType, NoThread, ThreadType, IdleCall, Ops, Tiers, NotClosing, Caller
<1>2. /\ workerPool = 0 /\ workerInitialization = 0 /\ sharedController = 0 /\ sharedInitialization = 0
      /\ started = 0 /\ jobs = <<>> /\ turn = FALSE /\ closing = NotClosing
      /\ init = [a \in Attempt |-> NoInit] /\ thread = [t \in Thread |-> NoThread]
      /\ call = [c \in Caller |-> IdleCall]
  BY DEF Init
<1>3. Jobs = {}
  BY <1>2 DEF Jobs
<1>4. Types
  BY <1>0, <1>1, <1>2, <1>3 DEF Types
<1>5. /\ \A a \in Attempt : init[a].promise = "none" /\ init[a].awaiting = <<>>
      /\ \A t \in Thread : ~thread[t].alive /\ thread[t].queue = <<>>
  BY <1>2 DEF NoInit, NoThread
<1>6. Booting /\ Queues /\ Attempts /\ Calm
  BY <1>2, <1>3, <1>5 DEF Booting, Closing, Queues, Attempts, Calm, Pending
<1>7. PoolThreads
  BY <1>3, <1>5 DEF PoolThreads
<1>8. Once("sharedReady") /\ Once("verifyShared")
  BY <1>2 DEF Once
<1>9. Controller
  BY <1>3, <1>5, <1>8 DEF Controller
<1> QED
  BY <1>2, <1>4, <1>6, <1>7, <1>9 DEF Core, ClosingPool, Closing

\* Every step of a session leaves the invariant true.
LEMMA CoreStep ==
    ASSUME Core, ClosingPool, [Next]_vars
    PROVE  Core'
<1>1. ASSUME NEW r \in Tiers, EnsureTier(Boot, r) PROVE Core'
  BY <1>1, EnsureTierStep DEF Caller
<1>2. ASSUME NEW c \in Slot, Client(c) PROVE Core'
  BY <1>2, ClientStep
<1>3. CASE Continue
  BY <1>3, TickStep, PlainJobStep, PoolJobStep, PoolUnusableStep, SharedReadyStep, SharedUnusableStep,
     CloseWorkerStep, CloseControllerStep DEF Continue, PlainJobs
<1>4. ASSUME NEW t \in Thread, Initializes(t) \/ Answers(t) \/ Fault(t) PROVE Core'
  BY <1>4, InitializesStep, AnswersStep, FaultStep
<1>5. CASE UNCHANGED vars
  <2>1. /\ UNCHANGED <<phase, capabilities, workerPool, workerInitialization, sharedController,
                       sharedInitialization, started, init, thread, call, closing, jobs, turn>>
    BY <1>5 DEF vars, session, options, tiers
  <2>2. /\ WorkerAvailable' = WorkerAvailable /\ SharedAvailable' = SharedAvailable
        /\ Jobs' = Jobs /\ Closing' = Closing
        /\ SharedThread(sharedController)' = SharedThread(sharedController)
    BY <2>1 DEF WorkerAvailable, SharedAvailable, Jobs, Closing, SharedThread
  <2>3. Types' /\ Booting'
    BY <2>1, <2>2 DEF Core, Types, Booting
  <2>4. Queues' /\ Attempts'
    BY <2>1, <2>2 DEF Core, Queues, Attempts, Pending
  <2>5. (Calm \/ Coming \/ Adopting)'
    BY <2>1, <2>2 DEF Core, Calm, Coming, Adopting, Pending, Dead, Adopts
  <2>6. PoolThreads' /\ Controller'
    BY <2>1, <2>2 DEF Core, PoolThreads, Controller, Pending, Dead, Foreign, Once
  <2> QED
    BY <2>3, <2>4, <2>5, <2>6 DEF Core
<1> QED
  BY <1>1, <1>2, <1>3, <1>4, <1>5 DEF Next, Refused

\* The invariant holds of every session, whatever the number of workers, of clients in
\* flight and of activations, and on every browser.
THEOREM CoreInvariant == Spec => [](Core /\ ClosingPool)
<1>1. Init => Core /\ ClosingPool
  BY Initially
<1>2. Core /\ ClosingPool /\ [Next]_vars => (Core /\ ClosingPool)'
  BY CoreStep, ClosingPoolStep
<1> QED
  BY <1>1, <1>2, PTL DEF Spec

\* Callers that switch together share one activation (ensureTier): no two are ever under
\* way at once, for every number of callers, workers and activations.
THEOREM SessionOneActivation == Spec => []OneActivation
<1>1. Core => OneActivation
  <2> SUFFICES ASSUME Core PROVE Cardinality(Activated) <= 1
    BY DEF OneActivation
  <2>1. workerInitialization = 0 \/ sharedInitialization = 0
    BY TiersExclude DEF Core, Attempts
  <2>2. \A a \in Activated : a \in {workerInitialization, sharedInitialization} /\ a # 0
    BY DEF Core, Attempts, Activated, Pending, Attempt
  <2>3. \E a : Activated \subseteq {a}
    BY <2>1, <2>2
  <2>4. Activated = {} \/ \E a : Activated = {a}
    BY <2>3
  <2>5. CASE Activated = {}
    BY <2>5, FS_EmptySet
  <2>6. ASSUME NEW a, Activated = {a} PROVE Cardinality(Activated) <= 1
    <3>1. Cardinality({a}) = 1
      BY FS_Singleton
    <3> QED
      BY <2>6, <3>1
  <2> QED
    BY <2>4, <2>5, <2>6
<1> QED
  BY <1>1, CoreInvariant, PTL

\* No worker thread of an open session is lost track of (the catch blocks of
\* initializeWorkerPool and ensureTier, and the reset of their variables), for every
\* number of callers, workers and activations.
THEOREM SessionThreadsOwned == Spec => []ThreadsOwned
<1>1. Core => ThreadsOwned
  BY DEF Core, PoolThreads, Controller, ThreadsOwned, SharedThread
<1> QED
  BY <1>1, CoreInvariant, PTL

(***************************************************************************)
(* What the clients of TierRuntime see, for any number of workers, of      *)
(* calls in flight and of activations, in any browser: TierRuntime         *)
(* implements TokenizerSession.                                            *)
(*                                                                         *)
(* The invariant Session, over Core, follows the call of each client: it   *)
(* is in one place (a job of the microtask queue, the queue of a thread,   *)
(* the awaits of an activation or close()), which fits what it is, and an  *)
(* encode is never nowhere (Placed); what close() has still to reject is   *)
(* still posted (Closed); the outcome an encode goes on with is one its    *)
(* session may give it when the client takes it (Answered); and the        *)
(* threads that can answer are of the session's vocabulary (Vocabulary).   *)
(***************************************************************************)

Internal == {"poolReady", "poolFailed", "sharedReady"}

\* Whether a job goes on with the call of c.
Of(job, c) == job.run \notin Internal /\ job.who = c

\* The jobs a call leads to.
RunsOf(op) ==
    CASE op = "switch" -> Awaits \union {"client"}
      [] op = "close"  -> {"poolClosed", "freeSingle", "client"}
      [] op \in {"encode", "detailed"} -> {"encoded", "detailed", "client"}
      [] OTHER -> {}

\* Where the call of c may be.
HasJob(c) == \E k \in DOMAIN jobs : Of(jobs[k], c)
Posted(c) == \E t \in Thread : \E k \in DOMAIN thread[t].queue : thread[t].queue[k] = c
Joined(c) == \E a \in Attempt : \E k \in DOMAIN init[a].awaiting : init[a].awaiting[k].who = c
Closer(c) == Closing /\ closing.who = c

OneJob(c)  == \A j, k \in DOMAIN jobs : Of(jobs[j], c) /\ Of(jobs[k], c) => j = k
OnePost(c) == \A t, u \in Thread : \A j \in DOMAIN thread[t].queue : \A k \in DOMAIN thread[u].queue :
                 thread[t].queue[j] = c /\ thread[u].queue[k] = c => t = u /\ j = k
OneJoin(c) == \A a, b \in Attempt : \A j \in DOMAIN init[a].awaiting : \A k \in DOMAIN init[b].awaiting :
                 init[a].awaiting[j].who = c /\ init[b].awaiting[k].who = c => a = b /\ j = k

\* The call of c is in one place, which fits it, and an encode is never lost.
Placed(c) ==
    /\ OneJob(c) /\ OnePost(c) /\ OneJoin(c)
    /\ \A k \in DOMAIN jobs : Of(jobs[k], c) => jobs[k].run \in RunsOf(call[c].op)
    /\ Posted(c) => Encodes(c)
    /\ Joined(c) => call[c].op = "switch"
    /\ Closer(c) => call[c].op = "close"
    /\ HasJob(c) => ~Posted(c) /\ ~Joined(c) /\ ~Closer(c)
    /\ Encodes(c) => HasJob(c) \/ Posted(c)

AllPlaced == \A c \in Slot : Placed(c)

\* What close() has behind it: the encodes it has not come to yet are still posted.
Closed ==
    /\ closed \in BOOLEAN /\ freed \in BOOLEAN
    /\ freed \/ Closing => closed
    /\ \A job \in Jobs : job.run \in {"poolClosed", "freeSingle"} => closed
    /\ closed => \A t \in Thread : \A k \in DOMAIN thread[t].queue : thread[t].queue[k] \in Slot =>
          \/ Closing /\ t[2] >= closing.worker
          \/ ~WorkerAvailable /\ \E job \in Jobs : job.run = "poolClosed"

Alone == Len(jobs) = 1 /\ ~turn /\ ~Closing /\ ~closed

\* What an encode goes on with.
AnsweredAt(k) ==
    /\ jobs[k].run = "encoded" => jobs[k].with = "error" \/ (jobs[k].with = "exact" /\ Alone)
    /\ jobs[k].run = "detailed" =>
          /\ jobs[k].ticks = 1
          /\ \/ jobs[k].with = "rejected" /\ closed
             \/ /\ jobs[k].with = "exact" /\ ~freed
                /\ \A j \in DOMAIN jobs : j < k => jobs[j].run \notin {"poolClosed", "freeSingle"}
    /\ jobs[k].run = "client" /\ Encodes(jobs[k].who) => jobs[k].with \in {"exact", "rejected"}
Answered == \A k \in DOMAIN jobs : AnsweredAt(k)

\* A controller of another vocabulary answers nobody before it has been verified.
Arriving ==
    /\ jobs # <<>> /\ ~turn /\ ~Closing /\ jobs[1].with = "ok"
    /\ \/ jobs[1].run = "sharedReady" /\ Len(jobs) = 1
       \/ jobs[1].run = "verifyShared"
Vocabulary ==
    /\ \A t \in Thread : thread[t].model = "foreign" => Htk
    /\ ~WorkerAvailable /\ sharedController # 0 =>
          \/ thread[SharedThread(sharedController)].model # "foreign"
          \/ thread[SharedThread(sharedController)].failure # "none"
          \/ Arriving

Session == AllPlaced /\ Closed /\ Answered /\ Vocabulary

---------------------------------------------------------------------------
\* Where a call is

\* The jobs of c are what they were.
JobsStay(c) ==
    /\ OneJob(c) => OneJob(c)'
    /\ HasJob(c)' <=> HasJob(c)
    /\ \A k \in DOMAIN jobs' : Of(jobs'[k], c) => \E i \in DOMAIN jobs : jobs'[k] = jobs[i]
    /\ \A i \in DOMAIN jobs : Of(jobs[i], c) => \E k \in DOMAIN jobs' : jobs'[k] = jobs[i]

\* c has one job, this one.
OnlyJob(c, job) ==
    /\ OneJob(c)' /\ HasJob(c)'
    /\ \A k \in DOMAIN jobs' : Of(jobs'[k], c) => jobs'[k] = job

\* Code on the stack that queues other jobs leaves those of c as they are.
LEMMA QueueStays ==
    ASSUME Types, NEW js \in Seq(JobType), \A k \in DOMAIN js : WellFormed(js[k]), Queue(js),
           NEW c, \A k \in DOMAIN js : ~Of(js[k], c)
    PROVE  JobsStay(c)
<1>1. /\ \A k \in DOMAIN jobs : k \in DOMAIN jobs' /\ jobs'[k] = jobs[k]
      /\ \A k \in DOMAIN jobs' : k \in DOMAIN jobs \/
            (k > Len(jobs) /\ k - Len(jobs) \in DOMAIN js /\ jobs'[k] = js[k - Len(jobs)])
  BY Queued
<1>2. \A k \in DOMAIN jobs' : Of(jobs'[k], c) => k \in DOMAIN jobs /\ jobs'[k] = jobs[k]
  BY <1>1
<1>3. OneJob(c) => OneJob(c)'
  BY <1>2 DEF OneJob
<1>4. HasJob(c)' <=> HasJob(c)
  BY <1>1, <1>2 DEF HasJob
<1> QED
  BY <1>1, <1>2, <1>3, <1>4 DEF JobsStay

\* A job that runs and is not c's, and what it queues, leave those of c as they are.
LEMMA ResumeStays ==
    ASSUME Types, NEW js \in Seq(JobType), \A k \in DOMAIN js : WellFormed(js[k]), Resume(js), jobs # <<>>,
           NEW c, \A k \in DOMAIN js : ~Of(js[k], c), ~Of(Head(jobs), c)
    PROVE  JobsStay(c)
<1>1. /\ \A k \in DOMAIN jobs : k # 1 => k - 1 \in DOMAIN jobs' /\ jobs'[k - 1] = jobs[k]
      /\ \A k \in DOMAIN jobs' :
            \/ k < Len(jobs) /\ k + 1 \in DOMAIN jobs /\ jobs'[k] = jobs[k + 1]
            \/ k >= Len(jobs) /\ k - Len(jobs) + 1 \in DOMAIN js /\ jobs'[k] = js[k - Len(jobs) + 1]
      /\ jobs' \in Seq(JobType)
  BY Resumed
<1>2. \A k \in DOMAIN jobs' : Of(jobs'[k], c) => k + 1 \in DOMAIN jobs /\ jobs'[k] = jobs[k + 1]
  BY <1>1
<1>3. \A k \in DOMAIN jobs : Of(jobs[k], c) => k - 1 \in DOMAIN jobs' /\ jobs'[k - 1] = jobs[k]
  <2>1. Head(jobs) = jobs[1]
    BY HeadJob
  <2> QED
    BY <1>1, <2>1
<1>4. OneJob(c) => OneJob(c)'
  <2> SUFFICES ASSUME OneJob(c), NEW j \in DOMAIN jobs', NEW k \in DOMAIN jobs', Of(jobs'[j], c), Of(jobs'[k], c)
               PROVE  j = k
    BY DEF OneJob
  <2>1. j + 1 = k + 1
    BY <1>2 DEF OneJob
  <2>2. j \in Nat /\ k \in Nat
    BY <1>1
  <2> QED
    BY <2>1, <2>2
<1>5. HasJob(c)' <=> HasJob(c)
  BY <1>2, <1>3 DEF HasJob
<1> QED
  BY <1>2, <1>3, <1>4, <1>5 DEF JobsStay

\* Code on the stack queues the one job of c.
LEMMA QueueComes ==
    ASSUME Types, NEW js \in Seq(JobType), \A k \in DOMAIN js : WellFormed(js[k]), Queue(js),
           NEW c, ~HasJob(c), NEW i \in DOMAIN js, Of(js[i], c), \A k \in DOMAIN js : Of(js[k], c) => k = i
    PROVE  OnlyJob(c, js[i])
<1>1. /\ \A k \in DOMAIN jobs : k \in DOMAIN jobs' /\ jobs'[k] = jobs[k]
      /\ \A k \in DOMAIN js : Len(jobs) + k \in DOMAIN jobs' /\ jobs'[Len(jobs) + k] = js[k]
      /\ \A k \in DOMAIN jobs' : k \in DOMAIN jobs \/
            (k > Len(jobs) /\ k - Len(jobs) \in DOMAIN js /\ jobs'[k] = js[k - Len(jobs)])
      /\ jobs' \in Seq(JobType) /\ jobs \in Seq(JobType)
  BY Queued DEF Types
<1>2. \A k \in DOMAIN jobs' : Of(jobs'[k], c) => k - Len(jobs) = i /\ jobs'[k] = js[i]
  BY <1>1 DEF HasJob
<1>3. HasJob(c)'
  BY <1>1 DEF HasJob
<1>4. OneJob(c)'
  <2> SUFFICES ASSUME NEW j \in DOMAIN jobs', NEW k \in DOMAIN jobs', Of(jobs'[j], c), Of(jobs'[k], c)
               PROVE  j = k
    BY DEF OneJob
  <2>1. j - Len(jobs) = k - Len(jobs)
    BY <1>2
  <2>2. j \in Nat /\ k \in Nat /\ Len(jobs) \in Nat
    BY <1>1
  <2> QED
    BY <2>1, <2>2
<1> QED
  BY <1>2, <1>3, <1>4 DEF OnlyJob

\* The jobs left when the head, c's only one, has run are not c's.
LEMMA NoneLeft ==
    ASSUME Types, jobs # <<>>, NEW c, ~HasJob(c) \/ (OneJob(c) /\ Of(Head(jobs), c))
    PROVE  \A k \in DOMAIN jobs : k # 1 => ~Of(jobs[k], c)
<1>1. 1 \in DOMAIN jobs /\ Head(jobs) = jobs[1]
  BY HeadJob
<1> QED
  BY <1>1 DEF HasJob, OneJob

\* The job that runs queues the one job of c, who has none or has it from this one.
LEMMA ResumeComes ==
    ASSUME Types, NEW js \in Seq(JobType), \A k \in DOMAIN js : WellFormed(js[k]), Resume(js), jobs # <<>>,
           NEW c, ~HasJob(c) \/ (OneJob(c) /\ Of(Head(jobs), c)),
           NEW i \in DOMAIN js, Of(js[i], c), \A k \in DOMAIN js : Of(js[k], c) => k = i
    PROVE  OnlyJob(c, js[i])
<1>0. \A k \in DOMAIN jobs : k # 1 => ~Of(jobs[k], c)
  BY NoneLeft
<1>1. /\ \A k \in DOMAIN js : Len(jobs) - 1 + k \in DOMAIN jobs' /\ jobs'[Len(jobs) - 1 + k] = js[k]
      /\ \A k \in DOMAIN jobs' :
            \/ k < Len(jobs) /\ k + 1 \in DOMAIN jobs /\ jobs'[k] = jobs[k + 1]
            \/ k >= Len(jobs) /\ k - Len(jobs) + 1 \in DOMAIN js /\ jobs'[k] = js[k - Len(jobs) + 1]
      /\ jobs' \in Seq(JobType) /\ jobs \in Seq(JobType)
  BY Resumed DEF Types
<1>2. \A k \in DOMAIN jobs' : k \in Nat /\ k # 0
  BY <1>1
<1>3. \A k \in DOMAIN jobs' : Of(jobs'[k], c) => k - Len(jobs) + 1 = i /\ jobs'[k] = js[i]
  <2> SUFFICES ASSUME NEW k \in DOMAIN jobs', Of(jobs'[k], c)
               PROVE  k - Len(jobs) + 1 = i /\ jobs'[k] = js[i]
    OBVIOUS
  <2>1. k + 1 # 1
    BY <1>2
  <2> QED
    BY <1>0, <1>1, <2>1
<1>4. HasJob(c)'
  BY <1>1 DEF HasJob
<1>5. OneJob(c)'
  <2> SUFFICES ASSUME NEW j \in DOMAIN jobs', NEW k \in DOMAIN jobs', Of(jobs'[j], c), Of(jobs'[k], c)
               PROVE  j = k
    BY DEF OneJob
  <2>1. j - Len(jobs) + 1 = k - Len(jobs) + 1
    BY <1>3
  <2>2. Len(jobs) \in Nat
    BY <1>1
  <2> QED
    BY <1>2, <2>1, <2>2
<1> QED
  BY <1>3, <1>4, <1>5 DEF OnlyJob

\* The job of c has run and queues nothing for it.
LEMMA ResumeLeaves ==
    ASSUME Types, NEW js \in Seq(JobType), \A k \in DOMAIN js : WellFormed(js[k]), Resume(js), jobs # <<>>,
           NEW c, ~HasJob(c) \/ (OneJob(c) /\ Of(Head(jobs), c)), \A k \in DOMAIN js : ~Of(js[k], c)
    PROVE  ~HasJob(c)'
<1>0. \A k \in DOMAIN jobs : k # 1 => ~Of(jobs[k], c)
  BY NoneLeft
<1>1. /\ \A k \in DOMAIN jobs' :
            \/ k < Len(jobs) /\ k + 1 \in DOMAIN jobs /\ jobs'[k] = jobs[k + 1]
            \/ k >= Len(jobs) /\ k - Len(jobs) + 1 \in DOMAIN js /\ jobs'[k] = js[k - Len(jobs) + 1]
      /\ jobs' \in Seq(JobType)
  BY Resumed
<1>2. \A k \in DOMAIN jobs' : k \in Nat /\ k + 1 # 1
  BY <1>1
<1> QED
  BY <1>0, <1>1, <1>2 DEF HasJob

\* Where c's encode waits for a thread is what it was.
PostsStay(c) == (OnePost(c) => OnePost(c)') /\ (Posted(c)' <=> Posted(c))

\* Where c's switch awaits an activation is what it was.
JoinsStay(c) == (OneJoin(c) => OneJoin(c)') /\ (Joined(c)' => Joined(c))

\* A caller with no call is nowhere.
LEMMA Idle ==
    ASSUME NEW c, Placed(c), call[c].op = "idle"
    PROVE  ~HasJob(c) /\ ~Posted(c) /\ ~Joined(c) /\ ~Closer(c) /\ ~Encodes(c)
BY DEF Placed, RunsOf, HasJob, Encodes

\* The call of c is where it was.
LEMMA Stays ==
    ASSUME NEW c, Placed(c), call'[c] = call[c], JobsStay(c), PostsStay(c), JoinsStay(c), Closer(c)' => Closer(c)
    PROVE  Placed(c)'
<1>1. \A k \in DOMAIN jobs' : Of(jobs'[k], c) => jobs'[k].run \in RunsOf(call[c].op)
  BY DEF Placed, JobsStay
<1>2. Encodes(c)' <=> Encodes(c)
  BY DEF Encodes
<1> QED
  BY <1>1, <1>2 DEF Placed, JobsStay, PostsStay, JoinsStay

\* It goes on as a job.
LEMMA Turns ==
    ASSUME NEW c, NEW job, OnlyJob(c, job), job.run \in RunsOf(call'[c].op),
           ~Posted(c)', ~Joined(c)', ~Closer(c)'
    PROVE  Placed(c)'
<1>1. OnePost(c)' /\ OneJoin(c)'
  BY DEF Posted, OnePost, Joined, OneJoin
<1> QED
  BY <1>1 DEF Placed, OnlyJob

\* It is over.
LEMMA Ends ==
    ASSUME NEW c, call'[c].op = "idle", ~HasJob(c)', ~Posted(c)', ~Joined(c)', ~Closer(c)'
    PROVE  Placed(c)'
<1>1. OneJob(c)' /\ OnePost(c)' /\ OneJoin(c)'
  BY DEF Posted, OnePost, Joined, OneJoin, HasJob, OneJob
<1>2. ~Encodes(c)'
  BY DEF Encodes
<1> QED
  BY <1>1, <1>2 DEF Placed, HasJob

\* The queues of the threads are what they were.
LEMMA PostsSame ==
    ASSUME \A t \in Thread : thread'[t].queue = thread[t].queue
    PROVE  \A c : PostsStay(c)
BY DEF PostsStay, Posted, OnePost

\* What awaits the activations is what it was.
LEMMA JoinsSame ==
    ASSUME \A a \in Attempt : init'[a].awaiting = init[a].awaiting
    PROVE  \A c : JoinsStay(c)
BY DEF JoinsStay, Joined, OneJoin

\* c's encode is posted to thread t.
LEMMA PostsOne ==
    ASSUME Types, NEW c \in Slot, ~Posted(c), NEW t \in Thread, thread' = [thread EXCEPT ![t].queue = Append(@, c)]
    PROVE  /\ Posted(c)' /\ OnePost(c)'
           /\ \A d \in Slot \ {c} : PostsStay(d)
<1>0. PICK q \in Seq(Rpc) : q = thread[t].queue
  BY DEF Types, ThreadType
<1>1. /\ \A u \in Thread \ {t} : thread'[u] = thread[u]
      /\ thread'[t].queue = Append(q, c)
  BY <1>0 DEF Types, ThreadType
<1>2. /\ DOMAIN Append(q, c) = 1 .. Len(q) + 1 /\ DOMAIN q = 1 .. Len(q) /\ Len(q) \in Nat
      /\ \A k \in 1 .. Len(q) : Append(q, c)[k] = q[k]
      /\ Append(q, c)[Len(q) + 1] = c
  <2>1. c \in Rpc
    BY DEF Rpc
  <2> QED
    BY <2>1
<1>3. PICK r : r = Append(q, c)
  OBVIOUS
<1>4. /\ DOMAIN r = 1 .. Len(q) + 1 /\ \A k \in DOMAIN q : k \in DOMAIN r /\ r[k] = q[k]
      /\ \A k \in DOMAIN r : k \in DOMAIN q \/ k = Len(q) + 1
      /\ r[Len(q) + 1] = c /\ Len(q) + 1 \in DOMAIN r
  BY <1>2, <1>3
<1>5. \A u \in Thread : \A k \in DOMAIN thread'[u].queue : thread'[u].queue[k] = c => u = t /\ k = Len(q) + 1
  BY <1>0, <1>1, <1>3, <1>4 DEF Posted
<1>6. Posted(c)' /\ OnePost(c)'
  BY <1>1, <1>3, <1>4, <1>5 DEF Posted, OnePost
<1>7. ASSUME NEW d \in Slot \ {c} PROVE PostsStay(d)
  <2>1. \A u \in Thread : \A k \in DOMAIN thread'[u].queue : thread'[u].queue[k] = d =>
           k \in DOMAIN thread[u].queue /\ thread[u].queue[k] = d
    BY <1>0, <1>1, <1>3, <1>4
  <2>2. \A u \in Thread : \A k \in DOMAIN thread[u].queue : thread[u].queue[k] = d =>
           k \in DOMAIN thread'[u].queue /\ thread'[u].queue[k] = d
    BY <1>0, <1>1, <1>3, <1>4
  <2>3. Posted(d)' <=> Posted(d)
    BY <2>1, <2>2 DEF Posted
  <2>4. OnePost(d) => OnePost(d)'
    BY <2>1 DEF OnePost
  <2> QED
    BY <2>3, <2>4 DEF PostsStay
<1> QED
  BY <1>6, <1>7

\* Thread t answers what waits at the k-th place of its queue.
LEMMA TakesPost ==
    ASSUME Types, NEW t \in Thread, NEW k \in DOMAIN thread[t].queue,
           thread'[t].queue = RemoveAt(thread[t].queue, k), \A u \in Thread \ {t} : thread'[u] = thread[u]
    PROVE  \A c : /\ thread[t].queue[k] # c => PostsStay(c)
                  /\ thread[t].queue[k] = c /\ OnePost(c) => ~Posted(c)'
<1>1. PICK q \in Seq(Rpc) : q = thread[t].queue
  BY DEF Types, ThreadType
<1>2. k \in 1 .. Len(q) /\ Len(q) \in Nat /\ q # <<>> /\ DOMAIN q = 1 .. Len(q)
  BY <1>1
<1>3. PICK r : r = RemoveAt(q, k)
  OBVIOUS
<1>4. /\ r \in Seq(Rpc) /\ Len(r) = Len(q) - 1 /\ DOMAIN r = 1 .. Len(r)
      /\ \A j \in 1 .. Len(q) - 1 : j < k => r[j] = q[j]
      /\ \A j \in 1 .. Len(q) - 1 : j >= k => r[j] = q[j + 1]
  <2>1. /\ RemoveAt(q, k) \in Seq(Rpc) /\ Len(RemoveAt(q, k)) = Len(q) - 1
        /\ \A j \in 1 .. Len(q) - 1 : j < k => RemoveAt(q, k)[j] = q[j]
        /\ \A j \in 1 .. Len(q) - 1 : j >= k => RemoveAt(q, k)[j] = q[j + 1]
    BY <1>2, RemoveAtAt, Zenon
  <2> QED
    BY <1>3, <2>1
<1> DEFINE old(j) == IF j < k THEN j ELSE j + 1
<1>5. \A j \in DOMAIN r : old(j) \in DOMAIN q /\ r[j] = q[old(j)] /\ old(j) # k
  <2> SUFFICES ASSUME NEW j \in DOMAIN r
               PROVE  old(j) \in DOMAIN q /\ r[j] = q[old(j)] /\ old(j) # k
    OBVIOUS
  <2>1. j \in 1 .. Len(q) - 1
    BY <1>4
  <2>2. CASE j < k
    BY <1>2, <1>4, <2>1, <2>2
  <2>3. CASE j >= k
    BY <1>2, <1>4, <2>1, <2>3
  <2> QED
    BY <1>2, <2>1, <2>2, <2>3
<1>6. \A i, j \in DOMAIN r : old(i) = old(j) => i = j
  BY <1>2, <1>4
<1>7. ASSUME NEW i \in DOMAIN q, i # k PROVE \E j \in DOMAIN r : r[j] = q[i]
  <2>1. CASE i < k
    <3>1. i \in DOMAIN r /\ r[i] = q[i]
      BY <1>2, <1>4, <2>1
    <3> QED
      BY <3>1
  <2>2. CASE i > k
    <3>1. /\ i - 1 \in 1 .. Len(q) - 1 /\ i - 1 >= k /\ (i - 1) + 1 = i
      BY <1>2, <2>2
    <3>2. i - 1 \in DOMAIN r /\ r[i - 1] = q[i]
      BY <1>4, <3>1
    <3> QED
      BY <3>2
  <2> QED
    BY <1>2, <1>7, <2>1, <2>2
<1> HIDE DEF old
<1>8. thread'[t].queue = r
  BY <1>1, <1>3
<1> SUFFICES ASSUME NEW c
             PROVE  /\ q[k] # c => PostsStay(c)
                    /\ q[k] = c /\ OnePost(c) => ~Posted(c)'
  BY <1>1
<1>9. ASSUME q[k] # c PROVE PostsStay(c)
  <2>1. Posted(c)' => Posted(c)
    BY <1>1, <1>5, <1>8 DEF Posted
  <2>2. Posted(c) => Posted(c)'
    BY <1>1, <1>7, <1>8, <1>9 DEF Posted
  <2>3. ASSUME OnePost(c), NEW u \in Thread, NEW v \in Thread, NEW i \in DOMAIN thread'[u].queue,
               NEW j \in DOMAIN thread'[v].queue, thread'[u].queue[i] = c, thread'[v].queue[j] = c
        PROVE  u = v /\ i = j
    <3>1. CASE u # t /\ v # t
      BY <2>3, <3>1 DEF OnePost
    <3>2. CASE u = t /\ v # t
      BY <1>1, <1>5, <1>8, <2>3, <3>2 DEF OnePost
    <3>3. CASE u # t /\ v = t
      BY <1>1, <1>5, <1>8, <2>3, <3>3 DEF OnePost
    <3>4. CASE u = t /\ v = t
      <4>1. old(i) = old(j)
        BY <1>1, <1>5, <1>8, <2>3, <3>4 DEF OnePost
      <4> QED
        BY <1>6, <1>8, <3>4, <4>1
    <3> QED
      BY <3>1, <3>2, <3>3, <3>4
  <2>4. OnePost(c) => OnePost(c)'
    BY <2>3 DEF OnePost
  <2> QED
    BY <2>1, <2>2, <2>4 DEF PostsStay
<1>10. ASSUME q[k] = c, OnePost(c), NEW u \in Thread, NEW j \in DOMAIN thread'[u].queue, thread'[u].queue[j] = c
       PROVE  FALSE
  <2>1. u = t
    BY <1>1, <1>10 DEF OnePost
  <2> QED
    BY <1>1, <1>5, <1>8, <1>10, <2>1 DEF OnePost
<1>11. q[k] = c /\ OnePost(c) => ~Posted(c)'
  BY <1>10 DEF Posted
<1> QED
  BY <1>9, <1>11

\* All that waits for thread t is rejected.
LEMMA EmptiesPosts ==
    ASSUME NEW t \in Thread, thread'[t].queue = <<>>, \A u \in Thread \ {t} : thread'[u] = thread[u]
    PROVE  \A c : /\ (\A k \in DOMAIN thread[t].queue : thread[t].queue[k] # c) => PostsStay(c)
                  /\ (\E k \in DOMAIN thread[t].queue : thread[t].queue[k] = c) /\ OnePost(c) => ~Posted(c)'
<1> SUFFICES ASSUME NEW c
             PROVE  /\ (\A k \in DOMAIN thread[t].queue : thread[t].queue[k] # c) => PostsStay(c)
                    /\ (\E k \in DOMAIN thread[t].queue : thread[t].queue[k] = c) /\ OnePost(c) => ~Posted(c)'
  OBVIOUS
<1>1. DOMAIN thread'[t].queue = {}
  OBVIOUS
<1>2. ASSUME \A k \in DOMAIN thread[t].queue : thread[t].queue[k] # c PROVE PostsStay(c)
  BY <1>1, <1>2 DEF PostsStay, Posted, OnePost
<1>3. (\E k \in DOMAIN thread[t].queue : thread[t].queue[k] = c) /\ OnePost(c) => ~Posted(c)'
  BY <1>1 DEF Posted, OnePost
<1> QED
  BY <1>2, <1>3

\* c joins those that await the promise of attempt a.
LEMMA JoinsOne ==
    ASSUME Types, NEW c \in Caller, NEW a \in Attempt, NEW run,
           init' = [init EXCEPT ![a].awaiting = Append(@, [run |-> run, who |-> c])], run \in Awaits
    PROVE  /\ \A d : d # c => JoinsStay(d)
           /\ ~Joined(c) => OneJoin(c)'
<1>0. PICK q \in Seq([run: Awaits, who: Caller]) : q = init[a].awaiting
  BY DEF Types, InitType
<1>1. PICK e \in [run: Awaits, who: Caller] : e = [run |-> run, who |-> c]
  OBVIOUS
<1>2. PICK r : r = Append(q, e)
  OBVIOUS
<1>3. /\ DOMAIN r = 1 .. Len(q) + 1 /\ DOMAIN q = 1 .. Len(q) /\ Len(q) \in Nat
      /\ \A k \in 1 .. Len(q) : r[k] = q[k]
      /\ r[Len(q) + 1] = e
  BY <1>2
<1>4. /\ \A k \in DOMAIN q : k \in DOMAIN r /\ r[k] = q[k]
      /\ \A k \in DOMAIN r : k \in DOMAIN q \/ (k = Len(q) + 1 /\ r[k].who = c)
  BY <1>1, <1>3
<1>5. /\ \A b \in Attempt \ {a} : init'[b] = init[b]
      /\ init'[a].awaiting = r
  BY <1>0, <1>1, <1>2 DEF Types, InitType
<1>6. ASSUME NEW d, d # c PROVE JoinsStay(d)
  <2>1. \A b \in Attempt : \A k \in DOMAIN init'[b].awaiting : init'[b].awaiting[k].who = d =>
           k \in DOMAIN init[b].awaiting /\ init[b].awaiting[k].who = d
    BY <1>0, <1>4, <1>5, <1>6
  <2> QED
    BY <2>1 DEF JoinsStay, Joined, OneJoin
<1>7. ASSUME ~Joined(c) PROVE OneJoin(c)'
  <2>1. \A b \in Attempt : \A k \in DOMAIN init'[b].awaiting : init'[b].awaiting[k].who = c =>
           b = a /\ k = Len(q) + 1
    BY <1>0, <1>4, <1>5, <1>7 DEF Joined
  <2> QED
    BY <2>1 DEF OneJoin
<1> QED
  BY <1>6, <1>7

\* The promise of attempt a settles, or it is a's first awaiter who starts it.
LEMMA EmptiesJoins ==
    ASSUME NEW a \in Attempt, init'[a].awaiting = <<>>, \A b \in Attempt \ {a} : init'[b] = init[b]
    PROVE  \A c : /\ JoinsStay(c)
                  /\ (\E k \in DOMAIN init[a].awaiting : init[a].awaiting[k].who = c) /\ OneJoin(c) => ~Joined(c)'
<1> SUFFICES ASSUME NEW c
             PROVE  /\ JoinsStay(c)
                    /\ (\E k \in DOMAIN init[a].awaiting : init[a].awaiting[k].who = c) /\ OneJoin(c) => ~Joined(c)'
  OBVIOUS
<1>1. DOMAIN init'[a].awaiting = {}
  OBVIOUS
<1>2. JoinsStay(c)
  BY <1>1 DEF JoinsStay, Joined, OneJoin
<1>3. (\E k \in DOMAIN init[a].awaiting : init[a].awaiting[k].who = c) /\ OneJoin(c) => ~Joined(c)'
  BY <1>1 DEF Joined, OneJoin
<1> QED
  BY <1>2, <1>3

---------------------------------------------------------------------------
\* What encodes go on with

\* A job that may be queued behind jobs and js.
Fine(job, js) ==
    /\ job.run = "encoded" => job.with = "error" \/ (job.with = "exact" /\ Alone')
    /\ job.run = "detailed" =>
          /\ job.ticks = 1
          /\ \/ job.with = "rejected" /\ closed'
             \/ /\ job.with = "exact" /\ ~freed'
                /\ \A i \in Jobs : i.run \notin {"poolClosed", "freeSingle"}
                /\ \A k \in DOMAIN js : js[k].run \notin {"poolClosed", "freeSingle"}
    /\ job.run = "client" /\ call'[job.who].op \in {"encode", "detailed"} => job.with \in {"exact", "rejected"}

\* No call turns into an encode while a job goes on with it.
NoneTurns == \A k \in DOMAIN jobs : jobs[k].run = "client" /\ call'[jobs[k].who].op \in {"encode", "detailed"} => Encodes(jobs[k].who)

\* Fine jobs queued by code on the stack keep what the encodes go on with.
LEMMA AnswersQueue ==
    ASSUME Types, Answered, turn \/ jobs = <<>> \/ Closing, NoneTurns,
           NEW js \in Seq(JobType), \A k \in DOMAIN js : WellFormed(js[k]) /\ Fine(js[k], js), Queue(js),
           closed => closed', freed' = freed
    PROVE  Answered'
<1>1. /\ \A k \in DOMAIN jobs : k \in DOMAIN jobs' /\ jobs'[k] = jobs[k]
      /\ \A k \in DOMAIN jobs' : k \in DOMAIN jobs \/
            (k > Len(jobs) /\ k - Len(jobs) \in DOMAIN js /\ jobs'[k] = js[k - Len(jobs)])
      /\ \A i \in Jobs' : i \in Jobs \/ \E k \in DOMAIN js : i = js[k]
      /\ jobs' \in Seq(JobType) /\ jobs \in Seq(JobType)
  BY Queued DEF Types
<1>2. ASSUME NEW k \in DOMAIN jobs'
      PROVE  AnsweredAt(k)'
  <2>1. CASE k \in DOMAIN jobs
    <3>1. jobs'[k] = jobs[k]
      BY <1>1, <2>1
    <3>2. ~Alone
      <4>1. jobs # <<>> /\ (turn \/ Closing)
        BY <2>1
      <4> QED
        BY <4>1 DEF Alone
    <3>3. \A j \in DOMAIN jobs' : j < k => j \in DOMAIN jobs /\ jobs'[j] = jobs[j]
      BY <1>1, <2>1
    <3>4. jobs[k].run = "client" /\ call'[jobs[k].who].op \in {"encode", "detailed"} => Encodes(jobs[k].who)
      BY <2>1 DEF NoneTurns
    <3> QED
      BY <2>1, <3>1, <3>2, <3>3, <3>4 DEF Answered, AnsweredAt, Encodes
  <2>2. CASE k > Len(jobs) /\ k - Len(jobs) \in DOMAIN js /\ jobs'[k] = js[k - Len(jobs)]
    <3>1. Fine(jobs'[k], js)
      BY <2>2
    <3>2. ASSUME /\ \A i \in Jobs : i.run \notin {"poolClosed", "freeSingle"}
                 /\ \A i \in DOMAIN js : js[i].run \notin {"poolClosed", "freeSingle"}
          PROVE  \A j \in DOMAIN jobs' : jobs'[j].run \notin {"poolClosed", "freeSingle"}
      BY <1>1, <3>2 DEF Jobs
    <3> QED
      BY <3>1, <3>2 DEF Fine, AnsweredAt, Encodes
  <2> QED
    BY <1>1, <2>1, <2>2
<1> QED
  BY <1>2 DEF Answered

\* So do those queued by the job that runs.
LEMMA AnswersResume ==
    ASSUME Types, Answered, jobs # <<>>, NoneTurns,
           NEW js \in Seq(JobType), \A k \in DOMAIN js : WellFormed(js[k]) /\ Fine(js[k], js), Resume(js),
           closed => closed', freed' = freed \/ Head(jobs).run = "freeSingle"
    PROVE  Answered'
<1>0. Head(jobs) = jobs[1] /\ 1 \in DOMAIN jobs
  BY HeadJob
<1>1. /\ \A k \in DOMAIN jobs' :
            \/ k < Len(jobs) /\ k + 1 \in DOMAIN jobs /\ jobs'[k] = jobs[k + 1]
            \/ k >= Len(jobs) /\ k - Len(jobs) + 1 \in DOMAIN js /\ jobs'[k] = js[k - Len(jobs) + 1]
      /\ \A i \in Jobs' : i \in Jobs \/ \E k \in DOMAIN js : i = js[k]
      /\ jobs' \in Seq(JobType) /\ jobs \in Seq(JobType)
  BY Resumed DEF Types
<1>2. ASSUME NEW k \in DOMAIN jobs'
      PROVE  AnsweredAt(k)'
  <2>0. k \in Nat /\ k # 0 /\ Len(jobs) \in Nat /\ DOMAIN jobs = 1 .. Len(jobs) /\ DOMAIN jobs' = 1 .. Len(jobs')
    BY <1>1
  <2>1. CASE k < Len(jobs) /\ k + 1 \in DOMAIN jobs /\ jobs'[k] = jobs[k + 1]
    <3>1. ~Alone
      BY <2>0, <2>1 DEF Alone
    <3>2. \A j \in DOMAIN jobs' : j < k => j + 1 \in DOMAIN jobs /\ j + 1 < k + 1 /\ jobs'[j] = jobs[j + 1]
      BY <1>1, <2>0, <2>1
    <3>3. jobs[k + 1].run = "client" /\ call'[jobs[k + 1].who].op \in {"encode", "detailed"} => Encodes(jobs[k + 1].who)
      BY <2>1 DEF NoneTurns
    <3>4. ASSUME jobs[k + 1].run = "detailed" /\ jobs[k + 1].with = "exact" /\ ~freed,
                 \A j \in DOMAIN jobs : j < k + 1 => jobs[j].run \notin {"poolClosed", "freeSingle"}
          PROVE  /\ ~freed'
                 /\ \A j \in DOMAIN jobs' : j < k => jobs'[j].run \notin {"poolClosed", "freeSingle"}
      <4>1. 1 < k + 1
        BY <2>0
      <4>2. Head(jobs).run # "freeSingle"
        BY <1>0, <3>4, <4>1
      <4> QED
        BY <3>2, <3>4, <4>2
    <3>5. AnsweredAt(k + 1)
      BY <2>1 DEF Answered
    <3>6. jobs'[k].run = "encoded" => jobs'[k].with = "error"
      BY <2>1, <3>1, <3>5 DEF AnsweredAt
    <3>7. jobs'[k].run = "client" /\ call'[jobs[k + 1].who].op \in {"encode", "detailed"} => jobs'[k].with \in {"exact", "rejected"}
      BY <2>1, <3>3, <3>5 DEF AnsweredAt
    <3>8. jobs'[k].run = "detailed" =>
            /\ jobs'[k].ticks = 1
            /\ \/ jobs'[k].with = "rejected" /\ closed'
               \/ /\ jobs'[k].with = "exact" /\ ~freed'
                  /\ \A j \in DOMAIN jobs' : j < k => jobs'[j].run \notin {"poolClosed", "freeSingle"}
      BY <2>1, <3>4, <3>5 DEF AnsweredAt
    <3> QED
      BY <2>1, <3>6, <3>7, <3>8 DEF AnsweredAt, Encodes
  <2>2. CASE k - Len(jobs) + 1 \in DOMAIN js /\ jobs'[k] = js[k - Len(jobs) + 1]
    <3>1. Fine(jobs'[k], js)
      BY <2>2
    <3>2. ASSUME /\ \A i \in Jobs : i.run \notin {"poolClosed", "freeSingle"}
                 /\ \A i \in DOMAIN js : js[i].run \notin {"poolClosed", "freeSingle"}
          PROVE  \A j \in DOMAIN jobs' : jobs'[j].run \notin {"poolClosed", "freeSingle"}
      BY <1>1, <3>2 DEF Jobs
    <3> QED
      BY <3>1, <3>2 DEF Fine, AnsweredAt, Encodes
  <2> QED
    BY <1>1, <2>1, <2>2
<1> QED
  BY <1>2 DEF Answered

\* Only the reactions of the controller's start run while its vocabulary is unknown.
LEMMA NotArriving ==
    ASSUME Types, turn \/ jobs = <<>> \/ Closing \/ Head(jobs).run \notin {"sharedReady", "verifyShared"}
    PROVE  ~Arriving
<1>1. jobs # <<>> => Head(jobs) = jobs[1]
  BY HeadJob
<1> QED
  BY <1>1 DEF Arriving

\* No thread has answered or been replaced.
LEMMA SameVocabulary ==
    ASSUME Vocabulary, ~Arriving, UNCHANGED <<capabilities, sharedController>>,
           \A t \in Thread : thread'[t].model = thread[t].model,
           \A t \in Thread : thread'[t].failure = "none" => thread[t].failure = "none",
           sharedController # 0 => SharedThread(sharedController) \in Thread
    PROVE  Vocabulary'
<1>1. WorkerAvailable' = WorkerAvailable /\ SharedThread(sharedController)' = SharedThread(sharedController)
  BY DEF WorkerAvailable, SharedThread
<1> QED
  BY <1>1 DEF Vocabulary

\* What is closed stays so, and nothing new waits for a thread.
LEMMA SameClosed ==
    ASSUME Closed, UNCHANGED <<closed, freed, closing, capabilities>>,
           \A job \in Jobs' : job \in Jobs \/ (job.run \in {"poolClosed", "freeSingle"} => closed),
           \A t \in Thread : \A k \in DOMAIN thread'[t].queue : thread'[t].queue[k] \in Slot =>
              (\E i \in DOMAIN thread[t].queue : thread[t].queue[i] \in Slot) \/ ~closed,
           (\E job \in Jobs : job.run = "poolClosed") => WorkerAvailable \/ \E job \in Jobs' : job.run = "poolClosed"
    PROVE  Closed'
<1>1. WorkerAvailable' = WorkerAvailable /\ Closing' = Closing
  BY DEF WorkerAvailable, Closing
<1> QED
  BY <1>1 DEF Closed

---------------------------------------------------------------------------
\* What a client sees

Simulated == [Abstract!Next]_Abstract!vars

\* A client whose continuation is queued sees what it goes on with.
LEMMA ObservedIs ==
    ASSUME NEW c, OneJob(c), Encodes(c), NEW k \in DOMAIN jobs, jobs[k].run = "client", jobs[k].who = c
    PROVE  Observed(c) = jobs[k].with
<1>1. Of(jobs[k], c)
  BY DEF Of, Internal
<1>2. PICK j : j = CHOOSE x \in {jobs[i] : i \in DOMAIN jobs} : x.run = "client" /\ x.who = c
  OBVIOUS
<1>3. j \in {jobs[i] : i \in DOMAIN jobs} /\ j.run = "client" /\ j.who = c
  BY <1>2
<1>4. PICK i \in DOMAIN jobs : j = jobs[i]
  BY <1>3
<1>5. i = k
  BY <1>1, <1>3, <1>4 DEF OneJob, Of, Internal
<1> QED
  BY <1>2, <1>4, <1>5 DEF Observed

\* A client's encode with no continuation queued is pending.
LEMMA ObservedPending ==
    ASSUME NEW c, Encodes(c), \A k \in DOMAIN jobs : Of(jobs[k], c) => jobs[k].run # "client"
    PROVE  Observed(c) = "pending"
BY DEF Observed, Of, Internal

\* A client sees nothing of a call that is no encode.
LEMMA ObservedIdle ==
    ASSUME NEW c, ~Encodes(c)
    PROVE  Observed(c) = "idle"
BY DEF Observed

\* What c sees when it goes on with one job.
LEMMA Sees ==
    ASSUME NEW c, NEW job, OnlyJob(c, job), Encodes(c)'
    PROVE  Observed(c)' = IF job.run = "client" THEN job.with ELSE "pending"
<1>1. CASE job.run = "client"
  <2>1. PICK k \in DOMAIN jobs' : Of(jobs'[k], c)
    BY DEF OnlyJob, HasJob
  <2>2. jobs'[k] = job /\ jobs'[k].who = c /\ OneJob(c)'
    BY <2>1 DEF OnlyJob, Of
  <2>3. ASSUME NEW j, j \in {jobs'[i] : i \in DOMAIN jobs'}, j.run = "client", j.who = c
        PROVE  j = job
    BY <2>3 DEF OnlyJob, Of, Internal
  <2>4. \E j \in {jobs'[i] : i \in DOMAIN jobs'} : j.run = "client" /\ j.who = c
    BY <1>1, <2>2
  <2>5. (CHOOSE j \in {jobs'[i] : i \in DOMAIN jobs'} : j.run = "client" /\ j.who = c) = job
    BY <2>3, <2>4
  <2> QED
    BY <1>1, <2>2, <2>5 DEF Observed
<1>2. CASE job.run # "client"
  <2>1. ~\E k \in DOMAIN jobs' : jobs'[k].run = "client" /\ jobs'[k].who = c
    BY <1>2 DEF OnlyJob, Of, Internal
  <2> QED
    BY <1>2, <2>1 DEF Observed
<1> QED
  BY <1>1, <1>2

\* What c sees when its jobs stay.
LEMMA SeesSame ==
    ASSUME NEW c, OneJob(c), JobsStay(c), Encodes(c)' <=> Encodes(c)
    PROVE  Observed(c)' = Observed(c)
<1>1. CASE ~Encodes(c)
  BY <1>1 DEF Observed
<1>2. CASE Encodes(c) /\ \A k \in DOMAIN jobs : Of(jobs[k], c) => jobs[k].run # "client"
  <2>1. Observed(c) = "pending"
    BY <1>2, ObservedPending
  <2>2. ~\E k \in DOMAIN jobs' : jobs'[k].run = "client" /\ jobs'[k].who = c
    BY <1>2 DEF JobsStay, Of, Internal
  <2> QED
    BY <1>2, <2>1, <2>2 DEF Observed
<1>3. ASSUME Encodes(c), NEW k \in DOMAIN jobs, Of(jobs[k], c), jobs[k].run = "client"
      PROVE  Observed(c)' = Observed(c)
  <2>1. Observed(c) = jobs[k].with
    BY <1>3, ObservedIs DEF Of
  <2>2. OnlyJob(c, jobs[k])
    BY <1>3 DEF JobsStay, OneJob, HasJob, OnlyJob
  <2>3. Observed(c)' = jobs[k].with
    BY <1>3, <2>2, Sees
  <2> QED
    BY <2>1, <2>3
<1> QED
  BY <1>1, <1>2, <1>3

\* Nothing of it is seen.
LEMMA Unseen ==
    ASSUME UNCHANGED <<closed, freed>>, \A c \in Slot : Observed(c)' = Observed(c)
    PROVE  Simulated
BY DEF Simulated, Abstract!vars

\* A client issues an encode: the session accepts it or, closed, refuses it.
LEMMA SeenIssue ==
    ASSUME UNCHANGED <<closed, freed>>, NEW c \in Slot, \A d \in Slot \ {c} : Observed(d)' = Observed(d),
           Observed(c) = "idle",
           IF closed THEN Observed(c)' = "rejected" ELSE Observed(c)' \in {"pending", "exact"}
    PROVE  Simulated
<1>1. [d \in Slot |-> Observed(d)]' = [[d \in Slot |-> Observed(d)] EXCEPT ![c] = Observed(c)']
  OBVIOUS
<1>2. Abstract!Issue(c)
  BY <1>1 DEF Abstract!Issue
<1> QED
  BY <1>2 DEF Simulated, Abstract!Next

\* An encode of the session is settled.
LEMMA SeenAnswer ==
    ASSUME UNCHANGED <<closed, freed>>, NEW c \in Slot, \A d \in Slot \ {c} : Observed(d)' = Observed(d),
           Observed(c) = "pending",
           (Observed(c)' = "rejected" /\ closed) \/ (Observed(c)' = "exact" /\ ~freed)
    PROVE  Simulated
<1>1. [d \in Slot |-> Observed(d)]' = [[d \in Slot |-> Observed(d)] EXCEPT ![c] = Observed(c)']
  OBVIOUS
<1>2. Abstract!Answer(c)
  BY <1>1 DEF Abstract!Answer, Abstract!Outcome, Abstract!Allowed
<1> QED
  BY <1>2 DEF Simulated, Abstract!Next

\* A client takes the outcome of its encode.
LEMMA SeenDeliver ==
    ASSUME UNCHANGED <<closed, freed>>, NEW c \in Slot, \A d \in Slot \ {c} : Observed(d)' = Observed(d),
           Observed(c) \in {"exact", "rejected"}, Observed(c)' = "idle"
    PROVE  Simulated
<1>1. [d \in Slot |-> Observed(d)]' = [[d \in Slot |-> Observed(d)] EXCEPT ![c] = Observed(c)']
  OBVIOUS
<1>2. Abstract!Deliver(c)
  BY <1>1 DEF Abstract!Deliver, Abstract!Outcome
<1> QED
  BY <1>2 DEF Simulated, Abstract!Next

\* The session is closed, or closed again.
LEMMA SeenClose ==
    ASSUME closed \in BOOLEAN, closed' = TRUE, freed' = freed, \A d \in Slot : Observed(d)' = Observed(d)
    PROVE  Simulated
<1>1. CASE ~closed
  BY <1>1 DEF Simulated, Abstract!Next, Abstract!Close
<1>2. CASE closed
  BY <1>2, Unseen
<1> QED
  BY <1>1, <1>2

\* The resident tokenizer is released.
LEMMA SeenRelease ==
    ASSUME closed, freed \in BOOLEAN, closed' = closed, freed' = TRUE, \A d \in Slot : Observed(d)' = Observed(d)
    PROVE  Simulated
<1>1. CASE ~freed
  BY <1>1 DEF Simulated, Abstract!Next, Abstract!Release
<1>2. CASE freed
  BY <1>2, Unseen
<1> QED
  BY <1>1, <1>2

---------------------------------------------------------------------------
\* The steps of a session

\* One job at the end of the queue.
LEMMA OneOf ==
    ASSUME NEW job \in JobType, WellFormed(job), NEW js, js = <<job>>
    PROVE  /\ js \in Seq(JobType) /\ Len(js) = 1 /\ DOMAIN js = {1} /\ js[1] = job
           /\ \A k \in DOMAIN js : WellFormed(js[k])
BY OneTold

\* A call that is answered or passed on at once.
LEMMA CalledStep ==
    ASSUME Core, Session, NEW c \in Caller, NEW op \in Ops \ {"idle"}, NEW tier \in Tiers,
           call[c].op = "idle", Calling(c, op, tier), turn \/ jobs = <<>>, ~Closing,
           NEW job \in JobType, WellFormed(job), Of(job, c), c \in Slot => job.run \in RunsOf(op),
           Queue(<<job>>), Fine(job, <<job>>), job.run \in {"poolClosed", "freeSingle"} => closed',
           SameInit, UNCHANGED <<freed, closing, capabilities, sharedController, thread>>,
           \/ closed' = closed
           \/ /\ op = "close" /\ closed' = TRUE
              /\ \A t \in Thread : \A k \in DOMAIN thread[t].queue : thread[t].queue[k] \in Slot =>
                    ~WorkerAvailable /\ job.run = "poolClosed",
           op \in {"encode", "detailed"} =>
              /\ c \in Slot
              /\ IF closed THEN job.run = "client" /\ job.with = "rejected"
                           ELSE job.run = "client" => job.with = "exact"
    PROVE  Session' /\ Simulated
<1>0. Types /\ AllPlaced /\ Closed /\ Answered /\ Vocabulary /\ call \in [Caller -> [op: Ops, tier: Tiers]]
  BY DEF Core, Session, Types
<1>1. PICK js : js = <<job>>
  OBVIOUS
<1>2. /\ js \in Seq(JobType) /\ Len(js) = 1 /\ DOMAIN js = {1} /\ js[1] = job
      /\ \A k \in DOMAIN js : WellFormed(js[k])
      /\ Queue(js)
  BY <1>1, OneOf
<1>3. /\ call'[c].op = op
      /\ \A d \in Caller : d # c => call'[d] = call[d]
  BY <1>0 DEF Calling
<1>4. \A d : PostsStay(d) /\ JoinsStay(d)
  BY PostsSame, JoinsSame DEF SameInit
<1>5. \A d : Closer(d)' <=> Closer(d)
  BY DEF Closer, Closing
<1>6. ASSUME NEW d \in Slot, d # c PROVE JobsStay(d) /\ Placed(d)'
  <2>1. \A k \in DOMAIN js : ~Of(js[k], d)
    BY <1>2, <1>6 DEF Of
  <2>2. JobsStay(d)
    BY <1>0, <1>2, <2>1, QueueStays
  <2>3. call'[d] = call[d] /\ Placed(d)
    BY <1>0, <1>3, <1>6 DEF Caller, AllPlaced
  <2> QED
    BY <1>4, <1>5, <2>2, <2>3, Stays
<1>7. ASSUME c \in Slot PROVE OnlyJob(c, job) /\ Placed(c)' /\ ~Encodes(c)
  <2>1. Placed(c)
    BY <1>0, <1>7 DEF AllPlaced
  <2>2. ~HasJob(c) /\ ~Posted(c) /\ ~Joined(c) /\ ~Closer(c) /\ ~Encodes(c)
    BY <2>1, Idle
  <2>3. OnlyJob(c, job)
    BY <1>0, <1>2, <2>2, QueueComes
  <2>4. ~Posted(c)' /\ ~Joined(c)' /\ ~Closer(c)'
    BY <1>4, <1>5, <2>2 DEF PostsStay, JoinsStay
  <2> QED
    BY <1>3, <1>7, <2>2, <2>3, <2>4, Turns
<1>8. AllPlaced'
  BY <1>6, <1>7 DEF AllPlaced
<1>9. Answered'
  <2>1. NoneTurns
    <3> SUFFICES ASSUME NEW k \in DOMAIN jobs, jobs[k].run = "client", call'[jobs[k].who].op \in {"encode", "detailed"}
                 PROVE  Encodes(jobs[k].who)
      BY DEF NoneTurns
    <3>1. WellFormed(jobs[k])
      BY <1>0 DEF Types, Jobs
    <3>2. jobs[k].who \in Slot /\ Of(jobs[k], jobs[k].who)
      BY <3>1 DEF WellFormed, Awaits, Of, Internal
    <3>3. jobs[k].who # c
      <4> SUFFICES ASSUME jobs[k].who = c PROVE FALSE
        OBVIOUS
      <4>1. ~HasJob(c)
        BY <1>0, <3>2, Idle DEF AllPlaced
      <4> QED
        BY <3>2, <4>1 DEF HasJob
    <3> QED
      BY <1>3, <3>2, <3>3 DEF Encodes, Caller
  <2>2. closed => closed'
    OBVIOUS
  <2>3. \A k \in DOMAIN js : WellFormed(js[k]) /\ Fine(js[k], js)
    BY <1>1, <1>2
  <2> QED
    BY <1>0, <1>2, <2>1, <2>2, <2>3, AnswersQueue
<1>10. \A i \in Jobs' : i \in Jobs \/ i = job
  BY <1>0, QueuedOne
<1>11. \A i \in Jobs : i \in Jobs'
  BY <1>0, QueuedOne DEF Jobs
<1>12. job \in Jobs'
  BY <1>0, QueuedOne DEF Jobs
<1>13. Closed'
  <2>1. CASE closed' = closed
    BY <1>0, <1>10, <1>11, <2>1, SameClosed
  <2>2. CASE /\ op = "close" /\ closed' = TRUE
             /\ \A t \in Thread : \A k \in DOMAIN thread[t].queue : thread[t].queue[k] \in Slot =>
                   ~WorkerAvailable /\ job.run = "poolClosed"
    <3>1. WorkerAvailable' = WorkerAvailable /\ thread' = thread /\ freed' \in BOOLEAN
      BY <1>0 DEF WorkerAvailable, Closed
    <3> QED
      BY <1>12, <2>2, <3>1 DEF Closed
  <2> QED
    BY <2>1, <2>2
<1>14. Vocabulary'
  BY <1>0, NotArriving, SameVocabulary, AttemptOf
<1>15. \A d \in Slot : d # c => Observed(d)' = Observed(d)
  <2> SUFFICES ASSUME NEW d \in Slot, d # c PROVE Observed(d)' = Observed(d)
    OBVIOUS
  <2>1. OneJob(d) /\ JobsStay(d)
    BY <1>0, <1>6 DEF AllPlaced, Placed
  <2>2. Encodes(d)' <=> Encodes(d)
    BY <1>3 DEF Encodes, Caller
  <2> QED
    BY <2>1, <2>2, SeesSame
<1>16. Simulated
  <2>1. CASE op \notin {"encode", "detailed"}
    <3>1. c \in Slot => ~Encodes(c)' /\ ~Encodes(c)
      BY <1>3, <1>7, <2>1 DEF Encodes
    <3>2. c \in Slot => Observed(c)' = Observed(c)
      BY <3>1 DEF Observed
    <3>3. \A d \in Slot : Observed(d)' = Observed(d)
      BY <1>15, <3>2
    <3>4. CASE closed' = closed
      BY <3>3, <3>4, Unseen
    <3>5. CASE closed' = TRUE
      BY <1>0, <3>3, <3>5, SeenClose DEF Closed
    <3> QED
      BY <3>4, <3>5
  <2>2. CASE op \in {"encode", "detailed"}
    <3>1. c \in Slot /\ ~Encodes(c) /\ Encodes(c)' /\ closed' = closed
      BY <1>3, <1>7, <2>2 DEF Encodes
    <3>2. Observed(c) = "idle"
      BY <3>1, ObservedIdle
    <3>3. Observed(c)' = IF job.run = "client" THEN job.with ELSE "pending"
      BY <1>7, <3>1, Sees
    <3>4. IF closed THEN Observed(c)' = "rejected" ELSE Observed(c)' \in {"pending", "exact"}
      BY <2>2, <3>3
    <3> QED
      BY <1>15, <3>1, <3>2, <3>4, SeenIssue
  <2> QED
    BY <2>1, <2>2
<1> QED
  BY <1>8, <1>9, <1>13, <1>14, <1>16 DEF Session

\* A job goes on as another, for the same caller.
LEMMA GoesOnStep ==
    ASSUME Core, Session, jobs # <<>>, ~Closing,
           NEW job \in JobType, WellFormed(job), Resume(<<job>>), Fine(job, <<job>>),
           \A c \in Slot : Of(job, c) <=> Of(Head(jobs), c),
           \A c \in Slot : Of(job, c) => job.run \in RunsOf(call[c].op),
           \A c \in Slot : call'[c] = call[c],
           Head(jobs).run = "client" => job.run = "client" /\ job.with = Head(jobs).with,
           \A c \in Slot : Of(job, c) /\ Encodes(c) /\ job.run = "client" /\ Head(jobs).run # "client" =>
              \/ job.with = "rejected" /\ closed
              \/ job.with = "exact" /\ ~freed,
           job.run \in {"poolClosed", "freeSingle"} => closed',
           Head(jobs).run = "poolClosed" => job.run = "poolClosed" \/ WorkerAvailable
              \/ \A t \in Thread : thread[t].queue = <<>>,
           SameInit, UNCHANGED <<closing, capabilities, thread>>, Vocabulary',
           \/ closed' = closed /\ freed' = freed
           \/ /\ closed' = TRUE /\ freed' = freed /\ job.run = "poolClosed"
              /\ \A t \in Thread : \A k \in DOMAIN thread[t].queue : thread[t].queue[k] \in Slot => ~WorkerAvailable
           \/ closed' = closed /\ freed' = TRUE /\ Head(jobs).run = "freeSingle"
    PROVE  Session' /\ Simulated
<1>0. Types /\ AllPlaced /\ Closed /\ Answered /\ Vocabulary /\ call \in [Caller -> [op: Ops, tier: Tiers]]
  BY DEF Core, Session, Types
<1>1. PICK js : js = <<job>>
  OBVIOUS
<1>2. /\ js \in Seq(JobType) /\ Len(js) = 1 /\ DOMAIN js = {1} /\ js[1] = job
      /\ \A k \in DOMAIN js : WellFormed(js[k])
      /\ Resume(js)
  BY <1>1, OneOf
<1>3. Head(jobs) \in Jobs /\ WellFormed(Head(jobs)) /\ Head(jobs) = jobs[1] /\ 1 \in DOMAIN jobs
  BY <1>0, HeadJob
<1>4. \A d : PostsStay(d) /\ JoinsStay(d)
  BY PostsSame, JoinsSame DEF SameInit
<1>5. \A d : Closer(d)' <=> Closer(d)
  BY DEF Closer, Closing
<1>6. ASSUME NEW d \in Slot, ~Of(job, d) PROVE JobsStay(d) /\ Placed(d)'
  <2>1. \A k \in DOMAIN js : ~Of(js[k], d)
    BY <1>2, <1>6
  <2>2. JobsStay(d)
    BY <1>0, <1>2, <1>6, <2>1, ResumeStays
  <2>3. call'[d] = call[d] /\ Placed(d)
    BY <1>0 DEF AllPlaced
  <2> QED
    BY <1>4, <1>5, <2>2, <2>3, Stays
<1>7. ASSUME NEW d \in Slot, Of(job, d) PROVE OnlyJob(d, job) /\ Placed(d)'
  <2>1. Placed(d)
    BY <1>0 DEF AllPlaced
  <2>2. HasJob(d) /\ ~Posted(d) /\ ~Joined(d) /\ ~Closer(d) /\ OneJob(d)
    <3>1. HasJob(d)
      BY <1>3, <1>7 DEF HasJob
    <3> QED
      BY <2>1, <3>1 DEF Placed
  <2>3. OnlyJob(d, job)
    BY <1>0, <1>2, <1>7, <2>2, ResumeComes
  <2>4. ~Posted(d)' /\ ~Joined(d)' /\ ~Closer(d)'
    BY <1>4, <1>5, <2>2 DEF PostsStay, JoinsStay
  <2>5. job.run \in RunsOf(call'[d].op)
    BY <1>7
  <2> QED
    BY <2>3, <2>4, <2>5, Turns
<1>8. AllPlaced'
  BY <1>6, <1>7 DEF AllPlaced
<1>9. Answered'
  <2>1. NoneTurns
    <3> SUFFICES ASSUME NEW k \in DOMAIN jobs, jobs[k].run = "client", call'[jobs[k].who].op \in {"encode", "detailed"}
                 PROVE  Encodes(jobs[k].who)
      BY DEF NoneTurns
    <3>1. WellFormed(jobs[k])
      BY <1>0 DEF Types, Jobs
    <3>2. jobs[k].who \in Slot
      BY <3>1 DEF WellFormed, Awaits
    <3> QED
      BY <3>2 DEF Encodes
  <2>2. closed => closed'
    OBVIOUS
  <2>3. \A k \in DOMAIN js : WellFormed(js[k]) /\ Fine(js[k], js)
    BY <1>1, <1>2
  <2>4. freed' = freed \/ Head(jobs).run = "freeSingle"
    OBVIOUS
  <2> QED
    BY <1>0, <1>2, <2>1, <2>2, <2>3, <2>4, AnswersResume
<1>10. \A i \in Jobs' : i \in Jobs \/ i = job
  BY <1>0, ResumedOne
<1>11. \A k \in DOMAIN jobs : k # 1 => jobs[k] \in Jobs'
  BY <1>0, ResumedOne DEF Jobs
<1>12. job \in Jobs'
  BY <1>0, ResumedOne DEF Jobs
<1>13. WorkerAvailable' = WorkerAvailable /\ thread' = thread /\ (Closing' <=> Closing)
  BY DEF WorkerAvailable, Closing
<1>14. Head(jobs).run = "freeSingle" => closed
  BY <1>0, <1>3 DEF Closed
<1>15. Closed'
  <2>1. CASE closed' = closed
    <3>0. freed' = freed \/ (freed' = TRUE /\ closed = TRUE)
      <4>1. closed \in BOOLEAN
        BY <1>0 DEF Closed
      <4> QED
        BY <1>14, <4>1
    <3>1. (freed' \/ Closing' => closed') /\ freed' \in BOOLEAN
      BY <1>0, <1>13, <2>1, <3>0 DEF Closed
    <3>2. \A i \in Jobs' : i.run \in {"poolClosed", "freeSingle"} => closed'
      BY <1>0, <1>10, <2>1 DEF Closed
    <3>3. ASSUME closed, NEW t \in Thread, NEW k \in DOMAIN thread[t].queue, thread[t].queue[k] \in Slot
          PROVE  ~WorkerAvailable /\ \E i \in Jobs' : i.run = "poolClosed"
      <4>1. ~WorkerAvailable /\ \E i \in Jobs : i.run = "poolClosed"
        BY <1>0, <3>3 DEF Closed
      <4>2. PICK i \in DOMAIN jobs : jobs[i].run = "poolClosed"
        BY <4>1 DEF Jobs
      <4>3. CASE i = 1
        BY <1>3, <1>12, <3>3, <4>1, <4>2, <4>3
      <4>4. CASE i # 1
        BY <1>11, <4>1, <4>2, <4>4
      <4> QED
        BY <4>3, <4>4
    <3> QED
      BY <1>0, <1>13, <2>1, <3>1, <3>2, <3>3 DEF Closed
  <2>2. CASE /\ closed' = TRUE /\ freed' = freed /\ job.run = "poolClosed"
             /\ \A t \in Thread : \A k \in DOMAIN thread[t].queue : thread[t].queue[k] \in Slot => ~WorkerAvailable
    BY <1>0, <1>12, <1>13, <2>2 DEF Closed
  <2> QED
    BY <2>1, <2>2
<1>16. \A d \in Slot : Encodes(d)' <=> Encodes(d)
  BY DEF Encodes
<1>17. \A d \in Slot : ~Of(job, d) => Observed(d)' = Observed(d)
  <2> SUFFICES ASSUME NEW d \in Slot, ~Of(job, d) PROVE Observed(d)' = Observed(d)
    OBVIOUS
  <2>1. OneJob(d) /\ JobsStay(d)
    BY <1>0, <1>6 DEF AllPlaced, Placed
  <2> QED
    BY <1>16, <2>1, SeesSame
<1>18. \A d \in Slot : Of(job, d) /\ Encodes(d) =>
          /\ Observed(d)' = (IF job.run = "client" THEN job.with ELSE "pending")
          /\ Observed(d) = (IF Head(jobs).run = "client" THEN Head(jobs).with ELSE "pending")
  <2> SUFFICES ASSUME NEW d \in Slot, Of(job, d), Encodes(d)
               PROVE  /\ Observed(d)' = (IF job.run = "client" THEN job.with ELSE "pending")
                      /\ Observed(d) = (IF Head(jobs).run = "client" THEN Head(jobs).with ELSE "pending")
    OBVIOUS
  <2>1. Observed(d)' = IF job.run = "client" THEN job.with ELSE "pending"
    BY <1>7, <1>16, Sees
  <2>2. OneJob(d) /\ Of(jobs[1], d)
    BY <1>0, <1>3 DEF AllPlaced, Placed
  <2>3. CASE jobs[1].run = "client"
    BY <1>3, <2>1, <2>2, <2>3, ObservedIs DEF Of
  <2>4. CASE jobs[1].run # "client"
    <3>1. \A k \in DOMAIN jobs : Of(jobs[k], d) => jobs[k].run # "client"
      BY <1>3, <2>2, <2>4 DEF OneJob
    <3> QED
      BY <1>3, <2>1, <2>4, <3>1, ObservedPending
  <2> QED
    BY <2>3, <2>4
<1>19. \A d \in Slot : ~Encodes(d) => Observed(d)' = Observed(d)
  BY <1>16 DEF Observed
<1>20. Simulated
  <2>1. CASE \E c \in Slot : Of(job, c) /\ Encodes(c) /\ job.run = "client" /\ Head(jobs).run # "client"
    <3>1. PICK c \in Slot : Of(job, c) /\ Encodes(c) /\ job.run = "client" /\ Head(jobs).run # "client"
      BY <2>1
    <3>2. \A d \in Slot \ {c} : Observed(d)' = Observed(d)
      BY <1>17, <3>1 DEF Of
    <3>3. Observed(c) = "pending" /\ Observed(c)' = job.with
      BY <1>18, <3>1
    <3>4. (job.with = "rejected" /\ closed) \/ (job.with = "exact" /\ ~freed)
      BY <3>1
    <3>5. UNCHANGED <<closed, freed>>
      <4>1. Head(jobs).run \in {"encoded", "detailed"}
        <5>1. Head(jobs).run \in RunsOf(call[c].op)
          BY <1>0, <1>3, <3>1 DEF AllPlaced, Placed
        <5> QED
          BY <3>1, <5>1 DEF RunsOf, Encodes
      <4> QED
        BY <3>1, <4>1
    <3> QED
      BY <3>2, <3>3, <3>4, <3>5, SeenAnswer
  <2>2. CASE ~\E c \in Slot : Of(job, c) /\ Encodes(c) /\ job.run = "client" /\ Head(jobs).run # "client"
    <3>1. \A d \in Slot : Observed(d)' = Observed(d)
      BY <1>17, <1>18, <1>19, <2>2
    <3>2. CASE closed' = closed /\ freed' = freed
      BY <3>1, <3>2, Unseen
    <3>3. CASE closed' = TRUE /\ freed' = freed
      BY <1>0, <3>1, <3>3, SeenClose DEF Closed
    <3>4. CASE closed' = closed /\ freed' = TRUE /\ Head(jobs).run = "freeSingle"
      BY <1>0, <1>14, <3>1, <3>4, SeenRelease DEF Closed
    <3> QED
      BY <3>2, <3>3, <3>4
  <2> QED
    BY <2>1, <2>2
<1> QED
  BY <1>8, <1>9, <1>15, <1>20 DEF Session

\* The calls that are encodes after a step were encodes before it.
LEMMA NoneTurned ==
    ASSUME Types, \A d \in Slot : call'[d].op \in {"encode", "detailed"} => Encodes(d)
    PROVE  NoneTurns
<1> SUFFICES ASSUME NEW k \in DOMAIN jobs, jobs[k].run = "client", call'[jobs[k].who].op \in {"encode", "detailed"}
             PROVE  Encodes(jobs[k].who)
  BY DEF NoneTurns
<1>1. WellFormed(jobs[k])
  BY DEF Types, Jobs
<1>2. jobs[k].who \in Slot
  BY <1>1 DEF WellFormed, Awaits
<1> QED
  BY <1>2

\* The jobs are what they were, and so is what the encodes go on with.
LEMMA AnswersSame ==
    ASSUME Types, Answered, turn \/ jobs = <<>> \/ Closing, jobs' = jobs,
           NoneTurns, closed => closed', freed' = freed
    PROVE  Answered'
<1> SUFFICES ASSUME NEW k \in DOMAIN jobs PROVE AnsweredAt(k)'
  BY DEF Answered
<1>2. AnsweredAt(k)
  BY DEF Answered
<1>3. jobs # <<>>
  BY DEF Types
<1>4. ~Alone
  BY <1>3 DEF Alone
<1> QED
  BY <1>2, <1>4 DEF AnsweredAt, NoneTurns, Encodes

\* A switch that is answered at once or awaits what has settled.
LEMMA SwitchReplies ==
    ASSUME Core, Session, NEW c \in Caller, NEW requested, Activating(c, requested),
           NEW tier \in Tiers, Calling(c, "switch", tier),
           NEW job \in JobType, WellFormed(job), Of(job, c), Queue(<<job>>),
           IF c = Boot THEN job.run \in Awaits \union {"boot"} ELSE job.run \in Awaits \union {"client"},
           SameInit, UNCHANGED <<closed, freed, closing, capabilities, sharedController, thread>>
    PROVE  Session' /\ Simulated
<1>1. call[c].op = "idle" /\ (turn \/ jobs = <<>>) /\ ~Closing
  BY Activation DEF Activating, OnClientTurn
<1>2. "switch" \in Ops \ {"idle"}
  BY DEF Ops
<1>3. c \in Slot => job.run \in RunsOf("switch")
  BY SlotAssumption DEF RunsOf
<1>4. call \in [Caller -> [op: Ops, tier: Tiers]] /\ job.who = c
  BY DEF Core, Types, Of
<1>5. call'[c].op = "switch"
  BY <1>4 DEF Calling
<1>6. Fine(job, <<job>>)
  BY <1>4, <1>5 DEF Fine, Awaits
<1>7. job.run \notin {"poolClosed", "freeSingle"}
  BY DEF Awaits
<1> QED
  BY <1>1, <1>2, <1>3, <1>6, <1>7, CalledStep

\* What a caller of ensureTier is told.
LEMMA ToldJob ==
    ASSUME NEW c \in Caller, NEW n \in 1 .. 5, NEW r \in Outcomes
    PROVE  /\ Answer(c, n, r) \in JobType /\ WellFormed(Answer(c, n, r)) /\ Of(Answer(c, n, r), c)
           /\ Answer(c, n, r).with = r /\ Answer(c, n, r).ticks = (IF c = Boot THEN 4 ELSE n)
           /\ Answer(c, n, r).run = IF c = Boot THEN "boot" ELSE "client"
BY AnswerJob DEF Answer, Job, Of, Internal

\* What awaits an attempt that has settled.
LEMMA AwaitingJob ==
    ASSUME NEW run \in Awaits, NEW c \in Caller, NEW a \in Attempt, NEW r \in {"ok", "failed"}
    PROVE  /\ Awaited(run, c, a, r) \in JobType /\ WellFormed(Awaited(run, c, a, r)) /\ Of(Awaited(run, c, a, r), c)
           /\ Awaited(run, c, a, r).run = run
BY AwaitedJob DEF Of, Internal, Awaits

\* No activation has changed.
LEMMA InitKept ==
    ASSUME Types, init' = init
    PROVE  SameInit
BY DEF Types, SameInit

\* A caller that finds an activation under way waits for it.
LEMMA JoinStep ==
    ASSUME Core, Session, NEW c \in Caller, NEW requested, Activating(c, requested),
           NEW tier \in Tiers, Calling(c, "switch", tier), NEW a \in Attempt, NEW run \in Awaits,
           init' = [init EXCEPT ![a].awaiting = Append(@, [run |-> run, who |-> c])],
           UNCHANGED <<closed, freed, closing, capabilities, sharedController, thread, jobs>>
    PROVE  Session' /\ Simulated
<1>0. Types /\ AllPlaced /\ Closed /\ Answered /\ Vocabulary /\ call \in [Caller -> [op: Ops, tier: Tiers]]
  BY DEF Core, Session, Types
<1>1. call[c].op = "idle" /\ (turn \/ jobs = <<>>) /\ ~Closing
  BY Activation DEF Activating, OnClientTurn
<1>2. call'[c].op = "switch" /\ \A d \in Slot \ {c} : call'[d] = call[d]
  BY <1>0 DEF Calling, Caller
<1>3. \A d : JobsStay(d)
  BY DEF JobsStay, OneJob, HasJob
<1>4. \A d : PostsStay(d)
  BY PostsSame
<1>5. \A d : Closer(d)' <=> Closer(d)
  BY DEF Closer, Closing
<1>6. (\A d : d # c => JoinsStay(d)) /\ (~Joined(c) => OneJoin(c)')
  BY <1>0, JoinsOne
<1>7. ASSUME NEW d \in Slot, d # c PROVE Placed(d)'
  <2>1. Placed(d) /\ call'[d] = call[d]
    BY <1>0, <1>2, <1>7 DEF AllPlaced
  <2> QED
    BY <1>3, <1>4, <1>5, <1>6, <1>7, <2>1, Stays
<1>8. c \in Slot => Placed(c)'
  <2> SUFFICES ASSUME c \in Slot PROVE Placed(c)'
    OBVIOUS
  <2>1. Placed(c) /\ ~HasJob(c) /\ ~Posted(c) /\ ~Joined(c) /\ ~Closer(c) /\ ~Encodes(c)
    BY <1>0, <1>1, Idle DEF AllPlaced
  <2>2. ~HasJob(c)' /\ ~Posted(c)' /\ ~Closer(c)' /\ OneJoin(c)'
    BY <1>3, <1>4, <1>5, <1>6, <2>1 DEF JobsStay, PostsStay
  <2>3. ~Encodes(c)'
    BY <1>2 DEF Encodes
  <2>4. OneJob(c)' /\ OnePost(c)'
    BY <1>3, <1>4, <2>1 DEF JobsStay, PostsStay, Placed
  <2>5. \A k \in DOMAIN jobs' : ~Of(jobs'[k], c)
    BY <2>2 DEF HasJob
  <2> QED
    BY <1>2, <2>2, <2>3, <2>4, <2>5 DEF Placed
<1>9. AllPlaced'
  BY <1>7, <1>8 DEF AllPlaced
<1>10. \A d \in Slot : Encodes(d)' <=> Encodes(d)
  BY <1>1, <1>2 DEF Encodes
<1>11. \A d \in Slot : Observed(d)' = Observed(d)
  BY <1>0, <1>3, <1>10, SeesSame DEF AllPlaced, Placed
<1>12. Simulated
  BY <1>11, Unseen
<1>13. Jobs' = Jobs
  BY DEF Jobs
<1>14. Closed'
  BY <1>0, <1>13 DEF Closed, WorkerAvailable, Closing
<1>15. Answered'
  <2>1. NoneTurns
    BY <1>0, <1>1, <1>2, NoneTurned DEF Encodes
  <2> QED
    BY <1>0, <1>1, <2>1, AnswersSame
<1>16. Vocabulary'
  <2>1. ~Arriving
    BY <1>0, <1>1, NotArriving
  <2>2. sharedController # 0 => SharedThread(sharedController) \in Thread
    BY <1>0, AttemptOf
  <2> QED
    BY <1>0, <2>1, <2>2, SameVocabulary
<1> QED
  BY <1>9, <1>12, <1>14, <1>15, <1>16 DEF Session

\* A caller starts an activation.
LEMMA StartStep ==
    ASSUME Core, Session, NEW c \in Caller, NEW requested, Activating(c, requested),
           NEW tier \in Tiers, Calling(c, "switch", tier), NEW a, NEW run \in Awaits,
           NEW threads \in SUBSET Thread, StartAttempt(c, a, run, threads),
           \A t \in Thread : \A k \in DOMAIN thread[t].queue : thread[t].queue[k] \notin Slot,
           ~Pending(a), WorkerAvailable \/ SharedThread(sharedController') \in threads,
           UNCHANGED <<closed, freed, closing, capabilities>>
    PROVE  Session' /\ Simulated
<1>0. Types /\ AllPlaced /\ Closed /\ Answered /\ Vocabulary /\ call \in [Caller -> [op: Ops, tier: Tiers]]
  BY DEF Core, Session, Types
<1>1. call[c].op = "idle" /\ (turn \/ jobs = <<>>) /\ ~Closing
  BY Activation DEF Activating, OnClientTurn
<1>2. call'[c].op = "switch" /\ \A d \in Slot \ {c} : call'[d] = call[d]
  BY <1>0 DEF Calling, Caller
<1>s. StartedAs(c, a, run, threads)
  BY <1>0, Started
<1>j. jobs' = jobs /\ a \in Attempt
  BY <1>s DEF StartedAs
<1>3. \A d : JobsStay(d)
  BY <1>j DEF JobsStay, OneJob, HasJob
<1>p. \A t \in Thread : \A k \in DOMAIN thread'[t].queue : thread'[t].queue[k] \notin Slot
  <2> SUFFICES ASSUME NEW t \in Thread, NEW k \in DOMAIN thread'[t].queue PROVE thread'[t].queue[k] \notin Slot
    OBVIOUS
  <2>1. CASE t \in threads
    <3>1. thread'[t].queue = <<Init0>>
      BY <1>s, <2>1 DEF StartedAs
    <3>2. thread'[t].queue[k] = Init0
      BY <3>1
    <3> QED
      BY <3>2, SlotAssumption
  <2>2. CASE t \notin threads
    <3>1. thread'[t] = thread[t]
      BY <1>s, <2>2 DEF StartedAs
    <3> QED
      BY <3>1
  <2> QED
    BY <2>1, <2>2
<1>4. \A d \in Slot : ~Posted(d) /\ ~Posted(d)' /\ OnePost(d)'
  BY <1>p DEF Posted, OnePost
<1>q. \A d \in Slot : PostsStay(d)
  BY <1>4 DEF PostsStay
<1>5. \A d : Closer(d)' <=> Closer(d)
  BY DEF Closer, Closing
<1>i. init[a].awaiting = <<>>
  BY <1>j DEF Core, Attempts
<1>k. \A d : d # c => JoinsStay(d)
  <2> SUFFICES ASSUME NEW d, d # c PROVE JoinsStay(d)
    OBVIOUS
  <2>1. \A k \in DOMAIN init'[a].awaiting : init'[a].awaiting[k].who = c
    BY <1>s DEF StartedAs
  <2>2. \A b \in Attempt : b # a => init'[b] = init[b]
    BY <1>s DEF StartedAs
  <2>3. \A k : k \notin DOMAIN init[a].awaiting
    BY <1>i
  <2>4. Joined(d)' <=> Joined(d)
    BY <2>1, <2>2, <2>3 DEF Joined
  <2>5. OneJoin(d) => OneJoin(d)'
    BY <2>1, <2>2 DEF OneJoin
  <2> QED
    BY <2>4, <2>5 DEF JoinsStay
<1>l. ~Joined(c) => OneJoin(c)'
  <2> SUFFICES ASSUME ~Joined(c) PROVE OneJoin(c)'
    OBVIOUS
  <2>1. \A k \in DOMAIN init'[a].awaiting : k = 1
    BY <1>s DEF StartedAs
  <2>2. \A b \in Attempt : b # a => init'[b] = init[b]
    BY <1>s DEF StartedAs
  <2>3. \A b \in Attempt : \A k \in DOMAIN init'[b].awaiting : init'[b].awaiting[k].who = c => b = a /\ k = 1
    BY <2>1, <2>2 DEF Joined
  <2> QED
    BY <2>3 DEF OneJoin
<1>7. ASSUME NEW d \in Slot, d # c PROVE Placed(d)'
  <2>1. Placed(d) /\ call'[d] = call[d]
    BY <1>0, <1>2, <1>7 DEF AllPlaced
  <2> QED
    BY <1>3, <1>q, <1>5, <1>k, <1>7, <2>1, Stays
<1>8. c \in Slot => Placed(c)'
  <2> SUFFICES ASSUME c \in Slot PROVE Placed(c)'
    OBVIOUS
  <2>1. Placed(c) /\ ~HasJob(c) /\ ~Posted(c) /\ ~Joined(c) /\ ~Closer(c) /\ ~Encodes(c)
    BY <1>0, <1>1, Idle DEF AllPlaced
  <2>2. ~HasJob(c)' /\ ~Posted(c)' /\ ~Closer(c)' /\ OneJoin(c)'
    BY <1>3, <1>4, <1>5, <1>l, <2>1 DEF JobsStay
  <2>3. ~Encodes(c)'
    BY <1>2 DEF Encodes
  <2>4. OneJob(c)' /\ OnePost(c)'
    BY <1>3, <1>4, <2>1 DEF JobsStay, Placed
  <2>5. \A k \in DOMAIN jobs' : ~Of(jobs'[k], c)
    BY <2>2 DEF HasJob
  <2> QED
    BY <1>2, <2>2, <2>3, <2>4, <2>5 DEF Placed
<1>9. AllPlaced'
  BY <1>7, <1>8 DEF AllPlaced
<1>10. \A d \in Slot : Encodes(d)' <=> Encodes(d)
  BY <1>1, <1>2 DEF Encodes
<1>11. \A d \in Slot : Observed(d)' = Observed(d)
  BY <1>0, <1>3, <1>10, SeesSame DEF AllPlaced, Placed
<1>12. Simulated
  BY <1>11, Unseen
<1>13. Jobs' = Jobs
  BY <1>j DEF Jobs
<1>14. Closed'
  BY <1>0, <1>13, <1>p DEF Closed, WorkerAvailable, Closing
<1>15. Answered'
  <2>1. NoneTurns
    BY <1>0, <1>1, <1>2, NoneTurned DEF Encodes
  <2> QED
    BY <1>0, <1>1, <1>j, <2>1, AnswersSame
<1>16. Vocabulary'
  <2>1. \A t \in threads : thread'[t].model = "none"
    BY <1>s DEF StartedAs
  <2>2. \A t \in Thread \ threads : thread'[t] = thread[t]
    BY <1>s DEF StartedAs
  <2>3. \A t \in Thread : thread'[t].model = "foreign" => Htk
    BY <1>0, <2>1, <2>2 DEF Vocabulary
  <2>4. WorkerAvailable' \/ thread'[SharedThread(sharedController')].model # "foreign"
    BY <2>1 DEF WorkerAvailable
  <2> QED
    BY <2>3, <2>4 DEF Vocabulary, SharedThread
<1> QED
  BY <1>9, <1>12, <1>14, <1>15, <1>16 DEF Session

\* ensureTier, of a client or of createTierRuntime.
LEMMA EnsureTierKeeps ==
    ASSUME Core, Session, NEW c \in Caller, NEW requested \in Tiers \union {"auto"}, EnsureTier(c, requested)
    PROVE  Session' /\ Simulated
<1>0. Types /\ Attempts /\ Queues /\ Activating(c, requested)
  BY DEF Core, EnsureTier, RefuseTier, ReuseSingle, RefuseImage, Activate, ReusePool, JoinPool, StartPool,
         JoinShared, StartShared
<1>t. Tiers \subseteq Outcomes /\ {"refused", "worker", "single"} \subseteq Outcomes /\ "single" \in Tiers
  BY DEF Tiers, Outcomes
<1>a. \A n \in 1 .. 5 : \A r \in Outcomes :
        Queue(<<Answer(c, n, r)>>) => \E job \in JobType :
            /\ WellFormed(job) /\ Of(job, c) /\ Queue(<<job>>)
            /\ IF c = Boot THEN job.run \in Awaits \union {"boot"} ELSE job.run \in Awaits \union {"client"}
  BY ToldJob
<1>1. CASE RefuseTier(c, requested) \/ ReuseSingle(c, requested) \/ RefuseImage(c, requested)
  <2>1. /\ SameInit /\ UNCHANGED <<closed, freed, closing, capabilities, sharedController, thread>>
        /\ Calling(c, "switch", "single")
    BY <1>0, <1>1, InitKept DEF RefuseTier, ReuseSingle, RefuseImage, session, options, tiers
  <2>2. \E r \in Outcomes : Queue(<<Answer(c, 2, r)>>)
    BY <1>1, <1>t DEF RefuseTier, ReuseSingle, RefuseImage
  <2>3. PICK job \in JobType :
          /\ WellFormed(job) /\ Of(job, c) /\ Queue(<<job>>)
          /\ IF c = Boot THEN job.run \in Awaits \union {"boot"} ELSE job.run \in Awaits \union {"client"}
    BY <1>a, <2>2
  <2> QED
    BY <1>0, <1>t, <2>1, <2>3, SwitchReplies
<1>2. CASE ReusePool(c, requested)
  <2>1. /\ SameInit /\ UNCHANGED <<closed, freed, closing, capabilities, sharedController, thread>>
        /\ Calling(c, "switch", "worker") /\ "worker" \in Tiers
    BY <1>0, <1>2, InitKept DEF ReusePool, Activate, options, tiers, Tiers
  <2>2. \E r \in Outcomes : Queue(<<Answer(c, 2, r)>>)
    BY <1>2, <1>t DEF ReusePool
  <2>3. PICK job \in JobType :
          /\ WellFormed(job) /\ Of(job, c) /\ Queue(<<job>>)
          /\ IF c = Boot THEN job.run \in Awaits \union {"boot"} ELSE job.run \in Awaits \union {"client"}
    BY <1>a, <2>2
  <2> QED
    BY <1>0, <1>t, <2>1, <2>3, SwitchReplies
<1>j. ASSUME NEW a \in Attempt, NEW run \in Awaits, NEW tier \in Tiers, Await(a, c, run), Calling(c, "switch", tier),
             init[a].promise # "none", UNCHANGED <<closed, freed, closing, capabilities, sharedController, thread>>
      PROVE  Session' /\ Simulated
  <2>1. CASE init[a].promise = "pending"
    BY <1>0, <1>j, <2>1, JoinStep DEF Await
  <2>2. CASE init[a].promise # "pending"
    <3>1. Queue(<<Awaited(run, c, a, init[a].promise)>>) /\ SameInit
      BY <1>0, <1>j, <2>2, InitKept DEF Await
    <3>2. init[a].promise \in {"ok", "failed"}
      BY <1>0, <1>j, <2>2 DEF Types, InitType
    <3>3. PICK job \in JobType : job = Awaited(run, c, a, init[a].promise)
      BY <1>j, <3>2, AwaitingJob
    <3>4. WellFormed(job) /\ Of(job, c) /\ job.run = run
      BY <1>j, <3>2, <3>3, AwaitingJob
    <3> QED
      BY <1>0, <1>j, <3>1, <3>3, <3>4, SwitchReplies
  <2> QED
    BY <2>1, <2>2
<1>3. CASE JoinPool(c, requested)
  <2>1. workerInitialization \in Attempt /\ init[workerInitialization].promise # "none"
    BY <1>0, <1>3, AttemptOf DEF JoinPool, Attempts
  <2>2. /\ UNCHANGED <<closed, freed, closing, capabilities, sharedController, thread>>
        /\ Calling(c, "switch", "worker") /\ "worker" \in Tiers /\ "adoptPool" \in Awaits
        /\ Await(workerInitialization, c, "adoptPool")
    BY <1>3 DEF JoinPool, Activate, options, tiers, Tiers, Awaits
  <2> QED
    BY <1>j, <2>1, <2>2
<1>4. CASE JoinShared(c, requested)
  <2>1. sharedInitialization \in Attempt /\ init[sharedInitialization].promise # "none"
    BY <1>0, <1>4, AttemptOf DEF JoinShared, Attempts
  <2>2. /\ UNCHANGED <<closed, freed, closing, capabilities, sharedController, thread>>
        /\ Calling(c, "switch", "shared") /\ "shared" \in Tiers /\ "joinShared" \in Awaits
        /\ Await(sharedInitialization, c, "joinShared")
    BY <1>4 DEF JoinShared, Activate, options, tiers, Tiers, Awaits
  <2> QED
    BY <1>j, <2>1, <2>2
<1>5. CASE StartPool(c, requested)
  <2>1. /\ UNCHANGED <<closed, freed, closing, capabilities, sharedController>>
        /\ Calling(c, "switch", "worker") /\ "worker" \in Tiers /\ "adoptPool" \in Awaits
        /\ workerPool = 0 /\ workerInitialization = 0
        /\ SelectTier(requested) = "worker"
    BY <1>5 DEF StartPool, Activate, options, Tiers, Awaits
  <2>2. PICK a : a = started + 1
    OBVIOUS
  <2>3. StartAttempt(c, a, "adoptPool", Threads(a)) /\ a \in Attempt
    BY <1>5, <2>2 DEF StartPool, StartAttempt
  <2>4. WorkerAvailable /\ ~SharedAvailable
    BY <2>1, TiersExclude
  <2>5. 0 \notin Attempt /\ \A t \in Thread : t[1] \in Attempt
    BY <1>0, AttemptOf
  <2>6. Threads(a) \in SUBSET Thread
    BY <1>0, <2>3, AttemptOf
  <2>7. \A t \in Thread : \A k \in DOMAIN thread[t].queue : thread[t].queue[k] \notin Slot
    BY <1>0, <2>1, <2>4, <2>5 DEF Queues
  <2>8. ~Pending(a)
    BY <1>0, <2>1, <2>3, <2>4, <2>5 DEF Attempts
  <2> QED
    BY <1>0, <2>1, <2>3, <2>4, <2>6, <2>7, <2>8, StartStep
<1>6. CASE StartShared(c, requested)
  <2>1. /\ UNCHANGED <<closed, freed, closing, capabilities>>
        /\ Calling(c, "switch", "shared") /\ "shared" \in Tiers /\ "verifyShared" \in Awaits
        /\ sharedInitialization = 0 /\ sharedController' = started + 1
        /\ SelectTier(requested) = "shared"
    BY <1>6 DEF StartShared, Activate, options, Tiers, Awaits
  <2>2. PICK a : a = started + 1
    OBVIOUS
  <2>3. StartAttempt(c, a, "verifyShared", {SharedThread(a)}) /\ a \in Attempt
    BY <1>6, <2>2 DEF StartShared, StartAttempt
  <2>4. SharedAvailable /\ ~WorkerAvailable
    BY <2>1, TiersExclude
  <2>5. 0 \notin Attempt /\ \A t \in Thread : t[1] \in Attempt
    BY <1>0, AttemptOf
  <2>6. {SharedThread(a)} \in SUBSET Thread /\ SharedThread(sharedController') \in {SharedThread(a)}
    BY <1>0, <2>1, <2>2, <2>3, AttemptOf
  <2>7. \A t \in Thread : thread[t].queue = <<>>
    <3>1. sharedController = 0
      BY <1>0, <2>1 DEF Attempts
    <3>2. \A t \in Thread : thread[t].queue # <<>> => t = SharedThread(0)
      BY <1>0, <2>4, <3>1 DEF Queues
    <3> QED
      BY <2>5, <3>2 DEF SharedThread
  <2>8. \A t \in Thread : \A k \in DOMAIN thread[t].queue : thread[t].queue[k] \notin Slot
    <3> SUFFICES ASSUME NEW t \in Thread, NEW k \in DOMAIN thread[t].queue PROVE FALSE
      OBVIOUS
    <3>1. thread[t].queue = <<>>
      BY <2>7
    <3> QED
      BY <3>1
  <2>9. ~Pending(a)
    BY <1>0, <2>1, <2>3, <2>4, <2>5 DEF Attempts
  <2> QED
    BY <1>0, <2>1, <2>3, <2>6, <2>8, <2>9, StartStep
<1> QED
  BY <1>1, <1>2, <1>3, <1>4, <1>5, <1>6 DEF EnsureTier

\* close() begins with the workers of the pool.
LEMMA CloseBegins ==
    ASSUME Core, Session, NEW c \in Slot, call[c].op = "idle", turn \/ jobs = <<>>, ~Closing, ~closed,
           Calling(c, "close", "single"), closed' = TRUE, closing' = [who |-> c, worker |-> 1],
           UNCHANGED <<freed, capabilities, sharedController, init, thread, jobs>>
    PROVE  Session' /\ Simulated
<1>0. Types /\ AllPlaced /\ Closed /\ Answered /\ Vocabulary /\ call \in [Caller -> [op: Ops, tier: Tiers]]
  BY DEF Core, Session, Types
<1>2. call'[c].op = "close" /\ \A d \in Slot \ {c} : call'[d] = call[d]
  BY <1>0 DEF Calling, Caller
<1>3. \A d : JobsStay(d)
  BY DEF JobsStay, OneJob, HasJob
<1>4. \A d : PostsStay(d) /\ JoinsStay(d)
  BY PostsSame, JoinsSame
<1>5. Closing' /\ closing'.who = c /\ closing'.worker = 1
  BY DEF Closing, NotClosing
<1>6. \A d : ~Closer(d)
  BY DEF Closer
<1>7. ASSUME NEW d \in Slot, d # c PROVE Placed(d)'
  <2>1. Placed(d) /\ call'[d] = call[d]
    BY <1>0, <1>2, <1>7 DEF AllPlaced
  <2>2. ~Closer(d)'
    BY <1>5, <1>7 DEF Closer
  <2> QED
    BY <1>3, <1>4, <1>7, <2>1, <2>2, Stays
<1>8. Placed(c)'
  <2>1. Placed(c) /\ ~HasJob(c) /\ ~Posted(c) /\ ~Joined(c) /\ ~Closer(c) /\ ~Encodes(c)
    BY <1>0, Idle DEF AllPlaced
  <2>2. ~HasJob(c)' /\ ~Posted(c)' /\ ~Joined(c)'
    BY <1>3, <1>4, <2>1 DEF JobsStay, PostsStay, JoinsStay
  <2>3. ~Encodes(c)'
    BY <1>2 DEF Encodes
  <2>4. OneJob(c)' /\ OnePost(c)' /\ OneJoin(c)'
    BY <1>3, <1>4, <2>1 DEF JobsStay, PostsStay, JoinsStay, Placed
  <2>5. \A k \in DOMAIN jobs' : ~Of(jobs'[k], c)
    BY <2>2 DEF HasJob
  <2> QED
    BY <1>2, <2>2, <2>3, <2>4, <2>5 DEF Placed
<1>9. AllPlaced'
  BY <1>7, <1>8 DEF AllPlaced
<1>10. \A d \in Slot : Encodes(d)' <=> Encodes(d)
  BY <1>2 DEF Encodes
<1>11. \A d \in Slot : Observed(d)' = Observed(d)
  BY <1>0, <1>3, <1>10, SeesSame DEF AllPlaced, Placed
<1>12. Simulated
  <2>1. closed \in BOOLEAN
    BY <1>0 DEF Closed
  <2> QED
    BY <1>11, <2>1, SeenClose
<1>14. Closed'
  <2>1. \A t \in Thread : t[2] >= closing'.worker
    BY <1>5, BoundAssumption DEF Thread
  <2> QED
    BY <1>0, <1>5, <2>1 DEF Closed
<1>15. Answered'
  <2>1. NoneTurns
    BY <1>0, <1>2, NoneTurned DEF Encodes
  <2> QED
    BY <1>0, <2>1, AnswersSame
<1>16. Vocabulary'
  <2>1. ~Arriving
    BY <1>0, NotArriving
  <2>2. sharedController # 0 => SharedThread(sharedController) \in Thread
    BY <1>0, AttemptOf
  <2> QED
    BY <1>0, <2>1, <2>2, SameVocabulary
<1> QED
  BY <1>9, <1>12, <1>14, <1>15, <1>16 DEF Session

\* close(): it fails the controller's encodes, frees the resident tokenizer, or starts on the pool.
LEMMA CloseKeeps ==
    ASSUME Core, Session, NEW c \in Slot, CloseAgain(c) \/ Close(c)
    PROVE  Session' /\ Simulated
<1>0. Types /\ Queues /\ Attempts
  BY DEF Core
<1>1. /\ c \in Caller /\ call[c].op = "idle" /\ (turn \/ jobs = <<>>) /\ ~Closing
      /\ "close" \in Ops \ {"idle"} /\ "single" \in Tiers /\ "done" \in Outcomes
      /\ Calling(c, "close", "single") /\ c # Boot
  BY SlotAssumption DEF CloseAgain, Close, OnClientTurn, Closing, Caller, Ops, Tiers, Outcomes
<1>2. CASE CloseAgain(c)
  <2>1. /\ SameInit /\ UNCHANGED <<closed, freed, closing, capabilities, sharedController, thread>>
        /\ Queue(<<Answer(c, 1, "done")>>)
    BY <1>0, <1>2, InitKept DEF CloseAgain, session, options, tiers
  <2>2. PICK job \in JobType : job = Answer(c, 1, "done")
    BY <1>1, ToldJob
  <2>3. WellFormed(job) /\ Of(job, c) /\ job.run = "client"
    BY <1>1, <2>2, ToldJob
  <2>4. job.run \in RunsOf("close") /\ job.who = c
    BY <2>3 DEF RunsOf, Of
  <2>5. call'[c].op = "close"
    BY <1>0, <1>1 DEF Calling, Types
  <2>6. Fine(job, <<job>>)
    BY <2>3, <2>4, <2>5 DEF Fine
  <2> QED
    BY <1>1, <2>1, <2>2, <2>3, <2>4, <2>6, CalledStep
<1>3. CASE Close(c) /\ workerPool # 0
  <2>1. /\ ~closed /\ closed' = TRUE /\ closing' = [who |-> c, worker |-> 1]
        /\ UNCHANGED <<freed, capabilities, sharedController, init, thread, jobs>>
    BY <1>3 DEF Close, options, tiers
  <2> QED
    BY <1>1, <2>1, CloseBegins
<1>4. CASE Close(c) /\ workerPool = 0
  <2>1. /\ closed' = TRUE /\ Queue(<<Job("poolClosed", c, 1, "done")>>) /\ SameInit
        /\ UNCHANGED <<freed, closing, capabilities, sharedController, thread>>
    BY <1>0, <1>4, InitKept DEF Close, options, tiers
  <2>2. PICK job \in JobType : job = Job("poolClosed", c, 1, "done")
    BY <1>1, CloseJob
  <2>3. WellFormed(job) /\ job.run = "poolClosed" /\ job.who = c
    BY <1>1, <2>2, CloseJob
  <2>4. job.run \in RunsOf("close") /\ Of(job, c)
    BY <2>3 DEF RunsOf, Of, Internal
  <2>5. Fine(job, <<job>>)
    BY <2>3 DEF Fine
  <2>6. \A t \in Thread : \A k \in DOMAIN thread[t].queue : thread[t].queue[k] \in Slot =>
           ~WorkerAvailable /\ job.run = "poolClosed"
    <3>1. 0 \notin Attempt /\ \A t \in Thread : t[1] \in Attempt
      BY <1>0, AttemptOf
    <3> QED
      BY <1>0, <1>4, <2>3, <3>1 DEF Queues
  <2> QED
    BY <1>1, <2>1, <2>2, <2>3, <2>4, <2>5, <2>6, CalledStep
<1> QED
  BY <1>2, <1>3, <1>4

\* An encode is posted to a worker.
LEMMA PostStep ==
    ASSUME Core, Session, NEW c \in Slot, NEW op \in {"encode", "detailed"}, NEW tier \in Tiers,
           call[c].op = "idle", turn \/ jobs = <<>>, ~Closing, ~closed,
           Calling(c, op, tier), NEW t \in Thread, thread' = [thread EXCEPT ![t].queue = Append(@, c)],
           SameInit, UNCHANGED <<closed, freed, closing, capabilities, sharedController, jobs>>
    PROVE  Session' /\ Simulated
<1>0. Types /\ AllPlaced /\ Closed /\ Answered /\ Vocabulary /\ call \in [Caller -> [op: Ops, tier: Tiers]]
  BY DEF Core, Session, Types
<1>1. Placed(c) /\ ~HasJob(c) /\ ~Posted(c) /\ ~Joined(c) /\ ~Closer(c) /\ ~Encodes(c)
  BY <1>0, Idle DEF AllPlaced
<1>2. call'[c].op = op /\ \A d \in Slot \ {c} : call'[d] = call[d]
  BY <1>0 DEF Calling, Caller
<1>3. \A d : JobsStay(d)
  BY DEF JobsStay, OneJob, HasJob
<1>4. Posted(c)' /\ OnePost(c)' /\ \A d \in Slot \ {c} : PostsStay(d)
  BY <1>0, <1>1, PostsOne
<1>5. \A d : Closer(d)' <=> Closer(d)
  BY DEF Closer, Closing
<1>6. \A d : JoinsStay(d)
  BY JoinsSame DEF SameInit
<1>7. ASSUME NEW d \in Slot, d # c PROVE Placed(d)'
  <2>1. Placed(d) /\ call'[d] = call[d]
    BY <1>0, <1>2, <1>7 DEF AllPlaced
  <2> QED
    BY <1>3, <1>4, <1>5, <1>6, <1>7, <2>1, Stays
<1>8. ~HasJob(c)' /\ ~Joined(c)' /\ ~Closer(c)' /\ Encodes(c)'
  BY <1>1, <1>2, <1>3, <1>5, <1>6 DEF JobsStay, JoinsStay, Encodes
<1>9. \A k \in DOMAIN jobs' : ~Of(jobs'[k], c)
  BY <1>8 DEF HasJob
<1>10. Placed(c)'
  <2>1. OneJob(c)' /\ OneJoin(c)'
    BY <1>1, <1>3, <1>6 DEF JobsStay, JoinsStay, Placed
  <2> QED
    BY <1>4, <1>8, <1>9, <2>1 DEF Placed
<1>11. AllPlaced'
  BY <1>7, <1>10 DEF AllPlaced
<1>12. \A d \in Slot \ {c} : Observed(d)' = Observed(d)
  <2> SUFFICES ASSUME NEW d \in Slot \ {c} PROVE Observed(d)' = Observed(d)
    OBVIOUS
  <2>1. Encodes(d)' <=> Encodes(d)
    BY <1>2 DEF Encodes
  <2>2. OneJob(d)
    BY <1>0 DEF AllPlaced, Placed
  <2> QED
    BY <1>3, <2>1, <2>2, SeesSame
<1>13. Simulated
  <2>1. Observed(c) = "idle"
    BY <1>1, ObservedIdle
  <2>2. Observed(c)' = "pending"
    BY <1>8, <1>9 DEF Observed, Of, Internal
  <2> QED
    BY <1>12, <2>1, <2>2, SeenIssue
<1>14. Closed'
  <2>1. freed \in BOOLEAN /\ closed \in BOOLEAN /\ ~freed /\ \A i \in Jobs : i.run \notin {"poolClosed", "freeSingle"}
    BY <1>0 DEF Closed
  <2>2. Jobs' = Jobs /\ (Closing' <=> Closing)
    BY DEF Jobs, Closing
  <2> QED
    BY <2>1, <2>2 DEF Closed
<1>15. Answered'
  <2>1. NoneTurns
    <3> SUFFICES ASSUME NEW k \in DOMAIN jobs, jobs[k].run = "client", call'[jobs[k].who].op \in {"encode", "detailed"}
                 PROVE  Encodes(jobs[k].who)
      BY DEF NoneTurns
    <3>1. WellFormed(jobs[k])
      BY <1>0 DEF Types, Jobs
    <3>2. jobs[k].who \in Slot
      BY <3>1 DEF WellFormed, Awaits
    <3>3. jobs[k].who # c
      BY <1>1 DEF HasJob, Of, Internal
    <3> QED
      BY <1>2, <3>2, <3>3 DEF Encodes
  <2> QED
    BY <1>0, <2>1, AnswersSame
<1>16. Vocabulary'
  <2>1. ~Arriving
    BY <1>0, NotArriving
  <2>2. sharedController # 0 => SharedThread(sharedController) \in Thread
    BY <1>0, AttemptOf
  <2>3. \A u \in Thread : thread'[u].model = thread[u].model /\ thread'[u].failure = thread[u].failure
    BY <1>0 DEF Types, ThreadType
  <2> QED
    BY <1>0, <2>1, <2>2, <2>3, SameVocabulary
<1> QED
  BY <1>11, <1>13, <1>14, <1>15, <1>16 DEF Session

\* The pool's next worker is nobody's place.
LEMMA SameAwaiting ==
    ASSUME Types, NEW a \in Attempt, NEW m \in InitType, m.promise = init[a].promise,
           m.awaiting = init[a].awaiting, init' = [init EXCEPT ![a] = m]
    PROVE  SameInit
BY DEF Types, SameInit

\* encode moves the pool on to its next worker.
LEMMA NextWorker ==
    ASSUME Types, NEW a \in Attempt, init' = [init EXCEPT ![a].nextWorker = (@ % WorkerCount) + 1]
    PROVE  SameInit
<1>1. init \in [Attempt -> InitType] /\ init[a] \in InitType /\ init[a].nextWorker \in 1 .. WorkerCount
  BY DEF Types, InitType
<1>2. PICK n \in 1 .. WorkerCount : n = (init[a].nextWorker % WorkerCount) + 1
  BY <1>1, BoundAssumption
<1>3. init' = [init EXCEPT ![a] = [init[a] EXCEPT !.nextWorker = n]]
  BY <1>2
<1>4. PICK m \in InitType : m = [init[a] EXCEPT !.nextWorker = n]
  BY <1>1 DEF InitType
<1>5. m.promise = init[a].promise /\ m.awaiting = init[a].awaiting
  BY <1>1, <1>4 DEF InitType
<1> QED
  BY <1>3, <1>4, <1>5, SameAwaiting

\* encode and encodeDetailed up to their first await, on whatever tier.
LEMMA EncodeKeeps ==
    ASSUME Core, Session, NEW c \in Slot, NEW op \in EncodeOps, Encode(c, op)
    PROVE  Session' /\ Simulated
<1>0. Types /\ Attempts /\ Closed /\ c \in Caller /\ c # Boot /\ op \in {"encode", "detailed"} /\ op \in Ops \ {"idle"}
  BY SlotAssumption DEF Core, Session, Caller, EncodeOps, Ops
<1>1. /\ call[c].op = "idle" /\ (turn \/ jobs = <<>>) /\ ~Closing
      /\ UNCHANGED <<closed, freed, closing, capabilities, sharedController>>
  BY DEF Encode, Encoding, OnClientTurn, Closing, RefuseEncode, EncodeResident, EncodeOnPool, EncodeOnController,
         EncodeWithoutController, session, options, tiers
<1>2. {"rejected", "exact", "error"} \subseteq Outcomes /\ {"worker", "shared"} \subseteq Tiers
  BY DEF Outcomes, Tiers
<1>3. ~closed => ~freed /\ ResidentIds = "exact"
  BY <1>0 DEF Closed, ResidentIds
<1>4. call'[c].op = op \/ ~\E tier \in Tiers : Calling(c, op, tier)
  BY <1>0 DEF Calling, Types
<1>5. CASE \E tier \in Tiers : RefuseEncode(c, op, tier)
  <2>1. PICK tier \in Tiers : RefuseEncode(c, op, tier)
    BY <1>5
  <2>2. PICK n \in 1 .. 5 : n = IF op = "detailed" THEN 1 ELSE 3
    OBVIOUS
  <2>3. closed /\ Calling(c, op, tier) /\ Queue(<<Answer(c, n, "rejected")>>) /\ SameInit /\ UNCHANGED thread
    BY <1>0, <2>1, <2>2, InitKept DEF RefuseEncode, Encoding
  <2>4. PICK job \in JobType : job = Answer(c, n, "rejected")
    BY <1>0, <1>2, ToldJob
  <2>5. WellFormed(job) /\ Of(job, c) /\ job.run = "client" /\ job.with = "rejected"
    BY <1>0, <1>2, <2>4, ToldJob
  <2>6. job.run \in RunsOf(op)
    BY <1>0, <2>5 DEF RunsOf
  <2>7. Fine(job, <<job>>)
    BY <2>5 DEF Fine
  <2> QED
    BY <1>0, <1>1, <2>3, <2>4, <2>5, <2>6, <2>7, CalledStep
<1>6. ASSUME NEW tier \in Tiers, Calling(c, op, tier), ~closed, Queue(<<Encoded(c, op, 3, ResidentIds)>>),
             UNCHANGED <<init, thread>>
      PROVE  Session' /\ Simulated
  <2>1. PICK job \in JobType : job = Encoded(c, op, 3, "exact")
    <3>1. 3 \in 1 .. 5 /\ "exact" \in Outcomes
      BY <1>2
    <3> QED
      BY <3>1, EncodedJob
  <2>2. /\ WellFormed(job) /\ job.run = (IF op = "detailed" THEN "detailed" ELSE "client")
        /\ job.who = c /\ job.with = "exact"
    <3>1. 3 \in 1 .. 5 /\ "exact" \in Outcomes
      BY <1>2
    <3> QED
      BY <2>1, <3>1, EncodedJob
  <2>3. job.run \in RunsOf(op) /\ Of(job, c)
    BY <1>0, <2>2 DEF RunsOf, Of, Internal
  <2>4. job.run = "detailed" => job.ticks = 1
    BY <2>1, <2>2 DEF Encoded, Job
  <2>5. Fine(job, <<job>>)
    <3>1. \A i \in Jobs : i.run \notin {"poolClosed", "freeSingle"}
      BY <1>0, <1>6 DEF Closed
    <3>2. PICK js : js = <<job>>
      OBVIOUS
    <3>3. \A k \in DOMAIN js : js[k].run \notin {"poolClosed", "freeSingle"}
      BY <2>2, <3>2
    <3>4. Fine(job, js)
      BY <1>1, <1>3, <1>6, <2>2, <2>4, <3>1, <3>3 DEF Fine
    <3> QED
      BY <3>2, <3>4
  <2>6. Queue(<<job>>)
    BY <1>3, <1>6, <2>1
  <2>7. SameInit
    BY <1>0, <1>6, InitKept
  <2> QED
    BY <1>0, <1>1, <1>6, <2>2, <2>3, <2>5, <2>6, <2>7, CalledStep
<1>7. CASE \E tier \in Tiers : EncodeResident(c, op, tier)
  BY <1>6, <1>7 DEF EncodeResident, Encoding
<1>8. CASE EncodeWithoutController(c, op)
  BY <1>2, <1>6, <1>8 DEF EncodeWithoutController, Encoding
<1>9. ASSUME NEW tier \in Tiers, NEW t \in Thread, Calling(c, op, tier), Post(c, t, tier), SameInit, ~closed
      PROVE  Session' /\ Simulated
  <2>1. CASE thread[t].failure = "none"
    BY <1>0, <1>1, <1>9, <2>1, PostStep DEF Post
  <2>2. CASE thread[t].failure # "none"
    <3>1. Queue(<<EncodeReaction(c, tier, "error")>>) /\ UNCHANGED thread
      BY <1>9, <2>2 DEF Post
    <3>2. PICK job \in JobType : job = EncodeReaction(c, tier, "error")
      BY <1>2, ReactionJob
    <3>3. WellFormed(job) /\ job.run = "encoded" /\ job.who = c /\ job.with = "error"
      BY <1>2, <3>2, ReactionJob
    <3>4. job.run \in RunsOf(op) /\ Of(job, c)
      BY <1>0, <3>3 DEF RunsOf, Of, Internal
    <3>5. Fine(job, <<job>>)
      BY <3>3 DEF Fine
    <3> QED
      BY <1>0, <1>1, <1>9, <3>1, <3>2, <3>3, <3>4, <3>5, CalledStep
  <2> QED
    BY <2>1, <2>2
<1>10. CASE EncodeOnPool(c, op)
  <2>1. /\ ~closed /\ workerPool # 0 /\ Calling(c, op, "worker")
        /\ Post(c, <<workerPool, init[workerPool].nextWorker>>, "worker")
        /\ init' = [init EXCEPT ![workerPool].nextWorker = (@ % WorkerCount) + 1]
    BY <1>10 DEF EncodeOnPool, Encoding
  <2>2. PICK a \in Attempt : a = workerPool
    BY <1>0, <2>1, AttemptOf
  <2>3. init[a].nextWorker \in 1 .. WorkerCount
    BY <1>0 DEF Types, InitType
  <2>4. PICK t \in Thread : t = <<workerPool, init[workerPool].nextWorker>>
    BY <2>2, <2>3 DEF Thread
  <2>5. SameInit
    BY <1>0, <2>1, <2>2, NextWorker
  <2> QED
    BY <1>2, <1>9, <2>1, <2>4, <2>5
<1>11. CASE EncodeOnController(c, op)
  <2>1. /\ ~closed /\ sharedController # 0 /\ Calling(c, op, "shared")
        /\ Post(c, SharedThread(sharedController), "shared") /\ SameInit
    BY <1>0, <1>11, InitKept DEF EncodeOnController, Encoding
  <2>2. SharedThread(sharedController) \in Thread
    BY <1>0, <2>1, AttemptOf
  <2> QED
    BY <1>2, <1>9, <2>1, <2>2
<1> QED
  BY <1>5, <1>7, <1>8, <1>10, <1>11 DEF Encode

\* Whatever a client calls.
LEMMA ClientKeeps ==
    ASSUME Core, Session, NEW c \in Slot, Client(c)
    PROVE  Session' /\ Simulated
<1>1. c \in Caller
  BY DEF Caller
<1> QED
  BY <1>1, EnsureTierKeeps, EncodeKeeps, CloseKeeps DEF Client

\* The job at the head of the queue runs and nothing follows it: its call is over.
LEMMA EndsStep ==
    ASSUME Core, Session, jobs # <<>>, ~Closing, Resume(<<>>), Head(jobs).run \in {"boot", "client"},
           \A c \in Slot : IF Of(Head(jobs), c) THEN call'[c].op = "idle" ELSE call'[c] = call[c],
           UNCHANGED <<closed, freed, closing, capabilities, thread, init, sharedController>>
    PROVE  Session' /\ Simulated
<1>0. Types /\ AllPlaced /\ Closed /\ Answered /\ Vocabulary /\ SameInit
  BY InitKept DEF Core, Session
<1>1. Head(jobs) \in Jobs /\ WellFormed(Head(jobs)) /\ Head(jobs) = jobs[1] /\ 1 \in DOMAIN jobs
  BY <1>0, HeadJob
<1>2. PICK js : js = <<>>
  OBVIOUS
<1>3. js \in Seq(JobType) /\ DOMAIN js = {} /\ Resume(js)
  BY <1>2
<1>4. \A d : PostsStay(d) /\ JoinsStay(d)
  BY PostsSame, JoinsSame DEF SameInit
<1>5. \A d : Closer(d)' <=> Closer(d)
  BY DEF Closer, Closing
<1>6. ASSUME NEW d \in Slot, ~Of(Head(jobs), d) PROVE JobsStay(d) /\ Placed(d)'
  <2>1. JobsStay(d)
    BY <1>0, <1>3, <1>6, ResumeStays
  <2>2. call'[d] = call[d] /\ Placed(d)
    BY <1>0, <1>6 DEF AllPlaced
  <2> QED
    BY <1>4, <1>5, <2>1, <2>2, Stays
<1>7. ASSUME NEW d \in Slot, Of(Head(jobs), d) PROVE Placed(d)'
  <2>1. Placed(d) /\ HasJob(d)
    BY <1>0, <1>1, <1>7 DEF AllPlaced, HasJob
  <2>2. OneJob(d) /\ ~Posted(d) /\ ~Joined(d) /\ ~Closer(d)
    BY <2>1 DEF Placed
  <2>3. ~HasJob(d)'
    BY <1>0, <1>3, <1>7, <2>2, ResumeLeaves
  <2>4. ~Posted(d)' /\ ~Joined(d)' /\ ~Closer(d)'
    BY <1>4, <1>5, <2>2 DEF PostsStay, JoinsStay
  <2> QED
    BY <1>7, <2>3, <2>4, Ends
<1>8. AllPlaced'
  BY <1>6, <1>7 DEF AllPlaced
<1>9. Answered'
  <2>1. \A d \in Slot : call'[d].op \in {"encode", "detailed"} => Encodes(d)
    BY DEF Encodes
  <2>2. NoneTurns
    BY <1>0, <2>1, NoneTurned
  <2> QED
    BY <1>0, <1>3, <2>2, AnswersResume
<1>10. /\ \A i \in Jobs' : i \in Jobs
       /\ \A k \in DOMAIN jobs : k # 1 => jobs[k] \in Jobs'
  <2>1. /\ \A i \in Jobs' : i \in Jobs \/ \E k \in DOMAIN js : i = js[k]
        /\ \A k \in DOMAIN jobs : k # 1 => k - 1 \in DOMAIN jobs' /\ jobs'[k - 1] = jobs[k]
    BY <1>0, <1>3, Resumed
  <2> QED
    BY <1>3, <2>1 DEF Jobs
<1>11. Closed'
  <2>1. (\E job \in Jobs : job.run = "poolClosed") => WorkerAvailable \/ \E job \in Jobs' : job.run = "poolClosed"
    <3> SUFFICES ASSUME NEW k \in DOMAIN jobs, jobs[k].run = "poolClosed"
                 PROVE  \E job \in Jobs' : job.run = "poolClosed"
      BY DEF Jobs
    <3>1. k # 1
      BY <1>1
    <3> QED
      BY <1>10, <3>1
  <2>2. \A t \in Thread : \A k \in DOMAIN thread'[t].queue : thread'[t].queue[k] \in Slot =>
              (\E i \in DOMAIN thread[t].queue : thread[t].queue[i] \in Slot) \/ ~closed
    OBVIOUS
  <2> QED
    BY <1>0, <1>10, <2>1, <2>2, SameClosed
<1>12. Vocabulary'
  <2>1. ~Arriving
    BY <1>0, NotArriving
  <2>2. sharedController # 0 => SharedThread(sharedController) \in Thread
    BY <1>0, AttemptOf
  <2> QED
    BY <1>0, <2>1, <2>2, SameVocabulary
<1>13. \A d \in Slot : ~Of(Head(jobs), d) => Observed(d)' = Observed(d)
  <2> SUFFICES ASSUME NEW d \in Slot, ~Of(Head(jobs), d) PROVE Observed(d)' = Observed(d)
    OBVIOUS
  <2>1. OneJob(d) /\ JobsStay(d)
    BY <1>0, <1>6 DEF AllPlaced, Placed
  <2>2. Encodes(d)' <=> Encodes(d)
    BY DEF Encodes
  <2> QED
    BY <2>1, <2>2, SeesSame
<1>14. Simulated
  <2>1. CASE \E c \in Slot : Of(Head(jobs), c) /\ Encodes(c)
    <3>1. PICK c \in Slot : Of(Head(jobs), c) /\ Encodes(c)
      BY <2>1
    <3>2. Head(jobs).who = c /\ Head(jobs).run = "client" /\ OneJob(c)
      BY <1>0, <1>1, <3>1, SlotAssumption DEF Of, WellFormed, Awaits, AllPlaced, Placed
    <3>3. Observed(c) = Head(jobs).with
      BY <1>1, <3>1, <3>2, ObservedIs
    <3>4. Head(jobs).with \in {"exact", "rejected"}
      BY <1>0, <1>1, <3>1, <3>2 DEF Answered, AnsweredAt
    <3>5. Observed(c)' = "idle"
      BY <3>1 DEF Observed, Encodes
    <3>6. \A d \in Slot \ {c} : Observed(d)' = Observed(d)
      BY <1>13, <3>2 DEF Of
    <3> QED
      BY <3>3, <3>4, <3>5, <3>6, SeenDeliver
  <2>2. CASE ~\E c \in Slot : Of(Head(jobs), c) /\ Encodes(c)
    <3>1. \A d \in Slot : Of(Head(jobs), d) => Observed(d)' = Observed(d)
      BY <2>2 DEF Observed, Encodes
    <3>2. \A d \in Slot : Observed(d)' = Observed(d)
      BY <1>13, <3>1
    <3> QED
      BY <3>2, Unseen
  <2> QED
    BY <2>1, <2>2
<1> QED
  BY <1>8, <1>9, <1>11, <1>12, <1>14 DEF Session

\* The continuations that end a call or the creation of the session.
LEMMA EndsKeeps ==
    ASSUME Core, Session, ClientResumes \/ Booted \/ BootClosed
    PROVE  Session' /\ Simulated
<1>0. Types /\ jobs # <<>> /\ ~Closing /\ Resume(<<>>) /\ Head(jobs).run \in {"boot", "client"}
  BY DEF Core, ClientResumes, Booted, BootClosed, Runs, Closing
<1>1. Head(jobs) \in JobType /\ WellFormed(Head(jobs)) /\ call \in [Caller -> [op: Ops, tier: Tiers]]
  BY <1>0, HeadJob DEF Types
<1>2. call' = [call EXCEPT ![Head(jobs).who] = IdleCall]
  BY <1>0, <1>1 DEF ClientResumes, Booted, BootClosed, Runs, WellFormed, Awaits
<1>3. \A c \in Slot : IF Of(Head(jobs), c) THEN call'[c].op = "idle" ELSE call'[c] = call[c]
  BY <1>0, <1>1, <1>2 DEF Of, Internal, IdleCall, Caller
<1>4. UNCHANGED <<closed, freed, closing, capabilities, thread, init, sharedController>>
  BY DEF ClientResumes, Booted, BootClosed, session, options, tiers
<1> QED
  BY <1>0, <1>3, <1>4, EndsStep

\* Jobs that go on with what they began

\* No job runs before the thread of a controller is known, and no thread changes.
LEMMA VocabularyRuns ==
    ASSUME Types, Vocabulary, ~Arriving, UNCHANGED <<capabilities, sharedController, thread>>
    PROVE  Vocabulary'
<1>1. sharedController # 0 => SharedThread(sharedController) \in Thread
  BY AttemptOf
<1> QED
  BY <1>1, SameVocabulary

\* A reaction before the one that matters.
LEMMA TickKeeps ==
    ASSUME Core, Session, Tick
    PROVE  Session' /\ Simulated
<1>0. Types /\ jobs # <<>> /\ ~Closing /\ AllPlaced /\ Closed /\ Answered /\ Vocabulary
  BY DEF Core, Session, Tick, Closing
<1>1. /\ Head(jobs) \in JobType /\ WellFormed(Head(jobs)) /\ Head(jobs) \in Jobs
      /\ Head(jobs) = jobs[1] /\ 1 \in DOMAIN jobs
  BY <1>0, HeadJob
<1>2. PICK job : job = [Head(jobs) EXCEPT !.ticks = @ - 1]
  OBVIOUS
<1>3. Head(jobs).ticks \in 1 .. 5 /\ Head(jobs).ticks > 1
  BY <1>1 DEF JobType, Tick
<1>4. Head(jobs).ticks - 1 \in 1 .. 5
  BY <1>3
<1>5. /\ job \in JobType /\ job.run = Head(jobs).run /\ job.who = Head(jobs).who
      /\ job.with = Head(jobs).with /\ Head(jobs).run \notin {"sharedReady", "verifyShared", "joinShared", "adoptPool"}
  BY <1>1, <1>2, <1>3, <1>4 DEF JobType, WellFormed, Awaits
<1>6. WellFormed(job)
  BY <1>1, <1>5 DEF WellFormed, Awaits
<1>7. /\ turn' = FALSE /\ Resume(<<job>>)
      /\ UNCHANGED <<closed, freed, capabilities, sharedController, init, thread, call, closing>>
  BY <1>2 DEF Tick, session, options, tiers
<1>8. SameInit
  BY <1>0, <1>7, InitKept
<1>9. Vocabulary'
  <2>1. ~Arriving
    BY <1>0, <1>5, NotArriving
  <2> QED
    BY <1>0, <1>7, <2>1, VocabularyRuns
<1>10. \A c : Of(job, c) <=> Of(Head(jobs), c)
  BY <1>5 DEF Of
<1>11. \A c \in Slot : Of(job, c) => job.run \in RunsOf(call[c].op)
  BY <1>0, <1>1, <1>5, <1>10 DEF AllPlaced, Placed
<1>12. AnsweredAt(1)
  BY <1>0, <1>1 DEF Answered
<1>13. job.run # "detailed"
  BY <1>1, <1>3, <1>5, <1>12 DEF AnsweredAt
<1>14. Alone => Alone'
  <2>1. Len(jobs') = Len(jobs)
    BY <1>0, <1>5, <1>6, <1>7, ResumedOne
  <2> QED
    BY <1>7, <2>1 DEF Alone, Closing
<1>15. Fine(job, <<job>>)
  BY <1>1, <1>5, <1>7, <1>12, <1>13, <1>14 DEF Fine, AnsweredAt, Encodes
<1>16. job.run \in {"poolClosed", "freeSingle"} => closed'
  BY <1>0, <1>1, <1>5, <1>7 DEF Closed
<1> QED
  BY <1>0, <1>5, <1>6, <1>7, <1>8, <1>9, <1>10, <1>11, <1>15, <1>16, GoesOnStep

\* A caller of ensureTier is told how the activation it awaited ended.
LEMMA Concludes ==
    ASSUME Core, Session, jobs # <<>>, ~Closing, Head(jobs).run \in Awaits, NEW r \in Outcomes,
           Resume(<<Answer(Head(jobs).who, 2, r)>>), Vocabulary',
           UNCHANGED <<closed, freed, capabilities, init, thread, call, closing>>
    PROVE  Session' /\ Simulated
<1>0. Types /\ AllPlaced /\ SameInit
  BY InitKept DEF Core, Session
<1>1. WellFormed(Head(jobs)) /\ Head(jobs) = jobs[1] /\ 1 \in DOMAIN jobs
  BY <1>0, HeadJob
<1>2. PICK c \in Caller : c = Head(jobs).who
  BY <1>1 DEF WellFormed, Awaits
<1>3. PICK job : job = Answer(c, 2, r)
  OBVIOUS
<1>4. /\ job \in JobType /\ WellFormed(job) /\ Of(job, c) /\ job.with = r
      /\ job.run = (IF c = Boot THEN "boot" ELSE "client") /\ job.who = c
  <2>1. 2 \in 1 .. 5
    OBVIOUS
  <2> QED
    BY <1>3, <2>1, ToldJob DEF Of
<1>5. Resume(<<job>>)
  BY <1>2, <1>3
<1>6. \A d \in Slot : Of(job, d) <=> Of(Head(jobs), d)
  BY <1>2, <1>4 DEF Of, Internal, Awaits
<1>7. \A d \in Slot : Of(job, d) => call[d].op = "switch"
  <2> SUFFICES ASSUME NEW d \in Slot, Of(job, d) PROVE call[d].op = "switch"
    OBVIOUS
  <2>1. Head(jobs).run \in RunsOf(call[d].op)
    BY <1>0, <1>1, <1>6 DEF AllPlaced, Placed
  <2> QED
    BY <2>1 DEF RunsOf, Awaits
<1>8. \A d \in Slot : Of(job, d) => job.run \in RunsOf(call[d].op)
  BY <1>4, <1>7, SlotAssumption DEF RunsOf, Of
<1>9. \A d \in Slot : Of(job, d) => ~Encodes(d)
  BY <1>7 DEF Encodes
<1>10. Fine(job, <<job>>)
  <2>1. job.run = "client" => c \in Slot /\ ~Encodes(c)
    BY <1>4, <1>9 DEF Caller
  <2> QED
    BY <1>4, <2>1 DEF Fine, Encodes
<1>11. Head(jobs).run \notin {"client", "poolClosed", "freeSingle"} /\ job.run \notin {"poolClosed", "freeSingle"}
  BY <1>4 DEF Awaits
<1> QED
  BY <1>0, <1>4, <1>5, <1>6, <1>8, <1>9, <1>10, <1>11, GoesOnStep

\* What follows the awaits of ensureTier, but for a controller that is refused.
LEMMA ConcludesKeeps ==
    ASSUME Core, Session, VerifyShared \/ JoinedShared \/ AdoptPool \/ PoolRefused
    PROVE  Session' /\ Simulated
<1>0. /\ Types /\ jobs # <<>> /\ ~Closing /\ Vocabulary /\ Head(jobs).run \in Awaits
      /\ UNCHANGED <<closed, freed, capabilities, sharedController, init, thread, call, closing>>
  BY DEF Core, Session, VerifyShared, JoinedShared, AdoptPool, PoolRefused, Runs, Closing, Awaits, session, options, tiers
<1>1. \E r \in Outcomes : Resume(<<Answer(Head(jobs).who, 2, r)>>)
  BY DEF VerifyShared, JoinedShared, AdoptPool, PoolRefused, Outcomes, Tiers
<1>2. Vocabulary'
  <2>1. CASE ~Arriving
    BY <1>0, <2>1, VocabularyRuns
  <2>2. CASE VerifyShared
    <3>1. Head(jobs) \in Jobs /\ Head(jobs).run = "verifyShared" /\ ~Foreign({SharedThread(Head(jobs).attempt)})
      BY <1>0, <2>2, HeadJob DEF VerifyShared, Runs
    <3>2. ~WorkerAvailable => Head(jobs).attempt = sharedController
      BY <3>1 DEF Core, Controller
    <3>3. ~WorkerAvailable /\ sharedController # 0 => thread[SharedThread(sharedController)].model # "foreign"
      <4>1. sharedController # 0 => SharedThread(sharedController) \in Thread
        BY <1>0, AttemptOf
      <4> QED
        BY <1>0, <3>1, <3>2, <4>1 DEF Foreign, Vocabulary
    <3> QED
      BY <1>0, <3>3 DEF Vocabulary, WorkerAvailable, SharedThread
  <2>3. CASE ~VerifyShared
    <3>1. Head(jobs).run \notin {"sharedReady", "verifyShared"}
      BY <2>3 DEF JoinedShared, AdoptPool, PoolRefused, Runs
    <3>2. ~Arriving
      BY <1>0, <3>1, NotArriving
    <3> QED
      BY <1>0, <3>2, VocabularyRuns
  <2> QED
    BY <2>1, <2>2, <2>3
<1> QED
  BY <1>0, <1>1, <1>2, Concludes

\* While the initial activation runs, no client has called anything.
Opening ==
    /\ call[Boot].op # "idle" => phase = "booting"
    /\ phase # "open" => \A c \in Slot : call[c].op = "idle"

\* createTierRuntime returns before its first client calls.
LEMMA OpeningStep ==
    ASSUME Core, Opening, [Next]_vars
    PROVE  Opening'
<1>0. /\ Types /\ call \in [Caller -> [op: Ops, tier: Tiers]] /\ Boot \in Caller /\ Boot \notin Slot
      /\ \A c \in Slot : c \in Caller
  BY SlotAssumption DEF Core, Types, Caller
<1>1. CASE UNCHANGED <<phase, call>>
  BY <1>1 DEF Opening
<1>2. ASSUME NEW c \in Caller, NEW op, NEW tier, Calling(c, op, tier), phase' = phase,
             IF c = Boot THEN phase = "booting" ELSE phase = "open"
      PROVE  Opening'
  <2>1. \A d \in Caller : d # c => call'[d] = call[d]
    BY <1>0, <1>2 DEF Calling
  <2> QED
    BY <1>0, <1>2, <2>1 DEF Opening
<1>3. ASSUME NEW c \in Caller, NEW requested, EnsureTier(c, requested) PROVE Opening'
  <2>1. /\ Activating(c, requested) /\ phase' = phase
        /\ Calling(c, "switch", "single") \/ \E tier \in Tiers : Calling(c, "switch", tier)
    BY <1>3 DEF EnsureTier, RefuseTier, ReuseSingle, RefuseImage, ReusePool, JoinPool, StartPool, JoinShared,
                StartShared, Activate, session, Tiers
  <2>2. IF c = Boot THEN phase = "booting" ELSE phase = "open"
    BY <2>1 DEF Activating, OnClientTurn
  <2> QED
    BY <1>2, <2>1, <2>2
<1>4. ASSUME NEW c \in Slot, Client(c) PROVE Opening'
  <2>1. c \in Caller /\ c # Boot
    BY <1>0
  <2>2. ASSUME NEW op \in EncodeOps, Encode(c, op) PROVE Opening'
    <3>1. \E tier : Calling(c, op, tier) /\ phase' = phase /\ phase = "open"
      BY <2>2 DEF Encode, RefuseEncode, EncodeResident, EncodeOnPool, EncodeOnController, EncodeWithoutController,
                  Encoding, OnClientTurn, session
    <3> QED
      BY <1>2, <2>1, <3>1
  <2>3. CASE CloseAgain(c) \/ Close(c)
    <3>1. Calling(c, "close", "single") /\ phase' = phase /\ phase = "open"
      BY <2>3 DEF CloseAgain, Close, OnClientTurn, session
    <3> QED
      BY <1>2, <2>1, <3>1
  <2> QED
    BY <1>3, <1>4, <2>1, <2>2, <2>3 DEF Client
<1>5. CASE Continue
  <2>1. CASE Tick \/ PoolReady \/ PoolUnusable \/ PoolFailed \/ AdoptPool \/ PoolRefused \/ SharedReady
    BY <1>1, <2>1 DEF Tick, PoolReady, PoolUnusable, PoolFailed, AdoptPool, PoolRefused, SharedReady, session
  <2>2. CASE VerifyShared \/ SharedUnusable \/ JoinedShared \/ CloseWorker \/ CloseController
    BY <1>1, <2>2 DEF VerifyShared, SharedUnusable, JoinedShared, CloseWorker, CloseController, session
  <2>3. CASE FreeSingle \/ EncodeResumes \/ DetailedResumes
    BY <1>1, <2>3 DEF FreeSingle, EncodeResumes, DetailedResumes, session
  <2>4. CASE ClientResumes
    <3>1. Head(jobs).who \in Slot
      BY <1>0, <2>4, HeadJob DEF ClientResumes, WellFormed, Awaits
    <3>2. call' = [call EXCEPT ![Head(jobs).who] = IdleCall] /\ phase' = phase
      BY <2>4 DEF ClientResumes, session
    <3>3. IdleCall.op = "idle"
      BY DEF IdleCall
    <3> QED
      BY <1>0, <3>1, <3>2, <3>3 DEF Opening
  <2>5. CASE Booted \/ BootClosed
    <3>1. call' = [call EXCEPT ![Boot] = IdleCall] /\ call[Boot].op # "idle" /\ IdleCall.op = "idle"
      BY <2>5 DEF Booted, BootClosed, IdleCall
    <3> QED
      BY <1>0, <3>1 DEF Opening
  <2>6. CASE BootRefused
    <3>1. call' = [call EXCEPT ![Boot].op = "close"] /\ call[Boot].op # "idle" /\ phase' = phase
      BY <2>6 DEF BootRefused
    <3> QED
      BY <1>0, <3>1 DEF Opening
  <2> QED
    BY <1>5, <2>1, <2>2, <2>3, <2>4, <2>5, <2>6 DEF Continue
<1>6. ASSUME NEW t \in Thread, Initializes(t) \/ Answers(t) \/ Fault(t) PROVE Opening'
  <2>1. Delivered(t)
    BY <1>6 DEF Initializes, InitAnswered, InitFailed, Answers, EncodeAnswered, Fault
  <2> QED
    BY <1>1, <2>1 DEF Delivered, session
<1>7. CASE UNCHANGED vars
  BY <1>1, <1>7 DEF vars, session
<1> QED
  BY <1>0, <1>3, <1>4, <1>5, <1>6, <1>7 DEF Next, Refused

\* createTierRuntime closes the session it could not give the tier that was asked for.
LEMMA BootRefusedKeeps ==
    ASSUME Core, Session, Opening, BootRefused
    PROVE  Session' /\ Simulated
<1>0. /\ Types /\ jobs # <<>> /\ ~Closing /\ AllPlaced /\ Vocabulary /\ Head(jobs).run = "boot"
      /\ call \in [Caller -> [op: Ops, tier: Tiers]]
  BY DEF Core, Session, BootRefused, Runs, Closing, Types
<1>1. WellFormed(Head(jobs)) /\ call[Boot].op = "switch" /\ phase = "booting" /\ Boot \in Caller
  BY <1>0, HeadJob DEF BootRefused, Opening, Caller
<1>2. PICK job : job = Job("poolClosed", Boot, 1, "done")
  OBVIOUS
<1>3. job \in JobType /\ WellFormed(job) /\ job.run = "poolClosed" /\ job.who = Boot
  BY <1>1, <1>2, CloseJob
<1>4. /\ Resume(<<job>>) /\ closed' = TRUE /\ call' = [call EXCEPT ![Boot].op = "close"]
      /\ UNCHANGED <<freed, capabilities, sharedController, thread, init, closing>>
  BY <1>2 DEF BootRefused, options, tiers
<1>5. \A c \in Slot : call'[c] = call[c]
  BY <1>0, <1>4, SlotAssumption DEF Caller
<1>6. \A c \in Slot : ~Of(job, c) /\ ~Of(Head(jobs), c)
  BY <1>0, <1>1, <1>3, SlotAssumption DEF Of, WellFormed, Awaits
<1>7. \A t \in Thread : \A k \in DOMAIN thread[t].queue : thread[t].queue[k] \notin Slot
  <2> SUFFICES ASSUME NEW t \in Thread, NEW k \in DOMAIN thread[t].queue, NEW c \in Slot, thread[t].queue[k] = c
               PROVE  FALSE
    OBVIOUS
  <2>1. Encodes(c)
    BY <1>0 DEF AllPlaced, Placed, Posted
  <2> QED
    BY <1>1, <2>1 DEF Opening, Encodes
<1>8. Vocabulary'
  <2>1. ~Arriving
    BY <1>0, NotArriving
  <2> QED
    BY <1>0, <1>4, <2>1, VocabularyRuns
<1>9. SameInit
  BY <1>0, <1>4, InitKept
<1>10. Fine(job, <<job>>)
  BY <1>3 DEF Fine
<1> QED
  BY <1>0, <1>3, <1>4, <1>5, <1>6, <1>7, <1>8, <1>9, <1>10, GoesOnStep

\* encodeForTier after its await: the worker's ids or the fallback.
LEMMA EncodeResumesKeeps ==
    ASSUME Core, Session, EncodeResumes
    PROVE  Session' /\ Simulated
<1>0. /\ Types /\ jobs # <<>> /\ ~Closing /\ AllPlaced /\ Closed /\ Answered /\ Vocabulary
      /\ Head(jobs).run = "encoded"
      /\ UNCHANGED <<closed, freed, capabilities, sharedController, init, thread, call, closing>>
  BY DEF Core, Session, EncodeResumes, Runs, Closing, session, options, tiers
<1>1. WellFormed(Head(jobs)) /\ Head(jobs) = jobs[1] /\ 1 \in DOMAIN jobs
  BY <1>0, HeadJob
<1>2. PICK c \in Slot : c = Head(jobs).who
  BY <1>0, <1>1 DEF WellFormed
<1>3. PICK v : v = IF Head(jobs).with # "error" THEN Head(jobs).with
                   ELSE IF closed THEN "rejected" ELSE ResidentIds
  OBVIOUS
<1>4. IF closed THEN v = "rejected" ELSE v = "exact"
  <2>1. AnsweredAt(1)
    BY <1>0, <1>1 DEF Answered
  <2>2. Head(jobs).with = "error" \/ (Head(jobs).with = "exact" /\ ~closed)
    BY <1>0, <1>1, <2>1 DEF AnsweredAt, Alone
  <2> QED
    BY <1>0, <1>3, <2>2 DEF ResidentIds, Closed
<1>5. PICK job : job = Encoded(c, call[c].op, 2, v)
  OBVIOUS
<1>6. /\ job \in JobType /\ WellFormed(job) /\ job.who = c /\ job.with = v
      /\ job.run = IF call[c].op = "detailed" THEN "detailed" ELSE "client"
  <2>1. 2 \in 1 .. 5 /\ v \in Outcomes
    BY <1>4 DEF Outcomes
  <2> QED
    BY <1>5, <2>1, EncodedJob
<1>7. Resume(<<job>>)
  BY <1>2, <1>3, <1>5 DEF EncodeResumes
<1>8. \A d \in Slot : Of(job, d) <=> Of(Head(jobs), d)
  BY <1>0, <1>2, <1>6 DEF Of, Internal
<1>9. call[c].op \in {"encode", "detailed"}
  <2>1. Head(jobs).run \in RunsOf(call[c].op)
    BY <1>0, <1>1, <1>2 DEF AllPlaced, Placed, Of, Internal
  <2> QED
    BY <1>0, <2>1 DEF RunsOf, Awaits
<1>10. \A d \in Slot : Of(job, d) => job.run \in RunsOf(call[d].op)
  BY <1>6, <1>9 DEF Of, RunsOf
<1>11. job.run = "detailed" => job.ticks = 1
  BY <1>5, <1>6 DEF Encoded, Job
<1>12. Fine(job, <<job>>)
  <2>1. ~closed => ~freed /\ \A i \in Jobs : i.run \notin {"poolClosed", "freeSingle"}
    BY <1>0 DEF Closed
  <2>2. PICK js : js = <<job>>
    OBVIOUS
  <2>3. \A k \in DOMAIN js : js[k].run \notin {"poolClosed", "freeSingle"}
    BY <1>6, <2>2
  <2>4. Fine(job, js)
    BY <1>0, <1>4, <1>6, <1>11, <2>1, <2>3 DEF Fine
  <2> QED
    BY <2>2, <2>4
<1>13. (job.with = "rejected" /\ closed) \/ (job.with = "exact" /\ ~freed)
  BY <1>0, <1>4, <1>6 DEF Closed
<1>14. Vocabulary'
  <2>1. ~Arriving
    BY <1>0, NotArriving
  <2> QED
    BY <1>0, <2>1, VocabularyRuns
<1>15. SameInit
  BY <1>0, InitKept
<1>16. job.run \notin {"poolClosed", "freeSingle"}
  BY <1>6
<1> QED
  BY <1>0, <1>6, <1>7, <1>8, <1>10, <1>12, <1>13, <1>14, <1>15, <1>16, GoesOnStep

\* encodeDetailed after its await.
LEMMA DetailedResumesKeeps ==
    ASSUME Core, Session, DetailedResumes
    PROVE  Session' /\ Simulated
<1>0. /\ Types /\ jobs # <<>> /\ ~Closing /\ AllPlaced /\ Answered /\ Vocabulary
      /\ Head(jobs).run = "detailed"
      /\ UNCHANGED <<closed, freed, capabilities, sharedController, init, thread, call, closing>>
  BY DEF Core, Session, DetailedResumes, Runs, Closing, session, options, tiers
<1>1. WellFormed(Head(jobs)) /\ Head(jobs) = jobs[1] /\ 1 \in DOMAIN jobs
  BY <1>0, HeadJob
<1>2. PICK c \in Slot : c = Head(jobs).who
  BY <1>0, <1>1 DEF WellFormed
<1>3. (Head(jobs).with = "rejected" /\ closed) \/ (Head(jobs).with = "exact" /\ ~freed)
  <2>1. AnsweredAt(1)
    BY <1>0, <1>1 DEF Answered
  <2> QED
    BY <1>0, <1>1, <2>1 DEF AnsweredAt
<1>4. PICK v \in Outcomes : v = Head(jobs).with
  BY <1>3 DEF Outcomes
<1>5. PICK job : job = Answer(c, 1, v)
  OBVIOUS
<1>6. /\ job \in JobType /\ WellFormed(job) /\ Of(job, c) /\ job.with = v
      /\ job.run = "client" /\ job.who = c
  <2>1. 1 \in 1 .. 5 /\ c \in Caller /\ c # Boot
    BY SlotAssumption DEF Caller
  <2> QED
    BY <1>5, <2>1, ToldJob DEF Of
<1>7. Resume(<<job>>)
  BY <1>2, <1>3, <1>4, <1>5 DEF DetailedResumes
<1>8. \A d \in Slot : Of(job, d) <=> Of(Head(jobs), d)
  BY <1>0, <1>2, <1>6 DEF Of, Internal
<1>9. call[c].op \in {"encode", "detailed"}
  <2>1. Head(jobs).run \in RunsOf(call[c].op)
    BY <1>0, <1>1, <1>2 DEF AllPlaced, Placed, Of, Internal
  <2> QED
    BY <1>0, <2>1 DEF RunsOf, Awaits
<1>10. \A d \in Slot : Of(job, d) => job.run \in RunsOf(call[d].op)
  BY <1>6, <1>9 DEF Of, RunsOf
<1>11. Fine(job, <<job>>)
  BY <1>3, <1>4, <1>6 DEF Fine
<1>12. Vocabulary'
  <2>1. ~Arriving
    BY <1>0, NotArriving
  <2> QED
    BY <1>0, <2>1, VocabularyRuns
<1>13. SameInit
  BY <1>0, InitKept
<1> QED
  BY <1>0, <1>3, <1>4, <1>6, <1>7, <1>8, <1>10, <1>11, <1>12, <1>13, GoesOnStep

\* close() goes on to its next await, or has freed the resident tokenizer.
LEMMA CloseGoesOn ==
    ASSUME Core, Session, jobs # <<>>, ~Closing, Head(jobs).run \in {"poolClosed", "freeSingle"},
           NEW job \in JobType, WellFormed(job), Resume(<<job>>), job.who = Head(jobs).who, job.with = "done",
           IF Head(jobs).run = "poolClosed"
           THEN job.run = "freeSingle" /\ sharedController = 0 /\ freed' = freed
           ELSE job.run = (IF job.who = Boot THEN "boot" ELSE "client") /\ freed' = TRUE,
           UNCHANGED <<closed, capabilities, sharedController, init, thread, call, closing>>
    PROVE  Session' /\ Simulated
<1>0. /\ Types /\ AllPlaced /\ Closed /\ Vocabulary /\ SameInit
  BY InitKept DEF Core, Session
<1>1. WellFormed(Head(jobs)) /\ Head(jobs) = jobs[1] /\ 1 \in DOMAIN jobs /\ Head(jobs) \in Jobs
  BY <1>0, HeadJob
<1>2. closed
  BY <1>0, <1>1 DEF Closed
<1>3. \A d \in Slot : Of(job, d) <=> Of(Head(jobs), d)
  BY DEF Of, Internal
<1>4. \A d \in Slot : Of(job, d) => call[d].op = "close"
  <2> SUFFICES ASSUME NEW d \in Slot, Of(job, d) PROVE call[d].op = "close"
    OBVIOUS
  <2>1. Head(jobs).run \in RunsOf(call[d].op)
    BY <1>0, <1>1, <1>3 DEF AllPlaced, Placed
  <2> QED
    BY <2>1 DEF RunsOf, Awaits
<1>5. \A d \in Slot : Of(job, d) => job.run \in RunsOf(call[d].op)
  BY <1>4, SlotAssumption DEF RunsOf, Of
<1>6. \A d \in Slot : Of(job, d) => ~Encodes(d)
  BY <1>4 DEF Encodes
<1>7. Fine(job, <<job>>)
  <2>1. job.run = "client" => job.who \in Slot /\ ~Encodes(job.who)
    BY <1>6 DEF Of, Internal, WellFormed, Awaits
  <2>2. job.run \notin {"encoded", "detailed"}
    OBVIOUS
  <2> QED
    BY <2>1, <2>2 DEF Fine, Encodes
<1>8. Vocabulary'
  <2>1. ~Arriving
    BY <1>0, NotArriving
  <2> QED
    BY <1>0, <2>1, VocabularyRuns
<1>9. sharedController = 0 => WorkerAvailable \/ \A t \in Thread : thread[t].queue = <<>>
  <2>1. \A t \in Thread : t # SharedThread(0)
    BY <1>0, AttemptOf DEF SharedThread
  <2> QED
    BY <2>1 DEF Core, Queues
<1>10. Head(jobs).run # "client" /\ (job.run \in {"poolClosed", "freeSingle"} => closed')
       /\ (Head(jobs).run = "poolClosed" => WorkerAvailable \/ \A t \in Thread : thread[t].queue = <<>>)
  BY <1>2, <1>9
<1>11. (closed' = closed /\ freed' = freed) \/ (closed' = closed /\ freed' = TRUE /\ Head(jobs).run = "freeSingle")
  OBVIOUS
<1> QED
  BY <1>0, <1>3, <1>5, <1>6, <1>7, <1>8, <1>10, <1>11, GoesOnStep

\* `single.free()`, and `await sharedController?.close()` when there is none.
LEMMA CloseGoesOnKeeps ==
    ASSUME Core, Session, FreeSingle \/ (CloseController /\ sharedController = 0)
    PROVE  Session' /\ Simulated
<1>0. /\ Types /\ jobs # <<>> /\ ~Closing /\ Head(jobs).run \in {"poolClosed", "freeSingle"}
      /\ UNCHANGED <<closed, capabilities, sharedController, init, thread, call, closing>>
  BY DEF Core, FreeSingle, CloseController, Runs, Closing, session, options, tiers
<1>1. WellFormed(Head(jobs)) /\ {1, 2} \subseteq 1 .. 5 /\ "done" \in Outcomes
  BY <1>0, HeadJob DEF Outcomes
<1>2. PICK c \in Caller : c = Head(jobs).who
  BY <1>0, <1>1 DEF WellFormed
<1>3. CASE FreeSingle
  <2>1. PICK job : job = Answer(c, 1, "done")
    OBVIOUS
  <2>2. /\ job \in JobType /\ WellFormed(job) /\ job.who = c /\ job.with = "done"
        /\ job.run = (IF c = Boot THEN "boot" ELSE "client")
    BY <1>1, <2>1, ToldJob DEF Of
  <2>3. Resume(<<job>>) /\ freed' = TRUE /\ Head(jobs).run = "freeSingle"
    BY <1>2, <1>3, <2>1 DEF FreeSingle, Runs
  <2> QED
    BY <1>0, <1>2, <2>2, <2>3, CloseGoesOn
<1>4. CASE CloseController /\ sharedController = 0
  <2>1. PICK job : job = Job("freeSingle", c, 1, "done")
    OBVIOUS
  <2>2. /\ job \in JobType /\ WellFormed(job) /\ job.who = c /\ job.with = "done"
        /\ job.run = "freeSingle"
    BY <1>1, <2>1, CloseJob DEF Job
  <2>3. Resume(<<job>>) /\ freed' = freed /\ Head(jobs).run = "poolClosed"
    BY <1>2, <1>4, <2>1 DEF CloseController, Runs, session
  <2> QED
    BY <1>0, <1>2, <1>4, <2>2, <2>3, CloseGoesOn
<1> QED
  BY <1>3, <1>4

\* Steps that queue several jobs

\* js come in behind the jobs there are, or the one that runs makes way for them.
Comes(js) == \/ Queue(js) /\ (turn \/ jobs = <<>> \/ Closing)
             \/ Resume(js) /\ jobs # <<>> /\ Head(jobs).run # "client"

\* None of it is about c.
Unmoved(c, js) ==
    /\ \A k \in DOMAIN js : ~Of(js[k], c)
    /\ Queue(js) \/ ~Of(Head(jobs), c)
    /\ PostsStay(c) /\ JoinsStay(c)

\* c goes on as the i-th of them.
MovedTo(c, js, i) ==
    /\ i \in DOMAIN js /\ Of(js[i], c) /\ \A k \in DOMAIN js : Of(js[k], c) => k = i
    /\ ~HasJob(c) \/ (~Queue(js) /\ OneJob(c) /\ Of(Head(jobs), c))
    /\ js[i].run \in RunsOf(call[c].op)
    /\ Encodes(c) => js[i].run # "client"
    /\ ~Posted(c)' /\ ~Joined(c)' /\ ~Closer(c)'

\* Where each call goes when several jobs are queued.
LEMMA SeveralStep ==
    ASSUME Core, Session, NEW js \in Seq(JobType), \A k \in DOMAIN js : WellFormed(js[k]) /\ Fine(js[k], js),
           Comes(js), \A c \in Slot : Unmoved(c, js) \/ \E i : MovedTo(c, js, i),
           \A c \in Slot : Closer(c)' => Closer(c),
           Closed', Vocabulary', UNCHANGED <<closed, freed, call>>
    PROVE  Session' /\ Simulated
<1>0. Types /\ AllPlaced /\ Answered
  BY DEF Core, Session
<1>1. ASSUME NEW c \in Slot, Unmoved(c, js) PROVE Placed(c)' /\ Observed(c)' = Observed(c)
  <2>1. JobsStay(c)
    <3>1. CASE Queue(js)
      BY <1>0, <1>1, <3>1, QueueStays DEF Unmoved
    <3>2. CASE ~Queue(js)
      BY <1>0, <1>1, <3>2, ResumeStays DEF Unmoved, Comes
    <3> QED
      BY <3>1, <3>2
  <2>2. Placed(c) /\ call'[c] = call[c]
    BY <1>0 DEF AllPlaced
  <2>3. Placed(c)'
    BY <1>1, <2>1, <2>2, Stays DEF Unmoved
  <2>4. Encodes(c)' <=> Encodes(c)
    BY DEF Encodes
  <2>5. Observed(c)' = Observed(c)
    BY <2>1, <2>2, <2>4, SeesSame DEF Placed
  <2> QED
    BY <2>3, <2>5
<1>2. ASSUME NEW c \in Slot, NEW i, MovedTo(c, js, i) PROVE Placed(c)' /\ Observed(c)' = Observed(c)
  <2>1. i \in DOMAIN js /\ Of(js[i], c) /\ \A k \in DOMAIN js : Of(js[k], c) => k = i
    BY <1>2 DEF MovedTo
  <2>2. ~HasJob(c) \/ (~Queue(js) /\ OneJob(c) /\ Of(Head(jobs), c))
    BY <1>2 DEF MovedTo
  <2>3. OnlyJob(c, js[i])
    <3>1. CASE Queue(js)
      BY <1>0, <2>1, <2>2, <3>1, QueueComes
    <3>2. CASE ~Queue(js)
      BY <1>0, <2>1, <2>2, <3>2, ResumeComes DEF Comes
    <3> QED
      BY <3>1, <3>2
  <2>4. Placed(c)'
    BY <1>2, <2>3, Turns DEF MovedTo
  <2>5. CASE ~Encodes(c)
    BY <2>4, <2>5 DEF Observed, Encodes
  <2>6. CASE Encodes(c)
    <3>1. Encodes(c)' /\ js[i].run # "client"
      BY <1>2, <2>6 DEF MovedTo, Encodes
    <3>2. Observed(c)' = "pending"
      BY <2>3, <3>1, Sees
    <3>3. \A k \in DOMAIN jobs : Of(jobs[k], c) => jobs[k].run # "client"
      <4>1. CASE ~HasJob(c)
        BY <4>1 DEF HasJob
      <4>2. CASE ~Queue(js) /\ OneJob(c) /\ Of(Head(jobs), c)
        <5>1. Head(jobs) = jobs[1] /\ 1 \in DOMAIN jobs /\ Head(jobs).run # "client"
          BY <1>0, <4>2, HeadJob DEF Comes
        <5> QED
          BY <4>2, <5>1 DEF OneJob
      <4> QED
        BY <2>2, <4>1, <4>2
    <3>4. Observed(c) = "pending"
      BY <2>6, <3>3, ObservedPending
    <3> QED
      BY <2>4, <3>2, <3>4
  <2> QED
    BY <2>5, <2>6
<1>3. AllPlaced' /\ \A c \in Slot : Observed(c)' = Observed(c)
  BY <1>1, <1>2 DEF AllPlaced
<1>4. Simulated
  BY <1>3, Unseen
<1>5. NoneTurns
  BY DEF NoneTurns, Encodes
<1>6. Answered'
  <2>1. CASE Queue(js) /\ (turn \/ jobs = <<>> \/ Closing)
    BY <1>0, <1>5, <2>1, AnswersQueue
  <2>2. CASE Resume(js) /\ jobs # <<>>
    BY <1>0, <1>5, <2>2, AnswersResume
  <2> QED
    BY <2>1, <2>2 DEF Comes
<1> QED
  BY <1>3, <1>4, <1>6 DEF Session

\* The jobs of the queue when js come.
LEMMA ComeJobs ==
    ASSUME Types, NEW js \in Seq(JobType), \A k \in DOMAIN js : WellFormed(js[k]), Comes(js)
    PROVE  /\ \A job \in Jobs' : job \in Jobs \/ \E k \in DOMAIN js : job = js[k]
           /\ \A job \in Jobs : job \in Jobs' \/ (~Queue(js) /\ job = Head(jobs))
           /\ \A k \in DOMAIN js : js[k] \in Jobs'
<1>1. CASE Queue(js)
  <2>1. /\ \A job \in Jobs' : job \in Jobs \/ \E k \in DOMAIN js : job = js[k]
        /\ \A k \in DOMAIN jobs : k \in DOMAIN jobs' /\ jobs'[k] = jobs[k]
        /\ \A k \in DOMAIN js : Len(jobs) + k \in DOMAIN jobs' /\ jobs'[Len(jobs) + k] = js[k]
    BY <1>1, Queued
  <2> QED
    BY <2>1 DEF Jobs
<1>2. CASE ~Queue(js)
  <2>1. Resume(js) /\ jobs # <<>>
    BY <1>2 DEF Comes
  <2>2. /\ \A job \in Jobs' : job \in Jobs \/ \E k \in DOMAIN js : job = js[k]
        /\ \A k \in DOMAIN jobs : k # 1 => k - 1 \in DOMAIN jobs' /\ jobs'[k - 1] = jobs[k]
        /\ \A k \in DOMAIN js : Len(jobs) - 1 + k \in DOMAIN jobs' /\ jobs'[Len(jobs) - 1 + k] = js[k]
    BY <2>1, Resumed
  <2>3. Head(jobs) = jobs[1]
    BY <2>1, HeadJob
  <2> QED
    BY <1>2, <2>2, <2>3 DEF Jobs
<1> QED
  BY <1>1, <1>2

\* The calls that awaited an activation go on, the others stay where they are.
LEMMA SettlesMoves ==
    ASSUME Core, Session, jobs # <<>>, Head(jobs).run \in Internal, NEW a \in Attempt, NEW outcome, NEW js,
           SettledAs(a, outcome, js), UNCHANGED <<closing, thread, call>>, NEW c \in Slot, ~Closing
    PROVE  Unmoved(c, js) \/ \E i : MovedTo(c, js, i)
<1>0. Types /\ AllPlaced /\ Placed(c)
  BY DEF Core, Session, AllPlaced
<1>1. /\ js \in Seq(JobType) /\ Len(js) = Len(init[a].awaiting)
      /\ \A k \in DOMAIN js : js[k].run = init[a].awaiting[k].run /\ js[k].who = init[a].awaiting[k].who
      /\ init'[a].awaiting = <<>> /\ \A b \in Attempt \ {a} : init'[b] = init[b]
  BY DEF SettledAs
<1>2. init[a].awaiting \in Seq([run: Awaits, who: Caller])
  BY <1>0 DEF Types, InitType
<1>3. DOMAIN js = DOMAIN init[a].awaiting
  BY <1>1, <1>2
<1>4. \A k \in DOMAIN js : js[k].run \in Awaits
  <2> SUFFICES ASSUME NEW k \in DOMAIN js PROVE js[k].run \in Awaits
    OBVIOUS
  <2>1. init[a].awaiting[k] \in [run: Awaits, who: Caller]
    BY <1>2, <1>3, InSeq, Zenon
  <2> QED
    BY <1>1, <2>1
<1>5. \A k \in DOMAIN js : Of(js[k], c) <=> init[a].awaiting[k].who = c
  BY <1>1, <1>4 DEF Of, Awaits, Internal
<1>6. ~Of(Head(jobs), c)
  BY DEF Of
<1>7. PostsStay(c) /\ JoinsStay(c)
  BY <1>1, PostsSame, EmptiesJoins
<1>8. CASE \E k \in DOMAIN js : init[a].awaiting[k].who = c
  <2>1. PICK i \in DOMAIN js : init[a].awaiting[i].who = c
    BY <1>8
  <2>2. Joined(c) /\ i \in DOMAIN init[a].awaiting
    BY <1>3, <2>1 DEF Joined
  <2>3. OneJoin(c) /\ ~HasJob(c) /\ ~Posted(c) /\ ~Encodes(c) /\ call[c].op = "switch"
    <3>1. OneJoin(c) /\ ~HasJob(c) /\ call[c].op = "switch"
      BY <1>0, <2>2 DEF Placed
    <3>2. ~Encodes(c)
      BY <3>1 DEF Encodes
    <3> QED
      BY <1>0, <3>1, <3>2 DEF Placed
  <2>4. \A k \in DOMAIN js : Of(js[k], c) => k = i
    BY <1>3, <1>5, <2>1, <2>3 DEF OneJoin
  <2>5. ~Joined(c)'
    BY <1>1, <2>1, <2>2, <2>3, EmptiesJoins
  <2>6. ~Posted(c)' /\ ~Closer(c)'
    BY <1>7, <2>3 DEF PostsStay, Closer, Closing
  <2>7. js[i].run \in RunsOf(call[c].op)
    BY <1>4, <2>3 DEF RunsOf
  <2>8. Of(js[i], c)
    BY <1>5, <2>1
  <2>9. MovedTo(c, js, i)
    BY <2>1, <2>3, <2>4, <2>5, <2>6, <2>7, <2>8 DEF MovedTo
  <2> QED
    BY <2>9
<1>9. CASE ~\E k \in DOMAIN js : init[a].awaiting[k].who = c
  BY <1>5, <1>6, <1>7, <1>9 DEF Unmoved
<1> QED
  BY <1>8, <1>9

\* An activation settles: its promise and all that awaited it.
LEMMA SettlesStep ==
    ASSUME Core, Session, jobs # <<>>, ~Closing, Head(jobs).run \in Internal, NEW a \in Attempt,
           NEW outcome \in {"ok", "failed"}, NEW js, SettledAs(a, outcome, js), Vocabulary',
           UNCHANGED <<closed, freed, capabilities, thread, call, closing>>
    PROVE  Session' /\ Simulated
<1>0. Types /\ Closed
  BY DEF Core, Session
<1>1. /\ js \in Seq(JobType) /\ Resume(js) /\ \A k \in DOMAIN js : WellFormed(js[k])
  BY DEF SettledAs
<1>2. \A k \in DOMAIN js : js[k].run \in Awaits
  <2> SUFFICES ASSUME NEW k \in DOMAIN js PROVE js[k].run \in Awaits
    OBVIOUS
  <2>1. init[a].awaiting \in Seq([run: Awaits, who: Caller]) /\ js[k].run = init[a].awaiting[k].run
    BY <1>0 DEF Types, InitType, SettledAs
  <2>2. k \in DOMAIN init[a].awaiting
    BY <1>1, <2>1 DEF SettledAs
  <2>3. init[a].awaiting[k] \in [run: Awaits, who: Caller]
    BY <2>1, <2>2, InSeq, Zenon
  <2> QED
    BY <2>1, <2>3
<1>3. \A k \in DOMAIN js : Fine(js[k], js)
  BY <1>2 DEF Fine, Awaits
<1>4. Comes(js)
  BY <1>1 DEF Comes, Internal
<1>5. \A c \in Slot : Unmoved(c, js) \/ \E i : MovedTo(c, js, i)
  BY SettlesMoves
<1>6. Closed'
  <2>1. \A job \in Jobs' : job \in Jobs \/ (job.run \in {"poolClosed", "freeSingle"} => closed)
    BY <1>0, <1>1, <1>2, <1>4, ComeJobs DEF Awaits
  <2>2. (\E job \in Jobs : job.run = "poolClosed") => WorkerAvailable \/ \E job \in Jobs' : job.run = "poolClosed"
    BY <1>0, <1>1, <1>4, ComeJobs DEF Internal
  <2>3. \A t \in Thread : \A k \in DOMAIN thread'[t].queue : thread'[t].queue[k] \in Slot =>
              (\E i \in DOMAIN thread[t].queue : thread[t].queue[i] \in Slot) \/ ~closed
    OBVIOUS
  <2> QED
    BY <1>0, <2>1, <2>2, <2>3, SameClosed
<1>7. \A c \in Slot : Closer(c)' => Closer(c)
  BY DEF Closer, Closing
<1> QED
  BY <1>1, <1>3, <1>4, <1>5, <1>6, <1>7, SeveralStep

\* The end of initializeWorkerPool.
LEMMA PoolSettlesKeeps ==
    ASSUME Core, Session, PoolReady \/ PoolFailed
    PROVE  Session' /\ Simulated
<1>0. /\ Types /\ jobs # <<>> /\ ~Closing /\ Vocabulary /\ Head(jobs).run \in {"poolReady", "poolFailed"}
      /\ UNCHANGED <<closed, freed, capabilities, sharedController, thread, call, closing>>
  BY DEF Core, Session, PoolReady, PoolFailed, Runs, Closing, session, options, tiers
<1>1. WellFormed(Head(jobs))
  BY <1>0, HeadJob
<1>2. PICK a \in Attempt : a = Head(jobs).who
  BY <1>0, <1>1 DEF WellFormed
<1>3. PICK outcome \in {"ok", "failed"} : Settle(a, outcome)
  BY <1>2 DEF PoolReady, PoolFailed
<1>4. PICK js : SettledAs(a, outcome, js)
  BY <1>0, <1>3, Settled
<1>5. ~Arriving
  BY <1>0, NotArriving
<1>6. Vocabulary'
  BY <1>0, <1>5, VocabularyRuns
<1>7. Head(jobs).run \in Internal
  BY <1>0 DEF Internal
<1> QED
  BY <1>0, <1>4, <1>6, <1>7, SettlesStep

\* The controller has answered: its starter verifies it next.
LEMMA SharedReadyKeeps ==
    ASSUME Core, Session, SharedReady
    PROVE  Session' /\ Simulated
<1>0. /\ Types /\ jobs # <<>> /\ ~Closing /\ Vocabulary /\ Head(jobs).run = "sharedReady" /\ turn' = FALSE
      /\ UNCHANGED <<closed, freed, capabilities, sharedController, thread, call, closing>>
  BY DEF Core, Session, SharedReady, Runs, Closing, session, options, tiers
<1>1. WellFormed(Head(jobs)) /\ Head(jobs) \in Jobs /\ Head(jobs) = jobs[1]
  BY <1>0, HeadJob
<1>2. PICK a \in Attempt : a = Head(jobs).who
  BY <1>0, <1>1 DEF WellFormed
<1>3. PICK outcome \in {"ok", "failed"} : outcome = IF Head(jobs).with = "ok" THEN "ok" ELSE "failed"
  OBVIOUS
<1>4. PICK js : SettledAs(a, outcome, js)
  BY <1>0, <1>2, <1>3, Settled DEF SharedReady
<1>5. Vocabulary'
  <2>1. CASE ~Arriving
    BY <1>0, <2>1, VocabularyRuns
  <2>2. CASE WorkerAvailable
    BY <1>0, <2>2 DEF Vocabulary, WorkerAvailable
  <2>3. CASE Arriving /\ ~WorkerAvailable
    <3>1. Len(jobs) = 1 /\ Head(jobs).with = "ok" /\ outcome = "ok"
      BY <1>0, <1>1, <1>3, <2>3 DEF Arriving
    <3>2. a = sharedController /\ Pending(a)
      BY <1>0, <1>1, <1>2, <2>3 DEF Core, Controller
    <3>3. init[a].awaiting # <<>> /\ \A k \in DOMAIN init[a].awaiting : k = 1 => init[a].awaiting[k].run = "verifyShared"
      BY <2>3, <3>2 DEF Core, Attempts, Controller
    <3>4. init[a].awaiting \in Seq([run: Awaits, who: Caller])
      BY <1>0 DEF Types, InitType
    <3>5. Len(init[a].awaiting) \in Nat \ {0} /\ 1 \in DOMAIN init[a].awaiting
      BY <3>3, <3>4
    <3>6. js \in Seq(JobType) /\ Resume(js) /\ Len(js) \in Nat \ {0} /\ 1 \in DOMAIN js
      BY <1>4, <3>5 DEF SettledAs
    <3>7. js[1].run = "verifyShared" /\ js[1].with = "ok"
      BY <1>4, <3>1, <3>3, <3>5, <3>6 DEF SettledAs
    <3>8. jobs' # <<>> /\ jobs'[1] = js[1]
      <4>1. \A k \in DOMAIN js : WellFormed(js[k])
        BY <1>4 DEF SettledAs
      <4>2. /\ jobs' \in Seq(JobType)
            /\ \A k \in DOMAIN js : Len(jobs) - 1 + k \in DOMAIN jobs' /\ jobs'[Len(jobs) - 1 + k] = js[k]
        BY <1>0, <3>6, <4>1, Resumed
      <4>3. 1 \in DOMAIN jobs' /\ jobs'[1] = js[1]
        BY <3>1, <3>6, <4>2
      <4> QED
        BY <4>2, <4>3
    <3>9. Arriving'
      BY <1>0, <3>7, <3>8 DEF Arriving, Closing
    <3> QED
      BY <1>0, <3>9 DEF Vocabulary
  <2> QED
    BY <2>1, <2>2, <2>3
<1>6. Head(jobs).run \in Internal
  BY <1>0 DEF Internal
<1> QED
  BY <1>0, <1>4, <1>5, <1>6, SettlesStep

\* Threads that nobody's encode waits for are closed.
LEMMA ClosesQuietly ==
    ASSUME NEW threads \in SUBSET Thread, Closes(threads),
           \A t \in threads : \A k \in DOMAIN thread[t].queue : thread[t].queue[k] \notin Slot
    PROVE  \A c \in Slot : PostsStay(c)
<1> SUFFICES ASSUME NEW c \in Slot PROVE PostsStay(c)
  OBVIOUS
<1>1. \A t \in threads : thread'[t].queue = <<>>
  BY DEF Closes
<1>2. \A t \in Thread \ threads : thread'[t] = thread[t]
  BY DEF Closes
<1>3. \A t \in Thread : \A k \in DOMAIN thread'[t].queue : thread'[t].queue[k] = c =>
         k \in DOMAIN thread[t].queue /\ thread[t].queue[k] = c
  BY <1>1, <1>2
<1>4. \A t \in Thread : \A k \in DOMAIN thread[t].queue : thread[t].queue[k] = c =>
         k \in DOMAIN thread'[t].queue /\ thread'[t].queue[k] = c
  BY <1>2
<1>5. Posted(c)' <=> Posted(c)
  BY <1>3, <1>4 DEF Posted
<1>6. OnePost(c) => OnePost(c)'
  BY <1>3 DEF OnePost
<1> QED
  BY <1>5, <1>6 DEF PostsStay

\* initializeWorkerPool's catch closes workers that no encode was posted to.
LEMMA PoolUnusableKeeps ==
    ASSUME Core, Session, PoolUnusable
    PROVE  Session' /\ Simulated
<1>0. /\ Types /\ jobs # <<>> /\ ~Closing /\ Closed /\ Vocabulary /\ Head(jobs).run = "poolReady"
      /\ UNCHANGED <<closed, freed, capabilities, sharedController, init, call, closing>>
  BY DEF Core, Session, PoolUnusable, Runs, Closing, session, options, tiers
<1>1. WellFormed(Head(jobs)) /\ Head(jobs) = jobs[1]
  BY <1>0, HeadJob
<1>2. Coming
  BY <1>0, WhenCalm, HeadJob DEF Core, Calm, Adopting, Chain
<1>3. PICK a \in Attempt : a = Head(jobs).who
  BY <1>0, <1>1 DEF WellFormed
<1>4. PICK job : job = Job("poolFailed", a, 2, "error")
  OBVIOUS
<1>5. job \in JobType /\ WellFormed(job) /\ job.run = "poolFailed"
  BY <1>4, FailedJob
<1>6. PICK js : js = <<job>>
  OBVIOUS
<1>7. /\ js \in Seq(JobType) /\ DOMAIN js = {1} /\ js[1] = job /\ \A k \in DOMAIN js : WellFormed(js[k])
  BY <1>5, <1>6, OneOf
<1>8. /\ Resume(js)
      /\ thread' = [t \in Thread |-> IF t \in Threads(a) THEN ClosedThread(t) ELSE thread[t]]
  BY <1>3, <1>4, <1>6 DEF PoolUnusable
<1>9. Closes(Threads(a)) /\ Threads(a) \in SUBSET Thread /\ SameInit
  BY <1>0, <1>8, ClosesAll, AttemptOf, InitKept
<1>10. \A t \in Threads(a) : \A k \in DOMAIN thread[t].queue : thread[t].queue[k] \notin Slot
  <2>1. Pending(a) /\ WorkerAvailable
    BY <1>1, <1>2, <1>3 DEF Coming
  <2>2. a # workerPool
    BY <2>1, AttemptOf DEF Core, Attempts, Pending
  <2>3. \A t \in Threads(a) : t \in Thread /\ t[1] = a
    BY <1>9 DEF Threads
  <2> QED
    BY <2>1, <2>2, <2>3 DEF Core, Queues
<1>11. \A c \in Slot : PostsStay(c) /\ JoinsStay(c)
  BY <1>9, <1>10, ClosesQuietly, JoinsSame DEF SameInit
<1>12. \A c \in Slot : Unmoved(c, js)
  BY <1>0, <1>5, <1>7, <1>11 DEF Unmoved, Of, Internal
<1>13. Comes(js)
  BY <1>0, <1>8 DEF Comes
<1>14. \A k \in DOMAIN js : Fine(js[k], js)
  BY <1>5, <1>7 DEF Fine
<1>15. \A t \in Thread : thread'[t].model = thread[t].model /\ (thread'[t].failure = "none" => thread[t].failure = "none")
  BY <1>9 DEF Closes
<1>16. Closed'
  <2>1. \A job2 \in Jobs' : job2 \in Jobs \/ (job2.run \in {"poolClosed", "freeSingle"} => closed)
    BY <1>0, <1>5, <1>7, <1>13, ComeJobs
  <2>2. (\E job2 \in Jobs : job2.run = "poolClosed") => WorkerAvailable \/ \E job2 \in Jobs' : job2.run = "poolClosed"
    BY <1>2 DEF Coming
  <2>3. \A t \in Thread : \A k \in DOMAIN thread'[t].queue : thread'[t].queue[k] \in Slot =>
              (\E i \in DOMAIN thread[t].queue : thread[t].queue[i] \in Slot) \/ ~closed
    BY <1>9 DEF Closes
  <2> QED
    BY <1>0, <2>1, <2>2, <2>3, SameClosed
<1>17. Vocabulary'
  <2>1. ~Arriving
    BY <1>0, NotArriving
  <2>2. sharedController # 0 => SharedThread(sharedController) \in Thread
    BY <1>0, AttemptOf
  <2> QED
    BY <1>0, <1>15, <2>1, <2>2, SameVocabulary
<1>18. \A c \in Slot : Closer(c)' => Closer(c)
  BY <1>0 DEF Closer, Closing
<1> QED
  BY <1>0, <1>7, <1>12, <1>13, <1>14, <1>16, <1>17, <1>18, SeveralStep

\* RpcWorkers that reject

\* js rejects all that waits for thread t, with more behind it.
Rejects(t, js, more) ==
    /\ js \in Seq(JobType)
    /\ \A k \in DOMAIN thread[t].queue : k \in DOMAIN js /\ js[k] = Rejections(t)[k]
    /\ \A k \in DOMAIN js : k \in DOMAIN thread[t].queue \/ (k = Len(thread[t].queue) + 1 /\ js[k] \in more)

\* The rejections of a thread, alone.
LEMMA RejectsOnly ==
    ASSUME Types, NEW t \in Thread
    PROVE  Rejects(t, Rejections(t), {})
<1>1. thread[t].queue \in Seq(Rpc)
  BY DEF Types, ThreadType
<1>2. Rejections(t) \in Seq(JobType) /\ Len(Rejections(t)) = Len(thread[t].queue)
  BY RejectionJobs
<1>3. DOMAIN Rejections(t) = DOMAIN thread[t].queue
  BY <1>1, <1>2
<1> QED
  BY <1>2, <1>3 DEF Rejects

\* The rejections of a thread with a job behind them.
LEMMA RejectsAnd ==
    ASSUME Types, NEW t \in Thread, NEW job \in JobType
    PROVE  Rejects(t, Rejections(t) \o <<job>>, {job})
<1>1. thread[t].queue \in Seq(Rpc)
  BY DEF Types, ThreadType
<1>2. Rejections(t) \in Seq(JobType) /\ Len(Rejections(t)) = Len(thread[t].queue)
  BY RejectionJobs
<1>3. DOMAIN Rejections(t) = DOMAIN thread[t].queue /\ DOMAIN Rejections(t) = 1 .. Len(thread[t].queue)
      /\ Len(thread[t].queue) \in Nat
  BY <1>1, <1>2
<1>4. PICK s \in Seq(JobType) : s = Rejections(t)
  BY <1>2
<1>5. PICK js : js = s \o <<job>>
  OBVIOUS
<1>6. /\ js \in Seq(JobType) /\ Len(js) = Len(s) + 1
      /\ Len(s) + 1 \in DOMAIN js /\ js[Len(s) + 1] = job
      /\ \A k \in DOMAIN s : k \in DOMAIN js /\ js[k] = s[k]
  BY <1>5, Behind, Zenon
<1>7. \A k \in DOMAIN js : k \in DOMAIN s \/ k = Len(s) + 1
  <2>1. DOMAIN js = 1 .. Len(s) + 1
    BY <1>6
  <2> QED
    BY <1>2, <1>3, <1>4, <2>1
<1> QED
  BY <1>2, <1>3, <1>4, <1>5, <1>6, <1>7 DEF Rejects

\* What is among them.
LEMMA RejectsJobs ==
    ASSUME Types, NEW t \in Thread, NEW js, NEW more, Rejects(t, js, more), \A job \in more : WellFormed(job)
    PROVE  /\ \A k \in DOMAIN js : WellFormed(js[k])
           /\ \A k \in DOMAIN js : js[k] \in more \/
                 (js[k].with = "error" /\ js[k].run \in {"encoded", "poolReady", "sharedReady"})
           /\ \A c \in Slot, k \in DOMAIN js : Of(js[k], c) =>
                 (k \in DOMAIN thread[t].queue /\ thread[t].queue[k] = c) \/ (k = Len(thread[t].queue) + 1 /\ js[k] \in more)
           /\ \A c \in Slot, k \in DOMAIN thread[t].queue : thread[t].queue[k] = c =>
                 k \in DOMAIN js /\ Of(js[k], c) /\ js[k].run = "encoded"
<1>1. \A k \in DOMAIN Rejections(t) :
         /\ WellFormed(Rejections(t)[k]) /\ k \in DOMAIN thread[t].queue
         /\ Rejections(t)[k].with = "error"
         /\ IF thread[t].queue[k] = Init0
            THEN Rejections(t)[k].run \in {"poolReady", "sharedReady"}
            ELSE /\ Rejections(t)[k].run = "encoded"
                 /\ Rejections(t)[k].who = thread[t].queue[k]
  BY RejectionJobs
<1>2. DOMAIN Rejections(t) = DOMAIN thread[t].queue
  BY DEF Rejections
<1>3. \A k \in DOMAIN js : k \in DOMAIN thread[t].queue \/ (k = Len(thread[t].queue) + 1 /\ js[k] \in more)
  BY DEF Rejects
<1>4. \A k \in DOMAIN thread[t].queue : k \in DOMAIN js /\ js[k] = Rejections(t)[k]
  BY DEF Rejects
<1>5. \A k \in DOMAIN js : WellFormed(js[k])
  BY <1>1, <1>2, <1>3, <1>4
<1>6. \A k \in DOMAIN js : js[k] \in more \/
                 (js[k].with = "error" /\ js[k].run \in {"encoded", "poolReady", "sharedReady"})
  BY <1>1, <1>2, <1>3, <1>4
<1>7. ASSUME NEW c \in Slot, NEW k \in DOMAIN js, Of(js[k], c)
      PROVE  (k \in DOMAIN thread[t].queue /\ thread[t].queue[k] = c) \/ (k = Len(thread[t].queue) + 1 /\ js[k] \in more)
  BY <1>1, <1>2, <1>3, <1>4, <1>7 DEF Of, Internal
<1>8. ASSUME NEW c \in Slot, NEW k \in DOMAIN thread[t].queue, thread[t].queue[k] = c
      PROVE  k \in DOMAIN js /\ Of(js[k], c) /\ js[k].run = "encoded"
  BY <1>1, <1>2, <1>4, <1>8, SlotAssumption DEF Of, Internal
<1> QED
  BY <1>5, <1>6, <1>7, <1>8

\* What comes behind the rejections and is of c goes on with the call of c.
Follows(job, c, js) ==
    /\ job.run \in RunsOf(call[c].op) /\ (Encodes(c) => job.run # "client")
    /\ ~Posted(c) /\ ~Joined(c) /\ ~Closer(c)'
    /\ ~HasJob(c) \/ (~Queue(js) /\ Of(Head(jobs), c))

\* Where a call goes when what waits for a thread is rejected.
LEMMA RejectsMoves ==
    ASSUME Core, Session, NEW t \in Thread, thread'[t].queue = <<>>, \A u \in Thread \ {t} : thread'[u] = thread[u],
           UNCHANGED init, NEW js, NEW more, Rejects(t, js, more), \A job \in more : WellFormed(job),
           NEW c \in Slot, \A job \in more : Of(job, c) => Follows(job, c, js),
           (\E job \in more : Of(job, c)) \/ Queue(js) \/ (jobs # <<>> /\ ~Of(Head(jobs), c)),
           Closer(c)' => Closer(c), more = {} \/ \E job : more = {job} /\ Len(thread[t].queue) + 1 \in DOMAIN js
    PROVE  Unmoved(c, js) \/ \E i : MovedTo(c, js, i)
<1>0. Types /\ Placed(c)
  BY DEF Core, Session, AllPlaced
<1>1. /\ \A k \in DOMAIN js : Of(js[k], c) =>
            (k \in DOMAIN thread[t].queue /\ thread[t].queue[k] = c) \/ (k = Len(thread[t].queue) + 1 /\ js[k] \in more)
      /\ \A k \in DOMAIN thread[t].queue : thread[t].queue[k] = c =>
            k \in DOMAIN js /\ Of(js[k], c) /\ js[k].run = "encoded"
  BY <1>0, RejectsJobs
<1>2. thread[t].queue \in Seq(Rpc)
  BY <1>0 DEF Types, ThreadType
<1>3. Len(thread[t].queue) + 1 \notin DOMAIN thread[t].queue
  BY <1>2
<1>4. JoinsStay(c)
  BY JoinsSame
<1>5. CASE \E k \in DOMAIN thread[t].queue : thread[t].queue[k] = c
  <2>1. PICK i \in DOMAIN thread[t].queue : thread[t].queue[i] = c
    BY <1>5
  <2>2. Posted(c)
    BY <2>1 DEF Posted
  <2>3. Encodes(c) /\ OnePost(c) /\ ~HasJob(c)
    BY <1>0, <2>2 DEF Placed
  <2>4. ~Joined(c)
    <3>1. call[c].op # "switch"
      BY <2>3 DEF Encodes
    <3> QED
      BY <1>0, <3>1 DEF Placed
  <2>5. ~Closer(c)
    <3>1. call[c].op # "close"
      BY <2>3 DEF Encodes
    <3> QED
      BY <1>0, <3>1 DEF Placed
  <2>6. ~Posted(c)'
    BY <2>1, <2>3, EmptiesPosts
  <2>7. ~Joined(c)' /\ ~Closer(c)'
    BY <1>4, <2>4, <2>5 DEF JoinsStay
  <2>8. \A job \in more : ~Of(job, c)
    BY <2>2 DEF Follows
  <2>9. \A k \in DOMAIN js : Of(js[k], c) => k = i
    BY <1>1, <2>1, <2>3, <2>8 DEF OnePost
  <2>10. i \in DOMAIN js /\ Of(js[i], c) /\ js[i].run = "encoded"
    BY <1>1, <2>1
  <2>11. js[i].run \in RunsOf(call[c].op)
    BY <2>3, <2>10 DEF RunsOf, Encodes
  <2>12. MovedTo(c, js, i)
    BY <2>3, <2>6, <2>7, <2>9, <2>10, <2>11 DEF MovedTo
  <2> QED
    BY <2>12
<1>6. CASE ~\E k \in DOMAIN thread[t].queue : thread[t].queue[k] = c
  <2>1. PostsStay(c)
    BY <1>6, EmptiesPosts
  <2>2. CASE \E job \in more : Of(job, c)
    <3>1. PICK job : more = {job} /\ Of(job, c)
      BY <2>2
    <3>2. PICK i : i = Len(thread[t].queue) + 1
      OBVIOUS
    <3>3. i \in DOMAIN js /\ js[i] = job
      BY <1>3, <3>1, <3>2 DEF Rejects
    <3>4. \A k \in DOMAIN js : Of(js[k], c) => k = i
      BY <1>1, <1>6, <3>2
    <3>5. Follows(job, c, js)
      BY <3>1
    <3>6. ~Posted(c)' /\ ~Joined(c)' /\ ~Closer(c)'
      BY <1>4, <2>1, <3>5 DEF Follows, PostsStay, JoinsStay
    <3>7. OneJob(c)
      BY <1>0 DEF Placed
    <3>8. MovedTo(c, js, i)
      BY <3>1, <3>3, <3>4, <3>5, <3>6, <3>7 DEF MovedTo, Follows
    <3> QED
      BY <3>8
  <2>3. CASE ~\E job \in more : Of(job, c)
    <3>1. \A k \in DOMAIN js : ~Of(js[k], c)
      BY <1>1, <1>6, <2>3
    <3> QED
      BY <1>4, <2>1, <2>3, <3>1 DEF Unmoved
  <2> QED
    BY <2>2, <2>3
<1> QED
  BY <1>5, <1>6

\* What waits for a thread is rejected and what is to come follows.
LEMMA RejectsStep ==
    ASSUME Core, Session, NEW t \in Thread, thread'[t].queue = <<>>, \A u \in Thread \ {t} : thread'[u] = thread[u],
           NEW js, NEW more, Rejects(t, js, more), Comes(js), \A job \in more : WellFormed(job) /\ Fine(job, js),
           more = {} \/ \E job : more = {job} /\ Len(thread[t].queue) + 1 \in DOMAIN js,
           \A c \in Slot : \A job \in more : Of(job, c) => Follows(job, c, js),
           \A c \in Slot : (\E job \in more : Of(job, c)) \/ Queue(js) \/ (jobs # <<>> /\ ~Of(Head(jobs), c)),
           \A c \in Slot : Closer(c)' => Closer(c),
           Closed', Vocabulary', UNCHANGED <<init, closed, freed, call>>
    PROVE  Session' /\ Simulated
<1>0. Types /\ js \in Seq(JobType)
  BY DEF Core, Rejects
<1>1. /\ \A k \in DOMAIN js : WellFormed(js[k])
      /\ \A k \in DOMAIN js : js[k] \in more \/
            (js[k].with = "error" /\ js[k].run \in {"encoded", "poolReady", "sharedReady"})
  BY <1>0, RejectsJobs
<1>2. \A k \in DOMAIN js : WellFormed(js[k]) /\ Fine(js[k], js)
  BY <1>1 DEF Fine
<1>3. \A c \in Slot : Unmoved(c, js) \/ \E i : MovedTo(c, js, i)
  BY RejectsMoves
<1> QED
  BY <1>0, <1>2, <1>3, SeveralStep

\* An error event rejects what waits for its thread.
LEMMA FaultKeeps ==
    ASSUME Core, Session, NEW t \in Thread, Fault(t)
    PROVE  Session' /\ Simulated
<1>0. /\ Types /\ Closed /\ Vocabulary /\ jobs = <<>> /\ Queue(Rejections(t)) /\ thread[t].failure = "none"
      /\ thread' = [thread EXCEPT ![t] = FailedThread(t)] /\ thread \in [Thread -> ThreadType]
      /\ UNCHANGED <<closed, freed, capabilities, sharedController, init, call, closing>>
  BY DEF Core, Session, Types, Fault, Delivered, BetweenTasks, session, options, tiers
<1>1. /\ thread'[t].queue = <<>> /\ thread'[t].model = thread[t].model
      /\ \A u \in Thread \ {t} : thread'[u] = thread[u]
  BY <1>0 DEF FailedThread, ThreadType
<1>2. PICK js : js = Rejections(t)
  OBVIOUS
<1>3. Rejects(t, js, {}) /\ js \in Seq(JobType)
  BY <1>0, <1>2, RejectsOnly DEF Rejects
<1>4. Comes(js) /\ Queue(js)
  BY <1>0, <1>2 DEF Comes
<1>5. \A k \in DOMAIN js : WellFormed(js[k]) /\ js[k].run \in {"encoded", "poolReady", "sharedReady"}
  BY <1>0, <1>3, RejectsJobs
<1>6. Closed'
  <2>1. \A job \in Jobs' : job \in Jobs \/ (job.run \in {"poolClosed", "freeSingle"} => closed)
    BY <1>0, <1>3, <1>4, <1>5, ComeJobs
  <2>2. (\E job \in Jobs : job.run = "poolClosed") => WorkerAvailable \/ \E job \in Jobs' : job.run = "poolClosed"
    BY <1>0 DEF Jobs
  <2>3. \A u \in Thread : \A k \in DOMAIN thread'[u].queue : thread'[u].queue[k] \in Slot =>
              (\E i \in DOMAIN thread[u].queue : thread[u].queue[i] \in Slot) \/ ~closed
    BY <1>1
  <2> QED
    BY <1>0, <2>1, <2>2, <2>3, SameClosed
<1>7. Vocabulary'
  <2>1. ~Arriving
    BY <1>0, NotArriving
  <2>2. sharedController # 0 => SharedThread(sharedController) \in Thread
    BY <1>0, AttemptOf
  <2>3. \A u \in Thread : thread'[u].model = thread[u].model /\ (thread'[u].failure = "none" => thread[u].failure = "none")
    BY <1>0, <1>1
  <2> QED
    BY <1>0, <2>1, <2>2, <2>3, SameVocabulary
<1>8. \A c \in Slot : Closer(c)' => Closer(c)
  BY <1>0 DEF Closer, Closing
<1> QED
  BY <1>0, <1>1, <1>3, <1>4, <1>6, <1>7, <1>8, RejectsStep

\* close() of the pool goes from worker to worker.
LEMMA CloseWorkerKeeps ==
    ASSUME Core, ClosingPool, Session, CloseWorker
    PROVE  Session' /\ Simulated
<1>0. /\ Types /\ Closed /\ Vocabulary /\ AllPlaced /\ Closing /\ closed /\ workerPool # 0 /\ closing.worker # 0
      /\ closing \in [who: Caller, worker: 0 .. WorkerCount]
      /\ UNCHANGED <<closed, freed, capabilities, sharedController, init, call>>
  BY DEF Core, Session, Types, ClosingPool, CloseWorker, Closing, Closed, session, options, tiers
<1>1. PICK t \in Thread : t = <<workerPool, closing.worker>>
  <2>1. closing.worker \in 0 .. WorkerCount /\ closing.worker # 0
    BY <1>0
  <2>2. closing.worker \in 1 .. WorkerCount
    BY <2>1, BoundAssumption
  <2> QED
    BY <1>0, <2>2, AttemptOf DEF Thread
<1>2. thread' = [thread EXCEPT ![t] = ClosedThread(t)]
  BY <1>1 DEF CloseWorker
<1>3. Closes({t})
  BY <1>0, <1>2, ClosesOne
<1>4. /\ thread'[t].queue = <<>> /\ \A u \in Thread \ {t} : thread'[u] = thread[u]
      /\ \A u \in Thread : thread'[u].model = thread[u].model /\ (thread'[u].failure = "none" => thread[u].failure = "none")
  BY <1>3 DEF Closes
<1>5. PICK job : job = Job("poolClosed", closing.who, 3, "done")
  OBVIOUS
<1>6. job \in JobType /\ WellFormed(job) /\ job.run = "poolClosed" /\ job.who = closing.who
  BY <1>0, <1>5, CloseJob
<1>7. PICK last : last = (closing.worker = WorkerCount)
  OBVIOUS
<1>8. PICK js : js = IF last THEN Rejections(t) \o <<job>> ELSE Rejections(t)
  OBVIOUS
<1>9. PICK more : more = IF last THEN {job} ELSE {}
  OBVIOUS
<1>10. Queue(js)
  <2>1. Queue(Rejections(t) \o IF last THEN <<job>> ELSE <<>>)
    BY <1>1, <1>5, <1>7 DEF CloseWorker
  <2>2. Rejections(t) \o <<>> = Rejections(t)
    BY <1>0, RejectionJobs
  <2> QED
    BY <1>8, <2>1, <2>2
<1>11. Rejects(t, js, more)
  BY <1>0, <1>6, <1>8, <1>9, RejectsOnly, RejectsAnd
<1>12. js \in Seq(JobType) /\ (last => Len(thread[t].queue) + 1 \in DOMAIN js /\ js[Len(thread[t].queue) + 1] = job)
  <2>1. Rejections(t) \in Seq(JobType) /\ Len(Rejections(t)) = Len(thread[t].queue)
    BY <1>0, RejectionJobs
  <2>2. PICK s \in Seq(JobType) : s = Rejections(t)
    BY <2>1
  <2>3. Len(s) + 1 \in DOMAIN (s \o <<job>>) /\ (s \o <<job>>)[Len(s) + 1] = job
    BY <1>6, Behind, Zenon
  <2> QED
    BY <1>8, <1>11, <2>1, <2>2, <2>3 DEF Rejects
<1>13. Comes(js)
  BY <1>0, <1>10 DEF Comes
<1>14. \A i \in more : WellFormed(i) /\ Fine(i, js)
  BY <1>6, <1>9 DEF Fine
<1>15. \A k \in DOMAIN js : WellFormed(js[k]) /\ (js[k] = job \/ js[k].run \in {"encoded", "poolReady", "sharedReady"})
  BY <1>0, <1>9, <1>11, <1>14, RejectsJobs
<1>16. closing' = IF last THEN NotClosing ELSE [closing EXCEPT !.worker = @ + 1]
  BY <1>7 DEF CloseWorker
<1>17. \A c \in Slot : Closer(c)' => ~last /\ Closer(c)
  BY <1>0, <1>16 DEF Closer, Closing
<1>18. \A c \in Slot : \A i \in more : Of(i, c) => Follows(i, c, js)
  <2> SUFFICES ASSUME NEW c \in Slot, last, Of(job, c) PROVE Follows(job, c, js)
    BY <1>9
  <2>1. Closer(c)
    BY <1>0, <1>6 DEF Closer, Of
  <2>2. call[c].op = "close" /\ ~HasJob(c) /\ ~Closer(c)'
    BY <1>0, <1>17, <2>1 DEF AllPlaced, Placed
  <2>3. ~Encodes(c) /\ ~Joined(c)
    BY <1>0, <2>2 DEF AllPlaced, Placed, Encodes
  <2>4. ~Posted(c)
    BY <1>0, <2>3 DEF AllPlaced, Placed
  <2> QED
    BY <1>6, <2>2, <2>3, <2>4 DEF Follows, RunsOf
<1>19. Closed'
  <2>1. WorkerAvailable /\ WorkerAvailable'
    BY <1>0 DEF Core, Attempts, WorkerAvailable
  <2>2. \A i \in Jobs' : i.run \in {"poolClosed", "freeSingle"} => closed'
    BY <1>0
  <2>3. ASSUME NEW u \in Thread, NEW k \in DOMAIN thread'[u].queue, thread'[u].queue[k] \in Slot
        PROVE  Closing' /\ u[2] >= closing'.worker
    <3>1. u # t /\ thread'[u] = thread[u]
      BY <1>4, <2>3
    <3>2. u[1] = workerPool
      BY <2>1, <2>3, <3>1 DEF Core, Queues
    <3>3. u[2] >= closing.worker
      BY <1>0, <2>1, <2>3, <3>1 DEF Closed
    <3>4. u = <<u[1], u[2]>> /\ u[2] \in 1 .. WorkerCount
      BY DEF Thread
    <3>5. u[2] # closing.worker
      BY <1>1, <3>1, <3>2, <3>4
    <3>6. closing.worker \in Nat /\ WorkerCount \in Nat /\ closing.worker + 1 # 0
      BY <1>0, BoundAssumption
    <3>7. ~last /\ u[2] >= closing.worker + 1
      <4>1. closing.worker # WorkerCount /\ u[2] >= closing.worker + 1
        BY <3>3, <3>4, <3>5, <3>6
      <4> QED
        BY <1>7, <4>1
    <3>8. closing'.worker = closing.worker + 1
      BY <1>0, <1>16, <3>7
    <3>9. Closing'
      BY <3>6, <3>8 DEF Closing, NotClosing
    <3> QED
      BY <3>7, <3>8, <3>9
  <2> QED
    BY <1>0, <2>2, <2>3 DEF Closed
<1>20. Vocabulary'
  <2>1. ~Arriving
    BY <1>0, NotArriving
  <2>2. sharedController # 0 => SharedThread(sharedController) \in Thread
    BY <1>0, AttemptOf
  <2> QED
    BY <1>0, <1>4, <2>1, <2>2, SameVocabulary
<1>21. more = {} \/ \E i : more = {i} /\ Len(thread[t].queue) + 1 \in DOMAIN js
  BY <1>9, <1>12
<1> QED
  BY <1>0, <1>4, <1>10, <1>11, <1>13, <1>14, <1>17, <1>18, <1>19, <1>20, <1>21, RejectsStep

\* A job that runs leaves the queue.
LEMMA NotQueued ==
    ASSUME Types, jobs # <<>>, NEW js \in Seq(JobType), Resume(js)
    PROVE  ~Queue(js)
<1>1. jobs \in Seq(JobType) /\ Len(jobs) \in Nat /\ Len(js) \in Nat
  BY DEF Types
<1>2. Len(Tail(jobs) \o js) = Len(jobs) - 1 + Len(js)
  BY <1>1, ResumeAt
<1>3. Len(jobs \o js) = Len(jobs) + Len(js)
  BY <1>1, QueueAt
<1>4. Len(jobs) - 1 + Len(js) # Len(jobs) + Len(js)
  BY <1>1
<1> QED
  BY <1>2, <1>3, <1>4 DEF Queue, Resume

\* A controller is closed: what waits for it is rejected, and its closer goes on.
LEMMA ControllerCloses ==
    ASSUME Core, Session, jobs # <<>>, ~Closing, ~WorkerAvailable, sharedController # 0,
           NEW t \in Thread, t = SharedThread(sharedController), thread' = [thread EXCEPT ![t] = ClosedThread(t)],
           NEW job \in JobType, WellFormed(job), Fine(job, <<job>>), job.run \notin {"encoded", "detailed"},
           Resume(Rejections(t) \o <<job>>), Head(jobs).run # "client",
           \A c \in Slot : Of(job, c) <=> Of(Head(jobs), c),
           \A c \in Slot : Of(job, c) => job.run \in RunsOf(call[c].op) /\ ~Encodes(c),
           job.run \in {"poolClosed", "freeSingle"} => closed,
           sharedController' \in {0, sharedController}, UNCHANGED <<closed, freed, capabilities, init, call, closing>>
    PROVE  Session' /\ Simulated
<1>0. Types /\ AllPlaced /\ Closed /\ Vocabulary
  BY DEF Core, Session
<1>1. Closes({t})
  BY <1>0, ClosesOne
<1>2. /\ thread'[t].queue = <<>> /\ thread'[t].failure # "none" /\ \A u \in Thread \ {t} : thread'[u] = thread[u]
      /\ \A u \in Thread : thread'[u].model = thread[u].model
  BY <1>1 DEF Closes
<1>3. PICK js : js = Rejections(t) \o <<job>>
  OBVIOUS
<1>4. PICK more : more = {job}
  OBVIOUS
<1>5. Rejects(t, js, more) /\ js \in Seq(JobType) /\ Resume(js)
  BY <1>0, <1>3, <1>4, RejectsAnd DEF Rejects
<1>6. Len(thread[t].queue) + 1 \in DOMAIN js
  <2>1. Rejections(t) \in Seq(JobType) /\ Len(Rejections(t)) = Len(thread[t].queue)
    BY <1>0, RejectionJobs
  <2>2. PICK s \in Seq(JobType) : s = Rejections(t)
    BY <2>1
  <2>3. Len(s) + 1 \in DOMAIN (s \o <<job>>)
    BY Behind, Zenon
  <2> QED
    BY <1>3, <2>1, <2>2, <2>3
<1>7. Comes(js) /\ ~Queue(js)
  BY <1>0, <1>5, NotQueued DEF Comes
<1>8. \A i \in more : WellFormed(i) /\ Fine(i, js)
  BY <1>4 DEF Fine
<1>9. \A k \in DOMAIN js : WellFormed(js[k]) /\ (js[k] = job \/ js[k].run \in {"encoded", "poolReady", "sharedReady"})
  BY <1>0, <1>4, <1>5, <1>8, RejectsJobs
<1>10. Head(jobs) = jobs[1] /\ 1 \in DOMAIN jobs
  BY <1>0, HeadJob
<1>11. \A c \in Slot : Closer(c)' => FALSE
  BY DEF Closer, Closing
<1>12. \A c \in Slot : Of(job, c) => Follows(job, c, js)
  <2> SUFFICES ASSUME NEW c \in Slot, Of(job, c) PROVE Follows(job, c, js)
    OBVIOUS
  <2>1. HasJob(c) /\ Of(Head(jobs), c)
    BY <1>10 DEF HasJob
  <2>2. ~Posted(c) /\ ~Joined(c)
    BY <1>0, <2>1 DEF AllPlaced, Placed
  <2> QED
    BY <1>7, <1>11, <2>1, <2>2 DEF Follows
<1>13. \A c \in Slot : \A i \in more : Of(i, c) => Follows(i, c, js)
  BY <1>4, <1>12
<1>14. \A c \in Slot : (\E i \in more : Of(i, c)) \/ Queue(js) \/ (jobs # <<>> /\ ~Of(Head(jobs), c))
  BY <1>4
<1>15. Closed'
  <2>1. \A u \in Thread : thread'[u].queue = <<>>
    BY <1>2 DEF Core, Queues
  <2>2. \A i \in Jobs' : i.run \in {"poolClosed", "freeSingle"} => closed'
    <3>1. \A i \in Jobs' : i \in Jobs \/ \E k \in DOMAIN js : i = js[k]
      BY <1>0, <1>5, <1>7, <1>9, ComeJobs
    <3> QED
      BY <1>0, <1>9, <3>1 DEF Closed
  <2> QED
    BY <1>0, <2>1, <2>2 DEF Closed, Closing
<1>16. Vocabulary'
  BY <1>0, <1>2 DEF Vocabulary, WorkerAvailable, SharedThread
<1>17. more = {} \/ \E i : more = {i} /\ Len(thread[t].queue) + 1 \in DOMAIN js
  BY <1>4, <1>6
<1> QED
  BY <1>2, <1>5, <1>7, <1>8, <1>11, <1>13, <1>14, <1>15, <1>16, <1>17, RejectsStep

\* ensureTier's catch closes a controller that cannot be used.
LEMMA SharedUnusableKeeps ==
    ASSUME Core, Session, SharedUnusable
    PROVE  Session' /\ Simulated
<1>0. /\ Types /\ AllPlaced /\ jobs # <<>> /\ ~Closing /\ Head(jobs).run = "verifyShared"
      /\ UNCHANGED <<closed, freed, capabilities, init, call, closing>> /\ sharedController' = 0
  BY DEF Core, Session, SharedUnusable, Runs, Closing, session, options, tiers
<1>1. WellFormed(Head(jobs)) /\ Head(jobs) \in Jobs /\ Head(jobs) = jobs[1] /\ 1 \in DOMAIN jobs
  BY <1>0, HeadJob
<1>2. ~WorkerAvailable /\ sharedController \in Attempt /\ sharedController # 0
  BY <1>0, <1>1, AttemptOf DEF Core, PoolThreads, Controller, WellFormed, Awaits
<1>3. PICK t \in Thread : t = SharedThread(sharedController)
  BY <1>0, <1>2, AttemptOf
<1>4. PICK c \in Caller : c = Head(jobs).who
  BY <1>0, <1>1 DEF WellFormed, Awaits
<1>5. PICK job : job = Answer(c, 2, "refused")
  OBVIOUS
<1>6. /\ job \in JobType /\ WellFormed(job) /\ Of(job, c) /\ job.who = c
      /\ job.run = (IF c = Boot THEN "boot" ELSE "client")
  <2>1. 2 \in 1 .. 5 /\ "refused" \in Outcomes
    BY DEF Outcomes
  <2> QED
    BY <1>5, <2>1, ToldJob DEF Of
<1>7. /\ thread' = [thread EXCEPT ![t] = ClosedThread(t)]
      /\ Resume(Rejections(t) \o <<job>>)
  BY <1>3, <1>4, <1>5 DEF SharedUnusable
<1>8. \A d \in Slot : Of(job, d) <=> Of(Head(jobs), d)
  BY <1>0, <1>4, <1>6 DEF Of, Internal
<1>9. \A d \in Slot : Of(job, d) => call[d].op = "switch"
  <2> SUFFICES ASSUME NEW d \in Slot, Of(job, d) PROVE call[d].op = "switch"
    OBVIOUS
  <2>1. Head(jobs).run \in RunsOf(call[d].op)
    BY <1>0, <1>1, <1>8 DEF AllPlaced, Placed
  <2> QED
    BY <1>0, <2>1 DEF RunsOf
<1>10. \A d \in Slot : Of(job, d) => job.run \in RunsOf(call[d].op) /\ ~Encodes(d)
  BY <1>6, <1>9, SlotAssumption DEF RunsOf, Of, Encodes
<1>11. Fine(job, <<job>>)
  <2>1. job.run = "client" => c \in Slot /\ ~Encodes(c)
    BY <1>6, <1>10 DEF Caller
  <2> QED
    BY <1>0, <1>6, <2>1 DEF Fine, Encodes
<1>12. /\ job.run \notin {"encoded", "detailed", "poolClosed", "freeSingle"} /\ Head(jobs).run # "client"
       /\ sharedController' \in {0, sharedController}
  BY <1>0, <1>6
<1> QED
  BY <1>0, <1>2, <1>3, <1>6, <1>7, <1>8, <1>10, <1>11, <1>12, ControllerCloses

\* `await sharedController.close()`.
LEMMA CloseControllerKeeps ==
    ASSUME Core, Session, CloseController
    PROVE  Session' /\ Simulated
<1>0. /\ Types /\ AllPlaced /\ Closed /\ jobs # <<>> /\ ~Closing /\ Head(jobs).run = "poolClosed"
      /\ UNCHANGED <<closed, freed, capabilities, sharedController, init, call, closing>>
  BY DEF Core, Session, CloseController, Runs, Closing, session, options, tiers
<1>1. WellFormed(Head(jobs)) /\ Head(jobs) \in Jobs /\ Head(jobs) = jobs[1] /\ 1 \in DOMAIN jobs
  BY <1>0, HeadJob
<1>2. CASE sharedController = 0
  BY <1>2, CloseGoesOnKeeps
<1>3. CASE sharedController # 0
  <2>1. sharedController \in Attempt /\ ~WorkerAvailable
    BY <1>0, <1>3, AttemptOf, TiersExclude DEF Core, Attempts
  <2>2. PICK t \in Thread : t = SharedThread(sharedController)
    BY <1>0, <2>1, AttemptOf
  <2>3. PICK c \in Caller : c = Head(jobs).who
    BY <1>0, <1>1 DEF WellFormed, Awaits
  <2>4. PICK job : job = Job("freeSingle", c, 1, "done")
    OBVIOUS
  <2>5. job \in JobType /\ WellFormed(job) /\ job.run = "freeSingle" /\ job.who = c
    BY <2>4, CloseJob
  <2>6. /\ thread' = [thread EXCEPT ![t] = ClosedThread(t)]
        /\ Resume(Append(Rejections(t), job))
    BY <1>3, <2>2, <2>3, <2>4 DEF CloseController
  <2>7. Resume(Rejections(t) \o <<job>>)
    <3>1. PICK s \in Seq(JobType) : s = Rejections(t)
      BY <1>0, RejectionJobs
    <3>2. Append(s, job) = s \o <<job>>
      BY <2>5, AppendProperties
    <3> QED
      BY <2>6, <3>1, <3>2
  <2>8. \A d \in Slot : Of(job, d) <=> Of(Head(jobs), d)
    BY <1>0, <2>3, <2>5 DEF Of, Internal
  <2>9. \A d \in Slot : Of(job, d) => call[d].op = "close"
    <3> SUFFICES ASSUME NEW d \in Slot, Of(job, d) PROVE call[d].op = "close"
      OBVIOUS
    <3>1. Head(jobs).run \in RunsOf(call[d].op)
      BY <1>0, <1>1, <2>8 DEF AllPlaced, Placed
    <3> QED
      BY <1>0, <3>1 DEF RunsOf, Awaits
  <2>10. \A d \in Slot : Of(job, d) => job.run \in RunsOf(call[d].op) /\ ~Encodes(d)
    BY <2>5, <2>9 DEF RunsOf, Encodes
  <2>11. Fine(job, <<job>>)
    BY <2>5 DEF Fine
  <2>12. closed /\ Head(jobs).run # "client"
    BY <1>0, <1>1 DEF Closed
  <2>13. job.run \notin {"encoded", "detailed"} /\ sharedController' \in {0, sharedController}
    BY <1>0, <2>5
  <2> QED
    BY <1>0, <1>3, <2>1, <2>2, <2>5, <2>6, <2>7, <2>8, <2>10, <2>11, <2>12, <2>13, ControllerCloses
<1> QED
  BY <1>2, <1>3

\* What the worker threads answer

\* Between tasks a closed session has no encode that waits for a thread.
LEMMA ClosedAnswers ==
    ASSUME Closed, jobs = <<>>, ~Closing, UNCHANGED <<closed, freed, closing>>,
           \A c \in Slot : Posted(c)' => Posted(c),
           \A job \in Jobs' : job.run \notin {"poolClosed", "freeSingle"}
    PROVE  Closed'
<1>1. ASSUME closed, NEW t \in Thread, NEW k \in DOMAIN thread'[t].queue, thread'[t].queue[k] \in Slot
      PROVE  FALSE
  <2>1. PICK c \in Slot : thread'[t].queue[k] = c
    BY <1>1
  <2>2. Posted(c)'
    BY <2>1 DEF Posted
  <2>3. PICK u \in Thread : \E j \in DOMAIN thread[u].queue : thread[u].queue[j] = c
    BY <2>2 DEF Posted
  <2> QED
    BY <1>1, <2>3 DEF Closed, Jobs
<1> QED
  BY <1>1 DEF Closed, Closing

\* A thread has answered its initialize.
LEMMA InitEndsKeeps ==
    ASSUME Core, Session, NEW t \in Thread, Delivered(t), NEW k \in DOMAIN thread[t].queue, thread[t].queue[k] = Init0,
           thread'[t].queue = RemoveAt(thread[t].queue, k), \A u \in Thread \ {t} : thread'[u] = thread[u],
           NEW js \in Seq(JobType), \A i \in DOMAIN js : WellFormed(js[i]) /\ js[i].run \in {"poolReady", "sharedReady"},
           Queue(js), Vocabulary'
    PROVE  Session' /\ Simulated
<1>0. /\ Types /\ Closed /\ jobs = <<>>
      /\ UNCHANGED <<closed, freed, capabilities, sharedController, init, call, closing>>
  BY DEF Core, Session, Delivered, BetweenTasks, session, options, tiers
<1>1. Comes(js)
  BY <1>0 DEF Comes
<1>2. \A c \in Slot : PostsStay(c) /\ JoinsStay(c)
  <2>1. \A c \in Slot : PostsStay(c)
    BY <1>0, TakesPost, SlotAssumption
  <2> QED
    BY <1>0, <2>1, JoinsSame
<1>3. \A c \in Slot : Unmoved(c, js)
  BY <1>2 DEF Unmoved, Of, Internal
<1>4. \A i \in DOMAIN js : WellFormed(js[i]) /\ Fine(js[i], js)
  BY DEF Fine
<1>5. Closed'
  <2>1. \A job \in Jobs' : job.run \notin {"poolClosed", "freeSingle"}
    <3>1. \A i \in DOMAIN js : WellFormed(js[i])
      OBVIOUS
    <3>2. \A job \in Jobs' : job \in Jobs \/ \E i \in DOMAIN js : job = js[i]
      BY <1>0, <1>1, <3>1, ComeJobs
    <3>3. Jobs = {}
      BY <1>0 DEF Jobs
    <3> QED
      BY <3>2, <3>3
  <2>2. \A c \in Slot : Posted(c)' => Posted(c)
    BY <1>2 DEF PostsStay
  <2>3. ~Closing
    BY DEF Delivered, BetweenTasks, Closing
  <2> QED
    BY <1>0, <2>1, <2>2, <2>3, ClosedAnswers
<1>6. \A c \in Slot : Closer(c)' => Closer(c)
  BY <1>0 DEF Closer, Closing
<1> QED
  BY <1>0, <1>1, <1>3, <1>4, <1>5, <1>6, SeveralStep

\* Both answers to an initialize.
LEMMA InitializesKeeps ==
    ASSUME Core, Session, NEW t \in Thread, Initializes(t)
    PROVE  Session' /\ Simulated
<1>0. /\ Types /\ Vocabulary /\ t[1] \in Attempt /\ thread \in [Thread -> ThreadType]
  BY AttemptOf DEF Core, Session, Types
<1>1. CASE InitFailed(t)
  <2>1. /\ Delivered(t) /\ Queue(<<InitReaction(t[1], "error")>>)
    BY <1>1 DEF InitFailed
  <2>2. PICK k \in DOMAIN thread[t].queue :
           /\ thread[t].queue[k] = Init0
           /\ thread' = [thread EXCEPT ![t].queue = RemoveAt(@, k)]
    BY <1>1 DEF InitFailed
  <2>3. /\ thread'[t].queue = RemoveAt(thread[t].queue, k)
        /\ \A u \in Thread \ {t} : thread'[u] = thread[u]
        /\ \A u \in Thread : thread'[u].model = thread[u].model /\ thread'[u].failure = thread[u].failure
    BY <1>0, <2>2 DEF ThreadType
  <2>4. PICK job : job = InitReaction(t[1], "error")
    OBVIOUS
  <2>5. job \in JobType /\ WellFormed(job) /\ job.run \in {"poolReady", "sharedReady"}
    BY <1>0, <2>4, InitJob
  <2>6. PICK js : js = <<job>>
    OBVIOUS
  <2>7. /\ js \in Seq(JobType) /\ \A i \in DOMAIN js : WellFormed(js[i]) /\ js[i].run \in {"poolReady", "sharedReady"}
        /\ Queue(js)
    BY <2>1, <2>4, <2>5, <2>6, OneOf
  <2>8. Vocabulary'
    <3>1. jobs = <<>> /\ UNCHANGED <<capabilities, sharedController>>
      BY <2>1 DEF Delivered, BetweenTasks, session, options, tiers
    <3>2. ~Arriving
      BY <1>0, <3>1, NotArriving
    <3>3. sharedController # 0 => SharedThread(sharedController) \in Thread
      BY <1>0, AttemptOf
    <3> QED
      BY <1>0, <2>3, <3>1, <3>2, <3>3, SameVocabulary
  <2> QED
    BY <2>1, <2>2, <2>3, <2>7, <2>8, InitEndsKeeps
<1>2. ASSUME NEW model \in {"match", "foreign"}, InitAnswered(t, model) PROVE Session' /\ Simulated
  <2>1. Delivered(t) /\ (Htk \/ model = "match")
    BY <1>2 DEF InitAnswered
  <2>2. PICK k \in DOMAIN thread[t].queue :
           /\ thread[t].queue[k] = Init0
           /\ thread' = [thread EXCEPT ![t].model = model, ![t].queue = RemoveAt(@, k)]
    BY <1>2 DEF InitAnswered
  <2>3. /\ thread'[t].queue = RemoveAt(thread[t].queue, k) /\ thread'[t].model = model
        /\ \A u \in Thread \ {t} : thread'[u] = thread[u]
        /\ \A u \in Thread : thread'[u].failure = thread[u].failure
    BY <1>0, <2>2 DEF ThreadType
  <2>4. PICK job : job = InitReaction(t[1], "ok")
    OBVIOUS
  <2>5. /\ job \in JobType /\ WellFormed(job) /\ job.with = "ok"
        /\ job.run = IF WorkerAvailable THEN "poolReady" ELSE "sharedReady"
    BY <1>0, <2>4, InitJob
  <2>6. PICK send : send = (SharedAvailable \/ \A u \in Threads(t[1]) \ {t} : thread[u].model # "none")
    OBVIOUS
  <2>7. PICK js : js = IF send THEN <<job>> ELSE <<>>
    OBVIOUS
  <2>8. jobs = <<>> /\ closing = NotClosing /\ turn' = FALSE /\ UNCHANGED <<capabilities, sharedController, closing>>
    BY <2>1 DEF Delivered, BetweenTasks, session, options, tiers
  <2>9. Queue(js)
    <3>1. CASE send
      BY <1>2, <2>4, <2>6, <2>7, <3>1 DEF InitAnswered
    <3>2. CASE ~send
      <4>1. UNCHANGED jobs /\ js = <<>>
        BY <1>2, <2>6, <2>7, <3>2 DEF InitAnswered
      <4> QED
        BY <2>8, <4>1 DEF Queue
    <3> QED
      BY <3>1, <3>2
  <2>10. js \in Seq(JobType) /\ \A i \in DOMAIN js : WellFormed(js[i]) /\ js[i].run \in {"poolReady", "sharedReady"}
    <3>1. CASE send
      BY <2>5, <2>7, <3>1, OneOf
    <3>2. CASE ~send
      BY <2>7, <3>2
    <3> QED
      BY <3>1, <3>2
  <2>11. Vocabulary'
    <3>1. \A u \in Thread : thread'[u].model = "foreign" => Htk
      BY <1>0, <2>1, <2>3 DEF Vocabulary
    <3>2. ASSUME ~WorkerAvailable, sharedController # 0 PROVE Arriving' \/ model # "foreign" \/ t # SharedThread(sharedController)
      <4>1. send
        BY <2>6, <3>2 DEF Core, Attempts
      <4>2. jobs' = <<job>>
        BY <2>5, <2>7, <2>8, <2>9, <4>1 DEF Queue
      <4>3. jobs' # <<>> /\ Len(jobs') = 1 /\ jobs'[1] = job
        BY <4>2
      <4> QED
        BY <2>5, <2>8, <3>2, <4>3 DEF Arriving, Closing
    <3>3. ~Arriving
      BY <1>0, <2>8, NotArriving
    <3>4. sharedController # 0 => SharedThread(sharedController) \in Thread
      BY <1>0, AttemptOf
    <3>5. ASSUME ~WorkerAvailable, sharedController # 0
          PROVE  \/ thread'[SharedThread(sharedController)].model # "foreign"
                 \/ thread'[SharedThread(sharedController)].failure # "none"
                 \/ Arriving'
      BY <1>0, <2>3, <3>2, <3>3, <3>4, <3>5 DEF Vocabulary
    <3> QED
      BY <2>8, <3>1, <3>5 DEF Vocabulary, WorkerAvailable, SharedThread
  <2> QED
    BY <2>1, <2>2, <2>3, <2>9, <2>10, <2>11, InitEndsKeeps
<1> QED
  BY <1>1, <1>2 DEF Initializes

\* A thread answers an encode: it has the vocabulary of the session.
LEMMA AnswersKeeps ==
    ASSUME Core, Session, NEW t \in Thread, Answers(t)
    PROVE  Session' /\ Simulated
<1>0. /\ Types /\ AllPlaced /\ Closed /\ Vocabulary /\ thread \in [Thread -> ThreadType] /\ thread[t] \in ThreadType
  BY DEF Core, Session, Types
<1>1. PICK with \in {"ids", "error"} : EncodeAnswered(t, with)
  BY DEF Answers
<1>2. PICK r : r = CASE with = "error" -> "error"
                     [] with = "ids" /\ thread[t].model = "foreign" -> "foreign"
                     [] OTHER -> "exact"
  OBVIOUS
<1>3. PICK k \in DOMAIN thread[t].queue :
         /\ thread[t].queue[k] # Init0
         /\ thread' = [thread EXCEPT ![t].queue = RemoveAt(@, k)]
         /\ Queue(<<EncodeReaction(thread[t].queue[k], call[thread[t].queue[k]].tier, r)>>)
  BY <1>1, <1>2 DEF EncodeAnswered
<1>4. /\ Delivered(t) /\ jobs = <<>> /\ ~Closing /\ turn' = FALSE
      /\ UNCHANGED <<closed, freed, capabilities, sharedController, init, call, closing>>
  BY <1>1 DEF EncodeAnswered, Delivered, BetweenTasks, Closing, session, options, tiers
<1>5. PICK c \in Slot : c = thread[t].queue[k]
  <2>1. thread[t].queue \in Seq(Rpc)
    BY <1>0 DEF ThreadType
  <2>2. thread[t].queue[k] \in Rpc
    BY <2>1, InSeq, Zenon
  <2> QED
    BY <1>3, <2>2 DEF Rpc
<1>6. /\ thread'[t].queue = RemoveAt(thread[t].queue, k)
      /\ \A u \in Thread \ {t} : thread'[u] = thread[u]
      /\ \A u \in Thread : thread'[u].model = thread[u].model /\ thread'[u].failure = thread[u].failure
  BY <1>0, <1>3 DEF ThreadType
<1>7. thread[t].model # "foreign"
  <2> SUFFICES ASSUME thread[t].model = "foreign" PROVE FALSE
    OBVIOUS
  <2>1. Htk /\ thread[t].failure = "none" /\ t[1] \in Attempt
    BY <1>0, AttemptOf DEF Vocabulary, Core, Queues
  <2>2. CASE WorkerAvailable
    <3>1. t[1] = workerPool
      BY <1>5, <2>2 DEF Core, Queues
    <3>2. t \in Threads(t[1])
      BY DEF Thread, Threads
    <3>3. init[t[1]].promise = "ok"
      BY <1>0, <2>1, <3>1, AttemptOf DEF Core, Attempts
    <3> QED
      BY <2>1, <2>2, <3>2, <3>3 DEF Core, PoolThreads, Foreign
  <2>3. CASE ~WorkerAvailable
    <3>1. t = SharedThread(sharedController) /\ sharedController # 0
      BY <1>0, <1>5, <2>1, <2>3, AttemptOf DEF Core, Queues, SharedThread
    <3>2. ~Arriving
      BY <1>0, <1>4, NotArriving
    <3> QED
      BY <1>0, <2>1, <2>3, <3>1, <3>2 DEF Vocabulary
  <2> QED
    BY <2>2, <2>3
<1>8. r \in {"error", "exact"}
  BY <1>2, <1>7
<1>9. PICK job : job = EncodeReaction(c, call[c].tier, r)
  OBVIOUS
<1>10. job \in JobType /\ WellFormed(job) /\ job.run = "encoded" /\ job.who = c /\ job.with = r
  <2>1. r \in Outcomes
    BY <1>8 DEF Outcomes
  <2> QED
    BY <1>9, <2>1, ReactionJob
<1>11. PICK js : js = <<job>>
  OBVIOUS
<1>12. /\ js \in Seq(JobType) /\ Len(js) = 1 /\ DOMAIN js = {1} /\ js[1] = job
       /\ \A i \in DOMAIN js : WellFormed(js[i])
  BY <1>10, <1>11, OneOf
<1>13. Queue(js) /\ Comes(js)
  BY <1>3, <1>4, <1>5, <1>9, <1>11 DEF Comes
<1>14. Placed(c) /\ Posted(c)
  BY <1>0, <1>5 DEF AllPlaced, Posted
<1>15. Encodes(c) /\ OnePost(c) /\ ~HasJob(c)
  BY <1>14 DEF Placed
<1>16. ~Joined(c) /\ ~Closer(c)
  <2>1. call[c].op \notin {"switch", "close"}
    BY <1>15 DEF Encodes
  <2> QED
    BY <1>14, <2>1 DEF Placed
<1>17. /\ \A d \in Slot : d # c => PostsStay(d)
       /\ ~Posted(c)'
  BY <1>0, <1>5, <1>6, <1>15, TakesPost
<1>18. \A d : JoinsStay(d) /\ (Closer(d)' => Closer(d))
  BY <1>4, JoinsSame DEF Closer, Closing
<1>19. \A d \in Slot : Unmoved(d, js) \/ \E i : MovedTo(d, js, i)
  <2>1. ASSUME NEW d \in Slot, d # c PROVE Unmoved(d, js)
    BY <1>10, <1>12, <1>13, <1>17, <1>18, <2>1 DEF Unmoved, Of
  <2>2. ~Joined(c)' /\ ~Closer(c)'
    BY <1>16, <1>18 DEF JoinsStay
  <2>3. Of(js[1], c) /\ js[1].run \in RunsOf(call[c].op) /\ js[1].run # "client"
    BY <1>10, <1>12, <1>15 DEF Of, Internal, RunsOf, Encodes
  <2>4. MovedTo(c, js, 1)
    BY <1>12, <1>15, <1>17, <2>2, <2>3 DEF MovedTo
  <2> QED
    BY <2>1, <2>4
<1>20. ~closed
  BY <1>0, <1>4, <1>5 DEF Closed, Jobs
<1>21. Alone'
  <2>1. Len(jobs') = 1
    <3>1. jobs' = js
      BY <1>4, <1>12, <1>13 DEF Queue
    <3> QED
      BY <1>12, <3>1
  <2> QED
    BY <1>4, <1>20, <2>1 DEF Alone, Closing
<1>22. \A i \in DOMAIN js : WellFormed(js[i]) /\ Fine(js[i], js)
  BY <1>8, <1>10, <1>12, <1>21 DEF Fine
<1>23. Closed'
  <2>1. \A i \in Jobs' : i.run \notin {"poolClosed", "freeSingle"}
    BY <1>0, <1>4, <1>10, <1>12, <1>13, ComeJobs DEF Jobs
  <2>2. \A d \in Slot : Posted(d)' => Posted(d)
    BY <1>17 DEF PostsStay
  <2> QED
    BY <1>0, <1>4, <2>1, <2>2, ClosedAnswers
<1>24. Vocabulary'
  <2>1. ~Arriving
    BY <1>0, <1>4, NotArriving
  <2>2. sharedController # 0 => SharedThread(sharedController) \in Thread
    BY <1>0, AttemptOf
  <2> QED
    BY <1>0, <1>4, <1>6, <2>1, <2>2, SameVocabulary
<1> QED
  BY <1>4, <1>12, <1>13, <1>18, <1>19, <1>22, <1>23, <1>24, SeveralStep

\* Nothing happens.
LEMMA StutterKeeps ==
    ASSUME Session, UNCHANGED vars
    PROVE  Session' /\ Simulated
<1>0. UNCHANGED <<session, tiers, started, init, thread, call, handles, closing, jobs, turn>>
  BY DEF vars
<1>1. UNCHANGED <<closed, freed, capabilities, workerPool, sharedController, init, thread, call, closing, jobs, turn>>
  BY <1>0 DEF session, options, tiers
<1>2. AllPlaced'
  BY <1>1 DEF Session, AllPlaced, Placed, OneJob, OnePost, OneJoin, HasJob, Posted, Joined, Closer, Closing, Encodes
<1>3. Closed' /\ Answered'
  BY <1>1 DEF Session, Closed, Closing, Jobs, Answered, AnsweredAt, Alone, Encodes, WorkerAvailable
<1>4. Vocabulary'
  BY <1>1 DEF Session, Vocabulary, Arriving, Closing, WorkerAvailable, SharedThread
<1>5. \A c \in Slot : Observed(c)' = Observed(c)
  BY <1>1 DEF Observed, Encodes
<1>6. Simulated
  BY <1>1, <1>5, Unseen
<1> QED
  BY <1>2, <1>3, <1>4, <1>6 DEF Session

\* Every step keeps the invariant and is a step of the session the clients see, or
\* nothing they see.
LEMMA SessionStep ==
    ASSUME Core, ClosingPool, Opening, Session, [Next]_vars
    PROVE  Session' /\ Simulated
<1>1. CASE \E requested \in Tiers : EnsureTier(Boot, requested)
  BY <1>1, EnsureTierKeeps DEF Caller
<1>2. CASE \E c \in Slot : Client(c)
  BY <1>2, ClientKeeps
<1>3. CASE Tick \/ ClientResumes \/ Booted \/ BootClosed \/ BootRefused
  BY <1>3, TickKeeps, EndsKeeps, BootRefusedKeeps
<1>4. CASE PoolReady \/ PoolUnusable \/ PoolFailed
  BY <1>4, PoolSettlesKeeps, PoolUnusableKeeps
<1>5. CASE AdoptPool \/ PoolRefused \/ VerifyShared \/ JoinedShared
  BY <1>5, ConcludesKeeps
<1>6. CASE SharedReady \/ SharedUnusable
  BY <1>6, SharedReadyKeeps, SharedUnusableKeeps
<1>7. CASE CloseWorker \/ CloseController \/ FreeSingle
  BY <1>7, CloseWorkerKeeps, CloseControllerKeeps, CloseGoesOnKeeps
<1>8. CASE EncodeResumes \/ DetailedResumes
  BY <1>8, EncodeResumesKeeps, DetailedResumesKeeps
<1>9. CASE \E t \in Thread : Initializes(t) \/ Answers(t) \/ Fault(t)
  BY <1>9, InitializesKeeps, AnswersKeeps, FaultKeeps
<1>10. CASE Refused \/ UNCHANGED vars
  BY <1>10, StutterKeeps DEF Refused
<1> QED
  BY <1>1, <1>2, <1>3, <1>4, <1>5, <1>6, <1>7, <1>8, <1>9, <1>10 DEF Next, Continue

\* A new session: nothing called, nothing posted.
LEMMA SessionInit ==
    ASSUME Init
    PROVE  Session /\ Opening /\ Abstract!Init
<1>0. /\ closed = FALSE /\ freed = FALSE /\ sharedController = 0 /\ closing = NotClosing /\ jobs = <<>>
      /\ \A c \in Caller : call[c].op = "idle"
      /\ \A t \in Thread : thread[t].queue = <<>> /\ thread[t].model = "none"
      /\ \A a \in Attempt : init[a].awaiting = <<>>
  BY DEF Init, IdleCall, NoThread, NoInit
<1>1. /\ Boot \in Caller /\ \A c \in Slot : c \in Caller
      /\ DOMAIN jobs = {} /\ Jobs = {} /\ ~Closing
      /\ \A t \in Thread : DOMAIN thread[t].queue = {}
      /\ \A a \in Attempt : DOMAIN init[a].awaiting = {}
  BY <1>0 DEF Caller, Jobs, Closing
<1>2. \A c \in Slot : ~HasJob(c) /\ ~Posted(c) /\ ~Joined(c) /\ ~Closer(c) /\ ~Encodes(c)
  BY <1>0, <1>1 DEF HasJob, Posted, Joined, Closer, Encodes
<1>3. AllPlaced
  BY <1>1, <1>2 DEF AllPlaced, Placed, OneJob, OnePost, OneJoin
<1>4. Closed
  BY <1>0, <1>1 DEF Closed
<1>5. Answered /\ Vocabulary
  BY <1>0, <1>1 DEF Answered, Vocabulary
<1>6. Opening
  BY <1>0, <1>1 DEF Opening
<1>7. Abstract!Init
  BY <1>0, <1>2 DEF Abstract!Init, Observed
<1> QED
  BY <1>3, <1>4, <1>5, <1>6, <1>7 DEF Session

\* The invariant of the clients' calls holds of every session.
THEOREM SessionInvariant == Spec => [](Core /\ ClosingPool /\ Opening /\ Session)
<1>1. Init => Opening /\ Session
  BY SessionInit
<1>2. Core /\ ClosingPool /\ Opening /\ Session /\ [Next]_vars => (Opening /\ Session)'
  BY SessionStep, OpeningStep
<1>3. Spec => [](Core /\ ClosingPool)
  BY CoreInvariant
<1> QED
  BY <1>1, <1>2, <1>3, PTL DEF Spec

\* close() leaves no encode hanging, on whatever tier and however lost its worker: once
\* the resident tokenizer is freed and the event loop at rest, every encode has settled
\* (close, and the queues closeWorkers rejects), for every number of clients, workers
\* and activations.
THEOREM SessionCloseSettlesEncodes == Spec => []CloseSettlesEncodes
<1>1. Core /\ Session => CloseSettlesEncodes
  <2> SUFFICES ASSUME Session, Quiet, freed, NEW c \in Slot, Encodes(c)
               PROVE  FALSE
    BY DEF CloseSettlesEncodes
  <2>1. closed /\ ~Closing /\ Jobs = {} /\ DOMAIN jobs = {}
    BY DEF Session, Closed, Quiet, Closing, Jobs
  <2>2. ~HasJob(c)
    BY <2>1 DEF HasJob
  <2>3. Posted(c)
    BY <2>2 DEF Session, AllPlaced, Placed
  <2>4. PICK t \in Thread : \E k \in DOMAIN thread[t].queue : thread[t].queue[k] = c
    BY <2>3 DEF Posted
  <2> QED
    BY <2>1, <2>4 DEF Session, Closed
<1> QED
  BY <1>1, SessionInvariant, PTL

\* Every execution of the runtime is one of the session its clients were promised: each
\* step maps to a step of TokenizerSession or to a stutter.  An encode ends with the
\* exact ids, or is rejected because the session was closed, on whatever tier, whatever
\* its worker answers and whenever it fails (encodeForTier, encodeDetailed, close).
THEOREM SessionImplements == Spec => SessionPromise
<1>1. Init => Abstract!Init
  BY SessionInit
<1>2. Core /\ ClosingPool /\ Opening /\ Session /\ [Next]_vars => [Abstract!Next]_(Abstract!vars)
  BY SessionStep DEF Simulated
<1> QED
  BY <1>1, <1>2, SessionInvariant, PTL DEF Spec, SessionPromise, Abstract!Spec
=============================================================================
