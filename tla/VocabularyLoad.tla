----------------------------- MODULE VocabularyLoad -----------------------------
(***************************************************************************)
(* loadVocab of hypertok-js/src/vocab-resolve.mjs: the file of a           *)
(* vocabulary is read from the installed package or, when that fails,      *)
(* fetched under a timer and compared with its pinned digest               *)
(* (vocab-integrity.mjs), and sealed in a handle that owns a copy          *)
(* (resolver-provenance.mjs).                                              *)
(*                                                                         *)
(* A content stands for the bytes of a file and for their digest.  Buffers *)
(* have addresses, because whoever reaches a buffer may write into it at   *)
(* any time, between any two steps of a load.                              *)
(***************************************************************************)
EXTENDS Naturals, FiniteSets

CONSTANTS
    Loads,              \* the calls of loadVocab
    Names, Files,       \* what they may ask for, beside what does not exist
    Pinned,             \* VOCAB_FILE_SHA256: the content pinned for some <<name, file>>
    Contents,           \* what the bytes of a file may be
    Buffers,            \* addresses
    ClientBuffers,      \* those the client has allocated by itself
    Nothing             \* no content, no buffer, no question

ASSUME PinnedAssumption ==
    /\ DOMAIN Pinned \subseteq Names \X Files
    /\ \A key \in DOMAIN Pinned : Pinned[key] \in Contents
ASSUME BuffersAssumption == ClientBuffers \subseteq Buffers
ASSUME NothingAssumption == Nothing \notin Contents \union Buffers \union (Names \X Files)

VARIABLES
    memory,      \* what each buffer holds
    reach,       \* the buffers the client can write into
    phase,       \* how far each load is
    asked,       \* its name and file
    from,        \* where its bytes came from
    raw,         \* the buffer they were read into
    request,     \* its request: "response" and "body" are awaited
    timer,       \* is its timer armed?
    digested,    \* the content whose digest is computed
    sealed       \* bytesByHandle: the buffer that its handle owns

loadVars == <<phase, asked, from, raw, request, timer, digested, sealed>>
memoryVars == <<memory, reach>>

Set(f, x, v) == [f EXCEPT ![x] = v]

\* An allocation: of the unused addresses, whichever it is.
Unused == {b \in Buffers : memory[b] = Nothing}
Fresh(b) == b \in Unused /\ b = CHOOSE x \in Unused : TRUE

\* vocabName, vocabFile, timeoutMilliseconds, and a call that passes them.
Call(l, name, file, timeoutIsPositive) ==
    /\ phase[l] = "new"
    /\ IF name \in Names /\ file \in Files /\ timeoutIsPositive
       THEN phase' = Set(phase, l, "local") /\ asked' = Set(asked, l, <<name, file>>)
       ELSE phase' = Set(phase, l, "failed") /\ UNCHANGED asked
    /\ UNCHANGED <<from, raw, request, timer, digested, sealed>>
    /\ UNCHANGED memoryVars

\* readInstalledVocab, whose bytes are not compared with the digest.
LocalRead(l, c, b) ==
    /\ phase[l] = "local" /\ Fresh(b)
    /\ memory' = Set(memory, b, c)
    /\ raw' = Set(raw, l, b) /\ from' = Set(from, l, "local")
    /\ phase' = Set(phase, l, "resolved")
    /\ UNCHANGED <<reach, asked, request, timer, digested, sealed>>

\* Mutant: the request starts without its timer.
FetchUntimed(l) ==
    /\ phase[l] = "local"
    /\ phase' = Set(phase, l, "fetching") /\ from' = Set(from, l, "cdn")
    /\ request' = Set(request, l, "response")
    /\ UNCHANGED <<asked, raw, timer, digested, sealed>>
    /\ UNCHANGED memoryVars

\* It throws, or returned no bytes: the catch starts the request and its timer.
LocalFails(l) ==
    /\ phase[l] = "local"
    /\ phase' = Set(phase, l, "fetching") /\ from' = Set(from, l, "cdn")
    /\ request' = Set(request, l, "response") /\ timer' = Set(timer, l, TRUE)
    /\ UNCHANGED <<asked, raw, digested, sealed>>
    /\ UNCHANGED memoryVars

\* Does the race between request and timer still wait for this request?
Racing(l) == phase[l] = "fetching"

\* Mutant: a request that fails leaves its timer.
LoseUncleared(l) ==
    /\ phase' = IF Racing(l) THEN Set(phase, l, "failed") ELSE phase
    /\ request' = Set(request, l, "none")
    /\ UNCHANGED timer

\* The race is lost: the load fails, and its timer is cleared.
Lose(l) ==
    /\ phase' = IF Racing(l) THEN Set(phase, l, "failed") ELSE phase
    /\ timer' = Set(timer, l, FALSE)
    /\ request' = Set(request, l, "none")

\* A response, after which its body is read.
Responds(l) ==
    /\ request[l] = "response"
    /\ request' = Set(request, l, "body")
    /\ UNCHANGED <<phase, asked, from, raw, timer, digested, sealed>>
    /\ UNCHANGED memoryVars

\* No fetch, no network, a response that is not ok, or the abort of the timer.
RequestFails(l) ==
    /\ request[l] # "none"
    /\ Lose(l)
    /\ UNCHANGED <<asked, from, raw, digested, sealed>>
    /\ UNCHANGED memoryVars

\* The body: nobody takes it when the timer was first.
BodyArrives(l, c, b) ==
    /\ request[l] = "body" /\ Fresh(b)
    /\ request' = Set(request, l, "none")
    /\ IF Racing(l)
       THEN /\ memory' = Set(memory, b, c) /\ raw' = Set(raw, l, b)
            /\ timer' = Set(timer, l, FALSE)
            /\ phase' = Set(phase, l, "verifying")
       ELSE UNCHANGED <<memory, raw, timer, phase>>
    /\ UNCHANGED <<reach, asked, from, digested, sealed>>

\* The timer rejects, and aborts a request that may answer all the same.
TimesOut(l) ==
    /\ timer[l]
    /\ timer' = Set(timer, l, FALSE)
    /\ phase' = IF Racing(l) THEN Set(phase, l, "failed") ELSE phase
    /\ UNCHANGED <<asked, from, raw, request, digested, sealed>>
    /\ UNCHANGED memoryVars

\* Mutant: a file without a pinned digest is as good as one that has it.
VerifyPinnedOnly(l, cryptoAvailable) ==
    /\ phase[l] = "verifying"
    /\ phase' = Set(phase, l, CASE asked[l] \notin DOMAIN Pinned -> "resolved"
                                [] cryptoAvailable -> "digesting"
                                [] OTHER -> "failed")
    /\ digested' = Set(digested, l, memory[raw[l]])
    /\ UNCHANGED <<asked, from, raw, request, timer, sealed>>
    /\ UNCHANGED memoryVars

\* verifyVocabBytes up to the digest, which is of the bytes as they are now.
Verify(l, cryptoAvailable) ==
    /\ phase[l] = "verifying"
    /\ IF asked[l] \in DOMAIN Pinned /\ cryptoAvailable
       THEN /\ phase' = Set(phase, l, "digesting")
            /\ digested' = Set(digested, l, memory[raw[l]])
       ELSE phase' = Set(phase, l, "failed") /\ UNCHANGED digested
    /\ UNCHANGED <<asked, from, raw, request, timer, sealed>>
    /\ UNCHANGED memoryVars

Digested(l) ==
    /\ phase[l] = "digesting"
    /\ phase' = Set(phase, l, IF digested[l] = Pinned[asked[l]] THEN "resolved" ELSE "failed")
    /\ UNCHANGED <<asked, from, raw, request, timer, digested, sealed>>
    /\ UNCHANGED memoryVars

\* createResolvedVocabHandle owns a copy, of the bytes as they are by then.
Seal(l, b) ==
    /\ phase[l] = "resolved" /\ Fresh(b)
    /\ memory' = Set(memory, b, memory[raw[l]])
    /\ sealed' = Set(sealed, l, b)
    /\ phase' = Set(phase, l, "handle")
    /\ UNCHANGED <<reach, asked, from, raw, request, timer, digested>>

Settled(l) == phase[l] \in {"handle", "failed"}

\* Bound of the model: copies leave two buffers for each load that may need them.
Spare == Cardinality(Unused) > 2 * Cardinality({l \in Loads : ~Settled(l)})

\* Mutant: the property gives the bytes the handle owns.
AliasedBytes(l, b) ==
    /\ phase[l] = "handle" /\ b = sealed[l]
    /\ reach' = reach \union {b}
    /\ UNCHANGED memory
    /\ UNCHANGED loadVars

\* The bytes property of a handle gives the client a copy.
BytesProperty(l, b) ==
    /\ phase[l] = "handle" /\ Fresh(b) /\ Spare
    /\ memory' = Set(memory, b, memory[sealed[l]])
    /\ reach' = reach \union {b}
    /\ UNCHANGED loadVars

\* The client writes into a buffer of its own.
ClientWrites(b, c) ==
    /\ b \in reach
    /\ memory' = Set(memory, b, c)
    /\ UNCHANGED reach
    /\ UNCHANGED loadVars

LoadInit ==
    /\ memory \in [Buffers -> Contents \union {Nothing}]
    /\ \A b \in Buffers : memory[b] # Nothing <=> b \in ClientBuffers
    /\ reach = ClientBuffers
    /\ phase = [l \in Loads |-> "new"]
    /\ asked = [l \in Loads |-> Nothing]
    /\ from = [l \in Loads |-> "nowhere"]
    /\ raw = [l \in Loads |-> Nothing]
    /\ request = [l \in Loads |-> "none"]
    /\ timer = [l \in Loads |-> FALSE]
    /\ digested = [l \in Loads |-> Nothing]
    /\ sealed = [l \in Loads |-> Nothing]

\* Steps of a load that no client decides: the engine, the disk and the network.
Proceeds(l) ==
    \/ \E c \in Contents, b \in Buffers : LocalRead(l, c, b) \/ BodyArrives(l, c, b)
    \/ LocalFails(l) \/ TimesOut(l) \/ Digested(l)
    \/ Responds(l) \/ RequestFails(l)
    \/ \E available \in BOOLEAN : Verify(l, available)
    \/ \E b \in Buffers : Seal(l, b)

LoadNext ==
    \/ \E l \in Loads :
           \/ \E name \in Names \union {Nothing}, file \in Files, positive \in BOOLEAN :
                  Call(l, name, file, positive)
           \/ Proceeds(l)
           \/ \E b \in Buffers : BytesProperty(l, b)
    \/ \E b \in reach, c \in Contents : ClientWrites(b, c)

(***************************************************************************)
(* Properties                                                              *)
(***************************************************************************)
LoadTypeOK ==
    /\ memory \in [Buffers -> Contents \union {Nothing}]
    /\ reach \subseteq Buffers
    /\ phase \in [Loads -> {"new", "local", "fetching", "verifying", "digesting", "resolved",
                            "handle", "failed"}]
    /\ asked \in [Loads -> (Names \X Files) \union {Nothing}]
    /\ from \in [Loads -> {"nowhere", "local", "cdn"}]
    /\ raw \in [Loads -> Buffers \union {Nothing}]
    /\ request \in [Loads -> {"none", "response", "body"}]
    /\ timer \in [Loads -> BOOLEAN]
    /\ digested \in [Loads -> Contents \union {Nothing}]
    /\ sealed \in [Loads -> Buffers \union {Nothing}]
    /\ \A l \in Loads : timer[l] => Racing(l)      \* no timer outlives its request
    /\ \A l \in Loads : phase[l] = "handle" <=> sealed[l] # Nothing

\* A handle whose bytes came over the network holds the pinned content of the file asked
\* for, now and for as long as it lives: whatever was answered, however late, and
\* whatever the client writes.
FetchedIsPinned ==
    \A l \in Loads : phase[l] = "handle" /\ from[l] = "cdn" =>
        /\ asked[l] \in DOMAIN Pinned
        /\ memory[sealed[l]] = Pinned[asked[l]]

\* The engine runs what is due, timers and promises, and the disk answers; the network
\* need not.
DiskAnswers(l) == LocalFails(l) \/ \E c \in Contents, b \in Buffers : LocalRead(l, c, b)
LoadFairness == \A l \in Loads :
    /\ WF_loadVars(DiskAnswers(l))
    /\ WF_loadVars(TimesOut(l))
    /\ WF_loadVars(Digested(l) \/ \E available \in BOOLEAN : Verify(l, available))
    /\ WF_loadVars(\E b \in Buffers : Seal(l, b))

\* A load is answered or refused, however long the network is silent, if the disk answers.
LoadSettles == \A l \in Loads : phase[l] # "new" ~> Settled(l)
=============================================================================
