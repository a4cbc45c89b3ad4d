------------------------------ MODULE DecodeRoutes ------------------------------
(***************************************************************************)
(* The decoder of a session: createComposedDecoder over a configuration,   *)
(* with its table, its hot strings and the scratch that copies the ids of  *)
(* an array (decode-id-scratch.mjs).                                       *)
(*                                                                         *)
(* A decode is synchronous, but reading an element of an array may run a   *)
(* getter of the client's, which may decode another array before it        *)
(* returns whatever it likes: calls nest, and a second read of an element  *)
(* need not find what the first one did.                                   *)
(***************************************************************************)
EXTENDS HotStrings

CONSTANTS
    Requests,      \* how a decoder is asked for: [given |-> optimizations] or [config |-> ...]
    Inputs,        \* what an array without getters, or a Uint32Array, may hold
    Elements,      \* what a getter may return
    Invalid,       \* what is not a u32
    MaxLength,     \* the length of arrays with getters
    MaxDepth       \* how deep calls nest

ASSUME RequestAssumption == \A r \in Requests : DOMAIN r \in {{"given"}, {"config"}}
ASSUME InputAssumption ==
    /\ \A ids \in Inputs : ids \in Seq(ToSet(ids))
    /\ Invalid \notin Vocabulary
    /\ MaxLength \in Nat

VARIABLES
    request, phase, config,     \* the construction
    table, hot,                 \* the layers' state
    storage, active,            \* createValidatedIdScratch
    stack,                      \* the calls that read an array, the innermost last
    answer                      \* what the last call was given and returned

vars == <<request, phase, config, table, hot, storage, active, stack, answer>>

NoConfig == Resolved(<<>>)
NoAnswer == [given |-> <<>>, value |-> Throws("none")]

(***************************************************************************)
(* Construction                                                            *)
(***************************************************************************)
\* resolveOptimizationConfig, which a request for a configuration skips.
Resolve ==
    /\ phase = "new"
    /\ IF "config" \in DOMAIN request
       THEN phase' = "resolved" /\ config' = request.config
       ELSE IF RefusedState(request.given)
       THEN phase' = "refused" /\ UNCHANGED config
       ELSE phase' = "resolved" /\ config' = Resolved(request.given)
    /\ UNCHANGED <<request, table, hot, storage, active, stack, answer>>

\* createComposedDecoder
Compose ==
    /\ phase = "resolved"
    /\ phase' = IF Composes(config) /\ (config.table => TableAccepts(config))
                THEN "ready" ELSE "uncomposable"
    /\ UNCHANGED <<request, config, table, hot, storage, active, stack, answer>>

(***************************************************************************)
(* A call whose input does not change under it                             *)
(***************************************************************************)
\* The table below the hot strings, or the endpoint without one.
Inner(t, ids) ==
    IF config.table THEN DecodeBy(config, Seeded(t), ids, Prepared(config, Seeded(t), ids, FALSE))
    ELSE Fallback(t, ids)

CanCall ==
    /\ phase = "ready" /\ Len(stack) < MaxDepth
    /\ stack # <<>> => Len(stack[Len(stack)].given) < stack[Len(stack)].length

Returns(given, answered) ==
    /\ table' = answered.table
    /\ answer' = [given |-> given, value |-> answered.value]

\* Ids that every layer reads as they are; an element that is no u32 is refused.
Decode(ids) ==
    /\ CanCall
    /\ \/ /\ Invalid \in ToSet(ids)
          /\ ~config.directScratch \/ config.hotStrings
          /\ Returns(ids, Answered(IF config.table /\ ~config.hotStrings THEN Seeded(table) ELSE table,
                                   Throws("type")))
          /\ UNCHANGED hot
       \/ /\ ids = <<>>
          /\ Returns(ids, Answered(IF config.table THEN Seeded(table) ELSE table, Text(<<>>)))
          /\ UNCHANGED hot
       \/ /\ ids # <<>> /\ Invalid \notin ToSet(ids)
          /\ \E order \in IF config.hotStrings THEN Orders(hot, ids) ELSE {<<>>} :
                LET start == IF config.hotStrings THEN HotInitialized(hot, ids, order)
                             ELSE [hot |-> hot, threw |-> FALSE]
                IN  /\ hot' = start.hot
                    /\ Returns(ids, IF start.threw THEN Answered(table, Throws("unknown"))
                                    ELSE HotDecode(start.hot, table, ids, Inner))
    /\ UNCHANGED <<request, phase, config, storage, active, stack>>

(***************************************************************************)
(* A call with an array whose elements are read one after the other        *)
(***************************************************************************)
\* 1, doubled until it is no less than n.
NextCapacity(n) ==
    LET capacity[k \in 0 .. n] ==
            IF k = 0 THEN 1
            ELSE IF capacity[k - 1] < n THEN 2 * capacity[k - 1] ELSE capacity[k - 1]
    IN  capacity[n]

\* Mutant: the scratch is used again before its user is done.
EnterSharing(n) ==
    /\ storage' = IF Len(storage) < n THEN [k \in 1 .. NextCapacity(n) |-> 0] ELSE storage
    /\ active' = TRUE
    /\ stack' = Append(stack, [length |-> n, pass |-> "copy", own |-> TRUE,
                               given |-> <<>>, miss |-> 0, prefix |-> <<>>])

\* withValidated: the shared storage if it is free, an array of its own otherwise.
EnterScratch(n) ==
    LET reusable == ~active IN
    /\ storage' = IF reusable /\ Len(storage) < n
                  THEN [k \in 1 .. NextCapacity(n) |-> 0] ELSE storage
    /\ active' = TRUE
    /\ stack' = Append(stack, [length |-> n, pass |-> "copy", own |-> reusable,
                               given |-> <<>>, miss |-> 0, prefix |-> <<>>])

\* Without the scratch the join reads the elements, and again if it misses one.
EnterJoin(n) ==
    /\ config.fusedValidation
    /\ n <= MaxTableIds \/ config.runStitcher
    /\ stack' = Append(stack, [length |-> n, pass |-> "join", own |-> FALSE,
                               given |-> <<>>, miss |-> 0, prefix |-> <<>>])
    /\ UNCHANGED <<storage, active>>

DecodeArray(n) ==
    /\ CanCall
    /\ config.table /\ ~config.hotStrings
    /\ table' = Seeded(table)
    /\ answer' = NoAnswer
    /\ IF config.directScratch THEN EnterScratch(n) ELSE EnterJoin(n)
    /\ UNCHANGED <<request, phase, config, hot>>

Top == stack[Len(stack)]
Below == Front(stack)

Refuse(v) ==
    /\ stack' = Below
    /\ active' = (active /\ ~Top.own)
    /\ answer' = [given |-> Append(Top.given, v), value |-> Throws("type")]
    /\ UNCHANGED storage

\* The copy into the scratch.
Copy(v) ==
    /\ Top.pass = "copy"
    /\ IF v = Invalid THEN Refuse(v)
       ELSE /\ stack' = Append(Below, [Top EXCEPT !.given = Append(@, v)])
            /\ storage' = IF Top.own THEN [storage EXCEPT ![Len(Top.given) + 1] = v] ELSE storage
            /\ answer' = NoAnswer
            /\ UNCHANGED active

\* The first pass joins the strings of the table.
JoinNext(v) ==
    /\ Top.pass = "join"
    /\ stack' = Append(Below,
                       IF v \in table.strings THEN [Top EXCEPT !.given = Append(@, v)]
                       ELSE [Top EXCEPT !.pass = "fuse", !.given = <<>>,
                                        !.miss = Len(Top.given) + 1,
                                        !.prefix = Prefix(Top.given, Len(Top.given) + 1)])
    /\ answer' = NoAnswer
    /\ UNCHANGED <<storage, active>>

\* fusedTokenIds, the second pass: it copies, and looks for an earlier miss.
Fuse(v) ==
    /\ Top.pass = "fuse"
    /\ IF v = Invalid THEN Refuse(v)
       ELSE LET k == Len(Top.given) + 1 IN
            /\ stack' = Append(Below,
                    [Top EXCEPT !.given = Append(@, v),
                                !.miss = IF k < @ /\ v \notin table.strings THEN k ELSE @])
            /\ answer' = NoAnswer
            /\ UNCHANGED <<storage, active>>

\* The getter of the next element returns v.
Read(v) ==
    /\ stack # <<>> /\ Len(Top.given) < Top.length
    /\ Copy(v) \/ JoinNext(v) \/ Fuse(v)
    /\ UNCHANGED <<request, phase, config, table, hot>>

PreparedPrefix(call) ==
    LET verified == Prefix(call.given, call.miss)
    IN  IF verified = call.prefix THEN call.prefix ELSE verified

\* All elements were read: the ids are decoded.
Finish ==
    /\ stack # <<>> /\ Len(Top.given) = Top.length
    /\ LET ids == IF Top.own THEN SubSeq(storage, 1, Top.length) ELSE Top.given
           plan == CASE Top.pass = "copy" -> Prepared(config, table, ids, TRUE)
                     [] Top.pass = "join" -> Joined(Prefix(ids, Len(ids) + 1))
                     [] Top.pass = "fuse" -> Missed(Top.miss, PreparedPrefix(Top))
       IN  Returns(Top.given, DecodeBy(config, table, ids, plan))
    /\ stack' = Below
    /\ active' = (active /\ ~Top.own)
    /\ UNCHANGED <<request, phase, config, hot, storage>>

Init ==
    /\ request \in Requests
    /\ phase = "new" /\ config = NoConfig
    /\ table = EmptyTable /\ hot = NoHotStrings
    /\ storage = <<>> /\ active = FALSE
    /\ stack = <<>> /\ answer = NoAnswer

Next ==
    \/ Resolve
    \/ Compose
    \/ \E ids \in Inputs : Decode(ids)
    \/ \E n \in 0 .. MaxLength : DecodeArray(n)
    \/ \E v \in Elements : Read(v)
    \/ Finish

Spec == Init /\ [][Next]_vars

(***************************************************************************)
(* Properties                                                              *)
(***************************************************************************)
\* What every configuration must return for what a call was given.
Expected(given) ==
    IF Invalid \in ToSet(given) THEN Throws("type") ELSE CoreDecode(given)

\* Every route gives what the core gives for the ids of one reading of the input, after
\* any calls before it and with any calls within it; none of the checks for tables that
\* did not converge fires.  Excepted are hot strings that begin with a byte order mark,
\* which the decoder of decode-hotstrings.mjs takes away, and a heap that is longer than its
\* content after a call that failed: the rest of it names token 0, which may be none.
Exact ==
    \/ answer = NoAnswer
    \/ answer.value = Expected(answer.given)
    \/ \E id \in hot.cached \intersect ToSet(answer.given) : TextOf(id)[1] = BOM
    \/ /\ config.hotStrings /\ DirectIndex /\ ~hot.initialized /\ Unknown(0)
       /\ Cardinality(Counted(answer.given)) < hot.distinct
       /\ answer.value = Throws("unknown")

\* The run cache is within its capacity, holds for each run what the decoder makes of it,
\* and its accounts are those of its entries, whatever was evicted or used again.  A token
\* has a string of its own, in the table or among the hot ones, only if it is UTF-8 by
\* itself: no table is made of parts of a character.
CachesSound ==
    /\ Sound(table.runs, LAMBDA ids : Lossy(BytesOf(ids)))
    /\ Accounted(table.runs)
    /\ table.strings \union hot.cached \subseteq {id \in Present : Clean(id)}

\* At most one call owns the scratch, which holds what that call has read so far, and it
\* is free when none does (also after a call that was refused).
ScratchIsolated ==
    LET owners == {k \in DOMAIN stack : stack[k].own} IN
    /\ Cardinality(owners) <= 1
    /\ active = (owners # {})
    /\ \A k \in owners : SubSeq(storage, 1, Len(stack[k].given)) = stack[k].given

\* Optimizations that are not refused give a decoder, but for UTF-16 output beside the
\* borrowed output that is on unless it is turned off.
ResolvedComposes ==
    phase = "uncomposable" /\ "given" \in DOMAIN request =>
        config.utf16Output /\ config.borrowedOutput /\ States(request.given).decodeBorrowedOutput = "auto"
=============================================================================
