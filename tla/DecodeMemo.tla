------------------------------ MODULE DecodeMemo ------------------------------
(***************************************************************************)
(* The decode memo, createDecodeMemo in hypertok-js/src/decode-memo.mjs:   *)
(* in front of a decoder, it remembers by the identity of the client's     *)
(* array what that array last decoded to, with a copy of its ids.          *)
(*                                                                         *)
(* A call is synchronous, so one action.  Between two calls the client may *)
(* write to its arrays, and the garbage collector may take one of them:    *)
(* another array then stands under its name, unknown to the memo.          *)
(***************************************************************************)
EXTENDS Integers, Sequences, FiniteSets, FiniteSetsExt

CONSTANTS
    Container,        \* the client's arrays
    Eligible,         \* those of a kind the memo knows (memoContainer)
    Ids,              \* the id sequences an array may hold
    Contents,         \* what an array may hold: ids, and is it a plain dense array?
    Canonical(_),     \* what the decoder makes of ids: a text or an exception
    Decodable(_),     \* it is not an exception
    Bytes(_),         \* ids -> the size of their snapshot
    Units(_),         \* the length of a text
    MaxIdBytes,       \* 4 * maxIds
    MaxOutputCodeUnits,
    MaxEntries,
    ProbeEntries

ASSUME ContainerAssumption ==
    /\ IsFiniteSet(Container) /\ Eligible \subseteq Container
    /\ Contents \subseteq [ids : Ids, plain : BOOLEAN]
ASSUME BoundAssumption ==
    /\ MaxEntries \in Nat \ {0}
    /\ ProbeEntries \in Nat
    /\ \A i \in Ids : Bytes(i) \in Nat /\ Units(Canonical(i)) \in Nat /\ Decodable(i) \in BOOLEAN

VARIABLES
    content,             \* container -> what it holds
    result,              \* of the last call: the ids it was given, what it returned
    tracking,            \* tracking
    probes,              \* the first probeCount of probes
    observed,            \* observedContainers
    observedCount,       \* observedContainerCount
    capacityBypassed,    \* capacityBypassed
    records,             \* container -> PENDING, UNCACHEABLE, its slot, or nothing
    slots,               \* the ring of records
    nextSlot,            \* nextSlot
    entries, snapshotBytes, outputCodeUnits, evictions

client    == <<content, result>>
probing   == <<tracking, probes>>
watching  == <<observed, observedCount, capacityBypassed>>
accounts  == <<entries, snapshotBytes, outputCodeUnits, evictions>>
cache     == <<records, slots, nextSlot, accounts>>
vars      == <<client, probing, watching, cache>>

(***************************************************************************)
(* Records.  A record object is identified with the slot that holds it; it *)
(* refers to its key weakly.                                               *)
(***************************************************************************)
Slot      == 0 .. MaxEntries - 1
None      == [state |-> "none", slot |-> 0]
Pending   == [state |-> "pending", slot |-> 0]
Uncacheable == [state |-> "uncacheable", slot |-> 0]
Stored(k) == [state |-> "stored", slot |-> k]
Free      == [used |-> FALSE, key |-> {}, snapshot |-> {}, output |-> {}]
Holding(key, i) ==
    [used |-> TRUE, key |-> key, snapshot |-> {i}, output |-> {Canonical(i)}]
Occupied  == {k \in Slot : slots[k].used}
IdsOf(k)  == CHOOSE i \in slots[k].snapshot : TRUE
TextOf(k) == CHOOSE t \in slots[k].output : TRUE

Given(c)  == content[c].ids
Sized(i)  == Bytes(i) > 0 /\ Bytes(i) <= MaxIdBytes
Short(i)  == Units(Canonical(i)) <= MaxOutputCodeUnits

\* snapshot() takes what the memo may compare later.
Snapshots(c) == c \in Eligible /\ content[c].plain /\ Sized(Given(c))

(***************************************************************************)
(* store(input, value), with what the decoder returned for the ids given   *)
(***************************************************************************)
Refuse(c) ==
    /\ ~(Short(Given(c)) /\ Snapshots(c))
    /\ records' = [records EXCEPT ![c] = Uncacheable]
    /\ UNCHANGED <<slots, nextSlot, accounts>>

\* Mutant: the size of the text that is replaced stays on the account.
ReplaceUncounted(c) ==
    /\ Short(Given(c)) /\ Snapshots(c)
    /\ records[c].state = "stored"
    /\ snapshotBytes'   = snapshotBytes + Bytes(Given(c)) - Bytes(IdsOf(records[c].slot))
    /\ outputCodeUnits' = outputCodeUnits + Units(Canonical(Given(c)))
    /\ slots' = [slots EXCEPT ![records[c].slot] = Holding(@.key, Given(c))]
    /\ UNCHANGED <<records, nextSlot, entries, evictions>>

\* A record of its own, of which the snapshot and the text are replaced.
Replace(c) ==
    /\ Short(Given(c)) /\ Snapshots(c)
    /\ records[c].state = "stored"
    /\ LET k == records[c].slot IN
         /\ snapshotBytes'   = snapshotBytes + Bytes(Given(c)) - Bytes(IdsOf(k))
         /\ outputCodeUnits' = outputCodeUnits + Units(Canonical(Given(c))) - Units(TextOf(k))
         /\ slots' = [slots EXCEPT ![k] = Holding(@.key, Given(c))]
    /\ UNCHANGED <<records, nextSlot, entries, evictions>>

\* The records without those of slot k, which is displaced (removeRecord).
Forgotten(k) ==
    [c \in Container |-> IF slots[k].used /\ c \in slots[k].key /\ records[c] = Stored(k)
                         THEN None ELSE records[c]]

\* Mutant: the ring does not close.
InsertBeyond(c) ==
    /\ Short(Given(c)) /\ Snapshots(c)
    /\ records[c].state # "stored"
    /\ ~slots[nextSlot].used
    /\ slots' = [slots EXCEPT ![nextSlot] = Holding({c}, Given(c))]
    /\ records' = [records EXCEPT ![c] = Stored(nextSlot)]
    /\ entries' = entries + 1
    /\ snapshotBytes' = snapshotBytes + Bytes(Given(c))
    /\ outputCodeUnits' = outputCodeUnits + Units(Canonical(Given(c)))
    /\ nextSlot' = nextSlot + 1
    /\ UNCHANGED evictions

\* The next slot of the ring, its record displaced if it holds one.
Insert(c) ==
    /\ Short(Given(c)) /\ Snapshots(c)
    /\ records[c].state # "stored"
    /\ LET k       == nextSlot
           removed == slots[k].used
       IN  /\ slots'   = [slots EXCEPT ![k] = Holding({c}, Given(c))]
           /\ records' = [Forgotten(k) EXCEPT ![c] = Stored(k)]
           /\ entries' = IF removed THEN entries ELSE entries + 1
           /\ evictions' = IF removed THEN evictions + 1 ELSE evictions
           /\ snapshotBytes' = snapshotBytes + Bytes(Given(c))
                                 - (IF removed THEN Bytes(IdsOf(k)) ELSE 0)
           /\ outputCodeUnits' = outputCodeUnits + Units(Canonical(Given(c)))
                                 - (IF removed THEN Units(TextOf(k)) ELSE 0)
    /\ nextSlot' = (nextSlot + 1) % MaxEntries

Store(c) == Refuse(c) \/ Replace(c) \/ Insert(c)

(***************************************************************************)
(* decode before tracking: which containers come again?                    *)
(***************************************************************************)
\* What every call does: the decoder, or the memo for it, answers for the ids given.
Returns(c, text) ==
    /\ result' = [given |-> Given(c), text |-> text]
    /\ UNCHANGED content

Decodes(c) == Returns(c, Canonical(Given(c)))

\* A container comes again: it is stored, and tracking starts if it could be.
ProbeRepeated(c) ==
    /\ ~tracking
    /\ \E k \in DOMAIN probes : probes[k] = c
    /\ Decodable(Given(c))
    /\ Decodes(c)
    /\ Store(c)
    /\ probes' = <<>>
    /\ IF Short(Given(c)) /\ Snapshots(c)
       THEN /\ tracking' = TRUE
            /\ observed' = {c}
            /\ observedCount' = 1
            /\ UNCHANGED capacityBypassed
       ELSE UNCHANGED <<tracking, watching>>

ProbeFirst(c) ==
    /\ ~tracking
    /\ \A k \in DOMAIN probes : probes[k] # c
    /\ Decodes(c)
    /\ probes' = IF /\ Decodable(Given(c))
                    /\ Len(probes) < ProbeEntries
                    /\ c \in Eligible
                    /\ Short(Given(c)) /\ Sized(Given(c))
                 THEN Append(probes, c) ELSE probes
    /\ UNCHANGED <<tracking, watching, cache>>

\* The exception passes through.
ProbeThrows(c) ==
    /\ ~tracking
    /\ \E k \in DOMAIN probes : probes[k] = c
    /\ ~Decodable(Given(c))
    /\ Decodes(c)
    /\ UNCHANGED <<probing, watching, cache>>

(***************************************************************************)
(* decode while tracking                                                   *)
(***************************************************************************)
Bypassed(c) ==
    /\ tracking /\ capacityBypassed
    /\ Decodes(c)
    /\ UNCHANGED <<probing, watching, cache>>

Unseen(c) == c \in Eligible /\ c \notin observed

\* Mutant: one container more than there are slots is let in.
CountOfOneMore(c) == IF c \in Eligible /\ c \notin observed /\ observedCount <= MaxEntries - 1
                     THEN observedCount + 1 ELSE observedCount

\* The count after this call, and the containers observed.
CountWith(c) == IF Unseen(c) THEN observedCount + 1 ELSE observedCount

\* Mutant: the slots are emptied but the records stay in the map.
OverflowsHalf(c) ==
    /\ tracking /\ ~capacityBypassed
    /\ Unseen(c) /\ CountWith(c) > MaxEntries
    /\ observed' = observed \union {c}
    /\ observedCount' = CountWith(c)
    /\ capacityBypassed' = TRUE
    /\ slots' = [k \in Slot |-> Free]
    /\ nextSlot' = 0
    /\ entries' = 0 /\ snapshotBytes' = 0 /\ outputCodeUnits' = 0
    /\ UNCHANGED <<probing, records, evictions>>
    /\ Decodes(c)

\* One container too many: the memo is emptied and never used again (bypassCapacity).
Overflows(c) ==
    /\ tracking /\ ~capacityBypassed
    /\ Unseen(c) /\ CountWith(c) > MaxEntries
    /\ observed' = observed \union {c}
    /\ observedCount' = CountWith(c)
    /\ capacityBypassed' = TRUE
    /\ records' = [d \in Container |->
                     IF records[d].state = "stored" THEN None ELSE records[d]]
    /\ slots' = [k \in Slot |-> Free]
    /\ nextSlot' = 0
    /\ entries' = 0 /\ snapshotBytes' = 0 /\ outputCodeUnits' = 0
    /\ UNCHANGED <<probing, evictions>>
    /\ Decodes(c)

\* Common to every call that goes on to look at the record of c.
Observes(c) ==
    /\ tracking /\ ~capacityBypassed
    /\ CountWith(c) <= MaxEntries
    /\ observed' = IF Unseen(c) THEN observed \union {c} ELSE observed
    /\ observedCount' = CountWith(c)
    /\ UNCHANGED <<probing, capacityBypassed>>

Record(c) == IF c \in Eligible THEN records[c].state ELSE "none"

\* Mutant: the identity of the array is enough.
HitByIdentity(c) ==
    /\ Observes(c)
    /\ Record(c) = "stored"
    /\ Returns(c, TextOf(records[c].slot))
    /\ UNCHANGED cache

\* sameContents: the record answers.
Hit(c) ==
    /\ Observes(c)
    /\ Record(c) = "stored"
    /\ Given(c) \in slots[records[c].slot].snapshot
    /\ Returns(c, TextOf(records[c].slot))
    /\ UNCHANGED cache

\* The array was written to, or comes for the second time: store what it decodes to.
Remember(c) ==
    /\ Observes(c)
    /\ \/ Record(c) = "stored" /\ Given(c) \notin slots[records[c].slot].snapshot
       \/ Record(c) = "pending"
    /\ Decodable(Given(c))
    /\ Decodes(c)
    /\ Store(c)

\* prime: it comes for the first time.
Prime(c) ==
    /\ Observes(c)
    /\ c \in Eligible /\ Record(c) = "none"
    /\ Decodable(Given(c))
    /\ Decodes(c)
    /\ records' = [records EXCEPT ![c] = IF Short(Given(c)) /\ Sized(Given(c))
                                         THEN Pending ELSE Uncacheable]
    /\ UNCHANGED <<slots, nextSlot, accounts>>

\* A container of another kind goes to store(), which can take no snapshot of it.
Ineligible(c) ==
    /\ Observes(c)
    /\ c \notin Eligible
    /\ Decodable(Given(c))
    /\ Decodes(c)
    /\ Store(c)

Passes(c) ==
    /\ Observes(c)
    /\ \/ Record(c) = "uncacheable"
       \/ /\ ~Decodable(Given(c))
          /\ Record(c) = "stored" => Given(c) \notin slots[records[c].slot].snapshot
    /\ Decodes(c)
    /\ UNCHANGED cache

Decode(c) ==
    \/ ProbeRepeated(c) \/ ProbeFirst(c) \/ ProbeThrows(c)
    \/ Bypassed(c) \/ Overflows(c)
    \/ Hit(c) \/ Remember(c) \/ Prime(c) \/ Ineligible(c) \/ Passes(c)

(***************************************************************************)
(* The client and the garbage collector                                    *)
(***************************************************************************)
Write(c) ==
    /\ \E v \in Contents : v # content[c] /\ content' = [content EXCEPT ![c] = v]
    /\ UNCHANGED <<result, probing, watching, cache>>

\* c is collected: the WeakMap and the WeakSet forget it, a slot's WeakRef is empty, what
\* was counted stays.  The probes hold their containers.
Collect(c) ==
    /\ \A k \in DOMAIN probes : probes[k] # c
    /\ c \in observed \/ records[c] # None
    /\ records' = [records EXCEPT ![c] = None]
    /\ observed' = observed \ {c}
    /\ slots' = [k \in Slot |-> [slots[k] EXCEPT !.key = @ \ {c}]]
    /\ UNCHANGED <<client, probing, observedCount, capacityBypassed, nextSlot, accounts>>

(***************************************************************************)
(* Specification                                                           *)
(***************************************************************************)
Init ==
    /\ content \in [Container -> Contents]
    /\ \E i \in Ids : result = [given |-> i, text |-> Canonical(i)]
    /\ tracking = FALSE
    /\ probes = <<>>
    /\ observed = {}
    /\ observedCount = 0
    /\ capacityBypassed = FALSE
    /\ records = [c \in Container |-> None]
    /\ slots = [k \in Slot |-> Free]
    /\ nextSlot = 0
    /\ entries = 0 /\ snapshotBytes = 0 /\ outputCodeUnits = 0 /\ evictions = 0

Next == \E c \in Container : Decode(c) \/ Write(c) \/ Collect(c)

Spec == Init /\ [][Next]_vars

(***************************************************************************)
(* Properties                                                              *)
(***************************************************************************)
RecordType == {None, Pending, Uncacheable} \union {Stored(k) : k \in Slot}
SlotType   == {Free} \union [used : {TRUE}, key : SUBSET Container,
                            snapshot : {{i} : i \in Ids}, output : {{Canonical(i)} : i \in Ids}]

TypeOK ==
    /\ content \in [Container -> Contents]
    /\ result.given \in Ids
    /\ tracking \in BOOLEAN /\ capacityBypassed \in BOOLEAN
    /\ probes \in Seq(Container) /\ Len(probes) <= ProbeEntries
    /\ observed \subseteq Container
    /\ observedCount \in 0 .. MaxEntries + 1
    /\ records \in [Container -> RecordType]
    /\ slots \in [Slot -> SlotType]
    /\ nextSlot \in Slot
    /\ entries \in 0 .. MaxEntries
    /\ evictions \in Nat

\* The memo is transparent: a call returns what the decoder makes of the ids the array
\* holds at that moment, however it was written to, replaced by another array at the same
\* place, or memoized before.
Transparent == result.text = Canonical(result.given)

\* The displacement in store() never happens: a container costs its slot when it is first
\* seen, and the one too many empties the memo instead (bypassCapacity).
NeverEvicts == evictions = 0

\* What stats() reports is what the slots hold, also of arrays that were collected or
\* turned out uncacheable after they had been stored.
AccountsExact ==
    /\ entries = Cardinality(Occupied)
    /\ snapshotBytes = SumFunction([k \in Occupied |-> Bytes(IdsOf(k))])
    /\ outputCodeUnits = SumFunction([k \in Occupied |-> Units(TextOf(k))])

\* A record belongs to the array it was made for: no two arrays share one, and the slot of
\* a record names its array.
RecordsOwned ==
    \A c \in Container : records[c].state = "stored" =>
        slots[records[c].slot].used /\ slots[records[c].slot].key = {c}
=============================================================================
