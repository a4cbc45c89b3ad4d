--------------------------- MODULE DecodeMemoProofs ---------------------------
(***************************************************************************)
(* The decode memo cannot be told from the decoder, and never displaces a  *)
(* record, whatever its size, the arrays, their contents and the decoder.  *)
(***************************************************************************)
EXTENDS DecodeMemo, FiniteSetTheorems, WellFoundedInduction, TLAPS

(***************************************************************************)
(* The inductive invariant                                                 *)
(***************************************************************************)
\* The ring is filled from its start; it closes when it is full.
RingInv ==
    /\ \A k \in Slot : slots[k].used <=> k < entries
    /\ nextSlot = IF entries = MaxEntries THEN 0 ELSE entries
    /\ evictions = 0

\* A slot holds the ids it was filled for and what they decode to.
SlotInv ==
    \A k \in Slot : slots[k].used =>
        \E i \in Ids : slots[k].snapshot = {i} /\ slots[k].output = {Canonical(i)}

\* What store() keeps whichever way it goes.
CacheInv ==
    /\ records \in [Container -> RecordType]
    /\ slots \in [Slot -> SlotType]
    /\ nextSlot \in Slot
    /\ entries \in 0 .. MaxEntries
    /\ evictions \in Nat
    /\ RecordsOwned /\ RingInv /\ SlotInv

\* The rest of the types, and what the last call returned.
CallInv ==
    /\ content \in [Container -> Contents]
    /\ result.given \in Ids /\ Transparent
    /\ tracking \in BOOLEAN /\ capacityBypassed \in BOOLEAN
    /\ probes \in Seq(Container) /\ Len(probes) <= ProbeEntries
    /\ observed \subseteq Container
    /\ observedCount \in 0 .. MaxEntries + 1

ProbingInv ==
    ~tracking =>
        /\ entries = 0 /\ observed = {} /\ observedCount = 0
        /\ ~capacityBypassed
        /\ \A c \in Container : records[c].state \in {"none", "uncacheable"}

BypassInv ==
    capacityBypassed => entries = 0 /\ \A c \in Container : records[c].state # "stored"

\* The containers that were let in and may still take a slot.
Candidates == {c \in observed : records[c].state \in {"none", "pending"}}

\* Each of them has its slot: together with the slots in use they are not more than the
\* containers counted.
RoomInv ==
    tracking /\ ~capacityBypassed =>
        /\ \A c \in Container : records[c].state \in {"stored", "pending"} => c \in observed
        /\ entries + Cardinality(Candidates) <= observedCount
        /\ observedCount <= MaxEntries

IInv == CallInv /\ CacheInv /\ ProbingInv /\ BypassInv /\ RoomInv

(***************************************************************************)
(* Counting                                                                *)
(***************************************************************************)
LEMMA Counting ==
    ASSUME NEW S, IsFiniteSet(S), NEW T, NEW x
    PROVE  /\ Cardinality(S) \in Nat
           /\ T \subseteq S => IsFiniteSet(T) /\ Cardinality(T) <= Cardinality(S)
           /\ T \subseteq S \union {x} => Cardinality(T) <= Cardinality(S) + 1
           /\ T \subseteq S \ {x} /\ x \in S => Cardinality(T) + 1 <= Cardinality(S)
<1>1. Cardinality(S) \in Nat
  BY FS_CardinalityType
<1>2. T \subseteq S => IsFiniteSet(T) /\ Cardinality(T) <= Cardinality(S)
  BY FS_Subset
<1>3. ASSUME T \subseteq S \union {x} PROVE Cardinality(T) <= Cardinality(S) + 1
  <2>1. /\ IsFiniteSet(S \union {x})
        /\ Cardinality(S \union {x}) = IF x \in S THEN Cardinality(S) ELSE Cardinality(S) + 1
    BY FS_AddElement
  <2>2. IsFiniteSet(T) /\ Cardinality(T) <= Cardinality(S \union {x})
    BY <1>3, <2>1, FS_Subset
  <2>3. Cardinality(T) \in Nat
    BY <2>2, FS_CardinalityType
  <2> QED  BY <1>1, <2>1, <2>2, <2>3
<1>4. ASSUME T \subseteq S \ {x}, x \in S PROVE Cardinality(T) + 1 <= Cardinality(S)
  <2>1. IsFiniteSet(S \ {x}) /\ Cardinality(S \ {x}) = Cardinality(S) - 1
    BY <1>4, FS_RemoveElement
  <2>2. IsFiniteSet(T) /\ Cardinality(T) <= Cardinality(S \ {x})
    BY <1>4, <2>1, FS_Subset
  <2>3. Cardinality(T) \in Nat
    BY <2>2, FS_CardinalityType
  <2> QED  BY <1>1, <2>1, <2>2, <2>3
<1> QED  BY <1>1, <1>2, <1>3, <1>4

\* The containers that may still take a slot can be counted.
LEMMA CandidatesCounted ==
    ASSUME observed \subseteq Container
    PROVE  IsFiniteSet(Candidates) /\ Cardinality(Candidates) \in Nat
<1>1. Candidates \in SUBSET Container
  BY DEF Candidates
<1>2. IsFiniteSet(Candidates)
  BY <1>1, FS_Subset, ContainerAssumption
<1> QED  BY <1>2, FS_CardinalityType

\* A container that the memo stores while another one still may be has a slot of its own.
LEMMA RingCloses ==
    ASSUME NEW n \in Nat, n < MaxEntries
    PROVE  (n + 1) % MaxEntries = IF n + 1 = MaxEntries THEN 0 ELSE n + 1
  BY BoundAssumption

(***************************************************************************)
(* store()                                                                 *)
(***************************************************************************)
LEMMA GivenFacts ==
    ASSUME CallInv, NEW c \in Container
    PROVE  Given(c) \in Ids
  BY ContainerAssumption DEF CallInv, Given

\* What a record may be.
LEMMA RecordFacts ==
    /\ MaxEntries \in Nat \ {0}
    /\ None \in RecordType /\ Pending \in RecordType /\ Uncacheable \in RecordType
    /\ None.state = "none" /\ Pending.state = "pending" /\ Uncacheable.state = "uncacheable"
    /\ \A k \in Slot : Stored(k) \in RecordType /\ Stored(k).state = "stored" /\ Stored(k).slot = k
    /\ \A r \in RecordType : /\ r.state \in {"none", "pending", "uncacheable", "stored"}
                            /\ r.state = "stored" => r.slot \in Slot
<1>1. MaxEntries \in Nat \ {0}
  BY BoundAssumption
<1>2. None \in RecordType /\ Pending \in RecordType /\ Uncacheable \in RecordType
  BY DEF RecordType
<1>3. None.state = "none" /\ Pending.state = "pending" /\ Uncacheable.state = "uncacheable"
  BY DEF None, Pending, Uncacheable
<1>4. ASSUME NEW k \in Slot
      PROVE  Stored(k) \in RecordType /\ Stored(k).state = "stored" /\ Stored(k).slot = k
  BY DEF RecordType, Stored
<1>5. ASSUME NEW r \in RecordType
      PROVE  /\ r.state \in {"none", "pending", "uncacheable", "stored"}
             /\ r.state = "stored" => r.slot \in Slot
  BY <1>3, <1>4 DEF RecordType
<1> QED  BY <1>1, <1>2, <1>3, <1>4, <1>5

\* What a slot is that holds ids i.
LEMMA SlotFacts ==
    ASSUME NEW key \in SUBSET Container, NEW i \in Ids
    PROVE  /\ Holding(key, i) \in SlotType
           /\ Holding(key, i).used /\ Holding(key, i).key = key
           /\ Holding(key, i).snapshot = {i} /\ Holding(key, i).output = {Canonical(i)}
  BY DEF SlotType, Holding

\* A container that store() refuses keeps the records, the ring and the slots.
LEMMA RefuseKeeps ==
    ASSUME CacheInv, NEW c \in Container, Refuse(c)
    PROVE  /\ CacheInv'
           /\ records' = [records EXCEPT ![c] = Uncacheable]
           /\ UNCHANGED entries
<1>1. /\ records' = [records EXCEPT ![c] = Uncacheable]
      /\ UNCHANGED <<slots, nextSlot, entries, evictions>>
  BY DEF Refuse, accounts
<1>2. records' \in [Container -> RecordType]
  BY <1>1, RecordFacts DEF CacheInv
<1>3. RecordsOwned'
  BY <1>1, RecordFacts DEF CacheInv, RecordsOwned
<1>4. RingInv' /\ SlotInv'
  BY <1>1 DEF CacheInv, RingInv, SlotInv
<1> QED  BY <1>1, <1>2, <1>3, <1>4 DEF CacheInv

\* A slot written anew for the container it belongs to keeps the cache.
LEMMA ReplaceKeeps ==
    ASSUME CacheInv, CallInv, NEW c \in Container, Replace(c)
    PROVE  CacheInv' /\ UNCHANGED <<records, entries>>
<1> DEFINE k == records[c].slot
           i == Given(c)
<1>1. /\ records[c].state = "stored"
      /\ slots' = [slots EXCEPT ![k] = Holding(@.key, i)]
      /\ UNCHANGED <<records, nextSlot, entries, evictions>>
  BY DEF Replace
<1>2. records[c] \in RecordType
  BY DEF CacheInv
<1>3. k \in Slot /\ slots[k].used /\ slots[k].key = {c} /\ i \in Ids
  BY <1>1, <1>2, RecordFacts, GivenFacts DEF CacheInv, RecordsOwned
<1>4. /\ slots'[k] \in SlotType /\ slots'[k].used /\ slots'[k].key = {c}
      /\ slots'[k].snapshot = {i} /\ slots'[k].output = {Canonical(i)}
  <2>1. slots'[k] = Holding(slots[k].key, i)
    BY <1>1, <1>3, Zenon DEF CacheInv
  <2>2. PICK key \in SUBSET Container : key = {c}
    OBVIOUS
  <2>3. PICK j \in Ids : j = i
    BY <1>3
  <2>4. PICK held : held = Holding(key, j)
    OBVIOUS
  <2>5. /\ held \in SlotType /\ held.used /\ held.key = key
        /\ held.snapshot = {j} /\ held.output = {Canonical(j)}
    BY <2>4, SlotFacts
  <2>6. slots'[k] = held
    BY <1>3, <2>1, <2>2, <2>3, <2>4
  <2> QED
    BY <2>2, <2>3, <2>5, <2>6
<1>5. \A j \in Slot : j # k => slots'[j] = slots[j]
  BY <1>1 DEF CacheInv
<1>6. slots' \in [Slot -> SlotType]
  BY <1>1, <1>3, <1>4, SlotFacts DEF CacheInv
<1>7. RecordsOwned'
  <2> SUFFICES ASSUME NEW d \in Container, records[d].state = "stored"
               PROVE  slots'[records[d].slot].used /\ slots'[records[d].slot].key = {d}
    BY <1>1 DEF RecordsOwned
  <2>1. records[d].slot \in Slot
    BY RecordFacts DEF CacheInv
  <2>2. slots[records[d].slot].used /\ slots[records[d].slot].key = {d}
    BY DEF CacheInv, RecordsOwned
  <2> QED  BY <1>3, <1>4, <1>5, <2>1, <2>2
<1>8. RingInv'
  BY <1>1, <1>3, <1>4, <1>5 DEF CacheInv, RingInv
<1>9. SlotInv'
  <2> SUFFICES ASSUME NEW j \in Slot, slots'[j].used
               PROVE  \E m \in Ids : slots'[j].snapshot = {m} /\ slots'[j].output = {Canonical(m)}
    BY DEF SlotInv
  <2>1. CASE j = k
    BY <1>3, <1>4, <2>1
  <2>2. CASE j # k
    BY <1>5, <2>2 DEF CacheInv, SlotInv
  <2> QED  BY <2>1, <2>2
<1> QED  BY <1>1, <1>6, <1>7, <1>8, <1>9 DEF CacheInv

\* A container that takes the next slot is counted, and its record names that slot.
LEMMA InsertKeeps ==
    ASSUME CacheInv, CallInv, NEW c \in Container, Insert(c), entries < MaxEntries
    PROVE  /\ CacheInv'
           /\ records' = [records EXCEPT ![c] = Stored(nextSlot)]
           /\ entries' = entries + 1
<1> DEFINE k == nextSlot
           i == Given(c)
<1>1. k \in Slot /\ k = entries /\ ~slots[k].used /\ i \in Ids
  BY GivenFacts, RecordFacts DEF CacheInv, RingInv, Slot
<1>2. Forgotten(k) = records
  BY <1>1 DEF Forgotten, CacheInv
<1>3. /\ slots' = [slots EXCEPT ![k] = Holding({c}, i)]
      /\ records' = [records EXCEPT ![c] = Stored(k)]
      /\ entries' = entries + 1
      /\ evictions' = evictions
      /\ nextSlot' = (nextSlot + 1) % MaxEntries
  BY <1>1, <1>2 DEF Insert
<1>4. nextSlot' = IF entries' = MaxEntries THEN 0 ELSE entries'
  BY <1>1, <1>3, RingCloses DEF CacheInv
<1>5. records' \in [Container -> RecordType]
  BY <1>1, <1>3, RecordFacts DEF CacheInv
<1>6. slots' \in [Slot -> SlotType]
  BY <1>1, <1>3 DEF CacheInv, SlotType, Holding
<1>7. nextSlot' \in Slot /\ entries' \in 0 .. MaxEntries /\ evictions' \in Nat
  BY <1>1, <1>3, <1>4, RecordFacts DEF CacheInv, Slot
<1>8. RecordsOwned'
  <2> SUFFICES ASSUME NEW d \in Container, records'[d].state = "stored"
               PROVE  slots'[records'[d].slot].used /\ slots'[records'[d].slot].key = {d}
    BY DEF RecordsOwned
  <2>1. CASE d = c
    BY <2>1, <1>1, <1>3, RecordFacts DEF CacheInv, Holding
  <2>2. CASE d # c
    BY <2>2, <1>1, <1>3, RecordFacts DEF CacheInv, RecordsOwned
  <2> QED  BY <2>1, <2>2
<1>9. \A j \in Slot : slots'[j].used <=> j < entries'
  BY <1>1, <1>3, RecordFacts DEF CacheInv, RingInv, Holding, Slot
<1>10. SlotInv'
  BY <1>1, <1>3 DEF CacheInv, SlotInv, Holding
<1> QED  BY <1>3, <1>4, <1>5, <1>6, <1>7, <1>8, <1>9, <1>10 DEF CacheInv, RingInv

(***************************************************************************)
(* The parts of a call                                                     *)
(***************************************************************************)
LEMMA DecodesKeeps ==
    ASSUME CallInv, NEW c \in Container, Decodes(c)
    PROVE  content' = content /\ result'.given \in Ids /\ Transparent'
  BY GivenFacts DEF Decodes, Returns, Transparent

\* A call that goes on to look at the record of c has let c in, at the price of one.
LEMMA ObservesFacts ==
    ASSUME IInv, NEW c \in Container, Observes(c)
    PROVE  /\ tracking /\ ~capacityBypassed
           /\ UNCHANGED <<tracking, probes, capacityBypassed>>
           /\ observed' \subseteq Container
           /\ observedCount' \in 0 .. MaxEntries
           /\ c \in Eligible => c \in observed'
           /\ \/ observed' = observed /\ observedCount' = observedCount
              \/ /\ c \notin observed /\ observed' = observed \union {c}
                 /\ observedCount' = observedCount + 1
  BY BoundAssumption DEF IInv, CallInv, RoomInv, Observes, Unseen, CountWith, probing

\* The slots suffice after such a call if it uses none, and only a candidate or a new
\* container may be a candidate afterwards.
LEMMA RoomKept ==
    ASSUME IInv, NEW c \in Container, Observes(c), entries' = entries,
           records' \in [Container -> RecordType],
           \A d \in Container : d # c => records'[d] = records[d],
           records'[c].state \in {"stored", "pending"} => c \in observed',
           records'[c].state \in {"none", "pending"} =>
               c \notin observed \/ records[c].state \in {"none", "pending"}
    PROVE  RoomInv'
<1>1. /\ \A d \in Container : records[d].state \in {"stored", "pending"} => d \in observed
      /\ entries + Cardinality(Candidates) <= observedCount
      /\ observed \subseteq Container /\ observed' \subseteq Container
      /\ entries \in Nat /\ observedCount \in Nat
  BY ObservesFacts, BoundAssumption DEF IInv, RoomInv, CallInv, CacheInv
<1>2. IsFiniteSet(Candidates) /\ Cardinality(Candidates) \in Nat
  BY <1>1, CandidatesCounted
<1>3. \A d \in Container : records'[d].state \in {"stored", "pending"} => d \in observed'
  BY <1>1, ObservesFacts
<1>4. entries' + Cardinality(Candidates') <= observedCount'
  <2>1. CASE observed' = observed /\ observedCount' = observedCount
    <3>1. Candidates' \subseteq Candidates
      BY <2>1, <1>1 DEF Candidates
    <3>2. Cardinality(Candidates') <= Cardinality(Candidates) /\ IsFiniteSet(Candidates')
      BY <3>1, <1>2, Counting
    <3>3. Cardinality(Candidates') \in Nat
      BY <3>2, FS_CardinalityType
    <3> QED  BY <1>1, <1>2, <2>1, <3>2, <3>3
  <2>2. CASE observed' = observed \union {c} /\ observedCount' = observedCount + 1
    <3>1. Candidates' \subseteq Candidates \union {c}
      BY <2>2, <1>1 DEF Candidates
    <3>2. Cardinality(Candidates') <= Cardinality(Candidates) + 1
      BY <3>1, <1>2, Counting
    <3>3. IsFiniteSet(Candidates \union {c})
      BY <1>2, FS_AddElement
    <3>4. IsFiniteSet(Candidates')
      BY <3>1, <3>3, FS_Subset
    <3>5. Cardinality(Candidates') \in Nat
      BY <3>4, FS_CardinalityType
    <3> QED  BY <1>1, <1>2, <2>2, <3>2, <3>5
  <2> QED  BY <2>1, <2>2, ObservesFacts
<1>5. observedCount' <= MaxEntries
  BY ObservesFacts, BoundAssumption
<1> QED  BY <1>3, <1>4, <1>5 DEF RoomInv

\* The part of the invariant that every such call keeps.
LEMMA ObservesKeeps ==
    ASSUME IInv, NEW c \in Container, Observes(c),
           content' = content, result'.given \in Ids, Transparent',
           CacheInv', RoomInv'
    PROVE  IInv'
<1>1. CallInv'
  BY ObservesFacts, BoundAssumption DEF IInv, CallInv
<1>2. ProbingInv' /\ BypassInv'
  BY ObservesFacts DEF ProbingInv, BypassInv
<1> QED  BY <1>1, <1>2 DEF IInv

(***************************************************************************)
(* Calls while tracking                                                    *)
(***************************************************************************)
\* The three ways of store() when the container has been let in.
LEMMA StoreKeepsRoom ==
    ASSUME IInv, NEW c \in Container, Observes(c), Store(c),
           c \in observed \/ c \notin Eligible,
           c \in Eligible => records[c].state \in {"stored", "pending"}
    PROVE  CacheInv' /\ RoomInv'
<1>1. CacheInv /\ CallInv /\ RoomInv /\ records \in [Container -> RecordType]
  BY DEF IInv, CacheInv
<1>2. CASE Refuse(c)
  <2>1. CacheInv' /\ records' = [records EXCEPT ![c] = Uncacheable] /\ entries' = entries
    BY <1>1, <1>2, RefuseKeeps
  <2>2. RoomInv'
    BY <1>1, <2>1, RoomKept, RecordFacts DEF CacheInv
  <2> QED  BY <2>1, <2>2
<1>3. CASE Replace(c)
  <2>1. CacheInv' /\ records' = records /\ entries' = entries
    BY <1>1, <1>3, ReplaceKeeps
  <2>2. records[c].state = "stored"
    BY <1>3 DEF Replace
  <2>3. c \in observed /\ c \in observed'
    BY <1>1, <2>2, ObservesFacts DEF RoomInv
  <2>4. RoomInv'
    BY <1>1, <2>1, <2>2, <2>3, RoomKept DEF CacheInv
  <2> QED  BY <2>1, <2>4
<1>4. CASE Insert(c)
  <2>1. records[c].state # "stored" /\ c \in Eligible
    BY <1>4 DEF Insert, Snapshots
  <2>2. records[c].state = "pending" /\ c \in observed
    BY <2>1
  <2>3. observed' = observed /\ observedCount' = observedCount
    BY <2>2, ObservesFacts
  <2>4. c \in Candidates
    BY <2>2 DEF Candidates
  <2>5. IsFiniteSet(Candidates) /\ Cardinality(Candidates) \in Nat
    BY <1>1, CandidatesCounted DEF CallInv
  <2>6. /\ entries + Cardinality(Candidates) <= observedCount /\ observedCount <= MaxEntries
        /\ \A d \in Container : records[d].state \in {"stored", "pending"} => d \in observed
    BY <1>1, ObservesFacts DEF RoomInv
  <2>7. entries \in Nat /\ observedCount \in Nat /\ MaxEntries \in Nat
    BY <1>1, BoundAssumption DEF CallInv, CacheInv
  <2>8. Cardinality(Candidates) # 0
    BY <2>4, <2>5, FS_EmptySet
  <2>9. entries < MaxEntries
    BY <2>5, <2>6, <2>7, <2>8
  <2>10. /\ CacheInv' /\ entries' = entries + 1
         /\ records' = [records EXCEPT ![c] = Stored(nextSlot)]
    BY <1>1, <1>4, <2>9, InsertKeeps
  <2>11. records'[c].state = "stored" /\ \A d \in Container : d # c => records'[d] = records[d]
    BY <1>1, <2>10, RecordFacts DEF CacheInv
  <2>12. Candidates' \subseteq Candidates \ {c}
    BY <1>1, <2>3, <2>11 DEF Candidates, CallInv
  <2>13. Cardinality(Candidates') + 1 <= Cardinality(Candidates)
    BY <2>4, <2>5, <2>12, Counting
  <2>14. Cardinality(Candidates') \in Nat
    BY <2>5, <2>12, Counting, FS_Subset, FS_CardinalityType
  <2>15. entries' + Cardinality(Candidates') <= observedCount'
    BY <2>3, <2>5, <2>6, <2>7, <2>10, <2>13, <2>14
  <2> QED  BY <2>2, <2>3, <2>6, <2>10, <2>11, <2>15 DEF RoomInv
<1> QED  BY <1>2, <1>3, <1>4 DEF Store

\* A decode that finds its slot keeps the invariant.
LEMMA HitKeeps ==
    ASSUME IInv, NEW c \in Container, Hit(c)
    PROVE  IInv'
<1> DEFINE k == records[c].slot
<1>1. /\ Observes(c) /\ Record(c) = "stored" /\ Given(c) \in slots[k].snapshot
      /\ Returns(c, TextOf(k)) /\ UNCHANGED <<records, slots, nextSlot, entries, evictions>>
  BY DEF Hit, cache, accounts
<1>2. records[c].state = "stored" /\ k \in Slot /\ slots[k].used
  BY <1>1, RecordFacts DEF Record, IInv, CacheInv, RecordsOwned
<1>3. PICK i \in Ids : slots[k].snapshot = {i} /\ slots[k].output = {Canonical(i)}
  BY <1>2 DEF IInv, CacheInv, SlotInv
<1>4. Given(c) = i /\ TextOf(k) = Canonical(i)
  BY <1>1, <1>3 DEF TextOf
<1>5. content' = content /\ result'.given \in Ids /\ Transparent'
  BY <1>1, <1>4 DEF Returns, Transparent
<1>6. CacheInv'
  BY <1>1 DEF IInv, CacheInv, RecordsOwned, RingInv, SlotInv
<1>7. c \in observed /\ c \in observed'
  BY <1>1, <1>2, ObservesFacts DEF IInv, RoomInv
<1>8. RoomInv'
  BY <1>1, <1>2, <1>7, RoomKept DEF IInv, CacheInv
<1> QED  BY <1>1, <1>5, <1>6, <1>8, ObservesKeeps

\* A container that comes for the second time, or was written to, is stored.
LEMMA RememberKeeps ==
    ASSUME IInv, NEW c \in Container, Remember(c)
    PROVE  IInv'
<1>1. /\ Observes(c) /\ Decodes(c) /\ Store(c)
      /\ Record(c) \in {"stored", "pending"}
  BY DEF Remember
<1>2. records[c].state \in {"stored", "pending"} /\ c \in Eligible
  BY <1>1 DEF Record
<1>3. c \in observed
  BY <1>1, <1>2, ObservesFacts DEF IInv, RoomInv
<1>4. CacheInv' /\ RoomInv'
  BY <1>1, <1>2, <1>3, StoreKeepsRoom
<1>5. content' = content /\ result'.given \in Ids /\ Transparent'
  BY <1>1, DecodesKeeps DEF IInv
<1> QED  BY <1>1, <1>4, <1>5, ObservesKeeps

\* A container of another kind, which store() refuses, keeps the invariant.
LEMMA IneligibleKeeps ==
    ASSUME IInv, NEW c \in Container, Ineligible(c)
    PROVE  IInv'
<1>1. Observes(c) /\ Decodes(c) /\ Store(c) /\ c \notin Eligible
  BY DEF Ineligible
<1>2. CacheInv' /\ RoomInv'
  BY <1>1, StoreKeepsRoom
<1>3. content' = content /\ result'.given \in Ids /\ Transparent'
  BY <1>1, DecodesKeeps DEF IInv
<1> QED  BY <1>1, <1>2, <1>3, ObservesKeeps

\* A container that comes for the first time becomes pending or uncacheable.
LEMMA PrimeKeeps ==
    ASSUME IInv, NEW c \in Container, Prime(c)
    PROVE  IInv'
<1>1. /\ Observes(c) /\ Decodes(c) /\ c \in Eligible /\ records[c].state = "none"
      /\ UNCHANGED <<slots, nextSlot, entries, evictions>>
  BY DEF Prime, Record, accounts
<1>2. PICK r \in {Pending, Uncacheable} : records' = [records EXCEPT ![c] = r]
  BY DEF Prime
<1>3. /\ r \in RecordType /\ r.state \in {"pending", "uncacheable"}
      /\ records \in [Container -> RecordType]
  BY <1>2, RecordFacts DEF IInv, CacheInv
<1>4. records' \in [Container -> RecordType] /\ RecordsOwned'
  BY <1>1, <1>2, <1>3 DEF IInv, CacheInv, RecordsOwned
<1>5. CacheInv'
  BY <1>1, <1>4 DEF IInv, CacheInv, RingInv, SlotInv
<1>6. c \in observed'
  BY <1>1, ObservesFacts
<1>7. RoomInv'
  BY <1>1, <1>2, <1>3, <1>4, <1>6, RoomKept
<1>8. content' = content /\ result'.given \in Ids /\ Transparent'
  BY <1>1, DecodesKeeps DEF IInv
<1> QED  BY <1>1, <1>5, <1>7, <1>8, ObservesKeeps

\* A decode of an uncacheable container, or one that throws, keeps the invariant.
LEMMA PassesKeeps ==
    ASSUME IInv, NEW c \in Container, Passes(c)
    PROVE  IInv'
<1>1. /\ Observes(c) /\ Decodes(c) /\ UNCHANGED <<records, slots, nextSlot, entries, evictions>>
  BY DEF Passes, cache, accounts
<1>2. CacheInv'
  BY <1>1 DEF IInv, CacheInv, RecordsOwned, RingInv, SlotInv
<1>3. /\ records[c].state \in {"stored", "pending"} => c \in observed'
      /\ records \in [Container -> RecordType]
      /\ records[c].state \in {"none", "pending"} \/ records[c].state \notin {"none", "pending"}
  BY <1>1, ObservesFacts DEF IInv, RoomInv, CacheInv
<1>4. RoomInv'
  BY <1>1, <1>3, RoomKept
<1>5. content' = content /\ result'.given \in Ids /\ Transparent'
  BY <1>1, DecodesKeeps DEF IInv
<1> QED  BY <1>1, <1>2, <1>4, <1>5, ObservesKeeps

\* The memo is emptied for good.
LEMMA OverflowsKeeps ==
    ASSUME IInv, NEW c \in Container, Overflows(c)
    PROVE  IInv'
<1>1. /\ tracking /\ Decodes(c) /\ CountWith(c) > MaxEntries
      /\ observed' = observed \union {c} /\ observedCount' = CountWith(c)
      /\ capacityBypassed' = TRUE /\ UNCHANGED <<tracking, probes, evictions>>
      /\ records' = [d \in Container |->
                       IF records[d].state = "stored" THEN None ELSE records[d]]
      /\ slots' = [k \in Slot |-> Free] /\ nextSlot' = 0 /\ entries' = 0
  BY DEF Overflows, probing
<1>2. /\ records \in [Container -> RecordType] /\ MaxEntries \in Nat \ {0}
      /\ observedCount \in 0 .. MaxEntries /\ evictions = 0
  BY <1>1, BoundAssumption DEF IInv, CallInv, CacheInv, RingInv, RoomInv, Overflows
<1>3. observedCount' \in 0 .. MaxEntries + 1
  BY <1>1, <1>2 DEF CountWith
<1>4. content' = content /\ result'.given \in Ids /\ Transparent'
  BY <1>1, DecodesKeeps DEF IInv
<1>5. CallInv'
  BY <1>1, <1>3, <1>4 DEF IInv, CallInv
<1>6. \A d \in Container : records'[d] \in RecordType /\ records'[d].state # "stored"
  BY <1>1, <1>2, RecordFacts
<1>7. \A k \in Slot : slots'[k] = Free /\ ~slots'[k].used
  BY <1>1 DEF Free
<1>8. records' \in [Container -> RecordType] /\ slots' \in [Slot -> SlotType]
  BY <1>1, <1>6, <1>7 DEF SlotType
<1>9. RecordsOwned' /\ SlotInv'
  BY <1>6, <1>7 DEF RecordsOwned, SlotInv
<1>10. RingInv' /\ nextSlot' \in Slot /\ entries' \in 0 .. MaxEntries /\ evictions' \in Nat
  BY <1>1, <1>2, <1>7, SMTT(30) DEF RingInv, Slot
<1>11. CacheInv'
  BY <1>8, <1>9, <1>10 DEF CacheInv
<1>12. ProbingInv' /\ BypassInv' /\ RoomInv'
  BY <1>1, <1>6 DEF ProbingInv, BypassInv, RoomInv
<1> QED  BY <1>5, <1>11, <1>12 DEF IInv

\* What a call keeps that leaves the memo alone, or only takes down the container.
LEMMA StandsStill ==
    ASSUME IInv, NEW c \in Container, Decodes(c),
           UNCHANGED <<tracking, watching, cache>>,
           probes' \in Seq(Container), Len(probes') <= ProbeEntries
    PROVE  IInv'
<1>1. UNCHANGED <<tracking, observed, observedCount, capacityBypassed, records, slots,
                  nextSlot, entries, evictions>>
  BY DEF watching, cache, accounts
<1>2. content' = content /\ result'.given \in Ids /\ Transparent'
  BY DecodesKeeps DEF IInv
<1>3. CallInv'
  BY <1>1, <1>2 DEF IInv, CallInv
<1>4. CacheInv'
  BY <1>1 DEF IInv, CacheInv, RecordsOwned, RingInv, SlotInv
<1>5. ProbingInv' /\ BypassInv' /\ RoomInv'
  BY <1>1 DEF IInv, ProbingInv, BypassInv, RoomInv, Candidates
<1> QED  BY <1>3, <1>4, <1>5 DEF IInv

\* A decode after the memo was given up keeps the invariant.
LEMMA BypassedKeeps ==
    ASSUME IInv, NEW c \in Container, Bypassed(c)
    PROVE  IInv'
<1>1. Decodes(c) /\ UNCHANGED <<tracking, probes, watching, cache>>
  BY DEF Bypassed, probing
<1>2. probes \in Seq(Container) /\ Len(probes) <= ProbeEntries
  BY DEF IInv, CallInv
<1> QED  BY <1>1, <1>2, StandsStill

(***************************************************************************)
(* Calls before tracking                                                   *)
(***************************************************************************)
LEMMA ProbeThrowsKeeps ==
    ASSUME IInv, NEW c \in Container, ProbeThrows(c)
    PROVE  IInv'
<1>1. Decodes(c) /\ UNCHANGED <<tracking, probes, watching, cache>>
  BY DEF ProbeThrows, probing
<1>2. probes \in Seq(Container) /\ Len(probes) <= ProbeEntries
  BY DEF IInv, CallInv
<1> QED  BY <1>1, <1>2, StandsStill

\* The first decodes, which only watch for a container to return, keep the invariant.
LEMMA ProbeFirstKeeps ==
    ASSUME IInv, NEW c \in Container, ProbeFirst(c)
    PROVE  IInv'
<1>1. /\ Decodes(c) /\ UNCHANGED <<tracking, watching, cache>>
      /\ \/ probes' = probes
         \/ probes' = Append(probes, c) /\ Len(probes) < ProbeEntries
  BY DEF ProbeFirst
<1>2. probes \in Seq(Container) /\ Len(probes) <= ProbeEntries /\ ProbeEntries \in Nat
  BY BoundAssumption DEF IInv, CallInv
<1>3. probes' \in Seq(Container) /\ Len(probes') <= ProbeEntries
  BY <1>1, <1>2
<1> QED  BY <1>1, <1>3, StandsStill

\* The first container that is stored: nothing was, so there is a slot.
LEMMA ProbeRepeatedKeeps ==
    ASSUME IInv, NEW c \in Container, ProbeRepeated(c)
    PROVE  IInv'
<1>1. /\ ~tracking /\ Decodes(c) /\ Store(c) /\ probes' = <<>>
      /\ IF Short(Given(c)) /\ Snapshots(c)
         THEN /\ tracking' = TRUE /\ observed' = {c} /\ observedCount' = 1
              /\ UNCHANGED capacityBypassed
         ELSE UNCHANGED <<tracking, observed, observedCount, capacityBypassed>>
  BY DEF ProbeRepeated, watching
<1>2. /\ entries = 0 /\ observed = {} /\ observedCount = 0 /\ ~capacityBypassed
      /\ \A d \in Container : records[d].state \in {"none", "uncacheable"}
      /\ records \in [Container -> RecordType]
      /\ MaxEntries \in Nat \ {0} /\ ProbeEntries \in Nat
  BY <1>1, BoundAssumption DEF IInv, ProbingInv, CacheInv
<1>3. content' = content /\ result'.given \in Ids /\ Transparent'
  BY <1>1, DecodesKeeps DEF IInv
<1>4. probes' \in Seq(Container) /\ Len(probes') <= ProbeEntries
  BY <1>1, <1>2
<1>5. CASE Refuse(c)
  <2>1. /\ CacheInv' /\ records' = [records EXCEPT ![c] = Uncacheable] /\ entries' = entries
    BY <1>5, RefuseKeeps DEF IInv
  <2>2. ~(Short(Given(c)) /\ Snapshots(c))
    BY <1>5 DEF Refuse
  <2>3. UNCHANGED <<tracking, observed, observedCount, capacityBypassed>>
    BY <1>1, <2>2
  <2>4. CallInv'
    BY <1>3, <1>4, <2>3 DEF IInv, CallInv
  <2>5. \A d \in Container : records'[d].state \in {"none", "uncacheable"}
    BY <1>2, <2>1, RecordFacts
  <2>6. ProbingInv' /\ BypassInv' /\ RoomInv'
    BY <1>1, <1>2, <2>1, <2>3, <2>5 DEF ProbingInv, BypassInv, RoomInv
  <2> QED  BY <2>1, <2>4, <2>6 DEF IInv
<1>6. CASE Replace(c)
  BY <1>2, <1>6 DEF Replace
<1>7. CASE Insert(c)
  <2>1. Short(Given(c)) /\ Snapshots(c)
    BY <1>7 DEF Insert
  <2>2. /\ tracking' = TRUE /\ observed' = {c} /\ observedCount' = 1
        /\ capacityBypassed' = FALSE
    BY <1>1, <1>2, <2>1 DEF IInv, CallInv
  <2>3. CacheInv' /\ records' = [records EXCEPT ![c] = Stored(nextSlot)] /\ entries' = 1
    BY <1>2, <1>7, InsertKeeps DEF IInv
  <2>4. nextSlot \in Slot
    BY DEF IInv, CacheInv
  <2>5. /\ records'[c].state = "stored"
        /\ \A d \in Container : d # c => records'[d] = records[d]
    BY <1>2, <2>3, <2>4, RecordFacts
  <2>6. Candidates' = {}
    BY <2>2, <2>5 DEF Candidates
  <2>7. Cardinality(Candidates') = 0
    BY <2>6, FS_EmptySet
  <2>8. \A d \in Container : records'[d].state \in {"stored", "pending"} => d \in observed'
    BY <1>2, <2>2, <2>5
  <2>9. /\ tracking' \in BOOLEAN /\ capacityBypassed' \in BOOLEAN
        /\ observed' \subseteq Container /\ observedCount' \in 0 .. MaxEntries + 1
    <3>1. tracking' \in BOOLEAN /\ capacityBypassed' \in BOOLEAN
      BY <2>2
    <3>2. observed' \subseteq Container /\ observedCount' \in 0 .. MaxEntries + 1
      BY <1>2, <2>2
    <3> QED  BY <3>1, <3>2
  <2>10. CallInv'
    BY <1>3, <1>4, <2>9 DEF IInv, CallInv
  <2>11. ProbingInv' /\ BypassInv' /\ RoomInv'
    BY <1>2, <2>2, <2>3, <2>7, <2>8 DEF ProbingInv, BypassInv, RoomInv
  <2> QED  BY <2>3, <2>10, <2>11 DEF IInv
<1> QED  BY <1>1, <1>5, <1>6, <1>7 DEF Store

(***************************************************************************)
(* The client and the garbage collector                                    *)
(***************************************************************************)
LEMMA WriteKeeps ==
    ASSUME IInv, NEW c \in Container, Write(c)
    PROVE  IInv'
<1>1. /\ content' \in [Container -> Contents]
      /\ UNCHANGED <<result, tracking, probes, observed, observedCount, capacityBypassed,
                     records, slots, nextSlot, entries, evictions>>
  BY DEF Write, IInv, CallInv, probing, watching, cache, accounts
<1>2. CallInv'
  BY <1>1 DEF IInv, CallInv, Transparent
<1>3. CacheInv'
  BY <1>1 DEF IInv, CacheInv, RecordsOwned, RingInv, SlotInv
<1>4. ProbingInv' /\ BypassInv' /\ RoomInv'
  BY <1>1 DEF IInv, ProbingInv, BypassInv, RoomInv, Candidates
<1> QED  BY <1>2, <1>3, <1>4 DEF IInv

\* A slot that no longer names an array.
LEMMA KeyDropped ==
    ASSUME NEW s \in SlotType, NEW D
    PROVE  /\ [s EXCEPT !.key = @ \ D] \in SlotType
           /\ [s EXCEPT !.key = @ \ D].used = s.used
           /\ [s EXCEPT !.key = @ \ D].key = s.key \ D
           /\ [s EXCEPT !.key = @ \ D].snapshot = s.snapshot
           /\ [s EXCEPT !.key = @ \ D].output = s.output
<1>1. CASE s = Free
  <2>1. [s EXCEPT !.key = @ \ D] =
          [used |-> FALSE, key |-> {} \ D, snapshot |-> {}, output |-> {}]
    BY <1>1 DEF Free
  <2>2. {} \ D = {}
    OBVIOUS
  <2>3. [s EXCEPT !.key = @ \ D] = Free
    BY <2>1, <2>2 DEF Free
  <2> QED  BY <1>1, <2>3 DEF SlotType, Free
<1>2. CASE s # Free
  <2>1. s \in [used : {TRUE}, key : SUBSET Container,
               snapshot : {{i} : i \in Ids}, output : {{Canonical(i)} : i \in Ids}]
    BY <1>2 DEF SlotType
  <2>2. [s EXCEPT !.key = @ \ D] \in
              [used : {TRUE}, key : SUBSET Container,
               snapshot : {{i} : i \in Ids}, output : {{Canonical(i)} : i \in Ids}]
    BY <2>1
  <2> QED  BY <2>1, <2>2 DEF SlotType
<1> QED  BY <1>1, <1>2

\* A garbage collection takes a container's record and leaves its slot.
LEMMA CollectKeeps ==
    ASSUME IInv, NEW c \in Container, Collect(c)
    PROVE  IInv'
<1>1. /\ records' = [records EXCEPT ![c] = None] /\ observed' = observed \ {c}
      /\ slots' = [k \in Slot |-> [slots[k] EXCEPT !.key = @ \ {c}]]
      /\ UNCHANGED <<content, result, tracking, probes, observedCount, capacityBypassed,
                     nextSlot, entries, evictions>>
  BY DEF Collect, client, probing, accounts
<1>2. records \in [Container -> RecordType] /\ slots \in [Slot -> SlotType]
  BY DEF IInv, CacheInv
<1>3. \A k \in Slot : /\ slots'[k] \in SlotType /\ slots'[k].used = slots[k].used
                      /\ slots'[k].key = slots[k].key \ {c}
                      /\ slots'[k].snapshot = slots[k].snapshot
                      /\ slots'[k].output = slots[k].output
  <2> SUFFICES ASSUME NEW k \in Slot
               PROVE  /\ slots'[k] \in SlotType /\ slots'[k].used = slots[k].used
                      /\ slots'[k].key = slots[k].key \ {c}
                      /\ slots'[k].snapshot = slots[k].snapshot
                      /\ slots'[k].output = slots[k].output
    OBVIOUS
  <2>1. slots[k] \in SlotType
    BY <1>2
  <2> DEFINE s == slots[k]
  <2>2. slots'[k] = [s EXCEPT !.key = @ \ {c}]
    BY <1>1
  <2>3. s \in SlotType
    BY <2>1
  <2> HIDE DEF s
  <2>4. /\ [s EXCEPT !.key = @ \ {c}] \in SlotType
        /\ [s EXCEPT !.key = @ \ {c}].used = s.used
        /\ [s EXCEPT !.key = @ \ {c}].key = s.key \ {c}
        /\ [s EXCEPT !.key = @ \ {c}].snapshot = s.snapshot
        /\ [s EXCEPT !.key = @ \ {c}].output = s.output
    BY <2>3, KeyDropped
  <2>5. /\ slots'[k] \in SlotType /\ slots'[k].used = s.used
        /\ slots'[k].key = s.key \ {c}
        /\ slots'[k].snapshot = s.snapshot
        /\ slots'[k].output = s.output
    BY <2>2, <2>4
  <2> QED  BY <2>5 DEF s
<1>4. slots' \in [Slot -> SlotType]
  BY <1>1, <1>3
<1>5. /\ records' \in [Container -> RecordType] /\ records'[c].state = "none"
      /\ \A d \in Container : d # c => records'[d] = records[d]
  BY <1>1, <1>2, RecordFacts
<1>6. RecordsOwned'
  <2> SUFFICES ASSUME NEW d \in Container, records'[d].state = "stored"
               PROVE  slots'[records'[d].slot].used /\ slots'[records'[d].slot].key = {d}
    BY DEF RecordsOwned
  <2>1. d # c /\ records'[d] = records[d] /\ records[d].state = "stored"
    BY <1>5
  <2>2. /\ records[d].slot \in Slot
        /\ slots[records[d].slot].used /\ slots[records[d].slot].key = {d}
    BY <1>2, <2>1, RecordFacts DEF IInv, CacheInv, RecordsOwned
  <2>3. slots'[records[d].slot].used /\ slots'[records[d].slot].key = {d} \ {c}
    BY <1>3, <2>2
  <2> QED  BY <2>1, <2>3
<1>7. RingInv' /\ SlotInv'
  <2>1. RingInv'
    BY <1>1, <1>3 DEF IInv, CacheInv, RingInv
  <2>2. SlotInv'
    BY <1>3 DEF IInv, CacheInv, SlotInv
  <2> QED  BY <2>1, <2>2
<1>8. CacheInv'
  BY <1>1, <1>4, <1>5, <1>6, <1>7 DEF IInv, CacheInv
<1>9. CallInv'
  BY <1>1 DEF IInv, CallInv, Transparent
<1>10. ProbingInv' /\ BypassInv'
  BY <1>1, <1>5 DEF IInv, ProbingInv, BypassInv
<1>11. RoomInv'
  <2> SUFFICES ASSUME tracking, ~capacityBypassed
               PROVE  /\ \A d \in Container : records'[d].state \in {"stored", "pending"} =>
                                                 d \in observed'
                      /\ entries + Cardinality(Candidates') <= observedCount
                      /\ observedCount <= MaxEntries
    BY <1>1 DEF RoomInv
  <2>1. /\ \A d \in Container : records[d].state \in {"stored", "pending"} => d \in observed
        /\ entries + Cardinality(Candidates) <= observedCount /\ observedCount <= MaxEntries
        /\ entries \in Nat /\ observedCount \in Nat /\ observed \subseteq Container
    BY BoundAssumption DEF IInv, RoomInv, CallInv, CacheInv
  <2>2. Candidates' \subseteq Candidates
    BY <1>1, <1>5, <2>1 DEF Candidates
  <2>3. IsFiniteSet(Candidates) /\ Cardinality(Candidates) \in Nat
    BY <2>1, CandidatesCounted
  <2>4. IsFiniteSet(Candidates') /\ Cardinality(Candidates') <= Cardinality(Candidates)
    BY <2>2, <2>3, Counting
  <2>5. Cardinality(Candidates') \in Nat
    BY <2>4, FS_CardinalityType
  <2>6. \A d \in Container : records'[d].state \in {"stored", "pending"} => d \in observed'
    BY <1>1, <1>5, <2>1
  <2> QED  BY <2>1, <2>3, <2>4, <2>5, <2>6
<1> QED  BY <1>8, <1>9, <1>10, <1>11 DEF IInv

(***************************************************************************)
(* The invariant                                                           *)
(***************************************************************************)
LEMMA Initially == Init => IInv
<1> SUFFICES ASSUME Init PROVE IInv
  OBVIOUS
<1>1. /\ MaxEntries \in Nat \ {0} /\ ProbeEntries \in Nat
      /\ Contents \subseteq [ids : Ids, plain : BOOLEAN]
  BY BoundAssumption, ContainerAssumption
<1>2. \A k \in Slot : slots[k] = Free /\ ~slots[k].used
  BY DEF Init, Free
<1>3. \A c \in Container : records[c] = None /\ records[c].state = "none"
  BY RecordFacts DEF Init
<1>4. records \in [Container -> RecordType] /\ slots \in [Slot -> SlotType]
  BY <1>2, <1>3, RecordFacts DEF Init, SlotType
<1>5. RecordsOwned /\ SlotInv
  BY <1>2, <1>3 DEF RecordsOwned, SlotInv
<1>6. RingInv /\ nextSlot \in Slot /\ entries \in 0 .. MaxEntries /\ evictions \in Nat
  BY <1>1, <1>2, SMTT(30) DEF Init, RingInv, Slot
<1>7. CacheInv
  BY <1>4, <1>5, <1>6 DEF CacheInv
<1>8. CallInv
  <2>1. result.given \in Ids /\ Transparent
    BY DEF Init, Transparent
  <2>2. probes \in Seq(Container) /\ Len(probes) <= ProbeEntries
    BY <1>1 DEF Init
  <2>3. observedCount \in 0 .. MaxEntries + 1
    BY <1>1 DEF Init
  <2> QED  BY <2>1, <2>2, <2>3 DEF Init, CallInv
<1>9. ProbingInv /\ BypassInv /\ RoomInv
  BY <1>3 DEF Init, ProbingInv, BypassInv, RoomInv
<1> QED  BY <1>7, <1>8, <1>9 DEF IInv

\* Every step keeps the invariant.
LEMMA Inductive == IInv /\ [Next]_vars => IInv'
<1> SUFFICES ASSUME IInv, [Next]_vars PROVE IInv'
  OBVIOUS
<1>1. CASE UNCHANGED vars
  BY <1>1 DEF vars, client, probing, watching, cache, accounts, IInv, CallInv, CacheInv,
     ProbingInv, BypassInv, RoomInv, Candidates, RecordsOwned, RingInv, SlotInv, Transparent
<1>2. CASE Next
  <2>1. PICK c \in Container : Decode(c) \/ Write(c) \/ Collect(c)
    BY <1>2 DEF Next
  <2>2. CASE Decode(c)
    BY <2>2, ProbeRepeatedKeeps, ProbeFirstKeeps, ProbeThrowsKeeps, BypassedKeeps,
       OverflowsKeeps, HitKeeps, RememberKeeps, PrimeKeeps, IneligibleKeeps, PassesKeeps
       DEF Decode
  <2>3. CASE Write(c)
    BY <2>3, WriteKeeps
  <2>4. CASE Collect(c)
    BY <2>4, CollectKeeps
  <2> QED  BY <2>1, <2>2, <2>3, <2>4
<1> QED  BY <1>1, <1>2

\* The invariant holds in every reachable state.
LEMMA Invariance == Spec => []IInv
<1>1. Init => IInv
  BY Initially
<1>2. IInv /\ [Next]_vars => IInv'
  BY Inductive
<1> QED  BY <1>1, <1>2, PTL DEF Spec

(***************************************************************************)
(* Sums over a finite set, by the number of its members                    *)
(***************************************************************************)
\* A set of natural numbers has a least member.
LEMMA LeastMember ==
    ASSUME NEW S \in SUBSET Nat, S # {}
    PROVE  \E m \in S : \A x \in S : m <= x
<1>1. PICK m \in S : \A x \in S : ~(<<x, m>> \in OpToRel(<, Nat))
  BY NatLessThanWellFounded, WFMin, Zenon
<1>2. ASSUME NEW x \in S PROVE m <= x
  <2>1. <<x, m>> \notin OpToRel(<, Nat)
    BY <1>1, Zenon
  <2>2. ~(x < m)
    BY <2>1 DEF OpToRel
  <2> QED
    BY <2>2
<1> QED
  BY <1>2

\* A set with 0 and with the successor of each member has every natural number.
LEMMA Induction ==
    ASSUME NEW S \in SUBSET Nat, 0 \in S, \A n \in S : n + 1 \in S
    PROVE  S = Nat
<1> SUFFICES ASSUME S # Nat PROVE FALSE
  OBVIOUS
<1>1. PICK n \in Nat \ S : \A m \in Nat \ S : n <= m
  BY LeastMember, Zenon
<1>2. n - 1 \in Nat /\ n - 1 \notin Nat \ S
  BY <1>1
<1> QED
  BY <1>1, <1>2

\* The member that a fold takes first, and what it computes: g is the sum of f over each set
\* of sets.
Some(r) == CHOOSE x \in r : TRUE
AddsUp(g, f, sets) ==
    \A r \in sets : g[r] = IF r = {} THEN 0 ELSE f[Some(r)] + g[r \ {Some(r)}]
Sets(D, n) == {r \in SUBSET D : Cardinality(r) <= n}

\* A set without one of its members is smaller by one.
LEMMA OneLess ==
    ASSUME NEW D, IsFiniteSet(D), NEW n \in Nat, NEW r \in Sets(D, n + 1), NEW x \in r
    PROVE  r \ {x} \in Sets(D, n)
<1>1. IsFiniteSet(r) /\ Cardinality(r) <= n + 1 /\ r \in SUBSET D
  BY FS_Subset DEF Sets
<1>2. Cardinality(r) \in Nat /\ Cardinality(r \ {x}) = Cardinality(r) - 1
  BY <1>1, FS_CardinalityType, FS_RemoveElement
<1> QED
  BY <1>1, <1>2 DEF Sets

\* The sets of no members, and those of any number.
LEMMA SetsOf ==
    ASSUME NEW D, IsFiniteSet(D)
    PROVE  /\ Sets(D, 0) = {{}} /\ \A n \in Nat : Sets(D, n) \subseteq Sets(D, n + 1)
           /\ Cardinality(D) \in Nat /\ Sets(D, Cardinality(D)) = SUBSET D
<1>1. \A r \in SUBSET D : IsFiniteSet(r) /\ Cardinality(r) \in Nat /\ Cardinality(r) <= Cardinality(D)
  BY FS_Subset, FS_CardinalityType
<1>2. \A r \in SUBSET D : Cardinality(r) <= 0 <=> r = {}
  BY <1>1, FS_EmptySet
<1>3. Sets(D, 0) = {{}}
  BY <1>2 DEF Sets
<1>4. Cardinality(D) \in Nat
  BY FS_CardinalityType
<1>5. ASSUME NEW n \in Nat PROVE Sets(D, n) \subseteq Sets(D, n + 1)
  <2>1. \A r \in SUBSET D : Cardinality(r) <= n => Cardinality(r) <= n + 1
    BY <1>1
  <2> QED
    BY <2>1 DEF Sets
<1> QED
  BY <1>1, <1>3, <1>4, <1>5 DEF Sets

\* The sums over all subsets exist.
LEMMA SumsExist ==
    ASSUME NEW D, IsFiniteSet(D), NEW f \in [D -> Int]
    PROVE  \E g \in [SUBSET D -> Int] : AddsUp(g, f, SUBSET D)
<1> DEFINE S == {n \in Nat : \E g \in [Sets(D, n) -> Int] : AddsUp(g, f, Sets(D, n))}
<1>1. 0 \in S
  <2>1. PICK g : g = [r \in Sets(D, 0) |-> 0]
    BY Zenon
  <2>2. g \in [Sets(D, 0) -> Int] /\ AddsUp(g, f, Sets(D, 0))
    BY <2>1, SetsOf DEF AddsUp
  <2> QED
    BY <2>2, Zenon
<1>2. ASSUME NEW n \in S PROVE n + 1 \in S
  <2>1. PICK g \in [Sets(D, n) -> Int] : AddsUp(g, f, Sets(D, n))
    BY Zenon
  <2>2. PICK h : h = [r \in Sets(D, n + 1) |-> IF r = {} THEN 0 ELSE f[Some(r)] + g[r \ {Some(r)}]]
    BY Zenon
  <2>3. \A r \in Sets(D, n + 1) : r # {} => Some(r) \in r /\ Some(r) \in D /\ r \ {Some(r)} \in Sets(D, n)
    <3>1. \A r : r # {} => Some(r) \in r
      BY DEF Some
    <3>2. n \in Nat
      OBVIOUS
    <3> QED
      BY <3>1, <3>2, OneLess DEF Sets
  <2>4. \A r \in Sets(D, n + 1) : h[r] \in Int
    BY <2>2, <2>3
  <2>5. \A r \in Sets(D, n) : r \in Sets(D, n + 1) /\ h[r] = g[r]
    <3>1. \A r \in Sets(D, n) : r \in Sets(D, n + 1)
      BY SetsOf
    <3> QED
      BY <2>1, <2>2, <3>1, Zenon DEF AddsUp
  <2>6. AddsUp(h, f, Sets(D, n + 1))
    BY <2>2, <2>3, <2>5, Zenon DEF AddsUp
  <2>7. h \in [Sets(D, n + 1) -> Int] /\ n + 1 \in Nat
    BY <2>2, <2>4
  <2> QED
    BY <2>6, <2>7, Zenon
<1>3. S = Nat
  <2> HIDE DEF S
  <2>1. S \in SUBSET Nat
    BY DEF S
  <2> QED
    BY <1>1, <1>2, <2>1, Induction
<1>4. Cardinality(D) \in S
  <2> HIDE DEF S
  <2> QED
    BY <1>3, SetsOf
<1> QED
  BY <1>4, SetsOf, Zenon

\* SumFunction is the sum over the whole domain.
LEMMA SumFold ==
    ASSUME NEW D, IsFiniteSet(D), NEW f \in [D -> Int]
    PROVE  \E g \in [SUBSET D -> Int] : AddsUp(g, f, SUBSET D) /\ SumFunction(f) = g[D]
<1> DEFINE Fold(h) == h = [r \in SUBSET D |-> IF r = {} THEN 0 ELSE f[Some(r)] + h[r \ {Some(r)}]]
<1>1. PICK g \in [SUBSET D -> Int] : AddsUp(g, f, SUBSET D)
  BY SumsExist, Zenon
<1>2. Fold(g)
  BY <1>1, Zenon DEF AddsUp
<1>3. PICK it : it = CHOOSE h : Fold(h)
  BY Zenon
<1>4. Fold(it)
  BY <1>2, <1>3, Zenon
<1>5. DOMAIN f = D
  OBVIOUS
<1>6. SumFunction(f) = it[D]
  BY <1>3, <1>5, Zenon DEF SumFunction, SumFunctionOnSet, FoldFunctionOnSet, MapThenFoldSet, Some
<1>7. AddsUp(it, f, SUBSET D)
  BY <1>4, Zenon DEF AddsUp
<1>8. it \in [SUBSET D -> Int]
  <2>1. DOMAIN it = SUBSET D /\ it = [r \in SUBSET D |-> it[r]]
    BY <1>4, Zenon
  <2> DEFINE S == {n \in Nat : \A r \in Sets(D, n) : it[r] = g[r]}
  <2>2. 0 \in S
    BY <1>1, <1>7, SetsOf DEF AddsUp
  <2>3. ASSUME NEW n \in S PROVE n + 1 \in S
    <3>1. ASSUME NEW r \in Sets(D, n + 1) PROVE it[r] = g[r]
      <4>1. r \in SUBSET D
        BY DEF Sets
      <4>2. CASE r = {}
        BY <1>1, <1>7, <4>1, <4>2, Zenon DEF AddsUp
      <4>3. CASE r # {}
        <5>1. Some(r) \in r
          BY <4>3 DEF Some
        <5>2. r \ {Some(r)} \in Sets(D, n)
          BY <5>1, OneLess
        <5> QED
          BY <1>1, <1>7, <4>1, <4>3, <5>2, Zenon DEF AddsUp
      <4> QED
        BY <4>2, <4>3
    <3> QED
      BY <3>1
  <2>4. S = Nat
    <3> HIDE DEF S
    <3>1. S \in SUBSET Nat
      BY DEF S
    <3> QED
      BY <2>2, <2>3, <3>1, Induction
  <2>5. \A r \in SUBSET D : it[r] = g[r]
    <3>1. Cardinality(D) \in S
      <4> HIDE DEF S
      <4> QED
        BY <2>4, SetsOf
    <3> QED
      BY <3>1, SetsOf, Zenon
  <2> QED
    BY <2>1, <2>5
<1> QED
  BY <1>6, <1>7, <1>8

\* g has the sums of f over the subsets of D.
Summing(g, f, D) ==
    IsFiniteSet(D) /\ f \in [D -> Int] /\ g \in [SUBSET D -> Int] /\ AddsUp(g, f, SUBSET D)

\* Sums of functions that agree are the same.
LEMMA SumsSame ==
    ASSUME NEW D, NEW f, NEW g, Summing(g, f, D), NEW E, NEW h, NEW k, Summing(k, h, E),
           NEW r, r \subseteq D, r \subseteq E, \A x \in r : f[x] = h[x]
    PROVE  g[r] = k[r]
<1> DEFINE S == {n \in Nat : \A q \in Sets(r, n) : g[q] = k[q]}
<1>1. IsFiniteSet(r) /\ AddsUp(g, f, SUBSET D) /\ AddsUp(k, h, SUBSET E)
  BY FS_Subset DEF Summing
<1>2. 0 \in S
  BY <1>1, SetsOf DEF AddsUp
<1>3. ASSUME NEW n \in S PROVE n + 1 \in S
  <2>1. ASSUME NEW q \in Sets(r, n + 1) PROVE g[q] = k[q]
    <3>1. q \in SUBSET D /\ q \in SUBSET E /\ q \in SUBSET r
      BY DEF Sets
    <3>2. CASE q = {}
      BY <1>1, <3>1, <3>2, Zenon DEF AddsUp
    <3>3. CASE q # {}
      <4>1. Some(q) \in q /\ f[Some(q)] = h[Some(q)]
        BY <3>1, <3>3 DEF Some
      <4>2. q \ {Some(q)} \in Sets(r, n)
        BY <1>1, <4>1, OneLess
      <4>3. g[q \ {Some(q)}] = k[q \ {Some(q)}]
        BY <4>2
      <4> QED
        BY <1>1, <3>1, <3>3, <4>1, <4>3, Zenon DEF AddsUp
    <3> QED
      BY <3>2, <3>3
  <2> QED
    BY <2>1
<1>4. S = Nat
  <2> HIDE DEF S
  <2>1. S \in SUBSET Nat
    BY DEF S
  <2> QED
    BY <1>2, <1>3, <2>1, Induction
<1>5. Cardinality(r) \in S
  <2> HIDE DEF S
  <2> QED
    BY <1>1, <1>4, SetsOf
<1> QED
  BY <1>1, <1>5, SetsOf, Zenon

\* Any member may be taken first.
LEMMA SumTakes ==
    ASSUME NEW D, NEW f, NEW g, Summing(g, f, D), NEW r, r \subseteq D, NEW x \in r
    PROVE  g[r] = f[x] + g[r \ {x}]
<1> DEFINE S == {n \in Nat : \A q \in Sets(r, n) : \A y \in q : g[q] = f[y] + g[q \ {y}]}
<1>1. IsFiniteSet(r) /\ f \in [D -> Int] /\ g \in [SUBSET D -> Int] /\ AddsUp(g, f, SUBSET D)
  BY FS_Subset DEF Summing
<1>2. 0 \in S
  BY <1>1, SetsOf
<1>3. ASSUME NEW n \in S PROVE n + 1 \in S
  <2>1. ASSUME NEW q \in Sets(r, n + 1), NEW y \in q PROVE g[q] = f[y] + g[q \ {y}]
    <3>1. q \in SUBSET D /\ y \in D /\ q \subseteq D
      BY DEF Sets
    <3>2. PICK c \in q : c = Some(q)
      BY DEF Some
    <3>3. g[q] = f[c] + g[q \ {c}]
      BY <1>1, <3>1, <3>2, Zenon DEF AddsUp
    <3>4. CASE c = y
      BY <3>3, <3>4
    <3>5. CASE c # y
      <4>1. q \ {c} \in Sets(r, n) /\ q \ {y} \in Sets(r, n)
        BY <1>1, OneLess
      <4>2. y \in q \ {c} /\ c \in q \ {y} /\ (q \ {c}) \ {y} = (q \ {y}) \ {c}
        BY <3>5
      <4>3. g[q \ {c}] = f[y] + g[(q \ {c}) \ {y}]
        BY <4>1, <4>2
      <4>4. g[q \ {y}] = f[c] + g[(q \ {c}) \ {y}]
        BY <4>1, <4>2
      <4>5. PICK rest \in Int, a \in Int, b \in Int : rest = g[(q \ {c}) \ {y}] /\ a = f[c] /\ b = f[y]
        BY <1>1, <3>1
      <4>6. g[q] = a + (b + rest) /\ g[q \ {y}] = a + rest
        BY <3>3, <4>3, <4>4, <4>5
      <4>7. a + (b + rest) = b + (a + rest)
        OBVIOUS
      <4> QED
        BY <4>5, <4>6, <4>7
    <3> QED
      BY <3>4, <3>5
  <2>2. n + 1 \in Nat
    OBVIOUS
  <2> QED
    BY <2>1, <2>2, Zenon
<1>4. S = Nat
  <2> HIDE DEF S
  <2>1. S \in SUBSET Nat
    BY DEF S
  <2> QED
    BY <1>2, <1>3, <2>1, Induction
<1>5. Cardinality(r) \in S
  <2> HIDE DEF S
  <2> QED
    BY <1>1, <1>4, SetsOf
<1>6. \A q \in Sets(r, Cardinality(r)) : \A y \in q : g[q] = f[y] + g[q \ {y}]
  BY <1>5, Zenon
<1>7. r \in Sets(r, Cardinality(r))
  BY <1>1, SetsOf
<1> QED
  BY <1>6, <1>7, Zenon

\* The sum of nothing.
LEMMA SumOfNothing ==
    ASSUME NEW f \in [{} -> Int]
    PROVE  SumFunction(f) = 0
<1>1. IsFiniteSet({})
  BY FS_EmptySet
<1>2. PICK g \in [SUBSET {} -> Int] : AddsUp(g, f, SUBSET {}) /\ SumFunction(f) = g[{}]
  BY <1>1, SumFold
<1> QED
  BY <1>2, Zenon DEF AddsUp

\* The sums of two functions that differ at one place, by the sum of the rest.
LEMMA SumsApart ==
    ASSUME NEW D, NEW f, NEW g, Summing(g, f, D), NEW x,
           NEW E, E = D \union {x}, NEW h, NEW k, Summing(k, h, E), \A y \in D \ {x} : h[y] = f[y]
    PROVE  /\ g[D] = IF x \in D THEN f[x] + g[D \ {x}] ELSE g[D \ {x}]
           /\ k[E] = h[x] + g[D \ {x}]
<1>1. PICK r : r = D \ {x}
  OBVIOUS
<1>2. r \subseteq D /\ r \subseteq E /\ E \ {x} = r /\ x \in E /\ E \subseteq E /\ D \subseteq D
  BY <1>1
<1>3. \A y \in r : f[y] = h[y]
  BY <1>1
<1>4. g[r] = k[r]
  BY <1>2, <1>3, SumsSame
<1>5. k[E] = h[x] + k[r]
  <2>1. k[E] = h[x] + k[E \ {x}]
    BY <1>2, SumTakes
  <2> QED
    BY <1>2, <2>1
<1>6. x \in D => g[D] = f[x] + g[r]
  <2>1. x \in D => g[D] = f[x] + g[D \ {x}]
    BY <1>2, SumTakes
  <2> QED
    BY <1>1, <2>1
<1>7. x \notin D => r = D
  BY <1>1
<1> QED
  BY <1>1, <1>4, <1>5, <1>6, <1>7

\* h is f with one value more, or with one replaced.
DiffersAt(x, h, f, D) ==
    /\ IsFiniteSet(D) /\ f \in [D -> Int] /\ h \in [D \union {x} -> Int]
    /\ \A y \in D \ {x} : h[y] = f[y]

\* The sum with one value more, or with one replaced.
LEMMA SumWith ==
    ASSUME NEW D, NEW f, NEW x, NEW h, DiffersAt(x, h, f, D)
    PROVE  SumFunction(h) = SumFunction(f) + h[x] - (IF x \in D THEN f[x] ELSE 0)
<1>1. /\ IsFiniteSet(D) /\ f \in [D -> Int] /\ h \in [D \union {x} -> Int]
      /\ \A y \in D \ {x} : h[y] = f[y]
  BY DEF DiffersAt
<1>2. PICK g \in [SUBSET D -> Int] : Summing(g, f, D) /\ SumFunction(f) = g[D]
  BY <1>1, SumFold DEF Summing
<1>3. PICK E : E = D \union {x} /\ IsFiniteSet(E)
  BY <1>1, FS_AddElement
<1>4. PICK k \in [SUBSET E -> Int] : Summing(k, h, E) /\ SumFunction(h) = k[E]
  <2>1. IsFiniteSet(E) /\ h \in [E -> Int]
    BY <1>1, <1>3
  <2> QED
    BY <2>1, SumFold DEF Summing
<1>5. /\ g[D] = IF x \in D THEN f[x] + g[D \ {x}] ELSE g[D \ {x}]
      /\ k[E] = h[x] + g[D \ {x}]
  BY <1>1, <1>2, <1>3, <1>4, SumsApart
<1>6. PICK a \in Int, b \in Int, c \in Int :
          a = g[D \ {x}] /\ b = h[x] /\ c = IF x \in D THEN f[x] ELSE 0
  BY <1>1
<1>7. g[D] = c + a /\ k[E] = b + a
  BY <1>5, <1>6
<1>8. b + a = (c + a) + b - c
  OBVIOUS
<1> QED
  BY <1>2, <1>4, <1>6, <1>7, <1>8

(***************************************************************************)
(* The accounts                                                            *)
(***************************************************************************)
\* What each record in the ring costs, and what the accounts say it does together.
Sizes    == [k \in Occupied |-> Bytes(IdsOf(k))]
Lengths  == [k \in Occupied |-> Units(TextOf(k))]
Accounts == snapshotBytes = SumFunction(Sizes) /\ outputCodeUnits = SumFunction(Lengths)

\* The sizes are numbers, of finitely many records.
LEMMA SizesType ==
    ASSUME CacheInv
    PROVE  IsFiniteSet(Occupied) /\ Sizes \in [Occupied -> Int] /\ Lengths \in [Occupied -> Int]
<1>1. Occupied = 0 .. entries - 1
  <2>1. MaxEntries \in Nat \ {0} /\ entries \in 0 .. MaxEntries
    BY BoundAssumption DEF CacheInv
  <2>2. \A k \in Slot : slots[k].used <=> k < entries
    BY DEF CacheInv, RingInv
  <2> QED
    BY <2>1, <2>2 DEF Occupied, Slot
<1>2. IsFiniteSet(Occupied)
  <2>1. 0 \in Int /\ entries - 1 \in Int
    BY BoundAssumption DEF CacheInv
  <2> QED
    BY <1>1, <2>1, FS_Interval
<1>3. ASSUME NEW k \in Occupied PROVE Bytes(IdsOf(k)) \in Int /\ Units(TextOf(k)) \in Int
  <2>1. PICK i \in Ids : slots[k].snapshot = {i} /\ slots[k].output = {Canonical(i)}
    BY DEF CacheInv, SlotInv, Occupied
  <2>2. IdsOf(k) = i /\ TextOf(k) = Canonical(i)
    BY <2>1 DEF IdsOf, TextOf
  <2> QED
    BY <2>2, BoundAssumption
<1> QED
  BY <1>2, <1>3 DEF Sizes, Lengths

\* A slot is filled with ids i, whether it was in use or not.
LEMMA AccountsFilled ==
    ASSUME CacheInv, CacheInv', Accounts, NEW k \in Slot, NEW i \in Ids, NEW key,
           slots' = [slots EXCEPT ![k] = Holding(key, i)],
           snapshotBytes' = snapshotBytes + Bytes(i) - (IF k \in Occupied THEN Bytes(IdsOf(k)) ELSE 0),
           outputCodeUnits' = outputCodeUnits + Units(Canonical(i))
                                - (IF k \in Occupied THEN Units(TextOf(k)) ELSE 0)
    PROVE  Accounts'
<1>1. slots'[k] = Holding(key, i) /\ \A j \in Slot : j # k => slots'[j] = slots[j]
  BY DEF CacheInv
<1>2. slots'[k].used = TRUE /\ slots'[k].snapshot = {i} /\ slots'[k].output = {Canonical(i)}
  BY <1>1 DEF Holding
<1>3. Occupied' = Occupied \union {k}
  BY <1>1, <1>2 DEF Occupied
<1>4. IdsOf(k)' = i /\ TextOf(k)' = Canonical(i)
  BY <1>2 DEF IdsOf, TextOf
<1>5. \A j \in Occupied \ {k} : IdsOf(j)' = IdsOf(j) /\ TextOf(j)' = TextOf(j)
  <2>1. \A j \in Occupied \ {k} : slots'[j] = slots[j]
    BY <1>1 DEF Occupied
  <2> QED
    BY <2>1 DEF IdsOf, TextOf
<1>6. /\ IsFiniteSet(Occupied) /\ Sizes \in [Occupied -> Int] /\ Lengths \in [Occupied -> Int]
      /\ Sizes' \in [Occupied \union {k} -> Int] /\ Lengths' \in [Occupied \union {k} -> Int]
  <2>1. IsFiniteSet(Occupied)' /\ (Sizes \in [Occupied -> Int])' /\ (Lengths \in [Occupied -> Int])'
    BY SizesType, PTL
  <2> QED
    BY <1>3, <2>1, SizesType
<1>7. /\ Sizes'[k] = Bytes(i) /\ Lengths'[k] = Units(Canonical(i))
      /\ \A j \in Occupied \ {k} : Sizes'[j] = Sizes[j] /\ Lengths'[j] = Lengths[j]
      /\ k \in Occupied => Sizes[k] = Bytes(IdsOf(k)) /\ Lengths[k] = Units(TextOf(k))
  BY <1>3, <1>4, <1>5, Zenon DEF Sizes, Lengths
<1>8. SumFunction(Sizes') = SumFunction(Sizes) + Bytes(i) - (IF k \in Occupied THEN Bytes(IdsOf(k)) ELSE 0)
  <2>1. PICK D : D = Occupied
    OBVIOUS
  <2>2. PICK f \in [D -> Int], h \in [D \union {k} -> Int] : f = Sizes /\ h = Sizes'
    BY <1>6, <2>1
  <2>3. DiffersAt(k, h, f, D)
    BY <1>6, <1>7, <2>1, <2>2 DEF DiffersAt
  <2>4. SumFunction(h) = SumFunction(f) + h[k] - (IF k \in D THEN f[k] ELSE 0)
    BY <2>3, SumWith
  <2> QED
    BY <1>7, <2>1, <2>2, <2>4
<1>9. SumFunction(Lengths') = SumFunction(Lengths) + Units(Canonical(i))
                                - (IF k \in Occupied THEN Units(TextOf(k)) ELSE 0)
  <2>1. PICK D : D = Occupied
    OBVIOUS
  <2>2. PICK f \in [D -> Int], h \in [D \union {k} -> Int] : f = Lengths /\ h = Lengths'
    BY <1>6, <2>1
  <2>3. DiffersAt(k, h, f, D)
    BY <1>6, <1>7, <2>1, <2>2 DEF DiffersAt
  <2>4. SumFunction(h) = SumFunction(f) + h[k] - (IF k \in D THEN f[k] ELSE 0)
    BY <2>3, SumWith
  <2> QED
    BY <1>7, <2>1, <2>2, <2>4
<1>10. SumFunction(Sizes)' = SumFunction(Sizes') /\ SumFunction(Lengths)' = SumFunction(Lengths')
  OBVIOUS
<1> QED
  BY <1>8, <1>9, <1>10 DEF Accounts

\* store() keeps the accounts, whichever way it goes.
LEMMA StoreAccounts ==
    ASSUME CacheInv, CacheInv', CallInv, Accounts, NEW c \in Container, Store(c)
    PROVE  Accounts'
<1>1. CASE Refuse(c)
  <2>1. UNCHANGED <<slots, snapshotBytes, outputCodeUnits>>
    BY <1>1 DEF Refuse, accounts
  <2> QED
    BY <2>1 DEF Accounts, Sizes, Lengths, Occupied, IdsOf, TextOf
<1>2. CASE Replace(c)
  <2>1. PICK k : k = records[c].slot
    OBVIOUS
  <2>2. /\ records[c].state = "stored"
        /\ snapshotBytes' = snapshotBytes + Bytes(Given(c)) - Bytes(IdsOf(k))
        /\ outputCodeUnits' = outputCodeUnits + Units(Canonical(Given(c))) - Units(TextOf(k))
        /\ slots' = [slots EXCEPT ![k] = Holding(slots[k].key, Given(c))]
    BY <1>2, <2>1, Zenon DEF Replace
  <2>3. k \in Slot /\ k \in Occupied
    BY <2>1, <2>2, RecordFacts DEF CacheInv, RecordsOwned, Occupied
  <2>4. Given(c) \in Ids
    BY GivenFacts
  <2> QED
    BY <2>2, <2>3, <2>4, AccountsFilled
<1>3. CASE Insert(c)
  <2>1. PICK k : k = nextSlot
    OBVIOUS
  <2>2. k \in Slot /\ (slots[k].used <=> k \in Occupied)
    BY <2>1 DEF CacheInv, Occupied
  <2>3. /\ snapshotBytes' = snapshotBytes + Bytes(Given(c)) - (IF k \in Occupied THEN Bytes(IdsOf(k)) ELSE 0)
        /\ outputCodeUnits' = outputCodeUnits + Units(Canonical(Given(c)))
                                - (IF k \in Occupied THEN Units(TextOf(k)) ELSE 0)
        /\ slots' = [slots EXCEPT ![k] = Holding({c}, Given(c))]
    BY <1>3, <2>1, <2>2 DEF Insert
  <2>4. Given(c) \in Ids
    BY GivenFacts
  <2> QED
    BY <2>2, <2>3, <2>4, AccountsFilled
<1> QED
  BY <1>1, <1>2, <1>3 DEF Store

\* The accounts are closed with the ring.
LEMMA OverflowsAccounts ==
    ASSUME NEW c \in Container, Overflows(c)
    PROVE  Accounts'
<1>1. slots' = [k \in Slot |-> Free] /\ snapshotBytes' = 0 /\ outputCodeUnits' = 0
  BY DEF Overflows
<1>2. Occupied' = {}
  BY <1>1 DEF Occupied, Free
<1>3. Sizes' \in [{} -> Int] /\ Lengths' \in [{} -> Int]
  BY <1>2 DEF Sizes, Lengths
<1>4. SumFunction(Sizes') = 0 /\ SumFunction(Lengths') = 0
  BY <1>3, SumOfNothing
<1> QED
  BY <1>1, <1>4 DEF Accounts

\* An array that is collected costs what it did.
LEMMA CollectAccounts ==
    ASSUME CacheInv, Accounts, NEW c \in Container, Collect(c)
    PROVE  Accounts'
<1>1. /\ slots' = [k \in Slot |-> [slots[k] EXCEPT !.key = @ \ {c}]]
      /\ UNCHANGED <<snapshotBytes, outputCodeUnits>>
  BY DEF Collect, accounts
<1>2. \A k \in Slot : /\ slots'[k].used = slots[k].used /\ slots'[k].snapshot = slots[k].snapshot
                      /\ slots'[k].output = slots[k].output
  <2> SUFFICES ASSUME NEW k \in Slot
               PROVE  /\ slots'[k].used = slots[k].used /\ slots'[k].snapshot = slots[k].snapshot
                      /\ slots'[k].output = slots[k].output
    OBVIOUS
  <2>1. PICK s \in SlotType : s = slots[k]
    BY DEF CacheInv
  <2>2. slots'[k] = [s EXCEPT !.key = @ \ {c}]
    BY <1>1, <2>1
  <2>3. /\ [s EXCEPT !.key = @ \ {c}].used = s.used
        /\ [s EXCEPT !.key = @ \ {c}].snapshot = s.snapshot
        /\ [s EXCEPT !.key = @ \ {c}].output = s.output
    BY KeyDropped
  <2> QED
    BY <2>1, <2>2, <2>3
<1>3. Occupied' = Occupied
  BY <1>2 DEF Occupied
<1>4. \A k \in Occupied : IdsOf(k)' = IdsOf(k) /\ TextOf(k)' = TextOf(k)
  BY <1>2 DEF IdsOf, TextOf, Occupied
<1>5. Sizes' = Sizes /\ Lengths' = Lengths
  BY <1>3, <1>4 DEF Sizes, Lengths
<1> QED
  BY <1>1, <1>5 DEF Accounts

\* Every step keeps the accounts.
LEMMA AccountsKept == IInv /\ IInv' /\ Accounts /\ [Next]_vars => Accounts'
<1> SUFFICES ASSUME IInv, IInv', Accounts, [Next]_vars PROVE Accounts'
  OBVIOUS
<1>1. CacheInv /\ CacheInv' /\ CallInv
  BY DEF IInv
<1>2. ASSUME UNCHANGED <<slots, snapshotBytes, outputCodeUnits>> PROVE Accounts'
  BY <1>2 DEF Accounts, Sizes, Lengths, Occupied, IdsOf, TextOf
<1>3. CASE UNCHANGED vars
  BY <1>2, <1>3 DEF vars, cache, accounts
<1>4. CASE Next
  <2>1. PICK c \in Container : Decode(c) \/ Write(c) \/ Collect(c)
    BY <1>4 DEF Next
  <2>2. CASE ProbeRepeated(c) \/ Remember(c) \/ Ineligible(c)
    BY <1>1, <2>2, StoreAccounts DEF ProbeRepeated, Remember, Ineligible
  <2>3. CASE ProbeFirst(c) \/ ProbeThrows(c) \/ Bypassed(c) \/ Hit(c) \/ Prime(c) \/ Passes(c) \/ Write(c)
    BY <1>2, <2>3 DEF ProbeFirst, ProbeThrows, Bypassed, Hit, Prime, Passes, Write, cache, accounts
  <2>4. CASE Overflows(c)
    BY <2>4, OverflowsAccounts
  <2>5. CASE Collect(c)
    BY <1>1, <2>5, CollectAccounts
  <2> QED
    BY <2>1, <2>2, <2>3, <2>4, <2>5 DEF Decode
<1> QED
  BY <1>3, <1>4

\* The records are as many as the ring was filled with.
LEMMA RecordsCounted ==
    ASSUME CacheInv
    PROVE  entries = Cardinality(Occupied)
<1>1. MaxEntries \in Nat \ {0} /\ entries \in 0 .. MaxEntries
  BY BoundAssumption DEF CacheInv
<1>2. Occupied = 0 .. entries - 1
  <2>1. \A k \in Slot : slots[k].used <=> k < entries
    BY DEF CacheInv, RingInv
  <2> QED
    BY <1>1, <2>1 DEF Occupied, Slot
<1>3. 0 \in Int /\ entries - 1 \in Int
  BY <1>1
<1> QED
  BY <1>1, <1>2, <1>3, FS_Interval

(***************************************************************************)
(* The theorems                                                            *)
(***************************************************************************)
\* The variables of createDecodeMemo stay in their ranges: the count of observed containers
\* stops one above the capacity, the ring never holds more records than it has slots.
THEOREM TypeCorrect == Spec => []TypeOK
<1>1. IInv => TypeOK
  BY DEF IInv, CallInv, CacheInv, TypeOK
<1> QED  BY <1>1, Invariance, PTL

\* decode() returns what the decoder makes of the ids the array holds, for every capacity,
\* every set of arrays and every sequence of calls, writes and collections.
THEOREM Faithful == Spec => []Transparent
<1>1. IInv => Transparent
  BY DEF IInv, CallInv
<1> QED  BY <1>1, Invariance, PTL

\* store() never displaces a record: the branch of the ring that does is dead.
THEOREM NoEviction == Spec => []NeverEvicts
<1>1. IInv => NeverEvicts
  BY DEF IInv, CacheInv, RingInv, NeverEvicts
<1> QED  BY <1>1, Invariance, PTL

\* A record in the WeakMap stands in the slot that names its array, and in no other.
THEOREM Owned == Spec => []RecordsOwned
<1>1. IInv => RecordsOwned
  BY DEF IInv, CacheInv
<1> QED  BY <1>1, Invariance, PTL
\* What stats() reports is what the slots of the ring hold, whatever was stored, replaced,
\* refused or collected and in whatever order.
THEOREM AccountsAreExact == Spec => []AccountsExact
<1>1. Init => Accounts
  <2> SUFFICES ASSUME Init PROVE Accounts
    OBVIOUS
  <2>1. Occupied = {} /\ snapshotBytes = 0 /\ outputCodeUnits = 0
    BY DEF Init, Occupied, Free
  <2>2. Sizes \in [{} -> Int] /\ Lengths \in [{} -> Int]
    BY <2>1 DEF Sizes, Lengths
  <2> QED
    BY <2>1, <2>2, SumOfNothing DEF Accounts
<1>2. IInv /\ Accounts => AccountsExact
  BY RecordsCounted DEF IInv, Accounts, AccountsExact, Sizes, Lengths
<1> QED
  BY <1>1, <1>2, AccountsKept, Inductive, Invariance, PTL DEF Spec
===============================================================================
