-------------------------- MODULE PretokenCacheProofs --------------------------
(***************************************************************************)
(* PretokenCache: what the emit loop emits is what the pretokens are       *)
(* encoded as, for any pretokens, hashes, vocabulary and capacities.       *)
(*                                                                         *)
(* First one table by itself.  Open addressing: a table whose entries are  *)
(* each reached from their home without passing an empty slot keeps being  *)
(* one when an entry is put into the first empty slot of its walk, and the *)
(* walks find what it holds.                                               *)
(***************************************************************************)
EXTENDS PretokenCache, FiniteSetTheorems, SequenceTheorems, WellFoundedInduction, TLAPS

\* The keys of table t are of K.
KeysOf(t, K) == t.cap \in Nat /\ t.keys \in [0 .. t.cap - 1 -> K \union {None}]

\* Every entry is reached from its home, which homes gives, over occupied slots.
Reached(t, homes) ==
    \A s \in Occupied(t) :
        \E i \in 0 .. t.cap - 1 :
            /\ s = Behind(t.cap, homes[t.keys[s]], i)
            /\ \A j \in 0 .. i - 1 : t.keys[Behind(t.cap, homes[t.keys[s]], j)] # None

\* No key has two entries.
Unique(t) == \A r, s \in Occupied(t) : t.keys[r] = t.keys[s] => r = s

HasRoom(t) == \E s \in 0 .. t.cap - 1 : t.keys[s] = None

Homes(t, homes, K) == homes \in [K -> 0 .. t.cap - 1]

(***************************************************************************)
(* A set of natural numbers has a least member.                            *)
(***************************************************************************)
LEMMA LeastMember ==
    ASSUME NEW S \in SUBSET Nat, S # {}
    PROVE  \E m \in S : \A x \in S : m <= x
<1>1. PICK m \in S : \A x \in S : ~(<<x, m>> \in OpToRel(<, Nat))
  BY NatLessThanWellFounded, WFMin, Zenon
<1>2. ASSUME NEW x \in S PROVE m <= x
  <2>1. <<x, m>> \notin OpToRel(<, Nat)
    BY <1>1, Zenon
  <2>2. ~(x < m)
    BY <2>1 DEF OpToRel
  <2> QED
    BY <2>2
<1> QED
  BY <1>2

(***************************************************************************)
(* The slots behind a home are all the slots, each once.                   *)
(***************************************************************************)
LEMMA BehindIsASlot ==
    ASSUME NEW cap \in Nat, NEW home \in 0 .. cap - 1, NEW i \in 0 .. cap - 1
    PROVE  Behind(cap, home, i) \in 0 .. cap - 1
BY DEF Behind

\* A walk from its home passes a slot once.
LEMMA BehindOnce ==
    ASSUME NEW cap \in Nat, NEW home \in 0 .. cap - 1,
           NEW i \in 0 .. cap - 1, NEW j \in 0 .. cap - 1,
           Behind(cap, home, i) = Behind(cap, home, j)
    PROVE  i = j
BY DEF Behind

\* A walk from any home reaches every slot.
LEMMA BehindReaches ==
    ASSUME NEW cap \in Nat, NEW home \in 0 .. cap - 1, NEW s \in 0 .. cap - 1
    PROVE  \E i \in 0 .. cap - 1 : Behind(cap, home, i) = s
<1>1. CASE home <= s
  <2>1. s - home \in 0 .. cap - 1 /\ Behind(cap, home, s - home) = s
    BY <1>1 DEF Behind
  <2> QED
    BY <2>1
<1>2. CASE s < home
  <2>1. s + cap - home \in 0 .. cap - 1 /\ Behind(cap, home, s + cap - home) = s
    BY <1>2 DEF Behind
  <2> QED
    BY <2>1
<1> QED
  BY <1>1, <1>2

(***************************************************************************)
(* A table with room has a first empty slot behind every home.             *)
(***************************************************************************)
LEMMA FirstEmptyIsFirst ==
    ASSUME NEW t, NEW K, KeysOf(t, K), HasRoom(t), NEW home \in 0 .. t.cap - 1
    PROVE  /\ Displacement(t, home) \in 0 .. t.cap - 1
           /\ FirstEmpty(t, home) \in 0 .. t.cap - 1
           /\ t.keys[FirstEmpty(t, home)] = None
           /\ \A j \in 0 .. Displacement(t, home) - 1 : t.keys[Behind(t.cap, home, j)] # None
<1> DEFINE E == {i \in 0 .. t.cap - 1 : t.keys[Behind(t.cap, home, i)] = None}
<1>1. t.cap \in Nat
  BY DEF KeysOf
<1>2. E # {}
  <2>1. PICK s \in 0 .. t.cap - 1 : t.keys[s] = None
    BY DEF HasRoom
  <2>2. PICK i \in 0 .. t.cap - 1 : Behind(t.cap, home, i) = s
    BY <1>1, BehindReaches
  <2> QED
    BY <2>1, <2>2
<1>3. PICK m \in E : \A x \in E : m <= x
  <2>1. E \in SUBSET Nat
    BY <1>1
  <2> HIDE DEF E
  <2> QED
    BY <2>1, <1>2, LeastMember
<1>4. /\ t.keys[Behind(t.cap, home, m)] = None
      /\ \A j \in 0 .. m - 1 : t.keys[Behind(t.cap, home, j)] # None
  <2>1. ASSUME NEW j \in 0 .. m - 1 PROVE t.keys[Behind(t.cap, home, j)] # None
    <3>1. j \in 0 .. t.cap - 1 /\ ~(m <= j)
      BY <1>1
    <3> QED
      BY <1>3, <3>1
  <2> QED
    BY <2>1
<1>5. /\ Displacement(t, home) \in 0 .. t.cap - 1
      /\ t.keys[Behind(t.cap, home, Displacement(t, home))] = None
      /\ \A j \in 0 .. Displacement(t, home) - 1 : t.keys[Behind(t.cap, home, j)] # None
  <2>1. m \in 0 .. t.cap - 1
    OBVIOUS
  <2> QED
    BY <1>4, <2>1 DEF Displacement
<1> QED
  BY <1>1, <1>5, BehindIsASlot DEF FirstEmpty

(***************************************************************************)
(* Putting a new key into the first empty slot of its walk.                *)
(***************************************************************************)
LEMMA PutKeepsReached ==
    ASSUME NEW t, NEW u, NEW K, NEW homes, KeysOf(t, K), HasRoom(t), Homes(t, homes, K),
           Reached(t, homes), Unique(t),
           NEW k \in K, None \notin K, \A s \in Occupied(t) : t.keys[s] # k,
           NEW e, e = FirstEmpty(t, homes[k]),
           KeysOf(u, K), u.cap = t.cap, u.keys[e] = k,
           \A s \in 0 .. t.cap - 1 : s # e => u.keys[s] = t.keys[s]
    PROVE  /\ Reached(u, homes) /\ Unique(u)
           /\ e \in 0 .. t.cap - 1 /\ e \notin Occupied(t)
           /\ Occupied(u) = Occupied(t) \union {e}
<1> DEFINE d == Displacement(t, homes[k])
<1>1. homes[k] \in 0 .. t.cap - 1 /\ t.cap \in Nat
  BY DEF Homes, KeysOf
<1>2. /\ d \in 0 .. t.cap - 1 /\ e \in 0 .. t.cap - 1 /\ t.keys[e] = None
      /\ \A j \in 0 .. d - 1 : t.keys[Behind(t.cap, homes[k], j)] # None
      /\ e = Behind(t.cap, homes[k], d)
  BY <1>1, FirstEmptyIsFirst DEF FirstEmpty
<1> HIDE DEF d
<1>5. u.keys[e] = k /\ \A s \in 0 .. t.cap - 1 : s # e => u.keys[s] = t.keys[s]
  OBVIOUS
<1>6. Occupied(u) = Occupied(t) \union {e} /\ e \notin Occupied(t)
  BY <1>5, <1>2 DEF Occupied
<1>7. \A s \in 0 .. t.cap - 1 : t.keys[s] # None => u.keys[s] # None /\ u.keys[s] = t.keys[s]
  BY <1>5, <1>2
<1>8. Reached(u, homes)
  <2> SUFFICES ASSUME NEW s \in Occupied(u)
               PROVE  \E i \in 0 .. t.cap - 1 :
                         /\ s = Behind(t.cap, homes[u.keys[s]], i)
                         /\ \A j \in 0 .. i - 1 : u.keys[Behind(t.cap, homes[u.keys[s]], j)] # None
    BY DEF Reached
  <2>1. CASE s = e
    <3>1. \A j \in 0 .. d - 1 : u.keys[Behind(t.cap, homes[k], j)] # None
      <4> TAKE j \in 0 .. d - 1
      <4>1. j \in 0 .. t.cap - 1
        BY <1>1, <1>2
      <4>2. Behind(t.cap, homes[k], j) \in 0 .. t.cap - 1
        BY <1>1, <4>1, BehindIsASlot
      <4> QED
        BY <4>2, <1>2, <1>7
    <3> QED
      BY <2>1, <3>1, <1>2, <1>5
  <2>2. CASE s # e
    <3>1. s \in Occupied(t) /\ s \in 0 .. t.cap - 1 /\ u.keys[s] = t.keys[s] /\ t.keys[s] \in K
      BY <2>2, <1>6, <1>5 DEF Occupied, KeysOf
    <3>2. PICK i \in 0 .. t.cap - 1 :
             /\ s = Behind(t.cap, homes[t.keys[s]], i)
             /\ \A j \in 0 .. i - 1 : t.keys[Behind(t.cap, homes[t.keys[s]], j)] # None
      BY <3>1 DEF Reached
    <3>3. homes[t.keys[s]] \in 0 .. t.cap - 1
      BY <3>1 DEF Homes
    <3>4. \A j \in 0 .. i - 1 : u.keys[Behind(t.cap, homes[t.keys[s]], j)] # None
      <4> TAKE j \in 0 .. i - 1
      <4>1. j \in 0 .. t.cap - 1
        BY <1>1
      <4>2. Behind(t.cap, homes[t.keys[s]], j) \in 0 .. t.cap - 1
        BY <1>1, <3>3, <4>1, BehindIsASlot
      <4> QED
        BY <4>2, <3>2, <1>7
    <3> QED
      BY <3>1, <3>2, <3>4
  <2> QED
    BY <2>1, <2>2
<1>9. Unique(u)
  BY <1>5, <1>6 DEF Unique, Occupied
<1> QED
  BY <1>2, <1>6, <1>8, <1>9

(***************************************************************************)
(* A table whose entries are fewer than its slots has room.                *)
(***************************************************************************)
LEMMA FewerLeaveRoom ==
    ASSUME NEW t, NEW K, KeysOf(t, K)
    PROVE  /\ IsFiniteSet(Occupied(t)) /\ Cardinality(Occupied(t)) \in Nat
           /\ Cardinality(Occupied(t)) < t.cap => HasRoom(t)
<1>1. t.cap \in Nat
  BY DEF KeysOf
<1>2. IsFiniteSet(0 .. t.cap - 1) /\ Cardinality(0 .. t.cap - 1) = t.cap
  <2>1. PICK n \in Nat : n = t.cap
    BY <1>1
  <2>2. PICK last \in Int : last = n - 1
    BY <2>1
  <2>3. IsFiniteSet(0 .. last) /\ Cardinality(0 .. last) = IF 0 > last THEN 0 ELSE last - 0 + 1
    BY FS_Interval
  <2>4. (IF 0 > last THEN 0 ELSE last - 0 + 1) = n
    BY <2>1, <2>2
  <2> QED
    BY <2>1, <2>2, <2>3, <2>4
<1>3. Occupied(t) \subseteq 0 .. t.cap - 1
  BY DEF Occupied
<1>4. IsFiniteSet(Occupied(t)) /\ Cardinality(Occupied(t)) \in Nat
  BY <1>2, <1>3, FS_Subset, FS_CardinalityType
<1>5. ASSUME ~HasRoom(t) PROVE Cardinality(Occupied(t)) = t.cap
  <2>1. Occupied(t) = 0 .. t.cap - 1
    BY <1>5 DEF HasRoom, Occupied
  <2> QED
    BY <2>1, <1>2
<1> QED
  BY <1>1, <1>4, <1>5

(***************************************************************************)
(* The pairs of the short table: pair p behind a home is the slots 2p and  *)
(* 2p + 1 behind it, because homes and capacities are even.                *)
(***************************************************************************)
ShortCap(cap) == cap \in Nat /\ cap >= 2 /\ cap % 2 = 0

\* A key's home is the first slot of a pair inside the table.
LEMMA HomePairIsEven ==
    ASSUME NEW cap, ShortCap(cap), NEW k \in Short
    PROVE  /\ HomePair(k, cap) \in 0 .. cap - 1
           /\ HomePair(k, cap) + 1 \in 0 .. cap - 1
           /\ HomePair(k, cap) % 2 = 0
<1>1. KeyHash[k] \in Nat /\ cap \in Nat /\ cap >= 2 /\ cap % 2 = 0
  BY HashAssumption DEF ShortCap
<1>2. PICK h : h = KeyHash[k] % cap
  OBVIOUS
<1>3. h \in 0 .. cap - 1
  BY <1>1, <1>2
<1>4. PICK g : g = h \div 2
  OBVIOUS
<1>5. g \in Nat /\ 2 * g <= h /\ h <= 2 * g + 1
  BY <1>3, <1>4
<1>6. 2 * g \in 0 .. cap - 1 /\ 2 * g + 1 \in 0 .. cap - 1 /\ (2 * g) % 2 = 0
  BY <1>1, <1>3, <1>5
<1> QED
  BY <1>2, <1>4, <1>6 DEF HomePair

\* The two slots of a pair are neighbours of the walk, at an even place and the next.
LEMMA PairSlots ==
    ASSUME NEW t, ShortCap(t.cap), NEW k \in Short, NEW p \in 0 .. (t.cap \div 2) - 1
    PROVE  /\ 2 * p \in 0 .. t.cap - 1 /\ 2 * p + 1 \in 0 .. t.cap - 1
           /\ Pair(t, k, p) = {Behind(t.cap, HomePair(k, t.cap), 2 * p),
                               Behind(t.cap, HomePair(k, t.cap), 2 * p + 1)}
           /\ Behind(t.cap, HomePair(k, t.cap), 2 * p + 1)
                = Behind(t.cap, HomePair(k, t.cap), 2 * p) + 1
           /\ Pair(t, k, p) \subseteq 0 .. t.cap - 1
<1>1. PICK cap, home : cap = t.cap /\ home = HomePair(k, t.cap)
  OBVIOUS
<1>2. cap \in Nat /\ cap >= 2 /\ cap % 2 = 0 /\ home \in 0 .. cap - 1 /\ home % 2 = 0
  BY <1>1, HomePairIsEven DEF ShortCap
<1>3. 2 * p \in 0 .. cap - 1 /\ 2 * p + 1 \in 0 .. cap - 1
  BY <1>1, <1>2
<1>4. Behind(cap, home, 2 * p + 1) = Behind(cap, home, 2 * p) + 1
  BY <1>2, <1>3 DEF Behind
<1>5. Behind(cap, home, 2 * p) \in 0 .. cap - 1 /\ Behind(cap, home, 2 * p + 1) \in 0 .. cap - 1
  BY <1>2, <1>3 DEF Behind
<1> QED
  BY <1>1, <1>3, <1>4, <1>5 DEF Pair

ShortHomes(cap) == [k \in Short |-> HomePair(k, cap)]

\* What the invariant says of the short table.
ShortSound(t) ==
    /\ KeysOf(t, Short) /\ ShortCap(t.cap) /\ HasRoom(t)
    /\ Reached(t, ShortHomes(t.cap)) /\ Unique(t)

\* The homes of the short table are slots.
LEMMA ShortHomesAreSlots ==
    ASSUME NEW t, ShortCap(t.cap)
    PROVE  Homes(t, ShortHomes(t.cap), Short)
BY HomePairIsEven DEF Homes, ShortHomes

\* A pair has the key or an empty slot.
Stops(t, k, p) == \E s \in Pair(t, k, p) : t.keys[s] \in {k, None}

(***************************************************************************)
(* The walk of the short table ends.                                       *)
(***************************************************************************)
LEMMA WalkEnds ==
    ASSUME NEW t, ShortSound(t), NEW k \in Short
    PROVE  /\ WalkEnd(t, k) \in 0 .. (t.cap \div 2) - 1
           /\ Stops(t, k, WalkEnd(t, k))
           /\ \A q \in 0 .. WalkEnd(t, k) - 1 : ~Stops(t, k, q)
<1> DEFINE d == Displacement(t, HomePair(k, t.cap))
           S == {p \in 0 .. (t.cap \div 2) - 1 : Stops(t, k, p)}
<1>0. t.cap \in Nat /\ t.cap >= 2 /\ t.cap % 2 = 0
  BY DEF ShortSound, ShortCap
<1>1. /\ d \in 0 .. t.cap - 1
      /\ t.keys[Behind(t.cap, HomePair(k, t.cap), d)] = None
  <2>1. HomePair(k, t.cap) \in 0 .. t.cap - 1
    BY HomePairIsEven DEF ShortSound
  <2> QED
    BY <2>1, FirstEmptyIsFirst DEF ShortSound, FirstEmpty
<1> HIDE DEF d
<1>2. PICK p \in 0 .. (t.cap \div 2) - 1 : d = 2 * p \/ d = 2 * p + 1
  <2>1. d \div 2 \in 0 .. (t.cap \div 2) - 1 /\ (d = 2 * (d \div 2) \/ d = 2 * (d \div 2) + 1)
    BY <1>0, <1>1
  <2> QED
    BY <2>1
<1>3. Stops(t, k, p)
  <2>1. Pair(t, k, p) = {Behind(t.cap, HomePair(k, t.cap), 2 * p),
                         Behind(t.cap, HomePair(k, t.cap), 2 * p + 1)}
    BY PairSlots DEF ShortSound
  <2> QED
    BY <1>1, <1>2, <2>1 DEF Stops
<1>4. PICK m \in S : \A x \in S : m <= x
  <2>1. S \in SUBSET Nat /\ S # {}
    BY <1>0, <1>2, <1>3
  <2> HIDE DEF S
  <2> QED
    BY <2>1, LeastMember
<1>5. \A q \in 0 .. m - 1 : ~Stops(t, k, q)
  <2> SUFFICES ASSUME NEW q \in 0 .. m - 1, Stops(t, k, q) PROVE FALSE
    OBVIOUS
  <2>1. q \in S
    BY <1>0
  <2> QED
    BY <1>4, <2>1
<1>6. /\ m \in 0 .. t.cap \div 2 - 1
      /\ \E s \in Pair(t, k, m) : t.keys[s] \in {k, None}
      /\ \A q \in 0 .. m - 1 : \A s \in Pair(t, k, q) : t.keys[s] \notin {k, None}
  BY <1>5 DEF Stops
<1>7. /\ WalkEnd(t, k) \in 0 .. t.cap \div 2 - 1
      /\ \E s \in Pair(t, k, WalkEnd(t, k)) : t.keys[s] \in {k, None}
      /\ \A q \in 0 .. WalkEnd(t, k) - 1 : \A s \in Pair(t, k, q) : t.keys[s] \notin {k, None}
  BY <1>6, Zenon DEF WalkEnd
<1> QED
  BY <1>7 DEF Stops

(***************************************************************************)
(* A lookup of the short table finds a key exactly if the table has it,    *)
(* and reports the first empty slot of the walk if not.                    *)
(***************************************************************************)
LEMMA ShortLookup ==
    ASSUME NEW t, ShortSound(t), NEW k \in Short
    PROVE  /\ Holds(t, k) <=> \E s \in Occupied(t) : t.keys[s] = k
           /\ Holds(t, k) => SlotOf(t, k) \in Occupied(t) /\ t.keys[SlotOf(t, k)] = k
           /\ ~Holds(t, k) => MissSlot(t, k) = FirstEmpty(t, HomePair(k, t.cap))
<1> DEFINE home == HomePair(k, t.cap)
           d == Displacement(t, home)
           w == WalkEnd(t, k)
           At(i) == Behind(t.cap, home, i)
<1>0. t.cap \in Nat /\ k # None
  BY KeyAssumption DEF ShortSound, ShortCap
<1>1. home \in 0 .. t.cap - 1
  BY HomePairIsEven DEF ShortSound
<1>2. /\ d \in 0 .. t.cap - 1 /\ t.keys[At(d)] = None
      /\ \A j \in 0 .. d - 1 : t.keys[At(j)] # None
  BY <1>1, FirstEmptyIsFirst DEF ShortSound, FirstEmpty
<1>3. /\ w \in 0 .. (t.cap \div 2) - 1 /\ Stops(t, k, w)
      /\ \A q \in 0 .. w - 1 : ~Stops(t, k, q)
  BY WalkEnds
<1>4. /\ Pair(t, k, w) = {At(2 * w), At(2 * w + 1)} /\ At(2 * w + 1) = At(2 * w) + 1
      /\ Pair(t, k, w) \subseteq 0 .. t.cap - 1
      /\ 2 * w \in 0 .. t.cap - 1 /\ 2 * w + 1 \in 0 .. t.cap - 1
  BY <1>3, PairSlots DEF ShortSound
<1>5. ASSUME Holds(t, k)
      PROVE  SlotOf(t, k) \in Occupied(t) /\ t.keys[SlotOf(t, k)] = k
  <2>1. SlotOf(t, k) \in Pair(t, k, w) /\ t.keys[SlotOf(t, k)] = k
    BY <1>5, Zenon DEF Holds, SlotOf
  <2> QED
    BY <2>1, <1>0, <1>4 DEF Occupied
<1>6. ASSUME NEW s \in Occupied(t), t.keys[s] = k
      PROVE  Holds(t, k)
  <2>1. PICK i \in 0 .. t.cap - 1 : s = At(i) /\ \A j \in 0 .. i - 1 : t.keys[At(j)] # None
    BY <1>6 DEF ShortSound, Reached, ShortHomes
  <2>2. PICK p \in 0 .. (t.cap \div 2) - 1 : i = 2 * p \/ i = 2 * p + 1
    <3>1. i \div 2 \in 0 .. (t.cap \div 2) - 1 /\ (i = 2 * (i \div 2) \/ i = 2 * (i \div 2) + 1)
      BY <1>0 DEF ShortSound, ShortCap
    <3> QED
      BY <3>1
  <2>3. Pair(t, k, p) = {At(2 * p), At(2 * p + 1)}
    BY PairSlots DEF ShortSound
  <2>4. Stops(t, k, p)
    BY <2>1, <2>2, <2>3, <1>6 DEF Stops
  <2>5. w <= p
    <3>1. ~(p \in 0 .. w - 1)
      BY <1>3, <2>4
    <3> HIDE DEF w
    <3> QED
      BY <3>1, <1>3, <1>0
  <2>6. CASE w = p
    BY <2>6, <2>1, <2>2, <2>3, <1>6 DEF Holds
  <2>7. CASE w < p
    <3>1. 2 * w \in 0 .. i - 1 /\ 2 * w + 1 \in 0 .. i - 1
      <4> HIDE DEF w
      <4> QED
        BY <2>7, <2>2, <1>3, <1>0
    <3>2. t.keys[At(2 * w)] # None /\ t.keys[At(2 * w + 1)] # None
      BY <3>1, <2>1
    <3>3. PICK r \in Pair(t, k, w) : t.keys[r] = k
      BY <1>3, <1>4, <3>2 DEF Stops
    <3> QED
      BY <3>3 DEF Holds
  <2> QED
    <3> HIDE DEF w
    <3> QED
      BY <2>5, <2>6, <2>7, <1>3, <1>0
<1>7. ASSUME ~Holds(t, k)
      PROVE  MissSlot(t, k) = FirstEmpty(t, HomePair(k, t.cap))
  <2>1. t.keys[At(2 * w)] = None \/ t.keys[At(2 * w + 1)] = None
    BY <1>7, <1>3, <1>4 DEF Stops, Holds
  <2>2. 2 * w <= d
    <3>1. SUFFICES ASSUME d < 2 * w PROVE FALSE
      <4> HIDE DEF w, d
      <4> QED
        BY <3>1, <1>2, <1>3, <1>0
    <3>2. PICK q \in 0 .. w - 1 : d = 2 * q \/ d = 2 * q + 1
      <4>1. d \div 2 \in 0 .. w - 1 /\ (d = 2 * (d \div 2) \/ d = 2 * (d \div 2) + 1)
        <5> HIDE DEF w, d
        <5> QED
          BY <3>1, <1>2, <1>3, <1>0
      <4> QED
        BY <4>1
    <3>3. q \in 0 .. (t.cap \div 2) - 1
      <4> HIDE DEF w
      <4> QED
        BY <1>3, <1>0
    <3>4. Pair(t, k, q) = {At(2 * q), At(2 * q + 1)}
      BY <3>3, PairSlots DEF ShortSound
    <3>5. Stops(t, k, q)
      BY <3>2, <3>4, <1>2 DEF Stops
    <3> QED
      BY <3>5, <1>3
  <2>3. d = IF t.keys[At(2 * w)] = None THEN 2 * w ELSE 2 * w + 1
    <3>1. ASSUME NEW e \in {2 * w, 2 * w + 1}, t.keys[At(e)] = None PROVE d <= e
      <4>1. ~(e \in 0 .. d - 1)
        BY <3>1, <1>2
      <4>2. e \in 0 .. t.cap - 1
        BY <1>4
      <4> HIDE DEF w, d
      <4> QED
        BY <4>1, <4>2, <1>2, <1>0
    <3>2. CASE t.keys[At(2 * w)] = None
      <4>1. d <= 2 * w
        BY <3>1, <3>2
      <4> HIDE DEF w, d
      <4> QED
        BY <4>1, <2>2, <3>2, <1>2, <1>3, <1>0
    <3>3. CASE t.keys[At(2 * w)] # None
      <4>1. d <= 2 * w + 1
        BY <3>1, <3>3, <2>1
      <4>2. d # 2 * w
        BY <1>2, <3>3
      <4> HIDE DEF w, d
      <4> QED
        BY <4>1, <4>2, <2>2, <3>3, <1>2, <1>3, <1>0
    <3> QED
      BY <3>2, <3>3
  <2>4. FirstEmpty(t, home) = At(d)
    BY DEF FirstEmpty
  <2>5. At(2 * w) \in Nat
    BY <1>4, <1>0
  <2>6. /\ At(d) \in Pair(t, k, w) /\ t.keys[At(d)] = None
        /\ \A r \in Pair(t, k, w) : t.keys[r] = None => At(d) <= r
    <3>1. CASE t.keys[At(2 * w)] = None
      <4>1. At(d) = At(2 * w)
        BY <2>3, <3>1
      <4> HIDE DEF At, w, d
      <4> QED
        BY <4>1, <3>1, <2>5, <1>4
    <3>2. CASE t.keys[At(2 * w)] # None
      <4>1. At(d) = At(2 * w + 1)
        BY <2>3, <3>2
      <4> HIDE DEF At, w, d
      <4> QED
        BY <4>1, <3>2, <2>5, <2>1, <1>4
    <3> QED
      BY <3>1, <3>2
  <2>7. \A r \in Pair(t, k, w) : /\ t.keys[r] = None
                                 /\ \A q \in Pair(t, k, w) : t.keys[q] = None => r <= q
                                 => r = At(d)
    <3> HIDE DEF At, w, d
    <3> QED
      BY <2>6, <2>5, <1>4, <1>0
  <2>8. MissSlot(t, k) = At(d)
    <3> HIDE DEF At, w, d
    <3>1. MissSlot(t, k) = CHOOSE r \in Pair(t, k, w) :
             t.keys[r] = None /\ \A q \in Pair(t, k, w) : t.keys[q] = None => r <= q
      BY DEF MissSlot, w
    <3> QED
      BY <3>1, <2>6, <2>7
  <2> QED
    BY <2>4, <2>8
<1> QED
  <2>1. Holds(t, k) => \E s \in Occupied(t) : t.keys[s] = k
    BY <1>5
  <2>2. (\E s \in Occupied(t) : t.keys[s] = k) => Holds(t, k)
    BY <1>6
  <2> QED
    BY <2>1, <2>2, <1>5, <1>7

LongHomes(cap, full) == [k \in Long |-> LongHome(LongHash(k, full), cap)]

\* What the invariant says of the long table.
LongSound(t) ==
    /\ KeysOf(t, Long) /\ t.full \in BOOLEAN
    /\ t.cap = 0 \/ HasRoom(t)
    /\ Reached(t, LongHomes(t.cap, t.full)) /\ Unique(t)
    /\ \A s \in Occupied(t) : t.hash[s] = LongHash(t.keys[s], t.full)

\* The homes of the long table are slots, under either hash.
LEMMA LongHomesAreSlots ==
    ASSUME NEW cap \in Nat \ {0}, NEW full \in BOOLEAN
    PROVE  LongHomes(cap, full) \in [Long -> 0 .. cap - 1]
<1> SUFFICES ASSUME NEW k \in Long PROVE LongHome(LongHash(k, full), cap) \in 0 .. cap - 1
  BY DEF LongHomes
<1>1. LongHash(k, full) \in Nat
  BY HashAssumption DEF LongHash
<1>2. PICK hash : hash = LongHash(k, full)
  OBVIOUS
<1>3. hash % cap \in 0 .. cap - 1
  BY <1>1, <1>2
<1> QED
  BY <1>2, <1>3 DEF LongHome

(***************************************************************************)
(* A lookup of the long table finds a key exactly if the table has it.     *)
(***************************************************************************)
LEMMA LongLookup ==
    ASSUME NEW t, LongSound(t), NEW k \in Long
    PROVE  /\ LongHolds(t, k) <=> \E s \in Occupied(t) : t.keys[s] = k
           /\ LongHolds(t, k) => LongSlotOf(t, k) \in Occupied(t) /\ t.keys[LongSlotOf(t, k)] = k
<1> DEFINE hash == LongHash(k, t.full)
           home == LongHome(hash, t.cap)
           d == Displacement(t, home)
           At(i) == Behind(t.cap, home, i)
           M == LongMatches(t, k)
<1>0. t.cap \in Nat /\ k # None
  BY KeyAssumption DEF LongSound, KeysOf
<1>1. CASE t.cap = 0
  <2>1. Occupied(t) = {}
    BY <1>1 DEF Occupied
  <2> QED
    BY <2>1, <1>1 DEF LongHolds
<1>2. CASE t.cap # 0
  <2>1. home \in 0 .. t.cap - 1
    <3>1. LongHomes(t.cap, t.full) \in [Long -> 0 .. t.cap - 1]
      BY <1>0, <1>2, LongHomesAreSlots DEF LongSound
    <3>2. LongHomes(t.cap, t.full)[k] = home
      BY DEF LongHomes
    <3> QED
      BY <3>1, <3>2
  <2>2. /\ d \in 0 .. t.cap - 1 /\ t.keys[At(d)] = None
        /\ \A j \in 0 .. d - 1 : t.keys[At(j)] # None
    BY <1>2, <2>1, FirstEmptyIsFirst DEF LongSound, FirstEmpty
  <2>3. M = {i \in 0 .. d - 1 : t.hash[At(i)] = hash /\ t.keys[At(i)] = k}
    BY DEF LongMatches
  <2>4. M \in SUBSET Nat
    <3> HIDE DEF d, hash, At
    <3> QED
      BY <2>2, <2>3, <1>0
  <2>5. ASSUME M # {}
        PROVE  LongSlotOf(t, k) \in Occupied(t) /\ t.keys[LongSlotOf(t, k)] = k
    <3>1. PICK m \in M : \A j \in M : m <= j
      <4> HIDE DEF M
      <4> QED
        BY <2>4, <2>5, LeastMember
    <3>2. PICK i : i = CHOOSE x \in M : \A j \in M : x <= j
      OBVIOUS
    <3>3. i \in M
      <4> HIDE DEF M
      <4> QED
        BY <3>1, <3>2
    <3>4. LongSlotOf(t, k) = At(i)
      BY <3>2 DEF LongSlotOf
    <3>5. i \in 0 .. t.cap - 1 /\ t.keys[At(i)] = k
      <4>1. i \in 0 .. d - 1 /\ t.keys[At(i)] = k
        BY <2>3, <3>3
      <4> HIDE DEF d, At
      <4> QED
        BY <4>1, <2>2, <1>0
    <3>6. At(i) \in 0 .. t.cap - 1
      BY <3>5, <2>1, <1>0, BehindIsASlot
    <3> HIDE DEF At
    <3> QED
      BY <3>4, <3>5, <3>6, <1>0 DEF Occupied
  <2>6. ASSUME NEW s \in Occupied(t), t.keys[s] = k
        PROVE  M # {}
    <3>1. PICK i \in 0 .. t.cap - 1 : s = At(i) /\ \A j \in 0 .. i - 1 : t.keys[At(j)] # None
      BY <2>6 DEF LongSound, Reached, LongHomes
    <3>2. t.hash[s] = hash
      BY <2>6 DEF LongSound
    <3>3. t.keys[s] # None
      BY <2>6, <1>0
    <3>4. i < d
      <4>1. ~(d \in 0 .. i - 1) /\ d # i
        BY <3>1, <2>2, <3>3
      <4> HIDE DEF d
      <4> QED
        BY <4>1, <2>2, <1>0
    <3>5. i \in 0 .. d - 1
      <4> HIDE DEF d
      <4> QED
        BY <3>4, <2>2, <1>0
    <3> QED
      BY <3>5, <3>1, <3>2, <2>3, <2>6
  <2>7. LongHolds(t, k) <=> M # {}
    BY <1>2 DEF LongHolds
  <2>8. M # {} => \E s \in Occupied(t) : t.keys[s] = k
    BY <2>5
  <2>9. (\E s \in Occupied(t) : t.keys[s] = k) => M # {}
    BY <2>6
  <2> QED
    BY <2>5, <2>7, <2>8, <2>9
<1> QED
  BY <1>1, <1>2

(***************************************************************************)
(* The two tables of a tokenizer, and what they hold.                      *)
(***************************************************************************)
Values == {v \in [spilled : BOOLEAN, count : Nat, at : Nat, lanes : Seq(Token)] :
              ~v.spilled => v.count = Len(v.lanes) /\ v.count <= 4}

ShortShape(t) ==
    /\ t = [keys |-> t.keys, vals |-> t.vals, cap |-> t.cap, len |-> t.len]
    /\ t.cap \in Nat /\ t.len \in Nat
    /\ t.keys \in [0 .. t.cap - 1 -> Short \union {None}]
    /\ t.vals \in [0 .. t.cap - 1 -> Values]

LongShape(t) ==
    /\ t = [keys |-> t.keys, vals |-> t.vals, hash |-> t.hash, cap |-> t.cap,
            len |-> t.len, full |-> t.full]
    /\ t.cap \in Nat /\ t.len \in Nat /\ t.full \in BOOLEAN
    /\ t.keys \in [0 .. t.cap - 1 -> Long \union {None}]
    /\ t.vals \in [0 .. t.cap - 1 -> Values]
    /\ t.hash \in [0 .. t.cap - 1 -> Nat]

ModelTypes ==
    /\ coldDiet \in BOOLEAN /\ ignoreMerges \in BOOLEAN
    /\ ids \in [Pretoken -> Token \union {NoId}]
    /\ free \subseteq Token /\ added \subseteq Pretoken
    /\ stage \in {"built", "configured", "encoding"}

TableTypes == ShortShape(short) /\ LongShape(long) /\ arena \in Seq(Token)

WorkTypes ==
    /\ seeding \subseteq Short /\ overwriting \subseteq Short
    /\ storing = [table |-> storing.table, key |-> storing.key,
                  val   |-> storing.val, slot |-> storing.slot]
    /\ storing.table \in {"none", "short", "long"} /\ storing.val \in Values
    /\ moving = [table |-> moving.table, from |-> moving.from, next |-> moving.next]
    /\ moving.table \in {"none", "short", "long", "full"} /\ moving.next \in Nat

LoopTypes ==
    /\ pc \in {"idle", "stores", "probe", "slow", "miss", "emitted"}
    /\ batch \in Seq(Pretoken) /\ Len(batch) <= PretokenChunk /\ at \in Nat \ {0}
    /\ out \in Seq(Token) /\ want \in Seq(Token) /\ room \in Nat

Types == ModelTypes /\ TableTypes /\ WorkTypes /\ LoopTypes

\* Where the loop and the calls are, and what is then under way.
Control ==
    /\ storing.table = "none" => storing = NoEntry
    /\ moving.table = "none" => moving = Idle
    /\ storing.table = "short" => storing.key \in Short /\ pc \in {"stores", "miss"}
    /\ storing.table = "long" => storing.key \in Long /\ pc = "miss"
    /\ moving.table = "short" => storing.table = "short"
    /\ moving.table \in {"long", "full"} => storing.table = "long"
    /\ pc # "stores" => seeding = {} /\ overwriting = {}
    /\ pc \in {"idle", "stores"} => out = <<>> /\ want = <<>>
    /\ stage # "encoding" => pc \in {"idle", "stores"}

\* The entries a table that is moved has yet to give up.
Left == {s \in moving.next .. moving.from.cap - 1 : moving.from.keys[s] # None}
LeftShort == IF moving.table = "short" THEN Left ELSE {}
LeftLong == IF moving.table \in {"long", "full"} THEN Left ELSE {}

ShortInv ==
    /\ ShortSound(short)
    /\ short.len * 4 <= short.cap * 3
    /\ Cardinality(Occupied(short)) + Cardinality(LeftShort) = short.len
    /\ moving.table = "short" =>
          /\ ShortShape(moving.from) /\ Unique(moving.from) /\ moving.next <= moving.from.cap
          /\ \A s \in Left : /\ moving.from.keys[s] # storing.key
                             /\ \A r \in Occupied(short) : moving.from.keys[s] # short.keys[r]
    /\ storing.table = "short" =>
          /\ \A r \in Occupied(short) : short.keys[r] # storing.key
          /\ moving.table = "none" =>
                storing.slot = FirstEmpty(short, HomePair(storing.key, short.cap))

LongInv ==
    /\ LongSound(long)
    /\ long.len * 4 <= long.cap * 3
    /\ Cardinality(Occupied(long)) + Cardinality(LeftLong) = long.len
    /\ moving.table \in {"long", "full"} =>
          /\ LongShape(moving.from) /\ Unique(moving.from) /\ moving.next <= moving.from.cap
          /\ long.cap # 0
          /\ moving.table = "long" =>
                \A s \in Left : moving.from.hash[s] = LongHash(moving.from.keys[s], long.full)
          /\ moving.table = "full" => long.full
          /\ \A s \in Left : /\ moving.from.keys[s] # storing.key
                             /\ \A r \in Occupied(long) : moving.from.keys[s] # long.keys[r]
    /\ storing.table = "long" => \A r \in Occupied(long) : long.keys[r] # storing.key

\* The value v of k: it is k's encoding, unless a call has yet to store that.
Gives(k, v) ==
    /\ InArena(v, arena)
    /\ k \notin seeding \union overwriting => Unpacked(v, arena) = Encoding(k)

ValuesInv ==
    /\ \A s \in Occupied(short) : Gives(short.keys[s], short.vals[s])
    /\ \A s \in LeftShort : Gives(moving.from.keys[s], moving.from.vals[s])
    /\ \A s \in Occupied(long) : Gives(long.keys[s], long.vals[s])
    /\ \A s \in LeftLong : Gives(moving.from.keys[s], moving.from.vals[s])
    /\ storing.table # "none" => Gives(storing.key, storing.val)

\* The short table, or what is on its way into it, has an entry for k.
Stored(k) ==
    \/ \E s \in Occupied(short) : short.keys[s] = k
    \/ \E s \in LeftShort : moving.from.keys[s] = k
    \/ storing.table = "short" /\ storing.key = k

CallsInv ==
    /\ overwriting \subseteq Overwritten(added, ids)
    /\ seeding \intersect Overwritten(added, ids) \subseteq overwriting
    /\ \A k \in Overwritten(added, ids) : k \in overwriting \/ Stored(k)
    /\ stage = "built" =>
          /\ added = {} /\ seeding \subseteq Seeds(coldDiet, ids)
          /\ \A k \in Short : Stored(k) => k \in Seeds(coldDiet, ids)
    /\ stage # "encoding" => Occupied(long) = {}

LoopInv ==
    /\ pc \in {"probe", "slow", "miss"} => out = want
    /\ pc = "emitted" => out = want \o Encoding(batch[at])
    /\ pc \in {"slow", "miss", "emitted"} => at <= Len(batch)
    /\ pc = "miss" => /\ storing.table # "none" /\ storing.key = batch[at]
                      /\ Encoding(storing.key) = Symbols(storing.key)
    /\ pc = "probe" => /\ at <= Len(batch) + 1 /\ view = short.cap
                       /\ room >= Len(out) + 4 * (Len(batch) + 1 - at)

IInv == Types /\ Control /\ ShortInv /\ LongInv /\ ValuesInv /\ CallsInv /\ LoopInv

---------------------------------------------------------------------------
(***************************************************************************)
(* Values: a packed encoding is unpacked to what was packed, and what the  *)
(* arena gains later does not change it.                                   *)
(***************************************************************************)
LEMMA ModOfSmall ==
    ASSUME NEW x \in Nat, NEW m \in Nat, x < m
    PROVE  x % m = x
OBVIOUS

\* Tokens appended to the arena leave the values packed before as they are.
LEMMA UnpackedKept ==
    ASSUME NEW tokens \in Seq(Token), NEW more \in Seq(Token), NEW v \in Values,
           InArena(v, tokens)
    PROVE  /\ InArena(v, tokens \o more)
           /\ Unpacked(v, tokens \o more) = Unpacked(v, tokens)
<1>1. Len(tokens \o more) = Len(tokens) + Len(more) /\ Len(tokens) \in Nat /\ Len(more) \in Nat
  OBVIOUS
<1>2. v.at \in Nat /\ v.count \in Nat
  BY DEF Values
<1>3. InArena(v, tokens \o more)
  BY <1>1, <1>2 DEF InArena
<1>4. CASE v.spilled
  <2>1. v.at + v.count <= Len(tokens)
    BY <1>4 DEF InArena
  <2>2. SubSeq(tokens \o more, v.at + 1, v.at + v.count) = SubSeq(tokens, v.at + 1, v.at + v.count)
    <3>1. CASE v.count = 0
      BY <3>1, <1>2, SubSeqEmpty
    <3>2. CASE v.count # 0
      <4>1. v.at + 1 \in 1 .. Len(tokens) /\ v.at + v.count \in 1 .. Len(tokens)
        BY <2>1, <1>1, <1>2, <3>2
      <4> QED
        BY <4>1, SubSeqOfConcat1
    <3> QED
      BY <3>1, <3>2
  <2> QED
    BY <1>3, <1>4, <2>2 DEF Unpacked
<1>5. CASE ~v.spilled
  BY <1>3, <1>5 DEF Unpacked
<1> QED
  BY <1>4, <1>5

\* A value that spills gives its tokens back from the arena.
LEMMA SpilledGives ==
    ASSUME NEW tokens \in Seq(Token), NEW symbols \in Seq(Token)
    PROVE  /\ Spilled(symbols, tokens) \in Values
           /\ tokens \o symbols \in Seq(Token)
           /\ InArena(Spilled(symbols, tokens), tokens \o symbols)
           /\ Unpacked(Spilled(symbols, tokens), tokens \o symbols) = symbols
<1> DEFINE v == Spilled(symbols, tokens)
<1>1. /\ v \in Values /\ v.spilled /\ v.at = Len(tokens) /\ v.count = Len(symbols)
  BY DEF Spilled, Values
<1>2. Len(tokens \o symbols) = Len(tokens) + Len(symbols) /\ Len(tokens) \in Nat /\ Len(symbols) \in Nat
  OBVIOUS
<1>3. SubSeq(tokens \o symbols, Len(tokens) + 1, Len(tokens) + Len(symbols)) = symbols
  BY Z3
<1> QED
  BY <1>1, <1>2, <1>3 DEF InArena, Unpacked

\* What is packed is unpacked, whether it fits the lanes or spills.
LEMMA PackedGives ==
    ASSUME NEW tokens \in Seq(Token), NEW symbols \in Seq(Token)
    PROVE  /\ Packed(symbols, tokens) \in Values
           /\ ArenaWith(symbols, tokens) \in Seq(Token)
           /\ InArena(Packed(symbols, tokens), ArenaWith(symbols, tokens))
           /\ Unpacked(Packed(symbols, tokens), ArenaWith(symbols, tokens)) = symbols
           /\ \A v \in Values : InArena(v, tokens) =>
                 /\ InArena(v, ArenaWith(symbols, tokens))
                 /\ Unpacked(v, ArenaWith(symbols, tokens)) = Unpacked(v, tokens)
<1>1. CASE Inlinable(symbols)
  <2>1. /\ Packed(symbols, tokens)
             = [spilled |-> FALSE, count |-> Len(symbols), at |-> 0, lanes |-> symbols]
        /\ ArenaWith(symbols, tokens) = tokens
    BY <1>1 DEF Packed, ArenaWith
  <2>2. Len(symbols) \in 1 .. 4 /\ symbols[1] < InlineLimit /\ symbols[1] \in Nat
    <3>1. Len(symbols) \in 1 .. 4 /\ symbols[1] < InlineLimit
      BY <1>1 DEF Inlinable
    <3>2. 1 \in 1 .. Len(symbols)
      BY <3>1
    <3>3. symbols[1] \in Token
      BY <3>2
    <3> QED
      BY <3>1, <3>3, MergedAssumption
  <2>3. symbols[1] % InlineLimit = symbols[1]
    <3>1. PICK x : x = symbols[1]
      OBVIOUS
    <3>2. x \in Nat /\ InlineLimit \in Nat /\ x < InlineLimit
      BY <3>1, <2>2, MergedAssumption
    <3> QED
      BY <3>1, <3>2, ModOfSmall
  <2>4. Lanes(Packed(symbols, tokens)) = symbols
    <3>1. Lanes(Packed(symbols, tokens))
            = [i \in 1 .. Len(symbols) |-> IF i = 1 THEN symbols[i] % InlineLimit ELSE symbols[i]]
      BY <2>1 DEF Lanes
    <3>2. \A i \in 1 .. Len(symbols) :
             (IF i = 1 THEN symbols[i] % InlineLimit ELSE symbols[i]) = symbols[i]
      BY <2>3
    <3>3. symbols = [i \in 1 .. Len(symbols) |-> symbols[i]]
      OBVIOUS
    <3> QED
      BY <3>1, <3>2, <3>3
  <2>5. PICK v : v = [spilled |-> FALSE, count |-> Len(symbols), at |-> 0, lanes |-> symbols]
    OBVIOUS
  <2>6. v \in Values
    BY <2>2, <2>5 DEF Values
  <2>7. ~v.spilled
    BY <2>5
  <2>8. InArena(v, tokens) /\ Unpacked(v, tokens) = Lanes(v)
    BY <2>7 DEF InArena, Unpacked
  <2> QED
    BY <2>1, <2>4, <2>5, <2>6, <2>8
<1>2. CASE ~Inlinable(symbols)
  <2>1. /\ Packed(symbols, tokens) = Spilled(symbols, tokens)
        /\ ArenaWith(symbols, tokens) = tokens \o symbols
    BY <1>2 DEF Packed, ArenaWith, Spilled
  <2> QED
    BY <2>1, SpilledGives, UnpackedKept
<1> QED
  BY <1>1, <1>2

\* A value that did not spill is its lanes.
LEMMA UnpackedIsTokens ==
    ASSUME NEW tokens \in Seq(Token), NEW v \in Values, InArena(v, tokens), ~v.spilled
    PROVE  Unpacked(v, tokens) = Lanes(v) /\ Len(Lanes(v)) = v.count /\ v.count \in 0 .. 4
<1>1. v.count \in Nat /\ v.count <= 4
  BY DEF Values
<1>2. Len(Lanes(v)) = v.count
  BY <1>1 DEF Lanes
<1> QED
  BY <1>1, <1>2 DEF Unpacked

\* The merges of a pretoken and its encoding are tokens.
LEMMA EncodingType ==
    ASSUME Types
    PROVE  \A k \in Pretoken : Symbols(k) \in Seq(Token) /\ Encoding(k) \in Seq(Token)
<1> SUFFICES ASSUME NEW k \in Pretoken PROVE Symbols(k) \in Seq(Token) /\ Encoding(k) \in Seq(Token)
  OBVIOUS
<1>1. Merged[k] \in Seq(Token)
  BY MergedAssumption
<1>2. ids[k] # NoId => <<ids[k]>> \in Seq(Token)
  BY DEF Types, ModelTypes
<1>3. Symbols(k) \in Seq(Token)
  BY <1>1, <1>2 DEF Symbols
<1> QED
  BY <1>2, <1>3 DEF Encoding, Overwritten

---------------------------------------------------------------------------
(***************************************************************************)
(* What a step leaves alone keeps the parts of the invariant about it.     *)
(***************************************************************************)
LEMMA TablesFrame ==
    ASSUME ShortInv, LongInv, UNCHANGED <<short, long, storing, moving>>
    PROVE  ShortInv' /\ LongInv'
<1>1. Left' = Left /\ LeftShort' = LeftShort /\ LeftLong' = LeftLong
  BY DEF Left, LeftShort, LeftLong
<1>2. ShortInv'
  BY <1>1 DEF ShortInv
<1>3. LongInv'
  BY <1>1 DEF LongInv
<1> QED
  BY <1>2, <1>3

\* Only the vocabulary and its flags decide an encoding.
LEMMA EncodingFrame ==
    ASSUME UNCHANGED <<ids, added, ignoreMerges>>
    PROVE  \A k : Symbols(k)' = Symbols(k) /\ Encoding(k)' = Encoding(k)
BY DEF Symbols, Encoding, Overwritten

\* A step that leaves tables, arena and vocabulary alone keeps the stored values.
LEMMA ValuesFrame ==
    ASSUME ValuesInv,
           UNCHANGED <<short, long, arena, storing, moving, work, ids, added, ignoreMerges>>
    PROVE  ValuesInv'
<1>1. LeftShort' = LeftShort /\ LeftLong' = LeftLong
  BY DEF Left, LeftShort, LeftLong
<1>2. \A k, v : Gives(k, v) => Gives(k, v)'
  BY EncodingFrame DEF Gives, work
<1> QED
  BY <1>1, <1>2 DEF ValuesInv

\* A step that leaves tables, vocabulary and work alone keeps what the calls know of them.
LEMMA CallsFrame ==
    ASSUME CallsInv,
           UNCHANGED <<short, long, storing, moving, work, ids, added, coldDiet, stage>>
    PROVE  CallsInv'
<1>1. LeftShort' = LeftShort
  BY DEF Left, LeftShort
<1>2. \A k : Stored(k)' = Stored(k)
  BY <1>1 DEF Stored
<1> QED
  BY <1>2 DEF CallsInv, work

\* Each part of the state keeps its types when a step leaves it alone.
LEMMA TypesFrame ==
    ASSUME Types
    PROVE  /\ UNCHANGED model => ModelTypes'
           /\ UNCHANGED tables => TableTypes'
           /\ UNCHANGED <<work, storing, moving>> => WorkTypes'
           /\ UNCHANGED <<pc, loop>> => LoopTypes'
<1>1. UNCHANGED model => ModelTypes'
  BY DEF Types, ModelTypes, model
<1>2. UNCHANGED tables => TableTypes'
  BY DEF Types, TableTypes, tables
<1>3. UNCHANGED <<work, storing, moving>> => WorkTypes'
  BY DEF Types, WorkTypes, work
<1>4. UNCHANGED <<pc, loop>> => LoopTypes'
  BY DEF Types, LoopTypes, loop
<1> QED
  BY <1>1, <1>2, <1>3, <1>4

\* A step of the emit loop that enters nothing.
LEMMA LoopFrame ==
    ASSUME IInv, UNCHANGED <<model, tables, work, storing, moving>>, LoopTypes'
    PROVE  Types' /\ ShortInv' /\ LongInv' /\ ValuesInv' /\ CallsInv'
<1>1. UNCHANGED <<short, long, arena, storing, moving, work, ids, added, ignoreMerges, coldDiet, stage>>
  BY DEF model, tables
<1>2. Types'
  BY TypesFrame DEF IInv, Types
<1> QED
  BY <1>1, <1>2, TablesFrame, ValuesFrame, CallsFrame DEF IInv

---------------------------------------------------------------------------
(***************************************************************************)
(* The emit loop.                                                          *)
(***************************************************************************)
LEMMA NothingEntered ==
    ASSUME IInv, pc \in {"idle", "probe", "slow", "emitted"}
    PROVE  /\ seeding = {} /\ overwriting = {} /\ storing = NoEntry /\ moving = Idle
           /\ LeftShort = {} /\ LeftLong = {}
           /\ \A s \in Occupied(short) :
                 InArena(short.vals[s], arena) /\ Unpacked(short.vals[s], arena) = Encoding(short.keys[s])
           /\ \A s \in Occupied(long) :
                 InArena(long.vals[s], arena) /\ Unpacked(long.vals[s], arena) = Encoding(long.keys[s])
<1>1. seeding = {} /\ overwriting = {}
  BY DEF IInv, Control
<1>2. storing = NoEntry
  BY DEF IInv, Control, Types, WorkTypes
<1>3. moving = Idle
  BY <1>2 DEF IInv, Control, Types, WorkTypes, NoEntry
<1>4. LeftShort = {} /\ LeftLong = {}
  BY <1>3 DEF LeftShort, LeftLong, Idle
<1> QED
  BY <1>1, <1>2, <1>3, <1>4 DEF IInv, ValuesInv, Gives

\* A probe that finds its key writes the lanes and passes the pretoken.
LEMMA ProbeHitKeeps ==
    ASSUME IInv, ProbeHit
    PROVE  IInv'
<1> DEFINE k == batch[at]
<1>1. /\ pc = "probe" /\ at \in 1 .. Len(batch) /\ k \in Short /\ k \in Pretoken
      /\ UNCHANGED <<model, tables, pc, work, storing, moving, batch, view, room>>
      /\ want' = want \o Encoding(k) /\ at' = at + 1
  BY DEF ProbeHit, IInv, Types, LoopTypes, Pretoken
<1>2. PICK s \in Pairs(k) : ~short.vals[s].spilled /\ out' = out \o Lanes(short.vals[s])
  BY DEF ProbeHit
<1>3. view = short.cap /\ out = want /\ room >= Len(out) + 4 * (Len(batch) + 1 - at)
  BY <1>1 DEF IInv, LoopInv
<1>4. s \in Occupied(short) /\ short.keys[s] = k
  <2>1. ShortCap(short.cap) /\ k # None
    BY <1>1, KeyAssumption DEF IInv, ShortInv, ShortSound
  <2>2. /\ HomePair(k, short.cap) \in 0 .. short.cap - 1
        /\ HomePair(k, short.cap) + 1 \in 0 .. short.cap - 1
    BY <1>1, <2>1, HomePairIsEven
  <2> QED
    BY <1>3, <2>1, <2>2 DEF Pairs, Occupied
<1>5. short.vals[s] \in Values
  BY <1>4 DEF IInv, Types, TableTypes, ShortShape, Occupied
<1>6. Lanes(short.vals[s]) = Encoding(k) /\ Len(Encoding(k)) \in 0 .. 4
  BY <1>1, <1>2, <1>4, <1>5, NothingEntered, UnpackedIsTokens DEF IInv, Types, TableTypes
<1>7. Encoding(k) \in Seq(Token)
  BY <1>1, EncodingType DEF IInv
<1>8. out \in Seq(Token) /\ want \in Seq(Token) /\ batch \in Seq(Pretoken) /\ room \in Nat
  BY DEF IInv, Types, LoopTypes
<1>9. out' = want' /\ out' \in Seq(Token) /\ Len(out') = Len(out) + Len(Encoding(k))
  BY <1>1, <1>2, <1>3, <1>6, <1>7, <1>8
<1>10. LoopTypes'
  BY <1>1, <1>9 DEF IInv, Types, LoopTypes
<1>11. room' >= Len(out') + 4 * (Len(batch') + 1 - at')
  <2>1. Len(out) \in Nat /\ Len(batch) \in Nat
    BY <1>8
  <2>2. PICK n, m, l : n = Len(out) /\ m = Len(batch) /\ l = Len(Encoding(k))
    OBVIOUS
  <2>3. /\ n \in Nat /\ m \in Nat /\ l \in 0 .. 4 /\ at \in 1 .. m /\ room \in Nat
        /\ room >= n + 4 * (m + 1 - at)
    BY <2>1, <2>2, <1>1, <1>3, <1>6, <1>8
  <2>4. room >= n + l + 4 * (m + 1 - (at + 1))
    BY <2>3
  <2>5. room' = room /\ batch' = batch /\ at' = at + 1 /\ Len(out') = n + l
    BY <2>2, <1>1, <1>9
  <2> QED
    BY <2>2, <2>4, <2>5
<1>12. LoopInv'
  BY <1>1, <1>3, <1>8, <1>9, <1>11 DEF LoopInv, tables
<1>13. Control'
  BY <1>1 DEF IInv, Control, work, model
<1> QED
  BY <1>1, <1>10, <1>12, <1>13, LoopFrame DEF IInv

\* A probe that finds nothing, or a spilled value, leaves the fast path.
LEMMA ProbeMissKeeps ==
    ASSUME IInv, ProbeMiss
    PROVE  IInv'
<1>1. /\ pc = "probe" /\ at <= Len(batch) /\ pc' = "slow"
      /\ UNCHANGED <<model, tables, work, storing, moving, loop>>
  BY DEF ProbeMiss
<1>2. LoopTypes'
  BY <1>1 DEF IInv, Types, LoopTypes, loop
<1>3. LoopInv'
  BY <1>1 DEF IInv, LoopInv, loop
<1>4. Control'
  BY <1>1, NothingEntered DEF IInv, Control, work, model, loop, NoEntry, Idle
<1> QED
  BY <1>1, <1>2, <1>3, <1>4, LoopFrame DEF IInv

\* A lookup of the slow path that finds its key emits the stored tokens.
LEMMA SlowHitKeeps ==
    ASSUME IInv, SlowHit
    PROVE  IInv'
<1> DEFINE k == batch[at]
<1>1. /\ pc = "slow" /\ pc' = "emitted" /\ at \in 1 .. Len(batch) /\ k \in Pretoken
      /\ UNCHANGED <<model, tables, work, storing, moving, batch, at, view, want>>
      /\ out = want
  BY DEF SlowHit, IInv, Types, LoopTypes, LoopInv
<1>2. Emit(Encoding(k))
  <2>1. CASE k \in Short /\ Holds(short, k) /\ Emit(Unpacked(short.vals[SlotOf(short, k)], arena))
    <3>1. SlotOf(short, k) \in Occupied(short) /\ short.keys[SlotOf(short, k)] = k
      BY <2>1, ShortLookup DEF IInv, ShortInv
    <3> QED
      BY <2>1, <3>1, <1>1, NothingEntered
  <2>2. CASE k \in Long /\ LongHolds(long, k) /\ Emit(Unpacked(long.vals[LongSlotOf(long, k)], arena))
    <3>1. LongSlotOf(long, k) \in Occupied(long) /\ long.keys[LongSlotOf(long, k)] = k
      BY <2>2, LongLookup DEF IInv, LongInv
    <3> QED
      BY <2>2, <3>1, <1>1, NothingEntered
  <2> QED
    BY <2>1, <2>2 DEF SlowHit
<1>3. Encoding(k) \in Seq(Token)
  BY <1>1, EncodingType DEF IInv
<1>4. out' = want \o Encoding(k) /\ out' \in Seq(Token) /\ room' \in Nat
  BY <1>1, <1>2, <1>3 DEF Emit, IInv, Types, LoopTypes
<1>5. Encoding(batch[at])' = Encoding(k)
  <2>1. UNCHANGED <<ids, added, ignoreMerges, batch, at>>
    BY <1>1 DEF model
  <2> QED
    BY <2>1 DEF Encoding, Symbols, Overwritten
<1>6. LoopTypes'
  BY <1>1, <1>4 DEF IInv, Types, LoopTypes
<1>7. LoopInv'
  BY <1>1, <1>4, <1>5 DEF LoopInv
<1>8. Control'
  BY <1>1, NothingEntered DEF IInv, Control, work, model, NoEntry, Idle
<1> QED
  BY <1>1, <1>6, <1>7, <1>8, LoopFrame DEF IInv

\* A pretoken encoded and stored is emitted, and the view is taken anew.
LEMMA EmittedKeeps ==
    ASSUME IInv, Emitted
    PROVE  IInv'
<1>1. /\ pc = "emitted" /\ pc' = "probe" /\ at \in 1 .. Len(batch) /\ at' = at + 1
      /\ want' = want \o Encoding(batch[at]) /\ view' = short.cap
      /\ room' = IF room >= Len(out) + 4 * PretokenChunk THEN room ELSE Len(out) + 4 * PretokenChunk
      /\ UNCHANGED <<model, tables, work, storing, moving, batch, out>>
      /\ out = want \o Encoding(batch[at])
  BY DEF Emitted, IInv, Types, LoopTypes, LoopInv
<1>2. /\ out \in Seq(Token) /\ room \in Nat /\ PretokenChunk \in Nat
      /\ Len(batch) \in Nat /\ Len(batch) <= PretokenChunk
  BY BatchAssumption DEF IInv, Types, LoopTypes
<1>3. room' \in Nat /\ room' >= Len(out') + 4 * (Len(batch') + 1 - at')
  <2>1. PICK n, m : n = Len(out) /\ m = Len(batch)
    OBVIOUS
  <2>2. n \in Nat /\ m \in Nat /\ at \in 1 .. m /\ m <= PretokenChunk
    BY <2>1, <1>1, <1>2
  <2>3. room' \in Nat /\ room' >= n + 4 * (m + 1 - (at + 1))
    BY <2>1, <2>2, <1>1, <1>2
  <2> QED
    BY <2>1, <2>3, <1>1
<1>4. LoopTypes'
  BY <1>1, <1>2, <1>3 DEF IInv, Types, LoopTypes
<1>5. LoopInv'
  BY <1>1, <1>2, <1>3 DEF LoopInv, tables
<1>6. Control'
  BY <1>1 DEF IInv, Control, work, model
<1> QED
  BY <1>1, <1>4, <1>5, <1>6, LoopFrame DEF IInv

\* A chunk is read and its output gets room for it.
LEMMA FillKeeps ==
    ASSUME IInv, NEW pretokens \in Batches, Fill(pretokens),
           UNCHANGED <<short, out, want>>, out = want
    PROVE  LoopTypes' /\ LoopInv'
<1>1. /\ batch' = pretokens /\ at' = 1 /\ pc' = "probe" /\ view' = short'.cap
      /\ room' = IF room >= Len(out) + 4 * Len(pretokens) THEN room
                  ELSE Len(out) + 4 * Len(pretokens)
      /\ out' = out /\ want' = out
  BY DEF Fill
<1>2. pretokens \in Seq(Pretoken) /\ Len(pretokens) <= PretokenChunk
  BY BatchAssumption
<1>3. out \in Seq(Token) /\ room \in Nat /\ Len(out) \in Nat /\ Len(pretokens) \in Nat
  BY <1>2 DEF IInv, Types, LoopTypes
<1>4. room' \in Nat /\ room' >= Len(out) + 4 * (Len(pretokens) + 1 - 1) /\ 1 <= Len(pretokens) + 1
  BY <1>1, <1>3
<1>5. LoopTypes'
  BY <1>1, <1>2, <1>3, <1>4 DEF LoopTypes
<1>6. LoopInv'
  BY <1>1, <1>4 DEF LoopInv
<1> QED
  BY <1>5, <1>6

\* An encode begins with its first chunk.
LEMMA EncodeKeeps ==
    ASSUME IInv, NEW pretokens \in Batches, Encode(pretokens)
    PROVE  IInv'
<1>1. /\ pc = "idle" /\ stage' = "encoding" /\ Fill(pretokens) /\ pc' = "probe"
      /\ UNCHANGED <<coldDiet, ignoreMerges, ids, free, added, tables, work, storing, moving, out, want>>
      /\ UNCHANGED <<short, long, arena>>
  BY DEF Encode, Fill, tables
<1>2. LoopTypes' /\ LoopInv'
  <2>1. out = want
    BY <1>1 DEF IInv, Control
  <2> QED
    BY <1>1, <2>1, FillKeeps
<1>3. Types'
  <2>1. ModelTypes'
    BY <1>1 DEF IInv, Types, ModelTypes
  <2> QED
    BY <1>1, <1>2, <2>1, TypesFrame DEF IInv, Types
<1>4. ShortInv' /\ LongInv' /\ ValuesInv'
  BY <1>1, TablesFrame, ValuesFrame DEF IInv
<1>5. CallsInv'
  <2>1. \A k : Stored(k)' = Stored(k)
    BY <1>1 DEF Stored, LeftShort, Left
  <2> QED
    BY <1>1, <2>1 DEF IInv, CallsInv, work
<1>6. Control'
  BY <1>1 DEF IInv, Control, work
<1> QED
  BY <1>2, <1>3, <1>4, <1>5, <1>6 DEF IInv

\* The next chunk begins when the last is emitted.
LEMMA NextChunkKeeps ==
    ASSUME IInv, NEW pretokens \in Batches, NextChunk(pretokens)
    PROVE  IInv'
<1>1. /\ pc = "probe" /\ pc' = "probe" /\ Fill(pretokens)
      /\ UNCHANGED <<model, tables, work, storing, moving, out, want>>
  BY DEF NextChunk, Fill
<1>2. LoopTypes' /\ LoopInv'
  <2>1. out = want
    BY <1>1 DEF IInv, LoopInv
  <2> QED
    BY <1>1, <2>1, FillKeeps DEF tables
<1>3. Control'
  BY <1>1 DEF IInv, Control, work, model
<1> QED
  BY <1>1, <1>2, <1>3, LoopFrame DEF IInv

\* The whole text is emitted.
LEMMA DeliveredKeeps ==
    ASSUME IInv, Delivered
    PROVE  IInv'
<1>1. /\ pc = "probe" /\ pc' = "idle"
      /\ batch' = <<>> /\ at' = 1 /\ out' = <<>> /\ room' = 0 /\ want' = <<>>
      /\ UNCHANGED <<model, tables, work, storing, moving>>
  BY DEF Delivered
<1>2. LoopTypes'
  BY <1>1, BatchAssumption DEF LoopTypes
<1>3. LoopInv'
  BY <1>1 DEF LoopInv
<1>4. Control'
  BY <1>1, NothingEntered DEF IInv, Control, work, model, NoEntry, Idle
<1> QED
  BY <1>1, <1>2, <1>3, <1>4, LoopFrame DEF IInv

\* A call returns and leaves the tables as they are.
LEMMA ReturnKeeps ==
    ASSUME IInv, Return
    PROVE  IInv'
<1>1. /\ pc = "stores" /\ pc' = "idle" /\ storing = NoEntry /\ seeding = {} /\ overwriting = {}
      /\ UNCHANGED <<model, tables, work, storing, moving, loop>>
  BY DEF Return
<1>2. LoopTypes'
  BY <1>1 DEF IInv, Types, LoopTypes, loop
<1>3. LoopInv'
  BY <1>1 DEF LoopInv
<1>4. Control'
  BY <1>1 DEF IInv, Control, work, model, loop, NoEntry
<1> QED
  BY <1>1, <1>2, <1>3, <1>4, LoopFrame DEF IInv

(***************************************************************************)
(* What is entered: a value that was packed a moment ago.                  *)
(***************************************************************************)
LEMMA EntryValues ==
    ASSUME Types, ShortInv, LongInv
    PROVE  /\ \A s \in Occupied(short) : short.vals[s] \in Values
           /\ \A s \in LeftShort : moving.from.vals[s] \in Values
           /\ \A s \in Occupied(long) : long.vals[s] \in Values
           /\ \A s \in LeftLong : moving.from.vals[s] \in Values
<1>1. /\ \A s \in Occupied(short) : short.vals[s] \in Values
      /\ \A s \in Occupied(long) : long.vals[s] \in Values
  BY DEF Types, TableTypes, ShortShape, LongShape, Occupied
<1>2. ASSUME NEW s \in LeftShort PROVE moving.from.vals[s] \in Values
  <2>1. moving.table = "short" /\ s \in Left
    BY <1>2 DEF LeftShort
  <2>2. ShortShape(moving.from) /\ moving.next \in Nat
    BY <2>1 DEF ShortInv, Types, WorkTypes
  <2>3. s \in 0 .. moving.from.cap - 1
    BY <2>1, <2>2 DEF Left, ShortShape
  <2> QED
    BY <2>2, <2>3 DEF ShortShape
<1>3. ASSUME NEW s \in LeftLong PROVE moving.from.vals[s] \in Values
  <2>1. moving.table \in {"long", "full"} /\ s \in Left
    BY <1>3 DEF LeftLong
  <2>2. LongShape(moving.from) /\ moving.next \in Nat
    BY <2>1 DEF LongInv, Types, WorkTypes
  <2>3. s \in 0 .. moving.from.cap - 1
    BY <2>1, <2>2 DEF Left, LongShape
  <2> QED
    BY <2>2, <2>3 DEF LongShape
<1> QED
  BY <1>1, <1>2, <1>3

\* The arena only gains tokens.
Grows == \A v \in Values : InArena(v, arena) => /\ InArena(v, arena')
                                               /\ Unpacked(v, arena') = Unpacked(v, arena)

\* A value gives the same encoding after a step that only appends to the arena.
LEMMA GivesKept ==
    ASSUME Grows
    PROVE  \A k : \A v \in Values :
              /\ Gives(k, v)
              /\ k \notin seeding' \union overwriting' =>
                    k \notin seeding \union overwriting /\ Encoding(k)' = Encoding(k)
              => Gives(k, v)'
BY DEF Gives, Grows

\* Packing a value appends to the arena and gives a value inside it.
LEMMA ArenaGrows ==
    ASSUME Types, NEW symbols \in Seq(Token)
    PROVE  /\ arena' = ArenaWith(symbols, arena) =>
                 /\ Grows /\ arena' \in Seq(Token) /\ Packed(symbols, arena) \in Values
                 /\ InArena(Packed(symbols, arena), arena')
                 /\ Unpacked(Packed(symbols, arena), arena') = symbols
           /\ arena' = arena \o symbols =>
                 /\ Grows /\ arena' \in Seq(Token) /\ Spilled(symbols, arena) \in Values
                 /\ InArena(Spilled(symbols, arena), arena')
                 /\ Unpacked(Spilled(symbols, arena), arena') = symbols
<1>1. arena \in Seq(Token)
  BY DEF Types, TableTypes
<1>2. ASSUME arena' = ArenaWith(symbols, arena)
      PROVE  /\ Grows /\ arena' \in Seq(Token) /\ Packed(symbols, arena) \in Values
             /\ InArena(Packed(symbols, arena), arena')
             /\ Unpacked(Packed(symbols, arena), arena') = symbols
  BY <1>1, <1>2, PackedGives DEF Grows
<1>3. ASSUME arena' = arena \o symbols
      PROVE  /\ Grows /\ arena' \in Seq(Token) /\ Spilled(symbols, arena) \in Values
             /\ InArena(Spilled(symbols, arena), arena')
             /\ Unpacked(Spilled(symbols, arena), arena') = symbols
  BY <1>1, <1>3, SpilledGives, UnpackedKept DEF Grows
<1> QED
  BY <1>2, <1>3

\* A miss begins to enter the value v, of the encoding it found.
LEMMA MissKeeps ==
    ASSUME IInv, NEW table \in {"short", "long"}, NEW v \in Values, NEW slot,
           pc = "slow", pc' = "miss",
           storing' = [table |-> table, key |-> batch[at], val |-> v, slot |-> slot],
           UNCHANGED <<model, short, long, work, moving, loop>>,
           Grows, arena' \in Seq(Token), InArena(v, arena'),
           Unpacked(v, arena') = Symbols(batch[at]),
           table = "short" => /\ batch[at] \in Short
                              /\ \A s \in Occupied(short) : short.keys[s] # batch[at]
                              /\ slot = FirstEmpty(short, HomePair(batch[at], short.cap)),
           table = "long" => /\ batch[at] \in Long
                             /\ \A s \in Occupied(long) : long.keys[s] # batch[at]
    PROVE  IInv'
<1> DEFINE k == batch[at]
<1>1. /\ seeding = {} /\ overwriting = {} /\ storing = NoEntry /\ moving = Idle
      /\ LeftShort = {} /\ LeftLong = {}
  BY NothingEntered
<1>2. UNCHANGED <<short, long, seeding, overwriting, moving, ids, added, ignoreMerges, coldDiet,
                  stage, batch, at, out, want, room, view>>
  BY DEF model, work, loop
<1>3. /\ storing'.table = table /\ storing'.key = k /\ storing'.val = v /\ storing'.slot = slot
      /\ storing.table = "none" /\ moving.table = "none" /\ moving'.table = "none"
  BY <1>1, <1>2 DEF NoEntry, Idle
<1>4. k \in Pretoken
  BY DEF Pretoken
<1>5. Encoding(k) = Symbols(k)
  <2>1. k \notin Overwritten(added, ids)
    <3>1. CASE table = "short"
      <4>1. ~Stored(k)
        BY <3>1, <1>1, <1>3 DEF Stored
      <4> QED
        BY <4>1, <1>1 DEF IInv, CallsInv
    <3>2. CASE table = "long"
      BY <3>2, KeyAssumption DEF Overwritten
    <3> QED
      BY <3>1, <3>2
  <2> QED
    BY <2>1 DEF Encoding
<1>6. \A j : Encoding(j)' = Encoding(j) /\ Symbols(j)' = Symbols(j)
  BY <1>2, EncodingFrame
<1>7. Types'
  <2>1. TableTypes'
    BY <1>2 DEF IInv, Types, TableTypes
  <2>2. WorkTypes'
    <3>1. storing' = [table |-> storing'.table, key |-> storing'.key,
                      val |-> storing'.val, slot |-> storing'.slot]
      BY <1>3
    <3> QED
      BY <3>1, <1>2, <1>3 DEF IInv, Types, WorkTypes
  <2>3. LoopTypes'
    BY <1>2 DEF IInv, Types, LoopTypes
  <2> QED
    BY <2>1, <2>2, <2>3, TypesFrame DEF IInv, Types
<1>8. LeftShort' = {} /\ LeftLong' = {}
  BY <1>3 DEF LeftShort, LeftLong
<1>9. ShortInv'
  BY <1>1, <1>2, <1>3, <1>8 DEF IInv, ShortInv
<1>10. LongInv'
  BY <1>1, <1>2, <1>3, <1>8 DEF IInv, LongInv
<1>11. ValuesInv'
  <2>1. \A j : \A w \in Values : Gives(j, w) => Gives(j, w)'
    BY <1>2, <1>6, GivesKept
  <2>2. \A j : j = k => Gives(j, v)'
    BY <1>5, <1>6 DEF Gives
  <2>3. storing'.table # "none" => Gives(storing.key, storing.val)'
    BY <2>2, <1>3 DEF Gives, Encoding, Symbols, Overwritten
  <2>4. /\ \A s \in Occupied(short)' : Gives(short.keys[s], short.vals[s])'
        /\ \A s \in Occupied(long)' : Gives(long.keys[s], long.vals[s])'
    <3>1. /\ \A s \in Occupied(short) : short.vals[s] \in Values /\ Gives(short.keys[s], short.vals[s])
          /\ \A s \in Occupied(long) : long.vals[s] \in Values /\ Gives(long.keys[s], long.vals[s])
      BY EntryValues DEF IInv, ValuesInv
    <3>2. /\ \A s \in Occupied(short) : \A j, w : j = short.keys[s] /\ w = short.vals[s] => Gives(j, w)'
          /\ \A s \in Occupied(long) : \A j, w : j = long.keys[s] /\ w = long.vals[s] => Gives(j, w)'
      BY <2>1, <3>1
    <3> QED
      BY <3>2, <1>2 DEF Gives, Encoding, Symbols, Overwritten
  <2> QED
    BY <2>3, <2>4, <1>8 DEF ValuesInv
<1>12. CallsInv'
  <2>1. \A j : Stored(j) => Stored(j)'
    BY <1>1, <1>2, <1>3 DEF Stored
  <2>2. stage = "encoding"
    BY DEF IInv, Control
  <2> QED
    BY <2>1, <2>2, <1>2 DEF IInv, CallsInv
<1>13. LoopInv'
  BY <1>2, <1>3, <1>5, <1>6 DEF IInv, LoopInv
<1>14. Control'
  BY <1>1, <1>2, <1>3 DEF IInv, Control
<1> QED
  BY <1>7, <1>9, <1>10, <1>11, <1>12, <1>13, <1>14 DEF IInv

\* A pretoken the short table misses is merged and on its way into the table.
LEMMA MissShortKeeps ==
    ASSUME IInv, MissShort
    PROVE  IInv'
<1> DEFINE k == batch[at]
<1>1. /\ pc = "slow" /\ pc' = "miss" /\ k \in Short /\ ~Holds(short, k)
      /\ arena' = ArenaWith(Symbols(k), arena)
      /\ storing' = [table |-> "short", key |-> k, val |-> Packed(Symbols(k), arena),
                     slot  |-> MissSlot(short, k)]
      /\ UNCHANGED <<model, short, long, work, moving, loop>>
  BY DEF MissShort
<1>2. Symbols(k) \in Seq(Token)
  BY <1>1, EncodingType DEF IInv, Pretoken
<1>3. /\ \A s \in Occupied(short) : short.keys[s] # k
      /\ MissSlot(short, k) = FirstEmpty(short, HomePair(k, short.cap))
  BY <1>1, ShortLookup DEF IInv, ShortInv
<1>4. /\ Grows /\ arena' \in Seq(Token) /\ Packed(Symbols(k), arena) \in Values
      /\ InArena(Packed(Symbols(k), arena), arena')
      /\ Unpacked(Packed(Symbols(k), arena), arena') = Symbols(k)
  BY <1>1, <1>2, ArenaGrows DEF IInv
<1> HIDE DEF k
<1> QED
  BY <1>1, <1>3, <1>4, MissKeeps DEF k

\* A pretoken the long table misses is merged and on its way into the table.
LEMMA MissLongKeeps ==
    ASSUME IInv, MissLong
    PROVE  IInv'
<1> DEFINE k == batch[at]
<1>1. /\ pc = "slow" /\ pc' = "miss" /\ k \in Long /\ ~LongHolds(long, k)
      /\ arena' = arena \o Symbols(k)
      /\ storing' = [table |-> "long", key |-> k, val |-> Spilled(Symbols(k), arena), slot |-> 0]
      /\ UNCHANGED <<model, short, long, work, moving, loop>>
  BY DEF MissLong
<1>2. Symbols(k) \in Seq(Token)
  BY <1>1, EncodingType DEF IInv, Pretoken
<1>3. \A s \in Occupied(long) : long.keys[s] # k
  BY <1>1, LongLookup DEF IInv, LongInv
<1>4. /\ Grows /\ arena' \in Seq(Token) /\ Spilled(Symbols(k), arena) \in Values
      /\ InArena(Spilled(Symbols(k), arena), arena')
      /\ Unpacked(Spilled(Symbols(k), arena), arena') = Symbols(k)
  BY <1>1, <1>2, ArenaGrows DEF IInv
<1> QED
  BY <1>1, <1>3, <1>4, MissKeeps

---------------------------------------------------------------------------
(***************************************************************************)
(* The tables: an empty one is sound, and one with an entry more still is. *)
(***************************************************************************)
LEMMA EmptyShortIsSound ==
    ASSUME NEW cap, ShortCap(cap), NEW n \in Nat, NEW t, t = EmptyShort(cap, n)
    PROVE  /\ ShortShape(t) /\ ShortSound(t) /\ Occupied(t) = {}
           /\ t.cap = cap /\ t.len = n
<1>1. /\ t.keys = [s \in 0 .. cap - 1 |-> None] /\ t.vals = [s \in 0 .. cap - 1 |-> NoValue]
      /\ t.cap = cap /\ t.len = n /\ cap \in Nat /\ cap >= 2
  BY DEF EmptyShort, ShortCap
<1>2. NoValue \in Values
  BY DEF NoValue, Values
<1>3. ShortShape(t)
  <2>1. t = [keys |-> t.keys, vals |-> t.vals, cap |-> t.cap, len |-> t.len]
    BY <1>1 DEF EmptyShort
  <2> QED
    BY <1>1, <1>2, <2>1 DEF ShortShape
<1>4. Occupied(t) = {}
  BY <1>1 DEF Occupied
<1>5. HasRoom(t)
  <2>1. 0 \in 0 .. t.cap - 1 /\ t.keys[0] = None
    BY <1>1
  <2> QED
    BY <2>1 DEF HasRoom
<1>6. ShortSound(t)
  BY <1>1, <1>4, <1>5 DEF ShortSound, KeysOf, Reached, Unique
<1> QED
  BY <1>1, <1>3, <1>4, <1>6

\* A new long table is sound and empty.
LEMMA EmptyLongIsSound ==
    ASSUME NEW cap \in Nat, NEW n \in Nat, NEW full \in BOOLEAN, NEW t,
           t = EmptyLong(cap, n, full)
    PROVE  /\ LongShape(t) /\ LongSound(t) /\ Occupied(t) = {}
           /\ t.cap = cap /\ t.len = n /\ t.full = full
<1>1. /\ t.keys = [s \in 0 .. cap - 1 |-> None] /\ t.vals = [s \in 0 .. cap - 1 |-> NoValue]
      /\ t.hash = [s \in 0 .. cap - 1 |-> 0] /\ t.cap = cap /\ t.len = n /\ t.full = full
  BY DEF EmptyLong
<1>2. NoValue \in Values
  BY DEF NoValue, Values
<1>3. LongShape(t)
  <2>1. t = [keys |-> t.keys, vals |-> t.vals, hash |-> t.hash, cap |-> t.cap,
             len |-> t.len, full |-> t.full]
    BY <1>1 DEF EmptyLong
  <2> QED
    BY <1>2, <1>1, <2>1 DEF LongShape
<1>4. Occupied(t) = {}
  BY <1>1 DEF Occupied
<1>5. t.cap = 0 \/ HasRoom(t)
  <2>1. t.cap # 0 => 0 \in 0 .. t.cap - 1 /\ t.keys[0] = None
    BY <1>1
  <2> QED
    BY <2>1 DEF HasRoom
<1>6. LongSound(t)
  BY <1>1, <1>4, <1>5 DEF LongSound, KeysOf, Reached, Unique
<1> QED
  BY <1>1, <1>3, <1>4, <1>6

\* A key put into the first empty slot of its walk keeps the short table sound.
LEMMA PutShortIsSound ==
    ASSUME NEW t, NEW u, ShortSound(t), NEW k \in Short, \A s \in Occupied(t) : t.keys[s] # k,
           NEW n \in Nat, Cardinality(Occupied(t)) < n, n * 4 <= t.cap * 3,
           NEW e, e = FirstEmpty(t, HomePair(k, t.cap)),
           KeysOf(u, Short), u.cap = t.cap, u.keys[e] = k,
           \A s \in 0 .. t.cap - 1 : s # e => u.keys[s] = t.keys[s]
    PROVE  /\ ShortSound(u) /\ e \notin Occupied(t) /\ Occupied(u) = Occupied(t) \union {e}
           /\ Cardinality(Occupied(u)) = Cardinality(Occupied(t)) + 1
<1>1. PICK homes : homes = ShortHomes(t.cap)
  OBVIOUS
<1>2. homes[k] = HomePair(k, t.cap) /\ Homes(t, homes, Short)
  BY <1>1, ShortHomesAreSlots DEF ShortHomes, ShortSound
<1>3. KeysOf(t, Short) /\ HasRoom(t) /\ Reached(t, homes) /\ Unique(t) /\ None \notin Short
  BY <1>1, KeyAssumption DEF ShortSound
<1>4. e = FirstEmpty(t, homes[k])
  BY <1>2
<1>5. /\ Reached(u, homes) /\ Unique(u) /\ e \in 0 .. t.cap - 1 /\ e \notin Occupied(t)
      /\ Occupied(u) = Occupied(t) \union {e}
  BY <1>2, <1>3, <1>4, PutKeepsReached, Z3
<1>6. /\ IsFiniteSet(Occupied(t)) /\ Cardinality(Occupied(t)) \in Nat
      /\ Cardinality(Occupied(u)) = Cardinality(Occupied(t)) + 1
  <2>1. IsFiniteSet(Occupied(t)) /\ Cardinality(Occupied(t)) \in Nat
    BY <1>3, FewerLeaveRoom
  <2>2. PICK S, x : S = Occupied(t) /\ x = e
    OBVIOUS
  <2>3. Cardinality(S \union {x}) = IF x \in S THEN Cardinality(S) ELSE Cardinality(S) + 1
    BY <2>1, <2>2, FS_AddElement
  <2> QED
    BY <2>1, <2>2, <2>3, <1>5
<1>7. HasRoom(u)
  <2>1. PICK m, cap : m = Cardinality(Occupied(u)) /\ cap = u.cap
    OBVIOUS
  <2>2. m \in Nat /\ m <= n /\ n * 4 <= cap * 3 /\ cap \in Nat /\ cap >= 2
    BY <2>1, <1>6 DEF ShortSound, ShortCap
  <2>3. m < cap
    BY <2>2
  <2> QED
    BY <2>1, <2>3, FewerLeaveRoom
<1> QED
  BY <1>1, <1>5, <1>6, <1>7 DEF ShortSound

\* A key put into the first empty slot of its walk keeps the long table sound.
LEMMA PutLongIsSound ==
    ASSUME NEW t, NEW u, LongSound(t), t.cap # 0,
           NEW k \in Long, \A s \in Occupied(t) : t.keys[s] # k,
           NEW n \in Nat, Cardinality(Occupied(t)) < n, n * 4 <= t.cap * 3,
           NEW e, e = FirstEmpty(t, LongHome(LongHash(k, t.full), t.cap)),
           KeysOf(u, Long), u.cap = t.cap, u.full = t.full, u.keys[e] = k,
           u.hash[e] = LongHash(k, t.full),
           \A s \in 0 .. t.cap - 1 : s # e => u.keys[s] = t.keys[s] /\ u.hash[s] = t.hash[s]
    PROVE  /\ LongSound(u) /\ e \notin Occupied(t) /\ Occupied(u) = Occupied(t) \union {e}
           /\ Cardinality(Occupied(u)) = Cardinality(Occupied(t)) + 1
<1>1. PICK homes : homes = LongHomes(t.cap, t.full)
  OBVIOUS
<1>2. homes[k] = LongHome(LongHash(k, t.full), t.cap) /\ Homes(t, homes, Long)
  BY <1>1, LongHomesAreSlots DEF LongHomes, LongSound, KeysOf, Homes
<1>3. KeysOf(t, Long) /\ HasRoom(t) /\ Reached(t, homes) /\ Unique(t) /\ None \notin Long
  BY <1>1, KeyAssumption DEF LongSound
<1>4. e = FirstEmpty(t, homes[k])
  BY <1>2
<1>5. /\ Reached(u, homes) /\ Unique(u) /\ e \in 0 .. t.cap - 1 /\ e \notin Occupied(t)
      /\ Occupied(u) = Occupied(t) \union {e}
  BY <1>2, <1>3, <1>4, PutKeepsReached, Z3
<1>6. /\ IsFiniteSet(Occupied(t)) /\ Cardinality(Occupied(t)) \in Nat
      /\ Cardinality(Occupied(u)) = Cardinality(Occupied(t)) + 1
  <2>1. IsFiniteSet(Occupied(t)) /\ Cardinality(Occupied(t)) \in Nat
    BY <1>3, FewerLeaveRoom
  <2> QED
    BY <2>1, <1>5, FS_AddElement
<1>7. HasRoom(u)
  <2>1. PICK m, cap : m = Cardinality(Occupied(u)) /\ cap = u.cap
    OBVIOUS
  <2>2. m \in Nat /\ m <= n /\ n * 4 <= cap * 3 /\ cap \in Nat /\ cap # 0
    BY <2>1, <1>3, <1>6 DEF KeysOf
  <2>3. m < cap
    BY <2>2
  <2> QED
    BY <2>1, <2>3, FewerLeaveRoom
<1>8. \A s \in Occupied(u) : u.hash[s] = LongHash(u.keys[s], u.full)
  <2>1. \A s \in Occupied(t) : s # e /\ s \in 0 .. t.cap - 1
    BY <1>5 DEF Occupied
  <2> QED
    BY <2>1, <1>5 DEF LongSound
<1>9. u.full \in BOOLEAN
  BY DEF LongSound
<1> QED
  BY <1>1, <1>5, <1>6, <1>7, <1>8, <1>9 DEF LongSound

---------------------------------------------------------------------------
(***************************************************************************)
(* The steps of an insertion: they keep every entry, in the table, in the  *)
(* part of the old table that is yet to be moved, or on its way.           *)
(***************************************************************************)
ShortEntry(k, v) ==
    \/ \E s \in Occupied(short) : short.keys[s] = k /\ short.vals[s] = v
    \/ \E s \in LeftShort : moving.from.keys[s] = k /\ moving.from.vals[s] = v
    \/ storing.table = "short" /\ storing.key = k /\ storing.val = v

LongEntry(k, v) ==
    \/ \E s \in Occupied(long) : long.keys[s] = k /\ long.vals[s] = v
    \/ \E s \in LeftLong : moving.from.keys[s] = k /\ moving.from.vals[s] = v
    \/ storing.table = "long" /\ storing.key = k /\ storing.val = v

\* A step on the long table leaves the short one sound.
LEMMA ShortElsewhere ==
    ASSUME ShortInv, short' = short, storing'.table # "short",
           moving.table # "short", moving'.table # "short"
    PROVE  ShortInv' /\ LeftShort = {} /\ LeftShort' = {}
<1>1. LeftShort = {} /\ LeftShort' = {}
  BY DEF LeftShort
<1> QED
  BY <1>1 DEF ShortInv

\* A step on the short table leaves the long one sound.
LEMMA LongElsewhere ==
    ASSUME LongInv, long' = long, storing'.table # "long",
           moving.table \notin {"long", "full"}, moving'.table \notin {"long", "full"}
    PROVE  LongInv' /\ LeftLong = {} /\ LeftLong' = {}
<1>1. LeftLong = {} /\ LeftLong' = {}
  BY DEF LeftLong
<1> QED
  BY <1>1 DEF LongInv

\* A step that keeps the entries of both tables keeps what they give.
LEMMA EntriesKept ==
    ASSUME IInv, UNCHANGED <<model, arena, work>>,
           \A k, v : ShortEntry(k, v)' <=> ShortEntry(k, v),
           \A k, v : LongEntry(k, v)' <=> LongEntry(k, v),
           stage # "encoding" => long' = long, WorkTypes'
    PROVE  ValuesInv' /\ CallsInv'
<1>1. UNCHANGED <<arena, seeding, overwriting, ids, added, ignoreMerges, coldDiet, stage>>
  BY DEF model, work
<1>2. \A k, v : ShortEntry(k, v) \/ LongEntry(k, v) => Gives(k, v)
  BY DEF ShortEntry, LongEntry, IInv, ValuesInv
<1>3. \A k, v : Gives(k, v) => Gives(k, v)'
  BY <1>1, EncodingFrame DEF Gives
<1>4. \A k, v : ShortEntry(k, v)' \/ LongEntry(k, v)' => Gives(k, v)'
  BY <1>2, <1>3
<1>5. ValuesInv'
  <2>1. \A s \in Occupied(short)' : \A k, v : k = short'.keys[s] /\ v = short'.vals[s] => Gives(k, v)'
    BY <1>4 DEF ShortEntry
  <2>2. \A s \in LeftShort' : \A k, v :
           k = moving'.from.keys[s] /\ v = moving'.from.vals[s] => Gives(k, v)'
    BY <1>4 DEF ShortEntry
  <2>3. \A s \in Occupied(long)' : \A k, v : k = long'.keys[s] /\ v = long'.vals[s] => Gives(k, v)'
    BY <1>4 DEF LongEntry
  <2>4. \A s \in LeftLong' : \A k, v :
           k = moving'.from.keys[s] /\ v = moving'.from.vals[s] => Gives(k, v)'
    BY <1>4 DEF LongEntry
  <2>5. storing'.table \in {"short", "long"} =>
           \A k, v : k = storing'.key /\ v = storing'.val => Gives(k, v)'
    BY <1>4 DEF ShortEntry, LongEntry
  <2> QED
    BY <2>1, <2>2, <2>3, <2>4, <2>5, SMTT(30) DEF ValuesInv, WorkTypes, Gives, Encoding, Symbols, Overwritten
<1>6. CallsInv'
  <2>1. \A k : Stored(k) <=> \E v : ShortEntry(k, v)
    BY DEF Stored, ShortEntry
  <2>2. \A k : Stored(k)' <=> \E v : ShortEntry(k, v)'
    BY DEF Stored, ShortEntry
  <2>3. \A k : Stored(k)' <=> Stored(k)
    BY <2>1, <2>2
  <2> QED
    BY <2>3, <1>1 DEF IInv, CallsInv
<1> QED
  BY <1>5, <1>6

\* A step within an insertion.
LEMMA InsertionStep ==
    ASSUME IInv, storing.table # "none", UNCHANGED <<model, arena, pc, work, loop>>,
           storing'.table = storing.table, storing'.key = storing.key, storing'.val = storing.val,
           moving'.table = "none" => moving' = Idle,
           moving'.table = "short" => storing.table = "short",
           moving'.table \in {"long", "full"} => storing.table = "long",
           TableTypes', WorkTypes', ShortInv', LongInv',
           \A k, v : ShortEntry(k, v)' <=> ShortEntry(k, v),
           \A k, v : LongEntry(k, v)' <=> LongEntry(k, v),
           storing.table = "short" => long' = long
    PROVE  IInv'
<1>1. UNCHANGED <<seeding, overwriting, ids, added, ignoreMerges, coldDiet, stage,
                  batch, at, out, want, room, view>>
  BY DEF model, work, loop
<1>2. pc \in {"stores", "miss"} /\ (storing.table = "long" => pc = "miss")
  BY DEF IInv, Control, Types, WorkTypes
<1>3. stage # "encoding" => long' = long
  BY <1>2 DEF IInv, Control, Types, WorkTypes
<1>4. ValuesInv' /\ CallsInv'
  BY <1>3, EntriesKept
<1>5. Types'
  BY TypesFrame DEF IInv, Types
<1>6. Control'
  BY <1>1, <1>2 DEF IInv, Control
<1>7. LoopInv'
  <2>1. \A k : Encoding(k)' = Encoding(k) /\ Symbols(k)' = Symbols(k)
    BY <1>1, EncodingFrame
  <2>2. pc' = pc
    OBVIOUS
  <2>3. storing'.key = storing.key => Encoding(storing.key)' = Encoding(storing.key)
    BY <1>1 DEF Encoding, Symbols, Overwritten
  <2>4. storing'.key = storing.key => Symbols(storing.key)' = Symbols(storing.key)
    BY <1>1 DEF Symbols
  <2> QED
    BY <2>2, <2>3, <2>4, <1>1, <1>2 DEF IInv, LoopInv
<1> QED
  BY <1>4, <1>5, <1>6, <1>7 DEF IInv

\* What holds while an insertion into the short table is under way.
LEMMA StoringShort ==
    ASSUME IInv, storing.table = "short"
    PROVE  /\ ShortSound(short) /\ ShortShape(short) /\ LongShape(long) /\ storing.key \in Short
           /\ short.cap \in Nat /\ short.cap >= 2 /\ short.cap % 2 = 0 /\ short.len \in Nat
           /\ moving.table \notin {"long", "full"} /\ LeftLong = {}
BY DEF IInv, Control, ShortInv, ShortSound, ShortCap, Types, TableTypes, ShortShape, LeftLong, Occupied

\* The short table grows: its keys are yet to be moved into an empty table.
LEMMA GrowShortKeeps ==
    ASSUME IInv, GrowShort
    PROVE  IInv'
<1>1. /\ storing.table = "short" /\ moving = Idle
      /\ moving' = [table |-> "short", from |-> short, next |-> 0]
      /\ short' = EmptyShort(2 * short.cap, short.len)
      /\ UNCHANGED <<model, long, arena, pc, work, storing, loop>>
  BY DEF GrowShort
<1>2. /\ ShortSound(short) /\ ShortShape(short) /\ LongShape(long) /\ storing.key \in Short
      /\ short.cap \in Nat /\ short.cap >= 2 /\ short.cap % 2 = 0 /\ short.len \in Nat
      /\ moving.table \notin {"long", "full"}
  BY <1>1, StoringShort
<1>3. /\ ShortShape(short') /\ ShortSound(short') /\ Occupied(short') = {}
      /\ short'.cap = 2 * short.cap /\ short'.len = short.len
  <2>1. ShortCap(2 * short.cap)
    <3>1. PICK cap : cap = short.cap
      OBVIOUS
    <3>2. 2 * cap \in Nat /\ 2 * cap >= 2 /\ (2 * cap) % 2 = 0
      BY <3>1, <1>2
    <3> QED
      BY <3>1, <3>2 DEF ShortCap
  <2> QED
    BY <2>1, <1>1, <1>2, EmptyShortIsSound
<1>4. /\ moving'.table = "short" /\ moving'.from = short /\ moving'.next = 0
      /\ moving.table = "none" /\ LeftShort = {}
  BY <1>1 DEF Idle, LeftShort
<1>5. Left' = Occupied(short) /\ LeftShort' = Occupied(short)
  BY <1>4 DEF Left, LeftShort, Occupied
<1>6. LongInv' /\ LeftLong = {} /\ LeftLong' = {}
  BY <1>1, <1>4, LongElsewhere DEF IInv
<1>7. ShortInv'
  <2>1. short'.len * 4 <= short'.cap * 3
    <3>1. short.len * 4 <= short.cap * 3
      BY DEF IInv, ShortInv
    <3>2. PICK len, cap : len = short.len /\ cap = short.cap
      OBVIOUS
    <3>3. len * 4 <= (2 * cap) * 3
      BY <3>1, <3>2, <1>2
    <3> QED
      BY <3>2, <3>3, <1>3
  <2>2. Cardinality(Occupied(short')) + Cardinality(LeftShort') = short'.len
    <3>1. Cardinality(Occupied(short)) + Cardinality({}) = short.len
      BY <1>4 DEF IInv, ShortInv
    <3>2. PICK n, m : n = Cardinality(Occupied(short)) /\ m = Cardinality({})
      OBVIOUS
    <3>3. n \in Nat /\ m = 0
      BY <3>2, <1>2, FewerLeaveRoom, FS_EmptySet DEF ShortSound
    <3>4. n = short.len /\ m + n = short.len
      BY <3>1, <3>2, <3>3
    <3> QED
      BY <3>2, <3>4, <1>3, <1>5
  <2>3. /\ ShortShape(moving'.from) /\ Unique(moving'.from) /\ moving'.next <= moving'.from.cap
        /\ \A s \in Left' : /\ moving'.from.keys[s] # storing'.key
                            /\ \A r \in Occupied(short') : moving'.from.keys[s] # short'.keys[r]
    <3>1. \A r \in Occupied(short) : short.keys[r] # storing.key
      BY <1>1 DEF IInv, ShortInv
    <3> QED
      BY <3>1, <1>1, <1>2, <1>3, <1>4, <1>5 DEF ShortSound
  <2> QED
    BY <2>1, <2>2, <2>3, <1>3, <1>4 DEF ShortInv
<1>8. TableTypes' /\ WorkTypes'
  BY <1>1, <1>2, <1>3 DEF IInv, Types, TableTypes, WorkTypes, work
<1>9. \A k, v : ShortEntry(k, v)' <=> ShortEntry(k, v)
  BY <1>1, <1>3, <1>4, <1>5 DEF ShortEntry
<1>10. \A k, v : LongEntry(k, v)' <=> LongEntry(k, v)
  BY <1>1, <1>6 DEF LongEntry
<1> QED
  BY <1>1, <1>4, <1>6, <1>7, <1>8, <1>9, <1>10, InsertionStep

\* One entry of the old table is moved, or there is none in the slot.
LEMMA LeftAfter ==
    ASSUME moving.next \in Nat, moving.from.cap \in Nat, moving.next < moving.from.cap,
           moving' = [moving EXCEPT !.next = @ + 1],
           moving = [table |-> moving.table, from |-> moving.from, next |-> moving.next]
    PROVE  /\ moving'.table = moving.table /\ moving'.from = moving.from
           /\ moving'.next = moving.next + 1
           /\ Left' = Left \ {moving.next} /\ IsFiniteSet(Left)
           /\ moving.next \in Left <=> moving.from.keys[moving.next] # None
           /\ Cardinality(Left) \in Nat
           /\ Cardinality(Left') = IF moving.from.keys[moving.next] = None THEN Cardinality(Left)
                                   ELSE Cardinality(Left) - 1
<1>1. /\ moving'.table = moving.table /\ moving'.from = moving.from
      /\ moving'.next = moving.next + 1
  OBVIOUS
<1>2. moving.next \in Left <=> moving.from.keys[moving.next] # None
  BY DEF Left
<1>3. Left' = Left \ {moving.next}
  BY <1>1 DEF Left
<1>4. IsFiniteSet(Left) /\ Cardinality(Left) \in Nat
  <2>1. Left \subseteq moving.next .. moving.from.cap - 1
    BY DEF Left
  <2>2. IsFiniteSet(moving.next .. moving.from.cap - 1)
    BY FS_Interval
  <2> QED
    BY <2>1, <2>2, FS_Subset, FS_CardinalityType
<1>5. Cardinality(Left') = IF moving.next \in Left THEN Cardinality(Left) - 1 ELSE Cardinality(Left)
  BY <1>3, <1>4, FS_RemoveElement
<1> QED
  BY <1>1, <1>2, <1>3, <1>4, <1>5

\* One key moves into the grown short table.
LEMMA MoveShortKeeps ==
    ASSUME IInv, MoveShort
    PROVE  IInv'
<1> DEFINE key == moving.from.keys[moving.next]
           val == moving.from.vals[moving.next]
           e == FirstEmpty(short, HomePair(key, short.cap))
<1>1. /\ moving.table = "short" /\ moving.next < moving.from.cap
      /\ moving' = [moving EXCEPT !.next = @ + 1]
      /\ UNCHANGED <<model, long, arena, pc, work, storing, loop>>
      /\ key = None => short' = short
      /\ key # None => short' = PutShort(short, e, key, val, short.len)
  BY DEF MoveShort
<1>2. storing.table = "short"
  BY <1>1 DEF IInv, Control
<1>3. /\ ShortSound(short) /\ ShortShape(short) /\ LongShape(long) /\ storing.key \in Short
      /\ short.cap \in Nat /\ short.cap >= 2 /\ short.len \in Nat
  BY <1>2, StoringShort
<1>4. /\ ShortShape(moving.from) /\ Unique(moving.from) /\ moving.next \in Nat
      /\ moving.from.cap \in Nat
      /\ moving = [table |-> moving.table, from |-> moving.from, next |-> moving.next]
      /\ LeftShort = Left
      /\ \A s \in Left : /\ moving.from.keys[s] # storing.key
                         /\ \A r \in Occupied(short) : moving.from.keys[s] # short.keys[r]
  BY <1>1 DEF IInv, ShortInv, Types, WorkTypes, ShortShape, LeftShort
<1>5. /\ moving'.table = "short" /\ moving'.from = moving.from
      /\ moving'.next = moving.next + 1
      /\ Left' = Left \ {moving.next} /\ IsFiniteSet(Left)
      /\ moving.next \in Left <=> key # None
      /\ Cardinality(Left) \in Nat
      /\ Cardinality(Left') = IF key = None THEN Cardinality(Left) ELSE Cardinality(Left) - 1
  BY <1>1, <1>4, LeftAfter
<1>6. moving'.next \in Nat /\ moving'.next <= moving'.from.cap /\ LeftShort' = Left'
  BY <1>1, <1>4, <1>5 DEF LeftShort
<1>7. /\ LongInv' /\ LeftLong = {} /\ LeftLong' = {}
  BY <1>1, <1>2, <1>5, LongElsewhere DEF IInv
<1>8. /\ short.len * 4 <= short.cap * 3
      /\ Cardinality(Occupied(short)) + Cardinality(Left) = short.len
      /\ Cardinality(Occupied(short)) \in Nat
      /\ \A r \in Occupied(short) : short.keys[r] # storing.key
  BY <1>2, <1>3, <1>4, FewerLeaveRoom DEF IInv, ShortInv, ShortSound
<1>9. moving' = [table |-> moving'.table, from |-> moving'.from, next |-> moving'.next]
  <2>1. moving' = [table |-> moving.table, from |-> moving.from, next |-> moving.next + 1]
    BY <1>1, <1>4
  <2> QED
    BY <2>1
<1>10. WorkTypes'
  BY <1>1, <1>5, <1>6, <1>9 DEF IInv, Types, WorkTypes, work
<1>11. \A k, v : LongEntry(k, v)' <=> LongEntry(k, v)
  BY <1>1, <1>7 DEF LongEntry
<1>12. CASE key = None
  <2>1. short' = short /\ Left' = Left
    BY <1>1, <1>5, <1>12
  <2>2. TableTypes'
    BY <1>1, <2>1 DEF IInv, Types, TableTypes
  <2>3. ShortInv'
    BY <1>1, <1>2, <1>4, <1>5, <1>6, <2>1 DEF IInv, ShortInv
  <2>4. \A k, v : ShortEntry(k, v)' <=> ShortEntry(k, v)
    BY <1>1, <1>4, <1>5, <1>6, <2>1 DEF ShortEntry
  <2> QED
    BY <1>1, <1>2, <1>5, <1>7, <1>10, <1>11, <2>2, <2>3, <2>4, InsertionStep
<1>13. CASE key # None
  <2>1. moving.next \in Left /\ moving.next \in 0 .. moving.from.cap - 1
    BY <1>1, <1>4, <1>5, <1>13
  <2>2. key \in Short /\ val \in Values
    BY <1>4, <1>13, <2>1 DEF ShortShape
  <2>3. \A r \in Occupied(short) : short.keys[r] # key
    BY <1>4, <2>1
  <2>4. e \in 0 .. short.cap - 1
    BY <1>3, <2>2, HomePairIsEven, FirstEmptyIsFirst DEF ShortSound
  <2> HIDE DEF e, key, val
  <2>5. /\ short'.keys = [short.keys EXCEPT ![e] = key] /\ short'.vals = [short.vals EXCEPT ![e] = val]
        /\ short'.cap = short.cap /\ short'.len = short.len
        /\ short' = [keys |-> short'.keys, vals |-> short'.vals, cap |-> short'.cap, len |-> short'.len]
    BY <1>1, <1>13 DEF PutShort
  <2>6. ShortShape(short')
    BY <1>3, <2>2, <2>4, <2>5 DEF ShortShape
  <2>7. /\ KeysOf(short', Short) /\ short'.keys[e] = key /\ short'.vals[e] = val
        /\ \A s \in 0 .. short.cap - 1 : s # e => /\ short'.keys[s] = short.keys[s]
                                                 /\ short'.vals[s] = short.vals[s]
    BY <1>3, <2>4, <2>5, <2>6 DEF ShortShape, KeysOf
  <2>8. /\ ShortSound(short') /\ e \notin Occupied(short)
        /\ Occupied(short') = Occupied(short) \union {e}
        /\ Cardinality(Occupied(short')) = Cardinality(Occupied(short)) + 1
    <3>1. Cardinality(Left) # 0
      BY <1>5, <2>1, FS_EmptySet
    <3>2. PICK m, l : m = Cardinality(Occupied(short)) /\ l = Cardinality(Left)
      OBVIOUS
    <3>3. m < short.len
      BY <3>1, <3>2, <1>3, <1>5, <1>8
    <3>4. Cardinality(Occupied(short)) < short.len
      BY <3>2, <3>3
    <3>5. e = FirstEmpty(short, HomePair(key, short.cap))
      BY DEF e
    <3>6. \A s \in 0 .. short.cap - 1 : s # e => short'.keys[s] = short.keys[s]
      BY <2>7
    <3>7. PICK t, u, n : t = short /\ u = short' /\ n = short.len
      OBVIOUS
    <3>8. /\ ShortSound(t) /\ \A s \in Occupied(t) : t.keys[s] # key
          /\ n \in Nat /\ Cardinality(Occupied(t)) < n /\ n * 4 <= t.cap * 3
          /\ e = FirstEmpty(t, HomePair(key, t.cap))
      BY <3>4, <3>5, <3>7, <1>3, <1>8, <2>3
    <3>9. /\ KeysOf(u, Short) /\ u.cap = t.cap /\ u.keys[e] = key
          /\ \A s \in 0 .. t.cap - 1 : s # e => u.keys[s] = t.keys[s]
      BY <3>6, <3>7, <2>5, <2>7
    <3>10. /\ ShortSound(u) /\ e \notin Occupied(t) /\ Occupied(u) = Occupied(t) \union {e}
           /\ Cardinality(Occupied(u)) = Cardinality(Occupied(t)) + 1
      BY <3>8, <3>9, <2>2, PutShortIsSound
    <3> QED
      BY <3>7, <3>10
  <2>9. TableTypes'
    BY <1>1, <2>6 DEF IInv, Types, TableTypes
  <2>10. \A s \in Occupied(short) : /\ s \in 0 .. short.cap - 1 /\ s # e
                                    /\ short'.keys[s] = short.keys[s] /\ short'.vals[s] = short.vals[s]
    BY <2>7, <2>8 DEF Occupied
  <2>11. \A s \in Left' : moving.from.keys[s] # key
    <3>1. \A s \in Left : s \in Occupied(moving.from)
      BY <1>4 DEF Left, Occupied
    <3> QED
      BY <3>1, <2>1, <1>4, <1>5 DEF Unique, key
  <2>12. key # storing.key
    BY <1>4, <2>1 DEF key
  <2>13. ShortInv'
    <3>1. Cardinality(Occupied(short')) + Cardinality(LeftShort') = short'.len
      BY <1>3, <1>5, <1>6, <1>8, <1>13, <2>5, <2>8
    <3>2. \A s \in Left' : /\ moving'.from.keys[s] # storing'.key
                          /\ \A r \in Occupied(short') : moving'.from.keys[s] # short'.keys[r]
      BY <1>1, <1>4, <1>5, <2>7, <2>8, <2>10, <2>11
    <3>3. \A r \in Occupied(short') : short'.keys[r] # storing'.key
      BY <1>1, <1>8, <2>7, <2>8, <2>10, <2>12
    <3>4. short'.len * 4 <= short'.cap * 3
      BY <1>8, <2>5
    <3> QED
      BY <3>1, <3>2, <3>3, <3>4, <2>8, <1>4, <1>5, <1>6 DEF ShortInv
  <2>14. \A k, v : ShortEntry(k, v)' <=> ShortEntry(k, v)
    <3>1. \A k, v : ShortEntry(k, v) => ShortEntry(k, v)'
      BY <1>1, <1>4, <1>5, <1>6, <2>7, <2>8, <2>10 DEF ShortEntry, key, val
    <3>2. \A k, v : ShortEntry(k, v)' => ShortEntry(k, v)
      BY <1>1, <1>4, <1>5, <1>6, <2>1, <2>7, <2>8, <2>10 DEF ShortEntry, key, val
    <3> QED
      BY <3>1, <3>2
  <2> QED
    BY <1>1, <1>2, <1>5, <1>7, <1>10, <1>11, <2>9, <2>13, <2>14, InsertionStep
<1> QED
  BY <1>12, <1>13

\* The growth of the short table ends when all its keys have moved.
LEMMA GrownShortKeeps ==
    ASSUME IInv, GrownShort
    PROVE  IInv'
<1> DEFINE slot == FirstEmpty(short, HomePair(storing.key, short.cap))
<1>1. /\ moving.table = "short" /\ moving.next = moving.from.cap /\ moving' = Idle
      /\ storing' = [storing EXCEPT !.slot = slot]
      /\ UNCHANGED <<model, tables, pc, work, loop>> /\ UNCHANGED <<short, long, arena>>
  BY DEF GrownShort, tables
<1>2. storing.table = "short"
  BY <1>1 DEF IInv, Control
<1>3. /\ moving'.table = "none" /\ moving'.next = 0
      /\ moving' = [table |-> moving'.table, from |-> moving'.from, next |-> moving'.next]
  BY <1>1 DEF Idle
<1>4. /\ storing'.table = storing.table /\ storing'.key = storing.key /\ storing'.val = storing.val
      /\ storing'.slot = slot
      /\ storing' = [table |-> storing'.table, key |-> storing'.key,
                     val |-> storing'.val, slot |-> storing'.slot]
  <2>1. storing' = [table |-> storing.table, key |-> storing.key, val |-> storing.val, slot |-> slot]
    BY <1>1 DEF IInv, Types, WorkTypes
  <2> QED
    BY <2>1
<1>5. LeftShort = {} /\ LeftShort' = {} /\ LeftLong = {} /\ LeftLong' = {}
  <2>1. moving.from.cap \in Nat
    BY <1>1 DEF IInv, ShortInv, ShortShape
  <2>2. Left = {}
    BY <1>1, <2>1 DEF Left
  <2> QED
    BY <2>2, <1>1, <1>3 DEF LeftShort, LeftLong
<1>6. ShortInv'
  BY <1>1, <1>2, <1>3, <1>4, <1>5 DEF IInv, ShortInv
<1>7. LongInv'
  BY <1>1, <1>2, <1>3, <1>4, LongElsewhere DEF IInv
<1>8. TableTypes' /\ WorkTypes'
  BY <1>1, <1>2, <1>3, <1>4 DEF IInv, Types, TableTypes, WorkTypes, work
<1>9. /\ \A k, v : ShortEntry(k, v)' <=> ShortEntry(k, v)
      /\ \A k, v : LongEntry(k, v)' <=> LongEntry(k, v)
  BY <1>1, <1>4, <1>5 DEF ShortEntry, LongEntry
<1> QED
  BY <1>1, <1>2, <1>3, <1>4, <1>6, <1>7, <1>8, <1>9, InsertionStep

(***************************************************************************)
(* The end of an insertion.                                                *)
(***************************************************************************)
LEMMA EnteredKeeps ==
    ASSUME IInv, storing.table # "none", moving = Idle, Entered(Symbols(storing.key)),
           TableTypes', ShortInv', LongInv',
           \A k, v : ShortEntry(k, v)' <=> ShortEntry(k, v),
           \A k, v : LongEntry(k, v)' <=> LongEntry(k, v),
           storing.table = "short" => long' = long
    PROVE  IInv'
<1>1. /\ storing' = NoEntry /\ moving' = Idle
      /\ UNCHANGED <<model, arena, work, batch, at, view, want>>
  BY DEF Entered
<1>2. UNCHANGED <<seeding, overwriting, ids, added, ignoreMerges, coldDiet, stage>>
  BY <1>1 DEF model, work
<1>3. /\ storing'.table = "none" /\ moving'.table = "none" /\ storing'.val = NoValue
      /\ storing' = [table |-> storing'.table, key |-> storing'.key,
                     val |-> storing'.val, slot |-> storing'.slot]
  BY <1>1 DEF NoEntry, Idle
<1>4. pc \in {"stores", "miss"} /\ (storing.table = "long" => pc = "miss") /\ storing.key \in Pretoken
  BY DEF IInv, Control, Types, WorkTypes, Pretoken
<1>5. WorkTypes'
  <2>1. NoValue \in Values
    BY DEF NoValue, Values
  <2> QED
    BY <1>1, <1>2, <1>3, <2>1 DEF IInv, Types, WorkTypes
<1>6. ValuesInv' /\ CallsInv'
  <2>1. stage # "encoding" => long' = long
    BY <1>4 DEF IInv, Control, Types, WorkTypes
  <2> QED
    BY <1>1, <1>5, <2>1, EntriesKept
<1>7. CASE pc = "stores"
  <2>1. pc' = "stores" /\ UNCHANGED <<out, room>>
    BY <1>7 DEF Entered
  <2>2. LoopTypes'
    BY <1>1, <2>1 DEF IInv, Types, LoopTypes
  <2>3. LoopInv'
    BY <2>1 DEF LoopInv
  <2>4. Control'
    BY <1>1, <1>2, <1>3, <1>7, <2>1 DEF IInv, Control
  <2> QED
    BY <1>1, <1>5, <1>6, <2>2, <2>3, <2>4, TypesFrame DEF IInv, Types
<1>8. CASE pc = "miss"
  <2>1. /\ pc' = "emitted" /\ out' = out \o Symbols(storing.key)
        /\ room' = IF room >= Len(out') THEN room ELSE Len(out')
    BY <1>8 DEF Entered
  <2>2. /\ out = want /\ storing.key = batch[at] /\ at <= Len(batch)
        /\ Encoding(storing.key) = Symbols(storing.key)
    BY <1>8 DEF IInv, LoopInv
  <2>3. out' \in Seq(Token) /\ room' \in Nat
    <3>1. Symbols(storing.key) \in Seq(Token) /\ out \in Seq(Token) /\ room \in Nat
      BY <1>4, EncodingType DEF IInv, Types, LoopTypes
    <3>2. out' \in Seq(Token)
      BY <2>1, <3>1
    <3> QED
      BY <2>1, <3>1, <3>2
  <2>4. LoopTypes'
    BY <1>1, <2>1, <2>3 DEF IInv, Types, LoopTypes
  <2>5. Encoding(batch[at])' = Encoding(batch[at])
    BY <1>1, <1>2 DEF Encoding, Symbols, Overwritten
  <2>6. LoopInv'
    BY <1>1, <2>1, <2>2, <2>5 DEF LoopInv
  <2>7. Control'
    BY <1>1, <1>2, <1>3, <1>8, <2>1 DEF IInv, Control
  <2> QED
    BY <1>1, <1>5, <1>6, <2>4, <2>6, <2>7, TypesFrame DEF IInv, Types
<1> QED
  BY <1>4, <1>7, <1>8

\* The new entry takes its slot of the short table.
LEMMA PutStoredKeeps ==
    ASSUME IInv, PutStored
    PROVE  IInv'
<1> DEFINE key == storing.key
           val == storing.val
           e == storing.slot
<1>1. /\ storing.table = "short" /\ moving = Idle /\ ~Crowded(short)
      /\ short' = PutShort(short, e, key, val, short.len + 1)
      /\ Entered(Symbols(storing.key)) /\ long' = long
      /\ storing' = NoEntry /\ moving' = Idle /\ arena' = arena
  BY DEF PutStored, Entered
<1>2. /\ ShortSound(short) /\ ShortShape(short) /\ LongShape(long) /\ key \in Short
      /\ short.cap \in Nat /\ short.cap >= 2 /\ short.len \in Nat
  BY <1>1, StoringShort
<1>3. /\ moving.table = "none" /\ moving'.table = "none" /\ storing'.table = "none"
      /\ LeftShort = {} /\ LeftShort' = {} /\ LeftLong = {} /\ LeftLong' = {}
  BY <1>1 DEF Idle, NoEntry, LeftShort, LeftLong
<1>4. /\ Cardinality(Occupied(short)) = short.len /\ (short.len + 1) * 4 <= short.cap * 3
      /\ \A r \in Occupied(short) : short.keys[r] # key
      /\ e = FirstEmpty(short, HomePair(key, short.cap))
  <2>1. Cardinality(Occupied(short)) + Cardinality({}) = short.len
    BY <1>3 DEF IInv, ShortInv
  <2>2. Cardinality({}) = 0 /\ Cardinality(Occupied(short)) \in Nat
    BY <1>2, FewerLeaveRoom, FS_EmptySet DEF ShortSound
  <2>3. (short.len + 1) * 4 <= short.cap * 3
    BY <1>1, <1>2 DEF Crowded
  <2> QED
    BY <2>1, <2>2, <2>3, <1>1, <1>3 DEF IInv, ShortInv
<1>5. e \in 0 .. short.cap - 1 /\ val \in Values
  BY <1>2, <1>4, HomePairIsEven, FirstEmptyIsFirst DEF ShortSound, IInv, Types, WorkTypes
<1> HIDE DEF e, key, val
<1>6. /\ short'.keys = [short.keys EXCEPT ![e] = key] /\ short'.vals = [short.vals EXCEPT ![e] = val]
      /\ short'.cap = short.cap /\ short'.len = short.len + 1
      /\ short' = [keys |-> short'.keys, vals |-> short'.vals, cap |-> short'.cap, len |-> short'.len]
  BY <1>1 DEF PutShort
<1>7. ShortShape(short')
  BY <1>2, <1>5, <1>6 DEF ShortShape
<1>8. /\ KeysOf(short', Short) /\ short'.keys[e] = key /\ short'.vals[e] = val
      /\ \A s \in 0 .. short.cap - 1 : s # e => /\ short'.keys[s] = short.keys[s]
                                               /\ short'.vals[s] = short.vals[s]
  BY <1>2, <1>5, <1>6, <1>7 DEF ShortShape, KeysOf
<1>9. /\ ShortSound(short') /\ e \notin Occupied(short)
      /\ Occupied(short') = Occupied(short) \union {e}
      /\ Cardinality(Occupied(short')) = short.len + 1
  <2>1. PICK t, u, n : t = short /\ u = short' /\ n = short.len + 1
    OBVIOUS
  <2>2. /\ ShortSound(t) /\ \A s \in Occupied(t) : t.keys[s] # key
        /\ n \in Nat /\ Cardinality(Occupied(t)) < n /\ n * 4 <= t.cap * 3
        /\ e = FirstEmpty(t, HomePair(key, t.cap))
    BY <2>1, <1>2, <1>4
  <2>3. /\ KeysOf(u, Short) /\ u.cap = t.cap /\ u.keys[e] = key
        /\ \A s \in 0 .. t.cap - 1 : s # e => u.keys[s] = t.keys[s]
    BY <2>1, <1>6, <1>8
  <2>4. /\ ShortSound(u) /\ e \notin Occupied(t) /\ Occupied(u) = Occupied(t) \union {e}
        /\ Cardinality(Occupied(u)) = Cardinality(Occupied(t)) + 1
    BY <2>2, <2>3, <1>2, PutShortIsSound
  <2> QED
    BY <2>1, <2>4, <1>4
<1>10. \A s \in Occupied(short) : /\ s \in 0 .. short.cap - 1 /\ s # e
                                  /\ short'.keys[s] = short.keys[s] /\ short'.vals[s] = short.vals[s]
  BY <1>8, <1>9 DEF Occupied
<1>11. ShortInv'
  <2>1. PICK n, m : n = Cardinality(Occupied(short')) /\ m = Cardinality({})
    OBVIOUS
  <2>2. n + m = short'.len
    BY <2>1, <1>2, <1>6, <1>9, FS_EmptySet
  <2> QED
    BY <2>1, <2>2, <1>3, <1>4, <1>6, <1>9 DEF ShortInv
<1>12. LongInv'
  BY <1>1, <1>3, LongElsewhere DEF IInv
<1>13. TableTypes'
  BY <1>1, <1>7 DEF IInv, Types, TableTypes
<1>14. \A k, v : ShortEntry(k, v)' <=> ShortEntry(k, v)
  BY <1>1, <1>3, <1>8, <1>9, <1>10 DEF ShortEntry, key, val
<1>15. \A k, v : LongEntry(k, v)' <=> LongEntry(k, v)
  BY <1>1, <1>3 DEF LongEntry
<1> QED
  BY <1>1, <1>11, <1>12, <1>13, <1>14, <1>15, EnteredKeeps

(***************************************************************************)
(* The steps of an insertion into the long table.                          *)
(***************************************************************************)
LEMMA StoringLong ==
    ASSUME IInv, storing.table = "long"
    PROVE  /\ LongSound(long) /\ LongShape(long) /\ ShortShape(short) /\ storing.key \in Long
           /\ long.cap \in Nat /\ long.len \in Nat /\ long.full \in BOOLEAN
           /\ moving.table # "short" /\ LeftShort = {}
BY DEF IInv, Control, LongInv, Types, TableTypes, LongShape, LeftShort

\* A larger table, or one with the other hash, and the entries yet to be moved.
LEMMA ReplaceLong ==
    ASSUME IInv, storing.table = "long", moving = Idle,
           NEW table \in {"long", "full"}, NEW cap \in Nat \ {0}, NEW full \in BOOLEAN,
           cap >= long.cap, table = "full" => full, table = "long" => full = long.full,
           moving' = [table |-> table, from |-> long, next |-> 0],
           long' = EmptyLong(cap, long.len, full),
           UNCHANGED <<model, short, arena, pc, work, storing, loop>>
    PROVE  IInv'
<1>1. /\ LongSound(long) /\ LongShape(long) /\ ShortShape(short) /\ storing.key \in Long
      /\ long.cap \in Nat /\ long.len \in Nat
  BY StoringLong
<1>2. PICK u : u = long'
  OBVIOUS
<1>3. /\ LongShape(u) /\ LongSound(u) /\ Occupied(u) = {}
      /\ u.cap = cap /\ u.len = long.len /\ u.full = full
  BY <1>1, <1>2, EmptyLongIsSound
<1>4. /\ moving'.table = table /\ moving'.from = long /\ moving'.next = 0
      /\ moving.table = "none" /\ LeftLong = {}
  BY DEF Idle, LeftLong
<1>5. Left' = Occupied(long) /\ LeftLong' = Occupied(long)
  BY <1>4 DEF Left, LeftLong, Occupied
<1>6. ShortInv' /\ LeftShort = {} /\ LeftShort' = {}
  BY <1>4, ShortElsewhere DEF IInv
<1>7. LongInv'
  <2>1. u.len * 4 <= u.cap * 3
    <3>1. long.len * 4 <= long.cap * 3
      BY DEF IInv, LongInv
    <3>2. PICK len, old : len = long.len /\ old = long.cap
      OBVIOUS
    <3>3. len * 4 <= cap * 3
      BY <3>1, <3>2, <1>1
    <3> QED
      BY <3>2, <3>3, <1>3
  <2>2. Cardinality(Occupied(u)) + Cardinality(LeftLong') = u.len
    <3>1. Cardinality(Occupied(long)) + Cardinality({}) = long.len
      BY <1>4 DEF IInv, LongInv
    <3>2. PICK n, m : n = Cardinality(Occupied(long)) /\ m = Cardinality({})
      OBVIOUS
    <3>3. n \in Nat /\ m = 0
      BY <3>2, <1>1, FewerLeaveRoom, FS_EmptySet DEF LongSound
    <3>4. n = long.len /\ m + n = long.len
      BY <3>1, <3>2, <3>3
    <3> QED
      BY <3>2, <3>4, <1>3, <1>5
  <2>3. /\ LongShape(moving'.from) /\ Unique(moving'.from) /\ moving'.next <= moving'.from.cap
        /\ \A s \in Left' : /\ moving'.from.keys[s] # storing'.key
                            /\ \A r \in Occupied(u) : moving'.from.keys[s] # u.keys[r]
    <3>1. \A r \in Occupied(long) : long.keys[r] # storing.key
      BY DEF IInv, LongInv
    <3> QED
      BY <3>1, <1>1, <1>3, <1>4, <1>5 DEF LongSound
  <2>4. moving'.table = "long" =>
           \A s \in Left' : moving'.from.hash[s] = LongHash(moving'.from.keys[s], u.full)
    BY <1>1, <1>3, <1>4, <1>5 DEF LongSound
  <2>5. moving'.table = "full" => u.full
    BY <1>3, <1>4
  <2> QED
    BY <2>1, <2>2, <2>3, <2>4, <2>5, <1>2, <1>3, <1>4 DEF LongInv
<1>8. TableTypes' /\ WorkTypes'
  BY <1>1, <1>2, <1>3, <1>4 DEF IInv, Types, TableTypes, WorkTypes, work
<1>9. \A k, v : LongEntry(k, v)' <=> LongEntry(k, v)
  BY <1>2, <1>3, <1>4, <1>5 DEF LongEntry
<1>10. \A k, v : ShortEntry(k, v)' <=> ShortEntry(k, v)
  BY <1>6 DEF ShortEntry
<1> QED
  BY <1>4, <1>6, <1>7, <1>8, <1>9, <1>10, InsertionStep

\* The long table grows: its keys are yet to be moved into an empty table.
LEMMA GrowLongKeeps ==
    ASSUME IInv, GrowLong
    PROVE  IInv'
<1> DEFINE cap == IF long.cap = 0 THEN MinSlots ELSE 2 * long.cap
<1>1. /\ storing.table = "long" /\ moving = Idle
      /\ moving' = [table |-> "long", from |-> long, next |-> 0]
      /\ long' = EmptyLong(cap, long.len, long.full)
      /\ UNCHANGED <<model, short, arena, pc, work, storing, loop>>
  BY DEF GrowLong
<1>2. long.cap \in Nat /\ long.full \in BOOLEAN
  BY <1>1, StoringLong
<1>3. cap \in Nat \ {0} /\ cap >= long.cap
  BY <1>2, SlotsAssumption
<1> HIDE DEF cap
<1> QED
  BY <1>1, <1>2, <1>3, ReplaceLong

\* A walk that is too long makes the long table change its hash.
LEMMA SwitchToFullHashKeeps ==
    ASSUME IInv, SwitchToFullHash
    PROVE  IInv'
<1>1. /\ storing.table = "long" /\ moving = Idle /\ ~Crowded(long)
      /\ moving' = [table |-> "full", from |-> long, next |-> 0]
      /\ long' = EmptyLong(long.cap, long.len, TRUE)
      /\ UNCHANGED <<model, short, arena, pc, work, storing, loop>>
  BY DEF SwitchToFullHash
<1>2. long.cap \in Nat /\ long.len \in Nat
  BY <1>1, StoringLong
<1>3. PICK table, cap, full : table = "full" /\ cap = long.cap /\ full = TRUE
  OBVIOUS
<1>4. /\ table \in {"long", "full"} /\ cap \in Nat \ {0} /\ full \in BOOLEAN /\ cap >= long.cap
      /\ (table = "full" => full) /\ (table = "long" => full = long.full)
  BY <1>1, <1>2, <1>3 DEF Crowded
<1>5. /\ moving' = [table |-> table, from |-> long, next |-> 0]
      /\ long' = EmptyLong(cap, long.len, full)
  BY <1>1, <1>3
<1> QED
  BY <1>1, <1>4, <1>5, ReplaceLong

\* The growth of the long table, or its change of hash, ends when all keys have moved.
LEMMA MovedLongKeeps ==
    ASSUME IInv, MovedLong
    PROVE  IInv'
<1>1. /\ moving.table \in {"long", "full"} /\ moving.next = moving.from.cap /\ moving' = Idle
      /\ UNCHANGED <<model, tables, pc, work, storing, loop>> /\ UNCHANGED <<short, long, arena>>
  BY DEF MovedLong, tables
<1>2. storing.table = "long"
  BY <1>1 DEF IInv, Control
<1>3. /\ moving'.table = "none" /\ moving'.next = 0
      /\ moving' = [table |-> moving'.table, from |-> moving'.from, next |-> moving'.next]
  BY <1>1 DEF Idle
<1>4. LeftShort = {} /\ LeftShort' = {} /\ LeftLong = {} /\ LeftLong' = {}
  <2>1. moving.from.cap \in Nat
    BY <1>1 DEF IInv, LongInv, LongShape
  <2>2. Left = {}
    BY <1>1, <2>1 DEF Left
  <2> QED
    BY <2>2, <1>1, <1>3 DEF LeftShort, LeftLong
<1>5. LongInv'
  BY <1>1, <1>2, <1>3, <1>4 DEF IInv, LongInv
<1>6. ShortInv'
  BY <1>1, <1>2, <1>3, ShortElsewhere DEF IInv
<1>7. TableTypes' /\ WorkTypes'
  BY <1>1, <1>2, <1>3 DEF IInv, Types, TableTypes, WorkTypes, work
<1>8. /\ \A k, v : ShortEntry(k, v)' <=> ShortEntry(k, v)
      /\ \A k, v : LongEntry(k, v)' <=> LongEntry(k, v)
  BY <1>1, <1>4 DEF ShortEntry, LongEntry
<1> QED
  BY <1>1, <1>2, <1>3, <1>5, <1>6, <1>7, <1>8, InsertionStep

\* One key moves into the grown long table.
LEMMA MoveLongKeeps ==
    ASSUME IInv, MoveLong
    PROVE  IInv'
<1> DEFINE key == moving.from.keys[moving.next]
           val == moving.from.vals[moving.next]
           hash == IF moving.table = "full" THEN FullHash[key] ELSE moving.from.hash[moving.next]
           e == FirstEmpty(long, LongHome(hash, long.cap))
<1>1. /\ moving.table \in {"long", "full"} /\ moving.next < moving.from.cap
      /\ moving' = [moving EXCEPT !.next = @ + 1]
      /\ UNCHANGED <<model, short, arena, pc, work, storing, loop>>
      /\ key = None => long' = long
      /\ key # None => long' = PutLong(long, e, key, hash, val, long.len)
  BY DEF MoveLong
<1>2. storing.table = "long"
  BY <1>1 DEF IInv, Control
<1>3. /\ LongSound(long) /\ LongShape(long) /\ ShortShape(short) /\ storing.key \in Long
      /\ long.cap \in Nat /\ long.len \in Nat /\ long.full \in BOOLEAN
  BY <1>2, StoringLong
<1>4. /\ LongShape(moving.from) /\ Unique(moving.from) /\ moving.next \in Nat
      /\ moving.from.cap \in Nat /\ long.cap # 0
      /\ moving = [table |-> moving.table, from |-> moving.from, next |-> moving.next]
      /\ LeftLong = Left
      /\ moving.table = "long" =>
            \A s \in Left : moving.from.hash[s] = LongHash(moving.from.keys[s], long.full)
      /\ moving.table = "full" => long.full
      /\ \A s \in Left : /\ moving.from.keys[s] # storing.key
                         /\ \A r \in Occupied(long) : moving.from.keys[s] # long.keys[r]
  BY <1>1 DEF IInv, LongInv, Types, WorkTypes, LongShape, LeftLong
<1>5. /\ moving'.table = moving.table /\ moving'.from = moving.from
      /\ moving'.next = moving.next + 1
      /\ Left' = Left \ {moving.next} /\ IsFiniteSet(Left)
      /\ moving.next \in Left <=> key # None
      /\ Cardinality(Left) \in Nat
      /\ Cardinality(Left') = IF key = None THEN Cardinality(Left) ELSE Cardinality(Left) - 1
  BY <1>1, <1>4, LeftAfter
<1>6. moving'.next \in Nat /\ moving'.next <= moving'.from.cap /\ LeftLong' = Left'
  BY <1>1, <1>4, <1>5 DEF LeftLong
<1>7. /\ ShortInv' /\ LeftShort = {} /\ LeftShort' = {}
  BY <1>1, <1>2, <1>5, ShortElsewhere DEF IInv
<1>8. /\ long.len * 4 <= long.cap * 3
      /\ Cardinality(Occupied(long)) + Cardinality(Left) = long.len
      /\ Cardinality(Occupied(long)) \in Nat
      /\ \A r \in Occupied(long) : long.keys[r] # storing.key
  BY <1>2, <1>3, <1>4, FewerLeaveRoom DEF IInv, LongInv, LongSound
<1>9. moving' = [table |-> moving'.table, from |-> moving'.from, next |-> moving'.next]
  <2>1. moving' = [table |-> moving.table, from |-> moving.from, next |-> moving.next + 1]
    BY <1>1, <1>4
  <2> QED
    BY <2>1
<1>10. WorkTypes'
  BY <1>1, <1>5, <1>6, <1>9 DEF IInv, Types, WorkTypes, work
<1>11. \A k, v : ShortEntry(k, v)' <=> ShortEntry(k, v)
  BY <1>1, <1>7 DEF ShortEntry
<1>12. CASE key = None
  <2>1. long' = long /\ Left' = Left
    BY <1>1, <1>5, <1>12
  <2>2. TableTypes'
    BY <1>1, <2>1 DEF IInv, Types, TableTypes
  <2>3. LongInv'
    BY <1>1, <1>2, <1>4, <1>5, <1>6, <2>1 DEF IInv, LongInv
  <2>4. \A k, v : LongEntry(k, v)' <=> LongEntry(k, v)
    BY <1>1, <1>4, <1>5, <1>6, <2>1 DEF LongEntry
  <2> QED
    BY <1>1, <1>2, <1>5, <1>7, <1>10, <1>11, <2>2, <2>3, <2>4, InsertionStep
<1>13. CASE key # None
  <2>1. moving.next \in Left /\ moving.next \in 0 .. moving.from.cap - 1
    BY <1>1, <1>4, <1>5, <1>13
  <2>2. key \in Long /\ val \in Values
    BY <1>4, <1>13, <2>1 DEF LongShape
  <2>3. \A r \in Occupied(long) : long.keys[r] # key
    BY <1>4, <2>1
  <2>4. hash = LongHash(key, long.full) /\ hash \in Nat
    <3>1. hash = LongHash(key, long.full)
      BY <1>1, <1>4, <2>1 DEF LongHash
    <3>2. LongHash(key, long.full) \in Nat
      BY <2>2, HashAssumption DEF LongHash
    <3> QED
      BY <3>1, <3>2
  <2>5. e \in 0 .. long.cap - 1
    <3>1. LongHome(hash, long.cap) \in 0 .. long.cap - 1
      <4>1. LongHomes(long.cap, long.full) \in [Long -> 0 .. long.cap - 1]
        BY <1>3, <1>4, LongHomesAreSlots
      <4>2. LongHomes(long.cap, long.full)[key] = LongHome(LongHash(key, long.full), long.cap)
        BY <2>2 DEF LongHomes
      <4> QED
        BY <4>1, <4>2, <2>2, <2>4
    <3> QED
      BY <3>1, <1>3, <1>4, FirstEmptyIsFirst DEF LongSound
  <2> HIDE DEF e, key, val, hash
  <2>6. /\ long'.keys = [long.keys EXCEPT ![e] = key] /\ long'.vals = [long.vals EXCEPT ![e] = val]
        /\ long'.hash = [long.hash EXCEPT ![e] = hash]
        /\ long'.cap = long.cap /\ long'.len = long.len /\ long'.full = long.full
        /\ long' = [keys |-> long'.keys, vals |-> long'.vals, hash |-> long'.hash,
                    cap |-> long'.cap, len |-> long'.len, full |-> long'.full]
    BY <1>1, <1>13 DEF PutLong
  <2>7. LongShape(long')
    BY <1>3, <2>2, <2>4, <2>5, <2>6 DEF LongShape
  <2>8. /\ KeysOf(long', Long) /\ long'.keys[e] = key /\ long'.vals[e] = val
        /\ long'.hash[e] = hash
        /\ \A s \in 0 .. long.cap - 1 : s # e => /\ long'.keys[s] = long.keys[s]
                                                /\ long'.vals[s] = long.vals[s]
                                                /\ long'.hash[s] = long.hash[s]
    BY <1>3, <2>5, <2>6, <2>7 DEF LongShape, KeysOf
  <2>9. /\ LongSound(long') /\ e \notin Occupied(long)
        /\ Occupied(long') = Occupied(long) \union {e}
        /\ Cardinality(Occupied(long')) = Cardinality(Occupied(long)) + 1
    <3>1. Cardinality(Left) # 0
      BY <1>5, <2>1, FS_EmptySet
    <3>2. PICK m, l : m = Cardinality(Occupied(long)) /\ l = Cardinality(Left)
      OBVIOUS
    <3>3. m < long.len
      BY <3>1, <3>2, <1>3, <1>5, <1>8
    <3>4. PICK t, u, n : t = long /\ u = long' /\ n = long.len
      OBVIOUS
    <3>5. /\ LongSound(t) /\ t.cap # 0 /\ \A s \in Occupied(t) : t.keys[s] # key
          /\ n \in Nat /\ Cardinality(Occupied(t)) < n /\ n * 4 <= t.cap * 3
          /\ e = FirstEmpty(t, LongHome(LongHash(key, t.full), t.cap))
      <4>1. e = FirstEmpty(long, LongHome(hash, long.cap))
        BY DEF e
      <4> QED
        BY <4>1, <3>2, <3>3, <3>4, <1>3, <1>4, <1>8, <2>3, <2>4
    <3>6. /\ KeysOf(u, Long) /\ u.cap = t.cap /\ u.full = t.full /\ u.keys[e] = key
          /\ u.hash[e] = LongHash(key, t.full)
          /\ \A s \in 0 .. t.cap - 1 : s # e => u.keys[s] = t.keys[s] /\ u.hash[s] = t.hash[s]
      BY <3>4, <2>4, <2>6, <2>8
    <3>7. /\ LongSound(u) /\ e \notin Occupied(t) /\ Occupied(u) = Occupied(t) \union {e}
          /\ Cardinality(Occupied(u)) = Cardinality(Occupied(t)) + 1
      BY <3>5, <3>6, <2>2, PutLongIsSound
    <3> QED
      BY <3>4, <3>7
  <2>10. TableTypes'
    BY <1>1, <2>7 DEF IInv, Types, TableTypes
  <2>11. \A s \in Occupied(long) : /\ s \in 0 .. long.cap - 1 /\ s # e
                                   /\ long'.keys[s] = long.keys[s] /\ long'.vals[s] = long.vals[s]
    BY <2>8, <2>9 DEF Occupied
  <2>12. \A s \in Left' : moving.from.keys[s] # key
    <3>1. \A s \in Left : s \in Occupied(moving.from)
      BY <1>4 DEF Left, Occupied
    <3> QED
      BY <3>1, <2>1, <1>4, <1>5 DEF Unique, key
  <2>13. key # storing.key
    BY <1>4, <2>1 DEF key
  <2>14. LongInv'
    <3>1. Cardinality(Occupied(long')) + Cardinality(LeftLong') = long'.len
      BY <1>3, <1>5, <1>6, <1>8, <1>13, <2>6, <2>9
    <3>2. \A s \in Left' : /\ moving'.from.keys[s] # storing'.key
                          /\ \A r \in Occupied(long') : moving'.from.keys[s] # long'.keys[r]
      BY <1>1, <1>4, <1>5, <2>8, <2>9, <2>11, <2>12
    <3>3. \A r \in Occupied(long') : long'.keys[r] # storing'.key
      BY <1>1, <1>8, <2>8, <2>9, <2>11, <2>13
    <3>4. long'.len * 4 <= long'.cap * 3
      BY <1>8, <2>6
    <3>5. /\ moving'.table = "long" =>
               \A s \in Left' : moving'.from.hash[s] = LongHash(moving'.from.keys[s], long'.full)
          /\ moving'.table = "full" => long'.full
      BY <1>4, <1>5, <2>6
    <3> QED
      BY <3>1, <3>2, <3>3, <3>4, <3>5, <2>6, <2>9, <1>4, <1>5, <1>6 DEF LongInv
  <2>15. \A k, v : LongEntry(k, v)' <=> LongEntry(k, v)
    <3>1. \A k, v : LongEntry(k, v) => LongEntry(k, v)'
      BY <1>1, <1>4, <1>5, <1>6, <2>8, <2>9, <2>11 DEF LongEntry, key, val
    <3>2. \A k, v : LongEntry(k, v)' => LongEntry(k, v)
      BY <1>1, <1>4, <1>5, <1>6, <2>1, <2>8, <2>9, <2>11, SMTT(30) DEF LongEntry, key, val
    <3> QED
      BY <3>1, <3>2
  <2> QED
    BY <1>1, <1>2, <1>5, <1>7, <1>10, <1>11, <2>10, <2>14, <2>15, InsertionStep
<1> QED
  BY <1>12, <1>13

\* The new entry takes its slot of the long table.
LEMMA InsertLongKeeps ==
    ASSUME IInv, InsertLong
    PROVE  IInv'
<1> DEFINE key == storing.key
           val == storing.val
           hash == LongHash(storing.key, long.full)
           e == FirstEmpty(long, StoringHome)
<1>1. /\ storing.table = "long" /\ moving = Idle /\ ~Crowded(long)
      /\ long' = PutLong(long, e, key, hash, val, long.len + 1)
      /\ Entered(Symbols(storing.key)) /\ short' = short
      /\ storing' = NoEntry /\ moving' = Idle /\ arena' = arena
  BY DEF InsertLong, Entered
<1>2. /\ LongSound(long) /\ LongShape(long) /\ ShortShape(short) /\ key \in Long
      /\ long.cap \in Nat /\ long.len \in Nat /\ long.full \in BOOLEAN
  BY <1>1, StoringLong
<1>3. /\ moving.table = "none" /\ moving'.table = "none" /\ storing'.table = "none"
      /\ LeftShort = {} /\ LeftShort' = {} /\ LeftLong = {} /\ LeftLong' = {}
  BY <1>1 DEF Idle, NoEntry, LeftShort, LeftLong
<1>4. /\ Cardinality(Occupied(long)) = long.len /\ (long.len + 1) * 4 <= long.cap * 3
      /\ long.cap # 0 /\ \A r \in Occupied(long) : long.keys[r] # key
  <2>1. Cardinality(Occupied(long)) + Cardinality({}) = long.len
    BY <1>3 DEF IInv, LongInv
  <2>2. Cardinality({}) = 0 /\ Cardinality(Occupied(long)) \in Nat
    BY <1>2, FewerLeaveRoom, FS_EmptySet DEF LongSound
  <2>3. (long.len + 1) * 4 <= long.cap * 3 /\ long.cap # 0
    BY <1>1, <1>2 DEF Crowded
  <2> QED
    BY <2>1, <2>2, <2>3, <1>1 DEF IInv, LongInv
<1>5. hash \in Nat /\ e = FirstEmpty(long, LongHome(hash, long.cap))
  BY <1>2, HashAssumption DEF LongHash, StoringHome
<1>6. e \in 0 .. long.cap - 1 /\ val \in Values
  <2>1. LongHome(hash, long.cap) \in 0 .. long.cap - 1
    <3>1. LongHomes(long.cap, long.full) \in [Long -> 0 .. long.cap - 1]
      BY <1>2, <1>4, LongHomesAreSlots
    <3>2. LongHomes(long.cap, long.full)[key] = LongHome(hash, long.cap)
      BY <1>2 DEF LongHomes
    <3> QED
      BY <3>1, <3>2, <1>2
  <2> QED
    BY <2>1, <1>2, <1>4, <1>5, FirstEmptyIsFirst DEF LongSound, IInv, Types, WorkTypes
<1>7. hash = LongHash(key, long.full)
  OBVIOUS
<1> HIDE DEF e, key, val, hash
<1>8. /\ long'.keys = [long.keys EXCEPT ![e] = key] /\ long'.vals = [long.vals EXCEPT ![e] = val]
      /\ long'.hash = [long.hash EXCEPT ![e] = hash]
      /\ long'.cap = long.cap /\ long'.len = long.len + 1 /\ long'.full = long.full
      /\ long' = [keys |-> long'.keys, vals |-> long'.vals, hash |-> long'.hash,
                  cap |-> long'.cap, len |-> long'.len, full |-> long'.full]
  BY <1>1 DEF PutLong
<1>9. LongShape(long')
  BY <1>2, <1>5, <1>6, <1>8 DEF LongShape
<1>10. /\ KeysOf(long', Long) /\ long'.keys[e] = key /\ long'.vals[e] = val
       /\ long'.hash[e] = hash
       /\ \A s \in 0 .. long.cap - 1 : s # e => /\ long'.keys[s] = long.keys[s]
                                               /\ long'.vals[s] = long.vals[s]
                                               /\ long'.hash[s] = long.hash[s]
  BY <1>2, <1>6, <1>8, <1>9 DEF LongShape, KeysOf
<1>11. /\ LongSound(long') /\ e \notin Occupied(long)
       /\ Occupied(long') = Occupied(long) \union {e}
       /\ Cardinality(Occupied(long')) = long.len + 1
  <2>1. PICK t, u, n : t = long /\ u = long' /\ n = long.len + 1
    OBVIOUS
  <2>2. /\ LongSound(t) /\ t.cap # 0 /\ \A s \in Occupied(t) : t.keys[s] # key
        /\ n \in Nat /\ Cardinality(Occupied(t)) < n /\ n * 4 <= t.cap * 3
        /\ e = FirstEmpty(t, LongHome(LongHash(key, t.full), t.cap))
    BY <2>1, <1>2, <1>4, <1>5, <1>7
  <2>3. /\ KeysOf(u, Long) /\ u.cap = t.cap /\ u.full = t.full /\ u.keys[e] = key
        /\ u.hash[e] = LongHash(key, t.full)
        /\ \A s \in 0 .. t.cap - 1 : s # e => u.keys[s] = t.keys[s] /\ u.hash[s] = t.hash[s]
    BY <2>1, <1>7, <1>8, <1>10
  <2>4. key \in Long
    BY <1>2
  <2>5. /\ LongSound(u) /\ e \notin Occupied(t) /\ Occupied(u) = Occupied(t) \union {e}
        /\ Cardinality(Occupied(u)) = Cardinality(Occupied(t)) + 1
    BY <2>2, <2>3, <2>4, PutLongIsSound
  <2> QED
    BY <2>1, <2>5, <1>4
<1>12. \A s \in Occupied(long) : /\ s \in 0 .. long.cap - 1 /\ s # e
                                 /\ long'.keys[s] = long.keys[s] /\ long'.vals[s] = long.vals[s]
  BY <1>10, <1>11 DEF Occupied
<1>13. LongInv'
  <2>1. PICK n, m : n = Cardinality(Occupied(long')) /\ m = Cardinality({})
    OBVIOUS
  <2>2. n + m = long'.len
    BY <2>1, <1>2, <1>8, <1>11, FS_EmptySet
  <2> QED
    BY <2>1, <2>2, <1>3, <1>4, <1>8, <1>11 DEF LongInv
<1>14. ShortInv'
  BY <1>1, <1>3, ShortElsewhere DEF IInv
<1>15. TableTypes'
  BY <1>1, <1>9 DEF IInv, Types, TableTypes
<1>16. \A k, v : LongEntry(k, v)' <=> LongEntry(k, v)
  BY <1>1, <1>3, <1>10, <1>11, <1>12 DEF LongEntry, key, val
<1>17. \A k, v : ShortEntry(k, v)' <=> ShortEntry(k, v)
  BY <1>1, <1>3 DEF ShortEntry
<1> QED
  BY <1>1, <1>13, <1>14, <1>15, <1>16, <1>17, EnteredKeeps

---------------------------------------------------------------------------
(***************************************************************************)
(* The calls of the loader, which store the entries they change.           *)
(***************************************************************************)
LEMMA CallKeeps ==
    ASSUME IInv, pc = "idle", pc' = "stores", UNCHANGED <<tables, storing, moving, loop>>,
           ModelTypes', seeding' \subseteq Short,
           overwriting' = Overwritten(added', ids'),
           stage' # "encoding" => stage # "encoding",
           stage' = "built" => /\ added' = {} /\ seeding' \subseteq Seeds(coldDiet', ids')
                               /\ stage = "built" /\ coldDiet' = coldDiet /\ ids' = ids,
           \A k \in Short : Stored(k) /\ k \notin seeding' \union overwriting' =>
                              Encoding(k)' = Encoding(k),
           \/ Occupied(long) = {}
           \/ \A k \in Long : Encoding(k)' = Encoding(k)
    PROVE  IInv'
<1>1. /\ storing = NoEntry /\ moving = Idle /\ LeftShort = {} /\ LeftLong = {}
      /\ \A s \in Occupied(short) :
            InArena(short.vals[s], arena) /\ Unpacked(short.vals[s], arena) = Encoding(short.keys[s])
      /\ \A s \in Occupied(long) :
            InArena(long.vals[s], arena) /\ Unpacked(long.vals[s], arena) = Encoding(long.keys[s])
  BY NothingEntered
<1>2. /\ UNCHANGED <<short, long, arena, storing, moving, out, want, batch, at, room>>
      /\ LeftShort' = LeftShort /\ LeftLong' = LeftLong
  BY DEF tables, loop, LeftShort, LeftLong, Left
<1>3. overwriting' \subseteq Short
  BY DEF Overwritten
<1>4. Types'
  <2>1. WorkTypes'
    BY <1>2, <1>3 DEF IInv, Types, WorkTypes
  <2>2. LoopTypes'
    BY <1>2 DEF IInv, Types, LoopTypes
  <2>3. TableTypes'
    BY TypesFrame DEF IInv
  <2> QED
    BY <2>1, <2>2, <2>3 DEF Types
<1>5. ShortInv' /\ LongInv'
  BY <1>2, TablesFrame DEF IInv
<1>6. storing.table = "none" /\ moving.table = "none"
  BY <1>1 DEF NoEntry, Idle
<1>7. Control'
  BY <1>1, <1>2, <1>6 DEF IInv, Control
<1>8. LoopInv'
  BY DEF LoopInv
<1>9. \A s \in Occupied(short) : short.keys[s] \in Short /\ Stored(short.keys[s])
  BY DEF Stored, IInv, Types, TableTypes, ShortShape, Occupied
<1>10. \A s \in Occupied(long) : long.keys[s] \in Long
  BY DEF IInv, Types, TableTypes, LongShape, Occupied
<1>11. ValuesInv'
  <2>1. \A s \in Occupied(short) : \A k, v : k = short.keys[s] /\ v = short.vals[s] => Gives(k, v)'
    BY <1>1, <1>2, <1>9 DEF Gives
  <2>2. \A s \in Occupied(long) : \A k, v : k = long.keys[s] /\ v = long.vals[s] => Gives(k, v)'
    BY <1>1, <1>2, <1>10 DEF Gives
  <2> QED
    BY <2>1, <2>2, <1>1, <1>2, <1>6 DEF ValuesInv, Gives, Encoding, Symbols, Overwritten
<1>12. CallsInv'
  <2>1. \A k : Stored(k)' = Stored(k)
    BY <1>2 DEF Stored
  <2>2. stage' = "built" => \A k \in Short : Stored(k)' => k \in Seeds(coldDiet', ids')
    BY <2>1 DEF IInv, CallsInv
  <2>3. stage' # "encoding" => Occupied(long') = {}
    BY <1>2 DEF IInv, CallsInv
  <2>4. \A k \in Overwritten(added', ids') : k \in overwriting' \/ Stored(k)'
    OBVIOUS
  <2> QED
    BY <2>2, <2>3, <2>4 DEF CallsInv
<1> QED
  BY <1>4, <1>5, <1>7, <1>8, <1>11, <1>12 DEF IInv

\* Added tokens overwrite entries of the short table only.
LEMMA OnlyShortIsOverwritten ==
    ASSUME Types
    PROVE  /\ Overwritten(added, ids) \subseteq Short
           /\ \A k \in Long : Encoding(k) = Symbols(k) /\ Encoding(k)' = Symbols(k)'
           /\ \A k : k \notin Overwritten(added, ids) => Encoding(k) = Symbols(k)
           /\ \A k : k \notin Overwritten(added', ids') => Encoding(k)' = Symbols(k)'
<1>1. \A k \in Long : k \notin Short
  BY KeyAssumption
<1> QED
  BY <1>1 DEF Encoding, Overwritten

\* The loader's set_ignore_merges keeps the invariant.
LEMMA SetIgnoreMergesKeeps ==
    ASSUME IInv, SetIgnoreMerges
    PROVE  IInv'
<1>1. /\ pc = "idle" /\ pc' = "stores" /\ stage = "built" /\ ignoreMerges' = TRUE
      /\ seeding' = Seeds(coldDiet, ids) /\ overwriting' = Overwritten(added, ids)
      /\ UNCHANGED <<coldDiet, ids, free, added, stage, tables, storing, moving, loop>>
  BY DEF SetIgnoreMerges, Stores
<1>2. added = {} /\ Occupied(long) = {} /\ \A k \in Short : Stored(k) => k \in seeding'
  BY <1>1 DEF IInv, CallsInv
<1>3. ModelTypes'
  BY <1>1 DEF IInv, Types, ModelTypes
<1>4. seeding' \subseteq Short
  BY <1>1 DEF Seeds
<1> QED
  BY <1>1, <1>2, <1>3, <1>4, CallKeeps

\* The loader's set_added_tokens keeps the invariant.
LEMMA SetAddedTokensKeeps ==
    ASSUME IInv, NEW contents \in SUBSET Contents, SetAddedTokens(contents)
    PROVE  IInv'
<1>1. /\ pc = "idle" /\ pc' = "stores" /\ added' = contents
      /\ stage' = IF stage = "built" THEN "configured" ELSE stage
      /\ seeding' = Overwritten(added, ids) /\ overwriting' = Overwritten(contents, ids)
      /\ UNCHANGED <<coldDiet, ignoreMerges, ids, free, tables, storing, moving, loop>>
  BY DEF SetAddedTokens, Stores
<1>2. ModelTypes'
  BY <1>1, MergedAssumption DEF IInv, Types, ModelTypes
<1>3. stage' # "built" /\ (stage' # "encoding" => stage # "encoding")
  BY <1>1
<1>4. \A k : Symbols(k)' = Symbols(k)
  BY <1>1 DEF Symbols
<1>5. \A k \in Short : k \notin seeding' \union overwriting' => Encoding(k)' = Encoding(k)
  BY <1>1, <1>4, OnlyShortIsOverwritten DEF IInv
<1>6. \A k \in Long : Encoding(k)' = Encoding(k)
  BY <1>4, OnlyShortIsOverwritten DEF IInv
<1>7. seeding' \subseteq Short
  BY <1>1 DEF Overwritten
<1> QED
  BY <1>1, <1>2, <1>3, <1>5, <1>6, <1>7, CallKeeps

\* add_special_token keeps the invariant.
LEMMA AddSpecialTokenKeeps ==
    ASSUME IInv, NEW k \in Contents, NEW id \in SpecialIds, AddSpecialToken(k, id)
    PROVE  IInv'
<1>1. /\ pc = "idle" /\ pc' = "stores" /\ stage # "encoding" /\ stage' = "configured"
      /\ ids' = (IF id \in free THEN [ids EXCEPT ![k] = id] ELSE ids)
      /\ free' = free \ {id} /\ added' = added \union {k}
      /\ seeding' = Overwritten(added, ids') /\ overwriting' = Overwritten(added \union {k}, ids')
      /\ UNCHANGED <<coldDiet, ignoreMerges, tables, storing, moving, loop>>
  BY DEF AddSpecialToken, Stores
<1>2. k \in Pretoken /\ id \in Token /\ NoId \notin Token
  BY MergedAssumption
<1>3. ModelTypes'
  BY <1>1, <1>2 DEF IInv, Types, ModelTypes
<1>4. Occupied(long) = {}
  BY <1>1 DEF IInv, CallsInv
<1>5. ASSUME NEW j \in Short, j \notin seeding' \union overwriting'
      PROVE  Encoding(j)' = Encoding(j)
  <2>1. ids'[j] = ids[j]
    <3>1. ids \in [Pretoken -> Token \union {NoId}] /\ j \in Pretoken
      BY DEF IInv, Types, ModelTypes, Pretoken
    <3>2. CASE j = k
      <4>1. ids'[j] = NoId
        BY <1>1, <1>5, <3>2 DEF Overwritten
      <4> QED
        BY <4>1, <3>1, <3>2, <1>1, <1>2
    <3>3. CASE j # k
      BY <1>1, <3>1, <3>3
    <3> QED
      BY <3>2, <3>3
  <2>2. Symbols(j)' = Symbols(j)
    BY <2>1, <1>1 DEF Symbols
  <2>3. j \notin Overwritten(added, ids) /\ j \notin Overwritten(added', ids')
    BY <2>1, <1>1, <1>5 DEF Overwritten
  <2> QED
    BY <2>2, <2>3, OnlyShortIsOverwritten DEF IInv
<1>6. seeding' \subseteq Short
  BY <1>1 DEF Overwritten
<1> QED
  BY <1>1, <1>3, <1>4, <1>5, <1>6, CallKeeps

(***************************************************************************)
(* A call stores one entry: over the one its key has, or as a new one.     *)
(***************************************************************************)
LEMMA ReplaceKeeps ==
    ASSUME IInv, NEW k \in Short, NEW symbols \in Seq(Token), pc = "stores", storing = NoEntry,
           Replace(k, symbols), seeding' \subseteq seeding, overwriting' \subseteq overwriting,
           (seeding \union overwriting) \ (seeding' \union overwriting') \subseteq {k},
           k \notin seeding' \union overwriting' => Encoding(k) = symbols,
           overwriting \ overwriting' \subseteq {k},
           seeding' \intersect Overwritten(added, ids) \subseteq overwriting',
           stage = "built" => k \in Seeds(coldDiet, ids)
    PROVE  IInv'
<1>0. PICK val : val = Packed(symbols, arena)
  OBVIOUS
<1>1. /\ arena' = ArenaWith(symbols, arena) /\ UNCHANGED <<model, long, pc, moving, loop>>
      /\ UNCHANGED <<coldDiet, ignoreMerges, ids, added, stage, batch, at, out, want, room, view>>
  BY DEF Replace, model, loop
<1>2. /\ Grows /\ arena' \in Seq(Token) /\ val \in Values
      /\ InArena(val, arena') /\ Unpacked(val, arena') = symbols
  BY <1>0, <1>1, ArenaGrows DEF IInv
<1>3. /\ storing.table = "none" /\ moving = Idle /\ moving.table = "none"
      /\ LeftShort = {} /\ LeftLong = {} /\ LeftShort' = {} /\ LeftLong' = {}
  <2>1. storing.table = "none"
    BY DEF NoEntry
  <2>2. moving.table = "none"
    BY <2>1 DEF IInv, Control, Types, WorkTypes
  <2> QED
    BY <2>1, <2>2, <1>1 DEF LeftShort, LeftLong, IInv, Control
<1>4. \A j : Encoding(j)' = Encoding(j)
  BY <1>1, EncodingFrame
<1>5. \A j : j # k => \A w \in Values : Gives(j, w) => Gives(j, w)'
  BY <1>2, <1>4, GivesKept
<1>6. \A j : j = k => Gives(j, val)'
  BY <1>2, <1>4 DEF Gives
<1>7. ModelTypes' /\ LoopTypes'
  BY <1>1, TypesFrame DEF IInv
<1>8. \A s \in Occupied(short) : short.vals[s] \in Values /\ Gives(short.keys[s], short.vals[s])
  BY EntryValues DEF IInv, ValuesInv
<1>9. \A s \in Occupied(long) : long.vals[s] \in Values /\ Gives(long.keys[s], long.vals[s])
                                /\ long.keys[s] # k
  BY EntryValues, KeyAssumption DEF IInv, ValuesInv, Types, TableTypes, LongShape, Occupied
<1>10. \A s \in Occupied(long) : \A j, w : j = long.keys[s] /\ w = long.vals[s] => Gives(j, w)'
  BY <1>5, <1>9
<1>11. LoopInv'
  BY <1>1 DEF LoopInv
<1>12. ShortSound(short) /\ ShortShape(short) /\ LongShape(long)
  BY DEF IInv, ShortInv, Types, TableTypes
<1>13. CASE Holds(short, k)
  <2> DEFINE e == SlotOf(short, k)
  <2>1. short' = PutShort(short, e, k, val, short.len) /\ storing' = storing
    BY <1>0, <1>13 DEF Replace
  <2>2. e \in Occupied(short) /\ short.keys[e] = k /\ e \in 0 .. short.cap - 1
    BY <1>12, <1>13, ShortLookup DEF Occupied
  <2>3. \A s \in Occupied(short) : short.keys[s] = k => s = e
    BY <2>2, <1>12 DEF ShortSound, Unique
  <2> HIDE DEF e
  <2>4. /\ short'.keys = [short.keys EXCEPT ![e] = k] /\ short'.vals = [short.vals EXCEPT ![e] = val]
        /\ short'.cap = short.cap /\ short'.len = short.len
        /\ short' = [keys |-> short'.keys, vals |-> short'.vals, cap |-> short'.cap, len |-> short'.len]
    BY <2>1 DEF PutShort
  <2>5. short'.keys = short.keys
    BY <2>2, <2>4, <1>12 DEF ShortShape
  <2>6. ShortShape(short')
    BY <1>2, <1>12, <2>2, <2>4, <2>5 DEF ShortShape
  <2>7. Occupied(short') = Occupied(short)
    BY <2>4, <2>5 DEF Occupied
  <2>8. ShortSound(short')
    <3>1. PICK t, u : t = short /\ u = short'
      OBVIOUS
    <3>2. /\ u.keys = t.keys /\ u.cap = t.cap /\ u.len = t.len /\ Occupied(u) = Occupied(t)
      BY <3>1, <2>4, <2>5, <2>7
    <3>3. ShortSound(t)
      BY <3>1, <1>12
    <3>4. ShortSound(u)
      BY <3>2, <3>3 DEF ShortSound, KeysOf, HasRoom, Reached, Unique
    <3> QED
      BY <3>1, <3>4
  <2>9. short'.vals[e] = val /\ \A s \in Occupied(short) : s # e => short'.vals[s] = short.vals[s]
    BY <1>12, <2>2, <2>4 DEF ShortShape, Occupied
  <2>10. TableTypes' /\ WorkTypes'
    BY <1>1, <1>2, <1>12, <2>1, <2>6 DEF IInv, Types, TableTypes, WorkTypes
  <2>11. ShortInv'
    BY <1>1, <1>3, <2>1, <2>4, <2>7, <2>8 DEF IInv, ShortInv
  <2>12. LongInv'
    BY <1>1, <1>3, <2>1, LongElsewhere DEF IInv
  <2>13. \A s \in Occupied(short) : \A j, w : j = short'.keys[s] /\ w = short'.vals[s] => Gives(j, w)'
    BY <1>5, <1>6, <1>8, <2>2, <2>3, <2>5, <2>9
  <2>14. ValuesInv'
    <3>1. (\A s \in Occupied(short) : Gives(short.keys[s], short.vals[s]))'
      BY <2>7, <2>13 DEF Gives, Encoding, Symbols, Overwritten
    <3>2. (\A s \in Occupied(long) : Gives(long.keys[s], long.vals[s]))'
      BY <1>1, <1>10 DEF Gives, Encoding, Symbols, Overwritten
    <3>3. storing'.table = "none"
      BY <1>3, <2>1
    <3> QED
      BY <1>3, <3>1, <3>2, <3>3 DEF ValuesInv
  <2>15. CallsInv'
    <3>1. \A j : Stored(j)' = Stored(j)
      BY <1>3, <2>1, <2>5, <2>7 DEF Stored
    <3>2. Stored(k)
      BY <2>2 DEF Stored
    <3> QED
      BY <3>1, <3>2, <1>1 DEF IInv, CallsInv
  <2>16. Control'
    BY <1>1, <1>3, <2>1 DEF IInv, Control
  <2> QED
    BY <1>7, <1>11, <2>10, <2>11, <2>12, <2>14, <2>15, <2>16 DEF IInv, Types
<1>14. CASE ~Holds(short, k)
  <2>1. /\ short' = short
        /\ storing' = [table |-> "short", key |-> k, val |-> val, slot |-> MissSlot(short, k)]
    BY <1>0, <1>14 DEF Replace
  <2>2. /\ \A s \in Occupied(short) : short.keys[s] # k
        /\ MissSlot(short, k) = FirstEmpty(short, HomePair(k, short.cap))
    BY <1>12, <1>14, ShortLookup
  <2>3. /\ storing'.table = "short" /\ storing'.key = k /\ storing'.val = val
        /\ storing'.slot = MissSlot(short, k)
        /\ storing' = [table |-> storing'.table, key |-> storing'.key,
                       val |-> storing'.val, slot |-> storing'.slot]
    BY <2>1
  <2>4. TableTypes' /\ WorkTypes'
    BY <1>1, <1>2, <1>12, <2>1, <2>3 DEF IInv, Types, TableTypes, WorkTypes
  <2>5. ShortInv'
    BY <1>1, <1>3, <2>1, <2>2, <2>3 DEF IInv, ShortInv
  <2>6. LongInv'
    BY <1>1, <1>3, <2>3, LongElsewhere DEF IInv
  <2>7. \A s \in Occupied(short) : \A j, w : j = short.keys[s] /\ w = short.vals[s] => Gives(j, w)'
    BY <1>5, <1>8, <2>2
  <2>8. \A j, w : j = storing'.key /\ w = storing'.val => Gives(j, w)'
    BY <1>6, <2>3
  <2>9. ValuesInv'
    BY <1>1, <1>3, <1>10, <2>1, <2>7, <2>8 DEF ValuesInv, Gives, Encoding, Symbols, Overwritten
  <2>10. CallsInv'
    <3>1. \A j : Stored(j)' <=> Stored(j) \/ j = k
      BY <1>3, <2>1, <2>3 DEF Stored
    <3> QED
      BY <3>1, <1>1 DEF IInv, CallsInv
  <2>11. Control'
    BY <1>1, <1>3, <2>3 DEF IInv, Control
  <2> QED
    BY <1>7, <1>11, <2>4, <2>5, <2>6, <2>9, <2>10, <2>11 DEF IInv, Types
<1> QED
  BY <1>13, <1>14

\* A vocabulary entry is on its way into the short table.
LEMMA SeedKeeps ==
    ASSUME IInv, NEW k \in Short, Seed(k)
    PROVE  IInv'
<1>1. /\ pc = "stores" /\ storing = NoEntry /\ k \in seeding /\ seeding' = seeding \ {k}
      /\ Replace(k, Symbols(k)) /\ overwriting' = overwriting
  BY DEF Seed
<1>2. Symbols(k) \in Seq(Token)
  BY EncodingType DEF IInv, Pretoken
<1>3. /\ seeding \intersect Overwritten(added, ids) \subseteq overwriting
      /\ stage = "built" => k \in Seeds(coldDiet, ids)
  BY <1>1 DEF IInv, CallsInv
<1>4. k \notin seeding' \union overwriting' => Encoding(k) = Symbols(k)
  BY <1>1, <1>3, OnlyShortIsOverwritten DEF IInv
<1> QED
  BY <1>1, <1>2, <1>3, <1>4, ReplaceKeeps

\* An added token is on its way over its entry of the short table.
LEMMA OverwriteKeeps ==
    ASSUME IInv, NEW k \in Short, Overwrite(k)
    PROVE  IInv'
<1>1. /\ pc = "stores" /\ storing = NoEntry /\ seeding = {} /\ k \in overwriting
      /\ overwriting' = overwriting \ {k}
      /\ Replace(k, <<ids[k]>>) /\ seeding' = seeding
  BY DEF Overwrite
<1>2. k \in Overwritten(added, ids) /\ stage # "built"
  BY <1>1 DEF IInv, CallsInv, Overwritten
<1>3. <<ids[k]>> \in Seq(Token) /\ Encoding(k) = <<ids[k]>>
  BY <1>2 DEF Encoding, Overwritten, IInv, Types, ModelTypes
<1> QED
  BY <1>1, <1>2, <1>3, ReplaceKeeps


---------------------------------------------------------------------------
(***************************************************************************)
(* New tables, those of a new tokenizer and those of a fork.               *)
(***************************************************************************)
Fresh ==
    /\ ModelTypes /\ stage # "encoding" /\ (stage = "built" => added = {})
    /\ \E cap \in Capacities : short = EmptyShort(cap, 0)
    /\ \E cap \in LongCapacities \union {0} : long = EmptyLong(cap, 0, FALSE)
    /\ arena = <<>> /\ pc = "stores"
    /\ seeding = Seeds(coldDiet, ids) /\ overwriting = Overwritten(added, ids)
    /\ storing = NoEntry /\ moving = Idle
    /\ batch \in Seq(Pretoken) /\ Len(batch) <= PretokenChunk /\ at \in Nat \ {0}
    /\ out = <<>> /\ want = <<>> /\ room \in Nat

\* Empty tables are sound, whatever the vocabulary.
LEMMA FreshIsSound == Fresh => IInv
<1> SUFFICES ASSUME Fresh PROVE IInv
  OBVIOUS
<1>1. PICK cap \in Capacities : short = EmptyShort(cap, 0)
  BY DEF Fresh
<1>2. PICK capacity \in LongCapacities \union {0} : long = EmptyLong(capacity, 0, FALSE)
  BY DEF Fresh
<1>3. ShortCap(cap) /\ capacity \in Nat
  BY CapacityAssumption DEF ShortCap
<1>4. ShortShape(short) /\ ShortSound(short) /\ Occupied(short) = {} /\ short.len = 0 /\ short.cap = cap
  BY <1>1, <1>3, EmptyShortIsSound
<1>5. LongShape(long) /\ LongSound(long) /\ Occupied(long) = {} /\ long.len = 0 /\ long.cap = capacity
  <2>1. PICK n \in Nat, full \in BOOLEAN : n = 0 /\ full = FALSE
    OBVIOUS
  <2>2. long = EmptyLong(capacity, n, full)
    BY <1>2, <2>1
  <2> QED
    BY <1>3, <2>1, <2>2, EmptyLongIsSound
<1>6. /\ storing.table = "none" /\ moving.table = "none" /\ storing.val = NoValue /\ moving.next = 0
      /\ storing = [table |-> storing.table, key |-> storing.key,
                    val   |-> storing.val, slot |-> storing.slot]
      /\ moving = [table |-> moving.table, from |-> moving.from, next |-> moving.next]
  BY DEF Fresh, NoEntry, Idle
<1>7. LeftShort = {} /\ LeftLong = {}
  BY <1>6 DEF LeftShort, LeftLong
<1>8. Types
  <2>1. WorkTypes
    <3>1. NoValue \in Values /\ seeding \subseteq Short /\ overwriting \subseteq Short
      BY DEF NoValue, Values, Fresh, Seeds, Overwritten
    <3> QED
      BY <1>6, <3>1 DEF WorkTypes
  <2>2. TableTypes
    <3>1. arena \in Seq(Token)
      BY DEF Fresh
    <3> QED
      BY <1>4, <1>5, <3>1 DEF TableTypes
  <2>3. LoopTypes
    BY DEF Fresh, LoopTypes
  <2> QED
    BY <2>1, <2>2, <2>3 DEF Fresh, Types
<1>9. Control
  BY <1>6 DEF Fresh, Control
<1>10. ShortInv /\ LongInv
  <2>1. Cardinality({}) = 0
    BY FS_EmptySet
  <2>2. short.len * 4 <= short.cap * 3 /\ long.len * 4 <= long.cap * 3
    BY <1>3, <1>4, <1>5 DEF ShortCap
  <2> QED
    BY <1>4, <1>5, <1>6, <1>7, <2>1, <2>2 DEF ShortInv, LongInv
<1>11. ValuesInv
  BY <1>4, <1>5, <1>6, <1>7 DEF ValuesInv
<1>12. CallsInv
  <2>1. \A k : ~Stored(k)
    BY <1>4, <1>6, <1>7 DEF Stored
  <2>2. Seeds(coldDiet, ids) \intersect Overwritten(added, ids) \subseteq overwriting
    BY DEF Fresh
  <2> QED
    BY <1>5, <2>1, <2>2 DEF CallsInv, Fresh
<1>13. LoopInv
  BY DEF Fresh, LoopInv
<1> QED
  BY <1>8, <1>9, <1>10, <1>11, <1>12, <1>13 DEF IInv

\* The tables begin empty and sound.
LEMMA InitIsSound == Init => IInv
<1> SUFFICES ASSUME Init PROVE IInv
  OBVIOUS
<1>1. ModelTypes
  BY MergedAssumption DEF Init, ModelTypes
<1>2. Overwritten(added, ids) = {}
  BY DEF Init, Overwritten
<1>3. \E cap \in Capacities : short = EmptyShort(cap, 0)
  BY DEF Init, WithAtLeast
<1>4. <<>> \in Seq(Pretoken) /\ Len(<<>>) <= PretokenChunk
  BY BatchAssumption
<1>5. \E cap \in LongCapacities \union {0} : long = EmptyLong(cap, 0, FALSE)
  BY DEF Init
<1>6. /\ stage = "built" /\ added = {} /\ arena = <<>> /\ pc = "stores"
      /\ seeding = Seeds(coldDiet, ids) /\ overwriting = {} /\ storing = NoEntry /\ moving = Idle
      /\ batch = <<>> /\ at = 1 /\ out = <<>> /\ want = <<>> /\ room = 0
  BY DEF Init
<1>7. Fresh
  <2>1. batch \in Seq(Pretoken) /\ Len(batch) <= PretokenChunk
    BY <1>4, <1>6
  <2>2. at \in Nat \ {0} /\ room \in Nat /\ stage # "encoding"
    BY <1>6
  <2>3. overwriting = Overwritten(added, ids)
    BY <1>2, <1>6
  <2> QED
    BY <1>1, <1>3, <1>5, <1>6, <2>1, <2>2, <2>3 DEF Fresh
<1> QED
  BY <1>7, FreshIsSound

\* A forked tokenizer begins with empty tables of its own.
LEMMA ForkIsFresh ==
    ASSUME IInv, NEW min \in Capacities, NEW capacity \in LongCapacities, Fork(min, capacity)
    PROVE  Fresh'
<1>1. /\ pc = "idle" /\ pc' = "stores" /\ stage' = "configured" /\ arena' = <<>>
      /\ seeding' = Seeds(coldDiet, ids) /\ overwriting' = Overwritten(added, ids)
      /\ long' = EmptyLong(capacity, 0, FALSE)
      /\ UNCHANGED <<coldDiet, ignoreMerges, ids, free, added, storing, moving,
                     batch, at, view, out, room, want>>
  BY DEF Fork, Stores, loop
<1>2. \E cap \in Capacities : short' = EmptyShort(cap, 0)
  BY DEF Fork, WithAtLeast
<1>3. storing = NoEntry /\ moving = Idle /\ out = <<>> /\ want = <<>>
  BY <1>1, NothingEntered DEF IInv, Control
<1>4. ModelTypes'
  BY <1>1 DEF IInv, Types, ModelTypes
<1>5. batch \in Seq(Pretoken) /\ Len(batch) <= PretokenChunk /\ at \in Nat \ {0} /\ room \in Nat
  BY DEF IInv, Types, LoopTypes
<1> QED
  BY <1>1, <1>2, <1>3, <1>4, <1>5 DEF Fresh

\* A fork keeps the invariant.
LEMMA ForkKeeps ==
    ASSUME IInv, NEW min \in Capacities, NEW capacity \in LongCapacities, Fork(min, capacity)
    PROVE  IInv'
<1>1. Fresh'
  BY ForkIsFresh
<1> QED
  BY <1>1, FreshIsSound, PTL

---------------------------------------------------------------------------
(***************************************************************************)
(* Every step keeps the invariant.                                         *)
(***************************************************************************)
LEMMA NextKeeps ==
    ASSUME IInv, Next
    PROVE  IInv'
<1>1. ASSUME NEW contents \in SUBSET Contents, SetAddedTokens(contents) PROVE IInv'
  BY <1>1, SetAddedTokensKeeps
<1>2. ASSUME NEW k \in Contents, NEW id \in SpecialIds, AddSpecialToken(k, id) PROVE IInv'
  BY <1>2, AddSpecialTokenKeeps
<1>3. ASSUME NEW min \in Capacities, NEW capacity \in LongCapacities, Fork(min, capacity) PROVE IInv'
  BY <1>3, ForkKeeps
<1>4. ASSUME NEW k \in Short, Seed(k) \/ Overwrite(k) PROVE IInv'
  BY <1>4, SeedKeeps, OverwriteKeeps
<1>5. CASE SetIgnoreMerges \/ Return
  BY <1>5, SetIgnoreMergesKeeps, ReturnKeeps
<1>6. CASE GrowShort \/ MoveShort \/ GrownShort \/ PutStored
  BY <1>6, GrowShortKeeps, MoveShortKeeps, GrownShortKeeps, PutStoredKeeps
<1>7. CASE GrowLong \/ SwitchToFullHash \/ MoveLong \/ MovedLong \/ InsertLong
  BY <1>7, GrowLongKeeps, SwitchToFullHashKeeps, MoveLongKeeps, MovedLongKeeps, InsertLongKeeps
<1>8. ASSUME NEW pretokens \in Batches, Encode(pretokens) \/ NextChunk(pretokens) PROVE IInv'
  BY <1>8, EncodeKeeps, NextChunkKeeps
<1>9. CASE ProbeHit \/ ProbeMiss \/ SlowHit \/ MissShort \/ MissLong \/ Emitted \/ Delivered
  BY <1>9, ProbeHitKeeps, ProbeMissKeeps, SlowHitKeeps, MissShortKeeps, MissLongKeeps,
     EmittedKeeps, DeliveredKeeps
<1> QED
  BY <1>1, <1>2, <1>3, <1>4, <1>5, <1>6, <1>7, <1>8, <1>9 DEF Next

\* A stuttering step keeps the invariant.
LEMMA StutterKeeps ==
    ASSUME IInv, UNCHANGED vars
    PROVE  IInv'
<1>1. /\ UNCHANGED <<model, tables, work, storing, moving, pc, loop>>
      /\ UNCHANGED <<short, long, storing, seeding, overwriting, stage, out, want, batch, at, view, room>>
      /\ UNCHANGED <<ids, added, ignoreMerges>>
  BY DEF vars, model, tables, work, loop
<1>2. LoopTypes'
  BY <1>1, TypesFrame DEF IInv
<1>3. Types' /\ ShortInv' /\ LongInv' /\ ValuesInv' /\ CallsInv'
  BY <1>1, <1>2, LoopFrame
<1>4. Control'
  BY <1>1 DEF IInv, Control
<1>5. LoopInv'
  BY <1>1, EncodingFrame DEF IInv, LoopInv
<1> QED
  BY <1>3, <1>4, <1>5 DEF IInv

\* The inductive invariant holds in every reachable state.
THEOREM Inductive == Spec => []IInv
<1>1. Init => IInv
  BY InitIsSound
<1>2. IInv /\ [Next]_vars => IInv'
  BY NextKeeps, StutterKeeps
<1> QED
  BY <1>1, <1>2, PTL DEF Spec

---------------------------------------------------------------------------
(***************************************************************************)
(* What the invariant says of the tables and of the emit loop.             *)
(***************************************************************************)
LEMMA EntriesAreFound == IInv => WalksFind
<1> SUFFICES ASSUME IInv, moving = Idle PROVE
       /\ \A s \in Occupied(short) : Holds(short, short.keys[s]) /\ SlotOf(short, short.keys[s]) = s
       /\ \A s \in Occupied(long) : LongHolds(long, long.keys[s]) /\ LongSlotOf(long, long.keys[s]) = s
       /\ Cardinality(Occupied(short)) = short.len /\ short.len < short.cap
       /\ Cardinality(Occupied(long)) = long.len /\ long.len <= long.cap
  BY DEF WalksFind
<1>1. ShortSound(short) /\ LongSound(long) /\ ShortShape(short) /\ LongShape(long)
  BY DEF IInv, ShortInv, LongInv, Types, TableTypes
<1>2. \A s \in Occupied(short) : Holds(short, short.keys[s]) /\ SlotOf(short, short.keys[s]) = s
  <2> SUFFICES ASSUME NEW s \in Occupied(short)
               PROVE  Holds(short, short.keys[s]) /\ SlotOf(short, short.keys[s]) = s
    OBVIOUS
  <2>1. PICK k \in Short : k = short.keys[s]
    BY <1>1 DEF ShortShape, Occupied
  <2>2. Holds(short, k) /\ SlotOf(short, k) \in Occupied(short) /\ short.keys[SlotOf(short, k)] = k
    BY <1>1, <2>1, ShortLookup
  <2> QED
    BY <1>1, <2>1, <2>2 DEF ShortSound, Unique
<1>3. \A s \in Occupied(long) : LongHolds(long, long.keys[s]) /\ LongSlotOf(long, long.keys[s]) = s
  <2> SUFFICES ASSUME NEW s \in Occupied(long)
               PROVE  LongHolds(long, long.keys[s]) /\ LongSlotOf(long, long.keys[s]) = s
    OBVIOUS
  <2>1. PICK k \in Long : k = long.keys[s]
    BY <1>1 DEF LongShape, Occupied
  <2>2. LongHolds(long, k) /\ LongSlotOf(long, k) \in Occupied(long) /\ long.keys[LongSlotOf(long, k)] = k
    BY <1>1, <2>1, LongLookup
  <2> QED
    BY <1>1, <2>1, <2>2 DEF LongSound, Unique
<1>4. LeftShort = {} /\ LeftLong = {} /\ Cardinality({}) = 0
  BY FS_EmptySet DEF Idle, LeftShort, LeftLong
<1>5. IsFiniteSet(Occupied(short)) /\ IsFiniteSet(Occupied(long))
  BY <1>1, FewerLeaveRoom DEF ShortSound, LongSound
<1>6. PICK n, m : n = Cardinality(Occupied(short)) /\ m = Cardinality(Occupied(long))
  OBVIOUS
<1>7. n \in Nat /\ m \in Nat
  BY <1>5, <1>6, FS_CardinalityType
<1>8. n + 0 = short.len /\ m + 0 = long.len
  BY <1>4, <1>6 DEF IInv, ShortInv, LongInv
<1>9. short.cap >= 2 /\ short.cap \in Nat /\ long.cap \in Nat
      /\ short.len * 4 <= short.cap * 3 /\ long.len * 4 <= long.cap * 3
  BY <1>1 DEF ShortSound, ShortCap, ShortShape, LongShape, IInv, ShortInv, LongInv
<1>10. n = short.len /\ short.len < short.cap /\ m = long.len /\ long.len <= long.cap
  BY <1>7, <1>8, <1>9
<1> QED
  BY <1>2, <1>3, <1>6, <1>10

\* The invariant makes the emit loop safe.
LEMMA TokensAreInArena == IInv => EmitLoopSafe
BY DEF IInv, ValuesInv, Gives, LoopInv, EmitLoopSafe

\* The invariant makes the output the encodings of the pretokens passed.
LEMMA EmittedIsWanted == IInv => EmitsEncodings
BY DEF IInv, LoopInv, EmitsEncodings

\* Every entry that is not being moved is found by a lookup of its key.
THEOREM WalksFindAlways == Spec => []WalksFind
<1>1. IInv => WalksFind
  BY EntriesAreFound
<1> QED
  BY <1>1, Inductive, PTL

\* The emit loop never probes through an old view, writes behind its output's
\* capacity or reads behind the arena.
THEOREM EmitLoopIsSafe == Spec => []EmitLoopSafe
<1>1. IInv => EmitLoopSafe
  BY TokensAreInArena
<1> QED
  BY <1>1, Inductive, PTL

\* The emit loop emits the encodings of the pretokens it passed.
THEOREM EmitsEncodingsAlways == Spec => []EmitsEncodings
<1>1. IInv => EmitsEncodings
  BY EmittedIsWanted
<1> QED
  BY <1>1, Inductive, PTL
=============================================================================
