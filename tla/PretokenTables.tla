----------------------------- MODULE PretokenTables -----------------------------
(***************************************************************************)
(* The two open-addressing tables that remember how a pretoken was         *)
(* encoded: ShortPretokenCache of src/bpe/pretoken_cache.rs, whose walk    *)
(* goes from pair to pair of slots, and LongPretokenCache of               *)
(* src/bpe/long_pretoken_cache.rs, whose walk goes from slot to slot.  A   *)
(* table is a record: what key and what value each of its cap slots holds, *)
(* and len, the number of its entries.  The long table also keeps, in      *)
(* hash, the hash an entry was placed by, and in full which of its two     *)
(* hash functions it uses.                                                 *)
(***************************************************************************)
EXTENDS Integers, Sequences

CONSTANTS
    Short,                   \* the pretokens of 1 to 15 bytes
    Long,                    \* the others: the empty one and the longer ones
    None,                    \* the key of an empty slot
    KeyHash,                 \* pretoken_key_hash
    SampledHash, FullHash,   \* the two hashes of a long pretoken
    MinSlots,                \* MIN_SLOTS
    MaxSampledDisplacement   \* MAX_SAMPLED_DISPLACEMENT

ASSUME KeyAssumption == None \notin Short \union Long /\ Short \intersect Long = {}
ASSUME HashAssumption == /\ KeyHash \in [Short -> Nat]
                         /\ SampledHash \in [Long -> Nat]
                         /\ FullHash \in [Long -> Nat]
ASSUME SlotsAssumption == MinSlots \in Nat /\ MinSlots >= 2 /\ MaxSampledDisplacement \in Nat

\* A packed encoding: its tokens in the four lanes, or where they are in the arena.
NoValue == [spilled |-> FALSE, count |-> 0, at |-> 0, lanes |-> <<>>]

\* A table without entries, but with the length of the table it replaces.
EmptyShort(cap, len) ==
    [keys |-> [s \in 0 .. cap - 1 |-> None], vals |-> [s \in 0 .. cap - 1 |-> NoValue],
     cap  |-> cap, len |-> len]

EmptyLong(cap, len, full) ==
    [keys |-> [s \in 0 .. cap - 1 |-> None], vals |-> [s \in 0 .. cap - 1 |-> NoValue],
     hash |-> [s \in 0 .. cap - 1 |-> 0], cap |-> cap, len |-> len, full |-> full]

Occupied(table) == {s \in 0 .. table.cap - 1 : table.keys[s] # None}

\* One more entry would fill more than three quarters of the table.
Crowded(table) == (table.len + 1) * 4 > table.cap * 3

\* The slot i behind another one: the mask of a table of cap slots.
Behind(cap, home, i) == IF home + i < cap THEN home + i ELSE home + i - cap

\* first_empty, and the walk of the long table: how far from its home the first
\* empty slot is.
Displacement(table, home) ==
    CHOOSE i \in 0 .. table.cap - 1 :
        /\ table.keys[Behind(table.cap, home, i)] = None
        /\ \A j \in 0 .. i - 1 : table.keys[Behind(table.cap, home, j)] # None

FirstEmpty(table, home) == Behind(table.cap, home, Displacement(table, home))

\* An entry's home in the short table is a pair of slots, an even one and the next.
HomePair(key, cap) == 2 * ((KeyHash[key] % cap) \div 2)

Pair(table, key, p) == LET even == Behind(table.cap, HomePair(key, table.cap), 2 * p)
                       IN  {even, even + 1}

\* get_or_slot: the walk ends at the first pair that has the key or an empty slot.
WalkEnd(table, key) ==
    CHOOSE p \in 0 .. table.cap \div 2 - 1 :
        /\ \E s \in Pair(table, key, p) : table.keys[s] \in {key, None}
        /\ \A q \in 0 .. p - 1 : \A s \in Pair(table, key, q) : table.keys[s] \notin {key, None}

Holds(table, key) ==
    \E s \in Pair(table, key, WalkEnd(table, key)) : table.keys[s] = key

SlotOf(table, key) ==
    CHOOSE s \in Pair(table, key, WalkEnd(table, key)) : table.keys[s] = key

\* The slot a miss reports: the first empty one of that pair.
MissSlot(table, key) ==
    LET pair == Pair(table, key, WalkEnd(table, key))
    IN  CHOOSE s \in pair : table.keys[s] = None /\ \A t \in pair : table.keys[t] = None => s <= t

LongHash(key, full) == IF full THEN FullHash[key] ELSE SampledHash[key]
LongHome(hash, cap) == hash % cap

\* get of the long table: the entries on the walk with the key's hash and its bytes.
LongMatches(table, key) ==
    LET hash == LongHash(key, table.full)
        home == LongHome(hash, table.cap)
    IN  {i \in 0 .. Displacement(table, home) - 1 :
            LET s == Behind(table.cap, home, i)
            IN  table.hash[s] = hash /\ table.keys[s] = key}

LongHolds(table, key) == table.cap # 0 /\ LongMatches(table, key) # {}

LongSlotOf(table, key) ==
    Behind(table.cap, LongHome(LongHash(key, table.full), table.cap),
           CHOOSE i \in LongMatches(table, key) : \A j \in LongMatches(table, key) : i <= j)

PutShort(table, slot, key, val, len) ==
    [keys |-> [table.keys EXCEPT ![slot] = key], vals |-> [table.vals EXCEPT ![slot] = val],
     cap  |-> table.cap, len |-> len]

PutLong(table, slot, key, hash, val, len) ==
    [keys |-> [table.keys EXCEPT ![slot] = key], vals |-> [table.vals EXCEPT ![slot] = val],
     hash |-> [table.hash EXCEPT ![slot] = hash], cap |-> table.cap, len |-> len,
     full |-> table.full]
=============================================================================
