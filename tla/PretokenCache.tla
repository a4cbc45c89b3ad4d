------------------------------ MODULE PretokenCache ------------------------------
(***************************************************************************)
(* The pretoken caches of a byte-BPE Tokenizer (src/bpe/tiktoken.rs) over  *)
(* its life: the loader's calls that seed and overwrite the short table,   *)
(* a fork that builds both tables anew, and the emit loop, which probes    *)
(* the short table through a view it took earlier, falls back to a slow    *)
(* path and enters what it had to encode.  The merge loop is Merged.       *)
(*                                                                         *)
(* A table that grows, or changes its hash, moves its entries a slot a     *)
(* step.  A reallocation always doubles cap, so cap names the allocation   *)
(* that a view points into.                                                *)
(***************************************************************************)
EXTENDS PretokenTables, FiniteSets

CONSTANTS
    Token,            \* the ids
    Merged,           \* the merge decomposition of every pretoken
    InlineLimit,      \* 2^24: a value's first lane holds ids below it
    FirstIds,         \* the vocabulary: the id of a pretoken's bytes, or NoId
    NoId,
    FreeIds,          \* the ids the vocabulary has no content for
    Contents,         \* what added tokens are for,
    SpecialIds,       \* and the ids special tokens are registered with
    Capacities,       \* the powers of two a short table may start with
    LongCapacities,   \* and a long one with, which allocates no slots for 0
    PretokenChunk,    \* PRETOKEN_CHUNK
    Batches,          \* the pretokens a fill may deliver
    MaxOut,           \* no chunk is filled behind this many tokens
    MaxCalls          \* the loader's calls and forks in a run

Pretoken == Short \union Long

ASSUME MergedAssumption ==
    /\ Token \subseteq Nat
    /\ InlineLimit \in Nat \ {0}
    /\ Merged \in [Pretoken -> Seq(Token)]
    /\ FirstIds \in [Pretoken -> Token \union {NoId}] /\ NoId \notin Token
    /\ FreeIds \subseteq Token /\ SpecialIds \subseteq Token /\ Contents \subseteq Pretoken

ASSUME CapacityAssumption ==
    /\ \A cap \in Capacities : cap \in Nat /\ cap >= 2 /\ cap % 2 = 0
    /\ \A cap \in LongCapacities : cap \in Nat /\ (cap = 0 \/ cap >= MinSlots)

ASSUME BatchAssumption ==
    /\ PretokenChunk \in Nat \ {0}
    /\ \A batch \in Batches : batch \in Seq(Pretoken) /\ Len(batch) <= PretokenChunk
    /\ MaxOut \in Nat /\ MaxCalls \in Nat

VARIABLES
    coldDiet,        \* opt-cold-diet: the vocabulary is not seeded
    ignoreMerges,    \* ignore_merges
    ids,             \* vocab_inv
    free,            \* the ids without content
    added,           \* the contents of added_tokens
    stage,           \* "built" | "configured" | "encoding": what was called so far
    calls,
    short, long,     \* pretoken_cache, pretoken_cache_long
    arena,           \* token_arena
    pc,              \* "idle", "stores", or where the emit loop is
    seeding,         \* the entries a call has yet to seed or restore,
    overwriting,     \* and those apply_added_token_overwrites has yet to overwrite
    storing,         \* the entry on its way into a table
    moving,          \* the table whose entries are moved into a new one
    batch, at,       \* the chunk, and the pretoken of it the loop is at
    view,            \* the ProbeView, by the allocation it points into
    out, room,       \* out, and its capacity
    want             \* history: the encodings of the pretokens passed so far

model == <<coldDiet, ignoreMerges, ids, free, added, stage, calls>>
tables == <<short, long, arena>>
work == <<seeding, overwriting>>
loop == <<batch, at, view, out, room, want>>
vars == <<model, tables, pc, work, storing, moving, loop>>

Idle == [table |-> "none", from |-> EmptyShort(0, 0), next |-> 0]
NoEntry == [table |-> "none", key |-> None, val |-> NoValue, slot |-> 0]

-----------------------------------------------------------------------------
\* pack_val: up to four tokens, the first of them small, are held inline.
Inlinable(symbols) == Len(symbols) \in 1 .. 4 /\ symbols[1] < InlineLimit

Packed(symbols, tokens) ==
    IF Inlinable(symbols)
    THEN [spilled |-> FALSE, count |-> Len(symbols), at |-> 0, lanes |-> symbols]
    ELSE [spilled |-> TRUE, count |-> Len(symbols), at |-> Len(tokens), lanes |-> <<>>]

ArenaWith(symbols, tokens) == IF Inlinable(symbols) THEN tokens ELSE tokens \o symbols

\* A long pretoken's value is always in the arena.
Spilled(symbols, tokens) ==
    [spilled |-> TRUE, count |-> Len(symbols), at |-> Len(tokens), lanes |-> <<>>]

\* What a value stands for: its lanes, of which the first has 24 bits, or tokens
\* of the arena.
Lanes(val) == [i \in 1 .. val.count |-> IF i = 1 THEN val.lanes[i] % InlineLimit
                                                 ELSE val.lanes[i]]
Unpacked(val, tokens) ==
    IF val.spilled THEN SubSeq(tokens, val.at + 1, val.at + val.count) ELSE Lanes(val)

\* seed_symbols, and what the miss path encodes a pretoken as.
Symbols(k) == IF ignoreMerges /\ ids[k] # NoId THEN <<ids[k]>> ELSE Merged[k]

\* The contents whose short entry is their own id.
Overwritten(contents, inv) == {k \in Short \intersect contents : inv[k] # NoId}

\* What a pretoken is encoded as: a function of the vocabulary, the flag and the
\* added tokens, as apply_added_token_overwrites says of the short ones.
Encoding(k) == IF k \in Overwritten(added, ids) THEN <<ids[k]>> ELSE Symbols(k)

\* The short contents of the vocabulary, which seeded_pretoken_cache seeds.
Seeds(cold, inv) == IF cold THEN {} ELSE {k \in Short : inv[k] # NoId}

\* with_at_least: the least capacity from min on that holds n entries uncrowded.
Fits(n, cap) == (n + 1) * 4 <= cap * 3
WithAtLeast(n, min) ==
    {cap \in Capacities :
        /\ cap >= min /\ Fits(n, cap)
        /\ \A c \in Capacities : c >= min /\ Fits(n, c) => cap <= c}
-----------------------------------------------------------------------------
\* Tokenizer::new: the table for the vocabulary, which is then seeded.
Init ==
    /\ coldDiet \in BOOLEAN
    /\ ignoreMerges = FALSE /\ ids = FirstIds /\ free = FreeIds /\ added = {}
    /\ stage = "built" /\ calls = 0
    /\ \E cap \in WithAtLeast(Cardinality(Seeds(coldDiet, ids)), 0) : short = EmptyShort(cap, 0)
    /\ long = EmptyLong(0, 0, FALSE) /\ arena = <<>>
    /\ pc = "stores" /\ seeding = Seeds(coldDiet, ids) /\ overwriting = {}
    /\ storing = NoEntry /\ moving = Idle
    /\ batch = <<>> /\ at = 1 /\ view = short.cap /\ out = <<>> /\ room = 0 /\ want = <<>>

\* A call that seeds or restores some entries and then overwrites others.
Stores(first, second) ==
    /\ pc = "idle" /\ calls < MaxCalls
    /\ pc' = "stores" /\ calls' = calls + 1
    /\ seeding' = first /\ overwriting' = second

\* set_ignore_merges.  The loaders call it before they set the added tokens and
\* before anything is encoded.
SetIgnoreMerges ==
    /\ stage = "built" /\ ~ignoreMerges
    /\ ignoreMerges' = TRUE
    /\ Stores(Seeds(coldDiet, ids), Overwritten(added, ids))
    /\ UNCHANGED <<coldDiet, ids, free, added, stage, tables, storing, moving, loop>>

\* Mutant: the outgoing contents keep the entries they were given.
SetAddedTokensUnrestored(contents) ==
    /\ contents # added
    /\ Stores({}, Overwritten(contents, ids))
    /\ added' = contents
    /\ stage' = IF stage = "built" THEN "configured" ELSE stage
    /\ UNCHANGED <<coldDiet, ignoreMerges, ids, free, tables, storing, moving, loop>>

\* set_added_tokens: the outgoing contents get their seed back.
SetAddedTokens(contents) ==
    /\ contents # added
    /\ Stores(Overwritten(added, ids), Overwritten(contents, ids))
    /\ added' = contents
    /\ stage' = IF stage = "built" THEN "configured" ELSE stage
    /\ UNCHANGED <<coldDiet, ignoreMerges, ids, free, tables, storing, moving, loop>>

\* add_special_tokens, which the loaders call before anything is encoded: an id
\* without content gives the content to the vocabulary, whichever id it had.
AddSpecialToken(k, id) ==
    /\ stage # "encoding"
    /\ ids' = IF id \in free THEN [ids EXCEPT ![k] = id] ELSE ids
    /\ free' = free \ {id}
    /\ Stores(Overwritten(added, ids'), Overwritten(added \union {k}, ids'))
    /\ added' = added \union {k}
    /\ stage' = "configured"
    /\ UNCHANGED <<coldDiet, ignoreMerges, tables, storing, moving, loop>>

\* fork_sized: the caches are built anew, for a workload.
Fork(min, capacity) ==
    /\ Stores(Seeds(coldDiet, ids), Overwritten(added, ids))
    /\ \E cap \in WithAtLeast(Cardinality(Seeds(coldDiet, ids)), min) : short' = EmptyShort(cap, 0)
    /\ long' = EmptyLong(capacity, 0, FALSE) /\ arena' = <<>>
    /\ stage' = "configured"
    /\ UNCHANGED <<coldDiet, ignoreMerges, ids, free, added, storing, moving, loop>>

\* replace: the entry of a key that is present is overwritten, another is inserted.
Replace(k, symbols) ==
    /\ arena' = ArenaWith(symbols, arena)
    /\ IF Holds(short, k)
       THEN /\ short' = PutShort(short, SlotOf(short, k), k, Packed(symbols, arena), short.len)
            /\ UNCHANGED storing
       ELSE /\ storing' = [table |-> "short", key |-> k, val |-> Packed(symbols, arena),
                           slot  |-> MissSlot(short, k)]
            /\ UNCHANGED short
    /\ UNCHANGED <<model, long, pc, moving, loop>>

Seed(k) ==
    /\ pc = "stores" /\ storing = NoEntry
    /\ k \in seeding /\ seeding' = seeding \ {k}
    /\ Replace(k, Symbols(k))
    /\ UNCHANGED overwriting

Overwrite(k) ==
    /\ pc = "stores" /\ storing = NoEntry /\ seeding = {}
    /\ k \in overwriting /\ overwriting' = overwriting \ {k}
    /\ Replace(k, <<ids[k]>>)
    /\ UNCHANGED seeding

Return ==
    /\ pc = "stores" /\ storing = NoEntry /\ seeding = {} /\ overwriting = {}
    /\ pc' = "idle"
    /\ UNCHANGED <<model, tables, work, storing, moving, loop>>
-----------------------------------------------------------------------------
\* grow of the short table: a table twice the size, and the entries moved into it.
GrowShort ==
    /\ storing.table = "short" /\ moving = Idle /\ Crowded(short)
    /\ moving' = [table |-> "short", from |-> short, next |-> 0]
    /\ short' = EmptyShort(2 * short.cap, short.len)
    /\ UNCHANGED <<model, long, arena, pc, work, storing, loop>>

MoveShort ==
    LET key == moving.from.keys[moving.next]
    IN  /\ moving.table = "short" /\ moving.next < moving.from.cap
        /\ short' = IF key = None THEN short
                    ELSE PutShort(short, FirstEmpty(short, HomePair(key, short.cap)),
                                  key, moving.from.vals[moving.next], short.len)
        /\ moving' = [moving EXCEPT !.next = @ + 1]
        /\ UNCHANGED <<model, long, arena, pc, work, storing, loop>>

\* Mutant: the slot the lookup reported is used in the new table.
GrownShortAtOldSlot ==
    /\ moving.table = "short" /\ moving.next = moving.from.cap
    /\ moving' = Idle
    /\ UNCHANGED <<model, tables, pc, work, storing, loop>>

\* The slot that the lookup reported is of the old table: it is found again.
GrownShort ==
    /\ moving.table = "short" /\ moving.next = moving.from.cap
    /\ moving' = Idle
    /\ storing' = [storing EXCEPT !.slot = FirstEmpty(short, HomePair(storing.key, short.cap))]
    /\ UNCHANGED <<model, tables, pc, work, loop>>

\* A miss of the emit loop appends what was encoded, a call of the loader goes on.
Entered(symbols) ==
    /\ storing' = NoEntry
    /\ IF pc = "miss"
       THEN /\ out' = out \o symbols
            /\ room' = IF room >= Len(out') THEN room ELSE Len(out')
            /\ pc' = "emitted"
       ELSE UNCHANGED <<out, room, pc>>
    /\ UNCHANGED <<model, arena, work, moving, batch, at, view, want>>

PutStored ==
    /\ storing.table = "short" /\ moving = Idle /\ ~Crowded(short)
    /\ short' = PutShort(short, storing.slot, storing.key, storing.val, short.len + 1)
    /\ Entered(Symbols(storing.key))
    /\ UNCHANGED long
-----------------------------------------------------------------------------
StoringHome == LongHome(LongHash(storing.key, long.full), long.cap)

\* grow of the long table.
GrowLong ==
    /\ storing.table = "long" /\ moving = Idle /\ Crowded(long)
    /\ moving' = [table |-> "long", from |-> long, next |-> 0]
    /\ long' = EmptyLong(IF long.cap = 0 THEN MinSlots ELSE 2 * long.cap, long.len, long.full)
    /\ UNCHANGED <<model, short, arena, pc, work, storing, loop>>

\* Mutant: the entries move to the new table by the hash they had.
MoveLongUnhashed ==
    LET key == moving.from.keys[moving.next]
        hash == moving.from.hash[moving.next]
    IN  /\ moving.table \in {"long", "full"} /\ moving.next < moving.from.cap
        /\ long' = IF key = None THEN long
                   ELSE PutLong(long, FirstEmpty(long, LongHome(hash, long.cap)),
                                key, hash, moving.from.vals[moving.next], long.len)
        /\ moving' = [moving EXCEPT !.next = @ + 1]
        /\ UNCHANGED <<model, short, arena, pc, work, storing, loop>>

\* An insertion that passes too many entries gives up the sampled hash: all
\* entries are placed again by the full one, and the insertion starts again.
SwitchToFullHash ==
    /\ storing.table = "long" /\ moving = Idle /\ ~Crowded(long) /\ ~long.full
    /\ Displacement(long, StoringHome) > MaxSampledDisplacement
    /\ moving' = [table |-> "full", from |-> long, next |-> 0]
    /\ long' = EmptyLong(long.cap, long.len, TRUE)
    /\ UNCHANGED <<model, short, arena, pc, work, storing, loop>>

\* A growth keeps the hash an entry was placed by.
MoveLong ==
    LET key == moving.from.keys[moving.next]
        hash == IF moving.table = "full" THEN FullHash[key] ELSE moving.from.hash[moving.next]
    IN  /\ moving.table \in {"long", "full"} /\ moving.next < moving.from.cap
        /\ long' = IF key = None THEN long
                   ELSE PutLong(long, FirstEmpty(long, LongHome(hash, long.cap)),
                                key, hash, moving.from.vals[moving.next], long.len)
        /\ moving' = [moving EXCEPT !.next = @ + 1]
        /\ UNCHANGED <<model, short, arena, pc, work, storing, loop>>

MovedLong ==
    /\ moving.table \in {"long", "full"} /\ moving.next = moving.from.cap
    /\ moving' = Idle
    /\ UNCHANGED <<model, tables, pc, work, storing, loop>>

InsertLong ==
    /\ storing.table = "long" /\ moving = Idle /\ ~Crowded(long)
    /\ long.full \/ Displacement(long, StoringHome) <= MaxSampledDisplacement
    /\ long' = PutLong(long, FirstEmpty(long, StoringHome), storing.key,
                       LongHash(storing.key, long.full), storing.val, long.len + 1)
    /\ Entered(Symbols(storing.key))
    /\ UNCHANGED short
-----------------------------------------------------------------------------
\* memoized_encode_flat: a chunk is filled, room made for four tokens a pretoken,
\* and a view of the table taken.
Fill(pretokens) ==
    /\ pretokens # <<>>
    /\ batch' = pretokens /\ at' = 1 /\ pc' = "probe"
    /\ room' = IF room >= Len(out) + 4 * Len(pretokens) THEN room
               ELSE Len(out) + 4 * Len(pretokens)
    /\ view' = short.cap

Encode(pretokens) ==
    /\ pc = "idle" /\ stage' = "encoding"
    /\ Fill(pretokens)
    /\ UNCHANGED <<coldDiet, ignoreMerges, ids, free, added, calls, tables, work,
                   storing, moving, out, want>>

\* The home pair of a key, in the table the view points into.
Pairs(k) == {s \in {HomePair(k, view), HomePair(k, view) + 1} : short.keys[s] = k}

\* probe_pair and the fast predicate: four lanes are written, and the cursor
\* passes those that count.
ProbeHit ==
    LET k == batch[at]
    IN  /\ pc = "probe" /\ at <= Len(batch) /\ k \in Short
        /\ \E s \in Pairs(k) :
              /\ ~short.vals[s].spilled
              /\ out' = out \o Lanes(short.vals[s])
        /\ want' = want \o Encoding(k) /\ at' = at + 1
        /\ UNCHANGED <<model, tables, pc, work, storing, moving, batch, view, room>>

ProbeMiss ==
    LET k == batch[at]
    IN  /\ pc = "probe" /\ at <= Len(batch)
        /\ k \in Short => \A s \in Pairs(k) : short.vals[s].spilled
        /\ pc' = "slow"
        /\ UNCHANGED <<model, tables, work, storing, moving, loop>>

\* probe_emit_slow: the lookup that walks further, or looks in the long table.
Emit(symbols) ==
    /\ out' = out \o symbols
    /\ room' = IF room >= Len(out') THEN room ELSE Len(out')

SlowHit ==
    LET k == batch[at]
    IN  /\ pc = "slow"
        /\ \/ k \in Short /\ Holds(short, k) /\ Emit(Unpacked(short.vals[SlotOf(short, k)], arena))
           \/ k \in Long /\ LongHolds(long, k) /\ Emit(Unpacked(long.vals[LongSlotOf(long, k)], arena))
        /\ pc' = "emitted"
        /\ UNCHANGED <<model, tables, work, storing, moving, batch, at, view, want>>

\* encode_pretoken_miss: the pretoken is encoded and its value packed.
MissShort ==
    LET k == batch[at]
    IN  /\ pc = "slow" /\ k \in Short /\ ~Holds(short, k)
        /\ arena' = ArenaWith(Symbols(k), arena)
        /\ storing' = [table |-> "short", key |-> k, val |-> Packed(Symbols(k), arena),
                       slot  |-> MissSlot(short, k)]
        /\ pc' = "miss"
        /\ UNCHANGED <<model, short, long, work, moving, loop>>

MissLong ==
    LET k == batch[at]
    IN  /\ pc = "slow" /\ k \in Long /\ ~LongHolds(long, k)
        /\ arena' = arena \o Symbols(k)
        /\ storing' = [table |-> "long", key |-> k, val |-> Spilled(Symbols(k), arena), slot |-> 0]
        /\ pc' = "miss"
        /\ UNCHANGED <<model, short, long, work, moving, loop>>

\* Mutant: the view outlives the table it was taken of.
EmittedUnrefreshed ==
    /\ pc = "emitted" /\ pc' = "probe"
    /\ want' = want \o Encoding(batch[at]) /\ at' = at + 1
    /\ room' = IF room >= Len(out) + 4 * PretokenChunk THEN room
               ELSE Len(out) + 4 * PretokenChunk
    /\ UNCHANGED <<model, tables, work, storing, moving, batch, view, out>>

\* The slow path makes room for a whole chunk, and the loop refreshes its view.
Emitted ==
    /\ pc = "emitted" /\ pc' = "probe"
    /\ want' = want \o Encoding(batch[at]) /\ at' = at + 1
    /\ room' = IF room >= Len(out) + 4 * PretokenChunk THEN room
               ELSE Len(out) + 4 * PretokenChunk
    /\ view' = short.cap
    /\ UNCHANGED <<model, tables, work, storing, moving, batch, out>>

\* A full chunk may have another behind it.
NextChunk(pretokens) ==
    /\ pc = "probe" /\ at > Len(batch) /\ Len(batch) = PretokenChunk /\ Len(out) <= MaxOut
    /\ Fill(pretokens)
    /\ UNCHANGED <<model, tables, work, storing, moving, out, want>>

Delivered ==
    /\ pc = "probe" /\ at > Len(batch)
    /\ pc' = "idle"
    /\ batch' = <<>> /\ at' = 1 /\ view' = short.cap /\ out' = <<>> /\ room' = 0 /\ want' = <<>>
    /\ UNCHANGED <<model, tables, work, storing, moving>>

Next ==
    \/ SetIgnoreMerges
    \/ \E contents \in SUBSET Contents : SetAddedTokens(contents)
    \/ \E k \in Contents, id \in SpecialIds : AddSpecialToken(k, id)
    \/ \E min \in Capacities, capacity \in LongCapacities : Fork(min, capacity)
    \/ \E k \in Short : Seed(k) \/ Overwrite(k)
    \/ Return
    \/ GrowShort \/ MoveShort \/ GrownShort \/ PutStored
    \/ GrowLong \/ SwitchToFullHash \/ MoveLong \/ MovedLong \/ InsertLong
    \/ \E pretokens \in Batches : Encode(pretokens) \/ NextChunk(pretokens)
    \/ ProbeHit \/ ProbeMiss \/ SlowHit \/ MissShort \/ MissLong \/ Emitted \/ Delivered

Spec == Init /\ [][Next]_vars
-----------------------------------------------------------------------------
\* What the loop has emitted is what the pretokens it passed are encoded as: no
\* call of the loader, growth, switch of hash, fork or miss between an entry's
\* insertion and its use makes the caches answer for another vocabulary, flag,
\* set of added tokens or pretoken (apply_added_token_overwrites calls the state
\* of the short cache a pure function of the vocabulary and the added tokens).
EmitsEncodings == pc = "probe" => out = want

InArena(val, tokens) == val.spilled => val.at + val.count <= Len(tokens)

\* The unchecked accesses of the emit loop are sound: when it probes, its view
\* points into the table's present allocation and out has four free lanes for
\* every pretoken left of the chunk, and every spilled value lies in the arena.
EmitLoopSafe ==
    /\ pc = "probe" => /\ view = short.cap
                       /\ room >= Len(out) + 4 * (Len(batch) + 1 - at)
    /\ \A s \in Occupied(short) : InArena(short.vals[s], arena)
    /\ \A s \in Occupied(long) : InArena(long.vals[s], arena)

\* Outside a growth, every entry of either table is where a lookup of its key
\* ends, len counts the entries, and an empty slot ends every walk: insert_at may
\* trust the slot of the lookup before it, and a change of hash loses nothing.
WalksFind ==
    moving = Idle =>
       /\ \A s \in Occupied(short) : /\ Holds(short, short.keys[s])
                                     /\ SlotOf(short, short.keys[s]) = s
       /\ \A s \in Occupied(long) : /\ LongHolds(long, long.keys[s])
                                    /\ LongSlotOf(long, long.keys[s]) = s
       /\ Cardinality(Occupied(short)) = short.len /\ short.len < short.cap
       /\ Cardinality(Occupied(long)) = long.len /\ long.len <= long.cap
=============================================================================
