-------------------------------- MODULE RunCache --------------------------------
(***************************************************************************)
(* createMaximalRunCache of hypertok-js/src/decode-run-cache.mjs: the text *)
(* of the runs of ids decoded last, the least recently used first, in the  *)
(* order of the Map that holds them.                                       *)
(***************************************************************************)
EXTENDS Integers, Sequences, SequencesExt

CONSTANT Capacity
ASSUME CapacityAssumption == Capacity \in Nat \ {0}

EmptyCache == [entries |-> <<>>, keyCodeUnits |-> 0, outputCodeUnits |-> 0]

\* keyFor: two code units for an id.
KeyCodeUnits(ids) == 2 * Len(ids)

Cached(cache, ids) == \E i \in DOMAIN cache.entries : cache.entries[i].key = ids
IndexOf(cache, ids) == CHOOSE i \in DOMAIN cache.entries : cache.entries[i].key = ids
EntryOf(cache, ids) == cache.entries[IndexOf(cache, ids)]

\* A hit moves the entry behind the others.
Hit(cache, ids) ==
    [cache EXCEPT !.entries = Append(RemoveAt(@, IndexOf(cache, ids)), EntryOf(cache, ids))]

\* Mutant: the text of the entry that is forgotten stays on the account.
EvictUncounted(cache) ==
    IF Len(cache.entries) < Capacity THEN cache
    ELSE LET oldest == cache.entries[1] IN
         [cache EXCEPT !.entries = Tail(cache.entries),
                       !.keyCodeUnits = @ - KeyCodeUnits(oldest.key)]

\* A full cache forgets its first entry.
Evict(cache) ==
    IF Len(cache.entries) < Capacity THEN cache
    ELSE LET oldest == cache.entries[1] IN
         [entries         |-> Tail(cache.entries),
          keyCodeUnits    |-> cache.keyCodeUnits - KeyCodeUnits(oldest.key),
          outputCodeUnits |-> cache.outputCodeUnits - Len(oldest.output)]

Insert(cache, ids, output) ==
    LET evicted == Evict(cache) IN
    [entries         |-> Append(evicted.entries, [key |-> ids, output |-> output]),
     keyCodeUnits    |-> evicted.keyCodeUnits + KeyCodeUnits(ids),
     outputCodeUnits |-> evicted.outputCodeUnits + Len(output)]

\* decode(ids, start, end, canonical), where canonical() returns output.
Decoded(cache, ids, output) ==
    IF Cached(cache, ids)
    THEN [cache |-> Hit(cache, ids), text |-> EntryOf(cache, ids).output]
    ELSE [cache |-> Insert(cache, ids, output), text |-> output]

(***************************************************************************)
(* What a cache promises: it is no larger than it may be, names no run     *)
(* twice, gives each the text that Text assigns to it, and accounts for    *)
(* exactly what it holds.                                                  *)
(***************************************************************************)
Sound(cache, Text(_)) ==
    /\ Len(cache.entries) <= Capacity
    /\ \A i, j \in DOMAIN cache.entries :
           cache.entries[i].key = cache.entries[j].key => i = j
    /\ \A i \in DOMAIN cache.entries :
           cache.entries[i].output = Text(cache.entries[i].key)

Total(numbers) == FoldLeft(LAMBDA sum, n : sum + n, 0, numbers)
Accounted(cache) ==
    LET entries == cache.entries IN
    /\ cache.keyCodeUnits    = Total([i \in DOMAIN entries |-> KeyCodeUnits(entries[i].key)])
    /\ cache.outputCodeUnits = Total([i \in DOMAIN entries |-> Len(entries[i].output)])
=============================================================================
