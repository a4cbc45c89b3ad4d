------------------------------- MODULE HotStrings -------------------------------
(***************************************************************************)
(* createHotStringDecoder of hypertok-js/src/decode-hotstrings.mjs as      *)
(* operators on its state: the texts of the tokens that the first call     *)
(* uses most, in front of a decoder for the others.  It is not an          *)
(* optimization a client can turn on; createComposedDecoder takes it.      *)
(***************************************************************************)
EXTENDS DecodeTable

CONSTANTS
    DirectIndex,                        \* does the index of the vocabulary fit maxIndexBytes?
    MaxHotEntries, MaxHotPayloadBytes,  \* maxEntries, maxPayloadBytes
    MinCoverage,                        \* minCoverage: <<numerator, denominator>>
    ManyTokens,                         \* 65536: from so many on, single units are not kept
    MaxDistinct                         \* bound of the model on observedDistinct

ASSUME HotAssumption ==
    /\ MaxHotEntries \in Nat /\ MaxDistinct \in Nat
    /\ MaxHotEntries <= MaxDistinct /\ 3 <= MaxDistinct

NoHotStrings == [initialized |-> FALSE, active |-> FALSE, cached |-> {}, entries |-> 0,
                 payloadBytes |-> 0, distinct |-> 0, observed |-> 0, covered |-> 0]

Frequency(ids, id) == Cardinality({k \in DOMAIN ids : ids[k] = id})

\* The ids that are counted: in a direct index, up to the first outside the vocabulary.
Counted(ids) ==
    {ids[k] : k \in {k \in DOMAIN ids : DirectIndex => \A j \in 1 .. k : ids[j] \in Vocabulary}}

\* observedDistinct: calls that failed were counted too.  Above MaxDistinct all are alike.
ObservedDistinct(h, ids) ==
    LET distinct == (IF DirectIndex THEN h.distinct ELSE 0) + Cardinality(Counted(ids))
    IN  IF distinct < MaxDistinct THEN distinct ELSE MaxDistinct

\* Those used most, the lower id first among equals.
Hotter(ids, i, j) ==
    \/ Frequency(ids, i) > Frequency(ids, j)
    \/ Frequency(ids, i) = Frequency(ids, j) /\ i < j
Hottest(ids, n) ==
    {i \in Counted(ids) : Cardinality({j \in Counted(ids) : Hotter(ids, j, i)}) < n}

\* The order in which they are taken: sorted without a direct index, with one that of the
\* heap, which may be any here.  Counts of calls that failed make the heap's array longer
\* than its content: the rest of it names token 0.
Orders(h, ids) ==
    LET distinct == ObservedDistinct(h, ids)
        capacity == IF distinct < MaxHotEntries THEN distinct ELSE MaxHotEntries
        hottest  == Hottest(ids, capacity)
        rest     == [k \in 1 .. capacity - Cardinality(hottest) |-> 0]
    IN  IF DirectIndex THEN {order \o rest : order \in SetToSeqs(hottest)}
        ELSE {order \in SetToSeqs(hottest) :
                 \A i, j \in DOMAIN order : i < j => Hotter(ids, order[i], order[j])}

\* The fatal decoder takes a byte order mark off the text it begins.
HotText(id) ==
    LET text == Lossy(TokenBytes(id))
    IN  IF text # <<>> /\ text[1] = BOM THEN Tail(text) ELSE text

\* Mutant: a token need not be UTF-8 by itself.
TakeAny(h, ids, id) ==
    LET retained == 2 * Len(HotText(id)) IN
    IF h.entries = MaxHotEntries \/ Unknown(id) THEN h
    ELSE IF h.payloadBytes + retained > MaxHotPayloadBytes THEN h
    ELSE [h EXCEPT !.cached = @ \union {id}, !.entries = @ + 1,
                   !.payloadBytes = @ + retained, !.covered = @ + Frequency(ids, id)]

\* One more of the selected ids; an unknown one throws, and leaves what was taken.
Take(h, ids, id) ==
    LET retained == 2 * Len(HotText(id)) IN
    IF h.entries = MaxHotEntries \/ Unknown(id) \/ ~Clean(id) THEN h
    ELSE IF h.payloadBytes + retained > MaxHotPayloadBytes THEN h
    ELSE [h EXCEPT !.cached = @ \union {id}, !.entries = @ + 1,
                   !.payloadBytes = @ + retained, !.covered = @ + Frequency(ids, id)]

\* How many are taken before the first that is unknown; nothing throws beyond the last entry.
TakenBefore(h, ids, order) ==
    LET taken[k \in 0 .. Len(order)] ==
            IF k = 0 THEN [hot |-> h, threw |-> FALSE]
            ELSE LET before == taken[k - 1] IN
                 IF before.threw THEN before
                 ELSE IF Unknown(order[k]) /\ before.hot.entries # MaxHotEntries
                      THEN [before EXCEPT !.threw = TRUE]
                      ELSE [before EXCEPT !.hot = Take(before.hot, ids, order[k])]
    IN  taken[Len(order)]

\* Is what was taken worth it?
Activate(h) ==
    LET worth == /\ h.covered * MinCoverage[2] >= MinCoverage[1] * h.observed
                 /\ ~ /\ h.observed >= ManyTokens /\ h.covered = h.observed
                      /\ h.distinct <= 2 /\ h.entries # 0
                      /\ h.payloadBytes <= 2 * h.entries
    IN  IF worth THEN [h EXCEPT !.initialized = TRUE, !.active = TRUE]
        ELSE [h EXCEPT !.initialized = TRUE, !.cached = {}, !.entries = 0, !.payloadBytes = 0]

\* initialize(ids) taking the ids in an order: the new state, and did it throw?
HotInitialized(h, ids, order) ==
    LET stray   == DirectIndex /\ \E k \in DOMAIN ids : ids[k] \notin Vocabulary
        counted == [h EXCEPT !.distinct = ObservedDistinct(h, ids)]
        taken   == TakenBefore([counted EXCEPT !.observed = Len(ids)], ids, order)
    IN  IF h.initialized THEN [hot |-> h, threw |-> FALSE]
        ELSE IF stray THEN [hot |-> counted, threw |-> TRUE]
        ELSE IF taken.threw THEN taken
        ELSE [taken EXCEPT !.hot = Activate(taken.hot)]

\* The end of the ids from k on that are not cached.
ColdEnd(h, ids, k) ==
    CHOOSE e \in k .. Len(ids) :
        /\ \A j \in k .. e : ids[j] \notin h.cached
        /\ e < Len(ids) => ids[e + 1] \in h.cached

\* The texts that are cached, and what Inner(table, ids) makes of the ids between them: of
\* all the ids when nothing is cached.
HotDecode(h, t, ids, Inner(_, _)) ==
    LET from[k \in 0 .. Len(ids)] ==
            IF k = 0 THEN [table |-> t, value |-> Text(<<>>), next |-> 1]
            ELSE LET done == from[k - 1] IN
                 IF done.value.kind # "text" \/ k < done.next THEN done
                 ELSE IF ids[k] \in h.cached
                 THEN [done EXCEPT !.value.text = @ \o HotText(ids[k]), !.next = k + 1]
                 ELSE LET inner == Inner(done.table, SubSeq(ids, k, ColdEnd(h, ids, k)))
                      IN  [table |-> inner.table, next |-> ColdEnd(h, ids, k) + 1,
                           value |-> IF inner.value.kind # "text" THEN inner.value
                                     ELSE Text(done.value.text \o inner.value.text)]
    IN  Answered(from[Len(ids)].table, from[Len(ids)].value)
=============================================================================
