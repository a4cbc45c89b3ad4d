------------------------------ MODULE DecodeTable ------------------------------
(***************************************************************************)
(* createDecodeTable of hypertok-js/src/decode-table.mjs as operators on   *)
(* its state.  Tokens that are UTF-8 by themselves (clean) are joined from *)
(* a table of strings; a run of the others (dirty) between two of them is  *)
(* decoded by itself; what the table does not do, the core decodes.        *)
(***************************************************************************)
EXTENDS TokenText, RunCache, DecodeOptions, FiniteSets

CONSTANTS
    VocabSize, Present,    \* the ids below VocabSize, and those of them that are tokens
    TokenBytes(_),         \* the bytes of a token
    Seeds,                 \* seedIds
    MaxTableIds,           \* maxTableIds
    SampleSize,            \* sampleDirty looks at so many ids
    MaxDirty, MaxMixed,    \* maxDirtyDensity, maxMixedDirtyDensity: <<numerator, denominator>>
    Penalty,               \* mixedRunPenalty
    NativeAvailable        \* can Latin-1 be unmapped natively?

Vocabulary == 0 .. VocabSize - 1
ASSUME VocabularyAssumption ==
    /\ VocabSize \in Nat /\ Present \subseteq Vocabulary
    /\ \A id \in Present :                   \* token_length refuses an empty token
           TokenBytes(id) \in Seq(Byte) /\ TokenBytes(id) # <<>>
ASSUME SampleAssumption == SampleSize \in Nat \ {0} /\ MaxTableIds \in Nat /\ Penalty \in Nat

\* What a decode returns or throws.
Text(text) == [kind |-> "text", text |-> text]
Throws(error) == [kind |-> error, text |-> <<>>]

BytesOf(ids) == FlattenSeq([k \in DOMAIN ids |-> TokenBytes(ids[k])])
Unknown(id)  == id \notin Present

\* core.decode: the bytes of the tokens, decoded together.
CoreDecode(ids) ==
    IF \E k \in DOMAIN ids : Unknown(ids[k]) THEN Throws("unknown")
    ELSE Text(Lossy(BytesOf(ids)))

(***************************************************************************)
(* The state: which ids have their string; whether the byte table and the  *)
(* Latin-1 strings, built once, are there; the run cache.  What inspect()  *)
(* found out about an id, and the bytes of a dirty one as a string, are    *)
(* kept too, but depend on nothing else than the id.                       *)
(***************************************************************************)
EmptyTable == [strings |-> {}, gathered |-> FALSE, latin1 |-> FALSE, runs |-> EmptyCache]

Clean(id) == ~Unknown(id) /\ IsValidUtf8(TokenBytes(id))
Dirty(id) == ~Unknown(id) /\ ~IsValidUtf8(TokenBytes(id))
TextOf(id) == DecodeValidUtf8(TokenBytes(id))

Materialize(t, ids) == [t EXCEPT !.strings = @ \union {id \in ids : Clean(id)}]

\* initialize()
Seeded(t) == Materialize(t, Seeds)

Slice(ids, from, to) == {ids[k] : k \in from .. to}

(***************************************************************************)
(* The last resorts                                                        *)
(***************************************************************************)
Answered(t, value) == [table |-> t, value |-> value]

Fallback(t, ids) == Answered(t, CoreDecode(ids))

\* The strings of all tokens, one unit a byte, joined and unmapped.
Latin1(t, ids) ==
    Answered([t EXCEPT !.latin1 = TRUE],
             IF \E k \in DOMAIN ids : Unknown(ids[k]) THEN Throws("unknown")
             ELSE Text(Lossy(BytesOf(ids))))
HasLatin1(c) == (c.nativeLatin1 /\ NativeAvailable) \/ c.portableLatin1

\* All tokens end to end; the bytes of one lie between two offsets.
Arena == FlattenSeq([k \in 1 .. VocabSize |->
                         IF Unknown(k - 1) THEN <<>> ELSE TokenBytes(k - 1)])
Offset(id) ==
    LET offsets[k \in 0 .. VocabSize] ==
            IF k = 0 THEN 0
            ELSE offsets[k - 1] + IF Unknown(k - 1) THEN 0 ELSE Len(TokenBytes(k - 1))
    IN  offsets[id]
Gathered(ids) ==
    FlattenSeq([k \in DOMAIN ids |-> SubSeq(Arena, Offset(ids[k]) + 1, Offset(ids[k] + 1))])

Gather(t) == [t EXCEPT !.gathered = TRUE]
ByteTable(t, ids) ==
    Answered(Gather(t),
             IF \E k \in DOMAIN ids : Unknown(ids[k]) THEN Throws("unknown")
             ELSE Text(Lossy(Gathered(ids))))

\* For a text that is too dirty for the table.
DecodeDirty(c, t, ids) ==
    IF HasLatin1(c) THEN Latin1(t, ids)
    ELSE IF c.byteTable THEN ByteTable(t, ids)
    ELSE Fallback(t, ids)

(***************************************************************************)
(* sampleDirty                                                             *)
(***************************************************************************)
Over(count, of, limit) == count * limit[2] > limit[1] * of

Sample(ids) ==
    LET count == IF Len(ids) < SampleSize THEN Len(ids) ELSE SampleSize
    IN  [s \in 1 .. count |-> ids[((s - 1) * Len(ids)) \div count + 1]]
SampleUnknown(ids) == \E s \in DOMAIN Sample(ids) : Unknown(Sample(ids)[s])
SampleOver(ids, limit) ==
    Over(Cardinality({s \in DOMAIN Sample(ids) : Dirty(Sample(ids)[s])}),
         Len(Sample(ids)), limit)

(***************************************************************************)
(* Runs of dirty ids                                                       *)
(***************************************************************************)
StartsRun(ids, from, k) == Dirty(ids[k]) /\ (k = from \/ ~Dirty(ids[k - 1]))
RunEnd(ids, k) ==            \* of the run that k is in
    CHOOSE e \in k .. Len(ids) :
        /\ \A j \in k .. e : Dirty(ids[j])
        /\ e < Len(ids) => ~Dirty(ids[e + 1])
RunNumber(ids, from, k) ==   \* how many have started up to k
    Cardinality({j \in from .. k : StartsRun(ids, from, j)})
Runs(ids, from) ==
    LET start(r) == CHOOSE k \in from .. Len(ids) :
                        StartsRun(ids, from, k) /\ RunNumber(ids, from, k) = r
    IN  [r \in 1 .. RunNumber(ids, from, Len(ids)) |->
            SubSeq(ids, start(r), RunEnd(ids, start(r)))]

\* Which is refused for the density, or the number of runs, up to k?
TooDirty(c, ids, from, k) ==
    /\ Dirty(ids[k])
    /\ LET dirty == Cardinality({j \in from .. k : Dirty(ids[j])})
       IN  IF c.mixedRuns
           THEN Over(dirty + RunNumber(ids, from, k) * Penalty, Len(ids), MaxMixed)
           ELSE Over(dirty, Len(ids), MaxDirty)

\* The index at which the scan of ids ends.
Stop(c, ids, from) ==
    LET ends == {k \in from .. Len(ids) : Unknown(ids[k]) \/ TooDirty(c, ids, from, k)}
    IN  IF ends = {} THEN Len(ids) + 1 ELSE CHOOSE k \in ends : \A j \in ends : k <= j

\* Each run by itself, through the run cache when there is one.
DecodeEach(c, cache, runs) ==
    FoldLeft(LAMBDA done, run :
                 LET text == Lossy(BytesOf(run)) IN
                 IF ~c.runCache THEN [done EXCEPT !.texts = Append(@, text)]
                 ELSE LET found == Decoded(done.cache, run, text)
                      IN  [cache |-> found.cache, texts |-> Append(done.texts, found.text)],
             [cache |-> cache, texts |-> <<>>], runs)

\* Mutant: a run may hold the separator of the runs.
DecodeJoinedRuns(c, cache, runs) ==
    LET parts     == [r \in DOMAIN runs |-> BytesOf(runs[r])]
        separated == Split(Lossy(Join(parts, Separator)), Separator)
    IN  IF c.dirtyRunBatch /\ Len(runs) > 1
        THEN [cache |-> cache, texts |-> SubSeq(separated, 1, Len(runs))]
        ELSE DecodeEach(c, cache, runs)

\* decodeDirtyRuns: joined by a separator that none of them holds, or each by itself.
DecodeRuns(c, cache, runs) ==
    LET parts     == [r \in DOMAIN runs |-> BytesOf(runs[r])]
        separated == Split(Lossy(Join(parts, Separator)), Separator)
    IN  IF /\ c.dirtyRunBatch /\ Len(runs) > 1
           /\ \A r \in DOMAIN parts : ~Includes(parts[r], Separator)
           /\ Len(separated) = Len(runs)
        THEN [cache |-> cache, texts |-> separated]
        ELSE DecodeEach(c, cache, runs)

\* The clean tokens and the decoded runs, in the order of the ids.
Stitch(ids, from, texts) ==
    LET text[k \in from .. Len(ids) + 1] ==
            IF k = Len(ids) + 1 THEN <<>>
            ELSE IF Dirty(ids[k])
            THEN texts[RunNumber(ids, from, k)] \o text[RunEnd(ids, k) + 1]
            ELSE TextOf(ids[k]) \o text[k + 1]
    IN  text[from]

\* Strings the scan was to put into the table are looked up there.
Converged(t, ids, from) ==
    \A k \in from .. Len(ids) : Clean(ids[k]) => ids[k] \in t.strings

Mixed(c, t, ids, from, prefix) ==
    LET runs    == Runs(ids, from)
        known   == IF runs = <<>> THEN t
                   ELSE IF c.byteTable THEN Gather(t)
                   ELSE t
        decoded == IF c.mixedRuns THEN DecodeRuns(c, known.runs, runs)
                   ELSE DecodeEach([c EXCEPT !.runCache = FALSE], known.runs, runs)
    IN  Answered([known EXCEPT !.runs = decoded.cache],
                 IF Converged(t, ids, from)
                 THEN Text(prefix \o Stitch(ids, from, decoded.texts))
                 ELSE Throws("did not converge"))

(***************************************************************************)
(* decodeRunStitched: one scan that also collects the runs                 *)
(***************************************************************************)
DecodeRunStitched(c, t, ids, from, prefix) ==
    LET stop    == Stop(c, ids, from)
        seen    == Materialize(t, Slice(ids, from, stop - 1))
        onlyRun == from = 1 /\ Dirty(ids[1]) /\ RunEnd(ids, 1) = Len(ids)
    IN  IF SampleUnknown(ids) \/ SampleOver(ids, MaxMixed) THEN Fallback(t, ids)
        ELSE IF stop <= Len(ids) \/ onlyRun THEN Fallback(seen, ids)
        ELSE Mixed(c, seen, ids, from, prefix)

(***************************************************************************)
(* decodeCareful without the stitcher                                      *)
(***************************************************************************)
DecodeCareful(c, t, ids, from, prefix) ==
    LET stop == Stop(c, ids, from)
        seen == Materialize(t, Slice(ids, from, stop - 1))
        known == IF HasLatin1(c) THEN Latin1(seen, ids) ELSE Fallback(seen, ids)
    IN  IF SampleUnknown(ids) THEN Fallback(t, ids)
        ELSE IF c.mixedRuns /\ SampleOver(ids, MaxMixed)
        THEN IF HasLatin1(c) THEN Latin1(t, ids) ELSE Fallback(t, ids)
        ELSE IF ~c.mixedRuns /\ SampleOver(ids, MaxDirty) THEN DecodeDirty(c, t, ids)
        ELSE IF stop > Len(ids) THEN Mixed(c, seen, ids, from, prefix)
        ELSE IF Unknown(ids[stop]) THEN known
        ELSE IF c.mixedRuns THEN Fallback(seen, ids)
        ELSE DecodeDirty(c, seen, ids)

(***************************************************************************)
(* decodePrepared: the ids are joined if all of them have their string,    *)
(* decoded by the core, or scanned from some id on, after the text of      *)
(* those before it.                                                        *)
(***************************************************************************)
\* joinKnownClean: the first id without a string, and the text before it.
FirstMiss(t, ids) ==
    LET misses == {k \in DOMAIN ids : ids[k] \notin t.strings}
    IN  IF misses = {} THEN Len(ids) + 1 ELSE CHOOSE k \in misses : \A j \in misses : k <= j
Prefix(ids, miss) == FlattenSeq([k \in 1 .. miss - 1 |-> TextOf(ids[k])])

Joined(text) == [route |-> "joined", from |-> 0, prefix |-> text]
Missed(from, prefix) == [route |-> "missed", from |-> from, prefix |-> prefix]
ToCore == [route |-> "core", from |-> 0, prefix |-> <<>>]

Prepared(c, t, ids, scratch) ==
    LET miss == FirstMiss(t, ids) IN
    CASE ids = <<>> -> Joined(<<>>)
      [] ids # <<>> /\ ~c.runStitcher /\ Len(ids) > MaxTableIds -> ToCore
      [] /\ ids # <<>> /\ ~c.runStitcher /\ Len(ids) <= MaxTableIds /\ scratch
         /\ SampleUnknown(ids) \/ SampleOver(ids, MaxMixed) -> ToCore
      [] OTHER -> IF miss > Len(ids) THEN Joined(Prefix(ids, miss))
                  ELSE IF c.fusedValidation THEN Missed(miss, Prefix(ids, miss))
                  ELSE Missed(1, <<>>)

DecodeBy(c, t, ids, plan) ==
    CASE plan.route = "joined" -> Answered(t, Text(plan.prefix))
      [] plan.route = "core"   -> Fallback(t, ids)
      [] plan.route = "missed" ->
             IF c.runStitcher THEN DecodeRunStitched(c, t, ids, plan.from, plan.prefix)
             ELSE DecodeCareful(c, t, ids, plan.from, plan.prefix)
=============================================================================
