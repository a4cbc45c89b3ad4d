------------------------ MODULE OverlapReconciliation ------------------------
(***************************************************************************)
(* Chunked encoding of one long pretoken: the ranges of chunk_ranges, the  *)
(* OverlapReconciliation of src/load_tokenizer/htk_chunk.rs that joins     *)
(* their encodings, and the protocol by which it asks for more, as driven  *)
(* synchronously by encode_overlap_batched, from wasm_threaded.rs, and     *)
(* across worker threads by encodeLongPretoken (tier-runtime.mjs) through  *)
(* WasmOverlapReconciler (wasm.rs).                                        *)
(*                                                                         *)
(* An encoding of a span is the set of its token boundaries: the bytes     *)
(* between two neighbouring boundaries determine the token id.  The loops  *)
(* of chunk_ranges and advance are one step per iteration, with no other   *)
(* step between two iterations of a loop (`phase`).                        *)
(***************************************************************************)
EXTENDS Integers, Sequences

CONSTANTS
    Text,          \* the pretokens considered
    Size(_),       \* text -> its length in bytes
    IsEdge(_, _),  \* text, position -> may a range start or end there?
    Cut(_, _),     \* text, span -> the boundaries of the encoder's tokens
    Omega,         \* the length of the longest token of the vocabulary
    ChunkSizes     \* the values of ChunkConfig.chunk_size considered

ASSUME SizeAssumption == \A t \in Text : Size(t) \in Nat
ASSUME ParameterAssumption == Omega \in Nat /\ ChunkSizes \subseteq Nat

\* str::is_char_boundary, or every position when ranges may split a code point.
ASSUME EdgeAssumption ==
    \A t \in Text : IsEdge(t, 0) /\ IsEdge(t, Size(t))

(***************************************************************************)
(* The encoder, a BPE                                                      *)
(***************************************************************************)
Span(t) == {s \in [start : 0 .. Size(t), end : 0 .. Size(t)] :
                  s.start <= s.end /\ IsEdge(t, s.start) /\ IsEdge(t, s.end)}

Whole(t) == [start |-> 0, end |-> Size(t)]

\* x < y are neighbouring boundaries in B.
Neighbours(B, x, y) == x \in B /\ y \in B /\ x < y /\ \A z \in (x + 1) .. (y - 1) : z \notin B

\* B divides s into tokens.
Divides(B, s) == /\ B \subseteq s.start .. s.end
                 /\ s.start \in B /\ s.end \in B

ASSUME CoverAssumption ==
    \A t \in Text : \A s \in Span(t) : Divides(Cut(t, s), s)

\* text[x, y) is a token of some encoding.
IsToken(t, x, y) == \E s \in Span(t) : Neighbours(Cut(t, s), x, y)

\* text[x, y) and text[y, z) stand next to each other in some encoding.
Adjacent(t, x, y, z) ==
    \E s \in Span(t) : Neighbours(Cut(t, s), x, y) /\ Neighbours(Cut(t, s), y, z)

Position(t)  == 0 .. Size(t)
Tokens(t)    == {p \in Position(t) \X Position(t) : IsToken(t, p[1], p[2])}
Adjacents(t) == {p \in Position(t) \X Position(t) \X Position(t) :
                       Adjacent(t, p[1], p[2], p[3])}

\* Every token of B is in T, every two neighbouring ones in A.
Compatible(B, T, A) ==
    \A x, y \in B : Neighbours(B, x, y) =>
        /\ <<x, y>> \in T
        /\ \A z \in B : Neighbours(B, y, z) => <<x, y, z>> \in A

\* What makes BPE local: a division of a span into tokens of which every two neighbours
\* occur side by side in some encoding is the span's encoding.
ASSUME LocalityAssumption ==
    \A t \in Text :
        LET T == Tokens(t)
            A == Adjacents(t)
        IN  \A s \in Span(t) : \A B \in SUBSET (s.start .. s.end) :
                Divides(B, s) /\ Compatible(B, T, A) => B = Cut(t, s)

(***************************************************************************)
(* State                                                                   *)
(***************************************************************************)
VARIABLES
    text,          \* the pretoken
    chunkSize,     \* config.chunk_size
    phase,         \* which of the steps below the protocol is at
    from,          \* chunk_ranges: where the next range starts
    ranges,        \* the initial ranges
    encoded,       \* the encodings answered for them, {} while one is awaited
    left,          \* OverlapReconciliation.left
    right,         \* the first range still in OverlapReconciliation.right
    pending,       \* pending_range
    enlargements   \* OverlapReconciliation.enlargements

reconciliation == <<text, chunkSize, phase, from, ranges, encoded, left, right, pending, enlargements>>

Phase   == {"planning", "encoding", "advancing", "enlarging", "finished", "failed"}
NoSpan  == [start |-> 0, end |-> 0]
NoChunk == [span |-> NoSpan, cuts |-> {}]
Smaller(a, b) == IF a < b THEN a ELSE b
Larger(a, b)  == IF a < b THEN b ELSE a

(***************************************************************************)
(* overlap_ranges and chunk_ranges                                         *)
(***************************************************************************)
\* InvalidOmega and ChunkTooSmall.
PlanRefused ==
    /\ phase = "planning"
    /\ Omega = 0 \/ chunkSize < 2 * Omega
    /\ phase' = "failed"
    /\ UNCHANGED <<text, chunkSize, from, ranges, encoded, left, right, pending, enlargements>>

\* From p up to the next edge; from p down to the previous one, or to `from`.
EdgeAbove(p) == CHOOSE q \in p .. Size(text) :
                    IsEdge(text, q) /\ \A r \in p .. (q - 1) : ~IsEdge(text, r)
EdgeBelow(p) == CHOOSE q \in from .. p :
                    /\ q = from \/ IsEdge(text, q)
                    /\ \A r \in (q + 1) .. p : ~IsEdge(text, r)

\* Mutants: a range ends inside a code point; the overlap is one byte short.
RangeEndAnywhere == Smaller(from + chunkSize, Size(text))
NextStartLate    == EdgeBelow(EdgeAbove(Smaller(from + chunkSize, Size(text))) - Omega + 1)

RangeEnd  == EdgeAbove(Smaller(from + chunkSize, Size(text)))
NextStart == EdgeBelow(RangeEnd - Omega)

PlanRange ==
    /\ phase = "planning"
    /\ Omega > 0 /\ chunkSize >= 2 * Omega
    /\ ranges' = Append(ranges, [start |-> from, end |-> RangeEnd])
    /\ UNCHANGED <<text, chunkSize, left, right, pending, enlargements>>

\* The range that ends with the pretoken, the only one of a pretoken within a chunk.
PlanLast ==
    /\ PlanRange
    /\ RangeEnd = Size(text)
    /\ phase' = "encoding"
    /\ encoded' = [k \in 1 .. Len(ranges) + 1 |-> {}]
    /\ UNCHANGED from

PlanNext ==
    /\ PlanRange
    /\ RangeEnd < Size(text) /\ NextStart > from
    /\ from' = NextStart
    /\ UNCHANGED <<phase, encoded>>

\* InvalidGeometry: code points so long that the next range would not start later.
PlanStuck ==
    /\ PlanRange
    /\ RangeEnd < Size(text) /\ NextStart <= from
    /\ phase' = "failed"
    /\ UNCHANGED <<from, encoded>>

(***************************************************************************)
(* The initial ranges are encoded independently                            *)
(***************************************************************************)
\* What may come back for span s: its encoding, or (a defect of the encoder) tokens
\* whose lengths do not add up to it.
Answer(s) == {Cut(text, s)} \union {{s.start} : x \in {s.start} \ {s.end}}

EncodeInitial(k) ==
    /\ phase = "encoding"
    /\ k \in DOMAIN ranges /\ encoded[k] = {}
    /\ \E cuts \in Answer(ranges[k]) : encoded' = [encoded EXCEPT ![k] = cuts]
    /\ UNCHANGED <<text, chunkSize, phase, from, ranges, left, right, pending, enlargements>>

\* A chunk encoder is unavailable, a worker's call is rejected: the pretoken is given up.
EncoderFails ==
    /\ phase \in {"encoding", "enlarging"}
    /\ phase' = "failed"
    /\ UNCHANGED <<text, chunkSize, from, ranges, encoded, left, right, pending, enlargements>>

\* acceptInitial once all are there: OverlapReconciliation::new, up to its advance.
\* encoded_chunk refuses tokens that do not cover their range exactly.
AcceptInitial ==
    /\ phase = "encoding"
    /\ \A k \in DOMAIN ranges : encoded[k] # {}
    /\ IF \A k \in DOMAIN ranges : Divides(encoded[k], ranges[k])
       THEN /\ phase' = "advancing"
            /\ left' = [span |-> ranges[1], cuts |-> encoded[1]]
            /\ right' = 2
       ELSE phase' = "failed" /\ UNCHANGED <<left, right>>
    /\ UNCHANGED <<text, chunkSize, from, ranges, encoded, pending, enlargements>>

(***************************************************************************)
(* advance                                                                 *)
(***************************************************************************)
\* boundaries_in
Within(cuts, s) == {p \in cuts : s.start <= p /\ p <= s.end}

Overlap == [start |-> ranges[right].start,
            end   |-> Smaller(left.span.end, ranges[right].end)]

\* Mutant: one common boundary is taken for agreement.
AgreementOnOne == Within(left.cuts, Overlap) \intersect Within(encoded[right], Overlap) # {}

Agreement == /\ Within(left.cuts, Overlap) # {}
             /\ Within(left.cuts, Overlap) = Within(encoded[right], Overlap)

\* left_overlap[0]
Seam == CHOOSE p \in Within(left.cuts, Overlap) :
            \A q \in Within(left.cuts, Overlap) : p <= q

Spliced == [span |-> [start |-> left.span.start, end |-> ranges[right].end],
            cuts |-> {p \in left.cuts : p <= Seam} \union {p \in encoded[right] : p >= Seam}]

\* Mutant: advance stops before the last range.
SpliceButLast ==
    /\ phase = "advancing"
    /\ right + 1 \in DOMAIN ranges
    /\ Agreement
    /\ left' = Spliced /\ right' = right + 1
    /\ UNCHANGED <<phase, text, chunkSize, from, ranges, encoded, pending, enlargements>>

Splice ==
    /\ phase = "advancing"
    /\ right \in DOMAIN ranges
    /\ Agreement
    /\ IF Divides(Spliced.cuts, Spliced.span)
       THEN left' = Spliced /\ right' = right + 1 /\ UNCHANGED phase
       ELSE phase' = "failed" /\ UNCHANGED <<left, right>>
    /\ UNCHANGED <<text, chunkSize, from, ranges, encoded, pending, enlargements>>

\* Mutants: only the span of the right range is encoded again; the right range stays in
\* the queue and is joined once more.
EnlargeRight ==
    /\ phase = "advancing"
    /\ right \in DOMAIN ranges
    /\ ~Agreement
    /\ pending' = ranges[right]
    /\ left' = NoChunk
    /\ right' = right + 1
    /\ enlargements' = enlargements + 1
    /\ phase' = "enlarging"
    /\ UNCHANGED <<text, chunkSize, from, ranges, encoded>>
EnlargeAgain ==
    /\ phase = "advancing"
    /\ right \in DOMAIN ranges
    /\ ~Agreement
    /\ pending' = [start |-> left.span.start,
                   end   |-> Larger(ranges[right].end, left.span.end)]
    /\ left' = NoChunk
    /\ enlargements' = enlargements + 1
    /\ phase' = "enlarging"
    /\ UNCHANGED <<text, chunkSize, from, ranges, encoded, right>>

\* No agreement: both are given up for the encoding of the span they cover together.
Enlarge ==
    /\ phase = "advancing"
    /\ right \in DOMAIN ranges
    /\ ~Agreement
    /\ pending' = [start |-> left.span.start,
                   end   |-> Larger(ranges[right].end, left.span.end)]
    /\ left' = NoChunk
    /\ right' = right + 1
    /\ enlargements' = enlargements + 1
    /\ phase' = "enlarging"
    /\ UNCHANGED <<text, chunkSize, from, ranges, encoded>>

\* The encoding of pending_range arrives and advance goes on with it.
AcceptEnlargement ==
    /\ phase = "enlarging"
    /\ \E cuts \in Answer(pending) :
          IF Divides(cuts, pending)
          THEN left' = [span |-> pending, cuts |-> cuts] /\ phase' = "advancing"
          ELSE phase' = "failed" /\ UNCHANGED left
    /\ pending' = NoSpan
    /\ UNCHANGED <<text, chunkSize, from, ranges, encoded, right, enlargements>>

\* finish: takeIds
Finish ==
    /\ phase = "advancing"
    /\ right \notin DOMAIN ranges
    /\ phase' = "finished"
    /\ UNCHANGED <<text, chunkSize, from, ranges, encoded, left, right, pending, enlargements>>

Ended == phase \in {"finished", "failed"} /\ UNCHANGED reconciliation

(***************************************************************************)
(* Specification                                                           *)
(***************************************************************************)
ReconciliationInit ==
    /\ text \in Text
    /\ chunkSize \in ChunkSizes
    /\ phase = "planning"
    /\ from = 0
    /\ ranges = <<>>
    /\ encoded = <<>>
    /\ left = NoChunk
    /\ right = 1
    /\ pending = NoSpan
    /\ enlargements = 0

ReconciliationNext ==
    \/ PlanRefused \/ PlanLast \/ PlanNext \/ PlanStuck
    \/ \E k \in DOMAIN ranges : EncodeInitial(k)
    \/ EncoderFails
    \/ AcceptInitial
    \/ Splice \/ Enlarge \/ AcceptEnlargement
    \/ Finish
    \/ Ended

Reconciliation == ReconciliationInit /\ [][ReconciliationNext]_reconciliation

\* The code runs on by itself and every range asked for is encoded or given up.
FairSpec == Reconciliation /\ WF_reconciliation(ReconciliationNext)

(***************************************************************************)
(* Properties                                                              *)
(***************************************************************************)
ChunkType(t) == [span : Span(t) \union {NoSpan}, cuts : SUBSET (0 .. Size(t))]

TypeOK ==
    /\ chunkSize \in ChunkSizes
    /\ phase \in Phase
    /\ from \in 0 .. Size(text)
    /\ ranges \in Seq(Span(text))
    /\ encoded \in Seq(SUBSET (0 .. Size(text)))
    /\ left \in ChunkType(text)
    /\ right \in Nat
    /\ pending \in Span(text) \union {NoSpan}
    /\ enlargements \in Nat

\* The chunked encoding is the encoding: what finish() returns for a pretoken is what
\* the encoder returns for the whole of it, however the ranges fell and were joined.
ChunkedIsExact == phase = "finished" => left.cuts = Cut(text, Whole(text))

\* Wherever code points make the ranges of chunk_ranges start and end, neighbouring ones
\* overlap by at least Omega, a whole longest token, and the last ends with the pretoken.
RangesOverlap ==
    /\ \A k \in DOMAIN ranges :
          k > 1 => /\ ranges[k].start > ranges[k - 1].start
                   /\ ranges[k].start + Omega <= ranges[k - 1].end
                   /\ phase # "failed" => ranges[k].end > ranges[k - 1].end
    /\ phase \in {"encoding", "advancing", "enlarging", "finished"} =>
          ranges[Len(ranges)].end = Size(text)

\* advance leaves no gap: from the start of the pretoken to the end of the last range
\* taken from `right` everything is in `left`, or is being encoded again.
NothingDropped ==
    /\ phase \in {"advancing", "finished"} =>
          left.span = [start |-> 0, end |-> ranges[right - 1].end]
    /\ phase = "enlarging" => pending = [start |-> 0, end |-> ranges[right - 1].end]

\* An enlargement consumes an initial range, so a pretoken is encoded again at most
\* once per join.
EnlargementsBounded == enlargements < Len(ranges) \/ ranges = <<>>

\* The reconciliation ends: every loop makes progress, every request is the last or is
\* followed by one for a longer span.
Ends == <>(phase \in {"finished", "failed"})
=============================================================================
