---------------------------- MODULE EncodingProofs ----------------------------
(***************************************************************************)
(* How one long pretoken becomes an encoding, and how a client sees one.   *)
(*                                                                         *)
(* Chunked encoding is exact for every pretoken, chunk size and overlap,   *)
(* and every encoder that is local in the sense of LocalityAssumption.     *)
(*                                                                         *)
(* The ids of a lazy encoding are a plain array to whoever holds them, and *)
(* its fields those of an eager encoding, for any ids, lengths, numbers of *)
(* reads before the ids are copied and sequences of operations.            *)
(***************************************************************************)
EXTENDS OverlapReconciliation, LazyEncoding, SequenceTheorems, WellFoundedInduction, TLAPS

(***************************************************************************)
(*                      Overlap reconciliation                             *)
(***************************************************************************)
(***************************************************************************)
(* The inductive invariant                                                 *)
(***************************************************************************)
Planned == {"encoding", "advancing", "enlarging", "finished"}
Joining == {"advancing", "enlarging", "finished"}

\* chunk_ranges between two iterations: the last range ends at the first edge a chunk
\* away from its start, the next one starts at the last edge Omega before that end.
PlanInv ==
    /\ IsEdge(text, from)
    /\ ranges # <<>> => ranges[1].start = 0
    /\ phase = "planning" /\ ranges = <<>> => from = 0
    /\ phase = "planning" /\ ranges # <<>> =>
          LET last == ranges[Len(ranges)] IN
              /\ last.start < from /\ from + Omega <= last.end /\ last.end < Size(text)
              /\ \A q \in (last.start + chunkSize) .. Size(text) :
                     IsEdge(text, q) => last.end <= q
              /\ \A q \in (from + 1) .. (last.end - Omega) : ~IsEdge(text, q)
    /\ phase \in Planned => ranges # <<>> /\ Omega > 0 /\ Len(encoded) = Len(ranges)

\* Every encoding in hand is the encoder's, of the span it stands for.
JoinInv ==
    /\ phase = "encoding" =>
          \A k \in DOMAIN ranges : encoded[k] \in Answer(ranges[k]) \union {{}}
    /\ phase \in Joining =>
          /\ right \in 2 .. Len(ranges) + 1
          /\ \A k \in DOMAIN ranges : encoded[k] = Cut(text, ranges[k])
    /\ phase \in {"advancing", "finished"} =>
          /\ left.span \in Span(text)
          /\ left.cuts = Cut(text, left.span)
    /\ phase = "enlarging" => pending \in Span(text)
    /\ phase = "finished" => right = Len(ranges) + 1

\* Every enlargement has taken a range of `right`.
CountInv ==
    /\ phase \in Joining => enlargements + 2 <= right
    /\ phase \notin Joining =>
          enlargements = 0 \/ (phase = "failed" /\ enlargements < Len(ranges))

ReconciliationInv ==
    /\ text \in Text
    /\ TypeOK /\ PlanInv /\ RangesOverlap /\ NothingDropped /\ JoinInv /\ CountInv

(***************************************************************************)
(* Extreme elements, and the edges next to a position                      *)
(***************************************************************************)
LEMMA LeastNatural ==
    ASSUME NEW S, S \subseteq Nat, S # {}
    PROVE  \E x \in S : \A y \in S : x <= y
<1>1. IsWellFoundedOn(OpToRel(<, Nat), Nat)
  BY NatLessThanWellFounded
<1>2. PICK x \in S : \A y \in S : ~ (<<y, x>> \in OpToRel(<, Nat))
  BY <1>1, WFMin
<1>3. \A y \in S : ~(y < x)
  BY <1>2 DEF OpToRel
<1>4. \A y \in S : x <= y
  <2> TAKE y \in S
  <2>1. x \in Nat /\ y \in Nat /\ ~(y < x)
    BY <1>3
  <2> QED
    BY <2>1
<1> QED
  BY <1>4

\* A set of numbers with a bound has a greatest member.
LEMMA GreatestNatural ==
    ASSUME NEW S, NEW n \in Nat, S \subseteq 0 .. n, S # {}
    PROVE  \E x \in S : \A y \in S : y <= x
<1> DEFINE D == {n - x : x \in S}
<1>1. PICK d \in D : \A y \in D : d <= y
  <2>1. ASSUME NEW x \in S PROVE n - x \in Nat
    <3>1. x \in 0 .. n
      OBVIOUS
    <3> QED
      BY <3>1
  <2>2. D \subseteq Nat
    BY <2>1
  <2>3. D # {}
    OBVIOUS
  <2> HIDE DEF D
  <2> QED
    BY <2>2, <2>3, LeastNatural
<1>2. PICK x \in S : d = n - x
  BY <1>1
<1>3. \A y \in S : n - x <= n - y
  BY <1>1, <1>2
<1>4. \A y \in S : y <= x
  <2> TAKE y \in S
  <2>1. x \in 0 .. n /\ y \in 0 .. n /\ n - x <= n - y
    BY <1>3
  <2> QED
    BY <2>1
<1> QED
  BY <1>4

\* EdgeAbove gives the first edge of a character at or above a position.
LEMMA EdgeAboveFact ==
    ASSUME text \in Text, NEW p \in 0 .. Size(text)
    PROVE  /\ EdgeAbove(p) \in p .. Size(text)
           /\ IsEdge(text, EdgeAbove(p))
           /\ \A r \in p .. (EdgeAbove(p) - 1) : ~IsEdge(text, r)
<1> DEFINE E == {q \in p .. Size(text) : IsEdge(text, q)}
<1>1. Size(text) \in Nat /\ p \in Nat /\ Size(text) \in E /\ E \subseteq Nat
  BY SizeAssumption, EdgeAssumption
<1>2. PICK q \in E : \A r \in E : q <= r
  <2> HIDE DEF E
  <2> QED
    BY <1>1, LeastNatural
<1>3. q \in p .. Size(text) /\ IsEdge(text, q) /\ \A r \in p .. (q - 1) : ~IsEdge(text, r)
  BY <1>1, <1>2
<1> QED
  BY <1>3 DEF EdgeAbove

\* EdgeBelow gives the last edge at or below a position, or where the chunk begins.
LEMMA EdgeBelowFact ==
    ASSUME from \in Nat, NEW p \in Nat, from <= p
    PROVE  /\ EdgeBelow(p) \in from .. p
           /\ EdgeBelow(p) = from \/ IsEdge(text, EdgeBelow(p))
           /\ \A r \in (EdgeBelow(p) + 1) .. p : ~IsEdge(text, r)
<1> DEFINE E == {q \in from .. p : q = from \/ IsEdge(text, q)}
<1>1. E \subseteq 0 .. p /\ from \in E
  OBVIOUS
<1>2. PICK q \in E : \A r \in E : r <= q
  <2> HIDE DEF E
  <2> QED
    BY <1>1, GreatestNatural
<1>3. /\ q \in from .. p
      /\ q = from \/ IsEdge(text, q)
      /\ \A r \in (q + 1) .. p : ~IsEdge(text, r)
  BY <1>1, <1>2
<1> QED
  BY <1>3 DEF EdgeBelow

(***************************************************************************)
(* Two encodings that agree where they overlap                             *)
(***************************************************************************)
LEMMA SpliceExact ==
    ASSUME NEW t \in Text, NEW l \in Span(t), NEW r \in Span(t),
           l.start <= r.start, r.start < l.end, l.end <= r.end,
           \A p \in r.start .. l.end : p \in Cut(t, l) <=> p \in Cut(t, r)
    PROVE  LET s == [start |-> l.start, end |-> r.end]
               B == {p \in Cut(t, l) : p <= r.start} \union {p \in Cut(t, r) : p >= r.start}
           IN  s \in Span(t) /\ Divides(B, s) /\ B = Cut(t, s)
<1> DEFINE L == Cut(t, l)
           R == Cut(t, r)
           s == [start |-> l.start, end |-> r.end]
           B == {p \in L : p <= r.start} \union {p \in R : p >= r.start}
<1>0. /\ L = Cut(t, l) /\ R = Cut(t, r)
      /\ s = [start |-> l.start, end |-> r.end]
      /\ B = {p \in L : p <= r.start} \union {p \in R : p >= r.start}
      /\ \A p \in r.start .. l.end : p \in L <=> p \in R
  OBVIOUS
<1> SUFFICES s \in Span(t) /\ Divides(B, s) /\ B = Cut(t, s)
  OBVIOUS
<1> USE <1>0
<1> HIDE DEF L, R, s, B
<1> DEFINE b == r.start
<1>1. /\ l.start \in Nat /\ l.end \in Nat /\ r.start \in Nat /\ r.end \in Nat
      /\ s \in Span(t) /\ s.start = l.start /\ s.end = r.end
  BY SizeAssumption DEF Span
<1>2. /\ L \subseteq l.start .. l.end /\ l.start \in L /\ l.end \in L
      /\ R \subseteq r.start .. r.end /\ r.start \in R /\ r.end \in R
  BY CoverAssumption DEF Divides
<1>3. b \in L /\ b \in R /\ b \in B
  BY <1>1, <1>2
<1>4. Divides(B, s)
  BY <1>1, <1>2 DEF Divides
<1>5. ASSUME NEW x \in B, NEW y \in B, Neighbours(B, x, y)
      PROVE  \/ y <= b /\ Neighbours(L, x, y)
             \/ b <= x /\ Neighbours(R, x, y)
  <2>1. CASE x < b
    <3>1. y <= b
      BY <1>1, <1>2, <1>3, <1>5, <2>1 DEF Neighbours
    <3>2. x \in L /\ y \in L /\ \A z \in (x + 1) .. (y - 1) : z \notin L
      BY <1>1, <1>2, <1>3, <1>5, <2>1, <3>1 DEF Neighbours
    <3> QED
      BY <1>5, <3>1, <3>2 DEF Neighbours
  <2>2. CASE b <= x
    <3>1. x \in R /\ y \in R /\ \A z \in (x + 1) .. (y - 1) : z \notin R
      BY <1>1, <1>2, <1>3, <1>5, <2>2 DEF Neighbours
    <3> QED
      BY <1>5, <2>2, <3>1 DEF Neighbours
  <2> QED
    BY <1>1, <1>2, <2>1, <2>2
<1>6. \A x, y \in B : Neighbours(B, x, y) => <<x, y>> \in Tokens(t)
  <2> SUFFICES ASSUME NEW x \in B, NEW y \in B, Neighbours(B, x, y)
               PROVE  IsToken(t, x, y) /\ x \in Position(t) /\ y \in Position(t)
    BY DEF Tokens
  <2>1. IsToken(t, x, y)
    BY <1>5 DEF IsToken
  <2> QED
    BY <1>1, <1>4, <2>1, SizeAssumption DEF Divides, Position, Span
<1>7. ASSUME NEW x \in B, NEW y \in B, NEW z \in B, Neighbours(B, x, y), Neighbours(B, y, z)
      PROVE  Adjacent(t, x, y, z)
  <2>0. x < y /\ y < z /\ x \in Int /\ y \in Int /\ z \in Int
    BY <1>1, <1>2, <1>7 DEF Neighbours
  <2>1. CASE z <= b
    <3>1. Neighbours(L, x, y) /\ Neighbours(L, y, z)
      BY <1>1, <1>5, <1>7, <2>0, <2>1
    <3> QED
      BY <3>1 DEF Adjacent
  <2>2. CASE b <= x
    <3>1. Neighbours(R, x, y) /\ Neighbours(R, y, z)
      BY <1>1, <1>5, <1>7, <2>0, <2>2
    <3> QED
      BY <3>1 DEF Adjacent
  <2>3. CASE x < b /\ b < z
    <3>1. y = b /\ Neighbours(L, x, y) /\ Neighbours(R, y, z)
      BY <1>1, <1>3, <1>5, <1>7, <2>0, <2>3 DEF Neighbours
    <3>2. z <= l.end
      BY <1>1, <1>2, <3>1, <2>0 DEF Neighbours
    <3>3. Neighbours(L, y, z)
      BY <1>1, <1>2, <2>0, <3>1, <3>2 DEF Neighbours
    <3> QED
      BY <3>1, <3>3 DEF Adjacent
  <2> QED
    BY <1>1, <2>0, <2>1, <2>2, <2>3
<1>8. \A x, y, z \in B : Neighbours(B, x, y) /\ Neighbours(B, y, z) => <<x, y, z>> \in Adjacents(t)
  <2> SUFFICES ASSUME NEW x \in B, NEW y \in B, NEW z \in B,
                      Neighbours(B, x, y), Neighbours(B, y, z)
               PROVE  <<x, y, z>> \in Adjacents(t)
    OBVIOUS
  <2>1. x \in Position(t) /\ y \in Position(t) /\ z \in Position(t)
    BY <1>1, <1>4, SizeAssumption DEF Divides, Position, Span
  <2> QED
    BY <1>7, <2>1 DEF Adjacents
<1>9. Compatible(B, Tokens(t), Adjacents(t))
  BY <1>6, <1>8 DEF Compatible
<1> QED
  BY <1>1, <1>4, <1>9, LocalityAssumption DEF Divides

(***************************************************************************)
(* Planning                                                                *)
(***************************************************************************)
\* The range chunk_ranges pushes, and the start of the next one.
LEMMA RangeFacts ==
    ASSUME ReconciliationInv, PlanRange
    PROVE  /\ Size(text) \in Nat /\ from \in Nat /\ chunkSize \in Nat /\ Omega \in Nat
           /\ RangeEnd \in from .. Size(text) /\ IsEdge(text, RangeEnd)
           /\ RangeEnd < Size(text) => from + chunkSize <= RangeEnd
           /\ \A q \in (from + chunkSize) .. Size(text) : IsEdge(text, q) => RangeEnd <= q
           /\ RangeEnd < Size(text) =>
                 /\ NextStart \in from .. (RangeEnd - Omega)
                 /\ NextStart = from \/ IsEdge(text, NextStart)
                 /\ \A q \in (NextStart + 1) .. (RangeEnd - Omega) : ~IsEdge(text, q)
<1> DEFINE p == Smaller(from + chunkSize, Size(text))
<1>1. /\ Size(text) \in Nat /\ from \in 0 .. Size(text) /\ chunkSize \in Nat /\ Omega \in Nat
      /\ text \in Text
  BY SizeAssumption, ParameterAssumption DEF ReconciliationInv, TypeOK
<1>2. p \in from .. Size(text) /\ (p < Size(text) => p = from + chunkSize)
      /\ p <= from + chunkSize /\ p \in 0 .. Size(text)
  BY <1>1 DEF Smaller
<1>3. /\ RangeEnd \in p .. Size(text)
      /\ IsEdge(text, RangeEnd)
      /\ \A r \in p .. (RangeEnd - 1) : ~IsEdge(text, r)
  BY <1>1, <1>2, EdgeAboveFact DEF RangeEnd
<1>4. RangeEnd < Size(text) => from + chunkSize <= RangeEnd
  BY <1>1, <1>2, <1>3
<1>5. ASSUME NEW q \in (from + chunkSize) .. Size(text), IsEdge(text, q)
      PROVE  RangeEnd <= q
  BY <1>1, <1>2, <1>3, <1>5
<1>6. ASSUME RangeEnd < Size(text)
      PROVE  /\ NextStart \in from .. (RangeEnd - Omega)
             /\ NextStart = from \/ IsEdge(text, NextStart)
             /\ \A q \in (NextStart + 1) .. (RangeEnd - Omega) : ~IsEdge(text, q)
  <2>1. RangeEnd - Omega \in Nat /\ from <= RangeEnd - Omega /\ from \in Nat
    BY <1>1, <1>3, <1>4, <1>6 DEF PlanRange
  <2> HIDE DEF p
  <2> QED
    BY <2>1, EdgeBelowFact DEF NextStart
<1> HIDE DEF p
<1> QED
  BY <1>1, <1>2, <1>3, <1>4, <1>5, <1>6

\* What holds of the ranges once one is pushed, wherever it ends.
LEMMA PushedRange ==
    ASSUME ReconciliationInv, PlanRange
    PROVE  /\ ranges' \in Seq(Span(text)) /\ Len(ranges') = Len(ranges) + 1
           /\ ranges' # <<>> /\ ranges'[1].start = 0
           /\ ranges'[Len(ranges')] = [start |-> from, end |-> RangeEnd]
           /\ \A k \in DOMAIN ranges' : k > 1 =>
                 /\ ranges'[k].start > ranges'[k - 1].start
                 /\ ranges'[k].start + Omega <= ranges'[k - 1].end
                 /\ (RangeEnd = Size(text) \/ NextStart > from) =>
                       ranges'[k].end > ranges'[k - 1].end
<1> DEFINE n == Len(ranges)
           new == [start |-> from, end |-> RangeEnd]
<1>1. ranges \in Seq(Span(text)) /\ phase = "planning" /\ ranges' = Append(ranges, new)
  BY DEF ReconciliationInv, TypeOK, PlanRange
<1>2. new \in Span(text)
  BY RangeFacts DEF ReconciliationInv, PlanInv, Span
<1>3. /\ n \in Nat /\ Len(ranges') = n + 1 /\ DOMAIN ranges' = 1 .. n + 1
      /\ ranges' \in Seq(Span(text)) /\ ranges'[n + 1] = new
      /\ \A k \in 1 .. n : ranges'[k] = ranges[k]
  BY <1>1, <1>2
<1>4. ranges'[1].start = 0
  <2>1. CASE ranges = <<>>
    BY <1>1, <1>3, <2>1 DEF ReconciliationInv, PlanInv
  <2>2. CASE ranges # <<>>
    <3>1. n >= 1
      BY <1>1, <2>2
    <3> QED
      BY <1>3, <2>2, <3>1 DEF ReconciliationInv, PlanInv
  <2> QED
    BY <2>1, <2>2
<1>5. ASSUME NEW k \in 1 .. n + 1, k > 1
      PROVE  /\ ranges'[k].start > ranges'[k - 1].start
             /\ ranges'[k].start + Omega <= ranges'[k - 1].end
             /\ (RangeEnd = Size(text) \/ NextStart > from) =>
                   ranges'[k].end > ranges'[k - 1].end
  <2>1. CASE k <= n
    <3>1. ranges'[k] = ranges[k] /\ ranges'[k - 1] = ranges[k - 1] /\ k \in DOMAIN ranges
      BY <1>1, <1>3, <1>5, <2>1
    <3> QED
      BY <1>1, <1>5, <3>1 DEF ReconciliationInv, RangesOverlap
  <2>2. CASE k = n + 1
    <3> DEFINE last == ranges[n]
    <3>1. ranges # <<>> /\ n \in 1 .. n /\ last \in Span(text)
      BY <1>1, <1>5, <2>2
    <3>2. ranges'[k] = new /\ ranges'[k - 1] = last
      BY <1>3, <2>2, <3>1
    <3>3. /\ last.start < from /\ from + Omega <= last.end /\ last.end < Size(text)
          /\ \A q \in (last.start + chunkSize) .. Size(text) : IsEdge(text, q) => last.end <= q
          /\ \A q \in (from + 1) .. (last.end - Omega) : ~IsEdge(text, q)
      BY <1>1, <3>1 DEF ReconciliationInv, PlanInv
    <3>4. last.start \in Nat /\ last.end \in Nat
      BY <3>1, RangeFacts DEF Span
    <3>5. CASE RangeEnd = Size(text)
      BY <3>2, <3>3, <3>4, <3>5
    <3>6. CASE RangeEnd # Size(text) /\ NextStart > from
      <4>1. RangeEnd < Size(text) /\ RangeEnd \in Nat /\ from + chunkSize <= RangeEnd
        BY <3>6, RangeFacts
      <4>2. RangeEnd \in (last.start + chunkSize) .. Size(text) /\ IsEdge(text, RangeEnd)
        <5>1. from \in Nat /\ chunkSize \in Nat /\ Size(text) \in Nat /\ IsEdge(text, RangeEnd)
          BY RangeFacts
        <5>2. last.start + chunkSize \in Nat /\ last.start + chunkSize <= RangeEnd
          BY <3>3, <3>4, <4>1, <5>1, SMTT(30)
        <5> QED
          BY <4>1, <5>1, <5>2
      <4>3. last.end <= RangeEnd
        BY <3>3, <4>2
      <4>4. NextStart \in (from + 1) .. (RangeEnd - Omega) /\ IsEdge(text, NextStart)
        BY <3>6, <4>1, RangeFacts
      <4>5. last.end # RangeEnd
        BY <3>3, <4>4
      <4> QED
        BY <3>2, <3>3, <3>4, <4>1, <4>3, <4>5
    <3> QED
      BY <3>2, <3>3, <3>5, <3>6
  <2> QED
    BY <1>3, <1>5, <2>1, <2>2
<1> HIDE DEF new
<1> QED
  BY <1>3, <1>4, <1>5 DEF new

\* Planning a range keeps the invariant.
LEMMA PlanPreserves ==
    ASSUME ReconciliationInv, PlanLast \/ PlanNext \/ PlanStuck
    PROVE  ReconciliationInv'
<1>1. /\ PlanRange /\ phase = "planning"
      /\ text' = text /\ chunkSize' = chunkSize /\ left' = left /\ right' = right
      /\ pending' = pending /\ enlargements' = enlargements
  BY DEF PlanLast, PlanNext, PlanStuck, PlanRange
<1>2. /\ Size(text) \in Nat /\ from \in Nat /\ chunkSize \in Nat /\ Omega \in Nat
      /\ RangeEnd \in from .. Size(text)
      /\ ranges' \in Seq(Span(text)) /\ Len(ranges') \in Nat /\ Len(ranges') = Len(ranges) + 1
      /\ enlargements = 0
  BY <1>1, RangeFacts, PushedRange DEF ReconciliationInv, CountInv, Joining
<1>3. CASE PlanLast
  <2>1. /\ phase' = "encoding" /\ from' = from /\ RangeEnd = Size(text)
        /\ encoded' = [k \in 1 .. Len(ranges) + 1 |-> {}]
    BY <1>3 DEF PlanLast
  <2>2. encoded' \in Seq(SUBSET (0 .. Size(text))) /\ Len(encoded') = Len(ranges')
    BY <1>2, <2>1
  <2>3. TypeOK'
    BY <1>1, <1>2, <2>1, <2>2 DEF ReconciliationInv, TypeOK, Phase
  <2>4. PlanInv'
    BY <1>1, <1>2, <2>1, <2>2, PushedRange DEF ReconciliationInv, PlanInv, PlanRange, Planned
  <2>5. RangesOverlap'
    BY <1>1, <1>2, <2>1, PushedRange DEF RangesOverlap
  <2>6. NothingDropped' /\ CountInv'
    BY <1>1, <1>2, <2>1 DEF NothingDropped, CountInv, Joining
  <2>7. JoinInv'
    <3>1. DOMAIN ranges' = 1 .. Len(ranges) + 1
      BY <1>2
    <3> QED
      BY <2>1, <3>1 DEF JoinInv, Joining
  <2> QED
    BY <1>1, <2>3, <2>4, <2>5, <2>6, <2>7 DEF ReconciliationInv
<1>4. CASE PlanNext
  <2>1. /\ phase' = phase /\ encoded' = encoded /\ from' = NextStart
        /\ RangeEnd < Size(text) /\ NextStart > from
    BY <1>4 DEF PlanNext
  <2>2. /\ NextStart \in (from + 1) .. (RangeEnd - Omega) /\ IsEdge(text, NextStart)
        /\ from + chunkSize <= RangeEnd
        /\ \A q \in (from + chunkSize) .. Size(text) : IsEdge(text, q) => RangeEnd <= q
        /\ \A q \in (NextStart + 1) .. (RangeEnd - Omega) : ~IsEdge(text, q)
    BY <1>1, <2>1, RangeFacts
  <2>3. TypeOK'
    BY <1>1, <1>2, <2>1, <2>2 DEF ReconciliationInv, TypeOK
  <2>4. PlanInv'
    <3>1. ranges'[Len(ranges')].start = from /\ ranges'[Len(ranges')].end = RangeEnd
      BY <1>1, PushedRange
    <3> QED
      BY <1>1, <1>2, <2>1, <2>2, <3>1, PushedRange DEF PlanInv, Planned
  <2>5. RangesOverlap'
    BY <1>1, <1>2, <2>1, PushedRange DEF RangesOverlap
  <2>6. NothingDropped' /\ CountInv' /\ JoinInv'
    BY <1>1, <1>2, <2>1 DEF NothingDropped, CountInv, JoinInv, Joining
  <2> QED
    BY <1>1, <2>3, <2>4, <2>5, <2>6 DEF ReconciliationInv
<1>5. CASE PlanStuck
  <2>1. phase' = "failed" /\ encoded' = encoded /\ from' = from
    BY <1>5 DEF PlanStuck
  <2>2. TypeOK'
    BY <1>1, <1>2, <2>1 DEF ReconciliationInv, TypeOK, Phase
  <2>3. PlanInv'
    BY <1>1, <2>1, PushedRange DEF ReconciliationInv, PlanInv, Planned
  <2>4. RangesOverlap'
    BY <1>1, <1>2, <2>1, PushedRange DEF RangesOverlap
  <2>5. NothingDropped' /\ CountInv' /\ JoinInv'
    BY <1>1, <1>2, <2>1 DEF NothingDropped, CountInv, JoinInv, Joining
  <2> QED
    BY <1>1, <2>2, <2>3, <2>4, <2>5 DEF ReconciliationInv
<1> QED
  BY <1>3, <1>4, <1>5

(***************************************************************************)
(* Joining                                                                 *)
(***************************************************************************)
\* An answer that covers its span is its encoding.
LEMMA CoveringAnswer ==
    ASSUME text \in Text, NEW s \in Span(text), NEW cuts \in Answer(s)
    PROVE  /\ cuts \in SUBSET (0 .. Size(text)) /\ cuts # {}
           /\ Divides(cuts, s) => cuts = Cut(text, s)
<1>1. /\ s.start \in 0 .. Size(text) /\ s.end \in 0 .. Size(text) /\ s.start <= s.end
      /\ Size(text) \in Nat
  BY SizeAssumption DEF Span
<1>2. Divides(Cut(text, s), s)
  BY CoverAssumption
<1>3. CASE cuts = Cut(text, s)
  BY <1>1, <1>2, <1>3 DEF Divides
<1>4. CASE cuts # Cut(text, s)
  <2>1. cuts = {s.start} /\ s.start # s.end
    BY <1>4 DEF Answer
  <2> QED
    BY <1>1, <2>1 DEF Divides
<1> QED
  BY <1>3, <1>4

\* A worker's answer for a first chunk keeps the invariant, whenever it comes.
LEMMA EncodePreserves ==
    ASSUME ReconciliationInv, NEW k \in DOMAIN ranges, EncodeInitial(k)
    PROVE  ReconciliationInv'
<1>1. PICK cuts \in Answer(ranges[k]) : encoded' = [encoded EXCEPT ![k] = cuts]
  BY DEF EncodeInitial
<1>2. /\ phase = "encoding"
      /\ UNCHANGED <<text, chunkSize, phase, from, ranges, left, right, pending, enlargements>>
  BY DEF EncodeInitial
<1>3. ranges[k] \in Span(text) /\ text \in Text
  BY DEF ReconciliationInv, TypeOK
<1>4. cuts \in SUBSET (0 .. Size(text))
  BY <1>1, <1>3, CoveringAnswer
<1>5. encoded \in Seq(SUBSET (0 .. Size(text))) /\ ranges \in Seq(Span(text))
      /\ Len(encoded) = Len(ranges) /\ DOMAIN encoded = DOMAIN ranges
  BY <1>2 DEF ReconciliationInv, TypeOK, PlanInv, Planned
<1>6. encoded' \in Seq(SUBSET (0 .. Size(text))) /\ Len(encoded') = Len(encoded)
  BY <1>1, <1>4, <1>5
<1>7. TypeOK'
  BY <1>2, <1>6 DEF ReconciliationInv, TypeOK
<1>8. PlanInv'
  BY <1>2, <1>5, <1>6 DEF ReconciliationInv, PlanInv
<1>9. RangesOverlap' /\ NothingDropped' /\ CountInv'
  BY <1>2 DEF ReconciliationInv, RangesOverlap, NothingDropped, CountInv
<1>10. JoinInv'
  <2>1. ASSUME NEW j \in DOMAIN ranges
        PROVE  encoded'[j] \in Answer(ranges[j]) \union {{}}
    BY <1>1, <1>2, <1>5, <2>1 DEF ReconciliationInv, JoinInv
  <2> QED
    BY <1>2, <2>1 DEF JoinInv, Joining, Answer
<1> QED
  BY <1>2, <1>3, <1>7, <1>8, <1>9, <1>10 DEF ReconciliationInv

\* Taking the answers of the first chunks keeps the invariant.
LEMMA AcceptPreserves ==
    ASSUME ReconciliationInv, AcceptInitial
    PROVE  ReconciliationInv'
<1>1. /\ phase = "encoding"
      /\ UNCHANGED <<text, chunkSize, from, ranges, encoded, pending, enlargements>>
      /\ \A k \in DOMAIN ranges : encoded[k] # {}
  BY DEF AcceptInitial
<1>2. /\ text \in Text /\ ranges \in Seq(Span(text)) /\ ranges # <<>> /\ enlargements = 0
      /\ ranges[1].start = 0
  BY <1>1 DEF ReconciliationInv, TypeOK, PlanInv, Planned, CountInv, Joining
<1>3. 1 \in DOMAIN ranges /\ ranges[1] \in Span(text) /\ Len(ranges) \in Nat \ {0}
  BY <1>2
<1>4. CASE \A k \in DOMAIN ranges : Divides(encoded[k], ranges[k])
  <2>1. phase' = "advancing" /\ left' = [span |-> ranges[1], cuts |-> encoded[1]] /\ right' = 2
    BY <1>4 DEF AcceptInitial
  <2>2. ASSUME NEW k \in DOMAIN ranges
        PROVE  encoded[k] = Cut(text, ranges[k]) /\ encoded[k] \in SUBSET (0 .. Size(text))
    <3>1. encoded[k] \in Answer(ranges[k]) /\ ranges[k] \in Span(text)
      BY <1>1, <1>2 DEF ReconciliationInv, JoinInv
    <3> QED
      BY <1>2, <1>4, <3>1, CoveringAnswer
  <2>3. TypeOK'
    BY <1>1, <1>3, <2>1, <2>2 DEF ReconciliationInv, TypeOK, Phase, ChunkType
  <2>4. PlanInv'
    BY <1>1, <2>1 DEF ReconciliationInv, PlanInv, Planned
  <2>5. RangesOverlap' /\ CountInv'
    BY <1>1, <1>2, <2>1 DEF ReconciliationInv, RangesOverlap, CountInv, Joining
  <2>6. NothingDropped'
    <3>1. ranges[1] = [start |-> 0, end |-> ranges[1].end]
      BY <1>2, <1>3 DEF Span
    <3> QED
      BY <1>1, <2>1, <3>1 DEF NothingDropped
  <2>7. JoinInv'
    BY <1>1, <1>3, <2>1, <2>2 DEF JoinInv, Joining
  <2> QED
    BY <1>1, <1>2, <2>3, <2>4, <2>5, <2>6, <2>7 DEF ReconciliationInv
<1>5. CASE ~ \A k \in DOMAIN ranges : Divides(encoded[k], ranges[k])
  <2>1. phase' = "failed" /\ UNCHANGED <<left, right>>
    BY <1>5 DEF AcceptInitial
  <2> QED
    BY <1>1, <1>2, <2>1
    DEF ReconciliationInv, TypeOK, Phase, PlanInv, RangesOverlap, NothingDropped, JoinInv, CountInv,
        Planned, Joining
<1> QED
  BY <1>4, <1>5

\* What advance compares, and what splice returns when they agree.
LEMMA JoinFacts ==
    ASSUME ReconciliationInv, phase = "advancing", right \in DOMAIN ranges
    PROVE  /\ right \in Nat /\ right - 1 \in DOMAIN ranges /\ right > 1 /\ Len(ranges) \in Nat
           /\ ranges[right] \in Span(text) /\ encoded[right] = Cut(text, ranges[right])
           /\ left.span.start = 0 /\ left.span.end = ranges[right - 1].end
           /\ left.span.start <= ranges[right].start
           /\ ranges[right].start < left.span.end /\ left.span.end < ranges[right].end
           /\ Overlap = [start |-> ranges[right].start, end |-> left.span.end]
           /\ Agreement => /\ Seam = ranges[right].start
                           /\ Spliced.span \in Span(text)
                           /\ Spliced.span = [start |-> 0, end |-> ranges[right].end]
                           /\ Spliced.cuts = Cut(text, Spliced.span)
                           /\ Divides(Spliced.cuts, Spliced.span)
<1> DEFINE l == left.span
           r == ranges[right]
<1>1. /\ ranges \in Seq(Span(text)) /\ right \in 2 .. Len(ranges) + 1 /\ Len(ranges) \in Nat
      /\ DOMAIN ranges = 1 .. Len(ranges) /\ text \in Text
  BY DEF ReconciliationInv, TypeOK, JoinInv, Joining
<1>2. /\ right \in Nat /\ right > 1 /\ right - 1 \in DOMAIN ranges
      /\ r \in Span(text) /\ ranges[right - 1] \in Span(text)
      /\ encoded[right] = Cut(text, r)
  BY <1>1 DEF ReconciliationInv, JoinInv, Joining
<1>3. l = [start |-> 0, end |-> ranges[right - 1].end] /\ l \in Span(text)
      /\ left.cuts = Cut(text, l)
  BY DEF ReconciliationInv, NothingDropped, JoinInv
<1>4. /\ r.start + Omega <= ranges[right - 1].end
      /\ r.end > ranges[right - 1].end
  BY <1>2 DEF ReconciliationInv, RangesOverlap
<1>5. Omega \in Nat /\ Omega > 0
  BY ParameterAssumption DEF ReconciliationInv, PlanInv, Planned
<1>6. r.start \in Nat /\ r.end \in Nat /\ l.start = 0 /\ l.end = ranges[right - 1].end
      /\ l.end \in Nat
  BY <1>1, <1>2, <1>3, SizeAssumption DEF Span
<1>7. l.start <= r.start /\ r.start < l.end /\ l.end < r.end
  BY <1>4, <1>5, <1>6
<1>8. Overlap = [start |-> r.start, end |-> l.end]
  BY <1>6, <1>7 DEF Overlap, Smaller
<1>9. ASSUME Agreement
      PROVE  /\ Seam = r.start
             /\ Spliced.span \in Span(text)
             /\ Spliced.span = [start |-> 0, end |-> r.end]
             /\ Spliced.cuts = Cut(text, Spliced.span)
             /\ Divides(Spliced.cuts, Spliced.span)
  <2> DEFINE W == Within(left.cuts, Overlap)
             B == {p \in left.cuts : p <= r.start} \union {p \in encoded[right] : p >= r.start}
  <2>1. /\ r.start \in encoded[right]
        /\ encoded[right] \subseteq r.start .. r.end
        /\ left.cuts \subseteq l.start .. l.end
    BY <1>1, <1>2, <1>3, CoverAssumption DEF Divides
  <2>2. W = Within(encoded[right], Overlap)
    BY <1>9 DEF Agreement
  <2>3. r.start \in W /\ \A q \in W : r.start <= q
    BY <1>6, <1>7, <1>8, <2>1, <2>2 DEF Within
  <2>4. \A p \in W : (\A q \in W : p <= q) => p = r.start
    <3>1. W \subseteq Int
      BY <1>6, <2>1 DEF Within
    <3> QED
      BY <2>3, <3>1
  <2>5. Seam = r.start
    <3> HIDE DEF W
    <3> QED
      BY <2>3, <2>4 DEF Seam, W
  <2>6. \A p \in r.start .. l.end : p \in left.cuts <=> p \in encoded[right]
    BY <1>6, <1>8, <2>2 DEF Within
  <2>7. Spliced = [span |-> [start |-> l.start, end |-> r.end], cuts |-> B]
    BY <2>5 DEF Spliced
  <2>8. l.end <= r.end
    BY <1>6, <1>7
  <2>9. /\ [start |-> l.start, end |-> r.end] \in Span(text)
        /\ Divides(B, [start |-> l.start, end |-> r.end])
        /\ B = Cut(text, [start |-> l.start, end |-> r.end])
    <3>1. left.cuts = Cut(text, l) /\ encoded[right] = Cut(text, r)
          /\ l \in Span(text) /\ r \in Span(text)
      BY <1>2, <1>3
    <3>2. B = {p \in Cut(text, l) : p <= r.start} \union {p \in Cut(text, r) : p >= r.start}
      BY <3>1
    <3>3. \A p \in r.start .. l.end : p \in Cut(text, l) <=> p \in Cut(text, r)
      BY <2>6, <3>1
    <3> HIDE DEF B, l, r
    <3> QED
      BY <1>1, <1>7, <2>8, <3>1, <3>2, <3>3, SpliceExact
  <2> QED
    BY <1>6, <2>5, <2>7, <2>9
<1> QED
  BY <1>1, <1>2, <1>6, <1>7, <1>8, <1>9

\* A splice that two chunks agree on keeps the invariant.
LEMMA SplicePreserves ==
    ASSUME ReconciliationInv, Splice
    PROVE  ReconciliationInv'
<1>1. /\ phase = "advancing" /\ right \in DOMAIN ranges /\ Agreement
      /\ UNCHANGED <<text, chunkSize, from, ranges, encoded, pending, enlargements>>
  BY DEF Splice
<1>2. /\ Spliced.span \in Span(text)
      /\ Spliced.span = [start |-> 0, end |-> ranges[right].end]
      /\ Spliced.cuts = Cut(text, Spliced.span)
      /\ Divides(Spliced.cuts, Spliced.span)
      /\ right \in Nat /\ Len(ranges) \in Nat /\ right > 1
  BY <1>1, JoinFacts
<1>3. left' = Spliced /\ right' = right + 1 /\ phase' = "advancing"
  BY <1>1, <1>2 DEF Splice
<1>4. ranges \in Seq(Span(text)) /\ DOMAIN ranges = 1 .. Len(ranges) /\ right <= Len(ranges)
      /\ text \in Text /\ Size(text) \in Nat
  BY <1>1, <1>2, SizeAssumption DEF ReconciliationInv, TypeOK
<1>5. TypeOK'
  <2>1. Spliced \in ChunkType(text)
    <3>1. Spliced = [span |-> Spliced.span, cuts |-> Spliced.cuts]
      BY DEF Spliced
    <3>2. Spliced.cuts \in SUBSET (0 .. Size(text))
      BY <1>2, <1>4 DEF Divides, Span
    <3> QED
      BY <1>2, <3>1, <3>2 DEF ChunkType
  <2> QED
    BY <1>1, <1>2, <1>3, <2>1 DEF ReconciliationInv, TypeOK
<1>6. PlanInv' /\ RangesOverlap'
  BY <1>1, <1>3 DEF ReconciliationInv, PlanInv, RangesOverlap
<1>7. NothingDropped'
  <2>1. right' - 1 = right
    BY <1>2, <1>3
  <2> QED
    BY <1>1, <1>2, <1>3, <2>1 DEF NothingDropped
<1>8. JoinInv' /\ CountInv'
  BY <1>1, <1>2, <1>3, <1>4 DEF ReconciliationInv, TypeOK, JoinInv, CountInv, Joining
<1> QED
  BY <1>1, <1>4, <1>5, <1>6, <1>7, <1>8 DEF ReconciliationInv

\* A failed splice asks for a larger chunk and keeps the invariant.
LEMMA EnlargePreserves ==
    ASSUME ReconciliationInv, Enlarge
    PROVE  ReconciliationInv'
<1>1. /\ phase = "advancing" /\ right \in DOMAIN ranges
      /\ pending' = [start |-> left.span.start, end |-> Larger(ranges[right].end, left.span.end)]
      /\ left' = NoChunk /\ right' = right + 1 /\ enlargements' = enlargements + 1
      /\ phase' = "enlarging"
      /\ UNCHANGED <<text, chunkSize, from, ranges, encoded>>
  BY DEF Enlarge
<1>2. /\ ranges[right] \in Span(text) /\ left.span \in Span(text)
      /\ left.span.start = 0 /\ left.span.end < ranges[right].end
      /\ right \in Nat /\ Len(ranges) \in Nat /\ right > 1
  BY <1>1, JoinFacts DEF ReconciliationInv, JoinInv
<1>3. ranges \in Seq(Span(text)) /\ right <= Len(ranges) /\ text \in Text /\ Size(text) \in Nat
  BY <1>1, <1>2, SizeAssumption DEF ReconciliationInv, TypeOK
<1>4. pending' = [start |-> 0, end |-> ranges[right].end] /\ pending' \in Span(text)
  BY <1>1, <1>2, <1>3 DEF Larger, Span
<1>5. TypeOK'
  BY <1>1, <1>2, <1>4 DEF ReconciliationInv, TypeOK, Phase, NoChunk, ChunkType
<1>6. PlanInv' /\ RangesOverlap'
  BY <1>1 DEF ReconciliationInv, PlanInv, RangesOverlap, Planned
<1>7. NothingDropped'
  <2>1. right' - 1 = right
    BY <1>1, <1>2
  <2> QED
    BY <1>1, <1>4, <2>1 DEF NothingDropped
<1>8. JoinInv' /\ CountInv'
  BY <1>1, <1>2, <1>3, <1>4 DEF ReconciliationInv, TypeOK, JoinInv, CountInv, Joining
<1> QED
  BY <1>1, <1>3, <1>5, <1>6, <1>7, <1>8 DEF ReconciliationInv

\* Taking the answer for an enlarged chunk keeps the invariant.
LEMMA EnlargedPreserves ==
    ASSUME ReconciliationInv, AcceptEnlargement
    PROVE  ReconciliationInv'
<1>1. /\ phase = "enlarging" /\ pending' = NoSpan
      /\ UNCHANGED <<text, chunkSize, from, ranges, encoded, right, enlargements>>
  BY DEF AcceptEnlargement
<1>2. /\ pending \in Span(text) /\ text \in Text
      /\ pending = [start |-> 0, end |-> ranges[right - 1].end]
      /\ right \in 2 .. Len(ranges) + 1 /\ Len(ranges) \in Nat /\ enlargements \in Nat
      /\ enlargements + 2 <= right
  BY <1>1 DEF ReconciliationInv, TypeOK, NothingDropped, JoinInv, CountInv, Joining
<1>3. PICK cuts \in Answer(pending) :
          IF Divides(cuts, pending)
          THEN left' = [span |-> pending, cuts |-> cuts] /\ phase' = "advancing"
          ELSE phase' = "failed" /\ UNCHANGED left
  BY DEF AcceptEnlargement
<1>4. cuts \in SUBSET (0 .. Size(text)) /\ (Divides(cuts, pending) => cuts = Cut(text, pending))
  BY <1>2, CoveringAnswer
<1>5. CASE Divides(cuts, pending)
  <2>1. left' = [span |-> pending, cuts |-> cuts] /\ phase' = "advancing"
        /\ cuts = Cut(text, pending)
    BY <1>3, <1>4, <1>5
  <2>2. TypeOK'
    BY <1>1, <1>2, <1>4, <2>1 DEF ReconciliationInv, TypeOK, Phase, ChunkType
  <2>3. PlanInv' /\ RangesOverlap' /\ NothingDropped' /\ CountInv'
    BY <1>1, <1>2, <2>1
    DEF ReconciliationInv, PlanInv, RangesOverlap, NothingDropped, CountInv, Planned, Joining
  <2>4. JoinInv'
    BY <1>1, <1>2, <2>1 DEF ReconciliationInv, JoinInv, Joining
  <2> QED
    BY <1>1, <1>2, <2>2, <2>3, <2>4 DEF ReconciliationInv
<1>6. CASE ~ Divides(cuts, pending)
  <2>1. phase' = "failed" /\ left' = left
    BY <1>3, <1>6
  <2>2. TypeOK'
    BY <1>1, <2>1 DEF ReconciliationInv, TypeOK, Phase
  <2>3. PlanInv' /\ RangesOverlap' /\ NothingDropped' /\ JoinInv' /\ CountInv'
    BY <1>1, <1>2, <2>1
    DEF ReconciliationInv, PlanInv, RangesOverlap, NothingDropped, JoinInv, CountInv, Planned, Joining
  <2> QED
    BY <1>1, <1>2, <2>2, <2>3 DEF ReconciliationInv
<1> QED
  BY <1>5, <1>6

\* The steps that only change the phase.
LEMMA PhasePreserves ==
    ASSUME ReconciliationInv, PlanRefused \/ EncoderFails \/ Finish \/ UNCHANGED reconciliation
    PROVE  ReconciliationInv'
<1>1. UNCHANGED <<text, chunkSize, from, ranges, encoded, left, right, pending, enlargements>>
  BY DEF PlanRefused, EncoderFails, Finish, reconciliation
<1>2. CASE PlanRefused \/ EncoderFails
  <2>1. phase' = "failed" /\ phase \in {"planning", "encoding", "enlarging"}
    BY <1>2 DEF PlanRefused, EncoderFails
  <2>2. enlargements = 0 \/ enlargements < Len(ranges)
    BY <2>1 DEF ReconciliationInv, TypeOK, JoinInv, CountInv, Joining
  <2> QED
    BY <1>1, <2>1, <2>2
    DEF ReconciliationInv, TypeOK, Phase, PlanInv, RangesOverlap, NothingDropped, JoinInv, CountInv,
        Planned, Joining
<1>3. CASE Finish
  <2>1. phase' = "finished" /\ phase = "advancing" /\ right \notin DOMAIN ranges
    BY <1>3 DEF Finish
  <2>2. right = Len(ranges) + 1
    BY <2>1 DEF ReconciliationInv, TypeOK, JoinInv, Joining
  <2> QED
    BY <1>1, <2>1, <2>2
    DEF ReconciliationInv, TypeOK, Phase, PlanInv, RangesOverlap, NothingDropped, JoinInv, CountInv,
        Planned, Joining
<1>4. CASE UNCHANGED reconciliation
  BY <1>1, <1>4
  DEF ReconciliationInv, TypeOK, PlanInv, RangesOverlap, NothingDropped, JoinInv, CountInv, reconciliation, Answer
<1> QED
  BY <1>2, <1>3, <1>4

(***************************************************************************)
(* The invariant, and what follows from it                                 *)
(***************************************************************************)
LEMMA Initially == ReconciliationInit => ReconciliationInv
<1> SUFFICES ASSUME ReconciliationInit PROVE ReconciliationInv
  OBVIOUS
<1>1. text \in Text /\ Size(text) \in Nat /\ IsEdge(text, 0)
  BY SizeAssumption, EdgeAssumption DEF ReconciliationInit
<1>2. TypeOK
  BY <1>1 DEF ReconciliationInit, TypeOK, Phase, NoChunk, NoSpan, ChunkType
<1> QED
  BY <1>1, <1>2
  DEF ReconciliationInit, ReconciliationInv, PlanInv, RangesOverlap, NothingDropped, JoinInv, CountInv, Planned, Joining

\* Every step keeps the invariant.
LEMMA Inductive == ReconciliationInv /\ [ReconciliationNext]_reconciliation => ReconciliationInv'
<1> SUFFICES ASSUME ReconciliationInv, [ReconciliationNext]_reconciliation PROVE ReconciliationInv'
  OBVIOUS
<1>1. CASE PlanRefused
  BY <1>1, PhasePreserves
<1>2. CASE PlanLast \/ PlanNext \/ PlanStuck
  BY <1>2, PlanPreserves
<1>3. ASSUME NEW k \in DOMAIN ranges, EncodeInitial(k) PROVE ReconciliationInv'
  BY <1>3, EncodePreserves
<1>4. CASE EncoderFails
  BY <1>4, PhasePreserves
<1>5. CASE AcceptInitial
  BY <1>5, AcceptPreserves
<1>6. CASE Splice
  BY <1>6, SplicePreserves
<1>7. CASE Enlarge
  BY <1>7, EnlargePreserves
<1>8. CASE AcceptEnlargement
  BY <1>8, EnlargedPreserves
<1>9. CASE Finish
  BY <1>9, PhasePreserves
<1>10. CASE Ended \/ UNCHANGED reconciliation
  BY <1>10, PhasePreserves DEF Ended
<1> QED
  BY <1>1, <1>2, <1>3, <1>4, <1>5, <1>6, <1>7, <1>8, <1>9, <1>10 DEF ReconciliationNext

\* The invariant holds in every reachable state.
LEMMA Invariance == Reconciliation => []ReconciliationInv
BY Initially, Inductive, PTL DEF Reconciliation

\* The state of a pretoken's chunked encoding keeps its types.
THEOREM TypeCorrect == Reconciliation => []TypeOK
<1>1. ReconciliationInv => TypeOK
  BY DEF ReconciliationInv
<1> QED
  BY <1>1, Invariance, PTL

\* Neighbouring ranges of chunk_ranges overlap by Omega at least, and reach the end.
THEOREM Overlapping == Reconciliation => []RangesOverlap
<1>1. ReconciliationInv => RangesOverlap
  BY DEF ReconciliationInv
<1> QED
  BY <1>1, Invariance, PTL

\* OverlapReconciliation drops no byte and covers none twice.
THEOREM Complete == Reconciliation => []NothingDropped
<1>1. ReconciliationInv => NothingDropped
  BY DEF ReconciliationInv
<1> QED
  BY <1>1, Invariance, PTL

\* A pretoken is encoded again less often than it has ranges.
THEOREM Bounded == Reconciliation => []EnlargementsBounded
<1>1. ReconciliationInv => EnlargementsBounded
  BY DEF ReconciliationInv, TypeOK, JoinInv, CountInv, EnlargementsBounded, Joining
<1> QED
  BY <1>1, Invariance, PTL

\* What finish() returns is the encoding of the whole pretoken: for every pretoken,
\* chunk size and Omega, however many ranges there are and however they were joined.
THEOREM Exact == Reconciliation => []ChunkedIsExact
<1>1. ASSUME ReconciliationInv PROVE ChunkedIsExact
  <2> SUFFICES ASSUME phase = "finished" PROVE left.cuts = Cut(text, Whole(text))
    BY DEF ChunkedIsExact
  <2>1. /\ right = Len(ranges) + 1 /\ Len(ranges) \in Nat
        /\ left.span = [start |-> 0, end |-> ranges[right - 1].end]
        /\ ranges[Len(ranges)].end = Size(text)
        /\ left.cuts = Cut(text, left.span)
    BY <1>1 DEF ReconciliationInv, TypeOK, JoinInv, NothingDropped, RangesOverlap
  <2>2. right - 1 = Len(ranges)
    BY <2>1
  <2> QED
    BY <2>1, <2>2 DEF Whole
<1> QED
  BY <1>1, Invariance, PTL
(***************************************************************************)
(*                          Lazy encodings                                 *)
(***************************************************************************)


\* What an element of an array may be.
Value == U32 \union Written

IsArray(a) ==
    /\ a = [items |-> a.items, length |-> a.length, extensible |-> a.extensible, frozen |-> a.frozen]
    /\ a.length \in Nat /\ a.extensible \in BOOLEAN /\ a.frozen \in BOOLEAN
    /\ DOMAIN a.items \in SUBSET (0 .. a.length - 1)
    /\ a.items \in [DOMAIN a.items -> Value]

HoldsOnly(a, S) == \A i \in DOMAIN a.items : a.items[i] \in S

\* Until the ids are copied nobody has written to them, nor prevented it.
IsLazy(l) ==
    /\ l = [backing |-> l.backing, materialized |-> l.materialized, dirty |-> l.dirty,
            reads |-> l.reads, target |-> l.target]
    /\ l.backing \in Seq(U32) /\ l.materialized \in BOOLEAN /\ l.dirty \in BOOLEAN /\ l.reads \in Nat
    /\ IsArray(l.target)
    /\ ~l.materialized => ~l.dirty /\ l.target = Array(<<>>)
    /\ ~l.dirty /\ l.materialized => HoldsOnly(l.target, U32)

(***************************************************************************)
(* Arrays                                                                  *)
(***************************************************************************)

\* An array made of elements.
LEMMA ArrayIsArray ==
    ASSUME NEW s \in Seq(Value \union {Undefined})
    PROVE  /\ IsArray(Array(s)) /\ Array(s).length = Len(s)
           /\ Array(s).extensible = TRUE /\ Array(s).frozen = FALSE
           /\ DOMAIN Array(s).items = {i \in 0 .. Len(s) - 1 : s[i + 1] # Undefined}
           /\ \A i \in DOMAIN Array(s).items : Array(s).items[i] = s[i + 1]
<1>1. PICK D : D = {i \in 0 .. Len(s) - 1 : s[i + 1] # Undefined}
  OBVIOUS
<1>2. PICK f : f = [i \in D |-> s[i + 1]]
  OBVIOUS
<1>3. Array(s) = [items |-> f, length |-> Len(s), extensible |-> TRUE, frozen |-> FALSE]
  BY <1>1, <1>2, Zenon DEF Array
<1>4. \A i \in D : i + 1 \in 1 .. Len(s) /\ s[i + 1] # Undefined
  BY <1>1
<1>5. \A i \in D : s[i + 1] \in Value
  BY <1>4
<1>6. f \in [D -> Value] /\ D \in SUBSET (0 .. Len(s) - 1)
  BY <1>1, <1>2, <1>5
<1> QED
  BY <1>1, <1>2, <1>3, <1>6 DEF IsArray

\* An array of ids has no holes.
LEMMA ArrayOfIds ==
    ASSUME NEW s \in Seq(U32)
    PROVE  /\ IsArray(Array(s)) /\ Array(s).length = Len(s)
           /\ Array(s).extensible = TRUE /\ Array(s).frozen = FALSE
           /\ DOMAIN Array(s).items = 0 .. Len(s) - 1
           /\ \A i \in 0 .. Len(s) - 1 : Array(s).items[i] = s[i + 1] /\ s[i + 1] \in U32
<1>1. s \in Seq(Value \union {Undefined})
  <2>1. \A k \in 1 .. Len(s) : s[k] \in Value \union {Undefined}
    BY DEF Value
  <2> QED
    BY <2>1
<1>2. \A i \in 0 .. Len(s) - 1 : i + 1 \in 1 .. Len(s) /\ s[i + 1] \in U32 /\ s[i + 1] # Undefined
  <2>1. \A i \in 0 .. Len(s) - 1 : i + 1 \in 1 .. Len(s)
    OBVIOUS
  <2>2. \A k \in 1 .. Len(s) : s[k] \in U32
    OBVIOUS
  <2> QED
    BY <2>1, <2>2, IdsAssumption
<1>3. {i \in 0 .. Len(s) - 1 : s[i + 1] # Undefined} = 0 .. Len(s) - 1
  BY <1>2
<1> QED
  BY <1>1, <1>2, <1>3, ArrayIsArray

\* The elements of an array, one for each index below its length.
LEMMA ElementsOf ==
    ASSUME NEW a, IsArray(a)
    PROVE  /\ Elements(a) \in Seq(Value \union {Undefined}) /\ Len(Elements(a)) = a.length
           /\ \A k \in 1 .. a.length : Elements(a)[k] = Element(a, k - 1)
<1>1. PICK n \in Nat : n = a.length
  BY DEF IsArray
<1>2. \A k \in 1 .. n : Element(a, k - 1) \in Value \union {Undefined}
  BY DEF Element, IsArray
<1>3. Elements(a) = [k \in 1 .. n |-> Element(a, k - 1)]
  BY <1>1 DEF Elements
<1> QED
  BY <1>1, <1>2, <1>3

\* Two arrays are the same if their parts are.
LEMMA SameArray ==
    ASSUME NEW a, NEW b, IsArray(a), IsArray(b), a.length = b.length, a.extensible = b.extensible,
           a.frozen = b.frozen, DOMAIN a.items = DOMAIN b.items,
           \A i \in DOMAIN a.items : a.items[i] = b.items[i]
    PROVE  a = b
<1>1. a.items = b.items
  BY DEF IsArray
<1> QED
  BY <1>1, Zenon DEF IsArray

\* An array without holes is made of its elements.
LEMMA ArrayOfElements ==
    ASSUME NEW a, IsArray(a), NEW s, s = Elements(a), \A k \in DOMAIN s : s[k] # Undefined
    PROVE  /\ DOMAIN a.items = 0 .. a.length - 1 /\ Array(s) = TokensOf(a)
           /\ \A i \in DOMAIN a.items : i + 1 \in DOMAIN s /\ s[i + 1] = a.items[i]
           /\ \A k \in DOMAIN s : k - 1 \in DOMAIN a.items /\ s[k] = a.items[k - 1]
<1>1. PICK n \in Nat : n = a.length
  BY DEF IsArray
<1>2. s \in Seq(Value \union {Undefined}) /\ Len(s) = n /\ DOMAIN s = 1 .. n
      /\ \A k \in 1 .. n : s[k] = Element(a, k - 1)
  BY <1>1, ElementsOf
<1>3. \A i \in 0 .. n - 1 : i + 1 \in 1 .. n /\ (i + 1) - 1 = i
  OBVIOUS
<1>4. \A i \in 0 .. n - 1 : s[i + 1] = Element(a, i) /\ s[i + 1] # Undefined
  BY <1>2, <1>3
<1>5. \A i \in 0 .. n - 1 : i \in DOMAIN a.items /\ s[i + 1] = a.items[i]
  BY <1>4 DEF Element
<1>6. DOMAIN a.items = 0 .. n - 1
  BY <1>1, <1>5 DEF IsArray
<1>7. PICK t : t = TokensOf(a)
  OBVIOUS
<1>8. t = [items |-> a.items, length |-> n, extensible |-> TRUE, frozen |-> FALSE]
  BY <1>1, <1>7 DEF TokensOf, IsArray
<1>9. IsArray(t)
  BY <1>1, <1>8 DEF IsArray
<1>10. IsArray(Array(s)) /\ Array(s).length = n /\ Array(s).extensible = TRUE /\ Array(s).frozen = FALSE
       /\ DOMAIN Array(s).items = {i \in 0 .. n - 1 : s[i + 1] # Undefined}
       /\ \A i \in DOMAIN Array(s).items : Array(s).items[i] = s[i + 1]
  BY <1>2, ArrayIsArray
<1>11. DOMAIN Array(s).items = 0 .. n - 1
  BY <1>4, <1>10
<1>12. Array(s) = t
  <2>1. PICK b : b = Array(s)
    OBVIOUS
  <2>2. IsArray(b) /\ b.length = n /\ b.extensible = TRUE /\ b.frozen = FALSE /\ DOMAIN b.items = 0 .. n - 1
        /\ \A i \in DOMAIN b.items : b.items[i] = a.items[i]
    BY <1>5, <1>10, <1>11, <2>1
  <2>3. t.length = n /\ t.extensible = TRUE /\ t.frozen = FALSE /\ t.items = a.items
    BY <1>8
  <2>4. b = t
    BY <1>6, <1>9, <2>2, <2>3, SameArray
  <2> QED
    BY <2>1, <2>4
<1>13. \A k \in 1 .. n : k - 1 \in 0 .. n - 1 /\ (k - 1) + 1 = k
  OBVIOUS
<1>14. \A k \in 1 .. n : k - 1 \in DOMAIN a.items /\ s[k] = a.items[k - 1]
  BY <1>5, <1>13
<1> QED
  BY <1>1, <1>2, <1>3, <1>5, <1>6, <1>7, <1>12, <1>14

\* What is done to an array leaves one.
LEMMA AfterIsArray ==
    ASSUME NEW a, IsArray(a), NEW op, op.index \in Nat,
           op.name \in {"set", "define"} => op.value \in Value
    PROVE  IsArray(After(a, op))
<1>1. PICK n \in Nat : n = a.length
  BY DEF IsArray
<1>2. CASE op.name \in {"set", "define"}
  <2>1. PICK i \in Nat, v \in Value : i = op.index /\ v = op.value
    BY <1>2
  <2>2. CASE ~MayPut(a, i)
    BY <1>2, <2>1, <2>2 DEF After, Put
  <2>3. CASE MayPut(a, i)
    <3>1. PICK f : f = [k \in DOMAIN a.items \union {i} |-> IF k = i THEN v ELSE a.items[k]]
      OBVIOUS
    <3>2. PICK m \in Nat : m = IF i < n THEN n ELSE i + 1
      OBVIOUS
    <3>3. After(a, op) = [items |-> f, length |-> m, extensible |-> a.extensible, frozen |-> a.frozen]
      BY <1>1, <1>2, <2>1, <2>3, <3>1, <3>2 DEF After, Put, IsArray
    <3>4. DOMAIN f \in SUBSET (0 .. m - 1)
      BY <1>1, <3>1, <3>2 DEF IsArray
    <3>5. f \in [DOMAIN f -> Value]
      BY <3>1 DEF IsArray
    <3> QED
      BY <3>3, <3>4, <3>5 DEF IsArray
  <2> QED
    BY <2>2, <2>3
<1>3. CASE op.name = "delete"
  <2>1. PICK i \in Nat : i = op.index
    OBVIOUS
  <2>2. CASE a.frozen
    BY <1>3, <2>1, <2>2 DEF After, Drop
  <2>3. CASE ~a.frozen
    <3>1. PICK f : f = [k \in DOMAIN a.items \ {i} |-> a.items[k]]
      OBVIOUS
    <3>2. After(a, op) = [items |-> f, length |-> n, extensible |-> a.extensible, frozen |-> a.frozen]
      BY <1>1, <1>3, <2>1, <2>3, <3>1 DEF After, Drop, IsArray
    <3> QED
      BY <1>1, <3>1, <3>2 DEF IsArray
  <2> QED
    BY <2>2, <2>3
<1>4. CASE op.name = "resize"
  <2>1. PICK i \in Nat : i = op.index
    OBVIOUS
  <2>2. CASE a.frozen
    BY <1>4, <2>1, <2>2 DEF After, Resize
  <2>3. CASE ~a.frozen
    <3>1. PICK f : f = [k \in {k \in DOMAIN a.items : k < i} |-> a.items[k]]
      OBVIOUS
    <3>2. After(a, op) = [items |-> f, length |-> i, extensible |-> a.extensible, frozen |-> a.frozen]
      BY <1>4, <2>1, <2>3, <3>1 DEF After, Resize, IsArray
    <3>3. DOMAIN f \in SUBSET (0 .. i - 1)
      BY <1>1, <3>1 DEF IsArray
    <3> QED
      BY <3>1, <3>2, <3>3 DEF IsArray
  <2> QED
    BY <2>2, <2>3
<1>5. CASE op.name = "preventExtensions"
  BY <1>5 DEF After, Inextensible, IsArray
<1>6. CASE op.name = "freeze"
  BY <1>6 DEF After, Frozen, IsArray
<1>7. CASE op.name \notin {"set", "define", "delete", "resize", "preventExtensions", "freeze"}
  BY <1>7 DEF After
<1> QED
  BY <1>2, <1>3, <1>4, <1>5, <1>6, <1>7

(***************************************************************************)
(* The ids, copied or not                                                  *)
(***************************************************************************)

\* What is seen of them.
LEMMA Sees ==
    ASSUME NEW l, IsLazy(l)
    PROVE  /\ Visible(l) = IF l.materialized THEN l.target ELSE Array(l.backing)
           /\ IsArray(Visible(l))
           /\ ~l.dirty => HoldsOnly(Visible(l), U32)
<1>1. CASE l.materialized
  BY <1>1 DEF Visible, IsLazy
<1>2. CASE ~l.materialized
  <2>1. PICK a : a = Array(l.backing)
    OBVIOUS
  <2>2. l.backing \in Seq(U32) /\ l.target = Array(<<>>) /\ <<>> \in Seq(U32)
    BY <1>2 DEF IsLazy
  <2>3. l.target.extensible = TRUE /\ l.target.frozen = FALSE
    BY <2>2, ArrayOfIds
  <2>4. IsArray(a) /\ a.extensible = TRUE /\ a.frozen = FALSE /\ HoldsOnly(a, U32)
    BY <2>1, <2>2, ArrayOfIds DEF HoldsOnly
  <2>5. [a EXCEPT !.extensible = TRUE, !.frozen = FALSE] = a
    BY <2>4 DEF IsArray
  <2>6. Visible(l) = a
    BY <1>2, <2>1, <2>3, <2>5 DEF Visible
  <2> QED
    BY <1>2, <2>1, <2>4, <2>6
<1> QED
  BY <1>1, <1>2

\* Copying them changes nothing of it.
LEMMA MaterializeSees ==
    ASSUME NEW l, IsLazy(l)
    PROVE  /\ IsLazy(Materialize(l)) /\ Materialize(l).materialized = TRUE
           /\ Materialize(l).target = Visible(l) /\ Visible(Materialize(l)) = Visible(l)
           /\ Materialize(l).dirty = l.dirty
<1>1. CASE l.materialized
  BY <1>1, Sees DEF Materialize, IsLazy
<1>2. CASE ~l.materialized
  <2>1. PICK a : a = Array(l.backing)
    OBVIOUS
  <2>2. l.backing \in Seq(U32) /\ l.target = Array(<<>>) /\ <<>> \in Seq(U32) /\ ~l.dirty
    BY <1>2 DEF IsLazy
  <2>3. l.target.extensible = TRUE /\ l.target.frozen = FALSE /\ IsArray(l.target)
    BY <2>2, ArrayOfIds
  <2>4. IsArray(a) /\ a.extensible = TRUE /\ a.frozen = FALSE /\ HoldsOnly(a, U32)
        /\ a.length = Len(l.backing)
    BY <2>1, <2>2, ArrayOfIds DEF HoldsOnly
  <2>5. [l.target EXCEPT !.items = a.items, !.length = Len(l.backing)] = a
    BY <2>3, <2>4 DEF IsArray
  <2>6. Materialize(l) = [backing |-> <<>>, materialized |-> TRUE, dirty |-> l.dirty, reads |-> l.reads,
                          target |-> [l.target EXCEPT !.items = a.items, !.length = Len(l.backing)]]
    BY <1>2, <2>1 DEF Materialize, IsLazy
  <2>7. PICK m : m = Materialize(l)
    OBVIOUS
  <2>8. m = [backing |-> <<>>, materialized |-> TRUE, dirty |-> l.dirty, reads |-> l.reads, target |-> a]
    BY <2>5, <2>6, <2>7
  <2>9. IsLazy(m)
    BY <2>2, <2>4, <2>8 DEF IsLazy
  <2>10. Visible(l) = a /\ Visible(m) = a
    BY <1>2, <2>1, <2>8, <2>9, Sees
  <2> QED
    BY <2>7, <2>8, <2>9, <2>10
<1> QED
  BY <1>1, <1>2

\* What m shows is what l does, and m is as clean and no less copied.
SameIds(l, m) == IsLazy(m) /\ Visible(m) = Visible(l) /\ m.dirty = l.dirty /\ (l.materialized => m.materialized)

\* Marking them dirty changes nothing of it either, and after that they may be written to.
LEMMA MarkDirtySees ==
    ASSUME NEW l, IsLazy(l)
    PROVE  /\ IsLazy(MarkDirty(l)) /\ MarkDirty(l).materialized = TRUE /\ MarkDirty(l).dirty = TRUE
           /\ MarkDirty(l).target = Visible(l) /\ Visible(MarkDirty(l)) = Visible(l)
<1>1. PICK m : m = Materialize(l) /\ IsLazy(m) /\ m.materialized = TRUE /\ m.target = Visible(l)
  BY MaterializeSees
<1>2. PICK d : d = MarkDirty(l)
  OBVIOUS
<1>3. d = [backing |-> m.backing, materialized |-> TRUE, dirty |-> TRUE, reads |-> m.reads, target |-> m.target]
  BY <1>1, <1>2 DEF MarkDirty, IsLazy
<1>4. IsLazy(d)
  BY <1>1, <1>3 DEF IsLazy
<1>5. Visible(d) = d.target
  BY <1>3, <1>4, Sees
<1> QED
  BY <1>1, <1>2, <1>3, <1>4, <1>5

\* A read counted.
LEMMA CountedSees ==
    ASSUME NEW l, IsLazy(l), NEW n \in Nat
    PROVE  SameIds(l, [l EXCEPT !.reads = n]) /\ [l EXCEPT !.reads = n].backing = l.backing
<1>1. PICK m : m = [l EXCEPT !.reads = n]
  OBVIOUS
<1>2. m = [backing |-> l.backing, materialized |-> l.materialized, dirty |-> l.dirty, reads |-> n, target |-> l.target]
  BY <1>1 DEF IsLazy
<1>3. IsLazy(m)
  BY <1>2 DEF IsLazy
<1>4. Visible(m) = Visible(l)
  BY <1>2, <1>3, Sees
<1> QED
  BY <1>1, <1>2, <1>3, <1>4 DEF SameIds

\* Before they are copied, there is nothing in the target.
LEMMA Uncopied ==
    ASSUME NEW l, IsLazy(l), ~l.materialized
    PROVE  /\ DOMAIN l.target.items = {} /\ l.backing \in Seq(U32)
           /\ Visible(l).length = Len(l.backing) /\ DOMAIN Visible(l).items = 0 .. Len(l.backing) - 1
           /\ \A i \in 0 .. Len(l.backing) - 1 : Visible(l).items[i] = l.backing[i + 1]
           /\ Visible(l).extensible = TRUE /\ Visible(l).frozen = FALSE
<1>1. l.target = Array(<<>>) /\ l.backing \in Seq(U32) /\ Visible(l) = Array(l.backing)
  BY Sees DEF IsLazy
<1>2. DOMAIN Array(<<>>).items = {}
  <2>1. PICK s \in Seq(U32) : s = <<>> /\ Len(s) = 0
    BY EmptySeq
  <2>2. DOMAIN Array(s).items = 0 .. Len(s) - 1
    BY ArrayOfIds
  <2>3. 0 .. 0 - 1 = {}
    OBVIOUS
  <2> QED
    BY <2>1, <2>2, <2>3, Zenon
<1>3. PICK s \in Seq(U32) : s = l.backing
  BY <1>1
<1>4. /\ Array(s).length = Len(s) /\ DOMAIN Array(s).items = 0 .. Len(s) - 1
      /\ \A i \in 0 .. Len(s) - 1 : Array(s).items[i] = s[i + 1]
      /\ Array(s).extensible = TRUE /\ Array(s).frozen = FALSE
  BY ArrayOfIds
<1> QED
  BY <1>1, <1>2, <1>3, <1>4, Zenon

\* An element that is asked for is found as it is seen.
LEMMA GetSees ==
    ASSUME NEW l, IsLazy(l), NEW i \in Nat
    PROVE  SameIds(l, GetTrap(l, i).lazy) /\ GetTrap(l, i).value = Element(Visible(l), i)
<1>1. PICK read : read = [l EXCEPT !.reads = l.reads + 1]
  OBVIOUS
<1>2. SameIds(l, read)
  <2>1. l.reads + 1 \in Nat
    BY DEF IsLazy
  <2> QED
    BY <1>1, <2>1, CountedSees
<1>3. CASE l.materialized
  <2>1. GetTrap(l, i) = Result(l, Element(l.target, i))
    BY <1>3 DEF GetTrap
  <2> QED
    BY <1>3, <2>1, Sees DEF Result, SameIds
<1>4. CASE ~l.materialized /\ i >= Len(l.backing)
  <2>1. GetTrap(l, i) = Result(l, Element(l.target, i))
    BY <1>4 DEF GetTrap
  <2>2. DOMAIN l.target.items = {} /\ DOMAIN Visible(l).items = 0 .. Len(l.backing) - 1
        /\ Len(l.backing) \in Nat
    <3>1. DOMAIN l.target.items = {} /\ DOMAIN Visible(l).items = 0 .. Len(l.backing) - 1
      BY <1>4, Uncopied, Zenon
    <3>2. Len(l.backing) \in Nat
      BY DEF IsLazy
    <3> QED
      BY <3>1, <3>2
  <2>3. i \notin DOMAIN Visible(l).items
    BY <1>4, <2>2
  <2> QED
    BY <2>1, <2>2, <2>3 DEF Result, SameIds, Element
<1>5. CASE ~l.materialized /\ i < Len(l.backing)
  <2>1. PICK m : m = IF read.reads >= MaterializeAfterReads THEN Materialize(read) ELSE read
    OBVIOUS
  <2>2. GetTrap(l, i) = Result(m, l.backing[i + 1])
    BY <1>1, <1>5, <2>1 DEF GetTrap
  <2>3. SameIds(l, m)
    BY <1>2, <2>1, MaterializeSees DEF SameIds
  <2>4. l.backing \in Seq(U32) /\ i \in 0 .. Len(l.backing) - 1
    BY <1>5 DEF IsLazy
  <2>5. i \in DOMAIN Visible(l).items /\ Visible(l).items[i] = l.backing[i + 1]
    BY <1>5, <2>4, Uncopied
  <2> QED
    BY <2>2, <2>3, <2>5 DEF Result, Element
<1> QED
  <2>1. Len(l.backing) \in Nat
    BY DEF IsLazy
  <2> QED
    BY <1>3, <1>4, <1>5, <2>1

\* So are the length, an index and an element's description.
LEMMA TrapsSee ==
    ASSUME NEW l, IsLazy(l)
    PROVE  /\ LengthTrap(l) = Visible(l).length
           /\ \A i \in Nat : HasTrap(l, i) <=> i \in DOMAIN Visible(l).items
           /\ \A i \in Nat : DescribeTrap(l, i) = Element(Visible(l), i)
<1>1. CASE l.materialized
  BY <1>1, Sees DEF LengthTrap, HasTrap, DescribeTrap
<1>2. CASE ~l.materialized
  <2>1. Len(l.backing) \in Nat
    BY DEF IsLazy
  <2>2. DOMAIN l.target.items = {}
    BY <1>2, Uncopied
  <2>3. PICK a, n : a = Visible(l) /\ n = Len(l.backing) /\ n \in Nat
    BY <2>1
  <2>4. a.length = n /\ DOMAIN a.items = 0 .. n - 1 /\ \A i \in 0 .. n - 1 : a.items[i] = l.backing[i + 1]
    BY <1>2, <2>3, Uncopied
  <2>5. ASSUME NEW i \in Nat
        PROVE  (HasTrap(l, i) <=> i \in DOMAIN a.items) /\ DescribeTrap(l, i) = Element(a, i)
    <3>1. CASE i < n
      <4>1. i \in 0 .. n - 1
        BY <2>3, <3>1
      <4> QED
        BY <1>2, <2>3, <2>4, <3>1, <4>1 DEF HasTrap, DescribeTrap, Element
    <3>2. CASE ~(i < n)
      <4>1. i \notin 0 .. n - 1
        BY <2>3, <3>2
      <4> QED
        BY <1>2, <2>2, <2>3, <2>4, <3>2, <4>1 DEF HasTrap, DescribeTrap, Element
    <3> QED
      BY <3>1, <3>2
  <2> QED
    BY <1>2, <2>3, <2>4, <2>5 DEF LengthTrap
<1> QED
  BY <1>1, <1>2

\* The arrays that the ids may be made of.
LEMMA LazyIsLazy ==
    ASSUME NEW ids \in Seq(U32)
    PROVE  /\ IsLazy(Lazy(ids)) /\ Lazy(ids).materialized = FALSE
<1>1. IsArray(Array(<<>>))
  <2>1. <<>> \in Seq(U32)
    OBVIOUS
  <2> QED
    BY <2>1, ArrayOfIds
<1> QED
  BY <1>1 DEF IsLazy, Lazy

\* And an array of the post-processor's own.
LEMMA PlainIsLazy ==
    ASSUME NEW ids \in Seq(Value \union {Undefined})
    PROVE  IsLazy(Plain(ids))
<1>1. IsArray(Array(ids))
  BY ArrayIsArray
<1>2. <<>> \in Seq(U32)
  OBVIOUS
<1> QED
  BY <1>1, <1>2 DEF IsLazy, Plain

\* What the supplier writes is seen, as if it were put there.
LEMMA SupplierSees ==
    ASSUME NEW l, IsLazy(l), ~l.materialized, NEW i \in Nat, i < Len(l.backing), NEW v \in U32
    PROVE  /\ IsLazy([l EXCEPT !.backing[i + 1] = v]) /\ ~[l EXCEPT !.backing[i + 1] = v].materialized
           /\ i \in DOMAIN Visible(l).items
           /\ Visible([l EXCEPT !.backing[i + 1] = v]).items[i] = v
           /\ Visible([l EXCEPT !.backing[i + 1] = v]) = Put(Visible(l), i, v)
<1>1. PICK b, m, c : b = l.backing /\ m = [l EXCEPT !.backing[i + 1] = v] /\ c = [b EXCEPT ![i + 1] = v]
  OBVIOUS
<1>2. b \in Seq(U32) /\ i + 1 \in 1 .. Len(b)
  BY <1>1 DEF IsLazy
<1>3. c \in Seq(U32) /\ Len(c) = Len(b) /\ c[i + 1] = v /\ \A k \in 1 .. Len(b) : k # i + 1 => c[k] = b[k]
  BY <1>1, <1>2
<1>4. m = [backing |-> c, materialized |-> l.materialized, dirty |-> l.dirty, reads |-> l.reads, target |-> l.target]
  BY <1>1 DEF IsLazy
<1>5. IsLazy(m) /\ ~m.materialized
  BY <1>3, <1>4 DEF IsLazy
<1>6. PICK x, y, n : x = Visible(l) /\ y = Visible(m) /\ n = Len(b) /\ n \in Nat
  BY <1>2
<1>7. IsArray(x) /\ x.length = n /\ DOMAIN x.items = 0 .. n - 1 /\ x.extensible = TRUE /\ x.frozen = FALSE
      /\ \A j \in 0 .. n - 1 : x.items[j] = b[j + 1]
  BY <1>1, <1>6, Sees, Uncopied
<1>8. IsArray(y) /\ y.length = n /\ DOMAIN y.items = 0 .. n - 1 /\ y.extensible = TRUE /\ y.frozen = FALSE
      /\ \A j \in 0 .. n - 1 : y.items[j] = c[j + 1]
  <2>1. m.backing = c /\ Len(c) = n
    BY <1>3, <1>4, <1>6
  <2> QED
    BY <1>5, <1>6, <2>1, Sees, Uncopied
<1>9. i \in 0 .. n - 1 /\ i < n
  BY <1>1, <1>6
<1>10. PICK z : z = Put(x, i, v)
  OBVIOUS
<1>11. MayPut(x, i)
  BY <1>7, <1>9 DEF MayPut
<1>12. PICK f : f = [k \in DOMAIN x.items \union {i} |-> IF k = i THEN v ELSE x.items[k]]
  OBVIOUS
<1>13. z = [items |-> f, length |-> n, extensible |-> TRUE, frozen |-> FALSE]
  BY <1>7, <1>9, <1>10, <1>11, <1>12 DEF Put, IsArray
<1>14. DOMAIN f = 0 .. n - 1 /\ \A j \in 0 .. n - 1 : f[j] = c[j + 1]
  <2>1. DOMAIN f = 0 .. n - 1
    BY <1>7, <1>9, <1>12
  <2>2. ASSUME NEW j \in 0 .. n - 1 PROVE f[j] = c[j + 1]
    <3>1. j + 1 \in 1 .. n /\ (j # i => j + 1 # i + 1)
      BY <1>6
    <3> QED
      BY <1>3, <1>6, <1>7, <1>12, <2>1, <3>1
  <2> QED
    BY <2>1, <2>2
<1>15. IsArray(z)
  <2>1. \A j \in 0 .. n - 1 : c[j + 1] \in Value
    BY <1>3, <1>6 DEF Value
  <2> QED
    BY <1>6, <1>12, <1>13, <1>14, <2>1 DEF IsArray
<1>16. y = z
  <2>1. \A j \in DOMAIN y.items : y.items[j] = z.items[j]
    BY <1>8, <1>13, <1>14
  <2>2. y.length = z.length /\ y.extensible = z.extensible /\ y.frozen = z.frozen /\ DOMAIN y.items = DOMAIN z.items
    BY <1>8, <1>13, <1>14
  <2> QED
    BY <1>8, <1>15, <2>1, <2>2, SameArray
<1> QED
  BY <1>1, <1>3, <1>5, <1>6, <1>7, <1>8, <1>9, <1>10, <1>16

(***************************************************************************)
(* Visiting the elements is a fold: induction, with a least counterexample *)
(***************************************************************************)

\* A set of natural numbers has a least member.
LEMMA LeastMember ==
    ASSUME NEW S \in SUBSET Nat, S # {}
    PROVE  \E m \in S : \A x \in S : m <= x
<1>1. PICK m \in S : \A x \in S : ~(<<x, m>> \in OpToRel(<, Nat))
  BY NatLessThanWellFounded, WFMin, Zenon
<1>2. ASSUME NEW x \in S PROVE m <= x
  <2>1. <<x, m>> \notin OpToRel(<, Nat)
    BY <1>1, Zenon
  <2>2. ~(x < m)
    BY <2>1 DEF OpToRel
  <2> QED
    BY <2>2
<1> QED
  BY <1>2

\* A set with 0 and with the successor of each member has every natural number.
LEMMA Induction ==
    ASSUME NEW S \in SUBSET Nat, 0 \in S, \A n \in S : n + 1 \in S
    PROVE  S = Nat
<1> SUFFICES ASSUME S # Nat PROVE FALSE
  OBVIOUS
<1>1. PICK n \in Nat \ S : \A m \in Nat \ S : n <= m
  BY LeastMember, Zenon
<1>2. n - 1 \in Nat /\ n - 1 \notin Nat \ S
  BY <1>1
<1> QED
  BY <1>1, <1>2

\* Its values when step[k] is applied for the k-th element, the last one first.
FoldsTo(g, n, base, step) ==
    \A r \in SUBSET (1 .. n) : g[r] = IF r = {} THEN base ELSE step[Max(r)][g[r \ {Max(r)}]]

\* The greatest of the first n numbers, and of some of them.
LEMMA Greatest ==
    ASSUME NEW n \in Nat \ {0}
    PROVE  /\ Max(1 .. n) = n /\ (1 .. n) \ {Max(1 .. n)} = 1 .. n - 1
           /\ \A r \in SUBSET (1 .. n) : n \in r => Max(r) = n /\ r \ {n} \in SUBSET (1 .. n - 1)
<1>1. ASSUME NEW r \in SUBSET (1 .. n), n \in r
      PROVE  Max(r) = n /\ r \ {n} \in SUBSET (1 .. n - 1)
  <2>1. n \in r /\ \A y \in r : n >= y
    BY <1>1
  <2>2. \A x \in r : (\A y \in r : x >= y) => x = n
    BY <1>1
  <2>3. Max(r) = n
    BY <2>1, <2>2, Zenon DEF Max
  <2> QED
    BY <1>1, <2>3
<1>2. 1 .. n \in SUBSET (1 .. n) /\ n \in 1 .. n /\ (1 .. n) \ {n} = 1 .. n - 1
  OBVIOUS
<1> QED
  BY <1>1, <1>2

\* A step for each element gives such a function.
LEMMA FoldExists ==
    ASSUME NEW State, NEW base \in State, NEW n \in Nat, NEW step \in [1 .. n -> [State -> State]]
    PROVE  \E g \in [SUBSET (1 .. n) -> State] : FoldsTo(g, n, base, step)
<1> DEFINE S == {m \in Nat : m <= n => \E g \in [SUBSET (1 .. m) -> State] : FoldsTo(g, m, base, step)}
<1>1. 0 \in S
  <2>1. 1 .. 0 = {}
    OBVIOUS
  <2>2. PICK g : g = [r \in SUBSET (1 .. 0) |-> base]
    BY Zenon
  <2>3. g \in [SUBSET (1 .. 0) -> State] /\ FoldsTo(g, 0, base, step)
    BY <2>1, <2>2 DEF FoldsTo
  <2> QED
    BY <2>3, Zenon
<1>2. ASSUME NEW m \in S PROVE m + 1 \in S
  <2> SUFFICES ASSUME m + 1 <= n
               PROVE  \E g \in [SUBSET (1 .. m + 1) -> State] : FoldsTo(g, m + 1, base, step)
    <3>1. m + 1 \in Nat
      BY <1>2
    <3> QED
      BY <3>1, Zenon
  <2>1. m \in Nat /\ m <= n /\ m + 1 \in 1 .. n /\ m + 1 \in Nat \ {0} /\ m + 1 - 1 = m
    OBVIOUS
  <2>2. PICK g \in [SUBSET (1 .. m) -> State] : FoldsTo(g, m, base, step)
    BY <2>1, Zenon
  <2>3. PICK h : h = [r \in SUBSET (1 .. m + 1) |-> IF m + 1 \in r THEN step[m + 1][g[r \ {m + 1}]] ELSE g[r]]
    BY Zenon
  <2>4. \A r \in SUBSET (1 .. m + 1) : m + 1 \in r => Max(r) = m + 1 /\ r \ {m + 1} \in SUBSET (1 .. m)
    BY <2>1, Greatest
  <2>5. \A r \in SUBSET (1 .. m + 1) : m + 1 \notin r => r \in SUBSET (1 .. m)
    BY <2>1
  <2>6. SUBSET (1 .. m) \subseteq SUBSET (1 .. m + 1)
    BY <2>1
  <2>7. step[m + 1] \in [State -> State]
    BY <2>1
  <2>8. \A r \in SUBSET (1 .. m + 1) : h[r] \in State
    BY <2>3, <2>4, <2>5, <2>7
  <2>9. h \in [SUBSET (1 .. m + 1) -> State]
    BY <2>3, <2>8
  <2>10. ASSUME NEW r \in SUBSET (1 .. m + 1)
         PROVE  h[r] = IF r = {} THEN base ELSE step[Max(r)][h[r \ {Max(r)}]]
    <3>1. CASE m + 1 \in r
      <4>1. Max(r) = m + 1 /\ r \ {m + 1} \in SUBSET (1 .. m) /\ r \ {m + 1} \in SUBSET (1 .. m + 1)
        BY <2>4, <2>6, <3>1
      <4>2. h[r \ {m + 1}] = g[r \ {m + 1}]
        BY <2>3, <4>1
      <4> QED
        BY <2>3, <3>1, <4>1, <4>2
    <3>2. CASE m + 1 \notin r
      <4>1. r \in SUBSET (1 .. m) /\ h[r] = g[r]
        BY <2>3, <2>5, <3>2
      <4>2. r \ {Max(r)} \in SUBSET (1 .. m) /\ r \ {Max(r)} \in SUBSET (1 .. m + 1) /\ m + 1 \notin r \ {Max(r)}
        BY <2>6, <3>2, <4>1, Zenon
      <4>3. h[r \ {Max(r)}] = g[r \ {Max(r)}]
        BY <2>3, <4>2
      <4> QED
        BY <2>2, <4>1, <4>3, Zenon DEF FoldsTo
    <3> QED
      BY <3>1, <3>2
  <2> QED
    BY <2>9, <2>10, Zenon DEF FoldsTo
<1>3. S = Nat
  <2> HIDE DEF S
  <2>1. S \in SUBSET Nat
    BY DEF S
  <2> QED
    BY <1>1, <1>2, <2>1, Induction
<1>4. n \in S
  <2> HIDE DEF S
  <2> QED
    BY <1>3
<1>5. n <= n
  OBVIOUS
<1> QED
  BY <1>4, <1>5, Zenon

\* The greatest of some numbers is one of them.
LEMMA GreatestIn ==
    ASSUME NEW n \in Nat, NEW r \in SUBSET (1 .. n), r # {}
    PROVE  Max(r) \in r
<1>1. PICK S \in SUBSET Nat : S = {n - x : x \in r}
  <2>1. \A x \in r : n - x \in Nat
    OBVIOUS
  <2> QED
    BY <2>1, Zenon
<1>2. S # {}
  BY <1>1, Zenon
<1>3. PICK m \in S : \A y \in S : m <= y
  BY <1>2, LeastMember
<1>4. PICK x \in r : m = n - x
  BY <1>1, <1>3
<1>5. \A y \in r : n - y \in S
  BY <1>1
<1>6. \A y \in r : x >= y
  BY <1>3, <1>4, <1>5
<1> QED
  BY <1>6, Zenon DEF Max

\* The first k numbers.
LEMMA FirstNumbers ==
    ASSUME NEW n \in Nat, NEW k \in 1 .. n
    PROVE  /\ 1 .. k \in SUBSET (1 .. n) /\ 1 .. k # {} /\ Max(1 .. k) = k /\ (1 .. k) \ {Max(1 .. k)} = 1 .. k - 1
           /\ 1 .. k - 1 \in SUBSET (1 .. n) /\ k - 1 \in 0 .. n /\ k \in 0 .. n
<1>1. k \in Nat \ {0}
  OBVIOUS
<1>2. Max(1 .. k) = k /\ (1 .. k) \ {Max(1 .. k)} = 1 .. k - 1
  BY <1>1, Greatest
<1>3. 1 .. k \in SUBSET (1 .. n) /\ k \in 1 .. k /\ 1 .. k - 1 \in SUBSET (1 .. n) /\ k - 1 \in 0 .. n /\ k \in 0 .. n
  OBVIOUS
<1> QED
  BY <1>2, <1>3

\* What holds of 0 and passes from each number below n to the next holds up to n.
LEMMA UpTo ==
    ASSUME NEW n \in Nat, NEW S, 0 \in S, \A k \in 0 .. n - 1 : k \in S => k + 1 \in S
    PROVE  0 .. n \subseteq S
<1>1. PICK T \in SUBSET Nat : T = {k \in Nat : k <= n => k \in S}
  BY Zenon
<1>2. 0 \in T /\ \A k \in T : k + 1 \in T
  <2>1. 0 \in T
    BY <1>1
  <2>2. ASSUME NEW k \in T PROVE k + 1 \in T
    <3>1. k + 1 \in Nat
      OBVIOUS
    <3>2. ASSUME k + 1 <= n PROVE k + 1 \in S
      <4>1. k \in 0 .. n - 1 /\ k <= n
        BY <3>2
      <4> QED
        BY <1>1, <4>1
    <3> QED
      BY <1>1, <3>1, <3>2
  <2> QED
    BY <2>1, <2>2
<1>3. T = Nat
  BY <1>2, Induction
<1> QED
  BY <1>1, <1>3

\* What the ids may have become when some were read.
Copies(l) == {[l EXCEPT !.reads = n] : n \in Nat} \union {[Materialize(l) EXCEPT !.reads = n] : n \in Nat}

\* They show the same.
LEMMA CopiesSee ==
    ASSUME NEW l, IsLazy(l)
    PROVE  l \in Copies(l) /\ \A m \in Copies(l) : SameIds(l, m)
<1>1. l = [l EXCEPT !.reads = l.reads] /\ l.reads \in Nat
  BY DEF IsLazy
<1>2. IsLazy(Materialize(l)) /\ SameIds(l, Materialize(l))
  BY MaterializeSees DEF SameIds
<1>3. ASSUME NEW n \in Nat
      PROVE  SameIds(l, [l EXCEPT !.reads = n]) /\ SameIds(l, [Materialize(l) EXCEPT !.reads = n])
  <2>1. SameIds(l, [l EXCEPT !.reads = n])
    BY CountedSees
  <2>2. PICK m : m = Materialize(l)
    OBVIOUS
  <2>3. IsLazy(m) /\ SameIds(l, m)
    BY <1>2, <2>2
  <2>4. SameIds(m, [m EXCEPT !.reads = n])
    BY <2>3, CountedSees
  <2> QED
    BY <2>1, <2>2, <2>3, <2>4 DEF SameIds
<1> QED
  BY <1>1, <1>3 DEF Copies

\* And reading on leaves one of them.
LEMMA CopiesClosed ==
    ASSUME NEW l, IsLazy(l), NEW m \in Copies(l), NEW i \in Nat
    PROVE  GetTrap(m, i).lazy \in Copies(l)
<1>1. CASE m \in {[l EXCEPT !.reads = n] : n \in Nat}
  <2>1. PICK n \in Nat : m = [l EXCEPT !.reads = n]
    BY <1>1
  <2>2. PICK k \in Nat : k = n + 1
    OBVIOUS
  <2>3. m = [backing |-> l.backing, materialized |-> l.materialized, dirty |-> l.dirty, reads |-> n, target |-> l.target]
    BY <2>1 DEF IsLazy
  <2>4. PICK r : r = [l EXCEPT !.reads = k]
    OBVIOUS
  <2>5. r = [backing |-> l.backing, materialized |-> l.materialized, dirty |-> l.dirty, reads |-> k, target |-> l.target]
        /\ [m EXCEPT !.reads = m.reads + 1] = r
    BY <2>2, <2>3, <2>4 DEF IsLazy
  <2>6. Materialize(r) = [Materialize(l) EXCEPT !.reads = k]
    <3>1. CASE l.materialized
      BY <2>4, <2>5, <3>1 DEF Materialize
    <3>2. CASE ~l.materialized
      <4>1. PICK a : a = [l.target EXCEPT !.items = Array(l.backing).items, !.length = Len(l.backing)]
        OBVIOUS
      <4>2. PICK m1, m2 : m1 = Materialize(l) /\ m2 = Materialize(r)
        OBVIOUS
      <4>3. IsLazy(r) /\ ~r.materialized
        <5>1. SameIds(l, r)
          BY <2>4, CountedSees
        <5>2. r.materialized = l.materialized
          BY <2>5
        <5> QED
          BY <3>2, <5>1, <5>2, Zenon DEF SameIds
      <4>4. m1 = [backing |-> <<>>, materialized |-> TRUE, dirty |-> l.dirty, reads |-> l.reads, target |-> a]
        BY <3>2, <4>1, <4>2 DEF Materialize, IsLazy
      <4>5. m2 = [backing |-> <<>>, materialized |-> TRUE, dirty |-> r.dirty, reads |-> r.reads,
                  target |-> [r.target EXCEPT !.items = Array(r.backing).items, !.length = Len(r.backing)]]
        BY <4>2, <4>3 DEF Materialize, IsLazy
      <4>6. m2 = [backing |-> <<>>, materialized |-> TRUE, dirty |-> l.dirty, reads |-> k, target |-> a]
        <5>1. r.dirty = l.dirty /\ r.reads = k /\ r.target = l.target /\ r.backing = l.backing
          BY <2>5
        <5> QED
          BY <4>1, <4>5, <5>1, Zenon
      <4>7. PICK y : y = [m1 EXCEPT !.reads = k]
        OBVIOUS
      <4>8. y = [backing |-> <<>>, materialized |-> TRUE, dirty |-> l.dirty, reads |-> k, target |-> a]
        BY <4>4, <4>7
      <4> QED
        BY <4>2, <4>6, <4>7, <4>8, Zenon
    <3> QED
      BY <3>1, <3>2
  <2>7. GetTrap(m, i).lazy \in {m, r, Materialize(r)}
    BY <2>5 DEF GetTrap, Result
  <2> QED
    BY <2>2, <2>4, <2>6, <2>7 DEF Copies
<1>2. CASE m \in {[Materialize(l) EXCEPT !.reads = n] : n \in Nat}
  <2>1. PICK n \in Nat : m = [Materialize(l) EXCEPT !.reads = n]
    BY <1>2
  <2>2. m.materialized = TRUE
    <3>1. PICK x : x = Materialize(l) /\ IsLazy(x) /\ x.materialized = TRUE
      BY MaterializeSees
    <3>2. m = [x EXCEPT !.reads = n]
      BY <2>1, <3>1
    <3>3. x = [backing |-> x.backing, materialized |-> TRUE, dirty |-> x.dirty, reads |-> x.reads, target |-> x.target]
      BY <3>1 DEF IsLazy
    <3> QED
      BY <3>2, <3>3
  <2>3. GetTrap(m, i).lazy = m
    BY <2>2 DEF GetTrap, Result
  <2> QED
    BY <2>3
<1> QED
  BY <1>1, <1>2 DEF Copies

\* The ids, and what was read of them.
Readings(l) == [lazy : Copies(l), value : Seq(Value \union {Undefined})]

\* A visit reads one element more.
LEMMA VisitSees ==
    ASSUME NEW l, IsLazy(l), NEW seen \in Readings(l), NEW k \in Nat \ {0}
    PROVE  /\ Visit(seen, k) \in Readings(l)
           /\ Visit(seen, k).value = Append(seen.value, Element(Visible(l), k - 1))
<1>1. PICK m, s, i, e : m = seen.lazy /\ s = seen.value /\ i = k - 1 /\ e = Element(Visible(l), i)
  OBVIOUS
<1>2. m \in Copies(l) /\ s \in Seq(Value \union {Undefined}) /\ i \in Nat /\ seen = [lazy |-> m, value |-> s]
  BY <1>1 DEF Readings
<1>3. IsLazy(m) /\ Visible(m) = Visible(l)
  BY <1>2, CopiesSee DEF SameIds
<1>4. e \in Value \union {Undefined}
  BY <1>1, Sees DEF Element, IsArray
<1>5. Append(s, e) \in Seq(Value \union {Undefined})
  BY <1>2, <1>4
<1>6. CASE ~HasTrap(m, i)
  <2>1. e = Undefined
    BY <1>1, <1>2, <1>3, <1>6, TrapsSee DEF Element
  <2>2. Visit(seen, k) = [lazy |-> m, value |-> Append(s, e)]
    BY <1>1, <1>2, <1>6, <2>1 DEF Visit
  <2>3. PICK v : v = Visit(seen, k)
    OBVIOUS
  <2>4. v \in [lazy : Copies(l), value : Seq(Value \union {Undefined})] /\ v.value = Append(s, e)
    BY <1>2, <1>5, <2>2, <2>3
  <2> QED
    BY <1>1, <2>3, <2>4 DEF Readings
<1>7. CASE HasTrap(m, i)
  <2>1. PICK got : got = GetTrap(m, i)
    OBVIOUS
  <2>2. got.lazy \in Copies(l)
    BY <1>2, <2>1, CopiesClosed
  <2>3. got.value = e
    BY <1>1, <1>2, <1>3, <2>1, GetSees
  <2>4. Visit(seen, k) = [lazy |-> got.lazy, value |-> Append(s, e)]
    BY <1>1, <1>7, <2>1, <2>3 DEF Visit, Result
  <2>5. PICK v : v = Visit(seen, k)
    OBVIOUS
  <2>6. v \in [lazy : Copies(l), value : Seq(Value \union {Undefined})] /\ v.value = Append(s, e)
    BY <1>5, <2>2, <2>4, <2>5
  <2> QED
    BY <1>1, <2>5, <2>6 DEF Readings
<1> QED
  BY <1>6, <1>7

\* All of them read them all.
LEMMA VisitedSees ==
    ASSUME NEW l, IsLazy(l), NEW n \in Nat
    PROVE  /\ SameIds(l, Visited(l, n).lazy)
           /\ Visited(l, n).value = [k \in 1 .. n |-> Element(Visible(l), k - 1)]
<1>1. PICK s : s = [k \in 1 .. n |-> k]
  BY Zenon
<1>2. DOMAIN s = 1 .. n /\ \A k \in 1 .. n : s[k] = k /\ k \in Nat \ {0}
  BY <1>1
<1>3. PICK base, State : base = Result(l, <<>>) /\ State = Readings(l)
  OBVIOUS
<1>4. base \in State /\ base.value = <<>>
  BY <1>3, CopiesSee DEF Readings, Result
<1>5. PICK step : step = [k \in 1 .. n |-> [seen \in State |-> Visit(seen, k)]]
  BY Zenon
<1>6. \A k \in 1 .. n : \A seen \in State :
         /\ Visit(seen, k) \in State
         /\ Visit(seen, k).value = Append(seen.value, Element(Visible(l), k - 1))
  BY <1>2, <1>3, VisitSees
<1>7. step \in [1 .. n -> [State -> State]]
  BY <1>5, <1>6
<1>8. PICK g \in [SUBSET (1 .. n) -> State] : FoldsTo(g, n, base, step)
  BY <1>4, <1>7, FoldExists, Zenon
<1> DEFINE Fold(h) == h = [r \in SUBSET (1 .. n) |-> IF r = {} THEN base ELSE Visit(h[r \ {Max(r)}], s[Max(r)])]
<1>9. \A r \in SUBSET (1 .. n) : r # {} => Max(r) \in 1 .. n /\ r \ {Max(r)} \in SUBSET (1 .. n)
  BY GreatestIn, Zenon
<1>10. Fold(g)
  <2>1. ASSUME NEW r \in SUBSET (1 .. n)
        PROVE  g[r] = IF r = {} THEN base ELSE Visit(g[r \ {Max(r)}], s[Max(r)])
    <3>1. CASE r = {}
      BY <1>8, <3>1, Zenon DEF FoldsTo
    <3>2. CASE r # {}
      <4>1. PICK k, q : k = Max(r) /\ q = r \ {k} /\ k \in 1 .. n /\ q \in SUBSET (1 .. n)
        BY <1>9, <3>2, Zenon
      <4>2. g[r] = step[k][g[q]] /\ g[q] \in State
        BY <1>8, <3>2, <4>1, Zenon DEF FoldsTo
      <4>3. step[k][g[q]] = Visit(g[q], k) /\ s[k] = k
        BY <1>2, <1>5, <4>1, <4>2
      <4> QED
        BY <3>2, <4>1, <4>2, <4>3, Zenon
    <3> QED
      BY <3>1, <3>2
  <2> QED
    BY <1>8, <2>1
<1>11. PICK it : it = CHOOSE h : Fold(h)
  BY Zenon
<1>12. Fold(it)
  BY <1>10, <1>11, Zenon
<1>13. Visited(l, n) = it[1 .. n]
  <2>1. Visited(l, n) = FoldLeft(Visit, base, s)
    BY <1>1, <1>3, Zenon DEF Visited
  <2>2. it = CHOOSE h : h = [r \in SUBSET (DOMAIN s) |->
                                IF r = {} THEN base ELSE Visit(h[r \ {Max(r)}], s[Max(r)])]
    BY <1>2, <1>11, Zenon
  <2>3. FoldLeft(Visit, base, s) = it[DOMAIN s]
    BY <2>2, Zenon DEF FoldLeft, MapThenFoldSet
  <2> QED
    BY <1>2, <2>1, <2>3, Zenon
<1>14. PICK f : f = [k \in 0 .. n |-> it[1 .. k]]
  BY Zenon
<1>15. f[0] = base /\ Visited(l, n) = f[n]
  <2>1. 1 .. 0 = {} /\ {} \in SUBSET (1 .. n) /\ 0 \in 0 .. n /\ n \in 0 .. n
    OBVIOUS
  <2> QED
    BY <1>12, <1>13, <1>14, <2>1, Zenon
<1>16. ASSUME NEW k \in 1 .. n PROVE f[k] = Visit(f[k - 1], k)
  <2>1. 1 .. k \in SUBSET (1 .. n) /\ 1 .. k # {} /\ Max(1 .. k) = k /\ (1 .. k) \ {Max(1 .. k)} = 1 .. k - 1
        /\ k - 1 \in 0 .. n /\ k \in 0 .. n
    BY FirstNumbers, Zenon
  <2>2. it[1 .. k] = Visit(it[(1 .. k) \ {Max(1 .. k)}], s[Max(1 .. k)])
    BY <1>12, <2>1, Zenon
  <2> QED
    BY <1>2, <1>14, <2>1, <2>2, Zenon
<1>17. PICK T : T = {k \in 0 .. n : f[k] \in State /\ f[k].value = [j \in 1 .. k |-> Element(Visible(l), j - 1)]}
  BY Zenon
<1>18. 0 \in T
  <2>1. <<>> = [j \in 1 .. 0 |-> Element(Visible(l), j - 1)] /\ 0 \in 0 .. n
    OBVIOUS
  <2> QED
    BY <1>4, <1>15, <1>17, <2>1
<1>19. ASSUME NEW k \in 0 .. n - 1, k \in T PROVE k + 1 \in T
  <2>1. PICK m \in 1 .. n : m = k + 1 /\ m - 1 = k /\ m \in 0 .. n /\ k \in Nat
    OBVIOUS
  <2>2. PICK x, p : x = f[k] /\ p = x.value
    OBVIOUS
  <2>3. x \in State /\ p = [j \in 1 .. k |-> Element(Visible(l), j - 1)]
    BY <1>17, <1>19, <2>2
  <2>4. p \in Seq(Value \union {Undefined})
    BY <1>3, <2>2, <2>3 DEF Readings
  <2>5. f[m] = Visit(x, m)
    BY <1>16, <2>1, <2>2
  <2>6. f[m] \in State /\ f[m].value = Append(p, Element(Visible(l), m - 1))
    BY <1>6, <2>2, <2>3, <2>5
  <2>7. Append(p, Element(Visible(l), m - 1)) = [j \in 1 .. m |-> Element(Visible(l), j - 1)]
    <3>1. PICK e : e = Element(Visible(l), m - 1)
      OBVIOUS
    <3>2. e \in Value \union {Undefined}
      BY <2>1, <3>1, Sees DEF Element, IsArray
    <3>3. Len(p) = k
      BY <2>1, <2>3, <2>4
    <3> QED
      BY <2>1, <2>3, <2>4, <3>1, <3>2, <3>3
  <2> QED
    BY <1>17, <2>1, <2>6, <2>7
<1>20. n \in T
  <2>1. 0 .. n \subseteq T
    BY <1>18, <1>19, UpTo
  <2> QED
    BY <2>1
<1>21. Visited(l, n).lazy \in Copies(l)
  BY <1>3, <1>15, <1>17, <1>20 DEF Readings
<1> QED
  BY <1>15, <1>17, <1>20, <1>21, CopiesSee

\* decode of the ids is decode of the array.
LEMMA DecodeSees ==
    ASSUME NEW l, IsLazy(l), NEW skip \in BOOLEAN
    PROVE  SameIds(l, DecodeIds(l, skip).lazy) /\ DecodeIds(l, skip).value = Decoded(Visible(l), skip)
<1>1. PICK a, n : a = Visible(l) /\ n = a.length /\ n \in Nat /\ IsArray(a) /\ LengthTrap(l) = n
  BY Sees, TrapsSee DEF IsArray
<1>2. PICK invalid : invalid = {k \in 1 .. n : Element(a, k - 1) \notin U32 \union {Undefined}}
  OBVIOUS
<1>3. invalid # {} <=> \E i \in DOMAIN a.items : a.items[i] \notin U32
  <2>1. ASSUME NEW k \in invalid PROVE \E i \in DOMAIN a.items : a.items[i] \notin U32
    BY <1>2 DEF Element
  <2>2. ASSUME NEW i \in DOMAIN a.items, a.items[i] \notin U32 PROVE invalid # {}
    <3>1. i \in 0 .. n - 1 /\ a.items[i] \in Value
      BY <1>1 DEF IsArray
    <3>2. i + 1 \in 1 .. n /\ (i + 1) - 1 = i
      BY <1>1, <3>1
    <3>3. a.items[i] # Undefined
      BY <3>1, IdsAssumption DEF Value
    <3>4. Element(a, (i + 1) - 1) \notin U32 \union {Undefined}
      BY <2>2, <3>2, <3>3 DEF Element
    <3> QED
      BY <1>2, <3>2, <3>4
  <2> QED
    BY <2>1, <2>2
<1>4. PICK first : first = CHOOSE k \in invalid : \A j \in invalid : k <= j
  OBVIOUS
<1>5. invalid # {} => first \in Nat
  <2>1. invalid \in SUBSET Nat
    BY <1>2
  <2> QED
    BY <1>4, <2>1, LeastMember
<1>6. PICK checked, mapped : /\ checked = Visited(l, IF invalid = {} THEN n ELSE first)
                             /\ mapped = Visited(checked.lazy, LengthTrap(checked.lazy))
  OBVIOUS
<1>7. DecodeIds(l, skip) = IF n = 0 THEN Result(l, Nothing)
                           ELSE IF invalid # {} THEN Result(checked.lazy, Nothing)
                           ELSE Result(mapped.lazy, ToCore(mapped.value, skip))
  BY <1>1, <1>2, <1>4, <1>6 DEF DecodeIds
<1>8. SameIds(l, checked.lazy)
  <2>1. (IF invalid = {} THEN n ELSE first) \in Nat
    BY <1>1, <1>5
  <2> QED
    BY <1>6, <2>1, VisitedSees
<1>9. IsLazy(checked.lazy) /\ Visible(checked.lazy) = a /\ LengthTrap(checked.lazy) = n
  BY <1>1, <1>8, TrapsSee DEF SameIds
<1>10. SameIds(checked.lazy, mapped.lazy) /\ mapped.value = [k \in 1 .. n |-> Element(a, k - 1)]
  BY <1>1, <1>6, <1>9, VisitedSees
<1>11. SameIds(l, mapped.lazy) /\ mapped.value = Elements(a)
  BY <1>1, <1>8, <1>10 DEF SameIds, Elements
<1>12. Decoded(a, skip) = IF n = 0 \/ invalid # {} THEN Nothing ELSE ToCore(Elements(a), skip)
  BY <1>1, <1>3 DEF Decoded
<1>13. SameIds(l, l)
  BY DEF SameIds
<1> QED
  BY <1>1, <1>7, <1>8, <1>11, <1>12, <1>13 DEF Result

(***************************************************************************)
(* The invariant                                                           *)
(***************************************************************************)
FieldNames == {"tokens", "attention", "types"}

Typed ==
    /\ stage \in {"new", "prepared", "encoded", "refused"} /\ supplier \in BOOLEAN
    /\ IsLazy(lazy)
    /\ given = [ids |-> given.ids, types |-> given.types]
    /\ given.ids \in Seq(Value \union {Undefined})
    /\ fields = [field \in FieldNames |-> fields[field]]

\* Nothing is read or written before there is an encoding, nor when there will be none.
Untouched ==
    stage # "encoded" =>
        changed = {} /\ thrown = Nothing /\ \A field \in FieldNames : fields[field] = Unread

\* The types that the post-processor returned stay until somebody writes to them.
TypesKept == stage = "encoded" /\ "types" \notin changed => types = given.types

IInv == Typed /\ Untouched /\ TypesKept /\ MatchesEager

(***************************************************************************)
(* The parts of MatchesEager                                               *)
(***************************************************************************)
Made(field) == IF field = "types" THEN {"ids", "types"} ELSE {"ids"}

Judged  == stage \in {"encoded", "refused"} /\ Undefined \notin ToSet(given.ids)
Refused == stage = "refused" <=> EagerRefuses(given.ids)
IdsKept == stage = "encoded" /\ "ids" \notin changed => Elements(Visible(lazy)) = given.ids
ReadAs(field) ==
    fields[field] # Unread /\ fields[field].after \intersect (Made(field) \union {"replaced"}) = {} =>
        ~EagerField(field).fails /\ fields[field].value = EagerField(field).value
ThrownAs(field) ==
    thrown = field /\ changed \intersect Made(field) = {} => EagerField(field).fails

\* MatchesEager is these.
LEMMA MatchesParts ==
    ASSUME Typed
    PROVE  MatchesEager <=>
               (Judged => Refused /\ IdsKept /\ \A field \in FieldNames : ReadAs(field) /\ ThrownAs(field))
<1>1. DOMAIN fields = FieldNames
  BY DEF Typed
<1> QED
  BY <1>1, Zenon DEF MatchesEager, Judged, Refused, IdsKept, ReadAs, ThrownAs, Made

\* They hold after a step that leaves the fields and takes nothing back.
LEMMA MatchesStays ==
    ASSUME IInv, Typed', UNCHANGED <<stage, given, fields>>, thrown' \in {thrown, Nothing},
           changed \subseteq changed', Judged => IdsKept'
    PROVE  MatchesEager'
<1>1. SUFFICES ASSUME Judged
               PROVE  Refused' /\ IdsKept' /\ \A field \in FieldNames : ReadAs(field)' /\ ThrownAs(field)'
  <2>1. MatchesEager' <=>
            (Judged' => Refused' /\ IdsKept' /\ \A field \in FieldNames : ReadAs(field)' /\ ThrownAs(field)')
    <3>1. DOMAIN fields' = FieldNames
      BY DEF Typed
    <3> QED
      BY <3>1, Zenon DEF MatchesEager, Judged, Refused, IdsKept, ReadAs, ThrownAs, Made
  <2>2. Judged' <=> Judged
    BY DEF Judged
  <2> QED
    BY <1>1, <2>1, <2>2
<1>2. Refused /\ \A field \in FieldNames : ReadAs(field) /\ ThrownAs(field)
  BY <1>1, MatchesParts DEF IInv
<1>3. Refused'
  BY <1>2 DEF Refused, EagerRefuses
<1>4. ASSUME NEW field \in FieldNames PROVE ReadAs(field)' /\ ThrownAs(field)'
  <2>1. EagerField(field)' = EagerField(field)
    BY DEF EagerField
  <2>2. ReadAs(field)'
    BY <1>2, <2>1 DEF ReadAs
  <2>3. ThrownAs(field)'
    <3>1. field # Nothing
      BY BoundAssumption DEF FieldNames
    <3> QED
      BY <1>2, <2>1, <3>1 DEF ThrownAs
  <2> QED
    BY <2>2, <2>3
<1> QED
  BY <1>1, <1>3, <1>4

(***************************************************************************)
(* Operations on the ids                                                   *)
(***************************************************************************)

\* What an operation on a plain array answers.
Answered(op) ==
    answer' = [to |-> op, value |-> IF op.name = "decode" THEN Elems(Decoded(Visible(lazy), op.value))
                                    ELSE Returned(Visible(lazy), op)]

ReadBy(op) ==
    /\ InUse /\ SameIds(lazy, lazy') /\ Answered(op) /\ After(Visible(lazy), op) = Visible(lazy)
    /\ UNCHANGED <<stage, supplier, types, fields, given, changed>> /\ thrown' = Nothing

WrittenBy(op) ==
    /\ InUse /\ IsLazy(lazy') /\ lazy'.materialized = TRUE /\ Answered(op)
    /\ Visible(lazy') = After(Visible(lazy), op)
    /\ changed \subseteq changed' /\ (stage = "prepared" => changed' = changed)
    /\ stage = "encoded" /\ "ids" \notin changed' => Elements(Visible(lazy')) = Elements(Visible(lazy))
    /\ UNCHANGED <<stage, supplier, types, fields, given>> /\ thrown' = Nothing

\* A read that finds what is in the array.
LEMMA ReadsAnswer ==
    ASSUME IInv, NEW op, NEW l, NEW value,
           op.name \notin {"set", "define", "delete", "resize", "preventExtensions", "freeze"},
           InUse, lazy' = l, SameIds(lazy, l), answer' = [to |-> op, value |-> value],
           value = IF op.name = "decode" THEN Elems(Decoded(Visible(lazy), op.value))
                   ELSE Returned(Visible(lazy), op),
           UNCHANGED <<stage, supplier, types, fields, given, changed, writes>>, thrown' = Nothing
    PROVE  ReadBy(op)
<1>1. After(Visible(lazy), op) = Visible(lazy)
  BY DEF After
<1>2. Answered(op)
  BY DEF Answered
<1>3. SameIds(lazy, lazy')
  BY Zenon
<1> QED
  BY <1>1, <1>2, <1>3 DEF ReadBy

\* What is written to, once copied, is an array that was written to.
LEMMA WriteSees ==
    ASSUME NEW l, IsLazy(l), l.materialized, NEW op, l.dirty \/ op.name = "preventExtensions",
           op.index \in Nat, op.name \in {"set", "define"} => op.value \in Value
    PROVE  /\ IsLazy([l EXCEPT !.target = After(@, op)])
           /\ [l EXCEPT !.target = After(@, op)].materialized = TRUE
           /\ Visible([l EXCEPT !.target = After(@, op)]) = After(Visible(l), op)
<1>1. PICK m, a : m = [l EXCEPT !.target = After(@, op)] /\ a = After(l.target, op)
  OBVIOUS
<1>2. m = [backing |-> l.backing, materialized |-> TRUE, dirty |-> l.dirty, reads |-> l.reads, target |-> a]
  BY <1>1 DEF IsLazy
<1>3. IsArray(a)
  BY <1>1, AfterIsArray DEF IsLazy
<1>4. ~l.dirty => HoldsOnly(a, U32)
  <2>1. SUFFICES ASSUME ~l.dirty, op.name = "preventExtensions" PROVE HoldsOnly(a, U32)
    OBVIOUS
  <2>2. a = [l.target EXCEPT !.extensible = FALSE]
    BY <1>1, <2>1 DEF After, Inextensible
  <2>3. IsArray(l.target) /\ HoldsOnly(l.target, U32)
    BY <2>1 DEF IsLazy
  <2>4. a.items = l.target.items
    BY <2>2, <2>3 DEF IsArray
  <2> QED
    BY <2>3, <2>4 DEF HoldsOnly
<1>5. IsLazy(m)
  BY <1>2, <1>3, <1>4 DEF IsLazy
<1>6. Visible(m) = a /\ Visible(l) = l.target
  BY <1>2, <1>5, Sees
<1> QED
  BY <1>1, <1>2, <1>5, <1>6

\* A write does to the ids what it does to the array.
LEMMA WritesAnswer ==
    ASSUME IInv, NEW op, NEW l, Writes(op, l), IsLazy(l), l.materialized, l.target = Visible(lazy),
           Visible(l) = Visible(lazy), l.dirty \/ op.name = "preventExtensions", op.index \in Nat,
           op.name \in {"set", "define"} => op.value \in Value, op.name # "decode"
    PROVE  WrittenBy(op)
<1>1. lazy' = [l EXCEPT !.target = After(@, op)] /\ InUse
      /\ answer' = [to |-> op, value |-> Returned(l.target, op)]
      /\ changed' = (IF stage = "encoded" /\ Elements(lazy'.target) # Elements(Visible(lazy))
                     THEN changed \union {"ids"} ELSE changed)
      /\ UNCHANGED <<stage, supplier, types, fields, given>> /\ thrown' = Nothing
  BY DEF Writes
<1>2. IsLazy(lazy') /\ lazy'.materialized = TRUE /\ Visible(lazy') = After(Visible(lazy), op)
  BY <1>1, WriteSees
<1>3. Answered(op)
  BY <1>1 DEF Answered
<1>4. Visible(lazy') = lazy'.target
  BY <1>2, Sees
<1>5. changed \subseteq changed' /\ (stage = "prepared" => changed' = changed)
      /\ (stage = "encoded" /\ "ids" \notin changed' => Elements(Visible(lazy')) = Elements(Visible(lazy)))
  BY <1>1, <1>4
<1> QED
  BY <1>1, <1>2, <1>3, <1>5 DEF WrittenBy

\* Each operation is one or the other.
LEMMA OnIdsAnswers ==
    ASSUME IInv, OnIds
    PROVE  \E op \in Operations : ReadBy(op) \/ WrittenBy(op)
<1>1. IsLazy(lazy)
  BY DEF IInv, Typed
<1>2. Index \subseteq Nat /\ 0 .. MaxLength \subseteq Nat /\ 0 \in Nat /\ Written \subseteq Value
  BY BoundAssumption DEF Index, Value
<1>3. PICK a : a = Visible(lazy) /\ IsArray(a)
  BY <1>1, Sees
<1>4. SameIds(lazy, lazy)
  BY <1>1 DEF SameIds
<1>5. PICK m : m = Materialize(lazy) /\ IsLazy(m) /\ m.materialized /\ m.target = a /\ Visible(m) = a
               /\ SameIds(lazy, m)
  BY <1>1, <1>3, MaterializeSees DEF SameIds
<1>6. PICK d : d = MarkDirty(lazy) /\ IsLazy(d) /\ d.materialized /\ d.target = a /\ Visible(d) = a /\ d.dirty
  BY <1>1, <1>3, MarkDirtySees
<1>7. ASSUME NEW i \in Index, Get(i) PROVE \E op \in Operations : ReadBy(op)
  <2>1. PICK op, got : op = At("get", i) /\ got = GetTrap(lazy, i)
    OBVIOUS
  <2>2. op \in Operations /\ op.name = "get" /\ op.index = i
    BY <2>1 DEF Operations, At, Op
  <2>3. SameIds(lazy, got.lazy) /\ got.value = Element(a, i)
    BY <1>1, <1>2, <1>3, <2>1, GetSees
  <2>4. InUse /\ lazy' = got.lazy /\ answer' = [to |-> op, value |-> An(got.value)]
        /\ UNCHANGED <<stage, supplier, types, fields, given, changed, writes>> /\ thrown' = Nothing
    BY <1>7, <2>1 DEF Get, Reads
  <2>5. Returned(a, op) = An(got.value)
    BY <2>2, <2>3 DEF Returned
  <2>6. ReadBy(op)
    BY <1>3, <2>2, <2>3, <2>4, <2>5, ReadsAnswer
  <2> QED
    BY <2>2, <2>6
<1>8. ASSUME NEW i \in Index, Has(i) PROVE \E op \in Operations : ReadBy(op)
  <2>1. PICK op : op = At("has", i)
    OBVIOUS
  <2>2. op \in Operations /\ op.name = "has" /\ op.index = i
    BY <2>1 DEF Operations, At, Op
  <2>3. InUse /\ lazy' = lazy /\ answer' = [to |-> op, value |-> Truth(HasTrap(lazy, i))]
        /\ UNCHANGED <<stage, supplier, types, fields, given, changed, writes>> /\ thrown' = Nothing
    BY <1>8, <2>1 DEF Has, Reads, Result
  <2>4. HasTrap(lazy, i) = (i \in DOMAIN a.items)
    <3>1. HasTrap(lazy, i) <=> i \in DOMAIN a.items
      BY <1>1, <1>2, <1>3, TrapsSee
    <3>2. HasTrap(lazy, i) \in BOOLEAN
      <4>1. CASE lazy.materialized
        <5>1. HasTrap(lazy, i) = (i \in DOMAIN lazy.target.items)
          BY <4>1, Zenon DEF HasTrap
        <5> QED
          BY <5>1
      <4>2. CASE ~lazy.materialized
        <5>1. HasTrap(lazy, i) = (i < Len(lazy.backing))
          BY <4>2, Zenon DEF HasTrap
        <5> QED
          BY <5>1
      <4> QED
        BY <4>1, <4>2
    <3> QED
      BY <3>1, <3>2
  <2>5. Returned(a, op) = Truth(HasTrap(lazy, i))
    BY <2>2, <2>4 DEF Returned
  <2>6. ReadBy(op)
    BY <1>3, <1>4, <2>2, <2>3, <2>5, ReadsAnswer
  <2> QED
    BY <2>2, <2>6
<1>9. ASSUME NEW i \in Index, Describe(i) PROVE \E op \in Operations : ReadBy(op)
  <2>1. PICK op : op = At("describe", i)
    OBVIOUS
  <2>2. op \in Operations /\ op.name = "describe" /\ op.index = i
    BY <2>1 DEF Operations, At, Op
  <2>3. InUse /\ lazy' = lazy /\ answer' = [to |-> op, value |-> An(DescribeTrap(lazy, i))]
        /\ UNCHANGED <<stage, supplier, types, fields, given, changed, writes>> /\ thrown' = Nothing
    BY <1>9, <2>1 DEF Describe, Reads, Result
  <2>4. DescribeTrap(lazy, i) = Element(a, i)
    BY <1>1, <1>2, <1>3, TrapsSee
  <2>5. Returned(a, op) = An(DescribeTrap(lazy, i))
    BY <2>2, <2>4 DEF Returned
  <2>6. ReadBy(op)
    BY <1>3, <1>4, <2>2, <2>3, <2>5, ReadsAnswer
  <2> QED
    BY <2>2, <2>6
<1>10. ASSUME Length PROVE \E op \in Operations : ReadBy(op)
  <2>1. PICK op : op = All("length")
    OBVIOUS
  <2>2. op \in Operations /\ op.name = "length"
    BY <2>1 DEF Operations, All, Op
  <2>3. InUse /\ lazy' = lazy /\ answer' = [to |-> op, value |-> Number(LengthTrap(lazy))]
        /\ UNCHANGED <<stage, supplier, types, fields, given, changed, writes>> /\ thrown' = Nothing
    BY <1>10, <2>1 DEF Length, Reads, Result
  <2>4. Returned(a, op) = Number(LengthTrap(lazy))
    BY <1>1, <1>3, <2>2, TrapsSee DEF Returned
  <2>5. ReadBy(op)
    BY <1>3, <1>4, <2>2, <2>3, <2>4, ReadsAnswer
  <2> QED
    BY <2>2, <2>5
<1>11. ASSUME Keys PROVE \E op \in Operations : ReadBy(op)
  <2>1. PICK op : op = All("keys")
    OBVIOUS
  <2>2. op \in Operations /\ op.name = "keys"
    BY <2>1 DEF Operations, All, Op
  <2>3. InUse /\ lazy' = m /\ answer' = [to |-> op, value |-> Keyed(DOMAIN m.target.items)]
        /\ UNCHANGED <<stage, supplier, types, fields, given, changed, writes>> /\ thrown' = Nothing
    BY <1>5, <1>11, <2>1 DEF Keys, Reads, Result
  <2>4. Returned(a, op) = Keyed(DOMAIN m.target.items)
    BY <1>5, <2>2 DEF Returned
  <2>5. ReadBy(op)
    BY <1>3, <1>5, <2>2, <2>3, <2>4, ReadsAnswer
  <2> QED
    BY <2>2, <2>5
<1>12. ASSUME Iterate PROVE \E op \in Operations : ReadBy(op)
  <2>1. PICK op : op = All("iterate")
    OBVIOUS
  <2>2. op \in Operations /\ op.name = "iterate"
    BY <2>1 DEF Operations, All, Op
  <2>3. InUse /\ lazy' = m /\ answer' = [to |-> op, value |-> Elems(Elements(m.target))]
        /\ UNCHANGED <<stage, supplier, types, fields, given, changed, writes>> /\ thrown' = Nothing
    BY <1>5, <1>12, <2>1 DEF Iterate, Reads, Result
  <2>4. Returned(a, op) = Elems(Elements(m.target))
    BY <1>5, <2>2 DEF Returned
  <2>5. ReadBy(op)
    BY <1>3, <1>5, <2>2, <2>3, <2>4, ReadsAnswer
  <2> QED
    BY <2>2, <2>5
<1>13. ASSUME NEW skip \in BOOLEAN, Decode(skip) PROVE \E op \in Operations : ReadBy(op)
  <2>1. PICK op, got : op = Op("decode", 0, skip) /\ got = DecodeIds(lazy, skip)
    OBVIOUS
  <2>2. op \in Operations /\ op.name = "decode" /\ op.value = skip
    BY <2>1 DEF Operations, Op
  <2>3. SameIds(lazy, got.lazy) /\ got.value = Decoded(a, skip)
    BY <1>1, <1>3, <2>1, DecodeSees
  <2>4. InUse /\ lazy' = got.lazy /\ answer' = [to |-> op, value |-> Elems(got.value)]
        /\ UNCHANGED <<stage, supplier, types, fields, given, changed, writes>> /\ thrown' = Nothing
    BY <1>13, <2>1 DEF Decode, Reads
  <2>5. ReadBy(op)
    BY <1>3, <2>2, <2>3, <2>4, ReadsAnswer
  <2> QED
    BY <2>2, <2>5
<1>14. ASSUME NEW op \in Operations, Writes(op, d), op.index \in Nat,
              op.name \in {"set", "define"} => op.value \in Value, op.name # "decode"
       PROVE  \E o \in Operations : WrittenBy(o)
  BY <1>3, <1>6, <1>14, WritesAnswer
<1>15. ASSUME NEW i \in Index, NEW v \in Written, Set(i, v) \/ Define(i, v)
       PROVE  \E op \in Operations : WrittenBy(op)
  <2>1. PICK op \in {Op("set", i, v), Op("define", i, v)} : Writes(op, d)
    BY <1>6, <1>15 DEF Set, Define
  <2>2. op \in Operations /\ op.name \in {"set", "define"} /\ op.index = i /\ op.value = v
    BY <2>1 DEF Operations, Op
  <2> QED
    BY <1>2, <1>14, <2>1, <2>2
<1>16. ASSUME NEW i \in Index, Delete(i) PROVE \E op \in Operations : WrittenBy(op)
  <2>1. PICK op : op = At("delete", i) /\ Writes(op, d)
    BY <1>6, <1>16 DEF Delete
  <2>2. op \in Operations /\ op.name = "delete" /\ op.index = i
    BY <2>1 DEF Operations, At, Op
  <2> QED
    BY <1>2, <1>14, <2>1, <2>2
<1>17. ASSUME NEW n \in 0 .. MaxLength, SetLength(n) PROVE \E op \in Operations : WrittenBy(op)
  <2>1. PICK op : op = At("resize", n) /\ Writes(op, d)
    BY <1>6, <1>17 DEF SetLength
  <2>2. op \in Operations /\ op.name = "resize" /\ op.index = n
    BY <2>1 DEF Operations, At, Op
  <2> QED
    BY <1>2, <1>14, <2>1, <2>2
<1>18. ASSUME SetPrototypeOf \/ Freeze PROVE \E op \in Operations : WrittenBy(op)
  <2>1. PICK op \in {All("setPrototypeOf"), All("freeze")} : Writes(op, d)
    BY <1>6, <1>18 DEF SetPrototypeOf, Freeze
  <2>2. op \in Operations /\ op.name \in {"setPrototypeOf", "freeze"} /\ op.index = 0
    BY <2>1 DEF Operations, All, Op
  <2> QED
    BY <1>14, <2>1, <2>2
<1>19. ASSUME PreventExtensions PROVE \E op \in Operations : WrittenBy(op)
  <2>1. PICK op : op = All("preventExtensions") /\ Writes(op, m)
    BY <1>5, <1>19 DEF PreventExtensions
  <2>2. op \in Operations /\ op.name = "preventExtensions" /\ op.index = 0
    BY <2>1 DEF Operations, All, Op
  <2> QED
    BY <1>3, <1>5, <2>1, <2>2, WritesAnswer
<1> QED
  BY <1>7, <1>8, <1>9, <1>10, <1>11, <1>12, <1>13, <1>15, <1>16, <1>17, <1>18, <1>19 DEF OnIds

(***************************************************************************)
(* The invariant is one                                                    *)
(***************************************************************************)

\* At first.
LEMMA InitInvariant ==
    ASSUME Init
    PROVE  IInv
<1>1. <<>> \in Seq(U32) /\ <<>> \in Seq(Value \union {Undefined})
  OBVIOUS
<1>2. IsLazy(Lazy(<<>>))
  BY <1>1, LazyIsLazy
<1>3. Typed
  BY <1>1, <1>2 DEF Init, Typed, FieldNames
<1>4. Untouched
  BY DEF Init, Untouched, FieldNames
<1> QED
  BY <1>3, <1>4 DEF IInv, TypesKept, MatchesEager, Init

\* A step between encodings of which nothing was read yet.
LEMMA HandInvariant ==
    ASSUME IInv, stage \in {"new", "prepared"}, stage' \in {"prepared", "encoded", "refused"}, IsLazy(lazy'),
           UNCHANGED <<fields, thrown, changed>>, supplier' \in BOOLEAN,
           given' = given \/ given' = [ids |-> Elements(Visible(lazy')), types |-> types'],
           stage' = "encoded" => types' = given'.types,
           stage' # "prepared" => /\ given' = [ids |-> Elements(Visible(lazy')), types |-> types']
                                  /\ stage' = IF Accepts(lazy') THEN "encoded" ELSE "refused"
    PROVE  IInv'
<1>1. Typed /\ Untouched
  BY DEF IInv
<1>2. changed' = {} /\ thrown' = Nothing /\ \A field \in FieldNames : fields'[field] = Unread
  BY <1>1 DEF Untouched
<1>3. PICK a, s : a = Visible(lazy') /\ s = Elements(a) /\ IsArray(a) /\ (~lazy'.dirty => HoldsOnly(a, U32))
  BY Sees
<1>4. s \in Seq(Value \union {Undefined})
  BY <1>3, ElementsOf
<1>5. Typed'
  BY <1>1, <1>3, <1>4 DEF Typed
<1>6. Untouched' /\ TypesKept'
  BY <1>2 DEF Untouched, TypesKept
<1>7. MatchesEager'
  <2>1. SUFFICES ASSUME Judged'
                 PROVE  Refused' /\ IdsKept' /\ \A field \in FieldNames : ReadAs(field)' /\ ThrownAs(field)'
    <3>1. DOMAIN fields' = FieldNames
      BY <1>5 DEF Typed
    <3> QED
      BY <2>1, <3>1, Zenon DEF MatchesEager, Judged, Refused, IdsKept, ReadAs, ThrownAs, Made
  <2>2. stage' \in {"encoded", "refused"} /\ given'.ids = s /\ (stage' = "refused" <=> ~Accepts(lazy'))
        /\ Undefined \notin ToSet(s)
    BY <1>3, <2>1 DEF Judged
  <2>3. \A k \in DOMAIN s : s[k] # Undefined
    BY <2>2 DEF ToSet
  <2>4. /\ \A i \in DOMAIN a.items : i + 1 \in DOMAIN s /\ s[i + 1] = a.items[i]
        /\ \A k \in DOMAIN s : k - 1 \in DOMAIN a.items /\ s[k] = a.items[k - 1]
    BY <1>3, <2>3, ArrayOfElements
  <2>5. Accepts(lazy') <=> HoldsOnly(a, U32)
    <3>1. CASE ~lazy'.dirty
      BY <1>3, <3>1 DEF Accepts
    <3>2. CASE lazy'.dirty
      <4>1. lazy'.materialized
        BY <3>2 DEF IsLazy
      <4>2. a = lazy'.target
        BY <1>3, <4>1, Sees
      <4> QED
        BY <3>2, <4>2 DEF Accepts, HoldsU32, HoldsOnly
    <3> QED
      BY <3>1, <3>2
  <2>6. HoldsOnly(a, U32) <=> ~EagerRefuses(s)
    BY <2>4 DEF HoldsOnly, EagerRefuses
  <2>7. Refused'
    BY <2>2, <2>5, <2>6 DEF Refused
  <2>8. IdsKept'
    BY <1>3, <2>2 DEF IdsKept
  <2>9. \A field \in FieldNames : ReadAs(field)' /\ ThrownAs(field)'
    <3>1. ASSUME NEW field \in FieldNames PROVE field # Nothing
      BY BoundAssumption DEF FieldNames
    <3> QED
      BY <1>2, <3>1 DEF ReadAs, ThrownAs
  <2> QED
    BY <2>7, <2>8, <2>9
<1> QED
  BY <1>5, <1>6, <1>7 DEF IInv

\* Reading and writing the ids, the array that was supplied, or the types.
LEMMA UseInvariant ==
    ASSUME IInv, InUse, IsLazy(lazy'), UNCHANGED <<stage, supplier, fields, given>>,
           thrown' \in {thrown, Nothing}, changed \subseteq changed', stage = "prepared" => changed' = changed,
           types' = types \/ "types" \in changed',
           stage = "encoded" /\ "ids" \notin changed' => Elements(Visible(lazy')) = Elements(Visible(lazy))
    PROVE  IInv'
<1>1. Typed'
  BY DEF IInv, Typed
<1>2. Untouched'
  BY DEF IInv, Untouched, InUse
<1>3. TypesKept'
  BY DEF IInv, TypesKept
<1>4. Judged => IdsKept'
  <2>1. SUFFICES ASSUME Judged, stage = "encoded", "ids" \notin changed'
                 PROVE  Elements(Visible(lazy')) = given.ids
    BY DEF IdsKept
  <2>2. "ids" \notin changed
    BY <2>1
  <2>3. IdsKept
    BY <2>1, MatchesParts DEF IInv
  <2> QED
    BY <2>1, <2>2, <2>3 DEF IdsKept
<1>5. MatchesEager'
  BY <1>1, <1>4, MatchesStays
<1> QED
  BY <1>1, <1>2, <1>3, <1>5 DEF IInv

\* The parts again, for the step that remembers a field or throws.
LEMMA FieldInvariant ==
    ASSUME IInv, NEW field \in FieldNames, NEW l, NEW fails, NEW value, ReadField(field, l, fails, value),
           SameIds(lazy, l),
           Judged /\ changed \intersect Made(field) = {} =>
               (fails <=> EagerField(field).fails) /\ (~fails => value = EagerField(field).value)
    PROVE  IInv'
<1>1. Typed /\ stage = "encoded" /\ UNCHANGED <<stage, supplier, types, given, changed>>
  BY DEF IInv, ReadField
<1>2. CASE fields[field] # Unread
  <2>1. UNCHANGED <<lazy, fields>> /\ thrown' = Nothing
    BY <1>2 DEF ReadField
  <2>2. IsLazy(lazy') /\ InUse
    BY <1>1, <2>1 DEF Typed, InUse
  <2> QED
    BY <1>1, <2>1, <2>2, UseInvariant
<1>3. CASE fields[field] = Unread /\ fails
  <2>1. lazy' = l /\ fields' = fields /\ thrown' = field
    BY <1>3 DEF ReadField
  <2>2. IsLazy(lazy') /\ Visible(lazy') = Visible(lazy)
    BY <2>1 DEF SameIds
  <2>3. Typed'
    BY <1>1, <2>1, <2>2 DEF Typed
  <2>4. Untouched' /\ TypesKept'
    BY <1>1 DEF Untouched, TypesKept, IInv
  <2>5. MatchesEager'
    <3>1. SUFFICES ASSUME Judged
                   PROVE  Refused' /\ IdsKept' /\ \A f \in FieldNames : ReadAs(f)' /\ ThrownAs(f)'
      <4>1. DOMAIN fields' = FieldNames
        BY <2>3 DEF Typed
      <4>2. MatchesEager' <=>
                (Judged' => Refused' /\ IdsKept' /\ \A f \in FieldNames : ReadAs(f)' /\ ThrownAs(f)')
        BY <4>1, Zenon DEF MatchesEager, Judged, Refused, IdsKept, ReadAs, ThrownAs, Made
      <4>3. Judged' <=> Judged
        BY <1>1 DEF Judged
      <4> QED
        BY <3>1, <4>2, <4>3
    <3>2. Refused /\ IdsKept /\ \A f \in FieldNames : ReadAs(f) /\ ThrownAs(f)
      BY <1>1, <3>1, MatchesParts DEF IInv
    <3>3. Refused' /\ IdsKept'
      BY <1>1, <2>2, <3>2 DEF Refused, EagerRefuses, IdsKept
    <3>4. ASSUME NEW f \in FieldNames PROVE ReadAs(f)' /\ ThrownAs(f)'
      <4>1. EagerField(f)' = EagerField(f)
        BY <1>1 DEF EagerField
      <4>2. ReadAs(f)'
        BY <2>1, <3>2, <4>1 DEF ReadAs
      <4>3. ThrownAs(f)'
        BY <1>1, <1>3, <2>1, <3>1, <4>1 DEF ThrownAs
      <4> QED
        BY <4>2, <4>3
    <3> QED
      BY <3>3, <3>4
  <2> QED
    BY <2>3, <2>4, <2>5 DEF IInv
<1>4. CASE fields[field] = Unread /\ ~fails
  <2>1. lazy' = l /\ fields' = [fields EXCEPT ![field] = [value |-> value, after |-> changed]]
        /\ thrown' = Nothing
    BY <1>4 DEF ReadField, Remember
  <2>2. IsLazy(lazy') /\ Visible(lazy') = Visible(lazy)
    BY <2>1 DEF SameIds
  <2>3. DOMAIN fields = FieldNames
    BY <1>1 DEF Typed
  <2>4. fields'[field] = [value |-> value, after |-> changed]
        /\ \A f \in FieldNames \ {field} : fields'[f] = fields[f]
    BY <2>1, <2>3
  <2>5. Typed'
    <3>1. fields' = [f \in FieldNames |-> fields'[f]]
      BY <2>1, <2>3
    <3> QED
      BY <1>1, <2>2, <3>1 DEF Typed
  <2>6. Untouched' /\ TypesKept'
    BY <1>1 DEF Untouched, TypesKept, IInv
  <2>7. MatchesEager'
    <3>1. SUFFICES ASSUME Judged
                   PROVE  Refused' /\ IdsKept' /\ \A f \in FieldNames : ReadAs(f)' /\ ThrownAs(f)'
      <4>1. DOMAIN fields' = FieldNames
        BY <2>5 DEF Typed
      <4>2. MatchesEager' <=>
                (Judged' => Refused' /\ IdsKept' /\ \A f \in FieldNames : ReadAs(f)' /\ ThrownAs(f)')
        BY <4>1, Zenon DEF MatchesEager, Judged, Refused, IdsKept, ReadAs, ThrownAs, Made
      <4>3. Judged' <=> Judged
        BY <1>1 DEF Judged
      <4> QED
        BY <3>1, <4>2, <4>3
    <3>2. Refused /\ IdsKept /\ \A f \in FieldNames : ReadAs(f) /\ ThrownAs(f)
      BY <1>1, <3>1, MatchesParts DEF IInv
    <3>3. Refused' /\ IdsKept'
      BY <1>1, <2>2, <3>2 DEF Refused, EagerRefuses, IdsKept
    <3>4. ASSUME NEW f \in FieldNames PROVE ReadAs(f)' /\ ThrownAs(f)'
      <4>1. EagerField(f)' = EagerField(f)
        BY <1>1 DEF EagerField
      <4>2. ASSUME f # field PROVE ReadAs(f)'
        BY <2>4, <3>2, <4>1, <4>2 DEF ReadAs
      <4>3. ASSUME f = field PROVE ReadAs(f)'
        <5>1. fields'[f].after = changed /\ fields'[f].value = value
          BY <2>4, <4>3
        <5>2. SUFFICES ASSUME changed \intersect (Made(f) \union {"replaced"}) = {}
                       PROVE  ~EagerField(f).fails /\ value = EagerField(f).value
          BY <4>1, <5>1 DEF ReadAs
        <5>3. changed \intersect Made(f) = {}
          BY <5>2
        <5> QED
          BY <1>4, <3>1, <4>3, <5>3
      <4>4. ReadAs(f)'
        BY <4>2, <4>3
      <4>5. ThrownAs(f)'
        BY <2>1, BoundAssumption DEF ThrownAs, FieldNames
      <4> QED
        BY <4>4, <4>5
    <3> QED
      BY <3>3, <3>4
  <2> QED
    BY <2>5, <2>6, <2>7 DEF IInv
<1> QED
  BY <1>2, <1>3, <1>4

\* The fields that are read.
LEMMA ReadFieldsInvariant ==
    ASSUME IInv, ReadTokens \/ ReadAttention \/ ReadTypes
    PROVE  IInv'
<1>1. Typed /\ IsLazy(lazy)
  BY DEF IInv, Typed
<1>2. PICK m, a, s : m = Materialize(lazy) /\ a = Visible(lazy) /\ s = Elements(a)
  OBVIOUS
<1>3. IsArray(a) /\ IsLazy(m) /\ m.target = a /\ SameIds(lazy, m) /\ SameIds(lazy, lazy)
  BY <1>1, <1>2, Sees, MaterializeSees DEF SameIds
<1>4. ASSUME Judged, "ids" \notin changed, stage = "encoded"
      PROVE  /\ given.ids = s /\ Array(s) = TokensOf(a)
             /\ \A i \in DOMAIN a.items : i + 1 \in DOMAIN s /\ s[i + 1] = a.items[i]
             /\ \A k \in DOMAIN s : k - 1 \in DOMAIN a.items /\ s[k] = a.items[k - 1]
  <2>1. given.ids = s
    BY <1>1, <1>2, <1>4, MatchesParts DEF IInv, IdsKept
  <2>2. \A k \in DOMAIN s : s[k] # Undefined
    BY <1>4, <2>1 DEF Judged, ToSet
  <2> QED
    BY <1>2, <1>3, <2>1, <2>2, ArrayOfElements
<1>5. CASE ReadTokens
  <2>1. PICK fails : fails = \E i \in DOMAIN a.items : a.items[i] \notin Named
    OBVIOUS
  <2>2. ReadField("tokens", m, fails, TokensOf(a))
    BY <1>2, <1>3, <1>5, <2>1 DEF ReadTokens
  <2>3. stage = "encoded"
    BY <2>2 DEF ReadField
  <2>4. ASSUME Judged, changed \intersect Made("tokens") = {}
        PROVE  (fails <=> EagerField("tokens").fails) /\ TokensOf(a) = EagerField("tokens").value
    <3>1. "ids" \notin changed
      BY <2>4 DEF Made
    <3>2. /\ given.ids = s /\ Array(s) = TokensOf(a)
          /\ \A i \in DOMAIN a.items : i + 1 \in DOMAIN s /\ s[i + 1] = a.items[i]
          /\ \A k \in DOMAIN s : k - 1 \in DOMAIN a.items /\ s[k] = a.items[k - 1]
      BY <1>4, <2>3, <2>4, <3>1
    <3>3. EagerField("tokens") = [fails |-> \E k \in DOMAIN s : s[k] \notin Named, value |-> Array(s)]
      BY <3>2 DEF EagerField
    <3>4. fails <=> \E k \in DOMAIN s : s[k] \notin Named
      BY <2>1, <3>2
    <3> QED
      BY <3>2, <3>3, <3>4
  <2>5. "tokens" \in FieldNames
    BY DEF FieldNames
  <2> QED
    BY <1>3, <2>2, <2>4, <2>5, FieldInvariant
<1>6. CASE ReadAttention
  <2>1. ReadField("attention", m, FALSE, AttentionOf(a))
    BY <1>2, <1>3, <1>6 DEF ReadAttention
  <2>2. stage = "encoded"
    BY <2>1 DEF ReadField
  <2>3. ASSUME Judged, changed \intersect Made("attention") = {}
        PROVE  ~EagerField("attention").fails /\ AttentionOf(a) = EagerField("attention").value
    <3>1. "ids" \notin changed
      BY <2>3 DEF Made
    <3>2. given.ids = s /\ Array(s) = TokensOf(a)
      BY <1>4, <2>2, <2>3, <3>1
    <3>3. EagerField("attention") = [fails |-> FALSE, value |-> AttentionOf(Array(s))]
      BY <3>2 DEF EagerField
    <3>4. PICK t : t = TokensOf(a)
      OBVIOUS
    <3>5. TokensOf(t) = t
      <4>1. t = [items |-> a.items, length |-> a.length, extensible |-> TRUE, frozen |-> FALSE]
        BY <1>3, <3>4 DEF TokensOf, IsArray
      <4>2. IsArray(t) /\ t.extensible = TRUE /\ t.frozen = FALSE
        BY <1>3, <4>1 DEF IsArray
      <4>3. [t EXCEPT !.extensible = TRUE, !.frozen = FALSE] = t
        BY <4>2 DEF IsArray
      <4> QED
        BY <4>3, Zenon DEF TokensOf
    <3>6. AttentionOf(a) = AttentionOf(t)
      BY <3>4, <3>5, Zenon DEF AttentionOf
    <3> QED
      BY <3>2, <3>3, <3>4, <3>6
  <2>4. "attention" \in FieldNames
    BY DEF FieldNames
  <2> QED
    BY <1>3, <2>1, <2>3, <2>4, FieldInvariant
<1>7. CASE ReadTypes
  <2>1. PICK fails : fails = ~(types \in Seq(U32) /\ Len(types) = LengthTrap(lazy))
    OBVIOUS
  <2>2. ReadField("types", lazy, fails, types)
    BY <1>7, <2>1 DEF ReadTypes
  <2>3. stage = "encoded"
    BY <2>2 DEF ReadField
  <2>4. ASSUME Judged, changed \intersect Made("types") = {}
        PROVE  (fails <=> EagerField("types").fails) /\ types = EagerField("types").value
    <3>1. "ids" \notin changed /\ "types" \notin changed
      BY <2>4 DEF Made
    <3>2. given.ids = s
      BY <1>4, <2>3, <2>4, <3>1
    <3>3. types = given.types
      BY <2>3, <3>1 DEF IInv, TypesKept
    <3>4. LengthTrap(lazy) = Len(s)
      BY <1>1, <1>2, <1>3, ElementsOf, TrapsSee
    <3>5. EagerField("types") = [fails |-> given.types \notin Seq(U32) \/ Len(given.types) # Len(given.ids),
                                 value |-> given.types]
      BY DEF EagerField
    <3> QED
      BY <2>1, <3>2, <3>3, <3>4, <3>5
  <2>5. "types" \in FieldNames
    BY DEF FieldNames
  <2> QED
    BY <1>3, <2>2, <2>4, <2>5, FieldInvariant
<1> QED
  BY <1>5, <1>6, <1>7

\* A field that is replaced is not the encoding's any more.
LEMMA ReplaceInvariant ==
    ASSUME IInv, NEW field \in DOMAIN fields, ReplaceField(field)
    PROVE  IInv'
<1>1. Typed /\ stage = "encoded" /\ UNCHANGED <<stage, lazy, supplier, types, thrown, given, changed>>
      /\ fields' = [fields EXCEPT ![field] = [value |-> Nothing, after |-> {"replaced"}]]
  BY DEF IInv, ReplaceField, arrays
<1>2. DOMAIN fields = FieldNames
  BY <1>1 DEF Typed
<1>3. /\ fields' = [f \in FieldNames |-> fields'[f]]
      /\ fields'[field].after = {"replaced"}
      /\ \A f \in FieldNames \ {field} : fields'[f] = fields[f]
  BY <1>1, <1>2
<1>4. Typed'
  BY <1>1, <1>3 DEF Typed
<1>5. Untouched' /\ TypesKept'
  BY <1>1 DEF Untouched, TypesKept, IInv
<1>6. MatchesEager'
  <2>1. SUFFICES ASSUME Judged
                 PROVE  Refused' /\ IdsKept' /\ \A f \in FieldNames : ReadAs(f)' /\ ThrownAs(f)'
    <3>1. DOMAIN fields' = FieldNames
      BY <1>4 DEF Typed
    <3>2. MatchesEager' <=>
              (Judged' => Refused' /\ IdsKept' /\ \A f \in FieldNames : ReadAs(f)' /\ ThrownAs(f)')
      BY <3>1, Zenon DEF MatchesEager, Judged, Refused, IdsKept, ReadAs, ThrownAs, Made
    <3>3. Judged' <=> Judged
      BY <1>1 DEF Judged
    <3> QED
      BY <2>1, <3>2, <3>3
  <2>2. Refused /\ IdsKept /\ \A f \in FieldNames : ReadAs(f) /\ ThrownAs(f)
    BY <1>1, <2>1, MatchesParts DEF IInv
  <2>3. Refused' /\ IdsKept'
    BY <1>1, <2>2 DEF Refused, EagerRefuses, IdsKept
  <2>4. ASSUME NEW f \in FieldNames PROVE ReadAs(f)' /\ ThrownAs(f)'
    <3>1. EagerField(f)' = EagerField(f)
      BY <1>1 DEF EagerField
    <3>2. ThrownAs(f)'
      BY <1>1, <2>2, <3>1 DEF ThrownAs
    <3>3. ASSUME f # field PROVE ReadAs(f)'
      BY <1>3, <2>2, <3>1, <3>3 DEF ReadAs
    <3>4. ASSUME f = field PROVE ReadAs(f)'
      BY <1>3, <3>4 DEF ReadAs
    <3> QED
      BY <3>2, <3>3, <3>4
  <2> QED
    BY <2>3, <2>4
<1> QED
  BY <1>4, <1>5, <1>6 DEF IInv

\* No step breaks it.
LEMMA StepInvariant ==
    ASSUME IInv, [Next]_vars
    PROVE  IInv'
<1>1. IsLazy(lazy) /\ Typed
  BY DEF IInv, Typed
<1>2. ASSUME NEW ids \in Ids, Encode(ids) PROVE IInv'
  <2>1. IsLazy(Lazy(ids))
    BY LazyIsLazy, IdsAssumption
  <2>2. stage = "new" /\ stage' = "prepared" /\ lazy' = Lazy(ids)
        /\ UNCHANGED <<supplier, types, fields, answer, thrown, given, changed, writes>>
    BY <1>2 DEF Encode
  <2> QED
    BY <1>1, <2>1, <2>2, HandInvariant DEF Typed
<1>3. ASSUME NEW l, IsLazy(l), NEW isOwn \in BOOLEAN, NEW ts, Encoded(l, isOwn, ts) PROVE IInv'
  <2>1. stage = "prepared" /\ lazy' = l /\ supplier' = isOwn /\ types' = ts
        /\ stage' = (IF Accepts(l) THEN "encoded" ELSE "refused")
        /\ given' = [ids |-> Elements(Visible(l)), types |-> ts] /\ UNCHANGED <<fields, thrown, changed>>
    BY <1>3 DEF Encoded
  <2>2. given' = [ids |-> Elements(Visible(lazy')), types |-> types'] /\ given'.types = types'
        /\ stage' = (IF Accepts(lazy') THEN "encoded" ELSE "refused")
    BY <2>1
  <2> QED
    BY <1>3, <2>1, <2>2, HandInvariant
<1>4. ASSUME NEW ts, ReturnProxy(ts) PROVE IInv'
  BY <1>1, <1>3, <1>4 DEF ReturnProxy
<1>5. ASSUME NEW ts, NEW ids \in OwnU32, ReturnU32(ids, ts) PROVE IInv'
  <2>1. IsLazy(Lazy(ids))
    BY LazyIsLazy, IdsAssumption
  <2> QED
    BY <1>3, <1>5, <2>1 DEF ReturnU32
<1>6. ASSUME NEW ts, NEW ids \in OwnIds, ReturnArray(ids, ts) PROVE IInv'
  <2>1. IsLazy(Plain(ids))
    BY PlainIsLazy, IdsAssumption DEF Value
  <2> QED
    BY <1>3, <1>6, <2>1 DEF ReturnArray
<1>7. ASSUME OnIds PROVE IInv'
  <2>1. PICK op \in Operations : ReadBy(op) \/ WrittenBy(op)
    BY <1>7, OnIdsAnswers
  <2>2. CASE ReadBy(op)
    BY <2>2, UseInvariant DEF ReadBy, SameIds
  <2>3. CASE WrittenBy(op)
    BY <2>3, UseInvariant DEF WrittenBy
  <2> QED
    BY <2>1, <2>2, <2>3
<1>8. ASSUME NEW i \in Index, NEW v \in Written, SupplierWrites(i, v) PROVE IInv'
  <2>1. stage = "encoded" /\ ~lazy.materialized /\ i < Len(lazy.backing) /\ v \in U32
        /\ lazy' = [lazy EXCEPT !.backing[i + 1] = v] /\ changed' = changed \union {"ids"}
        /\ UNCHANGED <<stage, supplier, types, fields, thrown, given>>
    BY <1>8 DEF SupplierWrites
  <2>2. IsLazy(lazy')
    BY <1>1, <1>8, <2>1, SupplierSees DEF Index
  <2> QED
    BY <2>1, <2>2, UseInvariant DEF InUse
<1>9. ASSUME NEW k, NEW v, TypesWritten(k, v) PROVE IInv'
  <2>1. stage = "encoded" /\ changed' = changed \union {"types"}
        /\ UNCHANGED <<stage, lazy, supplier, fields, thrown, given>>
    BY <1>9 DEF TypesWritten, arrays
  <2> QED
    BY <1>1, <2>1, UseInvariant DEF InUse
<1>10. ASSUME UNCHANGED vars PROVE IInv'
  <2>1. UNCHANGED <<stage, lazy, supplier, types, fields, thrown, given, changed>>
    BY <1>10 DEF vars, arrays
  <2>2. Typed' /\ Untouched' /\ TypesKept'
    BY <2>1 DEF IInv, Typed, Untouched, TypesKept
  <2>3. Judged => IdsKept'
    BY <1>1, <2>1, MatchesParts DEF IInv, IdsKept
  <2>4. MatchesEager'
    BY <2>1, <2>2, <2>3, MatchesStays
  <2> QED
    BY <2>2, <2>4 DEF IInv
<1> QED
  BY <1>2, <1>4, <1>5, <1>6, <1>7, <1>8, <1>9, <1>10, ReadFieldsInvariant, ReplaceInvariant DEF Next

(***************************************************************************)
(* An array of ids implements a plain array                                *)
(***************************************************************************)
Handed == CASE stage = "new" -> 0 [] stage = "prepared" -> 1 [] OTHER -> 2
Shared == stage = "encoded" /\ supplier /\ ~lazy.materialized

\* Copies only separate the ids from their supplier.
LEMMA SharedOrNot ==
    ASSUME UNCHANGED <<stage, supplier>>, lazy.materialized => lazy'.materialized
    PROVE  Shared' \in {Shared, FALSE} /\ Handed' = Handed
<1>1. CASE Shared'
  <2>1. Shared
    BY <1>1 DEF Shared
  <2>2. Shared \in BOOLEAN /\ Shared' \in BOOLEAN
    BY DEF Shared
  <2> QED
    BY <1>1, <2>1, <2>2 DEF Handed
<1>2. CASE ~Shared'
  <2>1. Shared' \in BOOLEAN
    BY DEF Shared
  <2> QED
    BY <1>2, <2>1 DEF Handed
<1> QED
  BY <1>1, <1>2

\* The promise's arrays are the same.
LEMMA SameArrays ==
    /\ \A s : AsArray!Array(s) = Array(s)
    /\ \A a, i, v : AsArray!Put(a, i, v) = Put(a, i, v)
    /\ \A a, op : AsArray!After(a, op) = After(a, op) /\ AsArray!Returned(a, op) = Returned(a, op)
    /\ \A list : AsArray!Elems(list) = Elems(list)
<1>1. \A s : AsArray!Array(s) = Array(s)
  BY Zenon DEF AsArray!Array, Array
<1>2. \A a, i : AsArray!MayPut(a, i) = MayPut(a, i) /\ AsArray!Element(a, i) = Element(a, i)
  BY Zenon DEF AsArray!MayPut, MayPut, AsArray!Element, Element
<1>3. \A a, i, v : AsArray!Put(a, i, v) = Put(a, i, v)
  BY <1>2, Zenon DEF AsArray!Put, Put
<1>4. \A a, op : AsArray!After(a, op) = After(a, op)
  <2>1. \A a, i : AsArray!Drop(a, i) = Drop(a, i) /\ AsArray!Resize(a, i) = Resize(a, i)
                 /\ AsArray!Inextensible(a) = Inextensible(a) /\ AsArray!Frozen(a) = Frozen(a)
    BY Zenon DEF AsArray!Drop, Drop, AsArray!Resize, Resize, AsArray!Inextensible, Inextensible,
                 AsArray!Frozen, Frozen
  <2> QED
    BY <1>3, <2>1, Zenon DEF AsArray!After, After
<1>5. \A e : /\ AsArray!An(e) = An(e) /\ AsArray!Elems(e) = Elems(e) /\ AsArray!Truth(e) = Truth(e)
            /\ AsArray!Number(e) = Number(e) /\ AsArray!Keyed(e) = Keyed(e)
  BY Zenon DEF AsArray!An, An, AsArray!Elems, Elems, AsArray!Truth, Truth, AsArray!Number, Number,
               AsArray!Keyed, Keyed
<1>6. \A a : AsArray!Elements(a) = Elements(a)
  BY <1>2, Zenon DEF AsArray!Elements, Elements
<1>7. \A a, op : AsArray!Returned(a, op) = Returned(a, op)
  BY <1>2, <1>5, <1>6, Zenon DEF AsArray!Returned, Returned
<1> QED
  BY <1>1, <1>3, <1>4, <1>5, <1>7, Zenon

\* The promise's actions, of the ids as they are seen.
LEMMA Promise ==
    /\ \A op : AsArray!Do(op) <=>
           /\ Visible(lazy') = After(Visible(lazy), op) /\ Answered(op)
           /\ UNCHANGED Handed /\ Shared' \in {Shared, FALSE}
    /\ AsArray!Hand <=> Handed < 2 /\ Handed' = Handed + 1 /\ Visible(lazy').length \in Nat /\ UNCHANGED answer
    /\ AsArray!ShowsThrough <=>
           /\ Shared
           /\ \E i \in DOMAIN Visible(lazy).items : Visible(lazy') = Put(Visible(lazy), i, Visible(lazy').items[i])
           /\ UNCHANGED <<answer, Handed, Shared>>
    /\ AsArray!Separates <=> Shared /\ ~Shared' /\ Visible(lazy') = Visible(lazy) /\ UNCHANGED <<answer, Handed>>
    /\ AsArray!Init <=> Visible(lazy) = Array(<<>>) /\ Handed = 0 /\ ~Shared
    /\ UNCHANGED AsArray!arrayVars <=> Visible(lazy') = Visible(lazy) /\ UNCHANGED <<answer, Handed, Shared>>
<1>1. \A op : AsArray!Do(op) <=>
            /\ Visible(lazy') = After(Visible(lazy), op) /\ Answered(op)
            /\ UNCHANGED Handed /\ Shared' \in {Shared, FALSE}
  BY SameArrays, Zenon DEF AsArray!Do, Handed, Shared, Answered
<1>2. AsArray!Hand <=> Handed < 2 /\ Handed' = Handed + 1 /\ Visible(lazy').length \in Nat /\ UNCHANGED answer
  BY Zenon DEF AsArray!Hand, Handed, Shared, Answered
<1>3. AsArray!ShowsThrough <=>
            /\ Shared
            /\ \E i \in DOMAIN Visible(lazy).items : Visible(lazy') = Put(Visible(lazy), i, Visible(lazy').items[i])
            /\ UNCHANGED <<answer, Handed, Shared>>
  BY SameArrays, Zenon DEF AsArray!ShowsThrough, Handed, Shared, Answered
<1>4. AsArray!Separates <=> Shared /\ ~Shared' /\ Visible(lazy') = Visible(lazy) /\ UNCHANGED <<answer, Handed>>
  BY Zenon DEF AsArray!Separates, Handed, Shared, Answered
<1>5. AsArray!Init <=> Visible(lazy) = Array(<<>>) /\ Handed = 0 /\ ~Shared
  BY SameArrays, Zenon DEF AsArray!Init, Handed, Shared, Answered
<1>6. UNCHANGED AsArray!arrayVars <=> Visible(lazy') = Visible(lazy) /\ UNCHANGED <<answer, Handed, Shared>>
  BY Zenon DEF AsArray!arrayVars, Handed, Shared, Answered
<1> QED
  BY <1>1, <1>2, <1>3, <1>4, <1>5, <1>6, Zenon

\* Every step of the ids is one of the promise's, or none.
LEMMA StepImplements ==
    ASSUME IInv, IInv', [Next]_vars
    PROVE  [AsArray!Next]_(AsArray!arrayVars)
<1>1. IsLazy(lazy) /\ IsLazy(lazy') /\ Typed
  BY DEF IInv, Typed
<1>2. ASSUME NEW l, NEW ids, stage = "new", stage' = "prepared", UNCHANGED answer PROVE AsArray!Hand
  <2>1. Handed = 0 /\ Handed' = 1
    BY <1>2 DEF Handed
  <2>2. Visible(lazy').length \in Nat
    BY <1>1, Sees DEF IsArray
  <2> QED
    BY <1>2, <2>1, <2>2, Promise
<1>3. ASSUME stage = "prepared", stage' \in {"encoded", "refused"}, UNCHANGED answer PROVE AsArray!Hand
  <2>1. Handed = 1 /\ Handed' = 2
    BY <1>3 DEF Handed
  <2>2. Visible(lazy').length \in Nat
    BY <1>1, Sees DEF IsArray
  <2> QED
    BY <1>3, <2>1, <2>2, Promise
<1>4. ASSUME NEW ids \in Ids, Encode(ids) PROVE AsArray!Hand
  BY <1>2, <1>4 DEF Encode
<1>5. ASSUME NEW l, NEW isOwn, NEW ts, Encoded(l, isOwn, ts) PROVE AsArray!Hand
  BY <1>3, <1>5 DEF Encoded
<1>6. ASSUME OnIds PROVE \E op \in Operations : AsArray!Do(op)
  <2>1. PICK op \in Operations : ReadBy(op) \/ WrittenBy(op)
    BY <1>6, OnIdsAnswers
  <2>2. CASE ReadBy(op)
    <3>1. Visible(lazy') = After(Visible(lazy), op) /\ Answered(op) /\ UNCHANGED <<stage, supplier>>
          /\ (lazy.materialized => lazy'.materialized)
      BY <2>2 DEF ReadBy, SameIds
    <3> QED
      BY <3>1, SharedOrNot, Promise
  <2>3. CASE WrittenBy(op)
    <3>1. Visible(lazy') = After(Visible(lazy), op) /\ Answered(op) /\ UNCHANGED <<stage, supplier>>
          /\ (lazy.materialized => lazy'.materialized)
      BY <2>3 DEF WrittenBy
    <3> QED
      BY <3>1, SharedOrNot, Promise
  <2> QED
    BY <2>1, <2>2, <2>3
<1>7. ASSUME NEW i \in Index, NEW v \in Written, SupplierWrites(i, v) PROVE AsArray!ShowsThrough
  <2>1. stage = "encoded" /\ supplier /\ ~lazy.materialized /\ i < Len(lazy.backing) /\ v \in U32
        /\ lazy' = [lazy EXCEPT !.backing[i + 1] = v] /\ UNCHANGED <<stage, supplier, answer>>
    BY <1>7 DEF SupplierWrites
  <2>2. i \in Nat
    BY <1>7 DEF Index
  <2>3. ~lazy'.materialized /\ i \in DOMAIN Visible(lazy).items /\ Visible(lazy').items[i] = v
        /\ Visible(lazy') = Put(Visible(lazy), i, v)
    BY <1>1, <2>1, <2>2, SupplierSees
  <2>4. Shared = TRUE /\ Shared' = TRUE /\ Handed' = Handed
    <3>1. Shared /\ Shared' /\ Shared \in BOOLEAN /\ Shared' \in BOOLEAN
      BY <2>1, <2>3 DEF Shared
    <3> QED
      BY <2>1, <3>1 DEF Handed
  <2> QED
    BY <2>1, <2>3, <2>4, Promise
<1>8. ASSUME Visible(lazy') = Visible(lazy), UNCHANGED <<answer, stage, supplier>>,
             lazy.materialized => lazy'.materialized
      PROVE  AsArray!Separates \/ UNCHANGED AsArray!arrayVars
  <2>1. Shared' \in {Shared, FALSE} /\ Handed' = Handed
    BY <1>8, SharedOrNot
  <2>2. CASE Shared' = Shared
    BY <1>8, <2>1, <2>2, Promise
  <2>3. CASE Shared /\ ~Shared'
    BY <1>8, <2>1, <2>3, Promise
  <2>4. Shared \in BOOLEAN
    BY DEF Shared
  <2> QED
    BY <2>1, <2>2, <2>3, <2>4
<1>9. ASSUME ReadTokens \/ ReadAttention \/ ReadTypes PROVE AsArray!Separates \/ UNCHANGED AsArray!arrayVars
  <2>1. lazy' \in {lazy, Materialize(lazy)} /\ UNCHANGED <<answer, stage, supplier>>
    BY <1>9 DEF ReadTokens, ReadAttention, ReadTypes, ReadField
  <2>2. Visible(lazy') = Visible(lazy) /\ (lazy.materialized => lazy'.materialized)
    BY <1>1, <2>1, MaterializeSees
  <2> QED
    BY <1>8, <2>1, <2>2
<1>10. ASSUME (\E k, v : TypesWritten(k, v)) \/ (\E field : ReplaceField(field)) \/ UNCHANGED vars
       PROVE  AsArray!Separates \/ UNCHANGED AsArray!arrayVars
  <2>1. UNCHANGED <<lazy, answer, stage, supplier>>
    BY <1>10 DEF TypesWritten, ReplaceField, vars, arrays
  <2> QED
    BY <1>8, <2>1
<1> QED
  <2>1. \/ AsArray!Hand \/ (\E op \in Operations : AsArray!Do(op)) \/ AsArray!ShowsThrough
        \/ AsArray!Separates \/ UNCHANGED AsArray!arrayVars
    <3>1. CASE Next
      BY <1>4, <1>5, <1>6, <1>7, <1>9, <1>10, <3>1 DEF Next, ReturnProxy, ReturnU32, ReturnArray
    <3> QED
      BY <1>10, <3>1
  <2> QED
    BY <2>1 DEF AsArray!Next

\* Whoever holds the ids of a lazy encoding finds and leaves what they would in a plain
\* array, whether the ids have been copied (materialize) or not, and whenever they are.
THEOREM LazyIsArray == Spec => BehavesAsArray
<1>1. Init => AsArray!Init
  <2>1. SUFFICES ASSUME Init PROVE AsArray!Init
    OBVIOUS
  <2>2. <<>> \in Seq(U32) /\ lazy = Lazy(<<>>) /\ stage = "new"
    BY <2>1 DEF Init
  <2>3. Visible(lazy) = Array(<<>>)
    <3>1. IsLazy(lazy) /\ ~lazy.materialized /\ lazy.backing = <<>>
      BY <2>2, LazyIsLazy DEF Lazy
    <3> QED
      BY <3>1, Sees
  <2> QED
    BY <2>2, <2>3, Promise DEF Handed, Shared
<1>2. Init => IInv
  BY InitInvariant
<1>3. IInv /\ [Next]_vars => IInv'
  BY StepInvariant
<1>4. IInv /\ IInv' /\ [Next]_vars => [AsArray!Next]_(AsArray!arrayVars)
  BY StepImplements
<1> QED
  BY <1>1, <1>2, <1>3, <1>4, PTL DEF Spec, BehavesAsArray, AsArray!Spec

\* Whatever was done to the ids meanwhile, a lazy encoding has been refused if an eager one
\* would be, and its fields (the getters of lazyEncoding) are those of the eager one until
\* somebody writes to what they are made of.
THEOREM LazyMatchesEager == Spec => []MatchesEager
<1>1. Init => IInv
  BY InitInvariant
<1>2. IInv /\ [Next]_vars => IInv'
  BY StepInvariant
<1>3. IInv => MatchesEager
  BY DEF IInv
<1> QED
  BY <1>1, <1>2, <1>3, PTL DEF Spec
=============================================================================
