----------------------- MODULE MCOverlapReconciliation -----------------------
(***************************************************************************)
(* OverlapReconciliation over a real BPE: every string of some lengths     *)
(* over two letters, with each merge table below.  A table lists tokens in *)
(* rank order; two neighbouring tokens merge when the table holds their    *)
(* concatenation, lowest rank first, leftmost first.  A text is given by   *)
(* what the chunking sees of it: its edges and the encoding of each span.  *)
(***************************************************************************)
EXTENDS OverlapReconciliation, FiniteSets

CONSTANTS Sizes, Tables

Letters == {1, 2}

\* Vocabularies: two merges over the letters.
Pairs == { << <<1, 1>>, <<2, 1>> >>, << <<1, 2>>, <<1, 1>> >> }

\* The rank of the token bytes[x, z), 0 for none.
Rank(bytes, table, x, z) ==
    LET token == SubSeq(bytes, x + 1, z)
    IN  IF \E r \in DOMAIN table : table[r] = token
        THEN CHOOSE r \in DOMAIN table : table[r] = token ELSE 0

\* What is left of an ascending sequence of boundaries when no merge applies any more.
Merged(bytes, table) ==
    LET merge[cuts \in Seq(0 .. Len(bytes))] ==
            LET rank  == [k \in 2 .. Len(cuts) - 1 |->
                             Rank(bytes, table, cuts[k - 1], cuts[k + 1])]
                found == {k \in DOMAIN rank : rank[k] # 0}
                best  == CHOOSE k \in found : \A l \in found :
                             rank[k] < rank[l] \/ (rank[k] = rank[l] /\ k <= l)
            IN  IF found = {} THEN {cuts[k] : k \in DOMAIN cuts}
                ELSE merge[SubSeq(cuts, 1, best - 1) \o SubSeq(cuts, best + 1, Len(cuts))]
    IN  [x \in 0 .. Len(bytes) |-> [z \in x .. Len(bytes) |->
            merge[[k \in 1 .. z - x + 1 |-> x + k - 1]]]]

\* The edges when every byte is one, and when letter 2 continues a code point.
Edges(bytes) == {0 .. Len(bytes),
                 {p \in 0 .. Len(bytes) : p \in {0, Len(bytes)} \/ bytes[p + 1] # 2}}

MCText == UNION {{[size |-> Len(bytes), edges |-> edges, cuts |-> Merged(bytes, table)] :
                      edges \in Edges(bytes), table \in Tables} :
                 bytes \in UNION {[1 .. n -> Letters] : n \in Sizes}}
MCSize(t)      == t.size
MCIsEdge(t, p) == p \in t.edges
MCCut(t, s)    == t.cuts[s.start][s.end]
=============================================================================
