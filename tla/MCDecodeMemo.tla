----------------------------- MODULE MCDecodeMemo -----------------------------
(***************************************************************************)
(* DecodeMemo with ids of four kinds: two short ones, one whose text is    *)
(* too long to keep, one that the decoder refuses.                         *)
(***************************************************************************)
EXTENDS DecodeMemo, TLC

CONSTANTS x, y, long, bad

MCContents == [ids : {x, y, long, bad}, plain : {TRUE}] \union [ids : {x}, plain : {FALSE}]
MCCanonical(i) == [text |-> i]
MCDecodable(i) == i # bad
MCBytes(i)     == IF i = x THEN 4 ELSE 8
MCUnits(t)     == IF t.text = long THEN 9 ELSE IF t.text = x THEN 1 ELSE 3

Symmetric == Permutations(Eligible) \union Permutations(Container \ Eligible)
=============================================================================
