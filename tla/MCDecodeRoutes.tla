---------------------------- MODULE MCDecodeRoutes ----------------------------
(***************************************************************************)
(* DecodeRoutes over a vocabulary of an ASCII letter, a lead byte, a       *)
(* continuation, a gap, a token that holds the separator without being     *)
(* UTF-8, and a byte order mark; each optimization by itself, the pairs    *)
(* that exclude each other, and the layers only composition offers.        *)
(***************************************************************************)
EXTENDS DecodeRoutes

gap == 0
a == 1
lead == 2
tail == 3
holder == 4
mark == 5
stray == 6

MCTokenBytes(id) ==
    CASE id = a -> <<"a">> [] id = lead -> <<"EF">> [] id = tail -> <<"BF">>
      [] id = holder -> <<"BF">> \o Separator [] id = mark -> BOM

MCPresent == {a, lead, tail, holder, mark}
MCSeeds   == {a, lead}

MCInputs == {
    <<>>, <<a, a>>, <<a, mark, a>>, <<a, a, lead, tail, a>>, <<a, lead, a, tail, a>>,
    <<a, holder, a, lead, a>>, <<lead, tail, tail>>, <<a, gap>>, <<mark, stray>>,
    <<a, a, a, a, lead, a>>,
    <<a, Invalid>>}
MCElements == {mark, lead, Invalid}

Asked(given) == [given |-> given]
One(key, state) == Asked(key :> state)
Two(key1, state1, key2, state2) == Asked(key1 :> state1 @@ key2 :> state2)

\* Those that change how an array is read,
Optimizations ==
    {Asked(<<>>), One("decodeDirectScratch", "off"), One("decodeRunStitcher", "off"),
     Two("decodeDirectScratch", "off", "decodeRunStitcher", "off")}

\* those that change how its ids are decoded,
Decoding ==
    LET plain == "decodeDirectScratch" :> "off" @@ "decodeFusedValidation" :> "off" IN
    {Asked(key :> "off" @@ plain) : key \in {
        "decodeTable", "decodeMixedRuns", "decodeRunCache", "decodeDirtyRunBatch",
        "decodeRunStitcher"}}
      \union {Asked("decodeByteTable" :> "on" @@ plain)}
      \union {Asked("decodeDirtyRunBatch" :> "off" @@ key :> "on" @@ plain) :
                 key \in {"decodeLatin1Native", "decodeLatin1Portable"}}

\* those that exclude each other, and those no client may turn on.
Conflicting ==
    {One("decodeUtf16Output", "on"), One("decodeStringBuiltins", "on"),
     One("decodeTable", "on"), One("forceSplit", "off"),
     Two("decodeUtf16Output", "on", "decodeBorrowedOutput", "on"),
     Two("decodeUtf16Output", "on", "decodeStringBuiltins", "on"),
     Two("decodeStringBuiltins", "on", "decodeBorrowedOutput", "on"),
     Two("decodeByteTable", "on", "decodeMixedRuns", "on")}

\* With hot strings, over the table or over the endpoint.
Composed ==
    {[config |-> [Resolved(<<>>) EXCEPT !.hotStrings = TRUE, !.directScratch = FALSE]],
     [config |-> [NoConfig EXCEPT !.hotStrings = TRUE, !.table = FALSE, !.mixedRuns = FALSE,
                                  !.runCache = FALSE, !.dirtyRunBatch = FALSE,
                                  !.runStitcher = FALSE]],
     [config |-> [Resolved(<<>>) EXCEPT !.byteTable = TRUE, !.runStitcher = FALSE,
                                        !.directScratch = FALSE, !.fusedValidation = FALSE]],
     [config |-> [Resolved(<<>>) EXCEPT !.mixedRuns = FALSE]]}

MCRequests == Optimizations \union Decoding \union Conflicting \union Composed
MCMaxMixed == <<4, 5>>
MCMaxDirty == <<1, 4>>
MCMinCoverage == <<1, 3>>
=============================================================================
