--------------------------- MODULE MCWasmBoundary ---------------------------
(***************************************************************************)
(* WasmBoundary on small instances: a session of each kind and, for BPE,   *)
(* of each way to decode; strings of up to three characters over a         *)
(* resident buffer of four bytes.                                          *)
(***************************************************************************)
EXTENDS WasmBoundary

MCSessions ==
    {[kind |-> "bpe", route |-> r] : r \in Routes}
    \union {[kind |-> k, route |-> "raw"] : k \in {"sentencepiece", "transferred"}}

MCTexts == {<<>>, <<1>>, <<3, 4>>, <<1, 4, 3>>, <<4, 4, 4>>}
=============================================================================
