----------------------------- MODULE MCWorkerPool -----------------------------
(***************************************************************************)
(* WorkerPool with two threads, batches of two, and texts that fill a      *)
(* batch, divide a pretoken and do both.                                   *)
(***************************************************************************)
EXTENDS WorkerPool

MCCall == {1, 2}
MCTexts == {NotText, <<1, 1, 1>>, <<1, 2>>, <<3>>}
MCIdCount(p, k) == 1 + ((p + k) % 2)
=============================================================================
