---------------------------- MODULE MCTierRuntime ----------------------------
(***************************************************************************)
(* TierRuntime on small instances: what the browser offers, and what the   *)
(* symmetry of the client's slots allows TLC to leave out.                 *)
(***************************************************************************)
EXTENDS TierRuntime, TLC

Isolated    == {[isolated |-> TRUE,  sharedArrayBuffer |-> TRUE,  worker |-> TRUE]}
NotIsolated == {[isolated |-> FALSE, sharedArrayBuffer |-> FALSE, worker |-> TRUE]}
Either      == Isolated \union NotIsolated

SlotSymmetry == Permutations(Slot)
=============================================================================
