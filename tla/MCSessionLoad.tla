----------------------------- MODULE MCSessionLoad -----------------------------
(***************************************************************************)
(* One handle and one array of the client's, two sessions: two             *)
(* vocabularies of either class, a content that only validation refuses,   *)
(* and one that cannot be read.                                            *)
(***************************************************************************)
EXTENDS SessionLoad, TLC

CONSTANTS vocab, edit, good, piece, forged, broken

MCPinned == <<"cl100k", vocab>> :> good
=============================================================================
