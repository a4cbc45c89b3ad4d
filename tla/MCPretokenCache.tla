---------------------------- MODULE MCPretokenCache ----------------------------
(***************************************************************************)
(* An instance of PretokenCache in which the short table grows twice.  The *)
(* home pairs of a and b are the same, and so is c's until the table has   *)
(* more than four slots.  The sampled hash places x and y together, so     *)
(* that the second to come makes the long table give it up; by the full    *)
(* hash y and z share a home.  The encoding of c is spilled, the token of  *)
(* d is too large to be the first of an inline value, that of y is empty,  *)
(* and b may become an added token that gets an id only then.              *)
(***************************************************************************)
EXTENDS PretokenCache, TLC

CONSTANTS a, b, c, d, x, y, z

MCKeyHash == (a :> 0) @@ (b :> 1) @@ (c :> 4) @@ (d :> 2)
MCSampledHash == (x :> 1) @@ (y :> 1) @@ (z :> 0)
MCFullHash == (x :> 1) @@ (y :> 2) @@ (z :> 2)
MCMerged == (a :> <<1>>) @@ (b :> <<1, 2>>) @@ (c :> <<1, 2, 1, 2, 1>>) @@ (d :> <<9>>)
         @@ (x :> <<2, 3>>) @@ (y :> <<>>) @@ (z :> <<3>>)
MCFirstIds == (a :> 1) @@ (b :> NoId) @@ (c :> 3) @@ (d :> NoId)
         @@ (x :> 5) @@ (y :> NoId) @@ (z :> NoId)
MCBatches == {<<k>> : k \in {b, c, d, x, y, z}} \union {<<d, b>>}
=============================================================================
