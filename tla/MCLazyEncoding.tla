----------------------------- MODULE MCLazyEncoding -----------------------------
(* Short ids over a token with a string, a special one and one without. *)
EXTENDS LazyEncoding

CONSTANTS n, s, u, Bad

MCIds      == {<<n, s>>, <<u>>}
MCU32      == {n, s, u}
MCNamed    == {n, s}
MCSpecial  == {s}
MCWritten  == {s, Bad}
MCOwnU32   == {<<s>>}
MCOwnIds   == {<<n, Bad>>, <<n, Undefined>>, <<n>>}
MCOwnTypes == {<<s>>}
\* No step depends on the last answer, and steps are checked whether or not they lead to a
\* new state: states that differ in it alone are the same one.
Unanswered == <<stage, types, fields, thrown, given, changed, writes, lazy, supplier>>
=============================================================================
