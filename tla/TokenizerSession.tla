-------------------------- MODULE TokenizerSession ---------------------------
(***************************************************************************)
(* What a tokenizer session promises its clients, whatever tier runs       *)
(* behind a handle: the encode and close of the public API, nothing of     *)
(* workers, promises or fallbacks.                                         *)
(*                                                                         *)
(* An accepted encode returns exactly the ids of the vocabulary; the only  *)
(* reason for which it may fail is that the session was closed.  A close   *)
(* is final, and the resident tokenizer is released once, after it, when   *)
(* no accepted encode needs it any more.                                   *)
(***************************************************************************)
CONSTANT Slot

VARIABLES
    closed,     \* close() was called
    released,   \* the resident tokenizer was freed
    request     \* slot -> "idle" | "pending" | "exact" | "rejected"

vars == <<closed, released, request>>

Outcome == {"exact", "rejected"}

\* What an encode may end with in the present state: only a closed session rejects, and
\* once the resident tokenizer is gone nothing can be answered but by rejection.
Allowed(outcome) == IF outcome = "rejected" THEN closed ELSE ~released

Init == /\ closed = FALSE
        /\ released = FALSE
        /\ request = [c \in Slot |-> "idle"]

\* An open session accepts the request, and may answer it at once; a closed one refuses.
Issue(c) ==
    /\ request[c] = "idle"
    /\ \/ ~closed /\ \E r \in {"pending", "exact"} : request' = [request EXCEPT ![c] = r]
       \/ closed /\ request' = [request EXCEPT ![c] = "rejected"]
    /\ UNCHANGED <<closed, released>>

Answer(c) ==
    /\ request[c] = "pending"
    /\ \E r \in Outcome : Allowed(r) /\ request' = [request EXCEPT ![c] = r]
    /\ UNCHANGED <<closed, released>>

Deliver(c) ==
    /\ request[c] \in Outcome
    /\ request' = [request EXCEPT ![c] = "idle"]
    /\ UNCHANGED <<closed, released>>

Close == /\ ~closed
         /\ closed' = TRUE
         /\ UNCHANGED <<released, request>>

Release == /\ closed /\ ~released
           /\ released' = TRUE
           /\ UNCHANGED <<closed, request>>

Next == \/ \E c \in Slot : Issue(c) \/ Answer(c) \/ Deliver(c)
        \/ Close \/ Release

Spec == Init /\ [][Next]_vars
=============================================================================
