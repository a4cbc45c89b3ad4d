--------------------------------- MODULE JsArray ---------------------------------
(***************************************************************************)
(* What the ids of an encoding promise: they are a plain array.  The only  *)
(* things that a plain array of one's own would not do: when a text is      *)
(* encoded, and when the post-processor returns, another array may take    *)
(* its place, and that one may show the writes of whoever supplied its     *)
(* elements until it has them for itself.                                  *)
(***************************************************************************)
EXTENDS ArrayObject

CONSTANTS Operations, Decoded(_, _)      \* Decoded(a, skip): what decode makes of the ids

VARIABLES array, answer, handed, shared

arrayVars == <<array, answer, handed, shared>>

\* An operation on the array is answered as by the plain array.
Do(op) ==
    /\ array' = After(array, op)
    /\ answer' = [to |-> op, value |-> IF op.name = "decode" THEN Elems(Decoded(array, op.value))
                                       ELSE Returned(array, op)]
    /\ UNCHANGED handed
    /\ shared' \in {shared, FALSE}

Hand ==
    /\ handed < 2 /\ handed' = handed + 1
    /\ array'.length \in Nat /\ UNCHANGED answer

ShowsThrough ==
    /\ shared
    /\ \E i \in DOMAIN array.items : array' = Put(array, i, array'.items[i])
    /\ UNCHANGED <<answer, handed, shared>>

Separates == shared /\ ~shared' /\ UNCHANGED <<array, answer, handed>>

Init == array = Array(<<>>) /\ handed = 0 /\ ~shared

Next == (\E op \in Operations : Do(op)) \/ Hand \/ ShowsThrough \/ Separates

Spec == Init /\ [][Next]_arrayVars
=============================================================================
