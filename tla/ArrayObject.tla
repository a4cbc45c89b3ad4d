------------------------------ MODULE ArrayObject ------------------------------
(***************************************************************************)
(* ECMAScript arrays, as far as a client of an encoding's ids can tell     *)
(* them apart: elements with holes between them, a length, and whether the *)
(* array is still extensible or frozen.                                    *)
(***************************************************************************)
EXTENDS Integers, Sequences, SequencesExt

CONSTANT Undefined         \* no id, and what a hole reads as

\* An array of the elements of a sequence, in which Undefined stands for a hole.
Array(elements) ==
    [items      |-> [i \in {i \in 0 .. Len(elements) - 1 : elements[i + 1] # Undefined}
                        |-> elements[i + 1]],
     length     |-> Len(elements),
     extensible |-> TRUE,
     frozen     |-> FALSE]

Element(a, i) == IF i \in DOMAIN a.items THEN a.items[i] ELSE Undefined
Elements(a)   == [k \in 1 .. a.length |-> Element(a, k - 1)]

MayPut(a, i) == ~a.frozen /\ (i \in DOMAIN a.items \/ a.extensible)
Put(a, i, v) ==
    IF ~MayPut(a, i) THEN a
    ELSE [a EXCEPT !.items  = [k \in DOMAIN @ \union {i} |-> IF k = i THEN v ELSE @[k]],
                   !.length = IF i < @ THEN @ ELSE i + 1]

Drop(a, i) ==
    IF a.frozen THEN a ELSE [a EXCEPT !.items = [k \in DOMAIN @ \ {i} |-> @[k]]]

Resize(a, n) ==
    IF a.frozen THEN a
    ELSE [a EXCEPT !.items = [k \in {k \in DOMAIN @ : k < n} |-> @[k]], !.length = n]

Inextensible(a) == [a EXCEPT !.extensible = FALSE]
Frozen(a)       == [a EXCEPT !.extensible = FALSE, !.frozen = TRUE]

(***************************************************************************)
(* What one can do with an array, what it does to it, and what it returns. *)
(***************************************************************************)
Op(name, index, value) == [name |-> name, index |-> index, value |-> value]

After(a, op) ==
    CASE op.name \in {"set", "define"}   -> Put(a, op.index, op.value)
      [] op.name = "delete"              -> Drop(a, op.index)
      [] op.name = "resize"              -> Resize(a, op.index)
      [] op.name = "preventExtensions"   -> Inextensible(a)
      [] op.name = "freeze"              -> Frozen(a)
      [] OTHER                           -> a

\* (Each kind of value is a record of its own.)
An(element)    == [element |-> element]
Elems(list)    == [elements |-> list]
Truth(holds)   == [holds |-> holds]
Number(number) == [number |-> number]
Keyed(keys)    == [keys |-> keys]

Returned(a, op) ==
    CASE op.name \in {"get", "describe"} -> An(Element(a, op.index))
      [] op.name = "has"                 -> Truth(op.index \in DOMAIN a.items)
      [] op.name = "length"              -> Number(a.length)
      [] op.name = "keys"                -> Keyed(DOMAIN a.items)
      [] op.name = "iterate"             -> Elems(Elements(a))
      [] op.name \in {"set", "define"}   -> Truth(MayPut(a, op.index))
      [] op.name = "delete"              -> Truth(~(a.frozen /\ op.index \in DOMAIN a.items))
      [] op.name = "resize"              -> Truth(~a.frozen)
      [] OTHER                           -> Truth(TRUE)
=============================================================================
