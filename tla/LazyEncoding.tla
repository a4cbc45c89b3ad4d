------------------------------ MODULE LazyEncoding ------------------------------
(***************************************************************************)
(* The encodings of the Hugging Face shim whose fields are made when they  *)
(* are read (hypertok-js/src/huggingface-lazy-shim.mjs, over encodeWith of *)
(* huggingface-shim.mjs).  The ids are a proxy before an array that is     *)
(* empty until the ids are copied into it, which a write or enough reads   *)
(* cause.  The client's post-processor gets such ids and may keep what it  *)
(* returns: these, a Uint32Array or an array of its own.                   *)
(***************************************************************************)
EXTENDS ArrayObject

CONSTANTS
    Ids,                      \* what the tokenizer may return: sequences of u32
    U32, Named, Special,      \* the u32 considered; those with a token string; specialTokens
    UnknownTokenId,
    Written,                  \* what clients write into arrays: u32 and others, not undefined
    OwnU32, OwnIds, OwnTypes, \* Uint32Arrays and arrays of the post-processor's
    MaterializeAfterReads,    \* materializeAfterReads
    MaxLength, MaxWrites,     \* bounds of the model: on lengths, on writes
    Nothing                   \* no value

ASSUME IdsAssumption ==
    /\ \A ids \in Ids \union OwnU32 : ids \in Seq(U32)
    /\ Special \subseteq Named /\ Named \subseteq U32 /\ UnknownTokenId \in U32
    /\ Undefined \notin U32 \union Written
    /\ \A ids \in OwnIds : ids \in Seq(U32 \union Written \union {Undefined})

ASSUME BoundAssumption ==
    /\ MaterializeAfterReads \in Nat /\ MaxLength \in Nat /\ MaxWrites \in Nat
    /\ Nothing \notin {"tokens", "attention", "types"}

VARIABLES
    stage,      \* "new", "prepared" (postProcess runs), "encoded", "refused"
    lazy,       \* the state behind the ids: see Lazy
    supplier,   \* may the post-processor write to what backs the ids?
    types,      \* the token_type_ids it returned, Nothing if they are not asked for
    fields,     \* what the getters remember
    answer,     \* the last operation on the ids and what it returned
    thrown,     \* the field whose getter threw last
    given,      \* history: what an eager encoding would be made of
    changed,    \* history: what was written to since: a subset of {"ids", "types"}
    writes      \* counts up to MaxWrites

arrays == <<lazy, supplier, answer>>
vars   == <<stage, types, fields, thrown, given, changed, writes, arrays>>

(***************************************************************************)
(* lazyU32Array                                                            *)
(***************************************************************************)
Lazy(ids)   == [backing |-> ids, materialized |-> FALSE, dirty |-> FALSE, reads |-> 0,
                target |-> Array(<<>>)]
\* An array without a proxy is like one that is done with its backing.
Plain(ids)  == [backing |-> <<>>, materialized |-> TRUE, dirty |-> TRUE, reads |-> 0,
                target |-> Array(ids)]

Materialize(l) ==
    IF l.materialized THEN l
    ELSE [l EXCEPT !.target.items = Array(l.backing).items, !.target.length = Len(l.backing),
                   !.backing = <<>>, !.materialized = TRUE]

\* Mutant: the ids are not copied before a write.
MarkOnly(l) == [l EXCEPT !.dirty = TRUE]

MarkDirty(l) == [Materialize(l) EXCEPT !.dirty = TRUE]

\* The ids as one sees them.
Visible(l) == IF l.materialized THEN l.target ELSE [Array(l.backing) EXCEPT
                  !.extensible = l.target.extensible, !.frozen = l.target.frozen]

Result(l, value) == [lazy |-> l, value |-> value]

\* get of an index: enough of these materialize.
GetTrap(l, i) ==
    LET read == [l EXCEPT !.reads = @ + 1] IN
    IF l.materialized \/ i >= Len(l.backing) THEN Result(l, Element(l.target, i))
    ELSE Result(IF read.reads >= MaterializeAfterReads THEN Materialize(read) ELSE read,
                l.backing[i + 1])

LengthTrap(l) == IF l.materialized THEN l.target.length ELSE Len(l.backing)

HasTrap(l, i) == IF l.materialized THEN i \in DOMAIN l.target.items ELSE i < Len(l.backing)

DescribeTrap(l, i) ==
    IF ~l.materialized /\ i < Len(l.backing) THEN l.backing[i + 1] ELSE Element(l.target, i)

\* `has` of the k-th element, and `get` if there is one.
Visit(seen, k) ==
    IF ~HasTrap(seen.lazy, k - 1) THEN [seen EXCEPT !.value = Append(@, Undefined)]
    ELSE LET got == GetTrap(seen.lazy, k - 1) IN Result(got.lazy, Append(seen.value, got.value))

\* A method of arrays that visits the elements up to n.
Visited(l, n) == FoldLeft(Visit, Result(l, <<>>), [k \in 1 .. n |-> k])

(***************************************************************************)
(* decode of the shim: `every` up to the first id that is none, `map`      *)
(***************************************************************************)
Known(id) == IF id \in Named \union {Undefined} THEN id ELSE UnknownTokenId
ToCore(ids, skip) ==
    LET known == [k \in DOMAIN ids |-> Known(ids[k])]
    IN  IF skip THEN SelectSeq(known, LAMBDA id : id \notin Special \union {Undefined}) ELSE known

DecodeIds(l, skip) ==
    LET invalid == {k \in 1 .. LengthTrap(l) :
                        Element(Visible(l), k - 1) \notin U32 \union {Undefined}}
        first   == CHOOSE k \in invalid : \A j \in invalid : k <= j
        checked == Visited(l, IF invalid = {} THEN LengthTrap(l) ELSE first)
        mapped  == Visited(checked.lazy, LengthTrap(checked.lazy))
    IN  IF LengthTrap(l) = 0 THEN Result(l, Nothing)
        ELSE IF invalid # {} THEN Result(checked.lazy, Nothing)
        ELSE Result(mapped.lazy, ToCore(mapped.value, skip))

\* The same of a plain array.
Decoded(a, skip) ==
    IF a.length = 0 \/ \E i \in DOMAIN a.items : a.items[i] \notin U32 THEN Nothing
    ELSE ToCore(Elements(a), skip)

(***************************************************************************)
(* Operations on the ids, by the post-processor or by the client           *)
(***************************************************************************)
InUse == stage \in {"prepared", "encoded"}

Reads(op, result, Wrapped(_)) ==
    /\ InUse
    /\ lazy' = result.lazy
    /\ answer' = [to |-> op, value |-> Wrapped(result.value)]
    /\ UNCHANGED <<stage, supplier, types, fields, given, changed, writes>>
    /\ thrown' = Nothing

Writes(op, l) ==
    /\ InUse /\ writes < MaxWrites
    /\ lazy' = [l EXCEPT !.target = After(@, op)]
    /\ answer' = [to |-> op, value |-> Returned(l.target, op)]
    /\ changed' = IF stage = "encoded" /\ Elements(lazy'.target) # Elements(Visible(lazy))
                  THEN changed \union {"ids"} ELSE changed
    /\ writes' = writes + 1 /\ thrown' = Nothing
    /\ UNCHANGED <<stage, supplier, types, fields, given>>

Index == 0 .. MaxLength - 1
At(name, i) == Op(name, i, Nothing)
All(name)   == Op(name, 0, Nothing)

Get(i)      == Reads(At("get", i), GetTrap(lazy, i), An)
Length      == Reads(All("length"), Result(lazy, LengthTrap(lazy)), Number)
Has(i)      == Reads(At("has", i), Result(lazy, HasTrap(lazy, i)), Truth)
Describe(i) == Reads(At("describe", i), Result(lazy, DescribeTrap(lazy, i)), An)
Keys        == Reads(All("keys"), Result(Materialize(lazy), DOMAIN Materialize(lazy).target.items),
                     Keyed)
Iterate     == Reads(All("iterate"), Result(Materialize(lazy), Elements(Materialize(lazy).target)),
                     Elems)
Decode(skip) == Reads(Op("decode", 0, skip), DecodeIds(lazy, skip), Elems)

Set(i, v)         == Writes(Op("set", i, v), MarkDirty(lazy))
Define(i, v)      == Writes(Op("define", i, v), MarkDirty(lazy))
Delete(i)         == Writes(At("delete", i), MarkDirty(lazy))
SetLength(n)      == Writes(At("resize", n), MarkDirty(lazy))
PreventExtensions == Writes(All("preventExtensions"), Materialize(lazy))
SetPrototypeOf    == Writes(All("setPrototypeOf"), MarkDirty(lazy))
\* Object.freeze: preventExtensions, then ownKeys, then each of them is redefined.
Freeze            == Writes(All("freeze"), MarkDirty(lazy))

(***************************************************************************)
(* encodeWith                                                              *)
(***************************************************************************)
NoTypes == Nothing
Unread  == [value |-> Nothing, after |-> {}]

\* processIds hands the ids to the post-processor.
Encode(ids) ==
    /\ stage = "new" /\ stage' = "prepared"
    /\ lazy' = Lazy(ids)
    /\ UNCHANGED <<supplier, types, fields, answer, thrown, given, changed, writes>>

\* u32Array with retainArray: holes are not looked at.
HoldsU32(a) == \A i \in DOMAIN a.items : a.items[i] \in U32

\* Mutant: ids that went through the post-processor are not looked at again.
AcceptsProxy(l) == TRUE

\* cleanLazyU32Array, or u32Array of the others.
Accepts(l) == ~l.dirty \/ HoldsU32(l.target)

\* lazyEncoding of what the post-processor returned.
Encoded(l, isOwn, ts) ==
    /\ stage = "prepared"
    /\ stage' = IF Accepts(l) THEN "encoded" ELSE "refused"
    /\ lazy' = l /\ supplier' = isOwn /\ types' = ts
    /\ given' = [ids |-> Elements(Visible(l)), types |-> ts]
    /\ UNCHANGED <<fields, answer, thrown, changed, writes>>

ReturnProxy(ts) == Encoded(lazy, FALSE, ts)
ReturnU32(ids, ts) == Encoded(Lazy(ids), TRUE, ts)
ReturnArray(ids, ts) == Encoded(Plain(ids), FALSE, ts)

(***************************************************************************)
(* The post-processor writes to what it returned                           *)
(***************************************************************************)
SupplierWrites(i, v) ==
    /\ stage = "encoded" /\ supplier /\ ~lazy.materialized /\ i < Len(lazy.backing) /\ v \in U32
    /\ writes < MaxWrites /\ writes' = writes + 1
    /\ lazy' = [lazy EXCEPT !.backing[i + 1] = v]
    /\ changed' = changed \union {"ids"}
    /\ UNCHANGED <<stage, supplier, types, fields, answer, thrown, given>>

TypesWritten(k, v) ==
    /\ stage = "encoded" /\ types # NoTypes /\ k \in DOMAIN types
    /\ writes < MaxWrites /\ writes' = writes + 1
    /\ types' = [types EXCEPT ![k] = v]
    /\ changed' = changed \union {"types"}
    /\ UNCHANGED <<stage, arrays, fields, thrown, given>>

(***************************************************************************)
(* The other fields                                                        *)
(***************************************************************************)
TokensOf(a)    == [a EXCEPT !.extensible = TRUE, !.frozen = FALSE]
AttentionOf(a) == [TokensOf(a) EXCEPT !.items = [i \in DOMAIN @ |-> 1]]

Remember(field, value) ==
    fields' = [fields EXCEPT ![field] = [value |-> value, after |-> changed]]

ReadField(field, l, fails, value) ==
    /\ stage = "encoded"
    /\ IF fields[field] # Unread THEN UNCHANGED <<lazy, fields>> /\ thrown' = Nothing
       ELSE /\ lazy' = l
            /\ IF fails THEN thrown' = field /\ UNCHANGED fields
               ELSE thrown' = Nothing /\ Remember(field, value)
    /\ UNCHANGED <<stage, supplier, types, answer, given, changed, writes>>

\* A token is known by its id: what has no string throws.
ReadTokens ==
    LET l == Materialize(lazy)
    IN  ReadField("tokens", l, \E i \in DOMAIN l.target.items : l.target.items[i] \notin Named,
                  TokensOf(l.target))
ReadAttention ==
    LET l == Materialize(lazy) IN ReadField("attention", l, FALSE, AttentionOf(l.target))
ReadTypes ==
    /\ types # NoTypes
    /\ ReadField("types", lazy,
                 ~(types \in Seq(U32) /\ Len(types) = LengthTrap(lazy)), types)

ReplaceField(field) ==
    /\ stage = "encoded" /\ (field = "types" => types # NoTypes)
    /\ fields' = [fields EXCEPT ![field] = [value |-> Nothing, after |-> {"replaced"}]]
    /\ UNCHANGED <<stage, arrays, types, thrown, given, changed, writes>>

Init ==
    /\ stage = "new" /\ lazy = Lazy(<<>>) /\ supplier = FALSE /\ types = NoTypes
    /\ fields = [field \in {"tokens", "attention", "types"} |-> Unread]
    /\ answer = Nothing /\ thrown = Nothing
    /\ given = [ids |-> <<>>, types |-> NoTypes] /\ changed = {} /\ writes = 0

OnIds ==
    \/ \E i \in Index : Get(i) \/ Has(i) \/ Describe(i) \/ Delete(i)
    \/ \E i \in Index, v \in Written : Set(i, v) \/ Define(i, v)
    \/ \E n \in 0 .. MaxLength : SetLength(n)
    \/ \E skip \in BOOLEAN : Decode(skip)
    \/ Length \/ Keys \/ Iterate \/ PreventExtensions \/ SetPrototypeOf \/ Freeze

Next ==
    \/ \E ids \in Ids : Encode(ids)
    \/ \E ts \in OwnTypes \union {NoTypes} :
           \/ ReturnProxy(ts)
           \/ \E ids \in OwnU32 : ReturnU32(ids, ts)
           \/ \E ids \in OwnIds : ReturnArray(ids, ts)
    \/ OnIds
    \/ \E i \in Index, v \in Written : SupplierWrites(i, v) \/ TypesWritten(i + 1, v)
    \/ ReadTokens \/ ReadAttention \/ ReadTypes
    \/ \E field \in DOMAIN fields : ReplaceField(field)

Spec == Init /\ [][Next]_vars

(***************************************************************************)
(* Properties                                                              *)
(***************************************************************************)
Operations ==
    {At(name, i) : name \in {"get", "has", "describe", "delete"}, i \in Index}
    \union {Op(name, i, v) : name \in {"set", "define"}, i \in Index, v \in Written}
    \union {At("resize", n) : n \in 0 .. MaxLength}
    \union {Op("decode", 0, skip) : skip \in BOOLEAN}
    \union {All(name) : name \in {"length", "keys", "iterate", "preventExtensions",
                                   "setPrototypeOf", "freeze"}}

AsArray == INSTANCE JsArray WITH
    array  <- Visible(lazy),
    handed <- CASE stage = "new" -> 0 [] stage = "prepared" -> 1 [] OTHER -> 2,
    shared <- stage = "encoded" /\ supplier /\ ~lazy.materialized

\* Whatever is done to the ids, by the post-processor and then by the client, and whenever
\* they are copied meanwhile: each operation finds and leaves what it would find and leave
\* in a plain array.
BehavesAsArray == AsArray!Spec

\* What eagerEncoding makes of what the post-processor returned.
EagerRefuses(ids) == \E k \in DOMAIN ids : ids[k] \notin U32
EagerField(field) ==
    CASE field = "tokens"    -> [fails |-> \E k \in DOMAIN given.ids : given.ids[k] \notin Named,
                                 value |-> Array(given.ids)]
      [] field = "attention" -> [fails |-> FALSE, value |-> AttentionOf(Array(given.ids))]
      [] field = "types"     -> [fails |-> given.types \notin Seq(U32)
                                              \/ Len(given.types) # Len(given.ids),
                                 value |-> given.types]

\* A lazy encoding is an eager one put off: it is refused if the eager one is, a field that
\* was read before anybody wrote to what it is made of is that of the eager encoding, and a
\* getter throws only where the eager encoding would have thrown.  Except that an array
\* with holes, which is refused eagerly, is taken as it is.
MatchesEager ==
    LET made(field) == IF field = "types" THEN {"ids", "types"} ELSE {"ids"} IN
    stage \in {"encoded", "refused"} /\ Undefined \notin ToSet(given.ids) =>
        /\ stage = "refused" <=> EagerRefuses(given.ids)
        /\ stage = "encoded" /\ "ids" \notin changed => Elements(Visible(lazy)) = given.ids
        /\ \A field \in DOMAIN fields :
               /\ fields[field] # Unread /\ fields[field].after \intersect (made(field) \union {"replaced"}) = {} =>
                      ~EagerField(field).fails /\ fields[field].value = EagerField(field).value
               /\ thrown = field /\ changed \intersect made(field) = {} => EagerField(field).fails
=============================================================================
