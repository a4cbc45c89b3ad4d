------------------------------- MODULE SessionLoad -------------------------------
(***************************************************************************)
(* From a handle, or from bytes of the client's, to a tokenizer and back:  *)
(* fromBytes (index.mjs, index-edge.mjs), fromResolvedVocab                *)
(* (resolver-runtime.mjs), the initialization of the wasm module that all  *)
(* sessions share, the public handle (public-runtime.mjs) with the runtime *)
(* it stands for (shim-runtime.mjs), and the tiktoken shim on it.          *)
(*                                                                         *)
(* Bytes are read three times, with awaits in between: their class, the    *)
(* construction, and the metadata of the public handle.  A session can be  *)
(* refused before its tokenizer exists and at three places after.  The     *)
(* execution tiers beyond the single one are in TierRuntime.               *)
(***************************************************************************)
EXTENDS VocabularyLoad

CONSTANTS
    Sessions,                \* the calls of fromBytes and fromResolvedVocab
    WellFormed, Readable,    \* contents that pass validation; whose metadata can be read
    Pieces                   \* contents of class sentencepiece

ASSUME ContentsAssumption ==
    WellFormed \subseteq Readable /\ Readable \subseteq Contents /\ Pieces \subseteq Contents

VARIABLES
    stage,        \* how far each session is
    bytes,        \* the buffer it is made from
    validate,     \* was full validation asked for?
    trusted,      \* resolverTrusted
    kind,         \* the class of the bytes when they were asked for it
    tokenizer,    \* the content its tokenizer was built from
    instance,     \* the instance of the wasm module its tokenizer lives in
    metadata,     \* the content its public handle describes
    refusedAt,    \* the stage at which it was refused, Nothing while it was not
    wasm,         \* the instance that the exports of the module name; 0 is none
    instances,    \* how many there are
    firstAsked    \* sessions that asked for an instance when there was none

sessionVars == <<stage, bytes, validate, trusted, kind, tokenizer, instance, metadata,
                 refusedAt, wasm, instances, firstAsked>>
vars == <<memory, reach, loadVars, sessionVars>>

Sealed(b) == \E l \in Loads : phase[l] = "handle" /\ sealed[l] = b

(***************************************************************************)
(* What the bytes are                                                      *)
(***************************************************************************)
\* bytes[10] === 1
ClassOf(c) == IF c \in Pieces THEN "piece" ELSE "bpe"

\* fromHtk, and fromResolverTrustedHtk, which skips the validation of the content.
MayBuild(c, class, isTrusted) ==
    ClassOf(c) = class /\ IF isTrusted THEN c \in Readable ELSE c \in WellFormed
MayRefuse(c, class, isTrusted) == ~(c \in WellFormed /\ ClassOf(c) = class)

(***************************************************************************)
(* Opening                                                                 *)
(***************************************************************************)
Enter(s, b, fully, isTrusted) ==
    /\ bytes' = Set(bytes, s, b)
    /\ validate' = Set(validate, s, fully) /\ trusted' = Set(trusted, s, isTrusted)
    /\ stage' = Set(stage, s, "source")

Unopened == <<kind, tokenizer, instance, metadata, refusedAt, wasm, instances, firstAsked>>

\* Mutant: whoever asks for validation is not heard when he has a handle.
TrustHandle(s, b, fully) ==
    /\ stage[s] = "new"
    /\ Sealed(b)
    /\ Enter(s, b, fully, TRUE)
    /\ UNCHANGED Unopened
    /\ UNCHANGED <<memory, reach, loadVars>>

\* fromBytes(handle, { validate }), fromResolvedVocab(handle): the handle's own bytes.
OpenHandle(s, b, fully) ==
    /\ stage[s] = "new"
    /\ Sealed(b)
    /\ Enter(s, b, fully, ~fully)
    /\ UNCHANGED Unopened
    /\ UNCHANGED <<memory, reach, loadVars>>

\* fromBytes(array): the client's array itself, which is validated whatever is asked for.
OpenBytes(s, b) ==
    /\ stage[s] = "new"
    /\ b \in reach
    /\ Enter(s, b, FALSE, FALSE)
    /\ UNCHANGED Unopened
    /\ UNCHANGED <<memory, reach, loadVars>>

\* The promise of the call rejects.
Reject(s) ==
    /\ stage' = Set(stage, s, "rejected")
    /\ refusedAt' = Set(refusedAt, s, stage[s])
    /\ UNCHANGED <<kind, firstAsked>>

\* Options that are none, bytes that are none, no handle for fromResolvedVocab.
OpenRefused(s) ==
    /\ stage[s] = "new"
    /\ Reject(s)
    /\ UNCHANGED <<bytes, validate, trusted, tokenizer, instance, metadata, wasm, instances>>
    /\ UNCHANGED <<memory, reach, loadVars>>

\* Mutant: every session loads the module.
InitAlways(s) ==
    /\ stage' = Set(stage, s, "instantiating")
    /\ firstAsked' = IF wasm = 0 THEN firstAsked \union {s} ELSE firstAsked
    /\ kind' = Set(kind, s, ClassOf(memory[bytes[s]]))
    /\ UNCHANGED refusedAt

\* __wbg_init: the module is loaded unless it has its instance already.
InitModule(s) ==
    /\ stage' = Set(stage, s, IF wasm = 0 THEN "instantiating" ELSE "constructing")
    /\ firstAsked' = IF wasm = 0 THEN firstAsked \union {s} ELSE firstAsked
    /\ kind' = Set(kind, s, ClassOf(memory[bytes[s]]))
    /\ UNCHANGED refusedAt

\* The source of the module was read, if none was given.  The class decides the runtime,
\* and that which options are checked before the module is asked for: a SentencePiece
\* session's workers and tier, which can only be the single one; all of a byte-BPE session's,
\* each by itself.
SourceRead(s, optionsAreGood) ==
    /\ stage[s] = "source"
    /\ IF optionsAreGood THEN InitModule(s) ELSE Reject(s)
    /\ UNCHANGED <<bytes, validate, trusted, tokenizer, instance, metadata, wasm, instances>>
    /\ UNCHANGED <<memory, reach, loadVars>>

\* __wbg_load, __wbg_finalize_init: the exports become those of the new instance.
Instantiated(s) ==
    /\ stage[s] = "instantiating"
    /\ instances' = instances + 1 /\ wasm' = instances + 1
    /\ stage' = Set(stage, s, "constructing")
    /\ UNCHANGED <<bytes, validate, trusted, kind, tokenizer, instance, metadata, refusedAt,
                   firstAsked>>
    /\ UNCHANGED <<memory, reach, loadVars>>

\* The source cannot be read or compiled.
InstantiationFails(s) ==
    /\ stage[s] \in {"source", "instantiating"}
    /\ Reject(s)
    /\ UNCHANGED <<bytes, validate, trusted, tokenizer, instance, metadata, wasm, instances>>
    /\ UNCHANGED <<memory, reach, loadVars>>

\* loadSingle, constructor.call: the bytes are copied into the module, and parsed.
Construct(s) ==
    /\ stage[s] = "constructing"
    /\ MayBuild(memory[bytes[s]], kind[s], trusted[s])
    /\ tokenizer' = Set(tokenizer, s, memory[bytes[s]])
    /\ instance' = Set(instance, s, wasm)
    /\ stage' = Set(stage, s, "composing")
    /\ UNCHANGED <<bytes, validate, trusted, kind, metadata, refusedAt, wasm, instances, firstAsked>>
    /\ UNCHANGED <<memory, reach, loadVars>>

ConstructRefused(s) ==
    /\ stage[s] = "constructing"
    /\ MayRefuse(memory[bytes[s]], kind[s], trusted[s])
    /\ Reject(s)
    /\ UNCHANGED <<bytes, validate, trusted, tokenizer, instance, metadata, wasm, instances>>
    /\ UNCHANGED <<memory, reach, loadVars>>

(***************************************************************************)
(* What can still fail once there is a tokenizer                           *)
(***************************************************************************)
AsBuilt == UNCHANGED <<bytes, validate, trusted, kind, tokenizer, instance, wasm, instances,
                       firstAsked>>

\* The decoder is composed and the reserved names are read; only byte-BPE has tiers.
Compose(s) ==
    /\ stage[s] = "composing"
    /\ stage' = Set(stage, s, IF kind[s] = "piece" THEN "publishing" ELSE "activating")
    /\ UNCHANGED <<metadata, refusedAt>> /\ AsBuilt
    /\ UNCHANGED <<memory, reach, loadVars>>

\* A SentencePiece session resolves its optimizations only now, and refuses bad ones; those
\* of a byte-BPE session were resolved, but createComposedDecoder refuses combinations
\* that resolve (DecodeOptions); the reserved names may not be read.  Nothing here is in a
\* try: the tokenizer is not freed.
ComposeRefused(s) ==
    /\ stage[s] = "composing"
    /\ Reject(s)
    /\ UNCHANGED <<bytes, validate, trusted, tokenizer, instance, metadata, wasm, instances>>
    /\ UNCHANGED <<memory, reach, loadVars>>

\* The tier is there, or is the single one after all if none was asked for by name.
Activated(s) ==
    /\ stage[s] = "activating"
    /\ stage' = Set(stage, s, "publishing")
    /\ UNCHANGED <<metadata, refusedAt>> /\ AsBuilt
    /\ UNCHANGED <<memory, reach, loadVars>>

Drop(s) ==
    /\ tokenizer' = Set(tokenizer, s, Nothing)
    /\ instance' = Set(instance, s, 0)

\* Mutant: a tier that cannot be had leaves the tokenizer.
ActivationLeaks(s) ==
    /\ stage[s] = "activating"
    /\ Reject(s)
    /\ UNCHANGED <<bytes, validate, trusted, tokenizer, instance, metadata, wasm, instances>>
    /\ UNCHANGED <<memory, reach, loadVars>>

\* A tier that was asked for by name cannot be had: createTierRuntime closes what it made.
ActivationFails(s) ==
    /\ stage[s] = "activating"
    /\ Drop(s)
    /\ Reject(s)
    /\ UNCHANGED <<bytes, validate, trusted, metadata, wasm, instances>>
    /\ UNCHANGED <<memory, reach, loadVars>>

\* createPublicRuntime; when the metadata cannot be read, nobody frees the tokenizer.
Publish(s) ==
    /\ stage[s] = "publishing"
    /\ IF memory[bytes[s]] \in Readable
       THEN /\ metadata' = Set(metadata, s, memory[bytes[s]])
            /\ stage' = Set(stage, s, "open")
            /\ UNCHANGED <<kind, firstAsked, refusedAt>>
       ELSE Reject(s) /\ UNCHANGED metadata
    /\ UNCHANGED <<bytes, validate, trusted, tokenizer, instance, wasm, instances>>
    /\ UNCHANGED <<memory, reach, loadVars>>

\* free(), from the public handle or from a shim.
Free(s) ==
    /\ stage[s] = "open"
    /\ stage' = Set(stage, s, "closed")
    /\ Drop(s)
    /\ UNCHANGED <<bytes, validate, trusted, kind, metadata, refusedAt, wasm, instances, firstAsked>>
    /\ UNCHANGED <<memory, reach, loadVars>>

Init ==
    /\ LoadInit
    /\ stage = [s \in Sessions |-> "new"]
    /\ bytes = [s \in Sessions |-> Nothing]
    /\ validate = [s \in Sessions |-> FALSE] /\ trusted = [s \in Sessions |-> FALSE]
    /\ kind = [s \in Sessions |-> "bpe"]
    /\ tokenizer = [s \in Sessions |-> Nothing]
    /\ instance = [s \in Sessions |-> 0]
    /\ metadata = [s \in Sessions |-> Nothing]
    /\ refusedAt = [s \in Sessions |-> Nothing]
    /\ wasm = 0 /\ instances = 0 /\ firstAsked = {}

SessionNext ==
    \E s \in Sessions :
        \/ \E b \in Buffers, fully \in BOOLEAN : OpenHandle(s, b, fully)
        \/ \E b \in reach : OpenBytes(s, b)
        \/ OpenRefused(s)
        \/ \E good \in BOOLEAN : SourceRead(s, good)
        \/ Instantiated(s) \/ InstantiationFails(s)
        \/ Construct(s) \/ ConstructRefused(s)
        \/ Compose(s) \/ ComposeRefused(s)
        \/ Activated(s) \/ ActivationFails(s)
        \/ Publish(s)
        \/ Free(s)

Next == SessionNext \/ (LoadNext /\ UNCHANGED sessionVars)

Spec == Init /\ [][Next]_vars /\ LoadFairness

(***************************************************************************)
(* Properties                                                              *)
(***************************************************************************)
Stages == {"new", "source", "instantiating", "constructing", "composing", "activating",
           "publishing"}

SessionTypeOK ==
    /\ stage \in [Sessions -> Stages \union {"open", "closed", "rejected"}]
    /\ refusedAt \in [Sessions -> Stages \union {Nothing}]
    /\ bytes \in [Sessions -> Buffers \union {Nothing}]
    /\ validate \in [Sessions -> BOOLEAN] /\ trusted \in [Sessions -> BOOLEAN]
    /\ kind \in [Sessions -> {"piece", "bpe"}]
    /\ tokenizer \in [Sessions -> Contents \union {Nothing}]
    /\ metadata \in [Sessions -> Contents \union {Nothing}]
    /\ wasm = instances /\ instances \in Nat
    /\ instance \in [Sessions -> 0 .. instances]
    /\ firstAsked \subseteq Sessions

TypeOK == LoadTypeOK /\ SessionTypeOK

\* A tokenizer that content was not validated for is that of a handle whose client did not
\* ask for validation; one made from a handle was built from what the handle holds, and its
\* public handle describes the same, although its bytes were read at three times.
MadeFromHandle ==
    \A s \in Sessions : tokenizer[s] # Nothing =>
        /\ tokenizer[s] \notin WellFormed => Sealed(bytes[s]) /\ ~validate[s]
        /\ Sealed(bytes[s]) =>
               /\ tokenizer[s] = memory[bytes[s]]
               /\ stage[s] = "open" => metadata[s] = tokenizer[s]

\* Of the sessions that were refused, two kinds hold a tokenizer that nobody will free: those
\* whose decoder could not be composed, and those whose metadata could not be read, which
\* takes a client that wrote into its own bytes after the construction.  On a handle only
\* the former is left; an activation that fails leaves nothing, whatever the bytes.
HeldAfterRefusal ==
    \A s \in Sessions : stage[s] = "rejected" /\ tokenizer[s] # Nothing =>
        \/ refusedAt[s] = "composing"
        \/ refusedAt[s] = "publishing" /\ bytes[s] \in reach /\ ~Sealed(bytes[s])

\* A live tokenizer is in another instance than the module's exports only if two sessions
\* asked for the first instance together; then it may be that of any session.
OnlyFirstLoadsSplit ==
    (\E s \in Sessions : tokenizer[s] # Nothing /\ instance[s] # wasm) =>
        \E r, q \in firstAsked : r # q
=============================================================================
