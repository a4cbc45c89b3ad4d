---------------------------- MODULE WasmBoundary ----------------------------
(***************************************************************************)
(* The boundary between a tokenizer session and its WebAssembly instance:  *)
(* the glue of wasm/single/hypertok_wasm_core.js, and the sessions that    *)
(* call it (tier-runtime.mjs, the SentencePiece session of index.mjs,      *)
(* tier-worker.mjs and the decoders).                                      *)
(*                                                                         *)
(* Memory that WebAssembly owns is handled by hand here.  Any allocation   *)
(* may grow it, which detaches every typed array made over it; a block     *)
(* allocated for an argument belongs to JavaScript until the call takes    *)
(* it, a result's from the return until the glue frees it; an error, or a  *)
(* view a call returns, waits in a slot of the externref table; a          *)
(* tokenizer is a pointer that free() must give up exactly once.           *)
(*                                                                         *)
(* An operation is the list of steps its function takes, each action one   *)
(* of them or, within a call, one of the glue's.  What the steps compute   *)
(* is left out, except how the input's bytes get into the resident buffer. *)
(***************************************************************************)
EXTENDS Integers, FiniteSets, SequencesExt, WasmGlue

CONSTANTS
    Sessions,          \* the sessions considered: [kind, route] records
    Texts,             \* the strings encoded, a character given by its bytes in UTF-8
    InitialBytes,      \* INITIAL_BYTES
    ShrinkBoundBytes,  \* SHRINK_BOUND_BYTES
    MaxAbandoned,      \* bound: argument blocks lost in calls on a freed tokenizer
    MaxLeft            \* bound: errors left in the externref table

Kinds  == {"bpe", "sentencepiece", "transferred"}
Routes == {"raw", "assembly", "utf16", "borrowed", "builtins"}

ASSUME SessionAssumption == Sessions \subseteq [kind: Kinds, route: Routes]
ASSUME TextAssumption == Texts \subseteq Seq(1 .. 4)
ASSUME ResidentAssumption ==
    InitialBytes \in Nat \ {0} /\ ShrinkBoundBytes \in Nat /\ InitialBytes <= ShrinkBoundBytes
ASSUME BoundAssumption == MaxAbandoned \in Nat /\ MaxLeft \in Nat

Width == {"u8", "u16", "u32"}
Class == {"tokenizer", "encoding", "overlap"}

VARIABLES
    session,     \* which tokenizer the session holds and how it decodes
    phase,       \* "new" | "open" | "closed" | "lost": nobody refers to it any more
    op,          \* the function on the stack, "none" between turns
    todo,        \* the steps it has yet to take
    cleanup,     \* the steps of the finally block it is in
    thrown,      \* it is unwinding
    suspended,   \* the function that awaits a worker, with its todo and cleanup
    passed,      \* arguments of the call at the head of todo already copied
    returned,    \* that call's outcome: "nothing" yet, "value" or "error"
    views,       \* cachedUint8ArrayMemory0 and the others: "none" | "attached" | "detached"
    borrowed,    \* the view a call returned: "none" | "live" | "stale" | "detached"
    blocks,      \* blocks of WebAssembly memory JavaScript has to give back
    slots,       \* slots of the externref table it has to give back
    pointer,     \* __wbg_ptr of the session's object of a class: "none" | "live" | "null"
    allocated,   \* the classes whose object exists in WebAssembly memory
    registered,  \* those a FinalizationRegistry will free
    input,       \* the string being encoded
    remaining,   \* remaining
    written,     \* written
    capacity,    \* ResidentInput.bytes.len()
    highWater,   \* ResidentInput.high_water
    abandoned,   \* blocks lost because a call on a freed tokenizer threw
    left,        \* slots the decoder over string builtins left taken
    faults       \* what WebAssembly memory does not forgive

stack     == <<op, todo, cleanup, thrown, suspended>>
call      == <<passed, returned>>
memory    == <<views, borrowed, blocks, slots>>
objects   == <<pointer, allocated, registered>>
resident  == <<input, remaining, written, capacity, highWater>>
losses    == <<abandoned, left>>
vars      == <<session, phase, stack, call, memory, objects, resident, losses, faults>>

---------------------------------------------------------------------------
\* The steps of a function.

Call(of, method)    == [do |-> "call",    of |-> of, method |-> method]
Attempt(of, method) == [do |-> "attempt", of |-> of, method |-> method]  \* its error ends the function
Construct(method)   == Call("class", method)
Free(of)            == [do |-> "free",  of |-> of, method |-> "free"]
Other(what)         == [do |-> what,    of |-> "none", method |-> what]
Try    == Other("try")          \* what follows has a finally block
Await  == Other("await")
Loop   == Other("loop")         \* while (remaining.length !== 0)
Fill   == Other("encodeInto")   \* textEncoder.encodeInto(remaining, view.subarray(written))
Read   == Other("decode")       \* decoder.decode(view)
Raw    == Other("raw")          \* decodeAssemblyUtf16 without the glue

Calls == {"call", "attempt", "raw"}

TokenizerMethod(kind, method) ==
    CASE kind = "bpe"           -> WasmTokenizer(method)
      [] kind = "sentencepiece" -> WasmSentencePieceTokenizer(method)
      [] kind = "transferred"   -> WasmTransferredTokenizer[method]

MethodOf(kind, step) ==
    CASE step.do = "raw"                     -> RawDecodeUtf16
      [] step.of \in {"class", "tokenizer"} -> TokenizerMethod(kind, step.method)
      [] step.of = "overlap"                 -> WasmOverlapReconciler[step.method]
      [] step.of = "encoding" ->
           IF kind = "bpe" THEN WasmReservedEncoding[step.method]
                           ELSE WasmSentencePieceEncoding[step.method]

Method(step) == MethodOf(session.kind, step)

\* try { ids(), starts(), foundJson() } finally { encoded.free(); }
\* (mutated: the try starts once the encoding has been read)
EncodeReservedLate ==
    <<Call("tokenizer", "encodeReserved"),
      Call("encoding", "ids"), Call("encoding", "starts"), Call("encoding", "foundJson"), Try>>
EncodeReserved ==
    <<Call("tokenizer", "encodeReserved"), Try,
      Call("encoding", "ids"), Call("encoding", "starts"), Call("encoding", "foundJson")>>

EncodeLongPretoken(enlargements) ==
    IF enlargements
    THEN <<Call("tokenizer", "pretokenRanges"), Call("tokenizer", "defaultChunkSize"),
           Call("tokenizer", "beginOverlap"), Try,
           Call("overlap", "initialRanges"), Await, Call("overlap", "acceptInitial"),
           Await, Call("overlap", "acceptEnlargement"), Call("overlap", "takeIds")>>
    ELSE <<Call("tokenizer", "pretokenRanges"), Call("tokenizer", "defaultChunkSize"),
           Call("tokenizer", "beginOverlap"), Try,
           Call("overlap", "initialRanges"), Await, Call("overlap", "acceptInitial"),
           Call("overlap", "takeIds")>>

BpeLoad(constructor, lazyWorkerImage) ==
    IF lazyWorkerImage
    THEN <<Construct(constructor), Call("tokenizer", "reservedNamesJson"),
           Attempt("tokenizer", "vocabularyDigest")>>
    ELSE <<Construct(constructor), Call("tokenizer", "reservedNamesJson"),
           Attempt("tokenizer", "vocabularyDigest"), Attempt("tokenizer", "exportWorkerImage")>>

BpeDetailed ==
    <<Call("tokenizer", "encode"), Await,
      Call("tokenizer", "tokenStarts"), Call("tokenizer", "reservedFoundJson")>>

DecodeSteps ==
    CASE session.route = "raw"      -> <<Call("tokenizer", "decode")>>
      [] session.route = "assembly" -> <<Call("tokenizer", "decodeAssemblyBytes")>>
      [] session.route = "utf16"    -> <<Call("tokenizer", "decodeAssemblyUtf16")>>
      [] session.route = "borrowed" -> <<Call("tokenizer", "decodeBorrowedAssemblyView"), Read>>
      [] session.route = "builtins" -> <<Raw>>

GatherTokenBytes == <<Call("tokenizer", "tokenBytes"), Call("tokenizer", "tokenBytes")>>

DecodeBytesSteps ==
    IF session.route = "raw" THEN GatherTokenBytes
    ELSE <<Call("tokenizer", "decodeAssemblyBytes")>>

SentencePieceDetailed ==
    <<Call("tokenizer", "encode"), Call("tokenizer", "tokenStarts"),
      Call("tokenizer", "reservedFoundJson")>>

WorkerInitialize ==
    <<Construct("fromWorkerImage"), Call("tokenizer", "vocabSize"),
      Call("tokenizer", "sourceDigest")>>

WorkerEncodePretokens ==
    <<Call("tokenizer", "encodePretoken"), Call("tokenizer", "encodePretoken")>>

\* What the repository's benches and suites ask of the tokenizer itself.
Probe ==
    {<<Call("tokenizer", m)>> : m \in {"chunkTelemetry", "encodeChunked", "encodePretoken",
        "lastLevelScalar", "minimumChunkSize", "residentInputCapacity",
        "residentInputHighWater", "workerInputSupported"}}

\* The functions of a session and the steps each takes.
BpeOperations ==
    {[op |-> "load", steps |-> BpeLoad(c, lazy)] : lazy \in BOOLEAN,
        c \in {"fromHtk", "fromResolverTrustedHtk", "fromResolverTrustedWarmHtk"}}
    \union {[op |-> "encodeOnPool", steps |-> EncodeLongPretoken(e)] : e \in BOOLEAN}
    \union {[op |-> "probe", steps |-> p] : p \in Probe}
    \union {[op |-> "encode",         steps |-> <<Call("tokenizer", "encode")>>],
            [op |-> "encodeString",   steps |-> <<Loop>>],
            [op |-> "encodeReserved", steps |-> EncodeReserved],
            [op |-> "encodeDetailed", steps |-> BpeDetailed],
            [op |-> "decode",         steps |-> DecodeSteps],
            [op |-> "decodeBytes",    steps |-> DecodeBytesSteps],
            [op |-> "tokenBytes",     steps |-> <<Call("tokenizer", "tokenBytes")>>],
            [op |-> "vocabSize",      steps |-> <<Call("tokenizer", "vocabSize")>>],
            [op |-> "switchTier",     steps |-> <<Call("tokenizer", "exportWorkerImage")>>]}

SentencePieceOperations ==
    {[op |-> "load", steps |-> <<Construct(c)>>] : c \in {"fromHtk", "fromResolverTrustedHtk"}}
    \union {[op |-> "encode",         steps |-> <<Call("tokenizer", "encode")>>],
            [op |-> "encodeReserved", steps |-> EncodeReserved],
            [op |-> "encodeDetailed", steps |-> SentencePieceDetailed],
            [op |-> "decode",         steps |-> <<Call("tokenizer", "decode")>>],
            [op |-> "tokenBytes",     steps |-> <<Call("tokenizer", "tokenBytes")>>]}

TransferredOperations ==
    {[op |-> "load",   steps |-> WorkerInitialize],
     [op |-> "encode", steps |-> WorkerEncodePretokens]}

Operations ==
    CASE session.kind = "bpe"           -> BpeOperations
      [] session.kind = "sentencepiece" -> SentencePieceOperations
      [] session.kind = "transferred"   -> TransferredOperations

\* The SentencePiece session's encodeDetailed does not call ensureOpen.
Unguarded(name) == session.kind = "sentencepiece" /\ name = "encodeDetailed"

---------------------------------------------------------------------------
\* WebAssembly memory and the cached views over it.

\* An allocation or a call may grow memory: every view made before is detached.
Grown(v, grows) ==
    IF grows THEN [w \in Width |-> IF v[w] = "attached" THEN "detached" ELSE v[w]] ELSE v

AfterGrowth(b, grows) == IF grows /\ b # "none" THEN "detached" ELSE b

\* getUint8ArrayMemory0 and the others: a view with no bytes is made again.
\* (mutated: one that is made once and kept)
GetViewOnce(v, w) == IF v[w] = "none" THEN [v EXCEPT ![w] = "attached"] ELSE v
GetView(v, w) == IF v[w] = "attached" THEN v ELSE [v EXCEPT ![w] = "attached"]

\* What goes wrong when the cached view is read or written.
Touching(v, w) == IF v[w] = "attached" THEN {} ELSE {"a detached view is used"}

WidthOf(kind) == IF kind = "string" THEN "u8" ELSE kind

---------------------------------------------------------------------------
\* Starting, suspending and ending a function.

Step(do) == op # "none" /\ todo # <<>> /\ Head(todo).do \in do
Between  == passed = 0 /\ returned = "nothing"

\* The call at the head of todo is over and threw nothing.
Return == todo' = Tail(todo) /\ UNCHANGED <<op, cleanup, thrown, suspended>>

\* It threw: the finally block runs, what is left of the function does not.
Throw == todo' = cleanup /\ cleanup' = <<>> /\ thrown' = TRUE /\ UNCHANGED <<op, suspended>>

Start(next) ==
    /\ op = "none"
    /\ next \in Operations
    /\ \/ phase = "new" /\ next.op = "load"
       \/ phase = "open" /\ next.op # "load"
       \/ phase = "closed" /\ Unguarded(next.op) /\ abandoned < MaxAbandoned
    /\ next.op \in {"encodeOnPool", "encodeDetailed"} => suspended.op = "none"
    /\ next.op = "decode" => left < MaxLeft
    /\ op' = next.op /\ todo' = next.steps /\ cleanup' = <<>> /\ thrown' = FALSE
    /\ input' \in IF next.op = "encodeString" THEN Texts ELSE {<<>>}
    /\ remaining' = input' /\ written' = 0
    /\ UNCHANGED <<session, phase, suspended, call, memory, objects, capacity, highWater, losses, faults>>

\* The function's body has come to its end: what is left is its finally block.
Finally ==
    /\ op # "none" /\ todo = <<>> /\ cleanup # <<>>
    /\ todo' = cleanup /\ cleanup' = <<>>
    /\ UNCHANGED <<session, phase, op, thrown, suspended, call, memory, objects, resident, losses, faults>>

\* An encode on the pool that failed is computed by the single tokenizer,
\* unless the session was closed meanwhile.
FallBack ==
    /\ op = "encodeOnPool" /\ todo = <<>> /\ cleanup = <<>> /\ thrown
    /\ phase = "open"
    /\ op' = "encode" /\ todo' = <<Call("tokenizer", "encode")>> /\ thrown' = FALSE
    /\ UNCHANGED <<session, phase, cleanup, suspended, call, memory, objects, resident, losses, faults>>

\* The function returns or throws.  A session whose load threw is nobody's; a load whose calls
\* all returned throws when its decoder cannot be composed (ComposeRefused of SessionLoad).
Done ==
    /\ op # "none" /\ todo = <<>> /\ cleanup = <<>>
    /\ op = "encodeOnPool" /\ thrown => phase # "open"
    /\ op' = "none" /\ thrown' = FALSE
    /\ \/ op # "load" /\ phase' = phase
       \/ op = "load" /\ ~thrown /\ phase' = "open"
       \/ op = "load" /\ (thrown \/ session.kind # "transferred") /\ phase' = "lost"
    /\ borrowed' = "none"
    /\ UNCHANGED <<session, todo, cleanup, suspended, call, views, blocks, slots, objects,
                   resident, losses, faults>>

Opened(name) == IF name = "encodeOnPool" THEN "overlap" ELSE "encoding"

EnterTry ==
    /\ Step({"try"})
    /\ cleanup' = <<Free(Opened(op))>>
    /\ todo' = Tail(todo)
    /\ UNCHANGED <<session, phase, op, thrown, suspended, call, memory, objects, resident, losses, faults>>

\* await: other turns run until the worker's answer arrives.
Suspend ==
    /\ Step({"await"})
    /\ suspended' = [op |-> op, todo |-> Tail(todo), cleanup |-> cleanup]
    /\ op' = "none" /\ todo' = <<>> /\ cleanup' = <<>>
    /\ UNCHANGED <<session, phase, thrown, call, memory, objects, resident, losses, faults>>

\* The worker answers, or pool.encode rejects (as it does when the pool closes).
Resume(rejects) ==
    /\ op = "none" /\ suspended.op # "none"
    /\ rejects => suspended.op = "encodeOnPool"
    /\ phase = "closed" /\ suspended.op = "encodeOnPool" => rejects
    /\ op' = suspended.op /\ thrown' = rejects
    /\ IF rejects THEN todo' = suspended.cleanup /\ cleanup' = <<>>
                  ELSE todo' = suspended.todo /\ cleanup' = suspended.cleanup
    /\ suspended' = [op |-> "none", todo |-> <<>>, cleanup |-> <<>>]
    /\ UNCHANGED <<session, phase, call, memory, objects, resident, losses, faults>>

---------------------------------------------------------------------------
\* A call through the glue.

\* passArray8ToWasm0, passArray32ToWasm0: malloc, then set through the cached
\* view; the decoder over string builtins makes its view after malloc.
PassArray(grows) ==
    LET kind == Method(Head(todo)).args[passed + 1]
        v    == Grown(views, grows)
    IN  /\ kind \in Width \union {"fresh"}
        /\ blocks' = blocks + 1 /\ passed' = passed + 1
        /\ borrowed' = AfterGrowth(borrowed, grows)
        /\ views'  = IF kind = "fresh" THEN v ELSE GetView(v, kind)
        /\ faults' = IF kind = "fresh" THEN faults ELSE faults \union Touching(GetView(v, kind), kind)

\* passStringToWasm0: the ASCII prefix goes through the view as it is after
\* malloc; for the rest the block is moved and the view is asked for again.
PassString(grows, regrows) ==
    LET before == GetView(Grown(views, grows), "u8")
        after  == Grown(before, regrows)
    IN  /\ Method(Head(todo)).args[passed + 1] = "string"
        /\ blocks' = blocks + 1 /\ passed' = passed + 1
        /\ borrowed' = AfterGrowth(borrowed, grows \/ regrows)
        /\ \/ ~regrows /\ views' = before /\ faults' = faults \union Touching(before, "u8")
           \/ /\ views' = Grown(GetView(after, "u8"), FALSE)
              /\ faults' = faults \union Touching(before, "u8")
                                 \union Touching(GetView(after, "u8"), "u8")

PassArgument ==
    /\ Step(Calls) /\ returned = "nothing"
    /\ passed < Len(Method(Head(todo)).args)
    /\ \E grows, regrows \in BOOLEAN :
          (~regrows /\ PassArray(grows)) \/ PassString(grows, regrows)
    /\ UNCHANGED <<session, phase, stack, returned, slots, objects, resident, losses>>

Ready == Step(Calls) /\ returned = "nothing" /\ passed = Len(Method(Head(todo)).args)

\* wasm.<class>_<method>(this.__wbg_ptr, ...) on an object that was freed: the
\* null pointer is refused before the arguments are taken.
InvokeFreed ==
    /\ Ready
    /\ Head(todo).of \in Class /\ pointer[Head(todo).of] = "null"
    /\ abandoned' = abandoned + passed
    /\ faults' = IF Unguarded(op) THEN faults
                 ELSE faults \union {"a freed object is called"}
    /\ passed' = 0
    /\ Throw
    /\ UNCHANGED <<session, phase, returned, memory, objects, resident, left>>

\* What the call does to the resident buffer: ResidentInput.grow, .finish_call.
Effect(method) ==
    CASE method = "growResidentInput" ->
           /\ capacity' = 2 * capacity
           /\ highWater' = IF highWater < 2 * capacity THEN 2 * capacity ELSE highWater
      [] method = "encodeResidentInput" ->
           IF highWater > ShrinkBoundBytes /\ written < highWater \div 4
           THEN capacity' = ShrinkBoundBytes /\ highWater' = ShrinkBoundBytes
           ELSE UNCHANGED <<capacity, highWater>>
      [] OTHER -> UNCHANGED <<capacity, highWater>>

\* The call itself takes the arguments, may grow memory and move what an
\* earlier call lent, and leaves a result's block, an object, or a slot.
Invoke(grows, fails) ==
    LET m == Method(Head(todo)) IN
    /\ Ready
    /\ Head(todo).of \in Class => pointer[Head(todo).of] # "null"
    /\ fails => m.fails
    /\ passed' = 0
    /\ returned' = IF fails THEN "error" ELSE "value"
    /\ views' = Grown(views, grows)
    /\ borrowed' = IF grows THEN AfterGrowth(borrowed, TRUE)
                   ELSE IF borrowed = "live" THEN "stale" ELSE borrowed
    /\ blocks' = blocks - passed
                 + (IF ~fails /\ m.result \in Width \union {"string", "memory"} THEN 1 ELSE 0)
    /\ slots' = slots + (IF fails \/ Head(todo).method = "decodeBorrowedAssemblyView" THEN 1 ELSE 0)
    /\ allocated' = IF ~fails /\ m.result \in Class THEN allocated \union {m.result} ELSE allocated
    /\ IF fails THEN UNCHANGED <<capacity, highWater>> ELSE Effect(Head(todo).method)
    /\ UNCHANGED <<session, phase, stack, pointer, registered, input, remaining, written, losses, faults>>

Returned(outcome, results) ==
    /\ Step(Calls) /\ returned = outcome
    /\ Method(Head(todo)).result \in results
    /\ returned' = "nothing"

\* if (ret[3]) throw takeFromExternrefTable0(ret[2]);  A load whose digest or
\* image cannot be read keeps the error and goes on without either.
TakeError ==
    /\ Step({"call", "attempt"}) /\ returned = "error"
    /\ returned' = "nothing"
    /\ slots' = slots - 1
    /\ IF Head(todo).do = "attempt"
       THEN todo' = <<>> /\ UNCHANGED <<op, cleanup, thrown, suspended>>
       ELSE Throw
    /\ UNCHANGED <<session, phase, passed, views, borrowed, blocks, objects, resident, losses, faults>>

\* if (result[3]) return core.decode(ids): the error stays in its slot.
LeaveError ==
    /\ Step({"raw"}) /\ returned = "error"
    /\ returned' = "nothing"
    /\ left' = left + 1
    /\ todo' = <<Call("tokenizer", "decode")>>
    /\ UNCHANGED <<session, phase, op, cleanup, thrown, suspended, passed, memory, objects,
                   resident, abandoned, faults>>

\* getArrayU32FromWasm0(ret[0], ret[1]).slice(), getStringFromWasm0 and their
\* free; glue.exports.fromMemory reads memory without a view.
TakeBlock ==
    /\ Returned("value", Width \union {"string", "memory"})
    /\ LET kind == Method(Head(todo)).result IN
       IF kind = "memory" THEN UNCHANGED <<views, faults>>
       ELSE LET v == GetView(views, WidthOf(kind)) IN
            views' = v /\ faults' = faults \union Touching(v, WidthOf(kind))
    /\ blocks' = blocks - 1
    /\ Return
    /\ UNCHANGED <<session, phase, passed, borrowed, slots, objects, resident, losses>>

\* __wrap(ret[0])
Wrap ==
    /\ Returned("value", Class)
    /\ LET c == Method(Head(todo)).result IN
       pointer' = [pointer EXCEPT ![c] = "live"] /\ registered' = registered \union {c}
    /\ Return
    /\ UNCHANGED <<session, phase, passed, memory, allocated, resident, losses, faults>>

\* return takeFromExternrefTable0(ret[0]), or the view itself
TakeView ==
    /\ Returned("value", {"view"})
    /\ borrowed' = "live"
    /\ slots' = IF Head(todo).method = "decodeBorrowedAssemblyView" THEN slots - 1 ELSE slots
    /\ Return
    /\ UNCHANGED <<session, phase, passed, views, blocks, objects, resident, losses, faults>>

TakeScalar ==
    /\ Returned("value", {"scalar"})
    /\ Return
    /\ UNCHANGED <<session, phase, passed, memory, objects, resident, losses, faults>>

---------------------------------------------------------------------------
\* What JavaScript does with a view it was lent.

Lent == IF borrowed = "live" THEN {} ELSE {"a lent view is used too late"}

DecodeView ==
    /\ Step({"decode"})
    /\ faults' = faults \union Lent
    /\ Return
    /\ UNCHANGED <<session, phase, call, memory, objects, resident, losses>>

\* encodeResidentString: while (remaining.length !== 0)
ResidentLoop ==
    /\ Step({"loop"})
    /\ todo' = IF remaining = <<>> THEN <<Call("tokenizer", "encodeResidentInput")>>
               ELSE <<Call("tokenizer", "residentInputView"), Fill>>
    /\ UNCHANGED <<session, phase, op, cleanup, thrown, suspended, call, memory, objects, resident,
                   losses, faults>>

Bytes(text) == FoldLeft(LAMBDA n, c : n + c, 0, text)

\* TextEncoder.encodeInto writes the characters that fit whole.
Fitting(text, room) ==
    CHOOSE n \in 0 .. Len(text) :
        /\ Bytes(SubSeq(text, 1, n)) <= room
        /\ n < Len(text) => Bytes(SubSeq(text, 1, n + 1)) > room

\* remaining.slice(encoded.read) (mutated: .slice(encoded.written))
RestByBytes(text, read, bytes) == SubSeq(text, bytes + 1, Len(text))
Rest(text, read, bytes) == SubSeq(text, read + 1, Len(text))

EncodeInto ==
    LET read  == Fitting(remaining, capacity - written)
        bytes == Bytes(SubSeq(remaining, 1, read))
    IN
    /\ Step({"encodeInto"})
    /\ faults' = faults \union Lent
    /\ written' = written + bytes
    /\ IF read = Len(remaining)
       THEN /\ todo' = <<Call("tokenizer", "encodeResidentInput")>>
            /\ UNCHANGED remaining
       ELSE /\ todo' = <<Call("tokenizer", "growResidentInput"), Loop>>
            /\ remaining' = Rest(remaining, read, bytes)
    /\ UNCHANGED <<session, phase, op, cleanup, thrown, suspended, call, memory, objects, input,
                   capacity, highWater, losses>>

---------------------------------------------------------------------------
\* The lifetime of the objects.

\* __destroy_into_raw: the pointer is given up and no finalizer will see it.
DestroyIntoRaw(c) ==
    pointer' = [pointer EXCEPT ![c] = "null"] /\ registered' = registered \ {c}

\* wasm.__wbg_..._free(ptr, 0 or 1)
Release(c) ==
    /\ allocated' = allocated \ {c}
    /\ faults' = IF c \in allocated THEN faults ELSE faults \union {"an object is freed twice"}

FreeObject ==
    /\ Step({"free"})
    /\ DestroyIntoRaw(Head(todo).of) /\ Release(Head(todo).of)
    /\ Return
    /\ UNCHANGED <<session, phase, call, memory, resident, losses>>

\* close(): closed = true; the tokenizer is freed once the pool has closed, when
\* nothing that needs it is suspended any more (TierRuntime models the turns in
\* between, and its SessionPromise shows that).
Close ==
    /\ op = "none" /\ phase = "open"
    /\ phase' = "closed"
    /\ UNCHANGED <<session, stack, call, memory, objects, resident, losses, faults>>

FreeTokenizer ==
    /\ op = "none" /\ suspended.op = "none" /\ phase = "closed" /\ pointer["tokenizer"] = "live"
    /\ op' = "close" /\ todo' = <<Free("tokenizer")>>
    /\ UNCHANGED <<session, phase, cleanup, thrown, suspended, call, memory, objects, resident,
                   losses, faults>>

\* The client lets the session go, closed or not.
Forget ==
    /\ op = "none" /\ suspended.op = "none"
    /\ phase = "open" \/ (phase = "closed" /\ pointer["tokenizer"] = "null")
    /\ phase' = "lost"
    /\ UNCHANGED <<session, stack, call, memory, objects, resident, losses, faults>>

\* The engine collects an object nothing refers to: its finalizer frees it.
Collect(c) ==
    /\ c \in registered
    /\ op = "none" /\ suspended.op = "none"
    /\ c = "tokenizer" => phase = "lost"
    /\ registered' = registered \ {c} /\ Release(c)
    /\ UNCHANGED <<session, phase, stack, call, memory, pointer, resident, losses>>

---------------------------------------------------------------------------
Init ==
    /\ session \in Sessions
    /\ phase = "new"
    /\ op = "none" /\ todo = <<>> /\ cleanup = <<>> /\ thrown = FALSE
    /\ suspended = [op |-> "none", todo |-> <<>>, cleanup |-> <<>>]
    /\ passed = 0 /\ returned = "nothing"
    /\ views = [w \in Width |-> "none"] /\ borrowed = "none"
    /\ blocks = 0 /\ slots = 0
    /\ pointer = [c \in Class |-> "none"] /\ allocated = {} /\ registered = {}
    /\ input = <<>> /\ remaining = <<>> /\ written = 0
    /\ capacity = InitialBytes /\ highWater = InitialBytes
    /\ abandoned = 0 /\ left = 0
    /\ faults = {}

Next ==
    \/ \E next \in Operations : Start(next)
    \/ Finally \/ FallBack \/ Done \/ EnterTry \/ Suspend
    \/ \E rejects \in BOOLEAN : Resume(rejects)
    \/ PassArgument \/ InvokeFreed
    \/ \E grows, fails \in BOOLEAN : Invoke(grows, fails)
    \/ TakeError \/ LeaveError \/ TakeBlock \/ Wrap \/ TakeView \/ TakeScalar
    \/ DecodeView \/ ResidentLoop \/ EncodeInto
    \/ FreeObject \/ Close \/ FreeTokenizer \/ Forget
    \/ \E c \in Class : Collect(c)

Spec == Init /\ [][Next]_vars

---------------------------------------------------------------------------
\* MemorySafe: no view is used after memory has grown or the tokenizer was
\* called again (the SAFETY comments of wasm.rs:418 and :752), no object is
\* freed twice, and the only call that reaches a freed tokenizer is that of
\* the SentencePiece session's encodeDetailed, which Rust refuses.
MemorySafe == faults = {}

\* NothingHeld: between turns every argument's block has been taken, every
\* result freed and every slot emptied, whichever calls failed, were abandoned
\* or grew memory, but for the blocks of calls on a freed tokenizer and the
\* errors the decoder over string builtins leaves; and the objects that exist
\* are the tokenizer of an open session and the reconciler of a pretoken the
\* workers are encoding.
NothingHeld ==
    op = "none" =>
        /\ blocks = abandoned
        /\ slots = left
        /\ "encoding" \notin allocated
        /\ "overlap" \in allocated <=> suspended.op = "encodeOnPool"
        /\ phase = "open" => "tokenizer" \in allocated
        /\ "tokenizer" \in allocated =>
              pointer["tokenizer"] = "live" /\ "tokenizer" \in registered

\* ResidentExact: what encodeResidentInput is told to encode is the whole of
\* the string, in bytes that fit the buffer, however often the buffer had to
\* grow for it or was shrunk by an earlier call.
ResidentExact ==
    op = "encodeString" /\ todo # <<>> /\ Head(todo).method = "encodeResidentInput"
        /\ returned = "nothing"
    => written = Bytes(input) /\ written <= capacity
=============================================================================
