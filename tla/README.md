# hypertok: a TLA+ development

This directory specifies and checks the parts of hypertok whose correctness depends on the
order in which things happen, or on an argument that no finite set of tests makes: how a
vocabulary gets from the network into a session, the execution tiers of that session and the
pool of workers behind one of them, the boundary at which JavaScript handles WebAssembly
memory, the reconciliation of chunked encodings and the pretoken caches in the Rust core, the
decoder that a configuration composes and the memo in front of it, and the lazy encodings of the
Hugging Face shim. Paths below are relative to the repository; `tier-runtime.mjs`, `decode-memo.mjs` and the
other `.mjs` files are in `hypertok-js/src/`, `htk_chunk.rs` in `src/load_tokenizer/`,
`tiktoken.rs`, `pretoken_cache.rs` and `long_pretoken_cache.rs` in `src/bpe/`, the glue is `hypertok-js/wasm/single/hypertok_wasm_core.js`.

## 1. Inventory

hypertok is a tokenizer for the browser and for Node: a Rust core compiled to WebAssembly,
wrapped in JavaScript that chooses how to run it.

| Component | State it keeps | Operations | Talks to |
|---|---|---|---|
| Execution-tier session (`createTierRuntime`) | `closed`, `workerImage`, `workerPool`, `workerInitialization`, `sharedController`, `sharedInitialization`, counters | `switchTier`, `encode`, `encodeDetailed`, `encodeInto`, `encodeReserved`, `decode*`, `close` | the resident tokenizer (calls), workers (messages), the client (promises) |
| RpcWorker and the threads (`tier-worker.mjs`, `shared-controller.mjs`) | pending calls by id, `failure`; the thread's tokenizer | `call`, `close`; `initialize`, `encode`, `encodePretokens` | `postMessage`, "message" and "error" events |
| Worker pool (`IndependentWorkerPool`, `encodeWithWorkers`) | `nextWorker`, task telemetry | `encodeBatch`, `encode`, `close` | RpcWorker, overlap reconciliation |
| Overlap reconciliation (`htk_chunk.rs`, `WasmOverlapReconciler`) | `left`, `right`, `pending_range`, `enlargements` | `chunk_ranges`, `new`, `accept_enlargement`, `finish` | a chunk encoder, synchronous or across workers |
| Chunked stream (`htk_chunk_stream.rs`) | carry-over between pieces | push, finish | pretokenizer, overlap reconciliation |
| Decode memo (`decode-memo.mjs`) | `records`, `slots`, `nextSlot`, `probes`, observed containers, sizes | `decode`, `stats` | a decoder; the client's mutable arrays; the collector |
| Other decode routes (`decode-*.mjs`, `optimization-config.mjs`) | tables of strings, an LRU of runs, hot strings, a scratch buffer with a reentrancy flag | `resolveOptimizationConfig`, `createComposedDecoder`, `decode`, `decodeBytes` | the resident tokenizer; getters of the client's arrays |
| WebAssembly glue (`hypertok_wasm_core.js`) | cached views, externref slots, object pointers and their finalizers | every method of the exported classes | WebAssembly memory; the sessions, decoders and workers that call it |
| Hugging Face and tiktoken shims (`*-shim.mjs`) | the ids behind a proxy, fields made when read | `encode`, `decode`, getters, `free` | the public runtime; the client's post-processor |
| Pretoken caches (`pretoken_cache.rs`, `long_pretoken_cache.rs`) | open-addressing slots, a token arena, the hash in use | get, insert, replace, grow; the loader's `set_ignore_merges`, `set_added_tokens`, `add_special_tokens`; `fork_sized`; the emit loop | loaders, the threaded encoder, merge loops |
| BPE merge (`bpe/mod.rs`, `tiktoken.rs`) | pair ranks, scratch | merge, encode | caches |
| Source map, NFC, SentencePiece | normalisation tables, offset segments | normalise, map back | BPE |
| Pretokenizers (`pretokenize/`) | a scanner position | next pretoken | encode loop |
| `.htk` container, worker image, hash image | validated bytes | read, export, import | session (digest) |
| Reserved and added tokens (`htk_reserved.rs`) | matcher | find, encode | encode loop |
| Loaders, converter | none | parse, write | files |
| Resolver and integrity (`vocab-*.mjs`, `resolver-*.mjs`) | a timer and a request per load, the bytes each handle owns | `loadVocab`, `verifyVocabBytes`, `createResolvedVocabHandle` | package files, the network |
| Public runtime (`index.mjs`, `public-runtime.mjs`, `shim-runtime.mjs`) | the module's exports, which all sessions share | `fromBytes`, `fromResolvedVocab`, `free` | handles, the execution-tier session |

What is hard:

* The session is single-threaded, yet every operation spans several turns of the event loop.
  What `switchTier`, `encode`, `encodeDetailed` and `close` read before an `await` may have
  changed after it, and whether it has is a matter of how many promise reactions lie between
  two events. Workers fail, answer late or hold another vocabulary.
* Chunked encoding is right only if two encodings that agree on an overlap may be spliced: a
  property of BPE, of the longest token, and of where ranges may start.
* The memo keeps results by the identity of arrays that the client goes on writing to and
  that the collector may take away.
* Memory on the WebAssembly side is handled by hand: any call may grow it and detach every
  typed array over it, any call may fail after something was allocated, and a session may be
  closed or dropped between any two turns.
* Bytes are read, digested, compared, sealed, classified, parsed and described with awaits in
  between, while the client may hold and write to some of the buffers.
* A decode reads arrays whose getters may run anything, other decodes included, and its result
  may come from any of a dozen layers, which a configuration composes.
* A cache of encodings is filled from the vocabulary, overwritten for added tokens, restored,
  rebuilt in forks and grown under a loop that probes it through raw pointers; what it answers
  must be what the miss path would have computed.
* A lazy encoding must not be distinguishable from one made at once, although both the
  post-processor and the client may write to what it will be made of.

What makes each component correct: the session answers every accepted encode with the ids of
the resident vocabulary, loses no thread, leaves no caller waiting, and closes completely; the
pool joins the answers in input order whoever gives them; the reconciliation returns the
encoding of the whole pretoken and ends; the memo and every other decode route cannot be told
from the core's decoder; the memo stays within its slots and reports what it holds; a load
hands out only bytes that were compared with their digest, and a session describes the bytes it
was built from; the glue gives back every block, slot and object exactly once and never uses a
view that memory growth has detached; a lazy encoding is an array like any other; a cache answers what a miss would compute; a merge loop computes the merge of lowest rank; a source map is monotone and covers
its text; a reader refuses what a writer would not write.

The list of hazards, each at its line and with the properties that watch over it, is
`hazards` in `PROJECT.json`.

## 2. Plan

What was written, in this order, and is described in sections 3 to 5:

1. `TokenizerSession`, `TierRuntime`: the session and its promise.
2. `OverlapReconciliation` and the first part of `EncodingProofs`.
3. `DecodeMemo`, `DecodeMemoProofs`.
4. `DecodeRoutes`, which composes `TokenText`, `RunCache`, `DecodeOptions`, `DecodeTable` and
   `HotStrings`: the decoder of every configuration a client can ask for.
5. `VocabularyLoad` and, on top of it, `SessionLoad` and `SessionLoadProofs`: from `loadVocab`
   to an open session.
6. `WorkerPool`: `encodeWithWorkers` with several batches and long pretokens in flight.
7. `LazyEncoding`, which implements `JsArray` over `ArrayObject`.
8. `WasmGlue`, `WasmBoundary`, `WasmBoundaryProofs`: every operation of a session, call by call.
9. `PretokenTables`, `PretokenCache` and `PretokenCacheProofs`: the two tables of the
   Rust core slot by slot, the calls that fill them and the loop that reads them.
10. `TierRuntimeProofs`: that the activations of a session are right for every number of workers,
    clients and attempts, and that the session implements `TokenizerSession`, step by step.
11. `WorkerPoolProofs`: that the pool answers in order and strands nobody, for every text, batch
    size and number of workers and calls.
12. The second part of `EncodingProofs`: that the ids of a lazy encoding implement `JsArray`, and its fields are
    those of an eager one.

13. `DecodeRoutesProofs`: that the decoder's scratch belongs to one call at a time, for any getters
    and any depth of nesting, that what is resolved can be composed, and that every route, from every
    state of the caches, answers as the core does.

What would come next:

14. `BpeMerge`: the merge loops as recursive functions against the definition of BPE, and the
    locality that `OverlapReconciliation` assumes checked for what they compute.
15. `SourceMap`, `ReservedTokens`, `HtkReader`: offsets, policies, the container's section table.

`TierRuntime` implements `TokenizerSession`. Its encode on the pool is one batch, because the
turns matter there and the ids do not; `WorkerPool` is the same pool once it is there, where the
batches matter. Each of the two states in its comments what it relies on the other for.

## 3. Modules and the code

### TokenizerSession
What a client may rely on, with three variables and no workers: an accepted encode ends with
the exact ids, or is rejected if the session has been closed; the resident tokenizer is
released after a close, and from then on no answer can be exact. README.md's "All fallback behavior
remains exact" is this specification.

### TierRuntime
The closures of `createTierRuntime` and the objects they own. The variables bear the names of
the code's; an attempt number stands for each promise or object identity. A thread is the
RpcWorker and the worker behind it: its `queue` is what `pending` holds, and what the thread
has still to answer.

The event loop is modelled as it is specified for JavaScript. `jobs` is the microtask queue; a
task (client code, a worker's "message" or "error" event) starts only when it is empty. A job
carries `ticks`, the number of promise reactions it stands for: of a chain like
`encodeBatch` - `.then` - `Promise.all` - `encodeWithWorkers` - `encodeForTier` only the last
reaction changes session state, but each of the five goes to the end of the queue in its turn
(`Tick`). The counts follow from the code: an `await` of a native promise takes one reaction,
an `async` function that returns a promise three when it is pending, `Promise.all` one more.
This is what decides whether `close()` frees the tokenizer before `encodeDetailed` uses it, and
a model that let the reactions run in any order would report errors that cannot happen.

| Action | Code |
|---|---|
| `RefuseTier` `ReuseSingle` `RefuseImage` `ReusePool` `JoinPool` `StartPool` `JoinShared` `StartShared` | the exits and awaits of `ensureTier`, in order |
| `PoolReady` `PoolUnusable` `PoolFailed` | `initializeWorkerPool` after its `Promise.all` |
| `AdoptPool` `PoolRefused` `SharedReady` `VerifyShared` `SharedUnusable` `JoinedShared` | what follows the awaits of `ensureTier` |
| `Booted` `BootRefused` `BootClosed` | the end of `createTierRuntime` |
| `RefuseEncode` `EncodeResident` `EncodeOnPool` `EncodeOnController` `EncodeWithoutController` | `encodeForTier` up to its await |
| `EncodeResumes` `DetailedResumes` | `encodeForTier` and `encodeDetailed` after it |
| `Close` `CloseAgain` `CloseWorker` `CloseController` `FreeSingle` | `close`, pool and controller one worker after the other |
| `InitAnswered` `InitFailed` `EncodeAnswered` `Fault` | a thread's answers and its "error" event |
| `ClientResumes` | the client's own continuation |

Abstractions. Ids are "exact", "foreign" (of another vocabulary), or the call is "rejected";
"trap" is the use of the freed tokenizer. Whether an input is for the workers
(`workerInputSupported`) is a free choice for `.htk`. An encode on the pool is one batch.
Environment and requested tier are chosen in `Init`.

### OverlapReconciliation
One long pretoken from `chunk_ranges` to `finish`. An encoding is the set of its token
boundaries. The encoder is a constant operator `Cut` with two assumptions: it divides every
span into tokens, and it is *local* (a division into tokens of which every two neighbours
stand side by side in some encoding is the encoding). That is the property of BPE the
algorithm rests on; TLC evaluates it for every encoder of the run. `IsEdge` is
`is_char_boundary`, or true everywhere. An answer may also fail to cover its range
(`TokenCoverage`), and a chunk encoder may fail (`EncoderFails`). One iteration of a loop is
one step, and no other step comes between (`phase`).

### DecodeMemo
`createDecodeMemo`, one action per path through `decode`. A call is synchronous, so one
action; between two calls the client writes to an array (`Write`) or the collector takes one
(`Collect`), after which another array stands under its name. Ids, texts and sizes are
constants. The contents of an array do not change during a call: arrays with getters that
rewrite the array are outside the model. The `displaced` branch of `store` is kept although
`NeverEvicts` says that it is dead.

### DecodeRoutes, with TokenText, RunCache, DecodeOptions, DecodeTable, HotStrings
`TokenText` has bytes by their role in UTF-8 and the two decoders of bytes the code uses: the
lossy one of the core and of `TextDecoder`, and the strict one of the table. `DecodeOptions` is
`resolveOptimizationConfig` and what `createComposedDecoder` and `createDecodeTable` refuse.
`DecodeTable` has the routes of `decode-table.mjs` as operators on its state: clean strings,
dirty runs between them, the batch with a separator, the byte table, the two Latin-1 tables, and
the choice among them by length and density of a sample. `RunCache` is its LRU, `HotStrings` the
strings of the tokens the first call uses most. `DecodeRoutes` composes them: `Resolve` and
`Compose` are the construction, `Decode` is a call on ids that cannot change under it (one
action, because it is synchronous), and `DecodeArray`, `Read` and `Finish` are a call on an array
whose elements are read one after the other by getters that may begin another call (`stack`).
The endpoints that differ only in where the core writes its text are one operator, `CoreDecode`;
`WasmBoundary` has what distinguishes them.

### VocabularyLoad
`loadVocab` up to a sealed handle. Buffers have addresses, and the client may write into those
it can reach between any two steps: `Verify` takes the bytes as they are when the digest starts,
`Seal` copies them as they are when it is known. A content stands for the bytes of a file and for
their digest. `RequestFails`, `TimesOut`, `Responds` and `BodyArrives` are the race of
`fetchWithTimeout`, including a request that answers after its timer.

### SessionLoad
`fromBytes` and `fromResolvedVocab` over the handles of `VocabularyLoad`, the initialization of
the WebAssembly module they share (`InitModule`, `Instantiated`), `loadSingle` (`Construct`), the
composition of the decoder (`Compose`), the activation of a tier (`Activated`), the public handle
(`Publish`) and `free`. Bytes are read three times, at `SourceRead`, `Construct` and `Publish`.

A session may be refused at each of these stages, and `refusedAt` keeps at which. Options are
checked in two places: `createTierRuntime` checks all of them before it loads the module, each by
itself, `sentencePieceRuntime` only the workers and the tier (`SourceRead`). Once the tokenizer is
there, three things can still fail:

| Action | Code | The tokenizer |
|---|---|---|
| `ComposeRefused` | SentencePiece: `resolveOptimizationConfig` and `createComposedDecoder` (`index.mjs:102-105`); byte-BPE: `createComposedDecoder` on options that resolve but do not combine (`tier-runtime.mjs:510`), the reserved names (`514-521`) | is kept: there is no `try` |
| `ActivationFails` | a tier asked for by name cannot be had (`tier-runtime.mjs:863-868`) | is freed by `close()` |
| `Publish`, its refusal | `readMetadata` (`public-runtime.mjs:34`) | is kept |

`WasmBoundary` has the same ending in `Done`: a load that throws, in a call or after all of them,
leaves the session `"lost"` and its tokenizer to the finalizer (`Collect`), which `SessionLoad`
leaves out: when the engine collects it, and whether it does, is not the program's to say.

### WorkerPool
The worker tier once its pool is there. A text is a sequence of pretokens, a pretoken the number
of chunks it is divided into. A step is one task of the event loop with all the promise reactions
it causes: `Start` posts the requests of all tasks in one go; `Deliver` is a thread's message and
everything that follows from it, the round robin for an enlargement and the settling of
`Promise.all` included (`Conclude`). How many chunks the reconciler joins is a choice, for
`OverlapReconciliation` says what it may choose and that the result is exact. `written` is a
client that writes to the array it encodes.

### LazyEncoding, with ArrayObject and JsArray
The ids of the lazy Hugging Face shim: a proxy before an array that is empty until the ids are
copied into it. Each trap is an operator on the state behind the proxy (`GetTrap`,
`DescribeTrap`, ...), each operation of a client an action that goes through the traps it
triggers. `ArrayObject` is what ECMAScript says of an array with holes, a length and a frozen
flag; `JsArray` is the promise that the ids are one, and `LazyEncoding` implements it with
`Visible(lazy)` for the array.

### WasmGlue, WasmBoundary
`WasmGlue` is a table of the methods the glue exports: what each copies in, what it returns and
whether it may fail. `WasmBoundary` runs the functions of a session over it. A function is the
list of steps it takes (calls, `try`, `await`, the loop of `encodeResidentString`), given by the
operators under "The functions of a session"; what the steps compute is left out, except how the
bytes of a string get into the resident buffer. Within a call the actions are the glue's:
`PassArgument` (malloc, then a write through a cached view), `Invoke` (the call, which takes the
arguments, may grow memory and may fail), then `TakeError`, `TakeBlock`, `Wrap`, `TakeView` or
`TakeScalar`. `Close`, `FreeTokenizer`, `Forget` and `Collect` are the lifetime of the objects,
with the finalizers. What WebAssembly would not forgive goes into `faults`.

### PretokenTables, PretokenCache
`PretokenTables` has the two open-addressing tables as records: keys, values and (of the long
one) the hash an entry was placed by, with the walks a lookup takes, pair by pair in the short
table and slot by slot in the long one. `PretokenCache` is a byte-BPE `Tokenizer` from its
construction on. A reallocation doubles the table, so `cap` names the allocation and the
`ProbeView` of the emit loop is the capacity it was taken at.

| Action | Code |
|---|---|
| `Init`, `SetIgnoreMerges`, `SetAddedTokens`, `AddSpecialToken`, `Fork` | `Tokenizer::new`, the loader's calls, `fork_sized`, up to the entries they store |
| `Seed` `Overwrite` `Return` | `seeded_pretoken_cache`, `apply_added_token_overwrites`: an entry a step, through `replace` |
| `GrowShort` `MoveShort` `GrownShort` `PutStored` | `insert_at` and `grow`: an old slot a step, then the slot of the new entry is found again |
| `GrowLong` `MoveLong` `MovedLong` `SwitchToFullHash` `InsertLong` | `insert`, `grow` and `switch_to_full_hash` of the long table |
| `Encode` `ProbeHit` `ProbeMiss` `Emitted` `NextChunk` `Delivered` | `memoized_encode_flat` and `probe_emit_chunk` |
| `SlowHit` `MissShort` `MissLong` | `probe_emit_slow`, `encode_pretoken_miss` |

Abstractions. A pretoken is a model value with its hashes, short or long; the merge loops are the
constant `Merged` (the force-split bigrams and the rank-mapped misses are other ways to compute
it). `InlineLimit` is 2^24, beyond which the first lane of a value would lose bits. Both
settings of `opt-cold-diet` are initial states; of the builds of the long cache the one with
`LongPretokenCache` (`opt-miss-path-diet`) is modelled. `SetIgnoreMerges` comes before the other
calls, as in both loaders (`hf.rs:803-807`, `htk.rs:701`, `1386`); special tokens are
registered before anything is encoded.

## 4. The runs

| Run | Module, bounds | Shows |
|---|---|---|
| `session` | 2 client slots, 2 workers, 2 activations, tier "auto" or "single", isolated or not | `ThreadsOwned`, `OneActivation`, `CloseSettlesEncodes`; implements `TokenizerSession` |
| `session_liveness` | 2 slots, 1 worker, 2 activations, both environments, tiers requested explicitly | `EncodesSettle`, `SwitchesSettle`, `CloseFrees` |
| `overlap` | texts of 0, 4 and 7 bytes over a small alphabet, longest token 2, chunks of 3, 4, 5, tables of merge pairs, with and without code-point edges | `ChunkedIsExact`, `RangesOverlap`, `NothingDropped`, `EnlargementsBounded`, `Ends` |
| `decode_memo` | 2 slots, 1 probe, 3 arrays it may know and 1 it may not, 4 id sequences | `Transparent`, `NeverEvicts`, `AccountsExact`, `RecordsOwned` |
| `decode_routes` | 7 ids (a letter, a lead byte, a continuation, a gap, a token that holds the separator, a byte order mark, one out of range), 11 inputs, 24 configurations, arrays of 2 elements with getters, calls nested 2 deep | `Exact`, `CachesSound`, `ScratchIsolated`, `ResolvedComposes` |
| `vocabulary` | 1 load, 2 files of which one is pinned, 4 contents, 3 buffers, 2 sessions | `TypeOK`, `FetchedIsPinned`, `MadeFromHandle`, `HeldAfterRefusal`, `OnlyFirstLoadsSplit`, `LoadSettles` |
| `worker_pool` | 2 calls, 2 threads, batches of 2, texts that fill a batch, divide a pretoken and do both | `AnswersInOrder`, `NothingStranded`, `TelemetryOfOne`, `EncodesSettle` |
| `lazy_encoding` | ids of length up to 2 over 3 tokens and a value that is none, 2 writes, copied after 2 reads | `MatchesEager`; implements `JsArray` (`BehavesAsArray`) |
| `wasm_boundary` | a BPE session for each of 5 ways to decode, a SentencePiece session, a worker's tokenizer; 5 strings of up to 3 characters, a resident buffer of 4 bytes that shrinks above 8 | `MemorySafe`, `NothingHeld`, `ResidentExact` |
| `pretoken_cache` | 4 short pretokens of which 3 may share a home, 3 long ones that collide by either hash, short tables of 2 or 4 slots and long ones of 0 or 2 that grow, 2 calls or forks, chunks of 2 | `EmitsEncodings`, `EmitLoopSafe`, `WalksFind` |
| `shared_handle_verified` | as `session`, isolated, 1 worker | the claim fails (section 6) |
| `close_ends_threads` | as `session`, not isolated, 1 worker | the claim fails (section 6) |

Why the bounds are enough to show something. Two slots give every pair of overlapping calls,
and a slot is reused as soon as its call is answered, so sequences are not bounded by it. Two
activations let one fail and the next be started while callers of the first have still to
resume. Two workers give round robin, a pool of which one worker fails, and a close that is
half done. Seven bytes in chunks of three make five ranges, with agreement, disagreement and
repeated enlargement; a chunk of three is refused when the longest token is two
(`ChunkTooSmall`). Three known arrays overflow a memo of two slots; a run cache of two entries
is overflowed by the runs of the inputs. The inputs of `decode_routes` cross every density and
length at which the table changes its route, and each configuration is one optimization by
itself, a pair that excludes each other, or a composition of layers. In `vocabulary` two
sessions and a load share three buffers, so that every buffer may be the client's, a handle's or
both a handle's and a session's. Two calls on two threads in batches of two have several
requests on one thread and every order of answers. In `lazy_encoding` two writes let the
post-processor and then the client write, before and after the copy. A buffer of four bytes is
too small for strings of up to twelve, which grow it twice, past the bound above which it
shrinks again; `MaxAbandoned` bounds the calls on a closed SentencePiece session and `MaxLeft`
the failed decodes over string builtins, each of which loses one block or slot. In
`pretoken_cache` the short table grows while it is seeded, while it is overwritten and under the
emit loop, and from four slots to eight, where homes that were one become two; the long table
gives up its sampled hash in an insertion and grows before and after that. Two calls are enough
for added tokens to be taken back, to get an id only then, or to be followed by a fork;
`MaxCalls` bounds them and `MaxOut` the chunks of one encode.
`SlotSymmetry` and `Symmetric` are used in safety runs only: slots and arrays are
interchangeable. The view of `lazy_encoding` leaves out the last answer, on which no step
depends: TLC checks the steps themselves, whether or not they lead to a new state.

`MaxAttempts` is the only bound on behaviour in `TierRuntime`: a client that would need
another activation does not ask for it. `Spare` in `VocabularyLoad` keeps two buffers for each
load that may still need them; `MaxWrites` in `LazyEncoding` counts writes. Deadlock is not
checked where the system really may stop: when all calls have been answered and the client asks
for no more (`decode_routes`, `vocabulary`, `worker_pool`, `lazy_encoding`, `wasm_boundary`),
and in the runs that stop at a violation. `session`, `session_liveness`, `overlap`,
`decode_memo` and `pretoken_cache` check for it.

### Fairness
The event loop runs every queued job (`WF(Continue)`), and `createTierRuntime` goes on by
itself. The browser delivers what a thread sent once the microtask queue drains, and drains
again: strong fairness for a thread's answer to its `initialize`, and for its answers to
encodes, each or an error. That a thread does answer or fail is an assumption the code makes
as well: it has no timeout. `EncodesSettle` and `SwitchesSettle` hold if the client does not
fill the microtask queue for ever (`ClientYields`); `CloseFrees` needs neither. No client is
obliged to call anything. In `vocabulary` the disk answers, timers fire and promises run
(`LoadFairness`), but the network need not answer: `LoadSettles` rests on the timer. In
`worker_pool` a thread answers what is posted to it, or fails (`FairSpec`). For `overlap`, the code runs on by itself and every request is
answered or given up.

Each property of a passing run has a mutant in `PROJECT.json`, an operator beside the one it
replaces that makes a plausible mistake, under which TLC reports that property violated.

## 5. What is proved

The theorems hold for every value of the constants that satisfies the named assumptions.

### EncodingProofs: overlap reconciliation
From `ParameterAssumption`, `SizeAssumption`, `EdgeAssumption`, `CoverAssumption` and
`LocalityAssumption`:

* `Overlapping`: neighbouring initial ranges overlap by at least the longest token, or
  planning has failed;
* `Complete`: until the protocol ends, everything up to the end of the last range taken is in
  the left chunk or is being encoded again;
* `Bounded`: there are fewer enlargements than initial ranges;
* `Exact`: an encoding that `finish` returns is the encoding of the whole pretoken.

The properties are not inductive by themselves. `ReconciliationInv` adds to them where planning stands
between two iterations: the last range ends at the first edge a chunk away from its start, the
next one starts at the last edge that leaves the longest token before that end (`PlanInv`);
that every encoding in hand, of a range or of the left chunk, is the encoder's for the span it
stands for (`JoinInv`); and that every enlargement has taken a range (`CountInv`). The one step that is not bookkeeping is the splice: when two chunks agree on an
overlap at least as long as the longest token, every two neighbouring tokens of the result
stand side by side in one of the two, and locality makes the result the encoding of the union.
`RangesOverlap`, which `PlanInv` makes inductive, supplies that length.

### DecodeMemoProofs
From `ContainerAssumption` and `BoundAssumption`: `TypeCorrect`, `Faithful` (`Transparent`),
`NoEviction` (`NeverEvicts`), `Owned` (`RecordsOwned`) and `AccountsAreExact` (`AccountsExact`),
that is, everything the run checks.

`Faithful` needs only `SlotInv`: a slot in use holds the ids it was filled for and the text they
decode to. `NoEviction` is an argument by counting. A container may be stored only if it was
observed before, is `pending` or unseen, and took one of `observedCount`; `RoomInv` says that
the slots in use and the containers that may still take one (`Candidates`) are together no
more than `observedCount`, which stops at the capacity while the memo is in use. A collected
array leaves its slot behind, so the slots in use cannot be counted by the arrays alive.
`RingInv` says that the ring is filled from its start, so that the next slot is free as long as
there is one; `ProbingInv` and `BypassInv` cover the memo before it tracks and after it gave up.

`AccountsAreExact` is about sums over the slots in use, which change by one slot at a time. A sum
over a finite set is defined by adding its members in some order; that the order plays no part
(`SumFold`, `SumTakes`) is proved by a set with the fewest members for which it does. From
this, a slot that is filled, emptied or filled anew changes a sum by what it adds and takes
(`SumWith`, `SumsApart`), and each way through `store()` changes the counters by the same
(`StoreAccounts`). The invariant, `Accounts`, stands beside `IInv` and needs it: what `Replace` takes
from the counters is what the slot held only because the record names a slot that is in use and
still its own.

### SessionLoadProofs
From `PinnedAssumption`, `BuffersAssumption`, `NothingAssumption` and `ContentsAssumption`:
`TypeCorrect`, `FetchedIsAlwaysPinned` (`FetchedIsPinned`), `SessionsAgreeWithHandles`
(`MadeFromHandle`), `OnlyTwoRefusalsHold` (`HeldAfterRefusal`) and
`SplitsNeedTwoFirstLoads` (`OnlyFirstLoadsSplit`), for any number of loads, sessions, buffers and
contents.

The argument is about who can write where. A buffer a load reads into or seals is fresh, so the
client cannot reach it, and no two owners share one: from the read to the seal the bytes of a
load do not change, and the digest taken at `Verify` is still that of the bytes copied at `Seal`.
A session on a handle therefore reads the same bytes three times, and what its constructor could
read, the public handle can: of the refusals after the construction only the composition's keeps
a tokenizer (`Built`). The instances are counted
(`Counted`): when there is one, a session that asked when there was none has got past its
instantiation; when there are two, two sessions asked when there was none.

### WasmBoundaryProofs
From `SessionAssumption` alone (the bounds and the texts play no part): `MemoryIsSafe`
(`MemorySafe`) and `NothingIsHeld` (`NothingHeld`), for any set of sessions, and wherever memory
grows and calls fail. From `TextAssumption` and `ResidentAssumption` as well: `ResidentIsExact`
(`ResidentExact`), for any strings and any size of the buffer.

What makes the glue's callers correct is how the steps of a function stand next to each other,
and the steps are data here. `WellFormed` says it of what is left of a function: an object is
opened only by a call right before the `try` that frees it, a method of an object is called only
after that `try`, a lent view is used only right after the call that lent it, a constructor is
the first step of a load, a pool's `await` lies within a `try`. `ProgramsAreWellFormed` proves it
of every function a session may start, from the table of `WasmGlue`, and each action keeps it,
the unwinding of an error and the suspension at an `await` included (`TailWellFormed`,
`TryWellFormed`, `CleanupWellFormed`). The rest of `IInv` ties the memory to the step at hand:
`Accounts` counts the blocks and the slots, `Objects` says that an encoding or a reconciler
exists exactly while a function has it to free or a call is returning it, `Lifetime` that the
tokenizer is registered and its pointer live in every phase in which a call could reach it.
`NothingHeld` needs all of it: after a call that fails in the middle of a `try`, what is left to
free is known only from the steps that were to follow.

`ResidentIsExact` has an invariant of its own, `Buffer`: until the loop is through, the bytes written
and those of the rest of the string are together those of the string, and the buffer, which only
grows as long as anything is left to write, holds what is written. It also says which steps the
function can have left (`Filling`): an enlargement goes back to the loop, and only the loop leads to
the encode. `Bytes` is a fold; that it adds what `encodeInto` read and what it left (`BytesSplit`) is
proved by a least counterexample, as in `WorkerPoolProofs`.

### PretokenCacheProofs
From `KeyAssumption`, `HashAssumption`, `SlotsAssumption`, `MergedAssumption`,
`CapacityAssumption` and `BatchAssumption`: `EmitsEncodingsAlways` (`EmitsEncodings`),
`EmitLoopIsSafe` (`EmitLoopSafe`) and `WalksFindAlways` (`WalksFind`), that is, everything the run
checks, for any pretokens, hashes, encodings, capacities and numbers of calls.

Its first part is about one table. An entry is *reached* if no slot between its home and
its place is empty; when all entries are reached and no key is there twice, a walk ends at the
key if it is in the table and at an empty slot if it is not, and an entry put at that slot leaves
all entries reached. An empty slot exists because a table is at most three quarters full, which
is why the entries are counted. `IInv` says this of both tables
(`ShortInv`, `LongInv`); while a table grows, that the entries in the new table and those left in
the old one make the length together. `ValuesInv` says that every entry, the one on its way into a
table and those still to be moved included, stands for the encoding of its key (`Gives`), except
those that the call in progress has yet to seed or overwrite; `CallsInv` says that
every added content with an id has a short entry or is about to get one, so that a miss never
encodes it by merging, and that a call seeds no such content without overwriting it again;
`LoopInv` is the emit loop. Appending to the arena never changes what an older value stands for.

### TierRuntimeProofs
From `SlotAssumption`, `BoundAssumption` and `CapabilityAssumption`: `SessionOneActivation`
(`OneActivation`), `SessionThreadsOwned` (`ThreadsOwned`) and the invariant they rest on,
`CoreInvariant`, for any clients, workers and attempts, with any failures of threads, images and
memory, in each of the three kinds of browser.

The code has no lock around an activation: that overlapping `switchTier` calls share one, that a
failed one is forgotten by all its callers before the next is started, and that a pool which came
up too late for a `close` is closed, all rest on the order in which microtasks run. The invariant
says which phase an activation is in (`Calm`, `Coming`, `Adopting`). Between tasks there is no
pool, or an adopted one, or one that some thread has still to answer for. When its last thread
has answered or one has failed, the reaction of `Promise.all` is alone in the queue, with no
client's job before or behind it. After that the continuations of those who awaited it stand at
the front of the queue: each sees `workerInitialization` as the starter left it, and nothing but
one of them can have reset it. `Attempts` ties the promise of an attempt to the variable that
holds it, `Queues` says what may be posted to which thread, `PoolThreads` and `Controller` which
threads may be alive in a browser with a pool and in one with a shared controller, `ClosingPool`
that a `close` between two workers has a pool.

Its second part, from the same assumptions: `SessionImplements` (`SessionPromise`, the refinement of
`TokenizerSession`), `SessionCloseSettlesEncodes` (`CloseSettlesEncodes`) and their invariant,
`SessionInvariant`.

A client's call is at any time in one place: a job of the microtask queue goes on with it, or it
is in the queue of one thread, or it awaits one activation, or `close()` stands at it between two
workers. `Placed` says that these exclude each other, that the place fits the call, and that an
encode has one. `Closed` says which encodes a `close()` may still find posted: those of the
workers it has not come to, or of the controller when there is no pool to close first. The
conjunct `Closer` of `Placed` and `ClosingPool` say that it does come to them. `Answered` says
what an encode may go on with. An exact answer of a thread is alone in the queue of an open
session (`Alone`), so that no `close` comes between it and `encodeForTier`; `encodeDetailed`,
which calls the resident tokenizer once more after its `await`, is one reaction away from doing
so and stands before any job of `close`, or it is rejected by a closed session. `Vocabulary` says which threads may
answer: a controller of another vocabulary has failed, or its comparison with the resident one
(`Arriving`) is still the first job of the queue, so that nobody was given it. `Opening` (no
client calls before `createTierRuntime` has returned) is what makes a refused start harmless.

Each action has a lemma that proves the invariant kept and the step simulated together, since
both turn on the same question: which one call moved, and from where to where. The lemmas are
few because most actions do one of a few things to the calls: begin one (`CalledStep`,
`PostStep`), go on with one or end it (`GoesOnStep`, `EndsStep`), or move several at once, from an
activation or from the queue of a thread to the jobs (`SettlesStep`, `RejectsStep`).

### WorkerPoolProofs
From `PoolAssumption`, `TextAssumption` and `IdCountAssumption`: `PoolAnswersInOrder`
(`AnswersInOrder`), `PoolNothingStranded` (`NothingStranded`), `PoolTelemetryOfOne`
(`TelemetryOfOne`), that is, every safety property of the run, and the invariant they rest on,
`PoolInvariant`, for any calls, threads, texts, batch size and number of ids of a chunk.

Its first part is about data. The library's induction theorems cannot be used, but a least
counterexample can: if a fact about the first n entries of a sequence fails for some n, it fails
for a least one (`NatLessThanWellFounded`, `WFMin`), which one step of the fold or the flattening
refutes. In this form are proved: `Items` puts the pretokens of a text into batches and long ones
in their order, each once; what a batch is sliced into is what was encoded for each of its
pretokens (`Sliced` undoes `Encoded`); the answers of all items one after another are the ids of
the text (`Whole`) but for the version they were read in; what `Total` sums up.

`IInv` has three parts. `Types`. `Work`: what a task has is of its item, and of the version the
array had when the call began or the one it had when a chunk was enlarged (`TasksFit`); what it
lacks is posted to some thread (`AllPosted`), and only once (`RequestsUnique`); a request is for a
task of a call that was begun and a part it lacks (`RequestsFit`), or its task has failed and the
answer will be dropped; a thread that failed has an empty queue (`FailuresEmpty`); a call's phase
is what its tasks make it (`PhasesFit`). `Telemetry`: for a call that has had the pool for itself,
the counter all calls share is the sum of what its tasks have counted, and no other call adds to it.
An answered call keeps its tasks, so that a late answer to one that another's failure settled is
covered too.

Each kind of step has its lemma. A message moves one task on by one part (`GoodMove`), and may post
one more request for it. A failure and a close drop requests and fail the tasks they were for
(`Drops`), which leaves no other task without what it lacks. A start posts all first requests at
once (`PostedFirst`). `Conclude`, which settles `Promise.all` at the end of all three, is proved
about once.

### EncodingProofs: lazy encodings
From `IdsAssumption` and `BoundAssumption`: `LazyIsArray` (`BehavesAsArray`, the refinement of
`JsArray`) and `LazyMatchesEager` (`MatchesEager`), for any ids, arrays of the post-processor's,
lengths, writes, and number of reads after which the ids are copied.

What a client sees is `Visible`. Its first part shows, for one state of the ids, that no trap can
tell a copy from the ids themselves: `MaterializeSees`, `MarkDirtySees`, `GetSees`, `TrapsSee`,
and for methods that visit many elements, which may copy the ids on the way (`Visited`, a fold),
`VisitedSees`. The induction is that of `WorkerPoolProofs`: after each visit the state is the one
before with other reads counted, copied or not (`Copies`), and the list of what was read is one
element longer. `OnIdsAnswers` then puts each operation into one of two forms, a read that changes
nothing of the array (`ReadBy`) or a write that changes it as the operation does (`WrittenBy`).
The refinement and the invariant need no more of them than that.

The invariant `IInv` says that nobody has written to ids that are not copied or not dirty
(`IsLazy`), so that the check `cleanLazyU32Array` saves was made when they came from the core;
that a field can only have been read or replaced when there is an encoding (`Untouched`); and that
the types are the post-processor's until somebody writes to them (`TypesKept`). Together with
`MatchesEager` itself these are inductive.

### DecodeRoutesProofs
`ScratchOfOne` (`ScratchIsolated`) needs no assumption on what the getters do: from
`InputAssumption`, for any elements, lengths and depth of nesting. `ScratchInvariant` says of every
call on the stack what it may have read so far (`IsFrame`) and that the one that has the scratch
finds it long enough and what it has read there (`Holds`). A nested call cannot disturb the second,
because it gets the scratch only when `active` is false, and then nobody has it. That a new storage
is long enough for the call it is made for is about the loop of `nextCapacity`
(`CapacitySuffices`), which doubles from one on and is not below its argument after so many steps.

`ResolvedIsComposed` (`ResolvedComposes`) is from `RequestAssumption`: whatever was resolved from
a client's optimizations has the layers each of its layers rests on, and no two that exclude each
other but for the pair the property names.

`RoutesAreExact` (`Exact`) and `CachesAreKept` (`CachesSound`) are from all assumptions of the
decode modules: any vocabulary with gaps, any bytes of its tokens, any seeds, limits and samples,
any arrays and getters. The first part of their proof is about what the operators compute.

* Bytes. The lossy reader is a fold that carries its text and the bytes of an unfinished character.
  Two stretches of bytes are read one after the other (`EndsConcat`), and apart when nothing is
  pending after the first (`Whole`) or when the second begins with no continuation (`Starts`,
  `EndsFresh`). `ValidText`: what `isValidUtf8` accepts is both, and the strict decoder gives what
  the lossy one does. This is why a clean token has a string of its own wherever it stands.
* Runs. `RunsAre`: the runs of an array are what stands between its clean tokens, in order;
  `Stitches`: their texts and the strings between them are the text of the whole. `DecodedIs`: the
  run cache answers with the text of a run and is right afterwards (at most `Capacity` entries, one
  per key, each with its text, and accounts that add up), whether it hits, inserts or evicts.
  `JoinedSplits`: the separator separates what it joined, since the reader writes it only where its
  bytes stand; a run that holds it is decoded by itself. `GatheredIs`: the offsets of the byte table
  cut each token's bytes out of the arena.
* Routes. `Serves` says of an answer that it is the core's and that the table it leaves is sound
  and has lost no string. Every route serves: `FallbackServes`, `Latin1Serves`, `ByteTableServes`,
  `DirtyServes`, `MixedServes`, `ScanServes`, then `DecodeByServes` for whatever was planned, and
  `InnerServes` for the composed decoder. The walk of the hot strings over an array (`HotFollows`)
  has read, at each place, the text up to there, or has thrown for an unknown id.

The folds and recursive functions are dealt with one stage at a time: the set of stages at which
the claim holds has the first and, with each, the next one, and so has them all.

`RoutesInvariant` is what is inductive, together with `ScratchInvariant`: the table is sound
(`Tables`), the hot strings are those of clean tokens, the last answer is exact, and each call on
the stack is `Careful`: it has read no invalid element, and where it copies strings or counts on
them, the ids it has read have strings. That it can still count on them after a nested call has
used the same table is why a route must not lose a string.

### What is only model-checked
* Liveness: `EncodesSettle`, `SwitchesSettle`, `CloseFrees`, `LoadSettles`, `Ends`. Fairness and
  ENABLED are out of the prover's reach.
* That BPE has the locality assumed: it is evaluated for the encoders of the run, which are
  merges of adjacent tokens by rank.

## 6. Disagreements found

Two runs end in a violation; each is a finding in `PROJECT.json`.

* `shared_handle_verified`: the caller that starts a shared activation compares the digest of
  the controller with the resident one and closes the controller when they differ
  (`tier-runtime.mjs:654-658`). A caller that joins the activation in progress (`626-629`)
  does not. In the trace the one that started it resumes first, finds the digests different and
  closes the controller; the one that joined resumes after it, asks nothing, and gets a shared
  handle. Ids stay exact, because an encode on
  the closed controller falls back to the resident tokenizer; the handle's tier is wrong.
* `close_ends_threads`: `close` ends the workers of `workerPool` (`742-748`). A pool that is
  still being initialised is not there yet; when its workers answer, `ensureTier` stores it
  (`611`) and resolves the switch of a closed session. Nothing ends those workers any more.

`ThreadsOwned` is therefore stated of an open session only: in a closed one the threads of an
activation that was in flight may live on, which is what the second run shows.

Smaller ones, which the properties except by name:

* Two `fromBytes` that are the first ones both find `wasm` undefined and instantiate the module
  (`hypertok_wasm_core.js:1128`, `1148-1150`). The instance that is ready second replaces the
  first one's exports, and a tokenizer constructed in the first is called in the second from then
  on. `OnlyFirstLoadsSplit` says that this is the only way.
* A session that is refused while its decoder is composed leaves its tokenizer to the finalizer
  (`ComposeRefused`): `index.mjs:101-105` constructs it before it resolves the optimizations, so
  that bad ones refuse a SentencePiece session that has a tokenizer already, and
  `tier-runtime.mjs:472` before `510-521`, outside the `try` of `863`. No document says that a
  refused `fromBytes` frees what it made, so this is no finding; `HeldAfterRefusal` says that this
  and metadata a client made unreadable are the only ways.
* `resolveOptimizationConfig` accepts `decodeUtf16Output: "on"` beside the borrowed output that
  is on by default, which `createComposedDecoder` (`decode-composed.mjs:76-78`) then refuses
  (`ResolvedComposes`).
* The decoder of `decode-hotstrings.mjs:67` drops the byte order mark of a token that begins
  with one (`Exact`).
* `initialize` adds to `observedDistinct` before it finds an id that is none and throws
  (`decode-hotstrings.mjs:94-100`), and does not take it back. The heap of the next call is sized
  by the sum (`103`), is longer than the ids put into it, and the rest of it names token 0. In a
  vocabulary without a token 0 that call throws for an id that its array does not hold, and so does
  each one after it that has fewer ids than the heap has places (the last part of `Exact`, which
  the proof asked for; `HottestAll` shows that the heap is filled otherwise).
* The lazy shim takes an array with holes, which the eager one refuses (`MatchesEager`).
* `encodeDetailed` of the SentencePiece session (`index.mjs:164-175`) does not ask whether the
  session is closed. Its call on the freed tokenizer is refused in Rust, and the block of its
  argument is lost (`abandoned`).
* The decoder over string builtins leaves the error of a failed decode in its externref slot
  (`decode-string-builtins.mjs:50`; `left`).

Two notes on `tiktoken.rs`, neither of which a loader can turn into a wrong encoding. The comment
at `1039-1042` says that restoring outgoing contents never inserts; it does when
`add_special_tokens` has just given an outgoing added token its first id. And under
`opt-cold-diet` the restored entry of a content outlives a later `set_ignore_merges`, which
seeds only what the vocabulary would: the loaders set the flag first, and so does the model.

## 7. What is not modelled

`components` in `PROJECT.json` has every part with its status and the reason.

Of the parts that are modelled: telemetry (but for the pool's) and lifecycle counters; wall-clock
time, of which the code has none but measurements and the timer of a load; the postMessage
encoding of a request. In `SessionLoad`, the `constructionObserver` of `fromResolvedVocab`, which
only a bench of the repository passes and which may throw wherever it is called. In `DecodeRoutes`,
statistics, sparse arrays, and arrays with getters in the configurations without scratch and fused
validation, or whose getters change the array's length.
In `LazyEncoding`, `reservedFound`, the second array of pairs, `cleanUpTokenization` and `free`.
In `WasmBoundary`, what the calls compute; one suspended function at a time is a bound
(`TierRuntime` has several); that nothing is suspended when the tokenizer is freed is taken from
`TierRuntime`, whose `SessionPromise` shows it; the threaded class of the shared glue is not
there. In `PretokenCache`, the build that keeps long pretokens in a `HashMap`, prefetching, the
estimate `fork_sized` makes of a capacity (any is allowed), and the 32 bits of an offset into the
arena, which is taken to be shorter.

Not modelled: the BPE merge loops, the source map and NFC, SentencePiece,
reserved tokens, the `.htk` container and the hash image, which are sequential Rust code whose
models are planned (section 2); the chunked stream and the threaded encoder, which join their
parts by the reconciliation that is modelled. The pretokenizers and the loaders are pure
functions on large alphabets, for which the repository's oracle tests are the better instrument;
the generators, benches and the demo are not part of the program.
