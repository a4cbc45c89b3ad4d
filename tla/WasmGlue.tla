------------------------------ MODULE WasmGlue ------------------------------
(***************************************************************************)
(* The methods of the classes that wasm/single/hypertok_wasm_core.js       *)
(* exports: what each copies into WebAssembly memory, what it takes back   *)
(* and whether the tokenizer may refuse the call.  The modules above name  *)
(* a method by its class and its name in the source.                       *)
(*                                                                         *)
(* An argument is "u8", "u32" (a typed array copied through the cached     *)
(* view of that width), "string" or "fresh" (the view is made for the      *)
(* call).  A number or a boolean is passed as it is and not listed.        *)
(*                                                                         *)
(* A result is "u8", "u16", "u32" (a list that is copied out and freed),   *)
(* "string" (decoded and freed), "memory" (read where it lies and freed),  *)
(* the class of a new object, "view" (a view of the tokenizer's memory) or *)
(* "scalar".                                                               *)
(***************************************************************************)
EXTENDS Sequences

Fallible(args, result)   == [args |-> args, result |-> result, fails |-> TRUE]
Infallible(args, result) == [args |-> args, result |-> result, fails |-> FALSE]

---------------------------------------------------------------------------
\* The overlap reconciler and the encodings with reserved tokens.

WasmOverlapReconciler ==
    [acceptEnlargement |-> Fallible(<<"u32">>, "u32"),
     acceptInitial     |-> Fallible(<<"u32", "u32">>, "u32"),
     initialRanges     |-> Fallible(<<>>, "u32"),
     takeIds           |-> Fallible(<<>>, "u32")]

WasmReservedEncoding ==
    [foundJson |-> Fallible(<<>>, "string"),
     ids       |-> Infallible(<<>>, "u32"),
     starts    |-> Infallible(<<>>, "u32")]

WasmSentencePieceEncoding ==
    [foundJson |-> Fallible(<<>>, "string"),
     ids       |-> Infallible(<<>>, "u32"),
     starts    |-> Infallible(<<>>, "u32")]

---------------------------------------------------------------------------
\* The tokenizers: SentencePiece, BPE, and the one a worker imports.

SentencePieceEncoding ==
    [decode                 |-> Fallible(<<"u32">>, "string"),
     encode                 |-> Fallible(<<"u8">>, "u32"),
     encodeReserved         |-> Fallible(<<"u8", "string", "string">>, "encoding"),
     fromHtk                |-> Fallible(<<"u8">>, "tokenizer"),
     fromResolverTrustedHtk |-> Fallible(<<"u8">>, "tokenizer")]

SentencePieceQueries ==
    [reservedFoundJson |-> Fallible(<<"u8">>, "string"),
     reservedNamesJson |-> Fallible(<<>>, "string"),
     tokenBytes        |-> Fallible(<<>>, "u8"),
     tokenStarts       |-> Fallible(<<"u8", "u32">>, "u32"),
     vocabSize         |-> Infallible(<<>>, "scalar")]

WasmSentencePieceTokenizer(method) ==
    CASE method \in DOMAIN SentencePieceEncoding -> SentencePieceEncoding[method]
      [] method \in DOMAIN SentencePieceQueries  -> SentencePieceQueries[method]

BpeDecoding ==
    [beginOverlap               |-> Fallible(<<"u8">>, "overlap"),
     chunkTelemetry             |-> Infallible(<<>>, "u32"),
     decode                     |-> Fallible(<<"u32">>, "string"),
     decodeAssemblyBytes        |-> Fallible(<<"u32">>, "u8"),
     decodeAssemblyUtf16        |-> Fallible(<<"u32">>, "u16"),
     decodeBorrowedAssemblyView |-> Fallible(<<"u32">>, "view")]

BpeEncoding ==
    [defaultChunkSize           |-> Fallible(<<>>, "scalar"),
     encode                     |-> Fallible(<<"u8">>, "u32"),
     encodeChunked              |-> Fallible(<<"u8">>, "u32"),
     encodeChunkedResidentInput |-> Fallible(<<>>, "u32"),
     encodePretoken             |-> Fallible(<<"u8">>, "u32"),
     encodeReserved             |-> Fallible(<<"u8", "string", "string">>, "encoding"),
     encodeResidentInput        |-> Fallible(<<>>, "u32")]

BpeLoading ==
    [exportWorkerImage          |-> Fallible(<<>>, "u8"),
     fromHtk                    |-> Fallible(<<"u8">>, "tokenizer"),
     fromResolverTrustedHtk     |-> Fallible(<<"u8">>, "tokenizer"),
     fromResolverTrustedWarmHtk |-> Fallible(<<"u8">>, "tokenizer"),
     growResidentInput          |-> Fallible(<<>>, "scalar"),
     lastLevelScalar            |-> Infallible(<<>>, "scalar"),
     minimumChunkSize           |-> Fallible(<<>>, "scalar"),
     pretokenRanges             |-> Fallible(<<"u8">>, "u32")]

BpeQueries ==
    [reservedFoundJson      |-> Fallible(<<"u8">>, "string"),
     reservedNamesJson      |-> Fallible(<<>>, "string"),
     residentInputCapacity  |-> Infallible(<<>>, "scalar"),
     residentInputHighWater |-> Infallible(<<>>, "scalar"),
     residentInputView      |-> Infallible(<<>>, "view"),
     tokenBytes             |-> Fallible(<<>>, "u8"),
     tokenStarts            |-> Fallible(<<"u8", "u32">>, "u32"),
     vocabSize              |-> Infallible(<<>>, "scalar"),
     vocabularyDigest       |-> Fallible(<<>>, "u8"),
     workerInputSupported   |-> Infallible(<<"u8">>, "scalar")]

WasmTokenizer(method) ==
    CASE method \in DOMAIN BpeDecoding -> BpeDecoding[method]
      [] method \in DOMAIN BpeEncoding -> BpeEncoding[method]
      [] method \in DOMAIN BpeLoading  -> BpeLoading[method]
      [] method \in DOMAIN BpeQueries  -> BpeQueries[method]

WasmTransferredTokenizer ==
    [encodePretoken  |-> Fallible(<<"u8">>, "u32"),
     fromWorkerImage |-> Fallible(<<"u8", "u8">>, "tokenizer"),
     sourceDigest    |-> Infallible(<<>>, "u8"),
     vocabSize       |-> Infallible(<<>>, "scalar")]

\* wasm.wasmtokenizer_decodeAssemblyUtf16 called past the glue, as the decoder
\* over string builtins calls it.
RawDecodeUtf16 == Fallible(<<"fresh">>, "memory")
=============================================================================
