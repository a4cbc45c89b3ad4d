----------------------------- MODULE DecodeOptions -----------------------------
(***************************************************************************)
(* From the client's optimizations to the decoder that is composed:        *)
(* resolveOptimizationConfig (optimization-config.mjs), and what           *)
(* createComposedDecoder and createDecodeTable demand of its result.       *)
(***************************************************************************)
EXTENDS TLC

CONSTANT NodeRuntime       \* does the session run in Node?

\* runtimeDefinitions: may an optimization be on by itself, and its state by default.
Definitions ==
    LET on == [admitted |-> TRUE, state |-> "auto"]
        off == [admitted |-> FALSE, state |-> "off"]
    IN  [lazyWorkerImage |-> on, decodeAssembly |-> on, decodeBorrowedOutput |-> on,
         decodeUtf16Output |-> off, decodeHotStrings |-> [off EXCEPT !.state = "auto"],
         decodeTable |-> on, decodeByteTable |-> off, decodeMixedRuns |-> on,
         decodeRunCache |-> on, decodeLatin1Native |-> off, decodeLatin1Portable |-> off,
         decodeFusedValidation |-> on, decodeLeanDispatch |-> off, decodeCleanUnroll |-> off,
         decodeDirectScratch |-> on, decodeMemo |-> on, decodeDirtyRunBatch |-> on,
         decodeRunStitcher |-> on, decodeStringBuiltins |-> off]

Keys == DOMAIN Definitions

\* Those a client may only leave alone or turn off.
Candidate(key) == key \notin {"decodeAssembly", "decodeHotStrings", "decodeTable"}

States(given) ==
    [key \in Keys \union DOMAIN given |->
        IF key \in DOMAIN given THEN given[key] ELSE Definitions[key].state]

RefusedState(given) ==
    \/ \E key \in DOMAIN given :
           \/ key \notin Keys
           \/ given[key] \notin {"auto", "off"} /\ ~(Candidate(key) /\ given[key] = "on")
    \/ LET on(key) == States(given)[key] = "on" IN
         \/ on("decodeByteTable") /\ on("decodeMixedRuns")
         \/ on("decodeBorrowedOutput") /\ on("decodeUtf16Output")
         \/ on("decodeStringBuiltins") /\ (on("decodeBorrowedOutput") \/ on("decodeUtf16Output"))

\* Turned on, or left to itself and admitted.
On(given, key) ==
    \/ States(given)[key] = "on"
    \/ States(given)[key] = "auto" /\ Definitions[key].admitted

Builtins(given) == On(given, "decodeAssembly") /\ On(given, "decodeStringBuiltins")

\* Mutant: string builtins do not displace the other endpoints.
BorrowsBesideBuiltins(given) ==
    On(given, "decodeAssembly") /\ On(given, "decodeBorrowedOutput")

BorrowsOutput(given) ==
    /\ On(given, "decodeAssembly") /\ ~Builtins(given)
    /\ On(given, "decodeBorrowedOutput")

\* The configuration of the decoder.
Resolved(given) ==
    LET on(key)   == On(given, key)
        assembly  == on("decodeAssembly")
        table     == assembly /\ on("decodeTable")
        byteTable == assembly /\ on("decodeByteTable")
        mixed     == table /\ ~byteTable /\ on("decodeMixedRuns")
        batch     == mixed /\ on("decodeDirtyRunBatch")
    IN  [assembly        |-> assembly,
         table           |-> table,
         byteTable       |-> byteTable /\ table,
         mixedRuns       |-> mixed,
         dirtyRunBatch   |-> batch,
         stringBuiltins  |-> Builtins(given),
         borrowedOutput  |-> BorrowsOutput(given),
         utf16Output     |-> assembly /\ ~Builtins(given) /\ NodeRuntime
                                /\ on("decodeUtf16Output"),
         hotStrings      |-> assembly /\ on("decodeHotStrings"),
         runCache        |-> mixed /\ on("decodeRunCache"),
         nativeLatin1    |-> table /\ on("decodeLatin1Native"),
         portableLatin1  |-> table /\ on("decodeLatin1Portable"),
         fusedValidation |-> table /\ on("decodeFusedValidation"),
         leanDispatch    |-> on("decodeLeanDispatch"),
         cleanUnroll     |-> on("decodeCleanUnroll"),
         directScratch   |-> mixed /\ on("decodeDirectScratch"),
         runStitcher     |-> batch /\ on("decodeRunStitcher"),
         memo            |-> on("decodeMemo")]

\* What createComposedDecoder accepts,
Composes(c) ==
    /\ c.borrowedOutput \/ c.utf16Output => c.assembly
    /\ ~(c.borrowedOutput /\ c.utf16Output)
    /\ c.byteTable \/ c.mixedRuns \/ c.nativeLatin1 \/ c.portableLatin1 => c.table
    /\ c.runCache \/ c.dirtyRunBatch => c.mixedRuns
    /\ c.stringBuiltins => ~c.borrowedOutput /\ ~c.utf16Output
    /\ c.runStitcher => c.dirtyRunBatch

\* and createDecodeTable after it.
TableAccepts(c) ==
    /\ c.runCache \/ c.directScratch \/ c.dirtyRunBatch => c.mixedRuns
    /\ c.runStitcher => c.dirtyRunBatch
=============================================================================
