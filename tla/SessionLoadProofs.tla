---------------------------- MODULE SessionLoadProofs ----------------------------
(***************************************************************************)
(* The invariants of SessionLoad for any number of loads, sessions,        *)
(* contents and buffers.  What they rest on is ownership: a buffer that is *)
(* in use and out of the client's reach is never written again, and        *)
(* nothing brings it into reach (Owned, and the frame that every step of a *)
(* load keeps).                                                            *)
(***************************************************************************)
EXTENDS SessionLoad, TLAPS

Owned ==
    /\ \A b \in reach : memory[b] # Nothing
    /\ \A l \in Loads :
           /\ raw[l] # Nothing => memory[raw[l]] # Nothing /\ raw[l] \notin reach
           /\ sealed[l] # Nothing => memory[sealed[l]] # Nothing /\ sealed[l] \notin reach
           /\ phase[l] \in {"verifying", "digesting", "resolved"} => raw[l] # Nothing

IsPinned(l, b) == asked[l] \in DOMAIN Pinned /\ memory[b] = Pinned[asked[l]]

Verified ==
    \A l \in Loads :
        /\ phase[l] \in {"fetching", "verifying", "digesting"} => from[l] = "cdn"
        /\ phase[l] = "digesting" => asked[l] \in DOMAIN Pinned /\ digested[l] = memory[raw[l]]
        /\ phase[l] = "resolved" /\ from[l] = "cdn" => IsPinned(l, raw[l])
        /\ phase[l] = "handle" /\ from[l] = "cdn" => IsPinned(l, sealed[l])

LoadInv == LoadTypeOK /\ Owned /\ Verified

\* No load has begun: the loads' part of the invariant holds.
LEMMA LoadInitInv == Init => LoadInv
  BY PinnedAssumption, NothingAssumption, BuffersAssumption
  DEF Init, LoadInit, LoadInv, LoadTypeOK, Owned, Verified, Racing, IsPinned

(***************************************************************************)
(* A step of a load writes only into unused buffers, and a client only     *)
(* into those in its reach.                                                *)
(***************************************************************************)
Kept(b) == memory'[b] = memory[b] /\ b \notin reach'

Frame ==
    /\ reach \subseteq reach'
    /\ \A b \in Buffers : memory[b] # Nothing => memory'[b] # Nothing
    /\ \A b \in Buffers : memory[b] # Nothing /\ b \notin reach => Kept(b)
    /\ \A b \in Buffers : memory[b] # Nothing => (Sealed(b)' <=> Sealed(b))

\* Steps that neither allocate nor seal.
LEMMA QuietFrame ==
    ASSUME LoadInv, UNCHANGED <<memory, reach, sealed>>,
           \A l \in Loads : phase[l] = "handle" <=> phase'[l] = "handle"
    PROVE  Frame
  BY DEF LoadInv, Owned, Frame, Kept, Sealed

Quiet == UNCHANGED <<memory, reach, sealed>>
            /\ \A l \in Loads : phase[l] = "handle" <=> phase'[l] = "handle"

\* A load begins and writes into no buffer.
LEMMA CallKeeps ==
    ASSUME NEW l \in Loads, NEW name \in Names \union {Nothing}, NEW file \in Files, NEW positive \in BOOLEAN,
           LoadInv, Call(l, name, file, positive)
    PROVE  LoadInv' /\ Quiet
  <1> USE PinnedAssumption, NothingAssumption
               DEF LoadInv, LoadTypeOK, Racing, Call, Set, memoryVars
  <1>1. LoadTypeOK'  OBVIOUS
  <1>2. Owned'       BY DEF Owned
  <1>3. Verified'    BY DEF Verified, IsPinned, Owned
  <1>4. Quiet        BY DEF Quiet
  <1> QED  BY <1>1, <1>2, <1>3, <1>4

\* A local read fails.
LEMMA LocalFailsKeeps ==
    ASSUME NEW l \in Loads, LoadInv, LocalFails(l)
    PROVE  LoadInv' /\ Quiet
  <1> USE PinnedAssumption, NothingAssumption
               DEF LoadInv, LoadTypeOK, Racing, LocalFails, Set, memoryVars
  <1>1. LoadTypeOK'  OBVIOUS
  <1>2. Owned'       BY DEF Owned
  <1>3. Verified'    BY DEF Verified, IsPinned, Owned
  <1>4. Quiet        BY DEF Quiet
  <1> QED  BY <1>1, <1>2, <1>3, <1>4

\* The response arrives before the timer.
LEMMA RespondsKeeps ==
    ASSUME NEW l \in Loads, LoadInv, Responds(l)
    PROVE  LoadInv' /\ Quiet
  <1> USE PinnedAssumption, NothingAssumption
               DEF LoadInv, LoadTypeOK, Racing, Responds, Set, memoryVars
  <1>1. LoadTypeOK'  OBVIOUS
  <1>2. Owned'       BY DEF Owned
  <1>3. Verified'    BY DEF Verified, IsPinned, Owned
  <1>4. Quiet        BY DEF Quiet
  <1> QED  BY <1>1, <1>2, <1>3, <1>4

\* The request fails or is aborted.
LEMMA RequestFailsKeeps ==
    ASSUME NEW l \in Loads, LoadInv, RequestFails(l)
    PROVE  LoadInv' /\ Quiet
  <1> USE PinnedAssumption, NothingAssumption
               DEF LoadInv, LoadTypeOK, Racing, RequestFails, Set, memoryVars, Lose
  <1>1. LoadTypeOK'  OBVIOUS
  <1>2. Owned'       BY DEF Owned
  <1>3. Verified'    BY DEF Verified, IsPinned, Owned
  <1>4. Quiet        BY DEF Quiet
  <1> QED  BY <1>1, <1>2, <1>3, <1>4

\* The timer wins the race.
LEMMA TimesOutKeeps ==
    ASSUME NEW l \in Loads, LoadInv, TimesOut(l)
    PROVE  LoadInv' /\ Quiet
  <1> USE PinnedAssumption, NothingAssumption
               DEF LoadInv, LoadTypeOK, Racing, TimesOut, Set, memoryVars
  <1>1. LoadTypeOK'  OBVIOUS
  <1>2. Owned'       BY DEF Owned
  <1>3. Verified'    BY DEF Verified, IsPinned, Owned
  <1>4. Quiet        BY DEF Quiet
  <1> QED  BY <1>1, <1>2, <1>3, <1>4

\* The digest of what was read begins, or is refused.
LEMMA VerifyKeeps ==
    ASSUME NEW l \in Loads, NEW available \in BOOLEAN,
           LoadInv, Verify(l, available)
    PROVE  LoadInv' /\ Quiet
  <1> USE PinnedAssumption, NothingAssumption
               DEF LoadInv, LoadTypeOK, Racing, Verify, Set, memoryVars
  <1>1. LoadTypeOK'  BY DEF Owned
  <1>2. Owned'       BY DEF Owned
  <1>3. Verified'    BY DEF Verified, IsPinned, Owned
  <1>4. Quiet        BY DEF Quiet
  <1> QED  BY <1>1, <1>2, <1>3, <1>4

\* The digest ends and decides whether the file is the pinned one.
LEMMA DigestedKeeps ==
    ASSUME NEW l \in Loads, LoadInv, Digested(l)
    PROVE  LoadInv' /\ Quiet
  <1> USE PinnedAssumption, NothingAssumption
               DEF LoadInv, LoadTypeOK, Racing, Digested, Set, memoryVars
  <1>1. LoadTypeOK'  OBVIOUS
  <1>2. Owned'       BY DEF Owned
  <1>3. Verified'    BY DEF Verified, IsPinned, Owned
  <1>4. Quiet        BY DEF Quiet
  <1> QED  BY <1>1, <1>2, <1>3, <1>4

\* Steps that allocate.

\* A local file is read into an unused buffer.
LEMMA LocalReadKeeps ==
    ASSUME NEW l \in Loads, NEW c \in Contents, NEW b \in Buffers,
           LoadInv, LocalRead(l, c, b)
    PROVE  LoadInv' /\ Frame
  <1> USE PinnedAssumption, NothingAssumption
               DEF LoadInv, LoadTypeOK, Racing, LocalRead, Set, Fresh, Unused, loadVars
  <1>1. LoadTypeOK'  BY DEF Owned
  <1>2. Owned'       BY DEF Owned
  <1>3. Verified'    BY DEF Verified, IsPinned, Owned
  <1>4. Frame        BY DEF Frame, Kept, Sealed, Owned
  <1> QED  BY <1>1, <1>2, <1>3, <1>4

\* The body arrives in an unused buffer.
LEMMA BodyArrivesKeeps ==
    ASSUME NEW l \in Loads, NEW c \in Contents, NEW b \in Buffers,
           LoadInv, BodyArrives(l, c, b)
    PROVE  LoadInv' /\ Frame
  <1> USE PinnedAssumption, NothingAssumption
               DEF LoadInv, Racing, BodyArrives, Set, Fresh, Unused, loadVars
  <1>1. CASE phase[l] = "fetching"
    <2> USE <1>1
    <2>0. /\ memory' = [memory EXCEPT ![b] = c] /\ raw' = [raw EXCEPT ![l] = b]
          /\ timer' = [timer EXCEPT ![l] = FALSE] /\ request' = [request EXCEPT ![l] = "none"]
          /\ phase' = [phase EXCEPT ![l] = "verifying"]
          /\ UNCHANGED <<reach, asked, from, digested, sealed>>
      OBVIOUS
    <2>1. LoadTypeOK'
      <3> USE <2>0 DEF LoadTypeOK
      <3>1. memory' \in [Buffers -> Contents \union {Nothing}]  OBVIOUS
      <3>2. raw' \in [Loads -> Buffers \union {Nothing}]  OBVIOUS
      <3>3. \A k \in Loads : timer'[k] => phase'[k] = "fetching"  OBVIOUS
      <3>4. \A k \in Loads : phase'[k] = "handle" <=> sealed'[k] # Nothing  OBVIOUS
      <3>5. timer' \in [Loads -> BOOLEAN]  OBVIOUS
      <3> QED  BY <3>1, <3>2, <3>3, <3>4, <3>5
    <2>2. Owned'
      <3> USE <2>0 DEF Owned, LoadTypeOK
      <3>1. \A x \in reach' : memory'[x] # Nothing  OBVIOUS
      <3>2. \A k \in Loads : raw'[k] # Nothing => memory'[raw'[k]] # Nothing /\ raw'[k] \notin reach'
        OBVIOUS
      <3>3. \A k \in Loads : sealed'[k] # Nothing =>
                memory'[sealed'[k]] # Nothing /\ sealed'[k] \notin reach'
        OBVIOUS
      <3>4. \A k \in Loads : phase'[k] \in {"verifying", "digesting", "resolved"} => raw'[k] # Nothing
        OBVIOUS
      <3> QED  BY <3>1, <3>2, <3>3, <3>4
    <2>3. Verified'    BY DEF Verified, IsPinned, Owned, LoadTypeOK
    <2>4. Frame        BY DEF Frame, Kept, Sealed, Owned, LoadTypeOK
    <2> QED  BY <2>1, <2>2, <2>3, <2>4
  <1>2. CASE phase[l] # "fetching"
    <2> USE <1>2
    <2>1. LoadTypeOK'  BY DEF LoadTypeOK
    <2>2. Owned'       BY DEF Owned
    <2>3. Verified'    BY DEF Verified, IsPinned
    <2>4. Frame        BY DEF Frame, Kept, Sealed, Owned
    <2> QED  BY <2>1, <2>2, <2>3, <2>4
  <1> QED  BY <1>1, <1>2

\* The handle copies the resolved bytes, as they are by then, into an unused buffer.
LEMMA SealKeeps ==
    ASSUME NEW l \in Loads, NEW b \in Buffers,
           LoadInv, Seal(l, b)
    PROVE  LoadInv' /\ Frame
  <1> USE PinnedAssumption, NothingAssumption
               DEF LoadInv, LoadTypeOK, Racing, Seal, Set, Fresh, Unused, loadVars
  <1>1. LoadTypeOK'  BY DEF Owned
  <1>2. Owned'       BY DEF Owned
  <1>3. Verified'    BY DEF Verified, IsPinned, Owned
  <1>4. Frame        BY DEF Frame, Kept, Sealed, Owned
  <1> QED  BY <1>1, <1>2, <1>3, <1>4

\* Reading handle.bytes hands out a copy.
LEMMA BytesPropertyKeeps ==
    ASSUME NEW l \in Loads, NEW b \in Buffers,
           LoadInv, BytesProperty(l, b)
    PROVE  LoadInv' /\ Frame
  <1> USE PinnedAssumption, NothingAssumption
               DEF LoadInv, LoadTypeOK, Racing, BytesProperty, Set, Fresh, Unused, loadVars
  <1>1. LoadTypeOK'  BY DEF Owned
  <1>2. Owned'       BY DEF Owned
  <1>3. Verified'    BY DEF Verified, IsPinned, Owned
  <1>4. Frame        BY DEF Frame, Kept, Sealed, Owned
  <1> QED  BY <1>1, <1>2, <1>3, <1>4

\* What a client writes.
LEMMA ClientWritesKeeps ==
    ASSUME NEW b \in reach, NEW c \in Contents, LoadInv, ClientWrites(b, c)
    PROVE  LoadInv' /\ Frame
  <1> USE PinnedAssumption, NothingAssumption
               DEF LoadInv, LoadTypeOK, Racing, ClientWrites, Set, loadVars
  <1>1. LoadTypeOK'  OBVIOUS
  <1>2. Owned'       BY DEF Owned
  <1>3. Verified'    BY DEF Verified, IsPinned, Owned
  <1>4. Frame        BY DEF Frame, Kept, Sealed, Owned
  <1> QED  BY <1>1, <1>2, <1>3, <1>4

\* Every step of a load keeps its part of the invariant and the buffers in use.
LEMMA LoadStep == ASSUME LoadInv, LoadNext PROVE LoadInv' /\ Frame
  <1>1. ASSUME NEW l \in Loads, NEW name \in Names \union {Nothing}, NEW file \in Files,
               NEW positive \in BOOLEAN, Call(l, name, file, positive)
        PROVE  LoadInv' /\ Frame
    BY <1>1, CallKeeps, QuietFrame DEF Quiet
  <1>2. ASSUME NEW l \in Loads, LocalFails(l) \/ TimesOut(l) \/ Digested(l) \/ Responds(l)
                                   \/ RequestFails(l)
        PROVE  LoadInv' /\ Frame
    BY <1>2, LocalFailsKeeps, TimesOutKeeps, DigestedKeeps, RespondsKeeps, RequestFailsKeeps,
       QuietFrame DEF Quiet
  <1>3. ASSUME NEW l \in Loads, NEW available \in BOOLEAN, Verify(l, available)
        PROVE  LoadInv' /\ Frame
    BY <1>3, VerifyKeeps, QuietFrame DEF Quiet
  <1>4. ASSUME NEW l \in Loads, NEW c \in Contents, NEW b \in Buffers,
               LocalRead(l, c, b) \/ BodyArrives(l, c, b)
        PROVE  LoadInv' /\ Frame
    BY <1>4, LocalReadKeeps, BodyArrivesKeeps
  <1>5. ASSUME NEW l \in Loads, NEW b \in Buffers, Seal(l, b) \/ BytesProperty(l, b)
        PROVE  LoadInv' /\ Frame
    BY <1>5, SealKeeps, BytesPropertyKeeps
  <1>6. ASSUME NEW b \in reach, NEW c \in Contents, ClientWrites(b, c)
        PROVE  LoadInv' /\ Frame
    BY <1>6, ClientWritesKeeps
  <1> QED  BY <1>1, <1>2, <1>3, <1>4, <1>5, <1>6 DEF LoadNext, Proceeds

(***************************************************************************)
(* Sessions                                                                *)
(***************************************************************************)
Opened ==
    \A s \in Sessions :
        /\ bytes[s] # Nothing => memory[bytes[s]] # Nothing
        /\ bytes[s] # Nothing => bytes[s] \in reach \/ Sealed(bytes[s])
        /\ trusted[s] => bytes[s] # Nothing /\ Sealed(bytes[s]) /\ ~validate[s]
        /\ stage[s] \in (Stages \ {"new"}) \union {"open"} => bytes[s] # Nothing

Built ==
    \A s \in Sessions : tokenizer[s] # Nothing =>
        /\ stage[s] \in {"composing", "activating", "publishing", "open", "rejected"}
        /\ bytes[s] # Nothing
        /\ tokenizer[s] \in Readable
        /\ tokenizer[s] \notin WellFormed => trusted[s]
        /\ Sealed(bytes[s]) =>
               /\ tokenizer[s] = memory[bytes[s]]
               /\ stage[s] = "open" => metadata[s] = tokenizer[s]
        /\ stage[s] = "rejected" =>
               \/ refusedAt[s] = "composing"
               \/ refusedAt[s] = "publishing" /\ ~Sealed(bytes[s])

\* Who made the instances: sessions that asked when there was none, each one of them.
Counted ==
    /\ \A s \in Sessions :
           /\ stage[s] = "instantiating" => s \in firstAsked
           /\ tokenizer[s] # Nothing => instance[s] >= 1
           /\ stage[s] = "constructing" => instances >= 1
    /\ instances >= 1 => \E q \in firstAsked : stage[q] \notin {"new", "source", "instantiating"}
    /\ instances >= 2 => \E r, q \in firstAsked : r # q

SessionInv == SessionTypeOK /\ Opened /\ Built /\ Counted
IInv == LoadInv /\ SessionInv

\* The invariant holds initially.
LEMMA InitInv == Init => IInv
  <1> SUFFICES ASSUME Init PROVE IInv  OBVIOUS
  <1>1. LoadInv  BY LoadInitInv
  <1>2. SessionInv
    BY NothingAssumption DEF Init, SessionInv, SessionTypeOK, Stages, Opened, Built, Counted
  <1> QED  BY <1>1, <1>2 DEF IInv

\* What sessions were told of a buffer stays true while loads proceed and clients write.
LEMMA SessionsKeep ==
    ASSUME IInv, LoadInv', Frame, UNCHANGED sessionVars
    PROVE  SessionInv'
  <1> USE NothingAssumption DEF IInv, SessionInv, sessionVars
  <1>1. SessionTypeOK'  BY DEF SessionTypeOK
  <1>2. Counted'        BY DEF Counted
  <1>3. Opened'         BY DEF Opened, Frame, SessionTypeOK
  <1>4. Built'
    <2> SUFFICES ASSUME NEW s \in Sessions, tokenizer[s] # Nothing, Sealed(bytes[s])'
                 PROVE  memory'[bytes[s]] = memory[bytes[s]] /\ Sealed(bytes[s])
      BY DEF Built
    <2>1. bytes[s] \in Buffers /\ memory[bytes[s]] # Nothing
      BY DEF Built, Opened, SessionTypeOK
    <2>2. Sealed(bytes[s])
      BY <2>1 DEF Frame, sessionVars
    <2>3. bytes[s] \notin reach
      BY <2>2, <2>1 DEF Sealed, LoadInv, Owned
    <2> QED  BY <2>1, <2>2, <2>3 DEF Frame, Kept
  <1> QED  BY <1>1, <1>2, <1>3, <1>4

\* Steps of a session leave the loads and the memory alone.
Still == UNCHANGED <<memory, reach, loadVars>>

\* A step that leaves loads and buffers alone keeps the loads' part.
LEMMA StillLoads ==
    ASSUME LoadInv, Still
    PROVE  LoadInv' /\ \A b : Sealed(b)' <=> Sealed(b)
  BY DEF Still, loadVars, LoadInv, LoadTypeOK, Racing, Owned, Verified, IsPinned, Sealed

\* A session opens a handle.
LEMMA OpenHandleKeeps ==
    ASSUME NEW s \in Sessions, NEW b \in Buffers, NEW fully \in BOOLEAN,
           IInv, OpenHandle(s, b, fully)
    PROVE  Still /\ SessionInv'
  <1> USE NothingAssumption, ContentsAssumption DEF IInv, SessionInv, OpenHandle, Set, Enter, Unopened
  <1>0. Still  BY DEF Still
  <1>s. \A x : Sealed(x)' <=> Sealed(x)  BY <1>0, StillLoads
  <1>m. memory' = memory /\ reach' = reach  BY <1>0 DEF Still
  <1>b. b \in Buffers /\ memory[b] # Nothing /\ Sealed(b) /\ b # Nothing
    BY DEF Sealed, LoadInv, LoadTypeOK, Owned
  <1>1. SessionTypeOK'  BY <1>m DEF SessionTypeOK, Stages
  <1>2. Opened'         BY <1>s, <1>m, <1>b DEF Opened, SessionTypeOK, Stages
  <1>3. Built'          BY <1>s, <1>m DEF Built, Opened, SessionTypeOK, LoadInv, LoadTypeOK
  <1>4. Counted'        BY DEF Counted, SessionTypeOK
  <1> QED  BY <1>0, <1>1, <1>2, <1>3, <1>4

\* A session opens an array that its caller can write to.
LEMMA OpenBytesKeeps ==
    ASSUME NEW s \in Sessions, NEW b \in reach,
           IInv, OpenBytes(s, b)
    PROVE  Still /\ SessionInv'
  <1> USE NothingAssumption, ContentsAssumption DEF IInv, SessionInv, OpenBytes, Set, Enter, Unopened
  <1>0. Still  BY DEF Still
  <1>s. \A x : Sealed(x)' <=> Sealed(x)  BY <1>0, StillLoads
  <1>m. memory' = memory /\ reach' = reach  BY <1>0 DEF Still
  <1>b. b \in Buffers /\ memory[b] # Nothing /\ b # Nothing
    BY DEF LoadInv, LoadTypeOK, Owned
  <1>1. SessionTypeOK'  BY <1>m, <1>b DEF SessionTypeOK, Stages
  <1>2. Opened'         BY <1>s, <1>m, <1>b DEF Opened, SessionTypeOK, Stages
  <1>3. Built'          BY <1>s, <1>m DEF Built, Opened, SessionTypeOK, LoadInv, LoadTypeOK
  <1>4. Counted'        BY DEF Counted, SessionTypeOK
  <1> QED  BY <1>0, <1>1, <1>2, <1>3, <1>4

\* A session refuses what it was given.
LEMMA OpenRefusedKeeps ==
    ASSUME NEW s \in Sessions, IInv, OpenRefused(s)
    PROVE  Still /\ SessionInv'
  <1> USE NothingAssumption, ContentsAssumption DEF IInv, SessionInv, OpenRefused, Set, Reject
  <1>0. Still  BY DEF Still
  <1>s. \A x : Sealed(x)' <=> Sealed(x)  BY <1>0, StillLoads
  <1>m. memory' = memory /\ reach' = reach  BY <1>0 DEF Still
  <1>1. SessionTypeOK'  BY <1>m DEF SessionTypeOK, Stages
  <1>2. Opened'         BY <1>s, <1>m DEF Opened, SessionTypeOK, Stages
  <1>3. Built'          BY <1>s, <1>m DEF Built, Opened, SessionTypeOK, LoadInv, LoadTypeOK
  <1>4. Counted'        BY DEF Counted, SessionTypeOK
  <1> QED  BY <1>0, <1>1, <1>2, <1>3, <1>4

\* The container is read, well or not.
LEMMA SourceReadKeeps ==
    ASSUME NEW s \in Sessions, NEW good \in BOOLEAN,
           IInv, SourceRead(s, good)
    PROVE  Still /\ SessionInv'
  <1> USE NothingAssumption, ContentsAssumption DEF IInv, SessionInv, SourceRead, Set, InitModule, Reject, ClassOf
  <1>0. Still  BY DEF Still
  <1>s. \A x : Sealed(x)' <=> Sealed(x)  BY <1>0, StillLoads
  <1>m. memory' = memory /\ reach' = reach  BY <1>0 DEF Still
  <1>1. SessionTypeOK'  BY <1>m DEF SessionTypeOK, Stages
  <1>2. Opened'         BY <1>s, <1>m DEF Opened, SessionTypeOK, Stages
  <1>3. Built'          BY <1>s, <1>m DEF Built, Opened, SessionTypeOK, LoadInv, LoadTypeOK
  <1>4. Counted'        BY DEF Counted, SessionTypeOK
  <1> QED  BY <1>0, <1>1, <1>2, <1>3, <1>4

\* The instance is there.
LEMMA InstantiatedKeeps ==
    ASSUME NEW s \in Sessions, IInv, Instantiated(s)
    PROVE  Still /\ SessionInv'
  <1> USE NothingAssumption, ContentsAssumption DEF IInv, SessionInv, Instantiated, Set
  <1>0. Still  BY DEF Still
  <1>s. \A x : Sealed(x)' <=> Sealed(x)  BY <1>0, StillLoads
  <1>m. memory' = memory /\ reach' = reach  BY <1>0 DEF Still
  <1>i. instances \in Nat /\ 0 .. instances \subseteq 0 .. (instances + 1)
    BY DEF SessionTypeOK
  <1>j. instance' \in [Sessions -> 0 .. instances']
    BY <1>i DEF SessionTypeOK
  <1>1. SessionTypeOK'
    BY <1>i, <1>j, <1>m DEF SessionTypeOK, Stages
  <1>2. Opened'         BY <1>s, <1>m DEF Opened, SessionTypeOK, Stages
  <1>3. Built'          BY <1>s, <1>m DEF Built, Opened, SessionTypeOK, LoadInv, LoadTypeOK
  <1>4. Counted'        BY DEF Counted, SessionTypeOK
  <1> QED  BY <1>0, <1>1, <1>2, <1>3, <1>4

\* The instantiation fails.
LEMMA InstantiationFailsKeeps ==
    ASSUME NEW s \in Sessions, IInv, InstantiationFails(s)
    PROVE  Still /\ SessionInv'
  <1> USE NothingAssumption, ContentsAssumption DEF IInv, SessionInv, InstantiationFails, Set, Reject
  <1>0. Still  BY DEF Still
  <1>s. \A x : Sealed(x)' <=> Sealed(x)  BY <1>0, StillLoads
  <1>m. memory' = memory /\ reach' = reach  BY <1>0 DEF Still
  <1>1. SessionTypeOK'  BY <1>m DEF SessionTypeOK, Stages
  <1>2. Opened'         BY <1>s, <1>m DEF Opened, SessionTypeOK, Stages
  <1>3. Built'          BY <1>s, <1>m DEF Built, Opened, SessionTypeOK, LoadInv, LoadTypeOK
  <1>4. Counted'        BY DEF Counted, SessionTypeOK
  <1> QED  BY <1>0, <1>1, <1>2, <1>3, <1>4

\* The tokenizer is constructed from the bytes as they are by then.
LEMMA ConstructKeeps ==
    ASSUME NEW s \in Sessions, IInv, Construct(s)
    PROVE  Still /\ SessionInv'
  <1> USE NothingAssumption, ContentsAssumption DEF IInv, SessionInv, Construct, Set, MayBuild, ClassOf
  <1>0. Still  BY DEF Still
  <1>s. \A x : Sealed(x)' <=> Sealed(x)  BY <1>0, StillLoads
  <1>m. memory' = memory /\ reach' = reach  BY <1>0 DEF Still
  <1>1. SessionTypeOK'  BY <1>m DEF SessionTypeOK, Stages
  <1>2. Opened'         BY <1>s, <1>m DEF Opened, SessionTypeOK, Stages
  <1>3. Built'          BY <1>s, <1>m DEF Built, Opened, SessionTypeOK, LoadInv, LoadTypeOK
  <1>4. Counted'        BY DEF Counted, SessionTypeOK
  <1> QED  BY <1>0, <1>1, <1>2, <1>3, <1>4

\* The constructor refuses the bytes.
LEMMA ConstructRefusedKeeps ==
    ASSUME NEW s \in Sessions, IInv, ConstructRefused(s)
    PROVE  Still /\ SessionInv'
  <1> USE NothingAssumption, ContentsAssumption DEF IInv, SessionInv, ConstructRefused, Set, Reject
  <1>0. Still  BY DEF Still
  <1>s. \A x : Sealed(x)' <=> Sealed(x)  BY <1>0, StillLoads
  <1>m. memory' = memory /\ reach' = reach  BY <1>0 DEF Still
  <1>1. SessionTypeOK'  BY <1>m DEF SessionTypeOK, Stages
  <1>2. Opened'         BY <1>s, <1>m DEF Opened, SessionTypeOK, Stages
  <1>3. Built'          BY <1>s, <1>m DEF Built, Opened, SessionTypeOK, LoadInv, LoadTypeOK
  <1>4. Counted'        BY DEF Counted, SessionTypeOK
  <1> QED  BY <1>0, <1>1, <1>2, <1>3, <1>4

\* The decoder is composed.
LEMMA ComposeKeeps ==
    ASSUME NEW s \in Sessions, IInv, Compose(s)
    PROVE  Still /\ SessionInv'
  <1> USE NothingAssumption, ContentsAssumption DEF IInv, SessionInv, Compose, Set, AsBuilt
  <1>0. Still  BY DEF Still
  <1>s. \A x : Sealed(x)' <=> Sealed(x)  BY <1>0, StillLoads
  <1>m. memory' = memory /\ reach' = reach  BY <1>0 DEF Still
  <1>1. SessionTypeOK'  BY <1>m DEF SessionTypeOK, Stages
  <1>2. Opened'         BY <1>s, <1>m DEF Opened, SessionTypeOK, Stages
  <1>3. Built'          BY <1>s, <1>m DEF Built, Opened, SessionTypeOK, LoadInv, LoadTypeOK
  <1>4. Counted'        BY DEF Counted, SessionTypeOK
  <1> QED  BY <1>0, <1>1, <1>2, <1>3, <1>4

\* Its composition is refused, and the tokenizer stays.
LEMMA ComposeRefusedKeeps ==
    ASSUME NEW s \in Sessions, IInv, ComposeRefused(s)
    PROVE  Still /\ SessionInv'
  <1> USE NothingAssumption, ContentsAssumption DEF IInv, SessionInv, ComposeRefused, Set, Reject
  <1>0. Still  BY DEF Still
  <1>s. \A x : Sealed(x)' <=> Sealed(x)  BY <1>0, StillLoads
  <1>m. memory' = memory /\ reach' = reach  BY <1>0 DEF Still
  <1>1. SessionTypeOK'  BY <1>m DEF SessionTypeOK, Stages
  <1>2. Opened'         BY <1>s, <1>m DEF Opened, SessionTypeOK, Stages
  <1>3. Built'          BY <1>s, <1>m DEF Built, Opened, SessionTypeOK, LoadInv, LoadTypeOK
  <1>4. Counted'        BY DEF Counted, SessionTypeOK
  <1> QED  BY <1>0, <1>1, <1>2, <1>3, <1>4

\* The tier is there.
LEMMA ActivatedKeeps ==
    ASSUME NEW s \in Sessions, IInv, Activated(s)
    PROVE  Still /\ SessionInv'
  <1> USE NothingAssumption, ContentsAssumption DEF IInv, SessionInv, Activated, Set, AsBuilt
  <1>0. Still  BY DEF Still
  <1>s. \A x : Sealed(x)' <=> Sealed(x)  BY <1>0, StillLoads
  <1>m. memory' = memory /\ reach' = reach  BY <1>0 DEF Still
  <1>1. SessionTypeOK'  BY <1>m DEF SessionTypeOK, Stages
  <1>2. Opened'         BY <1>s, <1>m DEF Opened, SessionTypeOK, Stages
  <1>3. Built'          BY <1>s, <1>m DEF Built, Opened, SessionTypeOK, LoadInv, LoadTypeOK
  <1>4. Counted'        BY DEF Counted, SessionTypeOK
  <1> QED  BY <1>0, <1>1, <1>2, <1>3, <1>4

\* The first activation fails and the tokenizer is freed.
LEMMA ActivationFailsKeeps ==
    ASSUME NEW s \in Sessions, IInv, ActivationFails(s)
    PROVE  Still /\ SessionInv'
  <1> USE NothingAssumption, ContentsAssumption DEF IInv, SessionInv, ActivationFails, Set, Drop, Reject
  <1>0. Still  BY DEF Still
  <1>s. \A x : Sealed(x)' <=> Sealed(x)  BY <1>0, StillLoads
  <1>m. memory' = memory /\ reach' = reach  BY <1>0 DEF Still
  <1>1. SessionTypeOK'  BY <1>m DEF SessionTypeOK, Stages
  <1>2. Opened'         BY <1>s, <1>m DEF Opened, SessionTypeOK, Stages
  <1>3. Built'          BY <1>s, <1>m DEF Built, Opened, SessionTypeOK, LoadInv, LoadTypeOK
  <1>4. Counted'        BY DEF Counted, SessionTypeOK
  <1> QED  BY <1>0, <1>1, <1>2, <1>3, <1>4

\* The session is handed to its caller.
LEMMA PublishKeeps ==
    ASSUME NEW s \in Sessions, IInv, Publish(s)
    PROVE  Still /\ SessionInv'
  <1> USE NothingAssumption, ContentsAssumption DEF IInv, SessionInv, Publish, Set, Reject
  <1>0. Still  BY DEF Still
  <1>s. \A x : Sealed(x)' <=> Sealed(x)  BY <1>0, StillLoads
  <1>m. memory' = memory /\ reach' = reach  BY <1>0 DEF Still
  <1>1. SessionTypeOK'  BY <1>m DEF SessionTypeOK, Stages
  <1>2. Opened'         BY <1>s, <1>m DEF Opened, SessionTypeOK, Stages
  <1>3. Built'          BY <1>s, <1>m DEF Built, Opened, SessionTypeOK, LoadInv, LoadTypeOK
  <1>4. Counted'        BY DEF Counted, SessionTypeOK
  <1> QED  BY <1>0, <1>1, <1>2, <1>3, <1>4

\* The tokenizer is freed, once.
LEMMA FreeKeeps ==
    ASSUME NEW s \in Sessions, IInv, Free(s)
    PROVE  Still /\ SessionInv'
  <1> USE NothingAssumption, ContentsAssumption DEF IInv, SessionInv, Free, Set, Drop
  <1>0. Still  BY DEF Still
  <1>s. \A x : Sealed(x)' <=> Sealed(x)  BY <1>0, StillLoads
  <1>m. memory' = memory /\ reach' = reach  BY <1>0 DEF Still
  <1>1. SessionTypeOK'  BY <1>m DEF SessionTypeOK, Stages
  <1>2. Opened'         BY <1>s, <1>m DEF Opened, SessionTypeOK, Stages
  <1>3. Built'          BY <1>s, <1>m DEF Built, Opened, SessionTypeOK, LoadInv, LoadTypeOK
  <1>4. Counted'        BY DEF Counted, SessionTypeOK
  <1> QED  BY <1>0, <1>1, <1>2, <1>3, <1>4

\* Every step of a session keeps its part of the invariant and the loads.
LEMMA SessionStep == ASSUME IInv, SessionNext PROVE Still /\ SessionInv'
  <1> PICK s \in Sessions :
         \/ \E b \in Buffers, fully \in BOOLEAN : OpenHandle(s, b, fully)
         \/ \E b \in reach : OpenBytes(s, b)
         \/ OpenRefused(s)
         \/ \E good \in BOOLEAN : SourceRead(s, good)
         \/ Instantiated(s) \/ InstantiationFails(s)
         \/ Construct(s) \/ ConstructRefused(s)
         \/ Compose(s) \/ ComposeRefused(s)
         \/ Activated(s) \/ ActivationFails(s)
         \/ Publish(s)
         \/ Free(s)
    BY DEF SessionNext
  <1> QED
    BY OpenHandleKeeps, OpenBytesKeeps, OpenRefusedKeeps, SourceReadKeeps, InstantiatedKeeps,
       InstantiationFailsKeeps, ConstructKeeps, ConstructRefusedKeeps, ComposeKeeps,
       ComposeRefusedKeeps, ActivatedKeeps, ActivationFailsKeeps, PublishKeeps, FreeKeeps

\* Every step keeps the invariant.
LEMMA NextInv == IInv /\ [Next]_vars => IInv'
  <1> SUFFICES ASSUME IInv, [Next]_vars PROVE IInv'  OBVIOUS
  <1>1. CASE SessionNext
    BY <1>1, SessionStep, StillLoads DEF IInv
  <1>2. CASE LoadNext /\ UNCHANGED sessionVars
    BY <1>2, LoadStep, SessionsKeep DEF IInv
  <1>3. CASE UNCHANGED vars
    <2>1. Still /\ UNCHANGED sessionVars  BY <1>3 DEF vars, Still
    <2>2. Frame  BY <2>1, StillLoads DEF IInv, LoadInv, Owned, Frame, Kept, Still
    <2> QED  BY <2>1, <2>2, StillLoads, SessionsKeep DEF IInv
  <1> QED  BY <1>1, <1>2, <1>3 DEF Next

\* The invariant holds in every reachable state.
LEMMA Invariance == Spec => []IInv
  BY InitInv, NextInv, PTL DEF Spec

\* Types, and that no timer outlives its request, for every number of loads and sessions.
THEOREM TypeCorrect == Spec => []TypeOK
  <1>1. IInv => TypeOK
    BY DEF IInv, LoadInv, SessionInv, TypeOK
  <1> QED  BY <1>1, Invariance, PTL

\* Handles from the network hold the pinned content of what was asked for, for ever.
THEOREM FetchedIsAlwaysPinned == Spec => []FetchedIsPinned
  <1>1. IInv => FetchedIsPinned
    BY DEF IInv, LoadInv, Verified, IsPinned, FetchedIsPinned
  <1> QED  BY <1>1, Invariance, PTL

\* Only a handle is trusted; tokenizer, metadata and handle agree on the content.
THEOREM SessionsAgreeWithHandles == Spec => []MadeFromHandle
  <1>1. IInv => MadeFromHandle
    BY DEF IInv, SessionInv, Opened, Built, MadeFromHandle
  <1> QED  BY <1>1, Invariance, PTL

\* However many sessions and loads there are, a refused session on a handle keeps its tokenizer
\* only if its decoder could not be composed; one on the client's own bytes, also if the
\* client made its metadata unreadable.
THEOREM OnlyTwoRefusalsHold == Spec => []HeldAfterRefusal
  <1>1. IInv => HeldAfterRefusal
    BY DEF IInv, SessionInv, Opened, Built, HeldAfterRefusal
  <1> QED  BY <1>1, Invariance, PTL

\* Tokenizers and exports part only after two sessions asked for the first instance.
THEOREM SplitsNeedTwoFirstLoads == Spec => []OnlyFirstLoadsSplit
  <1>1. ASSUME IInv PROVE OnlyFirstLoadsSplit
    <2> SUFFICES ASSUME NEW s \in Sessions, tokenizer[s] # Nothing, instance[s] # wasm
                 PROVE  \E r, q \in firstAsked : r # q
      BY DEF OnlyFirstLoadsSplit
    <2>1. instance[s] \in 0 .. instances /\ instances \in Nat /\ wasm = instances
      BY <1>1 DEF IInv, SessionInv, SessionTypeOK
    <2>2. instance[s] >= 1
      BY <1>1 DEF IInv, SessionInv, Counted
    <2> QED  BY <1>1, <2>1, <2>2 DEF IInv, SessionInv, Counted
  <1> QED  BY <1>1, Invariance, PTL
=============================================================================
