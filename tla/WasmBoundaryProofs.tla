-------------------------- MODULE WasmBoundaryProofs --------------------------
(***************************************************************************)
(* WasmBoundary: memory is safe and nothing is held between turns, for any *)
(* sessions, strings and bounds, and however often memory grows.           *)
(*                                                                         *)
(* Every function is a sequence of steps, and what makes it correct is how *)
(* its steps stand next to each other: WellFormed says that of what is     *)
(* left of a function, ProgramsAreWellFormed of every function when it     *)
(* starts, and each action keeps it.  The rest of the invariant ties what  *)
(* JavaScript holds to the step it is at.                                  *)
(***************************************************************************)
EXTENDS WasmBoundary, SequenceTheorems, WellFoundedInduction, TLAPS

Doing == {"call", "attempt", "raw", "free", "try", "await", "loop", "encodeInto", "decode"}
Name  == DOMAIN BpeDecoding \union DOMAIN BpeEncoding \union DOMAIN BpeLoading
         \union DOMAIN BpeQueries \union DOMAIN SentencePieceEncoding
         \union DOMAIN SentencePieceQueries \union DOMAIN WasmTransferredTokenizer
         \union DOMAIN WasmOverlapReconciler \union DOMAIN WasmReservedEncoding \union Doing
StepSet == [do : Doing, of : Class \union {"class", "none"}, method : Name]

Guarded == {"encodeReserved", "encodeOnPool"}   \* the functions with a finally block
Using   == {"decode", "encodeInto"}             \* the steps that use a lent view
OnlyBpe == {"loop", "encodeInto", "raw"}        \* the steps of BPE sessions alone

\* What a step of a session of kind k returns.
Result(k, step) == MethodOf(k, step).result

\* Step i of what is left, t, of function o, whose finally block is cl.
CallFits(k, o, t, cl, i) ==
    t[i].do \in Calls =>
        /\ Result(k, t[i]) \in {"encoding", "overlap"} =>
              /\ o \in Guarded /\ Result(k, t[i]) = Opened(o) /\ t[i].do = "call"
              /\ i < Len(t) /\ t[i + 1].do = "try"
        /\ t[i].of \in {"encoding", "overlap"} =>
              /\ o \in Guarded /\ t[i].of = Opened(o)
              /\ cl = <<Free(Opened(o))>> \/ \E j \in 1 .. i - 1 : t[j].do = "try"
        /\ Result(k, t[i]) = "tokenizer" <=> t[i].of = "class"
        /\ t[i].of = "class" => o = "load" /\ i = 1 /\ t[i].do = "call"
        /\ t[i].method = "decodeBorrowedAssemblyView" => Result(k, t[i]) = "view"

TryFits(k, o, t, cl, i) ==
    t[i].do = "try" =>
        /\ o \in Guarded /\ cl = <<>>
        /\ i > 1 => t[i - 1].do = "call" /\ Result(k, t[i - 1]) = Opened(o)
        /\ \A j \in 1 .. Len(t) : t[j].do = "try" => j = i

FreeFits(o, t, cl, i) ==
    t[i].do = "free" =>
        /\ Len(t) = 1 /\ cl = <<>>
        /\ \/ o \in Guarded /\ t[i] = Free(Opened(o))
           \/ o = "close" /\ t[i] = Free("tokenizer")

UseFits(k, t, i) ==
    t[i].do \in Using /\ i > 1 => t[i - 1].do = "call" /\ Result(k, t[i - 1]) = "view"

AwaitFits(k, o, t, cl, i) ==
    t[i].do = "await" =>
        /\ k = "bpe" /\ o \in {"encodeOnPool", "encodeDetailed"}
        /\ o = "encodeOnPool" => cl # <<>> \/ \E j \in 1 .. i - 1 : t[j].do = "try"

KindFits(k, t, i) ==
    /\ t[i].do \in OnlyBpe => k = "bpe"
    /\ t[i].of = "class" => t[i].do = "call"

Fits(k, o, t, cl, i) ==
    /\ CallFits(k, o, t, cl, i) /\ TryFits(k, o, t, cl, i) /\ FreeFits(o, t, cl, i)
    /\ UseFits(k, t, i) /\ AwaitFits(k, o, t, cl, i) /\ KindFits(k, t, i)

WellFormed(k, o, t, cl) ==
    /\ t \in Seq(StepSet)
    /\ cl = <<>> \/ (o \in Guarded /\ cl = <<Free(Opened(o))>>)
    /\ \A i \in 1 .. Len(t) : Fits(k, o, t, cl, i)

---------------------------------------------------------------------------
Types ==
    /\ session \in [kind : Kinds, route : Routes]
    /\ phase \in {"new", "open", "closed", "lost"}
    /\ thrown \in BOOLEAN
    /\ suspended = [op |-> suspended.op, todo |-> suspended.todo, cleanup |-> suspended.cleanup]
    /\ suspended.op \in {"none", "encodeOnPool", "encodeDetailed"}
    /\ passed \in Nat /\ returned \in {"nothing", "value", "error"}
    /\ views \in [Width -> {"none", "attached", "detached"}]
    /\ blocks \in Int /\ slots \in Int /\ abandoned \in Int /\ left \in Int
    /\ pointer \in [Class -> {"none", "live", "null"}]
    /\ allocated \subseteq Class /\ registered \subseteq Class

Control ==
    /\ WellFormed(session.kind, op, todo, cleanup)
    /\ WellFormed(session.kind, suspended.op, suspended.todo, suspended.cleanup)
    /\ op = "none" => todo = <<>> /\ cleanup = <<>>
    /\ suspended.op = "none" => suspended.todo = <<>> /\ suspended.cleanup = <<>>
    /\ suspended.op = "encodeOnPool" => suspended.cleanup # <<>>
    /\ suspended.todo # <<>> => Head(suspended.todo).do \notin Using \union {"try", "free"}
    /\ suspended.op # "none" =>
          op \notin {"encodeOnPool", "encodeDetailed", "load", "close"} /\ session.kind = "bpe"
    /\ op = "encodeOnPool" => session.kind = "bpe"
    /\ passed > 0 \/ returned # "nothing" => todo # <<>> /\ Head(todo).do \in Calls
    /\ returned # "nothing" => passed = 0

Pending(c) == returned = "value" /\ Result(session.kind, Head(todo)) = c

ResultBlock == returned = "value"
    /\ Result(session.kind, Head(todo)) \in Width \union {"string", "memory"}
ResultSlot ==
    \/ returned = "error"
    \/ returned = "value" /\ Head(todo).method = "decodeBorrowedAssemblyView"

Accounts ==
    /\ blocks = abandoned + passed + (IF ResultBlock THEN 1 ELSE 0)
    /\ slots = left + (IF ResultSlot THEN 1 ELSE 0)

Lending == todo # <<>> /\ Head(todo).do \in Using => borrowed = "live"

\* Function o, with t left and finally block cl, has object c to free.
Holding(c, o, t, cl) ==
    /\ o \in Guarded /\ c = Opened(o)
    /\ \/ t # <<>> /\ Head(t).do \in {"try", "free"}
       \/ cl # <<>>

Held(c) ==
    \/ Holding(c, op, todo, cleanup)
    \/ Holding(c, suspended.op, suspended.todo, suspended.cleanup)

Objects ==
    /\ \A c \in {"encoding", "overlap"} :
          /\ c \in allocated <=> Held(c) \/ Pending(c)
          /\ Held(c) => pointer[c] = "live"
    /\ \A c \in Class : c \in registered => c \in allocated /\ pointer[c] = "live"
    /\ \A c \in Class : c \in allocated => c \in registered \/ Pending(c)
    /\ \A c \in Class : Pending(c) => c \in allocated

Lifetime ==
    /\ phase = "new" =>
          suspended.op = "none" /\ op \in {"none", "load"} /\ pointer["tokenizer"] # "null"
    /\ op = "load" => phase = "new"
    /\ op = "load" /\ ~thrown /\ ~(todo # <<>> /\ Head(todo).of = "class")
          => "tokenizer" \in registered
    /\ phase = "open" => "tokenizer" \in registered
    /\ phase = "closed" /\ pointer["tokenizer"] = "live" => "tokenizer" \in registered
    /\ phase = "lost" => op = "none" /\ suspended.op = "none"
    /\ op = "close" =>
          /\ phase = "closed" /\ suspended.op = "none" /\ cleanup = <<>>
          /\ todo # <<>> => todo = <<Free("tokenizer")>> /\ pointer["tokenizer"] = "live"
    /\ pointer["tokenizer"] = "null" =>
          /\ phase \in {"closed", "lost"} /\ suspended.op = "none"
          /\ op \in {"none", "close"} \/ (op = "encodeDetailed" /\ session.kind = "sentencepiece")

IInv ==
    Types /\ Control /\ Accounts /\ Lending /\ Objects /\ Lifetime /\ faults = {}

---------------------------------------------------------------------------
\* Sequences of steps.

\* What is left of a function after a step is well-formed.
LEMMA TailWellFormed ==
    ASSUME NEW k, NEW o, NEW t, NEW cl, WellFormed(k, o, t, cl), t # <<>>, Head(t).do # "try"
    PROVE  WellFormed(k, o, Tail(t), cl)
<1>1. /\ t \in Seq(StepSet) /\ Tail(t) \in Seq(StepSet) /\ Len(t) \in Nat
      /\ Len(Tail(t)) = Len(t) - 1 /\ Head(t) = t[1]
      /\ \A i \in 1 .. Len(Tail(t)) : Tail(t)[i] = t[i + 1]
  BY DEF WellFormed
<1>2. SUFFICES ASSUME NEW i \in 1 .. Len(Tail(t))
               PROVE  Fits(k, o, Tail(t), cl, i)
  BY <1>1 DEF WellFormed
<1>3. /\ i + 1 \in 1 .. Len(t) /\ Tail(t)[i] = t[i + 1]
      /\ i > 1 => Tail(t)[i - 1] = t[i]
      /\ i < Len(Tail(t)) <=> i + 1 < Len(t)
      /\ i < Len(Tail(t)) => Tail(t)[i + 1] = t[i + 2]
  BY <1>1, <1>2
<1>4. Fits(k, o, t, cl, i + 1)
  BY <1>3 DEF WellFormed
<1>5. ASSUME NEW j \in 1 .. (i + 1) - 1, t[j].do = "try"
      PROVE  \E l \in 1 .. i - 1 : Tail(t)[l].do = "try"
  <2>1. j # 1 BY <1>1, <1>5
  <2>2. j - 1 \in 1 .. i - 1 /\ Tail(t)[j - 1] = t[j] BY <1>1, <1>2, <2>1
  <2> QED BY <1>5, <2>2
<1>6. CallFits(k, o, Tail(t), cl, i)
  BY <1>3, <1>4, <1>5, <1>1 DEF Fits, CallFits
<1>7. TryFits(k, o, Tail(t), cl, i)
  <2>1. ASSUME NEW j \in 1 .. Len(Tail(t)), t[i + 1].do = "try", Tail(t)[j].do = "try" PROVE j = i
    <3>1. j + 1 \in 1 .. Len(t) /\ t[j + 1].do = "try" BY <1>1, <2>1
    <3>2. j + 1 = i + 1 BY <2>1, <3>1, <1>4 DEF Fits, TryFits
    <3> QED BY <3>2, <1>1
  <2> QED BY <2>1, <1>3, <1>4, <1>1 DEF Fits, TryFits
<1>8. FreeFits(o, Tail(t), cl, i) /\ UseFits(k, Tail(t), i) /\ KindFits(k, Tail(t), i)
  BY <1>1, <1>3, <1>4 DEF Fits, FreeFits, UseFits, KindFits
<1>9. AwaitFits(k, o, Tail(t), cl, i)
  BY <1>3, <1>4, <1>5 DEF Fits, AwaitFits
<1> QED BY <1>6, <1>7, <1>8, <1>9 DEF Fits

\* Entering a try block leaves its finally block as the only cleanup.
LEMMA TryWellFormed ==
    ASSUME NEW k, NEW o, NEW t, NEW cl, WellFormed(k, o, t, cl), t # <<>>, Head(t).do = "try"
    PROVE  WellFormed(k, o, Tail(t), <<Free(Opened(o))>>) /\ cl = <<>> /\ o \in Guarded
<1>1. /\ t \in Seq(StepSet) /\ Tail(t) \in Seq(StepSet) /\ Len(t) \in Nat \ {0}
      /\ Len(Tail(t)) = Len(t) - 1 /\ Head(t) = t[1]
      /\ \A i \in 1 .. Len(Tail(t)) : Tail(t)[i] = t[i + 1]
  BY DEF WellFormed
<1>2. o \in Guarded /\ cl = <<>> /\ \A j \in 1 .. Len(t) : t[j].do = "try" => j = 1
  BY <1>1 DEF WellFormed, Fits, TryFits
<1>3. SUFFICES ASSUME NEW i \in 1 .. Len(Tail(t))
               PROVE  Fits(k, o, Tail(t), <<Free(Opened(o))>>, i)
  BY <1>1, <1>2 DEF WellFormed
<1>4. /\ i + 1 \in 1 .. Len(t) /\ Tail(t)[i] = t[i + 1]
      /\ i > 1 => Tail(t)[i - 1] = t[i]
      /\ i < Len(Tail(t)) <=> i + 1 < Len(t)
      /\ i < Len(Tail(t)) => Tail(t)[i + 1] = t[i + 2]
  BY <1>1, <1>3
<1>5. Fits(k, o, t, cl, i + 1)
  BY <1>4 DEF WellFormed
<1>6. Tail(t)[i].do # "try" /\ (i < Len(Tail(t)) => Tail(t)[i + 1].do # "try")
  <2>1. Tail(t)[i].do # "try" BY <1>2, <1>4, <1>1
  <2>2. i < Len(Tail(t)) => i + 2 \in 1 .. Len(t) BY <1>1, <1>3
  <2> QED BY <1>2, <1>4, <2>1, <2>2, <1>1
<1>7. CallFits(k, o, Tail(t), <<Free(Opened(o))>>, i) /\ TryFits(k, o, Tail(t), <<Free(Opened(o))>>, i)
  BY <1>4, <1>5, <1>6, <1>1, <1>2 DEF Fits, CallFits, TryFits
<1>8. FreeFits(o, Tail(t), <<Free(Opened(o))>>, i) /\ UseFits(k, Tail(t), i) /\ KindFits(k, Tail(t), i)
  BY <1>1, <1>4, <1>5 DEF Fits, FreeFits, UseFits, KindFits
<1>9. AwaitFits(k, o, Tail(t), <<Free(Opened(o))>>, i)
  BY <1>4, <1>5 DEF Fits, AwaitFits
<1> QED BY <1>7, <1>8, <1>9 DEF Fits

\* Only the finally block is left.
LEMMA CleanupWellFormed ==
    ASSUME NEW k, NEW o, NEW t, NEW cl, WellFormed(k, o, t, cl)
    PROVE  WellFormed(k, o, cl, <<>>)
<1>1. CASE cl = <<>>
  <2>1. cl \in Seq(StepSet) /\ Len(cl) = 0 BY <1>1
  <2> QED BY <2>1, <1>1 DEF WellFormed
<1>2. CASE cl # <<>>
  <2>1. o \in Guarded /\ cl = <<Free(Opened(o))>> BY <1>2 DEF WellFormed
  <2>2. Free(Opened(o)) \in StepSet
    BY <2>1 DEF Free, Opened, Guarded, StepSet, Doing, Class, Name
  <2>3. cl \in Seq(StepSet) /\ Len(cl) = 1 /\ cl[1] = Free(Opened(o)) BY <2>1, <2>2
  <2>4. cl[1].do = "free" /\ cl[1].of # "class" BY <2>3 DEF Free, Opened
  <2> QED
    BY <2>1, <2>3, <2>4
    DEF WellFormed, Fits, CallFits, TryFits, FreeFits, UseFits, AwaitFits, KindFits, Calls, Using, OnlyBpe
<1> QED BY <1>1, <1>2

\* A step that stands anywhere.
Plain(k, s) ==
    /\ s \in StepSet /\ s.do \in {"call", "attempt", "raw", "loop"}
    /\ s.of \in {"tokenizer", "none"}
    /\ s.do \in OnlyBpe => k = "bpe"
    /\ s.do \in Calls =>
          /\ Result(k, s) \notin Class
          /\ s.method = "decodeBorrowedAssemblyView" => Result(k, s) = "view"

\* A step that opens, frees and uses nothing fits anywhere.
LEMMA PlainFits ==
    ASSUME NEW k, NEW o, NEW t, NEW cl, NEW i, Plain(k, t[i])
    PROVE  Fits(k, o, t, cl, i)
BY DEF Plain, Fits, CallFits, TryFits, FreeFits, UseFits, AwaitFits, KindFits, Calls, Using, OnlyBpe, Class

\* A function of such steps is well-formed.
LEMMA PlainWellFormed ==
    ASSUME NEW k, NEW o, NEW t \in Seq(StepSet), NEW cl,
           \A i \in 1 .. Len(t) : Plain(k, t[i]),
           cl = <<>> \/ (o \in Guarded /\ cl = <<Free(Opened(o))>>)
    PROVE  WellFormed(k, o, t, cl)
BY PlainFits DEF WellFormed

\* The methods of each tokenizer that return no object.
PlainBpe == (DOMAIN BpeDecoding \union DOMAIN BpeEncoding \union DOMAIN BpeLoading \union DOMAIN BpeQueries)
    \ {"beginOverlap", "encodeReserved", "fromHtk", "fromResolverTrustedHtk", "fromResolverTrustedWarmHtk"}
PlainPiece == (DOMAIN SentencePieceEncoding \union DOMAIN SentencePieceQueries)
    \ {"encodeReserved", "fromHtk", "fromResolverTrustedHtk"}
PlainTransferred == DOMAIN WasmTransferredTokenizer \ {"fromWorkerImage"}

\* The calls of the BPE tokenizer that hand out no object are such steps.
LEMMA PlainCallBpe ==
    ASSUME NEW m \in PlainBpe
    PROVE  Plain("bpe", Call("tokenizer", m)) /\ Plain("bpe", Attempt("tokenizer", m))
<1> USE DEF PlainBpe
<1>1. /\ Call("tokenizer", m) \in StepSet /\ Attempt("tokenizer", m) \in StepSet
  BY DEF Call, Attempt, StepSet, Doing, Class, Name
<1>2. /\ Result("bpe", Call("tokenizer", m)) = WasmTokenizer(m).result
      /\ Result("bpe", Attempt("tokenizer", m)) = WasmTokenizer(m).result
  BY DEF Result, MethodOf, TokenizerMethod, Call, Attempt
<1>3. /\ WasmTokenizer(m).result \notin Class
      /\ m = "decodeBorrowedAssemblyView" => WasmTokenizer(m).result = "view"
  BY DEF WasmTokenizer, BpeDecoding, BpeEncoding, BpeLoading, BpeQueries, Fallible, Infallible, Class
<1> QED BY <1>1, <1>2, <1>3 DEF Plain, Call, Attempt, OnlyBpe, Calls

\* So are those of the SentencePiece tokenizer.
LEMMA PlainCallPiece ==
    ASSUME NEW m \in PlainPiece
    PROVE  Plain("sentencepiece", Call("tokenizer", m))
<1> USE DEF PlainPiece
<1>1. Call("tokenizer", m) \in StepSet
  BY DEF Call, StepSet, Doing, Class, Name
<1>2. Result("sentencepiece", Call("tokenizer", m)) = WasmSentencePieceTokenizer(m).result
  BY DEF Result, MethodOf, TokenizerMethod, Call
<1>3. WasmSentencePieceTokenizer(m).result \notin Class /\ m # "decodeBorrowedAssemblyView"
  BY DEF WasmSentencePieceTokenizer, SentencePieceEncoding, SentencePieceQueries, Fallible, Infallible, Class
<1> QED BY <1>1, <1>2, <1>3 DEF Plain, Call, OnlyBpe, Calls

\* And those of a worker's tokenizer.
LEMMA PlainCallTransferred ==
    ASSUME NEW m \in PlainTransferred
    PROVE  Plain("transferred", Call("tokenizer", m))
<1> USE DEF PlainTransferred
<1>1. Call("tokenizer", m) \in StepSet
  BY DEF Call, StepSet, Doing, Class, Name
<1>2. Result("transferred", Call("tokenizer", m)) = WasmTransferredTokenizer[m].result
  BY DEF Result, MethodOf, TokenizerMethod, Call
<1>3. WasmTransferredTokenizer[m].result \notin Class /\ m # "decodeBorrowedAssemblyView"
  BY DEF WasmTransferredTokenizer, Fallible, Infallible, Class
<1> QED BY <1>1, <1>2, <1>3 DEF Plain, Call, OnlyBpe, Calls

\* The loop over the resident buffer is such a step.
LEMMA PlainLoop == Plain("bpe", Loop)
  BY DEF Plain, Loop, Other, StepSet, Doing, Name, OnlyBpe, Calls, Class

\* The decode without the glue is such a step.
LEMMA PlainRaw == Plain("bpe", Raw)
<1>1. Result("bpe", Raw) = "memory" BY DEF Result, MethodOf, Raw, Other, RawDecodeUtf16, Fallible
<1> QED BY <1>1 DEF Plain, Raw, Other, StepSet, Doing, Name, OnlyBpe, Calls, Class

\* A function of one such step is well-formed.
LEMMA PlainOne ==
    ASSUME NEW k, NEW o, NEW a, Plain(k, a)
    PROVE  WellFormed(k, o, <<a>>, <<>>)
<1>1. <<a>> \in Seq(StepSet) /\ Len(<<a>>) = 1 /\ <<a>>[1] = a BY DEF Plain
<1>2. \A i \in 1 .. Len(<<a>>) : Plain(k, <<a>>[i]) BY <1>1
<1> QED BY <1>1, <1>2, PlainWellFormed

\* A function of two is.
LEMMA PlainTwo ==
    ASSUME NEW k, NEW o, NEW a, NEW b, Plain(k, a), Plain(k, b)
    PROVE  WellFormed(k, o, <<a, b>>, <<>>)
<1> DEFINE t == <<a, b>>
<1>1. t \in Seq(StepSet) /\ Len(t) = 2 /\ t[1] = a /\ t[2] = b BY DEF Plain
<1>2. \A i \in 1 .. Len(t) : Plain(k, t[i]) BY <1>1
<1> QED BY <1>1, <1>2, PlainWellFormed

\* A function of three is.
LEMMA PlainThree ==
    ASSUME NEW k, NEW o, NEW a, NEW b, NEW c, Plain(k, a), Plain(k, b), Plain(k, c)
    PROVE  WellFormed(k, o, <<a, b, c>>, <<>>)
<1> DEFINE t == <<a, b, c>>
<1>1. t \in Seq(StepSet) /\ Len(t) = 3 /\ t[1] = a /\ t[2] = b /\ t[3] = c BY DEF Plain
<1>2. \A i \in 1 .. Len(t) : Plain(k, t[i]) BY <1>1
<1> QED BY <1>1, <1>2, PlainWellFormed

\* A view is used by the step after the call that lends it.
LEMMA ViewWellFormed ==
    ASSUME NEW o, NEW cl, cl = <<>> \/ (o \in Guarded /\ cl = <<Free(Opened(o))>>),
           NEW m \in {"decodeBorrowedAssemblyView", "residentInputView"}, NEW u \in {Read, Fill}
    PROVE  WellFormed("bpe", o, <<Call("tokenizer", m), u>>, cl)
<1> DEFINE t == <<Call("tokenizer", m), u>>
<1>1. Plain("bpe", Call("tokenizer", m)) BY PlainCallBpe DEF PlainBpe, BpeDecoding, BpeEncoding, BpeLoading, BpeQueries
<1>2. Result("bpe", Call("tokenizer", m)) = "view"
  BY DEF Result, MethodOf, TokenizerMethod, Call, WasmTokenizer, BpeDecoding, BpeEncoding, BpeLoading, BpeQueries, Fallible, Infallible
<1>3. u \in StepSet /\ u.do \in Using /\ u.of = "none"
  BY DEF Read, Fill, Other, StepSet, Doing, Name, Using
<1>4. t \in Seq(StepSet) /\ Len(t) = 2 /\ t[1] = Call("tokenizer", m) /\ t[2] = u
  BY <1>1, <1>3 DEF Plain
<1>5. t[1].do = "call" BY <1>4 DEF Call
<1>6. Fits("bpe", o, t, cl, 2)
  BY <1>2, <1>3, <1>4, <1>5 DEF Fits, CallFits, TryFits, FreeFits, UseFits, AwaitFits, KindFits, Calls, Using
<1>7. Fits("bpe", o, t, cl, 1)
  BY <1>1, <1>4, PlainFits
<1> HIDE DEF t
<1>8. \A i \in 1 .. Len(t) : i = 1 \/ i = 2 BY <1>4
<1>9. WellFormed("bpe", o, t, cl) BY <1>4, <1>6, <1>7, <1>8 DEF WellFormed
<1> QED BY <1>9 DEF t

\* A load begins with its constructor.
LEMMA ConstructWellFormed ==
    ASSUME NEW k, NEW c, NEW t \in Seq(StepSet), Call("class", c) \in StepSet,
           Result(k, Call("class", c)) = "tokenizer", c # "decodeBorrowedAssemblyView",
           \A i \in 2 .. Len(t) : Plain(k, t[i]),
           t # <<>>, t[1] = Call("class", c)
    PROVE  WellFormed(k, "load", t, <<>>)
<1>1. Fits(k, "load", t, <<>>, 1)
  BY DEF Fits, CallFits, TryFits, FreeFits, UseFits, AwaitFits, KindFits, Call, Calls, Using, OnlyBpe
<1>2. \A i \in 2 .. Len(t) : Fits(k, "load", t, <<>>, i)
  BY PlainFits
<1>3. \A i \in 1 .. Len(t) : i = 1 \/ i \in 2 .. Len(t) BY Len(t) \in Nat
<1> QED BY <1>1, <1>2, <1>3 DEF WellFormed

\* Loading a BPE container is well-formed.
LEMMA BpeLoadWellFormed ==
    ASSUME NEW c \in {"fromHtk", "fromResolverTrustedHtk", "fromResolverTrustedWarmHtk"}, NEW lazy \in BOOLEAN
    PROVE  WellFormed("bpe", "load", BpeLoad(c, lazy), <<>>)
<1> DEFINE t == BpeLoad(c, lazy)
<1>1. Call("class", c) \in StepSet BY DEF Call, StepSet, Doing, Name, BpeLoading
<1>2. Result("bpe", Call("class", c)) = "tokenizer" /\ c # "decodeBorrowedAssemblyView"
  BY DEF Result, MethodOf, TokenizerMethod, Call, WasmTokenizer, BpeDecoding, BpeEncoding, BpeLoading, BpeQueries, Fallible
<1>3. /\ Plain("bpe", Call("tokenizer", "reservedNamesJson"))
      /\ Plain("bpe", Attempt("tokenizer", "vocabularyDigest"))
      /\ Plain("bpe", Attempt("tokenizer", "exportWorkerImage"))
  BY PlainCallBpe DEF PlainBpe, BpeLoading, BpeQueries
<1>4. CASE lazy
  <2>1. /\ t \in Seq(StepSet) /\ Len(t) = 3 /\ t[1] = Call("class", c)
        /\ t[2] = Call("tokenizer", "reservedNamesJson") /\ t[3] = Attempt("tokenizer", "vocabularyDigest")
    BY <1>1, <1>3, <1>4 DEF BpeLoad, Construct, Plain
  <2> HIDE DEF t
  <2>2. \A i \in 2 .. Len(t) : i = 2 \/ i = 3 BY <2>1
  <2>3. \A i \in 2 .. Len(t) : Plain("bpe", t[i]) BY <2>1, <2>2, <1>3
  <2> QED BY <1>1, <1>2, <2>1, <2>3, ConstructWellFormed DEF t
<1>5. CASE ~lazy
  <2>1. /\ t \in Seq(StepSet) /\ Len(t) = 4 /\ t[1] = Call("class", c)
        /\ t[2] = Call("tokenizer", "reservedNamesJson") /\ t[3] = Attempt("tokenizer", "vocabularyDigest")
        /\ t[4] = Attempt("tokenizer", "exportWorkerImage")
    BY <1>1, <1>3, <1>5 DEF BpeLoad, Construct, Plain
  <2> HIDE DEF t
  <2>2. \A i \in 2 .. Len(t) : i = 2 \/ i = 3 \/ i = 4 BY <2>1
  <2>3. \A i \in 2 .. Len(t) : Plain("bpe", t[i]) BY <2>1, <2>2, <1>3
  <2> QED BY <1>1, <1>2, <2>1, <2>3, ConstructWellFormed DEF t
<1> QED BY <1>4, <1>5

\* Loading a SentencePiece container is well-formed.
LEMMA PieceLoadWellFormed ==
    ASSUME NEW c \in {"fromHtk", "fromResolverTrustedHtk"}
    PROVE  WellFormed("sentencepiece", "load", <<Construct(c)>>, <<>>)
<1> DEFINE t == <<Construct(c)>>
<1>1. Call("class", c) \in StepSet BY DEF Call, StepSet, Doing, Name, BpeLoading
<1>2. Result("sentencepiece", Call("class", c)) = "tokenizer" /\ c # "decodeBorrowedAssemblyView"
  BY DEF Result, MethodOf, TokenizerMethod, Call, WasmSentencePieceTokenizer, SentencePieceEncoding, SentencePieceQueries, Fallible
<1>3. t \in Seq(StepSet) /\ Len(t) = 1 /\ t[1] = Call("class", c)
  BY <1>1 DEF Construct
<1> HIDE DEF t
<1>4. \A i \in 2 .. Len(t) : Plain("sentencepiece", t[i]) BY <1>3
<1>5. t # <<>> BY <1>3
<1> QED BY <1>1, <1>2, <1>3, <1>4, <1>5, ConstructWellFormed DEF t

\* A worker's initialization is well-formed.
LEMMA TransferredLoadWellFormed == WellFormed("transferred", "load", WorkerInitialize, <<>>)
<1> DEFINE t == WorkerInitialize
<1>1. Call("class", "fromWorkerImage") \in StepSet BY DEF Call, StepSet, Doing, Name, WasmTransferredTokenizer
<1>2. Result("transferred", Call("class", "fromWorkerImage")) = "tokenizer"
  BY DEF Result, MethodOf, TokenizerMethod, Call, WasmTransferredTokenizer, Fallible
<1>3. Plain("transferred", Call("tokenizer", "vocabSize")) /\ Plain("transferred", Call("tokenizer", "sourceDigest"))
  BY PlainCallTransferred DEF PlainTransferred, WasmTransferredTokenizer
<1>4. /\ t \in Seq(StepSet) /\ Len(t) = 3 /\ t[1] = Call("class", "fromWorkerImage")
      /\ t[2] = Call("tokenizer", "vocabSize") /\ t[3] = Call("tokenizer", "sourceDigest")
  BY <1>1, <1>3 DEF WorkerInitialize, Construct, Plain
<1> HIDE DEF t
<1>5. \A i \in 2 .. Len(t) : i = 2 \/ i = 3 BY <1>4
<1>6. \A i \in 2 .. Len(t) : Plain("transferred", t[i]) BY <1>3, <1>4, <1>5
<1>7. t # <<>> BY <1>4
<1> QED BY <1>1, <1>2, <1>4, <1>6, <1>7, ConstructWellFormed DEF t

\* encodeReserved frees the encoding it opens.
LEMMA ReservedWellFormed ==
    ASSUME NEW k \in {"bpe", "sentencepiece"}
    PROVE  WellFormed(k, "encodeReserved", EncodeReserved, <<>>)
<1> DEFINE t == EncodeReserved
<1>1. /\ Result(k, Call("tokenizer", "encodeReserved")) = "encoding"
      /\ Result(k, Call("encoding", "ids")) = "u32"
      /\ Result(k, Call("encoding", "starts")) = "u32"
      /\ Result(k, Call("encoding", "foundJson")) = "string"
  BY DEF Result, MethodOf, TokenizerMethod, Call, WasmTokenizer, BpeDecoding, BpeEncoding, BpeLoading, BpeQueries,
     WasmSentencePieceTokenizer, SentencePieceEncoding, SentencePieceQueries, Fallible, Infallible,
     WasmReservedEncoding, WasmSentencePieceEncoding
<1>2. /\ Call("tokenizer", "encodeReserved") \in StepSet /\ Try \in StepSet
      /\ Call("encoding", "ids") \in StepSet /\ Call("encoding", "starts") \in StepSet
      /\ Call("encoding", "foundJson") \in StepSet
  BY DEF Name, BpeEncoding, WasmReservedEncoding, StepSet, Doing, Class, Call, Try, Other
<1>3. /\ t \in Seq(StepSet) /\ Len(t) = 5 /\ t[1] = Call("tokenizer", "encodeReserved") /\ t[2] = Try
      /\ t[3] = Call("encoding", "ids") /\ t[4] = Call("encoding", "starts") /\ t[5] = Call("encoding", "foundJson")
  BY <1>2 DEF EncodeReserved
<1> HIDE DEF t
<1>4. \A i \in 1 .. Len(t) : CallFits(k, "encodeReserved", t, <<>>, i)
  BY <1>1, <1>3 DEF CallFits, Calls, Guarded, Opened, Call, Try, Other
<1>5. \A i \in 1 .. Len(t) : TryFits(k, "encodeReserved", t, <<>>, i)
  BY <1>1, <1>3 DEF TryFits, Guarded, Opened, Call, Try, Other
<1>6. \A i \in 1 .. Len(t) : /\ FreeFits("encodeReserved", t, <<>>, i)
         /\ UseFits(k, t, i) /\ AwaitFits(k, "encodeReserved", t, <<>>, i) /\ KindFits(k, t, i)
  BY <1>1, <1>3 DEF FreeFits, UseFits, AwaitFits, KindFits, Call, Try, Other, Using, OnlyBpe
<1> QED BY <1>3, <1>4, <1>5, <1>6 DEF WellFormed, Fits, t

\* The encoding of a long pretoken on the pool frees its reconciler.
LEMMA LongPretokenWellFormed ==
    ASSUME NEW e \in BOOLEAN
    PROVE  WellFormed("bpe", "encodeOnPool", EncodeLongPretoken(e), <<>>)
<1> DEFINE t == EncodeLongPretoken(e)
<1>1. /\ Result("bpe", Call("tokenizer", "pretokenRanges")) = "u32"
      /\ Result("bpe", Call("tokenizer", "defaultChunkSize")) = "scalar"
      /\ Result("bpe", Call("tokenizer", "beginOverlap")) = "overlap"
      /\ Result("bpe", Call("overlap", "initialRanges")) = "u32"
      /\ Result("bpe", Call("overlap", "acceptInitial")) = "u32"
      /\ Result("bpe", Call("overlap", "acceptEnlargement")) = "u32"
      /\ Result("bpe", Call("overlap", "takeIds")) = "u32"
  BY DEF Result, MethodOf, TokenizerMethod, Call, WasmTokenizer, BpeDecoding, BpeEncoding, BpeLoading, BpeQueries,
     WasmOverlapReconciler, Fallible, Infallible
<1>2. /\ Call("tokenizer", "pretokenRanges") \in StepSet /\ Call("tokenizer", "defaultChunkSize") \in StepSet
      /\ Call("tokenizer", "beginOverlap") \in StepSet /\ Try \in StepSet /\ Await \in StepSet
      /\ Call("overlap", "initialRanges") \in StepSet /\ Call("overlap", "acceptInitial") \in StepSet
      /\ Call("overlap", "acceptEnlargement") \in StepSet /\ Call("overlap", "takeIds") \in StepSet
  BY DEF Name, BpeDecoding, BpeEncoding, BpeLoading, WasmOverlapReconciler, StepSet, Doing, Class, Call, Try, Await, Other
<1>3. /\ t \in Seq(StepSet) /\ Len(t) >= 8 /\ Len(t) <= 10 /\ Len(t) \in Nat
      /\ t[1] = Call("tokenizer", "pretokenRanges") /\ t[2] = Call("tokenizer", "defaultChunkSize")
      /\ t[3] = Call("tokenizer", "beginOverlap") /\ t[4] = Try
      /\ t[5] = Call("overlap", "initialRanges") /\ t[6] = Await /\ t[7] = Call("overlap", "acceptInitial")
      /\ \A i \in 8 .. Len(t) : t[i] \in {Await, Call("overlap", "acceptEnlargement"), Call("overlap", "takeIds")}
  BY <1>2 DEF EncodeLongPretoken
<1> HIDE DEF t
<1>4. \A i \in 1 .. Len(t) : i \in {1, 2, 3, 4, 5, 6, 7} \/ i \in 8 .. Len(t) BY <1>3
<1>5. \A i \in 1 .. Len(t) : t[i].do = "try" <=> i = 4
  <2>1. Try.do = "try" /\ Await.do # "try" /\ \A of, method : Call(of, method).do # "try"
    BY DEF Call, Try, Await, Other
  <2>2. t[1].do # "try" /\ t[2].do # "try" /\ t[3].do # "try" /\ t[4].do = "try" /\ t[5].do # "try"
        /\ t[6].do # "try" /\ t[7].do # "try"
    BY <1>3, <2>1
  <2>3. \A i \in 8 .. Len(t) : t[i].do # "try"
    BY <1>3, <2>1
  <2> QED
    BY <1>4, <2>2, <2>3
<1>6. \A i \in 1 .. Len(t) : CallFits("bpe", "encodeOnPool", t, <<>>, i)
  <2>1. ASSUME NEW i \in {1, 2} PROVE CallFits("bpe", "encodeOnPool", t, <<>>, i)
    BY <1>1, <1>3 DEF CallFits, Call
  <2>2. CallFits("bpe", "encodeOnPool", t, <<>>, 3)
    BY <1>1, <1>3 DEF CallFits, Call, Guarded, Opened, Try, Other
  <2>3. CallFits("bpe", "encodeOnPool", t, <<>>, 4) /\ CallFits("bpe", "encodeOnPool", t, <<>>, 6)
    BY <1>3 DEF CallFits, Calls, Await, Try, Other
  <2>4. ASSUME NEW i \in 1 .. Len(t), i \in {5, 7} \/ i \in 8 .. Len(t)
        PROVE CallFits("bpe", "encodeOnPool", t, <<>>, i)
    <3>1. 4 \in 1 .. i - 1 /\ 4 \in 1 .. Len(t) BY <2>4, <1>3
    <3>2. t[i] \in {Await, Call("overlap", "initialRanges"), Call("overlap", "acceptInitial"),
                    Call("overlap", "acceptEnlargement"), Call("overlap", "takeIds")}
      BY <2>4, <1>3
    <3>3. CASE t[i] = Await BY <3>3 DEF CallFits, Calls, Await, Other
    <3>4. CASE t[i] # Await
      <4>1. Result("bpe", t[i]) = "u32" /\ t[i].of = "overlap" /\ t[i].method # "decodeBorrowedAssemblyView"
        BY <3>2, <3>4, <1>1 DEF Call
      <4>2. \E j \in 1 .. i - 1 : t[j].do = "try" BY <3>1, <1>5
      <4> QED BY <4>1, <4>2 DEF CallFits, Guarded, Opened
    <3> QED BY <3>3, <3>4
  <2> QED BY <2>1, <2>2, <2>3, <2>4, <1>4
<1>7. \A i \in 1 .. Len(t) : TryFits("bpe", "encodeOnPool", t, <<>>, i)
  BY <1>1, <1>3, <1>5 DEF TryFits, Guarded, Opened, Call
<1>8. \A i \in 1 .. Len(t) : /\ FreeFits("encodeOnPool", t, <<>>, i)
         /\ UseFits("bpe", t, i) /\ KindFits("bpe", t, i)
  BY <1>3, <1>4, SMTT(30) DEF FreeFits, UseFits, KindFits, Call, Try, Await, Other, Using, OnlyBpe
<1>9. \A i \in 1 .. Len(t) : AwaitFits("bpe", "encodeOnPool", t, <<>>, i)
  <2>1. ASSUME NEW i \in 1 .. Len(t), t[i].do = "await" PROVE 4 \in 1 .. i - 1
    BY <1>3, <1>4, <2>1 DEF Call, Try, Other
  <2>2. 4 \in 1 .. Len(t) /\ t[4].do = "try" BY <1>3, <1>5
  <2> QED BY <2>1, <2>2 DEF AwaitFits
<1> QED BY <1>3, <1>6, <1>7, <1>8, <1>9 DEF WellFormed, Fits, t

\* encodeDetailed frees the encoding it opens.
LEMMA DetailedWellFormed == WellFormed("bpe", "encodeDetailed", BpeDetailed, <<>>)
<1> DEFINE t == BpeDetailed
<1>1. /\ Plain("bpe", Call("tokenizer", "encode")) /\ Plain("bpe", Call("tokenizer", "tokenStarts"))
      /\ Plain("bpe", Call("tokenizer", "reservedFoundJson"))
  BY PlainCallBpe DEF PlainBpe, BpeEncoding, BpeQueries
<1>2. Await \in StepSet BY DEF Await, Other, StepSet, Doing, Name
<1>3. /\ t \in Seq(StepSet) /\ Len(t) = 4 /\ t[1] = Call("tokenizer", "encode") /\ t[2] = Await
      /\ t[3] = Call("tokenizer", "tokenStarts") /\ t[4] = Call("tokenizer", "reservedFoundJson")
  BY <1>1, <1>2 DEF BpeDetailed, Plain
<1> HIDE DEF t
<1>4. Fits("bpe", "encodeDetailed", t, <<>>, 2)
  BY <1>3 DEF Fits, CallFits, TryFits, FreeFits, UseFits, AwaitFits, KindFits, Calls, Using, Await, Other
<1>5. \A i \in 1 .. Len(t) : i = 2 \/ Plain("bpe", t[i]) BY <1>1, <1>3
<1> QED BY <1>3, <1>4, <1>5, PlainFits DEF WellFormed, t

\* How a function begins.
Begins(k, next) ==
    /\ WellFormed(k, next.op, next.steps, <<>>)
    /\ next.steps # <<>> /\ Head(next.steps).do \in {"call", "raw", "loop"}
    /\ next.op = "load" => Head(next.steps).of = "class"
    /\ next.op \notin {"none", "close"}
    /\ next.op = "encodeOnPool" => k = "bpe"

\* A tokenizer call with up to two plain steps after it may begin.
LEMMA CallBegins ==
    ASSUME NEW k, NEW o, NEW m, NEW b, NEW c, o \notin {"load", "none", "close", "encodeOnPool"},
           Plain(k, Call("tokenizer", m))
    PROVE  /\ Begins(k, [op |-> o, steps |-> <<Call("tokenizer", m)>>])
           /\ Plain(k, b) => Begins(k, [op |-> o, steps |-> <<Call("tokenizer", m), b>>])
           /\ Plain(k, b) /\ Plain(k, c) => Begins(k, [op |-> o, steps |-> <<Call("tokenizer", m), b, c>>])
BY PlainOne, PlainTwo, PlainThree DEF Begins, Call

\* The decodes of a BPE session begin well-formed.
LEMMA BpeDecodeBegins ==
    ASSUME session \in [kind : Kinds, route : Routes]
    PROVE  /\ Begins("bpe", [op |-> "decode", steps |-> DecodeSteps])
           /\ Begins("bpe", [op |-> "decodeBytes", steps |-> DecodeBytesSteps])
<1>1. session.route \in {"raw", "assembly", "utf16", "borrowed", "builtins"} BY DEF Routes
<1>2. /\ Plain("bpe", Call("tokenizer", "decode")) /\ Plain("bpe", Call("tokenizer", "decodeAssemblyBytes"))
      /\ Plain("bpe", Call("tokenizer", "decodeAssemblyUtf16")) /\ Plain("bpe", Call("tokenizer", "tokenBytes"))
  BY PlainCallBpe DEF PlainBpe, BpeDecoding, BpeQueries
<1>3. CASE session.route = "borrowed"
  <2>1. DecodeSteps = <<Call("tokenizer", "decodeBorrowedAssemblyView"), Read>> BY <1>3 DEF DecodeSteps
  <2>2. WellFormed("bpe", "decode", DecodeSteps, <<>>) BY <2>1, ViewWellFormed
  <2>3. DecodeBytesSteps = <<Call("tokenizer", "decodeAssemblyBytes")>> BY <1>3 DEF DecodeBytesSteps
  <2>4. Begins("bpe", [op |-> "decodeBytes", steps |-> DecodeBytesSteps]) BY <2>3, <1>2, CallBegins
  <2> QED BY <2>1, <2>2, <2>4 DEF Begins, Call
<1>4. CASE session.route = "builtins"
  <2>1. DecodeSteps = <<Raw>> BY <1>4 DEF DecodeSteps
  <2>2. WellFormed("bpe", "decode", DecodeSteps, <<>>) BY <2>1, PlainOne, PlainRaw
  <2>3. DecodeBytesSteps = <<Call("tokenizer", "decodeAssemblyBytes")>> BY <1>4 DEF DecodeBytesSteps
  <2>4. Begins("bpe", [op |-> "decodeBytes", steps |-> DecodeBytesSteps]) BY <2>3, <1>2, CallBegins
  <2> QED BY <2>1, <2>2, <2>4 DEF Begins, Raw, Other
<1>5. CASE session.route = "raw"
  <2>1. DecodeSteps = <<Call("tokenizer", "decode")>> BY <1>5 DEF DecodeSteps
  <2>2. DecodeBytesSteps = <<Call("tokenizer", "tokenBytes"), Call("tokenizer", "tokenBytes")>>
    BY <1>5 DEF DecodeBytesSteps, GatherTokenBytes
  <2> QED BY <2>1, <2>2, <1>2, CallBegins
<1>6. CASE session.route = "assembly"
  <2>1. DecodeSteps = <<Call("tokenizer", "decodeAssemblyBytes")>> BY <1>6 DEF DecodeSteps
  <2>2. DecodeBytesSteps = <<Call("tokenizer", "decodeAssemblyBytes")>> BY <1>6 DEF DecodeBytesSteps
  <2> QED BY <2>1, <2>2, <1>2, CallBegins
<1>7. CASE session.route = "utf16"
  <2>1. DecodeSteps = <<Call("tokenizer", "decodeAssemblyUtf16")>> BY <1>7 DEF DecodeSteps
  <2>2. DecodeBytesSteps = <<Call("tokenizer", "decodeAssemblyBytes")>> BY <1>7 DEF DecodeBytesSteps
  <2> QED BY <2>1, <2>2, <1>2, CallBegins
<1> QED BY <1>1, <1>3, <1>4, <1>5, <1>6, <1>7

\* Every operation of a BPE session begins well-formed.
LEMMA BpeBegins ==
    ASSUME session \in [kind : Kinds, route : Routes], NEW next \in BpeOperations
    PROVE  Begins("bpe", next)
<1>1. CASE \E lazy \in BOOLEAN, c \in {"fromHtk", "fromResolverTrustedHtk", "fromResolverTrustedWarmHtk"} :
              next = [op |-> "load", steps |-> BpeLoad(c, lazy)]
  <2>1. PICK lazy \in BOOLEAN, c \in {"fromHtk", "fromResolverTrustedHtk", "fromResolverTrustedWarmHtk"} :
              next = [op |-> "load", steps |-> BpeLoad(c, lazy)]
    BY <1>1
  <2>2. WellFormed("bpe", "load", BpeLoad(c, lazy), <<>>) BY BpeLoadWellFormed
  <2>3. BpeLoad(c, lazy) # <<>> /\ Head(BpeLoad(c, lazy)) = Call("class", c)
    BY DEF BpeLoad, Construct
  <2> QED BY <2>1, <2>2, <2>3 DEF Begins, Call
<1>2. CASE \E e \in BOOLEAN : next = [op |-> "encodeOnPool", steps |-> EncodeLongPretoken(e)]
  <2>1. PICK e \in BOOLEAN : next = [op |-> "encodeOnPool", steps |-> EncodeLongPretoken(e)] BY <1>2
  <2>2. WellFormed("bpe", "encodeOnPool", EncodeLongPretoken(e), <<>>) BY LongPretokenWellFormed
  <2>3. EncodeLongPretoken(e) # <<>> /\ Head(EncodeLongPretoken(e)) = Call("tokenizer", "pretokenRanges")
    BY DEF EncodeLongPretoken
  <2> QED BY <2>1, <2>2, <2>3 DEF Begins, Call
<1>3. CASE \E p \in Probe : next = [op |-> "probe", steps |-> p]
  <2>1. PICK m \in PlainBpe : next = [op |-> "probe", steps |-> <<Call("tokenizer", m)>>]
    BY <1>3 DEF Probe, PlainBpe, BpeDecoding, BpeEncoding, BpeLoading, BpeQueries
  <2> QED BY <2>1, PlainCallBpe, CallBegins
<1>4. CASE \E o \in {"encode", "tokenBytes", "vocabSize", "switchTier"}, m \in {"encode", "tokenBytes", "vocabSize", "exportWorkerImage"} :
              next = [op |-> o, steps |-> <<Call("tokenizer", m)>>]
  <2>1. PICK o \in {"encode", "tokenBytes", "vocabSize", "switchTier"}, m \in {"encode", "tokenBytes", "vocabSize", "exportWorkerImage"} :
              next = [op |-> o, steps |-> <<Call("tokenizer", m)>>]
    BY <1>4
  <2>2. m \in PlainBpe BY DEF PlainBpe, BpeDecoding, BpeEncoding, BpeLoading, BpeQueries
  <2> QED BY <2>1, <2>2, PlainCallBpe, CallBegins
<1>5. CASE next = [op |-> "encodeString", steps |-> <<Loop>>]
  <2>1. WellFormed("bpe", "encodeString", <<Loop>>, <<>>) BY PlainOne, PlainLoop
  <2> QED BY <1>5, <2>1 DEF Begins, Loop, Other
<1>6. CASE next = [op |-> "encodeReserved", steps |-> EncodeReserved]
  <2>1. EncodeReserved # <<>> /\ Head(EncodeReserved) = Call("tokenizer", "encodeReserved") BY DEF EncodeReserved
  <2> QED BY <1>6, <2>1, ReservedWellFormed DEF Begins, Call
<1>7. CASE next = [op |-> "encodeDetailed", steps |-> BpeDetailed]
  <2>1. BpeDetailed # <<>> /\ Head(BpeDetailed) = Call("tokenizer", "encode") BY DEF BpeDetailed
  <2> QED BY <1>7, <2>1, DetailedWellFormed DEF Begins, Call
<1>8. CASE next \in {[op |-> "decode", steps |-> DecodeSteps], [op |-> "decodeBytes", steps |-> DecodeBytesSteps]}
  BY <1>8, BpeDecodeBegins
<1> QED BY <1>1, <1>2, <1>3, <1>4, <1>5, <1>6, <1>7, <1>8 DEF BpeOperations

\* Every operation of a SentencePiece session begins well-formed.
LEMMA PieceBegins ==
    ASSUME NEW next \in SentencePieceOperations
    PROVE  Begins("sentencepiece", next)
<1>1. CASE \E c \in {"fromHtk", "fromResolverTrustedHtk"} : next = [op |-> "load", steps |-> <<Construct(c)>>]
  BY <1>1, PieceLoadWellFormed DEF Begins, Construct, Call
<1>2. /\ Plain("sentencepiece", Call("tokenizer", "encode")) /\ Plain("sentencepiece", Call("tokenizer", "tokenStarts"))
      /\ Plain("sentencepiece", Call("tokenizer", "reservedFoundJson")) /\ Plain("sentencepiece", Call("tokenizer", "decode"))
      /\ Plain("sentencepiece", Call("tokenizer", "tokenBytes"))
  BY PlainCallPiece DEF PlainPiece, SentencePieceEncoding, SentencePieceQueries
<1>3. CASE next \in {[op |-> "encode", steps |-> <<Call("tokenizer", "encode")>>],
                     [op |-> "decode", steps |-> <<Call("tokenizer", "decode")>>],
                     [op |-> "tokenBytes", steps |-> <<Call("tokenizer", "tokenBytes")>>]}
  BY <1>2, <1>3, CallBegins
<1>4. CASE next = [op |-> "encodeReserved", steps |-> EncodeReserved]
  <2>1. EncodeReserved # <<>> /\ Head(EncodeReserved) = Call("tokenizer", "encodeReserved") BY DEF EncodeReserved
  <2> QED BY <1>4, <2>1, ReservedWellFormed DEF Begins, Call
<1>5. CASE next = [op |-> "encodeDetailed", steps |-> SentencePieceDetailed]
  BY <1>2, <1>5, CallBegins DEF SentencePieceDetailed
<1> QED BY <1>1, <1>3, <1>4, <1>5 DEF SentencePieceOperations

\* Every operation of a worker begins well-formed.
LEMMA TransferredBegins ==
    ASSUME NEW next \in TransferredOperations
    PROVE  Begins("transferred", next)
<1>1. CASE next = [op |-> "load", steps |-> WorkerInitialize]
  <2>1. WorkerInitialize # <<>> /\ Head(WorkerInitialize) = Call("class", "fromWorkerImage")
    BY DEF WorkerInitialize, Construct
  <2> QED BY <1>1, <2>1, TransferredLoadWellFormed DEF Begins, Call
<1>2. CASE next = [op |-> "encode", steps |-> WorkerEncodePretokens]
  <2>1. Plain("transferred", Call("tokenizer", "encodePretoken"))
    BY PlainCallTransferred DEF PlainTransferred, WasmTransferredTokenizer
  <2> QED BY <1>2, <2>1, CallBegins DEF WorkerEncodePretokens
<1> QED BY <1>1, <1>2 DEF TransferredOperations

\* Every function of a session is well formed when it starts.
THEOREM ProgramsAreWellFormed ==
    ASSUME session \in [kind : Kinds, route : Routes], NEW next \in Operations
    PROVE  Begins(session.kind, next)
BY BpeBegins, PieceBegins, TransferredBegins DEF Operations, Kinds

---------------------------------------------------------------------------
\* What stands at the head of a function, and next to it.

\* The next step of a well-formed function fits.
LEMMA HeadFits ==
    ASSUME NEW k, NEW o, NEW t, NEW cl, WellFormed(k, o, t, cl), t # <<>>
    PROVE  /\ Head(t).do \in Doing /\ Head(t).of \in Class \union {"class", "none"}
           /\ Fits(k, o, t, cl, 1) /\ t[1] = Head(t)
           /\ Len(t) \in Nat \ {0} /\ Tail(t) \in Seq(StepSet) /\ Len(Tail(t)) = Len(t) - 1
           /\ Tail(t) # <<>> <=> Len(t) > 1
           /\ Tail(t) # <<>> => Head(Tail(t)) = t[2] /\ Fits(k, o, t, cl, 2)
<1>1. t \in Seq(StepSet) /\ Len(t) \in Nat \ {0} /\ Head(t) = t[1] /\ t[1] \in StepSet
  BY DEF WellFormed
<1>2. Tail(t) \in Seq(StepSet) /\ Len(Tail(t)) = Len(t) - 1 BY <1>1
<1>3. Tail(t) # <<>> <=> Len(t) > 1 BY <1>1, <1>2
<1>4. Len(t) > 1 => Head(Tail(t)) = t[2] BY <1>1, <1>2
<1>5. Fits(k, o, t, cl, 1) /\ (Len(t) > 1 => Fits(k, o, t, cl, 2)) BY <1>1 DEF WellFormed
<1> QED BY <1>1, <1>2, <1>3, <1>4, <1>5 DEF StepSet

\* What a call may return, and what then follows it.
LEMMA HeadCall ==
    ASSUME NEW k, NEW o, NEW t, NEW cl, WellFormed(k, o, t, cl), t # <<>>, Head(t).do \in Calls
    PROVE  /\ Result(k, Head(t)) \in {"encoding", "overlap"} =>
                 /\ o \in Guarded /\ Result(k, Head(t)) = Opened(o)
                 /\ Tail(t) # <<>> /\ Head(Tail(t)).do = "try"
           /\ Head(t).of \in {"encoding", "overlap"} =>
                 o \in Guarded /\ Head(t).of = Opened(o) /\ cl # <<>>
           /\ Result(k, Head(t)) = "tokenizer" <=> Head(t).of = "class"
           /\ Head(t).of = "class" => o = "load" /\ Head(t).do = "call"
           /\ Head(t).method = "decodeBorrowedAssemblyView" => Result(k, Head(t)) = "view"
<1>1. CallFits(k, o, t, cl, 1) /\ t[1] = Head(t) /\ Len(t) \in Nat
      /\ (Tail(t) # <<>> <=> Len(t) > 1) /\ (Tail(t) # <<>> => Head(Tail(t)) = t[2])
  BY HeadFits DEF Fits
<1>2. PICK h : h = Head(t)
  OBVIOUS
<1>3. t[1] = h /\ h.do \in Calls
  BY <1>1, <1>2
<1>4. /\ Result(k, h) \in {"encoding", "overlap"} =>
            o \in Guarded /\ Result(k, h) = Opened(o) /\ 1 < Len(t) /\ t[1 + 1].do = "try"
      /\ h.of \in {"encoding", "overlap"} =>
            /\ o \in Guarded /\ h.of = Opened(o)
            /\ cl = <<Free(Opened(o))>> \/ \E j \in 1 .. 1 - 1 : t[j].do = "try"
      /\ Result(k, h) = "tokenizer" <=> h.of = "class"
      /\ h.of = "class" => o = "load" /\ h.do = "call"
      /\ h.method = "decodeBorrowedAssemblyView" => Result(k, h) = "view"
  BY <1>1, <1>3, Zenon DEF CallFits
<1>5. Result(k, h) \in {"encoding", "overlap"} => Tail(t) # <<>> /\ Head(Tail(t)).do = "try"
  <2>1. Result(k, h) \in {"encoding", "overlap"} => 1 < Len(t) /\ t[2].do = "try"
    <3>1. 1 + 1 = 2
      OBVIOUS
    <3> QED
      BY <1>4, <3>1
  <2> QED
    BY <1>1, <2>1
<1>6. h.of \in {"encoding", "overlap"} => cl # <<>>
  <2>1. \A j \in 1 .. 1 - 1 : FALSE
    OBVIOUS
  <2>2. <<Free(Opened(o))>> # <<>>
    OBVIOUS
  <2>3. h.of \in {"encoding", "overlap"} => cl = <<Free(Opened(o))>>
    BY <1>4, <2>1, Zenon
  <2> QED
    BY <2>2, <2>3, Zenon
<1> QED BY <1>2, <1>4, <1>5, <1>6

\* What a step that is no call may be.
LEMMA HeadOther ==
    ASSUME NEW k, NEW o, NEW t, NEW cl, WellFormed(k, o, t, cl), t # <<>>
    PROVE  /\ Head(t).of = "class" => Head(t).do = "call"
           /\ Head(t).do \in OnlyBpe => k = "bpe"
           /\ Head(t).do = "await" =>
                 /\ k = "bpe" /\ o \in {"encodeOnPool", "encodeDetailed"}
                 /\ o = "encodeOnPool" => cl # <<>>
           /\ Head(t).do = "free" =>
                 /\ Tail(t) = <<>> /\ cl = <<>>
                 /\ \/ o \in Guarded /\ Head(t) = Free(Opened(o))
                    \/ o = "close" /\ Head(t) = Free("tokenizer")
<1>1. Fits(k, o, t, cl, 1) /\ t[1] = Head(t) /\ Len(t) \in Nat /\ (Tail(t) # <<>> <=> Len(t) > 1)
  BY HeadFits
<1>2. /\ Head(t).of = "class" => Head(t).do = "call"
      /\ Head(t).do \in OnlyBpe => k = "bpe"
  BY <1>1 DEF Fits, KindFits
<1>3. Head(t).do = "await" =>
         /\ k = "bpe" /\ o \in {"encodeOnPool", "encodeDetailed"}
         /\ o = "encodeOnPool" => cl # <<>>
  BY <1>1 DEF Fits, AwaitFits
<1>4. Head(t).do = "free" =>
         /\ Tail(t) = <<>> /\ cl = <<>>
         /\ \/ o \in Guarded /\ Head(t) = Free(Opened(o))
            \/ o = "close" /\ Head(t) = Free("tokenizer")
  <2>1. FreeFits(o, t, cl, 1) BY <1>1 DEF Fits
  <2>2. Head(t).do = "free" => Len(t) = 1 /\ cl = <<>> BY <1>1, <2>1 DEF FreeFits
  <2>3. Len(t) = 1 => Tail(t) = <<>> BY <1>1
  <2>4. Head(t).do = "free" => \/ o \in Guarded /\ Head(t) = Free(Opened(o))
                               \/ o = "close" /\ Head(t) = Free("tokenizer")
    BY <1>1, <2>1 DEF FreeFits
  <2> QED BY <2>2, <2>3, <2>4
<1> QED BY <1>2, <1>3, <1>4

\* What may follow a step.
LEMMA NextStep ==
    ASSUME NEW k, NEW o, NEW t, NEW cl, WellFormed(k, o, t, cl), t # <<>>, Tail(t) # <<>>
    PROVE  /\ Head(Tail(t)).do \in Using => Head(t).do = "call" /\ Result(k, Head(t)) = "view"
           /\ Head(Tail(t)).do = "try" => Head(t).do = "call" /\ Result(k, Head(t)) = Opened(o)
           /\ Head(Tail(t)).do # "free"
           /\ Head(Tail(t)).of # "class"
<1>1. Fits(k, o, t, cl, 2) /\ t[1] = Head(t) /\ Head(Tail(t)) = t[2] /\ Len(t) \in Nat /\ Len(t) > 1
  BY HeadFits
<1>2. t[2].do \in Using => t[1].do = "call" /\ Result(k, t[1]) = "view"
  BY <1>1 DEF Fits, UseFits
<1>3. t[2].do = "try" => t[1].do = "call" /\ Result(k, t[1]) = Opened(o)
  BY <1>1 DEF Fits, TryFits
<1>4. t[2].do # "free" BY <1>1 DEF Fits, FreeFits
<1>5. t[2].of # "class" BY <1>1 DEF Fits, CallFits, KindFits, Calls
<1> QED BY <1>1, <1>2, <1>3, <1>4, <1>5

\* A finally block frees the one object its function opened.
LEMMA CleanupShape ==
    ASSUME NEW k, NEW o, NEW t, NEW cl, WellFormed(k, o, t, cl), cl # <<>>
    PROVE  o \in Guarded /\ cl = <<Free(Opened(o))>> /\ Head(cl) = Free(Opened(o)) /\ Head(cl).do = "free"
BY DEF WellFormed, Free

\* A function holds the same objects after a step that neither opens nor frees one.
LEMMA HoldingTail ==
    ASSUME NEW k, NEW o, NEW t, NEW cl, NEW c, WellFormed(k, o, t, cl), t # <<>>,
           Head(t).do \notin {"try", "free"},
           Head(t).do \in Calls => Result(k, Head(t)) \notin {"encoding", "overlap"}
    PROVE  /\ Holding(c, o, Tail(t), cl) <=> Holding(c, o, t, cl)
           /\ Holding(c, o, t, cl) <=> (cl # <<>> /\ c = Opened(o))
<1>1. o \in Guarded => Opened(o) \in {"encoding", "overlap"} BY DEF Guarded, Opened
<1>2. cl # <<>> => o \in Guarded BY CleanupShape
<1>3. Tail(t) # <<>> /\ o \in Guarded => Head(Tail(t)).do \notin {"try", "free"}
  BY <1>1, NextStep DEF Calls
<1> QED BY <1>2, <1>3 DEF Holding

\* With the rest of the function gone, what it holds is what its finally block frees.
LEMMA HoldingCleanup ==
    ASSUME NEW k, NEW o, NEW t, NEW cl, NEW c, WellFormed(k, o, t, cl)
    PROVE  Holding(c, o, cl, <<>>) <=> (cl # <<>> /\ c = Opened(o))
BY CleanupShape DEF Holding

\* A function with nothing left is well-formed.
LEMMA EmptyWellFormed ==
    ASSUME NEW k, NEW o, NEW t, NEW cl, WellFormed(k, o, t, cl)
    PROVE  WellFormed(k, o, <<>>, cl)
<1>1. <<>> \in Seq(StepSet) /\ Len(<<>>) = 0 OBVIOUS
<1> QED BY <1>1 DEF WellFormed

---------------------------------------------------------------------------
\* One lemma for each action.

\* Between calls nothing is passed and nothing returned.
LEMMA NotCalling ==
    ASSUME IInv, todo = <<>> \/ Head(todo).do \notin Calls
    PROVE  /\ passed = 0 /\ returned = "nothing"
           /\ ~ResultBlock /\ ~ResultSlot /\ \A c : ~Pending(c)
BY DEF IInv, Types, Control, ResultBlock, ResultSlot, Pending

\* The invariant holds before the load.
LEMMA InitInv == Init => IInv
<1> SUFFICES ASSUME Init PROVE IInv OBVIOUS
<1>1. WellFormed(session.kind, "none", <<>>, <<>>)
  <2>1. <<>> \in Seq(StepSet) /\ Len(<<>>) = 0 OBVIOUS
  <2> QED BY <2>1 DEF WellFormed
<1>2. Types
  <2>1. session \in [kind : Kinds, route : Routes] BY SessionAssumption DEF Init
  <2>2. /\ views \in [Width -> {"none", "attached", "detached"}]
        /\ pointer \in [Class -> {"none", "live", "null"}]
    BY DEF Init
  <2>3. /\ phase \in {"new", "open", "closed", "lost"} /\ thrown \in BOOLEAN
        /\ passed \in Nat /\ returned \in {"nothing", "value", "error"}
        /\ blocks \in Int /\ slots \in Int /\ abandoned \in Int /\ left \in Int
    <3>1. thrown \in BOOLEAN BY DEF Init
    <3>2. phase \in {"new", "open", "closed", "lost"} /\ returned \in {"nothing", "value", "error"}
      BY DEF Init
    <3>3. passed = 0 /\ blocks = 0 /\ slots = 0 /\ abandoned = 0 /\ left = 0 BY DEF Init
    <3> QED BY <3>1, <3>2, <3>3
  <2>4. allocated \subseteq Class /\ registered \subseteq Class
    BY DEF Init
  <2>5. suspended = [op |-> "none", todo |-> <<>>, cleanup |-> <<>>] BY DEF Init
  <2>6. suspended.op = "none" /\ suspended.todo = <<>> /\ suspended.cleanup = <<>> BY <2>5
  <2>7. /\ suspended = [op |-> suspended.op, todo |-> suspended.todo, cleanup |-> suspended.cleanup]
        /\ suspended.op \in {"none", "encodeOnPool", "encodeDetailed"}
    BY <2>5, <2>6
  <2> QED BY <2>1, <2>2, <2>3, <2>4, <2>7 DEF Types
<1>3. Control BY <1>1 DEF Init, Control
<1>4. Accounts BY DEF Init, Accounts, ResultBlock, ResultSlot
<1>5. Lending BY DEF Init, Lending
<1>6. Objects BY DEF Init, Objects, Held, Holding, Guarded, Pending
<1>7. Lifetime BY DEF Init, Lifetime, Class
<1> QED BY <1>2, <1>3, <1>4, <1>5, <1>6, <1>7 DEF IInv, Init

\* A function begins.
LEMMA StartKeeps ==
    ASSUME IInv, NEW next \in Operations, Start(next)
    PROVE  IInv'
<1>1. Begins(session.kind, next) BY ProgramsAreWellFormed DEF IInv, Types
<1>2. todo = <<>> /\ cleanup = <<>> BY DEF IInv, Control, Start
<1>3. passed = 0 /\ returned = "nothing" /\ \A c : ~Pending(c) BY <1>2, NotCalling
<1>4. /\ op = "none" /\ op' = next.op /\ todo' = next.steps /\ cleanup' = <<>> /\ thrown' = FALSE
      /\ phase = "new" => next.op = "load"
      /\ next.op = "load" => phase = "new"
      /\ phase \in {"new", "open"} \/ (phase = "closed" /\ Unguarded(next.op))
      /\ next.op \in {"encodeOnPool", "encodeDetailed"} => suspended.op = "none"
      /\ UNCHANGED <<session, phase, suspended, passed, returned, views, borrowed, blocks, slots,
                     pointer, allocated, registered, abandoned, left, faults>>
  BY DEF Start, call, memory, objects, losses, Unguarded
<1> USE <1>4
<1>5. Types' BY DEF IInv, Types
<1>6. Control'
  BY <1>1, <1>3 DEF IInv, Types, Control, Begins, Lifetime
<1>7. returned' = "nothing" /\ \A c : ~Pending(c)' BY <1>3 DEF Pending
<1>8. Accounts' BY <1>3, <1>7 DEF IInv, Accounts, ResultBlock, ResultSlot
<1>9. Lending' BY <1>1 DEF Lending, Begins, Using
<1>10. \A c : Held(c)' <=> Held(c) BY <1>1, <1>2 DEF Held, Holding, Begins, Guarded
<1>11. Objects' BY <1>3, <1>7, <1>10 DEF IInv, Objects
<1>12. Lifetime' BY <1>1 DEF IInv, Lifetime, Begins, Unguarded
<1> QED BY <1>5, <1>6, <1>8, <1>9, <1>11, <1>12 DEF IInv

\* A function that has no step left runs its finally block.
LEMMA FinallyKeeps == IInv /\ Finally => IInv'
<1> SUFFICES ASSUME IInv, Finally PROVE IInv' OBVIOUS
<1>1. /\ op # "none" /\ todo = <<>> /\ cleanup # <<>> /\ todo' = cleanup /\ cleanup' = <<>>
      /\ UNCHANGED <<session, phase, op, thrown, suspended, passed, returned, views, borrowed, blocks, slots,
                     pointer, allocated, registered, abandoned, left, faults>>
  BY DEF Finally, call, memory, objects, losses
<1>2. passed = 0 /\ returned = "nothing" /\ \A c : ~Pending(c) BY <1>1, NotCalling
<1>3. /\ WellFormed(session.kind, op, todo, cleanup) /\ WellFormed(session.kind, op, cleanup, <<>>)
      /\ op \in Guarded /\ Head(cleanup) = Free(Opened(op)) /\ Head(cleanup).do = "free"
      /\ Head(cleanup).of # "class"
  BY <1>1, CleanupWellFormed, CleanupShape DEF IInv, Control, Free, Opened
<1> USE <1>1
<1>4. Types' BY DEF IInv, Types
<1>5. Control' BY <1>2, <1>3 DEF IInv, Control
<1>6. \A c : ~Pending(c)' BY <1>2 DEF Pending
<1>7. Accounts' BY <1>2 DEF IInv, Accounts, ResultBlock, ResultSlot
<1>8. Lending' BY <1>3 DEF Lending, Using
<1>9. \A c : Held(c)' <=> Held(c) BY <1>3 DEF Held, Holding
<1>10. Objects' BY <1>2, <1>6, <1>9 DEF IInv, Objects
<1>11. Lifetime' BY <1>3 DEF IInv, Lifetime, Guarded
<1> QED BY <1>4, <1>5, <1>7, <1>8, <1>10, <1>11 DEF IInv

\* A failed call to the workers falls back to the tokenizer.
LEMMA FallBackKeeps == IInv /\ FallBack => IInv'
<1> SUFFICES ASSUME IInv, FallBack PROVE IInv' OBVIOUS
<1>1. /\ op = "encodeOnPool" /\ todo = <<>> /\ cleanup = <<>> /\ phase = "open"
      /\ op' = "encode" /\ todo' = <<Call("tokenizer", "encode")>> /\ cleanup' = <<>> /\ thrown' = FALSE
      /\ UNCHANGED <<session, phase, suspended, passed, returned, views, borrowed, blocks, slots,
                     pointer, allocated, registered, abandoned, left, faults>>
  BY DEF FallBack, call, memory, objects, losses
<1>2. passed = 0 /\ returned = "nothing" /\ \A c : ~Pending(c) BY <1>1, NotCalling
<1>3. session.kind = "bpe" BY <1>1 DEF IInv, Control
<1>4. WellFormed("bpe", "encode", <<Call("tokenizer", "encode")>>, <<>>)
  <2>1. "encode" \in PlainBpe BY DEF PlainBpe, BpeEncoding
  <2> QED BY <2>1, PlainOne, PlainCallBpe
<1>5. todo' # <<>> /\ Head(todo').do = "call" /\ Head(todo').of # "class" BY <1>1 DEF Call
<1> USE <1>1
<1>6. Types' BY DEF IInv, Types
<1>7. Control' BY <1>2, <1>3, <1>4, <1>5 DEF IInv, Control
<1>8. \A c : ~Pending(c)' BY <1>2 DEF Pending
<1>9. Accounts' BY <1>2 DEF IInv, Accounts, ResultBlock, ResultSlot
<1>10. Lending' BY <1>5 DEF Lending, Using
<1>11. \A c : Held(c)' <=> Held(c) BY <1>5 DEF Held, Holding, Guarded
<1>12. Objects' BY <1>2, <1>8, <1>11 DEF IInv, Objects
<1>13. Lifetime' BY <1>5 DEF IInv, Lifetime
<1> QED BY <1>6, <1>7, <1>9, <1>10, <1>12, <1>13 DEF IInv

\* A function ends.
LEMMA DoneKeeps == IInv /\ Done => IInv'
<1> SUFFICES ASSUME IInv, Done PROVE IInv' OBVIOUS
<1>1. /\ op # "none" /\ todo = <<>> /\ cleanup = <<>> /\ op' = "none" /\ thrown' = FALSE
      /\ \/ op # "load" /\ phase' = phase
         \/ op = "load" /\ ~thrown /\ phase' = "open"
         \/ op = "load" /\ phase' = "lost"
      /\ borrowed' = "none"
      /\ UNCHANGED <<session, todo, cleanup, suspended, passed, returned, views, blocks, slots,
                     pointer, allocated, registered, abandoned, left, faults>>
  BY DEF Done, call, memory, objects, losses
<1>2. passed = 0 /\ returned = "nothing" /\ \A c : ~Pending(c) BY <1>1, NotCalling
<1>3. WellFormed(session.kind, "none", <<>>, <<>>)
  <2>1. <<>> \in Seq(StepSet) /\ Len(<<>>) = 0 OBVIOUS
  <2> QED BY <2>1 DEF WellFormed
<1> USE <1>1
<1>4. Types' BY DEF IInv, Types
<1>5. Control' BY <1>2, <1>3 DEF IInv, Control
<1>6. \A c : ~Pending(c)' BY <1>2 DEF Pending
<1>7. Accounts' BY <1>2 DEF IInv, Accounts, ResultBlock, ResultSlot
<1>8. Lending' BY DEF Lending
<1>9. \A c : Held(c)' <=> Held(c) BY DEF Held, Holding
<1>10. Objects' BY <1>2, <1>6, <1>9 DEF IInv, Objects
<1>11. Lifetime' 
  <2>1. CASE op # "load" BY <2>1 DEF IInv, Lifetime
  <2>2. CASE op = "load" BY <2>2 DEF IInv, Lifetime, Types
  <2> QED BY <2>1, <2>2
<1> QED BY <1>4, <1>5, <1>7, <1>8, <1>10, <1>11 DEF IInv

\* A function enters its try block.
LEMMA EnterTryKeeps == IInv /\ EnterTry => IInv'
<1> SUFFICES ASSUME IInv, EnterTry PROVE IInv' OBVIOUS
<1>1. /\ op # "none" /\ todo # <<>> /\ Head(todo).do = "try"
      /\ cleanup' = <<Free(Opened(op))>> /\ todo' = Tail(todo)
      /\ UNCHANGED <<session, phase, op, thrown, suspended, passed, returned, views, borrowed, blocks, slots,
                     pointer, allocated, registered, abandoned, left, faults>>
  BY DEF EnterTry, Step, call, memory, objects, losses
<1>2. passed = 0 /\ returned = "nothing" /\ \A c : ~Pending(c) BY <1>1, NotCalling DEF Calls
<1>3. WellFormed(session.kind, op, todo, cleanup) BY DEF IInv, Control
<1>4. WellFormed(session.kind, op, Tail(todo), <<Free(Opened(op))>>) /\ op \in Guarded
  BY <1>1, <1>3, TryWellFormed
<1>5. Tail(todo) # <<>> => Head(Tail(todo)).do \notin Using \union {"try", "free"}
  BY <1>1, <1>3, NextStep DEF Calls
<1>6. cleanup' # <<>> BY <1>1
<1> USE <1>1
<1>7. Types' BY DEF IInv, Types
<1>8. Control' BY <1>2, <1>4 DEF IInv, Control, Guarded
<1>9. \A c : ~Pending(c)' BY <1>2 DEF Pending
<1>10. Accounts' BY <1>2 DEF IInv, Accounts, ResultBlock, ResultSlot
<1>11. Lending' BY <1>5 DEF Lending
<1>12. \A c : Held(c)' <=> Held(c) BY <1>4, <1>6 DEF Held, Holding
<1>13. Objects' BY <1>2, <1>9, <1>12 DEF IInv, Objects
<1>14. Lifetime' BY <1>4 DEF IInv, Lifetime, Guarded
<1> QED BY <1>7, <1>8, <1>10, <1>11, <1>13, <1>14 DEF IInv

\* A function awaits the workers and others may run.
LEMMA SuspendKeeps == IInv /\ Suspend => IInv'
<1> SUFFICES ASSUME IInv, Suspend PROVE IInv' OBVIOUS
<1>1. /\ op # "none" /\ todo # <<>> /\ Head(todo).do = "await"
      /\ suspended' = [op |-> op, todo |-> Tail(todo), cleanup |-> cleanup]
      /\ op' = "none" /\ todo' = <<>> /\ cleanup' = <<>>
      /\ UNCHANGED <<session, phase, thrown, passed, returned, views, borrowed, blocks, slots,
                     pointer, allocated, registered, abandoned, left, faults>>
  BY DEF Suspend, Step, call, memory, objects, losses
<1>2. passed = 0 /\ returned = "nothing" /\ \A c : ~Pending(c) BY <1>1, NotCalling DEF Calls
<1>3. WellFormed(session.kind, op, todo, cleanup) BY DEF IInv, Control
<1>4. /\ session.kind = "bpe" /\ op \in {"encodeOnPool", "encodeDetailed"}
      /\ op = "encodeOnPool" => cleanup # <<>>
  BY <1>1, <1>3, HeadOther
<1>5. WellFormed(session.kind, op, Tail(todo), cleanup)
  BY <1>1, <1>3, TailWellFormed
<1>6. Tail(todo) # <<>> => Head(Tail(todo)).do \notin Using \union {"try", "free"}
  BY <1>1, <1>3, NextStep
<1>7. WellFormed(session.kind, "none", <<>>, <<>>)
  <2>1. <<>> \in Seq(StepSet) /\ Len(<<>>) = 0 OBVIOUS
  <2> QED BY <2>1 DEF WellFormed
<1>8. suspended.op = "none" /\ suspended.todo = <<>> /\ suspended.cleanup = <<>>
  BY <1>4 DEF IInv, Control
<1>9. suspended'.op = op /\ suspended'.todo = Tail(todo) /\ suspended'.cleanup = cleanup
  BY <1>1
<1> USE <1>1
<1>10. Types' BY <1>4 DEF IInv, Types
<1>11. Control' BY <1>2, <1>4, <1>5, <1>6, <1>7, <1>9 DEF IInv, Control
<1>12. \A c : ~Pending(c)' BY <1>2 DEF Pending
<1>13. Accounts' BY <1>2 DEF IInv, Accounts, ResultBlock, ResultSlot
<1>14. Lending' BY DEF Lending
<1>15. \A c : Held(c)' <=> Held(c)
  <2>1. \A c : Holding(c, op, Tail(todo), cleanup) <=> Holding(c, op, todo, cleanup)
    BY <1>3, HoldingTail DEF Calls
  <2>2. \A c : ~Holding(c, "none", <<>>, <<>>) BY DEF Holding
  <2> QED BY <2>1, <2>2, <1>8, <1>9 DEF Held
<1>16. Objects' BY <1>2, <1>12, <1>15 DEF IInv, Objects
<1>17. Lifetime' BY <1>4, <1>8, <1>9 DEF IInv, Lifetime, Types
<1> QED BY <1>10, <1>11, <1>13, <1>14, <1>16, <1>17 DEF IInv

\* The awaited function goes on, or rejects.
LEMMA ResumeKeeps ==
    ASSUME IInv, NEW rejects \in BOOLEAN, Resume(rejects)
    PROVE  IInv'
<1>1. /\ op = "none" /\ suspended.op # "none"
      /\ op' = suspended.op /\ thrown' = rejects
      /\ IF rejects THEN todo' = suspended.cleanup /\ cleanup' = <<>>
                    ELSE todo' = suspended.todo /\ cleanup' = suspended.cleanup
      /\ suspended' = [op |-> "none", todo |-> <<>>, cleanup |-> <<>>]
      /\ UNCHANGED <<session, phase, passed, returned, views, borrowed, blocks, slots,
                     pointer, allocated, registered, abandoned, left, faults>>
  BY DEF Resume, call, memory, objects, losses
<1>2. todo = <<>> /\ cleanup = <<>> BY <1>1 DEF IInv, Control
<1>3. passed = 0 /\ returned = "nothing" /\ \A c : ~Pending(c) BY <1>2, NotCalling
<1>4. /\ WellFormed(session.kind, suspended.op, suspended.todo, suspended.cleanup)
      /\ WellFormed(session.kind, suspended.op, suspended.cleanup, <<>>)
      /\ session.kind = "bpe" /\ suspended.op \in {"encodeOnPool", "encodeDetailed"}
      /\ suspended.todo # <<>> => Head(suspended.todo).do \notin Using \union {"try", "free"}
  BY <1>1, CleanupWellFormed DEF IInv, Control, Types
<1>5. WellFormed(session.kind, "none", <<>>, <<>>)
  <2>1. <<>> \in Seq(StepSet) /\ Len(<<>>) = 0 OBVIOUS
  <2> QED BY <2>1 DEF WellFormed
<1>6. suspended'.op = "none" /\ suspended'.todo = <<>> /\ suspended'.cleanup = <<>> BY <1>1
<1>7. suspended.cleanup # <<>> => Head(suspended.cleanup).do = "free"
  BY <1>4, CleanupShape
<1>8. WellFormed(session.kind, op', todo', cleanup') BY <1>1, <1>4
<1>9. \A c : Holding(c, op', todo', cleanup') <=> Holding(c, suspended.op, suspended.todo, suspended.cleanup)
  <2>1. \A c : Holding(c, suspended.op, suspended.cleanup, <<>>) <=>
                  (suspended.cleanup # <<>> /\ c = Opened(suspended.op))
    BY <1>4, HoldingCleanup
  <2>2. \A c : Holding(c, suspended.op, suspended.todo, suspended.cleanup) <=>
                  (suspended.cleanup # <<>> /\ c = Opened(suspended.op))
    <3>1. suspended.cleanup # <<>> => suspended.op \in Guarded BY <1>4, CleanupShape
    <3> QED BY <3>1, <1>4 DEF Holding
  <2> QED BY <2>1, <2>2, <1>1
<1>10. todo' # <<>> => Head(todo').do \notin Using BY <1>1, <1>4, <1>7 DEF Using
<1> USE <1>1
<1>11. Types' BY DEF IInv, Types
<1>12. Control' BY <1>3, <1>4, <1>5, <1>6, <1>8 DEF IInv, Control
<1>13. \A c : ~Pending(c)' BY <1>3 DEF Pending
<1>14. Accounts' BY <1>3 DEF IInv, Accounts, ResultBlock, ResultSlot
<1>15. Lending' BY <1>10 DEF Lending
<1>16. \A c : Held(c)' <=> Held(c)
  <2>1. \A c : ~Holding(c, "none", <<>>, <<>>) BY DEF Holding
  <2> QED BY <2>1, <1>2, <1>6, <1>9 DEF Held
<1>17. Objects' BY <1>3, <1>13, <1>16 DEF IInv, Objects
<1>18. Lifetime' BY <1>4, <1>6 DEF IInv, Lifetime
<1> QED BY <1>11, <1>12, <1>14, <1>15, <1>17, <1>18 DEF IInv

---------------------------------------------------------------------------
\* The cached views.

ViewStates == {"none", "attached", "detached"}

\* Views stay views when memory grows.
LEMMA GrownType ==
    ASSUME NEW v \in [Width -> ViewStates], NEW grows \in BOOLEAN
    PROVE  Grown(v, grows) \in [Width -> ViewStates]
BY DEF Grown, ViewStates

\* A view taken through its getter is attached.
LEMMA GetViewAttached ==
    ASSUME NEW v \in [Width -> ViewStates], NEW w \in Width
    PROVE  GetView(v, w) \in [Width -> ViewStates] /\ Touching(GetView(v, w), w) = {}
<1>1. GetView(v, w) \in [Width -> ViewStates] BY DEF GetView, ViewStates
<1>2. GetView(v, w)[w] = "attached" BY DEF GetView
<1> QED BY <1>1, <1>2 DEF Touching

\* An argument is copied into a block of its own.
LEMMA PassArgumentKeeps == IInv /\ PassArgument => IInv'
<1> SUFFICES ASSUME IInv, PassArgument PROVE IInv' OBVIOUS
<1>1. /\ op # "none" /\ todo # <<>> /\ Head(todo).do \in Calls /\ returned = "nothing"
      /\ UNCHANGED <<session, phase, op, todo, cleanup, thrown, suspended, returned, slots,
                     pointer, allocated, registered, abandoned, left>>
  BY DEF PassArgument, Step, stack, objects, losses
<1>2. passed \in Nat /\ views \in [Width -> ViewStates] /\ faults = {}
  BY DEF IInv, Types, ViewStates
<1>3. PICK grows \in BOOLEAN, regrows \in BOOLEAN : PassArray(grows) \/ PassString(grows, regrows)
  BY DEF PassArgument
<1>4. passed' = passed + 1 /\ blocks' = blocks + 1 BY <1>3 DEF PassArray, PassString
<1>5. views' \in [Width -> ViewStates] /\ faults' = {}
  <2>1. CASE PassArray(grows)
    <3> DEFINE v == Grown(views, grows)
    <3>1. v \in [Width -> ViewStates] BY <1>2, GrownType
    <3>2. PICK kind \in Width \union {"fresh"} :
             /\ views' = IF kind = "fresh" THEN v ELSE GetView(v, kind)
             /\ faults' = IF kind = "fresh" THEN faults ELSE faults \union Touching(GetView(v, kind), kind)
      BY <2>1 DEF PassArray
    <3> HIDE DEF v
    <3>3. CASE kind = "fresh" BY <3>1, <3>2, <3>3, <1>2
    <3>4. CASE kind # "fresh"
      <4>1. kind \in Width BY <3>4
      <4> QED BY <4>1, <3>1, <3>2, <3>4, <1>2, GetViewAttached
    <3> QED BY <3>3, <3>4
  <2>2. CASE PassString(grows, regrows)
    <3> DEFINE before == GetView(Grown(views, grows), "u8")
               after  == Grown(before, regrows)
    <3>1. "u8" \in Width BY DEF Width
    <3>2. before \in [Width -> ViewStates] /\ Touching(before, "u8") = {}
      BY <3>1, <1>2, GrownType, GetViewAttached
    <3>3. after \in [Width -> ViewStates] BY <3>2, GrownType
    <3>4. GetView(after, "u8") \in [Width -> ViewStates] /\ Touching(GetView(after, "u8"), "u8") = {}
      BY <3>1, <3>3, GetViewAttached
    <3>5. Grown(GetView(after, "u8"), FALSE) \in [Width -> ViewStates] BY <3>4, GrownType
    <3>6. \/ views' = before /\ faults' = faults \union Touching(before, "u8")
          \/ /\ views' = Grown(GetView(after, "u8"), FALSE)
             /\ faults' = faults \union Touching(before, "u8")
                                \union Touching(GetView(after, "u8"), "u8")
      BY <2>2 DEF PassString
    <3> HIDE DEF before, after
    <3> QED BY <3>2, <3>4, <3>5, <3>6, <1>2
  <2> QED BY <1>3, <2>1, <2>2
<1>6. Types' BY <1>1, <1>2, <1>4, <1>5 DEF IInv, Types, ViewStates
<1>7. Control' BY <1>1 DEF IInv, Control
<1>8. Accounts' BY <1>1, <1>2, <1>4 DEF IInv, Types, Accounts, ResultBlock, ResultSlot
<1>9. Lending' BY <1>1 DEF Lending, Using, Calls
<1>10. \A c : (Held(c)' <=> Held(c)) /\ (Pending(c)' <=> Pending(c)) BY <1>1 DEF Held, Pending
<1>11. Objects' BY <1>1, <1>10 DEF IInv, Objects
<1>12. Lifetime' BY <1>1 DEF IInv, Lifetime
<1> QED BY <1>5, <1>6, <1>7, <1>8, <1>9, <1>11, <1>12 DEF IInv

\* A call is never the last step of close().
LEMMA CallingOp ==
    ASSUME IInv, todo # <<>>, Head(todo).do \in Calls
    PROVE  op # "close"
BY DEF IInv, Lifetime, Free, Calls

\* An object that a finally block will free is one the function holds.
LEMMA CallingObject ==
    ASSUME IInv, todo # <<>>, Head(todo).do \in Calls, Head(todo).of \in {"encoding", "overlap"}
    PROVE  pointer[Head(todo).of] = "live"
<1>1. WellFormed(session.kind, op, todo, cleanup) BY DEF IInv, Control
<1>2. op \in Guarded /\ Head(todo).of = Opened(op) /\ cleanup # <<>> BY <1>1, HeadCall
<1>3. Held(Head(todo).of) BY <1>2 DEF Held, Holding
<1> QED BY <1>3 DEF IInv, Objects

\* A call on a freed object throws before Rust sees it.
LEMMA InvokeFreedKeeps == IInv /\ InvokeFreed => IInv'
<1> SUFFICES ASSUME IInv, InvokeFreed PROVE IInv' OBVIOUS
<1>1. /\ op # "none" /\ todo # <<>> /\ Head(todo).do \in Calls /\ returned = "nothing"
      /\ Head(todo).of \in Class /\ pointer[Head(todo).of] = "null"
      /\ abandoned' = abandoned + passed /\ passed' = 0
      /\ faults' = IF Unguarded(op) THEN faults ELSE faults \union {"a freed object is called"}
      /\ todo' = cleanup /\ cleanup' = <<>> /\ thrown' = TRUE
      /\ UNCHANGED <<session, phase, op, suspended, returned, views, borrowed, blocks, slots,
                     pointer, allocated, registered, left>>
  BY DEF InvokeFreed, Ready, Step, Throw, memory, objects
<1>2. Head(todo).of = "tokenizer" BY <1>1, CallingObject DEF Class
<1>3. op = "encodeDetailed" /\ session.kind = "sentencepiece"
  BY <1>1, <1>2, CallingOp DEF IInv, Lifetime
<1>4. faults' = {} BY <1>1, <1>3 DEF Unguarded, IInv
<1>5. WellFormed(session.kind, op, todo, cleanup) /\ WellFormed(session.kind, op, cleanup, <<>>)
  BY CleanupWellFormed DEF IInv, Control
<1>6. cleanup = <<>> BY <1>3, <1>5, CleanupShape DEF Guarded
<1>7. Types'
  <2>1. abandoned \in Int /\ passed \in Nat BY DEF IInv, Types
  <2>2. abandoned' \in Int /\ passed' \in Nat
    <3>1. abandoned' = abandoned + passed /\ passed' = 0 BY <1>1
    <3> QED BY <2>1, <3>1
  <2>3. thrown' \in BOOLEAN BY <1>1
  <2> QED BY <2>2, <2>3, <1>1 DEF IInv, Types
<1>8. Control'
  <2>1. WellFormed(session.kind, op', todo', cleanup') BY <1>1, <1>5, <1>6
  <2>2. todo' = <<>> /\ cleanup' = <<>> BY <1>1, <1>6
  <2>3. /\ passed' = 0 /\ returned' = "nothing" /\ op' = "encodeDetailed"
        /\ session' = session /\ suspended' = suspended /\ op # "none"
    BY <1>1, <1>3
  <2> QED BY <2>1, <2>2, <2>3, <1>3 DEF IInv, Control
<1>9. Accounts'
  <2>1. abandoned \in Int /\ passed \in Nat BY DEF IInv, Types
  <2>2. ~ResultBlock /\ ~ResultSlot /\ ~ResultBlock' /\ ~ResultSlot'
    BY <1>1 DEF ResultBlock, ResultSlot
  <2>3. /\ abandoned' = abandoned + passed /\ passed' = 0
        /\ blocks' = blocks /\ slots' = slots /\ left' = left
    BY <1>1
  <2>4. blocks = abandoned + passed /\ slots = left BY <2>1, <2>2 DEF IInv, Types, Accounts
  <2> QED BY <2>1, <2>2, <2>3, <2>4 DEF IInv, Types, Accounts
<1>10. Lending' BY <1>1, <1>6 DEF Lending
<1>11. \A c : (Held(c)' <=> Held(c)) /\ ~Pending(c) /\ ~Pending(c)'
  BY <1>1, <1>3, <1>6 DEF Held, Holding, Guarded, Pending
<1>12. Objects' BY <1>1, <1>11 DEF IInv, Objects
<1>13. Lifetime' BY <1>1, <1>3, <1>6 DEF IInv, Lifetime
<1> QED BY <1>4, <1>7, <1>8, <1>9, <1>10, <1>12, <1>13 DEF IInv

\* The call itself: it takes its arguments, may grow memory and may fail.
LEMMA InvokeKeeps ==
    ASSUME IInv, NEW grows \in BOOLEAN, NEW fails \in BOOLEAN, Invoke(grows, fails)
    PROVE  IInv'
<1> DEFINE result == Result(session.kind, Head(todo))
<1>1. /\ op # "none" /\ todo # <<>> /\ Head(todo).do \in Calls /\ returned = "nothing"
      /\ passed' = 0 /\ returned' = (IF fails THEN "error" ELSE "value")
      /\ views' = Grown(views, grows)
      /\ blocks' = blocks - passed
                   + (IF ~fails /\ result \in Width \union {"string", "memory"} THEN 1 ELSE 0)
      /\ slots' = slots + (IF fails \/ Head(todo).method = "decodeBorrowedAssemblyView" THEN 1 ELSE 0)
      /\ allocated' = (IF ~fails /\ result \in Class THEN allocated \union {result} ELSE allocated)
      /\ UNCHANGED <<session, phase, op, todo, cleanup, thrown, suspended, pointer, registered,
                     abandoned, left, faults>>
  BY DEF Invoke, Ready, Step, stack, losses, Result, Method
<1>2. passed \in Nat /\ blocks \in Int /\ slots \in Int /\ abandoned \in Int /\ left \in Int
      /\ allocated \subseteq Class /\ views \in [Width -> ViewStates]
  BY DEF IInv, Types, ViewStates
<1>3. /\ ~Pending("encoding") /\ ~Pending("overlap") /\ \A c : ~Pending(c) /\ ~ResultBlock /\ ~ResultSlot
  BY <1>1 DEF Pending, ResultBlock, ResultSlot
<1>4. \A c : Pending(c)' <=> (~fails /\ c = result)
  BY <1>1 DEF Pending
<1>5. ResultBlock' <=> (~fails /\ result \in Width \union {"string", "memory"})
  BY <1>1 DEF ResultBlock
<1>6. ResultSlot' <=> (fails \/ Head(todo).method = "decodeBorrowedAssemblyView")
  BY <1>1 DEF ResultSlot
<1> HIDE DEF result
<1>7. Types'
  <2>1. views' \in [Width -> ViewStates] BY <1>1, <1>2, GrownType
  <2>2. blocks' \in Int /\ slots' \in Int /\ passed' \in Nat BY <1>1, <1>2
  <2>3. allocated' \subseteq Class BY <1>1, <1>2
  <2>4. returned' \in {"nothing", "value", "error"} BY <1>1
  <2> QED BY <2>1, <2>2, <2>3, <2>4, <1>1 DEF IInv, Types, ViewStates
<1>8. Control' BY <1>1 DEF IInv, Control
<1>9. Accounts'
  <2>1. blocks = abandoned + passed /\ slots = left BY <1>2, <1>3 DEF IInv, Accounts
  <2>2. blocks' = abandoned' + passed' + (IF ResultBlock' THEN 1 ELSE 0) BY <2>1, <1>1, <1>2, <1>5
  <2>3. slots' = left' + (IF ResultSlot' THEN 1 ELSE 0) BY <2>1, <1>1, <1>2, <1>6
  <2> QED BY <2>2, <2>3 DEF Accounts
<1>10. Lending' BY <1>1 DEF Lending, Using, Calls
<1>11. \A c : Held(c)' <=> Held(c) BY <1>1 DEF Held
<1>12. Objects'
  <2>1. \A c \in Class : c \in allocated' <=> c \in allocated \/ Pending(c)' BY <1>1, <1>4
  <2>2. \A c \in {"encoding", "overlap"} : (c \in allocated <=> Held(c)) /\ (Held(c) => pointer[c] = "live")
    BY <1>3 DEF IInv, Objects
  <2>3. \A c \in Class : /\ c \in registered => c \in allocated /\ pointer[c] = "live"
                         /\ c \in allocated => c \in registered
    BY <1>3 DEF IInv, Objects
  <2>4. {"encoding", "overlap"} \subseteq Class BY DEF Class
  <2> QED BY <2>1, <2>2, <2>3, <2>4, <1>11, <1>1 DEF Objects
<1>13. Lifetime' BY <1>1 DEF IInv, Lifetime
<1> QED BY <1>1, <1>7, <1>8, <1>9, <1>10, <1>12, <1>13 DEF IInv

\* An error is taken out of its slot and thrown.
LEMMA TakeErrorKeeps == IInv /\ TakeError => IInv'
<1> SUFFICES ASSUME IInv, TakeError PROVE IInv' OBVIOUS
<1>1. /\ op # "none" /\ todo # <<>> /\ Head(todo).do \in {"call", "attempt"} /\ returned = "error"
      /\ returned' = "nothing" /\ slots' = slots - 1
      /\ IF Head(todo).do = "attempt"
         THEN todo' = <<>> /\ cleanup' = cleanup /\ thrown' = thrown
         ELSE todo' = cleanup /\ cleanup' = <<>> /\ thrown' = TRUE
      /\ UNCHANGED <<session, phase, op, suspended, passed, views, borrowed, blocks,
                     pointer, allocated, registered, abandoned, left, faults>>
  BY DEF TakeError, Step, Throw, objects, losses
<1>2. Head(todo).do \in Calls /\ op # "close" BY <1>1, CallingOp DEF Calls
<1>3. passed = 0 /\ slots \in Int BY <1>1 DEF IInv, Control, Types
<1>4. /\ WellFormed(session.kind, op, todo, cleanup)
      /\ WellFormed(session.kind, op, <<>>, cleanup) /\ WellFormed(session.kind, op, cleanup, <<>>)
  BY CleanupWellFormed, EmptyWellFormed DEF IInv, Control
<1>5. WellFormed(session.kind, op', todo', cleanup') BY <1>1, <1>4
<1>6. \A c : Holding(c, op', todo', cleanup') <=> Holding(c, op, todo, cleanup)
  <2>1. \A c : Holding(c, op, cleanup, <<>>) <=> (cleanup # <<>> /\ c = Opened(op)) BY <1>4, HoldingCleanup
  <2>2. cleanup # <<>> => op \in Guarded BY <1>4, CleanupShape
  <2>3. \A c : Holding(c, op, todo, cleanup) <=> (cleanup # <<>> /\ c = Opened(op))
    BY <2>2, <1>1 DEF Holding
  <2>4. \A c : Holding(c, op, <<>>, cleanup) <=> (cleanup # <<>> /\ c = Opened(op))
    BY <2>2 DEF Holding
  <2> QED BY <2>1, <2>3, <2>4, <1>1
<1>7. todo' # <<>> => Head(todo').do \notin Using
  BY <1>1, <1>4, CleanupShape DEF Using
<1>8. Types'
  <2>1. slots' \in Int BY <1>1, <1>3
  <2>2. thrown' \in BOOLEAN BY <1>1 DEF IInv, Types
  <2> QED BY <2>1, <2>2, <1>1 DEF IInv, Types
<1>9. Control' BY <1>1, <1>3, <1>5 DEF IInv, Control
<1>10. Accounts' BY <1>1, <1>3 DEF IInv, Types, Accounts, ResultBlock, ResultSlot
<1>11. Lending' BY <1>7 DEF Lending
<1>12. \A c : (Held(c)' <=> Held(c)) /\ ~Pending(c) /\ ~Pending(c)' BY <1>1, <1>6 DEF Held, Pending
<1>13. Objects' BY <1>1, <1>12 DEF IInv, Objects
<1>14. Head(todo).of = "class" => Head(todo).do = "call" BY <1>1, <1>4, HeadOther
<1>15. Lifetime' BY <1>1, <1>2, <1>14 DEF IInv, Lifetime
<1> QED BY <1>1, <1>8, <1>9, <1>10, <1>11, <1>13, <1>15 DEF IInv

\* A step that is over and neither opened nor frees an object.
LEMMA ReturnControl ==
    ASSUME IInv, op # "none", todo # <<>>, Head(todo).do \notin {"try", "free"},
           Head(todo).do \in Calls => Result(session.kind, Head(todo)) \notin {"encoding", "overlap"},
           Return, session' = session, passed' = 0, returned' = "nothing"
    PROVE  /\ Control' /\ ~ResultBlock' /\ ~ResultSlot'
           /\ \A c : (Held(c)' <=> Held(c)) /\ ~Pending(c)'
<1>1. /\ todo' = Tail(todo)
      /\ UNCHANGED <<op, cleanup, thrown, suspended>>
  BY DEF Return
<1>2. WellFormed(session.kind, op, todo, cleanup) BY DEF IInv, Control
<1>3. WellFormed(session.kind, op, Tail(todo), cleanup) BY <1>2, TailWellFormed
<1>4. \A c : Holding(c, op, Tail(todo), cleanup) <=> Holding(c, op, todo, cleanup)
  BY <1>2, HoldingTail
<1>5. Control' BY <1>1, <1>3 DEF IInv, Control
<1>6. \A c : Held(c)' <=> Held(c) BY <1>1, <1>4 DEF Held
<1> QED BY <1>5, <1>6 DEF ResultBlock, ResultSlot, Pending

\* Once the constructor has returned, the tokenizer of a load is registered.
LEMMA ReturnLifetime ==
    ASSUME IInv, op # "none", op # "close", todo # <<>>, Head(todo).of # "class",
           UNCHANGED <<session, phase, op, cleanup, suspended, pointer, registered>>,
           thrown => thrown'
    PROVE  Lifetime'
BY DEF IInv, Lifetime

\* The decoder over string builtins leaves its error and decodes again.
LEMMA LeaveErrorKeeps == IInv /\ LeaveError => IInv'
<1> SUFFICES ASSUME IInv, LeaveError PROVE IInv' OBVIOUS
<1>1. /\ op # "none" /\ todo # <<>> /\ Head(todo).do = "raw" /\ returned = "error"
      /\ returned' = "nothing" /\ left' = left + 1
      /\ todo' = <<Call("tokenizer", "decode")>>
      /\ UNCHANGED <<session, phase, op, cleanup, thrown, suspended, passed, views, borrowed, blocks,
                     slots, pointer, allocated, registered, abandoned, faults>>
  BY DEF LeaveError, Step, memory, objects
<1>2. Head(todo).do \in Calls /\ op # "close" BY <1>1, CallingOp DEF Calls
<1>3. passed = 0 /\ left \in Int /\ slots \in Int BY <1>1 DEF IInv, Control, Types
<1>4. WellFormed(session.kind, op, todo, cleanup) BY DEF IInv, Control
<1>5. session.kind = "bpe" /\ Head(todo).of # "class"
  BY <1>1, <1>4, HeadOther DEF OnlyBpe
<1>6. WellFormed(session.kind, op, todo', cleanup)
  <2>1. "decode" \in PlainBpe BY DEF PlainBpe, BpeDecoding
  <2>2. Plain(session.kind, Call("tokenizer", "decode")) BY <2>1, <1>5, PlainCallBpe
  <2>3. todo' \in Seq(StepSet) /\ Len(todo') = 1 /\ todo'[1] = Call("tokenizer", "decode")
    BY <1>1, <2>2 DEF Plain
  <2>4. \A i \in 1 .. Len(todo') : Plain(session.kind, todo'[i]) BY <2>2, <2>3
  <2>5. cleanup = <<>> \/ (op \in Guarded /\ cleanup = <<Free(Opened(op))>>) BY <1>4, CleanupShape
  <2> QED BY <2>3, <2>4, <2>5, PlainWellFormed
<1>7. todo' # <<>> /\ Head(todo').do = "call" /\ Head(todo').of # "class" BY <1>1 DEF Call
<1>8. Types'
  <2>1. left' \in Int BY <1>1, <1>3
  <2> QED BY <2>1, <1>1 DEF IInv, Types
<1>9. Control' BY <1>1, <1>3, <1>6 DEF IInv, Control
<1>10. Accounts'
  <2>1. ~ResultBlock /\ ResultSlot /\ ~ResultBlock' /\ ~ResultSlot'
    BY <1>1 DEF ResultBlock, ResultSlot
  <2> QED BY <2>1, <1>1, <1>3 DEF IInv, Accounts
<1>11. Lending' BY <1>7 DEF Lending, Using
<1>12. \A c : (Held(c)' <=> Held(c)) /\ ~Pending(c) /\ ~Pending(c)'
  BY <1>1, <1>7 DEF Held, Holding, Pending
<1>13. Objects' BY <1>1, <1>12 DEF IInv, Objects
<1>14. Lifetime' BY <1>1, <1>2, <1>5, ReturnLifetime
<1> QED BY <1>1, <1>8, <1>9, <1>10, <1>11, <1>13, <1>14 DEF IInv

\* A returned block is copied and freed.
LEMMA TakeBlockKeeps == IInv /\ TakeBlock => IInv'
<1> SUFFICES ASSUME IInv, TakeBlock PROVE IInv' OBVIOUS
<1> DEFINE result == Result(session.kind, Head(todo))
<1>1. /\ op # "none" /\ todo # <<>> /\ Head(todo).do \in Calls /\ returned = "value"
      /\ result \in Width \union {"string", "memory"}
      /\ returned' = "nothing" /\ blocks' = blocks - 1 /\ Return
      /\ IF result = "memory" THEN views' = views /\ faults' = faults
         ELSE /\ views' = GetView(views, WidthOf(result))
              /\ faults' = faults \union Touching(GetView(views, WidthOf(result)), WidthOf(result))
      /\ UNCHANGED <<session, phase, passed, borrowed, slots, pointer, allocated, registered,
                     abandoned, left>>
  BY DEF TakeBlock, Returned, Step, objects, losses, Result, Method
<1>2. op # "close" /\ passed = 0 /\ blocks \in Int /\ abandoned \in Int
      /\ views \in [Width -> ViewStates] /\ faults = {}
  BY <1>1, CallingOp DEF IInv, Control, Types, ViewStates
<1>3. WellFormed(session.kind, op, todo, cleanup) BY DEF IInv, Control
<1>4. /\ result \notin {"encoding", "overlap", "tokenizer", "view"} /\ \A c \in Class : ~Pending(c)
      /\ ResultBlock
  BY <1>1 DEF Width, Class, Pending, ResultBlock
<1>5. Head(todo).of # "class" /\ Head(todo).method # "decodeBorrowedAssemblyView"
  BY <1>1, <1>3, <1>4, HeadCall
<1>6. views' \in [Width -> ViewStates] /\ faults' = {}
  <2>1. CASE result = "memory" BY <2>1, <1>1, <1>2
  <2>2. CASE result # "memory"
    <3>1. WidthOf(result) \in Width BY <1>1, <2>2 DEF WidthOf, Width
    <3> QED BY <3>1, <2>2, <1>1, <1>2, GetViewAttached
  <2> QED BY <2>1, <2>2
<1> HIDE DEF result
<1>7. Head(todo).do \notin {"try", "free"} BY <1>1 DEF Calls
<1>8. /\ Control' /\ ~ResultBlock' /\ ~ResultSlot'
      /\ \A c : (Held(c)' <=> Held(c)) /\ ~Pending(c)'
  <2>1. result \notin {"encoding", "overlap"} BY <1>4
  <2> QED BY <2>1, <1>1, <1>2, <1>7, ReturnControl DEF result
<1>9. /\ todo' = Tail(todo) /\ UNCHANGED <<op, cleanup, thrown, suspended>> BY <1>1 DEF Return
<1>10. Types'
  <2>1. blocks' \in Int BY <1>1, <1>2
  <2> QED BY <2>1, <1>1, <1>6, <1>9 DEF IInv, Types, ViewStates
<1>11. Accounts'
  <2>1. ~ResultSlot BY <1>1, <1>5 DEF ResultSlot
  <2> QED BY <2>1, <1>1, <1>2, <1>4, <1>8 DEF IInv, Accounts
<1>12. Lending' BY <1>3, <1>4, <1>1, <1>9, NextStep DEF Lending, result
<1>13. Objects' BY <1>1, <1>4, <1>8 DEF IInv, Objects, Class
<1>14. Lifetime' BY <1>1, <1>2, <1>5, <1>9, ReturnLifetime
<1> QED BY <1>6, <1>8, <1>10, <1>11, <1>12, <1>13, <1>14 DEF IInv

\* A number is returned.
LEMMA TakeScalarKeeps == IInv /\ TakeScalar => IInv'
<1> SUFFICES ASSUME IInv, TakeScalar PROVE IInv' OBVIOUS
<1> DEFINE result == Result(session.kind, Head(todo))
<1>1. /\ op # "none" /\ todo # <<>> /\ Head(todo).do \in Calls /\ returned = "value"
      /\ result = "scalar" /\ returned' = "nothing" /\ Return
      /\ UNCHANGED <<session, phase, passed, views, borrowed, blocks, slots, pointer, allocated,
                     registered, abandoned, left, faults>>
  BY DEF TakeScalar, Returned, Step, memory, objects, losses, Result, Method
<1>2. op # "close" /\ passed = 0 BY <1>1, CallingOp DEF IInv, Control
<1>3. WellFormed(session.kind, op, todo, cleanup) BY DEF IInv, Control
<1>4. /\ result \notin {"encoding", "overlap", "tokenizer", "view"} /\ \A c \in Class : ~Pending(c)
      /\ ~ResultBlock
  BY <1>1 DEF Width, Class, Pending, ResultBlock
<1>5. Head(todo).of # "class" /\ Head(todo).method # "decodeBorrowedAssemblyView"
  BY <1>1, <1>3, <1>4, HeadCall
<1> HIDE DEF result
<1>6. Head(todo).do \notin {"try", "free"} BY <1>1 DEF Calls
<1>7. /\ Control' /\ ~ResultBlock' /\ ~ResultSlot'
      /\ \A c : (Held(c)' <=> Held(c)) /\ ~Pending(c)'
  <2>1. result \notin {"encoding", "overlap"} BY <1>4
  <2> QED BY <2>1, <1>1, <1>2, <1>6, ReturnControl DEF result
<1>8. /\ todo' = Tail(todo) /\ UNCHANGED <<op, cleanup, thrown, suspended>> BY <1>1 DEF Return
<1>9. Types' BY <1>1, <1>8 DEF IInv, Types
<1>10. Accounts'
  <2>1. ~ResultSlot BY <1>1, <1>5 DEF ResultSlot
  <2> QED BY <2>1, <1>1, <1>2, <1>4, <1>7 DEF IInv, Accounts
<1>11. Lending' BY <1>3, <1>4, <1>1, <1>8, NextStep DEF Lending, result
<1>12. Objects' BY <1>1, <1>4, <1>7 DEF IInv, Objects, Class
<1>13. Lifetime' BY <1>1, <1>2, <1>5, <1>8, ReturnLifetime
<1> QED BY <1>1, <1>7, <1>9, <1>10, <1>11, <1>12, <1>13 DEF IInv

\* A view of the borrowed buffer is returned.
LEMMA TakeViewKeeps == IInv /\ TakeView => IInv'
<1> SUFFICES ASSUME IInv, TakeView PROVE IInv' OBVIOUS
<1> DEFINE result == Result(session.kind, Head(todo))
<1>1. /\ op # "none" /\ todo # <<>> /\ Head(todo).do \in Calls /\ returned = "value"
      /\ result = "view" /\ returned' = "nothing" /\ Return
      /\ borrowed' = "live"
      /\ slots' = (IF Head(todo).method = "decodeBorrowedAssemblyView" THEN slots - 1 ELSE slots)
      /\ UNCHANGED <<session, phase, passed, views, blocks, pointer, allocated,
                     registered, abandoned, left, faults>>
  BY DEF TakeView, Returned, Step, objects, losses, Result, Method
<1>2. op # "close" /\ passed = 0 /\ slots \in Int /\ left \in Int
  BY <1>1, CallingOp DEF IInv, Control, Types
<1>3. WellFormed(session.kind, op, todo, cleanup) BY DEF IInv, Control
<1>4. /\ result \notin {"encoding", "overlap", "tokenizer"} /\ \A c \in Class : ~Pending(c)
      /\ ~ResultBlock
  BY <1>1 DEF Width, Class, Pending, ResultBlock
<1>5. Head(todo).of # "class" BY <1>1, <1>3, <1>4, HeadCall
<1> HIDE DEF result
<1>6. Head(todo).do \notin {"try", "free"} BY <1>1 DEF Calls
<1>7. /\ Control' /\ ~ResultBlock' /\ ~ResultSlot'
      /\ \A c : (Held(c)' <=> Held(c)) /\ ~Pending(c)'
  <2>1. result \notin {"encoding", "overlap"} BY <1>4
  <2> QED BY <2>1, <1>1, <1>2, <1>6, ReturnControl DEF result
<1>8. /\ todo' = Tail(todo) /\ UNCHANGED <<op, cleanup, thrown, suspended>> BY <1>1 DEF Return
<1>9. Types'
  <2>1. slots' \in Int BY <1>1, <1>2
  <2> QED BY <2>1, <1>1, <1>8 DEF IInv, Types
<1>10. Accounts'
  <2>1. ResultSlot <=> Head(todo).method = "decodeBorrowedAssemblyView" BY <1>1 DEF ResultSlot
  <2>2. slots' = left BY <2>1, <1>1, <1>2 DEF IInv, Accounts
  <2> QED BY <2>2, <1>1, <1>2, <1>4, <1>7 DEF IInv, Accounts
<1>11. Lending' BY <1>1 DEF Lending
<1>12. Objects' BY <1>1, <1>4, <1>7 DEF IInv, Objects, Class
<1>13. Lifetime' BY <1>1, <1>2, <1>5, <1>8, ReturnLifetime
<1> QED BY <1>1, <1>7, <1>9, <1>10, <1>11, <1>12, <1>13 DEF IInv

\* A returned pointer is wrapped and registered.
LEMMA WrapKeeps == IInv /\ Wrap => IInv'
<1> SUFFICES ASSUME IInv, Wrap PROVE IInv' OBVIOUS
<1> DEFINE c == Result(session.kind, Head(todo))
<1>1. /\ op # "none" /\ todo # <<>> /\ Head(todo).do \in Calls /\ returned = "value"
      /\ c \in Class /\ returned' = "nothing"
      /\ pointer' = [pointer EXCEPT ![c] = "live"] /\ registered' = registered \union {c}
      /\ todo' = Tail(todo)
      /\ UNCHANGED <<session, phase, op, cleanup, thrown, suspended, passed, views, borrowed, blocks,
                     slots, allocated, abandoned, left, faults>>
  BY DEF Wrap, Returned, Return, Step, memory, losses, Result, Method
<1>2. op # "close" /\ passed = 0 /\ pointer \in [Class -> {"none", "live", "null"}]
  BY <1>1, CallingOp DEF IInv, Control, Types
<1>3. WellFormed(session.kind, op, todo, cleanup) BY DEF IInv, Control
<1>4. /\ Pending(c) /\ \A d : Pending(d) => d = c BY <1>1 DEF Pending
<1>5. ~ResultBlock /\ ~ResultSlot
  <2>1. c \notin Width \union {"string", "memory"} /\ c # "view" BY <1>1 DEF Class, Width
  <2>2. Head(todo).method # "decodeBorrowedAssemblyView" BY <2>1, <1>1, <1>3, HeadCall
  <2> QED BY <2>1, <2>2, <1>1 DEF ResultBlock, ResultSlot
<1>6. /\ c \in {"encoding", "overlap"} =>
            op \in Guarded /\ c = Opened(op) /\ Tail(todo) # <<>> /\ Head(Tail(todo)).do = "try"
      /\ c = "tokenizer" <=> Head(todo).of = "class"
  BY <1>1, <1>3, HeadCall
<1>7. WellFormed(session.kind, op, Tail(todo), cleanup) BY <1>1, <1>3, TailWellFormed DEF Calls
<1>8. Tail(todo) # <<>> => Head(Tail(todo)).do \notin Using
  <2>1. c # "view" BY <1>1 DEF Class
  <2> QED BY <2>1, <1>1, <1>3, NextStep
<1>9. /\ \A d : d # c => (Holding(d, op, Tail(todo), cleanup) <=> Holding(d, op, todo, cleanup))
      /\ c \in {"encoding", "overlap"} => Holding(c, op, Tail(todo), cleanup)
  <2>1. CASE c \in {"encoding", "overlap"} BY <2>1, <1>6 DEF Holding
  <2>2. CASE c \notin {"encoding", "overlap"}
    <3>1. Head(todo).do \notin {"try", "free"} BY <1>1 DEF Calls
    <3> QED BY <2>2, <3>1, <1>1, <1>3, HoldingTail
  <2> QED BY <2>1, <2>2
<1> HIDE DEF c
<1>10. Types'
  <2>1. pointer' \in [Class -> {"none", "live", "null"}] BY <1>1, <1>2
  <2>2. registered' \subseteq Class BY <1>1 DEF IInv, Types
  <2> QED BY <2>1, <2>2, <1>1 DEF IInv, Types
<1>11. Control' BY <1>1, <1>2, <1>7 DEF IInv, Control
<1>12. Accounts' BY <1>1, <1>2, <1>5 DEF IInv, Accounts, ResultBlock, ResultSlot
<1>13. Lending' BY <1>1, <1>8 DEF Lending
<1>14. /\ \A d : d # c => (Held(d)' <=> Held(d))
       /\ \A d \in {"encoding", "overlap"} : d = c => Held(d)'
       /\ \A d : ~Pending(d)'
  <2>1. UNCHANGED <<op, cleanup, suspended>> /\ todo' = Tail(todo) /\ returned' = "nothing" BY <1>1
  <2>2. \A d : ~Pending(d)' BY <2>1 DEF Pending
  <2>3. \A d : d # c => (Held(d)' <=> Held(d)) BY <2>1, <1>9 DEF Held
  <2>4. \A d \in {"encoding", "overlap"} : d = c => Held(d)' BY <2>1, <1>9 DEF Held
  <2> QED BY <2>2, <2>3, <2>4
<1>15. /\ pointer'[c] = "live" /\ \A d \in Class : d # c => pointer'[d] = pointer[d]
  BY <1>1, <1>2
<1>16. c \in allocated BY <1>1, <1>4 DEF IInv, Objects
<1>17. Objects'
  <2>1. ASSUME NEW d \in {"encoding", "overlap"}
        PROVE  (d \in allocated' <=> Held(d)' \/ Pending(d)') /\ (Held(d)' => pointer'[d] = "live")
    <3>1. d \in Class BY DEF Class
    <3>2. CASE d = c BY <3>2, <1>14, <1>15, <1>16, <1>1
    <3>3. CASE d # c BY <3>1, <3>3, <1>4, <1>14, <1>15, <1>1 DEF IInv, Objects
    <3> QED BY <3>2, <3>3
  <2>2. ASSUME NEW d \in Class
        PROVE  /\ d \in registered' => d \in allocated' /\ pointer'[d] = "live"
               /\ d \in allocated' => d \in registered' \/ Pending(d)'
               /\ Pending(d)' => d \in allocated'
    <3>1. CASE d = c BY <3>1, <1>14, <1>15, <1>16, <1>1
    <3>2. CASE d # c BY <3>2, <1>4, <1>14, <1>15, <1>1 DEF IInv, Objects
    <3> QED BY <3>1, <3>2
  <2> QED BY <2>1, <2>2 DEF Objects
<1>18. Lifetime'
  <2>1. CASE c = "tokenizer"
    <3>1. pointer'["tokenizer"] = "live" /\ "tokenizer" \in registered' BY <2>1, <1>1, <1>15
    <3> QED BY <3>1, <1>1, <1>2 DEF IInv, Lifetime
  <2>2. CASE c # "tokenizer"
    <3>1. pointer'["tokenizer"] = pointer["tokenizer"] /\ Head(todo).of # "class"
      BY <2>2, <1>6, <1>15 DEF Class
    <3>2. "tokenizer" \in registered' <=> "tokenizer" \in registered BY <2>2, <1>1
    <3> QED BY <3>1, <3>2, <1>1, <1>2 DEF IInv, Lifetime
  <2> QED BY <2>1, <2>2
<1> QED BY <1>1, <1>10, <1>11, <1>12, <1>13, <1>17, <1>18 DEF IInv

\* The lent view is decoded.
LEMMA DecodeViewKeeps == IInv /\ DecodeView => IInv'
<1> SUFFICES ASSUME IInv, DecodeView PROVE IInv' OBVIOUS
<1>1. /\ op # "none" /\ todo # <<>> /\ Head(todo).do = "decode" /\ Return
      /\ faults' = faults \union Lent
      /\ UNCHANGED <<session, phase, passed, returned, views, borrowed, blocks, slots,
                     pointer, allocated, registered, abandoned, left>>
  BY DEF DecodeView, Step, call, memory, objects, losses
<1>2. /\ Head(todo).do \notin Calls \union {"try", "free"} /\ Head(todo).do \in Using
  BY <1>1 DEF Calls, Using
<1>3. faults' = {} BY <1>1, <1>2 DEF IInv, Lending, Lent
<1>4. passed = 0 /\ returned = "nothing" /\ ~ResultBlock /\ ~ResultSlot /\ \A c : ~Pending(c)
  BY <1>2, NotCalling
<1>5. WellFormed(session.kind, op, todo, cleanup) BY DEF IInv, Control
<1>6. /\ Control' /\ ~ResultBlock' /\ ~ResultSlot'
      /\ \A c : (Held(c)' <=> Held(c)) /\ ~Pending(c)'
  BY <1>1, <1>2, <1>4, ReturnControl
<1>7. /\ todo' = Tail(todo) /\ UNCHANGED <<op, cleanup, thrown, suspended>> BY <1>1 DEF Return
<1>8. Head(todo).of # "class" BY <1>1, <1>5, HeadOther
<1>9. op # "close" BY <1>1 DEF IInv, Lifetime, Free
<1>10. Types' BY <1>1, <1>7 DEF IInv, Types
<1>11. Accounts' BY <1>1, <1>4, <1>6 DEF IInv, Accounts
<1>12. Lending' BY <1>1, <1>5, <1>7, NextStep DEF Lending
<1>13. Objects' BY <1>1, <1>4, <1>6 DEF IInv, Objects
<1>14. Lifetime' BY <1>1, <1>7, <1>8, <1>9, ReturnLifetime
<1> QED BY <1>3, <1>6, <1>10, <1>11, <1>12, <1>13, <1>14 DEF IInv

\* encodeResidentString goes on with other steps, and holds no object.
LEMMA ContinueKeeps ==
    ASSUME IInv, op # "none", todo # <<>>, Head(todo).do \in {"loop", "encodeInto"},
           WellFormed(session.kind, op, todo', cleanup), todo' # <<>>, Head(todo').do = "call",
           UNCHANGED <<session, phase, op, cleanup, thrown, suspended, passed, returned, views, borrowed,
                       blocks, slots, pointer, allocated, registered, abandoned, left>>
    PROVE  Types' /\ Control' /\ Accounts' /\ Lending' /\ Objects' /\ Lifetime'
<1>1. WellFormed(session.kind, op, todo, cleanup) BY DEF IInv, Control
<1>2. passed = 0 /\ returned = "nothing" /\ \A c : ~Pending(c) BY NotCalling DEF Calls
<1>3. Head(todo).of # "class" BY <1>1, HeadOther
<1>4. op # "close" BY DEF IInv, Lifetime, Free
<1>5. Types' BY DEF IInv, Types
<1>6. Control' BY <1>2 DEF IInv, Control
<1>7. Accounts' BY <1>2 DEF IInv, Accounts, ResultBlock, ResultSlot
<1>8. Lending' BY DEF Lending, Using
<1>9. \A c : (Held(c)' <=> Held(c)) /\ ~Pending(c)' BY <1>2 DEF Held, Holding, Pending
<1>10. Objects' BY <1>2, <1>9 DEF IInv, Objects
<1>11. Lifetime' BY <1>3, <1>4, ReturnLifetime
<1> QED BY <1>5, <1>6, <1>7, <1>8, <1>10, <1>11

\* A plain step may follow in place of what is left.
LEMMA OneMore ==
    ASSUME NEW k, NEW o, NEW t, NEW cl, NEW a, WellFormed(k, o, t, cl), Plain(k, a)
    PROVE  WellFormed(k, o, <<a>>, cl)
<1>1. <<a>> \in Seq(StepSet) /\ Len(<<a>>) = 1 /\ <<a>>[1] = a BY DEF Plain
<1>2. \A i \in 1 .. Len(<<a>>) : Plain(k, <<a>>[i]) BY <1>1
<1>3. cl = <<>> \/ (o \in Guarded /\ cl = <<Free(Opened(o))>>) BY CleanupShape
<1> QED BY <1>1, <1>2, <1>3, PlainWellFormed

\* Two of them may.
LEMMA TwoMore ==
    ASSUME NEW k, NEW o, NEW t, NEW cl, NEW a, NEW b, WellFormed(k, o, t, cl), Plain(k, a), Plain(k, b)
    PROVE  WellFormed(k, o, <<a, b>>, cl)
<1> DEFINE u == <<a, b>>
<1>1. u \in Seq(StepSet) /\ Len(u) = 2 /\ u[1] = a /\ u[2] = b BY DEF Plain
<1> HIDE DEF u
<1>2. \A i \in 1 .. Len(u) : Plain(k, u[i]) BY <1>1
<1>3. cl = <<>> \/ (o \in Guarded /\ cl = <<Free(Opened(o))>>) BY CleanupShape
<1>4. WellFormed(k, o, u, cl) BY <1>1, <1>2, <1>3, PlainWellFormed
<1> QED BY <1>4 DEF u

\* The loop over the resident buffer goes round or ends.
LEMMA ResidentLoopKeeps == IInv /\ ResidentLoop => IInv'
<1> SUFFICES ASSUME IInv, ResidentLoop PROVE IInv' OBVIOUS
<1>1. /\ op # "none" /\ todo # <<>> /\ Head(todo).do = "loop" /\ faults' = faults
      /\ todo' = (IF remaining = <<>> THEN <<Call("tokenizer", "encodeResidentInput")>>
                  ELSE <<Call("tokenizer", "residentInputView"), Fill>>)
      /\ UNCHANGED <<session, phase, op, cleanup, thrown, suspended, passed, returned, views, borrowed,
                     blocks, slots, pointer, allocated, registered, abandoned, left>>
  BY DEF ResidentLoop, Step, call, memory, objects, losses
<1>2. WellFormed(session.kind, op, todo, cleanup) BY DEF IInv, Control
<1>3. session.kind = "bpe" BY <1>1, <1>2, HeadOther DEF OnlyBpe
<1>4. WellFormed(session.kind, op, todo', cleanup) /\ todo' # <<>> /\ Head(todo').do = "call"
  <2>1. CASE remaining = <<>>
    <3>1. "encodeResidentInput" \in PlainBpe BY DEF PlainBpe, BpeEncoding
    <3>2. WellFormed(session.kind, op, <<Call("tokenizer", "encodeResidentInput")>>, cleanup)
      BY <3>1, <1>2, <1>3, PlainCallBpe, OneMore
    <3>3. todo' = <<Call("tokenizer", "encodeResidentInput")>> BY <2>1, <1>1
    <3> QED BY <3>2, <3>3 DEF Call
  <2>2. CASE remaining # <<>>
    <3>1. todo' = <<Call("tokenizer", "residentInputView"), Fill>> BY <2>2, <1>1
    <3>2. WellFormed(session.kind, op, <<Call("tokenizer", "residentInputView"), Fill>>, cleanup)
      BY <1>2, <1>3, ViewWellFormed, CleanupShape DEF Fill
    <3> QED BY <3>1, <3>2 DEF Call
  <2> QED BY <2>1, <2>2
<1>5. Types' /\ Control' /\ Accounts' /\ Lending' /\ Objects' /\ Lifetime'
  BY <1>1, <1>4, ContinueKeeps
<1> QED BY <1>1, <1>5 DEF IInv

\* encodeInto writes into the lent view.
LEMMA EncodeIntoKeeps == IInv /\ EncodeInto => IInv'
<1> SUFFICES ASSUME IInv, EncodeInto PROVE IInv' OBVIOUS
<1>1. /\ op # "none" /\ todo # <<>> /\ Head(todo).do = "encodeInto" /\ faults' = faults \union Lent
      /\ \/ todo' = <<Call("tokenizer", "encodeResidentInput")>>
         \/ todo' = <<Call("tokenizer", "growResidentInput"), Loop>>
      /\ UNCHANGED <<session, phase, op, cleanup, thrown, suspended, passed, returned, views, borrowed,
                     blocks, slots, pointer, allocated, registered, abandoned, left>>
  BY DEF EncodeInto, Step, call, memory, objects, losses
<1>2. faults' = {} BY <1>1 DEF IInv, Lending, Lent, Using
<1>3. WellFormed(session.kind, op, todo, cleanup) BY DEF IInv, Control
<1>4. session.kind = "bpe" BY <1>1, <1>3, HeadOther DEF OnlyBpe
<1>5. "encodeResidentInput" \in PlainBpe /\ "growResidentInput" \in PlainBpe
  BY DEF PlainBpe, BpeEncoding, BpeLoading
<1>6. WellFormed(session.kind, op, todo', cleanup)
  <2>1. CASE todo' = <<Call("tokenizer", "encodeResidentInput")>>
    BY <2>1, <1>3, <1>4, <1>5, PlainCallBpe, OneMore
  <2>2. CASE todo' = <<Call("tokenizer", "growResidentInput"), Loop>>
    BY <2>2, <1>3, <1>4, <1>5, PlainCallBpe, PlainLoop, TwoMore
  <2> QED BY <1>1, <2>1, <2>2
<1>7. todo' # <<>> /\ Head(todo').do = "call" BY <1>1 DEF Call
<1>8. Types' /\ Control' /\ Accounts' /\ Lending' /\ Objects' /\ Lifetime'
  BY <1>1, <1>6, <1>7, ContinueKeeps
<1> QED BY <1>2, <1>8 DEF IInv

\* free() takes the pointer away and frees the object.
LEMMA FreeObjectKeeps == IInv /\ FreeObject => IInv'
<1> SUFFICES ASSUME IInv, FreeObject PROVE IInv' OBVIOUS
<1> DEFINE c == Head(todo).of
<1>1. /\ op # "none" /\ todo # <<>> /\ Head(todo).do = "free" /\ Return
      /\ pointer' = [pointer EXCEPT ![c] = "null"] /\ registered' = registered \ {c}
      /\ allocated' = allocated \ {c}
      /\ faults' = (IF c \in allocated THEN faults ELSE faults \union {"an object is freed twice"})
      /\ UNCHANGED <<session, phase, passed, returned, views, borrowed, blocks, slots,
                     abandoned, left>>
  BY DEF FreeObject, DestroyIntoRaw, Release, Step, call, memory, losses
<1>2. passed = 0 /\ returned = "nothing" /\ ~ResultBlock /\ ~ResultSlot /\ \A d : ~Pending(d)
  BY <1>1, NotCalling DEF Calls
<1>3. /\ Tail(todo) = <<>> /\ cleanup = <<>>
      /\ \/ op \in Guarded /\ Head(todo) = Free(Opened(op))
         \/ op = "close" /\ Head(todo) = Free("tokenizer")
  <2>1. WellFormed(session.kind, op, todo, cleanup) BY DEF IInv, Control
  <2>2. todo # <<>> /\ Head(todo).do = "free" BY <1>1
  <2> QED BY <2>1, <2>2, HeadOther
<1>4. /\ todo' = <<>> /\ UNCHANGED <<op, cleanup, thrown, suspended>> BY <1>1, <1>3 DEF Return
<1>5. \/ op \in Guarded /\ c = Opened(op)
      \/ op = "close" /\ c = "tokenizer" /\ phase = "closed" /\ suspended.op = "none" /\ pointer[c] = "live"
  <2>1. CASE op \in Guarded /\ Head(todo) = Free(Opened(op)) BY <2>1 DEF Free
  <2>2. CASE op = "close" /\ Head(todo) = Free("tokenizer")
    <3>1. c = "tokenizer" BY <2>2 DEF Free
    <3> QED BY <2>2, <3>1, <1>1 DEF IInv, Lifetime
  <2> QED BY <1>3, <2>1, <2>2
<1>6. c \in Class /\ pointer \in [Class -> {"none", "live", "null"}]
      /\ registered \subseteq Class /\ allocated \subseteq Class
  BY <1>5 DEF Guarded, Opened, Class, IInv, Types
<1>7. c \in allocated
  <2>1. CASE op \in Guarded /\ c = Opened(op)
    <3>1. Held(c) BY <2>1, <1>1 DEF Held, Holding
    <3>2. c \in {"encoding", "overlap"} BY <2>1 DEF Opened
    <3> QED BY <3>1, <3>2 DEF IInv, Objects
  <2>2. CASE op = "close" /\ c = "tokenizer" /\ phase = "closed" /\ pointer[c] = "live"
    <3>1. "tokenizer" \in registered BY <2>2 DEF IInv, Lifetime
    <3> QED BY <2>2, <3>1, <1>6 DEF IInv, Objects
  <2> QED BY <1>5, <2>1, <2>2
<1>8. \A d : Holding(d, suspended.op, suspended.todo, suspended.cleanup) => d # c
  <2>1. CASE op = "close"
    <3>1. suspended.op = "none" BY <2>1, <1>5 DEF Guarded
    <3> QED BY <3>1 DEF Holding, Guarded
  <2>2. CASE op \in Guarded /\ c = Opened(op)
    <3>1. suspended.op \in Guarded => suspended.op = "encodeOnPool" /\ op # "encodeOnPool"
      BY <2>2 DEF Guarded, IInv, Types, Control
    <3> QED BY <2>2, <3>1 DEF Holding, Opened, Guarded
  <2> QED BY <1>5, <2>1, <2>2
<1>9. \A d : Holding(d, op, todo, cleanup) => d = c
  BY <1>5 DEF Holding, Guarded
<1> HIDE DEF c
<1>10. \A d : d # c => (Held(d)' <=> Held(d))
  BY <1>3, <1>4, <1>9 DEF Held, Holding
<1>11. \A d : d = c => ~Held(d)'
  <2> SUFFICES ASSUME NEW d, d = c PROVE ~Held(d)' OBVIOUS
  <2>1. ~Holding(d, op', todo', cleanup') BY <1>3, <1>4 DEF Holding
  <2>2. ~Holding(d, suspended'.op, suspended'.todo, suspended'.cleanup) BY <1>4, <1>8
  <2> QED BY <2>1, <2>2 DEF Held
<1>12. \A d : ~Pending(d)' BY <1>1, <1>2 DEF Pending
<1>13. Types'
  <2>1. pointer' \in [Class -> {"none", "live", "null"}] BY <1>1, <1>6
  <2>2. registered' \subseteq Class /\ allocated' \subseteq Class BY <1>1, <1>6
  <2> QED BY <2>1, <2>2, <1>1, <1>4 DEF IInv, Types
<1>14. Control'
  <2>1. WellFormed(session.kind, op, <<>>, cleanup) BY EmptyWellFormed DEF IInv, Control
  <2>2. WellFormed(session.kind, op', todo', cleanup') BY <2>1, <1>4
  <2>3. /\ session' = session /\ op' = op /\ todo' = <<>> /\ cleanup' = cleanup /\ cleanup = <<>>
        /\ suspended' = suspended /\ passed' = 0 /\ returned' = "nothing" /\ op # "none"
    BY <1>1, <1>2, <1>3, <1>4
  <2> QED BY <2>2, <2>3 DEF IInv, Control
<1>15. Accounts'
  <2>1. ~ResultBlock' /\ ~ResultSlot' BY <1>1, <1>2 DEF ResultBlock, ResultSlot
  <2> QED BY <2>1, <1>1, <1>2 DEF IInv, Accounts
<1>16. Lending' BY <1>4 DEF Lending
<1>17. \A d \in Class : d # c => pointer'[d] = pointer[d] BY <1>1, <1>6
<1>18. Objects'
  <2>1. ASSUME NEW d \in {"encoding", "overlap"}
        PROVE  (d \in allocated' <=> Held(d)' \/ Pending(d)') /\ (Held(d)' => pointer'[d] = "live")
    <3>1. d \in Class BY DEF Class
    <3>2. CASE d = c BY <3>2, <1>11, <1>12, <1>1
    <3>3. CASE d # c BY <3>1, <3>3, <1>2, <1>10, <1>12, <1>17, <1>1 DEF IInv, Objects
    <3> QED BY <3>2, <3>3
  <2>2. ASSUME NEW d \in Class
        PROVE  /\ d \in registered' => d \in allocated' /\ pointer'[d] = "live"
               /\ d \in allocated' => d \in registered' \/ Pending(d)'
               /\ Pending(d)' => d \in allocated'
    <3>1. CASE d = c BY <3>1, <1>12, <1>1
    <3>2. CASE d # c BY <3>2, <1>2, <1>12, <1>17, <1>1 DEF IInv, Objects
    <3> QED BY <3>1, <3>2
  <2> QED BY <2>1, <2>2 DEF Objects
<1>19. Lifetime'
  <2>1. CASE op = "close" /\ c = "tokenizer" /\ phase = "closed" /\ suspended.op = "none"
    <3>1. pointer'["tokenizer"] = "null" BY <2>1, <1>1, <1>6
    <3> QED BY <2>1, <3>1, <1>1, <1>3, <1>4 DEF Lifetime
  <2>2. CASE op \in Guarded /\ c = Opened(op)
    <3>1. c # "tokenizer" BY <2>2 DEF Opened
    <3>2. pointer'["tokenizer"] = pointer["tokenizer"] BY <3>1, <1>17 DEF Class
    <3>3. "tokenizer" \in registered' <=> "tokenizer" \in registered BY <3>1, <1>1
    <3>4. op \notin {"load", "close"} BY <2>2 DEF Guarded
    <3> QED BY <3>2, <3>3, <3>4, <1>1, <1>4 DEF IInv, Lifetime
  <2> QED BY <1>5, <2>1, <2>2
<1> QED BY <1>1, <1>7, <1>13, <1>14, <1>15, <1>16, <1>18, <1>19 DEF IInv

\* The session closes.
LEMMA CloseKeeps == IInv /\ Close => IInv'
<1> SUFFICES ASSUME IInv, Close PROVE IInv' OBVIOUS
<1>1. /\ op = "none" /\ phase = "open" /\ phase' = "closed"
      /\ UNCHANGED <<session, op, todo, cleanup, thrown, suspended, passed, returned, views, borrowed,
                     blocks, slots, pointer, allocated, registered, abandoned, left, faults>>
  BY DEF Close, stack, call, memory, objects, losses
<1>2. Types' BY <1>1 DEF IInv, Types
<1>3. Control' /\ Lending' BY <1>1 DEF IInv, Control, Lending
<1>4. Accounts' BY <1>1 DEF IInv, Accounts, ResultBlock, ResultSlot
<1>5. \A c : (Held(c)' <=> Held(c)) /\ (Pending(c)' <=> Pending(c)) BY <1>1 DEF Held, Pending
<1>6. Objects' BY <1>1, <1>5 DEF IInv, Objects
<1>7. Lifetime' BY <1>1 DEF IInv, Lifetime
<1> QED BY <1>1, <1>2, <1>3, <1>4, <1>6, <1>7 DEF IInv

\* The closed session frees its tokenizer.
LEMMA FreeTokenizerKeeps == IInv /\ FreeTokenizer => IInv'
<1> SUFFICES ASSUME IInv, FreeTokenizer PROVE IInv' OBVIOUS
<1>1. /\ op = "none" /\ suspended.op = "none" /\ phase = "closed" /\ pointer["tokenizer"] = "live"
      /\ op' = "close" /\ todo' = <<Free("tokenizer")>>
      /\ UNCHANGED <<session, phase, cleanup, thrown, suspended, passed, returned, views, borrowed,
                     blocks, slots, pointer, allocated, registered, abandoned, left, faults>>
  BY DEF FreeTokenizer, call, memory, objects, losses
<1>2. todo = <<>> /\ cleanup = <<>> BY <1>1 DEF IInv, Control
<1>3. passed = 0 /\ returned = "nothing" /\ \A c : ~Pending(c) BY <1>2, NotCalling
<1>4. todo' # <<>> /\ Len(todo') = 1 /\ todo'[1] = Free("tokenizer")
      /\ Head(todo').do = "free" /\ Free("tokenizer").do = "free" /\ Free("tokenizer").of = "tokenizer"
  BY <1>1 DEF Free
<1>5. WellFormed(session.kind, op', todo', cleanup')
  <2>1. Free("tokenizer") \in StepSet BY DEF Free, StepSet, Doing, Class, Name
  <2>2. todo' \in Seq(StepSet) BY <2>1, <1>1
  <2>3. \A i \in 1 .. Len(todo') : Fits(session.kind, op', todo', cleanup', i)
    BY <1>1, <1>2, <1>4
    DEF Fits, CallFits, TryFits, FreeFits, UseFits, AwaitFits, KindFits, Calls, Using, OnlyBpe
  <2> QED BY <2>2, <2>3, <1>1, <1>2 DEF WellFormed
<1>6. Types' BY <1>1 DEF IInv, Types
<1>7. Control' BY <1>1, <1>3, <1>4, <1>5 DEF IInv, Control
<1>8. Accounts' BY <1>1, <1>3 DEF IInv, Accounts, ResultBlock, ResultSlot
<1>9. Lending' BY <1>4 DEF Lending, Using
<1>10. \A c : (Held(c)' <=> Held(c)) /\ ~Pending(c)' BY <1>1, <1>2, <1>3 DEF Held, Holding, Guarded, Pending
<1>11. Objects' BY <1>1, <1>3, <1>10 DEF IInv, Objects
<1>12. Lifetime' BY <1>1, <1>2 DEF IInv, Lifetime
<1> QED BY <1>1, <1>6, <1>7, <1>8, <1>9, <1>11, <1>12 DEF IInv

\* The session is dropped without a close.
LEMMA ForgetKeeps == IInv /\ Forget => IInv'
<1> SUFFICES ASSUME IInv, Forget PROVE IInv' OBVIOUS
<1>1. /\ op = "none" /\ suspended.op = "none" /\ phase \in {"open", "closed"} /\ phase' = "lost"
      /\ UNCHANGED <<session, op, todo, cleanup, thrown, suspended, passed, returned, views, borrowed,
                     blocks, slots, pointer, allocated, registered, abandoned, left, faults>>
  BY DEF Forget, stack, call, memory, objects, losses
<1>2. Types' BY <1>1 DEF IInv, Types
<1>3. Control' /\ Lending' BY <1>1 DEF IInv, Control, Lending
<1>4. Accounts' BY <1>1 DEF IInv, Accounts, ResultBlock, ResultSlot
<1>5. \A c : (Held(c)' <=> Held(c)) /\ (Pending(c)' <=> Pending(c)) BY <1>1 DEF Held, Pending
<1>6. Objects' BY <1>1, <1>5 DEF IInv, Objects
<1>7. Lifetime' BY <1>1 DEF IInv, Lifetime
<1> QED BY <1>1, <1>2, <1>3, <1>4, <1>6, <1>7 DEF IInv

\* Between turns no function holds an object but the one that awaits.
LEMMA BetweenTurns ==
    ASSUME IInv, op = "none"
    PROVE  /\ todo = <<>> /\ cleanup = <<>> /\ passed = 0
           /\ ~ResultBlock /\ ~ResultSlot /\ \A c : ~Pending(c)
           /\ \A c : Held(c) <=> (c = "overlap" /\ suspended.op = "encodeOnPool")
<1>1. todo = <<>> /\ cleanup = <<>> BY DEF IInv, Control
<1>2. passed = 0 /\ ~ResultBlock /\ ~ResultSlot /\ \A c : ~Pending(c) BY <1>1, NotCalling
<1>3. \A c : Held(c) <=> Holding(c, suspended.op, suspended.todo, suspended.cleanup)
  BY DEF Held, Holding, Guarded
<1>4. \A c : Holding(c, suspended.op, suspended.todo, suspended.cleanup)
                <=> (c = "overlap" /\ suspended.op = "encodeOnPool")
  BY DEF IInv, Types, Control, Holding, Guarded, Opened
<1> QED BY <1>1, <1>2, <1>3, <1>4

\* The finalization registry frees what was dropped.
LEMMA CollectKeeps ==
    ASSUME IInv, NEW c \in Class, Collect(c)
    PROVE  IInv'
<1>1. /\ op = "none" /\ suspended.op = "none" /\ c \in registered
      /\ c = "tokenizer" => phase = "lost"
      /\ registered' = registered \ {c} /\ allocated' = allocated \ {c}
      /\ faults' = (IF c \in allocated THEN faults ELSE faults \union {"an object is freed twice"})
      /\ UNCHANGED <<session, phase, op, todo, cleanup, thrown, suspended, passed, returned, views,
                     borrowed, blocks, slots, pointer, abandoned, left>>
  BY DEF Collect, Release, stack, call, memory, losses
<1>2. \A d : ~Held(d) /\ ~Pending(d) BY <1>1, BetweenTurns
<1>3. c \in allocated BY <1>1 DEF IInv, Objects
<1>4. c = "tokenizer" BY <1>2, <1>3 DEF IInv, Objects, Class
<1>5. Types' BY <1>1 DEF IInv, Types
<1>6. Control' /\ Lending' BY <1>1 DEF IInv, Control, Lending
<1>7. Accounts' BY <1>1 DEF IInv, Accounts, ResultBlock, ResultSlot
<1>8. \A d : ~Held(d)' /\ ~Pending(d)' BY <1>1, <1>2 DEF Held, Pending
<1>9. Objects' BY <1>1, <1>2, <1>8 DEF IInv, Objects
<1>10. Lifetime' BY <1>1, <1>4 DEF IInv, Lifetime
<1> QED BY <1>1, <1>3, <1>5, <1>6, <1>7, <1>9, <1>10 DEF IInv

\* A stuttering step keeps the invariant.
LEMMA StutterKeeps == IInv /\ UNCHANGED vars => IInv'
<1> SUFFICES ASSUME IInv, UNCHANGED vars PROVE IInv' OBVIOUS
<1>1. UNCHANGED <<session, phase, op, todo, cleanup, thrown, suspended, passed, returned, views, borrowed,
                  blocks, slots, pointer, allocated, registered, abandoned, left, faults>>
  BY DEF vars, stack, call, memory, objects, losses
<1> USE <1>1
<1>2. Types' BY DEF IInv, Types
<1>3. Control' /\ Lending' BY DEF IInv, Control, Lending
<1>4. Accounts' BY DEF IInv, Accounts, ResultBlock, ResultSlot
<1>5. \A c : (Held(c)' <=> Held(c)) /\ (Pending(c)' <=> Pending(c)) BY DEF Held, Pending
<1>6. Objects' BY <1>5 DEF IInv, Objects
<1>7. Lifetime' BY DEF IInv, Lifetime
<1> QED BY <1>2, <1>3, <1>4, <1>6, <1>7 DEF IInv

---------------------------------------------------------------------------
\* Every step keeps the invariant.
LEMMA NextKeeps == IInv /\ [Next]_vars => IInv'
<1> SUFFICES ASSUME IInv, [Next]_vars PROVE IInv' OBVIOUS
<1>1. CASE \E next \in Operations : Start(next) BY <1>1, StartKeeps
<1>2. CASE Finally \/ FallBack \/ Done \/ EnterTry \/ Suspend
  BY <1>2, FinallyKeeps, FallBackKeeps, DoneKeeps, EnterTryKeeps, SuspendKeeps
<1>3. CASE \E rejects \in BOOLEAN : Resume(rejects) BY <1>3, ResumeKeeps
<1>4. CASE PassArgument \/ InvokeFreed BY <1>4, PassArgumentKeeps, InvokeFreedKeeps
<1>5. CASE \E grows, fails \in BOOLEAN : Invoke(grows, fails) BY <1>5, InvokeKeeps
<1>6. CASE TakeError \/ LeaveError \/ TakeBlock \/ Wrap \/ TakeView \/ TakeScalar
  BY <1>6, TakeErrorKeeps, LeaveErrorKeeps, TakeBlockKeeps, WrapKeeps, TakeViewKeeps, TakeScalarKeeps
<1>7. CASE DecodeView \/ ResidentLoop \/ EncodeInto
  BY <1>7, DecodeViewKeeps, ResidentLoopKeeps, EncodeIntoKeeps
<1>8. CASE FreeObject \/ Close \/ FreeTokenizer \/ Forget
  BY <1>8, FreeObjectKeeps, CloseKeeps, FreeTokenizerKeeps, ForgetKeeps
<1>9. CASE \E c \in Class : Collect(c) BY <1>9, CollectKeeps
<1>10. CASE UNCHANGED vars BY <1>10, StutterKeeps
<1> QED BY <1>1, <1>2, <1>3, <1>4, <1>5, <1>6, <1>7, <1>8, <1>9, <1>10 DEF Next

\* The invariant holds in every state of a session.
THEOREM Invariance == Spec => []IInv
BY InitInv, NextKeeps, PTL DEF Spec

\* No view is used once memory has grown or the tokenizer was called again, no
\* object is freed twice, and no freed object is called but by the SentencePiece
\* session's encodeDetailed: whatever calls a session makes, in whatever order,
\* whichever of them fail and whenever memory grows.
THEOREM MemoryIsSafe == Spec => []MemorySafe
<1>1. IInv => MemorySafe BY DEF IInv, MemorySafe
<1> QED BY <1>1, Invariance, PTL

\* Between turns nothing is held: no block, no slot and no object but the
\* tokenizer of the session and the reconciler of an encode on the pool, and
\* apart from the two losses the code has, whose number no bound limits here.
THEOREM NothingIsHeld == Spec => []NothingHeld
<1>1. IInv => NothingHeld
  <2> SUFFICES ASSUME IInv, op = "none" PROVE
        /\ blocks = abandoned /\ slots = left
        /\ "encoding" \notin allocated
        /\ "overlap" \in allocated <=> suspended.op = "encodeOnPool"
        /\ phase = "open" => "tokenizer" \in allocated
        /\ "tokenizer" \in allocated => pointer["tokenizer"] = "live" /\ "tokenizer" \in registered
    BY DEF NothingHeld
  <2>1. /\ passed = 0 /\ ~ResultBlock /\ ~ResultSlot /\ \A c : ~Pending(c)
        /\ \A c : Held(c) <=> (c = "overlap" /\ suspended.op = "encodeOnPool")
    BY BetweenTurns
  <2>2. blocks = abandoned /\ slots = left BY <2>1 DEF IInv, Types, Accounts
  <2>3. "encoding" \notin allocated /\ ("overlap" \in allocated <=> suspended.op = "encodeOnPool")
    BY <2>1 DEF IInv, Objects
  <2>4. /\ "tokenizer" \in registered => "tokenizer" \in allocated /\ pointer["tokenizer"] = "live"
        /\ "tokenizer" \in allocated => "tokenizer" \in registered
    BY <2>1 DEF IInv, Objects, Class
  <2>5. phase = "open" => "tokenizer" \in registered BY DEF IInv, Lifetime
  <2> QED BY <2>2, <2>3, <2>4, <2>5
<1> QED BY <1>1, Invariance, PTL

---------------------------------------------------------------------------
\* What Bytes, a fold, computes: by induction, with a least counterexample.

\* A set of natural numbers has a least member.
LEMMA LeastMember ==
    ASSUME NEW S \in SUBSET Nat, S # {}
    PROVE  \E m \in S : \A x \in S : m <= x
<1>1. PICK m \in S : \A x \in S : ~(<<x, m>> \in OpToRel(<, Nat))
  BY NatLessThanWellFounded, WFMin, Zenon
<1>2. ASSUME NEW x \in S PROVE m <= x
  <2>1. <<x, m>> \notin OpToRel(<, Nat)
    BY <1>1, Zenon
  <2>2. ~(x < m)
    BY <2>1 DEF OpToRel
  <2> QED
    BY <2>2
<1> QED
  BY <1>2

\* A set with 0 and with the successor of each member has every natural number.
LEMMA Induction ==
    ASSUME NEW S \in SUBSET Nat, 0 \in S, \A n \in S : n + 1 \in S
    PROVE  S = Nat
<1> SUFFICES ASSUME S # Nat PROVE FALSE
  OBVIOUS
<1>1. PICK n \in Nat \ S : \A m \in Nat \ S : n <= m
  BY LeastMember, Zenon
<1>2. n - 1 \in Nat /\ n - 1 \notin Nat \ S
  BY <1>1
<1> QED
  BY <1>1, <1>2

\* Its values when step[k] is applied for the k-th element, the last one first.
FoldsTo(g, n, base, step) ==
    \A r \in SUBSET (1 .. n) : g[r] = IF r = {} THEN base ELSE step[Max(r)][g[r \ {Max(r)}]]

\* The greatest of the first n numbers, and of some of them.
LEMMA Greatest ==
    ASSUME NEW n \in Nat \ {0}
    PROVE  /\ Max(1 .. n) = n /\ (1 .. n) \ {Max(1 .. n)} = 1 .. n - 1
           /\ \A r \in SUBSET (1 .. n) : n \in r => Max(r) = n /\ r \ {n} \in SUBSET (1 .. n - 1)
<1>1. ASSUME NEW r \in SUBSET (1 .. n), n \in r
      PROVE  Max(r) = n /\ r \ {n} \in SUBSET (1 .. n - 1)
  <2>1. n \in r /\ \A y \in r : n >= y
    BY <1>1
  <2>2. \A x \in r : (\A y \in r : x >= y) => x = n
    BY <1>1
  <2>3. Max(r) = n
    BY <2>1, <2>2, Zenon DEF Max
  <2> QED
    BY <1>1, <2>3
<1>2. 1 .. n \in SUBSET (1 .. n) /\ n \in 1 .. n /\ (1 .. n) \ {n} = 1 .. n - 1
  OBVIOUS
<1> QED
  BY <1>1, <1>2

\* A step for each element gives such a function.
LEMMA FoldExists ==
    ASSUME NEW State, NEW base \in State, NEW n \in Nat, NEW step \in [1 .. n -> [State -> State]]
    PROVE  \E g \in [SUBSET (1 .. n) -> State] : FoldsTo(g, n, base, step)
<1> DEFINE S == {m \in Nat : m <= n => \E g \in [SUBSET (1 .. m) -> State] : FoldsTo(g, m, base, step)}
<1>1. 0 \in S
  <2>1. 1 .. 0 = {}
    OBVIOUS
  <2>2. PICK g : g = [r \in SUBSET (1 .. 0) |-> base]
    BY Zenon
  <2>3. g \in [SUBSET (1 .. 0) -> State] /\ FoldsTo(g, 0, base, step)
    BY <2>1, <2>2 DEF FoldsTo
  <2> QED
    BY <2>3, Zenon
<1>2. ASSUME NEW m \in S PROVE m + 1 \in S
  <2> SUFFICES ASSUME m + 1 <= n
               PROVE  \E g \in [SUBSET (1 .. m + 1) -> State] : FoldsTo(g, m + 1, base, step)
    <3>1. m + 1 \in Nat
      BY <1>2
    <3> QED
      BY <3>1, Zenon
  <2>1. m \in Nat /\ m <= n /\ m + 1 \in 1 .. n /\ m + 1 \in Nat \ {0} /\ m + 1 - 1 = m
    OBVIOUS
  <2>2. PICK g \in [SUBSET (1 .. m) -> State] : FoldsTo(g, m, base, step)
    BY <2>1, Zenon
  <2>3. PICK h : h = [r \in SUBSET (1 .. m + 1) |-> IF m + 1 \in r THEN step[m + 1][g[r \ {m + 1}]] ELSE g[r]]
    BY Zenon
  <2>4. \A r \in SUBSET (1 .. m + 1) : m + 1 \in r => Max(r) = m + 1 /\ r \ {m + 1} \in SUBSET (1 .. m)
    BY <2>1, Greatest
  <2>5. \A r \in SUBSET (1 .. m + 1) : m + 1 \notin r => r \in SUBSET (1 .. m)
    BY <2>1
  <2>6. SUBSET (1 .. m) \subseteq SUBSET (1 .. m + 1)
    BY <2>1
  <2>7. step[m + 1] \in [State -> State]
    BY <2>1
  <2>8. \A r \in SUBSET (1 .. m + 1) : h[r] \in State
    BY <2>3, <2>4, <2>5, <2>7
  <2>9. h \in [SUBSET (1 .. m + 1) -> State]
    BY <2>3, <2>8
  <2>10. ASSUME NEW r \in SUBSET (1 .. m + 1)
         PROVE  h[r] = IF r = {} THEN base ELSE step[Max(r)][h[r \ {Max(r)}]]
    <3>1. CASE m + 1 \in r
      <4>1. Max(r) = m + 1 /\ r \ {m + 1} \in SUBSET (1 .. m) /\ r \ {m + 1} \in SUBSET (1 .. m + 1)
        BY <2>4, <2>6, <3>1
      <4>2. h[r \ {m + 1}] = g[r \ {m + 1}]
        BY <2>3, <4>1
      <4> QED
        BY <2>3, <3>1, <4>1, <4>2
    <3>2. CASE m + 1 \notin r
      <4>1. r \in SUBSET (1 .. m) /\ h[r] = g[r]
        BY <2>3, <2>5, <3>2
      <4>2. r \ {Max(r)} \in SUBSET (1 .. m) /\ r \ {Max(r)} \in SUBSET (1 .. m + 1) /\ m + 1 \notin r \ {Max(r)}
        BY <2>6, <3>2, <4>1, Zenon
      <4>3. h[r \ {Max(r)}] = g[r \ {Max(r)}]
        BY <2>3, <4>2
      <4> QED
        BY <2>2, <4>1, <4>3, Zenon DEF FoldsTo
    <3> QED
      BY <3>1, <3>2
  <2> QED
    BY <2>9, <2>10, Zenon DEF FoldsTo
<1>3. S = Nat
  <2> HIDE DEF S
  <2>1. S \in SUBSET Nat
    BY DEF S
  <2> QED
    BY <1>1, <1>2, <2>1, Induction
<1>4. n \in S
  <2> HIDE DEF S
  <2> QED
    BY <1>3
<1>5. n <= n
  OBVIOUS
<1> QED
  BY <1>4, <1>5, Zenon

\* The greatest of some numbers is one of them.
LEMMA GreatestIn ==
    ASSUME NEW n \in Nat, NEW r \in SUBSET (1 .. n), r # {}
    PROVE  Max(r) \in r
<1>1. PICK S \in SUBSET Nat : S = {n - x : x \in r}
  <2>1. \A x \in r : n - x \in Nat
    OBVIOUS
  <2> QED
    BY <2>1, Zenon
<1>2. S # {}
  BY <1>1, Zenon
<1>3. PICK m \in S : \A y \in S : m <= y
  BY <1>2, LeastMember
<1>4. PICK x \in r : m = n - x
  BY <1>1, <1>3
<1>5. \A y \in r : n - y \in S
  BY <1>1
<1>6. \A y \in r : x >= y
  BY <1>3, <1>4, <1>5
<1> QED
  BY <1>6, Zenon DEF Max

\* The first k numbers.
LEMMA FirstNumbers ==
    ASSUME NEW n \in Nat, NEW k \in 1 .. n
    PROVE  /\ 1 .. k \in SUBSET (1 .. n) /\ 1 .. k # {} /\ Max(1 .. k) = k /\ (1 .. k) \ {Max(1 .. k)} = 1 .. k - 1
           /\ 1 .. k - 1 \in SUBSET (1 .. n) /\ k - 1 \in 0 .. n /\ k \in 0 .. n
<1>1. k \in Nat \ {0}
  OBVIOUS
<1>2. Max(1 .. k) = k /\ (1 .. k) \ {Max(1 .. k)} = 1 .. k - 1
  BY <1>1, Greatest
<1>3. 1 .. k \in SUBSET (1 .. n) /\ k \in 1 .. k /\ 1 .. k - 1 \in SUBSET (1 .. n) /\ k - 1 \in 0 .. n /\ k \in 0 .. n
  OBVIOUS
<1> QED
  BY <1>2, <1>3

\* What holds of 0 and passes from each number below n to the next holds up to n.
LEMMA UpTo ==
    ASSUME NEW n \in Nat, NEW S, 0 \in S, \A k \in 0 .. n - 1 : k \in S => k + 1 \in S
    PROVE  0 .. n \subseteq S
<1>1. PICK T \in SUBSET Nat : T = {k \in Nat : k <= n => k \in S}
  BY Zenon
<1>2. 0 \in T /\ \A k \in T : k + 1 \in T
  <2>1. 0 \in T
    BY <1>1
  <2>2. ASSUME NEW k \in T PROVE k + 1 \in T
    <3>1. k + 1 \in Nat
      OBVIOUS
    <3>2. ASSUME k + 1 <= n PROVE k + 1 \in S
      <4>1. k \in 0 .. n - 1 /\ k <= n
        BY <3>2
      <4> QED
        BY <1>1, <4>1
    <3> QED
      BY <1>1, <3>1, <3>2
  <2> QED
    BY <2>1, <2>2
<1>3. T = Nat
  BY <1>2, Induction
<1> QED
  BY <1>1, <1>3

\* The bytes of the first k characters.
BytesUpTo(f, s) ==
    /\ f \in [0 .. Len(s) -> Nat]
    /\ f[0] = 0 /\ \A k \in 1 .. Len(s) : f[k] = f[k - 1] + s[k]
    /\ Bytes(s) = f[Len(s)]

\* Bytes adds one character after the other.
LEMMA BytesFold ==
    ASSUME NEW s \in Seq(Nat)
    PROVE  \E f : BytesUpTo(f, s)
<1>1. PICK n \in Nat : n = Len(s) /\ DOMAIN s = 1 .. n
  OBVIOUS
<1>2. \A k \in 1 .. n : s[k] \in Nat
  BY <1>1
<1>3. PICK step : step = [k \in 1 .. n |-> [m \in Nat |-> m + s[k]]]
  BY Zenon
<1>4. step \in [1 .. n -> [Nat -> Nat]]
  <2>1. \A k \in 1 .. n : \A m \in Nat : m + s[k] \in Nat
    BY <1>2
  <2> QED
    BY <1>3, <2>1, Zenon
<1>5. PICK g \in [SUBSET (1 .. n) -> Nat] : FoldsTo(g, n, 0, step)
  <2>1. 0 \in Nat
    OBVIOUS
  <2> QED
    BY <1>4, <2>1, FoldExists, Zenon
<1> DEFINE Fold(h) == h = [r \in SUBSET (1 .. n) |-> IF r = {} THEN 0 ELSE h[r \ {Max(r)}] + s[Max(r)]]
<1>6. \A r \in SUBSET (1 .. n) : r # {} => Max(r) \in 1 .. n /\ r \ {Max(r)} \in SUBSET (1 .. n)
  BY GreatestIn, Zenon
<1>7. Fold(g)
  <2>1. ASSUME NEW r \in SUBSET (1 .. n) PROVE g[r] = IF r = {} THEN 0 ELSE g[r \ {Max(r)}] + s[Max(r)]
    <3>1. CASE r = {}
      BY <1>5, <3>1, Zenon DEF FoldsTo
    <3>2. CASE r # {}
      <4>1. PICK k \in 1 .. n : k = Max(r)
        BY <1>6, <3>2
      <4>2. PICK m \in Nat : m = g[r \ {k}]
        BY <1>5, <1>6, <3>2, <4>1
      <4>3. step[k][m] = m + s[k]
        BY <1>3
      <4>4. g[r] = step[k][m]
        BY <1>5, <3>2, <4>1, <4>2, Zenon DEF FoldsTo
      <4> QED
        BY <3>2, <4>1, <4>2, <4>3, <4>4, Zenon
    <3> QED
      BY <3>1, <3>2
  <2> QED
    BY <1>5, <2>1, Zenon
<1>8. PICK it : it = CHOOSE h : Fold(h)
  BY Zenon
<1>9. Fold(it)
  BY <1>7, <1>8, Zenon
<1>10. Bytes(s) = it[1 .. n]
  BY <1>1, <1>6, <1>8 DEF Bytes, FoldLeft, MapThenFoldSet
<1>11. PICK f : f = [k \in 0 .. n |-> it[1 .. k]]
  BY Zenon
<1>12. f[0] = 0 /\ Bytes(s) = f[n]
  <2>1. 1 .. 0 = {} /\ {} \in SUBSET (1 .. n) /\ 0 \in 0 .. n /\ n \in 0 .. n
    OBVIOUS
  <2> QED
    BY <1>9, <1>10, <1>11, <2>1, Zenon
<1>13. ASSUME NEW k \in 1 .. n PROVE k \in 0 .. n /\ k - 1 \in 0 .. n /\ f[k] = f[k - 1] + s[k]
  <2>1. 1 .. k \in SUBSET (1 .. n) /\ 1 .. k # {} /\ Max(1 .. k) = k /\ (1 .. k) \ {Max(1 .. k)} = 1 .. k - 1
        /\ k - 1 \in 0 .. n /\ k \in 0 .. n
    BY FirstNumbers, Zenon
  <2>2. it[1 .. k] = it[(1 .. k) \ {Max(1 .. k)}] + s[Max(1 .. k)]
    BY <1>9, <2>1, Zenon
  <2> QED
    BY <1>11, <2>1, <2>2, Zenon
<1>14. f \in [0 .. n -> Nat]
  <2>1. PICK T : T = {k \in 0 .. n : f[k] \in Nat}
    BY Zenon
  <2>2. 0 \in T
    BY <1>12, <2>1
  <2>3. ASSUME NEW k \in 0 .. n - 1, k \in T PROVE k + 1 \in T
    <3>1. PICK l \in 1 .. n : l = k + 1 /\ l - 1 = k
      OBVIOUS
    <3>2. f[l] = f[k] + s[l] /\ l \in 0 .. n
      BY <1>13, <3>1
    <3>3. f[k] \in Nat /\ s[l] \in Nat
      BY <1>2, <2>1, <2>3
    <3> QED
      BY <2>1, <3>1, <3>2, <3>3
  <2>4. 0 .. n \subseteq T
    BY <2>2, <2>3, UpTo, Zenon
  <2> QED
    BY <1>11, <2>1, <2>4
<1> QED
  BY <1>1, <1>12, <1>13, <1>14, Zenon DEF BytesUpTo

\* What adds one number after the other ends with the bytes of all.
LEMMA BytesUnique ==
    ASSUME NEW s \in Seq(Nat), NEW g, g[0] = 0, \A k \in 1 .. Len(s) : g[k] = g[k - 1] + s[k]
    PROVE  Bytes(s) = g[Len(s)]
<1>1. PICK f : BytesUpTo(f, s)
  BY BytesFold
<1>2. PICK n \in Nat : n = Len(s)
  OBVIOUS
<1>3. f[0] = 0 /\ (\A k \in 1 .. n : f[k] = f[k - 1] + s[k]) /\ Bytes(s) = f[n]
  BY <1>1, <1>2 DEF BytesUpTo
<1>4. PICK T : T = {k \in 0 .. n : g[k] = f[k]}
  BY Zenon
<1>5. 0 \in T
  BY <1>3, <1>4
<1>6. ASSUME NEW k \in 0 .. n - 1, k \in T PROVE k + 1 \in T
  <2>1. PICK l \in 1 .. n : l = k + 1 /\ l - 1 = k /\ l \in 0 .. n
    OBVIOUS
  <2>2. f[l] = f[l - 1] + s[l] /\ g[l] = g[l - 1] + s[l]
    BY <1>2, <1>3
  <2>3. g[k] = f[k]
    BY <1>4, <1>6
  <2> QED
    BY <1>4, <2>1, <2>2, <2>3
<1>7. 0 .. n \subseteq T
  BY <1>5, <1>6, UpTo
<1>8. n \in 0 .. n
  OBVIOUS
<1> QED
  BY <1>2, <1>3, <1>4, <1>7, <1>8

\* A string's beginning, and its rest.
LEMMA Parts ==
    ASSUME NEW s \in Seq(Nat), NEW n \in 0 .. Len(s)
    PROVE  /\ SubSeq(s, 1, n) \in Seq(Nat) /\ Len(SubSeq(s, 1, n)) = n
           /\ \A k \in 1 .. n : SubSeq(s, 1, n)[k] = s[k]
           /\ SubSeq(s, n + 1, Len(s)) \in Seq(Nat) /\ Len(SubSeq(s, n + 1, Len(s))) = Len(s) - n
           /\ \A k \in 1 .. Len(s) - n : SubSeq(s, n + 1, Len(s))[k] = s[n + k]
<1>1. PICK l \in Nat : l = Len(s) /\ n \in Nat /\ n <= l /\ \A k \in 1 .. l : s[k] \in Nat
  OBVIOUS
<1>2. SubSeq(s, 1, n) \in Seq(Nat) /\ Len(SubSeq(s, 1, n)) = n /\ \A k \in 1 .. n : SubSeq(s, 1, n)[k] = s[k]
  <2>1. 1 \in Int /\ n \in Int /\ \A k \in 1 .. n : s[k] \in Nat
    BY <1>1
  <2>2. /\ SubSeq(s, 1, n) \in Seq(Nat)
        /\ Len(SubSeq(s, 1, n)) = IF 1 <= n THEN n - 1 + 1 ELSE 0
        /\ \A k \in 1 .. n - 1 + 1 : SubSeq(s, 1, n)[k] = s[1 + k - 1]
    BY <2>1, SubSeqProperties, SMT
  <2>3. (IF 1 <= n THEN n - 1 + 1 ELSE 0) = n /\ n - 1 + 1 = n /\ \A k \in 1 .. n : 1 + k - 1 = k
    BY <1>1
  <2> QED
    BY <2>2, <2>3, Zenon
<1>3. PICK m \in Nat : m = l - n
  <2>1. n \in Nat /\ n <= l
    BY <1>1
  <2>2. l - n \in Nat
    BY <2>1
  <2> QED
    BY <2>2, Zenon
<1>4. /\ SubSeq(s, n + 1, l) \in Seq(Nat) /\ Len(SubSeq(s, n + 1, l)) = m
      /\ \A k \in 1 .. m : SubSeq(s, n + 1, l)[k] = s[n + k]
  <2>1. n + 1 \in Int /\ l \in Int /\ \A k \in n + 1 .. l : s[k] \in Nat
    BY <1>1
  <2>2. /\ SubSeq(s, n + 1, l) \in Seq(Nat)
        /\ Len(SubSeq(s, n + 1, l)) = IF n + 1 <= l THEN l - (n + 1) + 1 ELSE 0
        /\ \A k \in 1 .. l - (n + 1) + 1 : SubSeq(s, n + 1, l)[k] = s[(n + 1) + k - 1]
    BY <2>1, SubSeqProperties, SMT
  <2>3. /\ (IF n + 1 <= l THEN l - (n + 1) + 1 ELSE 0) = m /\ l - (n + 1) + 1 = m
        /\ \A k \in 1 .. m : (n + 1) + k - 1 = n + k
    BY <1>1, <1>3
  <2> QED
    BY <2>2, <2>3, Zenon
<1> QED
  BY <1>1, <1>2, <1>3, <1>4, Zenon

\* The bytes of a string's beginning, and of its rest.
LEMMA BytesSplit ==
    ASSUME NEW s \in Seq(Nat)
    PROVE  \E f \in [0 .. Len(s) -> Nat] :
              /\ f[0] = 0 /\ Bytes(s) = f[Len(s)]
              /\ \A n \in 0 .. Len(s) :
                    Bytes(SubSeq(s, 1, n)) = f[n] /\ Bytes(SubSeq(s, n + 1, Len(s))) = f[Len(s)] - f[n]
<1>1. PICK f : BytesUpTo(f, s)
  BY BytesFold
<1>2. /\ f \in [0 .. Len(s) -> Nat] /\ f[0] = 0 /\ Bytes(s) = f[Len(s)]
      /\ \A k \in 1 .. Len(s) : f[k] = f[k - 1] + s[k]
  BY <1>1 DEF BytesUpTo
<1>3. ASSUME NEW n \in 0 .. Len(s)
      PROVE  Bytes(SubSeq(s, 1, n)) = f[n] /\ Bytes(SubSeq(s, n + 1, Len(s))) = f[Len(s)] - f[n]
  <2>1. PICK l \in Nat, m \in Nat : l = Len(s) /\ m = l - n /\ n \in Nat /\ n <= l
    BY <1>3
  <2>2. PICK t \in Seq(Nat) : t = SubSeq(s, 1, n) /\ Len(t) = n /\ \A k \in 1 .. n : t[k] = s[k]
    BY Parts, Zenon
  <2>3. PICK u \in Seq(Nat) : u = SubSeq(s, n + 1, Len(s)) /\ Len(u) = m /\ \A k \in 1 .. m : u[k] = s[n + k]
    BY <2>1, Parts, Zenon
  <2>4. Bytes(t) = f[n]
    <3>1. \A k \in 1 .. Len(t) : f[k] = f[k - 1] + t[k]
      BY <1>2, <2>1, <2>2
    <3> QED
      BY <1>2, <2>2, <3>1, BytesUnique
  <2>5. Bytes(u) = f[l] - f[n]
    <3>1. PICK g : g = [k \in 0 .. m |-> f[n + k] - f[n]]
      BY Zenon
    <3>2. \A k \in 0 .. m : n + k \in 0 .. l /\ f[n + k] \in Nat /\ f[n] \in Nat
      <4>1. n \in 0 .. l /\ \A k \in 0 .. m : n + k \in 0 .. l
        BY <2>1
      <4> QED
        BY <1>2, <2>1, <4>1
    <3>3. ASSUME NEW k \in 1 .. m PROVE g[k] = g[k - 1] + u[k]
      <4>1. n + k \in 1 .. l /\ (n + k) - 1 = n + (k - 1) /\ k \in 0 .. m /\ k - 1 \in 0 .. m
        BY <2>1
      <4>2. f[n + k] = f[n + (k - 1)] + s[n + k]
        BY <1>2, <2>1, <4>1
      <4>3. g[k] = f[n + k] - f[n] /\ g[k - 1] = f[n + (k - 1)] - f[n]
        BY <3>1, <4>1
      <4>4. u[k] = s[n + k] /\ u[k] \in Nat
        BY <2>3
      <4>5. PICK a \in Nat, b \in Nat, c \in Nat : a = f[n + (k - 1)] /\ b = f[n] /\ c = u[k]
        BY <3>2, <4>1, <4>4
      <4>6. (a + c) - b = (a - b) + c
        OBVIOUS
      <4> QED
        BY <4>2, <4>3, <4>4, <4>5, <4>6
    <3>4. g[0] = 0
      <4>1. 0 \in 0 .. m /\ n + 0 = n
        BY <2>1
      <4>2. g[0] = f[n] - f[n] /\ f[n] \in Nat
        BY <3>1, <3>2, <4>1
      <4> QED
        BY <4>2
    <3>5. g[m] = f[l] - f[n]
      BY <2>1, <3>1
    <3> QED
      BY <2>3, <3>3, <3>4, <3>5, BytesUnique
  <2> QED
    BY <2>1, <2>2, <2>3, <2>4, <2>5
<1> QED
  BY <1>2, <1>3

\* encodeInto reads what fits, and what it reads and leaves is the string.
LEMMA FittingFits ==
    ASSUME NEW s \in Seq(Nat), NEW room \in Nat
    PROVE  /\ Bytes(s) \in Nat
           /\ \E read \in 0 .. Len(s) : \E bytes \in Nat : \E rest \in Nat :
                 /\ read = Fitting(s, room) /\ bytes = Bytes(SubSeq(s, 1, read)) /\ bytes <= room
                 /\ rest = Bytes(SubSeq(s, read + 1, Len(s))) /\ bytes + rest = Bytes(s)
                 /\ read = Len(s) => bytes = Bytes(s)
<1>1. PICK f \in [0 .. Len(s) -> Nat] :
         /\ f[0] = 0 /\ Bytes(s) = f[Len(s)]
         /\ \A n \in 0 .. Len(s) :
               Bytes(SubSeq(s, 1, n)) = f[n] /\ Bytes(SubSeq(s, n + 1, Len(s))) = f[Len(s)] - f[n]
  BY BytesSplit
<1>2. PICK l \in Nat : l = Len(s)
  OBVIOUS
<1> DEFINE Fits1(n) == f[n] <= room /\ (n < l => f[n + 1] > room)
<1>3. \E n \in 0 .. l : Fits1(n)
  <2>1. PICK S \in SUBSET Nat : S = {n \in 0 .. l : f[n] > room}
    OBVIOUS
  <2>2. CASE S = {}
    <3>1. \A n \in 0 .. l : f[n] <= room
      <4>1. \A n \in 0 .. l : f[n] \in Nat /\ ~(f[n] > room)
        BY <1>1, <1>2, <2>1, <2>2
      <4> QED
        BY <4>1
    <3>2. l \in 0 .. l /\ ~(l < l)
      OBVIOUS
    <3> QED
      BY <3>1, <3>2
  <2>3. CASE S # {}
    <3>1. PICK m \in S : \A x \in S : m <= x
      BY <2>3, LeastMember
    <3>2. m # 0 /\ m \in 0 .. l /\ f[m] > room
      BY <1>1, <2>1, <3>1
    <3>3. PICK n \in 0 .. l : n = m - 1 /\ n + 1 = m /\ n \notin S
      BY <3>1, <3>2
    <3>4. f[n] \in Nat
      BY <1>1, <1>2
    <3>5. f[n] <= room
      BY <2>1, <3>3, <3>4
    <3> QED
      BY <3>2, <3>3, <3>5
  <2> QED
    BY <2>2, <2>3
<1>4. PICK read : read = Fitting(s, room)
  OBVIOUS
<1>5. read \in 0 .. l /\ f[read] <= room
  <2>1. \A n \in 0 .. l : Bytes(SubSeq(s, 1, n)) = f[n]
    BY <1>1, <1>2
  <2>2. \A n \in 0 .. l : n < l => Bytes(SubSeq(s, 1, n + 1)) = f[n + 1]
    <3>1. \A n \in 0 .. l : n < l => n + 1 \in 0 .. l
      OBVIOUS
    <3> QED
      BY <2>1, <3>1
  <2>3. PICK P : P = {n \in 0 .. l : Bytes(SubSeq(s, 1, n)) <= room /\ (n < l => Bytes(SubSeq(s, 1, n + 1)) > room)}
    BY Zenon
  <2>4. \E n \in 0 .. l : Bytes(SubSeq(s, 1, n)) <= room /\ (n < l => Bytes(SubSeq(s, 1, n + 1)) > room)
    BY <1>3, <2>1, <2>2
  <2>5. read \in 0 .. l /\ Bytes(SubSeq(s, 1, read)) <= room
    BY <1>2, <1>4, <2>4, Zenon DEF Fitting
  <2> QED
    BY <2>1, <2>5
<1>6. PICK a \in Nat, b \in Nat : a = f[read] /\ b = f[l]
  <2>1. l \in 0 .. l /\ read \in 0 .. l
    BY <1>5
  <2>2. f[read] \in Nat /\ f[l] \in Nat
    BY <1>1, <1>2, <2>1
  <2> QED
    BY <2>2, Zenon
<1>7. Bytes(s) = b /\ Bytes(SubSeq(s, 1, read)) = a /\ Bytes(SubSeq(s, read + 1, Len(s))) = b - a
  BY <1>1, <1>2, <1>5, <1>6
<1>8. b - a \in Nat
  <2>1. PICK t \in Seq(Nat) : t = SubSeq(s, read + 1, Len(s))
    BY <1>2, <1>5, Parts, Zenon
  <2>2. PICK g \in [0 .. Len(t) -> Nat] : Bytes(t) = g[Len(t)]
    BY BytesSplit, Zenon
  <2>3. Len(t) \in 0 .. Len(t)
    OBVIOUS
  <2>4. Bytes(t) \in Nat
    BY <2>2, <2>3
  <2> QED
    BY <1>7, <2>1, <2>4, Zenon
<1>9. a + (b - a) = b /\ (read = l => a = b)
  BY <1>6
<1> QED
  BY <1>2, <1>4, <1>5, <1>6, <1>7, <1>8, <1>9

---------------------------------------------------------------------------
\* The resident buffer

\* What encodeResidentString has left to do, at any step.
Encode == Call("tokenizer", "encodeResidentInput")
View   == Call("tokenizer", "residentInputView")
Enlarge == Call("tokenizer", "growResidentInput")
Filling == {<<Loop>>, <<View, Fill>>, <<Fill>>, <<Enlarge, Loop>>}

\* What is written and what remains make up the string, until all of it is written.
Buffer ==
    /\ capacity \in Nat /\ ShrinkBoundBytes \in Nat
    /\ op = "encodeString" =>
          /\ cleanup = <<>> /\ todo \in Filling \union {<<Encode>>, <<>>}
          /\ input \in Seq(Nat) /\ remaining \in Seq(Nat) /\ written \in Nat
          /\ todo \in Filling =>
                written <= capacity /\ Bytes(remaining) \in Nat /\ written + Bytes(remaining) = Bytes(input)
          /\ todo = <<Encode>> /\ returned = "nothing" => written = Bytes(input) /\ written <= capacity

\* How these steps differ.
LEMMA FillingSteps ==
    ASSUME NEW t, t \in Filling \union {<<Encode>>}
    PROVE  /\ t # <<>> /\ Head(t).do \in {"loop", "encodeInto", "call"}
           /\ Head(t).do = "loop" => t = <<Loop>>
           /\ Head(t).do = "encodeInto" => t = <<Fill>>
           /\ Head(t).do = "call" => t \in {<<View, Fill>>, <<Enlarge, Loop>>, <<Encode>>}
           /\ Head(t).method = "encodeResidentInput" <=> t = <<Encode>>
           /\ t \in Filling => t # <<Encode>>
           /\ t \in {<<View, Fill>>, <<Enlarge, Loop>>} => Tail(t) \in {<<Loop>>, <<Fill>>}
           /\ t = <<Encode>> => Tail(t) = <<>>
<1>1. CASE t = <<Loop>>
  BY <1>1 DEF Filling, Encode, View, Enlarge, Loop, Fill, Call, Other
<1>2. CASE t = <<View, Fill>>
  BY <1>2 DEF Filling, Encode, View, Enlarge, Loop, Fill, Call, Other
<1>3. CASE t = <<Fill>>
  BY <1>3 DEF Filling, Encode, View, Enlarge, Loop, Fill, Call, Other
<1>4. CASE t = <<Enlarge, Loop>>
  BY <1>4 DEF Filling, Encode, View, Enlarge, Loop, Fill, Call, Other
<1>5. CASE t = <<Encode>>
  BY <1>5 DEF Filling, Encode, View, Enlarge, Loop, Fill, Call, Other
<1> QED
  BY <1>1, <1>2, <1>3, <1>4, <1>5 DEF Filling

\* Among the operations only encodeString is the loop.
LEMMA StringLoops ==
    ASSUME Types, NEW next, next \in Operations, next.op = "encodeString"
    PROVE  next.steps = <<Loop>>
<1>1. CASE session.kind = "bpe"
  BY <1>1 DEF Operations, BpeOperations
<1>2. CASE session.kind = "sentencepiece"
  BY <1>2 DEF Operations, SentencePieceOperations
<1>3. CASE session.kind = "transferred"
  BY <1>3 DEF Operations, TransferredOperations
<1> QED
  BY <1>1, <1>2, <1>3 DEF Types, Kinds

\* A step that leaves the buffer and the function alone, or ends what the function does.
LEMMA BufferStands ==
    ASSUME Buffer, capacity' = capacity, returned' = returned \/ returned' # "nothing" \/ todo' # <<Encode>>,
           UNCHANGED <<input, remaining, written>>,
           \/ UNCHANGED <<op, todo, cleanup>>
           \/ op' # "encodeString"
           \/ op' = op /\ cleanup' = <<>> /\ todo' = <<>>
    PROVE  Buffer'
<1>1. CASE op' # "encodeString"
  BY <1>1 DEF Buffer
<1>2. CASE UNCHANGED <<op, todo, cleanup>> /\ op = "encodeString"
  BY <1>2 DEF Buffer
<1>3. CASE op' = op /\ op = "encodeString" /\ cleanup' = <<>> /\ todo' = <<>>
  <2>1. \A t \in Filling : t # <<>>
    BY FillingSteps
  <2> QED
    BY <1>3, <2>1 DEF Buffer
<1> QED
  BY <1>1, <1>2, <1>3

\* encodeResidentString begins.
LEMMA StartBuffer ==
    ASSUME Types, Buffer, NEW next, Start(next)
    PROVE  Buffer'
<1>1. /\ next \in Operations /\ op' = next.op /\ todo' = next.steps /\ cleanup' = <<>>
      /\ input' \in IF next.op = "encodeString" THEN Texts ELSE {<<>>}
      /\ remaining' = input' /\ written' = 0 /\ capacity' = capacity
  BY DEF Start
<1>2. CASE op' = "encodeString"
  <2>1. todo' = <<Loop>> /\ input' \in Texts
    BY <1>1, <1>2, StringLoops
  <2>2. PICK text \in Seq(Nat) : text = input'
    <3>1. \A text \in Seq(1 .. 4) : text \in Seq(Nat)
      OBVIOUS
    <3> QED
      BY <2>1, <3>1, TextAssumption
  <2>3. Bytes(text) \in Nat
    BY FittingFits
  <2>4. <<Loop>> \in Filling /\ <<Loop>> # <<Encode>>
    BY FillingSteps DEF Filling
  <2>5. capacity' \in Nat /\ 0 <= capacity'
    BY <1>1 DEF Buffer
  <2> QED
    BY <1>1, <2>1, <2>2, <2>3, <2>4, <2>5 DEF Buffer
<1>3. CASE op' # "encodeString"
  BY <1>1, <1>3 DEF Buffer
<1> QED
  BY <1>2, <1>3

\* The call grows the buffer, or shrinks it when the string has been encoded.
LEMMA InvokeBuffer ==
    ASSUME Buffer, NEW grows \in BOOLEAN, NEW fails \in BOOLEAN, Invoke(grows, fails)
    PROVE  Buffer'
<1>1. /\ op' = op /\ todo' = todo /\ cleanup' = cleanup /\ returned' # "nothing"
      /\ input' = input /\ remaining' = remaining /\ written' = written
      /\ fails => capacity' = capacity
      /\ ~fails => Effect(Head(todo).method)
  BY DEF Invoke, stack
<1>2. /\ capacity' \in Nat /\ (Head(todo).method # "encodeResidentInput" => capacity' >= capacity)
  <2>1. CASE fails
    BY <1>1, <2>1 DEF Buffer
  <2>2. CASE ~fails /\ Head(todo).method = "growResidentInput"
    BY <1>1, <2>2 DEF Buffer, Effect
  <2>3. CASE ~fails /\ Head(todo).method = "encodeResidentInput"
    <3>1. capacity' = ShrinkBoundBytes \/ capacity' = capacity
      BY <1>1, <2>3 DEF Effect
    <3> QED
      BY <2>3, <3>1 DEF Buffer
  <2>4. CASE ~fails /\ Head(todo).method \notin {"growResidentInput", "encodeResidentInput"}
    BY <1>1, <2>4 DEF Buffer, Effect
  <2> QED
    BY <2>1, <2>2, <2>3, <2>4
<1>3. CASE op = "encodeString" /\ todo \in Filling
  <2>1. Head(todo).method # "encodeResidentInput"
    BY <1>3, FillingSteps
  <2>2. written <= capacity'
    BY <1>2, <1>3, <2>1 DEF Buffer
  <2> QED
    BY <1>1, <1>2, <1>3, <2>2 DEF Buffer
<1>4. CASE op # "encodeString" \/ todo \notin Filling
  BY <1>1, <1>2, <1>4 DEF Buffer
<1> QED
  BY <1>3, <1>4

\* A call has returned.
LEMMA ReturnBuffer ==
    ASSUME Buffer, Step(Calls), Return, returned' = "nothing",
           UNCHANGED <<input, remaining, written, capacity>>
    PROVE  Buffer'
<1>1. op' = op /\ cleanup' = cleanup /\ todo' = Tail(todo) /\ todo # <<>> /\ Head(todo).do \in Calls
  BY DEF Return, Step
<1>2. CASE op # "encodeString"
  BY <1>1, <1>2 DEF Buffer
<1>3. CASE op = "encodeString"
  <2>1. todo \in {<<View, Fill>>, <<Enlarge, Loop>>, <<Encode>>}
    BY <1>1, <1>3, FillingSteps DEF Buffer, Calls
  <2>2. CASE todo = <<Encode>>
    <3>1. todo' = <<>> /\ <<>> \notin Filling /\ <<>> # <<Encode>>
      BY <1>1, <2>2, FillingSteps
    <3> QED
      BY <1>1, <1>3, <3>1 DEF Buffer
  <2>3. CASE todo \in {<<View, Fill>>, <<Enlarge, Loop>>}
    <3>1. todo \in Filling /\ todo' \in {<<Loop>>, <<Fill>>} /\ todo' \in Filling
      BY <1>1, <2>3, FillingSteps DEF Filling
    <3>2. todo' # <<Encode>>
      BY <3>1, FillingSteps
    <3> QED
      BY <1>1, <1>3, <3>1, <3>2 DEF Buffer
  <2> QED
    BY <2>1, <2>2, <2>3
<1> QED
  BY <1>2, <1>3

\* The loop asks for the view, or has nothing left to write.
LEMMA LoopBuffer == Buffer /\ ResidentLoop => Buffer'
<1> SUFFICES ASSUME Buffer, ResidentLoop PROVE Buffer'
  OBVIOUS
<1>1. /\ todo # <<>> /\ Head(todo).do = "loop"
      /\ todo' = IF remaining = <<>> THEN <<Encode>> ELSE <<View, Fill>>
      /\ UNCHANGED <<op, cleanup, returned, input, remaining, written, capacity>>
  BY DEF ResidentLoop, Step, Encode, View, call, resident
<1>2. CASE op # "encodeString"
  BY <1>1, <1>2 DEF Buffer
<1>3. CASE op = "encodeString"
  <2>1. todo = <<Loop>> /\ todo \in Filling
    BY <1>1, <1>3, FillingSteps DEF Buffer, Filling
  <2>2. CASE remaining = <<>>
    <3>1. todo' = <<Encode>> /\ <<Encode>> \notin Filling
      BY <1>1, <2>2, FillingSteps
    <3>2. PICK f : BytesUpTo(f, remaining)
      BY <1>3, BytesFold DEF Buffer
    <3>3. Bytes(remaining) = 0
      BY <2>2, <3>2 DEF BytesUpTo
    <3>4. PICK n : n = Bytes(input)
      BY Zenon
    <3>5. written \in Nat /\ written <= capacity /\ written + 0 = n
      BY <1>3, <2>1, <3>3, <3>4 DEF Buffer
    <3>6. written = n
      BY <3>5
    <3> QED
      BY <1>1, <1>3, <2>1, <3>1, <3>4, <3>5, <3>6 DEF Buffer
  <2>3. CASE remaining # <<>>
    <3>1. todo' \in Filling /\ todo' # <<Encode>>
      BY <1>1, <2>3, FillingSteps DEF Filling
    <3> QED
      BY <1>1, <1>3, <2>1, <3>1 DEF Buffer
  <2> QED
    BY <2>2, <2>3
<1> QED
  BY <1>2, <1>3

\* encodeInto writes what fits, and asks for more room if that is not all.
LEMMA FillBuffer == Buffer /\ EncodeInto => Buffer'
<1> SUFFICES ASSUME Buffer, EncodeInto PROVE Buffer'
  OBVIOUS
<1>1. PICK read, bytes : read = Fitting(remaining, capacity - written) /\ bytes = Bytes(SubSeq(remaining, 1, read))
  BY Zenon
<1>2. /\ todo # <<>> /\ Head(todo).do = "encodeInto" /\ written' = written + bytes
      /\ read = Len(remaining) => todo' = <<Encode>> /\ remaining' = remaining
      /\ read # Len(remaining) => todo' = <<Enlarge, Loop>> /\ remaining' = SubSeq(remaining, read + 1, Len(remaining))
      /\ UNCHANGED <<op, cleanup, returned, input, capacity>>
  BY <1>1, Zenon DEF EncodeInto, Step, Encode, Enlarge, Rest, call
<1>3. CASE op # "encodeString"
  BY <1>2, <1>3 DEF Buffer
<1>4. CASE op = "encodeString"
  <2>1. todo \in Filling
    <3>1. todo \in Filling \union {<<Encode>>}
      BY <1>2, <1>4 DEF Buffer
    <3>2. todo = <<Fill>>
      BY <1>2, <3>1, FillingSteps
    <3> QED
      BY <3>2 DEF Filling
  <2>2. /\ written \in Nat /\ capacity \in Nat /\ written <= capacity /\ remaining \in Seq(Nat)
        /\ Bytes(remaining) \in Nat /\ written + Bytes(remaining) = Bytes(input)
    BY <1>4, <2>1 DEF Buffer
  <2>3. PICK text \in Seq(Nat), room \in Nat : text = remaining /\ room = capacity - written
    BY <2>2
  <2>4. /\ read \in 0 .. Len(text) /\ bytes \in Nat /\ bytes <= room
        /\ Bytes(SubSeq(text, read + 1, Len(text))) \in Nat
        /\ bytes + Bytes(SubSeq(text, read + 1, Len(text))) = Bytes(text)
        /\ read = Len(text) => bytes = Bytes(text)
    <3>1. /\ Bytes(text) \in Nat
          /\ \E r \in 0 .. Len(text) : \E b \in Nat : \E rest \in Nat :
                /\ r = Fitting(text, room) /\ b = Bytes(SubSeq(text, 1, r)) /\ b <= room
                /\ rest = Bytes(SubSeq(text, r + 1, Len(text))) /\ b + rest = Bytes(text)
                /\ r = Len(text) => b = Bytes(text)
      BY FittingFits, Zenon
    <3> QED
      BY <1>1, <2>3, <3>1, Zenon
  <2>5. written' \in Nat /\ written' <= capacity
    BY <1>2, <2>2, <2>3, <2>4
  <2>6. CASE read = Len(text)
    <3>1. todo' = <<Encode>> /\ <<Encode>> \notin Filling /\ remaining' \in Seq(Nat)
      BY <1>2, <2>2, <2>3, <2>6, FillingSteps
    <3>2. written' = Bytes(input)
      BY <1>2, <2>2, <2>3, <2>4, <2>6
    <3> QED
      BY <1>2, <1>4, <2>5, <3>1, <3>2 DEF Buffer
  <2>7. CASE read # Len(text)
    <3>1. todo' = <<Enlarge, Loop>> /\ todo' \in Filling /\ todo' # <<Encode>>
      BY <1>2, <2>3, <2>7, FillingSteps DEF Filling
    <3>2. PICK rest \in Seq(Nat) : rest = SubSeq(text, read + 1, Len(text)) /\ rest = remaining'
      BY <1>2, <2>3, <2>4, <2>7, Parts, Zenon
    <3>3. Bytes(rest) \in Nat /\ written' + Bytes(rest) = Bytes(input)
      BY <1>2, <2>2, <2>3, <2>4, <3>2
    <3> QED
      BY <1>2, <1>4, <2>5, <3>1, <3>2, <3>3 DEF Buffer
  <2> QED
    BY <2>6, <2>7
<1> QED
  BY <1>3, <1>4

\* No other step reaches the buffer.
LEMMA BufferKept == IInv /\ Buffer /\ [Next]_vars => Buffer'
<1> SUFFICES ASSUME IInv, Buffer, [Next]_vars PROVE Buffer'
  OBVIOUS
<1>1. ASSUME NEW next \in Operations, Start(next) PROVE Buffer'
  BY <1>1, StartBuffer DEF IInv
<1>2. ASSUME NEW grows \in BOOLEAN, NEW fails \in BOOLEAN, Invoke(grows, fails) PROVE Buffer'
  BY <1>2, InvokeBuffer
<1>3. CASE ResidentLoop
  BY <1>3, LoopBuffer
<1>4. CASE EncodeInto
  BY <1>4, FillBuffer
<1>5. CASE TakeBlock \/ Wrap \/ TakeView \/ TakeScalar
  <2>1. Step(Calls) /\ Return /\ returned' = "nothing" /\ UNCHANGED <<input, remaining, written, capacity>>
    BY <1>5 DEF TakeBlock, Wrap, TakeView, TakeScalar, Returned, resident
  <2> QED
    BY <2>1, ReturnBuffer
<1>6. op = "encodeString" /\ todo # <<>> => /\ Head(todo).do \in {"loop", "encodeInto", "call"}
                                            /\ cleanup = <<>> 
  BY FillingSteps DEF Buffer
<1>7. op = "encodeString" => cleanup = <<>>
  BY DEF Buffer
<1>8. CASE Finally \/ FallBack \/ Done \/ EnterTry \/ Suspend \/ LeaveError \/ DecodeView \/ FreeObject
  <2>1. UNCHANGED <<input, remaining, written, capacity>> /\ (op' # "encodeString")
    BY <1>6, <1>7, <1>8 DEF Finally, FallBack, Done, EnterTry, Suspend, LeaveError, DecodeView, FreeObject, Return, Step, resident
  <2> QED
    BY <2>1 DEF Buffer
<1>9. CASE PassArgument \/ Close \/ Forget \/ (\E c \in Class : Collect(c)) \/ UNCHANGED vars
  <2>1. UNCHANGED <<op, todo, cleanup, returned, input, remaining, written, capacity>>
    BY <1>9 DEF PassArgument, Close, Forget, Collect, vars, stack, call, resident
  <2> QED
    BY <2>1, BufferStands
<1>10. CASE FreeTokenizer
  BY <1>10 DEF FreeTokenizer, Buffer, resident
<1>11. ASSUME NEW rejects \in BOOLEAN, Resume(rejects) PROVE Buffer'
  <2>1. op' # "encodeString" /\ UNCHANGED <<input, remaining, written, capacity>>
    BY <1>11 DEF Resume, IInv, Types, resident
  <2> QED
    BY <2>1 DEF Buffer
<1>12. CASE InvokeFreed \/ TakeError
  <2>1. /\ op' = op /\ UNCHANGED <<input, remaining, written, capacity>>
        /\ \/ todo' = cleanup /\ cleanup' = <<>>
           \/ todo' = <<>> /\ cleanup' = cleanup
    BY <1>12 DEF InvokeFreed, TakeError, Throw, resident
  <2>2. CASE op = "encodeString"
    <3>1. todo' = <<>> /\ cleanup' = <<>>
      BY <1>7, <2>1, <2>2
    <3>2. op' = op /\ UNCHANGED <<input, remaining, written, capacity>> /\ todo' # <<Encode>>
      BY <2>1, <3>1
    <3>3. /\ capacity' = capacity /\ UNCHANGED <<input, remaining, written>>
          /\ returned' = returned \/ returned' # "nothing" \/ todo' # <<Encode>>
          /\ \/ UNCHANGED <<op, todo, cleanup>>
             \/ op' # "encodeString"
             \/ op' = op /\ cleanup' = <<>> /\ todo' = <<>>
      BY <3>1, <3>2
    <3> QED
      BY <3>3, BufferStands
  <2>3. CASE op # "encodeString"
    BY <2>1, <2>3 DEF Buffer
  <2> QED
    BY <2>2, <2>3
<1> QED
  BY <1>1, <1>2, <1>3, <1>4, <1>5, <1>8, <1>9, <1>10, <1>11, <1>12 DEF Next

\* What encodeResidentInput is told to encode is the whole of the string, however often the
\* buffer had to grow for it or was shrunk by an earlier call (encodeResidentString,
\* ResidentInput.grow and .finish_call).
THEOREM ResidentIsExact == Spec => []ResidentExact
<1>1. Init => Buffer
  BY ResidentAssumption DEF Init, Buffer
<1>2. Buffer => ResidentExact
  <2> SUFFICES ASSUME Buffer, op = "encodeString", todo # <<>>, Head(todo).method = "encodeResidentInput",
                      returned = "nothing"
               PROVE  written = Bytes(input) /\ written <= capacity
    BY DEF ResidentExact
  <2>1. todo = <<Encode>>
    BY FillingSteps DEF Buffer
  <2> QED
    BY <2>1 DEF Buffer
<1> QED
  BY <1>1, <1>2, BufferKept, InitInv, NextKeeps, Invariance, PTL DEF Spec
===============================================================================
