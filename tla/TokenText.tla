------------------------------- MODULE TokenText -------------------------------
(***************************************************************************)
(* The bytes of tokens and the text they spell.  A byte is known by its    *)
(* role in UTF-8; a code point by the bytes that encode it, and U+FFFD by  *)
(* no bytes at all.                                                        *)
(***************************************************************************)
EXTENDS Integers, Sequences, SequencesExt

Ascii        == {"a"}
Lead         == {"C3", "EF"}
Continuation == {"BB", "BF"}
Byte         == Ascii \union Lead \union Continuation

\* How many bytes a code point has whose first byte is b.
Size(b) == CASE b \in Ascii -> 1 [] b = "C3" -> 2 [] b = "EF" -> 3 [] OTHER -> 4

Replacement == <<>>
BOM         == <<"EF", "BB", "BF">>
Separator   == <<"EF", "BF", "BF">>     \* U+FFFF, DIRTY_BATCH_SEPARATOR_TEXT

(***************************************************************************)
(* TextDecoder("utf-8", { ignoreBOM: true }) and from_utf8_lossy: what is  *)
(* not UTF-8 becomes one U+FFFD per longest prefix of a code point.        *)
(***************************************************************************)
LossyStep(state, b) ==
    LET extended == Append(state.pending, b)
        text     == IF state.pending = <<>> THEN state.text ELSE Append(state.text, Replacement)
    IN  IF state.pending # <<>> /\ b \in Continuation
        THEN IF Len(extended) = Size(state.pending[1])
             THEN [text |-> Append(state.text, extended), pending |-> <<>>]
             ELSE [text |-> state.text, pending |-> extended]
        ELSE CASE b \in Lead         -> [text |-> text, pending |-> <<b>>]
               [] b \in Continuation -> [text |-> Append(text, Replacement), pending |-> <<>>]
               [] b \in Ascii        -> [text |-> Append(text, <<b>>), pending |-> <<>>]

Lossy(bytes) ==
    LET end == FoldLeft(LossyStep, [text |-> <<>>, pending |-> <<>>], bytes)
    IN  IF end.pending = <<>> THEN end.text ELSE Append(end.text, Replacement)

(***************************************************************************)
(* isValidUtf8 and decodeValidUtf8                                         *)
(***************************************************************************)
\* The index after the code point at i; 0 when the bytes at i are none.
AfterCodePoint(bytes, i) ==
    IF bytes[i] \in Continuation THEN 0
    ELSE LET end == i + Size(bytes[i]) - 1
         IN  IF end <= Len(bytes) /\ \A k \in i + 1 .. end : bytes[k] \in Continuation
             THEN end + 1 ELSE 0

IsValidUtf8(bytes) ==
    LET valid[i \in 1 .. Len(bytes) + 1] ==
            \/ i = Len(bytes) + 1
            \/ AfterCodePoint(bytes, i) # 0 /\ valid[AfterCodePoint(bytes, i)]
    IN  valid[1]

\* The text of valid bytes: each first byte takes as many as it announces.
DecodeValidUtf8(bytes) ==
    LET text[i \in 1 .. Len(bytes) + 4] ==
            IF i > Len(bytes) THEN <<>>
            ELSE <<SubSeq(bytes, i, i + Size(bytes[i]) - 1)>> \o text[i + Size(bytes[i])]
    IN  text[1]

\* bytes.includes(part)
Includes(bytes, part) ==
    \E i \in 1 .. Len(bytes) - Len(part) + 1 : SubSeq(bytes, i, i + Len(part) - 1) = part

\* The pieces of a text between the occurrences of a code point (String.split).
Split(text, codePoint) ==
    FoldLeft(LAMBDA pieces, c : IF c = codePoint THEN Append(pieces, <<>>)
                                ELSE [pieces EXCEPT ![Len(pieces)] = Append(@, c)],
             <<<<>>>>, text)

\* Sequences joined with one between each two (Array.join).
Join(parts, between) ==
    FoldLeft(LAMBDA joined, i : joined \o (IF i = 1 THEN <<>> ELSE between) \o parts[i],
             <<>>, [i \in 1 .. Len(parts) |-> i])
=============================================================================
