------------------------------ MODULE TextField ------------------------------
(***************************************************************************)
(* The editable fields of the terminal interface (src/ui/input.rs).  A     *)
(* field holds UTF-8 bytes: a character is the sequence of its bytes, the  *)
(* cursor is a byte offset, and every operation that names a character     *)
(* finds its bytes by looking for continuation bytes.                      *)
(***************************************************************************)
EXTENDS Naturals, Sequences, FiniteSets, SequencesExt, FiniteSetsExt

CONSTANTS
    Key,        \* the characters a key can produce, as UTF-8 byte sequences
    Unsafe,     \* those is_unsafe_display_char refuses
    MaxBytes    \* max_bytes of the field

ASSUME FieldAssumption == Unsafe \subseteq Key /\ MaxBytes \in Nat

Letter == Key \ Unsafe

----------------------------------------------------------------------------
(* UTF-8.                                                                  *)

IsContinuation(byte) == byte \div 64 = 2

Boundary(bytes) ==
    {p \in 0 .. Len(bytes) : p = Len(bytes) \/ ~IsContinuation(bytes[p + 1])}

\* The characters of well-formed bytes.
Chars(bytes) ==
    LET at == Boundary(bytes)
        Start(i) == CHOOSE p \in at : Cardinality({q \in at : q < p}) = i - 1
    IN  [i \in 1 .. Cardinality(at) - 1 |-> SubSeq(bytes, Start(i) + 1, Start(i + 1))]

----------------------------------------------------------------------------
(* TextField.                                                              *)

EmptyField == [text |-> <<>>, cursor |-> 0, complete |-> FALSE]

Before(f) == SubSeq(f.text, 1, f.cursor)
After(f) == SubSeq(f.text, f.cursor + 1, Len(f.text))

\* Mutant: checks the limit before the character is counted.
Accepts_BeforeCounting(size, complete, ch) ==
    ~complete /\ ch \notin Unsafe /\ size <= MaxBytes
Accepts(size, complete, ch) ==
    ~complete /\ ch \notin Unsafe /\ size + Len(ch) <= MaxBytes

InsertChar(f, ch) ==
    IF Accepts(Len(f.text), f.complete, ch)
    THEN [f EXCEPT !.text = Before(f) \o ch \o After(f), !.cursor = @ + Len(ch)]
    ELSE f

InsertText(f, chars) == FoldLeft(InsertChar, f, chars)

\* Mutant: a character taken for one byte.
PreviousChar_Byte(f) == f.cursor - 1
\* Where the character left of the cursor starts, and the one right of it ends.
PreviousChar(f) == Max({p \in Boundary(f.text) : p < f.cursor})
NextChar(f) == Min({p \in Boundary(f.text) : p > f.cursor})

Backspace(f) ==
    IF f.complete \/ f.cursor = 0 THEN f
    ELSE [f EXCEPT !.text = SubSeq(@, 1, PreviousChar(f)) \o After(f), !.cursor = PreviousChar(f)]

Delete(f) ==
    IF f.complete \/ f.cursor >= Len(f.text) THEN f
    ELSE [f EXCEPT !.text = Before(f) \o SubSeq(@, NextChar(f) + 1, Len(@))]

MoveLeft(f) ==
    IF f.complete \/ f.cursor = 0 THEN f ELSE [f EXCEPT !.cursor = PreviousChar(f)]

MoveRight(f) ==
    IF f.complete \/ f.cursor >= Len(f.text) THEN f ELSE [f EXCEPT !.cursor = NextChar(f)]

MoveHome(f) == IF f.complete THEN f ELSE [f EXCEPT !.cursor = 0]

MoveEnd(f) == IF f.complete THEN f ELSE [f EXCEPT !.cursor = Len(f.text)]

Submit(f) == IF f.complete \/ f.text = <<>> THEN f ELSE [f EXCEPT !.complete = TRUE]

----------------------------------------------------------------------------
(* SecretField: no cursor, and submitting takes the bytes away.            *)

EmptySecret == [bytes |-> <<>>, complete |-> FALSE]

PushChar(s, ch) ==
    IF Accepts(Len(s.bytes), s.complete, ch) THEN [s EXCEPT !.bytes = @ \o ch] ELSE s

PushText(s, chars) == FoldLeft(PushChar, s, chars)

\* take_while over the reversed bytes: the continuation bytes at the end.
TrailingContinuation(bytes) ==
    Max({n \in 0 .. Len(bytes) :
            \A i \in Len(bytes) - n + 1 .. Len(bytes) : IsContinuation(bytes[i])})

Pop(s) ==
    IF s.complete \/ s.bytes = <<>> THEN s
    ELSE [s EXCEPT !.bytes = SubSeq(@, 1, Len(@) - TrailingContinuation(@) - 1)]

TakeSecret(s) ==
    IF s.complete \/ s.bytes = <<>> THEN s ELSE [bytes |-> <<>>, complete |-> TRUE]

=============================================================================
