----------------------------- MODULE LineEditor -----------------------------
(***************************************************************************)
(* What an input field promises its user, in whole characters: the text    *)
(* before and after the cursor, typing and pasting at the cursor, erasing  *)
(* one character on either side, moving, and emptying the line.            *)
(*                                                                         *)
(* TextField stores UTF-8 bytes and a byte cursor, SecretField only bytes; *)
(* RoomView shows that both keep this promise.                             *)
(***************************************************************************)
EXTENDS Naturals, Sequences, SequencesExt

CONSTANT Letter     \* the characters a field may hold

VARIABLES before, after

Empty == before = <<>> /\ after = <<>>

\* A key or a paste adds accepted characters at the cursor.
Insert ==
    /\ IsPrefix(before, before')
    /\ \A i \in DOMAIN before' : before'[i] \in Letter
    /\ UNCHANGED after

EraseBefore ==
    /\ before # <<>>
    /\ before' = Front(before)
    /\ UNCHANGED after

EraseAfter ==
    /\ after # <<>>
    /\ after' = Tail(after)
    /\ UNCHANGED before

\* The cursor moves and the text stays: by one character, or to an end.
Move ==
    /\ before' \o after' = before \o after
    /\ \/ Len(before') + 1 = Len(before) \/ Len(before') = Len(before) + 1
       \/ before' = <<>> \/ after' = <<>>

Next == Insert \/ EraseBefore \/ EraseAfter \/ Move \/ Empty'

Spec == Empty /\ [][Next]_<<before, after>>

=============================================================================
