----------------------------- MODULE MCRoomView -----------------------------
(* A small keyboard: a slash, a space, a letter, a digit, an accented letter of
   two bytes and a control character; and commands spelled with them. *)
EXTENDS RoomView, TLC

C == <<99>>
One == <<49>>
Accent == <<195, 169>>
Escape == <<27>>

Keys == {Slash, Space, C, One, Accent, Escape}
Refused == {Escape}

\* A paste with a control character, one that ends where a two-byte character
\* does not fit, and a line that is a command.
Pastes == {<<C, Escape, One>>, <<Accent, One>>, <<Slash, C>>}

Command(name) == [name |-> name, seconds |-> 0]

Commands ==
       <<C, <<>>>> :> Command("Clear")
    @@ <<C \o C, <<>>>> :> Command("ColorList")
    @@ <<C \o One, <<>>>> :> Command("Color")
    @@ <<C \o C \o C, <<>>>> :> Command("Help")
    @@ <<One, One>> :> [name |-> "Timeout", seconds |-> 1]
    @@ <<One, C>> :> Command("Timeout")
    @@ <<One \o C, <<>>>> :> Command("TimeoutRequest")
    @@ <<One, <<>>>> :> Command("Leave")
    @@ <<One \o One, <<>>>> :> Command("Exit")
    @@ <<Accent, <<>>>> :> Command("List")
    @@ <<Accent, One>> :> Command("Kick")

=============================================================================
