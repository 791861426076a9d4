------------------------------ MODULE RoomView ------------------------------
(***************************************************************************)
(* One participant's terminal in a room: the password field of the setup   *)
(* form, then the room's input line, its slash commands and the message    *)
(* pane with its expiring lines (src/ui/room_view.rs, src/ui/buffer.rs,    *)
(* src/ui/app.rs, src/command.rs), driven by the supervisor's select loop  *)
(* (src/app.rs).                                                           *)
(*                                                                         *)
(* Data abstraction: a displayed line is its creation time and its         *)
(* deadline; what a command's name and argument spell is given by Grammar. *)
(***************************************************************************)
EXTENDS TextField

CONSTANTS
    Paste,      \* what a bracketed paste brings: sequences of characters
    Grammar,    \* <<name, argument>> |-> the command they spell, in bytes
    Interval,   \* the message lifetimes a host may announce, in seconds
    Capacity,   \* DEFAULT_RENDER_BUFFER_CAPACITY
    MaxNow      \* bound: the seconds a run lasts

ASSUME ViewAssumption ==
    Interval \subseteq Nat \ {0} /\ Capacity \in Nat \ {0} /\ MaxNow \in Nat

VARIABLES
    mode,       \* "Password", "Room" or "Closed"
    isHost,
    password,   \* the focused SecretField of the setup form
    input,      \* RoomView.input
    lines,      \* RoomView.messages
    interval,   \* message_timeout_interval, 0 for None
    now,        \* Instant::now()
    out         \* what the last step handed to the room or the connection

viewVars == <<mode, isHost, password, input, lines, interval, now, out>>

Slash == <<47>>
Space == <<32>>

Nothing == [kind |-> "Nothing", text |-> <<>>]
Out(kind) == [kind |-> kind, text |-> <<>>]

----------------------------------------------------------------------------
(* parse_line.                                                             *)

StartsWith(text, prefix) == IsPrefix(prefix, text)

TrimStart(text) == SelectInSeq(text, LAMBDA b : b # Space[1])
Trimmed(text) ==
    IF TrimStart(text) = 0 THEN <<>> ELSE SubSeq(text, TrimStart(text), Len(text))

\* The name ends at the first space; the argument starts after the spaces.
CommandName(rest) ==
    LET at == SelectInSeq(rest, LAMBDA b : b = Space[1])
    IN  IF at = 0 THEN rest ELSE SubSeq(rest, 1, at - 1)
CommandArgs(rest) == Trimmed(SubSeq(rest, Len(CommandName(rest)) + 1, Len(rest)))

\* Mutant: an unknown command is sent as chat.
ParseCommand_ElseChat(text, rest) ==
    LET spelled == <<CommandName(rest), CommandArgs(rest)>>
    IN  IF spelled \in DOMAIN Grammar THEN [kind |-> "Command", command |-> Grammar[spelled]]
        ELSE [kind |-> "Chat", text |-> text]
ParseCommand(text, rest) ==
    LET spelled == <<CommandName(rest), CommandArgs(rest)>>
    IN  IF spelled \in DOMAIN Grammar THEN [kind |-> "Command", command |-> Grammar[spelled]]
        ELSE [kind |-> "Error"]

ParseLine(text) ==
    IF StartsWith(text, Slash \o Slash) THEN [kind |-> "Chat", text |-> Tail(text)]
    ELSE IF ~StartsWith(text, Slash) \/ StartsWith(text, Slash \o Space)
    THEN [kind |-> "Chat", text |-> text]
    ELSE ParseCommand(text, Tail(text))

----------------------------------------------------------------------------
(* The message pane.                                                       *)

\* Deadlines are creation plus lifetime; 0 stands for no deadline.
Deadline(created, seconds) == IF seconds = 0 THEN 0 ELSE created + seconds

NewLine == [created |-> now, expires |-> Deadline(now, interval)]

\* RenderBuffer::push, n times: the oldest lines make room.
Pushed(buffer, line, n) ==
    LET all == buffer \o [i \in 1 .. n |-> line]
    IN  IF Len(all) <= Capacity THEN all
        ELSE SubSeq(all, Len(all) - Capacity + 1, Len(all))

Push(n) == lines' = Pushed(lines, NewLine, n)

SetExpiry(buffer, seconds) ==
    [i \in DOMAIN buffer |-> [buffer[i] EXCEPT !.expires = Deadline(buffer[i].created, seconds)]]

\* set_message_timeout and the line that tells of it.
SetMessageTimeout(seconds) ==
    /\ interval' = seconds
    /\ lines' = Pushed(SetExpiry(lines, seconds),
                       [created |-> now, expires |-> Deadline(now, seconds)], 1)

\* Mutant: a line whose deadline is one second off is due.
Due_Early(line) == line.expires # 0 /\ line.expires <= now + 1
Due(line) == line.expires # 0 /\ line.expires <= now

Deadlines == {lines[i].expires : i \in DOMAIN lines} \ {0}

\* Mutant: the newest line decides when the pane is next looked at.
NextExpiry_Newest == IF lines = <<>> THEN 0 ELSE lines[Len(lines)].expires
NextExpiry == IF Deadlines = {} THEN 0 ELSE Min(Deadlines)

----------------------------------------------------------------------------
(* What a submitted line does: command_action and the supervisor's arms.   *)

\* The line count a local command adds: the palette has seven colours.
PaletteSize == 7

Shows(n, action) == Push(n) /\ out' = action /\ UNCHANGED <<mode, interval>>

EndsSession(kind) ==
    /\ mode' = "Closed"
    /\ lines' = <<>>
    /\ out' = Out(kind)
    /\ UNCHANGED interval

\* The room or the connection takes a command and answers later, or refuses
\* it now; a local failure shows one error line and hands nothing on.
Sends(kind) == Shows(1, Out(kind)) \/ Shows(1, Nothing)

HostCommand(command) ==
    CASE command.name = "Timeout" ->
            \/ SetMessageTimeout(command.seconds) /\ out' = Out("Timeout") /\ UNCHANGED mode
            \/ Shows(1, Nothing)
      [] command.name = "Color" -> Sends("Color")
      [] command.name \in {"TimeoutRequest", "Leave"} -> Shows(1, Nothing)
      [] OTHER -> Shows(0, Out("Host"))

MemberCommand(command) ==
    CASE command.name \in {"Color", "TimeoutRequest"} ->
            Sends(command.name) \/ EndsSession("Lost")
      [] command.name \in {"List", "Whois"} -> Shows(1, Nothing)
      [] command.name = "Leave" -> EndsSession("Leave")
      [] OTHER -> Shows(1, Nothing)

Clear ==
    /\ lines' = <<>>
    /\ out' = Out("Clear")
    /\ UNCHANGED <<mode, interval>>

CommandAction(command) ==
    CASE command.name \in {"Help", "Copy"} -> Shows(1, Nothing)
      [] command.name = "ColorList" -> Shows(PaletteSize, Nothing)
      [] command.name = "Clear" -> Clear
      [] command.name = "Exit" -> EndsSession("Exit")
      [] OTHER -> IF isHost THEN HostCommand(command) ELSE MemberCommand(command)

\* The member's chat: sent and shown, refused with an error line, or the
\* connection is gone.  The host's is refused.
SubmitChat(text) ==
    IF isHost THEN Shows(1, Nothing)
    ELSE \/ Shows(1, [kind |-> "Chat", text |-> text])
         \/ Shows(1, Nothing)
         \/ EndsSession("Lost")

\* submit_line: the field is completed and then cleared, when it held text.
SubmitLine(f) == IF Submit(f).complete THEN EmptyField ELSE f

Enter ==
    /\ mode = "Room"
    /\ input' = SubmitLine(input)
    /\ LET parsed == ParseLine(input.text)
       IN  IF input.text = <<>> THEN Shows(0, Nothing)
           ELSE CASE parsed.kind = "Chat" -> SubmitChat(parsed.text)
                  [] parsed.kind = "Command" -> CommandAction(parsed.command)
                  [] parsed.kind = "Error" -> Shows(1, Nothing)
    /\ UNCHANGED <<isHost, password, now>>

----------------------------------------------------------------------------
(* Keys.                                                                   *)

Edited(f) ==
    /\ mode = "Room"
    /\ input' = f
    /\ out' = Nothing
    /\ UNCHANGED <<mode, isHost, password, lines, interval, now>>

TypeKey(ch) == Edited(InsertChar(input, ch))
PasteText(chars) == Edited(InsertText(input, chars))
BackspaceKey == Edited(Backspace(input))
DeleteKey == Edited(Delete(input))
LeftKey == Edited(MoveLeft(input))
RightKey == Edited(MoveRight(input))
HomeKey == Edited(MoveHome(input))
EndKey == Edited(MoveEnd(input))
EscKey == Edited(EmptyField)

\* The setup form's password: typed, pasted, erased, cleared, submitted.
SecretEdited(s) ==
    /\ mode = "Password"
    /\ password' = s
    /\ mode' = IF s.complete THEN "Room" ELSE mode
    /\ out' = Nothing
    /\ UNCHANGED <<isHost, input, lines, interval, now>>

SecretKey ==
    \/ \E ch \in Key : SecretEdited(PushChar(password, ch))
    \/ \E chars \in Paste : SecretEdited(PushText(password, chars))
    \/ SecretEdited(Pop(password))
    \/ SecretEdited(EmptySecret)
    \/ SecretEdited(TakeSecret(password))

----------------------------------------------------------------------------
(* The other arms of the supervisor's select.                              *)

\* A room action or a peer's message shows a line, or a /requests snapshot
\* of several.
Incoming(n) ==
    /\ mode = "Room"
    /\ Shows(n, Nothing)
    /\ UNCHANGED <<isHost, password, input, now>>

\* A TimeoutChanged arrives, or the host accepts a member's request.
IncomingTimeout(seconds) ==
    /\ mode = "Room"
    /\ SetMessageTimeout(seconds)
    /\ out' = Nothing
    /\ UNCHANGED <<mode, isHost, password, input, now>>

\* wait_for_message_expiry woke up: tick_message_timeout and expire_due.
ExpireDue ==
    /\ mode = "Room"
    /\ NextExpiry # 0 /\ NextExpiry <= now
    /\ lines' = IF interval = 0 THEN lines ELSE SelectSeq(lines, LAMBDA l : ~Due(l))
    /\ out' = Nothing
    /\ UNCHANGED <<mode, isHost, password, input, interval, now>>

Tick ==
    /\ mode = "Room"
    /\ now < MaxNow
    /\ now' = now + 1
    /\ out' = Nothing
    /\ UNCHANGED <<mode, isHost, password, input, lines, interval>>

----------------------------------------------------------------------------

Init ==
    /\ mode = "Password"
    /\ isHost \in BOOLEAN
    /\ password = EmptySecret
    /\ input = EmptyField
    /\ lines = <<>>
    /\ interval = 0
    /\ now = 0
    /\ out = Nothing

Next ==
    \/ SecretKey
    \/ \E ch \in Key : TypeKey(ch)
    \/ \E chars \in Paste : PasteText(chars)
    \/ BackspaceKey \/ DeleteKey \/ LeftKey \/ RightKey \/ HomeKey \/ EndKey \/ EscKey
    \/ Enter
    \/ \E n \in 1 .. 2 : Incoming(n)
    \/ \E seconds \in Interval \cup {0} : IncomingTimeout(seconds)
    \/ ExpireDue
    \/ Tick

\* select! picks among its ready arms at random, so a deadline that has
\* passed is not starved by keys and messages.
Spec == Init /\ [][Next]_viewVars /\ WF_viewVars(ExpireDue)

----------------------------------------------------------------------------
(* Properties.                                                             *)

WellFormed(bytes) == \A i \in DOMAIN Chars(bytes) : Chars(bytes)[i] \in Letter

\* Types; both fields hold whole, accepted characters within their limit, the
\* cursor stands between two of them, and the room's input line is never left
\* locked by a submission (TextField::submit locks, submit_line must clear).
ViewTypeOK ==
    /\ mode \in {"Password", "Room", "Closed"}
    /\ isHost \in BOOLEAN
    /\ WellFormed(password.bytes) /\ Len(password.bytes) <= MaxBytes
    /\ WellFormed(input.text) /\ Len(input.text) <= MaxBytes
    /\ input.cursor \in Boundary(input.text)
    /\ ~input.complete
    /\ interval \in Interval \cup {0}
    /\ now \in 0 .. MaxNow
    /\ Len(lines) <= Capacity
    /\ \A i \in DOMAIN lines : lines[i].created \in 0 .. now

\* Chars, tabulated once for the texts a field can hold.
Text == {FlattenSeq(chars) : chars \in BoundedSeq(Letter, MaxBytes)}
CharsOf == [bytes \in {t \in Text : Len(t) <= MaxBytes} |-> Chars(bytes)]
Decoded(bytes) == IF bytes \in DOMAIN CharsOf THEN CharsOf[bytes] ELSE Chars(bytes)

TextEditor == INSTANCE LineEditor WITH
    before <- Decoded(Before(input)), after <- Decoded(After(input))

SecretEditor == INSTANCE LineEditor WITH
    before <- Decoded(password.bytes), after <- <<>>

\* The byte-level input line of TextField behaves as an editor of whole
\* characters, whatever the widths of the characters around the cursor.
\* So does the masked password of SecretField, which has no cursor and finds
\* its last character by counting continuation bytes.
FieldsEditCharacters == TextEditor!Spec /\ SecretEditor!Spec

Reached(created) == interval # 0 /\ created + interval <= now

\* A line leaves the pane only when it has reached the age in force, when it
\* is cleared or the session ends, or when newer lines fill the pane.
NoLineLostEarly ==
    [][\A i \in DOMAIN lines :
          \/ \E j \in DOMAIN lines' : lines'[j].created = lines[i].created
          \/ Reached(lines[i].created)
          \/ out'.kind = "Clear" \/ mode' = "Closed"
          \/ Len(lines') = Capacity]_viewVars

\* A line that has reached its age disappears although no key is pressed and
\* no message arrives: each wake-up is armed for the earliest deadline, and a
\* change of the lifetime counts from each line's creation (set_message_timeout:
\* "changing the setting never grants old lines a fresh lifetime").
OverdueLinesGo ==
    (mode = "Room" /\ \E i \in DOMAIN lines : Reached(lines[i].created))
        ~> ~ \E i \in DOMAIN lines : Reached(lines[i].created)

MeantAsChat(line, text) ==
    \/ line = text /\ (StartsWith(line, Slash) => StartsWith(line, Slash \o Space))
    \/ line = Slash \o text /\ StartsWith(text, Slash)

\* Text goes to the room only as a member's chat and only when it was meant as
\* chat: a mistyped or malformed command is never broadcast, "//" sends one
\* slash, and the host's pane sends nothing.
OnlyMeantTextLeaves ==
    [][out'.kind = "Chat" /\ out' # out
           => ~isHost /\ MeantAsChat(input.text, out'.text)]_viewVars

=============================================================================
