------------------------------ MODULE AppShell ------------------------------
(***************************************************************************)
(* The application around a session: the menu loop and the two session     *)
(* runners (src/app.rs), the screens and their keys (src/ui/app.rs,        *)
(* src/ui/screen.rs), the key reader thread, and a joining participant's   *)
(* form (src/admission/client.rs) over one TorManager.                     *)
(*                                                                         *)
(* Keys are read only by the menu loop and by a running session; what is   *)
(* typed while Tor starts or stops waits in the channel and reaches        *)
(* whatever screen comes next.                                             *)
(*                                                                         *)
(* Data abstraction: a field holds one token or nothing, and a field that  *)
(* holds one is full; the room behind the session, and the line editor,    *)
(* have modules of their own.                                              *)
(***************************************************************************)
EXTENDS TorManager, FiniteSets

CONSTANTS
    Char,           \* what one key types
    Paste,          \* what a bracketed paste brings
    ValidNickname,  \* the tokens validate_nickname accepts
    MaxKeys         \* bound: inputs waiting in the key channel

ASSUME ShellAssumption == "" \notin Char \cup Paste /\ MaxKeys \in Nat \ {0}

VARIABLES
    screen,     \* App.screen
    keys,       \* the key channel
    reader,     \* the key reader thread runs
    secret,     \* the password the session was started with
    confirmed,  \* history: the last password that was entered twice
    stage,      \* ClientState of a joining participant
    form,       \* pending_form: "" or the nickname
    own         \* own_nickname: "" or the nickname last submitted

shellVars == <<screen, keys, reader, secret, confirmed, stage, form, own>>
appVars == <<torVars, shellVars>>

----------------------------------------------------------------------------
(* Screens.                                                                *)

InputField == {"Password", "Confirm", "Nickname", "Invitation", "Introduction", "Input"}

Screen(name, focus) ==
    [name |-> name, focus |-> focus, text |-> [f \in InputField |-> ""], complete |-> {},
     stored |-> "", selection |-> 0]

Menu == Screen("Menu", "None")
Message == Screen("Message", "None")
About == Screen("About", "None")
TorConnecting == Screen("TorConnecting", "None")
HostSetup == Screen("HostSetup", "Password")
JoinSetup == Screen("JoinSetup", "Invitation")
JoinForm == Screen("JoinForm", "Nickname")
JoinPending == Screen("JoinPending", "None")
Room == Screen("Room", "Input")

\* TextField and SecretField, one token long.
Held(s) == s.text[s.focus]
Open(s) == s.focus # "None" /\ s.focus \notin s.complete
Insert(s, t) == IF Open(s) /\ Held(s) = "" THEN [s EXCEPT !.text[s.focus] = t] ELSE s
Erase(s) == IF Open(s) THEN [s EXCEPT !.text[s.focus] = ""] ELSE s
Submits(s) == Open(s) /\ Held(s) # ""
Lock(s) == [s EXCEPT !.complete = @ \cup {s.focus}]
Clear(s, f) == [s EXCEPT !.text[f] = "", !.complete = @ \ {f}]
Focus(s, f) == [s EXCEPT !.focus = f]

\* Mutant: stepping back to a submitted field leaves it locked.
Reopen_Locked(s, f) == s

\* TextField::reopen: the text stays, the field can be edited again.
Reopen(s, f) == [s EXCEPT !.complete = @ \ {f}]

\* SecretField::submit hands the bytes out and keeps nothing.
Surrender(s) == [Lock(s) EXCEPT !.text[s.focus] = ""]

\* Mutant: stepping back drops the password but not the focus.
RestartPasswordEntry_KeepsFocus(s) ==
    [Clear(Clear(s, "Password"), "Confirm") EXCEPT !.stored = ""]

RestartPasswordEntry(s) ==
    [Clear(Clear(s, "Password"), "Confirm") EXCEPT !.stored = "", !.focus = "Password"]

----------------------------------------------------------------------------
(* Keys: the outcome of a key is the screen that follows and an action.    *)

Key(k) == [key |-> k, text |-> ""]
NamedKey == {Key(k) : k \in {"Enter", "Esc", "Backspace", "Up", "Down", "CtrlC"}}
Input == NamedKey \cup {[key |-> "Char", text |-> t] : t \in Char}
                  \cup {[key |-> "Paste", text |-> t] : t \in Paste}

Outcome(action, s) == [action |-> action, screen |-> s]
Shows(s) == Outcome("None", s)

\* Editing keys every form shares.
Edit(s, k) ==
    Shows(CASE k.key = "Backspace" -> Erase(s) [] k.key = "Char" -> Insert(s, k.text) [] OTHER -> s)

OnMenuKey(s, k) ==
    CASE k.key = "Up"    -> Shows([s EXCEPT !.selection = (@ + 3) % 4])
      [] k.key = "Down"  -> Shows([s EXCEPT !.selection = (@ + 1) % 4])
      [] k.key = "Enter" -> IF s.selection = 3 THEN Outcome("Quit", s)
                            ELSE Shows(<<HostSetup, JoinSetup, About>>[s.selection + 1])
      [] k.key = "Esc" \/ k = [key |-> "Char", text |-> "q"] -> Outcome("Quit", s)
      [] OTHER -> Shows(s)

Matches(s) == s.stored = Held(s)

OnHostSetupKey(s, k) ==
    CASE k.key = "Enter" /\ Submits(s) ->
           (CASE s.focus = "Password" ->
                   Shows(Focus([Surrender(s) EXCEPT !.stored = Held(s)], "Confirm"))
              [] s.focus = "Confirm" ->
                   Shows(IF Matches(s) THEN Focus(Surrender(s), "Nickname") ELSE Clear(s, "Confirm"))
              [] OTHER -> Outcome("HostSetupSubmitted", Lock(s)))
      [] k.key = "Esc" -> Shows(IF s.focus = "Password" THEN Menu ELSE RestartPasswordEntry(s))
      [] OTHER -> Edit(s, k)

OnJoinSetupKey(s, k) ==
    CASE k.key = "Enter" /\ Submits(s) ->
           IF s.focus = "Invitation" THEN Shows(Focus(Lock(s), "Password"))
           ELSE Outcome("JoinSetupSubmitted", s)
      [] k.key = "Esc" ->
           Shows(IF s.focus = "Invitation" THEN Menu
                 ELSE Focus(Reopen(Clear(s, "Password"), "Invitation"), "Invitation"))
      [] OTHER -> Edit(s, k)

\* An empty introduction is submitted as none at all.
OnJoinFormKey(s, k) ==
    CASE k.key = "Enter" /\ s.focus = "Introduction" -> Outcome("JoinFormSubmitted", JoinPending)
      [] k.key = "Enter" /\ s.focus = "Nickname" /\ Submits(s) -> Shows(Focus(Lock(s), "Introduction"))
      [] k.key = "Esc" /\ s.focus = "Nickname" -> Outcome("Leave", s)
      [] k.key = "Esc" /\ s.focus = "Introduction" -> Shows(Focus(Reopen(s, "Nickname"), "Nickname"))
      [] OTHER -> Edit(s, k)

\* The host's pane refuses /leave; chat and the other commands stay in the session.
OnRoomKey(s, k) ==
    CASE k.key = "Enter" ->
           Outcome(CASE Held(s) = "/exit" -> "Exit"
                     [] Held(s) = "/leave" /\ mode = "Join" -> "Leave"
                     [] OTHER -> "None", Clear(s, "Input"))
      [] k.key = "Esc" -> Shows(Clear(s, "Input"))
      [] OTHER -> Edit(s, k)

\* App::on_key.
OnKey(s, k) ==
    CASE s.name = "Menu"      -> OnMenuKey(s, k)
      [] s.name = "HostSetup" -> OnHostSetupKey(s, k)
      [] s.name = "JoinSetup" -> OnJoinSetupKey(s, k)
      [] s.name = "JoinForm"  -> OnJoinFormKey(s, k)
      [] s.name = "Room"      -> OnRoomKey(s, k)
      [] s.name \in {"About", "Message"} -> Shows(Menu)
      [] OTHER -> Shows(s)

\* App::on_paste only ever fills the field in focus.
Reacts(s, k) == IF k.key = "Paste" THEN Shows(Insert(s, k.text)) ELSE OnKey(s, k)

HardQuit(k) == k.key = "CtrlC"

----------------------------------------------------------------------------
(* The user and the reader thread.                                         *)

Types ==
    /\ reader /\ pc # "quit" /\ Len(keys) < MaxKeys
    /\ \E k \in Input : keys' = Append(keys, k)
    /\ UNCHANGED <<torVars, screen, reader, secret, confirmed, stage, form, own>>

\* A terminal that fails ends the thread, and with it the channel.
ReaderDies ==
    /\ reader /\ pc # "quit"
    /\ reader' = FALSE
    /\ UNCHANGED <<torVars, screen, keys, secret, confirmed, stage, form, own>>

Exhausted == ~ reader /\ keys = <<>>

----------------------------------------------------------------------------
(* menu_loop.                                                              *)

\* history: a confirmation that let the form go on.
Confirms(o) == screen.focus = "Confirm" /\ o.screen.focus = "Nickname"

MenuInput ==
    LET k == Head(keys)
        o == Reacts(screen, k)
    IN
    /\ pc = "menu" /\ keys # <<>>
    /\ keys' = Tail(keys)
    /\ IF HardQuit(k) THEN pc' = "quit" /\ UNCHANGED <<mode, screen, secret, confirmed>>
       ELSE /\ screen' = o.screen
            /\ confirmed' = IF Confirms(o) THEN Held(screen) ELSE confirmed
            /\ CASE o.action = "Quit" -> pc' = "quit" /\ UNCHANGED <<mode, secret>>
                 [] o.action = "HostSetupSubmitted" ->
                      pc' = "prepare" /\ mode' = "Host" /\ secret' = screen.stored
                 [] o.action = "JoinSetupSubmitted" ->
                      pc' = "prepare" /\ mode' = "Join" /\ secret' = Held(screen)
                 [] OTHER -> UNCHANGED <<pc, mode, secret>>
    /\ UNCHANGED <<end, child, dir, tor, asked, pipe, control, onion, progress, misread, reader, stage, form, own>>

\* The channel is closed, or the screen cannot be drawn.
MenuStops ==
    /\ pc = "menu"
    /\ pc' = "quit"
    /\ UNCHANGED <<mode, end, child, dir, tor, asked, pipe, control, onion, progress,
                   misread, shellVars>>

NextScreen ==
    CASE end = "Failed" -> Message [] end = "Menu" -> Menu [] OTHER -> screen

\* run_*_session returned.
Return ==
    /\ pc = "ended"
    /\ pc' = IF end = "Quit" THEN "quit" ELSE "menu"
    /\ screen' = NextScreen
    /\ end' = "None" /\ progress' = 0
    /\ UNCHANGED <<mode, child, dir, tor, asked, pipe, control, onion, misread,
                   keys, reader, secret, confirmed, stage, form, own>>

\* PasswordVerifier::derive or ClientAdmission takes the password.
Prepares ==
    /\ Prepare
    /\ secret' = "" /\ confirmed' = ""
    /\ UNCHANGED <<screen, keys, reader, stage, form, own>>

\* begin_tor_connection shows the bar before anything is spawned.
Begin ==
    /\ Spawn
    /\ screen' = TorConnecting
    /\ UNCHANGED <<keys, reader, secret, confirmed, stage, form, own>>

\* enter_room for the host; first_message and the join form for a participant.
EnterSession ==
    /\ Enter
    /\ screen' = IF pc' # "session" THEN screen ELSE IF mode = "Host" THEN Room ELSE JoinForm
    /\ UNCHANGED <<keys, reader, secret, confirmed, stage, form, own>>

\* A step of the manager, or of Tor, that the screens do not see.
Manages ==
    /\ ManagerStep \/ BootstrapDeadline
    /\ UNCHANGED shellVars

Subprocesses == Subprocess /\ UNCHANGED shellVars

----------------------------------------------------------------------------
(* The session loops: keys, the maintenance tick, and the host's messages. *)

\* join_request needs the challenge answered and a nickname that validates.
Requestable(st, nickname) == st = "AwaitingJoinForm" /\ nickname \in ValidNickname

\* Mutant: a form that was early is forgotten.
SubmitForm_Forgets(nickname) ==
    IF Requestable(stage, nickname) THEN stage' = "AwaitingDecision" /\ form' = ""
    ELSE UNCHANGED <<stage, form>>

SubmitForm(nickname) ==
    IF Requestable(stage, nickname) THEN stage' = "AwaitingDecision" /\ form' = ""
    ELSE form' = nickname /\ UNCHANGED stage

\* The screen stays up while Tor stops; what was typed into it is never looked at again.
Leaves(how) ==
    /\ Leave(how)
    /\ screen' = Screen(screen.name, "None")
    /\ stage' = "AwaitingHostHello" /\ form' = "" /\ own' = ""

LeavesAlone(how) == Leaves(how) /\ UNCHANGED <<keys, reader, secret, confirmed>>

\* Host /exit closes the room and returns to the menu; a participant's quits.
EndOf(k, o) ==
    IF HardQuit(k) \/ (o.action = "Exit" /\ mode = "Join") THEN "Quit"
    ELSE IF o.action \in {"Exit", "Leave"} THEN "Menu" ELSE "None"

SessionInput ==
    LET k == Head(keys)
        o == Reacts(screen, k)
    IN
    /\ pc = "session" /\ keys # <<>>
    /\ keys' = Tail(keys)
    /\ IF EndOf(k, o) # "None" THEN Leaves(EndOf(k, o))
       ELSE /\ screen' = o.screen
            /\ IF o.action = "JoinFormSubmitted" THEN SubmitForm(screen.text["Nickname"]) /\ own' = screen.text["Nickname"]
               ELSE UNCHANGED <<stage, form, own>>
            /\ UNCHANGED torVars
    /\ UNCHANGED <<reader, secret, confirmed>>

\* has_exited at the maintenance tick.
NoticeTor == child = "Exited" /\ LeavesAlone("Failed")

\* Mutant: the loop goes on without its keys.
SessionKeysClosed_Ignored == FALSE /\ UNCHANGED appVars

\* The channel is closed: the loop breaks.
SessionKeysClosed == Exhausted /\ LeavesAlone("Menu")

\* Room failure, a frame that cannot be sent, a screen that cannot be drawn.
SessionFails == LeavesAlone("Failed") \/ LeavesAlone("Quit")

\* Messages of the host that bring a join forward.
Joining == pc = "session" /\ mode = "Join"

HostHello ==
    /\ Joining /\ stage = "AwaitingHostHello"
    /\ stage' = "AwaitingChallenge"
    /\ UNCHANGED <<torVars, screen, keys, reader, secret, confirmed, form, own>>

\* The challenge is answered; a form that waited is sent, or dropped if it does not validate.
Challenge ==
    /\ Joining /\ stage = "AwaitingChallenge"
    /\ stage' = IF Requestable("AwaitingJoinForm", form) THEN "AwaitingDecision"
                ELSE "AwaitingJoinForm"
    /\ form' = ""
    /\ UNCHANGED <<torVars, screen, keys, reader, secret, confirmed, own>>

JoinAccepted ==
    /\ Joining /\ stage = "AwaitingDecision"
    /\ stage' = "Admitted"
    /\ screen' = Room
    /\ own' = ""
    /\ UNCHANGED <<torVars, keys, reader, secret, confirmed, form>>

\* Rejection, a fatal error, a lost connection; SHUTDOWN goes back to the menu.
JoinRefused == Joining /\ (LeavesAlone("Failed") \/ LeavesAlone("Menu"))

\* Mutant: only the host's decision has a deadline.
StageTimeout_DecisionOnly ==
    /\ Joining /\ stage = "AwaitingDecision"
    /\ LeavesAlone("Failed")

\* Each stage has its deadline.
StageTimeout ==
    /\ Joining /\ stage # "Admitted"
    /\ LeavesAlone("Failed")

----------------------------------------------------------------------------
ShellInit ==
    /\ TorInit
    /\ screen = Menu /\ keys = <<>> /\ reader = TRUE
    /\ secret = "" /\ confirmed = "" /\ stage = "AwaitingHostHello"
    /\ form = "" /\ own = ""

Quit == pc = "quit" /\ UNCHANGED appVars

ShellNext ==
    \/ Types \/ ReaderDies
    \/ MenuInput \/ MenuStops \/ Return
    \/ Prepares \/ Begin \/ EnterSession \/ Manages \/ Subprocesses
    \/ SessionInput \/ NoticeTor \/ SessionKeysClosed \/ SessionFails
    \/ HostHello \/ Challenge \/ JoinAccepted \/ JoinRefused \/ StageTimeout
    \/ Quit

\* Every await of the program has a timer, the maintenance tick comes every second, and a
\* closed channel is always ready; the user, Tor and the host promise nothing.
ShellFairness ==
    /\ WF_appVars(Manages)
    /\ WF_appVars(BootstrapDeadline /\ UNCHANGED shellVars)
    /\ WF_appVars(Prepares)
    /\ WF_appVars(Begin)
    /\ WF_appVars(EnterSession)
    /\ WF_appVars(Return)
    /\ WF_appVars(NoticeTor)
    /\ WF_appVars(StageTimeout)
    /\ WF_appVars(SessionKeysClosed)
    /\ WF_appVars(MenuInput)
    /\ WF_appVars(SessionInput)
    /\ WF_appVars(MenuStops /\ Exhausted)

ShellSpec == ShellInit /\ [][ShellNext]_appVars /\ ShellFairness

----------------------------------------------------------------------------
(* Properties.                                                             *)

\* Wherever the application comes to rest, no Tor process is left, and no session directory
\* that a manager owned, whichever step after its preparation went wrong: the start, the
\* session or the shutdown (app.rs run_host_session, run_join_session; manager.rs shutdown).
\* A directory whose preparation failed half-way (platform.rs:169-183, dir = "Half") has no
\* owner and stays, which is the exception.  The directory with the control cookie is removed
\* only once Tor is gone (manager.rs:461, "Tor is gone: wipe the control cookie before the
\* directory").
NothingLeftRunning ==
    /\ pc \in {"menu", "quit"} => child # "Running" /\ dir # "Made"
    /\ child = "Running" => dir = "Made"

\* No reply is taken for the answer to another command: after a data block, a timeout or an
\* interrupted poll the lines that are left never decide authentication, progress or the
\* onion address (control.rs:157-159, parser.rs:181-183).  So a session runs only on a Tor
\* that finished its bootstrap and, for a host, published the service.
RepliesMatchCommands ==
    /\ ~ misread
    /\ pc = "session" => /\ tor.progress = Done
                         /\ mode = "Host" => tor.onion /\ onion

\* The host loop's expect("the room view exists") cannot fail, a participant is in the room
\* view exactly when admitted, the menu loop never shows a screen that ignores keys, and the
\* field in focus can be edited, after every way back and forth through the forms.
ScreenFits ==
    /\ pc = "session" /\ mode = "Host" => screen.name = "Room"
    /\ pc = "session" /\ mode = "Join" =>
          screen.name \in IF stage = "Admitted" THEN {"Room"} ELSE {"JoinForm", "JoinPending"}
    /\ pc = "menu" => screen.name \notin {"TorConnecting", "JoinForm", "JoinPending", "Room"}
    /\ pc \in {"menu", "session"} => screen.focus \notin screen.complete

\* A hosted room is protected by the password the user entered twice, never by the empty
\* default of take_password().unwrap_or_default().
PasswordConfirmed ==
    pc = "prepare" /\ mode = "Host" => secret # "" /\ secret = confirmed

FormOnItsWay ==
    \/ stage \in {"AwaitingDecision", "Admitted"}
    \/ form # "" /\ stage \in {"AwaitingHostHello", "AwaitingChallenge"}

\* A participant that waits for the host's decision has sent its form, or will send it when
\* the challenge is answered, unless its own program refuses the nickname.
FormNotLost ==
    pc = "session" /\ screen.name = "JoinPending" => FormOnItsWay \/ own \notin ValidNickname

\* The program never waits for ever on somebody who is silent.  Starting and stopping end
\* in a session, at the menu or outside the program, however Tor hangs; a session does not
\* survive its Tor process; and a participant is let in or gives up, at whatever stage of the
\* handshake the host falls silent.
NothingHangs ==
    /\ pc \in Starting \cup Stopping ~> pc \in {"session", "menu", "quit"}
    /\ pc = "session" /\ child = "Exited" ~> pc # "session"
    /\ Joining /\ stage # "Admitted" ~> ~ Joining \/ stage = "Admitted"

\* Once the terminal is lost the program ends, through the shutdown of Tor.
TerminalLossQuits == ~ reader ~> pc = "quit"
=============================================================================
