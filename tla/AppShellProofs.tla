--------------------------- MODULE AppShellProofs ---------------------------
(***************************************************************************)
(* The application never leaves a Tor process behind, never takes a reply  *)
(* for the answer to another command, and its screens and forms stay       *)
(* consistent: proofs about AppShell and the TorManager it drives.         *)
(*                                                                         *)
(* The inductive invariant has seven parts. PlaceFacts ties the place in   *)
(* the program to the subprocess and the directory, EndFacts to the way    *)
(* the session ends.  LineFacts says what may lie on the control           *)
(* connection at each place, HonestFacts that what Tor reported is true of *)
(* it, ReadyFacts what the start has established when the session begins.  *)
(* ScreenFacts and FormFacts describe the screens key by key.              *)
(***************************************************************************)
EXTENDS AppShell, TLAPS

----------------------------------------------------------------------------
(* The invariant.                                                          *)

Place == {"menu", "quit", "session"} \cup Starting \cup Stopping

\* No manager owns anything.
Resting == {"menu", "quit", "prepare", "ended"}

PlaceFacts ==
    /\ pc \in Place
    /\ mode \in Mode
    /\ pc \in Resting \cup {"spawn", "wipe"} => child # "Running"
    /\ dir = "Made" <=> pc \notin Resting

EndFacts == pc \in Stopping => end \in {"Menu", "Quit", "Failed"}

\* A command is on its way, or answered and not read to the end.
Awaiting == {"auth", "bootstrap", "await_onion"}

\* Every reply was read to its end, or no command was ever sent.
Quiet == asked = <<>> /\ pipe = <<>>

Command == [cmd : {"AUTHENTICATE", "GETINFO", "ADD_ONION", "DEL_ONION", "SIGNAL"},
            stale : BOOLEAN]
Kind == {"Continuation", "Data", "Last", "Raw", "Dot"}
FieldType == [key : {"text", "authenticated", "PROGRESS", "ServiceID"}, value : Nat]
PipeLine == [kind : Kind, code : Nat, data : FieldType, stale : BOOLEAN]
Accumulator == [code : Nat, lines : Seq(FieldType), block : BOOLEAN, stale : BOOLEAN]
ControlType == [open : BOOLEAN, poisoned : BOOLEAN, acc : Accumulator]

\* At most one command is under way, and only its own reply lies in the pipe, up to its end.
OneExchange ==
    /\ ~ control.acc.stale
    /\ asked # <<>> => Len(asked) = 1 /\ ~ asked[1].stale /\ pipe = <<>>
    /\ \A i \in DOMAIN pipe : ~ pipe[i].stale /\ (pipe[i].kind = "Last" => i = Len(pipe))

LineTypes == asked \in Seq(Command) /\ pipe \in Seq(PipeLine) /\ control \in ControlType

LineFacts ==
    /\ LineTypes
    /\ pc \in Resting \cup {"spawn", "wipe", "connect", "cookie", "poll", "add_onion"} => Quiet
    /\ pc \in Resting \cup {"spawn", "wipe"} => control = Closed
    /\ pc \in Awaiting => OneExchange
    /\ ~ misread

\* What a field says of Tor is true, or does not parse.
Honest(f) ==
    /\ f.key = "PROGRESS" => f.value <= tor.progress \/ f.value = Done + 1
    /\ f.key = "ServiceID" /\ f.value = 1 => tor.onion

TorTypes ==
    /\ tor.progress \in 0..Done /\ tor.onion \in BOOLEAN
    /\ tor = [listening |-> tor.listening, cookie |-> tor.cookie,
              progress |-> tor.progress, onion |-> tor.onion]

PipeHonest == \A i \in DOMAIN pipe : Honest(pipe[i].data)
ReplyHonest == \A i \in DOMAIN control.acc.lines : Honest(control.acc.lines[i])

HonestLines == PipeHonest /\ ReplyHonest

HonestFacts == TorTypes /\ HonestLines

ReadyFacts ==
    /\ pc \in {"add_onion", "await_onion", "open", "reach", "session"} => tor.progress = Done
    /\ pc = "reach" => mode = "Join"
    /\ pc = "open" \/ (pc = "session" /\ mode = "Host") => onion /\ tor.onion

TorFacts == PlaceFacts /\ EndFacts /\ LineFacts /\ HonestFacts /\ ReadyFacts

ScreenType(s) ==
    /\ s = [name |-> s.name, focus |-> s.focus, text |-> s.text, complete |-> s.complete,
            stored |-> s.stored, selection |-> s.selection]
    /\ s.text = [f \in InputField |-> s.text[f]]

\* A form at each of its fields: what is locked, and what was entered on the way there.
Fits(s) ==
    \/ s.name \in {"Message", "About", "JoinPending"} /\ s.focus = "None" /\ s.complete = {}
    \/ s.name = "Menu" /\ s.focus = "None" /\ s.complete = {} /\ s.selection \in 0..3
    \/ s.name = "HostSetup" /\ s.focus = "Password" /\ s.complete = {}
    \/ s.name = "HostSetup" /\ s.focus = "Confirm" /\ s.complete = {"Password"} /\ s.stored # ""
    \/ /\ s.name = "HostSetup" /\ s.focus = "Nickname" /\ s.complete = {"Password", "Confirm"}
       /\ s.stored # ""
    \/ s.name = "JoinSetup" /\ s.focus = "Invitation" /\ s.complete = {}
    \/ s.name = "JoinSetup" /\ s.focus = "Password" /\ s.complete = {"Invitation"}
    \/ s.name = "JoinForm" /\ s.focus = "Nickname" /\ s.complete = {}
    \/ /\ s.name = "JoinForm" /\ s.focus = "Introduction" /\ s.complete = {"Nickname"}
       /\ s.text["Nickname"] # ""
    \/ s.name = "Room" /\ s.focus = "Input" /\ s.complete = {}

ScreenFacts ==
    /\ pc \in {"menu", "session"} => ScreenType(screen) /\ Fits(screen)
    /\ pc = "menu" => screen.name \in {"Menu", "Message", "About", "HostSetup", "JoinSetup"}
    /\ pc = "menu" /\ screen.name = "HostSetup" /\ screen.focus = "Nickname" =>
          screen.stored = confirmed
    /\ PasswordConfirmed

FormFacts ==
    /\ pc # "session" \/ mode = "Host" => stage = "AwaitingHostHello"
    /\ pc = "session" => screen.name \in IF mode = "Host" \/ stage = "Admitted" THEN {"Room"}
                                         ELSE {"JoinForm", "JoinPending"}
    /\ stage \in {"AwaitingHostHello", "AwaitingChallenge", "AwaitingJoinForm",
                  "AwaitingDecision", "Admitted"}
    /\ pc = "session" /\ screen.name = "JoinPending" =>
          /\ stage \in {"AwaitingHostHello", "AwaitingChallenge"} => form = own /\ own # ""
          /\ stage = "AwaitingJoinForm" => own \notin ValidNickname

ShellInv == TorFacts /\ ScreenFacts /\ FormFacts

----------------------------------------------------------------------------
(* Every step of the application is one of these steps of the Tor session, *)
(* or leaves it alone.                                                     *)

Untouched == UNCHANGED <<child, dir, tor, asked, pipe, control, onion, misread>>

\* The menu loop goes on, stops, or starts a session; a session has returned.
MenuMove ==
    /\ \/ pc = "menu" /\ pc' \in {"menu", "quit", "prepare"} /\ UNCHANGED end
       \/ pc = "ended" /\ pc' \in {"menu", "quit"}
    /\ mode' \in Mode
    /\ Untouched

TorMove ==
    \/ MenuMove \/ Prepare \/ Spawn \/ Enter \/ ManagerStep \/ BootstrapDeadline \/ Subprocess
    \/ \E how \in {"Menu", "Quit", "Failed"} : Leave(how)
    \/ UNCHANGED torVars

\* The menu loop starts a session only through its three outcomes.
LEMMA MenuMoves ==
  ASSUME MenuInput \/ MenuStops \/ Return, mode \in Mode
  PROVE  MenuMove
<1>1. CASE MenuInput
  <2>1. pc = "menu" /\ pc' \in {"menu", "quit", "prepare"} /\ UNCHANGED end /\ mode' \in Mode
    BY <1>1, SMT DEF MenuInput, Mode
  <2>2. Untouched
    BY <1>1, Zenon DEF MenuInput, Untouched
  <2>. QED  BY <2>1, <2>2 DEF MenuMove
<1>2. CASE MenuStops
  BY <1>2 DEF MenuStops, MenuMove, Untouched
<1>3. CASE Return
  BY <1>3 DEF Return, MenuMove, Untouched
<1>. QED  BY <1>1, <1>2, <1>3

\* A key ends a session by quitting the program or by going back to the menu.
LEMMA InputLeaves ==
  ASSUME SessionInput
  PROVE  (\E how \in {"Menu", "Quit", "Failed"} : Leave(how)) \/ UNCHANGED torVars
<1>. DEFINE k == Head(keys)
            o == Reacts(screen, k)
<1>1. (EndOf(k, o) # "None" /\ Leaves(EndOf(k, o))) \/ UNCHANGED torVars
  BY Zenon DEF SessionInput
<1>2. EndOf(k, o) \in {"Quit", "Menu", "None"}
  <2>. HIDE DEF k, o
  <2>. QED  BY DEF EndOf
<1>. HIDE DEF k, o
<1>. QED  BY <1>1, <1>2 DEF Leaves

\* Every step of the shell is one of the moves of the Tor manager, or leaves it
\* alone.
LEMMA StepMoves ==
  ASSUME ShellNext \/ UNCHANGED appVars, mode \in Mode
  PROVE  TorMove
<1>1. CASE MenuInput \/ MenuStops \/ Return
  BY <1>1, MenuMoves, Zenon DEF TorMove
<1>2. CASE SessionInput
  BY <1>2, InputLeaves, Zenon DEF TorMove
<1>3. CASE NoticeTor \/ SessionKeysClosed \/ SessionFails \/ JoinRefused \/ StageTimeout
  <2>1. \E how \in {"Menu", "Quit", "Failed"} : Leave(how)
    BY <1>3, Zenon DEF NoticeTor, SessionKeysClosed, SessionFails, JoinRefused, StageTimeout, LeavesAlone, Leaves
  <2>. QED  BY <2>1, Zenon DEF TorMove
<1>4. CASE Types \/ ReaderDies \/ HostHello \/ Challenge \/ JoinAccepted \/ Quit \/ UNCHANGED appVars
  <2>1. UNCHANGED torVars
    BY <1>4, Zenon DEF Types, ReaderDies, HostHello, Challenge, JoinAccepted, Quit, appVars
  <2>. QED  BY <2>1, Zenon DEF TorMove
<1>5. CASE Prepares \/ Begin \/ EnterSession \/ Manages \/ Subprocesses
  BY <1>5, Zenon DEF Prepares, Begin, EnterSession, Manages, Subprocesses, TorMove
<1>. QED  BY <1>1, <1>2, <1>3, <1>4, <1>5, Zenon DEF ShellNext

----------------------------------------------------------------------------
(* The place, the subprocess and the directory.                            *)

\* Every move keeps the manager's place and the fate of its process consistent.
LEMMA PlaceStep ==
  ASSUME PlaceFacts, EndFacts, TorMove
  PROVE  PlaceFacts' /\ EndFacts'
<1>. USE DEF PlaceFacts, EndFacts, Place, Starting, Stopping, Resting, Mode
<1>1. CASE MenuMove
  BY <1>1 DEF MenuMove, Untouched
<1>2. CASE Prepare
  BY <1>2 DEF Prepare, FailedDirectory, Go
<1>3. CASE Spawn
  BY <1>3 DEF Spawn, Go, Fail
<1>4. CASE Enter
  BY <1>4 DEF Enter, Go, Fail
<1>5. CASE BootstrapDeadline
  BY <1>5 DEF BootstrapDeadline, Fail
<1>6. CASE Subprocess
  BY <1>6 DEF Subprocess, TorAnswers, TorRuns, TorExits
<1>7. CASE \E how \in {"Menu", "Quit", "Failed"} : Leave(how)
  BY <1>7 DEF Leave
<1>8. CASE UNCHANGED torVars
  BY <1>8 DEF torVars
<1>9. CASE ManagerStep
  <2>1. CASE Connect
    BY <2>1 DEF Connect, Go, Fail
  <2>2. CASE Cookie
    BY <2>2 DEF Cookie, Go, Fail
  <2>3. CASE Authenticate
    <3>1. (pc' = pc /\ end' = end) \/ Go("poll") \/ Fail
      BY <2>3, Zenon DEF Authenticate
    <3>2. pc = "auth" /\ UNCHANGED <<mode, child, dir>>
      BY <2>3, Zenon DEF Authenticate
    <3>. QED  BY <3>1, <3>2 DEF Go, Fail
  <2>4. CASE Poll
    BY <2>4 DEF Poll, Go, Fail
  <2>5. CASE Bootstrap
    <3>1. \/ pc' = pc /\ end' = end
          \/ Fail
          \/ pc' = "poll"
          \/ Started
      BY <2>5, Zenon DEF Bootstrap, BootstrapReply
    <3>2. pc = "bootstrap" /\ UNCHANGED <<mode, child, dir>>
      BY <2>5, Zenon DEF Bootstrap
    <3>. QED  BY <3>1, <3>2 DEF Fail, Started
  <2>6. CASE AddOnion
    BY <2>6 DEF AddOnion, Go
  <2>7. CASE AwaitOnion
    <3>1. (pc' = pc /\ end' = end) \/ Go("open") \/ Fail
      BY <2>7, Zenon DEF AwaitOnion
    <3>2. pc = "await_onion" /\ UNCHANGED <<mode, child, dir>>
      BY <2>7, Zenon DEF AwaitOnion
    <3>. QED  BY <3>1, <3>2 DEF Go, Fail
  <2>8. CASE DelOnion
    BY <2>8 DEF DelOnion, Go
  <2>9. CASE SignalShutdown
    BY <2>9 DEF SignalShutdown, Go
  <2>10. CASE ShutdownReply
    <3>1. (pc' = pc /\ end' = end) \/ Go(IF pc = "signal" THEN "reap" ELSE "deleted")
      BY <2>10, Zenon DEF ShutdownReply
    <3>2. pc \in {"del_onion", "signal"} /\ UNCHANGED <<mode, child, dir>>
      BY <2>10, Zenon DEF ShutdownReply
    <3>. QED  BY <3>1, <3>2 DEF Go
  <2>11. CASE Reap
    BY <2>11 DEF Reap, Go, Reaped
  <2>12. CASE Wipe
    BY <2>12 DEF Wipe, Go
  <2>. QED  BY <1>9, <2>1, <2>2, <2>3, <2>4, <2>5, <2>6, <2>7, <2>8, <2>9, <2>10, <2>11, <2>12, Zenon DEF ManagerStep
<1>. QED  BY <1>1, <1>2, <1>3, <1>4, <1>5, <1>6, <1>7, <1>8, <1>9, Zenon DEF TorMove

----------------------------------------------------------------------------
(* What Tor answers.                                                       *)

ReplyLine == [kind : Kind, code : Nat, data : FieldType]

\* A field reports Tor's own progress, or nothing that parses.
Reports(f) == f.key = "PROGRESS" => f.value \in {tor.progress, Done + 1}

\* A line that does not end its reply.
Inner(l) == l \in ReplyLine /\ l.kind # "Last" /\ Reports(l.data)

Ending(l) == l \in ReplyLine /\ Reports(l.data)

\* A reply, or the unfinished beginning of one: a last line has nothing after it.
WellFormed(lines) ==
    /\ lines \in Seq(ReplyLine)
    /\ \A i \in DOMAIN lines : /\ lines[i].kind = "Last" => i = Len(lines)
                               /\ Reports(lines[i].data)

\* A single final line is a whole reply.
LEMMA OneLine ==
  ASSUME NEW a, Ending(a)
  PROVE  WellFormed(<<a>>)
BY DEF WellFormed, Ending

\* A continuation and a final line are a whole reply.
LEMMA TwoLines ==
  ASSUME NEW a, NEW b, Inner(a), Ending(b)
  PROVE  WellFormed(<<a, b>>)
BY DEF WellFormed, Ending, Inner

\* Three continuations and a final line are a whole reply.
LEMMA FourLines ==
  ASSUME NEW a, NEW b, NEW c, NEW d, Inner(a), Inner(b), Inner(c), Ending(d)
  PROVE  WellFormed(<<a, b, c, d>>)
BY DEF WellFormed, Ending, Inner

\* A data block that never ends.
LEMMA ManyLines ==
  ASSUME NEW a, NEW b, Inner(a), Inner(b), NEW n \in Nat
  PROVE  WellFormed(<<a>> \o [i \in 1..n |-> b])
<1>. DEFINE q == [i \in 1..n |-> b]
<1>1. q \in Seq(ReplyLine) /\ Len(q) = n /\ \A i \in 1..n : q[i] = b
  BY DEF Inner
<1>2. <<a>> \in Seq(ReplyLine) /\ Len(<<a>>) = 1 /\ <<a>>[1] = a
  BY DEF Inner
<1>. HIDE DEF q
<1>3. PICK w : w = <<a>> \o q
  OBVIOUS
<1>4. w \in Seq(ReplyLine) /\ Len(w) = n + 1 /\ w[1] = a /\ \A i \in 2..(n + 1) : w[i] = q[i - 1]
  BY <1>1, <1>2, <1>3
<1>5. \A i \in DOMAIN w : w[i] = a \/ w[i] = b
  <2>. SUFFICES ASSUME NEW i \in DOMAIN w PROVE w[i] = a \/ w[i] = b
    OBVIOUS
  <2>1. i = 1 \/ (i \in 2..(n + 1) /\ i - 1 \in 1..n)
    BY <1>4
  <2>. QED  BY <1>1, <1>4, <2>1
<1>6. WellFormed(w)
  BY <1>4, <1>5 DEF WellFormed, Inner
<1>. QED  BY <1>3, <1>6 DEF q

\* Which lines end a reply and which continue it.
LEMMA LineValue ==
  ASSUME NEW code \in Nat, NEW f \in FieldType, Reports(f), tor.progress \in Nat
  PROVE  /\ Inner(Continuation(code, f)) /\ Inner(Data(code, f)) /\ Inner(Raw(f)) /\ Inner(Dot)
         /\ Ending(Last(code, f)) /\ Ending(Raw(f)) /\ Ending(Data(code, f))
<1>1. \A kind \in Kind : ControlLine(kind, code, f) \in ReplyLine /\ Reports(ControlLine(kind, code, f).data)
  BY DEF ControlLine, ReplyLine, Reports
<1>2. \A kind \in Kind : ControlLine(kind, 0, f) \in ReplyLine /\ Reports(ControlLine(kind, 0, f).data)
  BY DEF ControlLine, ReplyLine, Reports
<1>3. Inner(Continuation(code, f)) /\ Inner(Data(code, f)) /\ Ending(Last(code, f)) /\ Ending(Data(code, f))
  <2>1. "Continuation" \in Kind /\ "Data" \in Kind /\ "Last" \in Kind
    BY DEF Kind
  <2>2. Continuation(code, f).kind # "Last" /\ Data(code, f).kind # "Last"
    BY DEF ControlLine, Continuation, Data
  <2>. QED  BY <1>1, <2>1, <2>2, Zenon DEF Inner, Ending, Continuation, Data, Last
<1>4. Inner(Raw(f)) /\ Ending(Raw(f))
  <2>1. "Raw" \in Kind
    BY DEF Kind
  <2>2. Raw(f).kind # "Last"
    BY DEF ControlLine, Raw
  <2>. QED  BY <1>2, <2>1, <2>2, Zenon DEF Inner, Ending, Raw
<1>5. Inner(Dot)
  BY DEF Kind, Inner, Dot, ControlLine, ReplyLine, Reports, Text, Field, FieldType
<1>. QED  BY <1>3, <1>4, <1>5

\* The fields Tor reports are true of its state.
LEMMA FieldValues ==
  ASSUME tor.progress \in Nat, NEW v \in {0, 1}
  PROVE  /\ Text \in FieldType /\ Reports(Text)
         /\ Field("authenticated", 1) \in FieldType /\ Reports(Field("authenticated", 1))
         /\ Field("PROGRESS", tor.progress) \in FieldType /\ Reports(Field("PROGRESS", tor.progress))
         /\ Field("PROGRESS", Done + 1) \in FieldType /\ Reports(Field("PROGRESS", Done + 1))
         /\ Field("ServiceID", v) \in FieldType /\ Reports(Field("ServiceID", v))
<1>1. Text \in FieldType /\ Reports(Text)
  BY DEF Text, Field, FieldType, Reports
<1>2. Field("authenticated", 1) \in FieldType /\ Reports(Field("authenticated", 1))
  BY DEF Field, FieldType, Reports
<1>3. Field("PROGRESS", tor.progress) \in FieldType /\ Reports(Field("PROGRESS", tor.progress))
  BY DEF Field, FieldType, Reports
<1>4. Field("PROGRESS", Done + 1) \in FieldType /\ Reports(Field("PROGRESS", Done + 1))
  BY TorAssumption DEF Field, FieldType, Reports
<1>5. Field("ServiceID", v) \in FieldType /\ Reports(Field("ServiceID", v))
  BY DEF Field, FieldType, Reports
<1>. QED  BY <1>1, <1>2, <1>3, <1>4, <1>5

\* Every answer of Tor is one reply, and what it reports is so.
LEMMA AnswersWellFormed ==
  ASSUME NEW cmd, NEW lines \in Answers(cmd), tor.progress \in Nat
  PROVE  WellFormed(lines)
<1>. HIDE DEF Text
<1>1. CASE cmd = "AUTHENTICATE"
  <2>1. lines \in {<<Last(250, Text)>>, <<Last(515, Text)>>, <<Last(513, Field("authenticated", 1))>>}
    BY <1>1, Zenon DEF Answers
  <2>2. Ending(Last(250, Text)) /\ Ending(Last(515, Text)) /\ Ending(Last(513, Field("authenticated", 1)))
    BY FieldValues, LineValue
  <2>. QED  BY <2>1, <2>2, OneLine, Zenon
<1>2. CASE cmd = "GETINFO"
  <2>. DEFINE p == Field("PROGRESS", tor.progress)
              u == Field("PROGRESS", Done + 1)
  <2>1. \/ lines = <<Continuation(250, p), Last(250, Text)>>
        \/ lines = <<Data(250, Text), Raw(p), Dot, Last(250, Text)>>
        \/ lines = <<Continuation(250, u), Last(250, Text)>>
        \/ lines = <<Continuation(250, p), Last(551, Text)>>
        \/ lines = <<Raw(Text)>>
        \/ lines = <<Data(250, Text)>> \o [i \in 1..MaxReplyLines |-> Raw(Text)]
    <3>1. Answers(cmd) = {<<Continuation(250, p), Last(250, Text)>>,
                          <<Data(250, Text), Raw(p), Dot, Last(250, Text)>>,
                          <<Continuation(250, u), Last(250, Text)>>,
                          <<Continuation(250, p), Last(551, Text)>>,
                          <<Raw(Text)>>,
                          <<Data(250, Text)>> \o [i \in 1..MaxReplyLines |-> Raw(Text)]}
      BY <1>2 DEF Answers
    <3>. HIDE DEF p, u
    <3>. QED  BY <3>1, Zenon
  <2>2. p \in FieldType /\ Reports(p) /\ u \in FieldType /\ Reports(u) /\ Text \in FieldType /\ Reports(Text)
    BY FieldValues
  <2>. HIDE DEF p, u
  <2>3. /\ Inner(Continuation(250, p)) /\ Inner(Data(250, Text)) /\ Inner(Raw(p)) /\ Inner(Dot)
        /\ Inner(Continuation(250, u)) /\ Inner(Raw(Text)) /\ Ending(Raw(Text))
        /\ Ending(Last(250, Text)) /\ Ending(Last(551, Text))
    BY <2>2, LineValue
  <2>4. CASE lines = <<Data(250, Text)>> \o [i \in 1..MaxReplyLines |-> Raw(Text)]
    <3>1. WellFormed(<<Data(250, Text)>> \o [i \in 1..MaxReplyLines |-> Raw(Text)])
      BY <2>3, ManyLines, TorAssumption
    <3>. QED  BY <3>1, <2>4, Zenon
  <2>5. CASE lines = <<Continuation(250, p), Last(250, Text)>>
    <3>1. WellFormed(<<Continuation(250, p), Last(250, Text)>>)
      BY <2>3, TwoLines
    <3>. QED  BY <3>1, <2>5, Zenon
  <2>6. CASE lines = <<Continuation(250, u), Last(250, Text)>>
    <3>1. WellFormed(<<Continuation(250, u), Last(250, Text)>>)
      BY <2>3, TwoLines
    <3>. QED  BY <3>1, <2>6, Zenon
  <2>7. CASE lines = <<Continuation(250, p), Last(551, Text)>>
    <3>1. WellFormed(<<Continuation(250, p), Last(551, Text)>>)
      BY <2>3, TwoLines
    <3>. QED  BY <3>1, <2>7, Zenon
  <2>8. CASE lines = <<Data(250, Text), Raw(p), Dot, Last(250, Text)>>
    <3>1. WellFormed(<<Data(250, Text), Raw(p), Dot, Last(250, Text)>>)
      BY <2>3, FourLines
    <3>. QED  BY <3>1, <2>8, Zenon
  <2>9. CASE lines = <<Raw(Text)>>
    <3>1. WellFormed(<<Raw(Text)>>)
      BY <2>3, OneLine
    <3>. QED  BY <3>1, <2>9, Zenon
  <2>. QED  BY <2>1, <2>4, <2>5, <2>6, <2>7, <2>8, <2>9, Zenon
<1>3. CASE cmd = "ADD_ONION"
  <2>1. \/ \E v \in {0, 1} : lines = <<Continuation(250, Field("ServiceID", v)), Last(250, Text)>>
        \/ lines \in {<<Last(250, Text)>>, <<Last(512, Text)>>}
    <3>1. Answers(cmd) = {<<Continuation(250, Field("ServiceID", v)), Last(250, Text)>> : v \in {0, 1}}
                         \cup {<<Last(250, Text)>>, <<Last(512, Text)>>}
      BY <1>3 DEF Answers
    <3>2. \/ lines \in {<<Continuation(250, Field("ServiceID", v)), Last(250, Text)>> : v \in {0, 1}}
          \/ lines \in {<<Last(250, Text)>>, <<Last(512, Text)>>}
      BY <3>1, Zenon
    <3>. QED  BY <3>2, Zenon
  <2>2. Ending(Last(250, Text)) /\ Ending(Last(512, Text))
    BY FieldValues, LineValue
  <2>3. \A v \in {0, 1} : Inner(Continuation(250, Field("ServiceID", v)))
    BY FieldValues, LineValue
  <2>. QED  BY <2>1, <2>2, <2>3, OneLine, TwoLines, Zenon
<1>4. CASE cmd \notin {"AUTHENTICATE", "GETINFO", "ADD_ONION"}
  <2>1. lines \in {<<Last(250, Text)>>, <<Last(552, Text)>>}
    BY <1>4, Zenon DEF Answers
  <2>2. Ending(Last(250, Text)) /\ Ending(Last(552, Text))
    BY FieldValues, LineValue
  <2>. QED  BY <2>1, <2>2, OneLine, Zenon
<1>. QED  BY <1>1, <1>2, <1>3, <1>4, Zenon

----------------------------------------------------------------------------
(* The control connection: commands, replies read line by line, and Tor.   *)

\* Commands waiting in the pipe stay commands when they become stale.
LEMMA AgedCommands ==
  ASSUME NEW q \in Seq(Command)
  PROVE  Aged(q) \in Seq(Command)
<1>1. \A i \in DOMAIN q : [q[i] EXCEPT !.stale = TRUE] \in Command
  <2>1. \A i \in DOMAIN q : q[i] \in Command
    OBVIOUS
  <2>2. \A r \in Command : [r EXCEPT !.stale = TRUE] \in Command
    BY DEF Command
  <2>. QED  BY <2>1, <2>2, Zenon
<1>2. DOMAIN q = 1..Len(q) /\ Len(q) \in Nat
  OBVIOUS
<1>. QED  BY <1>1, <1>2 DEF Aged

\* Lines waiting in the pipe keep their content when they become stale.
LEMMA AgedLines ==
  ASSUME NEW q \in Seq(PipeLine)
  PROVE  /\ Aged(q) \in Seq(PipeLine)
         /\ DOMAIN Aged(q) = DOMAIN q
         /\ \A i \in DOMAIN q : Aged(q)[i].data = q[i].data
<1>1. \A i \in DOMAIN q : /\ [q[i] EXCEPT !.stale = TRUE] \in PipeLine
                           /\ [q[i] EXCEPT !.stale = TRUE].data = q[i].data
  <2>1. \A i \in DOMAIN q : q[i] \in PipeLine
    OBVIOUS
  <2>2. \A r \in PipeLine : [r EXCEPT !.stale = TRUE] \in PipeLine /\ [r EXCEPT !.stale = TRUE].data = r.data
    BY DEF PipeLine
  <2>. QED  BY <2>1, <2>2, Zenon
<1>2. DOMAIN q = 1..Len(q) /\ Len(q) \in Nat
  OBVIOUS
<1>3. Aged(q) \in Seq(PipeLine)
  BY <1>1, <1>2 DEF Aged
<1>4. DOMAIN Aged(q) = DOMAIN q /\ \A i \in DOMAIN q : Aged(q)[i] = [q[i] EXCEPT !.stale = TRUE]
  BY Zenon DEF Aged
<1>. QED  BY <1>1, <1>3, <1>4

\* A reply of which no line has been read.
LEMMA NoReplyType ==
  NoReply \in Accumulator /\ NoReply.lines = <<>> /\ ~ NoReply.stale
BY DEF NoReply, Accumulator

\* A control connection that is closed holds no reply.
LEMMA ClosedType ==
  Closed \in ControlType /\ Closed.acc = NoReply
BY NoReplyType DEF Closed, ControlType

\* A command is the only one under way when every earlier reply was read to its end.
LEMMA IssueStep ==
  ASSUME LineTypes, HonestLines, UNCHANGED tor,
         NEW cmd \in {"AUTHENTICATE", "GETINFO", "ADD_ONION", "DEL_ONION", "SIGNAL"}, Issue(cmd)
  PROVE  LineTypes' /\ HonestLines' /\ (Quiet => OneExchange')
<1>1. control' = [control EXCEPT !.acc = NoReply] /\ pipe' = Aged(pipe)
  BY DEF Issue
<1>2. control' \in ControlType /\ control'.acc = NoReply
  BY <1>1, NoReplyType DEF LineTypes, ControlType
<1>3. /\ pipe' \in Seq(PipeLine) /\ DOMAIN pipe' = DOMAIN pipe
      /\ \A i \in DOMAIN pipe : pipe'[i].data = pipe[i].data
  BY <1>1, AgedLines, Zenon DEF LineTypes
<1>4. [cmd |-> cmd, stale |-> FALSE] \in Command
  BY DEF Command
<1>5. PICK c : c = [cmd |-> cmd, stale |-> FALSE] /\ c \in Command /\ ~ c.stale
  BY <1>4
<1>6. asked' = Append(Aged(asked), c) \/ asked' = asked
  BY <1>5, Zenon DEF Issue
<1>7. asked' \in Seq(Command)
  <2>1. PICK a : a = Aged(asked) /\ a \in Seq(Command)
    BY AgedCommands, Zenon DEF LineTypes
  <2>2. Append(a, c) \in Seq(Command)
    BY <1>5, <2>1
  <2>. QED  BY <1>6, <2>1, <2>2, Zenon DEF LineTypes
<1>8. LineTypes'
  BY <1>2, <1>3, <1>7 DEF LineTypes
<1>9. HonestLines'
  <2>1. PipeHonest'
    BY <1>3 DEF HonestLines, PipeHonest, Honest
  <2>2. ReplyHonest'
    BY <1>2, NoReplyType DEF ReplyHonest
  <2>. QED  BY <2>1, <2>2 DEF HonestLines
<1>10. ASSUME Quiet PROVE OneExchange'
  <2>1. pipe' = <<>>
    BY <1>3, <1>10 DEF Quiet
  <2>2. asked' = <<>> \/ asked' = <<c>>
    BY <1>5, <1>6, <1>10 DEF Quiet, Aged
  <2>3. ~ control'.acc.stale
    BY <1>2, NoReplyType
  <2>. QED  BY <1>5, <2>1, <2>2, <2>3 DEF OneExchange
<1>. QED  BY <1>8, <1>9, <1>10

\* Feed keeps what the reply said so far, and adds at most this line's field.
LEMMA FeedValue ==
  ASSUME NEW acc \in Accumulator, NEW l \in PipeLine
  PROVE  /\ Feed(acc, l) \in Accumulator
         /\ Feed(acc, l).stale = (acc.stale \/ l.stale)
         /\ \A i \in DOMAIN Feed(acc, l).lines :
               \/ Feed(acc, l).lines[i] = l.data
               \/ i \in DOMAIN acc.lines /\ Feed(acc, l).lines[i] = acc.lines[i]
<1>. DEFINE q == IF Pushes(acc, l) THEN Append(acc.lines, l.data) ELSE acc.lines
<1>1. /\ q \in Seq(FieldType)
      /\ \A i \in DOMAIN q : q[i] = l.data \/ (i \in DOMAIN acc.lines /\ q[i] = acc.lines[i])
  BY DEF Accumulator, PipeLine
<1>2. /\ (IF acc.block THEN acc.code ELSE l.code) \in Nat
      /\ (IF acc.block THEN l.kind # "Dot" ELSE l.kind = "Data") \in BOOLEAN
      /\ (acc.stale \/ l.stale) \in BOOLEAN
  BY DEF Accumulator, PipeLine
<1>3. Feed(acc, l).lines = q
  BY DEF Feed
<1>4. Feed(acc, l).stale = (acc.stale \/ l.stale)
  BY DEF Feed
<1>5. Feed(acc, l) \in Accumulator
  <2>. HIDE DEF q
  <2>. DEFINE cd == IF acc.block THEN acc.code ELSE l.code
              bk == IF acc.block THEN l.kind # "Dot" ELSE l.kind = "Data"
              st == acc.stale \/ l.stale
  <2>1. Feed(acc, l) = [code |-> cd, lines |-> q, block |-> bk, stale |-> st]
    BY Zenon DEF Feed, q
  <2>2. cd \in Nat /\ bk \in BOOLEAN /\ st \in BOOLEAN /\ q \in Seq(FieldType)
    BY <1>1, <1>2
  <2>. HIDE DEF cd, bk, st
  <2>. QED  BY <2>1, <2>2 DEF Accumulator
<1>. HIDE DEF q
<1>. QED  BY <1>1, <1>3, <1>4, <1>5, Zenon

\* One line comes off the pipe.
LEMMA ReadsValue ==
  ASSUME LineTypes, Reads
  PROVE  /\ pipe' \in Seq(PipeLine) /\ Len(pipe') = Len(pipe) - 1
         /\ \A i \in DOMAIN pipe' : i + 1 \in DOMAIN pipe /\ pipe'[i] = pipe[i + 1]
         /\ 1 \in DOMAIN pipe /\ Line = pipe[1] /\ Line \in PipeLine /\ asked' = asked
BY DEF LineTypes, Reads, Line

\* Reading a line of an honest stream keeps the reply honest.
LEMMA ReadsHonest ==
  ASSUME LineTypes, HonestLines, Reads, UNCHANGED tor
  PROVE  /\ PipeHonest'
         /\ Reply \in Accumulator /\ Reply.stale = (control.acc.stale \/ Line.stale)
         /\ \A i \in DOMAIN Reply.lines : Honest(Reply.lines[i])
<1>1. PipeHonest'
  BY ReadsValue DEF HonestLines, PipeHonest, Honest
<1>2. control.acc \in Accumulator
  BY DEF LineTypes, ControlType
<1>3. Honest(Line.data)
  BY ReadsValue DEF HonestLines, PipeHonest
<1>4. \A i \in DOMAIN Reply.lines : Reply.lines[i] = Line.data \/ (i \in DOMAIN control.acc.lines /\ Reply.lines[i] = control.acc.lines[i])
  BY <1>2, ReadsValue, FeedValue, Zenon DEF Reply
<1>5. Reply \in Accumulator /\ Reply.stale = (control.acc.stale \/ Line.stale)
  BY <1>2, ReadsValue, FeedValue, Zenon DEF Reply
<1>6. \A i \in DOMAIN Reply.lines : Honest(Reply.lines[i])
  BY <1>3, <1>4, Zenon DEF HonestLines, ReplyHonest
<1>. QED  BY <1>1, <1>5, <1>6

\* A line in the middle of a reply.
LEMMA ReadsMoreStep ==
  ASSUME LineTypes, HonestLines, ReadsMore, UNCHANGED tor
  PROVE  LineTypes' /\ HonestLines' /\ (OneExchange => OneExchange')
<1>1. Reads /\ control' = [control EXCEPT !.acc = Reply]
  BY Zenon DEF ReadsMore
<1>2. control' \in ControlType /\ control'.acc = Reply
  BY <1>1, ReadsHonest DEF LineTypes, ControlType
<1>3. LineTypes'
  BY <1>1, <1>2, ReadsValue DEF LineTypes
<1>4. ReplyHonest'
  BY <1>1, <1>2, ReadsHonest DEF ReplyHonest, Honest
<1>5. HonestLines'
  BY <1>1, <1>4, ReadsHonest DEF HonestLines
<1>6. ASSUME OneExchange PROVE OneExchange'
  <2>1. ~ Line.stale /\ asked' = <<>>
    BY <1>1, <1>6, ReadsValue DEF OneExchange
  <2>2. ~ control'.acc.stale
    BY <1>1, <1>2, <1>6, <2>1, ReadsHonest DEF OneExchange
  <2>3. \A i \in DOMAIN pipe' : ~ pipe'[i].stale /\ (pipe'[i].kind = "Last" => i = Len(pipe'))
    BY <1>1, <1>6, ReadsValue DEF OneExchange, LineTypes
  <2>. QED  BY <2>1, <2>2, <2>3 DEF OneExchange
<1>. QED  BY <1>3, <1>5, <1>6

\* The last line of a reply: it is the reply of the command under way, nothing is left
\* behind it, and what it says is so.
LEMMA ReadsReplyStep ==
  ASSUME LineTypes, HonestLines, ReadsReply, UNCHANGED tor, tor.progress \in 0..Done
  PROVE  /\ LineTypes' /\ HonestLines'
         /\ OneExchange => Quiet' /\ OneExchange' /\ ~ Reply.stale
         /\ Bootstrapped(Reply) => tor.progress = Done
         /\ ServiceId(Reply) => tor.onion
<1>1. Reads /\ control' = [control EXCEPT !.acc = NoReply] /\ Line.kind = "Last"
  BY Zenon DEF ReadsReply, Completes
<1>2. control' \in ControlType /\ control'.acc = NoReply
  BY <1>1, NoReplyType DEF LineTypes, ControlType
<1>3. LineTypes'
  BY <1>1, <1>2, ReadsValue DEF LineTypes
<1>4. ReplyHonest'
  BY <1>2, NoReplyType DEF ReplyHonest
<1>5. HonestLines'
  BY <1>1, <1>4, ReadsHonest DEF HonestLines
<1>6. ASSUME OneExchange PROVE Quiet' /\ OneExchange' /\ ~ Reply.stale
  <2>1. ~ Line.stale /\ asked' = <<>>
    BY <1>1, <1>6, ReadsValue DEF OneExchange
  <2>2. ~ Reply.stale
    BY <1>1, <1>6, <2>1, ReadsHonest DEF OneExchange
  <2>3. Len(pipe) = 1
    BY <1>1, <1>6, ReadsValue DEF OneExchange, LineTypes
  <2>4. pipe' = <<>>
    BY <1>1, <2>3, ReadsValue
  <2>5. ~ control'.acc.stale
    BY <1>2, NoReplyType
  <2>. QED  BY <2>1, <2>2, <2>4, <2>5 DEF Quiet, OneExchange
<1>7. \A i \in DOMAIN Reply.lines : Honest(Reply.lines[i])
  BY <1>1, ReadsHonest
<1>8. \A key, v : v \in FirstValue(Reply, key) =>
        \E i \in DOMAIN Reply.lines : Reply.lines[i].key = key /\ Reply.lines[i].value = v
  BY Zenon DEF FirstValue
<1>9. ASSUME Bootstrapped(Reply) PROVE tor.progress = Done
  <2>1. Done \in FirstValue(Reply, "PROGRESS")
    BY <1>9, Zenon DEF Bootstrapped, BootstrapProgress
  <2>2. PICK i \in DOMAIN Reply.lines : Reply.lines[i].key = "PROGRESS" /\ Reply.lines[i].value = Done
    BY <1>8, <2>1, Zenon
  <2>3. Done <= tor.progress \/ Done = Done + 1
    BY <1>7, <2>2, Zenon DEF Honest
  <2>. QED  BY <2>3, TorAssumption
<1>10. ASSUME ServiceId(Reply) PROVE tor.onion
  <2>1. 1 \in FirstValue(Reply, "ServiceID")
    BY <1>10, Zenon DEF ServiceId
  <2>2. PICK i \in DOMAIN Reply.lines : Reply.lines[i].key = "ServiceID" /\ Reply.lines[i].value = 1
    BY <1>8, <2>1
  <2>. QED  BY <1>7, <2>2, Zenon DEF Honest
<1>. QED  BY <1>3, <1>5, <1>6, <1>9, <1>10

\* A command that fails closes the exchange it belongs to.
LEMMA CommandErrorStep ==
  ASSUME LineTypes, HonestLines, CommandError, UNCHANGED tor
  PROVE  LineTypes' /\ HonestLines'
<1>1. CASE Reads /\ UNCHANGED control
  <2>1. ReplyHonest'
    BY <1>1 DEF HonestLines, ReplyHonest, Honest
  <2>. QED  BY <1>1, <2>1, ReadsValue, ReadsHonest DEF LineTypes, HonestLines
<1>2. CASE /\ UNCHANGED <<pipe, asked>>
           /\ control' = [control EXCEPT !.poisoned = TRUE] \/ UNCHANGED control
  <2>1. control' \in ControlType /\ control'.acc = control.acc
    BY <1>2 DEF LineTypes, ControlType
  <2>2. LineTypes'
    BY <1>2, <2>1 DEF LineTypes
  <2>3. PipeHonest'
    BY <1>2 DEF HonestLines, PipeHonest, Honest
  <2>4. ReplyHonest'
    BY <2>1 DEF HonestLines, ReplyHonest, Honest
  <2>. QED  BY <2>2, <2>3, <2>4 DEF HonestLines
<1>. QED  BY <1>1, <1>2, Zenon DEF CommandError, CommandTimeout

\* The lines of an answer go into the pipe with the age of the command they answer.
LEMMA StampedValue ==
  ASSUME NEW lines, WellFormed(lines), NEW st \in BOOLEAN, NEW w, w = Stamped(lines, st)
  PROVE  /\ w \in Seq(PipeLine) /\ Len(w) = Len(lines)
         /\ \A i \in DOMAIN lines : /\ w[i].kind = lines[i].kind
                                    /\ w[i].data = lines[i].data
                                    /\ w[i].stale = st
<1>1. DOMAIN lines = 1..Len(lines) /\ Len(lines) \in Nat
  BY DEF WellFormed
<1>. DEFINE r(i) == [kind |-> lines[i].kind, code |-> lines[i].code,
                     data |-> lines[i].data, stale |-> st]
<1>2. \A i \in DOMAIN lines : lines[i] \in ReplyLine
  BY DEF WellFormed
<1>3. \A i \in DOMAIN lines : r(i) \in PipeLine
  BY <1>2 DEF ReplyLine, PipeLine
<1>4. \A i \in DOMAIN lines : r(i).kind = lines[i].kind /\ r(i).data = lines[i].data /\ r(i).stale = st
  OBVIOUS
<1>5. w = [i \in DOMAIN lines |-> r(i)]
  BY Zenon DEF Stamped
<1>. HIDE DEF r
<1>6. w \in Seq(PipeLine) /\ Len(w) = Len(lines)
  BY <1>1, <1>3, <1>5
<1>7. \A i \in DOMAIN lines : w[i] = r(i)
  BY <1>5, Zenon
<1>. QED  BY <1>4, <1>6, <1>7, Zenon

\* Tor's answer to a command leaves the lines true of its state.
LEMMA AnswersStep ==
  ASSUME LineTypes, HonestFacts, TorAnswers
  PROVE  /\ LineTypes' /\ HonestFacts' /\ (OneExchange => OneExchange') /\ ~ Quiet
         /\ tor'.progress = tor.progress /\ (tor.onion => tor'.onion)
<1>1. asked # <<>> /\ Head(asked) \in Command /\ Head(asked).stale \in BOOLEAN /\ asked' = Tail(asked)
  <2>1. asked # <<>> /\ asked' = Tail(asked) /\ asked \in Seq(Command)
    BY Zenon DEF LineTypes, TorAnswers
  <2>2. Head(asked) \in Command
    BY <2>1
  <2>. QED  BY <2>1, <2>2 DEF Command
<1>2. PICK lines \in Answers(Head(asked).cmd) :
        /\ pipe' = pipe \o Stamped(lines, Head(asked).stale)
        /\ tor' = [tor EXCEPT !.onion = @ \/ \E i \in DOMAIN lines : lines[i].data = Field("ServiceID", 1)]
  BY Zenon DEF TorAnswers
<1>3. WellFormed(lines)
  BY <1>2, AnswersWellFormed, TorAssumption DEF HonestFacts, TorTypes
<1>4. PICK st \in BOOLEAN : st = Head(asked).stale
  BY <1>1
<1>12. PICK w : w = Stamped(lines, st)
  OBVIOUS
<1>5. /\ w \in Seq(PipeLine) /\ Len(w) = Len(lines)
      /\ \A i \in DOMAIN lines : w[i].kind = lines[i].kind /\ w[i].data = lines[i].data /\ w[i].stale = st
  BY <1>3, <1>12, StampedValue
<1>13. lines \in Seq(ReplyLine)
  BY <1>3 DEF WellFormed
<1>6. pipe' \in Seq(PipeLine) /\ pipe' = pipe \o w
  BY <1>2, <1>4, <1>12, <1>5 DEF LineTypes
<1>7. LineTypes'
  BY <1>1, <1>6 DEF LineTypes, TorAnswers
<1>8. /\ TorTypes' /\ tor'.progress = tor.progress /\ (tor.onion => tor'.onion)
      /\ (\E i \in DOMAIN lines : lines[i].data = Field("ServiceID", 1)) => tor'.onion
  <2>. DEFINE seen == \E i \in DOMAIN lines : lines[i].data = Field("ServiceID", 1)
  <2>1. tor' = [tor EXCEPT !.onion = tor.onion \/ seen] /\ seen \in BOOLEAN
    BY <1>2
  <2>. HIDE DEF seen
  <2>2. TorTypes' /\ tor'.progress = tor.progress /\ (tor.onion => tor'.onion) /\ (seen => tor'.onion)
    BY <2>1 DEF HonestFacts, TorTypes
  <2>. QED  BY <2>2 DEF seen
<1>9. ASSUME NEW f, Honest(f) PROVE Honest(f)'
  BY <1>8, <1>9 DEF Honest
<1>10. \A i \in DOMAIN lines : Honest(lines[i].data)'
  <2>. SUFFICES ASSUME NEW i \in DOMAIN lines PROVE Honest(lines[i].data)'
    OBVIOUS
  <2>7. lines[i] \in ReplyLine
    BY <1>13
  <2>1. lines[i].data \in FieldType
    BY <2>7 DEF ReplyLine
  <2>2. PICK f : f = lines[i].data
    OBVIOUS
  <2>3. f \in FieldType /\ Reports(f)
    BY <1>3, <2>1, <2>2 DEF WellFormed
  <2>4. f.key = "PROGRESS" => f.value <= tor'.progress \/ f.value = Done + 1
    BY <1>8, <2>3, TorAssumption DEF Reports, HonestFacts, TorTypes, FieldType
  <2>5. f.key = "ServiceID" /\ f.value = 1 => f = Field("ServiceID", 1)
    BY <2>3 DEF FieldType, Field
  <2>6. Honest(f)'
    BY <1>8, <2>2, <2>4, <2>5, Zenon DEF Honest
  <2>. QED  BY <2>2, <2>6, Zenon
<1>14. ASSUME NEW i \in DOMAIN pipe'
       PROVE  \/ i \in DOMAIN pipe /\ pipe'[i] = pipe[i]
              \/ /\ i - Len(pipe) \in DOMAIN lines /\ pipe'[i] = w[i - Len(pipe)]
                 /\ i = Len(pipe') <=> i - Len(pipe) = Len(lines)
  <2>1. pipe \in Seq(PipeLine) /\ Len(pipe') = Len(pipe) + Len(w) /\ DOMAIN lines = 1..Len(lines)
    <3>1. pipe \in Seq(PipeLine)
      BY DEF LineTypes
    <3>2. Len(pipe') = Len(pipe) + Len(w)
      <4>1. w \in Seq(PipeLine)
        BY <1>5
      <4>2. \A p, q \in Seq(PipeLine) : Len(p \o q) = Len(p) + Len(q)
        OBVIOUS
      <4>. QED  BY <1>6, <3>1, <4>1, <4>2, Zenon
    <3>3. DOMAIN lines = 1..Len(lines)
      BY <1>13
    <3>. QED  BY <3>1, <3>2, <3>3
  <2>. QED  BY <1>5, <1>6, <1>14, <2>1
<1>11. PipeHonest'
  <2>1. ASSUME NEW i \in DOMAIN pipe'
        PROVE  \E f : pipe'[i].data = f /\ Honest(f)'
    <3>1. CASE i \in DOMAIN pipe /\ pipe'[i] = pipe[i]
      <4>1. PICK f : f = pipe[i].data
        OBVIOUS
      <4>2. Honest(f)
        BY <3>1, <4>1 DEF HonestFacts, HonestLines, PipeHonest
      <4>. QED  BY <3>1, <4>1, <4>2, <1>9, Zenon
    <3>2. CASE i - Len(pipe) \in DOMAIN lines /\ pipe'[i] = w[i - Len(pipe)]
      <4>1. PICK n : n = i - Len(pipe)
        OBVIOUS
      <4>2. n \in DOMAIN lines /\ pipe'[i] = w[n]
        BY <3>2, <4>1, Zenon
      <4>3. pipe'[i].data = lines[n].data
        BY <1>5, <4>2, Zenon
      <4>. QED  BY <1>10, <4>2, <4>3, Zenon
    <3>. QED  BY <1>14, <3>1, <3>2, Zenon
  <2>. QED  BY <2>1, Zenon DEF PipeHonest, Honest
<1>15. ReplyHonest'
  <2>1. control' = control
    BY DEF TorAnswers
  <2>2. \A i \in DOMAIN control.acc.lines : \E f : control.acc.lines[i] = f /\ Honest(f)'
    BY <1>9, Zenon DEF HonestFacts, HonestLines, ReplyHonest
  <2>. QED  BY <2>1, <2>2, Zenon DEF ReplyHonest, Honest
<1>16. ~ Quiet
  BY <1>1 DEF Quiet
<1>17. ASSUME OneExchange PROVE OneExchange'
  <2>1. Len(asked) = 1 /\ pipe = <<>> /\ ~ st /\ asked' = <<>>
    BY <1>1, <1>4, <1>17 DEF OneExchange, LineTypes
  <2>2. pipe' = w
    BY <1>5, <1>6, <2>1
  <2>3. \A i \in DOMAIN w : ~ w[i].stale /\ (w[i].kind = "Last" => i = Len(w))
    <3>1. DOMAIN w = DOMAIN lines
      BY <1>5, <1>13
    <3>. QED  BY <1>3, <1>5, <2>1, <3>1, Zenon DEF WellFormed
  <2>4. ~ control'.acc.stale
    BY <1>17 DEF OneExchange, TorAnswers
  <2>. QED  BY <2>1, <2>2, <2>3, <2>4, Zenon DEF OneExchange
<1>. QED  BY <1>7, <1>8, <1>11, <1>15, <1>16, <1>17 DEF HonestFacts, HonestLines

\* Tor's own progress never unsays what it has reported.
LEMMA RunsStep ==
  ASSUME LineTypes, HonestFacts, TorRuns \/ TorExits
  PROVE  /\ LineTypes' /\ HonestFacts' /\ (OneExchange => OneExchange') /\ (Quiet => Quiet')
         /\ tor.progress = Done => tor'.progress = Done
         /\ tor.onion => tor'.onion
<1>1. /\ TorTypes' /\ tor.progress <= tor'.progress /\ tor'.onion = tor.onion
      /\ tor.progress = Done => tor'.progress = Done
  <2>1. CASE TorRuns
    BY <2>1, TorAssumption DEF TorRuns, HonestFacts, TorTypes
  <2>2. CASE TorExits
    BY <2>2 DEF TorExits, HonestFacts, TorTypes
  <2>. QED  BY <2>1, <2>2
<1>2. UNCHANGED <<pipe, control>> /\ (asked' = asked \/ asked' = <<>>)
  BY DEF TorRuns, TorExits
<1>3. LineTypes' /\ (OneExchange => OneExchange') /\ (Quiet => Quiet')
  <2>1. CASE asked' = asked
    BY <1>2, <2>1 DEF LineTypes, OneExchange, Quiet
  <2>2. CASE asked' = <<>>
    BY <1>2, <2>2 DEF LineTypes, OneExchange, Quiet
  <2>. QED  BY <1>2, <2>1, <2>2
<1>4. ASSUME NEW f \in FieldType, Honest(f) PROVE Honest(f)'
  BY <1>1, <1>4, TorAssumption DEF Honest, FieldType, HonestFacts, TorTypes
<1>5. PipeHonest'
  <2>1. \A i \in DOMAIN pipe : pipe[i].data \in FieldType
    <3>1. \A i \in DOMAIN pipe : pipe[i] \in PipeLine
      BY DEF LineTypes
    <3>. QED  BY <3>1 DEF PipeLine
  <2>2. \A i \in DOMAIN pipe : \E f : pipe[i].data = f /\ Honest(f)'
    BY <1>4, <2>1, Zenon DEF HonestFacts, HonestLines, PipeHonest
  <2>. QED  BY <1>2, <2>2 DEF PipeHonest, Honest
<1>6. ReplyHonest'
  <2>1. \A i \in DOMAIN control.acc.lines : control.acc.lines[i] \in FieldType
    <3>1. control.acc.lines \in Seq(FieldType)
      BY DEF LineTypes, ControlType, Accumulator
    <3>. QED  BY <3>1
  <2>2. \A i \in DOMAIN control.acc.lines : \E f : control.acc.lines[i] = f /\ Honest(f)'
    BY <1>4, <2>1, Zenon DEF HonestFacts, HonestLines, ReplyHonest
  <2>. QED  BY <1>2, <2>2 DEF ReplyHonest, Honest
<1>. QED  BY <1>1, <1>3, <1>5, <1>6 DEF HonestFacts, HonestLines

\* A step that does not touch the connection or Tor.
LEMMA IdleStep ==
  ASSUME LineTypes, HonestFacts, UNCHANGED <<asked, pipe, control, tor>>
  PROVE  /\ LineTypes' /\ HonestFacts' /\ (OneExchange => OneExchange') /\ (Quiet => Quiet')
<1>1. LineTypes' /\ (OneExchange => OneExchange') /\ (Quiet => Quiet')
  BY DEF LineTypes, OneExchange, Quiet
<1>2. HonestFacts'
  BY DEF HonestFacts, TorTypes, HonestLines, PipeHonest, ReplyHonest, Honest
<1>. QED  BY <1>1, <1>2

\* Tor's state keeps its type when it does not move.
LEMMA TorTypesKept ==
  ASSUME TorTypes, UNCHANGED tor
  PROVE  TorTypes'
BY DEF TorTypes

\* A fresh connection, or none.
LEMMA ClosedStep ==
  ASSUME LineTypes, control' = [Closed EXCEPT !.open = TRUE] \/ control' = Closed
  PROVE  control' \in ControlType /\ ReplyHonest'
<1>1. control' \in ControlType /\ control'.acc = NoReply
  BY ClosedType, NoReplyType DEF ControlType, Closed
<1>2. ReplyHonest'
  BY <1>1, NoReplyType DEF ReplyHonest
<1>. QED  BY <1>1, <1>2

\* What a step that reads a reply, or fails to, does to the connection.
LEMMA ReplyStep ==
  ASSUME LineTypes, HonestFacts, OneExchange, ~ misread, UNCHANGED tor,
         \/ ReadsMore /\ pc' = pc /\ UNCHANGED misread
         \/ ReadsReply /\ Uses(Reply)
         \/ CommandError /\ Fail /\ UNCHANGED misread
  PROVE  /\ LineTypes' /\ HonestFacts' /\ ~ misread'
         /\ \/ pc' = pc /\ OneExchange'
            \/ Quiet' /\ OneExchange'
            \/ pc' = "shutdown"
<1>1. TorTypes' /\ TorTypes /\ HonestLines /\ tor.progress \in 0..Done
  BY TorTypesKept DEF HonestFacts, TorTypes
<1>2. CASE ReadsMore /\ pc' = pc /\ UNCHANGED misread
  BY <1>1, <1>2, ReadsMoreStep, Zenon DEF HonestFacts
<1>3. CASE ReadsReply /\ Uses(Reply)
  <2>1. LineTypes' /\ HonestLines' /\ Quiet' /\ OneExchange' /\ ~ Reply.stale
    BY <1>1, <1>3, ReadsReplyStep
  <2>. QED  BY <1>1, <1>3, <2>1, Zenon DEF HonestFacts, Uses
<1>4. CASE CommandError /\ Fail /\ UNCHANGED misread
  BY <1>1, <1>4, CommandErrorStep, Zenon DEF HonestFacts, Fail
<1>. QED  BY <1>2, <1>3, <1>4

\* How an issued command leaves the connection.
LEMMA CommandStep ==
  ASSUME LineTypes, HonestFacts, UNCHANGED tor,
         NEW cmd \in {"AUTHENTICATE", "GETINFO", "ADD_ONION", "DEL_ONION", "SIGNAL"}, Issue(cmd)
  PROVE  LineTypes' /\ HonestFacts' /\ (Quiet => OneExchange')
BY IssueStep, TorTypesKept DEF HonestFacts

\* Every move keeps the control conversation well formed and honest.
LEMMA LineStep ==
  ASSUME PlaceFacts, LineFacts, HonestFacts, TorMove
  PROVE  LineFacts' /\ HonestFacts'
<1>0. LineTypes /\ ~ misread
  BY DEF LineFacts
<1>. USE DEF Resting, Awaiting
<1>1. CASE MenuMove
  <2>1. UNCHANGED <<asked, pipe, control, tor, misread>> /\ pc \in Resting /\ pc' \in Resting
    BY <1>1 DEF MenuMove, Untouched
  <2>2. Quiet /\ control = Closed
    BY <2>1 DEF LineFacts
  <2>. QED  BY <1>0, <2>1, <2>2, IdleStep DEF LineFacts
<1>2. CASE Prepare
  <2>1. UNCHANGED <<asked, pipe, control, tor, misread>> /\ pc = "prepare" /\ pc' \in {"spawn", "ended"}
    BY <1>2 DEF Prepare, Go
  <2>2. Quiet /\ control = Closed
    BY <2>1 DEF LineFacts
  <2>. QED  BY <1>0, <2>1, <2>2, IdleStep DEF LineFacts
<1>3. CASE Spawn
  <2>1. UNCHANGED <<asked, pipe, control, tor, misread>> /\ pc = "spawn" /\ pc' \in {"connect", "shutdown"}
    BY <1>3 DEF Spawn, Go, Fail
  <2>2. Quiet /\ control = Closed
    BY <2>1 DEF LineFacts
  <2>. QED  BY <1>0, <2>1, <2>2, IdleStep DEF LineFacts
<1>4. CASE Enter \/ BootstrapDeadline \/ \E how \in {"Menu", "Quit", "Failed"} : Leave(how)
  <2>1. UNCHANGED <<asked, pipe, control, tor, misread>> /\ pc' \in {"session", "shutdown"}
    BY <1>4 DEF Enter, BootstrapDeadline, Leave, Go, Fail
  <2>. QED  BY <1>0, <2>1, IdleStep DEF LineFacts
<1>5. CASE TorAnswers
  <2>1. UNCHANGED <<control, misread, pc>> /\ pc' = pc /\ child = "Running"
    BY <1>5 DEF TorAnswers
  <2>2. LineTypes' /\ HonestFacts' /\ (OneExchange => OneExchange') /\ ~ Quiet
    BY <1>0, <1>5, AnswersStep
  <2>. QED  BY <1>0, <2>1, <2>2 DEF LineFacts
<1>6. CASE TorRuns \/ TorExits
  <2>1. UNCHANGED <<control, misread, pc>>
    BY <1>6 DEF TorRuns, TorExits
  <2>2. LineTypes' /\ HonestFacts' /\ (OneExchange => OneExchange') /\ (Quiet => Quiet')
    BY <1>0, <1>6, RunsStep
  <2>. QED  BY <1>0, <2>1, <2>2 DEF LineFacts
<1>7. CASE UNCHANGED torVars
  <2>1. UNCHANGED <<asked, pipe, control, tor, misread, pc>>
    BY <1>7 DEF torVars
  <2>. QED  BY <1>0, <2>1, IdleStep DEF LineFacts
<1>8. CASE ManagerStep
  <2>1. CASE Connect
    <3>1. UNCHANGED <<asked, pipe, tor, misread>> /\ pc = "connect" /\ pc' \in {"cookie", "shutdown"}
      BY <2>1 DEF Connect, Go, Fail
    <3>2. Quiet
      BY <3>1 DEF LineFacts
    <3>3. CASE UNCHANGED control
      BY <1>0, <3>1, <3>2, <3>3, IdleStep DEF LineFacts
    <3>4. CASE control' = [Closed EXCEPT !.open = TRUE]
      <4>1. control' \in ControlType /\ ReplyHonest'
        BY <1>0, <3>4, ClosedStep
      <4>2. LineTypes' /\ Quiet'
        BY <1>0, <3>1, <3>2, <4>1 DEF LineTypes, Quiet
      <4>3. PipeHonest'
        BY <4>2 DEF PipeHonest, Quiet
      <4>4. HonestFacts'
        BY <3>1, <4>1, <4>3, TorTypesKept DEF HonestFacts, HonestLines
      <4>. QED  BY <1>0, <3>1, <4>2, <4>4 DEF LineFacts
    <3>. QED  BY <2>1, <3>3, <3>4, Zenon DEF Connect
  <2>2. CASE Cookie \/ Poll \/ AddOnion
    <3>1. UNCHANGED <<tor, misread>> /\ pc \in {"cookie", "poll", "add_onion"}
      BY <2>2 DEF Cookie, Poll, AddOnion
    <3>2. Quiet
      BY <3>1 DEF LineFacts
    <3>3. \/ /\ \E cmd \in {"AUTHENTICATE", "GETINFO", "ADD_ONION", "DEL_ONION", "SIGNAL"} : Issue(cmd)
             /\ pc' \in Awaiting
          \/ UNCHANGED <<asked, pipe, control>> /\ pc' = "shutdown"
      <4>1. CASE Cookie
        BY <4>1 DEF Cookie, Go, Fail
      <4>2. CASE Poll
        BY <4>2 DEF Poll, Go, Fail
      <4>3. CASE AddOnion
        BY <4>3 DEF AddOnion, Go
      <4>. QED  BY <2>2, <4>1, <4>2, <4>3
    <3>4. CASE /\ \E cmd \in {"AUTHENTICATE", "GETINFO", "ADD_ONION", "DEL_ONION", "SIGNAL"} : Issue(cmd)
               /\ pc' \in Awaiting
      <4>1. LineTypes' /\ HonestFacts' /\ OneExchange'
        BY <1>0, <3>1, <3>2, <3>4, CommandStep
      <4>. QED  BY <1>0, <3>1, <3>4, <4>1 DEF LineFacts
    <3>5. CASE UNCHANGED <<asked, pipe, control>> /\ pc' = "shutdown"
      BY <1>0, <3>1, <3>5, IdleStep DEF LineFacts
    <3>. QED  BY <3>3, <3>4, <3>5
  <2>3. CASE Authenticate \/ Bootstrap \/ AwaitOnion
    <3>1. UNCHANGED tor /\ pc \in Awaiting
      BY <2>3 DEF Authenticate, Bootstrap, AwaitOnion
    <3>2. OneExchange
      BY <3>1 DEF LineFacts
    <3>3. \/ ReadsMore /\ pc' = pc /\ UNCHANGED misread
          \/ ReadsReply /\ Uses(Reply)
          \/ CommandError /\ Fail /\ UNCHANGED misread
      BY <2>3, Zenon DEF Authenticate, Bootstrap, BootstrapReply, AwaitOnion
    <3>4. /\ LineTypes' /\ HonestFacts' /\ ~ misread'
          /\ (pc' = pc /\ OneExchange') \/ (Quiet' /\ OneExchange') \/ pc' = "shutdown"
      BY <1>0, <3>1, <3>2, <3>3, ReplyStep, Zenon
    <3>5. pc' \in {pc, "poll", "add_onion", "reach", "open", "shutdown"}
      <4>1. CASE Authenticate
        BY <4>1, Zenon DEF Authenticate, Go, Fail
      <4>2. CASE Bootstrap
        BY <4>2, Zenon DEF Bootstrap, BootstrapReply, Started, Go, Fail
      <4>3. CASE AwaitOnion
        BY <4>3, Zenon DEF AwaitOnion, Go, Fail
      <4>. QED  BY <2>3, <4>1, <4>2, <4>3
    <3>. QED  BY <3>1, <3>4, <3>5 DEF LineFacts
  <2>4. CASE DelOnion \/ SignalShutdown
    <3>1. UNCHANGED <<tor, misread>> /\ pc' \in {"del_onion", "deleted", "signal", "reap"}
      BY <2>4 DEF DelOnion, SignalShutdown, Go
    <3>2. \/ \E cmd \in {"AUTHENTICATE", "GETINFO", "ADD_ONION", "DEL_ONION", "SIGNAL"} : Issue(cmd)
          \/ UNCHANGED <<asked, pipe, control>>
      BY <2>4, Zenon DEF DelOnion, SignalShutdown
    <3>3. LineTypes' /\ HonestFacts'
      BY <1>0, <3>1, <3>2, CommandStep, IdleStep
    <3>. QED  BY <1>0, <3>1, <3>3 DEF LineFacts
  <2>5. CASE ShutdownReply
    <3>1. UNCHANGED <<tor, misread>> /\ pc' \in {"del_onion", "deleted", "signal", "reap"}
      <4>1. pc \in {"del_onion", "signal"} /\ UNCHANGED <<tor, misread>>
        BY <2>5, Zenon DEF ShutdownReply
      <4>2. pc' = pc \/ pc' = IF pc = "signal" THEN "reap" ELSE "deleted"
        BY <2>5, Zenon DEF ShutdownReply, Go
      <4>. QED  BY <4>1, <4>2
    <3>2. ReadsMore \/ ReadsReply \/ CommandError
      BY <2>5, Zenon DEF ShutdownReply
    <3>3. LineTypes' /\ HonestLines'
      <4>1. HonestLines /\ tor.progress \in 0..Done
        BY DEF HonestFacts, TorTypes
      <4>. QED  BY <1>0, <3>1, <3>2, <4>1, ReadsMoreStep, ReadsReplyStep, CommandErrorStep
    <3>4. HonestFacts'
      BY <3>1, <3>3, TorTypesKept DEF HonestFacts
    <3>. QED  BY <1>0, <3>1, <3>3, <3>4 DEF LineFacts
  <2>6. CASE Reap
    <3>1. pc' = "wipe" /\ control' = Closed /\ asked' = <<>> /\ pipe' = <<>> /\ UNCHANGED <<tor, misread>>
      BY <2>6 DEF Reap, Go
    <3>2. LineTypes' /\ Quiet'
      BY <3>1, ClosedType DEF LineTypes, Quiet
    <3>3. HonestFacts'
      <4>1. ReplyHonest'
        BY <1>0, <3>1, ClosedStep
      <4>2. PipeHonest'
        BY <3>1 DEF PipeHonest
      <4>. QED  BY <3>1, <4>1, <4>2, TorTypesKept DEF HonestFacts, HonestLines
    <3>. QED  BY <1>0, <3>1, <3>2, <3>3 DEF LineFacts
  <2>7. CASE Wipe
    <3>1. pc = "wipe" /\ pc' = "ended" /\ tor' = NoTor /\ UNCHANGED <<asked, pipe, control, misread>>
      BY <2>7 DEF Wipe, Go
    <3>2. Quiet /\ control = Closed
      BY <3>1 DEF LineFacts
    <3>3. LineTypes' /\ Quiet'
      BY <1>0, <3>1, <3>2 DEF LineTypes, Quiet
    <3>4. TorTypes'
      BY <3>1, TorAssumption DEF TorTypes, NoTor
    <3>5. ReplyHonest'
      BY <1>0, <3>1, <3>2, ClosedStep
    <3>6. PipeHonest'
      BY <3>1, <3>2 DEF PipeHonest, Quiet
    <3>. QED  BY <1>0, <3>1, <3>2, <3>3, <3>4, <3>5, <3>6 DEF LineFacts, HonestFacts, HonestLines
  <2>. QED  BY <1>8, <2>1, <2>2, <2>3, <2>4, <2>5, <2>6, <2>7, Zenon DEF ManagerStep
<1>. QED  BY <1>1, <1>2, <1>3, <1>4, <1>5, <1>6, <1>7, <1>8, Zenon DEF TorMove, Subprocess

\* The start goes on only with what it was waiting for.
LEMMA ReadyStep ==
  ASSUME PlaceFacts, LineFacts, HonestFacts, ReadyFacts, TorMove
  PROVE  ReadyFacts'
<1>0. LineTypes /\ HonestLines /\ tor.progress \in 0..Done /\ mode \in Mode
  BY DEF LineFacts, HonestFacts, TorTypes, PlaceFacts
<1>1. CASE MenuMove \/ Prepare \/ Spawn \/ BootstrapDeadline \/ \E how \in {"Menu", "Quit", "Failed"} : Leave(how)
  <2>1. pc' \in {"menu", "quit", "prepare", "spawn", "ended", "connect", "shutdown"}
    BY <1>1 DEF MenuMove, Prepare, Spawn, BootstrapDeadline, Leave, Go, Fail
  <2>. QED  BY <2>1 DEF ReadyFacts
<1>2. CASE Enter
  <2>1. UNCHANGED <<tor, onion, mode>> /\ pc \in {"open", "reach"} /\ pc' \in {"session", "shutdown"}
    BY <1>2 DEF Enter, Go, Fail
  <2>. QED  BY <1>0, <2>1 DEF ReadyFacts, Mode
<1>3. CASE TorAnswers
  <2>1. UNCHANGED <<pc, mode, onion>>
    BY <1>3 DEF TorAnswers
  <2>2. tor'.progress = tor.progress /\ (tor.onion => tor'.onion)
    BY <1>0, <1>3, AnswersStep
  <2>. QED  BY <2>1, <2>2 DEF ReadyFacts
<1>4. CASE TorRuns \/ TorExits
  <2>1. UNCHANGED <<pc, mode, onion>>
    BY <1>4 DEF TorRuns, TorExits
  <2>2. (tor.progress = Done => tor'.progress = Done) /\ (tor.onion => tor'.onion)
    BY <1>0, <1>4, RunsStep
  <2>. QED  BY <2>1, <2>2 DEF ReadyFacts
<1>5. CASE UNCHANGED torVars
  BY <1>5 DEF torVars, ReadyFacts
<1>6. CASE Connect \/ Cookie \/ Poll \/ Authenticate \/ DelOnion \/ SignalShutdown \/ ShutdownReply \/ Reap \/ Wipe
  <2>1. pc' \in {"cookie", "auth", "bootstrap", "poll"} \cup Stopping
    <3>1. CASE Connect \/ Cookie \/ Poll \/ DelOnion \/ SignalShutdown \/ Reap \/ Wipe
      BY <3>1 DEF Connect, Cookie, Poll, DelOnion, SignalShutdown, Reap, Wipe, Go, Fail, Stopping
    <3>2. CASE Authenticate
      <4>1. pc' = pc \/ pc' = "poll" \/ pc' = "shutdown"
        BY <3>2, Zenon DEF Authenticate, Go, Fail
      <4>2. pc = "auth"
        BY <3>2, Zenon DEF Authenticate
      <4>. QED  BY <4>1, <4>2 DEF Stopping
    <3>3. CASE ShutdownReply
      <4>1. pc' = pc \/ pc' = IF pc = "signal" THEN "reap" ELSE "deleted"
        BY <3>3, Zenon DEF ShutdownReply, Go
      <4>2. pc \in {"del_onion", "signal"}
        BY <3>3, Zenon DEF ShutdownReply
      <4>. QED  BY <4>1, <4>2 DEF Stopping
    <3>. QED  BY <1>6, <3>1, <3>2, <3>3
  <2>. QED  BY <2>1 DEF ReadyFacts, Stopping
<1>7. CASE Bootstrap
  <2>1. UNCHANGED <<tor, onion, mode>> /\ pc = "bootstrap"
    BY <1>7, Zenon DEF Bootstrap
  <2>2. \/ pc' = pc \/ pc' = "shutdown" \/ pc' = "poll"
        \/ ReadsReply /\ Bootstrapped(Reply) /\ Started
    BY <1>7, Zenon DEF Bootstrap, BootstrapReply, Fail
  <2>3. CASE pc' = pc \/ pc' = "shutdown" \/ pc' = "poll"
    BY <2>1, <2>3 DEF ReadyFacts
  <2>4. CASE ReadsReply /\ Bootstrapped(Reply) /\ Started
    <3>1. tor.progress = Done
      BY <1>0, <2>1, <2>4, ReadsReplyStep
    <3>2. pc' = "shutdown" \/ pc' = "add_onion" \/ (pc' = "reach" /\ mode = "Join")
      BY <1>0, <2>4 DEF Started, Mode
    <3>. QED  BY <2>1, <3>1, <3>2 DEF ReadyFacts
  <2>. QED  BY <2>2, <2>3, <2>4
<1>8. CASE AddOnion
  BY <1>8 DEF AddOnion, Go, ReadyFacts
<1>9. CASE AwaitOnion
  <2>1. UNCHANGED <<tor, mode>> /\ pc = "await_onion"
    BY <1>9, Zenon DEF AwaitOnion
  <2>2. \/ pc' = pc \/ pc' = "shutdown"
        \/ ReadsReply /\ ServiceId(Reply) /\ pc' = "open" /\ onion' = TRUE
    BY <1>9, Zenon DEF AwaitOnion, Go, Fail
  <2>3. CASE pc' = pc \/ pc' = "shutdown"
    BY <2>1, <2>3 DEF ReadyFacts
  <2>4. CASE ReadsReply /\ ServiceId(Reply) /\ pc' = "open" /\ onion' = TRUE
    <3>1. tor.onion
      BY <1>0, <2>1, <2>4, ReadsReplyStep
    <3>. QED  BY <2>1, <2>4, <3>1 DEF ReadyFacts
  <2>. QED  BY <2>2, <2>3, <2>4
<1>. QED  BY <1>1, <1>2, <1>3, <1>4, <1>5, <1>6, <1>7, <1>8, <1>9, Zenon DEF TorMove, ManagerStep, Subprocess

\* Every step of the shell keeps the manager's invariant.
LEMMA TorStep ==
  ASSUME TorFacts, ShellNext \/ UNCHANGED appVars
  PROVE  TorFacts'
<1>1. TorMove
  BY StepMoves DEF TorFacts, PlaceFacts
<1>. QED  BY <1>1, PlaceStep, LineStep, ReadyStep DEF TorFacts

\* The manager's invariant before Tor is started.
LEMMA TorStart ==
  ASSUME TorInit
  PROVE  TorFacts
<1>1. PlaceFacts /\ EndFacts /\ ReadyFacts
  BY DEF TorInit, PlaceFacts, EndFacts, ReadyFacts, Place, Resting, Mode, Stopping, Starting
<1>2. LineFacts
  BY ClosedType DEF TorInit, LineFacts, LineTypes, Quiet, Awaiting
<1>3. TorTypes
  BY TorAssumption DEF TorInit, TorTypes, NoTor
<1>4. HonestLines
  BY ClosedType, NoReplyType DEF TorInit, HonestLines, PipeHonest, ReplyHonest
<1>. QED  BY <1>1, <1>2, <1>3, <1>4 DEF TorFacts, HonestFacts

\* The part of the invariant about the Tor session holds in every behaviour.
LEMMA TorInvariant == ShellSpec => []TorFacts
<1>1. ShellInit => TorFacts
  BY TorStart DEF ShellInit
<1>2. TorFacts /\ [ShellNext]_appVars => TorFacts'
  BY TorStep
<1>. QED  BY <1>1, <1>2, PTL DEF ShellSpec

\* Whichever step of the start, the session or the shutdown goes wrong once the manager is
\* prepared, at the menu and outside the program no Tor process and no directory that a
\* manager owned is left, and the directory is never removed under a running Tor (app.rs
\* run_host_session, run_join_session; manager.rs shutdown).  A create_session_dir that
\* fails half-way is not covered: its directory has no owner.
THEOREM RestTheorem == ShellSpec => []NothingLeftRunning
<1>1. TorFacts => NothingLeftRunning
  BY DEF TorFacts, PlaceFacts, NothingLeftRunning, Place, Resting
<1>. QED  BY <1>1, TorInvariant, PTL

\* No reply decides anything but the command it answers, for any number of reply lines, and
\* a session runs only on a Tor that finished its bootstrap and, for a host, published the
\* service (control.rs command_inner, parser.rs ReplyAccumulator).
THEOREM RepliesTheorem == ShellSpec => []RepliesMatchCommands
<1>1. TorFacts => RepliesMatchCommands
  BY DEF TorFacts, LineFacts, ReadyFacts, RepliesMatchCommands
<1>. QED  BY <1>1, TorInvariant, PTL

----------------------------------------------------------------------------
(* The screens: what one key or one paste does to a form.                  *)

MenuScreen == {"Menu", "Message", "About", "HostSetup", "JoinSetup"}

\* Only the text of the field in focus is different.
Edited(s, t) ==
    /\ t.name = s.name /\ t.focus = s.focus /\ t.complete = s.complete
    /\ t.stored = s.stored /\ t.selection = s.selection
    /\ ScreenType(t)
    /\ \A f \in InputField : f # s.focus => t.text[f] = s.text[f]

\* A screen obtained by editing one that fits still fits.
LEMMA EditedFits ==
  ASSUME NEW s, NEW t, Edited(s, t), Fits(s)
  PROVE  Fits(t)
BY DEF Edited, Fits, InputField

\* A field of a screen is set; everything else stays.
LEMMA TextSet ==
  ASSUME NEW s, ScreenType(s), NEW g \in InputField, NEW v, NEW t, t = [s EXCEPT !.text[g] = v]
  PROVE  /\ t.name = s.name /\ t.focus = s.focus /\ t.complete = s.complete
         /\ t.stored = s.stored /\ t.selection = s.selection /\ ScreenType(t)
         /\ t.text[g] = v /\ \A f \in InputField : f # g => t.text[f] = s.text[f]
<1>1. PICK u : u = [s.text EXCEPT ![g] = v]
  OBVIOUS
<1>2. t = [s EXCEPT !.text = u]
  BY <1>1
<1>3. /\ u = [f \in InputField |-> u[f]] /\ u[g] = v
      /\ \A f \in InputField : f # g => u[f] = s.text[f]
  BY <1>1 DEF ScreenType
<1>4. /\ t.name = s.name /\ t.focus = s.focus /\ t.complete = s.complete
      /\ t.stored = s.stored /\ t.selection = s.selection /\ t.text = u
      /\ t = [name |-> t.name, focus |-> t.focus, text |-> t.text, complete |-> t.complete,
              stored |-> t.stored, selection |-> t.selection]
  BY <1>2 DEF ScreenType
<1>. QED  BY <1>3, <1>4 DEF ScreenType

\* An unchanged screen is an edited one.
LEMMA SameEdited ==
  ASSUME NEW s, ScreenType(s)
  PROVE  Edited(s, s)
BY DEF Edited

\* The focus of a screen that fits is a field, or no field at all.
LEMMA FocusType ==
  ASSUME NEW s, Fits(s)
  PROVE  s.focus \in InputField \cup {"None"} /\ s.focus \notin s.complete
BY DEF Fits, InputField

\* Typing and erasing one character are edits.
LEMMA InsertErase ==
  ASSUME NEW s, ScreenType(s), Fits(s), NEW v
  PROVE  Edited(s, Insert(s, v)) /\ Edited(s, Erase(s))
<1>1. s.focus \in InputField \cup {"None"}
  BY FocusType
<1>2. CASE s.focus = "None"
  BY <1>2, SameEdited DEF Insert, Erase, Open
<1>3. CASE s.focus \in InputField
  <2>1. ASSUME NEW g, g = s.focus, NEW w, NEW t, t = [s EXCEPT !.text[g] = w]
        PROVE  Edited(s, t)
    BY <1>3, <2>1, TextSet DEF Edited
  <2>2. Insert(s, v) = s \/ Insert(s, v) = [s EXCEPT !.text[s.focus] = v]
    BY Zenon DEF Insert
  <2>3. Erase(s) = s \/ Erase(s) = [s EXCEPT !.text[s.focus] = ""]
    BY Zenon DEF Erase
  <2>. QED  BY <2>1, <2>2, <2>3, SameEdited, Zenon
<1>. QED  BY <1>1, <1>2, <1>3

\* An editing key asks for no action.
LEMMA EditKey ==
  ASSUME NEW s, ScreenType(s), Fits(s), NEW k
  PROVE  Edit(s, k).action = "None" /\ Edited(s, Edit(s, k).screen)
<1>1. PICK t : t = CASE k.key = "Backspace" -> Erase(s) [] k.key = "Char" -> Insert(s, k.text) [] OTHER -> s
  OBVIOUS
<1>2. t = Erase(s) \/ t = Insert(s, k.text) \/ t = s
  BY <1>1
<1>3. Edited(s, t)
  BY <1>2, InsertErase, SameEdited, Zenon
<1>4. Edit(s, k) = Shows(t)
  BY <1>1, Zenon DEF Edit
<1>. QED  BY <1>3, <1>4 DEF Shows, Outcome

\* What the operations on a screen leave and change.
Same(s, t) == t.name = s.name /\ t.stored = s.stored /\ t.selection = s.selection /\ ScreenType(t)

\* Locking a field marks it complete and keeps its text.
LEMMA LockValue ==
  ASSUME NEW s, ScreenType(s), NEW t, t = Lock(s)
  PROVE  Same(s, t) /\ t.focus = s.focus /\ t.complete = s.complete \cup {s.focus} /\ t.text = s.text
BY DEF Lock, Same, ScreenType

\* Moving the focus changes nothing else.
LEMMA FocusValue ==
  ASSUME NEW s, ScreenType(s), NEW f, NEW t, t = Focus(s, f)
  PROVE  Same(s, t) /\ t.focus = f /\ t.complete = s.complete /\ t.text = s.text
BY DEF Focus, Same, ScreenType

\* Reopening a field takes its mark away.
LEMMA ReopenValue ==
  ASSUME NEW s, ScreenType(s), NEW f, NEW t, t = Reopen(s, f)
  PROVE  Same(s, t) /\ t.focus = s.focus /\ t.complete = s.complete \ {f} /\ t.text = s.text
BY DEF Reopen, Same, ScreenType

\* Storing the first password changes nothing else.
LEMMA StoreValue ==
  ASSUME NEW s, ScreenType(s), NEW v, NEW t, t = [s EXCEPT !.stored = v]
  PROVE  /\ t.name = s.name /\ t.stored = v /\ t.selection = s.selection /\ ScreenType(t)
         /\ t.focus = s.focus /\ t.complete = s.complete /\ t.text = s.text
BY DEF ScreenType

\* Clearing a field empties it and takes its mark away.
LEMMA ClearValue ==
  ASSUME NEW s, ScreenType(s), NEW f \in InputField, NEW t, t = Clear(s, f)
  PROVE  /\ Same(s, t) /\ t.focus = s.focus /\ t.complete = s.complete \ {f}
         /\ \A g \in InputField : g # f => t.text[g] = s.text[g]
<1>0. PICK e : e = ""
  OBVIOUS
<1>1. PICK r : r = [s EXCEPT !.text[f] = e]
  OBVIOUS
<1>2. /\ Same(s, r) /\ r.focus = s.focus /\ r.complete = s.complete
      /\ \A g \in InputField : g # f => r.text[g] = s.text[g]
  BY <1>1, TextSet DEF Same
<1>3. t = [r EXCEPT !.complete = r.complete \ {f}]
  BY <1>0, <1>1, <1>2 DEF Clear
<1>4. /\ t.name = r.name /\ t.focus = r.focus /\ t.complete = r.complete \ {f} /\ t.text = r.text
      /\ t.stored = r.stored /\ t.selection = r.selection /\ ScreenType(t)
  BY <1>2, <1>3 DEF Same, ScreenType
<1>. QED  BY <1>2, <1>4 DEF Same

\* Handing a field's text over empties it and marks it complete.
LEMMA SurrenderValue ==
  ASSUME NEW s, ScreenType(s), s.focus \in InputField, NEW t, t = Surrender(s)
  PROVE  Same(s, t) /\ t.focus = s.focus /\ t.complete = s.complete \cup {s.focus}
<1>1. PICK r : r = Lock(s)
  OBVIOUS
<1>2. Same(s, r) /\ r.focus = s.focus /\ r.complete = s.complete \cup {s.focus}
  BY <1>1, LockValue, Zenon
<1>3. PICK g, e : g = s.focus /\ e = ""
  OBVIOUS
<1>4. t = [r EXCEPT !.text[g] = e] /\ g \in InputField /\ ScreenType(r)
  BY <1>1, <1>2, <1>3, Zenon DEF Surrender, Same
<1>5. /\ t.name = r.name /\ t.focus = r.focus /\ t.complete = r.complete
      /\ t.stored = r.stored /\ t.selection = r.selection /\ ScreenType(t)
  BY <1>4, TextSet
<1>. QED  BY <1>2, <1>5 DEF Same

\* A password that was not confirmed starts over from the first field.
LEMMA RestartValue ==
  ASSUME NEW s, ScreenType(s), NEW t, t = RestartPasswordEntry(s)
  PROVE  ScreenType(t) /\ t.name = s.name /\ t.focus = "Password" /\ t.complete = s.complete \ {"Password", "Confirm"}
<1>1. PICK a : a = Clear(s, "Password")
  OBVIOUS
<1>2. PICK b : b = Clear(a, "Confirm")
  OBVIOUS
<1>3. Same(s, a) /\ a.complete = s.complete \ {"Password"}
  BY <1>1, ClearValue DEF InputField
<1>4. Same(a, b) /\ b.complete = a.complete \ {"Confirm"}
  BY <1>2, <1>3, ClearValue DEF InputField, Same
<1>5. t = [b EXCEPT !.stored = "", !.focus = "Password"]
  BY <1>1, <1>2, Zenon DEF RestartPasswordEntry
<1>6. ScreenType(t) /\ t.name = b.name /\ t.focus = "Password" /\ t.complete = b.complete
  BY <1>4, <1>5 DEF Same, ScreenType
<1>. QED  BY <1>3, <1>4, <1>6 DEF Same

\* A screen that was just opened.
LEMMA FreshValue ==
  ASSUME NEW name, NEW focus, NEW t, t = Screen(name, focus)
  PROVE  ScreenType(t) /\ t.name = name /\ t.focus = focus /\ t.complete = {} /\ t.selection = 0
BY DEF Screen, ScreenType

\* The screens the application opens are well typed and within their limits.
LEMMA FreshScreens ==
  ASSUME NEW t \in {Menu, Message, About, HostSetup, JoinSetup, JoinForm, JoinPending, Room}
  PROVE  ScreenType(t) /\ Fits(t)
<1>1. CASE t = Menu
  <2>1. ScreenType(t) /\ t.name = "Menu" /\ t.focus = "None" /\ t.complete = {} /\ t.selection = 0
    BY <1>1, FreshValue DEF Menu
  <2>. QED  BY <2>1 DEF Fits
<1>2. CASE t = Message
  <2>1. ScreenType(t) /\ t.name = "Message" /\ t.focus = "None" /\ t.complete = {} /\ t.selection = 0
    BY <1>2, FreshValue DEF Message
  <2>. QED  BY <2>1 DEF Fits
<1>3. CASE t = About
  <2>1. ScreenType(t) /\ t.name = "About" /\ t.focus = "None" /\ t.complete = {} /\ t.selection = 0
    BY <1>3, FreshValue DEF About
  <2>. QED  BY <2>1 DEF Fits
<1>4. CASE t = HostSetup
  <2>1. ScreenType(t) /\ t.name = "HostSetup" /\ t.focus = "Password" /\ t.complete = {} /\ t.selection = 0
    BY <1>4, FreshValue DEF HostSetup
  <2>. QED  BY <2>1 DEF Fits
<1>5. CASE t = JoinSetup
  <2>1. ScreenType(t) /\ t.name = "JoinSetup" /\ t.focus = "Invitation" /\ t.complete = {} /\ t.selection = 0
    BY <1>5, FreshValue DEF JoinSetup
  <2>. QED  BY <2>1 DEF Fits
<1>6. CASE t = JoinForm
  <2>1. ScreenType(t) /\ t.name = "JoinForm" /\ t.focus = "Nickname" /\ t.complete = {} /\ t.selection = 0
    BY <1>6, FreshValue DEF JoinForm
  <2>. QED  BY <2>1 DEF Fits
<1>7. CASE t = JoinPending
  <2>1. ScreenType(t) /\ t.name = "JoinPending" /\ t.focus = "None" /\ t.complete = {} /\ t.selection = 0
    BY <1>7, FreshValue DEF JoinPending
  <2>. QED  BY <2>1 DEF Fits
<1>8. CASE t = Room
  <2>1. ScreenType(t) /\ t.name = "Room" /\ t.focus = "Input" /\ t.complete = {} /\ t.selection = 0
    BY <1>8, FreshValue DEF Room
  <2>. QED  BY <2>1 DEF Fits
<1>. QED  BY <1>1, <1>2, <1>3, <1>4, <1>5, <1>6, <1>7, <1>8, Zenon

\* The screens the application opens, and where their focus is.
LEMMA FreshNames ==
  /\ Menu.name = "Menu" /\ Message.name = "Message" /\ About.name = "About"
  /\ HostSetup.name = "HostSetup" /\ HostSetup.focus = "Password" /\ JoinSetup.name = "JoinSetup"
  /\ JoinForm.name = "JoinForm" /\ JoinPending.name = "JoinPending" /\ Room.name = "Room"
  /\ Menu.focus = "None" /\ About.focus = "None"
BY FreshValue DEF Menu, Message, About, HostSetup, JoinSetup, JoinForm, JoinPending, Room

\* What a key may do to a screen, by the screen it is typed into.  A form that was submitted
\* is not looked at again; every other screen still fits.
KeyEffect(s, o) ==
    /\ o.action # "HostSetupSubmitted" => ScreenType(o.screen) /\ Fits(o.screen)
    /\ o.action = "HostSetupSubmitted" => s.name = "HostSetup" /\ s.focus = "Nickname"
    /\ s.name \in MenuScreen => o.screen.name \in MenuScreen
    /\ s.name = "JoinForm" => /\ o.action \in {"None", "Leave", "JoinFormSubmitted"}
                              /\ o.action # "JoinFormSubmitted" => o.screen.name = "JoinForm"
    /\ o.action = "JoinFormSubmitted" => /\ s.name = "JoinForm" /\ s.focus = "Introduction"
                                         /\ o.screen = JoinPending
    /\ s.name \in {"JoinPending", "Room"} => o.screen.name = s.name

\* The password is stored when it is entered, and the form goes on only when it is repeated.
PasswordEffect(s, o) ==
    /\ o.screen.name = "HostSetup" /\ o.screen.focus = "Nickname" =>
          /\ s.name = "HostSetup" /\ s.focus \in {"Confirm", "Nickname"}
          /\ o.screen.stored = s.stored
          /\ s.focus = "Confirm" => s.stored = Held(s)
    /\ s.focus = "Confirm" => s.name = "HostSetup"

\* An edit has the effects every key press may have, and no other.
LEMMA EditedEffect ==
  ASSUME NEW s, ScreenType(s), Fits(s), NEW o, o.action = "None", Edited(s, o.screen)
  PROVE  KeyEffect(s, o) /\ PasswordEffect(s, o)
<1>1. ScreenType(o.screen) /\ Fits(o.screen)
  BY EditedFits DEF Edited
<1>2. KeyEffect(s, o)
  BY <1>1 DEF KeyEffect, Edited
<1>3. PasswordEffect(s, o)
  BY DEF PasswordEffect, Edited, Fits
<1>. QED  BY <1>2, <1>3

\* What a key press asks for and shows.
LEMMA OutcomeValue ==
  ASSUME NEW a, NEW t, NEW o, o = Outcome(a, t)
  PROVE  o.action = a /\ o.screen = t
BY DEF Outcome

\* A key press that only changes the screen.
LEMMA ShowsValue ==
  ASSUME NEW t, NEW o, o = Shows(t)
  PROVE  o.action = "None" /\ o.screen = t
BY DEF Outcome, Shows

\* The effect of any key on the menu.
LEMMA MenuKey ==
  ASSUME NEW s, ScreenType(s), Fits(s), s.name = "Menu", NEW k, NEW o, o = OnMenuKey(s, k)
  PROVE  KeyEffect(s, o) /\ PasswordEffect(s, o)
<1>1. s.selection \in 0..3 /\ s.focus = "None"
  BY DEF Fits
<1>. DEFINE Turned(n) == [s EXCEPT !.selection = n]
<1>2. \/ \E n \in 0..3 : o = Shows(Turned(n))
      \/ o = Outcome("Quit", s)
      \/ o \in {Shows(HostSetup), Shows(JoinSetup), Shows(About)}
      \/ o = Shows(s)
  <2>1. CASE k.key = "Up"
    <3>1. (s.selection + 3) % 4 \in 0..3
      BY <1>1
    <3>2. o = Shows(Turned((s.selection + 3) % 4))
      BY <2>1 DEF OnMenuKey
    <3>. QED  BY <3>1, <3>2, Zenon
  <2>2. CASE k.key = "Down"
    <3>1. (s.selection + 1) % 4 \in 0..3
      BY <1>1
    <3>2. o = Shows(Turned((s.selection + 1) % 4))
      BY <2>2 DEF OnMenuKey
    <3>. QED  BY <3>1, <3>2, Zenon
  <2>3. CASE k.key = "Enter"
    <3>1. o = IF s.selection = 3 THEN Outcome("Quit", s) ELSE Shows(<<HostSetup, JoinSetup, About>>[s.selection + 1])
      BY <2>3 DEF OnMenuKey
    <3>2. CASE s.selection = 3
      BY <3>1, <3>2
    <3>3. CASE s.selection \in 0..2
      <4>1. <<HostSetup, JoinSetup, About>>[s.selection + 1] \in {HostSetup, JoinSetup, About}
        BY <3>3
      <4>2. o = Shows(<<HostSetup, JoinSetup, About>>[s.selection + 1])
        BY <3>1, <3>3
      <4>. QED  BY <4>1, <4>2, Zenon
    <3>. QED  BY <1>1, <3>2, <3>3
  <2>4. CASE k.key \notin {"Up", "Down", "Enter"}
    BY <2>4 DEF OnMenuKey
  <2>. QED  BY <2>1, <2>2, <2>3, <2>4
<1>3. CASE \E n \in 0..3 : o = Shows(Turned(n))
  <2>1. PICK n \in 0..3 : o = Shows(Turned(n))
    BY <1>3
  <2>2. o.action = "None" /\ o.screen = Turned(n)
    BY <2>1, ShowsValue, Zenon
  <2>3. PICK t : t = Turned(n)
    OBVIOUS
  <2>4. /\ ScreenType(t) /\ t.name = "Menu" /\ t.focus = "None" /\ t.complete = s.complete /\ t.selection = n
    BY <1>1, <2>3 DEF ScreenType
  <2>5. ScreenType(t) /\ Fits(t)
    BY <2>4 DEF Fits
  <2>. HIDE DEF Turned
  <2>. QED  BY <1>1, <2>2, <2>3, <2>4, <2>5 DEF KeyEffect, PasswordEffect, MenuScreen
<1>4. CASE o = Outcome("Quit", s) \/ o = Shows(s)
  <2>1. o.action \in {"Quit", "None"} /\ o.screen = s
    BY <1>4 DEF Outcome, Shows
  <2>. QED  BY <1>1, <2>1 DEF KeyEffect, PasswordEffect, MenuScreen
<1>5. CASE o \in {Shows(HostSetup), Shows(JoinSetup), Shows(About)}
  <2>1. o.action = "None" /\ o.screen \in {HostSetup, JoinSetup, About}
    BY <1>5, ShowsValue, Zenon
  <2>2. ScreenType(o.screen) /\ Fits(o.screen)
    BY <2>1, FreshScreens, Zenon
  <2>3. o.screen.name \in {"HostSetup", "JoinSetup", "About"} /\ (o.screen.name = "HostSetup" => o.screen.focus = "Password")
    BY <2>1, FreshNames
  <2>. QED  BY <1>1, <2>1, <2>2, <2>3 DEF KeyEffect, PasswordEffect, MenuScreen
<1>. QED  BY <1>2, <1>3, <1>4, <1>5

\* The effect of any key on the host's password screen.
LEMMA HostSetupKey ==
  ASSUME NEW s, ScreenType(s), Fits(s), s.name = "HostSetup", NEW k, NEW o, o = OnHostSetupKey(s, k)
  PROVE  KeyEffect(s, o) /\ PasswordEffect(s, o)
<1>0. s.focus \in {"Password", "Confirm", "Nickname"} /\ s.focus \in InputField
  BY DEF Fits, InputField
<1>1. CASE k.key = "Enter" /\ Submits(s) /\ s.focus = "Password"
  <2>1. Held(s) # "" /\ s.complete = {}
    BY <1>1 DEF Submits, Fits
  <2>2. PICK a : a = Surrender(s)
    OBVIOUS
  <2>3. PICK b : b = [a EXCEPT !.stored = Held(s)]
    OBVIOUS
  <2>4. PICK c : c = Focus(b, "Confirm")
    OBVIOUS
  <2>5. o.action = "None" /\ o.screen = c
    <3>1. o = Shows(Focus([Surrender(s) EXCEPT !.stored = Held(s)], "Confirm"))
      BY <1>1, Zenon DEF OnHostSetupKey
    <3>. QED  BY <2>2, <2>3, <2>4, <3>1, ShowsValue, Zenon
  <2>6. Same(s, a) /\ ScreenType(a) /\ a.complete = {"Password"}
    BY <1>0, <1>1, <2>1, <2>2, SurrenderValue DEF Same
  <2>7. ScreenType(b) /\ b.name = a.name /\ b.complete = a.complete /\ b.stored = Held(s)
    BY <2>3, <2>6, StoreValue
  <2>8. Same(b, c) /\ c.focus = "Confirm" /\ c.complete = b.complete
    BY <2>4, <2>7, FocusValue
  <2>9. ScreenType(c) /\ c.name = "HostSetup" /\ c.focus = "Confirm" /\ c.complete = {"Password"} /\ c.stored # ""
    BY <2>1, <2>6, <2>7, <2>8, Zenon DEF Same
  <2>10. Fits(c)
    BY <2>9 DEF Fits
  <2>. QED  BY <1>1, <2>5, <2>9, <2>10 DEF KeyEffect, PasswordEffect, MenuScreen
<1>2. CASE k.key = "Enter" /\ Submits(s) /\ s.focus = "Confirm"
  <2>1. s.complete = {"Password"} /\ s.stored # ""
    BY <1>2 DEF Fits
  <2>2. o = Shows(IF Matches(s) THEN Focus(Surrender(s), "Nickname") ELSE Clear(s, "Confirm"))
    BY <1>2 DEF OnHostSetupKey
  <2>3. CASE Matches(s)
    <3>1. PICK a : a = Surrender(s)
      OBVIOUS
    <3>2. PICK c : c = Focus(a, "Nickname")
      OBVIOUS
    <3>3. o.action = "None" /\ o.screen = c
      BY <2>2, <2>3, <3>1, <3>2, ShowsValue, Zenon
    <3>4. Same(s, a) /\ ScreenType(a) /\ a.complete = {"Password", "Confirm"}
      <4>1. Same(s, a) /\ ScreenType(a) /\ a.complete = s.complete \cup {s.focus}
        BY <1>0, <3>1, SurrenderValue DEF Same
      <4>. QED  BY <1>2, <2>1, <4>1
    <3>5. Same(a, c) /\ c.focus = "Nickname" /\ c.complete = a.complete
      BY <3>2, <3>4, FocusValue
    <3>6. ScreenType(c) /\ c.name = "HostSetup" /\ c.complete = {"Password", "Confirm"} /\ c.stored = s.stored
      BY <3>4, <3>5, Zenon DEF Same
    <3>7. Fits(c)
      BY <2>1, <3>5, <3>6 DEF Fits
    <3>8. s.stored = Held(s)
      BY <2>3 DEF Matches
    <3>. QED  BY <1>2, <3>3, <3>5, <3>6, <3>7, <3>8 DEF KeyEffect, PasswordEffect, MenuScreen
  <2>4. CASE ~ Matches(s)
    <3>1. PICK c : c = Clear(s, "Confirm")
      OBVIOUS
    <3>2. o.action = "None" /\ o.screen = c
      BY <2>2, <2>4, <3>1, ShowsValue, Zenon
    <3>3. Same(s, c) /\ c.focus = s.focus /\ c.complete = s.complete \ {"Confirm"}
      BY <3>1, ClearValue DEF InputField
    <3>4. ScreenType(c) /\ c.name = "HostSetup" /\ c.focus = "Confirm" /\ c.complete = {"Password"} /\ c.stored # ""
      BY <1>2, <2>1, <3>3 DEF Same
    <3>5. Fits(c)
      BY <3>4 DEF Fits
    <3>. QED  BY <1>2, <3>2, <3>4, <3>5 DEF KeyEffect, PasswordEffect, MenuScreen
  <2>. QED  BY <2>3, <2>4
<1>3. CASE k.key = "Enter" /\ Submits(s) /\ s.focus = "Nickname"
  <2>1. PICK c : c = Lock(s)
    OBVIOUS
  <2>2. o.action = "HostSetupSubmitted" /\ o.screen = c
    <3>1. o = Outcome("HostSetupSubmitted", c)
      BY <1>3, <2>1 DEF OnHostSetupKey
    <3>. QED  BY <3>1, OutcomeValue
  <2>3. Same(s, c) /\ c.focus = s.focus
    BY <2>1, LockValue, Zenon
  <2>. QED  BY <1>3, <2>2, <2>3 DEF KeyEffect, PasswordEffect, MenuScreen, Same
<1>4. CASE k.key = "Esc"
  <2>1. o = Shows(IF s.focus = "Password" THEN Menu ELSE RestartPasswordEntry(s))
    BY <1>4 DEF OnHostSetupKey
  <2>2. CASE s.focus = "Password"
    <3>1. o.action = "None" /\ o.screen = Menu
      BY <2>1, <2>2, ShowsValue
    <3>2. ScreenType(Menu) /\ Fits(Menu)
      BY FreshScreens
    <3>. QED  BY <2>2, <3>1, <3>2, FreshNames DEF KeyEffect, PasswordEffect, MenuScreen
  <2>3. CASE s.focus \in {"Confirm", "Nickname"}
    <3>1. PICK c : c = RestartPasswordEntry(s)
      OBVIOUS
    <3>2. o.action = "None" /\ o.screen = c
      BY <2>1, <2>3, <3>1, ShowsValue
    <3>3. ScreenType(c) /\ c.name = "HostSetup" /\ c.focus = "Password" /\ c.complete = s.complete \ {"Password", "Confirm"}
      BY <3>1, RestartValue
    <3>4. c.complete = {}
      BY <2>3, <3>3 DEF Fits
    <3>5. Fits(c)
      BY <3>3, <3>4 DEF Fits
    <3>. QED  BY <3>2, <3>3, <3>5 DEF KeyEffect, PasswordEffect, MenuScreen
  <2>. QED  BY <1>0, <2>2, <2>3
<1>5. CASE k.key # "Esc" /\ ~ (k.key = "Enter" /\ Submits(s))
  <2>1. o = Edit(s, k)
    BY <1>5, Zenon DEF OnHostSetupKey
  <2>. QED  BY <2>1, EditKey, EditedEffect
<1>. QED  BY <1>0, <1>1, <1>2, <1>3, <1>4, <1>5

\* The effect of any key on the link and password screen.
LEMMA JoinSetupKey ==
  ASSUME NEW s, ScreenType(s), Fits(s), s.name = "JoinSetup", NEW k, NEW o, o = OnJoinSetupKey(s, k)
  PROVE  KeyEffect(s, o) /\ PasswordEffect(s, o)
<1>0. s.focus \in {"Invitation", "Password"} /\ s.focus \in InputField
  BY DEF Fits, InputField
<1>1. CASE k.key = "Enter" /\ Submits(s) /\ s.focus = "Invitation"
  <2>1. PICK a : a = Lock(s)
    OBVIOUS
  <2>2. PICK c : c = Focus(a, "Password")
    OBVIOUS
  <2>3. o.action = "None" /\ o.screen = c
    <3>1. o = Shows(c)
      BY <1>1, <2>1, <2>2, Zenon DEF OnJoinSetupKey
    <3>. QED  BY <3>1, ShowsValue, Zenon
  <2>4. Same(s, a) /\ ScreenType(a) /\ a.complete = {"Invitation"}
    BY <1>1, <2>1, LockValue DEF Same, Fits
  <2>5. Same(a, c) /\ c.focus = "Password" /\ c.complete = a.complete
    BY <2>2, <2>4, FocusValue
  <2>6. ScreenType(c) /\ c.name = "JoinSetup" /\ c.complete = {"Invitation"}
    BY <2>4, <2>5, Zenon DEF Same
  <2>7. Fits(c)
    BY <2>5, <2>6 DEF Fits
  <2>. QED  BY <1>1, <2>3, <2>6, <2>7 DEF KeyEffect, PasswordEffect, MenuScreen
<1>2. CASE k.key = "Enter" /\ Submits(s) /\ s.focus = "Password"
  <2>1. o = Outcome("JoinSetupSubmitted", s)
    BY <1>2 DEF OnJoinSetupKey
  <2>2. o.action = "JoinSetupSubmitted" /\ o.screen = s
    BY <2>1, OutcomeValue
  <2>. QED  BY <1>2, <2>2 DEF KeyEffect, PasswordEffect, MenuScreen
<1>3. CASE k.key = "Esc"
  <2>1. o = Shows(IF s.focus = "Invitation" THEN Menu
                  ELSE Focus(Reopen(Clear(s, "Password"), "Invitation"), "Invitation"))
    BY <1>3 DEF OnJoinSetupKey
  <2>2. CASE s.focus = "Invitation"
    <3>1. o.action = "None" /\ o.screen = Menu
      BY <2>1, <2>2, ShowsValue
    <3>2. ScreenType(Menu) /\ Fits(Menu)
      BY FreshScreens
    <3>. QED  BY <2>2, <3>1, <3>2, FreshNames DEF KeyEffect, PasswordEffect, MenuScreen
  <2>3. CASE s.focus = "Password"
    <3>1. PICK a : a = Clear(s, "Password")
      OBVIOUS
    <3>2. PICK b : b = Reopen(a, "Invitation")
      OBVIOUS
    <3>3. PICK c : c = Focus(b, "Invitation")
      OBVIOUS
    <3>4. o.action = "None" /\ o.screen = c
      BY <2>1, <2>3, <3>1, <3>2, <3>3, ShowsValue
    <3>5. Same(s, a) /\ ScreenType(a) /\ a.complete = {"Invitation"}
      BY <2>3, <3>1, ClearValue DEF Same, Fits, InputField
    <3>6. Same(a, b) /\ ScreenType(b) /\ b.complete = {}
      BY <3>2, <3>5, ReopenValue DEF Same
    <3>7. Same(b, c) /\ c.focus = "Invitation" /\ c.complete = {}
      BY <3>3, <3>6, FocusValue
    <3>8. ScreenType(c) /\ c.name = "JoinSetup"
      BY <3>5, <3>6, <3>7, Zenon DEF Same
    <3>9. Fits(c)
      BY <3>7, <3>8 DEF Fits
    <3>. QED  BY <2>3, <3>4, <3>8, <3>9 DEF KeyEffect, PasswordEffect, MenuScreen
  <2>. QED  BY <1>0, <2>2, <2>3
<1>4. CASE k.key # "Esc" /\ ~ (k.key = "Enter" /\ Submits(s))
  <2>1. o = Edit(s, k)
    BY <1>4, Zenon DEF OnJoinSetupKey
  <2>. QED  BY <2>1, EditKey, EditedEffect
<1>. QED  BY <1>0, <1>1, <1>2, <1>3, <1>4

\* The effect of any key on the join form.
LEMMA JoinFormKey ==
  ASSUME NEW s, ScreenType(s), Fits(s), s.name = "JoinForm", NEW k, NEW o, o = OnJoinFormKey(s, k)
  PROVE  KeyEffect(s, o) /\ PasswordEffect(s, o)
<1>0. s.focus \in {"Nickname", "Introduction"} /\ s.focus \in InputField
  BY DEF Fits, InputField
<1>1. CASE k.key = "Enter" /\ s.focus = "Introduction"
  <2>1. o = Outcome("JoinFormSubmitted", JoinPending)
    BY <1>1 DEF OnJoinFormKey
  <2>2. o.action = "JoinFormSubmitted" /\ o.screen = JoinPending
    BY <2>1, OutcomeValue
  <2>3. ScreenType(JoinPending) /\ Fits(JoinPending)
    BY FreshScreens
  <2>. QED  BY <1>1, <2>2, <2>3, FreshNames DEF KeyEffect, PasswordEffect, MenuScreen
<1>2. CASE k.key = "Enter" /\ s.focus = "Nickname" /\ Submits(s)
  <2>1. PICK a : a = Lock(s)
    OBVIOUS
  <2>2. PICK c : c = Focus(a, "Introduction")
    OBVIOUS
  <2>3. o.action = "None" /\ o.screen = c
    <3>1. o = Shows(c)
      BY <1>2, <2>1, <2>2 DEF OnJoinFormKey
    <3>. QED  BY <3>1, ShowsValue, Zenon
  <2>4. Same(s, a) /\ ScreenType(a) /\ a.complete = {"Nickname"} /\ a.text = s.text
    BY <1>2, <2>1, LockValue DEF Same, Fits
  <2>5. Same(a, c) /\ c.focus = "Introduction" /\ c.complete = a.complete /\ c.text = a.text
    BY <2>2, <2>4, FocusValue
  <2>6. ScreenType(c) /\ c.name = "JoinForm" /\ c.complete = {"Nickname"}
    BY <2>4, <2>5, Zenon DEF Same
  <2>7. c.text["Nickname"] # ""
    BY <1>2, <2>4, <2>5 DEF Submits, Held
  <2>8. Fits(c)
    BY <2>5, <2>6, <2>7 DEF Fits
  <2>. QED  BY <1>2, <2>3, <2>6, <2>8 DEF KeyEffect, PasswordEffect, MenuScreen
<1>3. CASE k.key = "Esc" /\ s.focus = "Nickname"
  <2>1. o = Outcome("Leave", s)
    BY <1>3 DEF OnJoinFormKey
  <2>2. o.action = "Leave" /\ o.screen = s
    BY <2>1, OutcomeValue
  <2>. QED  BY <1>3, <2>2 DEF KeyEffect, PasswordEffect, MenuScreen
<1>4. CASE k.key = "Esc" /\ s.focus = "Introduction"
  <2>1. PICK b : b = Reopen(s, "Nickname")
    OBVIOUS
  <2>2. PICK c : c = Focus(b, "Nickname")
    OBVIOUS
  <2>3. o.action = "None" /\ o.screen = c
    <3>1. o = Shows(c)
      BY <1>4, <2>1, <2>2 DEF OnJoinFormKey
    <3>. QED  BY <3>1, ShowsValue, Zenon
  <2>4. Same(s, b) /\ ScreenType(b) /\ b.complete = {}
    <3>1. s.complete = {"Nickname"}
      BY <1>4 DEF Fits
    <3>. QED  BY <2>1, <3>1, ReopenValue DEF Same
  <2>5. Same(b, c) /\ c.focus = "Nickname" /\ c.complete = {}
    BY <2>2, <2>4, FocusValue
  <2>6. ScreenType(c) /\ c.name = "JoinForm"
    BY <2>4, <2>5, Zenon DEF Same
  <2>7. Fits(c)
    BY <2>5, <2>6 DEF Fits
  <2>. QED  BY <1>4, <2>3, <2>6, <2>7 DEF KeyEffect, PasswordEffect, MenuScreen
<1>5. CASE k.key # "Esc" /\ ~ (k.key = "Enter" /\ (s.focus = "Introduction" \/ Submits(s)))
  <2>1. o = Edit(s, k)
    BY <1>5 DEF OnJoinFormKey
  <2>. QED  BY <2>1, EditKey, EditedEffect
<1>. QED  BY <1>0, <1>1, <1>2, <1>3, <1>4, <1>5

\* The effect of any key in the room.
LEMMA RoomKey ==
  ASSUME NEW s, ScreenType(s), Fits(s), s.name = "Room", NEW k, NEW o, o = OnRoomKey(s, k)
  PROVE  KeyEffect(s, o) /\ PasswordEffect(s, o)
<1>0. s.focus = "Input" /\ s.complete = {}
  BY DEF Fits
<1>1. CASE k.key = "Enter" \/ k.key = "Esc"
  <2>1. PICK c : c = Clear(s, "Input")
    OBVIOUS
  <2>2. o.action \in {"Exit", "Leave", "None"} /\ o.screen = c
    <3>. DEFINE a == CASE Held(s) = "/exit" -> "Exit" [] Held(s) = "/leave" /\ mode = "Join" -> "Leave" [] OTHER -> "None"
    <3>1. a \in {"Exit", "Leave", "None"}
      OBVIOUS
    <3>2. o = Outcome(a, c) \/ o = Shows(c)
      BY <1>1, <2>1 DEF OnRoomKey
    <3>. HIDE DEF a
    <3>. QED  BY <3>1, <3>2, ShowsValue, OutcomeValue
  <2>3. Same(s, c) /\ c.focus = "Input" /\ c.complete = {}
    BY <1>0, <2>1, ClearValue DEF InputField
  <2>4. ScreenType(c) /\ c.name = "Room"
    BY <2>3 DEF Same
  <2>5. Fits(c)
    BY <2>3, <2>4 DEF Fits
  <2>. QED  BY <1>0, <2>2, <2>3, <2>4, <2>5 DEF KeyEffect, PasswordEffect, MenuScreen
<1>2. CASE k.key # "Enter" /\ k.key # "Esc"
  <2>1. o = Edit(s, k)
    BY <1>2, Zenon DEF OnRoomKey
  <2>. QED  BY <2>1, EditKey, EditedEffect
<1>. QED  BY <1>1, <1>2

\* App::on_key and App::on_paste.
LEMMA ReactsEffect ==
  ASSUME NEW s, ScreenType(s), Fits(s), NEW k, NEW o, o = Reacts(s, k)
  PROVE  KeyEffect(s, o) /\ PasswordEffect(s, o)
<1>0. s.name \in MenuScreen \cup {"JoinForm", "JoinPending", "Room"}
  BY DEF Fits, MenuScreen
<1>1. CASE k.key = "Paste"
  <2>1. PICK t : t = Insert(s, k.text)
    OBVIOUS
  <2>2. o = Shows(t)
    BY <1>1, <2>1, Zenon DEF Reacts
  <2>3. Edited(s, t)
    BY <2>1, InsertErase, Zenon
  <2>4. o.action = "None" /\ o.screen = t
    BY <2>2, ShowsValue, Zenon
  <2>5. Edited(s, o.screen)
    BY <2>3, <2>4, Zenon
  <2>. QED  BY <2>4, <2>5, EditedEffect
<1>2. CASE k.key # "Paste"
  <2>1. o = OnKey(s, k)
    BY <1>2, Zenon DEF Reacts
  <2>2. CASE s.name = "Menu"
    <3>1. o = OnMenuKey(s, k)
      BY <2>1, <2>2 DEF OnKey
    <3>. QED  BY <2>2, <3>1, MenuKey, Zenon
  <2>3. CASE s.name = "HostSetup"
    <3>1. o = OnHostSetupKey(s, k)
      BY <2>1, <2>3 DEF OnKey
    <3>. QED  BY <2>3, <3>1, HostSetupKey, Zenon
  <2>4. CASE s.name = "JoinSetup"
    <3>1. o = OnJoinSetupKey(s, k)
      BY <2>1, <2>4 DEF OnKey
    <3>. QED  BY <2>4, <3>1, JoinSetupKey, Zenon
  <2>5. CASE s.name = "JoinForm"
    <3>1. o = OnJoinFormKey(s, k)
      BY <2>1, <2>5 DEF OnKey
    <3>. QED  BY <2>5, <3>1, JoinFormKey, Zenon
  <2>6. CASE s.name = "Room"
    <3>1. o = OnRoomKey(s, k)
      BY <2>1, <2>6 DEF OnKey
    <3>. QED  BY <2>6, <3>1, RoomKey, Zenon
  <2>7. CASE s.name \in {"About", "Message"}
    <3>1. o = Shows(Menu)
      BY <2>1, <2>7 DEF OnKey
    <3>2. o.action = "None" /\ o.screen = Menu
      BY <3>1, ShowsValue, Zenon
    <3>3. ScreenType(Menu) /\ Fits(Menu)
      BY FreshScreens
    <3>4. s.focus = "None"
      BY <2>7 DEF Fits
    <3>. QED  BY <2>7, <3>2, <3>3, <3>4, FreshNames DEF KeyEffect, PasswordEffect, MenuScreen
  <2>8. CASE s.name = "JoinPending"
    <3>1. o = Shows(s)
      BY <2>1, <2>8 DEF OnKey
    <3>2. o.action = "None" /\ o.screen = s
      BY <3>1, ShowsValue, Zenon
    <3>3. Edited(s, o.screen)
      BY <3>2, SameEdited, Zenon
    <3>. QED  BY <3>2, <3>3, EditedEffect
  <2>. QED  BY <1>0, <2>2, <2>3, <2>4, <2>5, <2>6, <2>7, <2>8 DEF MenuScreen
<1>. QED  BY <1>1, <1>2

----------------------------------------------------------------------------
(* The screens and the form of a joining participant, step by step.        *)

ViewFacts == ScreenFacts /\ FormFacts

\* A step outside the menu loop and the session, into neither of them.
LEMMA AwayStep ==
  ASSUME FormFacts, pc # "session", pc' \notin {"menu", "session", "prepare"}, UNCHANGED stage
  PROVE  ViewFacts'
BY DEF ViewFacts, ScreenFacts, FormFacts, PasswordConfirmed

\* The manager's steps happen outside a session.
LEMMA ManagerPlace ==
  ASSUME ManagerStep \/ BootstrapDeadline
  PROVE  pc # "session" /\ pc' \notin {"menu", "session", "prepare"}
<1>1. CASE BootstrapDeadline \/ Connect \/ Cookie \/ Poll \/ AddOnion \/ DelOnion \/ SignalShutdown \/ Reap \/ Wipe
  BY <1>1 DEF BootstrapDeadline, Connect, Cookie, Poll, AddOnion, DelOnion, SignalShutdown, Reap, Wipe, Go, Fail
<1>2. CASE Authenticate
  <2>1. pc = "auth" /\ pc' \in {pc, "poll", "shutdown"}
    BY <1>2, Zenon DEF Authenticate, Go, Fail
  <2>. QED  BY <2>1
<1>3. CASE Bootstrap
  <2>1. pc = "bootstrap" /\ pc' \in {pc, "poll", "shutdown", "add_onion", "reach"}
    BY <1>3, Zenon DEF Bootstrap, BootstrapReply, Started, Fail
  <2>. QED  BY <2>1
<1>4. CASE AwaitOnion
  <2>1. pc = "await_onion" /\ pc' \in {pc, "open", "shutdown"}
    BY <1>4, Zenon DEF AwaitOnion, Go, Fail
  <2>. QED  BY <2>1
<1>5. CASE ShutdownReply
  <2>1. pc \in {"del_onion", "signal"} /\ (pc' = pc \/ pc' = IF pc = "signal" THEN "reap" ELSE "deleted")
    BY <1>5, Zenon DEF ShutdownReply, Go
  <2>. QED  BY <2>1
<1>. QED  BY <1>1, <1>2, <1>3, <1>4, <1>5, Zenon DEF ManagerStep

\* A session that ends forgets the form and everything typed.
LEMMA LeavesStep ==
  ASSUME NEW how, Leaves(how)
  PROVE  ViewFacts'
<1>1. pc' = "shutdown" /\ stage' = "AwaitingHostHello"
  BY DEF Leaves, Leave
<1>. QED  BY <1>1 DEF ViewFacts, ScreenFacts, FormFacts, PasswordConfirmed

\* Input before a session keeps what the screens may hold.
LEMMA MenuInputStep ==
  ASSUME ViewFacts, MenuInput
  PROVE  ViewFacts'
<1>1. PICK k, o : k = Head(keys) /\ o = Reacts(screen, k)
  OBVIOUS
<1>2. /\ pc = "menu" /\ UNCHANGED <<stage, form, own>>
      /\ IF HardQuit(k) THEN pc' = "quit" /\ UNCHANGED <<mode, screen, secret, confirmed>>
         ELSE /\ screen' = o.screen
              /\ confirmed' = IF Confirms(o) THEN Held(screen) ELSE confirmed
              /\ CASE o.action = "Quit" -> pc' = "quit" /\ UNCHANGED <<mode, secret>>
                   [] o.action = "HostSetupSubmitted" ->
                        pc' = "prepare" /\ mode' = "Host" /\ secret' = screen.stored
                   [] o.action = "JoinSetupSubmitted" ->
                        pc' = "prepare" /\ mode' = "Join" /\ secret' = Held(screen)
                   [] OTHER -> UNCHANGED <<pc, mode, secret>>
  BY <1>1, Zenon DEF MenuInput
<1>3. ScreenType(screen) /\ Fits(screen) /\ screen.name \in MenuScreen
  BY <1>2 DEF ViewFacts, ScreenFacts, MenuScreen
<1>4. KeyEffect(screen, o) /\ PasswordEffect(screen, o)
  BY <1>1, <1>3, ReactsEffect, Zenon
<1>5. stage = "AwaitingHostHello"
  BY <1>2 DEF ViewFacts, FormFacts
<1>6. CASE pc' = "quit"
  BY <1>2, <1>6, AwayStep DEF ViewFacts
<1>7. CASE ~ HardQuit(k) /\ o.action = "HostSetupSubmitted"
  <2>1. pc' = "prepare" /\ secret' = screen.stored /\ confirmed' = IF Confirms(o) THEN Held(screen) ELSE confirmed
    BY <1>2, <1>7
  <2>2. screen.name = "HostSetup" /\ screen.focus = "Nickname"
    BY <1>4, <1>7 DEF KeyEffect
  <2>3. confirmed' = confirmed
    BY <2>1, <2>2 DEF Confirms
  <2>4. screen.stored # "" /\ screen.stored = confirmed
    BY <1>2, <1>3, <2>2 DEF Fits, ViewFacts, ScreenFacts
  <2>. QED  BY <1>2, <1>5, <2>1, <2>3, <2>4 DEF ViewFacts, ScreenFacts, FormFacts, PasswordConfirmed
<1>8. CASE ~ HardQuit(k) /\ o.action = "JoinSetupSubmitted"
  <2>1. pc' = "prepare" /\ mode' = "Join"
    BY <1>2, <1>8
  <2>. QED  BY <1>2, <1>5, <2>1 DEF ViewFacts, ScreenFacts, FormFacts, PasswordConfirmed
<1>9. CASE ~ HardQuit(k) /\ o.action \notin {"Quit", "HostSetupSubmitted", "JoinSetupSubmitted"}
  <2>1. pc' = "menu" /\ screen' = o.screen /\ confirmed' = IF Confirms(o) THEN Held(screen) ELSE confirmed
    BY <1>2, <1>9
  <2>2. ScreenType(o.screen) /\ Fits(o.screen) /\ o.screen.name \in MenuScreen
    BY <1>3, <1>4, <1>9 DEF KeyEffect
  <2>3. ASSUME o.screen.name = "HostSetup", o.screen.focus = "Nickname"
        PROVE  o.screen.stored = confirmed'
    <3>1. /\ screen.name = "HostSetup" /\ screen.focus \in {"Confirm", "Nickname"}
          /\ o.screen.stored = screen.stored
          /\ screen.focus = "Confirm" => screen.stored = Held(screen)
      BY <1>4, <2>3 DEF PasswordEffect
    <3>2. CASE screen.focus = "Confirm"
      BY <2>1, <2>3, <3>1, <3>2 DEF Confirms
    <3>3. CASE screen.focus = "Nickname"
      <4>1. confirmed' = confirmed
        BY <2>1, <3>3 DEF Confirms
      <4>2. screen.stored = confirmed
        BY <1>2, <3>1, <3>3 DEF ViewFacts, ScreenFacts
      <4>. QED  BY <3>1, <4>1, <4>2
    <3>. QED  BY <3>1, <3>2, <3>3
  <2>4. (ScreenType(screen) /\ Fits(screen))' /\ screen'.name \in MenuScreen
    BY <2>1, <2>2, Zenon
  <2>. QED  BY <1>2, <1>5, <2>1, <2>3, <2>4 DEF ViewFacts, ScreenFacts, FormFacts, PasswordConfirmed, MenuScreen
<1>. QED  BY <1>2, <1>6, <1>7, <1>8, <1>9

\* Input during a session keeps what the screens may hold.
LEMMA SessionInputStep ==
  ASSUME ViewFacts, SessionInput
  PROVE  ViewFacts'
<1>1. PICK k, o : k = Head(keys) /\ o = Reacts(screen, k)
  OBVIOUS
<1>2. /\ pc = "session"
      /\ IF EndOf(k, o) # "None" THEN Leaves(EndOf(k, o))
         ELSE /\ screen' = o.screen
              /\ IF o.action = "JoinFormSubmitted"
                 THEN SubmitForm(screen.text["Nickname"]) /\ own' = screen.text["Nickname"]
                 ELSE UNCHANGED <<stage, form, own>>
              /\ UNCHANGED torVars
  BY <1>1, Zenon DEF SessionInput
<1>3. CASE EndOf(k, o) # "None"
  BY <1>2, <1>3, LeavesStep, Zenon
<1>4. CASE EndOf(k, o) = "None"
  <2>1. /\ screen' = o.screen /\ pc' = "session" /\ mode' = mode
        /\ IF o.action = "JoinFormSubmitted"
           THEN SubmitForm(screen.text["Nickname"]) /\ own' = screen.text["Nickname"]
           ELSE UNCHANGED <<stage, form, own>>
    BY <1>2, <1>4 DEF torVars
  <2>2. /\ ScreenType(screen) /\ Fits(screen)
        /\ screen.name \in IF mode = "Host" \/ stage = "Admitted" THEN {"Room"} ELSE {"JoinForm", "JoinPending"}
    BY <1>2 DEF ViewFacts, ScreenFacts, FormFacts
  <2>3. KeyEffect(screen, o)
    BY <1>1, <2>2, ReactsEffect, Zenon
  <2>4. ScreenType(o.screen) /\ Fits(o.screen)
    BY <2>2, <2>3 DEF KeyEffect
  <2>5. ScreenFacts'
    <3>1. (ScreenType(screen) /\ Fits(screen))'
      BY <2>1, <2>4, Zenon
    <3>. QED  BY <2>1, <3>1 DEF ScreenFacts, PasswordConfirmed
  <2>6. CASE o.action = "JoinFormSubmitted"
    <3>1. screen.name = "JoinForm" /\ screen.focus = "Introduction" /\ screen' = JoinPending
      BY <2>1, <2>3, <2>6 DEF KeyEffect
    <3>2. PICK nick : nick = screen.text["Nickname"] /\ nick # ""
      BY <2>2, <3>1 DEF Fits
    <3>3. SubmitForm(nick) /\ own' = nick
      BY <2>1, <2>6, <3>2, Zenon
    <3>4. mode # "Host" /\ stage # "Admitted" /\ screen'.name = "JoinPending"
      BY <2>2, <3>1, FreshNames
    <3>. QED  BY <2>1, <2>5, <3>2, <3>3, <3>4 DEF ViewFacts, FormFacts, SubmitForm, Requestable
  <2>7. CASE o.action # "JoinFormSubmitted"
    <3>1. UNCHANGED <<stage, form, own>> /\ screen'.name = screen.name
      BY <2>1, <2>2, <2>3, <2>7 DEF KeyEffect
    <3>. QED  BY <1>2, <2>1, <2>5, <3>1 DEF ViewFacts, FormFacts
  <2>. QED  BY <2>6, <2>7
<1>. QED  BY <1>3, <1>4

\* Every step of the shell keeps what the screens may hold.
LEMMA ViewStep ==
  ASSUME TorFacts, ViewFacts, ShellNext \/ UNCHANGED appVars
  PROVE  ViewFacts'
<1>1. CASE MenuInput
  BY <1>1, MenuInputStep
<1>2. CASE SessionInput
  BY <1>2, SessionInputStep
<1>3. CASE NoticeTor \/ SessionKeysClosed \/ SessionFails \/ JoinRefused \/ StageTimeout
  <2>1. \E how : Leaves(how)
    BY <1>3, Zenon DEF NoticeTor, SessionKeysClosed, SessionFails, JoinRefused, StageTimeout, LeavesAlone
  <2>. QED  BY <2>1, LeavesStep
<1>4. CASE Types \/ ReaderDies \/ Quit \/ UNCHANGED appVars \/ Subprocesses
  <2>1. UNCHANGED <<pc, mode, screen, secret, confirmed, stage, form, own>>
    <3>1. CASE Types \/ ReaderDies \/ Quit \/ UNCHANGED appVars
      BY <3>1 DEF Types, ReaderDies, Quit, appVars, torVars, shellVars
    <3>2. CASE Subprocesses
      BY <3>2 DEF Subprocesses, Subprocess, TorAnswers, TorRuns, TorExits, shellVars
    <3>. QED  BY <1>4, <3>1, <3>2
  <2>. QED  BY <2>1 DEF ViewFacts, ScreenFacts, FormFacts, PasswordConfirmed
<1>5. CASE MenuStops \/ Begin \/ Manages
  <2>1. pc # "session" /\ pc' \notin {"menu", "session", "prepare"} /\ UNCHANGED stage
    <3>1. CASE MenuStops
      BY <3>1 DEF MenuStops, shellVars
    <3>2. CASE Begin
      BY <3>2 DEF Begin, Spawn, Go, Fail
    <3>3. CASE Manages
      BY <3>3, ManagerPlace DEF Manages, shellVars
    <3>. QED  BY <1>5, <3>1, <3>2, <3>3
  <2>. QED  BY <2>1, AwayStep DEF ViewFacts
<1>6. CASE Prepares
  <2>1. pc # "session" /\ pc' \notin {"menu", "session", "prepare"} /\ UNCHANGED stage
    BY <1>6 DEF Prepares, Prepare, Go
  <2>. QED  BY <2>1, AwayStep DEF ViewFacts
<1>7. CASE Return
  <2>1. pc = "ended" /\ pc' = (IF end = "Quit" THEN "quit" ELSE "menu") /\ screen' = NextScreen /\ UNCHANGED stage
    BY <1>7 DEF Return
  <2>2. end \in {"Menu", "Quit", "Failed"}
    BY <2>1 DEF TorFacts, EndFacts, Stopping
  <2>3. CASE end = "Quit"
    BY <2>1, <2>3, AwayStep DEF ViewFacts
  <2>4. CASE end \in {"Menu", "Failed"}
    <3>1. pc' = "menu" /\ screen' \in {Menu, Message}
      BY <2>1, <2>4 DEF NextScreen
    <3>2. (ScreenType(screen) /\ Fits(screen))'
      BY <3>1, FreshScreens, Zenon
    <3>3. screen'.name \in {"Menu", "Message"}
      BY <3>1, FreshNames
    <3>4. stage = "AwaitingHostHello"
      BY <2>1 DEF ViewFacts, FormFacts
    <3>. QED  BY <2>1, <3>1, <3>2, <3>3, <3>4 DEF ViewFacts, ScreenFacts, FormFacts, PasswordConfirmed
  <2>. QED  BY <2>2, <2>3, <2>4
<1>8. CASE EnterSession
  <2>1. /\ pc \in {"open", "reach"} /\ pc' \in {"session", "shutdown"} /\ UNCHANGED <<mode, stage, form, own>>
        /\ pc' = "session" => screen' = IF mode = "Host" THEN Room ELSE JoinForm
    BY <1>8 DEF EnterSession, Enter, Go, Fail
  <2>2. CASE pc' = "shutdown"
    BY <2>1, <2>2, AwayStep DEF ViewFacts
  <2>3. CASE pc' = "session"
    <3>1. screen' = (IF mode = "Host" THEN Room ELSE JoinForm) /\ screen' \in {Room, JoinForm}
      BY <2>1, <2>3
    <3>2. (ScreenType(screen) /\ Fits(screen))'
      BY <3>1, FreshScreens, Zenon
    <3>3. screen'.name = IF mode = "Host" THEN "Room" ELSE "JoinForm"
      BY <3>1, FreshNames
    <3>4. stage = "AwaitingHostHello"
      BY <2>1 DEF ViewFacts, FormFacts
    <3>. QED  BY <2>1, <2>3, <3>2, <3>3, <3>4 DEF ViewFacts, ScreenFacts, FormFacts, PasswordConfirmed
  <2>. QED  BY <2>1, <2>2, <2>3
<1>9. CASE HostHello
  BY <1>9 DEF HostHello, Joining, torVars, ViewFacts, ScreenFacts, FormFacts, PasswordConfirmed
<1>10. CASE Challenge
  BY <1>10 DEF Challenge, Joining, Requestable, torVars, ViewFacts, ScreenFacts, FormFacts, PasswordConfirmed
<1>11. CASE JoinAccepted
  <2>1. pc' = "session" /\ mode' = mode /\ mode = "Join" /\ stage' = "Admitted" /\ screen' = Room
    BY <1>11 DEF JoinAccepted, Joining, torVars
  <2>2. (ScreenType(screen) /\ Fits(screen))'
    BY <2>1, FreshScreens, Zenon
  <2>. QED  BY <2>1, <2>2, FreshNames DEF ViewFacts, ScreenFacts, FormFacts, PasswordConfirmed
<1>. QED  BY <1>1, <1>2, <1>3, <1>4, <1>5, <1>6, <1>7, <1>8, <1>9, <1>10, <1>11, Zenon DEF ShellNext

\* The whole invariant holds in every behaviour of the application.
THEOREM ShellInvariant == ShellSpec => []ShellInv
<1>1. ShellInit => TorFacts /\ ViewFacts
  <2>. SUFFICES ASSUME ShellInit PROVE TorFacts /\ ViewFacts
    OBVIOUS
  <2>1. TorFacts
    BY TorStart DEF ShellInit
  <2>2. ScreenType(Menu) /\ Fits(Menu)
    BY FreshScreens
  <2>3. ViewFacts
    BY <2>2, FreshNames DEF ShellInit, TorInit, ViewFacts, ScreenFacts, FormFacts, PasswordConfirmed
  <2>. QED  BY <2>1, <2>3
<1>2. TorFacts /\ ViewFacts /\ [ShellNext]_appVars => TorFacts' /\ ViewFacts'
  BY TorStep, ViewStep
<1>3. TorFacts /\ ViewFacts => ShellInv
  BY DEF ViewFacts, ShellInv
<1>. QED  BY <1>1, <1>2, <1>3, PTL DEF ShellSpec

\* After every way back and forth through the forms, and every way in and out of a session,
\* the screen is one its loop handles, a participant is in the room view exactly when
\* admitted, and the field in focus can be edited (ui/app.rs on_key, app.rs menu_loop).
THEOREM ScreenTheorem == ShellSpec => []ScreenFits
<1>1. ShellInv => ScreenFits
  <2>. SUFFICES ASSUME ShellInv PROVE ScreenFits
    OBVIOUS
  <2>1. pc \in {"menu", "session"} => screen.focus \notin screen.complete
    BY FocusType DEF ShellInv, ScreenFacts
  <2>2. /\ pc = "session" /\ mode = "Host" => screen.name = "Room"
        /\ pc = "session" /\ mode = "Join" =>
              screen.name \in IF stage = "Admitted" THEN {"Room"} ELSE {"JoinForm", "JoinPending"}
    BY DEF ShellInv, FormFacts
  <2>3. pc = "menu" => screen.name \notin {"TorConnecting", "JoinForm", "JoinPending", "Room"}
    BY DEF ShellInv, ScreenFacts
  <2>. QED  BY <2>1, <2>2, <2>3 DEF ScreenFits
<1>. QED  BY <1>1, ShellInvariant, PTL

\* A room is hosted under the password that was entered twice, and never under the empty one
\* (ui/app.rs on_host_setup_key, take_password().unwrap_or_default()).
THEOREM PasswordTheorem == ShellSpec => []PasswordConfirmed
<1>1. ShellInv => PasswordConfirmed
  BY DEF ShellInv, ScreenFacts
<1>. QED  BY <1>1, ShellInvariant, PTL

\* A form submitted before the challenge is answered waits for it and is sent, unless the
\* program itself refuses the nickname (app.rs pending_form).
THEOREM FormTheorem == ShellSpec => []FormNotLost
<1>1. ShellInv => FormNotLost
  BY DEF ShellInv, FormFacts, FormNotLost, FormOnItsWay
<1>. QED  BY <1>1, ShellInvariant, PTL
=============================================================================
