----------------------------- MODULE TorManager -----------------------------
(***************************************************************************)
(* One Tor session from preparation to clean-up: TorManager                *)
(* (src/tor/manager.rs), its control connection (src/tor/control.rs), the  *)
(* reply parser (src/tor/parser.rs), the session directory                 *)
(* (src/platform.rs), and the subprocess at the other end.                 *)
(*                                                                         *)
(* The program is at one place, pc.  An await with a timeout is a state    *)
(* with two ways out: what it waits for, and its timer; Tor itself is free *)
(* to answer, to answer badly, to hang and to die at any moment.           *)
(*                                                                         *)
(* Data abstraction: a control line is a status code, its separator and    *)
(* the one field the manager looks for; percentages are 0..Done, and       *)
(* Done + 1 is a value that does not parse.  TCP and the file system are   *)
(* reliable once the directory and its lock file are made.                 *)
(***************************************************************************)
EXTENDS Naturals, Sequences

CONSTANTS
    Done,           \* PROGRESS=100
    MaxReplyLines   \* MAX_REPLY_LINES

ASSUME TorAssumption == Done \in Nat \ {0} /\ MaxReplyLines \in Nat \ {0, 1}

VARIABLES
    pc,         \* where run_host_session or run_join_session stands
    mode,       \* which of the two runs
    end,        \* SessionEnd, once decided
    child,      \* the Tor subprocess
    dir,        \* the directory of the session that runs, or ran last
    tor,        \* what the subprocess has done so far
    asked,      \* commands Tor has not answered
    pipe,       \* reply lines the client has not read
    control,    \* ControlClient
    onion,      \* TorManager.onion is Some
    progress,   \* TorConnectionModel.progress
    misread     \* history: a reply was used for a command it does not answer

torVars == <<pc, mode, end, child, dir, tor, asked, pipe, control, onion, progress, misread>>

Mode == {"Host", "Join"}
End == {"None", "Menu", "Quit", "Failed"}
Starting == {"prepare", "spawn", "connect", "cookie", "auth", "poll", "bootstrap",
             "add_onion", "await_onion", "open", "reach"}
Stopping == {"shutdown", "del_onion", "deleted", "signal", "reap", "wipe", "ended"}

----------------------------------------------------------------------------
(* Replies: parse_control_line, ReplyAccumulator.                          *)

Field(key, value) == [key |-> key, value |-> value]
Text == Field("text", 0)

ControlLine(kind, code, field) == [kind |-> kind, code |-> code, data |-> field]
Continuation(code, field) == ControlLine("Continuation", code, field)
Data(code, field) == ControlLine("Data", code, field)
Last(code, field) == ControlLine("Last", code, field)
Raw(field) == ControlLine("Raw", 0, field)     \* parse_control_line gives None
Dot == ControlLine("Dot", 0, Text)             \* a lone "."

NoReply == [code |-> 0, lines |-> <<>>, block |-> FALSE, stale |-> FALSE]

\* The lines push_line would hold after this one.
Pushes(acc, l) == ~ (acc.block /\ l.kind = "Dot")

\* MalformedLine, UnexpectedDataTerminator, CodeMismatch, UnexpectedDataBlock, ReplyTooLarge.
Malformed(acc, l) ==
    \/ ~ acc.block /\ l.kind \in {"Raw", "Dot"}
    \/ ~ acc.block /\ acc.code # 0 /\ (l.code # acc.code \/ l.kind = "Data")
    \/ Pushes(acc, l) /\ Len(acc.lines) >= MaxReplyLines

\* Mutant: a data block's terminator ends the reply, and its last line is left unread.
Completes_AtDot(acc, l) == l.kind = IF acc.block THEN "Dot" ELSE "Last"

Completes(acc, l) == ~ acc.block /\ l.kind = "Last"

Feed(acc, l) ==
    [code  |-> IF acc.block THEN acc.code ELSE l.code,
     lines |-> IF Pushes(acc, l) THEN Append(acc.lines, l.data) ELSE acc.lines,
     block |-> IF acc.block THEN l.kind # "Dot" ELSE l.kind = "Data",
     stale |-> acc.stale \/ l.stale]

IsOk(reply) == reply.code = 250

\* The value of the first field with this key, if any line has one.
FirstValue(reply, key) ==
    LET f == reply.lines
    IN {f[i].value : i \in {n \in DOMAIN f : f[n].key = key /\ \A j \in 1..(n - 1) : f[j].key # key}}

BootstrapProgress(reply) == {v \in FirstValue(reply, "PROGRESS") : v <= Done}

Bootstrapped(reply) == Done \in BootstrapProgress(reply)

ServiceId(reply) == 1 \in FirstValue(reply, "ServiceID")

----------------------------------------------------------------------------
(* The control connection.                                                 *)

Closed == [open |-> FALSE, poisoned |-> FALSE, acc |-> NoReply]

Aged(q) == [i \in DOMAIN q |-> [q[i] EXCEPT !.stale = TRUE]]

\* command_inner: write the command, start a fresh accumulator.
Issue(cmd) ==
    /\ asked' = IF child = "Running" THEN Append(Aged(asked), [cmd |-> cmd, stale |-> FALSE])
                ELSE asked
    /\ pipe' = Aged(pipe)
    /\ control' = [control EXCEPT !.acc = NoReply]

\* The next line of the reply, the end of the stream, and the ten-second timer.
Line == Head(pipe)
Reply == Feed(control.acc, Line)
Reads == pipe # <<>> /\ pipe' = Tail(pipe) /\ UNCHANGED asked
ReadsMore ==
    /\ Reads
    /\ ~ Malformed(control.acc, Line) /\ ~ Completes(control.acc, Line)
    /\ control' = [control EXCEPT !.acc = Reply]
ReadsReply ==
    /\ Reads
    /\ ~ Malformed(control.acc, Line) /\ Completes(control.acc, Line)
    /\ control' = [control EXCEPT !.acc = NoReply]

\* Mutant: a command waits for its reply for as long as it takes.
CommandTimeout_Never == FALSE /\ UNCHANGED <<pipe, asked, control>>

CommandTimeout ==
    /\ control' = [control EXCEPT !.poisoned = TRUE]
    /\ UNCHANGED <<pipe, asked>>

CommandError ==
    \/ Reads /\ Malformed(control.acc, Line) /\ UNCHANGED control
    \/ pipe = <<>> /\ child # "Running" /\ UNCHANGED <<pipe, asked, control>>
    \/ CommandTimeout

----------------------------------------------------------------------------
(* TorManager::start, add_onion, and what follows until the session runs.  *)

\* Mutant: an error during the start returns without shutting Tor down.
Fail_Returns ==
    /\ pc' = "menu"
    /\ end' = IF end = "Quit" THEN "Quit" ELSE "Failed"

\* An error on the way up: the caller shuts the manager down before it returns.
Fail ==
    /\ pc' = "shutdown"
    /\ end' = IF end = "Quit" THEN "Quit" ELSE "Failed"

Go(next) == pc' = next /\ UNCHANGED end

\* What create_session_dir leaves when it fails.  It makes the directory, sets its mode and
\* creates the lock file in it; when one of the last two fails nobody removes the directory.
FailedDirectory == {"None", "Half"}

\* The verifier or the invitation, then prepare_with_binary; an error leaves no manager.
Prepare ==
    /\ pc = "prepare"
    /\ \/ /\ Go("spawn")
          /\ dir' = "Made"
       \/ /\ pc' = "ended" /\ end' = "Failed"
          /\ dir' \in FailedDirectory
    /\ UNCHANGED <<mode, child, tor, asked, pipe, control, onion, progress, misread>>

NoTor == [listening |-> FALSE, cookie |-> "None", progress |-> 0, onion |-> FALSE]

\* begin_tor_connection, resolve_tor_binary, spawn_tor.
Spawn ==
    /\ pc = "spawn"
    /\ progress' = 0
    /\ \/ Go("connect") /\ child' = "Running"
       \/ Fail /\ UNCHANGED child
       \/ pc' = "shutdown" /\ end' = "Quit" /\ UNCHANGED child   \* the screen cannot be drawn
    /\ UNCHANGED <<mode, dir, tor, asked, pipe, control, onion, misread>>

\* ControlClient::connect retries until its deadline; it does not look at the child.
Connect ==
    /\ pc = "connect"
    /\ \/ /\ tor.listening /\ child = "Running"
          /\ Go("cookie")
          /\ control' = [Closed EXCEPT !.open = TRUE]
       \/ Fail /\ UNCHANGED control
    /\ UNCHANGED <<mode, child, dir, tor, asked, pipe, onion, progress, misread>>

\* read_cookie_hex, then authenticate.
Cookie ==
    /\ pc = "cookie"
    /\ \/ tor.cookie = "Good" /\ Go("auth") /\ Issue("AUTHENTICATE")
       \/ Fail /\ UNCHANGED <<asked, pipe, control>>
    /\ UNCHANGED <<mode, child, dir, tor, onion, progress, misread>>

\* A reply the manager looks at.
Uses(reply) == misread' = (misread \/ reply.stale)

Accepted(reply) ==
    IsOk(reply) \/ (reply.code = 513 /\ FirstValue(reply, "authenticated") # {})

Authenticate ==
    /\ pc = "auth"
    /\ \/ ReadsMore /\ UNCHANGED <<pc, end, misread>>
       \/ ReadsReply /\ Uses(Reply) /\ (IF Accepted(Reply) THEN Go("poll") ELSE Fail)
       \/ CommandError /\ Fail /\ UNCHANGED misread
    /\ UNCHANGED <<mode, child, dir, tor, onion, progress>>

\* wait_for_bootstrap, the head of its loop: is the child alive?
Poll ==
    /\ pc = "poll"
    /\ IF child = "Running" THEN Go("bootstrap") /\ Issue("GETINFO")
       ELSE Fail /\ UNCHANGED <<asked, pipe, control>>
    /\ UNCHANGED <<mode, child, dir, tor, onion, progress, misread>>

\* The start is over; a progress bar that could not be drawn ends the session.
Started ==
    IF end' = "Quit" THEN pc' = "shutdown"
    ELSE pc' = IF mode = "Host" THEN "add_onion" ELSE "reach"

BootstrapReply ==
    /\ ReadsReply
    /\ Uses(Reply)
    /\ IF BootstrapProgress(Reply) = {} THEN UNCHANGED <<progress, end>>
       ELSE progress' \in BootstrapProgress(Reply) /\ end' \in {end, "Quit"}
    /\ IF Bootstrapped(Reply) THEN Started ELSE pc' = "poll"

\* The deadline drops the command it interrupts: the connection is not poisoned.
BootstrapDeadline ==
    /\ pc \in {"poll", "bootstrap"}
    /\ Fail
    /\ UNCHANGED <<mode, child, dir, tor, asked, pipe, control, onion, progress, misread>>

Bootstrap ==
    /\ pc = "bootstrap"
    /\ \/ ReadsMore /\ UNCHANGED <<pc, end, progress, misread>>
       \/ BootstrapReply
       \/ CommandError /\ Fail /\ UNCHANGED <<progress, misread>>
    /\ UNCHANGED <<mode, child, dir, tor, onion>>

\* add_onion writes its command ...
AddOnion ==
    /\ pc = "add_onion"
    /\ Go("await_onion") /\ Issue("ADD_ONION")
    /\ UNCHANGED <<mode, child, dir, tor, onion, progress, misread>>

\* ... and reads the answer; a service whose id does not validate is not remembered.
AwaitOnion ==
    /\ pc = "await_onion"
    /\ \/ ReadsMore /\ UNCHANGED <<pc, end, onion, misread>>
       \/ /\ ReadsReply /\ Uses(Reply)
          /\ IF IsOk(Reply) /\ ServiceId(Reply) THEN Go("open") /\ onion' = TRUE
             ELSE Fail /\ UNCHANGED onion
       \/ CommandError /\ Fail /\ UNCHANGED <<onion, misread>>
    /\ UNCHANGED <<mode, child, dir, tor, progress>>

\* The host makes its identities, the room and the listener; the participant goes through
\* the SOCKS socket.  Either may fail.
Enter ==
    /\ pc \in {"open", "reach"}
    /\ \/ pc = "open" /\ Go("session")
       \/ pc = "reach" /\ child = "Running" /\ Go("session")
       \/ Fail
    /\ UNCHANGED <<mode, child, dir, tor, asked, pipe, control, onion, progress, misread>>

\* The session is over: run_*_session goes on to shut Tor down.
Leave(how) ==
    /\ pc = "session"
    /\ pc' = "shutdown" /\ end' = how
    /\ UNCHANGED <<mode, child, dir, tor, asked, pipe, control, onion, progress, misread>>

----------------------------------------------------------------------------
(* TorManager::shutdown.                                                   *)

\* A poisoned connection refuses every command.
Usable == control.open /\ ~ control.poisoned

DelOnion ==
    /\ pc = "shutdown"
    /\ IF Usable /\ onion THEN Go("del_onion") /\ Issue("DEL_ONION")
       ELSE Go("deleted") /\ UNCHANGED <<asked, pipe, control>>
    /\ UNCHANGED <<mode, child, dir, tor, onion, progress, misread>>

SignalShutdown ==
    /\ pc = "deleted"
    /\ IF Usable THEN Go("signal") /\ Issue("SIGNAL")
       ELSE Go("reap") /\ UNCHANGED <<asked, pipe, control>>
    /\ UNCHANGED <<mode, child, dir, tor, onion, progress, misread>>

\* Both outcomes are ignored.
ShutdownReply ==
    /\ pc \in {"del_onion", "signal"}
    /\ \/ ReadsMore /\ UNCHANGED <<pc, end>>
       \/ (ReadsReply \/ CommandError) /\ Go(IF pc = "signal" THEN "reap" ELSE "deleted")
    /\ UNCHANGED <<mode, child, dir, tor, onion, progress, misread>>

\* child.wait() answers, or its timer runs out and the child is killed and waited for.
Reaped == IF child = "Running" THEN "Exited" ELSE child

Reap ==
    /\ pc = "reap"
    /\ Go("wipe")
    /\ control' = Closed /\ asked' = <<>> /\ pipe' = <<>> /\ onion' = FALSE
    /\ child' = Reaped
    /\ UNCHANGED <<mode, dir, tor, progress, misread>>

\* wipe_cookie_file and remove_session_dir; the manager is gone.
Wipe ==
    /\ pc = "wipe"
    /\ Go("ended")
    /\ dir' = "None"
    /\ tor' = NoTor
    /\ UNCHANGED <<mode, child, asked, pipe, control, onion, progress, misread>>

----------------------------------------------------------------------------
(* The Tor subprocess (external).                                          *)

Answers(cmd) ==
    CASE cmd = "AUTHENTICATE" ->
           {<<Last(250, Text)>>, <<Last(515, Text)>>, <<Last(513, Field("authenticated", 1))>>}
      [] cmd = "GETINFO" ->
           LET p == Field("PROGRESS", tor.progress) IN
           {<<Continuation(250, p), Last(250, Text)>>,
            <<Data(250, Text), Raw(p), Dot, Last(250, Text)>>,
            <<Continuation(250, Field("PROGRESS", Done + 1)), Last(250, Text)>>,
            <<Continuation(250, p), Last(551, Text)>>,
            <<Raw(Text)>>,
            <<Data(250, Text)>> \o [i \in 1..MaxReplyLines |-> Raw(Text)]}
      [] cmd = "ADD_ONION" ->
           {<<Continuation(250, Field("ServiceID", v)), Last(250, Text)>> : v \in {0, 1}}
             \cup {<<Last(250, Text)>>, <<Last(512, Text)>>}
      [] OTHER -> {<<Last(250, Text)>>, <<Last(552, Text)>>}

Stamped(lines, stale) ==
    [i \in DOMAIN lines |-> [kind |-> lines[i].kind, code |-> lines[i].code,
                             data |-> lines[i].data, stale |-> stale]]

TorAnswers ==
    /\ child = "Running" /\ asked # <<>>
    /\ \E lines \in Answers(Head(asked).cmd) :
          /\ pipe' = pipe \o Stamped(lines, Head(asked).stale)
          /\ tor' = [tor EXCEPT !.onion = @ \/ \E i \in DOMAIN lines :
                                                lines[i].data = Field("ServiceID", 1)]
    /\ asked' = Tail(asked)
    /\ UNCHANGED <<pc, mode, end, child, dir, control, onion, progress, misread>>

TorRuns ==
    /\ child = "Running"
    /\ \/ ~ tor.listening /\ tor' = [tor EXCEPT !.listening = TRUE]
       \/ tor.cookie = "None" /\ \E c \in {"Good", "Bad"} : tor' = [tor EXCEPT !.cookie = c]
       \/ tor.progress < Done /\ tor' = [tor EXCEPT !.progress = @ + 1]
    /\ UNCHANGED <<pc, mode, end, child, dir, asked, pipe, control, onion, progress,
                   misread>>

TorExits ==
    /\ child = "Running"
    /\ child' = "Exited"
    /\ asked' = <<>>
    /\ UNCHANGED <<pc, mode, end, dir, tor, pipe, control, onion, progress, misread>>

Subprocess == TorAnswers \/ TorRuns \/ TorExits

----------------------------------------------------------------------------
TorInit ==
    /\ pc = "menu" /\ mode = "Host" /\ end = "None"
    /\ child = "None" /\ dir = "None" /\ tor = NoTor
    /\ asked = <<>> /\ pipe = <<>> /\ control = Closed
    /\ onion = FALSE /\ progress = 0 /\ misread = FALSE

\* The steps of the manager between the menu and the session, and after it.
ManagerStep ==
    \/ Connect \/ Cookie \/ Authenticate \/ Poll \/ Bootstrap \/ AddOnion \/ AwaitOnion
    \/ DelOnion \/ SignalShutdown \/ ShutdownReply \/ Reap \/ Wipe
=============================================================================
