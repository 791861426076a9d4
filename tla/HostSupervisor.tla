--------------------------- MODULE HostSupervisor ---------------------------
(***************************************************************************)
(* The host's supervisor loop (src/app.rs, host half) between the network  *)
(* (src/net/host.rs, src/net/conn.rs) and the room task, with the          *)
(* admission gate it runs for each connection (src/admission/host.rs,      *)
(* guard.rs) and the joining program at the other end                      *)
(* (src/admission/client.rs and the join half of src/app.rs).              *)
(*                                                                         *)
(* The room is RoomGate, reached through two FIFO channels: events, one at *)
(* a time, and actions, one batch per event.  Connections in Honest run    *)
(* the program; the others send anything.  A handler of the select loop is *)
(* one action; which branch comes next is open, as in tokio::select!.      *)
(*                                                                         *)
(* Data abstraction: an invitation token is its generation; a password     *)
(* proof, a hello and a join signature are right or wrong; a connection's  *)
(* outbound queue and the socket behind it are one queue, down.            *)
(***************************************************************************)
EXTENDS RoomGate, Sequences

CONSTANTS
    Honest,            \* the connections that run the program
    MaxPreAuth,        \* Limits::max_pre_auth_connections
    FailureThreshold,  \* PASSWORD_FAILURE_THRESHOLD
    LockoutBase,       \* PASSWORD_LOCKOUT_BASE, in ticks
    LockoutMax,        \* PASSWORD_LOCKOUT_MAX, in ticks
    QueueCapacity,     \* OUTBOUND_QUEUE_CAPACITY
    MaxToken,          \* bound: invitations issued
    MaxAdminPeers,     \* bound: connections when the host rotates or locks
    MaxInbound,        \* bound: frames a peer has on the way
    MaxEvents,         \* bound: events waiting when a handler starts
    MaxBatches         \* bound: batches waiting when the room handles an event

ASSUME SupervisorAssumption ==
    /\ IsFiniteSet(Peer) /\ Peer = 1..Cardinality(Peer)
    /\ Honest \subseteq Peer
    /\ MaxPendingRequests \in Nat
    /\ MaxPreAuth \in Nat \ {0}
    /\ FailureThreshold \in Nat \ {0}
    /\ LockoutBase \in Nat \ {0}
    /\ LockoutMax \in Nat \ {0}
    /\ QueueCapacity \in Nat \ {0}

VARIABLES
    events,      \* RoomTask: the event channel
    actions,     \* RoomTask: the action channel
    nextId,      \* the accept loop's next connection id
    peers,       \* HostNetwork: ConnectionId -> Peer
    connects,    \* accepted ids the supervisor has not seen
    inbound,     \* frames of each connection the supervisor has not seen
    down,        \* frames for each connection that its peer has not read
    flows,       \* the supervisor's connections: ConnectionId -> HostConnection
    token,       \* the supervisor's copy of the invitation
    policy,      \* the supervisor's copy of the join policy
    guard,       \* PasswordGuard
    phase,       \* running, closing (after /exit), exited
    clients,     \* the other ends
    inWindow,    \* history: failed proofs since the lockout began
    overtaken,   \* history: clients refused before the supervisor read of their connection
    mishap,      \* history: clients the room lost an event of, or had its own reason against
    owed         \* history: members when the room was shut down

hostVars == <<events, actions, nextId, peers, connects, inbound, down, flows,
              token, policy, guard, phase, clients, inWindow,
              overtaken, mishap, owed>>
supVars == <<gateVars, hostVars>>

Stage == {"AwaitingHello", "AwaitingToken", "AwaitingProof", "AwaitingJoinForm", "Decided"}

-----------------------------------------------------------------------------
(* Frames *)

Hello == [type |-> "Hello"]
Token(t) == [type |-> "Token", token |-> t]
Proof(ok) == [type |-> "Proof", ok |-> ok]
JoinForm == [type |-> "Form"]
Keepalive == [type |-> "Keepalive"]
RoomFrame == [type |-> "RoomFrame"]   \* EPOCH_ACK and the encrypted messages
Bye == [type |-> "Bye"]   \* SHUTDOWN, ERROR, and whatever ends a connection anywhere:
                          \* an undecodable frame, another version, a bad join signature
Eof == [type |-> "Eof"]               \* None: the connection task ended

Reply(type) == [type |-> type]
HostHello(t) == [type |-> "HostHello", token |-> t]
Error(code) == [type |-> "error", code |-> code]

Class(m) ==
    CASE m.type = "Hello" -> "Handshake"
      [] m.type \in {"Token", "Proof"} -> "Authentication"
      [] m.type = "Form" -> "Join"
      [] m.type = "RoomFrame" -> "Room"
      [] m.type \in {"Keepalive", "Bye"} -> "Control"

\* Mutation: a flow that awaits the proof counts as verified.
Accepts_ProofTooLate(f) ==
    {"Control"} \cup
    CASE f.stage = "AwaitingHello" -> {"Handshake"}
      [] f.stage = "AwaitingToken" -> {"Authentication"}
      [] f.stage \in {"AwaitingProof", "AwaitingJoinForm"} -> {"Join"}
      [] f.stage = "Decided" -> IF f.admitted THEN {"Room"} ELSE {}

\* ConnectionState of a flow, and the classes it accepts.
Accepts(f) ==
    {"Control"} \cup
    CASE f.stage = "AwaitingHello" -> {"Handshake"}
      [] f.stage \in {"AwaitingToken", "AwaitingProof"} -> {"Authentication"}
      [] f.stage = "AwaitingJoinForm" -> {"Join"}
      [] f.stage = "Decided" -> IF f.admitted THEN {"Room"} ELSE {}

-----------------------------------------------------------------------------
(* PasswordGuard *)

Least(a, b) == IF a < b THEN a ELSE b

\* Mutation: the doubling does not saturate.
NextWindow_Unbounded(lockouts) == LockoutBase * 2 ^ lockouts

\* next_window: doubles per lockout, saturates at the maximum.
NextWindow(lockouts) == Least(LockoutMax, LockoutBase * 2 ^ Least(lockouts, 31))

RecordFailure(g) ==
    IF (g.failures + 1) % FailureThreshold # 0
    THEN [g EXCEPT !.failures = @ + 1]
    ELSE [failures |-> g.failures + 1, lockouts |-> g.lockouts + 1,
          remaining |-> NextWindow(g.lockouts)]

Locked == guard.remaining > 0

-----------------------------------------------------------------------------
(* HostNetwork *)

Without(f, S) == [x \in DOMAIN f \ S |-> f[x]]
Put(f, x, v) == [y \in DOMAIN f \cup {x} |-> IF y = x THEN v ELSE f[y]]

\* HostNetwork::send_to succeeds.
Sendable(c) == c \in DOMAIN peers /\ peers[c].open /\ Len(down[c]) < QueueCapacity

\* What a stranger is sent is only counted.
Pushed(q, c, msg) == Append(q, IF c \in Honest THEN msg ELSE Reply("frame"))

Queued(c, msg) == IF Sendable(c) THEN [down EXCEPT ![c] = Pushed(@, c, msg)] ELSE down

\* HostNetwork::close aborts the connection task: of what was queued (q), a
\* prefix was written, the rest is lost.
Cut(S, q, n) ==
    [c \in Peer |-> IF c \in DOMAIN n THEN SubSeq(q[c], 1, Least(n[c], Len(q[c])))
                    ELSE IF c \in S THEN <<>> ELSE q[c]]

CloseAll(S, q) ==
    /\ peers' = Without(peers, S)
    /\ \E n \in [S \cap Honest -> 0..QueueCapacity] : down' = Cut(S, q, n)

PreAuth == {c \in DOMAIN peers : ~ peers[c].admitted}

\* Mutation: the cap is off by one.
BelowCap_OffByOne == Cardinality(PreAuth) <= MaxPreAuth

BelowCap == Cardinality(PreAuth) < MaxPreAuth

\* A step of anyone but the room: its last answer has been passed on.
RoomIdle ==
    batch' = NoBatch /\ UNCHANGED <<role, roomPolicy, roomToken, busy, closed>>

Post(evs) == events' = events \o evs
Event(type, c) == [type |-> type, conn |-> c]

\* Mutation: the room is not told that a connection is gone.
LostEvents_Untold(S) == {<<>>}

\* One event per connection of S, in the order in which they are met.
LostEvents(S) ==
    {evs \in [1..Cardinality(S) -> {Event("Lost", c) : c \in S}] :
        \A c \in S : \E i \in 1..Cardinality(S) : evs[i] = Event("Lost", c)}

PostLost(S) == \E evs \in LostEvents(S) : Post(evs)

Ready == phase = "running" /\ Len(events) < MaxEvents

-----------------------------------------------------------------------------
(* The select loop: connects, inbound, actions, keys, and the sweep before it *)

RotationOnItsWay ==
    token # roomToken \/ \E i \in DOMAIN events : events[i].type = "NewId"

\* History in the flow: what was shown, and whether the flow began behind a
\* rotation.
NewFlow == [stage |-> "AwaitingHello", token |-> token, admitted |-> FALSE,
            shown |-> {}, lagged |-> RotationOnItsWay]

\* A connection is accepted into the gate.
OpenFlow ==
    LET c == Head(connects) IN
    /\ Ready
    /\ connects # <<>>
    /\ ~ Locked
    /\ connects' = Tail(connects)
    /\ flows' = Put(flows, c, NewFlow)
    /\ Post(<<Event("Connected", c)>>)
    /\ RoomIdle
    /\ UNCHANGED <<actions, nextId, peers, inbound, down, token, policy,
                   guard, phase, clients, inWindow, overtaken, mishap, owed>>

\* The lockout refuses it; the room never hears of it.
RefuseFlow ==
    LET c == Head(connects) IN
    /\ Ready
    /\ connects # <<>>
    /\ Locked
    /\ connects' = Tail(connects)
    /\ CloseAll({c}, Queued(c, Error("RateLimited")))
    /\ RoomIdle
    /\ UNCHANGED <<events, actions, nextId, inbound, flows, token, policy,
                   guard, phase, clients, inWindow, overtaken, mishap, owed>>

HandleConnect == OpenFlow \/ RefuseFlow

WrongProof(m) == m.type = "Proof" /\ ~ m.ok

\* Why handle_host_message refuses frame m, in the code's order.
Refusal(c, m) ==
    IF c \notin DOMAIN flows THEN "ProtocolViolation"
    ELSE IF policy = "Locked" /\ ~ flows[c].admitted THEN "RoomLocked"
    ELSE IF Class(m) \notin Accepts(flows[c]) \/ m.type = "Bye" THEN "ProtocolViolation"
    ELSE IF m.type = "Token" /\ flows[c].stage # "AwaitingToken" THEN "ProtocolViolation"
    ELSE IF m.type = "Token" /\ m.token # flows[c].token THEN "InvalidInvitation"
    ELSE IF m.type = "Proof" /\ flows[c].stage # "AwaitingProof" THEN "ProtocolViolation"
    ELSE IF WrongProof(m) THEN "InvalidPasswordProof"
    ELSE IF m.type \in {"Hello", "Token"} /\ ~ Sendable(c) THEN "Internal"
    ELSE "None"

\* What an accepted frame does to the flow, is answered with, and is to the room.
NextStage(f, m) ==
    CASE m.type = "Hello" -> "AwaitingToken"
      [] m.type = "Token" -> "AwaitingProof"
      [] m.type = "Proof" -> "AwaitingJoinForm"
      [] m.type = "Form" -> "Decided"
      [] OTHER -> f.stage

Answered(c, m) ==
    CASE m.type = "Hello" -> Queued(c, HostHello(flows[c].token))
      [] m.type = "Token" -> Queued(c, Reply("Challenge"))
      [] OTHER -> down

EventsFor(c, m) ==
    CASE m.type = "Proof" -> <<Event("Verified", c)>>
      [] m.type = "Form" -> <<Event("Form", c)>>
      [] m.type = "RoomFrame" -> <<Event("Frame", c)>>
      [] OTHER -> <<>>

Shows(m) == CASE m.type = "Token" -> {m.token}
              [] m.type = "Proof" /\ m.ok -> {0}
              [] OTHER -> {}

HandleMessage(c) ==
    LET m == Head(inbound[c]) IN
    /\ Ready
    /\ inbound[c] # <<>>
    /\ m # Eof
    /\ Refusal(c, m) = "None"
    /\ inbound' = [inbound EXCEPT ![c] = Tail(@)]
    /\ flows' = [flows EXCEPT ![c].stage = NextStage(flows[c], m),
                              ![c].shown = @ \cup Shows(m)]
    /\ down' = Answered(c, m)
    /\ Post(EventsFor(c, m))
    /\ RoomIdle
    /\ UNCHANGED <<actions, nextId, peers, connects, token, policy, guard,
                   phase, clients, inWindow, overtaken, mishap, owed>>

\* The connection waits in the channel of connects.
Unread(c) == \E i \in DOMAIN connects : connects[i] = c

\* A refused frame ends its connection; a wrong proof counts.  A frame that select!
\* serves before the connect of its connection is one of an unknown connection.
RefuseMessage(c) ==
    LET m      == Head(inbound[c])
        wrong  == Refusal(c, m) = "InvalidPasswordProof"
    IN  /\ Ready
        /\ inbound[c] # <<>>
        /\ m # Eof
        /\ Refusal(c, m) # "None"
        /\ inbound' = [inbound EXCEPT ![c] = Tail(@)]
        /\ guard' = IF wrong THEN RecordFailure(guard) ELSE guard
        /\ inWindow' = IF ~ wrong THEN inWindow ELSE IF Locked THEN inWindow + 1 ELSE 0
        /\ flows' = Without(flows, {c})
        /\ CloseAll({c}, Queued(c, Error(Refusal(c, m))))
        /\ PostLost({c})
        /\ overtaken' = IF c \in Honest /\ Unread(c) THEN overtaken \cup {c} ELSE overtaken
        /\ RoomIdle
        /\ UNCHANGED <<actions, nextId, connects, token, policy, phase,
                       clients, mishap, owed>>

HandleEof(c) ==
    /\ Ready
    /\ inbound[c] # <<>>
    /\ Head(inbound[c]) = Eof
    /\ inbound' = [inbound EXCEPT ![c] = Tail(@)]
    /\ flows' = Without(flows, {c})
    /\ CloseAll({c}, down)
    /\ PostLost({c})
    /\ RoomIdle
    /\ UNCHANGED <<actions, nextId, connects, token, policy, guard, phase,
                   clients, inWindow, overtaken, mishap, owed>>

\* The sweep: the flow outstayed its stage, or an admitted connection has
\* been silent for three keepalive intervals.
Sweep(c) ==
    /\ Ready
    /\ c \in DOMAIN flows
    /\ flows' = Without(flows, {c})
    /\ CloseAll({c}, down)
    /\ PostLost({c})
    /\ RoomIdle
    /\ UNCHANGED <<actions, nextId, connects, inbound, token, policy, guard,
                   phase, clients, inWindow, overtaken, mishap, owed>>

Frame(told) == IF told = "error" THEN Error("ByRoom") ELSE Reply(told)

Delivered(b) ==
    [c \in Peer |-> IF b.tell[c] # "none" /\ Sendable(c)
                    THEN Pushed(down[c], c, Frame(b.tell[c])) ELSE down[c]]

Unsendable(b) == {c \in Peer : b.tell[c] # "none" /\ ~ Sendable(c)}
Admitted(b) == {c \in Peer : b.tell[c] = "accepted" /\ Sendable(c)}

\* mark_admitted and HostConnection::admitted, which share the flag's name.
MarkAdmitted(f, S) ==
    [c \in DOMAIN f |-> IF c \in S THEN [f[c] EXCEPT !.admitted = TRUE] ELSE f[c]]

MarkFlows(b) == MarkAdmitted(flows, Admitted(b))

\* handle_host_actions: deliver one batch.  A peer that cannot take its frame
\* is closed and reported lost, but its flow stays until the sweep.
HandleActions ==
    LET b == Head(actions) IN
    /\ phase = "running"
    /\ actions # <<>>
    /\ actions' = Tail(actions)
    /\ \E n \in [(Unsendable(b) \cup b.close) \cap Honest -> 0..QueueCapacity] :
          down' = Cut(Unsendable(b) \cup b.close, Delivered(b), n)
    /\ peers' = Without(MarkAdmitted(peers, Admitted(b)), Unsendable(b) \cup b.close)
    /\ flows' = Without(MarkFlows(b), b.close)
    /\ PostLost(Unsendable(b))
    /\ token' = IF b.token # 0 THEN b.token ELSE token
    /\ policy' = IF b.policy # "same" THEN b.policy ELSE policy
    /\ RoomIdle
    /\ UNCHANGED <<nextId, connects, inbound, guard, phase, clients, 
                   inWindow, overtaken, mishap, owed>>

\* A host command: about a request or member on the screen, or the room.
HostCommand ==
    /\ Ready
    /\ \/ \E c \in Peer : \/ role[c] = "pending" /\ Post(<<Event("Accept", c)>>)
                          \/ role[c] = "pending" /\ Post(<<Event("Reject", c)>>)
                          \/ role[c] = "member" /\ Post(<<Event("Kick", c)>>)
       \/ /\ nextId <= MaxAdminPeers + 1
          /\ \/ roomToken < MaxToken /\ Post(<<Event("NewId", 0)>>)
             \/ policy = "Open" /\ Post(<<Event("Lock", 0)>>)
             \/ policy = "Locked" /\ Post(<<Event("Unlock", 0)>>)
    /\ RoomIdle
    /\ UNCHANGED <<actions, nextId, peers, connects, inbound, down, flows,
                   token, policy, guard, phase, clients, inWindow,
                   overtaken, mishap, owed>>

\* /exit: the loop ends, and the room is asked to close (twice).
Exit ==
    /\ Ready
    /\ phase' = "closing"
    /\ Post(<<Event("CloseRequested", 0), Event("CloseRequested", 0)>>)
    /\ RoomIdle
    /\ UNCHANGED <<actions, nextId, peers, connects, inbound, down, flows,
                   token, policy, guard, clients, inWindow, overtaken, mishap, owed>>

\* The session's channels and flows go with it.
DropSession ==
    /\ events' = <<>> /\ actions' = <<>> /\ connects' = <<>>
    /\ inbound' = [c \in Peer |-> <<>>]
    /\ flows' = <<>>

\* The exit waits for one batch, delivers it and closes every connection.
FinishExit ==
    LET b == Head(actions) IN
    /\ phase = "closing"
    /\ actions # <<>>
    /\ phase' = "exited"
    /\ CloseAll(DOMAIN peers, Delivered(b))
    /\ owed' = {c \in Honest : /\ role[c] = "member" /\ c \in DOMAIN peers
                               /\ peers[c].open /\ clients[c].stage = "Admitted"}
    /\ DropSession
    /\ RoomIdle
    /\ UNCHANGED <<nextId, token, policy, guard, clients, inWindow,
                   overtaken, mishap>>

\* Ctrl-C and the loss of Tor return at once; dropping the network closes it.
Abandon ==
    /\ phase = "running"
    /\ phase' = "exited"
    /\ CloseAll(DOMAIN peers, down)
    /\ DropSession
    /\ RoomIdle
    /\ UNCHANGED <<nextId, token, policy, guard, clients, inWindow,
                   overtaken, mishap, owed>>

Tick ==
    /\ Locked
    /\ guard' = [guard EXCEPT !.remaining = @ - 1]
    /\ RoomIdle
    /\ UNCHANGED <<events, actions, nextId, peers, connects, inbound, down,
                   flows, token, policy, phase, clients, inWindow,
                   overtaken, mishap, owed>>

-----------------------------------------------------------------------------
(* The room task: one event, one batch *)

\* What the room may make of a frame: an acknowledgement (noted, late or
\* unknown), a relay, a refusal of the frame, or of its sender for good.
FrameArrives(c) ==
    IF role[c] = "member"
    THEN \/ Quiet({}) \/ Quiet({c}) \/ Quiet(With("member") \ {c})
         \/ Expel(c)
    ELSE IF busy THEN Quiet({}) \/ Quiet({c})
    ELSE Quiet({}) \/ Punish(c)

\* A command about c that no longer applies is answered with a notice.
Applies(e) ==
    /\ ~ busy
    /\ \/ e.type \in {"Accept", "Reject"} /\ role[e.conn] = "pending"
       \/ e.type = "Kick" /\ role[e.conn] = "member"
       \/ e.type \in {"NewId", "Lock", "Unlock"}

Obey(e) ==
    \/ e.type = "Accept" /\ Accept(e.conn)
    \/ e.type \in {"Accept", "Reject"} /\ TurnAway(e.conn)
    \/ e.type = "Kick" /\ Kick(e.conn)
    \/ e.type = "NewId" /\ NewId
    \/ e.type = "Lock" /\ SetPolicy("Locked")
    \/ e.type = "Unlock" /\ SetPolicy("Open")

Handles(e) ==
    IF closed
    THEN IF e.type \in {"Form", "Frame"} THEN AfterClose(e.conn) ELSE Quiet({})
    ELSE CASE e.type = "Connected" -> Connected(e.conn)
           [] e.type = "Verified" -> Verified(e.conn)
           [] e.type = "Form" -> Form(e.conn)
           [] e.type = "Lost" -> Lost(e.conn)
           [] e.type = "Frame" -> FrameArrives(e.conn)
           [] e.type = "CloseRequested" -> Close
           [] OTHER -> IF Applies(e) THEN Obey(e) ELSE Quiet({})

\* The room lost an event of c, or has a reason of its own to refuse c.
Mishap(e) ==
    \/ busy /\ e.type \in {"Connected", "Verified"}
    \/ e.type = "Form" /\ (closed \/ roomPolicy = "Locked"
                             \/ Cardinality(With("pending")) >= MaxPendingRequests)
    \/ e.type = "Frame" /\ (closed \/ Expel(e.conn))

Respond == actions' = IF batch' = NoBatch THEN actions ELSE Append(actions, batch')

RoomHandle ==
    LET e == Head(events) IN
    /\ phase # "exited"
    /\ events # <<>>
    /\ Len(actions) < MaxBatches
    /\ events' = Tail(events)
    /\ Handles(e)
    /\ Respond
    /\ mishap' = IF e.conn \in Honest /\ Mishap(e) THEN mishap \cup {e.conn} ELSE mishap
    /\ UNCHANGED <<nextId, peers, connects, inbound, down, flows, token, policy, guard,
                   phase, clients, inWindow, overtaken, owed>>

\* The acknowledgements of the key transition, or its deadline.
RoomTransition ==
    /\ phase # "exited"
    /\ Len(actions) < MaxBatches
    /\ \/ \E S \in {{}, With("member")} : Activate(S)
       \/ \E S \in SUBSET With("member") \ {{}} : Evict(S)
    /\ Respond
    /\ UNCHANGED <<events, nextId, peers, connects, inbound, down, flows, token, policy,
                   guard, phase, clients, inWindow, overtaken, mishap, owed>>

-----------------------------------------------------------------------------
(* The accept loop and the other ends *)

Live(c) == c \in DOMAIN peers /\ peers[c].open
Sent(c, msgs) == IF Live(c) THEN [inbound EXCEPT ![c] = @ \o msgs] ELSE inbound
NoClient == [stage |-> "Idle", token |-> 0, form |-> FALSE, why |-> "None"]
Ended(why) == [NoClient EXCEPT !.stage = "Ended", !.why = why]

\* For the bound: the host has neither rotated nor locked.
Untouched ==
    /\ token = 1 /\ roomToken = 1
    /\ policy = "Open" /\ roomPolicy = "Open"
    /\ ~ \E i \in DOMAIN events : events[i].type \in {"NewId", "Lock"}

\* Connection nextId is accepted: an honest client holds some invitation ever
\* issued and speaks first.  Over the cap the stream is dropped.
AcceptConnection ==
    LET c == nextId IN
    /\ phase = "running"
    /\ c \in Peer
    /\ c <= MaxAdminPeers \/ Untouched
    /\ BelowCap
    /\ nextId' = c + 1
    /\ peers' = Put(peers, c, [admitted |-> FALSE, open |-> TRUE])
    /\ connects' = Append(connects, c)
    /\ \/ /\ c \in Honest
          /\ \E t \in 1..roomToken :
                clients' = [clients EXCEPT ![c] = [NoClient EXCEPT
                                !.stage = "AwaitingHostHello", !.token = t]]
          /\ inbound' = [inbound EXCEPT ![c] = <<Hello>>]
       \/ c \notin Honest /\ UNCHANGED <<clients, inbound>>
    /\ RoomIdle
    /\ UNCHANGED <<events, actions, down, flows, token, policy, guard, phase,
                   inWindow, overtaken, mishap, owed>>

Running(c) == clients[c].stage \notin {"Idle", "Ended"}

\* on_host_message and handle_join_message: the next stage ...
ClientStage(k, m) ==
    CASE m.type = "HostHello" /\ k.stage = "AwaitingHostHello" /\ m.token = k.token
            -> "AwaitingChallenge"
      [] m.type = "Challenge" /\ k.stage = "AwaitingChallenge"
            -> IF k.form THEN "AwaitingDecision" ELSE "AwaitingJoinForm"
      [] m.type = "accepted" /\ k.stage = "AwaitingDecision" -> "Admitted"
      [] m.type = "frame" /\ k.stage = "Admitted" -> "Admitted"
      [] OTHER -> "Ended"

\* ... why the session ends ...
EndReason(k, m) ==
    CASE m.type = "shutdown" -> "Shutdown"
      [] m.type = "error" -> m.code
      [] m.type = "HostHello" /\ k.stage = "AwaitingHostHello" -> "InvalidHostSignature"
      [] m.type = "rejected" /\ k.stage = "AwaitingDecision" -> "Rejected"
      [] OTHER -> "Unexpected"

\* ... and what is sent back: the user may have mistyped the password; the
\* new member acknowledges the key that comes with its acceptance.
Replies(c, k, m) ==
    CASE m.type = "HostHello" -> {<<Token(k.token)>>}
      [] m.type = "Challenge" -> {<<Proof(ok)>> \o IF k.form THEN <<JoinForm>> ELSE <<>> : ok \in BOOLEAN}
      [] m.type = "accepted" -> {<<RoomFrame>>}
      [] OTHER -> {<<>>} \cup IF Len(inbound[c]) < MaxInbound THEN {<<RoomFrame>>} ELSE {}

ClientReceive(c) ==
    LET k    == clients[c]
        m    == Head(down[c])
        next == ClientStage(k, m)
    IN  /\ Running(c)
        /\ down[c] # <<>>
        /\ down' = [down EXCEPT ![c] = Tail(@)]
        /\ IF next = "Ended"
           THEN /\ clients' = [clients EXCEPT ![c] = Ended(EndReason(k, m))]
                /\ inbound' = Sent(c, <<Eof>>)
                /\ peers' = IF Live(c) THEN [peers EXCEPT ![c].open = FALSE] ELSE peers
           ELSE /\ clients' = [clients EXCEPT ![c].stage = next, ![c].form = FALSE]
                /\ \E msgs \in Replies(c, k, m) : inbound' = Sent(c, msgs)
                /\ UNCHANGED peers
        /\ RoomIdle
        /\ UNCHANGED <<events, actions, nextId, connects, flows, token, policy,
                       guard, phase, inWindow, overtaken, mishap, owed>>

\* The join form: sent now, or once the challenge is answered.
ClientSubmit(c) ==
    LET k == clients[c] IN
    /\ k.stage \in {"AwaitingHostHello", "AwaitingChallenge", "AwaitingJoinForm"}
    /\ ~ k.form
    /\ IF k.stage = "AwaitingJoinForm"
       THEN /\ clients' = [clients EXCEPT ![c].stage = "AwaitingDecision"]
            /\ inbound' = Sent(c, <<JoinForm>>)
       ELSE clients' = [clients EXCEPT ![c].form = TRUE] /\ UNCHANGED inbound
    /\ RoomIdle
    /\ UNCHANGED <<events, actions, nextId, peers, connects, down, flows, token,
                   policy, guard, phase, inWindow, overtaken, mishap, owed>>

\* A member's messages (keepalives change nothing at the host).
ClientTalk(c) ==
    /\ Live(c)
    /\ inbound[c] = <<>>
    /\ clients[c].stage = "Admitted"
    /\ inbound' = Sent(c, <<RoomFrame>>)
    /\ RoomIdle
    /\ UNCHANGED <<events, actions, nextId, peers, connects, down, flows, token,
                   policy, guard, phase, clients, inWindow, overtaken, mishap, owed>>

\* The end of the stream, and a quit, a timeout or a lost network.
ClientEnds(c, why) ==
    /\ Running(c)
    /\ \/ why = "Lost" /\ ~ Live(c) /\ down[c] = <<>>
       \/ why = "Own"
    /\ clients' = [clients EXCEPT ![c] = Ended(why)]
    /\ inbound' = Sent(c, <<Eof>>)
    /\ peers' = IF Live(c) THEN [peers EXCEPT ![c].open = FALSE] ELSE peers
    /\ RoomIdle
    /\ UNCHANGED <<events, actions, nextId, connects, down, flows, token,
                   policy, guard, phase, inWindow, overtaken, mishap, owed>>

AnyMessage ==
    {Hello, Proof(TRUE), Proof(FALSE), JoinForm, Keepalive, RoomFrame, Bye}
        \cup {Token(t) : t \in 1..roomToken}

\* A peer that does not run the program sends anything, reads or not, and
\* goes; an undecodable frame is a Bye.
Stranger(c) ==
    /\ c \in Peer \ Honest
    /\ \/ /\ Live(c) /\ Len(inbound[c]) < MaxInbound
          /\ \E m \in AnyMessage : inbound' = Sent(c, <<m>>)
          /\ UNCHANGED <<peers, down>>
       \/ /\ Live(c)
          /\ inbound' = Sent(c, <<Eof>>)
          /\ peers' = [peers EXCEPT ![c].open = FALSE]
          /\ UNCHANGED down
       \/ /\ down[c] # <<>>
          /\ down' = [down EXCEPT ![c] = <<>>]
          /\ UNCHANGED <<peers, inbound>>
    /\ RoomIdle
    /\ UNCHANGED <<events, actions, nextId, connects, flows, token, policy,
                   guard, phase, clients, inWindow, overtaken, mishap, owed>>

-----------------------------------------------------------------------------
Init ==
    /\ GateInit
    /\ events = <<>> /\ actions = <<>> /\ connects = <<>>
    /\ nextId = 1
    /\ peers = <<>> /\ flows = <<>>
    /\ inbound = [c \in Peer |-> <<>>] /\ down = [c \in Peer |-> <<>>]
    /\ token = 1 /\ policy = "Open"
    /\ guard = [failures |-> 0, lockouts |-> 0, remaining |-> 0]
    /\ phase = "running"
    /\ clients = [c \in Honest |-> NoClient]
    /\ inWindow = 0
    /\ overtaken = {} /\ mishap = {} /\ owed = {}

HandleInbound(c) == HandleMessage(c) \/ RefuseMessage(c) \/ HandleEof(c)

Next ==
    \/ HandleConnect \/ HandleActions \/ HostCommand \/ Exit \/ FinishExit \/ Abandon
    \/ \E c \in Peer : HandleInbound(c) \/ Sweep(c) \/ Stranger(c)
    \/ Tick \/ RoomHandle \/ RoomTransition \/ AcceptConnection
    \/ \E c \in Honest : \/ ClientReceive(c) \/ ClientSubmit(c) \/ ClientTalk(c)
                         \/ ClientEnds(c, "Lost") \/ ClientEnds(c, "Own")

SupSpec == Init /\ [][Next]_supVars

-----------------------------------------------------------------------------
(* Properties *)

GateTypeOK ==
    /\ role \in [Peer -> Role]
    /\ batch \in BatchType
    /\ \A i \in DOMAIN actions : actions[i] \in BatchType
    /\ DOMAIN peers \subseteq Peer /\ DOMAIN flows \subseteq Peer
    /\ \A c \in DOMAIN flows : flows[c].stage \in Stage
    /\ nextId \in 1..Cardinality(Peer) + 1
    /\ guard \in [failures : Nat, lockouts : Nat, remaining : 0..LockoutMax]
    /\ phase \in {"running", "closing", "exited"}

Awaits(type, c) == Event(type, c) \in {events[i] : i \in DOMAIN events}

\* Nobody gets past the gate without the room's password and an invitation the
\* room has issued, whatever is sent in whatever order; and after /newid an older
\* invitation opens the door only to a connection whose admission began while the
\* rotation had not reached the supervisor yet.
EarnedEntry ==
    \A c \in DOMAIN flows :
        /\ role[c] \in {"verified", "pending", "member"} =>
              0 \in flows[c].shown /\ flows[c].shown \cap 1..roomToken # {}
        /\ role[c] \in {"verified", "pending"} =>
              roomToken \in flows[c].shown \/ flows[c].lagged

\* The accept loop's cap and the lockout bound the guesses: once a lockout
\* begins, only the connections already inside the gate can still fail.
LockoutBoundsGuesses == inWindow < MaxPreAuth

Leaving(c) ==
    \/ c \notin DOMAIN peers \/ Awaits("Lost", c)
    \/ \E i \in DOMAIN actions : c \in actions[i].close

\* The three records of a connection (the room's registry, the supervisor's flow,
\* the network's peer map) agree, except while an acceptance or a removal is on
\* its way between them.  In particular the supervisor watches everyone the room
\* knows, so that the silence of an applicant or a member is noticed.
RecordsAgree ==
    phase = "running" => \A c \in Peer :
        /\ role[c] # "none" => c \in DOMAIN flows \/ Awaits("Lost", c)
        /\ role[c] = "member" =>
              \/ c \in DOMAIN flows /\ flows[c].admitted
              \/ Leaving(c)
              \/ \E i \in DOMAIN actions : actions[i].tell[c] = "accepted"
        /\ c \in DOMAIN flows /\ flows[c].admitted => role[c] = "member" \/ Leaving(c)
        /\ c \in DOMAIN peers \cap DOMAIN flows => peers[c].admitted = flows[c].admitted

\* A client that runs the program never meets a message it does not expect.  It is
\* refused by the room only if the room lost an event of it or had its own reason,
\* and by the gate as a violator in one case only: its first frame was served before
\* its connect, which select! allows (app.rs:528 before app.rs:485, refused at
\* app.rs:1038).  That exception is a defect: docs/protocol-v1.md:817 keeps the code for
\* "a message invalid for the current state, an undecodable frame, or non-zero flags".
RefusedOnlyForCause ==
    \A c \in Honest : clients[c].stage = "Ended" =>
        /\ clients[c].why # "Unexpected"
        /\ clients[c].why = "ProtocolViolation" => c \in overtaken
        /\ clients[c].why = "ByRoom" => c \in mishap

\* Every member connected when the host exits learns that the room was closed.
ShutdownReachesMembers ==
    \A c \in owed : clients[c].stage = "Ended" => clients[c].why \in {"Shutdown", "Own"}
=============================================================================
