---------------------------- MODULE RoomSession ----------------------------
(***************************************************************************)
(* The room with its participants: RoomActor composed with one ChatSession *)
(* (src/chat/session.rs) per connection, over FIFO links.                  *)
(*                                                                         *)
(* up[c] stands for the path from a participant to the actor (socket,      *)
(* supervisor, event queue), down[c] for the way back (action queue,       *)
(* supervisor, outbound queue, socket); each is first-in first-out, and    *)
(* the links advance in any order.  Closing a connection cuts down[c] at   *)
(* once and lets what is already in up[c] arrive.                          *)
(*                                                                         *)
(* Every participant here runs this program; the host participant is       *)
(* connection 0, and its down link also carries the notices it reacts to.  *)
(***************************************************************************)
EXTENDS RoomActor

VARIABLES
    session,  \* ChatSession (with the admission state around it) per connection
    up, down,
    nested    \* history: a transition has begun before the last one ended

sessionVars == <<session, up, down, nested>>
allVars == <<vars, sessionVars>>

NoSession == [status |-> "absent", id |-> 0, epoch |-> 0, table |-> {},
              lastRoomSequence |-> 0, senderSequence |-> 0, replay |-> Empty,
              timeout |-> NoTimeout]
ClosedSession == [NoSession EXCEPT !.status = "closed"]

Live(c) == session[c].status \in {"applying", "member"}

-----------------------------------------------------------------------------
(* The links *)

\* The notices the host participant answers with a TIMEOUT_CHANGED of its own.
TimeoutNotices == {n \in outgoing'.notices :
                      n.type \in {"TimeoutRequestAccepted", "TimeoutRebroadcast"}}
NoticesTo(c) == IF c = HostConnection /\ TimeoutNotices # {}
                THEN <<CHOOSE n \in TimeoutNotices : TRUE>> ELSE <<>>

\* handle_host_actions on the batch an actor step emitted; `fresh` is the
\* session of a participant that connects in this step.
Transmit(fresh) ==
    /\ session' = [c \in Conn |-> IF c \in outgoing'.close /\ Live(c) THEN ClosedSession
                                  ELSE fresh[c]]
    /\ down' = [c \in Conn |-> IF c \in outgoing'.close \/ ~ Live(c) THEN <<>>
                               ELSE down[c] \o outgoing'.send[c] \o NoticesTo(c)]
    /\ nested' = (nested \/ (InTransition /\ epoch' # epoch))

\* Host commands, the maintenance tick and new connections enter the event
\* queue behind what the host participant sent before them.
HostCaughtUp == up[HostConnection] = <<>>

\* An actor step that no participant's message caused.
Spontaneous ==
    /\ (HostCaughtUp /\ (HostEvent \/ EpochTimeout)) \/ Tick
    /\ Transmit(session)
    /\ UNCHANGED up

\* The actor handles the next event from connection c.
Handle(c, msg) ==
    \/ msg.type = "PasswordVerified" /\ (PasswordVerified(c) \/ PasswordIgnored(c)
                                            \/ DroppedInTransition)
    \/ msg.type = "JoinRequested" /\ (JoinRequested(c, msg.application) \/ JoinRefused(c)
                                         \/ DroppedInTransition)
    \/ msg.type = "EpochAck" /\ (EpochAck(c, msg.epoch) \/ EpochAckIgnored(c, msg.epoch))
    \/ msg.type = "Chat" /\ \/ ChatDuringTransition(c)
                            \/ ChatUnauthorised(c, msg.envelope)
                            \/ ChatRateLimited(c, msg.envelope)
                            \/ ChatAbusive(c, msg.envelope)
                            \/ ChatRefused(c, msg.envelope)
                            \/ ChatRelayed(c, msg.envelope)
                            \/ TimeoutRequested(c, msg.envelope)
    \/ msg.type = "Lost" /\ ConnectionLost(c)
    \/ msg.type \in {"JoinRequested", "EpochAck", "Chat"} /\ RoomClosed(c)
    \/ (msg.type \in {"PasswordVerified", "Lost"} \/ c = HostConnection) /\ EventAfterClose

ActorReceives(c) ==
    /\ up[c] # <<>>
    /\ Handle(c, Head(up[c]))
    /\ up' = [up EXCEPT ![c] = Tail(@)]
    /\ Transmit(session)

-----------------------------------------------------------------------------
(* Participants *)

\* A participant connects, proves the password and applies.
Connect(app) ==
    /\ HostCaughtUp
    /\ ClientConnected
    /\ up' = [up EXCEPT ![nextConn] = <<[type |-> "PasswordVerified"],
                                        [type |-> "JoinRequested", application |-> app]>>]
    /\ Transmit([session EXCEPT ![nextConn] = [NoSession EXCEPT !.status = "applying"]])

\* A participant goes away; its connection task reports the loss last.
Disconnect(c) ==
    /\ c # HostConnection
    /\ Live(c)
    /\ session' = [session EXCEPT ![c] = ClosedSession]
    /\ down' = [down EXCEPT ![c] = <<>>]
    /\ up' = [up EXCEPT ![c] = Append(@, [type |-> "Lost"])]
    /\ UNCHANGED <<vars, nested>>

Sealed(s, kind, body) ==
    [kind |-> kind, sender |-> s.id, epoch |-> s.epoch,
     sequence |-> s.senderSequence + 1, genuine |-> TRUE, body |-> body]

\* seal: under the installed epoch key, with the next sender sequence.
Send(c, kind, body) ==
    /\ session[c].status = "member"
    /\ session[c].epoch # NoKey
    /\ up' = [up EXCEPT ![c] = Append(@, [type |-> "Chat",
                                          envelope |-> Sealed(session[c], kind, body)])]

\* A table with one member's colour changed.
Recoloured(table, id, color) ==
    {IF v.id = id THEN [v EXCEPT !.color = color] ELSE v : v \in table}

MaySend(c, kind) == kind \in Kinds /\ session[c].senderSequence < MaxSenderSequence

\* A chat line, or a member's /timeout: nothing changes locally.
SendMessage(c, kind, body) ==
    /\ c # HostConnection
    /\ kind \in {"Chat", "TimeoutRequest"}
    /\ MaySend(c, kind)
    /\ Send(c, kind, body)
    /\ session' = [session EXCEPT ![c].senderSequence = @ + 1]
    /\ UNCHANGED <<vars, down, nested>>

\* /color: the sender's own table changes before the room has accepted it.
SendColor(c, color) ==
    /\ MaySend(c, "Color")
    /\ Send(c, "Color", color)
    /\ session' = [session EXCEPT ![c].senderSequence = @ + 1,
                                  ![c].table = Recoloured(@, session[c].id, color)]
    /\ UNCHANGED <<vars, down, nested>>

\* The host's /timeout: its own view changes before the room has accepted it.
HostTimeout(i) ==
    /\ MaySend(HostConnection, "TimeoutChanged")
    /\ Send(HostConnection, "TimeoutChanged", i)
    /\ session' = [session EXCEPT ![HostConnection].senderSequence = @ + 1,
                                  ![HostConnection].timeout = i]
    /\ UNCHANGED <<vars, down, nested>>

-----------------------------------------------------------------------------
(* Receiving: what a ChatSession makes of one message *)

\* verify_room_event: of the installed epoch, and newer than the last one.
Verifies(s, ev) == (s.epoch # NoKey => ev.epoch = s.epoch) /\ ev.sequence > s.lastRoomSequence

SameMember(v, w) == v.id = w.id \/ v.nickname = w.nickname \/ v.identity = w.identity

Clashes(s, v) == v.id = HostId \/ \E x \in s.table : SameMember(x, v)

ValidSnapshot(s, ev) ==
    /\ \E v \in ev.members : v.id = s.id
    /\ Cardinality(ev.members) <= MaxActiveMembers
    /\ \E v \in ev.members : v.id = HostId
    /\ \A v, w \in ev.members : v # w => ~ SameMember(v, w)

\* Mutation: only MEMBER_LEFT removes a member.
TableAfter_KickIgnored(s, ev) ==
    CASE ev.type = "MemberJoined" -> s.table \cup {ev.member}
      [] ev.type = "MemberLeft" -> {v \in s.table : v.id # ev.id}
      [] ev.type = "MemberSnapshot" -> ev.members
      [] OTHER -> s.table

\* Mutation: a snapshot is verified but not installed.
TableAfter_SnapshotIgnored(s, ev) ==
    CASE ev.type = "MemberJoined" -> s.table \cup {ev.member}
      [] ev.type \in {"MemberLeft", "MemberKicked"} -> {v \in s.table : v.id # ev.id}
      [] OTHER -> s.table

TableAfter(s, ev) ==
    CASE ev.type = "MemberJoined" -> s.table \cup {ev.member}
      [] ev.type \in {"MemberLeft", "MemberKicked"} -> {v \in s.table : v.id # ev.id}
      [] ev.type = "MemberSnapshot" -> ev.members
      [] OTHER -> s.table

\* handle_membership_message: a refused event is shown as an error, no more.
TakesEvent(s, ev) ==
    /\ ev.type = "MemberJoined" => ~ Clashes(s, ev.member)
    /\ ev.type = "MemberSnapshot" => ValidSnapshot(s, ev)
    /\ Verifies(s, ev)

AfterEvent(s, ev) ==
    IF TakesEvent(s, ev)
    THEN [s EXCEPT !.table = TableAfter(s, ev), !.lastRoomSequence = ev.sequence]
    ELSE s

\* open: current epoch, known sender, new sequence.
CanOpen(s, env) ==
    /\ env.epoch = s.epoch
    /\ \E v \in s.table : v.id = env.sender
    /\ env.sender \in DOMAIN s.replay => env.sequence > s.replay[env.sender]

AfterRelay(s, env) ==
    IF CanOpen(s, env)
    THEN [s EXCEPT !.replay = With(@, env.sender, env.sequence),
                   !.timeout = IF env.kind = "TimeoutChanged" THEN env.body ELSE @,
                   !.table = IF env.kind = "Color" THEN Recoloured(@, env.sender, env.body)
                             ELSE @]
    ELSE s

\* set_epoch_from_wrap: a newer key is installed and replay state starts
\* afresh; any other ends a participant, while the host only skips it.
AfterWrap(c, s, e) ==
    IF e > s.epoch THEN [s EXCEPT !.epoch = e, !.replay = Empty]
    ELSE IF c = HostConnection THEN s
    ELSE ClosedSession

AnswerToWrap(c, s, e) ==
    IF e > s.epoch \/ c = HostConnection THEN [type |-> "EpochAck", epoch |-> e]
    ELSE [type |-> "Lost"]

EventTypes == {"MemberJoined", "MemberLeft", "MemberKicked", "MemberSnapshot",
               "JoinPolicyChanged"}

\* handle_join_message, and handle_host_actions for the host participant.
Receive(c, msg) ==
    LET s == session[c] IN
    \/ /\ msg.type = "JoinAccepted"
       /\ session' = [session EXCEPT ![c].status = "member", ![c].id = msg.id]
       /\ UNCHANGED up
    \/ /\ msg.type = "EpochWrap"
       /\ session' = [session EXCEPT ![c] = AfterWrap(c, s, msg.epoch)]
       /\ up' = [up EXCEPT ![c] = Append(@, AnswerToWrap(c, s, msg.epoch))]
    \/ /\ msg.type \in EventTypes
       /\ session' = [session EXCEPT ![c] = AfterEvent(s, msg)]
       /\ UNCHANGED up
    \/ /\ msg.type = "Relay"
       /\ session' = [session EXCEPT ![c] = AfterRelay(s, msg.envelope)]
       /\ UNCHANGED up
    \/ /\ msg.type = "Error"
       /\ UNCHANGED <<session, up>>
    \/ /\ msg.type \in {"TimeoutRequestAccepted", "TimeoutRebroadcast"}
       /\ Send(c, "TimeoutChanged", msg.seconds)
       /\ session' = [session EXCEPT ![c].senderSequence = @ + 1,
             ![c].timeout = IF msg.type = "TimeoutRequestAccepted" THEN msg.seconds ELSE @]

ParticipantReceives(c) ==
    /\ Live(c)
    /\ down[c] # <<>>
    /\ Receive(c, Head(down[c]))
    /\ down' = IF session'[c].status = "closed" THEN [down EXCEPT ![c] = <<>>]
               ELSE [down EXCEPT ![c] = Tail(@)]
    /\ UNCHANGED <<vars, nested>>

-----------------------------------------------------------------------------

HostView == ViewOf(HostId, members[HostId])

SessionInit ==
    /\ Init
    /\ session = [c \in Conn |-> IF c = HostConnection
                     THEN [NoSession EXCEPT !.status = "member", !.table = {HostView}]
                     ELSE NoSession]
    /\ up = [c \in Conn |-> <<>>]
    /\ down = [c \in Conn |-> outgoing.send[c]]
    /\ nested = FALSE

SessionNext ==
    \/ Spontaneous
    \/ \E c \in Conn :
          \/ ActorReceives(c)
          \/ ParticipantReceives(c)
          \/ Disconnect(c)
          \/ \E kind \in Kinds : \E body \in Bodies(kind) : SendMessage(c, kind, body)
          \/ \E color \in Color : SendColor(c, color)
    \/ \E app \in Applications : Connect(app)
    \/ \E i \in Intervals \cup {NoTimeout} : HostTimeout(i)

\* Links deliver, the actor and the participants keep working.
SessionSpec ==
    /\ SessionInit
    /\ [][SessionNext]_allVars
    /\ \A c \in Conn : WF_allVars(ActorReceives(c)) /\ WF_allVars(ParticipantReceives(c))

-----------------------------------------------------------------------------
(* Properties *)

\* A member that only sends the chat lines this program sends, sealed under the
\* newest key it has, is never cut off for it: however transitions, relays and
\* its own messages cross in flight, no ProtocolViolation is sent to a member.
\* (A timeout request that meets a full queue does end its sender's connection.)
HonestMemberNotPunished ==
    [][\A m \in DOMAIN members, c \in Conn :
          members[m].connection = c =>
             \A i \in DOMAIN outgoing'.send[c] :
                outgoing'.send[c][i] # Error("ProtocolViolation")]_allVars

\* Wraps reach a participant in increasing epoch order and always newer than
\* what it has: the OldEpoch error of set_epoch_from_wrap, which ends the
\* session, never strikes.
WrapsArriveInOrder ==
    \A c \in Conn : \A i \in DOMAIN down[c] :
        down[c][i].type = "EpochWrap" =>
            /\ down[c][i].epoch > session[c].epoch
            /\ \A j \in 1..(i - 1) : down[c][j].type = "EpochWrap"
                                        => down[c][j].epoch < down[c][i].epoch

\* Signed events reach a participant in increasing sequence order and newer
\* than the last one accepted, although some are held back by a transition
\* and others (JOIN_POLICY_CHANGED) are sent at once.
EventsArriveInOrder ==
    \A c \in Conn : \A i \in DOMAIN down[c] :
        down[c][i].type \in EventTypes =>
            /\ down[c][i].sequence > session[c].lastRoomSequence
            /\ \A j \in 1..(i - 1) : down[c][j].type \in EventTypes
                                        => down[c][j].sequence < down[c][i].sequence

\* A relayed message reaches every recipient while the recipient has exactly
\* the key it was sealed under, even when it crosses a transition.
RelaysMatchInstalledEpoch ==
    \A c \in Conn : down[c] # <<>> /\ Head(down[c]).type = "Relay"
                       => Head(down[c]).envelope.epoch = session[c].epoch

\* The event a participant reads next is one its session accepts in every respect:
\* signed for the key it has, naming nobody it could be confused with, a snapshot in
\* order - unless some transition began inside another one.  Then events meet a newer
\* key than theirs and are refused as OldEpoch (verify_room_event; the run `tables`).
EventsTakenUnlessNested ==
    ~ nested => \A c \in Conn :
        Live(c) /\ down[c] # <<>> /\ Head(down[c]).type \in EventTypes =>
            TakesEvent(session[c], Head(down[c]))

\* What ChatSession's checks rely on: no wrap is stale, every relay meets its own key,
\* signed events come in sequence and, while no transition has begun inside another
\* one, every one of them is accepted.  (Sequences may have gaps, which nobody checks.)
ArrivesAsExpected ==
    /\ WrapsArriveInOrder
    /\ EventsArriveInOrder
    /\ RelaysMatchInstalledEpoch
    /\ EventsTakenUnlessNested

Quiet == AtRest /\ \A c \in Conn : up[c] = <<>> /\ down[c] = <<>>

TablesAgree ==
    Quiet => \A m \in DOMAIN members :
                session[members[m].connection].table =
                    {ViewOf(x, members[x]) : x \in DOMAIN members}

\* When everything sent has been handled, every participant's member table is
\* the room's - unless some transition began inside another one.
TablesAgreeUnlessNested == ~ nested => TablesAgree

\* README: /list shows "active room identities" and MEMBER_LEFT, MEMBER_KICKED
\* and MEMBER_SNAPSHOT are what a participant learns them from.
TablesAlwaysAgree == TablesAgree

\* The message lifetime every joined participant applies is the room's once
\* everything sent has been handled: a newcomer learns it from the rebroadcast
\* that follows its own transition, whatever /timeout crosses it in flight.
TimeoutsAgreeUnlessNested ==
    Quiet /\ ~ nested => \A m \in DOMAIN members \ {HostId} :
        session[members[m].connection].timeout = roomTimeout

\* An honest applicant is never told it violated the protocol.
HonestApplicantNotPunished ==
    [][\A c \in Conn \ {HostConnection} : session[c].status = "applying" =>
          \A i \in DOMAIN outgoing'.send[c] :
             outgoing'.send[c][i] # Error("ProtocolViolation")]_allVars

\* Somebody will still be told of member m over connection c.
Announced(c, m) ==
    \E ev \in Range(down[c]) \cup Range(pendingMembership[c]) :
        \/ ev.type = "MemberJoined" /\ ev.member.id = m
        \/ ev.type = "MemberSnapshot" /\ m \in {v.id : v \in ev.members}

\* While no transition has begun inside another one, a relayed message a recipient
\* cannot read is one from a sender whose MEMBER_JOINED, or the recipient's own
\* MEMBER_SNAPSHOT, is still on its way: replay state, epochs and tables hide no
\* message for another reason.  Once transitions have nested, a table may lack its
\* sender for good (the run `tables`), and nothing is claimed.
UnreadableOnlyUntilAnnounced ==
    ~ nested => \A c \in Conn : down[c] # <<>> /\ Head(down[c]).type = "Relay" =>
        LET env == Head(down[c]).envelope IN
        \/ CanOpen(session[c], env)
        \/ env.epoch = session[c].epoch /\ Announced(c, env.sender)
=============================================================================
