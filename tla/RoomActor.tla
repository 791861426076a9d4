----------------------------- MODULE RoomActor -----------------------------
(***************************************************************************)
(* The room actor (src/room/actor.rs) inside its task (src/room/task.rs):  *)
(* the only code that changes room state.  One action handles one          *)
(* RoomEvent, whole: the guard of handle_event_at, the handler, and - when *)
(* the handler fails - the error reply and the clean-up of run().          *)
(*                                                                         *)
(* The environment is open: any connection the accept loop handed out may  *)
(* send any event at any time, in any order, as stale, duplicated and      *)
(* hostile peers do.  What the handlers hand to the supervisor in one step *)
(* is the variable outgoing.                                               *)
(*                                                                         *)
(* Data abstraction: the group key of epoch e is the number e (a fresh key *)
(* per epoch); an applicant's two public keys are one Identity; the host's *)
(* signature on a room event always verifies; wording is left out.         *)
(***************************************************************************)
EXTENDS Naturals, FiniteSets, Sequences, Functions

CONSTANTS
    MaxConn,              \* bound: connections the accept loop hands out
    Nickname, Identity, Color,
    HostNickname, HostIdentity, DefaultColor,
    Applications,         \* the join forms applicants send
    MaxActiveMembers,     \* Limits::max_active_members
    MaxPendingRequests,   \* Limits::max_pending_requests
    EpochAckTimeout,      \* TimeoutKind::EpochAcknowledgement, in ticks
    Burst,                \* RateLimiter::new(5, 1)
    RateLimitTermination, \* RATE_LIMIT_TERMINATION
    Kinds,                \* the encrypted message types members send
    Intervals,            \* message timeouts, in seconds
    MaxSenderSequence,    \* bound: largest sender sequence of an envelope
    MaxRoomSequence,      \* bound: no policy change once it is reached
    MaxToken              \* bound: invitations issued

HostConnection == 0
HostId == 0
Conn == 0..MaxConn
NoTimeout == 0
NoKey == 0

MemberKinds == {"Chat", "Color", "TimeoutRequest", "TimeoutChanged"}
HostKinds == {"Color", "TimeoutChanged"}
LimitedKinds == {"Chat", "Color", "TimeoutRequest"}

ASSUME BoundsAssumption ==
    /\ MaxConn \in Nat
    /\ MaxActiveMembers \in Nat \ {0}
    /\ MaxPendingRequests \in Nat
    /\ EpochAckTimeout \in Nat \ {0}
    /\ Burst \in Nat \ {0}
    /\ RateLimitTermination \in Nat \ {0}
    /\ MaxSenderSequence \in Nat
    /\ MaxRoomSequence \in Nat
    /\ MaxToken \in Nat

ASSUME DataAssumption ==
    /\ HostNickname \in Nickname
    /\ HostIdentity \in Identity
    /\ Color \subseteq Nat
    /\ DefaultColor \in Color
    /\ Applications \subseteq [nickname : Nickname, identity : Identity]
    /\ Kinds \subseteq MemberKinds
    /\ Intervals \subseteq Nat \ {NoTimeout}

VARIABLES
    state,             \* RoomState; Creating and Closing never outlive a call
    policy,            \* JoinPolicy
    token,             \* the generation of the current invitation
    members,           \* MemberTable: MemberId -> Member
    nextMemberId,
    connections,       \* Connections: ConnectionId -> ConnectionEntry
    requests,          \* JoinRequestQueue: RequestId -> JoinRequest
    nextRequestId,
    timeoutRequests,   \* RequestId -> PendingTimeoutRequest
    roomTimeout,       \* Option<u64>, NoTimeout for None
    epoch,
    epochKey,          \* the active key, NoKey for None
    pendingEpoch,      \* PendingEpoch, NoPending for None
    roomSequence,
    chatReplay,        \* last accepted sequence per sender, current epoch
    rateLimits,        \* MemberId -> RateLimiter
    pendingMembership, \* signed events held back until activation, per connection
    outgoing,          \* the action batch of the last handled event
    nextConn,          \* the accept loop's next connection id
    holders,           \* history: holders[e] = members the key of e was wrapped for
    relayed            \* history: envelopes relayed so far

queueVars == <<requests, nextRequestId>>
epochVars == <<epoch, pendingEpoch, holders, chatReplay>>
vars == <<state, policy, token, members, nextMemberId, connections, requests,
          nextRequestId, timeoutRequests, roomTimeout, epoch, epochKey,
          pendingEpoch, roomSequence, chatReplay, rateLimits,
          pendingMembership, outgoing, nextConn, holders, relayed>>

-----------------------------------------------------------------------------
(* Messages and notices *)

EpochWrap(e) == [type |-> "EpochWrap", epoch |-> e]
JoinAccepted(m) == [type |-> "JoinAccepted", id |-> m]
JoinRejected == [type |-> "JoinRejected"]
Shutdown == [type |-> "Shutdown"]
Error(code) == [type |-> "Error", code |-> code]
Relay(env) == [type |-> "Relay", envelope |-> env]

View == [id : Nat, nickname : Nickname, identity : Identity, color : Color]

RoomEvent ==
    [type : {"MemberJoined"}, sequence : Nat, epoch : Nat, member : View]
    \cup [type : {"MemberLeft", "MemberKicked"}, sequence : Nat, epoch : Nat, id : Nat]
    \cup [type : {"MemberSnapshot"}, sequence : Nat, epoch : Nat, members : SUBSET View]
    \cup [type : {"JoinPolicyChanged"}, sequence : Nat, epoch : Nat, open : BOOLEAN]

\* An encrypted envelope.  genuine: the signature verifies under the sender's
\* identity, the ciphertext opens under the key of the epoch it names, and the
\* plaintext is valid for its kind.
Envelope == [kind : MemberKinds, sender : Nat, epoch : Nat, sequence : Nat,
             genuine : BOOLEAN, body : Nat]

Silence == [c \in Conn |-> <<>>]
SendTo(c, msg) == [Silence EXCEPT ![c] = <<msg>>]
SendAll(C, msg) == [c \in Conn |-> IF c \in C THEN <<msg>> ELSE <<>>]
Then(a, b) == [c \in Conn |-> a[c] \o b[c]]

Emit(send, close, notices) ==
    outgoing' = [send |-> send, close |-> close, notices |-> notices]

-----------------------------------------------------------------------------
(* The tables *)

Empty == [x \in {} |-> x]

\* Map f with v at key k (HashMap::insert).
With(f, k, v) == [x \in DOMAIN f \cup {k} |-> IF x = k THEN v ELSE f[x]]

Member(c, app, e) ==
    [connection |-> c, nickname |-> app.nickname, identity |-> app.identity,
     color |-> DefaultColor, joinedEpoch |-> e]

Entry(verified, role, id) == [verified |-> verified, role |-> role, id |-> id]

ConnectionsOf(ms) == {ms[m].connection : m \in DOMAIN ms}

HasRole(c, role) == c \in DOMAIN connections /\ connections[c].role = role

\* Connections::member_id and Connections::request_id, as sets of at most one.
RegisteredMember(c) == IF HasRole(c, "Member") THEN {connections[c].id} ELSE {}
RegisteredRequest(c) == IF HasRole(c, "Pending") THEN {connections[c].id} ELSE {}

\* on_connection_lost falls back on the member table.
MemberOf(c) ==
    IF RegisteredMember(c) # {} THEN RegisteredMember(c)
    ELSE {m \in DOMAIN members : members[m].connection = c}

\* Mutation: the nickname_taken check is forgotten.
Admissible_NicknameUnchecked(c, app) ==
    /\ Cardinality(DOMAIN members) < MaxActiveMembers
    /\ \A m \in DOMAIN members : members[m].connection # c
                                 /\ members[m].identity # app.identity

\* The four refusals of MemberTable::add.
Admissible(c, app) ==
    /\ Cardinality(DOMAIN members) < MaxActiveMembers
    /\ \A m \in DOMAIN members :
          /\ members[m].nickname # app.nickname
          /\ members[m].connection # c
          /\ members[m].identity # app.identity

ViewOf(m, rec) == [id |-> m, nickname |-> rec.nickname,
                   identity |-> rec.identity, color |-> rec.color]

RestState == IF policy = "Open" THEN "Open" ELSE "Locked"

-----------------------------------------------------------------------------
(* Epoch transitions *)

NoPending == [epoch |-> 0, awaiting |-> {}, age |-> 0]

\* Mutation: acknowledgements are awaited from the table before the change.
BeginEpochTransition_AwaitsOldTable(ms) ==
    /\ epoch' = epoch + 1
    /\ chatReplay' = Empty
    /\ state' = "EpochTransition"
    /\ pendingEpoch' = [epoch |-> epoch + 1, awaiting |-> DOMAIN members, age |-> 0]
    /\ holders' = Append(holders, DOMAIN ms)

\* Mutation: the key is also wrapped for everyone who held the previous one.
BeginEpochTransition_KeepsHolders(ms) ==
    /\ epoch' = epoch + 1
    /\ chatReplay' = Empty
    /\ state' = "EpochTransition"
    /\ pendingEpoch' = [epoch |-> epoch + 1, awaiting |-> DOMAIN ms, age |-> 0]
    /\ holders' = Append(holders, DOMAIN ms \cup holders[epoch])

\* begin_epoch_transition for the member table ms: a fresh key, wrapped for
\* every member, all of whom must acknowledge it.
BeginEpochTransition(ms) ==
    /\ epoch' = epoch + 1
    /\ chatReplay' = Empty
    /\ state' = "EpochTransition"
    /\ pendingEpoch' = [epoch |-> epoch + 1, awaiting |-> DOMAIN ms, age |-> 0]
    /\ holders' = Append(holders, DOMAIN ms)

Wraps(ms) == SendAll(ConnectionsOf(ms), EpochWrap(epoch + 1))

\* The i-th member of a set in table order, which is the order of the ids.
Nth(S, i) == CHOOSE m \in S : Cardinality({x \in S : x <= m}) = i

\* Mutation: the room sequence is not advanced per departure.
GoneEvents_SharedSequence(gone, type, sequence, e) ==
    [i \in 1..Cardinality(gone) |->
        [type |-> type, sequence |-> sequence + 1, epoch |-> e, id |-> Nth(gone, i)]]

GoneEvents(gone, type, sequence, e) ==
    [i \in 1..Cardinality(gone) |->
        [type |-> type, sequence |-> sequence + i, epoch |-> e, id |-> Nth(gone, i)]]

\* Mutation: connections.remove is forgotten.
RemoveMembers_KeepsConnection(gone, lost, type) ==
    LET rest   == Restrict(members, DOMAIN members \ gone)
        events == GoneEvents(gone, type, roomSequence + 1, epoch + 1)
    IN  /\ HostId \notin gone
        /\ members' = rest
        /\ connections' = connections
        /\ rateLimits' = Restrict(rateLimits, DOMAIN rateLimits \ gone)
        /\ BeginEpochTransition(rest)
        /\ roomSequence' = roomSequence + 1 + Cardinality(gone)
        /\ pendingMembership' = [c \in Conn |->
              IF c \in ConnectionsOf(rest) THEN pendingMembership[c] \o events
              ELSE pendingMembership[c]]

\* remove_member, and the body of on_epoch_timeout: the members leave both
\* tables, one transition starts, one departure event per member is queued
\* for everyone who stays.
RemoveMembers(gone, lost, type) ==
    LET rest   == Restrict(members, DOMAIN members \ gone)
        events == GoneEvents(gone, type, roomSequence + 1, epoch + 1)
    IN  /\ HostId \notin gone
        /\ members' = rest
        /\ connections' = Restrict(connections, DOMAIN connections \
                              (lost \cup {members[m].connection : m \in gone}))
        /\ rateLimits' = Restrict(rateLimits, DOMAIN rateLimits \ gone)
        /\ BeginEpochTransition(rest)
        /\ roomSequence' = roomSequence + 1 + Cardinality(gone)
        /\ pendingMembership' = [c \in Conn |->
              IF c \in ConnectionsOf(rest) THEN pendingMembership[c] \o events
              ELSE pendingMembership[c]]

WrapsWithout(gone) == Wraps(Restrict(members, DOMAIN members \ gone))

CloseRoom ==
    /\ state' = "Destroyed"
    /\ Emit(SendAll(DOMAIN connections, Shutdown), DOMAIN connections,
            {[type |-> "RoomClosed"]})
    /\ UNCHANGED <<policy, token, members, nextMemberId, connections, requests,
                   nextRequestId, timeoutRequests, roomTimeout, epoch, epochKey,
                   roomSequence, chatReplay, rateLimits, pendingMembership,
                   nextConn, holders, relayed>>

-----------------------------------------------------------------------------
(* Losing a connection, and failing an event *)

\* on_connection_lost for a peer; `first` is sent before it and `close` closed.
LoseConnection(c, first, close) ==
    LET gone == MemberOf(c) \cap DOMAIN members IN
    /\ timeoutRequests' = Restrict(timeoutRequests,
          {r \in DOMAIN timeoutRequests : timeoutRequests[r].connection # c})
    /\ \/ /\ gone # {}
          /\ RemoveMembers(gone, {c}, "MemberLeft")
          /\ Emit(Then(first, WrapsWithout(gone)), close, {})
          /\ UNCHANGED requests
       \/ /\ gone = {}
          /\ requests' = Restrict(requests, DOMAIN requests \ RegisteredRequest(c))
          /\ connections' = Restrict(connections, DOMAIN connections \ {c})
          /\ Emit(first, close, {})
          /\ UNCHANGED <<state, members, rateLimits, roomSequence,
                         pendingMembership, epochVars>>
    /\ UNCHANGED <<policy, token, nextMemberId, nextRequestId, roomTimeout,
                   epochKey, nextConn, relayed>>

\* run() on an error the sender is answerable for: error reply, close, and
\* the connection is handled as lost.
Punish(c, code) == LoseConnection(c, SendTo(c, Error(code)), {c})

Running == state # "Destroyed"
AtRest == state \in {"Open", "Locked"}
InTransition == state = "EpochTransition"
Known == 1..(nextConn - 1)

NoEffect ==
    /\ Emit(Silence, {}, {})
    /\ UNCHANGED <<state, policy, token, members, nextMemberId, connections,
                   queueVars, timeoutRequests, roomTimeout, epochVars, epochKey,
                   roomSequence, rateLimits, pendingMembership, nextConn, relayed>>

\* The catch-all arm of a transition: password results, join forms, leave and
\* host commands fail as transient, and run() drops them without a word.
DroppedInTransition == InTransition /\ NoEffect

-----------------------------------------------------------------------------
(* Admission events *)

\* The accept loop's ids are fresh.  During a transition the event is refused
\* as transient and dropped, so the connection never enters the registry.
ClientConnected ==
    /\ Running
    /\ nextConn <= MaxConn
    /\ nextConn' = nextConn + 1
    /\ connections' = IF InTransition THEN connections
                      ELSE With(connections, nextConn, Entry(FALSE, "Admission", 0))
    /\ Emit(Silence, {}, {})
    /\ UNCHANGED <<state, policy, token, members, nextMemberId, queueVars,
                   timeoutRequests, roomTimeout, epochVars, epochKey, roomSequence,
                   rateLimits, pendingMembership, relayed>>

PasswordVerified(c) ==
    /\ AtRest
    /\ c \in DOMAIN connections
    /\ connections' = [connections EXCEPT ![c].verified = TRUE]
    /\ Emit(Silence, {}, {})
    /\ UNCHANGED <<state, policy, token, members, nextMemberId, queueVars,
                   timeoutRequests, roomTimeout, epochVars, epochKey, roomSequence,
                   rateLimits, pendingMembership, nextConn, relayed>>

\* mark_password_verified of a connection the registry does not know.
PasswordIgnored(c) == AtRest /\ c \notin DOMAIN connections /\ NoEffect

\* Mutation: the policy is only checked by the supervisor.
JoinRefusal_PolicyUnchecked(c) ==
    IF ~ HasRole(c, "Admission") THEN "ProtocolViolation"
    ELSE IF ~ connections[c].verified THEN "ProtocolViolation"
    ELSE IF Cardinality(DOMAIN requests) >= MaxPendingRequests THEN "ProtocolViolation"
    ELSE "None"

\* The checks of on_join_requested, in the code's order.
JoinRefusal(c) ==
    IF policy # "Open" THEN "RoomLocked"
    ELSE IF ~ HasRole(c, "Admission") THEN "ProtocolViolation"
    ELSE IF ~ connections[c].verified THEN "ProtocolViolation"
    ELSE IF Cardinality(DOMAIN requests) >= MaxPendingRequests THEN "ProtocolViolation"
    ELSE "None"

JoinRequested(c, app) ==
    /\ AtRest
    /\ JoinRefusal(c) = "None"
    /\ requests' = With(requests, nextRequestId, [connection |-> c, application |-> app])
    /\ nextRequestId' = nextRequestId + 1
    /\ connections' = [connections EXCEPT ![c] = Entry(TRUE, "Pending", nextRequestId)]
    /\ roomSequence' = roomSequence + 1
    /\ Emit(Silence, {}, {})
    /\ UNCHANGED <<state, policy, token, members, nextMemberId, timeoutRequests,
                   roomTimeout, epochVars, epochKey, rateLimits,
                   pendingMembership, nextConn, relayed>>

JoinRefused(c) ==
    /\ AtRest
    /\ JoinRefusal(c) # "None"
    /\ Punish(c, JoinRefusal(c))

-----------------------------------------------------------------------------
(* Host commands: only at rest, dropped during a transition *)

\* on_accept for a join request the member table takes.
AcceptJoin(r) ==
    LET c   == requests[r].connection
        app == requests[r].application
        m   == nextMemberId
        rec == Member(c, app, epoch + 1)
        ms  == With(members, m, rec)
        s   == roomSequence + 1
        joined   == [type |-> "MemberJoined", sequence |-> s + 1,
                     epoch |-> epoch + 1, member |-> ViewOf(m, rec)]
        snapshot == [type |-> "MemberSnapshot", sequence |-> s + 2,
                     epoch |-> epoch + 1,
                     members |-> {ViewOf(x, ms[x]) : x \in DOMAIN ms}]
    IN  /\ AtRest
        /\ Admissible(c, app)
        /\ requests' = Restrict(requests, DOMAIN requests \ {r})
        /\ members' = ms
        /\ nextMemberId' = m + 1
        /\ connections' = With(connections, c,
              Entry(c \in DOMAIN connections /\ connections[c].verified, "Member", m))
        /\ BeginEpochTransition(ms)
        /\ roomSequence' = s + 2
        /\ pendingMembership' = [d \in Conn |->
              pendingMembership[d] \o
                 (IF d = c THEN <<snapshot>>
                  ELSE IF d \in ConnectionsOf(members) THEN <<joined>> ELSE <<>>)]
        /\ Emit(Then(SendTo(c, JoinAccepted(m)), Wraps(ms)), {}, {})
        /\ UNCHANGED <<policy, token, nextRequestId, timeoutRequests, roomTimeout,
                       epochKey, rateLimits, nextConn, relayed>>

\* A join request leaves the queue and its connection is turned away: by
\* /reject, or because the member table refuses it at /accept.
TurnAway(r) ==
    LET c == requests[r].connection IN
    /\ requests' = Restrict(requests, DOMAIN requests \ {r})
    /\ connections' = Restrict(connections, DOMAIN connections \ {c})
    /\ Emit(SendTo(c, JoinRejected), {c}, {})
    /\ UNCHANGED <<state, policy, token, members, nextMemberId, nextRequestId,
                   timeoutRequests, roomTimeout, epochVars, epochKey, roomSequence,
                   rateLimits, pendingMembership, nextConn, relayed>>

AcceptRefused(r) ==
    /\ AtRest
    /\ ~ Admissible(requests[r].connection, requests[r].application)
    /\ TurnAway(r)

RejectJoin(r) == AtRest /\ TurnAway(r)

\* /accept and /reject of a timeout request, which only the notice tells apart.
DecideTimeoutRequest(r, accepted) ==
    /\ AtRest
    /\ timeoutRequests' = Restrict(timeoutRequests, DOMAIN timeoutRequests \ {r})
    /\ Emit(Silence, {}, IF accepted
                THEN {[type |-> "TimeoutRequestAccepted", seconds |-> timeoutRequests[r].seconds]}
                ELSE {})
    /\ UNCHANGED <<state, policy, token, members, nextMemberId, connections,
                   queueVars, roomTimeout, epochVars, epochKey, roomSequence,
                   rateLimits, pendingMembership, nextConn, relayed>>

\* Mutation: the member is removed but the key is kept.
Kick_WithoutRekey(m) ==
    /\ AtRest
    /\ m # HostId
    /\ members' = Restrict(members, DOMAIN members \ {m})
    /\ connections' = Restrict(connections, DOMAIN connections \ {members[m].connection})
    /\ Emit(Silence, {members[m].connection}, {})
    /\ UNCHANGED <<state, policy, token, nextMemberId, queueVars, timeoutRequests,
                   roomTimeout, epochVars, epochKey, roomSequence, rateLimits,
                   pendingMembership, nextConn, relayed>>

Kick(m) ==
    /\ AtRest
    /\ m # HostId
    /\ RemoveMembers({m}, {}, "MemberKicked")
    /\ Emit(WrapsWithout({m}), {members[m].connection}, {})
    /\ UNCHANGED <<policy, token, nextMemberId, queueVars, timeoutRequests,
                   roomTimeout, epochKey, nextConn, relayed>>

\* What /newid and /reqoff do to everyone who is not a member.
NonMembers == {c \in DOMAIN connections : connections[c].role # "Member"}
                 \cup {requests[r].connection : r \in DOMAIN requests}

\* Mutation: the queue is drained but the registry is not.
DropNonMembers_KeepsConnections ==
    /\ requests' = Empty
    /\ UNCHANGED connections

DropNonMembers ==
    /\ requests' = Empty
    /\ connections' = Restrict(connections, DOMAIN connections \ NonMembers)

NewId ==
    /\ AtRest
    /\ token < MaxToken
    /\ token' = token + 1
    /\ roomSequence' = roomSequence + 1
    /\ DropNonMembers
    /\ Emit(Silence, NonMembers, {[type |-> "InvitationRotated", token |-> token + 1]})
    /\ UNCHANGED <<state, policy, members, nextMemberId, nextRequestId,
                   timeoutRequests, roomTimeout, epochVars, epochKey,
                   rateLimits, pendingMembership, nextConn, relayed>>

\* Mutation: the event is signed before the sequence is advanced.
SetPolicy_StaleSequence(p) ==
    LET event == [type |-> "JoinPolicyChanged", sequence |-> roomSequence,
                  epoch |-> epoch, open |-> p = "Open"]
    IN  /\ AtRest
        /\ roomSequence < MaxRoomSequence
        /\ policy' = p
        /\ state' = p
        /\ roomSequence' = roomSequence + 1
        /\ IF p = "Locked" THEN DropNonMembers ELSE UNCHANGED <<requests, connections>>
        /\ Emit(SendAll(ConnectionsOf(members) \ {HostConnection}, event),
                IF p = "Locked" THEN NonMembers ELSE {},
                {[type |-> "JoinPolicyChanged", policy |-> p]})
        /\ UNCHANGED <<token, members, nextMemberId, nextRequestId, timeoutRequests,
                       roomTimeout, epochVars, epochKey, rateLimits,
                       pendingMembership, nextConn, relayed>>

SetPolicy(p) ==
    LET event == [type |-> "JoinPolicyChanged", sequence |-> roomSequence + 1,
                  epoch |-> epoch, open |-> p = "Open"]
    IN  /\ AtRest
        /\ roomSequence < MaxRoomSequence
        /\ policy' = p
        /\ state' = p
        /\ roomSequence' = roomSequence + 1
        /\ IF p = "Locked" THEN DropNonMembers ELSE UNCHANGED <<requests, connections>>
        /\ Emit(SendAll(ConnectionsOf(members) \ {HostConnection}, event),
                IF p = "Locked" THEN NonMembers ELSE {},
                {[type |-> "JoinPolicyChanged", policy |-> p]})
        /\ UNCHANGED <<token, members, nextMemberId, nextRequestId, timeoutRequests,
                       roomTimeout, epochVars, epochKey, rateLimits,
                       pendingMembership, nextConn, relayed>>

CloseRequested ==
    /\ Running
    /\ CloseRoom
    /\ UNCHANGED pendingEpoch

-----------------------------------------------------------------------------
(* Members leaving *)

ConnectionLost(c) ==
    /\ Running
    /\ LoseConnection(c, Silence, {})

\* MemberCommand::Leave: the leaver is told to shut down.
Leave(c) ==
    /\ AtRest
    /\ RegisteredMember(c) # {}
    /\ RegisteredMember(c) \subseteq DOMAIN members
    /\ RemoveMembers(RegisteredMember(c), {}, "MemberLeft")
    /\ Emit(Then(WrapsWithout(RegisteredMember(c)), SendTo(c, Shutdown)), {c}, {})
    /\ UNCHANGED <<policy, token, nextMemberId, queueVars, timeoutRequests,
                   roomTimeout, epochKey, nextConn, relayed>>

\* MemberCommand::Color changes the table without telling anybody.
ColorCommand(c, color) ==
    /\ AtRest
    /\ RegisteredMember(c) # {}
    /\ members' = [m \in DOMAIN members |->
          IF m \in RegisteredMember(c) THEN [members[m] EXCEPT !.color = color]
          ELSE members[m]]
    /\ Emit(Silence, {}, {})
    /\ UNCHANGED <<state, policy, token, nextMemberId, connections, queueVars,
                   timeoutRequests, roomTimeout, epochVars, epochKey, roomSequence,
                   rateLimits, pendingMembership, nextConn, relayed>>

\* A member command that fails: /leave or /color of somebody who is no member,
\* /whois of a nickname nobody has.
MemberCommandRefused(c) ==
    /\ AtRest
    /\ Punish(c, "ProtocolViolation")

\* RoomEvent::MemberLeft: nobody closes the connection.
MemberLeft(m) ==
    /\ AtRest
    /\ m # HostId
    /\ RemoveMembers({m}, {}, "MemberLeft")
    /\ Emit(WrapsWithout({m}), {}, {})
    /\ UNCHANGED <<policy, token, nextMemberId, queueVars, timeoutRequests,
                   roomTimeout, epochKey, nextConn, relayed>>

-----------------------------------------------------------------------------
(* Acknowledgements and the acknowledgement deadline *)

\* An acknowledgement counts once, from a member, for the pending epoch.
Counts(c, e) ==
    /\ pendingEpoch # NoPending
    /\ e = pendingEpoch.epoch
    /\ RegisteredMember(c) # {}
    /\ RegisteredMember(c) \subseteq pendingEpoch.awaiting

\* Mutation: newcomers are not told the room's message lifetime.
Rebroadcast_Forgotten == {}

Rebroadcast ==
    IF roomTimeout = NoTimeout THEN {}
    ELSE {[type |-> "TimeoutRebroadcast", seconds |-> roomTimeout]}

EpochAck(c, e) ==
    LET left == pendingEpoch.awaiting \ RegisteredMember(c) IN
    /\ InTransition
    /\ Counts(c, e)
    /\ \/ /\ left # {}
          /\ pendingEpoch' = [pendingEpoch EXCEPT !.awaiting = left]
          /\ Emit(Silence, {}, {})
          /\ UNCHANGED <<state, epochKey, pendingMembership>>
       \/ /\ left = {}
          /\ pendingEpoch' = NoPending
          /\ epochKey' = pendingEpoch.epoch
          /\ state' = RestState
          /\ pendingMembership' = Silence
          /\ Emit(pendingMembership, {}, Rebroadcast)
    /\ UNCHANGED <<policy, token, members, nextMemberId, connections, queueVars,
                   timeoutRequests, roomTimeout, epoch, holders, chatReplay,
                   roomSequence, rateLimits, nextConn, relayed>>

\* Stale, repeated and strangers' acknowledgements are ignored.
EpochAckIgnored(c, e) == Running /\ ~ Counts(c, e) /\ NoEffect

Expired == InTransition /\ pendingEpoch # NoPending /\ pendingEpoch.age >= EpochAckTimeout

\* Mutation: a host that does not acknowledge is waited for.
EpochTimeout_SparesHost ==
    LET late == pendingEpoch.awaiting IN
    /\ Expired
    /\ HostId \notin late
    /\ RemoveMembers(late \cap DOMAIN members, {}, "MemberLeft")
    /\ Emit(WrapsWithout(late),
            {members[m].connection : m \in late \cap DOMAIN members}, {})
    /\ UNCHANGED <<policy, token, nextMemberId, queueVars, timeoutRequests,
                   roomTimeout, epochKey, nextConn, relayed>>

\* EpochMaintenance past the deadline: everyone still awaited is evicted in
\* one transition; a host that did not acknowledge closes the room.
EpochTimeout ==
    LET late == pendingEpoch.awaiting IN
    /\ Expired
    /\ \/ /\ HostId \in late
          /\ pendingEpoch' = NoPending
          /\ CloseRoom
       \/ /\ HostId \notin late
          /\ RemoveMembers(late \cap DOMAIN members, {}, "MemberLeft")
          /\ Emit(WrapsWithout(late),
                  {members[m].connection : m \in late \cap DOMAIN members}, {})
          /\ UNCHANGED <<policy, token, nextMemberId, queueVars, timeoutRequests,
                         roomTimeout, epochKey, nextConn, relayed>>

FullBucket == [tokens |-> Burst, violations |-> 0]
Bucket(m) == IF m \in DOMAIN rateLimits THEN rateLimits[m] ELSE FullBucket

\* One second of the monotonic clock: the pending transition ages (up to the
\* deadline, past which its age no longer matters) and buckets refill.
Tick ==
    /\ Running
    /\ pendingEpoch' = IF pendingEpoch # NoPending /\ pendingEpoch.age < EpochAckTimeout
                       THEN [pendingEpoch EXCEPT !.age = @ + 1] ELSE pendingEpoch
    /\ rateLimits' = [m \in DOMAIN rateLimits |->
          [rateLimits[m] EXCEPT !.tokens = IF @ < Burst THEN @ + 1 ELSE @]]
    /\ <<pendingEpoch, rateLimits>>' # <<pendingEpoch, rateLimits>>
    /\ Emit(Silence, {}, {})
    /\ UNCHANGED <<state, policy, token, members, nextMemberId, connections,
                   queueVars, timeoutRequests, roomTimeout, epoch, holders,
                   chatReplay, epochKey, roomSequence, pendingMembership,
                   nextConn, relayed>>

-----------------------------------------------------------------------------
(* The chat relay: on_chat_received, one action per outcome *)

\* Mutation: every member's chat is handled during a transition.
HasAcked_Unchecked(c) == TRUE

\* handle_event_at lets a chat through at rest, and during a transition from
\* a member that acknowledged the pending epoch.
HasAcked(c) ==
    \/ pendingEpoch = NoPending
    \/ /\ RegisteredMember(c) # {}
       /\ RegisteredMember(c) \cap pendingEpoch.awaiting = {}

ChatAllowed(c) == Running /\ (InTransition => HasAcked(c))

ChatDuringTransition(c) ==
    /\ InTransition
    /\ ~ HasAcked(c)
    /\ Emit(IF c = HostConnection THEN Silence ELSE SendTo(c, Error("RateLimited")), {}, {})
    /\ UNCHANGED <<state, policy, token, members, nextMemberId, connections,
                   queueVars, timeoutRequests, roomTimeout, epochVars, epochKey,
                   roomSequence, rateLimits, pendingMembership, nextConn, relayed>>

\* Not a member, or an envelope that names another sender.
ChatUnauthorised(c, env) ==
    /\ ChatAllowed(c)
    /\ c # HostConnection
    /\ RegisteredMember(c) # {env.sender}
    /\ Punish(c, "ProtocolViolation")

Sender(c, env) ==
    /\ ChatAllowed(c)
    /\ RegisteredMember(c) = {env.sender}
    /\ env.sender \in DOMAIN members

\* Mutation: the limiter never refuses.
OverLimit_Never(env) == FALSE

OverLimit(env) == env.kind \in LimitedKinds /\ Bucket(env.sender).tokens = 0

Violated(m) ==
    [Bucket(m) EXCEPT !.violations = IF @ < RateLimitTermination THEN @ + 1 ELSE @]

Spent(env) ==
    IF env.kind \in LimitedKinds
    THEN With(rateLimits, env.sender,
              [tokens |-> Bucket(env.sender).tokens - 1, violations |-> 0])
    ELSE rateLimits

Abusive(m) == Violated(m).violations >= RateLimitTermination

\* A violation below the threshold, or of the host, who cannot be removed.
ChatRateLimited(c, env) ==
    /\ Sender(c, env)
    /\ OverLimit(env)
    /\ ~ Abusive(env.sender) \/ env.sender = HostId
    /\ rateLimits' = With(rateLimits, env.sender, Violated(env.sender))
    /\ Emit(IF Abusive(env.sender) THEN Silence ELSE SendTo(c, Error("RateLimited")), {}, {})
    /\ UNCHANGED <<state, policy, token, members, nextMemberId, connections,
                   queueVars, timeoutRequests, roomTimeout, epochVars, epochKey,
                   roomSequence, pendingMembership, nextConn, relayed>>

ChatAbusive(c, env) ==
    /\ Sender(c, env)
    /\ OverLimit(env)
    /\ Abusive(env.sender)
    /\ env.sender # HostId
    /\ RemoveMembers({env.sender}, {}, "MemberKicked")
    /\ Emit(Then(SendTo(c, Error("RateLimited")), WrapsWithout({env.sender})), {c}, {})
    /\ UNCHANGED <<policy, token, nextMemberId, queueVars, timeoutRequests,
                   roomTimeout, epochKey, nextConn, relayed>>

\* Mutation: the last accepted sequence is accepted again.
Fresh_SameSequence(env) ==
    /\ env.epoch = epoch
    /\ env.sender \in DOMAIN chatReplay => env.sequence >= chatReplay[env.sender]

\* Current epoch, new sequence, and it opens under the pending key - or, at
\* rest, under the active one.
Fresh(env) ==
    /\ env.epoch = epoch
    /\ env.sender \in DOMAIN chatReplay => env.sequence > chatReplay[env.sender]

OpeningKey == IF pendingEpoch # NoPending THEN pendingEpoch.epoch ELSE epochKey

Opens(env) == env.genuine /\ OpeningKey = env.epoch

QueueFull ==
    Cardinality(DOMAIN requests) + Cardinality(DOMAIN timeoutRequests) >= MaxPendingRequests

\* The rules of the message types.
Permitted(env) ==
    /\ env.kind = "TimeoutRequest" => env.sender # HostId /\ ~ QueueFull
    /\ env.kind = "TimeoutChanged" => env.sender = HostId

Accepted(env) == Fresh(env) /\ Opens(env) /\ Permitted(env)

\* Any other failure ends the sender's connection; the local host is only told.
ChatRefused(c, env) ==
    /\ Sender(c, env)
    /\ ~ OverLimit(env)
    /\ ~ Accepted(env)
    /\ \/ /\ c # HostConnection
          /\ Punish(c, "ProtocolViolation")
       \/ /\ c = HostConnection
          /\ rateLimits' = Spent(env)
          /\ Emit(Silence, {}, {})
          /\ UNCHANGED <<state, policy, token, members, nextMemberId, connections,
                         queueVars, timeoutRequests, roomTimeout, epochVars, epochKey,
                         roomSequence, pendingMembership, nextConn, relayed>>

RecordSequence(env) == chatReplay' = With(chatReplay, env.sender, env.sequence)

\* Mutation: the relay goes to every tracked connection.
Recipients_EveryConnection(c) == DOMAIN connections \ {c}

Recipients(c) == ConnectionsOf(members) \ {c}

\* CHAT, COLOR_CHANGE and TIMEOUT_CHANGED go to every member but the sender.
ChatRelayed(c, env) ==
    /\ Sender(c, env)
    /\ ~ OverLimit(env)
    /\ Accepted(env)
    /\ env.kind # "TimeoutRequest"
    /\ rateLimits' = Spent(env)
    /\ RecordSequence(env)
    /\ members' = IF env.kind = "Color"
                  THEN [members EXCEPT ![env.sender].color = env.body] ELSE members
    /\ roomTimeout' = IF env.kind = "TimeoutChanged" THEN env.body ELSE roomTimeout
    /\ relayed' = relayed \cup {env}
    /\ Emit(SendAll(Recipients(c), Relay(env)), {}, {})
    /\ UNCHANGED <<state, policy, token, nextMemberId, connections, queueVars,
                   timeoutRequests, epoch, pendingEpoch, holders, epochKey,
                   roomSequence, pendingMembership, nextConn>>

\* Mutation: the id is read from the queue's counter without allocating it.
TimeoutRequested_SharedId(c, env) ==
    /\ Sender(c, env)
    /\ ~ OverLimit(env)
    /\ Accepted(env)
    /\ env.kind = "TimeoutRequest"
    /\ rateLimits' = Spent(env)
    /\ RecordSequence(env)
    /\ timeoutRequests' = With(timeoutRequests, nextRequestId,
          [connection |-> c, member |-> env.sender, seconds |-> env.body])
    /\ Emit(Silence, {}, {})
    /\ UNCHANGED <<state, policy, token, members, nextMemberId, connections, queueVars,
                   roomTimeout, epoch, pendingEpoch, holders, epochKey,
                   roomSequence, pendingMembership, nextConn, relayed>>

TimeoutRequested(c, env) ==
    /\ Sender(c, env)
    /\ ~ OverLimit(env)
    /\ Accepted(env)
    /\ env.kind = "TimeoutRequest"
    /\ rateLimits' = Spent(env)
    /\ RecordSequence(env)
    /\ timeoutRequests' = With(timeoutRequests, nextRequestId,
          [connection |-> c, member |-> env.sender, seconds |-> env.body])
    /\ nextRequestId' = nextRequestId + 1
    /\ Emit(Silence, {}, {})
    /\ UNCHANGED <<state, policy, token, members, nextMemberId, connections, requests,
                   roomTimeout, epoch, pendingEpoch, holders, epochKey,
                   roomSequence, pendingMembership, nextConn, relayed>>

\* Every event after the room is destroyed fails with RoomClosed, of which
\* a peer is told that sent a join form, an acknowledgement or a message.
RoomClosed(c) ==
    /\ ~ Running
    /\ c # HostConnection
    /\ Emit(SendTo(c, Error("RoomClosed")), {c}, {})
    /\ UNCHANGED <<state, policy, token, members, nextMemberId, connections,
                   queueVars, timeoutRequests, roomTimeout, epochVars, epochKey,
                   roomSequence, rateLimits, pendingMembership, nextConn, relayed>>

EventAfterClose == ~ Running /\ NoEffect

-----------------------------------------------------------------------------
(* The specification *)

Bodies(kind) ==
    CASE kind = "Chat"           -> {0}
      [] kind = "Color"          -> Color
      [] kind = "TimeoutRequest" -> Intervals
      [] kind = "TimeoutChanged" -> Intervals \cup {NoTimeout}

\* What connection c can send.  Only the owner of an identity that was given
\* an epoch key makes a genuine envelope (Ed25519 and AEAD, assumed sound);
\* the local host only sends its own, well-formed messages.
Envelopes(c) ==
    {env \in UNION {[kind : {k}, sender : DOMAIN members,
                     epoch : {epoch, epoch - 1} \ {0},
                     sequence : 1..MaxSenderSequence,
                     genuine : BOOLEAN, body : Bodies(k)] : k \in Kinds} :
        /\ env.genuine => /\ RegisteredMember(c) = {env.sender}
                          /\ env.sender \in holders[env.epoch]
        /\ c = HostConnection => /\ env.sender = HostId /\ env.genuine
                                 /\ env.kind \in HostKinds}

Init ==
    /\ state = "EpochTransition"
    /\ policy = "Open"
    /\ token = 1
    /\ members = With(Empty, HostId, Member(HostConnection,
                     [nickname |-> HostNickname, identity |-> HostIdentity], 1))
    /\ nextMemberId = 1
    /\ connections = With(Empty, HostConnection, Entry(FALSE, "Member", HostId))
    /\ requests = Empty
    /\ nextRequestId = 0
    /\ timeoutRequests = Empty
    /\ roomTimeout = NoTimeout
    /\ epoch = 1
    /\ epochKey = NoKey
    /\ pendingEpoch = [epoch |-> 1, awaiting |-> {HostId}, age |-> 0]
    /\ roomSequence = 1
    /\ chatReplay = Empty
    /\ rateLimits = Empty
    /\ pendingMembership = Silence
    /\ outgoing = [send |-> SendTo(HostConnection, EpochWrap(1)), close |-> {},
                   notices |-> {[type |-> "InvitationRotated", token |-> 1]}]
    /\ nextConn = 1
    /\ holders = <<{HostId}>>
    /\ relayed = {}

AdmissionEvent ==
    \/ ClientConnected
    \/ \E c \in Known :
          \/ PasswordVerified(c) \/ PasswordIgnored(c)
          \/ \E app \in Applications : JoinRequested(c, app)
          \/ JoinRefused(c)

HostEvent ==
    \/ \E r \in DOMAIN requests : AcceptJoin(r) \/ AcceptRefused(r) \/ RejectJoin(r)
    \/ \E r \in DOMAIN timeoutRequests, accepted \in BOOLEAN :
          DecideTimeoutRequest(r, accepted)
    \/ \E m \in DOMAIN members : Kick(m)
    \/ NewId
    \/ \E p \in {"Open", "Locked"} : SetPolicy(p)
    \/ CloseRequested

DepartureEvent ==
    \/ \E c \in Known : ConnectionLost(c) \/ Leave(c) \/ MemberCommandRefused(c)
    \/ \E c \in Known \cup {HostConnection}, color \in Color : ColorCommand(c, color)
    \/ \E m \in DOMAIN members : MemberLeft(m)

EpochEvent ==
    \/ \E c \in Known \cup {HostConnection}, e \in 1..epoch : EpochAck(c, e)
    \/ \E c \in Known \cup {HostConnection}, e \in 1..epoch : EpochAckIgnored(c, e)
    \/ DroppedInTransition
    \/ EpochTimeout
    \/ Tick

ChatEvent ==
    \E c \in Known \cup {HostConnection} :
        \/ ChatDuringTransition(c)
        \/ \E env \in Envelopes(c) :
              \/ ChatUnauthorised(c, env)
              \/ ChatRateLimited(c, env)
              \/ ChatAbusive(c, env)
              \/ ChatRefused(c, env)
              \/ ChatRelayed(c, env)
              \/ TimeoutRequested(c, env)

Next ==
    \/ AdmissionEvent
    \/ HostEvent
    \/ DepartureEvent
    \/ EpochEvent
    \/ ChatEvent
    \/ \E c \in Known : RoomClosed(c)
    \/ EventAfterClose

\* The supervisor's one-second maintenance tick never stops while the room
\* runs, and neither does the clock; nobody else owes the room anything.
Fairness == WF_vars(Tick) /\ WF_vars(EpochTimeout)

Spec == Init /\ [][Next]_vars /\ Fairness

-----------------------------------------------------------------------------
(* Type invariant *)

MemberRecord == [connection : Conn, nickname : Nickname, identity : Identity,
                 color : Color, joinedEpoch : Nat]
EntryRecord == [verified : BOOLEAN, role : {"Admission", "Pending", "Member"}, id : Nat]
RequestRecord == [connection : Conn, application : [nickname : Nickname, identity : Identity]]
TimeoutRecord == [connection : Conn, member : Nat, seconds : Nat]
Message ==
    RoomEvent \cup [type : {"EpochWrap"}, epoch : Nat]
    \cup [type : {"JoinAccepted"}, id : Nat]
    \cup [type : {"JoinRejected", "Shutdown"}]
    \cup [type : {"Error"}, code : {"RoomLocked", "RoomClosed", "ProtocolViolation",
                                    "RateLimited"}]
    \cup [type : {"Relay"}, envelope : Envelope]
BucketRecord == [tokens : 0..Burst, violations : 0..RateLimitTermination]

\* A finite map from K to V.
IsMap(f, K, V) == /\ DOMAIN f \subseteq K
                  /\ IsFiniteSet(DOMAIN f)
                  /\ f \in [DOMAIN f -> V]

\* Every field of the actor stays within the Rust type it models.
TypeOK ==
    /\ state \in {"Open", "Locked", "EpochTransition", "Destroyed"}
    /\ policy \in {"Open", "Locked"}
    /\ token \in Nat
    /\ IsMap(members, Nat, MemberRecord)
    /\ nextMemberId \in Nat
    /\ IsMap(connections, Conn, EntryRecord)
    /\ IsMap(requests, Nat, RequestRecord)
    /\ nextRequestId \in Nat
    /\ IsMap(timeoutRequests, Nat, TimeoutRecord)
    /\ roomTimeout \in Nat
    /\ epoch \in Nat
    /\ epochKey \in Nat
    /\ pendingEpoch \in [epoch : Nat, awaiting : SUBSET Nat, age : Nat]
    /\ roomSequence \in Nat
    /\ IsMap(chatReplay, Nat, Nat)
    /\ IsMap(rateLimits, Nat, BucketRecord)
    /\ pendingMembership \in [Conn -> Seq(RoomEvent)]
    /\ outgoing.send \in [Conn -> Seq(Message)]
    /\ outgoing.close \subseteq Conn
    /\ nextConn \in 1..(MaxConn + 1)
    /\ holders \in Seq(SUBSET Nat)
    /\ relayed \subseteq Envelope

-----------------------------------------------------------------------------
(* Safety *)

\* The member table and the connection registry (members.add + promote,
\* members.remove + connections.remove) never disagree, whatever order
\* accept, kick, disconnect and eviction happen in: a member's connection is
\* registered as that member, and a registered member is in the table.
RegistryMatchesMembers ==
    /\ \A m \in DOMAIN members : RegisteredMember(members[m].connection) = {m}
    /\ \A c \in DOMAIN connections : connections[c].role = "Member" =>
          /\ connections[c].id \in DOMAIN members
          /\ members[connections[c].id].connection = c

\* The request queue and the registry never disagree: a pending request's
\* connection is registered as waiting on it, and a connection registered as
\* waiting has its request in the queue (take, drain, on_connection_lost).
QueueMatchesRegistry ==
    /\ \A r \in DOMAIN requests : RegisteredRequest(requests[r].connection) = {r}
    /\ \A c \in DOMAIN connections : connections[c].role = "Pending" =>
          /\ connections[c].id \in DOMAIN requests
          /\ requests[connections[c].id].connection = c

\* The room is in EpochTransition exactly while a pending epoch awaits
\* somebody, the pending epoch is the current one, and only members are
\* awaited - otherwise a departed member could block activation forever.
TransitionShape ==
    /\ InTransition => /\ pendingEpoch.epoch = epoch
                       /\ pendingEpoch.awaiting # {}
                       /\ pendingEpoch.awaiting \subseteq DOMAIN members
    /\ AtRest => pendingEpoch = NoPending /\ epochKey = epoch

\* The key of the current epoch was wrapped for exactly the current members,
\* and each member was given exactly the keys of the epochs since it joined:
\* no join, removal or nested transition leaves a key with the wrong people.
KeyGoesToMembers ==
    /\ Len(holders) = epoch
    /\ holders[epoch] = DOMAIN members
    /\ \A m \in DOMAIN members, e \in 1..epoch :
          m \in holders[e] <=> e >= members[m].joinedEpoch

\* /accept, /reject and /requests address both queues by one id: an id is
\* never in both, and is never handed out again.
RequestIdsDisjoint ==
    /\ DOMAIN requests \cap DOMAIN timeoutRequests = {}
    /\ \A r \in DOMAIN requests \cup DOMAIN timeoutRequests : r < nextRequestId

\* Two members never share a connection, a nickname or an identity, although
\* applications for the same nickname may wait side by side.
MembersDistinct ==
    \A m, n \in DOMAIN members : m # n =>
        /\ members[m].connection # members[n].connection
        /\ members[m].nickname # members[n].nickname
        /\ members[m].identity # members[n].identity

\* Every relayed envelope reaches members that hold the key of its epoch,
\* not its sender, also while a transition is in flight.
RelayReachesKeyHolders ==
    \A c \in Conn : \A i \in DOMAIN outgoing.send[c] :
        outgoing.send[c][i].type = "Relay" =>
            \E m \in DOMAIN members :
                /\ members[m].connection = c
                /\ m # outgoing.send[c][i].envelope.sender
                /\ m \in holders[outgoing.send[c][i].envelope.epoch]

-----------------------------------------------------------------------------
(* Action properties and liveness *)

\* An envelope that was relayed is never relayed again, however often it is
\* replayed and although replay state is dropped at every new epoch.
RelayedOnce ==
    [][\A env \in relayed, c \in Conn :
          \A i \in DOMAIN outgoing'.send[c] : outgoing'.send[c][i] # Relay(env)]_vars

\* Somebody who is no longer a member is given no later epoch's key.
GoneForGood ==
    [][\A m \in 0..(nextMemberId - 1) :
          m \notin DOMAIN members =>
             \A e \in (epoch + 1)..epoch' : m \notin holders'[e]]_vars

\* An epoch transition ends: every member acknowledges, or the deadline
\* evicts whoever does not (again and again, if evictions nest), or the room
\* closes.  A member that withholds its acknowledgement cannot freeze the room.
TransitionEnds == InTransition ~> ~ InTransition

=============================================================================
