-------------------------- MODULE RoomTypeProofs ---------------------------
(***************************************************************************)
(* RoomActor is type correct, for any number of connections, members,      *)
(* requests and message kinds; and, before that, what its operators        *)
(* return, preserve and bound: finite maps, the order of the ids, and the  *)
(* messages that handlers emit.                                            *)
(***************************************************************************)
EXTENDS RoomActor, FiniteSetTheorems, WellFoundedInduction, TLAPS

(* Finite maps *)

\* Restricting a map (HashMap::remove, retain) keeps its type and the values
\* of the keys that stay.
LEMMA RestrictMap ==
    ASSUME NEW f, NEW K, NEW V, NEW D, IsMap(f, K, V), D \subseteq DOMAIN f
    PROVE  /\ IsMap(Restrict(f, D), K, V)
           /\ DOMAIN Restrict(f, D) = D
           /\ \A x \in D : Restrict(f, D)[x] = f[x]
  BY FS_Subset DEF IsMap, Restrict

\* Inserting a typed entry keeps the type and every other entry.
LEMMA ExtendMap ==
    ASSUME NEW f, NEW K, NEW V, NEW k \in K, NEW v \in V, IsMap(f, K, V)
    PROVE  /\ IsMap(With(f, k, v), K, V)
           /\ DOMAIN With(f, k, v) = DOMAIN f \cup {k}
           /\ With(f, k, v)[k] = v
           /\ \A x \in DOMAIN f : x # k => With(f, k, v)[x] = f[x]
  BY FS_AddElement DEF IsMap, With

\* A map keeps its type when values are replaced by typed values.
LEMMA ReplaceMap ==
    ASSUME NEW f, NEW K, NEW V, IsMap(f, K, V),
           NEW g \in [DOMAIN f -> V]
    PROVE  IsMap(g, K, V)
  BY DEF IsMap

\* The empty map has every map type.
LEMMA EmptyMap == ASSUME NEW K, NEW V PROVE IsMap(Empty, K, V) /\ DOMAIN Empty = {}
  BY FS_EmptySet DEF IsMap, Empty

\* A value of a map is in the map's range, a key in its key set.
LEMMA MapValue ==
    ASSUME NEW f, NEW K, NEW V, IsMap(f, K, V), NEW k \in DOMAIN f
    PROVE  f[k] \in V /\ k \in K
  BY DEF IsMap

-----------------------------------------------------------------------------
(* The order of the ids *)

\* Nth picks an element of the set: on_epoch_timeout queues one departure for
\* each evicted member.
LEMMA NthInSet ==
    ASSUME NEW N \in Nat, NEW S, \A x \in S : x \in Nat /\ x <= N,
           NEW i \in Nat, 1 <= i, i <= Cardinality(S)
    PROVE  Nth(S, i) \in S
PROOF
  <1> DEFINE Below(n) == {x \in S : x <= n}
             T == {n \in Nat : Cardinality(Below(n)) >= i}
  <1>1. IsFiniteSet(S) /\ Cardinality(S) \in Nat
    <2>1. S \in SUBSET Nat
      OBVIOUS
    <2> QED BY <2>1, FS_BoundedSetOfNaturals, FS_CardinalityType
  <1>2. \A n \in Nat : IsFiniteSet(Below(n)) /\ Cardinality(Below(n)) \in Nat
    BY <1>1, FS_Subset, FS_CardinalityType
  <1>3. Below(N) = S
    OBVIOUS
  <1>4. N \in T
    BY <1>1, <1>3
  <1>5. PICK k \in Nat : /\ Cardinality(Below(k)) >= i
                         /\ \A n \in Nat : n < k => ~ (Cardinality(Below(n)) >= i)
    <2> DEFINE R == {ss \in Nat \X Nat : ss[1] < ss[2]}
    <2>1. IsWellFoundedOn(R, Nat)
      BY NatLessThanWellFounded, Zenon DEF OpToRel
    <2>2. T \subseteq Nat /\ T # {}
      BY <1>4
    <2>3. \E x \in T : \A y \in T : ~ (<<y, x>> \in R)
      <3> HIDE DEF R, T
      <3> QED BY <2>1, <2>2, WFMin
    <2>4. PICK x \in T : \A y \in T : ~ (<<y, x>> \in R)
      BY <2>3
    <2>5. x \in Nat /\ \A y \in T : ~ (y < x)
      BY <2>2, <2>4
    <2> QED BY <2>5
  <1>6. k \in S /\ Cardinality(Below(k)) = i
    <2>1. CASE k = 0
      <3>1. Below(k) \subseteq {0}
        BY <2>1, <1>5
      <3>2. Below(k) # {}
        BY <1>2, <1>5, FS_EmptySet
      <3>3. Below(k) = {0}
        BY <3>1, <3>2
      <3>4. Cardinality(Below(k)) = 1 /\ 0 \in S
        BY <3>3, FS_Singleton
      <3>5. Cardinality(Below(k)) >= i
        BY <1>5
      <3> HIDE DEF Below
      <3> QED BY <3>4, <3>5, <2>1
    <2>2. CASE k # 0
      <3>1. k - 1 \in Nat /\ Cardinality(Below(k - 1)) < i
        BY <2>2, <1>2, <1>5
      <3>2. CASE k \notin S
        <4>1. Below(k) = Below(k - 1)
          BY <3>2, <3>1, <1>5
        <4> QED BY <4>1, <3>1, <1>5, <1>2
      <3>3. CASE k \in S
        <4>a. \A x \in S : x <= k <=> x <= k - 1 \/ x = k
          BY <3>1, <1>5
        <4>b. ~ (k <= k - 1)
          BY <1>5
        <4>1. Below(k) = Below(k - 1) \cup {k} /\ k \notin Below(k - 1)
          BY <4>a, <4>b, <3>3
        <4>2. Cardinality(Below(k)) = Cardinality(Below(k - 1)) + 1
          BY <4>1, <1>2, <3>1, FS_AddElement
        <4>3. Cardinality(Below(k - 1)) \in Nat /\ Cardinality(Below(k)) >= i
          BY <3>1, <1>2, <1>5
        <4> HIDE DEF Below
        <4> QED BY <4>2, <4>3, <3>1, <3>3
      <3> QED BY <3>2, <3>3
    <2> QED BY <2>1, <2>2
  <1> QED BY <1>6 DEF Nth
-----------------------------------------------------------------------------
(* Messages *)

\* Every message a handler builds is a message.
LEMMA MessageTypes ==
    /\ \A e \in Nat : EpochWrap(e) \in Message
    /\ \A m \in Nat : JoinAccepted(m) \in Message
    /\ JoinRejected \in Message
    /\ Shutdown \in Message
    /\ \A code \in {"RoomLocked", "RoomClosed", "ProtocolViolation", "RateLimited"} :
          Error(code) \in Message
    /\ \A env \in Envelope : Relay(env) \in Message
    /\ RoomEvent \subseteq Message
PROOF
  <1>1. \A e \in Nat : EpochWrap(e) \in Message
    BY DEF Message, EpochWrap
  <1>2. \A m \in Nat : JoinAccepted(m) \in Message
    BY DEF Message, JoinAccepted
  <1>3. JoinRejected \in Message /\ Shutdown \in Message
    BY DEF Message, JoinRejected, Shutdown
  <1>4. \A code \in {"RoomLocked", "RoomClosed", "ProtocolViolation", "RateLimited"} :
           Error(code) \in Message
    BY DEF Message, Error
  <1>5. \A env \in Envelope : Relay(env) \in Message
    BY DEF Message, Relay
  <1>6. RoomEvent \subseteq Message
    BY DEF Message
  <1> QED BY <1>1, <1>2, <1>3, <1>4, <1>5, <1>6

\* The batches that handlers put together are typed.
LEMMA SendTypes ==
    /\ Silence \in [Conn -> Seq(Message)]
    /\ \A c \in Conn, msg \in Message : SendTo(c, msg) \in [Conn -> Seq(Message)]
    /\ \A C, msg : msg \in Message => SendAll(C, msg) \in [Conn -> Seq(Message)]
    /\ \A a, b \in [Conn -> Seq(Message)] : Then(a, b) \in [Conn -> Seq(Message)]
PROOF
  <1>1. Silence \in [Conn -> Seq(Message)]
    BY DEF Silence
  <1>2. \A c \in Conn, msg \in Message : SendTo(c, msg) \in [Conn -> Seq(Message)]
    BY <1>1 DEF SendTo
  <1>3. \A C, msg : msg \in Message => SendAll(C, msg) \in [Conn -> Seq(Message)]
    BY DEF SendAll
  <1>4. \A a, b \in [Conn -> Seq(Message)] : Then(a, b) \in [Conn -> Seq(Message)]
    BY DEF Then
  <1> QED BY <1>1, <1>2, <1>3, <1>4

\* queue_member_gone for a set of departed members yields signed events.
LEMMA GoneEventsType ==
    ASSUME NEW N \in Nat, NEW gone, \A x \in gone : x \in Nat /\ x <= N,
           NEW type \in {"MemberLeft", "MemberKicked"},
           NEW sequence \in Nat, NEW e \in Nat
    PROVE  /\ IsFiniteSet(gone) /\ Cardinality(gone) \in Nat
           /\ GoneEvents(gone, type, sequence, e) \in Seq(RoomEvent)
PROOF
  <1>1. IsFiniteSet(gone) /\ Cardinality(gone) \in Nat
    <2>1. gone \in SUBSET Nat
      OBVIOUS
    <2> QED BY <2>1, FS_BoundedSetOfNaturals, FS_CardinalityType
  <1>2. ASSUME NEW i \in 1..Cardinality(gone)
        PROVE  [type |-> type, sequence |-> sequence + i, epoch |-> e, id |-> Nth(gone, i)]
                  \in RoomEvent
    <2>1. i \in Nat /\ 1 <= i /\ i <= Cardinality(gone)
      BY <1>1
    <2>2. Nth(gone, i) \in Nat
      BY <2>1, NthInSet
    <2>3. sequence + i \in Nat
      BY <2>1
    <2> QED BY <2>2, <2>3 DEF RoomEvent
  <1>3. GoneEvents(gone, type, sequence, e) \in [1..Cardinality(gone) -> RoomEvent]
    BY <1>2 DEF GoneEvents
  <1> QED BY <1>1, <1>3

\* Every envelope a peer can send is typed, names a member, and carries a body
\* that is valid for its kind.
LEMMA EnvelopeTypes ==
    ASSUME TypeOK, epoch # 0, NEW c, NEW env \in Envelopes(c)
    PROVE  /\ env \in Envelope
           /\ env.sender \in DOMAIN members
           /\ env.kind = "Color" => env.body \in Color
           /\ env.body \in Nat
PROOF
  <1>1. PICK k \in Kinds : env \in [kind : {k}, sender : DOMAIN members,
                                    epoch : {epoch, epoch - 1} \ {0},
                                    sequence : 1..MaxSenderSequence,
                                    genuine : BOOLEAN, body : Bodies(k)]
    BY DEF Envelopes
  <1>2. k \in MemberKinds /\ Bodies(k) \subseteq Nat /\ (k = "Color" => Bodies(k) = Color)
    BY DataAssumption DEF Bodies, MemberKinds, NoTimeout
  <1>3. DOMAIN members \subseteq Nat /\ epoch \in Nat /\ epoch - 1 \in Nat
    BY DEF TypeOK, IsMap
  <1> QED BY <1>1, <1>2, <1>3, BoundsAssumption DEF Envelope

\* What the proofs need to know of an envelope.  Envelopes(c) bounds what TLC
\* enumerates; an envelope that was sealed some epochs ago, by somebody who has
\* left since, is one of these and not of those.
AnyEnvelope == {env \in Envelope : env.kind = "Color" => env.body \in Color}

AnyChat ==
    \E c \in Known \cup {HostConnection} :
        \/ ChatDuringTransition(c)
        \/ \E env \in AnyEnvelope :
              \/ ChatUnauthorised(c, env)
              \/ ChatRateLimited(c, env)
              \/ ChatAbusive(c, env)
              \/ ChatRefused(c, env)
              \/ ChatRelayed(c, env)
              \/ TimeoutRequested(c, env)

\* A step of the actor, whatever envelope it is handed.
RoomStep ==
    \/ AdmissionEvent
    \/ HostEvent
    \/ DepartureEvent
    \/ EpochEvent
    \/ AnyChat
    \/ \E c \in Known : RoomClosed(c)
    \/ EventAfterClose

\* A step of Next is one.
LEMMA NextIsRoomStep ==
    ASSUME TypeOK, epoch # 0, [Next]_vars
    PROVE  [RoomStep]_vars
PROOF
  <1>1. \A c : \A env \in Envelopes(c) : env \in AnyEnvelope
    BY EnvelopeTypes DEF AnyEnvelope
  <1>2. ChatEvent => AnyChat
    BY <1>1 DEF ChatEvent, AnyChat
  <1> QED BY <1>2 DEF Next, RoomStep

-----------------------------------------------------------------------------
(* The types *)

\* Ids are handed out once, in order (MemberTable::next_id), and epoch 1 is
\* the first: what the type invariant needs to be inductive.
IdsIssued ==
    /\ epoch # 0
    /\ \A m \in DOMAIN members : m < nextMemberId

-----------------------------------------------------------------------------
(* Type correctness *)

\* The host's connection, and every one the accept loop handed out.
LEMMA KnownConn ==
    ASSUME TypeOK
    PROVE  Known \subseteq Conn /\ HostConnection \in Conn
  BY BoundsAssumption DEF TypeOK, Known, Conn, HostConnection

\* The entries of the member table and of the request queue are typed.
LEMMA EntryTypes ==
    ASSUME TypeOK
    PROVE  /\ \A m \in DOMAIN members : /\ m \in Nat
                                       /\ members[m] \in MemberRecord
                                       /\ members[m].connection \in Conn
           /\ \A r \in DOMAIN requests :
                 /\ requests[r].connection \in Conn
                 /\ requests[r].application \in [nickname : Nickname, identity : Identity]
PROOF
  <1>1. \A m \in DOMAIN members : m \in Nat /\ members[m] \in MemberRecord
    BY DEF TypeOK, IsMap
  <1>2. \A r \in DOMAIN requests : requests[r] \in RequestRecord
    BY DEF TypeOK, IsMap
  <1> QED BY <1>1, <1>2 DEF MemberRecord, RequestRecord

\* The wraps of a transition are messages to connections.
LEMMA WrapsType ==
    ASSUME TypeOK
    PROVE  /\ \A ms : Wraps(ms) \in [Conn -> Seq(Message)]
           /\ \A gone : WrapsWithout(gone) \in [Conn -> Seq(Message)]
  BY MessageTypes, SendTypes DEF TypeOK, Wraps, WrapsWithout

\* What begin_epoch_transition leaves behind is typed.
LEMMA BeginType ==
    ASSUME TypeOK, NEW ms, DOMAIN ms \subseteq Nat, BeginEpochTransition(ms)
    PROVE  /\ state' = "EpochTransition"
           /\ epoch' = epoch + 1 /\ epoch' \in Nat /\ epoch' # 0
           /\ IsMap(chatReplay', Nat, Nat)
           /\ pendingEpoch' \in [epoch : Nat, awaiting : SUBSET Nat, age : Nat]
           /\ holders' \in Seq(SUBSET Nat)
  BY EmptyMap DEF TypeOK, BeginEpochTransition

\* What remove_member and the eviction leave behind is typed.
LEMMA RemoveMembersType ==
    ASSUME TypeOK, IdsIssued, NEW gone, gone \subseteq DOMAIN members, NEW lost,
           NEW type \in {"MemberLeft", "MemberKicked"},
           RemoveMembers(gone, lost, type)
    PROVE  /\ state' = "EpochTransition"
           /\ IsMap(members', Nat, MemberRecord)
           /\ DOMAIN members' = DOMAIN members \ gone
           /\ IsMap(connections', Conn, EntryRecord)
           /\ IsMap(rateLimits', Nat, BucketRecord)
           /\ epoch' \in Nat /\ epoch' # 0
           /\ IsMap(chatReplay', Nat, Nat)
           /\ pendingEpoch' \in [epoch : Nat, awaiting : SUBSET Nat, age : Nat]
           /\ holders' \in Seq(SUBSET Nat)
           /\ roomSequence' \in Nat
           /\ pendingMembership' \in [Conn -> Seq(RoomEvent)]
PROOF
  <1> DEFINE rest == Restrict(members, DOMAIN members \ gone)
             events == GoneEvents(gone, type, roomSequence + 1, epoch + 1)
  <1>1. IsMap(rest, Nat, MemberRecord) /\ DOMAIN rest = DOMAIN members \ gone
    <2>1. IsMap(members, Nat, MemberRecord) /\ DOMAIN members \ gone \subseteq DOMAIN members
      BY DEF TypeOK
    <2> QED BY <2>1, RestrictMap, Zenon
  <1>2. members' = rest /\ BeginEpochTransition(rest)
    BY DEF RemoveMembers
  <1>3. DOMAIN rest \subseteq Nat
    BY <1>1 DEF IsMap
  <1>4. IsMap(connections', Conn, EntryRecord)
    <2>1. connections' = Restrict(connections, DOMAIN connections \
                              (lost \cup {members[m].connection : m \in gone}))
      BY DEF RemoveMembers
    <2> QED BY <2>1, RestrictMap DEF TypeOK
  <1>5. IsMap(rateLimits', Nat, BucketRecord)
    <2>1. rateLimits' = Restrict(rateLimits, DOMAIN rateLimits \ gone)
      BY DEF RemoveMembers
    <2> QED BY <2>1, RestrictMap DEF TypeOK
  <1>6. events \in Seq(RoomEvent) /\ Cardinality(gone) \in Nat
    <2>1. \A x \in gone : x \in Nat /\ x <= nextMemberId
      BY DEF TypeOK, IdsIssued, IsMap
    <2>2. nextMemberId \in Nat /\ roomSequence + 1 \in Nat /\ epoch + 1 \in Nat
      BY DEF TypeOK
    <2> QED BY <2>1, <2>2, GoneEventsType
  <1>7. roomSequence' \in Nat
    BY <1>6 DEF RemoveMembers, TypeOK
  <1>8. pendingMembership' \in [Conn -> Seq(RoomEvent)]
    <2> HIDE DEF rest, events
    <2>1. pendingMembership' = [c \in Conn |->
             IF c \in ConnectionsOf(rest) THEN pendingMembership[c] \o events
             ELSE pendingMembership[c]]
      BY DEF RemoveMembers, rest, events
    <2> QED BY <2>1, <1>6 DEF TypeOK
  <1> HIDE DEF rest, events
  <1> QED BY <1>1, <1>2, <1>3, <1>4, <1>5, <1>7, <1>8, BeginType

\* on_connection_lost, on its own or after an error reply, keeps the types.
LEMMA LoseConnectionType ==
    ASSUME TypeOK, IdsIssued, NEW c, NEW first \in [Conn -> Seq(Message)],
           NEW close \in SUBSET Conn, LoseConnection(c, first, close)
    PROVE  TypeOK' /\ IdsIssued'
PROOF
  <1> DEFINE gone == MemberOf(c) \cap DOMAIN members
  <1>1. IsMap(timeoutRequests', Nat, TimeoutRecord)
    <2>1. timeoutRequests' = Restrict(timeoutRequests,
             {r \in DOMAIN timeoutRequests : timeoutRequests[r].connection # c})
      BY DEF LoseConnection
    <2> QED BY <2>1, RestrictMap DEF TypeOK
  <1>2. UNCHANGED <<policy, token, nextMemberId, nextRequestId, roomTimeout,
                    epochKey, nextConn, relayed>>
    BY DEF LoseConnection
  <1>3. CASE /\ RemoveMembers(gone, {c}, "MemberLeft")
             /\ Emit(Then(first, WrapsWithout(gone)), close, {})
             /\ UNCHANGED requests
    <2>1. gone \subseteq DOMAIN members
      OBVIOUS
    <2> HIDE DEF gone
    <2>2. outgoing'.send \in [Conn -> Seq(Message)] /\ outgoing'.close \subseteq Conn
      BY <1>3, WrapsType, SendTypes DEF Emit
    <2> QED BY <1>1, <1>2, <1>3, <2>1, <2>2, RemoveMembersType DEF TypeOK, IdsIssued
  <1>4. CASE /\ requests' = Restrict(requests, DOMAIN requests \ RegisteredRequest(c))
             /\ connections' = Restrict(connections, DOMAIN connections \ {c})
             /\ Emit(first, close, {})
             /\ UNCHANGED <<state, members, rateLimits, roomSequence,
                            pendingMembership, epochVars>>
    <2>1. IsMap(requests', Nat, RequestRecord) /\ IsMap(connections', Conn, EntryRecord)
      BY <1>4, RestrictMap DEF TypeOK
    <2>2. outgoing'.send \in [Conn -> Seq(Message)] /\ outgoing'.close \subseteq Conn
      BY <1>4 DEF Emit
    <2> QED BY <1>1, <1>2, <1>4, <2>1, <2>2 DEF TypeOK, IdsIssued, epochVars
  <1> QED BY <1>3, <1>4 DEF LoseConnection

\* The error path of run() keeps the types.
LEMMA PunishType ==
    ASSUME TypeOK, IdsIssued, NEW c \in Known,
           NEW code \in {"RoomLocked", "RoomClosed", "ProtocolViolation", "RateLimited"},
           Punish(c, code)
    PROVE  TypeOK' /\ IdsIssued'
PROOF
  <1>1. c \in Conn
    BY KnownConn
  <1>2. SendTo(c, Error(code)) \in [Conn -> Seq(Message)]
    BY <1>1, MessageTypes, SendTypes
  <1> QED BY <1>1, <1>2, LoseConnectionType DEF Punish

\* A handler that changes nothing, or only what it sends.
LEMMA FrameType ==
    ASSUME TypeOK, IdsIssued,
           NEW send \in [Conn -> Seq(Message)], NEW close \in SUBSET Conn,
           NEW notices, Emit(send, close, notices),
           UNCHANGED <<token, members, nextMemberId, nextRequestId,
                       epoch, holders, nextConn>>,
           state' \in {"Open", "Locked", "EpochTransition", "Destroyed"},
           policy' \in {"Open", "Locked"},
           IsMap(connections', Conn, EntryRecord),
           IsMap(requests', Nat, RequestRecord),
           IsMap(timeoutRequests', Nat, TimeoutRecord),
           roomTimeout' \in Nat,
           epochKey' \in Nat,
           pendingEpoch' \in [epoch : Nat, awaiting : SUBSET Nat, age : Nat],
           roomSequence' \in Nat,
           IsMap(chatReplay', Nat, Nat),
           IsMap(rateLimits', Nat, BucketRecord),
           pendingMembership' \in [Conn -> Seq(RoomEvent)],
           relayed' \subseteq Envelope
    PROVE  TypeOK' /\ IdsIssued'
PROOF
  <1>1. outgoing'.send \in [Conn -> Seq(Message)] /\ outgoing'.close \subseteq Conn
    BY DEF Emit
  <1> QED BY <1>1 DEF TypeOK, IdsIssued

\* An event without effect keeps the types.
LEMMA NoEffectType ==
    ASSUME TypeOK, IdsIssued, NoEffect
    PROVE  TypeOK' /\ IdsIssued'
  BY SendTypes, FrameType DEF NoEffect, TypeOK, queueVars, epochVars

\* Accept loop, password results and join forms keep the types.
LEMMA AdmissionType ==
    ASSUME TypeOK, IdsIssued, AdmissionEvent
    PROVE  TypeOK' /\ IdsIssued'
PROOF
  <1>1. CASE ClientConnected
    <2>1. nextConn \in Conn /\ nextConn' \in 1..(MaxConn + 1)
      BY <1>1, BoundsAssumption DEF ClientConnected, TypeOK, Conn
    <2>2. Entry(FALSE, "Admission", 0) \in EntryRecord
      BY DEF Entry, EntryRecord
    <2>3. IsMap(connections', Conn, EntryRecord)
      BY <1>1, <2>1, <2>2, ExtendMap DEF ClientConnected, TypeOK
    <2>4. outgoing'.send \in [Conn -> Seq(Message)] /\ outgoing'.close \subseteq Conn
      BY <1>1, SendTypes DEF ClientConnected, Emit
    <2> QED BY <1>1, <2>1, <2>3, <2>4 DEF ClientConnected, TypeOK, IdsIssued, queueVars, epochVars
  <1>2. ASSUME NEW c \in Known, PasswordVerified(c)
        PROVE  TypeOK' /\ IdsIssued'
    <2>1. connections' \in [DOMAIN connections -> EntryRecord]
      BY <1>2 DEF PasswordVerified, TypeOK, IsMap, EntryRecord
    <2>2. IsMap(connections', Conn, EntryRecord)
      BY <2>1, ReplaceMap DEF TypeOK
    <2> QED BY <1>2, <2>2, SendTypes, FrameType DEF PasswordVerified, TypeOK, queueVars, epochVars
  <1>3. ASSUME NEW c \in Known, PasswordIgnored(c)
        PROVE  TypeOK' /\ IdsIssued'
    BY <1>3, NoEffectType DEF PasswordIgnored
  <1>4. ASSUME NEW c \in Known, NEW app \in Applications, JoinRequested(c, app)
        PROVE  TypeOK' /\ IdsIssued'
    <2>1. [connection |-> c, application |-> app] \in RequestRecord
      BY KnownConn, DataAssumption DEF RequestRecord
    <2>2. IsMap(requests', Nat, RequestRecord)
      BY <1>4, <2>1, ExtendMap DEF JoinRequested, TypeOK
    <2>3. connections' \in [DOMAIN connections -> EntryRecord]
      BY <1>4 DEF JoinRequested, TypeOK, IsMap, EntryRecord, Entry
    <2>4. IsMap(connections', Conn, EntryRecord)
      BY <2>3, ReplaceMap DEF TypeOK
    <2>5. outgoing'.send \in [Conn -> Seq(Message)] /\ outgoing'.close \subseteq Conn
      BY <1>4, SendTypes DEF JoinRequested, Emit
    <2> QED BY <1>4, <2>2, <2>4, <2>5 DEF JoinRequested, TypeOK, IdsIssued, epochVars
  <1>5. ASSUME NEW c \in Known, JoinRefused(c)
        PROVE  TypeOK' /\ IdsIssued'
    <2>1. JoinRefusal(c) \in {"RoomLocked", "RoomClosed", "ProtocolViolation", "RateLimited"}
      BY <1>5 DEF JoinRefused, JoinRefusal
    <2> QED BY <1>5, <2>1, PunishType DEF JoinRefused
  <1> QED BY <1>1, <1>2, <1>3, <1>4, <1>5 DEF AdmissionEvent

\* Somebody is admitted (on_accept).
LEMMA AcceptJoinType ==
    ASSUME TypeOK, IdsIssued, NEW r \in DOMAIN requests, AcceptJoin(r)
    PROVE  TypeOK' /\ IdsIssued'
PROOF
  <1> DEFINE c   == requests[r].connection
             app == requests[r].application
             m   == nextMemberId
             rec == Member(c, app, epoch + 1)
             ms  == With(members, m, rec)
             joined   == [type |-> "MemberJoined", sequence |-> roomSequence + 2,
                          epoch |-> epoch + 1, member |-> ViewOf(m, rec)]
             snapshot == [type |-> "MemberSnapshot", sequence |-> roomSequence + 3,
                          epoch |-> epoch + 1,
                          members |-> {ViewOf(x, ms[x]) : x \in DOMAIN ms}]
  <1>1. c \in Conn /\ app \in [nickname : Nickname, identity : Identity]
    BY EntryTypes
  <1>2. rec \in MemberRecord /\ m \in Nat
    BY <1>1, DataAssumption DEF TypeOK, Member, MemberRecord
  <1> HIDE DEF c, app, rec
  <1>3. IsMap(ms, Nat, MemberRecord) /\ DOMAIN ms = DOMAIN members \cup {m}
    <2>1. IsMap(members, Nat, MemberRecord)
      BY DEF TypeOK
    <2>2. IsMap(With(members, m, rec), Nat, MemberRecord)
      BY <1>2, <2>1, ExtendMap
    <2>3. DOMAIN With(members, m, rec) = DOMAIN members \cup {m}
      BY DEF With
    <2> QED BY <2>2, <2>3
  <1>4. joined \in RoomEvent
    <2>1. ViewOf(m, rec) \in View
      BY <1>2 DEF ViewOf, View, MemberRecord
    <2> QED BY <2>1 DEF RoomEvent, TypeOK
  <1>5. snapshot \in RoomEvent
    <2>1. \A x \in DOMAIN ms : ViewOf(x, ms[x]) \in View
      <3> HIDE DEF ms
      <3> QED BY <1>3 DEF IsMap, ViewOf, View, MemberRecord
    <2> HIDE DEF ms
    <2> QED BY <2>1 DEF RoomEvent, TypeOK
  <1> HIDE DEF ms
  <1>6. /\ requests' = Restrict(requests, DOMAIN requests \ {r})
        /\ members' = ms
        /\ nextMemberId' = m + 1
        /\ connections' = With(connections, c,
              Entry(c \in DOMAIN connections /\ connections[c].verified, "Member", m))
        /\ BeginEpochTransition(ms)
        /\ roomSequence' = roomSequence + 1 + 2
        /\ pendingMembership' = [d \in Conn |->
              pendingMembership[d] \o
                 (IF d = c THEN <<snapshot>>
                  ELSE IF d \in ConnectionsOf(members) THEN <<joined>> ELSE <<>>)]
        /\ Emit(Then(SendTo(c, JoinAccepted(m)), Wraps(ms)), {}, {})
        /\ UNCHANGED <<policy, token, nextRequestId, timeoutRequests, roomTimeout,
                       epochKey, rateLimits, nextConn, relayed>>
    BY DEF AcceptJoin, c, app, rec, ms, TypeOK
  <1>7. IsMap(requests', Nat, RequestRecord)
    BY <1>6, RestrictMap DEF TypeOK
  <1>8. IsMap(connections', Conn, EntryRecord)
    <2>1. Entry(c \in DOMAIN connections /\ connections[c].verified, "Member", m) \in EntryRecord
      BY <1>2 DEF TypeOK, IsMap, Entry, EntryRecord
    <2> QED BY <1>1, <1>6, <2>1, ExtendMap DEF TypeOK
  <1>9. pendingMembership' \in [Conn -> Seq(RoomEvent)]
    <2> HIDE DEF joined, snapshot
    <2> QED BY <1>4, <1>5, <1>6 DEF TypeOK
  <1>10. outgoing'.send \in [Conn -> Seq(Message)] /\ outgoing'.close \subseteq Conn
    BY <1>1, <1>2, <1>6, MessageTypes, SendTypes, WrapsType DEF Emit
  <1>11. DOMAIN ms \subseteq Nat /\ \A x \in DOMAIN ms : x < m + 1
    BY <1>3 DEF IsMap, TypeOK, IdsIssued
  <1>12. /\ state' = "EpochTransition"
         /\ epoch' \in Nat /\ epoch' # 0
         /\ IsMap(chatReplay', Nat, Nat)
         /\ pendingEpoch' \in [epoch : Nat, awaiting : SUBSET Nat, age : Nat]
         /\ holders' \in Seq(SUBSET Nat)
    BY <1>6, <1>11, BeginType
  <1>13. IsMap(members', Nat, MemberRecord) /\ nextMemberId' \in Nat /\ roomSequence' \in Nat
    BY <1>3, <1>6 DEF TypeOK
  <1>14. IdsIssued'
    BY <1>6, <1>11, <1>12 DEF IdsIssued
  <1> QED BY <1>6, <1>7, <1>8, <1>9, <1>10, <1>12, <1>13, <1>14 DEF TypeOK

\* Somebody is turned away.
LEMMA TurnAwayType ==
    ASSUME TypeOK, IdsIssued, NEW r \in DOMAIN requests, TurnAway(r)
    PROVE  TypeOK' /\ IdsIssued'
PROOF
  <1>1. requests[r].connection \in Conn
    BY EntryTypes
  <1>2. SendTo(requests[r].connection, JoinRejected) \in [Conn -> Seq(Message)]
    BY <1>1, MessageTypes, SendTypes
  <1>3. IsMap(requests', Nat, RequestRecord) /\ IsMap(connections', Conn, EntryRecord)
    BY RestrictMap DEF TurnAway, TypeOK
  <1> QED BY <1>1, <1>2, <1>3, FrameType DEF TurnAway, TypeOK, epochVars

\* Non-members are dropped by /newid and /reqoff.
LEMMA DropNonMembersType ==
    ASSUME TypeOK
    PROVE  /\ NonMembers \subseteq Conn
           /\ DropNonMembers => /\ IsMap(requests', Nat, RequestRecord)
                                /\ IsMap(connections', Conn, EntryRecord)
PROOF
  <1>1. \A r \in DOMAIN requests : requests[r].connection \in Conn
    BY EntryTypes
  <1>2. NonMembers \subseteq Conn
    BY <1>1 DEF NonMembers, TypeOK, IsMap
  <1> QED BY <1>2, EmptyMap, RestrictMap DEF DropNonMembers, TypeOK

\* The host's commands keep the types.
LEMMA HostType ==
    ASSUME TypeOK, IdsIssued, HostEvent
    PROVE  TypeOK' /\ IdsIssued'
PROOF
  <1>1. ASSUME NEW r \in DOMAIN requests, AcceptRefused(r) \/ RejectJoin(r)
        PROVE  TypeOK' /\ IdsIssued'
    BY <1>1, TurnAwayType DEF AcceptRefused, RejectJoin
  <1>2. ASSUME NEW r \in DOMAIN timeoutRequests, NEW accepted \in BOOLEAN,
               DecideTimeoutRequest(r, accepted)
        PROVE  TypeOK' /\ IdsIssued'
    <2>1. IsMap(timeoutRequests', Nat, TimeoutRecord)
      BY <1>2, RestrictMap DEF DecideTimeoutRequest, TypeOK
    <2>2. outgoing'.send \in [Conn -> Seq(Message)] /\ outgoing'.close \subseteq Conn
      BY <1>2, SendTypes DEF DecideTimeoutRequest, Emit
    <2> QED BY <1>2, <2>1, <2>2 DEF DecideTimeoutRequest, TypeOK, IdsIssued, queueVars, epochVars
  <1>3. ASSUME NEW m \in DOMAIN members, Kick(m)
        PROVE  TypeOK' /\ IdsIssued'
    <2>1. members[m].connection \in Conn
      BY EntryTypes
    <2>2. outgoing'.send \in [Conn -> Seq(Message)] /\ outgoing'.close \subseteq Conn
      BY <1>3, <2>1, WrapsType DEF Kick, Emit
    <2>3. RemoveMembers({m}, {}, "MemberKicked") /\ {m} \subseteq DOMAIN members
      BY <1>3 DEF Kick
    <2> QED BY <1>3, <2>2, <2>3, RemoveMembersType DEF Kick, TypeOK, IdsIssued, queueVars
  <1>4. CASE NewId
    <2>1. token' \in Nat /\ roomSequence' \in Nat
      BY <1>4 DEF NewId, TypeOK
    <2>2. outgoing'.send \in [Conn -> Seq(Message)] /\ outgoing'.close \subseteq Conn
      BY <1>4, SendTypes, DropNonMembersType DEF NewId, Emit
    <2> QED BY <1>4, <2>1, <2>2, DropNonMembersType
            DEF NewId, TypeOK, IdsIssued, epochVars
  <1>5. ASSUME NEW p \in {"Open", "Locked"}, SetPolicy(p)
        PROVE  TypeOK' /\ IdsIssued'
    <2> DEFINE event == [type |-> "JoinPolicyChanged", sequence |-> roomSequence + 1,
                         epoch |-> epoch, open |-> p = "Open"]
    <2>1. event \in Message
      <3>1. event \in RoomEvent
        BY DEF RoomEvent, TypeOK
      <3> QED BY <3>1, MessageTypes
    <2>2. outgoing'.send \in [Conn -> Seq(Message)] /\ outgoing'.close \subseteq Conn
      <3> HIDE DEF event
      <3>1. Emit(SendAll(ConnectionsOf(members) \ {HostConnection}, event),
                 IF p = "Locked" THEN NonMembers ELSE {},
                 {[type |-> "JoinPolicyChanged", policy |-> p]})
        BY <1>5 DEF SetPolicy, event
      <3> QED BY <3>1, <2>1, SendTypes, DropNonMembersType DEF Emit
    <2>3. IsMap(requests', Nat, RequestRecord) /\ IsMap(connections', Conn, EntryRecord)
      BY <1>5, DropNonMembersType DEF SetPolicy, TypeOK
    <2> QED BY <1>5, <2>2, <2>3 DEF SetPolicy, TypeOK, IdsIssued, epochVars
  <1>6. CASE CloseRequested
    <2>1. outgoing'.send \in [Conn -> Seq(Message)] /\ outgoing'.close \subseteq Conn
      BY <1>6, MessageTypes, SendTypes DEF CloseRequested, CloseRoom, Emit, TypeOK, IsMap
    <2> QED BY <1>6, <2>1 DEF CloseRequested, CloseRoom, TypeOK, IdsIssued
  <1> QED BY <1>1, <1>2, <1>3, <1>4, <1>5, <1>6, AcceptJoinType DEF HostEvent

\* Members leaving, and member commands, keep the types.
LEMMA DepartureType ==
    ASSUME TypeOK, IdsIssued, DepartureEvent
    PROVE  TypeOK' /\ IdsIssued'
PROOF
  <1>1. ASSUME NEW c \in Known, ConnectionLost(c)
        PROVE  TypeOK' /\ IdsIssued'
    BY <1>1, SendTypes, LoseConnectionType DEF ConnectionLost
  <1>2. ASSUME NEW c \in Known, Leave(c)
        PROVE  TypeOK' /\ IdsIssued'
    <2>1. outgoing'.send \in [Conn -> Seq(Message)] /\ outgoing'.close \subseteq Conn
      <3>1. c \in Conn
        BY KnownConn
      <3>2. /\ WrapsWithout(RegisteredMember(c)) \in [Conn -> Seq(Message)]
            /\ SendTo(c, Shutdown) \in [Conn -> Seq(Message)]
        BY <3>1, WrapsType, MessageTypes, SendTypes
      <3> QED BY <1>2, <3>1, <3>2, SendTypes DEF Leave, Emit
    <2>2. /\ RemoveMembers(RegisteredMember(c), {}, "MemberLeft")
          /\ RegisteredMember(c) \subseteq DOMAIN members
      BY <1>2 DEF Leave
    <2> QED BY <1>2, <2>1, <2>2, RemoveMembersType DEF Leave, TypeOK, IdsIssued, queueVars
  <1>3. ASSUME NEW c \in Known, MemberCommandRefused(c)
        PROVE  TypeOK' /\ IdsIssued'
    BY <1>3, PunishType DEF MemberCommandRefused
  <1>4. ASSUME NEW c \in Known \cup {HostConnection}, NEW color \in Color,
               ColorCommand(c, color)
        PROVE  TypeOK' /\ IdsIssued'
    <2>1. members' \in [DOMAIN members -> MemberRecord]
      BY <1>4, EntryTypes DEF ColorCommand, MemberRecord
    <2>2. IsMap(members', Nat, MemberRecord) /\ DOMAIN members' = DOMAIN members
      BY <2>1, ReplaceMap DEF TypeOK
    <2>3. outgoing'.send \in [Conn -> Seq(Message)] /\ outgoing'.close \subseteq Conn
      BY <1>4, SendTypes DEF ColorCommand, Emit
    <2> QED BY <1>4, <2>2, <2>3 DEF ColorCommand, TypeOK, IdsIssued, queueVars, epochVars
  <1>5. ASSUME NEW m \in DOMAIN members, MemberLeft(m)
        PROVE  TypeOK' /\ IdsIssued'
    <2>1. outgoing'.send \in [Conn -> Seq(Message)] /\ outgoing'.close \subseteq Conn
      BY <1>5, WrapsType DEF MemberLeft, Emit
    <2>2. RemoveMembers({m}, {}, "MemberLeft") /\ {m} \subseteq DOMAIN members
      BY <1>5 DEF MemberLeft
    <2> QED BY <1>5, <2>1, <2>2, RemoveMembersType DEF MemberLeft, TypeOK, IdsIssued, queueVars
  <1> QED BY <1>1, <1>2, <1>3, <1>4, <1>5 DEF DepartureEvent

\* Acknowledgements, the deadline and the clock keep the types.
LEMMA EpochType ==
    ASSUME TypeOK, IdsIssued, EpochEvent
    PROVE  TypeOK' /\ IdsIssued'
PROOF
  <1>1. ASSUME NEW c \in Known \cup {HostConnection}, NEW e \in 1..epoch, EpochAck(c, e)
        PROVE  TypeOK' /\ IdsIssued'
    <2> DEFINE left == pendingEpoch.awaiting \ RegisteredMember(c)
    <2>1. pendingMembership \in [Conn -> Seq(Message)]
      BY MessageTypes DEF TypeOK
    <2>2. CASE /\ pendingEpoch' = [pendingEpoch EXCEPT !.awaiting = left]
               /\ Emit(Silence, {}, {})
               /\ UNCHANGED <<state, epochKey, pendingMembership>>
      <3>1. pendingEpoch' \in [epoch : Nat, awaiting : SUBSET Nat, age : Nat]
        BY <2>2 DEF TypeOK
      <3> QED BY <1>1, <2>2, <3>1, SendTypes, FrameType DEF EpochAck, TypeOK, queueVars
    <2>3. CASE /\ pendingEpoch' = NoPending
               /\ epochKey' = pendingEpoch.epoch
               /\ state' = RestState
               /\ pendingMembership' = Silence
               /\ Emit(pendingMembership, {}, Rebroadcast)
      <3>1. /\ pendingEpoch' \in [epoch : Nat, awaiting : SUBSET Nat, age : Nat]
            /\ epochKey' \in Nat
            /\ state' \in {"Open", "Locked", "EpochTransition", "Destroyed"}
            /\ pendingMembership' \in [Conn -> Seq(RoomEvent)]
        BY <2>3 DEF TypeOK, NoPending, RestState, Silence
      <3> QED BY <1>1, <2>1, <2>3, <3>1, FrameType DEF EpochAck, TypeOK, queueVars
    <2> QED BY <1>1, <2>2, <2>3 DEF EpochAck
  <1>2. ASSUME NEW c \in Known \cup {HostConnection}, NEW e \in 1..epoch,
               EpochAckIgnored(c, e)
        PROVE  TypeOK' /\ IdsIssued'
    BY <1>2, NoEffectType DEF EpochAckIgnored
  <1>3. CASE DroppedInTransition
    BY <1>3, NoEffectType DEF DroppedInTransition
  <1>4. CASE EpochTimeout
    <2> DEFINE late == pendingEpoch.awaiting
    <2>1. CASE pendingEpoch' = NoPending /\ CloseRoom
      <3>1. outgoing'.send \in [Conn -> Seq(Message)] /\ outgoing'.close \subseteq Conn
        BY <2>1, MessageTypes, SendTypes DEF CloseRoom, Emit, TypeOK, IsMap
      <3>2. pendingEpoch' \in [epoch : Nat, awaiting : SUBSET Nat, age : Nat]
        BY <2>1 DEF NoPending
      <3> QED BY <2>1, <3>1, <3>2 DEF CloseRoom, TypeOK, IdsIssued
    <2>2. CASE /\ RemoveMembers(late \cap DOMAIN members, {}, "MemberLeft")
               /\ Emit(WrapsWithout(late),
                       {members[m].connection : m \in late \cap DOMAIN members}, {})
               /\ UNCHANGED <<policy, token, nextMemberId, queueVars, timeoutRequests,
                              roomTimeout, epochKey, nextConn, relayed>>
      <3>1. late \cap DOMAIN members \subseteq DOMAIN members
        OBVIOUS
      <3> HIDE DEF late
      <3>2. outgoing'.send \in [Conn -> Seq(Message)] /\ outgoing'.close \subseteq Conn
        BY <2>2, WrapsType, EntryTypes DEF Emit
      <3> QED BY <2>2, <3>1, <3>2, RemoveMembersType DEF TypeOK, IdsIssued, queueVars
    <2> QED BY <1>4, <2>1, <2>2 DEF EpochTimeout
  <1>5. CASE Tick
    <2>1. pendingEpoch' \in [epoch : Nat, awaiting : SUBSET Nat, age : Nat]
      <3>1. pendingEpoch \in [epoch : Nat, awaiting : SUBSET Nat, age : Nat]
        BY DEF TypeOK
      <3>2. \/ pendingEpoch' = pendingEpoch
            \/ pendingEpoch' = [pendingEpoch EXCEPT !.age = @ + 1]
        BY <1>5 DEF Tick
      <3> QED BY <3>1, <3>2
    <2>2. rateLimits' \in [DOMAIN rateLimits -> BucketRecord]
      <3>1. \A m \in DOMAIN rateLimits : rateLimits[m] \in BucketRecord
        BY DEF TypeOK, IsMap
      <3>2. \A b \in BucketRecord :
               [b EXCEPT !.tokens = IF @ < Burst THEN @ + 1 ELSE @] \in BucketRecord
        BY BoundsAssumption DEF BucketRecord
      <3>3. rateLimits' = [m \in DOMAIN rateLimits |->
               [rateLimits[m] EXCEPT !.tokens = IF @ < Burst THEN @ + 1 ELSE @]]
        BY <1>5 DEF Tick
      <3> QED BY <3>1, <3>2, <3>3
    <2>3. IsMap(rateLimits', Nat, BucketRecord)
      BY <2>2, ReplaceMap DEF TypeOK
    <2> QED BY <1>5, <2>1, <2>3, SendTypes, FrameType DEF Tick, TypeOK, queueVars
  <1> QED BY <1>1, <1>2, <1>3, <1>4, <1>5 DEF EpochEvent

\* The limiter's buckets stay within their bounds (RateLimiter::allow).
LEMMA BucketTypes ==
    ASSUME TypeOK, NEW env \in Envelope
    PROVE  /\ IsMap(With(rateLimits, env.sender, Violated(env.sender)), Nat, BucketRecord)
           /\ ~ OverLimit(env) => IsMap(Spent(env), Nat, BucketRecord)
PROOF
  <1>1. env.sender \in Nat
    BY DEF Envelope
  <1>2. Bucket(env.sender) \in BucketRecord
    <2>1. \A m \in DOMAIN rateLimits : rateLimits[m] \in BucketRecord
      BY DEF TypeOK, IsMap
    <2>2. FullBucket \in BucketRecord
      BY BoundsAssumption DEF FullBucket, BucketRecord
    <2> QED BY <2>1, <2>2 DEF Bucket
  <1>3. Violated(env.sender) \in BucketRecord
    BY <1>2, BoundsAssumption DEF Violated, BucketRecord
  <1>4. ASSUME ~ OverLimit(env), env.kind \in LimitedKinds
        PROVE  [tokens |-> Bucket(env.sender).tokens - 1, violations |-> 0] \in BucketRecord
    BY <1>2, <1>4, BoundsAssumption DEF OverLimit, BucketRecord
  <1>5. IsMap(rateLimits, Nat, BucketRecord)
    BY DEF TypeOK
  <1> QED BY <1>1, <1>3, <1>4, <1>5, ExtendMap DEF Spent

\* The chat relay keeps the types.
LEMMA ChatType ==
    ASSUME TypeOK, IdsIssued, AnyChat
    PROVE  TypeOK' /\ IdsIssued'
PROOF
  <1>1. PICK c \in Known \cup {HostConnection} :
           \/ ChatDuringTransition(c)
           \/ \E env \in AnyEnvelope :
                 \/ ChatUnauthorised(c, env)
                 \/ ChatRateLimited(c, env)
                 \/ ChatAbusive(c, env)
                 \/ ChatRefused(c, env)
                 \/ ChatRelayed(c, env)
                 \/ TimeoutRequested(c, env)
    BY DEF AnyChat
  <1>2. c \in Conn /\ (c # HostConnection => c \in Known)
    BY KnownConn
  <1>3. /\ SendTo(c, Error("RateLimited")) \in [Conn -> Seq(Message)]
        /\ Silence \in [Conn -> Seq(Message)]
    BY <1>2, MessageTypes, SendTypes
  <1>4. CASE ChatDuringTransition(c)
    BY <1>4, <1>3, FrameType DEF ChatDuringTransition, TypeOK, queueVars, epochVars
  <1>5. ASSUME NEW env \in AnyEnvelope
        PROVE  /\ env \in Envelope
               /\ env.kind = "Color" => env.body \in Color
               /\ env.body \in Nat
               /\ Sender(c, env) => env.sender \in DOMAIN members
    BY DEF AnyEnvelope, Envelope, Sender
  <1>6. ASSUME NEW env \in AnyEnvelope, ChatUnauthorised(c, env)
        PROVE  TypeOK' /\ IdsIssued'
    BY <1>2, <1>6, PunishType DEF ChatUnauthorised
  <1>7. ASSUME NEW env \in AnyEnvelope, ChatRateLimited(c, env)
        PROVE  TypeOK' /\ IdsIssued'
    <2>1. IsMap(rateLimits', Nat, BucketRecord)
      BY <1>5, <1>7, BucketTypes DEF ChatRateLimited
    <2> QED BY <1>7, <1>3, <2>1, FrameType DEF ChatRateLimited, TypeOK, queueVars, epochVars
  <1>8. ASSUME NEW env \in AnyEnvelope, ChatAbusive(c, env)
        PROVE  TypeOK' /\ IdsIssued'
    <2>1. RemoveMembers({env.sender}, {}, "MemberKicked") /\ {env.sender} \subseteq DOMAIN members
      BY <1>5, <1>8 DEF ChatAbusive
    <2>2. outgoing'.send \in [Conn -> Seq(Message)] /\ outgoing'.close \subseteq Conn
      BY <1>2, <1>3, <1>8, WrapsType, SendTypes DEF ChatAbusive, Emit
    <2> QED BY <1>8, <2>1, <2>2, RemoveMembersType DEF ChatAbusive, TypeOK, IdsIssued, queueVars
  <1>9. ASSUME NEW env \in AnyEnvelope, ChatRefused(c, env)
        PROVE  TypeOK' /\ IdsIssued'
    <2>1. CASE c # HostConnection /\ Punish(c, "ProtocolViolation")
      BY <1>2, <2>1, PunishType
    <2>2. CASE c = HostConnection
      <3>1. IsMap(rateLimits', Nat, BucketRecord)
        BY <1>5, <1>9, <2>2, BucketTypes DEF ChatRefused
      <3> QED BY <1>9, <2>2, <1>3, <3>1, FrameType DEF ChatRefused, TypeOK, queueVars, epochVars
    <2> QED BY <1>9, <2>1, <2>2 DEF ChatRefused
  <1>10. ASSUME NEW env \in AnyEnvelope, ChatRelayed(c, env)
         PROVE  TypeOK' /\ IdsIssued'
    <2>1. IsMap(rateLimits', Nat, BucketRecord)
      BY <1>5, <1>10, BucketTypes DEF ChatRelayed
    <2>2. IsMap(chatReplay', Nat, Nat)
      <3>1. env.sender \in Nat /\ env.sequence \in Nat
        BY <1>5 DEF Envelope
      <3> QED BY <3>1, <1>10, ExtendMap DEF ChatRelayed, RecordSequence, TypeOK
    <2>3. members' \in [DOMAIN members -> MemberRecord]
      <3>1. members \in [DOMAIN members -> MemberRecord]
        BY DEF TypeOK, IsMap
      <3>2. CASE env.kind = "Color"
        <4>1. members' = [members EXCEPT ![env.sender].color = env.body]
          BY <1>10, <3>2 DEF ChatRelayed
        <4> QED BY <1>5, <3>1, <3>2, <4>1 DEF MemberRecord
      <3>3. CASE env.kind # "Color"
        BY <1>10, <3>1, <3>3 DEF ChatRelayed
      <3> QED BY <3>2, <3>3
    <2>4. IsMap(members', Nat, MemberRecord) /\ DOMAIN members' = DOMAIN members
      BY <2>3, ReplaceMap DEF TypeOK
    <2>5. roomTimeout' \in Nat /\ relayed' \subseteq Envelope
      BY <1>5, <1>10 DEF ChatRelayed, TypeOK
    <2>6. outgoing'.send \in [Conn -> Seq(Message)] /\ outgoing'.close \subseteq Conn
      BY <1>5, <1>10, MessageTypes, SendTypes DEF ChatRelayed, Emit
    <2> QED BY <1>10, <2>1, <2>2, <2>4, <2>5, <2>6
            DEF ChatRelayed, TypeOK, IdsIssued, queueVars
  <1>11. ASSUME NEW env \in AnyEnvelope, TimeoutRequested(c, env)
         PROVE  TypeOK' /\ IdsIssued'
    <2>1. IsMap(rateLimits', Nat, BucketRecord)
      BY <1>5, <1>11, BucketTypes DEF TimeoutRequested
    <2>2. env.sender \in Nat /\ env.sequence \in Nat
      BY <1>5 DEF Envelope
    <2>3. IsMap(chatReplay', Nat, Nat)
      BY <2>2, <1>11, ExtendMap DEF TimeoutRequested, RecordSequence, TypeOK
    <2>4. [connection |-> c, member |-> env.sender, seconds |-> env.body] \in TimeoutRecord
      BY <1>2, <1>5, <2>2 DEF TimeoutRecord
    <2>5. IsMap(timeoutRequests', Nat, TimeoutRecord)
      BY <2>4, <1>11, ExtendMap DEF TimeoutRequested, TypeOK
    <2>6. outgoing'.send \in [Conn -> Seq(Message)] /\ outgoing'.close \subseteq Conn
      BY <1>11, SendTypes DEF TimeoutRequested, Emit
    <2> QED BY <1>11, <2>1, <2>3, <2>5, <2>6 DEF TimeoutRequested, TypeOK, IdsIssued
  <1> QED BY <1>1, <1>4, <1>6, <1>7, <1>8, <1>9, <1>10, <1>11

\* Every step keeps the types, and ids below their counters.
LEMMA TypeStep ==
    ASSUME TypeOK, IdsIssued, [RoomStep]_vars
    PROVE  TypeOK' /\ IdsIssued'
PROOF
  <1>1. ASSUME NEW c \in Known, RoomClosed(c)
        PROVE  TypeOK' /\ IdsIssued'
    <2>1. c \in Conn
      BY KnownConn
    <2>2. SendTo(c, Error("RoomClosed")) \in [Conn -> Seq(Message)]
      BY <2>1, MessageTypes, SendTypes
    <2> QED BY <1>1, <2>1, <2>2, FrameType DEF RoomClosed, TypeOK, queueVars, epochVars
  <1>2. CASE EventAfterClose
    BY <1>2, NoEffectType DEF EventAfterClose
  <1>3. CASE UNCHANGED vars
    BY <1>3 DEF vars, TypeOK, IdsIssued
  <1> QED BY <1>1, <1>2, <1>3, AdmissionType, HostType, DepartureType, EpochType, ChatType
          DEF RoomStep

\* The room as create() and start() leave it is typed.
LEMMA TypeInit ==
    ASSUME Init
    PROVE  TypeOK /\ IdsIssued
PROOF
  <1> DEFINE host == Member(HostConnection, [nickname |-> HostNickname, identity |-> HostIdentity], 1)
             entry == Entry(FALSE, "Member", HostId)
  <1>1. host \in MemberRecord /\ entry \in EntryRecord
    BY BoundsAssumption, DataAssumption
    DEF Member, MemberRecord, Entry, EntryRecord, HostConnection, HostId, Conn
  <1> HIDE DEF host, entry
  <1>2. IsMap(members, Nat, MemberRecord) /\ DOMAIN members = {HostId}
    <2>1. members = With(Empty, HostId, host)
      BY DEF Init, host
    <2>2. IsMap(Empty, Nat, MemberRecord) /\ DOMAIN Empty = {} /\ HostId \in Nat
      BY EmptyMap DEF HostId
    <2>3. IsMap(With(Empty, HostId, host), Nat, MemberRecord)
      BY <1>1, <2>2, ExtendMap
    <2>4. DOMAIN With(Empty, HostId, host) = {HostId}
      BY <2>2 DEF With
    <2> QED BY <2>1, <2>3, <2>4
  <1>3. IsMap(connections, Conn, EntryRecord)
    <2>1. connections = With(Empty, HostConnection, entry)
      BY DEF Init, entry
    <2>2. HostConnection \in Conn
      BY BoundsAssumption DEF HostConnection, Conn
    <2> QED BY <2>1, <2>2, <1>1, EmptyMap, ExtendMap
  <1>4. /\ IsMap(requests, Nat, RequestRecord)
        /\ IsMap(timeoutRequests, Nat, TimeoutRecord)
        /\ IsMap(chatReplay, Nat, Nat)
        /\ IsMap(rateLimits, Nat, BucketRecord)
    BY EmptyMap DEF Init
  <1>5. /\ pendingEpoch \in [epoch : Nat, awaiting : SUBSET Nat, age : Nat]
        /\ holders \in Seq(SUBSET Nat)
        /\ pendingMembership \in [Conn -> Seq(RoomEvent)]
    BY DEF Init, HostId, Silence
  <1>6. outgoing.send \in [Conn -> Seq(Message)] /\ outgoing.close \subseteq Conn
    <2>1. SendTo(HostConnection, EpochWrap(1)) \in [Conn -> Seq(Message)]
      BY MessageTypes, SendTypes, BoundsAssumption DEF HostConnection, Conn
    <2> QED BY <2>1 DEF Init
  <1>7. /\ state \in {"Open", "Locked", "EpochTransition", "Destroyed"}
        /\ policy \in {"Open", "Locked"}
        /\ token \in Nat /\ nextMemberId \in Nat /\ nextRequestId \in Nat
        /\ roomTimeout \in Nat /\ epoch \in Nat /\ epochKey \in Nat /\ roomSequence \in Nat
        /\ nextConn \in 1..(MaxConn + 1)
        /\ relayed \subseteq Envelope
    BY BoundsAssumption DEF Init, NoTimeout, NoKey
  <1>8. IdsIssued
    BY <1>2 DEF IdsIssued, Init, HostId
  <1> QED BY <1>2, <1>3, <1>4, <1>5, <1>6, <1>7, <1>8 DEF TypeOK

\* Every field of the actor keeps its Rust type, whatever events arrive in
\* whatever order: handle_event_at never leaves an ill-typed table, queue,
\* bucket, pending epoch or outgoing message behind.
THEOREM TypeCorrect == Spec => []TypeOK
PROOF
  <1>1. Init => TypeOK /\ IdsIssued
    BY TypeInit
  <1>2. (TypeOK /\ IdsIssued) /\ [Next]_vars => (TypeOK /\ IdsIssued)'
    BY TypeStep, NextIsRoomStep DEF IdsIssued
  <1> QED BY <1>1, <1>2, PTL DEF Spec
=============================================================================
