------------------------ MODULE RoomRefinementProofs ------------------------
(***************************************************************************)
(* RoomActor implements GroupKey and RoomGate, step by step.               *)
(***************************************************************************)
EXTENDS RoomRefinement, RoomKeyProofs

\* start() gives the first key to the owner, who has not confirmed it.
LEMMA RefineInit ==
    ASSUME Init
    PROVE  GK!GKInit
PROOF
  <1>1. /\ DOMAIN members = {HostId}
        /\ state = "EpochTransition" /\ epoch = 1 /\ holders = <<{HostId}>>
        /\ pendingEpoch = [epoch |-> 1, awaiting |-> {HostId}, age |-> 0]
        /\ epochKey = NoKey
    BY DEF Init, With, Empty
  <1>2. Confirmed = {}
    BY <1>1 DEF Confirmed, NoPending, Running
  <1> QED BY <1>1, <1>2 DEF GK!GKInit, NoKey, Running

\* begin_epoch_transition is a Rekey: nobody who left comes back, because a
\* new member's id was never given a key.
LEMMA RefineRekey ==
    ASSUME KeyInv, KeyInv', Rekeyed
    PROVE  GK!Rekey
PROOF
  <1>1. /\ Running /\ epochKey' = epochKey
        /\ epoch' = epoch + 1
        /\ state' = "EpochTransition"
        /\ pendingEpoch' = [epoch |-> epoch + 1, awaiting |-> DOMAIN members', age |-> 0]
        /\ holders' = Append(holders, DOMAIN members')
        /\ DOMAIN members' \subseteq DOMAIN members \cup {nextMemberId}
    BY DEF Rekeyed, BeginEpochTransition
  <1>2. HostId \in DOMAIN members'
    BY DEF KeyInv, TablesInv, TableFacts, HostPresent
  <1>3. \A e \in 1..epoch : nextMemberId \notin holders[e]
    <2>1. \A e \in 1..epoch : \A m \in holders[e] : m < nextMemberId
      BY DEF KeyInv, KeyFacts, HoldersIssued
    <2> QED BY <2>1, KeyTypes
  <1>4. DOMAIN members' \cap GK!Left = {}
    <2>1. \A m \in GK!Left : m \notin DOMAIN members /\ \E e \in 1..epoch : m \in holders[e]
      BY DEF GK!Left
    <2> QED BY <1>1, <1>3, <2>1
  <1>5. Running' /\ pendingEpoch' # NoPending
    BY <1>1, KeyTypes DEF Running, NoPending
  <1>6. Confirmed' = {}
    BY <1>1, <1>5 DEF Confirmed
  <1> QED BY <1>1, <1>2, <1>4, <1>5, <1>6 DEF GK!Rekey

\* An acknowledgement that counts is a Confirm, and the last one activates.
LEMMA RefineAck ==
    ASSUME KeyInv, Acknowledged
    PROVE  \E p \in DOMAIN members : GK!Confirm(p)
PROOF
  <1>1. PICK c, e : EpochAck(c, e)
    BY DEF Acknowledged
  <1> DEFINE awaiting == pendingEpoch.awaiting
             left == awaiting \ RegisteredMember(c)
  <1>2. /\ InTransition /\ Counts(c, e)
        /\ UNCHANGED <<members, epoch, holders>>
    BY <1>1 DEF EpochAck
  <1>3. PICK p : RegisteredMember(c) = {p}
    BY <1>2 DEF Counts, RegisteredMember
  <1>4. p \in awaiting /\ pendingEpoch # NoPending
    BY <1>2, <1>3 DEF Counts
  <1>5. pendingEpoch.epoch = epoch /\ awaiting \subseteq DOMAIN members
    BY <1>2 DEF KeyInv, KeyFacts, TransitionShape
  <1>6. Running /\ Confirmed = DOMAIN members \ awaiting
    BY <1>2, <1>4 DEF Confirmed, Running, InTransition
  <1>7. CASE /\ left # {}
             /\ pendingEpoch' = [pendingEpoch EXCEPT !.awaiting = left]
             /\ UNCHANGED <<state, epochKey>>
    <2>1. pendingEpoch'.awaiting = left /\ pendingEpoch' # NoPending
      BY <1>7, KeyTypes DEF NoPending
    <2>2. Running' /\ Confirmed' = DOMAIN members \ left
      BY <1>2, <1>6, <1>7, <2>1 DEF Confirmed, Running
    <2>3. Confirmed' = Confirmed \cup {p} /\ Confirmed' # DOMAIN members
      BY <1>3, <1>4, <1>5, <1>6, <1>7, <2>2
    <2> HIDE DEF awaiting, left
    <2> QED BY <1>2, <1>4, <1>5, <1>6, <1>7, <2>2, <2>3 DEF GK!Confirm
  <1>8. CASE /\ left = {}
             /\ pendingEpoch' = NoPending
             /\ epochKey' = pendingEpoch.epoch
             /\ state' = RestState
    <2>1. Running' /\ Confirmed' = DOMAIN members
      BY <1>2, <1>8 DEF Confirmed, Running, RestState
    <2>2. Confirmed' = Confirmed \cup {p}
      BY <1>3, <1>4, <1>5, <1>6, <1>8, <2>1
    <2> HIDE DEF awaiting, left
    <2> QED BY <1>2, <1>4, <1>5, <1>6, <1>8, <2>1, <2>2 DEF GK!Confirm
  <1> QED BY <1>1, <1>7, <1>8 DEF EpochAck

\* close_room is a Close.
LEMMA RefineClose ==
    ASSUME Closed
    PROVE  GK!Close
PROOF
  <1>1. Running /\ state' = "Destroyed" /\ UNCHANGED <<members, epoch, holders, epochKey>>
    BY DEF Closed, CloseRoom
  <1>2. ~ Running' /\ Confirmed' = {}
    BY <1>1 DEF Running, Confirmed
  <1> QED BY <1>1, <1>2 DEF GK!Close

\* Everything else leaves the promise's variables alone.
LEMMA RefineStutter ==
    ASSUME Untouched
    PROVE  UNCHANGED GK!gkVars
PROOF
  <1>1. Confirmed' = Confirmed
    BY DEF Untouched, Confirmed
  <1> QED BY <1>1 DEF Untouched, GK!gkVars

\* The actor implements the group-key promise: the initial state maps to an
\* initial state, and every step to a Rekey, a Confirm, a Close or a stutter.
THEOREM RefinementTheorem == Spec => ImplementsGroupKey
PROOF
  <1>1. Init => GK!GKInit
    BY RefineInit
  <1>2. KeyInv /\ KeyInv' /\ [Next]_vars => [GK!GKNext]_(GK!gkVars)
    BY StepKinds, NextIsRoomStep, RefineRekey, RefineAck, RefineClose, RefineStutter DEF Kinded, KeyInv, TablesInv, IdsIssued, GK!GKNext
  <1> QED BY <1>1, <1>2, KeyInvariant, PTL DEF Spec, ImplementsGroupKey, GK!GKSpec

-----------------------------------------------------------------------------
(* RoomGate: roles *)

\* The roles are what the registry says, of typed entries.
LEMMA RoleMapValue ==
    ASSUME KeyInv, NEW p \in Peers
    PROVE  /\ RoleMap[p] = RoleOf(p)
           /\ p \in DOMAIN connections => connections[p] \in EntryRecord
           /\ RoleMap[p] \in RG!Role
           /\ RoleMap[p] = "none" <=> p \notin DOMAIN connections
           /\ RoleMap[p] = "pending" <=> HasRole(p, "Pending")
           /\ RoleMap[p] = "member" <=> HasRole(p, "Member")
PROOF
  <1>1. RoleMap[p] = RoleOf(p)
    BY DEF RoleMap
  <1>2. p \in DOMAIN connections => connections[p] \in EntryRecord
    <2>1. IsMap(connections, Conn, EntryRecord)
      BY DEF KeyInv, TablesInv, TypeOK
    <2> QED BY <2>1, MapValue
  <1>3. p \in DOMAIN connections => /\ connections[p].role \in {"Admission", "Pending", "Member"}
                                    /\ connections[p].verified \in BOOLEAN
    BY <1>2 DEF EntryRecord
  <1> QED BY <1>1, <1>2, <1>3 DEF RoleOf, EntryRole, HasRole, RG!Role

\* The member table and the roles name the same peers.
LEMMA MemberPeers ==
    ASSUME KeyInv
    PROVE  /\ \A p \in Peers : RoleMap[p] = "member" <=> p \in ConnectionsOf(members)
           /\ \A m \in DOMAIN members : /\ members[m].connection \in Conn
                                        /\ m # HostId => members[m].connection \in Peers
           /\ \A m, n \in DOMAIN members :
                 members[m].connection = members[n].connection => m = n
           /\ HostConnection \in ConnectionsOf(members)
           /\ HostConnection \notin Peers
PROOF
  <1>1. Agree(members, connections, requests) /\ HostPresent
    BY DEF KeyInv, TablesInv, TableFacts
  <1>2. \A p \in Peers : RoleMap[p] = "member" <=> p \in ConnectionsOf(members)
    BY <1>1, RoleMapValue DEF Agree, HasRole, ConnectionsOf
  <1>3. \A m, n \in DOMAIN members : members[m].connection = members[n].connection => m = n
    BY <1>1 DEF Agree
  <1>4. \A m \in DOMAIN members : members[m].connection \in Conn
    BY EntryTypes DEF KeyInv, TablesInv
  <1>5. \A m \in DOMAIN members : m # HostId => members[m].connection # HostConnection
    BY <1>1, <1>3 DEF HostPresent
  <1>6. \A c \in Conn : c # HostConnection => c \in Peers
    BY BoundsAssumption DEF Conn, HostConnection, Peers
  <1> QED BY <1>1, <1>2, <1>3, <1>4, <1>5, <1>6 DEF HostPresent, ConnectionsOf, HostConnection, Peers

\* Connections that leave the registry lose their role, and nobody else does.
LEMMA DropRoles ==
    ASSUME NEW out, connections' = Restrict(connections, DOMAIN connections \ out)
    PROVE  RG!SetRole(out, "none")
PROOF
  <1>1. /\ DOMAIN connections' = DOMAIN connections \ out
        /\ \A c \in DOMAIN connections' : connections'[c] = connections[c]
    BY DEF Restrict
  <1>2. \A p \in Peers : RoleOf(p)' = IF p \in out THEN "none" ELSE RoleOf(p)
    BY <1>1 DEF RoleOf
  <1>3. RoleMap' = [p \in Peers |-> IF p \in out THEN "none" ELSE RoleMap[p]]
    BY <1>2 DEF RoleMap
  <1> QED BY <1>3 DEF RG!SetRole

\* The roles follow the registry entry by entry.
LEMMA SetRoles ==
    ASSUME NEW S, NEW r, \A p \in Peers : RoleOf(p)' = IF p \in S THEN r ELSE RoleOf(p)
    PROVE  RG!SetRole(S, r)
PROOF
  <1>1. RoleMap' = [p \in Peers |-> IF p \in S THEN r ELSE RoleMap[p]]
    BY DEF RoleMap
  <1> QED BY <1>1 DEF RG!SetRole

\* An unchanged registry, unchanged roles.
LEMMA SameRoles ==
    ASSUME connections' = connections
    PROVE  RoleMap' = RoleMap
  BY DEF RoleMap, RoleOf

-----------------------------------------------------------------------------
(* RoomGate: batches *)

\* The types in a sequence of messages.
LEMMA TypesOfMessages ==
    /\ TypesOf(<<>>) = {}
    /\ \A msg : TypesOf(<<msg>>) = {msg.type}
    /\ \A a, b \in Seq(Message) : TypesOf(a \o b) = TypesOf(a) \cup TypesOf(b)
PROOF
  <1>1. TypesOf(<<>>) = {}
    BY DEF TypesOf
  <1>2. \A msg : TypesOf(<<msg>>) = {msg.type}
    BY DEF TypesOf
  <1>3. ASSUME NEW a \in Seq(Message), NEW b \in Seq(Message)
        PROVE  TypesOf(a \o b) = TypesOf(a) \cup TypesOf(b)
    <2>1. ASSUME NEW i \in DOMAIN (a \o b)
          PROVE  \/ i \in DOMAIN a /\ (a \o b)[i] = a[i]
                 \/ i - Len(a) \in DOMAIN b /\ (a \o b)[i] = b[i - Len(a)]
      OBVIOUS
    <2>2. ASSUME NEW i \in DOMAIN a
          PROVE  i \in DOMAIN (a \o b) /\ (a \o b)[i] = a[i]
      OBVIOUS
    <2>3. ASSUME NEW i \in DOMAIN b
          PROVE  i + Len(a) \in DOMAIN (a \o b) /\ (a \o b)[i + Len(a)] = b[i]
      OBVIOUS
    <2>4. TypesOf(a \o b) \subseteq TypesOf(a) \cup TypesOf(b)
      BY <2>1 DEF TypesOf
    <2>5. TypesOf(a) \subseteq TypesOf(a \o b)
      BY <2>2 DEF TypesOf
    <2>6. TypesOf(b) \subseteq TypesOf(a \o b)
      BY <2>3 DEF TypesOf
    <2> QED BY <2>4, <2>5, <2>6
  <1> QED BY <1>1, <1>2, <1>3

\* What each combination of message types tells its connection.
LEMMA ToldCases ==
    ASSUME NEW p, NEW close
    PROVE  /\ ToldOf({}, p \in close) = "none"
           /\ ToldOf({"EpochWrap"}, p \in close) = "frame"
           /\ ToldOf({"JoinPolicyChanged"}, p \in close) = "frame"
           /\ ToldOf({"Relay"}, p \in close) = "frame"
           /\ ToldOf({"JoinAccepted", "EpochWrap"}, p \in close) = "accepted"
           /\ ToldOf({"JoinRejected"}, p \in close) = "rejected"
           /\ ToldOf({"Shutdown"}, p \in close) = "shutdown"
           /\ ToldOf({"Error"}, p \in close) = IF p \in close THEN "error" ELSE "frame"
  BY DEF ToldOf

\* The batch of an event is what it emitted.
LEMMA EmittedBatch ==
    ASSUME NEW send, NEW close, NEW notices, Emit(send, close, notices)
    PROVE  LastBatch' = BatchOf(send, close, notices)
  BY DEF Emit, LastBatch

\* Without a notice of the invitation or of the policy, the batch has neither.
LEMMA OtherNotices ==
    ASSUME NEW notices, \A n \in notices : n.type \notin {"InvitationRotated", "JoinPolicyChanged"}
    PROVE  TokenOf(notices) = 0 /\ PolicyOf(notices) = "same"
PROOF
  <1>1. {n \in notices : n.type = "InvitationRotated"} = {}
    OBVIOUS
  <1>2. {n \in notices : n.type = "JoinPolicyChanged"} = {}
    OBVIOUS
  <1> QED BY <1>1, <1>2 DEF TokenOf, PolicyOf

\* A batch is determined by what each peer is told, the peers that are closed,
\* and the notices.
LEMMA PlainBatch ==
    ASSUME NEW send, NEW close, NEW notices, Emit(send, close, notices),
           \A n \in notices : n.type \notin {"InvitationRotated", "JoinPolicyChanged"},
           NEW tell, NEW shut \in SUBSET Peers, close \ {HostConnection} = shut,
           \A p \in Peers : ToldOf(TypesOf(send[p]), p \in close) = tell[p],
           tell = [p \in Peers |-> tell[p]]
    PROVE  LastBatch' = RG!Batch(tell, shut)
PROOF
  <1>1. TokenOf(notices) = 0 /\ PolicyOf(notices) = "same"
    BY OtherNotices
  <1>2. [p \in Peers |-> ToldOf(TypesOf(send[p]), p \in close)] = tell
    BY Zenon
  <1>3. LastBatch' = BatchOf(send, close, notices)
    BY EmittedBatch
  <1> QED BY <1>1, <1>2, <1>3, Zenon DEF BatchOf, RG!Batch

-----------------------------------------------------------------------------
(* RoomGate: what the handlers come to *)

\* Events that leave the registry, the policy, the invitation and the state
\* alone, and send frames to the peers of S only.
LEMMA QuietGate ==
    ASSUME UNCHANGED <<connections, policy, token, state>>,
           NEW send, NEW notices, Emit(send, {}, notices),
           \A n \in notices : n.type \notin {"InvitationRotated", "JoinPolicyChanged"},
           NEW S \in SUBSET Peers,
           \A p \in Peers : ToldOf(TypesOf(send[p]), p \in {}) = IF p \in S THEN "frame" ELSE "none"
    PROVE  RG!GateNext
PROOF
  <1> DEFINE tell == [p \in Peers |-> IF p \in S THEN "frame" ELSE "none"]
  <1>1. /\ tell = [p \in Peers |-> tell[p]]
        /\ \A p \in Peers : ToldOf(TypesOf(send[p]), p \in {}) = tell[p]
    OBVIOUS
  <1>2. {} \ {HostConnection} = {} /\ {} \in SUBSET Peers
    OBVIOUS
  <1>3. tell = RG!TellAll(S, "frame")
    BY DEF RG!TellAll
  <1> HIDE DEF tell
  <1>4. LastBatch' = RG!Batch(tell, {})
    BY <1>1, <1>2, PlainBatch
  <1>5. RoleMap' = RoleMap /\ InTransition' = InTransition /\ (~ Running)' = ~ Running
    BY SameRoles DEF InTransition, Running
  <1>6. RG!Quiet(S)
    BY <1>3, <1>4, <1>5 DEF RG!Quiet
  <1> QED BY <1>6 DEF RG!GateNext

\* Nobody is told anything by silence.
LEMMA SilenceTold ==
    ASSUME NEW p \in Peers
    PROVE  p \in Conn /\ Silence[p] = <<>> /\ TypesOf(Silence[p]) = {}
PROOF
  <1>1. p \in Conn
    BY BoundsAssumption DEF Peers, Conn
  <1>2. Silence[p] = <<>>
    BY <1>1 DEF Silence
  <1> QED BY <1>1, <1>2, TypesOfMessages

\* Events that emit nothing but notices.
LEMMA SilentGate ==
    ASSUME UNCHANGED <<connections, policy, token, state>>,
           NEW notices, Emit(Silence, {}, notices),
           \A n \in notices : n.type \notin {"InvitationRotated", "JoinPolicyChanged"}
    PROVE  RG!GateNext
PROOF
  <1>1. \A p \in Peers : ToldOf(TypesOf(Silence[p]), p \in {}) = IF p \in {} THEN "frame" ELSE "none"
    <2> SUFFICES ASSUME NEW p \in Peers
                 PROVE  ToldOf(TypesOf(Silence[p]), p \in {}) = "none"
      OBVIOUS
    <2>1. TypesOf(Silence[p]) = {}
      BY SilenceTold
    <2> QED BY <2>1, ToldCases
  <1>2. {} \in SUBSET Peers
    OBVIOUS
  <1> QED BY <1>1, <1>2, QuietGate

\* Events without effect.
LEMMA NoEffectGate ==
    ASSUME NoEffect
    PROVE  RG!GateNext
  BY SilentGate DEF NoEffect

\* What a message to one connection tells the peers.
LEMMA SendToTold ==
    ASSUME NEW c \in Conn, NEW msg, NEW p \in Peers
    PROVE  /\ SendTo(c, msg)[p] = IF p = c THEN <<msg>> ELSE <<>>
           /\ TypesOf(SendTo(c, msg)[p]) = IF p = c THEN {msg.type} ELSE {}
PROOF
  <1>1. SendTo(c, msg)[p] = IF p = c THEN <<msg>> ELSE <<>>
    BY SilenceTold DEF SendTo, Silence
  <1> QED BY <1>1, TypesOfMessages

\* What a message to many connections tells the peers.
LEMMA SendAllTold ==
    ASSUME NEW C, NEW msg, NEW p \in Peers
    PROVE  /\ SendAll(C, msg)[p] = IF p \in C THEN <<msg>> ELSE <<>>
           /\ TypesOf(SendAll(C, msg)[p]) = IF p \in C THEN {msg.type} ELSE {}
PROOF
  <1>1. SendAll(C, msg)[p] = IF p \in C THEN <<msg>> ELSE <<>>
    BY SilenceTold DEF SendAll
  <1> QED BY <1>1, TypesOfMessages

\* A typed batch of messages; folded, so that the facts below apply as they are.
Sendable(send) == send \in [Conn -> Seq(Message)]

\* Two batches after each other.
LEMMA ThenTold ==
    ASSUME NEW a, NEW b, Sendable(a), Sendable(b), NEW p \in Peers
    PROVE  TypesOf(Then(a, b)[p]) = TypesOf(a[p]) \cup TypesOf(b[p])
PROOF
  <1>1. p \in Conn
    BY SilenceTold
  <1>2. Then(a, b)[p] = a[p] \o b[p] /\ a[p] \in Seq(Message) /\ b[p] \in Seq(Message)
    BY <1>1 DEF Then, Sendable
  <1> QED BY <1>2, TypesOfMessages

\* The key wraps of a removal reach exactly the members who stay.
LEMMA WrapsTold ==
    ASSUME KeyInv, NEW gone
    PROVE  /\ Sendable(WrapsWithout(gone))
           /\ \A p \in Peers : TypesOf(WrapsWithout(gone)[p]) =
                 IF RoleMap[p] = "member"
                    /\ p \notin {members[m].connection : m \in gone \cap DOMAIN members}
                 THEN {"EpochWrap"} ELSE {}
PROOF
  <1> DEFINE rest == Restrict(members, DOMAIN members \ gone)
             S == {members[m].connection : m \in gone \cap DOMAIN members}
  <1>1. DOMAIN rest = DOMAIN members \ gone /\ \A m \in DOMAIN rest : rest[m] = members[m]
    BY DEF Restrict
  <1>2. \A p \in Peers : p \in ConnectionsOf(rest) <=> RoleMap[p] = "member" /\ p \notin S
    <2> SUFFICES ASSUME NEW p \in Peers
                 PROVE  p \in ConnectionsOf(rest) <=> RoleMap[p] = "member" /\ p \notin S
      OBVIOUS
    <2>1. p \in ConnectionsOf(rest) <=> \E m \in DOMAIN members \ gone : members[m].connection = p
      BY <1>1 DEF ConnectionsOf
    <2>2. RoleMap[p] = "member" <=> \E m \in DOMAIN members : members[m].connection = p
      BY MemberPeers DEF ConnectionsOf
    <2>3. p \in S <=> \E m \in gone \cap DOMAIN members : members[m].connection = p
      OBVIOUS
    <2>4. \A m, n \in DOMAIN members : members[m].connection = members[n].connection => m = n
      BY MemberPeers
    <2> HIDE DEF S, rest
    <2> QED BY <2>1, <2>2, <2>3, <2>4
  <1> HIDE DEF S, rest
  <1>3. EpochWrap(epoch + 1).type = "EpochWrap" /\ EpochWrap(epoch + 1) \in Message
    BY MessageTypes, KeyTypes DEF EpochWrap
  <1>4. WrapsWithout(gone) = SendAll(ConnectionsOf(rest), EpochWrap(epoch + 1))
    BY DEF WrapsWithout, Wraps, rest
  <1>5. \A p \in Peers : TypesOf(WrapsWithout(gone)[p]) =
                            IF RoleMap[p] = "member" /\ p \notin S THEN {"EpochWrap"} ELSE {}
    <2> SUFFICES ASSUME NEW p \in Peers
                 PROVE  TypesOf(WrapsWithout(gone)[p]) =
                           IF RoleMap[p] = "member" /\ p \notin S THEN {"EpochWrap"} ELSE {}
      OBVIOUS
    <2>1. TypesOf(SendAll(ConnectionsOf(rest), EpochWrap(epoch + 1))[p]) =
             IF p \in ConnectionsOf(rest) THEN {EpochWrap(epoch + 1).type} ELSE {}
      BY SendAllTold
    <2> QED BY <1>2, <1>3, <1>4, <2>1
  <1> QED BY <1>3, <1>4, <1>5, SendTypes DEF S, Sendable

\* Key wraps after, and before, other messages.
LEMMA WrapsAfter ==
    ASSUME KeyInv, NEW gone, NEW first, Sendable(first), NEW p \in Peers
    PROVE  /\ TypesOf(Then(first, WrapsWithout(gone))[p]) =
                 TypesOf(first[p]) \cup TypesOf(WrapsWithout(gone)[p])
           /\ TypesOf(Then(WrapsWithout(gone), first)[p]) =
                 TypesOf(WrapsWithout(gone)[p]) \cup TypesOf(first[p])
PROOF
  <1>1. PICK w : w = WrapsWithout(gone)
    OBVIOUS
  <1>2. Sendable(w)
    BY <1>1, WrapsTold
  <1>3. TypesOf(Then(first, w)[p]) = TypesOf(first[p]) \cup TypesOf(w[p])
    BY <1>2, ThenTold
  <1>4. TypesOf(Then(w, first)[p]) = TypesOf(w[p]) \cup TypesOf(first[p])
    BY <1>2, ThenTold
  <1> QED BY <1>1, <1>3, <1>4

\* The members of gone are exactly the one behind connection c.
Departs(gone, c) == {members[m].connection : m \in gone \cap DOMAIN members} = {c}

\* What a removal tells the peers, when only the one who leaves is told more.
LEMMA RemovalTold ==
    ASSUME KeyInv, NEW gone, NEW c, Departs(gone, c),
           NEW first, Sendable(first), NEW close, NEW p \in Peers,
           p # c => TypesOf(first[p]) = {}
    PROVE  /\ ToldOf(TypesOf(Then(first, WrapsWithout(gone))[p]), p \in close) =
                 IF p = c THEN ToldOf(TypesOf(first[p]), p \in close)
                 ELSE IF RoleMap[p] = "member" THEN "frame" ELSE "none"
           /\ ToldOf(TypesOf(Then(WrapsWithout(gone), first)[p]), p \in close) =
                 IF p = c THEN ToldOf(TypesOf(first[p]), p \in close)
                 ELSE IF RoleMap[p] = "member" THEN "frame" ELSE "none"
PROOF
  <1> DEFINE after == TypesOf(Then(first, WrapsWithout(gone))[p])
             before == TypesOf(Then(WrapsWithout(gone), first)[p])
  <1>1. /\ after = TypesOf(first[p]) \cup TypesOf(WrapsWithout(gone)[p])
        /\ before = TypesOf(WrapsWithout(gone)[p]) \cup TypesOf(first[p])
    BY WrapsAfter
  <1>2. TypesOf(WrapsWithout(gone)[p]) =
           IF RoleMap[p] = "member" /\ p \notin {c} THEN {"EpochWrap"} ELSE {}
    BY WrapsTold DEF Departs
  <1>3. CASE p = c
    <2>1. after = TypesOf(first[p]) /\ before = TypesOf(first[p])
      BY <1>1, <1>2, <1>3
    <2> HIDE DEF after, before
    <2> QED BY <1>3, <2>1 DEF after, before
  <1>4. CASE p # c
    <2>1. TypesOf(first[p]) = {}
      BY <1>4
    <2>2. after = before /\ after = IF RoleMap[p] = "member" THEN {"EpochWrap"} ELSE {}
      BY <1>1, <1>2, <1>4, <2>1
    <2> HIDE DEF after, before
    <2>3. ToldOf(after, p \in close) = IF RoleMap[p] = "member" THEN "frame" ELSE "none"
      BY <2>2, ToldCases
    <2> QED BY <1>4, <2>2, <2>3 DEF after, before
  <1> QED BY <1>3, <1>4

\* Removals (remove_member, on_epoch_timeout) are DropMembers.
LEMMA RemoveGate ==
    ASSUME KeyInv, Running, NEW gone \in SUBSET DOMAIN members, NEW lost, NEW type,
           RemoveMembers(gone, lost, type), UNCHANGED <<policy, token>>,
           NEW S, S = {members[m].connection : m \in gone}, lost \subseteq S,
           NEW send, NEW close \in SUBSET Peers, Emit(send, close, {}),
           NEW tell,
           \A p \in Peers : ToldOf(TypesOf(send[p]), p \in close) =
              IF tell[p] # "none" THEN tell[p]
              ELSE IF RoleMap[p] = "member" /\ p \notin S THEN "frame" ELSE "none"
    PROVE  RG!DropMembers(S, tell, close)
PROOF
  <1> DEFINE told == [p \in Peers |->
                        IF tell[p] # "none" THEN tell[p]
                        ELSE IF p \in RG!With("member") \ S THEN "frame" ELSE "none"]
  <1>1. RG!With("member") = {p \in Peers : RoleMap[p] = "member"}
    BY DEF RG!With
  <1>2. /\ told = [p \in Peers |-> told[p]]
        /\ \A p \in Peers : ToldOf(TypesOf(send[p]), p \in close) = told[p]
    BY <1>1
  <1>3. close \ {HostConnection} = close
    BY MemberPeers
  <1> HIDE DEF told
  <1>4. LastBatch' = RG!Batch(told, close)
    BY <1>2, <1>3, PlainBatch
  <1>5. connections' = Restrict(connections, DOMAIN connections \ S)
    <2>1. lost \cup S = S
      OBVIOUS
    <2>2. connections' = Restrict(connections, DOMAIN connections \
                            (lost \cup {members[m].connection : m \in gone}))
      BY DEF RemoveMembers
    <2> QED BY <2>1, <2>2, Zenon
  <1>6. RG!SetRole(S, "none")
    BY <1>5, DropRoles
  <1>7. InTransition' /\ (~ Running)' = ~ Running
    BY DEF RemoveMembers, BeginEpochTransition, InTransition, Running
  <1> QED BY <1>4, <1>6, <1>7 DEF RG!DropMembers, told

\* A known connection is a peer, and who it is in the member table.
LEMMA KnownPeer ==
    ASSUME KeyInv, NEW c \in Known
    PROVE  /\ c \in Peers /\ c \in Conn /\ c # HostConnection
           /\ MemberOf(c) \subseteq DOMAIN members
           /\ \A m \in MemberOf(c) : members[m].connection = c
           /\ RoleMap[c] = "member" <=> MemberOf(c) # {}
PROOF
  <1>1. nextConn \in 1..(MaxConn + 1) /\ MaxConn \in Nat
    BY BoundsAssumption DEF KeyInv, TablesInv, TypeOK
  <1>2. c \in Peers /\ c \in Conn /\ c # HostConnection
    BY <1>1 DEF Known, Peers, Conn, HostConnection
  <1>3. MemberOf(c) = {m \in DOMAIN members : members[m].connection = c}
    BY Registered DEF KeyInv
  <1>4. RoleMap[c] = "member" <=> \E m \in DOMAIN members : members[m].connection = c
    BY <1>2, MemberPeers DEF ConnectionsOf
  <1> QED BY <1>2, <1>3, <1>4

\* on_connection_lost is Lose, whatever the connection was told before it.
LEMMA LoseGate ==
    ASSUME KeyInv, Running, NEW c \in Known, NEW first, Sendable(first),
           NEW close \in SUBSET Peers, LoseConnection(c, first, close),
           NEW tell, tell = [p \in Peers |-> tell[p]],
           \A p \in Peers : ToldOf(TypesOf(first[p]), p \in close) = tell[p],
           \A p \in Peers : p # c => TypesOf(first[p]) = {}
    PROVE  RG!Lose(c, tell, close)
PROOF
  <1> DEFINE gone == MemberOf(c) \cap DOMAIN members
  <1>1. UNCHANGED <<policy, token>>
    BY DEF LoseConnection
  <1>2. gone = MemberOf(c) /\ c \in Peers
    BY KnownPeer
  <1>3. CASE /\ gone # {}
             /\ RemoveMembers(gone, {c}, "MemberLeft")
             /\ Emit(Then(first, WrapsWithout(gone)), close, {})
    <2>1. {members[m].connection : m \in gone} = {c}
      BY <1>2, <1>3, KnownPeer
    <2>2. Departs(gone, c)
      BY <2>1 DEF Departs
    <2>3. gone \in SUBSET DOMAIN members /\ {c} \subseteq {c}
      OBVIOUS
    <2> HIDE DEF gone
    <2>4. ASSUME NEW p \in Peers
          PROVE  ToldOf(TypesOf(Then(first, WrapsWithout(gone))[p]), p \in close) =
                    IF tell[p] # "none" THEN tell[p]
                    ELSE IF RoleMap[p] = "member" /\ p \notin {c} THEN "frame" ELSE "none"
      <3>1. ToldOf(TypesOf(Then(first, WrapsWithout(gone))[p]), p \in close) =
               IF p = c THEN ToldOf(TypesOf(first[p]), p \in close)
               ELSE IF RoleMap[p] = "member" THEN "frame" ELSE "none"
        BY <2>2, RemovalTold
      <3>2. p # c => tell[p] = "none"
        <4>1. ToldOf(TypesOf(first[p]), p \in close) = tell[p]
          OBVIOUS
        <4>2. ToldOf({}, p \in close) = "none"
          BY ToldCases
        <4> QED BY <4>1, <4>2
      <3> QED BY <3>1, <3>2
    <2>5. RG!DropMembers({c}, tell, close)
      BY <1>1, <1>3, <2>1, <2>3, <2>4, RemoveGate
    <2> QED BY <1>2, <1>3, <2>5, KnownPeer DEF RG!Lose
  <1>4. CASE /\ gone = {}
             /\ connections' = Restrict(connections, DOMAIN connections \ {c})
             /\ Emit(first, close, {})
             /\ state' = state
    <2>1. RG!SetRole({c}, "none")
      BY <1>4, DropRoles
    <2>2. close \ {HostConnection} = close
      BY MemberPeers
    <2>3. LastBatch' = RG!Batch(tell, close)
      BY <1>4, <2>2, PlainBatch
    <2>4. InTransition' = InTransition /\ (~ Running)' = ~ Running
      BY <1>4 DEF InTransition, Running
    <2>5. RG!Forget({c}, tell, close)
      BY <1>1, <2>1, <2>3, <2>4 DEF RG!Forget
    <2> QED BY <1>2, <1>4, <2>5, KnownPeer DEF RG!Lose
  <1> QED BY <1>3, <1>4 DEF LoseConnection

\* run() on an error the sender is answerable for.
LEMMA PunishGate ==
    ASSUME KeyInv, Running, NEW c \in Known,
           NEW code \in {"RoomLocked", "RoomClosed", "ProtocolViolation", "RateLimited"},
           Punish(c, code)
    PROVE  RG!GateNext
PROOF
  <1> DEFINE first == SendTo(c, Error(code))
             tell == [p \in Peers |-> IF p \in {c} THEN "error" ELSE "none"]
  <1>1. c \in Peers /\ c \in Conn
    BY KnownPeer
  <1>2. Error(code).type = "Error" /\ Sendable(first)
    BY <1>1, MessageTypes, SendTypes DEF Error, Sendable
  <1>3. ASSUME NEW p \in Peers
        PROVE  TypesOf(first[p]) = IF p = c THEN {"Error"} ELSE {}
    <2>1. TypesOf(SendTo(c, Error(code))[p]) = IF p = c THEN {Error(code).type} ELSE {}
      BY <1>1, SendToTold
    <2> QED BY <1>2, <2>1
  <1>4. tell = [p \in Peers |-> tell[p]] /\ tell = RG!TellAll({c}, "error")
    BY DEF RG!TellAll
  <1> HIDE DEF first
  <1>5. ASSUME NEW p \in Peers
        PROVE  ToldOf(TypesOf(first[p]), p \in {c}) = tell[p]
    BY <1>3, ToldCases
  <1> HIDE DEF tell
  <1>6. LoseConnection(c, first, {c}) /\ {c} \in SUBSET Peers
    BY <1>1 DEF Punish, first
  <1>7. RG!Lose(c, tell, {c})
    BY <1>2, <1>3, <1>4, <1>5, <1>6, LoseGate
  <1>8. RG!Punish(c)
    BY <1>4, <1>7 DEF RG!Punish
  <1> QED BY <1>1, <1>8 DEF RG!GateNext

\* Whoever is registered and no member is a peer: the host's own connection is
\* a member's.
LEMMA ApplicantPeer ==
    ASSUME KeyInv, NEW c \in DOMAIN connections, connections[c].role # "Member"
    PROVE  c \in Peers /\ c \in Conn /\ c # HostConnection
PROOF
  <1>1. Agree(members, connections, requests) /\ HostPresent
    BY DEF KeyInv, TablesInv, TableFacts
  <1>2. connections[HostConnection].role = "Member"
    BY <1>1 DEF Agree, HostPresent
  <1>3. c \in Conn
    BY DEF KeyInv, TablesInv, TypeOK, IsMap
  <1> QED BY <1>2, <1>3, BoundsAssumption DEF Conn, HostConnection, Peers

\* RoomGate counts as RoomActor does.
LEMMA SameCount == \A S : RG!Cardinality(S) = Cardinality(S)
  BY Zenon DEF RG!Cardinality, Cardinality

\* The queue holds as many requests as peers wait.
LEMMA QueueLength ==
    ASSUME KeyInv
    PROVE  /\ IsFiniteSet(RG!With("pending"))
           /\ Cardinality(RG!With("pending")) <= Cardinality(DOMAIN requests)
PROOF
  <1> DEFINE W == RG!With("pending")
             back == [r \in DOMAIN requests |-> requests[r].connection]
  <1>1. \A p \in W : /\ p \in DOMAIN connections /\ connections[p].role = "Pending"
                     /\ p \in Peers
    BY RoleMapValue DEF RG!With, HasRole
  <1>2. Agree(members, connections, requests) /\ IsFiniteSet(DOMAIN requests)
    BY DEF KeyInv, TablesInv, TableFacts, TypeOK, IsMap
  <1>3. \A r \in DOMAIN requests : requests[r].connection \in W
    <2> SUFFICES ASSUME NEW r \in DOMAIN requests
                 PROVE  requests[r].connection \in W
      OBVIOUS
    <2>1. HasRole(requests[r].connection, "Pending")
      BY <1>2 DEF Agree, HasRole
    <2>2. requests[r].connection \in Peers
      BY <2>1, ApplicantPeer DEF HasRole
    <2> QED BY <2>1, <2>2, RoleMapValue DEF RG!With
  <1>4. \A p \in W : \E r \in DOMAIN requests : requests[r].connection = p
    BY <1>1, <1>2 DEF Agree
  <1> HIDE DEF W
  <1>5. back \in Surjection(DOMAIN requests, W)
    BY <1>3, <1>4 DEF Surjection
  <1>6. IsFiniteSet(W) /\ Cardinality(W) <= Cardinality(DOMAIN requests)
    BY <1>2, <1>5, FS_Surjection
  <1> QED BY <1>6 DEF W

\* One member other than the host leaves.
LEMMA OneLeaves ==
    ASSUME KeyInv, NEW m \in DOMAIN members, m # HostId
    PROVE  /\ members[m].connection \in Peers /\ members[m].connection \in Conn
           /\ RoleMap[members[m].connection] = "member"
           /\ Departs({m}, members[m].connection)
           /\ {members[x].connection : x \in {m}} = {members[m].connection}
PROOF
  <1>1. members[m].connection \in Peers /\ members[m].connection \in Conn
    BY MemberPeers
  <1>2. RoleMap[members[m].connection] = "member"
    BY <1>1, MemberPeers DEF ConnectionsOf
  <1>3. {m} \cap DOMAIN members = {m}
    OBVIOUS
  <1> QED BY <1>1, <1>2, <1>3 DEF Departs

\* A removal after which nobody is told anything but the new key.
LEMMA WrapsGate ==
    ASSUME KeyInv, Running, NEW late, NEW lost, lost = {}, NEW type,
           RemoveMembers(late \cap DOMAIN members, lost, type), UNCHANGED <<policy, token>>,
           NEW S, S = {members[m].connection : m \in late \cap DOMAIN members},
           NEW close \in SUBSET Peers, Emit(WrapsWithout(late), close, {})
    PROVE  RG!DropMembers(S, RG!TellAll({}, "none"), close)
PROOF
  <1> DEFINE tell == RG!TellAll({}, "none")
  <1>1. \A p \in Peers : tell[p] = "none"
    BY DEF RG!TellAll
  <1> HIDE DEF tell
  <1>2. ASSUME NEW p \in Peers
        PROVE  ToldOf(TypesOf(WrapsWithout(late)[p]), p \in close) =
                  IF tell[p] # "none" THEN tell[p]
                  ELSE IF RoleMap[p] = "member" /\ p \notin S THEN "frame" ELSE "none"
    <2>1. TypesOf(WrapsWithout(late)[p]) =
             IF RoleMap[p] = "member" /\ p \notin S THEN {"EpochWrap"} ELSE {}
      BY WrapsTold
    <2>2. ToldOf({"EpochWrap"}, p \in close) = "frame" /\ ToldOf({}, p \in close) = "none"
      BY ToldCases
    <2>3. tell[p] = "none"
      BY <1>1
    <2>4. CASE RoleMap[p] = "member" /\ p \notin S
      <3>1. TypesOf(WrapsWithout(late)[p]) = {"EpochWrap"}
        BY <2>1, <2>4
      <3> QED BY <2>2, <2>3, <2>4, <3>1, Zenon
    <2>5. CASE ~ (RoleMap[p] = "member" /\ p \notin S)
      <3>1. TypesOf(WrapsWithout(late)[p]) = {}
        BY <2>1, <2>5
      <3> QED BY <2>2, <2>3, <2>5, <3>1, Zenon
    <2> QED BY <2>4, <2>5
  <1>3. late \cap DOMAIN members \in SUBSET DOMAIN members /\ lost \subseteq S
    OBVIOUS
  <1>4. RG!DropMembers(S, tell, close)
    BY <1>2, <1>3, RemoveGate
  <1> QED BY <1>4 DEF tell

\* A removal after, or before, which the one who leaves is told why.
LEMMA TellLeaverGate ==
    ASSUME KeyInv, Running, NEW m \in DOMAIN members, m # HostId, NEW type,
           RemoveMembers({m}, {}, type), UNCHANGED <<policy, token>>,
           NEW c, c = members[m].connection,
           NEW first, Sendable(first), NEW send,
           \/ send = Then(first, WrapsWithout({m}))
           \/ send = Then(WrapsWithout({m}), first),
           Emit(send, {c}, {}),
           \A p \in Peers : p # c => TypesOf(first[p]) = {},
           NEW why, ToldOf(TypesOf(first[c]), c \in {c}) = why, why # "none"
    PROVE  RG!DropMembers({c}, RG!TellAll({c}, why), {c})
PROOF
  <1> DEFINE tell == RG!TellAll({c}, why)
  <1>1. \A p \in Peers : tell[p] = IF p = c THEN why ELSE "none"
    BY DEF RG!TellAll
  <1> HIDE DEF tell
  <1>2. /\ c \in Peers /\ Departs({m}, c)
        /\ {members[x].connection : x \in {m}} = {c}
    BY OneLeaves
  <1>3. ASSUME NEW p \in Peers
        PROVE  ToldOf(TypesOf(send[p]), p \in {c}) =
                  IF tell[p] # "none" THEN tell[p]
                  ELSE IF RoleMap[p] = "member" /\ p \notin {c} THEN "frame" ELSE "none"
    <2>1. ToldOf(TypesOf(send[p]), p \in {c}) =
             IF p = c THEN ToldOf(TypesOf(first[p]), p \in {c})
             ELSE IF RoleMap[p] = "member" THEN "frame" ELSE "none"
      BY <1>2, RemovalTold
    <2>2. tell[p] = IF p = c THEN why ELSE "none"
      BY <1>1
    <2> QED BY <2>1, <2>2
  <1>4. {m} \in SUBSET DOMAIN members /\ {} \subseteq {c} /\ {c} \in SUBSET Peers
    BY <1>2
  <1>5. RG!DropMembers({c}, tell, {c})
    BY <1>2, <1>3, <1>4, RemoveGate
  <1> QED BY <1>5 DEF tell

-----------------------------------------------------------------------------
(* RoomGate: the events *)

\* An event that only changes one peer's role.
LEMMA RoleGate ==
    ASSUME UNCHANGED <<policy, token, state>>, Emit(Silence, {}, {}),
           NEW S, NEW r, \A p \in Peers : RoleOf(p)' = IF p \in S THEN r ELSE RoleOf(p)
    PROVE  /\ RG!SetRole(S, r) /\ LastBatch' = RG!NoBatch
           /\ UNCHANGED <<policy, token>>
           /\ InTransition' = InTransition /\ (~ Running)' = ~ Running
PROOF
  <1>2. RG!SetRole(S, r)
    BY SetRoles
  <1> DEFINE tell == RG!TellAll({}, "none")
  <1>3. tell = [p \in Peers |-> tell[p]] /\ \A p \in Peers : tell[p] = "none"
    BY DEF RG!TellAll
  <1> HIDE DEF tell
  <1>4. ASSUME NEW p \in Peers
        PROVE  ToldOf(TypesOf(Silence[p]), p \in {}) = tell[p]
    <2>1. TypesOf(Silence[p]) = {}
      BY SilenceTold
    <2> QED BY <1>3, <2>1, ToldCases
  <1>5. {} \ {HostConnection} = {} /\ {} \in SUBSET Peers
    OBVIOUS
  <1>6. LastBatch' = RG!Batch(tell, {})
    BY <1>3, <1>4, <1>5, PlainBatch
  <1>7. LastBatch' = RG!NoBatch
    BY <1>6 DEF RG!NoBatch, tell
  <1>8. InTransition' = InTransition /\ (~ Running)' = ~ Running
    BY DEF InTransition, Running
  <1> QED BY <1>2, <1>7, <1>8

\* Accept loop, password results and join forms.
LEMMA AdmissionGate ==
    ASSUME KeyInv, AdmissionEvent
    PROVE  RG!GateNext
PROOF
  <1>1. CASE ClientConnected
    <2> DEFINE S == IF InTransition THEN {} ELSE {nextConn}
    <2>1. /\ Running /\ nextConn <= MaxConn /\ UNCHANGED <<policy, token, state>>
          /\ connections' = IF InTransition THEN connections
                            ELSE With(connections, nextConn, Entry(FALSE, "Admission", 0))
          /\ Emit(Silence, {}, {})
      BY <1>1 DEF ClientConnected
    <2>2. nextConn \in Peers
      BY <2>1, BoundsAssumption DEF KeyInv, TablesInv, TypeOK, Peers
    <2>3. nextConn \notin DOMAIN connections
      BY <2>2 DEF KeyInv, TablesInv, TableFacts, ConnectionsIssued, Peers
    <2>4. EntryRole(Entry(FALSE, "Admission", 0)) = "guest"
      BY DEF EntryRole, Entry
    <2>5. \A p \in Peers : RoleOf(p)' = IF p \in S THEN "guest" ELSE RoleOf(p)
      <3>1. CASE InTransition
        BY <2>1, <3>1 DEF RoleOf
      <3>2. CASE ~ InTransition
        <4>1. /\ DOMAIN connections' = DOMAIN connections \cup {nextConn}
              /\ connections'[nextConn] = Entry(FALSE, "Admission", 0)
              /\ \A x \in DOMAIN connections : x # nextConn => connections'[x] = connections[x]
          BY <2>1, <3>2 DEF With
        <4> QED BY <2>4, <3>2, <4>1 DEF RoleOf
      <3> QED BY <3>1, <3>2
    <2> HIDE DEF S
    <2>6. /\ RG!SetRole(S, "guest") /\ LastBatch' = RG!NoBatch
          /\ InTransition' = InTransition /\ (~ Running)' = ~ Running
      BY <2>1, <2>5, RoleGate
    <2>7. RoleMap[nextConn] = "none"
      BY <2>2, <2>3, RoleMapValue
    <2>8. RG!Connected(nextConn)
      BY <2>1, <2>6, <2>7 DEF RG!Connected, S
    <2> QED BY <2>2, <2>8 DEF RG!GateNext
  <1>2. ASSUME NEW c \in Known, PasswordVerified(c)
        PROVE  RG!GateNext
    <2> DEFINE S == IF InTransition \/ RoleMap[c] # "guest" THEN {} ELSE {c}
    <2>1. /\ AtRest /\ c \in DOMAIN connections /\ UNCHANGED <<policy, token, state>>
          /\ connections' = [connections EXCEPT ![c].verified = TRUE]
          /\ Emit(Silence, {}, {})
      BY <1>2 DEF PasswordVerified
    <2>2. ~ InTransition /\ Running
      BY <2>1 DEF AtRest, InTransition, Running
    <2>3. c \in Peers
      BY KnownPeer
    <2>4. connections[c] \in EntryRecord /\ RoleMap[c] = RoleOf(c)
      BY <2>1, <2>3, RoleMapValue
    <2>5. /\ DOMAIN connections' = DOMAIN connections
          /\ connections'[c].role = connections[c].role /\ connections'[c].verified = TRUE
          /\ \A x \in DOMAIN connections : x # c => connections'[x] = connections[x]
      BY <2>1, <2>4 DEF EntryRecord
    <2>6. /\ connections[c].role \in {"Admission", "Pending", "Member"}
          /\ connections[c].verified \in BOOLEAN
      BY <2>4 DEF EntryRecord
    <2>7. EntryRole(connections'[c]) =
             IF EntryRole(connections[c]) = "guest" THEN "verified" ELSE EntryRole(connections[c])
      BY <2>5, <2>6 DEF EntryRole
    <2>8. \A p \in Peers : RoleOf(p)' = IF p \in S THEN "verified" ELSE RoleOf(p)
      BY <2>1, <2>2, <2>4, <2>5, <2>7 DEF RoleOf
    <2> HIDE DEF S
    <2>9. /\ RG!SetRole(S, "verified") /\ LastBatch' = RG!NoBatch
          /\ InTransition' = InTransition /\ (~ Running)' = ~ Running
      BY <2>1, <2>8, RoleGate
    <2>10. RG!Verified(c)
      BY <2>1, <2>2, <2>9 DEF RG!Verified, S
    <2> QED BY <2>3, <2>10 DEF RG!GateNext
  <1>3. ASSUME NEW c, PasswordIgnored(c)
        PROVE  RG!GateNext
    BY <1>3, NoEffectGate DEF PasswordIgnored
  <1>4. ASSUME NEW c \in Known, NEW app, JoinRequested(c, app)
        PROVE  RG!GateNext
    <2>1. /\ AtRest /\ JoinRefusal(c) = "None" /\ UNCHANGED <<policy, token, state>>
          /\ connections' = [connections EXCEPT ![c] = Entry(TRUE, "Pending", nextRequestId)]
          /\ Emit(Silence, {}, {})
      BY <1>4 DEF JoinRequested
    <2>2. ~ InTransition /\ Running
      BY <2>1 DEF AtRest, InTransition, Running
    <2>3. /\ policy = "Open" /\ HasRole(c, "Admission") /\ connections[c].verified
          /\ ~ (Cardinality(DOMAIN requests) >= MaxPendingRequests)
      BY <2>1 DEF JoinRefusal
    <2>4. c \in Peers
      BY KnownPeer
    <2>5. c \in DOMAIN connections /\ RoleMap[c] = "verified"
      BY <2>3, <2>4, RoleMapValue DEF HasRole, RoleOf, EntryRole
    <2>6. Cardinality(RG!With("pending")) < MaxPendingRequests
      <3>1. /\ Cardinality(DOMAIN requests) \in Nat
            /\ Cardinality(RG!With("pending")) \in Nat
            /\ Cardinality(RG!With("pending")) <= Cardinality(DOMAIN requests)
        BY QueueLength, FS_CardinalityType DEF KeyInv, TablesInv, TypeOK, IsMap
      <3> QED BY <2>3, <3>1, BoundsAssumption
    <2>7. EntryRole(Entry(TRUE, "Pending", nextRequestId)) = "pending"
      BY DEF EntryRole, Entry
    <2>8. \A p \in Peers : RoleOf(p)' = IF p \in {c} THEN "pending" ELSE RoleOf(p)
      BY <2>1, <2>5, <2>7 DEF RoleOf
    <2>9. /\ RG!SetRole({c}, "pending") /\ LastBatch' = RG!NoBatch
          /\ InTransition' = InTransition /\ (~ Running)' = ~ Running
      BY <2>1, <2>8, RoleGate
    <2>10. RG!Admits(c)
      BY <2>3, <2>5, <2>6, SameCount DEF RG!Admits
    <2>11. RG!Form(c)
      BY <2>1, <2>2, <2>9, <2>10 DEF RG!Form
    <2> QED BY <2>4, <2>11 DEF RG!GateNext
  <1>5. ASSUME NEW c \in Known, JoinRefused(c)
        PROVE  RG!GateNext
    <2>1. JoinRefusal(c) \in {"RoomLocked", "ProtocolViolation"} /\ Punish(c, JoinRefusal(c))
      BY <1>5 DEF JoinRefused, JoinRefusal
    <2>2. Running
      BY <1>5 DEF JoinRefused, AtRest, Running
    <2> QED BY <2>1, <2>2, PunishGate
  <1> QED BY <1>1, <1>2, <1>3, <1>4, <1>5 DEF AdmissionEvent

\* The applicant behind a request is a peer that waits.
LEMMA RequestPeer ==
    ASSUME KeyInv, NEW r \in DOMAIN requests
    PROVE  /\ requests[r].connection \in Peers /\ requests[r].connection \in Conn
           /\ requests[r].connection \in DOMAIN connections
           /\ RoleMap[requests[r].connection] = "pending"
PROOF
  <1>1. HasRole(requests[r].connection, "Pending")
    BY DEF KeyInv, TablesInv, TableFacts, Agree, HasRole
  <1>2. requests[r].connection \in Peers /\ requests[r].connection \in Conn
    BY <1>1, ApplicantPeer DEF HasRole
  <1> QED BY <1>1, <1>2, RoleMapValue DEF HasRole

\* What a promotion tells the peers: the welcome to the newcomer, and the next
\* key to it and to every member.
LEMMA WelcomeTold ==
    ASSUME KeyInv, NEW c \in Peers, c \in Conn, NEW m, m \in Nat, NEW rec, rec.connection = c,
           m \notin DOMAIN members, NEW p \in Peers
    PROVE  ToldOf(TypesOf(Then(SendTo(c, JoinAccepted(m)), Wraps(With(members, m, rec)))[p]), p \in {})
              = IF p = c THEN "accepted" ELSE IF RoleMap[p] = "member" THEN "frame" ELSE "none"
PROOF
  <1> DEFINE ms == With(members, m, rec)
             a == SendTo(c, JoinAccepted(m))
             b == SendAll(ConnectionsOf(ms), EpochWrap(epoch + 1))
  <1>1. ConnectionsOf(ms) = ConnectionsOf(members) \cup {c}
    <2>1. /\ DOMAIN ms = DOMAIN members \cup {m} /\ ms[m] = rec
          /\ \A x \in DOMAIN members : ms[x] = members[x]
      BY DEF With
    <2> QED BY <2>1 DEF ConnectionsOf
  <1>2. p \in ConnectionsOf(ms) <=> p = c \/ RoleMap[p] = "member"
    BY <1>1, MemberPeers
  <1> HIDE DEF ms
  <1>3. /\ EpochWrap(epoch + 1).type = "EpochWrap" /\ EpochWrap(epoch + 1) \in Message
        /\ JoinAccepted(m).type = "JoinAccepted" /\ JoinAccepted(m) \in Message
    BY MessageTypes, KeyTypes DEF EpochWrap, JoinAccepted
  <1>4. Sendable(a) /\ Sendable(b)
    BY <1>3, SendTypes DEF Sendable
  <1>5. TypesOf(a[p]) = IF p = c THEN {JoinAccepted(m).type} ELSE {}
    BY SendToTold
  <1>6. TypesOf(b[p]) = IF p \in ConnectionsOf(ms) THEN {EpochWrap(epoch + 1).type} ELSE {}
    BY SendAllTold
  <1> HIDE DEF a, b
  <1>7. TypesOf(Then(a, b)[p]) = TypesOf(a[p]) \cup TypesOf(b[p])
    BY <1>4, ThenTold
  <1>8. Then(SendTo(c, JoinAccepted(m)), Wraps(With(members, m, rec))) = Then(a, b)
    BY DEF a, b, ms, Wraps
  <1>9. ToldOf(TypesOf(Then(a, b)[p]), p \in {})
           = IF p = c THEN "accepted" ELSE IF RoleMap[p] = "member" THEN "frame" ELSE "none"
    <2>1. CASE p = c
      <3>1. TypesOf(Then(a, b)[p]) = {"JoinAccepted", "EpochWrap"}
        BY <1>2, <1>3, <1>5, <1>6, <1>7, <2>1
      <3> QED BY <2>1, <3>1, ToldCases
    <2>2. CASE p # c /\ RoleMap[p] = "member"
      <3>1. TypesOf(Then(a, b)[p]) = {"EpochWrap"}
        BY <1>2, <1>3, <1>5, <1>6, <1>7, <2>2
      <3> QED BY <2>2, <3>1, ToldCases
    <2>3. CASE p # c /\ RoleMap[p] # "member"
      <3>1. TypesOf(Then(a, b)[p]) = {}
        BY <1>2, <1>3, <1>5, <1>6, <1>7, <2>3
      <3> QED BY <2>3, <3>1, ToldCases
    <2> QED BY <2>1, <2>2, <2>3
  <1> QED BY <1>8, <1>9

\* /accept of a join request is Accept.
LEMMA AcceptGate ==
    ASSUME KeyInv, NEW r \in DOMAIN requests, AcceptJoin(r)
    PROVE  RG!GateNext
PROOF
  <1> DEFINE c == requests[r].connection
             m == nextMemberId
             rec == Member(c, requests[r].application, epoch + 1)
             send == Then(SendTo(c, JoinAccepted(m)), Wraps(With(members, m, rec)))
             tell == [q \in Peers |-> IF q = c THEN "accepted"
                                      ELSE IF RoleMap[q] = "member" THEN "frame" ELSE "none"]
             entry == Entry(c \in DOMAIN connections /\ connections[c].verified, "Member", m)
  <1>1. /\ AtRest /\ UNCHANGED <<policy, token>> /\ state' = "EpochTransition"
        /\ connections' = With(connections, c, entry)
        /\ Emit(send, {}, {})
    BY DEF AcceptJoin, BeginEpochTransition
  <1>2. /\ c \in Peers /\ c \in Conn /\ c \in DOMAIN connections /\ RoleMap[c] = "pending"
    BY RequestPeer
  <1>3. rec.connection = c /\ m \in Nat /\ m \notin DOMAIN members
    <2>1. m \in Nat
      BY KeyTypes
    <2>2. \A x \in DOMAIN members : x < m /\ x \in Nat
      BY KeyTypes
    <2> QED BY <2>1, <2>2 DEF Member
  <1> HIDE DEF c, m, rec
  <1>4. \A p \in Peers : ToldOf(TypesOf(send[p]), p \in {}) = tell[p]
    BY <1>2, <1>3, WelcomeTold
  <1>5. tell = [p \in Peers |-> tell[p]]
    OBVIOUS
  <1>6. {} \ {HostConnection} = {} /\ {} \in SUBSET Peers
    OBVIOUS
  <1> HIDE DEF send, tell
  <1>7. LastBatch' = RG!Batch(tell, {})
    BY <1>1, <1>4, <1>5, <1>6, PlainBatch
  <1>8. \A p \in Peers : RoleOf(p)' = IF p \in {c} THEN "member" ELSE RoleOf(p)
    <2>1. /\ DOMAIN connections' = DOMAIN connections \cup {c} /\ connections'[c] = entry
          /\ \A x \in DOMAIN connections : x # c => connections'[x] = connections[x]
      BY <1>1 DEF With
    <2>2. EntryRole(entry) = "member"
      BY DEF EntryRole, Entry
    <2> HIDE DEF entry
    <2> QED BY <1>2, <2>1, <2>2 DEF RoleOf
  <1>9. RG!SetRole({c}, "member")
    BY <1>8, SetRoles
  <1>10. /\ InTransition' = TRUE /\ (~ Running)' = ~ Running /\ Running /\ ~ InTransition
    BY <1>1 DEF InTransition, Running, AtRest
  <1>11. RG!Accept(c)
    BY <1>1, <1>2, <1>7, <1>9, <1>10 DEF RG!Accept, tell
  <1> QED BY <1>2, <1>11 DEF RG!GateNext

\* /reject, and /accept of somebody the table refuses, are TurnAway.
LEMMA TurnAwayGate ==
    ASSUME KeyInv, AtRest, NEW r \in DOMAIN requests, TurnAway(r)
    PROVE  RG!GateNext
PROOF
  <1> DEFINE c == requests[r].connection
             tell == RG!TellAll({c}, "rejected")
  <1>1. /\ UNCHANGED <<policy, token, state>>
        /\ connections' = Restrict(connections, DOMAIN connections \ {c})
        /\ Emit(SendTo(c, JoinRejected), {c}, {})
    BY DEF TurnAway
  <1>2. c \in Peers /\ c \in Conn /\ RoleMap[c] = "pending"
    BY RequestPeer
  <1> HIDE DEF c
  <1>3. ASSUME NEW p \in Peers
        PROVE  ToldOf(TypesOf(SendTo(c, JoinRejected)[p]), p \in {c}) = tell[p]
    <2>1. TypesOf(SendTo(c, JoinRejected)[p]) = IF p = c THEN {JoinRejected.type} ELSE {}
      BY <1>2, SendToTold
    <2>2. TypesOf(SendTo(c, JoinRejected)[p]) = IF p = c THEN {"JoinRejected"} ELSE {}
      BY <2>1 DEF JoinRejected
    <2>3. tell[p] = IF p = c THEN "rejected" ELSE "none"
      BY DEF RG!TellAll
    <2> QED BY <2>2, <2>3, ToldCases
  <1>4. tell = [p \in Peers |-> tell[p]]
    BY DEF RG!TellAll
  <1>5. {c} \ {HostConnection} = {c} /\ {c} \in SUBSET Peers
    BY <1>2, MemberPeers
  <1> HIDE DEF tell
  <1>6. LastBatch' = RG!Batch(tell, {c})
    BY <1>1, <1>3, <1>4, <1>5, PlainBatch
  <1>7. RG!SetRole({c}, "none")
    BY <1>1, DropRoles
  <1>8. /\ InTransition' = InTransition /\ (~ Running)' = ~ Running
        /\ Running /\ ~ InTransition
    BY <1>1 DEF InTransition, Running, AtRest
  <1>9. RG!Forget({c}, tell, {c})
    BY <1>1, <1>6, <1>7, <1>8 DEF RG!Forget
  <1>10. RG!TurnAway(c)
    BY <1>2, <1>8, <1>9 DEF RG!TurnAway, tell
  <1> QED BY <1>2, <1>10 DEF RG!GateNext

\* A removal of one member by the host (/kick), or of its own accord without
\* a word (MemberLeft).
LEMMA KickGate ==
    ASSUME KeyInv, NEW m \in DOMAIN members, Kick(m) \/ MemberLeft(m)
    PROVE  RG!GateNext
PROOF
  <1> DEFINE c == members[m].connection
             S == {members[x].connection : x \in {m} \cap DOMAIN members}
  <1>1. AtRest /\ m # HostId /\ UNCHANGED <<policy, token>>
    BY DEF Kick, MemberLeft
  <1>2. Running /\ ~ InTransition
    BY <1>1 DEF AtRest, Running, InTransition
  <1>3. c \in Peers /\ RoleMap[c] = "member"
    BY <1>1, OneLeaves
  <1>4. {m} \cap DOMAIN members = {m} /\ S = {c}
    OBVIOUS
  <1>5. {c} \in SUBSET Peers /\ {} \in SUBSET Peers
    BY <1>3
  <1> HIDE DEF c, S
  <1>6. CASE Kick(m)
    <2>1. RemoveMembers({m}, {}, "MemberKicked") /\ Emit(WrapsWithout({m}), {c}, {})
      BY <1>6 DEF Kick, c
    <2>2. RG!DropMembers(S, RG!TellAll({}, "none"), {c})
      BY <1>1, <1>2, <1>4, <1>5, <2>1, WrapsGate DEF S
    <2>3. RG!Kick(c)
      BY <1>2, <1>3, <1>4, <2>2 DEF RG!Kick
    <2> QED BY <1>3, <2>3 DEF RG!GateNext
  <1>7. CASE MemberLeft(m)
    <2>1. RemoveMembers({m}, {}, "MemberLeft") /\ Emit(WrapsWithout({m}), {}, {})
      BY <1>7 DEF MemberLeft
    <2>2. RG!DropMembers(S, RG!TellAll({}, "none"), {})
      BY <1>1, <1>2, <1>4, <1>5, <2>1, WrapsGate DEF S
    <2>3. RG!Leave(c)
      BY <1>2, <1>3, <1>4, <2>2 DEF RG!Leave
    <2> QED BY <1>3, <2>3 DEF RG!GateNext
  <1> QED BY <1>6, <1>7

\* Everyone who is no member is an applicant, and the other way round.
LEMMA NonMembersApply ==
    ASSUME KeyInv
    PROVE  /\ NonMembers = RG!Applicants
           /\ NonMembers \in SUBSET Peers /\ NonMembers \ {HostConnection} = NonMembers
           /\ DOMAIN connections \ {HostConnection} = RG!Applicants \cup RG!With("member")
PROOF
  <1>1. ASSUME NEW c \in NonMembers
        PROVE  c \in Peers /\ c \in DOMAIN connections /\ connections[c].role # "Member"
    <2>1. c \in DOMAIN connections /\ connections[c].role # "Member"
      BY <1>1 DEF NonMembers, KeyInv, TablesInv, TableFacts, Agree
    <2> QED BY <2>1, ApplicantPeer
  <1>2. \A p \in Peers : /\ RoleMap[p] \in {"none", "guest", "verified", "pending", "member"}
                         /\ RoleMap[p] = "none" <=> p \notin DOMAIN connections
                         /\ RoleMap[p] = "member" <=> HasRole(p, "Member")
    BY RoleMapValue DEF RG!Role
  <1>3. \A p \in Peers : p \in RG!Applicants <=> RoleMap[p] \notin {"none", "member"}
    BY <1>2 DEF RG!Applicants, RG!With
  <1>4. RG!Applicants \subseteq Peers
    BY DEF RG!Applicants, RG!With
  <1>5. NonMembers = RG!Applicants
    <2>1. \A c \in NonMembers : c \in RG!Applicants
      BY <1>1, <1>2, <1>3 DEF HasRole
    <2>2. \A c \in RG!Applicants : c \in DOMAIN connections /\ connections[c].role # "Member"
      BY <1>2, <1>3, <1>4 DEF HasRole
    <2>3. \A c \in RG!Applicants : c \in NonMembers
      BY <2>2 DEF NonMembers
    <2> QED BY <2>1, <2>3
  <1>6. \A c \in DOMAIN connections : c # HostConnection => c \in Peers
    <2>1. DOMAIN connections \subseteq Conn
      BY DEF KeyInv, TablesInv, TypeOK, IsMap
    <2> QED BY <2>1, BoundsAssumption DEF Conn, HostConnection, Peers
  <1>7. \A p \in Peers : p \in RG!With("member") <=> RoleMap[p] = "member"
    BY DEF RG!With
  <1>8. RG!With("member") \subseteq Peers /\ HostConnection \notin Peers
    BY MemberPeers DEF RG!With
  <1>9. DOMAIN connections \ {HostConnection} = RG!Applicants \cup RG!With("member")
    BY <1>2, <1>3, <1>4, <1>6, <1>7, <1>8
  <1> QED BY <1>1, <1>5, <1>8, <1>9

\* The one notice of an invitation, or of a policy, is what the batch carries.
LEMMA OneNotice ==
    /\ \A n : n.type = "InvitationRotated" => TokenOf({n}) = n.token /\ PolicyOf({n}) = "same"
    /\ \A n : n.type = "JoinPolicyChanged" => TokenOf({n}) = 0 /\ PolicyOf({n}) = n.policy
PROOF
  <1>1. \A n : (CHOOSE x \in {n} : TRUE) = n
    OBVIOUS
  <1>2. ASSUME NEW n, n.type = "InvitationRotated"
        PROVE  TokenOf({n}) = n.token /\ PolicyOf({n}) = "same"
    <2>1. {x \in {n} : x.type = "InvitationRotated"} = {n}
      BY <1>2
    <2>2. {x \in {n} : x.type = "JoinPolicyChanged"} = {}
      BY <1>2
    <2> QED BY <1>1, <2>1, <2>2 DEF TokenOf, PolicyOf
  <1>3. ASSUME NEW n, n.type = "JoinPolicyChanged"
        PROVE  TokenOf({n}) = 0 /\ PolicyOf({n}) = n.policy
    <2>1. {x \in {n} : x.type = "JoinPolicyChanged"} = {n}
      BY <1>3
    <2>2. {x \in {n} : x.type = "InvitationRotated"} = {}
      BY <1>3
    <2> QED BY <1>1, <2>1, <2>2 DEF TokenOf, PolicyOf
  <1> QED BY <1>2, <1>3

\* A batch with a notice, from what each peer is told.
LEMMA NoticeBatch ==
    ASSUME NEW send, NEW close, NEW notices, Emit(send, close, notices),
           NEW tell, NEW shut, close \ {HostConnection} = shut,
           \A p \in Peers : ToldOf(TypesOf(send[p]), p \in close) = tell[p],
           tell = [p \in Peers |-> tell[p]]
    PROVE  LastBatch' = [tell |-> tell, close |-> shut,
                         token |-> TokenOf(notices), policy |-> PolicyOf(notices)]
PROOF
  <1>1. [p \in Peers |-> ToldOf(TypesOf(send[p]), p \in close)] = tell
    BY Zenon
  <1>2. LastBatch' = BatchOf(send, close, notices)
    BY EmittedBatch
  <1> QED BY <1>1, <1>2, Zenon DEF BatchOf

\* /newid is NewId: every applicant is closed, and the new invitation announced.
LEMMA NewIdGate ==
    ASSUME KeyInv, NewId
    PROVE  RG!GateNext
PROOF
  <1> DEFINE notice == [type |-> "InvitationRotated", token |-> token + 1]
             tell == RG!TellAll({}, "none")
             out == NonMembers
  <1>1. /\ AtRest /\ token' = token + 1 /\ UNCHANGED <<policy, state>>
        /\ connections' = Restrict(connections, DOMAIN connections \ out)
        /\ Emit(Silence, out, {notice})
    BY DEF NewId, DropNonMembers
  <1>2. out = RG!Applicants /\ out \ {HostConnection} = out
    BY NonMembersApply
  <1>3. TokenOf({notice}) = token + 1 /\ PolicyOf({notice}) = "same"
    <2>1. notice.type = "InvitationRotated" /\ notice.token = token + 1
      OBVIOUS
    <2> HIDE DEF notice
    <2> QED BY <2>1, OneNotice
  <1>4. tell = [p \in Peers |-> tell[p]] /\ \A p \in Peers : tell[p] = "none"
    BY DEF RG!TellAll
  <1> HIDE DEF notice, tell, out
  <1>5. ASSUME NEW p \in Peers
        PROVE  ToldOf(TypesOf(Silence[p]), p \in out) = tell[p]
    <2>1. TypesOf(Silence[p]) = {}
      BY SilenceTold
    <2> QED BY <1>4, <2>1, ToldCases
  <1>6. LastBatch' = [tell |-> tell, close |-> out, token |-> token + 1, policy |-> "same"]
    <2>1. LastBatch' = [tell |-> tell, close |-> out,
                        token |-> TokenOf({notice}), policy |-> PolicyOf({notice})]
      BY <1>1, <1>2, <1>4, <1>5, NoticeBatch
    <2> QED BY <1>3, <2>1
  <1>7. LastBatch' = [RG!Batch(tell, out) EXCEPT !.token = token + 1]
    BY <1>6 DEF RG!Batch
  <1>8. RG!SetRole(out, "none")
    BY <1>1, DropRoles
  <1>9. /\ InTransition' = InTransition /\ (~ Running)' = ~ Running
        /\ Running /\ ~ InTransition
    BY <1>1 DEF InTransition, Running, AtRest
  <1>10. RG!NewId
    <2>1. LastBatch' = [RG!Batch(RG!TellAll({}, "none"), RG!Applicants) EXCEPT !.token = token + 1]
      BY <1>2, <1>7 DEF tell
    <2>2. RG!SetRole(RG!Applicants, "none")
      BY <1>2, <1>8
    <2> QED BY <1>1, <1>9, <2>1, <2>2 DEF RG!NewId
  <1> QED BY <1>10 DEF RG!GateNext

\* /reqon and /reqoff are SetPolicy: every member is told, and a locked room
\* closes every applicant.
LEMMA PolicyGate ==
    ASSUME KeyInv, NEW pol \in {"Open", "Locked"}, SetPolicy(pol)
    PROVE  RG!GateNext
PROOF
  <1> DEFINE event == [type |-> "JoinPolicyChanged", sequence |-> roomSequence + 1,
                       epoch |-> epoch, open |-> pol = "Open"]
             notice == [type |-> "JoinPolicyChanged", policy |-> pol]
             send == SendAll(ConnectionsOf(members) \ {HostConnection}, event)
             out == IF pol = "Locked" THEN NonMembers ELSE {}
             tell == RG!TellAll(RG!With("member"), "frame")
  <1>1. /\ AtRest /\ policy' = pol /\ state' = pol /\ UNCHANGED token
        /\ Emit(send, out, {notice})
    BY DEF SetPolicy
  <1>2. IF pol = "Locked"
        THEN connections' = Restrict(connections, DOMAIN connections \ NonMembers)
        ELSE connections' = connections
    BY DEF SetPolicy, DropNonMembers
  <1>3. /\ out = IF pol = "Locked" THEN RG!Applicants ELSE {}
        /\ out \ {HostConnection} = out
    BY NonMembersApply
  <1>4. RG!SetRole(out, "none")
    <2>1. CASE pol = "Locked"
      <3>1. connections' = Restrict(connections, DOMAIN connections \ NonMembers)
        BY <1>2, <2>1
      <3>2. RG!SetRole(NonMembers, "none")
        BY <3>1, DropRoles
      <3> QED BY <2>1, <3>2
    <2>2. CASE pol # "Locked"
      <3>1. RoleMap' = RoleMap /\ out = {}
        BY <1>2, <2>2, SameRoles
      <3>2. RoleMap = [p \in Peers |-> RoleMap[p]]
        BY DEF RoleMap
      <3>3. RoleMap' = [p \in Peers |-> IF p \in {} THEN "none" ELSE RoleMap[p]]
        BY <3>1, <3>2
      <3> QED BY <3>1, <3>3 DEF RG!SetRole
    <2> QED BY <2>1, <2>2
  <1>5. /\ TokenOf({notice}) = 0 /\ PolicyOf({notice}) = pol
        /\ event.type = "JoinPolicyChanged"
    <2>1. /\ notice.type = "JoinPolicyChanged" /\ notice.policy = pol
          /\ event.type = "JoinPolicyChanged"
      OBVIOUS
    <2> HIDE DEF notice, event
    <2> QED BY <2>1, OneNotice
  <1>6. /\ tell = [p \in Peers |-> tell[p]]
        /\ \A p \in Peers : tell[p] = IF RoleMap[p] = "member" THEN "frame" ELSE "none"
    BY DEF RG!TellAll, RG!With
  <1> HIDE DEF notice, tell, out, event
  <1>7. ASSUME NEW p \in Peers
        PROVE  ToldOf(TypesOf(send[p]), p \in out) = tell[p]
    <2>1. TypesOf(send[p]) = IF p \in ConnectionsOf(members) \ {HostConnection}
                             THEN {event.type} ELSE {}
      BY SendAllTold
    <2>2. TypesOf(send[p]) = IF RoleMap[p] = "member" THEN {"JoinPolicyChanged"} ELSE {}
      BY <1>5, <2>1, MemberPeers
    <2> HIDE DEF send
    <2> QED BY <1>6, <2>2, ToldCases
  <1> HIDE DEF send
  <1>8. LastBatch' = [tell |-> tell, close |-> out,
                      token |-> TokenOf({notice}), policy |-> PolicyOf({notice})]
    BY <1>1, <1>3, <1>6, <1>7, NoticeBatch
  <1>9. LastBatch' = [RG!Batch(tell, out) EXCEPT !.policy = pol]
    BY <1>5, <1>8 DEF RG!Batch
  <1>10. /\ InTransition' = InTransition /\ (~ Running)' = ~ Running
         /\ Running /\ ~ InTransition
    BY <1>1 DEF InTransition, Running, AtRest
  <1>11. RG!SetPolicy(pol)
    BY <1>1, <1>3, <1>4, <1>9, <1>10, Zenon DEF RG!SetPolicy, tell
  <1> QED BY <1>11 DEF RG!GateNext

\* close_room is Close: everyone registered is told to shut down.
LEMMA CloseGate ==
    ASSUME KeyInv, Running, CloseRoom
    PROVE  RG!GateNext
PROOF
  <1> DEFINE notice == [type |-> "RoomClosed"]
             all == RG!Applicants \cup RG!With("member")
             send == SendAll(DOMAIN connections, Shutdown)
             close == DOMAIN connections
             tell == RG!TellAll(all, "shutdown")
  <1>1. /\ state' = "Destroyed" /\ UNCHANGED <<policy, token, connections>>
        /\ Emit(send, close, {notice})
    BY DEF CloseRoom
  <1>2. close \ {HostConnection} = all
    BY NonMembersApply
  <1>3. \A p \in Peers : p \in close <=> p \in all
    BY <1>2, MemberPeers
  <1>4. all \in SUBSET Peers
    BY DEF RG!Applicants, RG!With
  <1>5. \A n \in {notice} : n.type \notin {"InvitationRotated", "JoinPolicyChanged"}
    OBVIOUS
  <1>6. /\ tell = [p \in Peers |-> tell[p]]
        /\ \A p \in Peers : tell[p] = IF p \in all THEN "shutdown" ELSE "none"
    BY DEF RG!TellAll
  <1> HIDE DEF notice, tell, all
  <1>7. ASSUME NEW p \in Peers
        PROVE  ToldOf(TypesOf(send[p]), p \in close) = tell[p]
    <2>1. TypesOf(send[p]) = IF p \in close THEN {Shutdown.type} ELSE {}
      BY SendAllTold
    <2>2. TypesOf(send[p]) = IF p \in all THEN {"Shutdown"} ELSE {}
      BY <1>3, <2>1 DEF Shutdown
    <2> HIDE DEF send, close
    <2> QED BY <1>6, <2>2, ToldCases
  <1> HIDE DEF send, close
  <1>8. LastBatch' = RG!Batch(tell, all)
    BY <1>1, <1>2, <1>4, <1>5, <1>6, <1>7, PlainBatch
  <1>9. RoleMap' = RoleMap /\ InTransition' = FALSE /\ (~ Running)' = TRUE
    BY <1>1, SameRoles DEF InTransition, Running
  <1>10. RG!Close
    BY <1>1, <1>8, <1>9 DEF RG!Close, tell, all
  <1> QED BY <1>10 DEF RG!GateNext

\* The host's commands.
LEMMA HostGate ==
    ASSUME KeyInv, HostEvent
    PROVE  RG!GateNext
PROOF
  <1>1. ASSUME NEW r \in DOMAIN requests, AcceptJoin(r) \/ AcceptRefused(r) \/ RejectJoin(r)
        PROVE  RG!GateNext
    BY <1>1, AcceptGate, TurnAwayGate DEF AcceptRefused, RejectJoin
  <1>2. ASSUME NEW r \in DOMAIN timeoutRequests, NEW accepted \in BOOLEAN,
               DecideTimeoutRequest(r, accepted)
        PROVE  RG!GateNext
    <2> DEFINE notices == IF accepted
                THEN {[type |-> "TimeoutRequestAccepted", seconds |-> timeoutRequests[r].seconds]}
                ELSE {}
    <2>1. UNCHANGED <<connections, policy, token, state>> /\ Emit(Silence, {}, notices)
      BY <1>2 DEF DecideTimeoutRequest
    <2>2. \A n \in notices : n.type \notin {"InvitationRotated", "JoinPolicyChanged"}
      OBVIOUS
    <2> HIDE DEF notices
    <2> QED BY <2>1, <2>2, SilentGate
  <1>3. CASE CloseRequested
    BY <1>3, CloseGate DEF CloseRequested
  <1> QED BY <1>1, <1>2, <1>3, KickGate, NewIdGate, PolicyGate DEF HostEvent

\* Members who leave, and connections that are lost.
LEMMA DepartureGate ==
    ASSUME KeyInv, DepartureEvent
    PROVE  RG!GateNext
PROOF
  <1>1. ASSUME NEW c \in Known, ConnectionLost(c)
        PROVE  RG!GateNext
    <2> DEFINE tell == RG!TellAll({}, "none")
    <2>1. Running /\ LoseConnection(c, Silence, {}) /\ {} \in SUBSET Peers
      BY <1>1 DEF ConnectionLost
    <2>2. tell = [p \in Peers |-> tell[p]] /\ \A p \in Peers : tell[p] = "none"
      BY DEF RG!TellAll
    <2>3. Sendable(Silence)
      BY SendTypes DEF Sendable
    <2> HIDE DEF tell
    <2>4. \A p \in Peers : TypesOf(Silence[p]) = {}
      BY SilenceTold
    <2>5. ASSUME NEW p \in Peers
          PROVE  ToldOf(TypesOf(Silence[p]), p \in {}) = tell[p]
      BY <2>2, <2>4, ToldCases
    <2>6. RG!Lose(c, tell, {})
      BY <2>1, <2>2, <2>3, <2>4, <2>5, LoseGate
    <2>7. RG!Lost(c)
      BY <2>1, <2>6 DEF RG!Lost, tell
    <2>8. c \in Peers
      BY KnownPeer
    <2> QED BY <2>7, <2>8 DEF RG!GateNext
  <1>2. ASSUME NEW c \in Known, Leave(c)
        PROVE  RG!GateNext
    <2> DEFINE first == SendTo(c, Shutdown)
    <2>1. /\ AtRest /\ RegisteredMember(c) # {} /\ RegisteredMember(c) \subseteq DOMAIN members
          /\ RemoveMembers(RegisteredMember(c), {}, "MemberLeft") /\ UNCHANGED <<policy, token>>
          /\ Emit(Then(WrapsWithout(RegisteredMember(c)), first), {c}, {})
      BY <1>2 DEF Leave
    <2>2. PICK m : RegisteredMember(c) = {m}
      BY <2>1 DEF RegisteredMember
    <2>3. /\ m \in DOMAIN members /\ m # HostId /\ members[m].connection = c
          /\ c \in Peers /\ c \in Conn
      BY <2>1, <2>2, KnownPeer, Registered DEF KeyInv
    <2>4. Running /\ ~ InTransition /\ RoleMap[c] = "member"
      BY <2>1, <2>3, OneLeaves DEF AtRest, Running, InTransition
    <2>5. Sendable(first) /\ Shutdown.type = "Shutdown"
      BY <2>3, MessageTypes, SendTypes DEF Shutdown, Sendable
    <2>6. ASSUME NEW p \in Peers
          PROVE  TypesOf(first[p]) = IF p = c THEN {"Shutdown"} ELSE {}
      <3>1. TypesOf(SendTo(c, Shutdown)[p]) = IF p = c THEN {Shutdown.type} ELSE {}
        BY <2>3, SendToTold
      <3> QED BY <2>5, <3>1
    <2> HIDE DEF first
    <2>7. ToldOf(TypesOf(first[c]), c \in {c}) = "shutdown"
      BY <2>3, <2>6, ToldCases
    <2>8. RG!DropMembers({c}, RG!TellAll({c}, "shutdown"), {c})
      <3>1. /\ RemoveMembers({m}, {}, "MemberLeft")
            /\ Emit(Then(WrapsWithout({m}), first), {c}, {})
        BY <2>1, <2>2, Zenon
      <3>2. PICK send : send = Then(WrapsWithout({m}), first)
        OBVIOUS
      <3>3. Emit(send, {c}, {}) /\ UNCHANGED <<policy, token>>
        BY <2>1, <3>1, <3>2, Zenon
      <3>4. /\ \A p \in Peers : p # c => TypesOf(first[p]) = {}
            /\ c = members[m].connection /\ "shutdown" # "none"
        BY <2>3, <2>6
      <3> QED BY <2>3, <2>4, <2>5, <2>7, <3>1, <3>2, <3>3, <3>4, TellLeaverGate
    <2>9. RG!Leave(c)
      BY <2>4, <2>8 DEF RG!Leave
    <2> QED BY <2>3, <2>9 DEF RG!GateNext
  <1>3. ASSUME NEW c \in Known, MemberCommandRefused(c)
        PROVE  RG!GateNext
    <2>1. Running /\ Punish(c, "ProtocolViolation")
      BY <1>3 DEF MemberCommandRefused, AtRest, Running
    <2> QED BY <2>1, PunishGate
  <1>4. ASSUME NEW c, NEW color, ColorCommand(c, color)
        PROVE  RG!GateNext
    BY <1>4, SilentGate DEF ColorCommand
  <1> QED BY <1>1, <1>2, <1>3, <1>4, KickGate DEF DepartureEvent

\* The last acknowledgement sends out what was held back: frames only.
LEMMA ActivationTold ==
    ASSUME KeyInv, NEW p \in Peers
    PROVE  ToldOf(TypesOf(pendingMembership[p]), p \in {})
              = IF pendingMembership[p] # <<>> THEN "frame" ELSE "none"
PROOF
  <1> DEFINE s == pendingMembership[p]
  <1>1. s \in Seq(RoomEvent)
    BY SilenceTold DEF KeyInv, TablesInv, TypeOK
  <1> HIDE DEF s
  <1>2. \A i \in DOMAIN s : s[i] \in RoomEvent
    BY <1>1
  <1>3. \A x \in RoomEvent : x.type \in {"MemberJoined", "MemberLeft", "MemberKicked",
                                         "MemberSnapshot", "JoinPolicyChanged"}
    BY DEF RoomEvent
  <1>4. \A t \in TypesOf(s) : t \in {"MemberJoined", "MemberLeft", "MemberKicked",
                                     "MemberSnapshot", "JoinPolicyChanged"}
    BY <1>2, <1>3 DEF TypesOf
  <1>5. CASE s = <<>>
    <2>1. TypesOf(s) = {}
      BY <1>5, TypesOfMessages
    <2>2. ToldOf(TypesOf(s), p \in {}) = "none"
      BY <2>1, ToldCases
    <2> QED BY <1>5, <2>2 DEF s
  <1>6. CASE s # <<>>
    <2>1. 1 \in DOMAIN s
      BY <1>1, <1>6
    <2>2. s[1].type \in TypesOf(s)
      BY <2>1 DEF TypesOf
    <2>3. TypesOf(s) # {}
      BY <2>2
    <2>4. ToldOf(TypesOf(s), p \in {}) = "frame"
      BY <1>4, <2>3 DEF ToldOf
    <2> QED BY <1>6, <2>4 DEF s
  <1> QED BY <1>5, <1>6

\* Acknowledgements, the deadline and the clock.
LEMMA EpochGate ==
    ASSUME KeyInv, EpochEvent
    PROVE  RG!GateNext
PROOF
  <1>1. ASSUME NEW c, NEW e, EpochAck(c, e)
        PROVE  RG!GateNext
    <2>1. InTransition /\ UNCHANGED <<connections, policy, token>>
      BY <1>1 DEF EpochAck
    <2>2. CASE Emit(Silence, {}, {}) /\ UNCHANGED state
      BY <2>1, <2>2, SilentGate
    <2>3. CASE Emit(pendingMembership, {}, Rebroadcast) /\ state' = RestState
      <3> DEFINE S == {p \in Peers : pendingMembership[p] # <<>>}
                 tell == RG!TellAll(S, "frame")
      <3>1. \A n \in Rebroadcast : n.type \notin {"InvitationRotated", "JoinPolicyChanged"}
        BY DEF Rebroadcast
      <3>2. /\ tell = [p \in Peers |-> tell[p]]
            /\ \A p \in Peers : tell[p] = IF pendingMembership[p] # <<>> THEN "frame" ELSE "none"
        BY DEF RG!TellAll
      <3> HIDE DEF tell
      <3>3. \A p \in Peers : ToldOf(TypesOf(pendingMembership[p]), p \in {}) = tell[p]
        BY <3>2, ActivationTold
      <3>4. {} \ {HostConnection} = {} /\ {} \in SUBSET Peers
        OBVIOUS
      <3>5. LastBatch' = RG!Batch(tell, {})
        BY <2>3, <3>1, <3>2, <3>3, <3>4, PlainBatch
      <3>6. /\ RoleMap' = RoleMap /\ InTransition' = FALSE /\ (~ Running)' = ~ Running /\ Running
        BY <2>1, <2>3, SameRoles DEF InTransition, Running, RestState
      <3>7. RG!Activate(S)
        BY <2>1, <3>5, <3>6 DEF RG!Activate, tell
      <3>8. S \in SUBSET Peers
        OBVIOUS
      <3> HIDE DEF S
      <3> QED BY <3>7, <3>8 DEF RG!GateNext
    <2> QED BY <1>1, <2>2, <2>3 DEF EpochAck
  <1>2. ASSUME NEW c, NEW e, EpochAckIgnored(c, e)
        PROVE  RG!GateNext
    BY <1>2, NoEffectGate DEF EpochAckIgnored
  <1>3. CASE DroppedInTransition
    BY <1>3, NoEffectGate DEF DroppedInTransition
  <1>4. CASE EpochTimeout
    <2> DEFINE late == pendingEpoch.awaiting
               S == {members[m].connection : m \in late \cap DOMAIN members}
    <2>1. InTransition /\ Running
      BY <1>4 DEF EpochTimeout, Expired, InTransition, Running
    <2>2. CASE CloseRoom
      BY <2>1, <2>2, CloseGate
    <2>3. CASE /\ HostId \notin late
               /\ RemoveMembers(late \cap DOMAIN members, {}, "MemberLeft")
               /\ Emit(WrapsWithout(late), S, {})
               /\ UNCHANGED <<policy, token>>
      <3>1. \A p \in S : p \in Peers /\ RoleMap[p] = "member"
        <4>1. \A m \in late \cap DOMAIN members :
                 members[m].connection \in Peers /\ RoleMap[members[m].connection] = "member"
          BY <2>3, OneLeaves
        <4> QED BY <4>1
      <3>2. S \in SUBSET Peers
        BY <3>1
      <3> DEFINE out == S
      <3>3. RG!DropMembers(out, RG!TellAll({}, "none"), out)
        <4>1. out = {members[m].connection : m \in late \cap DOMAIN members} /\ out \in SUBSET Peers
          BY <3>2
        <4> HIDE DEF out, late
        <4> QED BY <2>1, <2>3, <4>1, WrapsGate
      <3>4. RG!With("member") = {p \in Peers : RoleMap[p] = "member"}
        BY DEF RG!With
      <3> HIDE DEF out, late, S
      <3>5. out \subseteq RG!With("member")
        BY <3>1, <3>4 DEF out
      <3>6. RG!Evict(out)
        BY <2>1, <3>3, <3>5 DEF RG!Evict
      <3> QED BY <3>2, <3>6 DEF RG!GateNext, out
    <2> QED BY <1>4, <2>2, <2>3 DEF EpochTimeout
  <1>5. CASE Tick
    BY <1>5, SilentGate DEF Tick
  <1> QED BY <1>1, <1>2, <1>3, <1>4, <1>5 DEF EpochEvent

\* A word to one peer, or to nobody, that changes nothing.
LEMMA WordGate ==
    ASSUME UNCHANGED <<connections, policy, token, state>>,
           NEW c \in Conn, NEW code, NEW mute \in BOOLEAN,
           Emit(IF mute THEN Silence ELSE SendTo(c, Error(code)), {}, {})
    PROVE  RG!GateNext
PROOF
  <1>1. CASE mute
    <2>1. Emit(Silence, {}, {})
      BY <1>1
    <2> QED BY <2>1, SilentGate
  <1>2. CASE ~ mute
    <2> DEFINE send == SendTo(c, Error(code))
               S == {c} \cap Peers
    <2>1. Emit(send, {}, {})
      BY <1>2
    <2>2. S \in SUBSET Peers /\ \A p \in Peers : p \in S <=> p = c
      OBVIOUS
    <2>3. ASSUME NEW p \in Peers
          PROVE  TypesOf(send[p]) = IF p = c THEN {"Error"} ELSE {}
      <3>1. TypesOf(SendTo(c, Error(code))[p]) = IF p = c THEN {Error(code).type} ELSE {}
        BY SendToTold
      <3> QED BY <3>1 DEF Error
    <2> HIDE DEF send, S
    <2>4. ASSUME NEW p \in Peers
          PROVE  ToldOf(TypesOf(send[p]), p \in {}) = IF p \in S THEN "frame" ELSE "none"
      BY <2>2, <2>3, ToldCases
    <2>5. \A n \in {} : n.type \notin {"InvitationRotated", "JoinPolicyChanged"}
      OBVIOUS
    <2> QED BY <2>1, <2>2, <2>4, <2>5, QuietGate
  <1> QED BY <1>1, <1>2

\* A flooding member is expelled.
LEMMA AbuseGate ==
    ASSUME KeyInv, NEW c \in Known \cup {HostConnection}, NEW env, ChatAbusive(c, env)
    PROVE  RG!GateNext
PROOF
  <1> DEFINE m == env.sender
             first == SendTo(c, Error("RateLimited"))
  <1>1. /\ Running /\ RegisteredMember(c) = {m} /\ m \in DOMAIN members /\ m # HostId
        /\ RemoveMembers({m}, {}, "MemberKicked") /\ UNCHANGED <<policy, token>>
        /\ Emit(Then(first, WrapsWithout({m})), {c}, {})
    BY DEF ChatAbusive, Sender, ChatAllowed
  <1> HIDE DEF m
  <1>2. c = members[m].connection
    BY <1>1, Registered DEF KeyInv
  <1>3. c \in Peers /\ c \in Conn /\ RoleMap[c] = "member"
    BY <1>1, <1>2, OneLeaves
  <1>4. Sendable(first) /\ Error("RateLimited").type = "Error"
    BY <1>3, MessageTypes, SendTypes DEF Error, Sendable
  <1>5. ASSUME NEW p \in Peers
        PROVE  TypesOf(first[p]) = IF p = c THEN {"Error"} ELSE {}
    <2>1. TypesOf(SendTo(c, Error("RateLimited"))[p])
             = IF p = c THEN {Error("RateLimited").type} ELSE {}
      BY <1>3, SendToTold
    <2> QED BY <1>4, <2>1
  <1> HIDE DEF first
  <1>6. ToldOf(TypesOf(first[c]), c \in {c}) = "error"
    BY <1>3, <1>5, ToldCases
  <1>7. RG!DropMembers({c}, RG!TellAll({c}, "error"), {c})
    <2>1. PICK send : send = Then(first, WrapsWithout({m}))
      OBVIOUS
    <2>2. Emit(send, {c}, {}) /\ \A p \in Peers : p # c => TypesOf(first[p]) = {}
      BY <1>1, <1>5, <2>1
    <2> QED BY <1>1, <1>2, <1>4, <1>6, <2>1, <2>2, TellLeaverGate
  <1>8. RG!Expel(c)
    BY <1>1, <1>3, <1>7 DEF RG!Expel
  <1> QED BY <1>3, <1>8 DEF RG!GateNext

\* The relay: frames to every other member.
LEMMA RelayGate ==
    ASSUME KeyInv, NEW c, NEW env, ChatRelayed(c, env)
    PROVE  RG!GateNext
PROOF
  <1> DEFINE send == SendAll(Recipients(c), Relay(env))
             S == Recipients(c) \ {HostConnection}
  <1>1. UNCHANGED <<connections, policy, token, state>> /\ Emit(send, {}, {})
    BY DEF ChatRelayed
  <1>2. S \in SUBSET Peers
    <2>1. ConnectionsOf(members) \subseteq Conn
      BY MemberPeers DEF ConnectionsOf
    <2> QED BY <2>1, BoundsAssumption DEF Recipients, Conn, HostConnection, Peers
  <1>3. ASSUME NEW p \in Peers
        PROVE  TypesOf(send[p]) = IF p \in S THEN {"Relay"} ELSE {}
    <2>1. TypesOf(SendAll(Recipients(c), Relay(env))[p])
             = IF p \in Recipients(c) THEN {Relay(env).type} ELSE {}
      BY SendAllTold
    <2> QED BY <2>1, MemberPeers DEF Relay
  <1> HIDE DEF send, S
  <1>4. ASSUME NEW p \in Peers
        PROVE  ToldOf(TypesOf(send[p]), p \in {}) = IF p \in S THEN "frame" ELSE "none"
    BY <1>3, ToldCases
  <1> QED BY <1>1, <1>2, <1>4, QuietGate

\* Encrypted messages.
LEMMA ChatGate ==
    ASSUME KeyInv, ChatEvent
    PROVE  RG!GateNext
PROOF
  <1>1. PICK c \in Known \cup {HostConnection} :
           \/ ChatDuringTransition(c)
           \/ \E env \in Envelopes(c) :
                 \/ ChatUnauthorised(c, env) \/ ChatRateLimited(c, env) \/ ChatAbusive(c, env)
                 \/ ChatRefused(c, env) \/ ChatRelayed(c, env) \/ TimeoutRequested(c, env)
    BY DEF ChatEvent
  <1>2. c \in Conn /\ (c # HostConnection => c \in Known)
    BY <1>1, KnownPeer, BoundsAssumption DEF Conn, HostConnection
  <1>3. CASE ChatDuringTransition(c)
    <2>1. PICK mute \in BOOLEAN : mute <=> c = HostConnection
      OBVIOUS
    <2>2. /\ UNCHANGED <<connections, policy, token, state>>
          /\ Emit(IF mute THEN Silence ELSE SendTo(c, Error("RateLimited")), {}, {})
      BY <1>3, <2>1 DEF ChatDuringTransition
    <2> QED BY <1>2, <2>1, <2>2, WordGate
  <1>4. ASSUME NEW env, ChatUnauthorised(c, env)
        PROVE  RG!GateNext
    <2>1. Running /\ c # HostConnection /\ Punish(c, "ProtocolViolation")
      BY <1>4 DEF ChatUnauthorised, ChatAllowed
    <2> QED BY <1>2, <2>1, PunishGate
  <1>5. ASSUME NEW env, ChatRateLimited(c, env)
        PROVE  RG!GateNext
    <2>1. PICK mute \in BOOLEAN : mute <=> Abusive(env.sender)
      OBVIOUS
    <2>2. /\ UNCHANGED <<connections, policy, token, state>>
          /\ Emit(IF mute THEN Silence ELSE SendTo(c, Error("RateLimited")), {}, {})
      BY <1>5, <2>1 DEF ChatRateLimited
    <2> QED BY <1>2, <2>1, <2>2, WordGate
  <1>6. ASSUME NEW env, ChatRefused(c, env)
        PROVE  RG!GateNext
    <2>1. CASE c # HostConnection /\ Punish(c, "ProtocolViolation")
      <3>1. Running
        BY <1>6 DEF ChatRefused, Sender, ChatAllowed
      <3> QED BY <1>2, <2>1, <3>1, PunishGate
    <2>2. CASE Emit(Silence, {}, {}) /\ UNCHANGED <<connections, policy, token, state>>
      BY <2>2, SilentGate
    <2> QED BY <1>6, <2>1, <2>2 DEF ChatRefused
  <1>7. ASSUME NEW env, TimeoutRequested(c, env)
        PROVE  RG!GateNext
    BY <1>7, SilentGate DEF TimeoutRequested
  <1> QED BY <1>1, <1>3, <1>4, <1>5, <1>6, <1>7, AbuseGate, RelayGate

\* Events after the room is destroyed.
LEMMA ClosedGate ==
    ASSUME KeyInv, NEW c \in Known, RoomClosed(c)
    PROVE  RG!GateNext
PROOF
  <1> DEFINE tell == RG!TellAll({c}, "error")
             send == SendTo(c, Error("RoomClosed"))
  <1>1. /\ ~ Running /\ UNCHANGED <<connections, policy, token, state>> /\ Emit(send, {c}, {})
    BY DEF RoomClosed
  <1>2. c \in Peers /\ c \in Conn /\ {c} \in SUBSET Peers /\ {c} \ {HostConnection} = {c}
    BY KnownPeer
  <1>3. ASSUME NEW p \in Peers
        PROVE  TypesOf(send[p]) = IF p = c THEN {"Error"} ELSE {}
    <2>1. TypesOf(SendTo(c, Error("RoomClosed"))[p])
             = IF p = c THEN {Error("RoomClosed").type} ELSE {}
      BY <1>2, SendToTold
    <2> QED BY <2>1 DEF Error
  <1>4. /\ tell = [p \in Peers |-> tell[p]]
        /\ \A p \in Peers : tell[p] = IF p \in {c} THEN "error" ELSE "none"
    BY DEF RG!TellAll
  <1> HIDE DEF tell, send
  <1>5. ASSUME NEW p \in Peers
        PROVE  ToldOf(TypesOf(send[p]), p \in {c}) = tell[p]
    BY <1>3, <1>4, ToldCases
  <1>6. LastBatch' = RG!Batch(tell, {c})
    BY <1>1, <1>2, <1>4, <1>5, PlainBatch
  <1>7. RoleMap' = RoleMap /\ InTransition' = InTransition /\ (~ Running)' = ~ Running
    BY <1>1, SameRoles DEF InTransition, Running
  <1>8. RG!AfterClose(c)
    BY <1>1, <1>6, <1>7 DEF RG!AfterClose, tell
  <1> QED BY <1>2, <1>8 DEF RG!GateNext

\* start() shows the supervisor a room with nobody in it and one invitation.
LEMMA GateStart ==
    ASSUME Init
    PROVE  RG!GateInit
PROOF
  <1> DEFINE send == SendTo(HostConnection, EpochWrap(1))
             notice == [type |-> "InvitationRotated", token |-> 1]
             none == RG!TellAll({}, "none")
  <1>1. /\ state = "EpochTransition" /\ policy = "Open" /\ token = 1
        /\ outgoing.send = send /\ outgoing.close = {} /\ outgoing.notices = {notice}
        /\ DOMAIN connections = {HostConnection}
    BY DEF Init, With, Empty
  <1>2. HostConnection \in Conn /\ HostConnection \notin Peers
    BY BoundsAssumption DEF HostConnection, Conn, Peers
  <1>3. RoleMap = [p \in Peers |-> "none"]
    BY <1>1, <1>2 DEF RoleMap, RoleOf
  <1>4. TokenOf({notice}) = 1 /\ PolicyOf({notice}) = "same"
    <2>1. notice.type = "InvitationRotated" /\ notice.token = 1
      OBVIOUS
    <2> HIDE DEF notice
    <2> QED BY <2>1, OneNotice
  <1> HIDE DEF notice
  <1>5. ASSUME NEW p \in Peers
        PROVE  TypesOf(send[p]) = {}
    <2>1. TypesOf(SendTo(HostConnection, EpochWrap(1))[p])
             = IF p = HostConnection THEN {EpochWrap(1).type} ELSE {}
      BY <1>2, SendToTold
    <2> QED BY <1>2, <2>1
  <1> HIDE DEF send
  <1>6. ASSUME NEW p \in Peers
        PROVE  ToldOf(TypesOf(send[p]), p \in {}) = "none"
    BY <1>5, ToldCases
  <1>7. [p \in Peers |-> ToldOf(TypesOf(send[p]), p \in {})] = none
    BY <1>6, Zenon DEF RG!TellAll
  <1>8. {} \ {HostConnection} = {}
    OBVIOUS
  <1> HIDE DEF none
  <1>9. LastBatch = [tell |-> none, close |-> {}, token |-> 1, policy |-> "same"]
    <2>1. LastBatch = BatchOf(send, {}, {notice})
      BY <1>1 DEF LastBatch
    <2> QED BY <1>4, <1>7, <1>8, <2>1, Zenon DEF BatchOf
  <1>10. LastBatch = [RG!NoBatch EXCEPT !.token = 1]
    BY <1>9 DEF RG!NoBatch, RG!Batch, none
  <1> QED BY <1>1, <1>3, <1>10 DEF RG!GateInit, InTransition, Running

\* The actor implements the gate that the supervisor is checked against: every
\* event, chat included, does to a connection and tells it only what RoomGate
\* allows.
THEOREM GateTheorem == Spec => ImplementsRoomGate
PROOF
  <1>1. Init => RG!GateInit
    BY GateStart
  <1>2. KeyInv /\ [Next]_vars => [RG!GateNext]_(RG!gateVars)
    <2>1. ASSUME KeyInv, Next
          PROVE  RG!GateNext
      BY <2>1, AdmissionGate, HostGate, DepartureGate, EpochGate, ChatGate, ClosedGate,
         NoEffectGate DEF Next, EventAfterClose
    <2>2. ASSUME UNCHANGED vars
          PROVE  UNCHANGED RG!gateVars
      <3>1. UNCHANGED <<state, policy, token, connections, outgoing>>
        BY <2>2 DEF vars
      <3>2. RoleMap' = RoleMap /\ LastBatch' = LastBatch
        BY <3>1, SameRoles DEF LastBatch
      <3> QED BY <3>1, <3>2 DEF RG!gateVars, InTransition, Running
    <2> QED BY <2>1, <2>2
  <1> QED BY <1>1, <1>2, KeyInvariant, PTL DEF Spec, ImplementsRoomGate, RG!GateSpec
=============================================================================
