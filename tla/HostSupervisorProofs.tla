------------------------ MODULE HostSupervisorProofs ------------------------
(***************************************************************************)
(* What the gate promises, proved for any number of connections, any       *)
(* limits and any queue lengths.                                           *)
(***************************************************************************)
EXTENDS HostSupervisor, FiniteSetTheorems, TLAPS

-----------------------------------------------------------------------------
(* The inductive invariant, layer by layer *)

PeerEvent == {"Connected", "Verified", "Form", "Frame", "Lost", "Accept", "Reject", "Kick"}
RoomEvent == {"NewId", "Lock", "Unlock", "CloseRequested"}
EventType == [type : PeerEvent, conn : Peer] \cup [type : RoomEvent, conn : {0}]
FlowType == [stage : Stage, token : Nat, admitted : BOOLEAN, shown : SUBSET Nat, lagged : BOOLEAN]
PeerType == [admitted : BOOLEAN, open : BOOLEAN]

RoomTypes ==
    /\ role \in [Peer -> Role]
    /\ roomPolicy \in {"Open", "Locked"} /\ roomToken \in Nat
    /\ busy \in BOOLEAN /\ closed \in BOOLEAN
    /\ batch \in BatchType

GuardTypes ==
    /\ guard \in [failures : Nat, lockouts : Nat, remaining : 0..LockoutMax]
    /\ inWindow \in Nat

\* What the room, the queues, the flows and the network hold.
SupTypes ==
    /\ RoomTypes /\ GuardTypes
    /\ events \in Seq(EventType)
    /\ actions \in Seq(BatchType)
    /\ connects \in Seq(Peer)
    /\ nextId \in 1..Cardinality(Peer) + 1
    /\ DOMAIN peers \subseteq Peer /\ \A c \in DOMAIN peers : peers[c] \in PeerType
    /\ DOMAIN flows \subseteq Peer /\ \A c \in DOMAIN flows : flows[c] \in FlowType
    /\ token \in Nat
    /\ policy \in {"Open", "Locked"}
    /\ phase \in {"running", "closing", "exited"}

\* The accept loop has not handed c out, or the supervisor has not seen it.
Unseen(c) == c >= nextId \/ \E i \in DOMAIN connects : connects[i] = c

\* The supervisor has a flow for c that has not passed the password.
EarlyStage == {"AwaitingHello", "AwaitingToken", "AwaitingProof"}
Early(c) == c \in DOMAIN flows /\ flows[c].stage \in EarlyStage

Pending(type, c) == \E i \in DOMAIN events : events[i] = Event(type, c)

\* Nothing has come from a connection that does not exist yet.
Heard == DOMAIN inbound = Peer /\ \A c \in Peer : inbound[c] # <<>> => c < nextId

\* Ids are handed out and seen once.
ConnectFacts ==
    /\ \A i \in DOMAIN connects : connects[i] < nextId
    /\ \A i, j \in DOMAIN connects : connects[i] = connects[j] => i = j
    /\ \A c \in DOMAIN flows : ~ Unseen(c)
    /\ \A c \in DOMAIN peers : c < nextId

\* Of a connection the supervisor has not seen, nothing is known but its loss.
UnseenFacts ==
    \A c \in Peer : Unseen(c) =>
        /\ role[c] = "none"
        /\ \A i \in DOMAIN events : events[i].conn = c => events[i].type = "Lost"

\* A connection inside the gate is at most a guest.
EarlyFacts ==
    \A c \in Peer : Early(c) =>
        /\ role[c] \in {"none", "guest"}
        /\ \A i \in DOMAIN events : events[i].conn = c => events[i].type \in {"Connected", "Lost"}

LostFacts == \A c \in Peer : Pending("Lost", c) => c \notin DOMAIN peers /\ c < nextId

\* A connection is announced once, before anything else is said of it but its
\* loss, and the room knows nobody whose announcement is still on its way.
NewFacts ==
    /\ \A c \in Peer : Pending("Connected", c) => role[c] = "none"
    /\ \A i, j \in DOMAIN events :
          i < j /\ events[j].type = "Connected" /\ events[i].conn = events[j].conn
             => events[i].type = "Lost"

IdFacts == ConnectFacts /\ UnseenFacts /\ EarlyFacts /\ LostFacts /\ NewFacts

\* What a flow has shown at each stage.
Shown(c) ==
    LET f == flows[c] IN
    /\ f.token \in 1..roomToken
    /\ f.stage \in {"AwaitingProof", "AwaitingJoinForm", "Decided"} => f.token \in f.shown
    /\ f.stage \in {"AwaitingJoinForm", "Decided"} => 0 \in f.shown

\* An applicant whose flow did not begin behind a rotation holds the current
\* invitation, and no rotation comes before its announcement.
Timely(c) ==
    ~ flows[c].lagged =>
        /\ \/ flows[c].token = roomToken
           \/ role[c] \in {"none", "member"} /\ ~ Pending("Connected", c)
        /\ \A i, j \in DOMAIN events :
              i < j /\ events[j] = Event("Connected", c) => events[i].type # "NewId"

EntryFacts ==
    /\ token \in 1..roomToken
    /\ \A i \in DOMAIN actions : actions[i].token <= roomToken
    /\ \A c \in DOMAIN flows : Shown(c) /\ Timely(c)

\* While the supervisor runs: the room is open ...
OpenFacts == ~ closed /\ \A i \in DOMAIN events : events[i].type # "CloseRequested"

\* ... nothing it has said but not yet delivered is meant for a guest ...
TellFacts ==
    \A i \in DOMAIN actions, c \in Peer : actions[i].tell[c] # "none" => ~ Unseen(c) /\ ~ Early(c)

\* ... who is to be closed is already forgotten ...
CloseFacts ==
    \A i \in DOMAIN actions, c \in Peer : c \in actions[i].close =>
        role[c] = "none" /\ ~ Pending("Connected", c) /\ ~ Unseen(c)

\* ... and a flow that has been answered has a connection.
InsideFacts ==
    \A c \in DOMAIN flows : flows[c].stage \in {"AwaitingToken", "AwaitingProof"} => c \in DOMAIN peers

RunFacts == phase = "running" => OpenFacts /\ TellFacts /\ CloseFacts /\ InsideFacts

Accepted(c) == \E i \in DOMAIN actions : actions[i].tell[c] = "accepted"
Closing(c) == \E i \in DOMAIN actions : c \in actions[i].close

\* Whoever the room knows, or will know, has a flow or is reported lost.
Watched(c) ==
    /\ role[c] # "none" => c \in DOMAIN flows \/ Pending("Lost", c)
    /\ \A i \in DOMAIN events : events[i] = Event("Connected", c) =>
          c \in DOMAIN flows \/ \E j \in DOMAIN events : i < j /\ events[j] = Event("Lost", c)

\* The three records of c, with the acceptances and removals on their way.
Recorded(c) ==
    /\ role[c] = "member" => \/ c \in DOMAIN flows /\ flows[c].admitted
                             \/ c \notin DOMAIN peers \/ Accepted(c)
    /\ (c \in DOMAIN flows /\ flows[c].admitted) \/ Accepted(c) =>
          role[c] = "member" \/ c \notin DOMAIN peers \/ Closing(c)

\* The two flags are one.
Flagged(c) ==
    /\ c \in DOMAIN peers \cap DOMAIN flows => peers[c].admitted = flows[c].admitted
    /\ c \in DOMAIN peers /\ Unseen(c) => ~ peers[c].admitted
    /\ Early(c) => ~ flows[c].admitted

RecordFacts == phase = "running" => \A c \in Peer : Watched(c) /\ Recorded(c) /\ Flagged(c)

\* Whoever can still send a wrong proof.
Guessers == {c \in DOMAIN flows \cap DOMAIN peers : Early(c)}

LockFacts ==
    /\ inWindow < MaxPreAuth
    /\ Cardinality(PreAuth) <= MaxPreAuth
    /\ phase = "running" /\ Locked => inWindow + Cardinality(Guessers) < MaxPreAuth

SupInv == SupTypes /\ Heard /\ IdFacts /\ EntryFacts /\ RunFacts /\ RecordFacts /\ LockFacts

-----------------------------------------------------------------------------
(* What one event does to the room *)

\* Connection ids are the numbers the accept loop counts through.
LEMMA PeerFacts ==
    /\ IsFiniteSet(Peer) /\ Cardinality(Peer) \in Nat /\ Peer = 1..Cardinality(Peer)
    /\ \A c \in Peer : c \in Nat /\ c # 0
PROOF
  <1>1. IsFiniteSet(Peer) /\ Peer = 1..Cardinality(Peer)
    BY SupervisorAssumption
  <1>2. Cardinality(Peer) \in Nat
    BY <1>1, FS_CardinalityType
  <1>3. PICK n \in Nat : n = Cardinality(Peer)
    BY <1>2
  <1>4. \A c \in 1..n : c \in Nat /\ c # 0
    OBVIOUS
  <1> QED BY <1>1, <1>2, <1>3, <1>4

\* What an event of this type about connection p does to connection c.
RoleStep(type, p, c) ==
    /\ \/ role'[c] = role[c]
       \/ role'[c] = "none" /\ (c \in batch'.close \/ (type = "Lost" /\ p = c))
       \/ p = c /\ type = "Connected" /\ role[c] = "none" /\ role'[c] = "guest"
       \/ p = c /\ type = "Verified" /\ role[c] = "guest" /\ role'[c] = "verified"
       \/ p = c /\ type = "Form" /\ role[c] = "verified" /\ role'[c] = "pending"
       \/ /\ p = c /\ type = "Accept" /\ role[c] = "pending" /\ role'[c] = "member"
          /\ batch'.tell[c] = "accepted"
    /\ type = "Lost" /\ p = c /\ ~ closed => role'[c] = "none"
    /\ batch'.tell[c] = "accepted" => role'[c] = "member"
    /\ ~ closed' /\ batch'.tell[c] # "none" =>
          role[c] \in {"pending", "member"} \/ (p = c /\ type \in {"Form", "Frame"})
    /\ ~ closed' /\ c \in batch'.close =>
          /\ role'[c] = "none"
          /\ role[c] # "none" \/ (p = c /\ type \in {"Form", "Frame"})

GateStep(type, p) ==
    /\ RoomTypes'
    /\ batch'.token <= roomToken'
    /\ closed' => closed \/ type = "CloseRequested"
    /\ \/ roomToken' = roomToken
       \/ /\ type = "NewId" /\ roomToken' = roomToken + 1
          /\ \A c \in Peer : role'[c] \in {"none", "member"}
    /\ \A c \in Peer : RoleStep(type, p, c)

\* A batch without notices.
LEMMA BatchValue ==
    ASSUME NEW tell \in [Peer -> Told], NEW close \in SUBSET Peer
    PROVE  /\ Batch(tell, close) \in BatchType
           /\ Batch(tell, close).tell = tell /\ Batch(tell, close).close = close
           /\ Batch(tell, close).token = 0
  BY DEF Batch, BatchType

\* Everyone in S is told the same.
LEMMA TellValue ==
    ASSUME NEW S, NEW what \in Told
    PROVE  /\ TellAll(S, what) \in [Peer -> Told]
           /\ \A c \in Peer : TellAll(S, what)[c] = IF c \in S THEN what ELSE "none"
  BY DEF TellAll, Told

\* The roles after SetRole.
LEMMA SetRoleValue ==
    ASSUME RoomTypes, NEW S, NEW r \in Role, SetRole(S, r)
    PROVE  /\ role' \in [Peer -> Role]
           /\ \A c \in Peer : role'[c] = IF c \in S THEN r ELSE role[c]
  BY DEF SetRole, RoomTypes

\* The names of roles and messages.
LEMMA GateConstants ==
    /\ "none" \in Told /\ "error" \in Told /\ "frame" \in Told /\ "rejected" \in Told
    /\ "shutdown" \in Told /\ "accepted" \in Told
    /\ "none" \in Role /\ "guest" \in Role /\ "verified" \in Role /\ "pending" \in Role
    /\ "member" \in Role
  BY DEF Told, Role

\* An event that changes nothing but what some members, or its sender, are told.
LEMMA QuietStep ==
    ASSUME RoomTypes, NEW type, NEW p, NEW S, Quiet(S),
           closed \/ \A c \in Peer : c \in S =>
              role[c] \in {"pending", "member"} \/ (p = c /\ type \in {"Form", "Frame"}),
           type = "Lost" => closed
    PROVE  GateStep(type, p)
PROOF
  <1> DEFINE tell == TellAll(S, "frame")
  <1>1. /\ tell \in [Peer -> Told]
        /\ \A c \in Peer : tell[c] = IF c \in S THEN "frame" ELSE "none"
    BY TellValue, GateConstants
  <1>2. /\ batch' = Batch(tell, {})
        /\ UNCHANGED <<role, roomPolicy, roomToken, busy, closed>>
    BY DEF Quiet
  <1> HIDE DEF tell
  <1>3. batch' \in BatchType /\ batch'.tell = tell /\ batch'.close = {} /\ batch'.token = 0
    BY <1>1, <1>2, BatchValue
  <1>4. RoomTypes'
    BY <1>2, <1>3 DEF RoomTypes
  <1>5. ASSUME NEW c \in Peer
        PROVE  RoleStep(type, p, c)
    BY <1>1, <1>2, <1>3 DEF RoleStep
  <1> QED BY <1>2, <1>3, <1>4, <1>5 DEF GateStep, RoomTypes

\* Members leave, and are closed.
LEMMA DropStep ==
    ASSUME RoomTypes, ~ closed, NEW type, NEW p, NEW S \in SUBSET Peer,
           \A c \in S : role[c] = "member",
           NEW tell \in [Peer -> Told], NEW close \in SUBSET Peer, DropMembers(S, tell, close),
           close = S \/ (close = {} /\ type = "Lost" /\ S = {p}),
           \A c \in Peer : tell[c] \in {"none", "error"} /\ (tell[c] # "none" => c \in S),
           type = "Lost" => p \in S
    PROVE  GateStep(type, p)
PROOF
  <1> DEFINE told == [c \in Peer |->
                        IF tell[c] # "none" THEN tell[c]
                        ELSE IF c \in With("member") \ S THEN "frame" ELSE "none"]
  <1>1. /\ batch' = Batch(told, close) /\ busy' = TRUE
        /\ UNCHANGED <<roomPolicy, roomToken, closed>>
        /\ SetRole(S, "none")
    BY DEF DropMembers
  <1>2. /\ told \in [Peer -> Told]
        /\ \A c \in Peer : told[c] # "accepted" /\ (told[c] # "none" => role[c] = "member")
    BY DEF Told, With
  <1> HIDE DEF told
  <1>3. batch' \in BatchType /\ batch'.tell = told /\ batch'.close = close /\ batch'.token = 0
    BY <1>1, <1>2, BatchValue
  <1>4. role' \in [Peer -> Role] /\ \A c \in Peer : role'[c] = IF c \in S THEN "none" ELSE role[c]
    BY <1>1, SetRoleValue, GateConstants
  <1>5. RoomTypes'
    BY <1>1, <1>3, <1>4 DEF RoomTypes
  <1>6. ASSUME NEW c \in Peer
        PROVE  RoleStep(type, p, c)
    BY <1>1, <1>2, <1>3, <1>4 DEF RoleStep
  <1> QED BY <1>1, <1>3, <1>5, <1>6 DEF GateStep, RoomTypes

\* A connection that is no member is forgotten.
LEMMA ForgetStep ==
    ASSUME RoomTypes, ~ closed, NEW type, NEW p \in Peer,
           NEW tell \in [Peer -> Told], NEW close \in SUBSET Peer, Forget({p}, tell, close),
           close = IF type = "Lost" THEN {} ELSE {p},
           \A c \in Peer : tell[c] # "accepted" /\ (tell[c] # "none" => c = p),
           type # "Lost" => role[p] = "pending" \/ type \in {"Form", "Frame"},
           type = "Lost" => \A c \in Peer : tell[c] = "none"
    PROVE  GateStep(type, p)
PROOF
  <1>1. /\ batch' = Batch(tell, close) /\ UNCHANGED <<roomPolicy, roomToken, busy, closed>>
        /\ SetRole({p}, "none")
    BY DEF Forget
  <1>2. batch' \in BatchType /\ batch'.tell = tell /\ batch'.close = close /\ batch'.token = 0
    BY <1>1, BatchValue
  <1>3. role' \in [Peer -> Role] /\ \A c \in Peer : role'[c] = IF c \in {p} THEN "none" ELSE role[c]
    BY <1>1, SetRoleValue, GateConstants
  <1>4. RoomTypes'
    BY <1>1, <1>2, <1>3 DEF RoomTypes
  <1>5. ASSUME NEW c \in Peer
        PROVE  RoleStep(type, p, c)
    BY <1>1, <1>2, <1>3 DEF RoleStep
  <1> QED BY <1>1, <1>2, <1>4, <1>5 DEF GateStep, RoomTypes

\* One connection moves one step on, and nobody is told.
LEMMA MoveStep ==
    ASSUME RoomTypes, ~ closed, NEW type, NEW p \in Peer, NEW S \in SUBSET {p}, NEW r \in Role,
           SetRole(S, r), batch' = NoBatch, UNCHANGED <<roomPolicy, roomToken, busy, closed>>,
           p \in S => \/ type = "Connected" /\ role[p] = "none" /\ r = "guest"
                      \/ type = "Verified" /\ role[p] = "guest" /\ r = "verified"
                      \/ type = "Form" /\ role[p] = "verified" /\ r = "pending",
           type # "Lost"
    PROVE  GateStep(type, p)
PROOF
  <1>1. /\ TellAll({}, "none") \in [Peer -> Told]
        /\ \A c \in Peer : TellAll({}, "none")[c] = IF c \in {} THEN "none" ELSE "none"
    BY TellValue, GateConstants
  <1>2. /\ batch' \in BatchType /\ batch'.close = {} /\ batch'.token = 0
        /\ batch'.tell = TellAll({}, "none")
    BY <1>1, BatchValue DEF NoBatch
  <1>3. role' \in [Peer -> Role] /\ \A c \in Peer : role'[c] = IF c \in S THEN r ELSE role[c]
    BY SetRoleValue
  <1>4. RoomTypes'
    BY <1>2, <1>3 DEF RoomTypes
  <1>5. ASSUME NEW c \in Peer
        PROVE  RoleStep(type, p, c)
    BY <1>1, <1>2, <1>3 DEF RoleStep
  <1> QED BY <1>2, <1>4, <1>5 DEF GateStep, RoomTypes

\* on_connection_lost, and run() on an error.
LEMMA LoseStep ==
    ASSUME RoomTypes, ~ closed, NEW type, NEW p \in Peer,
           \/ type = "Lost" /\ Lost(p)
           \/ type \in {"Form", "Frame"} /\ Punish(p)
    PROVE  GateStep(type, p)
PROOF
  <1> DEFINE tell == IF type = "Lost" THEN TellAll({}, "none") ELSE TellAll({p}, "error")
             close == IF type = "Lost" THEN {} ELSE {p}
  <1>1. Lose(p, tell, close)
    BY DEF Lost, Punish
  <1>2. /\ tell \in [Peer -> Told]
        /\ \A c \in Peer : /\ tell[c] \in {"none", "error"} /\ (tell[c] # "none" => c = p)
                           /\ type = "Lost" => tell[c] = "none"
    <2>1. /\ TellAll({}, "none") \in [Peer -> Told]
          /\ \A c \in Peer : TellAll({}, "none")[c] = IF c \in {} THEN "none" ELSE "none"
      BY TellValue, GateConstants
    <2>2. /\ TellAll({p}, "error") \in [Peer -> Told]
          /\ \A c \in Peer : TellAll({p}, "error")[c] = IF c \in {p} THEN "error" ELSE "none"
      BY TellValue, GateConstants
    <2> QED BY <2>1, <2>2
  <1>3. close \in SUBSET Peer /\ close = IF type = "Lost" THEN {} ELSE {p}
    OBVIOUS
  <1> HIDE DEF tell, close
  <1>4. CASE role[p] = "member"
    <2>1. DropMembers({p}, tell, close) /\ {p} \in SUBSET Peer
      BY <1>1, <1>4 DEF Lose
    <2>2. \A c \in Peer : tell[c] \in {"none", "error"} /\ (tell[c] # "none" => c \in {p})
      BY <1>2
    <2>3. (type = "Lost" => p \in {p}) /\ \A c \in {p} : role[c] = "member"
      BY <1>4
    <2> QED BY <1>2, <1>3, <2>1, <2>2, <2>3, DropStep
  <1>5. CASE role[p] # "member"
    <2>1. Forget({p}, tell, close)
      BY <1>1, <1>5 DEF Lose
    <2>2. \A c \in Peer : tell[c] # "accepted" /\ (tell[c] # "none" => c = p)
      BY <1>2
    <2>3. /\ type # "Lost" => role[p] = "pending" \/ type \in {"Form", "Frame"}
          /\ type = "Lost" => \A c \in Peer : tell[c] = "none"
      BY <1>2
    <2> QED BY <1>2, <1>3, <2>1, <2>2, <2>3, ForgetStep
  <1> QED BY <1>4, <1>5

\* Members who are removed by the host, by the deadline or for flooding.
LEMMA RemovalStep ==
    ASSUME RoomTypes, ~ closed, NEW type, type # "Lost", NEW p,
           NEW S \in SUBSET Peer, \A c \in S : role[c] = "member",
           \/ DropMembers(S, TellAll({}, "none"), S)
           \/ DropMembers(S, TellAll(S, "error"), S)
    PROVE  GateStep(type, p)
PROOF
  <1>1. PICK what : what \in {"none", "error"} /\ DropMembers(S, TellAll(IF what = "none" THEN {} ELSE S, what), S)
    BY Zenon
  <1> DEFINE tell == TellAll(IF what = "none" THEN {} ELSE S, what)
  <1>2. what \in Told
    BY <1>1, GateConstants
  <1>3. /\ tell \in [Peer -> Told]
        /\ \A c \in Peer : tell[c] = IF c \in (IF what = "none" THEN {} ELSE S) THEN what ELSE "none"
    BY <1>2, TellValue
  <1>4. DropMembers(S, tell, S)
    BY <1>1
  <1> HIDE DEF tell
  <1>5. \A c \in Peer : tell[c] \in {"none", "error"} /\ (tell[c] # "none" => c \in S)
    BY <1>1, <1>3
  <1> QED BY <1>3, <1>4, <1>5, DropStep

\* /accept.
LEMMA AcceptStep ==
    ASSUME RoomTypes, NEW p \in Peer, Accept(p)
    PROVE  GateStep("Accept", p)
PROOF
  <1> DEFINE tell == [q \in Peer |-> IF q = p THEN "accepted"
                          ELSE IF role[q] = "member" THEN "frame" ELSE "none"]
  <1>1. /\ ~ closed /\ role[p] = "pending" /\ SetRole({p}, "member") /\ busy' = TRUE
        /\ batch' = Batch(tell, {}) /\ UNCHANGED <<roomPolicy, roomToken, closed>>
    BY DEF Accept
  <1>2. tell \in [Peer -> Told]
    BY DEF Told
  <1>3. /\ tell[p] = "accepted"
        /\ \A c \in Peer : c # p => tell[c] = IF role[c] = "member" THEN "frame" ELSE "none"
    OBVIOUS
  <1> HIDE DEF tell
  <1>4. batch' \in BatchType /\ batch'.tell = tell /\ batch'.close = {} /\ batch'.token = 0
    BY <1>1, <1>2, BatchValue
  <1>5. role' \in [Peer -> Role] /\ \A c \in Peer : role'[c] = IF c \in {p} THEN "member" ELSE role[c]
    BY <1>1, SetRoleValue, GateConstants
  <1>6. RoomTypes'
    BY <1>1, <1>4, <1>5 DEF RoomTypes
  <1>7. ASSUME NEW c \in Peer
        PROVE  RoleStep("Accept", p, c)
    BY <1>1, <1>3, <1>4, <1>5 DEF RoleStep
  <1> QED BY <1>1, <1>4, <1>6, <1>7 DEF GateStep, RoomTypes

\* /reject, and /accept of somebody the table refuses.
LEMMA TurnAwayStep ==
    ASSUME RoomTypes, NEW p \in Peer, NEW type \in {"Accept", "Reject"}, TurnAway(p)
    PROVE  GateStep(type, p)
PROOF
  <1> DEFINE tell == TellAll({p}, "rejected")
  <1>1. /\ tell \in [Peer -> Told]
        /\ \A c \in Peer : tell[c] = IF c \in {p} THEN "rejected" ELSE "none"
    BY TellValue, GateConstants
  <1>2. ~ closed /\ role[p] = "pending" /\ Forget({p}, tell, {p})
    BY DEF TurnAway
  <1> HIDE DEF tell
  <1>3. \A c \in Peer : tell[c] # "accepted" /\ (tell[c] # "none" => c = p)
    BY <1>1
  <1>4. {p} \in SUBSET Peer /\ {p} = IF type = "Lost" THEN {} ELSE {p}
    OBVIOUS
  <1> QED BY <1>1, <1>2, <1>3, <1>4, ForgetStep

\* /newid, /reqon and /reqoff.
LEMMA AdminStep ==
    ASSUME RoomTypes, NEW type, NEW p,
           \/ type = "NewId" /\ NewId
           \/ type = "Lock" /\ SetPolicy("Locked")
           \/ type = "Unlock" /\ SetPolicy("Open")
    PROVE  GateStep(type, p)
PROOF
  <1> DEFINE out == IF type = "Unlock" THEN {} ELSE Applicants
             tell == IF type = "NewId" THEN TellAll({}, "none") ELSE TellAll(With("member"), "frame")
  <1>1. /\ ~ closed /\ UNCHANGED <<busy, closed>> /\ SetRole(out, "none")
        /\ roomToken' = IF type = "NewId" THEN roomToken + 1 ELSE roomToken
        /\ roomPolicy' = CASE type = "Lock" -> "Locked" [] type = "Unlock" -> "Open"
                           [] OTHER -> roomPolicy
    BY DEF NewId, SetPolicy
  <1>2. \/ batch' = [Batch(tell, out) EXCEPT !.token = roomToken'] /\ type = "NewId"
        \/ batch' = [Batch(tell, out) EXCEPT !.policy = roomPolicy'] /\ type # "NewId"
    BY DEF NewId, SetPolicy
  <1>3. /\ tell \in [Peer -> Told]
        /\ \A c \in Peer : tell[c] = "none" \/ (tell[c] = "frame" /\ role[c] = "member")
    <2>1. /\ TellAll({}, "none") \in [Peer -> Told]
          /\ \A c \in Peer : TellAll({}, "none")[c] = IF c \in {} THEN "none" ELSE "none"
      BY TellValue, GateConstants
    <2>2. /\ TellAll(With("member"), "frame") \in [Peer -> Told]
          /\ \A c \in Peer : TellAll(With("member"), "frame")[c]
                                = IF c \in With("member") THEN "frame" ELSE "none"
      BY TellValue, GateConstants
    <2> QED BY <2>1, <2>2 DEF With
  <1>4. /\ out \in SUBSET Peer
        /\ \A c \in Peer : c \in out => role[c] # "none"
        /\ type = "NewId" => \A c \in Peer : c \in out \/ role[c] \in {"none", "member"}
    <2>1. \A c \in Peer : role[c] \in Role
      BY DEF RoomTypes
    <2> QED BY <2>1 DEF Applicants, With, Role
  <1> HIDE DEF out, tell
  <1>5. /\ roomToken' \in Nat /\ roomPolicy' \in {"Open", "Locked"} /\ roomToken \in Nat
    BY <1>1 DEF RoomTypes
  <1>6. Batch(tell, out) \in BatchType /\ Batch(tell, out).tell = tell /\ Batch(tell, out).close = out
        /\ Batch(tell, out).token = 0
    BY <1>3, <1>4, BatchValue
  <1>7. /\ batch' \in BatchType /\ batch'.tell = tell /\ batch'.close = out
        /\ batch'.token \in {0, roomToken'}
    BY <1>2, <1>5, <1>6 DEF BatchType
  <1>8. role' \in [Peer -> Role] /\ \A c \in Peer : role'[c] = IF c \in out THEN "none" ELSE role[c]
    BY <1>1, SetRoleValue, GateConstants
  <1>9. RoomTypes'
    BY <1>1, <1>5, <1>7, <1>8 DEF RoomTypes
  <1>10. ASSUME NEW c \in Peer
         PROVE  RoleStep(type, p, c)
    <2>1. type # "Lost"
      OBVIOUS
    <2> QED BY <1>1, <1>3, <1>4, <1>7, <1>8, <2>1 DEF RoleStep
  <1>11. batch'.token <= roomToken'
    BY <1>5, <1>7
  <1>12. \/ roomToken' = roomToken
         \/ /\ type = "NewId" /\ roomToken' = roomToken + 1
            /\ \A c \in Peer : role'[c] \in {"none", "member"}
    BY <1>1, <1>4, <1>8
  <1> QED BY <1>1, <1>9, <1>10, <1>11, <1>12 DEF GateStep

\* CloseRequested, and an event after the room is closed.
LEMMA CloseStep ==
    ASSUME RoomTypes, NEW type, NEW p,
           \/ type = "CloseRequested" /\ Close
           \/ closed /\ type # "Lost" /\ p \in Peer /\ AfterClose(p)
    PROVE  GateStep(type, p)
PROOF
  <1> DEFINE all == IF closed THEN {p} ELSE Applicants \cup With("member")
             what == IF closed THEN "error" ELSE "shutdown"
             tell == TellAll(all, what)
  <1>1. /\ batch' = Batch(tell, all) /\ closed' = TRUE /\ type # "Lost"
        /\ busy' \in {FALSE, busy} /\ UNCHANGED <<role, roomPolicy, roomToken>>
        /\ closed \/ type = "CloseRequested"
    BY DEF Close, AfterClose, RoomTypes
  <1>2. all \in SUBSET Peer
    BY DEF Close, AfterClose, Applicants, With
  <1>3. what \in Told /\ what # "accepted"
    BY GateConstants
  <1> HIDE DEF all, what
  <1>4. /\ tell \in [Peer -> Told]
        /\ \A c \in Peer : tell[c] = IF c \in all THEN what ELSE "none"
    BY <1>3, TellValue
  <1> HIDE DEF tell
  <1>5. batch' \in BatchType /\ batch'.tell = tell /\ batch'.close = all /\ batch'.token = 0
    BY <1>1, <1>2, <1>4, BatchValue
  <1>6. RoomTypes'
    BY <1>1, <1>5 DEF RoomTypes
  <1>7. ASSUME NEW c \in Peer
        PROVE  RoleStep(type, p, c)
    BY <1>1, <1>3, <1>4, <1>5 DEF RoleStep
  <1> QED BY <1>1, <1>5, <1>6, <1>7 DEF GateStep, RoomTypes

\* The last acknowledgement of a key transition.
LEMMA ActivateStep ==
    ASSUME RoomTypes, NEW S \in {{}, With("member")}, Activate(S)
    PROVE  GateStep("None", 0)
PROOF
  <1> DEFINE tell == TellAll(S, "frame")
  <1>1. /\ tell \in [Peer -> Told]
        /\ \A c \in Peer : tell[c] = IF c \in S THEN "frame" ELSE "none"
    BY TellValue, GateConstants
  <1>2. /\ batch' = Batch(tell, {}) /\ busy' = FALSE /\ ~ closed
        /\ UNCHANGED <<role, roomPolicy, roomToken, closed>>
    BY DEF Activate
  <1>3. \A c \in Peer : c \in S => role[c] = "member"
    BY DEF With
  <1> HIDE DEF tell
  <1>4. batch' \in BatchType /\ batch'.tell = tell /\ batch'.close = {} /\ batch'.token = 0
    BY <1>1, <1>2, BatchValue
  <1>5. RoomTypes'
    BY <1>2, <1>4 DEF RoomTypes
  <1>6. ASSUME NEW c \in Peer
        PROVE  RoleStep("None", 0, c)
    BY <1>1, <1>2, <1>3, <1>4 DEF RoleStep
  <1> QED BY <1>2, <1>4, <1>5, <1>6 DEF GateStep, RoomTypes

\* The transition's acknowledgements or its deadline.
LEMMA TransitionStep ==
    ASSUME RoomTypes, RoomTransition
    PROVE  GateStep("None", 0)
PROOF
  <1>1. CASE \E S \in {{}, With("member")} : Activate(S)
    BY <1>1, ActivateStep
  <1>2. CASE \E S \in SUBSET With("member") \ {{}} : Evict(S)
    <2>1. PICK S \in SUBSET With("member") : Evict(S)
      BY <1>2
    <2>2. ~ closed /\ DropMembers(S, TellAll({}, "none"), S)
      BY <2>1 DEF Evict
    <2>3. S \in SUBSET Peer /\ \A c \in S : role[c] = "member"
      BY <2>1 DEF With
    <2>4. "None" # "Lost"
      OBVIOUS
    <2> QED BY <2>2, <2>3, <2>4, RemovalStep
  <1> QED BY <1>1, <1>2 DEF RoomTransition

\* A frame of a member or of somebody else.
LEMMA FrameStep ==
    ASSUME RoomTypes, ~ closed, NEW p \in Peer, FrameArrives(p)
    PROVE  GateStep("Frame", p)
PROOF
  <1>1. ASSUME NEW S, Quiet(S), \A c \in Peer : c \in S => c = p \/ role[c] = "member"
        PROVE  GateStep("Frame", p)
    <2>1. \A c \in Peer : c \in S => role[c] \in {"pending", "member"} \/ (p = c /\ "Frame" \in {"Form", "Frame"})
      BY <1>1
    <2>2. "Frame" = "Lost" => closed
      OBVIOUS
    <2> QED BY <1>1, <2>1, <2>2, QuietStep
  <1>2. CASE Quiet({})
    <2>1. \A c \in Peer : c \in {} => c = p \/ role[c] = "member"
      OBVIOUS
    <2> QED BY <1>1, <1>2, <2>1
  <1>3. CASE Quiet({p})
    <2>1. \A c \in Peer : c \in {p} => c = p \/ role[c] = "member"
      OBVIOUS
    <2> QED BY <1>1, <1>3, <2>1
  <1>4. CASE Quiet(With("member") \ {p})
    <2>1. \A c \in Peer : c \in With("member") \ {p} => c = p \/ role[c] = "member"
      BY DEF With
    <2> QED BY <1>1, <1>4, <2>1
  <1>5. CASE Expel(p)
    <2>1. role[p] = "member" /\ DropMembers({p}, TellAll({p}, "error"), {p})
      BY <1>5 DEF Expel
    <2>2. {p} \in SUBSET Peer /\ "Frame" # "Lost" /\ \A c \in {p} : role[c] = "member"
      BY <2>1
    <2> QED BY <2>1, <2>2, RemovalStep
  <1>6. CASE Punish(p)
    <2>1. ("Frame" = "Lost" /\ Lost(p)) \/ ("Frame" \in {"Form", "Frame"} /\ Punish(p))
      BY <1>6
    <2> QED BY <2>1, LoseStep
  <1> QED BY <1>2, <1>3, <1>4, <1>5, <1>6 DEF FrameArrives

\* A join form.
LEMMA FormStep ==
    ASSUME RoomTypes, ~ closed, NEW p \in Peer, Form(p)
    PROVE  GateStep("Form", p)
PROOF
  <1>1. CASE Quiet({})
    <2>1. \A c \in Peer : c \in {} => role[c] \in {"pending", "member"} \/ (p = c /\ "Form" \in {"Form", "Frame"})
      OBVIOUS
    <2>2. "Form" = "Lost" => closed
      OBVIOUS
    <2> QED BY <1>1, <2>1, <2>2, QuietStep
  <1>2. CASE /\ Admits(p) /\ SetRole({p}, "pending") /\ batch' = NoBatch
             /\ UNCHANGED <<roomPolicy, roomToken, busy, closed>>
    <2>1. role[p] = "verified"
      BY <1>2 DEF Admits
    <2>2. {p} \in SUBSET {p} /\ "pending" \in Role /\ "Form" # "Lost"
      BY GateConstants
    <2>3. p \in {p} => \/ "Form" = "Connected" /\ role[p] = "none" /\ "pending" = "guest"
                       \/ "Form" = "Verified" /\ role[p] = "guest" /\ "pending" = "verified"
                       \/ "Form" = "Form" /\ role[p] = "verified" /\ "pending" = "pending"
      BY <2>1
    <2> QED BY <1>2, <2>2, <2>3, MoveStep
  <1>3. CASE Punish(p)
    <2>1. ("Form" = "Lost" /\ Lost(p)) \/ ("Form" \in {"Form", "Frame"} /\ Punish(p))
      BY <1>3
    <2> QED BY <2>1, LoseStep
  <1> QED BY <1>1, <1>2, <1>3 DEF Form

\* A connection is announced, or has shown the password.
LEMMA ArrivalStep ==
    ASSUME RoomTypes, ~ closed, NEW p \in Peer, NEW type,
           \/ type = "Connected" /\ Connected(p)
           \/ type = "Verified" /\ Verified(p)
    PROVE  GateStep(type, p)
PROOF
  <1> DEFINE r == IF type = "Connected" THEN "guest" ELSE "verified"
             S == IF busy \/ (type = "Verified" /\ role[p] # "guest") THEN {} ELSE {p}
  <1>1. /\ SetRole(S, r) /\ batch' = NoBatch /\ UNCHANGED <<roomPolicy, roomToken, busy, closed>>
    BY DEF Connected, Verified
  <1>2. /\ S \in SUBSET {p} /\ r \in Role /\ type # "Lost"
        /\ p \in S => \/ type = "Connected" /\ role[p] = "none" /\ r = "guest"
                      \/ type = "Verified" /\ role[p] = "guest" /\ r = "verified"
                      \/ type = "Form" /\ role[p] = "verified" /\ r = "pending"
    BY GateConstants DEF Connected, Verified
  <1> HIDE DEF r, S
  <1> QED BY <1>1, <1>2, MoveStep

\* A command that applies.
LEMMA ObeyStep ==
    ASSUME RoomTypes, ~ closed, NEW e \in EventType, Applies(e), Obey(e)
    PROVE  GateStep(e.type, e.conn)
PROOF
  <1>1. e.type \in {"Accept", "Reject", "Kick"} => e.conn \in Peer
    BY DEF EventType, PeerEvent, RoomEvent
  <1>2. CASE e.type = "Accept" /\ Accept(e.conn)
    BY <1>1, <1>2, AcceptStep
  <1>3. CASE e.type \in {"Accept", "Reject"} /\ TurnAway(e.conn)
    BY <1>1, <1>3, TurnAwayStep
  <1>4. CASE e.type = "Kick" /\ Kick(e.conn)
    <2>1. role[e.conn] = "member" /\ DropMembers({e.conn}, TellAll({}, "none"), {e.conn})
      BY <1>4 DEF Kick
    <2>2. {e.conn} \in SUBSET Peer /\ e.type # "Lost" /\ \A c \in {e.conn} : role[c] = "member"
      BY <1>1, <1>4, <2>1
    <2> QED BY <2>1, <2>2, RemovalStep
  <1>5. CASE \/ e.type = "NewId" /\ NewId
             \/ e.type = "Lock" /\ SetPolicy("Locked")
             \/ e.type = "Unlock" /\ SetPolicy("Open")
    BY <1>5, AdminStep
  <1> QED BY <1>2, <1>3, <1>4, <1>5 DEF Obey

\* Every event of the queue is a step of the gate.
LEMMA HandlesStep ==
    ASSUME RoomTypes, NEW e \in EventType, Handles(e)
    PROVE  GateStep(e.type, e.conn)
PROOF
  <1>1. e.type \in PeerEvent => e.conn \in Peer
    BY DEF EventType, PeerEvent, RoomEvent
  <1>2. ASSUME Quiet({}), e.type = "Lost" => closed
        PROVE  GateStep(e.type, e.conn)
    <2>1. \A c \in Peer : c \in {} =>
             role[c] \in {"pending", "member"} \/ (e.conn = c /\ e.type \in {"Form", "Frame"})
      OBVIOUS
    <2> QED BY <1>2, <2>1, QuietStep
  <1>3. CASE closed
    <2>1. CASE e.type \in {"Form", "Frame"} /\ AfterClose(e.conn)
      <3>1. e.conn \in Peer /\ e.type # "Lost"
        BY <1>1, <2>1 DEF PeerEvent
      <3> QED BY <1>3, <2>1, <3>1, CloseStep
    <2>2. CASE Quiet({})
      BY <1>2, <1>3, <2>2
    <2> QED BY <1>3, <2>1, <2>2 DEF Handles
  <1>4. CASE ~ closed /\ e.type \in {"Connected", "Verified"}
    <2>1. e.conn \in Peer
      BY <1>1, <1>4 DEF PeerEvent
    <2>2. \/ e.type = "Connected" /\ Connected(e.conn)
          \/ e.type = "Verified" /\ Verified(e.conn)
      BY <1>4 DEF Handles
    <2> QED BY <1>4, <2>1, <2>2, ArrivalStep
  <1>5. CASE ~ closed /\ e.type = "Form"
    <2>1. e.conn \in Peer /\ Form(e.conn)
      BY <1>1, <1>5 DEF PeerEvent, Handles
    <2> QED BY <1>5, <2>1, FormStep
  <1>6. CASE ~ closed /\ e.type = "Lost"
    <2>1. e.conn \in Peer /\ Lost(e.conn)
      BY <1>1, <1>6 DEF PeerEvent, Handles
    <2> QED BY <1>6, <2>1, LoseStep
  <1>7. CASE ~ closed /\ e.type = "Frame"
    <2>1. e.conn \in Peer /\ FrameArrives(e.conn)
      BY <1>1, <1>7 DEF PeerEvent, Handles
    <2> QED BY <1>7, <2>1, FrameStep
  <1>8. CASE ~ closed /\ e.type = "CloseRequested"
    <2>1. Close
      BY <1>8 DEF Handles
    <2> QED BY <1>8, <2>1, CloseStep
  <1>9. CASE ~ closed /\ e.type \notin {"Connected", "Verified", "Form", "Lost", "Frame", "CloseRequested"}
    <2>1. IF Applies(e) THEN Obey(e) ELSE Quiet({})
      BY <1>9 DEF Handles
    <2>2. CASE Applies(e)
      BY <1>9, <2>1, <2>2, ObeyStep
    <2>3. CASE ~ Applies(e)
      BY <1>2, <1>9, <2>1, <2>3
    <2> QED BY <2>2, <2>3
  <1> QED BY <1>3, <1>4, <1>5, <1>6, <1>7, <1>8, <1>9

-----------------------------------------------------------------------------
(* The queues *)

\* The events of E are posted, in some order, behind the ones that wait.
EventsGrow(E) ==
    /\ events' \in Seq(EventType)
    /\ \A i \in DOMAIN events : i \in DOMAIN events' /\ events'[i] = events[i]
    /\ \A i \in DOMAIN events' :
          i \in DOMAIN events \/ (events'[i] \in E /\ \A j \in DOMAIN events : j < i)
    /\ \A e \in E : \E i \in DOMAIN events' : events'[i] = e /\ \A j \in DOMAIN events : j < i

\* The room takes the event at the head.
EventsTake ==
    /\ events' \in Seq(EventType)
    /\ 1 \in DOMAIN events
    /\ \A i \in DOMAIN events' : i + 1 \in DOMAIN events /\ 1 < i + 1 /\ events'[i] = events[i + 1]
    /\ \A i \in DOMAIN events :
          i = 1 \/ (1 < i /\ i - 1 \in DOMAIN events' /\ events'[i - 1] = events[i])

\* What the supervisor posts is appended behind the events already waiting.
LEMMA PostGrows ==
    ASSUME events \in Seq(EventType), NEW evs \in Seq(EventType), Post(evs), NEW E,
           \A i \in DOMAIN evs : evs[i] \in E,
           \A e \in E : \E i \in DOMAIN evs : evs[i] = e
    PROVE  EventsGrow(E)
PROOF
  <1>1. /\ events' = events \o evs /\ events' \in Seq(EventType)
        /\ DOMAIN events = 1..Len(events) /\ DOMAIN evs = 1..Len(evs)
        /\ Len(events) \in Nat /\ Len(evs) \in Nat
        /\ Len(events') = Len(events) + Len(evs) /\ DOMAIN events' = 1..Len(events')
    BY DEF Post
  <1>2. \A i \in DOMAIN events : i \in DOMAIN events' /\ events'[i] = events[i]
    BY <1>1
  <1>3. ASSUME NEW i \in DOMAIN events', i \notin DOMAIN events
        PROVE  events'[i] \in E /\ \A j \in DOMAIN events : j < i
    <2>1. i - Len(events) \in DOMAIN evs /\ events'[i] = evs[i - Len(events)]
      BY <1>1, <1>3
    <2> QED BY <1>1, <1>3, <2>1
  <1>4. ASSUME NEW e \in E
        PROVE  \E i \in DOMAIN events' : events'[i] = e /\ \A j \in DOMAIN events : j < i
    <2>1. PICK k \in DOMAIN evs : evs[k] = e
      OBVIOUS
    <2>2. Len(events) + k \in DOMAIN events' /\ events'[Len(events) + k] = evs[k]
      BY <1>1
    <2>3. \A j \in DOMAIN events : j < Len(events) + k
      BY <1>1
    <2> QED BY <2>1, <2>2, <2>3
  <1> QED BY <1>1, <1>2, <1>3, <1>4 DEF EventsGrow

\* The room takes the first event, and the others move up.
LEMMA HeadTaken ==
    ASSUME events \in Seq(EventType), events # <<>>, events' = Tail(events)
    PROVE  EventsTake /\ Head(events) = events[1] /\ events[1] \in EventType
PROOF
  <1>1. /\ DOMAIN events = 1..Len(events) /\ Len(events) \in Nat \ {0}
        /\ events' \in Seq(EventType) /\ Len(events') = Len(events) - 1
        /\ DOMAIN events' = 1..Len(events')
        /\ \A i \in 1..Len(events') : events'[i] = events[i + 1]
    OBVIOUS
  <1> QED BY <1>1 DEF EventsTake

\* One event for each connection of S that is lost.
LEMMA LostGrows ==
    ASSUME events \in Seq(EventType), NEW S \in SUBSET Peer, PostLost(S)
    PROVE  EventsGrow({Event("Lost", c) : c \in S})
PROOF
  <1>1. PICK evs \in LostEvents(S) : Post(evs)
    BY DEF PostLost
  <1>2. IsFiniteSet(S) /\ Cardinality(S) \in Nat
    BY PeerFacts, FS_Subset, FS_CardinalityType
  <1>3. /\ evs \in [1..Cardinality(S) -> {Event("Lost", c) : c \in S}]
        /\ \A c \in S : \E i \in 1..Cardinality(S) : evs[i] = Event("Lost", c)
    BY DEF LostEvents
  <1>4. \A c \in S : Event("Lost", c) \in EventType
    BY DEF Event, EventType, PeerEvent
  <1>5. evs \in Seq(EventType) /\ DOMAIN evs = 1..Cardinality(S)
    BY <1>2, <1>3, <1>4
  <1>6. \A i \in DOMAIN evs : evs[i] \in {Event("Lost", c) : c \in S}
    BY <1>3, <1>5
  <1>7. \A e \in {Event("Lost", c) : c \in S} : \E i \in DOMAIN evs : evs[i] = e
    BY <1>3, <1>5
  <1> QED BY <1>1, <1>5, <1>6, <1>7, PostGrows

\* One event is posted.
LEMMA OneGrows ==
    ASSUME events \in Seq(EventType), NEW e \in EventType, Post(<<e>>)
    PROVE  /\ EventsGrow({e})
           /\ \A i, j \in DOMAIN events' : i \notin DOMAIN events /\ j \notin DOMAIN events => i = j
PROOF
  <1>1. <<e>> \in Seq(EventType) /\ DOMAIN <<e>> = {1} /\ <<e>>[1] = e
    OBVIOUS
  <1>2. EventsGrow({e})
    BY <1>1, PostGrows
  <1>3. DOMAIN events = 1..Len(events) /\ DOMAIN events' = 1..(Len(events) + 1) /\ Len(events) \in Nat
    BY DEF Post
  <1> QED BY <1>2, <1>3

\* Nothing is posted.
LEMMA NoneGrows ==
    ASSUME events \in Seq(EventType), events' = events
    PROVE  EventsGrow({})
  BY DEF EventsGrow

-----------------------------------------------------------------------------
(* The steps of the supervisor, the network and the peers, by what they do *)

\* Connections go, and with them their flows; flags and roles stay.
Shrinks ==
    /\ DOMAIN flows' \subseteq DOMAIN flows /\ \A c \in DOMAIN flows' : flows'[c] = flows[c]
    /\ DOMAIN peers' \subseteq DOMAIN peers
    /\ \A c \in DOMAIN peers' : peers'[c] \in PeerType /\ peers'[c].admitted = peers[c].admitted
    /\ \A c \in DOMAIN peers \ DOMAIN peers' : c \notin DOMAIN flows'

\* The connects queue is left alone, or its head is taken.
Seen == connects' = connects \/ (connects # <<>> /\ connects' = Tail(connects))

\* What is posted by steps that open no door.
CalmEvent(e) ==
    /\ e \in EventType
    /\ \/ e.type = "Lost" /\ e.conn \notin DOMAIN peers' /\ e.conn < nextId
       \/ e.type \in {"Accept", "Reject", "Kick"} /\ role[e.conn] \in {"pending", "member"}
       \/ e.type \in {"NewId", "Lock", "Unlock"}
       \/ e.type = "CloseRequested" /\ phase' # "running"

Calm(E) ==
    /\ RoomIdle /\ EventsGrow(E) /\ Shrinks /\ Seen
    /\ \A e \in E : CalmEvent(e)
    /\ \A c \in DOMAIN flows : c \notin DOMAIN flows' => Event("Lost", c) \in E
    /\ UNCHANGED <<actions, nextId, token, policy>>
    /\ phase' \in {"running", "closing", "exited"} /\ (phase' = "running" => phase = "running")

\* A connection's network task and flow end.
LEMMA WithoutShrinks ==
    ASSUME SupTypes, NEW S \in SUBSET Peer,
           peers' = Without(peers, S),
           flows' = Without(flows, S) \/ (flows' = flows /\ \A c \in S : c \notin DOMAIN flows)
    PROVE  Shrinks
  BY DEF Shrinks, Without, SupTypes

\* An event carries its type and its connection, and is one of the queue's.
LEMMA EventValue ==
    ASSUME NEW type, NEW c
    PROVE  /\ Event(type, c).type = type /\ Event(type, c).conn = c
           /\ type \in PeerEvent /\ c \in Peer => Event(type, c) \in EventType
           /\ type \in RoomEvent /\ c = 0 => Event(type, c) \in EventType
  BY DEF Event, EventType

\* The head of the connects queue is a connection without a flow.
LEMMA HeadUnseen ==
    ASSUME SupTypes, IdFacts, connects # <<>>
    PROVE  /\ Head(connects) \in Peer /\ Unseen(Head(connects)) /\ Head(connects) < nextId
           /\ Head(connects) \notin DOMAIN flows
PROOF
  <1>1. 1 \in DOMAIN connects /\ Head(connects) = connects[1] /\ Head(connects) \in Peer
    BY DEF SupTypes
  <1>2. Unseen(Head(connects))
    BY <1>1 DEF Unseen
  <1> QED BY <1>1, <1>2 DEF IdFacts, ConnectFacts

\* Refusing a new flow at the capacity limit touches no connection.
LEMMA RefuseFlowCalm ==
    ASSUME SupTypes, IdFacts, RefuseFlow
    PROVE  Calm({})
PROOF
  <1>1. PICK c : c = Head(connects)
    OBVIOUS
  <1>2. /\ connects # <<>> /\ connects' = Tail(connects) /\ peers' = Without(peers, {c})
        /\ flows' = flows /\ events' = events /\ RoomIdle
        /\ UNCHANGED <<actions, nextId, token, policy, phase>>
    BY <1>1 DEF RefuseFlow, CloseAll
  <1>3. c \in Peer /\ c \notin DOMAIN flows
    BY <1>1, <1>2, HeadUnseen
  <1>4. {c} \in SUBSET Peer /\ \A d \in {c} : d \notin DOMAIN flows
    BY <1>3
  <1>5. Shrinks
    BY <1>2, <1>4, WithoutShrinks
  <1>6. EventsGrow({})
    BY <1>2, NoneGrows DEF SupTypes
  <1> QED BY <1>2, <1>5, <1>6 DEF Calm, Seen, SupTypes

\* Refusing a message, reading an end of stream and sweeping a deadline each
\* remove one peer and report it lost.
LEMMA RemovesCalm ==
    ASSUME SupTypes, Heard, IdFacts, NEW c \in Peer,
           RefuseMessage(c) \/ HandleEof(c) \/ Sweep(c)
    PROVE  Calm({Event("Lost", c)}) /\ c \notin DOMAIN peers' /\ c \notin DOMAIN flows'
PROOF
  <1>1. /\ connects' = connects /\ peers' = Without(peers, {c})
        /\ flows' = Without(flows, {c}) /\ PostLost({c}) /\ RoomIdle
        /\ UNCHANGED <<actions, nextId, token, policy, phase>>
    BY DEF RefuseMessage, HandleEof, Sweep, CloseAll
  <1>2. c < nextId
    <2>1. CASE inbound[c] # <<>>
      BY <2>1 DEF Heard
    <2>2. CASE c \in DOMAIN flows
      <3>1. ~ (c >= nextId)
        BY <2>2 DEF IdFacts, ConnectFacts, Unseen
      <3>2. c \in Int /\ nextId \in Int
        BY PeerFacts DEF SupTypes
      <3> QED BY <3>1, <3>2
    <2> QED BY <2>1, <2>2 DEF RefuseMessage, HandleEof, Sweep
  <1>3. {c} \in SUBSET Peer
    OBVIOUS
  <1>4. Shrinks
    BY <1>1, <1>3, WithoutShrinks
  <1>5. EventsGrow({Event("Lost", d) : d \in {c}})
    BY <1>1, <1>3, LostGrows DEF SupTypes
  <1>6. {Event("Lost", d) : d \in {c}} = {Event("Lost", c)}
    OBVIOUS
  <1>7. c \notin DOMAIN peers' /\ c \notin DOMAIN flows' /\ DOMAIN flows' = DOMAIN flows \ {c}
    BY <1>1 DEF Without
  <1>8. CalmEvent(Event("Lost", c))
    BY <1>2, <1>7, EventValue DEF CalmEvent, PeerEvent
  <1> QED BY <1>1, <1>4, <1>5, <1>6, <1>7, <1>8 DEF Calm, Seen, SupTypes

\* A step that leaves flows and connections alone.
LEMMA StillShrinks ==
    ASSUME SupTypes, flows' = flows, peers' = peers
    PROVE  Shrinks
  BY DEF Shrinks, SupTypes

\* A command of the host's screen only posts events of the host.
LEMMA CommandCalm ==
    ASSUME SupTypes, HostCommand
    PROVE  \E E : Calm(E) /\ \A e \in E : e.type \notin {"Lost", "CloseRequested"}
PROOF
  <1>1. /\ UNCHANGED <<actions, nextId, token, policy, phase, flows, peers, connects>> /\ RoomIdle
    BY DEF HostCommand
  <1>2. PICK type, c : /\ Post(<<Event(type, c)>>)
                       /\ \/ type \in {"Accept", "Reject", "Kick"} /\ c \in Peer /\ role[c] \in {"pending", "member"}
                          \/ type \in {"NewId", "Lock", "Unlock"} /\ c = 0
    BY DEF HostCommand
  <1>3. Event(type, c) \in EventType /\ Event(type, c).type = type /\ Event(type, c).conn = c
    BY <1>2, EventValue DEF PeerEvent, RoomEvent
  <1>4. CalmEvent(Event(type, c))
    BY <1>2, <1>3 DEF CalmEvent
  <1>5. EventsGrow({Event(type, c)})
    BY <1>2, <1>3, OneGrows DEF SupTypes
  <1>6. Calm({Event(type, c)})
    BY <1>1, <1>4, <1>5, StillShrinks DEF Calm, Seen, SupTypes
  <1>7. \A e \in {Event(type, c)} : e.type \notin {"Lost", "CloseRequested"}
    BY <1>2, <1>3
  <1> QED BY <1>6, <1>7

\* The host's exit only posts the request to close the room.
LEMMA ExitCalm ==
    ASSUME SupTypes, Exit
    PROVE  Calm({Event("CloseRequested", 0)})
PROOF
  <1>1. /\ UNCHANGED <<actions, nextId, token, policy, flows, peers, connects>> /\ RoomIdle
        /\ phase' = "closing"
    BY DEF Exit
  <1> DEFINE e == Event("CloseRequested", 0)
  <1>2. Post(<<e, e>>)
    BY DEF Exit
  <1>3. e \in EventType /\ e.type = "CloseRequested"
    BY EventValue DEF RoomEvent
  <1> HIDE DEF e
  <1>4. <<e, e>> \in Seq(EventType) /\ DOMAIN <<e, e>> = {1, 2} /\ <<e, e>>[1] = e /\ <<e, e>>[2] = e
    BY <1>3
  <1>5. /\ \A i \in DOMAIN <<e, e>> : <<e, e>>[i] \in {e}
        /\ \A f \in {e} : \E i \in DOMAIN <<e, e>> : <<e, e>>[i] = f
    BY <1>4
  <1>6. EventsGrow({e})
    BY <1>2, <1>4, <1>5, PostGrows DEF SupTypes
  <1>7. CalmEvent(e)
    BY <1>1, <1>3 DEF CalmEvent
  <1>8. Calm({e})
    BY <1>1, <1>6, <1>7, StillShrinks DEF Calm, Seen, SupTypes
  <1> QED BY <1>8 DEF e

\* The supervisor's tick only moves its clock and the guard's window.
LEMMA TickCalm ==
    ASSUME SupTypes, Tick
    PROVE  Calm({})
PROOF
  <1>1. /\ UNCHANGED <<events, actions, nextId, token, policy, phase, flows, peers, connects>> /\ RoomIdle
    BY DEF Tick
  <1>2. EventsGrow({}) /\ Shrinks
    BY <1>1, NoneGrows, StillShrinks DEF SupTypes
  <1> QED BY <1>1, <1>2 DEF Calm, Seen, SupTypes

\* What the other ends do.
Elsewhere ==
    \/ \E c \in Peer : Stranger(c)
    \/ \E c \in Honest : \/ ClientReceive(c) \/ ClientSubmit(c) \/ ClientTalk(c)
                         \/ ClientEnds(c, "Lost") \/ ClientEnds(c, "Own")

\* What happens at the clients' end leaves the host's tables and queues alone.
LEMMA ElsewhereCalm ==
    ASSUME SupTypes, Elsewhere
    PROVE  Calm({}) /\ flows' = flows /\ DOMAIN peers' = DOMAIN peers
           /\ UNCHANGED <<events, connects, guard, inWindow, phase>>
PROOF
  <1>1. /\ UNCHANGED <<events, actions, nextId, token, policy, phase, flows, connects, guard, inWindow>>
        /\ RoomIdle
    BY DEF Elsewhere, Stranger, ClientReceive, ClientSubmit, ClientTalk, ClientEnds
  <1>2. peers' = peers \/ \E c \in DOMAIN peers : peers' = [peers EXCEPT ![c].open = FALSE]
    BY DEF Elsewhere, Stranger, ClientReceive, ClientSubmit, ClientTalk, ClientEnds, Live
  <1>3. /\ DOMAIN peers' = DOMAIN peers
        /\ \A c \in DOMAIN peers' : peers'[c] \in PeerType /\ peers'[c].admitted = peers[c].admitted
    BY <1>2 DEF SupTypes, PeerType
  <1>4. Shrinks
    BY <1>1, <1>3 DEF Shrinks
  <1>5. EventsGrow({})
    BY <1>1, NoneGrows DEF SupTypes
  <1> QED BY <1>1, <1>3, <1>4, <1>5 DEF Calm, Seen, SupTypes

\* A connection is accepted into the gate.
Opens(c) ==
    /\ RoomIdle /\ ~ Locked
    /\ c \in Peer /\ Unseen(c) /\ c < nextId /\ c \notin DOMAIN flows
    /\ connects # <<>> /\ c = Head(connects) /\ connects' = Tail(connects)
    /\ DOMAIN flows' = DOMAIN flows \cup {c} /\ flows'[c] = NewFlow
    /\ \A d \in DOMAIN flows : flows'[d] = flows[d]
    /\ EventsGrow({Event("Connected", c)})
    /\ \A i, j \in DOMAIN events' : i \notin DOMAIN events /\ j \notin DOMAIN events => i = j
    /\ UNCHANGED <<actions, nextId, peers, token, policy, guard, phase, inWindow>>

\* Opening a flow is the one step that adds a peer.
LEMMA OpenFlowOpens ==
    ASSUME SupTypes, IdFacts, OpenFlow
    PROVE  \E c : Opens(c)
PROOF
  <1>1. PICK c : c = Head(connects)
    OBVIOUS
  <1>2. /\ connects # <<>> /\ connects' = Tail(connects) /\ ~ Locked /\ RoomIdle
        /\ flows' = Put(flows, c, NewFlow) /\ Post(<<Event("Connected", c)>>)
        /\ UNCHANGED <<actions, nextId, peers, token, policy, guard, phase, inWindow>>
    BY <1>1 DEF OpenFlow
  <1>3. c \in Peer /\ Unseen(c) /\ c < nextId /\ c \notin DOMAIN flows
    BY <1>1, <1>2, HeadUnseen
  <1>4. /\ DOMAIN flows' = DOMAIN flows \cup {c} /\ flows'[c] = NewFlow
        /\ \A d \in DOMAIN flows : flows'[d] = flows[d]
    <2> DEFINE v == NewFlow
    <2>1. flows' = Put(flows, c, v)
      BY <1>2
    <2> HIDE DEF v
    <2>2. /\ DOMAIN flows' = DOMAIN flows \cup {c} /\ flows'[c] = v
          /\ \A d \in DOMAIN flows : flows'[d] = flows[d]
      BY <1>3, <2>1 DEF Put
    <2> QED BY <2>2 DEF v
  <1>5. Event("Connected", c) \in EventType
    BY <1>3, EventValue DEF PeerEvent
  <1>6. /\ EventsGrow({Event("Connected", c)})
        /\ \A i, j \in DOMAIN events' : i \notin DOMAIN events /\ j \notin DOMAIN events => i = j
    BY <1>2, <1>5, OneGrows DEF SupTypes
  <1>7. Opens(c)
    BY <1>1, <1>2, <1>3, <1>4, <1>6 DEF Opens
  <1> QED BY <1>7

\* A frame moves the flow of c to stage s, after it has shown sh; E is posted.
Passes(c, s, sh, E) ==
    LET f == flows[c] IN
    \/ s = f.stage /\ sh = f.shown /\ E = {}
    \/ s = f.stage /\ sh = f.shown /\ s = "Decided" /\ E = {Event("Frame", c)}
    \/ f.stage = "AwaitingHello" /\ s = "AwaitingToken" /\ sh = f.shown /\ E = {} /\ c \in DOMAIN peers
    \/ /\ f.stage = "AwaitingToken" /\ s = "AwaitingProof" /\ sh = f.shown \cup {f.token}
       /\ E = {} /\ c \in DOMAIN peers
    \/ /\ f.stage = "AwaitingProof" /\ s = "AwaitingJoinForm" /\ sh = f.shown \cup {0}
       /\ E = {Event("Verified", c)}
    \/ /\ f.stage = "AwaitingJoinForm" /\ s = "Decided" /\ sh = f.shown
       /\ E = {Event("Form", c)}

Moves(c, E) ==
    /\ RoomIdle /\ c \in DOMAIN flows /\ EventsGrow(E)
    /\ DOMAIN flows' = DOMAIN flows /\ \A d \in DOMAIN flows : d # c => flows'[d] = flows[d]
    /\ flows'[c] \in FlowType /\ Passes(c, flows'[c].stage, flows'[c].shown, E)
    /\ flows'[c].token = flows[c].token /\ flows'[c].admitted = flows[c].admitted
    /\ flows'[c].lagged = flows[c].lagged
    /\ UNCHANGED <<actions, nextId, peers, connects, token, policy, guard, phase, inWindow>>

\* Handling a message of a peer moves that peer's flow and no other.
LEMMA MessageMoves ==
    ASSUME SupTypes, NEW c \in Peer, HandleMessage(c)
    PROVE  \E E : Moves(c, E)
PROOF
  <1>1. PICK m : m = Head(inbound[c])
    OBVIOUS
  <1>2. /\ Refusal(c, m) = "None" /\ RoomIdle /\ Post(EventsFor(c, m))
        /\ flows' = [flows EXCEPT ![c].stage = NextStage(flows[c], m),
                                  ![c].shown = @ \cup Shows(m)]
        /\ UNCHANGED <<actions, nextId, peers, connects, token, policy, guard, phase, inWindow>>
    BY <1>1 DEF HandleMessage
  <1>3. c \in DOMAIN flows
    BY <1>2 DEF Refusal
  <1>4. flows[c] \in FlowType
    BY <1>3 DEF SupTypes
  <1>5. /\ Class(m) \in Accepts(flows[c]) /\ m.type # "Bye"
        /\ m.type = "Token" => flows[c].stage = "AwaitingToken" /\ m.token = flows[c].token
        /\ m.type = "Proof" => flows[c].stage = "AwaitingProof" /\ m.ok
        /\ m.type \in {"Hello", "Token"} => c \in DOMAIN peers
    BY <1>2, <1>3 DEF Refusal, WrongProof, Sendable
  <1>6. /\ m.type = "Hello" => flows[c].stage = "AwaitingHello"
        /\ m.type = "Form" => flows[c].stage = "AwaitingJoinForm"
        /\ m.type = "RoomFrame" => flows[c].stage = "Decided"
    BY <1>4, <1>5 DEF Class, Accepts, FlowType, Stage
  <1> DEFINE s == NextStage(flows[c], m)
             sh == flows[c].shown \cup Shows(m)
             E == CASE m.type = "Proof" -> {Event("Verified", c)}
                    [] m.type = "Form" -> {Event("Form", c)}
                    [] m.type = "RoomFrame" -> {Event("Frame", c)}
                    [] OTHER -> {}
  <1>7. Passes(c, s, sh, E) /\ s \in Stage /\ sh \in SUBSET Nat
    <2>1. CASE m.type = "Hello"
      BY <1>4, <1>5, <1>6, <2>1 DEF Passes, NextStage, Shows, FlowType, Stage
    <2>2. CASE m.type = "Token"
      BY <1>4, <1>5, <1>6, <2>2 DEF Passes, NextStage, Shows, FlowType, Stage
    <2>3. CASE m.type = "Proof"
      BY <1>4, <1>5, <1>6, <2>3 DEF Passes, NextStage, Shows, FlowType, Stage
    <2>4. CASE m.type = "Form"
      BY <1>4, <1>5, <1>6, <2>4 DEF Passes, NextStage, Shows, FlowType, Stage
    <2>5. CASE m.type = "RoomFrame"
      BY <1>4, <1>5, <1>6, <2>5 DEF Passes, NextStage, Shows, FlowType, Stage
    <2>6. CASE m.type \notin {"Hello", "Token", "Proof", "Form", "RoomFrame"}
      BY <1>4, <1>5, <1>6, <2>6 DEF Passes, NextStage, Shows, FlowType, Stage
    <2> QED BY <2>1, <2>2, <2>3, <2>4, <2>5, <2>6
  <1>8. EventsGrow(E)
    <2>1. ASSUME NEW type \in PeerEvent, EventsFor(c, m) = <<Event(type, c)>>, E = {Event(type, c)}
          PROVE  EventsGrow(E)
      <3>1. Event(type, c) \in EventType
        BY EventValue
      <3>2. EventsGrow({Event(type, c)})
        BY <1>2, <2>1, <3>1, OneGrows DEF SupTypes
      <3> QED BY <2>1, <3>2
    <2>2. CASE m.type = "Proof"
      BY <2>1, <2>2 DEF EventsFor, PeerEvent
    <2>3. CASE m.type = "Form"
      BY <2>1, <2>3 DEF EventsFor, PeerEvent
    <2>4. CASE m.type = "RoomFrame"
      BY <2>1, <2>4 DEF EventsFor, PeerEvent
    <2>5. CASE m.type \notin {"Proof", "Form", "RoomFrame"}
      <3>1. E = {} /\ EventsFor(c, m) = <<>>
        BY <2>5 DEF EventsFor
      <3>2. events' = events
        BY <1>2, <3>1 DEF Post, SupTypes
      <3> QED BY <3>1, <3>2, NoneGrows DEF SupTypes
    <2> QED BY <2>2, <2>3, <2>4, <2>5
  <1> HIDE DEF s, sh, E
  <1>9. flows' = [flows EXCEPT ![c] = [flows[c] EXCEPT !.stage = s, !.shown = sh]]
    BY <1>2, <1>3, <1>4 DEF s, sh, FlowType
  <1>10. /\ DOMAIN flows' = DOMAIN flows /\ \A d \in DOMAIN flows : d # c => flows'[d] = flows[d]
         /\ flows'[c] = [flows[c] EXCEPT !.stage = s, !.shown = sh]
    BY <1>3, <1>9
  <1>11. /\ flows'[c] \in FlowType /\ flows'[c].stage = s /\ flows'[c].shown = sh
         /\ flows'[c].token = flows[c].token /\ flows'[c].admitted = flows[c].admitted
         /\ flows'[c].lagged = flows[c].lagged
    BY <1>4, <1>7, <1>10 DEF FlowType
  <1>12. Passes(c, flows'[c].stage, flows'[c].shown, E)
    BY <1>7, <1>11
  <1>13. Moves(c, E)
    BY <1>2, <1>3, <1>8, <1>10, <1>11, <1>12 DEF Moves
  <1> QED BY <1>13

\* The batch at the head of the action channel is taken.
ActionsTake(b) ==
    /\ actions' \in Seq(BatchType)
    /\ b \in BatchType /\ \E i \in DOMAIN actions : actions[i] = b
    /\ \A i \in DOMAIN actions' : \E j \in DOMAIN actions : actions[j] = actions'[i]
    /\ \A i \in DOMAIN actions : actions[i] = b \/ \E j \in DOMAIN actions' : actions'[j] = actions[i]

\* The connections of A are admitted: in the flows and in the network.
Marks(f, g, A) ==
    \A c \in DOMAIN g : g[c].admitted = IF c \in A THEN TRUE ELSE f[c].admitted

\* Batch b is delivered: those of S cannot take theirs, those of A are admitted.
Delivers(b, S, A) ==
    /\ RoomIdle /\ ActionsTake(b) /\ phase = "running"
    /\ S \subseteq Peer /\ A \subseteq DOMAIN peers
    /\ \A c \in S : b.tell[c] # "none"
    /\ \A c \in A : b.tell[c] = "accepted"
    /\ \A c \in Peer : b.tell[c] = "accepted" => c \in S \cup A
    /\ DOMAIN flows' = DOMAIN flows \ b.close /\ Marks(flows, flows', A)
    /\ \A c \in DOMAIN flows' :
          /\ flows'[c] \in FlowType /\ flows'[c].stage = flows[c].stage
          /\ flows'[c].token = flows[c].token /\ flows'[c].shown = flows[c].shown
          /\ flows'[c].lagged = flows[c].lagged
    /\ DOMAIN peers' = DOMAIN peers \ (S \cup b.close) /\ Marks(peers, peers', A)
    /\ \A c \in DOMAIN peers' : peers'[c] \in PeerType
    /\ EventsGrow({Event("Lost", c) : c \in S})
    /\ token' = (IF b.token # 0 THEN b.token ELSE token)
    /\ policy' \in {"Open", "Locked"}
    /\ UNCHANGED <<nextId, connects, guard, phase, inWindow>>

\* g is f with the connections of A marked, and nothing else changed.
FlowsMarked(f, g, A) ==
    /\ DOMAIN g = DOMAIN f
    /\ \A c \in DOMAIN f :
          /\ g[c].admitted = IF c \in A THEN TRUE ELSE f[c].admitted
          /\ g[c] \in FlowType
          /\ g[c].stage = f[c].stage /\ g[c].token = f[c].token
          /\ g[c].shown = f[c].shown /\ g[c].lagged = f[c].lagged

PeersMarked(f, g, A) ==
    /\ DOMAIN g = DOMAIN f
    /\ \A c \in DOMAIN f :
          g[c].admitted = (IF c \in A THEN TRUE ELSE f[c].admitted) /\ g[c] \in PeerType

\* Marking connections admitted changes their flow's stage only.
LEMMA MarkFlow ==
    ASSUME SupTypes, NEW A
    PROVE  FlowsMarked(flows, MarkAdmitted(flows, A), A)
  BY DEF FlowsMarked, MarkAdmitted, FlowType, SupTypes

\* Marking connections admitted changes their peer's stage only.
LEMMA MarkPeer ==
    ASSUME SupTypes, NEW A
    PROVE  PeersMarked(peers, MarkAdmitted(peers, A), A)
  BY DEF PeersMarked, MarkAdmitted, PeerType, SupTypes

\* Removing connections from a table keeps the other entries as they were.
LEMMA WithoutValue ==
    ASSUME NEW f, NEW S
    PROVE  /\ DOMAIN Without(f, S) = DOMAIN f \ S
           /\ \A c \in DOMAIN f \ S : Without(f, S)[c] = f[c]
  BY DEF Without

\* Executing a batch of the room is a delivery: marks, sends and closes.
LEMMA ActionsDeliver ==
    ASSUME SupTypes, HandleActions
    PROVE  \E b, S, A : Delivers(b, S, A)
PROOF
  <1>1. PICK b : b = Head(actions)
    OBVIOUS
  <1>2. PICK S : S = Unsendable(b)
    OBVIOUS
  <1>3. PICK A : A = Admitted(b)
    OBVIOUS
  <1>4. /\ phase = "running" /\ actions # <<>> /\ actions' = Tail(actions) /\ RoomIdle
        /\ peers' = Without(MarkAdmitted(peers, A), S \cup b.close)
        /\ flows' = Without(MarkAdmitted(flows, A), b.close)
        /\ PostLost(S)
        /\ token' = IF b.token # 0 THEN b.token ELSE token
        /\ policy' = IF b.policy # "same" THEN b.policy ELSE policy
        /\ UNCHANGED <<nextId, connects, guard, phase, inWindow>>
    BY <1>1, <1>2, <1>3 DEF HandleActions, MarkFlows
  <1>5. ActionsTake(b)
    <2>1. /\ Len(actions) \in Nat \ {0} /\ DOMAIN actions = 1..Len(actions)
          /\ b = actions[1] /\ b \in BatchType /\ actions' \in Seq(BatchType)
          /\ DOMAIN actions' = 1..(Len(actions) - 1)
          /\ \A i \in DOMAIN actions' : actions'[i] = actions[i + 1]
      BY <1>1, <1>4 DEF SupTypes
    <2>2. \A i \in DOMAIN actions' : \E j \in DOMAIN actions : actions[j] = actions'[i]
      BY <2>1
    <2>3. ASSUME NEW i \in DOMAIN actions, i # 1
          PROVE  i - 1 \in DOMAIN actions' /\ actions'[i - 1] = actions[i]
      BY <2>1, <2>3
    <2> QED BY <2>1, <2>2, <2>3 DEF ActionsTake
  <1>6. /\ S \subseteq Peer /\ A \subseteq DOMAIN peers
        /\ \A c \in S : b.tell[c] # "none"
        /\ \A c \in A : b.tell[c] = "accepted"
        /\ \A c \in Peer : b.tell[c] = "accepted" => c \in S \cup A
    BY <1>2, <1>3 DEF Unsendable, Admitted, Sendable
  <1>7. EventsGrow({Event("Lost", c) : c \in S})
    BY <1>4, <1>6, LostGrows DEF SupTypes
  <1>8. /\ DOMAIN flows' = DOMAIN flows \ b.close /\ Marks(flows, flows', A)
        /\ \A c \in DOMAIN flows' :
              /\ flows'[c] \in FlowType /\ flows'[c].stage = flows[c].stage
              /\ flows'[c].token = flows[c].token /\ flows'[c].shown = flows[c].shown
              /\ flows'[c].lagged = flows[c].lagged
    <2>2. PICK g : g = MarkAdmitted(flows, A)
      OBVIOUS
    <2>3. FlowsMarked(flows, g, A)
      BY <2>2, MarkFlow
    <2>4. DOMAIN flows' = DOMAIN g \ b.close /\ \A c \in DOMAIN g \ b.close : flows'[c] = g[c]
      <3>1. flows' = Without(g, b.close)
        BY <1>4, <2>2, Zenon
      <3>2. /\ DOMAIN Without(g, b.close) = DOMAIN g \ b.close
            /\ \A c \in DOMAIN g \ b.close : Without(g, b.close)[c] = g[c]
        BY WithoutValue, Zenon
      <3> QED BY <3>1, <3>2, Zenon
    <2> QED BY <2>3, <2>4 DEF Marks, FlowsMarked
  <1>9. /\ DOMAIN peers' = DOMAIN peers \ (S \cup b.close) /\ Marks(peers, peers', A)
        /\ \A c \in DOMAIN peers' : peers'[c] \in PeerType
    <2>2. PICK g : g = MarkAdmitted(peers, A)
      OBVIOUS
    <2>3. PeersMarked(peers, g, A)
      BY <2>2, MarkPeer
    <2>4. /\ DOMAIN peers' = DOMAIN g \ (S \cup b.close)
          /\ \A c \in DOMAIN g \ (S \cup b.close) : peers'[c] = g[c]
      <3>1. peers' = Without(g, S \cup b.close)
        BY <1>4, <2>2, Zenon
      <3>2. /\ DOMAIN Without(g, S \cup b.close) = DOMAIN g \ (S \cup b.close)
            /\ \A c \in DOMAIN g \ (S \cup b.close) : Without(g, S \cup b.close)[c] = g[c]
        BY WithoutValue, Zenon
      <3> QED BY <3>1, <3>2, Zenon
    <2> QED BY <2>3, <2>4 DEF Marks, PeersMarked
  <1>10. policy' \in {"Open", "Locked"}
    BY <1>4, <1>5 DEF ActionsTake, BatchType, SupTypes
  <1>11. Delivers(b, S, A)
    BY <1>4, <1>5, <1>6, <1>7, <1>8, <1>9, <1>10 DEF Delivers
  <1> QED BY <1>11

\* The session is over.
Ends ==
    /\ RoomIdle /\ phase' = "exited" /\ DOMAIN peers' = {} /\ DOMAIN flows' = {}
    /\ events' = <<>> /\ actions' = <<>> /\ connects' = <<>>
    /\ UNCHANGED <<nextId, token, policy, guard, inWindow>>

\* The two ways the supervisor's own exit ends the run.
LEMMA ExitEnds ==
    ASSUME FinishExit \/ Abandon
    PROVE  Ends
PROOF
  <1>1. /\ RoomIdle /\ phase' = "exited" /\ peers' = Without(peers, DOMAIN peers) /\ flows' = <<>>
        /\ events' = <<>> /\ actions' = <<>> /\ connects' = <<>>
        /\ UNCHANGED <<nextId, token, policy, guard, inWindow>>
    BY DEF FinishExit, Abandon, DropSession, CloseAll
  <1>2. DOMAIN flows' = {}
    BY <1>1
  <1>3. DOMAIN peers' = {}
    <2>1. DOMAIN Without(peers, DOMAIN peers) = DOMAIN peers \ DOMAIN peers
      BY Zenon DEF Without
    <2>2. peers' = Without(peers, DOMAIN peers)
      BY <1>1
    <2>3. DOMAIN peers' = DOMAIN peers \ DOMAIN peers
      BY <2>1, <2>2, Zenon
    <2> QED BY <2>3
  <1> QED BY <1>1, <1>2, <1>3 DEF Ends

\* The accept loop hands out the next id.
Arrives(c) ==
    /\ RoomIdle /\ BelowCap /\ phase = "running"
    /\ c = nextId /\ c \in Peer /\ nextId' = c + 1
    /\ DOMAIN peers' = DOMAIN peers \cup {c}
    /\ peers'[c] \in PeerType /\ peers'[c].admitted = FALSE
    /\ \A d \in DOMAIN peers : d # c => peers'[d] = peers[d]
    /\ connects' = Append(connects, c)
    /\ UNCHANGED <<events, actions, flows, token, policy, guard, phase, inWindow>>

\* An accepted connection takes the next identifier.
LEMMA AcceptArrives ==
    ASSUME AcceptConnection
    PROVE  Arrives(nextId)
PROOF
  <1>1. PICK c : c = nextId
    OBVIOUS
  <1>2. PICK v : v = [admitted |-> FALSE, open |-> TRUE]
    OBVIOUS
  <1>3. /\ RoomIdle /\ BelowCap /\ phase = "running" /\ c \in Peer /\ nextId' = c + 1
        /\ peers' = Put(peers, c, v) /\ connects' = Append(connects, c)
        /\ UNCHANGED <<events, actions, flows, token, policy, guard, phase, inWindow>>
    BY <1>1, <1>2 DEF AcceptConnection
  <1>4. v \in PeerType /\ v.admitted = FALSE
    BY <1>2 DEF PeerType
  <1>5. /\ DOMAIN peers' = DOMAIN peers \cup {c} /\ peers'[c] = v
        /\ \A d \in DOMAIN peers : d # c => peers'[d] = peers[d]
    BY <1>3 DEF Put
  <1> QED BY <1>1, <1>3, <1>4, <1>5 DEF Arrives

\* The room answers an event, or ends a transition.
Answers(type, p) ==
    /\ GateStep(type, p)
    /\ \/ events' = events /\ type = "None" /\ p = 0
       \/ EventsTake /\ events[1] \in EventType /\ events[1].type = type /\ events[1].conn = p
    /\ actions' \in Seq(BatchType)
    /\ \A i \in DOMAIN actions : i \in DOMAIN actions' /\ actions'[i] = actions[i]
    /\ \A i \in DOMAIN actions' : i \in DOMAIN actions \/ actions'[i] = batch'
    /\ \A c \in Peer : batch'.tell[c] # "none" \/ c \in batch'.close =>
          \E i \in DOMAIN actions' : actions'[i] = batch'
    /\ UNCHANGED <<nextId, peers, connects, flows, token, policy, guard, phase, inWindow>>

\* The room's batch goes behind the ones already waiting.
LEMMA RespondValue ==
    ASSUME SupTypes, batch' \in BatchType, Respond
    PROVE  /\ actions' \in Seq(BatchType)
           /\ \A i \in DOMAIN actions : i \in DOMAIN actions' /\ actions'[i] = actions[i]
           /\ \A i \in DOMAIN actions' : i \in DOMAIN actions \/ actions'[i] = batch'
           /\ \A c \in Peer : batch'.tell[c] # "none" \/ c \in batch'.close =>
                 \E i \in DOMAIN actions' : actions'[i] = batch'
PROOF
  <1>1. CASE batch' = NoBatch
    <2>1. \A c \in Peer : NoBatch.tell[c] = "none" /\ c \notin NoBatch.close
      BY DEF NoBatch, Batch, TellAll
    <2> QED BY <1>1, <2>1 DEF Respond, SupTypes
  <1>2. CASE batch' # NoBatch
    <2>1. PICK b \in BatchType : b = batch'
      OBVIOUS
    <2>2. actions \in Seq(BatchType) /\ actions' = Append(actions, b)
      BY <1>2, <2>1 DEF Respond, SupTypes
    <2>3. /\ actions' \in Seq(BatchType) /\ Len(actions) \in Nat
          /\ DOMAIN actions = 1..Len(actions) /\ DOMAIN actions' = 1..(Len(actions) + 1)
          /\ actions'[Len(actions) + 1] = b
          /\ \A i \in 1..Len(actions) : actions'[i] = actions[i]
      BY <2>2
    <2>4. \A i \in DOMAIN actions' : i \in DOMAIN actions \/ actions'[i] = b
      BY <2>3
    <2>5. \E i \in DOMAIN actions' : actions'[i] = b
      BY <2>3
    <2> QED BY <2>1, <2>3, <2>4, <2>5
  <1> QED BY <1>1, <1>2

\* Every step of the room answers one event with one batch.
LEMMA RoomAnswers ==
    ASSUME SupTypes, RoomHandle \/ RoomTransition
    PROVE  \E type, p : Answers(type, p)
PROOF
  <1>1. RoomTypes
    BY DEF SupTypes
  <1>2. UNCHANGED <<nextId, peers, connects, flows, token, policy, guard, phase, inWindow>> /\ Respond
    BY DEF RoomHandle, RoomTransition
  <1>3. CASE RoomHandle
    <2>1. PICK e : e = Head(events)
      OBVIOUS
    <2>2. events # <<>> /\ events' = Tail(events) /\ Handles(e)
      BY <1>3, <2>1 DEF RoomHandle
    <2>3. EventsTake /\ e = events[1] /\ events[1] \in EventType
      BY <2>1, <2>2, HeadTaken DEF SupTypes
    <2>4. GateStep(e.type, e.conn)
      BY <1>1, <2>2, <2>3, HandlesStep
    <2>5. batch' \in BatchType
      BY <2>4 DEF GateStep, RoomTypes
    <2>6. Answers(e.type, e.conn)
      BY <1>2, <2>3, <2>4, <2>5, RespondValue DEF Answers
    <2> QED BY <2>6
  <1>4. CASE RoomTransition
    <2>1. GateStep("None", 0) /\ events' = events
      BY <1>1, <1>4, TransitionStep DEF RoomTransition
    <2>2. batch' \in BatchType
      BY <2>1 DEF GateStep, RoomTypes
    <2>3. Answers("None", 0)
      BY <1>2, <2>1, <2>2, RespondValue DEF Answers
    <2> QED BY <2>3
  <1> QED BY <1>3, <1>4

\* Every step is one of seven kinds.
Kind ==
    \/ \E E : Calm(E)
    \/ \E c : Opens(c)
    \/ \E c, E : Moves(c, E)
    \/ \E b, S, A : Delivers(b, S, A)
    \/ Ends
    \/ Arrives(nextId)
    \/ \E type, p : Answers(type, p)

\* Every step of the host is one of the kinds the proofs below tell apart.
LEMMA StepKind ==
    ASSUME SupTypes, Heard, IdFacts, Next
    PROVE  Kind
PROOF
  <1>1. CASE HandleConnect
    BY <1>1, RefuseFlowCalm, OpenFlowOpens DEF HandleConnect, Kind
  <1>2. CASE \E c \in Peer : HandleInbound(c) \/ Sweep(c)
    BY <1>2, RemovesCalm, MessageMoves DEF HandleInbound, Kind
  <1>3. CASE HandleActions
    BY <1>3, ActionsDeliver DEF Kind
  <1>4. CASE HostCommand \/ Exit \/ Tick \/ Elsewhere
    BY <1>4, CommandCalm, ExitCalm, TickCalm, ElsewhereCalm DEF Kind
  <1>5. CASE FinishExit \/ Abandon \/ AcceptConnection
    BY <1>5, ExitEnds, AcceptArrives DEF Kind
  <1>6. CASE RoomHandle \/ RoomTransition
    BY <1>6, RoomAnswers DEF Kind
  <1> QED BY <1>1, <1>2, <1>3, <1>4, <1>5, <1>6 DEF Next, Elsewhere

-----------------------------------------------------------------------------
(* Types *)

\* The room's types survive a step it takes no part in.
LEMMA IdleTypes ==
    ASSUME RoomTypes, RoomIdle
    PROVE  RoomTypes'
PROOF
  <1>1. TellAll({}, "none") \in [Peer -> Told]
    BY TellValue, GateConstants
  <1>2. NoBatch \in BatchType
    BY <1>1, BatchValue DEF NoBatch
  <1> QED BY <1>2 DEF RoomIdle, RoomTypes

\* The doubling, up to the saturation of next_window's exponent.
LEMMA Powers == \A k \in 0..31 : 2^k \in Nat
PROOF
  <1>1. /\ 2^0 \in Nat /\ 2^1 \in Nat /\ 2^2 \in Nat /\ 2^3 \in Nat
        /\ 2^4 \in Nat /\ 2^5 \in Nat /\ 2^6 \in Nat /\ 2^7 \in Nat
    OBVIOUS
  <1>2. /\ 2^8 \in Nat /\ 2^9 \in Nat /\ 2^10 \in Nat /\ 2^11 \in Nat
        /\ 2^12 \in Nat /\ 2^13 \in Nat /\ 2^14 \in Nat /\ 2^15 \in Nat
    OBVIOUS
  <1>3. /\ 2^16 \in Nat /\ 2^17 \in Nat /\ 2^18 \in Nat /\ 2^19 \in Nat
        /\ 2^20 \in Nat /\ 2^21 \in Nat /\ 2^22 \in Nat /\ 2^23 \in Nat
    OBVIOUS
  <1>4. /\ 2^24 \in Nat /\ 2^25 \in Nat /\ 2^26 \in Nat /\ 2^27 \in Nat
        /\ 2^28 \in Nat /\ 2^29 \in Nat /\ 2^30 \in Nat /\ 2^31 \in Nat
    OBVIOUS
  <1> TAKE k \in 0..31
  <1>5. CASE k \in 0..7
    <2>1. k = 0 \/ k = 1 \/ k = 2 \/ k = 3 \/ k = 4 \/ k = 5 \/ k = 6 \/ k = 7
      BY <1>5
    <2> QED BY <1>1, <2>1, Zenon
  <1>6. CASE k \in 8..15
    <2>1. k = 8 \/ k = 9 \/ k = 10 \/ k = 11 \/ k = 12 \/ k = 13 \/ k = 14 \/ k = 15
      BY <1>6
    <2> QED BY <1>2, <2>1, Zenon
  <1>7. CASE k \in 16..23
    <2>1. k = 16 \/ k = 17 \/ k = 18 \/ k = 19 \/ k = 20 \/ k = 21 \/ k = 22 \/ k = 23
      BY <1>7
    <2> QED BY <1>3, <2>1, Zenon
  <1>8. CASE k \in 24..31
    <2>1. k = 24 \/ k = 25 \/ k = 26 \/ k = 27 \/ k = 28 \/ k = 29 \/ k = 30 \/ k = 31
      BY <1>8
    <2> QED BY <1>4, <2>1, Zenon
  <1>9. k \in 0..7 \/ k \in 8..15 \/ k \in 16..23 \/ k \in 24..31
    OBVIOUS
  <1> QED BY <1>5, <1>6, <1>7, <1>8, <1>9

\* The lockout window stays within its bound.
LEMMA WindowBound ==
    ASSUME NEW n \in Nat
    PROVE  NextWindow(n) \in 0..LockoutMax
PROOF
  <1>1. LockoutBase \in Nat /\ LockoutMax \in Nat
    BY SupervisorAssumption
  <1>2. PICK k \in 0..31 : k = Least(n, 31)
    BY DEF Least
  <1>3. PICK w \in Nat : w = 2^k
    BY Powers
  <1>4. NextWindow(n) = Least(LockoutMax, LockoutBase * w)
    BY <1>2, <1>3, Zenon DEF NextWindow
  <1>5. LockoutBase * w \in Nat
    BY <1>1
  <1>6. Least(LockoutMax, LockoutBase * w) \in 0..LockoutMax
    BY <1>1, <1>5 DEF Least
  <1> QED BY <1>4, <1>6

\* The password guard's counters stay within their types.
LEMMA GuardStep ==
    ASSUME GuardTypes, Next
    PROVE  GuardTypes'
PROOF
  <1>1. /\ guard \in [failures : Nat, lockouts : Nat, remaining : 0..LockoutMax] /\ inWindow \in Nat
        /\ LockoutMax \in Nat /\ FailureThreshold \in Nat
    BY SupervisorAssumption DEF GuardTypes
  <1>2. RecordFailure(guard) \in [failures : Nat, lockouts : Nat, remaining : 0..LockoutMax]
    <2>1. PICK w \in 0..LockoutMax : w = NextWindow(guard.lockouts)
      BY <1>1, WindowBound
    <2>2. guard.failures + 1 \in Nat /\ guard.lockouts + 1 \in Nat
      BY <1>1
    <2> QED BY <1>1, <2>1, <2>2 DEF RecordFailure
  <1>3. CASE Tick
    <2>1. guard.remaining - 1 \in 0..LockoutMax
      BY <1>1, <1>3 DEF Tick, Locked
    <2> QED BY <1>1, <1>3, <2>1 DEF Tick, GuardTypes
  <1>4. CASE \E c \in Peer : RefuseMessage(c)
    <2>1. guard' \in {guard, RecordFailure(guard)} /\ inWindow' \in {inWindow, inWindow + 1, 0}
      BY <1>4 DEF RefuseMessage
    <2>2. inWindow' \in Nat
      BY <1>1, <2>1
    <2> QED BY <1>1, <1>2, <2>1, <2>2 DEF GuardTypes
  <1>5. CASE UNCHANGED <<guard, inWindow>>
    BY <1>1, <1>5 DEF GuardTypes
  <1>6. \/ Tick \/ (\E c \in Peer : RefuseMessage(c)) \/ UNCHANGED <<guard, inWindow>>
    BY DEF Next, HandleConnect, OpenFlow, RefuseFlow, HandleActions, HostCommand, Exit, FinishExit,
           Abandon, HandleInbound, HandleMessage, HandleEof, Sweep, Stranger, RoomHandle,
           RoomTransition, AcceptConnection, ClientReceive, ClientSubmit, ClientTalk, ClientEnds
  <1> QED BY <1>3, <1>4, <1>5, <1>6

\* The queue of new connections stays a sequence of peers.
LEMMA SeenTypes ==
    ASSUME connects \in Seq(Peer), Seen
    PROVE  connects' \in Seq(Peer)
PROOF
  <1>1. CASE connects' = connects
    BY <1>1
  <1>2. CASE connects # <<>> /\ connects' = Tail(connects)
    BY <1>2
  <1> QED BY <1>1, <1>2 DEF Seen

\* Every step keeps the types.
LEMMA TypesStep ==
    ASSUME SupTypes, Next, Kind
    PROVE  SupTypes'
PROOF
  <1>1. GuardTypes'
    BY GuardStep DEF SupTypes
  <1>2. CASE \E E : Calm(E)
    <2>1. PICK E : Calm(E)
      BY <1>2
    <2>2. RoomTypes'
      BY <2>1, IdleTypes DEF SupTypes, Calm
    <2>3. connects' \in Seq(Peer)
      BY <2>1, SeenTypes DEF Calm, SupTypes
    <2> QED BY <1>1, <2>1, <2>2, <2>3 DEF Calm, Shrinks, EventsGrow, SupTypes
  <1>3. CASE \E c : Opens(c)
    <2>1. PICK c : Opens(c)
      BY <1>3
    <2>2. RoomTypes' /\ connects' \in Seq(Peer)
      BY <2>1, IdleTypes DEF SupTypes, Opens
    <2>3. NewFlow \in FlowType
      BY DEF NewFlow, FlowType, Stage, SupTypes, RotationOnItsWay
    <2> QED BY <1>1, <2>1, <2>2, <2>3 DEF Opens, EventsGrow, SupTypes
  <1>4. CASE \E c, E : Moves(c, E)
    <2>1. PICK c, E : Moves(c, E)
      BY <1>4
    <2>2. RoomTypes'
      BY <2>1, IdleTypes DEF SupTypes, Moves
    <2> QED BY <1>1, <2>1, <2>2 DEF Moves, EventsGrow, SupTypes
  <1>5. CASE \E b, S, A : Delivers(b, S, A)
    <2>1. PICK b, S, A : Delivers(b, S, A)
      BY <1>5
    <2>2. RoomTypes'
      BY <2>1, IdleTypes DEF SupTypes, Delivers
    <2>3. token' \in Nat /\ actions' \in Seq(BatchType)
      BY <2>1 DEF Delivers, ActionsTake, BatchType, SupTypes
    <2> QED BY <1>1, <2>1, <2>2, <2>3 DEF Delivers, EventsGrow, SupTypes
  <1>6. CASE Ends
    <2>1. RoomTypes'
      BY <1>6, IdleTypes DEF SupTypes, Ends
    <2>2. events' \in Seq(EventType) /\ actions' \in Seq(BatchType) /\ connects' \in Seq(Peer)
      BY <1>6 DEF Ends
    <2> QED BY <1>1, <1>6, <2>1, <2>2 DEF Ends, SupTypes
  <1>7. CASE Arrives(nextId)
    <2>1. RoomTypes'
      BY <1>7, IdleTypes DEF SupTypes, Arrives
    <2>2. nextId \in Peer /\ nextId' = nextId + 1 /\ connects' = Append(connects, nextId)
      BY <1>7 DEF Arrives
    <2>3. nextId' \in 1..Cardinality(Peer) + 1
      BY <2>2, PeerFacts
    <2>4. connects' \in Seq(Peer)
      BY <2>2 DEF SupTypes
    <2>5. DOMAIN peers' \subseteq Peer /\ \A c \in DOMAIN peers' : peers'[c] \in PeerType
      BY <1>7, <2>2 DEF Arrives, SupTypes
    <2> QED BY <1>1, <1>7, <2>1, <2>3, <2>4, <2>5 DEF Arrives, SupTypes
  <1>8. CASE \E type, p : Answers(type, p)
    <2>1. PICK type, p : Answers(type, p)
      BY <1>8
    <2>2. RoomTypes' /\ events' \in Seq(EventType)
      BY <2>1 DEF Answers, GateStep, EventsTake, SupTypes
    <2> QED BY <1>1, <2>1, <2>2 DEF Answers, SupTypes
  <1> QED BY <1>2, <1>3, <1>4, <1>5, <1>6, <1>7, <1>8 DEF Kind

\* Every step keeps what the room has heard consistent with the events still
\* queued.
LEMMA HeardStep ==
    ASSUME SupTypes, IdFacts, Heard, Next
    PROVE  Heard'
PROOF
  <1>1. CASE UNCHANGED <<inbound, nextId>>
    BY <1>1 DEF Heard
  <1>2. CASE /\ nextId' = nextId
             /\ \E c \in DOMAIN inbound : \E q : inbound' = [inbound EXCEPT ![c] = q] /\ c < nextId
    BY <1>2 DEF Heard
  <1>3. CASE DropSession /\ nextId' = nextId
    BY <1>3 DEF Heard, DropSession
  <1>4. CASE AcceptConnection
    <2>1. /\ nextId \in Peer /\ nextId' = nextId + 1
          /\ \/ inbound' = [inbound EXCEPT ![nextId] = <<Hello>>]
             \/ inbound' = inbound
      BY <1>4 DEF AcceptConnection
    <2>2. \A c \in Peer : c \in Nat
      BY PeerFacts
    <2>3. \A c \in Peer : inbound'[c] # <<>> => inbound[c] # <<>> \/ c = nextId
      BY <2>1 DEF Heard
    <2>4. DOMAIN inbound' = Peer
      BY <2>1 DEF Heard
    <2>5. \A c \in Peer : inbound'[c] # <<>> => c < nextId'
      BY <2>1, <2>2, <2>3 DEF Heard
    <2> QED BY <2>4, <2>5 DEF Heard
  <1>5. ASSUME NEW c \in Peer, HandleInbound(c)
        PROVE  Heard'
    <2>1. c < nextId /\ c \in DOMAIN inbound
      BY <1>5 DEF HandleInbound, HandleMessage, RefuseMessage, HandleEof, Heard
    <2>2. nextId' = nextId /\ \E q : inbound' = [inbound EXCEPT ![c] = q]
      BY <1>5 DEF HandleInbound, HandleMessage, RefuseMessage, HandleEof
    <2> QED BY <1>2, <2>1, <2>2
  <1>6. CASE Elsewhere
    <2>1. PICK c : Stranger(c) \/ ClientReceive(c) \/ ClientSubmit(c) \/ ClientTalk(c)
                   \/ ClientEnds(c, "Lost") \/ ClientEnds(c, "Own")
      BY <1>6 DEF Elsewhere
    <2>2. nextId' = nextId /\ (inbound' = inbound \/ \E q : inbound' = Sent(c, q))
      BY <2>1 DEF Stranger, ClientReceive, ClientSubmit, ClientTalk, ClientEnds
    <2>3. CASE inbound' = inbound
      BY <1>1, <2>2, <2>3
    <2>4. CASE inbound' # inbound
      <3>1. PICK q : inbound' = Sent(c, q)
        BY <2>2, <2>4
      <3>2. Live(c) /\ inbound' = [inbound EXCEPT ![c] = @ \o q]
        BY <2>4, <3>1 DEF Sent
      <3>3. c < nextId /\ c \in DOMAIN inbound
        BY <3>2 DEF Live, IdFacts, ConnectFacts, Heard, SupTypes
      <3>4. inbound' = [inbound EXCEPT ![c] = inbound[c] \o q]
        BY <3>2, <3>3
      <3> QED BY <1>2, <2>2, <3>3, <3>4
    <2> QED BY <2>3, <2>4
  <1>7. \/ UNCHANGED <<inbound, nextId>> \/ (DropSession /\ nextId' = nextId) \/ AcceptConnection
        \/ (\E c \in Peer : HandleInbound(c)) \/ Elsewhere
    BY DEF Next, HandleConnect, OpenFlow, RefuseFlow, HandleActions, HostCommand, Exit, FinishExit,
           Abandon, Sweep, RoomHandle, RoomTransition, Tick, Elsewhere
  <1> QED BY <1>1, <1>3, <1>4, <1>5, <1>6, <1>7

-----------------------------------------------------------------------------
(* Connections are announced once *)

\* An event of the queue is determined by its type and connection.
LEMMA EventIs ==
    ASSUME NEW e \in EventType
    PROVE  /\ e = Event(e.type, e.conn)
           /\ e.type \in PeerEvent => e.conn \in Peer
           /\ e.type \in RoomEvent => e.conn = 0
           /\ e.type \in PeerEvent \cup RoomEvent
  BY DEF EventType, Event, PeerEvent, RoomEvent

\* An announcement in a queue that grew by something else was there before,
\* and so was all that stands before it.
LEMMA OldConnected ==
    ASSUME SupTypes, NEW E, EventsGrow(E), \A e \in E : e.type # "Connected",
           NEW j \in DOMAIN events', events'[j].type = "Connected"
    PROVE  /\ j \in DOMAIN events /\ events[j] = events'[j]
           /\ \A i \in DOMAIN events' : i < j => i \in DOMAIN events /\ events[i] = events'[i]
PROOF
  <1>1. j \in DOMAIN events /\ events[j] = events'[j]
    BY DEF EventsGrow
  <1>2. ASSUME NEW i \in DOMAIN events', i < j
        PROVE  i \in DOMAIN events /\ events[i] = events'[i]
    <2>1. i \in Nat /\ j \in Nat
      BY DEF EventsGrow
    <2>2. ~ (j < i)
      BY <1>2, <2>1
    <2> QED BY <1>1, <2>2 DEF EventsGrow
  <1> QED BY <1>1, <1>2

\* Posting events other than arrivals brings no new arrival.
LEMMA NewGrows ==
    ASSUME SupTypes, NewFacts, RoomIdle, NEW E, EventsGrow(E), \A e \in E : e.type # "Connected"
    PROVE  /\ NewFacts'
           /\ \A c : Pending("Connected", c)' => Pending("Connected", c)
PROOF
  <1>1. ASSUME NEW c, Pending("Connected", c)'
        PROVE  Pending("Connected", c)
    <2>1. PICK j \in DOMAIN events' : events'[j] = Event("Connected", c)
      BY <1>1 DEF Pending
    <2>2. events'[j].type = "Connected"
      BY <2>1, EventValue
    <2>3. j \in DOMAIN events /\ events[j] = events'[j]
      BY <2>2, OldConnected
    <2> QED BY <2>1, <2>3 DEF Pending
  <1>2. \A c \in Peer : Pending("Connected", c)' => role'[c] = "none"
    BY <1>1 DEF NewFacts, RoomIdle
  <1>3. ASSUME NEW i \in DOMAIN events', NEW j \in DOMAIN events', i < j,
               events'[j].type = "Connected", events'[i].conn = events'[j].conn
        PROVE  events'[i].type = "Lost"
    BY <1>3, OldConnected DEF NewFacts
  <1> QED BY <1>1, <1>2, <1>3 DEF NewFacts

\* Seen connections stay seen.
LEMMA SeenStep ==
    ASSUME SupTypes, ConnectFacts, Seen, nextId' = nextId
    PROVE  /\ \A i \in DOMAIN connects' : connects'[i] < nextId'
           /\ \A i, j \in DOMAIN connects' : connects'[i] = connects'[j] => i = j
           /\ \A c : Unseen(c)' => Unseen(c)
           /\ \A c : connects' # connects /\ c = Head(connects) => ~ Unseen(c)'
PROOF
  <1>1. CASE connects' = connects
    BY <1>1 DEF ConnectFacts, Unseen
  <1>2. CASE connects # <<>> /\ connects' = Tail(connects)
    <2>1. /\ Len(connects) \in Nat \ {0} /\ DOMAIN connects = 1..Len(connects)
          /\ Head(connects) = connects[1]
          /\ DOMAIN connects' = 1..(Len(connects) - 1)
          /\ \A i \in DOMAIN connects' : connects'[i] = connects[i + 1]
      BY <1>2 DEF SupTypes
    <2>2. \A i \in DOMAIN connects' : i \in Nat /\ i + 1 \in DOMAIN connects /\ i + 1 # 1
      BY <2>1
    <2>3. \A i \in DOMAIN connects' : connects'[i] < nextId'
      BY <2>1, <2>2 DEF ConnectFacts
    <2>4. \A i, j \in DOMAIN connects' : connects'[i] = connects'[j] => i = j
      <3> TAKE i, j \in DOMAIN connects'
      <3>1. connects'[i] = connects'[j] => i + 1 = j + 1
        BY <2>1, <2>2 DEF ConnectFacts
      <3> QED BY <2>2, <3>1
    <2>5. \A c : Unseen(c)' => Unseen(c)
      BY <2>1, <2>2 DEF Unseen
    <2>6. ASSUME NEW c, c = Head(connects)
          PROVE  ~ Unseen(c)'
      <3>1. 1 \in DOMAIN connects
        BY <2>1
      <3>2. connects[1] < nextId /\ connects[1] \in Nat /\ nextId \in Nat
        BY <3>1, PeerFacts DEF ConnectFacts, SupTypes
      <3>3. \A i \in DOMAIN connects' : connects'[i] # connects[1]
        BY <2>1, <2>2, <3>1 DEF ConnectFacts
      <3> QED BY <2>1, <2>6, <3>2, <3>3 DEF Unseen
    <2> QED BY <1>2, <2>3, <2>4, <2>5, <2>6
  <1> QED BY <1>1, <1>2 DEF Seen

\* What a calm step says of a connection.
LEMMA CalmSays ==
    ASSUME NEW E, Calm(E), NEW e \in E
    PROVE  /\ e.type # "Connected"
           /\ e.conn \in Peer =>
                 \/ e.type = "Lost" /\ e.conn \notin DOMAIN peers' /\ e.conn < nextId
                 \/ e.type \in {"Accept", "Reject", "Kick"} /\ role[e.conn] \in {"pending", "member"}
PROOF
  <1>1. CalmEvent(e) /\ e \in EventType
    BY DEF Calm, CalmEvent
  <1>2. e.type \in {"NewId", "Lock", "Unlock", "CloseRequested"} => e.conn = 0
    BY <1>1, EventIs DEF RoomEvent
  <1>3. 0 \notin Peer
    BY PeerFacts
  <1> QED BY <1>1, <1>2, <1>3 DEF CalmEvent

\* A calm step keeps identifiers and announcements unique.
LEMMA CalmIds ==
    ASSUME SupTypes, SupTypes', IdFacts, NEW E, Calm(E)
    PROVE  IdFacts'
PROOF
  <1>1. /\ \A i \in DOMAIN connects' : connects'[i] < nextId'
        /\ \A i, j \in DOMAIN connects' : connects'[i] = connects'[j] => i = j
        /\ \A c : Unseen(c)' => Unseen(c)
    BY SeenStep DEF Calm, IdFacts
  <1>2. /\ RoomIdle /\ EventsGrow(E) /\ Shrinks /\ nextId' = nextId /\ role' = role
        /\ \A e \in E : e.type # "Connected"
    BY CalmSays DEF Calm, RoomIdle
  <1>3. ConnectFacts'
    BY <1>1, <1>2 DEF ConnectFacts, IdFacts, Shrinks, SupTypes
  <1>4. ASSUME NEW c \in Peer, Unseen(c)'
        PROVE  /\ role'[c] = "none"
               /\ \A i \in DOMAIN events' : events'[i].conn = c => events'[i].type = "Lost"
    <2>1. role[c] = "none" /\ \A i \in DOMAIN events : events[i].conn = c => events[i].type = "Lost"
      BY <1>1, <1>4 DEF IdFacts, UnseenFacts
    <2>2. \A e \in E : e.conn = c => e.type = "Lost"
      BY <2>1, CalmSays
    <2> QED BY <1>2, <2>1, <2>2 DEF EventsGrow
  <1>5. ASSUME NEW c \in Peer, Early(c)'
        PROVE  /\ role'[c] \in {"none", "guest"}
               /\ \A i \in DOMAIN events' : events'[i].conn = c => events'[i].type \in {"Connected", "Lost"}
    <2>1. Early(c)
      BY <1>2, <1>5 DEF Early, Shrinks
    <2>2. /\ role[c] \in {"none", "guest"}
          /\ \A i \in DOMAIN events : events[i].conn = c => events[i].type \in {"Connected", "Lost"}
      BY <2>1 DEF IdFacts, EarlyFacts
    <2>3. \A e \in E : e.conn = c => e.type = "Lost"
      BY <2>2, CalmSays
    <2> QED BY <1>2, <2>2, <2>3 DEF EventsGrow
  <1>6. ASSUME NEW c \in Peer, Pending("Lost", c)'
        PROVE  c \notin DOMAIN peers' /\ c < nextId'
    <2>1. PICK i \in DOMAIN events' : events'[i] = Event("Lost", c)
      BY <1>6 DEF Pending
    <2>2. CASE i \in DOMAIN events
      <3>1. Pending("Lost", c)
        BY <1>2, <2>1, <2>2 DEF Pending, EventsGrow
      <3> QED BY <1>2, <3>1 DEF IdFacts, LostFacts, Shrinks
    <2>3. CASE i \notin DOMAIN events
      <3>1. Event("Lost", c) \in E
        BY <1>2, <2>1, <2>3 DEF EventsGrow
      <3>2. Event("Lost", c).type = "Lost" /\ Event("Lost", c).conn = c
        BY EventValue
      <3> QED BY <1>2, <3>1, <3>2, CalmSays
    <2> QED BY <2>2, <2>3
  <1>7. NewFacts'
    BY <1>2, NewGrows DEF IdFacts
  <1> QED BY <1>3, <1>4, <1>5, <1>6, <1>7 DEF IdFacts, UnseenFacts, EarlyFacts, LostFacts

\* Opening a flow keeps identifiers and announcements unique.
LEMMA OpensIds ==
    ASSUME SupTypes, SupTypes', IdFacts, NEW c, Opens(c)
    PROVE  IdFacts'
PROOF
  <1>1. /\ c \in Peer /\ Unseen(c) /\ c < nextId /\ c \notin DOMAIN flows /\ Seen /\ nextId' = nextId
        /\ c = Head(connects) /\ connects # <<>> /\ role' = role /\ RoomIdle /\ peers' = peers
        /\ DOMAIN flows' = DOMAIN flows \cup {c} /\ \A d \in DOMAIN flows : flows'[d] = flows[d]
        /\ EventsGrow({Event("Connected", c)})
        /\ \A i, j \in DOMAIN events' : i \notin DOMAIN events /\ j \notin DOMAIN events => i = j
    BY DEF Opens, RoomIdle, Seen
  <1>2. /\ \A i \in DOMAIN connects' : connects'[i] < nextId'
        /\ \A i, j \in DOMAIN connects' : connects'[i] = connects'[j] => i = j
        /\ \A d : Unseen(d)' => Unseen(d)
        /\ connects' # connects => ~ Unseen(c)'
    BY <1>1, SeenStep DEF IdFacts
  <1>3. connects' # connects
    <2>1. Len(connects) \in Nat \ {0} /\ Len(connects') = Len(connects) - 1
      BY <1>1 DEF Opens, SupTypes
    <2>2. Len(connects') # Len(connects)
      BY <2>1
    <2> QED BY <2>2
  <1>4. Event("Connected", c).type = "Connected" /\ Event("Connected", c).conn = c
    BY EventValue
  <1>5. PICK e : e = Event("Connected", c)
    OBVIOUS
  <1>6. e.type = "Connected" /\ e.conn = c /\ EventsGrow({e})
    BY <1>1, <1>4, <1>5
  <1>7. ConnectFacts'
    BY <1>1, <1>2, <1>3 DEF ConnectFacts, IdFacts
  <1>8. UnseenFacts'
    <2> SUFFICES ASSUME NEW d \in Peer, Unseen(d)'
                 PROVE  /\ role'[d] = "none"
                        /\ \A i \in DOMAIN events' : events'[i].conn = d => events'[i].type = "Lost"
      BY DEF UnseenFacts
    <2>1. Unseen(d) /\ d # c
      BY <1>2, <1>3
    <2>2. role[d] = "none" /\ \A i \in DOMAIN events : events[i].conn = d => events[i].type = "Lost"
      BY <2>1 DEF IdFacts, UnseenFacts
    <2> QED BY <1>1, <1>6, <2>1, <2>2 DEF EventsGrow
  <1>9. EarlyFacts'
    <2> SUFFICES ASSUME NEW d \in Peer, Early(d)'
                 PROVE  /\ role'[d] \in {"none", "guest"}
                        /\ \A i \in DOMAIN events' : events'[i].conn = d => events'[i].type \in {"Connected", "Lost"}
      BY DEF EarlyFacts
    <2>1. /\ role[d] \in {"none", "guest"}
          /\ \A i \in DOMAIN events : events[i].conn = d => events[i].type \in {"Connected", "Lost"}
      <3>1. CASE d = c
        BY <1>1, <3>1 DEF IdFacts, UnseenFacts
      <3>2. CASE d # c
        <4>1. Early(d)
          BY <1>1, <3>2 DEF Early
        <4> QED BY <4>1 DEF IdFacts, EarlyFacts
      <3> QED BY <3>1, <3>2
    <2> QED BY <1>1, <1>6, <2>1 DEF EventsGrow
  <1>10. LostFacts'
    <2> SUFFICES ASSUME NEW d \in Peer, Pending("Lost", d)'
                 PROVE  d \notin DOMAIN peers' /\ d < nextId'
      BY DEF LostFacts
    <2>1. PICK i \in DOMAIN events' : events'[i] = Event("Lost", d)
      BY DEF Pending
    <2>2. events'[i].type = "Lost"
      BY <2>1, EventValue
    <2>3. i \in DOMAIN events /\ events[i] = events'[i]
      BY <1>6, <2>2 DEF EventsGrow
    <2>4. Pending("Lost", d)
      BY <2>1, <2>3 DEF Pending
    <2> QED BY <1>1, <2>4 DEF IdFacts, LostFacts
  <1>11. NewFacts'
    <2>1. ASSUME NEW d \in Peer, Pending("Connected", d)'
          PROVE  role'[d] = "none"
      <3>1. PICK i \in DOMAIN events' : events'[i] = Event("Connected", d)
        BY <2>1 DEF Pending
      <3>2. events'[i].conn = d
        BY <3>1, EventValue
      <3>3. CASE d = c
        BY <1>1, <3>3 DEF IdFacts, UnseenFacts
      <3>4. CASE d # c
        <4>1. i \in DOMAIN events /\ events[i] = events'[i]
          BY <1>6, <3>2, <3>4 DEF EventsGrow
        <4>2. Pending("Connected", d)
          BY <3>1, <4>1 DEF Pending
        <4> QED BY <1>1, <4>2 DEF IdFacts, NewFacts
      <3> QED BY <3>3, <3>4
    <2>2. ASSUME NEW i \in DOMAIN events', NEW j \in DOMAIN events', i < j,
                 events'[j].type = "Connected", events'[i].conn = events'[j].conn
          PROVE  events'[i].type = "Lost"
      <3>1. i \in Nat /\ j \in Nat
        BY DEF SupTypes
      <3>2. CASE j \in DOMAIN events
        <4>1. i \in DOMAIN events /\ events[i] = events'[i] /\ events[j] = events'[j]
          BY <1>6, <2>2, <3>1, <3>2 DEF EventsGrow
        <4> QED BY <2>2, <3>2, <4>1 DEF IdFacts, NewFacts
      <3>3. CASE j \notin DOMAIN events
        <4>1. i \in DOMAIN events /\ events[i] = events'[i] /\ events'[j].conn = c
          BY <1>1, <1>6, <2>2, <3>1, <3>3 DEF EventsGrow
        <4> QED BY <1>1, <2>2, <4>1 DEF IdFacts, UnseenFacts
      <3> QED BY <3>2, <3>3
    <2> QED BY <2>1, <2>2 DEF NewFacts
  <1> QED BY <1>7, <1>8, <1>9, <1>10, <1>11 DEF IdFacts

\* What a frame says of its connection.
LEMMA MovesSay ==
    ASSUME SupTypes, NEW c, NEW E, Moves(c, E), NEW e \in E
    PROVE  /\ e.conn = c /\ e.type \in {"Verified", "Form", "Frame"}
           /\ flows'[c].stage \notin EarlyStage
  BY EventValue DEF Moves, Passes, EarlyStage, FlowType, Stage

\* Moving a flow keeps identifiers and announcements unique.
LEMMA MovesIds ==
    ASSUME SupTypes, SupTypes', IdFacts, NEW c, NEW E, Moves(c, E)
    PROVE  IdFacts'
PROOF
  <1>1. /\ c \in DOMAIN flows /\ c \in Peer /\ nextId' = nextId /\ connects' = connects
        /\ role' = role /\ RoomIdle /\ peers' = peers
        /\ DOMAIN flows' = DOMAIN flows /\ \A d \in DOMAIN flows : d # c => flows'[d] = flows[d]
        /\ EventsGrow(E)
    BY DEF Moves, RoomIdle, SupTypes
  <1>2. /\ \A e \in E : e.conn = c /\ e.type \in {"Verified", "Form", "Frame"}
        /\ E # {} => flows'[c].stage \notin EarlyStage
    BY MovesSay
  <1>3. \A d : Unseen(d)' <=> Unseen(d)
    BY <1>1 DEF Unseen
  <1>4. ConnectFacts'
    BY <1>1, <1>3 DEF ConnectFacts, IdFacts
  <1>5. ~ Unseen(c)
    BY <1>1 DEF IdFacts, ConnectFacts
  <1>6. UnseenFacts'
    <2> SUFFICES ASSUME NEW d \in Peer, Unseen(d)'
                 PROVE  /\ role'[d] = "none"
                        /\ \A i \in DOMAIN events' : events'[i].conn = d => events'[i].type = "Lost"
      BY DEF UnseenFacts
    <2>1. Unseen(d) /\ d # c
      BY <1>3, <1>5
    <2>2. role[d] = "none" /\ \A i \in DOMAIN events : events[i].conn = d => events[i].type = "Lost"
      BY <2>1 DEF IdFacts, UnseenFacts
    <2> QED BY <1>1, <1>2, <2>1, <2>2 DEF EventsGrow
  <1>7. \A d \in Peer : Early(d)' => Early(d)
    BY <1>1 DEF Early, Moves, Passes, EarlyStage
  <1>8. EarlyFacts'
    <2> SUFFICES ASSUME NEW d \in Peer, Early(d)'
                 PROVE  /\ role'[d] \in {"none", "guest"}
                        /\ \A i \in DOMAIN events' : events'[i].conn = d => events'[i].type \in {"Connected", "Lost"}
      BY DEF EarlyFacts
    <2>1. /\ role[d] \in {"none", "guest"}
          /\ \A i \in DOMAIN events : events[i].conn = d => events[i].type \in {"Connected", "Lost"}
      BY <1>7 DEF IdFacts, EarlyFacts
    <2>2. d # c \/ E = {}
      BY <1>2 DEF Early
    <2> QED BY <1>1, <1>2, <2>1, <2>2 DEF EventsGrow
  <1>9. LostFacts'
    <2> SUFFICES ASSUME NEW d \in Peer, Pending("Lost", d)'
                 PROVE  d \notin DOMAIN peers' /\ d < nextId'
      BY DEF LostFacts
    <2>1. PICK i \in DOMAIN events' : events'[i] = Event("Lost", d)
      BY DEF Pending
    <2>2. events'[i].type = "Lost"
      BY <2>1, EventValue
    <2>3. i \in DOMAIN events /\ events[i] = events'[i]
      BY <1>1, <1>2, <2>2 DEF EventsGrow
    <2>4. Pending("Lost", d)
      BY <2>1, <2>3 DEF Pending
    <2> QED BY <1>1, <2>4 DEF IdFacts, LostFacts
  <1>10. NewFacts'
    <2>1. \A e \in E : e.type # "Connected"
      BY <1>2
    <2> QED BY <1>1, <2>1, NewGrows DEF IdFacts
  <1> QED BY <1>4, <1>6, <1>8, <1>9, <1>10 DEF IdFacts

\* Whom a batch speaks to, has been seen, and is past the password.
LEMMA DeliversSay ==
    ASSUME SupTypes, RunFacts, NEW b, NEW S, NEW A, Delivers(b, S, A), NEW c \in Peer
    PROVE  /\ c \in S \/ c \in A => ~ Unseen(c) /\ ~ Early(c)
           /\ c \in b.close => role[c] = "none" /\ ~ Pending("Connected", c) /\ ~ Unseen(c)
PROOF
  <1>1. PICK i \in DOMAIN actions : actions[i] = b
    BY DEF Delivers, ActionsTake
  <1>2. c \in S \/ c \in A => b.tell[c] # "none"
    BY DEF Delivers
  <1> QED BY <1>1, <1>2 DEF RunFacts, TellFacts, CloseFacts, Delivers

\* Executing a batch keeps identifiers and announcements unique.
LEMMA DeliversIds ==
    ASSUME SupTypes, SupTypes', IdFacts, RunFacts, NEW b, NEW S, NEW A, Delivers(b, S, A)
    PROVE  IdFacts'
PROOF
  <1> DEFINE E == {Event("Lost", d) : d \in S}
  <1>1. /\ nextId' = nextId /\ connects' = connects /\ S \subseteq Peer
        /\ role' = role /\ RoomIdle /\ EventsGrow(E)
        /\ DOMAIN peers' = DOMAIN peers \ (S \cup b.close)
        /\ DOMAIN flows' \subseteq DOMAIN flows
        /\ \A d \in DOMAIN flows' : flows'[d].stage = flows[d].stage
    BY DEF Delivers, RoomIdle
  <1>2. \A e \in E : e.type = "Lost" /\ e.conn \in S
    BY EventValue
  <1>3. \A d : Event("Lost", d) \in E => d \in S
    BY <1>2, EventValue
  <1> HIDE DEF E
  <1>4. \A d : Unseen(d)' <=> Unseen(d)
    BY <1>1 DEF Unseen
  <1>5. ConnectFacts'
    BY <1>1, <1>4 DEF ConnectFacts, IdFacts
  <1>6. UnseenFacts'
    BY <1>1, <1>2, <1>4 DEF UnseenFacts, IdFacts, EventsGrow
  <1>7. EarlyFacts'
    <2>1. \A d \in Peer : Early(d)' => Early(d)
      BY <1>1 DEF Early
    <2> QED BY <1>1, <1>2, <2>1 DEF EarlyFacts, IdFacts, EventsGrow
  <1>8. LostFacts'
    <2> SUFFICES ASSUME NEW d \in Peer, Pending("Lost", d)'
                 PROVE  d \notin DOMAIN peers' /\ d < nextId'
      BY DEF LostFacts
    <2>1. PICK i \in DOMAIN events' : events'[i] = Event("Lost", d)
      BY DEF Pending
    <2>2. CASE i \in DOMAIN events
      <3>1. Pending("Lost", d)
        BY <1>1, <2>1, <2>2 DEF Pending, EventsGrow
      <3> QED BY <1>1, <3>1 DEF IdFacts, LostFacts
    <2>3. CASE i \notin DOMAIN events
      <3>1. d \in S
        BY <1>1, <1>3, <2>1, <2>3 DEF EventsGrow
      <3>2. ~ Unseen(d)
        BY <3>1, DeliversSay
      <3>3. d \in Nat /\ nextId \in Nat
        BY PeerFacts DEF SupTypes
      <3> QED BY <1>1, <3>1, <3>2, <3>3 DEF Unseen
    <2> QED BY <2>2, <2>3
  <1>9. NewFacts'
    <2>1. \A e \in E : e.type # "Connected"
      BY <1>2
    <2> QED BY <1>1, <2>1, NewGrows DEF IdFacts
  <1> QED BY <1>5, <1>6, <1>7, <1>8, <1>9 DEF IdFacts

\* The end of the run keeps identifiers and announcements unique.
LEMMA EndsIds ==
    ASSUME SupTypes, IdFacts, Ends
    PROVE  IdFacts'
PROOF
  <1>1. /\ nextId' = nextId /\ role' = role /\ DOMAIN peers' = {} /\ DOMAIN flows' = {}
        /\ DOMAIN events' = {} /\ DOMAIN connects' = {}
    BY DEF Ends, RoomIdle
  <1>2. \A d : Unseen(d)' => Unseen(d)
    BY <1>1 DEF Unseen
  <1> QED BY <1>1, <1>2 DEF IdFacts, ConnectFacts, UnseenFacts, EarlyFacts, LostFacts, NewFacts,
                            Pending, Early

\* An arrival changes nothing about the connections the room has not seen.
LEMMA ArrivesUnseen ==
    ASSUME SupTypes, SupTypes', IdFacts, Arrives(nextId)
    PROVE  \A d \in Peer : Unseen(d)' <=> Unseen(d)
PROOF
  <1>1. PICK c : c = nextId
    OBVIOUS
  <1>2. c \in Peer /\ nextId' = c + 1 /\ connects' = Append(connects, c)
    BY <1>1 DEF Arrives
  <1>3. /\ Len(connects) \in Nat /\ DOMAIN connects = 1..Len(connects)
        /\ DOMAIN connects' = 1..(Len(connects) + 1)
        /\ connects'[Len(connects) + 1] = c
        /\ \A i \in DOMAIN connects : connects'[i] = connects[i]
    BY <1>2 DEF SupTypes
  <1>4. \A d \in Peer : d \in Nat
    BY PeerFacts
  <1> TAKE d \in Peer
  <1>5. (\E i \in DOMAIN connects' : connects'[i] = d) <=> (d = c \/ \E i \in DOMAIN connects : connects[i] = d)
    BY <1>3
  <1>6. d >= nextId' <=> d >= nextId /\ d # c
    BY <1>1, <1>2, <1>4
  <1>7. d = c => d >= nextId
    BY <1>1, <1>4
  <1> QED BY <1>5, <1>6, <1>7 DEF Unseen

\* An arrival keeps identifiers and announcements unique.
LEMMA ArrivesIds ==
    ASSUME SupTypes, SupTypes', IdFacts, Arrives(nextId)
    PROVE  IdFacts'
PROOF
  <1>1. PICK c : c = nextId
    OBVIOUS
  <1>2. /\ c \in Peer /\ nextId' = c + 1 /\ role' = role /\ DOMAIN peers' = DOMAIN peers \cup {c}
        /\ events' = events /\ flows' = flows /\ connects' = Append(connects, c)
    BY <1>1 DEF Arrives, RoomIdle
  <1>3. /\ Len(connects) \in Nat /\ DOMAIN connects = 1..Len(connects)
        /\ DOMAIN connects' = 1..(Len(connects) + 1)
        /\ connects'[Len(connects) + 1] = c
        /\ \A i \in DOMAIN connects : connects'[i] = connects[i] /\ connects[i] \in Peer
    BY <1>2 DEF SupTypes
  <1>4. \A d \in Peer : d \in Nat
    BY PeerFacts
  <1>5. \A d \in Peer : Unseen(d)' <=> Unseen(d)
    BY ArrivesUnseen
  <1>6. \A i \in DOMAIN connects' : i \in DOMAIN connects \/ (connects'[i] = c /\ i = Len(connects) + 1)
    BY <1>3
  <1>7. \A i \in DOMAIN connects : connects[i] < c
    BY <1>1 DEF IdFacts, ConnectFacts
  <1>8. \A i \in DOMAIN connects' : connects'[i] < nextId'
    BY <1>2, <1>3, <1>4, <1>6, <1>7
  <1>9. \A i, j \in DOMAIN connects' : connects'[i] = connects'[j] => i = j
    <2>1. \A i \in DOMAIN connects : connects[i] # c
      BY <1>2, <1>3, <1>4, <1>7
    <2> QED BY <1>3, <1>6, <2>1 DEF IdFacts, ConnectFacts
  <1>10. ConnectFacts'
    <2>1. \A d \in DOMAIN flows' : ~ Unseen(d)'
      BY <1>2, <1>5 DEF IdFacts, ConnectFacts, SupTypes
    <2>2. \A d \in DOMAIN peers' : d < nextId'
      BY <1>1, <1>2, <1>4 DEF IdFacts, ConnectFacts, SupTypes
    <2> QED BY <1>8, <1>9, <2>1, <2>2 DEF ConnectFacts
  <1>11. UnseenFacts' /\ EarlyFacts'
    BY <1>2, <1>5 DEF IdFacts, UnseenFacts, EarlyFacts, Early
  <1>12. NewFacts'
    BY <1>2 DEF IdFacts, NewFacts, Pending
  <1>13. LostFacts'
    <2> SUFFICES ASSUME NEW d \in Peer, Pending("Lost", d)'
                 PROVE  d \notin DOMAIN peers' /\ d < nextId'
      BY DEF LostFacts
    <2>1. Pending("Lost", d)
      BY <1>2 DEF Pending
    <2>2. d \notin DOMAIN peers /\ d < c
      BY <1>1, <2>1 DEF IdFacts, LostFacts
    <2> QED BY <1>2, <1>4, <2>2
  <1> QED BY <1>10, <1>11, <1>12, <1>13 DEF IdFacts

\* The event the room answers was at the head of the queue.
LEMMA AnswersHead ==
    ASSUME SupTypes, NEW type, NEW p, Answers(type, p)
    PROVE  /\ type # "None" => /\ EventsTake /\ events[1] = Event(type, p)
                               /\ events[1].type = type /\ events[1].conn = p
           /\ type = "None" => events' = events
           /\ \A c \in Peer : RoleStep(type, p, c)
           /\ \A t, c : Pending(t, c)' => Pending(t, c)
           /\ \A i \in DOMAIN events' :
                 \E j \in DOMAIN events : events[j] = events'[i] /\ (type # "None" => 1 < j)
PROOF
  <1>1. CASE events' = events /\ type = "None" /\ p = 0
    BY <1>1 DEF Answers, GateStep, Pending
  <1>2. CASE EventsTake /\ events[1] \in EventType /\ events[1].type = type /\ events[1].conn = p
    <2>1. events[1] = Event(type, p) /\ type \in PeerEvent \cup RoomEvent
      BY <1>2, EventIs
    <2>2. type # "None"
      BY <2>1 DEF PeerEvent, RoomEvent
    <2>3. \A i \in DOMAIN events' : \E j \in DOMAIN events : events[j] = events'[i] /\ 1 < j
      BY <1>2 DEF EventsTake
    <2> QED BY <1>2, <2>1, <2>2, <2>3 DEF Answers, GateStep, Pending
  <1> QED BY <1>1, <1>2 DEF Answers

\* The room gives no role to a connection it has not been told of.
LEMMA AnswersRole ==
    ASSUME SupTypes, IdFacts, NEW type, NEW p, Answers(type, p), NEW c \in Peer
    PROVE  /\ Unseen(c) => role'[c] = "none"
           /\ Early(c) => role'[c] \in {"none", "guest"}
           /\ role[c] = "none" /\ ~ Pending("Connected", c) => role'[c] = "none"
           /\ Pending("Connected", c)' => role'[c] = "none"
PROOF
  <1>1. RoleStep(type, p, c)
    BY AnswersHead
  <1>2. type # "None" => 1 \in DOMAIN events /\ events[1] = Event(type, p)
                         /\ events[1].type = type /\ events[1].conn = p
    BY AnswersHead DEF EventsTake
  <1>3. p = c /\ type = "Connected" => Pending("Connected", c)
    BY <1>2 DEF Pending
  <1>4. Unseen(c) => role'[c] = "none"
    <2> SUFFICES ASSUME Unseen(c) PROVE role'[c] = "none"
      OBVIOUS
    <2>1. role[c] = "none" /\ ~ (p = c /\ type = "Connected")
      BY <1>2 DEF IdFacts, UnseenFacts
    <2> QED BY <1>1, <2>1 DEF RoleStep
  <1>5. Early(c) => role'[c] \in {"none", "guest"}
    <2> SUFFICES ASSUME Early(c) PROVE role'[c] \in {"none", "guest"}
      OBVIOUS
    <2>1. role[c] \in {"none", "guest"} /\ ~ (p = c /\ type = "Verified")
      BY <1>2 DEF IdFacts, EarlyFacts
    <2> QED BY <1>1, <2>1 DEF RoleStep
  <1>6. role[c] = "none" /\ ~ Pending("Connected", c) => role'[c] = "none"
    BY <1>1, <1>3 DEF RoleStep
  <1>7. Pending("Connected", c)' => role'[c] = "none"
    <2> SUFFICES ASSUME Pending("Connected", c)' PROVE role'[c] = "none"
      OBVIOUS
    <2>1. PICK i \in DOMAIN events' : events'[i] = Event("Connected", c)
      BY DEF Pending
    <2>2. events'[i].type = "Connected" /\ events'[i].conn = c
      BY <2>1, EventValue
    <2>3. PICK j \in DOMAIN events : events[j] = events'[i] /\ (type # "None" => 1 < j)
      BY AnswersHead
    <2>4. role[c] = "none"
      BY <2>1, <2>3 DEF IdFacts, NewFacts, Pending
    <2>5. ~ (p = c /\ type = "Connected")
      <3> SUFFICES ASSUME p = c, type = "Connected" PROVE FALSE
        OBVIOUS
      <3>1. 1 \in DOMAIN events /\ 1 < j /\ events[1].type = "Connected" /\ events[1].conn = c
        BY <1>2, <2>3
      <3>2. events[j].type = "Connected" /\ events[1].conn = events[j].conn
        BY <2>2, <2>3, <3>1
      <3> QED BY <3>1, <3>2 DEF IdFacts, NewFacts
    <2> QED BY <1>1, <2>4, <2>5 DEF RoleStep
  <1> QED BY <1>4, <1>5, <1>6, <1>7

\* An answer of the room keeps identifiers and announcements unique.
LEMMA AnswersIds ==
    ASSUME SupTypes, SupTypes', IdFacts, NEW type, NEW p, Answers(type, p)
    PROVE  IdFacts'
PROOF
  <1>1. UNCHANGED <<nextId, peers, connects, flows>>
    BY DEF Answers
  <1>2. \A c : (Unseen(c)' <=> Unseen(c)) /\ (Early(c)' <=> Early(c))
    BY <1>1 DEF Unseen, Early
  <1>3. \A i \in DOMAIN events' : \E j \in DOMAIN events : events[j] = events'[i]
    BY AnswersHead
  <1>4. ConnectFacts'
    BY <1>1, <1>2 DEF IdFacts, ConnectFacts
  <1>5. UnseenFacts'
    BY <1>2, <1>3, AnswersRole DEF IdFacts, UnseenFacts
  <1>6. EarlyFacts'
    BY <1>2, <1>3, AnswersRole DEF IdFacts, EarlyFacts
  <1>7. LostFacts'
    <2>1. \A c : Pending("Lost", c)' => Pending("Lost", c)
      BY AnswersHead
    <2> QED BY <1>1, <2>1 DEF IdFacts, LostFacts
  <1>8. NewFacts'
    <2>1. \A c \in Peer : Pending("Connected", c)' => role'[c] = "none"
      BY AnswersRole
    <2>2. ASSUME NEW i \in DOMAIN events', NEW j \in DOMAIN events', i < j,
                 events'[j].type = "Connected", events'[i].conn = events'[j].conn
          PROVE  events'[i].type = "Lost"
      <3>1. CASE type = "None"
        <4>1. events' = events
          BY <3>1, AnswersHead
        <4> QED BY <2>2, <4>1 DEF IdFacts, NewFacts
      <3>2. CASE type # "None"
        <4>1. /\ i + 1 \in DOMAIN events /\ events'[i] = events[i + 1]
              /\ j + 1 \in DOMAIN events /\ events'[j] = events[j + 1]
          BY <3>2, AnswersHead DEF EventsTake
        <4>2. i \in Nat /\ j \in Nat
          BY DEF SupTypes
        <4>3. i + 1 < j + 1
          BY <2>2, <4>2
        <4>4. /\ events[j + 1].type = "Connected" /\ events[i + 1].conn = events[j + 1].conn
          BY <2>2, <4>1
        <4>5. events[i + 1].type = "Lost"
          BY <4>1, <4>3, <4>4 DEF IdFacts, NewFacts
        <4> QED BY <4>1, <4>5
      <3> QED BY <3>1, <3>2
    <2> QED BY <2>1, <2>2 DEF NewFacts
  <1> QED BY <1>4, <1>5, <1>6, <1>7, <1>8 DEF IdFacts

\* Every kind of step keeps identifiers and announcements unique.
LEMMA IdsStep ==
    ASSUME SupTypes, SupTypes', IdFacts, RunFacts, Kind
    PROVE  IdFacts'
  BY CalmIds, OpensIds, MovesIds, DeliversIds, EndsIds, ArrivesIds, AnswersIds DEF Kind

-----------------------------------------------------------------------------
(* Nobody enters without the password and an invitation *)

\* A queue that grows by something else than announcements is as timely.
LEMMA TimelyGrows ==
    ASSUME SupTypes, NewFacts, RoomIdle, NEW E, EventsGrow(E), \A e \in E : e.type # "Connected",
           NEW c \in DOMAIN flows, Timely(c),
           c \in DOMAIN flows', flows'[c].token = flows[c].token, flows'[c].lagged = flows[c].lagged
    PROVE  Timely(c)'
PROOF
  <1>1. UNCHANGED <<role, roomToken>>
    BY DEF RoomIdle
  <1>2. Pending("Connected", c)' => Pending("Connected", c)
    BY NewGrows
  <1>3. ASSUME NEW i \in DOMAIN events', NEW j \in DOMAIN events', i < j,
               events'[j] = Event("Connected", c), ~ flows[c].lagged
        PROVE  events'[i].type # "NewId"
    <2>1. events'[j].type = "Connected"
      BY <1>3, EventValue
    <2>2. /\ j \in DOMAIN events /\ events[j] = events'[j]
          /\ i \in DOMAIN events /\ events[i] = events'[i]
      BY <1>3, <2>1, OldConnected
    <2> QED BY <1>3, <2>2 DEF Timely
  <1>4. flows[c].lagged <=> flows'[c].lagged
    OBVIOUS
  <1> QED BY <1>1, <1>2, <1>3, <1>4 DEF Timely

\* A calm step keeps what each flow has shown, and under which invitation.
LEMMA CalmEntry ==
    ASSUME SupTypes, IdFacts, EntryFacts, NEW E, Calm(E)
    PROVE  EntryFacts'
PROOF
  <1>1. RoomIdle /\ EventsGrow(E) /\ Shrinks /\ UNCHANGED <<token, actions, roomToken>>
        /\ \A e \in E : e.type # "Connected"
    BY CalmSays DEF Calm, RoomIdle
  <1>2. ASSUME NEW c \in DOMAIN flows'
        PROVE  Shown(c)' /\ Timely(c)'
    <2>1. c \in DOMAIN flows /\ flows'[c] = flows[c] /\ Shown(c) /\ Timely(c)
      BY <1>1, <1>2 DEF Shrinks, EntryFacts
    <2>2. flows'[c].token = flows[c].token /\ flows'[c].lagged = flows[c].lagged
      BY <2>1
    <2>3. Timely(c)'
      BY <1>1, <2>1, <2>2, TimelyGrows DEF IdFacts
    <2> QED BY <1>1, <2>1, <2>3 DEF Shown
  <1> QED BY <1>1, <1>2 DEF EntryFacts

\* Opening a flow keeps what the flows have shown.
LEMMA OpensEntry ==
    ASSUME SupTypes, IdFacts, EntryFacts, NEW c, Opens(c)
    PROVE  EntryFacts'
PROOF
  <1>1. PICK e : e = Event("Connected", c)
    OBVIOUS
  <1>2. /\ RoomIdle /\ EventsGrow({e}) /\ UNCHANGED <<token, actions, roomToken, role>>
        /\ e.type = "Connected" /\ e.conn = c
        /\ c \in Peer /\ Unseen(c) /\ c \notin DOMAIN flows
        /\ DOMAIN flows' = DOMAIN flows \cup {c} /\ flows'[c] = NewFlow
        /\ \A d \in DOMAIN flows : flows'[d] = flows[d]
    BY <1>1, EventValue DEF Opens, RoomIdle
  <1>3. Shown(c)'
    BY <1>2 DEF Shown, NewFlow, EntryFacts
  <1>4. Timely(c)'
    <2>1. flows'[c].token = token /\ (flows'[c].lagged <=> RotationOnItsWay)
      BY <1>2 DEF NewFlow
    <2>2. ASSUME ~ RotationOnItsWay
          PROVE  /\ token = roomToken
                 /\ \A i \in DOMAIN events : events[i].type # "NewId"
      BY <2>2 DEF RotationOnItsWay
    <2>3. ~ RotationOnItsWay => \A i \in DOMAIN events' : events'[i].type # "NewId"
      BY <1>2, <2>2 DEF EventsGrow
    <2> QED BY <1>2, <2>1, <2>2, <2>3 DEF Timely
  <1>5. ASSUME NEW d \in DOMAIN flows
        PROVE  Shown(d)' /\ Timely(d)'
    <2>1. d # c /\ flows'[d] = flows[d] /\ Shown(d) /\ Timely(d)
      BY <1>2 DEF EntryFacts
    <2>2. \A j \in DOMAIN events' : events'[j] = Event("Connected", d) => j \in DOMAIN events /\ events[j] = events'[j]
      <3> TAKE j \in DOMAIN events'
      <3> HAVE events'[j] = Event("Connected", d)
      <3>1. events'[j].conn = d
        BY EventValue
      <3> QED BY <1>2, <2>1, <3>1 DEF EventsGrow
    <2>3. Pending("Connected", d)' => Pending("Connected", d)
      BY <2>2 DEF Pending
    <2>4. ASSUME NEW i \in DOMAIN events', NEW j \in DOMAIN events', i < j, ~ flows[d].lagged,
                 events'[j] = Event("Connected", d)
          PROVE  events'[i].type # "NewId"
      <3>1. j \in DOMAIN events /\ events[j] = events'[j]
        BY <2>2, <2>4
      <3>2. i \in Nat /\ j \in Nat
        BY <1>2 DEF EventsGrow
      <3>3. ~ (j < i)
        BY <2>4, <3>2
      <3>4. i \in DOMAIN events /\ events[i] = events'[i]
        BY <1>2, <3>1, <3>3 DEF EventsGrow
      <3> QED BY <2>1, <2>4, <3>1, <3>4 DEF Timely
    <2>5. Timely(d)'
      BY <1>2, <2>1, <2>3, <2>4 DEF Timely
    <2> QED BY <1>2, <2>1, <2>5 DEF Shown
  <1> QED BY <1>2, <1>3, <1>4, <1>5 DEF EntryFacts

\* Moving a flow keeps that order: verified before the form, the form before
\* any frame.
LEMMA MovesEntry ==
    ASSUME SupTypes, IdFacts, EntryFacts, NEW c, NEW E, Moves(c, E)
    PROVE  EntryFacts'
PROOF
  <1>1. /\ RoomIdle /\ EventsGrow(E) /\ UNCHANGED <<token, actions, roomToken>>
        /\ c \in DOMAIN flows /\ DOMAIN flows' = DOMAIN flows
        /\ \A d \in DOMAIN flows : d # c => flows'[d] = flows[d]
        /\ flows'[c].token = flows[c].token /\ flows'[c].lagged = flows[c].lagged
        /\ \A e \in E : e.type # "Connected"
    BY MovesSay DEF Moves, RoomIdle
  <1>2. ASSUME NEW d \in DOMAIN flows
        PROVE  Shown(d)' /\ Timely(d)'
    <2>1. Shown(d) /\ Timely(d)
      BY DEF EntryFacts
    <2>2. flows'[d].token = flows[d].token /\ flows'[d].lagged = flows[d].lagged
      BY <1>1
    <2>3. Timely(d)'
      BY <1>1, <2>1, <2>2, TimelyGrows DEF IdFacts
    <2>4. CASE d # c
      BY <1>1, <2>1, <2>3, <2>4 DEF Shown
    <2>5. CASE d = c
      <3>1. Passes(c, flows'[c].stage, flows'[c].shown, E)
        BY DEF Moves
      <3>2. Shown(c)'
        BY <1>1, <2>1, <2>5, <3>1 DEF Shown, Passes
      <3> QED BY <2>3, <2>5, <3>2
    <2> QED BY <2>4, <2>5
  <1> QED BY <1>1, <1>2 DEF EntryFacts

\* Executing a batch keeps what the flows have shown.
LEMMA DeliversEntry ==
    ASSUME SupTypes, IdFacts, EntryFacts, NEW b, NEW S, NEW A, Delivers(b, S, A)
    PROVE  EntryFacts'
PROOF
  <1> DEFINE E == {Event("Lost", d) : d \in S}
  <1>1. /\ RoomIdle /\ EventsGrow(E) /\ UNCHANGED <<roomToken>> /\ ActionsTake(b)
        /\ \A d \in DOMAIN flows' : /\ d \in DOMAIN flows /\ flows'[d].token = flows[d].token
                                    /\ flows'[d].lagged = flows[d].lagged
                                    /\ flows'[d].stage = flows[d].stage
                                    /\ flows'[d].shown = flows[d].shown
        /\ token' = IF b.token # 0 THEN b.token ELSE token
    BY DEF Delivers, RoomIdle
  <1>2. \A e \in E : e.type # "Connected"
    BY EventValue
  <1> HIDE DEF E
  <1>3. ASSUME NEW d \in DOMAIN flows'
        PROVE  Shown(d)' /\ Timely(d)'
    <2>1. Shown(d) /\ Timely(d) /\ d \in DOMAIN flows
      BY <1>1 DEF EntryFacts
    <2>2. flows'[d].token = flows[d].token /\ flows'[d].lagged = flows[d].lagged
      BY <1>1
    <2>3. Timely(d)'
      BY <1>1, <1>2, <2>1, <2>2, TimelyGrows DEF IdFacts
    <2> QED BY <1>1, <2>1, <2>3 DEF Shown
  <1>4. token' \in 1..roomToken'
    <2>1. b.token \in Nat /\ b.token <= roomToken /\ roomToken \in Nat
      BY <1>1 DEF ActionsTake, EntryFacts, BatchType, SupTypes, RoomTypes
    <2> QED BY <1>1, <2>1 DEF EntryFacts
  <1>5. \A i \in DOMAIN actions' : actions'[i].token <= roomToken'
    BY <1>1 DEF ActionsTake, EntryFacts
  <1> QED BY <1>3, <1>4, <1>5 DEF EntryFacts

\* The end of the run keeps what the flows have shown.
LEMMA EndsEntry ==
    ASSUME EntryFacts, Ends
    PROVE  EntryFacts'
PROOF
  <1>1. UNCHANGED <<token, roomToken>> /\ DOMAIN actions' = {} /\ DOMAIN flows' = {}
    BY DEF Ends, RoomIdle
  <1> QED BY <1>1 DEF EntryFacts

\* An arrival keeps what the flows have shown.
LEMMA ArrivesEntry ==
    ASSUME EntryFacts, Arrives(nextId)
    PROVE  EntryFacts'
PROOF
  <1>1. UNCHANGED <<token, roomToken, role, actions, flows, events>>
    BY DEF Arrives, RoomIdle
  <1> QED BY <1>1 DEF EntryFacts, Shown, Timely, Pending

\* Taking the head leaves the order of the rest.
LEMMA TimelyTakes ==
    ASSUME SupTypes, SupTypes', NEW type, NEW p, Answers(type, p), NEW c,
           \A i, j \in DOMAIN events :
              i < j /\ events[j] = Event("Connected", c) => events[i].type # "NewId"
    PROVE  \A i, j \in DOMAIN events' :
              i < j /\ events'[j] = Event("Connected", c) => events'[i].type # "NewId"
PROOF
  <1> SUFFICES ASSUME NEW i \in DOMAIN events', NEW j \in DOMAIN events', i < j,
                      events'[j] = Event("Connected", c)
               PROVE  events'[i].type # "NewId"
    OBVIOUS
  <1>1. CASE type = "None"
    BY <1>1, AnswersHead
  <1>2. CASE type # "None"
    <2>1. /\ i + 1 \in DOMAIN events /\ events'[i] = events[i + 1]
          /\ j + 1 \in DOMAIN events /\ events'[j] = events[j + 1]
      BY <1>2, AnswersHead DEF EventsTake
    <2>2. i \in Nat /\ j \in Nat
      BY DEF SupTypes
    <2>3. i + 1 < j + 1
      BY <2>2
    <2> QED BY <2>1, <2>3
  <1> QED BY <1>1, <1>2

\* An answer of the room keeps what the flows have shown.
LEMMA AnswersEntry ==
    ASSUME SupTypes, SupTypes', IdFacts, EntryFacts, NEW type, NEW p, Answers(type, p)
    PROVE  EntryFacts'
PROOF
  <1>1. /\ UNCHANGED <<token, flows>> /\ batch'.token <= roomToken'
        /\ \/ roomToken' = roomToken
           \/ /\ type = "NewId" /\ roomToken' = roomToken + 1
              /\ \A c \in Peer : role'[c] \in {"none", "member"}
        /\ \A i \in DOMAIN actions : i \in DOMAIN actions' /\ actions'[i] = actions[i]
        /\ \A i \in DOMAIN actions' : i \in DOMAIN actions \/ actions'[i] = batch'
    BY DEF Answers, GateStep
  <1>2. /\ roomToken \in Nat /\ roomToken' \in Nat /\ roomToken <= roomToken' /\ token \in Nat
        /\ \A i \in DOMAIN actions : actions[i].token \in Nat
        /\ \A c \in DOMAIN flows : flows[c].token \in Nat
    <2>1. roomToken \in Nat /\ token \in Nat
      BY DEF SupTypes, RoomTypes
    <2>2. roomToken' \in Nat /\ roomToken <= roomToken'
      BY <1>1, <2>1
    <2>3. \A i \in DOMAIN actions : actions[i].token \in Nat
      <3>1. \A i \in DOMAIN actions : actions[i] \in BatchType
        BY DEF SupTypes
      <3>2. \A b \in BatchType : b.token \in Nat
        BY DEF BatchType
      <3> QED BY <3>1, <3>2
    <2>4. \A c \in DOMAIN flows : flows[c].token \in Nat
      BY DEF SupTypes, FlowType
    <2> QED BY <2>1, <2>2, <2>3, <2>4
  <1>3. token' \in 1..roomToken'
    BY <1>1, <1>2 DEF EntryFacts
  <1>4. \A i \in DOMAIN actions' : actions'[i].token <= roomToken'
    BY <1>1, <1>2 DEF EntryFacts
  <1>5. ASSUME NEW c \in DOMAIN flows
        PROVE  Shown(c)'
    <2>1. Shown(c) /\ flows'[c] = flows[c]
      BY <1>1 DEF EntryFacts
    <2>2. flows[c].token \in 1..roomToken => flows[c].token \in 1..roomToken'
      BY <1>2
    <2> QED BY <2>1, <2>2 DEF Shown
  <1>6. ASSUME NEW c \in DOMAIN flows, ~ flows[c].lagged
        PROVE  /\ \/ flows[c].token = roomToken'
                  \/ role'[c] \in {"none", "member"} /\ ~ Pending("Connected", c)'
               /\ \A i, j \in DOMAIN events' :
                     i < j /\ events'[j] = Event("Connected", c) => events'[i].type # "NewId"
    <2>1. /\ c \in Peer
          /\ \/ flows[c].token = roomToken
             \/ role[c] \in {"none", "member"} /\ ~ Pending("Connected", c)
          /\ \A i, j \in DOMAIN events :
                i < j /\ events[j] = Event("Connected", c) => events[i].type # "NewId"
      BY <1>6 DEF EntryFacts, Timely, SupTypes
    <2>2. RoleStep(type, p, c) /\ (Pending("Connected", c)' => Pending("Connected", c))
      BY <2>1, AnswersHead
    <2>3. CASE role[c] \in {"none", "member"} /\ ~ Pending("Connected", c)
      <3>1. role[c] = "none" => role'[c] = "none"
        BY <2>1, <2>3, AnswersRole
      <3>2. role'[c] \in {"none", "member"}
        BY <2>2, <2>3, <3>1 DEF RoleStep
      <3> QED BY <2>2, <2>3, <3>2, <2>1, <1>6, TimelyTakes
    <2>4. CASE flows[c].token = roomToken
      <3>1. CASE roomToken' = roomToken
        BY <2>1, <2>4, <3>1, TimelyTakes
      <3>2. CASE type = "NewId" /\ \A d \in Peer : role'[d] \in {"none", "member"}
        <4>1. ~ Pending("Connected", c)'
          <5> SUFFICES ASSUME Pending("Connected", c)' PROVE FALSE
            OBVIOUS
          <5>1. PICK i \in DOMAIN events' : events'[i] = Event("Connected", c)
            BY DEF Pending
          <5>2. PICK j \in DOMAIN events : events[j] = events'[i] /\ 1 < j
            BY <3>2, AnswersHead
          <5>3. 1 \in DOMAIN events /\ events[1].type = "NewId"
            BY <3>2, AnswersHead DEF EventsTake
          <5> QED BY <2>1, <5>1, <5>2, <5>3
        <4> QED BY <2>1, <3>2, <4>1, TimelyTakes
      <3> QED BY <1>1, <3>1, <3>2
    <2> QED BY <2>1, <2>3, <2>4
  <1>7. ASSUME NEW c \in DOMAIN flows
        PROVE  Timely(c)'
    BY <1>1, <1>6 DEF Timely
  <1> QED BY <1>1, <1>3, <1>4, <1>5, <1>7 DEF EntryFacts

\* Every kind of step keeps what the flows have shown.
LEMMA EntryStep ==
    ASSUME SupTypes, SupTypes', IdFacts, EntryFacts, Kind
    PROVE  EntryFacts'
  BY CalmEntry, OpensEntry, MovesEntry, DeliversEntry, EndsEntry, ArrivesEntry, AnswersEntry DEF Kind

-----------------------------------------------------------------------------
(* The supervisor's view while it runs *)

\* A calm step keeps what waits in the action queue consistent with the
\* room's tables while the host runs.
LEMMA CalmRun ==
    ASSUME SupTypes, SupTypes', IdFacts, RunFacts, NEW E, Calm(E)
    PROVE  RunFacts'
PROOF
  <1> SUFFICES ASSUME phase' = "running"
               PROVE  OpenFacts' /\ TellFacts' /\ CloseFacts' /\ InsideFacts'
    BY DEF RunFacts
  <1>1. /\ RoomIdle /\ EventsGrow(E) /\ Shrinks /\ UNCHANGED <<actions, role, closed>> /\ phase = "running"
        /\ \A e \in E : e.type # "Connected" /\ e.type # "CloseRequested"
        /\ \A c : Unseen(c)' => Unseen(c)
    BY CalmSays, SeenStep DEF Calm, RoomIdle, CalmEvent, IdFacts
  <1>2. OpenFacts /\ TellFacts /\ CloseFacts /\ InsideFacts
    BY <1>1 DEF RunFacts
  <1>3. OpenFacts'
    BY <1>1, <1>2 DEF OpenFacts, EventsGrow
  <1>4. \A c : Early(c)' => Early(c)
    BY <1>1 DEF Early, Shrinks
  <1>5. TellFacts'
    BY <1>1, <1>2, <1>4 DEF TellFacts
  <1>6. \A c : Pending("Connected", c)' => Pending("Connected", c)
    BY <1>1, NewGrows DEF IdFacts
  <1>7. CloseFacts'
    BY <1>1, <1>2, <1>6 DEF CloseFacts
  <1>8. InsideFacts'
    BY <1>1, <1>2 DEF InsideFacts, Shrinks
  <1> QED BY <1>3, <1>5, <1>7, <1>8

\* Opening a flow keeps the waiting batches consistent.
LEMMA OpensRun ==
    ASSUME SupTypes, SupTypes', IdFacts, RunFacts, NEW c, Opens(c)
    PROVE  RunFacts'
PROOF
  <1> SUFFICES ASSUME phase' = "running"
               PROVE  OpenFacts' /\ TellFacts' /\ CloseFacts' /\ InsideFacts'
    BY DEF RunFacts
  <1>1. PICK e : e = Event("Connected", c)
    OBVIOUS
  <1>2. /\ RoomIdle /\ EventsGrow({e}) /\ UNCHANGED <<actions, role, closed, peers>> /\ phase = "running"
        /\ e.type = "Connected" /\ e.conn = c /\ Unseen(c) /\ c \in Peer /\ c \notin DOMAIN flows
        /\ DOMAIN flows' = DOMAIN flows \cup {c} /\ flows'[c] = NewFlow
        /\ \A d \in DOMAIN flows : flows'[d] = flows[d]
        /\ Seen /\ nextId' = nextId
    BY <1>1, EventValue DEF Opens, RoomIdle, Seen
  <1>3. \A d : Unseen(d)' => Unseen(d)
    BY <1>2, SeenStep DEF IdFacts
  <1>4. OpenFacts /\ TellFacts /\ CloseFacts /\ InsideFacts
    BY <1>2 DEF RunFacts
  <1>5. OpenFacts'
    BY <1>2, <1>4 DEF OpenFacts, EventsGrow
  <1>6. \A d : Early(d)' => Early(d) \/ d = c
    BY <1>2 DEF Early
  <1>7. TellFacts'
    BY <1>2, <1>3, <1>4, <1>6 DEF TellFacts
  <1>8. ASSUME NEW d, d # c, Pending("Connected", d)'
        PROVE  Pending("Connected", d)
    <2>1. PICK i \in DOMAIN events' : events'[i] = Event("Connected", d)
      BY <1>8 DEF Pending
    <2>2. events'[i].conn = d
      BY <2>1, EventValue
    <2> QED BY <1>2, <1>8, <2>1, <2>2 DEF EventsGrow, Pending
  <1>9. CloseFacts'
    BY <1>2, <1>3, <1>4, <1>8 DEF CloseFacts
  <1>10. flows'[c].stage = "AwaitingHello"
    BY <1>2 DEF NewFlow
  <1>11. InsideFacts'
    BY <1>2, <1>4, <1>10 DEF InsideFacts
  <1> QED BY <1>5, <1>7, <1>9, <1>11

\* Moving a flow keeps the waiting batches consistent.
LEMMA MovesRun ==
    ASSUME SupTypes, SupTypes', IdFacts, RunFacts, NEW c, NEW E, Moves(c, E)
    PROVE  RunFacts'
PROOF
  <1> SUFFICES ASSUME phase' = "running"
               PROVE  OpenFacts' /\ TellFacts' /\ CloseFacts' /\ InsideFacts'
    BY DEF RunFacts
  <1>1. /\ RoomIdle /\ EventsGrow(E) /\ UNCHANGED <<actions, role, closed, peers, connects, nextId>>
        /\ phase = "running" /\ c \in DOMAIN flows /\ DOMAIN flows' = DOMAIN flows
        /\ \A d \in DOMAIN flows : d # c => flows'[d] = flows[d]
        /\ Passes(c, flows'[c].stage, flows'[c].shown, E)
        /\ \A e \in E : e.type # "Connected" /\ e.type # "CloseRequested"
    BY MovesSay DEF Moves, RoomIdle
  <1>2. OpenFacts /\ TellFacts /\ CloseFacts /\ InsideFacts
    BY <1>1 DEF RunFacts
  <1>3. OpenFacts'
    BY <1>1, <1>2 DEF OpenFacts, EventsGrow
  <1>4. \A d : (Early(d)' => Early(d)) /\ (Unseen(d)' => Unseen(d))
    BY <1>1 DEF Early, Unseen, Passes, EarlyStage
  <1>5. TellFacts'
    BY <1>1, <1>2, <1>4 DEF TellFacts
  <1>6. \A d : Pending("Connected", d)' => Pending("Connected", d)
    BY <1>1, NewGrows DEF IdFacts
  <1>7. CloseFacts'
    BY <1>1, <1>2, <1>4, <1>6 DEF CloseFacts
  <1>8. InsideFacts'
    BY <1>1, <1>2 DEF InsideFacts, Passes
  <1> QED BY <1>3, <1>5, <1>7, <1>8

\* Executing a batch keeps the waiting batches consistent.
LEMMA DeliversRun ==
    ASSUME SupTypes, SupTypes', IdFacts, RunFacts, NEW b, NEW S, NEW A, Delivers(b, S, A)
    PROVE  RunFacts'
PROOF
  <1> DEFINE E == {Event("Lost", d) : d \in S}
  <1>1. /\ RoomIdle /\ EventsGrow(E) /\ ActionsTake(b) /\ phase = "running"
        /\ UNCHANGED <<role, closed, connects, nextId>>
        /\ DOMAIN peers' = DOMAIN peers \ (S \cup b.close) /\ DOMAIN flows' = DOMAIN flows \ b.close
        /\ \A d \in DOMAIN flows' : flows'[d].stage = flows[d].stage
    BY DEF Delivers, RoomIdle
  <1>2. \A e \in E : e.type # "Connected" /\ e.type # "CloseRequested"
    BY EventValue
  <1> HIDE DEF E
  <1>3. OpenFacts /\ TellFacts /\ CloseFacts /\ InsideFacts
    BY <1>1 DEF RunFacts
  <1>4. OpenFacts'
    BY <1>1, <1>2, <1>3 DEF OpenFacts, EventsGrow
  <1>5. \A d : (Early(d)' => Early(d)) /\ (Unseen(d)' => Unseen(d))
    BY <1>1 DEF Early, Unseen
  <1>6. TellFacts'
    BY <1>1, <1>3, <1>5 DEF TellFacts, ActionsTake
  <1>7. \A d : Pending("Connected", d)' => Pending("Connected", d)
    BY <1>1, <1>2, NewGrows DEF IdFacts
  <1>8. CloseFacts'
    BY <1>1, <1>3, <1>5, <1>7 DEF CloseFacts, ActionsTake
  <1>9. InsideFacts'
    <2> SUFFICES ASSUME NEW d \in DOMAIN flows', flows'[d].stage \in {"AwaitingToken", "AwaitingProof"}
                 PROVE  d \in DOMAIN peers'
      BY DEF InsideFacts
    <2>1. d \in DOMAIN peers /\ d \in Peer /\ Early(d) /\ d \notin b.close
      BY <1>1, <1>3 DEF InsideFacts, Early, EarlyStage, SupTypes
    <2>2. d \notin S
      BY <2>1, DeliversSay
    <2> QED BY <1>1, <2>1, <2>2
  <1> QED BY <1>4, <1>6, <1>8, <1>9 DEF RunFacts

\* An arrival keeps the waiting batches consistent.
LEMMA ArrivesRun ==
    ASSUME SupTypes, SupTypes', IdFacts, RunFacts, Arrives(nextId)
    PROVE  RunFacts'
PROOF
  <1>1. /\ UNCHANGED <<actions, role, closed, events, flows>> /\ phase = "running"
        /\ DOMAIN peers \subseteq DOMAIN peers'
    BY DEF Arrives, RoomIdle
  <1>2. \A d \in Peer : Unseen(d)' <=> Unseen(d)
    BY ArrivesUnseen
  <1>3. \A d : (Early(d)' <=> Early(d)) /\ (Pending("Connected", d)' <=> Pending("Connected", d))
    BY <1>1 DEF Early, Pending
  <1>4. OpenFacts /\ TellFacts /\ CloseFacts /\ InsideFacts
    BY <1>1 DEF RunFacts
  <1>5. OpenFacts' /\ InsideFacts'
    BY <1>1, <1>4 DEF OpenFacts, InsideFacts
  <1>6. TellFacts'
    BY <1>1, <1>2, <1>3, <1>4 DEF TellFacts
  <1>7. CloseFacts'
    BY <1>1, <1>2, <1>3, <1>4 DEF CloseFacts
  <1> QED BY <1>5, <1>6, <1>7 DEF RunFacts

\* An answer of the room keeps the waiting batches consistent.
LEMMA AnswersRun ==
    ASSUME SupTypes, SupTypes', IdFacts, RunFacts, NEW type, NEW p, Answers(type, p)
    PROVE  RunFacts'
PROOF
  <1> SUFFICES ASSUME phase' = "running"
               PROVE  OpenFacts' /\ TellFacts' /\ CloseFacts' /\ InsideFacts'
    BY DEF RunFacts
  <1>1. /\ UNCHANGED <<nextId, peers, connects, flows>> /\ phase = "running"
        /\ closed' => closed \/ type = "CloseRequested"
        /\ \A i \in DOMAIN actions' : (i \in DOMAIN actions /\ actions'[i] = actions[i]) \/ actions'[i] = batch'
    BY DEF Answers, GateStep
  <1>2. OpenFacts /\ TellFacts /\ CloseFacts /\ InsideFacts
    BY <1>1 DEF RunFacts
  <1>3. type # "None" => 1 \in DOMAIN events /\ events[1] = Event(type, p)
                         /\ events[1].type = type /\ events[1].conn = p
    BY AnswersHead DEF EventsTake
  <1>4. OpenFacts'
    BY <1>1, <1>2, <1>3, AnswersHead DEF OpenFacts
  <1>5. \A c : (Early(c)' <=> Early(c)) /\ (Unseen(c)' <=> Unseen(c))
    BY <1>1 DEF Early, Unseen
  <1>6. ~ closed'
    BY <1>4 DEF OpenFacts
  <1>7. ASSUME NEW c \in Peer, role[c] \in {"pending", "member"} \/ (p = c /\ type \in {"Form", "Frame"})
        PROVE  ~ Unseen(c) /\ ~ Early(c)
    BY <1>3, <1>7 DEF IdFacts, UnseenFacts, EarlyFacts
  <1>8. TellFacts'
    <2> SUFFICES ASSUME NEW i \in DOMAIN actions', NEW c \in Peer, actions'[i].tell[c] # "none"
                 PROVE  ~ Unseen(c) /\ ~ Early(c)
      BY <1>5 DEF TellFacts
    <2>1. CASE actions'[i] = batch'
      <3>1. role[c] \in {"pending", "member"} \/ (p = c /\ type \in {"Form", "Frame"})
        BY <1>6, <2>1, AnswersHead DEF RoleStep
      <3> QED BY <1>7, <3>1
    <2>2. CASE i \in DOMAIN actions /\ actions'[i] = actions[i]
      BY <1>2, <2>2 DEF TellFacts
    <2> QED BY <1>1, <2>1, <2>2
  <1>9. CloseFacts'
    <2> SUFFICES ASSUME NEW i \in DOMAIN actions', NEW c \in Peer, c \in actions'[i].close
                 PROVE  role'[c] = "none" /\ ~ Pending("Connected", c)' /\ ~ Unseen(c)
      BY <1>5 DEF CloseFacts
    <2>1. CASE actions'[i] = batch'
      <3>1. /\ role'[c] = "none"
            /\ role[c] # "none" \/ (p = c /\ type \in {"Form", "Frame"})
        BY <1>6, <2>1, AnswersHead DEF RoleStep
      <3>2. ~ Unseen(c)
        BY <1>3, <3>1 DEF IdFacts, UnseenFacts
      <3>3. ~ Pending("Connected", c)'
        <4> SUFFICES ASSUME Pending("Connected", c)' PROVE FALSE
          OBVIOUS
        <4>1. PICK k \in DOMAIN events' : events'[k] = Event("Connected", c)
          BY DEF Pending
        <4>2. PICK j \in DOMAIN events : events[j] = events'[k] /\ (type # "None" => 1 < j)
          BY AnswersHead
        <4>3. role[c] = "none"
          BY <4>1, <4>2 DEF IdFacts, NewFacts, Pending
        <4>4. p = c /\ type \in {"Form", "Frame"} /\ 1 < j /\ 1 \in DOMAIN events
          BY <1>3, <3>1, <4>2, <4>3
        <4>5. events[j].type = "Connected" /\ events[j].conn = c
          BY <4>1, <4>2, EventValue
        <4>6. events[1].conn = events[j].conn /\ events[1].type # "Lost"
          BY <1>3, <4>4, <4>5
        <4> QED BY <4>4, <4>5, <4>6 DEF IdFacts, NewFacts
      <3> QED BY <3>1, <3>2, <3>3
    <2>2. CASE i \in DOMAIN actions /\ actions'[i] = actions[i]
      <3>1. role[c] = "none" /\ ~ Pending("Connected", c) /\ ~ Unseen(c)
        BY <1>2, <2>2 DEF CloseFacts
      <3> QED BY <3>1, AnswersRole, AnswersHead
    <2> QED BY <1>1, <2>1, <2>2
  <1>10. InsideFacts'
    BY <1>1, <1>2 DEF InsideFacts
  <1> QED BY <1>4, <1>8, <1>9, <1>10

\* Every kind of step keeps the waiting batches consistent.
LEMMA RunStep ==
    ASSUME SupTypes, SupTypes', IdFacts, RunFacts, Kind
    PROVE  RunFacts'
PROOF
  <1>1. Ends => RunFacts'
    BY DEF Ends, RunFacts
  <1> QED BY <1>1, CalmRun, OpensRun, MovesRun, DeliversRun, ArrivesRun, AnswersRun DEF Kind

-----------------------------------------------------------------------------
(* The three records of a connection *)

\* What the queue has said of c it still says.
LEMMA PendingGrows ==
    ASSUME NEW E, EventsGrow(E), NEW t, NEW c
    PROVE  Pending(t, c) => Pending(t, c)'
  BY DEF EventsGrow, Pending

\* Growth by anything but announcements keeps a connection watched, as long as
\* it keeps its flow or its loss is reported.
LEMMA WatchedGrows ==
    ASSUME SupTypes, RoomIdle, NEW E, EventsGrow(E), \A e \in E : e.type # "Connected",
           NEW c \in Peer, Watched(c),
           c \in DOMAIN flows => \/ c \in DOMAIN flows' \/ Event("Lost", c) \in E
                                 \/ role[c] = "none" /\ ~ Pending("Connected", c)
    PROVE  Watched(c)'
PROOF
  <1>1. role' = role
    BY DEF RoomIdle
  <1>2. Event("Lost", c) \in E => Pending("Lost", c)'
    BY DEF EventsGrow, Pending
  <1>3. role'[c] # "none" => c \in DOMAIN flows' \/ Pending("Lost", c)'
    BY <1>1, <1>2, PendingGrows DEF Watched
  <1>4. ASSUME NEW i \in DOMAIN events', events'[i] = Event("Connected", c)
        PROVE  c \in DOMAIN flows' \/ \E j \in DOMAIN events' : i < j /\ events'[j] = Event("Lost", c)
    <2>1. events'[i].type = "Connected"
      BY <1>4, EventValue
    <2>2. i \in DOMAIN events /\ events[i] = Event("Connected", c)
      BY <1>4, <2>1, OldConnected
    <2>3. Pending("Connected", c)
      BY <2>2 DEF Pending
    <2>4. CASE \E j \in DOMAIN events : i < j /\ events[j] = Event("Lost", c)
      BY <2>4 DEF EventsGrow
    <2>5. CASE Event("Lost", c) \in E
      BY <2>2, <2>5 DEF EventsGrow
    <2> QED BY <2>2, <2>3, <2>4, <2>5 DEF Watched
  <1> QED BY <1>3, <1>4 DEF Watched

\* A calm step keeps what the supervisor records of each peer true.
LEMMA CalmRecords ==
    ASSUME SupTypes, SupTypes', IdFacts, RecordFacts, NEW E, Calm(E)
    PROVE  RecordFacts'
PROOF
  <1> SUFFICES ASSUME phase' = "running", NEW c \in Peer
               PROVE  Watched(c)' /\ Recorded(c)' /\ Flagged(c)'
    BY DEF RecordFacts
  <1>1. /\ RoomIdle /\ EventsGrow(E) /\ Shrinks /\ UNCHANGED <<actions, role>> /\ phase = "running"
        /\ \A e \in E : e.type # "Connected"
        /\ Unseen(c)' => Unseen(c)
        /\ c \in DOMAIN flows /\ c \notin DOMAIN flows' => Event("Lost", c) \in E
    BY CalmSays, SeenStep DEF Calm, RoomIdle, IdFacts
  <1>2. Watched(c) /\ Recorded(c) /\ Flagged(c)
    BY <1>1 DEF RecordFacts
  <1>3. Event("Lost", c) \in E => c \notin DOMAIN peers'
    BY CalmSays, EventValue
  <1>4. Watched(c)'
    BY <1>1, <1>2, WatchedGrows
  <1>5. (Accepted(c)' <=> Accepted(c)) /\ (Closing(c)' <=> Closing(c)) /\ (Early(c)' => Early(c))
    BY <1>1 DEF Accepted, Closing, Early, Shrinks
  <1>6. Recorded(c)'
    BY <1>1, <1>2, <1>3, <1>5 DEF Recorded, Shrinks
  <1>7. Flagged(c)'
    BY <1>1, <1>2, <1>5 DEF Flagged, Shrinks, Early
  <1> QED BY <1>4, <1>6, <1>7

\* Opening a flow keeps the records true.
LEMMA OpensRecords ==
    ASSUME SupTypes, SupTypes', IdFacts, RunFacts, RecordFacts, NEW c, Opens(c)
    PROVE  RecordFacts'
PROOF
  <1> SUFFICES ASSUME phase' = "running", NEW d \in Peer
               PROVE  Watched(d)' /\ Recorded(d)' /\ Flagged(d)'
    BY DEF RecordFacts
  <1>1. PICK e : e = Event("Connected", c)
    OBVIOUS
  <1>2. /\ EventsGrow({e}) /\ UNCHANGED <<actions, role, peers>> /\ phase = "running"
        /\ e.type = "Connected" /\ e.conn = c /\ Unseen(c) /\ c \in Peer /\ c \notin DOMAIN flows
        /\ DOMAIN flows' = DOMAIN flows \cup {c} /\ flows'[c] = NewFlow
        /\ \A f \in DOMAIN flows : flows'[f] = flows[f]
        /\ Seen /\ nextId' = nextId
    BY <1>1, EventValue DEF Opens, RoomIdle, Seen
  <1>3. Unseen(d)' => Unseen(d)
    BY <1>2, SeenStep DEF IdFacts
  <1>4. Watched(d) /\ Recorded(d) /\ Flagged(d)
    BY <1>2 DEF RecordFacts
  <1>5. flows'[c].admitted = FALSE
    BY <1>2 DEF NewFlow
  <1>6. Watched(d)'
    <2>1. role'[d] # "none" => d \in DOMAIN flows' \/ Pending("Lost", d)'
      BY <1>2, <1>4, PendingGrows DEF Watched
    <2>2. ASSUME NEW i \in DOMAIN events', events'[i] = Event("Connected", d), d # c
          PROVE  d \in DOMAIN flows' \/ \E j \in DOMAIN events' : i < j /\ events'[j] = Event("Lost", d)
      <3>1. events'[i].conn = d
        BY <2>2, EventValue
      <3>2. i \in DOMAIN events /\ events[i] = events'[i]
        BY <1>2, <2>2, <3>1 DEF EventsGrow
      <3> QED BY <1>2, <1>4, <2>2, <3>2 DEF Watched, EventsGrow
    <2> QED BY <1>2, <2>1, <2>2 DEF Watched
  <1>7. (Accepted(d)' <=> Accepted(d)) /\ (Closing(d)' <=> Closing(d))
    BY <1>2 DEF Accepted, Closing
  <1>8. Recorded(d)'
    BY <1>2, <1>4, <1>5, <1>7 DEF Recorded
  <1>9. Flagged(d)'
    BY <1>2, <1>3, <1>4, <1>5 DEF Flagged, Early, SupTypes, PeerType
  <1> QED BY <1>6, <1>8, <1>9

\* Moving a flow keeps the records true.
LEMMA MovesRecords ==
    ASSUME SupTypes, SupTypes', IdFacts, RecordFacts, NEW c, NEW E, Moves(c, E)
    PROVE  RecordFacts'
PROOF
  <1> SUFFICES ASSUME phase' = "running", NEW d \in Peer
               PROVE  Watched(d)' /\ Recorded(d)' /\ Flagged(d)'
    BY DEF RecordFacts
  <1>1. /\ RoomIdle /\ EventsGrow(E) /\ UNCHANGED <<actions, role, peers, connects, nextId>>
        /\ phase = "running" /\ c \in DOMAIN flows /\ DOMAIN flows' = DOMAIN flows
        /\ \A f \in DOMAIN flows : f # c => flows'[f] = flows[f]
        /\ flows'[c].admitted = flows[c].admitted
        /\ Passes(c, flows'[c].stage, flows'[c].shown, E)
        /\ \A e \in E : e.type # "Connected"
    BY MovesSay DEF Moves, RoomIdle
  <1>2. Watched(d) /\ Recorded(d) /\ Flagged(d)
    BY <1>1 DEF RecordFacts
  <1>3. (Early(d)' => Early(d)) /\ (Unseen(d)' => Unseen(d))
        /\ (Accepted(d)' <=> Accepted(d)) /\ (Closing(d)' <=> Closing(d))
    BY <1>1 DEF Early, Unseen, Passes, EarlyStage, Accepted, Closing
  <1>4. Watched(d)'
    BY <1>1, <1>2, WatchedGrows
  <1>5. \A f \in DOMAIN flows : flows'[f].admitted = flows[f].admitted
    BY <1>1
  <1>6. Recorded(d)'
    BY <1>1, <1>2, <1>3, <1>5 DEF Recorded
  <1>7. Flagged(d)'
    BY <1>1, <1>2, <1>3, <1>5 DEF Flagged, Early
  <1> QED BY <1>4, <1>6, <1>7

\* Executing a batch keeps the records true.
LEMMA DeliversRecords ==
    ASSUME SupTypes, SupTypes', IdFacts, RunFacts, RecordFacts, NEW b, NEW S, NEW A, Delivers(b, S, A)
    PROVE  RecordFacts'
PROOF
  <1> SUFFICES ASSUME NEW d \in Peer
               PROVE  Watched(d)' /\ Recorded(d)' /\ Flagged(d)'
    BY DEF RecordFacts
  <1> DEFINE E == {Event("Lost", c) : c \in S}
  <1>1. /\ RoomIdle /\ EventsGrow(E) /\ ActionsTake(b) /\ phase = "running"
        /\ UNCHANGED <<role, connects, nextId>>
        /\ DOMAIN peers' = DOMAIN peers \ (S \cup b.close) /\ DOMAIN flows' = DOMAIN flows \ b.close
        /\ \A c \in DOMAIN flows' : flows'[c].stage = flows[c].stage
        /\ Marks(flows, flows', A) /\ Marks(peers, peers', A) /\ A \subseteq DOMAIN peers
        /\ \A c \in A : b.tell[c] = "accepted"
        /\ \A c \in Peer : b.tell[c] = "accepted" => c \in S \cup A
    BY DEF Delivers, RoomIdle
  <1>2. \A e \in E : e.type # "Connected"
    BY EventValue
  <1> HIDE DEF E
  <1>3. Watched(d) /\ Recorded(d) /\ Flagged(d)
    BY <1>1 DEF RecordFacts
  <1>4. /\ d \in S \/ d \in A => ~ Unseen(d) /\ ~ Early(d)
        /\ d \in b.close => role[d] = "none" /\ ~ Pending("Connected", d)
    BY DeliversSay
  <1>5. (Early(d)' => Early(d)) /\ (Unseen(d)' => Unseen(d))
    BY <1>1 DEF Early, Unseen
  <1>6. Watched(d)'
    <2>1. d \in DOMAIN flows => \/ d \in DOMAIN flows' \/ Event("Lost", d) \in E
                                \/ role[d] = "none" /\ ~ Pending("Connected", d)
      BY <1>1, <1>4
    <2> QED BY <1>1, <1>2, <1>3, <2>1, WatchedGrows
  <1>7. /\ Accepted(d) => Accepted(d)' \/ d \in S \cup A
        /\ Accepted(d)' => Accepted(d)
        /\ Closing(d) => Closing(d)' \/ d \in b.close
        /\ d \in A => Accepted(d)
    BY <1>1 DEF Accepted, Closing, ActionsTake
  <1>8. role[d] = "member" => \/ d \in DOMAIN flows' /\ flows'[d].admitted
                              \/ d \notin DOMAIN peers' \/ Accepted(d)'
    <2> SUFFICES ASSUME role[d] = "member", d \in DOMAIN peers', ~ Accepted(d)'
                 PROVE  d \in DOMAIN flows' /\ flows'[d].admitted
      OBVIOUS
    <2>1. d \notin b.close /\ d \notin S /\ d \in DOMAIN peers
      BY <1>1, <1>4
    <2>2. d \in DOMAIN flows
      BY <1>3, <2>1 DEF Watched, IdFacts, LostFacts
    <2>3. d \in DOMAIN flows' /\ (flows[d].admitted \/ d \in A)
      BY <1>1, <1>3, <1>7, <2>1, <2>2 DEF Recorded
    <2> QED BY <1>1, <2>3 DEF Marks
  <1>9. (d \in DOMAIN flows' /\ flows'[d].admitted) \/ Accepted(d)' =>
          role[d] = "member" \/ d \notin DOMAIN peers' \/ Closing(d)'
    <2>1. d \in DOMAIN flows' /\ flows'[d].admitted => (d \in DOMAIN flows /\ flows[d].admitted) \/ d \in A
      BY <1>1 DEF Marks
    <2>2. (d \in DOMAIN flows' /\ flows'[d].admitted) \/ Accepted(d)' =>
             role[d] = "member" \/ d \notin DOMAIN peers \/ Closing(d)
      BY <1>3, <1>7, <2>1 DEF Recorded
    <2> QED BY <1>1, <1>7, <2>2
  <1>10. Recorded(d)'
    BY <1>1, <1>8, <1>9 DEF Recorded
  <1>11. Flagged(d)'
    <2>1. d \in DOMAIN peers' \cap DOMAIN flows' => peers'[d].admitted = flows'[d].admitted
      BY <1>1, <1>3 DEF Flagged, Marks
    <2>2. d \in DOMAIN peers' /\ Unseen(d)' => ~ peers'[d].admitted
      BY <1>1, <1>3, <1>4, <1>5 DEF Flagged, Marks
    <2>3. Early(d)' => ~ flows'[d].admitted
      BY <1>1, <1>3, <1>4, <1>5 DEF Flagged, Marks, Early
    <2> QED BY <2>1, <2>2, <2>3 DEF Flagged
  <1> QED BY <1>6, <1>10, <1>11

\* An arrival keeps the records true.
LEMMA ArrivesRecords ==
    ASSUME SupTypes, SupTypes', IdFacts, RunFacts, RecordFacts, Arrives(nextId)
    PROVE  RecordFacts'
PROOF
  <1> SUFFICES ASSUME NEW d \in Peer
               PROVE  Watched(d)' /\ Recorded(d)' /\ Flagged(d)'
    BY DEF RecordFacts
  <1>1. PICK c : c = nextId
    OBVIOUS
  <1>2. /\ UNCHANGED <<actions, role, events, flows>> /\ phase = "running"
        /\ DOMAIN peers' = DOMAIN peers \cup {c} /\ c \in Peer
        /\ peers'[c].admitted = FALSE /\ \A f \in DOMAIN peers : f # c => peers'[f] = peers[f]
    BY <1>1 DEF Arrives, RoomIdle
  <1>3. Unseen(c) /\ (Unseen(d)' <=> Unseen(d))
    BY <1>1, <1>2, ArrivesUnseen, PeerFacts DEF Unseen
  <1>4. /\ Watched(d) /\ Recorded(d) /\ Flagged(d) /\ TellFacts
    BY <1>2 DEF RecordFacts, RunFacts
  <1>5. /\ (Early(d)' <=> Early(d)) /\ (Accepted(d)' <=> Accepted(d)) /\ (Closing(d)' <=> Closing(d))
        /\ \A t : Pending(t, d)' <=> Pending(t, d)
    BY <1>2 DEF Early, Accepted, Closing, Pending
  <1>6. Watched(d)'
    BY <1>2, <1>4, <1>5 DEF Watched
  <1>7. c \notin DOMAIN flows /\ role[c] = "none" /\ ~ Accepted(c)
    <2>1. c \notin DOMAIN flows /\ role[c] = "none"
      BY <1>2, <1>3 DEF IdFacts, ConnectFacts, UnseenFacts
    <2>2. \A i \in DOMAIN actions : actions[i].tell[c] = "none"
      BY <1>2, <1>3, <1>4 DEF TellFacts
    <2> QED BY <2>1, <2>2 DEF Accepted
  <1>8. Recorded(d)'
    BY <1>2, <1>4, <1>5, <1>7 DEF Recorded
  <1>9. Flagged(d)'
    BY <1>2, <1>3, <1>4, <1>5, <1>7 DEF Flagged
  <1> QED BY <1>6, <1>8, <1>9

\* An answer of the room keeps the records true.
LEMMA AnswersRecords ==
    ASSUME SupTypes, SupTypes', IdFacts, RunFacts, RecordFacts, NEW type, NEW p, Answers(type, p)
    PROVE  RecordFacts'
PROOF
  <1> SUFFICES ASSUME phase' = "running", NEW c \in Peer
               PROVE  Watched(c)' /\ Recorded(c)' /\ Flagged(c)'
    BY DEF RecordFacts
  <1>1. /\ UNCHANGED <<nextId, peers, connects, flows>> /\ phase = "running"
        /\ \A i \in DOMAIN actions : i \in DOMAIN actions' /\ actions'[i] = actions[i]
        /\ \A i \in DOMAIN actions' : i \in DOMAIN actions \/ actions'[i] = batch'
        /\ batch'.tell[c] # "none" \/ c \in batch'.close => \E i \in DOMAIN actions' : actions'[i] = batch'
    BY DEF Answers
  <1>2. /\ RoleStep(type, p, c) /\ ~ closed
        /\ Watched(c) /\ Recorded(c) /\ Flagged(c)
    BY <1>1, AnswersHead DEF RunFacts, OpenFacts, RecordFacts
  <1>3. type # "None" => /\ 1 \in DOMAIN events /\ events[1] = Event(type, p)
                         /\ events[1].type = type /\ events[1].conn = p /\ EventsTake
    BY AnswersHead DEF EventsTake
  <1>4. type = "Lost" /\ p = c => Pending("Lost", c) /\ c \notin DOMAIN peers
    BY <1>3 DEF Pending, IdFacts, LostFacts
  <1>5. Pending("Lost", c) => Pending("Lost", c)' \/ (type = "Lost" /\ p = c)
    <2> SUFFICES ASSUME Pending("Lost", c) PROVE Pending("Lost", c)' \/ (type = "Lost" /\ p = c)
      OBVIOUS
    <2>1. PICK i \in DOMAIN events : events[i] = Event("Lost", c)
      BY DEF Pending
    <2>2. events[i].type = "Lost" /\ events[i].conn = c
      BY <2>1, EventValue
    <2>3. CASE type = "None"
      BY <2>1, <2>3, AnswersHead DEF Pending
    <2>4. CASE type # "None"
      BY <1>3, <2>1, <2>2, <2>4 DEF EventsTake, Pending
    <2> QED BY <2>3, <2>4
  <1>6. Watched(c)'
    <2>1. role'[c] # "none" => c \in DOMAIN flows' \/ Pending("Lost", c)'
      <3> SUFFICES ASSUME role'[c] # "none" PROVE c \in DOMAIN flows \/ Pending("Lost", c)'
        BY <1>1
      <3>1. ~ (type = "Lost" /\ p = c)
        BY <1>2 DEF RoleStep
      <3>2. CASE role[c] # "none"
        BY <1>2, <1>5, <3>1, <3>2 DEF Watched
      <3>3. CASE role[c] = "none"
        <4>1. p = c /\ type = "Connected"
          BY <1>2, <3>3 DEF RoleStep
        <4>2. 1 \in DOMAIN events /\ events[1] = Event("Connected", c) /\ EventsTake
          BY <1>3, <4>1
        <4>3. c \in DOMAIN flows \/ Pending("Lost", c)
          BY <1>2, <4>2 DEF Watched, Pending
        <4> QED BY <1>5, <3>1, <4>3
      <3> QED BY <3>2, <3>3
    <2>2. ASSUME NEW i \in DOMAIN events', events'[i] = Event("Connected", c)
          PROVE  c \in DOMAIN flows \/ \E j \in DOMAIN events' : i < j /\ events'[j] = Event("Lost", c)
      <3>1. CASE type = "None"
        <4>1. events' = events
          BY <3>1, AnswersHead
        <4> QED BY <1>2, <2>2, <4>1 DEF Watched
      <3>2. CASE type # "None"
        <4>1. i + 1 \in DOMAIN events /\ events[i + 1] = Event("Connected", c)
          BY <1>3, <2>2, <3>2 DEF EventsTake
        <4>2. CASE \E j \in DOMAIN events : i + 1 < j /\ events[j] = Event("Lost", c)
          <5>1. PICK j \in DOMAIN events : i + 1 < j /\ events[j] = Event("Lost", c)
            BY <4>2
          <5>2. i \in Nat /\ j \in Nat /\ i # 0
            BY DEF SupTypes
          <5>3. j # 1 /\ i < j - 1
            BY <5>1, <5>2
          <5>4. j - 1 \in DOMAIN events' /\ events'[j - 1] = events[j]
            BY <1>3, <3>2, <5>3 DEF EventsTake
          <5> QED BY <5>1, <5>3, <5>4
        <4> QED BY <1>2, <4>1, <4>2 DEF Watched
      <3> QED BY <3>1, <3>2
    <2> QED BY <1>1, <2>1, <2>2 DEF Watched
  <1>7. /\ Accepted(c) => Accepted(c)'
        /\ batch'.tell[c] = "accepted" => Accepted(c)'
        /\ Accepted(c)' => Accepted(c) \/ batch'.tell[c] = "accepted"
        /\ Closing(c) => Closing(c)'
        /\ c \in batch'.close => Closing(c)'
    BY <1>1 DEF Accepted, Closing
  <1>8. role'[c] = "member" => \/ c \in DOMAIN flows /\ flows[c].admitted
                               \/ c \notin DOMAIN peers \/ Accepted(c)'
    BY <1>2, <1>7 DEF RoleStep, Recorded
  <1>9. (c \in DOMAIN flows /\ flows[c].admitted) \/ Accepted(c)' =>
          role'[c] = "member" \/ c \notin DOMAIN peers \/ Closing(c)'
    <2>1. batch'.tell[c] = "accepted" => role'[c] = "member"
      BY <1>2 DEF RoleStep
    <2>2. role[c] = "member" => role'[c] = "member" \/ c \notin DOMAIN peers \/ Closing(c)'
      BY <1>2, <1>4, <1>7 DEF RoleStep
    <2> QED BY <1>2, <1>7, <2>1, <2>2 DEF Recorded
  <1>10. Recorded(c)'
    BY <1>1, <1>8, <1>9 DEF Recorded
  <1>11. Flagged(c)'
    BY <1>1, <1>2 DEF Flagged, Early, Unseen
  <1> QED BY <1>6, <1>10, <1>11

\* Every kind of step keeps the records true.
LEMMA RecordsStep ==
    ASSUME SupTypes, SupTypes', IdFacts, RunFacts, RecordFacts, Kind
    PROVE  RecordFacts'
PROOF
  <1>1. Ends => RecordFacts'
    BY DEF Ends, RecordFacts
  <1> QED BY <1>1, CalmRecords, OpensRecords, MovesRecords, DeliversRecords, ArrivesRecords,
             AnswersRecords DEF Kind

-----------------------------------------------------------------------------
(* The lockout bounds the guesses *)

\* The sets the gate's limits count are finite.
LEMMA GateSizes ==
    ASSUME SupTypes
    PROVE  /\ IsFiniteSet(PreAuth) /\ Cardinality(PreAuth) \in Nat
           /\ IsFiniteSet(Guessers) /\ Cardinality(Guessers) \in Nat
PROOF
  <1>1. PreAuth \subseteq Peer /\ Guessers \subseteq Peer
    BY DEF PreAuth, Guessers, SupTypes
  <1> QED BY <1>1, PeerFacts, FS_Subset, FS_CardinalityType

\* Only the accept loop adds to the connections before authentication, and it
\* stops at the cap.
LEMMA PreAuthStep ==
    ASSUME SupTypes, SupTypes', IdFacts, Cardinality(PreAuth) <= MaxPreAuth, Kind
    PROVE  Cardinality(PreAuth)' <= MaxPreAuth
PROOF
  <1>0. /\ IsFiniteSet(PreAuth) /\ Cardinality(PreAuth) \in Nat /\ Cardinality(PreAuth)' \in Nat
        /\ MaxPreAuth \in Nat
    <2>1. (PreAuth)' \subseteq Peer
      BY DEF PreAuth, SupTypes
    <2>2. Cardinality((PreAuth)') \in Nat
      BY <2>1, PeerFacts, FS_Subset, FS_CardinalityType
    <2> QED BY <2>2, GateSizes, SupervisorAssumption
  <1>1. ASSUME (PreAuth)' \subseteq PreAuth
        PROVE  Cardinality(PreAuth)' <= MaxPreAuth
    <2>1. Cardinality((PreAuth)') <= Cardinality(PreAuth)
      BY <1>0, <1>1, FS_Subset
    <2> QED BY <1>0, <2>1
  <1>2. CASE \E E : Calm(E)
    <2>1. (PreAuth)' \subseteq PreAuth
      BY <1>2 DEF Calm, Shrinks, PreAuth
    <2> QED BY <1>1, <2>1
  <1>3. CASE (\E c : Opens(c)) \/ (\E c, E : Moves(c, E)) \/ (\E type, p : Answers(type, p))
    <2>1. (PreAuth)' \subseteq PreAuth
      BY <1>3 DEF Opens, Moves, Answers, PreAuth
    <2> QED BY <1>1, <2>1
  <1>4. CASE \E b, S, A : Delivers(b, S, A)
    <2>1. (PreAuth)' \subseteq PreAuth
      BY <1>4 DEF Delivers, Marks, PreAuth
    <2> QED BY <1>1, <2>1
  <1>5. CASE Ends
    <2>1. (PreAuth)' \subseteq PreAuth
      BY <1>5 DEF Ends, PreAuth
    <2> QED BY <1>1, <2>1
  <1>6. CASE Arrives(nextId)
    <2>1. PICK c : c = nextId
      OBVIOUS
    <2>2. (PreAuth)' \subseteq PreAuth \cup {c} /\ Cardinality(PreAuth) < MaxPreAuth
      BY <1>6, <2>1 DEF Arrives, PreAuth, BelowCap
    <2>3. /\ IsFiniteSet(PreAuth \cup {c})
          /\ Cardinality(PreAuth \cup {c}) <= Cardinality(PreAuth) + 1
          /\ Cardinality(PreAuth \cup {c}) \in Nat
      <3>1. /\ IsFiniteSet(PreAuth \cup {c})
            /\ Cardinality(PreAuth \cup {c})
                  = IF c \in PreAuth THEN Cardinality(PreAuth) ELSE Cardinality(PreAuth) + 1
        BY <1>0, FS_AddElement
      <3> QED BY <1>0, <3>1
    <2>4. Cardinality((PreAuth)') <= Cardinality(PreAuth \cup {c})
      BY <2>2, <2>3, FS_Subset
    <2> QED BY <1>0, <2>2, <2>3, <2>4
  <1> QED BY <1>2, <1>3, <1>4, <1>5, <1>6 DEF Kind

\* While the gate is locked nobody joins those who can still guess.
LEMMA GuessersStep ==
    ASSUME SupTypes, SupTypes', IdFacts, Kind, phase' = "running"
    PROVE  /\ phase = "running"
           /\ (Guessers)' \subseteq Guessers \/ (~ Locked /\ guard' = guard)
PROOF
  <1>1. CASE \E E : Calm(E)
    BY <1>1 DEF Calm, Shrinks, Guessers, Early
  <1>2. CASE \E c : Opens(c)
    BY <1>2 DEF Opens
  <1>3. CASE \E c, E : Moves(c, E)
    BY <1>3 DEF Moves, Passes, Guessers, Early, EarlyStage
  <1>4. CASE \E b, S, A : Delivers(b, S, A)
    BY <1>4 DEF Delivers, Guessers, Early
  <1>5. CASE Ends
    BY <1>5 DEF Ends
  <1>6. CASE Arrives(nextId)
    <2>1. PICK c : c = nextId
      OBVIOUS
    <2>2. c \in Peer /\ flows' = flows /\ DOMAIN peers' = DOMAIN peers \cup {c} /\ phase' = phase
      BY <1>6, <2>1 DEF Arrives
    <2>3. c \notin DOMAIN flows
      BY <2>1, <2>2, PeerFacts DEF IdFacts, ConnectFacts, Unseen
    <2> QED BY <2>2, <2>3 DEF Guessers, Early
  <1>7. CASE \E type, p : Answers(type, p)
    BY <1>7 DEF Answers, Guessers, Early
  <1> QED BY <1>1, <1>2, <1>3, <1>4, <1>5, <1>6, <1>7 DEF Kind

\* Whoever can still guess has not been admitted.
LEMMA GuessersInside ==
    ASSUME SupTypes, RecordFacts, phase = "running"
    PROVE  Guessers \subseteq PreAuth
  BY DEF RecordFacts, Flagged, Guessers, PreAuth, Early, SupTypes, PeerType, FlowType

\* A wrong proof takes one of those who can guess with it.
LEMMA WrongProofStep ==
    ASSUME SupTypes, SupTypes', Heard, IdFacts, RunFacts, RecordFacts, LockFacts, NEW c \in Peer,
           RefuseMessage(c), Refusal(c, Head(inbound[c])) = "InvalidPasswordProof"
    PROVE  inWindow' < MaxPreAuth /\ inWindow' + Cardinality((Guessers)') < MaxPreAuth
PROOF
  <1>1. PICK m : m = Head(inbound[c])
    OBVIOUS
  <1>2. /\ phase = "running" /\ inWindow' = IF Locked THEN inWindow + 1 ELSE 0
    BY DEF RefuseMessage, Ready
  <1>3. c \in DOMAIN flows /\ flows[c].stage = "AwaitingProof"
    BY <1>1 DEF Refusal, WrongProof
  <1>4. c \in Guessers
    BY <1>2, <1>3 DEF RunFacts, InsideFacts, Guessers, Early, EarlyStage
  <1>5. Calm({Event("Lost", c)}) /\ c \notin DOMAIN peers'
    BY RemovesCalm
  <1>6. (Guessers)' \subseteq Guessers \ {c}
    BY <1>5 DEF Calm, Shrinks, Guessers, Early
  <1>7. /\ IsFiniteSet(Guessers) /\ Cardinality(Guessers) \in Nat
        /\ IsFiniteSet(PreAuth) /\ Cardinality(PreAuth) \in Nat
        /\ inWindow \in Nat /\ MaxPreAuth \in Nat
    BY GateSizes, SupervisorAssumption DEF SupTypes, GuardTypes
  <1>8. /\ IsFiniteSet(Guessers \ {c}) /\ Cardinality(Guessers \ {c}) = Cardinality(Guessers) - 1
    BY <1>4, <1>7, FS_RemoveElement
  <1>9. /\ Cardinality((Guessers)') <= Cardinality(Guessers) - 1 /\ Cardinality((Guessers)') \in Nat
    BY <1>6, <1>8, FS_Subset, FS_CardinalityType
  <1>10. Cardinality(Guessers) <= MaxPreAuth
    <2>1. Cardinality(Guessers) <= Cardinality(PreAuth)
      BY <1>2, <1>7, GuessersInside, FS_Subset
    <2> QED BY <1>7, <2>1 DEF LockFacts
  <1>11. Locked => inWindow + Cardinality(Guessers) < MaxPreAuth
    BY <1>2 DEF LockFacts
  <1> QED BY <1>2, <1>7, <1>9, <1>10, <1>11

\* No step lets more guessers through than the lockout has left guesses.
LEMMA LockStep ==
    ASSUME SupTypes, SupTypes', Heard, IdFacts, RunFacts, RecordFacts, LockFacts, Next, Kind
    PROVE  LockFacts'
PROOF
  <1>1. Cardinality(PreAuth)' <= MaxPreAuth
    BY PreAuthStep DEF LockFacts
  <1>2. CASE \E c \in Peer : RefuseMessage(c) /\ Refusal(c, Head(inbound[c])) = "InvalidPasswordProof"
    BY <1>1, <1>2, WrongProofStep DEF LockFacts
  <1>3. CASE inWindow' = inWindow /\ (guard' = guard \/ Tick)
    <2>1. (Locked)' => Locked
      BY <1>3 DEF Locked, Tick
    <2>2. ASSUME phase' = "running", (Locked)'
          PROVE  inWindow' + Cardinality(Guessers)' < MaxPreAuth
      <3>1. phase = "running" /\ (Guessers)' \subseteq Guessers
        BY <2>1, <2>2, GuessersStep
      <3>2. /\ IsFiniteSet(Guessers) /\ Cardinality(Guessers) \in Nat /\ inWindow \in Nat
            /\ MaxPreAuth \in Nat
        BY GateSizes, SupervisorAssumption DEF SupTypes, GuardTypes
      <3>3. Cardinality((Guessers)') <= Cardinality(Guessers) /\ Cardinality((Guessers)') \in Nat
        BY <3>1, <3>2, FS_Subset, FS_CardinalityType
      <3>4. inWindow + Cardinality(Guessers) < MaxPreAuth
        BY <2>1, <2>2, <3>1 DEF LockFacts
      <3> QED BY <1>3, <3>2, <3>3, <3>4
    <2> QED BY <1>1, <1>3, <2>2 DEF LockFacts
  <1>4. \/ \E c \in Peer : RefuseMessage(c) /\ Refusal(c, Head(inbound[c])) = "InvalidPasswordProof"
        \/ inWindow' = inWindow /\ (guard' = guard \/ Tick)
    BY DEF Next, HandleConnect, OpenFlow, RefuseFlow, HandleActions, HostCommand, Exit, FinishExit,
           Abandon, HandleInbound, HandleMessage, RefuseMessage, HandleEof, Sweep, Stranger, Tick,
           RoomHandle, RoomTransition, AcceptConnection, ClientReceive, ClientSubmit, ClientTalk,
           ClientEnds
  <1> QED BY <1>2, <1>3, <1>4

-----------------------------------------------------------------------------
(* The theorems *)

\* The host before anything has happened.
LEMMA SupInit ==
    ASSUME Init
    PROVE  SupInv
PROOF
  <1>1. TellAll({}, "none") \in [Peer -> Told]
    BY TellValue, GateConstants
  <1>2. NoBatch \in BatchType
    BY <1>1, BatchValue DEF NoBatch
  <1>3. [NoBatch EXCEPT !.token = 1] \in BatchType
    BY <1>2 DEF BatchType
  <1>4. RoomTypes
    BY <1>3, GateConstants DEF Init, GateInit, RoomTypes
  <1>5. GuardTypes
    BY SupervisorAssumption DEF Init, GuardTypes
  <1>6. /\ events = <<>> /\ actions = <<>> /\ connects = <<>> /\ peers = <<>> /\ flows = <<>>
        /\ nextId = 1 /\ role = [p \in Peer |-> "none"] /\ roomToken = 1 /\ token = 1
        /\ policy = "Open" /\ phase = "running" /\ ~ closed
        /\ inbound = [c \in Peer |-> <<>>] /\ inWindow = 0 /\ guard.remaining = 0
    BY DEF Init, GateInit
  <1>7. /\ DOMAIN events = {} /\ DOMAIN actions = {} /\ DOMAIN connects = {}
        /\ DOMAIN peers = {} /\ DOMAIN flows = {}
    BY <1>6
  <1>8. nextId \in 1..Cardinality(Peer) + 1
    BY <1>6, PeerFacts
  <1>9. SupTypes
    BY <1>4, <1>5, <1>6, <1>7, <1>8 DEF SupTypes
  <1>10. Heard
    BY <1>6 DEF Heard
  <1>11. IdFacts
    BY <1>6, <1>7 DEF IdFacts, ConnectFacts, UnseenFacts, EarlyFacts, LostFacts, NewFacts, Early, Pending
  <1>12. EntryFacts
    BY <1>6, <1>7 DEF EntryFacts
  <1>13. RunFacts
    BY <1>6, <1>7 DEF RunFacts, OpenFacts, TellFacts, CloseFacts, InsideFacts
  <1>14. RecordFacts
    BY <1>6, <1>7 DEF RecordFacts, Watched, Recorded, Flagged, Accepted, Early
  <1>15. LockFacts
    <2>1. PreAuth = {}
      BY <1>7 DEF PreAuth
    <2>2. Cardinality(PreAuth) = 0
      BY <2>1, FS_EmptySet
    <2>3. ~ Locked /\ MaxPreAuth \in Nat \ {0}
      BY <1>6, SupervisorAssumption DEF Locked
    <2> QED BY <1>6, <2>2, <2>3 DEF LockFacts
  <1> QED BY <1>9, <1>10, <1>11, <1>12, <1>13, <1>14, <1>15 DEF SupInv

\* Every step of the host, its room and its peers preserves the invariant.
LEMMA SupStep ==
    ASSUME SupInv, Next
    PROVE  SupInv'
PROOF
  <1>1. SupTypes /\ Heard /\ IdFacts /\ EntryFacts /\ RunFacts /\ RecordFacts /\ LockFacts
    BY DEF SupInv
  <1>2. Kind
    BY <1>1, StepKind
  <1>3. SupTypes'
    BY <1>1, <1>2, TypesStep
  <1>4. Heard' /\ IdFacts'
    BY <1>1, <1>2, <1>3, HeardStep, IdsStep
  <1>5. EntryFacts' /\ RunFacts' /\ RecordFacts'
    BY <1>1, <1>2, <1>3, EntryStep, RunStep, RecordsStep
  <1>6. LockFacts'
    BY <1>1, <1>2, <1>3, LockStep
  <1> QED BY <1>3, <1>4, <1>5, <1>6 DEF SupInv

\* A stuttering step preserves the invariant.
LEMMA SupStutter ==
    ASSUME SupInv, UNCHANGED supVars
    PROVE  SupInv'
PROOF
  <1>1. /\ UNCHANGED <<role, roomPolicy, roomToken, busy, closed, batch>>
        /\ UNCHANGED <<events, actions, nextId, peers, connects, inbound, flows, token, policy,
                       guard, phase, inWindow>>
    BY DEF supVars, gateVars, hostVars
  <1>2. SupTypes'
    BY <1>1 DEF SupInv, SupTypes, RoomTypes, GuardTypes
  <1>3. Heard' /\ IdFacts'
    BY <1>1 DEF SupInv, Heard, IdFacts, ConnectFacts, UnseenFacts, EarlyFacts, LostFacts, NewFacts,
                Unseen, Early, Pending
  <1>4. EntryFacts'
    BY <1>1 DEF SupInv, EntryFacts, Shown, Timely, Pending
  <1>5. RunFacts'
    BY <1>1 DEF SupInv, RunFacts, OpenFacts, TellFacts, CloseFacts, InsideFacts, Unseen, Early, Pending
  <1>6. RecordFacts'
    BY <1>1 DEF SupInv, RecordFacts, Watched, Recorded, Flagged, Accepted, Closing, Unseen, Early, Pending
  <1>7. (PreAuth)' = PreAuth /\ (Guessers)' = Guessers /\ ((Locked)' <=> Locked)
    BY <1>1 DEF PreAuth, Guessers, Early, Locked
  <1>8. LockFacts'
    BY <1>1, <1>7 DEF SupInv, LockFacts
  <1> QED BY <1>2, <1>3, <1>4, <1>5, <1>6, <1>8 DEF SupInv

\* The inductive invariant.
THEOREM SupInvariant == SupSpec => []SupInv
PROOF
  <1>1. Init => SupInv
    BY SupInit
  <1>2. SupInv /\ [Next]_supVars => SupInv'
    BY SupStep, SupStutter
  <1> QED BY <1>1, <1>2, PTL DEF SupSpec

\* The types of the gate: whatever arrives in whatever order, the lockout's
\* window stays within its maximum and every flow is at a stage of the code.
THEOREM GateTypeTheorem == SupSpec => []GateTypeOK
PROOF
  <1>1. SupInv => GateTypeOK
    <2> SUFFICES ASSUME SupInv PROVE GateTypeOK
      OBVIOUS
    <2>1. SupTypes
      BY DEF SupInv
    <2>2. \A i \in DOMAIN actions : actions[i] \in BatchType
      BY <2>1 DEF SupTypes
    <2>3. \A c \in DOMAIN flows : flows[c].stage \in Stage
      BY <2>1 DEF SupTypes, FlowType
    <2> QED BY <2>1, <2>2, <2>3 DEF SupTypes, RoomTypes, GuardTypes, GateTypeOK
  <1> QED BY <1>1, SupInvariant, PTL

\* Nobody gets past the gate without the password and an invitation the room has
\* issued, and an old one only when its flow began before the rotation arrived.
THEOREM EntryTheorem == SupSpec => []EarnedEntry
PROOF
  <1>1. SupInv => EarnedEntry
    <2> SUFFICES ASSUME SupInv, NEW c \in DOMAIN flows
                 PROVE  /\ role[c] \in {"verified", "pending", "member"} =>
                              0 \in flows[c].shown /\ flows[c].shown \cap 1..roomToken # {}
                        /\ role[c] \in {"verified", "pending"} =>
                              roomToken \in flows[c].shown \/ flows[c].lagged
      BY DEF EarnedEntry
    <2>1. SupTypes /\ IdFacts /\ EntryFacts
      BY DEF SupInv
    <2>2. c \in Peer /\ flows[c].stage \in Stage
      BY <2>1 DEF SupTypes, FlowType
    <2>3. Shown(c) /\ Timely(c)
      BY <2>1 DEF EntryFacts
    <2>4. role[c] \in {"verified", "pending", "member"} => flows[c].stage \in {"AwaitingJoinForm", "Decided"}
      BY <2>1, <2>2 DEF IdFacts, EarlyFacts, Early, EarlyStage, Stage
    <2>5. role[c] \in {"verified", "pending", "member"} =>
             0 \in flows[c].shown /\ flows[c].token \in flows[c].shown /\ flows[c].token \in 1..roomToken
      BY <2>3, <2>4 DEF Shown
    <2>6. role[c] \in {"verified", "pending"} => flows[c].token = roomToken \/ flows[c].lagged
      BY <2>3 DEF Timely
    <2> QED BY <2>5, <2>6
  <1> QED BY <1>1, SupInvariant, PTL

\* The room's registry, the supervisor's flows and the network's peer map agree
\* while the supervisor runs, but for what is on its way between them.
THEOREM RecordsTheorem == SupSpec => []RecordsAgree
PROOF
  <1>1. SupInv => RecordsAgree
    <2> SUFFICES ASSUME SupInv, phase = "running", NEW c \in Peer
                 PROVE  /\ role[c] # "none" => c \in DOMAIN flows \/ Awaits("Lost", c)
                        /\ role[c] = "member" =>
                              \/ c \in DOMAIN flows /\ flows[c].admitted
                              \/ Leaving(c)
                              \/ \E i \in DOMAIN actions : actions[i].tell[c] = "accepted"
                        /\ c \in DOMAIN flows /\ flows[c].admitted => role[c] = "member" \/ Leaving(c)
                        /\ c \in DOMAIN peers \cap DOMAIN flows => peers[c].admitted = flows[c].admitted
      BY DEF RecordsAgree
    <2>1. Watched(c) /\ Recorded(c) /\ Flagged(c)
      BY DEF SupInv, RecordFacts
    <2>2. Pending("Lost", c) => Awaits("Lost", c)
      BY DEF Pending, Awaits
    <2>3. c \notin DOMAIN peers \/ Closing(c) => Leaving(c)
      BY DEF Leaving, Closing
    <2> QED BY <2>1, <2>2, <2>3 DEF Watched, Recorded, Flagged, Accepted
  <1> QED BY <1>1, SupInvariant, PTL

\* Once a lockout begins, fewer wrong proofs are accepted during it than there
\* are places before authentication.
THEOREM LockoutTheorem == SupSpec => []LockoutBoundsGuesses
PROOF
  <1>1. SupInv => LockoutBoundsGuesses
    BY DEF SupInv, LockFacts, LockoutBoundsGuesses
  <1> QED BY <1>1, SupInvariant, PTL
=============================================================================
