------------------------------ MODULE RoomGate ------------------------------
(***************************************************************************)
(* What the room actor shows of itself to the host's supervisor: who is    *)
(* where on the way from guest to member, whether a key transition makes   *)
(* it drop events, and the batch of actions each event is answered with.   *)
(* Keys, ids, nicknames and chat are abstracted away.  RoomActor           *)
(* implements this specification (RoomRefinement), and HostSupervisor is   *)
(* composed with it instead of with RoomActor.                             *)
(***************************************************************************)
EXTENDS Naturals, FiniteSets

CONSTANTS
    Peer,                \* connection ids other than the host's own
    MaxPendingRequests   \* Limits::max_pending_requests

VARIABLES
    role,        \* none, guest, verified (password), pending (form), member
    roomPolicy,  \* JoinPolicy
    roomToken,   \* generation of the invitation
    busy,        \* RoomState::EpochTransition
    closed,      \* RoomState::Destroyed
    batch        \* the action batch of the last event

gateVars == <<role, roomPolicy, roomToken, busy, closed, batch>>

Role == {"none", "guest", "verified", "pending", "member"}
Told == {"none", "accepted", "rejected", "shutdown", "error", "frame"}

\* token 0 and policy "same": the batch carries no such notice.
BatchType == [tell : [Peer -> Told], close : SUBSET Peer, token : Nat,
              policy : {"same", "Open", "Locked"}]

TellAll(S, what) == [p \in Peer |-> IF p \in S THEN what ELSE "none"]
Batch(tell, close) == [tell |-> tell, close |-> close, token |-> 0, policy |-> "same"]
NoBatch == Batch(TellAll({}, "none"), {})

With(r) == {p \in Peer : role[p] = r}
Applicants == With("guest") \cup With("verified") \cup With("pending")
SetRole(S, r) == role' = [p \in Peer |-> IF p \in S THEN r ELSE role[p]]

-----------------------------------------------------------------------------
\* Members S leave; everyone who stays is sent the next key.
DropMembers(S, tell, close) ==
    /\ SetRole(S, "none")
    /\ busy' = TRUE
    /\ batch' = Batch([p \in Peer |->
                    IF tell[p] # "none" THEN tell[p]
                    ELSE IF p \in With("member") \ S THEN "frame" ELSE "none"], close)
    /\ UNCHANGED <<roomPolicy, roomToken, closed>>

Forget(S, tell, close) ==
    /\ SetRole(S, "none")
    /\ batch' = Batch(tell, close)
    /\ UNCHANGED <<roomPolicy, roomToken, busy, closed>>

Lose(p, tell, close) ==
    IF role[p] = "member" THEN DropMembers({p}, tell, close) ELSE Forget({p}, tell, close)

\* The events, each with the state check of handle_event_at.
Quiet(S) == batch' = Batch(TellAll(S, "frame"), {})
            /\ UNCHANGED <<role, roomPolicy, roomToken, busy, closed>>

Punish(p) == ~ closed /\ Lose(p, TellAll({p}, "error"), {p})

Connected(p) ==
    /\ ~ closed
    /\ role[p] = "none"
    /\ SetRole(IF busy THEN {} ELSE {p}, "guest")
    /\ batch' = NoBatch
    /\ UNCHANGED <<roomPolicy, roomToken, busy, closed>>

Verified(p) ==
    /\ ~ closed
    /\ SetRole(IF busy \/ role[p] # "guest" THEN {} ELSE {p}, "verified")
    /\ batch' = NoBatch
    /\ UNCHANGED <<roomPolicy, roomToken, busy, closed>>

Admits(p) ==
    /\ roomPolicy = "Open"
    /\ role[p] = "verified"
    /\ Cardinality(With("pending")) < MaxPendingRequests

Form(p) ==
    /\ ~ closed
    /\ \/ busy /\ Quiet({})
       \/ /\ ~ busy
          /\ Admits(p)
          /\ SetRole({p}, "pending")
          /\ batch' = NoBatch
          /\ UNCHANGED <<roomPolicy, roomToken, busy, closed>>
       \/ ~ busy /\ ~ Admits(p) /\ Punish(p)

\* /accept, which the member table may refuse, and /reject.
Accept(p) ==
    /\ ~ closed /\ ~ busy /\ role[p] = "pending"
    /\ SetRole({p}, "member")
    /\ busy' = TRUE
    /\ batch' = Batch([q \in Peer |-> IF q = p THEN "accepted"
                          ELSE IF role[q] = "member" THEN "frame" ELSE "none"], {})
    /\ UNCHANGED <<roomPolicy, roomToken, closed>>

TurnAway(p) ==
    /\ ~ closed /\ ~ busy /\ role[p] = "pending"
    /\ Forget({p}, TellAll({p}, "rejected"), {p})

Kick(p) == ~ closed /\ ~ busy /\ role[p] = "member" /\ DropMembers({p}, TellAll({}, "none"), {p})

Lost(p) == ~ closed /\ Lose(p, TellAll({}, "none"), {})

\* Mutation: whoever is inside the gate stays, with the old invitation.
NewId_KeepsApplicants ==
    /\ ~ closed /\ ~ busy
    /\ roomToken' = roomToken + 1
    /\ batch' = [NoBatch EXCEPT !.token = roomToken + 1]
    /\ UNCHANGED <<role, roomPolicy, busy, closed>>

NewId ==
    /\ ~ closed /\ ~ busy
    /\ roomToken' = roomToken + 1
    /\ SetRole(Applicants, "none")
    /\ batch' = [Batch(TellAll({}, "none"), Applicants) EXCEPT !.token = roomToken + 1]
    /\ UNCHANGED <<roomPolicy, busy, closed>>

SetPolicy(pol) ==
    LET out == IF pol = "Locked" THEN Applicants ELSE {} IN
    /\ ~ closed /\ ~ busy
    /\ roomPolicy' = pol
    /\ SetRole(out, "none")
    /\ batch' = [Batch(TellAll(With("member"), "frame"), out) EXCEPT !.policy = pol]
    /\ UNCHANGED <<roomToken, busy, closed>>

Close ==
    LET all == Applicants \cup With("member") IN
    /\ ~ closed
    /\ closed' = TRUE
    /\ batch' = Batch(TellAll(all, "shutdown"), all)
    /\ busy' = FALSE
    /\ UNCHANGED <<role, roomPolicy, roomToken>>

\* A member whose message is refused for good, or who floods the room.
Expel(p) == ~ closed /\ role[p] = "member" /\ DropMembers({p}, TellAll({p}, "error"), {p})

\* /leave and RoomEvent::MemberLeft, which the supervisor never posts.
Leave(p) ==
    /\ ~ closed /\ ~ busy /\ role[p] = "member"
    /\ \/ DropMembers({p}, TellAll({p}, "shutdown"), {p})
       \/ DropMembers({p}, TellAll({}, "none"), {})

\* The acknowledgement deadline: the late members are evicted, or the host
\* itself was late and the room closes (Close).
Evict(S) == ~ closed /\ busy /\ S \subseteq With("member") /\ DropMembers(S, TellAll({}, "none"), S)

\* The last acknowledgement: what was held back goes out.
Activate(S) ==
    /\ ~ closed /\ busy
    /\ busy' = FALSE
    /\ batch' = Batch(TellAll(S, "frame"), {})
    /\ UNCHANGED <<role, roomPolicy, roomToken, closed>>

AfterClose(p) ==
    /\ closed
    /\ batch' = Batch(TellAll({p}, "error"), {p})
    /\ UNCHANGED <<role, roomPolicy, roomToken, busy, closed>>

-----------------------------------------------------------------------------
\* start(): the host is the only member, and the first key awaits its
\* acknowledgement; the first invitation is on its way.
GateInit ==
    /\ role = [p \in Peer |-> "none"]
    /\ roomPolicy = "Open"
    /\ roomToken = 1
    /\ busy = TRUE
    /\ closed = FALSE
    /\ batch = [NoBatch EXCEPT !.token = 1]

GateNext ==
    \/ \E p \in Peer :
          \/ Connected(p) \/ Verified(p) \/ Form(p) \/ Punish(p) \/ Expel(p)
          \/ Accept(p) \/ TurnAway(p) \/ Kick(p) \/ Lost(p) \/ Leave(p) \/ AfterClose(p)
    \/ \E S \in SUBSET Peer : Quiet(S) \/ Evict(S) \/ Activate(S)
    \/ \E pol \in {"Open", "Locked"} : SetPolicy(pol)
    \/ NewId
    \/ Close

GateSpec == GateInit /\ [][GateNext]_gateVars
=============================================================================
