--------------------------- MODULE RoomRefinement ---------------------------
(* RoomActor implements GroupKey: members are the group, epochs are the     *)
(* generations, and whoever is not awaited has confirmed.                   *)
EXTENDS RoomActor

Confirmed == IF Running /\ pendingEpoch # NoPending
             THEN DOMAIN members \ pendingEpoch.awaiting
             ELSE IF Running THEN DOMAIN members ELSE {}

GK == INSTANCE GroupKey WITH
        Owner <- HostId, group <- DOMAIN members, generation <- epoch,
        given <- holders, confirmed <- Confirmed, active <- epochKey,
        closed <- ~ Running

\* Every behaviour of the actor, under any interleaving of joins, kicks,
\* losses, acknowledgements and evictions, is one the key promise allows.
ImplementsGroupKey == GK!GKSpec

-----------------------------------------------------------------------------
(* RoomActor implements RoomGate: the registry gives the role, and of each   *)
(* batch what matters to the supervisor is kept.                             *)

Peers == 1..MaxConn

EntryRole(entry) ==
    CASE entry.role = "Admission" /\ ~ entry.verified -> "guest"
      [] entry.role = "Admission" /\ entry.verified -> "verified"
      [] entry.role = "Pending" -> "pending"
      [] entry.role = "Member" -> "member"

RoleOf(c) == IF c \in DOMAIN connections THEN EntryRole(connections[c]) ELSE "none"

RoleMap == [c \in Peers |-> RoleOf(c)]

TypesOf(s) == {s[i].type : i \in DOMAIN s}

\* What a connection is told by messages of these types, and maybe closed.
ToldOf(types, closes) ==
    CASE "JoinAccepted" \in types -> "accepted"
      [] "JoinRejected" \in types -> "rejected"
      [] "Shutdown" \in types -> "shutdown"
      [] "Error" \in types /\ closes -> "error"
      [] types = {} -> "none"
      [] OTHER -> "frame"

\* The payload of the notice of one type, or none.
TokenOf(notices) ==
    LET found == {n \in notices : n.type = "InvitationRotated"} IN
    IF found = {} THEN 0 ELSE (CHOOSE n \in found : TRUE).token

PolicyOf(notices) ==
    LET found == {n \in notices : n.type = "JoinPolicyChanged"} IN
    IF found = {} THEN "same" ELSE (CHOOSE n \in found : TRUE).policy

BatchOf(send, close, notices) ==
    [tell |-> [c \in Peers |-> ToldOf(TypesOf(send[c]), c \in close)],
     close |-> close \ {HostConnection},
     token |-> TokenOf(notices),
     policy |-> PolicyOf(notices)]

LastBatch == BatchOf(outgoing.send, outgoing.close, outgoing.notices)

RG == INSTANCE RoomGate WITH
        Peer <- Peers, role <- RoleMap, roomPolicy <- policy, roomToken <- token,
        busy <- InTransition, closed <- ~ Running, batch <- LastBatch

\* The supervisor is checked against RoomGate, so the actor must never do to
\* a connection, or tell it, anything that RoomGate does not.
ImplementsRoomGate == RG!GateSpec
=============================================================================
