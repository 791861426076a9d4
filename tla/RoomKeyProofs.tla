--------------------------- MODULE RoomKeyProofs ----------------------------
(***************************************************************************)
(* The member table, the connection registry and the request queue of      *)
(* RoomActor never disagree; and the keys: who is given them, when they    *)
(* become active, and that those who left get no later one; and the chat   *)
(* relay, which reaches members that hold the key, once.                   *)
(***************************************************************************)
EXTENDS RoomTypeProofs

\* Registry and queue agreement for any three tables: what
\* RegistryMatchesMembers and QueueMatchesRegistry say, without the lookups.
Agree(ms, cs, rs) ==
    /\ \A m \in DOMAIN ms : /\ ms[m].connection \in DOMAIN cs
                            /\ cs[ms[m].connection].role = "Member"
                            /\ cs[ms[m].connection].id = m
    /\ \A c \in DOMAIN cs : cs[c].role = "Member" =>
          cs[c].id \in DOMAIN ms /\ ms[cs[c].id].connection = c
    /\ \A r \in DOMAIN rs : /\ rs[r].connection \in DOMAIN cs
                            /\ cs[rs[r].connection].role = "Pending"
                            /\ cs[rs[r].connection].id = r
    /\ \A c \in DOMAIN cs : cs[c].role = "Pending" =>
          cs[c].id \in DOMAIN rs /\ rs[cs[c].id].connection = c

\* The host never leaves the table (add_host; remove_member is never called
\* for it), and owns the local connection.
HostPresent ==
    /\ HostId \in DOMAIN members
    /\ members[HostId].connection = HostConnection

\* The registry only knows connections the accept loop handed out.
ConnectionsIssued == \A c \in DOMAIN connections : c < nextConn

TableFacts ==
    /\ HostPresent
    /\ ConnectionsIssued
    /\ Agree(members, connections, requests)
    /\ RequestIdsDisjoint

\* The inductive invariant behind the theorems of this module.
TablesInv == TypeOK /\ IdsIssued /\ TableFacts

-----------------------------------------------------------------------------
(* What the handlers do to the three tables *)

\* Members leave together with their connections; `lost` is one of them, or no
\* connection that anybody waits on.
LEMMA AgreeRemove ==
    ASSUME NEW ms, NEW cs, NEW rs, Agree(ms, cs, rs), NEW gone, gone \subseteq DOMAIN ms,
           NEW lost, \A c \in lost : c \in DOMAIN cs => cs[c].role = "Member" /\ cs[c].id \in gone
    PROVE  Agree(Restrict(ms, DOMAIN ms \ gone),
                 Restrict(cs, DOMAIN cs \ (lost \cup {ms[m].connection : m \in gone})),
                 rs)
PROOF
  <1> DEFINE out == lost \cup {ms[m].connection : m \in gone}
             ms2 == Restrict(ms, DOMAIN ms \ gone)
             cs2 == Restrict(cs, DOMAIN cs \ out)
  <1>1. /\ DOMAIN ms2 = DOMAIN ms \ gone /\ \A m \in DOMAIN ms2 : ms2[m] = ms[m]
        /\ DOMAIN cs2 = DOMAIN cs \ out /\ \A c \in DOMAIN cs2 : cs2[c] = cs[c]
    BY DEF Restrict
  <1>2. \A c \in DOMAIN cs : c \in out <=> cs[c].role = "Member" /\ cs[c].id \in gone
    BY DEF Agree
  <1> HIDE DEF out, ms2, cs2
  <1>3. Agree(ms2, cs2, rs)
    <2>1. \A m \in DOMAIN ms2 : /\ ms2[m].connection \in DOMAIN cs2
                                /\ cs2[ms2[m].connection].role = "Member"
                                /\ cs2[ms2[m].connection].id = m
      BY <1>1, <1>2 DEF Agree
    <2>2. \A c \in DOMAIN cs2 : cs2[c].role = "Member" =>
             cs2[c].id \in DOMAIN ms2 /\ ms2[cs2[c].id].connection = c
      BY <1>1, <1>2 DEF Agree
    <2>3. \A r \in DOMAIN rs : /\ rs[r].connection \in DOMAIN cs2
                               /\ cs2[rs[r].connection].role = "Pending"
                               /\ cs2[rs[r].connection].id = r
      BY <1>1, <1>2 DEF Agree
    <2>4. \A c \in DOMAIN cs2 : cs2[c].role = "Pending" =>
             cs2[c].id \in DOMAIN rs /\ rs[cs2[c].id].connection = c
      BY <1>1, <1>2 DEF Agree
    <2> QED BY <2>1, <2>2, <2>3, <2>4 DEF Agree
  <1> QED BY <1>3 DEF out, ms2, cs2

\* Connections that are not members' go, with exactly their requests.
LEMMA AgreeDrop ==
    ASSUME NEW ms, NEW cs, NEW rs, Agree(ms, cs, rs), NEW out, NEW taken,
           \A c \in out : c \in DOMAIN cs => cs[c].role # "Member",
           \A r \in DOMAIN rs : r \in taken <=> rs[r].connection \in out
    PROVE  Agree(ms, Restrict(cs, DOMAIN cs \ out), Restrict(rs, DOMAIN rs \ taken))
PROOF
  <1> DEFINE cs2 == Restrict(cs, DOMAIN cs \ out)
             rs2 == Restrict(rs, DOMAIN rs \ taken)
  <1>1. /\ DOMAIN rs2 = DOMAIN rs \ taken /\ \A r \in DOMAIN rs2 : rs2[r] = rs[r]
        /\ DOMAIN cs2 = DOMAIN cs \ out /\ \A c \in DOMAIN cs2 : cs2[c] = cs[c]
    BY DEF Restrict
  <1> HIDE DEF cs2, rs2
  <1>2. Agree(ms, cs2, rs2)
    BY <1>1 DEF Agree
  <1> QED BY <1>2 DEF cs2, rs2

\* A new connection is registered.
LEMMA AgreeRegister ==
    ASSUME NEW ms, NEW cs, NEW rs, Agree(ms, cs, rs), NEW c, c \notin DOMAIN cs
    PROVE  Agree(ms, With(cs, c, Entry(FALSE, "Admission", 0)), rs)
PROOF
  <1> DEFINE cs2 == With(cs, c, Entry(FALSE, "Admission", 0))
  <1>1. /\ DOMAIN cs2 = DOMAIN cs \cup {c} /\ cs2[c].role = "Admission"
        /\ \A x \in DOMAIN cs : cs2[x] = cs[x]
    BY DEF With, Entry
  <1> HIDE DEF cs2
  <1>2. Agree(ms, cs2, rs)
    BY <1>1 DEF Agree
  <1> QED BY <1>2 DEF cs2

\* A request is queued for a connection in admission.
LEMMA AgreeAttach ==
    ASSUME NEW ms, NEW cs, NEW rs, Agree(ms, cs, rs), NEW c \in DOMAIN cs,
           cs[c].role = "Admission", NEW r, r \notin DOMAIN rs, NEW app
    PROVE  Agree(ms, [cs EXCEPT ![c] = Entry(TRUE, "Pending", r)],
                 With(rs, r, [connection |-> c, application |-> app]))
PROOF
  <1> DEFINE cs2 == [cs EXCEPT ![c] = Entry(TRUE, "Pending", r)]
             rs2 == With(rs, r, [connection |-> c, application |-> app])
  <1>1. /\ DOMAIN cs2 = DOMAIN cs /\ cs2[c].role = "Pending" /\ cs2[c].id = r
        /\ \A x \in DOMAIN cs : x # c => cs2[x] = cs[x]
    BY DEF Entry
  <1>2. /\ DOMAIN rs2 = DOMAIN rs \cup {r} /\ rs2[r].connection = c
        /\ \A x \in DOMAIN rs : rs2[x] = rs[x]
    BY DEF With
  <1> HIDE DEF cs2, rs2
  <1>3. Agree(ms, cs2, rs2)
    BY <1>1, <1>2 DEF Agree
  <1> QED BY <1>3 DEF cs2, rs2

\* A request is taken and its connection promoted to a new member.
LEMMA AgreeAdmit ==
    ASSUME NEW ms, NEW cs, NEW rs, Agree(ms, cs, rs), NEW r \in DOMAIN rs,
           NEW m, m \notin DOMAIN ms, NEW rec, rec.connection = rs[r].connection, NEW v
    PROVE  Agree(With(ms, m, rec), With(cs, rs[r].connection, Entry(v, "Member", m)),
                 Restrict(rs, DOMAIN rs \ {r}))
PROOF
  <1> DEFINE c == rs[r].connection
             ms2 == With(ms, m, rec)
             cs2 == With(cs, rs[r].connection, Entry(v, "Member", m))
             rs2 == Restrict(rs, DOMAIN rs \ {r})
  <1>1. /\ DOMAIN ms2 = DOMAIN ms \cup {m} /\ ms2[m].connection = c
        /\ \A x \in DOMAIN ms : ms2[x] = ms[x]
    BY DEF With
  <1>2. /\ DOMAIN cs2 = DOMAIN cs \cup {c} /\ cs2[c].role = "Member" /\ cs2[c].id = m
        /\ \A x \in DOMAIN cs : x # c => cs2[x] = cs[x]
    BY DEF With, Entry
  <1>3. DOMAIN rs2 = DOMAIN rs \ {r} /\ \A x \in DOMAIN rs2 : rs2[x] = rs[x]
    BY DEF Restrict
  <1>4. c \in DOMAIN cs /\ cs[c].role = "Pending" /\ cs[c].id = r
    BY DEF Agree
  <1> HIDE DEF c, ms2, cs2, rs2
  <1>5. Agree(ms2, cs2, rs2)
    <2>1. \A x \in DOMAIN ms2 : /\ ms2[x].connection \in DOMAIN cs2
                                /\ cs2[ms2[x].connection].role = "Member"
                                /\ cs2[ms2[x].connection].id = x
      BY <1>1, <1>2, <1>4 DEF Agree
    <2>2. \A x \in DOMAIN cs2 : cs2[x].role = "Member" =>
             cs2[x].id \in DOMAIN ms2 /\ ms2[cs2[x].id].connection = x
      BY <1>1, <1>2, <1>4 DEF Agree
    <2>3. \A x \in DOMAIN rs2 : /\ rs2[x].connection \in DOMAIN cs2
                                /\ cs2[rs2[x].connection].role = "Pending"
                                /\ cs2[rs2[x].connection].id = x
      BY <1>2, <1>3, <1>4 DEF Agree
    <2>4. \A x \in DOMAIN cs2 : cs2[x].role = "Pending" =>
             cs2[x].id \in DOMAIN rs2 /\ rs2[cs2[x].id].connection = x
      BY <1>2, <1>3, <1>4 DEF Agree
    <2> QED BY <2>1, <2>2, <2>3, <2>4 DEF Agree
  <1> QED BY <1>5 DEF c, ms2, cs2, rs2

\* Entries change in ways that matter to none of the tables.
LEMMA AgreeTouch ==
    ASSUME NEW ms, NEW cs, NEW rs, Agree(ms, cs, rs), NEW ms2, NEW cs2,
           DOMAIN ms2 = DOMAIN ms, \A m \in DOMAIN ms : ms2[m].connection = ms[m].connection,
           DOMAIN cs2 = DOMAIN cs,
           \A c \in DOMAIN cs : cs2[c].role = cs[c].role /\ cs2[c].id = cs[c].id
    PROVE  Agree(ms2, cs2, rs)
  BY DEF Agree

-----------------------------------------------------------------------------
(* The facts about the tables are kept by every event *)

\* Request ids: queues that only shrink stay disjoint and below the counter.
LEMMA IdsShrink ==
    ASSUME RequestIdsDisjoint, nextRequestId' = nextRequestId,
           DOMAIN requests' \subseteq DOMAIN requests,
           DOMAIN timeoutRequests' \subseteq DOMAIN timeoutRequests
    PROVE  RequestIdsDisjoint'
  BY DEF RequestIdsDisjoint

\* An event that leaves the three tables alone.
LEMMA TablesFrame ==
    ASSUME TablesInv, UNCHANGED <<members, connections, requests, nextRequestId, nextConn>>,
           DOMAIN timeoutRequests' \subseteq DOMAIN timeoutRequests
    PROVE  TableFacts'
  BY IdsShrink DEF TablesInv, TableFacts, HostPresent, ConnectionsIssued

\* Connections an event touches were handed out, and are not the host's; the
\* registered member of a connection is the member whose connection it is.
LEMMA Registered ==
    ASSUME TablesInv, NEW c
    PROVE  /\ RegisteredMember(c) = {m \in DOMAIN members : members[m].connection = c}
           /\ MemberOf(c) = RegisteredMember(c)
           /\ RegisteredRequest(c) = {r \in DOMAIN requests : requests[r].connection = c}
           /\ c \in Known => c # HostConnection /\ HostId \notin RegisteredMember(c)
PROOF
  <1>1. Agree(members, connections, requests)
    BY DEF TablesInv, TableFacts
  <1>2. RegisteredMember(c) = {m \in DOMAIN members : members[m].connection = c}
    BY <1>1 DEF RegisteredMember, HasRole, Agree
  <1>3. RegisteredRequest(c) = {r \in DOMAIN requests : requests[r].connection = c}
    BY <1>1 DEF RegisteredRequest, HasRole, Agree
  <1>4. MemberOf(c) = RegisteredMember(c)
    BY <1>2 DEF MemberOf
  <1>5. nextConn \in Nat
    BY BoundsAssumption DEF TablesInv, TypeOK
  <1>6. c \in Known => c # HostConnection
    BY <1>5 DEF Known, HostConnection
  <1>7. HostId \in DOMAIN members /\ members[HostId].connection = HostConnection
    BY DEF TablesInv, TableFacts, HostPresent
  <1> QED BY <1>2, <1>3, <1>4, <1>6, <1>7

\* remove_member and the eviction.
LEMMA RemoveMembersTables ==
    ASSUME TablesInv, NEW gone, gone \subseteq DOMAIN members, NEW lost, NEW type,
           RemoveMembers(gone, lost, type),
           \A c \in lost : RegisteredMember(c) \subseteq gone /\ RegisteredMember(c) # {},
           UNCHANGED <<requests, nextRequestId, nextConn>>,
           DOMAIN timeoutRequests' \subseteq DOMAIN timeoutRequests
    PROVE  TableFacts'
PROOF
  <1> DEFINE out == lost \cup {members[m].connection : m \in gone}
  <1>1. Agree(members, connections, requests)
    BY DEF TablesInv, TableFacts
  <1>2. \A c \in lost : c \in DOMAIN connections =>
           connections[c].role = "Member" /\ connections[c].id \in gone
    BY DEF RegisteredMember, HasRole
  <1>3. /\ members' = Restrict(members, DOMAIN members \ gone)
        /\ connections' = Restrict(connections, DOMAIN connections \ out)
        /\ HostId \notin gone
    BY DEF RemoveMembers
  <1>4. Agree(members', connections', requests')
    BY <1>1, <1>2, <1>3, AgreeRemove
  <1> HIDE DEF out
  <1>5. /\ DOMAIN members' = DOMAIN members \ gone
        /\ \A m \in DOMAIN members' : members'[m] = members[m]
        /\ DOMAIN connections' \subseteq DOMAIN connections
    BY <1>3 DEF Restrict
  <1>6. HostPresent' /\ ConnectionsIssued'
    BY <1>3, <1>5 DEF TablesInv, TableFacts, HostPresent, ConnectionsIssued
  <1>7. RequestIdsDisjoint'
    BY IdsShrink DEF TablesInv, TableFacts
  <1> QED BY <1>4, <1>6, <1>7 DEF TableFacts

\* on_connection_lost, of a peer, in any role or in none.
LEMMA LoseConnectionTables ==
    ASSUME TablesInv, NEW c \in Known, NEW first, NEW close, LoseConnection(c, first, close)
    PROVE  TableFacts'
PROOF
  <1> DEFINE gone == MemberOf(c) \cap DOMAIN members
  <1>1. DOMAIN timeoutRequests' \subseteq DOMAIN timeoutRequests
    BY DEF LoseConnection, Restrict
  <1>2. UNCHANGED <<nextRequestId, nextConn>>
    BY DEF LoseConnection
  <1>3. gone = RegisteredMember(c)
    BY Registered
  <1>4. CASE gone # {} /\ RemoveMembers(gone, {c}, "MemberLeft") /\ UNCHANGED requests
    <2>1. gone \subseteq DOMAIN members
      OBVIOUS
    <2> HIDE DEF gone
    <2>2. \A x \in {c} : RegisteredMember(x) \subseteq gone /\ RegisteredMember(x) # {}
      BY <1>3, <1>4
    <2>3. UNCHANGED <<requests, nextRequestId, nextConn>>
      BY <1>2, <1>4
    <2>4. RemoveMembers(gone, {c}, "MemberLeft")
      BY <1>4
    <2> QED BY <1>1, <2>1, <2>2, <2>3, <2>4, RemoveMembersTables
  <1>5. CASE /\ gone = {}
             /\ requests' = Restrict(requests, DOMAIN requests \ RegisteredRequest(c))
             /\ connections' = Restrict(connections, DOMAIN connections \ {c})
             /\ UNCHANGED members
    <2> HIDE DEF gone
    <2>1. Agree(members, connections, requests)
      BY DEF TablesInv, TableFacts
    <2>2. c \in DOMAIN connections => connections[c].role # "Member"
      BY <1>3, <1>5 DEF RegisteredMember, HasRole
    <2>3. \A r \in DOMAIN requests :
             r \in RegisteredRequest(c) <=> requests[r].connection \in {c}
      BY Registered
    <2>4. Agree(members', connections', requests')
      BY <1>5, <2>1, <2>2, <2>3, AgreeDrop
    <2>5. DOMAIN connections' \subseteq DOMAIN connections /\ DOMAIN requests' \subseteq DOMAIN requests
      BY <1>5 DEF Restrict
    <2>6. HostPresent' /\ ConnectionsIssued'
      BY <1>2, <1>5, <2>5 DEF TablesInv, TableFacts, HostPresent, ConnectionsIssued
    <2>7. RequestIdsDisjoint'
      BY <1>1, <1>2, <2>5, IdsShrink DEF TablesInv, TableFacts
    <2> QED BY <2>4, <2>6, <2>7 DEF TableFacts
  <1> QED BY <1>4, <1>5 DEF LoseConnection

\* The error path of run() loses the connection of the sender.
LEMMA PunishTables ==
    ASSUME TablesInv, NEW c \in Known, NEW code, Punish(c, code)
    PROVE  TableFacts'
  BY LoseConnectionTables DEF Punish

\* Accept loop, password results and join forms.
LEMMA AdmissionTables ==
    ASSUME TablesInv, AdmissionEvent
    PROVE  TableFacts'
PROOF
  <1>1. Agree(members, connections, requests) /\ RequestIdsDisjoint
    BY DEF TablesInv, TableFacts
  <1>2. nextConn \in Nat /\ nextRequestId \in Nat
    BY BoundsAssumption DEF TablesInv, TypeOK
  <1>3. CASE ClientConnected
    <2>1. /\ UNCHANGED <<members, requests, nextRequestId, timeoutRequests>>
          /\ nextConn' = nextConn + 1
          /\ \/ connections' = connections
             \/ connections' = With(connections, nextConn, Entry(FALSE, "Admission", 0))
      BY <1>3 DEF ClientConnected, queueVars
    <2>2. \A c \in DOMAIN connections : c \in Nat /\ c < nextConn
      BY DEF TablesInv, TableFacts, ConnectionsIssued, TypeOK, IsMap, Conn
    <2>3. nextConn \notin DOMAIN connections
      BY <1>2, <2>2
    <2>4. Agree(members', connections', requests')
      BY <1>1, <2>1, <2>3, AgreeRegister
    <2>5. DOMAIN connections' \subseteq DOMAIN connections \cup {nextConn}
      BY <2>1 DEF With
    <2>6. ConnectionsIssued'
      BY <1>2, <2>1, <2>2, <2>5 DEF ConnectionsIssued
    <2>7. HostPresent' /\ RequestIdsDisjoint'
      BY <1>1, <2>1, IdsShrink DEF TablesInv, TableFacts, HostPresent
    <2> QED BY <2>4, <2>6, <2>7 DEF TableFacts
  <1>4. ASSUME NEW c \in Known, PasswordVerified(c)
        PROVE  TableFacts'
    <2>1. /\ UNCHANGED <<members, requests, nextRequestId, timeoutRequests, nextConn>>
          /\ connections' = [connections EXCEPT ![c].verified = TRUE]
      BY <1>4 DEF PasswordVerified, queueVars
    <2>2. \A x \in DOMAIN connections : connections[x] \in EntryRecord
      BY DEF TablesInv, TypeOK, IsMap
    <2>3. /\ DOMAIN connections' = DOMAIN connections
          /\ \A x \in DOMAIN connections : /\ connections'[x].role = connections[x].role
                                           /\ connections'[x].id = connections[x].id
      BY <2>1, <2>2 DEF EntryRecord
    <2>4. Agree(members', connections', requests')
      BY <1>1, <2>1, <2>3, AgreeTouch
    <2>5. HostPresent' /\ RequestIdsDisjoint' /\ ConnectionsIssued'
      BY <1>1, <2>1, <2>3, IdsShrink DEF TablesInv, TableFacts, HostPresent, ConnectionsIssued
    <2> QED BY <2>4, <2>5 DEF TableFacts
  <1>5. ASSUME NEW c \in Known, PasswordIgnored(c)
        PROVE  TableFacts'
    BY <1>5, TablesFrame DEF PasswordIgnored, NoEffect, queueVars
  <1>6. ASSUME NEW c \in Known, NEW app \in Applications, JoinRequested(c, app)
        PROVE  TableFacts'
    <2>1. /\ UNCHANGED <<members, timeoutRequests, nextConn>>
          /\ requests' = With(requests, nextRequestId, [connection |-> c, application |-> app])
          /\ nextRequestId' = nextRequestId + 1
          /\ connections' = [connections EXCEPT ![c] = Entry(TRUE, "Pending", nextRequestId)]
      BY <1>6 DEF JoinRequested
    <2>2. c \in DOMAIN connections /\ connections[c].role = "Admission"
      BY <1>6 DEF JoinRequested, JoinRefusal, HasRole
    <2>3. \A r \in DOMAIN requests \cup DOMAIN timeoutRequests : r \in Nat /\ r < nextRequestId
      BY <1>1 DEF RequestIdsDisjoint, TablesInv, TypeOK, IsMap
    <2>4. nextRequestId \notin DOMAIN requests \cup DOMAIN timeoutRequests
      BY <1>2, <2>3
    <2>5. Agree(members', connections', requests')
      BY <1>1, <2>1, <2>2, <2>4, AgreeAttach
    <2>6. DOMAIN requests' = DOMAIN requests \cup {nextRequestId}
      BY <2>1 DEF With
    <2>7. RequestIdsDisjoint'
      BY <1>1, <1>2, <2>1, <2>3, <2>4, <2>6 DEF RequestIdsDisjoint
    <2>8. HostPresent' /\ ConnectionsIssued'
      BY <2>1 DEF TablesInv, TableFacts, HostPresent, ConnectionsIssued
    <2> QED BY <2>5, <2>7, <2>8 DEF TableFacts
  <1>7. ASSUME NEW c \in Known, JoinRefused(c)
        PROVE  TableFacts'
    BY <1>7, PunishTables DEF JoinRefused
  <1> QED BY <1>3, <1>4, <1>5, <1>6, <1>7 DEF AdmissionEvent

\* /newid and /reqoff drop every connection that is no member's, with every
\* request.
LEMMA DropNonMembersTables ==
    ASSUME TablesInv, DropNonMembers,
           UNCHANGED <<members, nextRequestId, timeoutRequests, nextConn>>
    PROVE  TableFacts'
PROOF
  <1>1. Agree(members, connections, requests)
    BY DEF TablesInv, TableFacts
  <1>2. \A c \in DOMAIN connections : c \in NonMembers <=> connections[c].role # "Member"
    BY <1>1 DEF NonMembers, Agree
  <1>3. /\ DOMAIN requests' = {}
        /\ DOMAIN connections' = DOMAIN connections \ NonMembers
        /\ \A c \in DOMAIN connections' : connections'[c] = connections[c]
    BY DEF DropNonMembers, Empty, Restrict
  <1>4. Agree(members', connections', requests')
    BY <1>1, <1>2, <1>3 DEF Agree
  <1>5. HostPresent' /\ ConnectionsIssued' /\ RequestIdsDisjoint'
    BY <1>3, IdsShrink DEF TablesInv, TableFacts, HostPresent, ConnectionsIssued
  <1> QED BY <1>4, <1>5 DEF TableFacts

\* A request leaves the queue together with its connection's entry.
LEMMA TurnAwayTables ==
    ASSUME TablesInv, NEW r \in DOMAIN requests, TurnAway(r)
    PROVE  TableFacts'
PROOF
  <1> DEFINE c == requests[r].connection
  <1>1. Agree(members, connections, requests)
    BY DEF TablesInv, TableFacts
  <1>2. /\ requests' = Restrict(requests, DOMAIN requests \ {r})
        /\ connections' = Restrict(connections, DOMAIN connections \ {c})
        /\ UNCHANGED <<members, nextRequestId, timeoutRequests, nextConn>>
    BY DEF TurnAway
  <1>3. \A x \in {c} : x \in DOMAIN connections => connections[x].role # "Member"
    BY <1>1 DEF Agree
  <1>4. \A x \in DOMAIN requests : x \in {r} <=> requests[x].connection \in {c}
    BY <1>1 DEF Agree
  <1> HIDE DEF c
  <1>5. Agree(members', connections', requests')
    BY <1>1, <1>2, <1>3, <1>4, AgreeDrop
  <1>6. DOMAIN connections' \subseteq DOMAIN connections /\ DOMAIN requests' \subseteq DOMAIN requests
    BY <1>2 DEF Restrict
  <1>7. HostPresent' /\ ConnectionsIssued' /\ RequestIdsDisjoint'
    BY <1>2, <1>6, IdsShrink DEF TablesInv, TableFacts, HostPresent, ConnectionsIssued
  <1> QED BY <1>5, <1>7 DEF TableFacts

\* A request becomes a member.
LEMMA AcceptJoinTables ==
    ASSUME TablesInv, NEW r \in DOMAIN requests, AcceptJoin(r)
    PROVE  TableFacts'
PROOF
  <1> DEFINE c   == requests[r].connection
             m   == nextMemberId
             rec == Member(c, requests[r].application, epoch + 1)
             v   == c \in DOMAIN connections /\ connections[c].verified
  <1>1. Agree(members, connections, requests)
    BY DEF TablesInv, TableFacts
  <1>2. /\ requests' = Restrict(requests, DOMAIN requests \ {r})
        /\ members' = With(members, m, rec)
        /\ connections' = With(connections, requests[r].connection, Entry(v, "Member", m))
        /\ UNCHANGED <<nextRequestId, timeoutRequests, nextConn>>
    BY DEF AcceptJoin
  <1>3. m \notin DOMAIN members /\ m # HostId
    BY DEF TablesInv, TableFacts, TypeOK, IdsIssued, HostPresent, IsMap
  <1>4. rec.connection = requests[r].connection
    BY DEF Member
  <1>5. c \in DOMAIN connections
    BY <1>1 DEF Agree
  <1> HIDE DEF m, rec, v
  <1>6. Agree(members', connections', requests')
    BY <1>1, <1>2, <1>3, <1>4, AgreeAdmit
  <1>7. /\ DOMAIN connections' = DOMAIN connections
        /\ DOMAIN requests' \subseteq DOMAIN requests
        /\ HostId \in DOMAIN members => HostId \in DOMAIN members' /\ members'[HostId] = members[HostId]
    BY <1>2, <1>3, <1>5 DEF Restrict, With
  <1>8. HostPresent' /\ ConnectionsIssued' /\ RequestIdsDisjoint'
    BY <1>2, <1>7, IdsShrink DEF TablesInv, TableFacts, HostPresent, ConnectionsIssued
  <1> QED BY <1>6, <1>8 DEF TableFacts

\* The host's commands.
LEMMA HostTables ==
    ASSUME TablesInv, HostEvent
    PROVE  TableFacts'
PROOF
  <1>1. ASSUME NEW r \in DOMAIN requests, AcceptRefused(r) \/ RejectJoin(r)
        PROVE  TableFacts'
    BY <1>1, TurnAwayTables DEF AcceptRefused, RejectJoin
  <1>2. ASSUME NEW r \in DOMAIN timeoutRequests, NEW accepted \in BOOLEAN,
               DecideTimeoutRequest(r, accepted)
        PROVE  TableFacts'
    <2>1. DOMAIN timeoutRequests' \subseteq DOMAIN timeoutRequests
      BY <1>2 DEF DecideTimeoutRequest, Restrict
    <2> QED BY <1>2, <2>1, TablesFrame DEF DecideTimeoutRequest, queueVars
  <1>3. ASSUME NEW m \in DOMAIN members, Kick(m)
        PROVE  TableFacts'
    <2>1. RemoveMembers({m}, {}, "MemberKicked") /\ {m} \subseteq DOMAIN members
      BY <1>3 DEF Kick
    <2>2. UNCHANGED <<requests, nextRequestId, nextConn, timeoutRequests>>
      BY <1>3 DEF Kick, queueVars
    <2> QED BY <2>1, <2>2, RemoveMembersTables
  <1>4. CASE NewId
    BY <1>4, DropNonMembersTables DEF NewId
  <1>5. ASSUME NEW p \in {"Open", "Locked"}, SetPolicy(p)
        PROVE  TableFacts'
    <2>1. CASE DropNonMembers
      BY <1>5, <2>1, DropNonMembersTables DEF SetPolicy
    <2>2. CASE UNCHANGED <<requests, connections>>
      BY <1>5, <2>2, TablesFrame DEF SetPolicy
    <2> QED BY <1>5, <2>1, <2>2 DEF SetPolicy
  <1>6. CASE CloseRequested
    BY <1>6, TablesFrame DEF CloseRequested, CloseRoom
  <1> QED BY <1>1, <1>2, <1>3, <1>4, <1>5, <1>6, AcceptJoinTables DEF HostEvent

\* Members leaving, and member commands.
LEMMA DepartureTables ==
    ASSUME TablesInv, DepartureEvent
    PROVE  TableFacts'
PROOF
  <1>1. ASSUME NEW c \in Known, ConnectionLost(c)
        PROVE  TableFacts'
    BY <1>1, LoseConnectionTables DEF ConnectionLost
  <1>2. ASSUME NEW c \in Known, Leave(c)
        PROVE  TableFacts'
    <2>1. /\ RemoveMembers(RegisteredMember(c), {}, "MemberLeft")
          /\ RegisteredMember(c) \subseteq DOMAIN members
      BY <1>2 DEF Leave
    <2>2. UNCHANGED <<requests, nextRequestId, nextConn, timeoutRequests>>
      BY <1>2 DEF Leave, queueVars
    <2> QED BY <2>1, <2>2, RemoveMembersTables
  <1>3. ASSUME NEW c \in Known, MemberCommandRefused(c)
        PROVE  TableFacts'
    BY <1>3, PunishTables DEF MemberCommandRefused
  <1>4. ASSUME NEW c \in Known \cup {HostConnection}, NEW color \in Color,
               ColorCommand(c, color)
        PROVE  TableFacts'
    <2>1. /\ members' = [m \in DOMAIN members |->
                IF m \in RegisteredMember(c) THEN [members[m] EXCEPT !.color = color]
                ELSE members[m]]
          /\ UNCHANGED <<connections, requests, nextRequestId, timeoutRequests, nextConn>>
      BY <1>4 DEF ColorCommand, queueVars
    <2>2. \A m \in DOMAIN members : members[m] \in MemberRecord
      BY EntryTypes DEF TablesInv
    <2>3. /\ DOMAIN members' = DOMAIN members
          /\ \A m \in DOMAIN members : members'[m].connection = members[m].connection
      BY <2>1, <2>2 DEF MemberRecord
    <2>4. Agree(members', connections', requests')
      BY <2>1, <2>3, AgreeTouch DEF TablesInv, TableFacts
    <2>5. HostPresent' /\ ConnectionsIssued' /\ RequestIdsDisjoint'
      BY <2>1, <2>3, IdsShrink DEF TablesInv, TableFacts, HostPresent, ConnectionsIssued
    <2> QED BY <2>4, <2>5 DEF TableFacts
  <1>5. ASSUME NEW m \in DOMAIN members, MemberLeft(m)
        PROVE  TableFacts'
    <2>1. RemoveMembers({m}, {}, "MemberLeft") /\ {m} \subseteq DOMAIN members
      BY <1>5 DEF MemberLeft
    <2>2. UNCHANGED <<requests, nextRequestId, nextConn, timeoutRequests>>
      BY <1>5 DEF MemberLeft, queueVars
    <2> QED BY <2>1, <2>2, RemoveMembersTables
  <1> QED BY <1>1, <1>2, <1>3, <1>4, <1>5 DEF DepartureEvent

\* Acknowledgements and the deadline.
LEMMA EpochTables ==
    ASSUME TablesInv, EpochEvent
    PROVE  TableFacts'
PROOF
  <1>1. ASSUME NEW c, NEW e, EpochAck(c, e) \/ EpochAckIgnored(c, e)
        PROVE  TableFacts'
    BY <1>1, TablesFrame DEF EpochAck, EpochAckIgnored, NoEffect, queueVars
  <1>2. CASE DroppedInTransition \/ Tick
    BY <1>2, TablesFrame DEF DroppedInTransition, NoEffect, Tick, queueVars
  <1>3. CASE EpochTimeout
    <2> DEFINE gone == pendingEpoch.awaiting \cap DOMAIN members
    <2>1. CASE CloseRoom
      BY <2>1, TablesFrame DEF CloseRoom
    <2>2. CASE /\ RemoveMembers(gone, {}, "MemberLeft")
               /\ UNCHANGED <<queueVars, timeoutRequests, nextConn>>
      <3>1. gone \subseteq DOMAIN members
        OBVIOUS
      <3> HIDE DEF gone
      <3> QED BY <2>2, <3>1, RemoveMembersTables DEF queueVars
    <2> QED BY <1>3, <2>1, <2>2 DEF EpochTimeout
  <1> QED BY <1>1, <1>2, <1>3 DEF EpochEvent

\* The chat relay.
LEMMA ChatTables ==
    ASSUME TablesInv, AnyChat
    PROVE  TableFacts'
PROOF
  <1>1. PICK c \in Known \cup {HostConnection} :
           \/ ChatDuringTransition(c)
           \/ \E env \in AnyEnvelope :
                 \/ ChatUnauthorised(c, env)
                 \/ ChatRateLimited(c, env)
                 \/ ChatAbusive(c, env)
                 \/ ChatRefused(c, env)
                 \/ ChatRelayed(c, env)
                 \/ TimeoutRequested(c, env)
    BY DEF AnyChat
  <1>2. CASE ChatDuringTransition(c)
    BY <1>2, TablesFrame DEF ChatDuringTransition, queueVars
  <1>3. ASSUME NEW env, ChatUnauthorised(c, env)
        PROVE  TableFacts'
    BY <1>3, PunishTables DEF ChatUnauthorised
  <1>4. ASSUME NEW env, ChatRateLimited(c, env)
        PROVE  TableFacts'
    BY <1>4, TablesFrame DEF ChatRateLimited, queueVars
  <1>5. ASSUME NEW env, ChatAbusive(c, env)
        PROVE  TableFacts'
    <2>1. RemoveMembers({env.sender}, {}, "MemberKicked") /\ {env.sender} \subseteq DOMAIN members
      BY <1>5 DEF ChatAbusive, Sender
    <2>2. UNCHANGED <<requests, nextRequestId, nextConn, timeoutRequests>>
      BY <1>5 DEF ChatAbusive, queueVars
    <2> QED BY <2>1, <2>2, RemoveMembersTables
  <1>6. ASSUME NEW env, ChatRefused(c, env)
        PROVE  TableFacts'
    <2>1. CASE c # HostConnection /\ Punish(c, "ProtocolViolation")
      BY <2>1, PunishTables
    <2>2. CASE UNCHANGED <<members, connections, queueVars, timeoutRequests, nextConn>>
      BY <2>2, TablesFrame DEF queueVars
    <2> QED BY <1>6, <2>1, <2>2 DEF ChatRefused
  <1>7. ASSUME NEW env, ChatRelayed(c, env)
        PROVE  TableFacts'
    <2>1. /\ members' = IF env.kind = "Color"
                        THEN [members EXCEPT ![env.sender].color = env.body] ELSE members
          /\ UNCHANGED <<connections, requests, nextRequestId, timeoutRequests, nextConn>>
      BY <1>7 DEF ChatRelayed, queueVars
    <2>2. \A m \in DOMAIN members : members[m] \in MemberRecord
      BY EntryTypes DEF TablesInv
    <2>3. /\ DOMAIN members' = DOMAIN members
          /\ \A m \in DOMAIN members : members'[m].connection = members[m].connection
      BY <2>1, <2>2 DEF MemberRecord
    <2>4. Agree(members', connections', requests')
      BY <2>1, <2>3, AgreeTouch DEF TablesInv, TableFacts
    <2>5. HostPresent' /\ ConnectionsIssued' /\ RequestIdsDisjoint'
      BY <2>1, <2>3, IdsShrink DEF TablesInv, TableFacts, HostPresent, ConnectionsIssued
    <2> QED BY <2>4, <2>5 DEF TableFacts
  <1>8. ASSUME NEW env, TimeoutRequested(c, env)
        PROVE  TableFacts'
    <2>1. /\ UNCHANGED <<members, connections, requests, nextConn>>
          /\ DOMAIN timeoutRequests' = DOMAIN timeoutRequests \cup {nextRequestId}
          /\ nextRequestId' = nextRequestId + 1
      BY <1>8 DEF TimeoutRequested, With
    <2>2. /\ nextRequestId \in Nat
          /\ DOMAIN requests \cap DOMAIN timeoutRequests = {}
          /\ \A r \in DOMAIN requests \cup DOMAIN timeoutRequests : r \in Nat /\ r < nextRequestId
      BY DEF RequestIdsDisjoint, TablesInv, TableFacts, TypeOK, IsMap
    <2>3. RequestIdsDisjoint'
      BY <2>1, <2>2 DEF RequestIdsDisjoint
    <2>4. HostPresent' /\ ConnectionsIssued' /\ Agree(members', connections', requests')
      BY <2>1 DEF TablesInv, TableFacts, HostPresent, ConnectionsIssued
    <2> QED BY <2>3, <2>4 DEF TableFacts
  <1> QED BY <1>1, <1>2, <1>3, <1>4, <1>5, <1>6, <1>7, <1>8

\* Every event keeps the tables in agreement.
LEMMA TablesStep ==
    ASSUME TablesInv, [RoomStep]_vars
    PROVE  TablesInv'
PROOF
  <1>1. TypeOK' /\ IdsIssued'
    BY TypeStep DEF TablesInv
  <1>2. TableFacts'
    <2>1. ASSUME NEW c, RoomClosed(c)
          PROVE  TableFacts'
      BY <2>1, TablesFrame DEF RoomClosed, queueVars
    <2>2. CASE EventAfterClose
      BY <2>2, TablesFrame DEF EventAfterClose, NoEffect, queueVars
    <2>3. CASE UNCHANGED vars
      BY <2>3, TablesFrame DEF vars
    <2> QED BY <2>1, <2>2, <2>3, AdmissionTables, HostTables, DepartureTables,
               EpochTables, ChatTables DEF RoomStep
  <1> QED BY <1>1, <1>2 DEF TablesInv

\* The room starts with the host as the only member, on the local connection.
LEMMA TablesInit ==
    ASSUME Init
    PROVE  TablesInv
PROOF
  <1>1. /\ DOMAIN members = {HostId} /\ members[HostId].connection = HostConnection
        /\ DOMAIN connections = {HostConnection}
        /\ connections[HostConnection].role = "Member" /\ connections[HostConnection].id = HostId
        /\ DOMAIN requests = {} /\ DOMAIN timeoutRequests = {}
    BY DEF Init, With, Empty, Member, Entry
  <1>2. Agree(members, connections, requests)
    BY <1>1 DEF Agree
  <1>3. HostPresent /\ RequestIdsDisjoint
    BY <1>1 DEF HostPresent, RequestIdsDisjoint
  <1>4. ConnectionsIssued
    <2>1. nextConn = 1
      BY DEF Init
    <2> QED BY <1>1, <2>1 DEF ConnectionsIssued, HostConnection
  <1> QED BY <1>2, <1>3, <1>4, TypeInit DEF TablesInv, TableFacts

\* The inductive invariant holds throughout.
THEOREM TablesInvariant == Spec => []TablesInv
PROOF
  <1>1. Init => TablesInv
    BY TablesInit
  <1>2. TablesInv /\ [Next]_vars => TablesInv'
    BY TablesStep, NextIsRoomStep DEF TablesInv, IdsIssued
  <1> QED BY <1>1, <1>2, PTL DEF Spec

\* members and connections never disagree (members.add + promote, remove_member,
\* on_epoch_timeout, on_connection_lost), for any number of members and
\* connections and in any order of events.
THEOREM RegistryTheorem == Spec => []RegistryMatchesMembers
PROOF
  <1>1. TablesInv => RegistryMatchesMembers
    BY DEF TablesInv, TableFacts, Agree, RegistryMatchesMembers, RegisteredMember, HasRole
  <1> QED BY <1>1, TablesInvariant, PTL

\* The join queue and the registry never disagree (queue.push + attach,
\* take, drain and on_connection_lost).
THEOREM QueueTheorem == Spec => []QueueMatchesRegistry
PROOF
  <1>1. TablesInv => QueueMatchesRegistry
    BY DEF TablesInv, TableFacts, Agree, QueueMatchesRegistry, RegisteredRequest, HasRole
  <1> QED BY <1>1, TablesInvariant, PTL

\* One id never names both a join and a timeout request (allocate_id), however
\* many of either are asked for, decided and abandoned.
THEOREM RequestIdsTheorem == Spec => []RequestIdsDisjoint
PROOF
  <1>1. TablesInv => RequestIdsDisjoint
    BY DEF TablesInv, TableFacts
  <1> QED BY <1>1, TablesInvariant, PTL

-----------------------------------------------------------------------------
(* The keys *)

\* Keys were only ever given to people who had been issued a member id, so an
\* id handed out next was never given a key before.
HoldersIssued == \A e \in 1..epoch : \A m \in holders[e] : m < nextMemberId

KeyFacts == TransitionShape /\ KeyGoesToMembers /\ HoldersIssued

\* The inductive invariant behind the theorems of this module.
KeyInv == TablesInv /\ KeyFacts

-----------------------------------------------------------------------------
(* What a step does to the keys *)

\* The tables and counters are typed, and the current epoch's key is held by
\* the members, each of whom joined no later than now.
LEMMA KeyTypes ==
    ASSUME KeyInv
    PROVE  /\ epoch \in Nat /\ epoch # 0 /\ epochKey \in Nat /\ nextMemberId \in Nat
           /\ holders \in Seq(SUBSET Nat) /\ Len(holders) = epoch
           /\ \A m \in DOMAIN members : /\ m \in Nat /\ m < nextMemberId
                                        /\ members[m].joinedEpoch \in Nat
                                        /\ members[m].joinedEpoch <= epoch
           /\ HostId \in DOMAIN members
           /\ pendingEpoch \in [epoch : Nat, awaiting : SUBSET Nat, age : Nat]
PROOF
  <1>1. /\ epoch \in Nat /\ epoch # 0 /\ epochKey \in Nat /\ nextMemberId \in Nat
        /\ holders \in Seq(SUBSET Nat)
        /\ pendingEpoch \in [epoch : Nat, awaiting : SUBSET Nat, age : Nat]
    BY DEF KeyInv, TablesInv, TypeOK, IdsIssued
  <1>2. Len(holders) = epoch
    BY DEF KeyInv, KeyFacts, KeyGoesToMembers
  <1>3. \A m \in DOMAIN members : m \in Nat /\ m < nextMemberId /\ members[m].joinedEpoch \in Nat
    <2>1. \A m \in DOMAIN members : members[m] \in MemberRecord /\ m \in Nat
      BY EntryTypes DEF KeyInv, TablesInv
    <2> QED BY <2>1 DEF MemberRecord, KeyInv, TablesInv, IdsIssued
  <1>4. \A m \in DOMAIN members : members[m].joinedEpoch <= epoch
    <2>1. holders[epoch] = DOMAIN members
      BY DEF KeyInv, KeyFacts, KeyGoesToMembers
    <2>2. \A m \in DOMAIN members, e \in 1..epoch :
             m \in holders[e] <=> e >= members[m].joinedEpoch
      BY DEF KeyInv, KeyFacts, KeyGoesToMembers
    <2> QED BY <1>1, <1>3, <2>1, <2>2
  <1>5. HostId \in DOMAIN members
    BY DEF KeyInv, TablesInv, TableFacts, HostPresent
  <1> QED BY <1>1, <1>2, <1>3, <1>4, <1>5

\* A transition started for the members who stay and those just admitted
\* gives the new key to exactly them (begin_epoch_transition).
LEMMA BeginKeys ==
    ASSUME KeyInv, NEW ms, BeginEpochTransition(ms), members' = ms,
           HostId \in DOMAIN ms,
           \A m \in DOMAIN ms \cap DOMAIN members : ms[m].joinedEpoch = members[m].joinedEpoch,
           \A m \in DOMAIN ms \ DOMAIN members : m = nextMemberId /\ ms[m].joinedEpoch = epoch + 1,
           nextMemberId' \in Nat, nextMemberId' >= nextMemberId,
           \A m \in DOMAIN ms : m < nextMemberId'
    PROVE  KeyFacts'
PROOF
  <1>1. /\ epoch' = epoch + 1
        /\ state' = "EpochTransition"
        /\ pendingEpoch' = [epoch |-> epoch + 1, awaiting |-> DOMAIN ms, age |-> 0]
        /\ holders' = Append(holders, DOMAIN ms)
    BY DEF BeginEpochTransition
  <1>2. TransitionShape'
    BY <1>1 DEF TransitionShape, InTransition, AtRest
  <1>3. /\ Len(holders') = epoch + 1
        /\ holders'[epoch + 1] = DOMAIN ms
        /\ \A e \in 1..epoch : holders'[e] = holders[e]
    BY <1>1, KeyTypes
  <1>4. \A m \in DOMAIN members, e \in 1..epoch :
           m \in holders[e] <=> e >= members[m].joinedEpoch
    BY DEF KeyInv, KeyFacts, KeyGoesToMembers
  <1>5. \A e \in 1..epoch : \A m \in holders[e] : m \in Nat /\ m < nextMemberId
    BY KeyTypes DEF KeyInv, KeyFacts, HoldersIssued
  <1>6. ASSUME NEW m \in DOMAIN ms, NEW e \in 1..(epoch + 1)
        PROVE  m \in holders'[e] <=> e >= ms[m].joinedEpoch
    <2>1. CASE m \in DOMAIN members /\ e # epoch + 1
      BY <1>3, <1>4, <2>1, KeyTypes
    <2>2. CASE m \in DOMAIN members /\ e = epoch + 1
      BY <1>3, <2>2, KeyTypes
    <2>3. CASE m \notin DOMAIN members
      BY <1>3, <1>5, <2>3, KeyTypes
    <2> QED BY <2>1, <2>2, <2>3
  <1>7. KeyGoesToMembers'
    BY <1>1, <1>3, <1>6 DEF KeyGoesToMembers
  <1>8. HoldersIssued'
    <2> SUFFICES ASSUME NEW e \in 1..(epoch + 1), NEW m \in holders'[e]
                 PROVE  m < nextMemberId'
      BY <1>1 DEF HoldersIssued
    <2>1. CASE e = epoch + 1
      BY <1>3, <2>1
    <2>2. CASE e # epoch + 1
      <3>1. epoch \in Nat /\ nextMemberId \in Nat
        BY KeyTypes
      <3>2. e \in 1..epoch
        BY <2>2, <3>1
      <3>3. m \in Nat /\ m < nextMemberId
        BY <1>3, <1>5, <3>2
      <3> QED BY <3>1, <3>3
    <2> QED BY <2>1, <2>2
  <1> QED BY <1>2, <1>7, <1>8 DEF KeyFacts

\* Removals (remove_member, on_epoch_timeout).
LEMMA RemoveMembersKeys ==
    ASSUME KeyInv, NEW gone, NEW lost, NEW type,
           RemoveMembers(gone, lost, type), nextMemberId' = nextMemberId
    PROVE  KeyFacts'
PROOF
  <1> DEFINE rest == Restrict(members, DOMAIN members \ gone)
  <1>1. members' = rest /\ BeginEpochTransition(rest) /\ HostId \notin gone
    BY DEF RemoveMembers
  <1>2. DOMAIN rest = DOMAIN members \ gone /\ \A m \in DOMAIN rest : rest[m] = members[m]
    BY DEF Restrict
  <1> HIDE DEF rest
  <1>3. nextMemberId' >= nextMemberId /\ nextMemberId' \in Nat
    BY KeyTypes
  <1> QED BY <1>1, <1>2, <1>3, BeginKeys, KeyTypes

\* Admission (on_accept).
LEMMA AcceptJoinKeys ==
    ASSUME KeyInv, NEW r \in DOMAIN requests, AcceptJoin(r)
    PROVE  KeyFacts'
PROOF
  <1> DEFINE rec == Member(requests[r].connection, requests[r].application, epoch + 1)
             ms == With(members, nextMemberId, rec)
  <1>1. members' = ms /\ BeginEpochTransition(ms) /\ nextMemberId' = nextMemberId + 1
    BY DEF AcceptJoin
  <1>2. /\ DOMAIN ms = DOMAIN members \cup {nextMemberId}
        /\ ms[nextMemberId].joinedEpoch = epoch + 1
        /\ \A m \in DOMAIN members : m # nextMemberId => ms[m] = members[m]
    BY DEF With, Member
  <1> HIDE DEF ms
  <1>3. nextMemberId' >= nextMemberId /\ nextMemberId' \in Nat
    BY <1>1, KeyTypes
  <1>4. \A m \in DOMAIN members : m # nextMemberId /\ m < nextMemberId'
    BY <1>1, KeyTypes
  <1> QED BY <1>1, <1>2, <1>3, <1>4, BeginKeys, KeyTypes

\* Events that start no transition: the group and its keys stay as they are.
LEMMA KeysFrame ==
    ASSUME KeyInv, UNCHANGED <<epoch, holders, nextMemberId>>,
           DOMAIN members' = DOMAIN members,
           \A m \in DOMAIN members : members'[m].joinedEpoch = members[m].joinedEpoch,
           TransitionShape'
    PROVE  KeyFacts'
  BY DEF KeyInv, KeyFacts, KeyGoesToMembers, HoldersIssued

\* ... and most of them leave the transition alone as well.
LEMMA ShapeFrame ==
    ASSUME KeyInv, UNCHANGED <<epoch, epochKey, state, pendingEpoch>>,
           DOMAIN members' = DOMAIN members
    PROVE  TransitionShape'
  BY DEF KeyInv, KeyFacts, TransitionShape, InTransition, AtRest

\* Both frames at once, for events that also leave the table alone.
LEMMA QuietKeys ==
    ASSUME KeyInv, UNCHANGED <<members, nextMemberId, epoch, holders, epochKey, state, pendingEpoch>>
    PROVE  KeyFacts'
  BY KeysFrame, ShapeFrame

\* on_connection_lost: of a member, or of somebody who holds no key.
LEMMA LoseConnectionKeys ==
    ASSUME KeyInv, NEW c, NEW first, NEW close, LoseConnection(c, first, close)
    PROVE  KeyFacts'
PROOF
  <1>1. CASE RemoveMembers(MemberOf(c) \cap DOMAIN members, {c}, "MemberLeft")
    BY <1>1, RemoveMembersKeys DEF LoseConnection
  <1>2. CASE UNCHANGED <<state, members, epochVars>>
    BY <1>2, QuietKeys DEF LoseConnection, epochVars
  <1> QED BY <1>1, <1>2 DEF LoseConnection

-----------------------------------------------------------------------------
(* Every event keeps the keys with the members *)

\* Accept loop, password results and join forms.
LEMMA AdmissionKeys ==
    ASSUME KeyInv, AdmissionEvent
    PROVE  KeyFacts'
PROOF
  <1>1. CASE ClientConnected
    BY <1>1, QuietKeys DEF ClientConnected, epochVars
  <1>2. ASSUME NEW c, PasswordVerified(c) \/ PasswordIgnored(c)
        PROVE  KeyFacts'
    BY <1>2, QuietKeys DEF PasswordVerified, PasswordIgnored, NoEffect, epochVars
  <1>3. ASSUME NEW c, NEW app, JoinRequested(c, app)
        PROVE  KeyFacts'
    BY <1>3, QuietKeys DEF JoinRequested, epochVars
  <1>4. ASSUME NEW c, JoinRefused(c)
        PROVE  KeyFacts'
    BY <1>4, LoseConnectionKeys DEF JoinRefused, Punish
  <1> QED BY <1>1, <1>2, <1>3, <1>4 DEF AdmissionEvent

\* close_room, at any time.
LEMMA CloseKeys ==
    ASSUME KeyInv, CloseRoom
    PROVE  KeyFacts'
PROOF
  <1>1. /\ state' = "Destroyed"
        /\ UNCHANGED <<members, nextMemberId, epoch, holders>>
    BY DEF CloseRoom
  <1>2. TransitionShape'
    BY <1>1 DEF TransitionShape, InTransition, AtRest
  <1> QED BY <1>1, <1>2, KeysFrame

\* The host's commands.
LEMMA HostKeys ==
    ASSUME KeyInv, HostEvent
    PROVE  KeyFacts'
PROOF
  <1>1. ASSUME NEW r, AcceptRefused(r) \/ RejectJoin(r)
        PROVE  KeyFacts'
    BY <1>1, QuietKeys DEF AcceptRefused, RejectJoin, TurnAway, epochVars
  <1>2. ASSUME NEW r, NEW accepted, DecideTimeoutRequest(r, accepted)
        PROVE  KeyFacts'
    BY <1>2, QuietKeys DEF DecideTimeoutRequest, epochVars
  <1>3. ASSUME NEW m, Kick(m)
        PROVE  KeyFacts'
    BY <1>3, RemoveMembersKeys DEF Kick
  <1>4. CASE NewId
    BY <1>4, QuietKeys DEF NewId, epochVars
  <1>5. ASSUME NEW p \in {"Open", "Locked"}, SetPolicy(p)
        PROVE  KeyFacts'
    <2>1. /\ AtRest /\ state' = p
          /\ UNCHANGED <<members, nextMemberId, epoch, pendingEpoch, holders, epochKey>>
      BY <1>5 DEF SetPolicy, epochVars
    <2>2. pendingEpoch = NoPending /\ epochKey = epoch
      BY <2>1 DEF KeyInv, KeyFacts, TransitionShape
    <2>3. TransitionShape'
      BY <2>1, <2>2 DEF TransitionShape, InTransition, AtRest, NoPending
    <2> QED BY <2>1, <2>3, KeysFrame
  <1>6. CASE CloseRequested
    BY <1>6, CloseKeys DEF CloseRequested
  <1> QED BY <1>1, <1>2, <1>3, <1>4, <1>5, <1>6, AcceptJoinKeys DEF HostEvent

\* Members leaving, and member commands.
LEMMA DepartureKeys ==
    ASSUME KeyInv, DepartureEvent
    PROVE  KeyFacts'
PROOF
  <1>1. ASSUME NEW c, ConnectionLost(c) \/ MemberCommandRefused(c)
        PROVE  KeyFacts'
    BY <1>1, LoseConnectionKeys DEF ConnectionLost, MemberCommandRefused, Punish
  <1>2. ASSUME NEW c, Leave(c)
        PROVE  KeyFacts'
    BY <1>2, RemoveMembersKeys DEF Leave
  <1>3. ASSUME NEW c, NEW color, ColorCommand(c, color)
        PROVE  KeyFacts'
    <2>1. /\ members' = [m \in DOMAIN members |->
                IF m \in RegisteredMember(c) THEN [members[m] EXCEPT !.color = color]
                ELSE members[m]]
          /\ UNCHANGED <<nextMemberId, epoch, holders, epochKey, state, pendingEpoch>>
      BY <1>3 DEF ColorCommand, epochVars
    <2>2. \A m \in DOMAIN members : members[m] \in MemberRecord
      BY EntryTypes DEF KeyInv, TablesInv
    <2>3. /\ DOMAIN members' = DOMAIN members
          /\ \A m \in DOMAIN members : members'[m].joinedEpoch = members[m].joinedEpoch
      BY <2>1, <2>2 DEF MemberRecord
    <2> QED BY <2>1, <2>3, KeysFrame, ShapeFrame
  <1>4. ASSUME NEW m, MemberLeft(m)
        PROVE  KeyFacts'
    BY <1>4, RemoveMembersKeys DEF MemberLeft
  <1> QED BY <1>1, <1>2, <1>3, <1>4 DEF DepartureEvent

\* Acknowledgements and the deadline.
LEMMA EpochKeys ==
    ASSUME KeyInv, EpochEvent
    PROVE  KeyFacts'
PROOF
  <1>1. ASSUME NEW c, NEW e, EpochAck(c, e)
        PROVE  KeyFacts'
    <2> DEFINE left == pendingEpoch.awaiting \ RegisteredMember(c)
    <2>1. /\ InTransition
          /\ UNCHANGED <<members, nextMemberId, epoch, holders>>
      BY <1>1 DEF EpochAck
    <2>2. /\ pendingEpoch.epoch = epoch
          /\ pendingEpoch.awaiting \subseteq DOMAIN members
      BY <2>1 DEF KeyInv, KeyFacts, TransitionShape
    <2>3. CASE /\ left # {}
               /\ pendingEpoch' = [pendingEpoch EXCEPT !.awaiting = left]
               /\ UNCHANGED state
      <3>1. pendingEpoch'.epoch = pendingEpoch.epoch /\ pendingEpoch'.awaiting = left
        BY <2>3, KeyTypes
      <3>2. TransitionShape'
        BY <2>1, <2>2, <2>3, <3>1 DEF TransitionShape, InTransition, AtRest
      <3> QED BY <2>1, <3>2, KeysFrame
    <2>4. CASE /\ pendingEpoch' = NoPending
               /\ epochKey' = pendingEpoch.epoch
               /\ state' = RestState
      <3>1. TransitionShape'
        BY <2>1, <2>2, <2>4 DEF TransitionShape, InTransition, AtRest, RestState
      <3> QED BY <2>1, <3>1, KeysFrame
    <2> QED BY <1>1, <2>3, <2>4 DEF EpochAck
  <1>2. ASSUME NEW c, NEW e, EpochAckIgnored(c, e)
        PROVE  KeyFacts'
    BY <1>2, QuietKeys DEF EpochAckIgnored, NoEffect, epochVars
  <1>3. CASE DroppedInTransition
    BY <1>3, QuietKeys DEF DroppedInTransition, NoEffect, epochVars
  <1>4. CASE EpochTimeout
    <2>1. CASE CloseRoom
      BY <2>1, CloseKeys
    <2>2. CASE /\ RemoveMembers(pendingEpoch.awaiting \cap DOMAIN members, {}, "MemberLeft")
               /\ UNCHANGED nextMemberId
      BY <2>2, RemoveMembersKeys
    <2> QED BY <1>4, <2>1, <2>2 DEF EpochTimeout
  <1>5. CASE Tick
    <2>1. UNCHANGED <<members, nextMemberId, epoch, holders, epochKey, state>>
      BY <1>5 DEF Tick
    <2>2. \/ pendingEpoch' = pendingEpoch
          \/ pendingEpoch # NoPending /\ pendingEpoch' = [pendingEpoch EXCEPT !.age = @ + 1]
      BY <1>5 DEF Tick
    <2>3. CASE pendingEpoch' = pendingEpoch
      BY <2>1, <2>3, QuietKeys
    <2>4. CASE pendingEpoch # NoPending /\ pendingEpoch' = [pendingEpoch EXCEPT !.age = @ + 1]
      <3>1. /\ pendingEpoch'.epoch = pendingEpoch.epoch
            /\ pendingEpoch'.awaiting = pendingEpoch.awaiting
        BY <2>4, KeyTypes
      <3>2. ~ AtRest
        BY <2>4 DEF KeyInv, KeyFacts, TransitionShape
      <3>3. TransitionShape'
        BY <2>1, <3>1, <3>2 DEF KeyInv, KeyFacts, TransitionShape, InTransition, AtRest
      <3> QED BY <2>1, <3>3, KeysFrame
    <2> QED BY <2>2, <2>3, <2>4
  <1> QED BY <1>1, <1>2, <1>3, <1>4, <1>5 DEF EpochEvent

\* The chat relay.
LEMMA ChatKeys ==
    ASSUME KeyInv, AnyChat
    PROVE  KeyFacts'
PROOF
  <1>1. ASSUME NEW c, ChatDuringTransition(c)
        PROVE  KeyFacts'
    BY <1>1, QuietKeys DEF ChatDuringTransition, epochVars
  <1>2. ASSUME NEW c, NEW env, ChatUnauthorised(c, env)
        PROVE  KeyFacts'
    BY <1>2, LoseConnectionKeys DEF ChatUnauthorised, Punish
  <1>3. ASSUME NEW c, NEW env, ChatRateLimited(c, env)
        PROVE  KeyFacts'
    BY <1>3, QuietKeys DEF ChatRateLimited, epochVars
  <1>4. ASSUME NEW c, NEW env, ChatAbusive(c, env)
        PROVE  KeyFacts'
    BY <1>4, RemoveMembersKeys DEF ChatAbusive
  <1>5. ASSUME NEW c, NEW env, ChatRefused(c, env)
        PROVE  KeyFacts'
    <2>1. CASE Punish(c, "ProtocolViolation")
      BY <2>1, LoseConnectionKeys DEF Punish
    <2>2. CASE UNCHANGED <<state, members, nextMemberId, epochVars, epochKey>>
      BY <2>2, QuietKeys DEF epochVars
    <2> QED BY <1>5, <2>1, <2>2 DEF ChatRefused
  <1>6. ASSUME NEW c, NEW env, ChatRelayed(c, env)
        PROVE  KeyFacts'
    <2>1. /\ members' = IF env.kind = "Color"
                        THEN [members EXCEPT ![env.sender].color = env.body] ELSE members
          /\ UNCHANGED <<nextMemberId, epoch, holders, epochKey, state, pendingEpoch>>
      BY <1>6 DEF ChatRelayed
    <2>2. \A m \in DOMAIN members : members[m] \in MemberRecord
      BY EntryTypes DEF KeyInv, TablesInv
    <2>3. /\ DOMAIN members' = DOMAIN members
          /\ \A m \in DOMAIN members : members'[m].joinedEpoch = members[m].joinedEpoch
      BY <2>1, <2>2 DEF MemberRecord
    <2> QED BY <2>1, <2>3, KeysFrame, ShapeFrame
  <1>7. ASSUME NEW c, NEW env, TimeoutRequested(c, env)
        PROVE  KeyFacts'
    BY <1>7, QuietKeys DEF TimeoutRequested
  <1> QED BY <1>1, <1>2, <1>3, <1>4, <1>5, <1>6, <1>7 DEF AnyChat

\* Every event keeps the keys with the members.
LEMMA KeyStep ==
    ASSUME KeyInv, [RoomStep]_vars
    PROVE  KeyInv'
PROOF
  <1>1. TablesInv'
    BY TablesStep DEF KeyInv
  <1>2. KeyFacts'
    <2>1. ASSUME NEW c, RoomClosed(c)
          PROVE  KeyFacts'
      BY <2>1, QuietKeys DEF RoomClosed, epochVars
    <2>2. CASE EventAfterClose
      BY <2>2, QuietKeys DEF EventAfterClose, NoEffect, epochVars
    <2>3. CASE UNCHANGED vars
      BY <2>3, QuietKeys DEF vars
    <2> QED BY <2>1, <2>2, <2>3, AdmissionKeys, HostKeys, DepartureKeys,
               EpochKeys, ChatKeys DEF RoomStep
  <1> QED BY <1>1, <1>2 DEF KeyInv

\* start() begins the first transition for the host alone.
LEMMA KeyInit ==
    ASSUME Init
    PROVE  KeyInv
PROOF
  <1>1. TablesInv
    BY TablesInit
  <1>2. /\ DOMAIN members = {HostId} /\ members[HostId].joinedEpoch = 1
        /\ state = "EpochTransition" /\ epoch = 1 /\ holders = <<{HostId}>>
        /\ pendingEpoch = [epoch |-> 1, awaiting |-> {HostId}, age |-> 0]
        /\ nextMemberId = 1
    BY DEF Init, With, Empty, Member
  <1>3. TransitionShape
    BY <1>2 DEF TransitionShape, InTransition, AtRest
  <1>4. KeyGoesToMembers
    BY <1>2 DEF KeyGoesToMembers, HostId
  <1>5. HoldersIssued
    BY <1>2 DEF HoldersIssued, HostId
  <1> QED BY <1>1, <1>3, <1>4, <1>5 DEF KeyInv, KeyFacts

-----------------------------------------------------------------------------
(* The theorems *)

\* The inductive invariant holds throughout.
THEOREM KeyInvariant == Spec => []KeyInv
PROOF
  <1>1. Init => KeyInv
    BY KeyInit
  <1>2. KeyInv /\ [Next]_vars => KeyInv'
    BY KeyStep, NextIsRoomStep DEF KeyInv, TablesInv, IdsIssued
  <1> QED BY <1>1, <1>2, PTL DEF Spec

\* However transitions nest, the room is in one exactly while members - and
\* nobody else - are awaited for the current epoch, and at rest it uses the
\* current epoch's key (begin_epoch_transition, on_epoch_ack, on_epoch_timeout).
THEOREM TransitionTheorem == Spec => []TransitionShape
PROOF
  <1>1. KeyInv => TransitionShape
    BY DEF KeyInv, KeyFacts
  <1> QED BY <1>1, KeyInvariant, PTL

\* The current key was wrapped for exactly the current members, and every
\* member holds exactly the keys since it joined, for any number of members
\* and any order of joins, removals and evictions.
THEOREM KeyTheorem == Spec => []KeyGoesToMembers
PROOF
  <1>1. KeyInv => KeyGoesToMembers
    BY DEF KeyInv, KeyFacts
  <1> QED BY <1>1, KeyInvariant, PTL

-----------------------------------------------------------------------------
(* The four things a step can do to the group and its keys *)

\* A new key for the new group.
Rekeyed ==
    /\ Running
    /\ BeginEpochTransition(members')
    /\ epochKey' = epochKey
    /\ DOMAIN members' \subseteq DOMAIN members \cup {nextMemberId}

\* An acknowledgement that counts.
Acknowledged == \E c, e : EpochAck(c, e)

\* The room closes.
Closed == Running /\ CloseRoom

\* Nothing that concerns the group or its keys.
Untouched ==
    /\ UNCHANGED <<epoch, holders, epochKey, Running>>
    /\ DOMAIN members' = DOMAIN members
    /\ (pendingEpoch' = NoPending) <=> (pendingEpoch = NoPending)
    /\ pendingEpoch'.awaiting = pendingEpoch.awaiting

Kinded == Rekeyed \/ Acknowledged \/ Closed \/ Untouched

\* Events that leave table, keys, state and pending epoch alone.
LEMMA QuietKind ==
    ASSUME UNCHANGED <<members, epoch, holders, epochKey, state, pendingEpoch>>
    PROVE  Kinded
  BY DEF Kinded, Untouched, Running

\* Removals.
LEMMA RemoveKind ==
    ASSUME NEW gone, NEW lost, NEW type, RemoveMembers(gone, lost, type),
           Running, epochKey' = epochKey
    PROVE  Kinded
PROOF
  <1> DEFINE rest == Restrict(members, DOMAIN members \ gone)
  <1>1. members' = rest /\ BeginEpochTransition(rest)
    BY DEF RemoveMembers
  <1>2. DOMAIN rest \subseteq DOMAIN members
    BY DEF Restrict
  <1> HIDE DEF rest
  <1> QED BY <1>1, <1>2 DEF Kinded, Rekeyed

\* on_connection_lost.
LEMMA LoseKind ==
    ASSUME Running, NEW c, NEW first, NEW close, LoseConnection(c, first, close)
    PROVE  Kinded
PROOF
  <1>1. CASE RemoveMembers(MemberOf(c) \cap DOMAIN members, {c}, "MemberLeft")
    BY <1>1, RemoveKind DEF LoseConnection
  <1>2. CASE UNCHANGED <<state, members, epochVars>>
    BY <1>2, QuietKind DEF LoseConnection, epochVars
  <1> QED BY <1>1, <1>2 DEF LoseConnection

\* Accept loop, password results and join forms.
LEMMA AdmissionKind ==
    ASSUME AdmissionEvent
    PROVE  Kinded
PROOF
  <1>1. CASE ClientConnected
    BY <1>1, QuietKind DEF ClientConnected, epochVars
  <1>2. ASSUME NEW c, PasswordVerified(c) \/ PasswordIgnored(c)
        PROVE  Kinded
    BY <1>2, QuietKind DEF PasswordVerified, PasswordIgnored, NoEffect, epochVars
  <1>3. ASSUME NEW c, NEW app, JoinRequested(c, app)
        PROVE  Kinded
    BY <1>3, QuietKind DEF JoinRequested, epochVars
  <1>4. ASSUME NEW c, JoinRefused(c)
        PROVE  Kinded
    BY <1>4, LoseKind DEF JoinRefused, Punish, AtRest, Running
  <1> QED BY <1>1, <1>2, <1>3, <1>4 DEF AdmissionEvent

\* The host's commands.
LEMMA HostKind ==
    ASSUME HostEvent
    PROVE  Kinded
PROOF
  <1>1. ASSUME NEW r, AcceptJoin(r)
        PROVE  Kinded
    <2> DEFINE ms == With(members, nextMemberId,
                          Member(requests[r].connection, requests[r].application, epoch + 1))
    <2>1. members' = ms /\ BeginEpochTransition(ms) /\ epochKey' = epochKey /\ Running
      BY <1>1 DEF AcceptJoin, AtRest, Running
    <2>2. DOMAIN ms = DOMAIN members \cup {nextMemberId}
      BY DEF With
    <2> HIDE DEF ms
    <2> QED BY <2>1, <2>2 DEF Kinded, Rekeyed
  <1>2. ASSUME NEW r, AcceptRefused(r) \/ RejectJoin(r)
        PROVE  Kinded
    BY <1>2, QuietKind DEF AcceptRefused, RejectJoin, TurnAway, epochVars
  <1>3. ASSUME NEW r, NEW accepted, DecideTimeoutRequest(r, accepted)
        PROVE  Kinded
    BY <1>3, QuietKind DEF DecideTimeoutRequest, epochVars
  <1>4. ASSUME NEW m, Kick(m)
        PROVE  Kinded
    BY <1>4, RemoveKind DEF Kick, AtRest, Running
  <1>5. CASE NewId
    BY <1>5, QuietKind DEF NewId, epochVars
  <1>6. ASSUME NEW p \in {"Open", "Locked"}, SetPolicy(p)
        PROVE  Kinded
    BY <1>6 DEF SetPolicy, epochVars, AtRest, Running, Kinded, Untouched
  <1>7. CASE CloseRequested
    BY <1>7 DEF CloseRequested, Kinded, Closed
  <1> QED BY <1>1, <1>2, <1>3, <1>4, <1>5, <1>6, <1>7 DEF HostEvent

\* Members leaving, and member commands.
LEMMA DepartureKind ==
    ASSUME DepartureEvent
    PROVE  Kinded
PROOF
  <1>1. ASSUME NEW c, ConnectionLost(c) \/ MemberCommandRefused(c)
        PROVE  Kinded
    BY <1>1, LoseKind DEF ConnectionLost, MemberCommandRefused, Punish, AtRest, Running
  <1>2. ASSUME NEW c, Leave(c)
        PROVE  Kinded
    BY <1>2, RemoveKind DEF Leave, AtRest, Running
  <1>3. ASSUME NEW c, NEW color, ColorCommand(c, color)
        PROVE  Kinded
    <2>1. /\ DOMAIN members' = DOMAIN members
          /\ UNCHANGED <<epoch, holders, epochKey, state, pendingEpoch>>
      BY <1>3 DEF ColorCommand, epochVars
    <2> QED BY <2>1 DEF Kinded, Untouched, Running
  <1>4. ASSUME NEW m, MemberLeft(m)
        PROVE  Kinded
    BY <1>4, RemoveKind DEF MemberLeft, AtRest, Running
  <1> QED BY <1>1, <1>2, <1>3, <1>4 DEF DepartureEvent

\* Acknowledgements and the deadline.
LEMMA EpochKind ==
    ASSUME KeyInv, EpochEvent
    PROVE  Kinded
PROOF
  <1>1. ASSUME NEW c, NEW e, EpochAck(c, e)
        PROVE  Kinded
    BY <1>1 DEF Kinded, Acknowledged
  <1>2. ASSUME NEW c, NEW e, EpochAckIgnored(c, e)
        PROVE  Kinded
    BY <1>2, QuietKind DEF EpochAckIgnored, NoEffect, epochVars
  <1>3. CASE DroppedInTransition
    BY <1>3, QuietKind DEF DroppedInTransition, NoEffect, epochVars
  <1>4. CASE EpochTimeout
    <2>1. Running
      BY <1>4 DEF EpochTimeout, Expired, InTransition, Running
    <2>2. CASE CloseRoom
      BY <2>1, <2>2 DEF Kinded, Closed
    <2>3. CASE /\ RemoveMembers(pendingEpoch.awaiting \cap DOMAIN members, {}, "MemberLeft")
               /\ UNCHANGED epochKey
      BY <2>1, <2>3, RemoveKind
    <2> QED BY <1>4, <2>2, <2>3 DEF EpochTimeout
  <1>5. CASE Tick
    <2>1. /\ UNCHANGED <<members, epoch, holders, epochKey, state>>
          /\ \/ pendingEpoch' = pendingEpoch
             \/ pendingEpoch # NoPending /\ pendingEpoch' = [pendingEpoch EXCEPT !.age = @ + 1]
      BY <1>5 DEF Tick
    <2>2. CASE pendingEpoch' = pendingEpoch
      BY <2>1, <2>2, QuietKind
    <2>3. CASE pendingEpoch # NoPending /\ pendingEpoch' = [pendingEpoch EXCEPT !.age = @ + 1]
      <3>1. pendingEpoch'.awaiting = pendingEpoch.awaiting /\ pendingEpoch'.age # 0
        BY <2>3, KeyTypes
      <3>2. pendingEpoch' # NoPending
        BY <3>1 DEF NoPending
      <3> QED BY <2>1, <2>3, <3>1, <3>2 DEF Kinded, Untouched, Running
    <2> QED BY <2>1, <2>2, <2>3
  <1> QED BY <1>1, <1>2, <1>3, <1>4, <1>5 DEF EpochEvent

\* The chat relay.
LEMMA ChatKind ==
    ASSUME AnyChat
    PROVE  Kinded
PROOF
  <1>1. ASSUME NEW c, ChatDuringTransition(c)
        PROVE  Kinded
    BY <1>1, QuietKind DEF ChatDuringTransition, epochVars
  <1>2. ASSUME NEW c, NEW env, ChatUnauthorised(c, env)
        PROVE  Kinded
    BY <1>2, LoseKind DEF ChatUnauthorised, Punish, ChatAllowed
  <1>3. ASSUME NEW c, NEW env, ChatRateLimited(c, env)
        PROVE  Kinded
    BY <1>3, QuietKind DEF ChatRateLimited, epochVars
  <1>4. ASSUME NEW c, NEW env, ChatAbusive(c, env)
        PROVE  Kinded
    BY <1>4, RemoveKind DEF ChatAbusive, Sender, ChatAllowed
  <1>5. ASSUME NEW c, NEW env, ChatRefused(c, env)
        PROVE  Kinded
    <2>1. CASE Punish(c, "ProtocolViolation")
      BY <1>5, <2>1, LoseKind DEF ChatRefused, Punish, Sender, ChatAllowed
    <2>2. CASE UNCHANGED <<state, members, epochVars, epochKey>>
      BY <2>2, QuietKind DEF epochVars
    <2> QED BY <1>5, <2>1, <2>2 DEF ChatRefused
  <1>6. ASSUME NEW c, NEW env, ChatRelayed(c, env)
        PROVE  Kinded
    <2>1. /\ DOMAIN members' = DOMAIN members
          /\ UNCHANGED <<epoch, holders, epochKey, state, pendingEpoch>>
      BY <1>6 DEF ChatRelayed
    <2> QED BY <2>1 DEF Kinded, Untouched, Running
  <1>7. ASSUME NEW c, NEW env, TimeoutRequested(c, env)
        PROVE  Kinded
    BY <1>7, QuietKind DEF TimeoutRequested
  <1> QED BY <1>1, <1>2, <1>3, <1>4, <1>5, <1>6, <1>7 DEF AnyChat

\* Every step is of one of the four kinds.
LEMMA StepKinds ==
    ASSUME KeyInv, [RoomStep]_vars
    PROVE  Kinded
PROOF
  <1>1. ASSUME NEW c, RoomClosed(c)
        PROVE  Kinded
    BY <1>1, QuietKind DEF RoomClosed, epochVars
  <1>2. CASE EventAfterClose
    BY <1>2, QuietKind DEF EventAfterClose, NoEffect, epochVars
  <1>3. CASE UNCHANGED vars
    BY <1>3, QuietKind DEF vars
  <1> QED BY <1>1, <1>2, <1>3, AdmissionKind, HostKind, DepartureKind, EpochKind, ChatKind
          DEF RoomStep

\* Whoever left, was kicked or was evicted is never given a later key: member
\* ids are not reused, and a transition wraps for the table only.
THEOREM GoneTheorem == Spec => GoneForGood
PROOF
  <1> DEFINE Kept == \A m \in 0..(nextMemberId - 1) :
                        m \notin DOMAIN members =>
                           \A e \in (epoch + 1)..epoch' : m \notin holders'[e]
  <1>1. KeyInv /\ [Next]_vars => [Kept]_vars
    <2> SUFFICES ASSUME KeyInv, [Next]_vars, NEW m \in 0..(nextMemberId - 1),
                        m \notin DOMAIN members, NEW e \in (epoch + 1)..epoch'
                 PROVE  m \notin holders'[e]
      OBVIOUS
    <2>1. CASE Rekeyed
      <3>1. epoch' = epoch + 1 /\ holders' = Append(holders, DOMAIN members')
        BY <2>1 DEF Rekeyed, BeginEpochTransition
      <3>2. e = epoch + 1 /\ m # nextMemberId
        BY <3>1, KeyTypes
      <3>3. holders'[e] = DOMAIN members'
        BY <3>1, <3>2, KeyTypes
      <3> QED BY <2>1, <3>2, <3>3 DEF Rekeyed
    <2>2. CASE Acknowledged \/ Closed \/ Untouched
      <3>1. epoch' = epoch
        BY <2>2 DEF Acknowledged, EpochAck, Closed, CloseRoom, Untouched
      <3> QED BY <3>1, KeyTypes
    <2> QED BY <2>1, <2>2, StepKinds, NextIsRoomStep DEF Kinded, KeyInv, TablesInv, IdsIssued
  <1>2. GoneForGood <=> [][Kept]_vars
    BY DEF GoneForGood
  <1> QED BY <1>1, <1>2, KeyInvariant, PTL DEF Spec

-----------------------------------------------------------------------------
(* The chat relay: members are distinct people, a relayed envelope reaches *)
(* holders of its key only, and is never relayed again.                    *)

\* A batch without relayed envelopes.
NoRelay(send) == \A c \in Conn : \A i \in DOMAIN send[c] : send[c][i].type # "Relay"

\* What an event does to nicknames and identities when it admits nobody.
NamesKept ==
    /\ DOMAIN members' \subseteq DOMAIN members
    /\ \A m \in DOMAIN members' : /\ members'[m].nickname = members[m].nickname
                                  /\ members'[m].identity = members[m].identity

\* The replay state only moves forward, until a new epoch drops it.
ReplayAdvances ==
    \/ epoch' = epoch + 1
    \/ epoch' = epoch /\ chatReplay' = chatReplay
    \/ /\ epoch' = epoch
       /\ \E env : Fresh(env) /\ env.sequence \in Nat /\ RecordSequence(env)

\* The three things an event can be to the relay.
Relaying == \E c \in Conn : \E env \in AnyEnvelope : ChatRelayed(c, env)
Admitting == \E r \in DOMAIN requests : AcceptJoin(r)
Unrelayed == NoRelay(outgoing'.send) /\ relayed' = relayed /\ NamesKept /\ ReplayAdvances

-----------------------------------------------------------------------------
(* Batches without relayed envelopes *)

\* What the handlers other than on_chat_received put together carries none.
LEMMA NoRelayBatches ==
    /\ NoRelay(Silence)
    /\ \A c \in Conn : \A msg : msg.type # "Relay" => NoRelay(SendTo(c, msg))
    /\ \A C, msg : msg.type # "Relay" => NoRelay(SendAll(C, msg))
    /\ \A a, b \in [Conn -> Seq(Message)] : NoRelay(a) /\ NoRelay(b) => NoRelay(Then(a, b))
    /\ \A p \in [Conn -> Seq(RoomEvent)] : NoRelay(p)
PROOF
  <1>1. NoRelay(Silence)
    BY DEF NoRelay, Silence
  <1>2. \A c \in Conn : \A msg : msg.type # "Relay" => NoRelay(SendTo(c, msg))
    BY DEF NoRelay, SendTo, Silence
  <1>3. \A C, msg : msg.type # "Relay" => NoRelay(SendAll(C, msg))
    BY DEF NoRelay, SendAll
  <1>4. ASSUME NEW a \in [Conn -> Seq(Message)], NEW b \in [Conn -> Seq(Message)],
               NoRelay(a), NoRelay(b), NEW c \in Conn, NEW i \in DOMAIN Then(a, b)[c]
        PROVE  Then(a, b)[c][i].type # "Relay"
    <2>1. Then(a, b)[c] = a[c] \o b[c] /\ a[c] \in Seq(Message) /\ b[c] \in Seq(Message)
      BY DEF Then
    <2>2. i \in DOMAIN a[c] \/ (i - Len(a[c]) \in DOMAIN b[c] /\ i \in Nat /\ i > Len(a[c]))
      BY <2>1
    <2>3. CASE i \in DOMAIN a[c]
      <3>1. (a[c] \o b[c])[i] = a[c][i]
        BY <2>1, <2>3
      <3> QED BY <2>1, <2>3, <3>1, <1>4 DEF NoRelay
    <2>4. CASE i - Len(a[c]) \in DOMAIN b[c] /\ i \in Nat /\ i > Len(a[c])
      <3>1. (a[c] \o b[c])[i] = b[c][i - Len(a[c])]
        BY <2>1, <2>4
      <3> QED BY <2>1, <2>4, <3>1, <1>4 DEF NoRelay
    <2> QED BY <2>2, <2>3, <2>4
  <1>5. ASSUME NEW p \in [Conn -> Seq(RoomEvent)], NEW c \in Conn, NEW i \in DOMAIN p[c]
        PROVE  p[c][i].type # "Relay"
    <2>1. p[c][i] \in RoomEvent
      BY <1>5
    <2> QED BY <2>1 DEF RoomEvent
  <1> QED BY <1>1, <1>2, <1>3, <1>4, <1>5 DEF NoRelay

\* Key wraps carry none, and are typed.
LEMMA WrapBatches ==
    ASSUME epoch \in Nat
    PROVE  \A ms : NoRelay(Wraps(ms)) /\ Wraps(ms) \in [Conn -> Seq(Message)]
PROOF
  <1>1. EpochWrap(epoch + 1) \in Message /\ EpochWrap(epoch + 1).type # "Relay"
    BY MessageTypes DEF EpochWrap
  <1> QED BY <1>1, NoRelayBatches, SendTypes DEF Wraps

\* Neither do error replies.
LEMMA ErrorBatches ==
    ASSUME NEW c \in Conn,
           NEW code \in {"RoomLocked", "RoomClosed", "ProtocolViolation", "RateLimited"}
    PROVE  NoRelay(SendTo(c, Error(code))) /\ SendTo(c, Error(code)) \in [Conn -> Seq(Message)]
PROOF
  <1>1. Error(code) \in Message /\ Error(code).type # "Relay"
    BY MessageTypes DEF Error
  <1> QED BY <1>1, NoRelayBatches, SendTypes

-----------------------------------------------------------------------------
(* Every event relays, admits or is plain *)

\* Events that leave table, epoch and replay state alone.
LEMMA QuietPlain ==
    ASSUME UNCHANGED <<members, epoch, chatReplay, relayed>>,
           NEW send, NEW close, NEW notices, Emit(send, close, notices), NoRelay(send)
    PROVE  Unrelayed
PROOF
  <1>1. outgoing'.send = send
    BY DEF Emit
  <1> QED BY <1>1 DEF Unrelayed, NamesKept, ReplayAdvances

\* Events without effect.
LEMMA NoEffectPlain ==
    ASSUME NoEffect
    PROVE  Unrelayed
  BY QuietPlain, NoRelayBatches DEF NoEffect, epochVars

\* Removals (remove_member, on_epoch_timeout).
LEMMA RemovePlain ==
    ASSUME NEW gone, NEW lost, NEW type, RemoveMembers(gone, lost, type), relayed' = relayed,
           NEW send, NEW close, NEW notices, Emit(send, close, notices), NoRelay(send)
    PROVE  Unrelayed
PROOF
  <1>1. outgoing'.send = send
    BY DEF Emit
  <1>2. members' = Restrict(members, DOMAIN members \ gone) /\ epoch' = epoch + 1
    BY DEF RemoveMembers, BeginEpochTransition
  <1>3. NamesKept
    BY <1>2 DEF NamesKept, Restrict
  <1> QED BY <1>1, <1>2, <1>3 DEF Unrelayed, ReplayAdvances

\* on_connection_lost.
LEMMA LosePlain ==
    ASSUME TypeOK, NEW c, NEW first \in [Conn -> Seq(Message)], NoRelay(first), NEW close,
           LoseConnection(c, first, close)
    PROVE  Unrelayed
PROOF
  <1> DEFINE gone == MemberOf(c) \cap DOMAIN members
  <1>1. relayed' = relayed
    BY DEF LoseConnection
  <1>2. CASE RemoveMembers(gone, {c}, "MemberLeft") /\ Emit(Then(first, WrapsWithout(gone)), close, {})
    <2>1. NoRelay(Then(first, WrapsWithout(gone)))
      BY NoRelayBatches, WrapBatches DEF WrapsWithout, TypeOK
    <2> QED BY <1>1, <1>2, <2>1, RemovePlain
  <1>3. CASE Emit(first, close, {}) /\ UNCHANGED <<members, epochVars>>
    BY <1>1, <1>3, QuietPlain DEF epochVars
  <1> QED BY <1>2, <1>3 DEF LoseConnection

\* run() on an error the sender is answerable for.
LEMMA PunishPlain ==
    ASSUME TypeOK, NEW c \in Conn,
           NEW code \in {"RoomLocked", "RoomClosed", "ProtocolViolation", "RateLimited"},
           Punish(c, code)
    PROVE  Unrelayed
  BY LosePlain, ErrorBatches DEF Punish

\* Accept loop, password results and join forms.
LEMMA AdmissionPlain ==
    ASSUME TypeOK, AdmissionEvent
    PROVE  Unrelayed
PROOF
  <1>1. CASE ClientConnected
    BY <1>1, QuietPlain, NoRelayBatches DEF ClientConnected, epochVars
  <1>2. ASSUME NEW c, PasswordVerified(c)
        PROVE  Unrelayed
    BY <1>2, QuietPlain, NoRelayBatches DEF PasswordVerified, epochVars
  <1>3. ASSUME NEW c, PasswordIgnored(c)
        PROVE  Unrelayed
    BY <1>3, NoEffectPlain DEF PasswordIgnored
  <1>4. ASSUME NEW c, NEW app, JoinRequested(c, app)
        PROVE  Unrelayed
    BY <1>4, QuietPlain, NoRelayBatches DEF JoinRequested, epochVars
  <1>5. ASSUME NEW c \in Known, JoinRefused(c)
        PROVE  Unrelayed
    <2>1. JoinRefusal(c) \in {"RoomLocked", "ProtocolViolation"} /\ Punish(c, JoinRefusal(c))
      BY <1>5 DEF JoinRefused, JoinRefusal
    <2> QED BY <2>1, PunishPlain, KnownConn
  <1> QED BY <1>1, <1>2, <1>3, <1>4, <1>5 DEF AdmissionEvent

\* The host's commands.
LEMMA HostPlain ==
    ASSUME TypeOK, HostEvent
    PROVE  Unrelayed \/ Admitting
PROOF
  <1>1. ASSUME NEW r \in DOMAIN requests, AcceptRefused(r) \/ RejectJoin(r)
        PROVE  Unrelayed
    <2> DEFINE c == requests[r].connection
    <2>1. c \in Conn
      BY EntryTypes
    <2>2. JoinRejected.type # "Relay"
      BY DEF JoinRejected
    <2>3. NoRelay(SendTo(c, JoinRejected))
      BY <2>1, <2>2, NoRelayBatches
    <2> QED BY <1>1, <2>3, QuietPlain DEF AcceptRefused, RejectJoin, TurnAway, epochVars
  <1>2. ASSUME NEW r, NEW accepted, DecideTimeoutRequest(r, accepted)
        PROVE  Unrelayed
    BY <1>2, QuietPlain, NoRelayBatches DEF DecideTimeoutRequest, epochVars
  <1>3. ASSUME NEW m, Kick(m)
        PROVE  Unrelayed
    BY <1>3, RemovePlain, WrapBatches DEF Kick, WrapsWithout, TypeOK
  <1>4. CASE NewId
    BY <1>4, QuietPlain, NoRelayBatches DEF NewId, epochVars
  <1>5. ASSUME NEW p, SetPolicy(p)
        PROVE  Unrelayed
    <2> DEFINE event == [type |-> "JoinPolicyChanged", sequence |-> roomSequence + 1,
                         epoch |-> epoch, open |-> p = "Open"]
    <2>1. event.type # "Relay"
      OBVIOUS
    <2>2. NoRelay(SendAll(ConnectionsOf(members) \ {HostConnection}, event))
      BY <2>1, NoRelayBatches
    <2> QED BY <1>5, <2>2, QuietPlain DEF SetPolicy, epochVars
  <1>6. CASE CloseRequested
    <2>1. Shutdown.type # "Relay"
      BY DEF Shutdown
    <2> QED BY <1>6, <2>1, QuietPlain, NoRelayBatches DEF CloseRequested, CloseRoom
  <1> QED BY <1>1, <1>2, <1>3, <1>4, <1>5, <1>6 DEF HostEvent, Admitting

\* Members leaving, and member commands.
LEMMA DeparturePlain ==
    ASSUME TypeOK, DepartureEvent
    PROVE  Unrelayed
PROOF
  <1>1. ASSUME NEW c \in Known, ConnectionLost(c)
        PROVE  Unrelayed
    BY <1>1, LosePlain, NoRelayBatches, SendTypes DEF ConnectionLost
  <1>2. ASSUME NEW c \in Known, MemberCommandRefused(c)
        PROVE  Unrelayed
    BY <1>2, PunishPlain, KnownConn DEF MemberCommandRefused
  <1>3. ASSUME NEW c \in Known, Leave(c)
        PROVE  Unrelayed
    <2>1. Shutdown.type # "Relay" /\ Shutdown \in Message /\ c \in Conn /\ epoch \in Nat
      BY MessageTypes, KnownConn DEF Shutdown, TypeOK
    <2>2. /\ NoRelay(SendTo(c, Shutdown))
          /\ SendTo(c, Shutdown) \in [Conn -> Seq(Message)]
      BY <2>1, NoRelayBatches, SendTypes
    <2>3. NoRelay(Then(WrapsWithout(RegisteredMember(c)), SendTo(c, Shutdown)))
      BY <2>1, <2>2, NoRelayBatches, WrapBatches DEF WrapsWithout
    <2> QED BY <1>3, <2>3, RemovePlain DEF Leave
  <1>4. ASSUME NEW c, NEW color, ColorCommand(c, color)
        PROVE  Unrelayed
    <2>1. outgoing'.send = Silence /\ UNCHANGED <<epoch, chatReplay, relayed>>
      BY <1>4 DEF ColorCommand, Emit, epochVars
    <2>2. \A m \in DOMAIN members : members[m] \in MemberRecord
      BY DEF TypeOK, IsMap
    <2>3. members' = [m \in DOMAIN members |->
             IF m \in RegisteredMember(c) THEN [members[m] EXCEPT !.color = color]
             ELSE members[m]]
      BY <1>4 DEF ColorCommand
    <2>4. NamesKept
      BY <2>2, <2>3 DEF NamesKept, MemberRecord
    <2> QED BY <2>1, <2>4, NoRelayBatches DEF Unrelayed, ReplayAdvances
  <1>5. ASSUME NEW m, MemberLeft(m)
        PROVE  Unrelayed
    BY <1>5, RemovePlain, WrapBatches DEF MemberLeft, WrapsWithout, TypeOK
  <1> QED BY <1>1, <1>2, <1>3, <1>4, <1>5 DEF DepartureEvent

\* Acknowledgements and the deadline: what is held back until activation is
\* room events only.
LEMMA EpochPlain ==
    ASSUME TypeOK, EpochEvent
    PROVE  Unrelayed
PROOF
  <1>1. ASSUME NEW c, NEW e, EpochAck(c, e)
        PROVE  Unrelayed
    <2>1. NoRelay(pendingMembership)
      BY NoRelayBatches DEF TypeOK
    <2> QED BY <1>1, <2>1, QuietPlain, NoRelayBatches DEF EpochAck
  <1>2. ASSUME NEW c, NEW e, EpochAckIgnored(c, e)
        PROVE  Unrelayed
    BY <1>2, NoEffectPlain DEF EpochAckIgnored
  <1>3. CASE DroppedInTransition
    BY <1>3, NoEffectPlain DEF DroppedInTransition
  <1>4. CASE EpochTimeout
    <2>1. CASE CloseRoom
      <3>1. Shutdown.type # "Relay"
        BY DEF Shutdown
      <3> QED BY <2>1, <3>1, QuietPlain, NoRelayBatches DEF CloseRoom
    <2>2. CASE /\ RemoveMembers(pendingEpoch.awaiting \cap DOMAIN members, {}, "MemberLeft")
               /\ Emit(WrapsWithout(pendingEpoch.awaiting),
                       {members[m].connection : m \in pendingEpoch.awaiting \cap DOMAIN members}, {})
               /\ UNCHANGED relayed
      BY <2>2, RemovePlain, WrapBatches DEF WrapsWithout, TypeOK
    <2> QED BY <1>4, <2>1, <2>2 DEF EpochTimeout
  <1>5. CASE Tick
    BY <1>5, QuietPlain, NoRelayBatches DEF Tick
  <1> QED BY <1>1, <1>2, <1>3, <1>4, <1>5 DEF EpochEvent

\* A message that is refused, or that asks the host for a timeout.
LEMMA ChatRefusedPlain ==
    ASSUME TypeOK, NEW c \in Conn, NEW env \in AnyEnvelope,
           \/ ChatDuringTransition(c) \/ ChatUnauthorised(c, env) \/ ChatRateLimited(c, env)
           \/ ChatAbusive(c, env) \/ ChatRefused(c, env) \/ TimeoutRequested(c, env)
    PROVE  Unrelayed
PROOF
  <1>b. NoRelay(SendTo(c, Error("RateLimited")))
        /\ SendTo(c, Error("RateLimited")) \in [Conn -> Seq(Message)]
    BY ErrorBatches
  <1>1. CASE ChatDuringTransition(c)
    BY <1>1, <1>b, QuietPlain, NoRelayBatches DEF ChatDuringTransition, epochVars
  <1>2. CASE ChatUnauthorised(c, env)
    BY <1>2, PunishPlain DEF ChatUnauthorised
  <1>3. CASE ChatRateLimited(c, env)
    BY <1>3, <1>b, QuietPlain, NoRelayBatches DEF ChatRateLimited, epochVars
  <1>4. CASE ChatAbusive(c, env)
    <2>1. NoRelay(Then(SendTo(c, Error("RateLimited")), WrapsWithout({env.sender})))
      BY <1>b, NoRelayBatches, WrapBatches DEF WrapsWithout, TypeOK
    <2> QED BY <1>4, <2>1, RemovePlain DEF ChatAbusive
  <1>5. CASE ChatRefused(c, env)
    <2>1. CASE Punish(c, "ProtocolViolation")
      BY <2>1, PunishPlain
    <2>2. CASE Emit(Silence, {}, {}) /\ UNCHANGED <<members, epochVars, relayed>>
      BY <2>2, QuietPlain, NoRelayBatches DEF epochVars
    <2> QED BY <1>5, <2>1, <2>2 DEF ChatRefused
  <1>6. CASE TimeoutRequested(c, env)
    <2>1. outgoing'.send = Silence /\ UNCHANGED <<members, epoch, relayed>>
      BY <1>6 DEF TimeoutRequested, Emit
    <2>2. Fresh(env) /\ RecordSequence(env)
      BY <1>6 DEF TimeoutRequested, Accepted
    <2>3. env.sequence \in Nat
      BY DEF AnyEnvelope, Envelope
    <2> QED BY <2>1, <2>2, <2>3, NoRelayBatches DEF Unrelayed, NamesKept, ReplayAdvances
  <1> QED BY <1>1, <1>2, <1>3, <1>4, <1>5, <1>6

\* The chat relay.
LEMMA ChatPlain ==
    ASSUME TypeOK, AnyChat
    PROVE  Unrelayed \/ Relaying
PROOF
  <1>1. PICK c \in Known \cup {HostConnection} :
           \/ ChatDuringTransition(c)
           \/ \E env \in AnyEnvelope :
                 \/ ChatUnauthorised(c, env)
                 \/ ChatRateLimited(c, env)
                 \/ ChatAbusive(c, env)
                 \/ ChatRefused(c, env)
                 \/ ChatRelayed(c, env)
                 \/ TimeoutRequested(c, env)
    BY DEF AnyChat
  <1>2. c \in Conn
    BY KnownConn
  <1>3. CASE ChatDuringTransition(c)
    <2>1. NoRelay(SendTo(c, Error("RateLimited")))
      BY <1>2, ErrorBatches
    <2> QED BY <1>3, <2>1, QuietPlain, NoRelayBatches DEF ChatDuringTransition, epochVars
  <1>4. ASSUME NEW env \in AnyEnvelope, ChatRelayed(c, env)
        PROVE  Relaying
    BY <1>2, <1>4 DEF Relaying
  <1> QED BY <1>1, <1>2, <1>3, <1>4, ChatRefusedPlain

\* Every event, whatever envelope it brings, relays one accepted envelope, admits
\* one applicant, or does nothing new to the relay.
LEMMA RelayKinds ==
    ASSUME KeyInv, RoomStep
    PROVE  Relaying \/ Admitting \/ Unrelayed
PROOF
  <1>1. TypeOK /\ epoch # 0
    BY KeyTypes DEF KeyInv, TablesInv
  <1>2. ASSUME NEW c \in Known, RoomClosed(c)
        PROVE  Unrelayed
    BY <1>1, <1>2, QuietPlain, ErrorBatches, KnownConn DEF RoomClosed, epochVars
  <1>3. CASE EventAfterClose
    BY <1>3, NoEffectPlain DEF EventAfterClose
  <1> QED BY <1>1, <1>2, <1>3, AdmissionPlain, HostPlain, DeparturePlain, EpochPlain, ChatPlain
          DEF RoomStep

\* A step of Next is one of these, or none.
LEMMA NextKinds ==
    ASSUME KeyInv, [Next]_vars
    PROVE  Relaying \/ Admitting \/ Unrelayed \/ UNCHANGED vars
PROOF
  <1>1. TypeOK /\ epoch # 0
    BY KeyTypes DEF KeyInv, TablesInv
  <1> QED BY <1>1, NextIsRoomStep, RelayKinds

-----------------------------------------------------------------------------
(* Distinct members *)

\* Two members share neither nickname nor identity; that they share no
\* connection follows from the registry.
NamesDistinct ==
    \A m, n \in DOMAIN members : m # n =>
        /\ members[m].nickname # members[n].nickname
        /\ members[m].identity # members[n].identity

\* on_accept re-checks the application against the table of that moment.
LEMMA AdmitNames ==
    ASSUME KeyInv, NamesDistinct, Admitting
    PROVE  NamesDistinct'
PROOF
  <1>1. PICK r \in DOMAIN requests : AcceptJoin(r)
    BY DEF Admitting
  <1> DEFINE app == requests[r].application
             rec == Member(requests[r].connection, app, epoch + 1)
  <1>2. members' = With(members, nextMemberId, rec) /\ Admissible(requests[r].connection, app)
    BY <1>1 DEF AcceptJoin
  <1>3. /\ DOMAIN members' = DOMAIN members \cup {nextMemberId}
        /\ members'[nextMemberId] = rec
        /\ \A m \in DOMAIN members : m # nextMemberId => members'[m] = members[m]
    BY <1>2 DEF With
  <1>4. rec.nickname = app.nickname /\ rec.identity = app.identity
    BY DEF Member
  <1>5. \A m \in DOMAIN members : /\ members[m].nickname # app.nickname
                                  /\ members[m].identity # app.identity
                                  /\ m # nextMemberId
    BY <1>2, KeyTypes DEF Admissible
  <1> HIDE DEF app, rec
  <1> QED BY <1>3, <1>4, <1>5 DEF NamesDistinct

\* Every event keeps them distinct.
LEMMA NamesStep ==
    ASSUME KeyInv, NamesDistinct, [Next]_vars
    PROVE  NamesDistinct'
PROOF
  <1>1. ASSUME NamesKept
        PROVE  NamesDistinct'
    BY <1>1 DEF NamesKept, NamesDistinct
  <1>2. CASE Relaying
    <2>1. PICK c \in Conn : \E env \in AnyEnvelope : ChatRelayed(c, env)
      BY <1>2 DEF Relaying
    <2>2. PICK env \in AnyEnvelope : ChatRelayed(c, env)
      BY <2>1
    <2>3. members' = IF env.kind = "Color"
                     THEN [members EXCEPT ![env.sender].color = env.body] ELSE members
      BY <2>2 DEF ChatRelayed
    <2>4. \A m \in DOMAIN members : members[m] \in MemberRecord
      BY EntryTypes DEF KeyInv, TablesInv
    <2>5. NamesKept
      BY <2>3, <2>4 DEF NamesKept, MemberRecord
    <2> QED BY <1>1, <2>5
  <1>3. CASE UNCHANGED vars
    BY <1>3 DEF vars, NamesDistinct
  <1> QED BY <1>1, <1>2, <1>3, AdmitNames, NextKinds DEF Unrelayed

\* The registry holds one member per connection.
LEMMA DistinctFromRegistry ==
    ASSUME KeyInv, NamesDistinct
    PROVE  MembersDistinct
PROOF
  <1>1. \A m \in DOMAIN members : connections[members[m].connection].id = m
    BY DEF KeyInv, TablesInv, TableFacts, Agree
  <1> QED BY <1>1 DEF NamesDistinct, MembersDistinct

\* No two members ever share a connection, a nickname or an identity, however
\* many applications for the same name wait side by side and whatever happens
\* between the join form and the host's /accept (MemberTable::add).
THEOREM DistinctTheorem == Spec => []MembersDistinct
PROOF
  <1>1. Init => NamesDistinct
    <2>1. ASSUME Init
          PROVE  DOMAIN members = {HostId}
      BY <2>1 DEF Init, With, Empty
    <2> QED BY <2>1 DEF NamesDistinct
  <1>2. KeyInv /\ NamesDistinct /\ [Next]_vars => NamesDistinct'
    BY NamesStep
  <1>3. KeyInv /\ NamesDistinct => MembersDistinct
    BY DistinctFromRegistry
  <1> QED BY <1>1, <1>2, <1>3, KeyInvariant, PTL DEF Spec

-----------------------------------------------------------------------------
(* Who a relayed envelope reaches *)

\* An admission sends the acceptance and key wraps, no chat.
LEMMA AdmittingMute ==
    ASSUME KeyInv, Admitting
    PROVE  NoRelay(outgoing'.send)
PROOF
  <1>1. PICK r \in DOMAIN requests : AcceptJoin(r)
    BY DEF Admitting
  <1> DEFINE c == requests[r].connection
             ms == With(members, nextMemberId, Member(c, requests[r].application, epoch + 1))
  <1>2. outgoing'.send = Then(SendTo(c, JoinAccepted(nextMemberId)), Wraps(ms))
    BY <1>1 DEF AcceptJoin, Emit
  <1> HIDE DEF ms
  <1>3. c \in Conn
    BY EntryTypes DEF KeyInv, TablesInv
  <1>4. /\ JoinAccepted(nextMemberId) \in Message
        /\ JoinAccepted(nextMemberId).type # "Relay"
    BY MessageTypes, KeyTypes DEF JoinAccepted
  <1>5. /\ NoRelay(SendTo(c, JoinAccepted(nextMemberId)))
        /\ SendTo(c, JoinAccepted(nextMemberId)) \in [Conn -> Seq(Message)]
    BY <1>3, <1>4, NoRelayBatches, SendTypes
  <1>6. NoRelay(Wraps(ms)) /\ Wraps(ms) \in [Conn -> Seq(Message)]
    BY WrapBatches, KeyTypes
  <1> QED BY <1>2, <1>5, <1>6, NoRelayBatches

\* What on_chat_received sends: one envelope of the current epoch, to every
\* member but the one it names as sender.
LEMMA RelayedTo ==
    ASSUME KeyInv, NEW c \in Conn, NEW env \in AnyEnvelope, ChatRelayed(c, env)
    PROVE  /\ env \in Envelope
           /\ env.epoch = epoch
           /\ \A d \in Conn : \A i \in DOMAIN outgoing'.send[d] :
                 /\ outgoing'.send[d][i] = Relay(env)
                 /\ \E m \in DOMAIN members : members[m].connection = d /\ m # env.sender
PROOF
  <1>1. env \in Envelope
    BY DEF AnyEnvelope
  <1>2. env.epoch = epoch
    BY DEF ChatRelayed, Accepted, Fresh
  <1>3. outgoing'.send = SendAll(Recipients(c), Relay(env)) /\ Sender(c, env)
    BY DEF ChatRelayed, Emit
  <1>4. RegisteredMember(c) = {env.sender} /\ env.sender \in DOMAIN members
    BY <1>3 DEF Sender
  <1>5. members[env.sender].connection = c
    BY <1>4, Registered DEF KeyInv
  <1>6. ASSUME NEW d \in Conn, NEW i \in DOMAIN outgoing'.send[d]
        PROVE  /\ outgoing'.send[d][i] = Relay(env)
               /\ \E m \in DOMAIN members : members[m].connection = d /\ m # env.sender
    <2>1. outgoing'.send[d] = IF d \in Recipients(c) THEN <<Relay(env)>> ELSE <<>>
      BY <1>3 DEF SendAll
    <2>2. d \in Recipients(c) /\ outgoing'.send[d][i] = Relay(env)
      BY <2>1, <1>6
    <2>3. d # c /\ \E m \in DOMAIN members : members[m].connection = d
      BY <2>2 DEF Recipients, ConnectionsOf
    <2> QED BY <1>5, <2>2, <2>3
  <1> QED BY <1>1, <1>2, <1>6

\* Every event keeps relayed envelopes with the holders of their key.
LEMMA ReachStep ==
    ASSUME KeyInv, KeyInv', RelayReachesKeyHolders, [Next]_vars
    PROVE  RelayReachesKeyHolders'
PROOF
  <1>1. ASSUME NoRelay(outgoing'.send)
        PROVE  RelayReachesKeyHolders'
    BY <1>1 DEF NoRelay, RelayReachesKeyHolders
  <1>2. CASE Relaying
    <2>1. PICK c \in Conn : \E env \in AnyEnvelope : ChatRelayed(c, env)
      BY <1>2 DEF Relaying
    <2>2. PICK env \in AnyEnvelope : ChatRelayed(c, env)
      BY <2>1
    <2>3. /\ UNCHANGED <<epoch, holders>>
          /\ members' = IF env.kind = "Color"
                        THEN [members EXCEPT ![env.sender].color = env.body] ELSE members
      BY <2>2 DEF ChatRelayed
    <2>4. \A m \in DOMAIN members : members[m] \in MemberRecord
      BY EntryTypes DEF KeyInv, TablesInv
    <2>5. /\ DOMAIN members' = DOMAIN members
          /\ \A m \in DOMAIN members : members'[m].connection = members[m].connection
      BY <2>3, <2>4 DEF MemberRecord
    <2>6. holders'[epoch] = DOMAIN members
      BY <2>3 DEF KeyInv, KeyFacts, KeyGoesToMembers
    <2>7. Relay(env).envelope = env
      BY DEF Relay
    <2> SUFFICES ASSUME NEW d \in Conn, NEW i \in DOMAIN outgoing'.send[d]
                 PROVE  \E m \in DOMAIN members' :
                           /\ members'[m].connection = d
                           /\ m # outgoing'.send[d][i].envelope.sender
                           /\ m \in holders'[outgoing'.send[d][i].envelope.epoch]
      BY DEF RelayReachesKeyHolders
    <2>8. /\ outgoing'.send[d][i] = Relay(env) /\ env.epoch = epoch
          /\ \E m \in DOMAIN members : members[m].connection = d /\ m # env.sender
      BY <2>2, RelayedTo
    <2> QED BY <2>5, <2>6, <2>7, <2>8
  <1>3. CASE Admitting
    BY <1>1, <1>3, AdmittingMute
  <1>4. CASE UNCHANGED vars
    BY <1>4 DEF vars, RelayReachesKeyHolders
  <1> QED BY <1>1, <1>2, <1>3, <1>4, NextKinds DEF Unrelayed

\* Every relayed envelope is sent to members who were given the key of its
\* epoch, and not to its sender, at rest and while a transition is in flight
\* (on_chat_received with Recipients from the member table).
THEOREM ReachTheorem == Spec => []RelayReachesKeyHolders
PROOF
  <1>1. Init => RelayReachesKeyHolders
    <2> SUFFICES ASSUME Init
                 PROVE  RelayReachesKeyHolders
      OBVIOUS
    <2>1. outgoing.send = SendTo(HostConnection, EpochWrap(1))
      BY DEF Init
    <2>2. HostConnection \in Conn /\ EpochWrap(1).type # "Relay"
      BY BoundsAssumption DEF Conn, HostConnection, EpochWrap
    <2>3. NoRelay(outgoing.send)
      BY <2>1, <2>2, NoRelayBatches
    <2> QED BY <2>3 DEF NoRelay, RelayReachesKeyHolders
  <1>2. KeyInv /\ KeyInv' /\ RelayReachesKeyHolders /\ [Next]_vars => RelayReachesKeyHolders'
    BY ReachStep
  <1> QED BY <1>1, <1>2, KeyInvariant, PTL DEF Spec

-----------------------------------------------------------------------------
(* No envelope is relayed twice *)

\* The replay state remembers every relayed envelope of the current epoch, and
\* no relayed envelope is of a later one.
ReplayRecorded ==
    \A env \in relayed :
        /\ env.epoch \in 1..epoch
        /\ env.epoch = epoch => /\ env.sender \in DOMAIN chatReplay
                                /\ env.sequence <= chatReplay[env.sender]

\* Recording a fresh sequence moves the sender's entry forward and nobody's back.
LEMMA RecordForward ==
    ASSUME TypeOK, NEW env, Fresh(env), env.sequence \in Nat, RecordSequence(env)
    PROVE  /\ DOMAIN chatReplay' = DOMAIN chatReplay \cup {env.sender}
           /\ chatReplay'[env.sender] = env.sequence
           /\ \A s \in DOMAIN chatReplay : /\ chatReplay[s] \in Nat /\ chatReplay'[s] \in Nat
                                           /\ chatReplay[s] <= chatReplay'[s]
PROOF
  <1>1. IsMap(chatReplay, Nat, Nat)
    BY DEF TypeOK
  <1>2. \A s \in DOMAIN chatReplay : chatReplay[s] \in Nat
    BY <1>1, MapValue
  <1>3. chatReplay' = With(chatReplay, env.sender, env.sequence)
    BY DEF RecordSequence
  <1>4. env.sender \in DOMAIN chatReplay => env.sequence > chatReplay[env.sender]
    BY DEF Fresh
  <1>5. /\ DOMAIN chatReplay' = DOMAIN chatReplay \cup {env.sender}
        /\ chatReplay'[env.sender] = env.sequence
        /\ \A s \in DOMAIN chatReplay : s # env.sender => chatReplay'[s] = chatReplay[s]
    BY <1>3 DEF With
  <1> QED BY <1>2, <1>4, <1>5

\* Every event keeps what was relayed recorded.
LEMMA RecordedStep ==
    ASSUME KeyInv, ReplayRecorded, [Next]_vars
    PROVE  ReplayRecorded'
PROOF
  <1>0. /\ TypeOK /\ epoch \in Nat /\ epoch # 0
        /\ \A env \in relayed : env.sequence \in Nat /\ env.epoch \in Nat
    BY KeyTypes DEF KeyInv, TablesInv, TypeOK, Envelope
  <1>1. CASE relayed' = relayed /\ ReplayAdvances
    <2>1. CASE epoch' = epoch + 1
      BY <1>0, <1>1, <2>1 DEF ReplayRecorded
    <2>2. CASE epoch' = epoch /\ chatReplay' = chatReplay
      BY <1>1, <2>2 DEF ReplayRecorded
    <2>3. CASE /\ epoch' = epoch
               /\ \E env : Fresh(env) /\ env.sequence \in Nat /\ RecordSequence(env)
      <3>1. /\ DOMAIN chatReplay \subseteq DOMAIN chatReplay'
            /\ \A s \in DOMAIN chatReplay : /\ chatReplay[s] \in Nat /\ chatReplay'[s] \in Nat
                                            /\ chatReplay[s] <= chatReplay'[s]
        BY <1>0, <2>3, RecordForward
      <3> QED BY <1>0, <1>1, <2>3, <3>1 DEF ReplayRecorded
    <2> QED BY <1>1, <2>1, <2>2, <2>3 DEF ReplayAdvances
  <1>2. CASE Relaying
    <2>1. PICK c \in Conn : \E env \in AnyEnvelope : ChatRelayed(c, env)
      BY <1>2 DEF Relaying
    <2>2. PICK env \in AnyEnvelope : ChatRelayed(c, env)
      BY <2>1
    <2>3. env \in Envelope /\ env.epoch = epoch
      BY <2>2, RelayedTo
    <2>4. epoch' = epoch /\ relayed' = relayed \cup {env} /\ Fresh(env) /\ RecordSequence(env)
      BY <2>2 DEF ChatRelayed, Accepted
    <2>5. env.sequence \in Nat
      BY <2>3 DEF Envelope
    <2>6. /\ DOMAIN chatReplay' = DOMAIN chatReplay \cup {env.sender}
          /\ chatReplay'[env.sender] = env.sequence
          /\ \A s \in DOMAIN chatReplay : /\ chatReplay[s] \in Nat /\ chatReplay'[s] \in Nat
                                          /\ chatReplay[s] <= chatReplay'[s]
      BY <1>0, <2>4, <2>5, RecordForward
    <2> SUFFICES ASSUME NEW x \in relayed \cup {env}
                 PROVE  /\ x.epoch \in 1..epoch
                        /\ x.epoch = epoch => /\ x.sender \in DOMAIN chatReplay'
                                              /\ x.sequence <= chatReplay'[x.sender]
      BY <2>4 DEF ReplayRecorded
    <2>7. CASE x = env
      BY <1>0, <2>3, <2>5, <2>6, <2>7
    <2>8. CASE x \in relayed
      BY <1>0, <2>6, <2>8 DEF ReplayRecorded
    <2> QED BY <2>7, <2>8
  <1>3. CASE Admitting
    <2>1. epoch' = epoch + 1 /\ relayed' = relayed
      BY <1>3 DEF Admitting, AcceptJoin, BeginEpochTransition
    <2> QED BY <1>1, <2>1 DEF ReplayAdvances
  <1>4. CASE UNCHANGED vars
    BY <1>1, <1>4 DEF vars, ReplayAdvances
  <1> QED BY <1>1, <1>2, <1>3, <1>4, NextKinds DEF Unrelayed

\* An envelope is relayed at most once, for any number of replays by anybody:
\* within an epoch its sequence is spent, and the replay state that a new epoch
\* drops is not needed, because the envelope names the old epoch.
THEOREM OnceTheorem == Spec => RelayedOnce
PROOF
  <1> DEFINE Once == \A env \in relayed, c \in Conn :
                        \A i \in DOMAIN outgoing'.send[c] : outgoing'.send[c][i] # Relay(env)
  <1>1. Init => ReplayRecorded
    BY DEF Init, ReplayRecorded
  <1>2. KeyInv /\ ReplayRecorded /\ [Next]_vars => ReplayRecorded'
    BY RecordedStep
  <1>3. KeyInv /\ KeyInv' /\ ReplayRecorded /\ [Next]_vars => [Once]_vars
    <2> SUFFICES ASSUME KeyInv, KeyInv', ReplayRecorded, [Next]_vars, ~ UNCHANGED vars,
                        NEW env \in relayed, NEW c \in Conn,
                        NEW i \in DOMAIN outgoing'.send[c],
                        outgoing'.send[c][i] = Relay(env)
                 PROVE  FALSE
      OBVIOUS
    <2>1. Relay(env).type = "Relay" /\ Relay(env).envelope = env
      BY DEF Relay
    <2>2. ~ NoRelay(outgoing'.send)
      BY <2>1 DEF NoRelay
    <2>3. CASE Relaying
      <3>1. PICK d \in Conn : \E x \in AnyEnvelope : ChatRelayed(d, x)
        BY <2>3 DEF Relaying
      <3>2. PICK x \in AnyEnvelope : ChatRelayed(d, x)
        BY <3>1
      <3>3. outgoing'.send[c][i] = Relay(x) /\ x \in Envelope /\ x.epoch = epoch
        BY <3>2, RelayedTo
      <3>4. x = env
        BY <2>1, <3>3 DEF Relay
      <3>5. Fresh(env)
        BY <3>2, <3>4 DEF ChatRelayed, Accepted
      <3>6. /\ env.sender \in DOMAIN chatReplay /\ env.sequence <= chatReplay[env.sender]
            /\ env.sequence > chatReplay[env.sender]
        BY <3>3, <3>4, <3>5 DEF ReplayRecorded, Fresh
      <3>7. env.sequence \in Nat /\ chatReplay[env.sender] \in Nat
        <4>1. IsMap(chatReplay, Nat, Nat)
          BY DEF KeyInv, TablesInv, TypeOK
        <4> QED BY <3>3, <3>4, <3>6, <4>1, MapValue DEF Envelope
      <3> QED BY <3>6, <3>7
    <2>4. CASE Admitting
      BY <2>2, <2>4, AdmittingMute
    <2> QED BY <2>2, <2>3, <2>4, NextKinds DEF Unrelayed
  <1>4. RelayedOnce <=> [][Once]_vars
    BY DEF RelayedOnce
  <1> QED BY <1>1, <1>2, <1>3, <1>4, KeyInvariant, PTL DEF Spec

=============================================================================
