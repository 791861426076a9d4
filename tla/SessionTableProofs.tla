------------------------- MODULE SessionTableProofs -------------------------
(***************************************************************************)
(* What the participants make of the room's events: while no transition    *)
(* has begun inside another, the news on its way to a member lead from the *)
(* table it has to the member table of the room, its session accepts each  *)
(* of them, and it can read every relay whose sender it has been told of.  *)
(* So when all is quiet everybody's table names who is in the room.  For   *)
(* any number of connections, any traffic and any interleaving of the      *)
(* links with the actor.                                                   *)
(***************************************************************************)
EXTENDS RoomSessionProofs

-----------------------------------------------------------------------------
(* Who is in the room, and what is still to be told of it.  Events carry   *)
(* increasing sequences, so what is to be told is a set.                   *)

IsJoin(ev) == ev.type = "MemberJoined"
IsSnapshot(ev) == ev.type = "MemberSnapshot"
IsGone(ev) == ev.type \in {"MemberLeft", "MemberKicked"}
IsNews(ev) == IsJoin(ev) \/ IsSnapshot(ev) \/ IsGone(ev)
News == {ev \in RoomEvent : IsNews(ev)}
IsLoss(msg) == msg.type = "Lost"

\* Who somebody is, whatever their colour.
Person(v) == [id |-> v.id, nickname |-> v.nickname, identity |-> v.identity]
Persons(table) == {Person(v) : v \in table}
Roster == {Person(ViewOf(m, members[m])) : m \in DOMAIN members}

\* Whom an event introduces, and what a set of events amounts to.
People(ev) ==
    CASE IsJoin(ev) -> {Person(ev.member)}
      [] IsSnapshot(ev) -> Persons(ev.members)
      [] OTHER -> {}
Introduced(N) == UNION {People(ev) : ev \in N}
Departed(N) == {ev.id : ev \in {g \in N : IsGone(g)}}
Before(N, ev) == {n \in N : n.sequence < ev.sequence}

\* Nobody in R shares an id, a nickname or an identity with somebody else.
Distinct(R) == \A p, q \in R : SameMember(p, q) => p = q

\* The news N make the roster R of a table that holds the persons T.
LeadsTo(N, T, R) == R = {p \in T \cup Introduced(N) : p.id \notin Departed(N)}

\* A newcomer clashes with nobody who is still in the table when it is announced;
\* a snapshot is the first a session hears; and nobody comes back.
Welcome(N, T, ev) ==
    /\ ev.member.id # HostId
    /\ \A p \in T \cup Introduced(Before(N, ev)) :
          SameMember(p, ev.member) => p.id \in Departed(Before(N, ev))
Opening(N, T, ev) ==
    /\ T = {}
    /\ \A n \in N : n = ev \/ ev.sequence < n.sequence
    /\ Cardinality(ev.members) <= MaxActiveMembers
    /\ \E v \in ev.members : v.id = HostId
    /\ \A v, w \in ev.members : v # w => ~ SameMember(v, w)
Acceptable(N, T) ==
    /\ \A ev \in N : IsJoin(ev) => Welcome(N, T, ev)
    /\ \A ev \in N : IsSnapshot(ev) => Opening(N, T, ev)
    /\ \A ev \in N : \A p \in People(ev) : p.id \notin Departed(Before(N, ev))

-----------------------------------------------------------------------------
(* What is on its way to one connection, on the link or held back *)

Told(q, h) == {ev \in Range(q) \cup Range(h) : IsNews(ev)}

\* Events are met under the key of their epoch, wraps come last.
Timed(q, key) ==
    \A i \in DOMAIN q : IsEvent(q[i]) =>
        /\ q[i].epoch = key /\ key # NoKey
        /\ \A j \in DOMAIN q : IsWrap(q[j]) => i < j

\* Member m learns its id before its first key, so before it is told who is there.
KnowsItself(q, id, key, m) ==
    /\ id = m \/ \E i \in DOMAIN q : IsAdmission(q[i])
    /\ \A i \in DOMAIN q : IsAdmission(q[i]) =>
          /\ q[i].id = m /\ key = NoKey
          /\ \A j \in DOMAIN q : IsWrap(q[j]) => i < j

\* The sender of a relay is in the table or to be introduced, and leaves later.
SenderKnown(env, N, T) ==
    /\ \E p \in T \cup Introduced(N) : p.id = env.sender
    /\ \A g \in N : IsGone(g) /\ g.id = env.sender => env.epoch < g.epoch
SendersKnown(q, N, T) == \A i \in DOMAIN q : IsRelay(q[i]) => SenderKnown(q[i].envelope, N, T)

\* A session s that stands for member m, with q on its way and h held back, while
\* R are in the room at epoch e, and next is the next id.
Aware(q, h, s, R, next, e, m) ==
    LET N == Told(q, h)
        T == Persons(s.table)
    IN  /\ LeadsTo(N, T, R)
        /\ Acceptable(N, T)
        /\ \A ev \in N : IsSnapshot(ev) => \E v \in ev.members : v.id = m
        /\ \A x \in Departed(N) : x < next
        /\ KnowsItself(q, s.id, s.epoch, m)
        /\ SendersKnown(q, N, T)
        /\ Timed(q, s.epoch)
        /\ \A i \in DOMAIN h : h[i].epoch = e
Informed(c, m) ==
    Aware(down[c], pendingMembership[c], session[c], Roster, nextMemberId, epoch, m)

\* Who is no member has been told nothing.
Idle(q) ==
    \A i \in DOMAIN q : /\ ~ IsEvent(q[i]) /\ ~ IsRelay(q[i])
                       /\ ~ IsWrap(q[i]) /\ ~ IsAdmission(q[i])
Unaware(q, h, s) == s.table = {} /\ s.epoch = NoKey /\ h = <<>> /\ Idle(q)
Uninformed(c) == Unaware(down[c], pendingMembership[c], session[c])

\* The members that connection c stands for, while the room runs.
Residents(c) == {m \in DOMAIN members : Running /\ members[m].connection = c}

Tables ==
    /\ Distinct(Roster)
    /\ \A c \in Conn : Live(c) =>
          /\ \A m \in Residents(c) : Informed(c, m)
          /\ Residents(c) = {} => Uninformed(c)

\* A connection that is gone has been, or is being, reported; a key that was
\* acknowledged is installed, and nobody runs late once nobody is awaited.
Reported(c) ==
    /\ Running /\ c \in DOMAIN connections => Live(c) \/ \E i \in DOMAIN up[c] : IsLoss(up[c][i])
    /\ Live(c) => \A i \in DOMAIN up[c] :
          /\ ~ IsLoss(up[c][i])
          /\ up[c][i].type = "EpochAck" => up[c][i].epoch <= session[c].epoch
Settled ==
    \A c \in Conn : \A m \in Residents(c) \ pendingEpoch.awaiting : Live(c) => session[c].epoch = epoch

TableInv ==
    /\ \A c \in Conn : Reported(c) /\ (c >= nextConn => pendingMembership[c] = <<>>)
    /\ Settled
    /\ ~ nested => Tables

-----------------------------------------------------------------------------
(* Tables and news, without the links *)

\* What an event is, by its type.
LEMMA NewsFields ==
    ASSUME NEW ev \in News
    PROVE  /\ ev.sequence \in Nat /\ ev.epoch \in Nat
           /\ IsJoin(ev) => /\ ev.member \in View /\ ~ IsSnapshot(ev) /\ ~ IsGone(ev)
                            /\ People(ev) = {Person(ev.member)}
           /\ IsSnapshot(ev) => /\ ev.members \subseteq View /\ ~ IsGone(ev)
                                /\ People(ev) = Persons(ev.members)
           /\ IsGone(ev) => ev.id \in Nat /\ People(ev) = {}
           /\ IsJoin(ev) \/ IsSnapshot(ev) \/ IsGone(ev)
  BY DEF News, RoomEvent, IsNews, IsJoin, IsSnapshot, IsGone, People

\* Sets of events, event by event.
LEMMA NewsSets ==
    ASSUME NEW N
    PROVE  /\ \A p : p \in Introduced(N) <=> \E ev \in N : p \in People(ev)
           /\ \A x : x \in Departed(N) <=> \E ev \in N : IsGone(ev) /\ ev.id = x
           /\ \A ev, n : n \in Before(N, ev) <=> n \in N /\ n.sequence < ev.sequence
  BY DEF Introduced, Departed, Before

\* The first event of N.
First(N, h) == h \in N /\ \A n \in N : n = h \/ h.sequence < n.sequence

\* What is left when the first event is heard.
LEMMA HeardNews ==
    ASSUME NEW N \in SUBSET News, NEW h, First(N, h)
    PROVE  /\ \A p : p \in Introduced(N) <=> p \in People(h) \/ p \in Introduced(N \ {h})
           /\ \A x : x \in Departed(N) <=> (IsGone(h) /\ h.id = x) \/ x \in Departed(N \ {h})
           /\ \A ev \in N \ {h} :
                 /\ \A p : p \in Introduced(Before(N, ev))
                             <=> p \in People(h) \/ p \in Introduced(Before(N \ {h}, ev))
                 /\ \A x : x \in Departed(Before(N, ev))
                             <=> (IsGone(h) /\ h.id = x) \/ x \in Departed(Before(N \ {h}, ev))
  <1>1. \A ev \in N \ {h} : h.sequence < ev.sequence
    BY DEF First
  <1>2. \A p : p \in Introduced(N) <=> p \in People(h) \/ p \in Introduced(N \ {h})
    BY NewsSets DEF First
  <1>3. \A x : x \in Departed(N) <=> (IsGone(h) /\ h.id = x) \/ x \in Departed(N \ {h})
    BY NewsSets DEF First
  <1>4. ASSUME NEW ev \in N \ {h}
        PROVE  /\ \A p : p \in Introduced(Before(N, ev))
                           <=> p \in People(h) \/ p \in Introduced(Before(N \ {h}, ev))
               /\ \A x : x \in Departed(Before(N, ev))
                           <=> (IsGone(h) /\ h.id = x) \/ x \in Departed(Before(N \ {h}, ev))
    <2>1. \A n : n \in Before(N, ev) <=> n = h \/ n \in Before(N \ {h}, ev)
      BY <1>1, NewsSets DEF First
    <2>2. \A p : p \in Introduced(Before(N, ev))
                    <=> p \in People(h) \/ p \in Introduced(Before(N \ {h}, ev))
      BY <2>1 DEF Introduced
    <2>3. \A x : x \in Departed(Before(N, ev))
                    <=> (IsGone(h) /\ h.id = x) \/ x \in Departed(Before(N \ {h}, ev))
      BY <2>1 DEF Departed
    <2>. QED  BY <2>2, <2>3
  <1>. QED  BY <1>2, <1>3, <1>4

\* A session hears of somebody who joins: nobody it clashes with is in the table.
LEMMA HearJoin ==
    ASSUME NEW N \in SUBSET News, NEW T, NEW R, NEW h, First(N, h), IsJoin(h),
           LeadsTo(N, T, R), Acceptable(N, T), NEW U, U = T \cup {Person(h.member)}
    PROVE  /\ LeadsTo(N \ {h}, U, R) /\ Acceptable(N \ {h}, U)
           /\ h.member.id # HostId /\ \A p \in T : ~ SameMember(p, h.member)
  <1>0. h \in News /\ h \in N /\ N \ {h} \in SUBSET News
    BY DEF First
  <1>1. People(h) = {Person(h.member)} /\ ~ IsGone(h) /\ ~ IsSnapshot(h)
    BY <1>0, NewsFields
  <1>2. LeadsTo(N \ {h}, U, R)
    BY <1>1, HeardNews DEF LeadsTo
  <1>3. ASSUME NEW ev \in N \ {h}, IsJoin(ev)
        PROVE  Welcome(N \ {h}, U, ev)
    BY <1>1, <1>3, HeardNews DEF Acceptable, Welcome
  <1>4. \A ev \in N \ {h} : ~ IsSnapshot(ev)
    <2>. SUFFICES ASSUME NEW ev \in N \ {h}, IsSnapshot(ev) PROVE FALSE
      OBVIOUS
    <2>1. ev.sequence < h.sequence
      BY <1>0 DEF Acceptable, Opening
    <2>2. h.sequence < ev.sequence /\ ev \in News
      BY DEF First
    <2>. QED  BY <2>1, <2>2, <1>0, NewsFields
  <1>5. \A ev \in N \ {h} : \A p \in People(ev) : p.id \notin Departed(Before(N \ {h}, ev))
    BY HeardNews DEF Acceptable
  <1>6. Before(N, h) = {}
    <2>. SUFFICES ASSUME NEW n \in N, n.sequence < h.sequence PROVE FALSE
      BY DEF Before
    <2>1. n = h \/ h.sequence < n.sequence
      BY DEF First
    <2>. QED  BY <2>1, <1>0, NewsFields
  <1>7. h.member.id # HostId /\ \A p \in T : ~ SameMember(p, h.member)
    BY <1>0, <1>6 DEF Acceptable, Welcome, Departed
  <1>. QED  BY <1>2, <1>3, <1>4, <1>5, <1>7 DEF Acceptable

\* A session hears that somebody has gone.
LEMMA HearGone ==
    ASSUME NEW N \in SUBSET News, NEW T, NEW R, NEW h, First(N, h), IsGone(h),
           LeadsTo(N, T, R), Acceptable(N, T), NEW U, U = {p \in T : p.id # h.id}
    PROVE  LeadsTo(N \ {h}, U, R) /\ Acceptable(N \ {h}, U)
  <1>0. h \in News /\ h \in N /\ N \ {h} \in SUBSET News
    BY DEF First
  <1>1. People(h) = {} /\ ~ IsSnapshot(h)
    BY <1>0, NewsFields
  <1>2. \A ev \in N \ {h} : \A p \in People(ev) : p.id # h.id
    BY HeardNews DEF Acceptable
  <1>3. \A p \in Introduced(N \ {h}) : p.id # h.id
    BY <1>2 DEF Introduced
  <1>4. \A ev \in N \ {h} : \A p \in Introduced(Before(N \ {h}, ev)) : p.id # h.id
    BY <1>2 DEF Introduced, Before
  <1>5. LeadsTo(N \ {h}, U, R)
    <2>1. \A p : /\ p \in Introduced(N) <=> p \in Introduced(N \ {h})
                 /\ p.id \in Departed(N) <=> p.id = h.id \/ p.id \in Departed(N \ {h})
      BY <1>1, HeardNews
    <2>2. \A p : p \in T \cup Introduced(N) /\ p.id \notin Departed(N)
                   <=> p \in U \cup Introduced(N \ {h}) /\ p.id \notin Departed(N \ {h})
      BY <1>3, <2>1
    <2>. QED  BY <2>2 DEF LeadsTo
  <1>6. ASSUME NEW ev \in N \ {h}, IsJoin(ev)
        PROVE  Welcome(N \ {h}, U, ev)
    BY <1>1, <1>4, <1>6, HeardNews DEF Acceptable, Welcome
  <1>7. \A ev \in N \ {h} : ~ IsSnapshot(ev)
    <2>. SUFFICES ASSUME NEW ev \in N \ {h}, IsSnapshot(ev) PROVE FALSE
      OBVIOUS
    <2>1. ev.sequence < h.sequence
      BY <1>0 DEF Acceptable, Opening
    <2>2. h.sequence < ev.sequence /\ ev \in News
      BY DEF First
    <2>. QED  BY <2>1, <2>2, <1>0, NewsFields
  <1>8. \A ev \in N \ {h} : \A p \in People(ev) : p.id \notin Departed(Before(N \ {h}, ev))
    BY HeardNews DEF Acceptable
  <1>. QED  BY <1>5, <1>6, <1>7, <1>8 DEF Acceptable

\* A session is told who is in the room.
LEMMA HearSnapshot ==
    ASSUME NEW N \in SUBSET News, NEW T, NEW R, NEW h, First(N, h), IsSnapshot(h),
           LeadsTo(N, T, R), Acceptable(N, T), NEW U, U = Persons(h.members)
    PROVE  LeadsTo(N \ {h}, U, R) /\ Acceptable(N \ {h}, U) /\ Opening(N, T, h)
  <1>0. h \in News /\ h \in N /\ N \ {h} \in SUBSET News
    BY DEF First
  <1>1. People(h) = U /\ ~ IsGone(h) /\ Opening(N, T, h) /\ T = {}
    BY <1>0, NewsFields DEF Acceptable, Opening
  <1>2. LeadsTo(N \ {h}, U, R)
    BY <1>1, HeardNews DEF LeadsTo
  <1>3. ASSUME NEW ev \in N \ {h}, IsJoin(ev)
        PROVE  Welcome(N \ {h}, U, ev)
    BY <1>1, <1>3, HeardNews DEF Acceptable, Welcome
  <1>4. \A ev \in N \ {h} : ~ IsSnapshot(ev)
    <2>. SUFFICES ASSUME NEW ev \in N \ {h}, IsSnapshot(ev) PROVE FALSE
      OBVIOUS
    <2>1. ev.sequence < h.sequence
      BY <1>0 DEF Acceptable, Opening
    <2>2. h.sequence < ev.sequence /\ ev \in News
      BY DEF First
    <2>. QED  BY <2>1, <2>2, <1>0, NewsFields
  <1>5. \A ev \in N \ {h} : \A p \in People(ev) : p.id \notin Departed(Before(N \ {h}, ev))
    BY HeardNews DEF Acceptable
  <1>. QED  BY <1>1, <1>2, <1>3, <1>4, <1>5 DEF Acceptable

\* News behind all that is still to be told.
Behind(N, M) == \A n \in N, ev \in M : n.sequence < ev.sequence

\* What they add, and what was before each of them.
LEMMA ToldNews ==
    ASSUME NEW N \in SUBSET News, NEW M \in SUBSET News, Behind(N, M)
    PROVE  /\ N \cup M \in SUBSET News
           /\ \A p : p \in Introduced(N \cup M) <=> p \in Introduced(N) \/ p \in Introduced(M)
           /\ \A x : x \in Departed(N \cup M) <=> x \in Departed(N) \/ x \in Departed(M)
           /\ \A ev \in N : Before(N \cup M, ev) = Before(N, ev)
           /\ \A ev \in M : Before(N \cup M, ev) = N \cup Before(M, ev)
  <1>1. \A ev \in N \cup M : ev.sequence \in Nat
    BY NewsFields
  <1>2. ASSUME NEW ev \in N
        PROVE  Before(N \cup M, ev) = Before(N, ev)
    <2>1. \A n \in M : ~ (n.sequence < ev.sequence)
      BY <1>1 DEF Behind
    <2>. QED  BY <2>1 DEF Before
  <1>3. \A ev \in M : Before(N \cup M, ev) = N \cup Before(M, ev)
    BY DEF Before, Behind
  <1>4. \A p : p \in Introduced(N \cup M) <=> p \in Introduced(N) \/ p \in Introduced(M)
    BY DEF Introduced
  <1>5. \A x : x \in Departed(N \cup M) <=> x \in Departed(N) \/ x \in Departed(M)
    BY DEF Departed
  <1>. QED  BY <1>2, <1>3, <1>4, <1>5

\* One event behind the others.
LEMMA ToldOne ==
    ASSUME NEW N \in SUBSET News, NEW j \in News, Behind(N, {j})
    PROVE  /\ \A p : p \in Introduced(N \cup {j}) <=> p \in Introduced(N) \/ p \in People(j)
           /\ \A x : x \in Departed(N \cup {j}) <=> x \in Departed(N) \/ (IsGone(j) /\ j.id = x)
           /\ \A ev \in N : Before(N \cup {j}, ev) = Before(N, ev)
           /\ Before(N \cup {j}, j) = N
  <1>1. \A p : p \in Introduced(N \cup {j}) <=> p \in Introduced(N) \/ p \in People(j)
    BY DEF Introduced
  <1>2. \A x : x \in Departed(N \cup {j}) <=> x \in Departed(N) \/ (IsGone(j) /\ j.id = x)
    BY DEF Departed
  <1>3. \A ev \in N : Before(N \cup {j}, ev) = Before(N, ev)
    BY ToldNews
  <1>4. Before(N \cup {j}, j) = N
    <2>1. j.sequence \in Nat
      BY NewsFields
    <2>. QED  BY <2>1 DEF Before, Behind
  <1>. QED  BY <1>1, <1>2, <1>3, <1>4

\* Somebody joining behind the others.
LEMMA ToldJoin ==
    ASSUME NEW N \in SUBSET News, NEW j \in News, Behind(N, {j}), IsJoin(j)
    PROVE  /\ \A p : p \in Introduced(N \cup {j}) <=> p \in Introduced(N) \/ p = Person(j.member)
           /\ \A x : x \in Departed(N \cup {j}) <=> x \in Departed(N)
           /\ \A ev \in N : Before(N \cup {j}, ev) = Before(N, ev)
           /\ Before(N \cup {j}, j) = N
  <1>1. People(j) = {Person(j.member)} /\ ~ IsGone(j)
    BY NewsFields
  <1>2. /\ \A p : p \in Introduced(N \cup {j}) <=> p \in Introduced(N) \/ p \in People(j)
        /\ \A x : x \in Departed(N \cup {j}) <=> x \in Departed(N) \/ (IsGone(j) /\ j.id = x)
    BY ToldOne
  <1>3. /\ \A ev \in N : Before(N \cup {j}, ev) = Before(N, ev)
        /\ Before(N \cup {j}, j) = N
    BY ToldOne
  <1>. QED  BY <1>1, <1>2, <1>3

\* Somebody going behind the others.
LEMMA ToldGone ==
    ASSUME NEW N \in SUBSET News, NEW g \in News, Behind(N, {g}), IsGone(g)
    PROVE  /\ \A p : p \in Introduced(N \cup {g}) <=> p \in Introduced(N)
           /\ \A x : x \in Departed(N \cup {g}) <=> x \in Departed(N) \/ x = g.id
  <1>1. People(g) = {}
    BY NewsFields
  <1>2. /\ \A p : p \in Introduced(N \cup {g}) <=> p \in Introduced(N) \/ p \in People(g)
        /\ \A x : x \in Departed(N \cup {g}) <=> x \in Departed(N) \/ (IsGone(g) /\ g.id = x)
    BY ToldOne
  <1>. QED  BY <1>1, <1>2

\* Somebody new joins, whom the room takes because it clashes with no member.
LEMMA TellJoin ==
    ASSUME NEW N \in SUBSET News, NEW T, NEW R, LeadsTo(N, T, R), Acceptable(N, T),
           NEW j \in News, IsJoin(j), Behind(N, {j}), NEW next \in Nat,
           j.member.id = next, next # HostId, next \notin Departed(N),
           \A p \in R : ~ SameMember(p, j.member)
    PROVE  /\ LeadsTo(N \cup {j}, T, R \cup {Person(j.member)})
           /\ Acceptable(N \cup {j}, T)
  <1>1. /\ People(j) = {Person(j.member)} /\ ~ IsGone(j) /\ ~ IsSnapshot(j)
        /\ Person(j.member).id = next
    BY NewsFields DEF Person
  <1>3. /\ \A p : p \in Introduced(N \cup {j}) <=> p \in Introduced(N) \/ p = Person(j.member)
        /\ \A x : x \in Departed(N \cup {j}) <=> x \in Departed(N)
        /\ \A ev \in N : Before(N \cup {j}, ev) = Before(N, ev)
        /\ Before(N \cup {j}, j) = N
    BY ToldJoin
  <1>4. LeadsTo(N \cup {j}, T, R \cup {Person(j.member)})
    <2>1. \A p : p \in T \cup Introduced(N \cup {j}) /\ p.id \notin Departed(N \cup {j})
                   <=> p \in R \cup {Person(j.member)}
      BY <1>1, <1>3 DEF LeadsTo
    <2>. QED  BY <2>1 DEF LeadsTo
  <1>5. Welcome(N \cup {j}, T, j)
    <2>1. \A p \in T \cup Introduced(N) : SameMember(p, j.member) => p.id \in Departed(N)
      BY DEF LeadsTo
    <2>. QED  BY <1>3, <2>1 DEF Welcome
  <1>6. ASSUME NEW ev \in N
        PROVE  /\ IsJoin(ev) => Welcome(N \cup {j}, T, ev)
               /\ IsSnapshot(ev) => Opening(N \cup {j}, T, ev)
               /\ \A p \in People(ev) : p.id \notin Departed(Before(N \cup {j}, ev))
    <2>1. IsJoin(ev) => Welcome(N \cup {j}, T, ev)
      BY <1>3 DEF Acceptable, Welcome
    <2>2. IsSnapshot(ev) => Opening(N \cup {j}, T, ev)
      BY DEF Acceptable, Opening, Behind
    <2>. QED  BY <1>3, <2>1, <2>2 DEF Acceptable
  <1>7. \A p \in People(j) : p.id \notin Departed(Before(N \cup {j}, j))
    BY <1>1, <1>3
  <1>8. \A ev \in N \cup {j} : ev \in N \/ ev = j
    OBVIOUS
  <1>. QED  BY <1>1, <1>4, <1>5, <1>6, <1>7, <1>8 DEF Acceptable

\* Members go.
LEMMA TellGone ==
    ASSUME NEW N \in SUBSET News, NEW T, NEW R, LeadsTo(N, T, R), Acceptable(N, T),
           NEW G \in SUBSET News, \A g \in G : IsGone(g), Behind(N, G)
    PROVE  /\ LeadsTo(N \cup G, T, {p \in R : p.id \notin Departed(G)})
           /\ Acceptable(N \cup G, T)
  <1>1. \A g \in G : People(g) = {} /\ ~ IsSnapshot(g) /\ ~ IsJoin(g)
    BY NewsFields
  <1>2. /\ \A p : p \in Introduced(N \cup G) <=> p \in Introduced(N)
        /\ \A x : x \in Departed(N \cup G) <=> x \in Departed(N) \/ x \in Departed(G)
        /\ \A ev \in N : Before(N \cup G, ev) = Before(N, ev)
    <2>1. Introduced(G) = {}
      BY <1>1 DEF Introduced
    <2>. QED  BY <2>1, ToldNews
  <1>3. LeadsTo(N \cup G, T, {p \in R : p.id \notin Departed(G)})
    <2>1. \A p : p \in T \cup Introduced(N \cup G) /\ p.id \notin Departed(N \cup G)
                   <=> p \in {q \in R : q.id \notin Departed(G)}
      BY <1>2 DEF LeadsTo
    <2>. QED  BY <2>1 DEF LeadsTo
  <1>4. ASSUME NEW ev \in N
        PROVE  /\ IsJoin(ev) => Welcome(N \cup G, T, ev)
               /\ IsSnapshot(ev) => Opening(N \cup G, T, ev)
               /\ \A p \in People(ev) : p.id \notin Departed(Before(N \cup G, ev))
    <2>1. IsJoin(ev) => Welcome(N \cup G, T, ev)
      BY <1>2 DEF Acceptable, Welcome
    <2>2. IsSnapshot(ev) => Opening(N \cup G, T, ev)
      BY DEF Acceptable, Opening, Behind
    <2>. QED  BY <1>2, <2>1, <2>2 DEF Acceptable
  <1>. QED  BY <1>1, <1>3, <1>4 DEF Acceptable

\* A newcomer, who has been told nothing yet, is told who is in the room.
LEMMA TellSnapshot ==
    ASSUME NEW s \in News, IsSnapshot(s), Opening({s}, {}, s)
    PROVE  LeadsTo({s}, {}, Persons(s.members)) /\ Acceptable({s}, {})
  <1>1. People(s) = Persons(s.members) /\ ~ IsGone(s) /\ ~ IsJoin(s) /\ s.sequence \in Nat
    BY NewsFields DEF IsJoin, IsSnapshot
  <1>2. Introduced({s}) = Persons(s.members) /\ Departed({s}) = {} /\ Before({s}, s) = {}
    BY <1>1 DEF Introduced, Departed, Before
  <1>3. LeadsTo({s}, {}, Persons(s.members))
    BY <1>2 DEF LeadsTo
  <1>4. \A p \in People(s) : p.id \notin Departed(Before({s}, s))
    BY <1>2 DEF Departed
  <1>. QED  BY <1>1, <1>3, <1>4 DEF Acceptable

\* Nobody is in doubt: what is told of nobody leads from the roster to itself.
LEMMA NothingToTell ==
    ASSUME NEW T, NEW R
    PROVE  /\ LeadsTo({}, T, R) <=> R = T
           /\ Acceptable({}, T)
  BY DEF LeadsTo, Acceptable, Introduced, Departed

-----------------------------------------------------------------------------
(* What is on its way grows *)

\* The parts of what the actor hands down that news, keys and admissions are not in.
Newsless(a) == \A i \in DOMAIN a : ~ IsNews(a[i])
Keyless(a) == \A i \in DOMAIN a : ~ IsWrap(a[i])
Unadmitted(a) == \A i \in DOMAIN a : ~ IsAdmission(a[i])

\* What a message is, by its type: one thing at most, and news are room events.
LEMMA Sorts ==
    ASSUME NEW msg
    PROVE  /\ IsNews(msg) => IsEvent(msg)
           /\ IsEvent(msg) => ~ IsRelay(msg) /\ ~ IsWrap(msg) /\ ~ IsAdmission(msg)
           /\ IsRelay(msg) => ~ IsWrap(msg) /\ ~ IsAdmission(msg)
           /\ IsWrap(msg) => ~ IsAdmission(msg)
           /\ msg \in Downward /\ IsNews(msg) => msg \in News
           /\ msg \in RoomEvent => IsEvent(msg)
  <1>1. msg \in Downward /\ IsNews(msg) => msg \in News
    <2>1. IsNews(msg) => msg.type \in EventTypes
      BY DEF IsNews, IsJoin, IsSnapshot, IsGone, EventTypes
    <2>. QED  BY <2>1, HeadTypes DEF News
  <1>. QED
    BY <1>1 DEF IsNews, IsJoin, IsSnapshot, IsGone, IsEvent, EventTypes, IsRelay, IsWrap,
                IsAdmission, RoomEvent

\* What is on a link is on its first or on its second part.
LEMMA RangeConcat ==
    ASSUME NEW p \in Seq(Downward), NEW q \in Seq(Downward), NEW x
    PROVE  x \in Range(p \o q) <=> x \in Range(p) \/ x \in Range(q)
  <1>1. \A f : x \in Range(f) <=> \E i \in DOMAIN f : x = f[i]
    BY DEF Range
  <1>2. ASSUME NEW i \in DOMAIN (p \o q), x = (p \o q)[i]
        PROVE  x \in Range(p) \/ x \in Range(q)
    BY <1>1, <1>2, Concat
  <1>3. ASSUME NEW i \in DOMAIN p, x = p[i]
        PROVE  x \in Range(p \o q)
    <2>1. i \in DOMAIN (p \o q) /\ (p \o q)[i] = x
      BY <1>3, Concat
    <2>. QED  BY <1>1, <2>1
  <1>4. ASSUME NEW i \in DOMAIN q, x = q[i]
        PROVE  x \in Range(p \o q)
    <2>1. Len(p) + i \in DOMAIN (p \o q) /\ (p \o q)[Len(p) + i] = x
      BY <1>4, Concat
    <2>. QED  BY <1>1, <2>1
  <1>. QED  BY <1>1, <1>2, <1>3, <1>4

\* What is told along two parts of a link.
LEMMA ToldAlong ==
    ASSUME NEW q \in Seq(Downward), NEW a \in Seq(Downward), NEW h \in Seq(Downward)
    PROVE  /\ Told(q, h) \in SUBSET News
           /\ \A ev : ev \in Told(q \o a, h) <=> ev \in Told(q, h) \/ ev \in Told(a, <<>>)
           /\ Told(q \o h, <<>>) = Told(q, h)
           /\ Newsless(a) => Told(a, <<>>) = {} /\ Told(q \o a, h) = Told(q, h)
           /\ \A ev : ev \in Told(q, h) <=> ev \in Told(q, <<>>) \/ ev \in Told(<<>>, h)
  <1>1. \A p \in Seq(Downward) : \A x : x \in Range(p) <=> \E i \in DOMAIN p : x = p[i]
    BY DEF Range
  <1>2. \A p \in Seq(Downward) : \A x \in Range(p) : x \in Downward
    BY DEF Range
  <1>3. Told(q, h) \in SUBSET News
    BY <1>2, Sorts DEF Told
  <1>4. \A b \in Seq(Downward) : \A x : x \in Range(q \o b) <=> x \in Range(q) \/ x \in Range(b)
    BY RangeConcat
  <1>5. Range(<<>>) = {}
    BY DEF Range
  <1>6. \A ev : ev \in Told(q \o a, h) <=> ev \in Told(q, h) \/ ev \in Told(a, <<>>)
    BY <1>4, <1>5 DEF Told
  <1>7. Told(q \o h, <<>>) = Told(q, h)
    BY <1>4, <1>5 DEF Told
  <1>8. Newsless(a) => Told(a, <<>>) = {}
    BY <1>1, <1>5 DEF Told, Newsless
  <1>10. Newsless(a) => Told(q \o a, h) = Told(q, h)
    BY <1>6, <1>8
  <1>9. \A ev : ev \in Told(q, h) <=> ev \in Told(q, <<>>) \/ ev \in Told(<<>>, h)
    BY <1>5 DEF Told
  <1>. QED  BY <1>3, <1>6, <1>7, <1>8, <1>9, <1>10

\* Somebody who knows itself, or will in time, still does when more follows.
LEMMA KnowsMore ==
    ASSUME NEW q \in Seq(Downward), NEW a \in Seq(Downward), NEW id, NEW key, NEW m,
           KnowsItself(q, id, key, m), Unadmitted(a)
    PROVE  KnowsItself(q \o a, id, key, m)
  <1>1. \A i \in DOMAIN (q \o a) : IsAdmission((q \o a)[i]) =>
           i \in DOMAIN q /\ (q \o a)[i] = q[i] /\ IsAdmission(q[i]) /\ i \in Nat
    BY Concat DEF Unadmitted
  <1>2. id = m \/ \E i \in DOMAIN (q \o a) : IsAdmission((q \o a)[i])
    BY Concat DEF KnowsItself
  <1>3. ASSUME NEW i \in DOMAIN (q \o a), IsAdmission((q \o a)[i]),
               NEW j \in DOMAIN (q \o a), IsWrap((q \o a)[j])
        PROVE  i < j
    <2>1. i \in DOMAIN q /\ IsAdmission(q[i])
      BY <1>1, <1>3
    <2>2. CASE j \in DOMAIN q
      BY <1>3, <2>1, <2>2, Concat DEF KnowsItself
    <2>3. CASE j \notin DOMAIN q
      BY <2>1, <2>3, Concat
    <2>. QED  BY <2>2, <2>3
  <1>4. ASSUME NEW i \in DOMAIN (q \o a), IsAdmission((q \o a)[i])
        PROVE  (q \o a)[i].id = m /\ key = NoKey
    BY <1>1, <1>4 DEF KnowsItself
  <1>. QED  BY <1>2, <1>3, <1>4 DEF KnowsItself

\* Keys may follow what is on its way, and events of this key when no other is.
LEMMA TimedMore ==
    ASSUME NEW q \in Seq(Downward), NEW a \in Seq(Downward), NEW key, Timed(q, key),
           \/ \A i \in DOMAIN a : ~ IsEvent(a[i])
           \/ /\ Keyless(q) /\ Keyless(a)
              /\ \A i \in DOMAIN a : IsEvent(a[i]) => a[i].epoch = key /\ key # NoKey
    PROVE  Timed(q \o a, key)
  <1>. SUFFICES ASSUME NEW i \in DOMAIN (q \o a), IsEvent((q \o a)[i])
                PROVE  /\ (q \o a)[i].epoch = key /\ key # NoKey
                       /\ \A j \in DOMAIN (q \o a) : IsWrap((q \o a)[j]) => i < j
    BY DEF Timed
  <1>1. CASE \A k \in DOMAIN a : ~ IsEvent(a[k])
    <2>1. i \in DOMAIN q /\ (q \o a)[i] = q[i]
      BY <1>1, Concat
    <2>2. ASSUME NEW j \in DOMAIN (q \o a), IsWrap((q \o a)[j])
          PROVE  i < j
      <3>1. CASE j \in DOMAIN q
        BY <2>1, <2>2, <3>1, Concat DEF Timed
      <3>2. CASE j \notin DOMAIN q
        BY <2>1, <3>2, Concat
      <3>. QED  BY <3>1, <3>2
    <2>. QED  BY <2>1, <2>2 DEF Timed
  <1>2. CASE /\ Keyless(q) /\ Keyless(a)
             /\ \A k \in DOMAIN a : IsEvent(a[k]) => a[k].epoch = key /\ key # NoKey
    BY <1>2, Concat DEF Timed, Keyless
  <1>. QED  BY <1>1, <1>2

\* Relays of members that are still there after all that is to be told.
LEMMA SendersMore ==
    ASSUME NEW q \in Seq(Downward), NEW a \in Seq(Downward), NEW N, NEW T, SendersKnown(q, N, T),
           \A i \in DOMAIN a : IsRelay(a[i]) => SenderKnown(a[i].envelope, N, T)
    PROVE  SendersKnown(q \o a, N, T)
  BY Concat DEF SendersKnown

\* A sender that is in the room is known.
LEMMA SenderThere ==
    ASSUME NEW N, NEW T, NEW R, LeadsTo(N, T, R), NEW env, \E p \in R : p.id = env.sender
    PROVE  SenderKnown(env, N, T)
  BY DEF LeadsTo, SenderKnown, Departed

\* A step that tells nothing new: errors, relays of members, JOIN_POLICY_CHANGED.
LEMMA AwareOn ==
    ASSUME NEW q \in Seq(Downward), NEW a \in Seq(Downward), NEW h \in Seq(Downward),
           NEW s, NEW R, NEW n, NEW e, NEW m, Aware(q, h, s, R, n, e, m),
           Newsless(a), Keyless(a), Unadmitted(a),
           \A i \in DOMAIN a : IsEvent(a[i]) => Keyless(q) /\ a[i].epoch = s.epoch /\ s.epoch # NoKey,
           \A i \in DOMAIN a : IsRelay(a[i]) => \E p \in R : p.id = a[i].envelope.sender
    PROVE  Aware(q \o a, h, s, R, n, e, m)
  <1>1. Told(q \o a, h) = Told(q, h)
    BY ToldAlong
  <1>2. KnowsItself(q \o a, s.id, s.epoch, m)
    BY KnowsMore DEF Aware
  <1>3. Timed(q \o a, s.epoch)
    <2>1. Timed(q, s.epoch)
      BY DEF Aware
    <2>2. \/ \A i \in DOMAIN a : ~ IsEvent(a[i])
          \/ /\ Keyless(q) /\ Keyless(a)
             /\ \A i \in DOMAIN a : IsEvent(a[i]) => a[i].epoch = s.epoch /\ s.epoch # NoKey
      OBVIOUS
    <2>. QED  BY <2>1, <2>2, TimedMore
  <1>4. SendersKnown(q \o a, Told(q, h), Persons(s.table))
    <2>1. \A i \in DOMAIN a : IsRelay(a[i]) =>
             SenderKnown(a[i].envelope, Told(q, h), Persons(s.table))
      BY SenderThere DEF Aware
    <2>. QED  BY <2>1, SendersMore DEF Aware
  <1>. QED  BY <1>1, <1>2, <1>3, <1>4 DEF Aware

\* The last acknowledgement releases what was held back, under the key all have.
LEMMA AwareReleased ==
    ASSUME NEW q \in Seq(Downward), NEW h \in Seq(Downward), NEW s, NEW R, NEW n, NEW e, NEW m,
           Aware(q, h, s, R, n, e, m), \A i \in DOMAIN h : IsEvent(h[i]),
           s.epoch = e, e # NoKey, Keyless(q)
    PROVE  Aware(q \o h, <<>>, s, R, n, e, m)
  <1>1. Told(q \o h, <<>>) = Told(q, h)
    BY ToldAlong
  <1>2. \A i \in DOMAIN h : ~ IsRelay(h[i]) /\ ~ IsWrap(h[i]) /\ ~ IsAdmission(h[i])
    BY Sorts
  <1>3. KnowsItself(q \o h, s.id, s.epoch, m)
    BY <1>2, KnowsMore DEF Aware, Unadmitted
  <1>4. Timed(q \o h, s.epoch)
    <2>1. Timed(q, s.epoch) /\ Keyless(h) /\ \A i \in DOMAIN h : h[i].epoch = s.epoch
      BY <1>2 DEF Aware, Keyless
    <2>. QED  BY <2>1, TimedMore
  <1>5. SendersKnown(q \o h, Told(q, h), Persons(s.table))
    BY <1>2, SendersMore DEF Aware
  <1>. QED  BY <1>1, <1>3, <1>4, <1>5 DEF Aware

\* What a key, or an answer to the one who asked, changes of nothing else.
Keys(a) == \A i \in DOMAIN a : ~ IsEvent(a[i]) /\ ~ IsRelay(a[i]) /\ ~ IsAdmission(a[i])

\* Keys tell nothing, and one event is held back behind them.
LEMMA HeldOne ==
    ASSUME NEW q \in Seq(Downward), NEW a \in Seq(Downward), \A i \in DOMAIN a : ~ IsEvent(a[i]),
           NEW ev \in News
    PROVE  /\ Told(q \o a, <<ev>>) = Told(q, <<>>) \cup {ev}
           /\ Told(q, <<>>) \in SUBSET News
           /\ \A i \in DOMAIN <<ev>> : <<ev>>[i] = ev
  <1>1. Newsless(a) /\ <<>> \in Seq(Downward)
    BY Sorts DEF Newsless
  <1>2. ev \in Downward /\ IsNews(ev) /\ <<ev>> \in Seq(Downward)
    <2>1. ev \in RoomEvent /\ ~ IsRelay(ev)
      BY Sorts DEF News
    <2>. QED  BY <2>1 DEF News, Downward, Message
  <1>3. \A i \in DOMAIN <<ev>> : <<ev>>[i] = ev
    OBVIOUS
  <1>4. Range(<<ev>>) = {ev} /\ Range(<<>>) = {}
    BY DEF Range
  <1>5. Told(q, <<ev>>) = Told(q, <<>>) \cup {ev}
    BY <1>2, <1>4 DEF Told
  <1>6. Told(q \o a, <<ev>>) = Told(q, <<ev>>)
    <2>1. PICK h \in Seq(Downward) : h = <<ev>>
      BY <1>2
    <2>2. Told(q \o a, h) = Told(q, h)
      BY <1>1, ToldAlong
    <2>. QED  BY <2>1, <2>2
  <1>7. Told(q, <<>>) \in SUBSET News
    BY <1>1, ToldAlong
  <1>. QED  BY <1>3, <1>5, <1>6, <1>7

\* A key follows, and the news that somebody has joined is held back.
LEMMA AwareOfJoin ==
    ASSUME NEW q \in Seq(Downward), NEW a \in Seq(Downward), Keys(a),
           NEW s, NEW R, NEW n \in Nat, NEW e, NEW m, Aware(q, <<>>, s, R, n, e, m),
           NEW j \in News, IsJoin(j), \A ev \in Told(q, <<>>) : ev.sequence < j.sequence,
           j.member.id = n, n # HostId, \A p \in R : ~ SameMember(p, j.member)
    PROVE  Aware(q \o a, <<j>>, s, R \cup {Person(j.member)}, n + 1, j.epoch, m)
  <1>. DEFINE N == Told(q, <<>>)
              T == Persons(s.table)
  <1>1. /\ Told(q \o a, <<j>>) = N \cup {j} /\ N \in SUBSET News
        /\ \A i \in DOMAIN <<j>> : <<j>>[i].epoch = j.epoch
    BY HeldOne DEF Keys
  <1>2. /\ LeadsTo(N, T, R) /\ Acceptable(N, T) /\ \A x \in Departed(N) : x < n
        /\ \A ev \in N : IsSnapshot(ev) => \E v \in ev.members : v.id = m
        /\ SendersKnown(q, N, T)
    BY DEF Aware
  <1>. HIDE DEF N, T
  <1>3. Behind(N, {j}) /\ n \notin Departed(N)
    BY <1>2 DEF Behind, N
  <1>4. /\ LeadsTo(N \cup {j}, T, R \cup {Person(j.member)})
        /\ Acceptable(N \cup {j}, T)
    BY <1>1, <1>2, <1>3, TellJoin
  <1>5. /\ \A p : p \in Introduced(N \cup {j}) <=> p \in Introduced(N) \/ p = Person(j.member)
        /\ \A x : x \in Departed(N \cup {j}) <=> x \in Departed(N)
    BY <1>1, <1>3, ToldJoin
  <1>6. ~ IsSnapshot(j) /\ ~ IsGone(j)
    BY NewsFields
  <1>7. \A x \in Departed(N \cup {j}) : x < n + 1
    <2>1. \A x \in Departed(N) : x \in Nat /\ x < n
      BY <1>1, <1>2, NewsFields DEF Departed
    <2>2. \A x \in Departed(N \cup {j}) : x \in Nat /\ x < n
      BY <1>5, <2>1
    <2>. QED  BY <2>2
  <1>8. SendersKnown(q \o a, N \cup {j}, T)
    <2>1. \A env : SenderKnown(env, N, T) => SenderKnown(env, N \cup {j}, T)
      BY <1>5, <1>6 DEF SenderKnown
    <2>2. SendersKnown(q, N \cup {j}, T)
      BY <1>2, <2>1 DEF SendersKnown
    <2>. QED  BY <2>2, SendersMore DEF Keys
  <1>9. KnowsItself(q \o a, s.id, s.epoch, m) /\ Timed(q \o a, s.epoch)
    BY KnowsMore, TimedMore DEF Aware, Keys, Unadmitted
  <1>. QED  BY <1>1, <1>2, <1>4, <1>6, <1>7, <1>8, <1>9 DEF Aware, T

\* A key follows, and the news that somebody has gone is held back.
LEMMA AwareOfGone ==
    ASSUME NEW q \in Seq(Downward), NEW a \in Seq(Downward), Keys(a),
           NEW s, NEW R, NEW n \in Nat, NEW e, NEW m, Aware(q, <<>>, s, R, n, e, m),
           NEW g \in News, IsGone(g), \A ev \in Told(q, <<>>) : ev.sequence < g.sequence,
           g.id < n, \A i \in DOMAIN q : IsRelay(q[i]) => q[i].envelope.epoch < g.epoch
    PROVE  Aware(q \o a, <<g>>, s, {p \in R : p.id # g.id}, n, g.epoch, m)
  <1>. DEFINE N == Told(q, <<>>)
              T == Persons(s.table)
  <1>1. /\ Told(q \o a, <<g>>) = N \cup {g} /\ N \in SUBSET News
        /\ \A i \in DOMAIN <<g>> : <<g>>[i].epoch = g.epoch
    BY HeldOne DEF Keys
  <1>2. /\ LeadsTo(N, T, R) /\ Acceptable(N, T) /\ \A x \in Departed(N) : x < n
        /\ \A ev \in N : IsSnapshot(ev) => \E v \in ev.members : v.id = m
        /\ SendersKnown(q, N, T)
    BY DEF Aware
  <1>. HIDE DEF N, T
  <1>3. Behind(N, {g}) /\ Departed({g}) = {g.id} /\ Introduced({g}) = {} /\ ~ IsSnapshot(g)
    <2>1. People(g) = {} /\ ~ IsSnapshot(g)
      BY NewsFields
    <2>. QED  BY <2>1 DEF Behind, N, Departed, Introduced
  <1>4. /\ LeadsTo(N \cup {g}, T, {p \in R : p.id \notin Departed({g})})
        /\ Acceptable(N \cup {g}, T)
    BY <1>1, <1>2, <1>3, TellGone
  <1>5. {p \in R : p.id \notin Departed({g})} = {p \in R : p.id # g.id}
    BY <1>3
  <1>6. /\ \A p : p \in Introduced(N \cup {g}) <=> p \in Introduced(N)
        /\ \A x : x \in Departed(N \cup {g}) <=> x \in Departed(N) \/ x = g.id
    BY <1>1, <1>3, ToldGone
  <1>7. SendersKnown(q \o a, N \cup {g}, T)
    <2>1. \A i \in DOMAIN q : IsRelay(q[i]) => SenderKnown(q[i].envelope, N \cup {g}, T)
      BY <1>2, <1>6 DEF SendersKnown, SenderKnown
    <2>2. SendersKnown(q, N \cup {g}, T)
      BY <2>1 DEF SendersKnown
    <2>. QED  BY <2>2, SendersMore DEF Keys
  <1>8. KnowsItself(q \o a, s.id, s.epoch, m) /\ Timed(q \o a, s.epoch)
    BY KnowsMore, TimedMore DEF Aware, Keys, Unadmitted
  <1>. QED  BY <1>1, <1>2, <1>3, <1>4, <1>5, <1>6, <1>7, <1>8 DEF Aware, T

\* Neither events nor relays, along both parts of a link.
LEMMA NeitherAlong ==
    ASSUME NEW q \in Seq(Downward), NEW a \in Seq(Downward),
           \A i \in DOMAIN q : ~ IsEvent(q[i]) /\ ~ IsRelay(q[i]),
           \A i \in DOMAIN a : ~ IsEvent(a[i]) /\ ~ IsRelay(a[i])
    PROVE  \A i \in DOMAIN (q \o a) : ~ IsEvent((q \o a)[i]) /\ ~ IsRelay((q \o a)[i])
  BY Concat

\* Where an item of the second part is on the link.
LEMMA SecondPart ==
    ASSUME NEW q \in Seq(Downward), NEW a \in Seq(Downward), NEW i \in DOMAIN a
    PROVE  Len(q) + i \in DOMAIN (q \o a) /\ (q \o a)[Len(q) + i] = a[i]
  BY Concat

\* The first admission on a link, with the first key behind it.
LEMMA KnowsNow ==
    ASSUME NEW q \in Seq(Downward), NEW a \in Seq(Downward), NEW id, NEW m,
           \A i \in DOMAIN q : ~ IsWrap(q[i]) /\ ~ IsAdmission(q[i]),
           \E i \in DOMAIN a : IsAdmission(a[i]),
           \A i \in DOMAIN a : IsAdmission(a[i]) =>
              a[i].id = m /\ \A j \in DOMAIN a : IsWrap(a[j]) => i < j
    PROVE  KnowsItself(q \o a, id, NoKey, m)
  <1>1. /\ Len(q) \in Nat
        /\ \A i \in DOMAIN a : Len(q) + i \in DOMAIN (q \o a) /\ (q \o a)[Len(q) + i] = a[i]
    BY SecondPart
  <1>2. \A i \in DOMAIN (q \o a) : IsWrap((q \o a)[i]) \/ IsAdmission((q \o a)[i]) =>
           i - Len(q) \in DOMAIN a /\ (q \o a)[i] = a[i - Len(q)]
    BY Concat
  <1>3. \A i \in DOMAIN (q \o a) : i \in Nat
    <2>1. q \o a \in Seq(Downward)
      OBVIOUS
    <2>2. DOMAIN (q \o a) = 1..Len(q \o a) /\ Len(q \o a) \in Nat
      BY <2>1
    <2>. QED  BY <2>2
  <1>4. \E i \in DOMAIN (q \o a) : IsAdmission((q \o a)[i])
    <2>1. PICK i \in DOMAIN a : IsAdmission(a[i])
      OBVIOUS
    <2>. QED  BY <1>1, <2>1
  <1>5. ASSUME NEW i \in DOMAIN (q \o a), IsAdmission((q \o a)[i])
        PROVE  /\ (q \o a)[i].id = m
               /\ \A j \in DOMAIN (q \o a) : IsWrap((q \o a)[j]) => i < j
    <2>1. i - Len(q) \in DOMAIN a /\ (q \o a)[i] = a[i - Len(q)]
      BY <1>2, <1>5
    <2>2. (q \o a)[i].id = m /\ \A j \in DOMAIN a : IsWrap(a[j]) => i - Len(q) < j
      BY <1>5, <2>1
    <2>3. ASSUME NEW j \in DOMAIN (q \o a), IsWrap((q \o a)[j])
          PROVE  i < j
      <3>1. j - Len(q) \in DOMAIN a /\ (q \o a)[j] = a[j - Len(q)]
        BY <1>2, <2>3
      <3>2. i - Len(q) < j - Len(q)
        BY <2>2, <2>3, <3>1
      <3>. QED  BY <1>1, <1>3, <3>2
    <2>. QED  BY <2>2, <2>3
  <1>. QED  BY <1>4, <1>5 DEF KnowsItself

\* Somebody who has been told nothing becomes a member: it is told so, then
\* given the key, and who is there is held back.
LEMMA AwareFromNow ==
    ASSUME NEW q \in Seq(Downward), NEW a \in Seq(Downward), NEW s, Unaware(q, <<>>, s),
           NEW m, NEW n, \A i \in DOMAIN a : ~ IsEvent(a[i]) /\ ~ IsRelay(a[i]),
           \E i \in DOMAIN a : IsAdmission(a[i]),
           \A i \in DOMAIN a : IsAdmission(a[i]) =>
              a[i].id = m /\ \A j \in DOMAIN a : IsWrap(a[j]) => i < j,
           NEW sn \in News, IsSnapshot(sn), Opening({sn}, {}, sn), \E v \in sn.members : v.id = m
    PROVE  Aware(q \o a, <<sn>>, s, Persons(sn.members), n, sn.epoch, m)
  <1>1. Told(q, <<>>) = {} /\ Persons(s.table) = {}
    BY Sorts DEF Unaware, Idle, Told, Range, Persons
  <1>2. /\ Told(q \o a, <<sn>>) = {sn}
        /\ \A i \in DOMAIN <<sn>> : <<sn>>[i].epoch = sn.epoch
    BY <1>1, HeldOne
  <1>3. LeadsTo({sn}, {}, Persons(sn.members)) /\ Acceptable({sn}, {})
    BY TellSnapshot
  <1>4. Departed({sn}) = {}
    BY NewsFields DEF Departed
  <1>5. KnowsItself(q \o a, s.id, s.epoch, m)
    <2>1. \A i \in DOMAIN q : ~ IsWrap(q[i]) /\ ~ IsAdmission(q[i])
      BY DEF Unaware, Idle
    <2>. QED  BY <2>1, KnowsNow DEF Unaware
  <1>6. \A i \in DOMAIN (q \o a) : ~ IsEvent((q \o a)[i]) /\ ~ IsRelay((q \o a)[i])
    <2>1. \A i \in DOMAIN q : ~ IsEvent(q[i]) /\ ~ IsRelay(q[i])
      BY DEF Unaware, Idle
    <2>. QED  BY <2>1, NeitherAlong
  <1>7. SendersKnown(q \o a, {sn}, {}) /\ Timed(q \o a, s.epoch)
    BY <1>6 DEF SendersKnown, Timed
  <1>. QED  BY <1>1, <1>2, <1>3, <1>4, <1>5, <1>7 DEF Aware

-----------------------------------------------------------------------------
(* A participant takes what is next *)

\* The link without its head, without naming the sequences' element set.
LEMMA Onwards ==
    ASSUME NEW q \in Seq(Downward), q # <<>>
    PROVE  /\ Tail(q) \in Seq(Downward) /\ 1 \in DOMAIN q /\ q[1] \in Downward
           /\ \A i \in DOMAIN Tail(q) : i \in Nat /\ i + 1 \in DOMAIN q /\ Tail(q)[i] = q[i + 1]
           /\ \A i \in DOMAIN q : i \in Nat /\ (i = 1 \/ (i - 1 \in DOMAIN Tail(q) /\ Tail(q)[i - 1] = q[i]))
  <1>1. Tail(q) \in Seq(Downward) /\ 1 \in DOMAIN q
    BY Rest
  <1>2. \A i \in DOMAIN Tail(q) : i \in Nat /\ i + 1 \in DOMAIN q /\ Tail(q)[i] = q[i + 1]
    BY Rest
  <1>3. \A i \in DOMAIN q : i \in Nat
    OBVIOUS
  <1>4. \A i \in DOMAIN q : i = 1 \/ (i - 1 \in DOMAIN Tail(q) /\ Tail(q)[i - 1] = q[i])
    BY Rest
  <1>5. q[1] \in Downward
    BY <1>1
  <1>. QED  BY <1>1, <1>2, <1>3, <1>4, <1>5

\* What is told is the head, if that is news, and the rest.
LEMMA ToldTake ==
    ASSUME NEW q \in Seq(Downward), q # <<>>, NEW h
    PROVE  /\ \A ev : ev \in Told(q, h) <=> (ev = q[1] /\ IsNews(ev)) \/ ev \in Told(Tail(q), h)
           /\ ~ IsNews(q[1]) => Told(Tail(q), h) = Told(q, h)
  <1>1. \A f : \A x : x \in Range(f) <=> \E i \in DOMAIN f : x = f[i]
    BY DEF Range
  <1>2. \A x : x \in Range(q) <=> x = q[1] \/ x \in Range(Tail(q))
    <2>1. ASSUME NEW x, x \in Range(q) PROVE x = q[1] \/ x \in Range(Tail(q))
      <3>1. PICK i \in DOMAIN q : x = q[i]
        BY <1>1, <2>1
      <3>2. i = 1 \/ (i - 1 \in DOMAIN Tail(q) /\ Tail(q)[i - 1] = q[i])
        BY Onwards
      <3>. QED  BY <1>1, <3>1, <3>2
    <2>2. q[1] \in Range(q)
      BY <1>1, Onwards
    <2>3. ASSUME NEW x, x \in Range(Tail(q)) PROVE x \in Range(q)
      <3>1. PICK i \in DOMAIN Tail(q) : x = Tail(q)[i]
        BY <1>1, <2>3
      <3>2. i + 1 \in DOMAIN q /\ Tail(q)[i] = q[i + 1]
        BY Onwards
      <3>. QED  BY <1>1, <3>1, <3>2
    <2>. QED  BY <2>1, <2>2, <2>3
  <1>3. \A ev : ev \in Told(q, h) <=> (ev = q[1] /\ IsNews(ev)) \/ ev \in Told(Tail(q), h)
    BY <1>2 DEF Told
  <1>4. ASSUME ~ IsNews(q[1])
        PROVE  Told(Tail(q), h) = Told(q, h)
    <2>1. \A ev : ev \in Told(q, h) <=> ev \in Told(Tail(q), h)
      BY <1>3, <1>4
    <2>. QED  BY <2>1
  <1>. QED  BY <1>3, <1>4

\* News at the head come first, and are not told twice.
LEMMA TakeNews ==
    ASSUME NEW q \in Seq(Downward), q # <<>>, NEW h \in Seq(Downward),
           EventsOrdered(q), EventsPrecede(q, h), IsNews(q[1])
    PROVE  /\ First(Told(q, h), q[1]) /\ Told(q, h) \in SUBSET News
           /\ Told(Tail(q), h) = Told(q, h) \ {q[1]}
  <1>1. /\ \A ev : ev \in Told(q, h) <=> (ev = q[1] /\ IsNews(ev)) \/ ev \in Told(Tail(q), h)
        /\ Told(q, h) \in SUBSET News
    <2>1. <<>> \in Seq(Downward)
      OBVIOUS
    <2>. QED  BY <2>1, ToldTake, ToldAlong
  <1>2. ASSUME NEW ev \in Told(Tail(q), h)
        PROVE  q[1].sequence < ev.sequence
    <2>1. IsEvent(ev) /\ IsEvent(q[1])
      BY <1>2, Sorts DEF Told
    <2>2. CASE ev \in Range(h)
      <3>1. PICK j \in DOMAIN h : ev = h[j]
        BY <2>2 DEF Range
      <3>. QED  BY <2>1, <3>1, Onwards DEF EventsPrecede
    <2>3. CASE ev \in Range(Tail(q))
      <3>1. PICK i \in DOMAIN Tail(q) : ev = Tail(q)[i]
        BY <2>3 DEF Range
      <3>2. i + 1 \in DOMAIN q /\ 1 \in DOMAIN q /\ 1 < i + 1 /\ q[i + 1] = ev
        <4>1. i \in Nat /\ i \in 1..Len(Tail(q))
          BY Onwards
        <4>2. i + 1 \in DOMAIN q /\ q[i + 1] = ev /\ 1 \in DOMAIN q
          BY <3>1, Onwards
        <4>. QED  BY <4>1, <4>2
      <3>. QED  BY <2>1, <3>2 DEF EventsOrdered
    <2>. QED  BY <1>2, <2>2, <2>3 DEF Told
  <1>3. q[1] \notin Told(Tail(q), h)
    <2>1. q[1] \in News
      BY <1>1
    <2>2. q[1].sequence \in Nat
      BY <2>1, NewsFields
    <2>. QED  BY <1>2, <2>2
  <1>. QED  BY <1>1, <1>2, <1>3 DEF First

\* What a member knows of itself when it has taken the head.
LEMMA KnowsTake ==
    ASSUME NEW q \in Seq(Downward), q # <<>>, NEW id, NEW key, NEW m, KnowsItself(q, id, key, m)
    PROVE  /\ ~ IsAdmission(q[1]) => KnowsItself(Tail(q), id, key, m)
           /\ IsAdmission(q[1]) => KnowsItself(Tail(q), q[1].id, key, m)
           /\ IsWrap(q[1]) => \A k : KnowsItself(Tail(q), id, k, m)
  <1>1. ASSUME NEW i \in DOMAIN Tail(q), IsAdmission(Tail(q)[i])
        PROVE  /\ Tail(q)[i].id = m /\ key = NoKey
               /\ \A j \in DOMAIN Tail(q) : IsWrap(Tail(q)[j]) => i < j
               /\ ~ IsWrap(q[1])
    <2>1. i \in Nat /\ i + 1 \in DOMAIN q /\ Tail(q)[i] = q[i + 1]
      BY Onwards
    <2>2. /\ q[i + 1].id = m /\ key = NoKey
          /\ \A j \in DOMAIN q : IsWrap(q[j]) => i + 1 < j
      BY <1>1, <2>1 DEF KnowsItself
    <2>3. ASSUME NEW j \in DOMAIN Tail(q), IsWrap(Tail(q)[j])
          PROVE  i < j
      <3>1. j \in Nat /\ j + 1 \in DOMAIN q /\ IsWrap(q[j + 1])
        BY <2>3, Onwards
      <3>2. i + 1 < j + 1
        BY <2>2, <3>1
      <3>. QED  BY <2>1, <3>1, <3>2
    <2>4. ~ IsWrap(q[1])
      BY <2>1, <2>2, Onwards
    <2>. QED  BY <2>1, <2>2, <2>3, <2>4
  <1>2. ~ IsAdmission(q[1]) => id = m \/ \E i \in DOMAIN Tail(q) : IsAdmission(Tail(q)[i])
    BY Onwards DEF KnowsItself
  <1>3. IsAdmission(q[1]) => q[1].id = m
    BY Onwards DEF KnowsItself
  <1>4. IsWrap(q[1]) => ~ IsAdmission(q[1])
    BY DEF IsWrap, IsAdmission
  <1>5. ~ IsAdmission(q[1]) => KnowsItself(Tail(q), id, key, m)
    BY <1>1, <1>2 DEF KnowsItself
  <1>6. IsAdmission(q[1]) => KnowsItself(Tail(q), q[1].id, key, m)
    BY <1>1, <1>3 DEF KnowsItself
  <1>7. IsWrap(q[1]) => \A k : KnowsItself(Tail(q), id, k, m)
    BY <1>1, <1>2, <1>4 DEF KnowsItself
  <1>. QED  BY <1>5, <1>6, <1>7

\* Nothing but keys is behind a key, and an event is met under its own.
LEMMA TimedTake ==
    ASSUME NEW q \in Seq(Downward), q # <<>>, NEW key, Timed(q, key)
    PROVE  /\ Timed(Tail(q), key)
           /\ IsWrap(q[1]) => \A k : Timed(Tail(q), k)
           /\ IsEvent(q[1]) => q[1].epoch = key /\ key # NoKey
  <1>1. ASSUME NEW i \in DOMAIN Tail(q), IsEvent(Tail(q)[i])
        PROVE  /\ Tail(q)[i].epoch = key /\ key # NoKey
               /\ \A j \in DOMAIN Tail(q) : IsWrap(Tail(q)[j]) => i < j
               /\ ~ IsWrap(q[1])
    <2>1. i \in Nat /\ i + 1 \in DOMAIN q /\ Tail(q)[i] = q[i + 1]
      BY Onwards
    <2>2. /\ q[i + 1].epoch = key /\ key # NoKey
          /\ \A j \in DOMAIN q : IsWrap(q[j]) => i + 1 < j
      BY <1>1, <2>1 DEF Timed
    <2>3. ASSUME NEW j \in DOMAIN Tail(q), IsWrap(Tail(q)[j])
          PROVE  i < j
      <3>1. j \in Nat /\ j + 1 \in DOMAIN q /\ IsWrap(q[j + 1])
        BY <2>3, Onwards
      <3>2. i + 1 < j + 1
        BY <2>2, <3>1
      <3>. QED  BY <2>1, <3>1, <3>2
    <2>4. ~ IsWrap(q[1])
      BY <2>1, <2>2, Onwards
    <2>. QED  BY <2>1, <2>2, <2>3, <2>4
  <1>2. IsEvent(q[1]) => q[1].epoch = key /\ key # NoKey
    BY Onwards DEF Timed
  <1>. QED  BY <1>1, <1>2 DEF Timed

\* The senders of the relays behind the head.
LEMMA SendersTake ==
    ASSUME NEW q \in Seq(Downward), q # <<>>, NEW N, NEW T, SendersKnown(q, N, T)
    PROVE  SendersKnown(Tail(q), N, T)
  BY Onwards DEF SendersKnown

\* The head is no news: the same persons are in the table afterwards, and a key
\* or an admission is what the session takes it for.
LEMMA AwareTakes ==
    ASSUME NEW q \in Seq(Downward), q # <<>>, NEW h \in Seq(Downward),
           NEW s, NEW s2, NEW R, NEW n, NEW e, NEW m, Aware(q, h, s, R, n, e, m),
           ~ IsNews(q[1]), Persons(s2.table) = Persons(s.table),
           \/ ~ IsAdmission(q[1]) /\ s2.id = s.id /\ s2.epoch = s.epoch
           \/ IsAdmission(q[1]) /\ s2.id = q[1].id /\ s2.epoch = s.epoch
           \/ IsWrap(q[1]) /\ s2.id = s.id
    PROVE  Aware(Tail(q), h, s2, R, n, e, m)
  <1>1. Told(Tail(q), h) = Told(q, h)
    BY ToldTake
  <1>2. KnowsItself(Tail(q), s2.id, s2.epoch, m)
    <2>1. KnowsItself(q, s.id, s.epoch, m)
      BY DEF Aware
    <2>2. /\ ~ IsAdmission(q[1]) => KnowsItself(Tail(q), s.id, s.epoch, m)
          /\ IsAdmission(q[1]) => KnowsItself(Tail(q), q[1].id, s.epoch, m)
          /\ IsWrap(q[1]) => \A k : KnowsItself(Tail(q), s.id, k, m)
      BY <2>1, KnowsTake
    <2>. QED  BY <2>2
  <1>3. Timed(Tail(q), s2.epoch)
    <2>1. Timed(q, s.epoch)
      BY DEF Aware
    <2>2. IsWrap(q[1]) \/ s2.epoch = s.epoch
      OBVIOUS
    <2>. QED  BY <2>1, <2>2, TimedTake
  <1>4. SendersKnown(Tail(q), Told(q, h), Persons(s.table))
    BY SendersTake DEF Aware
  <1>5. LET N == Told(q, h)
            T == Persons(s.table)
        IN  /\ LeadsTo(N, T, R) /\ Acceptable(N, T)
            /\ \A ev \in N : IsSnapshot(ev) => \E v \in ev.members : v.id = m
            /\ \A x \in Departed(N) : x < n
            /\ \A i \in DOMAIN h : h[i].epoch = e
    BY DEF Aware
  <1>. QED  BY <1>1, <1>2, <1>3, <1>4, <1>5 DEF Aware

\* A sender stays known when somebody else's coming or going is heard.
LEMMA SenderHeard ==
    ASSUME NEW N \in SUBSET News, NEW T, NEW h, First(N, h), NEW U, NEW env, SenderKnown(env, N, T),
           \/ IsJoin(h) /\ U = T \cup {Person(h.member)}
           \/ IsSnapshot(h) /\ U = Persons(h.members) /\ T = {}
           \/ IsGone(h) /\ U = {p \in T : p.id # h.id} /\ ~ (env.epoch < h.epoch)
    PROVE  SenderKnown(env, N \ {h}, U)
  <1>1. h \in News /\ h \in N
    BY DEF First
  <1>2. /\ IsJoin(h) => People(h) = {Person(h.member)}
        /\ IsSnapshot(h) => People(h) = Persons(h.members)
        /\ IsGone(h) => People(h) = {}
    BY <1>1, NewsFields
  <1>3. \A p : p \in Introduced(N) <=> p \in People(h) \/ p \in Introduced(N \ {h})
    BY HeardNews
  <1>4. PICK p \in T \cup Introduced(N) : p.id = env.sender
    BY DEF SenderKnown
  <1>5. IsGone(h) => p.id # h.id
    BY <1>1, <1>4 DEF SenderKnown, IsGone, IsJoin, IsSnapshot
  <1>6. p \in U \cup Introduced(N \ {h})
    BY <1>2, <1>3, <1>4, <1>5
  <1>7. \A g \in N \ {h} : IsGone(g) /\ g.id = env.sender => env.epoch < g.epoch
    BY DEF SenderKnown
  <1>. QED  BY <1>4, <1>6, <1>7 DEF SenderKnown

\* What a table is when it holds one more, one less, or others.
LEMMA PersonsOf ==
    ASSUME NEW table
    PROVE  /\ \A v : Persons(table \cup {v}) = Persons(table) \cup {Person(v)}
           /\ \A v \in table : Person(v) \in Persons(table)
           /\ \A v, w : SameMember(Person(v), w) <=> SameMember(v, w)
  BY DEF Persons, Person, SameMember

\* A session accepts the news at the head of its path.
LEMMA AwareHears ==
    ASSUME NEW q \in Seq(Downward), q # <<>>, NEW h \in Seq(Downward), NEW s \in SessionRecord,
           NEW R, NEW n, NEW e, NEW m, NEW r, NEW k, Aware(q, h, s, R, n, e, m),
           OnCourse(q, h, s.epoch, s.lastRoomSequence, k, r), IsNews(q[1]),
           NEW s2, s2 = AfterEvent(s, q[1])
    PROVE  Aware(Tail(q), h, s2, R, n, e, m)
  <1>. DEFINE N == Told(q, h)
              T == Persons(s.table)
              ev == q[1]
              U == Persons(s2.table)
  <1>1. /\ First(N, ev) /\ N \in SUBSET News /\ Told(Tail(q), h) = N \ {ev}
    BY TakeNews DEF OnCourse
  <1>2. /\ LeadsTo(N, T, R) /\ Acceptable(N, T) /\ \A x \in Departed(N) : x < n
        /\ \A v \in N : IsSnapshot(v) => \E w \in v.members : w.id = m
        /\ SendersKnown(q, N, T) /\ KnowsItself(q, s.id, s.epoch, m) /\ Timed(q, s.epoch)
        /\ \A i \in DOMAIN h : h[i].epoch = e
    BY DEF Aware
  <1>3. /\ IsEvent(ev) /\ ~ IsAdmission(ev) /\ ~ IsWrap(ev) /\ ev.epoch = s.epoch /\ s.epoch # NoKey
        /\ ev \in N /\ ev \in News
    BY <1>1, <1>2, Sorts, TimedTake DEF First
  <1>4. Verifies(s, ev)
    <2>1. s.lastRoomSequence < ev.sequence /\ s.lastRoomSequence \in Nat /\ ev.sequence \in Nat
      BY <1>3, Onwards, NewsFields DEF OnCourse, EventsWithin, SessionRecord
    <2>. QED  BY <1>3, <2>1 DEF Verifies
  <1>5. s.id = m
    BY <1>2, <1>3 DEF KnowsItself
  <1>. HIDE DEF N, T, ev, U
  <1>6. \A i \in DOMAIN q : IsRelay(q[i]) => ~ (q[i].envelope.epoch < ev.epoch)
    <2>1. \A i \in DOMAIN q : IsRelay(q[i]) =>
             s.epoch <= q[i].envelope.epoch /\ q[i].envelope.epoch \in Nat /\ s.epoch \in Nat
      BY DownwardSeq DEF OnCourse, RelaysReadable, SessionRecord
    <2>. QED  BY <1>3, <2>1
  <1>7. ASSUME \/ IsJoin(ev) /\ U = T \cup {Person(ev.member)}
               \/ IsSnapshot(ev) /\ U = Persons(ev.members) /\ T = {}
               \/ IsGone(ev) /\ U = {p \in T : p.id # ev.id}
        PROVE  SendersKnown(Tail(q), N \ {ev}, U)
    <2>1. ASSUME NEW i \in DOMAIN q, IsRelay(q[i])
          PROVE  SenderKnown(q[i].envelope, N \ {ev}, U)
      <3>1. SenderKnown(q[i].envelope, N, T) /\ ~ (q[i].envelope.epoch < ev.epoch)
        BY <1>2, <1>6, <2>1 DEF SendersKnown
      <3>. QED  BY <1>1, <1>7, <3>1, SenderHeard
    <2>. QED  BY <2>1, SendersTake DEF SendersKnown
  <1>8. s2.id = s.id /\ s2.epoch = s.epoch
    BY <1>3, ReadingKeeps DEF News, ev
  <1>9. /\ KnowsItself(Tail(q), s2.id, s2.epoch, m) /\ Timed(Tail(q), s2.epoch)
    BY <1>2, <1>3, <1>8, KnowsTake, TimedTake DEF ev
  <1>10. ASSUME LeadsTo(N \ {ev}, U, R), Acceptable(N \ {ev}, U),
                SendersKnown(Tail(q), N \ {ev}, U)
         PROVE  Aware(Tail(q), h, s2, R, n, e, m)
    <2>1. \A x \in Departed(N \ {ev}) : x < n
      BY <1>2 DEF Departed
    <2>. QED  BY <1>1, <1>2, <1>9, <1>10, <2>1 DEF Aware, U
  <1>11. CASE IsJoin(ev)
    <2>1. U = T \cup {Person(ev.member)} => /\ LeadsTo(N \ {ev}, U, R) /\ Acceptable(N \ {ev}, U)
      BY <1>1, <1>2, <1>11, HearJoin
    <2>2. ev.member.id # HostId /\ \A p \in T : ~ SameMember(p, ev.member)
      BY <1>1, <1>2, <1>11, HearJoin
    <2>3. ~ Clashes(s, ev.member) /\ ev.type = "MemberJoined"
      BY <1>11, <2>2, PersonsOf DEF Clashes, T, IsJoin
    <2>4. s2.table = s.table \cup {ev.member}
      BY <1>4, <2>3 DEF AfterEvent, TakesEvent, TableAfter, ev, SessionRecord
    <2>5. U = T \cup {Person(ev.member)}
      BY <2>4, PersonsOf DEF U, T
    <2>. QED  BY <1>7, <1>10, <1>11, <2>1, <2>5
  <1>12. CASE IsSnapshot(ev)
    <2>1. /\ Opening(N, T, ev)
          /\ U = Persons(ev.members) => LeadsTo(N \ {ev}, U, R) /\ Acceptable(N \ {ev}, U)
      BY <1>1, <1>2, <1>12, HearSnapshot
    <2>2. ValidSnapshot(s, ev) /\ ev.type = "MemberSnapshot" /\ T = {}
      BY <1>2, <1>3, <1>5, <1>12, <2>1 DEF ValidSnapshot, Opening, IsSnapshot
    <2>3. s2.table = ev.members
      BY <1>4, <2>2 DEF AfterEvent, TakesEvent, TableAfter, ev, SessionRecord
    <2>. QED  BY <1>7, <1>10, <1>12, <2>1, <2>2, <2>3 DEF U
  <1>13. CASE IsGone(ev)
    <2>1. U = {p \in T : p.id # ev.id} => LeadsTo(N \ {ev}, U, R) /\ Acceptable(N \ {ev}, U)
      BY <1>1, <1>2, <1>13, HearGone
    <2>2. ev.type \in {"MemberLeft", "MemberKicked"}
      BY <1>13 DEF IsGone
    <2>3. s2.table = {v \in s.table : v.id # ev.id}
      BY <1>4, <2>2 DEF AfterEvent, TakesEvent, TableAfter, ev, SessionRecord
    <2>4. U = {p \in T : p.id # ev.id}
      <3>1. Persons({v \in s.table : v.id # ev.id}) = {p \in Persons(s.table) : p.id # ev.id}
        BY DEF Persons, Person
      <3>. QED  BY <2>3, <3>1 DEF U, T
    <2>. QED  BY <1>7, <1>10, <1>13, <2>1, <2>4
  <1>. QED  BY <1>3, <1>11, <1>12, <1>13 DEF News, IsNews

\* A session accepts the event at the head of its path, news or not.
LEMMA AwareAccepts ==
    ASSUME NEW q \in Seq(Downward), q # <<>>, NEW h \in Seq(Downward), NEW s \in SessionRecord,
           NEW R, NEW n, NEW e, NEW m, NEW r, NEW k, Aware(q, h, s, R, n, e, m),
           OnCourse(q, h, s.epoch, s.lastRoomSequence, k, r), IsEvent(q[1])
    PROVE  TakesEvent(s, q[1])
  <1>. DEFINE N == Told(q, h)
              T == Persons(s.table)
              ev == q[1]
  <1>1. /\ LeadsTo(N, T, R) /\ Acceptable(N, T)
        /\ \A v \in N : IsSnapshot(v) => \E w \in v.members : w.id = m
        /\ KnowsItself(q, s.id, s.epoch, m) /\ Timed(q, s.epoch)
    BY DEF Aware
  <1>2. 1 \in DOMAIN q
    BY Onwards
  <1>3. ev.epoch = s.epoch /\ s.epoch # NoKey
    BY <1>1, <1>2 DEF Timed
  <1>4. Verifies(s, ev)
    <2>1. s.lastRoomSequence < ev.sequence /\ s.lastRoomSequence \in Nat
      BY <1>2 DEF OnCourse, EventsWithin, SessionRecord
    <2>2. ev.sequence \in Nat
      BY <1>2, DownwardSeq
    <2>. QED  BY <1>3, <2>1, <2>2 DEF Verifies
  <1>5. s.id = m
    <2>1. ~ IsAdmission(ev) /\ ~ IsWrap(ev)
      BY Sorts
    <2>. QED  BY <1>1, <1>3 DEF KnowsItself
  <1>6. IsNews(ev) => First(N, ev) /\ N \in SUBSET News
    BY TakeNews DEF OnCourse
  <1>. HIDE DEF N, T, ev
  <1>7. ASSUME IsJoin(ev)
        PROVE  ~ Clashes(s, ev.member)
    <2>1. ev.member.id # HostId /\ \A p \in T : ~ SameMember(p, ev.member)
      BY <1>1, <1>6, <1>7, HearJoin DEF IsNews
    <2>. QED  BY <2>1, PersonsOf DEF Clashes, T
  <1>8. ASSUME IsSnapshot(ev)
        PROVE  ValidSnapshot(s, ev)
    <2>1. Opening(N, T, ev) /\ ev \in N
      BY <1>1, <1>6, <1>8, HearSnapshot DEF IsNews, First
    <2>. QED  BY <1>1, <1>5, <1>8, <2>1 DEF ValidSnapshot, Opening
  <1>. QED  BY <1>4, <1>7, <1>8 DEF TakesEvent, IsJoin, IsSnapshot, ev

\* A session that has been told nothing takes an answer.
LEMMA UnawareTakes ==
    ASSUME NEW q \in Seq(Downward), q # <<>>, NEW h, NEW s, NEW s2, Unaware(q, h, s),
           s2.table = s.table, s2.epoch = s.epoch
    PROVE  Unaware(Tail(q), h, s2)
  BY Onwards DEF Unaware, Idle

-----------------------------------------------------------------------------
(* The participants *)

\* The parts of a session its tables rest on.
SameTables(c) ==
    /\ session'[c].id = session[c].id /\ session'[c].epoch = session[c].epoch
    /\ session'[c].table = session[c].table /\ session'[c].replay = session[c].replay

\* What becomes of connection c when its participant takes msg.
Takes(c, msg) ==
    \/ /\ IsAdmission(msg) /\ session'[c].id = msg.id /\ UNCHANGED up
       /\ session'[c].epoch = session[c].epoch /\ session'[c].table = session[c].table
       /\ session'[c].replay = session[c].replay
    \/ /\ IsWrap(msg) /\ session[c].epoch < msg.epoch /\ msg.epoch <= epoch /\ msg.epoch \in Nat
       /\ session'[c].id = session[c].id /\ session'[c].table = session[c].table
       /\ session'[c].epoch = msg.epoch /\ session'[c].replay = Empty
       /\ up' = [up EXCEPT ![c] = Append(@, [type |-> "EpochAck", epoch |-> msg.epoch])]
    \/ /\ IsEvent(msg) /\ msg \in RoomEvent /\ UNCHANGED up
       /\ session'[c] = AfterEvent(session[c], msg)
    \/ /\ IsRelay(msg) /\ msg.envelope \in AnyEnvelope /\ UNCHANGED up
       /\ session'[c] = AfterRelay(session[c], msg.envelope)
    \/ /\ ~ IsAdmission(msg) /\ ~ IsWrap(msg) /\ ~ IsEvent(msg) /\ ~ IsRelay(msg)
       /\ SameTables(c)
       /\ \/ UNCHANGED up
          \/ \E env : /\ env.kind = "TimeoutChanged"
                      /\ [type |-> "Chat", envelope |-> env] \in Upward
                      /\ up' = [up EXCEPT ![c] = Append(@, [type |-> "Chat", envelope |-> env])]

\* A step of connection c that is nobody else's.
OwnStep(c) ==
    /\ UNCHANGED <<vars, nested>>
    /\ \A d \in Conn : d # c => /\ session'[d] = session[d] /\ up'[d] = up[d]
                                /\ down'[d] = down[d]

\* A participant takes the head of its path: it never closes for that.
LEMMA ReceiveTakes ==
    ASSUME PathInv, NEW c \in Conn, ParticipantReceives(c)
    PROVE  /\ OwnStep(c) /\ Live(c) /\ Live(c)'
           /\ down[c] # <<>> /\ down[c] \in Seq(Downward) /\ down'[c] = Tail(down[c])
           /\ session[c] \in SessionRecord /\ Takes(c, down[c][1])
  <1>. DEFINE msg == Head(down[c])
              s == session[c]
  <1>1. /\ Live(c) /\ down[c] # <<>> /\ Receive(c, msg)
        /\ down' = IF session'[c].status = "closed" THEN [down EXCEPT ![c] = <<>>]
                   ELSE [down EXCEPT ![c] = Tail(@)]
        /\ UNCHANGED <<vars, nested>>
    BY DEF ParticipantReceives
  <1>2. /\ session \in [Conn -> SessionRecord] /\ s \in SessionRecord
        /\ up \in [Conn -> Seq(Upward)] /\ down \in [Conn -> Seq(Downward)]
        /\ down[c] \in Seq(Downward)
        /\ s.status \in {"applying", "member"}
    BY <1>1, SessionTypes DEF Live
  <1>3. msg \in Downward /\ msg = down[c][1] /\ 1 \in DOMAIN down[c]
    BY <1>1, <1>2, Rest
  <1>4. IsWrap(msg) => s.epoch < msg.epoch /\ msg.epoch <= epoch /\ msg.epoch \in Nat
    <2>1. WrapsWithin(down[c], s.epoch, epoch)
      BY DEF PathInv, Path, OnCourse
    <2>. QED  BY <1>3, <2>1, HeadTypes DEF WrapsWithin, IsWrap
  <1>5. OwnStep(c)
    BY <1>1, <1>2 DEF Receive, Send, OwnStep
  <1>. HIDE DEF msg
  <1>6. session'[c].status \in {"applying", "member"} /\ Takes(c, msg)
    <2>1. CASE /\ msg.type = "JoinAccepted"
               /\ session' = [session EXCEPT ![c].status = "member", ![c].id = msg.id]
               /\ UNCHANGED up
      BY <1>2, <2>1 DEF SessionRecord, Takes, IsAdmission
    <2>2. CASE /\ msg.type = "EpochWrap"
               /\ session' = [session EXCEPT ![c] = AfterWrap(c, s, msg.epoch)]
               /\ up' = [up EXCEPT ![c] = Append(@, AnswerToWrap(c, s, msg.epoch))]
      <3>1. msg.epoch > s.epoch /\ IsWrap(msg) /\ msg.epoch \in Nat /\ msg.epoch <= epoch
            /\ s.epoch < msg.epoch
        BY <1>2, <1>4, <2>2 DEF IsWrap, SessionRecord
      <3>2. /\ session'[c] = [s EXCEPT !.epoch = msg.epoch, !.replay = Empty]
            /\ up' = [up EXCEPT ![c] = Append(@, [type |-> "EpochAck", epoch |-> msg.epoch])]
        BY <1>2, <2>2, <3>1 DEF AfterWrap, AnswerToWrap
      <3>3. /\ session'[c].id = s.id /\ session'[c].table = s.table
            /\ session'[c].epoch = msg.epoch /\ session'[c].replay = Empty
            /\ session'[c].status = s.status
        BY <1>2, <3>2 DEF SessionRecord
      <3>. QED  BY <1>2, <3>1, <3>2, <3>3 DEF Takes
    <2>3. CASE /\ msg.type \in EventTypes
               /\ session' = [session EXCEPT ![c] = AfterEvent(s, msg)]
               /\ UNCHANGED up
      <3>1. msg \in RoomEvent /\ session'[c] = AfterEvent(s, msg)
        BY <1>2, <1>3, <2>3, HeadTypes
      <3>2. AfterEvent(s, msg).status = s.status
        BY <1>2, <3>1, AfterEventType
      <3>. QED  BY <1>2, <2>3, <3>1, <3>2 DEF Takes, IsEvent
    <2>4. CASE /\ msg.type = "Relay"
               /\ session' = [session EXCEPT ![c] = AfterRelay(s, msg.envelope)]
               /\ UNCHANGED up
      <3>1. msg.envelope \in AnyEnvelope /\ session'[c] = AfterRelay(s, msg.envelope)
        BY <1>2, <1>3, <2>4, HeadTypes
      <3>2. AfterRelay(s, msg.envelope).status = s.status
        BY <1>2, <3>1, AfterRelayType
      <3>. QED  BY <1>2, <2>4, <3>1, <3>2 DEF Takes, IsRelay
    <2>5. CASE msg.type = "Error" /\ UNCHANGED <<session, up>>
      BY <1>2, <2>5 DEF Takes, SameTables, IsAdmission, IsWrap, IsEvent, EventTypes, IsRelay
    <2>6. CASE /\ msg.type \in {"TimeoutRequestAccepted", "TimeoutRebroadcast"}
               /\ Send(c, "TimeoutChanged", msg.seconds)
               /\ session' = [session EXCEPT ![c].senderSequence = @ + 1,
                     ![c].timeout = IF msg.type = "TimeoutRequestAccepted" THEN msg.seconds ELSE @]
      <3>. DEFINE env == Sealed(s, "TimeoutChanged", msg.seconds)
      <3>1. msg.seconds \in Nat
        BY <1>3, <2>6, HeadTypes
      <3>2. env.kind = "TimeoutChanged" /\ [type |-> "Chat", envelope |-> env] \in Upward
        <4>1. [type |-> "Chat", envelope |-> env] \in Upward
          BY <1>2, <3>1, SealedType DEF MemberKinds
        <4>. QED  BY <4>1 DEF Sealed
      <3>3. up' = [up EXCEPT ![c] = Append(@, [type |-> "Chat", envelope |-> env])]
        BY <2>6 DEF Send
      <3>4. SameTables(c) /\ session'[c].status = s.status
        BY <1>2, <2>6 DEF SameTables, SessionRecord
      <3>5. ~ IsAdmission(msg) /\ ~ IsWrap(msg) /\ ~ IsEvent(msg) /\ ~ IsRelay(msg)
        BY <2>6 DEF IsAdmission, IsWrap, IsEvent, EventTypes, IsRelay
      <3>. QED  BY <1>2, <3>2, <3>3, <3>4, <3>5 DEF Takes
    <2>. QED  BY <1>1, <2>1, <2>2, <2>3, <2>4, <2>5, <2>6 DEF Receive
  <1>7. Live(c)' /\ down'[c] = Tail(down[c])
    BY <1>1, <1>2, <1>6 DEF Live
  <1>. QED  BY <1>1, <1>2, <1>3, <1>5, <1>6, <1>7

\* A step of one connection's participant: nobody else's table is concerned.
LEMMA TablesHere ==
    ASSUME TableInv, NEW c \in Conn, OwnStep(c), Reported(c)',
           Live(c)' => /\ Live(c)
                       /\ session[c].epoch = epoch => session'[c].epoch = epoch
                       /\ \A m : Informed(c, m) => Informed(c, m)'
                       /\ Uninformed(c) => Uninformed(c)'
    PROVE  TableInv'
  <1>1. UNCHANGED <<members, connections, epoch, pendingEpoch, pendingMembership, nextMemberId, state,
                    nextConn, nested>>
    BY DEF OwnStep, vars
  <1>2. \A d \in Conn : d # c => session'[d] = session[d] /\ up'[d] = up[d] /\ down'[d] = down[d]
    BY DEF OwnStep
  <1>3. Roster' = Roster /\ \A d : Residents(d)' = Residents(d)
    BY <1>1 DEF Roster, Residents, Running
  <1>4. ASSUME NEW d \in Conn
        PROVE  Reported(d)' /\ (d >= nextConn' => pendingMembership'[d] = <<>>)
    <2>1. Reported(d) /\ (d >= nextConn => pendingMembership[d] = <<>>)
      BY DEF TableInv
    <2>2. d # c => Reported(d)'
      BY <1>1, <1>2, <2>1 DEF Reported, Running, Live
    <2>. QED  BY <1>1, <2>1, <2>2
  <1>5. Settled'
    <2>. SUFFICES ASSUME NEW d \in Conn, NEW m \in Residents(d) \ pendingEpoch.awaiting, Live(d)'
                  PROVE  session'[d].epoch = epoch
      BY <1>1, <1>3 DEF Settled
    <2>1. d # c => Live(d)
      BY <1>2 DEF Live
    <2>2. Live(d)
      BY <2>1
    <2>3. session[d].epoch = epoch
      BY <2>2 DEF TableInv, Settled
    <2>. QED  BY <1>2, <2>3
  <1>6. ASSUME ~ nested
        PROVE  Tables'
    <2>1. Tables
      BY <1>6 DEF TableInv
    <2>2. Distinct(Roster')
      BY <1>3, <2>1 DEF Tables
    <2>3. ASSUME NEW d \in Conn, Live(d)'
          PROVE  /\ \A m \in Residents(d) : Informed(d, m)'
                 /\ Residents(d) = {} => Uninformed(d)'
      <3>1. Live(d)
        BY <1>2, <2>3 DEF Live
      <3>2. /\ \A m \in Residents(d) : Informed(d, m)
            /\ Residents(d) = {} => Uninformed(d)
        BY <2>1, <3>1 DEF Tables
      <3>3. CASE d = c
        BY <2>3, <3>2, <3>3
      <3>4. CASE d # c
        <4>1. /\ \A m : Informed(d, m) => Informed(d, m)'
              /\ Uninformed(d) => Uninformed(d)'
          BY <1>1, <1>2, <1>3, <3>4 DEF Informed, Uninformed
        <4>. QED  BY <3>2, <4>1
      <3>. QED  BY <3>3, <3>4
    <2>. QED  BY <1>3, <2>2, <2>3 DEF Tables
  <1>. QED  BY <1>1, <1>4, <1>5, <1>6 DEF TableInv

\* One link up grows by a message that is neither a loss nor of an uninstalled key.
LEMMA ReportedAppend ==
    ASSUME PathInv, NEW c \in Conn, Reported(c), NEW msg \in Upward, up' = [up EXCEPT ![c] = Append(@, msg)],
           UNCHANGED <<state, connections>>, Live(c), Live(c)', ~ IsLoss(msg),
           session[c].epoch <= session'[c].epoch, session'[c].epoch \in Nat,
           msg.type = "EpochAck" => msg.epoch <= session'[c].epoch
    PROVE  Reported(c)'
  <1>1. \A i \in DOMAIN up'[c] : \/ \E j \in DOMAIN up[c] : up'[c][i] = up[c][j]
                                 \/ up'[c][i] = msg
    BY UpAppend
  <1>2. \A j \in DOMAIN up[c] : /\ ~ IsLoss(up[c][j])
                                /\ up[c][j].type = "EpochAck" =>
                                      up[c][j].epoch <= session[c].epoch /\ up[c][j].epoch \in Nat
    <2>1. up[c] \in Seq(Upward)
      BY SessionTypes
    <2>2. \A j \in DOMAIN up[c] : up[c][j] \in Upward
      BY <2>1
    <2>. QED  BY <2>2 DEF Reported, Upward
  <1>3. session[c].epoch \in Nat
    BY SessionTypes
  <1>4. \A i \in DOMAIN up'[c] : /\ ~ IsLoss(up'[c][i])
                                 /\ up'[c][i].type = "EpochAck" => up'[c][i].epoch <= session'[c].epoch
    BY <1>1, <1>2, <1>3
  <1>. QED  BY <1>4 DEF Reported

\* A colour is not who somebody is.
LEMMA RecolouredPersons ==
    ASSUME NEW table \in SUBSET View, NEW id, NEW color
    PROVE  Persons(Recoloured(table, id, color)) = Persons(table)
  <1>. DEFINE f(v) == IF v.id = id THEN [v EXCEPT !.color = color] ELSE v
  <1>1. \A v \in table : Person(f(v)) = Person(v)
    BY DEF Person, View
  <1>2. Recoloured(table, id, color) = {f(v) : v \in table}
    BY DEF Recoloured
  <1>. HIDE DEF f
  <1>. QED  BY <1>1, <1>2 DEF Persons

\* What relays and policies change in a session is not who is in its table.
LEMMA ReadPersons ==
    ASSUME NEW s \in SessionRecord
    PROVE  /\ \A ev \in RoomEvent : ~ IsNews(ev) =>
                 LET r == AfterEvent(s, ev) IN r.table = s.table /\ r.id = s.id /\ r.epoch = s.epoch
           /\ \A env \in AnyEnvelope :
                 LET r == AfterRelay(s, env) IN
                 Persons(r.table) = Persons(s.table) /\ r.id = s.id /\ r.epoch = s.epoch
  <1>1. ASSUME NEW ev \in RoomEvent, ~ IsNews(ev)
        PROVE  AfterEvent(s, ev).table = s.table
    <2>1. ev.type \notin {"MemberJoined", "MemberLeft", "MemberKicked", "MemberSnapshot"}
      BY <1>1 DEF IsNews, IsJoin, IsSnapshot, IsGone
    <2>2. TableAfter(s, ev) = s.table
      BY <2>1 DEF TableAfter
    <2>. QED  BY <2>2 DEF AfterEvent, SessionRecord
  <1>2. ASSUME NEW env \in AnyEnvelope
        PROVE  Persons(AfterRelay(s, env).table) = Persons(s.table)
    <2>1. Persons(Recoloured(s.table, env.sender, env.body)) = Persons(s.table)
      BY RecolouredPersons DEF SessionRecord
    <2>2. AfterRelay(s, env).table \in {s.table, Recoloured(s.table, env.sender, env.body)}
      BY DEF AfterRelay, SessionRecord
    <2>. QED  BY <2>1, <2>2
  <1>. QED  BY <1>1, <1>2, ReadingKeeps

\* A participant that takes what is next stays informed.
LEMMA ReceiveTables ==
    ASSUME PathInv, TableInv, NEW c \in Conn, ParticipantReceives(c)
    PROVE  TableInv'
  <1>. DEFINE q == down[c]
              h == pendingMembership[c]
              s == session[c]
              s2 == session'[c]
              msg == down[c][1]
  <1>1. /\ OwnStep(c) /\ Live(c) /\ Live(c)'
        /\ q # <<>> /\ q \in Seq(Downward) /\ down'[c] = Tail(q)
        /\ s \in SessionRecord /\ Takes(c, msg)
    BY ReceiveTakes
  <1>2. /\ UNCHANGED <<state, connections, epoch, pendingMembership, nextMemberId, members>>
        /\ h \in Seq(Downward) /\ epoch \in Nat /\ s.epoch \in Nat
        /\ up \in [Conn -> Seq(Upward)]
    BY <1>1, SessionTypes DEF OwnStep, vars
  <1>3. /\ OnCourse(q, h, s.epoch, s.lastRoomSequence, epoch, roomSequence)
        /\ s.epoch <= epoch
    BY DEF PathInv, Path, OnCourse
  <1>4. msg \in Downward
    BY <1>1, Onwards
  <1>5. s2.epoch = s.epoch \/ (IsWrap(msg) /\ s.epoch < s2.epoch /\ s2.epoch <= epoch /\ s2.epoch \in Nat)
    BY <1>1, ReadingKeeps DEF Takes, SameTables
  <1>6. Reported(c)'
    <2>1. Reported(c)
      BY DEF TableInv
    <2>0. \A i \in DOMAIN up[c] : up[c][i].type = "EpochAck" => up[c][i].epoch \in Nat
      <3>1. \A i \in DOMAIN up[c] : up[c][i] \in Upward
        BY <1>2
      <3>. QED  BY <3>1 DEF Upward
    <2>5. /\ session[c].epoch <= session'[c].epoch /\ session'[c].epoch \in Nat
          /\ UNCHANGED <<state, connections>>
      BY <1>2, <1>5
    <2>2. CASE UNCHANGED up
      <3>1. \A i \in DOMAIN up[c] : up[c][i].type = "EpochAck" => up[c][i].epoch <= session'[c].epoch
        BY <1>1, <1>2, <2>0, <2>1, <2>5 DEF Reported
      <3>. QED  BY <1>1, <1>2, <2>1, <2>2, <3>1 DEF Reported, Running
    <2>3. CASE IsWrap(msg) /\ msg.epoch \in Nat /\ s2.epoch = msg.epoch /\ s.epoch < msg.epoch
                /\ up' = [up EXCEPT ![c] = Append(@, [type |-> "EpochAck", epoch |-> msg.epoch])]
      <3>. DEFINE m == [type |-> "EpochAck", epoch |-> msg.epoch]
      <3>1. m \in Upward /\ ~ IsLoss(m) /\ m.epoch = msg.epoch
        BY <2>3 DEF Upward, IsLoss
      <3>. HIDE DEF m
      <3>2. up' = [up EXCEPT ![c] = Append(@, m)]
        BY <2>3 DEF m
      <3>3. m.type = "EpochAck" => m.epoch <= session'[c].epoch
        BY <1>2, <1>5, <2>3, <3>1
      <3>. QED  BY <1>1, <2>1, <2>5, <3>1, <3>2, <3>3, ReportedAppend
    <2>4. ASSUME NEW env, [type |-> "Chat", envelope |-> env] \in Upward, s2.epoch = s.epoch,
                 up' = [up EXCEPT ![c] = Append(@, [type |-> "Chat", envelope |-> env])]
          PROVE  Reported(c)'
      <3>. DEFINE m == [type |-> "Chat", envelope |-> env]
      <3>1. m \in Upward /\ ~ IsLoss(m) /\ m.type = "Chat"
        BY <2>4 DEF IsLoss
      <3>. HIDE DEF m
      <3>2. up' = [up EXCEPT ![c] = Append(@, m)]
        BY <2>4 DEF m
      <3>. QED  BY <1>1, <2>1, <2>5, <3>1, <3>2, ReportedAppend
    <2>. QED  BY <1>1, <2>2, <2>3, <2>4 DEF Takes, SameTables
  <1>. HIDE DEF q, h, s, s2, msg
  <1>7. ASSUME NEW R, NEW n, NEW e, NEW m, Aware(q, h, s, R, n, e, m)
        PROVE  Aware(Tail(q), h, s2, R, n, e, m)
    <2>1. CASE IsNews(msg)
      <3>1. s2 = AfterEvent(s, msg)
        BY <1>1, <2>1, Sorts DEF Takes, s, s2
      <3>. QED  BY <1>1, <1>2, <1>3, <1>7, <2>1, <3>1, AwareHears DEF msg, q
    <2>2. CASE ~ IsNews(msg)
      <3>1. /\ Persons(s2.table) = Persons(s.table)
            /\ \/ ~ IsAdmission(msg) /\ s2.id = s.id /\ s2.epoch = s.epoch
               \/ IsAdmission(msg) /\ s2.id = msg.id /\ s2.epoch = s.epoch
               \/ IsWrap(msg) /\ s2.id = s.id
        BY <1>1, <2>2, ReadPersons, Sorts DEF Takes, SameTables, s, s2
      <3>. QED  BY <1>1, <1>2, <1>7, <2>2, <3>1, AwareTakes DEF msg, q
    <2>. QED  BY <2>1, <2>2
  <1>8. \A m : Informed(c, m) => Informed(c, m)'
    <2>1. Roster' = Roster /\ nextMemberId' = nextMemberId /\ epoch' = epoch
      BY <1>2 DEF Roster
    <2>2. down'[c] = Tail(q) /\ session'[c] = s2 /\ pendingMembership'[c] = h
      BY <1>1, <1>2 DEF q, h, s2
    <2>. QED  BY <1>7, <2>1, <2>2 DEF Informed, q, h, s
  <1>9. Uninformed(c) => Uninformed(c)'
    <2>. SUFFICES ASSUME Unaware(q, h, s) PROVE Unaware(Tail(q), h, s2)
      BY <1>1, <1>2 DEF Uninformed, q, h, s, s2
    <2>1. ~ IsEvent(msg) /\ ~ IsRelay(msg) /\ ~ IsWrap(msg) /\ ~ IsAdmission(msg)
      BY <1>1, Onwards DEF Unaware, Idle, msg, q
    <2>2. s2.table = s.table /\ s2.epoch = s.epoch
      BY <1>1, <2>1 DEF Takes, SameTables, s, s2
    <2>. QED  BY <1>1, <2>2, UnawareTakes
  <1>10. session[c].epoch = epoch => session'[c].epoch = epoch
    BY <1>2, <1>5 DEF s, s2
  <1>. QED  BY <1>1, <1>6, <1>8, <1>9, <1>10, TablesHere

\* Awareness rests on who is in the table, not on colours, counts or timeouts.
LEMMA AwareSame ==
    ASSUME NEW q, NEW h, NEW s, NEW R, NEW n, NEW e, NEW m, Aware(q, h, s, R, n, e, m),
           NEW s2, s2.id = s.id, s2.epoch = s.epoch, Persons(s2.table) = Persons(s.table)
    PROVE  Aware(q, h, s2, R, n, e, m)
  BY DEF Aware

\* A participant seals a message: nobody's table says anything else of who is there.
LEMMA SendTables ==
    ASSUME PathInv, TableInv, UNCHANGED <<vars, down, nested>>, NEW c \in Conn,
           NEW kind \in MemberKinds, NEW body \in Nat, kind = "Color" => body \in Color,
           Send(c, kind, body),
           \A d \in Conn : d # c => session'[d] = session[d],
           /\ session'[c].status = session[c].status /\ session'[c].id = session[c].id
           /\ session'[c].epoch = session[c].epoch
           /\ Persons(session'[c].table) = Persons(session[c].table)
    PROVE  TableInv'
  <1>. DEFINE msg == [type |-> "Chat", envelope |-> Sealed(session[c], kind, body)]
  <1>1. /\ session[c] \in SessionRecord /\ session[c].epoch \in Nat
        /\ Live(c) /\ Live(c)' /\ session[c].epoch # NoKey
    BY SessionTypes DEF Send, Live
  <1>2. msg \in Upward /\ ~ IsLoss(msg) /\ msg.type = "Chat"
    BY <1>1, SealedType DEF IsLoss
  <1>3. up' = [up EXCEPT ![c] = Append(@, msg)]
    BY DEF Send
  <1>. HIDE DEF msg
  <1>4. OwnStep(c)
    BY <1>2, <1>3, UpAppend DEF OwnStep
  <1>5. Reported(c)'
    <2>1. UNCHANGED <<state, connections>> /\ Reported(c) /\ session[c].epoch <= session'[c].epoch
          /\ session'[c].epoch \in Nat
      BY <1>1 DEF vars, TableInv
    <2>. QED  BY <1>1, <1>2, <1>3, <2>1, ReportedAppend
  <1>6. \A m : Informed(c, m) => Informed(c, m)'
    <2>1. /\ Roster' = Roster /\ nextMemberId' = nextMemberId /\ epoch' = epoch
          /\ down' = down /\ pendingMembership' = pendingMembership
      BY DEF vars, Roster
    <2>. QED  BY <2>1, AwareSame DEF Informed
  <1>7. ~ Uninformed(c)
    BY <1>1 DEF Uninformed, Unaware
  <1>. QED  BY <1>1, <1>4, <1>5, <1>6, <1>7, TablesHere

\* The three ways a participant sends a message of its own.
LEMMA SendingTables ==
    ASSUME PathInv, TableInv
    PROVE  /\ \A c \in Conn, kind \in Kinds : \A body \in Bodies(kind) :
                 SendMessage(c, kind, body) => TableInv'
           /\ \A c \in Conn, color \in Color : SendColor(c, color) => TableInv'
           /\ \A i \in Intervals \cup {NoTimeout} : HostTimeout(i) => TableInv'
  <1>1. session \in [Conn -> SessionRecord]
    BY SessionTypes
  <1>2. ASSUME NEW c \in Conn, NEW kind \in Kinds, NEW body \in Bodies(kind), SendMessage(c, kind, body)
        PROVE  TableInv'
    <2>1. kind \in MemberKinds /\ kind # "Color" /\ body \in Nat
      BY <1>2, DataAssumption DEF SendMessage, Bodies, NoTimeout
    <2>2. /\ Send(c, kind, body) /\ UNCHANGED <<vars, down, nested>>
          /\ session' = [session EXCEPT ![c].senderSequence = @ + 1]
      BY <1>2 DEF SendMessage
    <2>3. /\ \A d \in Conn : d # c => session'[d] = session[d]
          /\ session'[c].status = session[c].status /\ session'[c].id = session[c].id
          /\ session'[c].epoch = session[c].epoch
          /\ Persons(session'[c].table) = Persons(session[c].table)
      BY <1>1, <2>2 DEF SessionRecord
    <2>. QED  BY <2>1, <2>2, <2>3, SendTables
  <1>3. ASSUME NEW c \in Conn, NEW color \in Color, SendColor(c, color)
        PROVE  TableInv'
    <2>1. "Color" \in MemberKinds /\ color \in Nat
      BY <1>3, DataAssumption DEF MemberKinds
    <2>. DEFINE s == session[c]
    <2>2. /\ Send(c, "Color", color) /\ UNCHANGED <<vars, down, nested>>
          /\ session' = [session EXCEPT ![c] =
                [s EXCEPT !.senderSequence = s.senderSequence + 1,
                          !.table = Recoloured(s.table, s.id, color)]]
      BY <1>1, <1>3 DEF SendColor
    <2>3. Persons(Recoloured(s.table, s.id, color)) = Persons(s.table)
      BY <1>1, RecolouredPersons DEF SessionRecord
    <2>4. /\ \A d \in Conn : d # c => session'[d] = session[d]
          /\ session'[c].status = session[c].status /\ session'[c].id = session[c].id
          /\ session'[c].epoch = session[c].epoch
          /\ Persons(session'[c].table) = Persons(session[c].table)
      BY <1>1, <2>2, <2>3 DEF SessionRecord
    <2>. QED  BY <2>1, <2>2, <2>4, SendTables
  <1>4. ASSUME NEW i \in Intervals \cup {NoTimeout}, HostTimeout(i)
        PROVE  TableInv'
    <2>1. "TimeoutChanged" \in MemberKinds /\ i \in Nat /\ HostConnection \in Conn
      BY <1>4, DataAssumption, BoundsAssumption DEF MemberKinds, NoTimeout, HostConnection, Conn
    <2>. DEFINE s == session[HostConnection]
    <2>2. /\ Send(HostConnection, "TimeoutChanged", i) /\ UNCHANGED <<vars, down, nested>>
          /\ session' = [session EXCEPT ![HostConnection] =
                [s EXCEPT !.senderSequence = s.senderSequence + 1, !.timeout = i]]
      BY <1>1, <1>4, <2>1 DEF HostTimeout
    <2>3. LET c == HostConnection IN
          /\ \A d \in Conn : d # c => session'[d] = session[d]
          /\ session'[c].status = session[c].status /\ session'[c].id = session[c].id
          /\ session'[c].epoch = session[c].epoch
          /\ Persons(session'[c].table) = Persons(session[c].table)
      BY <1>1, <2>1, <2>2 DEF SessionRecord
    <2>. QED  BY <2>1, <2>2, <2>3, SendTables
  <1>. QED  BY <1>2, <1>3, <1>4

\* A participant goes away, and its loss is the last thing it reports.
LEMMA DisconnectTables ==
    ASSUME PathInv, TableInv, NEW c \in Conn, Disconnect(c)
    PROVE  TableInv'
  <1>1. /\ UNCHANGED <<vars, nested>> /\ session \in [Conn -> SessionRecord]
        /\ down \in [Conn -> Seq(Downward)] /\ up \in [Conn -> Seq(Upward)]
    BY SessionTypes DEF Disconnect
  <1>2. PICK loss \in Upward : loss = [type |-> "Lost"]
    BY DEF Upward
  <1>3. up' = [up EXCEPT ![c] = Append(@, loss)]
    BY <1>2 DEF Disconnect
  <1>4. up'[c] = Append(up[c], loss) /\ up[c] \in Seq(Upward)
    BY <1>1, <1>3
  <1>5. \E i \in DOMAIN up'[c] : IsLoss(up'[c][i])
    <2>1. Len(up[c]) + 1 \in DOMAIN up'[c] /\ up'[c][Len(up[c]) + 1] = loss
      BY <1>4
    <2>. QED  BY <1>2, <2>1 DEF IsLoss
  <1>6. ~ Live(c)'
    BY <1>1 DEF Disconnect, Live, ClosedSession, NoSession
  <1>7. OwnStep(c)
    BY <1>1, <1>3 DEF OwnStep, Disconnect
  <1>. QED  BY <1>5, <1>6, <1>7, TablesHere DEF Reported

-----------------------------------------------------------------------------
(* What a step of the actor is to the tables *)

\* What may be sent to connection c without telling it who is there.
Modest(a, c) ==
    \A i \in DOMAIN a :
        /\ ~ IsNews(a[i]) /\ ~ IsWrap(a[i]) /\ ~ IsAdmission(a[i])
        /\ IsEvent(a[i]) => AtRest /\ a[i].epoch = epoch /\ c \in ConnectionsOf(members)
        /\ IsRelay(a[i]) => /\ Running /\ c \in ConnectionsOf(members)
                            /\ a[i].envelope.sender \in DOMAIN members

\* The same people have the same ids, over the same connections.
SameMembers ==
    /\ DOMAIN members' = DOMAIN members
    /\ \A m \in DOMAIN members : /\ members'[m].connection = members[m].connection
                                 /\ members'[m].nickname = members[m].nickname
                                 /\ members'[m].identity = members[m].identity

\* Nobody comes or goes, and nobody is told anything of it.
Still ==
    /\ UNCHANGED <<epoch, nextMemberId, pendingMembership, Running>>
    /\ SameMembers
    /\ \A c \in Conn : Modest(outgoing'.send[c], c)

\* The last acknowledgement.
Releases ==
    /\ AtRest' /\ Running
    /\ UNCHANGED <<epoch, nextMemberId, members>>
    /\ pendingMembership' = Silence /\ outgoing'.send = pendingMembership

\* One member goes while the room is at rest, and its connection with it.
Parts ==
    \E m \in DOMAIN members, type \in {"MemberLeft", "MemberKicked"} : \E lost :
        /\ AtRest /\ RemoveMembers({m}, lost, type) /\ UNCHANGED nextMemberId
        /\ \A c \in Conn : /\ Keys(outgoing'.send[c])
                           /\ c \notin ConnectionsOf(members') => Idle(outgoing'.send[c])
        /\ members[m].connection \in outgoing'.close \/ ~ Live(members[m].connection)

Admits == \E r \in DOMAIN requests : AcceptJoin(r)
Closes == Running /\ CloseRoom
Nests == InTransition /\ epoch' # epoch

Turn == Still \/ Releases \/ Parts \/ Admits \/ Closes \/ Nests

\* Whom the room hangs up on it forgets, and it holds news back for members only.
Tidy ==
    /\ Running' => \A c \in outgoing'.close : c \notin DOMAIN connections'
    /\ \A c \in Conn : \/ pendingMembership'[c] \in {pendingMembership[c], <<>>}
                       \/ c \in ConnectionsOf(members')

\* Answers to whoever asked say nothing of who is there.
LEMMA IdleMessages ==
    /\ Idle(<<>>)
    /\ \A code : Idle(<<Error(code)>>)
    /\ Idle(<<JoinRejected>>) /\ Idle(<<Shutdown>>)
  <1>1. \A msg : ~ IsEvent(msg) /\ ~ IsRelay(msg) /\ ~ IsWrap(msg) /\ ~ IsAdmission(msg) => Idle(<<msg>>)
    <2>. SUFFICES ASSUME NEW msg, ~ IsEvent(msg), ~ IsRelay(msg), ~ IsWrap(msg), ~ IsAdmission(msg)
                  PROVE  Idle(<<msg>>)
      OBVIOUS
    <2>1. \A i \in DOMAIN <<msg>> : <<msg>>[i] = msg
      OBVIOUS
    <2>. QED  BY <2>1 DEF Idle
  <1>2. Idle(<<>>)
    BY DEF Idle
  <1>3. \A code : Idle(<<Error(code)>>)
    BY <1>1 DEF Error, IsEvent, IsRelay, IsWrap, IsAdmission, EventTypes
  <1>4. Idle(<<JoinRejected>>)
    BY <1>1 DEF JoinRejected, IsEvent, IsRelay, IsWrap, IsAdmission, EventTypes
  <1>5. Idle(<<Shutdown>>)
    BY <1>1 DEF Shutdown, IsEvent, IsRelay, IsWrap, IsAdmission, EventTypes
  <1>. QED  BY <1>2, <1>3, <1>4, <1>5

\* What is sent to one connection, or to some, is idle for all.
LEMMA IdleSends ==
    ASSUME NEW c \in Conn
    PROVE  /\ Idle(Silence[c])
           /\ \A d, msg : Idle(<<msg>>) => Idle(SendTo(d, msg)[c])
           /\ \A C, msg : Idle(<<msg>>) => Idle(SendAll(C, msg)[c])
  <1>1. Idle(<<>>) /\ Silence[c] = <<>>
    BY IdleMessages DEF Silence
  <1>2. \A d, msg : SendTo(d, msg)[c] \in {<<>>, <<msg>>}
    BY DEF SendTo, Silence
  <1>3. \A C, msg : SendAll(C, msg)[c] \in {<<>>, <<msg>>}
    BY DEF SendAll
  <1>. QED  BY <1>1, <1>2, <1>3

\* Both parts of a batch are.
LEMMA IdleMore ==
    ASSUME NEW q \in Seq(Downward), NEW a \in Seq(Downward), Idle(q), Idle(a)
    PROVE  Idle(q \o a)
  BY Concat DEF Idle

\* Idle messages are modest, and something else than keys and news.
LEMMA IdleIsModest ==
    ASSUME NEW a, Idle(a)
    PROVE  /\ \A c : Modest(a, c)
           /\ Keys(a) /\ Newsless(a) /\ Keyless(a) /\ Unadmitted(a)
  BY Sorts DEF Idle, Modest, Keys, Newsless, Keyless, Unadmitted

\* A step that leaves everybody where they are.
LEMMA QuietTurn ==
    ASSUME UNCHANGED <<epoch, nextMemberId, pendingMembership>>, SameMembers, Running' = Running,
           \A c \in Conn : Modest(outgoing'.send[c], c),
           Running' => \A c \in outgoing'.close : c \notin DOMAIN connections'
    PROVE  Turn /\ Tidy
  BY DEF Turn, Still, Tidy

\* ... and answers somebody, or nobody.
LEMMA AnswerTurn ==
    ASSUME UNCHANGED <<epoch, nextMemberId, pendingMembership, members>>, Running' = Running,
           NEW send, NEW close, NEW notices, Emit(send, close, notices),
           \A c \in Conn : Idle(send[c]),
           Running' => \A c \in close : c \notin DOMAIN connections'
    PROVE  Turn /\ Tidy
  <1>1. outgoing'.send = send /\ outgoing'.close = close
    BY DEF Emit
  <1>2. SameMembers
    BY DEF SameMembers
  <1>. QED  BY <1>1, <1>2, IdleIsModest, QuietTurn

\* An event the actor ignores.
LEMMA NoEffectTurn ==
    ASSUME NoEffect
    PROVE  Turn /\ Tidy
  BY AnswerTurn, IdleSends DEF NoEffect, epochVars, Running

\* Members that go during a transition nest another one in it.
LEMMA RemoveTidy ==
    ASSUME KeyInv, NEW gone, NEW lost, NEW type, RemoveMembers(gone, lost, type),
           \A c \in outgoing'.close : c \in lost \cup {members[m].connection : m \in gone}
    PROVE  /\ Tidy
           /\ epoch' # epoch
           /\ ConnectionsOf(members') = {members[m].connection : m \in DOMAIN members \ gone}
  <1>. DEFINE rest == Restrict(members, DOMAIN members \ gone)
  <1>1. epoch \in Nat /\ epoch' = epoch + 1
    BY KeyTypes DEF RemoveMembers, BeginEpochTransition
  <1>2. members' = rest
    BY DEF RemoveMembers
  <1>3. ConnectionsOf(members') = {members[m].connection : m \in DOMAIN members \ gone}
    BY <1>2 DEF ConnectionsOf, Restrict
  <1>5. DOMAIN connections' = DOMAIN connections \ (lost \cup {members[m].connection : m \in gone})
    BY DEF RemoveMembers, Restrict
  <1>6. \A c \in Conn : pendingMembership'[c] = pendingMembership[c] \/ c \in ConnectionsOf(members')
    BY <1>2 DEF RemoveMembers
  <1>7. \A c \in outgoing'.close : c \notin DOMAIN connections'
    BY <1>5
  <1>. HIDE DEF rest
  <1>8. Tidy
    BY <1>6, <1>7, Zenon DEF Tidy
  <1>9. epoch' # epoch
    BY <1>1
  <1>. QED  BY <1>3, <1>8, <1>9

\* Keys and answers, one after the other.
LEMMA KeysMore ==
    ASSUME NEW S, NEW a \in Seq(S), NEW w \in Seq(S), Keys(a), Keys(w)
    PROVE  Keys(a \o w)
  BY Concat DEF Keys

\* One member goes: its connection is closed, or known to be lost.
LEMMA PartTurn ==
    ASSUME KeyInv, TypeOK', NEW m \in DOMAIN members, NEW type \in {"MemberLeft", "MemberKicked"}, NEW lost,
           RemoveMembers({m}, lost, type), UNCHANGED nextMemberId, AtRest,
           NEW a \in [Conn -> Seq(Message)], \A c \in Conn : Idle(a[c]), NEW close, NEW notices,
           NEW send \in {WrapsWithout({m}), Then(a, WrapsWithout({m}))}, Emit(send, close, notices),
           \A c \in close : c \in lost \cup {members[m].connection},
           members[m].connection \in close \/ ~ Live(members[m].connection)
    PROVE  Turn /\ Tidy
  <1>1. outgoing'.send = send /\ outgoing'.close = close
    BY DEF Emit
  <1>2. /\ members' = Restrict(members, DOMAIN members \ {m})
        /\ TypeOK
    BY DEF RemoveMembers, KeyInv, TablesInv
  <1>3. ASSUME NEW c \in Conn
        PROVE  /\ Keys(send[c])
               /\ c \notin ConnectionsOf(members') => Idle(send[c])
    <2>. DEFINE w == WrapsWithout({m})[c]
    <2>1. w \in {<<>>, <<EpochWrap(epoch + 1)>>} /\ w \in Seq(Message)
          /\ (c \notin ConnectionsOf(members') => w = <<>>)
      BY <1>2, WrapsType DEF WrapsWithout, Wraps, SendAll
    <2>2. Keys(<<>>) /\ Keys(<<EpochWrap(epoch + 1)>>)
      <3>. DEFINE k == EpochWrap(epoch + 1)
      <3>1. ~ IsEvent(k) /\ ~ IsRelay(k) /\ ~ IsAdmission(k)
        BY DEF EpochWrap, IsEvent, IsRelay, IsAdmission, EventTypes
      <3>. HIDE DEF k
      <3>2. \A i \in DOMAIN <<k>> : <<k>>[i] = k
        OBVIOUS
      <3>3. Keys(<<k>>)
        BY <3>1, <3>2 DEF Keys
      <3>4. Keys(<<>>)
        BY DEF Keys
      <3>. QED  BY <3>3, <3>4 DEF k
    <2>. HIDE DEF w
    <2>3. CASE send = WrapsWithout({m})
      BY <2>1, <2>2, <2>3, IdleMessages DEF w
    <2>4. CASE send = Then(a, WrapsWithout({m}))
      <3>1. send[c] = a[c] \o w /\ a[c] \in Seq(Message) /\ Keys(a[c])
        BY <2>4, IdleIsModest DEF Then, w
      <3>2. Keys(w)
        BY <2>1, <2>2
      <3>3. Keys(a[c] \o w)
        BY <2>1, <3>1, <3>2, KeysMore
      <3>4. w = <<>> => a[c] \o w = a[c]
        BY <3>1
      <3>. QED  BY <2>1, <3>1, <3>3, <3>4
    <2>. QED  BY <2>3, <2>4
  <1>4. Tidy
    <2>1. \A c \in outgoing'.close : c \in lost \cup {members[x].connection : x \in {m}}
      BY <1>1
    <2>. QED  BY <2>1, RemoveTidy
  <1>5. Parts
    BY <1>1, <1>3 DEF Parts
  <1>. QED  BY <1>4, <1>5 DEF Turn

\* A connection is lost, and with it the member it stood for, if any.
LEMMA LoseTurn ==
    ASSUME KeyInv, TypeOK', Running, NEW c \in Conn, NEW first \in [Conn -> Seq(Message)],
           \A d \in Conn : Idle(first[d]), NEW close, close \subseteq {c},
           c \in close \/ ~ Live(c), LoseConnection(c, first, close)
    PROVE  Turn /\ Tidy
  <1>. DEFINE gone == MemberOf(c) \cap DOMAIN members
  <1>1. \A m \in DOMAIN members : m \in gone <=> members[m].connection = c
    BY DEF KeyInv, TablesInv, TableFacts, Agree, MemberOf, RegisteredMember, HasRole
  <1>2. \A m, n \in gone : m = n
    BY <1>1 DEF KeyInv, TablesInv, TableFacts, Agree
  <1>3. UNCHANGED nextMemberId
    BY DEF LoseConnection
  <1>4. CASE gone = {}
    <2>1. /\ Emit(first, close, {}) /\ UNCHANGED <<epoch, nextMemberId, pendingMembership, members>>
          /\ Running' = Running /\ DOMAIN connections' = DOMAIN connections \ {c}
      BY <1>4 DEF LoseConnection, epochVars, Running, Restrict
    <2>. QED  BY <2>1, AnswerTurn
  <1>5. CASE gone # {}
    <2>1. PICK m \in DOMAIN members : gone = {m} /\ members[m].connection = c
      BY <1>1, <1>2, <1>5
    <2>2. /\ RemoveMembers({m}, {c}, "MemberLeft")
          /\ Emit(Then(first, WrapsWithout({m})), close, {})
      BY <1>5, <2>1 DEF LoseConnection
    <2>3. CASE AtRest
      BY <1>3, <2>1, <2>2, <2>3, PartTurn
    <2>4. CASE InTransition
      <3>1. \A d \in outgoing'.close : d \in {c} \cup {members[x].connection : x \in {m}}
        BY <2>2 DEF Emit
      <3>2. Tidy /\ epoch' # epoch
        BY <2>2, <3>1, RemoveTidy
      <3>. QED  BY <2>4, <3>2 DEF Turn, Nests
    <2>5. AtRest \/ InTransition
      BY DEF KeyInv, TablesInv, TypeOK, AtRest, InTransition, Running
    <2>. QED  BY <2>3, <2>4, <2>5
  <1>. QED  BY <1>4, <1>5

\* A sender is answered with an error and cut off.
LEMMA PunishTurn ==
    ASSUME KeyInv, TypeOK', Running, NEW c \in Conn,
           NEW code \in {"RoomLocked", "RoomClosed", "ProtocolViolation", "RateLimited"},
           Punish(c, code)
    PROVE  Turn /\ Tidy
  <1>1. SendTo(c, Error(code)) \in [Conn -> Seq(Message)] /\ \A d \in Conn : Idle(SendTo(c, Error(code))[d])
    BY SendTypes, MessageTypes, IdleSends, IdleMessages
  <1>. QED  BY <1>1, LoseTurn DEF Punish

\* Host commands.
LEMMA HostTurn ==
    ASSUME KeyInv, TypeOK', HostEvent
    PROVE  Turn /\ Tidy
  <1>0. TypeOK
    BY DEF KeyInv, TablesInv
  <1>1. CASE Admits
    <2>1. PICK r \in DOMAIN requests : AcceptJoin(r)
      BY <1>1 DEF Admits
    <2>. DEFINE new == requests[r].connection
                ms == With(members, nextMemberId,
                           Member(new, requests[r].application, epoch + 1))
    <2>2. outgoing'.close = {} /\ members' = ms
      BY <2>1 DEF AcceptJoin, Emit
    <2>3. ConnectionsOf(members') = ConnectionsOf(members) \cup {new}
      <3>1. nextMemberId \notin DOMAIN members
        BY KeyTypes
      <3>. QED  BY <2>2, <3>1 DEF ConnectionsOf, With, Member
    <2>4. ASSUME NEW c \in Conn
          PROVE  pendingMembership'[c] = pendingMembership[c] \/ c \in ConnectionsOf(members')
      <3>1. CASE c \in ConnectionsOf(members) \cup {new}
        BY <2>3, <3>1
      <3>2. CASE c \notin ConnectionsOf(members) \cup {new}
        <4>1. pendingMembership'[c] = pendingMembership[c] \o <<>>
          BY <2>1, <3>2 DEF AcceptJoin
        <4>2. pendingMembership[c] \in Seq(RoomEvent)
          BY <1>0 DEF TypeOK
        <4>. QED  BY <4>1, <4>2
      <3>. QED  BY <3>1, <3>2
    <2>5. Tidy
      BY <2>2, <2>4, Zenon DEF Tidy
    <2>. QED  BY <1>1, <2>5 DEF Turn
  <1>2. CASE \E r \in DOMAIN requests : AcceptRefused(r) \/ RejectJoin(r)
    <2>1. PICK r \in DOMAIN requests : TurnAway(r)
      BY <1>2 DEF AcceptRefused, RejectJoin
    <2>. DEFINE c == requests[r].connection
    <2>2. /\ Emit(SendTo(c, JoinRejected), {c}, {}) /\ Running' = Running
          /\ UNCHANGED <<epoch, nextMemberId, pendingMembership, members>>
          /\ DOMAIN connections' = DOMAIN connections \ {c}
      BY <2>1 DEF TurnAway, epochVars, Running, Restrict
    <2>. QED  BY <2>2, AnswerTurn, IdleSends, IdleMessages
  <1>3. CASE \E r \in DOMAIN timeoutRequests, accepted \in BOOLEAN : DecideTimeoutRequest(r, accepted)
    <2>1. PICK r, accepted : DecideTimeoutRequest(r, accepted)
      BY <1>3
    <2>2. PICK notices : Emit(Silence, {}, notices)
      BY <2>1 DEF DecideTimeoutRequest
    <2>3. Running' = Running /\ UNCHANGED <<epoch, nextMemberId, pendingMembership, members>>
      BY <2>1 DEF DecideTimeoutRequest, epochVars, Running
    <2>. QED  BY <2>2, <2>3, AnswerTurn, IdleSends
  <1>4. CASE \E m \in DOMAIN members : Kick(m)
    <2>1. PICK m \in DOMAIN members : Kick(m)
      BY <1>4
    <2>2. /\ RemoveMembers({m}, {}, "MemberKicked") /\ UNCHANGED nextMemberId /\ AtRest
          /\ Emit(WrapsWithout({m}), {members[m].connection}, {})
      BY <2>1 DEF Kick
    <2>3. Silence \in [Conn -> Seq(Message)] /\ \A c \in Conn : Idle(Silence[c])
      BY SendTypes, IdleSends
    <2>. QED  BY <2>2, <2>3, PartTurn
  <1>5. CASE NewId
    <2>1. /\ UNCHANGED <<epoch, nextMemberId, pendingMembership, members>> /\ Running' = Running
          /\ DOMAIN connections' = DOMAIN connections \ NonMembers
      BY <1>5 DEF NewId, DropNonMembers, epochVars, Running, Restrict
    <2>2. PICK notices : Emit(Silence, NonMembers, notices)
      BY <1>5 DEF NewId
    <2>. QED  BY <2>1, <2>2, AnswerTurn, IdleSends
  <1>6. CASE \E p \in {"Open", "Locked"} : SetPolicy(p)
    <2>1. PICK p \in {"Open", "Locked"} : SetPolicy(p)
      BY <1>6
    <2>. DEFINE event == [type |-> "JoinPolicyChanged", sequence |-> roomSequence + 1,
                          epoch |-> epoch, open |-> p = "Open"]
                close == IF p = "Locked" THEN NonMembers ELSE {}
    <2>2. /\ UNCHANGED <<epoch, nextMemberId, pendingMembership, members>>
          /\ AtRest /\ Running /\ Running'
      BY <2>1 DEF SetPolicy, epochVars, Running, AtRest
    <2>3. outgoing'.send = SendAll(ConnectionsOf(members) \ {HostConnection}, event)
          /\ outgoing'.close = close
      BY <2>1 DEF SetPolicy, Emit
    <2>4. \A c \in close : c \notin DOMAIN connections'
      BY <2>1 DEF SetPolicy, DropNonMembers, Restrict
    <2>5. ~ IsNews(event) /\ ~ IsWrap(event) /\ ~ IsAdmission(event) /\ ~ IsRelay(event)
          /\ event.epoch = epoch
      BY DEF IsNews, IsJoin, IsSnapshot, IsGone, IsWrap, IsAdmission, IsRelay
    <2>. HIDE DEF event, close
    <2>6. ASSUME NEW c \in Conn
          PROVE  Modest(outgoing'.send[c], c)
      <3>1. CASE c \in ConnectionsOf(members) \ {HostConnection}
        <4>1. outgoing'.send[c] = <<event>>
          BY <2>3, <3>1 DEF SendAll
        <4>2. \A i \in DOMAIN outgoing'.send[c] : outgoing'.send[c][i] = event
          BY <4>1
        <4>. QED  BY <2>2, <2>5, <3>1, <4>2 DEF Modest
      <3>2. CASE c \notin ConnectionsOf(members) \ {HostConnection}
        <4>1. outgoing'.send[c] = <<>>
          BY <2>3, <3>2 DEF SendAll
        <4>. QED  BY <4>1 DEF Modest
      <3>. QED  BY <3>1, <3>2
    <2>7. SameMembers
      BY <2>2 DEF SameMembers
    <2>. QED  BY <2>2, <2>3, <2>4, <2>6, <2>7, QuietTurn
  <1>7. CASE CloseRequested
    <2>1. Closes /\ ~ Running' /\ pendingMembership' = pendingMembership
      BY <1>7 DEF CloseRequested, Closes, CloseRoom, Running
    <2>2. Tidy
      BY <2>1, Zenon DEF Tidy
    <2>. QED  BY <2>1, <2>2 DEF Turn
  <1>. QED  BY <1>1, <1>2, <1>3, <1>4, <1>5, <1>6, <1>7, Zenon DEF HostEvent, Admits

\* The deadline, and the tick.
LEMMA TimeTurn ==
    ASSUME KeyInv, EpochTimeout \/ Tick
    PROVE  Turn /\ Tidy
  <1>1. CASE Tick
    BY <1>1, AnswerTurn, IdleSends DEF Tick, Running
  <1>2. CASE EpochTimeout /\ HostId \in pendingEpoch.awaiting
    <2>1. Closes /\ ~ Running' /\ pendingMembership' = pendingMembership
      BY <1>2 DEF EpochTimeout, Expired, Closes, CloseRoom, Running, InTransition
    <2>2. Tidy
      BY <2>1, Zenon DEF Tidy
    <2>. QED  BY <2>1, <2>2 DEF Turn
  <1>3. CASE EpochTimeout /\ HostId \notin pendingEpoch.awaiting
    <2>. DEFINE late == pendingEpoch.awaiting \cap DOMAIN members
    <2>1. /\ InTransition /\ RemoveMembers(late, {}, "MemberLeft")
          /\ outgoing'.close = {members[m].connection : m \in late}
      BY <1>3 DEF EpochTimeout, Expired, Emit
    <2>. HIDE DEF late
    <2>2. Tidy /\ epoch' # epoch
      BY <2>1, RemoveTidy
    <2>. QED  BY <2>1, <2>2 DEF Turn, Nests
  <1>. QED  BY <1>1, <1>2, <1>3

\* Whoever connects.
LEMMA ConnectTurn ==
    ASSUME ClientConnected
    PROVE  Still /\ Tidy /\ \A c \in Conn : outgoing'.send[c] = <<>>
  <1>1. /\ Emit(Silence, {}, {}) /\ Running' = Running
        /\ UNCHANGED <<epoch, nextMemberId, pendingMembership, members>>
    BY DEF ClientConnected, epochVars, Running
  <1>2. SameMembers /\ \A c \in Conn : outgoing'.send[c] = <<>> /\ Idle(outgoing'.send[c])
    BY <1>1, IdleSends DEF SameMembers, Emit, Silence
  <1>3. \A c \in Conn : Modest(outgoing'.send[c], c)
    BY <1>2, IdleIsModest
  <1>4. outgoing'.close = {}
    BY <1>1 DEF Emit
  <1>. QED  BY <1>1, <1>2, <1>3, <1>4 DEF Still, Tidy

\* Acknowledgements: the last one releases what was held back.
LEMMA AckTurn ==
    ASSUME KeyInv, NEW c, NEW e, EpochAck(c, e)
    PROVE  Turn /\ Tidy
  <1>. DEFINE left == pendingEpoch.awaiting \ RegisteredMember(c)
  <1>1. /\ UNCHANGED <<epoch, nextMemberId, members>> /\ Running
    BY DEF EpochAck, InTransition, Running
  <1>2. CASE left # {}
    <2>1. Emit(Silence, {}, {}) /\ UNCHANGED <<state, pendingMembership>>
      BY <1>2 DEF EpochAck
    <2>. QED  BY <1>1, <2>1, AnswerTurn, IdleSends DEF Running
  <1>3. CASE left = {}
    <2>1. /\ state' = RestState /\ pendingMembership' = Silence
          /\ Emit(pendingMembership, {}, Rebroadcast)
      BY <1>3 DEF EpochAck
    <2>2. AtRest' /\ outgoing'.send = pendingMembership /\ outgoing'.close = {}
      BY <2>1 DEF RestState, AtRest, Emit
    <2>3. \A d \in Conn : pendingMembership'[d] = <<>>
      BY <2>1 DEF Silence
    <2>4. Tidy
      BY <2>2, <2>3 DEF Tidy
    <2>. QED  BY <1>1, <2>1, <2>2, <2>4 DEF Releases, Turn
  <1>. QED  BY <1>2, <1>3

\* A relay goes to members, and names one.
LEMMA RelayTurn ==
    ASSUME KeyInv, NEW c, NEW env, ChatRelayed(c, env)
    PROVE  Turn /\ Tidy
  <1>1. /\ UNCHANGED <<epoch, nextMemberId, pendingMembership, state>> /\ Running
        /\ outgoing'.send = SendAll(Recipients(c), Relay(env)) /\ outgoing'.close = {}
        /\ env.sender \in DOMAIN members
    BY DEF ChatRelayed, Emit, Sender, ChatAllowed
  <1>2. \A m \in DOMAIN members : members[m] \in MemberRecord
    BY DEF KeyInv, TablesInv, TypeOK, IsMap
  <1>3. SameMembers
    BY <1>1, <1>2 DEF ChatRelayed, SameMembers, MemberRecord
  <1>4. ~ IsNews(Relay(env)) /\ ~ IsWrap(Relay(env)) /\ ~ IsAdmission(Relay(env))
        /\ ~ IsEvent(Relay(env)) /\ Relay(env).envelope = env
    BY DEF Relay, IsNews, IsJoin, IsSnapshot, IsGone, IsWrap, IsAdmission, IsEvent, EventTypes
  <1>5. ASSUME NEW d \in Conn
        PROVE  Modest(outgoing'.send[d], d)
    <2>1. CASE d \in Recipients(c)
      <3>1. outgoing'.send[d] = <<Relay(env)>>
        BY <1>1, <2>1 DEF SendAll
      <3>2. \A i \in DOMAIN outgoing'.send[d] : outgoing'.send[d][i] = Relay(env)
        BY <3>1
      <3>. QED  BY <1>1, <1>4, <2>1, <3>2 DEF Modest, Recipients
    <2>2. CASE d \notin Recipients(c)
      <3>1. outgoing'.send[d] = <<>>
        BY <1>1, <2>2 DEF SendAll
      <3>. QED  BY <3>1 DEF Modest
    <2>. QED  BY <2>1, <2>2
  <1>. QED  BY <1>1, <1>3, <1>5, QuietTurn DEF Running

\* A member is removed, and the others get the wraps of the epoch that begins.
LEMMA RemovalTurn ==
    ASSUME KeyInv, TypeOK', Running, NEW m \in DOMAIN members,
           NEW type \in {"MemberLeft", "MemberKicked"}, NEW lost,
           NEW a \in [Conn -> Seq(Message)], \A d \in Conn : Idle(a[d]), NEW close,
           RemoveMembers({m}, lost, type), UNCHANGED nextMemberId,
           Emit(Then(a, WrapsWithout({m})), close, {}),
           \A d \in close : d \in lost \cup {members[m].connection},
           members[m].connection \in close \/ ~ Live(members[m].connection)
    PROVE  Turn /\ Tidy
  <1>1. CASE AtRest
    BY <1>1, PartTurn
  <1>2. CASE InTransition
    <2>1. \A d \in outgoing'.close : d \in lost \cup {members[x].connection : x \in {m}}
      BY DEF Emit
    <2>2. Tidy /\ epoch' # epoch
      BY <2>1, RemoveTidy
    <2>. QED  BY <1>2, <2>2 DEF Turn, Nests
  <1>3. AtRest \/ InTransition
    BY DEF KeyInv, TablesInv, TypeOK, AtRest, InTransition, Running
  <1>. QED  BY <1>1, <1>2, <1>3

\* Somebody who goes on beyond its limit is removed.
LEMMA AbusiveTurn ==
    ASSUME KeyInv, TypeOK', NEW c \in Conn, NEW env, ChatAbusive(c, env)
    PROVE  Turn /\ Tidy
  <1>1. PICK a \in [Conn -> Seq(Message)] : a = SendTo(c, Error("RateLimited"))
    BY SendTypes, MessageTypes
  <1>2. PICK m \in DOMAIN members : m = env.sender
    BY DEF ChatAbusive, Sender
  <1>3. PICK close, lost : close = {c} /\ lost = {}
    OBVIOUS
  <1>4. /\ RegisteredMember(c) = {m} /\ Running
        /\ RemoveMembers({m}, lost, "MemberKicked") /\ UNCHANGED nextMemberId
        /\ Emit(Then(a, WrapsWithout({m})), close, {})
    BY <1>1, <1>2, <1>3 DEF ChatAbusive, Sender, ChatAllowed
  <1>5. members[m].connection = c
    <2>1. c \in DOMAIN connections /\ connections[c].role = "Member" /\ connections[c].id = m
      BY <1>4 DEF RegisteredMember, HasRole
    <2>. QED  BY <2>1 DEF KeyInv, TablesInv, TableFacts, Agree
  <1>6. \A d \in Conn : Idle(a[d])
    <2>1. \A d \in Conn : Idle(SendTo(c, Error("RateLimited"))[d])
      BY IdleSends, IdleMessages
    <2>. QED  BY <1>1, <2>1
  <1>7. \A d \in close : d \in lost \cup {members[m].connection}
    BY <1>3, <1>5
  <1>8. members[m].connection \in close \/ ~ Live(members[m].connection)
    BY <1>3, <1>5
  <1>. HIDE DEF Then
  <1>. QED  BY <1>4, <1>6, <1>7, <1>8, RemovalTurn

\* A message of a member, relayed or refused.
LEMMA ChatTurn ==
    ASSUME KeyInv, TypeOK', NEW c \in Conn, NEW env,
           \/ ChatDuringTransition(c) \/ ChatUnauthorised(c, env) \/ ChatRateLimited(c, env)
           \/ ChatAbusive(c, env) \/ ChatRefused(c, env) \/ ChatRelayed(c, env)
           \/ TimeoutRequested(c, env)
    PROVE  Turn /\ Tidy
  <1>1. CASE ChatDuringTransition(c)
    <2>. DEFINE send == IF c = HostConnection THEN Silence ELSE SendTo(c, Error("RateLimited"))
    <2>1. /\ Emit(send, {}, {}) /\ Running' = Running
          /\ UNCHANGED <<epoch, nextMemberId, pendingMembership, members>>
      BY <1>1 DEF ChatDuringTransition, epochVars, Running
    <2>2. \A d \in Conn : Idle(send[d])
      BY IdleSends, IdleMessages
    <2>. QED  BY <2>1, <2>2, AnswerTurn
  <1>2. CASE ChatUnauthorised(c, env)
    BY <1>2, PunishTurn DEF ChatUnauthorised, ChatAllowed
  <1>3. CASE ChatRateLimited(c, env)
    <2>. DEFINE send == IF Abusive(env.sender) THEN Silence ELSE SendTo(c, Error("RateLimited"))
    <2>1. /\ Emit(send, {}, {}) /\ Running' = Running
          /\ UNCHANGED <<epoch, nextMemberId, pendingMembership, members>>
      BY <1>3 DEF ChatRateLimited, epochVars, Running
    <2>2. \A d \in Conn : Idle(send[d])
      BY IdleSends, IdleMessages
    <2>. QED  BY <2>1, <2>2, AnswerTurn
  <1>4. CASE ChatAbusive(c, env)
    BY <1>4, AbusiveTurn
  <1>5. CASE ChatRefused(c, env) /\ c # HostConnection
    BY <1>5, PunishTurn DEF ChatRefused, Sender, ChatAllowed
  <1>6. CASE ChatRefused(c, env) /\ c = HostConnection
    <2>1. /\ Emit(Silence, {}, {}) /\ Running' = Running
          /\ UNCHANGED <<epoch, nextMemberId, pendingMembership, members>>
      BY <1>6 DEF ChatRefused, epochVars, Running
    <2>. QED  BY <2>1, AnswerTurn, IdleSends
  <1>7. CASE ChatRelayed(c, env)
    BY <1>7, RelayTurn
  <1>8. CASE TimeoutRequested(c, env)
    <2>1. /\ Emit(Silence, {}, {}) /\ Running' = Running
          /\ UNCHANGED <<epoch, nextMemberId, pendingMembership, members>>
      BY <1>8 DEF TimeoutRequested, Running
    <2>. QED  BY <2>1, AnswerTurn, IdleSends
  <1>. QED  BY <1>1, <1>2, <1>3, <1>4, <1>5, <1>6, <1>7, <1>8

\* Whatever the message is; a loss is reported by a connection that is gone.
LEMMA HandleTurn ==
    ASSUME KeyInv, TypeOK', NEW c \in Conn, NEW msg \in Upward, Handle(c, msg),
           IsLoss(msg) => ~ Live(c)
    PROVE  Turn /\ Tidy
  <1>1. CASE NoEffect
    BY <1>1, NoEffectTurn
  <1>2. CASE PasswordVerified(c)
    BY <1>2, AnswerTurn, IdleSends DEF PasswordVerified, epochVars, Running
  <1>3. CASE IsLoss(msg) /\ ConnectionLost(c)
    <2>1. LoseConnection(c, Silence, {}) /\ Running /\ Silence \in [Conn -> Seq(Message)]
          /\ \A d \in Conn : Idle(Silence[d])
      BY <1>3, SendTypes, IdleSends DEF ConnectionLost
    <2>. QED  BY <1>3, <2>1, LoseTurn
  <1>4. CASE RoomClosed(c)
    <2>. DEFINE send == SendTo(c, Error("RoomClosed"))
    <2>1. /\ Emit(send, {c}, {}) /\ Running' = Running /\ ~ Running'
          /\ UNCHANGED <<epoch, nextMemberId, pendingMembership, members>>
      BY <1>4 DEF RoomClosed, epochVars, Running
    <2>2. \A d \in Conn : Idle(send[d])
      BY IdleSends, IdleMessages
    <2>. QED  BY <2>1, <2>2, AnswerTurn
  <1>5. CASE JoinRequested(c, msg.application)
    <2>1. /\ Emit(Silence, {}, {}) /\ Running' = Running
          /\ UNCHANGED <<epoch, nextMemberId, pendingMembership, members>>
      BY <1>5 DEF JoinRequested, epochVars, Running
    <2>. QED  BY <2>1, AnswerTurn, IdleSends
  <1>6. CASE JoinRefused(c)
    <2>1. Running /\ Punish(c, JoinRefusal(c)) /\ JoinRefusal(c) \in {"RoomLocked", "ProtocolViolation"}
      BY <1>6 DEF JoinRefused, AtRest, Running, JoinRefusal
    <2>. QED  BY <2>1, PunishTurn
  <1>7. CASE EpochAck(c, msg.epoch)
    BY <1>7, AckTurn
  <1>8. CASE \/ ChatDuringTransition(c) \/ ChatUnauthorised(c, msg.envelope)
             \/ ChatRateLimited(c, msg.envelope) \/ ChatAbusive(c, msg.envelope)
             \/ ChatRefused(c, msg.envelope) \/ ChatRelayed(c, msg.envelope)
             \/ TimeoutRequested(c, msg.envelope)
    BY <1>8, ChatTurn
  <1>9. \/ NoEffect \/ PasswordVerified(c) \/ RoomClosed(c) \/ (IsLoss(msg) /\ ConnectionLost(c))
        \/ JoinRequested(c, msg.application) \/ JoinRefused(c) \/ EpochAck(c, msg.epoch)
        \/ \/ ChatDuringTransition(c) \/ ChatUnauthorised(c, msg.envelope)
           \/ ChatRateLimited(c, msg.envelope) \/ ChatAbusive(c, msg.envelope)
           \/ ChatRefused(c, msg.envelope) \/ ChatRelayed(c, msg.envelope)
           \/ TimeoutRequested(c, msg.envelope)
    BY Zenon DEF Handle, PasswordIgnored, DroppedInTransition, EpochAckIgnored, EventAfterClose, IsLoss
  <1>. QED  BY <1>1, <1>2, <1>3, <1>4, <1>5, <1>6, <1>7, <1>8, <1>9

-----------------------------------------------------------------------------
(* What a step of the actor leaves on the links *)

\* A participant that is still there after a step of the actor was there before,
\* and has on its way what was there, the batch and perhaps a notice.
LEMMA Delivered ==
    ASSUME PathInv, Batches, TypeOK', NEW fresh, Transmit(fresh), NEW c \in Conn,
           fresh[c] = session[c], Live(c)'
    PROVE  /\ Live(c) /\ c \notin outgoing'.close /\ session'[c] = session[c]
           /\ down[c] \in Seq(Downward) /\ outgoing'.send[c] \in Seq(Downward)
           /\ \E n \in Seq(Downward) : Idle(n) /\ down'[c] = (down[c] \o outgoing'.send[c]) \o n
  <1>1. /\ session'[c] = IF c \in outgoing'.close /\ Live(c) THEN ClosedSession ELSE session[c]
        /\ down'[c] = IF c \in outgoing'.close \/ ~ Live(c) THEN <<>>
                      ELSE down[c] \o outgoing'.send[c] \o NoticesTo(c)
    BY DEF Transmit
  <1>2. ClosedSession.status = "closed"
    BY EmptySessions
  <1>3. Live(c) /\ c \notin outgoing'.close /\ session'[c] = session[c]
    BY <1>1, <1>2 DEF Live
  <1>4. /\ down[c] \in Seq(Downward) /\ outgoing'.send[c] \in Seq(Downward)
        /\ NoticesTo(c) \in Seq(Downward)
    BY SessionTypes, HandedDown
  <1>5. Idle(NoticesTo(c))
    <2>1. CASE TimeoutNotices # {} /\ c = HostConnection
      <3>1. PICK n \in TimeoutNotices : NoticesTo(c) = <<n>>
        BY <2>1 DEF NoticesTo
      <3>2. ~ IsEvent(n) /\ ~ IsRelay(n) /\ ~ IsWrap(n) /\ ~ IsAdmission(n)
        BY DEF TimeoutNotices, IsEvent, IsRelay, IsWrap, IsAdmission, EventTypes
      <3>. QED  BY <3>1, <3>2 DEF Idle
    <2>2. CASE ~ (TimeoutNotices # {} /\ c = HostConnection)
      <3>1. NoticesTo(c) = <<>>
        BY <2>2 DEF NoticesTo
      <3>. QED  BY <3>1, IdleMessages
    <2>. QED  BY <2>1, <2>2
  <1>6. PICK n \in Seq(Downward) : n = NoticesTo(c)
    BY <1>4
  <1>7. down'[c] = (down[c] \o outgoing'.send[c]) \o n
    BY <1>1, <1>3, <1>6
  <1>. QED  BY <1>3, <1>4, <1>5, <1>6, <1>7

\* A connection is dropped from one link: either it is the actor that hung up, or
\* it had been over before.
LEMMA HungUp ==
    ASSUME NEW fresh, Transmit(fresh), NEW c \in Conn, fresh[c] = session[c]
    PROVE  /\ Live(c) /\ ~ Live(c)' => c \in outgoing'.close
           /\ Live(c)' => Live(c) /\ session'[c] = session[c]
  <1>1. session'[c] = IF c \in outgoing'.close /\ Live(c) THEN ClosedSession ELSE session[c]
    BY DEF Transmit
  <1>2. ClosedSession.status = "closed"
    BY EmptySessions
  <1>. QED  BY <1>1, <1>2 DEF Live

\* What is known of a connection's messages after a step that took the first of
\* them, or none: a loss is forgotten with the connection.
LEMMA ReportedStep ==
    ASSUME PathInv, NEW c \in Conn, Reported(c), Tidy,
           Running' /\ c \in DOMAIN connections' => Running /\ c \in DOMAIN connections,
           Live(c) /\ ~ Live(c)' => c \in outgoing'.close,
           Live(c)' => Live(c) /\ session'[c] = session[c],
           \/ up'[c] = up[c]
           \/ /\ up[c] # <<>> /\ up'[c] = Tail(up[c])
              /\ IsLoss(up[c][1]) /\ Running' => c \notin DOMAIN connections'
    PROVE  Reported(c)'
  <1>1. up[c] \in Seq(Upward)
    BY SessionTypes
  <1>2. ASSUME Running', c \in DOMAIN connections', ~ Live(c)'
        PROVE  \E i \in DOMAIN up'[c] : IsLoss(up'[c][i])
    <2>1. ~ Live(c)
      BY <1>2 DEF Tidy
    <2>2. PICK i \in DOMAIN up[c] : IsLoss(up[c][i])
      BY <1>2, <2>1 DEF Reported
    <2>3. CASE up'[c] = Tail(up[c]) /\ up[c] # <<>>
      <3>1. i = 1 \/ (i - 1 \in DOMAIN Tail(up[c]) /\ Tail(up[c])[i - 1] = up[c][i])
        BY <1>1, <2>3, Rest
      <3>2. i # 1 \/ up'[c] = up[c]
        BY <1>2, <2>2
      <3>. QED  BY <2>2, <2>3, <3>1, <3>2
    <2>. QED  BY <2>2, <2>3
  <1>3. \A i \in DOMAIN up'[c] : \E j \in DOMAIN up[c] : up'[c][i] = up[c][j]
    <2>1. CASE up'[c] = Tail(up[c]) /\ up[c] # <<>>
      BY <1>1, <2>1, Rest
    <2>. QED  BY <2>1
  <1>4. ASSUME Live(c)', NEW i \in DOMAIN up'[c]
        PROVE  /\ ~ IsLoss(up'[c][i])
               /\ up'[c][i].type = "EpochAck" => up'[c][i].epoch <= session'[c].epoch
    <2>1. PICK j \in DOMAIN up[c] : up'[c][i] = up[c][j]
      BY <1>3
    <2>2. Live(c) /\ session'[c] = session[c]
      BY <1>4
    <2>. QED  BY <2>1, <2>2 DEF Reported
  <1>. QED  BY <1>2, <1>4 DEF Reported

\* A member's key is the room's once it is awaited no more: it was so before, or
\* it is what the acknowledgement just handled says.
LEMMA SettledStep ==
    ASSUME PathInv, KeyInv', NEW c \in Conn, Reported(c), Settled,
           Live(c)' => Live(c) /\ session'[c] = session[c],
           \/ PassesBy(c)
           \/ \E msg : up[c] # <<>> /\ msg = up[c][1] /\ Moves(c, msg)
           \/ pendingEpoch'.awaiting = DOMAIN members',
           NEW m \in Residents(c)', m \notin pendingEpoch'.awaiting, Live(c)'
    PROVE  session'[c].epoch = epoch'
  <1>1. /\ m \in DOMAIN members' /\ Running' /\ members'[m].connection = c
        /\ c \in DOMAIN connections' /\ connections'[c].role = "Member" /\ connections'[c].id = m
    BY DEF Residents, KeyInv, TablesInv, TableFacts, Agree
  <1>2. ASSUME KeepsRole(c), Running
        PROVE  HasRole(c, "Member") /\ m = connections[c].id /\ m \in Residents(c)
    BY <1>1, <1>2 DEF KeepsRole, HasRole, Residents, KeyInv, PathInv, TablesInv, TableFacts, Agree
  <1>3. CASE PassesBy(c)
    <2>1. Running /\ KeepsRole(c) /\ (BeginsEpoch \/ KeepsEpoch(c))
      BY <1>1, <1>3 DEF PassesBy
    <2>2. HasRole(c, "Member") /\ m = connections[c].id /\ m \in Residents(c)
      BY <1>2, <2>1
    <2>3. ~ BeginsEpoch
      BY <1>1 DEF BeginsEpoch
    <2>4. epoch' = epoch /\ m \notin pendingEpoch.awaiting
      BY <2>1, <2>2, <2>3 DEF KeepsEpoch, KeepsStanding
    <2>. QED  BY <2>2, <2>4 DEF Settled
  <1>4. CASE \E msg : up[c] # <<>> /\ msg = up[c][1] /\ Moves(c, msg)
    <2>1. PICK msg : up[c] # <<>> /\ msg = up[c][1] /\ Moves(c, msg)
      BY <1>4
    <2>2. ~ Applies(c, msg)
      BY <1>1 DEF Applies
    <2>3. CASE Acknowledges(c, msg)
      <3>1. 1 \in DOMAIN up[c] /\ up[c][1].type = "EpochAck" /\ up[c][1].epoch = epoch /\ epoch' = epoch
        BY <2>1, <2>3, SessionTypes, Rest DEF Acknowledges, IsAck
      <3>2. epoch <= session[c].epoch
        BY <3>1 DEF Reported
      <3>3. session[c].epoch <= epoch /\ session[c].epoch \in Nat /\ epoch \in Nat
        BY SessionTypes DEF PathInv, Path, OnCourse
      <3>. QED  BY <3>1, <3>2, <3>3
    <2>4. CASE Speaks(c, msg)
      <3>1. m \in Residents(c) /\ epoch' = epoch /\ pendingEpoch' = pendingEpoch
        BY <1>2, <2>1, <2>4 DEF Speaks, Moves
      <3>. QED  BY <3>1 DEF Settled
    <2>. QED  BY <2>1, <2>2, <2>3, <2>4 DEF Moves
  <1>5. CASE pendingEpoch'.awaiting = DOMAIN members'
    BY <1>1, <1>5
  <1>. QED  BY <1>3, <1>4, <1>5
-----------------------------------------------------------------------------
(* What each kind of step makes of one connection *)

\* What the tables say of one connection.
Knows(c) ==
    Live(c) =>
        /\ \A m \in Residents(c) : Informed(c, m)
        /\ Residents(c) = {} => Uninformed(c)

\* A notice behind the batch says nothing of who is there.
LEMMA HandedMember ==
    ASSUME NEW c, NEW q \in Seq(Downward), NEW a \in Seq(Downward), NEW n \in Seq(Downward), Idle(n),
           down'[c] = (q \o a) \o n, NEW h \in Seq(Downward), pendingMembership'[c] = h, NEW m,
           Aware(q \o a, h, session'[c], Roster', nextMemberId', epoch', m)
    PROVE  Informed(c, m)'
  <1>1. PICK p \in Seq(Downward) : p = q \o a
    BY Concat
  <1>2. PICK s, R, x, e : s = session'[c] /\ R = Roster' /\ x = nextMemberId' /\ e = epoch'
    OBVIOUS
  <1>3. Newsless(n) /\ Keyless(n) /\ Unadmitted(n)
    BY IdleIsModest
  <1>4. /\ \A i \in DOMAIN n : IsEvent(n[i]) => Keyless(p) /\ n[i].epoch = s.epoch /\ s.epoch # NoKey
        /\ \A i \in DOMAIN n : IsRelay(n[i]) => \E r \in R : r.id = n[i].envelope.sender
    BY DEF Idle
  <1>5. Aware(p, h, s, R, x, e, m)
    BY <1>1, <1>2
  <1>6. Aware(p \o n, h, s, R, x, e, m)
    BY <1>3, <1>4, <1>5, AwareOn
  <1>. QED  BY <1>1, <1>2, <1>6 DEF Informed

\* The same of somebody who is no member, and is answered at most.
LEMMA HandedStranger ==
    ASSUME NEW c, NEW q \in Seq(Downward), NEW a \in Seq(Downward), NEW n \in Seq(Downward), Idle(n),
           Idle(a), down'[c] = (q \o a) \o n, pendingMembership'[c] = <<>>,
           session'[c] = session[c], q = down[c], Uninformed(c)
    PROVE  Uninformed(c)'
  <1>1. Idle(q) /\ session[c].table = {} /\ session[c].epoch = NoKey
    BY DEF Uninformed, Unaware
  <1>2. PICK p \in Seq(Downward) : p = q \o a
    BY Concat
  <1>3. Idle(p)
    BY <1>1, <1>2, IdleMore
  <1>4. Idle(p \o n)
    BY <1>3, IdleMore
  <1>. QED  BY <1>1, <1>2, <1>4 DEF Uninformed, Unaware

\* Nothing newer than the key of the room is on its way to who has that key.
LEMMA KeyInstalled ==
    ASSUME PathInv, NEW c \in Conn, session[c].epoch = epoch
    PROVE  Keyless(down[c]) /\ epoch # NoKey
  <1>1. WrapsWithin(down[c], epoch, epoch)
    BY DEF PathInv, Path, OnCourse
  <1>2. \A i \in DOMAIN down[c] : IsWrap(down[c][i]) => down[c][i].epoch \in Nat
    BY SessionTypes, DownwardSeq
  <1>3. epoch \in Nat /\ epoch # 0
    BY KeyTypes DEF PathInv
  <1>. QED  BY <1>1, <1>2, <1>3 DEF WrapsWithin, Keyless, NoKey

\* Nobody is awaited at rest.
LEMMA NobodyAwaited ==
    ASSUME KeyInv, AtRest
    PROVE  pendingEpoch.awaiting = {}
  BY DEF KeyInv, KeyFacts, TransitionShape, NoPending

\* The same people are in the room.
LEMMA SameRoster ==
    ASSUME SameMembers
    PROVE  Roster' = Roster
  <1>1. \A m \in DOMAIN members : Person(ViewOf(m, members'[m])) = Person(ViewOf(m, members[m]))
    BY DEF SameMembers, Person, ViewOf
  <1>2. Roster' = {Person(ViewOf(m, members'[m])) : m \in DOMAIN members'}
    BY DEF Roster, Person, ViewOf
  <1>3. \A p : p \in Roster' <=> p \in Roster
    BY <1>1, <1>2 DEF SameMembers, Roster
  <1>. QED  BY <1>3

\* A step that leaves everybody where they are.
LEMMA StillKnows ==
    ASSUME PathInv, PathInv', Batches, Settled, Still, NEW fresh, Transmit(fresh), NEW c \in Conn,
           fresh[c] = session[c], Knows(c)
    PROVE  Knows(c)'
  <1>. SUFFICES ASSUME Live(c)'
                PROVE  /\ \A m \in Residents(c)' : Informed(c, m)'
                       /\ Residents(c)' = {} => Uninformed(c)'
    BY DEF Knows
  <1>1. TypeOK'
    BY DEF PathInv, KeyInv, TablesInv
  <1>2. /\ Live(c) /\ session'[c] = session[c] /\ down[c] \in Seq(Downward)
        /\ outgoing'.send[c] \in Seq(Downward)
    BY <1>1, Delivered
  <1>3. PICK n \in Seq(Downward) : Idle(n) /\ down'[c] = (down[c] \o outgoing'.send[c]) \o n
    BY <1>1, Delivered
  <1>4. PICK q, a, h \in Seq(Downward) : q = down[c] /\ a = outgoing'.send[c] /\ h = pendingMembership[c]
    BY <1>2, SessionTypes
  <1>5. /\ pendingMembership'[c] = h /\ nextMemberId' = nextMemberId /\ epoch' = epoch
        /\ Roster' = Roster /\ Residents(c)' = Residents(c) /\ Running' = Running /\ Modest(a, c)
    <2>1. \A m : m \in Residents(c)' <=> m \in Residents(c)
      BY DEF Still, SameMembers, Residents
    <2>. QED  BY <1>4, <2>1, SameRoster DEF Still
  <1>6. ASSUME NEW m \in Residents(c)'
        PROVE  Informed(c, m)'
    <2>1. PICK s, R, x, e : s = session[c] /\ R = Roster /\ x = nextMemberId /\ e = epoch
      OBVIOUS
    <2>2. Aware(q, h, s, R, x, e, m)
      BY <1>2, <1>4, <1>5, <1>6, <2>1 DEF Knows, Informed
    <2>3. Newsless(a) /\ Keyless(a) /\ Unadmitted(a)
      BY <1>5 DEF Modest, Newsless, Keyless, Unadmitted
    <2>4. ASSUME NEW i \in DOMAIN a, IsEvent(a[i])
          PROVE  Keyless(q) /\ a[i].epoch = s.epoch /\ s.epoch # NoKey
      <3>1. AtRest /\ a[i].epoch = epoch
        BY <1>5, <2>4 DEF Modest
      <3>2. s.epoch = epoch
        BY <1>2, <1>5, <1>6, <2>1, <3>1, NobodyAwaited DEF Settled, PathInv
      <3>. QED  BY <1>4, <2>1, <3>1, <3>2, KeyInstalled
    <2>5. ASSUME NEW i \in DOMAIN a, IsRelay(a[i])
          PROVE  \E p \in R : p.id = a[i].envelope.sender
      <3>1. a[i].envelope.sender \in DOMAIN members
        BY <1>5, <2>5 DEF Modest
      <3>2. Person(ViewOf(a[i].envelope.sender, members[a[i].envelope.sender])) \in R
        BY <2>1, <3>1 DEF Roster
      <3>. QED  BY <3>2 DEF Person, ViewOf
    <2>6. Aware(q \o a, h, s, R, x, e, m)
      BY <2>2, <2>3, <2>4, <2>5, AwareOn
    <2>. QED  BY <1>2, <1>3, <1>4, <1>5, <2>1, <2>6, HandedMember
  <1>7. ASSUME Residents(c)' = {}
        PROVE  Uninformed(c)'
    <2>1. Uninformed(c) /\ pendingMembership[c] = <<>>
      BY <1>2, <1>5, <1>7 DEF Knows, Uninformed, Unaware
    <2>2. ~ Running \/ c \notin ConnectionsOf(members)
      BY <1>5, <1>7 DEF Residents, ConnectionsOf
    <2>3. Idle(a)
      BY <1>5, <2>2, Sorts DEF Modest, Idle, AtRest, Running
    <2>. QED  BY <1>2, <1>3, <1>4, <1>5, <2>1, <2>3, HandedStranger
  <1>. QED  BY <1>6, <1>7
\* The last acknowledgement: what was held back is on its way, under the key that
\* all have.
LEMMA ReleaseKnows ==
    ASSUME PathInv, PathInv', Batches, Settled', Releases, NEW fresh, Transmit(fresh), NEW c \in Conn,
           fresh[c] = session[c], Knows(c)
    PROVE  Knows(c)'
  <1>. SUFFICES ASSUME Live(c)'
                PROVE  /\ \A m \in Residents(c)' : Informed(c, m)'
                       /\ Residents(c)' = {} => Uninformed(c)'
    BY DEF Knows
  <1>1. TypeOK'
    BY DEF PathInv, KeyInv, TablesInv
  <1>2. /\ Live(c) /\ session'[c] = session[c] /\ down[c] \in Seq(Downward)
        /\ outgoing'.send[c] \in Seq(Downward)
    BY <1>1, Delivered
  <1>3. PICK n \in Seq(Downward) : Idle(n) /\ down'[c] = (down[c] \o outgoing'.send[c]) \o n
    BY <1>1, Delivered
  <1>4. PICK q, h \in Seq(Downward) : q = down[c] /\ h = pendingMembership[c]
    BY <1>2, SessionTypes
  <1>5. /\ pendingMembership'[c] = <<>> /\ outgoing'.send[c] = h
        /\ nextMemberId' = nextMemberId /\ epoch' = epoch
        /\ Roster' = Roster /\ Residents(c)' = Residents(c)
    <2>1. \A m : m \in Residents(c)' <=> m \in Residents(c)
      BY DEF Releases, Residents, AtRest, Running
    <2>. QED  BY <1>4, <2>1 DEF Releases, Roster, Silence
  <1>6. ASSUME NEW m \in Residents(c)'
        PROVE  Informed(c, m)'
    <2>1. PICK s, R, x, e : s = session[c] /\ R = Roster /\ x = nextMemberId /\ e = epoch
      OBVIOUS
    <2>2. Aware(q, h, s, R, x, e, m)
      BY <1>2, <1>4, <1>5, <1>6, <2>1 DEF Knows, Informed
    <2>3. s.epoch = e
      <3>1. m \notin pendingEpoch'.awaiting
        BY DEF Releases, PathInv, KeyInv, KeyFacts, TransitionShape, NoPending
      <3>. QED  BY <1>2, <1>5, <1>6, <2>1, <3>1 DEF Settled
    <2>4. Keyless(q) /\ e # NoKey
      BY <1>4, <2>1, <2>3, KeyInstalled
    <2>5. \A i \in DOMAIN h : IsEvent(h[i])
      BY <1>4, SessionTypes, EventSeq
    <2>6. Aware(q \o h, <<>>, s, R, x, e, m)
      BY <2>2, <2>3, <2>4, <2>5, AwareReleased
    <2>7. <<>> \in Seq(Downward)
      OBVIOUS
    <2>. QED  BY <1>2, <1>3, <1>4, <1>5, <2>1, <2>6, <2>7, HandedMember
  <1>7. ASSUME Residents(c)' = {}
        PROVE  Uninformed(c)'
    <2>1. Uninformed(c) /\ h = <<>>
      BY <1>2, <1>4, <1>5, <1>7 DEF Knows, Uninformed, Unaware
    <2>2. Idle(h)
      BY <2>1, IdleMessages
    <2>. QED  BY <1>2, <1>3, <1>4, <1>5, <2>1, <2>2, HandedStranger
  <1>. QED  BY <1>6, <1>7

\* The departure event of one member.
LEMMA GoneOne ==
    ASSUME NEW m \in Nat, NEW gone, gone = {m}, NEW type \in {"MemberLeft", "MemberKicked"},
           NEW s \in Nat, NEW e \in Nat,
           NEW g, g = [type |-> type, sequence |-> s + 1, epoch |-> e, id |-> m]
    PROVE  /\ GoneEvents(gone, type, s, e) = <<g>>
           /\ g \in News /\ IsGone(g) /\ g.id = m /\ g.sequence = s + 1 /\ g.epoch = e
  <1>1. Cardinality(gone) = 1
    BY FS_Singleton
  <1>2. Nth(gone, 1) = m
    <2>1. Nth(gone, 1) \in gone
      BY <1>1, NthInSet
    <2>. QED  BY <2>1
  <1>3. GoneEvents(gone, type, s, e) = <<g>>
    <2>1. GoneEvents(gone, type, s, e) = [i \in 1..1 |-> [type |-> type, sequence |-> s + i,
                                                         epoch |-> e, id |-> Nth(gone, i)]]
      BY <1>1 DEF GoneEvents
    <2>2. \A i \in 1..1 : [type |-> type, sequence |-> s + i, epoch |-> e, id |-> Nth(gone, i)] = g
      BY <1>2
    <2>3. GoneEvents(gone, type, s, e) = [i \in 1..1 |-> g]
      BY <2>1, <2>2
    <2>. QED  BY <2>3
  <1>4. g \in News /\ IsGone(g)
    BY DEF News, IsNews, IsGone, RoomEvent
  <1>. QED  BY <1>3, <1>4

\* Who is in the room when one member has gone.
LEMMA RosterWithout ==
    ASSUME NEW m, members' = Restrict(members, DOMAIN members \ {m})
    PROVE  Roster' = {p \in Roster : p.id # m}
  <1>1. Roster' = {Person(ViewOf(x, members'[x])) : x \in DOMAIN members'}
    BY DEF Roster, Person, ViewOf
  <1>2. \A x \in DOMAIN members : Person(ViewOf(x, members[x])).id = x
    BY DEF Person, ViewOf
  <1>3. \A p : p \in Roster' <=> p \in Roster /\ p.id # m
    BY <1>1, <1>2 DEF Roster, Restrict
  <1>. QED  BY <1>3
\* What is on its way was told before now.
LEMMA ToldBefore ==
    ASSUME PathInv, NEW c \in Conn
    PROVE  /\ \A ev \in Told(down[c], <<>>) : ev.sequence \in Nat /\ ev.sequence <= roomSequence
           /\ \A i \in DOMAIN down[c] : IsRelay(down[c][i]) =>
                 down[c][i].envelope.epoch \in Nat /\ down[c][i].envelope.epoch <= epoch
  <1>1. /\ EventsWithin(down[c], session[c].lastRoomSequence, roomSequence)
        /\ WrapsWithin(down[c], session[c].epoch, epoch) /\ RelaysReadable(down[c], session[c].epoch)
        /\ session[c].epoch <= epoch /\ down[c] \in Seq(Downward)
    BY SessionTypes DEF PathInv, Path, OnCourse
  <1>2. ASSUME NEW ev \in Told(down[c], <<>>)
        PROVE  ev.sequence \in Nat /\ ev.sequence <= roomSequence
    <2>1. PICK i \in DOMAIN down[c] : ev = down[c][i] /\ IsNews(ev)
      BY DEF Told, Range
    <2>2. IsEvent(ev)
      BY <2>1, Sorts
    <2>. QED  BY <1>1, <2>1, <2>2, DownwardSeq DEF EventsWithin
  <1>3. ASSUME NEW i \in DOMAIN down[c], IsRelay(down[c][i])
        PROVE  down[c][i].envelope.epoch \in Nat /\ down[c][i].envelope.epoch <= epoch
    <2>1. down[c][i].envelope.epoch \in Nat /\ i \in Nat /\ \A j \in 1..(i - 1) : j \in DOMAIN down[c]
      BY <1>1, <1>3, DownwardSeq
    <2>2. \/ down[c][i].envelope.epoch = session[c].epoch
          \/ \E j \in 1..(i - 1) : IsWrap(down[c][j]) /\ down[c][j].epoch = down[c][i].envelope.epoch
      BY <1>1, <1>3 DEF RelaysReadable
    <2>. QED  BY <1>1, <2>1, <2>2 DEF WrapsWithin
  <1>. QED  BY <1>2, <1>3

\* What is held back when one member has gone.
LEMMA GoneHeld ==
    ASSUME PathInv, NEW m \in DOMAIN members, NEW type \in {"MemberLeft", "MemberKicked"}, NEW lost,
           RemoveMembers({m}, lost, type)
    PROVE  \E g \in News :
              /\ IsGone(g) /\ g.id = m /\ g.sequence = roomSequence + 2 /\ g.epoch = epoch + 1
              /\ \A d \in Conn : pendingMembership'[d] = IF d \in ConnectionsOf(members')
                                                         THEN pendingMembership[d] \o <<g>>
                                                         ELSE pendingMembership[d]
  <1>1. m \in Nat /\ roomSequence + 1 \in Nat /\ epoch + 1 \in Nat /\ roomSequence \in Nat
    BY KeyTypes, SessionTypes DEF PathInv
  <1>2. PICK x, s, e \in Nat : x = m /\ s = roomSequence + 1 /\ e = epoch + 1
    BY <1>1
  <1>3. PICK g : g = [type |-> type, sequence |-> s + 1, epoch |-> e, id |-> x]
    OBVIOUS
  <1>4. /\ g \in News /\ GoneEvents({m}, type, roomSequence + 1, epoch + 1) = <<g>> /\ IsGone(g)
        /\ g.id = m /\ g.sequence = s + 1 /\ g.epoch = epoch + 1
    <2>1. /\ g \in News /\ GoneEvents({x}, type, s, e) = <<g>> /\ IsGone(g)
          /\ g.id = x /\ g.sequence = s + 1 /\ g.epoch = e
      BY <1>3, GoneOne
    <2>. QED  BY <1>2, <2>1
  <1>5. g.sequence = roomSequence + 2
    BY <1>1, <1>2, <1>4
  <1>6. ConnectionsOf(members') = ConnectionsOf(Restrict(members, DOMAIN members \ {m}))
    BY DEF RemoveMembers, ConnectionsOf
  <1>7. \A d \in Conn : pendingMembership'[d] = IF d \in ConnectionsOf(members')
                                                THEN pendingMembership[d] \o <<g>>
                                                ELSE pendingMembership[d]
    BY <1>4, <1>6 DEF RemoveMembers
  <1>. QED  BY <1>4, <1>5, <1>7

\* One member goes, and its connection with it: the others are told, all in time.
LEMMA PartKnows ==
    ASSUME PathInv, PathInv', Batches, NEW m \in DOMAIN members,
           NEW type \in {"MemberLeft", "MemberKicked"}, NEW lost, AtRest,
           RemoveMembers({m}, lost, type), UNCHANGED nextMemberId,
           \A d \in Conn : /\ Keys(outgoing'.send[d])
                           /\ d \notin ConnectionsOf(members') => Idle(outgoing'.send[d]),
           members[m].connection \in outgoing'.close \/ ~ Live(members[m].connection),
           NEW fresh, Transmit(fresh), NEW c \in Conn, fresh[c] = session[c], Knows(c)
    PROVE  Knows(c)'
  <1>. SUFFICES ASSUME Live(c)'
                PROVE  /\ \A x \in Residents(c)' : Informed(c, x)'
                       /\ Residents(c)' = {} => Uninformed(c)'
    BY DEF Knows
  <1>1. TypeOK'
    BY DEF PathInv, KeyInv, TablesInv
  <1>2. /\ Live(c) /\ session'[c] = session[c] /\ down[c] \in Seq(Downward)
        /\ outgoing'.send[c] \in Seq(Downward) /\ c \notin outgoing'.close
    BY <1>1, Delivered
  <1>3. PICK n \in Seq(Downward) : Idle(n) /\ down'[c] = (down[c] \o outgoing'.send[c]) \o n
    BY <1>1, Delivered
  <1>4. PICK q, a \in Seq(Downward) : q = down[c] /\ a = outgoing'.send[c]
    BY <1>2
  <1>5. /\ members' = Restrict(members, DOMAIN members \ {m}) /\ epoch' = epoch + 1 /\ Running /\ Running'
        /\ epoch \in Nat /\ nextMemberId \in Nat /\ roomSequence \in Nat /\ m \in Nat /\ m < nextMemberId
    BY KeyTypes, SessionTypes DEF PathInv, RemoveMembers, BeginEpochTransition, Running, AtRest
  <1>6. Residents(c)' = Residents(c)
    <2>1. \A x : x \in Residents(c)' <=> x \in Residents(c)
      BY <1>2, <1>5 DEF Residents, Restrict
    <2>. QED  BY <2>1
  <1>7. PICK g \in News :
          /\ IsGone(g) /\ g.id = m /\ g.sequence = roomSequence + 2 /\ g.epoch = epoch + 1
          /\ \A d \in Conn : pendingMembership'[d] = IF d \in ConnectionsOf(members')
                                                     THEN pendingMembership[d] \o <<g>>
                                                     ELSE pendingMembership[d]
    BY GoneHeld
  <1>8. /\ pendingMembership[c] = <<>>
        /\ c \in ConnectionsOf(members') => pendingMembership'[c] = <<g>>
        /\ c \notin ConnectionsOf(members') => pendingMembership'[c] = <<>>
    <2>1. pendingMembership[c] = <<>>
      BY DEF PathInv, HeldBack, Silence
    <2>2. <<>> \o <<g>> = <<g>>
      OBVIOUS
    <2>. QED  BY <1>7, <2>1, <2>2
  <1>9. ASSUME NEW x \in Residents(c)'
        PROVE  Informed(c, x)'
    <2>1. PICK s, R, k, e : s = session[c] /\ R = Roster /\ k = nextMemberId /\ e = epoch
      OBVIOUS
    <2>2. Aware(q, <<>>, s, R, k, e, x)
      BY <1>2, <1>4, <1>6, <1>8, <1>9, <2>1 DEF Knows, Informed
    <2>3. \A ev \in Told(q, <<>>) : ev.sequence < g.sequence
      BY <1>4, <1>5, <1>7, ToldBefore
    <2>4. \A i \in DOMAIN q : IsRelay(q[i]) => q[i].envelope.epoch < g.epoch
      BY <1>4, <1>5, <1>7, ToldBefore
    <2>5. Keys(a) /\ g.id < k /\ k \in Nat
      BY <1>4, <1>5, <1>7, <2>1
    <2>6. Aware(q \o a, <<g>>, s, {p \in R : p.id # g.id}, k, g.epoch, x)
      BY <1>7, <2>2, <2>3, <2>4, <2>5, AwareOfGone
    <2>7. Roster' = {p \in R : p.id # g.id} /\ g.epoch = epoch'
      BY <1>5, <1>7, <2>1, RosterWithout
    <2>8. PICK h \in Seq(Downward) : h = <<g>> /\ pendingMembership'[c] = h
      <3>1. c \in ConnectionsOf(members')
        BY <1>9 DEF Residents, ConnectionsOf
      <3>2. <<g>> \in Seq(RoomEvent)
        BY DEF News
      <3>3. <<g>> \in Seq(Downward)
        BY <3>2, EventSeq
      <3>. QED  BY <1>8, <3>1, <3>3
    <2>. QED  BY <1>2, <1>3, <1>4, <2>1, <2>6, <2>7, <2>8, HandedMember
  <1>10. ASSUME Residents(c)' = {}
         PROVE  Uninformed(c)'
    <2>1. Uninformed(c)
      BY <1>2, <1>6, <1>10 DEF Knows
    <2>2. c \notin ConnectionsOf(members')
      BY <1>5, <1>10 DEF Residents, ConnectionsOf
    <2>3. Idle(a) /\ pendingMembership'[c] = <<>>
      BY <1>4, <1>8, <2>2
    <2>. QED  BY <1>2, <1>3, <1>4, <2>1, <2>3, HandedStranger
  <1>. QED  BY <1>9, <1>10
-----------------------------------------------------------------------------
(* Somebody is let in *)

\* Who the applicant of request r becomes, and what is said of it.
Newcomer(r) == Member(requests[r].connection, requests[r].application, epoch + 1)
JoinNews(r) == [type |-> "MemberJoined", sequence |-> roomSequence + 2, epoch |-> epoch + 1,
                member |-> ViewOf(nextMemberId, Newcomer(r))]
ViewsOf(ms) == {ViewOf(x, ms[x]) : x \in DOMAIN ms}
RoomNews(ms) == [type |-> "MemberSnapshot", sequence |-> roomSequence + 3, epoch |-> epoch + 1,
                 members |-> ViewsOf(ms)]

\* The tables after /accept.
LEMMA AdmitTables ==
    ASSUME PathInv, PathInv', NEW r \in DOMAIN requests, AcceptJoin(r)
    PROVE  /\ AtRest /\ Running' /\ epoch' = epoch + 1 /\ nextMemberId' = nextMemberId + 1
           /\ members' = With(members, nextMemberId, Newcomer(r))
           /\ DOMAIN members' = DOMAIN members \cup {nextMemberId}
           /\ members'[nextMemberId] = Newcomer(r)
           /\ nextMemberId \notin DOMAIN members /\ nextMemberId # HostId /\ nextMemberId \in Nat
           /\ \A x \in DOMAIN members : members'[x] = members[x]
           /\ requests[r].connection \in Conn /\ requests[r].connection \notin ConnectionsOf(members)
           /\ Newcomer(r).connection = requests[r].connection /\ Newcomer(r) \in MemberRecord
  <1>1. /\ members' = With(members, nextMemberId, Newcomer(r)) /\ state' = "EpochTransition"
        /\ AtRest /\ epoch' = epoch + 1 /\ nextMemberId' = nextMemberId + 1
    BY DEF AcceptJoin, Newcomer, BeginEpochTransition
  <1>2. nextMemberId \notin DOMAIN members /\ nextMemberId # HostId /\ nextMemberId \in Nat
    BY KeyTypes DEF PathInv, KeyInv, TablesInv, TableFacts, HostPresent
  <1>3. requests[r] \in RequestRecord /\ epoch \in Nat
    BY DEF PathInv, KeyInv, TablesInv, TypeOK, IsMap
  <1>4. requests[r].connection \notin ConnectionsOf(members)
    BY DEF PathInv, KeyInv, TablesInv, TableFacts, Agree, ConnectionsOf
  <1>5. Newcomer(r).connection = requests[r].connection /\ Newcomer(r) \in MemberRecord
    BY <1>3, DataAssumption DEF Newcomer, Member, MemberRecord, RequestRecord
  <1>6. requests[r].connection \in Conn
    BY <1>3 DEF RequestRecord
  <1>. QED  BY <1>1, <1>2, <1>4, <1>5, <1>6 DEF With, Running

\* What is said of the newcomer, and to it.
LEMMA AdmitNews ==
    ASSUME PathInv, PathInv', NEW r \in DOMAIN requests, AcceptJoin(r), NEW d \in Conn
    PROVE  /\ pendingMembership'[d] =
                 IF d = requests[r].connection THEN <<RoomNews(members')>>
                 ELSE IF d \in ConnectionsOf(members) THEN <<JoinNews(r)>> ELSE <<>>
           /\ outgoing'.send[d] = SendTo(requests[r].connection, JoinAccepted(nextMemberId))[d]
                                     \o Wraps(members')[d]
  <1>1. pendingMembership[d] = <<>> /\ roomSequence \in Nat
    BY SessionTypes DEF PathInv, HeldBack, Silence, AcceptJoin
  <1>2. \A x : <<>> \o <<x>> = <<x>>
    OBVIOUS
  <1>3. <<>> \o <<>> = <<>>
    OBVIOUS
  <1>4. members' = With(members, nextMemberId, Newcomer(r))
    BY DEF AcceptJoin, Newcomer
  <1>5. (roomSequence + 1) + 1 = roomSequence + 2 /\ (roomSequence + 1) + 2 = roomSequence + 3
    BY <1>1
  <1>6. pendingMembership'[d] = pendingMembership[d] \o
                 (IF d = requests[r].connection THEN <<RoomNews(members')>>
                  ELSE IF d \in ConnectionsOf(members) THEN <<JoinNews(r)>> ELSE <<>>)
    BY <1>4, <1>5 DEF AcceptJoin, RoomNews, JoinNews, ViewsOf, Newcomer
  <1>7. outgoing'.send[d] = SendTo(requests[r].connection, JoinAccepted(nextMemberId))[d]
                               \o Wraps(members')[d]
    BY <1>4 DEF AcceptJoin, Emit, Then, Newcomer
  <1>. QED  BY <1>1, <1>2, <1>3, <1>6, <1>7

\* Who is in the room with the newcomer: it clashes with nobody.
LEMMA AdmitRoster ==
    ASSUME PathInv, PathInv', NEW r \in DOMAIN requests, AcceptJoin(r), Distinct(Roster)
    PROVE  /\ \A p \in Roster : ~ SameMember(p, ViewOf(nextMemberId, Newcomer(r)))
           /\ Roster' = Roster \cup {Person(ViewOf(nextMemberId, Newcomer(r)))}
           /\ Distinct(Roster)'
           /\ Roster' = Persons(ViewsOf(members'))
  <1>1. /\ DOMAIN members' = DOMAIN members \cup {nextMemberId}
        /\ members'[nextMemberId] = Newcomer(r) /\ nextMemberId \notin DOMAIN members
        /\ \A x \in DOMAIN members : members'[x] = members[x]
    BY AdmitTables
  <1>2. ASSUME NEW p \in Roster
        PROVE  ~ SameMember(p, ViewOf(nextMemberId, Newcomer(r)))
    <2>1. PICK x \in DOMAIN members : p = Person(ViewOf(x, members[x]))
      BY DEF Roster
    <2>2. members[x].nickname # Newcomer(r).nickname /\ members[x].identity # Newcomer(r).identity
      BY DEF AcceptJoin, Admissible, Newcomer, Member
    <2>. QED  BY <1>1, <2>1, <2>2 DEF SameMember, Person, ViewOf
  <1>3. Roster' = {Person(ViewOf(x, members'[x])) : x \in DOMAIN members'}
    BY DEF Roster, Person, ViewOf
  <1>4. Roster' = Roster \cup {Person(ViewOf(nextMemberId, Newcomer(r)))}
    <2>1. \A p : p \in Roster' <=> p \in Roster \/ p = Person(ViewOf(nextMemberId, Newcomer(r)))
      BY <1>1, <1>3 DEF Roster
    <2>. QED  BY <2>1
  <1>5. Roster' = Persons(ViewsOf(members'))
    <2>1. \A p : p \in Roster' <=> p \in Persons(ViewsOf(members'))
      BY <1>3 DEF Persons, ViewsOf
    <2>. QED  BY <2>1
  <1>6. Distinct(Roster)'
    <2>1. PICK R, v : R = Roster' /\ v = ViewOf(nextMemberId, Newcomer(r))
      OBVIOUS
    <2>2. ASSUME NEW p \in R, NEW q \in R, SameMember(p, q)
          PROVE  p = q
      <3>1. CASE p \in Roster /\ q \in Roster
        BY <2>2, <3>1 DEF Distinct
      <3>2. CASE p \notin Roster \/ q \notin Roster
        <4>1. SameMember(q, p)
          BY <2>2 DEF SameMember
        <4>2. \A s \in Roster : ~ SameMember(s, Person(v))
          BY <1>2, <2>1 DEF SameMember, Person
        <4>. QED  BY <1>4, <2>1, <2>2, <3>2, <4>1, <4>2
      <3>. QED  BY <3>1, <3>2
    <2>3. Distinct(R)
      BY <2>2 DEF Distinct
    <2>. QED  BY <2>1, <2>3 DEF Distinct
  <1>. QED  BY <1>2, <1>4, <1>5, <1>6

\* What the newcomer is told of the room: it is there, so is the host, and nobody twice.
LEMMA AdmitSnapshot ==
    ASSUME PathInv, PathInv', NEW r \in DOMAIN requests, AcceptJoin(r), Distinct(Roster),
           NEW sn, sn = RoomNews(members')
    PROVE  /\ sn \in News /\ IsSnapshot(sn) /\ sn.epoch = epoch' /\ sn.members = ViewsOf(members')
           /\ Opening({sn}, {}, sn)
           /\ \E v \in sn.members : v.id = nextMemberId
  <1>1. /\ DOMAIN members' = DOMAIN members \cup {nextMemberId} /\ nextMemberId \notin DOMAIN members
        /\ epoch' = epoch + 1
    BY AdmitTables
  <1>2. /\ IsMap(members', Nat, MemberRecord) /\ HostId \in DOMAIN members'
        /\ IsFiniteSet(DOMAIN members) /\ roomSequence \in Nat /\ epoch \in Nat
    BY SessionTypes DEF PathInv, KeyInv, TablesInv, TableFacts, HostPresent, TypeOK, IsMap
  <1>3. sn.members = ViewsOf(members') /\ sn.epoch = epoch + 1 /\ sn.sequence = roomSequence + 3
        /\ sn.type = "MemberSnapshot"
    BY DEF RoomNews
  <1>4. PICK ms : ms = members'
    OBVIOUS
  <1>5. \A x \in DOMAIN ms : ViewOf(x, ms[x]) \in View /\ ViewOf(x, ms[x]).id = x
    BY <1>2, <1>4 DEF IsMap, MemberRecord, View, ViewOf
  <1>6. sn \in News
    <2>1. ViewsOf(ms) \subseteq View
      BY <1>5 DEF ViewsOf
    <2>. QED  BY <1>2, <1>4, <2>1 DEF RoomNews, News, RoomEvent, IsNews, IsSnapshot
  <1>7. Cardinality(ViewsOf(ms)) <= MaxActiveMembers
    <2>1. PICK f : f = [x \in DOMAIN ms |-> ViewOf(x, ms[x])]
      OBVIOUS
    <2>2. f \in Surjection(DOMAIN ms, ViewsOf(ms))
      BY <2>1 DEF Surjection, ViewsOf
    <2>3. IsFiniteSet(DOMAIN ms) /\ Cardinality(DOMAIN ms) = Cardinality(DOMAIN members) + 1
      BY <1>1, <1>2, <1>4, FS_AddElement
    <2>4. Cardinality(ViewsOf(ms)) <= Cardinality(DOMAIN ms) /\ IsFiniteSet(ViewsOf(ms))
      BY <2>2, <2>3, FS_Surjection
    <2>5. Cardinality(ViewsOf(ms)) \in Nat /\ Cardinality(DOMAIN members) \in Nat
      BY <1>2, <2>4, FS_CardinalityType
    <2>6. Cardinality(DOMAIN members) < MaxActiveMembers
      BY DEF AcceptJoin, Admissible
    <2>. QED  BY <2>3, <2>4, <2>5, <2>6, BoundsAssumption
  <1>8. ASSUME NEW v \in ViewsOf(ms), NEW w \in ViewsOf(ms), v # w
        PROVE  ~ SameMember(v, w)
    <2>1. PICK x \in DOMAIN ms, y \in DOMAIN ms : v = ViewOf(x, ms[x]) /\ w = ViewOf(y, ms[y])
      BY <1>8 DEF ViewsOf
    <2>2. Person(v) # Person(w)
      BY <1>8, <1>5, <2>1 DEF Person
    <2>3. PICK R : R = Roster'
      OBVIOUS
    <2>4. R = Persons(ViewsOf(ms)) /\ Distinct(R)
      BY <1>4, <2>3, AdmitRoster DEF Distinct
    <2>5. Person(v) \in R /\ Person(w) \in R
      BY <2>4 DEF Persons
    <2>. QED  BY <2>2, <2>4, <2>5 DEF Distinct, SameMember, Person
  <1>9. /\ \E v \in ViewsOf(ms) : v.id = HostId
        /\ \E v \in ViewsOf(ms) : v.id = nextMemberId
    BY <1>1, <1>2, <1>4, <1>5 DEF ViewsOf
  <1>10. Opening({sn}, {}, sn)
    BY <1>3, <1>4, <1>7, <1>8, <1>9 DEF Opening
  <1>. QED  BY <1>1, <1>3, <1>4, <1>6, <1>9, <1>10 DEF IsSnapshot

\* What /accept sends: keys, and an admission to the newcomer before its key.
LEMMA AdmitSends ==
    ASSUME PathInv, PathInv', NEW r \in DOMAIN requests, AcceptJoin(r), NEW d \in Conn,
           NEW a, a = outgoing'.send[d]
    PROVE  /\ d # requests[r].connection => Keys(a)
           /\ d \notin ConnectionsOf(members') => Idle(a)
           /\ \A i \in DOMAIN a : ~ IsEvent(a[i]) /\ ~ IsRelay(a[i])
           /\ d = requests[r].connection =>
                 /\ \E i \in DOMAIN a : IsAdmission(a[i])
                 /\ \A i \in DOMAIN a : IsAdmission(a[i]) =>
                       a[i].id = nextMemberId /\ \A j \in DOMAIN a : IsWrap(a[j]) => i < j
  <1>1. PICK c \in Conn : c = requests[r].connection
    BY AdmitTables
  <1>2. c \in ConnectionsOf(members')
    BY <1>1, AdmitTables DEF ConnectionsOf
  <1>3. a = SendTo(c, JoinAccepted(nextMemberId))[d] \o Wraps(members')[d]
    BY <1>1, AdmitNews
  <1>4. PICK w : w = EpochWrap(epoch + 1)
    OBVIOUS
  <1>5. /\ SendTo(c, JoinAccepted(nextMemberId))[d] = IF d = c THEN <<JoinAccepted(nextMemberId)>> ELSE <<>>
        /\ Wraps(members')[d] = IF d \in ConnectionsOf(members') THEN <<w>> ELSE <<>>
    BY <1>1, <1>4 DEF SendTo, Silence, Wraps, SendAll
  <1>6. PICK j : j = JoinAccepted(nextMemberId)
    OBVIOUS
  <1>7. /\ IsAdmission(j) /\ j.id = nextMemberId /\ ~ IsEvent(j) /\ ~ IsRelay(j) /\ ~ IsWrap(j)
        /\ IsWrap(w) /\ ~ IsEvent(w) /\ ~ IsRelay(w) /\ ~ IsAdmission(w)
    BY <1>4, <1>6 DEF JoinAccepted, EpochWrap, IsAdmission, IsEvent, IsRelay, IsWrap, EventTypes
  <1>8. CASE d = c
    <2>1. a = <<j>> \o <<w>>
      BY <1>2, <1>3, <1>5, <1>6, <1>8
    <2>2. DOMAIN a = {1, 2} /\ a[1] = j /\ a[2] = w
      BY <2>1
    <2>. QED  BY <1>1, <1>2, <1>7, <1>8, <2>2
  <1>9. CASE d # c /\ d \in ConnectionsOf(members')
    <2>1. a = <<>> \o <<w>>
      BY <1>3, <1>5, <1>9
    <2>2. DOMAIN a = {1} /\ a[1] = w
      BY <2>1
    <2>. QED  BY <1>1, <1>7, <1>9, <2>2 DEF Keys
  <1>10. CASE d # c /\ d \notin ConnectionsOf(members')
    <2>1. a = <<>> \o <<>>
      BY <1>3, <1>5, <1>10
    <2>2. DOMAIN a = {}
      BY <2>1
    <2>. QED  BY <1>1, <1>10, <2>2 DEF Keys, Idle
  <1>. QED  BY <1>8, <1>9, <1>10

\* The newcomer is told who is in the room, and everybody else who has come.
LEMMA AdmitKnows ==
    ASSUME PathInv, PathInv', Batches, NEW r \in DOMAIN requests, AcceptJoin(r), Distinct(Roster),
           NEW fresh, Transmit(fresh), NEW c \in Conn, fresh[c] = session[c], Knows(c)
    PROVE  Knows(c)'
  <1>. SUFFICES ASSUME Live(c)'
                PROVE  /\ \A x \in Residents(c)' : Informed(c, x)'
                       /\ Residents(c)' = {} => Uninformed(c)'
    BY DEF Knows
  <1>1. TypeOK'
    BY DEF PathInv, KeyInv, TablesInv
  <1>2. /\ Live(c) /\ session'[c] = session[c] /\ down[c] \in Seq(Downward)
        /\ outgoing'.send[c] \in Seq(Downward) /\ c \notin outgoing'.close
    BY <1>1, Delivered
  <1>3. PICK n \in Seq(Downward) : Idle(n) /\ down'[c] = (down[c] \o outgoing'.send[c]) \o n
    BY <1>1, Delivered
  <1>4. PICK q, a \in Seq(Downward) : q = down[c] /\ a = outgoing'.send[c]
    BY <1>2
  <1>5. PICK k, e, R, s, nc : k = nextMemberId /\ e = epoch + 1 /\ R = Roster /\ s = session[c]
                              /\ nc = requests[r].connection
    OBVIOUS
  <1>6. /\ DOMAIN members' = DOMAIN members \cup {k} /\ members'[k].connection = nc
        /\ k \notin DOMAIN members /\ k # HostId /\ k \in Nat
        /\ \A x \in DOMAIN members : members'[x] = members[x]
        /\ nc \notin ConnectionsOf(members) /\ Running /\ Running' /\ epoch' = e
        /\ nextMemberId' = k + 1
    BY <1>5, AdmitTables DEF AtRest, Running
  <1>7. pendingMembership[c] = <<>>
    BY AdmitTables DEF PathInv, HeldBack, Silence
  <1>8. \A ev \in News : <<ev>> \in Seq(Downward)
    <2>1. \A ev \in News : <<ev>> \in Seq(RoomEvent)
      BY DEF News
    <2>. QED  BY <2>1, EventSeq
  <1>9. CASE c = nc
    <2>1. Residents(c) = {}
      BY <1>6, <1>9 DEF Residents, ConnectionsOf
    <2>2. Unaware(q, <<>>, s)
      BY <1>2, <1>4, <1>5, <1>7, <2>1 DEF Knows, Uninformed
    <2>3. PICK sn : sn = RoomNews(members')
      OBVIOUS
    <2>4. /\ sn \in News /\ IsSnapshot(sn) /\ sn.epoch = epoch' /\ Persons(sn.members) = Roster'
          /\ Opening({sn}, {}, sn) /\ \E v \in sn.members : v.id = k
      BY <1>5, <2>3, AdmitSnapshot, AdmitRoster
    <2>5. Residents(c)' = {k}
      <3>1. \A x : x \in Residents(c)' <=> x = k
        BY <1>6, <1>9 DEF Residents, ConnectionsOf
      <3>. QED  BY <3>1
    <2>6. /\ \A i \in DOMAIN a : ~ IsEvent(a[i]) /\ ~ IsRelay(a[i])
          /\ \E i \in DOMAIN a : IsAdmission(a[i])
          /\ \A i \in DOMAIN a : IsAdmission(a[i]) =>
                a[i].id = k /\ \A j \in DOMAIN a : IsWrap(a[j]) => i < j
      <3>1. a = outgoing'.send[c] /\ c = requests[r].connection /\ k = nextMemberId
        BY <1>4, <1>5, <1>9
      <3>2. /\ \A i \in DOMAIN a : ~ IsEvent(a[i]) /\ ~ IsRelay(a[i])
            /\ \E i \in DOMAIN a : IsAdmission(a[i])
            /\ \A i \in DOMAIN a : IsAdmission(a[i]) =>
                  a[i].id = nextMemberId /\ \A j \in DOMAIN a : IsWrap(a[j]) => i < j
        BY ONLY <3>1, AdmitSends, PathInv, PathInv', AcceptJoin(r), r \in DOMAIN requests, c \in Conn
      <3>. QED  BY ONLY <3>1, <3>2
    <2>7. Aware(q \o a, <<sn>>, s, Persons(sn.members), k + 1, sn.epoch, k)
      BY <2>2, <2>4, <2>6, AwareFromNow
    <2>8. PICK h \in Seq(Downward) : h = <<sn>> /\ pendingMembership'[c] = h
      BY <1>5, <1>8, <1>9, <2>3, <2>4, AdmitNews
    <2>9. Aware(q \o a, h, session'[c], Roster', nextMemberId', epoch', k)
      BY <1>2, <1>5, <1>6, <2>4, <2>7, <2>8
    <2>10. Informed(c, k)'
      BY <1>3, <1>4, <2>8, <2>9, HandedMember
    <2>. QED  BY <2>5, <2>10
  <1>10. CASE c # nc
    <2>1. Residents(c)' = Residents(c)
      <3>1. \A x : x \in Residents(c)' <=> x \in Residents(c)
        BY <1>6, <1>10 DEF Residents
      <3>. QED  BY <3>1
    <2>2. ASSUME NEW x \in Residents(c)'
          PROVE  Informed(c, x)'
      <3>1. PICK j : j = JoinNews(r)
        OBVIOUS
      <3>2. /\ j \in News /\ IsJoin(j) /\ j.member.id = k /\ j.epoch = e
            /\ j.sequence = roomSequence + 2 /\ j.member = ViewOf(k, Newcomer(r))
        <4>1. j.member \in View /\ j.member.id = k
          BY <1>5, <1>6, <3>1, AdmitTables DEF JoinNews, ViewOf, View, MemberRecord
        <4>2. roomSequence \in Nat /\ epoch \in Nat
          BY SessionTypes
        <4>. QED  BY <1>5, <3>1, <4>1, <4>2 DEF JoinNews, News, RoomEvent, IsNews, IsJoin
      <3>3. \A p \in R : ~ SameMember(p, j.member)
        BY <1>5, <3>2, AdmitRoster
      <3>4. Roster' = R \cup {Person(j.member)}
        BY <1>5, <3>2, AdmitRoster
      <3>5. Aware(q, <<>>, s, R, k, epoch, x)
        BY <1>2, <1>4, <1>5, <1>7, <2>1, <2>2 DEF Knows, Informed
      <3>6. \A ev \in Told(q, <<>>) : ev.sequence < j.sequence
        BY <1>4, <3>2, ToldBefore, SessionTypes
      <3>7. Keys(a)
        BY <1>4, <1>5, <1>10, AdmitSends
      <3>8. Aware(q \o a, <<j>>, s, R \cup {Person(j.member)}, k + 1, j.epoch, x)
        BY <1>6, <3>2, <3>3, <3>5, <3>6, <3>7, AwareOfJoin
      <3>9. PICK h \in Seq(Downward) : h = <<j>> /\ pendingMembership'[c] = h
        <4>1. c \in ConnectionsOf(members)
          BY <2>1, <2>2 DEF Residents, ConnectionsOf
        <4>. QED  BY <1>5, <1>8, <1>10, <3>1, <3>2, <4>1, AdmitNews
      <3>10. Aware(q \o a, h, session'[c], Roster', nextMemberId', epoch', x)
        BY <1>2, <1>5, <1>6, <3>2, <3>4, <3>8, <3>9
      <3>. QED  BY <1>3, <1>4, <3>9, <3>10, HandedMember
    <2>3. ASSUME Residents(c)' = {}
          PROVE  Uninformed(c)'
      <3>1. Uninformed(c)
        BY <1>2, <2>1, <2>3 DEF Knows
      <3>2. c \notin ConnectionsOf(members') /\ c \notin ConnectionsOf(members)
        BY <1>6, <1>10, <2>3, <2>1 DEF Residents, ConnectionsOf
      <3>3. Idle(a)
        BY <1>4, <3>2, AdmitSends
      <3>4. pendingMembership'[c] = <<>>
        BY <1>5, <1>10, <3>2, AdmitNews
      <3>. QED  BY <1>2, <1>3, <1>4, <3>1, <3>3, <3>4, HandedStranger
    <2>. QED  BY <2>2, <2>3
  <1>. QED  BY <1>9, <1>10

\* The room closes: nobody stands for anybody in it any more, and whoever is still
\* there was not in it.
LEMMA CloseKnows ==
    ASSUME PathInv, PathInv', Batches, Closes, NEW fresh, Transmit(fresh), NEW c \in Conn,
           fresh[c] = session[c], Knows(c)
    PROVE  Knows(c)'
  <1>. SUFFICES ASSUME Live(c)'
                PROVE  /\ Residents(c)' = {}
                       /\ Uninformed(c)'
    BY DEF Knows
  <1>1. TypeOK'
    BY DEF PathInv, KeyInv, TablesInv
  <1>2. /\ Live(c) /\ session'[c] = session[c] /\ down[c] \in Seq(Downward)
        /\ outgoing'.send[c] \in Seq(Downward) /\ c \notin outgoing'.close
    BY <1>1, Delivered
  <1>3. PICK n \in Seq(Downward) : Idle(n) /\ down'[c] = (down[c] \o outgoing'.send[c]) \o n
    BY <1>1, Delivered
  <1>4. PICK q, a \in Seq(Downward) : q = down[c] /\ a = outgoing'.send[c]
    BY <1>2
  <1>5. /\ outgoing'.send[c] = IF c \in DOMAIN connections THEN <<Shutdown>> ELSE <<>>
        /\ outgoing'.close = DOMAIN connections /\ ~ Running'
        /\ pendingMembership' = pendingMembership
    BY DEF Closes, CloseRoom, Emit, SendAll, Running
  <1>6. Idle(a)
    BY <1>4, <1>5, IdleMessages
  <1>7. Residents(c)' = {}
    BY <1>5 DEF Residents
  <1>8. Residents(c) = {}
    <2>1. \A m \in DOMAIN members : members[m].connection \in DOMAIN connections
      BY DEF PathInv, KeyInv, TablesInv, TableFacts, Agree
    <2>. QED  BY <1>2, <1>5, <2>1 DEF Residents
  <1>9. Uninformed(c) /\ pendingMembership'[c] = <<>>
    BY <1>2, <1>5, <1>8 DEF Knows, Uninformed, Unaware
  <1>. QED  BY <1>2, <1>3, <1>4, <1>6, <1>7, <1>9, HandedStranger
-----------------------------------------------------------------------------
(* Every step of the actor *)

\* Nobody clashes with anybody after a step of the actor.
LEMMA TurnRoster ==
    ASSUME PathInv, PathInv', Distinct(Roster),
           Still \/ Releases \/ Parts \/ Admits \/ Closes
    PROVE  Distinct(Roster)'
  <1>1. PICK R, R2 : R = Roster /\ R2 = Roster'
    OBVIOUS
  <1>2. R2 \subseteq R => Distinct(R2)
    BY <1>1 DEF Distinct
  <1>3. CASE Still
    BY <1>1, <1>2, <1>3, SameRoster DEF Still, Distinct
  <1>4. CASE Releases
    BY <1>1, <1>2, <1>4 DEF Releases, Roster, ViewOf, Person, Distinct
  <1>5. CASE Parts
    <2>1. PICK m \in DOMAIN members : members' = Restrict(members, DOMAIN members \ {m})
      BY <1>5 DEF Parts, RemoveMembers
    <2>. QED  BY <1>1, <1>2, <2>1, RosterWithout DEF Distinct
  <1>6. CASE Admits
    BY <1>6, AdmitRoster DEF Admits
  <1>7. CASE Closes
    BY <1>1, <1>2, <1>7 DEF Closes, CloseRoom, Roster, ViewOf, Person, Distinct
  <1>. QED  BY <1>3, <1>4, <1>5, <1>6, <1>7

\* Nobody's table is left behind by a step of the actor, unless it begins one
\* transition inside another.
LEMMA TurnTables ==
    ASSUME PathInv, PathInv', Batches, Settled, Settled', Turn, ~ nested => Tables,
           NEW fresh, Transmit(fresh), \A c \in Conn : fresh[c] = session[c] \/ Knows(c)'
    PROVE  (~ nested => Tables)'
  <1>. SUFFICES ASSUME ~ nested'
                PROVE  Distinct(Roster)' /\ \A c \in Conn : Knows(c)'
    BY DEF Tables, Knows
  <1>1. ~ nested /\ ~ Nests
    BY DEF Transmit, Nests
  <1>2. Distinct(Roster) /\ \A c \in Conn : Knows(c)
    BY <1>1 DEF Tables, Knows
  <1>3. Still \/ Releases \/ Parts \/ Admits \/ Closes
    BY <1>1 DEF Turn
  <1>4. Distinct(Roster)'
    BY <1>2, <1>3, TurnRoster
  <1>5. ASSUME NEW c \in Conn, fresh[c] = session[c]
        PROVE  Knows(c)'
    <2>1. Knows(c)
      BY <1>2
    <2>2. CASE Still
      BY <1>5, <2>1, <2>2, StillKnows
    <2>3. CASE Releases
      BY <1>5, <2>1, <2>3, ReleaseKnows
    <2>4. CASE Parts
      BY <1>5, <2>1, <2>4, PartKnows DEF Parts
    <2>5. CASE Admits
      BY <1>2, <1>5, <2>1, <2>5, AdmitKnows DEF Admits
    <2>6. CASE Closes
      BY <1>5, <2>1, <2>6, CloseKnows
    <2>. QED  BY <1>3, <2>2, <2>3, <2>4, <2>5, <2>6
  <1>. QED  BY <1>4, <1>5

\* A connection of which the step takes the first message, or none: whoever is
\* registered was so before, and a loss that is handled is forgotten.
Passed(d) ==
    /\ \/ PassesBy(d)
       \/ \E msg : up[d] # <<>> /\ msg = up[d][1] /\ Moves(d, msg)
       \/ pendingEpoch'.awaiting = DOMAIN members'
    /\ Running' /\ d \in DOMAIN connections' => Running /\ d \in DOMAIN connections
    /\ \/ up'[d] = up[d]
       \/ /\ up[d] # <<>> /\ up'[d] = Tail(up[d])
          /\ IsLoss(up[d][1]) /\ Running' => d \notin DOMAIN connections'

\* Nothing is held back for a connection that does not exist yet.
LEMMA UnissuedTurn ==
    ASSUME PathInv', TableInv, Tidy, nextConn \in Nat, nextConn' \in Nat, nextConn <= nextConn',
           NEW c \in Conn, c >= nextConn'
    PROVE  pendingMembership'[c] = <<>>
  <1>1. c \in Nat
    BY DEF Conn
  <1>2. pendingMembership[c] = <<>>
    BY <1>1 DEF TableInv
  <1>3. c \notin ConnectionsOf(members')
    <2>1. \A m \in DOMAIN members' : members'[m].connection \in DOMAIN connections'
      BY DEF PathInv, KeyInv, TablesInv, TableFacts, Agree
    <2>2. \A d \in DOMAIN connections' : d < nextConn'
      BY DEF PathInv, KeyInv, TablesInv, TableFacts, ConnectionsIssued
    <2>. QED  BY <1>1, <2>1, <2>2 DEF ConnectionsOf
  <1>. QED  BY <1>2, <1>3 DEF Tidy

\* What is known of everybody after a step of the actor.
LEMMA ActorTables ==
    ASSUME PathInv, PathInv', Batches, TableInv, Turn, Tidy, nextConn <= nextConn',
           NEW fresh, Transmit(fresh),
           \A d \in Conn : \/ fresh[d] = session[d] /\ Passed(d)
                           \/ Knows(d)' /\ Reported(d)' /\ Residents(d)' = {}
    PROVE  TableInv'
  <1>1. ASSUME NEW c \in Conn, fresh[c] = session[c], Passed(c)
        PROVE  /\ Reported(c)'
               /\ \A m \in Residents(c)' : m \notin pendingEpoch'.awaiting /\ Live(c)' =>
                     session'[c].epoch = epoch'
    <2>1. Reported(c) /\ Settled
      BY DEF TableInv
    <2>2. /\ Live(c) /\ ~ Live(c)' => c \in outgoing'.close
          /\ Live(c)' => Live(c) /\ session'[c] = session[c]
      BY <1>1, HungUp
    <2>3. Reported(c)'
      BY <1>1, <2>1, <2>2, ReportedStep DEF Passed
    <2>4. KeyInv'
      BY DEF PathInv
    <2>5. ASSUME NEW m \in Residents(c)', m \notin pendingEpoch'.awaiting, Live(c)'
          PROVE  session'[c].epoch = epoch'
      BY <1>1, <2>1, <2>2, <2>4, <2>5, SettledStep DEF Passed
    <2>. QED  BY <2>3, <2>5
  <1>2. \A c \in Conn : Reported(c)'
    BY <1>1
  <1>3. Settled'
    <2>1. ASSUME NEW c \in Conn, NEW m \in Residents(c)' \ pendingEpoch'.awaiting, Live(c)'
          PROVE  session'[c].epoch = epoch'
      BY <1>1, <2>1
    <2>. QED  BY <2>1 DEF Settled
  <1>4. (~ nested => Tables)'
    <2>1. Settled /\ (~ nested => Tables)
      BY DEF TableInv
    <2>2. \A d \in Conn : fresh[d] = session[d] \/ Knows(d)'
      OBVIOUS
    <2>. QED  BY <1>3, <2>1, <2>2, TurnTables
  <1>5. \A c \in Conn : c >= nextConn' => pendingMembership'[c] = <<>>
    <2>1. nextConn \in Nat /\ nextConn' \in Nat
      BY BoundsAssumption DEF PathInv, KeyInv, TablesInv, TypeOK
    <2>. QED  BY <2>1, UnissuedTurn
  <1>. QED  BY <1>2, <1>3, <1>4, <1>5 DEF TableInv

\* Whoever the step passes by, or is heard, was registered before.
LEMMA PassedOn ==
    ASSUME PathInv, NEW d \in Conn,
           \/ PassesBy(d)
           \/ \E msg : up[d] # <<>> /\ msg = up[d][1] /\ Moves(d, msg)
           \/ \E r \in DOMAIN requests : AcceptJoin(r) /\ d = requests[r].connection
    PROVE  /\ \/ PassesBy(d)
              \/ \E msg : up[d] # <<>> /\ msg = up[d][1] /\ Moves(d, msg)
              \/ pendingEpoch'.awaiting = DOMAIN members'
           /\ Running' /\ d \in DOMAIN connections' => Running /\ d \in DOMAIN connections
  <1>1. CASE PassesBy(d)
    BY <1>1 DEF PassesBy, KeepsRole
  <1>2. CASE \E msg : up[d] # <<>> /\ msg = up[d][1] /\ Moves(d, msg)
    BY <1>2 DEF Moves, Applies, Acknowledges, Speaks, KeepsRole
  <1>3. CASE \E r \in DOMAIN requests : AcceptJoin(r) /\ d = requests[r].connection
    <2>1. PICK r \in DOMAIN requests : AcceptJoin(r) /\ d = requests[r].connection
      BY <1>3
    <2>2. pendingEpoch'.awaiting = DOMAIN members' /\ Running
      BY <2>1 DEF AcceptJoin, BeginEpochTransition, AtRest, Running
    <2>3. d \in DOMAIN connections
      BY <2>1 DEF PathInv, KeyInv, TablesInv, TableFacts, Agree
    <2>. QED  BY <2>2, <2>3
  <1>. QED  BY <1>1, <1>2, <1>3

\* Host commands, deadlines and the tick.
LEMMA SpontaneousTables ==
    ASSUME PathInv, PathInv', TableInv, Spontaneous
    PROVE  TableInv'
  <1>1. /\ HostEvent \/ EpochTimeout \/ Tick
        /\ Transmit(session) /\ up' = up /\ TypeOK /\ TypeOK' /\ KeyInv /\ ActorInv /\ RoomStep
    BY SessionTypes DEF Spontaneous, RoomStep, EpochEvent, PathInv, KeyInv, TablesInv
  <1>2. Batches /\ nextConn <= nextConn'
    BY <1>1, StepBatches, ConnectionsGrow
  <1>3. Turn /\ Tidy
    BY <1>1, HostTurn, TimeTurn
  <1>4. ASSUME NEW d \in Conn
        PROVE  Passed(d)
    <2>1. PassesBy(d) \/ \E r \in DOMAIN requests : AcceptJoin(r) /\ d = requests[r].connection
      BY <1>1, HostPasses, TimePasses
    <2>. QED  BY <1>1, <2>1, PassedOn DEF Passed
  <1>. QED  BY <1>1, <1>2, <1>3, <1>4, ActorTables

\* A loss that is handled is forgotten with the connection.
LEMMA LossHandled ==
    ASSUME PathInv, PathInv', NEW c \in Conn, NEW msg, IsLoss(msg), Handle(c, msg), Running'
    PROVE  c \notin DOMAIN connections'
  <1>1. ConnectionLost(c)
    BY DEF Handle, IsLoss, EventAfterClose, NoEffect, Running
  <1>2. LoseConnection(c, Silence, {}) /\ Running /\ Silence \in [Conn -> Seq(Message)]
    BY <1>1, SendTypes DEF ConnectionLost
  <1>. QED  BY <1>2, LosePasses DEF PathInv, KeyInv, TablesInv

\* The actor handles what a participant sent.
LEMMA ActorReceivesTables ==
    ASSUME PathInv, PathInv', TableInv, NEW c \in Conn, ActorReceives(c)
    PROVE  TableInv'
  <1>1. /\ up \in [Conn -> Seq(Upward)] /\ TypeOK /\ TypeOK' /\ KeyInv /\ ActorInv
        /\ up[c] # <<>> /\ Transmit(session) /\ up' = [up EXCEPT ![c] = Tail(@)]
    BY SessionTypes DEF ActorReceives, PathInv, KeyInv, TablesInv
  <1>2. PICK msg \in Upward : msg = Head(up[c]) /\ msg = up[c][1]
    BY <1>1, Rest
  <1>3. Handle(c, msg) /\ RoomStep
    BY <1>2, HandleIsRoomStep DEF ActorReceives
  <1>4. Batches /\ nextConn <= nextConn'
    BY <1>1, <1>3, StepBatches, ConnectionsGrow
  <1>5. IsLoss(msg) => ~ Live(c)
    <2>1. 1 \in DOMAIN up[c]
      BY <1>1, Rest
    <2>. QED  BY <1>2, <2>1 DEF TableInv, Reported
  <1>6. Turn /\ Tidy
    BY <1>1, <1>3, <1>5, HandleTurn
  <1>7. ASSUME NEW d \in Conn
        PROVE  Passed(d)
    <2>1. PassesBy(d) \/ (d = c /\ Moves(c, msg))
      BY <1>1, <1>3, HandleConcerns DEF Concerns
    <2>2. \/ up'[d] = up[d]
          \/ /\ up[d] # <<>> /\ up'[d] = Tail(up[d])
             /\ IsLoss(up[d][1]) /\ Running' => d \notin DOMAIN connections'
      BY <1>1, <1>2, <1>3, LossHandled
    <2>3. PassesBy(d) \/ \E x : up[d] # <<>> /\ x = up[d][1] /\ Moves(d, x)
      BY <1>1, <1>2, <2>1
    <2>. QED  BY <2>2, <2>3, PassedOn DEF Passed
  <1>. QED  BY <1>4, <1>6, <1>7, <1>1, ActorTables

\* Somebody connects, and has been told nothing yet.
LEMMA ConnectTables ==
    ASSUME PathInv, PathInv', TableInv, NEW app \in Applications, Connect(app)
    PROVE  TableInv'
  <1>. DEFINE new == [NoSession EXCEPT !.status = "applying"]
              first == <<[type |-> "PasswordVerified"],
                         [type |-> "JoinRequested", application |-> app]>>
              fresh == [session EXCEPT ![nextConn] = new]
  <1>1. /\ ClientConnected /\ RoomStep /\ Transmit(fresh) /\ Running
        /\ up' = [up EXCEPT ![nextConn] = first] /\ nextConn <= MaxConn
        /\ UNCHANGED <<members, pendingMembership>>
    BY DEF Connect, ClientConnected, RoomStep, AdmissionEvent
  <1>2. /\ up \in [Conn -> Seq(Upward)] /\ session \in [Conn -> SessionRecord]
        /\ TypeOK /\ ActorInv /\ nextConn \in Nat /\ nextConn \in Conn
    <2>1. TypeOK /\ session \in [Conn -> SessionRecord] /\ up \in [Conn -> Seq(Upward)] /\ ActorInv
      BY SessionTypes, ActorTypes
    <2>2. nextConn \in 1..(MaxConn + 1) /\ MaxConn \in Nat
      BY <2>1, BoundsAssumption DEF TypeOK
    <2>. QED  BY <1>1, <2>1, <2>2 DEF Conn
  <1>3. new.table = {} /\ new.epoch = NoKey /\ new.status = "applying"
    BY DEF NoSession, NoKey
  <1>4. \A i \in DOMAIN first : ~ IsLoss(first[i]) /\ first[i].type # "EpochAck"
    BY DEF IsLoss
  <1>. HIDE DEF new, first
  <1>5. \A c \in Conn : /\ fresh[c] = IF c = nextConn THEN new ELSE session[c]
                        /\ up'[c] = IF c = nextConn THEN first ELSE up[c]
    BY <1>1, <1>2
  <1>. HIDE DEF fresh
  <1>6. Batches /\ nextConn <= nextConn'
    BY <1>1, <1>2, StepBatches, ConnectionsGrow
  <1>7. Turn /\ Tidy
    BY <1>1, ConnectTurn DEF Turn
  <1>8. ASSUME NEW d \in Conn, d # nextConn
        PROVE  fresh[d] = session[d] /\ Passed(d)
    <2>1. PassesBy(d)
      BY <1>1, <1>2, <1>8, ConnectPasses
    <2>. QED  BY <1>5, <1>8, <2>1, PassedOn DEF Passed
  <1>9. ASSUME NEW d \in Conn, d = nextConn
        PROVE  Knows(d)' /\ Reported(d)' /\ Residents(d)' = {}
    <2>1. ~ Live(d)
      BY <1>2, <1>9 DEF PathInv, Link
    <2>2. down'[d] = <<>> /\ session'[d] = new /\ up'[d] = first
      BY <1>1, <1>5, <1>9, <2>1 DEF Transmit
    <2>3. pendingMembership'[d] = <<>>
      BY <1>1, <1>2, <1>9 DEF TableInv
    <2>4. Residents(d)' = {}
      <3>1. \A m \in DOMAIN members : members[m].connection < nextConn
        BY <1>2 DEF ActorInv, KeyInv, TablesInv, TableFacts, Agree, ConnectionsIssued
      <3>. QED  BY <1>1, <1>2, <1>9, <3>1 DEF Residents
    <2>5. Uninformed(d)'
      BY <1>3, <2>2, <2>3, IdleMessages DEF Uninformed, Unaware
    <2>6. Reported(d)'
      BY <1>3, <1>4, <2>2 DEF Reported, Live
    <2>. QED  BY <2>4, <2>5, <2>6 DEF Knows
  <1>. QED  BY <1>1, <1>6, <1>7, <1>8, <1>9, ActorTables

\* The host is there, and knows itself; its first key is on its way.
LEMMA HostInformed ==
    ASSUME NEW w \in Downward, IsWrap(w), NEW v, NEW s, s.id = HostId, s.table = {v},
           NEW q \in Seq(Downward), q = <<w>>, NEW e
    PROVE  Aware(q, <<>>, s, {Person(v)}, 1, e, HostId)
  <1>1. DOMAIN q = {1} /\ q[1] = w
    OBVIOUS
  <1>2. ~ IsNews(w) /\ ~ IsEvent(w) /\ ~ IsRelay(w) /\ ~ IsAdmission(w)
    BY Sorts
  <1>3. Told(q, <<>>) = {}
    BY <1>1, <1>2 DEF Told, Range
  <1>4. Persons(s.table) = {Person(v)}
    BY DEF Persons
  <1>5. LeadsTo({}, {Person(v)}, {Person(v)}) /\ Acceptable({}, {Person(v)})
    BY NothingToTell
  <1>6. \A x \in Departed({}) : x < 1
    BY DEF Departed
  <1>7. KnowsItself(q, s.id, s.epoch, HostId) /\ Timed(q, s.epoch)
    BY <1>1, <1>2 DEF KnowsItself, Timed
  <1>8. SendersKnown(q, {}, {Person(v)})
    BY <1>1, <1>2 DEF SendersKnown
  <1>9. \A h \in {<<>>} : \A i \in DOMAIN h : h[i].epoch = e
    OBVIOUS
  <1>10. PICK N, T, h : N = Told(q, h) /\ T = Persons(s.table) /\ h = <<>>
    OBVIOUS
  <1>11. N = {} /\ T = {Person(v)}
    BY <1>3, <1>4, <1>10
  <1>12. LeadsTo(N, T, {Person(v)}) /\ Acceptable(N, T) /\ SendersKnown(q, N, T)
    BY <1>5, <1>8, <1>11
  <1>13. \A x \in Departed(N) : x < 1
    BY <1>6, <1>11
  <1>14. Aware(q, h, s, {Person(v)}, 1, e, HostId)
    BY <1>7, <1>9, <1>10, <1>11, <1>12, <1>13 DEF Aware
  <1>. QED  BY <1>10, <1>14

\* The room begins with the host in it.
LEMMA TableBegins ==
    ASSUME SessionInit
    PROVE  TableInv
  <1>. USE DEF HostId, HostConnection
  <1>1. PICK v : v = HostView
    OBVIOUS
  <1>2. DOMAIN members = {HostId} /\ members[HostId].connection = HostConnection
    BY DEF SessionInit, Init, With, Empty, Member
  <1>3. /\ nextConn = 1 /\ DOMAIN connections = {HostConnection}
        /\ pendingMembership = Silence /\ pendingEpoch.awaiting = {HostId} /\ epoch = 1
        /\ nextMemberId = 1
    BY DEF SessionInit, Init, With, Empty
  <1>4. HostConnection \in Conn
    BY BoundsAssumption DEF Conn
  <1>5. PICK w : w = EpochWrap(1)
    OBVIOUS
  <1>6. \A c \in Conn : outgoing.send[c] = IF c = HostConnection THEN <<w>> ELSE <<>>
    BY <1>4, <1>5 DEF SessionInit, Init, SendTo, Silence
  <1>7. \A c \in Conn : /\ up[c] = <<>> /\ down[c] = outgoing.send[c] /\ pendingMembership[c] = <<>>
                        /\ session[c] = IF c = HostConnection
                              THEN [NoSession EXCEPT !.status = "member", !.table = {v}]
                              ELSE NoSession
    BY <1>1, <1>3 DEF SessionInit, Silence
  <1>8. \A c \in Conn : Live(c) <=> c = HostConnection
    <2>1. /\ [NoSession EXCEPT !.status = "member", !.table = {v}].status = "member"
          /\ NoSession.status = "absent"
      BY DEF NoSession
    <2>2. \A c \in Conn : session[c].status = IF c = HostConnection THEN "member" ELSE "absent"
      BY <1>7, <2>1
    <2>. QED  BY <2>2 DEF Live
  <1>9. \A c \in Conn : Reported(c)
    BY <1>3, <1>7, <1>8 DEF Reported
  <1>10. Settled
    BY <1>2, <1>3 DEF Settled, Residents
  <1>11. Roster = {Person(v)}
    BY <1>1, <1>2 DEF Roster, HostView
  <1>12. Distinct(Roster)
    BY <1>11 DEF Distinct
  <1>13. Informed(HostConnection, HostId)
    <2>1. w \in Downward /\ IsWrap(w)
      BY <1>5 DEF EpochWrap, Downward, Message, IsWrap, IsRelay
    <2>2. PICK q \in Seq(Downward) : q = <<w>>
      <3>1. <<w>> \in Seq(Downward)
        BY <2>1
      <3>. QED  BY <3>1
    <2>3. PICK s : s = session[HostConnection]
      OBVIOUS
    <2>4. s.id = HostId /\ s.table = {v}
      BY <1>4, <1>7, <2>3 DEF NoSession
    <2>5. Aware(q, <<>>, s, {Person(v)}, 1, 1, HostId)
      BY <2>1, <2>2, <2>4, HostInformed
    <2>. QED  BY <1>3, <1>4, <1>6, <1>7, <1>11, <2>2, <2>3, <2>5 DEF Informed
  <1>14. Tables
    <2>1. Residents(HostConnection) \subseteq {HostId} /\ (Residents(HostConnection) = {} => FALSE)
      BY <1>2 DEF Residents, Running, SessionInit, Init
    <2>. QED  BY <1>8, <1>12, <1>13, <2>1 DEF Tables
  <1>. QED  BY <1>7, <1>9, <1>10, <1>14 DEF TableInv

\* Every step of the room with its participants.
LEMMA TableStep ==
    ASSUME PathInv, PathInv', TableInv, [SessionNext]_allVars
    PROVE  TableInv'
  <1>1. CASE Spontaneous
    BY <1>1, SpontaneousTables
  <1>2. ASSUME NEW c \in Conn, ActorReceives(c)
        PROVE  TableInv'
    BY <1>2, ActorReceivesTables
  <1>3. ASSUME NEW c \in Conn, ParticipantReceives(c)
        PROVE  TableInv'
    BY <1>3, ReceiveTables
  <1>4. ASSUME NEW c \in Conn, Disconnect(c)
        PROVE  TableInv'
    BY <1>4, DisconnectTables
  <1>5. ASSUME NEW c \in Conn, NEW kind \in Kinds, NEW body \in Bodies(kind), SendMessage(c, kind, body)
        PROVE  TableInv'
    BY <1>5, SendingTables
  <1>6. ASSUME NEW c \in Conn, NEW color \in Color, SendColor(c, color)
        PROVE  TableInv'
    BY <1>6, SendingTables
  <1>7. ASSUME NEW app \in Applications, Connect(app)
        PROVE  TableInv'
    BY <1>7, ConnectTables
  <1>8. ASSUME NEW i \in Intervals \cup {NoTimeout}, HostTimeout(i)
        PROVE  TableInv'
    BY <1>8, SendingTables
  <1>9. CASE UNCHANGED allVars
    <2>1. UNCHANGED <<session, up, down, nested, state, members, nextMemberId, connections, epoch,
                      pendingEpoch, pendingMembership, nextConn>>
      BY <1>9 DEF allVars, sessionVars, vars
    <2>2. Roster' = Roster
      BY <2>1 DEF Roster
    <2>3. \A c : Live(c)' = Live(c) /\ Residents(c)' = Residents(c)
      BY <2>1 DEF Live, Residents, Running
    <2>4. \A c : Uninformed(c)' = Uninformed(c)
      BY <2>1 DEF Uninformed
    <2>5. \A c, m : Informed(c, m)' = Informed(c, m)
      BY <2>1, <2>2 DEF Informed
    <2>6. \A c : Reported(c)' = Reported(c)
      BY <2>1, <2>3 DEF Reported, Running
    <2>7. Settled' = Settled
      BY <2>1, <2>3 DEF Settled
    <2>8. Tables' = Tables
      BY <2>2, <2>3, <2>4, <2>5 DEF Tables
    <2>. QED  BY <2>1, <2>6, <2>7, <2>8 DEF TableInv
  <1>. QED
    BY <1>1, <1>2, <1>3, <1>4, <1>5, <1>6, <1>7, <1>8, <1>9 DEF SessionNext

\* What is known of every participant's table, as an invariant: while no
\* transition has begun inside another, what is on its way to a member makes of
\* the persons in its table those who are in the room, its session accepts each
\* of these events when it arrives, and whoever is no member has been told nothing.
THEOREM TableInvariant == SessionSpec => []TableInv
  <1>1. PathInv /\ PathInv' /\ TableInv /\ [SessionNext]_allVars => TableInv'
    BY TableStep
  <1>2. SessionInit => TableInv
    BY TableBegins
  <1>. QED  BY <1>1, <1>2, SessionInvariant, PTL DEF SessionSpec

-----------------------------------------------------------------------------
(* Relays are new to whom they reach *)

\* The relays of q, as a session with key `key` and replay state `replay` meets
\* them, while the room is at epoch e and has recorded `heard`: each is newer than
\* what the session has of its sender under that key, and than the one before it;
\* and the room has recorded what is relayed and what the session has.
FreshRelays(q, key, replay, e, heard) ==
    /\ \A i \in DOMAIN q : IsRelay(q[i]) /\ q[i].envelope.epoch = e =>
          /\ q[i].envelope.sender \in DOMAIN heard
          /\ q[i].envelope.sequence <= heard[q[i].envelope.sender]
    /\ \A i \in DOMAIN q : /\ IsRelay(q[i]) /\ q[i].envelope.epoch = key
                           /\ q[i].envelope.sender \in DOMAIN replay
                           => replay[q[i].envelope.sender] < q[i].envelope.sequence
    /\ \A i, j \in DOMAIN q :
          /\ i < j /\ IsRelay(q[i]) /\ IsRelay(q[j])
          /\ q[i].envelope.epoch = q[j].envelope.epoch /\ q[i].envelope.sender = q[j].envelope.sender
          => q[i].envelope.sequence < q[j].envelope.sequence
    /\ key = e => \A x \in DOMAIN replay : x \in DOMAIN heard /\ replay[x] <= heard[x]
ReplayInv ==
    \A c \in Conn : FreshRelays(down[c], session[c].epoch, session[c].replay, epoch, chatReplay)

\* What a relay carries.
LEMMA RelayFields ==
    ASSUME NEW q \in Seq(Downward), NEW i \in DOMAIN q, IsRelay(q[i])
    PROVE  /\ q[i].envelope.epoch \in Nat /\ q[i].envelope.sequence \in Nat
           /\ q[i].envelope \in AnyEnvelope
  <1>1. q[i].envelope \in AnyEnvelope
    BY DownwardSeq
  <1>. QED  BY <1>1 DEF AnyEnvelope, Envelope

\* The replay state of the room moves forward.
Advanced(heard, heard2) ==
    \A x \in DOMAIN heard : /\ x \in DOMAIN heard2 /\ heard[x] \in Nat /\ heard2[x] \in Nat
                            /\ heard[x] <= heard2[x]

\* Two runs of messages, one behind the other.
LEMMA Joined ==
    ASSUME NEW q \in Seq(Downward), NEW a \in Seq(Downward)
    PROVE  /\ \A i \in DOMAIN (q \o a) :
                 \/ i \in DOMAIN q /\ i \in Nat /\ (q \o a)[i] = q[i]
                 \/ i - Len(q) \in DOMAIN a /\ i \in Nat /\ (q \o a)[i] = a[i - Len(q)] /\ i \notin DOMAIN q
           /\ Len(q) \in Nat
           /\ \A i, j \in DOMAIN (q \o a) : i < j /\ j \in DOMAIN q => i \in DOMAIN q
  BY Concat

\* Nothing to read follows what is on its way.
LEMMA NoneFollows ==
    ASSUME NEW q \in Seq(Downward), NEW a \in Seq(Downward), NEW key, NEW replay, NEW e, NEW heard,
           FreshRelays(q, key, replay, e, heard), \A i \in DOMAIN a : ~ IsRelay(a[i])
    PROVE  FreshRelays(q \o a, key, replay, e, heard)
  <1>1. \A i \in DOMAIN (q \o a) : IsRelay((q \o a)[i]) => i \in DOMAIN q /\ (q \o a)[i] = q[i]
    BY Joined
  <1>. QED  BY <1>1 DEF FreshRelays

\* The room has recorded more.
LEMMA HeardMore ==
    ASSUME NEW q \in Seq(Downward), NEW key, NEW e, NEW heard,
           NEW replay, \A x \in DOMAIN replay : replay[x] \in Nat,
           FreshRelays(q, key, replay, e, heard), NEW heard2, Advanced(heard, heard2)
    PROVE  FreshRelays(q, key, replay, e, heard2)
  <1>1. \A i \in DOMAIN q : IsRelay(q[i]) => q[i].envelope.sequence \in Nat
    BY RelayFields
  <1>2. \A i \in DOMAIN q : IsRelay(q[i]) /\ q[i].envelope.epoch = e =>
          /\ q[i].envelope.sender \in DOMAIN heard2
          /\ q[i].envelope.sequence <= heard2[q[i].envelope.sender]
    <2>. SUFFICES ASSUME NEW i \in DOMAIN q, IsRelay(q[i]) /\ q[i].envelope.epoch = e
                  PROVE  /\ q[i].envelope.sender \in DOMAIN heard2
                         /\ q[i].envelope.sequence <= heard2[q[i].envelope.sender]
      OBVIOUS
    <2>1. /\ q[i].envelope.sender \in DOMAIN heard
          /\ q[i].envelope.sequence <= heard[q[i].envelope.sender]
      BY DEF FreshRelays
    <2>. QED  BY <1>1, <2>1 DEF Advanced
  <1>3. key = e => \A x \in DOMAIN replay : x \in DOMAIN heard2 /\ replay[x] <= heard2[x]
    BY DEF Advanced, FreshRelays
  <1>. QED  BY <1>2, <1>3 DEF FreshRelays

\* A new epoch begins: no relay names it yet, and no session has its key.
LEMMA HeardAnew ==
    ASSUME NEW q \in Seq(Downward), NEW key, NEW replay, NEW e, NEW heard,
           FreshRelays(q, key, replay, e, heard), NEW e2, NEW heard2, key # e2,
           \A i \in DOMAIN q : IsRelay(q[i]) => q[i].envelope.epoch # e2
    PROVE  FreshRelays(q, key, replay, e2, heard2)
  BY DEF FreshRelays

\* A relay follows, newer than what the room has of its sender.
LEMMA OneFollows ==
    ASSUME NEW q \in Seq(Downward), NEW a \in Seq(Downward), NEW key, NEW e, NEW heard,
           NEW replay, \A x \in DOMAIN replay : replay[x] \in Nat,
           FreshRelays(q, key, replay, e, heard), NEW heard2, Advanced(heard, heard2),
           NEW env, env.epoch = e, env.sequence \in Nat,
           env.sender \in DOMAIN heard => heard[env.sender] < env.sequence,
           env.sender \in DOMAIN heard2, heard2[env.sender] = env.sequence,
           \A i \in DOMAIN a : IsRelay(a[i]) => a[i].envelope = env,
           \A i, j \in DOMAIN a : i = j
    PROVE  FreshRelays(q \o a, key, replay, e, heard2)
  <1>. DEFINE b == q \o a
  <1>1. \A i \in DOMAIN b : IsRelay(b[i]) =>
           \/ i \in DOMAIN q /\ b[i] = q[i]
           \/ i \notin DOMAIN q /\ b[i].envelope = env
    BY Joined
  <1>2. \A i, j \in DOMAIN b : i < j => i \in DOMAIN q
    <2>. SUFFICES ASSUME NEW i \in DOMAIN b, NEW j \in DOMAIN b, i < j, i \notin DOMAIN q
                  PROVE  FALSE
      OBVIOUS
    <2>1. j \notin DOMAIN q /\ i \in Nat /\ j \in Nat /\ Len(q) \in Nat
      BY Joined
    <2>2. i - Len(q) \in DOMAIN a /\ j - Len(q) \in DOMAIN a
      BY <2>1, Joined
    <2>. QED  BY <2>1, <2>2
  <1>3. \A i, j \in DOMAIN b : i < j /\ j \in DOMAIN q => i \in DOMAIN q
    BY Joined
  <1>. HIDE DEF b
  <1>4. FreshRelays(q, key, replay, e, heard2)
    BY HeardMore
  <1>5. \A i \in DOMAIN q : IsRelay(q[i]) => q[i].envelope.sequence \in Nat
    BY RelayFields
  <1>6. \A i \in DOMAIN b : IsRelay(b[i]) /\ b[i].envelope.epoch = e =>
          /\ b[i].envelope.sender \in DOMAIN heard2
          /\ b[i].envelope.sequence <= heard2[b[i].envelope.sender]
    BY <1>1, <1>4 DEF FreshRelays
  <1>7. \A i \in DOMAIN b : /\ IsRelay(b[i]) /\ b[i].envelope.epoch = key
                            /\ b[i].envelope.sender \in DOMAIN replay
                            => replay[b[i].envelope.sender] < b[i].envelope.sequence
    <2>. SUFFICES ASSUME NEW i \in DOMAIN b, IsRelay(b[i]), b[i].envelope.epoch = key,
                         b[i].envelope.sender \in DOMAIN replay
                  PROVE  replay[b[i].envelope.sender] < b[i].envelope.sequence
      OBVIOUS
    <2>1. CASE i \in DOMAIN q /\ b[i] = q[i]
      BY <2>1 DEF FreshRelays
    <2>2. CASE b[i].envelope = env
      <3>1. env.sender \in DOMAIN heard /\ replay[env.sender] <= heard[env.sender]
        BY <2>2 DEF FreshRelays
      <3>2. heard[env.sender] \in Nat /\ heard[env.sender] < env.sequence
        BY <3>1 DEF Advanced
      <3>. QED  BY <2>2, <3>1, <3>2
    <2>. QED  BY <1>1, <2>1, <2>2
  <1>8. \A i, j \in DOMAIN b :
          /\ i < j /\ IsRelay(b[i]) /\ IsRelay(b[j])
          /\ b[i].envelope.epoch = b[j].envelope.epoch /\ b[i].envelope.sender = b[j].envelope.sender
          => b[i].envelope.sequence < b[j].envelope.sequence
    <2>. SUFFICES ASSUME NEW i \in DOMAIN b, NEW j \in DOMAIN b, i < j, IsRelay(b[i]), IsRelay(b[j]),
                         b[i].envelope.epoch = b[j].envelope.epoch,
                         b[i].envelope.sender = b[j].envelope.sender
                  PROVE  b[i].envelope.sequence < b[j].envelope.sequence
      OBVIOUS
    <2>1. i \in DOMAIN q /\ b[i] = q[i]
      BY <1>1, <1>2
    <2>2. CASE j \in DOMAIN q /\ b[j] = q[j]
      BY <2>1, <2>2 DEF FreshRelays
    <2>3. CASE b[j].envelope = env
      <3>1. /\ q[i].envelope.sender = env.sender /\ env.sender \in DOMAIN heard
            /\ q[i].envelope.sequence <= heard[env.sender]
        BY <2>1, <2>3 DEF FreshRelays
      <3>2. heard[env.sender] \in Nat /\ q[i].envelope.sequence \in Nat
        BY <1>5, <2>1, <3>1 DEF Advanced
      <3>. QED  BY <2>1, <2>3, <3>1, <3>2
    <2>. QED  BY <1>1, <2>2, <2>3
  <1>. QED  BY <1>4, <1>6, <1>7, <1>8 DEF FreshRelays, b

\* What is left when the head is taken: another key starts afresh, and a relay
\* that is read is recorded.
LEMMA RelayTaken ==
    ASSUME NEW q \in Seq(Downward), q # <<>>, NEW key, NEW replay, NEW e, NEW heard,
           FreshRelays(q, key, replay, e, heard), NEW key2, NEW replay2,
           \/ key2 = key /\ replay2 = replay
           \/ replay2 = Empty
           \/ /\ key2 = key /\ IsRelay(q[1]) /\ q[1].envelope.epoch = key
              /\ replay2 = With(replay, q[1].envelope.sender, q[1].envelope.sequence)
    PROVE  FreshRelays(Tail(q), key2, replay2, e, heard)
  <1>. DEFINE t == Tail(q)
  <1>1. /\ t \in Seq(Downward) /\ 1 \in DOMAIN q
        /\ \A i \in DOMAIN t : i \in Nat /\ i >= 1 /\ i + 1 \in DOMAIN q /\ t[i] = q[i + 1]
    BY Onwards, Rest
  <1>. HIDE DEF t
  <1>2. \A i \in DOMAIN t : IsRelay(t[i]) /\ t[i].envelope.epoch = e =>
          /\ t[i].envelope.sender \in DOMAIN heard
          /\ t[i].envelope.sequence <= heard[t[i].envelope.sender]
    BY <1>1 DEF FreshRelays
  <1>3. \A i, j \in DOMAIN t :
          /\ i < j /\ IsRelay(t[i]) /\ IsRelay(t[j])
          /\ t[i].envelope.epoch = t[j].envelope.epoch /\ t[i].envelope.sender = t[j].envelope.sender
          => t[i].envelope.sequence < t[j].envelope.sequence
    <2>. SUFFICES ASSUME NEW i \in DOMAIN t, NEW j \in DOMAIN t, i < j, IsRelay(t[i]), IsRelay(t[j]),
                         t[i].envelope.epoch = t[j].envelope.epoch,
                         t[i].envelope.sender = t[j].envelope.sender
                  PROVE  t[i].envelope.sequence < t[j].envelope.sequence
      OBVIOUS
    <2>1. i + 1 \in DOMAIN q /\ j + 1 \in DOMAIN q /\ i + 1 < j + 1 /\ t[i] = q[i + 1] /\ t[j] = q[j + 1]
      BY <1>1
    <2>. QED  BY <2>1 DEF FreshRelays
  <1>4. CASE key2 = key /\ replay2 = replay
    <2>1. \A i \in DOMAIN t : /\ IsRelay(t[i]) /\ t[i].envelope.epoch = key
                              /\ t[i].envelope.sender \in DOMAIN replay
                              => replay[t[i].envelope.sender] < t[i].envelope.sequence
      BY <1>1 DEF FreshRelays
    <2>2. key = e => \A x \in DOMAIN replay : x \in DOMAIN heard /\ replay[x] <= heard[x]
      BY DEF FreshRelays
    <2>. QED  BY <1>2, <1>3, <1>4, <2>1, <2>2 DEF FreshRelays, t
  <1>5. CASE replay2 = Empty
    <2>1. DOMAIN replay2 = {}
      BY <1>5 DEF Empty
    <2>. QED  BY <1>2, <1>3, <2>1 DEF FreshRelays, t
  <1>6. CASE /\ key2 = key /\ IsRelay(q[1]) /\ q[1].envelope.epoch = key
             /\ replay2 = With(replay, q[1].envelope.sender, q[1].envelope.sequence)
    <2>1. /\ DOMAIN replay2 = DOMAIN replay \cup {q[1].envelope.sender}
          /\ replay2[q[1].envelope.sender] = q[1].envelope.sequence
          /\ \A x \in DOMAIN replay : x # q[1].envelope.sender => replay2[x] = replay[x]
      BY <1>6 DEF With
    <2>2. ASSUME NEW i \in DOMAIN t, IsRelay(t[i]), t[i].envelope.epoch = key,
                 t[i].envelope.sender \in DOMAIN replay2
          PROVE  replay2[t[i].envelope.sender] < t[i].envelope.sequence
      <3>1. i + 1 \in DOMAIN q /\ 1 < i + 1 /\ t[i] = q[i + 1]
        BY <1>1
      <3>2. CASE t[i].envelope.sender = q[1].envelope.sender
        <4>1. q[1].envelope.sequence < q[i + 1].envelope.sequence
          BY <1>1, <1>6, <2>2, <3>1, <3>2 DEF FreshRelays
        <4>. QED  BY <2>1, <3>1, <3>2, <4>1
      <3>3. CASE t[i].envelope.sender # q[1].envelope.sender
        BY <2>1, <2>2, <3>1, <3>3 DEF FreshRelays
      <3>. QED  BY <3>2, <3>3
    <2>3. ASSUME key = e, NEW x \in DOMAIN replay2
          PROVE  x \in DOMAIN heard /\ replay2[x] <= heard[x]
      <3>1. CASE x = q[1].envelope.sender
        BY <1>1, <1>6, <2>1, <2>3, <3>1 DEF FreshRelays
      <3>2. CASE x # q[1].envelope.sender
        BY <2>1, <2>3, <3>2 DEF FreshRelays
      <3>. QED  BY <3>1, <3>2
    <2>. QED  BY <1>2, <1>3, <1>6, <2>2, <2>3 DEF FreshRelays, t
  <1>. QED  BY <1>4, <1>5, <1>6

\* A link that is cut, and a session that has recorded nothing.
LEMMA NothingToRead ==
    ASSUME NEW key, NEW replay, NEW e, NEW heard
    PROVE  /\ \A q : FreshRelays(q, key, replay, e, heard) => FreshRelays(<<>>, key, replay, e, heard)
           /\ FreshRelays(<<>>, key, Empty, e, heard)
  <1>1. DOMAIN <<>> = {} /\ DOMAIN Empty = {}
    BY DEF Empty
  <1>. QED  BY <1>1 DEF FreshRelays

\* What a step of the actor relays: nothing, at the beginning of an epoch or
\* within one, or one envelope, newer than what it had of its sender.
RelaysNone == NoRelay(outgoing'.send)
RelaysOne(env) ==
    /\ env.epoch = epoch /\ env.sequence \in Nat
    /\ env.sender \in DOMAIN chatReplay => chatReplay[env.sender] < env.sequence
    /\ env.sender \in DOMAIN chatReplay' /\ chatReplay'[env.sender] = env.sequence
    /\ \A d \in Conn : /\ \A i \in DOMAIN outgoing'.send[d] : outgoing'.send[d][i] = Relay(env)
                       /\ \A i, j \in DOMAIN outgoing'.send[d] : i = j
Relays ==
    \/ RelaysNone /\ epoch' = epoch + 1
    \/ /\ epoch' = epoch /\ Advanced(chatReplay, chatReplay')
       /\ RelaysNone \/ \E env : RelaysOne(env)

\* A step of the actor relays one message at most.
LEMMA StepRelays ==
    ASSUME KeyInv, RoomStep
    PROVE  Relays
  <1>1. TypeOK
    BY DEF KeyInv, TablesInv
  <1>2. \A s \in DOMAIN chatReplay : chatReplay[s] \in Nat
    BY <1>1 DEF TypeOK, IsMap
  <1>3. Relaying \/ Admitting \/ Unrelayed
    BY RelayKinds
  <1>4. CASE Admitting
    <2>1. epoch' = epoch + 1
      BY <1>4 DEF Admitting, AcceptJoin, BeginEpochTransition
    <2>. QED  BY <1>4, <2>1, AdmittingMute DEF Relays, RelaysNone
  <1>5. CASE Unrelayed
    <2>1. CASE epoch' = epoch + 1
      BY <1>5, <2>1 DEF Relays, RelaysNone, Unrelayed
    <2>2. CASE epoch' = epoch /\ chatReplay' = chatReplay
      <3>1. Advanced(chatReplay, chatReplay')
        BY <1>2, <2>2 DEF Advanced
      <3>. QED  BY <1>5, <2>2, <3>1 DEF Relays, RelaysNone, Unrelayed
    <2>3. CASE /\ epoch' = epoch
               /\ \E env : Fresh(env) /\ env.sequence \in Nat /\ RecordSequence(env)
      <3>1. Advanced(chatReplay, chatReplay')
        BY <1>1, <2>3, RecordForward DEF Advanced
      <3>. QED  BY <1>5, <2>3, <3>1 DEF Relays, RelaysNone, Unrelayed
    <2>. QED  BY <1>5, <2>1, <2>2, <2>3 DEF Unrelayed, ReplayAdvances
  <1>6. CASE Relaying
    <2>1. PICK c \in Conn, env \in AnyEnvelope : ChatRelayed(c, env)
      BY <1>6 DEF Relaying
    <2>2. env.sequence \in Nat
      BY DEF AnyEnvelope, Envelope
    <2>3. /\ Fresh(env) /\ RecordSequence(env) /\ epoch' = epoch
          /\ outgoing'.send = SendAll(Recipients(c), Relay(env))
      BY <2>1 DEF ChatRelayed, Accepted, Emit
    <2>4. /\ DOMAIN chatReplay' = DOMAIN chatReplay \cup {env.sender}
          /\ chatReplay'[env.sender] = env.sequence
          /\ Advanced(chatReplay, chatReplay')
      BY <1>1, <2>2, <2>3, RecordForward DEF Advanced
    <2>5. env.epoch = epoch /\ \A d \in Conn : \A i \in DOMAIN outgoing'.send[d] : outgoing'.send[d][i] = Relay(env)
      BY <2>1, RelayedTo
    <2>6. \A d \in Conn : \A i, j \in DOMAIN outgoing'.send[d] : i = j
      <3>. SUFFICES ASSUME NEW d \in Conn
                    PROVE  \A i, j \in DOMAIN outgoing'.send[d] : i = j
        OBVIOUS
      <3>1. outgoing'.send[d] = <<>> \/ outgoing'.send[d] = <<Relay(env)>>
        BY <2>3 DEF SendAll
      <3>. QED  BY <3>1
    <2>7. env.sender \in DOMAIN chatReplay => chatReplay[env.sender] < env.sequence
      BY <1>2, <2>2, <2>3 DEF Fresh
    <2>8. RelaysOne(env)
      BY <2>2, <2>4, <2>5, <2>6, <2>7 DEF RelaysOne
    <2>. QED  BY <2>3, <2>4, <2>8 DEF Relays
  <1>. QED  BY <1>3, <1>4, <1>5, <1>6

\* A step of the actor keeps what reaches one connection new to it.
LEMMA TransmitReplay ==
    ASSUME PathInv, PathInv', Batches, Relays, ReplayInv, NEW fresh, Transmit(fresh), NEW c \in Conn,
           fresh[c] = session[c] \/ (~ Live(c) /\ fresh[c].replay = Empty)
    PROVE  FreshRelays(down'[c], session'[c].epoch, session'[c].replay, epoch', chatReplay')
  <1>0. /\ session'[c] = IF c \in outgoing'.close /\ Live(c) THEN ClosedSession ELSE fresh[c]
        /\ down'[c] = IF c \in outgoing'.close \/ ~ Live(c) THEN <<>>
                      ELSE down[c] \o outgoing'.send[c] \o NoticesTo(c)
    BY DEF Transmit
  <1>1. ClosedSession.replay = Empty
    BY DEF ClosedSession, NoSession
  <1>2. PICK s : s = session[c]
    OBVIOUS
  <1>3. PICK heard, heard2, e, e2 : heard = chatReplay /\ heard2 = chatReplay' /\ e = epoch /\ e2 = epoch'
    OBVIOUS
  <1>4. /\ down[c] \in Seq(Downward) /\ session[c] \in SessionRecord
        /\ epoch \in Nat /\ s.epoch \in Nat /\ s.epoch <= e
    BY <1>2, <1>3, SessionTypes DEF PathInv, Path, OnCourse
  <1>5. \A x \in DOMAIN s.replay : s.replay[x] \in Nat
    <2>1. s.replay \in UNION {[S -> Nat] : S \in SUBSET Nat}
      BY <1>2, <1>4 DEF SessionRecord
    <2>2. PICK S \in SUBSET Nat : s.replay \in [S -> Nat]
      BY <2>1
    <2>. QED  BY <2>2
  <1>6. PICK q \in Seq(Downward) : q = down[c]
    BY <1>4
  <1>7. FreshRelays(q, s.epoch, s.replay, e, heard)
    BY <1>2, <1>3, <1>6 DEF ReplayInv
  <1>8. \A i \in DOMAIN q : IsRelay(q[i]) => q[i].envelope.epoch \in Nat /\ q[i].envelope.epoch <= e
    BY <1>3, <1>6, ToldBefore
  <1>9. ASSUME NEW p \in Seq(Downward), FreshRelays(p, s.epoch, s.replay, e, heard),
               \A i \in DOMAIN p : IsRelay(p[i]) => p[i].envelope.epoch \in Nat /\ p[i].envelope.epoch <= e,
               \/ epoch' = epoch + 1
               \/ epoch' = epoch /\ Advanced(chatReplay, chatReplay')
        PROVE  FreshRelays(p, s.epoch, s.replay, e2, heard2)
    <2>1. CASE epoch' = epoch + 1
      <3>1. s.epoch # e2 /\ \A i \in DOMAIN p : IsRelay(p[i]) => p[i].envelope.epoch # e2
        BY <1>3, <1>4, <1>9, <2>1
      <3>. QED  BY <1>9, <3>1, HeardAnew
    <2>2. CASE epoch' = epoch /\ Advanced(chatReplay, chatReplay')
      <3>1. e2 = e /\ Advanced(heard, heard2)
        BY <1>3, <2>2
      <3>. QED  BY <1>5, <1>9, <3>1, HeardMore
    <2>. QED  BY <1>9, <2>1, <2>2
  <1>10. FreshRelays(<<>>, s.epoch, s.replay, e2, heard2)
    <2>1. FreshRelays(q, s.epoch, s.replay, e2, heard2)
      BY <1>7, <1>8, <1>9 DEF Relays
    <2>. QED  BY <2>1, NothingToRead
  <1>11. CASE Live(c)' /\ fresh[c] = session[c]
    <2>1. /\ session'[c] = s /\ outgoing'.send[c] \in Seq(Downward)
          /\ \E n \in Seq(Downward) : Idle(n) /\ down'[c] = (q \o outgoing'.send[c]) \o n
      BY <1>2, <1>6, <1>11, Delivered DEF PathInv, KeyInv, TablesInv
    <2>2. PICK a \in Seq(Downward) : a = outgoing'.send[c]
      BY <2>1
    <2>3. PICK n \in Seq(Downward) : Idle(n) /\ down'[c] = (q \o a) \o n
      BY <2>1, <2>2
    <2>4. FreshRelays(q \o a, s.epoch, s.replay, e2, heard2)
      <3>1. CASE RelaysNone
        <4>1. \A i \in DOMAIN a : ~ IsRelay(a[i])
          BY <2>2, <3>1 DEF RelaysNone, NoRelay, IsRelay
        <4>2. FreshRelays(q, s.epoch, s.replay, e2, heard2)
          BY <1>7, <1>8, <1>9 DEF Relays
        <4>. QED  BY <4>1, <4>2, NoneFollows
      <3>2. CASE epoch' = epoch /\ Advanced(chatReplay, chatReplay') /\ \E env : RelaysOne(env)
        <4>1. PICK env : RelaysOne(env)
          BY <3>2
        <4>2. /\ env.epoch = e /\ env.sequence \in Nat
              /\ env.sender \in DOMAIN heard => heard[env.sender] < env.sequence
              /\ env.sender \in DOMAIN heard2 /\ heard2[env.sender] = env.sequence
              /\ Advanced(heard, heard2) /\ e2 = e
          BY <1>3, <3>2, <4>1 DEF RelaysOne
        <4>3. /\ \A i \in DOMAIN a : IsRelay(a[i]) => a[i].envelope = env
              /\ \A i, j \in DOMAIN a : i = j
          BY <2>2, <4>1 DEF RelaysOne, Relay
        <4>. QED  BY <1>5, <1>7, <4>2, <4>3, OneFollows
      <3>. QED  BY <3>1, <3>2 DEF Relays
    <2>5. \A i \in DOMAIN n : ~ IsRelay(n[i])
      BY <2>3 DEF Idle
    <2>6. q \o a \in Seq(Downward)
      BY Concat
    <2>7. FreshRelays((q \o a) \o n, s.epoch, s.replay, e2, heard2)
      BY <2>4, <2>5, <2>6, NoneFollows
    <2>. QED  BY <1>3, <2>1, <2>3, <2>7
  <1>12. CASE ~ Live(c)' /\ fresh[c] = session[c]
    <2>1. down'[c] = <<>>
      BY <1>12 DEF PathInv, Link
    <2>2. session'[c] = ClosedSession \/ session'[c] = s
      BY <1>0, <1>2, <1>12
    <2>3. CASE session'[c] = ClosedSession
      BY <1>1, <2>1, <2>3, NothingToRead
    <2>4. CASE session'[c] = s
      BY <1>3, <1>10, <2>1, <2>4
    <2>. QED  BY <2>2, <2>3, <2>4
  <1>13. CASE ~ Live(c) /\ fresh[c].replay = Empty
    <2>1. down'[c] = <<>> /\ session'[c].replay = Empty
      BY <1>0, <1>1, <1>13
    <2>. QED  BY <2>1, NothingToRead
  <1>. QED  BY <1>11, <1>12, <1>13

\* The room begins with nothing relayed.
LEMMA ReplayBegins ==
    ASSUME SessionInit
    PROVE  ReplayInv
  <1>. SUFFICES ASSUME NEW c \in Conn
                PROVE  FreshRelays(down[c], session[c].epoch, session[c].replay, epoch, chatReplay)
    BY DEF ReplayInv
  <1>1. session[c].replay = Empty
    BY DEF SessionInit, NoSession
  <1>2. down[c] = outgoing.send[c]
    BY DEF SessionInit
  <1>3. \A i \in DOMAIN outgoing.send[c] : ~ IsRelay(outgoing.send[c][i])
    <2>1. outgoing.send = SendTo(HostConnection, EpochWrap(1))
      BY DEF SessionInit, Init
    <2>2. outgoing.send[c] = <<>> \/ outgoing.send[c] = <<EpochWrap(1)>>
      BY <2>1 DEF SendTo, Silence
    <2>3. ~ IsRelay(EpochWrap(1))
      BY DEF EpochWrap, IsRelay
    <2>. QED  BY <2>2, <2>3
  <1>4. DOMAIN Empty = {}
    BY DEF Empty
  <1>. QED  BY <1>1, <1>2, <1>3, <1>4 DEF FreshRelays

\* A participant takes what is next.
LEMMA ReceiveReplay ==
    ASSUME PathInv, ReplayInv, NEW c \in Conn, ParticipantReceives(c)
    PROVE  ReplayInv'
  <1>1. /\ OwnStep(c) /\ down[c] # <<>> /\ down[c] \in Seq(Downward) /\ down'[c] = Tail(down[c])
        /\ session[c] \in SessionRecord /\ Takes(c, down[c][1])
    BY ReceiveTakes
  <1>2. epoch' = epoch /\ chatReplay' = chatReplay
    BY <1>1 DEF OwnStep, vars
  <1>3. \A d \in Conn : d # c => down'[d] = down[d] /\ session'[d] = session[d]
    BY <1>1 DEF OwnStep
  <1>4. PICK q, s, s2 : /\ q \in Seq(Downward) /\ q = down[c]
                        /\ s = session[c] /\ s2 = session'[c]
    BY <1>1
  <1>5. \/ s2.epoch = s.epoch /\ s2.replay = s.replay
        \/ s2.replay = Empty
        \/ /\ s2.epoch = s.epoch /\ IsRelay(q[1]) /\ q[1].envelope.epoch = s.epoch
           /\ s2.replay = With(s.replay, q[1].envelope.sender, q[1].envelope.sequence)
    <2>1. CASE IsEvent(q[1]) /\ s2 = AfterEvent(s, q[1])
      BY <1>1, <1>4, <2>1 DEF AfterEvent, SessionRecord
    <2>2. CASE IsRelay(q[1]) /\ s2 = AfterRelay(s, q[1].envelope)
      BY <1>1, <1>4, <2>2 DEF AfterRelay, CanOpen, SessionRecord
    <2>. QED  BY <1>1, <1>4, <2>1, <2>2 DEF Takes, SameTables
  <1>6. PICK e, heard : e = epoch /\ heard = chatReplay
    OBVIOUS
  <1>7. FreshRelays(q, s.epoch, s.replay, e, heard)
    BY <1>4, <1>6 DEF ReplayInv
  <1>8. FreshRelays(Tail(q), s2.epoch, s2.replay, e, heard)
    BY <1>1, <1>4, <1>5, <1>7, RelayTaken
  <1>9. FreshRelays(down'[c], session'[c].epoch, session'[c].replay, epoch', chatReplay')
    BY <1>1, <1>2, <1>4, <1>6, <1>8
  <1>10. ASSUME NEW d \in Conn, d # c
         PROVE  FreshRelays(down'[d], session'[d].epoch, session'[d].replay, epoch', chatReplay')
    <2>1. FreshRelays(down[d], session[d].epoch, session[d].replay, epoch, chatReplay)
      BY DEF ReplayInv
    <2>. QED  BY <1>2, <1>3, <1>10, <2>1
  <1>. QED  BY <1>9, <1>10 DEF ReplayInv

\* Every step of the room with its participants keeps relays new.
LEMMA ReplayStep ==
    ASSUME PathInv, PathInv', ReplayInv, [SessionNext]_allVars
    PROVE  ReplayInv'
  <1>0. /\ session \in [Conn -> SessionRecord] /\ KeyInv /\ ActorInv
        /\ \A d \in Conn : FreshRelays(down[d], session[d].epoch, session[d].replay, epoch, chatReplay)
    BY SessionTypes DEF PathInv, ReplayInv
  <1>1. ASSUME NEW fresh, Transmit(fresh), RoomStep,
               \A c \in Conn : fresh[c] = session[c] \/ (~ Live(c) /\ fresh[c].replay = Empty)
        PROVE  ReplayInv'
    <2>1. Batches /\ Relays
      BY <1>0, <1>1, StepBatches, StepRelays
    <2>. QED  BY <1>1, <2>1, TransmitReplay DEF ReplayInv
  <1>2. CASE Spontaneous
    <2>1. RoomStep /\ Transmit(session)
      BY <1>2 DEF Spontaneous, RoomStep, EpochEvent
    <2>. QED  BY <1>1, <2>1
  <1>3. ASSUME NEW c \in Conn, ActorReceives(c)
        PROVE  ReplayInv'
    <2>1. RoomStep /\ Transmit(session)
      BY <1>3, HandleIsRoomStep DEF ActorReceives
    <2>. QED  BY <1>1, <2>1
  <1>4. ASSUME NEW app \in Applications, Connect(app)
        PROVE  ReplayInv'
    <2>. DEFINE new == [NoSession EXCEPT !.status = "applying"]
                fresh == [session EXCEPT ![nextConn] = new]
    <2>1. RoomStep /\ Transmit(fresh)
      BY <1>4 DEF Connect, RoomStep, AdmissionEvent
    <2>2. new.replay = Empty
      BY DEF NoSession
    <2>. HIDE DEF new
    <2>3. nextConn \in Conn => ~ Live(nextConn)
      BY <1>0 DEF PathInv, Link, ActorInv, KeyInv, TablesInv, TypeOK
    <2>4. \A c \in Conn : fresh[c] = IF c = nextConn THEN new ELSE session[c]
      BY <1>0
    <2>. HIDE DEF fresh
    <2>5. \A c \in Conn : fresh[c] = session[c] \/ (~ Live(c) /\ fresh[c].replay = Empty)
      BY <2>2, <2>3, <2>4
    <2>. QED  BY <1>1, <2>1, <2>5
  <1>5. ASSUME NEW c \in Conn, ParticipantReceives(c)
        PROVE  ReplayInv'
    BY <1>5, ReceiveReplay
  <1>6. ASSUME NEW c \in Conn, Disconnect(c)
        PROVE  ReplayInv'
    <2>1. /\ epoch' = epoch /\ chatReplay' = chatReplay
          /\ session' = [session EXCEPT ![c] = ClosedSession]
          /\ down' = [down EXCEPT ![c] = <<>>]
      BY <1>6 DEF Disconnect, vars
    <2>2. ClosedSession.replay = Empty
      BY DEF ClosedSession, NoSession
    <2>3. down \in [Conn -> Seq(Downward)]
      BY SessionTypes
    <2>4. ASSUME NEW d \in Conn
          PROVE  FreshRelays(down'[d], session'[d].epoch, session'[d].replay, epoch', chatReplay')
      <3>1. CASE d = c
        <4>1. down'[d] = <<>> /\ session'[d].replay = Empty
          BY <1>0, <2>1, <2>2, <2>3, <3>1
        <4>. QED  BY <4>1, NothingToRead
      <3>2. CASE d # c
        <4>1. down'[d] = down[d] /\ session'[d] = session[d]
          BY <1>0, <2>1, <2>3, <3>2
        <4>. QED  BY <1>0, <2>1, <4>1
      <3>. QED  BY <3>1, <3>2
    <2>. QED  BY <2>4 DEF ReplayInv
  <1>7. ASSUME UNCHANGED <<epoch, chatReplay, down>>,
               \A d \in Conn : /\ session'[d].epoch = session[d].epoch
                               /\ session'[d].replay = session[d].replay
        PROVE  ReplayInv'
    <2>1. ASSUME NEW d \in Conn
          PROVE  FreshRelays(down'[d], session'[d].epoch, session'[d].replay, epoch', chatReplay')
      BY <1>0, <1>7
    <2>. QED  BY <2>1 DEF ReplayInv
  <1>8. ASSUME NEW c \in Conn, NEW kind, NEW body, SendMessage(c, kind, body)
        PROVE  ReplayInv'
    <2>1. /\ UNCHANGED <<epoch, chatReplay, down>>
          /\ session' = [session EXCEPT ![c].senderSequence = @ + 1]
      BY <1>8 DEF SendMessage, vars
    <2>2. \A d \in Conn : /\ session'[d].epoch = session[d].epoch
                          /\ session'[d].replay = session[d].replay
      BY <1>0, <2>1 DEF SessionRecord
    <2>. QED  BY <1>7, <2>1, <2>2
  <1>9. ASSUME NEW c \in Conn, NEW color, SendColor(c, color)
        PROVE  ReplayInv'
    <2>1. /\ UNCHANGED <<epoch, chatReplay, down>>
          /\ session' = [session EXCEPT ![c].senderSequence = @ + 1,
                                        ![c].table = Recoloured(@, session[c].id, color)]
      BY <1>9 DEF SendColor, vars
    <2>2. \A d \in Conn : /\ session'[d].epoch = session[d].epoch
                          /\ session'[d].replay = session[d].replay
      BY <1>0, <2>1 DEF SessionRecord
    <2>. QED  BY <1>7, <2>1, <2>2
  <1>10. ASSUME NEW i, HostTimeout(i)
         PROVE  ReplayInv'
    <2>1. /\ UNCHANGED <<epoch, chatReplay, down>>
          /\ session' = [session EXCEPT ![HostConnection].senderSequence = @ + 1,
                                        ![HostConnection].timeout = i]
      BY <1>10 DEF HostTimeout, vars
    <2>2. \A d \in Conn : /\ session'[d].epoch = session[d].epoch
                          /\ session'[d].replay = session[d].replay
      BY <1>0, <2>1 DEF SessionRecord
    <2>. QED  BY <1>7, <2>1, <2>2
  <1>11. CASE UNCHANGED allVars
    <2>1. UNCHANGED <<epoch, chatReplay, down, session>>
      BY <1>11 DEF allVars, sessionVars, vars
    <2>. QED  BY <1>7, <2>1
  <1>. QED  BY <1>2, <1>3, <1>4, <1>5, <1>6, <1>8, <1>9, <1>10, <1>11 DEF SessionNext

\* Relays are new to whom they reach.
LEMMA ReplayInvariant == SessionSpec => []ReplayInv
  <1>1. PathInv /\ PathInv' /\ ReplayInv /\ [SessionNext]_allVars => ReplayInv'
    BY ReplayStep
  <1>2. SessionInit => ReplayInv
    BY ReplayBegins
  <1>. QED  BY <1>1, <1>2, SessionInvariant, PTL DEF SessionSpec

-----------------------------------------------------------------------------
(* What a participant cannot read *)

\* The first message on its way to a participant is a relay: it has its key, its
\* sender is in the table or to be introduced, and it is new.
LEMMA HeadReadable ==
    ASSUME PathInv, TableInv, ReplayInv, ~ nested, NEW c \in Conn, down[c] # <<>>,
           NEW env, IsRelay(down[c][1]), env = down[c][1].envelope
    PROVE  CanOpen(session[c], env) \/ (env.epoch = session[c].epoch /\ Announced(c, env.sender))
  <1>1. /\ down[c] \in Seq(Downward) /\ session[c] \in SessionRecord /\ Live(c)
        /\ pendingMembership[c] \in Seq(Downward)
    BY SessionTypes DEF PathInv, Link
  <1>2. PICK q, h, s : /\ q \in Seq(Downward) /\ q = down[c] /\ h = pendingMembership[c]
                       /\ s = session[c] /\ h \in Seq(Downward)
    BY <1>1
  <1>3. 1 \in DOMAIN q
    BY <1>2, Onwards
  <1>4. env.epoch = s.epoch
    <2>1. RelaysReadable(q, s.epoch)
      BY <1>2 DEF PathInv, Path, OnCourse
    <2>2. \A j : j \notin 1..(1 - 1)
      OBVIOUS
    <2>. QED  BY <1>2, <1>3, <2>1, <2>2 DEF RelaysReadable
  <1>5. env.sender \in DOMAIN s.replay => env.sequence > s.replay[env.sender]
    <2>1. env.sender \in DOMAIN s.replay => s.replay[env.sender] < env.sequence
      BY <1>2, <1>3, <1>4 DEF ReplayInv, FreshRelays
    <2>2. env.sequence \in Nat
      BY <1>2, <1>3, RelayFields
    <2>3. s.replay \in UNION {[S -> Nat] : S \in SUBSET Nat}
      BY <1>1, <1>2 DEF SessionRecord
    <2>4. PICK S \in SUBSET Nat : s.replay \in [S -> Nat]
      BY <2>3
    <2>. QED  BY <2>1, <2>2, <2>4
  <1>6. PICK m : Informed(c, m)
    <2>1. \A m \in Residents(c) : Informed(c, m)
      BY <1>1 DEF TableInv, Tables
    <2>2. ~ Uninformed(c)
      BY <1>2, <1>3 DEF Uninformed, Unaware, Idle
    <2>3. Residents(c) # {}
      BY <1>1, <2>2 DEF TableInv, Tables
    <2>. QED  BY <2>1, <2>3
  <1>7. \E p \in Persons(s.table) \cup Introduced(Told(q, h)) : p.id = env.sender
    BY <1>2, <1>3, <1>6 DEF Informed, Aware, SendersKnown, SenderKnown
  <1>8. CASE \E p \in Persons(s.table) : p.id = env.sender
    <2>1. \E v \in s.table : v.id = env.sender
      BY <1>8 DEF Persons, Person
    <2>2. CanOpen(s, env)
      BY <1>4, <1>5, <2>1 DEF CanOpen
    <2>. QED  BY <1>2, <2>2
  <1>9. CASE \E p \in Introduced(Told(q, h)) : p.id = env.sender
    <2>1. PICK p \in Introduced(Told(q, h)) : p.id = env.sender
      BY <1>9
    <2>2. PICK ev \in Told(q, h) : p \in People(ev)
      BY <2>1, NewsSets
    <2>3. ev \in Range(down[c]) \cup Range(pendingMembership[c])
      BY <1>2 DEF Told
    <2>0. ev \in News
      <3>1. Told(q, h) \in SUBSET News
        BY <1>2, ToldAlong
      <3>. QED  BY <3>1
    <2>4. CASE IsJoin(ev)
      <3>0. People(ev) = {Person(ev.member)}
        BY <2>0, <2>4, NewsFields
      <3>1. p = Person(ev.member)
        BY <2>2, <3>0
      <3>2. ev.member.id = env.sender
        BY <2>1, <3>1 DEF Person
      <3>3. Announced(c, env.sender)
        BY <2>3, <2>4, <3>2 DEF Announced, IsJoin
      <3>. QED  BY <1>2, <1>4, <3>3
    <2>5. CASE IsSnapshot(ev)
      <3>0. People(ev) = Persons(ev.members)
        BY <2>0, <2>5, NewsFields
      <3>1. p \in Persons(ev.members)
        BY <2>2, <3>0
      <3>2. PICK v \in ev.members : v.id = env.sender
        BY <2>1, <3>1 DEF Persons, Person
      <3>3. env.sender \in {x.id : x \in ev.members}
        BY <3>2
      <3>4. Announced(c, env.sender)
        BY <2>3, <2>5, <3>3 DEF Announced, IsSnapshot
      <3>. QED  BY <1>2, <1>4, <3>4
    <2>. QED  BY <2>2, <2>4, <2>5 DEF People
  <1>. QED  BY <1>7, <1>8, <1>9

\* While no transition has begun inside another, the event a participant reads next
\* is one its session accepts.
LEMMA HeadTaken ==
    ASSUME PathInv, TableInv, ~ nested, NEW c \in Conn, down[c] # <<>>, IsEvent(down[c][1])
    PROVE  TakesEvent(session[c], down[c][1])
  <1>1. /\ down[c] \in Seq(Downward) /\ session[c] \in SessionRecord /\ Live(c)
        /\ pendingMembership[c] \in Seq(Downward)
    BY SessionTypes DEF PathInv, Link
  <1>2. PICK q, h, s : /\ q \in Seq(Downward) /\ q = down[c] /\ h = pendingMembership[c]
                       /\ s = session[c] /\ h \in Seq(Downward)
    BY <1>1
  <1>3. 1 \in DOMAIN q
    BY <1>2, Onwards
  <1>4. PICK m : Informed(c, m)
    <2>1. \A m \in Residents(c) : Informed(c, m)
      BY <1>1 DEF TableInv, Tables
    <2>2. ~ Uninformed(c)
      BY <1>2, <1>3 DEF Uninformed, Unaware, Idle
    <2>3. Residents(c) # {}
      BY <1>1, <2>2 DEF TableInv, Tables
    <2>. QED  BY <2>1, <2>3
  <1>5. Aware(q, h, s, Roster, nextMemberId, epoch, m)
    BY <1>2, <1>4 DEF Informed
  <1>6. OnCourse(q, h, s.epoch, s.lastRoomSequence, epoch, roomSequence)
    BY <1>2 DEF PathInv, Path
  <1>. QED  BY <1>1, <1>2, <1>5, <1>6, AwareAccepts

\* Wraps reach every participant newest last and newer than its key, so that
\* set_epoch_from_wrap never meets OldEpoch; every relay meets exactly the key it was
\* sealed under; signed events come in sequence, though a transition holds some back
\* and JOIN_POLICY_CHANGED overtakes them; and every one of them is accepted by the
\* session that reads it unless a transition began inside another: for any number of
\* connections, any messages in flight and any order of delivery.
THEOREM ArrivalTheorem == SessionSpec => []ArrivesAsExpected
  <1>1. PathInv /\ TableInv => EventsTakenUnlessNested
    <2>. SUFFICES ASSUME PathInv, TableInv, ~ nested, NEW c \in Conn, down[c] # <<>>,
                         Head(down[c]).type \in EventTypes
                  PROVE  TakesEvent(session[c], Head(down[c]))
      BY DEF EventsTakenUnlessNested
    <2>1. Head(down[c]) = down[c][1]
      BY SessionTypes, Rest
    <2>. QED  BY <2>1, HeadTaken DEF IsEvent
  <1>2. PathInv /\ TableInv => ArrivesAsExpected
    BY <1>1, OrderOfArrival DEF ArrivesAsExpected
  <1>. QED  BY <1>2, SessionInvariant, TableInvariant, PTL

\* While no transition has begun inside another, a relayed message a participant
\* cannot read is one of somebody whose joining it has still to be told of: until then
\* no key, no member table and no replay state hides a message for another reason
\* (decrypt_chat, set_epoch_from_wrap and the broadcasts of the actor).  Afterwards a
\* table may lack its sender for good, and the formula claims nothing.
THEOREM UnreadableTheorem == SessionSpec => []UnreadableOnlyUntilAnnounced
  <1>1. ASSUME PathInv, TableInv, ReplayInv
        PROVE  UnreadableOnlyUntilAnnounced
    <2>. SUFFICES ASSUME NEW c \in Conn, ~ nested, down[c] # <<>>, Head(down[c]).type = "Relay",
                         NEW env, env = Head(down[c]).envelope
                  PROVE  \/ CanOpen(session[c], env)
                         \/ env.epoch = session[c].epoch /\ Announced(c, env.sender)
      BY DEF UnreadableOnlyUntilAnnounced
    <2>1. Head(down[c]) = down[c][1]
      BY <1>1, SessionTypes, Rest
    <2>. QED  BY <1>1, <2>1, HeadReadable DEF IsRelay
  <1>. QED  BY <1>1, SessionInvariant, TableInvariant, ReplayInvariant, PTL

-----------------------------------------------------------------------------
(* Tables while nobody changes colours *)

Uncoloured(q) ==
    \A i \in DOMAIN q :
        /\ IsJoin(q[i]) => q[i].member.color = DefaultColor
        /\ IsSnapshot(q[i]) => \A v \in q[i].members : v.color = DefaultColor
        /\ IsRelay(q[i]) => q[i].envelope.kind # "Color"
Colours(c) ==
    /\ \A v \in session[c].table : v.color = DefaultColor
    /\ Uncoloured(down[c]) /\ Uncoloured(pendingMembership[c])

\* While no participant sends a colour change, everybody has the first colour, in
\* the room, in every table, and in all that is told of anybody.
ColourInv ==
    /\ \A c \in Conn : \A i \in DOMAIN up[c] : IsChat(up[c][i]) => up[c][i].envelope.kind # "Color"
    /\ ~ nested => /\ \A m \in DOMAIN members : members[m].color = DefaultColor
                   /\ \A c \in Conn : Colours(c)

\* What is told along two parts of a link, what is left, and what tells nothing.
LEMMA UncolouredAlong ==
    ASSUME NEW q \in Seq(Downward)
    PROVE  /\ \A a \in Seq(Downward) : Uncoloured(q) /\ Uncoloured(a) => Uncoloured(q \o a)
           /\ Uncoloured(q) /\ q # <<>> => Uncoloured(Tail(q))
           /\ \A a : Newsless(a) /\ (\A i \in DOMAIN a : ~ IsRelay(a[i])) => Uncoloured(a)
  <1>1. ASSUME NEW a \in Seq(Downward), Uncoloured(q), Uncoloured(a)
        PROVE  Uncoloured(q \o a)
    BY <1>1, Concat DEF Uncoloured
  <1>2. Uncoloured(q) /\ q # <<>> => Uncoloured(Tail(q))
    BY Onwards DEF Uncoloured
  <1>3. ASSUME NEW a, Newsless(a), \A i \in DOMAIN a : ~ IsRelay(a[i])
        PROVE  Uncoloured(a)
    BY <1>3 DEF Newsless, IsNews, Uncoloured
  <1>. QED  BY <1>1, <1>2, <1>3

\* A step that neither relays nor changes who is in the room, unless an epoch begins.
Steady == Unrelayed /\ (members' = members \/ epoch' = epoch + 1)

\* Losing a connection is such a step.
LEMMA LoseSteady ==
    ASSUME TypeOK, NEW c, NEW first \in [Conn -> Seq(Message)], NoRelay(first), NEW close,
           LoseConnection(c, first, close)
    PROVE  Steady
  BY LosePlain DEF LoseConnection, RemoveMembers, BeginEpochTransition, Steady

\* So is cutting off a sender.
LEMMA PunishSteady ==
    ASSUME TypeOK, NEW c \in Conn,
           NEW code \in {"RoomLocked", "RoomClosed", "ProtocolViolation", "RateLimited"},
           Punish(c, code)
    PROVE  Steady
  BY LoseSteady, ErrorBatches DEF Punish

\* A message handled is a relayed one, or such a step.
LEMMA HandleSteady ==
    ASSUME KeyInv, NEW c \in Conn, NEW msg \in Upward, Handle(c, msg)
    PROVE  Steady \/ (IsChat(msg) /\ ChatRelayed(c, msg.envelope))
  <1>0. TypeOK /\ (IsChat(msg) => msg.envelope \in AnyEnvelope)
    BY DEF KeyInv, TablesInv, Upward, IsChat
  <1>1. CASE NoEffect
    BY <1>1, NoEffectPlain DEF NoEffect, Steady
  <1>2. CASE PasswordVerified(c)
    BY <1>2, QuietPlain, NoRelayBatches DEF PasswordVerified, epochVars, Steady
  <1>3. CASE ConnectionLost(c)
    <2>1. LoseConnection(c, Silence, {}) /\ Silence \in [Conn -> Seq(Message)]
      BY <1>3, SendTypes DEF ConnectionLost
    <2>. QED  BY <1>0, <2>1, LoseSteady, NoRelayBatches
  <1>4. CASE RoomClosed(c)
    BY <1>4, QuietPlain, ErrorBatches DEF RoomClosed, epochVars, Steady
  <1>5. CASE JoinRequested(c, msg.application)
    BY <1>5, QuietPlain, NoRelayBatches DEF JoinRequested, epochVars, Steady
  <1>6. CASE JoinRefused(c)
    <2>1. Punish(c, JoinRefusal(c)) /\ JoinRefusal(c) \in {"RoomLocked", "ProtocolViolation"}
      BY <1>6 DEF JoinRefused, JoinRefusal
    <2>. QED  BY <1>0, <2>1, PunishSteady
  <1>7. CASE EpochAck(c, msg.epoch)
    <2>1. NoRelay(pendingMembership)
      BY <1>0, NoRelayBatches DEF TypeOK
    <2>. QED  BY <1>7, <2>1, QuietPlain, NoRelayBatches DEF EpochAck, Steady
  <1>8. CASE /\ IsChat(msg)
             /\ \/ ChatDuringTransition(c) \/ ChatUnauthorised(c, msg.envelope)
                \/ ChatRateLimited(c, msg.envelope) \/ ChatAbusive(c, msg.envelope)
                \/ ChatRefused(c, msg.envelope) \/ TimeoutRequested(c, msg.envelope)
    <2>1. Unrelayed
      BY <1>0, <1>8, ChatRefusedPlain
    <2>2. members' = members \/ epoch' = epoch + 1
      <3>1. CASE ChatDuringTransition(c) \/ ChatRateLimited(c, msg.envelope) \/ TimeoutRequested(c, msg.envelope)
        BY <3>1 DEF ChatDuringTransition, ChatRateLimited, TimeoutRequested
      <3>2. CASE ChatUnauthorised(c, msg.envelope)
        BY <1>0, <3>2, PunishSteady DEF ChatUnauthorised, Steady
      <3>3. CASE ChatAbusive(c, msg.envelope)
        BY <3>3 DEF ChatAbusive, RemoveMembers, BeginEpochTransition
      <3>4. CASE ChatRefused(c, msg.envelope)
        BY <1>0, <3>4, PunishSteady DEF ChatRefused, Steady
      <3>. QED  BY <1>8, <3>1, <3>2, <3>3, <3>4
    <2>. QED  BY <2>1, <2>2 DEF Steady
  <1>9. \/ NoEffect \/ PasswordVerified(c) \/ RoomClosed(c) \/ ConnectionLost(c)
        \/ JoinRequested(c, msg.application) \/ JoinRefused(c) \/ EpochAck(c, msg.epoch)
        \/ /\ IsChat(msg)
           /\ \/ ChatDuringTransition(c) \/ ChatUnauthorised(c, msg.envelope)
              \/ ChatRateLimited(c, msg.envelope) \/ ChatAbusive(c, msg.envelope)
              \/ ChatRefused(c, msg.envelope) \/ TimeoutRequested(c, msg.envelope)
              \/ ChatRelayed(c, msg.envelope)
    BY Zenon DEF Handle, PasswordIgnored, DroppedInTransition, EpochAckIgnored, EventAfterClose, IsChat
  <1>. QED  BY <1>1, <1>2, <1>3, <1>4, <1>5, <1>6, <1>7, <1>8, <1>9

\* Host commands, deadlines and the tick.
LEMMA SpontaneousSteady ==
    ASSUME KeyInv, HostEvent \/ EpochTimeout \/ Tick \/ ClientConnected
    PROVE  RelaysNone /\ (members' = members \/ epoch' = epoch + 1)
  <1>0. TypeOK
    BY DEF KeyInv, TablesInv
  <1>1. CASE HostEvent
    <2>1. RelaysNone
      BY <1>0, <1>1, HostPlain, AdmittingMute DEF Unrelayed, RelaysNone
    <2>2. members' = members \/ epoch' = epoch + 1
      BY <1>1 DEF HostEvent, AcceptJoin, AcceptRefused, RejectJoin, TurnAway, DecideTimeoutRequest, Kick,
                  RemoveMembers, BeginEpochTransition, NewId, SetPolicy, CloseRequested, CloseRoom
    <2>. QED  BY <2>1, <2>2
  <1>2. CASE EpochTimeout \/ Tick
    <2>1. EpochEvent
      BY <1>2 DEF EpochEvent
    <2>2. members' = members \/ epoch' = epoch + 1
      BY <1>2 DEF EpochTimeout, CloseRoom, RemoveMembers, BeginEpochTransition, Tick
    <2>. QED  BY <1>0, <2>1, <2>2, EpochPlain DEF Unrelayed, RelaysNone
  <1>3. CASE ClientConnected
    BY <1>3, QuietPlain, NoRelayBatches DEF ClientConnected, epochVars, RelaysNone, Unrelayed
  <1>. QED  BY <1>1, <1>2, <1>3

\* What a step of the actor tells while everybody has the first colour.
LEMMA TurnColours ==
    ASSUME PathInv, PathInv', Batches, Turn, ~ Nests, \A m \in DOMAIN members : members[m].color = DefaultColor,
           \A c \in Conn : Colours(c),
           \/ RelaysNone /\ (members' = members \/ epoch' = epoch + 1)
           \/ \E c \in Conn, env \in AnyEnvelope : ChatRelayed(c, env) /\ env.kind # "Color"
    PROVE  /\ \A m \in DOMAIN members' : members'[m].color = DefaultColor
           /\ \A c \in Conn : Uncoloured(outgoing'.send[c]) /\ Uncoloured(pendingMembership'[c])
  <1>1. /\ TypeOK /\ epoch \in Nat /\ pendingMembership \in [Conn -> Seq(Downward)]
        /\ \A c \in Conn : Uncoloured(pendingMembership[c]) /\ pendingMembership[c] \in Seq(Downward)
    <2>1. /\ TypeOK /\ epoch \in Nat /\ pendingMembership \in [Conn -> Seq(RoomEvent)]
          /\ \A c \in Conn : pendingMembership[c] \in Seq(Downward)
      BY SessionTypes, ActorTypes
    <2>. QED  BY <2>1 DEF Colours
  <1>2. Uncoloured(<<>>)
    BY DEF Uncoloured
  <1>3. \A c \in Conn : \A i \in DOMAIN outgoing'.send[c] : IsRelay(outgoing'.send[c][i]) =>
           outgoing'.send[c][i].envelope.kind # "Color"
    <2>1. CASE RelaysNone
      BY <2>1 DEF RelaysNone, NoRelay, IsRelay
    <2>2. CASE \E c \in Conn, env \in AnyEnvelope : ChatRelayed(c, env) /\ env.kind # "Color"
      <3>1. PICK c \in Conn, env \in AnyEnvelope : ChatRelayed(c, env) /\ env.kind # "Color"
        BY <2>2
      <3>2. \A d \in Conn : \A i \in DOMAIN outgoing'.send[d] : outgoing'.send[d][i] = Relay(env)
        BY <3>1, RelayedTo DEF PathInv
      <3>. QED  BY <3>1, <3>2 DEF Relay
    <2>. QED  BY <2>1, <2>2
  <1>4. members' = members \/ epoch' = epoch + 1
    BY DEF ChatRelayed
  <1>5. ASSUME \A c \in Conn : Newsless(outgoing'.send[c])
        PROVE  \A c \in Conn : Uncoloured(outgoing'.send[c])
    BY <1>3, <1>5 DEF Newsless, IsNews, Uncoloured
  <1>6. CASE Still
    <2>1. members' = members /\ pendingMembership' = pendingMembership
      BY <1>1, <1>4, <1>6 DEF Still
    <2>2. \A c \in Conn : Newsless(outgoing'.send[c])
      BY <1>6 DEF Still, Modest, Newsless
    <2>. QED  BY <1>1, <1>5, <2>1, <2>2
  <1>7. CASE Releases
    <2>1. members' = members /\ pendingMembership' = Silence /\ outgoing'.send = pendingMembership
      BY <1>7 DEF Releases
    <2>2. \A c \in Conn : pendingMembership'[c] = <<>>
      BY <2>1 DEF Silence
    <2>. QED  BY <1>1, <1>2, <2>1, <2>2
  <1>8. CASE Parts
    <2>1. PICK m, type, lost :
             /\ m \in DOMAIN members /\ type \in {"MemberLeft", "MemberKicked"}
             /\ AtRest /\ RemoveMembers({m}, lost, type)
             /\ \A c \in Conn : Keys(outgoing'.send[c])
      BY <1>8 DEF Parts
    <2>2. members' = Restrict(members, DOMAIN members \ {m})
      BY <2>1 DEF RemoveMembers
    <2>3. \A x \in DOMAIN members' : members'[x] = members[x] /\ x \in DOMAIN members
      BY <2>2 DEF Restrict
    <2>4. \A c \in Conn : Newsless(outgoing'.send[c])
      BY <2>1 DEF Keys, Newsless, IsNews, IsJoin, IsSnapshot, IsGone, IsEvent, EventTypes
    <2>5. PICK g \in News :
             /\ IsGone(g)
             /\ \A d \in Conn : pendingMembership'[d] = IF d \in ConnectionsOf(members')
                                                        THEN pendingMembership[d] \o <<g>>
                                                        ELSE pendingMembership[d]
      BY <2>1, GoneHeld
    <2>6. <<g>> \in Seq(Downward)
      <3>1. <<g>> \in Seq(RoomEvent)
        BY DEF News
      <3>. QED  BY <3>1, EventSeq
    <2>7. Uncoloured(<<g>>)
      BY <2>5 DEF Uncoloured, IsGone, IsJoin, IsSnapshot, IsRelay
    <2>8. \A c \in Conn : Uncoloured(pendingMembership[c] \o <<g>>)
      BY <1>1, <2>6, <2>7, UncolouredAlong
    <2>. QED  BY <1>1, <1>5, <2>3, <2>4, <2>5, <2>8
  <1>9. CASE Admits
    <2>1. PICK r \in DOMAIN requests : AcceptJoin(r)
      BY <1>9 DEF Admits
    <2>2. Newcomer(r).color = DefaultColor
      BY DEF Newcomer, Member
    <2>3. \A m \in DOMAIN members' : members'[m].color = DefaultColor
      BY <2>1, <2>2, AdmitTables
    <2>4. \A v \in ViewsOf(members') : v.color = DefaultColor
      BY <2>3 DEF ViewsOf, ViewOf
    <2>5. Uncoloured(<<RoomNews(members')>>)
      BY <2>4 DEF Uncoloured, RoomNews, IsJoin, IsSnapshot, IsRelay
    <2>6. Uncoloured(<<JoinNews(r)>>)
      BY <2>2 DEF Uncoloured, JoinNews, ViewOf, IsJoin, IsSnapshot, IsRelay
    <2>7. \A c \in Conn : Uncoloured(pendingMembership'[c])
      BY <1>2, <2>1, <2>5, <2>6, AdmitNews
    <2>8. \A c \in Conn : Newsless(outgoing'.send[c])
      <3>. SUFFICES ASSUME NEW c \in Conn
                    PROVE  Newsless(outgoing'.send[c])
        OBVIOUS
      <3>1. PICK a : a = outgoing'.send[c]
        OBVIOUS
      <3>2. \A i \in DOMAIN a : ~ IsEvent(a[i])
        BY <2>1, <3>1, AdmitSends
      <3>3. Newsless(a)
        BY <3>2, Sorts DEF Newsless
      <3>. QED  BY <3>1, <3>3
    <2>. QED  BY <1>5, <2>3, <2>7, <2>8
  <1>10. CASE Closes
    <2>1. /\ members' = members /\ pendingMembership' = pendingMembership
          /\ \A c \in Conn : outgoing'.send[c] = <<Shutdown>> \/ outgoing'.send[c] = <<>>
      BY <1>10 DEF Closes, CloseRoom, Emit, SendAll
    <2>2. Newsless(<<Shutdown>>) /\ Newsless(<<>>)
      BY DEF Newsless, IsNews, IsJoin, IsSnapshot, IsGone, Shutdown
    <2>3. \A c \in Conn : Newsless(outgoing'.send[c])
      BY <2>1, <2>2
    <2>. QED  BY <1>1, <1>5, <2>1, <2>3
  <1>. QED  BY <1>6, <1>7, <1>8, <1>9, <1>10 DEF Turn

\* A step of the actor leaves everybody with the first colour.
LEMMA TransmitColours ==
    ASSUME PathInv, PathInv', Batches, Turn, ColourInv,
           \/ RelaysNone /\ (members' = members \/ epoch' = epoch + 1)
           \/ \E c \in Conn, env \in AnyEnvelope : ChatRelayed(c, env) /\ env.kind # "Color",
           NEW fresh, Transmit(fresh),
           \A c \in Conn : fresh[c] = session[c] \/ (~ Live(c) /\ fresh[c].table = {}),
           \A c \in Conn : \A i \in DOMAIN up'[c] : IsChat(up'[c][i]) => up'[c][i].envelope.kind # "Color"
    PROVE  ColourInv'
  <1>. SUFFICES ASSUME ~ nested'
                PROVE  /\ \A m \in DOMAIN members' : members'[m].color = DefaultColor
                       /\ \A c \in Conn : Colours(c)'
    BY DEF ColourInv
  <1>1. ~ nested /\ ~ Nests
    BY DEF Transmit, Nests
  <1>2. /\ \A m \in DOMAIN members : members[m].color = DefaultColor
        /\ \A c \in Conn : Colours(c)
    BY <1>1 DEF ColourInv
  <1>3. /\ \A m \in DOMAIN members' : members'[m].color = DefaultColor
        /\ \A c \in Conn : Uncoloured(outgoing'.send[c]) /\ Uncoloured(pendingMembership'[c])
    BY <1>1, <1>2, TurnColours
  <1>4. ASSUME NEW c \in Conn
        PROVE  Colours(c)'
    <2>1. /\ session'[c] = IF c \in outgoing'.close /\ Live(c) THEN ClosedSession ELSE fresh[c]
          /\ down'[c] = IF c \in outgoing'.close \/ ~ Live(c) THEN <<>>
                        ELSE down[c] \o outgoing'.send[c] \o NoticesTo(c)
      BY DEF Transmit
    <2>2. ClosedSession.table = {}
      BY DEF ClosedSession, NoSession
    <2>3. \A v \in session'[c].table : v.color = DefaultColor
      BY <1>2, <2>1, <2>2 DEF Colours
    <2>4. Uncoloured(down'[c])
      <3>1. CASE Live(c)' /\ fresh[c] = session[c]
        <4>1. /\ down[c] \in Seq(Downward) /\ outgoing'.send[c] \in Seq(Downward)
              /\ \E n \in Seq(Downward) : Idle(n) /\ down'[c] = (down[c] \o outgoing'.send[c]) \o n
          BY <3>1, Delivered DEF PathInv, KeyInv, TablesInv
        <4>2. PICK q \in Seq(Downward) : q = down[c] /\ Uncoloured(q)
          BY <1>2, <4>1 DEF Colours
        <4>3. PICK a \in Seq(Downward) : a = outgoing'.send[c] /\ Uncoloured(a)
          BY <1>3, <4>1
        <4>4. PICK n \in Seq(Downward) : Idle(n) /\ down'[c] = (q \o a) \o n
          BY <4>1, <4>2, <4>3
        <4>5. Newsless(n) /\ \A i \in DOMAIN n : ~ IsRelay(n[i])
          BY <4>4, IdleIsModest DEF Idle
        <4>6. q \o a \in Seq(Downward) /\ Uncoloured(q \o a)
          BY <4>2, <4>3, UncolouredAlong
        <4>. QED  BY <4>4, <4>5, <4>6, UncolouredAlong
      <3>2. CASE ~ (Live(c)' /\ fresh[c] = session[c])
        <4>1. down'[c] = <<>>
          <5>1. CASE ~ Live(c)'
            BY <5>1 DEF PathInv, Link
          <5>2. CASE ~ Live(c)
            BY <2>1, <5>2
          <5>. QED  BY <3>2, <5>1, <5>2
        <4>. QED  BY <4>1 DEF Uncoloured
      <3>. QED  BY <3>1, <3>2
    <2>. QED  BY <1>3, <2>3, <2>4 DEF Colours
  <1>. QED  BY <1>3, <1>4

\* No colour is on its way to the actor.
Unpainted == \A c \in Conn : \A i \in DOMAIN up[c] : IsChat(up[c][i]) => up[c][i].envelope.kind # "Color"

\* Anything else may follow.
LEMMA UpPlain ==
    ASSUME PathInv, Unpainted, NEW c \in Conn, NEW msg \in Upward, up' = [up EXCEPT ![c] = Append(@, msg)],
           IsChat(msg) => msg.envelope.kind # "Color"
    PROVE  Unpainted'
  <1>1. /\ \A d \in Conn : d # c => up'[d] = up[d]
        /\ \A i \in DOMAIN up'[c] : (\E j \in DOMAIN up[c] : up'[c][i] = up[c][j]) \/ up'[c][i] = msg
    BY UpAppend
  <1>. QED  BY <1>1 DEF Unpainted

\* What a session makes of a message that changes nobody's colour.
LEMMA TableColours ==
    ASSUME NEW s \in SessionRecord, \A v \in s.table : v.color = DefaultColor
    PROVE  /\ \A ev \in RoomEvent :
                 /\ IsJoin(ev) => ev.member.color = DefaultColor
                 /\ IsSnapshot(ev) => \A v \in ev.members : v.color = DefaultColor
                 => \A v \in AfterEvent(s, ev).table : v.color = DefaultColor
           /\ \A env \in AnyEnvelope : env.kind # "Color" =>
                 \A v \in AfterRelay(s, env).table : v.color = DefaultColor
  <1>1. ASSUME NEW ev \in RoomEvent, IsJoin(ev) => ev.member.color = DefaultColor,
               IsSnapshot(ev) => \A v \in ev.members : v.color = DefaultColor
        PROVE  \A v \in AfterEvent(s, ev).table : v.color = DefaultColor
    <2>1. AfterEvent(s, ev).table = TableAfter(s, ev) \/ AfterEvent(s, ev) = s
      BY DEF AfterEvent, SessionRecord
    <2>2. \A v \in TableAfter(s, ev) : v.color = DefaultColor
      BY <1>1 DEF TableAfter, IsJoin, IsSnapshot
    <2>. QED  BY <2>1, <2>2
  <1>2. ASSUME NEW env \in AnyEnvelope, env.kind # "Color"
        PROVE  AfterRelay(s, env).table = s.table
    BY <1>2 DEF AfterRelay, SessionRecord
  <1>. QED  BY <1>1, <1>2

\* A participant takes what is next.
LEMMA ReceiveColours ==
    ASSUME PathInv, ColourInv, NEW c \in Conn, ParticipantReceives(c)
    PROVE  ColourInv'
  <1>1. /\ OwnStep(c) /\ down[c] # <<>> /\ down[c] \in Seq(Downward) /\ down'[c] = Tail(down[c])
        /\ session[c] \in SessionRecord /\ Takes(c, down[c][1])
    BY ReceiveTakes
  <1>2. UNCHANGED <<members, pendingMembership, nested>>
    BY <1>1 DEF OwnStep, vars
  <1>3. PICK q, s : q \in Seq(Downward) /\ q = down[c] /\ s = session[c] /\ s \in SessionRecord
    BY <1>1
  <1>4. Unpainted'
    <2>1. Unpainted
      BY DEF ColourInv, Unpainted
    <2>2. CASE up' = up
      BY <2>1, <2>2 DEF Unpainted
    <2>3. CASE \E e \in Nat : up' = [up EXCEPT ![c] = Append(@, [type |-> "EpochAck", epoch |-> e])]
      <3>1. PICK msg \in Upward : msg.type = "EpochAck" /\ up' = [up EXCEPT ![c] = Append(@, msg)]
        <4>1. PICK e \in Nat : up' = [up EXCEPT ![c] = Append(@, [type |-> "EpochAck", epoch |-> e])]
          BY <2>3
        <4>. QED  BY <4>1 DEF Upward
      <3>. QED  BY <2>1, <3>1, UpPlain DEF IsChat
    <2>4. CASE \E env : /\ env.kind = "TimeoutChanged"
                        /\ [type |-> "Chat", envelope |-> env] \in Upward
                        /\ up' = [up EXCEPT ![c] = Append(@, [type |-> "Chat", envelope |-> env])]
      <3>1. PICK msg \in Upward : msg.envelope.kind = "TimeoutChanged" /\ up' = [up EXCEPT ![c] = Append(@, msg)]
        BY <2>4
      <3>. QED  BY <2>1, <3>1, UpPlain
    <2>. QED  BY <1>1, <2>2, <2>3, <2>4 DEF Takes
  <1>5. ASSUME ~ nested
        PROVE  Colours(c)'
    <2>1. /\ \A v \in s.table : v.color = DefaultColor
          /\ Uncoloured(q) /\ Uncoloured(pendingMembership[c])
      BY <1>3, <1>5 DEF ColourInv, Colours
    <2>2. /\ IsJoin(q[1]) => q[1].member.color = DefaultColor
          /\ IsSnapshot(q[1]) => \A v \in q[1].members : v.color = DefaultColor
          /\ IsRelay(q[1]) => q[1].envelope.kind # "Color"
      BY <1>1, <1>3, <2>1, Onwards DEF Uncoloured
    <2>3. Uncoloured(Tail(q))
      BY <1>1, <1>3, <2>1, UncolouredAlong
    <2>4. \A v \in session'[c].table : v.color = DefaultColor
      <3>1. CASE q[1] \in RoomEvent /\ session'[c] = AfterEvent(s, q[1])
        BY <1>3, <2>1, <2>2, <3>1, TableColours
      <3>2. CASE IsRelay(q[1]) /\ q[1].envelope \in AnyEnvelope /\ session'[c] = AfterRelay(s, q[1].envelope)
        BY <1>3, <2>1, <2>2, <3>2, TableColours
      <3>3. CASE session'[c].table = s.table
        BY <2>1, <3>3
      <3>. QED  BY <1>1, <1>3, <3>1, <3>2, <3>3 DEF Takes, SameTables
    <2>. QED  BY <1>1, <1>2, <1>3, <2>1, <2>3, <2>4 DEF Colours
  <1>6. ASSUME ~ nested, NEW d \in Conn, d # c
        PROVE  Colours(d)'
    BY <1>1, <1>2, <1>6 DEF ColourInv, Colours, OwnStep
  <1>. QED  BY <1>2, <1>4, <1>5, <1>6 DEF ColourInv, Unpainted

\* A participant sends a message of its own that is no colour, or goes away.
LEMMA SendColours ==
    ASSUME PathInv, ColourInv, UNCHANGED <<vars, nested>>, NEW c \in Conn,
           NEW msg \in Upward, up' = [up EXCEPT ![c] = Append(@, msg)],
           IsChat(msg) => msg.envelope.kind # "Color",
           \A d \in Conn : /\ session'[d].table \subseteq session[d].table
                           /\ down'[d] = down[d] \/ down'[d] = <<>>
    PROVE  ColourInv'
  <1>1. Unpainted'
    BY UpPlain DEF ColourInv, Unpainted
  <1>2. ASSUME ~ nested, NEW d \in Conn
        PROVE  Colours(d)'
    <2>1. Colours(d)
      BY <1>2 DEF ColourInv
    <2>2. pendingMembership' = pendingMembership
      BY DEF vars
    <2>. QED  BY <2>1, <2>2 DEF Colours, Uncoloured
  <1>3. UNCHANGED <<members, nested>>
    BY DEF vars
  <1>. QED  BY <1>1, <1>2, <1>3 DEF ColourInv, Unpainted

\* The room begins with the host in its first colour.
LEMMA ColourBegins ==
    ASSUME SessionInit
    PROVE  ColourInv
  <1>1. /\ members = With(Empty, HostId, Member(HostConnection,
                     [nickname |-> HostNickname, identity |-> HostIdentity], 1))
        /\ pendingMembership = Silence
        /\ outgoing.send = SendTo(HostConnection, EpochWrap(1))
    BY DEF SessionInit, Init
  <1>2. DOMAIN Empty = {}
    BY DEF Empty
  <1>3. \A m \in DOMAIN members : members[m].color = DefaultColor /\ m = HostId
    BY <1>1, <1>2 DEF With, Member
  <1>4. HostId \in DOMAIN members
    BY <1>1 DEF With
  <1>5. HostView.color = DefaultColor
    BY <1>3, <1>4 DEF HostView, ViewOf
  <1>6. ASSUME NEW c \in Conn
        PROVE  Colours(c) /\ up[c] = <<>>
    <2>1. \A v \in session[c].table : v = HostView
      <3>1. session[c].table = {HostView} \/ session[c].table = {}
        BY <1>6 DEF SessionInit, NoSession
      <3>. QED  BY <3>1
    <2>2. down[c] = outgoing.send[c] /\ up[c] = <<>>
      BY <1>6 DEF SessionInit
    <2>3. down[c] = <<>> \/ down[c] = <<EpochWrap(1)>>
      BY <1>1, <2>2 DEF SendTo, Silence
    <2>4. pendingMembership[c] = <<>>
      BY <1>1, <1>6 DEF Silence
    <2>5. Uncoloured(<<>>) /\ Uncoloured(<<EpochWrap(1)>>)
      BY DEF Uncoloured, EpochWrap, IsJoin, IsSnapshot, IsRelay
    <2>. QED  BY <1>5, <2>1, <2>2, <2>3, <2>4, <2>5 DEF Colours
  <1>. QED  BY <1>3, <1>6 DEF ColourInv

\* Every step keeps the first colours, when no participant sends another.
LEMMA ColourStep ==
    ASSUME PathInv, PathInv', TableInv, ColourInv, "Color" \notin Kinds, [SessionNext]_allVars
    PROVE  ColourInv'
  <1>0. /\ session \in [Conn -> SessionRecord] /\ up \in [Conn -> Seq(Upward)] /\ down \in [Conn -> Seq(Downward)]
        /\ KeyInv /\ KeyInv' /\ ActorInv /\ TypeOK /\ TypeOK' /\ Unpainted
    BY SessionTypes DEF PathInv, KeyInv, TablesInv, ColourInv, Unpainted
  <1>1. CASE Spontaneous
    <2>1. /\ HostEvent \/ EpochTimeout \/ Tick
          /\ Transmit(session) /\ up' = up /\ RoomStep
      BY <1>1 DEF Spontaneous, RoomStep, EpochEvent
    <2>2. Batches /\ Turn
      BY <1>0, <2>1, StepBatches, HostTurn, TimeTurn
    <2>3. RelaysNone /\ (members' = members \/ epoch' = epoch + 1)
      BY <1>0, <2>1, SpontaneousSteady
    <2>. QED  BY <1>0, <2>1, <2>2, <2>3, TransmitColours DEF Unpainted
  <1>2. ASSUME NEW c \in Conn, ActorReceives(c)
        PROVE  ColourInv'
    <2>1. up[c] # <<>> /\ Transmit(session) /\ up' = [up EXCEPT ![c] = Tail(@)]
      BY <1>2 DEF ActorReceives
    <2>2. PICK msg \in Upward : msg = Head(up[c]) /\ msg = up[c][1]
      BY <1>0, <2>1, Rest
    <2>3. Handle(c, msg) /\ RoomStep
      BY <1>2, <2>1, <2>2, HandleIsRoomStep DEF ActorReceives
    <2>4. 1 \in DOMAIN up[c]
      BY <1>0, <2>1, Rest
    <2>5. IsLoss(msg) => ~ Live(c)
      BY <2>2, <2>4 DEF TableInv, Reported
    <2>6. Batches /\ Turn
      BY <1>0, <2>3, <2>5, StepBatches, HandleTurn
    <2>7. \/ RelaysNone /\ (members' = members \/ epoch' = epoch + 1)
          \/ \E d \in Conn, env \in AnyEnvelope : ChatRelayed(d, env) /\ env.kind # "Color"
      <3>1. CASE Steady
        BY <3>1 DEF Steady, Unrelayed, RelaysNone
      <3>2. CASE IsChat(msg) /\ ChatRelayed(c, msg.envelope)
        <4>1. msg.envelope.kind # "Color"
          BY <1>0, <2>2, <2>4, <3>2 DEF Unpainted
        <4>2. msg.envelope \in AnyEnvelope
          BY <3>2 DEF Upward, IsChat
        <4>. QED  BY <3>2, <4>1, <4>2
      <3>. QED  BY <1>0, <2>3, <3>1, <3>2, HandleSteady
    <2>8. \A d \in Conn : \A i \in DOMAIN up'[d] : IsChat(up'[d][i]) => up'[d][i].envelope.kind # "Color"
      <3>1. \A d \in Conn : d # c => up'[d] = up[d]
        BY <1>0, <2>1
      <3>2. \A i \in DOMAIN up'[c] : \E j \in DOMAIN up[c] : up'[c][i] = up[c][j]
        <4>1. up'[c] = Tail(up[c]) /\ up[c] \in Seq(Upward)
          BY <1>0, <2>1
        <4>. QED  BY <2>1, <4>1, Rest
      <3>3. ASSUME NEW d \in Conn, NEW i \in DOMAIN up'[d], IsChat(up'[d][i])
            PROVE  up'[d][i].envelope.kind # "Color"
        <4>1. CASE d # c
          BY <1>0, <3>1, <3>3, <4>1 DEF Unpainted
        <4>2. CASE d = c
          <5>1. PICK j \in DOMAIN up[c] : up'[c][i] = up[c][j]
            BY <3>2, <3>3, <4>2
          <5>. QED  BY <1>0, <3>3, <4>2, <5>1 DEF Unpainted
        <4>. QED  BY <4>1, <4>2
      <3>. QED  BY <3>3
    <2>. QED  BY <2>1, <2>6, <2>7, <2>8, TransmitColours
  <1>3. ASSUME NEW app \in Applications, Connect(app)
        PROVE  ColourInv'
    <2>. DEFINE new == [NoSession EXCEPT !.status = "applying"]
                first == <<[type |-> "PasswordVerified"],
                           [type |-> "JoinRequested", application |-> app]>>
                fresh == [session EXCEPT ![nextConn] = new]
    <2>1. /\ ClientConnected /\ RoomStep /\ Transmit(fresh)
          /\ up' = [up EXCEPT ![nextConn] = first]
      BY <1>3 DEF Connect, RoomStep, AdmissionEvent
    <2>2. new.table = {} /\ \A i \in DOMAIN first : ~ IsChat(first[i])
      BY DEF NoSession, IsChat
    <2>. HIDE DEF new, first
    <2>3. nextConn \in Conn => ~ Live(nextConn)
      BY <1>0 DEF PathInv, Link, TypeOK
    <2>4. \A c \in Conn : /\ fresh[c] = IF c = nextConn THEN new ELSE session[c]
                          /\ up'[c] = IF c = nextConn THEN first ELSE up[c]
      BY <1>0, <2>1
    <2>. HIDE DEF fresh
    <2>5. \A c \in Conn : fresh[c] = session[c] \/ (~ Live(c) /\ fresh[c].table = {})
      BY <2>2, <2>3, <2>4
    <2>6. \A c \in Conn : \A i \in DOMAIN up'[c] : IsChat(up'[c][i]) => up'[c][i].envelope.kind # "Color"
      BY <1>0, <2>2, <2>4 DEF Unpainted
    <2>7. RelaysNone /\ (members' = members \/ epoch' = epoch + 1)
      BY <1>0, <2>1, SpontaneousSteady
    <2>8. Batches /\ Turn
      BY <1>0, <2>1, StepBatches, ConnectTurn DEF Turn
    <2>. QED  BY <2>1, <2>5, <2>6, <2>7, <2>8, TransmitColours
  <1>4. ASSUME NEW c \in Conn, ParticipantReceives(c)
        PROVE  ColourInv'
    BY <1>4, ReceiveColours
  <1>5. ASSUME NEW c \in Conn, Disconnect(c)
        PROVE  ColourInv'
    <2>1. /\ UNCHANGED <<vars, nested>>
          /\ session' = [session EXCEPT ![c] = ClosedSession]
          /\ down' = [down EXCEPT ![c] = <<>>]
          /\ up' = [up EXCEPT ![c] = Append(@, [type |-> "Lost"])]
      BY <1>5 DEF Disconnect
    <2>2. ClosedSession.table = {}
      BY DEF ClosedSession, NoSession
    <2>3. \A d \in Conn : /\ session'[d].table \subseteq session[d].table
                          /\ down'[d] = down[d] \/ down'[d] = <<>>
      BY <1>0, <2>1, <2>2
    <2>4. PICK msg \in Upward : msg = [type |-> "Lost"]
      BY DEF Upward
    <2>5. ~ IsChat(msg) /\ up' = [up EXCEPT ![c] = Append(@, msg)]
      BY <2>1, <2>4 DEF IsChat
    <2>. QED  BY <2>1, <2>3, <2>5, SendColours
  <1>6. ASSUME NEW c \in Conn, NEW kind \in MemberKinds, kind # "Color", NEW body \in Nat,
               Send(c, kind, body), UNCHANGED <<vars, down, nested>>,
               \A d \in Conn : session'[d].table = session[d].table
        PROVE  ColourInv'
    <2>. DEFINE msg == [type |-> "Chat", envelope |-> Sealed(session[c], kind, body)]
    <2>1. msg \in Upward /\ up' = [up EXCEPT ![c] = Append(@, msg)]
      BY <1>0, <1>6, SealedType DEF Send
    <2>2. msg.envelope.kind # "Color"
      BY <1>6 DEF Sealed
    <2>. HIDE DEF msg
    <2>. QED  BY <1>6, <2>1, <2>2, SendColours
  <1>7. ASSUME NEW c \in Conn, NEW kind \in Kinds, NEW body \in Bodies(kind), SendMessage(c, kind, body)
        PROVE  ColourInv'
    <2>1. /\ Send(c, kind, body) /\ UNCHANGED <<vars, down, nested>>
          /\ session' = [session EXCEPT ![c].senderSequence = @ + 1]
          /\ kind \in {"Chat", "TimeoutRequest"}
      BY <1>7 DEF SendMessage
    <2>2. kind \in MemberKinds /\ kind # "Color" /\ body \in Nat
      BY <1>7, <2>1, DataAssumption DEF Bodies, MemberKinds, NoTimeout
    <2>3. \A d \in Conn : session'[d].table = session[d].table
      BY <1>0, <2>1 DEF SessionRecord
    <2>. QED  BY <1>6, <2>1, <2>2, <2>3
  <1>8. ASSUME NEW c \in Conn, NEW color, SendColor(c, color)
        PROVE  FALSE
    BY <1>8 DEF SendColor, MaySend
  <1>9. ASSUME NEW i \in Intervals \cup {NoTimeout}, HostTimeout(i)
        PROVE  ColourInv'
    <2>1. /\ Send(HostConnection, "TimeoutChanged", i) /\ UNCHANGED <<vars, down, nested>>
          /\ session' = [session EXCEPT ![HostConnection].senderSequence = @ + 1,
                                        ![HostConnection].timeout = i]
      BY <1>9 DEF HostTimeout
    <2>2. "TimeoutChanged" \in MemberKinds /\ i \in Nat /\ HostConnection \in Conn
      BY DataAssumption, BoundsAssumption DEF MemberKinds, NoTimeout, Conn, HostConnection
    <2>3. \A d \in Conn : session'[d].table = session[d].table
      BY <1>0, <2>1 DEF SessionRecord
    <2>4. "TimeoutChanged" # "Color"
      OBVIOUS
    <2>. QED  BY <1>6, <2>1, <2>2, <2>3, <2>4
  <1>10. CASE UNCHANGED allVars
    <2>1. UNCHANGED <<members, pendingMembership, down, up, session, nested>>
      BY <1>10 DEF allVars, sessionVars, vars
    <2>. QED  BY <2>1 DEF ColourInv, Colours
  <1>. QED  BY <1>1, <1>2, <1>3, <1>4, <1>5, <1>7, <1>8, <1>9, <1>10 DEF SessionNext

\* When everything sent has been handled, a member's table holds who is in the room.
LEMMA QuietPersons ==
    ASSUME PathInv, TableInv, Quiet, ~ nested, NEW m \in DOMAIN members
    PROVE  /\ members[m].connection \in Conn
           /\ Persons(session[members[m].connection].table) = Roster
  <1>1. PICK c : c = members[m].connection
    OBVIOUS
  <1>2. c \in Conn /\ c \in DOMAIN connections /\ Running
    <2>1. members[m].connection \in DOMAIN connections
      BY DEF PathInv, KeyInv, TablesInv, TableFacts, Agree
    <2>2. members[m].connection \in Conn
      BY SessionTypes, ActorTypes
    <2>. QED  BY <1>1, <2>1, <2>2 DEF Quiet, AtRest, Running
  <1>3. up[c] = <<>> /\ down[c] = <<>> /\ pendingMembership[c] = <<>>
    BY <1>2 DEF Quiet, PathInv, HeldBack, Silence
  <1>4. Live(c)
    BY <1>2, <1>3 DEF TableInv, Reported
  <1>5. Informed(c, m)
    BY <1>1, <1>2, <1>4 DEF TableInv, Tables, Residents
  <1>6. LeadsTo(Told(<<>>, <<>>), Persons(session[c].table), Roster)
    BY <1>3, <1>5 DEF Informed, Aware
  <1>7. Told(<<>>, <<>>) = {}
    BY DEF Told, Range
  <1>8. LeadsTo({}, Persons(session[c].table), Roster)
    BY <1>6, <1>7
  <1>9. PICK T : T = Persons(session[c].table)
    OBVIOUS
  <1>10. LeadsTo({}, T, Roster) <=> Roster = T
    BY NothingToTell
  <1>. QED  BY <1>1, <1>2, <1>8, <1>9, <1>10

\* Nobody's table names anybody who is not in the room, or leaves out anybody who
\* is, once everything sent has been handled and unless some transition began inside
\* another one: whatever is sent, colours included (/list, member_table.rs).
PersonsAgree ==
    Quiet /\ ~ nested => \A m \in DOMAIN members :
        Persons(session[members[m].connection].table) = Roster

\* It is so in every state of the room with its participants in which no transition
\* has begun inside another.
THEOREM PersonsTheorem == SessionSpec => []PersonsAgree
  <1>1. PathInv /\ TableInv => PersonsAgree
    BY QuietPersons DEF PersonsAgree
  <1>. QED  BY <1>1, SessionInvariant, TableInvariant, PTL

\* The tables agree to the letter while nobody changes colours (a colour is in its
\* sender's table before the room has accepted it) and no transition has begun inside
\* another.
THEOREM TablesTheorem ==
    ASSUME "Color" \notin Kinds
    PROVE  SessionSpec => []TablesAgreeUnlessNested
  <1>1. ASSUME PathInv, TableInv, ColourInv
        PROVE  TablesAgreeUnlessNested
    <2>. SUFFICES ASSUME ~ nested, Quiet, NEW m \in DOMAIN members
                  PROVE  session[members[m].connection].table = {ViewOf(x, members[x]) : x \in DOMAIN members}
      BY DEF TablesAgreeUnlessNested, TablesAgree
    <2>1. PICK c : c = members[m].connection
      OBVIOUS
    <2>2. c \in Conn /\ Persons(session[c].table) = Roster
      BY <1>1, <2>1, QuietPersons
    <2>3. \A v \in session[c].table : v.color = DefaultColor /\ v \in View
      BY <1>1, <2>2, SessionTypes DEF ColourInv, Colours, SessionRecord
    <2>4. \A x \in DOMAIN members : members[x].color = DefaultColor
      BY <1>1 DEF ColourInv
    <2>5. \A v \in View, x \in DOMAIN members :
             Person(v) = Person(ViewOf(x, members[x])) /\ v.color = members[x].color
             => v = ViewOf(x, members[x])
      BY DEF View, Person, ViewOf
    <2>6. \A v \in session[c].table : \E x \in DOMAIN members : v = ViewOf(x, members[x])
      <3>. SUFFICES ASSUME NEW v \in session[c].table
                    PROVE  \E x \in DOMAIN members : v = ViewOf(x, members[x])
        OBVIOUS
      <3>1. Person(v) \in Roster
        BY <2>2 DEF Persons
      <3>2. PICK x \in DOMAIN members : Person(v) = Person(ViewOf(x, members[x]))
        BY <3>1 DEF Roster
      <3>. QED  BY <2>3, <2>4, <2>5, <3>2
    <2>7. \A x \in DOMAIN members : ViewOf(x, members[x]) \in session[c].table
      <3>. SUFFICES ASSUME NEW x \in DOMAIN members
                    PROVE  ViewOf(x, members[x]) \in session[c].table
        OBVIOUS
      <3>1. Person(ViewOf(x, members[x])) \in Persons(session[c].table)
        BY <2>2 DEF Roster
      <3>2. PICK v \in session[c].table : Person(v) = Person(ViewOf(x, members[x]))
        BY <3>1 DEF Persons
      <3>. QED  BY <2>3, <2>4, <2>5, <3>2
    <2>. QED  BY <2>1, <2>6, <2>7
  <1>2. PathInv /\ PathInv' /\ TableInv /\ ColourInv /\ [SessionNext]_allVars => ColourInv'
    BY ColourStep
  <1>3. SessionInit => ColourInv
    BY ColourBegins
  <1>. QED  BY <1>1, <1>2, <1>3, SessionInvariant, TableInvariant, PTL DEF SessionSpec

=============================================================================
