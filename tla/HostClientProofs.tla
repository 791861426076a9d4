--------------------------- MODULE HostClientProofs ---------------------------
(***************************************************************************)
(* A participant that runs the program is refused only for cause, or when  *)
(* its first frame is served before the connect of its connection, proved  *)
(* for any number of connections, whatever the others send.  What a live   *)
(* client and its flow have said to each other, what the room has been     *)
(* told of it and what the room has said but the supervisor not yet        *)
(* delivered fit together at every moment.                                 *)
(***************************************************************************)
EXTENDS HostSupervisorProofs

-----------------------------------------------------------------------------
(* The inductive invariant *)

ErrorCode == {"RateLimited", "ProtocolViolation", "RoomLocked", "InvalidInvitation",
              "InvalidPasswordProof", "Internal", "ByRoom"}
DownFrame == [type : {"HostHello"}, token : Nat]
                \cup [type : {"Challenge", "accepted", "rejected", "frame", "shutdown"}]
                \cup [type : {"error"}, code : ErrorCode]

ClientStages == {"Idle", "AwaitingHostHello", "AwaitingChallenge", "AwaitingJoinForm",
                 "AwaitingDecision", "Admitted", "Ended"}
EndReasons == ErrorCode \cup {"None", "Shutdown", "InvalidHostSignature", "Rejected", "Unexpected",
                              "Lost", "Own"}
ClientRecord == [stage : ClientStages, token : Nat, form : BOOLEAN, why : EndReasons]

LinkTypes ==
    /\ down \in [Peer -> Seq(DownFrame)]
    /\ clients \in [Honest -> ClientRecord]
    /\ DOMAIN inbound = Peer

\* No frame for a connection that does not exist yet, no connection after the end.
Bounds ==
    /\ \A c \in Peer : c >= nextId => down[c] = <<>>
    /\ phase = "exited" => DOMAIN peers = {}

\* A client at stage s can read q to its end: each answer meets the stage that
\* expects it, unless the session is over before; bad codes have their cause.
Readable(s, q, cause) ==
    \A i \in DOMAIN q :
        /\ q[i].type = "HostHello" => i = 1 /\ s = "AwaitingHostHello"
        /\ q[i].type = "Challenge" => i = 1 /\ s = "AwaitingChallenge"
        /\ q[i].type \in {"accepted", "rejected"} => i = 1 /\ s = "AwaitingDecision"
        /\ q[i].type = "frame" =>
              s = "Admitted" \/ (s = "AwaitingDecision" /\ i > 1 /\ q[1].type = "accepted")
        /\ q[i].type = "error" /\ q[i].code \in {"ProtocolViolation", "ByRoom"} => q[i].code \in cause

\* The codes that c may be refused with.
Excused(c) ==
    {code \in {"ProtocolViolation", "ByRoom"} :
        IF code = "ByRoom" THEN c \in mishap ELSE c \in overtaken}

Reader(c) ==
    /\ Running(c) => Readable(clients[c].stage, down[c], Excused(c))
    /\ clients[c].stage = "Ended" =>
          /\ clients[c].why # "Unexpected"
          /\ clients[c].why \in {"ProtocolViolation", "ByRoom"} => clients[c].why \in Excused(c)

\* Where a live client (stage s, frames q on the way up, d on the way down) and
\* its flow (stage st, admitted or not) are in their conversation.
Greeting(s, q, d) == s = "AwaitingHostHello" /\ q = <<Hello>> /\ d = <<>>

Answering(st, s, q, d) ==
    \/ st = "AwaitingHello" /\ Greeting(s, q, d)
    \/ st = "AwaitingToken" /\ s = "AwaitingHostHello" /\ q = <<>> /\ \E t \in Nat : d = <<HostHello(t)>>
    \/ st = "AwaitingToken" /\ s = "AwaitingChallenge" /\ (\E t \in Nat : q = <<Token(t)>>) /\ d = <<>>
    \/ st = "AwaitingProof" /\ s = "AwaitingChallenge" /\ q = <<>> /\ d = <<Reply("Challenge")>>
    \/ st = "AwaitingProof" /\ s = "AwaitingJoinForm" /\ (\E ok \in BOOLEAN : q = <<Proof(ok)>>) /\ d = <<>>
    \/ /\ st = "AwaitingProof" /\ s = "AwaitingDecision"
       /\ (\E ok \in BOOLEAN : q = <<Proof(ok), JoinForm>>) /\ d = <<>>
    \/ st = "AwaitingJoinForm" /\ s = "AwaitingJoinForm" /\ q = <<>> /\ d = <<>>
    \/ st = "AwaitingJoinForm" /\ s = "AwaitingDecision" /\ q = <<JoinForm>> /\ d = <<>>
    \/ st = "Decided" /\ s = "AwaitingDecision" /\ q = <<>> /\ d = <<>>

\* The decision is on its way, or has been read.
Chatting(st, s, q, d) ==
    /\ st = "Decided"
    /\ \/ /\ s = "AwaitingDecision" /\ q = <<>>
          /\ d # <<>> /\ Head(d) = Reply("accepted") /\ Tail(d) \in Seq({Reply("frame")})
       \/ s = "Admitted" /\ q \in Seq({RoomFrame}) /\ d \in Seq({Reply("frame")})

Exchange(f, s, q, d) ==
    IF f.admitted THEN Chatting(f.stage, s, q, d) ELSE Answering(f.stage, s, q, d)

Waiting(c) == \E i \in DOMAIN connects : connects[i] = c

Conversation(c) ==
    IF c \in DOMAIN flows
    THEN Exchange(flows[c], clients[c].stage, inbound[c], down[c])
    ELSE Waiting(c) /\ Greeting(clients[c].stage, inbound[c], down[c])

Inside(c) == c \in DOMAIN flows /\ flows[c].admitted
Decided(c) == c \in DOMAIN flows /\ flows[c].stage = "Decided"

\* What batch i says to c, unless c was closed by an earlier one.
Says(c, i) ==
    LET b == actions[i] IN
    /\ b.tell[c] \in {"accepted", "rejected"} =>
          /\ Decided(c) /\ ~ Inside(c)
          /\ \A j \in DOMAIN actions : j < i => actions[j].tell[c] = "none"
    /\ b.tell[c] = "frame" =>
          Inside(c) \/ \E j \in DOMAIN actions : j < i /\ actions[j].tell[c] = "accepted"
    /\ b.tell[c] = "error" => c \in mishap
    /\ b.tell[c] \in {"error", "rejected", "shutdown"} => c \in b.close

Speech(c) ==
    \A i \in DOMAIN actions :
        (\A j \in DOMAIN actions : j < i => c \notin actions[j].close) => Says(c, i)

\* What the room takes c for is what the supervisor, or a batch on its way to
\* it, takes c for.
Standing(c) ==
    /\ role[c] \in {"pending", "member"} \/ Pending("Form", c) => Decided(c)
    /\ role[c] # "member" =>
          ~ Inside(c) /\ \A i \in DOMAIN actions : actions[i].tell[c] = "none"
    /\ role[c] = "member" => Inside(c) \/ Accepted(c)
    /\ Pending("Frame", c) => role[c] = "member"

\* The events of c that wait lead the room, one by one, to where the flow is.
Procession(c) ==
    /\ \A i, j \in DOMAIN events :
          events[i] = events[j] /\ events[i] \in {Event("Verified", c), Event("Form", c)} => i = j
    /\ \A i \in DOMAIN events : events[i] = Event("Verified", c) =>
          \/ role[c] = "guest"
          \/ role[c] = "none" /\ \E j \in DOMAIN events : j < i /\ events[j] = Event("Connected", c)
    /\ \A i \in DOMAIN events : events[i] = Event("Form", c) =>
          \/ role[c] = "verified"
          \/ \E j \in DOMAIN events : j < i /\ events[j] = Event("Verified", c)
    /\ Early(c) => role[c] = "guest" \/ (role[c] = "none" /\ Pending("Connected", c))
    /\ c \in DOMAIN flows /\ flows[c].stage = "AwaitingJoinForm" =>
          (role[c] = "verified" \/ Pending("Verified", c)) /\ ~ Pending("Form", c)

Known(c) == ~ closed /\ ~ Closing(c) => Standing(c) /\ (c \notin mishap => Procession(c))

Talks(c) == Conversation(c) /\ Speech(c) /\ Known(c)

ClientFacts ==
    /\ LinkTypes /\ Bounds
    /\ \A c \in Honest : Reader(c) /\ (Live(c) => Talks(c))

ClientInv == SupInv /\ ClientFacts

-----------------------------------------------------------------------------
(* Queues of frames *)

\* Of a queue that can be read, every prefix can.
LEMMA PrefixReadable ==
    ASSUME NEW q \in Seq(DownFrame), NEW n \in Nat
    PROVE  /\ SubSeq(q, 1, Least(n, Len(q))) \in Seq(DownFrame)
           /\ q = <<>> => SubSeq(q, 1, Least(n, Len(q))) = <<>>
           /\ \A s, cause : Readable(s, q, cause) => Readable(s, SubSeq(q, 1, Least(n, Len(q))), cause)
PROOF
  <1>1. PICK m : m = Least(n, Len(q))
    OBVIOUS
  <1>2. m \in Nat /\ m <= Len(q) /\ Len(q) \in Nat
    BY <1>1 DEF Least
  <1>3. PICK p : p = SubSeq(q, 1, m)
    OBVIOUS
  <1>4. /\ p \in Seq(DownFrame) /\ Len(p) = m /\ DOMAIN p = 1..m
        /\ \A i \in 1..m : p[i] = q[i]
    BY <1>2, <1>3
  <1>5. q = <<>> => p = <<>>
    BY <1>2, <1>4
  <1>6. DOMAIN p \subseteq DOMAIN q /\ \A i \in DOMAIN p : p[i] = q[i] /\ (i > 1 => 1 \in DOMAIN p)
    BY <1>2, <1>4
  <1>7. ASSUME NEW s, NEW cause, Readable(s, q, cause)
        PROVE  Readable(s, p, cause)
    BY <1>6, <1>7 DEF Readable
  <1> QED BY <1>1, <1>3, <1>4, <1>5, <1>7

\* What a closed connection was sent: a prefix of its queue.
LEMMA CutValue ==
    ASSUME NEW S \in SUBSET Peer, NEW q \in [Peer -> Seq(DownFrame)],
           NEW n \in [S \cap Honest -> 0..QueueCapacity]
    PROVE  /\ Cut(S, q, n) \in [Peer -> Seq(DownFrame)]
           /\ \A c \in Peer : /\ c \notin S => Cut(S, q, n)[c] = q[c]
                              /\ q[c] = <<>> => Cut(S, q, n)[c] = <<>>
           /\ \A c \in Honest : \A s, cause : Readable(s, q[c], cause) => Readable(s, Cut(S, q, n)[c], cause)
PROOF
  <1>1. \A c \in Peer : Cut(S, q, n)[c] = IF c \in S \cap Honest THEN SubSeq(q[c], 1, Least(n[c], Len(q[c])))
                                          ELSE IF c \in S THEN <<>> ELSE q[c]
    BY DEF Cut
  <1>2. ASSUME NEW c \in Peer
        PROVE  /\ Cut(S, q, n)[c] \in Seq(DownFrame)
               /\ c \notin S => Cut(S, q, n)[c] = q[c]
               /\ q[c] = <<>> => Cut(S, q, n)[c] = <<>>
               /\ c \in Honest => \A s, cause :
                     Readable(s, q[c], cause) => Readable(s, Cut(S, q, n)[c], cause)
    <2>1. CASE c \in S \cap Honest
      <3>1. n[c] \in Nat /\ q[c] \in Seq(DownFrame)
        BY <2>1, SupervisorAssumption
      <3>2. Cut(S, q, n)[c] = SubSeq(q[c], 1, Least(n[c], Len(q[c])))
        BY <1>1, <2>1
      <3> QED BY <2>1, <3>1, <3>2, PrefixReadable
    <2>2. CASE c \notin S \cap Honest
      <3>1. Cut(S, q, n)[c] = IF c \in S THEN <<>> ELSE q[c]
        BY <1>1, <2>2
      <3>2. <<>> \in Seq(DownFrame)
        OBVIOUS
      <3> QED BY <2>2, <3>1, <3>2
    <2> QED BY <2>1, <2>2
  <1>3. Cut(S, q, n) \in [Peer -> Seq(DownFrame)]
    BY <1>2 DEF Cut
  <1> QED BY <1>2, <1>3, SupervisorAssumption

\* A frame is queued behind the others.
LEMMA PushValue ==
    ASSUME NEW q \in Seq(DownFrame), NEW c, NEW msg \in DownFrame
    PROVE  /\ Pushed(q, c, msg) \in Seq(DownFrame)
           /\ c \in Honest => Pushed(q, c, msg) = Append(q, msg)
PROOF
  <1>1. Reply("frame") \in DownFrame
    BY DEF Reply, DownFrame
  <1> QED BY <1>1 DEF Pushed

\* One frame more can be read if the ones before it can, and it can behind them.
LEMMA AppendReadable ==
    ASSUME NEW q \in Seq(DownFrame), NEW msg \in DownFrame, NEW s, NEW cause, Readable(s, q, cause),
           \/ msg.type = "shutdown"
           \/ msg.type = "error" /\ (msg.code \in {"ProtocolViolation", "ByRoom"} => msg.code \in cause)
           \/ msg.type = "HostHello" /\ s = "AwaitingHostHello" /\ q = <<>>
           \/ msg.type = "Challenge" /\ s = "AwaitingChallenge" /\ q = <<>>
           \/ msg.type \in {"accepted", "rejected"} /\ s = "AwaitingDecision" /\ q = <<>>
           \/ msg.type = "frame" /\ s = "Admitted"
           \/ msg.type = "frame" /\ s = "AwaitingDecision" /\ q # <<>> /\ Head(q).type = "accepted"
    PROVE  Readable(s, Append(q, msg), cause)
PROOF
  <1>1. PICK p : p = Append(q, msg)
    OBVIOUS
  <1>2. /\ Len(q) \in Nat /\ DOMAIN q = 1..Len(q) /\ DOMAIN p = 1..(Len(q) + 1)
        /\ p[Len(q) + 1] = msg /\ \A i \in 1..Len(q) : p[i] = q[i]
        /\ q = <<>> <=> Len(q) = 0
        /\ q # <<>> => Head(q) = q[1]
    BY <1>1
  <1>3. ASSUME NEW i \in DOMAIN p
        PROVE  /\ p[i].type = "HostHello" => i = 1 /\ s = "AwaitingHostHello"
               /\ p[i].type = "Challenge" => i = 1 /\ s = "AwaitingChallenge"
               /\ p[i].type \in {"accepted", "rejected"} => i = 1 /\ s = "AwaitingDecision"
               /\ p[i].type = "frame" =>
                     s = "Admitted" \/ (s = "AwaitingDecision" /\ i > 1 /\ p[1].type = "accepted")
               /\ p[i].type = "error" /\ p[i].code \in {"ProtocolViolation", "ByRoom"} => p[i].code \in cause
    <2>1. CASE i \in DOMAIN q
      BY <1>2, <2>1 DEF Readable
    <2>2. CASE i \notin DOMAIN q
      <3>1. i = Len(q) + 1 /\ p[i] = msg
        BY <1>2, <1>3, <2>2
      <3>2. q # <<>> => i > 1 /\ p[1] = Head(q)
        BY <1>2, <3>1
      <3> QED BY <1>2, <3>1, <3>2
    <2> QED BY <2>1, <2>2
  <1> QED BY <1>1, <1>3 DEF Readable

\* A client can read an empty stream whatever it waits for.
LEMMA EmptyReadable ==
    ASSUME NEW s, NEW cause
    PROVE  Readable(s, <<>>, cause)
  BY DEF Readable

\* A frame on its way to c.
LEMMA QueuedValue ==
    ASSUME LinkTypes, NEW c \in Peer, NEW msg \in DownFrame
    PROVE  /\ Queued(c, msg) \in [Peer -> Seq(DownFrame)]
           /\ \A d \in Peer : d # c => Queued(c, msg)[d] = down[d]
           /\ Sendable(c) /\ c \in Honest => Queued(c, msg)[c] = Append(down[c], msg)
           /\ ~ Sendable(c) => Queued(c, msg) = down
PROOF
  <1>1. Pushed(down[c], c, msg) \in Seq(DownFrame)
        /\ (c \in Honest => Pushed(down[c], c, msg) = Append(down[c], msg))
    BY PushValue DEF LinkTypes
  <1> DEFINE v == Pushed(down[c], c, msg)
  <1>2. Queued(c, msg) = IF Sendable(c) THEN [down EXCEPT ![c] = v] ELSE down
    BY DEF Queued
  <1> HIDE DEF v
  <1>3. v \in Seq(DownFrame) /\ (c \in Honest => v = Append(down[c], msg))
    BY <1>1 DEF v
  <1> QED BY <1>2, <1>3 DEF LinkTypes

-----------------------------------------------------------------------------
(* Steps that do not concern a client *)

\* What waits in the event queue stays; what is new is one of E, behind it.
LEMMA OldEvents ==
    ASSUME NEW E, EventsGrow(E), NEW e, e \notin E
    PROVE  /\ \A i \in DOMAIN events' : events'[i] = e => i \in DOMAIN events /\ events[i] = e
           /\ \A i \in DOMAIN events : i \in DOMAIN events' /\ (events[i] = e => events'[i] = e)
  BY DEF EventsGrow

\* An event of another kind changes nothing about those of this kind.
LEMMA OldPending ==
    ASSUME NEW E, EventsGrow(E), NEW type, NEW c, Event(type, c) \notin E
    PROVE  Pending(type, c)' <=> Pending(type, c)
  BY OldEvents DEF Pending

\* The flow of c, seen from its client.
SameFlow(c) ==
    /\ c \in DOMAIN flows' <=> c \in DOMAIN flows
    /\ c \in DOMAIN flows =>
          flows'[c].stage = flows[c].stage /\ flows'[c].admitted = flows[c].admitted

\* What the flow of c means to the room.
AwaitsForm(c) == c \in DOMAIN flows /\ flows[c].stage = "AwaitingJoinForm"
SameView(c) ==
    /\ Inside(c)' <=> Inside(c)
    /\ Decided(c)' <=> Decided(c)
    /\ Early(c)' <=> Early(c)
    /\ AwaitsForm(c)' <=> AwaitsForm(c)

\* What the room and the gate hold of a connection does not move when its flow,
\* peer, role and phase do not.
LEMMA SameFlowSays ==
    ASSUME NEW c, SameFlow(c)
    PROVE  SameView(c)
  BY DEF SameFlow, SameView, Inside, Decided, Early, AwaitsForm

\* Whatever joins the queue without being one of its own leaves c's procession.
LEMMA ProcessionGrows ==
    ASSUME NEW c, NEW E, EventsGrow(E), Early(c)' <=> Early(c), AwaitsForm(c)' <=> AwaitsForm(c),
           role'[c] = role[c], Procession(c), Event("Connected", c) \notin E, Event("Verified", c) \notin E, Event("Form", c) \notin E
    PROVE  Procession(c)'
PROOF
  <1>1. /\ Pending("Connected", c)' <=> Pending("Connected", c)
        /\ Pending("Verified", c)' <=> Pending("Verified", c)
        /\ Pending("Form", c)' <=> Pending("Form", c)
    BY OldPending
  <1>2. (Early(c)' <=> Early(c)) /\ (AwaitsForm(c)' <=> AwaitsForm(c))
    OBVIOUS
  <1>3. ASSUME NEW e \in {Event("Connected", c), Event("Verified", c), Event("Form", c)}
        PROVE  /\ \A i \in DOMAIN events' : events'[i] = e => i \in DOMAIN events /\ events[i] = e
               /\ \A i \in DOMAIN events : i \in DOMAIN events' /\ (events[i] = e => events'[i] = e)
    BY OldEvents
  <1>4. ASSUME NEW i \in DOMAIN events', NEW j \in DOMAIN events', events'[i] = events'[j],
               events'[i] \in {Event("Verified", c), Event("Form", c)}
        PROVE  i = j
    BY <1>3, <1>4 DEF Procession
  <1>5. ASSUME NEW i \in DOMAIN events', events'[i] = Event("Verified", c)
        PROVE  \/ role'[c] = "guest"
               \/ role'[c] = "none" /\ \E j \in DOMAIN events' : j < i /\ events'[j] = Event("Connected", c)
    BY <1>3, <1>5 DEF Procession
  <1>6. ASSUME NEW i \in DOMAIN events', events'[i] = Event("Form", c)
        PROVE  \/ role'[c] = "verified"
               \/ \E j \in DOMAIN events' : j < i /\ events'[j] = Event("Verified", c)
    BY <1>3, <1>6 DEF Procession
  <1>7. Early(c)' => role'[c] = "guest" \/ (role'[c] = "none" /\ Pending("Connected", c)')
    BY <1>1, <1>2 DEF Procession
  <1>8. c \in DOMAIN flows' /\ flows'[c].stage = "AwaitingJoinForm" =>
           (role'[c] = "verified" \/ Pending("Verified", c)') /\ ~ Pending("Form", c)'
    BY <1>1, <1>2 DEF Procession, AwaitsForm
  <1> QED BY <1>4, <1>5, <1>6, <1>7, <1>8 DEF Procession

\* A step that is not about c and leaves the room and its answers alone.
Still(c, E) ==
    /\ clients'[c] = clients[c] /\ inbound'[c] = inbound[c] /\ down'[c] = down[c]
    /\ (c \in mishap' <=> c \in mishap) /\ (c \in overtaken' <=> c \in overtaken)
    /\ (Live(c))' => Live(c) /\ SameFlow(c) /\ (Waiting(c) => (Waiting(c))')
    /\ actions' = actions /\ role' = role /\ closed' = closed
    /\ EventsGrow(E)
    /\ \A type \in {"Connected", "Verified", "Form", "Frame"} : Event(type, c) \notin E

\* What waits in the action queue for a peer keeps its excuse while the peer's
\* standing and mishap do.
LEMMA SpeechStays ==
    ASSUME NEW c, Inside(c)' <=> Inside(c), Decided(c) => Decided(c)', actions' = actions, c \in mishap => c \in mishap', Speech(c)
    PROVE  Speech(c)'
PROOF
  <1>1. (Inside(c)' <=> Inside(c)) /\ (Decided(c) => Decided(c)')
    OBVIOUS
  <1>2. ASSUME NEW i \in DOMAIN actions', Says(c, i)
        PROVE  Says(c, i)'
    BY <1>1, <1>2 DEF Says
  <1>3. ASSUME NEW i \in DOMAIN actions', \A j \in DOMAIN actions' : j < i => c \notin actions'[j].close
        PROVE  Says(c, i)'
    BY <1>2, <1>3 DEF Speech
  <1> QED BY <1>3 DEF Speech

\* What the room knows of a connection stays true while no event about it is
\* posted and nothing is handed to it.
LEMMA KnownStays ==
    ASSUME NEW c, NEW E, EventsGrow(E), SameView(c), UNCHANGED <<actions, role, closed>>,
           c \in mishap' <=> c \in mishap, Known(c),
           \A type \in {"Connected", "Verified", "Form", "Frame"} : Event(type, c) \notin E
    PROVE  Known(c)'
PROOF
  <1> SUFFICES ASSUME ~ closed', ~ (Closing(c))'
               PROVE  Standing(c)' /\ (c \notin mishap' => Procession(c)')
    BY DEF Known
  <1>1. ~ closed /\ ~ Closing(c)
    BY DEF Closing
  <1>2. Standing(c) /\ (c \notin mishap => Procession(c))
    BY <1>1 DEF Known
  <1>3. (Pending("Form", c)' <=> Pending("Form", c)) /\ (Pending("Frame", c)' <=> Pending("Frame", c))
    BY OldPending
  <1>4. Accepted(c)' <=> Accepted(c)
    BY DEF Accepted
  <1>5. Standing(c)'
    BY <1>2, <1>3, <1>4 DEF Standing, SameView
  <1>6. Procession(c) => Procession(c)'
    BY ProcessionGrows DEF SameView
  <1> QED BY <1>2, <1>5, <1>6

\* A step that leaves a connection alone keeps its side of the conversation.
LEMMA StillStep ==
    ASSUME NEW c \in Honest, NEW E, Still(c, E), Reader(c), Live(c) => Talks(c)
    PROVE  Reader(c)' /\ ((Live(c))' => Talks(c)')
PROOF
  <1>1. Reader(c)'
    BY DEF Still, Reader, Running, Excused
  <1>2. ASSUME (Live(c))'
        PROVE  Talks(c)'
    <2>1. Talks(c) /\ SameFlow(c) /\ (Waiting(c) => (Waiting(c))')
      BY <1>2 DEF Still
    <2>2. SameView(c) /\ (Inside(c)' <=> Inside(c)) /\ (Decided(c)' <=> Decided(c))
      BY <2>1, SameFlowSays DEF SameView
    <2>3. Conversation(c)'
      BY <2>1 DEF Talks, Conversation, Exchange, SameFlow, Still
    <2>4. Speech(c)'
      BY <2>1, <2>2, SpeechStays DEF Talks, Still
    <2>5. Known(c)'
      BY <2>1, <2>2, KnownStays DEF Talks, Still
    <2> QED BY <2>3, <2>4, <2>5 DEF Talks
  <1> QED BY <1>1, <1>2

-----------------------------------------------------------------------------
(* Connections that are closed one at a time *)

\* The reader has more reasons to be refused for.
LEMMA ReadableGrows ==
    ASSUME NEW s, NEW q, NEW cause, NEW more, cause \subseteq more, Readable(s, q, cause)
    PROVE  Readable(s, q, more)
  BY DEF Readable

\* Who has more against it may be refused for more.
LEMMA ExcusedGrows ==
    ASSUME NEW c, c \in mishap => c \in mishap', c \in overtaken => c \in overtaken'
    PROVE  Excused(c) \subseteq Excused(c)'
  BY DEF Excused

\* Connection d is closed, after q was queued for it and a prefix of it written.
Removes(d, q, E) ==
    /\ CloseAll({d}, q)
    /\ UNCHANGED <<clients, nextId, phase, actions>> /\ RoomIdle
    /\ mishap' = mishap /\ overtaken \subseteq overtaken' /\ overtaken' \subseteq overtaken \cup {d}
    /\ DOMAIN inbound' = Peer
    /\ \A c \in Peer : c # d =>
          /\ inbound'[c] = inbound[c] /\ SameFlow(c) /\ q[c] = down[c]
          /\ Waiting(c) => (Waiting(c))'
    /\ \A c \in Peer : c >= nextId => q[c] = <<>>
    /\ EventsGrow(E) /\ \A e \in E : e.type = "Lost"

\* Closing a set of peers appends an end of stream to each, and one that was
\* readable still is.
LEMMA ClosesValue ==
    ASSUME NEW S \in SUBSET Peer, NEW q \in [Peer -> Seq(DownFrame)], CloseAll(S, q)
    PROVE  /\ down' \in [Peer -> Seq(DownFrame)]
           /\ \A c \in Peer : /\ c \notin S => down'[c] = q[c]
                              /\ q[c] = <<>> => down'[c] = <<>>
           /\ \A c \in Honest : \A s, cause : Readable(s, q[c], cause) => Readable(s, down'[c], cause)
           /\ DOMAIN peers' = DOMAIN peers \ S
           /\ \A c \in DOMAIN peers' : peers'[c] = peers[c]
PROOF
  <1>1. PICK n \in [S \cap Honest -> 0..QueueCapacity] : down' = Cut(S, q, n)
    BY DEF CloseAll
  <1>2. peers' = Without(peers, S)
    BY DEF CloseAll
  <1>3. DOMAIN peers' = DOMAIN peers \ S /\ \A c \in DOMAIN peers' : peers'[c] = peers[c]
    <2>1. /\ DOMAIN Without(peers, S) = DOMAIN peers \ S
          /\ \A c \in DOMAIN peers \ S : Without(peers, S)[c] = peers[c]
      BY WithoutValue, Zenon
    <2> QED BY <1>2, <2>1, Zenon
  <1>4. /\ Cut(S, q, n) \in [Peer -> Seq(DownFrame)]
        /\ \A c \in Peer : /\ c \notin S => Cut(S, q, n)[c] = q[c]
                           /\ q[c] = <<>> => Cut(S, q, n)[c] = <<>>
        /\ \A c \in Honest : \A s, cause : Readable(s, q[c], cause) => Readable(s, Cut(S, q, n)[c], cause)
    BY CutValue
  <1> QED BY <1>1, <1>3, <1>4

\* The supervisor removes one peer: only that peer's stream ends, the others
\* keep talking.
LEMMA RemovesStep ==
    ASSUME ClientFacts, NEW d \in Peer, NEW q \in [Peer -> Seq(DownFrame)], NEW E, Removes(d, q, E),
           d \in Honest /\ Running(d) => Readable(clients[d].stage, q[d], Excused(d)')
    PROVE  ClientFacts'
PROOF
  <1>1. {d} \in SUBSET Peer /\ CloseAll({d}, q)
    BY DEF Removes
  <1>2. /\ down' \in [Peer -> Seq(DownFrame)]
        /\ \A c \in Peer : /\ c \notin {d} => down'[c] = q[c]
                           /\ q[c] = <<>> => down'[c] = <<>>
        /\ \A c \in Honest : \A s, cause : Readable(s, q[c], cause) => Readable(s, down'[c], cause)
        /\ DOMAIN peers' = DOMAIN peers \ {d}
        /\ \A c \in DOMAIN peers' : peers'[c] = peers[c]
    BY <1>1, ClosesValue
  <1>3. LinkTypes'
    BY <1>2 DEF Removes, ClientFacts, LinkTypes
  <1>4. Bounds'
    BY <1>2 DEF Removes, ClientFacts, Bounds
  <1>5. ASSUME NEW c \in Honest, c # d
        PROVE  Reader(c)' /\ ((Live(c))' => Talks(c)')
    <2>1. c \in Peer
      BY SupervisorAssumption
    <2>2. Reader(c) /\ (Live(c) => Talks(c))
      BY DEF ClientFacts
    <2>3. (Live(c))' => Live(c)
      BY <1>2 DEF Live
    <2>4. \A type \in {"Connected", "Verified", "Form", "Frame"} : Event(type, c) \notin E
      BY EventValue DEF Removes
    <2>5. Still(c, E)
      BY <1>2, <1>5, <2>1, <2>3, <2>4 DEF Still, Removes, RoomIdle
    <2> QED BY <2>2, <2>5, StillStep
  <1>6. ASSUME d \in Honest
        PROVE  Reader(d)' /\ ~ (Live(d))'
    <2>1. Reader(d)
      BY <1>6 DEF ClientFacts
    <2>2. clients' = clients /\ mishap \subseteq mishap' /\ overtaken \subseteq overtaken'
      BY DEF Removes
    <2>3. Running(d)' => Readable(clients'[d].stage, down'[d], Excused(d)')
      <3>1. PICK more : more = Excused(d)'
        OBVIOUS
      <3>2. Running(d) => Readable(clients[d].stage, down'[d], more)
        BY <1>2, <1>6, <3>1
      <3> QED BY <2>2, <3>1, <3>2 DEF Running
    <2>4. Reader(d)'
      <3>1. Excused(d) \subseteq Excused(d)'
        BY <2>2, ExcusedGrows
      <3> QED BY <2>1, <2>2, <2>3, <3>1 DEF Reader, Running
    <2> QED BY <1>2, <2>4 DEF Live
  <1> QED BY <1>3, <1>4, <1>5, <1>6 DEF ClientFacts

\* One frame queued for d, or none.
LEMMA QueuedBounds ==
    ASSUME SupInv, ClientFacts, NEW d \in Peer, NEW msg \in DownFrame
    PROVE  \A c \in Peer : c >= nextId => Queued(d, msg)[c] = <<>>
PROOF
  <1> SUFFICES ASSUME NEW c \in Peer, c >= nextId
               PROVE  Queued(d, msg)[c] = <<>>
    OBVIOUS
  <1>1. down[c] = <<>> /\ LinkTypes
    BY DEF ClientFacts, Bounds
  <1>2. ~ (c < nextId)
    BY PeerFacts DEF SupInv, SupTypes
  <1>3. Sendable(c) => c < nextId
    BY DEF Sendable, SupInv, IdFacts, ConnectFacts
  <1> QED BY <1>1, <1>2, <1>3, QueuedValue

\* An error frame queued for d can be read if it has its cause.
LEMMA ErrorReadable ==
    ASSUME ClientFacts, NEW d \in Honest, NEW code \in ErrorCode, Excused(d) \subseteq Excused(d)',
           Sendable(d) /\ code \in {"ProtocolViolation", "ByRoom"} => code \in Excused(d)',
           Running(d)
    PROVE  Readable(clients[d].stage, Queued(d, Error(code))[d], Excused(d)')
PROOF
  <1>1. d \in Peer
    BY SupervisorAssumption
  <1>2. Error(code) \in DownFrame /\ Error(code).type = "error" /\ Error(code).code = code
    BY DEF Error, DownFrame
  <1>3. Readable(clients[d].stage, down[d], Excused(d)')
    BY ReadableGrows DEF ClientFacts, Reader
  <1>4. down[d] \in Seq(DownFrame) /\ LinkTypes
    BY <1>1 DEF ClientFacts, LinkTypes
  <1>5. CASE Sendable(d)
    <2>1. Queued(d, Error(code))[d] = Append(down[d], Error(code))
      BY <1>1, <1>2, <1>4, <1>5, QueuedValue
    <2> QED BY <1>2, <1>3, <1>4, <1>5, <2>1, AppendReadable
  <1>6. CASE ~ Sendable(d)
    <2>1. Queued(d, Error(code)) = down
      BY <1>6 DEF Queued
    <2> QED BY <1>3, <2>1
  <1> QED BY <1>5, <1>6

\* Removing one flow leaves every other connection's flow alone.
LEMMA WithoutSame ==
    ASSUME NEW d, NEW c, c # d, flows' = Without(flows, {d})
    PROVE  SameFlow(c)
PROOF
  <1>1. /\ DOMAIN flows' = DOMAIN flows \ {d}
        /\ \A x \in DOMAIN flows \ {d} : flows'[x] = flows[x]
    BY WithoutValue
  <1> QED BY <1>1 DEF SameFlow

\* Of the connects queue, everyone but the head still waits.
LEMMA WaitingTail ==
    ASSUME SupTypes, connects # <<>>, connects' = Tail(connects), NEW c, c # Head(connects), Waiting(c)
    PROVE  (Waiting(c))'
PROOF
  <1>1. PICK i \in DOMAIN connects : connects[i] = c
    BY DEF Waiting
  <1>2. /\ Len(connects) \in Nat \ {0} /\ DOMAIN connects = 1..Len(connects)
        /\ Head(connects) = connects[1]
        /\ DOMAIN connects' = 1..(Len(connects) - 1)
        /\ \A k \in DOMAIN connects' : connects'[k] = connects[k + 1]
    BY DEF SupTypes
  <1>3. i # 1 /\ i \in 1..Len(connects)
    BY <1>1, <1>2
  <1>4. i - 1 \in DOMAIN connects' /\ connects'[i - 1] = connects[(i - 1) + 1]
    BY <1>2, <1>3
  <1>5. (i - 1) + 1 = i
    BY <1>3
  <1> QED BY <1>1, <1>4, <1>5 DEF Waiting

\* The lockout refuses a connection.
LEMMA RefuseFlowClient ==
    ASSUME SupInv, ClientFacts, RefuseFlow
    PROVE  ClientFacts'
PROOF
  <1>1. PICK d : d = Head(connects)
    OBVIOUS
  <1>2. SupTypes /\ IdFacts /\ LinkTypes
    BY DEF SupInv, ClientFacts
  <1>3. /\ connects # <<>> /\ connects' = Tail(connects)
        /\ CloseAll({d}, Queued(d, Error("RateLimited"))) /\ RoomIdle
        /\ UNCHANGED <<events, actions, nextId, inbound, flows, phase, clients, overtaken, mishap>>
    BY <1>1 DEF RefuseFlow
  <1>4. d \in Peer
    BY <1>1, <1>2, <1>3, HeadUnseen
  <1>5. "RateLimited" \in ErrorCode /\ Error("RateLimited") \in DownFrame
    BY DEF Error, ErrorCode, DownFrame
  <1> DEFINE q == Queued(d, Error("RateLimited"))
  <1>6. /\ q \in [Peer -> Seq(DownFrame)] /\ \A c \in Peer : c # d => q[c] = down[c]
        /\ \A c \in Peer : c >= nextId => q[c] = <<>>
    BY <1>2, <1>4, <1>5, QueuedValue, QueuedBounds
  <1>7. d \in Honest /\ Running(d) => Readable(clients[d].stage, q[d], Excused(d)')
    <2>1. d \in Honest => Excused(d) \subseteq Excused(d)'
      BY <1>3, ExcusedGrows
    <2> QED BY <1>5, <2>1, ErrorReadable
  <1> HIDE DEF q
  <1>8. \A c \in Peer : c # d => (Waiting(c) => (Waiting(c))')
    BY <1>1, <1>2, <1>3, WaitingTail
  <1>9. EventsGrow({})
    BY <1>2, <1>3, NoneGrows DEF SupTypes
  <1>10. CloseAll({d}, q)
    BY <1>3 DEF q
  <1>11. Removes(d, q, {})
    BY <1>2, <1>3, <1>6, <1>8, <1>9, <1>10 DEF Removes, SameFlow, LinkTypes
  <1> QED BY <1>4, <1>6, <1>7, <1>11, RemovesStep

\* Flow f waits for frame m.
Expected(f, m) ==
    \/ f.stage = "AwaitingHello" /\ m = Hello
    \/ f.stage = "AwaitingToken" /\ \E t \in Nat : m = Token(t)
    \/ f.stage = "AwaitingProof" /\ \E ok \in BOOLEAN : m = Proof(ok)
    \/ f.stage = "AwaitingJoinForm" /\ m = JoinForm
    \/ f.stage = "Decided" /\ f.admitted /\ m = RoomFrame

\* What a live client has sent first is what its flow waits for.
LEMMA HeadExpected ==
    ASSUME NEW c, Conversation(c), inbound[c] # <<>>
    PROVE  /\ c \notin DOMAIN flows => Waiting(c)
           /\ c \in DOMAIN flows => Expected(flows[c], Head(inbound[c]))
PROOF
  <1>1. c \notin DOMAIN flows => Waiting(c)
    BY DEF Conversation
  <1>2. ASSUME c \in DOMAIN flows, flows[c].admitted
        PROVE  Expected(flows[c], Head(inbound[c]))
    <2>1. Chatting(flows[c].stage, clients[c].stage, inbound[c], down[c])
      BY <1>2 DEF Conversation, Exchange
    <2>2. inbound[c] \in Seq({RoomFrame})
      BY <2>1 DEF Chatting
    <2>3. Head(inbound[c]) = RoomFrame
      BY <2>2
    <2> QED BY <1>2, <2>1, <2>3 DEF Chatting, Expected
  <1>3. ASSUME c \in DOMAIN flows, ~ flows[c].admitted
        PROVE  Expected(flows[c], Head(inbound[c]))
    <2>1. Answering(flows[c].stage, clients[c].stage, inbound[c], down[c])
      BY <1>3 DEF Conversation, Exchange
    <2> QED BY <2>1 DEF Answering, Greeting, Expected
  <1> QED BY <1>1, <1>2, <1>3

\* What the frames of the applicant's side carry.
LEMMA FrameType ==
    /\ Hello.type = "Hello" /\ JoinForm.type = "Form" /\ RoomFrame.type = "RoomFrame"
    /\ \A t : Token(t).type = "Token" /\ Token(t).token = t
    /\ \A ok : Proof(ok).type = "Proof" /\ Proof(ok).ok = ok
  BY DEF Hello, JoinForm, RoomFrame, Token, Proof

\* The gate finds fault with a live client's frame only when it comes before its
\* connection was taken up.
LEMMA RefusalCause ==
    ASSUME SupInv, NEW c \in Honest, Conversation(c), inbound[c] # <<>>, NEW m,
           m = Head(inbound[c]), Refusal(c, m) = "ProtocolViolation"
    PROVE  Waiting(c)
PROOF
  <1> SUFFICES ASSUME c \in DOMAIN flows PROVE FALSE
    BY HeadExpected
  <1>1. PICK f : f = flows[c]
    OBVIOUS
  <1>2. Expected(f, m)
    BY <1>1, HeadExpected
  <1>3. \/ f.stage = "AwaitingHello" /\ m.type = "Hello"
        \/ f.stage = "AwaitingToken" /\ m.type = "Token"
        \/ f.stage = "AwaitingProof" /\ m.type = "Proof"
        \/ f.stage = "AwaitingJoinForm" /\ m.type = "Form"
        \/ f.stage = "Decided" /\ f.admitted = TRUE /\ m.type = "RoomFrame"
    BY <1>2, FrameType DEF Expected
  <1>4. Class(m) \in Accepts(f)
    BY <1>3 DEF Class, Accepts
  <1> QED BY <1>1, <1>3, <1>4 DEF Refusal

\* A refusal names one of the protocol's error codes.
LEMMA RefusalCode ==
    ASSUME NEW c, NEW m, Refusal(c, m) # "None"
    PROVE  Refusal(c, m) \in ErrorCode /\ Error(Refusal(c, m)) \in DownFrame
PROOF
  <1>1. Refusal(c, m) \in ErrorCode
    BY DEF Refusal, ErrorCode
  <1> QED BY <1>1 DEF Error, DownFrame

\* The gate refuses a frame.
LEMMA RefuseMessageClient ==
    ASSUME SupInv, ClientFacts, NEW d \in Peer, RefuseMessage(d)
    PROVE  ClientFacts'
PROOF
  <1>1. PICK m : m = Head(inbound[d])
    OBVIOUS
  <1>2. PICK code : code = Refusal(d, m)
    OBVIOUS
  <1>3. /\ inbound[d] # <<>> /\ code # "None" /\ inbound' = [inbound EXCEPT ![d] = Tail(@)]
        /\ flows' = Without(flows, {d}) /\ CloseAll({d}, Queued(d, Error(code))) /\ PostLost({d})
        /\ overtaken' = (IF d \in Honest /\ Waiting(d) THEN overtaken \cup {d} ELSE overtaken)
        /\ RoomIdle /\ UNCHANGED <<actions, nextId, connects, phase, clients, mishap>>
    BY <1>1, <1>2 DEF RefuseMessage, Unread, Waiting
  <1>4. SupTypes /\ LinkTypes
    BY DEF SupInv, ClientFacts
  <1>5. code \in ErrorCode /\ Error(code) \in DownFrame
    BY <1>2, <1>3, RefusalCode
  <1> DEFINE q == Queued(d, Error(code))
  <1>6. /\ q \in [Peer -> Seq(DownFrame)] /\ \A c \in Peer : c # d => q[c] = down[c]
        /\ \A c \in Peer : c >= nextId => q[c] = <<>>
    BY <1>4, <1>5, QueuedValue, QueuedBounds
  <1>7. ASSUME d \in Honest, Running(d)
        PROVE  Readable(clients[d].stage, q[d], Excused(d)')
    <2>1. ASSUME Sendable(d), code \in {"ProtocolViolation", "ByRoom"}
          PROVE  code \in Excused(d)'
      <3>1. Live(d)
        BY <2>1 DEF Sendable, Live
      <3>2. Conversation(d)
        BY <1>7, <3>1 DEF ClientFacts, Talks
      <3>3. code = "ProtocolViolation"
        BY <1>2, <2>1 DEF Refusal
      <3>4. Waiting(d)
        BY <1>1, <1>2, <1>3, <1>7, <3>2, <3>3, RefusalCause
      <3>5. d \in overtaken'
        BY <1>3, <1>7, <3>4
      <3> QED BY <3>3, <3>5 DEF Excused
    <2>2. Excused(d) \subseteq Excused(d)'
      BY <1>3 DEF Excused
    <2> QED BY <1>5, <1>7, <2>1, <2>2, ErrorReadable
  <1>8. CloseAll({d}, q)
    BY <1>3
  <1> HIDE DEF q
  <1>9. PICK E : E = {Event("Lost", x) : x \in {d}}
    OBVIOUS
  <1>10. EventsGrow(E) /\ \A e \in E : e.type = "Lost"
    BY <1>3, <1>4, <1>9, LostGrows, EventValue DEF SupTypes
  <1>11. \A c \in Peer : c # d => SameFlow(c)
    BY <1>3, WithoutSame
  <1>12. /\ DOMAIN inbound' = Peer /\ \A c \in Peer : c # d => inbound'[c] = inbound[c]
         /\ \A c \in Peer : Waiting(c) => (Waiting(c))'
    BY <1>3, <1>4 DEF LinkTypes, Waiting
  <1>13. mishap' = mishap /\ overtaken \subseteq overtaken' /\ overtaken' \subseteq overtaken \cup {d}
    BY <1>3
  <1>14. Removes(d, q, E)
    BY <1>3, <1>6, <1>8, <1>10, <1>11, <1>12, <1>13 DEF Removes
  <1> QED BY <1>6, <1>7, <1>14, RemovesStep

\* The stream ended, or the sweep found the connection overdue.
LEMMA EndsFlowClient ==
    ASSUME SupInv, ClientFacts, NEW d \in Peer, HandleEof(d) \/ Sweep(d)
    PROVE  ClientFacts'
PROOF
  <1>1. /\ flows' = Without(flows, {d}) /\ CloseAll({d}, down) /\ PostLost({d})
        /\ RoomIdle /\ UNCHANGED <<actions, nextId, connects, phase, clients, overtaken, mishap>>
    BY DEF HandleEof, Sweep
  <1>2. inbound' = inbound \/ inbound' = [inbound EXCEPT ![d] = Tail(@)]
    BY DEF HandleEof, Sweep
  <1>3. SupTypes /\ LinkTypes
    BY DEF SupInv, ClientFacts
  <1>4. PICK E : E = {Event("Lost", x) : x \in {d}}
    OBVIOUS
  <1>5. EventsGrow(E) /\ \A e \in E : e.type = "Lost"
    BY <1>1, <1>3, <1>4, LostGrows, EventValue DEF SupTypes
  <1>6. \A c \in Peer : c # d => SameFlow(c)
    BY <1>1, WithoutSame
  <1>7. /\ DOMAIN inbound' = Peer /\ \A c \in Peer : c # d => inbound'[c] = inbound[c]
        /\ \A c \in Peer : Waiting(c) => (Waiting(c))'
    BY <1>1, <1>2, <1>3 DEF LinkTypes, Waiting
  <1>8. /\ down \in [Peer -> Seq(DownFrame)]
        /\ \A c \in Peer : c >= nextId => down[c] = <<>>
        /\ d \in Honest /\ Running(d) => Readable(clients[d].stage, down[d], Excused(d)')
    BY <1>1 DEF ClientFacts, LinkTypes, Bounds, Reader, Excused
  <1>9. Removes(d, down, E)
    BY <1>1, <1>5, <1>6, <1>7, <1>8 DEF Removes
  <1> QED BY <1>8, <1>9, RemovesStep

-----------------------------------------------------------------------------
(* Steps that concern no client, and the ends of the session *)

\* A step that leaves every honest connection alone preserves the conversation.
LEMMA StillAll ==
    ASSUME ClientFacts, LinkTypes', Bounds', \A c \in Honest : \E E : Still(c, E)
    PROVE  ClientFacts'
PROOF
  <1>1. ASSUME NEW c \in Honest
        PROVE  Reader(c)' /\ ((Live(c))' => Talks(c)')
    <2>1. PICK E : Still(c, E)
      OBVIOUS
    <2> QED BY <2>1, StillStep DEF ClientFacts
  <1> QED BY <1>1 DEF ClientFacts

\* Commands, /exit and the passing of time.
LEMMA CalmClient ==
    ASSUME SupInv, ClientFacts, HostCommand \/ Exit \/ Tick
    PROVE  ClientFacts'
PROOF
  <1>1. SupTypes
    BY DEF SupInv
  <1>2. /\ UNCHANGED <<actions, nextId, peers, connects, inbound, down, flows, clients, overtaken, mishap>>
        /\ RoomIdle /\ phase' \in {phase, "closing"}
    BY DEF HostCommand, Exit, Tick
  <1>3. PICK E : EventsGrow(E) /\ \A e \in E : e.type \notin {"Connected", "Verified", "Form", "Frame"}
    <2>1. CASE HostCommand
      <3>1. PICK E : Calm(E)
        BY <1>1, <2>1, CommandCalm
      <3>2. EventsGrow(E) /\ \A e \in E : e.type \notin {"Connected", "Verified", "Form", "Frame"}
        BY <3>1 DEF Calm, CalmEvent
      <3> QED BY <3>2
    <2>2. CASE Exit
      <3>1. EventsGrow({Event("CloseRequested", 0)})
        BY <1>1, <2>2, ExitCalm DEF Calm
      <3>2. \A e \in {Event("CloseRequested", 0)} : e.type \notin {"Connected", "Verified", "Form", "Frame"}
        BY EventValue
      <3> QED BY <3>1, <3>2
    <2>3. CASE Tick
      <3>1. EventsGrow({})
        BY <1>1, <2>3, TickCalm DEF Calm
      <3> QED BY <3>1
    <2> QED BY <2>1, <2>2, <2>3
  <1>4. ASSUME NEW c \in Honest
        PROVE  Still(c, E)
    <2>1. \A type \in {"Connected", "Verified", "Form", "Frame"} : Event(type, c) \notin E
      BY <1>3, EventValue
    <2>2. SameFlow(c) /\ ((Live(c))' => Live(c)) /\ (Waiting(c) => (Waiting(c))')
      BY <1>2 DEF SameFlow, Live, Waiting
    <2> QED BY <1>2, <1>3, <2>1, <2>2 DEF Still, RoomIdle
  <1>5. LinkTypes' /\ Bounds'
    BY <1>2 DEF ClientFacts, LinkTypes, Bounds
  <1> QED BY <1>4, <1>5, StillAll

\* Only a live connection can be sent anything.
LEMMA SendableLive ==
    ASSUME SupInv, NEW c, Sendable(c)
    PROVE  Live(c) /\ c < nextId /\ c \in Peer
  BY DEF Sendable, Live, SupInv, SupTypes, IdFacts, ConnectFacts

\* What the room tells somebody, as a frame.
LEMMA FrameValue ==
    ASSUME NEW what \in Told, what # "none"
    PROVE  /\ Frame(what) \in DownFrame /\ Frame(what).type = what
           /\ what = "error" => Frame(what).code = "ByRoom"
           /\ what # "error" => Frame(what) = Reply(what)
  BY DEF Frame, Error, Reply, DownFrame, ErrorCode, Told

\* The frames of a batch, where they can be queued.
LEMMA DeliveredValue ==
    ASSUME SupInv, ClientFacts, NEW b \in BatchType
    PROVE  /\ Delivered(b) \in [Peer -> Seq(DownFrame)]
           /\ \A c \in Peer :
                 /\ b.tell[c] = "none" \/ ~ Sendable(c) => Delivered(b)[c] = down[c]
                 /\ c \in Honest /\ b.tell[c] # "none" /\ Sendable(c) =>
                       Delivered(b)[c] = Append(down[c], Frame(b.tell[c]))
                 /\ c >= nextId => Delivered(b)[c] = <<>>
PROOF
  <1>1. \A c \in Peer : Delivered(b)[c] = IF b.tell[c] # "none" /\ Sendable(c)
                                          THEN Pushed(down[c], c, Frame(b.tell[c])) ELSE down[c]
    BY DEF Delivered
  <1>2. ASSUME NEW c \in Peer
        PROVE  /\ Delivered(b)[c] \in Seq(DownFrame)
               /\ b.tell[c] = "none" \/ ~ Sendable(c) => Delivered(b)[c] = down[c]
               /\ c \in Honest /\ b.tell[c] # "none" /\ Sendable(c) =>
                     Delivered(b)[c] = Append(down[c], Frame(b.tell[c]))
               /\ c >= nextId => Delivered(b)[c] = <<>>
    <2>1. down[c] \in Seq(DownFrame) /\ b.tell[c] \in Told
      BY DEF ClientFacts, LinkTypes, BatchType
    <2>2. CASE b.tell[c] # "none" /\ Sendable(c)
      <3>1. Frame(b.tell[c]) \in DownFrame
        BY <2>1, <2>2, FrameValue
      <3>2. /\ Pushed(down[c], c, Frame(b.tell[c])) \in Seq(DownFrame)
            /\ c \in Honest => Pushed(down[c], c, Frame(b.tell[c])) = Append(down[c], Frame(b.tell[c]))
        BY <2>1, <3>1, PushValue
      <3>3. ~ (c >= nextId)
        BY <2>2, SendableLive, PeerFacts DEF SupInv, SupTypes
      <3> QED BY <1>1, <2>2, <3>2, <3>3
    <2>3. CASE ~ (b.tell[c] # "none" /\ Sendable(c))
      BY <1>1, <2>1, <2>3 DEF ClientFacts, Bounds
    <2> QED BY <2>2, <2>3
  <1>3. Delivered(b) \in [Peer -> Seq(DownFrame)]
    BY <1>2 DEF Delivered
  <1> QED BY <1>2, <1>3

\* The batch at the head of the action channel says what its reader expects.
LEMMA HeadSays ==
    ASSUME SupInv, NEW c, Speech(c), actions # <<>>
    PROVE  /\ 1 \in DOMAIN actions /\ Head(actions) = actions[1] /\ Head(actions) \in BatchType
           /\ Says(c, 1)
           /\ actions[1].tell[c] = "frame" => Inside(c)
PROOF
  <1>1. /\ Len(actions) \in Nat \ {0} /\ DOMAIN actions = 1..Len(actions)
        /\ Head(actions) = actions[1] /\ Head(actions) \in BatchType
    BY DEF SupInv, SupTypes
  <1>2. \A j \in DOMAIN actions : ~ (j < 1)
    BY <1>1
  <1>3. 1 \in DOMAIN actions /\ Says(c, 1)
    BY <1>1, <1>2 DEF Speech
  <1> QED BY <1>1, <1>2, <1>3 DEF Says

\* What the first action batch sends can be read by the client it is sent to.
LEMMA DeliveredReadable ==
    ASSUME SupInv, ClientFacts, actions # <<>>, NEW c \in Honest, Running(c)
    PROVE  Readable(clients[c].stage, Delivered(Head(actions))[c], Excused(c))
PROOF
  <1>1. PICK b : b = Head(actions)
    OBVIOUS
  <1>2. b \in BatchType /\ c \in Peer
    BY <1>1, SupervisorAssumption DEF SupInv, SupTypes
  <1>3. Readable(clients[c].stage, down[c], Excused(c)) /\ down[c] \in Seq(DownFrame)
    BY <1>2 DEF ClientFacts, Reader, LinkTypes
  <1>4. CASE b.tell[c] = "none" \/ ~ Sendable(c)
    BY <1>1, <1>2, <1>3, <1>4, DeliveredValue
  <1>5. CASE b.tell[c] # "none" /\ Sendable(c)
    <2>1. Delivered(b)[c] = Append(down[c], Frame(b.tell[c])) /\ b.tell[c] \in Told
      BY <1>2, <1>5, DeliveredValue DEF BatchType
    <2>2. /\ Frame(b.tell[c]) \in DownFrame /\ Frame(b.tell[c]).type = b.tell[c]
          /\ b.tell[c] = "error" => Frame(b.tell[c]).code = "ByRoom"
      BY <1>5, <2>1, FrameValue
    <2>3. Talks(c)
      BY <1>5, SendableLive DEF ClientFacts
    <2>4. Says(c, 1) /\ actions[1] = b /\ (b.tell[c] = "frame" => Inside(c))
      BY <1>1, <2>3, HeadSays DEF Talks
    <2>5. ASSUME b.tell[c] \in {"accepted", "rejected"}
          PROVE  clients[c].stage = "AwaitingDecision" /\ down[c] = <<>>
      <3>1. Decided(c) /\ ~ Inside(c)
        BY <2>4, <2>5 DEF Says
      <3>2. Answering("Decided", clients[c].stage, inbound[c], down[c])
        BY <2>3, <3>1 DEF Talks, Conversation, Exchange, Decided, Inside
      <3> QED BY <3>2 DEF Answering
    <2>6. ASSUME b.tell[c] = "frame"
          PROVE  \/ clients[c].stage = "Admitted"
                 \/ clients[c].stage = "AwaitingDecision" /\ down[c] # <<>> /\ Head(down[c]).type = "accepted"
      <3>1. Chatting(flows[c].stage, clients[c].stage, inbound[c], down[c])
        BY <2>3, <2>4, <2>6 DEF Talks, Conversation, Exchange, Inside
      <3> QED BY <3>1 DEF Chatting, Reply
    <2>7. b.tell[c] = "error" => c \in mishap
      BY <2>4 DEF Says
    <2>8. b.tell[c] = "error" => "ByRoom" \in Excused(c)
      BY <2>7 DEF Excused
    <2>9. Readable(clients[c].stage, Append(down[c], Frame(b.tell[c])), Excused(c))
      BY <1>3, <1>5, <2>1, <2>2, <2>5, <2>6, <2>8, AppendReadable DEF Told
    <2> QED BY <1>1, <2>1, <2>9
  <1> QED BY <1>4, <1>5

\* The session is over: what was sent can still be read.
LEMMA ExitClient ==
    ASSUME SupInv, ClientFacts, FinishExit \/ Abandon
    PROVE  ClientFacts'
PROOF
  <1>1. SupTypes /\ LinkTypes
    BY DEF SupInv, ClientFacts
  <1> DEFINE q == IF phase = "closing" THEN Delivered(Head(actions)) ELSE down
  <1>2. /\ CloseAll(DOMAIN peers, q) /\ DropSession
        /\ UNCHANGED <<nextId, clients, overtaken, mishap>>
        /\ phase = "closing" => actions # <<>>
    BY DEF FinishExit, Abandon
  <1>3. phase = "closing" => Head(actions) \in BatchType
    BY <1>1, <1>2 DEF SupTypes
  <1>4. q \in [Peer -> Seq(DownFrame)] /\ \A c \in Peer : c >= nextId => q[c] = <<>>
    <2>1. CASE phase = "closing"
      BY <1>3, <2>1, DeliveredValue
    <2>2. CASE phase # "closing"
      BY <2>2 DEF ClientFacts, LinkTypes, Bounds
    <2> QED BY <2>1, <2>2
  <1>5. \A c \in Honest : Running(c) => Readable(clients[c].stage, q[c], Excused(c))
    <2>1. CASE phase = "closing"
      BY <1>2, <2>1, DeliveredReadable
    <2>2. CASE phase # "closing"
      BY <2>2 DEF ClientFacts, Reader
    <2> QED BY <2>1, <2>2
  <1> HIDE DEF q
  <1>6. /\ down' \in [Peer -> Seq(DownFrame)]
        /\ \A c \in Peer : q[c] = <<>> => down'[c] = <<>>
        /\ \A c \in Honest : \A s, cause : Readable(s, q[c], cause) => Readable(s, down'[c], cause)
        /\ DOMAIN peers' = DOMAIN peers \ DOMAIN peers
    <2>1. DOMAIN peers \in SUBSET Peer
      BY <1>1 DEF SupTypes
    <2> QED BY <1>2, <1>4, <2>1, ClosesValue
  <1>7. DOMAIN peers' = {}
    BY <1>6
  <1>8. LinkTypes' /\ Bounds'
    BY <1>1, <1>2, <1>4, <1>6, <1>7 DEF LinkTypes, Bounds, DropSession
  <1>9. ASSUME NEW c \in Honest
        PROVE  Reader(c)' /\ ~ (Live(c))'
    <2>1. Running(c)' => Readable(clients'[c].stage, down'[c], Excused(c)')
      BY <1>2, <1>5, <1>6 DEF Running, Excused
    <2>2. Reader(c)'
      BY <1>2, <2>1 DEF ClientFacts, Reader, Running, Excused
    <2> QED BY <1>7, <2>2 DEF Live
  <1> QED BY <1>8, <1>9 DEF ClientFacts

-----------------------------------------------------------------------------
(* The gate takes up a connection, or a frame *)

\* A connection is taken up behind its Hello.
LEMMA OpenFlowClient ==
    ASSUME SupInv, ClientFacts, OpenFlow
    PROVE  ClientFacts'
PROOF
  <1>1. SupTypes /\ IdFacts
    BY DEF SupInv
  <1>2. PICK d : Opens(d)
    BY <1>1, OpenFlowOpens
  <1>3. /\ UNCHANGED <<actions, nextId, peers, inbound, down, phase, clients, overtaken, mishap>> /\ RoomIdle
    BY DEF OpenFlow
  <1>4. PICK E : E = {Event("Connected", d)}
    OBVIOUS
  <1>5. /\ connects # <<>> /\ d = Head(connects) /\ connects' = Tail(connects) /\ Unseen(d) /\ d \in Peer
        /\ DOMAIN flows' = DOMAIN flows \cup {d} /\ flows'[d] = NewFlow /\ d \notin DOMAIN flows
        /\ \A c \in DOMAIN flows : flows'[c] = flows[c]
        /\ EventsGrow(E)
    BY <1>2, <1>4 DEF Opens
  <1>6. LinkTypes' /\ Bounds'
    BY <1>3 DEF ClientFacts, LinkTypes, Bounds
  <1>7. ASSUME NEW c \in Honest, c # d
        PROVE  Reader(c)' /\ ((Live(c))' => Talks(c)')
    <2>1. \A type \in {"Connected", "Verified", "Form", "Frame"} : Event(type, c) \notin E
      BY <1>4, <1>7, EventValue
    <2>2. SameFlow(c) /\ ((Live(c))' => Live(c)) /\ (Waiting(c) => (Waiting(c))')
      BY <1>1, <1>3, <1>5, <1>7, WaitingTail DEF SameFlow, Live
    <2>3. Still(c, E)
      BY <1>3, <1>5, <2>1, <2>2 DEF Still, RoomIdle
    <2> QED BY <2>3, StillStep DEF ClientFacts
  <1>8. ASSUME d \in Honest
        PROVE  Reader(d)' /\ ((Live(d))' => Talks(d)')
    <2>1. Reader(d)'
      BY <1>3, <1>8 DEF ClientFacts, Reader, Running, Excused
    <2>2. ASSUME (Live(d))'
          PROVE  Talks(d)'
      <3>1. Talks(d)
        BY <1>3, <1>8, <2>2 DEF ClientFacts, Live
      <3>2. flows'[d].stage = "AwaitingHello" /\ flows'[d].admitted = FALSE
        BY <1>5 DEF NewFlow
      <3>3. Conversation(d)'
        BY <1>3, <1>5, <3>1, <3>2 DEF Talks, Conversation, Exchange, Answering
      <3>4. ~ Inside(d) /\ ~ Decided(d) /\ ~ Inside(d)' /\ ~ Decided(d)' /\ ~ AwaitsForm(d)'
        BY <1>5, <3>2 DEF Inside, Decided, AwaitsForm
      <3>5. Speech(d)'
        BY <1>3, <3>1, <3>4, SpeechStays DEF Talks
      <3>6. ASSUME ~ closed', ~ (Closing(d))'
            PROVE  Standing(d)' /\ Procession(d)'
        <4>1. Standing(d)
          BY <1>3, <3>1, <3>6 DEF Talks, Known, Closing, RoomIdle
        <4>2. Event("Form", d) \notin E /\ Event("Frame", d) \notin E
          BY <1>4, EventValue
        <4>3. (Pending("Form", d)' <=> Pending("Form", d)) /\ (Pending("Frame", d)' <=> Pending("Frame", d))
          BY <1>5, <4>2, OldPending
        <4>4. Standing(d)'
          BY <1>3, <3>4, <4>1, <4>3 DEF Standing, Accepted, RoomIdle
        <4>5. role'[d] = "none"
          BY <1>1, <1>3, <1>5 DEF IdFacts, UnseenFacts, RoomIdle
        <4>6. Pending("Connected", d)'
          BY <1>4, <1>5 DEF EventsGrow, Pending
        <4>7. \A i \in DOMAIN events' :
                 events'[i] # Event("Verified", d) /\ events'[i] # Event("Form", d)
          <5>1. \A i \in DOMAIN events : events[i] # Event("Verified", d) /\ events[i] # Event("Form", d)
            BY <1>1, <1>5, EventValue DEF IdFacts, UnseenFacts
          <5>2. Event("Verified", d) \notin E /\ Event("Form", d) \notin E
            BY <1>4, EventValue
          <5> QED BY <1>5, <5>1, <5>2, OldEvents
        <4>8. Procession(d)'
          BY <3>4, <4>5, <4>6, <4>7 DEF Procession, AwaitsForm, Pending
        <4> QED BY <4>4, <4>8
      <3> QED BY <3>3, <3>5, <3>6 DEF Talks, Known
    <2> QED BY <2>1, <2>2
  <1> QED BY <1>6, <1>7, <1>8 DEF ClientFacts

\* A frame that is accepted moves its own flow only.
LEMMA MessageFlow ==
    ASSUME SupTypes, NEW c \in Peer, HandleMessage(c)
    PROVE  /\ c \in DOMAIN flows /\ DOMAIN flows' = DOMAIN flows
           /\ flows'[c].stage = NextStage(flows[c], Head(inbound[c]))
           /\ flows'[c].admitted = flows[c].admitted
           /\ \A d \in DOMAIN flows : d # c => flows'[d] = flows[d]
PROOF
  <1>1. PICK s : s = NextStage(flows[c], Head(inbound[c]))
    OBVIOUS
  <1>2. PICK sh : sh = flows[c].shown \cup Shows(Head(inbound[c]))
    OBVIOUS
  <1>3. /\ flows' = [flows EXCEPT ![c].stage = NextStage(flows[c], Head(inbound[c])),
                                  ![c].shown = @ \cup Shows(Head(inbound[c]))]
        /\ Refusal(c, Head(inbound[c])) = "None"
    BY DEF HandleMessage
  <1>4. c \in DOMAIN flows
    BY <1>3 DEF Refusal
  <1>5. flows[c] \in FlowType
    BY <1>4 DEF SupTypes
  <1>6. flows' = [flows EXCEPT ![c] = [flows[c] EXCEPT !.stage = s, !.shown = sh]]
    BY <1>1, <1>2, <1>3, <1>4, <1>5 DEF FlowType
  <1>7. /\ DOMAIN flows' = DOMAIN flows /\ \A d \in DOMAIN flows : d # c => flows'[d] = flows[d]
        /\ flows'[c] = [flows[c] EXCEPT !.stage = s, !.shown = sh]
    BY <1>4, <1>6
  <1> QED BY <1>1, <1>4, <1>5, <1>7 DEF FlowType

\* The answer is queued, and only for who can be sent it.
LEMMA AnsweredValue ==
    ASSUME SupInv, ClientFacts, NEW c \in Peer, HandleMessage(c)
    PROVE  LET m == Head(inbound[c]) IN
           /\ down' \in [Peer -> Seq(DownFrame)]
           /\ \A d \in Peer : d # c => down'[d] = down[d]
           /\ \A d \in Peer : d >= nextId => down'[d] = <<>>
           /\ m.type \notin {"Hello", "Token"} => down' = down
           /\ m.type \in {"Hello", "Token"} => Live(c)
           /\ c \in Honest /\ m.type = "Hello" => down'[c] = Append(down[c], HostHello(flows[c].token))
           /\ c \in Honest /\ m.type = "Token" => down'[c] = Append(down[c], Reply("Challenge"))
PROOF
  <1>1. PICK m : m = Head(inbound[c])
    OBVIOUS
  <1>2. down' = Answered(c, m) /\ Refusal(c, m) = "None" /\ c \in DOMAIN flows
    BY <1>1 DEF HandleMessage, Refusal
  <1>3. m.type \in {"Hello", "Token"} => Sendable(c)
    BY <1>2 DEF Refusal
  <1>4. HostHello(flows[c].token) \in DownFrame /\ Reply("Challenge") \in DownFrame
    BY <1>2 DEF HostHello, Reply, DownFrame, SupInv, SupTypes, FlowType
  <1>5. CASE m.type = "Hello"
    <2>1. down' = Queued(c, HostHello(flows[c].token))
      BY <1>2, <1>5 DEF Answered
    <2>2. \A d \in Peer : d >= nextId => down'[d] = <<>>
      BY <1>4, <2>1, QueuedBounds
    <2> QED BY <1>1, <1>3, <1>4, <1>5, <2>1, <2>2, QueuedValue, SendableLive DEF ClientFacts
  <1>6. CASE m.type = "Token"
    <2>1. down' = Queued(c, Reply("Challenge"))
      BY <1>2, <1>6 DEF Answered
    <2>2. \A d \in Peer : d >= nextId => down'[d] = <<>>
      BY <1>4, <2>1, QueuedBounds
    <2> QED BY <1>1, <1>3, <1>4, <1>6, <2>1, <2>2, QueuedValue, SendableLive DEF ClientFacts
  <1>7. CASE m.type \notin {"Hello", "Token"}
    <2>1. down' = down
      BY <1>2, <1>7 DEF Answered
    <2> QED BY <1>1, <1>7, <2>1 DEF ClientFacts, LinkTypes, Bounds
  <1> QED BY <1>5, <1>6, <1>7

\* Only the last of a queue's events is new.
LEMMA NewEvent ==
    ASSUME SupTypes, NEW e \in EventType, Post(<<e>>)
    PROVE  /\ EventsGrow({e})
           /\ Len(events) + 1 \in DOMAIN events' /\ events'[Len(events) + 1] = e
           /\ \A i \in DOMAIN events : i < Len(events) + 1 /\ i \in DOMAIN events' /\ events'[i] = events[i]
           /\ \A i \in DOMAIN events' : i \in DOMAIN events \/ i = Len(events) + 1
PROOF
  <1>1. EventsGrow({e})
    BY OneGrows DEF SupTypes
  <1>2. /\ events \in Seq(EventType) /\ events' = Append(events, e)
    BY DEF SupTypes, Post
  <1> QED BY <1>1, <1>2

\* Hello and the invitation are answered; the room hears nothing.
LEMMA GreetingTalks ==
    ASSUME SupInv, ClientFacts, NEW c \in Honest, HandleMessage(c), Live(c),
           Head(inbound[c]).type \in {"Hello", "Token"}
    PROVE  Reader(c)' /\ Talks(c)'
PROOF
  <1>1. SupTypes /\ IdFacts /\ c \in Peer /\ Talks(c) /\ Reader(c) /\ LinkTypes
    BY SupervisorAssumption DEF SupInv, ClientFacts
  <1>2. PICK m : m = Head(inbound[c])
    OBVIOUS
  <1>3. /\ inbound[c] # <<>> /\ inbound'[c] = Tail(inbound[c]) /\ Post(EventsFor(c, m))
        /\ UNCHANGED <<actions, clients, overtaken, mishap, role, closed>>
    BY <1>1, <1>2 DEF HandleMessage, RoomIdle, LinkTypes
  <1>4. /\ c \in DOMAIN flows /\ c \in DOMAIN flows'
        /\ flows'[c].stage = NextStage(flows[c], m) /\ flows'[c].admitted = flows[c].admitted
    BY <1>1, <1>2, MessageFlow
  <1>5. Expected(flows[c], m)
    BY <1>1, <1>2, <1>3, <1>4, HeadExpected DEF Talks
  <1>6. /\ m.type = "Hello" => down'[c] = Append(down[c], HostHello(flows[c].token))
        /\ m.type = "Token" => down'[c] = Append(down[c], Reply("Challenge"))
    BY <1>1, <1>2, AnsweredValue
  <1>7. m.type \in {"Hello", "Token"}
    BY <1>2
  <1>8. \/ m.type = "Hello" /\ flows[c].stage = "AwaitingHello" /\ flows'[c].stage = "AwaitingToken"
        \/ m.type = "Token" /\ flows[c].stage = "AwaitingToken" /\ flows'[c].stage = "AwaitingProof"
    BY <1>4, <1>5, <1>7, FrameType DEF Expected, NextStage
  <1>9. ~ flows[c].admitted
    BY <1>1, <1>4, <1>8 DEF Talks, Conversation, Exchange, Chatting
  <1>10. Answering(flows[c].stage, clients[c].stage, inbound[c], down[c])
    BY <1>1, <1>4, <1>9 DEF Talks, Conversation, Exchange
  <1>11. flows[c].token \in Nat
    BY <1>1, <1>4 DEF SupTypes, FlowType
  <1>12. /\ Answering(flows'[c].stage, clients[c].stage, inbound'[c], down'[c])
         /\ Readable(clients[c].stage, down'[c], Excused(c))
    <2>1. CASE m.type = "Hello"
      <3>1. clients[c].stage = "AwaitingHostHello" /\ inbound[c] = <<Hello>> /\ down[c] = <<>>
        BY <1>8, <1>10, <2>1 DEF Answering, Greeting
      <3>2. down'[c] = <<HostHello(flows[c].token)>> /\ inbound'[c] = <<>>
        BY <1>3, <1>6, <2>1, <3>1
      <3>3. Answering(flows'[c].stage, clients[c].stage, inbound'[c], down'[c])
        BY <1>8, <1>11, <2>1, <3>1, <3>2 DEF Answering
      <3>4. Readable(clients[c].stage, down'[c], Excused(c))
        BY <3>1, <3>2 DEF Readable, HostHello
      <3> QED BY <3>3, <3>4
    <2>2. CASE m.type = "Token"
      <3>1. /\ clients[c].stage = "AwaitingChallenge" /\ down[c] = <<>>
            /\ \E t \in Nat : inbound[c] = <<Token(t)>>
        BY <1>3, <1>8, <1>10, <2>2 DEF Answering
      <3>2. down'[c] = <<Reply("Challenge")>> /\ inbound'[c] = <<>>
        BY <1>3, <1>6, <2>2, <3>1
      <3>3. Answering(flows'[c].stage, clients[c].stage, inbound'[c], down'[c])
        BY <1>8, <2>2, <3>1, <3>2 DEF Answering
      <3>4. Readable(clients[c].stage, down'[c], Excused(c))
        BY <3>1, <3>2 DEF Readable, Reply
      <3> QED BY <3>3, <3>4
    <2> QED BY <1>7, <2>1, <2>2
  <1>13. Conversation(c)'
    BY <1>3, <1>4, <1>9, <1>12 DEF Conversation, Exchange
  <1>14. Reader(c)'
    BY <1>1, <1>3, <1>12 DEF Reader, Running, Excused
  <1>15. SameView(c)
    BY <1>4, <1>8 DEF SameView, Inside, Decided, Early, EarlyStage, AwaitsForm
  <1>16. EventsGrow({})
    <2>1. EventsFor(c, m) = <<>>
      BY <1>7 DEF EventsFor
    <2>2. events' = events
      BY <1>1, <1>3, <2>1 DEF Post, SupTypes
    <2> QED BY <1>1, <2>2, NoneGrows DEF SupTypes
  <1>17. Speech(c)' /\ Known(c)'
    BY <1>1, <1>3, <1>15, <1>16, SpeechStays, KnownStays DEF Talks, SameView
  <1> QED BY <1>13, <1>14, <1>17 DEF Talks

\* What the frames a client sends after the challenge do to its link and flow.
LEMMA LaterMessage ==
    ASSUME SupInv, ClientFacts, NEW c \in Honest, HandleMessage(c), Live(c),
           Head(inbound[c]).type \notin {"Hello", "Token"}
    PROVE  /\ Reader(c)' /\ Conversation(c)' /\ Talks(c)
           /\ UNCHANGED <<actions, overtaken, mishap, role, closed>>
           /\ c \in DOMAIN flows /\ c \in DOMAIN flows' /\ flows'[c].admitted = flows[c].admitted
           /\ \/ /\ flows[c].stage = "AwaitingProof" /\ flows'[c].stage = "AwaitingJoinForm"
                 /\ Post(<<Event("Verified", c)>>)
              \/ /\ flows[c].stage = "AwaitingJoinForm" /\ flows'[c].stage = "Decided"
                 /\ Post(<<Event("Form", c)>>) /\ ~ flows[c].admitted
              \/ /\ flows[c].stage = "Decided" /\ flows'[c].stage = "Decided" /\ flows[c].admitted
                 /\ Post(<<Event("Frame", c)>>)
PROOF
  <1>1. SupTypes /\ c \in Peer /\ Talks(c) /\ Reader(c) /\ LinkTypes
    BY SupervisorAssumption DEF SupInv, ClientFacts
  <1>2. PICK m : m = Head(inbound[c])
    OBVIOUS
  <1>3. /\ inbound[c] # <<>> /\ inbound'[c] = Tail(inbound[c]) /\ Post(EventsFor(c, m))
        /\ UNCHANGED <<actions, clients, overtaken, mishap, role, closed>>
    BY <1>1, <1>2 DEF HandleMessage, RoomIdle, LinkTypes
  <1>4. /\ c \in DOMAIN flows /\ c \in DOMAIN flows'
        /\ flows'[c].stage = NextStage(flows[c], m) /\ flows'[c].admitted = flows[c].admitted
    BY <1>1, <1>2, MessageFlow
  <1>5. Expected(flows[c], m)
    BY <1>1, <1>2, <1>3, <1>4, HeadExpected DEF Talks
  <1>6. down' = down
    BY <1>1, <1>2, AnsweredValue
  <1>7. \/ m.type = "Proof" /\ flows[c].stage = "AwaitingProof" /\ flows'[c].stage = "AwaitingJoinForm"
        \/ m.type = "Form" /\ flows[c].stage = "AwaitingJoinForm" /\ flows'[c].stage = "Decided"
        \/ /\ m.type = "RoomFrame" /\ flows[c].stage = "Decided" /\ flows'[c].stage = "Decided"
           /\ flows[c].admitted
    BY <1>2, <1>4, <1>5, FrameType DEF Expected, NextStage
  <1>8. Reader(c)'
    BY <1>1, <1>3, <1>6 DEF Reader, Running, Excused
  <1>9. ~ flows[c].admitted => Answering(flows[c].stage, clients[c].stage, inbound[c], down[c])
    BY <1>1, <1>4 DEF Talks, Conversation, Exchange
  <1>10. flows[c].admitted => Chatting(flows[c].stage, clients[c].stage, inbound[c], down[c])
    BY <1>1, <1>4 DEF Talks, Conversation, Exchange
  <1>11. flows[c].stage # "Decided" => ~ flows[c].admitted
    BY <1>10 DEF Chatting
  <1>12. CASE m.type = "Proof"
    <2>1. Answering(flows'[c].stage, clients[c].stage, inbound'[c], down[c])
      <3>1. CASE /\ clients[c].stage = "AwaitingJoinForm" /\ down[c] = <<>>
                 /\ \E ok \in BOOLEAN : inbound[c] = <<Proof(ok)>>
        <4>1. inbound'[c] = <<>>
          BY <1>3, <3>1
        <4> QED BY <1>7, <1>12, <3>1, <4>1 DEF Answering
      <3>2. CASE /\ clients[c].stage = "AwaitingDecision" /\ down[c] = <<>>
                 /\ \E ok \in BOOLEAN : inbound[c] = <<Proof(ok), JoinForm>>
        <4>1. inbound'[c] = <<JoinForm>>
          BY <1>3, <3>2
        <4> QED BY <1>7, <1>12, <3>2, <4>1 DEF Answering
      <3> QED BY <1>3, <1>7, <1>9, <1>11, <1>12, <3>1, <3>2 DEF Answering
    <2>2. Conversation(c)'
      BY <1>3, <1>4, <1>6, <1>7, <1>11, <1>12, <2>1 DEF Conversation, Exchange
    <2>3. Post(<<Event("Verified", c)>>)
      BY <1>3, <1>12 DEF EventsFor
    <2> QED BY <1>1, <1>3, <1>4, <1>7, <1>8, <1>12, <2>2, <2>3
  <1>13. CASE m.type = "Form"
    <2>1. /\ clients[c].stage = "AwaitingDecision" /\ inbound[c] = <<JoinForm>> /\ down[c] = <<>>
      BY <1>3, <1>7, <1>9, <1>11, <1>13 DEF Answering
    <2>2. inbound'[c] = <<>>
      BY <1>3, <2>1
    <2>3. Conversation(c)'
      BY <1>3, <1>4, <1>6, <1>7, <1>11, <1>13, <2>1, <2>2 DEF Conversation, Exchange, Answering
    <2>4. Post(<<Event("Form", c)>>)
      BY <1>3, <1>13 DEF EventsFor
    <2> QED BY <1>1, <1>3, <1>4, <1>7, <1>8, <1>11, <1>13, <2>3, <2>4
  <1>14. CASE m.type = "RoomFrame"
    <2>1. /\ clients[c].stage = "Admitted" /\ inbound[c] \in Seq({RoomFrame})
          /\ down[c] \in Seq({Reply("frame")})
      BY <1>3, <1>7, <1>10, <1>14 DEF Chatting
    <2>2. inbound'[c] \in Seq({RoomFrame})
      BY <1>3, <2>1
    <2>3. Conversation(c)'
      BY <1>3, <1>4, <1>6, <1>7, <1>14, <2>1, <2>2 DEF Conversation, Exchange, Chatting
    <2>4. Post(<<Event("Frame", c)>>)
      BY <1>3, <1>14 DEF EventsFor
    <2> QED BY <1>1, <1>3, <1>4, <1>7, <1>8, <1>14, <2>3, <2>4
  <1> QED BY <1>7, <1>12, <1>13, <1>14

\* Nothing but its announcement, or its loss, is on the way for a flow that has
\* not passed the password.
LEMMA EarlySilent ==
    ASSUME IdFacts, NEW c \in Peer, Early(c)
    PROVE  ~ Pending("Verified", c) /\ ~ Pending("Form", c) /\ ~ Pending("Frame", c)
  BY EventValue DEF IdFacts, EarlyFacts, Pending

\* The password is right: the room will hear of it.
LEMMA ProofKnown ==
    ASSUME SupInv, NEW c \in Honest, Known(c), SupTypes,
           c \in DOMAIN flows, c \in DOMAIN flows', flows'[c].admitted = flows[c].admitted,
           flows[c].stage = "AwaitingProof", flows'[c].stage = "AwaitingJoinForm",
           Post(<<Event("Verified", c)>>), UNCHANGED <<actions, overtaken, mishap, role, closed>>
    PROVE  Known(c)'
PROOF
  <1> SUFFICES ASSUME ~ closed', ~ (Closing(c))'
               PROVE  Standing(c)' /\ (c \notin mishap' => Procession(c)')
    BY DEF Known
  <1>1. Standing(c) /\ (c \notin mishap => Procession(c)) /\ c \in Peer
    BY SupervisorAssumption DEF Known, Closing
  <1>2. Early(c) /\ ~ Early(c)' /\ ~ Decided(c) /\ ~ Decided(c)' /\ (Inside(c)' <=> Inside(c))
    BY DEF Early, EarlyStage, Decided, Inside
  <1>3. ~ Pending("Verified", c) /\ ~ Pending("Form", c) /\ ~ Pending("Frame", c)
    BY <1>1, <1>2, EarlySilent DEF SupInv
  <1>4. Event("Verified", c) \in EventType
    BY <1>1, EventValue DEF PeerEvent
  <1>5. PICK n : n = Len(events) + 1
    OBVIOUS
  <1>6. /\ EventsGrow({Event("Verified", c)}) /\ n \in DOMAIN events' /\ events'[n] = Event("Verified", c)
        /\ \A i \in DOMAIN events : i < n /\ i \in DOMAIN events' /\ events'[i] = events[i]
        /\ \A i \in DOMAIN events' : i \in DOMAIN events \/ i = n
    BY <1>4, <1>5, NewEvent
  <1>7. Event("Form", c) # Event("Verified", c) /\ Event("Frame", c) # Event("Verified", c)
    BY EventValue
  <1>8. ~ Pending("Form", c)' /\ ~ Pending("Frame", c)'
    BY <1>3, <1>6, <1>7 DEF Pending
  <1>9. Standing(c)'
    BY <1>1, <1>2, <1>8 DEF Standing, Accepted
  <1>10. ASSUME c \notin mishap
         PROVE  Procession(c)'
    <2>1. role[c] = "guest" \/ (role[c] = "none" /\ Pending("Connected", c))
      BY <1>1, <1>2, <1>10 DEF Procession
    <2>2. \A i \in DOMAIN events' : /\ events'[i] = Event("Verified", c) => i = n
                                    /\ events'[i] # Event("Form", c)
      BY <1>3, <1>6, <1>7 DEF Pending
    <2>3. \/ role'[c] = "guest"
          \/ role'[c] = "none" /\ \E j \in DOMAIN events' : j < n /\ events'[j] = Event("Connected", c)
      BY <1>6, <2>1 DEF Pending
    <2>4. Pending("Verified", c)'
      BY <1>6 DEF Pending
    <2> QED BY <1>2, <1>8, <2>2, <2>3, <2>4 DEF Procession
  <1> QED BY <1>9, <1>10

\* The join form reaches the gate: the room will get it.
LEMMA FormKnown ==
    ASSUME SupInv, NEW c \in Honest, Known(c), SupTypes,
           c \in DOMAIN flows, c \in DOMAIN flows', flows'[c].admitted = flows[c].admitted,
           flows[c].stage = "AwaitingJoinForm", flows'[c].stage = "Decided",
           Post(<<Event("Form", c)>>), UNCHANGED <<actions, overtaken, mishap, role, closed>>
    PROVE  Known(c)'
PROOF
  <1> SUFFICES ASSUME ~ closed', ~ (Closing(c))'
               PROVE  Standing(c)' /\ (c \notin mishap' => Procession(c)')
    BY DEF Known
  <1>1. Standing(c) /\ (c \notin mishap => Procession(c)) /\ c \in Peer
    BY SupervisorAssumption DEF Known, Closing
  <1>2. ~ Early(c)' /\ AwaitsForm(c) /\ ~ AwaitsForm(c)' /\ Decided(c)' /\ (Inside(c)' <=> Inside(c))
    BY DEF Early, EarlyStage, Decided, Inside, AwaitsForm
  <1>3. Event("Form", c) \in EventType
    BY <1>1, EventValue DEF PeerEvent
  <1>4. PICK n : n = Len(events) + 1
    OBVIOUS
  <1>5. /\ EventsGrow({Event("Form", c)}) /\ n \in DOMAIN events' /\ events'[n] = Event("Form", c)
        /\ \A i \in DOMAIN events : i < n /\ i \in DOMAIN events' /\ events'[i] = events[i]
        /\ \A i \in DOMAIN events' : i \in DOMAIN events \/ i = n
    BY <1>3, <1>4, NewEvent
  <1>6. Event("Form", c) # Event("Verified", c) /\ Event("Frame", c) # Event("Form", c)
    BY EventValue
  <1>7. Pending("Frame", c)' => Pending("Frame", c)
    BY <1>5, <1>6 DEF Pending
  <1>8. Standing(c)'
    BY <1>1, <1>2, <1>7 DEF Standing, Accepted
  <1>9. ASSUME c \notin mishap
        PROVE  Procession(c)'
    <2>1. (role[c] = "verified" \/ Pending("Verified", c)) /\ ~ Pending("Form", c) /\ Procession(c)
      BY <1>1, <1>2, <1>9 DEF Procession, AwaitsForm
    <2>2. \A i \in DOMAIN events' :
             /\ events'[i] = Event("Verified", c) => i \in DOMAIN events /\ events[i] = Event("Verified", c)
             /\ events'[i] = Event("Form", c) => i = n
      BY <1>5, <1>6, <2>1 DEF Pending
    <2>3. ASSUME NEW i \in DOMAIN events', NEW j \in DOMAIN events', events'[i] = events'[j],
                 events'[i] \in {Event("Verified", c), Event("Form", c)}
          PROVE  i = j
      BY <2>1, <2>2, <2>3 DEF Procession
    <2>4. ASSUME NEW i \in DOMAIN events', events'[i] = Event("Verified", c)
          PROVE  \/ role'[c] = "guest"
                 \/ role'[c] = "none" /\ \E j \in DOMAIN events' : j < i /\ events'[j] = Event("Connected", c)
      BY <1>5, <2>1, <2>2, <2>4 DEF Procession
    <2>5. \/ role'[c] = "verified"
          \/ \E j \in DOMAIN events' : j < n /\ events'[j] = Event("Verified", c)
      BY <1>5, <2>1 DEF Pending
    <2> QED BY <1>2, <2>2, <2>3, <2>4, <2>5 DEF Procession, AwaitsForm
  <1> QED BY <1>8, <1>9

\* A member's frame is passed to the room.
LEMMA FrameKnown ==
    ASSUME SupInv, NEW c \in Honest, Known(c), SupTypes, Live(c), phase = "running",
           c \in DOMAIN flows, c \in DOMAIN flows', flows'[c].admitted = flows[c].admitted,
           flows[c].admitted, flows[c].stage = "Decided", flows'[c].stage = "Decided",
           Post(<<Event("Frame", c)>>), UNCHANGED <<actions, overtaken, mishap, role, closed>>
    PROVE  Known(c)'
PROOF
  <1> SUFFICES ASSUME ~ closed', ~ (Closing(c))'
               PROVE  Standing(c)' /\ (c \notin mishap' => Procession(c)')
    BY DEF Known
  <1>1. Standing(c) /\ (c \notin mishap => Procession(c)) /\ c \in Peer /\ ~ Closing(c)
    BY SupervisorAssumption DEF Known, Closing
  <1>2. SameView(c) /\ Inside(c)
    BY DEF SameView, Early, Decided, Inside, AwaitsForm
  <1>3. role[c] = "member"
    BY <1>1 DEF SupInv, RecordFacts, Recorded, Live
  <1>4. Event("Frame", c) \in EventType
    BY <1>1, EventValue DEF PeerEvent
  <1>5. PICK E : E = {Event("Frame", c)}
    OBVIOUS
  <1>6. EventsGrow(E)
    BY <1>4, <1>5, NewEvent
  <1>7. \A type \in {"Connected", "Verified", "Form"} : Event(type, c) \notin E
    BY <1>5, EventValue
  <1>8. Pending("Form", c)' <=> Pending("Form", c)
    BY <1>6, <1>7, OldPending
  <1>9. Standing(c)'
    BY <1>1, <1>2, <1>3, <1>8 DEF Standing, SameView, Accepted
  <1>10. Procession(c) => Procession(c)'
    BY <1>2, <1>6, <1>7, ProcessionGrows DEF SameView
  <1> QED BY <1>1, <1>9, <1>10

\* A frame is accepted.
LEMMA MessageTalks ==
    ASSUME SupInv, ClientFacts, NEW c \in Honest, HandleMessage(c), Live(c)
    PROVE  Reader(c)' /\ Talks(c)'
PROOF
  <1>1. CASE Head(inbound[c]).type \in {"Hello", "Token"}
    BY <1>1, GreetingTalks
  <1>2. CASE Head(inbound[c]).type \notin {"Hello", "Token"}
    <2>1. /\ Reader(c)' /\ Conversation(c)' /\ Talks(c)
          /\ UNCHANGED <<actions, overtaken, mishap, role, closed>>
          /\ c \in DOMAIN flows /\ c \in DOMAIN flows' /\ flows'[c].admitted = flows[c].admitted
          /\ \/ /\ flows[c].stage = "AwaitingProof" /\ flows'[c].stage = "AwaitingJoinForm"
                /\ Post(<<Event("Verified", c)>>)
             \/ /\ flows[c].stage = "AwaitingJoinForm" /\ flows'[c].stage = "Decided"
                /\ Post(<<Event("Form", c)>>) /\ ~ flows[c].admitted
             \/ /\ flows[c].stage = "Decided" /\ flows'[c].stage = "Decided" /\ flows[c].admitted
                /\ Post(<<Event("Frame", c)>>)
      BY <1>2, LaterMessage
    <2>2. SupTypes /\ phase = "running" /\ Known(c) /\ Speech(c)
      BY <2>1 DEF SupInv, HandleMessage, Ready, Talks
    <2>3. Known(c)'
      BY <2>1, <2>2, ProofKnown, FormKnown, FrameKnown
    <2>4. (Inside(c)' <=> Inside(c)) /\ (Decided(c) => Decided(c)')
      BY <2>1 DEF Inside, Decided
    <2>5. Speech(c)'
      BY <2>1, <2>2, <2>4, SpeechStays
    <2> QED BY <2>1, <2>3, <2>5 DEF Talks
  <1> QED BY <1>1, <1>2

\* The supervisor handles one message of a peer: the gate's flow moves, refuses
\* or hands the form to the room.
LEMMA MessageClient ==
    ASSUME SupInv, ClientFacts, NEW d \in Peer, HandleMessage(d)
    PROVE  ClientFacts'
PROOF
  <1>1. SupTypes /\ LinkTypes
    BY DEF SupInv, ClientFacts
  <1>2. PICK m : m = Head(inbound[d])
    OBVIOUS
  <1>3. /\ inbound' = [inbound EXCEPT ![d] = Tail(@)] /\ Post(EventsFor(d, m)) /\ RoomIdle
        /\ UNCHANGED <<actions, nextId, peers, connects, clients, overtaken, mishap, phase>>
    BY <1>2 DEF HandleMessage
  <1>4. /\ d \in DOMAIN flows /\ DOMAIN flows' = DOMAIN flows
        /\ \A x \in DOMAIN flows : x # d => flows'[x] = flows[x]
    BY <1>1, MessageFlow
  <1>5. /\ down' \in [Peer -> Seq(DownFrame)]
        /\ \A x \in Peer : x # d => down'[x] = down[x]
        /\ \A x \in Peer : x >= nextId => down'[x] = <<>>
        /\ m.type \notin {"Hello", "Token"} => down' = down
        /\ m.type \in {"Hello", "Token"} => Live(d)
    BY <1>2, AnsweredValue
  <1>6. LinkTypes' /\ Bounds'
    BY <1>1, <1>3, <1>5 DEF ClientFacts, LinkTypes, Bounds
  <1>7. PICK E : EventsGrow(E) /\ \A e \in E : e.conn = d
    <2>1. ASSUME NEW type \in PeerEvent, EventsFor(d, m) = <<Event(type, d)>>
          PROVE  \E E : EventsGrow(E) /\ \A e \in E : e.conn = d
      <3>1. Event(type, d) \in EventType /\ Event(type, d).conn = d
        BY EventValue
      <3>2. EventsGrow({Event(type, d)})
        BY <1>1, <1>3, <2>1, <3>1, OneGrows DEF SupTypes
      <3>3. \A e \in {Event(type, d)} : e.conn = d
        BY <3>1
      <3> QED BY <3>2, <3>3
    <2>2. CASE m.type \in {"Proof", "Form", "RoomFrame"}
      BY <2>1, <2>2 DEF EventsFor, PeerEvent
    <2>3. CASE m.type \notin {"Proof", "Form", "RoomFrame"}
      <3>1. EventsFor(d, m) = <<>>
        BY <2>3 DEF EventsFor
      <3>2. events' = events
        BY <1>1, <1>3, <3>1 DEF Post, SupTypes
      <3>3. EventsGrow({}) /\ \A e \in {} : e.conn = d
        BY <1>1, <3>2, NoneGrows DEF SupTypes
      <3> QED BY <3>3
    <2> QED BY <2>2, <2>3
  <1>8. ASSUME NEW c \in Honest, c # d
        PROVE  Reader(c)' /\ ((Live(c))' => Talks(c)')
    <2>1. \A type \in {"Connected", "Verified", "Form", "Frame"} : Event(type, c) \notin E
      BY <1>7, <1>8, EventValue
    <2>2. SameFlow(c) /\ ((Live(c))' => Live(c)) /\ (Waiting(c) => (Waiting(c))') /\ c \in Peer
      BY <1>3, <1>4, <1>8, SupervisorAssumption DEF SameFlow, Live, Waiting
    <2>3. inbound'[c] = inbound[c] /\ down'[c] = down[c]
      BY <1>1, <1>3, <1>5, <1>8, <2>2 DEF LinkTypes
    <2>4. Still(c, E)
      BY <1>3, <1>7, <2>1, <2>2, <2>3 DEF Still, RoomIdle
    <2> QED BY <2>4, StillStep DEF ClientFacts
  <1>9. ASSUME d \in Honest
        PROVE  Reader(d)' /\ ((Live(d))' => Talks(d)')
    <2>1. CASE Live(d)
      BY <1>9, <2>1, MessageTalks
    <2>2. CASE ~ Live(d)
      <3>1. down' = down /\ ~ (Live(d))'
        BY <1>3, <1>5, <2>2 DEF Live
      <3> QED BY <1>3, <1>9, <3>1 DEF ClientFacts, Reader, Running, Excused
    <2> QED BY <2>1, <2>2
  <1> QED BY <1>6, <1>8, <1>9 DEF ClientFacts

-----------------------------------------------------------------------------
(* A batch is delivered *)

\* Batch b leaves the head of the channel; c is still connected after it.
Hands(b, c) ==
    /\ 1 \in DOMAIN actions /\ b = Head(actions) /\ b = actions[1] /\ b \in BatchType
    /\ \A i \in DOMAIN actions' : i + 1 \in DOMAIN actions /\ 1 < i + 1 /\ actions'[i] = actions[i + 1]
    /\ \A i \in DOMAIN actions : i = 1 \/ (i - 1 \in DOMAIN actions' /\ actions'[i - 1] = actions[i])
    /\ DOMAIN actions \subseteq Nat /\ DOMAIN actions' \subseteq Nat
    /\ Live(c) /\ c \notin b.close /\ (b.tell[c] # "none" => Sendable(c))
    /\ down'[c] = Delivered(b)[c]
    /\ c \in DOMAIN flows' <=> c \in DOMAIN flows
    /\ c \in DOMAIN flows =>
          /\ flows'[c].stage = flows[c].stage
          /\ flows'[c].admitted = IF b.tell[c] = "accepted" THEN TRUE ELSE flows[c].admitted
    /\ UNCHANGED <<connects, inbound, clients, overtaken, mishap, role, closed>>

\* Taking the first action batch: every other one moves one place forward.
LEMMA ActionsShift ==
    ASSUME SupTypes, actions # <<>>, actions' = Tail(actions), NEW b, b = Head(actions)
    PROVE  /\ 1 \in DOMAIN actions /\ b = actions[1] /\ b \in BatchType /\ actions' \in Seq(BatchType)
           /\ \A i \in DOMAIN actions' : i + 1 \in DOMAIN actions /\ 1 < i + 1 /\ actions'[i] = actions[i + 1]
           /\ \A i \in DOMAIN actions : i = 1 \/ (i - 1 \in DOMAIN actions' /\ actions'[i - 1] = actions[i])
           /\ DOMAIN actions \subseteq Nat /\ DOMAIN actions' \subseteq Nat
PROOF
  <1>1. /\ Len(actions) \in Nat \ {0} /\ DOMAIN actions = 1..Len(actions)
        /\ b = actions[1] /\ b \in BatchType /\ actions' \in Seq(BatchType)
        /\ DOMAIN actions' = 1..(Len(actions) - 1)
        /\ \A i \in DOMAIN actions' : actions'[i] = actions[i + 1]
    BY DEF SupTypes
  <1>2. ASSUME NEW i \in DOMAIN actions, i # 1
        PROVE  i - 1 \in DOMAIN actions' /\ actions'[i - 1] = actions[i]
    BY <1>1, <1>2
  <1> QED BY <1>1, <1>2

\* The marks and removals of a delivery, as they concern c.
LEMMA HandsFlows ==
    ASSUME SupTypes, HandleActions, NEW b, b = Head(actions), NEW c
    PROVE  /\ (Live(c))' => Live(c) /\ c \notin b.close /\ c \notin Unsendable(b)
           /\ c \in DOMAIN flows' <=> c \in DOMAIN flows /\ c \notin b.close
           /\ c \in DOMAIN flows' =>
                 /\ flows'[c].stage = flows[c].stage
                 /\ flows'[c].admitted = IF c \in Admitted(b) THEN TRUE ELSE flows[c].admitted
           /\ DOMAIN peers' \subseteq DOMAIN peers
PROOF
  <1>1. PICK S : S = Unsendable(b)
    OBVIOUS
  <1>2. PICK A : A = Admitted(b)
    OBVIOUS
  <1>3. /\ peers' = Without(MarkAdmitted(peers, A), S \cup b.close)
        /\ flows' = Without(MarkAdmitted(flows, A), b.close)
    BY <1>1, <1>2 DEF HandleActions, MarkFlows
  <1>4. PICK g : g = MarkAdmitted(flows, A)
    OBVIOUS
  <1>5. FlowsMarked(flows, g, A)
    BY <1>4, MarkFlow
  <1>6. DOMAIN flows' = DOMAIN g \ b.close /\ \A d \in DOMAIN g \ b.close : flows'[d] = g[d]
    <2>1. flows' = Without(g, b.close)
      BY <1>3, <1>4, Zenon
    <2>2. /\ DOMAIN Without(g, b.close) = DOMAIN g \ b.close
          /\ \A d \in DOMAIN g \ b.close : Without(g, b.close)[d] = g[d]
      BY WithoutValue, Zenon
    <2> QED BY <2>1, <2>2, Zenon
  <1>7. PICK h : h = MarkAdmitted(peers, A)
    OBVIOUS
  <1>8. /\ DOMAIN h = DOMAIN peers
        /\ \A d \in DOMAIN peers : h[d].open = peers[d].open
    <2>1. h = [d \in DOMAIN peers |-> IF d \in A THEN [peers[d] EXCEPT !.admitted = TRUE] ELSE peers[d]]
      BY <1>7 DEF MarkAdmitted
    <2>2. \A d \in DOMAIN peers : peers[d] \in PeerType
      BY DEF SupTypes
    <2>3. \A v \in PeerType : [v EXCEPT !.admitted = TRUE].open = v.open
      BY DEF PeerType
    <2> QED BY <2>1, <2>2, <2>3
  <1>9. /\ DOMAIN peers' = DOMAIN h \ (S \cup b.close)
        /\ \A d \in DOMAIN h \ (S \cup b.close) : peers'[d] = h[d]
    <2>1. peers' = Without(h, S \cup b.close)
      BY <1>3, <1>7, Zenon
    <2>2. /\ DOMAIN Without(h, S \cup b.close) = DOMAIN h \ (S \cup b.close)
          /\ \A d \in DOMAIN h \ (S \cup b.close) : Without(h, S \cup b.close)[d] = h[d]
      BY WithoutValue, Zenon
    <2> QED BY <2>1, <2>2, Zenon
  <1>10. (Live(c))' => Live(c) /\ c \notin b.close /\ c \notin S
    BY <1>8, <1>9 DEF Live
  <1>11. c \in DOMAIN flows' <=> c \in DOMAIN flows /\ c \notin b.close
    BY <1>5, <1>6 DEF FlowsMarked
  <1>12. c \in DOMAIN flows' => /\ flows'[c].stage = flows[c].stage
                                /\ flows'[c].admitted = IF c \in A THEN TRUE ELSE flows[c].admitted
    BY <1>5, <1>6 DEF FlowsMarked
  <1>13. DOMAIN peers' \subseteq DOMAIN peers
    BY <1>8, <1>9
  <1> QED BY <1>1, <1>2, <1>10, <1>11, <1>12, <1>13

\* What is left to be said to c, once b is delivered and did not close it.
LEMMA HandsSpeech ==
    ASSUME NEW b, NEW c, Hands(b, c), Speech(c), b.tell[c] \notin {"error", "rejected", "shutdown"},
           b.tell[c] = "accepted" => Inside(c)',
           Inside(c) => Inside(c)', b.tell[c] = "none" => (Inside(c)' <=> Inside(c)), Decided(c) => Decided(c)'
    PROVE  Speech(c)'
PROOF
  <1> SUFFICES ASSUME NEW i \in DOMAIN actions',
                      \A j \in DOMAIN actions' : j < i => c \notin actions'[j].close
               PROVE  Says(c, i)'
    BY DEF Speech
  <1>1. i + 1 \in DOMAIN actions /\ 1 < i + 1 /\ actions'[i] = actions[i + 1] /\ i \in Nat
    BY DEF Hands
  <1>2. \A j \in DOMAIN actions : j < i + 1 =>
           j = 1 \/ (j - 1 \in DOMAIN actions' /\ j - 1 < i /\ actions'[j - 1] = actions[j])
    BY <1>1 DEF Hands
  <1>3. c \notin actions[1].close /\ actions[1] = b /\ 1 \in DOMAIN actions
    BY DEF Hands
  <1>4. \A j \in DOMAIN actions : j < i + 1 => c \notin actions[j].close
    BY <1>2, <1>3
  <1>5. Says(c, i + 1)
    BY <1>1, <1>4 DEF Speech
  <1>6. ASSUME actions'[i].tell[c] \in {"accepted", "rejected"}
        PROVE  /\ Decided(c)' /\ ~ Inside(c)'
               /\ \A j \in DOMAIN actions' : j < i => actions'[j].tell[c] = "none"
    <2>1. /\ Decided(c) /\ ~ Inside(c)
          /\ \A j \in DOMAIN actions : j < i + 1 => actions[j].tell[c] = "none"
      BY <1>1, <1>5, <1>6 DEF Says
    <2>2. b.tell[c] = "none"
      BY <1>1, <1>3, <2>1
    <2>3. ASSUME NEW j \in DOMAIN actions', j < i
          PROVE  actions'[j].tell[c] = "none"
      <3>1. j + 1 \in DOMAIN actions /\ actions'[j] = actions[j + 1] /\ j \in Nat
        BY DEF Hands
      <3>2. j + 1 < i + 1
        BY <1>1, <2>3, <3>1
      <3> QED BY <2>1, <3>1, <3>2
    <2> QED BY <2>1, <2>2, <2>3
  <1>7. ASSUME actions'[i].tell[c] = "frame"
        PROVE  Inside(c)' \/ \E j \in DOMAIN actions' : j < i /\ actions'[j].tell[c] = "accepted"
    <2>1. CASE Inside(c)
      BY <2>1
    <2>2. CASE \E j \in DOMAIN actions : j < i + 1 /\ actions[j].tell[c] = "accepted"
      <3>1. PICK j \in DOMAIN actions : j < i + 1 /\ actions[j].tell[c] = "accepted"
        BY <2>2
      <3> QED BY <1>2, <1>3, <3>1
    <2> QED BY <1>1, <1>5, <1>7, <2>1, <2>2 DEF Says
  <1>8. mishap' = mishap
    BY DEF Hands
  <1> QED BY <1>1, <1>5, <1>6, <1>7, <1>8 DEF Says

\* The frame of a batch finds the conversation where it belongs.
LEMMA HandsConversation ==
    ASSUME SupInv, ClientFacts, NEW b, NEW c \in Honest, Hands(b, c), Conversation(c), Says(c, 1),
           b.tell[c] \in {"none", "accepted", "frame"}, b.tell[c] = "frame" => Inside(c)
    PROVE  Conversation(c)'
PROOF
  <1>1. c \in Peer /\ b \in BatchType /\ actions[1] = b /\ b.tell[c] \in Told
    BY SupervisorAssumption DEF Hands, BatchType
  <1>2. /\ b.tell[c] = "none" => down'[c] = down[c]
        /\ b.tell[c] # "none" => down'[c] = Append(down[c], Frame(b.tell[c]))
    BY <1>1, DeliveredValue DEF Hands
  <1>3. CASE b.tell[c] = "none"
    <2>1. SameFlow(c)
      BY <1>3 DEF Hands, SameFlow
    <2> QED BY <1>2, <1>3, <2>1 DEF Hands, SameFlow, Conversation, Exchange, Waiting
  <1>4. CASE b.tell[c] = "accepted"
    <2>1. Decided(c) /\ ~ Inside(c)
      BY <1>1, <1>4 DEF Says
    <2>2. Answering("Decided", clients[c].stage, inbound[c], down[c]) /\ c \in DOMAIN flows
      BY <2>1 DEF Conversation, Exchange, Decided, Inside
    <2>3. clients[c].stage = "AwaitingDecision" /\ inbound[c] = <<>> /\ down[c] = <<>>
      BY <2>2 DEF Answering
    <2>4. Frame("accepted") = Reply("accepted")
      BY DEF Frame
    <2>5. PICK d : d = down'[c]
      OBVIOUS
    <2>6. d = <<Reply("accepted")>>
      BY <1>2, <1>4, <2>3, <2>4, <2>5
    <2>7. d # <<>> /\ Head(d) = Reply("accepted") /\ Tail(d) \in Seq({Reply("frame")})
      BY <2>6
    <2>8. c \in DOMAIN flows' /\ flows'[c].stage = "Decided" /\ flows'[c].admitted = TRUE
      BY <1>4, <2>1 DEF Hands, Decided
    <2> QED BY <2>3, <2>5, <2>7, <2>8 DEF Hands, Conversation, Exchange, Chatting
  <1>5. CASE b.tell[c] = "frame"
    <2>1. Inside(c)
      BY <1>5
    <2>2. Chatting(flows[c].stage, clients[c].stage, inbound[c], down[c]) /\ c \in DOMAIN flows
      BY <2>1 DEF Conversation, Exchange, Inside
    <2>3. Frame("frame") = Reply("frame")
      BY DEF Frame
    <2>4. PICK q : q = down[c]
      OBVIOUS
    <2>5. down'[c] = Append(q, Reply("frame")) /\ q \in Seq(DownFrame)
      BY <1>1, <1>2, <1>5, <2>3, <2>4 DEF ClientFacts, LinkTypes
    <2>6. q \in Seq({Reply("frame")}) => down'[c] \in Seq({Reply("frame")})
      BY <2>5
    <2>7. ASSUME q # <<>>, Tail(q) \in Seq({Reply("frame")})
          PROVE  /\ down'[c] # <<>> /\ Head(down'[c]) = Head(q)
                 /\ Tail(down'[c]) \in Seq({Reply("frame")})
      <3>1. Append(q, Reply("frame")) # <<>> /\ Head(Append(q, Reply("frame"))) = Head(q)
        BY <2>5, <2>7
      <3>2. Tail(Append(q, Reply("frame"))) = Append(Tail(q), Reply("frame"))
        BY <2>5, <2>7
      <3> QED BY <2>5, <2>7, <3>1, <3>2
    <2>8. c \in DOMAIN flows' /\ flows'[c].stage = flows[c].stage /\ flows'[c].admitted = TRUE
      <3>1. flows[c] \in FlowType /\ flows[c].admitted
        BY <2>1, <2>2 DEF SupInv, SupTypes, Inside
      <3>2. flows'[c].admitted = flows[c].admitted
        BY <1>5, <2>2 DEF Hands
      <3> QED BY <2>2, <3>1, <3>2 DEF Hands, FlowType
    <2>9. Chatting(flows'[c].stage, clients'[c].stage, inbound'[c], down'[c])
      BY <2>2, <2>4, <2>6, <2>7, <2>8 DEF Chatting, Hands
    <2> QED BY <2>8, <2>9 DEF Conversation, Exchange
  <1> QED BY <1>3, <1>4, <1>5

\* The room stands to c as before.
LEMMA HandsKnown ==
    ASSUME SupInv, NEW b, NEW c \in Honest, Hands(b, c), Known(c), NEW E, EventsGrow(E),
           \A e \in E : e.type = "Lost",
           b.tell[c] \in {"none", "accepted", "frame"}, b.tell[c] = "frame" => Inside(c),
           b.tell[c] = "accepted" => Inside(c)', b.tell[c] # "accepted" => (Inside(c)' <=> Inside(c)),
           Decided(c)' <=> Decided(c), Early(c)' <=> Early(c), AwaitsForm(c)' <=> AwaitsForm(c)
    PROVE  Known(c)'
PROOF
  <1> SUFFICES ASSUME ~ closed', ~ (Closing(c))'
               PROVE  Standing(c)' /\ (c \notin mishap' => Procession(c)')
    BY DEF Known
  <1>1. UNCHANGED <<role, closed, overtaken, mishap>> /\ c \notin b.close
    BY DEF Hands
  <1>2. ~ Closing(c)
    <2> SUFFICES ASSUME NEW i \in DOMAIN actions, c \in actions[i].close PROVE FALSE
      BY DEF Closing
    <2>1. i = 1 \/ (c \in actions'[i - 1].close /\ i - 1 \in DOMAIN actions')
      BY DEF Hands
    <2> QED BY <1>1, <2>1 DEF Hands, Closing
  <1>3. Standing(c) /\ (c \notin mishap => Procession(c))
    BY <1>1, <1>2 DEF Known
  <1>4. \A type \in {"Connected", "Verified", "Form", "Frame"} : Event(type, c) \notin E
    BY EventValue
  <1>5. (Pending("Form", c)' <=> Pending("Form", c)) /\ (Pending("Frame", c)' <=> Pending("Frame", c))
    BY <1>4, OldPending
  <1>6. b = actions[1] /\ 1 \in DOMAIN actions
    BY DEF Hands
  <1>7. role'[c] # "member" =>
           ~ Inside(c)' /\ \A i \in DOMAIN actions' : actions'[i].tell[c] = "none"
    <2> SUFFICES ASSUME role[c] # "member"
                 PROVE  ~ Inside(c)' /\ \A i \in DOMAIN actions' : actions'[i].tell[c] = "none"
      BY <1>1
    <2>1. ~ Inside(c) /\ \A i \in DOMAIN actions : actions[i].tell[c] = "none"
      BY <1>3 DEF Standing
    <2>2. b.tell[c] = "none"
      BY <1>6, <2>1
    <2>3. \A i \in DOMAIN actions' : i + 1 \in DOMAIN actions /\ actions'[i] = actions[i + 1]
      BY DEF Hands
    <2> QED BY <2>1, <2>2, <2>3
  <1>8. role'[c] = "member" => Inside(c)' \/ Accepted(c)'
    <2> SUFFICES ASSUME role[c] = "member", ~ Inside(c)' PROVE Accepted(c)'
      BY <1>1
    <2>1. b.tell[c] # "accepted" /\ Accepted(c)
      BY <1>3 DEF Standing
    <2>2. PICK i \in DOMAIN actions : actions[i].tell[c] = "accepted"
      BY <2>1 DEF Accepted
    <2>3. i - 1 \in DOMAIN actions' /\ actions'[i - 1] = actions[i]
      BY <1>6, <2>1, <2>2 DEF Hands
    <2> QED BY <2>2, <2>3 DEF Accepted
  <1>9. Standing(c)'
    BY <1>1, <1>3, <1>5, <1>7, <1>8 DEF Standing
  <1>10. Procession(c) => Procession(c)'
    BY <1>1, <1>4, ProcessionGrows
  <1> QED BY <1>1, <1>3, <1>9, <1>10

\* What the room hands over with a batch is what its client waits for.
LEMMA HandsTalks ==
    ASSUME SupInv, ClientFacts, NEW b, NEW c \in Honest, Hands(b, c), NEW E, EventsGrow(E),
           \A e \in E : e.type = "Lost"
    PROVE  Talks(c)'
PROOF
  <1>1. Talks(c) /\ actions # <<>> /\ actions[1] = b /\ b \in BatchType
    BY DEF ClientFacts, Hands
  <1>2. Says(c, 1) /\ (b.tell[c] = "frame" => Inside(c))
    BY <1>1, HeadSays DEF Talks
  <1>3. c \in Peer /\ c \notin b.close
    BY SupervisorAssumption DEF Hands
  <1>4. b.tell[c] \notin {"error", "rejected", "shutdown"}
    BY <1>1, <1>2, <1>3 DEF Says
  <1>5. b.tell[c] \in {"none", "accepted", "frame"}
    BY <1>1, <1>3, <1>4 DEF BatchType, Told
  <1>6. /\ Decided(c)' <=> Decided(c)
        /\ Early(c)' <=> Early(c)
        /\ AwaitsForm(c)' <=> AwaitsForm(c)
    BY DEF Hands, Decided, Early, AwaitsForm
  <1>7. b.tell[c] = "accepted" => Inside(c)'
    BY <1>1, <1>2 DEF Says, Decided, Inside, Hands
  <1>8. b.tell[c] # "accepted" => (Inside(c)' <=> Inside(c))
    BY DEF Inside, Hands
  <1>9. Inside(c) => Inside(c)'
    BY <1>7, <1>8
  <1>10. b.tell[c] = "none" => (Inside(c)' <=> Inside(c))
    BY <1>8
  <1>11. Conversation(c)'
    BY <1>1, <1>2, <1>5, HandsConversation DEF Talks
  <1>12. Speech(c)'
    BY <1>1, <1>4, <1>6, <1>7, <1>9, <1>10, HandsSpeech DEF Talks
  <1>13. Known(c)'
    BY <1>1, <1>2, <1>5, <1>6, <1>7, <1>8, HandsKnown DEF Talks
  <1> QED BY <1>11, <1>12, <1>13 DEF Talks

\* The supervisor executes one action batch of the room: messages, then closes.
LEMMA ActionsClient ==
    ASSUME SupInv, ClientFacts, HandleActions
    PROVE  ClientFacts'
PROOF
  <1>1. SupTypes /\ LinkTypes
    BY DEF SupInv, ClientFacts
  <1>2. PICK b : b = Head(actions)
    OBVIOUS
  <1>3. PICK S : S = Unsendable(b) \cup b.close
    OBVIOUS
  <1>4. /\ actions # <<>> /\ actions' = Tail(actions) /\ PostLost(Unsendable(b)) /\ RoomIdle
        /\ UNCHANGED <<nextId, connects, inbound, phase, clients, overtaken, mishap>>
        /\ phase = "running"
    BY <1>2 DEF HandleActions
  <1>5. /\ 1 \in DOMAIN actions /\ b = actions[1] /\ b \in BatchType /\ actions' \in Seq(BatchType)
        /\ \A i \in DOMAIN actions' : i + 1 \in DOMAIN actions /\ 1 < i + 1 /\ actions'[i] = actions[i + 1]
        /\ \A i \in DOMAIN actions : i = 1 \/ (i - 1 \in DOMAIN actions' /\ actions'[i - 1] = actions[i])
        /\ DOMAIN actions \subseteq Nat /\ DOMAIN actions' \subseteq Nat
    BY <1>1, <1>2, <1>4, ActionsShift
  <1>6. Unsendable(b) \in SUBSET Peer /\ S \in SUBSET Peer
    BY <1>3, <1>5 DEF Unsendable, BatchType
  <1>7. PICK q : q = Delivered(b)
    OBVIOUS
  <1>8. q \in [Peer -> Seq(DownFrame)] /\ \A c \in Peer : c >= nextId => q[c] = <<>>
    BY <1>5, <1>7, DeliveredValue
  <1>9. \A c \in Honest : Running(c) => Readable(clients[c].stage, q[c], Excused(c))
    BY <1>2, <1>4, <1>7, DeliveredReadable
  <1>10. PICK n \in [S \cap Honest -> 0..QueueCapacity] : down' = Cut(S, q, n)
    BY <1>2, <1>3, <1>7 DEF HandleActions
  <1>11. /\ down' \in [Peer -> Seq(DownFrame)]
         /\ \A c \in Peer : /\ c \notin S => down'[c] = q[c]
                            /\ q[c] = <<>> => down'[c] = <<>>
         /\ \A c \in Honest : \A s, cause : Readable(s, q[c], cause) => Readable(s, down'[c], cause)
    <2>1. /\ Cut(S, q, n) \in [Peer -> Seq(DownFrame)]
          /\ \A c \in Peer : /\ c \notin S => Cut(S, q, n)[c] = q[c]
                             /\ q[c] = <<>> => Cut(S, q, n)[c] = <<>>
          /\ \A c \in Honest : \A s, cause : Readable(s, q[c], cause) => Readable(s, Cut(S, q, n)[c], cause)
      BY <1>6, <1>8, CutValue
    <2> QED BY <1>10, <2>1
  <1>12. PICK E : E = {Event("Lost", x) : x \in Unsendable(b)}
    OBVIOUS
  <1>13. EventsGrow(E) /\ \A e \in E : e.type = "Lost"
    BY <1>1, <1>4, <1>6, <1>12, LostGrows, EventValue DEF SupTypes
  <1>14. LinkTypes'
    BY <1>1, <1>4, <1>11 DEF LinkTypes
  <1>15. Bounds'
    BY <1>4, <1>8, <1>11 DEF Bounds
  <1>16. ASSUME NEW c \in Honest
         PROVE  Reader(c)' /\ ((Live(c))' => Talks(c)')
    <2>1. Running(c)' => Readable(clients'[c].stage, down'[c], Excused(c)')
      BY <1>4, <1>9, <1>11 DEF Running, Excused
    <2>2. Reader(c)'
      BY <1>4, <2>1 DEF ClientFacts, Reader, Running, Excused
    <2>3. ASSUME (Live(c))'
          PROVE  Talks(c)'
      <3>1. /\ Live(c) /\ c \notin b.close /\ c \notin Unsendable(b)
            /\ c \in DOMAIN flows' <=> c \in DOMAIN flows
            /\ c \in DOMAIN flows' =>
                 /\ flows'[c].stage = flows[c].stage
                 /\ flows'[c].admitted = IF c \in Admitted(b) THEN TRUE ELSE flows[c].admitted
        BY <1>1, <1>2, <2>3, HandsFlows
      <3>2. c \in Peer
        BY SupervisorAssumption
      <3>3. b.tell[c] # "none" => Sendable(c)
        BY <3>1, <3>2 DEF Unsendable
      <3>4. c \in Admitted(b) <=> b.tell[c] = "accepted"
        BY <3>2, <3>3 DEF Admitted
      <3>5. down'[c] = Delivered(b)[c]
        BY <1>3, <1>7, <1>11, <3>1, <3>2
      <3>6. Hands(b, c)
        BY <1>2, <1>4, <1>5, <3>1, <3>3, <3>4, <3>5 DEF Hands, RoomIdle
      <3> QED BY <1>13, <3>6, HandsTalks
    <2> QED BY <2>2, <2>3
  <1> QED BY <1>14, <1>15, <1>16 DEF ClientFacts

-----------------------------------------------------------------------------
(* The other ends *)

\* A step of connection d's other end.
OtherEnd(d) ==
    /\ UNCHANGED <<events, actions, nextId, connects, flows, phase, overtaken, mishap>> /\ RoomIdle
    /\ LinkTypes'
    /\ \A x \in Peer : x # d =>
          /\ down'[x] = down[x] /\ inbound'[x] = inbound[x] /\ ((Live(x))' => Live(x))
          /\ x \in Honest => clients'[x] = clients[x]
    /\ down[d] = <<>> => down'[d] = <<>>
    /\ DOMAIN peers' = DOMAIN peers

\* A step of one peer's own end, which the other conversations do not see.
LEMMA OtherEndStep ==
    ASSUME SupInv, ClientFacts, NEW d \in Peer, OtherEnd(d),
           d \in Honest => Reader(d)' /\ ((Live(d))' => Live(d) /\ Conversation(d)')
    PROVE  ClientFacts'
PROOF
  <1>1. LinkTypes' /\ Bounds'
    BY DEF ClientFacts, OtherEnd, Bounds
  <1>2. EventsGrow({})
    BY NoneGrows DEF OtherEnd, SupInv, SupTypes
  <1>3. \A c : SameFlow(c) /\ (Waiting(c) => (Waiting(c))')
    BY DEF OtherEnd, SameFlow, Waiting
  <1>4. ASSUME NEW c \in Honest, c # d
        PROVE  Reader(c)' /\ ((Live(c))' => Talks(c)')
    <2>1. c \in Peer
      BY SupervisorAssumption
    <2>2. Still(c, {})
      BY <1>2, <1>3, <1>4, <2>1 DEF OtherEnd, Still, RoomIdle
    <2> QED BY <2>2, StillStep DEF ClientFacts
  <1>5. ASSUME d \in Honest, (Live(d))'
        PROVE  Talks(d)'
    <2>1. Talks(d) /\ Conversation(d)'
      BY <1>5 DEF ClientFacts
    <2>2. SameView(d) /\ (Inside(d)' <=> Inside(d)) /\ (Decided(d)' <=> Decided(d))
      BY <1>3, SameFlowSays DEF SameView
    <2>3. Speech(d)'
      BY <2>1, <2>2, SpeechStays DEF Talks, OtherEnd
    <2>4. \A type \in {"Connected", "Verified", "Form", "Frame"} : Event(type, d) \notin {}
      OBVIOUS
    <2>5. Known(d)'
      BY <1>2, <2>1, <2>2, <2>4, KnownStays DEF Talks, OtherEnd, RoomIdle
    <2> QED BY <2>1, <2>3, <2>5 DEF Talks
  <1> QED BY <1>1, <1>4, <1>5 DEF ClientFacts

\* What is sent, and the end of a stream.
LEMMA SentValue ==
    ASSUME LinkTypes, NEW c \in Peer, NEW msgs, inbound' = Sent(c, msgs)
    PROVE  /\ DOMAIN inbound' = Peer /\ \A x \in Peer : x # c => inbound'[x] = inbound[x]
           /\ Live(c) => inbound'[c] = inbound[c] \o msgs
           /\ ~ Live(c) => inbound' = inbound
  BY DEF Sent, LinkTypes

\* A client that ends its stream is cut off, and no other peer is.
LEMMA CutOff ==
    ASSUME SupTypes, NEW c, peers' = IF Live(c) THEN [peers EXCEPT ![c].open = FALSE] ELSE peers
    PROVE  /\ DOMAIN peers' = DOMAIN peers /\ ~ (Live(c))'
           /\ \A x : x # c => ((Live(x))' => Live(x))
PROOF
  <1>1. CASE ~ Live(c)
    BY <1>1 DEF Live
  <1>2. CASE Live(c)
    <2>1. PICK v : v = [peers[c] EXCEPT !.open = FALSE]
      OBVIOUS
    <2>2. c \in DOMAIN peers /\ peers[c] \in PeerType
      BY <1>2 DEF Live, SupTypes
    <2>3. v.open = FALSE
      BY <2>1, <2>2 DEF PeerType
    <2>4. peers' = [peers EXCEPT ![c] = v]
      BY <1>2, <2>1
    <2> QED BY <2>2, <2>3, <2>4 DEF Live
  <1> QED BY <1>1, <1>2

\* A client reads the frame at the head of its queue: if its session ends, the
\* reason is one it can give; otherwise it can read on.
LEMMA NextReadable ==
    ASSUME NEW q \in Seq(DownFrame), q # <<>>, NEW k \in ClientRecord, NEW cause \in SUBSET ErrorCode,
           Readable(k.stage, q, cause), NEW m, m = Head(q)
    PROVE  /\ ClientStage(k, m) \in ClientStages
           /\ ClientStage(k, m) = "Ended" =>
                 /\ EndReason(k, m) \in EndReasons /\ EndReason(k, m) # "Unexpected"
                 /\ EndReason(k, m) \in {"ProtocolViolation", "ByRoom"} => EndReason(k, m) \in cause
           /\ ClientStage(k, m) # "Ended" =>
                 /\ ClientStage(k, m) # "Idle"
                 /\ Readable(ClientStage(k, m), Tail(q), cause)
                 /\ \/ m.type = "HostHello" /\ k.stage = "AwaitingHostHello"
                    \/ m.type = "Challenge" /\ k.stage = "AwaitingChallenge"
                    \/ m.type = "accepted" /\ k.stage = "AwaitingDecision"
                    \/ m.type = "frame" /\ k.stage = "Admitted"
PROOF
  <1>1. /\ Len(q) \in Nat \ {0} /\ DOMAIN q = 1..Len(q) /\ m = q[1] /\ m \in DownFrame
        /\ DOMAIN Tail(q) = 1..(Len(q) - 1)
        /\ \A i \in 1..(Len(q) - 1) : Tail(q)[i] = q[i + 1]
    OBVIOUS
  <1>2. 1 \in DOMAIN q
    BY <1>1
  <1>3. /\ m.type = "HostHello" => k.stage = "AwaitingHostHello"
        /\ m.type = "Challenge" => k.stage = "AwaitingChallenge"
        /\ m.type \in {"accepted", "rejected"} => k.stage = "AwaitingDecision"
        /\ m.type = "frame" => k.stage = "Admitted"
        /\ m.type = "error" /\ m.code \in {"ProtocolViolation", "ByRoom"} => m.code \in cause
    <2>1. ~ (1 > 1)
      OBVIOUS
    <2> QED BY <1>1, <1>2, <2>1 DEF Readable
  <1>4. /\ m.type \in {"HostHello", "Challenge", "accepted", "rejected", "frame", "shutdown", "error"}
        /\ m.type = "error" => m.code \in ErrorCode
    BY <1>1 DEF DownFrame
  <1>5. ClientStage(k, m) \in ClientStages /\ ClientStage(k, m) # "Idle"
    BY DEF ClientStage, ClientStages
  <1>6. ASSUME ClientStage(k, m) = "Ended"
        PROVE  /\ EndReason(k, m) \in EndReasons /\ EndReason(k, m) # "Unexpected"
               /\ EndReason(k, m) \in {"ProtocolViolation", "ByRoom"} => EndReason(k, m) \in cause
    BY <1>3, <1>4, <1>6 DEF ClientStage, EndReason, EndReasons, ErrorCode
  <1>7. ASSUME ClientStage(k, m) # "Ended"
        PROVE  /\ Readable(ClientStage(k, m), Tail(q), cause)
               /\ \/ m.type = "HostHello" /\ k.stage = "AwaitingHostHello"
                  \/ m.type = "Challenge" /\ k.stage = "AwaitingChallenge"
                  \/ m.type = "accepted" /\ k.stage = "AwaitingDecision"
                  \/ m.type = "frame" /\ k.stage = "Admitted"
    <2>1. \/ m.type = "HostHello" /\ k.stage = "AwaitingHostHello"
          \/ m.type = "Challenge" /\ k.stage = "AwaitingChallenge"
          \/ m.type = "accepted" /\ k.stage = "AwaitingDecision" /\ ClientStage(k, m) = "Admitted"
          \/ m.type = "frame" /\ k.stage = "Admitted" /\ ClientStage(k, m) = "Admitted"
      BY <1>7 DEF ClientStage
    <2>2. PICK t : t = Tail(q)
      OBVIOUS
    <2>3. ASSUME NEW i \in DOMAIN t
          PROVE  /\ t[i].type \notin {"HostHello", "Challenge", "accepted", "rejected"}
                 /\ t[i].type = "frame" => ClientStage(k, m) = "Admitted"
                 /\ t[i].type = "error" /\ t[i].code \in {"ProtocolViolation", "ByRoom"} => t[i].code \in cause
      <3>1. i + 1 \in DOMAIN q /\ t[i] = q[i + 1] /\ i + 1 # 1
        BY <1>1, <2>2
      <3>2. t[i].type = "frame" => k.stage = "Admitted" \/ m.type = "accepted"
        BY <1>1, <3>1 DEF Readable
      <3>3. t[i].type = "frame" => ClientStage(k, m) = "Admitted"
        BY <2>1, <3>2
      <3>4. /\ t[i].type \notin {"HostHello", "Challenge", "accepted", "rejected"}
            /\ t[i].type = "error" /\ t[i].code \in {"ProtocolViolation", "ByRoom"} => t[i].code \in cause
        BY <3>1 DEF Readable
      <3> QED BY <3>3, <3>4
    <2>4. Readable(ClientStage(k, m), t, cause)
      BY <2>3 DEF Readable
    <2> QED BY <2>1, <2>2, <2>4
  <1> QED BY <1>5, <1>6, <1>7

\* The session of one other end is over.
LEMMA EndedValue ==
    ASSUME NEW why \in EndReasons
    PROVE  Ended(why) \in ClientRecord /\ Ended(why).stage = "Ended" /\ Ended(why).why = why
  BY DEF Ended, NoClient, ClientRecord, ClientStages

\* A client that ends for a reason of its own: the host will read the end of
\* its stream.
LEMMA EndsOther ==
    ASSUME SupInv, ClientFacts, NEW c \in Honest, NEW why \in EndReasons, why # "Unexpected",
           why \in {"ProtocolViolation", "ByRoom"} => why \in Excused(c),
           clients' = [clients EXCEPT ![c] = Ended(why)],
           inbound' = Sent(c, <<Eof>>),
           peers' = IF Live(c) THEN [peers EXCEPT ![c].open = FALSE] ELSE peers,
           UNCHANGED <<events, actions, nextId, connects, flows, phase, overtaken, mishap>>, RoomIdle,
           down' \in [Peer -> Seq(DownFrame)], \A x \in Peer : x # c => down'[x] = down[x],
           down[c] = <<>> => down'[c] = <<>>
    PROVE  ClientFacts'
PROOF
  <1>1. c \in Peer /\ SupTypes /\ LinkTypes
    BY SupervisorAssumption DEF SupInv, ClientFacts
  <1>2. Ended(why) \in ClientRecord /\ Ended(why).stage = "Ended" /\ Ended(why).why = why
    BY EndedValue
  <1>3. /\ clients' \in [Honest -> ClientRecord] /\ clients'[c] = Ended(why)
        /\ \A x \in Honest : x # c => clients'[x] = clients[x]
    BY <1>1, <1>2 DEF LinkTypes
  <1>4. /\ DOMAIN inbound' = Peer /\ \A x \in Peer : x # c => inbound'[x] = inbound[x]
    BY <1>1, SentValue
  <1>5. /\ DOMAIN peers' = DOMAIN peers /\ ~ (Live(c))'
        /\ \A x : x # c => ((Live(x))' => Live(x))
    BY <1>1, CutOff
  <1>6. OtherEnd(c)
    BY <1>3, <1>4, <1>5 DEF OtherEnd, LinkTypes
  <1>7. Reader(c)'
    <2>1. Excused(c) \subseteq Excused(c)'
      BY ExcusedGrows
    <2> QED BY <1>2, <1>3, <2>1 DEF Reader, Running
  <1> QED BY <1>1, <1>5, <1>6, <1>7, OtherEndStep

\* The client loses its stream or leaves on its own.
LEMMA ClientEndsClient ==
    ASSUME SupInv, ClientFacts, NEW c \in Honest, ClientEnds(c, "Lost") \/ ClientEnds(c, "Own")
    PROVE  ClientFacts'
PROOF
  <1>1. PICK why \in {"Lost", "Own"} : ClientEnds(c, why)
    OBVIOUS
  <1>2. why \in EndReasons /\ why \notin {"Unexpected", "ProtocolViolation", "ByRoom"}
    BY DEF EndReasons
  <1>3. /\ clients' = [clients EXCEPT ![c] = Ended(why)]
        /\ inbound' = Sent(c, <<Eof>>)
        /\ peers' = (IF Live(c) THEN [peers EXCEPT ![c].open = FALSE] ELSE peers)
        /\ UNCHANGED <<events, actions, nextId, connects, flows, phase, overtaken, mishap, down>> /\ RoomIdle
    BY <1>1 DEF ClientEnds
  <1>4. down' \in [Peer -> Seq(DownFrame)]
    BY <1>3 DEF ClientFacts, LinkTypes
  <1> QED BY <1>2, <1>3, <1>4, EndsOther

\* What the conversation says of a frame that is read.
LEMMA ReadAnswer ==
    ASSUME NEW f, NEW s, NEW q, NEW d, Exchange(f, s, q, d), f.admitted \in BOOLEAN, d # <<>>, NEW m, m = Head(d)
    PROVE  /\ m.type = "HostHello" /\ s = "AwaitingHostHello" =>
                 ~ f.admitted /\ f.stage = "AwaitingToken" /\ q = <<>> /\ \E t \in Nat : d = <<HostHello(t)>>
           /\ m.type = "Challenge" /\ s = "AwaitingChallenge" =>
                 ~ f.admitted /\ f.stage = "AwaitingProof" /\ q = <<>> /\ d = <<Reply("Challenge")>>
           /\ m.type = "accepted" /\ s = "AwaitingDecision" =>
                 f.admitted /\ f.stage = "Decided" /\ q = <<>> /\ Tail(d) \in Seq({Reply("frame")})
           /\ m.type = "frame" /\ s = "Admitted" =>
                 f.admitted /\ f.stage = "Decided" /\ q \in Seq({RoomFrame}) /\ d \in Seq({Reply("frame")})
PROOF
  <1>1. CASE f.admitted
    <2>1. Chatting(f.stage, s, q, d)
      BY <1>1 DEF Exchange
    <2>2. CASE s = "AwaitingDecision"
      <3>1. m.type = "accepted"
        BY <2>1, <2>2 DEF Chatting, Reply
      <3> QED BY <1>1, <2>1, <2>2, <3>1 DEF Chatting
    <2>3. CASE s = "Admitted"
      <3>1. m = Reply("frame")
        BY <2>1, <2>3 DEF Chatting
      <3> QED BY <1>1, <2>1, <2>3, <3>1 DEF Chatting, Reply
    <2> QED BY <2>1, <2>2, <2>3 DEF Chatting
  <1>2. CASE ~ f.admitted
    <2>1. Answering(f.stage, s, q, d)
      BY <1>2 DEF Exchange
    <2>2. \/ f.stage = "AwaitingToken" /\ s = "AwaitingHostHello" /\ q = <<>> /\ \E t \in Nat : d = <<HostHello(t)>>
          \/ f.stage = "AwaitingProof" /\ s = "AwaitingChallenge" /\ q = <<>> /\ d = <<Reply("Challenge")>>
      BY <2>1 DEF Answering, Greeting
    <2> QED BY <1>2, <2>2
  <1> QED BY <1>1, <1>2

\* Short messages, one behind the other.
LEMMA ConcatValue ==
    ASSUME NEW S, NEW x \in S, NEW y \in S
    PROVE  /\ <<>> \o <<x>> = <<x>> /\ <<x>> \o <<>> = <<x>>
           /\ <<x>> \o <<y>> = <<x, y>> /\ <<>> \o <<x, y>> = <<x, y>>
           /\ \A q \in Seq(S) : q \o <<>> = q /\ q \o <<x>> \in Seq(S)
PROOF
  <1>1. <<x>> \in Seq(S) /\ <<y>> \in Seq(S) /\ <<>> \in Seq(S) /\ <<x, y>> \in Seq(S)
    OBVIOUS
  <1>2. <<>> \o <<x>> = <<x>>
    BY <1>1
  <1>3. <<x>> \o <<>> = <<x>>
    BY <1>1
  <1>4. <<>> \o <<x, y>> = <<x, y>>
    BY <1>1
  <1>5. PICK s : s = <<x>> \o <<y>>
    OBVIOUS
  <1>6. s \in Seq(S) /\ Len(s) = 2 /\ s[1] = x /\ s[2] = y
    BY <1>1, <1>5
  <1>7. s = <<x, y>>
    BY <1>1, <1>6
  <1>8. \A q \in Seq(S) : q \o <<>> = q /\ q \o <<x>> \in Seq(S)
    BY <1>1
  <1> QED BY <1>2, <1>3, <1>4, <1>5, <1>7, <1>8

\* What is sent back keeps the conversation going.
LEMMA ReplyConversation ==
    ASSUME NEW f, NEW k \in ClientRecord, NEW q, NEW d, Exchange(f, k.stage, q, d), f.admitted \in BOOLEAN,
           d # <<>>, NEW m, m = Head(d), ClientStage(k, m) # "Ended",
           \/ m.type = "HostHello" /\ k.stage = "AwaitingHostHello"
           \/ m.type = "Challenge" /\ k.stage = "AwaitingChallenge"
           \/ m.type = "accepted" /\ k.stage = "AwaitingDecision"
           \/ m.type = "frame" /\ k.stage = "Admitted",
           NEW c, NEW msgs \in Replies(c, k, m)
    PROVE  Exchange(f, ClientStage(k, m), q \o msgs, Tail(d))
PROOF
  <1>1. CASE m.type = "HostHello" /\ k.stage = "AwaitingHostHello"
    <2>1. ~ f.admitted /\ f.stage = "AwaitingToken" /\ q = <<>> /\ \E t \in Nat : d = <<HostHello(t)>>
      BY <1>1, ReadAnswer
    <2>2. msgs = <<Token(k.token)>> /\ k.token \in Nat
      BY <1>1 DEF Replies, ClientRecord
    <2>3. q \o msgs = <<Token(k.token)>> /\ Tail(d) = <<>>
      BY <2>1, <2>2
    <2>4. ClientStage(k, m) = "AwaitingChallenge"
      BY <1>1 DEF ClientStage
    <2>5. \E t \in Nat : q \o msgs = <<Token(t)>>
      BY <2>2, <2>3
    <2> QED BY <2>1, <2>3, <2>4, <2>5 DEF Exchange, Answering
  <1>2. CASE m.type = "Challenge" /\ k.stage = "AwaitingChallenge"
    <2>1. ~ f.admitted /\ f.stage = "AwaitingProof" /\ q = <<>> /\ d = <<Reply("Challenge")>>
      BY <1>2, ReadAnswer
    <2>2. ClientStage(k, m) = IF k.form THEN "AwaitingDecision" ELSE "AwaitingJoinForm"
      BY <1>2 DEF ClientStage
    <2>3. PICK ok \in BOOLEAN : msgs = <<Proof(ok)>> \o (IF k.form THEN <<JoinForm>> ELSE <<>>)
      BY <1>2 DEF Replies
    <2>4. Tail(d) = <<>>
      BY <2>1
    <2>5. CASE k.form
      <3>1. msgs = <<Proof(ok)>> \o <<JoinForm>>
        BY <2>3, <2>5
      <3>2. q \o msgs = <<Proof(ok), JoinForm>>
        <4>1. PICK S : Proof(ok) \in S /\ JoinForm \in S
          <5>1. Proof(ok) \in {Proof(ok), JoinForm} /\ JoinForm \in {Proof(ok), JoinForm}
            OBVIOUS
          <5> QED BY <5>1
        <4>2. msgs = <<Proof(ok), JoinForm>>
          BY <3>1, <4>1, ConcatValue
        <4> QED BY <2>1, <4>1, <4>2, ConcatValue
      <3> QED BY <2>1, <2>2, <2>4, <2>5, <3>2 DEF Exchange, Answering
    <2>6. CASE ~ k.form
      <3>1. msgs = <<Proof(ok)>> \o <<>>
        BY <2>3, <2>6
      <3>2. q \o msgs = <<Proof(ok)>>
        BY <2>1, <3>1
      <3> QED BY <2>1, <2>2, <2>4, <2>6, <3>2 DEF Exchange, Answering
    <2> QED BY <2>5, <2>6
  <1>3. CASE m.type = "accepted" /\ k.stage = "AwaitingDecision"
    <2>1. f.admitted /\ f.stage = "Decided" /\ q = <<>> /\ Tail(d) \in Seq({Reply("frame")})
      BY <1>3, ReadAnswer
    <2>2. msgs = <<RoomFrame>> /\ ClientStage(k, m) = "Admitted"
      BY <1>3 DEF Replies, ClientStage
    <2>3. q \o msgs \in Seq({RoomFrame})
      BY <2>1, <2>2
    <2> QED BY <2>1, <2>2, <2>3 DEF Exchange, Chatting
  <1>4. CASE m.type = "frame" /\ k.stage = "Admitted"
    <2>1. f.admitted /\ f.stage = "Decided" /\ q \in Seq({RoomFrame}) /\ d \in Seq({Reply("frame")})
      BY <1>4, ReadAnswer
    <2>2. msgs \in {<<>>, <<RoomFrame>>} /\ ClientStage(k, m) = "Admitted"
      BY <1>4 DEF Replies, ClientStage
    <2>3. q \o msgs \in Seq({RoomFrame})
      <3>1. RoomFrame \in {RoomFrame}
        OBVIOUS
      <3> QED BY <2>1, <2>2, <3>1, ConcatValue
    <2>4. Tail(d) \in Seq({Reply("frame")})
      BY <2>1
    <2> QED BY <2>1, <2>2, <2>3, <2>4 DEF Exchange, Chatting
  <1> QED BY <1>1, <1>2, <1>3, <1>4

\* The client reads one frame of the host, in whatever stage it is.
LEMMA ClientReceiveClient ==
    ASSUME SupInv, ClientFacts, NEW c \in Honest, ClientReceive(c)
    PROVE  ClientFacts'
PROOF
  <1>1. c \in Peer /\ SupTypes /\ LinkTypes /\ Reader(c)
    BY SupervisorAssumption DEF SupInv, ClientFacts
  <1>2. PICK k \in ClientRecord : k = clients[c]
    BY <1>1 DEF LinkTypes
  <1>3. PICK q \in Seq(DownFrame) : q = down[c]
    BY <1>1 DEF LinkTypes
  <1>4. PICK m : m = Head(q)
    OBVIOUS
  <1>5. PICK next : next = ClientStage(k, m)
    OBVIOUS
  <1>6. /\ Running(c) /\ q # <<>> /\ down' = [down EXCEPT ![c] = Tail(q)] /\ RoomIdle
        /\ UNCHANGED <<events, actions, nextId, connects, flows, phase, overtaken, mishap>>
    BY <1>1, <1>3 DEF ClientReceive, LinkTypes
  <1>7. Tail(q) \in Seq(DownFrame)
    BY <1>3, <1>6
  <1>8. /\ down' \in [Peer -> Seq(DownFrame)] /\ down'[c] = Tail(q)
        /\ \A x \in Peer : x # c => down'[x] = down[x]
    BY <1>1, <1>6, <1>7 DEF LinkTypes
  <1>9. Readable(k.stage, q, Excused(c))
    BY <1>1, <1>2, <1>3, <1>6 DEF Reader
  <1>10. /\ next \in ClientStages
         /\ next = "Ended" =>
               /\ EndReason(k, m) \in EndReasons /\ EndReason(k, m) # "Unexpected"
               /\ EndReason(k, m) \in {"ProtocolViolation", "ByRoom"} => EndReason(k, m) \in Excused(c)
         /\ next # "Ended" =>
               /\ next # "Idle"
               /\ Readable(next, Tail(q), Excused(c))
               /\ \/ m.type = "HostHello" /\ k.stage = "AwaitingHostHello"
                  \/ m.type = "Challenge" /\ k.stage = "AwaitingChallenge"
                  \/ m.type = "accepted" /\ k.stage = "AwaitingDecision"
                  \/ m.type = "frame" /\ k.stage = "Admitted"
    <2>1. PICK cause \in SUBSET ErrorCode : cause = Excused(c)
      BY DEF Excused, ErrorCode
    <2>2. Readable(k.stage, q, cause)
      BY <1>9, <2>1
    <2>3. q # <<>>
      BY <1>6
    <2>4. /\ ClientStage(k, m) \in ClientStages
          /\ ClientStage(k, m) = "Ended" =>
                /\ EndReason(k, m) \in EndReasons /\ EndReason(k, m) # "Unexpected"
                /\ EndReason(k, m) \in {"ProtocolViolation", "ByRoom"} => EndReason(k, m) \in cause
          /\ ClientStage(k, m) # "Ended" =>
                /\ ClientStage(k, m) # "Idle"
                /\ Readable(ClientStage(k, m), Tail(q), cause)
                /\ \/ m.type = "HostHello" /\ k.stage = "AwaitingHostHello"
                   \/ m.type = "Challenge" /\ k.stage = "AwaitingChallenge"
                   \/ m.type = "accepted" /\ k.stage = "AwaitingDecision"
                   \/ m.type = "frame" /\ k.stage = "Admitted"
      BY <1>4, <2>2, <2>3, NextReadable
    <2> QED BY <1>5, <2>1, <2>4
  <1>11. CASE next = "Ended"
    <2>1. PICK why : why = EndReason(k, m)
      OBVIOUS
    <2>2. /\ clients' = [clients EXCEPT ![c] = Ended(why)] /\ inbound' = Sent(c, <<Eof>>)
          /\ peers' = IF Live(c) THEN [peers EXCEPT ![c].open = FALSE] ELSE peers
      BY <1>2, <1>3, <1>4, <1>5, <1>11, <2>1 DEF ClientReceive
    <2>3. down[c] = <<>> => down'[c] = <<>>
      BY <1>3, <1>6
    <2> QED BY <1>6, <1>8, <1>10, <1>11, <2>1, <2>2, <2>3, EndsOther
  <1>12. CASE next # "Ended"
    <2>1. /\ clients' = [clients EXCEPT ![c].stage = next, ![c].form = FALSE]
          /\ \E msgs \in Replies(c, k, m) : inbound' = Sent(c, msgs)
          /\ peers' = peers
      BY <1>2, <1>3, <1>4, <1>5, <1>12 DEF ClientReceive
    <2>2. PICK msgs \in Replies(c, k, m) : inbound' = Sent(c, msgs)
      BY <2>1
    <2>3. PICK v : v = [k EXCEPT !.stage = next, !.form = FALSE]
      OBVIOUS
    <2>4. v \in ClientRecord /\ v.stage = next
      BY <1>10, <2>3 DEF ClientRecord
    <2>5. clients' = [clients EXCEPT ![c] = v]
      BY <1>1, <1>2, <2>1, <2>3 DEF LinkTypes
    <2>6. /\ clients' \in [Honest -> ClientRecord] /\ clients'[c] = v
          /\ \A x \in Honest : x # c => clients'[x] = clients[x]
      BY <1>1, <2>4, <2>5 DEF LinkTypes
    <2>7. /\ DOMAIN inbound' = Peer /\ \A x \in Peer : x # c => inbound'[x] = inbound[x]
          /\ Live(c) => inbound'[c] = inbound[c] \o msgs
      BY <1>1, <2>2, SentValue
    <2>8. \A x : (Live(x))' <=> Live(x)
      BY <2>1 DEF Live
    <2>9. OtherEnd(c)
      BY <1>3, <1>6, <1>8, <2>1, <2>6, <2>7, <2>8 DEF OtherEnd, LinkTypes
    <2>10. Reader(c)'
      BY <1>6, <1>8, <1>10, <1>12, <2>4, <2>6 DEF Reader, Running, Excused
    <2>11. ASSUME Live(c)
           PROVE  Conversation(c)'
      <3>1. Conversation(c)
        BY <2>11 DEF ClientFacts, Talks
      <3>2. c \in DOMAIN flows /\ Exchange(flows[c], k.stage, inbound[c], q)
        BY <1>2, <1>3, <1>6, <3>1 DEF Conversation, Greeting
      <3>3. flows[c].admitted \in BOOLEAN
        BY <1>1, <3>2 DEF SupTypes, FlowType
      <3>4. Exchange(flows[c], ClientStage(k, m), inbound[c] \o msgs, Tail(q))
        BY <1>4, <1>5, <1>6, <1>10, <1>12, <2>2, <3>2, <3>3, ReplyConversation
      <3>5. Exchange(flows[c], clients'[c].stage, inbound'[c], down'[c])
        BY <1>5, <1>8, <2>4, <2>6, <2>7, <2>11, <3>4
      <3> QED BY <1>6, <3>2, <3>5 DEF Conversation, Exchange
    <2> QED BY <1>1, <2>8, <2>9, <2>10, <2>11, OtherEndStep
  <1> QED BY <1>11, <1>12

\* The client sends its filled-in join form.
LEMMA ClientSubmitClient ==
    ASSUME SupInv, ClientFacts, NEW c \in Honest, ClientSubmit(c)
    PROVE  ClientFacts'
PROOF
  <1>1. c \in Peer /\ SupTypes /\ LinkTypes /\ Reader(c)
    BY SupervisorAssumption DEF SupInv, ClientFacts
  <1>2. PICK k \in ClientRecord : k = clients[c]
    BY <1>1 DEF LinkTypes
  <1>3. /\ k.stage \in {"AwaitingHostHello", "AwaitingChallenge", "AwaitingJoinForm"}
        /\ UNCHANGED <<events, actions, nextId, peers, connects, down, flows, phase, overtaken, mishap>> /\ RoomIdle
    BY <1>2 DEF ClientSubmit
  <1>4. \A x : (Live(x))' <=> Live(x)
    BY <1>3 DEF Live
  <1>5. CASE k.stage = "AwaitingJoinForm"
    <2>1. /\ clients' = [clients EXCEPT ![c].stage = "AwaitingDecision"]
          /\ inbound' = Sent(c, <<JoinForm>>)
      BY <1>2, <1>5 DEF ClientSubmit
    <2>2. PICK v : v = [k EXCEPT !.stage = "AwaitingDecision"]
      OBVIOUS
    <2>3. v \in ClientRecord /\ v.stage = "AwaitingDecision"
      BY <2>2 DEF ClientRecord, ClientStages
    <2>4. /\ clients' \in [Honest -> ClientRecord] /\ clients'[c] = v
          /\ \A x \in Honest : x # c => clients'[x] = clients[x]
      BY <1>1, <1>2, <2>1, <2>2, <2>3 DEF LinkTypes
    <2>5. /\ DOMAIN inbound' = Peer /\ \A x \in Peer : x # c => inbound'[x] = inbound[x]
          /\ Live(c) => inbound'[c] = inbound[c] \o <<JoinForm>>
      BY <1>1, <2>1, SentValue
    <2>6. OtherEnd(c)
      BY <1>1, <1>3, <1>4, <2>4, <2>5 DEF OtherEnd, LinkTypes
    <2>7. Readable("AwaitingDecision", down[c], Excused(c))
      <3>1. Readable("AwaitingJoinForm", down[c], Excused(c))
        BY <1>1, <1>2, <1>5 DEF Reader, Running
      <3> QED BY <3>1 DEF Readable
    <2>8. Reader(c)'
      BY <1>3, <2>3, <2>4, <2>7 DEF Reader, Running, Excused
    <2>9. ASSUME Live(c)
          PROVE  Conversation(c)'
      <3>1. Conversation(c)
        BY <2>9 DEF ClientFacts, Talks
      <3>2. c \in DOMAIN flows /\ Exchange(flows[c], "AwaitingJoinForm", inbound[c], down[c])
        BY <1>2, <1>5, <3>1 DEF Conversation, Greeting
      <3>3. ~ flows[c].admitted
        BY <3>2 DEF Exchange, Chatting
      <3>4. \/ /\ flows[c].stage = "AwaitingProof" /\ down[c] = <<>>
               /\ \E ok \in BOOLEAN : inbound[c] = <<Proof(ok)>>
            \/ flows[c].stage = "AwaitingJoinForm" /\ inbound[c] = <<>> /\ down[c] = <<>>
        BY <3>2, <3>3 DEF Exchange, Answering, Greeting
      <3>5. CASE /\ flows[c].stage = "AwaitingProof" /\ down[c] = <<>>
                 /\ \E ok \in BOOLEAN : inbound[c] = <<Proof(ok)>>
        <4>1. PICK ok \in BOOLEAN : inbound[c] = <<Proof(ok)>>
          BY <3>5
        <4>2. PICK S : Proof(ok) \in S /\ JoinForm \in S
          <5>1. Proof(ok) \in {Proof(ok), JoinForm} /\ JoinForm \in {Proof(ok), JoinForm}
            OBVIOUS
          <5> QED BY <5>1
        <4>3. inbound'[c] = <<Proof(ok), JoinForm>>
          BY <2>5, <2>9, <4>1, <4>2, ConcatValue
        <4> QED BY <1>3, <2>3, <2>4, <3>2, <3>3, <3>5, <4>3 DEF Conversation, Exchange, Answering
      <3>6. CASE flows[c].stage = "AwaitingJoinForm" /\ inbound[c] = <<>> /\ down[c] = <<>>
        <4>1. PICK S : JoinForm \in S
          <5>1. JoinForm \in {JoinForm}
            OBVIOUS
          <5> QED BY <5>1
        <4>2. inbound'[c] = <<JoinForm>>
          BY <2>5, <2>9, <3>6, <4>1, ConcatValue
        <4> QED BY <1>3, <2>3, <2>4, <3>2, <3>3, <3>6, <4>2 DEF Conversation, Exchange, Answering
      <3> QED BY <3>4, <3>5, <3>6
    <2> QED BY <1>1, <1>4, <2>6, <2>8, <2>9, OtherEndStep
  <1>6. CASE k.stage # "AwaitingJoinForm"
    <2>1. clients' = [clients EXCEPT ![c].form = TRUE] /\ inbound' = inbound
      BY <1>2, <1>6 DEF ClientSubmit
    <2>2. PICK v : v = [k EXCEPT !.form = TRUE]
      OBVIOUS
    <2>3. v \in ClientRecord /\ v.stage = k.stage /\ v.why = k.why
      BY <2>2 DEF ClientRecord
    <2>4. /\ clients' \in [Honest -> ClientRecord] /\ clients'[c] = v
          /\ \A x \in Honest : x # c => clients'[x] = clients[x]
      BY <1>1, <1>2, <2>1, <2>2, <2>3 DEF LinkTypes
    <2>5. OtherEnd(c)
      BY <1>1, <1>3, <1>4, <2>1, <2>4 DEF OtherEnd, LinkTypes
    <2>6. Reader(c)'
      BY <1>1, <1>2, <1>3, <2>3, <2>4 DEF Reader, Running, Excused
    <2>7. Conversation(c) => Conversation(c)'
      BY <1>2, <1>3, <2>1, <2>3, <2>4 DEF Conversation, Exchange, Waiting
    <2> QED BY <1>1, <1>4, <2>5, <2>6, <2>7, OtherEndStep DEF ClientFacts, Talks
  <1> QED BY <1>5, <1>6

\* An admitted client sends a room frame.
LEMMA ClientTalkClient ==
    ASSUME SupInv, ClientFacts, NEW c \in Honest, ClientTalk(c)
    PROVE  ClientFacts'
PROOF
  <1>1. c \in Peer /\ SupTypes /\ LinkTypes /\ Reader(c) /\ Conversation(c)
    BY SupervisorAssumption DEF SupInv, ClientFacts, ClientTalk, Talks
  <1>2. /\ Live(c) /\ inbound[c] = <<>> /\ clients[c].stage = "Admitted" /\ inbound' = Sent(c, <<RoomFrame>>)
        /\ UNCHANGED <<events, actions, nextId, peers, connects, down, flows, clients, phase, overtaken, mishap>>
        /\ RoomIdle
    BY DEF ClientTalk
  <1>3. /\ DOMAIN inbound' = Peer /\ \A x \in Peer : x # c => inbound'[x] = inbound[x]
        /\ inbound'[c] = inbound[c] \o <<RoomFrame>>
    BY <1>1, <1>2, SentValue
  <1>4. \A x : (Live(x))' <=> Live(x)
    BY <1>2 DEF Live
  <1>5. OtherEnd(c)
    BY <1>1, <1>2, <1>3, <1>4 DEF OtherEnd, LinkTypes
  <1>6. Reader(c)'
    <2>1. UNCHANGED <<clients, down, overtaken, mishap>>
      BY <1>2
    <2> QED BY <1>1, <2>1 DEF Reader, Running, Excused
  <1>7. inbound'[c] \in Seq({RoomFrame})
    <2>1. PICK S : S = {RoomFrame}
      OBVIOUS
    <2>2. RoomFrame \in S
      BY <2>1
    <2>3. inbound'[c] = <<RoomFrame>>
      BY <1>2, <1>3, <2>2, ConcatValue
    <2> QED BY <2>1, <2>2, <2>3
  <1>8. c \in DOMAIN flows /\ flows[c].admitted /\ Chatting(flows[c].stage, "Admitted", inbound[c], down[c])
    BY <1>1, <1>2 DEF Conversation, Exchange, Answering, Greeting
  <1>9. Conversation(c)'
    BY <1>2, <1>7, <1>8 DEF Conversation, Exchange, Chatting
  <1> QED BY <1>1, <1>2, <1>5, <1>6, <1>9, OtherEndStep

\* A peer that follows no protocol does anything: no honest conversation sees
\* it.
LEMMA StrangerClient ==
    ASSUME SupInv, ClientFacts, NEW c \in Peer, Stranger(c)
    PROVE  ClientFacts'
PROOF
  <1>1. SupTypes /\ LinkTypes /\ c \notin Honest
    BY DEF SupInv, ClientFacts, Stranger
  <1>2. /\ UNCHANGED <<events, actions, nextId, connects, flows, clients, phase, overtaken, mishap>> /\ RoomIdle
    BY DEF Stranger
  <1>3. \/ (\E msgs : inbound' = Sent(c, msgs)) /\ UNCHANGED <<peers, down>>
        \/ /\ inbound' = Sent(c, <<Eof>>) /\ Live(c) /\ peers' = [peers EXCEPT ![c].open = FALSE]
           /\ down' = down
        \/ down' = [down EXCEPT ![c] = <<>>] /\ UNCHANGED <<peers, inbound>>
    BY DEF Stranger
  <1>4. DOMAIN inbound' = Peer /\ \A x \in Peer : x # c => inbound'[x] = inbound[x]
    BY <1>1, <1>3, SentValue DEF LinkTypes
  <1>5. DOMAIN peers' = DOMAIN peers /\ \A x : x # c => ((Live(x))' => Live(x))
    <2>1. CASE peers' = peers
      BY <2>1 DEF Live
    <2>2. CASE Live(c) /\ peers' = [peers EXCEPT ![c].open = FALSE]
      BY <1>1, <2>2, CutOff
    <2> QED BY <1>3, <2>1, <2>2
  <1>6. /\ down' \in [Peer -> Seq(DownFrame)] /\ \A x \in Peer : x # c => down'[x] = down[x]
        /\ down[c] = <<>> => down'[c] = <<>>
    <2>1. <<>> \in Seq(DownFrame)
      OBVIOUS
    <2> QED BY <1>1, <1>3, <2>1 DEF LinkTypes
  <1>7. OtherEnd(c)
    BY <1>1, <1>2, <1>4, <1>5, <1>6 DEF OtherEnd, LinkTypes
  <1> QED BY <1>1, <1>7, OtherEndStep

\* A connection is accepted; a client that runs the program speaks first.
LEMMA AcceptClient ==
    ASSUME SupInv, ClientFacts, AcceptConnection
    PROVE  ClientFacts'
PROOF
  <1>1. SupTypes /\ IdFacts /\ RunFacts /\ LinkTypes /\ Bounds
    BY DEF SupInv, ClientFacts
  <1>2. PICK c : c = nextId
    OBVIOUS
  <1>3. Arrives(c)
    BY <1>2, AcceptArrives
  <1>4. /\ UNCHANGED <<events, actions, down, flows, phase, overtaken, mishap>> /\ RoomIdle /\ phase = "running"
        /\ c \in Peer /\ nextId' = c + 1 /\ connects' = Append(connects, c)
        /\ DOMAIN peers' = DOMAIN peers \cup {c} /\ \A d \in DOMAIN peers : d # c => peers'[d] = peers[d]
    BY <1>2, <1>3 DEF Arrives, AcceptConnection
  <1>5. Unseen(c) /\ c \in Nat
    BY <1>2, <1>4, PeerFacts DEF Unseen
  <1>6. c \notin DOMAIN flows
    BY <1>1, <1>5 DEF IdFacts, ConnectFacts
  <1>7. /\ c \in Honest => /\ clients' \in [Honest -> ClientRecord] /\ clients'[c].stage = "AwaitingHostHello"
                           /\ \A d \in Honest : d # c => clients'[d] = clients[d]
                           /\ inbound' = [inbound EXCEPT ![c] = <<Hello>>]
        /\ c \notin Honest => UNCHANGED <<clients, inbound>>
    <2>1. CASE c \in Honest
      <3>1. PICK t \in 1..roomToken :
               clients' = [clients EXCEPT ![c] = [NoClient EXCEPT !.stage = "AwaitingHostHello", !.token = t]]
        BY <1>2, <2>1 DEF AcceptConnection
      <3>2. PICK v : v = [NoClient EXCEPT !.stage = "AwaitingHostHello", !.token = t]
        OBVIOUS
      <3>3. t \in Nat
        BY <1>1 DEF SupTypes, RoomTypes
      <3>4. v \in ClientRecord /\ v.stage = "AwaitingHostHello"
        BY <3>2, <3>3 DEF NoClient, ClientRecord, ClientStages, EndReasons
      <3>5. inbound' = [inbound EXCEPT ![c] = <<Hello>>]
        BY <1>2, <2>1 DEF AcceptConnection
      <3> QED BY <1>1, <2>1, <3>1, <3>2, <3>4, <3>5 DEF LinkTypes
    <2>2. CASE c \notin Honest
      BY <1>2, <2>2 DEF AcceptConnection
    <2> QED BY <2>1, <2>2
  <1>8. LinkTypes'
    BY <1>1, <1>4, <1>7 DEF LinkTypes
  <1>9. Bounds'
    <2>1. ASSUME NEW x \in Peer, x >= c + 1
          PROVE  down'[x] = <<>>
      <3>1. x \in Nat /\ x >= nextId
        BY <1>2, <1>5, <2>1, PeerFacts
      <3> QED BY <1>1, <1>4, <3>1 DEF Bounds
    <2> QED BY <1>4, <2>1 DEF Bounds
  <1>10. /\ DOMAIN connects' = 1..(Len(connects) + 1) /\ Len(connects) \in Nat
         /\ DOMAIN connects = 1..Len(connects)
         /\ connects'[Len(connects) + 1] = c
         /\ \A i \in DOMAIN connects : connects'[i] = connects[i]
    BY <1>1, <1>4 DEF SupTypes
  <1>11. (Waiting(c))' /\ \A d : Waiting(d) => (Waiting(d))'
    BY <1>10 DEF Waiting
  <1>12. EventsGrow({})
    BY <1>1, <1>4, NoneGrows DEF SupTypes
  <1>13. ASSUME NEW d \in Honest, d # c
         PROVE  Reader(d)' /\ ((Live(d))' => Talks(d)')
    <2>1. d \in Peer
      BY SupervisorAssumption
    <2>2. clients'[d] = clients[d] /\ inbound'[d] = inbound[d]
      BY <1>1, <1>7, <1>13, <2>1 DEF LinkTypes
    <2>3. SameFlow(d) /\ ((Live(d))' => Live(d))
      BY <1>4, <1>13 DEF SameFlow, Live
    <2>4. Still(d, {})
      BY <1>4, <1>11, <1>12, <2>2, <2>3 DEF Still, RoomIdle
    <2> QED BY <2>4, StillStep DEF ClientFacts
  <1>14. ASSUME c \in Honest
         PROVE  Reader(c)' /\ Talks(c)'
    <2>1. down'[c] = <<>> /\ inbound'[c] = <<Hello>> /\ clients'[c].stage = "AwaitingHostHello"
      <3>1. c >= nextId
        BY <1>2, <1>5
      <3> QED BY <1>1, <1>4, <1>7, <1>14, <3>1 DEF Bounds, LinkTypes
    <2>2. Readable("AwaitingHostHello", <<>>, Excused(c)')
      BY EmptyReadable
    <2>3. Reader(c)'
      BY <2>1, <2>2 DEF Reader, Running
    <2>4. Conversation(c)'
      BY <1>4, <1>6, <1>11, <2>1 DEF Conversation, Greeting
    <2>5. \A i \in DOMAIN actions' : actions'[i].tell[c] = "none"
      BY <1>1, <1>4, <1>5 DEF RunFacts, TellFacts
    <2>6. Speech(c)'
      BY <2>5 DEF Speech, Says
    <2>7. role'[c] = "none"
      BY <1>1, <1>4, <1>5 DEF IdFacts, UnseenFacts, RoomIdle
    <2>8. \A type \in {"Verified", "Form", "Frame"} : ~ Pending(type, c)'
      <3>1. \A i \in DOMAIN events : events[i].conn = c => events[i].type = "Lost"
        BY <1>1, <1>4, <1>5 DEF IdFacts, UnseenFacts
      <3> QED BY <1>4, <3>1, EventValue DEF Pending
    <2>9. ~ Inside(c)' /\ ~ Early(c)' /\ ~ AwaitsForm(c)'
      BY <1>4, <1>6 DEF Inside, Early, AwaitsForm
    <2>10. Standing(c)'
      BY <2>5, <2>7, <2>8, <2>9 DEF Standing
    <2>11. Procession(c)'
      BY <2>8, <2>9 DEF Procession, Pending, AwaitsForm
    <2> QED BY <2>3, <2>4, <2>6, <2>10, <2>11 DEF Talks, Known
  <1> QED BY <1>8, <1>9, <1>13, <1>14 DEF ClientFacts

-----------------------------------------------------------------------------
(* What the room says, and to whom *)

\* Why the room refuses c for good.
Cause(type, c) ==
    \/ closed /\ type \in {"Form", "Frame"}
    \/ ~ closed /\ type = "Form" /\ ~ Admits(c)
    \/ ~ closed /\ type = "Frame" /\ (role[c] # "member" \/ Expel(c))

\* What an event of this type about p makes the room tell c.
Spoken(type, p, c) ==
    /\ batch'.tell[c] \in {"accepted", "rejected"} => ~ closed /\ role[c] = "pending"
    /\ batch'.tell[c] = "frame" => ~ closed /\ (role[c] = "member" \/ (p = c /\ type = "Frame"))
    /\ batch'.tell[c] = "error" => p = c /\ Cause(type, c)
    /\ batch'.tell[c] \in {"error", "rejected", "shutdown"} => c \in batch'.close

\* A batch that only sends room messages to members gives no refusal a cause to
\* explain.
LEMMA QuietSays ==
    ASSUME NEW type, NEW p, NEW S, Quiet(S),
           \A c \in Peer : c \in S => ~ closed /\ (role[c] = "member" \/ (p = c /\ type = "Frame"))
    PROVE  \A c \in Peer : Spoken(type, p, c)
PROOF
  <1>1. /\ TellAll(S, "frame") \in [Peer -> Told]
        /\ \A c \in Peer : TellAll(S, "frame")[c] = IF c \in S THEN "frame" ELSE "none"
    BY TellValue, GateConstants
  <1>2. batch' = Batch(TellAll(S, "frame"), {})
    BY DEF Quiet
  <1>3. batch'.tell = TellAll(S, "frame") /\ batch'.close = {}
    BY <1>1, <1>2, BatchValue
  <1> QED BY <1>1, <1>3 DEF Spoken

\* An event the room answers with nothing.
LEMMA SilentSays ==
    ASSUME NEW type, NEW p, batch' = NoBatch
    PROVE  \A c \in Peer : Spoken(type, p, c)
PROOF
  <1>1. /\ TellAll({}, "none") \in [Peer -> Told]
        /\ \A c \in Peer : TellAll({}, "none")[c] = "none"
    BY TellValue, GateConstants
  <1>2. batch'.tell = TellAll({}, "none")
    BY <1>1, BatchValue DEF NoBatch
  <1> QED BY <1>1, <1>2 DEF Spoken

\* Dropping members: an error reaches only the peer whose event caused it.
LEMMA DropSays ==
    ASSUME ~ closed, NEW type, NEW p, NEW S, NEW tell \in [Peer -> Told],
           NEW close \in SUBSET Peer, DropMembers(S, tell, close),
           \A c \in Peer : tell[c] # "none" =>
              tell[c] = "error" /\ p = c /\ Cause(type, c) /\ c \in close
    PROVE  \A c \in Peer : Spoken(type, p, c)
PROOF
  <1> DEFINE told == [c \in Peer |->
                        IF tell[c] # "none" THEN tell[c]
                        ELSE IF c \in With("member") \ S THEN "frame" ELSE "none"]
  <1>1. batch' = Batch(told, close)
    BY DEF DropMembers
  <1>2. /\ told \in [Peer -> Told]
        /\ \A c \in Peer : told[c] = tell[c] \/ (told[c] = "frame" /\ role[c] = "member")
    BY DEF Told, With
  <1> HIDE DEF told
  <1>3. batch'.tell = told /\ batch'.close = close
    BY <1>1, <1>2, BatchValue
  <1>4. ASSUME NEW c \in Peer
        PROVE  Spoken(type, p, c)
    <2>1. CASE told[c] = "frame" /\ role[c] = "member"
      BY <1>3, <2>1 DEF Spoken
    <2>2. CASE told[c] = tell[c] /\ tell[c] = "none"
      BY <1>3, <2>2 DEF Spoken
    <2>3. CASE told[c] = tell[c] /\ tell[c] # "none"
      BY <1>3, <2>3 DEF Spoken
    <2> QED BY <1>2, <2>1, <2>2, <2>3
  <1> QED BY <1>4

\* Forgetting connections: an error needs a cause, a rejection a pending form.
LEMMA ForgetSays ==
    ASSUME ~ closed, NEW type, NEW p, NEW S, NEW tell \in [Peer -> Told],
           NEW close \in SUBSET Peer, Forget(S, tell, close),
           \A c \in Peer : tell[c] # "none" =>
              /\ c \in close
              /\ \/ tell[c] = "error" /\ p = c /\ Cause(type, c)
                 \/ tell[c] = "rejected" /\ role[c] = "pending"
    PROVE  \A c \in Peer : Spoken(type, p, c)
PROOF
  <1>1. batch' = Batch(tell, close)
    BY DEF Forget
  <1>2. batch'.tell = tell /\ batch'.close = close
    BY <1>1, BatchValue
  <1>3. ASSUME NEW c \in Peer
        PROVE  Spoken(type, p, c)
    <2>1. CASE tell[c] = "none"
      BY <1>2, <2>1 DEF Spoken
    <2>2. CASE tell[c] # "none"
      BY <1>2, <2>2 DEF Spoken
    <2> QED BY <2>1, <2>2
  <1> QED BY <1>3

\* Somebody is refused for good, or lost.
LEMMA LoseSays ==
    ASSUME ~ closed, NEW type, NEW p \in Peer, Lost(p) \/ (Punish(p) /\ Cause(type, p))
    PROVE  \A c \in Peer : Spoken(type, p, c)
PROOF
  <1>1. /\ TellAll({}, "none") \in [Peer -> Told]
        /\ \A c \in Peer : TellAll({}, "none")[c] = "none"
    BY TellValue, GateConstants
  <1>2. /\ TellAll({p}, "error") \in [Peer -> Told]
        /\ \A c \in Peer : TellAll({p}, "error")[c] = IF c \in {p} THEN "error" ELSE "none"
    BY TellValue, GateConstants
  <1>3. CASE Lost(p)
    <2>1. PICK tell : tell = TellAll({}, "none")
      OBVIOUS
    <2>2. DropMembers({p}, tell, {}) \/ Forget({p}, tell, {})
      BY <1>3, <2>1 DEF Lost, Lose
    <2>3. tell \in [Peer -> Told] /\ \A c \in Peer : tell[c] = "none"
      BY <1>1, <2>1
    <2>4. {} \in SUBSET Peer
      OBVIOUS
    <2>5. /\ \A c \in Peer : tell[c] # "none" => tell[c] = "error" /\ p = c /\ Cause(type, c) /\ c \in {}
          /\ \A c \in Peer : tell[c] # "none" =>
                /\ c \in {}
                /\ \/ tell[c] = "error" /\ p = c /\ Cause(type, c)
                   \/ tell[c] = "rejected" /\ role[c] = "pending"
      BY <2>3
    <2>6. CASE DropMembers({p}, tell, {})
      BY <2>3, <2>4, <2>5, <2>6, DropSays
    <2>7. CASE Forget({p}, tell, {})
      BY <2>3, <2>4, <2>5, <2>7, ForgetSays
    <2> QED BY <2>2, <2>6, <2>7
  <1>4. CASE Punish(p) /\ Cause(type, p)
    <2>1. PICK tell : tell = TellAll({p}, "error")
      OBVIOUS
    <2>2. DropMembers({p}, tell, {p}) \/ Forget({p}, tell, {p})
      BY <1>4, <2>1 DEF Punish, Lose
    <2>3. tell \in [Peer -> Told] /\ \A c \in Peer : tell[c] = IF c \in {p} THEN "error" ELSE "none"
      BY <1>2, <2>1
    <2>4. {p} \in SUBSET Peer
      OBVIOUS
    <2>5. \A c \in Peer : tell[c] # "none" => c = p /\ tell[c] = "error"
      BY <2>3
    <2>6. /\ \A c \in Peer : tell[c] # "none" => tell[c] = "error" /\ p = c /\ Cause(type, c) /\ c \in {p}
          /\ \A c \in Peer : tell[c] # "none" =>
                /\ c \in {p}
                /\ \/ tell[c] = "error" /\ p = c /\ Cause(type, c)
                   \/ tell[c] = "rejected" /\ role[c] = "pending"
      BY <1>4, <2>5
    <2>7. CASE DropMembers({p}, tell, {p})
      BY <2>3, <2>4, <2>6, <2>7, DropSays
    <2>8. CASE Forget({p}, tell, {p})
      BY <2>3, <2>4, <2>6, <2>8, ForgetSays
    <2> QED BY <2>2, <2>7, <2>8
  <1> QED BY <1>3, <1>4

\* A frame of a member or of somebody else.
LEMMA FrameSays ==
    ASSUME ~ closed, NEW p \in Peer, FrameArrives(p)
    PROVE  \A c \in Peer : Spoken("Frame", p, c)
PROOF
  <1>1. CASE Quiet({})
    <2>1. \A c \in Peer : c \in {} => ~ closed /\ (role[c] = "member" \/ (p = c /\ "Frame" = "Frame"))
      OBVIOUS
    <2> QED BY <1>1, <2>1, QuietSays
  <1>2. CASE Quiet({p})
    <2>1. \A c \in Peer : c \in {p} => ~ closed /\ (role[c] = "member" \/ (p = c /\ "Frame" = "Frame"))
      OBVIOUS
    <2> QED BY <1>2, <2>1, QuietSays
  <1>3. CASE Quiet(With("member") \ {p})
    <2>1. \A c \in Peer : c \in With("member") \ {p} =>
             ~ closed /\ (role[c] = "member" \/ (p = c /\ "Frame" = "Frame"))
      BY DEF With
    <2> QED BY <1>3, <2>1, QuietSays
  <1>4. CASE Expel(p)
    <2>1. Cause("Frame", p)
      BY <1>4 DEF Cause
    <2>2. DropMembers({p}, TellAll({p}, "error"), {p})
      BY <1>4 DEF Expel
    <2>3. /\ TellAll({p}, "error") \in [Peer -> Told]
          /\ \A c \in Peer : TellAll({p}, "error")[c] = IF c \in {p} THEN "error" ELSE "none"
      BY TellValue, GateConstants
    <2>4. PICK tell : tell = TellAll({p}, "error")
      OBVIOUS
    <2>5. \A c \in Peer : tell[c] # "none" =>
             tell[c] = "error" /\ p = c /\ Cause("Frame", c) /\ c \in {p}
      BY <2>1, <2>3, <2>4
    <2>6. {p} \in SUBSET Peer /\ tell \in [Peer -> Told] /\ DropMembers({p}, tell, {p})
      BY <2>2, <2>3, <2>4
    <2> QED BY <2>5, <2>6, DropSays
  <1>5. CASE Punish(p) /\ role[p] # "member"
    <2>1. Cause("Frame", p)
      BY <1>5 DEF Cause
    <2> QED BY <1>5, <2>1, LoseSays
  <1> QED BY <1>1, <1>2, <1>3, <1>4, <1>5 DEF FrameArrives

\* A command that applies.
LEMMA ObeySays ==
    ASSUME ~ closed, NEW e \in EventType, Obey(e)
    PROVE  \A c \in Peer : Spoken(e.type, e.conn, c)
PROOF
  <1>1. e.type \in {"Accept", "Reject", "Kick"} => e.conn \in Peer
    BY DEF EventType, PeerEvent, RoomEvent
  <1>2. PICK type : type = e.type
    OBVIOUS
  <1>3. PICK p : p = e.conn
    OBVIOUS
  <1>4. CASE Accept(p)
    <2> DEFINE tell == [q \in Peer |-> IF q = p THEN "accepted"
                            ELSE IF role[q] = "member" THEN "frame" ELSE "none"]
    <2>1. role[p] = "pending" /\ batch' = Batch(tell, {})
      BY <1>4 DEF Accept
    <2>2. tell \in [Peer -> Told]
      BY DEF Told
    <2>3. \A c \in Peer : \/ tell[c] = "none"
                          \/ tell[c] = "accepted" /\ c = p
                          \/ tell[c] = "frame" /\ role[c] = "member"
      OBVIOUS
    <2> HIDE DEF tell
    <2>4. batch'.tell = tell
      BY <2>1, <2>2, BatchValue
    <2>5. ASSUME NEW c \in Peer
          PROVE  Spoken(type, p, c)
      BY <2>1, <2>3, <2>4 DEF Spoken
    <2> QED BY <1>2, <1>3, <2>5
  <1>5. CASE TurnAway(p) /\ p \in Peer
    <2>1. /\ TellAll({p}, "rejected") \in [Peer -> Told]
          /\ \A c \in Peer : TellAll({p}, "rejected")[c] = IF c \in {p} THEN "rejected" ELSE "none"
      BY TellValue, GateConstants
    <2>2. PICK tell : tell = TellAll({p}, "rejected")
      OBVIOUS
    <2>3. role[p] = "pending" /\ Forget({p}, tell, {p}) /\ tell \in [Peer -> Told] /\ {p} \in SUBSET Peer
      BY <1>5, <2>1, <2>2 DEF TurnAway
    <2>4. \A c \in Peer : tell[c] # "none" =>
              /\ c \in {p}
              /\ \/ tell[c] = "error" /\ p = c /\ Cause(type, c)
                 \/ tell[c] = "rejected" /\ role[c] = "pending"
      BY <2>1, <2>2, <2>3
    <2> QED BY <1>2, <1>3, <2>3, <2>4, ForgetSays
  <1>6. CASE Kick(p) /\ p \in Peer
    <2>1. /\ TellAll({}, "none") \in [Peer -> Told]
          /\ \A c \in Peer : TellAll({}, "none")[c] = "none"
      BY TellValue, GateConstants
    <2>2. PICK tell : tell = TellAll({}, "none")
      OBVIOUS
    <2>3. DropMembers({p}, tell, {p}) /\ tell \in [Peer -> Told] /\ {p} \in SUBSET Peer
      BY <1>6, <2>1, <2>2 DEF Kick
    <2>4. \A c \in Peer : tell[c] # "none" =>
             tell[c] = "error" /\ p = c /\ Cause(type, c) /\ c \in {p}
      BY <2>1, <2>2
    <2> QED BY <1>2, <1>3, <2>3, <2>4, DropSays
  <1>7. CASE NewId \/ SetPolicy("Locked") \/ SetPolicy("Open")
    <2>1. /\ TellAll({}, "none") \in [Peer -> Told]
          /\ \A c \in Peer : TellAll({}, "none")[c] = "none"
      BY TellValue, GateConstants
    <2>2. /\ TellAll(With("member"), "frame") \in [Peer -> Told]
          /\ \A c \in Peer : TellAll(With("member"), "frame")[c]
                                = IF c \in With("member") THEN "frame" ELSE "none"
      BY TellValue, GateConstants
    <2>3. \E tell, out, v :
             /\ tell \in {TellAll({}, "none"), TellAll(With("member"), "frame")} /\ out \in {Applicants, {}}
             /\ batch' = [Batch(tell, out) EXCEPT !.token = v] \/ batch' = [Batch(tell, out) EXCEPT !.policy = v]
      BY <1>7 DEF NewId, SetPolicy
    <2>4. PICK tell, out, v :
             /\ tell \in {TellAll({}, "none"), TellAll(With("member"), "frame")} /\ out \in {Applicants, {}}
             /\ batch' = [Batch(tell, out) EXCEPT !.token = v] \/ batch' = [Batch(tell, out) EXCEPT !.policy = v]
      BY <2>3
    <2>5. tell \in [Peer -> Told] /\ out \in SUBSET Peer
      BY <2>1, <2>2, <2>4 DEF Applicants, With
    <2>6. Batch(tell, out) \in BatchType /\ Batch(tell, out).tell = tell
      BY <2>5, BatchValue
    <2>7. batch'.tell = tell
      BY <2>4, <2>6 DEF BatchType
    <2>8. \A c \in Peer : tell[c] = "none" \/ (tell[c] = "frame" /\ role[c] = "member")
      BY <2>1, <2>2, <2>4 DEF With
    <2>9. ASSUME NEW c \in Peer
          PROVE  Spoken(type, p, c)
      BY <2>7, <2>8 DEF Spoken
    <2> QED BY <1>2, <1>3, <2>9
  <1> QED BY <1>1, <1>3, <1>4, <1>5, <1>6, <1>7 DEF Obey

\* The room closes, and what comes after it.
LEMMA CloseSays ==
    ASSUME NEW type, NEW p, \/ Close
                            \/ p \in Peer /\ type \in {"Form", "Frame"} /\ AfterClose(p)
    PROVE  \A c \in Peer : Spoken(type, p, c)
PROOF
  <1>1. CASE Close
    <2>1. PICK all : all = Applicants \cup With("member")
      OBVIOUS
    <2>2. /\ TellAll(all, "shutdown") \in [Peer -> Told]
          /\ \A c \in Peer : TellAll(all, "shutdown")[c] = IF c \in all THEN "shutdown" ELSE "none"
      BY TellValue, GateConstants
    <2>3. batch' = Batch(TellAll(all, "shutdown"), all) /\ all \in SUBSET Peer
      BY <1>1, <2>1 DEF Close, Applicants, With
    <2>4. batch'.tell = TellAll(all, "shutdown") /\ batch'.close = all
      BY <2>2, <2>3, BatchValue
    <2> QED BY <2>2, <2>4 DEF Spoken
  <1>2. CASE p \in Peer /\ type \in {"Form", "Frame"} /\ AfterClose(p)
    <2>1. /\ TellAll({p}, "error") \in [Peer -> Told]
          /\ \A c \in Peer : TellAll({p}, "error")[c] = IF c \in {p} THEN "error" ELSE "none"
      BY TellValue, GateConstants
    <2>2. batch' = Batch(TellAll({p}, "error"), {p}) /\ {p} \in SUBSET Peer /\ closed
      BY <1>2 DEF AfterClose
    <2>3. batch'.tell = TellAll({p}, "error") /\ batch'.close = {p}
      BY <2>1, <2>2, BatchValue
    <2> QED BY <1>2, <2>1, <2>2, <2>3 DEF Spoken, Cause
  <1> QED BY <1>1, <1>2

\* A join form.
LEMMA FormSays ==
    ASSUME RoomTypes, ~ closed, NEW p \in Peer, Form(p)
    PROVE  \A c \in Peer : Spoken("Form", p, c)
PROOF
  <1>1. CASE Quiet({})
    <2>1. \A c \in Peer : c \in {} => ~ closed /\ (role[c] = "member" \/ (p = c /\ "Form" = "Frame"))
      OBVIOUS
    <2> QED BY <1>1, <2>1, QuietSays
  <1>2. CASE batch' = NoBatch
    BY <1>2, SilentSays
  <1>3. CASE ~ Admits(p) /\ Punish(p)
    <2>1. Cause("Form", p)
      BY <1>3 DEF Cause
    <2> QED BY <1>3, <2>1, LoseSays
  <1> QED BY <1>1, <1>2, <1>3 DEF Form

\* Every event of the queue.
LEMMA HandlesSays ==
    ASSUME RoomTypes, NEW e \in EventType, Handles(e)
    PROVE  \A c \in Peer : Spoken(e.type, e.conn, c)
PROOF
  <1>1. e.type \in PeerEvent => e.conn \in Peer
    BY DEF EventType, PeerEvent, RoomEvent
  <1>2. ASSUME Quiet({})
        PROVE  \A c \in Peer : Spoken(e.type, e.conn, c)
    <2>1. \A c \in Peer : c \in {} => ~ closed /\ (role[c] = "member" \/ (e.conn = c /\ e.type = "Frame"))
      OBVIOUS
    <2> QED BY <1>2, <2>1, QuietSays
  <1>3. CASE closed
    <2>1. CASE e.type \in {"Form", "Frame"} /\ AfterClose(e.conn)
      <3>1. e.conn \in Peer
        BY <1>1, <2>1 DEF PeerEvent
      <3> QED BY <2>1, <3>1, CloseSays
    <2>2. CASE Quiet({})
      BY <1>2, <2>2
    <2> QED BY <1>3, <2>1, <2>2 DEF Handles
  <1>4. CASE ~ closed /\ e.type \in {"Connected", "Verified"}
    <2>1. Connected(e.conn) \/ Verified(e.conn)
      BY <1>4 DEF Handles
    <2>2. batch' = NoBatch
      BY <2>1 DEF Connected, Verified
    <2> QED BY <2>2, SilentSays
  <1>5. CASE ~ closed /\ e.type = "Form"
    <2>1. e.conn \in Peer /\ Form(e.conn)
      BY <1>1, <1>5 DEF PeerEvent, Handles
    <2> QED BY <1>5, <2>1, FormSays
  <1>6. CASE ~ closed /\ e.type = "Lost"
    <2>1. e.conn \in Peer /\ Lost(e.conn)
      BY <1>1, <1>6 DEF PeerEvent, Handles
    <2> QED BY <1>6, <2>1, LoseSays
  <1>7. CASE ~ closed /\ e.type = "Frame"
    <2>1. e.conn \in Peer /\ FrameArrives(e.conn)
      BY <1>1, <1>7 DEF PeerEvent, Handles
    <2> QED BY <1>7, <2>1, FrameSays
  <1>8. CASE ~ closed /\ e.type = "CloseRequested"
    <2>1. Close
      BY <1>8 DEF Handles
    <2> QED BY <2>1, CloseSays
  <1>9. CASE ~ closed /\ e.type \notin {"Connected", "Verified", "Form", "Lost", "Frame", "CloseRequested"}
    <2>1. IF Applies(e) THEN Obey(e) ELSE Quiet({})
      BY <1>9 DEF Handles
    <2>2. CASE Applies(e)
      BY <1>9, <2>1, <2>2, ObeySays
    <2>3. CASE ~ Applies(e)
      BY <1>2, <2>1, <2>3
    <2> QED BY <2>2, <2>3
  <1> QED BY <1>3, <1>4, <1>5, <1>6, <1>7, <1>8, <1>9

\* The end of a key transition: nobody but members is told of it.
LEMMA TransitionSays ==
    ASSUME RoomTypes, RoomTransition
    PROVE  /\ ~ closed
           /\ \A c \in Peer : Spoken("None", 0, c)
PROOF
  <1>1. CASE \E S \in {{}, With("member")} : Activate(S)
    <2>1. PICK S \in {{}, With("member")} : Activate(S)
      BY <1>1
    <2>2. ~ closed /\ batch' = Batch(TellAll(S, "frame"), {})
      BY <2>1 DEF Activate
    <2>3. /\ TellAll(S, "frame") \in [Peer -> Told]
          /\ \A c \in Peer : TellAll(S, "frame")[c] = IF c \in S THEN "frame" ELSE "none"
      BY TellValue, GateConstants
    <2>4. batch'.tell = TellAll(S, "frame") /\ batch'.close = {}
      BY <2>2, <2>3, BatchValue
    <2>5. \A c \in S : role[c] = "member"
      BY <2>1 DEF With
    <2> QED BY <2>2, <2>3, <2>4, <2>5 DEF Spoken
  <1>2. CASE \E S \in SUBSET With("member") \ {{}} : Evict(S)
    <2>1. PICK S \in SUBSET With("member") : Evict(S)
      BY <1>2
    <2>2. PICK tell : tell = TellAll({}, "none")
      OBVIOUS
    <2>3. ~ closed /\ DropMembers(S, tell, S) /\ S \in SUBSET Peer
      BY <2>1, <2>2 DEF Evict, With
    <2>4. /\ TellAll({}, "none") \in [Peer -> Told]
          /\ \A c \in Peer : TellAll({}, "none")[c] = "none"
      BY TellValue, GateConstants
    <2>5. tell \in [Peer -> Told] /\ \A c \in Peer : tell[c] = "none"
      BY <2>2, <2>4
    <2>6. \A c \in Peer : tell[c] # "none" =>
             tell[c] = "error" /\ 0 = c /\ Cause("None", c) /\ c \in S
      BY <2>5
    <2> QED BY <2>3, <2>5, <2>6, DropSays
  <1> QED BY <1>1, <1>2 DEF RoomTransition

-----------------------------------------------------------------------------
(* The room answers an event *)

\* How the room's step, on an event of this type about p, looks to connection c.
Reacts(type, p, c) ==
    /\ batch' \in BatchType /\ Spoken(type, p, c) /\ RoleStep(type, p, c)
    /\ closed => closed'
    /\ c \in mishap => c \in mishap'
    /\ p = c /\ Cause(type, c) /\ c \notin mishap' =>
          ~ closed /\ \/ type = "Form" /\ role[c] # "verified"
                      \/ type = "Frame" /\ role[c] # "member"
    /\ p = c /\ ~ closed /\ c \notin mishap' =>
          /\ type = "Connected" => role'[c] = "guest"
          /\ type = "Verified" /\ role[c] = "guest" => role'[c] = "verified"
    /\ type = "None" => events' = events
    /\ type # "None" => EventsTake /\ events[1] = Event(type, p)
    /\ \A i \in DOMAIN actions : i \in DOMAIN actions' /\ actions'[i] = actions[i]
    /\ \A i \in DOMAIN actions' : i \in DOMAIN actions \/
          (actions'[i] = batch' /\ \A j \in DOMAIN actions' : j < i <=> j \in DOMAIN actions)
    /\ batch'.tell[c] # "none" \/ c \in batch'.close => \E i \in DOMAIN actions' : actions'[i] = batch'
    /\ DOMAIN events \subseteq Nat \ {0} /\ DOMAIN actions \subseteq Nat /\ DOMAIN actions' \subseteq Nat
    /\ UNCHANGED <<connects, inbound, down, flows, peers, clients>>

\* A batch is answered behind those that wait.
LEMMA RespondLast ==
    ASSUME SupTypes, batch' \in BatchType, Respond
    PROVE  \A i \in DOMAIN actions' : i \in DOMAIN actions \/
              (actions'[i] = batch' /\ \A j \in DOMAIN actions' : j < i <=> j \in DOMAIN actions)
PROOF
  <1>1. CASE actions' = actions
    BY <1>1
  <1>2. CASE actions' = Append(actions, batch')
    <2>1. PICK b \in BatchType : b = batch'
      OBVIOUS
    <2>2. /\ Len(actions) \in Nat /\ DOMAIN actions = 1..Len(actions)
          /\ DOMAIN actions' = 1..(Len(actions) + 1) /\ actions'[Len(actions) + 1] = b
      BY <1>2, <2>1 DEF SupTypes
    <2>3. ASSUME NEW i \in DOMAIN actions', i \notin DOMAIN actions
          PROVE  actions'[i] = b /\ \A j \in DOMAIN actions' : j < i <=> j \in DOMAIN actions
      BY <2>2, <2>3
    <2> QED BY <2>1, <2>3
  <1> QED BY <1>1, <1>2 DEF Respond

\* A room that has closed stays closed.
LEMMA ClosedStays ==
    ASSUME closed, NEW e, Handles(e)
    PROVE  closed'
  BY DEF Handles, AfterClose, Quiet

\* A frame is refused for good by the room's own choice, or from a stranger.
LEMMA FrameCause ==
    ASSUME NEW p, Cause("Frame", p)
    PROVE  closed \/ Expel(p) \/ (~ closed /\ role[p] # "member")
  BY DEF Cause

\* A form is refused for a reason of the room's, or because it comes too early.
LEMMA FormCause ==
    ASSUME RoomTypes, NEW p, Cause("Form", p)
    PROVE  \/ closed \/ roomPolicy = "Locked" \/ Cardinality(With("pending")) >= MaxPendingRequests
           \/ ~ closed /\ role[p] # "verified"
PROOF
  <1>1. CASE closed
    BY <1>1
  <1>2. CASE ~ closed /\ ~ Admits(p)
    <2>1. With("pending") \subseteq Peer
      BY DEF With
    <2>2. Cardinality(With("pending")) \in Nat /\ MaxPendingRequests \in Nat
      BY <2>1, PeerFacts, FS_Subset, FS_CardinalityType, SupervisorAssumption
    <2> QED BY <1>2, <2>2 DEF Admits, RoomTypes
  <1> QED BY <1>1, <1>2 DEF Cause

\* What the room makes of the first event of a connection and of its proof.
LEMMA Promotes ==
    ASSUME RoomTypes, NEW e \in EventType, Handles(e), ~ closed
    PROVE  LET p == e.conn IN
           /\ e.type = "Connected" => busy \/ role'[p] = "guest"
           /\ e.type = "Verified" /\ role[p] = "guest" => busy \/ role'[p] = "verified"
PROOF
  <1>1. PICK p : p = e.conn
    OBVIOUS
  <1>2. CASE e.type = "Connected" /\ ~ busy
    <2>1. p \in Peer /\ Connected(p)
      BY <1>1, <1>2 DEF Handles, EventType, PeerEvent, RoomEvent
    <2>2. SetRole({p}, "guest")
      BY <1>2, <2>1 DEF Connected
    <2> QED BY <1>1, <1>2, <2>1, <2>2, SetRoleValue, GateConstants
  <1>3. CASE e.type = "Verified" /\ ~ busy /\ role[p] = "guest"
    <2>1. p \in Peer /\ Verified(p)
      BY <1>1, <1>3 DEF Handles, EventType, PeerEvent, RoomEvent
    <2>2. SetRole({p}, "verified")
      BY <1>3, <2>1 DEF Verified
    <2> QED BY <1>1, <1>3, <2>1, <2>2, SetRoleValue, GateConstants
  <1> QED BY <1>1, <1>2, <1>3

\* Every step of the room.
LEMMA RoomReacts ==
    ASSUME SupTypes, RoomHandle \/ RoomTransition
    PROVE  \E type, p : \A c \in Honest : Reacts(type, p, c)
PROOF
  <1>1. RoomTypes /\ Honest \subseteq Peer
    BY SupervisorAssumption DEF SupTypes
  <1>2. UNCHANGED <<connects, inbound, down, flows, peers, clients>> /\ Respond
    BY DEF RoomHandle, RoomTransition
  <1>3. DOMAIN events \subseteq Nat \ {0} /\ DOMAIN actions \subseteq Nat
    BY DEF SupTypes
  <1>4. ASSUME batch' \in BatchType
        PROVE  /\ DOMAIN actions' \subseteq Nat
               /\ \A i \in DOMAIN actions : i \in DOMAIN actions' /\ actions'[i] = actions[i]
               /\ \A i \in DOMAIN actions' : i \in DOMAIN actions \/
                     (actions'[i] = batch' /\ \A j \in DOMAIN actions' : j < i <=> j \in DOMAIN actions)
               /\ \A c \in Peer : batch'.tell[c] # "none" \/ c \in batch'.close =>
                     \E i \in DOMAIN actions' : actions'[i] = batch'
    BY <1>2, <1>4, RespondValue, RespondLast
  <1>5. CASE RoomHandle
    <2>1. PICK e : e = Head(events)
      OBVIOUS
    <2>2. events # <<>> /\ events' = Tail(events) /\ Handles(e)
      BY <1>5, <2>1 DEF RoomHandle
    <2>3. EventsTake /\ e = events[1] /\ e \in EventType
      BY <2>1, <2>2, HeadTaken DEF SupTypes
    <2>4. GateStep(e.type, e.conn) /\ \A c \in Peer : Spoken(e.type, e.conn, c)
      BY <1>1, <2>2, <2>3, HandlesStep, HandlesSays
    <2>5. batch' \in BatchType
      BY <2>4 DEF GateStep, RoomTypes
    <2>6. closed => closed'
      BY <2>2, ClosedStays
    <2>7. PICK type : type = e.type
      OBVIOUS
    <2>8. PICK p : p = e.conn
      OBVIOUS
    <2>9. events[1] = Event(type, p) /\ type # "None"
      <3>1. events[1] = Event(e.type, e.conn) /\ e.type \in PeerEvent \cup RoomEvent
        BY <2>3, EventIs
      <3> QED BY <2>7, <2>8, <3>1 DEF PeerEvent, RoomEvent
    <2>10. mishap' = IF p \in Honest /\ Mishap(e) THEN mishap \cup {p} ELSE mishap
      BY <1>5, <2>1, <2>8 DEF RoomHandle
    <2>11. Mishap(e) <=> \/ busy /\ type \in {"Connected", "Verified"}
                         \/ type = "Form" /\ (closed \/ roomPolicy = "Locked"
                               \/ Cardinality(With("pending")) >= MaxPendingRequests)
                         \/ type = "Frame" /\ (closed \/ Expel(p))
      BY <2>7, <2>8 DEF Mishap
    <2>12. ~ closed =>
             /\ type = "Connected" => busy \/ role'[p] = "guest"
             /\ type = "Verified" /\ role[p] = "guest" => busy \/ role'[p] = "verified"
      BY <1>1, <2>2, <2>3, <2>7, <2>8, Promotes
    <2>13. ASSUME NEW c \in Honest
           PROVE  Reacts(type, p, c)
      <3>1. c \in Peer
        BY <1>1
      <3>2. Spoken(type, p, c) /\ RoleStep(type, p, c)
        BY <2>4, <2>7, <2>8, <3>1 DEF GateStep
      <3>3. ASSUME p = c, Cause(type, c), c \notin mishap'
            PROVE  ~ closed /\ \/ type = "Form" /\ role[c] # "verified"
                               \/ type = "Frame" /\ role[c] # "member"
        <4>1. ~ Mishap(e)
          BY <2>10, <3>3
        <4>2. type \in {"Form", "Frame"}
          BY <3>3 DEF Cause
        <4>3. CASE type = "Form"
          BY <1>1, <2>11, <3>3, <4>1, <4>3, FormCause
        <4>4. CASE type = "Frame"
          <5>1. ~ closed /\ ~ Expel(p)
            BY <2>11, <4>1, <4>4
          <5>2. Cause("Frame", p)
            BY <3>3, <4>4
          <5> QED BY <3>3, <4>4, <5>1, <5>2, FrameCause
        <4> QED BY <4>2, <4>3, <4>4
      <3>4. ASSUME p = c, ~ closed, c \notin mishap'
            PROVE  /\ type = "Connected" => role'[c] = "guest"
                   /\ type = "Verified" /\ role[c] = "guest" => role'[c] = "verified"
        <4>1. ~ Mishap(e)
          BY <2>10, <3>4
        <4> QED BY <2>11, <2>12, <3>4, <4>1
      <3>5. c \in mishap => c \in mishap'
        BY <2>10
      <3>6. batch'.tell[c] # "none" \/ c \in batch'.close => \E i \in DOMAIN actions' : actions'[i] = batch'
        BY <1>4, <2>5, <3>1
      <3> QED BY <1>2, <1>3, <1>4, <2>3, <2>5, <2>6, <2>9, <3>2, <3>3, <3>4, <3>5, <3>6 DEF Reacts
    <2> QED BY <2>13
  <1>6. CASE RoomTransition
    <2>1. GateStep("None", 0) /\ events' = events /\ mishap' = mishap
      BY <1>1, <1>6, TransitionStep DEF RoomTransition
    <2>2. ~ closed /\ \A c \in Peer : Spoken("None", 0, c)
      BY <1>1, <1>6, TransitionSays
    <2>3. batch' \in BatchType
      BY <2>1 DEF GateStep, RoomTypes
    <2>4. ASSUME NEW c \in Honest
          PROVE  Reacts("None", 0, c)
      <3>1. c \in Peer /\ Spoken("None", 0, c) /\ RoleStep("None", 0, c)
        BY <1>1, <2>1, <2>2 DEF GateStep
      <3>2. ~ Cause("None", c)
        BY DEF Cause
      <3>3. batch'.tell[c] # "none" \/ c \in batch'.close => \E i \in DOMAIN actions' : actions'[i] = batch'
        BY <1>4, <2>3, <3>1
      <3> QED BY <1>2, <1>3, <1>4, <2>1, <2>2, <2>3, <3>1, <3>2, <3>3 DEF Reacts
    <2> QED BY <2>4
  <1> QED BY <1>5, <1>6

\* The event at the head was pending; the others wait one place further.
LEMMA ReactsEvents ==
    ASSUME NEW type, NEW p, NEW c, Reacts(type, p, c)
    PROVE  /\ \A t, d : Pending(t, d)' => Pending(t, d)
           /\ type # "None" => 1 \in DOMAIN events /\ Pending(type, p)
           /\ \A t, d : Pending(t, d) => Pending(t, d)' \/ (type # "None" /\ t = type /\ d = p)
PROOF
  <1>1. CASE type = "None"
    BY <1>1 DEF Reacts, Pending
  <1>2. CASE type # "None"
    <2>1. EventsTake /\ events[1] = Event(type, p) /\ 1 \in DOMAIN events
      BY <1>2 DEF Reacts, EventsTake
    <2>2. ASSUME NEW t, NEW d, Pending(t, d), ~ Pending(t, d)'
          PROVE  t = type /\ d = p
      <3>1. PICK i \in DOMAIN events : events[i] = Event(t, d)
        BY <2>2 DEF Pending
      <3>2. i = 1
        BY <2>1, <2>2, <3>1 DEF EventsTake, Pending
      <3> QED BY <2>1, <3>1, <3>2 DEF Event
    <2>3. \A t, d : Pending(t, d)' => Pending(t, d)
      BY <2>1 DEF EventsTake, Pending
    <2> QED BY <1>2, <2>1, <2>2, <2>3 DEF Pending
  <1> QED BY <1>1, <1>2

\* Where a live client that the room does not close goes from here.
LEMMA ReactsRole ==
    ASSUME LostFacts, NEW type, NEW p, NEW c \in Peer, Reacts(type, p, c), Live(c), c \notin batch'.close
    PROVE  \/ role'[c] = role[c]
           \/ p = c /\ type = "Connected" /\ role[c] = "none" /\ role'[c] = "guest"
           \/ p = c /\ type = "Verified" /\ role[c] = "guest" /\ role'[c] = "verified"
           \/ p = c /\ type = "Form" /\ role[c] = "verified" /\ role'[c] = "pending"
           \/ /\ p = c /\ type = "Accept" /\ role[c] = "pending" /\ role'[c] = "member"
              /\ batch'.tell[c] = "accepted"
PROOF
  <1>1. ~ (type = "Lost" /\ p = c)
    <2> SUFFICES ASSUME type = "Lost", p = c PROVE FALSE
      OBVIOUS
    <2>1. Pending("Lost", c)
      BY ReactsEvents
    <2> QED BY <2>1 DEF LostFacts, Live
  <1> QED BY <1>1 DEF Reacts, RoleStep

\* What the room says, it says to a client that stands where it takes it to be.
LEMMA ReactsSpeech ==
    ASSUME NEW type, NEW p, NEW c, Reacts(type, p, c), Speech(c), Known(c)
    PROVE  Speech(c)'
PROOF
  <1>1. /\ (Inside(c)' <=> Inside(c)) /\ (Decided(c)' <=> Decided(c))
        /\ c \in mishap => c \in mishap'
    BY DEF Reacts, Inside, Decided
  <1>2. /\ \A i \in DOMAIN actions : i \in DOMAIN actions' /\ actions'[i] = actions[i]
        /\ \A i \in DOMAIN actions' : i \in DOMAIN actions \/
              (actions'[i] = batch' /\ \A j \in DOMAIN actions' : j < i <=> j \in DOMAIN actions)
        /\ DOMAIN actions \subseteq Nat /\ DOMAIN actions' \subseteq Nat
    BY DEF Reacts
  <1> SUFFICES ASSUME NEW i \in DOMAIN actions',
                      \A j \in DOMAIN actions' : j < i => c \notin actions'[j].close
               PROVE  Says(c, i)'
    BY DEF Speech
  <1>3. \A j \in DOMAIN actions : j < i => c \notin actions[j].close
    BY <1>2
  <1>4. CASE i \in DOMAIN actions
    <2>1. Says(c, i) /\ actions'[i] = actions[i]
      BY <1>2, <1>3, <1>4 DEF Speech
    <2>2. \A j \in DOMAIN actions' : j < i => j \in DOMAIN actions /\ actions'[j] = actions[j]
      <3> SUFFICES ASSUME NEW j \in DOMAIN actions', j < i, j \notin DOMAIN actions PROVE FALSE
        BY <1>2
      <3>1. i \in DOMAIN actions' /\ i < j /\ i \in Nat /\ j \in Nat
        BY <1>2, <1>4
      <3> QED BY <3>1
    <2>3. actions[i].tell[c] = "frame" => Inside(c)' \/ \E j \in DOMAIN actions' : j < i /\ actions'[j].tell[c] = "accepted"
      BY <1>1, <1>2, <2>1 DEF Says
    <2>4. actions[i].tell[c] \in {"accepted", "rejected"} =>
             /\ Decided(c)' /\ ~ Inside(c)'
             /\ \A j \in DOMAIN actions' : j < i => actions'[j].tell[c] = "none"
      BY <1>1, <2>1, <2>2 DEF Says
    <2> QED BY <1>1, <2>1, <2>3, <2>4 DEF Says
  <1>5. CASE i \notin DOMAIN actions
    <2>1. actions'[i] = batch' /\ \A j \in DOMAIN actions' : j < i <=> j \in DOMAIN actions
      BY <1>2, <1>5
    <2>2. ~ Closing(c)
      BY <1>2, <1>3, <2>1 DEF Closing
    <2>3. Spoken(type, p, c)
      BY DEF Reacts
    <2>4. ~ closed => Standing(c) /\ (c \notin mishap => Procession(c))
      BY <2>2 DEF Known
    <2>5. ASSUME batch'.tell[c] \in {"accepted", "rejected"}
          PROVE  /\ Decided(c)' /\ ~ Inside(c)'
                 /\ \A j \in DOMAIN actions' : j < i => actions'[j].tell[c] = "none"
      <3>1. role[c] = "pending" /\ Standing(c)
        BY <2>3, <2>4, <2>5 DEF Spoken
      <3>2. Decided(c) /\ ~ Inside(c) /\ \A j \in DOMAIN actions : actions[j].tell[c] = "none"
        BY <3>1 DEF Standing
      <3> QED BY <1>1, <1>2, <2>1, <3>2
    <2>6. ASSUME batch'.tell[c] = "frame"
          PROVE  Inside(c)' \/ \E j \in DOMAIN actions' : j < i /\ actions'[j].tell[c] = "accepted"
      <3>1. ~ closed /\ (role[c] = "member" \/ (p = c /\ type = "Frame"))
        BY <2>3, <2>6 DEF Spoken
      <3>2. p = c /\ type = "Frame" => Pending("Frame", c)
        BY ReactsEvents
      <3>3. role[c] = "member" /\ Standing(c)
        BY <2>4, <3>1, <3>2 DEF Standing
      <3>4. Inside(c) \/ Accepted(c)
        BY <3>3 DEF Standing
      <3> QED BY <1>1, <1>2, <2>1, <3>4 DEF Accepted
    <2>7. ASSUME batch'.tell[c] = "error", c \notin mishap'
          PROVE  FALSE
      <3>1. p = c /\ Cause(type, c) /\ c \notin mishap
        BY <1>1, <2>3, <2>7 DEF Spoken
      <3>2. ~ closed /\ \/ type = "Form" /\ role[c] # "verified"
                        \/ type = "Frame" /\ role[c] # "member"
        BY <2>7, <3>1 DEF Reacts
      <3>3. CASE type = "Frame"
        <4>1. Pending("Frame", c)
          BY <3>1, <3>3, ReactsEvents
        <4> QED BY <2>4, <3>2, <3>3, <4>1 DEF Standing
      <3>4. CASE type = "Form"
        <4>1. events[1] = Event("Form", c) /\ 1 \in DOMAIN events /\ \A j \in DOMAIN events : ~ j < 1
          BY <3>1, <3>4, ReactsEvents DEF Reacts
        <4> QED BY <2>4, <3>1, <3>2, <3>4, <4>1 DEF Procession
      <3> QED BY <3>2, <3>3, <3>4
    <2>8. batch'.tell[c] \in {"error", "rejected", "shutdown"} => c \in batch'.close
      BY <2>3 DEF Spoken
    <2> QED BY <2>1, <2>5, <2>6, <2>7, <2>8 DEF Says
  <1> QED BY <1>4, <1>5

\* What the room takes a live client for is still what the supervisor does.
LEMMA ReactsStanding ==
    ASSUME LostFacts, NEW type, NEW p, NEW c \in Peer, Reacts(type, p, c), Live(c), ~ closed, ~ closed',
           c \notin batch'.close, Standing(c)
    PROVE  Standing(c)'
PROOF
  <1>1. (Inside(c)' <=> Inside(c)) /\ (Decided(c)' <=> Decided(c))
    BY DEF Reacts, Inside, Decided
  <1>2. Spoken(type, p, c) /\ RoleStep(type, p, c)
    BY DEF Reacts
  <1>3. \A t : Pending(t, c)' => Pending(t, c)
    BY ReactsEvents
  <1>4. type # "None" => Pending(type, p)
    BY ReactsEvents
  <1>5. role[c] = "member" => role'[c] = "member"
    BY ReactsRole
  <1>6. role'[c] \in {"pending", "member"} => role[c] \in {"pending", "member"} \/ Pending("Form", c)
    BY <1>4, ReactsRole
  <1>7. ASSUME role'[c] # "member"
        PROVE  ~ Inside(c)' /\ \A i \in DOMAIN actions' : actions'[i].tell[c] = "none"
    <2>1. ~ Inside(c) /\ \A i \in DOMAIN actions : actions[i].tell[c] = "none"
      BY <1>5, <1>7 DEF Standing
    <2>2. batch'.tell[c] \notin {"accepted", "error", "rejected", "shutdown"}
      BY <1>2, <1>7 DEF RoleStep, Spoken
    <2>3. batch'.tell[c] # "frame"
      <3> SUFFICES ASSUME batch'.tell[c] = "frame" PROVE FALSE
        OBVIOUS
      <3>1. role[c] = "member" \/ (p = c /\ type = "Frame")
        BY <1>2 DEF Spoken
      <3> QED BY <1>4, <1>5, <1>7, <3>1 DEF Standing
    <2>4. batch'.tell[c] = "none"
      <3>1. batch' \in BatchType
        BY DEF Reacts
      <3> QED BY <2>2, <2>3, <3>1 DEF BatchType, Told
    <2> QED BY <1>1, <2>1, <2>4 DEF Reacts
  <1>8. ASSUME role'[c] = "member"
        PROVE  Inside(c)' \/ Accepted(c)'
    <2>1. CASE role[c] = "member"
      <3>1. Inside(c) \/ Accepted(c)
        BY <2>1 DEF Standing
      <3> QED BY <1>1, <3>1 DEF Accepted, Reacts
    <2>2. CASE role[c] # "member"
      <3>1. batch'.tell[c] = "accepted"
        BY <1>8, <2>2, ReactsRole
      <3> QED BY <3>1 DEF Accepted, Reacts
    <2> QED BY <2>1, <2>2
  <1>9. Pending("Frame", c)' => role'[c] = "member"
    BY <1>3, <1>5 DEF Standing
  <1>10. role'[c] \in {"pending", "member"} \/ Pending("Form", c)' => Decided(c)'
    BY <1>1, <1>3, <1>6 DEF Standing
  <1> QED BY <1>7, <1>8, <1>9, <1>10 DEF Standing

\* The procession moves up by one.
LEMMA ReactsProcession ==
    ASSUME EarlyFacts, LostFacts, NEW type, NEW p, NEW c \in Peer, Reacts(type, p, c), Live(c),
           ~ closed, c \notin batch'.close, c \notin mishap', Procession(c)
    PROVE  Procession(c)'
PROOF
  <1>1. /\ Early(c)' <=> Early(c)
        /\ AwaitsForm(c)' <=> AwaitsForm(c)
    BY DEF Reacts, Early, AwaitsForm
  <1>2. /\ role'[c] = role[c] \/ (p = c /\ type \in {"Connected", "Verified", "Form", "Accept"})
        /\ role[c] = "none" => role'[c] \in {"none", "guest"}
        /\ role[c] = "guest" => role'[c] \in {"guest", "verified"}
        /\ p # c \/ type # "Verified" => (role[c] = "guest" => role'[c] = "guest")
        /\ p # c \/ type # "Form" => (role[c] = "verified" => role'[c] = "verified")
    BY ReactsRole
  <1>3. p = c => /\ type = "Connected" => role'[c] = "guest"
                 /\ type = "Verified" /\ role[c] = "guest" => role'[c] = "verified"
    BY DEF Reacts
  <1>4. CASE type = "None"
    <2>1. events' = events /\ role'[c] = role[c]
      BY <1>2, <1>4 DEF Reacts
    <2>2. \A t : Pending(t, c)' <=> Pending(t, c)
      BY <2>1 DEF Pending
    <2> QED BY <1>1, <2>1, <2>2 DEF Procession, AwaitsForm
  <1>5. CASE type # "None"
    <2>1. EventsTake /\ events[1] = Event(type, p) /\ DOMAIN events \subseteq Nat \ {0}
      BY <1>5 DEF Reacts
    <2>2. /\ 1 \in DOMAIN events
          /\ \A i \in DOMAIN events' : /\ i + 1 \in DOMAIN events /\ events'[i] = events[i + 1]
                                       /\ i + 1 # 1 /\ i \in Nat
          /\ \A i \in DOMAIN events : i # 1 => i - 1 \in DOMAIN events' /\ events'[i - 1] = events[i]
      <3>1. \A i \in DOMAIN events' : i \in Nat
        BY <2>1 DEF EventsTake
      <3> QED BY <2>1, <3>1 DEF EventsTake
    <2>3. p = c => events[1] = Event(type, c)
      BY <2>1
    <2>4. /\ \A i, j \in DOMAIN events :
                events[i] = events[j] /\ events[i] \in {Event("Verified", c), Event("Form", c)} => i = j
          /\ \A i \in DOMAIN events : events[i] = Event("Verified", c) =>
                \/ role[c] = "guest"
                \/ role[c] = "none" /\ \E j \in DOMAIN events : j < i /\ events[j] = Event("Connected", c)
          /\ \A i \in DOMAIN events : events[i] = Event("Form", c) =>
                \/ role[c] = "verified"
                \/ \E j \in DOMAIN events : j < i /\ events[j] = Event("Verified", c)
      BY DEF Procession
    <2>5. \A j \in DOMAIN events : ~ j < 1
      BY <2>1
    <2>6. p = c /\ type = "Verified" => role[c] = "guest" /\ role'[c] = "verified"
      BY <1>3, <2>2, <2>3, <2>4, <2>5
    <2>7. ASSUME NEW i \in DOMAIN events', NEW j \in DOMAIN events', events'[i] = events'[j],
                 events'[i] \in {Event("Verified", c), Event("Form", c)}
          PROVE  i = j
      <3>1. i + 1 = j + 1
        BY <2>2, <2>4, <2>7
      <3>2. i \in Nat /\ j \in Nat
        BY <2>2
      <3> QED BY <3>1, <3>2
    <2>8. ASSUME NEW j \in DOMAIN events, NEW i \in DOMAIN events', j < i + 1, j # 1
          PROVE  j - 1 \in DOMAIN events' /\ j - 1 < i /\ events'[j - 1] = events[j]
      <3>1. j \in Nat /\ i \in Nat
        BY <2>1, <2>2
      <3> QED BY <2>2, <2>8, <3>1
    <2>9. ASSUME NEW i \in DOMAIN events', events'[i] = Event("Verified", c)
          PROVE  \/ role'[c] = "guest"
                 \/ role'[c] = "none" /\ \E j \in DOMAIN events' : j < i /\ events'[j] = Event("Connected", c)
      <3>1. i + 1 \in DOMAIN events /\ events[i + 1] = Event("Verified", c) /\ i + 1 # 1
        BY <2>2, <2>9
      <3>2. p # c \/ type # "Verified"
        BY <2>2, <2>3, <2>4, <3>1
      <3>3. CASE role[c] = "guest"
        BY <1>2, <3>2, <3>3
      <3>4. CASE role[c] = "none" /\ \E j \in DOMAIN events : j < i + 1 /\ events[j] = Event("Connected", c)
        <4>1. PICK j \in DOMAIN events : j < i + 1 /\ events[j] = Event("Connected", c)
          BY <3>4
        <4>2. CASE j = 1
          <5>1. p = c /\ type = "Connected"
            BY <2>1, <4>1, <4>2 DEF Event
          <5> QED BY <1>3, <5>1
        <4>3. CASE j # 1
          BY <1>2, <2>8, <3>4, <4>1, <4>3
        <4> QED BY <4>2, <4>3
      <3> QED BY <2>4, <3>1, <3>3, <3>4
    <2>10. ASSUME NEW i \in DOMAIN events', events'[i] = Event("Form", c)
           PROVE  \/ role'[c] = "verified"
                  \/ \E j \in DOMAIN events' : j < i /\ events'[j] = Event("Verified", c)
      <3>1. i + 1 \in DOMAIN events /\ events[i + 1] = Event("Form", c) /\ i + 1 # 1
        BY <2>2, <2>10
      <3>2. p # c \/ type # "Form"
        BY <2>2, <2>3, <2>4, <3>1
      <3>3. CASE role[c] = "verified"
        BY <1>2, <3>2, <3>3
      <3>4. CASE \E j \in DOMAIN events : j < i + 1 /\ events[j] = Event("Verified", c)
        <4>1. PICK j \in DOMAIN events : j < i + 1 /\ events[j] = Event("Verified", c)
          BY <3>4
        <4>2. CASE j = 1
          <5>1. p = c /\ type = "Verified"
            BY <2>1, <4>1, <4>2 DEF Event
          <5> QED BY <2>6, <5>1
        <4>3. CASE j # 1
          BY <2>8, <4>1, <4>3
        <4> QED BY <4>2, <4>3
      <3> QED BY <2>4, <3>1, <3>3, <3>4
    <2>11. ASSUME Early(c)
           PROVE  role'[c] = "guest" \/ (role'[c] = "none" /\ Pending("Connected", c)')
      <3>1. role[c] = "guest" \/ (role[c] = "none" /\ Pending("Connected", c))
        BY <2>11 DEF Procession
      <3>2. p # c \/ type # "Verified"
        <4> SUFFICES ASSUME p = c, type = "Verified" PROVE FALSE
          OBVIOUS
        <4>1. events[1].conn = c /\ events[1].type = "Verified"
          BY <2>3, EventValue
        <4> QED BY <2>2, <2>11, <4>1 DEF EarlyFacts
      <3>3. CASE role[c] = "guest"
        BY <1>2, <3>2, <3>3
      <3>4. CASE role[c] = "none" /\ Pending("Connected", c)
        <4>1. Pending("Connected", c)' \/ (type = "Connected" /\ p = c)
          BY <3>4, ReactsEvents
        <4> QED BY <1>2, <1>3, <3>4, <4>1
      <3> QED BY <3>1, <3>3, <3>4
    <2>12. ASSUME AwaitsForm(c)
           PROVE  (role'[c] = "verified" \/ Pending("Verified", c)') /\ ~ Pending("Form", c)'
      <3>1. (role[c] = "verified" \/ Pending("Verified", c)) /\ ~ Pending("Form", c)
        BY <2>12 DEF Procession, AwaitsForm
      <3>2. ~ (p = c /\ type = "Form")
        BY <3>1, ReactsEvents
      <3>3. ~ Pending("Form", c)'
        BY <3>1, ReactsEvents
      <3>4. CASE role[c] = "verified"
        BY <1>2, <3>2, <3>3, <3>4
      <3>5. CASE Pending("Verified", c)
        <4>1. Pending("Verified", c)' \/ (type = "Verified" /\ p = c)
          BY <3>5, ReactsEvents
        <4> QED BY <2>6, <3>3, <4>1
      <3> QED BY <3>1, <3>4, <3>5
    <2>13. c \in DOMAIN flows' /\ flows'[c].stage = "AwaitingJoinForm" => AwaitsForm(c)
      BY <1>1 DEF AwaitsForm
    <2> QED BY <1>1, <2>7, <2>9, <2>10, <2>11, <2>12, <2>13 DEF Procession
  <1> QED BY <1>4, <1>5

\* The room answers an event or ends a transition.
LEMMA RoomClient ==
    ASSUME SupInv, ClientFacts, RoomHandle \/ RoomTransition
    PROVE  ClientFacts'
PROOF
  <1>1. SupTypes /\ EarlyFacts /\ LostFacts
    BY DEF SupInv, IdFacts
  <1>2. PICK type, p : \A c \in Honest : Reacts(type, p, c)
    BY <1>1, RoomReacts
  <1>3. UNCHANGED <<nextId, phase, inbound, down, peers, clients, flows, connects, overtaken>>
    BY DEF RoomHandle, RoomTransition
  <1>4. LinkTypes' /\ Bounds'
    BY <1>3 DEF ClientFacts, LinkTypes, Bounds
  <1>5. ASSUME NEW c \in Honest
        PROVE  Reader(c)' /\ ((Live(c))' => Talks(c)')
    <2>1. Reacts(type, p, c) /\ c \in Peer /\ Reader(c)
      BY <1>2, <1>5, SupervisorAssumption DEF ClientFacts
    <2>2. PICK cause : cause = Excused(c)
      OBVIOUS
    <2>3. PICK more : more = Excused(c)'
      OBVIOUS
    <2>4. cause \subseteq more
      <3>1. (c \in mishap => c \in mishap') /\ overtaken' = overtaken
        BY <1>3, <2>1 DEF Reacts
      <3> QED BY <2>2, <2>3, <3>1, ExcusedGrows
    <2>5. Running(c) => Readable(clients[c].stage, down[c], more)
      <3>1. Running(c) => Readable(clients[c].stage, down[c], cause)
        BY <2>1, <2>2 DEF Reader
      <3> QED BY <2>4, <3>1, ReadableGrows
    <2>6. Reader(c)'
      <3>1. Running(c)' => Readable(clients'[c].stage, down'[c], Excused(c)')
        BY <1>3, <2>3, <2>5 DEF Running
      <3>2. clients[c].stage = "Ended" =>
              /\ clients[c].why # "Unexpected"
              /\ clients[c].why \in {"ProtocolViolation", "ByRoom"} => clients[c].why \in Excused(c)'
        BY <2>1, <2>2, <2>3, <2>4 DEF Reader
      <3> QED BY <1>3, <3>1, <3>2 DEF Reader
    <2>7. ASSUME (Live(c))'
          PROVE  Talks(c)'
      <3>1. Live(c) /\ Talks(c)
        BY <1>3, <1>5, <2>7 DEF Live, ClientFacts
      <3>2. Conversation(c)'
        BY <1>3, <3>1 DEF Talks, Conversation, Exchange, Waiting
      <3>3. Speech(c)'
        BY <2>1, <3>1, ReactsSpeech DEF Talks
      <3>4. Known(c)'
        <4> SUFFICES ASSUME ~ closed', ~ (Closing(c))'
                     PROVE  Standing(c)' /\ (c \notin mishap' => Procession(c)')
          BY DEF Known
        <4>1. ~ closed /\ ~ Closing(c) /\ c \notin batch'.close /\ (c \in mishap => c \in mishap')
          BY <2>1 DEF Reacts, Closing
        <4>2. Standing(c) /\ (c \notin mishap' => Procession(c))
          BY <3>1, <4>1 DEF Talks, Known
        <4> QED BY <1>1, <2>1, <3>1, <4>1, <4>2, ReactsStanding, ReactsProcession
      <3> QED BY <3>2, <3>3, <3>4 DEF Talks
    <2> QED BY <2>6, <2>7
  <1> QED BY <1>4, <1>5 DEF ClientFacts

-----------------------------------------------------------------------------
(* The theorem *)

\* The conversation before anybody connects.
LEMMA ClientInit ==
    ASSUME Init
    PROVE  ClientFacts
PROOF
  <1>1. /\ peers = <<>> /\ down = [c \in Peer |-> <<>>] /\ inbound = [c \in Peer |-> <<>>]
        /\ clients = [c \in Honest |-> NoClient] /\ phase = "running"
    BY DEF Init
  <1>2. DOMAIN peers = {} /\ <<>> \in Seq(DownFrame)
    BY <1>1
  <1>3. NoClient \in ClientRecord /\ NoClient.stage = "Idle"
    BY DEF NoClient, ClientRecord, ClientStages, EndReasons
  <1>4. Honest \subseteq Peer
    BY SupervisorAssumption
  <1>5. LinkTypes /\ Bounds
    BY <1>1, <1>2, <1>3 DEF LinkTypes, Bounds
  <1>6. ASSUME NEW c \in Honest
        PROVE  Reader(c) /\ (Live(c) => Talks(c))
    BY <1>1, <1>2, <1>3 DEF Reader, Running, Live
  <1> QED BY <1>5, <1>6 DEF ClientFacts

\* Every step of the host, the room and the clients preserves the conversation.
LEMMA ClientStep ==
    ASSUME SupInv, ClientFacts, Next
    PROVE  ClientFacts'
PROOF
  <1>1. CASE HandleConnect
    BY <1>1, OpenFlowClient, RefuseFlowClient DEF HandleConnect
  <1>2. CASE HandleActions
    BY <1>2, ActionsClient
  <1>3. CASE HostCommand \/ Exit \/ Tick
    BY <1>3, CalmClient
  <1>4. CASE FinishExit \/ Abandon
    BY <1>4, ExitClient
  <1>5. ASSUME NEW d \in Peer, HandleInbound(d) \/ Sweep(d) \/ Stranger(d)
        PROVE  ClientFacts'
    BY <1>5, MessageClient, RefuseMessageClient, EndsFlowClient, StrangerClient DEF HandleInbound
  <1>6. CASE RoomHandle \/ RoomTransition
    BY <1>6, RoomClient
  <1>7. CASE AcceptConnection
    BY <1>7, AcceptClient
  <1>8. ASSUME NEW c \in Honest, \/ ClientReceive(c) \/ ClientSubmit(c) \/ ClientTalk(c)
                                 \/ ClientEnds(c, "Lost") \/ ClientEnds(c, "Own")
        PROVE  ClientFacts'
    BY <1>8, ClientReceiveClient, ClientSubmitClient, ClientTalkClient, ClientEndsClient
  <1> QED BY <1>1, <1>2, <1>3, <1>4, <1>5, <1>6, <1>7, <1>8 DEF Next

\* A stuttering step preserves the conversation.
LEMMA ClientStutter ==
    ASSUME ClientFacts, UNCHANGED supVars
    PROVE  ClientFacts'
PROOF
  <1>1. /\ UNCHANGED <<role, closed>>
        /\ UNCHANGED <<events, actions, nextId, peers, connects, inbound, down, flows, phase, clients, overtaken, mishap>>
    BY DEF supVars, gateVars, hostVars
  <1>2. LinkTypes' /\ Bounds'
    BY <1>1 DEF ClientFacts, LinkTypes, Bounds
  <1>3. ASSUME NEW c \in Honest
        PROVE  Reader(c)' /\ ((Live(c))' => Talks(c)')
    <2>1. Reader(c) /\ (Live(c) => Talks(c))
      BY DEF ClientFacts
    <2>2. Reader(c)'
      BY <1>1, <2>1 DEF Reader, Running, Excused
    <2>3. Conversation(c) => Conversation(c)'
      BY <1>1 DEF Conversation, Exchange, Waiting
    <2>4. Speech(c) => Speech(c)'
      BY <1>1 DEF Speech, Says, Inside, Decided
    <2>5. Standing(c) => Standing(c)'
      BY <1>1 DEF Standing, Inside, Decided, Pending, Accepted
    <2>6. Procession(c) => Procession(c)'
      BY <1>1 DEF Procession, Pending, Early
    <2>7. Known(c) => Known(c)'
      BY <1>1, <2>5, <2>6 DEF Known, Closing
    <2> QED BY <1>1, <2>1, <2>2, <2>3, <2>4, <2>7 DEF Talks, Live
  <1> QED BY <1>2, <1>3 DEF ClientFacts

\* The inductive invariant: what a live client and its flow have said to each
\* other, the room's record of it and the batches on their way to it agree.
THEOREM ClientInvariant == SupSpec => []ClientInv
PROOF
  <1>1. Init => ClientInv
    BY SupInit, ClientInit DEF ClientInv
  <1>2. ClientInv /\ [Next]_supVars => ClientInv'
    <2>1. ASSUME ClientInv, Next
          PROVE  ClientInv'
      BY <2>1, SupStep, ClientStep DEF ClientInv
    <2>2. ASSUME ClientInv, UNCHANGED supVars
          PROVE  ClientInv'
      BY <2>2, SupStutter, ClientStutter DEF ClientInv
    <2> QED BY <2>1, <2>2
  <1> QED BY <1>1, <1>2, PTL DEF SupSpec

\* A participant that runs the program never meets a message it does not expect
\* (handle_host_message). It is refused as a violator only by the supervisor,
\* and only when its first frame was served before the connect of its own
\* connection was read (the two branches of the select loop); the room's
\* PROTOCOL_VIOLATION meets it only when the room dropped an event of it during a
\* key transition or refused it for a reason of its own. This holds whatever the
\* other connections send, and however the loop, the room and the sockets
\* interleave.  The first exception does happen, in three steps.
THEOREM CauseTheorem == SupSpec => []RefusedOnlyForCause
PROOF
  <1>1. ASSUME ClientInv
        PROVE  RefusedOnlyForCause
    <2>1. ASSUME NEW c \in Honest, clients[c].stage = "Ended"
          PROVE  /\ clients[c].why # "Unexpected"
                 /\ clients[c].why = "ProtocolViolation" => c \in overtaken
                 /\ clients[c].why = "ByRoom" => c \in mishap
      BY <1>1, <2>1 DEF ClientInv, ClientFacts, Reader, Excused
    <2> QED BY <2>1 DEF RefusedOnlyForCause
  <1> QED BY <1>1, ClientInvariant, PTL
=============================================================================
