------------------------- MODULE RoomSessionProofs --------------------------
(***************************************************************************)
(* The room with its participants: wraps, signed events and relays reach a *)
(* participant in order and each relay meets its own key, and a member     *)
(* that sends the chat lines this program sends is never cut off, for any  *)
(* number of connections, any traffic and any interleaving of the links    *)
(* with the actor.                                                         *)
(***************************************************************************)
EXTENDS RoomSession, RoomKeyProofs

IsWrap(msg) == msg.type = "EpochWrap"
IsEvent(msg) == msg.type \in EventTypes
IsRelay(msg) == msg.type = "Relay"

(* What is on its way to a participant: the messages of its down link, and *)
(* behind them the events the actor holds back during a transition.        *)

\* Wraps: newer than `last`, none newer than `newest`, each newer than the one before.
WrapsWithin(q, last, newest) ==
    \A i \in DOMAIN q : IsWrap(q[i]) => last < q[i].epoch /\ q[i].epoch <= newest
WrapsOrdered(q) ==
    \A i, j \in DOMAIN q : i < j /\ IsWrap(q[i]) /\ IsWrap(q[j]) => q[i].epoch < q[j].epoch

\* The same of signed events and their sequence.
EventsWithin(q, last, newest) ==
    \A i \in DOMAIN q : IsEvent(q[i]) => last < q[i].sequence /\ q[i].sequence <= newest
EventsOrdered(q) ==
    \A i, j \in DOMAIN q : i < j /\ IsEvent(q[i]) /\ IsEvent(q[j])
                              => q[i].sequence < q[j].sequence
EventsPrecede(p, q) ==
    \A i \in DOMAIN p, j \in DOMAIN q : IsEvent(p[i]) /\ IsEvent(q[j])
                                           => p[i].sequence < q[j].sequence

\* A participant that has key e and handles q message by message meets each
\* relay while the relay's key is the last one it was given.
RelaysReadable(q, e) ==
    \A i \in DOMAIN q : IsRelay(q[i]) =>
        /\ e <= q[i].envelope.epoch
        /\ \A j \in 1..(i - 1) : IsWrap(q[j]) => q[j].epoch <= q[i].envelope.epoch
        /\ \/ q[i].envelope.epoch = e
           \/ \E j \in 1..(i - 1) : IsWrap(q[j]) /\ q[j].epoch = q[i].envelope.epoch

\* The newest key is installed or on its way.
Reaches(q, e) == \E i \in DOMAIN q : IsWrap(q[i]) /\ q[i].epoch = e

\* A participant that has key k and event s, with q on its way and h held back
\* behind it, while the room is at epoch e and event r.
OnCourse(q, h, k, s, e, r) ==
    /\ k <= e /\ s <= r
    /\ WrapsWithin(q, k, e) /\ WrapsOrdered(q)
    /\ EventsWithin(q, s, r) /\ EventsOrdered(q)
    /\ EventsWithin(h, s, r) /\ EventsOrdered(h)
    /\ EventsPrecede(q, h)
    /\ RelaysReadable(q, k)

Path(c) == OnCourse(down[c], pendingMembership[c], session[c].epoch,
                    session[c].lastRoomSequence, epoch, roomSequence)

\* A member that is there has the newest key, or it is on its way.
Served(c) == Live(c) => session[c].epoch = epoch \/ Reaches(down[c], epoch)
UpToDate == \A m \in DOMAIN members : Served(members[m].connection)

\* Events are held back only during a transition.
HeldBack == AtRest => pendingMembership = Silence

\* What participants send.
Notice == [type : {"TimeoutRequestAccepted", "TimeoutRebroadcast"}, seconds : Nat]
Downward == {msg \in Message : IsRelay(msg) => msg.envelope \in AnyEnvelope} \cup Notice
Upward ==
    [type : {"PasswordVerified", "Lost"}]
    \cup [type : {"JoinRequested"}, application : Applications]
    \cup [type : {"EpochAck"}, epoch : Nat]
    \cup [type : {"Chat"}, envelope : AnyEnvelope]

SessionRecord ==
    [status : {"absent", "applying", "member", "closed"}, id : Nat, epoch : Nat,
     table : SUBSET View, lastRoomSequence : Nat, senderSequence : Nat,
     replay : UNION {[S -> Nat] : S \in SUBSET Nat}, timeout : Nat]

SessionTypeOK ==
    /\ session \in [Conn -> SessionRecord]
    /\ up \in [Conn -> Seq(Upward)]
    /\ down \in [Conn -> Seq(Downward)]
    /\ nested \in BOOLEAN

\* A link carries nothing before its connection exists and nothing down to a
\* session that is over; acknowledgements name epochs that have begun; the
\* host participant only acknowledges and sends messages.
Link(c) ==
    /\ c >= nextConn => ~ Live(c) /\ up[c] = <<>>
    /\ ~ Live(c) => down[c] = <<>>
    /\ \A i \in DOMAIN up[c] :
          /\ up[c][i].type = "EpochAck" => up[c][i].epoch \in 1..epoch
          /\ c = HostConnection => up[c][i].type \in {"EpochAck", "Chat"}

PathInv ==
    /\ KeyInv
    /\ SessionTypeOK
    /\ \A c \in Conn : Link(c)
    /\ HeldBack
    /\ UpToDate
    /\ \A c \in Conn : Path(c)

-----------------------------------------------------------------------------
(* Sequences *)

\* Appending keeps both parts, in order.
LEMMA Concat ==
    ASSUME NEW S, NEW p \in Seq(S), NEW q \in Seq(S)
    PROVE  /\ p \o q \in Seq(S)
           /\ Len(p) \in Nat /\ DOMAIN p = 1..Len(p) /\ DOMAIN q = 1..Len(q)
           /\ DOMAIN (p \o q) = 1..(Len(p) + Len(q)) /\ Len(q) \in Nat
           /\ \A i \in DOMAIN p : i \in Nat /\ i \in DOMAIN (p \o q) /\ (p \o q)[i] = p[i]
           /\ \A i \in DOMAIN q : /\ i \in Nat /\ Len(p) + i \in DOMAIN (p \o q)
                                  /\ (p \o q)[Len(p) + i] = q[i]
           /\ \A i \in DOMAIN (p \o q) :
                 \/ i \in DOMAIN p
                 \/ i - Len(p) \in DOMAIN q /\ (p \o q)[i] = q[i - Len(p)] /\ i > Len(p)
  OBVIOUS

\* What is left when the head is taken.
LEMMA Rest ==
    ASSUME NEW S, NEW q \in Seq(S), q # <<>>
    PROVE  /\ Tail(q) \in Seq(S) /\ Head(q) = q[1] /\ 1 \in DOMAIN q
           /\ Len(q) \in Nat /\ DOMAIN q = 1..Len(q) /\ DOMAIN Tail(q) = 1..(Len(q) - 1)
           /\ \A i \in DOMAIN Tail(q) : i \in Nat /\ i + 1 \in DOMAIN q /\ Tail(q)[i] = q[i + 1]
           /\ \A i \in DOMAIN q : i = 1 \/ (i - 1 \in DOMAIN Tail(q) /\ Tail(q)[i - 1] = q[i])
  OBVIOUS

\* The fields the order of the messages rests on.
LEMMA DownwardFields ==
    ASSUME NEW msg \in Downward
    PROVE  /\ IsWrap(msg) => msg.epoch \in Nat /\ ~ IsEvent(msg) /\ ~ IsRelay(msg)
           /\ IsEvent(msg) => msg.sequence \in Nat /\ ~ IsRelay(msg)
           /\ IsRelay(msg) => msg.envelope \in AnyEnvelope /\ msg.envelope.epoch \in Nat
  BY DEF Downward, Message, RoomEvent, Notice, AnyEnvelope, Envelope,
         IsWrap, IsEvent, IsRelay, EventTypes

\* What an item on the way to a participant is: a wrap, a room event, or a
\* relayed message, never two of them.
LEMMA DownwardSeq ==
    ASSUME NEW q \in Seq(Downward), NEW i \in DOMAIN q
    PROVE  /\ IsWrap(q[i]) => q[i].epoch \in Nat /\ ~ IsEvent(q[i]) /\ ~ IsRelay(q[i])
           /\ IsEvent(q[i]) => q[i].sequence \in Nat /\ ~ IsRelay(q[i])
           /\ IsRelay(q[i]) => q[i].envelope \in AnyEnvelope /\ q[i].envelope.epoch \in Nat
  <1>1. q[i] \in Downward
    OBVIOUS
  <1>. QED  BY <1>1, DownwardFields

-----------------------------------------------------------------------------
(* Paths: what appending to one and taking its head preserve *)

\* Wraps newer than all that are on their way keep the order.
LEMMA WrapsAppend ==
    ASSUME NEW q \in Seq(Downward), NEW a \in Seq(Downward),
           NEW last \in Nat, NEW old \in Nat, NEW newest \in Nat, last <= old, old <= newest,
           WrapsWithin(q, last, old), WrapsOrdered(q),
           WrapsWithin(a, old, newest), WrapsOrdered(a)
    PROVE  WrapsWithin(q \o a, last, newest) /\ WrapsOrdered(q \o a)
  <1>0. /\ Len(q) \in Nat /\ DOMAIN q = 1..Len(q) /\ DOMAIN a = 1..Len(a) /\ Len(a) \in Nat
        /\ DOMAIN (q \o a) = 1..(Len(q) + Len(a))
        /\ \A i \in DOMAIN q : (q \o a)[i] = q[i]
        /\ \A i \in DOMAIN (q \o a) :
              \/ i \in DOMAIN q
              \/ i - Len(q) \in DOMAIN a /\ (q \o a)[i] = a[i - Len(q)] /\ i > Len(q)
    BY Concat
  <1>1. \A i \in DOMAIN q : IsWrap(q[i]) => q[i].epoch \in Nat
    BY DownwardSeq
  <1>2. \A i \in DOMAIN a : IsWrap(a[i]) => a[i].epoch \in Nat
    BY DownwardSeq
  <1>3. WrapsWithin(q \o a, last, newest)
    BY <1>1, <1>2, <1>0 DEF WrapsWithin
  <1>4. WrapsOrdered(q \o a)
    <2>. SUFFICES ASSUME NEW i \in DOMAIN (q \o a), NEW j \in DOMAIN (q \o a), i < j,
                         IsWrap((q \o a)[i]), IsWrap((q \o a)[j])
                  PROVE  (q \o a)[i].epoch < (q \o a)[j].epoch
      BY DEF WrapsOrdered
    <2>1. CASE i \in DOMAIN q /\ j \in DOMAIN q
      BY <2>1, <1>0 DEF WrapsOrdered
    <2>2. CASE i \in DOMAIN q /\ j \notin DOMAIN q
      BY <2>2, <1>1, <1>2, <1>0 DEF WrapsWithin
    <2>3. CASE i \notin DOMAIN q
      BY <2>3, <1>0 DEF WrapsOrdered
    <2>. QED  BY <2>1, <2>2, <2>3
  <1>. QED  BY <1>3, <1>4

\* Events that follow those on their way keep the order.
LEMMA EventsAppend ==
    ASSUME NEW q \in Seq(Downward), NEW a \in Seq(Downward),
           EventsOrdered(q), EventsOrdered(a), EventsPrecede(q, a)
    PROVE  EventsOrdered(q \o a)
  <1>0. /\ Len(q) \in Nat /\ DOMAIN q = 1..Len(q) /\ DOMAIN a = 1..Len(a) /\ Len(a) \in Nat
        /\ DOMAIN (q \o a) = 1..(Len(q) + Len(a))
        /\ \A i \in DOMAIN q : (q \o a)[i] = q[i]
        /\ \A i \in DOMAIN (q \o a) :
              \/ i \in DOMAIN q
              \/ i - Len(q) \in DOMAIN a /\ (q \o a)[i] = a[i - Len(q)] /\ i > Len(q)
    BY Concat
  <1>. SUFFICES ASSUME NEW i \in DOMAIN (q \o a), NEW j \in DOMAIN (q \o a), i < j,
                       IsEvent((q \o a)[i]), IsEvent((q \o a)[j])
                PROVE  (q \o a)[i].sequence < (q \o a)[j].sequence
    BY DEF EventsOrdered
  <1>1. CASE i \in DOMAIN q /\ j \in DOMAIN q
    BY <1>1, <1>0 DEF EventsOrdered
  <1>2. CASE i \in DOMAIN q /\ j \notin DOMAIN q
    BY <1>2, <1>0 DEF EventsPrecede
  <1>3. CASE i \notin DOMAIN q
    BY <1>3, <1>0 DEF EventsOrdered
  <1>. QED  BY <1>1, <1>2, <1>3

\* Room events within a range stay so when two runs of them are joined.
LEMMA EventsWithinAppend ==
    ASSUME NEW q \in Seq(Downward), NEW a \in Seq(Downward), NEW last, NEW newest,
           EventsWithin(q, last, newest), EventsWithin(a, last, newest)
    PROVE  EventsWithin(q \o a, last, newest)
  BY Concat DEF EventsWithin

\* Room events before a number stay so when two runs of them are joined.
LEMMA EventsPrecedeAppend ==
    ASSUME NEW q \in Seq(Downward), NEW a \in Seq(Downward), NEW h,
           EventsPrecede(q, h), EventsPrecede(a, h)
    PROVE  EventsPrecede(q \o a, h)
  BY Concat DEF EventsPrecede

\* A relay of the newest key may follow when that key is installed or on its
\* way; anything else may always follow.
LEMMA RelaysAppend ==
    ASSUME NEW q \in Seq(Downward), NEW a \in Seq(Downward), NEW e \in Nat, NEW newest \in Nat,
           e <= newest, RelaysReadable(q, e), WrapsWithin(q, e, newest),
           \A i \in DOMAIN a : IsRelay(a[i]) =>
              /\ a[i].envelope.epoch = newest
              /\ e = newest \/ Reaches(q, newest)
              /\ \A j \in DOMAIN a : ~ IsWrap(a[j])
    PROVE  RelaysReadable(q \o a, e)
  <1>0. /\ Len(q) \in Nat /\ DOMAIN q = 1..Len(q) /\ DOMAIN a = 1..Len(a) /\ Len(a) \in Nat
        /\ DOMAIN (q \o a) = 1..(Len(q) + Len(a))
        /\ \A i \in DOMAIN q : (q \o a)[i] = q[i]
        /\ \A i \in DOMAIN (q \o a) :
              \/ i \in DOMAIN q
              \/ i - Len(q) \in DOMAIN a /\ (q \o a)[i] = a[i - Len(q)] /\ i > Len(q)
    BY Concat
  <1>. SUFFICES ASSUME NEW i \in DOMAIN (q \o a), IsRelay((q \o a)[i])
                PROVE  /\ e <= (q \o a)[i].envelope.epoch
                       /\ \A j \in 1..(i - 1) : IsWrap((q \o a)[j])
                                => (q \o a)[j].epoch <= (q \o a)[i].envelope.epoch
                       /\ \/ (q \o a)[i].envelope.epoch = e
                          \/ \E j \in 1..(i - 1) :
                                IsWrap((q \o a)[j]) /\ (q \o a)[j].epoch = (q \o a)[i].envelope.epoch
    BY DEF RelaysReadable
  <1>1. CASE i \in DOMAIN q
    <2>1. (q \o a)[i] = q[i] /\ \A j \in 1..(i - 1) : j \in DOMAIN q /\ (q \o a)[j] = q[j]
      BY <1>1, <1>0
    <2>. QED  BY <1>1, <2>1 DEF RelaysReadable
  <1>2. CASE i \notin DOMAIN q
    <2>1. PICK k \in DOMAIN a : (q \o a)[i] = a[k] /\ i > Len(q) /\ i \in Nat
      BY <1>2, <1>0
    <2>2. a[k].envelope.epoch = newest /\ (e = newest \/ Reaches(q, newest))
          /\ \A j \in DOMAIN a : ~ IsWrap(a[j])
      <3>1. IsRelay(a[k])
        BY <2>1 DEF IsRelay
      <3>. QED  BY <3>1, Zenon
    <2>3. \A j \in 1..(i - 1) : IsWrap((q \o a)[j]) => j \in DOMAIN q /\ (q \o a)[j] = q[j]
      <3>. SUFFICES ASSUME NEW j \in 1..(i - 1), IsWrap((q \o a)[j])
                    PROVE  j \in DOMAIN q /\ (q \o a)[j] = q[j]
        OBVIOUS
      <3>1. j \in DOMAIN (q \o a)
        BY <2>1, <1>0
      <3>2. \/ j \in DOMAIN q
            \/ (q \o a)[j] = a[j - Len(q)] /\ j - Len(q) \in DOMAIN a
        BY <3>1, <1>0
      <3>3. CASE (q \o a)[j] = a[j - Len(q)] /\ j - Len(q) \in DOMAIN a
        BY <2>2, <3>3 DEF IsWrap
      <3>. QED  BY <3>2, <3>3, <1>0
    <2>4. \A j \in 1..(i - 1) : IsWrap((q \o a)[j]) => (q \o a)[j].epoch <= newest
      BY <2>3 DEF WrapsWithin
    <2>5. Reaches(q, newest) => \E j \in 1..(i - 1) : IsWrap((q \o a)[j]) /\ (q \o a)[j].epoch = newest
      <3>. SUFFICES ASSUME NEW j \in DOMAIN q, IsWrap(q[j]), q[j].epoch = newest
                    PROVE  j \in 1..(i - 1) /\ (q \o a)[j] = q[j]
        BY DEF Reaches
      <3>. QED  BY <2>1, <1>0
    <2>6. e <= newest /\ (q \o a)[i].envelope.epoch = newest
      BY <2>1, <2>2
    <2>. QED  BY <2>2, <2>4, <2>5, <2>6
  <1>. QED  BY <1>1, <1>2

\* Taking the head of a path, and installing it when it is a wrap.
LEMMA WrapsTake ==
    ASSUME NEW q \in Seq(Downward), q # <<>>, NEW last \in Nat, NEW newest \in Nat,
           WrapsWithin(q, last, newest), WrapsOrdered(q)
    PROVE  /\ WrapsWithin(Tail(q), last, newest) /\ WrapsOrdered(Tail(q))
           /\ IsWrap(q[1]) => WrapsWithin(Tail(q), q[1].epoch, newest)
  <1>0. /\ 1 \in DOMAIN q /\ DOMAIN Tail(q) = 1..(Len(q) - 1) /\ DOMAIN q = 1..Len(q) /\ Len(q) \in Nat
        /\ \A i \in DOMAIN Tail(q) : i \in Nat /\ i + 1 \in DOMAIN q /\ Tail(q)[i] = q[i + 1]
        /\ \A i \in DOMAIN q : i = 1 \/ (i - 1 \in DOMAIN Tail(q) /\ Tail(q)[i - 1] = q[i])
    BY Rest
  <1>1. WrapsWithin(Tail(q), last, newest)
    BY <1>0 DEF WrapsWithin
  <1>2. WrapsOrdered(Tail(q))
    BY <1>0 DEF WrapsOrdered
  <1>3. ASSUME IsWrap(q[1])
        PROVE  WrapsWithin(Tail(q), q[1].epoch, newest)
    BY <1>0, <1>1, <1>3 DEF WrapsWithin, WrapsOrdered
  <1>. QED  BY <1>1, <1>2, <1>3

\* The same when it is an event: also what is still held back is newer.
LEMMA EventsTake ==
    ASSUME NEW q \in Seq(Downward), q # <<>>, NEW last, NEW newest, NEW h,
           EventsWithin(q, last, newest), EventsOrdered(q),
           EventsWithin(h, last, newest), EventsPrecede(q, h)
    PROVE  /\ EventsWithin(Tail(q), last, newest) /\ EventsOrdered(Tail(q))
           /\ EventsPrecede(Tail(q), h)
           /\ IsEvent(q[1]) => /\ EventsWithin(Tail(q), q[1].sequence, newest)
                               /\ EventsWithin(h, q[1].sequence, newest)
  <1>0. /\ 1 \in DOMAIN q /\ DOMAIN Tail(q) = 1..(Len(q) - 1) /\ DOMAIN q = 1..Len(q) /\ Len(q) \in Nat
        /\ \A i \in DOMAIN Tail(q) : i \in Nat /\ i + 1 \in DOMAIN q /\ Tail(q)[i] = q[i + 1]
        /\ \A i \in DOMAIN q : i = 1 \/ (i - 1 \in DOMAIN Tail(q) /\ Tail(q)[i - 1] = q[i])
    BY Rest
  <1>1. EventsWithin(Tail(q), last, newest)
    BY <1>0 DEF EventsWithin
  <1>2. EventsOrdered(Tail(q))
    BY <1>0 DEF EventsOrdered
  <1>3. EventsPrecede(Tail(q), h)
    BY <1>0 DEF EventsPrecede
  <1>4. ASSUME IsEvent(q[1])
        PROVE  EventsWithin(Tail(q), q[1].sequence, newest)
    BY <1>0, <1>1, <1>4 DEF EventsWithin, EventsOrdered
  <1>5. ASSUME IsEvent(q[1])
        PROVE  EventsWithin(h, q[1].sequence, newest)
    BY <1>0, <1>5 DEF EventsWithin, EventsPrecede
  <1>. QED  BY <1>1, <1>2, <1>3, <1>4, <1>5

\* After the first item is read the relayed messages behind it are still
\* readable, under the wrapped epoch if the item was a wrap.
LEMMA RelaysTake ==
    ASSUME NEW q \in Seq(Downward), q # <<>>, NEW e \in Nat, NEW newest \in Nat,
           WrapsWithin(q, e, newest), RelaysReadable(q, e)
    PROVE  /\ IsWrap(q[1]) => RelaysReadable(Tail(q), q[1].epoch)
           /\ ~ IsWrap(q[1]) => RelaysReadable(Tail(q), e)
  <1>0. /\ 1 \in DOMAIN q /\ DOMAIN Tail(q) = 1..(Len(q) - 1) /\ DOMAIN q = 1..Len(q) /\ Len(q) \in Nat
        /\ \A i \in DOMAIN Tail(q) : i \in Nat /\ i + 1 \in DOMAIN q /\ Tail(q)[i] = q[i + 1]
        /\ \A i \in DOMAIN q : i = 1 \/ (i - 1 \in DOMAIN Tail(q) /\ Tail(q)[i - 1] = q[i])
    BY Rest
  <1>1. ASSUME NEW i \in DOMAIN Tail(q), IsRelay(Tail(q)[i])
        PROVE  LET r == q[i + 1].envelope.epoch IN
               /\ Tail(q)[i] = q[i + 1] /\ i \in Nat /\ r \in Nat
               /\ e <= r
               /\ \A j \in 1..i : IsWrap(q[j]) => q[j].epoch <= r
               /\ r = e \/ \E j \in 1..i : IsWrap(q[j]) /\ q[j].epoch = r
    <2>1. i \in Nat /\ i + 1 \in DOMAIN q /\ Tail(q)[i] = q[i + 1] /\ (i + 1) - 1 = i
      BY <1>0
    <2>2. IsRelay(q[i + 1])
      BY <1>1, <2>1
    <2>. QED  BY <2>1, <2>2, DownwardSeq DEF RelaysReadable
  <1>2. ASSUME NEW i \in DOMAIN Tail(q), NEW j \in 1..(i - 1)
        PROVE  Tail(q)[j] = q[j + 1] /\ j + 1 \in 1..i
    <2>1. j \in DOMAIN Tail(q)
      BY <1>0
    <2>. QED  BY <2>1, <1>0
  <1>3. ASSUME NEW i \in DOMAIN Tail(q), NEW j \in 1..i, j # 1
        PROVE  j - 1 \in 1..(i - 1) /\ Tail(q)[j - 1] = q[j]
    <2>1. j \in DOMAIN q
      BY <1>0
    <2>. QED  BY <1>3, <2>1, <1>0
  <1>4. ASSUME IsWrap(q[1])
        PROVE  RelaysReadable(Tail(q), q[1].epoch)
    <2>. SUFFICES ASSUME NEW i \in DOMAIN Tail(q), IsRelay(Tail(q)[i])
                  PROVE  LET r == Tail(q)[i].envelope.epoch IN
                         /\ q[1].epoch <= r
                         /\ \A j \in 1..(i - 1) : IsWrap(Tail(q)[j]) => Tail(q)[j].epoch <= r
                         /\ \/ r = q[1].epoch
                            \/ \E j \in 1..(i - 1) : IsWrap(Tail(q)[j]) /\ Tail(q)[j].epoch = r
      BY DEF RelaysReadable
    <2>. DEFINE r == q[i + 1].envelope.epoch
    <2>1. /\ Tail(q)[i] = q[i + 1] /\ i \in Nat /\ r \in Nat /\ e <= r
          /\ \A j \in 1..i : IsWrap(q[j]) => q[j].epoch <= r
          /\ r = e \/ \E j \in 1..i : IsWrap(q[j]) /\ q[j].epoch = r
      BY <1>1
    <2>. HIDE DEF r
    <2>2. 1 \in 1..i /\ q[1].epoch <= r /\ e < q[1].epoch /\ q[1].epoch \in Nat
      BY <1>0, <1>4, <2>1, DownwardSeq DEF WrapsWithin
    <2>3. \A j \in 1..(i - 1) : IsWrap(Tail(q)[j]) => Tail(q)[j].epoch <= r
      BY <1>2, <2>1
    <2>4. PICK j \in 1..i : IsWrap(q[j]) /\ q[j].epoch = r
      BY <2>1, <2>2
    <2>5. j # 1 => \E k \in 1..(i - 1) : IsWrap(Tail(q)[k]) /\ Tail(q)[k].epoch = r
      BY <1>3, <2>4
    <2>. QED  BY <2>1, <2>2, <2>3, <2>4, <2>5 DEF r
  <1>5. ASSUME ~ IsWrap(q[1])
        PROVE  RelaysReadable(Tail(q), e)
    <2>. SUFFICES ASSUME NEW i \in DOMAIN Tail(q), IsRelay(Tail(q)[i])
                  PROVE  LET r == Tail(q)[i].envelope.epoch IN
                         /\ e <= r
                         /\ \A j \in 1..(i - 1) : IsWrap(Tail(q)[j]) => Tail(q)[j].epoch <= r
                         /\ \/ r = e
                            \/ \E j \in 1..(i - 1) : IsWrap(Tail(q)[j]) /\ Tail(q)[j].epoch = r
      BY DEF RelaysReadable
    <2>. DEFINE r == q[i + 1].envelope.epoch
    <2>1. /\ Tail(q)[i] = q[i + 1] /\ e <= r
          /\ \A j \in 1..i : IsWrap(q[j]) => q[j].epoch <= r
          /\ r = e \/ \E j \in 1..i : IsWrap(q[j]) /\ q[j].epoch = r
      BY <1>1
    <2>. HIDE DEF r
    <2>2. \A j \in 1..(i - 1) : IsWrap(Tail(q)[j]) => Tail(q)[j].epoch <= r
      BY <1>2, <2>1
    <2>3. ASSUME NEW j \in 1..i, IsWrap(q[j]), q[j].epoch = r
          PROVE  \E k \in 1..(i - 1) : IsWrap(Tail(q)[k]) /\ Tail(q)[k].epoch = r
      <3>1. j # 1
        BY <1>5, <2>3
      <3>. QED  BY <1>3, <2>3, <3>1
    <2>. QED  BY <2>1, <2>2, <2>3 DEF r
  <1>. QED  BY <1>4, <1>5

\* A stream that reaches an epoch still does once its first item is read,
\* unless that item was the wrap itself.
LEMMA ReachesTake ==
    ASSUME NEW q \in Seq(Downward), q # <<>>, NEW e, Reaches(q, e)
    PROVE  Reaches(Tail(q), e) \/ (IsWrap(q[1]) /\ q[1].epoch = e)
  BY Rest DEF Reaches

\* A stream that reaches an epoch does so with anything before or behind it.
LEMMA ReachesAppend ==
    ASSUME NEW p \in Seq(Downward), NEW q \in Seq(Downward), NEW e
    PROVE  /\ Reaches(p, e) => Reaches(p \o q, e)
           /\ Reaches(q, e) => Reaches(p \o q, e)
  <1>1. /\ \A i \in DOMAIN p : i \in DOMAIN (p \o q) /\ (p \o q)[i] = p[i]
        /\ \A i \in DOMAIN q : Len(p) + i \in DOMAIN (p \o q) /\ (p \o q)[Len(p) + i] = q[i]
    BY Concat
  <1>. QED  BY <1>1 DEF Reaches

-----------------------------------------------------------------------------
(* What one step of the actor hands down *)

\* Neither keys nor events nor relays: errors, answers to applicants, shutdowns.
Mute(a) == \A i \in DOMAIN a : ~ IsWrap(a[i]) /\ ~ IsEvent(a[i]) /\ ~ IsRelay(a[i])

\* At most one wrap, of the key of epoch e, and otherwise mute.
Wrapping(a, e) ==
    /\ \A i \in DOMAIN a : ~ IsEvent(a[i]) /\ ~ IsRelay(a[i]) /\ (IsWrap(a[i]) => a[i].epoch = e)
    /\ \A i, j \in DOMAIN a : IsWrap(a[i]) /\ IsWrap(a[j]) => i = j

\* Events handed down, or held back, are those held back before and newer ones.
NewEvents(c, p) ==
    \A i \in DOMAIN p : IsEvent(p[i]) =>
        \/ \E j \in DOMAIN pendingMembership[c] : pendingMembership[c][j] = p[i]
        \/ roomSequence < p[i].sequence /\ p[i].sequence <= roomSequence'

NewRelays(c, a) ==
    \A i \in DOMAIN a : IsRelay(a[i]) =>
        /\ a[i].envelope.epoch = epoch
        /\ a[i].envelope \in AnyEnvelope
        /\ epoch' = epoch
        /\ c \in ConnectionsOf(members)
        /\ \A j \in DOMAIN a : ~ IsWrap(a[j])

\* The part a handed to connection c of one batch, and what stays held back.
Batch(c, a, h) ==
    /\ WrapsWithin(a, epoch, epoch') /\ WrapsOrdered(a)
    /\ EventsOrdered(a) /\ EventsOrdered(h) /\ EventsPrecede(a, h)
    /\ NewEvents(c, a) /\ NewEvents(c, h)
    /\ NewRelays(c, a)

\* Every member is one that stays, or is given the new key.
MembersServed ==
    \A m \in DOMAIN members' :
        \/ /\ epoch' = epoch /\ m \in DOMAIN members
           /\ members'[m].connection = members[m].connection
        \/ Reaches(outgoing'.send[members'[m].connection], epoch')

NoticesTyped ==
    \A n \in outgoing'.notices :
        n.type \in {"TimeoutRequestAccepted", "TimeoutRebroadcast"} => n \in Notice

Batches ==
    /\ epoch <= epoch' /\ roomSequence <= roomSequence'
    /\ \A c \in Conn : Batch(c, outgoing'.send[c], pendingMembership'[c])
    /\ MembersServed
    /\ HeldBack'
    /\ NoticesTyped

\* What is known of the events held back.
HeldEvents ==
    \A c \in Conn : /\ EventsOrdered(pendingMembership[c])
                    /\ EventsWithin(pendingMembership[c], 0, roomSequence)

ActorInv == KeyInv /\ HeldBack /\ HeldEvents

\* The parts of the actor's invariant the session's proofs use.
LEMMA ActorTypes ==
    ASSUME ActorInv
    PROVE  /\ TypeOK /\ epoch \in Nat /\ roomSequence \in Nat
           /\ pendingMembership \in [Conn -> Seq(RoomEvent)]
           /\ \A m \in DOMAIN members : members[m].connection \in Conn
  BY EntryTypes DEF ActorInv, KeyInv, TablesInv, TypeOK

\* A queue of room events holds neither wraps nor relayed messages.
LEMMA EventSeq ==
    ASSUME NEW q \in Seq(RoomEvent)
    PROVE  /\ q \in Seq(Downward)
           /\ \A i \in DOMAIN q : IsEvent(q[i]) /\ ~ IsWrap(q[i]) /\ ~ IsRelay(q[i]) /\ q[i].sequence \in Nat
  <1>1. \A msg \in RoomEvent : msg \in Downward /\ IsEvent(msg) /\ ~ IsWrap(msg) /\ ~ IsRelay(msg) /\ msg.sequence \in Nat
    BY DEF RoomEvent, Downward, Message, IsEvent, IsWrap, IsRelay, EventTypes
  <1>. QED  BY <1>1

\* A mute part is a batch of any step that holds the same events back.
LEMMA MuteBatch ==
    ASSUME ActorInv, NEW c \in Conn, NEW a, Mute(a), epoch' \in Nat,
           NEW h, h = pendingMembership[c]
    PROVE  Batch(c, a, h)
  BY DEF Batch, Mute, WrapsWithin, WrapsOrdered, EventsOrdered, EventsPrecede, NewEvents,
         NewRelays, ActorInv, HeldEvents

\* The messages the actor has for one connection.
LEMMA MuteMessages ==
    /\ Mute(<<>>)
    /\ \A code : Mute(<<Error(code)>>)
    /\ \A m : Mute(<<JoinAccepted(m)>>)
    /\ Mute(<<JoinRejected>>) /\ Mute(<<Shutdown>>)
  BY DEF Mute, IsWrap, IsEvent, IsRelay, EventTypes, Error, JoinAccepted, JoinRejected, Shutdown

\* Sending a message that is neither wrap, event nor relay leaves every batch
\* mute.
LEMMA MuteSends ==
    ASSUME NEW c \in Conn
    PROVE  /\ Mute(Silence[c])
           /\ \A d, msg : Mute(<<msg>>) => Mute(SendTo(d, msg)[c])
           /\ \A C, msg : Mute(<<msg>>) => Mute(SendAll(C, msg)[c])
  <1>1. Silence[c] = <<>>
    BY DEF Silence
  <1>2. \A d, msg : SendTo(d, msg)[c] \in {<<>>, <<msg>>}
    BY DEF SendTo, Silence
  <1>3. \A C, msg : SendAll(C, msg)[c] \in {<<>>, <<msg>>}
    BY DEF SendAll
  <1>. QED  BY <1>1, <1>2, <1>3, MuteMessages

\* Wraps, and wraps with something mute before or after them.
LEMMA WrapSends ==
    ASSUME NEW c \in Conn, NEW ms
    PROVE  /\ Wrapping(Wraps(ms)[c], epoch + 1)
           /\ c \in ConnectionsOf(ms) => Reaches(Wraps(ms)[c], epoch + 1)
  <1>1. Wraps(ms)[c] = IF c \in ConnectionsOf(ms) THEN <<EpochWrap(epoch + 1)>> ELSE <<>>
    BY DEF Wraps, SendAll
  <1>2. Wrapping(<<>>, epoch + 1)
    BY DEF Wrapping
  <1>3. Wrapping(<<EpochWrap(epoch + 1)>>, epoch + 1) /\ Reaches(<<EpochWrap(epoch + 1)>>, epoch + 1)
    BY DEF Wrapping, Reaches, EpochWrap, IsWrap, IsEvent, IsRelay, EventTypes
  <1>. QED  BY <1>1, <1>2, <1>3

\* A batch of wraps keeps its last epoch when mute messages are put around it.
LEMMA WrapThen ==
    ASSUME NEW S, NEW a \in Seq(S), NEW w \in Seq(S), NEW e, Mute(a), Wrapping(w, e)
    PROVE  /\ Wrapping(a \o w, e) /\ Wrapping(w \o a, e)
           /\ Reaches(w, e) => Reaches(a \o w, e) /\ Reaches(w \o a, e)
  <1>1. /\ Len(a) \in Nat /\ DOMAIN w = 1..Len(w) /\ Len(w) \in Nat
        /\ \A i \in DOMAIN w : i \in Nat /\ Len(a) + i \in DOMAIN (a \o w)
                               /\ (a \o w)[Len(a) + i] = w[i]
        /\ \A i \in DOMAIN (a \o w) :
              \/ i \in DOMAIN a /\ (a \o w)[i] = a[i]
              \/ i - Len(a) \in DOMAIN w /\ (a \o w)[i] = w[i - Len(a)] /\ i \in Nat
    BY Concat
  <1>2. /\ \A i \in DOMAIN w : i \in DOMAIN (w \o a) /\ (w \o a)[i] = w[i]
        /\ \A i \in DOMAIN (w \o a) :
              \/ i \in DOMAIN w /\ (w \o a)[i] = w[i]
              \/ i - Len(w) \in DOMAIN a /\ (w \o a)[i] = a[i - Len(w)]
    BY Concat
  <1>. DEFINE Silent(msg) == ~ IsWrap(msg) /\ ~ IsEvent(msg) /\ ~ IsRelay(msg)
              Fine(msg) == ~ IsEvent(msg) /\ ~ IsRelay(msg) /\ (IsWrap(msg) => msg.epoch = e)
  <1>3. /\ \A i \in DOMAIN a : Silent(a[i])
        /\ \A i \in DOMAIN w : Fine(w[i])
        /\ \A i, j \in DOMAIN w : IsWrap(w[i]) /\ IsWrap(w[j]) => i = j
    BY DEF Mute, Wrapping
  <1>4. \A msg : Silent(msg) => Fine(msg) /\ ~ IsWrap(msg)
    OBVIOUS
  <1>. HIDE DEF Silent, Fine
  <1>5. Wrapping(a \o w, e)
    <2>1. \A i \in DOMAIN (a \o w) : Fine((a \o w)[i])
      BY <1>1, <1>3, <1>4
    <2>2. \A i \in DOMAIN (a \o w) : IsWrap((a \o w)[i])
              => i - Len(a) \in DOMAIN w /\ (a \o w)[i] = w[i - Len(a)] /\ i \in Nat
      BY <1>1, <1>3, <1>4
    <2>3. ASSUME NEW i \in DOMAIN (a \o w), NEW j \in DOMAIN (a \o w),
                 IsWrap((a \o w)[i]), IsWrap((a \o w)[j])
          PROVE  i = j
      <3>1. /\ i - Len(a) \in DOMAIN w /\ IsWrap(w[i - Len(a)]) /\ i \in Nat
            /\ j - Len(a) \in DOMAIN w /\ IsWrap(w[j - Len(a)]) /\ j \in Nat
        BY <2>2, <2>3
      <3>2. i - Len(a) = j - Len(a)
        BY <3>1, <1>3
      <3>. QED  BY <3>1, <3>2, <1>1
    <2>. QED  BY <2>1, <2>3 DEF Wrapping, Fine
  <1>6. Wrapping(w \o a, e)
    <2>1. \A i \in DOMAIN (w \o a) : Fine((w \o a)[i])
      BY <1>2, <1>3, <1>4
    <2>2. \A i \in DOMAIN (w \o a) : IsWrap((w \o a)[i]) => i \in DOMAIN w /\ (w \o a)[i] = w[i]
      BY <1>2, <1>3, <1>4
    <2>. QED  BY <1>3, <2>1, <2>2 DEF Wrapping, Fine
  <1>7. Reaches(w, e) => Reaches(a \o w, e) /\ Reaches(w \o a, e)
    <2>. SUFFICES ASSUME NEW i \in DOMAIN w, IsWrap(w[i]), w[i].epoch = e
                  PROVE  Reaches(a \o w, e) /\ Reaches(w \o a, e)
      BY DEF Reaches
    <2>1. Reaches(a \o w, e)
      BY <1>1 DEF Reaches
    <2>2. Reaches(w \o a, e)
      BY <1>2 DEF Reaches
    <2>. QED  BY <2>1, <2>2
  <1>. QED  BY <1>5, <1>6, <1>7

\* queue_member_gone numbers the departures one after the other.
LEMMA GoneOrder ==
    ASSUME NEW N \in Nat, NEW gone, \A x \in gone : x \in Nat /\ x <= N,
           NEW type \in {"MemberLeft", "MemberKicked"},
           NEW sequence \in Nat, NEW e \in Nat
    PROVE  /\ GoneEvents(gone, type, sequence, e) \in Seq(RoomEvent)
           /\ EventsOrdered(GoneEvents(gone, type, sequence, e))
           /\ Cardinality(gone) \in Nat
           /\ \A i \in DOMAIN GoneEvents(gone, type, sequence, e) :
                 LET s == GoneEvents(gone, type, sequence, e)[i].sequence IN
                 sequence < s /\ s <= sequence + Cardinality(gone)
  <1>1. Cardinality(gone) \in Nat /\ GoneEvents(gone, type, sequence, e) \in Seq(RoomEvent)
    BY GoneEventsType
  <1>2. /\ DOMAIN GoneEvents(gone, type, sequence, e) = 1..Cardinality(gone)
        /\ \A i \in 1..Cardinality(gone) :
              GoneEvents(gone, type, sequence, e)[i].sequence = sequence + i
    BY DEF GoneEvents
  <1>. QED  BY <1>1, <1>2 DEF EventsOrdered

\* Newer events queue up behind those held back.
LEMMA HoldBack ==
    ASSUME ActorInv, NEW c \in Conn, NEW new \in Seq(RoomEvent), EventsOrdered(new),
           \A i \in DOMAIN new : roomSequence < new[i].sequence /\ new[i].sequence <= roomSequence'
    PROVE  /\ EventsOrdered(pendingMembership[c] \o new)
           /\ NewEvents(c, pendingMembership[c] \o new)
  <1>. DEFINE p == pendingMembership[c]
  <1>1. /\ p \in Seq(Downward) /\ new \in Seq(Downward) /\ roomSequence \in Nat
        /\ \A i \in DOMAIN p : IsEvent(p[i]) /\ p[i].sequence \in Nat
        /\ \A i \in DOMAIN new : IsEvent(new[i]) /\ new[i].sequence \in Nat
    BY ActorTypes, EventSeq
  <1>2. /\ EventsOrdered(p)
        /\ \A i \in DOMAIN p : p[i].sequence <= roomSequence
    BY <1>1 DEF ActorInv, HeldEvents, EventsWithin
  <1>3. EventsPrecede(p, new)
    BY <1>1, <1>2 DEF EventsPrecede
  <1>4. EventsOrdered(p \o new)
    BY <1>1, <1>2, <1>3, EventsAppend
  <1>5. \A i \in DOMAIN (p \o new) :
           \/ i \in DOMAIN p /\ (p \o new)[i] = p[i]
           \/ i - Len(p) \in DOMAIN new /\ (p \o new)[i] = new[i - Len(p)]
    BY <1>1, Concat
  <1>6. NewEvents(c, p \o new)
    BY <1>5 DEF NewEvents
  <1>. QED  BY <1>4, <1>6

\* At rest nothing is held back; what is held back is a batch of itself.
LEMMA HeldAgain ==
    ASSUME ActorInv, NEW c \in Conn
    PROVE  /\ EventsOrdered(pendingMembership[c]) /\ NewEvents(c, pendingMembership[c])
           /\ EventsOrdered(<<>>) /\ NewEvents(c, <<>>)
  BY DEF ActorInv, HeldEvents, NewEvents, EventsOrdered

\* The new key, and what is held back until everybody has it.
LEMMA WrapBatch ==
    ASSUME ActorInv, NEW c \in Conn, NEW a \in Seq(Message), Wrapping(a, epoch + 1), epoch' = epoch + 1,
           NEW h, EventsOrdered(h), NewEvents(c, h)
    PROVE  Batch(c, a, h)
  <1>1. epoch \in Nat
    BY ActorTypes
  <1>2. \A i \in DOMAIN a : ~ IsEvent(a[i]) /\ ~ IsRelay(a[i]) /\ (IsWrap(a[i]) => a[i].epoch = epoch + 1)
    BY DEF Wrapping
  <1>3. \A i, j \in DOMAIN a : IsWrap(a[i]) /\ IsWrap(a[j]) => i = j
    BY DEF Wrapping
  <1>4. WrapsWithin(a, epoch, epoch')
    BY <1>1, <1>2 DEF WrapsWithin
  <1>5. WrapsOrdered(a)
    <2>1. \A i, j \in DOMAIN a : i < j => i # j
      OBVIOUS
    <2>. QED  BY <1>3, <2>1 DEF WrapsOrdered
  <1>6. EventsOrdered(a) /\ EventsPrecede(a, h) /\ NewEvents(c, a) /\ NewRelays(c, a)
    BY <1>2 DEF EventsOrdered, EventsPrecede, NewEvents, NewRelays
  <1>. QED  BY <1>4, <1>5, <1>6 DEF Batch

\* A step that hands down nothing that is ordered.
LEMMA MuteStep ==
    ASSUME ActorInv, UNCHANGED <<epoch, pendingMembership>>, AtRest' => AtRest,
           roomSequence <= roomSequence',
           DOMAIN members' = DOMAIN members,
           \A m \in DOMAIN members : members'[m].connection = members[m].connection,
           \A c \in Conn : Mute(outgoing'.send[c]), NoticesTyped
    PROVE  Batches
  <1>1. \A c \in Conn : Batch(c, outgoing'.send[c], pendingMembership'[c])
    BY MuteBatch, ActorTypes
  <1>2. epoch <= epoch'
    BY ActorTypes
  <1>3. HeldBack'
    BY DEF ActorInv, HeldBack
  <1>4. MembersServed
    BY DEF MembersServed
  <1>. QED  BY <1>1, <1>2, <1>3, <1>4 DEF Batches

\* A step that begins a transition.
LEMMA WrapStep ==
    ASSUME ActorInv, outgoing'.send \in [Conn -> Seq(Message)], epoch' = epoch + 1, state' = "EpochTransition",
           roomSequence <= roomSequence',
           \A c \in Conn : EventsOrdered(pendingMembership'[c]) /\ NewEvents(c, pendingMembership'[c]),
           \A c \in Conn : Wrapping(outgoing'.send[c], epoch + 1),
           \A c \in ConnectionsOf(members') : Reaches(outgoing'.send[c], epoch + 1),
           NoticesTyped
    PROVE  Batches
  <1>1. \A c \in Conn : Batch(c, outgoing'.send[c], pendingMembership'[c])
    BY WrapBatch
  <1>2. epoch <= epoch'
    BY ActorTypes
  <1>3. HeldBack'
    BY DEF HeldBack, AtRest
  <1>4. MembersServed
    BY DEF MembersServed, ConnectionsOf
  <1>. QED  BY <1>1, <1>2, <1>3, <1>4 DEF Batches

\* remove_member and the eviction.
LEMMA RemoveBatches ==
    ASSUME ActorInv, outgoing'.send \in [Conn -> Seq(Message)],
           NEW gone, gone \subseteq DOMAIN members, NEW lost,
           NEW type \in {"MemberLeft", "MemberKicked"}, RemoveMembers(gone, lost, type),
           \A c \in Conn : Wrapping(outgoing'.send[c], epoch + 1),
           \A c \in ConnectionsOf(members') : Reaches(outgoing'.send[c], epoch + 1),
           outgoing'.notices = {}
    PROVE  Batches
  <1>. DEFINE rest == Restrict(members, DOMAIN members \ gone)
              events == GoneEvents(gone, type, roomSequence + 1, epoch + 1)
  <1>1. /\ epoch' = epoch + 1 /\ state' = "EpochTransition"
        /\ roomSequence' = roomSequence + 1 + Cardinality(gone)
        /\ pendingMembership' = [c \in Conn |->
              IF c \in ConnectionsOf(rest) THEN pendingMembership[c] \o events
              ELSE pendingMembership[c]]
    BY DEF RemoveMembers, BeginEpochTransition
  <1>2. /\ nextMemberId \in Nat /\ roomSequence \in Nat /\ epoch + 1 \in Nat
        /\ \A x \in gone : x \in Nat /\ x <= nextMemberId
    BY ActorTypes DEF ActorInv, KeyInv, TablesInv, TypeOK, IdsIssued, IsMap
  <1>3. /\ events \in Seq(RoomEvent) /\ EventsOrdered(events) /\ Cardinality(gone) \in Nat
        /\ \A i \in DOMAIN events : /\ roomSequence + 1 < events[i].sequence
                                    /\ events[i].sequence <= roomSequence + 1 + Cardinality(gone)
    <2>1. roomSequence + 1 \in Nat
      BY <1>2
    <2>. QED  BY <1>2, <2>1, GoneOrder, Zenon
  <1>. HIDE DEF events, rest
  <1>4. \A i \in DOMAIN events : events[i].sequence \in Nat
    BY <1>3, EventSeq
  <1>5. /\ roomSequence <= roomSequence'
        /\ \A i \in DOMAIN events : /\ roomSequence < events[i].sequence
                                    /\ events[i].sequence <= roomSequence'
    BY <1>1, <1>2, <1>3, <1>4
  <1>6. ASSUME NEW c \in Conn
        PROVE  EventsOrdered(pendingMembership'[c]) /\ NewEvents(c, pendingMembership'[c])
    <2>1. \/ pendingMembership'[c] = pendingMembership[c]
          \/ pendingMembership'[c] = pendingMembership[c] \o events
      BY <1>1
    <2>. QED  BY <1>3, <1>5, <2>1, HoldBack, HeldAgain
  <1>7. NoticesTyped
    BY DEF NoticesTyped
  <1>. QED  BY <1>1, <1>5, <1>6, <1>7, WrapStep

\* The batches of a removal: the new key to everyone who stays, and something
\* mute before or after it.
LEMMA RemoveSends ==
    ASSUME ActorInv, NEW ms, NEW a \in [Conn -> Seq(Message)], \A c \in Conn : Mute(a[c]),
           NEW send \in {Wraps(ms), Then(a, Wraps(ms)), Then(Wraps(ms), a)}
    PROVE  /\ \A c \in Conn : Wrapping(send[c], epoch + 1)
           /\ \A c \in Conn \cap ConnectionsOf(ms) : Reaches(send[c], epoch + 1)
  <1>1. Wraps(ms) \in [Conn -> Seq(Message)]
    BY ActorTypes, WrapsType
  <1>2. \A c \in Conn : /\ Then(a, Wraps(ms))[c] = a[c] \o Wraps(ms)[c]
                        /\ Then(Wraps(ms), a)[c] = Wraps(ms)[c] \o a[c]
    BY DEF Then
  <1>3. ASSUME NEW c \in Conn
        PROVE  /\ Wrapping(send[c], epoch + 1)
               /\ c \in ConnectionsOf(ms) => Reaches(send[c], epoch + 1)
    <2>1. a[c] \in Seq(Message) /\ Wraps(ms)[c] \in Seq(Message) /\ Mute(a[c])
      BY <1>1
    <2>2. Wrapping(Wraps(ms)[c], epoch + 1)
          /\ (c \in ConnectionsOf(ms) => Reaches(Wraps(ms)[c], epoch + 1))
      BY WrapSends
    <2>3. /\ Wrapping(a[c] \o Wraps(ms)[c], epoch + 1) /\ Wrapping(Wraps(ms)[c] \o a[c], epoch + 1)
          /\ Reaches(Wraps(ms)[c], epoch + 1) =>
                /\ Reaches(a[c] \o Wraps(ms)[c], epoch + 1)
                /\ Reaches(Wraps(ms)[c] \o a[c], epoch + 1)
      BY <2>1, <2>2, WrapThen, Zenon
    <2>. QED  BY <1>2, <2>2, <2>3
  <1>. QED  BY <1>3

\* Both together: remove_member with what it sends.
LEMMA RemovalBatches ==
    ASSUME ActorInv, outgoing'.send \in [Conn -> Seq(Message)],
           NEW gone, gone \subseteq DOMAIN members, NEW lost,
           NEW type \in {"MemberLeft", "MemberKicked"}, RemoveMembers(gone, lost, type),
           NEW a \in [Conn -> Seq(Message)], \A c \in Conn : Mute(a[c]),
           outgoing'.send \in {WrapsWithout(gone), Then(a, WrapsWithout(gone)),
                               Then(WrapsWithout(gone), a)},
           outgoing'.notices = {}
    PROVE  Batches
  <1>1. WrapsWithout(gone) = Wraps(members')
    BY DEF WrapsWithout, RemoveMembers
  <1>2. ConnectionsOf(members') \subseteq Conn
    <2>1. members' = Restrict(members, DOMAIN members \ gone)
      BY DEF RemoveMembers
    <2>2. \A m \in DOMAIN members' : m \in DOMAIN members /\ members'[m] = members[m]
      BY <2>1 DEF Restrict
    <2>. QED  BY <2>2, ActorTypes DEF ConnectionsOf
  <1>3. /\ \A c \in Conn : Wrapping(outgoing'.send[c], epoch + 1)
        /\ \A c \in Conn \cap ConnectionsOf(members') : Reaches(outgoing'.send[c], epoch + 1)
    BY <1>1, RemoveSends
  <1>. QED  BY <1>2, <1>3, RemoveBatches

\* on_connection_lost, on its own or after an error reply.
LEMMA LoseBatches ==
    ASSUME ActorInv, TypeOK', NEW c, NEW a \in [Conn -> Seq(Message)], \A d \in Conn : Mute(a[d]),
           NEW close, LoseConnection(c, a, close)
    PROVE  Batches
  <1>. DEFINE gone == MemberOf(c) \cap DOMAIN members
  <1>1. outgoing'.send \in [Conn -> Seq(Message)]
    BY DEF TypeOK
  <1>2. CASE /\ RemoveMembers(gone, {c}, "MemberLeft")
             /\ Emit(Then(a, WrapsWithout(gone)), close, {})
    <2>1. gone \subseteq DOMAIN members
      OBVIOUS
    <2>. HIDE DEF gone
    <2>2. outgoing'.send = Then(a, WrapsWithout(gone)) /\ outgoing'.notices = {}
      BY <1>2 DEF Emit
    <2>. QED  BY <1>1, <1>2, <2>1, <2>2, RemovalBatches
  <1>3. CASE /\ Emit(a, close, {})
             /\ UNCHANGED <<state, members, rateLimits, roomSequence, pendingMembership, epochVars>>
    <2>1. outgoing'.send = a /\ outgoing'.notices = {}
      BY <1>3 DEF Emit
    <2>2. NoticesTyped
      BY <2>1 DEF NoticesTyped
    <2>3. roomSequence <= roomSequence' /\ UNCHANGED <<epoch, pendingMembership, members, state>>
      BY <1>3, ActorTypes DEF epochVars
    <2>. QED  BY <2>1, <2>2, <2>3, MuteStep DEF AtRest
  <1>. QED  BY <1>2, <1>3 DEF LoseConnection

\* A punished connection: an error to it, and a departure if it was a member.
LEMMA PunishBatches ==
    ASSUME ActorInv, TypeOK', NEW c \in Conn, NEW code \in {"RoomLocked", "RoomClosed",
           "ProtocolViolation", "RateLimited"}, Punish(c, code)
    PROVE  Batches
  <1>1. SendTo(c, Error(code)) \in [Conn -> Seq(Message)]
    BY MessageTypes, SendTypes
  <1>2. \A d \in Conn : Mute(SendTo(c, Error(code))[d])
    BY MuteSends, MuteMessages
  <1>. QED  BY <1>1, <1>2, LoseBatches DEF Punish

\* A step that leaves epoch, members and events alone and hands down one mute
\* message, or none.
LEMMA FrameBatches ==
    ASSUME ActorInv, NEW send, \A c \in Conn : Mute(send[c]),
           NEW close, NEW notices, Emit(send, close, notices),
           \A n \in notices : n.type \in {"TimeoutRequestAccepted", "TimeoutRebroadcast"} => n \in Notice,
           UNCHANGED <<epoch, pendingMembership>>, AtRest' => AtRest,
           roomSequence' \in {roomSequence, roomSequence + 1},
           members' = members
    PROVE  Batches
  <1>1. outgoing'.send = send /\ outgoing'.notices = notices
    BY DEF Emit
  <1>2. NoticesTyped
    BY <1>1 DEF NoticesTyped
  <1>3. roomSequence <= roomSequence'
    BY ActorTypes
  <1>. QED  BY <1>1, <1>2, <1>3, MuteStep

\* An event the actor ignores sends nothing.
LEMMA NoEffectBatches ==
    ASSUME ActorInv, NoEffect
    PROVE  Batches
  BY FrameBatches, MuteSends DEF NoEffect, epochVars, AtRest

\* Join requests, approvals and rejections.
LEMMA AdmissionBatches ==
    ASSUME ActorInv, TypeOK', AdmissionEvent
    PROVE  Batches
  <1>1. CASE ClientConnected
    BY <1>1, FrameBatches, MuteSends DEF ClientConnected, epochVars, AtRest
  <1>2. ASSUME NEW c \in Known, PasswordVerified(c)
        PROVE  Batches
    BY <1>2, FrameBatches, MuteSends DEF PasswordVerified, epochVars, AtRest
  <1>3. ASSUME NEW c \in Known, PasswordIgnored(c)
        PROVE  Batches
    BY <1>3, NoEffectBatches DEF PasswordIgnored
  <1>4. ASSUME NEW c \in Known, NEW app \in Applications, JoinRequested(c, app)
        PROVE  Batches
    BY <1>4, FrameBatches, MuteSends DEF JoinRequested, epochVars, AtRest
  <1>5. ASSUME NEW c \in Known, JoinRefused(c)
        PROVE  Batches
    <2>1. c \in Conn
      BY KnownConn, ActorTypes
    <2>2. JoinRefusal(c) \in {"RoomLocked", "RoomClosed", "ProtocolViolation", "RateLimited"}
      BY <1>5 DEF JoinRefused, JoinRefusal
    <2>. QED  BY <1>5, <2>1, <2>2, PunishBatches DEF JoinRefused
  <1>. QED  BY <1>1, <1>2, <1>3, <1>4, <1>5 DEF AdmissionEvent

\* on_accept: the newcomer is told of everybody, everybody of the newcomer,
\* once all of them have the new key.
LEMMA AcceptBatches ==
    ASSUME ActorInv, TypeOK', NEW r \in DOMAIN requests, AcceptJoin(r)
    PROVE  Batches
  <1>. DEFINE c  == requests[r].connection
              m  == nextMemberId
              ms == With(members, m, Member(c, requests[r].application, epoch + 1))
              joined   == [type |-> "MemberJoined", sequence |-> roomSequence + 1 + 1,
                           epoch |-> epoch + 1,
                           member |-> ViewOf(m, Member(c, requests[r].application, epoch + 1))]
              snapshot == [type |-> "MemberSnapshot", sequence |-> roomSequence + 1 + 2,
                           epoch |-> epoch + 1,
                           members |-> {ViewOf(x, ms[x]) : x \in DOMAIN ms}]
              new(d) == IF d = c THEN <<snapshot>>
                        ELSE IF d \in ConnectionsOf(members) THEN <<joined>> ELSE <<>>
  <1>1. /\ members' = ms /\ epoch' = epoch + 1 /\ state' = "EpochTransition"
        /\ roomSequence' = roomSequence + 1 + 2
        /\ pendingMembership' = [d \in Conn |-> pendingMembership[d] \o new(d)]
        /\ outgoing'.send = Then(SendTo(c, JoinAccepted(m)), Wraps(ms))
        /\ outgoing'.notices = {}
    BY Zenon DEF AcceptJoin, BeginEpochTransition, Emit
  <1>2. c \in Conn /\ m \in Nat /\ roomSequence \in Nat /\ epoch \in Nat
    BY EntryTypes, ActorTypes DEF TypeOK
  <1>3. joined \in RoomEvent /\ snapshot \in RoomEvent
    <2>1. IsMap(ms, Nat, MemberRecord) /\ m \in DOMAIN ms
          /\ ms[m] = Member(c, requests[r].application, epoch + 1)
      <3>1. IsMap(ms, Nat, MemberRecord)
        BY <1>1 DEF TypeOK
      <3>. QED  BY <3>1 DEF With
    <2>. DEFINE rec == Member(c, requests[r].application, epoch + 1)
    <2>. HIDE DEF ms, rec
    <2>2. \A x \in DOMAIN ms : ViewOf(x, ms[x]) \in View
      BY <2>1 DEF IsMap, ViewOf, View, MemberRecord
    <2>3. ViewOf(m, rec) \in View
      BY <2>1, <2>2 DEF rec
    <2>. HIDE DEF m
    <2>. QED  BY <1>2, <2>2, <2>3 DEF RoomEvent, rec
  <1>4. joined.sequence = roomSequence + 2 /\ snapshot.sequence = roomSequence + 3
    BY <1>2
  <1>. HIDE DEF joined, snapshot, ms, m, c
  <1>5. ASSUME NEW d \in Conn
        PROVE  EventsOrdered(pendingMembership'[d]) /\ NewEvents(d, pendingMembership'[d])
    <2>1. /\ new(d) \in Seq(RoomEvent) /\ EventsOrdered(new(d))
          /\ \A i \in DOMAIN new(d) :
                roomSequence < new(d)[i].sequence /\ new(d)[i].sequence <= roomSequence'
      BY <1>1, <1>2, <1>3, <1>4 DEF EventsOrdered
    <2>. QED  BY <1>1, <2>1, HoldBack
  <1>6. SendTo(c, JoinAccepted(m)) \in [Conn -> Seq(Message)]
        /\ \A d \in Conn : Mute(SendTo(c, JoinAccepted(m))[d])
    BY <1>2, MessageTypes, SendTypes, MuteSends, MuteMessages
  <1>7. ConnectionsOf(members') \subseteq Conn
    <2>1. \A x \in DOMAIN members' : members'[x].connection \in Conn
      BY DEF TypeOK, IsMap, MemberRecord
    <2>. QED  BY <2>1 DEF ConnectionsOf
  <1>8. /\ \A d \in Conn : Wrapping(outgoing'.send[d], epoch + 1)
        /\ \A d \in Conn \cap ConnectionsOf(members') : Reaches(outgoing'.send[d], epoch + 1)
    BY <1>1, <1>6, RemoveSends
  <1>9. NoticesTyped /\ outgoing'.send \in [Conn -> Seq(Message)]
    BY <1>1 DEF NoticesTyped, TypeOK
  <1>10. roomSequence <= roomSequence'
    BY <1>1, <1>2
  <1>. QED  BY <1>1, <1>5, <1>7, <1>8, <1>9, <1>10, WrapStep

\* JOIN_POLICY_CHANGED is signed and sent at once: nothing is held back then.
LEMMA PolicyBatches ==
    ASSUME ActorInv, NEW p, SetPolicy(p)
    PROVE  Batches
  <1>. DEFINE event == [type |-> "JoinPolicyChanged", sequence |-> roomSequence + 1,
                        epoch |-> epoch, open |-> p = "Open"]
  <1>1. /\ outgoing'.send = SendAll(ConnectionsOf(members) \ {HostConnection}, event)
        /\ outgoing'.notices = {[type |-> "JoinPolicyChanged", policy |-> p]}
        /\ UNCHANGED <<epoch, pendingMembership, members>> /\ AtRest
        /\ roomSequence' = roomSequence + 1
    BY DEF SetPolicy, Emit, epochVars
  <1>2. pendingMembership = Silence /\ roomSequence \in Nat /\ epoch \in Nat
    BY <1>1, ActorTypes DEF ActorInv, HeldBack
  <1>3. IsEvent(event) /\ ~ IsWrap(event) /\ ~ IsRelay(event) /\ event.sequence = roomSequence'
    BY <1>1 DEF IsEvent, IsWrap, IsRelay, EventTypes
  <1>. HIDE DEF event
  <1>4. ASSUME NEW c \in Conn
        PROVE  Batch(c, outgoing'.send[c], pendingMembership'[c])
    <2>1. pendingMembership'[c] = <<>> /\ outgoing'.send[c] \in {<<>>, <<event>>}
      BY <1>1, <1>2 DEF Silence, SendAll
    <2>2. \A i \in DOMAIN outgoing'.send[c] : i = 1 /\ outgoing'.send[c][i] = event
      BY <2>1
    <2>. DEFINE a == outgoing'.send[c]
    <2>. HIDE DEF a
    <2>3. \A i \in DOMAIN a : /\ i = 1 /\ ~ IsWrap(a[i]) /\ ~ IsRelay(a[i])
                              /\ roomSequence < a[i].sequence /\ a[i].sequence <= roomSequence'
      BY <1>1, <1>2, <1>3, <2>2 DEF a
    <2>4. WrapsWithin(a, epoch, epoch') /\ WrapsOrdered(a) /\ NewRelays(c, a)
      BY <2>3 DEF WrapsWithin, WrapsOrdered, NewRelays
    <2>5. EventsOrdered(a) /\ NewEvents(c, a) /\ EventsOrdered(<<>>) /\ NewEvents(c, <<>>)
          /\ EventsPrecede(a, <<>>)
      BY <2>3 DEF EventsOrdered, NewEvents, EventsPrecede
    <2>. QED  BY <2>1, <2>4, <2>5 DEF Batch, a
  <1>5. MembersServed /\ HeldBack'
    BY <1>1, <1>2 DEF MembersServed, HeldBack, Silence
  <1>6. NoticesTyped
    BY <1>1 DEF NoticesTyped
  <1>. QED  BY <1>1, <1>2, <1>4, <1>5, <1>6 DEF Batches

\* Closing the room.
LEMMA CloseBatches ==
    ASSUME ActorInv, CloseRoom
    PROVE  Batches
  <1>1. \A c \in Conn : Mute(SendAll(DOMAIN connections, Shutdown)[c])
    BY MuteSends, MuteMessages
  <1>2. /\ Emit(SendAll(DOMAIN connections, Shutdown), DOMAIN connections, {[type |-> "RoomClosed"]})
        /\ UNCHANGED <<epoch, pendingMembership, roomSequence, members>> /\ ~ AtRest'
    BY DEF CloseRoom, AtRest
  <1>3. \A n \in {[type |-> "RoomClosed"]} :
           n.type \in {"TimeoutRequestAccepted", "TimeoutRebroadcast"} => n \in Notice
    OBVIOUS
  <1>. QED  BY <1>1, <1>2, <1>3, FrameBatches

\* The host's own settings: lock, timeout, colour, message.
LEMMA HostBatches ==
    ASSUME ActorInv, TypeOK', HostEvent
    PROVE  Batches
  <1>1. ASSUME NEW r \in DOMAIN requests, AcceptJoin(r)
        PROVE  Batches
    BY <1>1, AcceptBatches
  <1>2. ASSUME NEW r \in DOMAIN requests, TurnAway(r)
        PROVE  Batches
    <2>1. \A c \in Conn : Mute(SendTo(requests[r].connection, JoinRejected)[c])
      BY MuteSends, MuteMessages
    <2>. QED  BY <1>2, <2>1, FrameBatches DEF TurnAway, epochVars, AtRest
  <1>3. ASSUME NEW r \in DOMAIN timeoutRequests, NEW accepted \in BOOLEAN,
               DecideTimeoutRequest(r, accepted)
        PROVE  Batches
    <2>1. timeoutRequests[r].seconds \in Nat
      BY ActorTypes DEF TypeOK, IsMap, TimeoutRecord
    <2>2. \A c \in Conn : Mute(Silence[c])
      BY MuteSends
    <2>3. \A n \in (IF accepted
                    THEN {[type |-> "TimeoutRequestAccepted", seconds |-> timeoutRequests[r].seconds]}
                    ELSE {}) : n \in Notice
      BY <2>1 DEF Notice
    <2>. QED  BY <1>3, <2>2, <2>3, FrameBatches DEF DecideTimeoutRequest, epochVars, AtRest
  <1>4. ASSUME NEW m \in DOMAIN members, Kick(m)
        PROVE  Batches
    <2>1. outgoing'.send = WrapsWithout({m}) /\ outgoing'.notices = {}
          /\ RemoveMembers({m}, {}, "MemberKicked")
      BY <1>4 DEF Kick, Emit
    <2>2. Silence \in [Conn -> Seq(Message)] /\ \A c \in Conn : Mute(Silence[c])
      BY SendTypes, MuteSends
    <2>3. outgoing'.send \in [Conn -> Seq(Message)]
      BY DEF TypeOK
    <2>. QED  BY <2>1, <2>2, <2>3, RemovalBatches
  <1>5. CASE NewId
    <2>1. \A c \in Conn : Mute(Silence[c])
      BY MuteSends
    <2>2. \A n \in {[type |-> "InvitationRotated", token |-> token + 1]} :
             n.type \in {"TimeoutRequestAccepted", "TimeoutRebroadcast"} => n \in Notice
      OBVIOUS
    <2>. QED  BY <1>5, <2>1, <2>2, FrameBatches DEF NewId, epochVars, AtRest
  <1>6. ASSUME NEW p, SetPolicy(p)
        PROVE  Batches
    BY <1>6, PolicyBatches
  <1>7. CASE CloseRequested
    BY <1>7, CloseBatches DEF CloseRequested
  <1>. QED  BY <1>1, <1>2, <1>3, <1>4, <1>5, <1>6, <1>7 DEF HostEvent, AcceptRefused, RejectJoin

\* Leaves, kicks and lost connections.
LEMMA DepartureBatches ==
    ASSUME ActorInv, TypeOK', DepartureEvent
    PROVE  Batches
  <1>1. Silence \in [Conn -> Seq(Message)] /\ \A c \in Conn : Mute(Silence[c])
    BY SendTypes, MuteSends
  <1>2. outgoing'.send \in [Conn -> Seq(Message)] /\ Known \subseteq Conn
    BY KnownConn, ActorTypes DEF TypeOK
  <1>3. ASSUME NEW c, ConnectionLost(c)
        PROVE  Batches
    BY <1>1, <1>3, LoseBatches DEF ConnectionLost
  <1>4. ASSUME NEW c \in Known, Leave(c)
        PROVE  Batches
    <2>1. /\ RegisteredMember(c) \subseteq DOMAIN members
          /\ RemoveMembers(RegisteredMember(c), {}, "MemberLeft")
          /\ outgoing'.send = Then(WrapsWithout(RegisteredMember(c)), SendTo(c, Shutdown))
          /\ outgoing'.notices = {}
      BY <1>4 DEF Leave, Emit
    <2>2. SendTo(c, Shutdown) \in [Conn -> Seq(Message)]
          /\ \A d \in Conn : Mute(SendTo(c, Shutdown)[d])
      BY <1>2, MessageTypes, SendTypes, MuteSends, MuteMessages
    <2>. QED  BY <1>2, <2>1, <2>2, RemovalBatches
  <1>5. ASSUME NEW c \in Known, MemberCommandRefused(c)
        PROVE  Batches
    BY <1>2, <1>5, PunishBatches DEF MemberCommandRefused
  <1>6. ASSUME NEW c, NEW color, ColorCommand(c, color)
        PROVE  Batches
    <2>1. /\ outgoing'.send = Silence /\ outgoing'.notices = {}
          /\ UNCHANGED <<epoch, pendingMembership, roomSequence, state>>
          /\ members' = [m \in DOMAIN members |->
                IF m \in RegisteredMember(c) THEN [members[m] EXCEPT !.color = color]
                ELSE members[m]]
      BY <1>6 DEF ColorCommand, Emit, epochVars
    <2>2. DOMAIN members' = DOMAIN members
          /\ \A m \in DOMAIN members : members'[m].connection = members[m].connection
      <3>1. \A m \in DOMAIN members : members[m] \in MemberRecord
        BY ActorTypes DEF TypeOK, IsMap
      <3>. QED  BY <2>1, <3>1 DEF MemberRecord
    <2>3. NoticesTyped /\ roomSequence <= roomSequence'
      BY <2>1, ActorTypes DEF NoticesTyped
    <2>. QED  BY <1>1, <2>1, <2>2, <2>3, MuteStep DEF AtRest
  <1>7. ASSUME NEW m \in DOMAIN members, MemberLeft(m)
        PROVE  Batches
    <2>1. outgoing'.send = WrapsWithout({m}) /\ outgoing'.notices = {}
          /\ RemoveMembers({m}, {}, "MemberLeft")
      BY <1>7 DEF MemberLeft, Emit
    <2>. QED  BY <1>1, <1>2, <2>1, RemovalBatches
  <1>. QED  BY <1>3, <1>4, <1>5, <1>6, <1>7 DEF DepartureEvent

\* An acknowledgement: the last one releases what was held back.
LEMMA AckBatches ==
    ASSUME ActorInv, NEW c, NEW e, EpochAck(c, e)
    PROVE  Batches
  <1>1. /\ UNCHANGED <<members, epoch, roomSequence>>
        /\ InTransition
    BY DEF EpochAck
  <1>2. CASE /\ Emit(Silence, {}, {})
             /\ UNCHANGED <<state, epochKey, pendingMembership>>
    BY <1>1, <1>2, FrameBatches, MuteSends DEF AtRest
  <1>3. CASE /\ pendingMembership' = Silence
             /\ Emit(pendingMembership, {}, Rebroadcast)
    <2>1. ASSUME NEW d \in Conn
          PROVE  Batch(d, outgoing'.send[d], pendingMembership'[d])
      <3>. DEFINE a == pendingMembership[d]
      <3>1. outgoing'.send[d] = a /\ pendingMembership'[d] = <<>>
        BY <1>3 DEF Emit, Silence
      <3>2. \A i \in DOMAIN a : IsEvent(a[i]) /\ ~ IsWrap(a[i]) /\ ~ IsRelay(a[i])
        BY ActorTypes, EventSeq
      <3>3. EventsOrdered(a) /\ NewEvents(d, a) /\ EventsOrdered(<<>>) /\ NewEvents(d, <<>>)
        BY HeldAgain
      <3>. HIDE DEF a
      <3>4. WrapsWithin(a, epoch, epoch') /\ WrapsOrdered(a) /\ NewRelays(d, a) /\ EventsPrecede(a, <<>>)
        BY <3>2 DEF WrapsWithin, WrapsOrdered, NewRelays, EventsPrecede
      <3>. QED  BY <3>1, <3>3, <3>4 DEF Batch
    <2>2. MembersServed
      BY <1>1 DEF MembersServed
    <2>3. HeldBack'
      BY <1>3 DEF HeldBack, Silence
    <2>4. NoticesTyped
      BY <1>3, ActorTypes DEF Emit, NoticesTyped, Notice, Rebroadcast, TypeOK
    <2>5. epoch <= epoch' /\ roomSequence <= roomSequence'
      BY <1>1, ActorTypes
    <2>. QED  BY <2>1, <2>2, <2>3, <2>4, <2>5 DEF Batches
  <1>. QED  BY <1>2, <1>3 DEF EpochAck

\* Acknowledgements of an epoch, and its timeout.
LEMMA EpochBatches ==
    ASSUME ActorInv, TypeOK', EpochEvent
    PROVE  Batches
  <1>1. ASSUME NEW c, NEW e, EpochAck(c, e)
        PROVE  Batches
    BY <1>1, AckBatches
  <1>2. ASSUME NEW c, NEW e, EpochAckIgnored(c, e)
        PROVE  Batches
    BY <1>2, NoEffectBatches DEF EpochAckIgnored
  <1>3. CASE DroppedInTransition
    BY <1>3, NoEffectBatches DEF DroppedInTransition
  <1>4. CASE EpochTimeout
    <2>. DEFINE late == pendingEpoch.awaiting
    <2>1. CASE CloseRoom
      BY <2>1, CloseBatches
    <2>2. CASE /\ RemoveMembers(late \cap DOMAIN members, {}, "MemberLeft")
               /\ Emit(WrapsWithout(late),
                       {members[m].connection : m \in late \cap DOMAIN members}, {})
      <3>1. WrapsWithout(late) = WrapsWithout(late \cap DOMAIN members)
        <4>1. DOMAIN members \ late = DOMAIN members \ (late \cap DOMAIN members)
          OBVIOUS
        <4>. QED  BY <4>1 DEF WrapsWithout
      <3>2. outgoing'.send = WrapsWithout(late \cap DOMAIN members) /\ outgoing'.notices = {}
        BY <2>2, <3>1 DEF Emit
      <3>3. Silence \in [Conn -> Seq(Message)] /\ \A d \in Conn : Mute(Silence[d])
        BY SendTypes, MuteSends
      <3>4. outgoing'.send \in [Conn -> Seq(Message)]
        BY DEF TypeOK
      <3>5. late \cap DOMAIN members \subseteq DOMAIN members
        OBVIOUS
      <3>. HIDE DEF late
      <3>. QED  BY <2>2, <3>2, <3>3, <3>4, <3>5, RemovalBatches
    <2>. QED  BY <1>4, <2>1, <2>2 DEF EpochTimeout
  <1>5. CASE Tick
    BY <1>5, FrameBatches, MuteSends DEF Tick, AtRest
  <1>. QED  BY <1>1, <1>2, <1>3, <1>4, <1>5 DEF EpochEvent

\* A relay goes to members, under the current key.
LEMMA RelayBatches ==
    ASSUME ActorInv, NEW c, NEW env \in AnyEnvelope, ChatRelayed(c, env)
    PROVE  Batches
  <1>1. /\ outgoing'.send = SendAll(Recipients(c), Relay(env)) /\ outgoing'.notices = {}
        /\ UNCHANGED <<epoch, pendingMembership, roomSequence, state>>
        /\ env.epoch = epoch
        /\ members' = IF env.kind = "Color"
                      THEN [members EXCEPT ![env.sender].color = env.body] ELSE members
    BY DEF ChatRelayed, Emit, Accepted, Fresh
  <1>2. DOMAIN members' = DOMAIN members
        /\ \A m \in DOMAIN members : members'[m].connection = members[m].connection
    <2>1. \A m \in DOMAIN members : members[m] \in MemberRecord
      BY ActorTypes DEF TypeOK, IsMap
    <2>. QED  BY <1>1, <2>1 DEF MemberRecord
  <1>3. ASSUME NEW d \in Conn
        PROVE  Batch(d, outgoing'.send[d], pendingMembership'[d])
    <2>. DEFINE a == outgoing'.send[d]
    <2>1. a \in {<<>>, <<Relay(env)>>} /\ (a # <<>> => d \in ConnectionsOf(members))
      BY <1>1 DEF SendAll, Recipients
    <2>2. \A i \in DOMAIN a : a[i] = Relay(env) /\ d \in ConnectionsOf(members)
      BY <2>1
    <2>3. ~ IsWrap(Relay(env)) /\ ~ IsEvent(Relay(env)) /\ Relay(env).envelope = env
      BY DEF Relay, IsWrap, IsEvent, EventTypes
    <2>. HIDE DEF a
    <2>4. WrapsWithin(a, epoch, epoch') /\ WrapsOrdered(a)
      BY <2>2, <2>3 DEF WrapsWithin, WrapsOrdered
    <2>5. EventsOrdered(a) /\ NewEvents(d, a) /\ EventsPrecede(a, pendingMembership[d])
      BY <2>2, <2>3 DEF EventsOrdered, NewEvents, EventsPrecede
    <2>6. NewRelays(d, a)
      BY <1>1, <2>2, <2>3 DEF NewRelays
    <2>7. EventsOrdered(pendingMembership[d]) /\ NewEvents(d, pendingMembership[d])
      BY HeldAgain
    <2>. QED  BY <1>1, <2>4, <2>5, <2>6, <2>7 DEF Batch, a
  <1>4. MembersServed
    BY <1>1, <1>2 DEF MembersServed
  <1>5. HeldBack' /\ NoticesTyped
    BY <1>1 DEF HeldBack, ActorInv, AtRest, NoticesTyped, Silence
  <1>6. epoch <= epoch' /\ roomSequence <= roomSequence'
    BY <1>1, ActorTypes
  <1>. QED  BY <1>3, <1>4, <1>5, <1>6 DEF Batches

\* Encrypted messages of members, relayed or refused.
LEMMA ChatBatches ==
    ASSUME ActorInv, TypeOK', AnyChat
    PROVE  Batches
  <1>1. Known \subseteq Conn /\ HostConnection \in Conn
    BY KnownConn, ActorTypes
  <1>. SUFFICES ASSUME NEW c \in Known \cup {HostConnection}, NEW env \in AnyEnvelope,
                       \/ ChatDuringTransition(c)
                       \/ ChatUnauthorised(c, env)
                       \/ ChatRateLimited(c, env)
                       \/ ChatAbusive(c, env)
                       \/ ChatRefused(c, env)
                       \/ ChatRelayed(c, env)
                       \/ TimeoutRequested(c, env)
                PROVE  Batches
    <2>1. ASSUME NEW c \in Known \cup {HostConnection}, ChatDuringTransition(c)
          PROVE  Batches
      <3>1. \A d \in Conn : Mute((IF c = HostConnection THEN Silence
                                  ELSE SendTo(c, Error("RateLimited")))[d])
        BY MuteSends, MuteMessages
      <3>. QED  BY <2>1, <3>1, FrameBatches DEF ChatDuringTransition, epochVars, AtRest
    <2>. QED  BY <2>1 DEF AnyChat
  <1>2. CASE ChatDuringTransition(c)
    <2>1. \A d \in Conn : Mute((IF c = HostConnection THEN Silence
                                ELSE SendTo(c, Error("RateLimited")))[d])
      BY MuteSends, MuteMessages
    <2>. QED  BY <1>2, <2>1, FrameBatches DEF ChatDuringTransition, epochVars, AtRest
  <1>3. CASE ChatUnauthorised(c, env)
    BY <1>1, <1>3, PunishBatches DEF ChatUnauthorised
  <1>4. CASE ChatRateLimited(c, env)
    <2>1. \A d \in Conn : Mute((IF Abusive(env.sender) THEN Silence
                                ELSE SendTo(c, Error("RateLimited")))[d])
      BY MuteSends, MuteMessages
    <2>. QED  BY <1>4, <2>1, FrameBatches DEF ChatRateLimited, epochVars, AtRest
  <1>5. CASE ChatAbusive(c, env)
    <2>1. /\ RemoveMembers({env.sender}, {}, "MemberKicked")
          /\ outgoing'.send = Then(SendTo(c, Error("RateLimited")), WrapsWithout({env.sender}))
          /\ outgoing'.notices = {}
          /\ {env.sender} \subseteq DOMAIN members
      BY <1>5 DEF ChatAbusive, Emit, Sender
    <2>2. SendTo(c, Error("RateLimited")) \in [Conn -> Seq(Message)]
          /\ \A d \in Conn : Mute(SendTo(c, Error("RateLimited"))[d])
      BY <1>1, MessageTypes, SendTypes, MuteSends, MuteMessages
    <2>3. outgoing'.send \in [Conn -> Seq(Message)]
      BY DEF TypeOK
    <2>. QED  BY <2>1, <2>2, <2>3, RemovalBatches
  <1>6. CASE ChatRefused(c, env)
    <2>1. CASE Punish(c, "ProtocolViolation")
      BY <1>1, <2>1, PunishBatches
    <2>2. CASE c = HostConnection
      BY <1>6, <2>2, FrameBatches, MuteSends DEF ChatRefused, epochVars, AtRest
    <2>. QED  BY <1>6, <2>1, <2>2 DEF ChatRefused
  <1>7. CASE ChatRelayed(c, env)
    BY <1>7, RelayBatches
  <1>8. CASE TimeoutRequested(c, env)
    BY <1>8, FrameBatches, MuteSends DEF TimeoutRequested, AtRest
  <1>. QED  BY <1>2, <1>3, <1>4, <1>5, <1>6, <1>7, <1>8

\* What any step of the actor hands down follows what it handed down before.
LEMMA StepBatches ==
    ASSUME ActorInv, RoomStep
    PROVE  Batches /\ KeyInv'
  <1>1. KeyInv' /\ TypeOK'
    BY KeyStep DEF ActorInv, KeyInv, TablesInv
  <1>2. ASSUME NEW c, RoomClosed(c)
        PROVE  Batches
    <2>1. \A d \in Conn : Mute(SendTo(c, Error("RoomClosed"))[d])
      BY MuteSends, MuteMessages
    <2>. QED  BY <1>2, <2>1, FrameBatches DEF RoomClosed, epochVars, AtRest
  <1>3. CASE EventAfterClose
    BY <1>1, <1>3, NoEffectBatches DEF EventAfterClose
  <1>. QED  BY <1>1, <1>2, <1>3, AdmissionBatches, HostBatches, DepartureBatches, EpochBatches,
               ChatBatches DEF RoomStep

-----------------------------------------------------------------------------
(* Paths *)

\* A path grows by what a step hands down.
LEMMA PathGrows ==
    ASSUME NEW c, NEW q \in Seq(Downward), NEW a \in Seq(Downward), NEW h \in Seq(Downward),
           NEW k \in Nat, NEW s \in Nat, epoch \in Nat, roomSequence \in Nat,
           epoch' \in Nat, roomSequence' \in Nat,
           epoch <= epoch', roomSequence <= roomSequence',
           OnCourse(q, pendingMembership[c], k, s, epoch, roomSequence),
           pendingMembership[c] \in Seq(RoomEvent),
           Batch(c, a, h),
           c \in ConnectionsOf(members) => k = epoch \/ Reaches(q, epoch)
    PROVE  OnCourse(q \o a, h, k, s, epoch', roomSequence')
  <1>. DEFINE p == pendingMembership[c]
  <1>1. /\ k <= epoch /\ s <= roomSequence
        /\ WrapsWithin(q, k, epoch) /\ WrapsOrdered(q)
        /\ EventsWithin(q, s, roomSequence) /\ EventsOrdered(q)
        /\ EventsWithin(p, s, roomSequence) /\ EventsPrecede(q, p)
        /\ RelaysReadable(q, k)
    BY DEF OnCourse
  <1>2. /\ WrapsWithin(a, epoch, epoch') /\ WrapsOrdered(a)
        /\ EventsOrdered(a) /\ EventsOrdered(h) /\ EventsPrecede(a, h)
        /\ NewEvents(c, a) /\ NewEvents(c, h) /\ NewRelays(c, a)
    BY DEF Batch
  <1>3. /\ \A j \in DOMAIN p : IsEvent(p[j]) /\ p[j].sequence \in Nat
        /\ \A j \in DOMAIN q : IsEvent(q[j]) => q[j].sequence \in Nat
    BY EventSeq, DownwardSeq
  <1>4. ASSUME NEW x \in Seq(Downward), NewEvents(c, x)
        PROVE  EventsWithin(x, s, roomSequence') /\ EventsPrecede(q, x)
    <2>1. \A i \in DOMAIN x : IsEvent(x[i]) => x[i].sequence \in Nat
      BY DownwardSeq
    <2>2. \A i \in DOMAIN x : IsEvent(x[i]) =>
             \/ \E j \in DOMAIN p : p[j] = x[i]
             \/ roomSequence < x[i].sequence /\ x[i].sequence <= roomSequence'
      BY <1>4 DEF NewEvents
    <2>. HIDE DEF p
    <2>3. \A i \in DOMAIN x : IsEvent(x[i]) =>
             \/ s < x[i].sequence /\ x[i].sequence <= roomSequence
             \/ roomSequence < x[i].sequence /\ x[i].sequence <= roomSequence'
      BY <1>1, <2>2 DEF EventsWithin
    <2>4. EventsWithin(x, s, roomSequence')
      BY <1>1, <2>1, <2>3 DEF EventsWithin
    <2>5. ASSUME NEW j \in DOMAIN q, NEW i \in DOMAIN x, IsEvent(q[j]), IsEvent(x[i])
          PROVE  q[j].sequence < x[i].sequence
      <3>1. q[j].sequence \in Nat /\ q[j].sequence <= roomSequence
        BY <1>1, <1>3, <2>5 DEF EventsWithin
      <3>2. CASE \E l \in DOMAIN p : p[l] = x[i]
        BY <1>1, <2>5, <3>2 DEF EventsPrecede
      <3>3. CASE roomSequence < x[i].sequence
        BY <2>1, <2>5, <3>1, <3>3
      <3>. QED  BY <2>2, <2>5, <3>2, <3>3
    <2>. QED  BY <2>4, <2>5 DEF EventsPrecede
  <1>5. EventsWithin(a, s, roomSequence') /\ EventsPrecede(q, a)
        /\ EventsWithin(h, s, roomSequence') /\ EventsPrecede(q, h)
    BY <1>2, <1>4
  <1>6. EventsWithin(q, s, roomSequence')
    BY <1>1, <1>3 DEF EventsWithin
  <1>7. WrapsWithin(q \o a, k, epoch') /\ WrapsOrdered(q \o a)
    BY <1>1, <1>2, WrapsAppend
  <1>8. EventsWithin(q \o a, s, roomSequence') /\ EventsOrdered(q \o a)
        /\ EventsPrecede(q \o a, h)
    BY <1>1, <1>2, <1>5, <1>6, EventsWithinAppend, EventsAppend, EventsPrecedeAppend
  <1>9. RelaysReadable(q \o a, k)
    <2>1. \A i \in DOMAIN a : IsRelay(a[i]) =>
             /\ a[i].envelope.epoch = epoch
             /\ k = epoch \/ Reaches(q, epoch)
             /\ \A j \in DOMAIN a : ~ IsWrap(a[j])
      BY <1>2 DEF NewRelays
    <2>. QED  BY <1>1, <2>1, RelaysAppend
  <1>10. k <= epoch' /\ s <= roomSequence'
    BY <1>1
  <1>. QED  BY <1>2, <1>5, <1>7, <1>8, <1>9, <1>10 DEF OnCourse

\* Something mute may always follow.
LEMMA PathMute ==
    ASSUME NEW q \in Seq(Downward), NEW a \in Seq(Downward), Mute(a), NEW h,
           NEW k \in Nat, NEW s, NEW e \in Nat, NEW r, OnCourse(q, h, k, s, e, r)
    PROVE  OnCourse(q \o a, h, k, s, e, r)
  <1>1. /\ k <= e /\ s <= r
        /\ WrapsWithin(q, k, e) /\ WrapsOrdered(q)
        /\ EventsWithin(q, s, r) /\ EventsOrdered(q)
        /\ EventsWithin(h, s, r) /\ EventsOrdered(h)
        /\ EventsPrecede(q, h) /\ RelaysReadable(q, k)
    BY DEF OnCourse
  <1>2. WrapsWithin(a, e, e) /\ WrapsOrdered(a) /\ EventsWithin(a, s, r) /\ EventsOrdered(a)
        /\ EventsPrecede(q, a) /\ EventsPrecede(a, h)
        /\ \A i \in DOMAIN a : ~ IsRelay(a[i])
    BY DEF Mute, WrapsWithin, WrapsOrdered, EventsWithin, EventsOrdered, EventsPrecede
  <1>3. WrapsWithin(q \o a, k, e) /\ WrapsOrdered(q \o a)
    BY <1>1, <1>2, WrapsAppend
  <1>4. EventsWithin(q \o a, s, r) /\ EventsOrdered(q \o a) /\ EventsPrecede(q \o a, h)
    BY <1>1, <1>2, EventsWithinAppend, EventsAppend, EventsPrecedeAppend
  <1>5. RelaysReadable(q \o a, k)
    BY <1>1, <1>2, RelaysAppend
  <1>. QED  BY <1>1, <1>3, <1>4, <1>5 DEF OnCourse

\* A path that is cut: only what is held back is still to come.
LEMMA PathCut ==
    ASSUME NEW c, NEW h \in Seq(Downward), NEW k \in Nat, NEW s \in Nat,
           epoch' \in Nat, roomSequence \in Nat, roomSequence' \in Nat,
           roomSequence <= roomSequence', k <= epoch', s <= roomSequence,
           pendingMembership[c] \in Seq(RoomEvent),
           EventsWithin(pendingMembership[c], s, roomSequence),
           EventsOrdered(h), NewEvents(c, h)
    PROVE  OnCourse(<<>>, h, k, s, epoch', roomSequence')
  <1>. DEFINE p == pendingMembership[c]
  <1>1. \A i \in DOMAIN h : IsEvent(h[i]) =>
           /\ h[i].sequence \in Nat
           /\ \/ \E j \in DOMAIN p : p[j] = h[i]
              \/ roomSequence < h[i].sequence /\ h[i].sequence <= roomSequence'
    BY DownwardSeq DEF NewEvents
  <1>2. EventsWithin(h, s, roomSequence')
    BY <1>1 DEF EventsWithin
  <1>. QED  BY <1>2 DEF OnCourse, WrapsWithin, WrapsOrdered, EventsWithin, EventsOrdered,
                        EventsPrecede, RelaysReadable

\* A path whose head the participant takes, with the key and the event that
\* it has before and afterwards.
Taken(q, h, k, s, k2, s2, e, r) ==
    /\ OnCourse(Tail(q), h, k2, s2, e, r)
    /\ IsWrap(q[1]) => k < q[1].epoch /\ q[1].epoch <= e /\ q[1].epoch \in Nat
    /\ \A l : Reaches(q, l) => k2 = l \/ Reaches(Tail(q), l)

\* A path stays on course when its head is taken.
LEMMA PathTaken ==
    ASSUME NEW q \in Seq(Downward), q # <<>>, NEW h, NEW k \in Nat, NEW s \in Nat,
           NEW e \in Nat, NEW r \in Nat, OnCourse(q, h, k, s, e, r),
           NEW k2, k2 = IF IsWrap(q[1]) THEN q[1].epoch ELSE k,
           NEW s2, s2 = s \/ (IsEvent(q[1]) /\ s2 = q[1].sequence)
    PROVE  Taken(q, h, k, s, k2, s2, e, r)
  <1>1. /\ k <= e /\ s <= r
        /\ WrapsWithin(q, k, e) /\ WrapsOrdered(q)
        /\ EventsWithin(q, s, r) /\ EventsOrdered(q)
        /\ EventsWithin(h, s, r) /\ EventsOrdered(h)
        /\ EventsPrecede(q, h) /\ RelaysReadable(q, k)
    BY DEF OnCourse
  <1>2. 1 \in DOMAIN q
    BY Rest
  <1>3. /\ IsWrap(q[1]) => k < q[1].epoch /\ q[1].epoch <= e /\ q[1].epoch \in Nat
        /\ IsEvent(q[1]) => s < q[1].sequence /\ q[1].sequence <= r
    BY <1>1, <1>2, DownwardSeq DEF WrapsWithin, EventsWithin
  <1>4. WrapsWithin(Tail(q), k2, e) /\ WrapsOrdered(Tail(q)) /\ k2 <= e
    <2>1. /\ WrapsWithin(Tail(q), k, e) /\ WrapsOrdered(Tail(q))
          /\ IsWrap(q[1]) => WrapsWithin(Tail(q), q[1].epoch, e)
      BY <1>1, WrapsTake
    <2>. QED  BY <1>1, <1>3, <2>1
  <1>5. /\ EventsWithin(Tail(q), s2, r) /\ EventsOrdered(Tail(q)) /\ EventsWithin(h, s2, r)
        /\ EventsPrecede(Tail(q), h) /\ s2 <= r
    <2>1. /\ EventsWithin(Tail(q), s, r) /\ EventsOrdered(Tail(q)) /\ EventsPrecede(Tail(q), h)
          /\ IsEvent(q[1]) => /\ EventsWithin(Tail(q), q[1].sequence, r)
                              /\ EventsWithin(h, q[1].sequence, r)
      BY <1>1, EventsTake
    <2>. QED  BY <1>1, <1>3, <2>1
  <1>6. RelaysReadable(Tail(q), k2)
    BY <1>1, RelaysTake
  <1>7. \A l : Reaches(q, l) => k2 = l \/ Reaches(Tail(q), l)
    BY ReachesTake
  <1>. QED  BY <1>1, <1>3, <1>4, <1>5, <1>6, <1>7 DEF OnCourse, Taken

-----------------------------------------------------------------------------
(* The actor and the participants step by step *)

\* The parts of PathInv that say which values the state holds.
LEMMA SessionTypes ==
    ASSUME PathInv
    PROVE  /\ ActorInv
           /\ session \in [Conn -> SessionRecord]
           /\ up \in [Conn -> Seq(Upward)] /\ down \in [Conn -> Seq(Downward)]
           /\ nested \in BOOLEAN
           /\ epoch \in Nat /\ roomSequence \in Nat /\ nextConn \in Nat
           /\ pendingMembership \in [Conn -> Seq(RoomEvent)]
           /\ \A c \in Conn : pendingMembership[c] \in Seq(Downward)
           /\ \A c \in Conn : session[c].epoch \in Nat /\ session[c].lastRoomSequence \in Nat
  <1>1. /\ session \in [Conn -> SessionRecord]
        /\ up \in [Conn -> Seq(Upward)] /\ down \in [Conn -> Seq(Downward)]
        /\ nested \in BOOLEAN
    BY DEF PathInv, SessionTypeOK
  <1>2. KeyInv /\ HeldBack /\ TypeOK
    BY DEF PathInv, KeyInv, TablesInv
  <1>3. pendingMembership \in [Conn -> Seq(RoomEvent)]
        /\ epoch \in Nat /\ roomSequence \in Nat /\ nextConn \in Nat
    BY <1>2 DEF TypeOK
  <1>4. \A c \in Conn : session[c].epoch \in Nat /\ session[c].lastRoomSequence \in Nat
    BY <1>1 DEF SessionRecord
  <1>5. HeldEvents
    <2>. SUFFICES ASSUME NEW c \in Conn
                  PROVE  /\ EventsOrdered(pendingMembership[c])
                         /\ EventsWithin(pendingMembership[c], 0, roomSequence)
      BY DEF HeldEvents
    <2>1. /\ EventsOrdered(pendingMembership[c])
          /\ EventsWithin(pendingMembership[c], session[c].lastRoomSequence, roomSequence)
      BY DEF PathInv, Path, OnCourse
    <2>2. \A i \in DOMAIN pendingMembership[c] : pendingMembership[c][i].sequence \in Nat
      BY <1>3, EventSeq
    <2>. QED  BY <1>4, <2>1, <2>2 DEF EventsWithin
  <1>6. \A c \in Conn : pendingMembership[c] \in Seq(Downward)
    BY <1>3, EventSeq
  <1>. QED  BY <1>1, <1>2, <1>3, <1>4, <1>5, <1>6 DEF ActorInv

\* The event a connection sends is one of the actor's.
LEMMA HandleIsRoomStep ==
    ASSUME PathInv, NEW c \in Conn, up[c] # <<>>, Handle(c, Head(up[c]))
    PROVE  RoomStep
  <1>. DEFINE msg == Head(up[c])
  <1>1. /\ msg \in Upward
        /\ msg.type = "EpochAck" => msg.epoch \in 1..epoch
        /\ c = HostConnection => msg.type \in {"EpochAck", "Chat"}
    <2>1. up[c] \in Seq(Upward)
      BY SessionTypes
    <2>2. 1 \in DOMAIN up[c] /\ msg = up[c][1] /\ msg \in Upward
      BY <2>1
    <2>3. Link(c)
      BY DEF PathInv
    <2>. HIDE DEF msg
    <2>. QED  BY <2>2, <2>3 DEF Link
  <1>2. c \in Known \cup {HostConnection}
    <2>1. ~ (c >= nextConn) /\ nextConn \in Nat
      BY SessionTypes DEF PathInv, Link
    <2>. QED  BY <2>1, BoundsAssumption DEF Conn, Known, HostConnection
  <1>3. msg.type = "JoinRequested" => msg.application \in Applications
    BY <1>1 DEF Upward
  <1>4. msg.type = "Chat" => msg.envelope \in AnyEnvelope
    BY <1>1 DEF Upward
  <1>. HIDE DEF msg
  <1>5. Handle(c, msg)
    BY DEF msg
  <1>6. CASE msg.type = "PasswordVerified"
    BY <1>1, <1>2, <1>5, <1>6 DEF Handle, RoomStep, AdmissionEvent, EpochEvent
  <1>7. CASE msg.type = "JoinRequested"
    BY <1>1, <1>2, <1>3, <1>5, <1>7 DEF Handle, RoomStep, AdmissionEvent, EpochEvent
  <1>c. RoomClosed(c) => c \in Known
    BY <1>2 DEF RoomClosed
  <1>8. CASE msg.type = "EpochAck"
    <2>1. EpochAck(c, msg.epoch) \/ EpochAckIgnored(c, msg.epoch) \/ RoomClosed(c) \/ EventAfterClose
      BY <1>5, <1>8 DEF Handle
    <2>2. msg.epoch \in 1..epoch
      BY <1>1, <1>8
    <2>3. EpochAck(c, msg.epoch) \/ EpochAckIgnored(c, msg.epoch) => EpochEvent
      BY <1>2, <2>2, Zenon DEF EpochEvent
    <2>. QED  BY <1>c, <2>1, <2>3 DEF RoomStep
  <1>9. CASE msg.type = "Chat"
    <2>. DEFINE env == msg.envelope
    <2>1. \/ ChatDuringTransition(c) \/ ChatUnauthorised(c, env) \/ ChatRateLimited(c, env)
          \/ ChatAbusive(c, env) \/ ChatRefused(c, env) \/ ChatRelayed(c, env)
          \/ TimeoutRequested(c, env) \/ RoomClosed(c) \/ EventAfterClose
      BY <1>5, <1>9 DEF Handle
    <2>2. env \in AnyEnvelope
      BY <1>4, <1>9
    <2>. HIDE DEF env
    <2>3. \/ ChatDuringTransition(c) \/ ChatUnauthorised(c, env) \/ ChatRateLimited(c, env)
          \/ ChatAbusive(c, env) \/ ChatRefused(c, env) \/ ChatRelayed(c, env)
          \/ TimeoutRequested(c, env)
          => AnyChat
      BY <1>2, <2>2, Zenon DEF AnyChat
    <2>. QED  BY <1>c, <2>1, <2>3 DEF RoomStep
  <1>10. CASE msg.type = "Lost"
    BY <1>1, <1>2, <1>5, <1>10 DEF Handle, RoomStep, DepartureEvent
  <1>11. msg.type \in {"PasswordVerified", "JoinRequested", "EpochAck", "Chat", "Lost"}
    BY <1>1 DEF Upward
  <1>. QED  BY <1>6, <1>7, <1>8, <1>9, <1>10, <1>11

\* Every step of the room with its participants is one of the actor's, or none.
LEMMA SessionNextIsRoomStep ==
    ASSUME PathInv, [SessionNext]_allVars
    PROVE  [RoomStep]_vars
  <1>1. CASE Spontaneous
    BY <1>1 DEF Spontaneous, RoomStep, EpochEvent
  <1>2. ASSUME NEW c \in Conn, ActorReceives(c)
        PROVE  RoomStep
    BY <1>2, HandleIsRoomStep DEF ActorReceives
  <1>3. ASSUME NEW app \in Applications, Connect(app)
        PROVE  RoomStep
    BY <1>3 DEF Connect, RoomStep, AdmissionEvent
  <1>4. ASSUME NEW c \in Conn, ParticipantReceives(c) \/ Disconnect(c)
        PROVE  UNCHANGED vars
    BY <1>4 DEF ParticipantReceives, Disconnect
  <1>5. ASSUME NEW c, NEW kind, NEW body, SendMessage(c, kind, body)
        PROVE  UNCHANGED vars
    BY <1>5 DEF SendMessage
  <1>6. ASSUME NEW c, NEW color, SendColor(c, color) \/ HostTimeout(color)
        PROVE  UNCHANGED vars
    BY <1>6 DEF SendColor, HostTimeout
  <1>7. CASE UNCHANGED allVars
    BY <1>7 DEF allVars
  <1>. QED  BY <1>1, <1>2, <1>3, <1>4, <1>5, <1>6, <1>7 DEF SessionNext

\* The records of a connection that has no session yet or any more.
LEMMA EmptySessions ==
    /\ NoSession \in SessionRecord /\ ClosedSession \in SessionRecord
    /\ [NoSession EXCEPT !.status = "applying"] \in SessionRecord
    /\ [NoSession EXCEPT !.status = "applying"].epoch = 0
    /\ [NoSession EXCEPT !.status = "applying"].lastRoomSequence = 0
    /\ [NoSession EXCEPT !.status = "applying"].status = "applying"
    /\ ClosedSession.epoch = 0 /\ ClosedSession.lastRoomSequence = 0 /\ ClosedSession.status = "closed"
  <1>1. Empty \in UNION {[S -> Nat] : S \in SUBSET Nat}
    <2>1. Empty \in [{} -> Nat]
      BY DEF Empty
    <2>. QED  BY <2>1
  <1>. QED  BY <1>1 DEF NoSession, ClosedSession, SessionRecord, NoTimeout

\* What goes down to one connection is typed, and the notices are mute.
LEMMA HandedDown ==
    ASSUME Batches, TypeOK', NEW c \in Conn
    PROVE  /\ outgoing'.send[c] \in Seq(Downward)
           /\ NoticesTo(c) \in Seq(Downward) /\ Mute(NoticesTo(c))
  <1>1. outgoing'.send[c] \in Seq(Downward)
    <2>. DEFINE a == outgoing'.send[c]
    <2>1. a \in Seq(Message)
      BY DEF TypeOK
    <2>2. NewRelays(c, a)
      BY DEF Batches, Batch
    <2>. HIDE DEF a
    <2>3. \A i \in DOMAIN a : a[i] \in Message /\ (IsRelay(a[i]) => a[i].envelope \in AnyEnvelope)
      BY <2>1, <2>2 DEF NewRelays
    <2>4. \A i \in DOMAIN a : a[i] \in Downward
      BY <2>3 DEF Downward
    <2>. QED  BY <2>1, <2>4 DEF a
  <1>2. \A n \in TimeoutNotices : n \in Notice
    BY DEF Batches, NoticesTyped, TimeoutNotices
  <1>3. \A n \in Notice : n \in Downward /\ ~ IsWrap(n) /\ ~ IsEvent(n) /\ ~ IsRelay(n)
    BY DEF Notice, Downward, IsWrap, IsEvent, IsRelay, EventTypes
  <1>4. CASE TimeoutNotices # {}
    <2>1. (CHOOSE n \in TimeoutNotices : TRUE) \in TimeoutNotices
      BY <1>4
    <2>2. PICK n \in Notice : NoticesTo(c) \in {<<>>, <<n>>}
      BY <1>2, <2>1 DEF NoticesTo
    <2>3. \A i \in DOMAIN NoticesTo(c) : NoticesTo(c)[i] = n
      BY <2>2
    <2>4. n \in Downward /\ ~ IsWrap(n) /\ ~ IsEvent(n) /\ ~ IsRelay(n)
      BY <1>3
    <2>5. NoticesTo(c) \in Seq(Downward)
      <3>1. <<>> \in Seq(Downward)
        OBVIOUS
      <3>2. <<n>> \in Seq(Downward)
        BY <2>4
      <3>. QED  BY <2>2, <3>1, <3>2
    <2>. QED  BY <1>1, <2>3, <2>4, <2>5 DEF Mute
  <1>5. CASE TimeoutNotices = {}
    <2>1. NoticesTo(c) = <<>>
      BY <1>5 DEF NoticesTo
    <2>. QED  BY <1>1, <2>1 DEF Mute
  <1>. QED  BY <1>4, <1>5

\* What an actor step does to the path of one connection.
LEMMA TransmitPath ==
    ASSUME PathInv, Batches, KeyInv', NEW fresh \in [Conn -> SessionRecord], Transmit(fresh),
           NEW c \in Conn,
           fresh[c] = session[c] \/ (/\ ~ Live(c)
                                     /\ fresh[c].epoch = 0 /\ fresh[c].lastRoomSequence = 0)
    PROVE  Path(c)' /\ down'[c] \in Seq(Downward) /\ session'[c] \in SessionRecord
  <1>1. /\ ActorInv /\ TypeOK' /\ epoch \in Nat /\ roomSequence \in Nat
        /\ epoch' \in Nat /\ roomSequence' \in Nat
        /\ pendingMembership[c] \in Seq(RoomEvent)
        /\ down[c] \in Seq(Downward)
        /\ session[c].epoch \in Nat /\ session[c].lastRoomSequence \in Nat
    BY SessionTypes DEF KeyInv, TablesInv, TypeOK
  <1>2. pendingMembership'[c] \in Seq(Downward)
    <2>1. pendingMembership'[c] \in Seq(RoomEvent)
      BY <1>1 DEF TypeOK
    <2>. QED  BY <2>1, EventSeq
  <1>3. /\ epoch <= epoch' /\ roomSequence <= roomSequence'
        /\ Batch(c, outgoing'.send[c], pendingMembership'[c])
    BY DEF Batches
  <1>4. /\ outgoing'.send[c] \in Seq(Downward)
        /\ NoticesTo(c) \in Seq(Downward) /\ Mute(NoticesTo(c))
    BY <1>1, HandedDown
  <1>5. OnCourse(down[c], pendingMembership[c], session[c].epoch,
                 session[c].lastRoomSequence, epoch, roomSequence)
    BY DEF PathInv, Path
  <1>6. CASE c \notin outgoing'.close /\ Live(c)
    <2>1. session'[c] = session[c] /\ down'[c] = down[c] \o outgoing'.send[c] \o NoticesTo(c)
      BY <1>6 DEF Transmit
    <2>2. c \in ConnectionsOf(members) => session[c].epoch = epoch \/ Reaches(down[c], epoch)
      BY <1>6 DEF PathInv, UpToDate, Served, ConnectionsOf
    <2>3. OnCourse(down[c] \o outgoing'.send[c], pendingMembership'[c], session[c].epoch,
                   session[c].lastRoomSequence, epoch', roomSequence')
      BY <1>1, <1>2, <1>3, <1>4, <1>5, <2>2, PathGrows
    <2>4. down[c] \o outgoing'.send[c] \in Seq(Downward)
      BY <1>1, <1>4
    <2>5. OnCourse(down'[c], pendingMembership'[c], session[c].epoch,
                   session[c].lastRoomSequence, epoch', roomSequence')
      BY <1>1, <1>4, <2>1, <2>3, <2>4, PathMute
    <2>6. down'[c] \in Seq(Downward)
      BY <1>4, <2>1, <2>4
    <2>7. session[c] \in SessionRecord
      BY SessionTypes
    <2>. QED  BY <2>1, <2>5, <2>6, <2>7 DEF Path
  <1>7. CASE ~ (c \notin outgoing'.close /\ Live(c))
    <2>1. down'[c] = <<>> /\ session'[c] \in {ClosedSession, fresh[c]}
      BY <1>7 DEF Transmit
    <2>2. \/ session'[c] = session[c]
          \/ session'[c].epoch = 0 /\ session'[c].lastRoomSequence = 0
      BY <2>1, EmptySessions
    <2>3. session[c].epoch <= epoch /\ session[c].lastRoomSequence <= roomSequence
          /\ EventsWithin(pendingMembership[c], session[c].lastRoomSequence, roomSequence)
      BY <1>5 DEF OnCourse
    <2>4. EventsWithin(pendingMembership[c], 0, roomSequence)
      BY <1>1 DEF ActorInv, HeldEvents
    <2>5. /\ session'[c].epoch \in Nat /\ session'[c].lastRoomSequence \in Nat
          /\ session'[c].epoch <= epoch' /\ session'[c].lastRoomSequence <= roomSequence
          /\ EventsWithin(pendingMembership[c], session'[c].lastRoomSequence, roomSequence)
      BY <1>1, <1>3, <2>2, <2>3, <2>4
    <2>6. EventsOrdered(pendingMembership'[c]) /\ NewEvents(c, pendingMembership'[c])
      BY <1>3 DEF Batch
    <2>7. OnCourse(<<>>, pendingMembership'[c], session'[c].epoch,
                   session'[c].lastRoomSequence, epoch', roomSequence')
      BY <1>1, <1>2, <1>3, <2>5, <2>6, PathCut
    <2>8. session'[c] \in SessionRecord
      BY <2>1, EmptySessions
    <2>. QED  BY <2>1, <2>7, <2>8 DEF Path
  <1>. QED  BY <1>6, <1>7

\* A batch keeps the whole invariant when the links up are as they should be.
LEMMA TransmitStep ==
    ASSUME PathInv, RoomStep, NEW fresh \in [Conn -> SessionRecord], Transmit(fresh),
           \A c \in Conn : \/ fresh[c] = session[c]
                           \/ /\ ~ Live(c) /\ c \notin ConnectionsOf(members')
                              /\ c < nextConn'
                              /\ fresh[c].epoch = 0 /\ fresh[c].lastRoomSequence = 0,
           nextConn <= nextConn',
           up' \in [Conn -> Seq(Upward)],
           \A c \in Conn :
              /\ c >= nextConn' => up'[c] = <<>>
              /\ \A i \in DOMAIN up'[c] :
                    /\ up'[c][i].type = "EpochAck" => up'[c][i].epoch \in 1..epoch
                    /\ c = HostConnection => up'[c][i].type \in {"EpochAck", "Chat"}
    PROVE  PathInv'
  <1>1. Batches /\ KeyInv'
    BY SessionTypes, StepBatches
  <1>2. /\ epoch \in Nat /\ epoch' \in Nat /\ epoch <= epoch'
        /\ nextConn \in Nat /\ nextConn' \in Nat
        /\ session \in [Conn -> SessionRecord]
    BY <1>1, SessionTypes DEF Batches, KeyInv, TablesInv, TypeOK
  <1>3. \A c \in Conn : Path(c)' /\ down'[c] \in Seq(Downward) /\ session'[c] \in SessionRecord
    BY <1>1, TransmitPath
  <1>4. SessionTypeOK'
    <2>1. session' \in [Conn -> SessionRecord] /\ down' \in [Conn -> Seq(Downward)]
      BY <1>3 DEF Transmit
    <2>2. nested' \in BOOLEAN
      BY SessionTypes DEF Transmit
    <2>. QED  BY <2>1, <2>2 DEF SessionTypeOK
  <1>5. ASSUME NEW c \in Conn
        PROVE  Link(c)'
    <2>1. c \in Nat /\ Link(c)
      BY BoundsAssumption DEF Conn, PathInv
    <2>2. c >= nextConn' => ~ Live(c)'
      <3>1. c >= nextConn' => c >= nextConn /\ ~ Live(c) /\ ~ (c < nextConn')
        BY <1>2, <2>1 DEF Link
      <3>2. c >= nextConn' => session'[c] = session[c]
        BY <3>1 DEF Transmit
      <3>. QED  BY <3>1, <3>2 DEF Live
    <2>3. ~ Live(c)' => down'[c] = <<>>
      <3>. SUFFICES ASSUME down'[c] # <<>>
                    PROVE  Live(c)'
        OBVIOUS
      <3>1. c \notin outgoing'.close /\ Live(c)
        BY DEF Transmit
      <3>2. session'[c] = session[c]
        BY <3>1 DEF Transmit
      <3>. QED  BY <3>1, <3>2 DEF Live
    <2>4. \A i \in DOMAIN up'[c] : up'[c][i].type = "EpochAck" => up'[c][i].epoch \in 1..epoch'
      BY <1>2
    <2>. QED  BY <2>2, <2>3, <2>4 DEF Link
  <1>6. UpToDate'
    <2>. SUFFICES ASSUME NEW m \in DOMAIN members', NEW c, c = members'[m].connection, Live(c)'
                  PROVE  session'[c].epoch = epoch' \/ Reaches(down'[c], epoch')
      BY DEF UpToDate, Served
    <2>1. c \in Conn /\ c \in ConnectionsOf(members')
      <3>1. members'[m].connection \in Conn
        BY <1>1 DEF KeyInv, TablesInv, TypeOK, IsMap, MemberRecord
      <3>. QED  BY <3>1 DEF ConnectionsOf
    <2>2. fresh[c] = session[c]
      BY <2>1
    <2>3. /\ c \notin outgoing'.close /\ Live(c) /\ session'[c] = session[c]
          /\ down'[c] = down[c] \o outgoing'.send[c] \o NoticesTo(c)
      <3>1. session'[c] = IF c \in outgoing'.close /\ Live(c) THEN ClosedSession ELSE session[c]
        BY <2>1, <2>2 DEF Transmit
      <3>2. session'[c] # ClosedSession
        BY EmptySessions DEF Live
      <3>3. session'[c] = session[c] /\ Live(c)
        BY <3>1, <3>2 DEF Live
      <3>4. c \notin outgoing'.close
        BY <3>1, <3>2, <3>3
      <3>. QED  BY <2>1, <3>3, <3>4 DEF Transmit
    <2>4. /\ down[c] \in Seq(Downward) /\ outgoing'.send[c] \in Seq(Downward)
          /\ NoticesTo(c) \in Seq(Downward)
      BY <1>1, <2>1, SessionTypes, HandedDown DEF KeyInv, TablesInv
    <2>5. \A e : /\ Reaches(down[c], e) => Reaches(down'[c], e)
                 /\ Reaches(outgoing'.send[c], e) => Reaches(down'[c], e)
      <3>1. down[c] \o outgoing'.send[c] \in Seq(Downward)
        BY <2>4
      <3>2. \A e : /\ Reaches(down[c], e) => Reaches(down[c] \o outgoing'.send[c], e)
                   /\ Reaches(outgoing'.send[c], e) => Reaches(down[c] \o outgoing'.send[c], e)
        BY <2>4, ReachesAppend
      <3>3. \A e : Reaches(down[c] \o outgoing'.send[c], e) => Reaches(down'[c], e)
        BY <2>3, <2>4, <3>1, ReachesAppend
      <3>. QED  BY <3>2, <3>3
    <2>6. CASE epoch' = epoch /\ m \in DOMAIN members /\ members'[m].connection = members[m].connection
      <3>1. session[c].epoch = epoch \/ Reaches(down[c], epoch)
        BY <2>3, <2>6 DEF PathInv, UpToDate, Served
      <3>. QED  BY <2>3, <2>5, <2>6, <3>1
    <2>7. CASE Reaches(outgoing'.send[c], epoch')
      BY <2>5, <2>7
    <2>. QED  BY <1>1, <2>6, <2>7 DEF Batches, MembersServed
  <1>7. HeldBack'
    BY <1>1 DEF Batches
  <1>. QED  BY <1>1, <1>3, <1>4, <1>5, <1>6, <1>7 DEF PathInv

\* Only the accept loop hands out connections.
LEMMA ConnectionsGrow ==
    ASSUME TypeOK, RoomStep
    PROVE  nextConn <= nextConn'
  <1>. SUFFICES nextConn' = nextConn \/ nextConn' = nextConn + 1
    BY DEF TypeOK
  <1>1. ASSUME AdmissionEvent
        PROVE  nextConn' = nextConn \/ nextConn' = nextConn + 1
    BY <1>1 DEF AdmissionEvent, ClientConnected, PasswordVerified, PasswordIgnored, NoEffect,
                JoinRequested, JoinRefused, Punish, LoseConnection
  <1>2. ASSUME HostEvent
        PROVE  nextConn' = nextConn
    BY <1>2 DEF HostEvent, AcceptJoin, AcceptRefused, RejectJoin, TurnAway, DecideTimeoutRequest,
                Kick, NewId, SetPolicy, CloseRequested, CloseRoom
  <1>3. ASSUME DepartureEvent
        PROVE  nextConn' = nextConn
    BY <1>3 DEF DepartureEvent, ConnectionLost, Leave, MemberCommandRefused, ColorCommand,
                MemberLeft, Punish, LoseConnection
  <1>4. ASSUME EpochEvent
        PROVE  nextConn' = nextConn
    BY <1>4 DEF EpochEvent, EpochAck, EpochAckIgnored, DroppedInTransition, EpochTimeout, Tick,
                NoEffect, CloseRoom
  <1>5. ASSUME AnyChat
        PROVE  nextConn' = nextConn
    <2>1. ASSUME NEW c, ChatDuringTransition(c)
          PROVE  nextConn' = nextConn
      BY <2>1 DEF ChatDuringTransition
    <2>2. ASSUME NEW c, NEW env, ChatUnauthorised(c, env) \/ ChatRefused(c, env)
          PROVE  nextConn' = nextConn
      BY <2>2 DEF ChatUnauthorised, ChatRefused, Punish, LoseConnection
    <2>3. ASSUME NEW c, NEW env, ChatRateLimited(c, env) \/ ChatAbusive(c, env)
          PROVE  nextConn' = nextConn
      BY <2>3 DEF ChatRateLimited, ChatAbusive
    <2>4. ASSUME NEW c, NEW env, ChatRelayed(c, env) \/ TimeoutRequested(c, env)
          PROVE  nextConn' = nextConn
      BY <2>4 DEF ChatRelayed, TimeoutRequested
    <2>. QED  BY <1>5, <2>1, <2>2, <2>3, <2>4 DEF AnyChat
  <1>6. (\E c \in Known : RoomClosed(c)) \/ EventAfterClose => nextConn' = nextConn
    BY DEF RoomClosed, EventAfterClose, NoEffect
  <1>. QED  BY <1>1, <1>2, <1>3, <1>4, <1>5, <1>6 DEF RoomStep

\* A batch that nobody's connecting caused, with the links up as before or shorter.
LEMMA QuietTransmit ==
    ASSUME PathInv, RoomStep, Transmit(session), up' \in [Conn -> Seq(Upward)],
           \A c \in Conn : /\ up[c] = <<>> => up'[c] = <<>>
                           /\ \A i \in DOMAIN up'[c] : \E j \in DOMAIN up[c] : up'[c][i] = up[c][j]
    PROVE  PathInv'
  <1>1. nextConn <= nextConn' /\ nextConn \in Nat /\ nextConn' \in Nat
    <2>1. TypeOK /\ TypeOK'
      BY SessionTypes, ActorTypes, StepBatches DEF KeyInv, TablesInv
    <2>2. nextConn \in Nat /\ nextConn' \in Nat
      BY <2>1, BoundsAssumption DEF TypeOK
    <2>. QED  BY <2>1, <2>2, ConnectionsGrow
  <1>2. session \in [Conn -> SessionRecord]
    BY SessionTypes
  <1>3. ASSUME NEW c \in Conn
        PROVE  /\ c >= nextConn' => up'[c] = <<>>
               /\ \A i \in DOMAIN up'[c] :
                     /\ up'[c][i].type = "EpochAck" => up'[c][i].epoch \in 1..epoch
                     /\ c = HostConnection => up'[c][i].type \in {"EpochAck", "Chat"}
    <2>1. Link(c) /\ c \in Nat
      BY BoundsAssumption DEF PathInv, Conn
    <2>2. c >= nextConn' => c >= nextConn
      BY <1>1, <2>1
    <2>. QED  BY <2>1, <2>2 DEF Link
  <1>. QED  BY <1>1, <1>2, <1>3, TransmitStep

\* The actor acts on its own or for the host: PathInv holds after it.
LEMMA SpontaneousStep ==
    ASSUME PathInv, Spontaneous
    PROVE  PathInv'
  <1>1. RoomStep
    BY DEF Spontaneous, RoomStep, EpochEvent
  <1>2. up' = up /\ Transmit(session)
    BY DEF Spontaneous
  <1>3. up' \in [Conn -> Seq(Upward)]
    BY <1>2, SessionTypes
  <1>. QED  BY <1>1, <1>2, <1>3, QuietTransmit

\* The actor handles the next message of a connection: PathInv holds after it.
LEMMA ActorReceivesStep ==
    ASSUME PathInv, NEW c \in Conn, ActorReceives(c)
    PROVE  PathInv'
  <1>1. RoomStep /\ Transmit(session) /\ up[c] # <<>> /\ up' = [up EXCEPT ![c] = Tail(@)]
    BY HandleIsRoomStep DEF ActorReceives
  <1>2. up \in [Conn -> Seq(Upward)]
    BY SessionTypes
  <1>3. /\ Tail(up[c]) \in Seq(Upward)
        /\ \A i \in DOMAIN Tail(up[c]) : i + 1 \in DOMAIN up[c] /\ Tail(up[c])[i] = up[c][i + 1]
    BY <1>1, <1>2, Rest
  <1>4. up' \in [Conn -> Seq(Upward)]
    BY <1>1, <1>2, <1>3
  <1>5. ASSUME NEW d \in Conn
        PROVE  /\ up[d] = <<>> => up'[d] = <<>>
               /\ \A i \in DOMAIN up'[d] : \E j \in DOMAIN up[d] : up'[d][i] = up[d][j]
    BY <1>1, <1>2, <1>3
  <1>. QED  BY <1>1, <1>4, <1>5, QuietTransmit

\* A new connection files its form: PathInv holds after it.
LEMMA ConnectStep ==
    ASSUME PathInv, NEW app \in Applications, Connect(app)
    PROVE  PathInv'
  <1>. DEFINE new == [NoSession EXCEPT !.status = "applying"]
              first == <<[type |-> "PasswordVerified"],
                         [type |-> "JoinRequested", application |-> app]>>
              fresh == [session EXCEPT ![nextConn] = new]
  <1>1. /\ RoomStep /\ nextConn' = nextConn + 1 /\ nextConn <= MaxConn
        /\ members' = members /\ Transmit(fresh)
        /\ up' = [up EXCEPT ![nextConn] = first]
    BY DEF Connect, ClientConnected, RoomStep, AdmissionEvent
  <1>2. /\ nextConn \in Nat /\ nextConn \in Conn /\ nextConn # HostConnection
        /\ session \in [Conn -> SessionRecord] /\ up \in [Conn -> Seq(Upward)]
        /\ TypeOK /\ Conn \subseteq Nat
    <2>1. TypeOK /\ session \in [Conn -> SessionRecord] /\ up \in [Conn -> Seq(Upward)]
      BY SessionTypes, ActorTypes
    <2>2. nextConn \in 1..(MaxConn + 1) /\ MaxConn \in Nat
      BY <2>1, BoundsAssumption DEF TypeOK
    <2>3. nextConn <= MaxConn
      BY <1>1
    <2>. QED  BY <2>1, <2>2, <2>3 DEF Conn, HostConnection
  <1>3. new \in SessionRecord /\ new.epoch = 0 /\ new.lastRoomSequence = 0
    BY EmptySessions
  <1>4. first \in Seq(Upward) /\ \A i \in DOMAIN first : first[i].type # "EpochAck"
    <2>1. [type |-> "PasswordVerified"] \in Upward
          /\ [type |-> "JoinRequested", application |-> app] \in Upward
      BY DEF Upward
    <2>. QED  BY <2>1
  <1>. HIDE DEF new, first
  <1>5. fresh \in [Conn -> SessionRecord]
        /\ \A c \in Conn : fresh[c] = IF c = nextConn THEN new ELSE session[c]
    BY <1>2, <1>3
  <1>. HIDE DEF fresh
  <1>6. nextConn \notin ConnectionsOf(members')
    <2>1. \A m \in DOMAIN members : members[m].connection < nextConn
      BY SessionTypes DEF ActorInv, KeyInv, TablesInv, TableFacts, Agree, ConnectionsIssued
    <2>2. nextConn \notin ConnectionsOf(members)
      BY <1>2, <2>1 DEF ConnectionsOf
    <2>. QED  BY <1>1, <2>2
  <1>7. ~ Live(nextConn)
    BY <1>2 DEF PathInv, Link
  <1>8. up' \in [Conn -> Seq(Upward)]
    BY <1>1, <1>2, <1>4
  <1>9. ASSUME NEW c \in Conn
        PROVE  /\ c >= nextConn' => up'[c] = <<>>
               /\ \A i \in DOMAIN up'[c] :
                     /\ up'[c][i].type = "EpochAck" => up'[c][i].epoch \in 1..epoch
                     /\ c = HostConnection => up'[c][i].type \in {"EpochAck", "Chat"}
    <2>1. CASE c = nextConn
      BY <1>1, <1>2, <1>4, <2>1
    <2>2. CASE c # nextConn
      <3>1. up'[c] = up[c] /\ Link(c)
        BY <1>1, <1>2, <2>2 DEF PathInv
      <3>2. c >= nextConn' => c >= nextConn
        BY <1>1, <1>2
      <3>. QED  BY <3>1, <3>2 DEF Link
    <2>. QED  BY <2>1, <2>2
  <1>10. \A c \in Conn : \/ fresh[c] = session[c]
                         \/ /\ ~ Live(c) /\ c \notin ConnectionsOf(members') /\ c < nextConn'
                            /\ fresh[c].epoch = 0 /\ fresh[c].lastRoomSequence = 0
    BY <1>1, <1>2, <1>3, <1>5, <1>6, <1>7
  <1>11. nextConn <= nextConn'
    BY <1>1, <1>2
  <1>. QED  BY <1>1, <1>5, <1>8, <1>9, <1>10, <1>11, TransmitStep

\* A step of one participant, which the actor takes no part in.
LEMMA LocalStep ==
    ASSUME PathInv, UNCHANGED <<vars, nested>>, NEW c \in Conn, Live(c),
           session' \in [Conn -> SessionRecord], up' \in [Conn -> Seq(Upward)],
           down' \in [Conn -> Seq(Downward)],
           \A d \in Conn : d # c => /\ session'[d] = session[d] /\ up'[d] = up[d]
                                    /\ down'[d] = down[d],
           ~ Live(c)' => down'[c] = <<>>,
           OnCourse(down'[c], pendingMembership[c], session'[c].epoch,
                    session'[c].lastRoomSequence, epoch, roomSequence),
           Live(c)' /\ Served(c) => session'[c].epoch = epoch \/ Reaches(down'[c], epoch),
           \A i \in DOMAIN up'[c] :
              \/ \E j \in DOMAIN up[c] : up'[c][i] = up[c][j]
              \/ /\ up'[c][i].type = "EpochAck" => up'[c][i].epoch \in 1..epoch
                 /\ c = HostConnection => up'[c][i].type \in {"EpochAck", "Chat"}
    PROVE  PathInv'
  <1>1. /\ UNCHANGED <<epoch, roomSequence, pendingMembership, members, nextConn>>
        /\ UNCHANGED vars
    BY DEF vars
  <1>2. KeyInv'
    BY <1>1, KeyStep DEF PathInv
  <1>3. SessionTypeOK'
    BY SessionTypes DEF SessionTypeOK
  <1>4. HeldBack'
    BY <1>1 DEF PathInv, HeldBack, AtRest, vars
  <1>5. ASSUME NEW d \in Conn
        PROVE  Link(d)'
    <2>1. CASE d # c
      BY <1>1, <2>1 DEF PathInv, Link, Live
    <2>2. CASE d = c
      <3>1. ~ (c >= nextConn') /\ Link(c)
        BY <1>1 DEF PathInv, Link
      <3>2. \A i \in DOMAIN up'[c] :
                 /\ up'[c][i].type = "EpochAck" => up'[c][i].epoch \in 1..epoch'
                 /\ c = HostConnection => up'[c][i].type \in {"EpochAck", "Chat"}
        BY <1>1, <3>1 DEF Link
      <3>. QED  BY <2>2, <3>1, <3>2 DEF Link
    <2>. QED  BY <2>1, <2>2
  <1>6. ASSUME NEW d \in Conn
        PROVE  Path(d)'
    <2>1. CASE d # c
      BY <1>1, <2>1 DEF PathInv, Path
    <2>2. CASE d = c
      BY <1>1, <2>2 DEF Path
    <2>. QED  BY <2>1, <2>2
  <1>7. UpToDate'
    <2>. SUFFICES ASSUME NEW m \in DOMAIN members
                  PROVE  Served(members[m].connection)'
      BY <1>1 DEF UpToDate
    <2>. DEFINE d == members[m].connection
    <2>1. d \in Conn /\ Served(d) /\ d' = d
      BY <1>1, SessionTypes, ActorTypes DEF PathInv, UpToDate
    <2>. HIDE DEF d
    <2>2. CASE d = c
      BY <1>1, <2>1, <2>2 DEF Served, d
    <2>3. CASE d # c
      <3>1. session'[d] = session[d] /\ down'[d] = down[d]
        BY <2>1, <2>3
      <3>2. Live(d)' => Live(d)
        BY <2>1, <3>1 DEF Live
      <3>3. Served(d)'
        BY <1>1, <2>1, <3>1, <3>2 DEF Served
      <3>. QED  BY <2>1, <3>3 DEF d
    <2>. QED  BY <2>2, <2>3
  <1>. QED  BY <1>2, <1>3, <1>4, <1>5, <1>6, <1>7 DEF PathInv

\* What a participant seals is a message the actor may be handed.
LEMMA SealedType ==
    ASSUME NEW s \in SessionRecord, NEW kind \in MemberKinds, NEW body \in Nat,
           kind = "Color" => body \in Color
    PROVE  [type |-> "Chat", envelope |-> Sealed(s, kind, body)] \in Upward
  BY DEF Sealed, AnyEnvelope, Envelope, Upward, SessionRecord

\* A colour change keeps the participants' table a table.
LEMMA RecolouredType ==
    ASSUME NEW table \in SUBSET View, NEW id, NEW color \in Color
    PROVE  Recoloured(table, id, color) \in SUBSET View
  BY DEF Recoloured, View

\* Appending to one link up.
LEMMA UpAppend ==
    ASSUME PathInv, NEW c \in Conn, NEW msg \in Upward, up' = [up EXCEPT ![c] = Append(@, msg)]
    PROVE  /\ up' \in [Conn -> Seq(Upward)]
           /\ \A d \in Conn : d # c => up'[d] = up[d]
           /\ \A i \in DOMAIN up'[c] : \/ \E j \in DOMAIN up[c] : up'[c][i] = up[c][j]
                                       \/ up'[c][i] = msg
  <1>1. up \in [Conn -> Seq(Upward)]
    BY SessionTypes
  <1>2. /\ up[c] \in Seq(Upward) /\ Append(up[c], msg) \in Seq(Upward)
        /\ up'[c] = Append(up[c], msg)
    BY <1>1
  <1>3. \A i \in DOMAIN Append(up[c], msg) :
           \/ i \in DOMAIN up[c] /\ Append(up[c], msg)[i] = up[c][i]
           \/ Append(up[c], msg)[i] = msg
    BY <1>2
  <1>. QED  BY <1>1, <1>2, <1>3

\* A participant sends a message of its own: nothing on its way to it changes.
LEMMA SendStep ==
    ASSUME PathInv, UNCHANGED <<vars, down, nested>>, NEW c \in Conn,
           NEW kind \in MemberKinds, NEW body \in Nat, kind = "Color" => body \in Color,
           Send(c, kind, body), session' \in [Conn -> SessionRecord],
           \A d \in Conn : d # c => session'[d] = session[d],
           /\ session'[c].status = session[c].status
           /\ session'[c].epoch = session[c].epoch
           /\ session'[c].lastRoomSequence = session[c].lastRoomSequence
    PROVE  PathInv'
  <1>. DEFINE msg == [type |-> "Chat", envelope |-> Sealed(session[c], kind, body)]
  <1>1. msg \in Upward /\ up' = [up EXCEPT ![c] = Append(@, msg)] /\ msg.type = "Chat"
    <2>1. session[c] \in SessionRecord
      BY SessionTypes
    <2>. QED  BY <2>1, SealedType DEF Send
  <1>. HIDE DEF msg
  <1>2. /\ up' \in [Conn -> Seq(Upward)]
        /\ \A d \in Conn : d # c => up'[d] = up[d]
        /\ \A i \in DOMAIN up'[c] : \/ \E j \in DOMAIN up[c] : up'[c][i] = up[c][j]
                                    \/ up'[c][i] = msg
    BY <1>1, UpAppend
  <1>3. Live(c) /\ Live(c)'
    BY DEF Send, Live
  <1>4. OnCourse(down'[c], pendingMembership[c], session'[c].epoch,
                 session'[c].lastRoomSequence, epoch, roomSequence)
    BY DEF PathInv, Path
  <1>5. down' \in [Conn -> Seq(Downward)]
    BY SessionTypes
  <1>6. Served(c) => session'[c].epoch = epoch \/ Reaches(down'[c], epoch)
    BY <1>3 DEF Served
  <1>7. \A i \in DOMAIN up'[c] :
           \/ \E j \in DOMAIN up[c] : up'[c][i] = up[c][j]
           \/ /\ up'[c][i].type = "EpochAck" => up'[c][i].epoch \in 1..epoch
              /\ c = HostConnection => up'[c][i].type \in {"EpochAck", "Chat"}
    BY <1>1, <1>2
  <1>. QED  BY <1>2, <1>3, <1>4, <1>5, <1>6, <1>7, LocalStep

\* A participant encrypts and sends a message: PathInv holds after it.
LEMMA SendMessageStep ==
    ASSUME PathInv, NEW c \in Conn, NEW kind \in Kinds, NEW body \in Bodies(kind),
           SendMessage(c, kind, body)
    PROVE  PathInv'
  <1>1. /\ kind \in MemberKinds /\ kind # "Color" /\ body \in Nat
        /\ Send(c, kind, body) /\ UNCHANGED <<vars, down, nested>>
        /\ session' = [session EXCEPT ![c].senderSequence = @ + 1]
    BY DataAssumption DEF SendMessage, Bodies, MemberKinds, NoTimeout
  <1>2. session \in [Conn -> SessionRecord]
    BY SessionTypes
  <1>3. /\ session' \in [Conn -> SessionRecord]
        /\ \A d \in Conn : d # c => session'[d] = session[d]
        /\ session'[c].status = session[c].status
        /\ session'[c].epoch = session[c].epoch
        /\ session'[c].lastRoomSequence = session[c].lastRoomSequence
    BY <1>1, <1>2 DEF SessionRecord
  <1>. QED  BY <1>1, <1>3, SendStep

\* A participant asks for another colour: PathInv holds after it.
LEMMA SendColorStep ==
    ASSUME PathInv, NEW c \in Conn, NEW color \in Color, SendColor(c, color)
    PROVE  PathInv'
  <1>1. /\ "Color" \in MemberKinds /\ color \in Nat
        /\ Send(c, "Color", color) /\ UNCHANGED <<vars, down, nested>>
        /\ session' = [session EXCEPT ![c].senderSequence = @ + 1,
                                      ![c].table = Recoloured(@, session[c].id, color)]
    BY DataAssumption DEF SendColor, MemberKinds
  <1>2. session \in [Conn -> SessionRecord]
        /\ Recoloured(session[c].table, session[c].id, color) \in SUBSET View
    BY SessionTypes, RecolouredType DEF SessionRecord
  <1>. DEFINE r == [session[c] EXCEPT !.senderSequence = session[c].senderSequence + 1,
                                     !.table = Recoloured(session[c].table, session[c].id, color)]
  <1>r. /\ session' = [session EXCEPT ![c] = r]
        /\ r \in SessionRecord /\ r.status = session[c].status /\ r.epoch = session[c].epoch
        /\ r.lastRoomSequence = session[c].lastRoomSequence
    <2>1. session[c] \in SessionRecord /\ session[c].senderSequence + 1 \in Nat
      BY <1>1, <1>2 DEF SessionRecord
    <2>2. session' = [session EXCEPT ![c] = r]
      BY <1>1, <1>2 DEF SessionRecord
    <2>3. /\ r \in SessionRecord /\ r.status = session[c].status /\ r.epoch = session[c].epoch
          /\ r.lastRoomSequence = session[c].lastRoomSequence
      <3>. DEFINE s == session[c]
                  n == session[c].senderSequence + 1
                  x == Recoloured(session[c].table, session[c].id, color)
      <3>1. s \in SessionRecord /\ r = [s EXCEPT !.senderSequence = n, !.table = x] /\ x \in SUBSET View /\ n \in Nat
        BY <1>2, <2>1
      <3>. HIDE DEF r, n, x, s
      <3>2. r \in SessionRecord /\ r.status = s.status /\ r.epoch = s.epoch
            /\ r.lastRoomSequence = s.lastRoomSequence
        BY <3>1 DEF SessionRecord
      <3>. QED  BY <3>2 DEF s
    <2>. QED  BY <2>2, <2>3
  <1>. HIDE DEF r
  <1>3. /\ session' \in [Conn -> SessionRecord]
        /\ \A d \in Conn : d # c => session'[d] = session[d]
        /\ session'[c].status = session[c].status
        /\ session'[c].epoch = session[c].epoch
        /\ session'[c].lastRoomSequence = session[c].lastRoomSequence
    BY <1>1, <1>2, <1>r
  <1>. QED  BY <1>1, <1>3, SendStep

\* The host changes its own message timeout: PathInv holds after it.
LEMMA HostTimeoutStep ==
    ASSUME PathInv, NEW i \in Intervals \cup {NoTimeout}, HostTimeout(i)
    PROVE  PathInv'
  <1>. DEFINE c == HostConnection
  <1>1. /\ "TimeoutChanged" \in MemberKinds /\ i \in Nat /\ c \in Conn
        /\ Send(c, "TimeoutChanged", i) /\ UNCHANGED <<vars, down, nested>>
        /\ session' = [session EXCEPT ![c].senderSequence = @ + 1, ![c].timeout = i]
    BY DataAssumption, BoundsAssumption DEF HostTimeout, MemberKinds, NoTimeout, Conn, HostConnection
  <1>2. session \in [Conn -> SessionRecord]
    BY SessionTypes
  <1>. HIDE DEF c
  <1>. DEFINE r == [session[c] EXCEPT !.senderSequence = session[c].senderSequence + 1, !.timeout = i]
  <1>r. /\ session' = [session EXCEPT ![c] = r]
        /\ r \in SessionRecord /\ r.status = session[c].status /\ r.epoch = session[c].epoch
        /\ r.lastRoomSequence = session[c].lastRoomSequence
    <2>1. session[c] \in SessionRecord /\ session[c].senderSequence + 1 \in Nat
      BY <1>1, <1>2 DEF SessionRecord
    <2>2. session' = [session EXCEPT ![c] = r]
      BY <1>1, <1>2 DEF SessionRecord
    <2>3. /\ r \in SessionRecord /\ r.status = session[c].status /\ r.epoch = session[c].epoch
          /\ r.lastRoomSequence = session[c].lastRoomSequence
      <3>. DEFINE s == session[c]
                  n == session[c].senderSequence + 1
                  x == i
      <3>1. s \in SessionRecord /\ r = [s EXCEPT !.senderSequence = n, !.timeout = x] /\ x \in Nat /\ n \in Nat
        BY <1>1, <2>1
      <3>. HIDE DEF r, n, x, s
      <3>2. r \in SessionRecord /\ r.status = s.status /\ r.epoch = s.epoch
            /\ r.lastRoomSequence = s.lastRoomSequence
        BY <3>1 DEF SessionRecord
      <3>. QED  BY <3>2 DEF s
    <2>. QED  BY <2>2, <2>3
  <1>. HIDE DEF r
  <1>3. /\ session' \in [Conn -> SessionRecord]
        /\ \A d \in Conn : d # c => session'[d] = session[d]
        /\ session'[c].status = session[c].status
        /\ session'[c].epoch = session[c].epoch
        /\ session'[c].lastRoomSequence = session[c].lastRoomSequence
    BY <1>1, <1>2, <1>r
  <1>. QED  BY <1>1, <1>3, SendStep

\* A participant's stream ends: PathInv holds after it.
LEMMA DisconnectStep ==
    ASSUME PathInv, NEW c \in Conn, Disconnect(c)
    PROVE  PathInv'
  <1>. DEFINE msg == [type |-> "Lost"]
  <1>1. /\ c # HostConnection /\ Live(c) /\ UNCHANGED <<vars, nested>>
        /\ session' = [session EXCEPT ![c] = ClosedSession]
        /\ down' = [down EXCEPT ![c] = <<>>]
        /\ up' = [up EXCEPT ![c] = Append(@, msg)]
    BY DEF Disconnect
  <1>2. session \in [Conn -> SessionRecord] /\ down \in [Conn -> Seq(Downward)]
        /\ epoch \in Nat /\ roomSequence \in Nat
    BY SessionTypes
  <1>3. /\ session' \in [Conn -> SessionRecord] /\ down' \in [Conn -> Seq(Downward)]
        /\ session'[c] = ClosedSession /\ down'[c] = <<>>
        /\ \A d \in Conn : d # c => session'[d] = session[d] /\ down'[d] = down[d]
    <2>1. <<>> \in Seq(Downward) /\ ClosedSession \in SessionRecord
      BY EmptySessions
    <2>. QED  BY <1>1, <1>2, <2>1
  <1>4. msg \in Upward
    BY DEF Upward
  <1>5. /\ up' \in [Conn -> Seq(Upward)]
        /\ \A d \in Conn : d # c => up'[d] = up[d]
        /\ \A i \in DOMAIN up'[c] : \/ \E j \in DOMAIN up[c] : up'[c][i] = up[c][j]
                                    \/ up'[c][i] = msg
    BY <1>1, <1>4, UpAppend
  <1>6. \A i \in DOMAIN up'[c] :
           \/ \E j \in DOMAIN up[c] : up'[c][i] = up[c][j]
           \/ /\ up'[c][i].type = "EpochAck" => up'[c][i].epoch \in 1..epoch
              /\ c = HostConnection => up'[c][i].type \in {"EpochAck", "Chat"}
    BY <1>1, <1>5
  <1>7. ~ Live(c)'
    BY <1>3, EmptySessions DEF Live
  <1>8. OnCourse(<<>>, pendingMembership[c], 0, 0, epoch, roomSequence)
    <2>1. EventsWithin(pendingMembership[c], 0, roomSequence) /\ EventsOrdered(pendingMembership[c])
      BY SessionTypes DEF ActorInv, HeldEvents
    <2>. QED  BY <1>2, <2>1 DEF OnCourse, WrapsWithin, WrapsOrdered, EventsWithin, EventsOrdered,
                                EventsPrecede, RelaysReadable
  <1>9. session'[c].epoch = 0 /\ session'[c].lastRoomSequence = 0
    BY <1>3, EmptySessions
  <1>10. OnCourse(down'[c], pendingMembership[c], session'[c].epoch,
                  session'[c].lastRoomSequence, epoch, roomSequence)
    BY <1>3, <1>8, <1>9
  <1>. QED  BY <1>1, <1>3, <1>5, <1>6, <1>7, <1>10, LocalStep

\* A participant takes the head of its path.
LEMMA TakeStep ==
    ASSUME PathInv, UNCHANGED <<vars, nested>>, NEW c \in Conn, Live(c), down[c] # <<>>,
           NEW msg, msg = Head(down[c]),
           down' = [down EXCEPT ![c] = Tail(@)],
           session' \in [Conn -> SessionRecord], up' \in [Conn -> Seq(Upward)],
           \A d \in Conn : d # c => session'[d] = session[d] /\ up'[d] = up[d],
           Live(c)',
           session'[c].epoch = IF IsWrap(msg) THEN msg.epoch ELSE session[c].epoch,
           \/ session'[c].lastRoomSequence = session[c].lastRoomSequence
           \/ IsEvent(msg) /\ session'[c].lastRoomSequence = msg.sequence,
           \A i \in DOMAIN up'[c] :
              \/ \E j \in DOMAIN up[c] : up'[c][i] = up[c][j]
              \/ /\ up'[c][i].type = "EpochAck" => up'[c][i].epoch \in 1..epoch
                 /\ c = HostConnection => up'[c][i].type \in {"EpochAck", "Chat"}
    PROVE  PathInv'
  <1>. DEFINE q == down[c]
              h == pendingMembership[c]
              k == session[c].epoch
              s == session[c].lastRoomSequence
              k2 == session'[c].epoch
              s2 == session'[c].lastRoomSequence
  <1>1. /\ down \in [Conn -> Seq(Downward)] /\ q \in Seq(Downward) /\ q # <<>>
        /\ k \in Nat /\ s \in Nat /\ epoch \in Nat /\ roomSequence \in Nat
        /\ OnCourse(q, h, k, s, epoch, roomSequence)
    BY SessionTypes DEF PathInv, Path
  <1>2. q[1] = msg /\ Tail(q) \in Seq(Downward)
    BY <1>1, Rest
  <1>3. /\ down' \in [Conn -> Seq(Downward)] /\ down'[c] = Tail(q)
        /\ \A d \in Conn : d # c => down'[d] = down[d]
    BY <1>1, <1>2
  <1>4. /\ k2 = IF IsWrap(q[1]) THEN q[1].epoch ELSE k
        /\ s2 = s \/ (IsEvent(q[1]) /\ s2 = q[1].sequence)
    BY <1>2
  <1>5. Served(c) => k = epoch \/ Reaches(q, epoch)
    BY DEF Served
  <1>. HIDE DEF q, h, k, s, k2, s2
  <1>6. Taken(q, h, k, s, k2, s2, epoch, roomSequence)
    <2>1. /\ q \in Seq(Downward) /\ q # <<>> /\ k \in Nat /\ s \in Nat
          /\ epoch \in Nat /\ roomSequence \in Nat
          /\ OnCourse(q, h, k, s, epoch, roomSequence)
      BY <1>1
    <2>2. k2 = IF IsWrap(q[1]) THEN q[1].epoch ELSE k
      BY <1>4
    <2>3. s2 = s \/ (IsEvent(q[1]) /\ s2 = q[1].sequence)
      BY <1>4
    <2>. QED  BY <2>1, <2>2, <2>3, PathTaken
  <1>7. Served(c) => k2 = epoch \/ Reaches(Tail(q), epoch)
    <2>1. CASE Reaches(q, epoch)
      BY <1>6, <2>1 DEF Taken
    <2>2. CASE k = epoch
      <3>1. ~ IsWrap(q[1])
        BY <1>1, <1>6, <2>2 DEF Taken
      <3>. QED  BY <1>4, <2>2, <3>1
    <2>. QED  BY <1>5, <2>1, <2>2
  <1>. QED  BY <1>3, <1>6, <1>7, LocalStep DEF Taken, h, k2, s2

\* A signed event, accepted or refused.
LEMMA AfterEventType ==
    ASSUME NEW s \in SessionRecord, NEW ev \in RoomEvent
    PROVE  LET r == AfterEvent(s, ev) IN
           /\ r \in SessionRecord /\ r.status = s.status /\ r.epoch = s.epoch
           /\ r.lastRoomSequence \in {s.lastRoomSequence, ev.sequence}
  <1>. DEFINE t == TableAfter(s, ev)
  <1>1. t \in SUBSET View
    <2>1. s.table \in SUBSET View
      BY DEF SessionRecord
    <2>2. CASE ev.type = "MemberJoined"
      BY <2>1, <2>2 DEF TableAfter, RoomEvent
    <2>3. CASE ev.type \in {"MemberLeft", "MemberKicked"}
      BY <2>1, <2>3 DEF TableAfter
    <2>4. CASE ev.type = "MemberSnapshot"
      BY <2>1, <2>4 DEF TableAfter, RoomEvent
    <2>5. CASE ev.type = "JoinPolicyChanged"
      BY <2>1, <2>5 DEF TableAfter
    <2>. QED  BY <2>2, <2>3, <2>4, <2>5 DEF RoomEvent
  <1>2. ev.sequence \in Nat
    BY DEF RoomEvent
  <1>. DEFINE n == ev.sequence
              r == [s EXCEPT !.table = t, !.lastRoomSequence = n]
  <1>3. AfterEvent(s, ev) \in {r, s}
    BY DEF AfterEvent
  <1>. HIDE DEF t, n
  <1>4. r \in SessionRecord /\ r.status = s.status /\ r.epoch = s.epoch /\ r.lastRoomSequence = n
    BY <1>1, <1>2 DEF SessionRecord, n
  <1>. QED  BY <1>3, <1>4 DEF n

\* A relayed message, read or not.
LEMMA AfterRelayType ==
    ASSUME NEW s \in SessionRecord, NEW env \in AnyEnvelope
    PROVE  LET r == AfterRelay(s, env) IN
           /\ r \in SessionRecord /\ r.status = s.status /\ r.epoch = s.epoch
           /\ r.lastRoomSequence = s.lastRoomSequence
  <1>. DEFINE w == With(s.replay, env.sender, env.sequence)
              i == IF env.kind = "TimeoutChanged" THEN env.body ELSE s.timeout
              t == IF env.kind = "Color" THEN Recoloured(s.table, env.sender, env.body) ELSE s.table
              r == [s EXCEPT !.replay = w, !.timeout = i, !.table = t]
  <1>1. /\ env.sender \in Nat /\ env.sequence \in Nat /\ env.body \in Nat
        /\ env.kind = "Color" => env.body \in Color
    BY DEF AnyEnvelope, Envelope
  <1>2. w \in UNION {[S -> Nat] : S \in SUBSET Nat}
    <2>1. PICK S \in SUBSET Nat : s.replay \in [S -> Nat]
      BY DEF SessionRecord
    <2>2. w \in [S \cup {env.sender} -> Nat]
      BY <1>1, <2>1 DEF With
    <2>. HIDE DEF w
    <2>3. S \cup {env.sender} \in SUBSET Nat
      BY <1>1
    <2>. QED  BY <2>2, <2>3
  <1>3. i \in Nat /\ t \in SUBSET View
    BY <1>1, RecolouredType DEF SessionRecord
  <1>4. AfterRelay(s, env) \in {r, s}
    <2>1. [s EXCEPT !.replay = With(@, env.sender, env.sequence),
                    !.timeout = IF env.kind = "TimeoutChanged" THEN env.body ELSE @,
                    !.table = IF env.kind = "Color" THEN Recoloured(@, env.sender, env.body)
                              ELSE @] = r
      BY DEF SessionRecord
    <2>. QED  BY <2>1 DEF AfterRelay
  <1>. HIDE DEF w, i, t
  <1>5. r \in SessionRecord /\ r.status = s.status /\ r.epoch = s.epoch
        /\ r.lastRoomSequence = s.lastRoomSequence
    BY <1>2, <1>3 DEF SessionRecord
  <1>. QED  BY <1>4, <1>5

\* What the head of a path is, by its type.
LEMMA HeadTypes ==
    ASSUME NEW msg \in Downward
    PROVE  /\ msg.type = "JoinAccepted" => msg.id \in Nat
           /\ msg.type = "EpochWrap" => msg.epoch \in Nat
           /\ msg.type \in EventTypes => msg \in RoomEvent
           /\ msg.type = "Relay" => msg.envelope \in AnyEnvelope
           /\ msg.type \in {"TimeoutRequestAccepted", "TimeoutRebroadcast"} => msg.seconds \in Nat
  BY DEF Downward, Notice, Message, RoomEvent, IsRelay, EventTypes

\* A participant handles the next message on its way.
LEMMA ReceiveStep ==
    ASSUME PathInv, NEW c \in Conn, ParticipantReceives(c)
    PROVE  PathInv'
  <1>. DEFINE msg == Head(down[c])
              s == session[c]
  <1>1. /\ Live(c) /\ down[c] # <<>> /\ Receive(c, msg)
        /\ down' = IF session'[c].status = "closed" THEN [down EXCEPT ![c] = <<>>]
                   ELSE [down EXCEPT ![c] = Tail(@)]
        /\ UNCHANGED <<vars, nested>>
    BY DEF ParticipantReceives
  <1>2. /\ session \in [Conn -> SessionRecord] /\ s \in SessionRecord
        /\ up \in [Conn -> Seq(Upward)] /\ down[c] \in Seq(Downward)
        /\ epoch \in Nat /\ roomSequence \in Nat
        /\ s.status \in {"applying", "member"}
    BY <1>1, SessionTypes DEF Live
  <1>3. msg \in Downward /\ msg = down[c][1] /\ 1 \in DOMAIN down[c]
    BY <1>1, <1>2, Rest
  <1>4. IsWrap(msg) => s.epoch < msg.epoch /\ msg.epoch <= epoch /\ msg.epoch \in Nat
    <2>1. WrapsWithin(down[c], s.epoch, epoch)
      BY DEF PathInv, Path, OnCourse
    <2>. QED  BY <1>3, <2>1, HeadTypes DEF WrapsWithin, IsWrap
  <1>. HIDE DEF msg
  <1>5. ASSUME NEW r \in SessionRecord, session' = [session EXCEPT ![c] = r],
               r.status \in {"applying", "member"},
               r.epoch = IF IsWrap(msg) THEN msg.epoch ELSE s.epoch,
               \/ r.lastRoomSequence = s.lastRoomSequence
               \/ IsEvent(msg) /\ r.lastRoomSequence = msg.sequence,
               \/ UNCHANGED up
               \/ \E m \in Upward :
                     /\ up' = [up EXCEPT ![c] = Append(@, m)]
                     /\ m.type = "EpochAck" => m.epoch \in 1..epoch
                     /\ c = HostConnection => m.type \in {"EpochAck", "Chat"}
        PROVE  PathInv'
    <2>1. /\ session' \in [Conn -> SessionRecord] /\ session'[c] = r
          /\ \A d \in Conn : d # c => session'[d] = session[d]
      BY <1>2, <1>5
    <2>2. Live(c)' /\ down' = [down EXCEPT ![c] = Tail(@)]
      BY <1>1, <1>5, <2>1 DEF Live
    <2>3. /\ up' \in [Conn -> Seq(Upward)]
          /\ \A d \in Conn : d # c => up'[d] = up[d]
          /\ \A i \in DOMAIN up'[c] :
              \/ \E j \in DOMAIN up[c] : up'[c][i] = up[c][j]
              \/ /\ up'[c][i].type = "EpochAck" => up'[c][i].epoch \in 1..epoch
                 /\ c = HostConnection => up'[c][i].type \in {"EpochAck", "Chat"}
      <3>1. CASE UNCHANGED up
        BY <1>2, <3>1
      <3>2. CASE \E m \in Upward :
                     /\ up' = [up EXCEPT ![c] = Append(@, m)]
                     /\ m.type = "EpochAck" => m.epoch \in 1..epoch
                     /\ c = HostConnection => m.type \in {"EpochAck", "Chat"}
        <4>1. PICK m \in Upward :
                     /\ up' = [up EXCEPT ![c] = Append(@, m)]
                     /\ m.type = "EpochAck" => m.epoch \in 1..epoch
                     /\ c = HostConnection => m.type \in {"EpochAck", "Chat"}
          BY <3>2
        <4>2. /\ up' \in [Conn -> Seq(Upward)]
              /\ \A d \in Conn : d # c => up'[d] = up[d]
              /\ \A i \in DOMAIN up'[c] : \/ \E j \in DOMAIN up[c] : up'[c][i] = up[c][j]
                                          \/ up'[c][i] = m
          BY <4>1, UpAppend
        <4>. QED  BY <4>1, <4>2
      <3>. QED  BY <1>5, <3>1, <3>2
    <2>4. /\ session'[c].epoch = IF IsWrap(msg) THEN msg.epoch ELSE session[c].epoch
          /\ \/ session'[c].lastRoomSequence = session[c].lastRoomSequence
             \/ IsEvent(msg) /\ session'[c].lastRoomSequence = msg.sequence
      BY <1>5, <2>1
    <2>5. msg = Head(down[c])
      BY DEF msg
    <2>. QED  BY <1>1, <2>1, <2>2, <2>3, <2>4, <2>5, TakeStep
  <1>. HIDE DEF s
  <1>6. CASE /\ msg.type = "JoinAccepted"
             /\ session' = [session EXCEPT ![c].status = "member", ![c].id = msg.id]
             /\ UNCHANGED up
    <2>. DEFINE n == msg.id
                r == [s EXCEPT !.status = "member", !.id = n]
    <2>1. n \in Nat /\ ~ IsWrap(msg)
      BY <1>3, <1>6, HeadTypes DEF IsWrap
    <2>2. session' = [session EXCEPT ![c] = r]
      BY <1>2, <1>6 DEF SessionRecord, s
    <2>. HIDE DEF n
    <2>3. /\ r \in SessionRecord /\ r.status = "member" /\ r.epoch = s.epoch
          /\ r.lastRoomSequence = s.lastRoomSequence
      BY <1>2, <2>1 DEF SessionRecord
    <2>. HIDE DEF r
    <2>. QED  BY <1>5, <1>6, <2>1, <2>2, <2>3
  <1>7. CASE /\ msg.type = "EpochWrap"
             /\ session' = [session EXCEPT ![c] = AfterWrap(c, s, msg.epoch)]
             /\ up' = [up EXCEPT ![c] = Append(@, AnswerToWrap(c, s, msg.epoch))]
    <2>. DEFINE e == msg.epoch
                r == [s EXCEPT !.epoch = e, !.replay = Empty]
                m == [type |-> "EpochAck", epoch |-> e]
    <2>1. IsWrap(msg) /\ e \in Nat /\ e > s.epoch /\ e <= epoch /\ s.epoch \in Nat
      BY <1>2, <1>4, <1>7 DEF IsWrap, SessionRecord
    <2>2. session' = [session EXCEPT ![c] = r] /\ up' = [up EXCEPT ![c] = Append(@, m)]
      BY <1>7, <2>1 DEF AfterWrap, AnswerToWrap
    <2>. HIDE DEF e
    <2>3. Empty \in UNION {[S -> Nat] : S \in SUBSET Nat}
      BY EmptySessions DEF NoSession, SessionRecord
    <2>4. /\ r \in SessionRecord /\ r.status = s.status /\ r.epoch = e
          /\ r.lastRoomSequence = s.lastRoomSequence
      BY <1>2, <2>1, <2>3 DEF SessionRecord
    <2>5. m \in Upward /\ m.type = "EpochAck" /\ m.epoch \in 1..epoch
      BY <1>2, <2>1 DEF Upward
    <2>. HIDE DEF r, m
    <2>6. r.epoch = IF IsWrap(msg) THEN msg.epoch ELSE s.epoch
      BY <2>1, <2>4 DEF e
    <2>. QED  BY <1>2, <1>5, <2>2, <2>4, <2>5, <2>6
  <1>8. CASE /\ msg.type \in EventTypes
             /\ session' = [session EXCEPT ![c] = AfterEvent(s, msg)]
             /\ UNCHANGED up
    <2>. DEFINE r == AfterEvent(s, msg)
    <2>1. msg \in RoomEvent /\ IsEvent(msg) /\ ~ IsWrap(msg)
      BY <1>3, <1>8, HeadTypes DEF IsEvent, IsWrap, EventTypes
    <2>2. /\ r \in SessionRecord /\ r.status = s.status /\ r.epoch = s.epoch
          /\ r.lastRoomSequence \in {s.lastRoomSequence, msg.sequence}
      BY <1>2, <2>1, AfterEventType
    <2>. QED  BY <1>2, <1>5, <1>8, <2>1, <2>2
  <1>9. CASE /\ msg.type = "Relay"
             /\ session' = [session EXCEPT ![c] = AfterRelay(s, msg.envelope)]
             /\ UNCHANGED up
    <2>. DEFINE r == AfterRelay(s, msg.envelope)
    <2>1. msg.envelope \in AnyEnvelope /\ ~ IsWrap(msg)
      BY <1>3, <1>9, HeadTypes DEF IsWrap
    <2>2. /\ r \in SessionRecord /\ r.status = s.status /\ r.epoch = s.epoch
          /\ r.lastRoomSequence = s.lastRoomSequence
      BY <1>2, <2>1, AfterRelayType
    <2>. QED  BY <1>2, <1>5, <1>9, <2>1, <2>2
  <1>10. CASE msg.type = "Error" /\ UNCHANGED <<session, up>>
    <2>1. session' = [session EXCEPT ![c] = s] /\ ~ IsWrap(msg)
      BY <1>2, <1>10 DEF IsWrap, s
    <2>. QED  BY <1>2, <1>5, <1>10, <2>1
  <1>11. CASE /\ msg.type \in {"TimeoutRequestAccepted", "TimeoutRebroadcast"}
              /\ Send(c, "TimeoutChanged", msg.seconds)
              /\ session' = [session EXCEPT ![c].senderSequence = @ + 1,
                    ![c].timeout = IF msg.type = "TimeoutRequestAccepted" THEN msg.seconds ELSE @]
    <2>. DEFINE n == s.senderSequence + 1
                i == IF msg.type = "TimeoutRequestAccepted" THEN msg.seconds ELSE s.timeout
                r == [s EXCEPT !.senderSequence = n, !.timeout = i]
                m == [type |-> "Chat", envelope |-> Sealed(s, "TimeoutChanged", msg.seconds)]
    <2>1. msg.seconds \in Nat /\ n \in Nat /\ i \in Nat /\ ~ IsWrap(msg)
      <3>1. msg.seconds \in Nat /\ ~ IsWrap(msg)
        BY <1>3, <1>11, HeadTypes DEF IsWrap
      <3>2. s.timeout \in Nat /\ s.senderSequence \in Nat
        BY <1>2 DEF SessionRecord
      <3>. QED  BY <3>1, <3>2
    <2>2. session' = [session EXCEPT ![c] = r]
      BY <1>2, <1>11 DEF SessionRecord, s
    <2>3. m \in Upward /\ up' = [up EXCEPT ![c] = Append(@, m)] /\ m.type = "Chat"
      BY <1>2, <1>11, <2>1, SealedType DEF Send, MemberKinds, s
    <2>. HIDE DEF n, i, m
    <2>4. /\ r \in SessionRecord /\ r.status = s.status /\ r.epoch = s.epoch
          /\ r.lastRoomSequence = s.lastRoomSequence
      BY <1>2, <2>1 DEF SessionRecord
    <2>. HIDE DEF r
    <2>. QED  BY <1>2, <1>5, <2>1, <2>2, <2>3, <2>4
  <1>. QED  BY <1>1, <1>6, <1>7, <1>8, <1>9, <1>10, <1>11 DEF Receive, s

\* A step of the rest of the world.
LEMMA SessionFrame ==
    ASSUME PathInv, UNCHANGED allVars
    PROVE  PathInv'
  <1>1. UNCHANGED vars /\ UNCHANGED <<session, up, down, nested>>
    BY DEF allVars, sessionVars
  <1>2. /\ UNCHANGED <<epoch, roomSequence, pendingMembership, members, nextConn, state>>
    BY <1>1 DEF vars
  <1>3. KeyInv'
    BY <1>1, KeyStep DEF PathInv
  <1>4. SessionTypeOK' /\ HeldBack' /\ (\A c \in Conn : Link(c)')
    BY <1>1, <1>2 DEF PathInv, SessionTypeOK, HeldBack, AtRest, Link, Live
  <1>5. UpToDate'
    BY <1>1, <1>2 DEF PathInv, UpToDate, Served, Live
  <1>6. \A c \in Conn : Path(c)'
    BY <1>1, <1>2 DEF PathInv, Path
  <1>. QED  BY <1>3, <1>4, <1>5, <1>6 DEF PathInv

\* Every step of the room with its participants.
LEMMA SessionStep ==
    ASSUME PathInv, [SessionNext]_allVars
    PROVE  PathInv'
  <1>1. CASE UNCHANGED allVars
    BY <1>1, SessionFrame
  <1>2. CASE SessionNext
    BY <1>2, SpontaneousStep, ActorReceivesStep, ReceiveStep, DisconnectStep, SendMessageStep,
       SendColorStep, ConnectStep, HostTimeoutStep DEF SessionNext
  <1>. QED  BY <1>1, <1>2

\* The room begins with the host participant and the first wrap on its way.
LEMMA SessionBegins ==
    ASSUME SessionInit
    PROVE  PathInv
  <1>1. /\ Init /\ KeyInv /\ TypeOK
        /\ epoch = 1 /\ roomSequence = 1 /\ nextConn = 1 /\ state = "EpochTransition"
        /\ pendingMembership = [c \in Conn |-> <<>>]
        /\ outgoing.send = [c \in Conn |-> IF c = HostConnection THEN <<EpochWrap(1)>> ELSE <<>>]
    BY KeyInit DEF SessionInit, Init, KeyInv, TablesInv, Silence, SendTo
  <1>2. /\ DOMAIN members = {HostId} /\ members[HostId].connection = HostConnection
        /\ members[HostId] \in MemberRecord
    BY <1>1 DEF Init, With, Empty, Member, TypeOK, IsMap
  <1>. DEFINE host == [NoSession EXCEPT !.status = "member", !.table = {HostView}]
  <1>3. /\ host \in SessionRecord /\ host.status = "member"
        /\ host.epoch = 0 /\ host.lastRoomSequence = 0
    <2>1. {HostView} \in SUBSET View
      BY <1>2 DEF HostView, ViewOf, View, MemberRecord, HostId
    <2>. DEFINE t == {HostView}
    <2>. HIDE DEF t
    <2>2. NoSession \in SessionRecord /\ NoSession.epoch = 0 /\ NoSession.lastRoomSequence = 0
      BY EmptySessions DEF NoSession
    <2>3. t \in SUBSET View
      BY <2>1 DEF t
    <2>4. LET h == [NoSession EXCEPT !.status = "member", !.table = t] IN
             /\ h \in SessionRecord /\ h.status = "member"
             /\ h.epoch = 0 /\ h.lastRoomSequence = 0
      BY <2>2, <2>3 DEF SessionRecord
    <2>. QED  BY <2>4 DEF t
  <1>. HIDE DEF host
  <1>4. /\ session = [c \in Conn |-> IF c = HostConnection THEN host ELSE NoSession]
        /\ up = [c \in Conn |-> <<>>]
        /\ down = [c \in Conn |-> IF c = HostConnection THEN <<EpochWrap(1)>> ELSE <<>>]
        /\ nested = FALSE
    BY <1>1 DEF SessionInit, host
  <1>5. /\ EpochWrap(1) \in Downward /\ IsWrap(EpochWrap(1)) /\ EpochWrap(1).epoch = 1
        /\ ~ IsEvent(EpochWrap(1)) /\ ~ IsRelay(EpochWrap(1))
    BY DEF EpochWrap, Downward, Message, IsWrap, IsEvent, IsRelay, EventTypes
  <1>. DEFINE wrap == EpochWrap(1)
  <1>. HIDE DEF wrap
  <1>6. <<>> \in Seq(Downward) /\ <<>> \in Seq(Upward) /\ <<wrap>> \in Seq(Downward)
        /\ DOMAIN <<wrap>> = {1} /\ <<wrap>>[1] = wrap
    BY <1>5 DEF wrap
  <1>7. SessionTypeOK
    BY <1>3, <1>4, <1>6, EmptySessions DEF SessionTypeOK, wrap
  <1>8. \A c \in Conn : Live(c) <=> c = HostConnection
    BY <1>3, <1>4 DEF Live, NoSession
  <1>9. HostConnection \in Conn /\ HostConnection < nextConn
    BY <1>1, BoundsAssumption DEF HostConnection, Conn
  <1>10. ASSUME NEW c \in Conn
         PROVE  Link(c)
    <2>1. up[c] = <<>> /\ (~ Live(c) => down[c] = <<>>)
      BY <1>4, <1>8
    <2>2. c >= nextConn => ~ Live(c)
      BY <1>1, <1>8 DEF HostConnection
    <2>. QED  BY <2>1, <2>2 DEF Link
  <1>11. HeldBack
    BY <1>1 DEF HeldBack, AtRest
  <1>12. down[HostConnection] = <<wrap>> /\ session[HostConnection].epoch = 0
    BY <1>3, <1>4, <1>9 DEF wrap
  <1>13. UpToDate
    <2>1. Reaches(down[HostConnection], epoch)
      BY <1>1, <1>5, <1>6, <1>12 DEF Reaches, wrap
    <2>. QED  BY <1>2, <2>1 DEF UpToDate, Served
  <1>14. ASSUME NEW c \in Conn
         PROVE  Path(c)
    <2>1. /\ session[c].epoch = 0 /\ session[c].lastRoomSequence = 0
          /\ pendingMembership[c] = <<>>
      BY <1>1, <1>3, <1>4 DEF NoSession
    <2>2. CASE c = HostConnection
      <3>1. OnCourse(<<wrap>>, <<>>, 0, 0, 1, 1)
        <4>1. /\ WrapsWithin(<<wrap>>, 0, 1) /\ WrapsOrdered(<<wrap>>)
              /\ EventsWithin(<<wrap>>, 0, 1) /\ EventsOrdered(<<wrap>>)
              /\ RelaysReadable(<<wrap>>, 0)
          BY <1>5, <1>6 DEF WrapsWithin, WrapsOrdered, EventsWithin, EventsOrdered,
                            RelaysReadable, wrap
        <4>2. /\ EventsWithin(<<>>, 0, 1) /\ EventsOrdered(<<>>)
              /\ EventsPrecede(<<wrap>>, <<>>)
          BY DEF EventsWithin, EventsOrdered, EventsPrecede
        <4>. QED  BY <4>1, <4>2 DEF OnCourse
      <3>. QED  BY <1>1, <1>12, <2>1, <2>2, <3>1 DEF Path
    <2>3. CASE c # HostConnection
      <3>1. OnCourse(<<>>, <<>>, 0, 0, 1, 1)
        BY DEF OnCourse, WrapsWithin, WrapsOrdered, EventsWithin, EventsOrdered,
               EventsPrecede, RelaysReadable
      <3>. QED  BY <1>1, <1>4, <2>1, <2>3, <3>1 DEF Path
    <2>. QED  BY <2>2, <2>3
  <1>. QED  BY <1>1, <1>7, <1>10, <1>11, <1>13, <1>14 DEF PathInv

-----------------------------------------------------------------------------
(* The theorems *)

\* The inductive invariant of the room with its participants.
THEOREM SessionInvariant == SessionSpec => []PathInv
  <1>1. SessionInit => PathInv
    BY SessionBegins
  <1>2. PathInv /\ [SessionNext]_allVars => PathInv'
    BY SessionStep
  <1>. QED  BY <1>1, <1>2, PTL DEF SessionSpec

\* The facts proved of the actor against every event it could be handed hold of
\* the room with its participants too, whose events are what ChatSession sends
\* and whose membership tables, wraps and keys are the actor's.
THEOREM RoomKeysWithParticipants == SessionSpec => [](TransitionShape /\ KeyGoesToMembers)
  <1>1. PathInv => TransitionShape /\ KeyGoesToMembers
    BY DEF PathInv, KeyInv, KeyFacts
  <1>. QED  BY <1>1, SessionInvariant, PTL

\* What a path says of the order in which wraps, events and relays are read.
LEMMA OrderOfArrival ==
    PathInv => WrapsArriveInOrder /\ EventsArriveInOrder /\ RelaysMatchInstalledEpoch
  <1>. SUFFICES ASSUME PathInv, NEW c \in Conn
                PROVE  /\ \A i \in DOMAIN down[c] : down[c][i].type = "EpochWrap" =>
                            /\ down[c][i].epoch > session[c].epoch
                            /\ \A j \in 1..(i - 1) : down[c][j].type = "EpochWrap"
                                                        => down[c][j].epoch < down[c][i].epoch
                       /\ \A i \in DOMAIN down[c] : down[c][i].type \in EventTypes =>
                            /\ down[c][i].sequence > session[c].lastRoomSequence
                            /\ \A j \in 1..(i - 1) : down[c][j].type \in EventTypes
                                                        => down[c][j].sequence < down[c][i].sequence
                       /\ down[c] # <<>> /\ Head(down[c]).type = "Relay"
                            => Head(down[c]).envelope.epoch = session[c].epoch
    BY DEF WrapsArriveInOrder, EventsArriveInOrder, RelaysMatchInstalledEpoch
  <1>. DEFINE q == down[c]
  <1>1. /\ q \in Seq(Downward) /\ session[c].epoch \in Nat /\ session[c].lastRoomSequence \in Nat
        /\ WrapsWithin(q, session[c].epoch, epoch) /\ WrapsOrdered(q)
        /\ EventsWithin(q, session[c].lastRoomSequence, roomSequence) /\ EventsOrdered(q)
        /\ RelaysReadable(q, session[c].epoch)
    BY SessionTypes DEF PathInv, Path, OnCourse
  <1>. HIDE DEF q
  <1>2. \A i \in DOMAIN q : \A j \in 1..(i - 1) : j \in DOMAIN q /\ j < i
    BY <1>1
  <1>3. \A i \in DOMAIN q : /\ IsWrap(q[i]) => q[i].epoch \in Nat
                            /\ IsEvent(q[i]) => q[i].sequence \in Nat
    BY <1>1, DownwardSeq
  <1>4. \A i \in DOMAIN q : IsWrap(q[i]) =>
           /\ q[i].epoch > session[c].epoch
           /\ \A j \in 1..(i - 1) : IsWrap(q[j]) => q[j].epoch < q[i].epoch
    BY <1>1, <1>2, <1>3 DEF WrapsWithin, WrapsOrdered
  <1>5. \A i \in DOMAIN q : IsEvent(q[i]) =>
           /\ q[i].sequence > session[c].lastRoomSequence
           /\ \A j \in 1..(i - 1) : IsEvent(q[j]) => q[j].sequence < q[i].sequence
    BY <1>1, <1>2, <1>3 DEF EventsWithin, EventsOrdered
  <1>6. ASSUME q # <<>>, IsRelay(Head(q))
        PROVE  Head(q).envelope.epoch = session[c].epoch
    <2>1. 1 \in DOMAIN q /\ q[1] = Head(q) /\ 1..(1 - 1) = {}
      BY <1>1, <1>6, Rest
    <2>. QED  BY <1>1, <1>6, <2>1 DEF RelaysReadable
  <1>. QED  BY <1>4, <1>5, <1>6 DEF IsWrap, IsEvent, IsRelay, q

-----------------------------------------------------------------------------
(* Honest members: what is known of a connection that explains why nothing *)
(* its participant sends is ever a protocol violation.                     *)

IsForm(msg) == msg.type = "JoinRequested"
IsChat(msg) == msg.type = "Chat"
IsAck(msg, e) == msg.type = "EpochAck" /\ msg.epoch = e
IsAdmission(msg) == msg.type = "JoinAccepted"
IsNotice(msg) == msg.type \in {"TimeoutRequestAccepted", "TimeoutRebroadcast"}
IsReproach(msg) == msg.type = "Error" /\ msg.code = "ProtocolViolation"

\* What has been heard of member m in this epoch.
LastHeard(m) == IF m \in DOMAIN chatReplay THEN chatReplay[m] ELSE 0

\* What a connection that waits to be admitted has sent: at most one form, no chat.
Patient(q) ==
    /\ \A i \in DOMAIN q : ~ IsChat(q[i])
    /\ \A i, j \in DOMAIN q : IsForm(q[i]) /\ IsForm(q[j]) => i = j

\* What member m has sent: no form, and chats of its own, each sealed once and
\* after the last one heard; behind its acknowledgement of epoch e, under its key.
Words(q, m, heard, e) ==
    /\ \A i \in DOMAIN q : ~ IsForm(q[i])
    /\ \A i \in DOMAIN q : IsChat(q[i]) =>
          /\ q[i].envelope.sender = m /\ q[i].envelope.genuine
          /\ q[i].envelope.kind \in {"Chat", "Color"}
          /\ heard < q[i].envelope.sequence
    /\ \A i, j \in DOMAIN q : i < j /\ IsChat(q[i]) /\ IsChat(q[j])
                                 => q[i].envelope.sequence < q[j].envelope.sequence
    /\ \A i, j \in DOMAIN q : i < j /\ IsAck(q[i], e) /\ IsChat(q[j])
                                 => q[j].envelope.epoch = e

\* A session that is there numbers on from what it sent, and has the key it
\* has acknowledged.
KeepsCount(q, heard, last, key, e) ==
    /\ heard <= last
    /\ \A i \in DOMAIN q : IsChat(q[i]) => q[i].envelope.sequence <= last
    /\ (\E i \in DOMAIN q : IsAck(q[i], e)) => key = e

\* Everything is sealed under the key of epoch e.
Under(q, e) == \A i \in DOMAIN q : IsChat(q[i]) => q[i].envelope.epoch = e

Outside(c) ==
    c \in DOMAIN connections /\ connections[c].role # "Member" =>
        /\ session[c].status # "member"
        /\ Patient(up[c])
        /\ connections[c].role = "Pending" => \A i \in DOMAIN up[c] : ~ IsForm(up[c][i])
        /\ \A i \in DOMAIN down[c] : ~ IsAdmission(down[c][i])

\* The member's own id, its words, and - once it has acknowledged - its key.
Standing(c, m) ==
    /\ session[c].status = "member" => session[c].id = m
    /\ \A i \in DOMAIN down[c] : IsAdmission(down[c][i]) => down[c][i].id = m
    /\ Words(up[c], m, LastHeard(m), epoch)
    /\ Live(c) => KeepsCount(up[c], LastHeard(m), session[c].senderSequence,
                             session[c].epoch, epoch)
    /\ m \notin pendingEpoch.awaiting =>
          /\ Under(up[c], epoch)
          /\ Live(c) => session[c].epoch = epoch

Inside(c) == \A m \in RegisteredMember(c) : Standing(c, m)

\* Only the host participant is told of timeouts it has to answer.
Unprompted(c) == \A i \in DOMAIN down[c] : ~ IsNotice(down[c][i])

\* Every connection but the host's own, while the room runs.
Behaves(c) == Outside(c) /\ Inside(c) /\ Unprompted(c)

\* What was handed to a member's connection last holds no reproach.
Unreproached ==
    \A m \in DOMAIN members : \A i \in DOMAIN outgoing.send[members[m].connection] :
        ~ IsReproach(outgoing.send[members[m].connection][i])

HonestInv ==
    /\ Running => \A c \in Conn \ {HostConnection} : Behaves(c)
    /\ Unreproached

\* What a participant sends, message by message.
LEMMA UpwardSeq ==
    ASSUME NEW q \in Seq(Upward), NEW i \in DOMAIN q
    PROVE  /\ IsChat(q[i]) => /\ q[i].envelope \in AnyEnvelope
                              /\ q[i].envelope.sequence \in Nat /\ q[i].envelope.epoch \in Nat
           /\ IsChat(q[i]) => ~ IsForm(q[i]) /\ \A e : ~ IsAck(q[i], e)
           /\ IsForm(q[i]) => \A e : ~ IsAck(q[i], e)
  <1>1. q[i] \in Upward
    OBVIOUS
  <1>. QED  BY <1>1 DEF Upward, AnyEnvelope, Envelope, IsChat, IsForm, IsAck

\* The actor takes the oldest message.
LEMMA PatientTake ==
    ASSUME NEW q \in Seq(Upward), q # <<>>, Patient(q)
    PROVE  /\ Patient(Tail(q))
           /\ IsForm(q[1]) => \A i \in DOMAIN Tail(q) : ~ IsForm(Tail(q)[i])
           /\ (\A i \in DOMAIN q : ~ IsForm(q[i])) => \A i \in DOMAIN Tail(q) : ~ IsForm(Tail(q)[i])
  <1>0. /\ 1 \in DOMAIN q
        /\ \A i \in DOMAIN Tail(q) : i \in Nat /\ i + 1 \in DOMAIN q /\ Tail(q)[i] = q[i + 1]
        /\ \A i \in DOMAIN Tail(q) : i # 0
    BY Rest
  <1>. QED  BY <1>0 DEF Patient

\* What a member has still to say stays in order once its first message is
\* read.
LEMMA WordsTake ==
    ASSUME NEW q \in Seq(Upward), q # <<>>, NEW m, NEW h, NEW e, Words(q, m, h, e)
    PROVE  /\ Words(Tail(q), m, h, e)
           /\ IsChat(q[1]) => Words(Tail(q), m, q[1].envelope.sequence, e)
           /\ IsAck(q[1], e) => Under(Tail(q), e)
           /\ Under(q, e) => Under(Tail(q), e)
  <1>0. /\ 1 \in DOMAIN q
        /\ \A i \in DOMAIN Tail(q) : i \in Nat /\ i + 1 \in DOMAIN q /\ Tail(q)[i] = q[i + 1] /\ 1 < i + 1
    BY Rest
  <1>. DEFINE p == Tail(q)
  <1>1. \A i, j \in DOMAIN p : i < j => i + 1 < j + 1
    BY <1>0
  <1>. HIDE DEF p
  <1>2. \A i \in DOMAIN p : i + 1 \in DOMAIN q /\ p[i] = q[i + 1] /\ 1 < i + 1
    BY <1>0 DEF p
  <1>3. Words(p, m, h, e)
    BY <1>1, <1>2 DEF Words
  <1>4. IsChat(q[1]) => Words(p, m, q[1].envelope.sequence, e)
    BY <1>0, <1>1, <1>2 DEF Words
  <1>5. IsAck(q[1], e) => Under(p, e)
    BY <1>0, <1>2 DEF Words, Under
  <1>6. Under(q, e) => Under(p, e)
    BY <1>2 DEF Under
  <1>. QED  BY <1>3, <1>4, <1>5, <1>6 DEF p

\* The member's count goes on from the message that was just read.
LEMMA CountTake ==
    ASSUME NEW q \in Seq(Upward), q # <<>>, NEW h, NEW last, NEW key, NEW e,
           KeepsCount(q, h, last, key, e)
    PROVE  /\ KeepsCount(Tail(q), h, last, key, e)
           /\ IsChat(q[1]) => KeepsCount(Tail(q), q[1].envelope.sequence, last, key, e)
           /\ IsAck(q[1], e) => key = e
  <1>0. /\ 1 \in DOMAIN q
        /\ \A i \in DOMAIN Tail(q) : i + 1 \in DOMAIN q /\ Tail(q)[i] = q[i + 1]
    BY Rest
  <1>. QED  BY <1>0 DEF KeepsCount

\* The room moves on to the next epoch, whose key nobody can have acknowledged.
LEMMA WordsInNextEpoch ==
    ASSUME NEW q \in Seq(Upward), NEW m, NEW h \in Nat, NEW e, NEW e2, Words(q, m, h, e),
           \A i \in DOMAIN q : ~ IsAck(q[i], e2)
    PROVE  /\ Words(q, m, 0, e2)
           /\ \A last \in Nat : \A key : KeepsCount(q, h, last, key, e) => KeepsCount(q, 0, last, key, e2)
  <1>1. \A i \in DOMAIN q : IsChat(q[i]) => q[i].envelope.sequence \in Nat
    BY UpwardSeq
  <1>2. Words(q, m, 0, e2)
    BY <1>1 DEF Words
  <1>3. \A last \in Nat : \A key : KeepsCount(q, h, last, key, e) => KeepsCount(q, 0, last, key, e2)
    BY DEF KeepsCount
  <1>. QED  BY <1>2, <1>3

\* A message is sent.
LEMMA AppendSays ==
    ASSUME NEW q \in Seq(Upward), NEW msg \in Upward
    PROVE  /\ Append(q, msg) \in Seq(Upward)
           /\ \A i \in DOMAIN Append(q, msg) :
                 /\ i \in Nat
                 /\ \/ i \in DOMAIN q /\ Append(q, msg)[i] = q[i]
                    \/ Append(q, msg)[i] = msg /\ i = Len(q) + 1
           /\ \A i \in DOMAIN q : i \in Nat /\ i < Len(q) + 1
  OBVIOUS

\* A message that is neither a form nor a chat.
LEMMA PlainAppend ==
    ASSUME NEW q \in Seq(Upward), NEW msg \in Upward, ~ IsForm(msg), ~ IsChat(msg)
    PROVE  /\ Patient(q) => Patient(Append(q, msg))
           /\ (\A i \in DOMAIN q : ~ IsForm(q[i]))
                 => \A i \in DOMAIN Append(q, msg) : ~ IsForm(Append(q, msg)[i])
           /\ \A m, h, e : Words(q, m, h, e) => Words(Append(q, msg), m, h, e)
           /\ \A e : Under(q, e) => Under(Append(q, msg), e)
  <1>. DEFINE p == Append(q, msg)
  <1>1. /\ \A i \in DOMAIN p : /\ i \in Nat
                               /\ \/ i \in DOMAIN q /\ p[i] = q[i]
                                  \/ p[i] = msg /\ i = Len(q) + 1
        /\ \A i \in DOMAIN q : i \in Nat /\ i < Len(q) + 1
    BY AppendSays
  <1>. HIDE DEF p
  <1>2. \A i \in DOMAIN p : IsForm(p[i]) \/ IsChat(p[i]) => i \in DOMAIN q /\ p[i] = q[i]
    BY <1>1
  <1>3. Patient(q) => Patient(p)
    BY <1>2 DEF Patient
  <1>4. (\A i \in DOMAIN q : ~ IsForm(q[i])) => \A i \in DOMAIN p : ~ IsForm(p[i])
    BY <1>2
  <1>5. ASSUME NEW m, NEW h, NEW e, Words(q, m, h, e)
        PROVE  Words(p, m, h, e)
    <2>1. /\ \A i \in DOMAIN p : ~ IsForm(p[i])
          /\ \A i \in DOMAIN p : IsChat(p[i]) =>
                /\ p[i].envelope.sender = m /\ p[i].envelope.genuine
                /\ p[i].envelope.kind \in {"Chat", "Color"}
                /\ h < p[i].envelope.sequence
      BY <1>2, <1>5 DEF Words
    <2>2. \A i, j \in DOMAIN p : i < j /\ IsChat(p[i]) /\ IsChat(p[j])
                                  => p[i].envelope.sequence < p[j].envelope.sequence
      BY <1>2, <1>5 DEF Words
    <2>3. ASSUME NEW i \in DOMAIN p, NEW j \in DOMAIN p, i < j, IsAck(p[i], e), IsChat(p[j])
          PROVE  p[j].envelope.epoch = e
      <3>1. j \in DOMAIN q /\ p[j] = q[j] /\ j < Len(q) + 1 /\ j \in Nat /\ i \in Nat /\ Len(q) \in Nat
        BY <1>1, <1>2, <2>3
      <3>2. i # Len(q) + 1
        BY <2>3, <3>1
      <3>3. i \in DOMAIN q /\ p[i] = q[i]
        BY <1>1, <3>2
      <3>. QED  BY <1>5, <2>3, <3>1, <3>3 DEF Words
    <2>. QED  BY <2>1, <2>2, <2>3 DEF Words
  <1>6. \A e : Under(q, e) => Under(p, e)
    BY <1>2 DEF Under
  <1>. QED  BY <1>3, <1>4, <1>5, <1>6 DEF p

\* The key of epoch k is installed and acknowledged.
LEMMA AckAppend ==
    ASSUME NEW q \in Seq(Upward), NEW msg \in Upward, NEW k, IsAck(msg, k), NEW key \in Nat, NEW e \in Nat,
           k \in Nat, key < k, k <= e, NEW h, NEW last, KeepsCount(q, h, last, key, e)
    PROVE  KeepsCount(Append(q, msg), h, last, k, e)
  <1>. DEFINE p == Append(q, msg)
  <1>1. \A i \in DOMAIN p : (i \in DOMAIN q /\ p[i] = q[i]) \/ p[i] = msg
    BY AppendSays
  <1>. HIDE DEF p
  <1>2. \A i \in DOMAIN q : ~ IsAck(q[i], e)
    BY DEF KeepsCount
  <1>3. ASSUME NEW i \in DOMAIN p, IsAck(p[i], e)
        PROVE  k = e
    <2>1. p[i] = msg
      BY <1>1, <1>2, <1>3
    <2>. QED  BY <1>3, <2>1 DEF IsAck
  <1>4. \A i \in DOMAIN p : IsChat(p[i]) => i \in DOMAIN q /\ p[i] = q[i]
    BY <1>1 DEF IsAck, IsChat
  <1>. QED  BY <1>3, <1>4 DEF KeepsCount, p

\* A chat is sealed with the next number, under the installed key.
LEMMA ChatAppend ==
    ASSUME NEW q \in Seq(Upward), NEW msg \in Upward, IsChat(msg), NEW m, NEW h \in Nat,
           NEW last \in Nat, NEW key, NEW e, Words(q, m, h, e), KeepsCount(q, h, last, key, e),
           msg.envelope.sender = m, msg.envelope.genuine, msg.envelope.kind \in {"Chat", "Color"},
           msg.envelope.sequence = last + 1, msg.envelope.epoch = key
    PROVE  /\ Words(Append(q, msg), m, h, e)
           /\ KeepsCount(Append(q, msg), h, last + 1, key, e)
           /\ Under(q, e) /\ key = e => Under(Append(q, msg), e)
  <1>. DEFINE p == Append(q, msg)
  <1>1. /\ \A i \in DOMAIN p : /\ i \in Nat
                               /\ \/ i \in DOMAIN q /\ p[i] = q[i]
                                  \/ p[i] = msg /\ i = Len(q) + 1
        /\ \A i \in DOMAIN q : i \in Nat /\ i < Len(q) + 1
        /\ Len(q) \in Nat
    BY AppendSays
  <1>. HIDE DEF p
  <1>2. ~ IsForm(msg) /\ ~ IsAck(msg, e)
    BY DEF IsChat, IsForm, IsAck
  <1>3. /\ h <= last
        /\ \A i \in DOMAIN q : IsChat(q[i]) => q[i].envelope.sequence <= last /\ q[i].envelope.sequence \in Nat
        /\ (\E i \in DOMAIN q : IsAck(q[i], e)) => key = e
    BY UpwardSeq DEF KeepsCount
  <1>4. /\ \A i \in DOMAIN p : ~ IsForm(p[i])
        /\ \A i \in DOMAIN p : IsChat(p[i]) =>
              /\ p[i].envelope.sender = m /\ p[i].envelope.genuine
              /\ p[i].envelope.kind \in {"Chat", "Color"}
              /\ h < p[i].envelope.sequence
    <2>. SUFFICES ASSUME NEW i \in DOMAIN p
                  PROVE  /\ ~ IsForm(p[i])
                         /\ IsChat(p[i]) => /\ p[i].envelope.sender = m /\ p[i].envelope.genuine
                                            /\ p[i].envelope.kind \in {"Chat", "Color"}
                                            /\ h < p[i].envelope.sequence
      OBVIOUS
    <2>1. CASE i \in DOMAIN q /\ p[i] = q[i]
      BY <2>1 DEF Words
    <2>2. CASE p[i] = msg
      BY <1>2, <1>3, <2>2
    <2>. QED  BY <1>1, <2>1, <2>2
  <1>5. ASSUME NEW i \in DOMAIN p, NEW j \in DOMAIN p, i < j, IsChat(p[i]), IsChat(p[j])
        PROVE  p[i].envelope.sequence < p[j].envelope.sequence
    <2>1. i \in DOMAIN q /\ p[i] = q[i]
      BY <1>1, <1>5
    <2>2. CASE j \in DOMAIN q /\ p[j] = q[j]
      BY <1>5, <2>1, <2>2 DEF Words
    <2>3. CASE p[j] = msg
      BY <1>3, <1>5, <2>1, <2>3
    <2>. QED  BY <1>1, <2>2, <2>3
  <1>6. ASSUME NEW i \in DOMAIN p, NEW j \in DOMAIN p, i < j, IsAck(p[i], e), IsChat(p[j])
        PROVE  p[j].envelope.epoch = e
    <2>1. i \in DOMAIN q /\ p[i] = q[i]
      BY <1>1, <1>2, <1>6
    <2>2. CASE j \in DOMAIN q /\ p[j] = q[j]
      BY <1>6, <2>1, <2>2 DEF Words
    <2>3. CASE p[j] = msg
      BY <1>3, <1>6, <2>1, <2>3
    <2>. QED  BY <1>1, <2>2, <2>3
  <1>7. Words(p, m, h, e)
    BY <1>4, <1>5, <1>6 DEF Words
  <1>8. KeepsCount(p, h, last + 1, key, e)
    <2>1. h <= last + 1
      BY <1>3
    <2>2. \A i \in DOMAIN p : IsChat(p[i]) => p[i].envelope.sequence <= last + 1
      BY <1>1, <1>3
    <2>3. (\E i \in DOMAIN p : IsAck(p[i], e)) => key = e
      BY <1>1, <1>2, <1>3
    <2>. QED  BY <2>1, <2>2, <2>3 DEF KeepsCount
  <1>9. Under(q, e) /\ key = e => Under(p, e)
    BY <1>1 DEF Under
  <1>. QED  BY <1>7, <1>8, <1>9 DEF p

-----------------------------------------------------------------------------
(* What a step of the actor does to a connection it is not about *)

\* Neither an admission nor a reproach nor a notice.
Plain(a) == \A i \in DOMAIN a : ~ IsAdmission(a[i]) /\ ~ IsReproach(a[i])

Civil(d) == \A i \in DOMAIN outgoing'.send[d] : ~ IsReproach(outgoing'.send[d][i])

KeepsRole(d) ==
    /\ d \in DOMAIN connections
    /\ connections'[d].role = connections[d].role
    /\ connections'[d].id = connections[d].id

\* The same has been heard of member m, and it is awaited if it was.
KeepsStanding(m) ==
    /\ LastHeard(m)' = LastHeard(m)
    /\ m \notin pendingEpoch'.awaiting => m \notin pendingEpoch.awaiting

BeginsEpoch ==
    /\ epoch' = epoch + 1 /\ chatReplay' = Empty
    /\ pendingEpoch'.awaiting = DOMAIN members'

KeepsEpoch(d) ==
    /\ epoch' = epoch
    /\ \A m : HasRole(d, "Member") /\ m = connections[d].id => KeepsStanding(m)

PassesBy(d) ==
    Running' /\ d \in DOMAIN connections' =>
        /\ Running /\ KeepsRole(d) /\ Plain(outgoing'.send[d])
        /\ BeginsEpoch \/ KeepsEpoch(d)

\* The messages of the actor that are neither.
LEMMA PlainMessages ==
    /\ Plain(<<>>)
    /\ \A e : Plain(<<EpochWrap(e)>>)
    /\ \A code : code # "ProtocolViolation" => Plain(<<Error(code)>>)
    /\ Plain(<<JoinRejected>>) /\ Plain(<<Shutdown>>)
    /\ \A env : Plain(<<Relay(env)>>)
    /\ \A ev : ev.type \in EventTypes => Plain(<<ev>>)
    /\ \A q \in Seq(RoomEvent) : Plain(q)
  <1>1. /\ \A e : Plain(<<EpochWrap(e)>>)
        /\ \A code : code # "ProtocolViolation" => Plain(<<Error(code)>>)
        /\ Plain(<<JoinRejected>>) /\ Plain(<<Shutdown>>) /\ Plain(<<>>)
        /\ \A env : Plain(<<Relay(env)>>)
    BY DEF Plain, IsAdmission, IsReproach, EpochWrap, Error, JoinRejected, Shutdown, Relay
  <1>2. \A ev : ev.type \in EventTypes => Plain(<<ev>>)
    BY DEF Plain, IsAdmission, IsReproach, EventTypes
  <1>3. \A ev \in RoomEvent : ~ IsAdmission(ev) /\ ~ IsReproach(ev)
    BY DEF RoomEvent, IsAdmission, IsReproach
  <1>4. \A q \in Seq(RoomEvent) : Plain(q)
    BY <1>3 DEF Plain
  <1>. QED  BY <1>1, <1>2, <1>4

\* Every message but a PROTOCOL_VIOLATION error leaves a batch plain.
LEMMA PlainSends ==
    ASSUME NEW d \in Conn
    PROVE  /\ Plain(Silence[d])
           /\ \A c, msg : Plain(<<msg>>) \/ d # c => Plain(SendTo(c, msg)[d])
           /\ \A C, msg : Plain(<<msg>>) => Plain(SendAll(C, msg)[d])
           /\ \A ms : Plain(Wraps(ms)[d])
           /\ \A gone : Plain(WrapsWithout(gone)[d])
  <1>1. Silence[d] = <<>> /\ Plain(<<>>)
    BY PlainMessages DEF Silence
  <1>2. \A c, msg : SendTo(c, msg)[d] = IF d = c THEN <<msg>> ELSE <<>>
    BY DEF SendTo, Silence
  <1>3. \A C, msg : SendAll(C, msg)[d] \in {<<>>, <<msg>>}
    BY DEF SendAll
  <1>4. \A C, msg : Plain(<<msg>>) => Plain(SendAll(C, msg)[d])
    BY <1>1, <1>3
  <1>5. \A ms : Plain(Wraps(ms)[d])
    BY <1>4, PlainMessages DEF Wraps
  <1>. QED  BY <1>1, <1>2, <1>4, <1>5 DEF WrapsWithout

\* Two plain parts of a batch.
LEMMA PlainThen ==
    ASSUME NEW a \in Seq(Message), NEW b \in Seq(Message), Plain(a), Plain(b)
    PROVE  Plain(a \o b)
  BY Concat DEF Plain

\* A batch with no PROTOCOL_VIOLATION in it is civil.
LEMMA PlainIsCivil ==
    ASSUME NEW d, Plain(outgoing'.send[d])
    PROVE  Civil(d)
  BY DEF Plain, Civil

\* A step that changes no epoch, no standing and no role.
LEMMA FramePasses ==
    ASSUME NEW d, Plain(outgoing'.send[d]), Running' => Running,
           d \in DOMAIN connections' => KeepsRole(d),
           UNCHANGED <<epoch, chatReplay>>,
           Running' => pendingEpoch'.awaiting = pendingEpoch.awaiting
    PROVE  PassesBy(d) /\ Civil(d)
  <1>1. \A m : LastHeard(m)' = LastHeard(m)
    BY DEF LastHeard
  <1>2. Running' => \A m : KeepsStanding(m)
    BY <1>1 DEF KeepsStanding
  <1>. QED  BY <1>2, PlainIsCivil DEF PassesBy, KeepsEpoch

\* Connections leave the registry; the others keep their entries.
LEMMA RestrictRole ==
    ASSUME NEW d, NEW S, connections' = Restrict(connections, DOMAIN connections \ S)
    PROVE  d \in DOMAIN connections' => d \notin S /\ KeepsRole(d)
  BY DEF Restrict, KeepsRole

\* An event the actor ignores touches nobody.
LEMMA NoEffectPasses ==
    ASSUME NEW d \in Conn, NoEffect
    PROVE  PassesBy(d) /\ Civil(d)
  <1>1. outgoing'.send[d] = Silence[d]
    BY DEF NoEffect, Emit
  <1>2. UNCHANGED <<epoch, chatReplay, pendingEpoch, connections, state>>
    BY DEF NoEffect, epochVars
  <1>. QED  BY <1>1, <1>2, PlainSends, FramePasses DEF KeepsRole, Running

\* Members leave.
LEMMA RemovePasses ==
    ASSUME NEW d, NEW gone, NEW lost, NEW type, RemoveMembers(gone, lost, type), Running,
           Plain(outgoing'.send[d])
    PROVE  PassesBy(d) /\ Civil(d) /\ (d \in lost => d \notin DOMAIN connections')
  <1>. DEFINE left == lost \cup {members[m].connection : m \in gone}
  <1>1. connections' = Restrict(connections, DOMAIN connections \ left) /\ BeginsEpoch
    BY DEF RemoveMembers, BeginEpochTransition, BeginsEpoch
  <1>0. lost \subseteq left
    OBVIOUS
  <1>. HIDE DEF left
  <1>2. d \in DOMAIN connections' => KeepsRole(d) /\ d \notin lost
    BY <1>0, <1>1, RestrictRole
  <1>. QED  BY <1>1, <1>2, PlainIsCivil DEF PassesBy

\* A connection is lost, after `first` was sent: nobody but its owner loses it.
LEMMA LosePasses ==
    ASSUME TypeOK, TypeOK', Running, NEW c, NEW first \in [Conn -> Seq(Message)], NEW close,
           LoseConnection(c, first, close), NEW d \in Conn
    PROVE  /\ Plain(first[d]) => PassesBy(d) /\ Civil(d)
           /\ c \notin DOMAIN connections'
  <1>. DEFINE gone == MemberOf(c) \cap DOMAIN members
  <1>1. CASE /\ gone # {}
             /\ RemoveMembers(gone, {c}, "MemberLeft")
             /\ Emit(Then(first, WrapsWithout(gone)), close, {})
    <2>. HIDE DEF gone
    <2>1. outgoing'.send[d] = first[d] \o WrapsWithout(gone)[d]
      BY <1>1 DEF Emit, Then
    <2>2. WrapsWithout(gone)[d] \in Seq(Message)
      BY WrapsType
    <2>3. Plain(first[d]) => Plain(outgoing'.send[d])
      BY <2>1, <2>2, PlainSends, PlainThen
    <2>4. Plain(first[d]) => PassesBy(d) /\ Civil(d)
      BY <1>1, <2>3, RemovePasses
    <2>5. connections' = Restrict(connections, DOMAIN connections \
                             ({c} \cup {members[m].connection : m \in gone}))
      BY <1>1 DEF RemoveMembers
    <2>. QED  BY <2>4, <2>5 DEF Restrict
  <1>2. CASE /\ connections' = Restrict(connections, DOMAIN connections \ {c})
             /\ Emit(first, close, {})
             /\ UNCHANGED <<state, epochVars>>
    <2>1. outgoing'.send[d] = first[d] /\ UNCHANGED <<epoch, chatReplay, pendingEpoch, state>>
      BY <1>2 DEF Emit, epochVars
    <2>2. d \in DOMAIN connections' => KeepsRole(d)
      BY <1>2, RestrictRole
    <2>3. Plain(first[d]) => PassesBy(d) /\ Civil(d)
      BY <2>1, <2>2, FramePasses DEF Running
    <2>. QED  BY <1>2, <2>3 DEF Restrict
  <1>3. \/ /\ gone # {}
           /\ RemoveMembers(gone, {c}, "MemberLeft")
           /\ Emit(Then(first, WrapsWithout(gone)), close, {})
        \/ /\ connections' = Restrict(connections, DOMAIN connections \ {c})
           /\ Emit(first, close, {})
           /\ UNCHANGED <<state, epochVars>>
    BY DEF LoseConnection
  <1>. QED  BY <1>1, <1>2, <1>3

\* A sender is answered with an error and cut off.
LEMMA PunishPasses ==
    ASSUME TypeOK, TypeOK', Running, NEW c \in Conn,
           NEW code \in {"RoomLocked", "RoomClosed", "ProtocolViolation", "RateLimited"},
           Punish(c, code), NEW d \in Conn
    PROVE  /\ PassesBy(d)
           /\ Civil(d) \/ (d = c /\ code = "ProtocolViolation")
           /\ c \notin DOMAIN connections'
  <1>. DEFINE first == SendTo(c, Error(code))
  <1>1. first \in [Conn -> Seq(Message)]
    BY MessageTypes, SendTypes
  <1>2. d # c \/ code # "ProtocolViolation" => Plain(first[d])
    BY PlainSends, PlainMessages
  <1>3. LoseConnection(c, first, {c})
    BY DEF Punish
  <1>. HIDE DEF first
  <1>4. /\ Plain(first[d]) => PassesBy(d) /\ Civil(d)
        /\ c \notin DOMAIN connections'
    BY <1>1, <1>3, LosePasses
  <1>. QED  BY <1>2, <1>4 DEF PassesBy

\* Two parts without a reproach.
LEMMA CivilThen ==
    ASSUME NEW a \in Seq(Message), NEW b \in Seq(Message), Plain(b),
           \A i \in DOMAIN a : ~ IsReproach(a[i]), NEW d, outgoing'.send[d] = a \o b
    PROVE  Civil(d)
  <1>1. \A i \in DOMAIN (a \o b) : \/ i \in DOMAIN a /\ (a \o b)[i] = a[i]
                                   \/ i - Len(a) \in DOMAIN b /\ (a \o b)[i] = b[i - Len(a)]
    BY Concat
  <1>. QED  BY <1>1 DEF Civil, Plain

\* An applicant is let in: the others are given a new key with it.
LEMMA AcceptPasses ==
    ASSUME TypeOK, NEW r \in DOMAIN requests, AcceptJoin(r), NEW d \in Conn
    PROVE  /\ d = requests[r].connection \/ PassesBy(d)
           /\ Civil(d)
  <1>. DEFINE c == requests[r].connection
              m == nextMemberId
              rec == Member(c, requests[r].application, epoch + 1)
              ms == With(members, m, rec)
              new == Entry(c \in DOMAIN connections /\ connections[c].verified, "Member", m)
  <1>1. /\ AtRest /\ BeginsEpoch
        /\ connections' = With(connections, c, new)
        /\ outgoing'.send[d] = SendTo(c, JoinAccepted(m))[d] \o Wraps(ms)[d]
    BY DEF AcceptJoin, BeginEpochTransition, BeginsEpoch, Emit, Then
  <1>. HIDE DEF new, ms, rec
  <1>2. /\ SendTo(c, JoinAccepted(m))[d] = IF d = c THEN <<JoinAccepted(m)>> ELSE <<>>
        /\ JoinAccepted(m) \in Message
    BY MessageTypes DEF SendTo, Silence, TypeOK
  <1>. HIDE DEF c, m
  <1>3. Wraps(ms)[d] \in Seq(Message) /\ Plain(Wraps(ms)[d])
    BY WrapsType, PlainSends
  <1>4. SendTo(c, JoinAccepted(m))[d] \in Seq(Message)
    BY <1>2
  <1>5. d # c => Plain(outgoing'.send[d])
    BY <1>1, <1>2, <1>3, <1>4, PlainMessages, PlainThen
  <1>6. d # c /\ d \in DOMAIN connections' => KeepsRole(d)
    BY <1>1 DEF With, KeepsRole
  <1>7. ~ IsReproach(JoinAccepted(m))
    BY DEF IsReproach, JoinAccepted
  <1>8. Civil(d)
    <2>1. \A i \in DOMAIN SendTo(c, JoinAccepted(m))[d] : ~ IsReproach(SendTo(c, JoinAccepted(m))[d][i])
      BY <1>2, <1>7
    <2>. QED  BY <1>1, <1>3, <1>4, <2>1, CivilThen
  <1>. QED  BY <1>1, <1>5, <1>6, <1>8 DEF PassesBy, AtRest, Running, c

\* Closing the room reproaches nobody.
LEMMA ClosePasses ==
    ASSUME CloseRoom, NEW d \in Conn
    PROVE  PassesBy(d) /\ Civil(d)
  <1>1. outgoing'.send[d] = SendAll(DOMAIN connections, Shutdown)[d] /\ ~ Running'
    BY DEF CloseRoom, Emit, Running
  <1>2. Plain(outgoing'.send[d])
    BY <1>1, PlainSends, PlainMessages
  <1>. QED  BY <1>1, <1>2, PlainIsCivil DEF PassesBy

\* Host commands concern nobody but the applicant they let in.
LEMMA HostPasses ==
    ASSUME TypeOK, HostEvent, NEW d \in Conn
    PROVE  /\ PassesBy(d) \/ \E r \in DOMAIN requests : AcceptJoin(r) /\ d = requests[r].connection
           /\ Civil(d)
  <1>1. ASSUME NEW r \in DOMAIN requests, AcceptJoin(r)
        PROVE  Civil(d) /\ (PassesBy(d) \/ d = requests[r].connection)
    BY <1>1, AcceptPasses
  <1>2. ASSUME NEW r \in DOMAIN requests, TurnAway(r)
        PROVE  PassesBy(d) /\ Civil(d)
    <2>1. /\ outgoing'.send[d] = SendTo(requests[r].connection, JoinRejected)[d]
          /\ connections' = Restrict(connections, DOMAIN connections \ {requests[r].connection})
          /\ UNCHANGED <<epoch, chatReplay, pendingEpoch, state>>
      BY <1>2 DEF TurnAway, Emit, epochVars
    <2>. QED  BY <2>1, PlainSends, PlainMessages, RestrictRole, FramePasses DEF Running
  <1>3. ASSUME NEW r \in DOMAIN timeoutRequests, NEW accepted \in BOOLEAN, DecideTimeoutRequest(r, accepted)
        PROVE  PassesBy(d) /\ Civil(d)
    <2>1. outgoing'.send[d] = Silence[d]
          /\ UNCHANGED <<connections, epoch, chatReplay, pendingEpoch, state>>
      BY <1>3 DEF DecideTimeoutRequest, Emit, epochVars
    <2>. QED  BY <2>1, PlainSends, FramePasses DEF Running, KeepsRole
  <1>4. ASSUME NEW m \in DOMAIN members, Kick(m)
        PROVE  PassesBy(d) /\ Civil(d)
    <2>1. outgoing'.send[d] = WrapsWithout({m})[d] /\ RemoveMembers({m}, {}, "MemberKicked") /\ Running
      BY <1>4 DEF Kick, Emit, AtRest, Running
    <2>. QED  BY <2>1, PlainSends, RemovePasses
  <1>5. CASE NewId
    <2>1. /\ outgoing'.send[d] = Silence[d]
          /\ connections' = Restrict(connections, DOMAIN connections \ NonMembers)
          /\ UNCHANGED <<epoch, chatReplay, pendingEpoch, state>>
      BY <1>5 DEF NewId, DropNonMembers, Emit, epochVars
    <2>. QED  BY <2>1, PlainSends, RestrictRole, FramePasses DEF Running
  <1>6. ASSUME NEW p, SetPolicy(p)
        PROVE  PassesBy(d) /\ Civil(d)
    <2>. DEFINE event == [type |-> "JoinPolicyChanged", sequence |-> roomSequence + 1,
                          epoch |-> epoch, open |-> p = "Open"]
    <2>1. /\ outgoing'.send[d] = SendAll(ConnectionsOf(members) \ {HostConnection}, event)[d]
          /\ \/ connections' = Restrict(connections, DOMAIN connections \ NonMembers)
             \/ connections' = connections
          /\ UNCHANGED <<epoch, chatReplay, pendingEpoch>> /\ Running
      BY <1>6 DEF SetPolicy, DropNonMembers, Emit, epochVars, AtRest, Running
    <2>2. event.type \in EventTypes
      BY DEF EventTypes
    <2>. HIDE DEF event
    <2>3. Plain(outgoing'.send[d])
      BY <2>1, <2>2, PlainMessages, PlainSends
    <2>4. d \in DOMAIN connections' => KeepsRole(d)
      BY <2>1, RestrictRole DEF KeepsRole
    <2>. QED  BY <2>1, <2>3, <2>4, FramePasses
  <1>7. CASE CloseRequested
    BY <1>7, ClosePasses DEF CloseRequested
  <1>. QED  BY <1>1, <1>2, <1>3, <1>4, <1>5, <1>6, <1>7 DEF HostEvent, AcceptRefused, RejectJoin

\* An epoch's timeout, or a tick, reproaches nobody.
LEMMA TimePasses ==
    ASSUME EpochTimeout \/ Tick, NEW d \in Conn
    PROVE  PassesBy(d) /\ Civil(d)
  <1>1. CASE EpochTimeout
    <2>. DEFINE late == pendingEpoch.awaiting
    <2>1. CASE CloseRoom
      BY <2>1, ClosePasses
    <2>2. CASE /\ RemoveMembers(late \cap DOMAIN members, {}, "MemberLeft")
               /\ Emit(WrapsWithout(late),
                       {members[m].connection : m \in late \cap DOMAIN members}, {})
      <3>1. Running /\ outgoing'.send[d] = WrapsWithout(late)[d]
        BY <1>1, <2>2 DEF EpochTimeout, Expired, InTransition, Running, Emit
      <3>. QED  BY <2>2, <3>1, PlainSends, RemovePasses
    <2>. QED  BY <1>1, <2>1, <2>2 DEF EpochTimeout
  <1>2. CASE Tick
    <2>1. /\ outgoing'.send[d] = Silence[d] /\ UNCHANGED <<connections, epoch, chatReplay, state>>
          /\ pendingEpoch'.awaiting = pendingEpoch.awaiting
      BY <1>2 DEF Tick, Emit
    <2>. QED  BY <2>1, PlainSends, FramePasses DEF Running, KeepsRole
  <1>. QED  BY <1>1, <1>2

\* Whoever connects was not there before.
LEMMA ConnectPasses ==
    ASSUME TypeOK, ClientConnected, NEW d \in Conn
    PROVE  Civil(d) /\ (d # nextConn => PassesBy(d))
  <1>1. /\ outgoing'.send[d] = Silence[d] /\ UNCHANGED <<epoch, chatReplay, pendingEpoch, state>>
        /\ \/ connections' = connections
           \/ connections' = With(connections, nextConn, Entry(FALSE, "Admission", 0))
    BY DEF ClientConnected, Emit, epochVars
  <1>2. d # nextConn /\ d \in DOMAIN connections' => KeepsRole(d)
    BY <1>1 DEF With, KeepsRole
  <1>3. Plain(outgoing'.send[d])
    BY <1>1, PlainSends
  <1>. QED  BY <1>1, <1>2, <1>3, PlainIsCivil, FramePasses DEF Running

-----------------------------------------------------------------------------
(* What a message does to the connection it came over *)

\* A form: the connection waits from now on.
Applies(c, msg) ==
    /\ IsForm(msg) /\ c \in DOMAIN connections
    /\ connections[c].role = "Admission" /\ connections'[c].role = "Pending"

\* An acknowledgement that counts.
Acknowledges(c, msg) ==
    /\ IsAck(msg, epoch) /\ KeepsRole(c)
    /\ epoch' = epoch /\ \A m : LastHeard(m)' = LastHeard(m)

\* A chat of the member's own that is accepted.
Speaks(c, msg) ==
    /\ IsChat(msg) /\ KeepsRole(c) /\ HasRole(c, "Member")
    /\ connections[c].id = msg.envelope.sender
    /\ epoch' = epoch /\ UNCHANGED pendingEpoch
    /\ \A m : m = connections[c].id => LastHeard(m)' = msg.envelope.sequence

Moves(c, msg) ==
    /\ Running /\ Plain(outgoing'.send[c])
    /\ Applies(c, msg) \/ Acknowledges(c, msg) \/ Speaks(c, msg)

\* What a participant is punished for: a form out of turn, or a chat that is not
\* its own or not acceptable.
Offends(c, msg) ==
    \/ IsForm(msg)
    \/ /\ IsChat(msg) /\ c # HostConnection
       /\ ChatUnauthorised(c, msg.envelope) \/ ChatRefused(c, msg.envelope)

\* What is handled for connection c concerns nobody else.
Concerns(c, msg, d) ==
    /\ PassesBy(d) \/ (d = c /\ Moves(c, msg))
    /\ Civil(d) \/ (d = c /\ Running /\ Offends(c, msg) /\ c \notin DOMAIN connections')

\* The registry names one member per connection.
LEMMA OwnEntry ==
    ASSUME KeyInv, NEW c, NEW d, d # c
    PROVE  HasRole(d, "Member") => connections[d].id \notin RegisteredMember(c)
  BY DEF KeyInv, TablesInv, TableFacts, Agree, RegisteredMember, HasRole

\* A join form concerns the connection that filed it and no other.
LEMMA FormConcerns ==
    ASSUME KeyInv, TypeOK', NEW c \in Conn, NEW msg, IsForm(msg), NEW d \in Conn, Running,
           JoinRequested(c, msg.application) \/ JoinRefused(c)
    PROVE  Concerns(c, msg, d)
  <1>1. TypeOK
    BY DEF KeyInv, TablesInv
  <1>2. CASE JoinRequested(c, msg.application)
    <2>. DEFINE new == Entry(TRUE, "Pending", nextRequestId)
    <2>1. /\ outgoing'.send[d] = Silence[d] /\ outgoing'.send[c] = Silence[c]
          /\ UNCHANGED <<epoch, chatReplay, pendingEpoch, state>>
          /\ connections' = [connections EXCEPT ![c] = new]
          /\ JoinRefusal(c) = "None"
      BY <1>2 DEF JoinRequested, Emit, epochVars
    <2>2. c \in DOMAIN connections /\ connections[c].role = "Admission" /\ new.role = "Pending"
      BY <2>1 DEF JoinRefusal, HasRole, Entry
    <2>. HIDE DEF new
    <2>3. connections'[c] = new
      BY <2>1, <2>2
    <2>4. d # c /\ d \in DOMAIN connections' => KeepsRole(d)
      BY <2>1 DEF KeepsRole
    <2>5. Plain(outgoing'.send[d]) /\ Plain(outgoing'.send[c])
      BY <2>1, PlainSends
    <2>6. d # c => PassesBy(d)
      BY <2>1, <2>4, <2>5, FramePasses DEF Running
    <2>7. Moves(c, msg)
      BY <2>2, <2>3, <2>5 DEF Moves, Applies
    <2>8. Civil(d)
      BY <2>5, PlainIsCivil
    <2>. QED  BY <2>6, <2>7, <2>8 DEF Concerns
  <1>3. CASE JoinRefused(c)
    <2>1. Punish(c, JoinRefusal(c))
          /\ JoinRefusal(c) \in {"RoomLocked", "RoomClosed", "ProtocolViolation", "RateLimited"}
      BY <1>3 DEF JoinRefused, JoinRefusal
    <2>. DEFINE code == JoinRefusal(c)
    <2>. HIDE DEF code
    <2>2. /\ PassesBy(d)
          /\ Civil(d) \/ (d = c /\ code = "ProtocolViolation")
          /\ c \notin DOMAIN connections'
      BY <1>1, <2>1, PunishPasses DEF code
    <2>. QED  BY <2>2 DEF Concerns, Offends
  <1>. QED  BY <1>2, <1>3

\* An acknowledgement concerns the connection that sent it and no other.
LEMMA AckConcerns ==
    ASSUME KeyInv, NEW c \in Conn, NEW msg, msg.type = "EpochAck", EpochAck(c, msg.epoch),
           NEW d \in Conn
    PROVE  Concerns(c, msg, d)
  <1>1. /\ Running /\ msg.epoch = pendingEpoch.epoch /\ pendingEpoch.epoch = epoch
        /\ TypeOK
    BY DEF KeyInv, KeyFacts, TablesInv, TransitionShape, EpochAck, Counts, InTransition, Running
  <1>2. /\ UNCHANGED <<epoch, chatReplay, connections>>
        /\ \/ outgoing'.send = Silence
              /\ pendingEpoch' = [pendingEpoch EXCEPT !.awaiting = pendingEpoch.awaiting \ RegisteredMember(c)]
           \/ /\ outgoing'.send = pendingMembership /\ pendingEpoch' = NoPending
              /\ pendingEpoch.awaiting \ RegisteredMember(c) = {}
    BY <1>1 DEF EpochAck, Emit
  <1>3. pendingEpoch'.awaiting = pendingEpoch.awaiting \ RegisteredMember(c)
    BY <1>1, <1>2 DEF TypeOK, NoPending
  <1>4. \A x \in Conn : Plain(outgoing'.send[x])
    BY <1>1, <1>2, PlainSends, PlainMessages DEF TypeOK
  <1>5. \A m : LastHeard(m)' = LastHeard(m)
    BY <1>2 DEF LastHeard
  <1>6. \A x \in DOMAIN connections' : KeepsRole(x)
    BY <1>2 DEF KeepsRole
  <1>7. d # c => PassesBy(d)
    <2>. SUFFICES ASSUME d # c, HasRole(d, "Member"), NEW m, m = connections[d].id
                  PROVE  KeepsStanding(m)
      BY <1>1, <1>2, <1>4, <1>6 DEF PassesBy, KeepsEpoch
    <2>1. m \notin RegisteredMember(c)
      BY OwnEntry
    <2>. QED  BY <1>3, <1>5, <2>1 DEF KeepsStanding
  <1>8. c \in DOMAIN connections
    BY DEF EpochAck, Counts, RegisteredMember, HasRole
  <1>9. Moves(c, msg)
    BY <1>1, <1>2, <1>4, <1>5, <1>6, <1>8 DEF Moves, Acknowledges, IsAck
  <1>. QED  BY <1>4, <1>7, <1>9, PlainIsCivil DEF Concerns

\* An accepted chat raises what has been heard of its sender.
LEMMA HeardConcerns ==
    ASSUME KeyInv, NEW c \in Conn, NEW msg, IsChat(msg), NEW d \in Conn,
           ChatRelayed(c, msg.envelope) \/ TimeoutRequested(c, msg.envelope)
    PROVE  Concerns(c, msg, d)
  <1>. DEFINE env == msg.envelope
              s == env.sender
  <1>1. /\ Running /\ RegisteredMember(c) = {s}
        /\ UNCHANGED <<epoch, pendingEpoch, connections>>
        /\ chatReplay' = With(chatReplay, s, env.sequence)
    BY DEF ChatRelayed, TimeoutRequested, Sender, ChatAllowed, RecordSequence
  <1>2. \A x \in Conn : Plain(outgoing'.send[x])
    <2>1. \/ outgoing'.send = SendAll(Recipients(c), Relay(env)) \/ outgoing'.send = Silence
      BY DEF ChatRelayed, TimeoutRequested, Emit
    <2>. QED  BY <2>1, PlainSends, PlainMessages
  <1>3. /\ LastHeard(s)' = env.sequence
        /\ \A m : m # s => LastHeard(m)' = LastHeard(m)
    BY <1>1 DEF LastHeard, With
  <1>4. \A x \in DOMAIN connections' : KeepsRole(x)
    BY <1>1 DEF KeepsRole
  <1>. HIDE DEF s, env
  <1>5. d # c => PassesBy(d)
    <2>. SUFFICES ASSUME d # c, HasRole(d, "Member"), NEW m, m = connections[d].id
                  PROVE  KeepsStanding(m)
      BY <1>1, <1>2, <1>4 DEF PassesBy, KeepsEpoch
    <2>1. m # s
      BY <1>1, OwnEntry
    <2>. QED  BY <1>1, <1>3, <2>1 DEF KeepsStanding
  <1>6. HasRole(c, "Member") /\ connections[c].id = s /\ c \in DOMAIN connections'
    BY <1>1 DEF RegisteredMember, HasRole
  <1>7. \A m : m = connections[c].id => LastHeard(m)' = env.sequence
    BY <1>3, <1>6
  <1>8. Speaks(c, msg)
    BY <1>1, <1>4, <1>6, <1>7 DEF Speaks, s, env
  <1>. QED  BY <1>1, <1>2, <1>5, <1>8, PlainIsCivil DEF Concerns, Moves

\* An encrypted message concerns its sender's connection and no other.
LEMMA ChatConcerns ==
    ASSUME KeyInv, TypeOK', NEW c \in Conn, NEW msg, IsChat(msg), NEW d \in Conn,
           NEW env, env = msg.envelope,
           \/ ChatDuringTransition(c) \/ ChatUnauthorised(c, env) \/ ChatRateLimited(c, env)
           \/ ChatAbusive(c, env) \/ ChatRefused(c, env) \/ ChatRelayed(c, env)
           \/ TimeoutRequested(c, env)
    PROVE  Concerns(c, msg, d)
  <1>0. TypeOK
    BY DEF KeyInv, TablesInv
  <1>1. Plain(SendTo(c, Error("RateLimited"))[d]) /\ Plain(Silence[d])
    BY PlainSends, PlainMessages
  <1>2. CASE ChatDuringTransition(c)
    <2>1. /\ outgoing'.send[d] \in {Silence[d], SendTo(c, Error("RateLimited"))[d]}
          /\ UNCHANGED <<connections, epoch, chatReplay, pendingEpoch, state>>
      BY <1>2 DEF ChatDuringTransition, Emit, epochVars
    <2>. QED  BY <1>1, <2>1, FramePasses DEF Concerns, Running, KeepsRole
  <1>3. CASE ChatRateLimited(c, env)
    <2>1. /\ outgoing'.send[d] \in {Silence[d], SendTo(c, Error("RateLimited"))[d]}
          /\ UNCHANGED <<connections, epoch, chatReplay, pendingEpoch, state>>
      BY <1>3 DEF ChatRateLimited, Emit, epochVars
    <2>. QED  BY <1>1, <2>1, FramePasses DEF Concerns, Running, KeepsRole
  <1>4. CASE ChatAbusive(c, env)
    <2>. DEFINE gone == {env.sender}
    <2>1. /\ outgoing'.send[d] = SendTo(c, Error("RateLimited"))[d] \o WrapsWithout(gone)[d]
          /\ RemoveMembers(gone, {}, "MemberKicked") /\ Running
      BY <1>4 DEF ChatAbusive, Emit, Then, Sender, ChatAllowed
    <2>. HIDE DEF gone
    <2>2. SendTo(c, Error("RateLimited"))[d] \in Seq(Message) /\ WrapsWithout(gone)[d] \in Seq(Message)
      BY <1>0, MessageTypes, SendTypes, WrapsType
    <2>3. Plain(outgoing'.send[d])
      BY <1>1, <2>1, <2>2, PlainSends, PlainThen
    <2>. QED  BY <2>1, <2>3, RemovePasses DEF Concerns
  <1>5. CASE ChatUnauthorised(c, env) \/ (ChatRefused(c, env) /\ c # HostConnection)
    <2>1. /\ Punish(c, "ProtocolViolation") /\ Running /\ c # HostConnection
      BY <1>5 DEF ChatUnauthorised, ChatRefused, Sender, ChatAllowed
    <2>2. PassesBy(d) /\ (Civil(d) \/ d = c) /\ c \notin DOMAIN connections'
      BY <1>0, <2>1, PunishPasses
    <2>. QED  BY <1>5, <2>1, <2>2 DEF Concerns, Offends
  <1>6. CASE ChatRefused(c, env) /\ c = HostConnection
    <2>1. /\ outgoing'.send[d] = Silence[d]
          /\ UNCHANGED <<connections, epoch, chatReplay, pendingEpoch, state>>
      BY <1>6 DEF ChatRefused, Emit, epochVars
    <2>. QED  BY <1>1, <2>1, FramePasses DEF Concerns, Running, KeepsRole
  <1>7. CASE ChatRelayed(c, env) \/ TimeoutRequested(c, env)
    BY <1>7, HeardConcerns
  <1>. QED  BY <1>2, <1>3, <1>4, <1>5, <1>6, <1>7

\* Whatever the message is.
LEMMA HandleConcerns ==
    ASSUME KeyInv, TypeOK', NEW c \in Conn, NEW msg \in Upward, Handle(c, msg), NEW d \in Conn
    PROVE  Concerns(c, msg, d)
  <1>0. TypeOK
    BY DEF KeyInv, TablesInv
  <1>1. CASE NoEffect
    BY <1>1, NoEffectPasses DEF Concerns
  <1>2. CASE PasswordVerified(c)
    <2>1. /\ outgoing'.send[d] = Silence[d] /\ UNCHANGED <<epoch, chatReplay, pendingEpoch, state>>
          /\ connections' = [connections EXCEPT ![c].verified = TRUE]
      BY <1>2 DEF PasswordVerified, Emit, epochVars
    <2>2. \A x \in DOMAIN connections : connections[x] \in EntryRecord
      BY <1>0 DEF TypeOK, IsMap
    <2>3. d \in DOMAIN connections' => KeepsRole(d)
      BY <2>1, <2>2 DEF KeepsRole, EntryRecord
    <2>. QED  BY <2>1, <2>3, PlainSends, FramePasses DEF Concerns, Running
  <1>3. CASE ConnectionLost(c)
    <2>1. LoseConnection(c, Silence, {}) /\ Running /\ Silence \in [Conn -> Seq(Message)]
      BY <1>3, SendTypes DEF ConnectionLost
    <2>. QED  BY <1>0, <2>1, LosePasses, PlainSends DEF Concerns
  <1>4. CASE RoomClosed(c)
    <2>1. outgoing'.send[d] = SendTo(c, Error("RoomClosed"))[d] /\ ~ Running'
      BY <1>4 DEF RoomClosed, Emit, Running
    <2>. QED  BY <2>1, PlainSends, PlainMessages, PlainIsCivil DEF Concerns, PassesBy
  <1>5. CASE IsForm(msg) /\ (JoinRequested(c, msg.application) \/ JoinRefused(c))
    <2>1. Running
      BY <1>5 DEF JoinRequested, JoinRefused, AtRest, Running
    <2>. QED  BY <1>5, <2>1, FormConcerns
  <1>6. CASE msg.type = "EpochAck" /\ EpochAck(c, msg.epoch)
    BY <1>6, AckConcerns
  <1>7. CASE /\ IsChat(msg)
             /\ \/ ChatDuringTransition(c) \/ ChatUnauthorised(c, msg.envelope)
                \/ ChatRateLimited(c, msg.envelope) \/ ChatAbusive(c, msg.envelope)
                \/ ChatRefused(c, msg.envelope) \/ ChatRelayed(c, msg.envelope)
                \/ TimeoutRequested(c, msg.envelope)
    BY <1>7, ChatConcerns
  <1>8. \/ NoEffect \/ PasswordVerified(c) \/ ConnectionLost(c) \/ RoomClosed(c)
        \/ IsForm(msg) /\ (JoinRequested(c, msg.application) \/ JoinRefused(c))
        \/ msg.type = "EpochAck" /\ EpochAck(c, msg.epoch)
        \/ /\ IsChat(msg)
           /\ \/ ChatDuringTransition(c) \/ ChatUnauthorised(c, msg.envelope)
              \/ ChatRateLimited(c, msg.envelope) \/ ChatAbusive(c, msg.envelope)
              \/ ChatRefused(c, msg.envelope) \/ ChatRelayed(c, msg.envelope)
              \/ TimeoutRequested(c, msg.envelope)
    BY Zenon DEF Handle, PasswordIgnored, DroppedInTransition, EpochAckIgnored, EventAfterClose, IsForm, IsChat
  <1>. QED  BY <1>1, <1>2, <1>3, <1>4, <1>5, <1>6, <1>7, <1>8

-----------------------------------------------------------------------------
(* What a batch does to a connection *)

\* What is on its way was on its way or has just been handed over, and the
\* session is as it was, unless it is over.
Onward(d) ==
    /\ \A i \in DOMAIN down'[d] :
          \/ \E j \in DOMAIN down[d] : down'[d][i] = down[d][j]
          \/ \E j \in DOMAIN outgoing'.send[d] : down'[d][i] = outgoing'.send[d][j]
    /\ session'[d] = session[d] \/ session'[d].status = "closed"

\* The actor keeps its word, and a participant receives no notice.
LEMMA TransmitOnward ==
    ASSUME PathInv, TypeOK', NEW fresh, Transmit(fresh), NEW d \in Conn, d # HostConnection,
           fresh[d] = session[d]
    PROVE  Onward(d)
  <1>. DEFINE q == down[d]
              a == outgoing'.send[d]
  <1>1. q \in Seq(Downward) /\ a \in Seq(Message)
    BY SessionTypes DEF TypeOK
  <1>2. q \in Seq(Downward \cup Message) /\ a \in Seq(Downward \cup Message)
    BY <1>1
  <1>3. session'[d] = session[d] \/ session'[d].status = "closed"
    BY EmptySessions DEF Transmit
  <1>4. NoticesTo(d) = <<>>
    BY DEF NoticesTo
  <1>5. down'[d] = <<>> \/ down'[d] = q \o a \o NoticesTo(d)
    BY DEF Transmit
  <1>. HIDE DEF q, a
  <1>6. q \o a \o <<>> = q \o a
    BY <1>2
  <1>7. \A i \in DOMAIN (q \o a) : \/ i \in DOMAIN q /\ (q \o a)[i] = q[i]
                                   \/ i - Len(q) \in DOMAIN a /\ (q \o a)[i] = a[i - Len(q)]
    BY <1>2, Concat
  <1>8. \A i \in DOMAIN down'[d] : \/ \E j \in DOMAIN q : down'[d][i] = q[j]
                                   \/ \E j \in DOMAIN a : down'[d][i] = a[j]
    <2>1. CASE down'[d] = <<>>
      BY <2>1
    <2>2. CASE down'[d] = q \o a
      <3>. SUFFICES ASSUME NEW i \in DOMAIN (q \o a)
                    PROVE  \/ \E j \in DOMAIN q : (q \o a)[i] = q[j]
                           \/ \E j \in DOMAIN a : (q \o a)[i] = a[j]
        BY <2>2
      <3>. QED  BY <1>7
    <2>3. down'[d] = <<>> \/ down'[d] = q \o a
      BY <1>4, <1>5, <1>6
    <2>. QED  BY <2>1, <2>2, <2>3
  <1>. QED  BY <1>3, <1>8 DEF Onward, q, a

\* A connection that has not been answered yet stays so while the actor passes
\* it by.
LEMMA OnwardUnprompted ==
    ASSUME TypeOK', NEW d \in Conn, Onward(d), Unprompted(d)
    PROVE  Unprompted(d)'
  <1>1. outgoing'.send[d] \in Seq(Message)
    BY DEF TypeOK
  <1>2. \A msg \in Message : ~ IsNotice(msg)
    BY DEF Message, RoomEvent, IsNotice
  <1>3. \A j \in DOMAIN outgoing'.send[d] : ~ IsNotice(outgoing'.send[d][j])
    BY <1>1, <1>2
  <1>. QED  BY <1>3 DEF Onward, Unprompted

\* What a connection that waits to be admitted is after a step.
LEMMA StillOutside ==
    ASSUME NEW d \in Conn, Outside(d), Onward(d), d \in DOMAIN connections,
           connections[d].role # "Member", Plain(outgoing'.send[d]),
           Patient(up'[d]),
           connections'[d].role = "Pending" => \A i \in DOMAIN up'[d] : ~ IsForm(up'[d][i])
    PROVE  Outside(d)'
  <1>1. session'[d].status # "member"
    BY DEF Outside, Onward
  <1>2. \A i \in DOMAIN down'[d] : ~ IsAdmission(down'[d][i])
    BY DEF Outside, Onward, Plain
  <1>. QED  BY <1>1, <1>2 DEF Outside

\* What a member is after a step.
LEMMA StillStanding ==
    ASSUME NEW d \in Conn, NEW m, Standing(d, m), Onward(d), Plain(outgoing'.send[d]),
           Words(up'[d], m, LastHeard(m)', epoch'),
           Live(d) => KeepsCount(up'[d], LastHeard(m)', session[d].senderSequence,
                                 session[d].epoch, epoch'),
           m \notin pendingEpoch'.awaiting =>
              /\ Under(up'[d], epoch')
              /\ Live(d) => session[d].epoch = epoch'
    PROVE  Standing(d, m)'
  <1>1. /\ session'[d].status = "member" => session'[d].id = m
        /\ \A i \in DOMAIN down'[d] : IsAdmission(down'[d][i]) => down'[d][i].id = m
    BY DEF Standing, Onward, Plain
  <1>2. Live(d)' => Live(d) /\ session'[d] = session[d]
    BY DEF Live, Onward
  <1>. QED  BY <1>1, <1>2 DEF Standing

\* A connection is in at most one of the two conditions: an applicant or
\* stranger outside, or a registered member inside.
LEMMA OneOrOther ==
    ASSUME NEW d
    PROVE  /\ d \notin DOMAIN connections => Outside(d) /\ Inside(d)
           /\ d \in DOMAIN connections /\ connections[d].role # "Member" => Inside(d)
           /\ d \in DOMAIN connections /\ connections[d].role = "Member" => Outside(d)
           /\ \A m \in RegisteredMember(d) : d \in DOMAIN connections /\ connections[d].role = "Member"
                                             /\ connections[d].id = m
           /\ d \in DOMAIN connections /\ connections[d].role = "Member"
                 => connections[d].id \in RegisteredMember(d)
  BY DEF Outside, Inside, RegisteredMember, HasRole

\* Another connection's step: what it sent is as before, or one message shorter.
LEMMA BehavesPassed ==
    ASSUME PathInv, PathInv', NEW d \in Conn, Behaves(d), Running', PassesBy(d), Onward(d),
           up'[d] = up[d] \/ (up[d] # <<>> /\ up'[d] = Tail(up[d]))
    PROVE  Behaves(d)'
  <1>1. /\ up[d] \in Seq(Upward) /\ epoch \in Nat /\ session[d] \in SessionRecord
        /\ TypeOK' /\ TypeOK
    BY SessionTypes DEF PathInv, KeyInv, TablesInv
  <1>2. Unprompted(d)'
    BY <1>1, OnwardUnprompted DEF Behaves
  <1>3. CASE d \notin DOMAIN connections'
    <2>1. Outside(d)' /\ Inside(d)'
      BY <1>3 DEF Outside, Inside, RegisteredMember, HasRole
    <2>. QED  BY <1>2, <2>1 DEF Behaves
  <1>4. CASE d \in DOMAIN connections'
    <2>1. /\ Running /\ KeepsRole(d) /\ Plain(outgoing'.send[d])
          /\ BeginsEpoch \/ KeepsEpoch(d)
      BY <1>4 DEF PassesBy
    <2>2. CASE connections[d].role # "Member"
      <3>1. /\ Patient(up[d]) /\ d \in DOMAIN connections
            /\ connections[d].role = "Pending" => \A i \in DOMAIN up[d] : ~ IsForm(up[d][i])
        BY <2>1, <2>2 DEF Behaves, Outside, KeepsRole
      <3>2. /\ Patient(up'[d])
            /\ connections[d].role = "Pending" => \A i \in DOMAIN up'[d] : ~ IsForm(up'[d][i])
        BY <1>1, <3>1, PatientTake
      <3>3. Outside(d)'
        BY <2>1, <2>2, <3>1, <3>2, StillOutside DEF Behaves, KeepsRole
      <3>4. Inside(d)'
        BY <2>1, <2>2 DEF Inside, RegisteredMember, HasRole, KeepsRole
      <3>. QED  BY <1>2, <3>3, <3>4 DEF Behaves
    <2>3. CASE connections[d].role = "Member"
      <3>1. Outside(d)'
        BY <2>1, <2>3 DEF Outside, KeepsRole
      <3>2. ASSUME NEW m \in RegisteredMember(d)'
            PROVE  Standing(d, m)'
        <4>1. /\ m \in RegisteredMember(d) /\ HasRole(d, "Member") /\ m = connections[d].id
              /\ m \in DOMAIN members'
          <5>1. m = connections'[d].id /\ connections'[d].role = "Member"
            BY <3>2, <2>1, <2>3 DEF RegisteredMember, HasRole, KeepsRole
          <5>2. m \in DOMAIN members'
            BY <1>4, <5>1 DEF PathInv, KeyInv, TablesInv, TableFacts, Agree
          <5>. QED  BY <2>1, <2>3, <5>1, <5>2 DEF RegisteredMember, HasRole, KeepsRole
        <4>2. Standing(d, m)
          BY <4>1 DEF Behaves, Inside
        <4>. DEFINE h == LastHeard(m)
                    last == session[d].senderSequence
                    key == session[d].epoch
        <4>3. /\ h \in Nat /\ last \in Nat
          BY <1>1 DEF LastHeard, TypeOK, IsMap, SessionRecord
        <4>4. /\ Words(up[d], m, h, epoch)
              /\ Live(d) => KeepsCount(up[d], h, last, key, epoch)
              /\ m \notin pendingEpoch.awaiting => Under(up[d], epoch) /\ (Live(d) => key = epoch)
          BY <4>2 DEF Standing
        <4>. HIDE DEF h, last, key
        <4>5. /\ Words(up'[d], m, h, epoch)
              /\ Live(d) => KeepsCount(up'[d], h, last, key, epoch)
              /\ m \notin pendingEpoch.awaiting => Under(up'[d], epoch) /\ (Live(d) => key = epoch)
          BY <1>1, <4>4, WordsTake, CountTake
        <4>6. CASE BeginsEpoch
          <5>1. LastHeard(m)' = 0 /\ epoch' = epoch + 1 /\ m \in pendingEpoch'.awaiting
            BY <4>1, <4>6 DEF BeginsEpoch, LastHeard, Empty
          <5>2. up'[d] \in Seq(Upward)
            BY SessionTypes DEF PathInv, SessionTypeOK
          <5>3. \A i \in DOMAIN up'[d] : ~ IsAck(up'[d][i], epoch + 1)
            <6>1. \A i \in DOMAIN up[d] : ~ IsAck(up[d][i], epoch + 1)
              <7>1. \A i \in DOMAIN up[d] : up[d][i].type = "EpochAck" => up[d][i].epoch \in 1..epoch
                BY DEF PathInv, Link
              <7>2. epoch + 1 \notin 1..epoch
                BY <1>1
              <7>. QED  BY <7>1, <7>2 DEF IsAck
            <6>2. \A i \in DOMAIN up'[d] : \E j \in DOMAIN up[d] : up'[d][i] = up[d][j]
              <7>1. CASE up'[d] = up[d]
                BY <7>1
              <7>2. CASE up[d] # <<>> /\ up'[d] = Tail(up[d])
                <8>1. \A i \in DOMAIN Tail(up[d]) : i + 1 \in DOMAIN up[d] /\ Tail(up[d])[i] = up[d][i + 1]
                  BY <1>1, <7>2, Rest
                <8>. QED  BY <7>2, <8>1
              <7>. QED  BY <7>1, <7>2
            <6>. QED  BY <6>1, <6>2
          <5>4. /\ Words(up'[d], m, 0, epoch + 1)
                /\ Live(d) => KeepsCount(up'[d], 0, last, key, epoch + 1)
            BY <4>3, <4>5, <5>2, <5>3, WordsInNextEpoch
          <5>. QED  BY <2>1, <4>2, <5>1, <5>4, StillStanding DEF Behaves, last, key
        <4>7. CASE KeepsEpoch(d)
          <5>1. /\ LastHeard(m)' = h /\ epoch' = epoch
                /\ m \notin pendingEpoch'.awaiting => m \notin pendingEpoch.awaiting
            BY <4>1, <4>7 DEF KeepsEpoch, KeepsStanding, h
          <5>. QED  BY <2>1, <4>2, <4>5, <5>1, StillStanding DEF last, key
        <4>. QED  BY <2>1, <4>6, <4>7
      <3>3. Inside(d)'
        BY <3>2 DEF Inside
      <3>. QED  BY <1>2, <3>1, <3>3 DEF Behaves
    <2>. QED  BY <2>2, <2>3
  <1>. QED  BY <1>3, <1>4

\* The step that handles a connection's own message.
LEMMA BehavesMoved ==
    ASSUME PathInv, PathInv', NEW c \in Conn, Behaves(c), Running', Onward(c),
           up[c] # <<>>, up'[c] = Tail(up[c]), NEW msg, msg = up[c][1], Moves(c, msg)
    PROVE  Behaves(c)'
  <1>1. /\ up[c] \in Seq(Upward) /\ epoch \in Nat /\ session[c] \in SessionRecord
        /\ TypeOK' /\ TypeOK
    BY SessionTypes DEF PathInv, KeyInv, TablesInv
  <1>2. Unprompted(c)'
    BY <1>1, OnwardUnprompted DEF Behaves
  <1>3. Plain(outgoing'.send[c])
    BY DEF Moves
  <1>4. CASE connections[c].role # "Member" /\ c \in DOMAIN connections
    <2>1. /\ Patient(up[c])
          /\ connections[c].role = "Pending" => \A i \in DOMAIN up[c] : ~ IsForm(up[c][i])
      BY <1>4 DEF Behaves, Outside
    <2>2. /\ Patient(up'[c])
          /\ connections[c].role = "Pending" => \A i \in DOMAIN up'[c] : ~ IsForm(up'[c][i])
          /\ IsForm(msg) => \A i \in DOMAIN up'[c] : ~ IsForm(up'[c][i])
      BY <1>1, <2>1, PatientTake
    <2>3. /\ connections'[c].role # "Member"
          /\ connections'[c].role = "Pending" => connections[c].role = "Pending" \/ IsForm(msg)
      BY <1>4 DEF Moves, Applies, Acknowledges, Speaks, KeepsRole, HasRole
    <2>4. Outside(c)'
      BY <1>3, <1>4, <2>2, <2>3, StillOutside DEF Behaves
    <2>5. Inside(c)'
      BY <2>3 DEF Inside, RegisteredMember, HasRole
    <2>. QED  BY <1>2, <2>4, <2>5 DEF Behaves
  <1>5. CASE connections[c].role = "Member" /\ c \in DOMAIN connections
    <2>1. /\ KeepsRole(c) /\ epoch' = epoch
          /\ Acknowledges(c, msg) \/ Speaks(c, msg)
      BY <1>5 DEF Moves, Applies, Acknowledges, Speaks
    <2>2. Outside(c)'
      BY <1>5, <2>1 DEF Outside, KeepsRole
    <2>3. ASSUME NEW m \in RegisteredMember(c)'
          PROVE  Standing(c, m)'
      <3>1. m \in RegisteredMember(c) /\ m = connections[c].id
        BY <2>1, <2>3, <1>5 DEF RegisteredMember, HasRole, KeepsRole
      <3>2. Standing(c, m)
        BY <3>1 DEF Behaves, Inside
      <3>. DEFINE h == LastHeard(m)
                  last == session[c].senderSequence
                  key == session[c].epoch
      <3>3. /\ Words(up[c], m, h, epoch)
            /\ Live(c) => KeepsCount(up[c], h, last, key, epoch)
            /\ m \notin pendingEpoch.awaiting => Under(up[c], epoch) /\ (Live(c) => key = epoch)
        BY <3>2 DEF Standing
      <3>. HIDE DEF h, last, key
      <3>4. CASE Acknowledges(c, msg)
        <4>1. IsAck(msg, epoch) /\ LastHeard(m)' = h
          BY <3>4 DEF Acknowledges, h
        <4>2. /\ Words(up'[c], m, h, epoch) /\ Under(up'[c], epoch)
              /\ Live(c) => KeepsCount(up'[c], h, last, key, epoch) /\ key = epoch
          BY <1>1, <3>3, <4>1, WordsTake, CountTake
        <4>. QED  BY <1>3, <2>1, <3>2, <4>1, <4>2, StillStanding DEF last, key
      <3>5. CASE Speaks(c, msg)
        <4>. DEFINE n == msg.envelope.sequence
        <4>1. IsChat(msg) /\ LastHeard(m)' = n /\ pendingEpoch' = pendingEpoch
          BY <3>1, <3>5 DEF Speaks
        <4>2. /\ Words(up'[c], m, n, epoch)
              /\ Under(up[c], epoch) => Under(up'[c], epoch)
              /\ Live(c) => KeepsCount(up'[c], n, last, key, epoch)
          BY <1>1, <3>3, <4>1, WordsTake, CountTake
        <4>. HIDE DEF n
        <4>. QED  BY <1>3, <2>1, <3>2, <3>3, <4>1, <4>2, StillStanding DEF last, key
      <3>. QED  BY <2>1, <3>4, <3>5
    <2>4. Inside(c)'
      BY <2>3 DEF Inside
    <2>. QED  BY <1>2, <2>2, <2>4 DEF Behaves
  <1>6. c \in DOMAIN connections
    BY DEF Moves, Applies, Acknowledges, Speaks, KeepsRole
  <1>. QED  BY <1>4, <1>5, <1>6

\* An applicant becomes a member, of whom nothing has been heard yet.
LEMMA BehavesAdmitted ==
    ASSUME PathInv, PathInv', NEW r \in DOMAIN requests, AcceptJoin(r),
           NEW d \in Conn, d = requests[r].connection, Behaves(d), Onward(d), up'[d] = up[d],
           NEW n, n = nextMemberId
    PROVE  Behaves(d)'
  <1>1. /\ up[d] \in Seq(Upward) /\ epoch \in Nat /\ session[d] \in SessionRecord
        /\ TypeOK' /\ TypeOK /\ Agree(members, connections, requests)
    BY SessionTypes DEF PathInv, KeyInv, TablesInv, TableFacts
  <1>2. Unprompted(d)'
    BY <1>1, OnwardUnprompted DEF Behaves
  <1>3. d \in DOMAIN connections /\ connections[d].role = "Pending"
    BY <1>1 DEF Agree
  <1>4. /\ session[d].status # "member" /\ Patient(up[d])
        /\ \A i \in DOMAIN up[d] : ~ IsForm(up[d][i])
        /\ \A i \in DOMAIN down[d] : ~ IsAdmission(down[d][i])
    BY <1>3 DEF Behaves, Outside
  <1>. DEFINE ms == With(members, n, Member(d, requests[r].application, epoch + 1))
              entry == Entry(d \in DOMAIN connections /\ connections[d].verified, "Member", n)
  <1>5. /\ connections' = With(connections, d, entry) /\ epoch' = epoch + 1 /\ chatReplay' = Empty
        /\ pendingEpoch'.awaiting = DOMAIN ms
        /\ outgoing'.send[d] = SendTo(d, JoinAccepted(n))[d] \o Wraps(ms)[d]
    BY DEF AcceptJoin, BeginEpochTransition, Emit, Then
  <1>6. /\ d \in DOMAIN connections' /\ connections'[d].role = "Member" /\ connections'[d].id = n
        /\ n \in pendingEpoch'.awaiting
    BY <1>5 DEF With, Entry
  <1>. HIDE DEF ms, entry
  <1>7. /\ SendTo(d, JoinAccepted(n))[d] = <<JoinAccepted(n)>>
        /\ JoinAccepted(n) \in Message /\ JoinAccepted(n).id = n
    BY <1>1, MessageTypes DEF SendTo, Silence, TypeOK, JoinAccepted
  <1>8. \A i \in DOMAIN outgoing'.send[d] : IsAdmission(outgoing'.send[d][i]) => outgoing'.send[d][i].id = n
    <2>. DEFINE a == <<JoinAccepted(n)>>
                b == Wraps(ms)[d]
    <2>1. b \in Seq(Message) /\ Plain(b)
      BY <1>1, WrapsType, PlainSends
    <2>4. a \in Seq(Message) /\ \A i \in DOMAIN a : a[i].id = n
      <3>. DEFINE x == JoinAccepted(n)
      <3>1. x \in Message /\ x.id = n
        BY <1>7
      <3>. HIDE DEF x
      <3>2. <<x>> \in Seq(Message) /\ DOMAIN <<x>> = {1} /\ <<x>>[1] = x
        BY <3>1
      <3>. QED  BY <3>1, <3>2 DEF x
    <2>2. outgoing'.send[d] = a \o b
      BY <1>5, <1>7
    <2>. HIDE DEF a, b
    <2>3. \A i \in DOMAIN (a \o b) : \/ i \in DOMAIN a /\ (a \o b)[i] = a[i]
                                     \/ i - Len(a) \in DOMAIN b /\ (a \o b)[i] = b[i - Len(a)]
      BY <2>1, <2>4, Concat
    <2>. QED  BY <2>1, <2>2, <2>3, <2>4 DEF Plain
  <1>9. Standing(d, n)'
    <2>1. session'[d].status # "member" /\ (Live(d)' => session'[d] = session[d])
      BY <1>4 DEF Onward, Live
    <2>2. \A i \in DOMAIN down'[d] : IsAdmission(down'[d][i]) => down'[d][i].id = n
      BY <1>4, <1>8 DEF Onward
    <2>3. LastHeard(n)' = 0
      BY <1>5 DEF LastHeard, Empty
    <2>4. Words(up[d], n, 0, epoch + 1)
      BY <1>4 DEF Words, Patient
    <2>5. \A i \in DOMAIN up[d] : ~ IsAck(up[d][i], epoch + 1)
      <3>1. \A i \in DOMAIN up[d] : up[d][i].type = "EpochAck" => up[d][i].epoch \in 1..epoch
        BY DEF PathInv, Link
      <3>2. epoch + 1 \notin 1..epoch
        BY <1>1
      <3>. QED  BY <3>1, <3>2 DEF IsAck
    <2>6. \A last \in Nat : \A key : KeepsCount(up[d], 0, last, key, epoch + 1)
      BY <1>4, <2>5 DEF KeepsCount, Patient
    <2>7. session[d].senderSequence \in Nat
      BY <1>1 DEF SessionRecord
    <2>8. Live(d)' => KeepsCount(up[d], 0, session'[d].senderSequence, session'[d].epoch, epoch + 1)
      BY <2>1, <2>6, <2>7
    <2>. QED  BY <1>5, <1>6, <2>1, <2>2, <2>3, <2>4, <2>8 DEF Standing
  <1>10. Inside(d)' /\ Outside(d)'
    <2>1. RegisteredMember(d)' = {n}
      BY <1>6 DEF RegisteredMember, HasRole
    <2>. QED  BY <1>6, <1>9, <2>1 DEF Inside, Outside
  <1>. QED  BY <1>2, <1>10 DEF Behaves

\* Whoever connects has sent its password proof and one form.
LEMMA BehavesConnected ==
    ASSUME PathInv, NEW app \in Applications, Connect(app), NEW d \in Conn, d = nextConn
    PROVE  Behaves(d)'
  <1>. DEFINE new == [NoSession EXCEPT !.status = "applying"]
              proof == [type |-> "PasswordVerified"]
              form == [type |-> "JoinRequested", application |-> app]
              first == <<proof, form>>
              fresh == [session EXCEPT ![nextConn] = new]
  <1>1. /\ ClientConnected /\ up' = [up EXCEPT ![nextConn] = first] /\ Transmit(fresh)
        /\ outgoing'.close = {}
    BY DEF Connect, ClientConnected, Emit
  <1>2. /\ up \in [Conn -> Seq(Upward)] /\ session \in [Conn -> SessionRecord]
    BY SessionTypes
  <1>3. new.status = "applying"
    BY EmptySessions
  <1>. HIDE DEF new, first
  <1>4. session'[d] = new /\ up'[d] = first
    BY <1>1, <1>2 DEF Transmit
  <1>5. ~ Live(d)
    <2>1. Link(d) /\ nextConn \in Nat
      BY SessionTypes DEF PathInv
    <2>. QED  BY <2>1 DEF Link
  <1>6. down'[d] = <<>>
    BY <1>1, <1>5 DEF Transmit
  <1>7. /\ \A i \in DOMAIN first : ~ IsChat(first[i])
        /\ \A i \in DOMAIN first : IsForm(first[i]) => i = 2
    <2>1. DOMAIN first = {1, 2} /\ first[1] = proof /\ first[2] = form
      BY DEF first
    <2>. QED  BY <2>1 DEF IsChat, IsForm
  <1>8. Patient(first)
    BY <1>7 DEF Patient
  <1>9. d \notin DOMAIN connections
    <2>1. ConnectionsIssued /\ nextConn \in Nat
      BY SessionTypes DEF PathInv, KeyInv, TablesInv, TableFacts
    <2>. QED  BY <2>1 DEF ConnectionsIssued
  <1>10. d \in DOMAIN connections' => connections'[d].role = "Admission"
    <2>1. \/ connections' = connections
          \/ connections' = With(connections, nextConn, Entry(FALSE, "Admission", 0))
      BY <1>1 DEF ClientConnected
    <2>. QED  BY <1>9, <2>1 DEF With, Entry
  <1>11. Outside(d)'
    BY <1>3, <1>4, <1>6, <1>8, <1>10 DEF Outside
  <1>12. Inside(d)' /\ Unprompted(d)'
    BY <1>6, <1>10 DEF Inside, RegisteredMember, HasRole, Unprompted
  <1>. QED  BY <1>11, <1>12 DEF Behaves

-----------------------------------------------------------------------------
(* What the participants do *)

\* Somebody else's step.
LEMMA BehavesElsewhere ==
    ASSUME UNCHANGED vars, NEW d \in Conn, Behaves(d),
           session'[d] = session[d], up'[d] = up[d], down'[d] = down[d]
    PROVE  Behaves(d)'
  <1>1. UNCHANGED <<connections, epoch, chatReplay, pendingEpoch>>
    BY DEF vars
  <1>2. Outside(d)' /\ Unprompted(d)'
    BY <1>1 DEF Behaves, Outside, Unprompted
  <1>3. ASSUME NEW m \in RegisteredMember(d)'
        PROVE  Standing(d, m)'
    <2>1. m \in RegisteredMember(d) /\ LastHeard(m)' = LastHeard(m)
      BY <1>1, <1>3 DEF RegisteredMember, HasRole, LastHeard
    <2>2. Standing(d, m)
      BY <2>1 DEF Behaves, Inside
    <2>. QED  BY <1>1, <2>1, <2>2 DEF Standing, Live
  <1>4. Inside(d)'
    BY <1>3 DEF Inside
  <1>. QED  BY <1>2, <1>4 DEF Behaves

\* A participant's own step: it takes what is on its way, or sends something.
LEMMA BehavesLocally ==
    ASSUME UNCHANGED vars, NEW c \in Conn, Behaves(c),
           \A i \in DOMAIN down'[c] : \E j \in DOMAIN down[c] : down'[c][i] = down[c][j],
           c \in DOMAIN connections /\ connections[c].role # "Member" =>
              /\ session'[c].status # "member"
              /\ Patient(up'[c])
              /\ connections[c].role = "Pending" => \A i \in DOMAIN up'[c] : ~ IsForm(up'[c][i]),
           \A m \in RegisteredMember(c) :
              /\ session'[c].status = "member" => session'[c].id = m
              /\ Words(up'[c], m, LastHeard(m), epoch)
              /\ Live(c)' => KeepsCount(up'[c], LastHeard(m), session'[c].senderSequence,
                                        session'[c].epoch, epoch)
              /\ m \notin pendingEpoch.awaiting =>
                    /\ Under(up'[c], epoch)
                    /\ Live(c)' => session'[c].epoch = epoch
    PROVE  Behaves(c)'
  <1>1. UNCHANGED <<connections, epoch, chatReplay, pendingEpoch>>
    BY DEF vars
  <1>2. Unprompted(c)'
    BY DEF Behaves, Unprompted
  <1>3. Outside(c)'
    BY <1>1 DEF Behaves, Outside
  <1>4. ASSUME NEW m \in RegisteredMember(c)'
        PROVE  Standing(c, m)'
    <2>1. m \in RegisteredMember(c) /\ LastHeard(m)' = LastHeard(m)
      BY <1>1, <1>4 DEF RegisteredMember, HasRole, LastHeard
    <2>2. \A i \in DOMAIN down'[c] : IsAdmission(down'[c][i]) => down'[c][i].id = m
      BY <2>1 DEF Behaves, Inside, Standing
    <2>. QED  BY <1>1, <2>1, <2>2 DEF Standing
  <1>5. Inside(c)'
    BY <1>4 DEF Inside
  <1>. QED  BY <1>2, <1>3, <1>5 DEF Behaves

\* What a member's connection is like.
LEMMA MemberStanding ==
    ASSUME PathInv, NEW c \in Conn, Behaves(c), NEW m \in RegisteredMember(c)
    PROVE  /\ Standing(c, m) /\ c \in DOMAIN connections /\ connections[c].role = "Member"
           /\ LastHeard(m) \in Nat /\ epoch \in Nat
           /\ up[c] \in Seq(Upward) /\ session[c] \in SessionRecord
           /\ session[c].senderSequence \in Nat /\ session[c].epoch \in Nat
  <1>1. /\ up[c] \in Seq(Upward) /\ epoch \in Nat /\ session[c] \in SessionRecord /\ TypeOK
    BY SessionTypes DEF PathInv, KeyInv, TablesInv
  <1>2. LastHeard(m) \in Nat
    BY <1>1 DEF TypeOK, IsMap, LastHeard
  <1>. QED  BY <1>1, <1>2 DEF Behaves, Inside, RegisteredMember, HasRole, SessionRecord

\* The connection is lost.
LEMMA BehavesDisconnect ==
    ASSUME PathInv, NEW c \in Conn, Behaves(c), Disconnect(c)
    PROVE  Behaves(c)'
  <1>. DEFINE lost == [type |-> "Lost"]
  <1>1. /\ up \in [Conn -> Seq(Upward)] /\ session \in [Conn -> SessionRecord]
        /\ down \in [Conn -> Seq(Downward)]
    BY SessionTypes
  <1>2. lost \in Upward /\ ~ IsForm(lost) /\ ~ IsChat(lost)
    BY DEF Upward, IsForm, IsChat
  <1>3. /\ UNCHANGED vars /\ session'[c] = ClosedSession /\ down'[c] = <<>>
        /\ up'[c] = Append(up[c], lost)
    BY <1>1 DEF Disconnect
  <1>. HIDE DEF lost
  <1>4. ~ Live(c)' /\ session'[c].status # "member"
    BY <1>3, EmptySessions DEF Live
  <1>5. /\ Patient(up[c]) => Patient(up'[c])
        /\ (\A i \in DOMAIN up[c] : ~ IsForm(up[c][i])) => \A i \in DOMAIN up'[c] : ~ IsForm(up'[c][i])
        /\ \A m, h, e : Words(up[c], m, h, e) => Words(up'[c], m, h, e)
        /\ \A e : Under(up[c], e) => Under(up'[c], e)
    BY <1>1, <1>2, <1>3, PlainAppend
  <1>6. \A m \in RegisteredMember(c) :
           /\ Words(up'[c], m, LastHeard(m), epoch)
           /\ m \notin pendingEpoch.awaiting => Under(up'[c], epoch)
    BY <1>5, MemberStanding DEF Standing
  <1>7. c \in DOMAIN connections /\ connections[c].role # "Member" =>
           /\ Patient(up'[c])
           /\ connections[c].role = "Pending" => \A i \in DOMAIN up'[c] : ~ IsForm(up'[c][i])
    BY <1>5 DEF Behaves, Outside
  <1>8. \A i \in DOMAIN down'[c] : \E j \in DOMAIN down[c] : down'[c][i] = down[c][j]
    BY <1>3
  <1>9. \A m \in RegisteredMember(c) :
           /\ session'[c].status = "member" => session'[c].id = m
           /\ Words(up'[c], m, LastHeard(m), epoch)
           /\ Live(c)' => KeepsCount(up'[c], LastHeard(m), session'[c].senderSequence,
                                     session'[c].epoch, epoch)
           /\ m \notin pendingEpoch.awaiting =>
                 /\ Under(up'[c], epoch)
                 /\ Live(c)' => session'[c].epoch = epoch
    BY <1>4, <1>6
  <1>. QED  BY <1>3, <1>4, <1>7, <1>8, <1>9, BehavesLocally

\* A chat line, or a colour: the session counts it.
LEMMA BehavesSending ==
    ASSUME PathInv, UNCHANGED <<vars, down>>, NEW c \in Conn, Behaves(c), session[c].status = "member",
           NEW kind \in {"Chat", "Color"}, NEW body, NEW msg \in Upward,
           msg = [type |-> "Chat", envelope |-> Sealed(session[c], kind, body)],
           up'[c] = Append(up[c], msg),
           /\ session'[c].status = session[c].status /\ session'[c].id = session[c].id
           /\ session'[c].epoch = session[c].epoch
           /\ session'[c].senderSequence = session[c].senderSequence + 1
    PROVE  Behaves(c)'
  <1>1. /\ IsChat(msg) /\ msg.envelope.sender = session[c].id /\ msg.envelope.genuine
        /\ msg.envelope.kind \in {"Chat", "Color"} /\ msg.envelope.epoch = session[c].epoch
        /\ msg.envelope.sequence = session[c].senderSequence + 1
    BY DEF IsChat, Sealed
  <1>2. Live(c)
    BY DEF Live
  <1>3. c \in DOMAIN connections => connections[c].role = "Member"
    BY DEF Behaves, Outside
  <1>4. ASSUME NEW m \in RegisteredMember(c)
        PROVE  /\ session'[c].status = "member" => session'[c].id = m
               /\ Words(up'[c], m, LastHeard(m), epoch)
               /\ KeepsCount(up'[c], LastHeard(m), session'[c].senderSequence,
                             session'[c].epoch, epoch)
               /\ m \notin pendingEpoch.awaiting =>
                    /\ Under(up'[c], epoch)
                    /\ session'[c].epoch = epoch
    <2>. DEFINE h == LastHeard(m)
                last == session[c].senderSequence
                key == session[c].epoch
    <2>1. Standing(c, m) /\ h \in Nat /\ last \in Nat /\ up[c] \in Seq(Upward)
      BY MemberStanding
    <2>2. /\ session[c].id = m /\ Words(up[c], m, h, epoch) /\ KeepsCount(up[c], h, last, key, epoch)
          /\ m \notin pendingEpoch.awaiting => Under(up[c], epoch) /\ key = epoch
      BY <1>2, <2>1 DEF Standing
    <2>3. msg.envelope.sender = m /\ msg.envelope.sequence = last + 1 /\ msg.envelope.epoch = key
      BY <1>1, <2>2
    <2>. HIDE DEF h, last, key
    <2>4. /\ Words(up'[c], m, h, epoch)
          /\ KeepsCount(up'[c], h, last + 1, key, epoch)
          /\ Under(up[c], epoch) /\ key = epoch => Under(up'[c], epoch)
      BY <1>1, <2>1, <2>2, <2>3, ChatAppend
    <2>. QED  BY <2>2, <2>4 DEF h, last, key
  <1>5. UNCHANGED vars /\ down'[c] = down[c]
    OBVIOUS
  <1>. QED  BY <1>3, <1>4, <1>5, BehavesLocally

\* Something arrives that leaves the key, the count and the admission alone.
LEMMA BehavesReading ==
    ASSUME PathInv, UNCHANGED <<vars, up>>, NEW c \in Conn, Behaves(c),
           \A i \in DOMAIN down'[c] : \E j \in DOMAIN down[c] : down'[c][i] = down[c][j],
           /\ session'[c].status = session[c].status /\ session'[c].id = session[c].id
           /\ session'[c].epoch = session[c].epoch
           /\ session'[c].senderSequence = session[c].senderSequence
    PROVE  Behaves(c)'
  <1>1. Live(c)' => Live(c)
    BY DEF Live
  <1>2. c \in DOMAIN connections /\ connections[c].role # "Member" =>
           /\ session'[c].status # "member"
           /\ Patient(up'[c])
           /\ connections[c].role = "Pending" => \A i \in DOMAIN up'[c] : ~ IsForm(up'[c][i])
    BY DEF Behaves, Outside
  <1>3. ASSUME NEW m \in RegisteredMember(c)
        PROVE  /\ session'[c].status = "member" => session'[c].id = m
               /\ Words(up'[c], m, LastHeard(m), epoch)
               /\ Live(c)' => KeepsCount(up'[c], LastHeard(m), session'[c].senderSequence,
                                         session'[c].epoch, epoch)
               /\ m \notin pendingEpoch.awaiting =>
                     /\ Under(up'[c], epoch)
                     /\ Live(c)' => session'[c].epoch = epoch
    <2>1. Standing(c, m)
      BY DEF Behaves, Inside
    <2>. QED  BY <1>1, <2>1 DEF Standing
  <1>4. UNCHANGED vars
    OBVIOUS
  <1>. QED  BY <1>2, <1>3, <1>4, BehavesLocally

\* The participant learns that it is a member, and which.
LEMMA BehavesAccepted ==
    ASSUME PathInv, UNCHANGED <<vars, up>>, NEW c \in Conn, Behaves(c), Live(c),
           \A i \in DOMAIN down'[c] : \E j \in DOMAIN down[c] : down'[c][i] = down[c][j],
           NEW i \in DOMAIN down[c], IsAdmission(down[c][i]),
           /\ session'[c].status = "member" /\ session'[c].id = down[c][i].id
           /\ session'[c].epoch = session[c].epoch
           /\ session'[c].senderSequence = session[c].senderSequence
    PROVE  Behaves(c)'
  <1>1. ~ (c \in DOMAIN connections /\ connections[c].role # "Member")
    BY DEF Behaves, Outside
  <1>2. ASSUME NEW m \in RegisteredMember(c)
        PROVE  /\ session'[c].status = "member" => session'[c].id = m
               /\ Words(up'[c], m, LastHeard(m), epoch)
               /\ Live(c)' => KeepsCount(up'[c], LastHeard(m), session'[c].senderSequence,
                                         session'[c].epoch, epoch)
               /\ m \notin pendingEpoch.awaiting =>
                     /\ Under(up'[c], epoch)
                     /\ Live(c)' => session'[c].epoch = epoch
    <2>1. Standing(c, m)
      BY DEF Behaves, Inside
    <2>. QED  BY <2>1 DEF Standing
  <1>3. UNCHANGED vars
    OBVIOUS
  <1>. QED  BY <1>1, <1>2, <1>3, BehavesLocally

\* A key arrives, newer than the one it has, and is acknowledged.
LEMMA BehavesRekeyed ==
    ASSUME PathInv, UNCHANGED vars, NEW c \in Conn, Behaves(c), Live(c),
           \A i \in DOMAIN down'[c] : \E j \in DOMAIN down[c] : down'[c][i] = down[c][j],
           NEW e \in Nat, session[c].epoch < e, e <= epoch,
           NEW ack \in Upward, ack = [type |-> "EpochAck", epoch |-> e],
           up'[c] = Append(up[c], ack),
           /\ session'[c].status = session[c].status /\ session'[c].id = session[c].id
           /\ session'[c].epoch = e
           /\ session'[c].senderSequence = session[c].senderSequence
    PROVE  Behaves(c)'
  <1>1. IsAck(ack, e) /\ ~ IsForm(ack) /\ ~ IsChat(ack)
    BY DEF IsAck, IsForm, IsChat
  <1>2. up[c] \in Seq(Upward)
    BY SessionTypes
  <1>3. /\ Patient(up[c]) => Patient(up'[c])
        /\ (\A i \in DOMAIN up[c] : ~ IsForm(up[c][i])) => \A i \in DOMAIN up'[c] : ~ IsForm(up'[c][i])
        /\ \A m, h, x : Words(up[c], m, h, x) => Words(up'[c], m, h, x)
    BY <1>1, <1>2, PlainAppend
  <1>4. c \in DOMAIN connections /\ connections[c].role # "Member" =>
           /\ session'[c].status # "member"
           /\ Patient(up'[c])
           /\ connections[c].role = "Pending" => \A i \in DOMAIN up'[c] : ~ IsForm(up'[c][i])
    BY <1>3 DEF Behaves, Outside
  <1>5. ASSUME NEW m \in RegisteredMember(c)
        PROVE  /\ session'[c].status = "member" => session'[c].id = m
               /\ Words(up'[c], m, LastHeard(m), epoch)
               /\ KeepsCount(up'[c], LastHeard(m), session'[c].senderSequence,
                             session'[c].epoch, epoch)
               /\ m \in pendingEpoch.awaiting
    <2>. DEFINE h == LastHeard(m)
                last == session[c].senderSequence
                key == session[c].epoch
    <2>1. Standing(c, m) /\ h \in Nat /\ last \in Nat /\ key \in Nat /\ epoch \in Nat
      BY MemberStanding
    <2>2. /\ session[c].status = "member" => session[c].id = m
          /\ Words(up[c], m, h, epoch) /\ KeepsCount(up[c], h, last, key, epoch)
          /\ m \notin pendingEpoch.awaiting => key = epoch
      BY <2>1 DEF Standing
    <2>3. key < e
      OBVIOUS
    <2>. HIDE DEF h, last, key
    <2>4. KeepsCount(up'[c], h, last, e, epoch)
      BY <1>1, <1>2, <2>1, <2>2, <2>3, AckAppend
    <2>5. m \in pendingEpoch.awaiting
      BY <2>1, <2>2, <2>3
    <2>. QED  BY <1>3, <2>2, <2>4, <2>5 DEF h, last
  <1>. QED  BY <1>4, <1>5, BehavesLocally

\* Signed events and relays touch neither.
LEMMA ReadingKeeps ==
    ASSUME NEW s \in SessionRecord
    PROVE  /\ \A ev \in RoomEvent :
                 LET r == AfterEvent(s, ev) IN
                 /\ r.status = s.status /\ r.id = s.id /\ r.epoch = s.epoch
                 /\ r.senderSequence = s.senderSequence
           /\ \A env \in AnyEnvelope :
                 LET r == AfterRelay(s, env) IN
                 /\ r.status = s.status /\ r.id = s.id /\ r.epoch = s.epoch
                 /\ r.senderSequence = s.senderSequence
  <1>1. ASSUME NEW ev \in RoomEvent, NEW t, t = TableAfter(s, ev)
        PROVE  LET r == AfterEvent(s, ev) IN
                 /\ r.status = s.status /\ r.id = s.id /\ r.epoch = s.epoch
                 /\ r.senderSequence = s.senderSequence
    <2>1. AfterEvent(s, ev) \in {s, [s EXCEPT !.table = t, !.lastRoomSequence = ev.sequence]}
      BY <1>1 DEF AfterEvent
    <2>. QED  BY <2>1 DEF SessionRecord
  <1>2. ASSUME NEW env \in AnyEnvelope
        PROVE  LET r == AfterRelay(s, env) IN
                 /\ r.status = s.status /\ r.id = s.id /\ r.epoch = s.epoch
                 /\ r.senderSequence = s.senderSequence
    <2>. DEFINE w == With(s.replay, env.sender, env.sequence)
                i == IF env.kind = "TimeoutChanged" THEN env.body ELSE s.timeout
                t == IF env.kind = "Color" THEN Recoloured(s.table, env.sender, env.body) ELSE s.table
    <2>1. AfterRelay(s, env) \in {s, [s EXCEPT !.replay = w, !.timeout = i, !.table = t]}
      BY DEF AfterRelay, SessionRecord
    <2>. HIDE DEF w, i, t
    <2>. QED  BY <2>1 DEF SessionRecord
  <1>. QED  BY <1>1, <1>2

\* A participant handles the next message on its way.
LEMMA BehavesReceive ==
    ASSUME PathInv, NEW c \in Conn, Behaves(c), ParticipantReceives(c)
    PROVE  Behaves(c)'
  <1>. DEFINE s == session[c]
  <1>1. /\ Live(c) /\ down[c] # <<>> /\ Receive(c, Head(down[c]))
        /\ down' = IF session'[c].status = "closed" THEN [down EXCEPT ![c] = <<>>]
                   ELSE [down EXCEPT ![c] = Tail(@)]
        /\ UNCHANGED <<vars, nested>>
    BY DEF ParticipantReceives
  <1>2. /\ session \in [Conn -> SessionRecord] /\ s \in SessionRecord
        /\ up \in [Conn -> Seq(Upward)] /\ down \in [Conn -> Seq(Downward)] /\ down[c] \in Seq(Downward)
        /\ epoch \in Nat
    BY SessionTypes
  <1>3. \A i \in DOMAIN down'[c] : \E j \in DOMAIN down[c] : down'[c][i] = down[c][j]
    <2>1. down'[c] = <<>> \/ down'[c] = Tail(down[c])
      BY <1>1, <1>2
    <2>2. \A i \in DOMAIN Tail(down[c]) : i + 1 \in DOMAIN down[c] /\ Tail(down[c])[i] = down[c][i + 1]
      BY <1>1, <1>2, Rest
    <2>3. CASE down'[c] = <<>>
      BY <2>3
    <2>4. CASE down'[c] = Tail(down[c])
      BY <2>2, <2>4
    <2>. QED  BY <2>1, <2>3, <2>4
  <1>4. PICK msg \in Downward : msg = Head(down[c]) /\ msg = down[c][1]
    BY <1>1, <1>2, Rest
  <1>5. 1 \in DOMAIN down[c] /\ ~ IsNotice(msg)
    BY <1>1, <1>2, <1>4, Rest DEF Behaves, Unprompted
  <1>6. IsWrap(msg) => s.epoch < msg.epoch /\ msg.epoch <= epoch /\ msg.epoch \in Nat
    <2>1. WrapsWithin(down[c], s.epoch, epoch)
      BY DEF PathInv, Path, OnCourse
    <2>. QED  BY <1>4, <1>5, <2>1, HeadTypes DEF WrapsWithin, IsWrap
  <1>7. Receive(c, msg)
    BY <1>1, <1>4
  <1>8. CASE /\ msg.type = "JoinAccepted"
             /\ session' = [session EXCEPT ![c].status = "member", ![c].id = msg.id]
             /\ UNCHANGED up
    <2>. DEFINE n == msg.id
                r == [s EXCEPT !.status = "member", !.id = n]
    <2>1. session' = [session EXCEPT ![c] = r]
      BY <1>2, <1>8 DEF SessionRecord
    <2>. HIDE DEF n
    <2>2. r.status = "member" /\ r.id = n /\ r.epoch = s.epoch /\ r.senderSequence = s.senderSequence
      BY <1>2 DEF SessionRecord
    <2>. HIDE DEF r
    <2>3. session'[c] = r
      BY <1>2, <2>1
    <2>4. /\ session'[c].status = "member" /\ session'[c].id = down[c][1].id
          /\ session'[c].epoch = session[c].epoch
          /\ session'[c].senderSequence = session[c].senderSequence
          /\ IsAdmission(down[c][1])
      BY <1>4, <1>8, <2>2, <2>3 DEF n, IsAdmission
    <2>5. UNCHANGED <<vars, up>>
      BY <1>1, <1>8
    <2>. QED  BY <1>1, <1>3, <1>5, <2>4, <2>5, BehavesAccepted
  <1>9. CASE /\ msg.type = "EpochWrap"
             /\ session' = [session EXCEPT ![c] = AfterWrap(c, s, msg.epoch)]
             /\ up' = [up EXCEPT ![c] = Append(@, AnswerToWrap(c, s, msg.epoch))]
    <2>. DEFINE e == msg.epoch
                r == [s EXCEPT !.epoch = e, !.replay = Empty]
                ack == [type |-> "EpochAck", epoch |-> e]
    <2>1. e \in Nat /\ s.epoch < e /\ e <= epoch /\ s.epoch \in Nat
      BY <1>2, <1>6, <1>9 DEF IsWrap, SessionRecord
    <2>2. session' = [session EXCEPT ![c] = r] /\ up' = [up EXCEPT ![c] = Append(@, ack)]
      BY <1>9, <2>1 DEF AfterWrap, AnswerToWrap
    <2>. HIDE DEF e
    <2>3. r.status = s.status /\ r.id = s.id /\ r.epoch = e /\ r.senderSequence = s.senderSequence
      BY <1>2 DEF SessionRecord
    <2>4. ack \in Upward
      BY <2>1 DEF Upward
    <2>. HIDE DEF r
    <2>5. session'[c] = r /\ up'[c] = Append(up[c], ack)
      BY <1>2, <2>2
    <2>6. UNCHANGED vars
      BY <1>1
    <2>. QED  BY <1>1, <1>3, <2>1, <2>3, <2>4, <2>5, <2>6, BehavesRekeyed
  <1>10. ASSUME NEW r, session' = [session EXCEPT ![c] = r], UNCHANGED up,
                r.status = s.status, r.id = s.id, r.epoch = s.epoch,
                r.senderSequence = s.senderSequence
         PROVE  Behaves(c)'
    <2>1. session'[c] = r
      BY <1>2, <1>10
    <2>2. UNCHANGED <<vars, up>>
      BY <1>1, <1>10
    <2>. QED  BY <1>3, <1>10, <2>1, <2>2, BehavesReading
  <1>11. CASE /\ msg.type \in EventTypes
              /\ session' = [session EXCEPT ![c] = AfterEvent(s, msg)]
              /\ UNCHANGED up
    <2>1. msg \in RoomEvent
      BY <1>11, HeadTypes
    <2>. DEFINE r == AfterEvent(s, msg)
    <2>2. r.status = s.status /\ r.id = s.id /\ r.epoch = s.epoch /\ r.senderSequence = s.senderSequence
      BY <1>2, <2>1, ReadingKeeps
    <2>. HIDE DEF r
    <2>3. session' = [session EXCEPT ![c] = r]
      BY <1>11 DEF r
    <2>. QED  BY <1>10, <1>11, <2>2, <2>3
  <1>12. CASE /\ msg.type = "Relay"
              /\ session' = [session EXCEPT ![c] = AfterRelay(s, msg.envelope)]
              /\ UNCHANGED up
    <2>1. msg.envelope \in AnyEnvelope
      BY <1>12, HeadTypes
    <2>. DEFINE r == AfterRelay(s, msg.envelope)
    <2>2. r.status = s.status /\ r.id = s.id /\ r.epoch = s.epoch /\ r.senderSequence = s.senderSequence
      BY <1>2, <2>1, ReadingKeeps
    <2>. HIDE DEF r
    <2>3. session' = [session EXCEPT ![c] = r]
      BY <1>12 DEF r
    <2>. QED  BY <1>10, <1>12, <2>2, <2>3
  <1>13. CASE msg.type = "Error" /\ UNCHANGED <<session, up>>
    <2>1. session' = [session EXCEPT ![c] = s]
      BY <1>2, <1>13
    <2>. QED  BY <1>10, <1>13, <2>1
  <1>14. ~ (msg.type \in {"TimeoutRequestAccepted", "TimeoutRebroadcast"})
    BY <1>5 DEF IsNotice
  <1>. HIDE DEF s
  <1>. QED  BY <1>7, <1>8, <1>9, <1>11, <1>12, <1>13, <1>14 DEF Receive, s

\* The message a member sends is the next one the room expects of it.
LEMMA BehavesSendMessage ==
    ASSUME PathInv, NEW c \in Conn, Behaves(c), NEW kind \in Kinds, NEW body \in Bodies(kind),
           "TimeoutRequest" \notin Kinds, SendMessage(c, kind, body)
    PROVE  Behaves(c)'
  <1>. DEFINE msg == [type |-> "Chat", envelope |-> Sealed(session[c], kind, body)]
              n == session[c].senderSequence + 1
              r == [session[c] EXCEPT !.senderSequence = n]
  <1>1. kind = "Chat" /\ kind \in MemberKinds /\ body \in Nat
    BY DEF SendMessage, Bodies, MemberKinds
  <1>2. /\ session \in [Conn -> SessionRecord] /\ session[c] \in SessionRecord
        /\ up \in [Conn -> Seq(Upward)]
    BY SessionTypes
  <1>3. /\ session[c].status = "member" /\ up' = [up EXCEPT ![c] = Append(@, msg)]
        /\ UNCHANGED <<vars, down>> /\ session' = [session EXCEPT ![c] = r]
    BY <1>2 DEF SendMessage, Send, SessionRecord
  <1>4. msg \in Upward
    BY <1>1, <1>2, SealedType
  <1>. HIDE DEF msg, n
  <1>5. /\ r.status = session[c].status /\ r.id = session[c].id /\ r.epoch = session[c].epoch
        /\ r.senderSequence = n
    BY <1>2 DEF SessionRecord
  <1>. HIDE DEF r
  <1>6. session'[c] = r /\ up'[c] = Append(up[c], msg)
    BY <1>2, <1>3
  <1>7. /\ session'[c].status = session[c].status /\ session'[c].id = session[c].id
        /\ session'[c].epoch = session[c].epoch
        /\ session'[c].senderSequence = session[c].senderSequence + 1
        /\ msg = [type |-> "Chat", envelope |-> Sealed(session[c], kind, body)]
    BY <1>5, <1>6 DEF n, msg
  <1>. QED  BY <1>1, <1>3, <1>4, <1>6, <1>7, BehavesSending

\* A colour request is neither a form nor an encrypted message.
LEMMA BehavesSendColor ==
    ASSUME PathInv, NEW c \in Conn, Behaves(c), NEW color \in Color, SendColor(c, color)
    PROVE  Behaves(c)'
  <1>. DEFINE msg == [type |-> "Chat", envelope |-> Sealed(session[c], "Color", color)]
              n == session[c].senderSequence + 1
              t == Recoloured(session[c].table, session[c].id, color)
              r == [session[c] EXCEPT !.senderSequence = n, !.table = t]
  <1>1. "Color" \in MemberKinds /\ color \in Nat
    BY DataAssumption DEF MemberKinds
  <1>2. /\ session \in [Conn -> SessionRecord] /\ session[c] \in SessionRecord
        /\ up \in [Conn -> Seq(Upward)]
    BY SessionTypes
  <1>3. /\ session[c].status = "member" /\ up' = [up EXCEPT ![c] = Append(@, msg)]
        /\ UNCHANGED <<vars, down>> /\ session' = [session EXCEPT ![c] = r]
    BY <1>2 DEF SendColor, Send, SessionRecord
  <1>4. msg \in Upward
    BY <1>1, <1>2, SealedType
  <1>. HIDE DEF msg, n, t
  <1>5. /\ r.status = session[c].status /\ r.id = session[c].id /\ r.epoch = session[c].epoch
        /\ r.senderSequence = n
    BY <1>2 DEF SessionRecord
  <1>. HIDE DEF r
  <1>6. session'[c] = r /\ up'[c] = Append(up[c], msg)
    BY <1>2, <1>3
  <1>7. /\ session'[c].status = session[c].status /\ session'[c].id = session[c].id
        /\ session'[c].epoch = session[c].epoch
        /\ session'[c].senderSequence = session[c].senderSequence + 1
        /\ msg = [type |-> "Chat", envelope |-> Sealed(session[c], "Color", color)]
    BY <1>5, <1>6 DEF n, msg
  <1>. QED  BY <1>3, <1>4, <1>6, <1>7, BehavesSending

\* What the participants do among themselves keeps everybody honest.
Locals ==
    \/ \E c \in Conn :
          \/ ParticipantReceives(c)
          \/ Disconnect(c)
          \/ \E kind \in Kinds : \E body \in Bodies(kind) : SendMessage(c, kind, body)
          \/ \E color \in Color : SendColor(c, color)
    \/ \E i \in Intervals \cup {NoTimeout} : HostTimeout(i)

\* Whatever a participant does locally, every connection still behaves.
LEMMA LocalsBehave ==
    ASSUME PathInv, "TimeoutRequest" \notin Kinds, Locals, NEW d \in Conn, d # HostConnection,
           Behaves(d)
    PROVE  UNCHANGED vars /\ Behaves(d)'
  <1>0. /\ session \in [Conn -> SessionRecord] /\ up \in [Conn -> Seq(Upward)]
        /\ down \in [Conn -> Seq(Downward)]
    BY SessionTypes
  <1>1. ASSUME NEW c \in Conn, ParticipantReceives(c)
        PROVE  UNCHANGED vars /\ Behaves(d)'
    <2>1. CASE c = d
      BY <1>1, <2>1, BehavesReceive DEF ParticipantReceives
    <2>2. CASE c # d
      <3>1. UNCHANGED vars /\ down'[d] = down[d]
        BY <1>0, <1>1, <2>2 DEF ParticipantReceives
      <3>2. session'[d] = session[d] /\ up'[d] = up[d]
        BY <1>0, <1>1, <2>2 DEF ParticipantReceives, Receive, Send
      <3>. QED  BY <3>1, <3>2, BehavesElsewhere
    <2>. QED  BY <2>1, <2>2
  <1>2. ASSUME NEW c \in Conn, Disconnect(c)
        PROVE  UNCHANGED vars /\ Behaves(d)'
    <2>1. CASE c = d
      BY <1>2, <2>1, BehavesDisconnect DEF Disconnect
    <2>2. CASE c # d
      <3>1. UNCHANGED vars /\ session'[d] = session[d] /\ up'[d] = up[d] /\ down'[d] = down[d]
        BY <1>0, <1>2, <2>2 DEF Disconnect
      <3>. QED  BY <3>1, BehavesElsewhere
    <2>. QED  BY <2>1, <2>2
  <1>3. ASSUME NEW c \in Conn, NEW kind \in Kinds, NEW body \in Bodies(kind), SendMessage(c, kind, body)
        PROVE  UNCHANGED vars /\ Behaves(d)'
    <2>1. CASE c = d
      BY <1>3, <2>1, BehavesSendMessage DEF SendMessage
    <2>2. CASE c # d
      <3>1. UNCHANGED vars /\ session'[d] = session[d] /\ up'[d] = up[d] /\ down'[d] = down[d]
        BY <1>0, <1>3, <2>2 DEF SendMessage, Send
      <3>. QED  BY <3>1, BehavesElsewhere
    <2>. QED  BY <2>1, <2>2
  <1>4. ASSUME NEW c \in Conn, NEW color \in Color, SendColor(c, color)
        PROVE  UNCHANGED vars /\ Behaves(d)'
    <2>1. CASE c = d
      BY <1>4, <2>1, BehavesSendColor DEF SendColor
    <2>2. CASE c # d
      <3>1. UNCHANGED vars /\ session'[d] = session[d] /\ up'[d] = up[d] /\ down'[d] = down[d]
        BY <1>0, <1>4, <2>2 DEF SendColor, Send
      <3>. QED  BY <3>1, BehavesElsewhere
    <2>. QED  BY <2>1, <2>2
  <1>5. ASSUME NEW i, HostTimeout(i)
        PROVE  UNCHANGED vars /\ Behaves(d)'
    <2>1. UNCHANGED vars /\ session'[d] = session[d] /\ up'[d] = up[d] /\ down'[d] = down[d]
      BY <1>0, <1>5 DEF HostTimeout, Send
    <2>. QED  BY <2>1, BehavesElsewhere
  <1>. QED  BY <1>1, <1>2, <1>3, <1>4, <1>5 DEF Locals

-----------------------------------------------------------------------------
(* No member is reproached *)

\* What a member says next is its own, new, and sealed under the room's key:
\* neither a form nor a chat that the room refuses.
LEMMA NoOffence ==
    ASSUME PathInv, Running, NEW c \in Conn, c \in ConnectionsOf(members),
           c # HostConnection => Behaves(c), up[c] # <<>>, NEW msg, msg = up[c][1]
    PROVE  ~ Offends(c, msg)
  <1>1. /\ up[c] \in Seq(Upward) /\ 1 \in DOMAIN up[c] /\ TypeOK /\ TransitionShape
        /\ Agree(members, connections, requests)
    BY SessionTypes, Rest DEF PathInv, KeyInv, KeyFacts, TablesInv, TableFacts
  <1>2. CASE c = HostConnection
    <2>1. msg.type \in {"EpochAck", "Chat"}
      BY <1>1, <1>2 DEF PathInv, Link
    <2>. QED  BY <1>2, <2>1 DEF Offends, IsForm
  <1>3. CASE c # HostConnection
    <2>1. PICK m \in DOMAIN members : members[m].connection = c
      BY DEF ConnectionsOf
    <2>2. RegisteredMember(c) = {m}
      BY <1>1, <2>1 DEF Agree, RegisteredMember, HasRole
    <2>3. Standing(c, m)
      BY <1>3, <2>2 DEF Behaves, Inside
    <2>4. Words(up[c], m, LastHeard(m), epoch) /\ (m \notin pendingEpoch.awaiting => Under(up[c], epoch))
      BY <2>3 DEF Standing
    <2>5. ~ IsForm(msg)
      BY <1>1, <2>4 DEF Words
    <2>6. ASSUME IsChat(msg), NEW env, env = msg.envelope, ChatAllowed(c)
          PROVE  /\ RegisteredMember(c) = {env.sender}
                 /\ Accepted(env)
      <3>1. /\ env.sender = m /\ env.genuine /\ env.kind \in {"Chat", "Color"}
            /\ LastHeard(m) < env.sequence
        BY <1>1, <2>4, <2>6 DEF Words
      <3>2. m \notin pendingEpoch.awaiting
        <4>1. pendingEpoch = NoPending => m \notin pendingEpoch.awaiting
          BY DEF NoPending
        <4>2. CASE InTransition
          BY <2>2, <2>6, <4>1, <4>2 DEF ChatAllowed, HasAcked
        <4>3. CASE ~ InTransition
          <5>1. AtRest
            BY <1>1, <4>3 DEF Running, InTransition, AtRest, TypeOK
          <5>. QED  BY <1>1, <4>1, <5>1 DEF TransitionShape
        <4>. QED  BY <4>2, <4>3
      <3>3. env.epoch = epoch
        BY <1>1, <2>4, <2>6, <3>2 DEF Under
      <3>4. OpeningKey = epoch
        <4>1. InTransition => pendingEpoch.epoch = epoch /\ pendingEpoch.awaiting # {}
          BY <1>1 DEF TransitionShape
        <4>2. AtRest => pendingEpoch = NoPending /\ epochKey = epoch
          BY <1>1 DEF TransitionShape
        <4>3. InTransition \/ AtRest
          BY <1>1 DEF Running, InTransition, AtRest, TypeOK
        <4>4. InTransition => pendingEpoch # NoPending
          BY <4>1 DEF NoPending
        <4>. QED  BY <4>1, <4>2, <4>3, <4>4 DEF OpeningKey
      <3>5. Fresh(env)
        <4>1. env.sequence \in Nat
          BY <1>1, <2>6, UpwardSeq
        <4>2. m \in DOMAIN chatReplay => LastHeard(m) = chatReplay[m] /\ chatReplay[m] \in Nat
          BY <1>1 DEF LastHeard, TypeOK, IsMap
        <4>. QED  BY <3>1, <3>3, <4>1, <4>2 DEF Fresh
      <3>6. Opens(env) /\ Permitted(env)
        BY <3>1, <3>3, <3>4 DEF Opens, Permitted
      <3>. QED  BY <2>2, <3>1, <3>5, <3>6 DEF Accepted
    <2>7. ASSUME IsChat(msg), NEW env, env = msg.envelope
          PROVE  ~ ChatUnauthorised(c, env) /\ ~ ChatRefused(c, env)
      BY <2>6, <2>7 DEF ChatUnauthorised, ChatRefused, Sender
    <2>. QED  BY <2>5, <2>7 DEF Offends
  <1>. QED  BY <1>2, <1>3

\* The host participant is always registered, so a room that runs has run.
LEMMA RanBefore ==
    ASSUME PathInv'
    PROVE  /\ HostConnection \in Conn /\ HostConnection \in DOMAIN connections'
           /\ PassesBy(HostConnection) /\ Running' => Running
  <1>1. HostConnection \in Conn
    BY BoundsAssumption DEF HostConnection, Conn
  <1>2. Agree(members', connections', requests') /\ HostPresent'
    BY DEF PathInv, KeyInv, TablesInv, TableFacts
  <1>3. HostConnection \in DOMAIN connections'
    BY <1>2 DEF Agree, HostPresent
  <1>. QED  BY <1>1, <1>3 DEF PassesBy

\* Host commands, deadlines and the tick.
LEMMA SpontaneousBehaves ==
    ASSUME PathInv, PathInv', HonestInv, Spontaneous, NEW d \in Conn
    PROVE  /\ Running' /\ d # HostConnection => Behaves(d)'
           /\ Civil(d)
  <1>1. /\ HostEvent \/ EpochTimeout \/ Tick
        /\ Transmit(session) /\ up' = up /\ TypeOK /\ TypeOK'
    BY DEF Spontaneous, PathInv, KeyInv, TablesInv
  <1>2. \A x \in Conn :
           /\ PassesBy(x) \/ \E r \in DOMAIN requests : AcceptJoin(r) /\ x = requests[r].connection
           /\ Civil(x)
    BY <1>1, HostPasses, TimePasses
  <1>3. Running' => Running
    <2>1. \A r : AcceptJoin(r) => Running
      BY DEF AcceptJoin, AtRest, Running
    <2>. QED  BY <1>2, <2>1, RanBefore
  <1>4. ASSUME Running', d # HostConnection
        PROVE  Behaves(d)'
    <2>1. Behaves(d) /\ Onward(d)
      BY <1>1, <1>3, <1>4, TransmitOnward DEF HonestInv
    <2>2. CASE PassesBy(d)
      BY <1>1, <1>4, <2>1, <2>2, BehavesPassed
    <2>3. ASSUME NEW r \in DOMAIN requests, AcceptJoin(r), d = requests[r].connection
          PROVE  Behaves(d)'
      BY <1>1, <2>1, <2>3, BehavesAdmitted
    <2>. QED  BY <1>2, <2>2, <2>3
  <1>. QED  BY <1>2, <1>4

\* A new connection.
LEMMA ConnectBehaves ==
    ASSUME PathInv, PathInv', HonestInv, NEW app \in Applications, Connect(app), NEW d \in Conn
    PROVE  /\ Running' /\ d # HostConnection => Behaves(d)'
           /\ Civil(d)
  <1>. DEFINE fresh == [session EXCEPT ![nextConn] = [NoSession EXCEPT !.status = "applying"]]
  <1>1. /\ ClientConnected /\ Transmit(fresh) /\ Running /\ TypeOK /\ TypeOK'
        /\ \A x \in Conn : x # nextConn => up'[x] = up[x] /\ fresh[x] = session[x]
    <2>1. up \in [Conn -> Seq(Upward)] /\ session \in [Conn -> SessionRecord]
      BY SessionTypes
    <2>. QED  BY <2>1 DEF Connect, ClientConnected, PathInv, KeyInv, TablesInv
  <1>. HIDE DEF fresh
  <1>2. Civil(d) /\ (d # nextConn => PassesBy(d))
    BY <1>1, ConnectPasses
  <1>3. ASSUME Running', d # HostConnection, d # nextConn
        PROVE  Behaves(d)'
    <2>1. Behaves(d) /\ Onward(d) /\ up'[d] = up[d] /\ PassesBy(d)
      BY <1>1, <1>2, <1>3, TransmitOnward DEF HonestInv
    <2>. QED  BY <1>3, <2>1, BehavesPassed
  <1>4. d = nextConn => Behaves(d)'
    BY BehavesConnected
  <1>. QED  BY <1>2, <1>3, <1>4

\* The actor handles what a participant sent.
LEMMA ActorBehaves ==
    ASSUME PathInv, PathInv', HonestInv, NEW c \in Conn, ActorReceives(c), NEW d \in Conn
    PROVE  /\ Running' /\ d # HostConnection => Behaves(d)'
           /\ d \in DOMAIN connections' \/ d \in ConnectionsOf(members) => Civil(d)
  <1>1. /\ up \in [Conn -> Seq(Upward)] /\ TypeOK /\ TypeOK' /\ KeyInv
        /\ up[c] # <<>> /\ Transmit(session) /\ up' = [up EXCEPT ![c] = Tail(@)]
    BY SessionTypes DEF ActorReceives, PathInv, KeyInv, TablesInv
  <1>2. PICK msg \in Upward : msg = Head(up[c]) /\ msg = up[c][1]
    BY <1>1, Rest
  <1>3. Handle(c, msg)
    BY <1>2 DEF ActorReceives
  <1>4. \A x \in Conn : Concerns(c, msg, x)
    BY <1>1, <1>3, HandleConcerns
  <1>5. Running' => Running
    BY <1>4, RanBefore DEF Concerns, Moves
  <1>6. ASSUME Running', d # HostConnection
        PROVE  Behaves(d)'
    <2>1. Behaves(d) /\ Onward(d)
      BY <1>1, <1>5, <1>6, TransmitOnward DEF HonestInv
    <2>2. up'[d] = up[d] \/ (up[d] # <<>> /\ up'[d] = Tail(up[d]))
      BY <1>1
    <2>3. CASE PassesBy(d)
      BY <1>6, <2>1, <2>2, <2>3, BehavesPassed
    <2>4. CASE d = c /\ Moves(c, msg)
      <3>1. up'[c] = Tail(up[c])
        BY <1>1
      <3>. QED  BY <1>1, <1>2, <1>6, <2>1, <2>4, <3>1, BehavesMoved
    <2>. QED  BY <1>4, <2>3, <2>4 DEF Concerns
  <1>7. ASSUME d \in DOMAIN connections' \/ d \in ConnectionsOf(members)
        PROVE  Civil(d)
    <2>1. CASE Civil(d)
      BY <2>1
    <2>2. CASE d = c /\ Running /\ Offends(c, msg) /\ c \notin DOMAIN connections'
      <3>1. c \in ConnectionsOf(members) /\ (c # HostConnection => Behaves(c))
        BY <1>7, <2>2 DEF HonestInv
      <3>. QED  BY <1>1, <1>2, <2>2, <3>1, NoOffence
    <2>. QED  BY <1>4, <2>1, <2>2 DEF Concerns
  <1>. QED  BY <1>6, <1>7

\* What a step says to the members before it, whoever they are.
NoneReproached ==
    \A m \in DOMAIN members, c \in Conn :
       members[m].connection = c =>
          \A i \in DOMAIN outgoing'.send[c] : outgoing'.send[c][i] # Error("ProtocolViolation")

\* A batch that is civil to everybody in the tables.
LEMMA CivilStep ==
    ASSUME PathInv, PathInv',
           \A d \in Conn : /\ Running' /\ d # HostConnection => Behaves(d)'
                           /\ d \in DOMAIN connections' \/ d \in ConnectionsOf(members) => Civil(d)
    PROVE  HonestInv' /\ NoneReproached
  <1>1. IsReproach(Error("ProtocolViolation"))
    BY DEF IsReproach, Error
  <1>2. NoneReproached
    <2>. SUFFICES ASSUME NEW m \in DOMAIN members, NEW c \in Conn, members[m].connection = c,
                         NEW i \in DOMAIN outgoing'.send[c]
                  PROVE  outgoing'.send[c][i] # Error("ProtocolViolation")
      BY DEF NoneReproached
    <2>1. Civil(c)
      BY DEF ConnectionsOf
    <2>. QED  BY <1>1, <2>1 DEF Civil
  <1>3. Unreproached'
    <2>. SUFFICES ASSUME NEW m \in DOMAIN members', NEW d, d = members'[m].connection
                  PROVE  \A i \in DOMAIN outgoing'.send[d] : ~ IsReproach(outgoing'.send[d][i])
      BY DEF Unreproached
    <2>1. Agree(members', connections', requests') /\ TypeOK'
      BY DEF PathInv, KeyInv, TablesInv, TableFacts
    <2>2. d \in DOMAIN connections' /\ d \in Conn
      BY <2>1 DEF Agree, TypeOK, IsMap
    <2>. QED  BY <2>2 DEF Civil
  <1>. QED  BY <1>2, <1>3 DEF HonestInv

\* Every step, when the participants send chat lines and colours.
LEMMA HonestStep ==
    ASSUME PathInv, PathInv', HonestInv, "TimeoutRequest" \notin Kinds, [SessionNext]_allVars
    PROVE  HonestInv' /\ NoneReproached
  <1>1. CASE Spontaneous
    BY <1>1, SpontaneousBehaves, CivilStep
  <1>2. ASSUME NEW c \in Conn, ActorReceives(c)
        PROVE  HonestInv' /\ NoneReproached
    BY <1>2, ActorBehaves, CivilStep
  <1>3. ASSUME NEW app \in Applications, Connect(app)
        PROVE  HonestInv' /\ NoneReproached
    BY <1>3, ConnectBehaves, CivilStep
  <1>4. ASSUME UNCHANGED vars,
               Running => \A d \in Conn \ {HostConnection} : Behaves(d)'
        PROVE  HonestInv' /\ NoneReproached
    <2>1. UNCHANGED <<state, members, outgoing>>
      BY <1>4 DEF vars
    <2>2. HonestInv'
      BY <1>4, <2>1 DEF HonestInv, Unreproached, Running
    <2>3. IsReproach(Error("ProtocolViolation"))
      BY DEF IsReproach, Error
    <2>. QED  BY <2>1, <2>2, <2>3 DEF HonestInv, Unreproached, NoneReproached
  <1>5. CASE Locals
    <2>1. UNCHANGED vars
      BY <1>5 DEF Locals, ParticipantReceives, Disconnect, SendMessage, SendColor, HostTimeout
    <2>2. Running => \A d \in Conn \ {HostConnection} : Behaves(d)'
      BY <1>5, LocalsBehave DEF HonestInv
    <2>. QED  BY <1>4, <2>1, <2>2
  <1>6. CASE UNCHANGED allVars
    <2>1. UNCHANGED vars /\ UNCHANGED <<session, up, down>>
      BY <1>6 DEF allVars, sessionVars
    <2>2. Running => \A d \in Conn \ {HostConnection} : Behaves(d)'
      BY <2>1, BehavesElsewhere DEF HonestInv
    <2>. QED  BY <1>4, <2>1, <2>2
  <1>7. SessionNext => \/ Spontaneous \/ Locals
                       \/ \E c \in Conn : ActorReceives(c)
                       \/ \E app \in Applications : Connect(app)
    BY Zenon DEF SessionNext, Locals
  <1>. QED  BY <1>1, <1>2, <1>3, <1>5, <1>6, <1>7

\* Nobody has connected yet.
LEMMA HonestBegins ==
    ASSUME SessionInit
    PROVE  HonestInv
  <1>1. /\ Init /\ up = [c \in Conn |-> <<>>] /\ down = [c \in Conn |-> outgoing.send[c]]
    BY DEF SessionInit
  <1>2. /\ DOMAIN connections = {HostConnection} /\ DOMAIN members = {HostId}
        /\ members[HostId].connection = HostConnection
        /\ \A c \in Conn : outgoing.send[c] = IF c = HostConnection THEN <<EpochWrap(1)>> ELSE <<>>
    BY <1>1 DEF Init, With, Empty, Member, SendTo, Silence
  <1>3. ASSUME NEW c \in Conn \ {HostConnection}
        PROVE  Behaves(c)
    <2>1. c \notin DOMAIN connections /\ down[c] = <<>>
      BY <1>1, <1>2
    <2>. QED  BY <2>1, OneOrOther DEF Behaves, Unprompted
  <1>4. Unreproached
    <2>1. HostConnection \in Conn
      BY BoundsAssumption DEF HostConnection, Conn
    <2>2. ~ IsReproach(EpochWrap(1))
      BY DEF IsReproach, EpochWrap
    <2>3. outgoing.send[HostConnection] = <<EpochWrap(1)>>
      BY <1>2, <2>1
    <2>. QED  BY <1>2, <2>2, <2>3 DEF Unreproached
  <1>. QED  BY <1>3, <1>4 DEF HonestInv

\* What explains why no member is reproached, as an invariant: what a connection
\* has sent and not yet seen handled is what an applicant or that very member
\* would send, numbered after what the room has heard of it, and under the
\* room's key once it has acknowledged that key.
THEOREM HonestInvariant ==
    ASSUME "TimeoutRequest" \notin Kinds
    PROVE  SessionSpec => []HonestInv
  <1>1. SessionInit => HonestInv
    BY HonestBegins
  <1>2. PathInv /\ PathInv' /\ HonestInv /\ [SessionNext]_allVars => HonestInv'
    BY HonestStep
  <1>. QED  BY <1>1, <1>2, SessionInvariant, PTL DEF SessionSpec

\* A member that only sends chat lines and colours is never answered with
\* PROTOCOL_VIOLATION, which cuts its connection: whatever transitions, kicks,
\* relays and its own messages cross in flight, the room never meets a message
\* of a member's with the wrong sender, key or sequence, nor a second form.
\* Timeout requests are excluded because QueueFull does punish their sender.
THEOREM HonestTheorem ==
    ASSUME "TimeoutRequest" \notin Kinds
    PROVE  SessionSpec => HonestMemberNotPunished
  <1>1. PathInv /\ PathInv' /\ HonestInv /\ [SessionNext]_allVars => NoneReproached
    BY HonestStep
  <1>2. SessionSpec => []HonestInv
    BY HonestInvariant
  <1>. QED  BY <1>1, <1>2, SessionInvariant, PTL
            DEF SessionSpec, HonestMemberNotPunished, NoneReproached
=============================================================================
