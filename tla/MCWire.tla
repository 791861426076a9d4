------------------------------- MODULE MCWire -------------------------------
(* Traffic for the wire: short messages both ways under every interleaving,  *)
(* every message type at the edges of its fields, and the same frames with    *)
(* one thing wrong.                                                           *)
EXTENDS Wire

Ends == {"host", "member"}
Sizes == {6, 20}

(* Messages at the lower and at the upper edge of every field.               *)
KindOf(f) == IF "text" \in f.of THEN "text" ELSE CHOOSE k \in f.of : TRUE
AMember == [key \in 1 .. 5 |-> Item(KindOf(SnapshotMember[key]), SnapshotMember[key].lo)]
Edge(f, n) == IF "array" \in f.of THEN ArrayOf([i \in 1 .. (IF n = f.hi THEN 2 ELSE 0) |-> AMember])
              ELSE Item(KindOf(f), n)
Least(t) == Message(t, [key \in Required(Schemas[t]) |-> Edge(Schemas[t][key], Schemas[t][key].lo)])
\* Optional texts present and empty: an introduction of no characters, say.
Empty(t) == Message(t, [key \in DOMAIN Schemas[t] |-> Edge(Schemas[t][key], Schemas[t][key].lo)])
Most(t) == Message(t, [key \in DOMAIN Schemas[t] |-> Edge(Schemas[t][key], Schemas[t][key].hi)])
ChatOf(n) == [Least("ChatMessage") EXCEPT !.fields[5].n = n]

(* One thing wrong with a payload.                                            *)
EntriesOf(p) == [i \in 1 .. p[1].n |-> <<p[2 * i], p[2 * i + 1]>>]
Payload(entries, n) == <<Item("map", n)>> \o FlattenSeq(entries)
Odd == {Item("uint", 10), Item("uint", OverU8), Item("bytes", 17), Item("text", 257),
        Item("dirty", 3)}
Damaged(p) ==
    LET es == EntriesOf(p)
        n == p[1].n
    IN {Payload(es, n + 1), Payload(Reverse(es), n), <<Item("indefinite", 0)>> \o Tail(p),
        Append(p, Item("uint", 0)), Payload(Append(es, Entry(9, Item("uint", 1))), n + 1), <<>>}
       \cup (IF n = 0 THEN {} ELSE
               {Payload(es, n - 1)}
               \cup {Payload(RemoveAt(es, i), n - 1) : i \in 1 .. n}
               \cup {Payload(Append(es, es[i]), n + 1) : i \in 1 .. n}
               \cup {Payload([es EXCEPT ![i][2] = v], n) : i \in 1 .. n, v \in Odd})

DamagedTypes == {"ClientHello", "JoinRequest", "MemberSnapshot", "Keepalive", "Error"}
Reference(t, p) == IF WellFormed(t, p) /\ ~Overlong(p)
                   THEN Message(t, Normalized(t, [key \in DOMAIN FieldsOf(p) |->
                                                     MessageValue(FieldsOf(p)[key])]))
                   ELSE NoMessage
RawFrame(t, p) == [cells |-> EncodeFrame(t, p), means |-> Reference(t, p)]
Raw(cells) == [cells |-> cells, means |-> NoMessage]

BadFrames == {Raw(Header(3, 2, "Keepalive", 0)), Raw(Header(3, 1, "unknown", 0)),
              Raw(Header(3, 1, "Keepalive", 1)), Raw(Header(2, 1, "Keepalive", 0)),
              Raw(Header(MaxFrame + 1, 1, "Keepalive", 0)), Raw(Header(9, 1, "Keepalive", 0))}

Ack == OfMessage(Least("EpochAck"))
Policy == OfMessage(Least("JoinPolicyChanged"))
Chat == OfMessage(ChatOf(20))
From(host, member, n) == [things |-> [e \in Ends |-> IF e = "host" THEN host ELSE member],
                          ticks |-> [e \in Ends |-> IF e = "host" THEN n ELSE 0]]

TwoWay == {From(<<Policy, OfMessage(Message("Shutdown", <<>>))>>, <<Chat>>, 0),
           From(<<Policy>>, <<Ack, Ack>>, 1)}
EveryType == {From(<<>>, <<OfMessage(m)>>, 0) :
                 m \in {Least(t) : t \in MessageType} \cup {Most(t) : t \in MessageType}
                       \cup {ChatOf(MaxCborBytes)}}
Scant == {From(<<>>, <<RawFrame(t, EncodeBody(Empty(t)))>>, 0) : t \in MessageType}
Broken == UNION {{From(<<>>, <<RawFrame(t, p)>>, 0) : p \in Damaged(EncodeBody(Most(t)))} :
                         t \in DamagedTypes}
          \cup {From(<<>>, <<Ack, bad>>, 0) : bad \in BadFrames}
AllTraffic == TwoWay \cup EveryType \cup Scant \cup Broken

\* Chat around the limits of the text and of the decoder.
ChatLimit == {From(<<>>, <<OfMessage(ChatOf(n + TagLen))>>, 0) :
                 n \in {1, MaxChatText - TagLen, MaxChatText - TagLen + 1, MaxChatText}}
=============================================================================
