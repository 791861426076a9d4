------------------------------- MODULE Schema -------------------------------
(***************************************************************************)
(* Payloads of the wire protocol: the field table of every message type,   *)
(* the deterministic encoder and the strict decoder.  A payload is a       *)
(* sequence of CBOR items; an item keeps its kind and its size, never its  *)
(* bytes.  The members of a snapshot are one array item that carries the   *)
(* payload of each member.                                                 *)
(***************************************************************************)
EXTENDS Naturals, Sequences, SequencesExt

\* Limits::default, in bytes, entries and levels.
MaxCborText == 4096
MaxCborBytes == 4096
MaxMapEntries == 64
MaxArrayEntries == 256
MaxNestingDepth == 8
MaxChatText == 4096
TagLen == 16

\* Integers above 255 are told apart only by the width they need.
OverU8 == 256
OverU32 == 257

(* "dirty" is text with a control character, "indefinite" a map of          *)
(* indefinite length.                                                       *)
Item(k, n) == [k |-> k, n |-> n, of |-> <<>>]
ArrayOf(elements) == [k |-> "array", n |-> Len(elements), of |-> elements]

Field(kinds, lo, hi) == [of |-> kinds, lo |-> lo, hi |-> hi, required |-> TRUE]
Optional(f) == [f EXCEPT !.required = FALSE]
UInt(hi) == Field({"uint"}, 0, hi)
U8 == UInt(255)
U32 == UInt(OverU8)
U64 == UInt(OverU32)
Bool == Field({"bool"}, 0, 1)
Fixed(n) == Field({"bytes"}, n, n)
AnyText == Field({"text", "dirty"}, 0, MaxCborText)
CleanText(lo, hi) == Field({"text"}, lo, hi)

(* The fields of each message by key; nickname and introduction are bounded *)
(* in characters, taken as one byte each.                                   *)
HostHello == <<U8, Fixed(32), Fixed(32), Fixed(32), Fixed(16), Fixed(64)>>
ClientHello == <<U8, Fixed(16), U32>>
TokenVerify == <<Field({"bytes"}, 16, 32)>>
PasswordChallenge == <<U32, U32, U8, Fixed(16), Fixed(16)>>
ChallengeProof == <<Fixed(32)>>
JoinRequest ==
    <<CleanText(1, 32), Optional(CleanText(0, 160)), Fixed(32), Fixed(32), Fixed(64)>>
JoinAccepted == <<U64>>
JoinRejected == <<Optional(CleanText(0, 256))>>
MemberJoined == <<U64, U64, U64, AnyText, Fixed(32), Fixed(64)>>
MemberGone == <<U64, U64, U64, Fixed(64)>>     \* MemberLeft and MemberKicked
JoinPolicyChanged == <<U64, U64, Bool, Fixed(64)>>
SnapshotMember == <<U64, AnyText, U8, Bool, Fixed(32)>>
MemberSnapshot == <<U64, U64, Field({"array"}, 0, MaxArrayEntries), Fixed(64)>>
EncryptedEnvelope ==
    <<U64, U64, U64, Fixed(24), Field({"bytes"}, 1 + TagLen, MaxChatText + TagLen), Fixed(64)>>
EpochWrap == <<U64, Fixed(24), Fixed(32 + TagLen)>>
EpochAck == <<U64>>
ErrorMessage == <<Field({"uint"}, 1, 9), Optional(CleanText(0, 256))>>

Schemas ==
    [HostHello |-> HostHello, ClientHello |-> ClientHello, TokenVerify |-> TokenVerify,
     PasswordChallenge |-> PasswordChallenge, ChallengeProof |-> ChallengeProof,
     JoinRequest |-> JoinRequest, JoinAccepted |-> JoinAccepted,
     JoinRejected |-> JoinRejected, MemberJoined |-> MemberJoined,
     MemberLeft |-> MemberGone, MemberKicked |-> MemberGone,
     JoinPolicyChanged |-> JoinPolicyChanged, MemberSnapshot |-> MemberSnapshot,
     ChatMessage |-> EncryptedEnvelope, ColorChange |-> EncryptedEnvelope,
     TimeoutRequest |-> EncryptedEnvelope, TimeoutChanged |-> EncryptedEnvelope,
     EpochWrap |-> EpochWrap, EpochAck |-> EpochAck,
     Keepalive |-> <<>>, Error |-> ErrorMessage, Shutdown |-> <<>>]

MessageType == DOMAIN Schemas
Required(schema) == {key \in DOMAIN schema : schema[key].required}

\* A message is its type and the values of the fields it carries.
Message(t, fields) == [t |-> t, fields |-> fields]
NoMessage == Message("none", <<>>)

\* Keys in ascending order; no schema has more than MaxField fields.
MaxField == 6
Entry(key, value) == <<Item("uint", key), value>>
EncodeMap(fields) ==
    <<Item("map", Cardinality(DOMAIN fields))>>
        \o FlattenSeq([key \in 1 .. MaxField |->
               IF key \in DOMAIN fields THEN Entry(key, fields[key]) ELSE <<>>])

(* In a message the elements of an array are the fields of a member, on the *)
(* wire they are payloads.                                                  *)
EncodeValue(v) == [v EXCEPT !.of = [i \in DOMAIN v.of |-> EncodeMap(v.of[i])]]
EncodeBody(m) == EncodeMap([key \in DOMAIN m.fields |-> EncodeValue(m.fields[key])])

(* A string longer than its kind may be is refused before its schema sees   *)
(* it.                                                                      *)
StringFits(v) ==
    /\ v.k \in {"text", "dirty"} => v.n <= MaxCborText
    /\ v.k = "bytes" => v.n <= MaxCborBytes

ContainerFits(depth, declared, limit) == depth < MaxNestingDepth /\ declared <= limit

ReadScalar(v, f) == StringFits(v) /\ v.k \in f.of /\ f.lo <= v.n /\ v.n <= f.hi

(* map_entries reads entry after entry and stops at the first it refuses.   *)
SeenBefore(payload, i) == {payload[2 * j].n : j \in 1 .. i - 1}
EntryAccepted(payload, i, schema) ==
    /\ 2 * i + 1 <= Len(payload)
    /\ payload[2 * i].k = "uint"
    /\ payload[2 * i].n \notin SeenBefore(payload, i)
    /\ payload[2 * i].n \in DOMAIN schema
    /\ ReadScalar(payload[2 * i + 1], schema[payload[2 * i].n])

ReadMap(payload, schema, depth) ==
    /\ payload # <<>>
    /\ payload[1].k = "map"
    /\ ContainerFits(depth, payload[1].n, MaxMapEntries)
    /\ \A i \in 1 .. payload[1].n : EntryAccepted(payload, i, schema)
    /\ Required(schema) \subseteq SeenBefore(payload, payload[1].n + 1)

\* The only arrays are those of a snapshot's members.
MapSize(payload) == 1 + 2 * payload[1].n
ReadArray(v) ==
    v.k = "array" =>
        /\ ContainerFits(1, v.n, MaxArrayEntries)
        /\ \A i \in DOMAIN v.of :
              /\ ReadMap(v.of[i], SnapshotMember, 2)
              /\ Len(v.of[i]) = MapSize(v.of[i])
ReadPayload(payload, schema) ==
    /\ ReadMap(payload, schema, 0)
    /\ \A i \in 1 .. payload[1].n : ReadArray(payload[2 * i + 1])

\* Mutant: what follows the map is not looked at.
Finished_Unchecked(payload) == TRUE
Finished(payload) == Len(payload) = MapSize(payload)

\* The fields a well-formed map carries.
FieldsOf(payload) ==
    LET at(key) == CHOOSE i \in 1 .. payload[1].n : payload[2 * i].n = key
    IN [key \in {payload[2 * i].n : i \in 1 .. payload[1].n} |-> payload[2 * at(key) + 1]]
MessageValue(v) == [v EXCEPT !.of = [i \in DOMAIN v.of |-> FieldsOf(v.of[i])]]

\* An empty reason is dropped when a rejection is decoded.
Normalized(t, fields) ==
    IF t = "JoinRejected" /\ 1 \in DOMAIN fields /\ fields[1].n = 0 THEN <<>> ELSE fields

Decode(t, payload) ==
    IF ReadPayload(payload, Schemas[t]) /\ Finished(payload)
    THEN Message(t, Normalized(t, [key \in DOMAIN FieldsOf(payload) |->
                                      MessageValue(FieldsOf(payload)[key])]))
    ELSE NoMessage

(* Reference: what a payload has to look like, said without reading it      *)
(* front to back.  Pairs are the entries of a map whatever their order.     *)
Pairs(payload) == {<<payload[2 * i], payload[2 * i + 1]>> : i \in 1 .. payload[1].n}
WellFormedMap(payload, schema) ==
    /\ payload # <<>>
    /\ payload[1].k = "map"
    /\ Len(payload) = 1 + 2 * payload[1].n
    /\ LET keys == {pair[1].n : pair \in Pairs(payload)}
       IN /\ Cardinality(keys) = payload[1].n
          /\ Required(schema) \subseteq keys
          /\ keys \subseteq DOMAIN schema
    /\ \A pair \in Pairs(payload) :
          /\ pair[1].k = "uint"
          /\ pair[2].k \in schema[pair[1].n].of
          /\ pair[2].n \in schema[pair[1].n].lo .. schema[pair[1].n].hi
WellFormed(t, payload) ==
    /\ WellFormedMap(payload, Schemas[t])
    /\ \A i \in DOMAIN payload : \A j \in DOMAIN payload[i].of :
          WellFormedMap(payload[i].of[j], SnapshotMember)
\* A byte string the schema allows and the decoder does not.
Overlong(payload) == \E i \in DOMAIN payload :
    payload[i].k = "bytes" /\ payload[i].n > MaxCborBytes
=============================================================================
