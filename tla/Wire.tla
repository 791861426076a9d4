-------------------------------- MODULE Wire --------------------------------
(***************************************************************************)
(* The frame codec and the two connection tasks of one connection.  Both   *)
(* ends run the same task: it writes a keepalive or a queued message to    *)
(* its end, or reads what is there, and does nothing else while it waits   *)
(* for either.  A cell is one CBOR item or one field of the frame header;  *)
(* sizes of frames are counted in cells.  The stream between the ends is   *)
(* external: it holds PipeCapacity cells and may break at any time.        *)
(***************************************************************************)
EXTENDS Schema

CONSTANTS
    End,            \* the two ends of the connection
    Traffic,        \* what the ends may send: things and keepalives
    MaxFrame,       \* Limits::max_frame_size
    PipeCapacity,   \* cells the stream holds in one direction
    ReadSizes,      \* how much one read may return
    InboundCapacity,  \* INBOUND_QUEUE_CAPACITY
    OutboundCapacity  \* OUTBOUND_QUEUE_CAPACITY

VARIABLES
    script,    \* what the program at each end has yet to send
    outbound,  \* the bounded queue to the task
    out,       \* cells of the frame being written
    pipe,      \* cells on their way from this end
    buf,       \* FrameDecoder::buf
    frames,    \* frames of the last read not handled yet
    inbound,   \* the bounded queue to the program
    task,      \* run, violated, closing, ended (None was sent), dropped
    ticks,     \* keepalives this end may still write
    sent,      \* history: what was handed to the stream
    got        \* history: what was handed to the program

vars == <<script, outbound, out, pipe, buf, frames, inbound, task, ticks, sent, got>>

UpTo(s, n) == SubSeq(s, 1, Min({n, Len(s)}))
Other(e) == CHOOSE o \in End : o # e

LengthField == 1     \* LENGTH_FIELD_LEN
HeaderLen == 4       \* FRAME_HEADER_LEN: length, version, type, flags
MinBody == 3         \* MIN_FRAME_BODY_LEN
Version == 1         \* PROTOCOL_MAJOR_VERSION

(* A frame on the stream.  The type is the name of the message, "unknown"   *)
(* an unregistered number.                                                  *)
Header(declared, version, t, flags) ==
    <<Item("length", declared), Item("version", version), Item(t, 0), Item("flags", flags)>>
EncodeFrame(t, payload) == Header(Len(payload) + MinBody, Version, t, 0) \o payload

(* A thing handed to the stream: its cells and what they mean.  This        *)
(* program sends messages; any other may send any cells.                    *)
OfMessage(m) ==
    LET payload == EncodeBody(m)
    IN [cells |-> EncodeFrame(m.t, payload),
        means |-> IF Overlong(payload) THEN NoMessage ELSE m]
Encodable(thing) == Len(thing.cells) - LengthField <= MaxFrame

Keepalive == Message("Keepalive", <<>>)
Violation == Message("Error", <<Item("uint", 1), Item("text", 17)>>)
KeepaliveThing == OfMessage(Keepalive)
ViolationThing == OfMessage(Violation)

(* FrameDecoder::feed: the complete frames at the front of the bytes, the   *)
(* bytes left over, and whether a frame broke the rules, in which case the  *)
(* frames before it are lost with it.                                       *)
Declared(cells) == cells[1].n
FrameError(cells) ==
    \/ Declared(cells) > MaxFrame
    \/ Declared(cells) < MinBody
    \/ /\ Len(cells) >= LengthField + Declared(cells)
       /\ \/ cells[2].n # Version
          \/ cells[3].k \notin MessageType
          \/ cells[4].n # 0
Incomplete(cells) ==
    \/ Len(cells) < HeaderLen
    \/ ~FrameError(cells) /\ Len(cells) < LengthField + Declared(cells)

\* Mutant: the length is taken to count its own field.
NextFrame_LengthForgotten(cells) ==
    [t |-> cells[3].k, payload |-> SubSeq(cells, HeaderLen + 1, Declared(cells))]
NextFrame(cells) == [t |-> cells[3].k,
                     payload |-> SubSeq(cells, HeaderLen + 1, LengthField + Declared(cells))]
AfterFrame(cells) == SubSeq(cells, LengthField + Declared(cells) + 1, Len(cells))

FeedResult(ok, taken, left) == [ok |-> ok, frames |-> taken, left |-> left]
\* Mutant: one frame per read.
Feed_OneFrame(cells) ==
    IF Incomplete(cells) THEN FeedResult(TRUE, <<>>, cells)
    ELSE IF FrameError(cells) THEN FeedResult(FALSE, <<>>, <<>>)
    ELSE FeedResult(TRUE, <<NextFrame(cells)>>, AfterFrame(cells))
Feed(cells) ==
    LET Loop[at \in 1 .. Len(cells) + 1] ==
            LET rest == SubSeq(cells, at, Len(cells))
            IN IF Incomplete(rest) THEN FeedResult(TRUE, <<>>, rest)
               ELSE IF FrameError(rest) THEN FeedResult(FALSE, <<>>, <<>>)
               ELSE LET later == Loop[Len(cells) + 1 - Len(AfterFrame(rest))]
                    IN IF later.ok
                       THEN FeedResult(TRUE, <<NextFrame(rest)>> \o later.frames, later.left)
                       ELSE later
    IN Loop[1]

Init ==
    /\ \E t \in Traffic : script = t.things /\ ticks = t.ticks
    /\ outbound = [e \in End |-> <<>>]
    /\ out = [e \in End |-> <<>>]
    /\ pipe = [e \in End |-> <<>>]
    /\ buf = [e \in End |-> <<>>]
    /\ frames = [e \in End |-> <<>>]
    /\ inbound = [e \in End |-> <<>>]
    /\ task = [e \in End |-> "run"]
    /\ sent = [e \in End |-> <<>>]
    /\ got = [e \in End |-> <<>>]

\* The task is at its select: it awaits neither a write nor the program.
AtSelect(e) == task[e] = "run" /\ out[e] = <<>> /\ frames[e] = <<>>
Gone(e) == task[e] \in {"ended", "dropped"}
HasRoom(e) == Len(inbound[e]) < InboundCapacity

\* Closing a connection aborts its task wherever it is.
Abort(e) ==
    /\ task' = [task EXCEPT ![e] = "dropped"]
    /\ outbound' = [outbound EXCEPT ![e] = <<>>]
    /\ out' = [out EXCEPT ![e] = <<>>]
    /\ frames' = [frames EXCEPT ![e] = <<>>]
    /\ script' = [script EXCEPT ![e] = <<>>]
    /\ UNCHANGED <<pipe, buf, inbound, ticks, sent, got>>

Drop(e) == ~Gone(e) /\ Abort(e)

\* PeerConnection::send; when it fails the program closes the connection.
Submit(e) ==
    /\ task[e] # "dropped"
    /\ script[e] # <<>>
    /\ IF ~Gone(e) /\ Len(outbound[e]) < OutboundCapacity
       THEN /\ outbound' = [outbound EXCEPT ![e] = Append(@, Head(script[e]))]
            /\ script' = [script EXCEPT ![e] = Tail(@)]
            /\ UNCHANGED <<out, pipe, buf, frames, inbound, task, ticks, sent, got>>
       ELSE Abort(e)

\* encode_write up to its first await; what cannot be encoded ends the task.
StartWrite(e, thing) ==
    IF Encodable(thing)
    THEN /\ out' = [out EXCEPT ![e] = thing.cells]
         /\ sent' = [sent EXCEPT ![e] = Append(@, thing)]
         /\ UNCHANGED task
    ELSE /\ task' = [task EXCEPT ![e] = "closing"]
         /\ UNCHANGED <<out, sent>>

Tick(e) ==
    /\ AtSelect(e)
    /\ ticks[e] > 0
    /\ ticks' = [ticks EXCEPT ![e] = @ - 1]
    /\ StartWrite(e, KeepaliveThing)
    /\ UNCHANGED <<script, outbound, pipe, buf, frames, inbound, got>>

Dequeue(e) ==
    /\ AtSelect(e)
    /\ outbound[e] # <<>>
    /\ outbound' = [outbound EXCEPT ![e] = Tail(@)]
    /\ StartWrite(e, Head(outbound[e]))
    /\ UNCHANGED <<script, pipe, buf, frames, inbound, ticks, got>>

(* write_all: the stream takes what it has room for.  After the write of a  *)
(* violation the task closes.                                               *)
AfterWrite(e) == task' = [task EXCEPT ![e] = IF @ = "violated" THEN "closing" ELSE @]
Write(e) ==
    /\ out[e] # <<>>
    /\ ~Gone(Other(e))
    /\ Len(pipe[e]) < PipeCapacity
    /\ LET n == PipeCapacity - Len(pipe[e])
           taken == UpTo(out[e], n)
       IN /\ pipe' = [pipe EXCEPT ![e] = @ \o taken]
          /\ out' = [out EXCEPT ![e] = SubSeq(@, Len(taken) + 1, Len(@))]
          /\ IF Len(taken) = Len(out[e]) THEN AfterWrite(e) ELSE UNCHANGED task
    /\ UNCHANGED <<script, outbound, buf, frames, inbound, ticks, sent, got>>

\* Mutant: a write is awaited without a timeout.
WriteFails_NoTimeout(e) ==
    /\ out[e] # <<>>
    /\ Gone(Other(e))
    /\ out' = [out EXCEPT ![e] = <<>>]
    /\ task' = [task EXCEPT ![e] = "closing"]
    /\ UNCHANGED <<script, outbound, pipe, buf, frames, inbound, ticks, sent, got>>

\* The write failed, or took longer than ten seconds.
WriteFails(e) ==
    /\ out[e] # <<>>
    /\ out' = [out EXCEPT ![e] = <<>>]
    /\ task' = [task EXCEPT ![e] = "closing"]
    /\ UNCHANGED <<script, outbound, pipe, buf, frames, inbound, ticks, sent, got>>

(* The select is biased: the task reads only when nothing waits to be       *)
(* written.                                                                 *)
MayRead(e) == AtSelect(e) /\ outbound[e] = <<>>
Read(e, size) ==
    /\ MayRead(e)
    /\ pipe[Other(e)] # <<>>
    /\ LET cells == pipe[Other(e)]
           chunk == UpTo(cells, size)
           result == Feed(buf[e] \o chunk)
       IN /\ pipe' = [pipe EXCEPT ![Other(e)] = SubSeq(cells, Len(chunk) + 1, Len(cells))]
          /\ buf' = [buf EXCEPT ![e] = result.left]
          /\ frames' = [frames EXCEPT ![e] = result.frames]
          /\ task' = [task EXCEPT ![e] = IF result.ok THEN @ ELSE "closing"]
    /\ UNCHANGED <<script, outbound, out, inbound, ticks, sent, got>>

\* End of stream, with or without an incomplete frame, and a broken stream.
ReadEnds(e) ==
    /\ MayRead(e)
    /\ pipe[Other(e)] = <<>> /\ Gone(Other(e))
    /\ task' = [task EXCEPT ![e] = "closing"]
    /\ UNCHANGED <<script, outbound, out, pipe, buf, frames, inbound, ticks, sent, got>>
StreamBreaks(e) ==
    /\ MayRead(e)
    /\ task' = [task EXCEPT ![e] = "closing"]
    /\ UNCHANGED <<script, outbound, out, pipe, buf, frames, inbound, ticks, sent, got>>

(* One frame of the batch: a message for the program, or a violation that   *)
(* is reported to both sides before the task closes.                        *)
Handle(e) ==
    /\ task[e] = "run" /\ frames[e] # <<>> /\ HasRoom(e)
    /\ LET m == Decode(Head(frames[e]).t, Head(frames[e]).payload)
           report == IF m = NoMessage THEN Violation ELSE m
       IN /\ inbound' = [inbound EXCEPT ![e] = Append(@, report)]
          /\ got' = [got EXCEPT ![e] = Append(@, report)]
          /\ IF m = NoMessage
             THEN /\ frames' = [frames EXCEPT ![e] = <<>>]
                  /\ task' = [task EXCEPT ![e] = "violated"]
                  /\ out' = [out EXCEPT ![e] = ViolationThing.cells]
                  /\ sent' = [sent EXCEPT ![e] = Append(@, ViolationThing)]
             ELSE /\ frames' = [frames EXCEPT ![e] = Tail(@)]
                  /\ UNCHANGED <<task, out, sent>>
    /\ UNCHANGED <<script, outbound, pipe, buf, ticks>>

\* The task tells the program that the connection is over, and ends.
Close(e) ==
    /\ task[e] = "closing" /\ HasRoom(e)
    /\ inbound' = [inbound EXCEPT ![e] = Append(@, NoMessage)]
    /\ task' = [task EXCEPT ![e] = "ended"]
    /\ outbound' = [outbound EXCEPT ![e] = <<>>]
    /\ UNCHANGED <<script, out, pipe, buf, frames, ticks, sent, got>>

\* The program takes the next message.
Take(e) ==
    /\ inbound[e] # <<>>
    /\ inbound' = [inbound EXCEPT ![e] = Tail(@)]
    /\ UNCHANGED <<script, outbound, out, pipe, buf, frames, task, ticks, sent, got>>

TaskStep(e) ==
    \/ Dequeue(e) \/ Write(e) \/ Handle(e) \/ Close(e) \/ ReadEnds(e)
    \/ \E size \in ReadSizes : Read(e, size)

Next == \E e \in End :
    TaskStep(e) \/ Submit(e) \/ Tick(e) \/ WriteFails(e) \/ StreamBreaks(e) \/ Take(e) \/ Drop(e)

(* The runtime polls every task, the timer of a write fires, and the        *)
(* program empties its queue.                                               *)
Fairness == \A e \in End : WF_vars(TaskStep(e)) /\ WF_vars(WriteFails(e)) /\ WF_vars(Take(e))
Spec == Init /\ [][Next]_vars /\ Fairness

-----------------------------------------------------------------------------
(* Types, and the bound the decoder keeps (frame.rs): between two reads it  *)
(* holds no complete frame, and never more than one frame can be long.      *)
WireTypeOK ==
    /\ task \in [End -> {"run", "violated", "closing", "ended", "dropped"}]
    /\ \A e \in End :
          /\ Len(pipe[e]) <= PipeCapacity
          /\ Len(inbound[e]) <= InboundCapacity
          /\ Len(outbound[e]) <= OutboundCapacity
          /\ Len(buf[e]) < LengthField + MaxFrame
          /\ Incomplete(buf[e])

\* The thing that end e received as its i-th message.
Source(e, i) == sent[Other(e)][i]
Rejected(e, i) == got[e][i] = Violation /\ Source(e, i).means # Violation

(* The strict decoder (strict.rs, read entry by entry) accepts exactly the   *)
(* payloads that are a well-formed map of their schema, in any order of the  *)
(* fields, except for byte strings over the limit of the decoder itself.     *)
StrictDecoding ==
    \A e \in End : \A i \in DOMAIN got[e] :
        LET cells == Source(e, i).cells
            payload == SubSeq(cells, HeaderLen + 1, Len(cells))
        IN Rejected(e, i) <=> ~(WellFormed(cells[3].k, payload) /\ ~Overlong(payload))

Link == INSTANCE FifoLink WITH
    refused <- [e \in End |-> \E i \in DOMAIN got[e] : Rejected(e, i)],
    up <- [e \in End |-> ~Gone(e)],
    Meaning <- LAMBDA thing : thing.means,
    Nothing <- NoMessage

(* The two tasks with the codec between them (conn.rs, frame.rs,            *)
(* messages.rs) are a FIFO link: however the stream cuts the frames and the *)
(* tasks take turns, each program receives what the other sent, in order    *)
(* and unchanged, until its side ends.                                      *)
ImplementsFifoLink == Link!LinkSpec

(* encode_write is never awaited forever: two tasks that both write to a     *)
(* full stream, and therefore both do not read, are freed by its timeout.    *)
(* And whole frames that were written are received, unless the connection    *)
(* is over at one of its ends: nothing stays behind in the decoder (feed).   *)
TrafficMoves ==
    \A e \in End :
        /\ (out[e] # <<>>) ~> (out[e] = <<>>)
        /\ (Len(got[Other(e)]) < Len(sent[e])) ~>
            \/ Len(got[Other(e)]) = Len(sent[e])
            \/ \E o \in End : task[o] # "run"
            \/ \E i \in DOMAIN sent[e] : Incomplete(sent[e][i].cells)

(* A chat the program accepts from its user (validate_chat_text: up to 4096  *)
(* bytes, sealed into 16 more) is received by the other side, or the         *)
(* connection ends for another reason: it is never refused as a violation.   *)
ChatIsNeverRefused ==
    \A e \in End : \A i \in DOMAIN got[e] :
        LET cells == Source(e, i).cells
        IN cells[3].k = "ChatMessage" /\ WellFormed("ChatMessage", SubSeq(cells, 5, Len(cells)))
             => ~Rejected(e, i)
=============================================================================
