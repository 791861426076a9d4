# Veilroom in TLA+

Veilroom is a terminal chat room: one person hosts a room behind an onion
service, others join by invitation link and password, the host accepts or
rejects them, and everybody shares an epoch key that is replaced whenever
somebody joins or leaves. This directory holds a TLA+ model of the room, of the
programs at both ends of a connection and of the Tor process and the terminal
around them, the TLC runs that check it on small instances, and TLAPS proofs of
the central properties of the room, the gate and the application for instances
of any size. Paths below are relative to the repository (`src/...` in the Rust
crate).

## The system

| Part | State | Operations | Modelled |
| --- | --- | --- | --- |
| Room actor (`room/actor.rs`, `connections.rs`, `member.rs`, `admission/queue.rs`) | room state, join policy, member table, connection registry, two request queues, epoch and pending epoch, replay and rate-limit tables, held-back events | `handle_event_at` on each `RoomEvent` | `RoomActor` |
| Room task (`room/task.rs`) | two bounded channels | `run()`: feeds events to the actor, turns errors into replies and closes | `RoomActor` (the loop body), `HostSupervisor` (the channels, without blocking) |
| Chat session (`chat/session.rs`, `chat/replay.rs`, `crypto/chat.rs`) | installed key, member table, last room sequence, replay state | install a wrap, seal, open, apply a signed event | `RoomSession` |
| Rate limiter (`chat/ratelimit.rs`) | tokens and violations per member | `allow`, refill | `RoomActor` |
| Host supervisor (`app.rs`, host half) | flows, invitation and policy copies, password guard, the host's own session | every branch of the select loop: connect, frame, actions, command, tick and sweep, exit | `HostSupervisor`; the host as a participant in `RoomSession` |
| Join client (`app.rs`, `admission/client.rs`) | admission state, form kept aside, session | handshake, form, `handle_join_message`, stage timers | `HostSupervisor`, `AppShell`, from the form on `RoomSession` |
| Admission gate (`admission/host.rs`, `guard.rs`) | per-connection stage, room-wide lockout | hello, token, password proof, join form | `HostSupervisor` |
| Peer connections (`net/`) | bounded queues, peer map, keepalive timers | accept, read, write, slow-client cut-off | `Wire`, `HostSupervisor` |
| Wire protocol (`protocol/`) | partial frame | incremental frame decoder, encoder and strict decoder of every message | `Schema`, `Wire` |
| Tor lifecycle (`tor/`) | child process, control connection, reply accumulator | start, bootstrap, add and remove the service, stop | `TorManager` |
| Application (`app.rs`, `ui/app.rs`, `ui/screen.rs`) | screen, forms, key channel | menu loop, forms, session runners | `AppShell` |
| Room pane (`ui/room_view.rs`, `ui/buffer.rs`, `ui/input.rs`, `command.rs`) | input line, expiring lines, lifetime | edit, submit, parse, push, expire | `RoomView`, `TextField` |
| Rendering (`ui/render.rs`, `ui/sanitize.rs`, `ui/notice.rs`, `ui/terminal.rs`) | none of the room's | draw | left out |
| Cryptography (`crypto/`) | none | sign, verify, wrap, seal, password proof | assumed sound |
| Links, limits, platform | none | parsers, OS calls | limits where they are applied; links and OS calls left out |

How they interact. Each peer has a connection task; the supervisor is one task
that selects over the accept loop, the peers' frames, the terminal, a
one-second tick and the actions of the room task. It turns frames into
`RoomEvent`s for the room task over a channel, and delivers the `RoomAction`s
that come back over another. The actor is sequential: one event, one batch of
actions. Everything that is hard lives between the tasks: events that were sent
before a transition and arrive inside it, acknowledgements that cross a second
transition, connections that disappear with messages still queued, signed
events held back until activation while later ones leave at once, and a
participant's own view that changes before the room has agreed.

What makes each part correct (where the code falls short of it, the properties
name the exception and "What the runs found" shows it):

- *Actor:* tables, registry and queues agree; keys go to exactly the members;
  transitions end; nobody waits for somebody who left; a locked room has no
  applicants; nothing is relayed twice, or to somebody who cannot read it.
- *Session and links:* wraps and events arrive in an order the receiver
  accepts; what is relayed can be read; honest members are never cut off;
  everybody's member table and message lifetime become the room's.
- *Gate:* nobody enters without the password and an invitation; the lockout
  bounds guesses; the room, the supervisor and the network agree about who is
  connected; a client that runs the program is refused only for cause.
- *Wire:* two tasks and a stream that cuts frames anywhere are a FIFO link; the
  decoder accepts what the format allows and nothing else; no write is awaited
  for ever.
- *Application:* every session starts or ends; Tor and its directory are gone
  afterwards; answers are not mixed up; screens stay usable; what the user
  entered is what is used.
- *Room pane:* fields edit whole characters; lines live as long as the room
  says; only what was meant as chat is sent.

## The modules

| Module | Content |
| --- | --- |
| `RoomActor` | the actor and its task: one action per event and outcome |
| `GroupKey` | the abstract promise: what a room owes its members about keys |
| `RoomRefinement` | the mappings under which `RoomActor` implements `GroupKey` and `RoomGate` |
| `RoomSession` | `RoomActor` composed with a `ChatSession` per participant over FIFO links |
| `RoomGate` | what the actor shows the supervisor: roles, policy, invitation, one batch per event |
| `HostSupervisor` | supervisor, admission gate, accept loop and joining client, over `RoomGate` |
| `TorManager` | one Tor session: child, control connection, replies, directory |
| `AppShell` | menu loop, screens, session runners and joining form, over `TorManager` |
| `LineEditor` | the abstract promise of an input field, in characters |
| `TextField` | the byte-level text and password fields |
| `RoomView` | the room's pane: input line, commands, expiring lines; fields shown to implement `LineEditor` |
| `Schema` | message field tables, encoder, strict decoder and its reference definition |
| `FifoLink` | the abstract promise of a connection |
| `Wire` | frame codec and the two connection tasks; shown to implement `FifoLink` |
| `MCRoomActor`, `MCRoomSession`, `MCHostSupervisor`, `MCAppShell`, `MCRoomView`, `MCWire` | the constants of the TLC instances |
| `RoomTypeProofs` | lemmas about maps, id order and messages; type correctness |
| `RoomKeyProofs` | tables, registry and queues agree; transitions, key distribution, nobody returns; envelopes are relayed once and to holders of their key |
| `RoomRefinementProofs` | `RoomActor` implements `GroupKey` and `RoomGate` |
| `RoomSessionProofs` | the room with its participants: everything arrives in order, honest members are not cut off |
| `SessionTableProofs` | what participants make of it: until transitions nest, events are accepted, member tables become the room's, relays can be read |
| `HostSupervisorProofs` | types, earned entry, agreement of the records, the lockout |
| `HostClientProofs` | a client that runs the program is refused only for cause, or because its frame overtook its connect |
| `AppShellProofs` | clean-up, replies, screens, password and form |

### RoomActor

The variables are the fields of `RoomActor` with the Rust names in camel case.
Three are not fields: `nextConn` is the accept loop's counter, `holders` and
`relayed` are history (who was given which key, which envelopes were relayed).
`outgoing` is the action batch of the last event; notices are kept only where a
participant reacts to them or they carry state (invitation, policy).

An action handles one event to the end. The guard is the state check of
`handle_event_at` (`AtRest`, `InTransition`, `Running`), then the handler's
early returns, then its effects. When a handler fails, `run()` drops transient
errors without a word (`DroppedInTransition`; a chat gets `RateLimited`), and
answers any other error of a peer with an `Error` frame, a close, and
`on_connection_lost` (`Punish`); failing handlers and their clean-up are
therefore one action. Some correspondences:

| Code | Model |
| --- | --- |
| `begin_epoch_transition`, `remove_member` | `BeginEpochTransition`, `RemoveMembers` |
| `on_accept` | `AcceptJoin`, `AcceptRefused`, `DecideTimeoutRequest` |
| `on_epoch_ack`, `on_epoch_timeout` | `EpochAck`, `EpochAckIgnored`, `EpochTimeout` |
| `on_chat_received` | `ChatDuringTransition`, `ChatUnauthorised`, `ChatRateLimited`, `ChatAbusive`, `ChatRefused`, `ChatRelayed`, `TimeoutRequested` |
| `on_connection_lost` | `LoseConnection`, `ConnectionLost` |
| `on_new_id`, `set_policy` | `NewId`, `SetPolicy` |

The environment is open: any connection that was handed out may send any event
at any time, so stale, duplicated, reordered and hostile input is all there.
The one restriction is cryptographic (`Envelopes`): an envelope that verifies
and opens comes from the owner of the identity, who was given that epoch's key.
A key is the number of its epoch; a person's two public keys are one identity;
nicknames, identities and colours are members of small sets. Time is a tick of
one second, the refill interval of the limiter.

### RoomSession

`session[c]` is the participant's `ChatSession` with the admission status
around it, `up[c]` and `down[c]` the two directions of a connection. Each link
is FIFO, because every hop is (socket, channel, outbound queue); different
links advance in any order. A close cuts `down[c]` at once; what is already in
`up[c]` still arrives, and `Lost` comes last, as the connection task reports
it. Host commands and the maintenance tick queue behind what the host
participant already sent, because the supervisor is one task that awaits the
send of each event (`HostCaughtUp`). Participants run this program: hostile
ones are `RoomActor`'s business.

### GroupKey

The promise in six variables: the group changes only together with a new key
generation, which is given to exactly the new group; nobody who left comes
back; a generation becomes active when, and only when, everybody in the group
confirmed it; after closing nothing changes. The mapping: members are the
group, epochs the generations, and whoever is not awaited has confirmed.

### RoomGate and HostSupervisor

`RoomGate` is the actor as the supervisor sees it: each connection's role
(none, guest, verified, pending, member), policy, invitation generation, whether
a transition makes it drop events, and a batch per event. `RoomActor` implements
it (`ImplementsRoomGate`), so `HostSupervisor` is checked with the small
specification and its results hold with the real one: the actor never does to a
connection anything `RoomGate` does not allow.

`HostSupervisor` puts two FIFO channels around it. `flows` is the supervisor's
map of `HostConnection`s with the admission stage and the invitation copy taken
when the connection was seen; `peers` is the network's map; `connects` and
`inbound` are the two channels from the connection tasks, which `select!` may
serve in any order. Correspondences:

| Code | Model |
| --- | --- |
| the accept loop, the `connects` branch of the loop | `AcceptConnection`, `OpenFlow`, `RefuseFlow` |
| `handle_host_message`, `HostAdmission` | `HandleMessage`, `RefuseMessage` (`Refusal`, `NextStage`) |
| end of a connection | `HandleEof` |
| `handle_host_actions` | `HandleActions` |
| host commands | `HostCommand`, `Exit`, `Abandon` |
| maintenance tick and stale sweep | `Tick`, `Sweep` |
| graceful exit | `Exit`, `FinishExit`, `DropSession` |
| `PasswordGuard` | `RecordFailure`, `NextWindow`, `Locked` |
| `ClientAdmission` | `ClientReceive`, `ClientSubmit`, `ClientTalk`, `ClientEnds` |

Connections in `Honest` run the program; the others send any message at any
time. A password proof, a hello and a signature are right or wrong, an
invitation token is its generation. A connection's outbound queue and the socket
behind it are one queue. Five variables are history: what a connection has shown,
failed proofs in the current window, clients refused by the supervisor before it
read of their connection (`overtaken`), clients the room dropped an event of or
refused for a reason of its own (`mishap`), and the members at the time of
`/exit`.

### TorManager and AppShell

The program is at one place, `pc`, from `prepare` through `session` to `wipe`
and back to the menu. An await with a timeout is a state with two ways out: what
it waits for, or its timer. Tor is free: it answers commands with any reply the
parser distinguishes (several lines, data blocks, malformed, of another code,
late), hangs, or dies at any moment. A control line is its code, its separator
and the one field the manager looks for; percentages are `0..Done`. `Feed` is
`ReplyAccumulator`, `Issue`, `ReadsMore`, `ReadsReply` and `CommandTimeout` are
`ControlClient::command`, the other actions are named for the method or the
command they issue. `misread` is history: a reply decided something although it
was the answer to another command.

`AppShell` adds the screens (`OnMenuKey`, `OnHostSetupKey`, `OnJoinSetupKey`,
`OnJoinFormKey`, `OnRoomKey` are the handlers of `ui/app.rs`), the key reader
thread and its channel, the menu loop, the two session runners, and a joining
participant's stages with their timers and the form that is kept aside. A field
holds one token or nothing, and is full when it holds one. Keys are read only by
the menu loop and by a running session: what is typed while Tor starts or stops
is handled by whatever screen comes next.

### TextField, LineEditor and RoomView

A field holds UTF-8 bytes, a character is the sequence of its bytes, and the
cursor is a byte offset. `LineEditor` is the same field in characters, and the
mapping decodes the bytes on either side of the cursor. `RoomView` is the pane of
a host or a participant, with the password field of the setup form in front of
it: keys and pastes, `parse_line`, roles of commands, the message buffer with its
capacity and deadlines, the lifetime and the wake-up of
`wait_for_message_expiry`, which the supervisor arms for `NextExpiry`. What names
and arguments spell is the constant `Grammar`.

### Schema, Wire and FifoLink

A payload is a sequence of CBOR items with kind and size; a frame is a header of
four cells (length, version, type, flags) and its payload. `Schemas` has the
fields of every message with their bounds. The decoder (`Decode`) reads front to
back as `StrictDecoder` does; the reference (`WellFormed`) says what a payload
must look like without reading it in order. `Wire` has both connection tasks:
each writes a keepalive or a queued message, or reads what is there, and does
nothing else meanwhile. The stream holds `PipeCapacity` cells and may break; a
read returns as much as it likes; a write takes what fits and has ten seconds.
`FifoLink` is what `RoomSession` and `HostSupervisor` take for granted of a
connection.

## The runs

Runs on the room use two peers besides the host unless noted.

| Run | Instance | Question |
| --- | --- | --- |
| `room` | clashing join forms, no chat, up to two invitations, policy changes | Do the tables agree, do keys reach exactly the members, do transitions end, whatever two hostile peers and the host do? Does the actor implement `GroupKey` and `RoomGate`? |
| `relay` | chat and timeout requests, burst 1, two violations to removal, queue limit 1 | Are envelopes relayed once, only to holders of their key? Do the two queues keep their ids apart? |
| `session` | chat, acknowledgement deadline one tick | Does everything arrive in the order its receiver's checks expect? Is every event accepted, and do member tables converge, while no transition begins inside another? Is an honest member ever cut off? |
| `settings` | one peer, colours, timeout requests and changes, policy changes | Does everybody end up with the room's message lifetime? Do events sent at once stay behind those held back? |
| `gate` | an honest client and a stranger, one slot before authentication, lockout after one failure, queues of one | Is entry earned, are guesses bounded, do the three records of a connection agree, who is refused? |
| `app` | host and join sessions one after another, a free Tor | Does everything end, is everything a manager owned cleaned up, do screens and forms stay right? |
| `view` | six characters, three pastes, four bytes per field, two lines | Do fields edit characters, do lines live as long as they should, what leaves the terminal? |
| `wire` | every message type at the edges of its fields, optional texts absent, empty and full, five types with one thing wrong, two-way traffic | Are two tasks a FIFO link? Is decoding strict? Does traffic move? |
| `tables`, `applicant`, `exit`, `chat_limit` | | counterexamples, see below |

What the properties say is stated above each definition. In short:

- Room: `RegistryMatchesMembers`, `QueueMatchesRegistry`, `RequestIdsDisjoint`
  and `MembersDistinct` keep the four tables consistent; `TransitionShape`,
  `KeyGoesToMembers`, `GoneForGood` and `ImplementsGroupKey` are the key promise,
  `TransitionEnds` its liveness; `RelayReachesKeyHolders` and `RelayedOnce` are
  about chat reaching people who can read it, once.
- Sessions: `ArrivesAsExpected` is what the receivers' checks of wraps, signed
  events and relays rely on: no wrap is stale, a relay meets its own key, event
  sequences rise, and every event is accepted in all respects, its epoch
  included, as long as no transition has begun inside another. (Gaps in the
  sequences are possible; no receiver checks them.) `UnreadableOnlyUntilAnnounced`
  says why a message may be unreadable, under the same condition;
  `HonestMemberNotPunished` that `run()`'s error path never
  hits an honest member; `TablesAgreeUnlessNested` and
  `TimeoutsAgreeUnlessNested` that what participants see converges. What a
  transition inside another does to events and tables is the finding `tables`.
- Gate: `EarnedEntry`, `LockoutBoundsGuesses`, `RecordsAgree`, in `GateTypeOK`
  the bound of the lockout window, and `RefusedOnlyForCause`. The last one names
  two exceptions: the room lost an event of the client or had a reason of its own
  (`mishap`), and the supervisor served the client's first frame before the
  connect of its connection (`overtaken`), which is a defect (below).
- Application: `NothingLeftRunning` (no Tor process, and no directory that a
  manager owned), `RepliesMatchCommands`, `ScreenFits`,
  `PasswordConfirmed`, `FormNotLost`, and the liveness of every wait
  (`NothingHangs`) and of the terminal's loss (`TerminalLossQuits`).
- Pane: `FieldsEditCharacters` (a refinement), `NoLineLostEarly`,
  `OverdueLinesGo`, `OnlyMeantTextLeaves`, and in `ViewTypeOK` that fields hold
  whole characters.
- Wire: `ImplementsFifoLink` (a refinement), `StrictDecoding`, `TrafficMoves`,
  and in `WireTypeOK` that no complete frame stays in the decoder.

### Bounds

| Constant | Value | Why it is enough |
| --- | --- | --- |
| `MaxConn` | 2 (1 in `settings`) | with the host, two peers give every pairwise race: both joining, one leaving while the other is awaited, one evicted in the other's transition |
| `MaxActiveMembers` | 3 | everyone fits; the refusal is reached through clashing forms |
| `MaxPendingRequests` | 2, or 1 | 1 makes both queues full |
| `EpochAckTimeout` | 1 tick | expiry can happen before or after any acknowledgement, which is all the age decides |
| `Burst`, `RateLimitTermination` | 1; 1 or 2 | empty bucket, violation below and at the threshold |
| `MaxSenderSequence` | 1 | one message per sender; replay needs one |
| `MaxRoomSequence` | 0, 4, 6 | bounds policy changes only; 6 lets them precede, cross and follow a join |
| `MaxToken` | 1, 2 | one rotation |
| `Peer`, `Honest` | two, one of them honest (one in `exit`) | the honest client meets everything a stranger does to the gate |
| `MaxPreAuth`, `FailureThreshold`, `QueueCapacity` | 1 | each limit is met, and exceeded, by one more |
| `LockoutBase`, `LockoutMax` | 1 | the second window would already pass the maximum |
| `MaxAdminPeers` | 1 | the host rotates and locks while one of the two connections is there |
| `MaxInbound`, `MaxEvents`, `MaxBatches` | 1 | a handler starts, and a peer sends, only below these: one frame, one event and one batch may be on their way at each moment, and a handler may add several |
| `Done`, `MaxReplyLines` | 1; 3 | unfinished and finished; a data block and a reply over the limit |
| `MaxKeys` | 1 | one input waits for a screen that was not there when it was typed |
| `MaxBytes`, `Capacity` | 4; 2 | two accented letters or a command with an argument; a line pushed out by a newer one |
| `Interval`, `MaxNow` | 1 and 2; 2 | a lifetime shortened and lengthened while a line ages |
| `MaxFrame`, `PipeCapacity`, `ReadSizes` | 40, 10 cells; 6 and 20 | frames longer than the stream holds, reads that end inside a header, inside a payload and after several frames |
| `InboundCapacity`, `OutboundCapacity` | 1 | a full queue on either side |

Connections and epochs of the room need no further bound: each connection joins
at most once, so the number of transitions is bounded by the connections.

The participant runs, `gate`, `view` and `wire` disable deadlock checking: once
all connections are used up, the session is over or both ends are gone, nothing
is left to do. The actor's own runs and `app` check it.

### Fairness

- `RoomActor`: weak fairness of `Tick` and of `EpochTimeout`. The clock is the
  monotonic clock, and the supervisor's select loop contains an unconditional
  one-second interval that posts `EpochMaintenance`. Nobody else owes the room
  anything: members may never acknowledge, and `TransitionEnds` holds all the
  same. `RoomSession` adds weak fairness of each link: sockets deliver or fail,
  and both loops keep reading.
- `AppShell`: weak fairness of the program's own steps. Every await of the
  start, the shutdown and the handshake has a timer, so each of these states has
  a way out that needs nobody else; the maintenance tick comes every second; a
  closed key channel is always ready. The user, Tor and the host owe nothing.
- `RoomView`: weak fairness of `ExpireDue`, a branch of the select loop whose
  timer has run out. Time itself may stop.
- `Wire`: the runtime polls both tasks, the write timer fires, and the program
  takes what is in its queue. The stream owes nothing.
- `HostSupervisor` states safety only.

### What the runs found

- `tables`: **a loss inside a transition makes member tables diverge for
  good.** Events queued for the first transition are signed for its epoch but
  delivered after the second transition's key is installed, so
  `verify_room_event` refuses them as `OldEpoch`. A departed member stays in
  `/list`, or a newcomer never appears, and every message of such a newcomer is
  unreadable. Without nesting, tables converge (`TablesAgreeUnlessNested`).
- `applicant`: **an applicant that connects during a transition is cut off.**
  Its connection event is dropped as transient, so the registry never learns of
  it and its join form is answered with `ProtocolViolation`.
- `gate`: **a participant may be refused because its hello came too early.**
  Connects and frames reach the supervisor over two channels, and `select!` serves
  either first when both are ready. A `CLIENT_HELLO` served before the
  connect of its connection is one of an unknown connection: the participant is
  refused with `ProtocolViolation`, which `docs/protocol-v1.md:817` reserves for
  messages it did not send. The room is told that a connection was lost it had
  never heard of, and the connect, read later, opens a flow that nobody uses until
  the sweep removes it. In the model it takes three steps: `AcceptConnection`,
  `RefuseMessage`, `ClientReceive`. `RefusedOnlyForCause` holds because it makes
  that exception, and shows that there is no other way for the gate to refuse such
  a participant as a violator.
- `exit`: **members may not hear that the room was closed.** The exit takes one
  batch from the action channel, which may be older than the close; and
  `send_to` only queues the `Shutdown` frame, while closing the connection aborts
  the task that would write it.
- `chat_limit`: **a chat line of 4081 to 4096 bytes costs its sender the
  connection.** The documented limit is 4096 bytes; sealing adds a 16-byte tag,
  and the strict decoder refuses byte strings above 4096.
- `app`: **a session directory may be left behind.** `create_session_dir` makes
  the directory, then sets its mode and creates the lock file
  (`platform.rs:159-183`); when one of these fails it returns without removing
  the directory, and there is no manager yet to do so. `README.md:112` promises
  that the directory is gone when the room is. In the model `dir` is "Half" then,
  and the program returns to the menu with it; `NothingLeftRunning` makes that
  exception, and shows that no later step leaves anything.

Met while modelling, without a run of their own:

- Sender numbering continues across epochs (`chat/session.rs`) where
  `docs/protocol-v1.md` restarts it with each epoch.
- `/color` and the host's `/timeout` change the sender's own view before the room
  accepts them (`app.rs:1343`, `app.rs:962`), and the view stays when the room
  refuses; `admission/client.rs:276` speaks of "a successful `/color`".
- The combined limit of join and timeout requests (`README.md:187`) is applied
  to timeout requests only: the join queue counts its own entries
  (`admission/queue.rs:101`).
- A timeout request that meets a full queue ends its honest sender's connection,
  which is why `HonestMemberNotPunished` is stated for chat lines; and the pending
  timeout request of a member that leaves, is kicked or evicted stays in the
  queue.
- A form whose nickname `join_request` refuses is taken out of `pending_form` and
  dropped (`app.rs:1611`): the participant waits at `JoinPending` until the timer
  ends the session. `FormNotLost` makes that exception.
- Frames with a bad header or non-zero flags close a connection without the
  `ERROR` frame that `docs/protocol-v1.md` (lines 91 and 817) promises; the
  decoder accepts integers that are not in their shortest form, which lines
  155-156 forbid; frames that were complete before a bad one in the same read are
  dropped with it; an admitted peer may leave a frame unfinished for ever.
- After `/exit` the host returns to the menu, where `README.md:327` has the
  application leave.
- `docs/protocol-v1.md:253` has an introduction of 1 to 160 characters, where
  `validate_intro` (`validation.rs:110`) and the decoder accept an empty one. The
  schema follows the code, and `wire` sends one.

## What is proved

TLAPS checks the following for every value of the constants that satisfies the
named assumptions. For the room (`BoundsAssumption`, `DataAssumption`): any
number of connections, members, requests, colours, nicknames and message kinds.
For the gate (`SupervisorAssumption`): any finite number of connections, any
limits, thresholds and lockout times. For the application (`TorAssumption`,
`ShellAssumption`): any reply length, bootstrap range, set of texts and number
of waiting keys. No assumption is stronger than "this limit is positive" (the
limit of pending requests of the gate may be zero), "these constants have the
shape the code gives them" and, for the gate, "the connections are numbered from
one, and there are finitely many". Two theorems have a hypothesis on the kinds of
messages sent, because without it they are false. `HonestTheorem` excludes timeout
requests: one that meets a full queue does end its honest sender's connection.
`TablesTheorem` excludes colour changes: a sender shows its own new colour before
the room has accepted it, and keeps it when the room refuses. `PersonsTheorem`
says what remains true with them: everybody's table names the right people. The
theorems about tables, accepted events and unreadable relays hold until a
transition begins inside another; the run `tables` shows that they are false
after that, and the statements say so (`~ nested`).

| Theorem | Statement |
| --- | --- |
| `TypeCorrect` | `Spec => []TypeOK` |
| `RegistryTheorem` | `Spec => []RegistryMatchesMembers` |
| `QueueTheorem` | `Spec => []QueueMatchesRegistry` |
| `RequestIdsTheorem` | `Spec => []RequestIdsDisjoint` |
| `TransitionTheorem` | `Spec => []TransitionShape` |
| `KeyTheorem` | `Spec => []KeyGoesToMembers` |
| `GoneTheorem` | `Spec => GoneForGood` |
| `DistinctTheorem` | `Spec => []MembersDistinct` |
| `ReachTheorem` | `Spec => []RelayReachesKeyHolders` |
| `OnceTheorem` | `Spec => RelayedOnce` |
| `RefinementTheorem` | `Spec => ImplementsGroupKey` |
| `GateTheorem` | `Spec => ImplementsRoomGate` |
| `RoomKeysWithParticipants` | `SessionSpec => [](TransitionShape /\ KeyGoesToMembers)` |
| `ArrivalTheorem` | `SessionSpec => []ArrivesAsExpected`: events are accepted unless a transition began inside another |
| `HonestTheorem` | `SessionSpec => []HonestMemberNotPunished`, without timeout requests |
| `TableInvariant` | `SessionSpec => []TableInv`: until transitions nest, the news on its way lead from each table to the room's |
| `UnreadableTheorem` | `SessionSpec => []UnreadableOnlyUntilAnnounced`, which speaks of the time before a transition begins inside another |
| `PersonsTheorem` | `SessionSpec => []PersonsAgree`: unless transitions nest, tables name who is in the room |
| `TablesTheorem` | `SessionSpec => []TablesAgreeUnlessNested`, without colour changes |
| `GateTypeTheorem` | `SupSpec => []GateTypeOK` |
| `EntryTheorem` | `SupSpec => []EarnedEntry` |
| `RecordsTheorem` | `SupSpec => []RecordsAgree` |
| `LockoutTheorem` | `SupSpec => []LockoutBoundsGuesses` |
| `CauseTheorem` | `SupSpec => []RefusedOnlyForCause`, with the two exceptions it names |
| `RestTheorem` | `ShellSpec => []NothingLeftRunning`: of what a manager owned |
| `RepliesTheorem` | `ShellSpec => []RepliesMatchCommands` |
| `ScreenTheorem` | `ShellSpec => []ScreenFits` |
| `PasswordTheorem` | `ShellSpec => []PasswordConfirmed` |
| `FormTheorem` | `ShellSpec => []FormNotLost` |

### The room

The argument is a chain of inductive invariants, each resting on the one
before, with one lemma per group of events and one step per action:

1. `TypeOK /\ IdsIssued`. Types alone are not inductive: the departure events
   of an eviction are listed in id order, and that the list is well defined
   needs the member ids to be bounded by `nextMemberId`.
2. `TablesInv` adds `Agree` (the four directions of table agreement as one
   predicate of three tables), `HostPresent`, `ConnectionsIssued` (a fresh
   connection id is not in the registry) and `RequestIdsDisjoint`. The lemmas
   `AgreeRemove`, `AgreeDrop`, `AgreeRegister`, `AgreeAttach`, `AgreeAdmit` and
   `AgreeTouch` say once what each kind of table update preserves. The two
   directions need each other: that a lost connection's entry is the one of the
   removed member is only known because they agreed before.
3. `KeyInv` adds `TransitionShape`, `KeyGoesToMembers` and `HoldersIssued`: an
   id not yet issued was never given a key, without which a newcomer could be
   given back an old member's keys. Every step that changes the group goes
   through `BeginEpochTransition`; `BeginKeys` handles it once.
4. `StepKinds`: every step is a rekeying, an acknowledgement that counts, a
   close, or touches neither group nor keys. `GoneTheorem` and the refinement of
   `GroupKey` follow by cases.
5. The relay. `NamesDistinct` is kept because a join is checked against the
   members again when it is accepted. `RelayedOnce` is an action property; it
   needs `ReplayRecorded`: whatever was relayed in the current epoch is at or
   below the sequence the replay table holds for its sender, so an envelope that
   passes the replay check was never relayed, and one of an earlier epoch fails
   the epoch check.
6. `ImplementsRoomGate`: every event maps to one batch step of `RoomGate` or to a
   stutter. TLC checks this refinement without chat; the proof covers chat steps
   as well.

### The participants

`SessionSpec` composes the actor with a session per participant, and
`KeyInv` is inductive there as well, because every composed step is a step of
the actor or leaves it alone. On top of it:

- `PathInv`. What is on its way to a participant is a *path*: its down link, and
  behind it the events the actor holds back. On a path wraps are newer than the
  key installed and ordered, events follow the last one seen and are ordered,
  held-back ones last, and each relay is met under the key of its own epoch
  (`OnCourse`). That nothing is readable too early needs `HeldBack` (at rest
  nothing is held back), that nothing is too late needs `Served` (a member that
  is there has the newest key, or the key is in its link). Every step of the actor
  hands down a `Batch` to each connection; one lemma per part of `OnCourse` says
  what appending a batch and taking the head preserve. The three
  statements about order in `ArrivesAsExpected` are what `PathInv` says of the
  head of each link; that an event is accepted, its epoch included, needs
  `TableInv` as well.
- `HonestInv`. A member is cut off for a message out of place, so the invariant
  is about what a connection has sent and the actor has not handled.
  `Outside`: who waits to be admitted has sent no chat and at most one form, and
  none once it is pending. `Words`: a member's chats are its own, their sequences
  rise and lie above what the replay table holds, and behind the acknowledgement
  of the current epoch all are sealed under its key. `KeepsCount`: the session
  numbers on from what it sent, and has the key it acknowledged. `Under`: once
  the member is no longer awaited, everything it still has on the way is sealed
  under the current key; until then the actor drops chats without a word. The
  proof is stated of the last batch (`Unreproached`), from which the action
  property follows.
- `TableInv`. Events carry increasing sequences, so the news on a path (who
  joined, who went, who was there) are a set, and what a session will make of
  them can be said without applying them one by one: `LeadsTo` says that table
  and news together give the persons of the room, `Acceptable` that each event
  meets a table it fits, which `apply_room_event` checks. `Acceptable` needs
  that ids are never issued twice and that nobody in the room shares a name or a
  key with somebody else (`Distinct`). A member knows its own id before it is
  told who is there (`KnowsItself`), every event is met under the key it was signed for
  (`Timed`), and the sender of every relay on the path is in the table or
  introduced on it (`SenderKnown`). All this holds only until a transition
  begins inside another, because then events meet a newer key; what `Settled`
  and `Reported` say of acknowledged keys and lost connections holds always.
- `ReplayInv`. The relays on a link are newer than what the session has recorded
  of their senders, each sender's in order, and none is newer than what the room
  has recorded. With `TableInv` and `PathInv` this excludes, until
  transitions nest, every reason not to read a relay but a sender that is still
  to be announced.
- `ColourInv`. While nobody sends a colour change everybody has the first colour,
  in the room, in every table and in all that is told of anybody, so tables that
  name the same people are equal.

### The gate

`SupInv` has seven layers. The queues between the tasks are what makes the
properties hard, and each layer says what the queues may hold:

- `SupTypes`, and `Heard`: nothing has come from a connection that does not
  exist yet;
- `IdFacts`: connection ids are handed out and seen once. Of a connection the
  supervisor has not seen, nothing is known but its loss; one inside the gate is
  at most a guest; a connection is announced once, before anything else is said
  of it;
- `EntryFacts`: what a flow has shown at each stage (`Shown`), which the role in
  the room and the events on their way rest on, and that an applicant whose flow
  did not begin behind a rotation holds the current invitation (`Timely`);
- `RunFacts`: while the supervisor runs the room is open, nothing undelivered is
  meant for a guest, and whoever is to be closed is already forgotten;
- `RecordFacts`: where the three records differ, the event or batch that will
  bring them together is in a queue (`Watched`, `Recorded`, `Flagged`);
- `LockFacts`: during a lockout the guesses made and the connections that can
  still guess, which all hold a slot before authentication, stay below the cap.

`EarnedEntry` alone is not inductive because of the queues: a `Verified` event
says something about the past of a flow that may have ended since. The steps are
not taken one by one for each layer. Every room step is a `GateStep`, and every
other step is one of seven kinds (`Calm`, `Opens`, `Moves`, `Delivers`, `Ends`,
`Arrives`, `Answers`), each described by its pointwise effect on one connection;
each layer is preserved by each kind. In the model the order in which the
`Lost` events of several dropped connections are posted is left open, since the
map they are drained from has no order.

`ClientInv` adds the client's half on top of `SupInv`. `Exchange` lists every
point of the conversation between a live client and its flow: the stage of each,
and the exact frames between them in either direction; it is what makes an
answer meet the stage that expects it. Past the gate the conversation goes
through the room, so `Procession` says that the events of a client that wait in
the queue lead the room's record of it, one by one, to where the flow is, and
`Speech` that whatever a batch will say to it follows from what the room takes it
for; an `error` is said only to a client the room dropped an event of
or had a reason against (`mishap`). `Excused` collects the codes a client may be
refused with: `ByRoom` for these, `ProtocolViolation` for the clients whose frame
was served before their connect (`overtaken`). `RefusedOnlyForCause` is `Reader`,
the part about what a client has read already.

### The application

`ShellInv` has seven parts, five of them about the Tor session. `PlaceFacts`
fixes for every place in the program whether a child may run and whether there is
a directory that a manager owns. `LineFacts` says that every command is issued on a quiet
connection, and that while its reply is awaited only that reply lies in the pipe,
with nothing behind its last line (`OneExchange`); this is where the parser's
treatment of data blocks matters, and why a poisoned or abandoned connection is
used for nothing but the shutdown. `HonestFacts` says that every field on the
connection is true of Tor, `ReadyFacts` carries it to the session. `ScreenFacts`
holds the exact set of locked fields for each form and focus (`Fits`), and
`FormFacts` the relation of the form kept aside to the stage. One lemma per
screen says what a key does to it (`KeyEffect`, `PasswordEffect`).

### Only model-checked

- Liveness (`TransitionEnds`, `NothingHangs`, `TerminalLossQuits`,
  `OverdueLinesGo`, `TrafficMoves`): TLAPS cannot prove it under fairness.
- `TimeoutsAgreeUnlessNested` of `RoomSession`. A newcomer learns the lifetime
  from a message the host's program sends when told to, so the invariant would
  have to follow that message from the host's link through the room to every
  member's, across later transitions.
- `RoomView`: the input line is edited by a fold over the bytes of what is typed
  (`InsertText`), and what a fold computes needs induction over data. That also
  keeps `ViewTypeOK`, `FieldsEditCharacters` and `OnlyMeantTextLeaves` from the
  prover, which rest on fields holding whole characters.
- `Wire`: what the codec computes (`StrictDecoding`, `WireTypeOK`,
  `ImplementsFifoLink`) is defined by recursion over the input.

## Not modelled

- Cryptography is assumed sound: a signature verifies only for its signer, an
  envelope opens only under its own key. Failures of the random generator in
  the middle of a transition are not modelled.
- Rendering, sanitising of displayed text, the notice overlay and its keys, the
  terminal's raw mode, the clipboard: layout and operating-system I/O.
- Invitation links (`uri.rs`), the spelling of command arguments, nickname
  normalisation: pure string functions, represented by their outcomes.
- Blocking of the event and action channels (64 each). The supervisor awaits
  `room.send` while it does not drain actions, and the room task awaits the
  action channel while it does not take events; with both full neither moves.
  `HostSupervisor` bounds the channels by guards instead, so this is neither
  shown nor excluded.
- Wrongly typed members inside a snapshot, beyond the ones whose sizes do not
  fit; the frame-level effect is the same refusal.
- Read-only queries (`/list`, `/whois`, `/requests`), wording and layout.
- `RoomActor`'s environment is wider than the gate: `PasswordVerified` and join
  forms reach it from any connection. What the gate lets through is
  `HostSupervisor`'s business.
- Counters do not overflow: `u64` sequences and ids at one event each outlast
  any room, and the code adds to them with plain `+= 1`.

## Plan

The modules are in place. What remains is proof, in order of importance:

1. `RoomSession`: `TimeoutsAgreeUnlessNested`. Every member's lifetime is the
   room's, or will be when it has read its link, or a rebroadcast is on its way
   from the host or due at the end of the transition.
2. `RoomView`: `NoLineLostEarly`, from the deadline of every line being its
   creation plus the lifetime in force.
