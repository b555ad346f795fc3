# A TLA+ verification of sm4ns3

sm4ns3 is an ns-3 module that couples the ns-3 network simulator to the Sim
Mobility traffic simulator. The two run in lockstep over one TCP connection:
Sim Mobility sends the agents' positions and the messages they want to send,
ns-3 simulates the radio for 100 ms, sends back what was received, and says
`ticked_client`.

## 1. Inventory

| Component | State | Operations | Interacts with |
|---|---|---|---|
| `Broker` (`smb_broker.cc`) | `m_pause`, `mutex_pause`, `m_incoming`, `m_outgoing`, `m_global_tick`, `io_service`, the io thread | `start`; on the io thread `onMessageReceived`, `parsePacket`; on the main thread `pause`, `processIncoming`, `sendOutgoing`, `~Broker` | called back by `Connection`, calls the handlers, scheduled by ns-3 |
| `Connection` (`smb_connection.cc`) | `incomingHeader`, `incomingMessage`, the session | `connect`, `receive`, `async_receive`, `readHandler`, `send`, `isOpen` | `Broker`, `Session` |
| `Session` (`smb_session.cc/.h`) | `socket_`, the read buffers | `connect`, `read`, `async_read`, `handle_read_header`, `handle_read_data`, `write`, `closeSocket` | the TCP stream |
| `ThreadSafeQueue` | a queue and its mutex | `push`, `pop` | both threads |
| Handlers (`handlers.cc`) | the table of handlers | `AgentsInfoHandler`, `AllLocationHandler`, `OpaqueSendHandler`, `NullHandler`, `InvalidHandler` | the agent registry |
| `Agent` (`smb_agent.cc`) | the static map `AllAgents`; per agent a node, a socket, an address, a position | `init`, `Bind`, `AddAgent`, `RemoveAgent`, `getAgent`, `SetPosition`, `SendTo`, `ReceivePacket` | handlers; the simulated network by callback; `Broker::getOutgoing` |
| `WFD_Agent` | role, group, static containers | `init`, `figureOutGroup`, `configAll` | registration |
| `Registration`, `WFD_Registration` (`registration.cc`) | the retry counter, `WFD_Groups_` | `doConnect`, `doWhoAreYou`, `doAGENTS_INFO`, `doInitialization`, `doRoleAssignment`, `doREADY` | `Connection`, the agent registry |
| `BundleParser`, `JsonParser`, `MessageConglomerate` | an `OngoingSerialization`; a parsed bundle | `serialize_begin/end`, `makeX`, `addGeneric`, `deserialize`, `addMessage`, `parseX` | everybody who reads or writes |
| `RoadRunnerBaseLine` (`testing/rr_baseline.cc`) | the trace, two iterators | `parse`, `createNodes`, `pause` | replaces Sim Mobility by a trace file |
| `ProfileBuilder` | a log buffer, a shared file | `logX`, `flushLogFile` | the trace runner |
| `BaseWifi`, `BaseIP`, `BaseMobility` | ns-3 helpers, one of each for all agents; the next address | `Install` | `Agent::init` |

What is hard here:

* two threads share `m_pause` and `m_incoming`, and a one-bit flag announces a
  queue of any length;
* the main thread writes synchronously with the mutex held, while the other
  thread waits for the mutex and the peer waits for the answer;
* the stream may end or break at any point, and the io thread then closes the
  socket without the mutex;
* one `OngoingSerialization` lives as long as the Broker;
* `map::operator[]` inserts, `map::insert` does not overwrite, `Dispose` and
  `erase` meet raw `this` pointers in socket callbacks;
* the handshake accepts what an untimed, blocking read happens to return;
* packets are delivered, late or never, to an address, between ticks, while
  handlers add and remove the agents behind the addresses at ticks;
* both simulators compute from what the other last sent, so that anything still
  in a buffer when a tick is answered puts them apart.

The properties that make each part correct are named in section 3; the hazards
they answer are listed, with their lines, in `PROJECT.json`.

## 2. Modules

| Module | Models | Proofs | Instance |
|---|---|---|---|
| `Broker` | Broker, Connection, Session, ThreadSafeQueue, dispatch | `BrokerProofs`, `LockstepProofs` | `MCBroker` |
| `TickBarrier` | what the Broker promises Sim Mobility (abstract) | `LockstepProofs` | refined by `Broker` |
| `System` | `Broker` and `Agents` composed | `SystemProofs` | `MCSystem` |
| `Agents` | agent registry, handlers, addresses, ReceivePacket, WFD_Agent's missing node | `AgentsProofs` | `MCAgents` |
| `Registration` | Registration, WFD_Registration, role assignment, devices and addresses | `RegistrationProofs` | `MCRegistration` |
| `Bundle` | the v1 bundle format, byte by byte | `BundleProofs` | `MCBundle` |
| `Trace` | the trace runner and its ProfileBuilder | `TraceProofs` | `MCTrace` |
| `Ordering` | the order in which `std::map` and `std::set` are walked | `OrderingProofs` | used by `Agents`, `Registration`, `Trace` |

They meet as the code does: `Registration` ends in the state in which `Broker`'s
`Init` begins; `Broker` sees of a handler only that it returns or throws, `Agents`
says what it does, and `System` joins the two; `Broker` sees of a bundle only how
the reading side classifies it, and `Bundle` says which bytes that is.

**Broker.** `io` and `main` are the program counters of the two threads. The io
thread goes `header`, `body`, `deliver`, `rearm` and round again, one action per
asio callback or per critical section; it is `stopped` when `run()` has returned
for want of work. The main thread goes `scheduled` (ns-3 runs other events),
`spinning` (in `pause()`'s loop), `processing`, `replying` (in its critical
section), or `exited` when `pause()` has found the socket closed, and `joining`
in `~Broker`. `mutex_pause` is held by the main thread in `processing` and
`replying`, and by the io thread inside the single step `onMessageReceived`. An
exception that leaves a thread ends the process (`aborted`). The socket is
closed by the io thread at any time, because `closeSocket` takes no lock. A
bundle is a sequence of message types with a `kind`: what deserialization makes
of it. `m_outgoing` is two counters: the lengths recorded and the messages on
the stream. `received` and `popped` are histories. `StalePackets` says whether a
delivery may meet a freed agent, which `System` decides from `Agents`.

**TickBarrier.** Three variables: whether Sim Mobility waits (`owed`), the
messages announced and not yet handled (`task`), and the ticks handled. Announce,
Work, Answer, in turns. `Broker`'s refinement mapping finds the task where the
bundle is: on the stream, in `incomingMessage`, in `m_incoming`, or in the
conglomerate being handled; it is done when the last handler has returned. The
mapping is meant for bundles that all carry `ticked_simmob`; other bundles are
`broker_faults`' and `broker_split`'s subject.

**System.** `EXTENDS Broker`, with an instance of `Agents`. A message is a record
of its members, and one whose parse function finds a member missing is such a
record without it. `processIncoming_handle` and the handler's step of `Agents`
are one step, and so are the two `ReceivePacket`s; a packet may be lost only while
simulated time passes, between two ticks; what ends a handler (`crashed`) ends
the process (`aborted`). The history `view` is Sim Mobility's side of the story:
where its messages have put each agent, taken down when it sends them. What
becomes of the packets it forwards is `broker_outgoing`'s and `agents_forward`'s
subject: `System` claims nothing of them.

**Agents.** An object is `<<id, k>>`, the k-th agent created for its id; `AllAgents`
maps ids to `k` or to `Null`. Sets of ids stand for the lists in a message, so that
an id repeated in one message is not considered; a message adds its ids in their
order. `init` gives each new object the next address of `BaseIP`'s one counter
(`m_ipv4`), whether or not `AddAgent` then keeps the object. A packet carries its
recipient's address, and is delivered to whatever object has its socket bound there.
A handler is one step. A null or dangling dereference, or a message the parse
functions refuse, ends the process (`crashed`); delivery to a freed agent is
undefined behaviour and may do either.

**Registration.** One action per step of `Registration::start`; each step's
early returns and exceptions are its disjuncts. `m_application` is the argument
of `Broker::start`, which throws for any but two. `doInitialization` gives every
agent a device and an address of 11.0.0.0/8; under `stk`, `WFD_Agent::init` puts
its node into the owners' or the clients' container, and `configAll`, after
`go_client` has been sent, makes stations of the clients and an access point of
the owner and numbers them in 10.0.0.0/24. An address is what ns-3's helper
makes of a base and a count (`HelperAddress`), with a note of whether it is still
a host's of that network: beyond `GroupHosts` (254 in 10.0.0.0/24) come the
broadcast address and then addresses outside the mask, unless ns-3 is built with
the assertion that ends the program there (`AddressOverflow`).

**Bundle.** One `OngoingSerialization` is begun, filled and ended as its comment
prescribes, written, and read by the same code: `Session::read` refuses a bundle
with `remLen` 0, `deserialize_v1` cuts the data up, and `addMessage` with
`ParseJsonMessageBase` throws for a slice that is no message or has no `msg_type`
(`Typed` are the messages that have one). The messages that `ReceivePacket`
forwards have none, so that code like this could not read them.

**Trace.** The file is read line by line, any of `Lines` next, unless there is no
file or the next line cannot be taken apart (`parse_fails`); then the nodes are
created and `pause` replays one tick per step. A line is a record of its fields.
`pushToQueue` and `processIncoming` happen in one step, as in the code. The
`ProfileBuilder` is a sequence of entries in memory and one in the file; the
first moves to the second when the runner is destroyed, and is lost otherwise. A
division by zero, an iterator past the end and an exception are all `crashed`.

External parts, modelled from how the code uses them: Sim Mobility, the TCP
stream, the simulated radio, and `Json::Reader`.

## 3. Runs

| Run | Checks | Shows |
|---|---|---|
| `system` | `OneReplyPerTick`, `InStep`, `TickAnswered`, `ImplementsBarrier` | With a peer that ends every bundle with `ticked_simmob` and waits, agents coming and going, and packets late or lost: the Broker implements `TickBarrier`; whenever Sim Mobility is not waiting, ns-3 has the agents it has told of, where it has put them; every tick is answered, even with room for a single bundle in the TCP buffers, unless a handler or a delivery ends the process. |
| `broker_faults` | `TypeOK`, `WakeupExact`, `QueueOrder`, `TickNeedsBundle`, `EofEndsProcess`, `QueuedIsHandled` | With split, empty, malformed, badly versioned and zero-length bundles, throwing handlers, and EOF or reset at any point: no lost or spurious wake-up, no bundle lost, repeated or reordered, no tick without a bundle, no queued bundle left waiting while the socket is open (also after the io thread has stopped on an error), and after EOF no endless spinning. |
| `agents` | `TypeOK`, `RegistryOwnsObjects`, `PositionTracks`, `SetPositionHasNode`, `DeliveredToAddressee`, `StaysBound` | The map owns exactly the live objects, a binding changes only through removal, and no packet reaches an agent of another id, through any sequence of additions, removals, lookups of unknown ids and late packets. |
| `registration` | `TypeOK`, `StartedAfterHandshake`, `OneGroupOwner`, `OwnAddresses`, `EndsOrWaits` | Registration succeeds only after the whole handshake in order, whatever the server sends; otherwise it ends or waits in a read; the group told to Sim Mobility is the one configured, with one access point; no two agents have one address, and all addresses are hosts' of their network exactly while it has room for the agents. |
| `bundle` | `RoundTrip` | Up to 255 messages are framed exactly. A bundle is read back as written exactly if it is not empty, has at most 255 messages and each has a `msg_type`; otherwise the reader refuses it or throws, or, beyond 255 messages, may find others or none. |
| `trace` | `TypeOK`, `ReplayedOnTime`, `LowestAgents`, `PositionsReplayed`, `LogComplete`, `GoodTraceCompletes` | The replay agrees with the file read as a whole: which agents, when, where; a profile with its last line is complete, with every tick's number and agents; and which traces are replayed to the end at all. |

The other runs show where the code and its comments part ways; each is expected
to violate its property, and `PROJECT.json` quotes the comment.

| Run | Property | What the counterexample shows |
|---|---|---|
| `broker_split` | `ReplyOnlyWhenReady` | `parsePacket`'s result decides nothing: a bundle without `ticked_simmob` is answered. |
| `broker_eof` | `EofHandled` | After EOF `readHandler` re-arms the read on the socket it has just closed, and throws. |
| `broker_outgoing` | `OutgoingWellFormed` | `serialize_begin` keeps the text of earlier ticks: a forwarded packet is sent again with every later tick, in front of the new ones. A reader that follows the lengths finds the old messages in the new ones' place, and never the new ones. |
| `agents_add` | `AddHonoured` | `opaque_send` to an unknown id leaves a null entry; `new_agents` for that id then adds nothing. |
| `agents_forward` | `ForwardKeepsMessage` | `ReceivePacket` reads members that `OpaqueSendHandler` does not write; the forwarded message is empty. |
| `agents_stk` | `SetPositionHasNode` | Under `stk`, `WFD_Agent::init` leaves `m_node` null and the first `all_locations` dereferences it. |

One more divergence has no run of its own. The comment at `rr_baseline.h:93-98` says
that the ids are kept in ascending order and that lines with an id above the n-th
are discarded, so that the n lowest ids of a file are replayed; the code keeps the
first n ids added (`rr_baseline.cc:264`). The two agree on files that add their
agents in ascending order, and `LowestAgents` demands the n lowest ids of those; of
the other files it demands only that no line of a discarded id has an effect. The
run's instance has both kinds: a file that adds agent 2 before agent 1, under a
limit of one, creates agent 2.

### Bounds

* `MaxBundles = 3`, `Window = 2`: a bundle is being handled while a second waits in
  the queue and a third in the stream; the flag, the queue and the mutex know no
  larger case.
* `MaxForwards = 1` in `Broker`'s own runs: one packet is enough to tell what is
  announced from what is sent again.
* `system`: four ticks, each one of eight bundles; agent 1 registered, agent 2
  unknown at first. `Window = 1`, where a write can block. The bounds on objects,
  packets and forwards are what four such bundles can need, so that no handler is
  ever held back by a bound. Four ticks hold an addition, a packet, the removal of
  its recipient and a tick after that. In lockstep one bundle is in flight at a
  time: bundles that are coalesced or split, and a queue of more than one, are
  `broker_faults`' and `broker_split`'s subject, and the wait of both threads and
  the peer for each other would need a peer that sends on without reading.
* Two ids, two objects per id, two packets: addition, removal and re-addition with
  packets in flight to the old object. `Registered` holds one of the two, so that
  the other is unknown at first.
* `Timeout = 3` attempts instead of 200; four bundles from the server, one more than
  a successful handshake reads. `GroupHosts = BaseHosts = 2` instead of 254 and
  2^24 - 2, so that three agents overflow either network.
* Bundles of up to four messages of three sizes, one of them without a `msg_type`;
  one with a message of more than 2^16 bytes; of 127 and 128 messages, where a byte's
  sign changes; of 255, the last of them that can be framed, with a message that
  cannot be read; and of 256 and 257. At 256 the count byte wraps to zero
  (`bundle_version.cc:38`), and nothing in the code keeps a bundle below that. That
  bundles of 129 to 255 messages are read back is shown by the proof alone. Ids as
  the code gives them, and none, so that a bundle can be empty.
* Files of up to five lines, over three uneven times, two agents of which one is let
  in, and updates in both orders, with nothing or both things disabled. `Parts = 2`
  progress reports instead of 10, so that traces with enough and with too few ticks
  are both small. Five lines hold an addition, two ticks and two updates of the same
  agent.

### Fairness

`Broker`'s `FairSpec` has weak fairness on each thread, which the operating
system's scheduler gives, and on Sim Mobility reading what it is sent, without
which a blocking write need not return. Weak fairness is enough for the mutex:
the main thread keeps it for one tick and then cannot take it usefully before
the io thread has queued a bundle. `System`'s is the same, with the handlers'
steps in the main thread. Nothing is assumed of Sim Mobility sending,
of faults happening, or of `Simulator::Run` returning. `Registration`'s has weak
fairness on the main thread only, without the resolver's failure; `Trace`'s on
the end of the file, the simulator's events and the return of main.

Deadlock is not checked in runs where the process may end: after an uncaught
exception, a finished handshake or a bundle read.

## 4. Proofs

Every invariant that a passing run checks, the action property `StaysBound` and
the refinement `ImplementsBarrier` are also theorems, for every value of the
constants that the modules' named assumptions allow. Some have a
hypothesis on top:

* `Lockstep` (`Broker`), for `OneReplyPerTick`, `ImplementsBarrier` and
  `InStep`: no faults of the stream, and every bundle Sim Mobility
  sends is sound and carries `ticked_simmob`. This is how Sim Mobility steps with
  ns-3; without it a bundle and an answer need not go together (`broker_split`).
  Handlers may still throw and packets may meet freed agents.
* `Fits` (`BundleProofs`), for `RoundTrip`: an id has at most 255 bytes and a
  message fewer than 2^24, which is what the length fields hold. The code does not
  check it. The number of messages is not assumed: `RoundTrip` says what becomes of
  more than 255.
* `Application = "Default"`, for `SetPositionHasNode`; the run `agents_stk` shows
  that it fails under `stk`.

| Module | Theorems |
|---|---|
| `BrokerProofs` | `TypeCorrect`, `NoLostWakeup`, `ProcessedInOrder`, `EveryTickHasABundle` |
| `LockstepProofs` | `RepliesMatchTicks`, `BrokerIsABarrier` |
| `AgentsProofs` | `TypeCorrect`, `ObjectsAreOwned`, `AgentsAreWherePut`, `AgentsHaveNodes`, `PacketsReachTheirAgent`, `IdsStayBound` |
| `RegistrationProofs` | `TypeCorrect`, `HandshakeFirst`, `GroupAsReported`, `AddressesDistinct` |
| `SystemProofs` | `SystemRunsBroker`, `SystemRunsAgents`, `AgentsInStep` |
| `TraceProofs` | `TypeCorrect`, `TicksOnTime`, `LowestAreCreated`, `ProfileIsComplete`, `AgentsFollowTheTrace` |
| `BundleProofs` | `HeaderRoundTrip`, `BundlesRoundTrip` |
| `OrderingProofs` | lemmas only |

Each proof that `Next` preserves an invariant has one step or one lemma per
action. The invariants of `SystemProofs` and of `TraceProofs`' positions were checked
by TLC on the runs' instances before they were proved.

**BrokerProofs**, from `BrokerConstants` only (any messages and bundles, any
faults, any bounds). `WakeupExact`, `QueueOrder` and `TickNeedsBundle` are not
inductive. The invariant `IInv` adds

* `IoInv`: a header that has been read belongs to a bundle still in the stream;
  while a read is armed `incomingMessage` is empty; the socket is closed only
  between the end of file and the attempt to re-arm, and what is then delivered
  is empty. Without the last part `onMessageReceived` could clear `m_pause` on
  an open socket without queueing anything, and break `WakeupExact`.
* `MainInv`: during a tick `m_pause` is set, at its end queue and conglomerate
  are drained, and a tick under way has a bundle in `received` that
  `m_global_tick` does not count yet. The last part comes from `WakeupExact` at
  the moment a tick starts on an open socket, and at its end `QueueOrder` turns
  it into `TickNeedsBundle`.

**LockstepProofs.** The invariant `LockInv` says where the tick is: nowhere
(`Idle`), on the stream, in Connection's buffer, in the queue, being handled,
being answered, or on its way back, in one of these places only, and what each
place means for both threads and for the counters. `OneReplyPerTick` can be read
off it. The refinement mapping, a choice by cases in `Broker`, has one value per
place (`TaskByPlace`), so that each step of the code is an Announce, Work or
Answer of `TickBarrier`, or a stutter, by the place it takes the tick from and
the one it puts it in.

**AgentsProofs.** The properties depend on the objects that do not exist yet: a
new object is at the origin and gets an address that no object, dead or alive, has
(`BornInv`, `AddressInv`), because objects are numbered, and addresses counted,
upwards. With `AirInv` (a packet in the air has the address of an object of its
recipient's id) that gives `DeliveredToAddressee`. That one message's new agents
get distinct addresses is a fact about places in an ordered set,
`RankInjective` of `OrderingProofs`.

**RegistrationProofs.** `PhaseInv` carries through the phases what has been read,
answered and created so far; the last step only collects it. Two parts of the
code number and choose agents independently (`doRoleAssignment`,
`figureOutGroup`); that they agree rests on the first id of a set being unique.
The addresses have different numbers from 1 to the number of agents
(`AssignNumbers`, with `RankInjective` again), so that all are within the network's
hosts exactly if there are no more agents than hosts (`HostsForAll`, a pigeonhole
argument).

**SystemProofs.** A step of the system is a step of `Broker` and a step of `Agents`,
so that `SysSpec` implies both specifications and everything proved of either. The
invariant `ViewInv` ties the parts together over the places of `LockInv`: the
messages still to be handled lead from where ns-3's agents are to where Sim Mobility
thinks they are. It needs what a sequence of messages does to a view, for sequences
of any length: `SeenAll` is a recursive function, and the lemmas about it
(`ChainExists`, `ChainUnique`, `SeenAllStep`) are an induction made with
`SetInduction`, the principle of induction stated for sets, which the provers can
instantiate.

**TraceProofs.** Each invariant describes the map of ticks in terms of the lines
read, and the replay in terms of the map. `ReplayInv`: the clock shows how long
after the first tick the next one is. `LimitInv`: the ids let in are all that were
added until there are more than the limit, and as many as the limit from then on.
`HeldInv`: what the ticks hold is of ids let in. That the first n ids of an
ascending sequence are the n lowest is `FirstAreLowest`, for every file. `MapInv`:
with every tick's own line first, the updates of a tick are of the ids let in that
have such a line after they were added, and are the latest one's. `PosInv`: every
agent is where the last of its lines so far puts it, and there is a last one.
`LogInv`: the profile in memory has two entries per tick replayed, and the file is
empty until the end; the interval from which a tick's number was computed is the
time to the tick replayed after it (`GapsGrow`); that there are as many ticks
replayed as in the map is a bijection, from `ReplayedOnTime`.

**BundleProofs.** `HeaderRoundTrip` rests on a number being the sum of its bytes.
For the body, `BufferInv` says that the messages added so far lie one after the
other in the buffer, with a function `start` of where each begins; writing puts
ids and lengths in front, and reading finds the lengths by the arithmetic of three
bytes per length, the offsets because a function that goes from offset to offset as
`deserialize_v1` does is unique (`OffsetsUnique`, by `SetInduction`), and the
messages because no message begins another. That the whole length fits into four
bytes follows from the limits on its parts. More than 255 messages do not come back
because the reader finds at most as many as the count byte says (`TooMany`).

Model-checked only: `TickAnswered`, `QueuedIsHandled`, `EofEndsProcess`,
`EndsOrWaits` and `GoodTraceCompletes`, which are liveness under fairness and out
of the prover's reach. The violated properties of section 3 have their
counterexamples.

## 5. Not modelled

* The sender of a trace's multicasts: `makeOpaqueSend` writes a constant id
  (`serialize.cc:495`) that no agent has, so that the replay sends no packet.
* Several `ProfileBuilder`s at once: the class has a mutex and a count for them,
  the program makes one.
* What the destructors at the end of the process do: `~Broker` joins a thread that
  a failed registration and the trace runner never start, and `conn` outlives the
  `io_service` its socket belongs to.
* Resolving the server's name: `connect` resolves twice into one error code; the
  model lets it end in an exception and goes no further.
* The v0 bundle format: `NEW_BUNDLES` is a constant.
* `JsonSingleLineWriter`: formatting.
* The parameters of ns-3's radio, channel and mobility models (`BaseWifi::init`,
  `createNodes`, `configAll`): of a device the models know its kind of MAC and its
  address. Packet delivery is "delivered, at any later time, or lost".
* A bundle in which an id or a length runs past the end of the data: it is
  `malformed` in `Broker`, although the code reads out of bounds before
  `addMessage` throws.

## 6. Plan

1. Done: the modules of section 2, the refinement of `TickBarrier`, the
   composition, and the proofs of section 4.
2. Theorems worth adding: that the ticks of the map are exactly the times of the
   lines that count, so that `ReplayedOnTime` speaks of the file; what a bundle
   with a message of 2^24 bytes is read as; that a run of
   `Registration` that succeeds ends in a state in which `System` may begin.
