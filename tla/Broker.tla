------------------------------- MODULE Broker -------------------------------
(***************************************************************************)
(* The run-time core of sm4ns3: class Broker (smb_broker.cc) with the      *)
(* Connection and Session it reads through (smb_connection.cc,             *)
(* smb_session.cc) and the ThreadSafeQueue between its two threads.        *)
(*                                                                         *)
(*   io thread    boost::asio's io_service.run(): reads one bundle at a    *)
(*                time, queues it, clears m_pause, arms the next read      *)
(*   main thread  the ns-3 simulator: Broker::pause() waits for m_pause to *)
(*                clear, handles every queued message, writes the outgoing *)
(*                bundle and a "ticked_client", and schedules itself again *)
(*   Sim Mobility the TCP peer; external, modelled from what src/ reads    *)
(*                and writes                                               *)
(*                                                                         *)
(* What a handler does to the agents is module Agents' subject; here a     *)
(* handler returns or throws.  Handlers touch nothing of the Broker's own  *)
(* state.                                                                  *)
(***************************************************************************)
EXTENDS Integers, Sequences

CONSTANTS
    Messages,    \* the messages of a bundle: records with a field "type"
    Fragile,     \* the messages whose handler may throw (bad payload, null agent)
    SimBundles,  \* the bundles Sim Mobility may write
    StalePackets,\* whether a packet may reach an agent that has been removed
    Faults,      \* what else its end of the stream may do: "close", "reset"
    Window,      \* bundles the TCP buffers hold in each direction
    MaxBundles,  \* bound: bundles Sim Mobility writes
    MaxForwards  \* bound: packets agents forward to Sim Mobility

(* The kinds of bundle as the reading side tells them apart:               *)
(*   ok          deserialize_v1 yields its messages                        *)
(*   malformed   MessageConglomerate::addMessage throws                    *)
(*   badversion  read_bundle_header_v1 throws                              *)
(*   zerolen     the header announces remLen = 0                           *)
(*   truncated   the stream ends between the header and the data           *)
BundleKinds == {"ok", "malformed", "badversion", "zerolen", "truncated"}
Bundles == [kind: BundleKinds, msgs: Seq(Messages)]

\* incomingMessage = "", what Connection::async_receive leaves to be filled.
Empty == [kind |-> "empty", msgs |-> << >>]

ASSUME BrokerConstants ==
    /\ \A m \in Messages : m.type \in STRING
    /\ Fragile \subseteq Messages
    /\ SimBundles \subseteq [kind: BundleKinds \ {"truncated"}, msgs: Seq(Messages)]
    /\ Faults \subseteq {"close", "reset"}
    /\ StalePackets \in BOOLEAN
    /\ Window \in Nat \ {0}
    /\ MaxBundles \in Nat
    /\ MaxForwards \in Nat

VARIABLES
    \* Sim Mobility and the TCP connection
    peer,          \* its end of the stream: "up", "closed" (EOF), "reset"
    sent,          \* bundles it has written so far
    simWait,       \* it has written "ticked_simmob" and awaits "ticked_client"
    inbound,       \* bundles written by it and not yet read here
    toSim,         \* bundles written here and not yet read by it
    \* the io thread
    socket,        \* Session::socket_: "open" or "closed" (by closeSocket)
    io,            \* where the io thread is
    incoming,      \* Connection::incomingMessage
    received,      \* history: every conglomerate pushed onto m_incoming
    \* shared, under mutex_pause
    m_pause,
    m_incoming,    \* ThreadSafeQueue of MessageConglomerates
    \* the main thread
    main,          \* where the main thread is
    conglom,       \* messages of the popped conglomerate still to be handled
    popped,        \* history: every conglomerate popped from m_incoming
    m_outgoing,    \* Broker::m_outgoing
    m_global_tick,
    \* the process
    aborted        \* "no", or the thread an uncaught exception escaped from

simVars    == <<peer, sent, simWait>>
ioVars     == <<io, incoming, received>>
mainVars   == <<main, conglom, popped, m_outgoing, m_global_tick>>
sharedVars == <<m_pause, m_incoming>>
vars == <<simVars, inbound, toSim, socket, ioVars, sharedVars, mainVars, aborted>>

-----------------------------------------------------------------------------
(* Helpers *)

HasTick(msgs) == \E i \in DOMAIN msgs : msgs[i].type = "ticked_simmob"

\* Connection::isOpen: the socket object is open, whatever became of the stream.
isOpen == socket = "open"

\* Mutant: pause() releases mutex_pause before it processes the queue.
MutexHeldByMain_Released == FALSE

\* pause() keeps mutex_pause from the moment it sees ~m_pause until it has
\* scheduled the next tick; onMessageReceived takes and releases it in one step.
MutexHeldByMain == main \in {"processing", "replying"}

\* HandlerLookup's table: the types whose handler returns normally.
HandledTypes == {"all_locations", "new_agents", "ticked_simmob", "opaque_send"}

\* getHandler throws for a type it does not know, InvalidHandler for MULTICAST
\* and UNICAST, and a fragile message's handler may throw on its contents.
MayThrow(m) == m.type \notin HandledTypes \/ m \in Fragile

\* Mutant: drop the last length instead of clearing them.
serialize_begin_PopBack(o) == [o EXCEPT !.msgLengths = @ - 1]

\* JsonParser::serialize_begin forgets the lengths and keeps the stream.
serialize_begin(o) == [o EXCEPT !.msgLengths = 0]

\* addGeneric: one more length, one more message on the stream.
addGeneric(o) == [msgLengths |-> o.msgLengths + 1, messages |-> o.messages + 1]

\* The message of a forwarded packet, and the one that ends a tick.
makeUnknownJSON(o) == addGeneric(o)
makeTickedClient(o) == addGeneric(o)

\* A new OngoingSerialization.
NewSerialization == [msgLengths |-> 0, messages |-> 0]

\* serialize_end: what the header and the lengths announce, what the body holds.
serialize_end(type, o) == [type |-> type, msgLengths |-> o.msgLengths, messages |-> o.messages]

-----------------------------------------------------------------------------
Init ==
    \* Broker::start has returned: registration is complete, async_receive is
    \* armed, the io thread runs, and pause() is the simulator's first event.
    /\ peer = "up"
    /\ sent = 0
    /\ simWait = FALSE
    /\ inbound = << >>
    /\ toSim = << >>
    /\ socket = "open"
    /\ io = "header"
    /\ incoming = Empty
    /\ received = << >>
    /\ m_pause = TRUE
    /\ m_incoming = << >>
    /\ main = "scheduled"
    /\ conglom = << >>
    /\ popped = << >>
    /\ m_outgoing = serialize_begin(NewSerialization)
    /\ m_global_tick = 0
    /\ aborted = "no"

-----------------------------------------------------------------------------
(* Sim Mobility (external) *)

\* It writes a bundle, unless it is waiting for the answer to its last tick.
SimSend(b) ==
    /\ peer = "up"
    /\ ~simWait
    /\ sent < MaxBundles
    /\ Len(inbound) < Window
    /\ sent' = sent + 1
    /\ inbound' = Append(inbound, b)
    /\ simWait' = HasTick(b.msgs)
    /\ UNCHANGED <<peer, toSim, socket, ioVars, sharedVars, mainVars, aborted>>

SimReceive ==
    /\ peer = "up"
    /\ toSim # << >>
    /\ toSim' = Tail(toSim)
    /\ simWait' = (simWait /\ Head(toSim).type # "ticked_client")
    /\ UNCHANGED <<peer, sent, inbound, socket, ioVars, sharedVars, mainVars, aborted>>

\* It shuts its end down, between two bundles or inside one.
SimClose ==
    /\ "close" \in Faults
    /\ peer = "up"
    /\ peer' = "closed"
    /\ inbound' \in {inbound, Append(inbound, [kind |-> "truncated", msgs |-> << >>])}
    /\ UNCHANGED <<sent, simWait, toSim, socket, ioVars, sharedVars, mainVars, aborted>>

\* The connection is lost: reads fail with an error other than EOF.  A closed
\* stream ends so too when what is written to it finds nobody.
SimReset ==
    /\ "reset" \in Faults
    /\ peer \in {"up", "closed"}
    /\ peer' = "reset"
    /\ UNCHANGED <<sent, simWait, inbound, toSim, socket, ioVars, sharedVars, mainVars, aborted>>

SimStep == (\E b \in SimBundles : SimSend(b)) \/ SimReceive \/ SimClose \/ SimReset

-----------------------------------------------------------------------------
(* The io thread *)

\* Session::handle_read_header.  An invalid version throws out of the thread;
\* remLen = 0 makes readHandler return, and run() ends for want of work.
handle_read_header ==
    /\ io = "header"
    /\ inbound # << >>
    /\ LET kind == Head(inbound).kind IN
       /\ aborted' = IF kind = "badversion" THEN "io" ELSE aborted
       /\ io' = IF kind = "zerolen" THEN "stopped" ELSE "body"
    /\ UNCHANGED <<simVars, inbound, toSim, socket, incoming, received, sharedVars, mainVars>>

\* Session::handle_read_data hands the whole bundle to Connection::readHandler.
handle_read_data ==
    /\ io = "body"
    /\ Head(inbound).kind # "truncated"
    /\ incoming' = Head(inbound)
    /\ inbound' = Tail(inbound)
    /\ io' = "deliver"
    /\ UNCHANGED <<simVars, toSim, socket, received, sharedVars, mainVars, aborted>>

\* Mutant: on EOF close the socket and return, as for the other errors.
readHandler_eof_Return ==
    /\ peer = "closed"
    /\ \/ io = "header" /\ inbound = << >>
       \/ io = "body" /\ Head(inbound).kind = "truncated"
    /\ socket' = "closed"
    /\ io' = "stopped"
    /\ UNCHANGED <<simVars, inbound, toSim, incoming, received, sharedVars, mainVars, aborted>>

\* readHandler on "End of file": close the socket, without mutex_pause, and go
\* on to onMessageReceived with incomingMessage still empty.
readHandler_eof ==
    /\ peer = "closed"
    /\ \/ io = "header" /\ inbound = << >>
       \/ io = "body" /\ Head(inbound).kind = "truncated"
    /\ socket' = "closed"
    /\ io' = "deliver"
    /\ UNCHANGED <<simVars, inbound, toSim, incoming, received, sharedVars, mainVars, aborted>>

\* readHandler on any other error returns: no read is armed, run() ends.
readHandler_error ==
    /\ peer = "reset"
    /\ io \in {"header", "body"}
    /\ io' = "stopped"
    /\ UNCHANGED <<simVars, inbound, toSim, socket, incoming, received, sharedVars, mainVars, aborted>>

\* ThreadSafeQueue::push.
push(item) ==
    /\ m_incoming' = Append(m_incoming, item)
    /\ received' = Append(received, item)

\* parsePacket queues what deserialize yields, and nothing for an empty input.
\* Its result, whether there was a "ticked_simmob", has no effect.
parsePacket ==
    \/ incoming.kind = "ok" /\ push(incoming.msgs)
    \/ incoming.kind = "empty" /\ UNCHANGED <<m_incoming, received>>

\* Mutant: the bundle is queued and m_pause left alone.
onMessageReceived_NoWakeup ==
    /\ io = "deliver"
    /\ ~MutexHeldByMain
    /\ parsePacket
    /\ io' = "rearm"
    /\ UNCHANGED <<m_pause, aborted, simVars, inbound, toSim, socket, incoming, mainVars>>

\* Broker::onMessageReceived under mutex_pause.  m_pause is cleared whatever
\* parsePacket returns; deserialize may throw.
onMessageReceived ==
    /\ io = "deliver"
    /\ ~MutexHeldByMain
    /\ \/ /\ incoming.kind = "malformed"
          /\ aborted' = "io"
          /\ UNCHANGED <<io, sharedVars, received>>
       \/ /\ parsePacket
          /\ m_pause' = FALSE
          /\ io' = "rearm"
          /\ UNCHANGED aborted
    /\ UNCHANGED <<simVars, inbound, toSim, socket, incoming, mainVars>>

\* Connection::async_receive throws on a closed socket, out of the io thread.
async_receive ==
    /\ io = "rearm"
    /\ \/ isOpen /\ io' = "header" /\ incoming' = Empty /\ UNCHANGED aborted
       \/ ~isOpen /\ aborted' = "io" /\ UNCHANGED <<io, incoming>>
    /\ UNCHANGED <<simVars, inbound, toSim, socket, received, sharedVars, mainVars>>

IoStep ==
    \/ handle_read_header
    \/ handle_read_data
    \/ readHandler_eof
    \/ readHandler_error
    \/ onMessageReceived
    \/ async_receive

-----------------------------------------------------------------------------
(* The main thread *)

\* Between two ticks the simulated network delivers a packet, and
\* Agent::ReceivePacket adds a message to the Broker's outgoing serialization.
\* Called on an agent that has been freed it may do anything.
ReceivePacket ==
    /\ main = "scheduled"
    /\ m_outgoing.messages < MaxForwards
    /\ \/ m_outgoing' = makeUnknownJSON(m_outgoing) /\ UNCHANGED aborted
       \/ StalePackets /\ aborted' = "main" /\ UNCHANGED m_outgoing
    /\ UNCHANGED <<simVars, inbound, toSim, socket, ioVars, sharedVars,
                   main, conglom, popped, m_global_tick>>

\* The simulator runs the pause() event.
pause_begin ==
    /\ main = "scheduled"
    /\ main' = "spinning"
    /\ UNCHANGED <<simVars, inbound, toSim, socket, ioVars, sharedVars,
                   conglom, popped, m_outgoing, m_global_tick, aborted>>

\* m_pause is still set: release the mutex, sleep 0.1 ms, look again.
pause_sleep ==
    /\ main = "spinning"
    /\ m_pause
    /\ UNCHANGED vars

\* Mutant: m_pause is not set again.
pause_enter_NoReset ==
    /\ main = "spinning"
    /\ ~m_pause
    /\ main' = IF isOpen THEN "processing" ELSE "exited"
    /\ UNCHANGED <<simVars, inbound, toSim, socket, ioVars, m_pause, m_incoming,
                   conglom, popped, m_outgoing, m_global_tick, aborted>>

\* m_pause is clear: set it and, with the mutex held, start the tick; or leave
\* pause() for good if the socket has been closed.
pause_enter ==
    /\ main = "spinning"
    /\ ~m_pause
    /\ m_pause' = TRUE
    /\ main' = IF isOpen THEN "processing" ELSE "exited"
    /\ UNCHANGED <<simVars, inbound, toSim, socket, ioVars, m_incoming,
                   conglom, popped, m_outgoing, m_global_tick, aborted>>

\* Mutant: the queue is a stack.
processIncoming_pop_Back ==
    /\ main = "processing"
    /\ conglom = << >>
    /\ m_incoming # << >>
    /\ conglom' = m_incoming[Len(m_incoming)]
    /\ popped' = Append(popped, conglom')
    /\ m_incoming' = SubSeq(m_incoming, 1, Len(m_incoming) - 1)
    /\ UNCHANGED <<simVars, inbound, toSim, socket, ioVars, m_pause,
                   main, m_outgoing, m_global_tick, aborted>>

\* Mutant: the loop over the messages starts at 1.
processIncoming_pop_FromOne ==
    /\ main = "processing"
    /\ conglom = << >>
    /\ m_incoming # << >>
    /\ conglom' = SubSeq(Head(m_incoming), 2, Len(Head(m_incoming)))
    /\ popped' = Append(popped, Head(m_incoming))
    /\ m_incoming' = Tail(m_incoming)
    /\ UNCHANGED <<simVars, inbound, toSim, socket, ioVars, m_pause,
                   main, m_outgoing, m_global_tick, aborted>>

\* processIncoming: ThreadSafeQueue::pop the next conglomerate ...
processIncoming_pop ==
    /\ main = "processing"
    /\ conglom = << >>
    /\ m_incoming # << >>
    /\ conglom' = Head(m_incoming)
    /\ popped' = Append(popped, Head(m_incoming))
    /\ m_incoming' = Tail(m_incoming)
    /\ UNCHANGED <<simVars, inbound, toSim, socket, ioVars, m_pause,
                   main, m_outgoing, m_global_tick, aborted>>

\* ... and hand its messages, in order, to their handlers.
processIncoming_handle ==
    /\ main = "processing"
    /\ conglom # << >>
    /\ \/ /\ Head(conglom).type \in HandledTypes
          /\ conglom' = Tail(conglom)
          /\ UNCHANGED aborted
       \/ /\ MayThrow(Head(conglom))
          /\ aborted' = "main"
          /\ UNCHANGED conglom
    /\ UNCHANGED <<simVars, inbound, toSim, socket, ioVars, sharedVars,
                   main, popped, m_outgoing, m_global_tick>>

\* Session::write of a bundle: boost::asio::write blocks while the buffers are
\* full.  It throws on a closed socket and, sooner or later, on a stream whose
\* other end has gone.
write(bundle) ==
    /\ isOpen
    /\ peer = "up" => Len(toSim) < Window
    /\ toSim' = IF peer = "up" THEN Append(toSim, bundle) ELSE toSim

write_throws ==
    /\ ~isOpen \/ peer # "up"
    /\ aborted' = "main"

\* Mutant: the answer does not wait for the queue to be drained.
sendOutgoing_Undrained ==
    /\ main = "processing"
    /\ write(serialize_end("outgoing", m_outgoing))
    /\ m_outgoing' = serialize_begin(m_outgoing)
    /\ main' = "replying"
    /\ UNCHANGED <<simVars, inbound, socket, ioVars, sharedVars, conglom, popped, m_global_tick,
                   aborted>>

\* sendOutgoing, once the queue is drained, even with nothing to send.
sendOutgoing ==
    /\ main = "processing"
    /\ conglom = << >>
    /\ m_incoming = << >>
    /\ \/ /\ write(serialize_end("outgoing", m_outgoing))
          /\ m_outgoing' = serialize_begin(m_outgoing)
          /\ main' = "replying"
          /\ UNCHANGED aborted
       \/ /\ write_throws
          /\ UNCHANGED <<toSim, m_outgoing, main>>
    /\ UNCHANGED <<simVars, inbound, socket, ioVars, sharedVars, conglom, popped, m_global_tick>>

\* The "ticked_client" bundle; then schedule the next pause(), count the tick
\* and release the mutex.
sendTickedClient ==
    /\ main = "replying"
    /\ \/ /\ write(serialize_end("ticked_client",
                               makeTickedClient(serialize_begin(NewSerialization))))
          /\ m_global_tick' = m_global_tick + 1
          /\ main' = "scheduled"
          /\ UNCHANGED aborted
       \/ /\ write_throws
          /\ UNCHANGED <<toSim, m_global_tick, main>>
    /\ UNCHANGED <<simVars, inbound, socket, ioVars, sharedVars, conglom, popped, m_outgoing>>

\* If the simulator has no event left, Run returns and ~Broker stops the
\* io_service and joins the io thread.
destroy ==
    /\ main = "exited"
    /\ main' = "joining"
    /\ UNCHANGED <<simVars, inbound, toSim, socket, ioVars, sharedVars,
                   conglom, popped, m_outgoing, m_global_tick, aborted>>

MainStep ==
    \/ ReceivePacket
    \/ pause_begin
    \/ pause_enter
    \/ processIncoming_pop
    \/ processIncoming_handle
    \/ sendOutgoing
    \/ sendTickedClient

-----------------------------------------------------------------------------
\* An uncaught exception ends the process (std::terminate).
Next == aborted = "no" /\ (SimStep \/ IoStep \/ MainStep \/ pause_sleep \/ destroy)

Spec == Init /\ [][Next]_vars

(* The operating system schedules both threads.  Weak fairness is enough   *)
(* for mutex_pause: main keeps it for one tick and then needs a bundle the *)
(* io thread must first queue.  Sim Mobility is trusted to read what it is *)
(* sent, not to send anything; Run need not return.                        *)
FairSpec ==
    /\ Spec
    /\ WF_vars(aborted = "no" /\ IoStep)
    /\ WF_vars(aborted = "no" /\ MainStep)
    /\ WF_vars(aborted = "no" /\ SimReceive)

-----------------------------------------------------------------------------
(* Properties *)

Serializations == [msgLengths: Nat, messages: Nat]
Outgoing == [type: {"outgoing", "ticked_client"}, msgLengths: Nat, messages: Nat]

\* Every variable of the two threads and of the connection keeps its type.
TypeOK ==
    /\ peer \in {"up", "closed", "reset"}
    /\ sent \in 0..MaxBundles
    /\ simWait \in BOOLEAN
    /\ inbound \in Seq(Bundles)
    /\ toSim \in Seq(Outgoing)
    /\ socket \in {"open", "closed"}
    /\ io \in {"header", "body", "deliver", "rearm", "stopped"}
    /\ incoming \in Bundles \cup {Empty}
    /\ received \in Seq(Seq(Messages))
    /\ m_pause \in BOOLEAN
    /\ m_incoming \in Seq(Seq(Messages))
    /\ main \in {"scheduled", "spinning", "processing", "replying", "exited", "joining"}
    /\ conglom \in Seq(Messages)
    /\ popped \in Seq(Seq(Messages))
    /\ m_outgoing \in Serializations
    /\ m_global_tick \in Nat
    /\ aborted \in {"no", "io", "main"}

\* Whenever main is between ticks and the socket is open, m_pause is clear
\* exactly when a conglomerate is queued: pause() neither sleeps on a queued
\* bundle (lost wake-up) nor runs a tick on an empty queue (spurious one).
WakeupExact ==
    main \in {"scheduled", "spinning"} /\ isOpen => (m_pause <=> m_incoming = << >>)

\* The conglomerates main has popped, followed by the queued ones, are those the
\* io thread pushed: each is processed once, in the order it was read.
QueueOrder == received = popped \o m_incoming

\* Every tick answered with "ticked_client" has consumed a bundle of its own,
\* however the threads interleave and however bundles coalesce in the queue.
TickNeedsBundle == m_global_tick <= Len(popped)

\* What Sim Mobility does when it steps with ns-3: every bundle is sound and
\* carries "ticked_simmob", so that the answer is awaited, and the stream stays up.
Lockstep ==
    /\ Faults = {}
    /\ \A b \in SimBundles : b.kind = "ok" /\ HasTick(b.msgs)

\* In lockstep ns-3 is never more than one tick behind the bundles it has read,
\* never ahead, and level whenever it is between ticks with nothing queued.
OneReplyPerTick ==
    /\ m_global_tick <= Len(received)
    /\ Len(received) <= m_global_tick + 1
    /\ main = "spinning" /\ m_pause => m_global_tick = Len(received)

\* What Sim Mobility has announced is somewhere on its way to the handlers: on
\* the stream, in Connection's buffer, in the queue, or being handled.
Announced ==
    CASE inbound # << >>    -> Head(inbound).msgs
      [] io = "deliver"     -> incoming.msgs
      [] m_incoming # << >> -> Head(m_incoming)
      [] conglom # << >>    -> popped[Len(popped)]
      [] OTHER              -> << >>

\* The conglomerates whose last message has been handled.
Completed == IF conglom = << >> THEN popped ELSE SubSeq(popped, 1, Len(popped) - 1)

Barrier == INSTANCE TickBarrier WITH
    Ticks   <- {b.msgs : b \in SimBundles},
    owed    <- simWait,
    task    <- Announced,
    handled <- Completed

\* In lockstep the Broker with its two threads is the barrier of module
\* TickBarrier: every message of a tick has been handled, once and in its tick,
\* when Sim Mobility gets the answer.
ImplementsBarrier == Barrier!Spec

\* A queued conglomerate does not stay queued, unless the stream has ended or
\* the process has: pause() is woken for it.
QueuedIsHandled ==
    m_incoming # << >> ~> (m_incoming = << >> \/ ~isOpen \/ aborted # "no")

\* Once the io thread has closed the socket on EOF the process ends, by an
\* uncaught exception or by ~Broker: pause() does not go on spinning.
EofEndsProcess == ~isOpen ~> (aborted # "no" \/ (main = "joining" /\ io = "stopped"))

\* "We can handle this; no need to return." (readHandler on EOF): no exception
\* escapes after the socket has been closed.
EofHandled == ~isOpen => aborted = "no"

\* "return value will tell you whether notify or not" (parsePacket): pause()
\* answers only bundles that hold READY_TO_RECEIVE, that is "ticked_simmob".
ReplyOnlyWhenReady ==
    (\A i \in DOMAIN popped : ~HasTick(popped[i])) => m_global_tick = 0

\* "For v1, it's just the messages one after another" (OngoingSerialization):
\* the body of a bundle written to Sim Mobility holds the messages its lengths
\* announce and no others.
OutgoingWellFormed ==
    \A i \in DOMAIN toSim : toSim[i].msgLengths = toSim[i].messages
=============================================================================
