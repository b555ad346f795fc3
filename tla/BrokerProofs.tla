---------------------------- MODULE BrokerProofs ----------------------------
(***************************************************************************)
(* Broker's safety invariants for every set of messages and bundles, every *)
(* combination of faults and every bound.  None of them is inductive by    *)
(* itself: WakeupExact needs to know that m_pause is set and the queue is  *)
(* drained when a tick ends, TickNeedsBundle that a tick only starts with  *)
(* a conglomerate queued, which WakeupExact gives for an open socket.      *)
(***************************************************************************)
EXTENDS Broker, SequenceTheorems, TLAPS

\* The io thread: a header has been read from a bundle that is still there, a
\* read in progress has nothing in incomingMessage, and only EOF closes the
\* socket, after which no bundle is delivered.
IoInv ==
    /\ io = "body" => inbound # << >>
    /\ io \in {"header", "body"} => incoming = Empty
    /\ socket = "closed" => io \in {"deliver", "rearm"}
    /\ io = "deliver" /\ socket = "closed" => incoming = Empty
    /\ io = "deliver" /\ socket = "open" => incoming.kind # "empty"

\* The main thread: a tick runs with m_pause set, replies with everything
\* drained, and nothing waits in the queue unannounced between ticks.
MainInv ==
    /\ main \in {"processing", "replying"} => m_pause
    /\ main \in {"scheduled", "spinning", "replying"} => conglom = << >>
    /\ main = "replying" => m_incoming = << >>
    /\ main \in {"processing", "replying"} => m_global_tick < Len(received)

IInv == TypeOK /\ IoInv /\ MainInv /\ WakeupExact /\ QueueOrder /\ TickNeedsBundle

-----------------------------------------------------------------------------
(* Sequences *)

\* What Append yields, for the queue, the histories and the streams: the part
\* of AppendProperties that the steps below need.
LEMMA AppendTypes ==
    ASSUME NEW S, NEW s \in Seq(S), NEW x \in S
    PROVE  /\ Append(s, x) \in Seq(S)
           /\ Append(s, x) # << >>
           /\ Len(Append(s, x)) = Len(s) + 1
BY AppendProperties

\* Pushing onto the queue extends the history of what was pushed.
LEMMA PushKeepsOrder ==
    ASSUME NEW S, NEW p \in Seq(S), NEW q \in Seq(S), NEW r \in Seq(S), NEW x \in S,
           r = p \o q
    PROVE  Append(r, x) = p \o Append(q, x)
<1>1. /\ Append(r, x) \in Seq(S)
      /\ p \o Append(q, x) \in Seq(S)
  OBVIOUS
<1>2. Len(Append(r, x)) = Len(p \o Append(q, x))
  OBVIOUS
<1>3. \A i \in 1..Len(Append(r, x)) : Append(r, x)[i] = (p \o Append(q, x))[i]
  <2>1. /\ \A i \in 1..Len(r) : Append(r, x)[i] = r[i]
        /\ Append(r, x)[Len(p) + Len(q) + 1] = x
        /\ Len(Append(r, x)) = Len(p) + Len(q) + 1 /\ Len(r) = Len(p) + Len(q)
    OBVIOUS
  <2>2. \A i \in 1..(Len(p) + Len(q)) : r[i] = (p \o Append(q, x))[i]
    OBVIOUS
  <2>3. (p \o Append(q, x))[Len(p) + Len(q) + 1] = x
    OBVIOUS
  <2>4. SUFFICES ASSUME NEW i \in 1..Len(Append(r, x))
                 PROVE  Append(r, x)[i] = (p \o Append(q, x))[i]
    OBVIOUS
  <2>5. i = Len(p) + Len(q) + 1 \/ i \in 1..(Len(p) + Len(q))
    BY <2>1
  <2>6. CASE i = Len(p) + Len(q) + 1
    BY <2>1, <2>3, <2>6
  <2>7. CASE i \in 1..(Len(p) + Len(q))
    BY <2>1, <2>2, <2>7
  <2> QED
    BY <2>5, <2>6, <2>7
<1> QED
  BY <1>1, <1>2, <1>3, SeqEqual

\* Popping moves the head of the queue to the end of what was popped.
LEMMA PopKeepsOrder ==
    ASSUME NEW S, NEW p \in Seq(S), NEW q \in Seq(S), q # << >>
    PROVE  Append(p, Head(q)) \o Tail(q) = p \o q
<1>1. /\ Append(p, Head(q)) \o Tail(q) \in Seq(S)
      /\ p \o q \in Seq(S)
  OBVIOUS
<1>2. Len(Append(p, Head(q)) \o Tail(q)) = Len(p \o q)
  OBVIOUS
<1>3. \A i \in 1..Len(p \o q) : (Append(p, Head(q)) \o Tail(q))[i] = (p \o q)[i]
  OBVIOUS
<1> QED
  BY <1>1, <1>2, <1>3, SeqEqual

-----------------------------------------------------------------------------
(* Types of the data the actions build *)

\* The counting model of JsonParser keeps its types.
LEMMA SerializationTypes ==
    /\ NewSerialization \in Serializations
    /\ \A o \in Serializations :
          /\ serialize_begin(o) \in Serializations
          /\ addGeneric(o) \in Serializations
          /\ \A t \in {"outgoing", "ticked_client"} : serialize_end(t, o) \in Outgoing
BY DEF Serializations, Outgoing, NewSerialization, serialize_begin, addGeneric, serialize_end

\* A bundle cut short by the end of the stream, and incomingMessage's values.
LEMMA BundleTypes ==
    /\ [kind |-> "truncated", msgs |-> << >>] \in Bundles
    /\ SimBundles \subseteq Bundles
    /\ \A b \in Bundles : b.kind # "empty" /\ b.msgs \in Seq(Messages)
    /\ Empty.kind = "empty"
BY BrokerConstants DEF Bundles, BundleKinds, Empty

-----------------------------------------------------------------------------
(* The inductive invariant *)

\* The state in which Broker::start leaves the two threads satisfies it.
LEMMA InitIInv == Init => IInv
<1> SUFFICES ASSUME Init PROVE IInv
  OBVIOUS
<1>1. TypeOK
  <2>1. m_outgoing \in Serializations
    BY SerializationTypes DEF Init
  <2>2. /\ inbound \in Seq(Bundles) /\ toSim \in Seq(Outgoing) /\ conglom \in Seq(Messages)
        /\ \A q \in {received, popped, m_incoming} : q \in Seq(Seq(Messages))
    BY DEF Init
  <2>3. sent \in 0..MaxBundles
    BY BrokerConstants DEF Init
  <2> QED
    BY <2>1, <2>2, <2>3 DEF Init, TypeOK
<1>2. IoInv /\ MainInv
  BY DEF Init, IoInv, MainInv
<1>3. WakeupExact /\ QueueOrder /\ TickNeedsBundle
  BY DEF Init, WakeupExact, isOpen, QueueOrder, TickNeedsBundle
<1> QED
  BY <1>1, <1>2, <1>3 DEF IInv

\* Every step of Sim Mobility, of the io thread and of the main thread keeps it.
LEMMA NextIInv == IInv /\ [Next]_vars => IInv'
<1> SUFFICES ASSUME IInv, [Next]_vars PROVE IInv'
  OBVIOUS
<1> USE DEF IInv
<1> DEFINE Others == IoInv /\ MainInv /\ WakeupExact /\ QueueOrder /\ TickNeedsBundle
<1>1. ASSUME NEW b \in SimBundles, SimSend(b) PROVE IInv'
  <2>0. b \in Bundles
    BY <1>1, BundleTypes
  <2>1. TypeOK'
    BY <1>1, <2>0, BrokerConstants DEF TypeOK, SimSend, HasTick, simVars, ioVars, sharedVars, mainVars
  <2>2. Others'
    <3>1. inbound' # << >>
      BY <1>1, <2>0, AppendTypes DEF TypeOK, SimSend
    <3> QED
      BY <1>1, <3>1 DEF TypeOK, IoInv, MainInv, WakeupExact, QueueOrder, TickNeedsBundle, SimSend, isOpen, simVars, ioVars, sharedVars, mainVars
  <2> QED
    BY <2>1, <2>2
<1>2. CASE SimReceive
  <2>1. TypeOK'
    BY <1>2 DEF TypeOK, SimReceive, simVars, ioVars, sharedVars, mainVars
  <2>2. Others'
    BY <1>2 DEF TypeOK, IoInv, MainInv, WakeupExact, QueueOrder, TickNeedsBundle, SimReceive, simVars, ioVars, sharedVars, mainVars, isOpen
  <2> QED
    BY <2>1, <2>2
<1>3. CASE SimClose
  <2>1. TypeOK'
    <3>1. inbound' \in Seq(Bundles)
      <4>1. Append(inbound, [kind |-> "truncated", msgs |-> << >>]) \in Seq(Bundles)
        BY BundleTypes, AppendTypes DEF TypeOK
      <4> QED
        BY <1>3, <4>1 DEF TypeOK, SimClose
    <3> QED
      BY <1>3, <3>1 DEF TypeOK, SimClose, simVars, ioVars, sharedVars, mainVars
  <2>2. Others'
    <3>1. inbound # << >> => inbound' # << >>
      BY <1>3, BundleTypes DEF TypeOK, SimClose
    <3> QED
      BY <1>3, <3>1 DEF TypeOK, IoInv, MainInv, WakeupExact, QueueOrder, TickNeedsBundle, SimClose, isOpen, simVars, ioVars, sharedVars, mainVars
  <2> QED
    BY <2>1, <2>2
<1>4. CASE SimReset
  <2>1. TypeOK'
    BY <1>4 DEF TypeOK, SimReset, simVars, ioVars, sharedVars, mainVars
  <2>2. Others'
    BY <1>4 DEF TypeOK, IoInv, MainInv, WakeupExact, QueueOrder, TickNeedsBundle, SimReset, simVars, ioVars, sharedVars, mainVars, isOpen
  <2> QED
    BY <2>1, <2>2
<1>5. CASE handle_read_header
  <2>1. TypeOK'
    BY <1>5 DEF TypeOK, handle_read_header, simVars, ioVars, sharedVars, mainVars
  <2>2. Others'
    BY <1>5 DEF TypeOK, IoInv, MainInv, WakeupExact, QueueOrder, TickNeedsBundle, handle_read_header, simVars, ioVars, sharedVars, mainVars, isOpen
  <2> QED
    BY <2>1, <2>2
<1>6. CASE handle_read_data
  <2>0. Head(inbound) \in Bundles /\ Tail(inbound) \in Seq(Bundles)
    BY <1>6, HeadTailProperties DEF TypeOK, IoInv, handle_read_data
  <2>1. TypeOK'
    BY <1>6, <2>0 DEF TypeOK, handle_read_data, simVars, ioVars, sharedVars, mainVars
  <2>2. Others'
    <3>1. incoming'.kind # "empty" /\ socket' # "closed"
      BY <1>6, <2>0, BundleTypes DEF TypeOK, IoInv, handle_read_data
    <3> QED
      BY <1>6, <3>1 DEF TypeOK, IoInv, MainInv, WakeupExact, QueueOrder, TickNeedsBundle, handle_read_data, isOpen, simVars, ioVars, sharedVars, mainVars
  <2> QED
    BY <2>1, <2>2
<1>7. CASE readHandler_eof
  <2>1. TypeOK'
    BY <1>7 DEF TypeOK, readHandler_eof, simVars, ioVars, sharedVars, mainVars
  <2>2. Others'
    BY <1>7 DEF TypeOK, IoInv, MainInv, WakeupExact, QueueOrder, TickNeedsBundle, readHandler_eof, simVars, ioVars, sharedVars, mainVars, isOpen
  <2> QED
    BY <2>1, <2>2
<1>8. CASE readHandler_error
  <2>1. TypeOK'
    BY <1>8 DEF TypeOK, readHandler_error, simVars, ioVars, sharedVars, mainVars
  <2>2. Others'
    BY <1>8 DEF TypeOK, IoInv, MainInv, WakeupExact, QueueOrder, TickNeedsBundle, readHandler_error, simVars, ioVars, sharedVars, mainVars, isOpen
  <2> QED
    BY <2>1, <2>2
<1>9. CASE onMessageReceived
  <2>0. incoming.kind = "ok" => /\ incoming.msgs \in Seq(Messages)
                                /\ socket = "open"
    BY <1>9, BundleTypes DEF TypeOK, IoInv, onMessageReceived, parsePacket, push
  <2>1. TypeOK'
    <3>1. incoming.kind = "ok" => /\ Append(m_incoming, incoming.msgs) \in Seq(Seq(Messages))
                                  /\ Append(received, incoming.msgs) \in Seq(Seq(Messages))
      BY <2>0, AppendTypes DEF TypeOK
    <3> QED
      BY <1>9, <3>1 DEF TypeOK, onMessageReceived, parsePacket, push, simVars, ioVars, sharedVars, mainVars
  <2>2. Others'
    <3>1. CASE incoming.kind = "malformed"
      BY <1>9, <3>1 DEF TypeOK, IoInv, MainInv, WakeupExact, QueueOrder, TickNeedsBundle, onMessageReceived, parsePacket, push, isOpen, simVars, ioVars, sharedVars, mainVars
    <3>2. CASE incoming.kind = "ok"
      <4>1. Append(received, incoming.msgs) = popped \o Append(m_incoming, incoming.msgs)
        <5>1. /\ popped \in Seq(Seq(Messages)) /\ m_incoming \in Seq(Seq(Messages))
              /\ received \in Seq(Seq(Messages)) /\ incoming.msgs \in Seq(Messages)
              /\ received = popped \o m_incoming
          BY <2>0, <3>2 DEF TypeOK, QueueOrder
        <5> QED
          BY <5>1, PushKeepsOrder
      <4>2. /\ m_incoming' = Append(m_incoming, incoming.msgs)
            /\ received' = Append(received, incoming.msgs)
            /\ m_pause' = FALSE
            /\ main \notin {"processing", "replying"}
        BY <1>9, <3>2 DEF onMessageReceived, parsePacket, push, MutexHeldByMain
      <4>3. m_incoming' # << >>
        BY <2>0, <3>2, <4>2 DEF TypeOK
      <4> QED
        BY <1>9, <2>0, <3>2, <4>1, <4>2, <4>3 DEF TypeOK, IoInv, MainInv, WakeupExact, QueueOrder, TickNeedsBundle, onMessageReceived, parsePacket, push, isOpen, simVars, ioVars, sharedVars, mainVars
    <3>3. CASE incoming.kind = "empty"
      <4>1. socket = "closed"
        BY <1>9, <3>3 DEF TypeOK, IoInv, onMessageReceived, parsePacket, push
      <4> QED
        BY <1>9, <3>3, <4>1 DEF TypeOK, IoInv, MainInv, WakeupExact, QueueOrder, TickNeedsBundle, onMessageReceived, parsePacket, push, MutexHeldByMain, isOpen, simVars, ioVars, sharedVars, mainVars
    <3> QED
      BY <1>9, <3>1, <3>2, <3>3 DEF onMessageReceived, parsePacket, push
  <2> QED
    BY <2>1, <2>2
<1>10. CASE async_receive
  <2>1. TypeOK'
    BY <1>10 DEF TypeOK, async_receive, simVars, ioVars, sharedVars, mainVars, isOpen
  <2>2. Others'
    BY <1>10 DEF TypeOK, IoInv, MainInv, WakeupExact, QueueOrder, TickNeedsBundle, async_receive, simVars, ioVars, sharedVars, mainVars, isOpen
  <2> QED
    BY <2>1, <2>2
<1>11. CASE ReceivePacket
  <2>1. TypeOK'
    BY <1>11, SerializationTypes DEF TypeOK, ReceivePacket, makeUnknownJSON, simVars, ioVars, sharedVars, mainVars
  <2>2. Others'
    BY <1>11 DEF TypeOK, IoInv, MainInv, WakeupExact, QueueOrder, TickNeedsBundle, ReceivePacket, simVars, ioVars, sharedVars, mainVars, isOpen
  <2> QED
    BY <2>1, <2>2
<1>12. CASE pause_begin
  <2>1. TypeOK'
    BY <1>12 DEF TypeOK, pause_begin, simVars, ioVars, sharedVars, mainVars
  <2>2. Others'
    BY <1>12 DEF TypeOK, IoInv, MainInv, WakeupExact, QueueOrder, TickNeedsBundle, pause_begin, simVars, ioVars, sharedVars, mainVars, isOpen
  <2> QED
    BY <2>1, <2>2
<1>13. CASE pause_enter
  <2>1. TypeOK'
    BY <1>13 DEF TypeOK, pause_enter, simVars, ioVars, sharedVars, mainVars, isOpen
  <2>2. Others'
    BY <1>13 DEF TypeOK, IoInv, MainInv, WakeupExact, QueueOrder, TickNeedsBundle, pause_enter, simVars, ioVars, sharedVars, mainVars, isOpen
  <2> QED
    BY <2>1, <2>2
<1>14. CASE processIncoming_pop
  <2>1. TypeOK'
    BY <1>14 DEF TypeOK, processIncoming_pop, simVars, ioVars, sharedVars, mainVars
  <2>2. Others'
    <3>1. popped' \o m_incoming' = popped \o m_incoming
      BY <1>14, PopKeepsOrder DEF TypeOK, processIncoming_pop
    <3>2. Len(popped') = Len(popped) + 1
      BY <1>14 DEF TypeOK, processIncoming_pop
    <3>3. QueueOrder'
      BY <1>14, <3>1 DEF QueueOrder, processIncoming_pop, ioVars
    <3>4. TickNeedsBundle'
      BY <1>14, <3>2 DEF TypeOK, TickNeedsBundle, processIncoming_pop
    <3>5. IoInv' /\ MainInv' /\ WakeupExact'
      BY <1>14 DEF IoInv, MainInv, WakeupExact, isOpen, processIncoming_pop, ioVars
    <3> QED
      BY <3>3, <3>4, <3>5
  <2> QED
    BY <2>1, <2>2
<1>15. CASE processIncoming_handle
  <2>1. TypeOK'
    <3>1. conglom' \in Seq(Messages)
      BY <1>15, HeadTailProperties DEF TypeOK, processIncoming_handle
    <3> QED
      BY <1>15, <3>1 DEF TypeOK, processIncoming_handle, simVars, ioVars, sharedVars, mainVars
  <2>2. Others'
    BY <1>15 DEF TypeOK, IoInv, MainInv, WakeupExact, QueueOrder, TickNeedsBundle, processIncoming_handle, isOpen, simVars, ioVars, sharedVars, mainVars
  <2> QED
    BY <2>1, <2>2
<1>16. CASE sendOutgoing
  <2>1. TypeOK'
    <3>1. toSim' \in Seq(Outgoing) /\ m_outgoing' \in Serializations
      BY <1>16, SerializationTypes, AppendTypes DEF TypeOK, sendOutgoing, write, write_throws
    <3> QED
      BY <1>16, <3>1 DEF TypeOK, sendOutgoing, write_throws, simVars, ioVars, sharedVars, mainVars
  <2>2. Others'
    BY <1>16 DEF TypeOK, IoInv, MainInv, WakeupExact, QueueOrder, TickNeedsBundle, sendOutgoing, write_throws, isOpen, simVars, ioVars, sharedVars, mainVars
  <2> QED
    BY <2>1, <2>2
<1>17. CASE sendTickedClient
  <2>1. TypeOK'
    <3>1. toSim' \in Seq(Outgoing)
      BY <1>17, SerializationTypes, AppendTypes DEF TypeOK, sendTickedClient, makeTickedClient, write, write_throws
    <3> QED
      BY <1>17, <3>1 DEF TypeOK, sendTickedClient, write_throws, simVars, ioVars, sharedVars, mainVars
  <2>2. Others'
    BY <1>17 DEF TypeOK, IoInv, MainInv, WakeupExact, QueueOrder, TickNeedsBundle, sendTickedClient, write_throws, isOpen, simVars, ioVars, sharedVars, mainVars
  <2> QED
    BY <2>1, <2>2
<1>18. CASE destroy
  <2>1. TypeOK'
    BY <1>18 DEF TypeOK, destroy, simVars, ioVars, sharedVars, mainVars
  <2>2. Others'
    BY <1>18 DEF TypeOK, IoInv, MainInv, WakeupExact, QueueOrder, TickNeedsBundle, destroy, simVars, ioVars, sharedVars, mainVars, isOpen
  <2> QED
    BY <2>1, <2>2
<1>19. CASE UNCHANGED vars
  <2>1. TypeOK'
    BY <1>19 DEF TypeOK, simVars, ioVars, sharedVars, mainVars, vars
  <2>2. Others'
    BY <1>19 DEF TypeOK, IoInv, MainInv, WakeupExact, QueueOrder, TickNeedsBundle, simVars, ioVars, sharedVars, mainVars, isOpen, vars
  <2> QED
    BY <2>1, <2>2
<1> QED
  BY <1>1, <1>2, <1>3, <1>4, <1>5, <1>6, <1>7, <1>8, <1>9, <1>10, <1>11, <1>12, <1>13, <1>14, <1>15, <1>16, <1>17, <1>18, <1>19 DEF Next, SimStep, IoStep, MainStep, pause_sleep

\* The inductive invariant holds throughout.
THEOREM Invariance == Spec => []IInv
<1>1. Init => IInv
  BY InitIInv
<1>2. IInv /\ [Next]_vars => IInv'
  BY NextIInv
<1> QED
  BY <1>1, <1>2, PTL DEF Spec

-----------------------------------------------------------------------------
(* What follows from it *)

\* Both threads keep every variable in its type, through every fault.
THEOREM TypeCorrect == Spec => []TypeOK
<1>1. IInv => TypeOK
  BY DEF IInv
<1> QED
  BY <1>1, Invariance, PTL

\* No lost and no spurious wake-up: while the socket is open, pause() sleeps
\* between ticks exactly when onMessageReceived has queued nothing.
THEOREM NoLostWakeup == Spec => []WakeupExact
<1>1. IInv => WakeupExact
  BY DEF IInv
<1> QED
  BY <1>1, Invariance, PTL

\* processIncoming takes the conglomerates parsePacket pushed, each once and in
\* the order they were read.
THEOREM ProcessedInOrder == Spec => []QueueOrder
<1>1. IInv => QueueOrder
  BY DEF IInv
<1> QED
  BY <1>1, Invariance, PTL

\* pause() never counts a tick that no bundle from Sim Mobility paid for.
THEOREM EveryTickHasABundle == Spec => []TickNeedsBundle
<1>1. IInv => TickNeedsBundle
  BY DEF IInv
<1> QED
  BY <1>1, Invariance, PTL
=============================================================================
