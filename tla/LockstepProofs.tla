--------------------------- MODULE LockstepProofs ---------------------------
(***************************************************************************)
(* The Broker under a Sim Mobility that ends every bundle with             *)
(* "ticked_simmob" and keeps the stream up (Lockstep): one reply per tick, *)
(* and the refinement of module TickBarrier.  Handlers may still throw and *)
(* packets may reach freed agents: that ends the process, in any state.    *)
(*                                                                         *)
(* A tick travels: it is on the stream, in Connection's buffer, in the     *)
(* queue, being handled, being answered, on its way back.  It is in one of *)
(* these places at a time, or in none while Sim Mobility is not waiting.   *)
(* The inductive invariant says so, and what each place means for the rest.*)
(***************************************************************************)
EXTENDS BrokerProofs

\* Nothing has arrived that is not queued; main is between ticks.
NothingRead == inbound = << >> /\ io \in {"header", "rearm"}
BetweenTicks == main \in {"scheduled", "spinning"}

\* ns-3 has answered every bundle it has read, or all but the last.
Level == m_global_tick = Len(received)
Behind == Len(received) = m_global_tick + 1

Idle ==
    /\ ~simWait /\ toSim = << >>
    /\ NothingRead /\ m_incoming = << >> /\ BetweenTicks /\ Level

OnStream ==
    /\ simWait /\ toSim = << >>
    /\ inbound # << >> /\ Tail(inbound) = << >>
    /\ Head(inbound).kind = "ok" /\ Head(inbound).msgs # << >>
    /\ io \in {"header", "body", "rearm"}
    /\ m_incoming = << >> /\ BetweenTicks /\ Level

InBuffer ==
    /\ simWait /\ toSim = << >>
    /\ inbound = << >> /\ io = "deliver"
    /\ incoming.kind = "ok" /\ incoming.msgs # << >>
    /\ m_incoming = << >> /\ BetweenTicks /\ Level

Queued ==
    /\ simWait /\ toSim = << >>
    /\ NothingRead
    /\ m_incoming # << >> /\ Tail(m_incoming) = << >> /\ Head(m_incoming) # << >>
    /\ main \in {"scheduled", "spinning", "processing"} /\ conglom = << >> /\ Behind

Handling ==
    /\ simWait /\ toSim = << >>
    /\ NothingRead /\ m_incoming = << >>
    /\ main = "processing" /\ Behind
    /\ popped # << >> /\ popped[Len(popped)] # << >>

Answering ==
    /\ simWait
    /\ \A i \in DOMAIN toSim : toSim[i].type = "outgoing"
    /\ NothingRead /\ m_incoming = << >>
    /\ main = "replying" /\ Behind

OnTheWayBack ==
    /\ simWait /\ toSim # << >>
    /\ \A i \in DOMAIN toSim : toSim[i].type = "ticked_client" <=> i = Len(toSim)
    /\ NothingRead /\ m_incoming = << >> /\ BetweenTicks /\ Level

\* The tick is in one place, and nothing ends the stream.
LockInv ==
    /\ peer = "up" /\ socket = "open"
    /\ \/ Idle \/ OnStream \/ InBuffer \/ Queued \/ Handling \/ Answering \/ OnTheWayBack

-----------------------------------------------------------------------------
(* Sequences *)

\* The stream or the queue after one more element, when it was empty.
LEMMA SingletonSeq ==
    ASSUME NEW S, NEW x \in S
    PROVE  /\ Append(<< >>, x) # << >>
           /\ Head(Append(<< >>, x)) = x
           /\ Tail(Append(<< >>, x)) = << >>
OBVIOUS

\* Where the elements of a sequence are after Append.
LEMMA AppendElements ==
    ASSUME NEW S, NEW s \in Seq(S), NEW x \in S
    PROVE  /\ DOMAIN Append(s, x) = 1..(Len(s) + 1) /\ DOMAIN s = 1..Len(s)
           /\ Len(Append(s, x)) = Len(s) + 1 /\ Len(s) \in Nat
           /\ Append(s, x)[Len(s) + 1] = x
           /\ \A i \in 1..Len(s) : Append(s, x)[i] = s[i]
BY AppendProperties

\* What Head and Tail leave of a sequence.
LEMMA TailElements ==
    ASSUME NEW S, NEW s \in Seq(S), s # << >>
    PROVE  /\ Head(s) = s[1] /\ 1 \in DOMAIN s
           /\ Tail(s) = << >> <=> Len(s) = 1
<1>1. Len(s) \in Nat \ {0} /\ Tail(s) \in Seq(S) /\ Len(Tail(s)) = Len(s) - 1
  BY HeadTailProperties, EmptySeq
<1>2. Head(s) = s[1] /\ 1 \in DOMAIN s
  BY <1>1
<1>3. Tail(s) = << >> <=> Len(Tail(s)) = 0
  BY <1>1, EmptySeq
<1> QED
  BY <1>1, <1>2, <1>3

\* A bundle that carries "ticked_simmob" is not empty.
LEMMA TickNotEmpty == ASSUME NEW msgs, HasTick(msgs) PROVE msgs # << >>
BY DEF HasTick

-----------------------------------------------------------------------------
(* The inductive invariant *)

\* When Broker::start returns nobody waits for anything.
LEMMA InitLock == Init => LockInv
BY DEF Init, LockInv, Idle, NothingRead, BetweenTicks, Level, Behind

\* The tick moves from place to place, and is never in two.
LEMMA NextLock == ASSUME Lockstep, IInv, LockInv, [Next]_vars PROVE LockInv'
<1> USE DEF IInv
<1>1. ASSUME NEW b \in SimBundles, SimSend(b) PROVE LockInv'
  <2>1. Idle
    BY <1>1 DEF LockInv, Idle, OnStream, InBuffer, Queued, Handling, Answering, OnTheWayBack, SimSend
  <2>2. b.kind = "ok" /\ b.msgs # << >> /\ HasTick(b.msgs)
    BY <1>1, TickNotEmpty DEF Lockstep
  <2>3. Head(inbound') = b /\ Tail(inbound') = << >> /\ inbound' # << >>
    BY <1>1, <2>1, SingletonSeq DEF SimSend, Idle, NothingRead
  <2>4. OnStream'
    BY <1>1, <2>1, <2>2, <2>3 DEF Idle, OnStream, NothingRead, BetweenTicks, Level, Behind, SimSend, simVars, ioVars, sharedVars, mainVars
  <2> QED
    BY <1>1, <2>4 DEF LockInv, SimSend, simVars, ioVars, sharedVars, mainVars
<1>2. CASE SimReceive
  <2>0. toSim \in Seq(Outgoing)
    BY DEF TypeOK
  <2>1. Answering \/ OnTheWayBack
    BY <1>2 DEF LockInv, Idle, OnStream, InBuffer, Queued, Handling, Answering, OnTheWayBack, SimReceive
  <2>2. CASE Answering
    <3>1. Head(toSim).type = "outgoing"
      BY <1>2, <2>0, <2>2 DEF Answering, SimReceive
    <3>2. \A i \in DOMAIN toSim' : toSim'[i].type = "outgoing"
      BY <1>2, <2>0, <2>2 DEF Answering, SimReceive
    <3>3. Answering'
      BY <1>2, <2>2, <3>1, <3>2 DEF Answering, NothingRead, BetweenTicks, Level, Behind, SimReceive, simVars, ioVars, sharedVars, mainVars
    <3> QED
      BY <1>2, <3>3 DEF LockInv, SimReceive, simVars, ioVars, sharedVars, mainVars
  <2>3. CASE OnTheWayBack /\ Len(toSim) = 1
    <3>1. Head(toSim).type = "ticked_client" /\ Tail(toSim) = << >>
      BY <2>0, <2>3, TailElements DEF OnTheWayBack
    <3>2. Idle'
      BY <1>2, <2>3, <3>1 DEF OnTheWayBack, Idle, NothingRead, BetweenTicks, Level, Behind, SimReceive, simVars, ioVars, sharedVars, mainVars
    <3> QED
      BY <1>2, <3>2 DEF LockInv, SimReceive, simVars, ioVars, sharedVars, mainVars
  <2>4. CASE OnTheWayBack /\ Len(toSim) # 1
    <3>1. Head(toSim).type # "ticked_client" /\ Tail(toSim) # << >>
      BY <2>0, <2>4, TailElements DEF OnTheWayBack
    <3>2. \A i \in DOMAIN toSim' : toSim'[i].type = "ticked_client" <=> i = Len(toSim')
      BY <1>2, <2>0, <2>4 DEF OnTheWayBack, SimReceive
    <3>3. OnTheWayBack'
      BY <1>2, <2>4, <3>1, <3>2 DEF OnTheWayBack, NothingRead, BetweenTicks, Level, Behind, SimReceive, simVars, ioVars, sharedVars, mainVars
    <3> QED
      BY <1>2, <3>3 DEF LockInv, SimReceive, simVars, ioVars, sharedVars, mainVars
  <2> QED
    BY <2>1, <2>2, <2>3, <2>4
<1>3. CASE SimClose \/ SimReset \/ readHandler_eof \/ readHandler_error \/ destroy
  BY <1>3 DEF Lockstep, LockInv, Idle, OnStream, InBuffer, Queued, Handling, Answering, OnTheWayBack, BetweenTicks,
              SimClose, SimReset, readHandler_eof, readHandler_error, destroy
<1>4. CASE handle_read_header
  <2>1. OnStream
    BY <1>4 DEF LockInv, Idle, OnStream, InBuffer, Queued, Handling, Answering, OnTheWayBack, NothingRead, handle_read_header
  <2>2. OnStream'
    BY <1>4, <2>1 DEF OnStream, NothingRead, BetweenTicks, Level, Behind, handle_read_header, simVars, ioVars, sharedVars, mainVars
  <2> QED
    BY <1>4, <2>2 DEF LockInv, handle_read_header, simVars, ioVars, sharedVars, mainVars
<1>5. CASE handle_read_data
  <2>1. OnStream
    BY <1>5 DEF LockInv, Idle, OnStream, InBuffer, Queued, Handling, Answering, OnTheWayBack, NothingRead, handle_read_data
  <2>2. InBuffer'
    BY <1>5, <2>1 DEF OnStream, InBuffer, NothingRead, BetweenTicks, Level, Behind, handle_read_data, simVars, ioVars, sharedVars, mainVars
  <2> QED
    BY <1>5, <2>2 DEF LockInv, handle_read_data, simVars, ioVars, sharedVars, mainVars
<1>6. CASE onMessageReceived
  <2>1. InBuffer
    BY <1>6 DEF LockInv, Idle, OnStream, InBuffer, Queued, Handling, Answering, OnTheWayBack, NothingRead, onMessageReceived
  <2>2. /\ io' = "rearm"
        /\ m_incoming' = Append(<< >>, incoming.msgs)
        /\ received' = Append(received, incoming.msgs)
    BY <1>6, <2>1 DEF InBuffer, onMessageReceived, parsePacket, push
  <2>3. incoming.msgs \in Seq(Messages)
    BY <2>1, BundleTypes DEF InBuffer, TypeOK
  <2>4. /\ m_incoming' # << >> /\ Head(m_incoming') = incoming.msgs
        /\ Tail(m_incoming') = << >> /\ Len(received') = Len(received) + 1
    BY <2>2, <2>3, SingletonSeq, AppendTypes DEF TypeOK
  <2>5. Queued'
    BY <1>6, <2>1, <2>2, <2>4 DEF InBuffer, Queued, NothingRead, BetweenTicks, Level, Behind, MainInv, onMessageReceived, simVars, ioVars, sharedVars, mainVars
  <2> QED
    BY <1>6, <2>5 DEF LockInv, onMessageReceived, simVars, ioVars, sharedVars, mainVars
<1>7. CASE async_receive
  BY <1>7 DEF LockInv, isOpen, Idle, OnStream, InBuffer, Queued, Handling, Answering, OnTheWayBack, NothingRead, BetweenTicks, Level, Behind, async_receive, simVars, ioVars, sharedVars, mainVars
<1>8. CASE ReceivePacket \/ pause_begin
  BY <1>8 DEF LockInv, Idle, OnStream, InBuffer, Queued, Handling, Answering, OnTheWayBack, NothingRead, BetweenTicks, Level, Behind, ReceivePacket, pause_begin, simVars, ioVars, sharedVars, mainVars
<1>9. CASE pause_enter
  <2>1. Queued
    BY <1>9 DEF LockInv, WakeupExact, isOpen, Idle, OnStream, InBuffer, Queued, Handling, Answering, OnTheWayBack, pause_enter
  <2>2. Queued'
    BY <1>9, <2>1 DEF LockInv, isOpen, Queued, NothingRead, BetweenTicks, Level, Behind, pause_enter, simVars, ioVars, sharedVars, mainVars
  <2> QED
    BY <1>9, <2>2 DEF LockInv, pause_enter, simVars, ioVars, sharedVars, mainVars
<1>10. CASE processIncoming_pop
  <2>1. Queued
    BY <1>10 DEF LockInv, Idle, OnStream, InBuffer, Queued, Handling, Answering, OnTheWayBack, processIncoming_pop
  <2>2. popped' # << >> /\ popped'[Len(popped')] = Head(m_incoming)
    <3>1. /\ popped \in Seq(Seq(Messages)) /\ Head(m_incoming) \in Seq(Messages)
          /\ popped' = Append(popped, Head(m_incoming))
      BY <1>10, <2>1 DEF TypeOK, Queued, processIncoming_pop
    <3> QED
      BY <3>1, AppendTypes, AppendElements
  <2>3. Handling'
    BY <1>10, <2>1, <2>2 DEF Queued, Handling, NothingRead, BetweenTicks, Level, Behind, processIncoming_pop, simVars, ioVars, sharedVars, mainVars
  <2> QED
    BY <1>10, <2>3 DEF LockInv, processIncoming_pop, simVars, ioVars, sharedVars, mainVars
<1>11. CASE processIncoming_handle
  <2>1. Handling
    BY <1>11 DEF LockInv, Idle, OnStream, InBuffer, Queued, Handling, Answering, OnTheWayBack, BetweenTicks, processIncoming_handle
  <2>2. Handling'
    BY <1>11, <2>1 DEF Handling, NothingRead, BetweenTicks, Level, Behind, processIncoming_handle, simVars, ioVars, sharedVars, mainVars
  <2> QED
    BY <1>11, <2>2 DEF LockInv, processIncoming_handle, simVars, ioVars, sharedVars, mainVars
<1>12. CASE sendOutgoing
  <2>1. Handling
    BY <1>12 DEF LockInv, Idle, OnStream, InBuffer, Queued, Handling, Answering, OnTheWayBack, BetweenTicks, sendOutgoing
  <2>2. /\ main' = "replying"
        /\ toSim' = Append(<< >>, serialize_end("outgoing", m_outgoing))
    BY <1>12, <2>1 DEF LockInv, Handling, isOpen, sendOutgoing, write, write_throws
  <2>3. \A i \in DOMAIN toSim' : toSim'[i].type = "outgoing"
    BY <2>2, SerializationTypes DEF TypeOK, serialize_end
  <2>4. Answering'
    BY <1>12, <2>1, <2>2, <2>3 DEF Handling, Answering, NothingRead, BetweenTicks, Level, Behind, sendOutgoing, simVars, ioVars, sharedVars, mainVars
  <2> QED
    BY <1>12, <2>4 DEF LockInv, sendOutgoing, simVars, ioVars, sharedVars, mainVars
<1>13. CASE sendTickedClient
  <2> DEFINE reply == serialize_end("ticked_client", makeTickedClient(serialize_begin(NewSerialization)))
  <2>1. Answering
    BY <1>13 DEF LockInv, Idle, OnStream, InBuffer, Queued, Handling, Answering, OnTheWayBack, BetweenTicks, sendTickedClient
  <2>2. /\ main' = "scheduled" /\ m_global_tick' = m_global_tick + 1
        /\ toSim' = Append(toSim, reply)
    BY <1>13 DEF LockInv, isOpen, sendTickedClient, write, write_throws
  <2>3. reply \in Outgoing /\ reply.type = "ticked_client"
    BY SerializationTypes DEF serialize_end, makeTickedClient
  <2> HIDE DEF reply
  <2>4. /\ toSim' # << >>
        /\ \A i \in DOMAIN toSim' : toSim'[i].type = "ticked_client" <=> i = Len(toSim')
    <3>1. toSim \in Seq(Outgoing) /\ \A i \in DOMAIN toSim : toSim[i].type = "outgoing"
      BY <2>1 DEF TypeOK, Answering
    <3> QED
      BY <2>2, <2>3, <3>1, AppendTypes, AppendElements
  <2>5. OnTheWayBack'
    BY <1>13, <2>1, <2>2, <2>4 DEF Answering, OnTheWayBack, NothingRead, BetweenTicks, Level, Behind, sendTickedClient, simVars, ioVars, sharedVars, mainVars
  <2> QED
    BY <1>13, <2>5 DEF LockInv, sendTickedClient, simVars, ioVars, sharedVars, mainVars
<1>14. CASE UNCHANGED vars
  BY <1>14 DEF LockInv, Idle, OnStream, InBuffer, Queued, Handling, Answering, OnTheWayBack, NothingRead, BetweenTicks, Level, Behind, simVars, ioVars, sharedVars, mainVars, vars
<1> QED
  BY <1>1, <1>2, <1>3, <1>4, <1>5, <1>6, <1>7, <1>8, <1>9, <1>10, <1>11, <1>12, <1>13, <1>14
     DEF Next, SimStep, IoStep, MainStep, pause_sleep

\* In lockstep a tick is in one place at a time.
THEOREM LockInvariance == Lockstep => (Spec => [](IInv /\ LockInv))
<1> SUFFICES ASSUME Lockstep PROVE Spec => [](IInv /\ LockInv)
  OBVIOUS
<1>1. Init => LockInv
  BY InitLock
<1>2. IInv /\ LockInv /\ [Next]_vars => LockInv'
  BY NextLock
<1> QED
  BY <1>1, <1>2, Invariance, PTL DEF Spec

-----------------------------------------------------------------------------
(* One reply per tick *)

\* In lockstep ns-3 never answers a tick it has not been given, never leaves one
\* unanswered when it starts the next, and is level when pause() goes to sleep.
THEOREM RepliesMatchTicks == Lockstep => (Spec => []OneReplyPerTick)
<1> SUFFICES ASSUME Lockstep PROVE Spec => []OneReplyPerTick
  OBVIOUS
<1>1. IInv /\ LockInv => OneReplyPerTick
  <2> SUFFICES ASSUME IInv, LockInv PROVE OneReplyPerTick
    OBVIOUS
  <2>1. Level \/ Behind
    BY DEF LockInv, Idle, OnStream, InBuffer, Queued, Handling, Answering, OnTheWayBack
  <2>2. main = "spinning" /\ m_pause => Level
    <3>1. main = "spinning" /\ m_pause => m_incoming = << >>
      BY DEF IInv, WakeupExact, LockInv, isOpen
    <3> QED
      BY <3>1 DEF LockInv, Idle, OnStream, InBuffer, Queued, Handling, Answering, OnTheWayBack
  <2>3. m_global_tick \in Nat /\ Len(received) \in Nat
    BY DEF IInv, TypeOK
  <2> QED
    BY <2>1, <2>2, <2>3 DEF OneReplyPerTick, Level, Behind
<1> QED
  BY <1>1, LockInvariance, PTL

-----------------------------------------------------------------------------
(* The refinement of TickBarrier *)

\* What the barrier's task and history are while the tick is in each place.
TaskByPlace ==
    /\ Idle \/ Answering \/ OnTheWayBack => Announced = << >> /\ Completed = popped
    /\ OnStream => Announced = Head(inbound).msgs /\ Completed = popped
    /\ InBuffer => Announced = incoming.msgs /\ Completed = popped
    /\ Queued => Announced = Head(m_incoming) /\ Completed = popped
    /\ Handling /\ conglom = << >> => Announced = << >> /\ Completed = popped
    /\ Handling /\ conglom # << >> => /\ Announced = popped[Len(popped)]
                                      /\ Completed = SubSeq(popped, 1, Len(popped) - 1)

\* The refinement mapping, place by place, in every state that satisfies both
\* invariants ...
LEMMA TaskNow == IInv /\ LockInv => TaskByPlace
BY DEF TaskByPlace, IInv, MainInv, LockInv, Idle, OnStream, InBuffer, Queued, Handling, Answering, OnTheWayBack,
       NothingRead, BetweenTicks, Announced, Completed

\* ... and so in the state a step leads to.
LEMMA TaskNext == IInv' /\ LockInv' => TaskByPlace'
BY TaskNow, PTL

\* A conglomerate handled to its end joins those before it.
LEMMA FrontAndLast ==
    ASSUME NEW S, NEW s \in Seq(S), s # << >>
    PROVE  Append(SubSeq(s, 1, Len(s) - 1), s[Len(s)]) = s
BY SMTT(30)

\* A conglomerate just popped is not among those handled.
LEMMA FrontOfAppend ==
    ASSUME NEW S, NEW s \in Seq(S), NEW x \in S
    PROVE  SubSeq(Append(s, x), 1, Len(Append(s, x)) - 1) = s
BY SMTT(30)

\* SimSend announces a tick, the handler of its last message completes the work,
\* SimReceive of "ticked_client" is the answer; every other step is a stutter.
LEMMA NextBarrier ==
    ASSUME Lockstep, IInv, LockInv, IInv', LockInv', [Next]_vars
    PROVE  [Barrier!Next]_(Barrier!vars)
<1> USE DEF Barrier!vars
<1>0. TaskByPlace /\ TaskByPlace'
  BY TaskNow, TaskNext
<1>1. ASSUME NEW b \in SimBundles, SimSend(b) PROVE Barrier!Announce(b.msgs)
  <2>1. Idle /\ simWait'
    BY <1>1 DEF Lockstep, LockInv, Idle, OnStream, InBuffer, Queued, Handling, Answering, OnTheWayBack, SimSend
  <2>2. inbound' = Append(<< >>, b) /\ inbound' # << >> /\ Head(inbound') = b
    BY <1>1, <2>1, SingletonSeq DEF SimSend, Idle, NothingRead
  <2>3. OnStream'
    BY <2>1, <2>2 DEF LockInv, Idle, OnStream, InBuffer, Queued, Handling, Answering, OnTheWayBack, NothingRead
  <2> QED
    BY <1>0, <1>1, <2>1, <2>2, <2>3 DEF Barrier!Announce, TaskByPlace, OnStream, SimSend, mainVars
<1>2. CASE SimReceive
  <2>1. Answering \/ OnTheWayBack
    BY <1>2 DEF LockInv, Idle, OnStream, InBuffer, Queued, Handling, Answering, OnTheWayBack, SimReceive
  <2>2. /\ Announced = << >> /\ Completed = popped
        /\ simWait /\ popped' = popped
    BY <1>0, <1>2, <2>1 DEF TaskByPlace, Answering, OnTheWayBack, SimReceive, mainVars
  <2>3. Idle' \/ Answering' \/ OnTheWayBack'
    BY <1>2, <2>1 DEF LockInv, Idle, OnStream, InBuffer, Queued, Handling, Answering, OnTheWayBack, NothingRead, BetweenTicks, Level, Behind, SimReceive, simVars, ioVars, sharedVars, mainVars
  <2>4. Announced' = << >> /\ Completed' = popped'
    BY <1>0, <2>3 DEF TaskByPlace
  <2>5. simWait' \in BOOLEAN
    BY DEF IInv, TypeOK
  <2> QED
    BY <2>2, <2>4, <2>5 DEF Barrier!Next, Barrier!Answer
<1>3. CASE SimClose \/ SimReset \/ readHandler_eof \/ readHandler_error \/ destroy
  BY <1>3 DEF Lockstep, LockInv, Idle, OnStream, InBuffer, Queued, Handling, Answering, OnTheWayBack, BetweenTicks,
              SimClose, SimReset, readHandler_eof, readHandler_error, destroy
<1>4. CASE handle_read_data
  <2>1. OnStream /\ InBuffer'
    BY <1>4 DEF LockInv, Idle, OnStream, InBuffer, Queued, Handling, Answering, OnTheWayBack, NothingRead, handle_read_data
  <2> QED
    BY <1>0, <1>4, <2>1 DEF TaskByPlace, handle_read_data, simVars, ioVars, sharedVars, mainVars
<1>5. CASE onMessageReceived
  <2>1. InBuffer
    BY <1>5 DEF LockInv, Idle, OnStream, InBuffer, Queued, Handling, Answering, OnTheWayBack, NothingRead, onMessageReceived
  <2>2. m_incoming' = Append(<< >>, incoming.msgs)
    BY <1>5, <2>1 DEF InBuffer, onMessageReceived, parsePacket, push
  <2>3. m_incoming' # << >> /\ Head(m_incoming') = incoming.msgs
    BY <2>2, SingletonSeq
  <2>4. Queued'
    BY <2>3 DEF LockInv, Idle, OnStream, InBuffer, Queued, Handling, Answering, OnTheWayBack
  <2> QED
    BY <1>0, <1>5, <2>1, <2>3, <2>4 DEF TaskByPlace, onMessageReceived, simVars, ioVars, sharedVars, mainVars
<1>6. CASE \/ handle_read_header \/ async_receive \/ ReceivePacket
           \/ pause_begin \/ pause_enter
  <2>1. /\ UNCHANGED <<simWait, inbound, m_incoming, conglom, popped>>
        /\ UNCHANGED <<io, incoming>> \/ (io # "deliver" /\ io' # "deliver")
    BY <1>6 DEF handle_read_header, async_receive, ReceivePacket, pause_begin, pause_enter,
                simVars, ioVars, sharedVars, mainVars
  <2> QED
    BY <2>1 DEF Announced, Completed
<1>7. CASE processIncoming_pop
  <2>1. Queued
    BY <1>7 DEF LockInv, Idle, OnStream, InBuffer, Queued, Handling, Answering, OnTheWayBack, processIncoming_pop
  <2>2. /\ popped' = Append(popped, Head(m_incoming)) /\ conglom' = Head(m_incoming)
        /\ popped \in Seq(Seq(Messages)) /\ Head(m_incoming) \in Seq(Messages)
    BY <1>7 DEF IInv, TypeOK, processIncoming_pop
  <2>3. Handling' /\ conglom' # << >>
    BY <1>7, <2>1, <2>2 DEF LockInv, Idle, OnStream, InBuffer, Queued, Handling, Answering, OnTheWayBack, NothingRead, BetweenTicks, Level, Behind, processIncoming_pop, simVars, ioVars, sharedVars, mainVars
  <2>4. popped'[Len(popped')] = Head(m_incoming) /\ SubSeq(popped', 1, Len(popped') - 1) = popped
    BY <2>2, AppendElements, FrontOfAppend
  <2> QED
    BY <1>0, <1>7, <2>1, <2>3, <2>4 DEF TaskByPlace, processIncoming_pop, simVars, ioVars, sharedVars, mainVars
<1>8. CASE processIncoming_handle
  <2>0. Handling
    BY <1>8 DEF LockInv, Idle, OnStream, InBuffer, Queued, Handling, Answering, OnTheWayBack,
                BetweenTicks, processIncoming_handle
  <2>1. Handling /\ Handling' /\ UNCHANGED <<popped, simWait>>
    BY <1>8, <2>0 DEF Handling, NothingRead, Behind, processIncoming_handle,
                      simVars, ioVars, sharedVars
  <2>2. conglom # << >>
    BY <1>8 DEF processIncoming_handle
  <2>3. CASE conglom' = << >>
    <3>1. Append(Completed, Announced) = popped
      <4>1. popped \in Seq(Seq(Messages)) /\ popped # << >>
        BY <2>1 DEF IInv, TypeOK, Handling
      <4> QED
        BY <1>0, <2>1, <2>2, <4>1, FrontAndLast DEF TaskByPlace
    <3>2. Announced # << >>
      BY <1>0, <2>1, <2>2 DEF TaskByPlace, Handling
    <3> QED
      BY <1>0, <2>1, <2>3, <3>1, <3>2 DEF TaskByPlace, Barrier!Next, Barrier!Work
  <2>4. CASE conglom' # << >>
    BY <1>0, <2>1, <2>2, <2>4 DEF TaskByPlace
  <2> QED
    BY <2>3, <2>4
<1>9. CASE sendOutgoing \/ sendTickedClient
  <2>1. UNCHANGED <<simWait, inbound, io, incoming, m_incoming, conglom, popped>>
    BY <1>9 DEF sendOutgoing, sendTickedClient, simVars, ioVars, sharedVars
  <2> QED
    BY <2>1 DEF Announced, Completed
<1>10. CASE UNCHANGED vars
  BY <1>10 DEF Announced, Completed, vars, simVars, ioVars, sharedVars, mainVars
<1> QED
  BY <1>1, <1>2, <1>3, <1>4, <1>5, <1>6, <1>7, <1>8, <1>9, <1>10
     DEF Next, SimStep, IoStep, MainStep, pause_sleep, Barrier!Next

\* In lockstep the Broker implements the barrier: every message of a tick is
\* handled, once and in its tick, between Sim Mobility's announcement and the
\* answer it gets, whatever the two threads do in between.
THEOREM BrokerIsABarrier == Lockstep => (Spec => ImplementsBarrier)
<1> SUFFICES ASSUME Lockstep PROVE Spec => ImplementsBarrier
  OBVIOUS
<1>1. Init => Barrier!Init
  BY DEF Init, Barrier!Init, Announced, Completed
<1>2. /\ IInv /\ LockInv /\ [Next]_vars /\ IInv' /\ LockInv'
      => [Barrier!Next]_(Barrier!vars)
  BY NextBarrier
<1> QED
  BY <1>1, <1>2, LockInvariance, PTL DEF Spec, ImplementsBarrier, Barrier!Spec
=============================================================================
