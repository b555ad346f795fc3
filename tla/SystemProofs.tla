---------------------------- MODULE SystemProofs ----------------------------
(***************************************************************************)
(* The whole system: a run of it is a run of the Broker and a run of the   *)
(* agents, so what is proved of each part holds of the two together; and,  *)
(* in lockstep, what only the whole can have: when Sim Mobility goes on,   *)
(* ns-3's agents are where it has put them (InStep).                       *)
(***************************************************************************)
EXTENDS System, LockstepProofs, OrderingProofs

AP == INSTANCE AgentsProofs

Views == [Ids -> Positions \cup {Absent}]

\* The messages of the current tick that no handler has had yet.
Remaining ==
    CASE inbound # << >>    -> Head(inbound).msgs
      [] io = "deliver"     -> incoming.msgs
      [] m_incoming # << >> -> Head(m_incoming)
      [] OTHER              -> conglom

\* The agents are as v says: what InStep asks of view.
Matches(v) ==
    \A id \in Ids :
        IF v[id] = Absent
        THEN id \notin A!Live(AllAgents)
        ELSE /\ id \in DOMAIN AllAgents
             /\ AllAgents[id] = A!Null \/ pos[<<id, AllAgents[id]>>] = v[id]

\* The remaining messages lead from where the agents are to where Sim Mobility
\* thinks they are.
ViewInv ==
    /\ view \in Views
    /\ aborted = "no" => \E v \in Views : Matches(v) /\ SeenAll(v, Remaining) = view

-----------------------------------------------------------------------------
(* The parts *)

\* The assumptions of the agents' module are among the system's.
LEMMA AgentsAssumption == AP!AgentsConstants
BY SystemConstants DEF A!IsFiniteSet, AP!IsFiniteSet

\* The system's steps, by what the agents do in them.
LEMMA StepKinds ==
    ASSUME [SysNext]_sysVars
    PROVE  \/ SysHandle \/ SysReceivePacket \/ SysLose
           \/ UNCHANGED agentVars
BY DEF SysNext, SysSimSend, SysSimReceive, SysIoStep, SysMainStep, sysVars

\* Every step of the system is a step of the Broker, or none.
LEMMA StepOfBroker == [SysNext]_sysVars => [Next]_vars
BY DEF SysNext, SysSimSend, SysSimReceive, SysIoStep, SysMainStep, SysHandle, SysReceivePacket, SysLose,
       Alone, sysVars, Next, SimStep, MainStep

\* A handler is called with what its message says: ids, positions, payloads.
LEMMA HandlerArguments ==
    ASSUME NEW m \in Messages, handle(m)
    PROVE  \/ A!HandleBadMessage
           \/ \E add, rem \in SUBSET Ids : A!HandleNewAgents(add, rem)
           \/ \E ids \in SUBSET Ids : \E locs \in [ids -> Positions] : A!HandleAllLocations(locs)
           \/ \E from \in Ids, toIds \in SUBSET Ids, d \in Data : A!HandleOpaqueSend(from, toIds, d)
           \/ UNCHANGED agentVars
BY SystemConstants DEF handle

\* Every step of the system is a step of the agents, or none.
LEMMA StepOfAgents == IInv /\ [SysNext]_sysVars => [A!Next]_(A!vars)
<1> SUFFICES ASSUME IInv, [SysNext]_sysVars PROVE [A!Next]_(A!vars)
  OBVIOUS
<1>1. CASE SysHandle
  <2>1. Head(conglom) \in Messages /\ handle(Head(conglom))
    BY <1>1 DEF IInv, TypeOK, SysHandle, processIncoming_handle
  <2> QED
    BY <2>1, HandlerArguments DEF A!Next, A!vars, A!network, agentVars
<1>2. CASE SysReceivePacket \/ SysLose
  BY <1>2 DEF SysReceivePacket, SysLose, A!Next
<1>3. CASE UNCHANGED agentVars
  BY <1>3 DEF agentVars, A!vars, A!network
<1> QED
  BY <1>1, <1>2, <1>3, StepKinds

\* A run of the system is a run of the Broker: BrokerProofs and LockstepProofs
\* speak of it.
THEOREM SystemRunsBroker == SysSpec => Spec
BY StepOfBroker, PTL DEF SysSpec, SysInit, Spec

\* A run of the system is a run of the agents: AgentsProofs speaks of it.
THEOREM SystemRunsAgents == SysSpec => A!Spec
<1>1. SysInit => A!Init
  BY DEF SysInit
<1>2. SysSpec => []IInv
  BY SystemRunsBroker, Invariance, PTL
<1> QED
  BY <1>1, <1>2, StepOfAgents, PTL DEF SysSpec, A!Spec

\* AgentsProofs speaks of its own copy of the agents' module; the two are one.
LEMMA SameModule ==
    /\ A!Init => AP!Init
    /\ [A!Next]_(A!vars) => [AP!Next]_(AP!vars)
<1> USE DEF A!Null, AP!Null, A!NoAddress, AP!NoAddress, A!Objects, AP!Objects,
            A!network, AP!network, A!Crash, AP!Crash
<1>1. A!Init => AP!Init
  BY DEF A!Init, AP!Init, A!BaseIP, AP!BaseIP, A!Rank, AP!Rank, A!Cardinality, AP!Cardinality,
         A!IsFiniteSet, AP!IsFiniteSet
<1>2. ASSUME NEW add, NEW rem, A!HandleNewAgents(add, rem) PROVE AP!HandleNewAgents(add, rem)
  BY <1>2 DEF A!HandleNewAgents, AP!HandleNewAgents, A!AddAgents, AP!AddAgents,
              A!RemoveAgents, AP!RemoveAgents, A!Restrict, AP!Restrict, A!Live, AP!Live,
              A!init, AP!init, A!Install, AP!Install, A!Rank, AP!Rank,
              A!Cardinality, AP!Cardinality, A!IsFiniteSet, AP!IsFiniteSet
<1>3. ASSUME NEW locs, A!HandleAllLocations(locs) PROVE AP!HandleAllLocations(locs)
  BY <1>3 DEF A!HandleAllLocations, AP!HandleAllLocations, A!Skipped, AP!Skipped,
              A!Networked, AP!Networked, A!SetPosition, AP!SetPosition
<1>4. ASSUME NEW from, NEW toIds, NEW d, A!HandleOpaqueSend(from, toIds, d)
      PROVE  AP!HandleOpaqueSend(from, toIds, d)
  BY <1>4 DEF A!HandleOpaqueSend, AP!HandleOpaqueSend, A!GetAgents, AP!GetAgents,
              A!Recipients, AP!Recipients, A!SendTo, AP!SendTo, A!Networked, AP!Networked,
              A!Cardinality, AP!Cardinality, A!IsFiniteSet, AP!IsFiniteSet
<1>5. ASSUME NEW p, A!ReceivePacket(p) PROVE AP!ReceivePacket(p)
  BY <1>5 DEF A!ReceivePacket, AP!ReceivePacket, A!Bound, AP!Bound, A!Forwarded, AP!Forwarded,
              A!Payload, AP!Payload, A!CopiedKeys, AP!CopiedKeys
<1>6. ASSUME NEW p, A!Lose(p) PROVE AP!Lose(p)
  BY <1>6 DEF A!Lose, AP!Lose
<1>7. A!HandleBadMessage => AP!HandleBadMessage
  BY DEF A!HandleBadMessage, AP!HandleBadMessage
<1>8. UNCHANGED A!vars => UNCHANGED AP!vars
  BY DEF A!vars, AP!vars
<1>9. A!Next => AP!Next
  BY <1>2, <1>3, <1>4, <1>5, <1>6, <1>7 DEF A!Next, AP!Next
<1> QED
  BY <1>1, <1>8, <1>9

\* The agents' inductive invariant holds in the system.
LEMMA AgentsInvariance == SysSpec => []AP!IInv
<1>1. A!Spec => AP!Spec
  BY SameModule, PTL DEF A!Spec, AP!Spec
<1>2. AP!Spec => []AP!IInv
  BY AgentsAssumption, AP!Invariance
<1> QED
  BY <1>1, <1>2, SystemRunsAgents, PTL

-----------------------------------------------------------------------------
(* What a sequence of messages tells of the agents *)

\* after is the function SeenAll builds: the view after each message.
Chain(after, v, msgs) ==
    after = [i \in 0..Len(msgs) |-> IF i = 0 THEN v ELSE Seen(after[i - 1], msgs[i])]

\* There is such a function ...
LEMMA ChainExists ==
    ASSUME NEW v, NEW msgs \in Seq(Messages)
    PROVE  \E after : Chain(after, v, msgs)
<1> DEFINE UpTo(n) == \E f : f = [i \in 0..n |-> IF i = 0 THEN v ELSE Seen(f[i - 1], msgs[i])]
           S == {n \in Nat : UpTo(n)}
<1>1. 0 \in S
  <2> DEFINE f == [i \in 0..0 |-> v]
  <2>1. f = [i \in 0..0 |-> IF i = 0 THEN v ELSE Seen(f[i - 1], msgs[i])]
    OBVIOUS
  <2> QED
    BY <2>1
<1>2. ASSUME NEW n \in Nat, n \in S PROVE n + 1 \in S
  <2>1. PICK f : f = [i \in 0..n |-> IF i = 0 THEN v ELSE Seen(f[i - 1], msgs[i])]
    BY <1>2
  <2> DEFINE g == [i \in 0..(n + 1) |-> IF i = n + 1 THEN Seen(f[n], msgs[n + 1]) ELSE f[i]]
  <2>2. \A i \in 0..n : g[i] = f[i]
    OBVIOUS
  <2>3. ASSUME NEW i \in 0..(n + 1)
        PROVE  g[i] = IF i = 0 THEN v ELSE Seen(g[i - 1], msgs[i])
    <3>1. CASE i = n + 1
      BY <2>2, <3>1
    <3>2. CASE i \in 0..n
      <4>1. f[i] = IF i = 0 THEN v ELSE Seen(f[i - 1], msgs[i])
        BY <2>1, <3>2
      <4> QED
        BY <2>2, <3>2, <4>1
    <3> QED
      BY <3>1, <3>2
  <2>4. g = [i \in 0..(n + 1) |-> IF i = 0 THEN v ELSE Seen(g[i - 1], msgs[i])]
    BY <2>3
  <2>5. UpTo(n + 1)
    BY <2>4
  <2>6. n + 1 \in Nat
    OBVIOUS
  <2> HIDE DEF UpTo
  <2> QED
    BY <2>5, <2>6
<1> HIDE DEF S
<1>3. Nat \subseteq S
  BY <1>1, <1>2, SetInduction
<1>4. Len(msgs) \in S
  BY <1>3
<1> QED
  BY <1>4 DEF S, Chain

\* ... and only one.
LEMMA ChainUnique ==
    ASSUME NEW v, NEW msgs \in Seq(Messages), NEW f, NEW g, Chain(f, v, msgs), Chain(g, v, msgs)
    PROVE  f = g
<1> DEFINE S == {n \in Nat : n <= Len(msgs) => f[n] = g[n]}
<1>0. /\ \A i \in 0..Len(msgs) : f[i] = IF i = 0 THEN v ELSE Seen(f[i - 1], msgs[i])
      /\ \A i \in 0..Len(msgs) : g[i] = IF i = 0 THEN v ELSE Seen(g[i - 1], msgs[i])
  BY DEF Chain
<1>1. 0 \in S
  BY <1>0
<1>2. ASSUME NEW n \in Nat, n \in S PROVE n + 1 \in S
  BY <1>0, <1>2
<1> HIDE DEF S
<1>3. Nat \subseteq S
  BY <1>1, <1>2, SetInduction
<1>4. \A i \in 0..Len(msgs) : f[i] = g[i]
  BY <1>3 DEF S
<1> QED
  BY <1>4 DEF Chain

\* So SeenAll is the last view of the chain.
LEMMA SeenAllChain ==
    ASSUME NEW v, NEW msgs \in Seq(Messages), NEW f, Chain(f, v, msgs)
    PROVE  SeenAll(v, msgs) = f[Len(msgs)]
<1> DEFINE c == CHOOSE after : Chain(after, v, msgs)
<1>1. Chain(c, v, msgs)
  BY Zenon
<1>2. SeenAll(v, msgs) = c[Len(msgs)]
  BY DEF SeenAll, Chain
<1> HIDE DEF c
<1>3. c = f
  BY <1>1, ChainUnique
<1> QED
  BY <1>2, <1>3

\* No message, no news.
LEMMA SeenAllEmpty == ASSUME NEW v PROVE SeenAll(v, << >>) = v
<1>1. << >> \in Seq(Messages) /\ Len(<< >>) = 0
  OBVIOUS
<1>2. PICK f : Chain(f, v, << >>)
  BY <1>1, ChainExists
<1>3. f[0] = v
  BY <1>1, <1>2 DEF Chain
<1> QED
  BY <1>1, <1>2, <1>3, SeenAllChain

\* What the messages tell is what the first one tells and then the others.
LEMMA SeenAllStep ==
    ASSUME NEW v, NEW msgs \in Seq(Messages), msgs # << >>
    PROVE  SeenAll(v, msgs) = SeenAll(Seen(v, Head(msgs)), Tail(msgs))
<1>1. PICK f : Chain(f, v, msgs)
  BY ChainExists
<1> DEFINE n == Len(msgs)
           g == [i \in 0..(n - 1) |-> f[i + 1]]
<1>2. /\ n \in Nat \ {0} /\ Tail(msgs) \in Seq(Messages) /\ Len(Tail(msgs)) = n - 1
      /\ \A i \in 1..(n - 1) : Tail(msgs)[i] = msgs[i + 1]
      /\ Head(msgs) = msgs[1]
  BY HeadTailProperties, EmptySeq
<1>3. \A i \in 0..n : f[i] = IF i = 0 THEN v ELSE Seen(f[i - 1], msgs[i])
  BY <1>1 DEF Chain
<1>4. ASSUME NEW i \in 0..(n - 1)
      PROVE  g[i] = IF i = 0 THEN Seen(v, Head(msgs)) ELSE Seen(g[i - 1], Tail(msgs)[i])
  <2>1. f[i + 1] = Seen(f[i], msgs[i + 1])
    BY <1>2, <1>3
  <2>2. CASE i = 0
    BY <1>2, <1>3, <2>1, <2>2
  <2>3. CASE i # 0
    BY <1>2, <2>1, <2>3
  <2> QED
    BY <2>2, <2>3
<1>5. Chain(g, Seen(v, Head(msgs)), Tail(msgs))
  BY <1>2, <1>4 DEF Chain
<1>6. g[n - 1] = f[n]
  BY <1>2
<1> HIDE DEF g
<1>7. SeenAll(Seen(v, Head(msgs)), Tail(msgs)) = g[n - 1]
  BY <1>2, <1>5, SeenAllChain
<1> QED
  BY <1>1, <1>6, <1>7, SeenAllChain

\* A message leaves every agent somewhere or absent.
LEMMA SeenType ==
    ASSUME NEW v \in Views, NEW m \in Messages
    PROVE  Seen(v, m) \in Views
<1>1. Origin \in Positions
  BY SystemConstants
<1>2. CASE m.type = "new_agents" /\ Parses(m)
  BY <1>1, <1>2 DEF Seen, Views
<1>3. CASE m.type = "all_locations" /\ Parses(m)
  <2>1. PICK ids \in SUBSET Ids : m.locations \in [ids -> Positions]
    BY <1>3, SystemConstants
  <2> QED
    BY <1>3, <2>1 DEF Seen, Views
<1>4. CASE ~(m.type = "new_agents" /\ Parses(m)) /\ ~(m.type = "all_locations" /\ Parses(m))
  BY <1>4 DEF Seen
<1> QED
  BY <1>2, <1>3, <1>4

\* So do several.
LEMMA SeenAllType ==
    ASSUME NEW v \in Views, NEW msgs \in Seq(Messages)
    PROVE  SeenAll(v, msgs) \in Views
<1>1. PICK f : Chain(f, v, msgs)
  BY ChainExists
<1> DEFINE S == {n \in Nat : n <= Len(msgs) => f[n] \in Views}
<1>2. \A i \in 0..Len(msgs) : f[i] = IF i = 0 THEN v ELSE Seen(f[i - 1], msgs[i])
  BY <1>1 DEF Chain
<1>3. 0 \in S
  BY <1>2
<1>4. ASSUME NEW n \in Nat, n \in S PROVE n + 1 \in S
  <2> SUFFICES ASSUME n + 1 <= Len(msgs) PROVE f[n + 1] \in Views
    OBVIOUS
  <2>1. f[n] \in Views
    BY <1>4
  <2>2. f[n + 1] = Seen(f[n], msgs[n + 1]) /\ msgs[n + 1] \in Messages
    BY <1>2
  <2> QED
    BY <2>1, <2>2, SeenType
<1> HIDE DEF S
<1>5. Nat \subseteq S
  BY <1>3, <1>4, SetInduction
<1>6. f[Len(msgs)] \in Views
  BY <1>5 DEF S
<1> QED
  BY <1>1, <1>6, SeenAllChain

-----------------------------------------------------------------------------
(* A handler does to the agents what its message tells of them *)

\* AgentsInfoHandler.
LEMMA NewAgentsMatch ==
    ASSUME AP!IInv, NEW v \in Views, Matches(v), NEW m \in Messages,
           Parses(m), m.type = "new_agents",
           A!HandleNewAgents(addAgentIds(m), remAgentIds(m)), crashed' = "no"
    PROVE  Matches(Seen(v, m))'
<1> DEFINE add == addAgentIds(m)
           rem == remAgentIds(m)
           w == Seen(v, m)
<1>1. \A id \in Ids : w[id] = IF id \in rem THEN Absent
                              ELSE IF id \in add /\ v[id] = Absent THEN Origin ELSE v[id]
  BY DEF Seen
<1>2. Origin # Absent /\ add \subseteq Ids /\ rem \subseteq Ids
  BY SystemConstants
<1> HIDE DEF add, rem, w
<1>3. /\ A!HandleNewAgents(add, rem)
      /\ AllAgents' = A!RemoveAgents(A!AddAgents(AllAgents, add), rem) /\ pos' = pos
  BY DEF A!HandleNewAgents, A!Crash, add, rem
<1>4. /\ DOMAIN AllAgents' = (DOMAIN AllAgents \cup add) \ rem
      /\ \A id \in DOMAIN AllAgents' :
            AllAgents'[id] = IF id \in DOMAIN AllAgents THEN AllAgents[id] ELSE born[id] + 1
  BY <1>3 DEF A!RemoveAgents, A!AddAgents, A!Restrict
<1>5. ASSUME NEW id \in add \ DOMAIN AllAgents PROVE pos[<<id, born[id] + 1>>] = Origin
  <2>0. MaxObjects \in Nat /\ born \in [Ids -> 0..MaxObjects] /\ born[id] < MaxObjects
    BY <1>3, <1>5, AgentsAssumption DEF AP!IInv, AP!TypeOK, A!HandleNewAgents
  <2>1. born[id] \in Nat /\ born[id] + 1 \in 1..MaxObjects /\ id \in Ids
    BY <1>2, <1>5, <2>0
  <2>2. <<id, born[id] + 1>> \in AP!Objects
    BY <2>1 DEF AP!Objects
  <2> QED
    BY <2>1, <2>2 DEF AP!IInv, AP!BornInv
<1>6. ASSUME NEW id \in Ids
      PROVE  IF w[id] = Absent
             THEN id \notin A!Live(AllAgents')
             ELSE /\ id \in DOMAIN AllAgents'
                  /\ AllAgents'[id] = A!Null \/ pos[<<id, AllAgents'[id]>>] = w[id]
  BY <1>1, <1>2, <1>4, <1>5 DEF Matches, A!Live, A!Null
<1> QED
  BY <1>3, <1>6 DEF Matches, A!Live, w

\* AllLocationHandler.
LEMMA LocationsMatch ==
    ASSUME AP!IInv, NEW v \in Views, Matches(v), NEW m \in Messages,
           Parses(m), m.type = "all_locations",
           A!HandleAllLocations(m.locations), crashed' = "no"
    PROVE  Matches(Seen(v, m))'
<1> DEFINE locs == m.locations
           w == Seen(v, m)
           known == {id \in DOMAIN locs : ~A!Skipped(AllAgents, id)}
           objs == {<<id, AllAgents[id]>> : id \in known}
<1>1. \A id \in Ids : w[id] = IF id \in DOMAIN locs /\ v[id] # Absent THEN locs[id] ELSE v[id]
  BY DEF Seen
<1>2. PICK ids \in SUBSET Ids : locs \in [ids -> Positions]
  BY SystemConstants
<1>3. \A id \in DOMAIN locs : locs[id] # Absent
  BY <1>2, SystemConstants
<1>4. AllAgents' = AllAgents /\ pos' = [o \in A!Objects |-> IF o \in objs THEN locs[o[1]] ELSE pos[o]]
  BY DEF A!HandleAllLocations, A!SetPosition, A!Crash
<1> HIDE DEF w, locs
<1>5. ASSUME NEW id \in Ids, id \in DOMAIN AllAgents, AllAgents[id] # A!Null
      PROVE  pos'[<<id, AllAgents[id]>>] = IF id \in DOMAIN locs THEN locs[id] ELSE pos[<<id, AllAgents[id]>>]
  <2> DEFINE o == <<id, AllAgents[id]>>
  <2>1. AllAgents[id] \in 1..MaxObjects
    BY <1>5 DEF AP!IInv, AP!TypeOK, A!Null
  <2>2. o \in A!Objects /\ o[1] = id
    BY <2>1 DEF A!Objects
  <2>3. o \in objs <=> id \in DOMAIN locs
    BY <1>5 DEF A!Skipped
  <2> QED
    BY <1>4, <2>2, <2>3
<1> QED
  BY <1>1, <1>3, <1>4, <1>5 DEF Matches, A!Live, w

\* OpaqueSendHandler: getAgent leaves nulls, which are no agents.
LEMMA SendMatch ==
    ASSUME NEW v, Matches(v), NEW from, NEW toIds, NEW d,
           A!HandleOpaqueSend(from, toIds, d)
    PROVE  Matches(v)'
<1>1. /\ DOMAIN AllAgents \subseteq DOMAIN AllAgents'
      /\ \A id \in DOMAIN AllAgents : AllAgents'[id] = AllAgents[id]
      /\ \A id \in DOMAIN AllAgents' \ DOMAIN AllAgents : AllAgents'[id] = A!Null
      /\ pos' = pos
  BY DEF A!HandleOpaqueSend, A!GetAgents, A!Crash
<1> QED
  BY <1>1 DEF Matches, A!Live

\* Every handler that returns.
LEMMA HandlerMatch ==
    ASSUME AP!IInv, NEW v \in Views, Matches(v), NEW m \in Messages, handle(m), crashed' = "no"
    PROVE  Matches(Seen(v, m))'
<1>1. CASE Parses(m) /\ m.type = "new_agents"
  BY <1>1, NewAgentsMatch DEF handle, A!HandleBadMessage, A!Crash
<1>2. CASE Parses(m) /\ m.type = "all_locations"
  BY <1>2, LocationsMatch DEF handle, A!HandleBadMessage, A!Crash
<1>3. CASE ~(Parses(m) /\ m.type \in {"new_agents", "all_locations"})
  <2>1. Seen(v, m) = v
    BY <1>3 DEF Seen
  <2>2. A!HandleOpaqueSend(m.from_id, m.to_ids, m.data) \/ UNCHANGED agentVars
    BY <1>3 DEF handle, A!HandleBadMessage, A!Crash
  <2>3. Matches(v)'
    BY <2>2, SendMatch DEF Matches, A!Live, agentVars
  <2> QED
    BY <2>1, <2>3 DEF Matches
<1> QED
  BY <1>1, <1>2, <1>3

-----------------------------------------------------------------------------
(* The agents are where the remaining messages start from *)

\* The remaining messages, by the place the tick is in.
RemainingByPlace ==
    /\ Idle \/ Answering \/ OnTheWayBack => Remaining = << >>
    /\ OnStream => Remaining = Head(inbound).msgs
    /\ InBuffer => Remaining = incoming.msgs
    /\ Queued => Remaining = Head(m_incoming)
    /\ Handling => Remaining = conglom

\* The seven places, now ...
LEMMA RemainingNow == IInv /\ LockInv => RemainingByPlace
BY DEF RemainingByPlace, IInv, MainInv, LockInv, Idle, OnStream, InBuffer, Queued, Handling, Answering,
       OnTheWayBack, NothingRead, BetweenTicks, Remaining

\* ... and after a step.
LEMMA RemainingNext == IInv' /\ LockInv' => RemainingByPlace'
BY RemainingNow, PTL

\* Only a bundle Sim Mobility writes and a handler change what remains: the two
\* threads pass it on.
LEMMA RemainingKept ==
    ASSUME Lockstep, IInv, LockInv, IInv', LockInv',
           \/ SimReceive \/ SimClose \/ SimReset \/ pause_sleep \/ destroy
           \/ IoStep \/ ReceivePacket \/ Alone \/ UNCHANGED vars
    PROVE  Remaining' = Remaining
<1>0. RemainingByPlace /\ RemainingByPlace'
  BY RemainingNow, RemainingNext
<1>1. CASE SimClose \/ SimReset \/ readHandler_eof \/ readHandler_error \/ destroy
  BY <1>1 DEF Lockstep, LockInv, Idle, OnStream, InBuffer, Queued, Handling, Answering, OnTheWayBack,
              BetweenTicks, SimClose, SimReset, readHandler_eof, readHandler_error, destroy
<1>2. CASE handle_read_data
  <2>1. OnStream /\ InBuffer'
    BY <1>2 DEF LockInv, Idle, OnStream, InBuffer, Queued, Handling, Answering, OnTheWayBack,
                NothingRead, handle_read_data
  <2> QED
    BY <1>0, <1>2, <2>1 DEF RemainingByPlace, handle_read_data
<1>3. CASE onMessageReceived
  <2>1. InBuffer
    BY <1>3 DEF LockInv, Idle, OnStream, InBuffer, Queued, Handling, Answering, OnTheWayBack,
                NothingRead, onMessageReceived
  <2>2. m_incoming' = Append(<< >>, incoming.msgs)
    BY <1>3, <2>1 DEF InBuffer, onMessageReceived, parsePacket, push
  <2>3. m_incoming' # << >> /\ Head(m_incoming') = incoming.msgs
    BY <2>2, SingletonSeq
  <2>4. Queued'
    BY <2>3 DEF LockInv, Idle, OnStream, InBuffer, Queued, Handling, Answering, OnTheWayBack
  <2> QED
    BY <1>0, <2>1, <2>3, <2>4 DEF RemainingByPlace
<1>4. CASE processIncoming_pop
  <2>1. Queued
    BY <1>4 DEF LockInv, Idle, OnStream, InBuffer, Queued, Handling, Answering, OnTheWayBack,
                processIncoming_pop
  <2>2. /\ conglom' = Head(m_incoming) /\ m_incoming' = << >>
        /\ UNCHANGED <<inbound, io>> /\ NothingRead
    BY <1>4, <2>1 DEF Queued, processIncoming_pop, ioVars
  <2> QED
    BY <1>0, <2>1, <2>2 DEF RemainingByPlace, Remaining, NothingRead
<1>5. CASE \/ SimReceive \/ handle_read_header \/ async_receive \/ ReceivePacket
           \/ pause_begin \/ pause_enter \/ sendOutgoing \/ sendTickedClient
           \/ UNCHANGED vars
  <2>1. /\ UNCHANGED <<inbound, m_incoming, conglom>>
        /\ UNCHANGED <<io, incoming>> \/ (io # "deliver" /\ io' # "deliver")
    BY <1>5 DEF SimReceive, handle_read_header, async_receive, ReceivePacket, pause_begin, pause_enter,
                sendOutgoing, sendTickedClient, vars, simVars, ioVars, sharedVars, mainVars
  <2> QED
    BY <2>1 DEF Remaining
<1> QED
  BY <1>1, <1>2, <1>3, <1>4, <1>5 DEF IoStep, Alone, pause_sleep

\* When registration is over, Sim Mobility and ns-3 agree on its agents.
LEMMA InitView == SysInit => ViewInv
<1> SUFFICES ASSUME SysInit PROVE ViewInv
  OBVIOUS
<1>0. Origin \in Positions /\ Registered \subseteq Ids /\ 1 \in 1..MaxObjects /\ Absent \notin Positions
  BY SystemConstants
<1>1. view \in Views
  BY <1>0 DEF SysInit, Views
<1>2. Matches(view)
  BY <1>0 DEF SysInit, A!Init, A!Objects, Matches, A!Live, A!Null
<1>3. Remaining = << >>
  BY DEF SysInit, Init, Remaining
<1> QED
  BY <1>1, <1>2, <1>3, SeenAllEmpty DEF ViewInv

\* A bundle takes view ahead of the agents; every handler brings them closer.
LEMMA NextView ==
    ASSUME Lockstep, IInv, LockInv, IInv', LockInv', AP!IInv, ViewInv, [SysNext]_sysVars
    PROVE  ViewInv'
<1>1. ASSUME NEW b \in SimBundles, SysSimSend(b) PROVE ViewInv'
  <2>1. /\ SimSend(b) /\ view' = SeenAll(view, b.msgs)
        /\ aborted' = aborted /\ UNCHANGED <<AllAgents, pos>>
    BY <1>1 DEF SysSimSend, SimSend, agentVars
  <2>2. Idle
    BY <2>1 DEF LockInv, Idle, OnStream, InBuffer, Queued, Handling, Answering, OnTheWayBack, SimSend
  <2>3. inbound' = Append(<< >>, b) /\ inbound' # << >> /\ Head(inbound') = b
    BY <2>1, <2>2, SingletonSeq DEF SimSend, Idle, NothingRead
  <2>4. Remaining = << >>
    BY <2>2, RemainingNow DEF RemainingByPlace
  <2>5. Remaining' = b.msgs
    <3>1. OnStream'
      BY <2>1, <2>3 DEF Lockstep, LockInv, Idle, OnStream, InBuffer, Queued, Handling, Answering,
                        OnTheWayBack, NothingRead, SimSend
    <3> QED
      BY <2>3, <3>1, RemainingNext DEF RemainingByPlace
  <2>6. PICK v \in Views : v = view
    BY DEF ViewInv
  <2>7. view' \in Views
    <3>1. b.msgs \in Seq(Messages)
      BY BrokerConstants
    <3> QED
      BY <2>1, <2>6, <3>1, SeenAllType
  <2>8. aborted' = "no" => Matches(v)' /\ SeenAll(v, Remaining') = view'
    <3> SUFFICES ASSUME aborted = "no" PROVE Matches(v)'
      BY <2>1, <2>5, <2>6
    <3>1. Matches(v)
      BY <2>4, <2>6, SeenAllEmpty DEF ViewInv
    <3> QED
      BY <2>1, <3>1 DEF Matches, A!Live
  <2> QED
    BY <2>7, <2>8 DEF ViewInv
<1>2. CASE SysHandle
  <2>1. /\ processIncoming_handle /\ handle(Head(conglom)) /\ SameFate /\ view' = view
        /\ conglom # << >> /\ conglom \in Seq(Messages) /\ Head(conglom) \in Messages
    BY <1>2 DEF SysHandle, processIncoming_handle, IInv, TypeOK
  <2> SUFFICES ASSUME aborted' = "no"
               PROVE  \E v \in Views : Matches(v)' /\ SeenAll(v, Remaining') = view
    BY <2>1 DEF ViewInv
  <2>2. aborted = "no" /\ conglom' = Tail(conglom) /\ crashed' = "no"
    BY <2>1 DEF processIncoming_handle, SameFate, SysNext, IInv, TypeOK
  <2>3. Handling
    BY <2>1 DEF LockInv, Idle, OnStream, InBuffer, Queued, Handling, Answering, OnTheWayBack,
                BetweenTicks, processIncoming_handle
  <2>4. UNCHANGED <<inbound, io, m_incoming>>
    BY <2>1 DEF processIncoming_handle, ioVars, sharedVars
  <2>5. Remaining = conglom /\ Remaining' = conglom'
    BY <2>3, <2>4 DEF Remaining, Handling, NothingRead
  <2>6. PICK v \in Views : Matches(v) /\ SeenAll(v, conglom) = view
    BY <2>2, <2>5 DEF ViewInv
  <2>7. PICK m \in Messages : m = Head(conglom)
    BY <2>1
  <2>8. PICK w \in Views : w = Seen(v, m)
    BY SeenType
  <2>9. Matches(Seen(v, m))'
    BY <2>1, <2>2, <2>6, <2>7, HandlerMatch
  <2>10. Matches(w)'
    BY <2>8, <2>9
  <2>11. SeenAll(w, conglom') = view
    BY <2>1, <2>2, <2>6, <2>7, <2>8, SeenAllStep
  <2> QED
    BY <2>5, <2>10, <2>11
<1>3. ASSUME \/ SimReceive \/ SimClose \/ SimReset \/ pause_sleep \/ destroy
             \/ IoStep \/ ReceivePacket \/ Alone \/ UNCHANGED vars,
             UNCHANGED <<view, AllAgents, pos>>, aborted' = "no" => aborted = "no"
      PROVE  ViewInv'
  <2>1. Remaining' = Remaining
    BY <1>3, RemainingKept
  <2> SUFFICES ASSUME aborted' = "no"
               PROVE  \E v \in Views : Matches(v)' /\ SeenAll(v, Remaining') = view
    BY <1>3 DEF ViewInv
  <2>2. PICK v \in Views : Matches(v) /\ SeenAll(v, Remaining) = view
    BY <1>3 DEF ViewInv
  <2>3. Matches(v)'
    BY <1>3, <2>2 DEF Matches, A!Live
  <2> QED
    BY <2>1, <2>2, <2>3
<1>4. CASE SysReceivePacket
  <2>1. ReceivePacket /\ UNCHANGED <<view, AllAgents, pos>>
    BY <1>4 DEF SysReceivePacket, A!ReceivePacket, A!Crash
  <2>2. aborted' = "no" => aborted = "no"
    BY <2>1 DEF ReceivePacket
  <2> QED
    BY <1>3, <2>1, <2>2
<1>5. CASE SysLose
  BY <1>3, <1>5 DEF SysLose, A!Lose, vars
<1>6. CASE UNCHANGED sysVars
  BY <1>3, <1>6 DEF sysVars, agentVars, vars
<1>7. CASE SysSimReceive
  BY <1>3, <1>7 DEF SysSimReceive, SimReceive, agentVars
<1>8. CASE /\ SimClose \/ SimReset \/ pause_sleep \/ destroy \/ IoStep \/ Alone
           /\ aborted = "no" /\ UNCHANGED <<agentVars, view>>
  BY <1>3, <1>8 DEF agentVars
<1> QED
  BY <1>1, <1>2, <1>4, <1>5, <1>6, <1>7, <1>8 DEF SysNext, SysIoStep, SysMainStep

\* Whenever Sim Mobility computes its next tick the agents of ns-3 are the ones it
\* has told of, where it has put them, however many ids come, go and come back,
\* whatever packets are in the air and however the two threads interleave.
THEOREM AgentsInStep == Lockstep => (SysSpec => []InStep)
<1> SUFFICES ASSUME Lockstep PROVE SysSpec => []InStep
  OBVIOUS
<1>1. SysSpec => [](IInv /\ LockInv /\ AP!IInv)
  BY SystemRunsBroker, LockInvariance, AgentsInvariance, PTL
<1>2. SysInit => ViewInv
  BY InitView
<1>3. /\ IInv /\ LockInv /\ AP!IInv /\ ViewInv /\ [SysNext]_sysVars /\ IInv' /\ LockInv'
      => ViewInv'
  BY NextView
<1>4. IInv /\ LockInv /\ ViewInv => InStep
  <2> SUFFICES ASSUME IInv, LockInv, ViewInv, ~simWait, aborted = "no" PROVE Matches(view)
    BY DEF InStep, Matches
  <2>1. Idle
    BY DEF LockInv, Idle, OnStream, InBuffer, Queued, Handling, Answering, OnTheWayBack
  <2>2. Remaining = << >>
    BY <2>1, RemainingNow DEF RemainingByPlace
  <2> QED
    BY <2>2, SeenAllEmpty DEF ViewInv
<1> QED
  BY <1>1, <1>2, <1>3, <1>4, PTL DEF SysSpec
=============================================================================
