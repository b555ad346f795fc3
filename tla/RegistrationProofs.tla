------------------------- MODULE RegistrationProofs -------------------------
(***************************************************************************)
(* The handshake, for every set of ids, every timeout and everything Sim   *)
(* Mobility may send.  What holds when Broker::start goes on is carried    *)
(* through the phases: each phase knows what the earlier ones have read,   *)
(* answered and created.                                                   *)
(***************************************************************************)
EXTENDS Registration, OrderingProofs, SequenceTheorems

\* What has been read and answered once the token was asked for ...
Asked ==
    /\ Single(taken[1], "id_request")
    /\ replies # << >> /\ replies[1].token = TheMessage(taken[1]).token

\* ... and once the agents have been created.
Created ==
    /\ Single(taken[2], "new_agents")
    /\ AllAgents = TheMessage(taken[2]).add
    /\ AllAgents # {}

\* What each phase of Registration::start relies on.
PhaseInv ==
    /\ phase \in {"begin", "connect"} => sec < Timeout
    /\ phase \in {"begin", "connect", "who_are_you"} => taken = << >> /\ replies = << >>
    /\ phase \in {"begin", "connect", "who_are_you", "agents_info"} => AllAgents = {}
    /\ phase = "agents_info" => Len(taken) = 1
    /\ phase \in {"initialization", "ready"} => Len(taken) = 2
    /\ phase \in {"agents_info", "initialization"} => Len(replies) = 1
    /\ phase \in {"agents_info", "initialization", "ready"} => Asked
    /\ phase \in {"initialization", "ready"} => Created
    /\ phase \in {"ready", "started"} => inited = AllAgents

IInv == TypeOK /\ PhaseInv /\ StartedAfterHandshake /\ OneGroupOwner /\ OwnAddresses

-----------------------------------------------------------------------------
(* The data *)

\* What a bundle of one message holds.
LEMMA MessageTypes ==
    ASSUME NEW b \in Bundles, NEW type, Single(b, type)
    PROVE  /\ TheMessage(b) \in Messages
           /\ TheMessage(b).token \in STRING /\ TheMessage(b).add \subseteq Ids
<1>1. b.msgs \in Seq(Messages) /\ Len(b.msgs) = 1
  BY DEF Bundles, Single
<1>2. b.msgs[1] \in Messages
  BY <1>1
<1> QED
  BY <1>2 DEF TheMessage, Messages

\* A set of ids is one that OrderingProofs speaks of.
LEMMA IdSets == ASSUME NEW ids \in SUBSET Ids PROVE ids \in SUBSET Nat /\ IsFiniteSet(ids)
BY FS_Subset, RegistrationConstants

\* First takes an element of the set.
LEMMA FirstIsOne ==
    ASSUME NEW ids \in SUBSET Ids, ids # {}
    PROVE  First(ids) \in ids
BY IdSets, MinOfNaturals DEF First

\* The one element of a container of one node.
LEMMA FirstOfOne == ASSUME NEW x \in Nat PROVE First({x}) = x
<1>1. First({x}) \in {x}
  BY MinOfNaturals DEF First
<1> QED
  BY <1>1

\* A second reply after the first.
LEMMA SecondAppended ==
    ASSUME NEW S, NEW s \in Seq(S), NEW x \in S, Len(s) = 1
    PROVE  /\ Append(s, x) \in Seq(S) /\ Append(s, x) # << >>
           /\ Append(s, x)[1] = s[1] /\ Append(s, x)[2] = x
<1>1. Append(s, x) \in Seq(S) /\ Append(s, x) # << >>
  BY AppendProperties
<1>2. \A i \in 1..Len(s) : Append(s, x)[i] = s[i]
  BY AppendProperties
<1>3. Append(s, x)[Len(s) + 1] = x
  BY AppendProperties
<1> QED
  BY <1>1, <1>2, <1>3

\* Reading one more bundle.
LEMMA TakeAppends ==
    ASSUME TypeOK, Take, stream # << >>
    PROVE  /\ stream' \in Seq(Bundles) /\ taken' \in Seq(Bundles) /\ Head(stream) \in Bundles
           /\ Len(taken) \in Nat /\ Len(taken') = Len(taken) + 1
           /\ taken'[Len(taken) + 1] = Head(stream)
           /\ \A i \in 1..Len(taken) : taken'[i] = taken[i]
BY HeadTailProperties, AppendProperties DEF TypeOK, Take

-----------------------------------------------------------------------------
(* The inductive invariant *)

\* It holds before Registration has done anything.
LEMMA InitIInv == Init => IInv
<1> SUFFICES ASSUME Init PROVE IInv
  OBVIOUS
<1>1. DOMAIN << >> = {}
  OBVIOUS
<1>2. TypeOK
  <2>1. stream \in Seq(Bundles) /\ taken \in Seq(Bundles) /\ replies \in Seq(Replies)
    BY DEF Init
  <2>2. served \in 0..MaxServed /\ sec \in 0..Timeout
    BY RegistrationConstants DEF Init
  <2>3. DOMAIN role = {} /\ DOMAIN device = {} /\ DOMAIN address = {}
    BY <1>1 DEF Init
  <2> QED
    BY <2>1, <2>2, <2>3 DEF Init, TypeOK
<1>3. PhaseInv /\ StartedAfterHandshake /\ OneGroupOwner /\ OwnAddresses
  BY RegistrationConstants DEF Init, PhaseInv, StartedAfterHandshake, OneGroupOwner, OwnAddresses, Asked, Created
<1> QED
  BY <1>2, <1>3 DEF IInv

\* Once it has given up nothing is claimed.
LEMMA GiveUpKeeps ==
    ASSUME IInv, NEW how \in {"failed", "threw"}, GiveUp(how)
    PROVE  IInv'
<1>1. TypeOK'
  BY DEF IInv, TypeOK, GiveUp, Reading, Final, inputs, agents, wfd
<1>2. PhaseInv' /\ StartedAfterHandshake' /\ OneGroupOwner' /\ OwnAddresses'
  BY DEF PhaseInv, StartedAfterHandshake, OneGroupOwner, OwnAddresses, Asked, Created, GiveUp
<1> QED
  BY <1>1, <1>2 DEF IInv

\* Steps that touch neither the phase nor what was read and created: those of
\* Sim Mobility.
LEMMA ServerKeeps ==
    ASSUME IInv, Listen \/ Close \/ (\E b \in ServerBundles : Serve(b)) \/ UNCHANGED vars
    PROVE  IInv'
<1>1. UNCHANGED <<m_application, phase, sec, taken, replies, agents>>
  BY DEF Listen, Close, Serve, vars, inputs
<1>2. TypeOK'
  <2>1. stream' \in Seq(Bundles) /\ served' \in 0..MaxServed
    <3>1. stream \in Seq(Bundles) /\ served \in 0..MaxServed /\ MaxServed \in Nat
      BY RegistrationConstants DEF IInv, TypeOK
    <3>2. ASSUME NEW b \in ServerBundles, Serve(b) PROVE stream' \in Seq(Bundles) /\ served' \in 0..MaxServed
      <4>1. b \in Bundles
        BY RegistrationConstants
      <4> QED
        BY <3>1, <3>2, <4>1 DEF Serve
    <3> QED
      BY <3>1, <3>2 DEF Listen, Close, vars, inputs
  <2>2. listening' \in BOOLEAN /\ closed' \in BOOLEAN
    BY DEF IInv, TypeOK, Listen, Close, Serve, vars, inputs
  <2> QED
    BY <1>1, <2>1, <2>2 DEF IInv, TypeOK, agents, wfd
<1>3. PhaseInv' /\ StartedAfterHandshake' /\ OneGroupOwner' /\ OwnAddresses'
  BY <1>1 DEF IInv, PhaseInv, StartedAfterHandshake, OneGroupOwner, OwnAddresses, Asked, Created, agents, wfd
<1> QED
  BY <1>2, <1>3 DEF IInv

\* Connecting, with its retries.
LEMMA ConnectKeeps ==
    ASSUME IInv, start_application \/ connect \/ doConnect_retry \/ connect_unresolved
    PROVE  IInv'
<1>1. TypeOK'
  <2>1. sec' \in 0..Timeout
    BY RegistrationConstants DEF IInv, TypeOK, PhaseInv, start_application, connect, doConnect_retry,
                                 connect_unresolved
  <2>2. phase' \in {"connect", "threw", "who_are_you", "failed"}
    BY DEF start_application, connect, doConnect_retry, connect_unresolved
  <2>3. UNCHANGED <<inputs, stream, taken, replies, agents>>
    BY DEF start_application, connect, doConnect_retry, connect_unresolved
  <2> QED
    BY <2>1, <2>2, <2>3 DEF IInv, TypeOK, Reading, Final, inputs, agents, wfd
<1>2. PhaseInv'
  <2>1. phase' = "connect" => sec' < Timeout
    BY RegistrationConstants DEF IInv, TypeOK, PhaseInv, start_application, connect, doConnect_retry,
                                 connect_unresolved
  <2>2. phase' \in {"connect", "threw", "who_are_you", "failed"} /\ UNCHANGED <<taken, replies, AllAgents>>
    BY DEF start_application, connect, doConnect_retry, connect_unresolved, agents
  <2>3. taken = << >> /\ replies = << >> /\ AllAgents = {}
    BY DEF IInv, PhaseInv, start_application, connect, doConnect_retry, connect_unresolved
  <2> QED
    BY <2>1, <2>2, <2>3 DEF PhaseInv
<1>3. StartedAfterHandshake' /\ OneGroupOwner' /\ OwnAddresses'
  BY DEF StartedAfterHandshake, OneGroupOwner, OwnAddresses, start_application, connect,
         doConnect_retry, connect_unresolved
<1> QED
  BY <1>1, <1>2, <1>3 DEF IInv

\* doWhoAreYou.
LEMMA WhoAreYouKeeps ==
    ASSUME IInv, doWhoAreYou
    PROVE  IInv'
<1> DEFINE answer == makeIdResponse(TheMessage(Head(stream)).token)
<1>1. CASE GiveUp("failed") \/ GiveUp("threw")
  BY <1>1, GiveUpKeeps
<1>2. CASE ~GiveUp("failed") /\ ~GiveUp("threw")
  <2>1. /\ stream # << >> /\ Single(Head(stream), "id_request")
        /\ Take
        /\ replies' = Append(replies, answer)
        /\ phase' = "agents_info"
        /\ UNCHANGED <<inputs, sec, agents>>
    BY <1>2 DEF doWhoAreYou, Accepts
  <2>2. taken = << >> /\ replies = << >> /\ AllAgents = {}
    BY DEF doWhoAreYou, IInv, PhaseInv
  <2>3. /\ stream' \in Seq(Bundles) /\ taken' \in Seq(Bundles) /\ Head(stream) \in Bundles
        /\ Len(taken') = 1 /\ taken'[1] = Head(stream)
    BY <2>1, <2>2, TakeAppends DEF IInv
  <2>4. answer \in Replies /\ answer.token = TheMessage(Head(stream)).token
    BY <2>1, <2>3, MessageTypes DEF makeIdResponse, Replies
  <2> HIDE DEF answer
  <2>5. replies' \in Seq(Replies) /\ Len(replies') = 1 /\ replies'[1] = answer /\ replies' # << >>
    BY <2>1, <2>2, <2>4
  <2>6. TypeOK'
    BY <2>1, <2>3, <2>5 DEF IInv, TypeOK, Reading, Final, inputs, agents, wfd
  <2>7. PhaseInv'
    BY <2>1, <2>2, <2>3, <2>4, <2>5 DEF PhaseInv, Asked, agents
  <2>8. StartedAfterHandshake' /\ OneGroupOwner' /\ OwnAddresses'
    BY <2>1 DEF StartedAfterHandshake, OneGroupOwner, OwnAddresses
  <2> QED
    BY <2>6, <2>7, <2>8 DEF IInv
<1> QED
  BY <1>1, <1>2

\* doAGENTS_INFO.
LEMMA AgentsInfoKeeps ==
    ASSUME IInv, doAGENTS_INFO
    PROVE  IInv'
<1>1. CASE GiveUp("failed") \/ GiveUp("threw")
  BY <1>1, GiveUpKeeps
<1>2. CASE ~GiveUp("failed") /\ ~GiveUp("threw")
  <2>1. /\ stream # << >> /\ Single(Head(stream), "new_agents")
        /\ TheMessage(Head(stream)).add # {}
        /\ Take
        /\ AllAgents' = AllAgents \cup TheMessage(Head(stream)).add
        /\ phase' = "initialization"
        /\ UNCHANGED <<inputs, sec, replies, inited, device, address, wfd>>
    BY <1>2 DEF doAGENTS_INFO, Accepts
  <2>2. AllAgents = {} /\ Len(taken) = 1 /\ Len(replies) = 1 /\ Asked
    BY DEF doAGENTS_INFO, IInv, PhaseInv
  <2>3. /\ stream' \in Seq(Bundles) /\ taken' \in Seq(Bundles) /\ Head(stream) \in Bundles
        /\ Len(taken') = 2 /\ taken'[2] = Head(stream) /\ taken'[1] = taken[1]
    BY <2>1, <2>2, TakeAppends DEF IInv
  <2>4. AllAgents' = TheMessage(taken'[2]).add /\ AllAgents' \subseteq Ids /\ AllAgents \subseteq AllAgents'
    BY <2>1, <2>2, <2>3, MessageTypes
  <2>5. TypeOK'
    BY <2>1, <2>3, <2>4 DEF IInv, TypeOK, Reading, Final, inputs, wfd
  <2>6. PhaseInv'
    BY <2>1, <2>2, <2>3, <2>4 DEF PhaseInv, Asked, Created
  <2>7. StartedAfterHandshake' /\ OneGroupOwner' /\ OwnAddresses'
    BY <2>1 DEF StartedAfterHandshake, OneGroupOwner, OwnAddresses
  <2> QED
    BY <2>5, <2>6, <2>7 DEF IInv
<1> QED
  BY <1>1, <1>2

\* As many different numbers from 1, none above their own number: a network has
\* a host's address for each exactly if there are no more of them than its hosts.
LEMMA HostsForAll ==
    ASSUME NEW ids \in SUBSET Ids, NEW hosts \in Nat, NEW number \in [ids -> Nat \ {0}],
           \A i \in ids : number[i] <= Cardinality(ids),
           \A i, j \in ids : number[i] = number[j] => i = j
    PROVE  (\A i \in ids : number[i] <= hosts) <=> Cardinality(ids) <= hosts
<1>1. IsFiniteSet(ids) /\ Cardinality(ids) \in Nat
  BY IdSets, FS_CardinalityType
<1>2. ASSUME Cardinality(ids) <= hosts PROVE \A i \in ids : number[i] <= hosts
  <2> SUFFICES ASSUME NEW i \in ids PROVE number[i] <= hosts
    OBVIOUS
  <2>1. number[i] \in Nat /\ number[i] <= Cardinality(ids)
    OBVIOUS
  <2> QED
    BY <1>1, <1>2, <2>1
<1>3. ASSUME \A i \in ids : number[i] <= hosts, Cardinality(ids) > hosts PROVE FALSE
  <2>1. number \in [ids -> 1..hosts]
    BY <1>3
  <2>2. IsFiniteSet(1..hosts) /\ Cardinality(1..hosts) = hosts
    BY FS_Interval
  <2>3. \E x, y \in ids : x # y /\ number[x] = number[y]
    BY <1>1, <1>3, <2>1, <2>2, FS_PigeonHole
  <2> QED
    BY <2>3
<1> QED
  BY <1>1, <1>2, <1>3

\* doInitialization of the default application: addresses in the map's order.
LEMMA InitializationKeeps ==
    ASSUME IInv, doInitialization
    PROVE  IInv'
<1>1. /\ phase = "initialization" /\ phase' \in {"ready", "threw"} /\ m_application' = "Default"
      /\ inited' = AllAgents /\ AllAgents' = AllAgents
      /\ device' = [id \in AllAgents |-> BaseWifi]
      /\ address' = [id \in AllAgents |-> HelperAddress("11.0.0.0", BaseHosts, 1 + Rank(AllAgents, id))]
      /\ UNCHANGED <<inputs, stream, sec, taken, replies, wfd>>
  BY DEF doInitialization, init, inputs
<1>2. AllAgents \in SUBSET Ids
  BY DEF IInv, TypeOK
<1>3. TypeOK'
  BY <1>1, <1>2 DEF IInv, TypeOK, Reading, Final, inputs, wfd
<1>4. PhaseInv' /\ StartedAfterHandshake' /\ OneGroupOwner'
  BY <1>1 DEF IInv, PhaseInv, StartedAfterHandshake, OneGroupOwner, OwnAddresses, Asked, Created
<1>5. OwnAddresses'
  <2> DEFINE number == [id \in AllAgents |-> 1 + Rank(AllAgents, id)]
  <2>1. /\ Cardinality(AllAgents) \in Nat
        /\ \A i \in AllAgents : Rank(AllAgents, i) \in Nat /\ Rank(AllAgents, i) <= Cardinality(AllAgents) - 1
    <3>1. AllAgents \in SUBSET Nat /\ IsFiniteSet(AllAgents)
      BY <1>2, IdSets
    <3>2. Cardinality(AllAgents) \in Nat
      BY <3>1, RankBounds
    <3>3. \A i \in AllAgents : Rank(AllAgents, i) \in Nat /\ Rank(AllAgents, i) \in 0..(Cardinality(AllAgents) - 1)
      BY <3>1, RankBounds
    <3> QED
      BY <3>2, <3>3
  <2>2. \A i, j \in AllAgents : Rank(AllAgents, i) = Rank(AllAgents, j) => i = j
    BY <1>2, IdSets, RankInjective
  <2>3. /\ number \in [AllAgents -> Nat \ {0}]
        /\ \A i \in AllAgents : number[i] <= Cardinality(AllAgents)
        /\ \A i, j \in AllAgents : number[i] = number[j] => i = j
    BY <2>1, <2>2
  <2>4. \A i \in AllAgents : /\ address'[i].n = number[i]
                             /\ address'[i].base = "11.0.0.0"
                             /\ address'[i].host = (number[i] <= BaseHosts)
    BY <1>1 DEF HelperAddress
  <2> HIDE DEF number
  <2>5. (\A i \in AllAgents : number[i] <= BaseHosts) <=> Cardinality(AllAgents) <= BaseHosts
    BY <1>2, <2>3, HostsForAll, RegistrationConstants
  <2>6. DOMAIN address' = AllAgents
    BY <1>1
  <2>7. m_application' # "stk" /\ AllAgents' = AllAgents
    BY <1>1
  <2>8. (\A i \in AllAgents : address'[i].host) <=> Cardinality(AllAgents) <= BaseHosts
    BY <2>4, <2>5
  <2>9. \A i, j \in AllAgents : /\ address'[i].base = address'[j].base
                                /\ address'[i].n = address'[j].n => i = j
    BY <2>3, <2>4
  <2> QED
    BY <2>6, <2>7, <2>8, <2>9 DEF OwnAddresses
<1> QED
  BY <1>3, <1>4, <1>5 DEF IInv

\* doREADY.
LEMMA ReadyKeeps ==
    ASSUME IInv, doREADY
    PROVE  IInv'
<1>1. CASE GiveUp("failed") \/ GiveUp("threw")
  BY <1>1, GiveUpKeeps
<1>2. CASE ~GiveUp("failed") /\ ~GiveUp("threw")
  <2>1. /\ phase = "ready" /\ stream # << >> /\ Single(Head(stream), "id_ack")
        /\ Take
        /\ phase' = "started"
        /\ UNCHANGED <<inputs, sec, replies, agents>>
    BY <1>2 DEF doREADY, Accepts
  <2>2. Len(taken) = 2 /\ Asked /\ Created /\ inited = AllAgents
    BY <2>1 DEF IInv, PhaseInv
  <2>3. /\ stream' \in Seq(Bundles) /\ taken' \in Seq(Bundles)
        /\ Len(taken') = 3 /\ taken'[3] = Head(stream) /\ taken'[2] = taken[2] /\ taken'[1] = taken[1]
    BY <2>1, <2>2, TakeAppends DEF IInv
  <2>4. TypeOK'
    BY <2>1, <2>3 DEF IInv, TypeOK, Reading, Final, inputs, agents, wfd
  <2>5. PhaseInv' /\ StartedAfterHandshake'
    BY <2>1, <2>2, <2>3 DEF PhaseInv, StartedAfterHandshake, Asked, Created, agents
  <2>6. OneGroupOwner' /\ OwnAddresses'
    BY <2>1 DEF IInv, OneGroupOwner, OwnAddresses, inputs, agents, wfd
  <2> QED
    BY <2>4, <2>5, <2>6 DEF IInv
<1> QED
  BY <1>1, <1>2

\* Ipv4AddressHelper::Assign to a group of one owner and any clients: the owner
\* has the first address, the clients the next ones, no two the same.
LEMMA AssignNumbers ==
    ASSUME NEW ids \in SUBSET Ids, NEW go \in ids, NEW A, A = Assign({go}, ids \ {go})
    PROVE  /\ DOMAIN A = ids
           /\ \A i \in ids : A[i] = HelperAddress("10.0.0.0", GroupHosts, A[i].n)
           /\ \A i \in ids : A[i].n \in Nat \ {0} /\ A[i].n <= Cardinality(ids)
           /\ \A i, j \in ids : A[i].n = A[j].n => i = j
<1> DEFINE clients == ids \ {go}
<1>1. Cardinality({go}) = 1 /\ Rank({go}, go) = 0
  <2>1. {go} \in SUBSET Nat /\ IsFiniteSet({go}) /\ Cardinality({go}) = 1
    BY RegistrationConstants, FS_Singleton
  <2>2. Rank({go}, go) \in 0..(1 - 1)
    BY <2>1, RankBounds
  <2> QED
    BY <2>1, <2>2
<1>2. clients \in SUBSET Nat /\ IsFiniteSet(clients) /\ IsFiniteSet(ids)
  BY IdSets
<1>3. Cardinality(ids) = Cardinality(clients) + 1 /\ Cardinality(clients) \in Nat
  <2>1. Cardinality(clients) = Cardinality(ids) - 1 /\ Cardinality(ids) \in Nat
    BY <1>2, FS_RemoveElement, FS_CardinalityType
  <2>2. Cardinality(clients) \in Nat
    BY <1>2, FS_CardinalityType
  <2> QED
    BY <2>1, <2>2
<1>4. /\ \A c \in clients : Rank(clients, c) \in Nat /\ Rank(clients, c) <= Cardinality(clients) - 1
      /\ \A c, d \in clients : Rank(clients, c) = Rank(clients, d) => c = d
  <2>1. \A c \in clients : Rank(clients, c) \in Nat /\ Rank(clients, c) \in 0..(Cardinality(clients) - 1)
    BY <1>2, RankBounds
  <2>2. \A c, d \in clients : Rank(clients, c) = Rank(clients, d) => c = d
    BY <1>2, RankInjective
  <2> QED
    BY <1>3, <2>1, <2>2
<1>5. {go} \cup clients = ids
  OBVIOUS
<1>6. DOMAIN A = ids
  BY <1>5 DEF Assign
<1>7. \A i \in ids : A[i] = GroupAddress(IF i = go THEN 1 ELSE 2 + Rank(clients, i))
  <2> SUFFICES ASSUME NEW i \in ids PROVE A[i] = GroupAddress(IF i = go THEN 1 ELSE 2 + Rank(clients, i))
    OBVIOUS
  <2>1. A[i] = GroupAddress(IF i \in {go} THEN 1 + Rank({go}, i)
                            ELSE 1 + Cardinality({go}) + Rank(clients, i))
    BY <1>5 DEF Assign
  <2>2. CASE i = go
    BY <1>1, <2>1, <2>2
  <2>3. CASE i # go
    <3>1. 1 + Cardinality({go}) + Rank(clients, i) = 2 + Rank(clients, i)
      BY <1>1, <1>4, <2>3
    <3> QED
      BY <2>1, <2>3, <3>1
  <2> QED
    BY <2>2, <2>3
<1> DEFINE number(i) == IF i = go THEN 1 ELSE 2 + Rank(clients, i)
<1>8. /\ \A i \in ids : number(i) \in Nat \ {0} /\ number(i) <= Cardinality(ids)
      /\ \A i, j \in ids : number(i) = number(j) => i = j
  <2>1. \A i \in ids : i # go => i \in clients
    OBVIOUS
  <2> HIDE DEF clients
  <2> QED
    BY <1>3, <1>4, <2>1
<1>9. \A i \in ids : A[i].n = number(i) /\ A[i] = HelperAddress("10.0.0.0", GroupHosts, A[i].n)
  <2> SUFFICES ASSUME NEW i \in ids
               PROVE  A[i].n = number(i) /\ A[i] = HelperAddress("10.0.0.0", GroupHosts, A[i].n)
    OBVIOUS
  <2>1. A[i] = GroupAddress(number(i))
    BY <1>7
  <2> HIDE DEF number
  <2> QED
    BY <2>1 DEF GroupAddress, HelperAddress
<1> HIDE DEF number
<1>10. \A i \in ids : A[i].n \in Nat \ {0} /\ A[i].n <= Cardinality(ids)
  BY <1>8, <1>9
<1>11. ASSUME NEW i \in ids, NEW j \in ids, A[i].n = A[j].n PROVE i = j
  <2>1. number(i) = number(j)
    BY <1>9, <1>11
  <2> QED
    BY <1>8, <2>1
<1> QED
  BY <1>6, <1>9, <1>10, <1>11

\* WFD_Registration::doInitialization: figureOutGroup makes an owner of the agent
\* that doRoleAssignment reports, and clients of all others.
LEMMA WfdInitializationKeeps ==
    ASSUME IInv, wfd_doInitialization
    PROVE  IInv'
<1> DEFINE go == First(AllAgents)
           clients == AllAgents \ {go}
<1>1. /\ phase = "initialization" /\ m_application = "stk"
      /\ WFD_Groups_' = {[GO |-> go, members |-> AllAgents]}
      /\ inited' = AllAgents /\ AllAgents' = AllAgents
      /\ role' = [id \in AllAgents |-> IF id = go THEN "WFD_GO" ELSE "WFD_CLIENT"]
      /\ UNCHANGED <<inputs, stream, sec, taken>>
  BY DEF wfd_doInitialization, wfd_init, doRoleAssignment, figureOutGroup
<1>2. AllAgents \in SUBSET Ids /\ AllAgents # {} /\ go \in AllAgents
  BY <1>1, FirstIsOne DEF IInv, TypeOK, PhaseInv, Created
<1>3. wfd_go_nc' = {go} /\ wfd_cln_nc' = clients /\ First(wfd_go_nc') = go
  <2> HIDE DEF go
  <2>1. wfd_go_nc' = {go} /\ wfd_cln_nc' = clients
    BY <1>1, <1>2 DEF wfd_doInitialization, wfd_init
  <2>2. go \in Nat
    BY <1>2, RegistrationConstants
  <2> QED
    BY <2>1, <2>2, FirstOfOne
<1> DEFINE told == [type |-> "go_client", go |-> go, clients |-> AllAgents]
<1>4. told \in Replies
  BY <1>2 DEF Replies
<1>5. replies \in Seq(Replies) /\ Len(replies) = 1
  BY <1>1 DEF IInv, TypeOK, PhaseInv
<1>6. phase' \in {"ready", "threw"}
  BY DEF wfd_doInitialization
<1>7. \/ /\ replies' = Append(replies, told)
         /\ device' = [id \in clients \cup {go} |-> IF id \in clients THEN "StaWifiMac" ELSE "ApWifiMac"]
         /\ address' = Assign({go}, clients)
      \/ phase' = "threw" /\ UNCHANGED <<replies, device, address>>
  <2> HIDE DEF go
  <2> QED
    BY <1>3 DEF wfd_doInitialization, configAll, makeGoClient, doRoleAssignment, go
<1> HIDE DEF go, told
<1>8. clients \cup {go} = AllAgents /\ {go} \cup clients = AllAgents
  BY <1>2
<1>9. DOMAIN Assign({go}, clients) = AllAgents
  BY <1>8 DEF Assign
<1>a. /\ Append(replies, told) \in Seq(Replies) /\ Append(replies, told) # << >>
      /\ Append(replies, told)[1] = replies[1] /\ Append(replies, told)[2] = told
  BY <1>4, <1>5, SecondAppended
<1>10. replies' \in Seq(Replies) /\ replies' # << >> /\ replies'[1] = replies[1]
  <2>1. replies # << >>
    BY <1>5
  <2> QED
    BY <1>5, <1>7, <1>a, <2>1
<1>11. TypeOK'
  <2>1. DOMAIN device' \subseteq Ids /\ DOMAIN address' = DOMAIN device'
    BY <1>2, <1>7, <1>8, <1>9 DEF IInv, TypeOK
  <2>2. DOMAIN role' \subseteq Ids /\ wfd_go_nc' \subseteq Ids /\ wfd_cln_nc' \subseteq Ids
    BY <1>1, <1>2, <1>3
  <2>3. \A g \in WFD_Groups_' : g.GO \in Ids /\ g.members \subseteq Ids
    BY <1>1, <1>2
  <2>4. phase' \in {"begin", "connect", "initialization"} \cup Reading \cup Final
    BY <1>6 DEF Reading, Final
  <2> QED
    BY <1>1, <1>10, <2>1, <2>2, <2>3, <2>4 DEF IInv, TypeOK, inputs
<1>12. PhaseInv'
  BY <1>1, <1>6, <1>10 DEF IInv, PhaseInv, Asked, Created
<1>13. StartedAfterHandshake'
  BY <1>6 DEF StartedAfterHandshake
<1>14. CASE phase' = "threw"
  BY <1>11, <1>12, <1>13, <1>14 DEF IInv, OneGroupOwner, OwnAddresses
<1>15. CASE phase' = "ready"
  <2>1. /\ replies' = Append(replies, told)
        /\ device' = [id \in AllAgents |-> IF id \in clients THEN "StaWifiMac" ELSE "ApWifiMac"]
        /\ address' = Assign({go}, clients)
    BY <1>7, <1>8, <1>15
  <2>2. OneGroupOwner'
    <3> DEFINE g == [GO |-> go, members |-> AllAgents]
    <3>1. replies'[2] = told
      BY <1>a, <2>1
    <3>2. told = makeGoClient(g)
      BY DEF told, makeGoClient
    <3>3. device' = [id \in AllAgents' |-> IF id = g.GO THEN "ApWifiMac" ELSE "StaWifiMac"]
      BY <1>1, <2>1
    <3> QED
      BY <1>1, <3>1, <3>2, <3>3 DEF OneGroupOwner, makeGoClient
  <2>3. OwnAddresses'
    <3> DEFINE A == Assign({go}, clients)
               number == [id \in AllAgents |-> A[id].n]
    <3>1. /\ \A i \in AllAgents : A[i] = HelperAddress("10.0.0.0", GroupHosts, A[i].n)
          /\ \A i \in AllAgents : A[i].n \in Nat \ {0} /\ A[i].n <= Cardinality(AllAgents)
          /\ \A i, j \in AllAgents : A[i].n = A[j].n => i = j
      BY <1>2, AssignNumbers
    <3>2. DOMAIN address' = AllAgents
      BY <1>9, <2>1
    <3>3. address' = A
      BY <2>1
    <3> HIDE DEF A
    <3>4. /\ number \in [AllAgents -> Nat \ {0}]
          /\ \A i \in AllAgents : number[i] <= Cardinality(AllAgents)
          /\ \A i, j \in AllAgents : number[i] = number[j] => i = j
      BY <3>1
    <3>5. \A i \in AllAgents : /\ address'[i].n = number[i]
                               /\ address'[i].base = "10.0.0.0"
                               /\ address'[i].host = (number[i] <= GroupHosts)
      <4> SUFFICES ASSUME NEW i \in AllAgents
                   PROVE  /\ A[i].n = number[i] /\ A[i].base = "10.0.0.0"
                          /\ A[i].host = (number[i] <= GroupHosts)
        BY <3>3
      <4>1. A[i] = HelperAddress("10.0.0.0", GroupHosts, number[i])
        BY <3>1
      <4> QED
        BY <4>1 DEF HelperAddress
    <3> HIDE DEF number
    <3>6. (\A i \in AllAgents : number[i] <= GroupHosts) <=> Cardinality(AllAgents) <= GroupHosts
      BY <1>2, <3>4, HostsForAll, RegistrationConstants
    <3>7. m_application' = "stk" /\ AllAgents' = AllAgents
      BY <1>1 DEF inputs
    <3>8. (\A i \in AllAgents : address'[i].host) <=> Cardinality(AllAgents) <= GroupHosts
      BY <3>5, <3>6
    <3>9. \A i, j \in AllAgents : /\ address'[i].base = address'[j].base
                                  /\ address'[i].n = address'[j].n => i = j
      BY <3>4, <3>5
    <3> QED
      BY <3>2, <3>7, <3>8, <3>9 DEF OwnAddresses
  <2> QED
    BY <1>11, <1>12, <1>13, <2>2, <2>3 DEF IInv
<1> QED
  BY <1>6, <1>14, <1>15

\* Every step of Registration and of Sim Mobility keeps the invariant.
LEMMA NextIInv == IInv /\ [Next]_vars => IInv'
BY ServerKeeps, ConnectKeeps, WhoAreYouKeeps, AgentsInfoKeeps, InitializationKeeps,
   WfdInitializationKeeps, ReadyKeeps DEF Next, start

\* The inductive invariant holds throughout.
THEOREM Invariance == Spec => []IInv
<1>1. Init => IInv
  BY InitIInv
<1>2. IInv /\ [Next]_vars => IInv'
  BY NextIInv
<1> QED
  BY <1>1, <1>2, PTL DEF Spec

-----------------------------------------------------------------------------
(* What follows from it *)

\* Every variable keeps its type; doConnect counts no further than its timeout.
THEOREM TypeCorrect == Spec => []TypeOK
<1>1. IInv => TypeOK
  BY DEF IInv
<1> QED
  BY <1>1, Invariance, PTL

\* Broker::start goes on only after the whole handshake, whatever Sim Mobility
\* sends and in whatever order.
THEOREM HandshakeFirst == Spec => []StartedAfterHandshake
<1>1. IInv => StartedAfterHandshake
  BY DEF IInv
<1> QED
  BY <1>1, Invariance, PTL

\* The Wi-Fi Direct group configured is the group reported, for any set of agents.
THEOREM GroupAsReported == Spec => []OneGroupOwner
<1>1. IInv => OneGroupOwner
  BY DEF IInv
<1> QED
  BY <1>1, Invariance, PTL

\* After registration no two agents have the same address, in both applications;
\* all are hosts of one network exactly if it has as many hosts.
THEOREM AddressesDistinct == Spec => []OwnAddresses
<1>1. IInv => OwnAddresses
  BY DEF IInv
<1> QED
  BY <1>1, Invariance, PTL
=============================================================================
