---------------------------- MODULE AgentsProofs ----------------------------
(***************************************************************************)
(* The agent registry, for every set of ids, positions and payloads: what  *)
(* the map owns, where the agents are, and that a packet comes out at the  *)
(* agent it was sent to.                                                   *)
(*                                                                         *)
(* The invariants lean on each other through the objects that do not exist *)
(* yet: a new object is at the origin and has an address no other object   *)
(* has because objects are numbered, and addresses counted, upwards.       *)
(***************************************************************************)
EXTENDS Agents, OrderingProofs, SequenceTheorems

\* Objects are created in order: the map and freed only know created ones, and
\* one that is not created has neither moved nor an address.
BornInv ==
    /\ \A id \in DOMAIN AllAgents : AllAgents[id] <= born[id]
    /\ \A o \in freed : o[2] <= born[o[1]]
    /\ \A o \in Objects : o[2] > born[o[1]] => pos[o] = Origin /\ iic[o] = NoAddress

\* No two objects, of one id or of two, dead or alive, have the same address.
AddressInv ==
    \A o, u \in Objects : iic[o] # NoAddress /\ iic[o] = iic[u] => o = u

\* A packet in the air is addressed to an object of its recipient's id.
AirInv ==
    \A p \in air : p.to # NoAddress /\ \E o \in Objects : iic[o] = p.to /\ o[1] = p.to_id

\* What was forwarded came out where it was sent.
ForwardInv == \A i \in DOMAIN outgoing : outgoing[i].at[1] = outgoing[i].packet.to_id

\* With class Agent every object created has been given a node.
NodeInv ==
    Application = "Default" =>
        /\ \A o \in Objects : o[2] <= born[o[1]] => Networked(o)
        /\ SetPositionHasNode

IInv == /\ TypeOK /\ RegistryOwnsObjects /\ PositionTracks
        /\ BornInv /\ AddressInv /\ AirInv /\ ForwardInv /\ NodeInv

-----------------------------------------------------------------------------
(* Objects and ranks *)

\* Objects are the pairs of an id and a number.
LEMMA ObjectPairs ==
    /\ \A o \in Objects : o[1] \in Ids /\ o[2] \in 1..MaxObjects /\ o = <<o[1], o[2]>>
    /\ \A id \in Ids, k \in 1..MaxObjects :
          <<id, k>> \in Objects /\ <<id, k>>[1] = id /\ <<id, k>>[2] = k
BY DEF Objects

\* A set of ids is one that OrderingProofs speaks of.
LEMMA IdSets == ASSUME NEW ids \in SUBSET Ids PROVE ids \in SUBSET Nat /\ IsFiniteSet(ids)
BY FS_Subset, AgentsConstants

\* What ReceivePacket forwards: nine members, none of them the packet's.
LEMMA ForwardedType == ASSUME NEW p PROVE Forwarded(p) \in ForwardedMessages
<1>1. DOMAIN Payload(p) = {"msg_type", "from_id", "to_id", "data"}
  BY DEF Payload
<1>2. ASSUME NEW k \in CopiedKeys PROVE k \notin DOMAIN Payload(p)
  BY <1>1 DEF CopiedKeys
<1> QED
  BY <1>2 DEF Forwarded, ForwardedMessages

-----------------------------------------------------------------------------
(* The initial state *)

\* When registration has created the first agents the invariant holds.
LEMMA InitIInv == Init => IInv
<1> SUFFICES ASSUME Init PROVE IInv
  OBVIOUS
<1>0. Registered \in SUBSET Ids /\ MaxObjects \in Nat \ {0} /\ Origin \in Positions
  BY AgentsConstants
<1>r. /\ Cardinality(Registered) \in Nat
      /\ \A id \in Registered : Rank(Registered, id) \in 0..(Cardinality(Registered) - 1)
  BY <1>0, IdSets, RankBounds
<1>1. TypeOK
  <2>1. m_ipv4 \in Nat \ {0} /\ iic \in [Objects -> 0..(m_ipv4 - 1)]
    BY <1>0, <1>r DEF Init, BaseIP, NoAddress
  <2>2. AllAgents = [id \in Registered |-> 1] /\ born \in [Ids -> 0..MaxObjects]
    BY <1>0 DEF Init
  <2>3. global_pckt_cnt \in 0..MaxPackets /\ outgoing \in Seq(Forwards)
    BY AgentsConstants DEF Init
  <2> QED
    BY <1>0, <2>1, <2>2, <2>3 DEF Init, TypeOK
<1>2. RegistryOwnsObjects
  BY <1>0 DEF Init, RegistryOwnsObjects
<1>3. PositionTracks
  BY <1>0, ObjectPairs DEF Init, PositionTracks, Live, Null
<1>4. BornInv
  BY <1>0, ObjectPairs DEF Init, BornInv
<1>5. AddressInv
  <2> SUFFICES ASSUME NEW o \in Objects, NEW u \in Objects, iic[o] # NoAddress, iic[o] = iic[u]
               PROVE  o = u
    BY DEF AddressInv
  <2>1. /\ o[1] \in Registered /\ u[1] \in Registered /\ o[2] = 1 /\ u[2] = 1
        /\ BaseIP + Rank(Registered, o[1]) = BaseIP + Rank(Registered, u[1])
    BY DEF Init
  <2>2. Rank(Registered, o[1]) = Rank(Registered, u[1])
    BY <1>r, <2>1 DEF BaseIP
  <2>3. o[1] = u[1]
    BY <1>0, <2>1, <2>2, IdSets, RankInjective
  <2> QED
    BY <2>1, <2>3, ObjectPairs
<1>6. AirInv /\ ForwardInv
  BY DEF Init, AirInv, ForwardInv
<1>7. NodeInv
  <2>1. ASSUME Application = "Default", NEW o \in Objects, o[2] <= born[o[1]] PROVE Networked(o)
    <3>1. o[1] \in Registered /\ o[2] = 1
      BY <1>0, <2>1, ObjectPairs DEF Init
    <3> QED
      BY <1>0, <2>1, <3>1, <1>r DEF Init, Networked, NoAddress, BaseIP
  <2> QED
    BY <2>1 DEF NodeInv, SetPositionHasNode, Init
<1> QED
  BY <1>1, <1>2, <1>3, <1>4, <1>5, <1>6, <1>7 DEF IInv

-----------------------------------------------------------------------------
(* The steps *)

\* A crash leaves everything as it was, and with class Agent is never for want of
\* a node.
LEMMA CrashKeeps ==
    ASSUME IInv, NEW why \in {"remove_null", "no_node", "bad_message", "freed_agent"},
           Crash(why), Application = "Default" => why # "no_node"
    PROVE  IInv'
BY DEF Crash, IInv, TypeOK, RegistryOwnsObjects, PositionTracks, Live, BornInv, AddressInv,
       AirInv, ForwardInv, NodeInv, Networked, SetPositionHasNode, network

\* The agents of the map exist and, with class Agent, have a node.
LEMMA LiveHaveNodes ==
    ASSUME IInv, NEW id \in Live(AllAgents)
    PROVE  /\ id \in Ids /\ AllAgents[id] \in 1..born[id]
           /\ <<id, AllAgents[id]>> \in Objects
           /\ Application = "Default" => Networked(<<id, AllAgents[id]>>)
<1>1. id \in Ids /\ AllAgents[id] \in 1..born[id] /\ born[id] \in 0..MaxObjects
  BY DEF IInv, TypeOK, BornInv, Live, Null
<1>2. <<id, AllAgents[id]>> \in Objects
  BY <1>1, AgentsConstants, ObjectPairs
<1> QED
  BY <1>1, <1>2, AgentsConstants, ObjectPairs DEF IInv, NodeInv

\* AgentsInfoHandler.
LEMMA NewAgentsKeeps ==
    ASSUME IInv, NEW add \in SUBSET Ids, NEW rem \in SUBSET Ids, HandleNewAgents(add, rem)
    PROVE  IInv'
<1> DEFINE added == AddAgents(AllAgents, add)
           removed == {id \in rem : id \in DOMAIN added}
           fresh == {<<id, born[id] + 1>> : id \in add \cap DOMAIN AllAgents}
           gone == {<<id, added[id]>> : id \in removed}
<1>1. CASE Crash("remove_null")
  BY <1>1, CrashKeeps
<1>2. CASE ~Crash("remove_null")
  <2>1. /\ \A id \in add : born[id] < MaxObjects
        /\ removed \subseteq Live(added)
        /\ AllAgents' = RemoveAgents(added, rem)
        /\ init(add)
        /\ born' = [id \in Ids |-> IF id \in add THEN born[id] + 1 ELSE born[id]]
        /\ freed' = freed \cup fresh \cup gone
        /\ told' = [id \in Ids |->
                      IF id \in rem \/ id \notin DOMAIN AllAgents THEN Origin ELSE told[id]]
        /\ UNCHANGED <<pos, air, global_pckt_cnt, outgoing, crashed>>
    BY <1>2 DEF HandleNewAgents
  <2>2. /\ DOMAIN added = DOMAIN AllAgents \cup add
        /\ \A id \in DOMAIN added :
              added[id] = IF id \in DOMAIN AllAgents THEN AllAgents[id] ELSE born[id] + 1
        /\ DOMAIN AllAgents' = DOMAIN added \ rem
        /\ \A id \in DOMAIN AllAgents' : AllAgents'[id] = added[id]
    BY <2>1 DEF AddAgents, RemoveAgents, Restrict
  <2>3. /\ m_ipv4' = m_ipv4 + Cardinality(add) /\ Cardinality(add) \in Nat
        /\ iic' = [o \in Objects |-> IF o[1] \in add /\ o[2] = born[o[1]] + 1
                                     THEN m_ipv4 + Rank(add, o[1]) ELSE iic[o]]
        /\ \A id \in add : Rank(add, id) \in 0..(Cardinality(add) - 1)
    BY <2>1, IdSets, RankBounds DEF init, Install
  <2>4. /\ born \in [Ids -> 0..MaxObjects] /\ MaxObjects \in Nat \ {0} /\ m_ipv4 \in Nat \ {0}
        /\ iic \in [Objects -> 0..(m_ipv4 - 1)] /\ freed \subseteq Objects
        /\ DOMAIN AllAgents \subseteq Ids
        /\ \A id \in DOMAIN AllAgents : AllAgents[id] \in 0..born[id]
    BY AgentsConstants DEF IInv, TypeOK, BornInv
  <2>5. \A id \in DOMAIN added : added[id] \in 0..born'[id] /\ born'[id] \in 0..MaxObjects
    BY <2>1, <2>2, <2>4
  <2> HIDE DEF added
  <2>6. \A id \in removed : added[id] # 0
    BY <2>1 DEF Live, Null
  <2>7. TypeOK'
    <3>1. fresh \subseteq Objects /\ gone \subseteq Objects
      BY <2>1, <2>2, <2>4, <2>5, <2>6, ObjectPairs
    <3>2. iic' \in [Objects -> 0..(m_ipv4' - 1)] /\ m_ipv4' \in Nat \ {0}
      BY <2>3, <2>4
    <3>3. told' \in [Ids -> Positions]
      BY <2>1, AgentsConstants DEF IInv, TypeOK
    <3>4. born' \in [Ids -> 0..MaxObjects]
      BY <2>1, <2>4
    <3>5. DOMAIN AllAgents' \subseteq Ids /\ \A id \in DOMAIN AllAgents' : AllAgents'[id] \in 0..MaxObjects
      BY <2>2, <2>4, <2>5
    <3> QED
      BY <2>1, <2>4, <3>1, <3>2, <3>3, <3>4, <3>5 DEF IInv, TypeOK
  <2>8. RegistryOwnsObjects'
    <3> SUFFICES ASSUME NEW id \in Ids, NEW k \in 1..born'[id]
                 PROVE  <<id, k>> \notin freed' <=> id \in DOMAIN AllAgents' /\ AllAgents'[id] = k
      BY DEF RegistryOwnsObjects
    <3>1. /\ <<id, k>> \in fresh <=> id \in add \cap DOMAIN AllAgents /\ k = born[id] + 1
          /\ <<id, k>> \in gone <=> id \in removed /\ k = added[id]
      OBVIOUS
    <3>2. CASE k \in 1..born[id]
      <4>1. <<id, k>> \notin freed <=> id \in DOMAIN AllAgents /\ AllAgents[id] = k
        BY <3>2 DEF IInv, RegistryOwnsObjects
      <4> QED
        BY <2>1, <2>2, <2>4, <3>1, <3>2, <4>1
    <3>3. CASE k \notin 1..born[id]
      <4>1. id \in add /\ k = born[id] + 1
        BY <2>1, <2>4, <3>3
      <4>2. <<id, k>> \notin freed
        BY <2>4, <4>1 DEF IInv, BornInv
      <4> QED
        BY <2>1, <2>2, <2>4, <3>1, <4>1, <4>2
    <3> QED
      BY <3>2, <3>3
  <2>9. PositionTracks'
    <3> SUFFICES ASSUME NEW id \in Live(AllAgents') PROVE pos'[<<id, AllAgents'[id]>>] = told'[id]
      BY DEF PositionTracks
    <3>1. id \in DOMAIN AllAgents' /\ id \in Ids /\ id \notin rem
      BY <2>2, <2>4 DEF Live
    <3>2. CASE id \in DOMAIN AllAgents
      <4>1. AllAgents'[id] = AllAgents[id] /\ id \in Live(AllAgents)
        BY <2>2, <3>1, <3>2 DEF Live
      <4> QED
        BY <2>1, <3>1, <3>2, <4>1 DEF IInv, PositionTracks
    <3>3. CASE id \notin DOMAIN AllAgents
      <4>1. AllAgents'[id] = born[id] + 1 /\ born[id] + 1 \in 1..MaxObjects
        BY <2>1, <2>2, <2>4, <3>1, <3>3
      <4>2. pos[<<id, AllAgents'[id]>>] = Origin
        BY <2>4, <3>1, <4>1, ObjectPairs DEF IInv, BornInv
      <4> QED
        BY <2>1, <3>1, <3>3, <4>2
    <3> QED
      BY <3>2, <3>3
  <2>10. BornInv'
    <3>1. \A id \in DOMAIN AllAgents' : AllAgents'[id] <= born'[id]
      BY <2>1, <2>2, <2>4, <2>5
    <3>2. ASSUME NEW o \in freed' PROVE o[2] <= born'[o[1]]
      <4>1. CASE o \in freed
        BY <2>1, <2>4, <4>1, ObjectPairs DEF IInv, BornInv
      <4>2. CASE o \in fresh
        BY <2>1, <2>4, <4>2
      <4>3. CASE o \in gone
        BY <2>5, <4>3
      <4> QED
        BY <2>1, <3>2, <4>1, <4>2, <4>3
    <3>3. ASSUME NEW o \in Objects, o[2] > born'[o[1]] PROVE pos'[o] = Origin /\ iic'[o] = NoAddress
      <4>1. o[1] \in Ids /\ o[2] > born[o[1]] /\ (o[1] \in add => o[2] # born[o[1]] + 1)
        BY <2>1, <2>4, <3>3, ObjectPairs
      <4> QED
        BY <2>1, <2>3, <4>1 DEF IInv, BornInv
    <3> QED
      BY <3>1, <3>2, <3>3 DEF BornInv
  <2>11. AddressInv'
    <3> DEFINE new(o) == o[1] \in add /\ o[2] = born[o[1]] + 1
    <3> SUFFICES ASSUME NEW o \in Objects, NEW u \in Objects, iic'[o] # NoAddress, iic'[o] = iic'[u]
                 PROVE  o = u
      BY DEF AddressInv
    <3>1. \A v \in Objects : IF new(v) THEN iic'[v] = m_ipv4 + Rank(add, v[1]) /\ iic'[v] >= m_ipv4
                                       ELSE iic'[v] = iic[v] /\ iic'[v] < m_ipv4
      BY <2>3, <2>4
    <3>2. CASE new(o) /\ new(u)
      <4>1. Rank(add, o[1]) = Rank(add, u[1])
        BY <2>3, <2>4, <3>1, <3>2
      <4>2. o[1] = u[1]
        BY <3>2, <4>1, IdSets, RankInjective
      <4> QED
        BY <3>2, <4>2, ObjectPairs
    <3>3. CASE ~new(o) /\ ~new(u)
      BY <3>1, <3>3 DEF IInv, AddressInv
    <3>4. new(o) <=> new(u)
      BY <2>3, <2>4, <3>1
    <3> QED
      BY <3>2, <3>3, <3>4
  <2>12. AirInv'
    <3> SUFFICES ASSUME NEW p \in air
                 PROVE  p.to # NoAddress /\ \E o \in Objects : iic'[o] = p.to /\ o[1] = p.to_id
      BY <2>1 DEF AirInv
    <3>1. PICK o \in Objects : iic[o] = p.to /\ o[1] = p.to_id
      BY DEF IInv, AirInv
    <3>2. p.to # NoAddress
      BY DEF IInv, AirInv
    <3>3. ~(o[1] \in add /\ o[2] = born[o[1]] + 1)
      BY <2>4, <3>1, <3>2, ObjectPairs DEF IInv, BornInv
    <3>4. iic'[o] = p.to
      BY <2>3, <3>1, <3>3
    <3> QED
      BY <3>1, <3>2, <3>4
  <2>13. ForwardInv'
    BY <2>1 DEF IInv, ForwardInv
  <2>14. NodeInv'
    <3> SUFFICES ASSUME Application = "Default"
                 PROVE  /\ \A o \in Objects : o[2] <= born'[o[1]] => Networked(o)'
                        /\ SetPositionHasNode'
      BY DEF NodeInv
    <3>1. ASSUME NEW o \in Objects, o[2] <= born'[o[1]] PROVE iic'[o] # NoAddress
      <4>1. o[2] <= born[o[1]] \/ (o[1] \in add /\ o[2] = born[o[1]] + 1)
        BY <2>1, <2>4, <3>1, ObjectPairs
      <4>2. CASE o[2] <= born[o[1]]
        BY <2>3, <2>4, <4>2, ObjectPairs DEF IInv, NodeInv, Networked
      <4>3. CASE o[1] \in add /\ o[2] = born[o[1]] + 1
        BY <2>3, <2>4, <4>3 DEF NoAddress
      <4> QED
        BY <4>1, <4>2, <4>3
    <3> QED
      BY <2>1, <3>1 DEF IInv, NodeInv, Networked, SetPositionHasNode
  <2> QED
    BY <2>7, <2>8, <2>9, <2>10, <2>11, <2>12, <2>13, <2>14 DEF IInv
<1> QED
  BY <1>1, <1>2

\* AllLocationHandler.
LEMMA AllLocationsKeeps ==
    ASSUME IInv, NEW ids \in SUBSET Ids, NEW locs \in [ids -> Positions], HandleAllLocations(locs)
    PROVE  IInv'
<1> DEFINE known == {id \in DOMAIN locs : ~Skipped(AllAgents, id)}
           objs == {<<id, AllAgents[id]>> : id \in known}
<1>1. known \subseteq Live(AllAgents)
  BY DEF Skipped, Live
<1>2. CASE Crash("no_node")
  <2>1. \A o \in objs : o[2] # Null /\ (Application = "Default" => Networked(o))
    BY <1>1, LiveHaveNodes DEF Null
  <2>2. Application # "Default"
    BY <1>2, <2>1 DEF HandleAllLocations, Crash, IInv, NodeInv, SetPositionHasNode
  <2> QED
    BY <1>2, <2>2, CrashKeeps
<1>3. CASE ~Crash("no_node")
  <2>1. /\ pos' = [o \in Objects |-> IF o \in objs THEN locs[o[1]] ELSE pos[o]]
        /\ told' = [id \in Ids |-> IF id \in known THEN locs[id] ELSE told[id]]
        /\ UNCHANGED <<AllAgents, born, freed, network, air, global_pckt_cnt, outgoing, crashed>>
    BY <1>3 DEF HandleAllLocations, SetPosition
  <2>2. \A o \in objs : o[1] \in known /\ o[2] = AllAgents[o[1]] /\ o[2] <= born[o[1]]
    BY <1>1, LiveHaveNodes
  <2>3. \A id \in known : id \in ids /\ id \in Ids /\ locs[id] \in Positions
    OBVIOUS
  <2>4. TypeOK'
    <3>1. pos' \in [Objects -> Positions] /\ told' \in [Ids -> Positions]
      BY <2>1, <2>2, <2>3 DEF IInv, TypeOK
    <3> QED
      BY <2>1, <3>1 DEF IInv, TypeOK, network
  <2>5. PositionTracks'
    <3> SUFFICES ASSUME NEW id \in Live(AllAgents) PROVE pos'[<<id, AllAgents[id]>>] = told'[id]
      BY <2>1 DEF PositionTracks, Live
    <3>1. id \in Ids /\ <<id, AllAgents[id]>> \in Objects /\ pos[<<id, AllAgents[id]>>] = told[id]
      BY LiveHaveNodes DEF IInv, PositionTracks
    <3>2. <<id, AllAgents[id]>> \in objs <=> id \in known
      OBVIOUS
    <3> QED
      BY <2>1, <3>1, <3>2
  <2>6. BornInv'
    <3>1. \A o \in Objects : o[2] > born[o[1]] => o \notin objs
      BY <2>2, ObjectPairs DEF IInv, TypeOK
    <3> QED
      BY <2>1, <3>1 DEF IInv, BornInv, network
  <2>7. RegistryOwnsObjects' /\ AddressInv' /\ AirInv' /\ ForwardInv' /\ NodeInv'
    BY <2>1 DEF IInv, RegistryOwnsObjects, AddressInv, AirInv, ForwardInv, NodeInv, Networked, SetPositionHasNode, network
  <2> QED
    BY <2>4, <2>5, <2>6, <2>7 DEF IInv
<1> QED
  BY <1>2, <1>3

\* getAgent adds null entries and changes no other; null entries touch no object.
LEMMA NullsKeep ==
    ASSUME IInv, UNCHANGED <<born, freed, pos, network, outgoing, told, crashed>>,
           DOMAIN AllAgents \subseteq DOMAIN AllAgents', DOMAIN AllAgents' \subseteq Ids,
           \A id \in DOMAIN AllAgents : AllAgents'[id] = AllAgents[id],
           \A id \in DOMAIN AllAgents' \ DOMAIN AllAgents : AllAgents'[id] = Null,
           air' \subseteq Packets, global_pckt_cnt' \in 0..MaxPackets, AirInv'
    PROVE  IInv'
<1>1. TypeOK'
  BY AgentsConstants DEF IInv, TypeOK, Null, network
<1>2. RegistryOwnsObjects'
  <2> SUFFICES ASSUME NEW id \in Ids, NEW k \in 1..born[id]
               PROVE  <<id, k>> \notin freed <=> id \in DOMAIN AllAgents' /\ AllAgents'[id] = k
    BY DEF RegistryOwnsObjects
  <2>1. <<id, k>> \notin freed <=> id \in DOMAIN AllAgents /\ AllAgents[id] = k
    BY DEF IInv, RegistryOwnsObjects
  <2>2. k # Null
    BY DEF IInv, TypeOK, Null
  <2> QED
    BY <2>1, <2>2
<1>3. PositionTracks'
  BY DEF IInv, PositionTracks, Live
<1>4. BornInv'
  BY DEF IInv, TypeOK, BornInv, Null, network
<1>5. AddressInv' /\ ForwardInv' /\ NodeInv'
  BY DEF IInv, AddressInv, AirInv, ForwardInv, NodeInv, Networked, SetPositionHasNode, network
<1> QED
  BY <1>1, <1>2, <1>3, <1>4, <1>5 DEF IInv

\* OpaqueSendHandler.
LEMMA OpaqueSendKeeps ==
    ASSUME IInv, NEW from \in Ids, NEW toIds \in SUBSET Ids, NEW d \in Data,
           HandleOpaqueSend(from, toIds, d)
    PROVE  IInv'
<1> DEFINE found == GetAgents(AllAgents, {from})
           all == GetAgents(found, toIds)
           rcpts == Recipients(all, toIds)
           sender == <<from, found[from]>>
           packets == {SendTo(from, <<id, all[id]>>, d) : id \in rcpts}
<1>1. /\ DOMAIN found = DOMAIN AllAgents \cup {from}
      /\ \A id \in DOMAIN AllAgents : found[id] = AllAgents[id]
      /\ \A id \in DOMAIN found \ DOMAIN AllAgents : found[id] = Null
  BY DEF GetAgents
<1>2. /\ DOMAIN all = DOMAIN found \cup toIds
      /\ \A id \in DOMAIN found : all[id] = found[id]
      /\ \A id \in DOMAIN all \ DOMAIN found : all[id] = Null
  BY <1>1 DEF GetAgents
<1> HIDE DEF found, all
<1>3. DOMAIN AllAgents \subseteq Ids
  BY DEF IInv, TypeOK
<1>4. ASSUME NEW id \in rcpts PROVE id \in toIds /\ id \in Live(AllAgents) /\ all[id] = AllAgents[id]
  BY <1>1, <1>2 DEF Recipients, Live
<1>5. CASE found[from] = Null
  <2>1. AllAgents' = found /\ UNCHANGED <<born, freed, pos, network, air, global_pckt_cnt, outgoing, told, crashed>>
    BY <1>5 DEF HandleOpaqueSend, found
  <2>2. AirInv'
    BY <2>1 DEF IInv, AirInv, network
  <2>3. air' \subseteq Packets /\ global_pckt_cnt' \in 0..MaxPackets
    BY <2>1 DEF IInv, TypeOK
  <2> QED
    BY <1>1, <1>3, <2>1, <2>2, <2>3, NullsKeep
<1>6. CASE found[from] # Null /\ Crash("no_node")
  <2>1. from \in Live(AllAgents) /\ found[from] = AllAgents[from]
    BY <1>1, <1>6 DEF Live
  <2>2. Application = "Default" => Networked(sender) /\ \A id \in rcpts : Networked(<<id, all[id]>>)
    BY <1>4, <2>1, LiveHaveNodes
  <2>3. Application # "Default"
    BY <1>6, <2>2 DEF HandleOpaqueSend, found, all, Crash, IInv, NodeInv, SetPositionHasNode
  <2> QED
    BY <1>6, <2>3, CrashKeeps
<1>7. CASE found[from] # Null /\ ~Crash("no_node")
  <2>1. /\ \A id \in rcpts : Networked(<<id, all[id]>>)
        /\ AllAgents' = all
        /\ air' = air \cup packets
        /\ global_pckt_cnt' = global_pckt_cnt + Cardinality(rcpts)
        /\ global_pckt_cnt + Cardinality(toIds) <= MaxPackets
        /\ UNCHANGED <<born, freed, pos, network, outgoing, told, crashed>>
    BY <1>7 DEF HandleOpaqueSend, found, all
  <2>2. global_pckt_cnt' \in 0..MaxPackets
    <3>1. rcpts \in SUBSET toIds
      BY DEF Recipients
    <3>2. Cardinality(rcpts) \in Nat /\ Cardinality(toIds) \in Nat /\ Cardinality(rcpts) <= Cardinality(toIds)
      BY <3>1, IdSets, RankBounds, FS_Subset, FS_CardinalityType
    <3> QED
      BY <2>1, <3>2, AgentsConstants DEF IInv, TypeOK
  <2>3. ASSUME NEW p \in packets
        PROVE  p \in Packets /\ p.to # NoAddress /\ \E o \in Objects : iic[o] = p.to /\ o[1] = p.to_id
    <3>1. PICK id \in rcpts : p = SendTo(from, <<id, all[id]>>, d)
      BY <2>3
    <3> DEFINE o == <<id, all[id]>>
    <3>2. id \in Ids /\ o \in Objects /\ o[1] = id
      BY <1>4, LiveHaveNodes
    <3>3. /\ p.to = iic[o] /\ p.to_id = id
          /\ p = [no |-> global_pckt_cnt, from |-> from, to_id |-> id, to |-> iic[o], data |-> d]
      BY <3>1 DEF SendTo
    <3>4. iic[o] \in Nat /\ global_pckt_cnt \in Nat
      BY <3>2, AgentsConstants DEF IInv, TypeOK
    <3>5. iic[o] # NoAddress
      BY <2>1 DEF Networked
    <3>6. p \in Packets
      BY <3>2, <3>3, <3>4 DEF Packets
    <3> QED
      BY <3>2, <3>3, <3>5, <3>6
  <2>4. air' \subseteq Packets
    BY <2>1, <2>3 DEF IInv, TypeOK
  <2>5. AirInv'
    BY <2>1, <2>3 DEF IInv, AirInv, network
  <2> QED
    BY <1>1, <1>2, <1>3, <2>1, <2>2, <2>4, <2>5, NullsKeep
<1> QED
  BY <1>5, <1>6, <1>7

\* Agent::ReceivePacket: the only socket at the packet's address is that of an
\* agent of the id it was sent to.
LEMMA ReceivePacketKeeps ==
    ASSUME IInv, NEW p \in air, ReceivePacket(p)
    PROVE  IInv'
<1>1. PICK o \in Bound(p.to) :
        \/ /\ air' = air \ {p}
           /\ outgoing' = Append(outgoing, [packet |-> p, msg |-> Forwarded(p), at |-> o])
           /\ UNCHANGED <<AllAgents, born, freed, pos, network, global_pckt_cnt, told, crashed>>
        \/ Crash("freed_agent")
  BY DEF ReceivePacket
<1>2. CASE Crash("freed_agent")
  BY <1>2, CrashKeeps
<1>3. CASE ~Crash("freed_agent")
  <2> DEFINE entry == [packet |-> p, msg |-> Forwarded(p), at |-> o]
  <2>1. /\ air' = air \ {p}
        /\ outgoing' = Append(outgoing, entry)
        /\ UNCHANGED <<AllAgents, born, freed, pos, network, global_pckt_cnt, told, crashed>>
    BY <1>1, <1>3
  <2>2. o \in Objects /\ iic[o] = p.to /\ p.to # NoAddress
    BY DEF Bound
  <2>3. o[1] = p.to_id
    BY <2>2 DEF IInv, AirInv, AddressInv
  <2>4. entry \in Forwards /\ entry.at[1] = entry.packet.to_id
    BY <2>2, <2>3, ForwardedType DEF IInv, TypeOK, Forwards
  <2>5. outgoing \in Seq(Forwards)
    BY DEF IInv, TypeOK
  <2> HIDE DEF entry
  <2>6. outgoing' \in Seq(Forwards) /\ ForwardInv'
    BY <2>1, <2>4, <2>5, AppendProperties DEF IInv, ForwardInv
  <2>7. TypeOK'
    BY <2>1, <2>6 DEF IInv, TypeOK, network
  <2>8. RegistryOwnsObjects' /\ PositionTracks' /\ BornInv'
    BY <2>1 DEF IInv, RegistryOwnsObjects, PositionTracks, Live, BornInv, network
  <2>9. AddressInv' /\ AirInv' /\ NodeInv'
    BY <2>1 DEF IInv, AddressInv, AirInv, ForwardInv, NodeInv, Networked, SetPositionHasNode, network
  <2> QED
    BY <2>6, <2>7, <2>8, <2>9 DEF IInv
<1> QED
  BY <1>2, <1>3

\* Every handler, every delivery and every loss keeps the invariant.
LEMMA NextIInv == IInv /\ [Next]_vars => IInv'
<1> SUFFICES ASSUME IInv, [Next]_vars PROVE IInv'
  OBVIOUS
<1>1. ASSUME NEW add \in SUBSET Ids, NEW rem \in SUBSET Ids, HandleNewAgents(add, rem) PROVE IInv'
  BY <1>1, NewAgentsKeeps
<1>2. ASSUME NEW ids \in SUBSET Ids, NEW locs \in [ids -> Positions], HandleAllLocations(locs)
      PROVE  IInv'
  BY <1>2, AllLocationsKeeps
<1>3. ASSUME NEW from \in Ids, NEW toIds \in SUBSET Ids, NEW d \in Data,
             HandleOpaqueSend(from, toIds, d)
      PROVE  IInv'
  BY <1>3, OpaqueSendKeeps
<1>4. CASE HandleBadMessage
  BY <1>4, CrashKeeps DEF HandleBadMessage
<1>5. ASSUME NEW p \in air, ReceivePacket(p) PROVE IInv'
  BY <1>5, ReceivePacketKeeps
<1>6. ASSUME NEW p \in air, Lose(p) PROVE IInv'
  <2>1. /\ air' \subseteq air
        /\ UNCHANGED <<AllAgents, born, freed, pos, network, global_pckt_cnt, outgoing, told, crashed>>
    BY <1>6 DEF Lose
  <2>2. TypeOK' /\ RegistryOwnsObjects' /\ PositionTracks' /\ BornInv'
    BY <2>1 DEF IInv, TypeOK, RegistryOwnsObjects, PositionTracks, Live, BornInv, network
  <2>3. AddressInv' /\ AirInv' /\ ForwardInv' /\ NodeInv'
    BY <2>1 DEF IInv, AddressInv, AirInv, ForwardInv, NodeInv, Networked, SetPositionHasNode, network
  <2> QED
    BY <2>2, <2>3 DEF IInv
<1>7. CASE UNCHANGED vars
  <2>1. TypeOK' /\ RegistryOwnsObjects' /\ PositionTracks' /\ BornInv'
    BY <1>7 DEF IInv, TypeOK, RegistryOwnsObjects, PositionTracks, Live, BornInv, network, vars
  <2>2. AddressInv' /\ AirInv' /\ ForwardInv' /\ NodeInv'
    BY <1>7 DEF IInv, AddressInv, AirInv, ForwardInv, NodeInv, Networked, SetPositionHasNode, network, vars
  <2> QED
    BY <2>1, <2>2 DEF IInv
<1> QED
  BY <1>1, <1>2, <1>3, <1>4, <1>5, <1>6, <1>7 DEF Next

\* The inductive invariant holds throughout.
THEOREM Invariance == Spec => []IInv
<1>1. Init => IInv
  BY InitIInv
<1>2. IInv /\ [Next]_vars => IInv'
  BY NextIInv
<1> QED
  BY <1>1, <1>2, PTL DEF Spec

-----------------------------------------------------------------------------
(* What follows from it *)

\* The map, the objects, the addresses and the packets keep their types.
THEOREM TypeCorrect == Spec => []TypeOK
<1>1. IInv => TypeOK
  BY DEF IInv
<1> QED
  BY <1>1, Invariance, PTL

\* AddAgent, RemoveAgent and getAgent leak no agent and free none that the map
\* still has, in whatever order their messages come.
THEOREM ObjectsAreOwned == Spec => []RegistryOwnsObjects
<1>1. IInv => RegistryOwnsObjects
  BY DEF IInv
<1> QED
  BY <1>1, Invariance, PTL

\* An agent's node is where all_locations last put the agent of its id.
THEOREM AgentsAreWherePut == Spec => []PositionTracks
<1>1. IInv => PositionTracks
  BY DEF IInv
<1> QED
  BY <1>1, Invariance, PTL

\* SetPosition and SendTo never meet an agent without a node while every agent is
\* of class Agent; with WFD_Agent they do.
THEOREM AgentsHaveNodes == Application = "Default" => (Spec => []SetPositionHasNode)
<1> SUFFICES ASSUME Application = "Default" PROVE Spec => []SetPositionHasNode
  OBVIOUS
<1>1. IInv => SetPositionHasNode
  BY DEF IInv, NodeInv
<1> QED
  BY <1>1, Invariance, PTL

\* A packet comes out at an agent of the id it was sent to, and at no other: no
\* address is ever bound twice.
THEOREM PacketsReachTheirAgent == Spec => []DeliveredToAddressee
<1>1. IInv => DeliveredToAddressee
  <2> SUFFICES ASSUME IInv, NEW p \in air PROVE Cardinality(Bound(p.to)) = 1
    BY DEF DeliveredToAddressee, IInv, ForwardInv
  <2>1. PICK o \in Objects : iic[o] = p.to /\ p.to # NoAddress
    BY DEF IInv, AirInv
  <2>2. Bound(p.to) = {o}
    BY <2>1 DEF IInv, AddressInv, Bound
  <2> QED
    BY <2>2, FS_Singleton
<1> QED
  BY <1>1, Invariance, PTL

\* An id is bound to one object until it is removed: AddAgent never replaces an
\* entry and getAgent never changes one.
THEOREM IdsStayBound == Spec => StaysBound
<1> DEFINE Same == \A id \in DOMAIN AllAgents \cap DOMAIN AllAgents' : AllAgents'[id] = AllAgents[id]
<1>1. [Next]_vars => [Same]_vars
  <2> SUFFICES ASSUME [Next]_vars PROVE Same
    OBVIOUS
  <2>1. ASSUME NEW add \in SUBSET Ids, NEW rem \in SUBSET Ids, HandleNewAgents(add, rem) PROVE Same
    BY <2>1 DEF HandleNewAgents, AddAgents, RemoveAgents, Restrict, Crash
  <2>2. ASSUME NEW from \in Ids, NEW toIds \in SUBSET Ids, NEW d \in Data,
               HandleOpaqueSend(from, toIds, d)
        PROVE  Same
    BY <2>2 DEF HandleOpaqueSend, GetAgents, Crash
  <2>3. \/ AllAgents' = AllAgents
        \/ \E add, rem \in SUBSET Ids : HandleNewAgents(add, rem)
        \/ \E from \in Ids, toIds \in SUBSET Ids, d \in Data : HandleOpaqueSend(from, toIds, d)
    BY DEF Next, HandleAllLocations, HandleBadMessage, ReceivePacket, Lose, Crash, vars
  <2> QED
    BY <2>1, <2>2, <2>3
<1> QED
  BY <1>1, PTL DEF Spec, StaysBound
=============================================================================
