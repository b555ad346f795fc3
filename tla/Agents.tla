------------------------------- MODULE Agents -------------------------------
(***************************************************************************)
(* The agent registry and what the message handlers do to it: the static   *)
(* map Agent::AllAgents (smb_agent.cc), AgentsInfoHandler,                 *)
(* AllLocationHandler and OpaqueSendHandler (handlers.cc) with the parse   *)
(* functions they call (serialize.cc), and Agent::ReceivePacket, which     *)
(* forwards what the simulated network delivers.                           *)
(*                                                                         *)
(* Everything here runs in the ns-3 main thread, one handler or one packet *)
(* at a time.  An agent object is <<id, k>>, the k-th created for its id.  *)
(* Objects are reference counted and the map holds the only lasting        *)
(* reference, but a socket's callback holds a raw pointer to its agent, and*)
(* the node, its address and its socket outlive it.  A packet travels to an*)
(* address and reaches whatever socket is bound there.                     *)
(***************************************************************************)
EXTENDS Integers, FiniteSets, Sequences, Functions, Ordering

CONSTANTS
    Ids,          \* agent ids, as numbers in the order of std::map
    Registered,   \* the agents registration has created
    Application,  \* "Default" (class Agent) or "stk" (class WFD_Agent)
    Positions,    \* positions, Origin among them
    Origin,       \* where an agent starts
    Data,         \* the payloads of opaque_send
    MaxObjects,   \* bound: objects created for one id
    MaxPackets    \* bound: packets sent

Null == 0         \* a null ns3::Ptr<Agent> in the map
NoAddress == 0    \* an empty Ipv4InterfaceContainer
Objects == Ids \X (1..MaxObjects)

ASSUME AgentsConstants ==
    /\ Ids \subseteq Nat /\ IsFiniteSet(Ids)
    /\ Registered \subseteq Ids
    /\ Application \in {"Default", "stk"}
    /\ Origin \in Positions
    /\ MaxObjects \in Nat \ {0}
    /\ MaxPackets \in Nat

VARIABLES
    AllAgents,        \* the map: id -> k, or Null
    born,             \* objects created so far for each id
    freed,            \* objects whose last reference is gone
    pos,              \* the position of each object's node
    iic,              \* the address of each object's node, or NoAddress
    m_ipv4,           \* BaseIP's next address, one counter for all agents
    air,              \* packets sent and neither lost nor delivered
    global_pckt_cnt,
    outgoing,         \* what was forwarded: the packet (history) and the message
    told,             \* history: where Sim Mobility last put each registered agent
    crashed           \* "no", or why the process ended

network == <<iic, m_ipv4>>
vars == <<AllAgents, born, freed, pos, network, air, global_pckt_cnt, outgoing, told, crashed>>

\* BaseIP::BaseIP counts host addresses in 11.0.0.0/8 from 0.0.0.1.
BaseIP == 1

\* An object that Agent::init has given a node, a socket and an address.
\* WFD_Agent::init sets m_wfd_node and leaves all three of class Agent empty.
Networked(o) == iic[o] # NoAddress

Init ==
    \* registration has added and initialised the first agents
    /\ AllAgents = [id \in Registered |-> 1]
    /\ born = [id \in Ids |-> IF id \in Registered THEN 1 ELSE 0]
    /\ freed = {}
    /\ pos = [o \in Objects |-> Origin]
    /\ iic = [o \in Objects |->
                IF Application = "Default" /\ o[1] \in Registered /\ o[2] = 1
                THEN BaseIP + Rank(Registered, o[1]) ELSE NoAddress]
    /\ m_ipv4 = IF Application = "Default" THEN BaseIP + Cardinality(Registered) ELSE BaseIP
    /\ air = {}
    /\ global_pckt_cnt = 0
    /\ outgoing = << >>
    /\ told = [id \in Ids |-> Origin]
    /\ crashed = "no"

\* An uncaught exception or a bad dereference: the process is gone, and with it
\* whatever the handler had done before.
Crash(why) ==
    /\ crashed' = why
    /\ UNCHANGED <<AllAgents, born, freed, pos, network, air, global_pckt_cnt, outgoing, told>>

-----------------------------------------------------------------------------
(* The map *)

\* Mutant: AllAgents[agId] = ag.
AddAgents_Overwrite(agents, add) ==
    [id \in DOMAIN agents \cup add |-> IF id \in add THEN born[id] + 1 ELSE agents[id]]

\* Agent::AddAgent for each id: map::insert leaves an existing entry alone, a
\* null one too.
AddAgents(agents, add) ==
    [id \in DOMAIN agents \cup add |->
        IF id \in DOMAIN agents THEN agents[id] ELSE born[id] + 1]

\* Mutant: Dispose without erase.
RemoveAgents_NoErase(agents, rem) == agents

\* Agent::RemoveAgent for each id.
RemoveAgents(agents, rem) == Restrict(agents, DOMAIN agents \ rem)

\* Agent::getAgent for each id: AllAgents[agId] inserts a null for an unknown one.
GetAgents(agents, ids) ==
    [id \in DOMAIN agents \cup ids |-> IF id \in DOMAIN agents THEN agents[id] ELSE Null]

Live(agents) == {id \in DOMAIN agents : agents[id] # Null}

-----------------------------------------------------------------------------
(* An agent's node *)

\* Mutant: the counter is read after it has been incremented.
Install_Ahead(ids, id) == m_ipv4 + Rank(ids, id) + 1

\* Mutant: as many addresses as agents.
Install_Reuse(ids, id) == BaseIP + Cardinality(Live(AllAgents)) + Rank(ids, id)

\* BaseIP::Install: the node's device takes the next address.
Install(ids, id) == m_ipv4 + Rank(ids, id)

\* Agent::init for a new object of each of ids: node, device, address, socket.
init(ids) ==
    /\ iic' = [o \in Objects |->
                 IF o[1] \in ids /\ o[2] = born[o[1]] + 1 THEN Install(ids, o[1]) ELSE iic[o]]
    /\ m_ipv4' = m_ipv4 + Cardinality(ids)

\* Agent::Bind: the objects whose socket is bound to an address.
Bound(address) == {o \in Objects : address # NoAddress /\ iic[o] = address}

-----------------------------------------------------------------------------
(* The handlers *)

\* AgentsInfoHandler: create, initialise and add, then remove.  An agent that
\* AddAgent did not take is destroyed when the handler drops its reference; it
\* keeps its address.  Dispose on a null entry is a null dereference.  One
\* message adds its ids in their order: which of them gets which of the next
\* addresses makes no difference.
HandleNewAgents(add, rem) ==
    LET added   == AddAgents(AllAgents, add)
        removed == {id \in rem : id \in DOMAIN added}
    IN
    /\ crashed = "no"
    /\ \A id \in add : born[id] < MaxObjects
    /\ \/ /\ removed \subseteq Live(added)
          /\ AllAgents' = RemoveAgents(added, rem)
          /\ init(add)
          /\ born' = [id \in Ids |-> IF id \in add THEN born[id] + 1 ELSE born[id]]
          /\ freed' = freed \cup {<<id, born[id] + 1>> : id \in add \cap DOMAIN AllAgents}
                            \cup {<<id, added[id]>> : id \in removed}
          /\ told' = [id \in Ids |->
                        IF id \in rem \/ id \notin DOMAIN AllAgents THEN Origin ELSE told[id]]
          /\ UNCHANGED <<pos, air, global_pckt_cnt, outgoing, crashed>>
       \/ /\ ~(removed \subseteq Live(added))
          /\ Crash("remove_null")

\* Mutant: the entry is used without looking at whether it is null.
Skipped_NotFoundOnly(agents, id) == id \notin DOMAIN agents

\* AllLocationHandler passes over ids that are not found and null entries.
Skipped(agents, id) == id \notin DOMAIN agents \/ agents[id] = Null

\* Agent::SetPosition on each of objs: where the nodes are afterwards.
SetPosition(objs, locs) == [o \in Objects |-> IF o \in objs THEN locs[o[1]] ELSE pos[o]]

\* AllLocationHandler: Agent::SetPosition through m_node, for each known agent.
HandleAllLocations(locs) ==
    LET known == {id \in DOMAIN locs : ~Skipped(AllAgents, id)}
        objs  == {<<id, AllAgents[id]>> : id \in known}
    IN
    /\ crashed = "no"
    /\ \/ /\ \A o \in objs : o[2] # Null /\ Networked(o)
          /\ pos' = SetPosition(objs, locs)
          /\ told' = [id \in Ids |-> IF id \in known THEN locs[id] ELSE told[id]]
          /\ UNCHANGED <<AllAgents, born, freed, network, air, global_pckt_cnt, outgoing, crashed>>
       \/ /\ \E o \in objs : o[2] = Null \/ ~Networked(o)
          /\ Crash("no_node")

\* OpaqueSendHandler and SendTo pass over recipients whose entry is null.
Recipients(agents, toIds) == {id \in toIds : agents[id] # Null}

\* Agent::SendTo: the packet on its way to the recipient's address.
SendTo(from, rcpt, data) ==
    [no |-> global_pckt_cnt, from |-> from, to_id |-> rcpt[1], to |-> iic[rcpt], data |-> data]

\* OpaqueSendHandler: look up the sender, then each recipient, and SendTo the
\* ones that exist.  SendTo needs the sender's socket and both addresses.
HandleOpaqueSend(from, toIds, data) ==
    LET found == GetAgents(AllAgents, {from})
        all   == GetAgents(found, toIds)
        rcpts == Recipients(all, toIds)
        sender == <<from, found[from]>>
    IN
    /\ crashed = "no"
    /\ global_pckt_cnt + Cardinality(toIds) <= MaxPackets
    /\ \/ /\ found[from] = Null
          /\ AllAgents' = found
          /\ UNCHANGED <<born, freed, pos, network, air, global_pckt_cnt, outgoing, told, crashed>>
       \/ /\ found[from] # Null
          /\ rcpts # {} => Networked(sender)
          /\ \A id \in rcpts : Networked(<<id, all[id]>>)
          /\ AllAgents' = all
          /\ air' = air \cup {SendTo(from, <<id, all[id]>>, data) : id \in rcpts}
          /\ global_pckt_cnt' = global_pckt_cnt + Cardinality(rcpts)
          /\ UNCHANGED <<born, freed, pos, network, outgoing, told, crashed>>
       \/ /\ found[from] # Null
          /\ \E id \in rcpts : ~Networked(sender) \/ ~Networked(<<id, all[id]>>)
          /\ Crash("no_node")

\* A message the parse functions refuse (a member missing or of the wrong type;
\* "broadcast" with recipients): the exception leaves pause().
HandleBadMessage ==
    /\ crashed = "no"
    /\ Crash("bad_message")

-----------------------------------------------------------------------------
(* The simulated network *)

\* The JSON object OpaqueSendHandler puts into a packet.
Payload(p) ==
    [msg_type |-> "opaque_receive", from_id |-> p.from, to_id |-> p.to_id, data |-> p.data]

\* ReceivePacket copies these members; jsoncpp's operator[] reads null for one
\* that is not there.
CopiedKeys == {"MESSAGE_TYPE", "MESSAGE_CAT", "SENDING_AGENT", "MULTICAST_DATA",
               "RECEIVING_AGENT_ID", "GLOBAL_PACKET_COUNT", "TICK_SENT"}

Forwarded(p) ==
    [k \in CopiedKeys \cup {"SENDER", "SENDER_TYPE"} |->
        CASE k = "SENDER"      -> "0"
          [] k = "SENDER_TYPE" -> "NS3_SIMULATOR"
          [] k \in CopiedKeys  -> IF k \in DOMAIN Payload(p) THEN Payload(p)[k] ELSE "null"]

\* Agent::ReceivePacket, called through the callback of the socket bound to the
\* packet's address.  If the agent has been freed this is undefined behaviour:
\* its memory may still hold the Broker's address, or not.
ReceivePacket(p) ==
    /\ crashed = "no"
    /\ \E o \in Bound(p.to) :
       \/ /\ air' = air \ {p}
          /\ outgoing' = Append(outgoing, [packet |-> p, msg |-> Forwarded(p), at |-> o])
          /\ UNCHANGED <<AllAgents, born, freed, pos, network, global_pckt_cnt, told, crashed>>
       \/ /\ o \in freed
          /\ Crash("freed_agent")

\* The radio loses a packet (out of range, collision).
Lose(p) ==
    /\ crashed = "no"
    /\ air' = air \ {p}
    /\ UNCHANGED <<AllAgents, born, freed, pos, network, global_pckt_cnt, outgoing, told, crashed>>

Next ==
    \/ \E add, rem \in SUBSET Ids : HandleNewAgents(add, rem)
    \/ \E ids \in SUBSET Ids : \E locs \in [ids -> Positions] : HandleAllLocations(locs)
    \/ \E from \in Ids, toIds \in SUBSET Ids, d \in Data : HandleOpaqueSend(from, toIds, d)
    \/ HandleBadMessage
    \/ \E p \in air : ReceivePacket(p) \/ Lose(p)

Spec == Init /\ [][Next]_vars

-----------------------------------------------------------------------------
(* Properties *)

Packets == [no: Nat, from: Ids, to_id: Ids, to: Nat, data: Data]
ForwardedMessages ==
    [CopiedKeys \cup {"SENDER", "SENDER_TYPE"} -> {"0", "NS3_SIMULATOR", "null"}]
Forwards == [packet: Packets, msg: ForwardedMessages, at: Objects]

\* The map, the objects and the packets keep their types, and no address runs
\* ahead of the counter.
TypeOK ==
    /\ DOMAIN AllAgents \subseteq Ids
    /\ \A id \in DOMAIN AllAgents : AllAgents[id] \in 0..MaxObjects
    /\ born \in [Ids -> 0..MaxObjects]
    /\ freed \subseteq Objects
    /\ pos \in [Objects -> Positions]
    /\ m_ipv4 \in Nat \ {0}
    /\ iic \in [Objects -> 0..(m_ipv4 - 1)]
    /\ air \subseteq Packets
    /\ global_pckt_cnt \in 0..MaxPackets
    /\ outgoing \in Seq(Forwards)
    /\ told \in [Ids -> Positions]
    /\ crashed \in {"no", "remove_null", "no_node", "bad_message", "freed_agent"}

\* The map owns the objects: an entry is null or the one object of its id that
\* has not been freed, and every object not freed is the entry of its id.
RegistryOwnsObjects ==
    \A id \in Ids : \A k \in 1..born[id] :
        <<id, k>> \notin freed <=> id \in DOMAIN AllAgents /\ AllAgents[id] = k

\* An agent is where all_locations last put it, through repeated additions,
\* removals and re-additions of its id.
PositionTracks ==
    \A id \in Live(AllAgents) : pos[<<id, AllAgents[id]>>] = told[id]

\* An id never passes from one object to another in one step: it is removed
\* first, so that a packet in flight cannot reach an agent it was not sent to.
StaysBound ==
    [][\A id \in DOMAIN AllAgents \cap DOMAIN AllAgents' :
           AllAgents'[id] = AllAgents[id]]_vars

\* A packet comes out at an agent of the id it was sent to, although it travels
\* to an address and agents are added, refused, removed and added again while it
\* is in the air: no address is ever given to a second agent.
DeliveredToAddressee ==
    /\ \A i \in DOMAIN outgoing : outgoing[i].at[1] = outgoing[i].packet.to_id
    /\ \A p \in air : Cardinality(Bound(p.to)) = 1

\* "Agent IDs to add" (AgentsInfoMessage::addAgentIds): an id that new_agents
\* adds and does not remove has an agent afterwards.
AddHonoured ==
    [][\A id \in Ids : born'[id] > born[id] /\ id \in DOMAIN AllAgents'
           => AllAgents'[id] # Null]_vars

\* "Routed through ns-3, and then sent from ns-3 to Sim Mobility"
\* (OpaqueReceiveMessage): what is forwarded names its type, its sender, its
\* recipient and its data.
ForwardKeepsMessage ==
    \A i \in DOMAIN outgoing :
        \A k \in {"msg_type", "from_id", "to_id", "data"} :
            \E j \in DOMAIN outgoing[i].msg :
                outgoing[i].msg[j] = Payload(outgoing[i].packet)[k]

\* "This function sets the position of Agent's Node" (Agent::SetPosition): there
\* is a node to set it on, and an agent, whatever null entries getAgent has left.
SetPositionHasNode == crashed # "no_node"
=============================================================================
