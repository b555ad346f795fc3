---------------------------- MODULE Registration ----------------------------
(***************************************************************************)
(* Class Registration and its variant WFD_Registration (registration.cc):  *)
(* the synchronous handshake with Sim Mobility that Broker::start runs     *)
(* before the io thread exists.                                            *)
(*                                                                         *)
(*   connect        retry until the server listens or the time is up       *)
(*   who_are_you    read id_request, answer id_response with its token     *)
(*   agents_info    read new_agents, create an agent for each id           *)
(*   initialization initialise the agents; under "stk" form the Wi-Fi      *)
(*                  Direct group first and report it as go_client          *)
(*   ready          read id_ack                                            *)
(*                                                                         *)
(* Reads are blocking and framed by the bundle header.  Sim Mobility is    *)
(* external: it may listen late, send early, send anything, or close.      *)
(***************************************************************************)
EXTENDS Integers, Sequences, FiniteSets, FiniteSetsExt, Ordering

CONSTANTS
    Ids,            \* agent ids, as numbers in the order of std::map
    Applications,   \* what Broker::start may be given
    ServerBundles,  \* the bundles Sim Mobility may write
    Timeout,        \* doConnect's timeout (200 in the code)
    GroupHosts,     \* hosts of configAll's network (254, its mask is 255.255.255.0)
    BaseHosts,      \* hosts of BaseIP's network (2^24 - 2, its mask is 255.0.0.0)
    MaxServed       \* bound: bundles Sim Mobility writes

NoToken == "none"

\* Kinds of bundle: "ok"; "bad", which header, parser or payload checks throw
\* on; "empty", whose header says remLen = 0.
Messages == [type: STRING, token: STRING, add: SUBSET Ids]
Bundles == [kind: {"ok", "bad", "empty"}, msgs: Seq(Messages)]

ASSUME RegistrationConstants ==
    /\ Ids \subseteq Nat
    /\ Applications \subseteq STRING
    /\ ServerBundles \subseteq Bundles
    /\ IsFiniteSet(Ids)
    /\ Timeout \in Nat \ {0}
    /\ GroupHosts \in Nat \ {0}
    /\ BaseHosts \in Nat \ {0}
    /\ MaxServed \in Nat

VARIABLES
    m_application,
    \* Sim Mobility
    listening,   \* it accepts connections
    closed,      \* it has closed its end
    served,      \* bundles written so far
    stream,      \* bundles written and not yet read
    \* Registration
    phase,
    sec,         \* doConnect's failed attempts
    taken,       \* history: the bundles read and accepted
    replies,     \* history: the messages written to Sim Mobility
    AllAgents,   \* the ids of the agents created
    inited,      \* those whose init() has run
    device,      \* the Wi-Fi device of an agent's node: id -> kind of MAC
    address,     \* its address: id -> what HelperAddress makes
    \* WFD_Registration and WFD_Agent
    WFD_Groups_, \* the groups of doRoleAssignment: [GO, members]
    role,        \* the role figureOutGroup gave each agent: id -> role
    wfd_go_nc,   \* the agents whose node is in group 0's container of owners ...
    wfd_cln_nc   \* ... and in that of its clients

inputs == <<m_application, listening, closed, served>>
wfd == <<WFD_Groups_, role, wfd_go_nc, wfd_cln_nc>>
agents == <<AllAgents, inited, device, address, wfd>>
vars == <<inputs, stream, phase, sec, taken, replies, agents>>

Reading == {"who_are_you", "agents_info", "ready"}
Final == {"started", "failed", "threw"}

Init ==
    /\ m_application \in Applications
    /\ listening \in BOOLEAN
    /\ closed = FALSE
    /\ served = 0
    /\ stream = << >>
    /\ phase = "begin"
    /\ sec = 0
    /\ taken = << >>
    /\ replies = << >>
    /\ AllAgents = {}
    /\ inited = {}
    /\ device = << >>
    /\ address = << >>
    /\ WFD_Groups_ = {}
    /\ role = << >>
    /\ wfd_go_nc = {}
    /\ wfd_cln_nc = {}

-----------------------------------------------------------------------------
(* Sim Mobility (external) *)

Listen ==
    /\ ~listening
    /\ listening' = TRUE
    /\ UNCHANGED <<m_application, closed, served, stream, phase, sec, taken, replies, agents>>

Serve(b) ==
    /\ phase \notin {"begin", "connect"} \cup Final
    /\ ~closed
    /\ served < MaxServed
    /\ served' = served + 1
    /\ stream' = Append(stream, b)
    /\ UNCHANGED <<m_application, listening, closed, phase, sec, taken, replies, agents>>

Close ==
    /\ phase \notin {"begin", "connect"} \cup Final
    /\ ~closed
    /\ closed' = TRUE
    /\ UNCHANGED <<m_application, listening, served, stream, phase, sec, taken, replies, agents>>

-----------------------------------------------------------------------------
(* Connecting *)

\* Broker::start makes the Registration of the application, or throws.
start_application ==
    /\ phase = "begin"
    /\ phase' = IF m_application \in {"Default", "stk"} THEN "connect" ELSE "threw"
    /\ UNCHANGED <<inputs, stream, sec, taken, replies, agents>>

\* Connection::connect succeeds.
connect ==
    /\ phase = "connect"
    /\ listening
    /\ phase' = "who_are_you"
    /\ UNCHANGED <<inputs, stream, sec, taken, replies, agents>>

\* Mutant: the attempts are not counted.
doConnect_retry_Forever ==
    /\ phase = "connect"
    /\ ~listening
    /\ UNCHANGED vars

\* Mutant: the test for the last attempt is off by one.
doConnect_retry_Late ==
    /\ phase = "connect"
    /\ ~listening
    /\ sec' = sec + 1
    /\ phase' = IF sec' > Timeout THEN "failed" ELSE "connect"
    /\ UNCHANGED <<inputs, stream, taken, replies, agents>>

\* It is refused: doConnect tries again, until the Timeout-th failure.
doConnect_retry ==
    /\ phase = "connect"
    /\ ~listening
    /\ sec' = sec + 1
    /\ phase' = IF sec' = Timeout THEN "failed" ELSE "connect"
    /\ UNCHANGED <<inputs, stream, taken, replies, agents>>

\* The second resolve fails, and connect throws; or the first did and its end
\* iterator is dereferenced.
connect_unresolved ==
    /\ phase = "connect"
    /\ phase' = "threw"
    /\ UNCHANGED <<inputs, stream, sec, taken, replies, agents>>

-----------------------------------------------------------------------------
(* Reading and writing *)

\* deserialize_single: exactly one message, of the expected type.
Single(b, type) == b.kind = "ok" /\ Len(b.msgs) = 1 /\ b.msgs[1].type = type

\* Session::read or deserialize_single returns false.
ReadFails(type) ==
    \/ stream = << >> /\ closed
    \/ stream # << >> /\ Head(stream).kind # "bad" /\ ~Single(Head(stream), type)

\* read_bundle_header, addMessage or parseNewAgents throws.
ReadThrows == stream # << >> /\ Head(stream).kind = "bad"

Accepts(type) == stream # << >> /\ Single(Head(stream), type)

\* The message a bundle of one holds.
TheMessage(b) == b.msgs[1]

Take ==
    /\ stream' = Tail(stream)
    /\ taken' = Append(taken, Head(stream))

\* Registration::start returns false, or lets an exception through.  Nothing is
\* read any more, so that the bundle refused may as well stay on the stream.
GiveUp(how) ==
    /\ phase' = how
    /\ UNCHANGED <<inputs, stream, sec, taken, replies, agents>>

-----------------------------------------------------------------------------
(* The steps of Registration::start *)

makeIdResponse(token) == [type |-> "id_response", token |-> token]

doWhoAreYou ==
    /\ phase = "who_are_you"
    /\ \/ ReadFails("id_request") /\ GiveUp("failed")
       \/ ReadThrows /\ GiveUp("threw")
       \/ /\ Accepts("id_request")
          /\ TheMessage(Head(stream)).token = NoToken
          /\ GiveUp("failed")
       \/ /\ Accepts("id_request")
          /\ TheMessage(Head(stream)).token # NoToken
          /\ Take
          /\ replies' = Append(replies, makeIdResponse(TheMessage(Head(stream)).token))
          /\ phase' = "agents_info"
          /\ UNCHANGED <<inputs, sec, agents>>
       \/ Accepts("id_request") /\ closed /\ GiveUp("threw")

\* Ids to remove are not looked at.
doAGENTS_INFO ==
    /\ phase = "agents_info"
    /\ \/ ReadFails("new_agents") /\ GiveUp("failed")
       \/ ReadThrows /\ GiveUp("threw")
       \/ /\ Accepts("new_agents")
          /\ TheMessage(Head(stream)).add = {}
          /\ GiveUp("failed")
       \/ /\ Accepts("new_agents")
          /\ TheMessage(Head(stream)).add # {}
          /\ Take
          /\ AllAgents' = AllAgents \cup TheMessage(Head(stream)).add
          /\ phase' = "initialization"
          /\ UNCHANGED <<inputs, sec, replies, inited, device, address, wfd>>

\* AllAgents.begin(): the map is ordered by id.
First(ids) == Min(ids)

\* The device BaseWifi installs on a node.
BaseWifi == "AdhocWifiMac"

\* The n-th address of ns-3's Ipv4AddressHelper, base + n.  After those of the
\* network's hosts it gives out the network's broadcast address, and then
\* addresses outside the mask: nothing but an assertion stops it.
HelperAddress(base, hosts, n) == [base |-> base, n |-> n, host |-> n <= hosts]

\* That assertion, where ns-3 is built with them.
AddressOverflow(hosts) == Cardinality(AllAgents) > hosts

\* Agent::init of every agent, in the map's order: an ad-hoc device, and the
\* next address of BaseIP's helper.
init ==
    /\ inited' = AllAgents
    /\ device' = [id \in AllAgents |-> BaseWifi]
    /\ address' = [id \in AllAgents |-> HelperAddress("11.0.0.0", BaseHosts, 1 + Rank(AllAgents, id))]

\* Registration::doInitialization for "Default".
doInitialization ==
    /\ phase = "initialization"
    /\ m_application = "Default"
    /\ init
    /\ \/ phase' = "ready"
       \/ AddressOverflow(BaseHosts) /\ phase' = "threw"
    /\ UNCHANGED <<inputs, stream, sec, taken, replies, AllAgents, wfd>>

\* WFD_Registration::doRoleAssignment: one group, of everybody.
doRoleAssignment == [GO |-> First(AllAgents), members |-> AllAgents]

\* Mutant: the owner is the last agent.
figureOutGroup_Last(id) == IF id = Max(AllAgents) THEN "WFD_GO" ELSE "WFD_CLIENT"

\* WFD_Agent::figureOutGroup.
figureOutGroup(id) == IF id = First(AllAgents) THEN "WFD_GO" ELSE "WFD_CLIENT"

\* WFD_Agent::init of every agent: its role, and its node into a container.
wfd_init ==
    /\ inited' = AllAgents
    /\ role' = [id \in AllAgents |-> figureOutGroup(id)]
    /\ wfd_go_nc' = {id \in AllAgents : role'[id] = "WFD_GO"}
    /\ wfd_cln_nc' = {id \in AllAgents : role'[id] = "WFD_CLIENT"}

\* makeGoClient lists a group's members as its clients.
makeGoClient(group) == [type |-> "go_client", go |-> group.GO, clients |-> group.members]

\* The address of configAll's helper.
GroupAddress(n) == HelperAddress("10.0.0.0", GroupHosts, n)

\* Mutant: the owner's address and the clients' are assigned apart.
Assign_Apart(owners, clients) ==
    [id \in owners \cup clients |->
        GroupAddress(IF id \in owners THEN 1 + Rank(owners, id) ELSE 1 + Rank(clients, id))]

\* Ipv4AddressHelper::Assign to a group's devices: the owner's, then the clients'.
Assign(owners, clients) ==
    [id \in owners \cup clients |->
        GroupAddress(IF id \in owners THEN 1 + Rank(owners, id)
                     ELSE 1 + Cardinality(owners) + Rank(clients, id))]

\* WFD_Agent::configAll, for the one group there is: stations for the clients,
\* an access point for the first owner.
configAll ==
    /\ device' = [id \in wfd_cln_nc' \cup {First(wfd_go_nc')} |->
                    IF id \in wfd_cln_nc' THEN "StaWifiMac" ELSE "ApWifiMac"]
    /\ address' = Assign({First(wfd_go_nc')}, wfd_cln_nc')

\* WFD_Registration::doInitialization.  The write may throw if nobody reads.
wfd_doInitialization ==
    /\ phase = "initialization"
    /\ m_application = "stk"
    /\ WFD_Groups_' = {doRoleAssignment}
    /\ wfd_init
    /\ \/ /\ replies' = Append(replies, makeGoClient(doRoleAssignment))
          /\ configAll
          /\ \/ phase' = "ready"
             \/ AddressOverflow(GroupHosts) /\ phase' = "threw"
       \/ /\ closed
          /\ phase' = "threw"
          /\ UNCHANGED <<replies, device, address>>
    /\ UNCHANGED <<inputs, stream, sec, taken, AllAgents>>

\* Mutant: any single message will do.
doREADY_AnyMessage ==
    /\ phase = "ready"
    /\ stream # << >>
    /\ Take
    /\ phase' = "started"
    /\ UNCHANGED <<inputs, sec, replies, agents>>

doREADY ==
    /\ phase = "ready"
    /\ \/ ReadFails("id_ack") /\ GiveUp("failed")
       \/ ReadThrows /\ GiveUp("threw")
       \/ /\ Accepts("id_ack")
          /\ Take
          /\ phase' = "started"
          /\ UNCHANGED <<inputs, sec, replies, agents>>

start ==
    \/ start_application
    \/ connect
    \/ doConnect_retry
    \/ doWhoAreYou
    \/ doAGENTS_INFO
    \/ doInitialization
    \/ wfd_doInitialization
    \/ doREADY

Next == Listen \/ (\E b \in ServerBundles : Serve(b)) \/ Close \/ start \/ connect_unresolved

Spec == Init /\ [][Next]_vars

\* The main thread runs; nothing is assumed of Sim Mobility or of the resolver.
FairSpec == Spec /\ WF_vars(start)

-----------------------------------------------------------------------------
(* Properties *)

Replies == [type: {"id_response"}, token: STRING]
             \cup [type: {"go_client"}, go: Ids, clients: SUBSET Ids]

\* Every variable keeps its type.
TypeOK ==
    /\ m_application \in Applications
    /\ listening \in BOOLEAN /\ closed \in BOOLEAN
    /\ served \in 0..MaxServed
    /\ stream \in Seq(Bundles) /\ taken \in Seq(Bundles)
    /\ phase \in {"begin", "connect", "initialization"} \cup Reading \cup Final
    /\ sec \in 0..Timeout
    /\ replies \in Seq(Replies)
    /\ AllAgents \subseteq Ids /\ inited \subseteq AllAgents
    /\ DOMAIN role \subseteq Ids /\ DOMAIN device \subseteq Ids
    /\ DOMAIN address = DOMAIN device
    /\ wfd_go_nc \subseteq Ids /\ wfd_cln_nc \subseteq Ids
    /\ \A g \in WFD_Groups_ : g.GO \in Ids /\ g.members \subseteq Ids

\* Broker::start goes on only after the whole handshake: one id_request, one
\* new_agents with agents in it, one id_ack, in that order, whatever else was
\* sent early; the id_response carries the token asked for, and every agent
\* created has been initialised.
StartedAfterHandshake ==
    phase = "started" =>
        /\ Len(taken) = 3
        /\ Single(taken[1], "id_request") /\ Single(taken[2], "new_agents")
        /\ Single(taken[3], "id_ack")
        /\ replies[1].token = TheMessage(taken[1]).token
        /\ AllAgents = TheMessage(taken[2]).add
        /\ AllAgents # {} /\ inited = AllAgents

\* The group told to Sim Mobility is the group configured: one group, of all
\* agents, whose owner in go_client is the one node with an access point, all
\* others stations.  doRoleAssignment and figureOutGroup, computed apart, agree.
OneGroupOwner ==
    m_application = "stk" /\ phase \in {"ready", "started"} =>
        \E g \in WFD_Groups_ :
            /\ WFD_Groups_ = {g}
            /\ replies[2] = makeGoClient(g)
            /\ g.members = AllAgents
            /\ device = [id \in AllAgents |-> IF id = g.GO THEN "ApWifiMac" ELSE "StaWifiMac"]

\* When Broker::start goes on, no two agents have the same address: a packet to
\* one reaches no other.  The addresses are all hosts' addresses of the one
\* network exactly while the agents are no more than its hosts; of a larger
\* group (under "stk" of 255 agents or more, whom no code refuses) some agent's
\* is the broadcast address or lies in another network.
OwnAddresses ==
    phase \in {"ready", "started"} =>
        /\ DOMAIN address = AllAgents
        /\ \A i, j \in AllAgents : /\ address[i].base = address[j].base
                                   /\ address[i].n = address[j].n => i = j
        /\ (\A i \in AllAgents : address[i].host)
              <=> Cardinality(AllAgents) <= (IF m_application = "stk" THEN GroupHosts ELSE BaseHosts)

\* Registration never hangs on its own account: it ends, or waits in a read
\* for a bundle Sim Mobility has not written.
EndsOrWaits ==
    <>[](phase \in Final \/ (phase \in Reading /\ stream = << >> /\ ~closed))
=============================================================================
