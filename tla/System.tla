------------------------------- MODULE System -------------------------------
(***************************************************************************)
(* The whole run-time system: the Broker with its two threads (module      *)
(* Broker) and the agents its handlers work on (module Agents), driven by  *)
(* Sim Mobility.                                                           *)
(*                                                                         *)
(*   a message is handled   a step of Broker (processIncoming_handle) and  *)
(*                          of Agents (the handler), together              *)
(*   a packet is delivered  a step of both, between two ticks              *)
(*   a packet is lost       a step of Agents, between two ticks            *)
(*   everything else        a step of Broker alone                         *)
(*                                                                         *)
(* The two meet in one more place: an exception or a bad dereference in a  *)
(* handler (crashed) ends the process the threads run in (aborted).        *)
(***************************************************************************)
EXTENDS Broker

CONSTANTS Ids, Registered, Application, Positions, Origin, Data, MaxObjects, MaxPackets

VARIABLES AllAgents, born, freed, pos, iic, m_ipv4, air, global_pckt_cnt, outgoing,
          told, crashed

A == INSTANCE Agents

VARIABLE view   \* history: where Sim Mobility has put each agent, or Absent

agentVars == <<AllAgents, born, freed, pos, iic, m_ipv4, air, global_pckt_cnt, outgoing,
               told, crashed>>
sysVars == <<vars, agentVars, view>>

Absent == "absent"

\* The members, of those the model keeps, that a message must have for its parse
\* function not to throw; a missing one stands for all that it refuses.
Members(type) ==
    CASE type = "all_locations" -> {"locations"}
      [] type = "opaque_send"   -> {"from_id", "to_ids", "data"}
      [] OTHER                  -> {}

Parses(m) == m.type \in HandledTypes /\ Members(m.type) \subseteq DOMAIN m

\* parseNewAgents: "add" and "rem" may each be left out.
addAgentIds(m) == IF "add" \in DOMAIN m THEN m.add ELSE {}
remAgentIds(m) == IF "rem" \in DOMAIN m THEN m.rem ELSE {}

\* The messages that parse name agents, positions and payloads.
ASSUME SystemConstants ==
    /\ A!AgentsConstants
    /\ Absent \notin Positions
    /\ \A m \in Messages :
          Parses(m) =>
            /\ m.type = "new_agents" => addAgentIds(m) \subseteq Ids /\ remAgentIds(m) \subseteq Ids
            /\ m.type = "all_locations" => \E ids \in SUBSET Ids : m.locations \in [ids -> Positions]
            /\ m.type = "opaque_send" => m.from_id \in Ids /\ m.to_ids \subseteq Ids /\ m.data \in Data

SysInit ==
    /\ Init
    /\ A!Init
    /\ view = [id \in Ids |-> IF id \in Registered THEN Origin ELSE Absent]

-----------------------------------------------------------------------------
(* Sim Mobility *)

\* What a message tells of the agents: v before it, the result after it.
Seen(v, m) ==
    CASE m.type = "new_agents" /\ Parses(m) ->
           [id \in Ids |-> IF id \in remAgentIds(m) THEN Absent
                           ELSE IF id \in addAgentIds(m) /\ v[id] = Absent THEN Origin ELSE v[id]]
      [] m.type = "all_locations" /\ Parses(m) ->
           [id \in Ids |-> IF id \in DOMAIN m.locations /\ v[id] # Absent
                           THEN m.locations[id] ELSE v[id]]
      [] OTHER -> v

\* What a bundle's messages tell of them, one after the other.
SeenAll(v, msgs) ==
    LET after[i \in 0..Len(msgs)] == IF i = 0 THEN v ELSE Seen(after[i - 1], msgs[i])
    IN after[Len(msgs)]

SysSimSend(b) ==
    /\ SimSend(b)
    /\ view' = SeenAll(view, b.msgs)
    /\ UNCHANGED agentVars

SysSimReceive == SimReceive /\ UNCHANGED <<agentVars, view>>

-----------------------------------------------------------------------------
(* The main thread *)

\* The handler getHandler finds for m, called with m: the parse function first.
handle(m) ==
    \/ ~Parses(m) /\ A!HandleBadMessage
    \/ Parses(m) /\ m.type = "new_agents" /\ A!HandleNewAgents(addAgentIds(m), remAgentIds(m))
    \/ Parses(m) /\ m.type = "all_locations" /\ A!HandleAllLocations(m.locations)
    \/ Parses(m) /\ m.type = "opaque_send" /\ A!HandleOpaqueSend(m.from_id, m.to_ids, m.data)
    \/ m.type = "ticked_simmob" /\ UNCHANGED agentVars

\* What ends a handler ends the process.
SameFate == aborted' = "main" <=> crashed' # "no"

SysHandle ==
    /\ processIncoming_handle
    /\ handle(Head(conglom))
    /\ SameFate
    /\ UNCHANGED view

SysReceivePacket ==
    /\ ReceivePacket
    /\ \E p \in air : A!ReceivePacket(p)
    /\ SameFate
    /\ UNCHANGED view

\* Simulated time passes only between two ticks.
SysLose ==
    /\ main = "scheduled"
    /\ \E p \in air : A!Lose(p)
    /\ UNCHANGED <<vars, view>>

Alone == pause_begin \/ pause_enter \/ processIncoming_pop \/ sendOutgoing \/ sendTickedClient

SysIoStep == IoStep /\ UNCHANGED <<agentVars, view>>
SysMainStep ==
    \/ SysHandle
    \/ SysReceivePacket
    \/ SysLose
    \/ Alone /\ UNCHANGED <<agentVars, view>>

SysNext ==
    /\ aborted = "no"
    /\ \/ \E b \in SimBundles : SysSimSend(b)
       \/ SysSimReceive
       \/ (SimClose \/ SimReset \/ pause_sleep \/ destroy) /\ UNCHANGED <<agentVars, view>>
       \/ SysIoStep
       \/ SysMainStep

SysSpec == SysInit /\ [][SysNext]_sysVars

\* As in Broker: the operating system runs both threads, Sim Mobility reads.
SysFairSpec ==
    /\ SysSpec
    /\ WF_sysVars(aborted = "no" /\ SysIoStep)
    /\ WF_sysVars(aborted = "no" /\ SysMainStep)
    /\ WF_sysVars(aborted = "no" /\ SysSimReceive)

-----------------------------------------------------------------------------
(* Properties *)

\* Whenever Sim Mobility is not waiting, and so about to compute its next tick,
\* the agents of ns-3 are the ones it has told of, where it has put them: no
\* message is still on its way, none was handled twice or out of turn.  An id may
\* also be null, if an opaque_send has named it while there was no such agent.
InStep ==
    ~simWait /\ aborted = "no" =>
        \A id \in Ids :
            IF view[id] = Absent
            THEN id \notin A!Live(AllAgents)
            ELSE /\ id \in DOMAIN AllAgents
                 /\ AllAgents[id] = A!Null \/ pos[<<id, AllAgents[id]>>] = view[id]

\* A tick Sim Mobility has announced is eventually answered, unless a handler or
\* a delivery ends the process: the two simulators and the two threads never all
\* wait for each other.
TickAnswered == simWait ~> (~simWait \/ crashed # "no")
=============================================================================
