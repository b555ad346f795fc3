------------------------------- MODULE Trace --------------------------------
(***************************************************************************)
(* The trace runner RoadRunnerBaseLine (testing/rr_baseline.cc): a Broker  *)
(* without Sim Mobility, which reads a whole trace file, creates the nodes,*)
(* and replays the file's ticks to the same handlers.                      *)
(*                                                                         *)
(* A line of the file is a record: its type, its time, and what the lines  *)
(* of that type go on to say.  The file is read line by line and may be    *)
(* any sequence of them.  One thread runs everything.  The run is profiled:*)
(* a ProfileBuilder (profile_builder.cc) collects entries in memory and    *)
(* writes them to its file when it is destroyed.                           *)
(***************************************************************************)
EXTENDS Integers, Sequences, FiniteSets, FiniteSetsExt, Ordering

CONSTANTS
    Ids,           \* agent ids, as numbers in the order of std::set
    Positions,
    Origin,        \* where a node starts
    Lines,         \* the lines a file may have
    maxNOFAgents,
    Protocols,     \* what the command line may give as protocol
    Disable,       \* ... and as what to disable: sets of "communication", "location"
    SelfId,        \* the sender makeOpaqueSend writes ("987654321")
    Parts,         \* progress reports per run (10 in the code)
    MaxLines       \* bound: lines of the file

\* MessageMap knows three types; operator[] makes MULTICAST of any other.
LineTypes == {"tick", "add_agent", "update_agent", "multicast", "other"}

ASSUME TraceConstants ==
    /\ Ids \subseteq Nat
    /\ Origin \in Positions
    /\ Disable \subseteq SUBSET {"communication", "location"}
    /\ Lines \subseteq [type: LineTypes, time: Nat, id: Ids, pos: Positions, to: SUBSET Ids]
    /\ maxNOFAgents \in Nat
    /\ SelfId \notin Ids
    /\ Parts \in Nat \ {0, 1}
    /\ MaxLines \in Nat

VARIABLES
    phase,             \* "constructing", "parsing", "running", "stopped", "ended", "crashed"
    disabled,          \* disable_communication and disable_location_update
    file,              \* history: the lines read
    trace_time_ticks,  \* time -> TimeTick
    agent_limit,       \* the ids let in; agentsList holds the same
    AllAgents,         \* the agents created
    pos,               \* the position of each agent's node
    currTick,          \* time of the next tick, or End
    interval,
    now,               \* ns-3's clock, in ms
    ran,               \* history: the ticks replayed, and when
    currLog,           \* ProfileBuilder: the entries not yet written
    LogFile,           \* the entries in its file
    ref_count          \* the builders there are; the file is closed at 0

parsed == <<file, trace_time_ticks, agent_limit>>
clock  == <<currTick, interval, now, ran>>
profile == <<currLog, LogFile, ref_count>>
vars == <<phase, disabled, parsed, AllAgents, pos, clock, profile>>

End == -1   \* trace_time_ticks.end()

\* A new TimeTick.
TimeTick == [add_agent |-> << >>, update_agent |-> << >>, multicast |-> << >>]

Put(f, x, y) == [z \in DOMAIN f \cup {x} |-> IF z = x THEN y ELSE f[z]]

\* trace_time_ticks[t] inserts a new tick where there is none.
At(t) == IF t \in DOMAIN trace_time_ticks THEN trace_time_ticks[t] ELSE TimeTick

Init ==
    /\ phase = "constructing"
    /\ disabled \in Disable
    /\ file = << >>
    /\ trace_time_ticks = << >>
    /\ agent_limit = {}
    /\ AllAgents = {}
    /\ pos = [id \in Ids |-> Origin]
    /\ currTick = End
    /\ interval = 0
    /\ now = 0
    /\ ran = << >>
    /\ currLog = << >>
    /\ LogFile = << >>
    /\ ref_count = 0

\* An uncaught exception, a division by zero or a bad iterator.  What the
\* ProfileBuilder had not written is lost.
Crash ==
    /\ phase' = "crashed"
    /\ UNCHANGED <<disabled, parsed, AllAgents, pos, clock, profile>>

-----------------------------------------------------------------------------
(* The profile *)

\* An entry; its time of day is left out.
logGeneric(item) == Append(currLog, item)

logSiMobilityBegin == [action |-> "simmob-loop-begin-main-loop"]
logSiMobilityEnd   == [action |-> "simmob-loop-end-main-loop"]
logTickBegin(tick, agents) == [action |-> "simmob-tick-begin", tick |-> tick, agents |-> agents]
logTickEnd(tick, agents)   == [action |-> "simmob-tick-end", tick |-> tick, agents |-> agents]
ReachedZero == [action |-> "ProfileBuilder RefCount reached zero."]

\* The constructor: InitLogFile opens the file or throws, and a builder is made.
construct ==
    /\ phase = "constructing"
    /\ \/ Crash
       \/ /\ phase' = "parsing"
          /\ ref_count' = ref_count + 1
          /\ UNCHANGED <<disabled, parsed, AllAgents, pos, clock, currLog, LogFile>>

\* ~ProfileBuilder of the last builder: flushLogFile, then the last line.
flushLogFile == LogFile \o currLog \o <<ReachedZero>>

\* Run has returned and main returns: the destructor deletes the builder, which
\* closes the file (one that could be opened can be written), and ~Broker joins an
\* io thread that was never started.
destroy ==
    /\ phase = "stopped"
    /\ LogFile' = flushLogFile
    /\ currLog' = << >>
    /\ ref_count' = ref_count - 1
    /\ phase' \in {"ended", "crashed"}
    /\ UNCHANGED <<disabled, parsed, AllAgents, pos, clock>>

-----------------------------------------------------------------------------
(* Reading the file *)

\* There is no such file, or the next line cannot be taken apart: a token is
\* missing, or a conversion throws.
parse_fails ==
    /\ phase = "parsing"
    /\ Crash

NextLine(l) ==
    /\ phase = "parsing"
    /\ Len(file) < MaxLines
    /\ file' = Append(file, l)
    /\ UNCHANGED <<phase, disabled, AllAgents, pos, clock, profile>>

\* "The time tick notification always comes first": it replaces what is there.
parseLine_tick(l) ==
    /\ l.type = "tick"
    /\ NextLine(l)
    /\ trace_time_ticks' = Put(trace_time_ticks, l.time, TimeTick)
    /\ UNCHANGED agent_limit

\* Mutant: the limit is tested after the insertion.
Limited_Late(id) == agent_limit \cup {id}

\* agent_limit after an ADD line: the first maxNOFAgents ids are let in.
Limited(id) ==
    IF Cardinality(agent_limit) < maxNOFAgents THEN agent_limit \cup {id} ELSE agent_limit

parseLine_ADD(l) ==
    /\ l.type = "add_agent"
    /\ NextLine(l)
    /\ agent_limit' = Limited(l.id)
    /\ trace_time_ticks' =
         IF l.id \in agent_limit'
         THEN Put(trace_time_ticks, l.time, [At(l.time) EXCEPT !.add_agent = Append(@, l.id)])
         ELSE trace_time_ticks

parseLine_UPDATE(l) ==
    /\ l.type = "update_agent"
    /\ NextLine(l)
    /\ trace_time_ticks' =
         IF "location" \notin disabled /\ l.id \in agent_limit
         THEN Put(trace_time_ticks, l.time,
                  [At(l.time) EXCEPT !.update_agent = Put(@, l.id, l.pos)])
         ELSE trace_time_ticks
    /\ UNCHANGED agent_limit

\* The "default" of the switch, which throws, is out of reach.
parseLine_MULTICAST(l) ==
    /\ l.type \in {"multicast", "other"}
    /\ NextLine(l)
    /\ trace_time_ticks' =
         IF "communication" \notin disabled /\ l.id \in agent_limit
         THEN Put(trace_time_ticks, l.time,
                  [At(l.time) EXCEPT !.multicast = Append(@, [from |-> l.id, to |-> l.to])])
         ELSE trace_time_ticks
    /\ UNCHANGED agent_limit

parseLine ==
    \E l \in Lines : \/ parseLine_tick(l)
                     \/ parseLine_ADD(l)
                     \/ parseLine_UPDATE(l)
                     \/ parseLine_MULTICAST(l)

-----------------------------------------------------------------------------
(* Running *)

\* currTick++, or the first tick for t = End.
NextTick(t) ==
    LET later == {u \in DOMAIN trace_time_ticks : u > t}
    IN IF later = {} THEN End ELSE Min(later)

\* createNodes takes an id from agentsList for each node, in ascending order.
NodeIds ==
    {id \in agent_limit : Rank(agent_limit, id) < maxNOFAgents}

\* The protocols createNodes has a radio for.
KnownProtocols == {"80211b", "80211p"}

\* The rest of start: createNodes throws for another protocol; it makes maxNOFAgents
\* agents, and runs past the end of agentsList if there are fewer ids; then the
\* profile begins and pause() is scheduled.
start(protocol) ==
    /\ phase = "parsing"
    /\ \/ /\ protocol \in KnownProtocols
          /\ Cardinality(agent_limit) >= maxNOFAgents
          /\ phase' = "running"
          /\ AllAgents' = NodeIds
          /\ currTick' = NextTick(End)
          /\ currLog' = logGeneric(logSiMobilityBegin)
          /\ UNCHANGED <<disabled, parsed, pos, interval, now, ran, LogFile, ref_count>>
       \/ /\ \/ protocol \notin KnownProtocols
             \/ Cardinality(agent_limit) < maxNOFAgents
          /\ Crash

\* Mutant: a report for every hundredth.
ReportFails_Percent ==
    currTick > 0 /\ Cardinality(DOMAIN trace_time_ticks) \div (Parts * Parts) = 0

\* The progress report takes the tick modulo a tenth of the number of ticks.
ReportFails == currTick > 0 /\ Cardinality(DOMAIN trace_time_ticks) \div Parts = 0

\* Mutant: the time since the tick before.
Interval_Previous ==
    IF ran # << >> THEN currTick - ran[Len(ran)].tick ELSE 1

\* The time to the next tick; the last tick keeps the interval before it.
Interval ==
    IF NextTick(currTick) # End THEN NextTick(currTick) - currTick ELSE interval

\* makeOpaqueSend leaves to_ids out when there is no recipient, and
\* parseOpaqueSend throws.
SendFails ==
    \E i \in DOMAIN At(currTick).multicast : At(currTick).multicast[i].to = {}

\* Mutant: currTick is moved on before pushToQueue.
pushToQueue_Late == At(NextTick(currTick)).update_agent

\* pushToQueue's all_locations message: the updates of the current tick.
pushToQueue == At(currTick).update_agent

\* AllLocationHandler on that message.
Moved(updates) ==
    [id \in Ids |-> IF id \in AllAgents \cap DOMAIN updates THEN updates[id] ELSE pos[id]]

\* Mutant: the number of the tick that currTick has been moved on to.
TickId_Late == NextTick(currTick) \div Interval

\* The number of a tick in the profile, "sort of an approximation".
TickId == currTick \div Interval

\* What pause adds to the profile.
PauseLog ==
    LET agents == Cardinality(DOMAIN pushToQueue)
    IN <<logTickBegin(TickId, agents), logTickEnd(TickId, agents)>>

\* RoadRunnerBaseLine::pause.  Every opaque_send is from SelfId, which is no
\* agent, so that OpaqueSendHandler sends nothing.
pause ==
    /\ phase = "running"
    /\ \/ /\ currTick = End \/ ReportFails \/ Interval = 0 \/ SendFails
          /\ Crash
       \/ /\ currTick # End
          /\ ~ReportFails
          /\ Interval # 0
          /\ ~SendFails
          /\ interval' = Interval
          /\ pos' = Moved(pushToQueue)
          /\ ran' = Append(ran, [tick |-> currTick, at |-> now])
          /\ currTick' = NextTick(currTick)
          /\ phase' = IF currTick' = End THEN "stopped" ELSE "running"
          /\ now' = IF currTick' = End THEN now ELSE now + Interval
          /\ currLog' = currLog \o PauseLog \o
                          (IF currTick' = End THEN <<logSiMobilityEnd>> ELSE << >>)
          /\ UNCHANGED <<disabled, parsed, AllAgents, LogFile, ref_count>>

startAny == \E protocol \in Protocols : start(protocol)

Next == construct \/ parse_fails \/ parseLine \/ startAny \/ pause \/ destroy

Spec == Init /\ [][Next]_vars

\* A file ends, and the simulator runs what is scheduled.
FairSpec == Spec /\ WF_vars(construct \/ startAny \/ pause \/ destroy)

-----------------------------------------------------------------------------
(* Properties *)

\* Every variable keeps its type, and agent_limit its limit.
TypeOK ==
    /\ phase \in {"constructing", "parsing", "running", "stopped", "ended", "crashed"}
    /\ disabled \in Disable
    /\ ref_count \in {0, 1}
    /\ file \in Seq(Lines)
    /\ DOMAIN trace_time_ticks \subseteq Nat
    /\ agent_limit \subseteq Ids /\ Cardinality(agent_limit) <= maxNOFAgents
    /\ AllAgents \subseteq agent_limit
    /\ pos \in [Ids -> Positions]
    /\ currTick \in DOMAIN trace_time_ticks \cup {End}
    /\ interval \in Nat /\ now \in Nat

Replaying == phase \in {"running", "stopped", "ended"}

\* The ticks of the trace are replayed in order, none twice and none left out,
\* each as many milliseconds after the first as the trace says, although every
\* step only knows the interval to the next.
ReplayedOnTime ==
    Replaying =>
        /\ {ran[i].tick : i \in DOMAIN ran} =
              {t \in DOMAIN trace_time_ticks : currTick = End \/ t < currTick}
        /\ \A i \in DOMAIN ran : ran[i].at = ran[i].tick - ran[1].tick
        /\ \A i, j \in DOMAIN ran : i < j => ran[i].tick < ran[j].tick

IsLine(i, type, id) == file[i].type = type /\ file[i].id = id

\* The ids that the file adds, and that it adds them in ascending order.
AddLines == {i \in DOMAIN file : file[i].type = "add_agent"}
AddedIds == {file[i].id : i \in AddLines}
AddedInOrder == \A i, j \in AddLines : i < j => file[i].id <= file[j].id

\* What a tick holds is all of these ids.
OnlyOf(tick, ids) ==
    /\ tick.add_agent \in Seq(ids)
    /\ DOMAIN tick.update_agent \subseteq ids
    /\ \A i \in DOMAIN tick.multicast : tick.multicast[i].from \in ids

\* rr_baseline.h on the limit: "the id of nth agent in the set is obtained('max
\* id')" and "the lines having id greter than the 'max id' are discarded".  In a
\* file that adds its agents in ascending order the agents created are the
\* maxNOFAgents lowest of them, and in any file no tick holds anything of an id
\* without an agent.  The comment says so of any file; but of one that adds its
\* agents in another order the code takes the first maxNOFAgents added, whatever
\* their ids: 2 before 1, under a limit of one, creates 2 and discards 1.  There
\* the code departs from the comment.
LowestAgents ==
    Replaying =>
        /\ AddedInOrder => AllAgents = {id \in AddedIds : Rank(AddedIds, id) < maxNOFAgents}
        /\ \A t \in DOMAIN trace_time_ticks : OnlyOf(trace_time_ticks[t], AllAgents)

\* "The time tick notification always comes first".
TickLinesFirst ==
    \A i, j \in DOMAIN file :
        file[j].type = "tick" /\ i < j => file[i].time # file[j].time

\* The update lines of an agent already added, for ticks already replayed.
UpdatesSoFar(id) ==
    {i \in DOMAIN file : /\ "location" \notin disabled
                         /\ IsLine(i, "update_agent", id)
                         /\ \E j \in 1..i : IsLine(j, "add_agent", id)
                         /\ \E k \in DOMAIN ran : ran[k].tick = file[i].time}

\* Between ticks every agent is where the latest of its update lines put it, by
\* time and then by place in the file, in whatever order the file has them.
PositionsReplayed ==
    Replaying /\ TickLinesFirst =>
        \A id \in AllAgents :
            LET U == UpdatesSoFar(id)
                last == CHOOSE i \in U : \A j \in U :
                          \/ file[j].time < file[i].time
                          \/ file[j].time = file[i].time /\ j <= i
            IN pos[id] = IF U = {} THEN Origin ELSE file[last].pos

\* The time from the i-th tick to the next; of the last one, from the one before.
Gap(i) ==
    IF i < Len(ran) THEN ran[i + 1].tick - ran[i].tick ELSE ran[i].tick - ran[i - 1].tick

\* "We're the only one left; let the log file know we have truly captured all the
\* output": a file with the last line holds, between the beginning and the end,
\* a begin and an end of every tick of the trace, in order, with the number of
\* agents it updates and the number of the tick.  That is its time divided by the
\* interval to the next tick ("sort of an approximation": at even intervals the
\* ticks are counted up, at uneven ones two of them may have one number).
LogComplete ==
    LogFile # << >> =>
        /\ Len(LogFile) = 2 * Cardinality(DOMAIN trace_time_ticks) + 3
        /\ LogFile[1] = logSiMobilityBegin
        /\ \A i \in DOMAIN ran :
              LET tick == ran[i].tick \div Gap(i)
                  agents == Cardinality(DOMAIN trace_time_ticks[ran[i].tick].update_agent)
              IN /\ LogFile[2 * i] = logTickBegin(tick, agents)
                 /\ LogFile[2 * i + 1] = logTickEnd(tick, agents)
        /\ LogFile[Len(LogFile) - 1] = logSiMobilityEnd
        /\ LogFile[Len(LogFile)] = ReachedZero

\* A trace with enough agents, at least Parts ticks, and a recipient in every
\* multicast is replayed to its end, and its profile written.
GoodTraceCompletes ==
    (/\ phase = "running"
     /\ Cardinality(DOMAIN trace_time_ticks) >= Parts
     /\ \A i \in DOMAIN file : file[i].type \in {"multicast", "other"} => file[i].to # {})
    ~> (currTick = End /\ LogFile # << >>)
=============================================================================
