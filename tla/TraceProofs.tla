---------------------------- MODULE TraceProofs -----------------------------
(***************************************************************************)
(* The trace runner, for every file, every set of ids and positions and    *)
(* every limit.  The file is read line by line into a map from times to    *)
(* ticks, and the map is walked tick by tick: each invariant says what     *)
(* both have come to so far, in terms of the lines read and of the ticks   *)
(* replayed.                                                               *)
(***************************************************************************)
EXTENDS Trace, OrderingProofs, SequenceTheorems

Updates == UNION {[ids -> Positions] : ids \in {s \in SUBSET Ids : IsFiniteSet(s)}}
TimeTicks == [add_agent: Seq(Ids), update_agent: Updates,
              multicast: Seq([from: Ids, to: SUBSET Ids])]

\* Nothing has been replayed before start, and nothing is left after Stop.
PhaseInv ==
    /\ phase = "constructing" => ref_count = 0 /\ file = << >> /\ AllAgents = {}
    /\ phase \in {"parsing", "running", "stopped"} => ref_count = 1
    /\ phase \in {"constructing", "parsing"} => currTick = End /\ now = 0 /\ ran = << >>
    /\ phase \in {"stopped", "ended"} => currTick = End

\* The ticks of the map are well formed, and the set of ids let in is finite.
TicksInv ==
    /\ IsFiniteSet(agent_limit)
    /\ \A t \in DOMAIN trace_time_ticks : trace_time_ticks[t] \in TimeTicks
    /\ ran \in Seq([tick: Nat, at: Nat])

Base == TypeOK /\ PhaseInv /\ TicksInv

-----------------------------------------------------------------------------
(* The map of ticks *)

\* A new tick is well formed.
LEMMA TimeTickType == TimeTick \in TimeTicks
<1>1. << >> \in [{} -> Positions]
  OBVIOUS
<1>2. << >> \in Updates
  BY <1>1, FS_EmptySet DEF Updates
<1> QED
  BY <1>2 DEF TimeTick, TimeTicks

\* So is the one a line finds or creates.
LEMMA AtType == ASSUME TicksInv, NEW t PROVE At(t) \in TimeTicks
BY TimeTickType DEF TicksInv, At

\* Updates grow by one.
LEMMA PutType ==
    ASSUME NEW u \in Updates, NEW id \in Ids, NEW p \in Positions
    PROVE  Put(u, id, p) \in Updates
<1>1. PICK ids \in SUBSET Ids : IsFiniteSet(ids) /\ u \in [ids -> Positions]
  BY DEF Updates
<1>2. Put(u, id, p) \in [ids \cup {id} -> Positions]
  BY <1>1 DEF Put
<1>3. ids \cup {id} \in SUBSET Ids /\ IsFiniteSet(ids \cup {id})
  BY <1>1, FS_AddElement
<1> QED
  BY <1>2, <1>3 DEF Updates

\* Walking the map: the next tick is the least later one, or there is none.
LEMMA NextTickIsNext ==
    ASSUME NEW t \in Int, DOMAIN trace_time_ticks \subseteq Nat
    PROVE  \/ /\ NextTick(t) = End
              /\ \A u \in DOMAIN trace_time_ticks : u <= t
           \/ /\ NextTick(t) \in DOMAIN trace_time_ticks
              /\ NextTick(t) > t /\ NextTick(t) # End
              /\ \A u \in DOMAIN trace_time_ticks : u > t => NextTick(t) <= u
<1> DEFINE later == {u \in DOMAIN trace_time_ticks : u > t}
<1>1. CASE later = {}
  BY <1>1 DEF NextTick
<1>2. CASE later # {}
  <2>1. later \in SUBSET Nat
    OBVIOUS
  <2>2. Min(later) \in later /\ \A u \in later : Min(later) <= u
    BY <1>2, <2>1, MinOfNaturals
  <2>3. NextTick(t) = Min(later)
    BY <1>2 DEF NextTick
  <2> HIDE DEF later
  <2>4. NextTick(t) \in later /\ \A u \in later : NextTick(t) <= u
    BY <2>2, <2>3
  <2> QED
    BY <2>4 DEF later, End
<1> QED
  BY <1>1, <1>2

-----------------------------------------------------------------------------
(* Types *)

\* What every line has.
LEMMA LineTypesOK ==
    ASSUME NEW l \in Lines
    PROVE  l.time \in Nat /\ l.id \in Ids /\ l.pos \in Positions /\ l.to \in SUBSET Ids
BY TraceConstants

\* The limit holds, with every id that comes.
LEMMA LimitedKeeps ==
    ASSUME NEW id \in Ids, agent_limit \subseteq Ids, IsFiniteSet(agent_limit),
           Cardinality(agent_limit) <= maxNOFAgents
    PROVE  /\ Limited(id) \subseteq Ids /\ IsFiniteSet(Limited(id))
           /\ Cardinality(Limited(id)) <= maxNOFAgents
           /\ agent_limit \subseteq Limited(id)
<1>1. /\ IsFiniteSet(agent_limit \cup {id})
      /\ Cardinality(agent_limit \cup {id}) =
           IF id \in agent_limit THEN Cardinality(agent_limit) ELSE Cardinality(agent_limit) + 1
  BY FS_AddElement
<1>2. Cardinality(agent_limit) \in Nat /\ maxNOFAgents \in Nat
  BY FS_CardinalityType, TraceConstants
<1> QED
  BY <1>1, <1>2 DEF Limited

\* A line goes into one tick of the map.
LEMMA LineEffect ==
    ASSUME Base, NEW l \in Lines,
           parseLine_tick(l) \/ parseLine_ADD(l) \/ parseLine_UPDATE(l) \/ parseLine_MULTICAST(l)
    PROVE  /\ NextLine(l)
           /\ agent_limit' = IF l.type = "add_agent" THEN Limited(l.id) ELSE agent_limit
           /\ \/ trace_time_ticks' = trace_time_ticks
              \/ \E tick \in TimeTicks : trace_time_ticks' = Put(trace_time_ticks, l.time, tick)
<1>0. At(l.time) \in TimeTicks
  BY AtType DEF Base
<1>1. CASE parseLine_tick(l)
  BY <1>1, TimeTickType DEF parseLine_tick
<1>2. CASE parseLine_ADD(l)
  <2>1. [At(l.time) EXCEPT !.add_agent = Append(@, l.id)] \in TimeTicks
    <3>1. Append(At(l.time).add_agent, l.id) \in Seq(Ids)
      BY <1>0, LineTypesOK, AppendProperties DEF TimeTicks
    <3> QED
      BY <1>0, <3>1 DEF TimeTicks
  <2> QED
    BY <1>2, <2>1 DEF parseLine_ADD
<1>3. CASE parseLine_UPDATE(l)
  <2>1. [At(l.time) EXCEPT !.update_agent = Put(@, l.id, l.pos)] \in TimeTicks
    <3>1. Put(At(l.time).update_agent, l.id, l.pos) \in Updates
      BY <1>0, LineTypesOK, PutType DEF TimeTicks
    <3> QED
      BY <1>0, <3>1 DEF TimeTicks
  <2> QED
    BY <1>3, <2>1 DEF parseLine_UPDATE
<1>4. CASE parseLine_MULTICAST(l)
  <2>1. [At(l.time) EXCEPT !.multicast = Append(@, [from |-> l.id, to |-> l.to])] \in TimeTicks
    <3>1. Append(At(l.time).multicast, [from |-> l.id, to |-> l.to]) \in Seq([from: Ids, to: SUBSET Ids])
      <4>1. [from |-> l.id, to |-> l.to] \in [from: Ids, to: SUBSET Ids]
        BY LineTypesOK
      <4> QED
        BY <1>0, <4>1, AppendProperties DEF TimeTicks
    <3> QED
      BY <1>0, <3>1 DEF TimeTicks
  <2> QED
    BY <1>4, <2>1 DEF parseLine_MULTICAST
<1> QED
  BY <1>1, <1>2, <1>3, <1>4

\* The state after a line.
LEMMA LineKeepsBase ==
    ASSUME Base, NEW l \in Lines, NextLine(l),
           agent_limit' = IF l.type = "add_agent" THEN Limited(l.id) ELSE agent_limit,
           \/ trace_time_ticks' = trace_time_ticks
           \/ \E tick \in TimeTicks : trace_time_ticks' = Put(trace_time_ticks, l.time, tick)
    PROVE  Base'
<1>1. /\ DOMAIN trace_time_ticks \subseteq DOMAIN trace_time_ticks'
      /\ DOMAIN trace_time_ticks' \subseteq Nat
      /\ \A t \in DOMAIN trace_time_ticks' : trace_time_ticks'[t] \in TimeTicks
  BY LineTypesOK DEF Base, TypeOK, TicksInv, Put
<1>2. file' \in Seq(Lines)
  BY AppendProperties DEF NextLine, Base, TypeOK
<1>3. /\ agent_limit' \subseteq Ids /\ IsFiniteSet(agent_limit')
      /\ Cardinality(agent_limit') <= maxNOFAgents /\ agent_limit \subseteq agent_limit'
  BY LineTypesOK, LimitedKeeps DEF Base, TypeOK, TicksInv
<1>4. TypeOK'
  BY <1>1, <1>2, <1>3 DEF Base, TypeOK, NextLine, clock, profile
<1> QED
  BY <1>1, <1>3, <1>4 DEF Base, PhaseInv, TicksInv, NextLine, clock, profile

\* Replaying a tick: the walk goes on to the next, at its time.
LEMMA PauseEffect ==
    ASSUME Base, pause, phase' # "crashed"
    PROVE  /\ currTick \in DOMAIN trace_time_ticks /\ currTick \in Nat /\ Interval \in Nat \ {0}
           /\ phase = "running" /\ interval' = Interval /\ pos' = Moved(pushToQueue)
           /\ ran' = Append(ran, [tick |-> currTick, at |-> now])
           /\ currTick' = NextTick(currTick)
           /\ \/ /\ currTick' = End /\ phase' = "stopped" /\ now' = now
                 /\ \A u \in DOMAIN trace_time_ticks : u <= currTick
              \/ /\ currTick' \in DOMAIN trace_time_ticks /\ currTick' > currTick /\ currTick' # End
                 /\ phase' = "running" /\ now' = now + (currTick' - currTick)
                 /\ \A u \in DOMAIN trace_time_ticks : u > currTick => currTick' <= u
           /\ UNCHANGED <<disabled, parsed, AllAgents, LogFile, ref_count>>
<1>1. /\ phase = "running" /\ currTick # End /\ Interval # 0
      /\ interval' = Interval /\ pos' = Moved(pushToQueue)
      /\ ran' = Append(ran, [tick |-> currTick, at |-> now])
      /\ currTick' = NextTick(currTick)
      /\ phase' = IF currTick' = End THEN "stopped" ELSE "running"
      /\ now' = IF currTick' = End THEN now ELSE now + Interval
      /\ UNCHANGED <<disabled, parsed, AllAgents, LogFile, ref_count>>
  BY DEF pause, Crash
<1>2. /\ currTick \in DOMAIN trace_time_ticks /\ currTick \in Nat /\ currTick \in Int
      /\ DOMAIN trace_time_ticks \subseteq Nat
  BY <1>1 DEF Base, TypeOK
<1>3. CASE currTick' = End
  <2>1. \A u \in DOMAIN trace_time_ticks : u <= currTick
    BY <1>1, <1>2, <1>3, NextTickIsNext
  <2>2. Interval = interval
    BY <1>1, <1>3 DEF Interval
  <2> QED
    BY <1>1, <1>2, <1>3, <2>1, <2>2 DEF Base, TypeOK
<1>4. CASE currTick' # End
  <2>1. /\ currTick' \in DOMAIN trace_time_ticks /\ currTick' > currTick
        /\ \A u \in DOMAIN trace_time_ticks : u > currTick => currTick' <= u
    BY <1>1, <1>2, <1>4, NextTickIsNext
  <2>2. Interval = currTick' - currTick
    BY <1>1, <1>4 DEF Interval
  <2> QED
    BY <1>1, <1>2, <1>4, <2>1, <2>2
<1> QED
  BY <1>3, <1>4

\* Every step keeps the types.
LEMMA NextBase == Base /\ [Next]_vars => Base'
<1> SUFFICES ASSUME Base, [Next]_vars PROVE Base'
  OBVIOUS
<1>1. CASE Crash
  BY <1>1 DEF Base, TypeOK, PhaseInv, TicksInv, Crash, parsed, clock, profile
<1>2. CASE construct
  <2>1. CASE ~Crash
    <3>1. /\ phase = "constructing" /\ phase' = "parsing" /\ ref_count' = 1
          /\ UNCHANGED <<disabled, parsed, AllAgents, pos, clock>>
      BY <1>2, <2>1 DEF Base, PhaseInv, construct
    <3>2. TypeOK'
      BY <3>1 DEF Base, TypeOK, parsed, clock
    <3> QED
      BY <3>1, <3>2 DEF Base, PhaseInv, TicksInv, parsed, clock
  <2> QED
    BY <1>1, <2>1
<1>3. CASE parse_fails
  BY <1>1, <1>3 DEF parse_fails
<1>4. CASE parseLine
  BY <1>4, LineEffect, LineKeepsBase DEF parseLine
<1>5. ASSUME NEW protocol \in Protocols, start(protocol) PROVE Base'
  <2>1. CASE ~Crash
    <3>1. /\ phase = "parsing" /\ phase' = "running" /\ AllAgents' = NodeIds
          /\ currTick' = NextTick(End)
          /\ UNCHANGED <<disabled, parsed, pos, interval, now, ran, LogFile, ref_count>>
      BY <1>5, <2>1 DEF start
    <3>2. currTick' \in DOMAIN trace_time_ticks \cup {End}
      BY <3>1, NextTickIsNext DEF Base, TypeOK, End
    <3>3. AllAgents' \subseteq agent_limit
      BY <3>1 DEF NodeIds
    <3> QED
      BY <3>1, <3>2, <3>3 DEF Base, TypeOK, PhaseInv, TicksInv, parsed
  <2> QED
    BY <1>1, <2>1
<1>6. CASE pause
  <2>1. CASE ~Crash
    <3>0. phase' # "crashed"
      BY <1>6, <2>1 DEF pause
    <3> HIDE DEF Base
    <3>1. /\ currTick \in Nat /\ currTick \in DOMAIN trace_time_ticks
          /\ Interval \in Nat /\ phase = "running" /\ interval' = Interval
          /\ pos' = Moved(pushToQueue)
          /\ ran' = Append(ran, [tick |-> currTick, at |-> now])
          /\ \/ currTick' = End /\ phase' = "stopped" /\ now' = now
             \/ /\ currTick' \in DOMAIN trace_time_ticks /\ phase' = "running"
                /\ now' = now + (currTick' - currTick) /\ currTick' > currTick
          /\ UNCHANGED <<disabled, parsed, AllAgents, LogFile, ref_count>>
      BY <1>6, <3>0, PauseEffect
    <3>2. pos' \in [Ids -> Positions]
      <4>1. pushToQueue \in Updates
        BY AtType DEF Base, pushToQueue, TimeTicks
      <4>2. \A id \in DOMAIN pushToQueue : pushToQueue[id] \in Positions
        BY <4>1 DEF Updates
      <4> QED
        BY <3>1, <4>2 DEF Moved, Base, TypeOK
    <3>3. ran' \in Seq([tick: Nat, at: Nat])
      <4>1. [tick |-> currTick, at |-> now] \in [tick: Nat, at: Nat]
        BY <3>1 DEF Base, TypeOK
      <4> QED
        BY <3>1, <4>1, AppendProperties DEF Base, TicksInv
    <3>4. now' \in Nat
      BY <3>1 DEF Base, TypeOK
    <3>5. TypeOK'
      BY <3>1, <3>2, <3>4 DEF Base, TypeOK, parsed
    <3> QED
      BY <3>1, <3>3, <3>5 DEF Base, PhaseInv, TicksInv, parsed
  <2> QED
    BY <1>1, <2>1
<1>7. CASE destroy
  BY <1>7 DEF Base, TypeOK, PhaseInv, TicksInv, destroy, parsed, clock
<1>8. CASE UNCHANGED vars
  BY <1>8 DEF Base, TypeOK, PhaseInv, TicksInv, vars, parsed, clock, profile
<1> QED
  BY <1>2, <1>3, <1>4, <1>5, <1>6, <1>7, <1>8 DEF Next, startAny

\* Before anything is read.
LEMMA InitBase == Init => Base
<1> SUFFICES ASSUME Init PROVE Base
  OBVIOUS
<1>1. IsFiniteSet({}) /\ Cardinality({}) = 0 /\ maxNOFAgents \in Nat /\ Origin \in Positions
  BY FS_EmptySet, TraceConstants
<1>2. TypeOK
  BY <1>1 DEF Init, TypeOK
<1> QED
  BY <1>1, <1>2 DEF Init, Base, PhaseInv, TicksInv

\* Types and phases hold throughout.
THEOREM BaseInvariance == Spec => []Base
<1> QED
  BY InitBase, NextBase, PTL DEF Spec

\* Every variable keeps its type, and agent_limit its limit.
THEOREM TypeCorrect == Spec => []TypeOK
<1>1. Base => TypeOK
  BY DEF Base
<1> QED
  BY <1>1, BaseInvariance, PTL

-----------------------------------------------------------------------------
(* Replaying on time *)

\* The clock shows how long after the first tick the next one is.
ReplayInv ==
    /\ ReplayedOnTime
    /\ phase = "running" /\ currTick # End =>
         IF ran = << >> THEN now = 0 ELSE now = currTick - ran[1].tick

\* What one more tick makes of the history.
LEMMA RanGrows ==
    ASSUME Base, pause, phase' # "crashed"
    PROVE  /\ Len(ran) \in Nat /\ DOMAIN ran = 1..Len(ran) /\ DOMAIN ran' = 1..(Len(ran) + 1)
           /\ ran' # << >>
           /\ \A i \in 1..Len(ran) : ran'[i] = ran[i] /\ ran[i].tick \in Nat
           /\ ran'[Len(ran) + 1].tick = currTick /\ ran'[Len(ran) + 1].at = now
<1>1. /\ ran \in Seq([tick: Nat, at: Nat]) /\ [tick |-> currTick, at |-> now] \in [tick: Nat, at: Nat]
      /\ ran' = Append(ran, [tick |-> currTick, at |-> now])
  BY PauseEffect DEF Base, TypeOK, TicksInv
<1>2. \A i \in 1..Len(ran) : ran[i] \in [tick: Nat, at: Nat]
  BY <1>1, ElementOfSeq
<1> QED
  BY <1>1, <1>2, AppendProperties

\* The walk so far has replayed the ticks before the next, each when it was due.
LEMMA PauseReplay == ASSUME Base, ReplayInv, pause PROVE ReplayInv'
<1>1. CASE phase' = "crashed"
  BY <1>1 DEF ReplayInv, ReplayedOnTime, Replaying
<1>2. CASE phase' # "crashed"
  <2> DEFINE n == Len(ran)
             done == {ran[i].tick : i \in DOMAIN ran}
  <2>1. /\ n \in Nat /\ DOMAIN ran = 1..n /\ DOMAIN ran' = 1..(n + 1) /\ ran' # << >>
        /\ \A i \in 1..n : ran'[i] = ran[i] /\ ran[i].tick \in Nat
        /\ ran'[n + 1].tick = currTick /\ ran'[n + 1].at = now
    BY <1>2, RanGrows
  <2>2. /\ currTick \in Nat /\ currTick \in DOMAIN trace_time_ticks /\ phase = "running" /\ currTick # End
        /\ trace_time_ticks' = trace_time_ticks /\ DOMAIN trace_time_ticks \subseteq Nat
        /\ \/ /\ currTick' = End /\ phase' = "stopped" /\ now' = now
              /\ \A u \in DOMAIN trace_time_ticks : u <= currTick
           \/ /\ currTick' \in DOMAIN trace_time_ticks /\ currTick' > currTick /\ currTick' # End
              /\ phase' = "running" /\ now' = now + (currTick' - currTick)
              /\ \A u \in DOMAIN trace_time_ticks : u > currTick => currTick' <= u
    BY <1>2, PauseEffect DEF Base, TypeOK, End, parsed
  <2>3. /\ done = {t \in DOMAIN trace_time_ticks : t < currTick}
        /\ \A i \in 1..n : ran[i].at = ran[i].tick - ran[1].tick
        /\ \A i, j \in 1..n : i < j => ran[i].tick < ran[j].tick
        /\ n = 0 => now = 0
        /\ n # 0 => now = currTick - ran[1].tick
    <3>1. n = 0 <=> ran = << >>
      BY EmptySeq DEF Base, TicksInv
    <3> QED
      BY <2>1, <2>2, <3>1 DEF ReplayInv, ReplayedOnTime, Replaying
  <2>4. {ran'[i].tick : i \in DOMAIN ran'} = done \cup {currTick}
    BY <2>1
  <2>5. done \cup {currTick} = {t \in DOMAIN trace_time_ticks : currTick' = End \/ t < currTick'}
    <3> HIDE DEF done
    <3>1. \A t \in DOMAIN trace_time_ticks : (t < currTick \/ t = currTick) <=> (currTick' = End \/ t < currTick')
      BY <2>2
    <3> QED
      BY <2>2, <2>3, <3>1
  <2>6. \A i \in DOMAIN ran' : ran'[i].at = ran'[i].tick - ran'[1].tick
    <3> SUFFICES ASSUME NEW i \in 1..(n + 1) PROVE ran'[i].at = ran'[i].tick - ran'[1].tick
      BY <2>1
    <3>1. CASE i \in 1..n
      <4>1. 1 \in 1..n
        BY <2>1, <3>1
      <4> QED
        BY <2>1, <2>3, <3>1, <4>1
    <3>2. CASE i = n + 1 /\ n = 0
      BY <2>1, <2>2, <2>3, <3>2
    <3>3. CASE i = n + 1 /\ n # 0
      BY <2>1, <2>3, <3>3
    <3> QED
      BY <2>1, <3>1, <3>2, <3>3
  <2>7. \A i, j \in DOMAIN ran' : i < j => ran'[i].tick < ran'[j].tick
    <3> SUFFICES ASSUME NEW i \in 1..(n + 1), NEW j \in 1..(n + 1), i < j
                 PROVE  ran'[i].tick < ran'[j].tick
      BY <2>1
    <3>1. i \in 1..n /\ ran'[i] = ran[i]
      BY <2>1
    <3>2. CASE j \in 1..n
      BY <2>1, <2>3, <3>1, <3>2
    <3>3. CASE j = n + 1
      <4>1. ran[i].tick \in done
        BY <2>1, <3>1
      <4> HIDE DEF done
      <4> QED
        BY <2>1, <2>3, <3>1, <3>3, <4>1
    <3> QED
      BY <2>1, <3>2, <3>3
  <2>8. phase' = "running" => now' = currTick' - ran'[1].tick
    <3>1. CASE n = 0
      BY <2>1, <2>2, <2>3, <3>1
    <3>2. CASE n # 0
      <4>1. ran'[1] = ran[1] /\ ran[1].tick \in Nat
        BY <2>1, <3>2
      <4> QED
        BY <2>2, <2>3, <3>2, <4>1
    <3> QED
      BY <3>1, <3>2
  <2> QED
    BY <2>1, <2>2, <2>4, <2>5, <2>6, <2>7, <2>8 DEF ReplayInv, ReplayedOnTime
<1> QED
  BY <1>1, <1>2

\* Only pause moves the clock; start sets it at the first tick.
LEMMA NextReplay == Base /\ ReplayInv /\ [Next]_vars => ReplayInv'
<1> SUFFICES ASSUME Base, ReplayInv, [Next]_vars PROVE ReplayInv'
  OBVIOUS
<1>1. CASE construct \/ parse_fails \/ parseLine
  <2>1. phase' \in {"parsing", "crashed"}
    BY <1>1 DEF construct, parse_fails, parseLine, parseLine_tick, parseLine_ADD, parseLine_UPDATE,
                parseLine_MULTICAST, NextLine, Crash
  <2> QED
    BY <2>1 DEF ReplayInv, ReplayedOnTime, Replaying
<1>2. ASSUME NEW protocol \in Protocols, start(protocol) PROVE ReplayInv'
  <2>1. CASE phase' = "crashed"
    BY <2>1 DEF ReplayInv, ReplayedOnTime, Replaying
  <2>2. CASE phase' # "crashed"
    <3>1. /\ currTick' = NextTick(End) /\ ran' = << >> /\ now' = 0
          /\ trace_time_ticks' = trace_time_ticks /\ DOMAIN trace_time_ticks \subseteq Nat
      BY <1>2, <2>2 DEF start, Crash, Base, TypeOK, PhaseInv, parsed
    <3>2. \A u \in DOMAIN trace_time_ticks : ~(currTick' = End \/ u < currTick')
      <4>1. End \in Int
        BY DEF End
      <4> QED
        BY <3>1, <4>1, NextTickIsNext DEF End
    <3>3. DOMAIN ran' = {}
      BY <3>1
    <3> QED
      BY <3>1, <3>2, <3>3 DEF ReplayInv, ReplayedOnTime
  <2> QED
    BY <2>1, <2>2
<1>3. CASE pause
  BY <1>3, PauseReplay
<1>4. CASE destroy
  BY <1>4 DEF ReplayInv, ReplayedOnTime, Replaying, destroy, parsed, clock
<1>5. CASE UNCHANGED vars
  BY <1>5 DEF ReplayInv, ReplayedOnTime, Replaying, vars, parsed, clock
<1> QED
  BY <1>1, <1>2, <1>3, <1>4, <1>5 DEF Next, startAny

\* The walk and the clock stay together.
LEMMA ReplayInvariance == Spec => [](Base /\ ReplayInv)
<1>1. Init => ReplayInv
  BY DEF Init, ReplayInv, ReplayedOnTime, Replaying
<1> QED
  BY <1>1, NextReplay, BaseInvariance, PTL DEF Spec

\* The ticks of the trace are replayed in order, none twice and none left out,
\* each as long after the first as the trace says, whatever the times are.
THEOREM TicksOnTime == Spec => []ReplayedOnTime
<1>1. ReplayInv => ReplayedOnTime
  BY DEF ReplayInv
<1> QED
  BY <1>1, ReplayInvariance, PTL

-----------------------------------------------------------------------------
(* The first agents *)

\* The ids that the first i lines add.
Added(i) == {file[j].id : j \in {k \in 1..i : file[k].type = "add_agent"}}

\* The ids added while no more than maxNOFAgents had been.
FirstAdded ==
    {id \in Ids : \E i \in DOMAIN file : /\ IsLine(i, "add_agent", id)
                                         /\ Cardinality(Added(i)) <= maxNOFAgents}

\* The ids let in are these, and they are all that were added until there are
\* more than the limit; from then on there are as many as the limit.
LimitInv ==
    /\ agent_limit = FirstAdded
    /\ IsFiniteSet(Added(Len(file)))
    /\ \/ agent_limit = Added(Len(file))
       \/ /\ Cardinality(agent_limit) = maxNOFAgents
          /\ Cardinality(Added(Len(file))) > maxNOFAgents
    /\ Replaying => AllAgents = agent_limit

\* What one more line makes of the file.
LEMMA FileGrows ==
    ASSUME Base, NEW l \in Lines, NextLine(l)
    PROVE  /\ Len(file) \in Nat /\ DOMAIN file = 1..Len(file)
           /\ Len(file') = Len(file) + 1 /\ DOMAIN file' = 1..(Len(file) + 1)
           /\ \A i \in 1..Len(file) : file'[i] = file[i] /\ file[i] \in Lines
           /\ file'[Len(file) + 1] = l
<1>1. file \in Seq(Lines) /\ file' = Append(file, l)
  BY DEF Base, TypeOK, NextLine
<1>2. \A i \in 1..Len(file) : file[i] \in Lines
  BY <1>1, ElementOfSeq
<1> QED
  BY <1>1, <1>2, AppendProperties

\* What one more line makes of the ids added.
LEMMA AddedGrows ==
    ASSUME Base, NEW l \in Lines, NextLine(l)
    PROVE  /\ \A i \in 1..Len(file) : Added(i)' = Added(i)
           /\ Added(Len(file))' =
                IF l.type = "add_agent" THEN Added(Len(file)) \cup {l.id} ELSE Added(Len(file))
<1>0. /\ Len(file) \in Nat /\ \A i \in 1..Len(file) : file'[i] = file[i]
      /\ file'[Len(file) + 1] = l
  BY FileGrows
<1>1. ASSUME NEW i \in 1..Len(file) PROVE Added(i)' = Added(i)
  <2>1. \A k \in 1..i : file'[k] = file[k]
    BY <1>0
  <2> QED
    BY <2>1 DEF Added
<1> DEFINE n == Len(file)
           adds == {k \in 1..n : file[k].type = "add_agent"}
           adds1 == {k \in 1..(n + 1) : file'[k].type = "add_agent"}
<1>2. adds1 = IF l.type = "add_agent" THEN adds \cup {n + 1} ELSE adds
  BY <1>0
<1>3. Added(Len(file))' = {file'[k].id : k \in adds1}
  BY FileGrows DEF Added
<1>4. {file'[k].id : k \in adds} = {file[k].id : k \in adds}
  BY <1>0
<1>5. {file'[k].id : k \in adds1} =
        IF l.type = "add_agent" THEN {file[k].id : k \in adds} \cup {l.id} ELSE {file[k].id : k \in adds}
  BY <1>0, <1>2, <1>4
<1> QED
  BY <1>1, <1>3, <1>5 DEF Added

\* A line that adds an id lets it in if the limit allows, or if it was let in.
LEMMA LineLimit ==
    ASSUME Base, LimitInv, NEW l \in Lines, NextLine(l),
           agent_limit' = IF l.type = "add_agent" THEN Limited(l.id) ELSE agent_limit
    PROVE  LimitInv'
<1> DEFINE n == Len(file)
           old == Added(Len(file))
           new == IF l.type = "add_agent" THEN old \cup {l.id} ELSE old
<1>1. /\ n \in Nat /\ DOMAIN file = 1..n /\ Len(file') = n + 1 /\ DOMAIN file' = 1..(n + 1)
      /\ \A i \in 1..n : file'[i] = file[i]
      /\ file'[n + 1] = l /\ l.id \in Ids
  BY FileGrows, LineTypesOK
<1>2. Added(Len(file))' = new /\ \A i \in 1..n : Added(i)' = Added(i)
  BY AddedGrows
<1>3. ~Replaying'
  BY DEF NextLine, Replaying
<1>4. /\ IsFiniteSet(old) /\ Cardinality(old) \in Nat /\ maxNOFAgents \in Nat
      /\ IsFiniteSet(old \cup {l.id})
      /\ Cardinality(old \cup {l.id}) = IF l.id \in old THEN Cardinality(old) ELSE Cardinality(old) + 1
  BY FS_AddElement, FS_CardinalityType, TraceConstants DEF LimitInv
<1>5. /\ Cardinality(agent_limit) \in Nat /\ Cardinality(agent_limit) <= maxNOFAgents
      /\ \/ agent_limit = old
         \/ Cardinality(agent_limit) = maxNOFAgents /\ Cardinality(old) > maxNOFAgents
  BY FS_CardinalityType DEF Base, TypeOK, TicksInv, LimitInv
<1>6. FirstAdded' = IF l.type = "add_agent" /\ Cardinality(new) <= maxNOFAgents
                    THEN FirstAdded \cup {l.id} ELSE FirstAdded
  <2> DEFINE Early(i, id) == IsLine(i, "add_agent", id) /\ Cardinality(Added(i)) <= maxNOFAgents
  <2>1. ASSUME NEW id \in Ids, NEW i \in 1..n PROVE Early(i, id)' <=> Early(i, id)
    BY <1>1, <1>2 DEF IsLine
  <2>2. ASSUME NEW id \in Ids
        PROVE  (\E i \in DOMAIN file' : Early(i, id)')
                 <=> \/ \E i \in DOMAIN file : Early(i, id)
                     \/ l.type = "add_agent" /\ l.id = id /\ Cardinality(new) <= maxNOFAgents
    <3>1. PICK m \in Nat : m = n + 1
      BY <1>1
    <3>2. Added(m)' = new
      BY <1>1, <1>2, <3>1 DEF Added
    <3>3. Early(m, id)' <=> l.type = "add_agent" /\ l.id = id /\ Cardinality(new) <= maxNOFAgents
      BY <1>1, <3>1, <3>2 DEF IsLine
    <3> HIDE DEF Early
    <3> QED
      BY <1>1, <2>1, <3>1, <3>3
  <2> QED
    BY <1>1, <2>2 DEF FirstAdded
<1>7. CASE l.type # "add_agent"
  BY <1>1, <1>2, <1>3, <1>6, <1>7 DEF LimitInv
<1>8. CASE l.type = "add_agent" /\ Cardinality(agent_limit) < maxNOFAgents
  <2>1. agent_limit = old /\ agent_limit' = old \cup {l.id}
    BY <1>5, <1>8 DEF Limited
  <2>2. Cardinality(new) <= maxNOFAgents
    BY <1>4, <1>5, <1>8, <2>1
  <2> QED
    BY <1>2, <1>3, <1>4, <1>6, <1>8, <2>1, <2>2 DEF LimitInv
<1>9. CASE l.type = "add_agent" /\ Cardinality(agent_limit) = maxNOFAgents
  <2>1. agent_limit' = agent_limit
    BY <1>9, TraceConstants DEF Limited
  <2>2. CASE agent_limit = old /\ l.id \in old
    BY <1>2, <1>3, <1>4, <1>6, <1>9, <2>1, <2>2 DEF LimitInv
  <2>3. CASE ~(agent_limit = old /\ l.id \in old)
    <3>1. Cardinality(new) > maxNOFAgents
      BY <1>4, <1>5, <1>9, <2>3
    <3>2. ~(Cardinality(new) <= maxNOFAgents)
      BY <1>4, <1>9, <3>1
    <3> QED
      BY <1>2, <1>3, <1>4, <1>6, <1>9, <2>1, <3>1, <3>2 DEF LimitInv
  <2> QED
    BY <2>2, <2>3
<1> QED
  BY <1>5, <1>7, <1>8, <1>9, TraceConstants

\* The other steps leave the file and the ids let in alone; start creates an
\* agent for each of them.
LEMMA NextLimit == Base /\ LimitInv /\ [Next]_vars => LimitInv'
<1> SUFFICES ASSUME Base, LimitInv, [Next]_vars PROVE LimitInv'
  OBVIOUS
<1>1. ASSUME UNCHANGED <<file, agent_limit>>, Replaying' => AllAgents' = agent_limit PROVE LimitInv'
  <2>1. FirstAdded' = FirstAdded /\ Added(Len(file))' = Added(Len(file))
    BY <1>1 DEF FirstAdded, Added, IsLine
  <2> QED
    BY <1>1, <2>1 DEF LimitInv
<1>2. CASE parseLine
  BY <1>2, LineEffect, LineLimit DEF parseLine
<1>3. CASE construct \/ parse_fails
  BY <1>1, <1>3 DEF construct, parse_fails, Crash, parsed, Replaying
<1>4. ASSUME NEW protocol \in Protocols, start(protocol) PROVE LimitInv'
  <2>1. CASE phase' = "crashed"
    BY <1>1, <1>4, <2>1 DEF start, Crash, parsed, Replaying
  <2>2. CASE phase' # "crashed"
    <3>1. AllAgents' = NodeIds /\ Cardinality(agent_limit) >= maxNOFAgents /\ UNCHANGED parsed
      BY <1>4, <2>2 DEF start, Crash
    <3>2. /\ agent_limit \in SUBSET Nat /\ IsFiniteSet(agent_limit)
          /\ Cardinality(agent_limit) <= maxNOFAgents /\ maxNOFAgents \in Nat
      BY TraceConstants DEF Base, TypeOK, TicksInv
    <3>3. \A id \in agent_limit : Rank(agent_limit, id) < maxNOFAgents
      BY <3>1, <3>2, RankBounds
    <3>4. NodeIds = agent_limit
      BY <3>3 DEF NodeIds
    <3> QED
      BY <1>1, <3>1, <3>4 DEF parsed
  <2> QED
    BY <2>1, <2>2
<1>5. CASE pause \/ destroy
  <2>1. UNCHANGED <<parsed, AllAgents>> /\ phase \in {"running", "stopped"}
    BY <1>5 DEF pause, destroy, Crash
  <2> QED
    BY <1>1, <2>1 DEF parsed, LimitInv, Replaying
<1>6. CASE UNCHANGED vars
  BY <1>1, <1>6 DEF vars, parsed, LimitInv, Replaying
<1> QED
  BY <1>2, <1>3, <1>4, <1>5, <1>6 DEF Next, startAny

\* The limit holds with the file read so far.
LEMMA LimitInvariance == Spec => [](Base /\ LimitInv)
<1>1. Init => LimitInv
  <2> SUFFICES ASSUME Init PROVE LimitInv
    OBVIOUS
  <2>1. Len(file) = 0 /\ DOMAIN file = {} /\ agent_limit = {} /\ ~Replaying
    BY DEF Init, Replaying
  <2>2. Added(Len(file)) = {} /\ FirstAdded = {}
    BY <2>1 DEF Added, FirstAdded
  <2> QED
    BY <2>1, <2>2, FS_EmptySet DEF LimitInv
<1> QED
  BY <1>1, NextLimit, BaseInvariance, PTL DEF Spec

\* In a file that adds its agents in ascending order the first ones are the
\* lowest: the ids below one of the first have all been added before it.
LEMMA FirstAreLowest ==
    ASSUME Base, LimitInv, AddedInOrder
    PROVE  FirstAdded = {id \in AddedIds : Rank(AddedIds, id) < maxNOFAgents}
<1> DEFINE n == Len(file)
<1>1. /\ n \in Nat /\ DOMAIN file = 1..n /\ maxNOFAgents \in Nat
      /\ \A i \in 1..n : file[i].id \in Ids /\ file[i].id \in Nat
  <2>1. file \in Seq(Lines)
    BY DEF Base, TypeOK
  <2>2. \A i \in 1..n : file[i] \in Lines
    BY <2>1, ElementOfSeq
  <2>3. n \in Nat /\ DOMAIN file = 1..n
    BY <2>1
  <2> HIDE DEF n
  <2>4. \A i \in 1..n : file[i].id \in Ids
    BY <2>2, LineTypesOK
  <2>5. \A id \in Ids : id \in Nat
    BY TraceConstants
  <2> QED
    BY <2>3, <2>4, <2>5, TraceConstants
<1>2. AddedIds = Added(n)
  BY <1>1 DEF AddedIds, AddLines, Added
<1>3. AddedIds \in SUBSET Nat /\ IsFiniteSet(AddedIds)
  BY <1>1, <1>2 DEF LimitInv, Added
<1>4. \A i \in 1..n : Added(i) \subseteq AddedIds /\ IsFiniteSet(Added(i)) /\ Cardinality(Added(i)) \in Nat
  <2>1. ASSUME NEW i \in 1..n PROVE Added(i) \subseteq AddedIds
    <3>1. \A k \in 1..i : k \in 1..n
      BY <1>1
    <3> QED
      BY <1>2, <3>1 DEF Added
  <2> QED
    BY <1>3, <2>1, FS_Subset, FS_CardinalityType
<1> DEFINE below(id) == {j \in AddedIds : j < id}
<1>5. ASSUME NEW i \in 1..n, NEW id, IsLine(i, "add_agent", id)
      PROVE  Added(i) = below(id) \cup {id}
  <2>1. file[i].type = "add_agent" /\ file[i].id = id /\ id \in Nat
    BY <1>1, <1>5 DEF IsLine
  <2>2. ASSUME NEW k \in 1..n, file[k].type = "add_agent"
        PROVE  /\ k < i => file[k].id <= id
               /\ i < k => id <= file[k].id
    BY <1>1, <2>1, <2>2 DEF AddedInOrder, AddLines
  <2>3. Added(i) \subseteq below(id) \cup {id}
    <3> SUFFICES ASSUME NEW k \in 1..i, file[k].type = "add_agent"
                 PROVE  file[k].id \in below(id) \cup {id}
      BY DEF Added
    <3>1. k \in 1..n /\ (k < i \/ k = i)
      BY <1>1
    <3>2. file[k].id \in AddedIds /\ file[k].id \in Nat
      BY <1>1, <3>1 DEF AddedIds, AddLines
    <3>3. file[k].id <= id
      BY <2>1, <2>2, <3>1
    <3> QED
      BY <2>1, <3>2, <3>3
  <2>4. id \in Added(i)
    <3>1. i \in 1..i
      BY <1>1
    <3> QED
      BY <2>1, <3>1 DEF Added
  <2>5. below(id) \subseteq Added(i)
    <3> SUFFICES ASSUME NEW k \in 1..n, file[k].type = "add_agent", file[k].id < id
                 PROVE  file[k].id \in Added(i)
      BY <1>1 DEF AddedIds, AddLines
    <3>1. ~(i < k)
      BY <1>1, <2>1, <2>2
    <3>2. k \in 1..i
      BY <1>1, <3>1
    <3> QED
      BY <3>2 DEF Added
  <2> QED
    BY <2>3, <2>4, <2>5
<1>6. ASSUME NEW i \in 1..n, NEW id \in Nat, IsLine(i, "add_agent", id)
      PROVE  Cardinality(Added(i)) = Rank(AddedIds, id) + 1 /\ Rank(AddedIds, id) \in Nat
  <2>1. IsFiniteSet(below(id)) /\ id \notin below(id)
    BY <1>3, FS_Subset
  <2>2. Cardinality(below(id) \cup {id}) = Cardinality(below(id)) + 1 /\ Cardinality(below(id)) \in Nat
    BY <2>1, FS_AddElement, FS_CardinalityType
  <2> QED
    BY <1>5, <1>6, <2>2 DEF Rank
<1>7. \A id : id \in AddedIds <=> \E i \in 1..n : IsLine(i, "add_agent", id)
  BY <1>1 DEF AddedIds, AddLines, IsLine
<1>8. \A i \in 1..n : \A id : IsLine(i, "add_agent", id) => id \in Ids /\ id \in Nat
  BY <1>1 DEF IsLine
<1>9. ASSUME NEW i \in 1..n, NEW id, IsLine(i, "add_agent", id)
      PROVE  Cardinality(Added(i)) <= maxNOFAgents <=> Rank(AddedIds, id) < maxNOFAgents
  BY <1>1, <1>6, <1>8, <1>9
<1>10. FirstAdded = {id \in Ids : \E i \in 1..n : IsLine(i, "add_agent", id) /\ Cardinality(Added(i)) <= maxNOFAgents}
  BY <1>1 DEF FirstAdded
<1>11. \A id : id \in FirstAdded <=>
          id \in Ids /\ \E i \in 1..n : IsLine(i, "add_agent", id) /\ Rank(AddedIds, id) < maxNOFAgents
  BY <1>9, <1>10
<1>12. \A id : id \in FirstAdded <=> id \in AddedIds /\ Rank(AddedIds, id) < maxNOFAgents
  BY <1>7, <1>8, <1>11
<1> QED
  BY <1>12

\* The ticks hold nothing of ids that have not been let in.
HeldInv == \A t \in DOMAIN trace_time_ticks : OnlyOf(trace_time_ticks[t], agent_limit)

\* What a tick holds of some ids it holds of more.
LEMMA OnlyOfMore ==
    ASSUME NEW tick \in TimeTicks, NEW A \in SUBSET Ids, NEW B \in SUBSET Ids, A \subseteq B, OnlyOf(tick, A)
    PROVE  OnlyOf(tick, B)
<1>1. tick.add_agent \in Seq(B)
  BY DEF OnlyOf
<1> QED
  BY <1>1 DEF OnlyOf

\* A line goes into a tick only if its id has been let in.
LEMMA LineHeld ==
    ASSUME Base, HeldInv, NEW l \in Lines,
           parseLine_tick(l) \/ parseLine_ADD(l) \/ parseLine_UPDATE(l) \/ parseLine_MULTICAST(l)
    PROVE  HeldInv'
<1> DEFINE m == agent_limit'
           tick == At(l.time)
<1>1. agent_limit \in SUBSET Ids /\ m \in SUBSET Ids /\ agent_limit \subseteq m
  BY LineEffect, LineTypesOK, LimitedKeeps DEF Base, TypeOK, TicksInv
<1>2. tick \in TimeTicks
  BY AtType DEF Base
<1>3. OnlyOf(TimeTick, m)
  <2>1. << >> \in Seq(m) /\ DOMAIN << >> = {}
    OBVIOUS
  <2> QED
    BY <2>1 DEF OnlyOf, TimeTick
<1>4. \A t \in DOMAIN trace_time_ticks : OnlyOf(trace_time_ticks[t], m)
  BY <1>1, OnlyOfMore DEF HeldInv, Base, TicksInv
<1>5. OnlyOf(tick, m)
  BY <1>3, <1>4 DEF At
<1>6. ASSUME NEW new, OnlyOf(new, m), trace_time_ticks' = Put(trace_time_ticks, l.time, new) PROVE HeldInv'
  BY <1>4, <1>6 DEF HeldInv, Put
<1>7. ASSUME trace_time_ticks' = trace_time_ticks PROVE HeldInv'
  BY <1>4, <1>7 DEF HeldInv
<1> HIDE DEF tick
<1>8. CASE parseLine_tick(l)
  BY <1>3, <1>6, <1>8 DEF parseLine_tick
<1>9. CASE parseLine_ADD(l)
  <2> DEFINE new == [tick EXCEPT !.add_agent = Append(@, l.id)]
  <2>1. CASE l.id \in m
    <3>1. Append(tick.add_agent, l.id) \in Seq(m)
      BY <1>5, <2>1, AppendProperties DEF OnlyOf
    <3>2. /\ new.add_agent = Append(tick.add_agent, l.id)
          /\ new.update_agent = tick.update_agent /\ new.multicast = tick.multicast
      BY <1>2 DEF TimeTicks
    <3>3. OnlyOf(new, m)
      BY <1>5, <3>1, <3>2 DEF OnlyOf
    <3>4. trace_time_ticks' = Put(trace_time_ticks, l.time, new)
      BY <1>9, <2>1 DEF parseLine_ADD, tick
    <3> QED
      BY <1>6, <3>3, <3>4
  <2> QED
    BY <1>7, <1>9, <2>1 DEF parseLine_ADD
<1>10. CASE parseLine_UPDATE(l)
  <2> DEFINE new == [tick EXCEPT !.update_agent = Put(@, l.id, l.pos)]
  <2>1. CASE "location" \notin disabled /\ l.id \in agent_limit
    <3>1. DOMAIN Put(tick.update_agent, l.id, l.pos) = DOMAIN tick.update_agent \cup {l.id}
      BY DEF Put
    <3>2. /\ new.update_agent = Put(tick.update_agent, l.id, l.pos)
          /\ new.add_agent = tick.add_agent /\ new.multicast = tick.multicast
      BY <1>2 DEF TimeTicks
    <3>3. OnlyOf(new, m)
      BY <1>1, <1>5, <2>1, <3>1, <3>2 DEF OnlyOf
    <3>4. trace_time_ticks' = Put(trace_time_ticks, l.time, new)
      BY <1>10, <2>1 DEF parseLine_UPDATE, tick
    <3> QED
      BY <1>6, <3>3, <3>4
  <2> QED
    BY <1>7, <1>10, <2>1 DEF parseLine_UPDATE
<1>11. CASE parseLine_MULTICAST(l)
  <2> DEFINE sent == [from |-> l.id, to |-> l.to]
             new == [tick EXCEPT !.multicast = Append(@, sent)]
  <2>1. CASE "communication" \notin disabled /\ l.id \in agent_limit
    <3>1. tick.multicast \in Seq([from: Ids, to: SUBSET Ids]) /\ sent \in [from: Ids, to: SUBSET Ids]
      BY <1>2, LineTypesOK DEF TimeTicks
    <3>2. sent.from = l.id
      OBVIOUS
    <3> HIDE DEF sent
    <3>3. \A i \in DOMAIN Append(tick.multicast, sent) : Append(tick.multicast, sent)[i].from \in m
      <4>1. \A i \in DOMAIN tick.multicast : tick.multicast[i].from \in m
        BY <1>5 DEF OnlyOf
      <4> DEFINE q == tick.multicast
      <4>2. DOMAIN q = 1..Len(q) /\ Len(q) \in Nat /\ q \in Seq([from: Ids, to: SUBSET Ids])
        BY <3>1
      <4> HIDE DEF q
      <4>3. /\ DOMAIN Append(q, sent) = 1..(Len(q) + 1)
            /\ \A i \in 1..Len(q) : Append(q, sent)[i] = q[i]
            /\ Append(q, sent)[Len(q) + 1] = sent
        BY <3>1, <4>2, AppendProperties
      <4>4. \A i \in 1..Len(q) : q[i].from \in m
        BY <4>1, <4>2 DEF q
      <4>5. ASSUME NEW i \in 1..(Len(q) + 1) PROVE Append(q, sent)[i].from \in m
        <5>1. CASE i \in 1..Len(q)
          BY <4>3, <4>4, <5>1
        <5>2. CASE i = Len(q) + 1
          BY <1>1, <2>1, <3>2, <4>3, <5>2
        <5> QED
          BY <4>2, <5>1, <5>2
      <4> QED
        BY <4>3, <4>5 DEF q
    <3>4. /\ new.multicast = Append(tick.multicast, sent)
          /\ new.add_agent = tick.add_agent /\ new.update_agent = tick.update_agent
      BY <1>2 DEF TimeTicks
    <3>5. OnlyOf(new, m)
      BY <1>5, <3>3, <3>4 DEF OnlyOf
    <3>6. trace_time_ticks' = Put(trace_time_ticks, l.time, new)
      BY <1>11, <2>1 DEF parseLine_MULTICAST, tick, sent
    <3> QED
      BY <1>6, <3>5, <3>6
  <2> QED
    BY <1>7, <1>11, <2>1 DEF parseLine_MULTICAST
<1> QED
  BY <1>8, <1>9, <1>10, <1>11

\* The other steps leave the map and the ids alone.
LEMMA NextHeld == Base /\ HeldInv /\ [Next]_vars => HeldInv'
<1> SUFFICES ASSUME Base, HeldInv, [Next]_vars PROVE HeldInv'
  OBVIOUS
<1>1. CASE parseLine
  BY <1>1, LineHeld DEF parseLine
<1>2. CASE ~parseLine
  <2>1. UNCHANGED parsed
    BY <1>2 DEF Next, startAny, construct, parse_fails, start, pause, destroy, Crash, vars
  <2> QED
    BY <2>1 DEF HeldInv, parsed, OnlyOf
<1> QED
  BY <1>1, <1>2

\* In a file that adds its agents in ascending order those created are the
\* maxNOFAgents lowest; in any file all else that the ticks hold is of them.
THEOREM LowestAreCreated == Spec => []LowestAgents
<1>1. Init => HeldInv
  BY DEF Init, HeldInv
<1>2. Base /\ LimitInv /\ HeldInv => LowestAgents
  BY FirstAreLowest DEF LowestAgents, LimitInv, HeldInv
<1> QED
  BY <1>1, <1>2, NextHeld, LimitInvariance, PTL DEF Spec

-----------------------------------------------------------------------------
(* The profile *)

Entries ==
    {logSiMobilityBegin, logSiMobilityEnd, ReachedZero}
    \cup {logTickBegin(t, a) : t \in Nat, a \in Nat} \cup {logTickEnd(t, a) : t \in Nat, a \in Nat}

\* Gap while the trace is being replayed: the next tick is not in ran yet.
GapSoFar(i) == IF i = Len(ran) /\ currTick # End THEN currTick - ran[i].tick ELSE Gap(i)

\* The two entries of the i-th tick replayed.
Logged(log, i) ==
    LET tick == ran[i].tick \div GapSoFar(i)
        agents == Cardinality(DOMAIN trace_time_ticks[ran[i].tick].update_agent)
    IN /\ log[2 * i] = logTickBegin(tick, agents)
       /\ log[2 * i + 1] = logTickEnd(tick, agents)

\* What is collected while the trace runs, and that nothing is written before the
\* end.
LogInv ==
    /\ phase \in {"constructing", "parsing", "running", "stopped"} => LogFile = << >>
    /\ phase \in {"constructing", "parsing"} => currLog = << >>
    /\ phase \in {"running", "stopped"} =>
         /\ currLog \in Seq(Entries)
         /\ Len(currLog) = 2 * Len(ran) + (IF phase = "running" THEN 1 ELSE 2)
         /\ currLog[1] = logSiMobilityBegin
         /\ \A i \in DOMAIN ran : Logged(currLog, i)
         /\ phase = "stopped" => currLog[Len(currLog)] = logSiMobilityEnd
    /\ phase \in {"constructing", "parsing"} => interval = 0
    /\ phase = "running" => interval = IF ran = << >> THEN 0 ELSE currTick - ran[Len(ran)].tick
    /\ LogComplete

\* A quotient is no larger than what is divided.
LEMMA QuotientBound == ASSUME NEW a \in Nat, NEW b \in Nat \ {0} PROVE a \div b \in 0..a
<1> DEFINE q == a \div b
<1>1. q \in Int /\ a = b * q + (a % b) /\ a % b \in 0..(b - 1)
  <2>1. q \in Int
    OBVIOUS
  <2>2. a = b * q + (a % b)
    OBVIOUS
  <2>3. a % b \in 0..(b - 1)
    OBVIOUS
  <2> QED
    BY <2>1, <2>2, <2>3
<1> HIDE DEF q
<1>2. q >= 0
  BY <1>1
<1>3. b * q >= q
  BY <1>1, <1>2
<1> QED
  BY <1>1, <1>2, <1>3 DEF q

\* The profile after a tick, and after the last one.
LEMMA TwoMore ==
    ASSUME NEW S, NEW s \in Seq(S), NEW a \in S, NEW b \in S
    PROVE  /\ s \o <<a, b>> \in Seq(S) /\ Len(s \o <<a, b>>) = Len(s) + 2
           /\ \A i \in 1..Len(s) : (s \o <<a, b>>)[i] = s[i]
           /\ (s \o <<a, b>>)[Len(s) + 1] = a
           /\ (s \o <<a, b>>)[Len(s) + 2] = b
<1>1. <<a, b>> \in Seq(S) /\ Len(<<a, b>>) = 2 /\ <<a, b>>[1] = a /\ <<a, b>>[2] = b /\ Len(s) \in Nat
  OBVIOUS
<1> DEFINE t == <<a, b>>
<1> HIDE DEF t
<1>2. /\ s \o t \in Seq(S) /\ Len(s \o t) = Len(s) + 2
      /\ \A i \in 1..(Len(s) + 2) : (s \o t)[i] = IF i <= Len(s) THEN s[i] ELSE t[i - Len(s)]
  BY <1>1, ConcatProperties DEF t
<1> QED
  BY <1>1, <1>2 DEF t

\* One entry more.
LEMMA OneMore ==
    ASSUME NEW S, NEW s \in Seq(S), NEW a \in S
    PROVE  /\ s \o <<a>> \in Seq(S) /\ Len(s \o <<a>>) = Len(s) + 1
           /\ \A i \in 1..Len(s) : (s \o <<a>>)[i] = s[i]
           /\ (s \o <<a>>)[Len(s) + 1] = a
<1>1. <<a>> \in Seq(S) /\ Len(<<a>>) = 1 /\ <<a>>[1] = a /\ Len(s) \in Nat
  OBVIOUS
<1> DEFINE t == <<a>>
<1> HIDE DEF t
<1>2. /\ s \o t \in Seq(S) /\ Len(s \o t) = Len(s) + 1
      /\ \A i \in 1..(Len(s) + 1) : (s \o t)[i] = IF i <= Len(s) THEN s[i] ELSE t[i - Len(s)]
  BY <1>1, ConcatProperties DEF t
<1> QED
  BY <1>1, <1>2 DEF t

\* When the trace has been replayed there are as many entries in the history as
\* ticks in the map.
LEMMA TicksCounted ==
    ASSUME Base, ReplayInv, phase = "stopped"
    PROVE  Cardinality(DOMAIN trace_time_ticks) = Len(ran)
<1> DEFINE n == Len(ran)
           T == DOMAIN trace_time_ticks
           f == [i \in 1..n |-> ran[i].tick]
<1>1. n \in Nat /\ DOMAIN ran = 1..n
  BY DEF Base, TicksInv
<1>2. \A i \in 1..n : ran[i].tick \in Nat
  <2>1. ran \in Seq([tick: Nat, at: Nat])
    BY DEF Base, TicksInv
  <2>2. \A i \in 1..n : ran[i] \in [tick: Nat, at: Nat]
    BY <2>1, ElementOfSeq
  <2> QED
    BY <2>2
<1>3. /\ {ran[i].tick : i \in 1..n} = T
      /\ \A i, j \in 1..n : i < j => ran[i].tick < ran[j].tick
  BY <1>1 DEF Base, PhaseInv, ReplayInv, ReplayedOnTime, Replaying
<1>4. ASSUME NEW i \in 1..n, NEW j \in 1..n, ran[i].tick = ran[j].tick PROVE i = j
  BY <1>1, <1>2, <1>3, <1>4
<1> HIDE DEF T
<1>5. f \in [1..n -> T]
  BY <1>3
<1>6. \A i, j \in 1..n : f[i] = f[j] => i = j
  BY <1>4
<1>7. \A t \in T : \E i \in 1..n : f[i] = t
  BY <1>3
<1> HIDE DEF f
<1>8. f \in Bijection(1..n, T)
  BY <1>5, <1>6, <1>7 DEF Bijection, Injection, Surjection, IsInjective
<1>9. ExistsBijection(1..n, T)
  BY <1>8 DEF ExistsBijection
<1> QED
  BY <1>1, <1>9, FS_CountingElements DEF T

\* The interval that a tick's number is computed with is the gap after it.
LEMMA GapsGrow ==
    ASSUME Base, LogInv, pause, phase' # "crashed", NEW n \in Nat, Len(ran) = n
    PROVE  /\ \A i \in 1..n : GapSoFar(i)' = GapSoFar(i)
           /\ Interval = GapSoFar(n + 1)'
           /\ ran' # << >>
           /\ phase' = "running" => interval' = currTick' - ran'[Len(ran')].tick
<1>1. /\ DOMAIN ran = 1..n /\ DOMAIN ran' = 1..(n + 1) /\ ran' # << >>
      /\ \A i \in 1..n : ran'[i] = ran[i] /\ ran[i].tick \in Nat
      /\ ran'[n + 1].tick = currTick
  BY RanGrows
<1>2. Len(ran') = n + 1
  <2>1. ran' = Append(ran, [tick |-> currTick, at |-> now])
    BY PauseEffect
  <2>2. ran' \in Seq([tick: Nat, at: Nat])
    BY <2>1, PauseEffect, AppendProperties DEF Base, TypeOK, TicksInv
  <2> QED
    BY <1>1, <2>2
<1>3. /\ currTick \in Nat /\ phase = "running" /\ currTick # End /\ Interval # 0
      /\ currTick' = NextTick(currTick) /\ interval' = Interval
      /\ phase' = "running" => currTick' # End
  BY PauseEffect DEF End
<1>4. interval = IF n = 0 THEN 0 ELSE currTick - ran[n].tick
  <2>1. n = 0 <=> ran = << >>
    BY EmptySeq DEF Base, TicksInv
  <2> QED
    BY <1>3, <2>1 DEF LogInv
<1>5. ASSUME NEW i \in 1..n PROVE GapSoFar(i)' = GapSoFar(i)
  <2>1. i # n + 1 /\ i < n + 1 /\ i + 1 \in 1..(n + 1)
    OBVIOUS
  <2>2. GapSoFar(i)' = ran'[i + 1].tick - ran[i].tick
    BY <1>1, <1>2, <2>1 DEF GapSoFar, Gap
  <2>3. CASE i = n
    BY <1>1, <1>3, <2>2, <2>3 DEF GapSoFar
  <2>4. CASE i # n
    <3>1. i < n /\ i + 1 \in 1..n
      BY <2>4
    <3>2. ran'[i + 1] = ran[i + 1]
      BY <1>1, <3>1
    <3> QED
      BY <2>2, <2>4, <3>1, <3>2 DEF GapSoFar, Gap
  <2> QED
    BY <2>3, <2>4
<1>6. CASE currTick' # End
  <2>1. Interval = currTick' - currTick
    BY <1>3, <1>6 DEF Interval
  <2>2. GapSoFar(n + 1)' = currTick' - currTick
    BY <1>1, <1>2, <1>6 DEF GapSoFar
  <2> QED
    BY <1>1, <1>2, <1>3, <1>5, <2>1, <2>2
<1>7. CASE currTick' = End
  <2>1. Interval = interval /\ n # 0
    BY <1>3, <1>4, <1>7 DEF Interval
  <2>2. ran'[n] = ran[n] /\ (n + 1) - 1 = n /\ ~(n + 1 < n + 1)
    BY <1>1, <2>1
  <2>3. GapSoFar(n + 1)' = ran'[n + 1].tick - ran'[n].tick
    BY <1>2, <1>7, <2>2 DEF GapSoFar, Gap
  <2> QED
    BY <1>1, <1>3, <1>4, <1>5, <1>7, <2>1, <2>2, <2>3
<1> QED
  BY <1>6, <1>7

\* A tick adds its two entries; the last one the end.
LEMMA PauseLogs == ASSUME Base, LogInv, pause PROVE LogInv'
<1>1. CASE phase' = "crashed"
  BY <1>1 DEF pause, Crash, LogInv, LogComplete, Gap, parsed, clock, profile
<1>2. CASE phase' # "crashed"
  <2>0. PICK n \in Nat : Len(ran) = n
    BY DEF Base, TicksInv
  <2> DEFINE agents == Cardinality(DOMAIN pushToQueue)
             a == logTickBegin(TickId, agents)
             b == logTickEnd(TickId, agents)
             last == IF currTick' = End THEN <<logSiMobilityEnd>> ELSE << >>
  <2>1. /\ n \in Nat /\ Len(ran) = n /\ DOMAIN ran = 1..n /\ DOMAIN ran' = 1..(n + 1)
        /\ Len(ran') = n + 1
        /\ \A i \in 1..n : ran'[i] = ran[i] /\ ran[i].tick \in Nat
        /\ ran'[n + 1].tick = currTick
    <3>1. ran' = Append(ran, [tick |-> currTick, at |-> now])
      BY <1>2, PauseEffect
    <3> QED
      BY <1>2, <2>0, <3>1, RanGrows
  <2>2. /\ currTick \in Nat /\ currTick \in DOMAIN trace_time_ticks /\ Interval \in Nat \ {0}
        /\ phase = "running" /\ phase' = IF currTick' = End THEN "stopped" ELSE "running"
        /\ trace_time_ticks' = trace_time_ticks /\ LogFile' = LogFile
    BY <1>2, PauseEffect DEF parsed
  <2>3. currLog' = currLog \o <<a, b>> \o last
    BY <1>2 DEF pause, Crash, PauseLog
  <2>4. /\ currLog \in Seq(Entries) /\ Len(currLog) = 2 * n + 1
        /\ currLog[1] = logSiMobilityBegin /\ \A i \in 1..n : Logged(currLog, i)
        /\ LogFile = << >>
    BY <2>1, <2>2 DEF LogInv
  <2>5. agents \in Nat /\ agents = Cardinality(DOMAIN trace_time_ticks[currTick].update_agent)
    <3>1. pushToQueue \in Updates /\ pushToQueue = trace_time_ticks[currTick].update_agent
      BY <2>2, AtType DEF Base, pushToQueue, TimeTicks, At
    <3>2. IsFiniteSet(DOMAIN pushToQueue)
      BY <3>1 DEF Updates
    <3> QED
      BY <3>1, <3>2, FS_CardinalityType
  <2>6. TickId \in 0..currTick
    BY <2>2, QuotientBound DEF TickId
  <2>7. a \in Entries /\ b \in Entries /\ logSiMobilityEnd \in Entries
    BY <2>2, <2>5, <2>6 DEF Entries
  <2> HIDE DEF agents, a, b
  <2> DEFINE two == currLog \o <<a, b>>
  <2>8. /\ two \in Seq(Entries) /\ Len(two) = 2 * n + 3
        /\ \A i \in 1..(2 * n + 1) : two[i] = currLog[i]
        /\ two[2 * n + 2] = a /\ two[2 * n + 3] = b
    <3>1. /\ two \in Seq(Entries) /\ Len(two) = Len(currLog) + 2
          /\ \A i \in 1..Len(currLog) : two[i] = currLog[i]
          /\ two[Len(currLog) + 1] = a /\ two[Len(currLog) + 2] = b
      BY <2>4, <2>7, TwoMore
    <3> HIDE DEF two
    <3>2. Len(currLog) + 2 = 2 * n + 3 /\ Len(currLog) + 1 = 2 * n + 2
      BY <2>1, <2>4
    <3> QED
      BY <2>4, <3>1, <3>2
  <2> HIDE DEF two
  <2>15. /\ \A i \in 1..n : GapSoFar(i)' = GapSoFar(i)
         /\ Interval = GapSoFar(n + 1)'
         /\ ran' # << >>
         /\ phase' = "running" => interval' = currTick' - ran'[Len(ran')].tick
    BY <1>2, <2>0, GapsGrow
  <2>9. /\ currLog' \in Seq(Entries)
        /\ Len(currLog') = 2 * (n + 1) + (IF phase' = "running" THEN 1 ELSE 2)
        /\ \A i \in 1..(2 * n + 3) : currLog'[i] = two[i]
        /\ phase' = "stopped" => currLog'[Len(currLog')] = logSiMobilityEnd
    <3>1. CASE currTick' = End
      <4>1. currLog' = two \o <<logSiMobilityEnd>> /\ phase' = "stopped"
        BY <2>2, <2>3, <3>1 DEF two
      <4> DEFINE x == logSiMobilityEnd
      <4> HIDE DEF x
      <4>2. x \in Entries
        BY <2>7 DEF x
      <4>3. currLog' = two \o <<x>>
        BY <4>1 DEF x
      <4>4. /\ two \o <<x>> \in Seq(Entries) /\ Len(two \o <<x>>) = Len(two) + 1
            /\ \A i \in 1..Len(two) : (two \o <<x>>)[i] = two[i]
            /\ (two \o <<x>>)[Len(two) + 1] = x
        BY <2>8, <4>2, OneMore
      <4>5. Len(two) + 1 = 2 * (n + 1) + 2
        BY <2>1, <2>8
      <4> QED
        BY <2>8, <4>1, <4>3, <4>4, <4>5 DEF x
    <3>2. CASE currTick' # End
      <4>1. currLog' = two \o << >> /\ phase' = "running"
        BY <2>2, <2>3, <3>2 DEF two
      <4>2. currLog' = two
        BY <2>8, <4>1, ConcatEmptySeq
      <4> QED
        BY <2>1, <2>8, <4>1, <4>2
    <3> QED
      BY <3>1, <3>2
  <2>10. currLog'[1] = logSiMobilityBegin
    BY <2>1, <2>4, <2>8, <2>9
  <2>11. ASSUME NEW i \in 1..(n + 1) PROVE Logged(currLog, i)'
    <3>1. CASE i \in 1..n
      <4>1. /\ ran'[i] = ran[i] /\ Logged(currLog, i)
            /\ currLog'[2 * i] = currLog[2 * i] /\ currLog'[2 * i + 1] = currLog[2 * i + 1]
        <5>1. 2 * i \in 1..(2 * n + 1) /\ 2 * i + 1 \in 1..(2 * n + 1)
          BY <2>1, <3>1
        <5>2. \A j \in 1..(2 * n + 1) : currLog'[j] = currLog[j]
          BY <2>1, <2>8, <2>9
        <5> QED
          BY <2>1, <2>4, <3>1, <5>1, <5>2
      <4> QED
        BY <2>2, <2>15, <3>1, <4>1 DEF Logged
    <3>2. CASE i = n + 1
      <4>1. currLog'[2 * i] = a /\ currLog'[2 * i + 1] = b /\ ran'[i].tick = currTick
        BY <2>1, <2>8, <2>9, <3>2
      <4> QED
        BY <2>2, <2>5, <2>15, <3>2, <4>1 DEF Logged, TickId, a, b
    <3> QED
      BY <2>1, <3>1, <3>2
  <2> QED
    BY <2>1, <2>2, <2>4, <2>9, <2>10, <2>11, <2>15 DEF LogInv, LogComplete
<1> QED
  BY <1>1, <1>2

\* The destructor writes what has been collected, all of it.
LEMMA DestroyWrites == ASSUME Base, ReplayInv, LogInv, destroy PROVE LogInv'
<1> DEFINE n == Len(ran)
<1>1. /\ phase = "stopped" /\ phase' \in {"ended", "crashed"}
      /\ LogFile' = LogFile \o currLog \o <<ReachedZero>>
      /\ UNCHANGED <<trace_time_ticks, ran, currTick>> /\ currTick = End
  BY DEF destroy, flushLogFile, parsed, clock, Base, PhaseInv
<1>2. /\ LogFile = << >> /\ currLog \in Seq(Entries) /\ Len(currLog) = 2 * n + 2
      /\ currLog[1] = logSiMobilityBegin /\ \A i \in DOMAIN ran : Logged(currLog, i)
      /\ currLog[Len(currLog)] = logSiMobilityEnd
  BY <1>1 DEF LogInv
<1>3. LogFile' = currLog \o <<ReachedZero>>
  BY <1>1, <1>2, ConcatEmptySeq
<1>4. ReachedZero \in Entries
  BY DEF Entries
<1>5. n \in Nat /\ DOMAIN ran = 1..n /\ Cardinality(DOMAIN trace_time_ticks) = n
  BY <1>1, TicksCounted DEF Base, TicksInv
<1>6. /\ LogFile' \in Seq(Entries) /\ Len(LogFile') = 2 * n + 3
      /\ \A i \in 1..(2 * n + 2) : LogFile'[i] = currLog[i]
      /\ LogFile'[2 * n + 3] = ReachedZero
  <2> DEFINE x == ReachedZero
  <2> HIDE DEF x
  <2>1. x \in Entries /\ LogFile' = currLog \o <<x>>
    BY <1>3, <1>4 DEF x
  <2>2. /\ currLog \o <<x>> \in Seq(Entries) /\ Len(currLog \o <<x>>) = Len(currLog) + 1
        /\ \A i \in 1..Len(currLog) : (currLog \o <<x>>)[i] = currLog[i]
        /\ (currLog \o <<x>>)[Len(currLog) + 1] = x
    BY <1>2, <2>1, OneMore
  <2>3. Len(currLog) + 1 = 2 * n + 3
    BY <1>2, <1>5
  <2> QED
    BY <1>2, <2>1, <2>2, <2>3 DEF x
<1>7. ASSUME NEW i \in 1..n PROVE Logged(LogFile, i)'
  <2>1. LogFile'[2 * i] = currLog[2 * i] /\ LogFile'[2 * i + 1] = currLog[2 * i + 1] /\ Logged(currLog, i)
    BY <1>2, <1>5, <1>6
  <2> QED
    BY <1>1, <2>1 DEF Logged, GapSoFar, Gap
<1>8. LogFile'[1] = logSiMobilityBegin /\ LogFile'[Len(LogFile') - 1] = logSiMobilityEnd
  BY <1>2, <1>5, <1>6
<1>9. LogComplete'
  BY <1>1, <1>5, <1>6, <1>7, <1>8 DEF LogComplete, Logged, GapSoFar, Gap
<1> QED
  BY <1>1, <1>9 DEF LogInv

\* The other steps write nothing; start begins the profile.
LEMMA NextLog == Base /\ ReplayInv /\ LogInv /\ [Next]_vars => LogInv'
<1> SUFFICES ASSUME Base, ReplayInv, LogInv, [Next]_vars PROVE LogInv'
  OBVIOUS
<1>1. CASE construct \/ parse_fails \/ parseLine
  <2>1. /\ phase \in {"constructing", "parsing"} /\ phase' \in {"parsing", "crashed"}
        /\ UNCHANGED <<currLog, LogFile, interval>>
    BY <1>1 DEF construct, parse_fails, parseLine, parseLine_tick, parseLine_ADD, parseLine_UPDATE,
                parseLine_MULTICAST, NextLine, Crash, profile, clock
  <2> QED
    BY <2>1 DEF LogInv, LogComplete
<1>2. ASSUME NEW protocol \in Protocols, start(protocol) PROVE LogInv'
  <2>1. CASE Crash
    BY <1>2, <2>1 DEF start, Crash, LogInv, LogComplete, Gap, parsed, clock, profile
  <2>2. CASE ~Crash
    <3>1. /\ phase = "parsing" /\ phase' = "running" /\ ran' = << >>
          /\ interval = 0 /\ interval' = 0
          /\ LogFile = << >> /\ LogFile' = << >> /\ currLog' = Append(<< >>, logSiMobilityBegin)
      BY <1>2, <2>2 DEF start, logGeneric, LogInv, Base, PhaseInv
    <3>2. logSiMobilityBegin \in Entries
      BY DEF Entries
    <3> DEFINE x == logSiMobilityBegin
    <3> HIDE DEF x
    <3>3. Append(<< >>, x) \in Seq(Entries) /\ Len(Append(<< >>, x)) = 1 /\ Append(<< >>, x)[1] = x
      BY <3>2 DEF x
    <3>4. Len(ran') = 0 /\ DOMAIN ran' = {}
      BY <3>1
    <3> QED
      BY <3>1, <3>3, <3>4 DEF LogInv, LogComplete, x
  <2> QED
    BY <2>1, <2>2
<1>3. CASE pause
  BY <1>3, PauseLogs
<1>4. CASE destroy
  BY <1>4, DestroyWrites
<1>5. CASE UNCHANGED vars
  <2>1. \A i \in DOMAIN ran : Logged(currLog, i)' <=> Logged(currLog, i)
    BY <1>5 DEF Logged, GapSoFar, Gap, vars, parsed, clock, profile
  <2>2. LogComplete' <=> LogComplete
    BY <1>5 DEF LogComplete, Gap, vars, parsed, clock, profile
  <2> QED
    BY <1>5, <2>1, <2>2 DEF LogInv, vars, parsed, clock, profile
<1> QED
  BY <1>1, <1>2, <1>3, <1>4, <1>5 DEF Next, startAny

\* A file with the last line holds a begin and an end of every tick of the trace,
\* in order, between the beginning and the end of the run, with the number of the
\* tick that its interval gives.
THEOREM ProfileIsComplete == Spec => []LogComplete
<1>1. Init => LogInv
  BY DEF Init, LogInv, LogComplete
<1>2. LogInv => LogComplete
  BY DEF LogInv
<1> QED
  BY <1>1, <1>2, NextLog, ReplayInvariance, PTL DEF Spec

-----------------------------------------------------------------------------
(* Positions *)

\* The update lines of id for time t that count: id has been added before.
LinesOf(id, t) ==
    {i \in DOMAIN file : /\ "location" \notin disabled
                         /\ IsLine(i, "update_agent", id)
                         /\ \E j \in 1..i : IsLine(j, "add_agent", id)
                         /\ file[i].time = t}

Latest(U, i) == \A j \in U : j <= i

\* In a file that has every tick's own line first, the updates of a tick are of
\* the ids let in that have such a line, and are what the latest of them says.
MapInv ==
    TickLinesFirst => \A id \in Ids, t \in Nat :
        /\ id \in DOMAIN At(t).update_agent <=> id \in agent_limit /\ LinesOf(id, t) # {}
        /\ LinesOf(id, t) # {} => \E i \in LinesOf(id, t) : Latest(LinesOf(id, t), i)
        /\ \A i \in LinesOf(id, t) :
              id \in agent_limit /\ Latest(LinesOf(id, t), i) => At(t).update_agent[id] = file[i].pos

\* No line of U has a later time than line i, nor its time and a later place.
LastOf(U, i) ==
    \A j \in U : \/ file[j].time < file[i].time
                 \/ file[j].time = file[i].time /\ j <= i

\* Every agent is where the last of its lines so far says, and it has a last one.
PosInv ==
    /\ phase \in {"constructing", "parsing"} => pos = [id \in Ids |-> Origin]
    /\ Replaying /\ TickLinesFirst => \A id \in AllAgents :
         \/ UpdatesSoFar(id) = {} /\ pos[id] = Origin
         \/ /\ \E i \in UpdatesSoFar(id) : LastOf(UpdatesSoFar(id), i)
            /\ \A i \in UpdatesSoFar(id) : LastOf(UpdatesSoFar(id), i) => pos[id] = file[i].pos

\* The ids let in have been added.
LEMMA LimitAdded == ASSUME Base, LimitInv PROVE agent_limit \subseteq Added(Len(file))
<1>1. file \in Seq(Lines) /\ DOMAIN file = 1..Len(file)
  BY DEF Base, TypeOK
<1> QED
  BY <1>1 DEF LimitInv, FirstAdded, Added, IsLine

\* An id that a line lets in has no line that counts before.
LEMMA LetInNow ==
    ASSUME Base, LimitInv, NEW l \in Lines,
           agent_limit' = IF l.type = "add_agent" THEN Limited(l.id) ELSE agent_limit,
           NEW id \in agent_limit' \ agent_limit, NEW t
    PROVE  LinesOf(id, t) = {}
<1>1. /\ Cardinality(agent_limit) < maxNOFAgents
      /\ Cardinality(agent_limit) \in Nat /\ maxNOFAgents \in Nat
  BY FS_CardinalityType, TraceConstants DEF Limited, Base, TicksInv
<1>2. id \notin Added(Len(file))
  BY <1>1 DEF LimitInv
<1>3. Len(file) \in Nat /\ DOMAIN file = 1..Len(file)
  BY DEF Base, TypeOK
<1>4. \A j \in 1..Len(file) : ~IsLine(j, "add_agent", id)
  BY <1>2 DEF Added, IsLine
<1>5. \A i \in DOMAIN file : \A j \in 1..i : j \in 1..Len(file)
  BY <1>3
<1> QED
  BY <1>4, <1>5 DEF LinesOf

\* What one more line makes of the lines that count.
LEMMA LinesGrow ==
    ASSUME Base, NEW l \in Lines, NextLine(l), NEW id, NEW t
    PROVE  LinesOf(id, t)' =
             IF /\ "location" \notin disabled /\ l.type = "update_agent" /\ l.id = id /\ l.time = t
                /\ id \in Added(Len(file))
             THEN LinesOf(id, t) \cup {Len(file) + 1} ELSE LinesOf(id, t)
<1> DEFINE n == Len(file)
           Counts(i) == /\ "location" \notin disabled
                        /\ IsLine(i, "update_agent", id)
                        /\ \E j \in 1..i : IsLine(j, "add_agent", id)
                        /\ file[i].time = t
<1>1. /\ n \in Nat /\ DOMAIN file = 1..n /\ DOMAIN file' = 1..(n + 1)
      /\ \A i \in 1..n : file'[i] = file[i]
      /\ file'[n + 1] = l /\ disabled' = disabled
  BY FileGrows DEF NextLine
<1>2. ASSUME NEW i \in 1..n PROVE Counts(i)' <=> Counts(i)
  <2>1. \A j \in 1..i : file'[j] = file[j]
    BY <1>1
  <2> QED
    BY <1>1, <2>1 DEF IsLine
<1>3. PICK m \in Nat : m = n + 1
  BY <1>1
<1>4. Counts(m)' <=> /\ "location" \notin disabled /\ l.type = "update_agent" /\ l.id = id /\ l.time = t
                     /\ id \in Added(n)
  <2>1. l.type = "update_agent" =>
          ((\E j \in 1..m : IsLine(j, "add_agent", id)') <=> \E j \in 1..n : IsLine(j, "add_agent", id))
    BY <1>1, <1>3 DEF IsLine
  <2>2. (\E j \in 1..n : IsLine(j, "add_agent", id)) <=> id \in Added(n)
    BY DEF IsLine, Added
  <2>3. IsLine(m, "update_agent", id)' <=> l.type = "update_agent" /\ l.id = id
    BY <1>1, <1>3 DEF IsLine
  <2> QED
    BY <1>1, <1>3, <2>1, <2>2, <2>3
<1>5. LinesOf(id, t) = {i \in 1..n : Counts(i)} /\ LinesOf(id, t)' = {i \in 1..m : Counts(i)'}
  BY <1>1, <1>3 DEF LinesOf
<1> HIDE DEF Counts
<1> QED
  BY <1>1, <1>2, <1>3, <1>4, <1>5

\* What a line makes of the updates of a tick.
LEMMA UpdatesGrow ==
    ASSUME Base, NEW l \in Lines, NEW t \in Nat,
           parseLine_tick(l) \/ parseLine_ADD(l) \/ parseLine_UPDATE(l) \/ parseLine_MULTICAST(l)
    PROVE  At(t)'.update_agent =
             IF l.type = "tick" /\ l.time = t THEN << >>
             ELSE IF /\ l.type = "update_agent" /\ l.time = t
                     /\ "location" \notin disabled /\ l.id \in agent_limit
                  THEN Put(At(t).update_agent, l.id, l.pos)
                  ELSE At(t).update_agent
<1>1. At(t) \in TimeTicks /\ At(l.time) \in TimeTicks
  BY AtType DEF Base
<1>2. ASSUME NEW tick, trace_time_ticks' = Put(trace_time_ticks, l.time, tick)
      PROVE  At(t)' = IF t = l.time THEN tick ELSE At(t)
  BY <1>2 DEF At, Put
<1>3. ASSUME trace_time_ticks' = trace_time_ticks PROVE At(t)' = At(t)
  BY <1>3 DEF At
<1>4. CASE parseLine_tick(l)
  BY <1>2, <1>4 DEF parseLine_tick, TimeTick
<1>5. CASE parseLine_ADD(l)
  <2>1. [At(l.time) EXCEPT !.add_agent = Append(@, l.id)].update_agent = At(l.time).update_agent
    BY <1>1 DEF TimeTicks
  <2> QED
    BY <1>2, <1>3, <1>5, <2>1 DEF parseLine_ADD
<1>6. CASE parseLine_UPDATE(l)
  <2>1. [At(l.time) EXCEPT !.update_agent = Put(@, l.id, l.pos)].update_agent
          = Put(At(l.time).update_agent, l.id, l.pos)
    BY <1>1 DEF TimeTicks
  <2> QED
    BY <1>2, <1>3, <1>6, <2>1 DEF parseLine_UPDATE
<1>7. CASE parseLine_MULTICAST(l)
  <2>1. [At(l.time) EXCEPT !.multicast = Append(@, [from |-> l.id, to |-> l.to])].update_agent
          = At(l.time).update_agent
    BY <1>1 DEF TimeTicks
  <2> QED
    BY <1>2, <1>3, <1>7, <2>1 DEF parseLine_MULTICAST
<1> QED
  BY <1>4, <1>5, <1>6, <1>7

\* A line more, and a tick's updates still are what the lines say.
LEMMA LineMap ==
    ASSUME Base, LimitInv, MapInv, NEW l \in Lines,
           parseLine_tick(l) \/ parseLine_ADD(l) \/ parseLine_UPDATE(l) \/ parseLine_MULTICAST(l)
    PROVE  MapInv'
<1> DEFINE n == Len(file)
<1>1. /\ NextLine(l)
      /\ agent_limit' = IF l.type = "add_agent" THEN Limited(l.id) ELSE agent_limit
      /\ agent_limit \subseteq agent_limit'
  BY LineEffect, LineTypesOK, LimitedKeeps DEF Base, TypeOK, TicksInv
<1>2. /\ n \in Nat /\ DOMAIN file = 1..n /\ DOMAIN file' = 1..(n + 1)
      /\ \A i \in 1..n : file'[i] = file[i]
      /\ file'[n + 1] = l
  BY <1>1, FileGrows
<1> SUFFICES ASSUME TickLinesFirst', NEW id \in Ids, NEW t \in Nat
             PROVE  /\ id \in DOMAIN At(t)'.update_agent <=> id \in agent_limit' /\ LinesOf(id, t)' # {}
                    /\ LinesOf(id, t)' # {} =>
                         \E i \in LinesOf(id, t)' : Latest(LinesOf(id, t)', i)
                    /\ \A i \in LinesOf(id, t)' :
                         id \in agent_limit' /\ Latest(LinesOf(id, t)', i)
                           => At(t)'.update_agent[id] = file'[i].pos
  BY DEF MapInv, Latest
<1>3. TickLinesFirst
  BY <1>2 DEF TickLinesFirst
<1> DEFINE L == LinesOf(id, t)
           L1 == LinesOf(id, t)'
           u == At(t).update_agent
           u1 == At(t)'.update_agent
<1>4. /\ id \in DOMAIN u <=> id \in agent_limit /\ L # {}
      /\ L # {} => \E i \in L : Latest(L, i)
      /\ \A i \in L : id \in agent_limit /\ Latest(L, i) => u[id] = file[i].pos
  BY <1>3 DEF MapInv
<1>5. L \subseteq 1..n
  BY <1>2 DEF LinesOf
<1>6. L1 = IF /\ "location" \notin disabled /\ l.type = "update_agent" /\ l.id = id /\ l.time = t
              /\ id \in Added(n)
           THEN L \cup {n + 1} ELSE L
  BY <1>1, LinesGrow
<1>7. u1 = IF l.type = "tick" /\ l.time = t THEN << >>
           ELSE IF /\ l.type = "update_agent" /\ l.time = t
                   /\ "location" \notin disabled /\ l.id \in agent_limit
                THEN Put(u, l.id, l.pos) ELSE u
  BY UpdatesGrow
<1>8. id \in agent_limit => id \in Added(n)
  BY LimitAdded
<1>9. id \in agent_limit' /\ id \notin agent_limit => L = {}
  BY <1>1, LetInNow
<1>10. l.type = "tick" /\ l.time = t => L = {}
  <2>1. ASSUME l.type = "tick", NEW i \in 1..n PROVE file[i].time # l.time
    BY <1>2, <2>1 DEF TickLinesFirst
  <2> QED
    BY <1>2, <2>1 DEF LinesOf
<1> HIDE DEF L, L1, u, u1, n
<1>11. L1 # {} => \E i \in L1 : Latest(L1, i)
  <2>1. CASE L1 = L
    BY <1>4, <2>1
  <2>2. CASE L1 = L \cup {n + 1}
    <3>1. Latest(L1, n + 1)
      BY <1>2, <1>5, <2>2 DEF Latest
    <3> QED
      BY <2>2, <3>1
  <2> QED
    BY <1>6, <2>1, <2>2
<1>12. CASE l.type = "tick" /\ l.time = t
  <2>1. L1 = {} /\ u1 = << >>
    BY <1>6, <1>7, <1>10, <1>12
  <2>2. id \notin DOMAIN u1
    BY <2>1
  <2> QED
    BY <2>1, <2>2 DEF L1, u1
<1>13. CASE /\ l.type = "update_agent" /\ l.time = t /\ l.id = id
            /\ "location" \notin disabled /\ id \in agent_limit
  <2>1. L1 = L \cup {n + 1} /\ u1 = Put(u, id, l.pos) /\ agent_limit' = agent_limit
    BY <1>1, <1>6, <1>7, <1>8, <1>13
  <2>2. id \in DOMAIN u1 /\ u1[id] = l.pos
    BY <2>1 DEF Put
  <2>3. ASSUME NEW i \in L1, Latest(L1, i) PROVE i = n + 1
    <3>1. n + 1 <= i
      BY <2>1, <2>3 DEF Latest
    <3>2. i \in 1..n \/ i = n + 1
      BY <1>5, <2>1
    <3> QED
      BY <1>2, <3>1, <3>2
  <2> QED
    BY <1>2, <1>11, <1>13, <2>1, <2>2, <2>3 DEF L, L1, u, u1
<1>14. CASE /\ l.type = "update_agent" /\ l.time = t /\ l.id = id
            /\ "location" \notin disabled /\ id \notin agent_limit
  <2>1. agent_limit' = agent_limit /\ u1 = u
    BY <1>1, <1>7, <1>14
  <2> QED
    BY <1>4, <1>11, <1>14, <2>1 DEF L, L1, u, u1
<1>15. CASE /\ ~(l.type = "tick" /\ l.time = t)
            /\ ~(l.type = "update_agent" /\ l.time = t /\ l.id = id /\ "location" \notin disabled)
  <2>1. L1 = L
    BY <1>6, <1>15
  <2>2. (id \in DOMAIN u1 <=> id \in DOMAIN u) /\ (id \in DOMAIN u => u1[id] = u[id])
    BY <1>7, <1>15 DEF Put
  <2>3. \A i \in L : file'[i] = file[i]
    BY <1>2, <1>5
  <2>4. id \in DOMAIN u1 <=> id \in agent_limit' /\ L1 # {}
    BY <1>1, <1>4, <1>9, <2>1, <2>2
  <2>5. \A i \in L1 : id \in agent_limit' /\ Latest(L1, i) => u1[id] = file'[i].pos
    BY <1>1, <1>4, <1>9, <2>1, <2>2, <2>3
  <2> QED
    BY <1>11, <2>4, <2>5 DEF L, L1, u, u1
<1> QED
  BY <1>12, <1>13, <1>14, <1>15

\* The other steps leave the map and the file alone.
LEMMA NextMap == Base /\ LimitInv /\ MapInv /\ [Next]_vars => MapInv'
<1> SUFFICES ASSUME Base, LimitInv, MapInv, [Next]_vars PROVE MapInv'
  OBVIOUS
<1>1. CASE parseLine
  BY <1>1, LineMap DEF parseLine
<1>2. CASE ~parseLine
  <2>1. UNCHANGED <<parsed, disabled>>
    BY <1>2 DEF Next, startAny, construct, parse_fails, start, pause, destroy, Crash, vars
  <2>2. /\ \A t \in Nat : At(t)' = At(t)
        /\ \A id \in Ids, t \in Nat : LinesOf(id, t)' = LinesOf(id, t)
        /\ TickLinesFirst' <=> TickLinesFirst
    BY <2>1 DEF parsed, At, LinesOf, IsLine, TickLinesFirst
  <2> QED
    BY <2>1, <2>2 DEF MapInv, parsed, Latest
<1> QED
  BY <1>1, <1>2

\* A tick adds the lines that count for its time, which is later than all before.
LEMMA SoFarGrows ==
    ASSUME Base, ReplayInv, pause, phase' # "crashed", NEW id
    PROVE  /\ UpdatesSoFar(id)' = UpdatesSoFar(id) \cup LinesOf(id, currTick)
           /\ \A i \in UpdatesSoFar(id) : file[i].time < currTick
<1>1. /\ Len(ran) \in Nat /\ DOMAIN ran = 1..Len(ran) /\ DOMAIN ran' = 1..(Len(ran) + 1)
      /\ \A k \in 1..Len(ran) : ran'[k] = ran[k]
      /\ ran'[Len(ran) + 1].tick = currTick
  BY RanGrows
<1>2. UNCHANGED <<parsed, disabled>> /\ phase = "running" /\ currTick \in Nat
  BY PauseEffect
<1>3. ASSUME NEW t
      PROVE  (\E k \in DOMAIN ran' : ran'[k].tick = t) <=> (\E k \in DOMAIN ran : ran[k].tick = t) \/ t = currTick
  BY <1>1
<1>4. UpdatesSoFar(id)' = {i \in DOMAIN file : /\ "location" \notin disabled
                         /\ IsLine(i, "update_agent", id)
                         /\ \E j \in 1..i : IsLine(j, "add_agent", id)
                         /\ \E k \in DOMAIN ran' : ran'[k].tick = file[i].time}
  BY <1>2 DEF UpdatesSoFar, parsed, IsLine
<1>5. UpdatesSoFar(id)' = UpdatesSoFar(id) \cup LinesOf(id, currTick)
  BY <1>3, <1>4 DEF UpdatesSoFar, LinesOf
<1>6. {ran[k].tick : k \in DOMAIN ran} = {t \in DOMAIN trace_time_ticks : currTick = End \/ t < currTick}
  BY <1>2 DEF ReplayInv, ReplayedOnTime, Replaying
<1>7. \A k \in DOMAIN ran : ran[k].tick < currTick
  BY <1>2, <1>6 DEF End
<1> QED
  BY <1>5, <1>7 DEF UpdatesSoFar

\* A tick moves every agent that has lines for it to the latest of them.
LEMMA PausePos ==
    ASSUME Base, ReplayInv, LimitInv, MapInv, PosInv, pause PROVE PosInv'
<1>1. CASE phase' = "crashed"
  BY <1>1 DEF PosInv, Replaying
<1>2. CASE phase' # "crashed"
  <2>1. /\ UNCHANGED <<parsed, AllAgents>> /\ phase = "running" /\ phase' \in {"running", "stopped"}
        /\ pos' = Moved(pushToQueue) /\ currTick \in Nat
    BY <1>2, PauseEffect
  <2>2. file' = file /\ (TickLinesFirst' <=> TickLinesFirst) /\ AllAgents = agent_limit /\ AllAgents \subseteq Ids
    BY <2>1 DEF parsed, TickLinesFirst, LimitInv, Replaying, Base, TypeOK
  <2> SUFFICES ASSUME TickLinesFirst, NEW id \in AllAgents
               PROVE  \/ UpdatesSoFar(id)' = {} /\ pos'[id] = Origin
                      \/ /\ \E i \in UpdatesSoFar(id)' : LastOf(UpdatesSoFar(id)', i)
                         /\ \A i \in UpdatesSoFar(id)' :
                               LastOf(UpdatesSoFar(id)', i) => pos'[id] = file[i].pos
    BY <2>1, <2>2 DEF PosInv, LastOf
  <2> DEFINE U == UpdatesSoFar(id)
             U1 == UpdatesSoFar(id)'
             L == LinesOf(id, currTick)
             u == At(currTick).update_agent
  <2>3. U1 = U \cup L /\ \A i \in U : file[i].time < currTick
    BY <1>2, SoFarGrows
  <2>4. /\ id \in DOMAIN u <=> L # {}
        /\ L # {} => \E i \in L : Latest(L, i)
        /\ \A i \in L : Latest(L, i) => u[id] = file[i].pos
    BY <2>1, <2>2 DEF MapInv
  <2>5. pos'[id] = IF id \in DOMAIN u THEN u[id] ELSE pos[id]
    BY <2>1, <2>2 DEF Moved, pushToQueue
  <2>6. \/ U = {} /\ pos[id] = Origin
        \/ /\ \E i \in U : LastOf(U, i)
           /\ \A i \in U : LastOf(U, i) => pos[id] = file[i].pos
    BY <2>1 DEF PosInv, Replaying
  <2>7. \A i \in L : file[i].time = currTick
    BY DEF LinesOf
  <2>8. \A i \in U1 : file[i].time \in Nat /\ i \in Nat
    <3>1. file \in Seq(Lines) /\ DOMAIN file = 1..Len(file)
      BY DEF Base, TypeOK
    <3>2. \A i \in 1..Len(file) : file[i] \in Lines
      BY <3>1, ElementOfSeq
    <3> QED
      BY <2>3, <3>1, <3>2, LineTypesOK DEF UpdatesSoFar, LinesOf
  <2> HIDE DEF U, U1, L, u
  <2>9. CASE L = {}
    BY <2>3, <2>4, <2>5, <2>6, <2>9 DEF U1
  <2>10. CASE L # {}
    <3>1. PICK last \in L : Latest(L, last)
      BY <2>4, <2>10
    <3>2. LastOf(U1, last)
      BY <2>1, <2>3, <2>7, <3>1 DEF LastOf, Latest
    <3>3. ASSUME NEW i \in U1, LastOf(U1, i) PROVE pos'[id] = file[i].pos
      <4>1. i \in L
        BY <2>1, <2>3, <2>7, <2>8, <3>1, <3>3 DEF LastOf
      <4>2. Latest(L, i)
        BY <2>1, <2>3, <2>7, <2>8, <3>3, <4>1 DEF LastOf, Latest
      <4> QED
        BY <2>4, <2>5, <2>10, <4>1, <4>2
    <3> QED
      BY <2>3, <3>1, <3>2, <3>3 DEF U1
  <2> QED
    BY <2>9, <2>10
<1> QED
  BY <1>1, <1>2

\* Only pause moves an agent.
LEMMA NextPos ==
    Base /\ ReplayInv /\ LimitInv /\ MapInv /\ PosInv /\ [Next]_vars => PosInv'
<1> SUFFICES ASSUME Base, ReplayInv, LimitInv, MapInv, PosInv, [Next]_vars PROVE PosInv'
  OBVIOUS
<1>1. CASE construct \/ parse_fails \/ parseLine
  <2>1. /\ phase \in {"constructing", "parsing"} /\ phase' \in {"parsing", "crashed"}
        /\ UNCHANGED pos
    BY <1>1 DEF construct, parse_fails, parseLine, parseLine_tick, parseLine_ADD, parseLine_UPDATE,
                parseLine_MULTICAST, NextLine, Crash
  <2> QED
    BY <2>1 DEF PosInv, Replaying
<1>2. ASSUME NEW protocol \in Protocols, start(protocol) PROVE PosInv'
  <2>1. CASE phase' = "crashed"
    BY <2>1 DEF PosInv, Replaying
  <2>2. CASE phase' # "crashed"
    <3>1. /\ phase = "parsing" /\ phase' = "running" /\ pos' = pos /\ ran' = << >>
          /\ AllAgents' = NodeIds
      BY <1>2, <2>2 DEF start, Crash, Base, PhaseInv
    <3>2. AllAgents' \subseteq Ids /\ pos' = [id \in Ids |-> Origin]
      BY <3>1 DEF NodeIds, Base, TypeOK, PosInv
    <3>3. DOMAIN ran' = {}
      BY <3>1
    <3>4. \A id \in AllAgents' : UpdatesSoFar(id)' = {}
      BY <3>3 DEF UpdatesSoFar
    <3>5. \A id \in AllAgents' : pos'[id] = Origin
      BY <3>2
    <3> QED
      BY <3>1, <3>4, <3>5 DEF PosInv
  <2> QED
    BY <2>1, <2>2
<1>3. CASE pause
  BY <1>3, PausePos
<1>4. CASE destroy \/ UNCHANGED vars
  <2>1. /\ UNCHANGED <<disabled, parsed, AllAgents, pos, clock>>
        /\ phase' = phase \/ (phase = "stopped" /\ phase' \in {"ended", "crashed"})
    BY <1>4 DEF destroy, vars
  <2>2. /\ \A id \in AllAgents : UpdatesSoFar(id)' = UpdatesSoFar(id)
        /\ TickLinesFirst' <=> TickLinesFirst
        /\ file' = file /\ AllAgents' = AllAgents /\ pos' = pos
    BY <2>1 DEF parsed, clock, UpdatesSoFar, IsLine, TickLinesFirst
  <2>3. Replaying' => Replaying
    BY <2>1 DEF Replaying
  <2>4. \A id \in AllAgents : \A i \in UpdatesSoFar(id) :
          LastOf(UpdatesSoFar(id), i)' <=> LastOf(UpdatesSoFar(id), i)
    BY <2>2 DEF LastOf
  <2> QED
    BY <2>1, <2>2, <2>3, <2>4 DEF PosInv
<1> QED
  BY <1>1, <1>2, <1>3, <1>4 DEF Next, startAny

\* The whole invariant of the positions.
LEMMA PosInvariance == Spec => []PosInv
<1>1. Init => MapInv
  <2> SUFFICES ASSUME Init, NEW id \in Ids, NEW t \in Nat
               PROVE  LinesOf(id, t) = {} /\ DOMAIN At(t).update_agent = {}
    BY DEF MapInv
  <2>1. DOMAIN file = {} /\ DOMAIN trace_time_ticks = {}
    BY DEF Init
  <2> QED
    BY <2>1 DEF LinesOf, At, TimeTick
<1>2. Init => PosInv
  BY DEF Init, PosInv, Replaying
<1> QED
  BY <1>1, <1>2, NextMap, NextPos, LimitInvariance, ReplayInvariance, PTL DEF Spec

\* In a file that has every tick's own line first, with its other lines in any
\* order, every agent is after every tick where the last of its update lines so
\* far put it.
THEOREM AgentsFollowTheTrace == Spec => []PositionsReplayed
<1>1. PosInv => PositionsReplayed
  <2> SUFFICES ASSUME PosInv, Replaying, TickLinesFirst, NEW id \in AllAgents
               PROVE  LET U == UpdatesSoFar(id)
                          last == CHOOSE i \in U : \A j \in U :
                                    \/ file[j].time < file[i].time
                                    \/ file[j].time = file[i].time /\ j <= i
                      IN pos[id] = IF U = {} THEN Origin ELSE file[last].pos
    BY DEF PositionsReplayed
  <2> DEFINE U == UpdatesSoFar(id)
             last == CHOOSE i \in U : \A j \in U :
                       \/ file[j].time < file[i].time
                       \/ file[j].time = file[i].time /\ j <= i
  <2>1. \/ U = {} /\ pos[id] = Origin
        \/ /\ \E i \in U : LastOf(U, i)
           /\ \A i \in U : LastOf(U, i) => pos[id] = file[i].pos
    BY DEF PosInv
  <2> HIDE DEF U
  <2>2. CASE \E i \in U : LastOf(U, i)
    <3>1. last \in U /\ LastOf(U, last)
      BY <2>2 DEF LastOf
    <3> QED
      BY <2>1, <2>2, <3>1 DEF U
  <2>3. CASE U = {}
    BY <2>1, <2>3 DEF U
  <2> QED
    BY <2>1, <2>2, <2>3
<1> QED
  BY <1>1, PosInvariance, PTL
=============================================================================
