----------------------------- MODULE TickBarrier ----------------------------
(***************************************************************************)
(* What the Broker promises a Sim Mobility that ends every bundle with     *)
(* "ticked_simmob" and then waits: the two simulators meet at a barrier.   *)
(* Sim Mobility announces a tick with the messages it is to have; ns-3     *)
(* handles them, all of them and nothing else; only then is the tick       *)
(* answered, and only then can the next be announced.                      *)
(*                                                                         *)
(* Threads, queues, buffers and the mutex are module Broker's, which shows *)
(* that it implements this one.                                            *)
(***************************************************************************)
EXTENDS Sequences

CONSTANT Ticks   \* what Sim Mobility may announce: non-empty message sequences

VARIABLES
    owed,      \* Sim Mobility waits for an answer
    task,      \* the messages announced and not yet handled
    handled    \* history: the ticks handled, in order

vars == <<owed, task, handled>>

Init ==
    /\ owed = FALSE
    /\ task = << >>
    /\ handled = << >>

Announce(msgs) ==
    /\ ~owed
    /\ owed' = TRUE
    /\ task' = msgs
    /\ UNCHANGED handled

Work ==
    /\ task # << >>
    /\ handled' = Append(handled, task)
    /\ task' = << >>
    /\ UNCHANGED owed

Answer ==
    /\ owed
    /\ task = << >>
    /\ owed' = FALSE
    /\ UNCHANGED <<task, handled>>

Next == (\E msgs \in Ticks : Announce(msgs)) \/ Work \/ Answer

Spec == Init /\ [][Next]_vars
=============================================================================
