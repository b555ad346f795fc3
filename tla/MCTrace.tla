------------------------------ MODULE MCTrace -------------------------------
(* A small instance of Trace.                                              *)
EXTENDS Trace

MCPositions == {"origin", "here", "there"}

Line(type, time, id, p, to) == [type |-> type, time |-> time, id |-> id, pos |-> p, to |-> to]
TickAt(t)          == Line("tick", t, 1, "origin", {})
Add(t, id)         == Line("add_agent", t, id, "origin", {})
Update(t, id, p)   == Line("update_agent", t, id, p, {})
Send(type, id, to) == Line(type, 1, id, "origin", to)

\* Nothing disabled, or everything.
MCDisable == {{}, {"communication", "location"}}

\* Ticks at uneven times, two agents of which one is let in, updates that the
\* file may have in the wrong order, and multicasts with and without recipients.
MCLines ==
    {TickAt(0), TickAt(1), TickAt(3), Add(0, 1), Add(0, 2),
     Update(1, 2, "here"), Update(3, 2, "there"), Update(3, 1, "here"),
     Send("multicast", 2, {1}), Send("other", 2, {})}
=============================================================================
