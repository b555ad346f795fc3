------------------------------ MODULE MCSystem ------------------------------
(* A small instance of System.                                             *)
EXTENDS System

MCPositions == {"origin", "here", "there"}

Tick == [type |-> "ticked_simmob"]
NewAgents(add, rem) == [type |-> "new_agents", add |-> add, rem |-> rem]
AddOnly(add) == [type |-> "new_agents", add |-> add]
Locations(locs) == [type |-> "all_locations", locations |-> locs]
Send(from, to) == [type |-> "opaque_send", from_id |-> from, to_ids |-> to, data |-> "d"]
NoLocations == [type |-> "all_locations"]
Obsolete == [type |-> "MULTICAST"]

Here(ids) == [id \in ids |-> "here"]
There(ids) == [id \in ids |-> "there"]

\* Agent 1 is registered; 2 comes, goes and is named while it is not there.
MCContents ==
    {<<AddOnly({1, 2}), Locations(Here({1, 2}))>>,
     <<NewAgents({}, {2})>>,
     <<NewAgents({2}, {1})>>,
     <<Locations(There({1, 2}))>>,
     <<Send(1, {2})>>,
     <<Send(2, {1, 2}), Locations(Here({2}))>>,
     <<NoLocations>>, <<Obsolete>>}

MCSimBundles == {[kind |-> "ok", msgs |-> Append(c, Tick)] : c \in MCContents}
MCMessages == UNION {{c[i] : i \in DOMAIN c} : c \in MCContents} \cup {Tick}
MCFragile == MCMessages \ {Tick}
NoFault == {}
=============================================================================
