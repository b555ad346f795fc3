------------------------------ MODULE MCBroker ------------------------------
(* Small instances of Broker.                                              *)
EXTENDS Broker

Message(t) == [type |-> t]
Tick      == Message("ticked_simmob")
Locations == Message("all_locations")
Send      == Message("opaque_send")
Obsolete  == Message("MULTICAST")

Bundle(k, ms) == [kind |-> k, msgs |-> ms]

MCMessages == {Tick, Locations, Send, Obsolete}

\* Every bundle ends in "ticked_simmob", as Sim Mobility's do.
LockstepBundles ==
    {Bundle("ok", <<Tick>>), Bundle("ok", <<Locations, Tick>>), Bundle("ok", <<Send, Tick>>)}

\* A tick split over two bundles, an empty bundle, and every way to go wrong.
WildBundles ==
    {Bundle("ok", <<Locations, Tick>>), Bundle("ok", <<Send>>), Bundle("ok", <<Obsolete>>),
     Bundle("ok", << >>), Bundle("malformed", << >>), Bundle("badversion", << >>),
     Bundle("zerolen", << >>)}

\* Locations in a bundle of their own, the tick in the next.
SplitBundles == {Bundle("ok", <<Locations>>), Bundle("ok", <<Tick>>)}

NoMessage  == {}
SendOnly   == {Send}
NoFault    == {}
CloseOnly  == {"close"}
AllFaults  == {"close", "reset"}
=============================================================================
