--------------------------- MODULE MCRegistration ---------------------------
(* Small instances of Registration.                                        *)
EXTENDS Registration

Bundle(k, ms) == [kind |-> k, msgs |-> ms]
IdRequest(t)  == [type |-> "id_request", token |-> t, add |-> {}]
NewAgents(s)  == [type |-> "new_agents", token |-> NoToken, add |-> s]
IdAck         == [type |-> "id_ack", token |-> NoToken, add |-> {}]

MCIds == {1, 2, 3}

\* The handshake's messages, with and without what they need, and every kind of
\* bundle that the reading side refuses.
MCServerBundles ==
    {Bundle("ok", <<IdRequest("t")>>), Bundle("ok", <<IdRequest(NoToken)>>),
     Bundle("ok", <<NewAgents({})>>), Bundle("ok", <<NewAgents({2, 3})>>),
     Bundle("ok", <<NewAgents({1, 2, 3})>>), Bundle("ok", <<IdAck>>),
     Bundle("ok", <<IdAck, IdAck>>), Bundle("bad", << >>), Bundle("empty", << >>)}
=============================================================================
