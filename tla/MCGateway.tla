------------------------------ MODULE MCGateway ------------------------------
(***************************************************************************)
(* Instances of BrokerGateway: a market order and a limit order of two     *)
(* units each, on an account with room for one of them.                    *)
(***************************************************************************)
EXTENDS BrokerGateway

CONSTANTS buy, rest

MCOrders  == {buy, rest}
MCUnits   == [o \in MCOrders |-> 2]
Resting   == {rest}
LostOnly  == {"lost"}
NoFaults  == {}
==============================================================================
