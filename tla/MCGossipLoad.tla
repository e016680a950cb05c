---------------------------- MODULE MCGossipLoad ----------------------------
(***************************************************************************)
(* A node and two peers whose loads cross: n2 is the less loaded one at    *)
(* time 1, n3 at time 0 and neither of them at time 2.                     *)
(***************************************************************************)
EXTENDS GossipLoad, TLC

CONSTANTS n1, n2, n3

Loads == n1 :> <<1, 1, 1>> @@ n2 :> <<3, 1, 2>> @@ n3 :> <<2, 3, 2>>

MCCpu == [n \in Node |-> [t \in Time |-> Loads[n][t + 1]]]
=============================================================================
