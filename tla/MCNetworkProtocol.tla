------------------------- MODULE MCNetworkProtocol --------------------------
(***************************************************************************)
(* Two nodes with different loads and two calls of send_request.           *)
(***************************************************************************)
EXTENDS NetworkProtocol, TLC

CONSTANTS n1, n2

MCNode == {n1, n2}
MCOwnLoad == n1 :> 1 @@ n2 :> 2
=============================================================================
