----------------------------- MODULE MCOverlay ------------------------------
(***************************************************************************)
(* Three nodes 00, 10 and 11 with buckets of one contact: for 00 the other *)
(* two compete for one place, for each of them 00 is far and the other     *)
(* near, so 10 and 11 may know two peers, and tell of one or both.         *)
(***************************************************************************)
EXTENDS Overlay

MCNode == {{}, {1}, {0, 1}}

MCAnswerK == {} :> 2 @@ {1} :> 2 @@ {0, 1} :> 1

\* Addresses are only compared.
AddrSymmetry == Permutations(Addr)
=============================================================================
