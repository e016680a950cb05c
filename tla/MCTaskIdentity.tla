--------------------------- MODULE MCTaskIdentity ---------------------------
(***************************************************************************)
(* Two keys and two payloads: {2} and {2, 10}, whose keys sort differently *)
(* as integers and as strings.                                             *)
(***************************************************************************)
EXTENDS TaskIdentity

MCPayloadKeys == {{2}, {2, 10}}

MCTextRank == 10 :> 1 @@ 2 :> 2

KeySymmetry == Permutations(PrivateKey) \cup Permutations(Task)
=============================================================================
