--------------------------- MODULE MCTaskManager ----------------------------
(***************************************************************************)
(* One task identifier, a source, two workers with the same load and two   *)
(* calls of execute.                                                       *)
(***************************************************************************)
EXTENDS TaskManager, TLC

MCLoad == 1 :> 0 @@ 2 :> 5 @@ 3 :> 5

\* The calls of execute are interchangeable.
ExecSymmetry == Permutations(Exec)
=============================================================================
