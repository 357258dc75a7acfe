---------------------------- MODULE MCSolveStage ----------------------------
(* Two jobs side by side, and a third that reuses the directory of the first. *)
EXTENDS SolveStage

CONSTANTS j1, j2, j3

MCDir == [j \in {j1, j2, j3} |-> IF j = j2 THEN "beside" ELSE "reused"]
=============================================================================
