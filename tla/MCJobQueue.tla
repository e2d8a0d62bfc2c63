------------------------------ MODULE MCJobQueue ------------------------------
(* Small instances of JobQueue.                                            *)
EXTENDS JobQueue, TLC

(* Two jobs of one type, or one of each.                                   *)
MixedTypes == {f \in [Jobs -> Types] : f[1] = "osdeploy"}

(* The types alternate, so that two claims may visit them in opposite      *)
(* orders.                                                                 *)
Alternating == {[j \in Jobs |-> IF j % 2 = 0 THEN "winpe" ELSE "osdeploy"]}

WorkerSymmetry == Permutations(Workers)
=============================================================================
