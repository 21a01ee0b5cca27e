----------------------------- MODULE MCAppLock ------------------------------
(* Instances of AppLock for TLC: jobs of one application in two
   worker processes with distinct pids. *)
EXTENDS AppLock, TLC

CONSTANTS j1, j2, j3, p1, p2, k1

OneApp       == j1 :> k1 @@ j2 :> k1 @@ j3 :> k1
PairOfOneApp == j1 :> k1 @@ j2 :> k1
OwnPids      == p1 :> 7 @@ p2 :> 8
ThreeJobs    == Permutations({j1, j2, j3})
=============================================================================
