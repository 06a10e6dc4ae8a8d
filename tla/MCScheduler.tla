----------------------------- MODULE MCScheduler -----------------------------
(***************************************************************************)
(* One scheduler with three fibers, the LIFO slot capped at 2 in a  *)
(* row (lifo_cap is 3 in the code; 2 is the least that tells the cap from  *)
(* a plain alternation).                                                   *)
(***************************************************************************)
EXTENDS Scheduler

CONSTANTS f1, f2, f3

ThreeFibers == <<f1, f2, f3>>
ByPriority == [f \in Fibers |-> IF f = f1 THEN 0 ELSE 2]
=============================================================================
