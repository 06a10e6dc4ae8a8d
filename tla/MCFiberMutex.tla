---------------------------- MODULE MCFiberMutex ----------------------------
(***************************************************************************)
(* fiber_mutex with two fibers on one thread and one on another: the       *)
(* same-thread hand-off, the cross-thread hand-off and three-way           *)
(* contention all happen.                                                  *)
(***************************************************************************)
EXTENDS FiberMutex

CONSTANTS f1, f2, f3, s1, s2

MCFibers == {f1, f2, f3}
MCScheds == {s1, s2}
MCHome == [f \in MCFibers |-> IF f = f3 THEN s2 ELSE s1]
=============================================================================
