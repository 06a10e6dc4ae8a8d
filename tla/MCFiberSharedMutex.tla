------------------------- MODULE MCFiberSharedMutex -------------------------
(***************************************************************************)
(* fiber_shared_mutex with three fibers: on one thread, where only the     *)
(* yields interleave them, and on two, where every step does.              *)
(***************************************************************************)
EXTENDS FiberSharedMutex

CONSTANTS f1, f2, f3, s1, s2

MCFibers == {f1, f2, f3}
TwoScheds == {s1, s2}
OnTwoThreads == [f \in MCFibers |-> IF f = f3 THEN s2 ELSE s1]
OneSched == {s1}
OnOneThread == [f \in MCFibers |-> s1]
=============================================================================
