--------------------------- MODULE MCFiberTxMutex ---------------------------
(***************************************************************************)
(* fiber_tx_mutex with three transactions, f1 the oldest and f3 the        *)
(* youngest, that lock two mutexes in one order.                           *)
(***************************************************************************)
EXTENDS FiberTxMutex

CONSTANTS f1, f2, f3, s1, s2, m1, m2

MCFibers == {f1, f2, f3}
MCScheds == {s1, s2}
MCHome == [f \in Fibers |-> IF f = f1 THEN s2 ELSE s1]
MCMutexes == {m1, m2}
MCTimestamp == [f \in Fibers |-> CASE f = f1 -> 1 [] f = f2 -> 2 [] f = f3 -> 3]
SameOrder == [f \in Fibers |-> <<m1, m2>>]
=============================================================================
