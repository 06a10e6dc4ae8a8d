--------------------------- MODULE MCFiberPromise ---------------------------
(***************************************************************************)
(* Two fibers on one thread and one on another.  f1 and f3 use call(), f2  *)
(* uses async().                                                           *)
(***************************************************************************)
EXTENDS FiberPromise

CONSTANTS f1, f2, f3, s1, s2, p1, p2, p3

MCFibers == {f1, f2, f3}
MCScheds == {s1, s2}
MCHome == [f \in Fibers |-> IF f = f3 THEN s2 ELSE s1]
MCPromises == {p1, p2, p3}
OwnPromise == [f \in Fibers |-> CASE f = f1 -> p1 [] f = f2 -> p2 [] f = f3 -> p3]
=============================================================================
