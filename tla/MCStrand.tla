------------------------------ MODULE MCStrand ------------------------------
(***************************************************************************)
(* Three fibers on one thread of a reactor: two posted to strand a and one *)
(* to strand b.                                                            *)
(***************************************************************************)
EXTENDS Strand

CONSTANTS f1, f2, f3, a, b, t1

MCFibers == {f1, f2, f3}
MCStrands == {a, b}
MCPosted == [f \in Fibers |-> IF f = f3 THEN b ELSE a]
MCSpawned == [t \in Threads |-> <<f1, f2, f3>>]
=============================================================================
