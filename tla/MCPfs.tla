------------------------------- MODULE MCPfs -------------------------------
(***************************************************************************)
(* A small content that is kept inline and a large one of two chunks, two  *)
(* tenants with one file each, two threads.                                *)
(***************************************************************************)
EXTENDS PfsStore, TLC

CONSTANTS small, large, r1, r2, t1, t2, x1, x2

MCSize == [c \in Contents |-> IF c = large THEN 3 ELSE 1]
OneRoot == [c \in Contents |-> r1]
BlocksInOneRoot == [q \in Seqs |-> r1]
Symmetry == Permutations({t1, t2}) \cup Permutations({x1, x2})
=============================================================================
