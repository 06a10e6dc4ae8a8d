------------------------------ MODULE MCDbHost ------------------------------
(* A guest with one table name and two keys, one database handle, and room   *)
(* for a write transaction with a frame, two tables and a cursor.            *)
EXTENDS DbHost, TLC

CONSTANTS k1, k2

Symmetry == Permutations({k1, k2})
=============================================================================
