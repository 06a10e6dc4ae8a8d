----------------------------- MODULE MCWorkPool -----------------------------
(***************************************************************************)
(* One work slot and one heap item (256 each in the code): two fibers, a   *)
(* thread and a callable that posts while it runs exhaust both.            *)
(***************************************************************************)
EXTENDS WorkPool

CONSTANTS f1, f2, t1, c1, c2, c3, c4, c5

MCCallables == {c1, c2, c3, c4, c5}
MCPostedBy ==
    [c \in Callables |-> CASE c = c1 -> f1 [] c = c2 -> f2 [] c = c3 -> f2
                           [] c = c4 -> t1 [] c = c5 -> c1]
=============================================================================
