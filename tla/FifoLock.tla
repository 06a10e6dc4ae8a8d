------------------------------ MODULE FifoLock ------------------------------
(***************************************************************************)
(* What fiber_mutex promises its callers: one fiber inside at a time, and  *)
(* waiters admitted in the order in which they queued, with no newcomer    *)
(* overtaking a fiber that is already queued.                              *)
(***************************************************************************)
CONSTANTS Fibers

VARIABLES
    inside,    \* the set of fibers in the critical section
    waiting,   \* the fibers that wait
    ahead,     \* the pairs of waiting fibers, the one that came first first
    closing    \* the fibers whose scheduler is shutting down

lockVars == <<inside, waiting, ahead>>

Init == inside = {} /\ waiting = {} /\ ahead = {}

EnterFree(f) ==
    /\ inside = {}
    /\ waiting = {}
    /\ inside' = {f}
    /\ UNCHANGED <<waiting, ahead>>

Arrive(f) ==
    /\ f \notin waiting
    /\ waiting' = waiting \cup {f}
    /\ ahead' = ahead \cup (waiting \X {f})
    /\ UNCHANGED inside

Withdraw(f) ==
    /\ waiting' = waiting \ {f}
    /\ ahead' = {e \in ahead : f \notin {e[1], e[2]}}

EnterNext(f) ==
    /\ inside = {}
    /\ f \in waiting
    /\ \A g \in waiting : <<g, f>> \notin ahead
    /\ inside' = {f}
    /\ Withdraw(f)

Leave(f) ==
    /\ inside = {f}
    /\ inside' = {}
    /\ UNCHANGED <<waiting, ahead>>

(* A fiber that is shut down while it waits gives up its place. *)
Abandon(f) ==
    /\ f \in closing
    /\ Withdraw(f)
    /\ UNCHANGED inside

Next ==
    \E f \in Fibers : EnterFree(f) \/ Arrive(f) \/ EnterNext(f) \/ Leave(f) \/ Abandon(f)

Spec == Init /\ [][Next]_lockVars
=============================================================================
