---------------------------- MODULE FiberTxMutex ----------------------------
(***************************************************************************)
(* psiber::fiber_tx_mutex (src/libraries/psiber/src/fiber_mutex.cpp): the  *)
(* wound-wait mutex of database transactions.  Every field of a mutex is   *)
(* accessed under its _queue_lock, so each operation is one step up to the *)
(* point where it parks; the wake that follows an unlock is part of the    *)
(* unlock's step, because only the target's scheduler looks at the wake    *)
(* list and it may do so as late as it likes.                              *)
(*                                                                         *)
(* A client fiber runs one transaction: it locks Order[f] one by one, with *)
(* Fiber::tx_timestamp set as the tests set it, checks for a wound when it *)
(* comes back from a yield, and on wound_exception releases what it holds, *)
(* clears the flag and starts again.  A shutdown_exception makes it        *)
(* release what it holds and end.                                          *)
(***************************************************************************)
EXTENDS FiberSched

CONSTANTS
    Mutexes,
    Timestamp,    \* a transaction's age: lower is older
    Order         \* the mutexes each transaction locks, in order

ASSUME TxAssumption ==
    /\ Timestamp \in [Fibers -> Nat \ {0}]
    /\ \A f, g \in Fibers : Timestamp[f] = Timestamp[g] => f = g
    /\ Order \in [Fibers -> Seq(Mutexes)]
    /\ \A f \in Fibers : \A i, j \in 1..Len(Order[f]) : Order[f][i] = Order[f][j] => i = j

VARIABLES
    owner,        \* _owner of each mutex
    ownerTs,      \* _owner_timestamp of each mutex
    waitq,        \* _wait_head .. _wait_tail of each mutex
    wounded,      \* Fiber::wounded
    held,         \* how many of Order[f] the transaction has locked
    pc

txVars == <<owner, ownerTs, waitq, wounded, held, pc>>
vars == <<schedVars, txVars>>

Pcs == {"run", "check", "queued", "parked",
        "abort", "commit", "unwind",     \* releasing: wounded, committed, shut down
        "done"}

TypeOK ==
    /\ SchedTypeOK
    /\ owner \in [Mutexes -> Fibers \cup {NoFiber}]
    /\ ownerTs \in [Mutexes -> {0} \cup {Timestamp[f] : f \in Fibers}]
    /\ waitq \in [Mutexes -> Seq(Fibers)]
    /\ wounded \in [Fibers -> BOOLEAN]
    /\ held \in [Fibers -> Nat]
    /\ \A f \in Fibers : held[f] <= Len(Order[f])
    /\ pc \in [Fibers -> Pcs]

Init ==
    /\ SchedInit
    /\ owner = [m \in Mutexes |-> NoFiber]
    /\ ownerTs = [m \in Mutexes |-> 0]
    /\ waitq = [m \in Mutexes |-> <<>>]
    /\ wounded = [f \in Fibers |-> FALSE]
    /\ held = [f \in Fibers |-> 0]
    /\ pc = [f \in Fibers |-> "run"]

-----------------------------------------------------------------------------
At(f, label) == Executing(f) /\ pc[f] = label

Goto(f, label) == pc' = [pc EXCEPT ![f] = label]

Wants(f) == held[f] < Len(Order[f])

NextMutex(f) == Order[f][held[f] + 1]

Take(f, m) ==
    /\ At(f, "run") /\ Wants(f) /\ m = NextMutex(f)
    /\ owner[m] = NoFiber
    /\ owner' = [owner EXCEPT ![m] = f]
    /\ ownerTs' = [ownerTs EXCEPT ![m] = Timestamp[f]]
    /\ held' = [held EXCEPT ![f] = @ + 1]
    /\ UNCHANGED <<schedVars, waitq, pc>>

(* lock() on a free mutex. *)
LockFree(f, m) == Take(f, m) /\ wounded' = [wounded EXCEPT ![f] = FALSE]

(* try_lock() leaves the flag alone; a failure changes nothing. *)
TryLock(f, m) == Take(f, m) /\ UNCHANGED wounded

(* lock() on a held mutex: queue, and wound a younger holder. *)
LockBusy(f, m) ==
    /\ At(f, "run") /\ Wants(f) /\ m = NextMutex(f)
    /\ owner[m] # NoFiber
    /\ waitq' = [waitq EXCEPT ![m] = Append(@, f)]
    /\ wounded' = [wounded EXCEPT ![owner[m]] = @ \/ Timestamp[f] < ownerTs[m]]
    /\ Goto(f, "queued")
    /\ UNCHANGED <<schedVars, owner, ownerTs, held>>

LockPark(f) ==
    /\ ParkCurrent(f)
    /\ pc[f] = "queued"
    /\ Goto(f, "parked")
    /\ UNCHANGED <<owner, ownerTs, waitq, wounded, held>>

(* Mutant: the new owner keeps the old owner's timestamp. *)
HandoffTimestamp_Kept(m, f) == ownerTs[m]

(* next->tx_timestamp in unlock(). *)
HandoffTimestamp(m, f) == Timestamp[f]

(* Mutant: the first waiter is made the owner and not woken. *)
Release_NoWake(m) ==
    /\ owner' = [owner EXCEPT ![m] = IF waitq[m] = <<>> THEN NoFiber ELSE Head(waitq[m])]
    /\ ownerTs' = [ownerTs EXCEPT ![m] =
                      IF waitq[m] = <<>> THEN 0 ELSE Timestamp[Head(waitq[m])]]
    /\ waitq' = [waitq EXCEPT ![m] = IF @ = <<>> THEN @ ELSE Tail(@)]
    /\ UNCHANGED schedVars

(* unlock(): hand the mutex to the first waiter and wake it. *)
Release(m) ==
    \/ /\ waitq[m] # <<>>
       /\ LET next == Head(waitq[m]) IN
             /\ owner' = [owner EXCEPT ![m] = next]
             /\ ownerTs' = [ownerTs EXCEPT ![m] = HandoffTimestamp(m, next)]
             /\ waitq' = [waitq EXCEPT ![m] = Tail(@)]
             /\ Wake(next)
    \/ /\ waitq[m] = <<>>
       /\ owner' = [owner EXCEPT ![m] = NoFiber]
       /\ ownerTs' = [ownerTs EXCEPT ![m] = 0]
       /\ UNCHANGED <<schedVars, waitq>>

(* lock() returns from its park with the mutex ... *)
LockReturn(f) ==
    /\ At(f, "parked") /\ ~ThrowsShutdown(f)
    /\ ~wounded[f]
    /\ held' = [held EXCEPT ![f] = @ + 1]
    /\ Goto(f, "run")
    /\ UNCHANGED <<schedVars, owner, ownerTs, waitq, wounded>>

(* ... or, wounded meanwhile, releases it and throws ... *)
LockReturnWounded(f) ==
    /\ At(f, "parked") /\ ~ThrowsShutdown(f)
    /\ wounded[f]
    /\ Release(NextMutex(f))
    /\ Goto(f, "abort")
    /\ UNCHANGED <<wounded, held>>

(* ... or parkCurrentFiber() throws, and the fiber stays in the queue or,  *)
(* if it was handed the mutex meanwhile, remains its owner.                *)
LockShutdown(f) ==
    /\ At(f, "parked") /\ ThrowsShutdown(f)
    /\ Goto(f, "unwind")
    /\ UNCHANGED <<schedVars, owner, ownerTs, waitq, wounded, held>>

(* The client yields and then calls check_wounded(). *)
Yield(f) ==
    /\ YieldCurrent(f)
    /\ pc[f] = "run"
    /\ Goto(f, "check")
    /\ UNCHANGED <<owner, ownerTs, waitq, wounded, held>>

CheckWounded(f) ==
    /\ At(f, "check")
    /\ \/ ThrowsShutdown(f) /\ Goto(f, "unwind")
       \/ ~ThrowsShutdown(f) /\ Goto(f, IF wounded[f] THEN "abort" ELSE "run")
    /\ UNCHANGED <<schedVars, owner, ownerTs, waitq, wounded, held>>

(* The client has all its locks and commits. *)
Commit(f) ==
    /\ At(f, "run") /\ ~Wants(f)
    /\ Goto(f, "commit")
    /\ UNCHANGED <<schedVars, owner, ownerTs, waitq, wounded, held>>

(* The client unlocks the mutexes it holds, last one first. *)
UnlockLast(f) ==
    /\ Executing(f) /\ pc[f] \in {"abort", "commit", "unwind"}
    /\ held[f] > 0
    /\ Release(Order[f][held[f]])
    /\ held' = [held EXCEPT ![f] = @ - 1]
    /\ UNCHANGED <<wounded, pc>>

(* The client clears the flag and retries. *)
Retry(f) ==
    /\ At(f, "abort") /\ held[f] = 0
    /\ wounded' = [wounded EXCEPT ![f] = FALSE]
    /\ Goto(f, "run")
    /\ UNCHANGED <<schedVars, owner, ownerTs, waitq, held>>

Finish(f) ==
    /\ pc[f] \in {"commit", "unwind"} /\ held[f] = 0
    /\ FinishCurrent(f)
    /\ Goto(f, "done")
    /\ UNCHANGED <<owner, ownerTs, waitq, wounded, held>>

FiberStep(f) ==
    \/ \E m \in Mutexes : LockFree(f, m) \/ TryLock(f, m) \/ LockBusy(f, m)
    \/ LockPark(f) \/ LockReturn(f) \/ LockReturnWounded(f) \/ LockShutdown(f)
    \/ Yield(f) \/ CheckWounded(f)
    \/ Commit(f) \/ UnlockLast(f) \/ Retry(f) \/ Finish(f)

Next ==
    \/ SchedStep /\ UNCHANGED txVars
    \/ \E f \in Fibers : FiberStep(f)

(* A running transaction runs on, and neither yields for ever instead of   *)
(* locking what it still needs nor instead of committing.                  *)
Fairness ==
    /\ SchedFairness
    /\ \A f \in Fibers :
          /\ WF_vars(FiberStep(f))
          /\ SF_vars(\E m \in Mutexes : LockFree(f, m) \/ LockBusy(f, m))
          /\ SF_vars(Commit(f))

Spec == Init /\ [][Next]_vars /\ Fairness

-----------------------------------------------------------------------------
(* Properties.                                                             *)

Holds(f, m) == \E i \in 1..held[f] : Order[f][i] = m

(* A transaction that believes it holds a mutex is its owner, so two never *)
(* hold the same one, and the timestamp against which requesters compare   *)
(* themselves is the owner's own (0 for a free mutex): holder_timestamp()  *)
(* is never stale, whatever chain of hand-offs and aborts led to it.       *)
OwnerAndTimestampAgree ==
    /\ TypeOK
    /\ \A f \in Fibers, m \in Mutexes : Holds(f, m) => owner[m] = f
    /\ \A m \in Mutexes :
          ownerTs[m] = (IF owner[m] = NoFiber THEN 0 ELSE Timestamp[owner[m]])

(* When all transactions lock in one order every one of them commits, in   *)
(* spite of wounds, aborts and retries, unless some scheduler shuts down;  *)
(* and the transactions of a scheduler that does all come to their end.    *)
EveryTransactionCommits ==
    \A f \in Fibers :
        /\ <>(pc[f] = "done" \/ \E s \in Scheds : interrupted[s])
        /\ interrupted[Home[f]] ~> pc[f] = "done"
=============================================================================
