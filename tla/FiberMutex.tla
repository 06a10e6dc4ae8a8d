----------------------------- MODULE FiberMutex -----------------------------
(***************************************************************************)
(* psiber::fiber_mutex (src/libraries/psiber/src/fiber_mutex.cpp): a FIFO  *)
(* mutex whose waiters park their fiber, with direct hand-off of the       *)
(* ownership on unlock.                                                    *)
(*                                                                         *)
(* _queue_lock protects the wait queue only; _owner is also written by the *)
(* fast path and by try_lock without it.  A critical section under         *)
(* _queue_lock touches _owner once, so it is one step; everything before   *)
(* and after it (the fast-path CAS, parkCurrentFiber, the wake that        *)
(* follows an unlock) is a step of its own and interleaves with the other  *)
(* threads.                                                                *)
(*                                                                         *)
(* A client fiber locks, works, possibly yielding inside, and unlocks; it  *)
(* holds the mutex through a guard, so an exception thrown out of the      *)
(* critical section runs unlock().                                         *)
(***************************************************************************)
EXTENDS FiberSched

VARIABLES
    owner,   \* fiber_mutex::_owner
    waitq,   \* _wait_head .. _wait_tail, linked by Fiber::next_blocked
    pc,      \* where each fiber is in lock() / unlock()
    next     \* the local `next` of unlock(): the fiber it is about to wake

mutexVars == <<owner, waitq, pc, next>>
vars == <<schedVars, mutexVars>>

Pcs == {"idle", "idleYield",      \* outside, outside and yielding
        "slow",                   \* fast path lost
        "queued", "parked",       \* in the wait queue: about to park, parked
        "cs", "csYield",          \* inside, inside and yielding
        "unwind",                 \* inside, unwinding a shutdown_exception
        "wake", "wakeUnwind",     \* about to wake the next owner
        "exit", "done"}           \* leaving the fiber's entry, finished

TypeOK ==
    /\ SchedTypeOK
    /\ owner \in Fibers \cup {NoFiber}
    /\ waitq \in Seq(Fibers)
    /\ pc \in [Fibers -> Pcs]
    /\ next \in [Fibers -> Fibers \cup {NoFiber}]

Init ==
    /\ SchedInit
    /\ owner = NoFiber
    /\ waitq = <<>>
    /\ pc = [f \in Fibers |-> "idle"]
    /\ next = [f \in Fibers |-> NoFiber]

-----------------------------------------------------------------------------
Goto(f, from, to) == pc[f] = from /\ pc' = [pc EXCEPT ![f] = to]

(* Mutants: a waiter jumps the queue, or overwrites it. *)
Enqueue_Front(f) == waitq' = <<f>> \o waitq
Enqueue_LosesQueue(f) == waitq' = <<f>>

(* The append to the FIFO wait queue. *)
Enqueue(f) == waitq' = Append(waitq, f)

(* The removal of the first waiter. *)
Dequeue == waitq # <<>> /\ waitq' = Tail(waitq)

(* Mutant: unlock() releases the mutex instead of handing it over. *)
StoreOwner_Releases(h) == owner' = NoFiber

(* _owner.store(h) in unlock(). *)
StoreOwner(h) == owner' = h

(* lock(): the fast-path compare-and-swap. *)
LockFast(f) ==
    /\ Executing(f)
    /\ \/ owner = NoFiber /\ owner' = f /\ Goto(f, "idle", "cs")
       \/ owner # NoFiber /\ owner' = owner /\ Goto(f, "idle", "slow")
    /\ UNCHANGED <<schedVars, waitq, next>>

(* lock(): the second compare-and-swap and the append, under _queue_lock. *)
LockSlow(f) ==
    /\ Executing(f)
    /\ \/ /\ owner = NoFiber
          /\ owner' = f
          /\ waitq' = waitq
          /\ Goto(f, "slow", "cs")
       \/ /\ owner # NoFiber
          /\ owner' = owner
          /\ Enqueue(f)
          /\ Goto(f, "slow", "queued")
    /\ UNCHANGED <<schedVars, next>>

LockPark(f) ==
    /\ ParkCurrent(f)
    /\ Goto(f, "queued", "parked")
    /\ UNCHANGED <<owner, waitq, next>>

(* parkCurrentFiber() returns: the fiber owns the mutex, or it throws. *)
LockReturn(f) ==
    /\ Executing(f)
    /\ Goto(f, "parked", IF ThrowsShutdown(f) THEN "exit" ELSE "cs")
    /\ UNCHANGED <<schedVars, owner, waitq, next>>

(* A failed try_lock() changes nothing. *)
TryLock(f) ==
    /\ Executing(f)
    /\ owner = NoFiber
    /\ owner' = f
    /\ Goto(f, "idle", "cs")
    /\ UNCHANGED <<schedVars, waitq, next>>

(* unlock(): under _queue_lock, ownership goes to the head of the queue. *)
Unlock(f) ==
    /\ Executing(f)
    /\ \/ /\ Dequeue
          /\ StoreOwner(Head(waitq))
          /\ next' = [next EXCEPT ![f] = Head(waitq)]
          /\ Goto(f, "cs", "wake") \/ Goto(f, "unwind", "wakeUnwind")
       \/ /\ waitq = <<>>
          /\ StoreOwner(NoFiber)
          /\ Goto(f, "cs", "idle") \/ Goto(f, "unwind", "exit")
          /\ UNCHANGED <<waitq, next>>
    /\ UNCHANGED schedVars

(* Mutant: unlock() returns without waking the fiber it made the owner. *)
UnlockWake_Skipped(f) ==
    /\ Executing(f)
    /\ Goto(f, "wake", "idle") \/ Goto(f, "wakeUnwind", "exit")
    /\ next' = [next EXCEPT ![f] = NoFiber]
    /\ UNCHANGED <<schedVars, owner, waitq>>

(* unlock(): Scheduler::wake(next), after _queue_lock is released. *)
UnlockWake(f) ==
    /\ Executing(f)
    /\ Goto(f, "wake", "idle") \/ Goto(f, "wakeUnwind", "exit")
    /\ Wake(next[f])
    /\ next' = [next EXCEPT ![f] = NoFiber]
    /\ UNCHANGED <<owner, waitq>>

(* The client yields, outside or inside the critical section. *)
Yield(f) ==
    /\ YieldCurrent(f)
    /\ Goto(f, "idle", "idleYield") \/ Goto(f, "cs", "csYield")
    /\ UNCHANGED <<owner, waitq, next>>

YieldReturn(f) ==
    /\ Executing(f)
    /\ \/ Goto(f, "idleYield", IF ThrowsShutdown(f) THEN "exit" ELSE "idle")
       \/ Goto(f, "csYield", IF ThrowsShutdown(f) THEN "unwind" ELSE "cs")
    /\ UNCHANGED <<schedVars, owner, waitq, next>>

(* The entry function ends and the fiber becomes Recyclable. *)
Exit(f) ==
    /\ FinishCurrent(f)
    /\ Goto(f, "exit", "done")
    /\ UNCHANGED <<owner, waitq, next>>

FiberStep(f) ==
    \/ LockFast(f) \/ LockSlow(f) \/ LockPark(f) \/ LockReturn(f) \/ TryLock(f)
    \/ Unlock(f) \/ UnlockWake(f) \/ Yield(f) \/ YieldReturn(f) \/ Exit(f)

Next ==
    \/ SchedStep /\ UNCHANGED mutexVars
    \/ \E f \in Fibers : FiberStep(f)

(* A running fiber runs on, leaves the critical section even though it may *)
(* yield inside it, and, outside, gives the thread up again and again.     *)
Fairness ==
    /\ SchedFairness
    /\ \A f \in Fibers :
          /\ WF_vars(FiberStep(f))
          /\ SF_vars(Unlock(f))
          /\ SF_vars(Yield(f) /\ pc[f] = "idle")

Spec == Init /\ [][Next]_vars /\ Fairness

-----------------------------------------------------------------------------
(* Properties.                                                             *)

Inside == {f \in Fibers : pc[f] \in {"cs", "csYield", "unwind"}}

(* At most one fiber, of all the threads, is between lock() and unlock(),  *)
(* whichever of the fast path, the slow path, try_lock and the hand-off    *)
(* let it in, and also while a scheduler shuts down.                       *)
MutualExclusion == \A f, g \in Inside : f = g

(* Scheduler::wake never pushes a fiber that is already linked into a wake *)
(* list: the list is intrusive (Fiber::next_wake), so a second push would  *)
(* cut it or close it into a cycle.                                        *)
WakeListIntact ==
    \A g \in Fibers : next[g] # NoFiber =>
        /\ next[g] \notin wakeList[Home[next[g]]]
        /\ \A h \in Fibers : next[h] = next[g] => h = g

(* A fiber that unlock() made the owner while it was parked, or about to   *)
(* park, has a wake on its way (it is on its scheduler's wake list or the  *)
(* unlocking fiber is about to push it) or is already Ready or Running:    *)
(* the hand-off is never lost between unlock() and parkCurrentFiber(), nor *)
(* cut out of the wake list by a second push.                              *)
HandoffReachesOwner ==
    /\ WakeListIntact
    /\ \A f \in Fibers :
          owner = f /\ pc[f] = "parked" /\ fstate[f] = "Parked" =>
              \/ f \in wakeList[Home[f]]
              \/ \E g \in Fibers : next[g] = f

(* A wake is never dropped by drainWakeList's "still Parked" test: a fiber *)
(* on a wake list whose scheduler is not shutting down is Parked, or is    *)
(* still running towards parkCurrentFiber().                               *)
WakeNotDropped ==
    \A s \in Scheds : \A f \in wakeList[s] :
        ~interrupted[s] => fstate[f] = "Parked" \/ (Executing(f) /\ pc[f] = "queued")

(* Every fiber that lost the fast path eventually holds the mutex, unless  *)
(* some scheduler shuts down.                                              *)
LockIsGranted ==
    \A f \in Fibers : pc[f] = "slow" ~> pc[f] = "cs" \/ \E s \in Scheds : interrupted[s]

(* Once a scheduler is interrupted each of its fibers reaches the end of   *)
(* its entry, the mutex having been handed to a dead fiber or not.         *)
ShutdownCompletes ==
    \A f \in Fibers : interrupted[Home[f]] ~> pc[f] = "done"

(* Whether f is at the given place of the line of waiters: 0 for the fiber *)
(* that was handed the mutex and has not returned from lock() yet, then    *)
(* the queue, without the fibers that a shutdown has taken out of lock().  *)
WaitsAt(f, i) ==
    /\ pc[f] \in {"queued", "parked"}
    /\ IF i = 0 THEN owner = f ELSE waitq[i] = f

Places == 0..Len(waitq)

Waiting == {f \in Fibers : \E i \in Places : WaitsAt(f, i)}

Ahead ==
    {e \in Fibers \X Fibers :
        \E i, j \in Places : i < j /\ WaitsAt(e[1], i) /\ WaitsAt(e[2], j)}

Closing == {f \in Fibers : interrupted[Home[f]]}

Abstract == INSTANCE FifoLock WITH
    inside <- Inside, waiting <- Waiting, ahead <- Ahead, closing <- Closing

(* fiber_mutex is a first-come first-served lock: a newcomer's fast path,  *)
(* slow path or try_lock never overtakes a queued fiber, and a shutdown    *)
(* only takes fibers of the interrupted scheduler out of the queue.        *)
ImplementsFifoLock == Abstract!Spec
=============================================================================
