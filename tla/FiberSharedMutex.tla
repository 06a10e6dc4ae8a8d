-------------------------- MODULE FiberSharedMutex --------------------------
(***************************************************************************)
(* psiber::fiber_shared_mutex (src/libraries/psiber/src/fiber_mutex.cpp):  *)
(* a reader-writer mutex whose waiters park.  _writer and the two wait     *)
(* queues are written under _queue_lock only, but _writer and              *)
(* _writer_wait_head are read, and _readers is read and written, without   *)
(* it: each of those accesses is a step.                                   *)
(*                                                                         *)
(* Any fiber may read or write, and may yield while it holds the mutex.    *)
(* Shutdown is not modelled here (Interruptible is empty).                 *)
(***************************************************************************)
EXTENDS FiberSched

CONSTANT TryClients   \* the fibers that call try_lock and try_lock_shared

ASSUME SharedMutexAssumption ==
    /\ TryClients \subseteq Fibers
    /\ IsFiniteSet(Fibers)
    /\ Interruptible = {}

VARIABLES
    readers,       \* _readers
    writer,        \* _writer
    writerq,       \* _writer_wait_head .. _writer_wait_tail
    readerq,       \* _reader_wait_head .. _reader_wait_tail
    queueLock,     \* the fiber that holds _queue_lock, or NoFiber
    pc,            \* where each fiber is in the operation it calls
    batch          \* the fibers that an unlock has taken off a queue, to wake

mutexVars == <<readers, writer, writerq, readerq, queueLock, pc, batch>>
vars == <<schedVars, mutexVars>>

Pcs == {"idle",
        "wTake", "wEnqueue", "wQueued", "wParked", "wHeld",   \* lock
        "uHandoff", "uWakeReaders",                           \* unlock
        "rHead", "rAdd", "rCheck", "rUndo", "rSlow",          \* lock_shared
        "rQueued", "rParked", "rHeld",
        "tAdd", "tCheck", "tUndo",                            \* try_lock_shared
        "ruLast", "ruHandoff",                                \* unlock_shared
        "wake"}                                               \* Scheduler::wake(next)

TypeOK ==
    /\ SchedTypeOK
    /\ readers \in 0..(2 * Cardinality(Fibers))
    /\ writer \in BOOLEAN
    /\ writerq \in Seq(Fibers)
    /\ readerq \in Seq(Fibers)
    /\ queueLock \in Fibers \cup {NoFiber}
    /\ pc \in [Fibers -> Pcs]
    /\ batch \in [Fibers -> Seq(Fibers)]

Init ==
    /\ SchedInit
    /\ readers = 0
    /\ writer = FALSE
    /\ writerq = <<>>
    /\ readerq = <<>>
    /\ queueLock = NoFiber
    /\ pc = [f \in Fibers |-> "idle"]
    /\ batch = [f \in Fibers |-> <<>>]

-----------------------------------------------------------------------------
At(f, label) == Executing(f) /\ pc[f] = label

Goto(f, label) == pc' = [pc EXCEPT ![f] = label]

(* _queue_lock.lock() / unlock(): a step that keeps the lock for the next  *)
(* one, a step that ends the critical section, a step that is all of it.   *)
LockQueue(f) == queueLock = NoFiber /\ queueLock' = f
UnlockQueue(f) == queueLock = f /\ queueLock' = NoFiber
WithQueueLock == queueLock = NoFiber /\ UNCHANGED queueLock

(* Mutant: a writer does not look at the readers. *)
Free_IgnoresReaders == ~writer /\ writerq = <<>>

(* Nobody holds the mutex and no writer is queued. *)
Free == ~writer /\ readers = 0 /\ writerq = <<>>

(* lock(): test under _queue_lock ... *)
LockTest(f) ==
    /\ At(f, "idle")
    /\ LockQueue(f)
    /\ Goto(f, IF Free THEN "wTake" ELSE "wEnqueue")
    /\ UNCHANGED <<schedVars, readers, writer, writerq, readerq, batch>>

(* try_lock(): the same without looking at the queue. *)
TryLockTest(f) ==
    /\ f \in TryClients
    /\ At(f, "idle")
    /\ ~writer
    /\ readers = 0
    /\ LockQueue(f)
    /\ Goto(f, "wTake")
    /\ UNCHANGED <<schedVars, readers, writer, writerq, readerq, batch>>

(* ... then take the mutex ... *)
LockTake(f) ==
    /\ At(f, "wTake")
    /\ writer' = TRUE
    /\ UnlockQueue(f)
    /\ Goto(f, "wHeld")
    /\ UNCHANGED <<schedVars, readers, writerq, readerq, batch>>

(* ... or queue, and park. *)
LockEnqueue(f) ==
    /\ At(f, "wEnqueue")
    /\ writerq' = Append(writerq, f)
    /\ UnlockQueue(f)
    /\ Goto(f, "wQueued")
    /\ UNCHANGED <<schedVars, readers, writer, readerq, batch>>

ParkWaiter(f) ==
    /\ ParkCurrent(f)
    /\ \/ pc[f] = "wQueued" /\ Goto(f, "wParked")
       \/ pc[f] = "rQueued" /\ Goto(f, "rParked")
    /\ UNCHANGED <<readers, writer, writerq, readerq, queueLock, batch>>

(* parkCurrentFiber() returns: the mutex was handed over. *)
ParkReturn(f) ==
    /\ \/ At(f, "wParked") /\ Goto(f, "wHeld")
       \/ At(f, "rParked") /\ Goto(f, "rHeld")
    /\ UNCHANGED <<schedVars, readers, writer, writerq, readerq, queueLock, batch>>

(* unlock(): _writer is cleared first ... *)
UnlockClear(f) ==
    /\ At(f, "wHeld")
    /\ LockQueue(f)
    /\ writer' = FALSE
    /\ Goto(f, "uHandoff")
    /\ UNCHANGED <<schedVars, readers, writerq, readerq, batch>>

(* ... then all the readers are taken off their queue, or one writer off   *)
(* its own, with _writer set again on its behalf.                          *)
UnlockHandoff(f) ==
    /\ At(f, "uHandoff")
    /\ UnlockQueue(f)
    /\ \/ /\ readerq # <<>>
          /\ batch' = [batch EXCEPT ![f] = readerq]
          /\ readerq' = <<>>
          /\ Goto(f, "uWakeReaders")
          /\ UNCHANGED <<writer, writerq>>
       \/ /\ readerq = <<>> /\ writerq # <<>>
          /\ batch' = [batch EXCEPT ![f] = <<Head(writerq)>>]
          /\ writerq' = Tail(writerq)
          /\ writer' = TRUE
          /\ Goto(f, "wake")
          /\ UNCHANGED readerq
       \/ /\ readerq = <<>> /\ writerq = <<>>
          /\ Goto(f, "idle")
          /\ UNCHANGED <<writer, writerq, readerq, batch>>
    /\ UNCHANGED <<schedVars, readers>>

(* unlock(): one iteration of the loop that counts and wakes the readers. *)
UnlockWakeReader(f) ==
    /\ At(f, "uWakeReaders")
    /\ readers' = readers + 1
    /\ Wake(Head(batch[f]))
    /\ batch' = [batch EXCEPT ![f] = Tail(@)]
    /\ Goto(f, IF Len(batch[f]) = 1 THEN "idle" ELSE "uWakeReaders")
    /\ UNCHANGED <<writer, writerq, readerq, queueLock>>

(* Mutant: the writer that was handed the mutex is not woken. *)
WakeWriter_Skipped(f) ==
    /\ At(f, "wake")
    /\ batch' = [batch EXCEPT ![f] = <<>>]
    /\ Goto(f, "idle")
    /\ UNCHANGED <<schedVars, readers, writer, writerq, readerq, queueLock>>

(* unlock() and unlock_shared(): Scheduler::wake(next). *)
WakeWriter(f) ==
    /\ At(f, "wake")
    /\ Wake(Head(batch[f]))
    /\ batch' = [batch EXCEPT ![f] = <<>>]
    /\ Goto(f, "idle")
    /\ UNCHANGED <<readers, writer, writerq, readerq, queueLock>>

(* Mutant: the fast path does not look for a queued writer. *)
SharedLoad_NoHead(f) ==
    /\ At(f, "idle") /\ Goto(f, IF writer THEN "rSlow" ELSE "rAdd")
    /\ UNCHANGED <<schedVars, readers, writer, writerq, readerq, queueLock, batch>>

(* lock_shared(): the unlocked loads of _writer and of _writer_wait_head. *)
SharedLoad(f) ==
    /\ \/ At(f, "idle") /\ Goto(f, IF writer THEN "rSlow" ELSE "rHead")
       \/ At(f, "rHead") /\ Goto(f, IF writerq = <<>> THEN "rAdd" ELSE "rSlow")
    /\ UNCHANGED <<schedVars, readers, writer, writerq, readerq, queueLock, batch>>

(* try_lock_shared(): _writer only; a failure changes nothing. *)
TrySharedLoad(f) ==
    /\ f \in TryClients
    /\ At(f, "idle")
    /\ ~writer
    /\ Goto(f, "tAdd")
    /\ UNCHANGED <<schedVars, readers, writer, writerq, readerq, queueLock, batch>>

SharedAdd(f) ==
    /\ \/ At(f, "rAdd") /\ Goto(f, "rCheck")
       \/ At(f, "tAdd") /\ Goto(f, "tCheck")
    /\ readers' = readers + 1
    /\ UNCHANGED <<schedVars, writer, writerq, readerq, queueLock, batch>>

(* The second load of _writer: enter, or ... *)
SharedCheck(f) ==
    /\ \/ At(f, "rCheck") /\ Goto(f, IF writer THEN "rUndo" ELSE "rHeld")
       \/ At(f, "tCheck") /\ Goto(f, IF writer THEN "tUndo" ELSE "rHeld")
    /\ UNCHANGED <<schedVars, readers, writer, writerq, readerq, queueLock, batch>>

(* Mutant: the count is not taken back. *)
SharedUndo_Missing(f) ==
    /\ \/ At(f, "rUndo") /\ Goto(f, "rSlow")
       \/ At(f, "tUndo") /\ Goto(f, "idle")
    /\ UNCHANGED <<schedVars, readers, writer, writerq, readerq, queueLock, batch>>

(* ... take the count back. *)
SharedUndo(f) ==
    /\ \/ At(f, "rUndo") /\ Goto(f, "rSlow")
       \/ At(f, "tUndo") /\ Goto(f, "idle")
    /\ readers' = readers - 1
    /\ UNCHANGED <<schedVars, writer, writerq, readerq, queueLock, batch>>

(* lock_shared(): the slow path under _queue_lock. *)
SharedSlow(f) ==
    /\ At(f, "rSlow")
    /\ WithQueueLock
    /\ \/ /\ ~writer /\ writerq = <<>>
          /\ readers' = readers + 1
          /\ Goto(f, "rHeld")
          /\ UNCHANGED readerq
       \/ /\ writer \/ writerq # <<>>
          /\ readerq' = Append(readerq, f)
          /\ Goto(f, "rQueued")
          /\ UNCHANGED readers
    /\ UNCHANGED <<schedVars, writer, writerq, batch>>

(* Mutant: the value after the decrement is compared with 1. *)
LastReader_OffByOne == readers = 2

(* fetch_sub returned 1. *)
LastReader == readers = 1

(* unlock_shared(): the decrement ... *)
UnlockShared(f) ==
    /\ At(f, "rHeld")
    /\ readers' = readers - 1
    /\ Goto(f, IF LastReader THEN "ruLast" ELSE "idle")
    /\ UNCHANGED <<schedVars, writer, writerq, readerq, queueLock, batch>>

(* ... the last reader looks again under _queue_lock ... *)
UnlockSharedLast(f) ==
    /\ At(f, "ruLast")
    /\ \/ /\ readers = 0 /\ writerq # <<>>
          /\ LockQueue(f)
          /\ Goto(f, "ruHandoff")
       \/ /\ readers # 0 \/ writerq = <<>>
          /\ WithQueueLock
          /\ Goto(f, "idle")
    /\ UNCHANGED <<schedVars, readers, writer, writerq, readerq, batch>>

(* ... and passes the mutex to the first writer. *)
UnlockSharedHandoff(f) ==
    /\ At(f, "ruHandoff")
    /\ batch' = [batch EXCEPT ![f] = <<Head(writerq)>>]
    /\ writerq' = Tail(writerq)
    /\ writer' = TRUE
    /\ UnlockQueue(f)
    /\ Goto(f, "wake")
    /\ UNCHANGED <<schedVars, readers, readerq>>

Yield(f) ==
    /\ YieldCurrent(f)
    /\ pc[f] \in {"idle", "wHeld", "rHeld"}
    /\ UNCHANGED mutexVars

FiberStep(f) ==
    \/ LockTest(f) \/ TryLockTest(f) \/ LockTake(f) \/ LockEnqueue(f)
    \/ ParkWaiter(f) \/ ParkReturn(f)
    \/ UnlockClear(f) \/ UnlockHandoff(f) \/ UnlockWakeReader(f) \/ WakeWriter(f)
    \/ SharedLoad(f) \/ TrySharedLoad(f) \/ SharedAdd(f) \/ SharedCheck(f)
    \/ SharedUndo(f) \/ SharedSlow(f)
    \/ UnlockShared(f) \/ UnlockSharedLast(f) \/ UnlockSharedHandoff(f)
    \/ Yield(f)

Next ==
    \/ SchedStep /\ UNCHANGED mutexVars
    \/ \E f \in Fibers : FiberStep(f)

(* A running fiber runs on; a holder eventually unlocks even if it yields  *)
(* meanwhile; a fiber outside gives the thread up again and again.         *)
Fairness ==
    /\ SchedFairness
    /\ \A f \in Fibers :
          /\ WF_vars(FiberStep(f))
          /\ SF_vars(UnlockClear(f)) /\ SF_vars(UnlockShared(f))
          /\ SF_vars(Yield(f) /\ pc[f] = "idle")

Spec == Init /\ [][Next]_vars /\ Fairness

-----------------------------------------------------------------------------
(* Properties.                                                             *)

Writers == {f \in Fibers : pc[f] = "wHeld"}
Readers == {f \in Fibers : pc[f] = "rHeld"}

(* fiber_shared_mutex.hpp: "Multiple concurrent readers, exclusive         *)
(* writers."  No fiber is inside with a writer.                            *)
WritersExclusive ==
    \A w \in Writers : \A f \in Writers \cup Readers : f = w

(* _readers counts exactly the fibers that hold the mutex shared, those    *)
(* unlock() has admitted and not yet resumed, and those whose fast path    *)
(* has not yet seen whether a writer came: no path loses or doubles a      *)
(* count, so the "last reader" test of unlock_shared() can be trusted.     *)
ReaderCountExact ==
    /\ TypeOK
    /\ readers = Cardinality(
          {f \in Fibers :
              \/ pc[f] \in {"rHeld", "rCheck", "rUndo", "tCheck", "tUndo"}
              \/ /\ pc[f] \in {"rQueued", "rParked"}
                 /\ \A i \in DOMAIN readerq : readerq[i] # f
                 /\ \A g \in Fibers : \A i \in DOMAIN batch[g] : batch[g][i] # f})

(* A fiber that parks, or is about to, is in a wait queue, is being woken, *)
(* or is on its way to run: no unlock drops a waiter it took off a queue.  *)
WaiterAccountedFor ==
    \A f \in Fibers : pc[f] \in {"wQueued", "wParked", "rQueued", "rParked"} =>
        \/ \E i \in DOMAIN writerq : writerq[i] = f
        \/ \E i \in DOMAIN readerq : readerq[i] = f
        \/ \E g \in Fibers : \E i \in DOMAIN batch[g] : batch[g][i] = f
        \/ f \in wakeList[Home[f]]
        \/ fstate[f] \in {"Ready", "Running"} /\ pc[f] \in {"wParked", "rParked"}

(* fiber_shared_mutex.hpp: "If this was the last reader and a writer is    *)
(* waiting, wakes it."  Nobody waits for a mutex that is free once every   *)
(* operation on it has returned or parked.  It holds on one thread; across *)
(* threads a reader that backs out can leave a writer parked.              *)
NobodyWaitsForAFreeMutex ==
    (/\ \A f \in Fibers : pc[f] \in {"idle", "wParked", "rParked"}
     /\ \A f \in Fibers : pc[f] # "idle" => fstate[f] = "Parked"
     /\ \A s \in Scheds : wakeList[s] = {})
        => \A f \in Fibers : pc[f] = "idle"

(* Every queued writer gets the mutex in spite of a stream of readers      *)
(* (deadlock_tests.cpp: "writer eventually acquires despite readers"),     *)
(* provided nobody barges in with try_lock_shared, and every queued reader *)
(* in spite of a stream of writers.                                        *)
WaitersGetIn ==
    \A f \in Fibers :
        /\ pc[f] = "wQueued" ~> pc[f] = "wHeld"
        /\ pc[f] = "rQueued" ~> pc[f] = "rHeld"
=============================================================================
