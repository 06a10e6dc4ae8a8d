-------------------------- MODULE FiberMutexProofs --------------------------
(***************************************************************************)
(* Proofs about fiber_mutex, for any number of fibers and schedulers, any  *)
(* placement of the fibers and any set of schedulers that may shut down.   *)
(***************************************************************************)
EXTENDS FiberMutex, FiberSchedProofs

InQueue(f) == \E i \in 1..Len(waitq) : waitq[i] = f

(* A wake for f is on its way. *)
Pending(f) == f \in wakeList[Home[f]] \/ \E g \in Fibers : next[g] = f

(* About to park, or parked and not yet made ready. *)
Suspended(f) == pc[f] = "queued" \/ (pc[f] = "parked" /\ fstate[f] = "Parked")

(* What a fiber's place in the code says of its scheduling state. *)
PcInv ==
    \A f \in Fibers :
        /\ pc[f] \in {"slow", "queued", "cs", "unwind", "wake", "wakeUnwind", "exit"} =>
              fstate[f] = "Running"
        /\ pc[f] \in {"idle", "idleYield", "csYield"} => fstate[f] \in {"Ready", "Running"}
        /\ pc[f] = "done" => fstate[f] = "Recyclable"
        /\ pc[f] \in {"unwind", "wakeUnwind", "exit", "done"} => interrupted[Home[f]]
        /\ next[f] # NoFiber <=> pc[f] \in {"wake", "wakeUnwind"}

(* The queue has no duplicates, and the fibers in it neither own the mutex *)
(* nor are being woken.                                                    *)
QueueInv ==
    /\ waitq # <<>> => owner # NoFiber
    /\ \A i, j \in 1..Len(waitq) : waitq[i] = waitq[j] => i = j
    /\ \A f \in Fibers : InQueue(f) =>
          /\ owner # f
          /\ ~Pending(f)
          /\ pc[f] \in {"queued", "parked", "exit", "done"}
          /\ ~interrupted[Home[f]] => Suspended(f)

(* The fiber inside is the owner, and an owner outside was handed the      *)
(* mutex and is being woken.                                               *)
OwnerInv ==
    \A f \in Fibers :
        /\ f \in Inside => owner = f
        /\ owner = f => pc[f] \in {"cs", "csYield", "unwind", "queued", "parked", "exit", "done"}
        /\ pc[f] = "parked" /\ fstate[f] # "Parked" /\ ~interrupted[Home[f]] => owner = f
        /\ owner = f /\ Suspended(f) => Pending(f)

PendingInv ==
    /\ \A f \in Fibers : Pending(f) =>
          /\ pc[f] \in {"queued", "parked", "exit", "done"}
          /\ ~interrupted[Home[f]] => owner = f /\ Suspended(f)
    /\ WakeListIntact

IInv == TypeOK /\ SchedInv /\ PcInv /\ QueueInv /\ OwnerInv /\ PendingInv

-----------------------------------------------------------------------------

(* What an append to, and a removal from the head of, a queue change. *)
LEMMA AppendFacts ==
    ASSUME NEW S, NEW q \in Seq(S), NEW e \in S
    PROVE  /\ Append(q, e) \in Seq(S)
           /\ Len(Append(q, e)) = Len(q) + 1
           /\ \A i \in 1..Len(q) : Append(q, e)[i] = q[i]
           /\ Append(q, e)[Len(q) + 1] = e
  OBVIOUS

(* The removal of a queue's head keeps the rest, in order. *)
LEMMA TailFacts ==
    ASSUME NEW S, NEW q \in Seq(S), q # <<>>
    PROVE  /\ Head(q) \in S
           /\ Head(q) = q[1]
           /\ Len(q) \in Nat \ {0}
           /\ Tail(q) \in Seq(S)
           /\ Len(Tail(q)) = Len(q) - 1
           /\ \A i \in 1..(Len(q) - 1) : Tail(q)[i] = q[i + 1]
  OBVIOUS

(* lock()'s fast path preserves IInv. *)
LEMMA LockFastInductive ==
    ASSUME IInv, NEW f \in Fibers, LockFast(f)
    PROVE  IInv'
<1> USE SchedAssumption DEF IInv, TypeOK, SchedTypeOK, Pcs, FiberStates, Executing, LockFast, Goto, schedVars, mutexVars
<1>1. TypeOK'
  OBVIOUS
<1>2. SchedInv'
  BY DEF SchedInv
<1>3. PcInv'
  BY DEF SchedInv, PcInv
<1>4. QueueInv'
  BY DEF SchedInv, PcInv, QueueInv, OwnerInv, PendingInv, InQueue, Pending, Suspended, Inside
<1>5. OwnerInv'
  BY DEF SchedInv, PcInv, QueueInv, OwnerInv, PendingInv, InQueue, Pending, Suspended, Inside
<1>6. PendingInv'
  BY DEF SchedInv, PcInv, QueueInv, OwnerInv, PendingInv, InQueue, Pending, Suspended, WakeListIntact, Inside
<1>7. QED
  BY <1>1, <1>2, <1>3, <1>4, <1>5, <1>6

(* lock()'s slow path under _queue_lock preserves IInv. *)
LEMMA LockSlowInductive ==
    ASSUME IInv, NEW f \in Fibers, LockSlow(f)
    PROVE  IInv'
<1> USE SchedAssumption DEF IInv, TypeOK, SchedTypeOK, Pcs, FiberStates, Executing, LockSlow, Goto, Enqueue, schedVars, mutexVars
<1>1. TypeOK'
  <2>1. Append(waitq, f) \in Seq(Fibers)
    BY AppendFacts
  <2>2. waitq' \in Seq(Fibers) /\ owner' \in Fibers \cup {NoFiber}
    BY <2>1
  <2>3. pc' \in [Fibers -> Pcs]
    OBVIOUS
  <2>4. QED
    BY <2>2, <2>3
<1>2. SchedInv'
  BY DEF SchedInv
<1>3. PcInv'
  BY DEF SchedInv, PcInv
<1>4. QueueInv'
  <2>1. CASE owner = NoFiber
    BY <2>1 DEF SchedInv, PcInv, QueueInv, OwnerInv, PendingInv, InQueue, Pending, Suspended, Inside
  <2>2. CASE owner # NoFiber
    <3>1. waitq' = Append(waitq, f) /\ owner' = owner
      BY <2>2
    <3>2. pc[f] = "slow" /\ ~InQueue(f) /\ owner # f /\ ~Pending(f)
      BY DEF QueueInv, OwnerInv, PendingInv
    <3>3. \A i, j \in 1..Len(waitq') : waitq'[i] = waitq'[j] => i = j
      BY <3>1, <3>2, AppendFacts DEF QueueInv, InQueue
    <3>4. \A g \in Fibers : InQueue(g)' => InQueue(g) \/ g = f
      BY <3>1, AppendFacts DEF InQueue
    <3>5. \A g \in Fibers : Pending(g)' <=> Pending(g)
      BY DEF Pending
    <3>6. QED
      BY <2>2, <3>1, <3>2, <3>3, <3>4, <3>5 DEF QueueInv, Suspended
  <2>3. QED
    BY <2>1, <2>2
<1>5. OwnerInv'
  BY DEF SchedInv, PcInv, QueueInv, OwnerInv, PendingInv, InQueue, Pending, Suspended, Inside
<1>6. PendingInv'
  BY DEF SchedInv, PcInv, QueueInv, OwnerInv, PendingInv, InQueue, Pending, Suspended, WakeListIntact, Inside
<1>7. QED
  BY <1>1, <1>2, <1>3, <1>4, <1>5, <1>6

(* lock()'s call of parkCurrentFiber() preserves IInv. *)
LEMMA LockParkInductive ==
    ASSUME IInv, NEW f \in Fibers, LockPark(f)
    PROVE  IInv'
<1> USE SchedAssumption DEF IInv, TypeOK, SchedTypeOK, Pcs, FiberStates, Executing, LockPark, Goto, ParkCurrent, SwitchOut, schedVars, mutexVars
<1>1. TypeOK'
  OBVIOUS
<1>2. SchedInv'
  BY DEF SchedInv
<1>3. PcInv'
  BY DEF SchedInv, PcInv
<1>4. QueueInv'
  BY DEF SchedInv, PcInv, QueueInv, OwnerInv, PendingInv, InQueue, Pending, Suspended, Inside
<1>5. OwnerInv'
  BY DEF SchedInv, PcInv, QueueInv, OwnerInv, PendingInv, InQueue, Pending, Suspended, Inside
<1>6. PendingInv'
  BY DEF SchedInv, PcInv, QueueInv, OwnerInv, PendingInv, InQueue, Pending, Suspended, WakeListIntact, Inside
<1>7. QED
  BY <1>1, <1>2, <1>3, <1>4, <1>5, <1>6

(* The return of parkCurrentFiber() into lock() preserves IInv. *)
LEMMA LockReturnInductive ==
    ASSUME IInv, NEW f \in Fibers, LockReturn(f)
    PROVE  IInv'
<1> USE SchedAssumption DEF IInv, TypeOK, SchedTypeOK, Pcs, FiberStates, Executing, LockReturn, Goto, ThrowsShutdown, schedVars, mutexVars
<1>1. TypeOK'
  OBVIOUS
<1>2. SchedInv'
  BY DEF SchedInv
<1>3. PcInv'
  BY DEF SchedInv, PcInv
<1>4. QueueInv'
  BY DEF SchedInv, PcInv, QueueInv, OwnerInv, PendingInv, InQueue, Pending, Suspended, Inside
<1>5. OwnerInv'
  BY DEF SchedInv, PcInv, QueueInv, OwnerInv, PendingInv, InQueue, Pending, Suspended, Inside
<1>6. PendingInv'
  BY DEF SchedInv, PcInv, QueueInv, OwnerInv, PendingInv, InQueue, Pending, Suspended, WakeListIntact, Inside
<1>7. QED
  BY <1>1, <1>2, <1>3, <1>4, <1>5, <1>6

(* A successful try_lock() preserves IInv. *)
LEMMA TryLockInductive ==
    ASSUME IInv, NEW f \in Fibers, TryLock(f)
    PROVE  IInv'
<1> USE SchedAssumption DEF IInv, TypeOK, SchedTypeOK, Pcs, FiberStates, Executing, TryLock, Goto, schedVars, mutexVars
<1>1. TypeOK'
  OBVIOUS
<1>2. SchedInv'
  BY DEF SchedInv
<1>3. PcInv'
  BY DEF SchedInv, PcInv
<1>4. QueueInv'
  BY DEF SchedInv, PcInv, QueueInv, OwnerInv, PendingInv, InQueue, Pending, Suspended, Inside
<1>5. OwnerInv'
  BY DEF SchedInv, PcInv, QueueInv, OwnerInv, PendingInv, InQueue, Pending, Suspended, Inside
<1>6. PendingInv'
  BY DEF SchedInv, PcInv, QueueInv, OwnerInv, PendingInv, InQueue, Pending, Suspended, WakeListIntact, Inside
<1>7. QED
  BY <1>1, <1>2, <1>3, <1>4, <1>5, <1>6

(* unlock()'s critical section preserves IInv. *)
LEMMA UnlockInductive ==
    ASSUME IInv, NEW f \in Fibers, Unlock(f)
    PROVE  IInv'
<1> USE SchedAssumption DEF IInv, TypeOK, SchedTypeOK, Pcs, FiberStates, Executing, Unlock, Goto, Dequeue, StoreOwner, schedVars, mutexVars
<1>1. TypeOK'
  <2>1. CASE waitq # <<>>
    <3>1. Head(waitq) \in Fibers /\ Tail(waitq) \in Seq(Fibers)
      BY <2>1, TailFacts
    <3>2. waitq' = Tail(waitq) /\ owner' = Head(waitq) /\ next' = [next EXCEPT ![f] = Head(waitq)]
      BY <2>1
    <3>3. pc' \in [Fibers -> Pcs]
      OBVIOUS
    <3>4. next' \in [Fibers -> Fibers \cup {NoFiber}]
      BY <3>1, <3>2
    <3>5. QED
      BY <3>1, <3>2, <3>3, <3>4
  <2>2. CASE waitq = <<>>
    BY <2>2
  <2>3. QED
    BY <2>1, <2>2
<1>2. SchedInv'
  BY DEF SchedInv
<1>3. PcInv'
  BY DEF SchedInv, PcInv
<1>4. QueueInv'
  <2>1. CASE waitq # <<>>
    <3>1. waitq' = Tail(waitq) /\ owner' = Head(waitq) /\ next' = [next EXCEPT ![f] = Head(waitq)]
      BY <2>1
    <3>2. \A i, j \in 1..Len(waitq') : waitq'[i] = waitq'[j] => i = j
      BY <2>1, <3>1, TailFacts DEF QueueInv
    <3>3. \A g \in Fibers : InQueue(g)' => InQueue(g) /\ g # Head(waitq)
      BY <2>1, <3>1, TailFacts DEF InQueue, QueueInv
    <3>4. \A g \in Fibers : Pending(g)' => Pending(g) \/ g = Head(waitq)
      BY <3>1 DEF Pending
    <3>5. ~InQueue(f) /\ Head(waitq) \in Fibers
      BY <2>1, TailFacts DEF QueueInv
    <3>6. \A g \in Fibers : InQueue(g)' => g # f
      BY <3>3, <3>5
    <3>7. \A g \in Fibers : g # f => pc'[g] = pc[g]
      OBVIOUS
    <3>8. QED
      BY <2>1, <3>1, <3>2, <3>3, <3>4, <3>5, <3>6, <3>7 DEF QueueInv, Suspended
  <2>2. CASE waitq = <<>>
    BY <2>2 DEF QueueInv, InQueue
  <2>3. QED
    BY <2>1, <2>2
<1>5. OwnerInv'
  BY DEF SchedInv, PcInv, QueueInv, OwnerInv, PendingInv, InQueue, Pending, Suspended, Inside
<1>6. PendingInv'
  BY DEF SchedInv, PcInv, QueueInv, OwnerInv, PendingInv, InQueue, Pending, Suspended, WakeListIntact, Inside
<1>7. QED
  BY <1>1, <1>2, <1>3, <1>4, <1>5, <1>6

(* The wake that ends unlock() preserves IInv. *)
LEMMA UnlockWakeInductive ==
    ASSUME IInv, NEW f \in Fibers, UnlockWake(f)
    PROVE  IInv'
<1> USE SchedAssumption DEF IInv, TypeOK, SchedTypeOK, Pcs, FiberStates, Executing, UnlockWake, Goto, Wake, schedVars, mutexVars
<1>1. TypeOK'
  <2>1. next[f] \in Fibers
    BY DEF PcInv
  <2>2. wakeList' \in [Scheds -> SUBSET Fibers]
    BY <2>1
  <2>3. QED
    BY <2>2
<1>2. SchedInv'
  BY DEF SchedInv
<1>3. PcInv'
  BY DEF SchedInv, PcInv
<1>4. QueueInv'
  BY DEF SchedInv, PcInv, QueueInv, OwnerInv, PendingInv, InQueue, Pending, Suspended, Inside
<1>5. OwnerInv'
  <2>1. ASSUME NEW g \in Fibers, Pending(g)
        PROVE  Pending(g)'
    <3>1. next[f] \in Fibers
      BY DEF PcInv
    <3>2. CASE g = next[f]
      BY <3>1, <3>2 DEF Pending
    <3>3. CASE g # next[f] /\ g \in wakeList[Home[g]]
      BY <3>1, <3>3 DEF Pending
    <3>4. CASE g # next[f] /\ \E h \in Fibers : next[h] = g
      BY <3>4 DEF Pending
    <3>5. QED
      BY <2>1, <3>2, <3>3, <3>4 DEF Pending
  <2>2. QED
    BY <2>1 DEF OwnerInv, Suspended, Inside
<1>6. PendingInv'
  BY DEF SchedInv, PcInv, QueueInv, OwnerInv, PendingInv, InQueue, Pending, Suspended, WakeListIntact, Inside
<1>7. QED
  BY <1>1, <1>2, <1>3, <1>4, <1>5, <1>6

(* A client's yield preserves IInv. *)
LEMMA YieldInductive ==
    ASSUME IInv, NEW f \in Fibers, Yield(f)
    PROVE  IInv'
<1>2. SchedTypeOK' /\ SchedInv'
  BY SwitchOutPreserves DEF Yield, YieldCurrent, IInv, TypeOK
<1> USE SchedAssumption DEF IInv, TypeOK, SchedTypeOK, Pcs, FiberStates, Executing, Yield, Goto, YieldCurrent, SwitchOut, schedVars, mutexVars
<1>1. TypeOK'
  OBVIOUS
<1>3. PcInv'
  BY DEF SchedInv, PcInv
<1>4. QueueInv'
  BY DEF SchedInv, PcInv, QueueInv, OwnerInv, PendingInv, InQueue, Pending, Suspended, Inside
<1>5. OwnerInv'
  BY DEF SchedInv, PcInv, QueueInv, OwnerInv, PendingInv, InQueue, Pending, Suspended, Inside
<1>6. PendingInv'
  BY DEF SchedInv, PcInv, QueueInv, OwnerInv, PendingInv, InQueue, Pending, Suspended, WakeListIntact, Inside
<1>7. QED
  BY <1>1, <1>2, <1>3, <1>4, <1>5, <1>6

(* The return from a yield preserves IInv. *)
LEMMA YieldReturnInductive ==
    ASSUME IInv, NEW f \in Fibers, YieldReturn(f)
    PROVE  IInv'
<1> USE SchedAssumption DEF IInv, TypeOK, SchedTypeOK, Pcs, FiberStates, Executing, YieldReturn, Goto, ThrowsShutdown, schedVars, mutexVars
<1>1. TypeOK'
  OBVIOUS
<1>2. SchedInv'
  BY DEF SchedInv
<1>3. PcInv'
  BY DEF SchedInv, PcInv
<1>4. QueueInv'
  BY DEF SchedInv, PcInv, QueueInv, OwnerInv, PendingInv, InQueue, Pending, Suspended, Inside
<1>5. OwnerInv'
  BY DEF SchedInv, PcInv, QueueInv, OwnerInv, PendingInv, InQueue, Pending, Suspended, Inside
<1>6. PendingInv'
  BY DEF SchedInv, PcInv, QueueInv, OwnerInv, PendingInv, InQueue, Pending, Suspended, WakeListIntact, Inside
<1>7. QED
  BY <1>1, <1>2, <1>3, <1>4, <1>5, <1>6

(* The end of a fiber's entry preserves IInv. *)
LEMMA ExitInductive ==
    ASSUME IInv, NEW f \in Fibers, Exit(f)
    PROVE  IInv'
<1> USE SchedAssumption DEF IInv, TypeOK, SchedTypeOK, Pcs, FiberStates, Executing, Exit, Goto, FinishCurrent, SwitchOut, schedVars, mutexVars
<1>1. TypeOK'
  OBVIOUS
<1>2. SchedInv'
  BY DEF SchedInv
<1>3. PcInv'
  BY DEF SchedInv, PcInv
<1>4. QueueInv'
  BY DEF SchedInv, PcInv, QueueInv, OwnerInv, PendingInv, InQueue, Pending, Suspended, Inside
<1>5. OwnerInv'
  BY DEF SchedInv, PcInv, QueueInv, OwnerInv, PendingInv, InQueue, Pending, Suspended, Inside
<1>6. PendingInv'
  BY DEF SchedInv, PcInv, QueueInv, OwnerInv, PendingInv, InQueue, Pending, Suspended, WakeListIntact, Inside
<1>7. QED
  BY <1>1, <1>2, <1>3, <1>4, <1>5, <1>6

(* drainWakeList() preserves IInv. *)
LEMMA drainWakeListInductive ==
    ASSUME IInv, NEW s \in Scheds, drainWakeList(s), UNCHANGED mutexVars
    PROVE  IInv'
<1> USE SchedAssumption DEF IInv, TypeOK, SchedTypeOK, Pcs, FiberStates, Executing, drainWakeList, MakeReady, schedVars, mutexVars
<1>1. TypeOK'
  OBVIOUS
<1>2. SchedInv'
  BY DEF SchedInv
<1>3. PcInv'
  BY DEF SchedInv, PcInv
<1>4. QueueInv'
  BY DEF SchedInv, PcInv, QueueInv, OwnerInv, PendingInv, InQueue, Pending, Suspended, Inside
<1>5. OwnerInv'
  BY DEF SchedInv, PcInv, QueueInv, OwnerInv, PendingInv, InQueue, Pending, Suspended, Inside
<1>6. PendingInv'
  BY DEF SchedInv, PcInv, QueueInv, OwnerInv, PendingInv, InQueue, Pending, Suspended, WakeListIntact, Inside
<1>7. QED
  BY <1>1, <1>2, <1>3, <1>4, <1>5, <1>6

(* interrupt() preserves IInv. *)
LEMMA InterruptInductive ==
    ASSUME IInv, NEW s \in Scheds, Interrupt(s), UNCHANGED mutexVars
    PROVE  IInv'
<1> USE SchedAssumption DEF IInv, TypeOK, SchedTypeOK, Pcs, FiberStates, Executing, Interrupt, schedVars, mutexVars
<1>1. TypeOK'
  OBVIOUS
<1>2. SchedInv'
  BY DEF SchedInv
<1>3. PcInv'
  BY DEF SchedInv, PcInv
<1>4. QueueInv'
  BY DEF SchedInv, PcInv, QueueInv, OwnerInv, PendingInv, InQueue, Pending, Suspended, Inside
<1>5. OwnerInv'
  BY DEF SchedInv, PcInv, QueueInv, OwnerInv, PendingInv, InQueue, Pending, Suspended, Inside
<1>6. PendingInv'
  BY DEF SchedInv, PcInv, QueueInv, OwnerInv, PendingInv, InQueue, Pending, Suspended, WakeListIntact, Inside
<1>7. QED
  BY <1>1, <1>2, <1>3, <1>4, <1>5, <1>6

(* The shutdown scan of an idle scheduler preserves IInv. *)
LEMMA ShutdownScanInductive ==
    ASSUME IInv, NEW s \in Scheds, ShutdownScan(s), UNCHANGED mutexVars
    PROVE  IInv'
<1> USE SchedAssumption DEF IInv, TypeOK, SchedTypeOK, Pcs, FiberStates, Executing, ShutdownScan, MakeReady, ReadyOf, SuspendedOf, SuspendedStates, FibersOf, schedVars, mutexVars
<1>1. TypeOK'
  OBVIOUS
<1>2. SchedInv'
  BY DEF SchedInv
<1>3. PcInv'
  BY DEF SchedInv, PcInv
<1>4. QueueInv'
  BY DEF SchedInv, PcInv, QueueInv, OwnerInv, PendingInv, InQueue, Pending, Suspended, Inside
<1>5. OwnerInv'
  BY DEF SchedInv, PcInv, QueueInv, OwnerInv, PendingInv, InQueue, Pending, Suspended, Inside
<1>6. PendingInv'
  BY DEF SchedInv, PcInv, QueueInv, OwnerInv, PendingInv, InQueue, Pending, Suspended, WakeListIntact, Inside
<1>7. QED
  BY <1>1, <1>2, <1>3, <1>4, <1>5, <1>6

(* The resumption of a Ready fiber preserves IInv. *)
LEMMA ResumeInductive ==
    ASSUME IInv, NEW f \in Fibers, Resume(f), UNCHANGED mutexVars
    PROVE  IInv'
<1> USE SchedAssumption DEF IInv, TypeOK, SchedTypeOK, Pcs, FiberStates, Executing, Resume, schedVars, mutexVars
<1>1. TypeOK'
  OBVIOUS
<1>2. SchedInv'
  BY ResumePreserves
<1>3. PcInv'
  BY DEF SchedInv, PcInv
<1>4. QueueInv'
  BY DEF SchedInv, PcInv, QueueInv, OwnerInv, PendingInv, InQueue, Pending, Suspended, Inside
<1>5. OwnerInv'
  BY DEF SchedInv, PcInv, QueueInv, OwnerInv, PendingInv, InQueue, Pending, Suspended, Inside
<1>6. PendingInv'
  BY DEF SchedInv, PcInv, QueueInv, OwnerInv, PendingInv, InQueue, Pending, Suspended, WakeListIntact, Inside
<1>7. QED
  BY <1>1, <1>2, <1>3, <1>4, <1>5, <1>6

(* IInv is inductive. *)
LEMMA Inductive == IInv /\ [Next]_vars => IInv'
<1> SUFFICES ASSUME IInv, [Next]_vars
             PROVE  IInv'
  OBVIOUS
<1>1. ASSUME NEW f \in Fibers, FiberStep(f)
      PROVE  IInv'
  BY <1>1, LockFastInductive, LockSlowInductive, LockParkInductive, LockReturnInductive,
     TryLockInductive, UnlockInductive, UnlockWakeInductive, YieldInductive,
     YieldReturnInductive, ExitInductive DEF FiberStep
<1>2. CASE SchedStep /\ UNCHANGED mutexVars
  BY <1>2, drainWakeListInductive, InterruptInductive, ShutdownScanInductive,
     ResumeInductive DEF SchedStep
<1>3. CASE UNCHANGED vars
  BY <1>3 DEF vars, schedVars, mutexVars, IInv, TypeOK, SchedTypeOK, SchedInv, PcInv, QueueInv,
     OwnerInv, PendingInv, WakeListIntact, Executing, InQueue, Pending, Suspended, Inside
<1>4. QED
  BY <1>1, <1>2, <1>3 DEF Next

(* Fibers that were just spawned, and a mutex nobody has touched. *)
LEMMA InitIInv == Init => IInv
  BY SchedAssumption DEF Init, SchedInit, IInv, TypeOK, SchedTypeOK, FiberStates, Pcs, SchedInv,
     PcInv, QueueInv, OwnerInv, PendingInv, WakeListIntact, Executing, InQueue, Pending,
     Suspended, Inside

(* IInv holds in every reachable state. *)
LEMMA InvariantHolds == Spec => []IInv
  BY InitIInv, Inductive, PTL DEF Spec

(* The fields of fiber_mutex and of the schedulers keep their types. *)
THEOREM TypeCorrect == Spec => []TypeOK
<1>1. IInv => TypeOK
  BY DEF IInv
<1>2. QED
  BY <1>1, InvariantHolds, PTL

(* At most one fiber is ever between lock() and unlock(), with any number  *)
(* of fibers and threads, through every path into fiber_mutex and also     *)
(* while schedulers shut down.                                             *)
THEOREM MutexExcludes == Spec => []MutualExclusion
<1>1. IInv => MutualExclusion
  BY DEF IInv, OwnerInv, MutualExclusion, Inside
<1>2. QED
  BY <1>1, InvariantHolds, PTL

(* unlock()'s hand-off always reaches a parked new owner: its wake is      *)
(* pushed, or about to be pushed by the fiber that unlocked, once.         *)
THEOREM HandoffNeverLost == Spec => []HandoffReachesOwner
<1>1. IInv => HandoffReachesOwner
  BY DEF IInv, OwnerInv, PendingInv, HandoffReachesOwner, Pending, Suspended
<1>2. QED
  BY <1>1, InvariantHolds, PTL

(* unlock() never pushes a fiber onto a wake list that already links it.   *)
THEOREM WakeListsStayIntact == Spec => []WakeListIntact
<1>1. IInv => WakeListIntact
  BY DEF IInv, PendingInv
<1>2. QED
  BY <1>1, InvariantHolds, PTL

(* drainWakeList()'s test that a fiber is still Parked never discards a    *)
(* wake of unlock(), unless that scheduler is shutting down.               *)
THEOREM WakesAreNotDropped == Spec => []WakeNotDropped
<1>1. IInv => WakeNotDropped
  BY DEF IInv, TypeOK, SchedTypeOK, SchedInv, PcInv, PendingInv, WakeNotDropped, Pending,
     Suspended, Executing
<1>2. QED
  BY <1>1, InvariantHolds, PTL

-----------------------------------------------------------------------------
(* The refinement.  Each lemma is about the steps that map to one action   *)
(* of FifoLock, or to a stutter.                                           *)

(* The line of waiters, without the places. *)
LEMMA WaitingFacts ==
    ASSUME IInv, NEW f \in Fibers
    PROVE  f \in Waiting <=> pc[f] \in {"queued", "parked"} /\ (owner = f \/ InQueue(f))
  BY DEF IInv, TypeOK, Waiting, WaitsAt, Places, InQueue

(* A step that leaves the mutex alone and moves no fiber into, out of or   *)
(* along the line of waiters is invisible to the callers.                  *)
LEMMA Stutters ==
    ASSUME UNCHANGED <<owner, waitq>>,
           \A f \in Fibers :
              /\ f \in Inside <=> f \in Inside'
              /\ pc[f] \in {"queued", "parked"} <=> pc'[f] \in {"queued", "parked"}
    PROVE  UNCHANGED Abstract!lockVars
<1>1. Inside' = Inside
  BY DEF Inside
<1>2. Waiting' = Waiting
  BY DEF Waiting, WaitsAt, Places
<1>3. Ahead' = Ahead
  <2>1. ASSUME NEW e \in Fibers \X Fibers, NEW i \in Places
        PROVE  /\ WaitsAt(e[1], i)' <=> WaitsAt(e[1], i)
               /\ WaitsAt(e[2], i)' <=> WaitsAt(e[2], i)
    BY DEF WaitsAt
  <2>2. Places' = Places
    BY DEF Places
  <2>3. QED
    BY <2>1, <2>2 DEF Ahead
<1>4. QED
  BY <1>1, <1>2, <1>3 DEF Abstract!lockVars

(* The fast path, the slow path and try_lock let a fiber in only when      *)
(* nobody is inside and nobody waits.                                      *)
LEMMA EntersFree ==
    ASSUME IInv, NEW f \in Fibers, owner = NoFiber, owner' = f, waitq' = waitq,
           pc[f] \in {"idle", "slow"}, pc' = [pc EXCEPT ![f] = "cs"]
    PROVE  Abstract!EnterFree(f)
<1> USE DEF IInv, TypeOK
<1>1. waitq = <<>>
  BY DEF QueueInv
<1>2. Inside = {} /\ Inside' = {f}
  BY SchedAssumption DEF OwnerInv, Inside, Pcs
<1>3. Places = {0} /\ Places' = {0}
  BY <1>1 DEF Places
<1>4. Waiting = {} /\ Waiting' = {}
  BY <1>3, SchedAssumption DEF Waiting, WaitsAt, SchedTypeOK
<1>5. Ahead = {} /\ Ahead' = {}
  BY <1>3 DEF Ahead
<1>6. QED
  BY <1>2, <1>4, <1>5 DEF Abstract!EnterFree

(* The append of lock()'s slow path puts the fiber behind all the others. *)
LEMMA Arrives ==
    ASSUME IInv, NEW f \in Fibers, owner # NoFiber, owner' = owner, Enqueue(f),
           pc[f] = "slow", pc' = [pc EXCEPT ![f] = "queued"]
    PROVE  Abstract!Arrive(f)
<1> USE DEF IInv, TypeOK
<1>0. PICK n \in Nat : n = Len(waitq) + 1
  OBVIOUS
<1>1. /\ Len(waitq') = n
      /\ \A i \in 1..Len(waitq) : waitq'[i] = waitq[i]
      /\ waitq'[n] = f
      /\ waitq' \in Seq(Fibers)
  BY <1>0, AppendFacts DEF Enqueue
<1>2. Places' = Places \cup {n} /\ n \notin Places /\ Places \subseteq Nat
  BY <1>0, <1>1 DEF Places
<1>3. owner # f /\ ~InQueue(f)
  BY DEF OwnerInv, QueueInv
<1>4. ASSUME NEW g \in Fibers, NEW i \in Places
      PROVE  WaitsAt(g, i)' <=> WaitsAt(g, i)
  <2>1. IF i = 0 THEN owner # f ELSE waitq[i] # f
    BY <1>3 DEF InQueue, Places
  <2>2. IF i = 0 THEN owner' = owner ELSE waitq'[i] = waitq[i]
    BY <1>1 DEF Places
  <2>3. QED
    BY <2>1, <2>2 DEF WaitsAt
<1>5. ASSUME NEW g \in Fibers
      PROVE  WaitsAt(g, n)' <=> g = f
  BY <1>0, <1>1 DEF WaitsAt
<1>6. f \notin Waiting
  BY WaitingFacts
<1>7. Waiting' = Waiting \cup {f}
  BY <1>2, <1>4, <1>5 DEF Waiting
<1>8. Ahead' = Ahead \cup (Waiting \X {f})
  <2>1. ASSUME NEW e \in Fibers \X Fibers
        PROVE  e \in Ahead' <=> e \in Ahead \cup (Waiting \X {f})
    <3>1. e[1] \in Fibers /\ e[2] \in Fibers /\ e = <<e[1], e[2]>>
      OBVIOUS
    <3>2. e \in Ahead' <=> \E i, j \in Places' : i < j /\ WaitsAt(e[1], i)' /\ WaitsAt(e[2], j)'
      BY DEF Ahead
    <3>3. ASSUME NEW i \in Places, NEW j \in Places'
          PROVE  i < j <=> (j \in Places /\ i < j) \/ j = n
      BY <1>0, <1>1, <1>2 DEF Places
    <3>4. ASSUME NEW j \in Places'
          PROVE  ~(n < j)
      BY <1>0, <1>1, <1>2 DEF Places
    <3>5. e \in Ahead' <=> \/ \E i, j \in Places : i < j /\ WaitsAt(e[1], i) /\ WaitsAt(e[2], j)
                           \/ \E i \in Places : WaitsAt(e[1], i) /\ e[2] = f
      BY <1>2, <1>4, <1>5, <3>1, <3>2, <3>3, <3>4
    <3>6. QED
      BY <3>1, <3>5 DEF Ahead, Waiting
  <2>2. Ahead \cup (Waiting \X {f}) \subseteq Fibers \X Fibers /\ Ahead' \subseteq Fibers \X Fibers
    BY DEF Ahead, Waiting
  <2>3. QED
    BY <2>1, <2>2
<1>9. Inside' = Inside
  BY DEF Inside
<1>10. QED
  BY <1>6, <1>7, <1>8, <1>9 DEF Abstract!Arrive

(* A fiber that leaves the line of waiters takes only its own place away. *)
LEMMA Withdraws ==
    ASSUME IInv, NEW f \in Fibers, UNCHANGED <<owner, waitq>>, pc[f] = "parked",
           NEW l \in {"cs", "exit"}, pc' = [pc EXCEPT ![f] = l]
    PROVE  Abstract!Withdraw(f)
<1> USE DEF IInv, TypeOK
<1>1. Places' = Places
  BY DEF Places
<1>2. ASSUME NEW g \in Fibers, NEW i \in Places
      PROVE  WaitsAt(g, i)' <=> g # f /\ WaitsAt(g, i)
  BY DEF WaitsAt
<1>3. Waiting' = Waiting \ {f}
  BY <1>1, <1>2 DEF Waiting
<1>4. Ahead' = {e \in Ahead : f \notin {e[1], e[2]}}
  <2>1. ASSUME NEW e \in Fibers \X Fibers
        PROVE  e \in Ahead' <=> e \in Ahead /\ f # e[1] /\ f # e[2]
    BY <1>1, <1>2 DEF Ahead
  <2>2. Ahead' \subseteq Fibers \X Fibers /\ Ahead \subseteq Fibers \X Fibers
    BY DEF Ahead
  <2>3. QED
    BY <2>1, <2>2
<1>5. QED
  BY <1>3, <1>4 DEF Abstract!Withdraw

(* lock() returns to the fiber at the head of the line, or throws at one   *)
(* whose scheduler shuts down.                                             *)
LEMMA Returns ==
    ASSUME IInv, NEW f \in Fibers, LockReturn(f)
    PROVE  Abstract!EnterNext(f) \/ Abstract!Abandon(f)
<1> USE DEF IInv, TypeOK
<1>1. CASE interrupted[Home[f]]
  <2>1. Abstract!Withdraw(f)
    BY <1>1, Withdraws DEF LockReturn, Goto, ThrowsShutdown
  <2>2. Inside' = Inside
    BY <1>1 DEF LockReturn, Goto, ThrowsShutdown, Inside
  <2>3. QED
    BY <1>1, <2>1, <2>2 DEF Abstract!Abandon, Closing
<1>2. CASE ~interrupted[Home[f]]
  <2>1. pc[f] = "parked" /\ pc' = [pc EXCEPT ![f] = "cs"] /\ UNCHANGED <<owner, waitq>>
    BY <1>2 DEF LockReturn, Goto, ThrowsShutdown
  <2>2. owner = f
    BY <1>2, <2>1 DEF LockReturn, SchedInv, OwnerInv
  <2>3. ~InQueue(f)
    BY <2>2 DEF QueueInv
  <2>4. f \in Waiting
    BY <2>1, <2>2, WaitingFacts
  <2>5. \A g \in Waiting : <<g, f>> \notin Ahead
    BY <2>3 DEF Ahead, WaitsAt, Places, InQueue
  <2>6. Inside = {} /\ Inside' = {f}
    BY <2>1, <2>2 DEF OwnerInv, Inside
  <2>7. Abstract!Withdraw(f)
    BY <2>1, Withdraws
  <2>8. QED
    BY <2>4, <2>5, <2>6, <2>7 DEF Abstract!EnterNext
<1>3. QED
  BY <1>1, <1>2

(* unlock() moves the whole line up by one place and lets nobody in. *)
LEMMA Leaves ==
    ASSUME IInv, NEW f \in Fibers, Unlock(f)
    PROVE  Abstract!Leave(f)
<1> USE DEF IInv, TypeOK
<1>1. f \in Inside /\ owner = f
  BY DEF Unlock, Goto, Inside, OwnerInv
<1>2. PICK l \in {"wake", "wakeUnwind", "idle", "exit"} : pc' = [pc EXCEPT ![f] = l]
  BY DEF Unlock, Goto
<1>3. Inside = {f}
  BY <1>1 DEF OwnerInv, Inside
<1>4. Inside' = {}
  BY <1>2, <1>3 DEF Inside
<1>5. \A g \in Fibers : ~WaitsAt(g, 0)
  BY <1>1 DEF WaitsAt, Inside
<1>6. CASE waitq = <<>>
  <2>1. owner' = NoFiber /\ waitq' = <<>>
    BY <1>6 DEF Unlock, Dequeue, StoreOwner
  <2>2. Places = {0} /\ Places' = {0}
    BY <1>6, <2>1 DEF Places
  <2>3. \A g \in Fibers : ~WaitsAt(g, 0)'
    BY <2>1, SchedAssumption DEF WaitsAt
  <2>4. Waiting = {} /\ Waiting' = {}
    BY <1>5, <2>2, <2>3 DEF Waiting
  <2>5. Ahead = {} /\ Ahead' = {}
    BY <2>2 DEF Ahead
  <2>6. QED
    BY <1>3, <1>4, <2>4, <2>5 DEF Abstract!Leave
<1>7. CASE waitq # <<>>
  <2>1. waitq' = Tail(waitq) /\ owner' = waitq[1]
    BY <1>7, TailFacts DEF Unlock, Dequeue, StoreOwner
  <2>2. PICK n \in Nat : n = Len(waitq') /\ Len(waitq) = n + 1
    BY <1>7, <2>1, TailFacts
  <2>3. Places = 0..(n + 1) /\ Places' = 0..n
    BY <2>2 DEF Places
  <2>4. ASSUME NEW g \in Fibers, NEW i \in 0..n
        PROVE  WaitsAt(g, i)' <=> WaitsAt(g, i + 1)
    <3>1. IF i = 0 THEN owner' = waitq[i + 1] ELSE waitq'[i] = waitq[i + 1]
      BY <1>7, <2>1, <2>2, TailFacts
    <3>2. waitq[i + 1] # f
      BY <1>1, <2>2 DEF QueueInv, InQueue
    <3>3. CASE g = f
      BY <3>1, <3>2, <3>3 DEF WaitsAt
    <3>4. CASE g # f
      BY <1>2, <3>1, <3>4 DEF WaitsAt
    <3>5. QED
      BY <3>3, <3>4
  <2>5. Waiting' = Waiting
    <3>1. ASSUME NEW g \in Fibers
          PROVE  (\E i \in 0..n : WaitsAt(g, i)') <=> \E i \in 0..(n + 1) : WaitsAt(g, i)
      <4>1. ASSUME NEW i \in 0..n, WaitsAt(g, i)'
            PROVE  \E j \in 0..(n + 1) : WaitsAt(g, j)
        BY <4>1, <2>4
      <4>2. ASSUME NEW i \in 0..(n + 1), WaitsAt(g, i)
            PROVE  \E j \in 0..n : WaitsAt(g, j)'
        <5>1. i - 1 \in 0..n /\ (i - 1) + 1 = i
          BY <1>5, <4>2
        <5>2. QED
          BY <4>2, <5>1, <2>4
      <4>3. QED
        BY <4>1, <4>2
    <3>2. QED
      BY <2>3, <3>1 DEF Waiting
  <2>6. Ahead' = Ahead
    <3>1. ASSUME NEW e \in Fibers \X Fibers
          PROVE  (\E i, j \in 0..n : i < j /\ WaitsAt(e[1], i)' /\ WaitsAt(e[2], j)') <=>
                 \E i, j \in 0..(n + 1) : i < j /\ WaitsAt(e[1], i) /\ WaitsAt(e[2], j)
      <4>1. ASSUME NEW i \in 0..n, NEW j \in 0..n, i < j, WaitsAt(e[1], i)', WaitsAt(e[2], j)'
            PROVE  \E a, b \in 0..(n + 1) : a < b /\ WaitsAt(e[1], a) /\ WaitsAt(e[2], b)
        <5>1. i + 1 \in 0..(n + 1) /\ j + 1 \in 0..(n + 1) /\ i + 1 < j + 1
          BY <4>1
        <5>2. WaitsAt(e[1], i + 1) /\ WaitsAt(e[2], j + 1)
          BY <4>1, <2>4
        <5>3. QED
          BY <5>1, <5>2
      <4>2. ASSUME NEW i \in 0..(n + 1), NEW j \in 0..(n + 1), i < j,
                   WaitsAt(e[1], i), WaitsAt(e[2], j)
            PROVE  \E a, b \in 0..n : a < b /\ WaitsAt(e[1], a)' /\ WaitsAt(e[2], b)'
        <5>1. i # 0
          BY <1>5, <4>2
        <5>2. /\ i - 1 \in 0..n /\ j - 1 \in 0..n /\ i - 1 < j - 1
              /\ (i - 1) + 1 = i /\ (j - 1) + 1 = j
          BY <4>2, <5>1
        <5>3. WaitsAt(e[1], i - 1)' /\ WaitsAt(e[2], j - 1)'
          BY <4>2, <5>2, <2>4
        <5>4. QED
          BY <5>2, <5>3
      <4>3. QED
        BY <4>1, <4>2
    <3>2. QED
      BY <2>3, <3>1 DEF Ahead
  <2>7. QED
    BY <1>3, <1>4, <2>5, <2>6 DEF Abstract!Leave
<1>8. QED
  BY <1>6, <1>7

(* Every step of the mutex is a step of the abstract lock or invisible. *)
LEMMA StepRefines == IInv /\ [Next]_vars => [Abstract!Next]_Abstract!lockVars
<1> SUFFICES ASSUME IInv, [Next]_vars
             PROVE  Abstract!Next \/ UNCHANGED Abstract!lockVars
  OBVIOUS
<1> USE DEF IInv, TypeOK
<1>1. ASSUME NEW f \in Fibers, LockFast(f) \/ LockSlow(f) \/ TryLock(f)
      PROVE  Abstract!EnterFree(f) \/ Abstract!Arrive(f) \/ UNCHANGED Abstract!lockVars
  <2>1. CASE LockFast(f) /\ owner # NoFiber
    <3>1. pc[f] = "idle" /\ pc' = [pc EXCEPT ![f] = "slow"] /\ UNCHANGED <<owner, waitq>>
      BY <2>1 DEF LockFast, Goto
    <3>2. QED
      BY <3>1, Stutters DEF Inside
  <2>2. CASE LockSlow(f) /\ owner # NoFiber
    BY <2>2, Arrives DEF LockSlow, Goto
  <2>3. CASE owner = NoFiber
    BY <1>1, <2>3, EntersFree DEF LockFast, LockSlow, TryLock, Goto
  <2>4. QED
    BY <1>1, <2>1, <2>2, <2>3 DEF TryLock
<1>2. ASSUME NEW f \in Fibers,
             LockPark(f) \/ UnlockWake(f) \/ Yield(f) \/ YieldReturn(f) \/ Exit(f)
      PROVE  UNCHANGED Abstract!lockVars
  <2>1. UNCHANGED <<owner, waitq>>
    BY <1>2 DEF LockPark, UnlockWake, Yield, YieldReturn, Exit
  <2>2. PICK l : pc' = [pc EXCEPT ![f] = l] /\
          \/ pc[f] \in {"queued", "parked"} /\ l \in {"queued", "parked"}
          \/ pc[f] \in {"cs", "csYield"} /\ l \in {"cs", "csYield", "unwind"}
          \/ /\ pc[f] \in {"idle", "idleYield", "wake", "wakeUnwind", "exit"}
             /\ l \in {"idle", "idleYield", "exit", "done"}
    BY <1>2 DEF LockPark, UnlockWake, Yield, YieldReturn, Exit, Goto
  <2>3. QED
    BY <2>1, <2>2, Stutters DEF Inside
<1>3. CASE UNCHANGED <<owner, waitq, pc>>
  BY <1>3, Stutters DEF Inside
<1>4. QED
  BY <1>1, <1>2, <1>3, Returns, Leaves DEF Next, FiberStep, vars, mutexVars, Abstract!Next

(* A mutex that nobody has touched is an abstract lock that nobody has. *)
LEMMA InitRefines == Init => Abstract!Init
<1> SUFFICES ASSUME Init
             PROVE  Abstract!Init
  OBVIOUS
<1>1. Places = {0} /\ \A f \in Fibers : ~WaitsAt(f, 0)
  BY SchedAssumption DEF Init, Places, WaitsAt
<1>2. Inside = {} /\ Waiting = {} /\ Ahead = {}
  BY <1>1 DEF Init, Inside, Waiting, Ahead
<1>3. QED
  BY <1>2 DEF Abstract!Init

(* fiber_mutex implements a first-come first-served lock: with any number  *)
(* of fibers and threads nobody overtakes a fiber that is in the wait      *)
(* queue, and only a shutdown takes one out of it.                         *)
THEOREM FirstComeFirstServed == Spec => ImplementsFifoLock
  BY InvariantHolds, StepRefines, InitRefines, PTL DEF Spec, ImplementsFifoLock, Abstract!Spec
=============================================================================
