-------------------------- MODULE FiberPromiseProofs -------------------------
(***************************************************************************)
(* Proofs about fiber_promise and its use by call(), invoke() and async(), *)
(* for any number of callers, threads and tasks, with any of the promises  *)
(* shared or in the caller's frame and any thread shutting down.           *)
(***************************************************************************)
EXTENDS FiberPromise, FiberSchedProofs

(* What a consumer's place in the code says of its scheduling state, and   *)
(* that it keeps the promise until it leaves its frame.                    *)
PcInv ==
    \A f \in Fibers :
        /\ pc[f] \in {"check", "register", "park", "get", "exit"} => fstate[f] = "Running"
        /\ pc[f] = "start" => fstate[f] \in {"Ready", "Running"}
        /\ pc[f] = "done" => fstate[f] = "Recyclable"
        /\ pc[f] \in {"check", "register", "park", "parked", "get"} => PromiseOf[f] \in live

(* The slot holds the consumer from its registration on, or says that the  *)
(* producer came first; either of the two compare-and-swaps succeeds once. *)
ConsumerSlot(f) ==
    /\ waiter[PromiseOf[f]] \in {NoFiber, Fulfilled, f}
    /\ pc[f] \in {"park", "parked"} => waiter[PromiseOf[f]] = f
    /\ pc[f] \in {"start", "check", "register"} => waiter[PromiseOf[f]] # f
    /\ pc[f] = "start" <=> task[PromiseOf[f]] = "none"

ProducerSlot(p) ==
    /\ waiter[p] = Fulfilled => task[p] = "done"
    /\ task[p] = "wake" => waiter[p] \in Fibers /\ PromiseOf[waiter[p]] = p
    /\ outcome[p] = "unset" <=> task[p] \in {"none", "posted"}
    /\ task[p] # "none" => \E f \in Fibers : PromiseOf[f] = p

SlotInv ==
    /\ \A f \in Fibers : ConsumerSlot(f)
    /\ \A p \in Promises : ProducerSlot(p)

(* Only the end of the task lets a consumer go on, unless its scheduler    *)
(* shuts down.                                                             *)
DoneInv ==
    \A f \in Fibers :
        /\ f \in wakeList[Home[f]] => task[PromiseOf[f]] = "done"
        /\ pc[f] = "parked" /\ fstate[f] # "Parked" /\ ~interrupted[Home[f]] =>
              task[PromiseOf[f]] = "done"
        /\ pc[f] = "get" => task[PromiseOf[f]] = "done"
        /\ pc[f] \in {"exit", "done"} /\ ~interrupted[Home[f]] => task[PromiseOf[f]] = "done"

IInv == TypeOK /\ SchedInv /\ PcInv /\ SlotInv /\ DoneInv

-----------------------------------------------------------------------------
(* Posting a task preserves IInv. *)
LEMMA PostInductive ==
    ASSUME IInv, NEW f \in Fibers, Post(f)
    PROVE  IInv'
<1>1. SchedTypeOK' /\ SchedInv'
  BY DEF SchedInv, Post, IInv, TypeOK, SchedTypeOK, schedVars, Executing
<1> USE SchedAssumption, PromiseAssumption DEF IInv, TypeOK, SchedTypeOK, Outcomes, FiberStates,
        Executing, schedVars, promiseVars, Post, At, Goto
<1>2. TypeOK'
  <2>1. pc' = [pc EXCEPT ![f] = "check"] \/ pc' = [pc EXCEPT ![f] = "register"]
    OBVIOUS
  <2>2. pc' \in [Fibers -> {"start", "check", "register", "park", "parked", "get", "exit", "done"}]
    BY <2>1
  <2>3. QED
    BY <1>1, <2>2
<1>3. PcInv'
  BY DEF SchedInv, PcInv, SlotInv, ConsumerSlot
<1>4. SlotInv'
  <2>1. ASSUME NEW g \in Fibers
        PROVE  ConsumerSlot(g)'
    <3>1. CASE g = f
      <4>1. pc'[f] \in {"check", "register"} /\ task'[PromiseOf[f]] = "posted"
        OBVIOUS
      <4>2. waiter'[PromiseOf[f]] \in {NoFiber, Fulfilled} /\ Fulfilled # f /\ NoFiber # f
        BY DEF SlotInv, ConsumerSlot
      <4>3. QED
        BY <3>1, <4>1, <4>2 DEF ConsumerSlot
    <3>2. CASE g # f
      <4>1. PromiseOf[g] # PromiseOf[f]
        BY <3>2
      <4>2. QED
        BY <3>2, <4>1 DEF SlotInv, ConsumerSlot
    <3>3. QED
      BY <3>1, <3>2
  <2>2. ASSUME NEW q \in Promises
        PROVE  ProducerSlot(q)'
    BY DEF SchedInv, PcInv, SlotInv, ConsumerSlot, ProducerSlot
  <2>3. QED
    BY <2>1, <2>2 DEF SlotInv
<1>5. DoneInv'
  BY DEF SchedInv, PcInv, SlotInv, ConsumerSlot, ProducerSlot, DoneInv
<1>6. QED
  BY <1>1, <1>2, <1>3, <1>4, <1>5

(* The first look of fiber_future::get() preserves IInv. *)
LEMMA FutureCheckInductive ==
    ASSUME IInv, NEW f \in Fibers, FutureCheck(f)
    PROVE  IInv'
<1>1. SchedTypeOK' /\ SchedInv'
  BY DEF SchedInv, FutureCheck, IInv, TypeOK, SchedTypeOK, schedVars, Executing
<1> USE SchedAssumption, PromiseAssumption DEF IInv, TypeOK, SchedTypeOK, Outcomes, FiberStates,
        Executing, schedVars, promiseVars, FutureCheck, At, Goto, is_ready
<1>2. TypeOK'
  BY <1>1
<1>3. PcInv'
  BY DEF SchedInv, PcInv, SlotInv, ConsumerSlot
<1>4. SlotInv'
  <2>1. ASSUME NEW g \in Fibers
        PROVE  ConsumerSlot(g)'
    BY DEF SchedInv, PcInv, SlotInv, ConsumerSlot, ProducerSlot
  <2>2. ASSUME NEW q \in Promises
        PROVE  ProducerSlot(q)'
    BY DEF SchedInv, PcInv, SlotInv, ConsumerSlot, ProducerSlot
  <2>3. QED
    BY <2>1, <2>2 DEF SlotInv
<1>5. DoneInv'
  BY DEF SchedInv, PcInv, SlotInv, ConsumerSlot, ProducerSlot, DoneInv
<1>6. QED
  BY <1>1, <1>2, <1>3, <1>4, <1>5

(* The consumer's compare-and-swap preserves IInv. *)
LEMMA try_register_waiterInductive ==
    ASSUME IInv, NEW f \in Fibers, try_register_waiter(f)
    PROVE  IInv'
<1>1. SchedTypeOK' /\ SchedInv'
  BY DEF SchedInv, try_register_waiter, IInv, TypeOK, SchedTypeOK, schedVars, Executing
<1> USE SchedAssumption, PromiseAssumption DEF IInv, TypeOK, SchedTypeOK, Outcomes, FiberStates,
        Executing, schedVars, promiseVars, try_register_waiter, At, Goto
<1>2. TypeOK'
  BY <1>1
<1>3. PcInv'
  BY DEF SchedInv, PcInv, SlotInv, ConsumerSlot
<1>4. SlotInv'
  <2>1. ASSUME NEW g \in Fibers
        PROVE  ConsumerSlot(g)'
    BY DEF SchedInv, PcInv, SlotInv, ConsumerSlot, ProducerSlot
  <2>2. ASSUME NEW q \in Promises
        PROVE  ProducerSlot(q)'
    BY DEF SchedInv, PcInv, SlotInv, ConsumerSlot, ProducerSlot
  <2>3. QED
    BY <2>1, <2>2 DEF SlotInv
<1>5. DoneInv'
  BY DEF SchedInv, PcInv, SlotInv, ConsumerSlot, ProducerSlot, DoneInv
<1>6. QED
  BY <1>1, <1>2, <1>3, <1>4, <1>5

(* The consumer's park preserves IInv. *)
LEMMA ParkInductive ==
    ASSUME IInv, NEW f \in Fibers, Park(f)
    PROVE  IInv'
<1>1. SchedTypeOK' /\ SchedInv'
  BY SwitchOutPreserves DEF ParkCurrent, Park, IInv, TypeOK
<1> USE SchedAssumption, PromiseAssumption DEF IInv, TypeOK, SchedTypeOK, Outcomes, FiberStates,
        Executing, schedVars, promiseVars, Park, Goto, ParkCurrent, SwitchOut
<1>2. TypeOK'
  BY <1>1
<1>3. PcInv'
  BY DEF SchedInv, PcInv, SlotInv, ConsumerSlot
<1>4. SlotInv'
  <2>1. ASSUME NEW g \in Fibers
        PROVE  ConsumerSlot(g)'
    BY DEF SchedInv, PcInv, SlotInv, ConsumerSlot, ProducerSlot
  <2>2. ASSUME NEW q \in Promises
        PROVE  ProducerSlot(q)'
    BY DEF SchedInv, PcInv, SlotInv, ConsumerSlot, ProducerSlot
  <2>3. QED
    BY <2>1, <2>2 DEF SlotInv
<1>5. DoneInv'
  BY DEF SchedInv, PcInv, SlotInv, ConsumerSlot, ProducerSlot, DoneInv
<1>6. QED
  BY <1>1, <1>2, <1>3, <1>4, <1>5

(* The end of the consumer's park preserves IInv. *)
LEMMA ParkReturnInductive ==
    ASSUME IInv, NEW f \in Fibers, ParkReturn(f)
    PROVE  IInv'
<1>1. SchedTypeOK' /\ SchedInv'
  BY DEF SchedInv, ParkReturn, IInv, TypeOK, SchedTypeOK, schedVars, Executing
<1> USE SchedAssumption, PromiseAssumption DEF IInv, TypeOK, SchedTypeOK, Outcomes, FiberStates,
        Executing, schedVars, promiseVars, ParkReturn, At, Goto, LeaveFrame, ThrowsShutdown
<1>2. TypeOK'
  BY <1>1
<1>3. PcInv'
  BY DEF SchedInv, PcInv, SlotInv, ConsumerSlot
<1>4. SlotInv'
  <2>1. ASSUME NEW g \in Fibers
        PROVE  ConsumerSlot(g)'
    BY DEF SchedInv, PcInv, SlotInv, ConsumerSlot, ProducerSlot
  <2>2. ASSUME NEW q \in Promises
        PROVE  ProducerSlot(q)'
    BY DEF SchedInv, PcInv, SlotInv, ConsumerSlot, ProducerSlot
  <2>3. QED
    BY <2>1, <2>2 DEF SlotInv
<1>5. DoneInv'
  BY DEF SchedInv, PcInv, SlotInv, ConsumerSlot, ProducerSlot, DoneInv
<1>6. QED
  BY <1>1, <1>2, <1>3, <1>4, <1>5

(* get() preserves IInv. *)
LEMMA GetInductive ==
    ASSUME IInv, NEW f \in Fibers, Get(f)
    PROVE  IInv'
<1>1. SchedTypeOK' /\ SchedInv'
  BY DEF SchedInv, Get, IInv, TypeOK, SchedTypeOK, schedVars, Executing
<1> USE SchedAssumption, PromiseAssumption DEF IInv, TypeOK, SchedTypeOK, Outcomes, FiberStates,
        Executing, schedVars, promiseVars, Get, At, Goto, LeaveFrame
<1>2. TypeOK'
  BY <1>1
<1>3. PcInv'
  BY DEF SchedInv, PcInv, SlotInv, ConsumerSlot
<1>4. SlotInv'
  <2>1. ASSUME NEW g \in Fibers
        PROVE  ConsumerSlot(g)'
    BY DEF SchedInv, PcInv, SlotInv, ConsumerSlot, ProducerSlot
  <2>2. ASSUME NEW q \in Promises
        PROVE  ProducerSlot(q)'
    BY DEF SchedInv, PcInv, SlotInv, ConsumerSlot, ProducerSlot
  <2>3. QED
    BY <2>1, <2>2 DEF SlotInv
<1>5. DoneInv'
  BY DEF SchedInv, PcInv, SlotInv, ConsumerSlot, ProducerSlot, DoneInv
<1>6. QED
  BY <1>1, <1>2, <1>3, <1>4, <1>5

(* The end of the consumer's entry preserves IInv. *)
LEMMA ExitInductive ==
    ASSUME IInv, NEW f \in Fibers, Exit(f)
    PROVE  IInv'
<1>1. SchedTypeOK' /\ SchedInv'
  BY SwitchOutPreserves DEF FinishCurrent, Exit, IInv, TypeOK
<1> USE SchedAssumption, PromiseAssumption DEF IInv, TypeOK, SchedTypeOK, Outcomes, FiberStates,
        Executing, schedVars, promiseVars, Exit, Goto, FinishCurrent, SwitchOut
<1>2. TypeOK'
  BY <1>1
<1>3. PcInv'
  BY DEF SchedInv, PcInv, SlotInv, ConsumerSlot
<1>4. SlotInv'
  <2>1. ASSUME NEW g \in Fibers
        PROVE  ConsumerSlot(g)'
    BY DEF SchedInv, PcInv, SlotInv, ConsumerSlot, ProducerSlot
  <2>2. ASSUME NEW q \in Promises
        PROVE  ProducerSlot(q)'
    BY DEF SchedInv, PcInv, SlotInv, ConsumerSlot, ProducerSlot
  <2>3. QED
    BY <2>1, <2>2 DEF SlotInv
<1>5. DoneInv'
  BY DEF SchedInv, PcInv, SlotInv, ConsumerSlot, ProducerSlot, DoneInv
<1>6. QED
  BY <1>1, <1>2, <1>3, <1>4, <1>5

(* Storing the outcome preserves IInv. *)
LEMMA StoreInductive ==
    ASSUME IInv, NEW p \in Promises, Store(p)
    PROVE  IInv'
<1>1. SchedTypeOK' /\ SchedInv'
  BY DEF SchedInv, Store, IInv, TypeOK, SchedTypeOK, schedVars, Executing
<1> USE SchedAssumption, PromiseAssumption DEF IInv, TypeOK, SchedTypeOK, Outcomes, FiberStates,
        Executing, schedVars, promiseVars, Store
<1>2. TypeOK'
  BY <1>1
<1>3. PcInv'
  BY DEF SchedInv, PcInv, SlotInv, ConsumerSlot
<1>4. SlotInv'
  <2>1. ASSUME NEW g \in Fibers
        PROVE  ConsumerSlot(g)'
    BY DEF SchedInv, PcInv, SlotInv, ConsumerSlot, ProducerSlot
  <2>2. ASSUME NEW q \in Promises
        PROVE  ProducerSlot(q)'
    BY DEF SchedInv, PcInv, SlotInv, ConsumerSlot, ProducerSlot
  <2>3. QED
    BY <2>1, <2>2 DEF SlotInv
<1>5. DoneInv'
  BY DEF SchedInv, PcInv, SlotInv, ConsumerSlot, ProducerSlot, DoneInv
<1>6. QED
  BY <1>1, <1>2, <1>3, <1>4, <1>5

(* The producer's compare-and-swap preserves IInv. *)
LEMMA fulfill_and_notifyInductive ==
    ASSUME IInv, NEW p \in Promises, fulfill_and_notify(p)
    PROVE  IInv'
<1>1. SchedTypeOK' /\ SchedInv'
  BY DEF SchedInv, fulfill_and_notify, IInv, TypeOK, SchedTypeOK, schedVars, Executing
<1> USE SchedAssumption, PromiseAssumption DEF IInv, TypeOK, SchedTypeOK, Outcomes, FiberStates,
        Executing, schedVars, promiseVars, fulfill_and_notify
<1>2. TypeOK'
  BY <1>1
<1>3. PcInv'
  BY DEF SchedInv, PcInv, SlotInv, ConsumerSlot
<1>4. SlotInv'
  <2>1. ASSUME NEW g \in Fibers
        PROVE  ConsumerSlot(g)'
    BY DEF SchedInv, PcInv, SlotInv, ConsumerSlot, ProducerSlot
  <2>2. ASSUME NEW q \in Promises
        PROVE  ProducerSlot(q)'
    BY DEF SchedInv, PcInv, SlotInv, ConsumerSlot, ProducerSlot
  <2>3. QED
    BY <2>1, <2>2 DEF SlotInv
<1>5. DoneInv'
  BY DEF SchedInv, PcInv, SlotInv, ConsumerSlot, ProducerSlot, DoneInv
<1>6. QED
  BY <1>1, <1>2, <1>3, <1>4, <1>5

(* The producer's wake preserves IInv. *)
LEMMA wake_fiberInductive ==
    ASSUME IInv, NEW p \in Promises, wake_fiber(p)
    PROVE  IInv'
<1>1. SchedTypeOK' /\ SchedInv'
  <2>1. waiter[p] \in Fibers
    BY DEF SlotInv, ProducerSlot, IInv, wake_fiber
  <2>2. QED
    BY <2>1, WakePreserves DEF wake_fiber, IInv, TypeOK
<1> USE SchedAssumption, PromiseAssumption DEF IInv, TypeOK, SchedTypeOK, Outcomes, FiberStates,
        Executing, schedVars, promiseVars, wake_fiber, Wake
<1>2. TypeOK'
  BY <1>1
<1>3. PcInv'
  BY DEF SchedInv, PcInv, SlotInv, ConsumerSlot
<1>4. SlotInv'
  <2>1. ASSUME NEW g \in Fibers
        PROVE  ConsumerSlot(g)'
    BY DEF SchedInv, PcInv, SlotInv, ConsumerSlot, ProducerSlot
  <2>2. ASSUME NEW q \in Promises
        PROVE  ProducerSlot(q)'
    BY DEF SchedInv, PcInv, SlotInv, ConsumerSlot, ProducerSlot
  <2>3. QED
    BY <2>1, <2>2 DEF SlotInv
<1>5. DoneInv'
  BY DEF SchedInv, PcInv, SlotInv, ConsumerSlot, ProducerSlot, DoneInv
<1>6. QED
  BY <1>1, <1>2, <1>3, <1>4, <1>5

(* A drain of a wake list preserves IInv. *)
LEMMA drainWakeListInductive ==
    ASSUME IInv, NEW s \in Scheds, drainWakeList(s), UNCHANGED promiseVars
    PROVE  IInv'
<1>1. SchedTypeOK' /\ SchedInv'
  BY drainWakeListPreserves DEF IInv, TypeOK
<1> USE SchedAssumption, PromiseAssumption DEF IInv, TypeOK, SchedTypeOK, Outcomes, FiberStates,
        Executing, schedVars, promiseVars, drainWakeList, MakeReady
<1>2. TypeOK'
  BY <1>1
<1>3. PcInv'
  BY DEF SchedInv, PcInv, SlotInv, ConsumerSlot
<1>4. SlotInv'
  <2>1. ASSUME NEW g \in Fibers
        PROVE  ConsumerSlot(g)'
    BY DEF SchedInv, PcInv, SlotInv, ConsumerSlot, ProducerSlot
  <2>2. ASSUME NEW q \in Promises
        PROVE  ProducerSlot(q)'
    BY DEF SchedInv, PcInv, SlotInv, ConsumerSlot, ProducerSlot
  <2>3. QED
    BY <2>1, <2>2 DEF SlotInv
<1>5. DoneInv'
  BY DEF SchedInv, PcInv, SlotInv, ConsumerSlot, ProducerSlot, DoneInv
<1>6. QED
  BY <1>1, <1>2, <1>3, <1>4, <1>5

(* interrupt() preserves IInv. *)
LEMMA InterruptInductive ==
    ASSUME IInv, NEW s \in Scheds, Interrupt(s), UNCHANGED promiseVars
    PROVE  IInv'
<1>1. SchedTypeOK' /\ SchedInv'
  BY InterruptPreserves DEF IInv, TypeOK
<1> USE SchedAssumption, PromiseAssumption DEF IInv, TypeOK, SchedTypeOK, Outcomes, FiberStates,
        Executing, schedVars, promiseVars, Interrupt
<1>2. TypeOK'
  BY <1>1
<1>3. PcInv'
  BY DEF SchedInv, PcInv, SlotInv, ConsumerSlot
<1>4. SlotInv'
  <2>1. ASSUME NEW g \in Fibers
        PROVE  ConsumerSlot(g)'
    BY DEF SchedInv, PcInv, SlotInv, ConsumerSlot, ProducerSlot
  <2>2. ASSUME NEW q \in Promises
        PROVE  ProducerSlot(q)'
    BY DEF SchedInv, PcInv, SlotInv, ConsumerSlot, ProducerSlot
  <2>3. QED
    BY <2>1, <2>2 DEF SlotInv
<1>5. DoneInv'
  BY DEF SchedInv, PcInv, SlotInv, ConsumerSlot, ProducerSlot, DoneInv
<1>6. QED
  BY <1>1, <1>2, <1>3, <1>4, <1>5

(* The shutdown scan preserves IInv. *)
LEMMA ShutdownScanInductive ==
    ASSUME IInv, NEW s \in Scheds, ShutdownScan(s), UNCHANGED promiseVars
    PROVE  IInv'
<1>1. SchedTypeOK' /\ SchedInv'
  BY ShutdownScanPreserves DEF IInv, TypeOK
<1> USE SchedAssumption, PromiseAssumption DEF IInv, TypeOK, SchedTypeOK, Outcomes, FiberStates,
        Executing, schedVars, promiseVars, ShutdownScan, MakeReady, SuspendedOf, ReadyOf, FibersOf, SuspendedStates
<1>2. TypeOK'
  BY <1>1
<1>3. PcInv'
  BY DEF SchedInv, PcInv, SlotInv, ConsumerSlot
<1>4. SlotInv'
  <2>1. ASSUME NEW g \in Fibers
        PROVE  ConsumerSlot(g)'
    BY DEF SchedInv, PcInv, SlotInv, ConsumerSlot, ProducerSlot
  <2>2. ASSUME NEW q \in Promises
        PROVE  ProducerSlot(q)'
    BY DEF SchedInv, PcInv, SlotInv, ConsumerSlot, ProducerSlot
  <2>3. QED
    BY <2>1, <2>2 DEF SlotInv
<1>5. DoneInv'
  BY DEF SchedInv, PcInv, SlotInv, ConsumerSlot, ProducerSlot, DoneInv
<1>6. QED
  BY <1>1, <1>2, <1>3, <1>4, <1>5

(* The resumption of a fiber preserves IInv. *)
LEMMA ResumeInductive ==
    ASSUME IInv, NEW f \in Fibers, Resume(f), UNCHANGED promiseVars
    PROVE  IInv'
<1>1. SchedTypeOK' /\ SchedInv'
  BY ResumePreserves DEF IInv, TypeOK
<1> USE SchedAssumption, PromiseAssumption DEF IInv, TypeOK, SchedTypeOK, Outcomes, FiberStates,
        Executing, schedVars, promiseVars, Resume
<1>2. TypeOK'
  BY <1>1
<1>3. PcInv'
  BY DEF SchedInv, PcInv, SlotInv, ConsumerSlot
<1>4. SlotInv'
  <2>1. ASSUME NEW g \in Fibers
        PROVE  ConsumerSlot(g)'
    BY DEF SchedInv, PcInv, SlotInv, ConsumerSlot, ProducerSlot
  <2>2. ASSUME NEW q \in Promises
        PROVE  ProducerSlot(q)'
    BY DEF SchedInv, PcInv, SlotInv, ConsumerSlot, ProducerSlot
  <2>3. QED
    BY <2>1, <2>2 DEF SlotInv
<1>5. DoneInv'
  BY DEF SchedInv, PcInv, SlotInv, ConsumerSlot, ProducerSlot, DoneInv
<1>6. QED
  BY <1>1, <1>2, <1>3, <1>4, <1>5

(* IInv is inductive. *)
LEMMA Inductive == IInv /\ [Next]_vars => IInv'
<1> SUFFICES ASSUME IInv, [Next]_vars
             PROVE  IInv'
  OBVIOUS
<1>1. ASSUME NEW f \in Fibers, FiberStep(f)
      PROVE  IInv'
  BY <1>1, PostInductive, FutureCheckInductive, try_register_waiterInductive, ParkInductive,
     ParkReturnInductive, GetInductive, ExitInductive DEF FiberStep
<1>2. ASSUME NEW p \in Promises, Produce(p)
      PROVE  IInv'
  BY <1>2, StoreInductive, fulfill_and_notifyInductive, wake_fiberInductive DEF Produce
<1>3. CASE SchedStep /\ UNCHANGED promiseVars
  BY <1>3, drainWakeListInductive, InterruptInductive, ShutdownScanInductive,
     ResumeInductive DEF SchedStep
<1>4. CASE UNCHANGED vars
  BY <1>4 DEF vars, schedVars, promiseVars, IInv, TypeOK, SchedTypeOK, SchedInv, PcInv, SlotInv,
     ConsumerSlot, ProducerSlot, DoneInv, Executing
<1>5. QED
  BY <1>1, <1>2, <1>3, <1>4 DEF Next

(* Consumers that were just spawned, and nothing posted. *)
LEMMA InitIInv == Init => IInv
  BY SchedAssumption, PromiseAssumption, SchedInitInv DEF Init, SchedInit, IInv, TypeOK, Outcomes,
     PcInv, SlotInv, ConsumerSlot, ProducerSlot, DoneInv

(* IInv holds in every reachable state. *)
LEMMA InvariantHolds == Spec => []IInv
  BY InitIInv, Inductive, PTL DEF Spec

(* get() finds the outcome stored, whichever of the consumer and the       *)
(* producer was first and whatever was shut down.                          *)
THEOREM GetIsNeverEarly == Spec => []GetSeesOutcome
<1>1. IInv => GetSeesOutcome
  BY PromiseAssumption DEF IInv, GetSeesOutcome, TypeOK, SlotInv, ConsumerSlot, ProducerSlot, DoneInv, At
<1>2. QED
  BY <1>1, InvariantHolds, PTL

(* The producer is done with a promise before the frame that holds it goes *)
(* away, unless the caller's scheduler shuts down.                         *)
THEOREM PromiseOutlivesProducer == Spec => []ProducerTouchesLivePromise
<1>1. IInv => ProducerTouchesLivePromise
  BY PromiseAssumption DEF IInv, ProducerTouchesLivePromise, TypeOK, PcInv, SlotInv,
     ConsumerSlot, ProducerSlot, DoneInv
<1>2. QED
  BY <1>1, InvariantHolds, PTL
=============================================================================
