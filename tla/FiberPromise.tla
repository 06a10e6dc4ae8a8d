---------------------------- MODULE FiberPromise ----------------------------
(***************************************************************************)
(* psiber::fiber_promise (include/psiber/fiber_promise.hpp) and the two    *)
(* ways in which thread.hpp uses it to return a result across threads:     *)
(* call() and invoke() keep the promise in the frame of the calling fiber, *)
(* async() shares it with a fiber_future.                                  *)
(*                                                                         *)
(* The consumer of a promise is a fiber of FiberSched.  The producer is    *)
(* the task that the consumer posted to another thread: it starts when     *)
(* that thread gets to it, stores its outcome, claims the waiter slot and  *)
(* wakes the fiber it finds there.                                         *)
(***************************************************************************)
EXTENDS FiberSched

CONSTANTS
    Promises,
    PromiseOf,    \* the promise that each fiber waits for
    Shared,       \* the promises of async(); the others are in the consumer's frame
    Fulfilled     \* kFulfilled

ASSUME PromiseAssumption ==
    /\ PromiseOf \in [Fibers -> Promises]
    /\ \A f, g \in Fibers : PromiseOf[f] = PromiseOf[g] => f = g
    /\ Shared \subseteq Promises
    /\ Fulfilled \notin Fibers \cup {NoFiber}

VARIABLES
    waiter,     \* _waiter
    outcome,    \* _storage or _exception, whichever was set
    task,       \* how far the producer of each promise is
    live,       \* the promises whose storage exists
    got,        \* what get() returned or rethrew
    pc

promiseVars == <<waiter, outcome, task, live, got, pc>>
vars == <<schedVars, promiseVars>>

Outcomes == {"unset", "value", "exception"}

TypeOK ==
    /\ SchedTypeOK
    /\ waiter \in [Promises -> Fibers \cup {NoFiber, Fulfilled}]
    /\ outcome \in [Promises -> Outcomes]
    /\ task \in [Promises -> {"none", "posted", "stored", "wake", "done"}]
    /\ live \in SUBSET Promises
    /\ got \in [Fibers -> Outcomes]
    /\ pc \in [Fibers -> {"start", "check", "register", "park", "parked", "get", "exit", "done"}]

Init ==
    /\ SchedInit
    /\ waiter = [p \in Promises |-> NoFiber]
    /\ outcome = [p \in Promises |-> "unset"]
    /\ task = [p \in Promises |-> "none"]
    /\ live = {}
    /\ got = [f \in Fibers |-> "unset"]
    /\ pc = [f \in Fibers |-> "start"]

-----------------------------------------------------------------------------
At(f, label) == Executing(f) /\ pc[f] = label

Goto(f, label) == pc' = [pc EXCEPT ![f] = label]

(* call(), invoke() and async() make the promise and post the task. *)
Post(f) ==
    LET p == PromiseOf[f] IN
    /\ At(f, "start")
    /\ task' = [task EXCEPT ![p] = "posted"]
    /\ live' = live \cup {p}
    /\ Goto(f, IF p \in Shared THEN "check" ELSE "register")
    /\ UNCHANGED <<schedVars, waiter, outcome, got>>

is_ready(p) == waiter[p] = Fulfilled

(* fiber_future::get(): the first look. *)
FutureCheck(f) ==
    /\ At(f, "check")
    /\ Goto(f, IF is_ready(PromiseOf[f]) THEN "get" ELSE "register")
    /\ UNCHANGED <<schedVars, waiter, outcome, task, live, got>>

(* Mutant: a stored outcome is taken before the producer claims the slot. *)
try_register_waiter_Peeks(f) ==
    /\ At(f, "register")
    /\ \/ /\ outcome[PromiseOf[f]] = "unset"
          /\ waiter' = [waiter EXCEPT ![PromiseOf[f]] = f]
          /\ Goto(f, "park")
       \/ /\ outcome[PromiseOf[f]] # "unset"
          /\ Goto(f, "get")
          /\ UNCHANGED waiter
    /\ UNCHANGED <<schedVars, outcome, task, live, got>>

(* The consumer's compare-and-swap: park only if it succeeds. *)
try_register_waiter(f) ==
    /\ At(f, "register")
    /\ \/ /\ waiter[PromiseOf[f]] = NoFiber
          /\ waiter' = [waiter EXCEPT ![PromiseOf[f]] = f]
          /\ Goto(f, "park")
       \/ /\ waiter[PromiseOf[f]] # NoFiber
          /\ Goto(f, "get")
          /\ UNCHANGED waiter
    /\ UNCHANGED <<schedVars, outcome, task, live, got>>

Park(f) ==
    /\ ParkCurrent(f)
    /\ pc[f] = "park"
    /\ Goto(f, "parked")
    /\ UNCHANGED <<waiter, outcome, task, live, got>>

(* The frame of the consumer goes away, and a promise in it. *)
LeaveFrame(f) == live' = live \ ({PromiseOf[f]} \ Shared)

(* parkCurrentFiber() returns, or throws and the frame is unwound. *)
ParkReturn(f) ==
    /\ At(f, "parked")
    /\ \/ ThrowsShutdown(f) /\ LeaveFrame(f) /\ Goto(f, "exit")
       \/ ~ThrowsShutdown(f) /\ UNCHANGED live /\ Goto(f, "get")
    /\ UNCHANGED <<schedVars, waiter, outcome, task, got>>

Get(f) ==
    /\ At(f, "get")
    /\ got' = [got EXCEPT ![f] = outcome[PromiseOf[f]]]
    /\ LeaveFrame(f)
    /\ Goto(f, "exit")
    /\ UNCHANGED <<schedVars, waiter, outcome, task>>

Exit(f) ==
    /\ pc[f] = "exit"
    /\ FinishCurrent(f)
    /\ Goto(f, "done")
    /\ UNCHANGED <<waiter, outcome, task, live, got>>

-----------------------------------------------------------------------------
(* The producer.                                                           *)

(* Mutant: the slot is claimed before the outcome is stored. *)
Store_Late(p) ==
    /\ task[p] = "posted"
    /\ task' = [task EXCEPT ![p] = "stored"]
    /\ UNCHANGED <<schedVars, waiter, outcome, live, got, pc>>

(* The posted callable ran; its value or its exception is stored. *)
Store(p) ==
    /\ task[p] = "posted"
    /\ \E o \in {"value", "exception"} : outcome' = [outcome EXCEPT ![p] = o]
    /\ task' = [task EXCEPT ![p] = "stored"]
    /\ UNCHANGED <<schedVars, waiter, live, got, pc>>

(* Mutant: a waiter that is there is not woken. *)
fulfill_and_notify_NoWake(p) ==
    /\ task[p] = "stored"
    /\ waiter' = [waiter EXCEPT ![p] = IF @ = NoFiber THEN Fulfilled ELSE @]
    /\ task' = [task EXCEPT ![p] = "done"]
    /\ UNCHANGED <<schedVars, outcome, live, got, pc>>

(* The producer's compare-and-swap: wake only if it fails. *)
fulfill_and_notify(p) ==
    /\ task[p] = "stored"
    /\ \/ /\ waiter[p] = NoFiber
          /\ waiter' = [waiter EXCEPT ![p] = Fulfilled]
          /\ task' = [task EXCEPT ![p] = "done"]
       \/ /\ waiter[p] # NoFiber
          /\ UNCHANGED waiter
          /\ task' = [task EXCEPT ![p] = "wake"]
    /\ UNCHANGED <<schedVars, outcome, live, got, pc>>

wake_fiber(p) ==
    /\ task[p] = "wake"
    /\ Wake(waiter[p])
    /\ task' = [task EXCEPT ![p] = "done"]
    /\ UNCHANGED <<waiter, outcome, live, got, pc>>

Produce(p) == Store(p) \/ fulfill_and_notify(p) \/ wake_fiber(p)

FiberStep(f) ==
    \/ Post(f) \/ FutureCheck(f) \/ try_register_waiter(f) \/ Park(f)
    \/ ParkReturn(f) \/ Get(f) \/ Exit(f)

Next ==
    \/ SchedStep /\ UNCHANGED promiseVars
    \/ \E f \in Fibers : FiberStep(f)
    \/ \E p \in Promises : Produce(p)

(* The schedulers, the running fibers and the posted tasks run on. *)
Fairness ==
    /\ SchedFairness
    /\ \A f \in Fibers : WF_vars(FiberStep(f))
    /\ \A p \in Promises : WF_vars(Produce(p))

Spec == Init /\ [][Next]_vars /\ Fairness

-----------------------------------------------------------------------------
(* Properties.                                                             *)

(* fiber_promise.hpp: try_register_waiter "Returns false if the value is   *)
(* already ready".  get() never runs before the outcome is stored, whether *)
(* the consumer parked, lost the race or never had to wait.                *)
GetSeesOutcome ==
    /\ TypeOK
    /\ \A f \in Fibers : At(f, "get") => outcome[PromiseOf[f]] # "unset"

(* The producer stores to the promise and claims its slot only while the   *)
(* promise exists, even though the consumer's frame, which may hold it, is *)
(* left as soon as get() returns.  A caller that is shut down is exempt.   *)
ProducerTouchesLivePromise ==
    \A f \in Fibers :
        task[PromiseOf[f]] \in {"posted", "stored"} /\ ~interrupted[Home[f]] =>
            PromiseOf[f] \in live

(* Every consumer gets the outcome of its task, unless it is shut down.    *)
EveryCallReturns ==
    \A f \in Fibers : <>(got[f] # "unset" \/ interrupted[Home[f]])
=============================================================================
