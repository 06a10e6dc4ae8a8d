----------------------------- MODULE FiberSched -----------------------------
(***************************************************************************)
(* What psiber's per-thread schedulers promise to the code that runs in    *)
(* fibers: park, yield, finish, cross-thread wake and shutdown             *)
(* (basic_scheduler in src/libraries/psiber/src/scheduler.cpp).            *)
(*                                                                         *)
(* One scheduler per OS thread runs one fiber at a time and only between   *)
(* two fibers does it drain its own wake list.  A fiber here belongs to no *)
(* strand, so it never leaves the scheduler that spawned it (Strand.tla    *)
(* models the others).  The ready queues are abstracted to the set of      *)
(* Ready fibers; module Scheduler has the queues and the LIFO slot and is  *)
(* checked to implement this one.  Synchronisation primitives EXTEND this  *)
(* module and are built from ParkCurrent, YieldCurrent, FinishCurrent and  *)
(* Wake.                                                                   *)
(***************************************************************************)
EXTENDS Naturals, Sequences, FiniteSets

CONSTANTS
    Fibers,         \* the fibers of all the threads
    Scheds,         \* the schedulers, one per OS thread
    Home,           \* Fiber::home_sched
    Interruptible,  \* the schedulers that may be told to shut down
    NoFiber         \* a null Fiber*

ASSUME SchedAssumption ==
    /\ Home \in [Fibers -> Scheds]
    /\ Interruptible \subseteq Scheds
    /\ NoFiber \notin Fibers

VARIABLES
    fstate,       \* Fiber::state
    wakeList,     \* basic_scheduler::_wake_list, the fibers pushed and not drained
    current,      \* basic_scheduler::_current
    interrupted   \* basic_scheduler::_interrupted

schedVars == <<fstate, wakeList, current, interrupted>>

FiberStates == {"Ready", "Running", "Parked", "Recyclable"}

SchedTypeOK ==
    /\ fstate \in [Fibers -> FiberStates]
    /\ wakeList \in [Scheds -> SUBSET Fibers]
    /\ current \in [Scheds -> Fibers \cup {NoFiber}]
    /\ interrupted \in [Scheds -> BOOLEAN]

(* spawnFiber() before run(): every fiber is registered and Ready. *)
SchedInit ==
    /\ fstate = [f \in Fibers |-> "Ready"]
    /\ wakeList = [s \in Scheds |-> {}]
    /\ current = [s \in Scheds |-> NoFiber]
    /\ interrupted = [s \in Scheds |-> FALSE]

-----------------------------------------------------------------------------
(* Operations of fiber code.  A fiber executes only while it is _current.  *)

Executing(f) == current[Home[f]] = f

SwitchOut(f, st) ==
    /\ Executing(f)
    /\ fstate' = [fstate EXCEPT ![f] = st]
    /\ current' = [current EXCEPT ![Home[f]] = NoFiber]
    /\ UNCHANGED <<wakeList, interrupted>>

ParkCurrent(f) == SwitchOut(f, "Parked")

YieldCurrent(f) == SwitchOut(f, "Ready")

FinishCurrent(f) == SwitchOut(f, "Recyclable")

(* Mutant: a suspended call returns normally from a shutdown wake. *)
ThrowsShutdown_Never(f) == FALSE

(* Whether the call that suspended f throws shutdown_exception when it     *)
(* resumes.                                                                *)
ThrowsShutdown(f) == interrupted[Home[f]]

Wake(f) ==
    /\ wakeList' = [wakeList EXCEPT ![Home[f]] = @ \cup {f}]
    /\ UNCHANGED <<fstate, current, interrupted>>

-----------------------------------------------------------------------------
(* Steps of the schedulers.                                                *)

FibersOf(s) == {f \in Fibers : Home[f] = s}

ReadyOf(s) == {f \in FibersOf(s) : fstate[f] = "Ready"}

SuspendedStates == {"Parked", "Sleeping", "Blocked"}

SuspendedOf(s) == {f \in FibersOf(s) : fstate[f] \in SuspendedStates}

MakeReady(S) == fstate' = [f \in Fibers |-> IF f \in S THEN "Ready" ELSE fstate[f]]

(* One exchange empties the list; a fiber on it that is not Parked is      *)
(* skipped.                                                                *)
drainWakeList(s) ==
    /\ current[s] = NoFiber
    /\ wakeList[s] # {}
    /\ wakeList' = [wakeList EXCEPT ![s] = {}]
    /\ MakeReady({f \in wakeList[s] : fstate[f] = "Parked"})
    /\ UNCHANGED <<current, interrupted>>

Resume(f) ==
    /\ current[Home[f]] = NoFiber
    /\ fstate[f] = "Ready"
    /\ fstate' = [fstate EXCEPT ![f] = "Running"]
    /\ current' = [current EXCEPT ![Home[f]] = f]
    /\ UNCHANGED <<wakeList, interrupted>>

(* interrupt() *)
Interrupt(s) ==
    /\ s \in Interruptible
    /\ ~interrupted[s]
    /\ interrupted' = [interrupted EXCEPT ![s] = TRUE]
    /\ UNCHANGED <<fstate, wakeList, current>>

(* Idle and interrupted: every suspended fiber is made ready, to throw.    *)
ShutdownScan(s) ==
    /\ interrupted[s]
    /\ current[s] = NoFiber
    /\ ReadyOf(s) = {}
    /\ SuspendedOf(s) # {}
    /\ MakeReady(SuspendedOf(s))
    /\ UNCHANGED <<wakeList, current, interrupted>>

SchedStep ==
    \/ \E s \in Scheds : drainWakeList(s) \/ Interrupt(s) \/ ShutdownScan(s)
    \/ \E f \in Fibers : Resume(f)

(* sleep() and yield(fd), and the poll that ends them.  The locks use      *)
(* neither, so these are steps of the kernel's specification only.         *)
WaitForPoll(f) == SwitchOut(f, "Sleeping") \/ SwitchOut(f, "Blocked")

Unblock(s) ==
    /\ current[s] = NoFiber
    /\ \E S \in SUBSET {f \in FibersOf(s) : fstate[f] \in {"Sleeping", "Blocked"}} :
          MakeReady(S)
    /\ UNCHANGED <<wakeList, current, interrupted>>

(* What the code of the fibers may do, whatever it is. *)
FiberOperation ==
    \E f \in Fibers :
        \/ ParkCurrent(f) \/ YieldCurrent(f) \/ FinishCurrent(f) \/ Wake(f)
        \/ WaitForPoll(f)

KernelStep == SchedStep \/ FiberOperation \/ \E s \in Scheds : Unblock(s)

KernelSpec == SchedInit /\ [][KernelStep]_schedVars

(* The run loop drains on every iteration and serves its ready queues in   *)
(* FIFO order, with at most lifo_cap consecutive exceptions: a wake is     *)
(* drained and a Ready fiber is resumed as often as the thread gets back   *)
(* to its loop.                                                            *)
LoopFairness ==
    \A s \in Scheds : SF_schedVars(drainWakeList(s)) /\ WF_schedVars(ShutdownScan(s))

ResumeFairness(f) == SF_schedVars(Resume(f))

SchedFairness == LoopFairness /\ \A f \in Fibers : ResumeFairness(f)
=============================================================================
