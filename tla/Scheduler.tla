------------------------------ MODULE Scheduler ------------------------------
(***************************************************************************)
(* The run loop of one psiber scheduler (basic_scheduler::run and what it  *)
(* calls in src/libraries/psiber/src/scheduler.cpp): the wake list as the  *)
(* stack it is, the three priority queues, the LIFO slot, timers, I/O and  *)
(* the blocking poll, and the shutdown path.                               *)
(*                                                                         *)
(* The thread of the scheduler is either in one phase of the loop or in    *)
(* the fiber it resumed.  The other threads push woken fibers on the wake  *)
(* list and then trigger the user event.  The scheduler is a standalone    *)
(* one: its fibers belong to no strand and it to no reactor.  How it runs  *)
(* posted work items is not modelled here.                                 *)
(***************************************************************************)
EXTENDS Naturals, Sequences

CONSTANTS
    Registered,   \* _fibers, in the order of registration
    Priority,     \* Fiber::priority, clamped to 0..2
    Daemons,      \* Fiber::daemon
    Sleepers,     \* the fibers that use sleep() and yield(fd)
    Parkers,      \* the fibers that park
    lifo_cap,
    MayStop,      \* whether interrupt() and the shutdown check happen
    NoFiber

Members(fs) == {fs[i] : i \in DOMAIN fs}
Fibers == Members(Registered)
Priorities == 0..2

ASSUME SchedulerAssumption ==
    /\ Registered \in Seq(Fibers)
    /\ \A i, j \in DOMAIN Registered : Registered[i] = Registered[j] => i = j
    /\ Priority \in [Fibers -> Priorities]
    /\ Daemons \subseteq Fibers
    /\ Sleepers \subseteq Fibers
    /\ Parkers \subseteq Fibers
    /\ lifo_cap \in Nat \ {0}
    /\ MayStop \in BOOLEAN
    /\ NoFiber \notin Fibers

VARIABLES
    state,             \* Fiber::state
    mode,              \* what the code of the fiber does next
    awaited,           \* the fibers that a waker has in hand and has not woken yet
    due,               \* the fibers whose wake_time has come or whose fd is ready
    wakeStack,         \* _wake_list, last push first
    pushing,           \* the fibers pushed by another thread that has not triggered yet
    userEvent,         \* the user event is triggered
    readyQueues,       \* _ready_queues
    lifoSlot,          \* _lifo_slot
    lifoConsecutive,   \* _lifo_consecutive
    current,           \* _current
    interrupted,       \* _interrupted
    stopFlag,          \* what _shutdownCheck() returns
    phase              \* where run() is

wakeVars == <<wakeStack, pushing, userEvent>>
queueVars == <<readyQueues, lifoSlot, lifoConsecutive>>
fiberVars == <<state, mode, awaited, due>>
loopVars == <<current, interrupted, stopFlag, phase>>
vars == <<wakeVars, queueVars, fiberVars, loopVars>>

FiberStates == {"Ready", "Running", "Parked", "Sleeping", "Blocked", "Recyclable"}
Suspended == {"Parked", "Sleeping", "Blocked"}
Phases == {"drain", "pick", "poll", "redrain", "repick", "fiber",
           "idle", "scan", "spin", "block", "polling", "exited"}

TypeOK ==
    /\ state \in [Fibers -> FiberStates]
    /\ mode \in [Fibers -> {"fresh", "run", "parking", "unwind"}]
    /\ awaited \in SUBSET Fibers
    /\ due \in SUBSET Fibers
    /\ wakeStack \in Seq(Fibers)
    /\ pushing \in SUBSET Fibers
    /\ userEvent \in BOOLEAN
    /\ readyQueues \in [Priorities -> Seq(Fibers)]
    /\ lifoSlot \in Fibers \cup {NoFiber}
    /\ lifoConsecutive \in 0..lifo_cap
    /\ current \in Fibers \cup {NoFiber}
    /\ interrupted \in BOOLEAN
    /\ stopFlag \in BOOLEAN
    /\ phase \in Phases

addToReadyQueue(q, f) == [q EXCEPT ![Priority[f]] = Append(@, f)]

(* A loop over the fibers fs that adds those in S. *)
AddEach(q, fs, S) ==
    LET added[i \in 0 .. Len(fs)] ==
            IF i = 0 THEN q
            ELSE IF fs[i] \in S THEN addToReadyQueue(added[i - 1], fs[i])
            ELSE added[i - 1]
    IN  added[Len(fs)]

(* The fibers were registered before run(). *)
Init ==
    /\ state = [f \in Fibers |-> "Ready"]
    /\ mode = [f \in Fibers |-> "fresh"]
    /\ awaited = {}
    /\ due = {}
    /\ wakeStack = <<>>
    /\ pushing = {}
    /\ userEvent = FALSE
    /\ readyQueues = AddEach([p \in Priorities |-> <<>>], Registered, Fibers)
    /\ lifoSlot = NoFiber
    /\ lifoConsecutive = 0
    /\ current = NoFiber
    /\ interrupted = FALSE
    /\ stopFlag = FALSE
    /\ phase = "drain"

-----------------------------------------------------------------------------
(* The code of the fibers, as far as the scheduler sees it.                *)

InFiber(f) == phase = "fiber" /\ current = f

SwitchOut(f, st) ==
    /\ InFiber(f)
    /\ state' = [state EXCEPT ![f] = st]
    /\ current' = NoFiber
    /\ phase' = "drain"
    /\ UNCHANGED <<wakeVars, interrupted, stopFlag>>

yieldCurrentFiber(f) ==
    /\ SwitchOut(f, "Ready")
    /\ mode[f] = "run"
    /\ readyQueues' = addToReadyQueue(readyQueues, f)
    /\ UNCHANGED <<lifoSlot, lifoConsecutive, mode, awaited, due>>

(* The fiber makes itself known to whoever will wake it ... *)
Register(f) ==
    /\ InFiber(f)
    /\ mode[f] = "run"
    /\ f \in Parkers \ awaited
    /\ mode' = [mode EXCEPT ![f] = "parking"]
    /\ awaited' = awaited \cup {f}
    /\ UNCHANGED <<wakeVars, queueVars, loopVars, state, due>>

(* ... and parks. *)
parkCurrentFiber(f) ==
    /\ SwitchOut(f, "Parked")
    /\ mode[f] = "parking"
    /\ UNCHANGED <<queueVars, mode, awaited, due>>

(* sleep() and yield(fd). *)
WaitForPoll(f) ==
    /\ f \in Sleepers
    /\ SwitchOut(f, "Sleeping") \/ SwitchOut(f, "Blocked")
    /\ mode[f] = "run"
    /\ due' = due \ {f}
    /\ UNCHANGED <<queueVars, mode, awaited>>

(* The entry function returns, or ends with shutdown_exception; the fiber  *)
(* is pooled.                                                              *)
Finish(f) ==
    /\ SwitchOut(f, "Recyclable")
    /\ mode[f] \in {"run", "unwind"}
    /\ UNCHANGED <<queueVars, mode, awaited, due>>

-----------------------------------------------------------------------------
(* wake().                                                                 *)

Push(f) ==
    /\ f \in awaited
    /\ awaited' = awaited \ {f}
    /\ wakeStack' = <<f>> \o wakeStack

(* By a fiber of this scheduler: the loop will drain the list. *)
WakeLocal(f) ==
    /\ phase = "fiber" /\ current # f
    /\ Push(f)
    /\ UNCHANGED <<queueVars, loopVars, state, mode, due, pushing, userEvent>>

(* By another thread, which then calls notifyIfPolling(). *)
WakeRemote(f) ==
    /\ Push(f)
    /\ pushing' = pushing \cup {f}
    /\ UNCHANGED <<queueVars, loopVars, state, mode, due, userEvent>>

notifyIfPolling(f) ==
    /\ f \in pushing
    /\ pushing' = pushing \ {f}
    /\ userEvent' = TRUE
    /\ UNCHANGED <<queueVars, loopVars, fiberVars, wakeStack>>

-----------------------------------------------------------------------------
(* The environment: time, file descriptors, and requests to stop.          *)

BecomesDue(f) ==
    /\ state[f] \in {"Sleeping", "Blocked"}
    /\ f \notin due
    /\ due' = due \cup {f}
    /\ UNCHANGED <<wakeVars, queueVars, loopVars, state, mode, awaited>>

(* interrupt(), or the flag that _shutdownCheck() reads. *)
RequestStop ==
    /\ MayStop
    /\ \/ ~interrupted /\ interrupted' = TRUE /\ UNCHANGED stopFlag
       \/ ~stopFlag /\ stopFlag' = TRUE /\ UNCHANGED interrupted
    /\ UNCHANGED <<wakeVars, queueVars, fiberVars, current, phase>>

-----------------------------------------------------------------------------
(* The run loop.                                                           *)

MakeReady(S) == state' = [f \in Fibers |-> IF f \in S THEN "Ready" ELSE state[f]]

(* reverse(): the batch in the order of the pushes. *)
Reversed(fs) == [i \in 1 .. Len(fs) |-> fs[Len(fs) - i + 1]]

(* Mutants: the "still Parked" guard is dropped, or a batch is treated as  *)
(* if it had one fiber.                                                    *)
Woken_Unguarded(batch) == Members(batch)
Woken_FirstOnly(batch) == {f \in Members(batch) : state[f] = "Parked" /\ f = batch[1]}

(* The fibers of a drained batch that are still Parked. *)
Woken(batch) == {f \in Members(batch) : state[f] = "Parked"}

(* drainWakeList(): a single woken fiber goes to the LIFO slot if that is  *)
(* empty, the others to the ready queues in the order of the pushes.       *)
drainWakeList ==
    LET batch == Reversed(wakeStack)
        woken == Woken(batch)
    IN  /\ phase \in {"drain", "redrain"}
        /\ phase' = IF phase = "drain" THEN "pick" ELSE "repick"
        /\ wakeStack' = <<>>
        /\ MakeReady(woken)
        /\ IF Len(batch) = 1 /\ lifoSlot = NoFiber
           THEN /\ lifoSlot' = IF batch[1] \in woken THEN batch[1] ELSE NoFiber
                /\ UNCHANGED readyQueues
           ELSE /\ readyQueues' = AddEach(readyQueues, batch, woken)
                /\ UNCHANGED lifoSlot
        /\ UNCHANGED <<lifoConsecutive, mode, awaited, due, pushing, userEvent,
                       current, interrupted, stopFlag>>

(* Mutant: shutdown_exception is not thrown. *)
ModeOnResume_NoThrow(f) == "run"

(* The suspending call returns, or throws shutdown_exception. *)
ModeOnResume(f) == IF interrupted /\ mode[f] # "fresh" THEN "unwind" ELSE "run"

Resume(f) ==
    /\ current' = f
    /\ state' = [state EXCEPT ![f] = "Running"]
    /\ mode' = [mode EXCEPT ![f] = ModeOnResume(f)]
    /\ phase' = "fiber"

Resumed == <<wakeVars, awaited, due, interrupted, stopFlag>>

(* popFromReadyQueues() on q, and the resume of what it returns, or the    *)
(* next phase if q is empty.                                               *)
PopAndResume(q, otherwise) ==
    \/ \E p \in Priorities :
          /\ q[p] # <<>>
          /\ \A r \in Priorities : r < p => q[r] = <<>>
          /\ readyQueues' = [q EXCEPT ![p] = Tail(@)]
          /\ Resume(Head(q[p]))
    \/ /\ \A p \in Priorities : q[p] = <<>>
       /\ readyQueues' = q
       /\ phase' = otherwise
       /\ UNCHANGED <<current, state, mode>>

LifoCount == lifoConsecutive + 1

LifoTurn == lifoSlot # NoFiber /\ lifoConsecutive < lifo_cap

(* Pick the next fiber: the LIFO slot lifo_cap times in a row at most. *)
Pick ==
    /\ phase = "pick"
    /\ lifoSlot' = NoFiber
    /\ \/ /\ LifoTurn
          /\ lifoConsecutive' = LifoCount
          /\ Resume(lifoSlot)
          /\ UNCHANGED readyQueues
       \/ /\ ~LifoTurn
          /\ lifoConsecutive' = 0
          /\ PopAndResume(IF lifoSlot = NoFiber THEN readyQueues
                          ELSE addToReadyQueue(readyQueues, lifoSlot), "poll")
    /\ UNCHANGED Resumed

(* The second look at the queues, after the poll. *)
Repick ==
    /\ phase = "repick"
    /\ lifoSlot' = NoFiber
    /\ \/ /\ lifoSlot # NoFiber
          /\ lifoConsecutive' = 1
          /\ Resume(lifoSlot)
          /\ UNCHANGED readyQueues
       \/ /\ lifoSlot = NoFiber
          /\ PopAndResume(readyQueues, "idle")
          /\ UNCHANGED lifoConsecutive
    /\ UNCHANGED Resumed

(* The fibers in state st that a poll finds due. *)
Due(st) == {f \in due : state[f] = st}

(* pollAndUnblock(): the sleepers first, then those blocked on a           *)
(* descriptor; the user event is consumed.                                 *)
Unblock(sleepers, blocked, to) ==
    /\ MakeReady(sleepers \cup blocked)
    /\ readyQueues' = AddEach(AddEach(readyQueues, Registered, sleepers), Registered, blocked)
    /\ userEvent' = FALSE
    /\ phase' = to
    /\ UNCHANGED <<lifoSlot, lifoConsecutive, mode, awaited, due, wakeStack, pushing,
                   current, interrupted, stopFlag>>

Poll == phase = "poll" /\ Unblock(Due("Sleeping"), Due("Blocked"), "redrain")

(* Nothing to run: stop if no fiber but daemons is left or a stop was      *)
(* requested, else spin.                                                   *)
Idle ==
    LET alive == {f \in Fibers \ Daemons : state[f] # "Recyclable"}
    IN  /\ phase = "idle"
        /\ interrupted' = (interrupted \/ alive = {} \/ stopFlag)
        /\ phase' = IF interrupted' THEN "scan" ELSE "spin"
        /\ UNCHANGED <<wakeVars, queueVars, fiberVars, current, stopFlag>>

(* Mutant: the scan forgets the sleeping and blocked fibers. *)
ScanStates_ParkedOnly == {"Parked"}

ScanStates == Suspended

(* Every suspended fiber is made ready, to throw; run() returns if there   *)
(* is none.                                                                *)
Scan ==
    LET fs == {f \in Fibers : state[f] \in ScanStates}
    IN  /\ phase = "scan"
        /\ MakeReady(fs)
        /\ readyQueues' = AddEach(readyQueues, Registered, fs)
        /\ phase' = IF fs = {} THEN "exited" ELSE "drain"
        /\ UNCHANGED <<wakeVars, lifoSlot, lifoConsecutive, mode, awaited, due,
                       current, interrupted, stopFlag>>

(* The spin sees work, or its budget ends (it may be 0). *)
Spin ==
    /\ phase = "spin"
    /\ \/ wakeStack # <<>> /\ phase' = "drain"
       \/ phase' = "block"
    /\ UNCHANGED <<wakeVars, queueVars, fiberVars, current, interrupted, stopFlag>>

(* pollAndUnblock(true): it blocks unless a sleeper is due. *)
Block ==
    /\ phase = "block"
    /\ IF Due("Sleeping") # {}
       THEN Unblock(Due("Sleeping"), Due("Blocked"), "drain")
       ELSE phase' = "polling" /\ UNCHANGED <<wakeVars, queueVars, fiberVars, current,
                                              interrupted, stopFlag>>

(* The poll returns with events, for the user event or by its timeout. *)
PollReturn == phase = "polling" /\ Unblock({}, Due("Blocked"), "drain")

Loop ==
    \/ drainWakeList \/ Pick \/ Poll \/ Repick
    \/ Idle \/ Scan \/ Spin \/ Block \/ PollReturn

FiberCode(f) ==
    \/ yieldCurrentFiber(f) \/ Register(f) \/ parkCurrentFiber(f)
    \/ WaitForPoll(f) \/ Finish(f)

Thread == Loop \/ \E f \in Fibers : FiberCode(f)

Next ==
    \/ Thread
    \/ RequestStop
    \/ \E f \in Fibers : WakeLocal(f) \/ WakeRemote(f) \/ notifyIfPolling(f) \/ BecomesDue(f)

(* The thread of the scheduler runs, and so do the wakers between push and *)
(* trigger.                                                                *)
Fairness == WF_vars(Thread) /\ \A f \in Fibers : WF_vars(notifyIfPolling(f))

Spec == Init /\ [][Next]_vars /\ Fairness

-----------------------------------------------------------------------------
(* Properties.                                                             *)

InQueue(f, p) == {j \in DOMAIN readyQueues[p] : readyQueues[p][j] = f}

Occurrences(f) ==
    LET queued == UNION {{<<p, i>> : i \in InQueue(f, p)} : p \in Priorities}
    IN  queued \cup (IF lifoSlot = f THEN {<<3, 0>>} ELSE {})

(* scheduler.cpp: "Re-enqueueing such a fiber causes a double-resume ->    *)
(* crash."  A Ready fiber is in one place of the queues and the LIFO slot, *)
(* any other fiber in none: wakes, timers, I/O and the shutdown scan never *)
(* schedule a fiber twice, nor forget one.                                 *)
ScheduledOnce ==
    /\ TypeOK
    /\ \A f \in Fibers :
          IF state[f] = "Ready" THEN \E o \in Occurrences(f) : Occurrences(f) = {o}
          ELSE Occurrences(f) = {}

(* No wake is lost: a Parked fiber still has its waker or is on the wake   *)
(* list, so no drain swallows a wake; and while the thread is blocked in   *)
(* the poll every woken fiber has its event triggered or about to be, so   *)
(* none falls between the last drain and the poll, to be found only when   *)
(* the timeout ends.                                                       *)
NoWakeIsLost ==
    /\ \A f \in Fibers : state[f] = "Parked" => f \in awaited \cup Members(wakeStack)
    /\ phase = "polling" /\ wakeStack # <<>> => userEvent \/ pushing # {}

(* Once interrupt() was called run() returns, after every fiber has been   *)
(* resumed to unwind.                                                      *)
InterruptEndsRun ==
    interrupted ~> (phase = "exited" /\ \A f \in Fibers : state[f] = "Recyclable")

ThisThread == "thread"

Kernel == INSTANCE FiberSched WITH
    Scheds <- {ThisThread},
    Home <- [f \in Fibers |-> ThisThread],
    Interruptible <- {ThisThread},
    fstate <- state,
    wakeList <- [s \in {ThisThread} |-> Members(wakeStack)],
    current <- [s \in {ThisThread} |-> current],
    interrupted <- [s \in {ThisThread} |-> interrupted]

(* The loop, the fibers it runs and the threads that wake them take only   *)
(* the steps of the kernel on which the models of the mutexes are built.   *)
TakesKernelSteps == Kernel!KernelSpec

(* And it keeps the kernel's promise to them: a wake is drained, and a     *)
(* Ready fiber resumed as often as the thread gets back to its loop, or    *)
(* fibers of a higher priority keep being ready.  Only a wake pushed after *)
(* run() has returned is left on the list.                                 *)
ImplementsKernel ==
    /\ TakesKernelSteps
    /\ \/ <>(phase = "exited")
       \/ /\ Kernel!LoopFairness
          /\ \A f \in Fibers :
                \/ Kernel!ResumeFairness(f)
                \/ []<>(\E g \in Fibers : Priority[g] < Priority[f] /\ state[g] = "Ready")
=============================================================================
