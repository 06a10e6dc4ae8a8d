------------------------------ MODULE WorkPool ------------------------------
(***************************************************************************)
(* Posting work to a psiber scheduler: basic_scheduler::post and try_post  *)
(* (scheduler.hpp), the bitset pool of work slots, the bounded budget of   *)
(* heap items, the list of fibers that wait for a slot with a timeout, and *)
(* the part of run() that turns work items into fibers (scheduler.cpp).    *)
(*                                                                         *)
(* A callable is posted once, by a fiber of the scheduler, by another      *)
(* thread, or by another callable while that runs: a callable holds its    *)
(* slot until it has ended, so nested posts can exhaust the pool.  An      *)
(* atomic access of post() is a step, because the other threads use the    *)
(* same pool, counter and work list; the wait list and the fiber states    *)
(* belong to the scheduler's thread.  A callable is the name of its fiber. *)
(***************************************************************************)
EXTENDS Naturals, Sequences, FiniteSets, SequencesExt

CONSTANTS
    Slots,       \* the indices of _work_pool
    HeapLimit,   \* _work_heap_overflow.max()
    Spawned,     \* the fibers of the scheduler that are not work items
    Threads,     \* the other OS threads
    Callables,   \* the callables that are posted
    PostedBy,    \* the fiber, thread or callable that posts each of them
    Policies,    \* the overflow policies used
    MayStop,     \* whether interrupt() is called
    None

Fibers == Spawned \cup Callables
Posters == Fibers \cup Threads

ASSUME WorkPoolAssumption ==
    /\ IsFiniteSet(Slots)
    /\ HeapLimit \in Nat
    /\ PostedBy \in [Callables -> Posters]
    /\ Policies \subseteq {"fail", "heap", "block"}
    /\ MayStop \in BOOLEAN
    /\ Spawned \cap Callables = {} /\ Threads \cap Fibers = {}
    /\ None \notin Posters \cup Slots \cup {"heap"}

VARIABLES
    free,         \* _work_slots: the slots whose bit is set
    heapCount,    \* _work_heap_overflow
    item,         \* the slot ("heap" for a heap item) that holds each callable
    workList,     \* _work_list, last push first
    poolWait,     \* _pool_wait_head .. _pool_wait_tail
    call,         \* the post() each poster is in
    outcome,      \* how the post() of each callable ended
    ran,          \* how often each callable was started
    state,        \* Fiber::state
    expired,      \* the posters whose timeout has passed
    readyQueue,   \* the ready fibers, in order
    current,      \* _current
    interrupted,  \* _interrupted
    quitting,     \* thread::quit() has woken the keep-alive fiber
    phase         \* where run() is

poolVars == <<free, heapCount, item, workList>>
postVars == <<call, outcome, expired>>
fiberVars == <<state, readyQueue, current, poolWait>>
loopVars == <<interrupted, quitting, phase>>
vars == <<poolVars, postVars, fiberVars, loopVars, ran>>

Items == Slots \cup {"heap", None}
NoCall == [fn |-> None, policy |-> "none", at |-> "none"]
Steps == {"claim", "budget", "rollback", "wait", "spin", "push"}

TypeOK ==
    /\ free \subseteq Slots
    /\ heapCount \in 0 .. HeapLimit + Cardinality(Posters)
    /\ item \in [Callables -> Items]
    /\ workList \in Seq(Callables)
    /\ poolWait \in Seq(Fibers)
    /\ call \in [Posters -> [fn : Callables, policy : Policies, at : Steps] \cup {NoCall}]
    /\ outcome \in [Callables -> {"none", "posted", "exhausted", "shutdown"}]
    /\ ran \in [Callables -> 0..2]
    /\ state \in [Fibers -> {"New", "Ready", "Running", "Sleeping", "Recyclable"}]
    /\ expired \subseteq Posters
    /\ readyQueue \in Seq(Fibers)
    /\ current \in Fibers \cup {None}
    /\ interrupted \in BOOLEAN
    /\ quitting \in BOOLEAN
    /\ phase \in {"drain", "pick", "redrain", "repick", "fiber", "idle", "exited"}

Init ==
    /\ free = Slots
    /\ heapCount = 0
    /\ item = [c \in Callables |-> None]
    /\ workList = <<>>
    /\ poolWait = <<>>
    /\ call = [x \in Posters |-> NoCall]
    /\ outcome = [c \in Callables |-> "none"]
    /\ ran = [c \in Callables |-> 0]
    /\ state = [f \in Fibers |-> IF f \in Spawned THEN "Ready" ELSE "New"]
    /\ expired = {}
    /\ readyQueue = SetToSeq(Spawned)
    /\ current = None
    /\ interrupted = FALSE
    /\ quitting = FALSE
    /\ phase = "drain"

-----------------------------------------------------------------------------
(* post().                                                                 *)

Runs(x) == x \in Threads \/ (phase = "fiber" /\ current = x)

At(x, step) == Runs(x) /\ call[x].at = step

ToPost(x) == {c \in Callables : PostedBy[c] = x /\ outcome[c] = "none"}

(* A post() of x has thrown, and x may not have caught it. *)
Thrown(x) == \E c \in Callables : PostedBy[c] = x /\ outcome[c] \in {"exhausted", "shutdown"}

GoTo(x, step) == call' = [call EXCEPT ![x].at = step]

(* post() returns, or throws. *)
End(x, how) ==
    /\ call' = [call EXCEPT ![x] = NoCall]
    /\ outcome' = [outcome EXCEPT ![call[x].fn] = how]

(* try_pool(): the lowest free bit; which one it is makes no difference. *)
Claim(x, s) ==
    /\ s \in free
    /\ free' = free \ {s}
    /\ item' = [item EXCEPT ![call[x].fn] = s]

StartPost(x) ==
    /\ Runs(x)
    /\ call[x] = NoCall
    /\ \E c \in ToPost(x), p \in Policies :
          call' = [call EXCEPT ![x] = [fn |-> c, policy |-> p, at |-> "claim"]]
    /\ UNCHANGED <<poolVars, outcome, expired, fiberVars, loopVars, ran>>

(* The first try_pool(), and the overflow policy when it fails. *)
TryPool(x) ==
    /\ At(x, "claim")
    /\ \/ \E s \in free : Claim(x, s) /\ GoTo(x, "push") /\ UNCHANGED outcome
       \/ /\ free = {}
          /\ IF call[x].policy = "fail" THEN End(x, "exhausted")
             ELSE GoTo(x, "budget") /\ UNCHANGED outcome
          /\ UNCHANGED <<free, item>>
    /\ UNCHANGED <<heapCount, workList, expired, fiberVars, loopVars, ran>>

WithinLimit(prev) == prev < HeapLimit

(* try_increment(): the counter is raised before it is compared ... *)
TryIncrement(x) ==
    /\ At(x, "budget")
    /\ heapCount' = heapCount + 1
    /\ IF WithinLimit(heapCount)
       THEN GoTo(x, "push") /\ item' = [item EXCEPT ![call[x].fn] = "heap"]
       ELSE GoTo(x, "rollback") /\ UNCHANGED item
    /\ UNCHANGED <<free, workList, outcome, expired, fiberVars, loopVars, ran>>

(* Mutant: a failed increment is not taken back. *)
Lowered_Kept == heapCount

Lowered == heapCount - 1

(* A fiber of this scheduler that blocks joins the wait list and sleeps.   *)
WaitForSlot(x) ==
    /\ poolWait' = Append(poolWait, x)
    /\ state' = [state EXCEPT ![x] = "Sleeping"]
    /\ current' = None
    /\ phase' = "drain"
    /\ GoTo(x, "wait")
    /\ UNCHANGED <<outcome, readyQueue>>

(* ... and lowered again when it is over the limit; then the policy says   *)
(* whether to give up or to wait, a thread by spinning.                    *)
Rollback(x) ==
    /\ At(x, "rollback")
    /\ heapCount' = Lowered
    /\ expired' = expired \ {x}
    /\ \/ /\ call[x].policy = "heap"
          /\ End(x, "exhausted")
          /\ UNCHANGED <<fiberVars, phase>>
       \/ /\ call[x].policy = "block" /\ x \in Threads
          /\ GoTo(x, "spin")
          /\ UNCHANGED <<outcome, fiberVars, phase>>
       \/ /\ call[x].policy = "block" /\ x \in Fibers
          /\ WaitForSlot(x)
    /\ UNCHANGED <<free, item, workList, interrupted, quitting, ran>>

(* One turn of a thread's spin: a slot, or the deadline. *)
Spin(x) ==
    /\ At(x, "spin")
    /\ \/ \E s \in free : Claim(x, s) /\ GoTo(x, "push") /\ UNCHANGED outcome
       \/ /\ free = {} /\ x \in expired
          /\ End(x, "exhausted")
          /\ UNCHANGED <<free, item>>
    /\ UNCHANGED <<heapCount, workList, expired, fiberVars, loopVars, ran>>

removeFromPoolWait(f) == SelectSeq(poolWait, LAMBDA g : g # f)

(* The wait is over, by a slot, the timer or the shutdown; the latter      *)
(* leaves the fiber on the wait list.                                      *)
AfterWait(f) ==
    /\ At(f, "wait")
    /\ IF interrupted
       THEN End(f, "shutdown") /\ UNCHANGED <<free, item, poolWait>>
       ELSE /\ poolWait' = removeFromPoolWait(f)
            /\ \/ \E s \in free : Claim(f, s) /\ GoTo(f, "push") /\ UNCHANGED outcome
               \/ free = {} /\ End(f, "exhausted") /\ UNCHANGED <<free, item>>
    /\ UNCHANGED <<heapCount, workList, expired, state, readyQueue, current, loopVars, ran>>

(* place_callable_in_item() and the push on the work list. *)
PushWork(x) ==
    /\ At(x, "push")
    /\ workList' = <<call[x].fn>> \o workList
    /\ End(x, "posted")
    /\ UNCHANGED <<free, heapCount, item, expired, fiberVars, loopVars, ran>>

Post(x) ==
    \/ StartPost(x) \/ TryPool(x) \/ TryIncrement(x) \/ Rollback(x)
    \/ Spin(x) \/ AfterWait(x) \/ PushWork(x)

-----------------------------------------------------------------------------
(* A work item's fiber, when its callable has ended.                       *)

Sleeping(f) == state[f] = "Sleeping"

(* Mutant: a freed slot wakes nobody. *)
wakePoolWaiter_Never(st) == state' = st /\ UNCHANGED <<poolWait, readyQueue>>

(* wakePoolWaiter(): the waiters whose timer has fired already are dropped *)
(* from the list, the first one that sleeps is made ready.                 *)
wakePoolWaiter(st) ==
    LET asleep == {i \in DOMAIN poolWait : Sleeping(poolWait[i])}
    IN  IF asleep = {}
        THEN poolWait' = <<>> /\ state' = st /\ UNCHANGED readyQueue
        ELSE LET i == CHOOSE j \in asleep : \A k \in asleep : j <= k
             IN  /\ poolWait' = SubSeq(poolWait, i + 1, Len(poolWait))
                 /\ state' = [st EXCEPT ![poolWait[i]] = "Ready"]
                 /\ readyQueue' = Append(readyQueue, poolWait[i])

(* The item goes back to the pool or the heap; a slot wakes a waiter. *)
EndItem(c) ==
    /\ Runs(c) /\ call[c] = NoCall
    /\ ToPost(c) = {} \/ Thrown(c)
    /\ item' = [item EXCEPT ![c] = None]
    /\ current' = None
    /\ phase' = "drain"
    /\ IF item[c] = "heap"
       THEN /\ heapCount' = heapCount - 1
            /\ state' = [state EXCEPT ![c] = "Recyclable"]
            /\ UNCHANGED <<free, poolWait, readyQueue>>
       ELSE /\ free' = free \cup {item[c]}
            /\ wakePoolWaiter([state EXCEPT ![c] = "Recyclable"])
            /\ UNCHANGED heapCount
    /\ UNCHANGED <<workList, postVars, interrupted, quitting, ran>>

(* A fiber that is no work item ends, after its posts or by an exception. *)
EndFiber(f) ==
    /\ Runs(f) /\ call[f] = NoCall
    /\ ToPost(f) = {} \/ Thrown(f)
    /\ state' = [state EXCEPT ![f] = "Recyclable"]
    /\ current' = None
    /\ phase' = "drain"
    /\ UNCHANGED <<poolVars, postVars, poolWait, readyQueue, interrupted, quitting, ran>>

-----------------------------------------------------------------------------
(* run(), as far as work items are concerned.                              *)

Drained == <<>>

(* Mutant: only the last item pushed gets its fiber. *)
Batch_HeadOnly == IF workList = <<>> THEN <<>> ELSE <<Head(workList)>>

Batch == Reverse(workList)

(* drainWorkList(): a fiber for each item, in the order of the pushes. *)
drainWorkList ==
    /\ phase \in {"drain", "redrain"}
    /\ workList' = Drained
    /\ state' = [f \in Fibers |-> IF f \in ToSet(Batch) THEN "Ready" ELSE state[f]]
    /\ readyQueue' = readyQueue \o Batch
    /\ phase' = IF phase = "drain" THEN "pick" ELSE "repick"
    /\ UNCHANGED <<free, heapCount, item, postVars, current, poolWait, interrupted, quitting, ran>>

(* The next fiber; a work item's fiber starts its callable. *)
Resume ==
    /\ phase \in {"pick", "repick"}
    /\ readyQueue # <<>>
    /\ LET f == Head(readyQueue)
       IN  /\ current' = f
           /\ state' = [state EXCEPT ![f] = "Running"]
           /\ ran' = IF f \in Callables /\ call[f] = NoCall
                     THEN [ran EXCEPT ![f] = @ + 1] ELSE ran
    /\ readyQueue' = Tail(readyQueue)
    /\ phase' = "fiber"
    /\ UNCHANGED <<poolVars, postVars, poolWait, interrupted, quitting>>

MakeReady(S) ==
    /\ state' = [f \in Fibers |-> IF f \in S THEN "Ready" ELSE state[f]]
    /\ readyQueue' = readyQueue \o SetToSeq(S)

(* Mutant: expired timers are not looked at. *)
TimersFired_None == {}

TimersFired == {f \in Fibers : state[f] = "Sleeping" /\ f \in expired}

(* pollAndUnblock(): the sleepers whose time has come. *)
Poll ==
    /\ phase = "pick" /\ readyQueue = <<>>
    /\ MakeReady(TimersFired)
    /\ phase' = "redrain"
    /\ UNCHANGED <<poolVars, postVars, current, poolWait, interrupted, quitting, ran>>

NothingReady ==
    /\ phase = "repick" /\ readyQueue = <<>>
    /\ phase' = "idle"
    /\ UNCHANGED <<poolVars, postVars, fiberVars, interrupted, quitting, ran>>

Asleep == {f \in Fibers : state[f] = "Sleeping"}

ScanResumes == Asleep

(* No fiber is alive but the keep-alive one, which ends with quit(), or a  *)
(* stop was requested: the suspended fibers are resumed to unwind, and     *)
(* run() returns when there are none.  Otherwise the loop polls.           *)
Idle ==
    LET alive == ~quitting \/ \E f \in Fibers : state[f] \notin {"New", "Recyclable"}
        stop  == interrupted \/ ~alive
    IN  /\ phase = "idle"
        /\ interrupted' = stop
        /\ MakeReady(IF stop THEN ScanResumes ELSE {})
        /\ phase' = IF stop /\ ScanResumes = {} THEN "exited" ELSE "drain"
        /\ UNCHANGED <<poolVars, postVars, current, poolWait, quitting, ran>>

Loop == drainWorkList \/ Resume \/ Poll \/ NothingReady \/ Idle

-----------------------------------------------------------------------------
(* The environment.                                                        *)

(* The timeout of a waiting poster passes. *)
Expire(x) ==
    /\ call[x].at \in {"wait", "spin"}
    /\ x \notin expired
    /\ expired' = expired \cup {x}
    /\ UNCHANGED <<poolVars, call, outcome, fiberVars, loopVars, ran>>

interrupt ==
    /\ MayStop /\ ~interrupted
    /\ interrupted' = TRUE
    /\ UNCHANGED <<poolVars, postVars, fiberVars, quitting, phase, ran>>

(* thread::quit(): the keep-alive fiber is woken and ends. *)
quit ==
    /\ ~quitting
    /\ quitting' = TRUE
    /\ UNCHANGED <<poolVars, postVars, fiberVars, interrupted, phase, ran>>

(* The thread of the scheduler: the loop, or the fiber it has resumed. *)
SchedulerThread ==
    \/ Loop
    \/ \E f \in Fibers : Post(f)
    \/ \E c \in Callables : EndItem(c)
    \/ \E f \in Spawned : EndFiber(f)

TimePasses == \E x \in Posters : Expire(x)

Next ==
    \/ SchedulerThread
    \/ \E t \in Threads : Post(t)
    \/ TimePasses
    \/ interrupt
    \/ quit

(* Every thread runs and time passes; nobody has to post or to quit. *)
Fairness ==
    /\ WF_vars(SchedulerThread)
    /\ \A t \in Threads : WF_vars(Post(t) /\ call[t] # NoCall)
    /\ WF_vars(TimePasses)

Spec == Init /\ [][Next]_vars /\ Fairness

-----------------------------------------------------------------------------
(* Properties.                                                             *)

HeapItems == {c \in Callables : item[c] = "heap"}

(* bitset_pool: "No double-claim", "No lost slots"; bounded_counter: "The  *)
(* counter value equals the number of live items".  Every slot is free or  *)
(* holds one callable, and the heap counter is the number of heap items    *)
(* and of increments about to be taken back, through refusals, timeouts    *)
(* and shutdowns.  "No over-allocation occurs", however many posters raise *)
(* the counter at once.                                                    *)
ItemsAccountedFor ==
    /\ TypeOK
    /\ \A s \in Slots :
          Cardinality({c \in Callables : item[c] = s}) = IF s \in free THEN 0 ELSE 1
    /\ heapCount = Cardinality(HeapItems) + Cardinality({x \in Posters : call[x].at = "rollback"})
    /\ Cardinality(HeapItems) <= HeapLimit

WokenWaiters == {f \in Fibers : call[f].at = "wait" /\ state[f] # "Sleeping"}

(* While a fiber sleeps for a slot, no slot is free that another, woken    *)
(* waiter is not about to take: expired, dropped and shut down entries of  *)
(* the wait list never swallow the wake of one that still waits.           *)
FreedSlotIsOffered ==
    Asleep # {} /\ ~interrupted => Cardinality(free) <= Cardinality(WokenWaiters)

(* Every post() returns or throws: a slot, the timer or the shutdown ends  *)
(* every wait, even that of a callable that holds the last slot itself.  A *)
(* stop request, or quit(), ends run(), and with it every fiber that waits *)
(* for a slot.                                                             *)
EveryPostEnds ==
    /\ <>[](\A x \in Posters : call[x] = NoCall)
    /\ interrupted \/ quitting ~> phase = "exited" /\ \A f \in Fibers : state[f] # "Sleeping"

(* A callable whose post() returned runs once, unless run() returned       *)
(* first, and no other callable runs.                                      *)
PostedRuns ==
    /\ []\A c \in Callables : ran[c] <= IF outcome[c] = "posted" THEN 1 ELSE 0
    /\ <>[](phase = "exited" \/ \A c \in Callables : outcome[c] = "posted" => ran[c] = 1)
=============================================================================
