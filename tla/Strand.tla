------------------------------- MODULE Strand -------------------------------
(***************************************************************************)
(* psiber strands (src/libraries/psiber/src/strand.cpp, strand.hpp) with   *)
(* the parts of the run loop and of the reactor that carry them            *)
(* (scheduler.cpp, reactor.cpp).  A strand lets one of its fibers run at a *)
(* time; a fiber that suspends gives the strand up and queues for it again *)
(* when it is woken, possibly on another thread of the reactor.            *)
(*                                                                         *)
(* Each fiber runs one callable posted to its strand: it enters, works,    *)
(* parks and is woken, yields, or runs a function on another strand with   *)
(* sync(), and finishes.  A thread executes the fiber in current[t] until  *)
(* the switch back to its loop, whatever other threads do to the fiber's   *)
(* fields meanwhile.  Strand operations are one step each: their bodies    *)
(* are under _queue_lock.  Shutdown and the arena are not modelled.        *)
(***************************************************************************)
EXTENDS Naturals, Sequences

CONSTANTS
    Threads,
    Fibers,
    Strands,
    Posted,       \* the strand to which each fiber's callable was posted
    Spawned,      \* the fibers of the callables posted on each thread, in order
    Watched,      \* the strand of which FibersAreFifo speaks
    Pooled,       \* the strands that are bound to the reactor
    NoFiber,
    NoStrand

ASSUME StrandAssumption ==
    /\ Posted \in [Fibers -> Strands]
    /\ Spawned \in [Threads -> Seq(Fibers)]
    /\ \A f \in Fibers : \E t \in Threads : \E i \in DOMAIN Spawned[t] : Spawned[t][i] = f
    /\ \A t, u \in Threads : \A i \in DOMAIN Spawned[t], j \in DOMAIN Spawned[u] :
          Spawned[t][i] = Spawned[u][j] => t = u /\ i = j
    /\ Watched \in Strands
    /\ Pooled \subseteq Strands
    /\ NoFiber \notin Fibers
    /\ NoStrand \notin Strands

VARIABLES
    active,         \* _active of each strand
    waitq,          \* _wait_head .. _wait_tail
    readyStrands,   \* reactor::_ready_strands; _queued holds for its members
    state,          \* Fiber::state
    home,           \* Fiber::home_sched
    homeStrand,     \* Fiber::home_strand
    target,         \* the strand that the fiber is entering or in
    current,        \* the fiber that each thread executes
    switched,       \* the fiber that has just switched back to the loop
    ready,          \* the ready queue of each thread
    wakeList,       \* the wake list of each thread, first push first
    awaited,        \* the parked fibers that somebody is going to wake
    pc

strandVars == <<active, waitq, readyStrands>>
threadVars == <<current, switched, ready, wakeList>>
fiberVars == <<state, home, homeStrand, target, awaited, pc>>
vars == <<strandVars, threadVars, fiberVars>>

Pcs == {"enter", "queued", "waiting", "body", "reenter", "yielded", "parking",
        "asleep", "done"}

TypeOK ==
    /\ active \in [Strands -> Fibers \cup {NoFiber}]
    /\ waitq \in [Strands -> Seq(Fibers)]
    /\ readyStrands \in SUBSET Strands
    /\ state \in [Fibers -> {"Ready", "Running", "Parked", "Recyclable"}]
    /\ home \in [Fibers -> Threads]
    /\ homeStrand \in [Fibers -> Strands \cup {NoStrand}]
    /\ target \in [Fibers -> Strands]
    /\ current \in [Threads -> Fibers \cup {NoFiber}]
    /\ switched \in [Threads -> Fibers \cup {NoFiber}]
    /\ ready \in [Threads -> Seq(Fibers)]
    /\ wakeList \in [Threads -> Seq(Fibers)]
    /\ awaited \in SUBSET Fibers
    /\ pc \in [Fibers -> Pcs]

(* strand::post() has spawned the fibers, each on some thread. *)
Init ==
    /\ active = [s \in Strands |-> NoFiber]
    /\ waitq = [s \in Strands |-> <<>>]
    /\ readyStrands = {}
    /\ state = [f \in Fibers |-> "Ready"]
    /\ home = [f \in Fibers |-> CHOOSE t \in Threads : \E i \in DOMAIN Spawned[t] : Spawned[t][i] = f]
    /\ homeStrand = [f \in Fibers |-> NoStrand]
    /\ target = Posted
    /\ current = [t \in Threads |-> NoFiber]
    /\ switched = [t \in Threads |-> NoFiber]
    /\ ready = Spawned
    /\ wakeList = [t \in Threads |-> <<>>]
    /\ awaited = {}
    /\ pc = [f \in Fibers |-> "enter"]

-----------------------------------------------------------------------------
(* strand.cpp.                                                             *)

(* Mutant: a fiber that has to wait goes to the front. *)
AppendWaiter_Front(s, f) == waitq' = [waitq EXCEPT ![s] = <<f>> \o @]

AppendWaiter(s, f) == waitq' = [waitq EXCEPT ![s] = Append(@, f)]

(* enter() and enqueue(): become active, or wait. *)
BecomeActive(s, f) ==
    /\ active[s] = NoFiber
    /\ active' = [active EXCEPT ![s] = f]
    /\ UNCHANGED waitq

JoinQueue(s, f) ==
    /\ active[s] # NoFiber
    /\ AppendWaiter(s, f)
    /\ UNCHANGED active

(* The waiters that have not finished, by their place in the queue. *)
LiveWaiters(s) == {i \in DOMAIN waitq[s] : state[waitq[s][i]] # "Recyclable"}

(* The place of the waiter release() picks: finished ones are skipped, and *)
(* 0 stands for none.                                                      *)
NextWaiter(s) ==
    IF LiveWaiters(s) = {} THEN 0
    ELSE CHOOSE i \in LiveWaiters(s) : \A j \in LiveWaiters(s) : i <= j

ActiveAfterRelease(s) ==
    IF NextWaiter(s) = 0 THEN NoFiber ELSE waitq[s][NextWaiter(s)]

(* release(), and promoteStrandWaiter() on thread t for the fiber it       *)
(* returns.  st is the state of the fibers when it is called.              *)
ReleaseAndPromote(t, s, st) ==
    LET next == ActiveAfterRelease(s) IN
    /\ active' = [active EXCEPT ![s] = next]
    /\ waitq' = [waitq EXCEPT ![s] =
                    IF next = NoFiber THEN <<>> ELSE SubSeq(@, NextWaiter(s) + 1, Len(@))]
    /\ IF next = NoFiber
       THEN state' = st /\ UNCHANGED <<home, ready>>
       ELSE /\ state' = [st EXCEPT ![next] = "Ready"]
            /\ home' = [home EXCEPT ![next] = t]
            /\ ready' = [ready EXCEPT ![t] = Append(@, next)]

-----------------------------------------------------------------------------
(* The code of the fibers, on the thread that executes them.               *)

At(t, f, label) == current[t] = f /\ pc[f] = label

Goto(f, label) == pc' = [pc EXCEPT ![f] = label]

SwitchOut(t, f) ==
    /\ current' = [current EXCEPT ![t] = NoFiber]
    /\ switched' = [switched EXCEPT ![t] = f]

(* post() and sync(): enter() the target strand. *)
Enter(t, f) ==
    /\ At(t, f, "enter")
    /\ \/ /\ BecomeActive(target[f], f)
          /\ homeStrand' = [homeStrand EXCEPT ![f] = target[f]]
          /\ Goto(f, "body")
       \/ /\ JoinQueue(target[f], f)
          /\ Goto(f, "queued")
          /\ UNCHANGED homeStrand
    /\ UNCHANGED <<readyStrands, state, home, target, threadVars, awaited>>

(* Queued: park until the strand's turn comes. *)
EnterPark(t, f) ==
    /\ At(t, f, "queued")
    /\ state' = [state EXCEPT ![f] = "Parked"]
    /\ SwitchOut(t, f)
    /\ Goto(f, "waiting")
    /\ UNCHANGED <<strandVars, home, homeStrand, target, ready, wakeList, awaited>>

(* The park, the yield or the wait for the strand returns. *)
Return(t, f) ==
    /\ current[t] = f /\ pc[f] \in {"waiting", "yielded", "asleep"}
    /\ homeStrand' = [homeStrand EXCEPT ![f] = target[f]]
    /\ Goto(f, "body")
    /\ UNCHANGED <<strandVars, state, home, target, threadVars, awaited>>

(* yieldCurrentFiber(): give the strand up ... *)
YieldRelease(t, f) ==
    /\ At(t, f, "body")
    /\ homeStrand' = [homeStrand EXCEPT ![f] = NoStrand]
    /\ ReleaseAndPromote(t, target[f], state)
    /\ Goto(f, "reenter")
    /\ UNCHANGED <<readyStrands, target, current, switched, wakeList, awaited>>

(* ... and enter it again: nobody wants it, or queue. *)
YieldReenter(t, f) ==
    /\ At(t, f, "reenter")
    /\ \/ /\ BecomeActive(target[f], f)
          /\ homeStrand' = [homeStrand EXCEPT ![f] = target[f]]
          /\ state' = [state EXCEPT ![f] = "Ready"]
          /\ ready' = [ready EXCEPT ![t] = Append(@, f)]
          /\ SwitchOut(t, f)
          /\ Goto(f, "yielded")
       \/ /\ JoinQueue(target[f], f)
          /\ Goto(f, "queued")
          /\ UNCHANGED <<homeStrand, state, ready, current, switched>>
    /\ UNCHANGED <<readyStrands, home, target, wakeList, awaited>>

(* sync(): leave the strand for another one, or go back from it. *)
Sync(t, f) ==
    /\ At(t, f, "body")
    /\ homeStrand' = [homeStrand EXCEPT ![f] = NoStrand]
    /\ ReleaseAndPromote(t, target[f], state)
    /\ \E s \in Strands \ {target[f]} :
          /\ target[f] # Posted[f] => s = Posted[f]
          /\ target' = [target EXCEPT ![f] = s]
    /\ Goto(f, "enter")
    /\ UNCHANGED <<readyStrands, current, switched, wakeList, awaited>>

(* The callable makes itself known to a waker and parks. *)
Register(t, f) ==
    /\ At(t, f, "body")
    /\ awaited' = awaited \cup {f}
    /\ Goto(f, "parking")
    /\ UNCHANGED <<strandVars, threadVars, state, home, homeStrand, target>>

Park(t, f) ==
    /\ At(t, f, "parking")
    /\ state' = [state EXCEPT ![f] = "Parked"]
    /\ SwitchOut(t, f)
    /\ Goto(f, "asleep")
    /\ UNCHANGED <<strandVars, home, homeStrand, target, ready, wakeList, awaited>>

Finish(t, f) ==
    /\ At(t, f, "body")
    /\ target[f] = Posted[f]
    /\ state' = [state EXCEPT ![f] = "Recyclable"]
    /\ SwitchOut(t, f)
    /\ Goto(f, "done")
    /\ UNCHANGED <<strandVars, home, homeStrand, target, ready, wakeList, awaited>>

(* wake(), by anybody. *)
Wake(f) ==
    /\ f \in awaited
    /\ awaited' = awaited \ {f}
    /\ wakeList' = [wakeList EXCEPT ![home[f]] = Append(@, f)]
    /\ UNCHANGED <<strandVars, state, home, homeStrand, target, current, switched, ready, pc>>

-----------------------------------------------------------------------------
(* The run loop of a thread.                                               *)

InLoop(t) == current[t] = NoFiber /\ switched[t] = NoFiber

(* Mutant: a fiber that parks keeps its strand. *)
GivesUpStrand_Finished(f) ==
    homeStrand[f] # NoStrand /\ active[homeStrand[f]] = f /\ state[f] = "Recyclable"

(* The test before the release after a switch. *)
GivesUpStrand(f) ==
    /\ homeStrand[f] # NoStrand
    /\ active[homeStrand[f]] = f
    /\ state[f] \in {"Parked", "Recyclable"}

(* Back in the loop: a fiber that suspended or finished gives its strand   *)
(* to the next one.                                                        *)
AfterSwitch(t) ==
    LET f == switched[t] IN
    /\ f # NoFiber
    /\ switched' = [switched EXCEPT ![t] = NoFiber]
    /\ IF GivesUpStrand(f)
       THEN ReleaseAndPromote(t, homeStrand[f], state)
       ELSE UNCHANGED <<active, waitq, state, home, ready>>
    /\ UNCHANGED <<readyStrands, homeStrand, target, current, wakeList, awaited, pc>>

(* Mutant: a woken fiber whose strand is busy is dropped. *)
Drain_DropsIfBusy(t) ==
    LET f == Head(wakeList[t]) IN
    /\ InLoop(t)
    /\ wakeList[t] # <<>>
    /\ wakeList' = [wakeList EXCEPT ![t] = Tail(@)]
    /\ IF active[homeStrand[f]] = NoFiber
       THEN /\ BecomeActive(homeStrand[f], f)
            /\ readyStrands' = readyStrands \cup {homeStrand[f]}
       ELSE UNCHANGED strandVars
    /\ UNCHANGED <<state, ready, home, homeStrand, target, current, switched, awaited, pc>>

(* drainWakeList(), one fiber of the batch: it is routed through its       *)
(* strand; if it becomes active the reactor, or this thread, schedules it. *)
Drain(t) ==
    LET f == Head(wakeList[t]) IN
    /\ InLoop(t)
    /\ wakeList[t] # <<>>
    /\ wakeList' = [wakeList EXCEPT ![t] = Tail(@)]
    /\ IF state[f] # "Parked"
       THEN UNCHANGED <<strandVars, state, ready>>
       ELSE \/ /\ BecomeActive(homeStrand[f], f)
               /\ homeStrand[f] \in Pooled
               /\ readyStrands' = readyStrands \cup {homeStrand[f]}
               /\ UNCHANGED <<state, ready>>
            \/ /\ BecomeActive(homeStrand[f], f)
               /\ homeStrand[f] \notin Pooled
               /\ state' = [state EXCEPT ![f] = "Ready"]
               /\ ready' = [ready EXCEPT ![t] = Append(@, f)]
               /\ UNCHANGED readyStrands
            \/ /\ JoinQueue(homeStrand[f], f)
               /\ UNCHANGED <<readyStrands, state, ready>>
    /\ UNCHANGED <<home, homeStrand, target, current, switched, awaited, pc>>

(* The reactor pull: an idle thread takes a ready strand. *)
ReactorPull(t) ==
    /\ InLoop(t)
    /\ ready[t] = <<>> /\ wakeList[t] = <<>>
    /\ \E s \in readyStrands :
          /\ readyStrands' = readyStrands \ {s}
          /\ IF active[s] = NoFiber
             THEN UNCHANGED <<state, home, ready>>
             ELSE /\ state' = [state EXCEPT ![active[s]] = "Ready"]
                  /\ home' = [home EXCEPT ![active[s]] = t]
                  /\ ready' = [ready EXCEPT ![t] = Append(@, active[s])]
    /\ UNCHANGED <<active, waitq, homeStrand, target, current, switched, wakeList, awaited, pc>>

Resume(t) ==
    LET f == Head(ready[t]) IN
    /\ InLoop(t)
    /\ ready[t] # <<>>
    /\ ready' = [ready EXCEPT ![t] = Tail(@)]
    /\ current' = [current EXCEPT ![t] = f]
    /\ state' = [state EXCEPT ![f] = "Running"]
    /\ home' = [home EXCEPT ![f] = t]
    /\ UNCHANGED <<strandVars, homeStrand, target, switched, wakeList, awaited, pc>>

FiberStep(t, f) ==
    \/ Enter(t, f) \/ EnterPark(t, f) \/ Return(t, f)
    \/ YieldRelease(t, f) \/ YieldReenter(t, f) \/ Sync(t, f)
    \/ Register(t, f) \/ Park(t, f) \/ Finish(t, f)

Thread(t) ==
    \/ \E f \in Fibers : FiberStep(t, f)
    \/ AfterSwitch(t) \/ Drain(t) \/ ReactorPull(t) \/ Resume(t)

Next ==
    \/ \E t \in Threads : Thread(t)
    \/ \E f \in Fibers : Wake(f)

(* The threads run; a drain happens in every iteration; a parked callable  *)
(* is woken; no callable, nor a function it runs with sync(), goes on for  *)
(* ever.                                                                   *)
Fairness ==
    /\ \A t \in Threads : WF_vars(Thread(t)) /\ SF_vars(Drain(t))
    /\ \A f \in Fibers :
          /\ WF_vars(Wake(f))
          /\ SF_vars(\E t \in Threads : Finish(t, f))
          /\ SF_vars(\E t \in Threads : Sync(t, f) /\ target[f] # Posted[f])

Spec == Init /\ [][Next]_vars /\ Fairness

-----------------------------------------------------------------------------
(* Properties.                                                             *)

Inside(s) == {f \in Fibers : pc[f] \in {"body", "parking"} /\ target[f] = s}

(* The fiber that the strand has admitted and that is not back in its      *)
(* callable, then the queue.                                               *)
Queue(s) ==
    LET f == active[s] IN
    IF /\ f # NoFiber
       /\ pc[f] \in {"queued", "waiting", "yielded", "asleep"}
       /\ ~ \E t \in Threads : switched[t] = f /\ GivesUpStrand(f)
    THEN <<f>> \o waitq[s]
    ELSE waitq[s]

Ordered(q) ==
    {e \in Fibers \X Fibers : \E i, j \in DOMAIN q : i < j /\ e = <<q[i], q[j]>>}

Waiting(s) == {Queue(s)[i] : i \in DOMAIN Queue(s)}

(* What a step does to the line for strand s: nobody gets in while another *)
(* fiber has waited longer, nobody gets ahead of a fiber that waits, and a *)
(* fiber leaves the line only to get in.                                   *)
ServedInOrder(s) ==
    /\ \A f \in Inside(s)' \ Inside(s) : \A g \in Waiting(s) \ {f} : <<f, g>> \in Ordered(Queue(s))
    /\ \A f \in Waiting(s) \cap Waiting(s)' : \A g \in Fibers :
          <<g, f>> \in Ordered(Queue(s))' => <<g, f>> \in Ordered(Queue(s))
    /\ Waiting(s) \ Waiting(s)' \subseteq Inside(s)'

(* strand.hpp: "Fibers are FIFO within a strand."  They are served in the  *)
(* order in which they came: when they are posted, and again whenever they *)
(* parked, yielded or come back with sync().                               *)
FibersAreFifo == [][ServedInOrder(Watched)]_vars

(* Where the active fiber of strand s is held to be run: its places in the *)
(* ready queues, the threads that are executing it or about to give its    *)
(* strand up for it, and the reactor once it is asked to pull s.           *)
HoldersOf(s) ==
    LET f == active[s]
        places == UNION {{<<"ready", t, i>> : i \in {j \in DOMAIN ready[t] : ready[t][j] = f}} :
                            t \in Threads}
        running == {<<"running", t, 0>> :
                      t \in {u \in Threads : current[u] = f \/ (switched[u] = f /\ GivesUpStrand(f))}}
        reactor == IF s \in readyStrands THEN {<<"reactor", s, 0>>} ELSE {}
    IN  places \cup running \cup reactor

(* A fiber that a strand has admitted is executing, scheduled on exactly   *)
(* one thread, or in the care of the reactor: the strand never waits for a *)
(* fiber that nobody will resume, nor is one resumed twice.  And no other  *)
(* fiber is ready to go on, or running, in the strand's code (strand.hpp:  *)
(* "at most one fiber in Ready/Running state at a time"; a fiber that has  *)
(* yet to enter, or has just yielded and not parked, is not in it).        *)
ActiveIsScheduledOnce ==
    /\ TypeOK
    /\ \A s \in Strands : active[s] # NoFiber => \E h \in HoldersOf(s) : HoldersOf(s) = {h}
    /\ \A f \in Fibers :
          /\ pc[f] \in {"body", "parking", "yielded", "waiting", "asleep"}
          /\ state[f] \in {"Ready", "Running"}
          => active[target[f]] = f

(* Every posted callable runs to its end.                                  *)
EveryCallableFinishes == \A f \in Fibers : <>(pc[f] = "done")
=============================================================================
