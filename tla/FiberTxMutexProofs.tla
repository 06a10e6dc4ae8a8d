-------------------------- MODULE FiberTxMutexProofs -------------------------
(***************************************************************************)
(* Proofs about fiber_tx_mutex, for any number of transactions, mutexes    *)
(* and threads, any lock orders and any set of schedulers that shut down.  *)
(***************************************************************************)
EXTENDS FiberTxMutex, FiberSchedProofs

InQueue(f, m) == \E i \in 1..Len(waitq[m]) : waitq[m][i] = f

(* About to park, or parked and not yet made ready. *)
Suspended(f) == pc[f] = "queued" \/ (pc[f] = "parked" /\ fstate[f] = "Parked")

(* What a transaction's place in the code says of its scheduling state. *)
PcOf(f) ==
    /\ pc[f] \in {"queued", "abort", "commit", "unwind"} => fstate[f] = "Running"
    /\ pc[f] \in {"run", "check"} => fstate[f] \in {"Ready", "Running"}
    /\ pc[f] = "done" => fstate[f] = "Recyclable"
    /\ pc[f] \in {"queued", "parked"} => Wants(f)
    /\ pc[f] = "unwind" => interrupted[Home[f]]
    /\ pc[f] = "done" => held[f] = 0

PcInv == \A f \in Fibers : PcOf(f)

(* The holders are the owners, with their own timestamps. *)
OwnerInv ==
    /\ \A f \in Fibers : \A i \in 1..held[f] : owner[Order[f][i]] = f
    /\ \A m \in Mutexes :
          ownerTs[m] = (IF owner[m] = NoFiber THEN 0 ELSE Timestamp[owner[m]])

(* A fiber is queued once, for the mutex it wants, and while it is queued  *)
(* it is suspended; only a shutdown leaves a fiber behind in a queue.      *)
Queued(f, m) ==
    /\ pc[f] \in {"queued", "parked", "unwind", "done"}
    /\ pc[f] = "done" => interrupted[Home[f]]
    /\ ~interrupted[Home[f]] => Suspended(f) /\ m = NextMutex(f) /\ f \notin wakeList[Home[f]]

QueueInv ==
    \A m \in Mutexes :
        /\ \A i, j \in 1..Len(waitq[m]) : waitq[m][i] = waitq[m][j] => i = j
        /\ \A f \in Fibers : InQueue(f, m) => Queued(f, m)

(* A fiber is woken, and comes back from its park, only as the owner of    *)
(* the mutex it wants, unless its scheduler shuts down.                    *)
HandoffOf(f) ==
    ~interrupted[Home[f]] =>
        /\ f \in wakeList[Home[f]] => Suspended(f) /\ owner[NextMutex(f)] = f
        /\ pc[f] = "parked" /\ fstate[f] # "Parked" => owner[NextMutex(f)] = f

HandoffInv == \A f \in Fibers : HandoffOf(f)

IInv == TypeOK /\ SchedInv /\ PcInv /\ OwnerInv /\ QueueInv /\ HandoffInv

-----------------------------------------------------------------------------
(* What an append to, and a removal from the head of, a queue change. *)
LEMMA AppendFacts ==
    ASSUME NEW S, NEW q \in Seq(S), NEW e \in S
    PROVE  /\ Append(q, e) \in Seq(S)
           /\ Len(Append(q, e)) = Len(q) + 1
           /\ \A i \in 1..Len(q) : Append(q, e)[i] = q[i]
           /\ Append(q, e)[Len(q) + 1] = e
  OBVIOUS

(* The removal of a queue's head keeps the rest, in order. *)
LEMMA TailFacts ==
    ASSUME NEW S, NEW q \in Seq(S), q # <<>>
    PROVE  /\ Head(q) \in S
           /\ Head(q) = q[1]
           /\ Len(q) \in Nat \ {0}
           /\ Tail(q) \in Seq(S)
           /\ Len(Tail(q)) = Len(q) - 1
           /\ \A i \in 1..(Len(q) - 1) : Tail(q)[i] = q[i + 1]
  OBVIOUS

(* A transaction locks mutexes of the specification. *)
LEMMA OrderFacts ==
    ASSUME TypeOK, NEW f \in Fibers
    PROVE  /\ \A i \in 1..held[f] : Order[f][i] \in Mutexes
           /\ Wants(f) => NextMutex(f) \in Mutexes /\ \A i \in 1..held[f] : Order[f][i] # NextMutex(f)
           /\ held[f] > 0 => Order[f][held[f]] \in Mutexes
           /\ held[f] \in Nat /\ Len(Order[f]) \in Nat
<1> USE TxAssumption DEF TypeOK, Wants, NextMutex
<1>1. held[f] \in Nat /\ Len(Order[f]) \in Nat /\ held[f] <= Len(Order[f])
  OBVIOUS
<1>2. \A i \in 1..Len(Order[f]) : Order[f][i] \in Mutexes
  OBVIOUS
<1>3. ASSUME Wants(f)
      PROVE  NextMutex(f) \in Mutexes /\ \A i \in 1..held[f] : Order[f][i] # NextMutex(f)
  <2>1. held[f] + 1 \in 1..Len(Order[f])
    BY <1>1, <1>3
  <2>2. ASSUME NEW i \in 1..held[f]
        PROVE  i \in 1..Len(Order[f]) /\ i # held[f] + 1
    BY <1>1
  <2>3. QED
    BY <1>2, <2>1, <2>2
<1>4. \A i \in 1..held[f] : i \in 1..Len(Order[f])
  BY <1>1
<1>5. QED
  BY <1>1, <1>2, <1>3, <1>4

(* A step of a running fiber that changes nothing but its own fields and   *)
(* its wound flag preserves IInv when it preserves what IInv says of that  *)
(* fiber.                                                                  *)
LEMMA OwnStepInductive ==
    ASSUME IInv, NEW f \in Fibers, SchedTypeOK', SchedInv',
           UNCHANGED <<owner, ownerTs, waitq, wakeList, interrupted>>,
           wounded' \in [Fibers -> BOOLEAN], pc' \in [Fibers -> Pcs],
           held' \in [Fibers -> Nat], held'[f] <= Len(Order[f]),
           \A g \in Fibers \ {f} : pc'[g] = pc[g] /\ held'[g] = held[g] /\ fstate'[g] = fstate[g],
           PcOf(f)', HandoffOf(f)',
           \A i \in 1..held'[f] : owner[Order[f][i]] = f,
           \A m \in Mutexes : InQueue(f, m) => Queued(f, m)'
    PROVE  IInv'
<1>1. TypeOK /\ PcInv /\ OwnerInv /\ QueueInv /\ HandoffInv
  BY DEF IInv
<1>2. /\ owner' = owner /\ ownerTs' = ownerTs /\ waitq' = waitq
      /\ wakeList' = wakeList /\ interrupted' = interrupted
  OBVIOUS
<1>3. ASSUME NEW g \in Fibers, g # f
      PROVE  pc'[g] = pc[g] /\ held'[g] = held[g] /\ fstate'[g] = fstate[g]
  BY <1>3
<1>4. TypeOK'
  <2>1. \A g \in Fibers : held[g] <= Len(Order[g])
    BY <1>1 DEF TypeOK
  <2>2. \A g \in Fibers : held'[g] <= Len(Order[g])
    BY <1>3, <2>1
  <2>3. QED
    BY <1>1, <1>2, <2>2 DEF TypeOK
<1>5. ASSUME NEW g \in Fibers
      PROVE  PcOf(g)' /\ HandoffOf(g)'
  <2>1. CASE g = f
    BY <2>1
  <2>2. CASE g # f
    BY ONLY <1>1, <1>2, <1>3, <1>5, <2>2
       DEF PcInv, PcOf, HandoffInv, HandoffOf, Suspended, NextMutex, Wants
  <2>3. QED
    BY ONLY <2>1, <2>2
<1>6. OwnerInv'
  <2>1. ASSUME NEW g \in Fibers, NEW i \in 1..held'[g]
        PROVE  owner[Order[g][i]] = g
    <3>1. CASE g = f
      BY <2>1, <3>1
    <3>2. CASE g # f
      BY ONLY <1>1, <1>3, <2>1, <3>2 DEF OwnerInv
    <3>3. QED
      BY ONLY <3>1, <3>2
  <2>2. QED
    BY ONLY <1>1, <1>2, <2>1 DEF OwnerInv
<1>7. ASSUME NEW g \in Fibers, NEW m \in Mutexes, InQueue(g, m)
      PROVE  Queued(g, m)'
  <2>1. CASE g = f
    BY <1>7, <2>1
  <2>2. CASE g # f
    BY ONLY <1>1, <1>2, <1>3, <1>7, <2>2 DEF QueueInv, Queued, Suspended, NextMutex
  <2>3. QED
    BY ONLY <2>1, <2>2
<1>8. QueueInv'
  BY ONLY <1>1, <1>2, <1>7 DEF QueueInv, InQueue
<1>9. QED
  BY <1>4, <1>5, <1>6, <1>8 DEF IInv, PcInv, HandoffInv

(* The same for a step that also keeps what the fiber holds and moves it   *)
(* to another place in the code.                                           *)
LEMMA GotoInductive ==
    ASSUME IInv, NEW f \in Fibers, NEW l \in Pcs, Goto(f, l), SchedTypeOK', SchedInv',
           UNCHANGED <<owner, ownerTs, waitq, wakeList, interrupted, held>>,
           wounded' \in [Fibers -> BOOLEAN],
           \A g \in Fibers \ {f} : fstate'[g] = fstate[g],
           PcOf(f)', HandoffOf(f)',
           \A m \in Mutexes : InQueue(f, m) => Queued(f, m)'
    PROVE  IInv'
<1>1. TypeOK /\ OwnerInv
  BY DEF IInv
<1>2. /\ held' \in [Fibers -> Nat] /\ held'[f] <= Len(Order[f])
      /\ \A g \in Fibers \ {f} : held'[g] = held[g]
      /\ \A i \in 1..held'[f] : owner[Order[f][i]] = f
  BY <1>1 DEF TypeOK, OwnerInv
<1>3. pc' \in [Fibers -> Pcs] /\ \A g \in Fibers \ {f} : pc'[g] = pc[g]
  BY <1>1 DEF TypeOK, Goto
<1>4. QED
  BY <1>2, <1>3, OwnStepInductive

(* lock()'s park preserves IInv. *)
LEMMA LockParkInductive ==
    ASSUME IInv, NEW f \in Fibers, LockPark(f)
    PROVE  IInv'
<1>1. TypeOK /\ SchedTypeOK /\ SchedInv /\ PcInv /\ QueueInv /\ HandoffInv
  BY DEF IInv, TypeOK
<1>2. SchedTypeOK' /\ SchedInv'
  BY <1>1, SwitchOutPreserves DEF LockPark, ParkCurrent
<1>3. /\ owner' = owner /\ ownerTs' = ownerTs /\ waitq' = waitq /\ held' = held
      /\ wakeList' = wakeList /\ interrupted' = interrupted
      /\ \A g \in Fibers \ {f} : fstate'[g] = fstate[g]
  BY <1>1 DEF LockPark, schedVars, SchedTypeOK, ParkCurrent, SwitchOut
<1>4. wounded' \in [Fibers -> BOOLEAN]
  BY <1>1 DEF LockPark, TypeOK
<1>5. Goto(f, "parked") /\ "parked" \in Pcs
  BY DEF LockPark, Pcs
<1>6. /\ pc[f] = "queued" /\ pc'[f] = "parked"
      /\ fstate[f] = "Running" /\ fstate'[f] = "Parked"
  BY <1>1, <1>5 DEF LockPark, ParkCurrent, SwitchOut, Goto, schedVars, SchedInv, SchedTypeOK, TypeOK
<1>7. PcOf(f)'
  BY ONLY <1>1, <1>3, <1>6, f \in Fibers DEF PcInv, PcOf, Wants
<1>8. HandoffOf(f)'
  BY ONLY <1>1, <1>3, <1>6, f \in Fibers DEF HandoffInv, HandoffOf, Suspended, NextMutex
<1>9. \A m \in Mutexes : InQueue(f, m) => Queued(f, m)'
  BY ONLY <1>1, <1>3, <1>6, f \in Fibers DEF QueueInv, Queued, Suspended, NextMutex
<1>10. QED
  BY <1>2, <1>3, <1>4, <1>5, <1>6, <1>7, <1>8, <1>9, GotoInductive

(* The return of lock() with the mutex preserves IInv. *)
LEMMA LockReturnInductive ==
    ASSUME IInv, NEW f \in Fibers, LockReturn(f)
    PROVE  IInv'
<1>1. TypeOK /\ SchedTypeOK /\ SchedInv /\ PcInv /\ OwnerInv /\ QueueInv /\ HandoffInv
  BY DEF IInv, TypeOK
<1>2. SchedTypeOK' /\ SchedInv'
  BY <1>1 DEF LockReturn, schedVars, SchedInv, SchedTypeOK, Executing
<1>3. /\ owner' = owner /\ ownerTs' = ownerTs /\ waitq' = waitq /\ wounded' = wounded
      /\ wakeList' = wakeList /\ interrupted' = interrupted /\ fstate' = fstate
      /\ held' = [held EXCEPT ![f] = @ + 1] /\ pc' = [pc EXCEPT ![f] = "run"]
      /\ pc[f] = "parked" /\ ~interrupted[Home[f]]
  BY DEF LockReturn, At, Goto, ThrowsShutdown, schedVars
<1>4. fstate[f] = "Running"
  BY <1>1 DEF LockReturn, At, SchedInv
<1>5. /\ pc' \in [Fibers -> Pcs] /\ pc'[f] = "run"
      /\ held' \in [Fibers -> Nat] /\ held'[f] = held[f] + 1 /\ held[f] \in Nat
      /\ \A g \in Fibers \ {f} : pc'[g] = pc[g] /\ held'[g] = held[g]
  BY <1>1, <1>3 DEF TypeOK, Pcs
<1>6. held'[f] <= Len(Order[f])
  <2>1. Wants(f)
    BY <1>1, <1>3 DEF PcInv, PcOf
  <2>2. Len(Order[f]) \in Nat
    BY <1>1, OrderFacts
  <2>3. QED
    BY ONLY <1>5, <2>1, <2>2 DEF Wants
<1>7. ASSUME NEW i \in 1..held'[f]
      PROVE  owner[Order[f][i]] = f
  <2>1. CASE i = held[f] + 1
    BY <1>1, <1>3, <1>4, <2>1 DEF HandoffInv, HandoffOf, NextMutex
  <2>2. CASE i # held[f] + 1
    <3>1. i \in 1..held[f]
      BY ONLY <1>5, <1>7, <2>2
    <3>2. QED
      BY <1>1, <3>1 DEF OwnerInv
  <2>3. QED
    BY ONLY <2>1, <2>2
<1>8. PcOf(f)'
  BY ONLY <1>3, <1>4, <1>5 DEF PcOf
<1>9. ~Suspended(f)
  BY <1>3, <1>4 DEF Suspended
<1>10. HandoffOf(f)'
  BY ONLY <1>1, <1>3, <1>5, <1>9, f \in Fibers DEF HandoffInv, HandoffOf
<1>11. \A m \in Mutexes : ~InQueue(f, m)
  BY <1>1, <1>3, <1>9 DEF QueueInv, Queued
<1>12. wounded' \in [Fibers -> BOOLEAN]
  BY <1>1, <1>3 DEF TypeOK
<1>13. QED
  BY <1>2, <1>3, <1>5, <1>6, <1>7, <1>8, <1>10, <1>11, <1>12, OwnStepInductive

(* The end of lock() by shutdown_exception preserves IInv. *)
LEMMA LockShutdownInductive ==
    ASSUME IInv, NEW f \in Fibers, LockShutdown(f)
    PROVE  IInv'
<1>1. TypeOK /\ SchedTypeOK /\ SchedInv /\ PcInv /\ QueueInv /\ HandoffInv
  BY DEF IInv, TypeOK
<1>2. SchedTypeOK' /\ SchedInv'
  BY <1>1 DEF LockShutdown, schedVars, SchedInv, SchedTypeOK, Executing
<1>3. /\ owner' = owner /\ ownerTs' = ownerTs /\ waitq' = waitq /\ held' = held
      /\ wakeList' = wakeList /\ interrupted' = interrupted
      /\ \A g \in Fibers \ {f} : fstate'[g] = fstate[g]
  BY <1>1 DEF LockShutdown, schedVars, SchedTypeOK
<1>4. wounded' \in [Fibers -> BOOLEAN]
  BY <1>1 DEF LockShutdown, TypeOK
<1>5. Goto(f, "unwind") /\ "unwind" \in Pcs
  BY DEF LockShutdown, Pcs
<1>6. /\ pc[f] = "parked" /\ interrupted[Home[f]] /\ pc'[f] = "unwind"
      /\ fstate[f] = "Running" /\ fstate'[f] = "Running"
  BY <1>1, <1>5 DEF LockShutdown, At, ThrowsShutdown, Goto, schedVars, SchedInv, SchedTypeOK, TypeOK
<1>7. PcOf(f)'
  BY ONLY <1>1, <1>3, <1>6, f \in Fibers DEF PcInv, PcOf, Wants
<1>8. HandoffOf(f)'
  BY ONLY <1>1, <1>3, <1>6, f \in Fibers DEF HandoffInv, HandoffOf, Suspended, NextMutex
<1>9. \A m \in Mutexes : InQueue(f, m) => Queued(f, m)'
  BY ONLY <1>1, <1>3, <1>6, f \in Fibers DEF QueueInv, Queued, Suspended, NextMutex
<1>10. QED
  BY <1>2, <1>3, <1>4, <1>5, <1>6, <1>7, <1>8, <1>9, GotoInductive

(* The client's yield preserves IInv. *)
LEMMA YieldInductive ==
    ASSUME IInv, NEW f \in Fibers, Yield(f)
    PROVE  IInv'
<1>1. TypeOK /\ SchedTypeOK /\ SchedInv /\ PcInv /\ QueueInv /\ HandoffInv
  BY DEF IInv, TypeOK
<1>2. SchedTypeOK' /\ SchedInv'
  BY <1>1, SwitchOutPreserves DEF Yield, YieldCurrent
<1>3. /\ owner' = owner /\ ownerTs' = ownerTs /\ waitq' = waitq /\ held' = held
      /\ wakeList' = wakeList /\ interrupted' = interrupted
      /\ \A g \in Fibers \ {f} : fstate'[g] = fstate[g]
  BY <1>1 DEF Yield, schedVars, SchedTypeOK, YieldCurrent, SwitchOut
<1>4. wounded' \in [Fibers -> BOOLEAN]
  BY <1>1 DEF Yield, TypeOK
<1>5. Goto(f, "check") /\ "check" \in Pcs
  BY DEF Yield, Pcs
<1>6. /\ pc[f] = "run" /\ pc'[f] = "check"
      /\ fstate[f] = "Running" /\ fstate'[f] = "Ready"
  BY <1>1, <1>5 DEF Yield, YieldCurrent, SwitchOut, Goto, schedVars, SchedInv, SchedTypeOK, TypeOK
<1>7. PcOf(f)'
  BY ONLY <1>1, <1>3, <1>6, f \in Fibers DEF PcInv, PcOf, Wants
<1>8. HandoffOf(f)'
  BY ONLY <1>1, <1>3, <1>6, f \in Fibers DEF HandoffInv, HandoffOf, Suspended, NextMutex
<1>9. \A m \in Mutexes : InQueue(f, m) => Queued(f, m)'
  BY ONLY <1>1, <1>3, <1>6, f \in Fibers DEF QueueInv, Queued, Suspended, NextMutex
<1>10. QED
  BY <1>2, <1>3, <1>4, <1>5, <1>6, <1>7, <1>8, <1>9, GotoInductive

(* check_wounded() preserves IInv. *)
LEMMA CheckWoundedInductive ==
    ASSUME IInv, NEW f \in Fibers, CheckWounded(f)
    PROVE  IInv'
<1>1. TypeOK /\ SchedTypeOK /\ SchedInv /\ PcInv /\ QueueInv /\ HandoffInv
  BY DEF IInv, TypeOK
<1>2. SchedTypeOK' /\ SchedInv'
  BY <1>1 DEF CheckWounded, schedVars, SchedInv, SchedTypeOK, Executing
<1>3. /\ owner' = owner /\ ownerTs' = ownerTs /\ waitq' = waitq /\ held' = held
      /\ wakeList' = wakeList /\ interrupted' = interrupted
      /\ \A g \in Fibers \ {f} : fstate'[g] = fstate[g]
  BY <1>1 DEF CheckWounded, schedVars, SchedTypeOK
<1>4. wounded' \in [Fibers -> BOOLEAN]
  BY <1>1 DEF CheckWounded, TypeOK
<1>5. PICK l \in {"unwind", "abort", "run"} : Goto(f, l) /\ (l = "unwind" => interrupted[Home[f]])
  BY DEF CheckWounded, ThrowsShutdown
<1>6. pc[f] = "check" /\ fstate[f] = "Running" /\ fstate'[f] = "Running" /\ pc'[f] = l /\ l \in Pcs
  BY <1>1, <1>5 DEF CheckWounded, At, Goto, schedVars, SchedInv, TypeOK, Pcs
<1>7. PcOf(f)'
  BY ONLY <1>1, <1>3, <1>5, <1>6, f \in Fibers DEF PcInv, PcOf, Wants
<1>8. HandoffOf(f)'
  BY ONLY <1>1, <1>3, <1>5, <1>6, f \in Fibers DEF HandoffInv, HandoffOf, Suspended, NextMutex
<1>9. \A m \in Mutexes : InQueue(f, m) => Queued(f, m)'
  BY ONLY <1>1, <1>3, <1>5, <1>6, f \in Fibers DEF QueueInv, Queued, Suspended, NextMutex
<1>10. QED
  BY <1>2, <1>3, <1>4, <1>5, <1>6, <1>7, <1>8, <1>9, GotoInductive

(* The client's commit preserves IInv. *)
LEMMA CommitInductive ==
    ASSUME IInv, NEW f \in Fibers, Commit(f)
    PROVE  IInv'
<1>1. TypeOK /\ SchedTypeOK /\ SchedInv /\ PcInv /\ QueueInv /\ HandoffInv
  BY DEF IInv, TypeOK
<1>2. SchedTypeOK' /\ SchedInv'
  BY <1>1 DEF Commit, schedVars, SchedInv, SchedTypeOK, Executing
<1>3. /\ owner' = owner /\ ownerTs' = ownerTs /\ waitq' = waitq /\ held' = held
      /\ wakeList' = wakeList /\ interrupted' = interrupted
      /\ \A g \in Fibers \ {f} : fstate'[g] = fstate[g]
  BY <1>1 DEF Commit, schedVars, SchedTypeOK
<1>4. wounded' \in [Fibers -> BOOLEAN]
  BY <1>1 DEF Commit, TypeOK
<1>5. Goto(f, "commit") /\ "commit" \in Pcs
  BY DEF Commit, Pcs
<1>6. /\ pc[f] = "run" /\ pc'[f] = "commit"
      /\ fstate[f] = "Running" /\ fstate'[f] = "Running"
  BY <1>1, <1>5 DEF Commit, At, Goto, schedVars, SchedInv, SchedTypeOK, TypeOK
<1>7. PcOf(f)'
  BY ONLY <1>1, <1>3, <1>6, f \in Fibers DEF PcInv, PcOf, Wants
<1>8. HandoffOf(f)'
  BY ONLY <1>1, <1>3, <1>6, f \in Fibers DEF HandoffInv, HandoffOf, Suspended, NextMutex
<1>9. \A m \in Mutexes : InQueue(f, m) => Queued(f, m)'
  BY ONLY <1>1, <1>3, <1>6, f \in Fibers DEF QueueInv, Queued, Suspended, NextMutex
<1>10. QED
  BY <1>2, <1>3, <1>4, <1>5, <1>6, <1>7, <1>8, <1>9, GotoInductive

(* The client's retry preserves IInv. *)
LEMMA RetryInductive ==
    ASSUME IInv, NEW f \in Fibers, Retry(f)
    PROVE  IInv'
<1>1. TypeOK /\ SchedTypeOK /\ SchedInv /\ PcInv /\ QueueInv /\ HandoffInv
  BY DEF IInv, TypeOK
<1>2. SchedTypeOK' /\ SchedInv'
  BY <1>1 DEF Retry, schedVars, SchedInv, SchedTypeOK, Executing
<1>3. /\ owner' = owner /\ ownerTs' = ownerTs /\ waitq' = waitq /\ held' = held
      /\ wakeList' = wakeList /\ interrupted' = interrupted
      /\ \A g \in Fibers \ {f} : fstate'[g] = fstate[g]
  BY <1>1 DEF Retry, schedVars, SchedTypeOK
<1>4. wounded' \in [Fibers -> BOOLEAN]
  BY <1>1 DEF Retry, TypeOK
<1>5. Goto(f, "run") /\ "run" \in Pcs
  BY DEF Retry, Pcs
<1>6. /\ pc[f] = "abort" /\ pc'[f] = "run"
      /\ fstate[f] = "Running" /\ fstate'[f] = "Running"
  BY <1>1, <1>5 DEF Retry, At, Goto, schedVars, SchedInv, SchedTypeOK, TypeOK
<1>7. PcOf(f)'
  BY ONLY <1>1, <1>3, <1>6, f \in Fibers DEF PcInv, PcOf, Wants
<1>8. HandoffOf(f)'
  BY ONLY <1>1, <1>3, <1>6, f \in Fibers DEF HandoffInv, HandoffOf, Suspended, NextMutex
<1>9. \A m \in Mutexes : InQueue(f, m) => Queued(f, m)'
  BY ONLY <1>1, <1>3, <1>6, f \in Fibers DEF QueueInv, Queued, Suspended, NextMutex
<1>10. QED
  BY <1>2, <1>3, <1>4, <1>5, <1>6, <1>7, <1>8, <1>9, GotoInductive

(* The end of the transaction preserves IInv. *)
LEMMA FinishInductive ==
    ASSUME IInv, NEW f \in Fibers, Finish(f)
    PROVE  IInv'
<1>1. TypeOK /\ SchedTypeOK /\ SchedInv /\ PcInv /\ QueueInv /\ HandoffInv
  BY DEF IInv, TypeOK
<1>2. SchedTypeOK' /\ SchedInv'
  BY <1>1, SwitchOutPreserves DEF Finish, FinishCurrent
<1>3. /\ owner' = owner /\ ownerTs' = ownerTs /\ waitq' = waitq /\ held' = held
      /\ wakeList' = wakeList /\ interrupted' = interrupted
      /\ \A g \in Fibers \ {f} : fstate'[g] = fstate[g]
  BY <1>1 DEF Finish, schedVars, SchedTypeOK, FinishCurrent, SwitchOut
<1>4. wounded' \in [Fibers -> BOOLEAN]
  BY <1>1 DEF Finish, TypeOK
<1>5. Goto(f, "done") /\ "done" \in Pcs
  BY DEF Finish, Pcs
<1>6. /\ pc[f] \in {"commit", "unwind"} /\ held[f] = 0 /\ pc'[f] = "done"
      /\ fstate[f] = "Running" /\ fstate'[f] = "Recyclable"
  BY <1>1, <1>5 DEF Finish, FinishCurrent, SwitchOut, Goto, schedVars, SchedInv, SchedTypeOK, TypeOK
<1>7. PcOf(f)'
  BY ONLY <1>1, <1>3, <1>6, f \in Fibers DEF PcInv, PcOf, Wants
<1>8. HandoffOf(f)'
  BY ONLY <1>1, <1>3, <1>6, f \in Fibers DEF HandoffInv, HandoffOf, Suspended, NextMutex
<1>9. \A m \in Mutexes : InQueue(f, m) => Queued(f, m)'
  BY ONLY <1>1, <1>3, <1>6, f \in Fibers DEF QueueInv, Queued, Suspended, NextMutex
<1>10. QED
  BY <1>2, <1>3, <1>4, <1>5, <1>6, <1>7, <1>8, <1>9, GotoInductive

(* What a step of the event loop does to a fiber: a running fiber keeps    *)
(* running, nobody joins a wake list, and without an interrupt a parked    *)
(* fiber is made ready only by leaving its wake list.                      *)
LoopStepKeeps(g) ==
    /\ fstate[g] \in {"Running", "Recyclable"} => fstate'[g] = fstate[g]
    /\ fstate[g] = "Ready" => fstate'[g] \in {"Ready", "Running"}
    /\ g \in wakeList'[Home[g]] => g \in wakeList[Home[g]]
    /\ interrupted[Home[g]] => interrupted'[Home[g]]
    /\ ~interrupted'[Home[g]] /\ fstate[g] = "Parked" =>
          \/ fstate'[g] = "Parked"
          \/ g \in wakeList[Home[g]] /\ g \notin wakeList'[Home[g]]

(* drainWakeList(), interrupt(), the shutdown scan and resuming a fiber.   *)
LEMMA LoopStepFacts ==
    ASSUME SchedTypeOK, SchedInv, SchedStep, NEW g \in Fibers
    PROVE  LoopStepKeeps(g)
<1> USE SchedAssumption DEF SchedTypeOK
<1>1. ASSUME NEW s \in Scheds, drainWakeList(s)
      PROVE  LoopStepKeeps(g)
  <2>1. /\ fstate'[g] = IF g \in wakeList[s] /\ fstate[g] = "Parked" THEN "Ready" ELSE fstate[g]
        /\ wakeList'[Home[g]] = IF Home[g] = s THEN {} ELSE wakeList[Home[g]]
        /\ interrupted' = interrupted
    BY <1>1 DEF drainWakeList, MakeReady
  <2>2. g \in wakeList[s] => Home[g] = s
    BY DEF SchedInv
  <2>3. QED
    BY <2>1, <2>2 DEF LoopStepKeeps
<1>2. ASSUME NEW s \in Scheds, Interrupt(s)
      PROVE  LoopStepKeeps(g)
  BY <1>2 DEF Interrupt, LoopStepKeeps
<1>3. ASSUME NEW s \in Scheds, ShutdownScan(s)
      PROVE  LoopStepKeeps(g)
  <2>1. /\ interrupted[s] /\ wakeList' = wakeList /\ interrupted' = interrupted
        /\ fstate'[g] = IF Home[g] = s /\ fstate[g] \in SuspendedStates THEN "Ready"
                        ELSE fstate[g]
    BY <1>3 DEF ShutdownScan, MakeReady, SuspendedOf, FibersOf
  <2>2. QED
    BY <2>1 DEF LoopStepKeeps, SuspendedStates
<1>4. ASSUME NEW f \in Fibers, Resume(f)
      PROVE  LoopStepKeeps(g)
  <2>1. /\ fstate[f] = "Ready" /\ wakeList' = wakeList /\ interrupted' = interrupted
        /\ fstate'[g] = IF g = f THEN "Running" ELSE fstate[g]
    BY <1>4 DEF Resume
  <2>2. QED
    BY <2>1 DEF LoopStepKeeps
<1>5. QED
  BY <1>1, <1>2, <1>3, <1>4 DEF SchedStep

(* A step of the event loop leaves the mutexes alone and preserves IInv.   *)
LEMMA SchedStepInductive ==
    ASSUME IInv, SchedStep, UNCHANGED txVars
    PROVE  IInv'
<1>1. TypeOK /\ SchedTypeOK /\ SchedInv /\ PcInv /\ OwnerInv /\ QueueInv /\ HandoffInv
  BY DEF IInv, TypeOK
<1>2. /\ owner' = owner /\ ownerTs' = ownerTs /\ waitq' = waitq
      /\ wounded' = wounded /\ held' = held /\ pc' = pc
  BY DEF txVars
<1>3. SchedTypeOK' /\ SchedInv'
  BY <1>1, SchedStepPreserves
<1>4. \A g \in Fibers : LoopStepKeeps(g)
  BY <1>1, LoopStepFacts
<1>5. TypeOK'
  BY ONLY <1>1, <1>2, <1>3 DEF TypeOK
<1>6. PcInv'
  <2>1. ASSUME NEW f \in Fibers
        PROVE  /\ pc[f] \in {"queued", "abort", "commit", "unwind"} => fstate'[f] = "Running"
               /\ pc[f] \in {"run", "check"} => fstate'[f] \in {"Ready", "Running"}
               /\ pc[f] = "done" => fstate'[f] = "Recyclable"
               /\ pc[f] = "unwind" => interrupted'[Home[f]]
    BY ONLY <1>1, <1>4 DEF PcInv, PcOf, LoopStepKeeps
  <2>2. QED
    BY ONLY <1>1, <1>2, <2>1 DEF PcInv, PcOf, Wants
<1>7. OwnerInv'
  BY ONLY <1>1, <1>2 DEF OwnerInv
<1>8. ASSUME NEW f \in Fibers, NEW m \in Mutexes, Queued(f, m)
      PROVE  Queued(f, m)'
  BY ONLY <1>2, <1>4, <1>8 DEF Queued, Suspended, NextMutex, LoopStepKeeps
<1>9. QueueInv'
  BY ONLY <1>1, <1>2, <1>8 DEF QueueInv, InQueue
<1>10. HandoffInv'
  <2>1. SUFFICES ASSUME NEW f \in Fibers, ~interrupted'[Home[f]]
                 PROVE  /\ f \in wakeList'[Home[f]] => Suspended(f)' /\ owner'[NextMutex(f)'] = f
                        /\ pc'[f] = "parked" /\ fstate'[f] # "Parked" => owner'[NextMutex(f)'] = f
    BY ONLY <2>1 DEF HandoffInv, HandoffOf
  <2>2. NextMutex(f)' = NextMutex(f)
    BY <1>2 DEF NextMutex
  <2>3. /\ f \in wakeList[Home[f]] => Suspended(f) /\ owner[NextMutex(f)] = f
        /\ pc[f] = "parked" /\ fstate[f] # "Parked" => owner[NextMutex(f)] = f
    BY <1>1, <1>4, <2>1 DEF HandoffInv, HandoffOf, LoopStepKeeps
  <2>4. QED
    BY ONLY <1>2, <1>4, <2>1, <2>2, <2>3 DEF Suspended, LoopStepKeeps
<1>11. QED
  BY <1>3, <1>5, <1>6, <1>7, <1>9, <1>10 DEF IInv

(* Taking a free mutex, by lock() or try_lock(), preserves IInv. *)
LEMMA TakeInductive ==
    ASSUME IInv, NEW f \in Fibers, NEW m \in Mutexes, Take(f, m),
           wounded' \in [Fibers -> BOOLEAN]
    PROVE  IInv'
<1>1. TypeOK /\ SchedTypeOK /\ SchedInv /\ PcInv /\ OwnerInv /\ QueueInv /\ HandoffInv
  BY DEF IInv, TypeOK
<1>2. /\ owner \in [Mutexes -> Fibers \cup {NoFiber}]
      /\ ownerTs \in [Mutexes -> {0} \cup {Timestamp[g] : g \in Fibers}]
      /\ held \in [Fibers -> Nat]
      /\ \A g \in Fibers : held[g] \in Nat /\ Len(Order[g]) \in Nat /\ held[g] <= Len(Order[g])
  BY <1>1, OrderFacts DEF TypeOK
<1>3. /\ pc[f] = "run" /\ Wants(f) /\ m = NextMutex(f) /\ owner[m] = NoFiber
      /\ owner' = [owner EXCEPT ![m] = f]
      /\ ownerTs' = [ownerTs EXCEPT ![m] = Timestamp[f]]
      /\ held' = [held EXCEPT ![f] = @ + 1]
      /\ fstate' = fstate /\ wakeList' = wakeList /\ current' = current
      /\ interrupted' = interrupted /\ waitq' = waitq /\ pc' = pc
  BY DEF Take, At, schedVars
<1>4. SchedTypeOK' /\ SchedInv'
  BY ONLY <1>1, <1>3 DEF SchedInv, SchedTypeOK, Executing
<1>5. /\ owner'[m] = f /\ ownerTs'[m] = Timestamp[f]
      /\ \A n \in Mutexes : n # m => owner'[n] = owner[n] /\ ownerTs'[n] = ownerTs[n]
  BY ONLY <1>2, <1>3, m \in Mutexes
<1>6. /\ held' \in [Fibers -> Nat] /\ held'[f] = held[f] + 1
      /\ \A g \in Fibers : g # f => held'[g] = held[g]
  BY ONLY <1>2, <1>3, f \in Fibers
<1>7. TypeOK'
  <2>1. \A g \in Fibers : held'[g] <= Len(Order[g])
    BY ONLY <1>2, <1>3, <1>6, f \in Fibers DEF Wants
  <2>2. owner' \in [Mutexes -> Fibers \cup {NoFiber}]
    BY ONLY <1>2, <1>3, f \in Fibers
  <2>3. ownerTs' \in [Mutexes -> {0} \cup {Timestamp[g] : g \in Fibers}]
    BY ONLY <1>2, <1>3, f \in Fibers
  <2>4. QED
    BY ONLY <1>1, <1>3, <1>4, <1>6, <2>1, <2>2, <2>3, wounded' \in [Fibers -> BOOLEAN] DEF TypeOK
<1>8. PcInv'
  <2>1. \A g \in Fibers : g # f => (Wants(g)' <=> Wants(g))
    BY ONLY <1>6 DEF Wants
  <2>2. QED
    BY ONLY <1>1, <1>3, <1>6, <2>1 DEF PcInv, PcOf
<1>9. OwnerInv'
  <2>1. ASSUME NEW g \in Fibers, NEW i \in 1..held'[g]
        PROVE  owner'[Order[g][i]] = g
    <3>1. CASE g = f /\ i = held[f] + 1
      BY ONLY <1>3, <1>5, <3>1 DEF NextMutex
    <3>2. CASE g # f \/ i # held[f] + 1
      <4>1. i \in 1..held[g]
        <5>1. CASE g = f
          BY ONLY <1>2, <1>6, <2>1, <3>2, <5>1
        <5>2. CASE g # f
          BY ONLY <1>6, <2>1, <5>2
        <5>3. QED
          BY ONLY <5>1, <5>2
      <4>2. owner[Order[g][i]] = g /\ Order[g][i] \in Mutexes
        BY <1>1, <4>1, OrderFacts DEF OwnerInv
      <4>3. Order[g][i] # m
        BY ONLY <1>3, <2>1, <4>2, SchedAssumption
      <4>4. QED
        BY ONLY <1>5, <4>2, <4>3
    <3>3. QED
      BY ONLY <3>1, <3>2
  <2>2. ASSUME NEW n \in Mutexes
        PROVE  ownerTs'[n] = (IF owner'[n] = NoFiber THEN 0 ELSE Timestamp[owner'[n]])
    <3>1. f # NoFiber
      BY SchedAssumption
    <3>2. QED
      BY ONLY <1>1, <1>5, <2>2, <3>1 DEF OwnerInv
  <2>3. QED
    BY ONLY <2>1, <2>2 DEF OwnerInv
<1>10. ASSUME NEW g \in Fibers, pc[g] \in {"queued", "parked"}
       PROVE  /\ g # f /\ NextMutex(g)' = NextMutex(g) /\ NextMutex(g) \in Mutexes
              /\ owner[NextMutex(g)] = g => owner'[NextMutex(g)] = g
  <2>1. g # f /\ Wants(g)
    BY ONLY <1>1, <1>3, <1>10 DEF PcInv, PcOf
  <2>2. NextMutex(g)' = NextMutex(g)
    BY ONLY <1>6, <1>10, <2>1 DEF NextMutex
  <2>3. NextMutex(g) \in Mutexes
    BY <1>1, <1>10, <2>1, OrderFacts
  <2>4. owner[NextMutex(g)] = g => NextMutex(g) # m
    BY <1>3, <1>10, SchedAssumption
  <2>5. QED
    BY ONLY <1>5, <2>1, <2>2, <2>3, <2>4
<1>11. QueueInv'
  <2>1. ASSUME NEW g \in Fibers, NEW n \in Mutexes, Queued(g, n)
        PROVE  Queued(g, n)'
    BY ONLY <1>3, <1>10, <2>1 DEF Queued, Suspended
  <2>2. QED
    BY ONLY <1>1, <1>3, <2>1 DEF QueueInv, InQueue
<1>12. HandoffInv'
  BY ONLY <1>1, <1>3, <1>10 DEF HandoffInv, HandoffOf, Suspended
<1>13. QED
  BY <1>4, <1>7, <1>8, <1>9, <1>11, <1>12 DEF IInv

(* Queueing for a held mutex, and the wound, preserve IInv. *)
LEMMA LockBusyInductive ==
    ASSUME IInv, NEW f \in Fibers, NEW m \in Mutexes, LockBusy(f, m)
    PROVE  IInv'
<1>0. TypeOK /\ SchedTypeOK /\ SchedInv /\ PcInv /\ OwnerInv /\ QueueInv /\ HandoffInv
  BY DEF IInv, TypeOK
<1>1. /\ waitq \in [Mutexes -> Seq(Fibers)] /\ wounded \in [Fibers -> BOOLEAN]
      /\ owner \in [Mutexes -> Fibers \cup {NoFiber}] /\ pc \in [Fibers -> Pcs]
  BY <1>0 DEF TypeOK
<1>2. /\ pc[f] = "run" /\ Wants(f) /\ m = NextMutex(f) /\ owner[m] # NoFiber
      /\ waitq' = [waitq EXCEPT ![m] = Append(waitq[m], f)]
      /\ wounded' = [wounded EXCEPT ![owner[m]] = @ \/ Timestamp[f] < ownerTs[m]]
      /\ fstate' = fstate /\ wakeList' = wakeList /\ current' = current
      /\ interrupted' = interrupted /\ owner' = owner /\ ownerTs' = ownerTs /\ held' = held
  BY DEF LockBusy, At, schedVars
<1>3. SchedTypeOK' /\ SchedInv'
  BY ONLY <1>0, <1>2 DEF SchedInv, SchedTypeOK, Executing
<1>4. fstate[f] = "Running"
  BY <1>0 DEF LockBusy, At, SchedInv
<1>5. pc' \in [Fibers -> Pcs] /\ pc'[f] = "queued" /\ \A g \in Fibers : g # f => pc'[g] = pc[g]
  BY <1>1 DEF LockBusy, Goto, Pcs
<1>6. \A g \in Fibers : NextMutex(g)' = NextMutex(g)
  BY ONLY <1>2 DEF NextMutex
<1>7. /\ pc[f] = "run" /\ fstate' = fstate /\ wakeList' = wakeList
      /\ interrupted' = interrupted /\ owner' = owner
  BY ONLY <1>2
<1>8. PICK k \in Nat : k = Len(waitq[m])
  BY <1>1
<1>9. /\ waitq' \in [Mutexes -> Seq(Fibers)]
      /\ Len(waitq'[m]) = k + 1
      /\ \A i \in 1..k : waitq'[m][i] = waitq[m][i]
      /\ waitq'[m][k + 1] = f
      /\ \A n \in Mutexes \ {m} : waitq'[n] = waitq[n]
  <2>1. /\ Append(waitq[m], f) \in Seq(Fibers)
        /\ Len(Append(waitq[m], f)) = k + 1
        /\ \A i \in 1..k : Append(waitq[m], f)[i] = waitq[m][i]
        /\ Append(waitq[m], f)[k + 1] = f
    BY <1>1, <1>8, AppendFacts
  <2>2. QED
    BY ONLY <1>1, <1>2, <2>1, m \in Mutexes
<1>10. TypeOK'
  <2>1. wounded' \in [Fibers -> BOOLEAN]
    <3>1. owner[m] \in Fibers
      BY ONLY <1>1, <1>2, m \in Mutexes
    <3>2. (wounded[owner[m]] \/ Timestamp[f] < ownerTs[m]) \in BOOLEAN
      OBVIOUS
    <3>3. QED
      BY ONLY <1>1, <1>2, <3>1, <3>2
  <2>2. QED
    BY ONLY <1>0, <1>2, <1>3, <1>5, <1>9, <2>1 DEF TypeOK
<1>11. PcInv'
  BY ONLY <1>0, <1>2, <1>4, <1>5, f \in Fibers DEF PcInv, PcOf, Wants
<1>12. OwnerInv'
  BY ONLY <1>0, <1>2 DEF OwnerInv
<1>13. QueueInv'
  <2>1. \A n \in Mutexes : ~InQueue(f, n)
    BY <1>0, <1>2 DEF QueueInv, Queued
  <2>2. ASSUME NEW n \in Mutexes, NEW g \in Fibers, InQueue(g, n)'
        PROVE  Queued(g, n)'
    <3>1. CASE g = f
      <4>1. n = m
        <5>1. SUFFICES ASSUME n # m
                       PROVE  FALSE
          OBVIOUS
        <5>2. waitq'[n] = waitq[n]
          BY ONLY <1>9, <5>1, n \in Mutexes
        <5>3. InQueue(f, n)
          BY ONLY <2>2, <3>1, <5>2 DEF InQueue
        <5>4. QED
          BY ONLY <2>1, <5>3, n \in Mutexes
      <4>2. ~interrupted[Home[f]] => f \notin wakeList[Home[f]]
        BY <1>0, <1>2 DEF HandoffInv, HandoffOf, Suspended
      <4>3. QED
        BY ONLY <1>2, <1>5, <3>1, <4>1, <4>2 DEF Queued, Suspended, NextMutex
    <3>2. CASE g # f
      <4>1. InQueue(g, n)
        <5>1. CASE n = m
          <6>1. PICK i \in 1..(k + 1) : waitq'[m][i] = g
            BY <1>9, <2>2, <5>1 DEF InQueue
          <6>2. i \in 1..k
            BY ONLY <1>9, <3>2, <6>1, k \in Nat
          <6>3. QED
            BY <1>8, <1>9, <5>1, <6>1, <6>2 DEF InQueue
        <5>2. CASE n # m
          BY <2>2, <1>9, <5>2 DEF InQueue
        <5>3. QED
          BY <5>1, <5>2
      <4>2. Queued(g, n)
        BY <1>0, <4>1 DEF QueueInv
      <4>3. QED
        BY ONLY <1>5, <1>6, <1>7, <3>2, <4>2, g \in Fibers DEF Queued, Suspended
    <3>3. QED
      BY ONLY <3>1, <3>2
  <2>3. ASSUME NEW n \in Mutexes, NEW i \in 1..Len(waitq'[n]), NEW j \in 1..Len(waitq'[n]),
               waitq'[n][i] = waitq'[n][j]
        PROVE  i = j
    <3>1. CASE n = m
      <4>1. \A l \in 1..k : waitq[m][l] # f
        BY <1>8, <2>1 DEF InQueue
      <4>2. \A a, b \in 1..k : waitq[m][a] = waitq[m][b] => a = b
        BY <1>0, <1>8 DEF QueueInv
      <4>3. (i \in 1..k \/ i = k + 1) /\ (j \in 1..k \/ j = k + 1)
        BY ONLY <1>9, <2>3, <3>1, k \in Nat
      <4>4. CASE i \in 1..k /\ j \in 1..k
        BY <1>9, <2>3, <3>1, <4>2, <4>4
      <4>5. CASE i \in 1..k /\ j = k + 1
        BY <1>9, <2>3, <3>1, <4>1, <4>5
      <4>6. CASE i = k + 1 /\ j \in 1..k
        BY <1>9, <2>3, <3>1, <4>1, <4>6
      <4>7. QED
        BY <4>3, <4>4, <4>5, <4>6
    <3>2. CASE n # m
      BY <1>0, <1>9, <2>3, <3>2 DEF QueueInv
    <3>3. QED
      BY ONLY <3>1, <3>2
  <2>4. QED
    BY <2>2, <2>3 DEF QueueInv
<1>14. HandoffInv'
  <2>1. ASSUME NEW g \in Fibers
        PROVE  HandoffOf(g)'
    <3>1. HandoffOf(g)
      BY <1>0 DEF HandoffInv
    <3>2. QED
      <4>1. CASE g = f
        BY ONLY <1>5, <1>6, <1>7, <3>1, <4>1, f \in Fibers DEF HandoffOf, Suspended
      <4>2. CASE g # f
        BY ONLY <1>5, <1>6, <1>7, <3>1, <4>2, g \in Fibers DEF HandoffOf, Suspended
      <4>3. QED
        BY ONLY <4>1, <4>2
  <2>2. QED
    BY ONLY <2>1 DEF HandoffInv
<1>15. QED
  BY <1>3, <1>10, <1>11, <1>12, <1>13, <1>14 DEF IInv

(* The same with the number of those who stay. *)
LEMMA HeadOff ==
    ASSUME NEW S, NEW q \in Seq(S), q # <<>>
    PROVE  \E k \in Nat :
              /\ Len(q) = k + 1 /\ Len(Tail(q)) = k /\ Tail(q) \in Seq(S)
              /\ \A i \in 1..k : Tail(q)[i] = q[i + 1] /\ i + 1 \in 1..Len(q)
<1>1. PICK k \in Nat : Len(q) = k + 1
  BY TailFacts
<1>2. Len(Tail(q)) = k /\ Tail(q) \in Seq(S) /\ \A i \in 1..k : Tail(q)[i] = q[i + 1]
  BY <1>1, TailFacts
<1>3. QED
  BY <1>1, <1>2

(* unlock() by the owner of a mutex preserves IInv, whether the client     *)
(* calls it or lock() does, on behalf of a wounded fiber.                  *)
LEMMA ReleaseInductive ==
    ASSUME IInv, NEW f \in Fibers, NEW m \in Mutexes, Release(m), UNCHANGED wounded,
           owner[m] = f, fstate[f] = "Running",
           pc[f] \in {"parked", "abort", "commit", "unwind"},
           pc[f] = "parked" => ~interrupted[Home[f]],
           pc' \in [Fibers -> Pcs], pc'[f] \in {"abort", "commit", "unwind"},
           pc[f] = "unwind" <=> pc'[f] = "unwind",
           held' \in [Fibers -> Nat], held'[f] <= held[f],
           \A i \in 1..held'[f] : Order[f][i] # m,
           \A g \in Fibers \ {f} : pc'[g] = pc[g] /\ held'[g] = held[g]
    PROVE  IInv'
<1>20. TypeOK /\ SchedTypeOK /\ SchedInv /\ PcInv /\ OwnerInv /\ QueueInv /\ HandoffInv
  BY DEF IInv, TypeOK
<1>21. /\ owner \in [Mutexes -> Fibers \cup {NoFiber}]
       /\ ownerTs \in [Mutexes -> {0} \cup {Timestamp[g] : g \in Fibers}]
       /\ waitq \in [Mutexes -> Seq(Fibers)]
       /\ wounded \in [Fibers -> BOOLEAN]
       /\ \A g \in Fibers : held[g] <= Len(Order[g])
  BY <1>20 DEF TypeOK
<1>0. \A g \in Fibers : held[g] \in Nat /\ Len(Order[g]) \in Nat
  BY <1>20, OrderFacts
<1>1. PICK h \in Fibers \cup {NoFiber} :
           h = (IF waitq[m] = <<>> THEN NoFiber ELSE Head(waitq[m]))
  <2>1. waitq[m] # <<>> => Head(waitq[m]) \in Fibers
    BY <1>21, TailFacts
  <2>2. QED
    BY <2>1
<1>2. ASSUME h = NoFiber
      PROVE  /\ owner' = [owner EXCEPT ![m] = NoFiber]
             /\ ownerTs' = [ownerTs EXCEPT ![m] = 0]
             /\ UNCHANGED <<schedVars, waitq>>
  <2>1. waitq[m] = <<>>
    <3>1. waitq[m] # <<>> => Head(waitq[m]) \in Fibers
      BY <1>21, TailFacts
    <3>2. QED
      BY <1>1, <1>2, <3>1, SchedAssumption
  <2>2. QED
    BY <2>1 DEF Release
<1>3. ASSUME h # NoFiber
      PROVE  /\ owner' = [owner EXCEPT ![m] = h]
             /\ ownerTs' = [ownerTs EXCEPT ![m] = Timestamp[h]]
             /\ waitq' = [waitq EXCEPT ![m] = Tail(waitq[m])]
             /\ Wake(h) /\ h \in Fibers
             /\ waitq[m] # <<>>
             /\ waitq[m][1] = h
             /\ InQueue(h, m)
  <2>1. waitq[m] # <<>> /\ h = Head(waitq[m])
    BY <1>1, <1>3
  <2>2. waitq[m][1] = h /\ 1 \in 1..Len(waitq[m])
    BY <1>21, <2>1, TailFacts
  <2>3. /\ owner' = [owner EXCEPT ![m] = h]
        /\ ownerTs' = [ownerTs EXCEPT ![m] = Timestamp[h]]
        /\ waitq' = [waitq EXCEPT ![m] = Tail(waitq[m])]
        /\ Wake(h)
    BY ONLY <2>1, Release(m) DEF Release, HandoffTimestamp
  <2>4. InQueue(h, m)
    BY ONLY <2>2 DEF InQueue
  <2>5. QED
    BY <1>3, <2>1, <2>2, <2>3, <2>4
<1>4. SchedTypeOK' /\ SchedInv' /\ UNCHANGED <<fstate, interrupted>>
  <2>1. CASE h = NoFiber
    <3>1. /\ fstate' = fstate /\ wakeList' = wakeList
          /\ current' = current /\ interrupted' = interrupted
      BY ONLY <1>2, <2>1 DEF schedVars
    <3>2. QED
      BY ONLY <1>20, <3>1 DEF SchedInv, SchedTypeOK, Executing
  <2>2. CASE h # NoFiber
    BY <1>20, <1>3, <2>2, WakePreserves DEF Wake
  <2>3. QED
    BY <2>1, <2>2
<1>5. PICK k \in Nat : h # NoFiber =>
          /\ Len(waitq[m]) = k + 1 /\ Len(waitq'[m]) = k /\ waitq'[m] \in Seq(Fibers)
          /\ \A i \in 1..k : waitq'[m][i] = waitq[m][i + 1] /\ i + 1 \in 1..Len(waitq[m])
  <2>1. CASE h = NoFiber
    BY <2>1
  <2>2. CASE h # NoFiber
    <3>1. waitq'[m] = Tail(waitq[m]) /\ waitq[m] # <<>> /\ waitq[m] \in Seq(Fibers)
      BY <1>3, <1>21, <2>2
    <3>2. QED
      <4>1. PICK k \in Nat :
                /\ Len(waitq[m]) = k + 1 /\ Len(Tail(waitq[m])) = k
                /\ Tail(waitq[m]) \in Seq(Fibers)
                /\ \A i \in 1..k : Tail(waitq[m])[i] = waitq[m][i + 1] /\ i + 1 \in 1..Len(waitq[m])
        BY ONLY <3>1, HeadOff
      <4>2. QED
        BY <3>1, <4>1
  <2>3. QED
    BY <2>1, <2>2
<1>6. \A n \in Mutexes, g \in Fibers : InQueue(g, n)' => InQueue(g, n)
  <2>1. ASSUME NEW n \in Mutexes, NEW g \in Fibers, NEW i \in 1..Len(waitq'[n]), waitq'[n][i] = g
        PROVE  InQueue(g, n)
    <3>1. CASE n = m /\ h # NoFiber
      <4>1. i + 1 \in 1..Len(waitq[m]) /\ waitq[m][i + 1] = g
        <5>1. i \in 1..k
          BY <1>5, <3>1
        <5>2. QED
          BY ONLY <1>5, <2>1, <3>1, <5>1
      <4>2. QED
        BY <3>1, <4>1 DEF InQueue
    <3>2. CASE n # m \/ h = NoFiber
      BY <1>2, <1>3, <1>21, <2>1, <3>2 DEF InQueue
    <3>3. QED
      BY ONLY <3>1, <3>2
  <2>2. QED
    BY <2>1 DEF InQueue
<1>7. \A n \in Mutexes : InQueue(f, n) => pc[f] = "unwind" /\ interrupted[Home[f]]
  BY <1>20 DEF PcInv, PcOf, QueueInv, Queued, Suspended
<1>8. TypeOK'
  <2>1. ASSUME NEW g \in Fibers
        PROVE  held'[g] <= Len(Order[g])
    <3>1. held'[g] \in Nat /\ held'[g] <= held[g]
      <4>1. CASE g = f
        BY <4>1
      <4>2. CASE g # f
        BY <4>2, <1>0
      <4>3. QED
        BY <4>1, <4>2
    <3>2. QED
      BY ONLY <1>0, <1>21, <3>1, g \in Fibers
  <2>2. /\ waitq' \in [Mutexes -> Seq(Fibers)]
        /\ owner' \in [Mutexes -> Fibers \cup {NoFiber}]
        /\ ownerTs' \in [Mutexes -> {0} \cup {Timestamp[g] : g \in Fibers}]
    <3>1. CASE h = NoFiber
      <4>1. /\ owner' = [owner EXCEPT ![m] = NoFiber]
            /\ ownerTs' = [ownerTs EXCEPT ![m] = 0]
            /\ waitq' = waitq
        BY <1>2, <3>1
      <4>2. QED
        BY ONLY <1>21, <4>1
    <3>2. CASE h # NoFiber
      <4>1. Tail(waitq[m]) \in Seq(Fibers)
        BY <1>21, <1>3, <3>2, TailFacts
      <4>2. waitq' \in [Mutexes -> Seq(Fibers)]
        <5>1. waitq' = [waitq EXCEPT ![m] = Tail(waitq[m])]
          BY <1>3, <3>2
        <5>2. QED
          BY ONLY <1>21, <4>1, <5>1
      <4>3. h \in Fibers /\ Timestamp[h] \in {Timestamp[g] : g \in Fibers}
        BY <1>3, <3>2
      <4>4. owner' = [owner EXCEPT ![m] = h] /\ ownerTs' = [ownerTs EXCEPT ![m] = Timestamp[h]]
        BY <1>3, <3>2
      <4>5. owner' \in [Mutexes -> Fibers \cup {NoFiber}]
        BY <1>21, <4>3, <4>4
      <4>6. ownerTs' \in [Mutexes -> {0} \cup {Timestamp[g] : g \in Fibers}]
        BY <1>21, <4>3, <4>4
      <4>7. QED
        BY <4>2, <4>5, <4>6
    <3>3. QED
      BY ONLY <3>1, <3>2
  <2>3. QED
    BY <1>4, <1>21, <2>1, <2>2 DEF TypeOK
<1>9. PcInv'
  BY <1>20, <1>0, <1>4 DEF PcInv, PcOf, Wants
<1>10. OwnerInv'
  <2>1. ASSUME NEW g \in Fibers, NEW i \in 1..held'[g]
        PROVE  owner'[Order[g][i]] = g
    <3>1. i \in 1..held[g]
      <4>1. CASE g = f
        BY <4>1, <1>0
      <4>2. CASE g # f
        BY <4>2
      <4>3. QED
        BY <4>1, <4>2
    <3>2. owner[Order[g][i]] = g /\ Order[g][i] \in Mutexes
      BY <1>20, <3>1, OrderFacts DEF OwnerInv
    <3>3. Order[g][i] # m
      <4>1. CASE g = f
        BY ONLY <2>1, <4>1, \A l \in 1..held'[f] : Order[f][l] # m
      <4>2. CASE g # f
        BY ONLY <3>2, <4>2, owner[m] = f
      <4>3. QED
        BY ONLY <4>1, <4>2
    <3>4. QED
      BY <1>2, <1>3, <1>21, <3>2, <3>3
  <2>2. ASSUME NEW n \in Mutexes
        PROVE  ownerTs'[n] = (IF owner'[n] = NoFiber THEN 0 ELSE Timestamp[owner'[n]])
    <3>1. CASE h = NoFiber
      <4>1. /\ owner'[m] = NoFiber /\ ownerTs'[m] = 0
            /\ n # m => owner'[n] = owner[n] /\ ownerTs'[n] = ownerTs[n]
        BY <1>2, <1>21, <3>1
      <4>2. QED
        BY <1>20, <4>1 DEF OwnerInv
    <3>2. CASE h # NoFiber
      <4>1. /\ owner'[m] = h /\ ownerTs'[m] = Timestamp[h]
            /\ n # m => owner'[n] = owner[n] /\ ownerTs'[n] = ownerTs[n]
        BY <1>3, <1>21, <3>2
      <4>2. QED
        BY <1>20, <3>2, <4>1 DEF OwnerInv
    <3>3. QED
      BY ONLY <3>1, <3>2
  <2>3. QED
    BY <1>20, <2>1, <2>2 DEF OwnerInv
<1>11. ASSUME h # NoFiber
       PROVE  ~InQueue(h, m)'
  <2>1. ASSUME NEW i \in 1..Len(waitq'[m])
        PROVE  waitq'[m][i] # h
    <3>1. i + 1 \in 1..Len(waitq[m]) /\ i + 1 # 1 /\ 1 \in 1..Len(waitq[m])
      <4>1. i \in 1..k
        BY <1>5, <1>11
      <4>2. i + 1 \in 1..Len(waitq[m])
        BY <1>5, <1>11, <4>1
      <4>3. Len(waitq[m]) = k + 1
        BY <1>5, <1>11
      <4>4. i + 1 # 1 /\ 1 \in 1..(k + 1)
        BY ONLY <4>1, k \in Nat
      <4>5. QED
        BY ONLY <4>2, <4>3, <4>4
    <3>2. waitq[m][i + 1] # waitq[m][1]
      BY <1>20, <3>1 DEF QueueInv
    <3>3. waitq'[m][i] = waitq[m][i + 1]
      BY <1>5, <1>11
    <3>4. QED
      BY <1>3, <1>11, <3>2, <3>3
  <2>2. QED
    BY <2>1 DEF InQueue
<1>12. ASSUME NEW g \in Fibers, g # f
       PROVE  /\ NextMutex(g)' = NextMutex(g) /\ (Suspended(g)' <=> Suspended(g))
              /\ pc'[g] = pc[g]
              /\ pc[g] \in {"queued", "parked"} => NextMutex(g) \in Mutexes
  BY <1>20, <1>4, <1>12, OrderFacts DEF NextMutex, Suspended, PcInv, PcOf
<1>13. ASSUME h # NoFiber, ~interrupted[Home[h]]
       PROVE  h # f /\ Suspended(h) /\ NextMutex(h) = m
  BY <1>20, <1>3, <1>7, <1>13 DEF QueueInv, Queued
<1>14. ASSUME NEW g \in Fibers, g \in wakeList'[Home[g]]
       PROVE  g \in wakeList[Home[g]] \/ g = h
  <2>1. CASE h = NoFiber
    BY <1>2, <1>14, <2>1 DEF schedVars
  <2>2. CASE h # NoFiber
    <3>1. wakeList' = [wakeList EXCEPT ![Home[h]] = @ \cup {h}]
      BY <1>3, <2>2 DEF Wake
    <3>2. QED
      BY <1>20, <1>14, <3>1, SchedAssumption DEF SchedTypeOK
  <2>3. QED
    BY <2>1, <2>2
<1>15. QueueInv'
  <2>1. ASSUME NEW n \in Mutexes, NEW g \in Fibers, InQueue(g, n)'
        PROVE  Queued(g, n)'
    <3>1. InQueue(g, n) /\ Queued(g, n)
      BY <1>20, <1>6, <2>1 DEF QueueInv
    <3>2. CASE g = f
      BY <1>4, <1>7, <3>1, <3>2 DEF Queued
    <3>3. CASE g # f
      <4>1. ASSUME ~interrupted[Home[g]]
            PROVE  g # h
        <5>1. n = NextMutex(g)
          BY <3>1, <4>1 DEF Queued
        <5>2. QED
          BY <1>11, <1>13, <2>1, <4>1, <5>1, SchedAssumption
      <4>2. QED
        BY <1>4, <1>12, <1>14, <3>1, <3>3, <4>1 DEF Queued
    <3>4. QED
      BY <3>2, <3>3
  <2>2. ASSUME NEW n \in Mutexes, NEW i \in 1..Len(waitq'[n]), NEW j \in 1..Len(waitq'[n]),
               waitq'[n][i] = waitq'[n][j]
        PROVE  i = j
    <3>1. CASE n = m /\ h # NoFiber
      <4>1. /\ i + 1 \in 1..Len(waitq[m]) /\ j + 1 \in 1..Len(waitq[m])
            /\ waitq[m][i + 1] = waitq[m][j + 1]
        <5>1. i \in 1..k /\ j \in 1..k
          BY <1>5, <3>1
        <5>2. QED
          BY ONLY <1>5, <2>2, <3>1, <5>1
      <4>2. i + 1 = j + 1
        BY <1>20, <4>1 DEF QueueInv
      <4>3. QED
        BY <4>2
    <3>2. CASE n # m \/ h = NoFiber
      <4>1. waitq'[n] = waitq[n]
        BY <1>2, <1>3, <1>21, <3>2
      <4>2. QED
        BY <1>20, <2>2, <4>1 DEF QueueInv
    <3>3. QED
      BY ONLY <3>1, <3>2
  <2>3. QED
    BY <1>20, <2>1, <2>2 DEF QueueInv
<1>18. owner'[m] = h /\ \A n \in Mutexes : n # m => owner'[n] = owner[n]
  <2>1. owner' = [owner EXCEPT ![m] = h]
    BY ONLY <1>2, <1>3
  <2>2. owner \in [Mutexes -> Fibers \cup {NoFiber}]
    BY <1>21
  <2>3. QED
    BY ONLY <2>1, <2>2, m \in Mutexes
<1>16. HandoffInv'
  <2>1. ASSUME NEW g \in Fibers, ~interrupted[Home[g]], g \in wakeList'[Home[g]]
        PROVE  Suspended(g)' /\ owner'[NextMutex(g)'] = g
    <3>1. CASE g = h
      <4>1. h # NoFiber
        BY ONLY <2>1, <3>1, SchedAssumption
      <4>2. g # f /\ Suspended(g) /\ NextMutex(g) = m
        BY ONLY <1>13, <2>1, <3>1, <4>1
      <4>3. Suspended(g)' /\ NextMutex(g)' = m
        BY ONLY <1>12, <2>1, <4>2
      <4>4. owner'[m] = g
        BY ONLY <1>18, <3>1
      <4>5. QED
        BY ONLY <4>3, <4>4
    <3>2. CASE g # h
      <4>1. Suspended(g) /\ owner[NextMutex(g)] = g
        BY <1>20, <1>14, <2>1, <3>2 DEF HandoffInv, HandoffOf
      <4>2. g # f
        BY <4>1 DEF Suspended
      <4>3. NextMutex(g) # m /\ NextMutex(g) \in Mutexes
        BY <1>12, <4>1, <4>2 DEF Suspended
      <4>4. QED
        <5>1. Suspended(g)' /\ NextMutex(g)' = NextMutex(g)
          BY ONLY <1>12, <2>1, <4>1, <4>2
        <5>2. owner'[NextMutex(g)] = g
          BY ONLY <1>18, <4>1, <4>3
        <5>3. QED
          BY ONLY <5>1, <5>2
    <3>3. QED
      BY ONLY <3>1, <3>2
  <2>2. ASSUME NEW g \in Fibers, ~interrupted[Home[g]], pc'[g] = "parked", fstate'[g] # "Parked"
        PROVE  owner'[NextMutex(g)'] = g
    <3>1. g # f
      BY <2>2
    <3>2. owner[NextMutex(g)] = g
      BY <1>20, <1>4, <1>12, <2>2, <3>1 DEF HandoffInv, HandoffOf
    <3>3. NextMutex(g) # m /\ NextMutex(g) \in Mutexes
      BY <1>12, <2>2, <3>1, <3>2
    <3>4. QED
      <4>1. NextMutex(g)' = NextMutex(g)
        BY ONLY <1>12, <2>2, <3>1
      <4>2. owner'[NextMutex(g)] = g
        BY ONLY <1>18, <3>2, <3>3
      <4>3. QED
        BY ONLY <4>1, <4>2
  <2>3. QED
    BY <1>20, <1>4, <2>1, <2>2 DEF HandoffInv, HandoffOf
<1>17. QED
  BY <1>4, <1>8, <1>9, <1>10, <1>15, <1>16 DEF IInv

(* A wounded fiber that comes back from its park owns what it releases. *)
LEMMA LockReturnWoundedInductive ==
    ASSUME IInv, NEW f \in Fibers, LockReturnWounded(f)
    PROVE  IInv'
<1> USE DEF IInv
<1>1. NextMutex(f) \in Mutexes /\ \A i \in 1..held[f] : Order[f][i] # NextMutex(f)
  BY OrderFacts DEF PcInv, PcOf, LockReturnWounded, At
<1>2. fstate[f] = "Running" /\ owner[NextMutex(f)] = f
  BY DEF SchedInv, HandoffInv, HandoffOf, LockReturnWounded, At, ThrowsShutdown
<1>3. pc' \in [Fibers -> Pcs] /\ held' = held /\ held \in [Fibers -> Nat]
  BY DEF LockReturnWounded, Goto, TypeOK, Pcs
<1>4. held'[f] <= held[f]
  BY <1>3
<1>5. /\ pc[f] = "parked" /\ ~interrupted[Home[f]] /\ pc'[f] = "abort"
      /\ \A g \in Fibers \ {f} : pc'[g] = pc[g]
      /\ UNCHANGED wounded
  BY DEF LockReturnWounded, At, Goto, ThrowsShutdown, TypeOK
<1>6. PICK m \in Mutexes : m = NextMutex(f)
  BY <1>1
<1>7. Release(m)
  BY <1>6 DEF LockReturnWounded
<1>8. QED
  BY ONLY IInv, f \in Fibers, <1>1, <1>2, <1>3, <1>4, <1>5, <1>6, <1>7, ReleaseInductive

(* The client unlocks what it owns. *)
LEMMA UnlockLastInductive ==
    ASSUME IInv, NEW f \in Fibers, UnlockLast(f)
    PROVE  IInv'
<1> USE DEF IInv
<1>1. PICK m \in Mutexes : m = Order[f][held[f]]
  BY OrderFacts DEF UnlockLast
<1>2. held[f] \in Nat /\ held[f] > 0 /\ held[f] <= Len(Order[f]) /\ Len(Order[f]) \in Nat
  BY OrderFacts DEF UnlockLast, TypeOK
<1>3. fstate[f] = "Running" /\ owner[m] = f
  <2>1. fstate[f] = "Running"
    BY DEF SchedInv, UnlockLast
  <2>2. held[f] \in 1..held[f]
    BY ONLY <1>2
  <2>3. \A i \in 1..held[f] : owner[Order[f][i]] = f
    BY DEF OwnerInv
  <2>4. QED
    BY ONLY <1>1, <2>1, <2>2, <2>3
<1>4. /\ held' \in [Fibers -> Nat] /\ held'[f] = held[f] - 1
      /\ \A g \in Fibers \ {f} : held'[g] = held[g]
  BY <1>2 DEF UnlockLast, TypeOK
<1>5. \A i \in 1..held'[f] : Order[f][i] # m
  <2>1. \A i, j \in 1..Len(Order[f]) : Order[f][i] = Order[f][j] => i = j
    BY TxAssumption
  <2>2. \A i \in 1..held'[f] : i \in 1..Len(Order[f]) /\ i # held[f]
    BY ONLY <1>2, <1>4
  <2>3. held[f] \in 1..Len(Order[f])
    BY ONLY <1>2
  <2>4. QED
    BY ONLY <1>1, <2>1, <2>2, <2>3
<1>6. held'[f] <= held[f] /\ pc' = pc /\ pc \in [Fibers -> Pcs]
  BY <1>2, <1>4 DEF UnlockLast, TypeOK
<1>7. /\ pc[f] \in {"abort", "commit", "unwind"} /\ Release(Order[f][held[f]])
      /\ UNCHANGED <<wounded, pc>>
  BY ONLY UnlockLast(f) DEF UnlockLast
<1>8. Release(m)
  BY ONLY <1>1, <1>7
<1>9. QED
  BY ONLY IInv, f \in Fibers, m \in Mutexes, <1>3, <1>4, <1>5, <1>6, <1>7, <1>8, ReleaseInductive

(* IInv is inductive. *)
LEMMA Inductive == IInv /\ [Next]_vars => IInv'
<1> SUFFICES ASSUME IInv, [Next]_vars
             PROVE  IInv'
  OBVIOUS
<1>1. ASSUME NEW f \in Fibers, NEW m \in Mutexes, LockFree(f, m) \/ TryLock(f, m)
      PROVE  IInv'
  <2>1. wounded' \in [Fibers -> BOOLEAN]
    <3>1. wounded \in [Fibers -> BOOLEAN]
      BY DEF IInv, TypeOK
    <3>2. wounded' = wounded \/ wounded' = [wounded EXCEPT ![f] = FALSE]
      BY ONLY <1>1 DEF LockFree, TryLock
    <3>3. QED
      BY ONLY <3>1, <3>2
  <2>2. QED
    <3>1. Take(f, m)
      BY ONLY <1>1 DEF LockFree, TryLock
    <3>2. QED
      BY ONLY IInv, f \in Fibers, m \in Mutexes, <2>1, <3>1, TakeInductive
<1>2. ASSUME NEW f \in Fibers, FiberStep(f)
      PROVE  IInv'
  BY <1>1, <1>2, LockBusyInductive, LockParkInductive, LockReturnInductive,
     LockReturnWoundedInductive, LockShutdownInductive, YieldInductive, CheckWoundedInductive,
     CommitInductive, UnlockLastInductive, RetryInductive, FinishInductive DEF FiberStep
<1>3. CASE SchedStep /\ UNCHANGED txVars
  BY <1>3, SchedStepInductive
<1>4. CASE UNCHANGED vars
  <2> USE <1>4 DEF vars, schedVars, txVars, IInv
  <2>1. TypeOK' /\ SchedInv'
    BY DEF TypeOK, SchedTypeOK, SchedInv, Executing
  <2>2. PcInv' /\ OwnerInv'
    BY DEF PcInv, PcOf, OwnerInv, Wants
  <2>3. QueueInv'
    BY DEF QueueInv, Queued, InQueue, Suspended, NextMutex
  <2>4. HandoffInv'
    BY DEF HandoffInv, HandoffOf, Suspended, NextMutex
  <2>5. QED
    BY <2>1, <2>2, <2>3, <2>4
<1>5. QED
  BY <1>2, <1>3, <1>4 DEF Next

(* Transactions that have locked nothing. *)
LEMMA InitIInv == Init => IInv
<1> SUFFICES ASSUME Init
             PROVE  IInv
  OBVIOUS
<1>1. SchedTypeOK /\ SchedInv
  BY SchedInitInv DEF Init
<1>2. /\ \A f \in Fibers : fstate[f] = "Ready" /\ pc[f] = "run" /\ held[f] = 0
      /\ \A s \in Scheds : wakeList[s] = {}
      /\ \A m \in Mutexes : owner[m] = NoFiber /\ ownerTs[m] = 0 /\ waitq[m] = <<>>
  BY DEF Init, SchedInit
<1>3. TypeOK
  <2>1. \A f \in Fibers : held[f] <= Len(Order[f])
    BY <1>2, TxAssumption
  <2>2. QED
    BY <1>1, <2>1 DEF Init, TypeOK, Pcs
<1>4. PcInv
  BY <1>2 DEF PcInv, PcOf
<1>5. OwnerInv
  BY <1>2 DEF OwnerInv
<1>6. QueueInv
  BY <1>2 DEF QueueInv, InQueue
<1>7. HandoffInv
  BY <1>2, SchedAssumption DEF HandoffInv, HandoffOf
<1>8. QED
  BY <1>1, <1>3, <1>4, <1>5, <1>6, <1>7 DEF IInv

(* IInv holds in every reachable state. *)
LEMMA InvariantHolds == Spec => []IInv
  BY InitIInv, Inductive, PTL DEF Spec

(* A transaction holds only mutexes it owns, so no two transactions hold   *)
(* the same one, and holder_timestamp() is the owner's: for any lock       *)
(* orders, and also while schedulers shut down.                            *)
THEOREM HoldersOwn == Spec => []OwnerAndTimestampAgree
<1>1. ASSUME IInv
      PROVE  OwnerAndTimestampAgree
  <2>1. TypeOK /\ OwnerInv
    BY <1>1 DEF IInv
  <2>2. ASSUME NEW f \in Fibers, NEW m \in Mutexes, Holds(f, m)
        PROVE  owner[m] = f
    BY <2>1, <2>2 DEF OwnerInv, Holds
  <2>3. \A m \in Mutexes :
          ownerTs[m] = (IF owner[m] = NoFiber THEN 0 ELSE Timestamp[owner[m]])
    BY <2>1 DEF OwnerInv
  <2>4. QED
    BY ONLY <2>1, <2>2, <2>3 DEF OwnerAndTimestampAgree
<1>2. QED
  BY <1>1, InvariantHolds, PTL
=============================================================================
