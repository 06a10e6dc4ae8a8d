----------------------- MODULE FiberSharedMutexProofs -----------------------
(***************************************************************************)
(* Proofs about fiber_shared_mutex: what it keeps for any number of fibers *)
(* and threads, and what more when all the fibers are of one thread.       *)
(***************************************************************************)
EXTENDS FiberSharedMutex, FiberSchedProofs, FiniteSetTheorems

In(f, q) == \E i \in DOMAIN q : q[i] = f

InBatch(f) == \E g \in Fibers : In(f, batch[g])

Distinct(q) == \A i, j \in DOMAIN q : q[i] = q[j] => i = j

ParkPcs == {"wParked", "rParked"}
WritePcs == {"wQueued", "wParked"}
ReadPcs == {"rQueued", "rParked"}
RestPcs == {"idle", "wHeld", "rHeld", "wParked", "rParked"}
LockPcs == {"wTake", "wEnqueue", "uHandoff", "ruHandoff"}
CountPcs == {"rHeld", "rCheck", "rUndo", "tCheck", "tUndo"}

(* Not scheduled, if it has parked. *)
Suspended(f) == pc[f] \in ParkPcs => fstate[f] = "Parked"

(* Waiting, and nobody has woken it. *)
Asleep(f) == Suspended(f) /\ f \notin wakeList[Home[f]]

(* A fiber switches out only between two calls, or parked; and it parks    *)
(* only there.                                                             *)
PcOf(f) ==
    /\ fstate[f] # "Running" => pc[f] \in RestPcs
    /\ fstate[f] = "Parked" => pc[f] \in ParkPcs
    /\ pc[f] \in LockPcs <=> queueLock = f
    /\ pc[f] = "ruHandoff" => writerq # <<>>

(* A waiter is in one queue, or in the batch of one unlock, or has been    *)
(* woken, and is woken once.                                               *)
WaitOf(f) ==
    /\ In(f, writerq) => pc[f] \in WritePcs /\ Asleep(f) /\ ~InBatch(f)
    /\ In(f, readerq) => pc[f] \in ReadPcs /\ Asleep(f) /\ ~InBatch(f)
    /\ InBatch(f) => pc[f] \in WritePcs \cup ReadPcs /\ Asleep(f)
    /\ f \in wakeList[Home[f]] => pc[f] \in WritePcs \cup ReadPcs /\ Suspended(f)
    /\ pc[f] \in WritePcs \cup ReadPcs =>
          \/ In(f, writerq) \/ In(f, readerq) \/ InBatch(f) \/ f \in wakeList[Home[f]]
          \/ fstate[f] \in {"Ready", "Running"} /\ pc[f] \in ParkPcs

(* What an unlock has taken off a queue: readers, or one writer. *)
BatchOf(f) ==
    /\ Distinct(batch[f])
    /\ pc[f] \notin {"uWakeReaders", "wake"} => batch[f] = <<>>
    /\ pc[f] = "uWakeReaders" =>
          batch[f] # <<>> /\ \A i \in DOMAIN batch[f] : pc[batch[f][i]] \in ReadPcs
    /\ pc[f] = "wake" => Len(batch[f]) = 1 /\ pc[batch[f][1]] \in WritePcs

FiberInv == \A f \in Fibers : PcOf(f) /\ WaitOf(f) /\ BatchOf(f)

QueueInv ==
    /\ Distinct(writerq)
    /\ Distinct(readerq)
    /\ \A f, g, h \in Fibers : In(h, batch[f]) /\ In(h, batch[g]) => f = g

(* In the count of _readers. *)
Counted(f) ==
    \/ pc[f] \in CountPcs
    \/ pc[f] \in ReadPcs /\ ~In(f, readerq) /\ ~InBatch(f)

CountInv == readers = Cardinality({f \in Fibers : Counted(f)})

Types ==
    /\ SchedTypeOK
    /\ writer \in BOOLEAN
    /\ writerq \in Seq(Fibers)
    /\ readerq \in Seq(Fibers)
    /\ queueLock \in Fibers \cup {NoFiber}
    /\ pc \in [Fibers -> Pcs]
    /\ batch \in [Fibers -> Seq(Fibers)]

NoShutdown == \A s \in Scheds : ~interrupted[s]

IInv == Types /\ SchedInv /\ NoShutdown /\ FiberInv /\ QueueInv /\ CountInv

-----------------------------------------------------------------------------
(* The empty queue. *)
LEMMA EmptyFacts ==
    ASSUME NEW S, NEW q \in Seq(S)
    PROVE  q = <<>> <=> Len(q) = 0
  OBVIOUS

(* What an append to a queue changes. *)
LEMMA AppendFacts ==
    ASSUME NEW S, NEW q \in Seq(S), NEW e \in S
    PROVE  /\ Append(q, e) \in Seq(S)
           /\ Append(q, e) # <<>>
           /\ \A f : In(f, Append(q, e)) <=> In(f, q) \/ f = e
           /\ Distinct(q) /\ ~In(e, q) => Distinct(Append(q, e))
<1> DEFINE r == Append(q, e)
<1>1. /\ r \in Seq(S) /\ Len(r) = Len(q) + 1 /\ Len(q) \in Nat
      /\ DOMAIN q = 1..Len(q) /\ DOMAIN r = 1..Len(r)
      /\ \A i \in 1..Len(q) : r[i] = q[i]
      /\ r[Len(q) + 1] = e
  OBVIOUS
<1>2. \A i \in DOMAIN r : i \in DOMAIN q \/ i = Len(q) + 1
  BY ONLY <1>1
<1>3. \A i \in DOMAIN q : i \in DOMAIN r
  BY ONLY <1>1
<1>4. Len(q) + 1 \in DOMAIN r
  BY ONLY <1>1
<1> HIDE DEF r
<1>5. \A f : In(f, r) <=> In(f, q) \/ f = e
  BY ONLY <1>1, <1>2, <1>3, <1>4, Zenon DEF In
<1>6. Distinct(q) /\ ~In(e, q) => Distinct(r)
  BY ONLY <1>1, <1>2, Zenon DEF In, Distinct
<1>7. r # <<>>
  BY <1>1
<1>8. QED
  BY <1>1, <1>5, <1>6, <1>7, Zenon DEF r

(* The removal of a queue's head. *)
LEMMA TailFacts ==
    ASSUME NEW S, NEW q \in Seq(S), q # <<>>
    PROVE  /\ Head(q) \in S /\ Tail(q) \in Seq(S)
           /\ In(Head(q), q)
           /\ Head(q) = q[1]
           /\ Len(q) = 1 <=> Tail(q) = <<>>
           /\ \A f : In(f, Tail(q)) => In(f, q)
           /\ \A f : In(f, q) => f = Head(q) \/ In(f, Tail(q))
           /\ Distinct(q) => Distinct(Tail(q)) /\ ~In(Head(q), Tail(q))
<1> DEFINE r == Tail(q)
<1>1. /\ r \in Seq(S) /\ Len(r) = Len(q) - 1 /\ Len(q) \in Nat \ {0} /\ Head(q) \in S
      /\ DOMAIN q = 1..Len(q) /\ DOMAIN r = 1..Len(r)
      /\ \A i \in 1..Len(r) : r[i] = q[i + 1]
      /\ Head(q) = q[1]
  OBVIOUS
<1>2. \A i \in DOMAIN r : i \in Nat /\ i + 1 \in DOMAIN q /\ i + 1 # 1
  BY ONLY <1>1
<1>3. \A i \in DOMAIN q : i = 1 \/ (i - 1 \in DOMAIN r /\ (i - 1) + 1 = i)
  BY ONLY <1>1
<1>4. 1 \in DOMAIN q
  BY ONLY <1>1
<1> HIDE DEF r
<1>5. Len(q) = 1 <=> r = <<>>
  <2>1. r = <<>> <=> Len(r) = 0
    BY ONLY <1>1, EmptyFacts, Zenon
  <2>2. QED
    BY ONLY <1>1, <2>1
<1>6. In(Head(q), q) /\ \A f : In(f, r) => In(f, q)
  BY ONLY <1>1, <1>2, <1>4, Zenon DEF In
<1>7. \A f : In(f, q) => f = Head(q) \/ In(f, r)
  <2>1. ASSUME NEW i \in DOMAIN q, i # 1
        PROVE  i - 1 \in DOMAIN r /\ r[i - 1] = q[i]
    BY ONLY <1>1, <1>3, <2>1, Zenon
  <2>2. ASSUME NEW i \in DOMAIN q
        PROVE  q[i] = Head(q) \/ In(q[i], r)
    BY ONLY <1>1, <2>1, <2>2, Zenon DEF In
  <2>3. QED
    BY ONLY <2>2, Zenon DEF In
<1>8. ASSUME Distinct(q)
      PROVE  Distinct(r) /\ ~In(Head(q), r)
  <2>1. \A i, j \in DOMAIN r : r[i] = r[j] => i + 1 = j + 1
    BY ONLY <1>1, <1>2, <1>8 DEF Distinct
  <2>2. Distinct(r)
    BY ONLY <1>2, <2>1 DEF Distinct
  <2>3. ~In(Head(q), r)
    BY ONLY <1>1, <1>2, <1>4, <1>8 DEF Distinct, In
  <2>4. QED
    BY ONLY <2>2, <2>3, Zenon
<1>9. QED
  BY <1>1, <1>5, <1>6, <1>7, <1>8, Zenon DEF r

(* The short sequences. *)
LEMMA ShortFacts ==
    /\ \A f : ~In(f, <<>>)
    /\ Distinct(<<>>)
    /\ \A f, e : In(f, <<e>>) <=> f = e
    /\ \A e : Distinct(<<e>>) /\ Len(<<e>>) = 1 /\ <<e>>[1] = e
<1>1. DOMAIN <<>> = {} /\ \A e : DOMAIN <<e>> = {1} /\ <<e>>[1] = e /\ Len(<<e>>) = 1
  OBVIOUS
<1>2. QED
  BY <1>1 DEF In, Distinct

(* The count of readers when one fiber enters it, or leaves it. *)
LEMMA CountStep ==
    ASSUME CountInv, NEW f \in Fibers,
           \A g \in Fibers \ {f} : Counted(g)' <=> Counted(g),
           \/ (Counted(f)' <=> Counted(f)) /\ readers' = readers
           \/ Counted(f)' /\ ~Counted(f) /\ readers' = readers + 1
           \/ ~Counted(f)' /\ Counted(f) /\ readers' = readers - 1
    PROVE  CountInv'
<1> DEFINE S == {g \in Fibers : Counted(g)}
           T == {g \in Fibers : Counted(g)'}
<1>1. IsFiniteSet(S) /\ readers = Cardinality(S) /\ Cardinality(S) \in Nat
  <2>1. S \subseteq Fibers /\ IsFiniteSet(Fibers)
    BY SharedMutexAssumption, Zenon
  <2>2. QED
    BY <2>1, FS_Subset, FS_CardinalityType, Zenon DEF CountInv
<1>2. CASE (Counted(f)' <=> Counted(f)) /\ readers' = readers
  <2>1. S = T
    BY <1>2, Zenon
  <2>2. QED
    BY <1>1, <1>2, <2>1, Zenon DEF CountInv
<1>3. CASE Counted(f)' /\ ~Counted(f) /\ readers' = readers + 1
  <2>1. T = S \cup {f} /\ f \notin S
    BY <1>3, Zenon
  <2> HIDE DEF S, T
  <2>2. Cardinality(T) = Cardinality(S) + 1
    BY ONLY <1>1, <2>1, FS_AddElement, Zenon
  <2>3. QED
    BY <1>1, <1>3, <2>2, Zenon DEF CountInv, S, T
<1>4. CASE ~Counted(f)' /\ Counted(f) /\ readers' = readers - 1
  <2>1. T = S \ {f} /\ f \in S
    BY <1>4, Zenon
  <2> HIDE DEF S, T
  <2>2. Cardinality(T) = Cardinality(S) - 1
    BY ONLY <1>1, <2>1, FS_RemoveElement, Zenon
  <2>3. QED
    BY <1>1, <1>4, <2>2, Zenon DEF CountInv, S, T
<1>5. QED
  BY <1>2, <1>3, <1>4, Zenon

(* A step of a fiber that changes nothing of what the invariant says of    *)
(* the others.                                                             *)
LEMMA OwnStep ==
    ASSUME IInv, NEW f \in Fibers, Types', SchedInv', NoShutdown', QueueInv',
           \A g \in Fibers \ {f} :
               /\ pc'[g] = pc[g] /\ fstate'[g] = fstate[g] /\ batch'[g] = batch[g]
               /\ In(g, writerq)' <=> In(g, writerq)
               /\ In(g, readerq)' <=> In(g, readerq)
               /\ InBatch(g)' <=> InBatch(g)
               /\ g \in wakeList'[Home[g]] <=> g \in wakeList[Home[g]],
           writerq # <<>> => writerq' # <<>>,
           queueLock' = queueLock \/ {queueLock, queueLock'} \subseteq {f, NoFiber},
           InBatch(f) => /\ pc'[f] \in WritePcs <=> pc[f] \in WritePcs
                         /\ pc'[f] \in ReadPcs <=> pc[f] \in ReadPcs,
           PcOf(f)', WaitOf(f)', BatchOf(f)',
           \/ (Counted(f)' <=> Counted(f)) /\ readers' = readers
           \/ Counted(f)' /\ ~Counted(f) /\ readers' = readers + 1
           \/ ~Counted(f)' /\ Counted(f) /\ readers' = readers - 1
    PROVE  IInv'
<1>1. Types /\ FiberInv /\ CountInv
  BY Zenon DEF IInv
<1>2. batch \in [Fibers -> Seq(Fibers)] /\ NoFiber \notin Fibers
  BY <1>1, SchedAssumption, Zenon DEF Types
<1>3. ASSUME NEW g \in Fibers, g # f
      PROVE  /\ pc'[g] = pc[g] /\ fstate'[g] = fstate[g] /\ batch'[g] = batch[g]
             /\ In(g, writerq)' <=> In(g, writerq)
             /\ In(g, readerq)' <=> In(g, readerq)
             /\ InBatch(g)' <=> InBatch(g)
             /\ g \in wakeList'[Home[g]] <=> g \in wakeList[Home[g]]
             /\ PcOf(g) /\ WaitOf(g) /\ BatchOf(g)
  BY <1>1, <1>3, Zenon DEF FiberInv
<1>4. ASSUME NEW g \in Fibers, g # f
      PROVE  PcOf(g)' /\ WaitOf(g)' /\ BatchOf(g)'
  <2>1. (queueLock' = g) <=> (queueLock = g)
    BY ONLY <1>2, <1>4, queueLock' = queueLock \/ {queueLock, queueLock'} \subseteq {f, NoFiber}, Zenon
  <2>2. PcOf(g)'
    BY ONLY <1>3, <1>4, <2>1, writerq # <<>> => writerq' # <<>> DEF PcOf
  <2>3. WaitOf(g)'
    BY ONLY <1>3, <1>4, Zenon DEF WaitOf, Asleep, Suspended
  <2>4. ASSUME NEW i \in DOMAIN batch[g]
        PROVE  /\ pc'[batch[g][i]] \in WritePcs <=> pc[batch[g][i]] \in WritePcs
               /\ pc'[batch[g][i]] \in ReadPcs <=> pc[batch[g][i]] \in ReadPcs
    <3>1. batch[g][i] \in Fibers
      BY <1>2
    <3>2. CASE batch[g][i] = f
      <4>1. InBatch(f)
        BY <3>2, Zenon DEF InBatch, In
      <4>2. QED
        BY <3>2, <4>1, Zenon
    <3>3. CASE batch[g][i] # f
      BY ONLY <1>3, <3>1, <3>3, Zenon
    <3>4. QED
      BY ONLY <3>2, <3>3, Zenon
  <2>5. pc[g] = "wake" => 1 \in DOMAIN batch[g]
    BY <1>2, <1>3, <1>4 DEF BatchOf
  <2>6. BatchOf(g)'
    BY ONLY <1>3, <1>4, <2>4, <2>5 DEF BatchOf
  <2>7. QED
    BY ONLY <2>2, <2>3, <2>6, Zenon
<1>5. FiberInv'
  BY <1>4 DEF FiberInv
<1>6. \A g \in Fibers \ {f} : Counted(g)' <=> Counted(g)
  BY ONLY <1>3 DEF Counted
<1>7. CountInv'
  BY <1>1, <1>6, CountStep
<1>8. QED
  BY <1>5, <1>7, Zenon DEF IInv

(* A step that moves a running fiber on without touching a queue. *)
LocalTo(f, l) ==
    /\ Executing(f)
    /\ l \in Pcs \ (WritePcs \cup ReadPcs \cup {"wake", "uWakeReaders"})
    /\ pc' = [pc EXCEPT ![f] = l]
    /\ pc[f] \notin {"wQueued", "rQueued", "wake", "uWakeReaders"}
    /\ UNCHANGED <<schedVars, writerq, readerq, batch>>
    /\ writer' \in BOOLEAN
    /\ queueLock' = queueLock \/ {queueLock, queueLock'} \subseteq {f, NoFiber}
    /\ l \in LockPcs <=> queueLock' = f
    /\ l = "ruHandoff" => writerq # <<>>
    /\ \/ /\ l \in CountPcs <=> pc[f] \in CountPcs \cup {"rParked"}
          /\ readers' = readers
       \/ /\ l \in CountPcs /\ pc[f] \notin CountPcs \cup {"rParked"}
          /\ readers' = readers + 1
       \/ /\ l \notin CountPcs /\ pc[f] \in CountPcs \cup {"rParked"}
          /\ readers' = readers - 1

(* Such a step preserves the invariant. *)
LEMMA LocalStep ==
    ASSUME IInv, NEW f \in Fibers, NEW l, LocalTo(f, l)
    PROVE  IInv'
<1> USE DEF LocalTo
<1>1. /\ Types /\ SchedInv /\ NoShutdown /\ FiberInv /\ QueueInv
      /\ PcOf(f) /\ WaitOf(f) /\ BatchOf(f)
  BY DEF IInv, FiberInv
<1>2. /\ fstate' = fstate /\ wakeList' = wakeList /\ current' = current
      /\ interrupted' = interrupted
      /\ writerq' = writerq /\ readerq' = readerq /\ batch' = batch
  BY Zenon DEF schedVars
<1>3. fstate[f] = "Running"
  BY <1>1 DEF SchedInv
<1>4. pc' \in [Fibers -> Pcs] /\ pc'[f] = l /\ \A g \in Fibers \ {f} : pc'[g] = pc[g]
  BY <1>1, Zenon DEF Types
<1>5. Types' /\ SchedInv' /\ NoShutdown' /\ QueueInv'
  <2>1. queueLock' \in Fibers \cup {NoFiber}
    BY <1>1 DEF Types
  <2>2. Types'
    BY <1>1, <1>2, <1>4, <2>1 DEF Types, SchedTypeOK
  <2>3. SchedInv' /\ NoShutdown' /\ QueueInv'
    BY ONLY <1>1, <1>2 DEF SchedInv, Executing, NoShutdown, QueueInv
  <2>4. QED
    BY ONLY <2>2, <2>3
<1>6. \A g \in Fibers : InBatch(g)' <=> InBatch(g)
  BY ONLY <1>2 DEF InBatch
<1>7. ~In(f, writerq) /\ ~In(f, readerq) /\ ~InBatch(f) /\ f \notin wakeList[Home[f]]
  BY <1>1, <1>3
     DEF WaitOf, Asleep, Suspended, WritePcs, ReadPcs, ParkPcs
<1>8. l \notin WritePcs \cup ReadPcs \cup {"wake", "uWakeReaders"}
  OBVIOUS
<1>9. PcOf(f)'
  BY <1>2, <1>3, <1>4 DEF PcOf
<1>10. WaitOf(f)'
  BY ONLY <1>2, <1>4, <1>6, <1>7, <1>8, f \in Fibers DEF WaitOf
<1>11. BatchOf(f)'
  BY <1>1, <1>2, <1>4, <1>8 DEF BatchOf
<1>12. /\ Counted(f) <=> pc[f] \in CountPcs \cup {"rParked"}
       /\ Counted(f)' <=> l \in CountPcs
  <2>1. pc[f] \in ReadPcs => pc[f] = "rParked"
    BY Zenon DEF ReadPcs
  <2>2. pc[f] = "rParked" => pc[f] \in ReadPcs
    BY Zenon DEF ReadPcs
  <2>3. QED
    BY ONLY <1>4, <1>7, <1>8, <2>1, <2>2 DEF Counted
<1>13. QED
  BY <1>1, <1>2, <1>4, <1>5, <1>6, <1>7, <1>9, <1>10, <1>11, <1>12, OwnStep

(* The steps of that kind, for the tests of lock() and try_lock(). *)
LEMMA LockIsLocal ==
    ASSUME IInv, NEW f \in Fibers, LockTest(f) \/ TryLockTest(f) \/ LockTake(f) \/ UnlockClear(f)
    PROVE  \E l : LocalTo(f, l)
<1>1. Types /\ PcOf(f) /\ NoFiber \notin Fibers
  BY SchedAssumption DEF IInv, FiberInv
<1> USE <1>1 DEF Types, PcOf, At, Goto, LockQueue, UnlockQueue, Pcs, WritePcs, ReadPcs,
                 LockPcs, CountPcs
<1>2. CASE LockTest(f)
  <2>1. LocalTo(f, IF Free THEN "wTake" ELSE "wEnqueue")
    BY <1>2, Zenon DEF LockTest, LocalTo
  <2>2. QED
    BY ONLY <2>1, Zenon
<1>3. CASE TryLockTest(f)
  <2>1. LocalTo(f, "wTake")
    BY <1>3, Zenon DEF TryLockTest, LocalTo
  <2>2. QED
    BY ONLY <2>1
<1>4. CASE LockTake(f)
  <2>1. LocalTo(f, "wHeld")
    BY <1>4 DEF LockTake, LocalTo
  <2>2. QED
    BY ONLY <2>1, Zenon
<1>5. CASE UnlockClear(f)
  <2>1. /\ Executing(f) /\ pc[f] = "wHeld" /\ pc' = [pc EXCEPT ![f] = "uHandoff"]
        /\ queueLock = NoFiber /\ queueLock' = f /\ readers' = readers
        /\ UNCHANGED <<schedVars, writerq, readerq, batch>>
    BY ONLY <1>5 DEF UnlockClear
  <2>2. writer' \in BOOLEAN
    BY ONLY <1>5, Zenon DEF UnlockClear
  <2>3. LocalTo(f, "uHandoff")
    BY ONLY <2>1, <2>2 DEF LocalTo
  <2>4. QED
    BY ONLY <2>3
<1>6. QED
  BY <1>2, <1>3, <1>4, <1>5

(* For lock_shared() and try_lock_shared(). *)
LEMMA SharedIsLocal ==
    ASSUME IInv, NEW f \in Fibers,
           SharedLoad(f) \/ TrySharedLoad(f) \/ SharedAdd(f) \/ SharedCheck(f) \/ SharedUndo(f)
    PROVE  \E l : LocalTo(f, l)
<1>1. Types /\ PcOf(f) /\ NoFiber \notin Fibers
  BY SchedAssumption, Zenon DEF IInv, FiberInv
<1> USE <1>1 DEF Types, PcOf, At, Goto, Pcs, WritePcs, ReadPcs, LockPcs, CountPcs
<1>2. CASE SharedLoad(f)
  <2>1. CASE pc[f] = "idle"
    <3>1. LocalTo(f, IF writer THEN "rSlow" ELSE "rHead")
      BY <1>2, <2>1 DEF SharedLoad, LocalTo
    <3>2. QED
      BY ONLY <3>1
  <2>2. CASE pc[f] = "rHead"
    <3>1. LocalTo(f, IF writerq = <<>> THEN "rAdd" ELSE "rSlow")
      BY <1>2, <2>2 DEF SharedLoad, LocalTo
    <3>2. QED
      BY ONLY <3>1
  <2>3. QED
    BY <1>2, <2>1, <2>2 DEF SharedLoad
<1>3. CASE TrySharedLoad(f)
  <2>1. LocalTo(f, "tAdd")
    BY <1>3, Zenon DEF TrySharedLoad, LocalTo
  <2>2. QED
    BY ONLY <2>1
<1>4. CASE SharedAdd(f)
  <2>1. LocalTo(f, IF pc[f] = "rAdd" THEN "rCheck" ELSE "tCheck")
    BY <1>4 DEF SharedAdd, LocalTo
  <2>2. QED
    BY ONLY <2>1, Zenon
<1>5. CASE SharedCheck(f)
  <2>1. LocalTo(f, IF ~writer THEN "rHeld" ELSE IF pc[f] = "rCheck" THEN "rUndo" ELSE "tUndo")
    BY <1>5, Zenon DEF SharedCheck, LocalTo
  <2>2. QED
    BY ONLY <2>1, Zenon
<1>6. CASE SharedUndo(f)
  <2>1. LocalTo(f, IF pc[f] = "rUndo" THEN "rSlow" ELSE "idle")
    BY <1>6, Zenon DEF SharedUndo, LocalTo
  <2>2. QED
    BY ONLY <2>1
<1>7. QED
  BY <1>2, <1>3, <1>4, <1>5, <1>6

(* For the returns: from a park, from an unlock, and of a slow path that   *)
(* need not wait.                                                          *)
LEMMA ReturnIsLocal ==
    ASSUME IInv, NEW f \in Fibers,
           \/ ParkReturn(f) \/ UnlockShared(f) \/ UnlockSharedLast(f)
           \/ SharedSlow(f) /\ ~writer /\ writerq = <<>>
           \/ UnlockHandoff(f) /\ readerq = <<>> /\ writerq = <<>>
    PROVE  \E l : LocalTo(f, l)
<1>1. Types /\ PcOf(f) /\ NoFiber \notin Fibers
  BY SchedAssumption, Zenon DEF IInv, FiberInv
<1> USE <1>1 DEF Types, PcOf, At, Goto, LockQueue, UnlockQueue, WithQueueLock, Pcs, WritePcs,
                 ReadPcs, LockPcs, CountPcs
<1>2. CASE ParkReturn(f)
  <2>1. LocalTo(f, IF pc[f] = "wParked" THEN "wHeld" ELSE "rHeld")
    BY <1>2, Zenon DEF ParkReturn, LocalTo
  <2>2. QED
    BY ONLY <2>1, Zenon
<1>3. CASE UnlockShared(f)
  <2>1. LocalTo(f, IF LastReader THEN "ruLast" ELSE "idle")
    BY <1>3, Zenon DEF UnlockShared, LocalTo
  <2>2. QED
    BY ONLY <2>1, Zenon
<1>4. CASE UnlockSharedLast(f)
  <2>1. LocalTo(f, IF readers = 0 /\ writerq # <<>> THEN "ruHandoff" ELSE "idle")
    BY <1>4, Zenon DEF UnlockSharedLast, LocalTo
  <2>2. QED
    BY ONLY <2>1, Zenon
<1>5. CASE SharedSlow(f) /\ ~writer /\ writerq = <<>>
  <2>1. LocalTo(f, "rHeld")
    BY <1>5, Zenon DEF SharedSlow, LocalTo
  <2>2. QED
    BY ONLY <2>1, Zenon
<1>6. CASE UnlockHandoff(f) /\ readerq = <<>> /\ writerq = <<>>
  <2>1. LocalTo(f, "idle")
    BY <1>6, Zenon DEF UnlockHandoff, LocalTo
  <2>2. QED
    BY ONLY <2>1, Zenon
<1>7. QED
  BY <1>2, <1>3, <1>4, <1>5, <1>6

(* A park and a yield: the fiber gives its thread up. *)
LEMMA SwitchOutInductive ==
    ASSUME IInv, NEW f \in Fibers, ParkWaiter(f) \/ Yield(f)
    PROVE  IInv'
<1>1. /\ Types /\ SchedTypeOK /\ SchedInv /\ NoShutdown /\ FiberInv /\ QueueInv
      /\ PcOf(f) /\ WaitOf(f) /\ BatchOf(f)
  BY Zenon DEF IInv, FiberInv, Types
<1>2. PICK st \in {"Ready", "Parked"} : SwitchOut(f, st)
  BY Zenon DEF ParkWaiter, Yield, ParkCurrent, YieldCurrent
<1>3. SchedTypeOK' /\ SchedInv'
  BY ONLY <1>1, <1>2, f \in Fibers, SwitchOutPreserves, Zenon
<1>4. /\ readers' = readers /\ writer' = writer /\ writerq' = writerq /\ readerq' = readerq
      /\ queueLock' = queueLock /\ batch' = batch
  BY Zenon DEF ParkWaiter, Yield, mutexVars
<1>5. /\ fstate'[f] = st /\ wakeList' = wakeList /\ interrupted' = interrupted
      /\ \A g \in Fibers \ {f} : fstate'[g] = fstate[g]
      /\ fstate[f] = "Running"
  BY <1>1, <1>2, Zenon DEF SwitchOut, SchedTypeOK, SchedInv
<1>6. /\ pc' \in [Fibers -> Pcs] /\ \A g \in Fibers \ {f} : pc'[g] = pc[g]
      /\ \/ pc[f] = "wQueued" /\ pc'[f] = "wParked" /\ fstate'[f] = "Parked"
         \/ pc[f] = "rQueued" /\ pc'[f] = "rParked" /\ fstate'[f] = "Parked"
         \/ pc'[f] = pc[f] /\ pc[f] \in {"idle", "wHeld", "rHeld"} /\ fstate'[f] = "Ready"
  <2>1. pc \in [Fibers -> Pcs] /\ fstate \in [Fibers -> FiberStates]
    BY <1>1, Zenon DEF Types, SchedTypeOK
  <2>2. CASE ParkWaiter(f)
    BY <2>1, <2>2 DEF ParkWaiter, ParkCurrent, SwitchOut, Goto, Pcs
  <2>3. CASE Yield(f)
    BY <2>1, <2>3, Zenon DEF Yield, YieldCurrent, SwitchOut, mutexVars
  <2>4. QED
    BY <2>2, <2>3, Zenon
<1>7. Types' /\ NoShutdown' /\ QueueInv'
  BY ONLY <1>1, <1>3, <1>4, <1>5, <1>6 DEF Types, NoShutdown, QueueInv
<1>8. \A g \in Fibers : InBatch(g)' <=> InBatch(g)
  BY ONLY <1>4, Zenon DEF InBatch
<1>9. PcOf(f)'
  BY ONLY <1>1, <1>4, <1>6, Zenon DEF PcOf, RestPcs, ParkPcs, LockPcs
<1>10. WaitOf(f)'
  BY ONLY <1>1, <1>4, <1>5, <1>6, <1>8, f \in Fibers
     DEF WaitOf, Asleep, Suspended, WritePcs, ReadPcs, ParkPcs
<1>11. BatchOf(f)'
  BY ONLY <1>1, <1>4, <1>6, Zenon DEF BatchOf
<1>12. /\ pc'[f] \in WritePcs <=> pc[f] \in WritePcs
       /\ pc'[f] \in ReadPcs <=> pc[f] \in ReadPcs
       /\ pc'[f] \in CountPcs <=> pc[f] \in CountPcs
  BY ONLY <1>6, Zenon DEF WritePcs, ReadPcs, CountPcs
<1>13. Counted(f)' <=> Counted(f)
  BY ONLY <1>4, <1>8, <1>12, f \in Fibers DEF Counted
<1>14. QED
  BY ONLY IInv, f \in Fibers, <1>3, <1>4, <1>5, <1>6, <1>7, <1>8, <1>9, <1>10, <1>11, <1>12, <1>13, OwnStep

(* A fiber queues: as a writer, or as a reader. *)
LEMMA EnqueueInductive ==
    ASSUME IInv, NEW f \in Fibers,
           LockEnqueue(f) \/ (SharedSlow(f) /\ (writer \/ writerq # <<>>))
    PROVE  IInv'
<1>1. /\ Types /\ SchedTypeOK /\ SchedInv /\ NoShutdown /\ FiberInv /\ QueueInv
      /\ PcOf(f) /\ WaitOf(f) /\ BatchOf(f)
  BY Zenon DEF IInv, FiberInv, Types
<1>2. /\ fstate' = fstate /\ wakeList' = wakeList /\ current' = current
      /\ interrupted' = interrupted
      /\ readers' = readers /\ writer' = writer /\ batch' = batch /\ Executing(f)
  BY Zenon DEF LockEnqueue, SharedSlow, schedVars, At
<1>3. /\ pc' \in [Fibers -> Pcs] /\ \A g \in Fibers \ {f} : pc'[g] = pc[g]
      /\ queueLock' \in {queueLock, NoFiber}
      /\ \/ /\ pc[f] = "wEnqueue" /\ pc'[f] = "wQueued" /\ queueLock = f /\ queueLock' = NoFiber
            /\ writerq' = Append(writerq, f) /\ readerq' = readerq
         \/ /\ pc[f] = "rSlow" /\ pc'[f] = "rQueued" /\ queueLock' = queueLock
            /\ readerq' = Append(readerq, f) /\ writerq' = writerq
  <2>1. pc \in [Fibers -> Pcs]
    BY <1>1 DEF Types
  <2>2. CASE LockEnqueue(f)
    BY ONLY f \in Fibers, <2>1, <2>2 DEF LockEnqueue, At, Goto, UnlockQueue, Pcs
  <2>3. CASE SharedSlow(f) /\ (writer \/ writerq # <<>>)
    BY ONLY f \in Fibers, <2>1, <2>3 DEF SharedSlow, At, Goto, WithQueueLock, Pcs
  <2>4. QED
    BY <2>2, <2>3
<1>4. fstate[f] = "Running"
  BY <1>1, <1>2 DEF SchedInv
<1>5. \A g \in Fibers : InBatch(g)' <=> InBatch(g)
  BY ONLY <1>2 DEF InBatch
<1>6. ~In(f, writerq) /\ ~In(f, readerq) /\ ~InBatch(f) /\ f \notin wakeList[Home[f]]
  BY ONLY <1>1, <1>3 DEF WaitOf, WritePcs, ReadPcs
<1>7. writerq \in Seq(Fibers) /\ readerq \in Seq(Fibers) /\ Distinct(writerq) /\ Distinct(readerq)
  BY <1>1, Zenon DEF Types, QueueInv
<1>8. /\ writerq' \in Seq(Fibers) /\ readerq' \in Seq(Fibers)
      /\ Distinct(writerq') /\ Distinct(readerq')
      /\ writerq # <<>> => writerq' # <<>>
      /\ \A g \in Fibers \ {f} : In(g, writerq') <=> In(g, writerq)
      /\ \A g \in Fibers \ {f} : In(g, readerq') <=> In(g, readerq)
      /\ pc'[f] = "wQueued" => In(f, writerq') /\ ~In(f, readerq')
      /\ pc'[f] = "rQueued" => In(f, readerq') /\ ~In(f, writerq')
  <2>1. CASE writerq' = Append(writerq, f) /\ readerq' = readerq /\ pc'[f] = "wQueued"
    BY ONLY f \in Fibers, <1>6, <1>7, <2>1, AppendFacts
  <2>2. CASE readerq' = Append(readerq, f) /\ writerq' = writerq /\ pc'[f] = "rQueued"
    BY ONLY f \in Fibers, <1>6, <1>7, <2>2, AppendFacts
  <2>3. QED
    BY ONLY <1>3, <2>1, <2>2
<1>9. Types' /\ SchedInv' /\ NoShutdown' /\ QueueInv'
  <2>1. Types'
    BY ONLY <1>1, <1>2, <1>3, <1>8 DEF Types, SchedTypeOK
  <2>2. SchedInv' /\ NoShutdown'
    BY ONLY <1>1, <1>2 DEF SchedInv, Executing, NoShutdown
  <2>3. QueueInv'
    BY ONLY <1>1, <1>2, <1>8 DEF QueueInv
  <2>4. QED
    BY ONLY <2>1, <2>2, <2>3
<1>10. PcOf(f)'
  <2>1. NoFiber # f
    BY SchedAssumption
  <2>2. QED
    BY ONLY <1>1, <1>2, <1>3, <1>4, <2>1 DEF PcOf, LockPcs
<1>11. WaitOf(f)'
  BY ONLY <1>2, <1>3, <1>4, <1>5, <1>6, <1>8, f \in Fibers
     DEF WaitOf, Asleep, Suspended, WritePcs, ReadPcs, ParkPcs
<1>12. BatchOf(f)'
  BY ONLY <1>1, <1>2, <1>3, Zenon DEF BatchOf
<1>13. Counted(f)' <=> Counted(f)
  BY ONLY <1>3, <1>8 DEF Counted, CountPcs, ReadPcs
<1>14. queueLock' = queueLock \/ {queueLock, queueLock'} \subseteq {f, NoFiber}
  BY ONLY <1>3
<1>15. QED
  BY ONLY IInv, f \in Fibers, <1>2, <1>3, <1>5, <1>6, <1>8, <1>9, <1>10, <1>11, <1>12, <1>13, <1>14, OwnStep

(* An unlock of f takes b off the queues: all the readers, or one writer. *)
TakesOff(f, b, l) ==
    /\ pc[f] \in {"uHandoff", "ruHandoff"}
    /\ queueLock = f /\ queueLock' = NoFiber
    /\ pc' = [pc EXCEPT ![f] = l]
    /\ batch' = [batch EXCEPT ![f] = b]
    /\ writer' \in BOOLEAN
    /\ UNCHANGED <<schedVars, readers>>
    /\ b \in Seq(Fibers) /\ b # <<>> /\ Distinct(b)
    /\ writerq' \in Seq(Fibers) /\ Distinct(writerq')
    /\ readerq' \in Seq(Fibers) /\ Distinct(readerq')
    /\ \A g \in Fibers :
          /\ In(g, writerq') => In(g, writerq) /\ ~In(g, b)
          /\ In(g, readerq') => In(g, readerq) /\ ~In(g, b)
          /\ In(g, writerq) => In(g, writerq') \/ In(g, b)
          /\ In(g, readerq) => In(g, readerq') \/ In(g, b)
    /\ \/ l = "uWakeReaders" /\ \A g \in Fibers : In(g, b) => In(g, readerq)
       \/ l = "wake" /\ Len(b) = 1 /\ \A g \in Fibers : In(g, b) => In(g, writerq)

(* Such a step preserves the invariant. *)
LEMMA TakeOffStep ==
    ASSUME IInv, NEW f \in Fibers, NEW b, NEW l, TakesOff(f, b, l)
    PROVE  IInv'
<1>1. Types /\ SchedTypeOK /\ SchedInv /\ NoShutdown /\ FiberInv /\ QueueInv /\ CountInv
  BY Zenon DEF IInv, Types
<1>2. /\ fstate' = fstate /\ wakeList' = wakeList /\ current' = current
      /\ interrupted' = interrupted /\ readers' = readers
      /\ queueLock = f /\ queueLock' = NoFiber /\ writer' \in BOOLEAN
      /\ pc[f] \in {"uHandoff", "ruHandoff"} /\ l \in {"uWakeReaders", "wake"}
      /\ b \in Seq(Fibers) /\ b # <<>> /\ Distinct(b)
      /\ writerq' \in Seq(Fibers) /\ Distinct(writerq')
      /\ readerq' \in Seq(Fibers) /\ Distinct(readerq')
  BY Zenon DEF TakesOff, schedVars
<1>3. /\ pc' \in [Fibers -> Pcs] /\ pc'[f] = l /\ \A g \in Fibers \ {f} : pc'[g] = pc[g]
      /\ batch' \in [Fibers -> Seq(Fibers)] /\ batch'[f] = b
      /\ \A g \in Fibers \ {f} : batch'[g] = batch[g]
  BY <1>1, <1>2 DEF TakesOff, Types, Pcs
<1>4. NoFiber \notin Fibers
  BY SchedAssumption
<1>5. ASSUME NEW g \in Fibers
      PROVE  /\ In(g, writerq') => In(g, writerq) /\ ~In(g, b)
             /\ In(g, readerq') => In(g, readerq) /\ ~In(g, b)
             /\ In(g, writerq) => In(g, writerq') \/ In(g, b)
             /\ In(g, readerq) => In(g, readerq') \/ In(g, b)
             /\ In(g, b) => In(g, writerq) \/ In(g, readerq)
             /\ l = "uWakeReaders" /\ In(g, b) => In(g, readerq)
             /\ l = "wake" /\ In(g, b) => In(g, writerq)
             /\ PcOf(g) /\ WaitOf(g) /\ BatchOf(g)
  BY <1>1, <1>5 DEF TakesOff, FiberInv
<1>6. batch[f] = <<>> /\ \A g : ~In(g, batch[f])
  BY ONLY <1>2, <1>5, f \in Fibers, ShortFacts DEF BatchOf
<1>7. ASSUME NEW g \in Fibers
      PROVE  /\ In(g, b) => ~InBatch(g)
             /\ InBatch(g)' <=> InBatch(g) \/ In(g, b)
  <2>1. In(g, b) => ~InBatch(g)
    BY ONLY <1>5, <1>7 DEF WaitOf
  <2>2. \A h \in Fibers : In(g, batch'[h]) <=> In(g, batch[h]) \/ (h = f /\ In(g, b))
    BY ONLY <1>3, <1>6
  <2>3. InBatch(g)' <=> InBatch(g) \/ In(g, b)
    BY ONLY <2>2, f \in Fibers DEF InBatch
  <2>4. QED
    BY ONLY <2>1, <2>3, Zenon
<1>8. ~In(f, writerq) /\ ~In(f, readerq) /\ ~In(f, b) /\ ~InBatch(f) /\ f \notin wakeList[Home[f]]
  BY ONLY <1>2, <1>5, f \in Fibers DEF WaitOf, WritePcs, ReadPcs
<1>9. Types' /\ SchedInv' /\ NoShutdown'
  <2>1. Types'
    BY ONLY <1>1, <1>2, <1>3 DEF Types, SchedTypeOK
  <2>2. SchedInv' /\ NoShutdown'
    BY ONLY <1>1, <1>2 DEF SchedInv, Executing, NoShutdown
  <2>3. QED
    BY ONLY <2>1, <2>2
<1>10. QueueInv'
  <2>1. ASSUME NEW g1 \in Fibers, NEW g2 \in Fibers, NEW h \in Fibers,
               In(h, batch'[g1]), In(h, batch'[g2])
        PROVE  g1 = g2
    <3>1. In(h, b) => \A g \in Fibers : ~In(h, batch[g])
      BY ONLY <1>7, h \in Fibers, Zenon DEF InBatch
    <3>2. \A g \in Fibers : In(h, batch'[g]) <=> In(h, batch[g]) \/ (g = f /\ In(h, b))
      BY ONLY <1>3, <1>6
    <3>3. \A g, k \in Fibers : In(h, batch[g]) /\ In(h, batch[k]) => g = k
      BY ONLY <1>1, h \in Fibers, Zenon DEF QueueInv
    <3>4. QED
      BY ONLY <2>1, <3>1, <3>2, <3>3
  <2>2. QED
    BY ONLY <1>2, <2>1 DEF QueueInv
<1>11. ASSUME NEW g \in Fibers
       PROVE  PcOf(g)'
  <2>1. CASE g = f
    <3>1. fstate[f] = "Running"
      BY ONLY <1>2, <1>5, f \in Fibers, Zenon DEF PcOf, RestPcs
    <3>2. QED
      BY ONLY <1>2, <1>3, <1>4, f \in Fibers, <2>1, <3>1 DEF PcOf, LockPcs
  <2>2. CASE g # f
    <3>1. pc[g] \notin LockPcs
      BY ONLY <1>2, <1>5, <2>2, <1>11, Zenon DEF PcOf
    <3>2. pc'[g] = pc[g] /\ queueLock' # g /\ "ruHandoff" \in LockPcs
      BY ONLY <1>2, <1>3, <1>4, <1>11, <2>2 DEF LockPcs
    <3>3. QED
      BY ONLY <1>2, <1>5, <1>11, <3>1, <3>2, Zenon DEF PcOf
  <2>3. QED
    BY ONLY <2>1, <2>2, Zenon
<1>12. ASSUME NEW g \in Fibers
       PROVE  WaitOf(g)'
  <2>1. CASE g = f
    <3>1. l \notin WritePcs \cup ReadPcs
      BY ONLY <1>2, Zenon DEF WritePcs, ReadPcs
    <3>2. QED
      BY ONLY <1>2, <1>3, <1>5, <1>7, <1>8, f \in Fibers, <2>1, <3>1, Zenon DEF WaitOf
  <2>2. CASE g # f
    <3>1. pc'[g] = pc[g] /\ (Asleep(g)' <=> Asleep(g)) /\ (Suspended(g)' <=> Suspended(g))
      BY ONLY <1>2, <1>3, <1>12, <2>2 DEF Asleep, Suspended
    <3>2. In(g, b) => ~In(g, writerq') /\ ~In(g, readerq')
      BY ONLY <1>5, <1>12
    <3>3. QED
      BY ONLY <1>2, <1>5, <1>7, <1>12, <3>1, <3>2, Zenon DEF WaitOf
  <2>3. QED
    BY ONLY <2>1, <2>2, Zenon
<1>13. ASSUME NEW g \in Fibers
       PROVE  BatchOf(g)'
  <2>1. CASE g = f
    <3>1. ASSUME NEW i \in DOMAIN b
          PROVE  b[i] \in Fibers /\ In(b[i], b) /\ b[i] # f /\ pc'[b[i]] = pc[b[i]]
      <4>1. b[i] \in Fibers
        BY <1>2
      <4>2. In(b[i], b)
        BY ONLY <3>1, Zenon DEF In
      <4>3. QED
        BY ONLY <1>3, <1>8, <4>1, <4>2
    <3>2. ASSUME NEW i \in DOMAIN b
          PROVE  /\ l = "uWakeReaders" => pc'[b[i]] \in ReadPcs
                 /\ l = "wake" => pc'[b[i]] \in WritePcs
      BY ONLY <1>5, <3>1, <3>2, Zenon DEF WaitOf
    <3>3. l = "wake" => Len(b) = 1 /\ 1 \in DOMAIN b
      BY <1>2 DEF TakesOff
    <3>4. QED
      BY ONLY <1>2, <1>3, <2>1, <3>2, <3>3 DEF BatchOf
  <2>2. CASE g # f
    <3>1. ASSUME NEW i \in DOMAIN batch[g]
          PROVE  pc'[batch[g][i]] = pc[batch[g][i]]
      <4>1. batch[g][i] \in Fibers
        BY <1>1 DEF Types
      <4>2. InBatch(batch[g][i])
        BY Zenon DEF InBatch, In
      <4>3. QED
        BY ONLY <1>3, <1>8, <4>1, <4>2, Zenon
    <3>2. pc[g] = "wake" => 1 \in DOMAIN batch[g]
      BY <1>1, <1>5 DEF BatchOf, Types
    <3>3. pc'[g] = pc[g] /\ batch'[g] = batch[g] /\ BatchOf(g)
      BY ONLY <1>3, <1>5, <1>13, <2>2, Zenon
    <3>4. QED
      BY ONLY <3>1, <3>2, <3>3, Zenon DEF BatchOf
  <2>3. QED
    BY ONLY <2>1, <2>2, Zenon
<1>14. ASSUME NEW g \in Fibers
       PROVE  Counted(g)' <=> Counted(g)
  <2>1. CASE g = f
    <3>1. l \notin CountPcs \cup ReadPcs /\ pc[f] \notin CountPcs \cup ReadPcs
      BY ONLY <1>2, Zenon DEF CountPcs, ReadPcs
    <3>2. QED
      BY ONLY <1>3, <2>1, <3>1 DEF Counted
  <2>2. CASE g # f
    <3>1. pc'[g] = pc[g]
      BY ONLY <1>3, <1>14, <2>2
    <3>2. pc[g] \in ReadPcs => ~In(g, writerq)
      BY ONLY <1>5, <1>14, Zenon DEF WaitOf, ReadPcs, WritePcs
    <3>3. QED
      BY ONLY <1>5, <1>7, <1>14, <3>1, <3>2 DEF Counted
  <2>3. QED
    BY ONLY <2>1, <2>2, Zenon
<1>15. CountInv'
  BY ONLY <1>1, <1>2, <1>14, f \in Fibers, CountStep
<1>16. QED
  BY <1>9, <1>10, <1>11, <1>12, <1>13, <1>15 DEF IInv, FiberInv

(* The handoffs of unlock() and unlock_shared() are of that kind. *)
LEMMA HandoffInductive ==
    ASSUME IInv, NEW f \in Fibers,
           \/ UnlockHandoff(f) /\ (readerq # <<>> \/ writerq # <<>>)
           \/ UnlockSharedHandoff(f)
    PROVE  IInv'
<1>1. /\ Types /\ SchedTypeOK /\ FiberInv /\ QueueInv /\ PcOf(f)
      /\ writerq \in Seq(Fibers) /\ readerq \in Seq(Fibers)
      /\ Distinct(writerq) /\ Distinct(readerq)
  BY DEF IInv, FiberInv, Types, QueueInv
<1>2. \A g \in Fibers : ~(In(g, writerq) /\ In(g, readerq))
  BY ONLY <1>1 DEF FiberInv, WaitOf, WritePcs, ReadPcs
<1>3. /\ pc[f] \in {"uHandoff", "ruHandoff"} /\ queueLock = f /\ queueLock' = NoFiber
      /\ UNCHANGED <<schedVars, readers>>
  BY DEF UnlockHandoff, UnlockSharedHandoff, At, UnlockQueue
<1>4. CASE UnlockHandoff(f) /\ readerq # <<>>
  <2>1. /\ batch' = [batch EXCEPT ![f] = readerq]
        /\ readerq' = <<>> /\ writerq' = writerq /\ writer' = writer
        /\ pc' = [pc EXCEPT ![f] = "uWakeReaders"]
    BY ONLY <1>4, Zenon DEF UnlockHandoff, Goto
  <2>2. (\A g : ~In(g, readerq')) /\ readerq' \in Seq(Fibers) /\ Distinct(readerq')
    BY ONLY <2>1, ShortFacts
  <2>3. writer' \in BOOLEAN
    BY ONLY <1>1, <2>1 DEF Types
  <2>4. \A g \in Fibers :
           /\ In(g, writerq') => In(g, writerq) /\ ~In(g, readerq)
           /\ In(g, readerq') => In(g, readerq) /\ ~In(g, readerq)
           /\ In(g, writerq) => In(g, writerq') \/ In(g, readerq)
           /\ In(g, readerq) => In(g, readerq') \/ In(g, readerq)
    BY ONLY <1>2, <2>1, <2>2
  <2>5. writerq' \in Seq(Fibers) /\ Distinct(writerq')
    BY ONLY <1>1, <2>1
  <2>6. TakesOff(f, readerq, "uWakeReaders")
    BY ONLY <1>1, <1>3, <1>4, <2>1, <2>2, <2>3, <2>4, <2>5, Zenon DEF TakesOff
  <2>7. QED
    BY ONLY IInv, f \in Fibers, <2>6, TakeOffStep, Zenon
<1>5. CASE (UnlockHandoff(f) /\ readerq = <<>> /\ writerq # <<>>) \/ UnlockSharedHandoff(f)
  <2> DEFINE h == Head(writerq)
  <2>1. writerq # <<>>
    BY ONLY <1>1, <1>5 DEF UnlockSharedHandoff, At, PcOf
  <2>2. /\ batch' = [batch EXCEPT ![f] = <<h>>]
        /\ readerq' = readerq /\ writerq' = Tail(writerq)
        /\ pc' = [pc EXCEPT ![f] = "wake"]
    BY ONLY <1>5, <2>1 DEF UnlockHandoff, UnlockSharedHandoff, Goto
  <2>3. writer' \in BOOLEAN
    BY ONLY <1>5, <2>1, Zenon DEF UnlockHandoff, UnlockSharedHandoff
  <2>4. /\ h \in Fibers /\ In(h, writerq)
        /\ writerq' \in Seq(Fibers) /\ Distinct(writerq') /\ ~In(h, writerq')
        /\ \A g : In(g, writerq') => In(g, writerq)
        /\ \A g : In(g, writerq) => g = h \/ In(g, writerq')
    BY ONLY <1>1, <2>1, <2>2, TailFacts
  <2> HIDE DEF h
  <2>5. /\ \A g : In(g, <<h>>) <=> g = h
        /\ Distinct(<<h>>) /\ Len(<<h>>) = 1
    BY ONLY ShortFacts
  <2>6. <<h>> \in Seq(Fibers) /\ <<h>> # <<>>
    BY <2>4
  <2>7. TakesOff(f, <<h>>, "wake")
    BY ONLY <1>1, <1>2, <1>3, <2>2, <2>3, <2>4, <2>5, <2>6 DEF TakesOff
  <2>8. QED
    BY ONLY IInv, f \in Fibers, <2>7, TakeOffStep
<1>6. QED
  BY ONLY <1>4, <1>5, \/ UnlockHandoff(f) /\ (readerq # <<>> \/ writerq # <<>>)
                      \/ UnlockSharedHandoff(f)

(* The wakes of unlock() and unlock_shared(): the first fiber of the batch *)
(* is put on its scheduler's wake list.                                    *)
LEMMA WakeInductive ==
    ASSUME IInv, NEW f \in Fibers, UnlockWakeReader(f) \/ WakeWriter(f)
    PROVE  IInv'
<1>0. PICK e : e = Head(batch[f])
  OBVIOUS
<1> DEFINE t == Tail(batch[f])
           l == IF pc[f] = "uWakeReaders" /\ Len(batch[f]) # 1 THEN "uWakeReaders" ELSE "idle"
<1>1. /\ Types /\ SchedTypeOK /\ SchedInv /\ NoShutdown /\ FiberInv /\ QueueInv /\ CountInv
      /\ BatchOf(f) /\ batch \in [Fibers -> Seq(Fibers)] /\ pc \in [Fibers -> Pcs]
  BY DEF IInv, Types, FiberInv
<1>2. /\ pc[f] \in {"uWakeReaders", "wake"} /\ Executing(f)
      /\ writer' = writer /\ writerq' = writerq /\ readerq' = readerq /\ queueLock' = queueLock
      /\ readers' = IF pc[f] = "uWakeReaders" THEN readers + 1 ELSE readers
      /\ pc' = [pc EXCEPT ![f] = l]
      /\ Wake(e)
  BY <1>0 DEF UnlockWakeReader, WakeWriter, At, Goto
<1>3. batch[f] # <<>> /\ Distinct(batch[f]) /\ (pc[f] = "wake" => Len(batch[f]) = 1)
  BY <1>1, <1>2 DEF BatchOf
<1>4. batch' = [batch EXCEPT ![f] = t]
  <2>1. pc[f] = "wake" => t = <<>>
    BY <1>1, <1>3, TailFacts
  <2>2. CASE UnlockWakeReader(f)
    BY ONLY <2>2 DEF UnlockWakeReader
  <2>3. CASE WakeWriter(f)
    BY ONLY <2>1, <2>3, Zenon DEF WakeWriter, At
  <2>4. QED
    BY ONLY <2>2, <2>3, UnlockWakeReader(f) \/ WakeWriter(f)
<1>5. /\ e \in Fibers /\ In(e, batch[f]) /\ t \in Seq(Fibers) /\ Distinct(t) /\ ~In(e, t)
      /\ Len(batch[f]) = 1 <=> t = <<>>
      /\ \A g : In(g, batch[f]) <=> g = e \/ In(g, t)
      /\ e = batch[f][1]
  <2> DEFINE q == batch[f]
  <2>1. q \in Seq(Fibers) /\ q # <<>> /\ Distinct(q)
    BY ONLY <1>1, <1>3, f \in Fibers
  <2> HIDE DEF q
  <2>2. /\ Head(q) \in Fibers /\ Tail(q) \in Seq(Fibers) /\ In(Head(q), q) /\ Head(q) = q[1]
        /\ Len(q) = 1 <=> Tail(q) = <<>>
        /\ \A g : In(g, Tail(q)) => In(g, q)
        /\ \A g : In(g, q) => g = Head(q) \/ In(g, Tail(q))
        /\ Distinct(Tail(q)) /\ ~In(Head(q), Tail(q))
    BY ONLY <2>1, TailFacts
  <2>3. \A g : In(g, q) <=> g = Head(q) \/ In(g, Tail(q))
    BY ONLY <2>2
  <2>4. QED
    BY ONLY <1>0, <2>2, <2>3 DEF q
<1>6. /\ pc[f] = "uWakeReaders" => \A g \in Fibers : In(g, batch[f]) => pc[g] \in ReadPcs
      /\ pc[f] = "wake" => pc[e] \in WritePcs
  BY ONLY <1>1, <1>5 DEF BatchOf, In
<1> HIDE DEF l, t
<1>7. /\ fstate' = fstate /\ current' = current /\ interrupted' = interrupted
      /\ \A g \in Fibers : g \in wakeList'[Home[g]] <=> g \in wakeList[Home[g]] \/ g = e
  <2>1. /\ fstate' = fstate /\ current' = current /\ interrupted' = interrupted
        /\ wakeList' = [wakeList EXCEPT ![Home[e]] = wakeList[Home[e]] \cup {e}]
    BY ONLY <1>2, Zenon DEF Wake
  <2>2. /\ wakeList \in [Scheds -> SUBSET Fibers] /\ Home \in [Fibers -> Scheds]
    BY <1>1, SchedAssumption DEF SchedTypeOK
  <2>3. ASSUME NEW g \in Fibers
        PROVE  g \in wakeList'[Home[g]] <=> g \in wakeList[Home[g]] \/ g = e
    <3>1. Home[g] \in Scheds /\ Home[e] \in Scheds
      BY ONLY <1>5, <2>2, <2>3
    <3>2. QED
      BY ONLY <2>1, <2>2, <3>1
  <2>4. QED
    BY ONLY <2>1, <2>3
<1>8. l \in {"uWakeReaders", "idle"} /\ (l = "uWakeReaders" <=> t # <<>>)
  BY ONLY <1>2, <1>3, <1>5 DEF l
<1>9. /\ pc' \in [Fibers -> Pcs] /\ pc'[f] = l /\ \A g \in Fibers \ {f} : pc'[g] = pc[g]
      /\ batch' \in [Fibers -> Seq(Fibers)] /\ batch'[f] = t
      /\ \A g \in Fibers \ {f} : batch'[g] = batch[g]
  BY ONLY <1>1, <1>2, <1>4, <1>5, <1>8, f \in Fibers DEF Pcs
<1>10. ASSUME NEW g \in Fibers
       PROVE  PcOf(g) /\ WaitOf(g) /\ BatchOf(g)
  BY ONLY <1>1, <1>10 DEF FiberInv
<1>11. InBatch(e) /\ pc[e] \in WritePcs \cup ReadPcs
  BY ONLY <1>5, <1>10, f \in Fibers, Zenon DEF InBatch, WaitOf
<1>12. ASSUME NEW g \in Fibers
       PROVE  InBatch(g)' <=> InBatch(g) /\ g # e
  <2>1. \A h \in Fibers : In(e, batch[h]) => h = f
    BY ONLY <1>1, <1>5, f \in Fibers DEF QueueInv
  <2>2. ASSUME NEW h \in Fibers
        PROVE  In(g, batch'[h]) <=> In(g, batch[h]) /\ g # e
    <3>1. CASE h = f
      <4>1. /\ In(g, batch[f]) <=> g = e \/ In(g, t)
            /\ ~In(e, t) /\ batch'[f] = t
        BY ONLY <1>5, <1>9, Zenon
      <4>2. QED
        BY ONLY <3>1, <4>1
    <3>2. CASE h # f
      <4>1. batch'[h] = batch[h] /\ ~In(e, batch[h])
        BY ONLY <1>9, <2>1, <2>2, <3>2
      <4>2. QED
        BY ONLY <4>1, Zenon
    <3>3. QED
      BY ONLY <3>1, <3>2
  <2>3. QED
    BY ONLY <2>2, Zenon DEF InBatch
<1>13. /\ f # e /\ ~In(f, writerq) /\ ~In(f, readerq) /\ ~InBatch(f)
       /\ f \notin wakeList[Home[f]] /\ f \notin wakeList'[Home[f]]
  <2>1. pc[f] \notin WritePcs \cup ReadPcs
    BY ONLY <1>2 DEF WritePcs, ReadPcs
  <2>2. QED
    BY ONLY <1>7, <1>10, <1>11, <2>1, f \in Fibers DEF WaitOf
<1>14. Types' /\ SchedInv' /\ NoShutdown'
  <2>1. SchedTypeOK' /\ SchedInv'
    BY ONLY <1>1, <1>2, <1>5, WakePreserves
  <2>2. QED
    BY ONLY <1>1, <1>2, <1>7, <1>9, <2>1 DEF Types, NoShutdown
<1>15. QueueInv'
  <2>1. ASSUME NEW g1 \in Fibers, NEW g2 \in Fibers, NEW h \in Fibers,
               In(h, batch'[g1]), In(h, batch'[g2])
        PROVE  g1 = g2
    <3>1. ASSUME NEW g \in Fibers, In(h, batch'[g])
          PROVE  In(h, batch[g])
      <4>1. CASE g = f
        <5>1. batch'[f] = t /\ (In(h, t) => In(h, batch[f]))
          BY ONLY <1>5, <1>9
        <5>2. QED
          BY ONLY <3>1, <4>1, <5>1
      <4>2. CASE g # f
        BY ONLY <1>9, <3>1, <4>2
      <4>3. QED
        BY ONLY <4>1, <4>2
    <3>2. QED
      BY ONLY <1>1, <2>1, <3>1 DEF QueueInv
  <2>2. QED
    BY ONLY <1>1, <1>2, <2>1 DEF QueueInv
<1>16. ASSUME NEW g \in Fibers
       PROVE  PcOf(g)'
  <2>1. CASE g = f
    <3>1. fstate[f] = "Running" /\ queueLock # f
      BY ONLY <1>2, <1>10, f \in Fibers DEF PcOf, RestPcs, LockPcs
    <3>2. QED
      BY ONLY <1>2, <1>7, <1>8, <1>9, <2>1, <3>1 DEF PcOf, LockPcs
  <2>2. CASE g # f
    <3>1. pc'[g] = pc[g] /\ PcOf(g)
      BY ONLY <1>9, <1>10, <1>16, <2>2
    <3>2. QED
      BY ONLY <1>2, <1>7, <3>1 DEF PcOf
  <2>3. QED
    BY ONLY <2>1, <2>2, Zenon
<1>17. ASSUME NEW g \in Fibers
       PROVE  WaitOf(g)'
  <2>1. CASE g = f
    <3>1. l \notin WritePcs \cup ReadPcs
      BY ONLY <1>8, Zenon DEF WritePcs, ReadPcs
    <3>2. QED
      BY ONLY <1>2, <1>9, <1>12, <1>13, f \in Fibers, <2>1, <3>1, Zenon DEF WaitOf
  <2>2. CASE g # f
    <3>1. pc'[g] = pc[g] /\ (Suspended(g)' <=> Suspended(g))
      BY ONLY <1>7, <1>9, <1>17, <2>2 DEF Suspended
    <3>2. (Asleep(g)' <=> Asleep(g) /\ g # e) /\ (Asleep(g) => Suspended(g))
      BY ONLY <1>7, <1>17, <3>1 DEF Asleep
    <3>3. WaitOf(g) /\ (InBatch(g)' <=> InBatch(g) /\ g # e)
      BY ONLY <1>10, <1>12, <1>17
    <3>4. QED
      BY ONLY <1>2, <1>7, <1>11, <1>17, <3>1, <3>2, <3>3, Zenon DEF WaitOf
  <2>3. QED
    BY ONLY <2>1, <2>2, Zenon
<1>18. ASSUME NEW g \in Fibers
       PROVE  BatchOf(g)'
  <2>1. ASSUME NEW h \in Fibers, InBatch(h)
        PROVE  pc'[h] = pc[h]
    BY ONLY <1>9, <1>13, <2>1
  <2>2. CASE g = f
    <3>1. ASSUME NEW i \in DOMAIN t, l = "uWakeReaders"
          PROVE  pc'[t[i]] \in ReadPcs
      <4> DEFINE h == t[i]
      <4>1. h \in Fibers
        BY <1>5
      <4>2. In(h, batch[f])
        <5>1. In(h, t)
          BY ONLY <3>1 DEF In
        <5>2. QED
          BY ONLY <1>5, <5>1
      <4>3. pc[f] = "uWakeReaders"
        BY <1>3, <1>5, <1>2, <1>8, <3>1
      <4>4. pc[h] \in ReadPcs
        BY ONLY <1>6, <4>1, <4>2, <4>3
      <4>5. InBatch(h)
        BY ONLY <4>2, f \in Fibers DEF InBatch
      <4>6. QED
        BY ONLY <2>1, <4>1, <4>4, <4>5
    <3>2. /\ Distinct(t) /\ batch'[f] = t /\ pc'[f] = l
          /\ l \in {"uWakeReaders", "idle"} /\ (l = "uWakeReaders" <=> t # <<>>)
      BY ONLY <1>5, <1>8, <1>9
    <3>3. QED
      BY ONLY <2>2, <3>1, <3>2 DEF BatchOf
  <2>3. CASE g # f
    <3>1. ASSUME NEW i \in DOMAIN batch[g]
          PROVE  pc'[batch[g][i]] = pc[batch[g][i]]
      <4>1. batch[g][i] \in Fibers
        BY <1>1
      <4>2. InBatch(batch[g][i])
        BY ONLY <3>1, g \in Fibers, Zenon DEF InBatch, In
      <4>3. QED
        BY ONLY <2>1, <4>1, <4>2
    <3>2. pc[g] = "wake" => 1 \in DOMAIN batch[g]
      BY <1>1, <1>10 DEF BatchOf
    <3>3. pc'[g] = pc[g] /\ batch'[g] = batch[g] /\ BatchOf(g)
      BY ONLY <1>9, <1>10, <1>18, <2>3, Zenon
    <3>4. QED
      BY ONLY <3>1, <3>2, <3>3, Zenon DEF BatchOf
  <2>4. QED
    BY ONLY <2>2, <2>3, Zenon
<1>19. ASSUME NEW g \in Fibers, g # e
       PROVE  Counted(g)' <=> Counted(g)
  <2>1. CASE g = f
    <3>1. l \notin CountPcs \cup ReadPcs /\ pc[f] \notin CountPcs \cup ReadPcs
      BY ONLY <1>2, <1>8 DEF CountPcs, ReadPcs
    <3>2. QED
      BY ONLY <1>9, <2>1, <3>1 DEF Counted
  <2>2. CASE g # f
    <3>1. pc'[g] = pc[g]
      BY ONLY <1>9, <1>19, <2>2
    <3>2. QED
      BY ONLY <1>2, <1>12, <1>19, <3>1 DEF Counted
  <2>3. QED
    BY ONLY <2>1, <2>2, Zenon
<1>20. /\ pc[f] = "uWakeReaders" => Counted(e)' /\ ~Counted(e)
       /\ pc[f] = "wake" => ~Counted(e)' /\ ~Counted(e)
  <2>1. /\ pc[f] = "uWakeReaders" => pc[e] \in ReadPcs
        /\ pc[f] = "wake" => pc[e] \in WritePcs
        /\ pc'[e] = pc[e] /\ ~In(e, readerq) /\ InBatch(e) /\ ~InBatch(e)' /\ ~In(e, readerq')
    <3>1. WaitOf(e) /\ (InBatch(e)' <=> InBatch(e) /\ e # e)
      BY ONLY <1>5, <1>10, <1>12
    <3>2. pc'[e] = pc[e] /\ InBatch(e) /\ readerq' = readerq
      BY ONLY <1>2, <1>5, <1>9, <1>11, <1>13
    <3>3. /\ pc[f] = "uWakeReaders" => pc[e] \in ReadPcs
          /\ pc[f] = "wake" => pc[e] \in WritePcs
      BY ONLY <1>5, <1>6
    <3>4. QED
      BY ONLY <3>1, <3>2, <3>3, Zenon DEF WaitOf
  <2>2. \A p \in WritePcs \cup ReadPcs : p \notin CountPcs /\ (p \in WritePcs => p \notin ReadPcs)
    BY Zenon DEF WritePcs, ReadPcs, CountPcs
  <2>3. /\ pc[e] \in ReadPcs \cup WritePcs /\ pc[e] \notin CountPcs
        /\ pc[e] \in WritePcs => pc[e] \notin ReadPcs
    BY ONLY <1>11, <2>2
  <2>4. QED
    BY ONLY <2>1, <2>3 DEF Counted
<1>21. CountInv'
  <2>1. \A g \in Fibers \ {e} : Counted(g)' <=> Counted(g)
    BY ONLY <1>19
  <2>2. \/ (Counted(e)' <=> Counted(e)) /\ readers' = readers
        \/ Counted(e)' /\ ~Counted(e) /\ readers' = readers + 1
    BY ONLY <1>2, <1>20
  <2>3. QED
    BY ONLY <1>1, <1>5, <2>1, <2>2, CountStep
<1>22. QED
  BY <1>14, <1>15, <1>16, <1>17, <1>18, <1>21 DEF IInv, FiberInv

(* A Ready fiber is resumed. *)
LEMMA ResumeInductive ==
    ASSUME IInv, NEW f \in Fibers, Resume(f), UNCHANGED mutexVars
    PROVE  IInv'
<1>1. /\ Types /\ SchedTypeOK /\ SchedInv /\ NoShutdown /\ FiberInv /\ QueueInv
      /\ PcOf(f) /\ WaitOf(f) /\ BatchOf(f)
  BY DEF IInv, FiberInv, Types
<1>2. SchedTypeOK' /\ SchedInv'
  BY ONLY <1>1, f \in Fibers, Resume(f), ResumePreserves
<1>3. /\ readers' = readers /\ writer' = writer /\ writerq' = writerq /\ readerq' = readerq
      /\ queueLock' = queueLock /\ batch' = batch /\ pc' = pc
  BY Zenon DEF mutexVars
<1>4. /\ fstate[f] = "Ready" /\ fstate'[f] = "Running" /\ wakeList' = wakeList
      /\ interrupted' = interrupted
      /\ \A g \in Fibers \ {f} : fstate'[g] = fstate[g]
  BY <1>1 DEF Resume, SchedTypeOK
<1>5. Types' /\ NoShutdown' /\ QueueInv'
  BY ONLY <1>1, <1>2, <1>3, <1>4 DEF Types, NoShutdown, QueueInv
<1>6. \A g \in Fibers : InBatch(g)' <=> InBatch(g)
  BY ONLY <1>3 DEF InBatch
<1>7. PcOf(f)'
  BY ONLY <1>1, <1>3, <1>4 DEF PcOf
<1>8. WaitOf(f)'
  BY ONLY <1>1, <1>3, <1>4, <1>6, f \in Fibers, Zenon DEF WaitOf, Asleep, Suspended
<1>9. BatchOf(f)'
  BY ONLY <1>1, <1>3 DEF BatchOf
<1>10. Counted(f)' <=> Counted(f)
  BY ONLY <1>3, <1>6, f \in Fibers DEF Counted
<1>11. QED
  BY ONLY IInv, f \in Fibers, <1>2, <1>3, <1>4, <1>5, <1>6, <1>7, <1>8, <1>9, <1>10, OwnStep, Zenon

(* A wake list is drained: its parked fibers are Ready. *)
LEMMA drainWakeListInductive ==
    ASSUME IInv, NEW s \in Scheds, drainWakeList(s), UNCHANGED mutexVars
    PROVE  IInv'
<1>1. Types /\ SchedTypeOK /\ SchedInv /\ NoShutdown /\ FiberInv /\ QueueInv /\ CountInv
  BY DEF IInv, Types
<1>2. SchedTypeOK' /\ SchedInv'
  BY ONLY <1>1, s \in Scheds, drainWakeList(s), drainWakeListPreserves
<1>3. /\ readers' = readers /\ writer' = writer /\ writerq' = writerq /\ readerq' = readerq
      /\ queueLock' = queueLock /\ batch' = batch /\ pc' = pc
  BY Zenon DEF mutexVars
<1>4. interrupted' = interrupted /\ wakeList \in [Scheds -> SUBSET Fibers]
      /\ Home \in [Fibers -> Scheds]
  BY <1>1, SchedAssumption DEF drainWakeList, SchedTypeOK
<1>5. ASSUME NEW g \in Fibers
      PROVE  /\ g \in wakeList'[Home[g]] => g \in wakeList[Home[g]]
             /\ fstate'[g] = fstate[g] \/ (fstate[g] = "Parked" /\ fstate'[g] = "Ready"
                                           /\ g \in wakeList[Home[g]])
             /\ g \in wakeList[Home[g]] /\ g \notin wakeList'[Home[g]] =>
                   fstate[g] # "Running" /\ (fstate[g] = "Parked" => fstate'[g] = "Ready")
  <2>1. /\ wakeList' = [wakeList EXCEPT ![s] = {}] /\ current[s] = NoFiber
        /\ fstate' = [h \in Fibers |->
                        IF h \in {k \in wakeList[s] : fstate[k] = "Parked"} THEN "Ready"
                        ELSE fstate[h]]
    BY ONLY drainWakeList(s), Zenon DEF drainWakeList, MakeReady
  <2>2. /\ wakeList'[Home[g]] = (IF Home[g] = s THEN {} ELSE wakeList[Home[g]])
        /\ g \in wakeList[s] => Home[g] = s
        /\ Home[g] = s => fstate[g] # "Running"
    <3>1. g # NoFiber
      BY SchedAssumption
    <3>2. QED
      BY ONLY <1>1, <1>4, <2>1, <3>1, s \in Scheds, g \in Fibers DEF SchedInv, Executing
  <2>3. QED
    BY ONLY <2>1, <2>2, g \in Fibers
<1>6. Types' /\ NoShutdown' /\ QueueInv'
  BY ONLY <1>1, <1>2, <1>3, <1>4 DEF Types, NoShutdown, QueueInv
<1>7. \A g \in Fibers : InBatch(g)' <=> InBatch(g)
  BY ONLY <1>3 DEF InBatch
<1>8. ASSUME NEW g \in Fibers
      PROVE  PcOf(g)' /\ WaitOf(g)' /\ BatchOf(g)'
  <2>1. PcOf(g) /\ WaitOf(g) /\ BatchOf(g)
    BY ONLY <1>1, <1>8 DEF FiberInv
  <2>2. PcOf(g)'
    BY ONLY <1>3, <1>5, <1>8, <2>1 DEF PcOf
  <2>3. /\ Asleep(g) => Asleep(g)'
        /\ g \in wakeList'[Home[g]] => g \in wakeList[Home[g]]
    BY ONLY <1>3, <1>5, <1>8 DEF Asleep, Suspended
  <2>4. g \in wakeList'[Home[g]] => fstate'[g] = fstate[g] /\ (Suspended(g)' <=> Suspended(g))
    <3>1. g \in wakeList'[Home[g]] => fstate'[g] = fstate[g]
      <4>1. g \in wakeList'[Home[g]] => Home[g] # s
        BY ONLY <1>4, s \in Scheds, drainWakeList(s) DEF drainWakeList
      <4>2. g \in wakeList[s] => Home[g] = s
        BY ONLY <1>1, s \in Scheds DEF SchedInv
      <4>3. QED
        BY ONLY <1>8, <4>1, <4>2, drainWakeList(s) DEF drainWakeList, MakeReady
    <3>2. QED
      BY ONLY <1>3, <3>1 DEF Suspended
  <2>5. pc[g] \in WritePcs \cup ReadPcs /\ g \in wakeList[Home[g]] /\ g \notin wakeList'[Home[g]]
           => fstate'[g] = "Ready" /\ pc[g] \in ParkPcs
    <3>1. pc[g] \in WritePcs \cup ReadPcs /\ fstate[g] # "Running" => pc[g] \in ParkPcs
      BY ONLY <2>1 DEF PcOf, RestPcs, WritePcs, ReadPcs, ParkPcs
    <3>2. QED
      BY ONLY <1>5, <1>8, <2>1, <3>1 DEF WaitOf, Suspended
  <2>6. fstate[g] \in {"Ready", "Running"} => fstate'[g] = fstate[g]
    BY ONLY <1>5, <1>8
  <2>7. WaitOf(g)'
    <3>1. /\ pc'[g] = pc[g] /\ (In(g, writerq)' <=> In(g, writerq))
          /\ (In(g, readerq)' <=> In(g, readerq)) /\ (InBatch(g)' <=> InBatch(g))
      BY ONLY <1>3, <1>7, <1>8
    <3>2. QED
      BY ONLY <2>1, <2>3, <2>4, <2>5, <2>6, <3>1, Zenon DEF WaitOf
  <2>8. BatchOf(g)'
    BY ONLY <1>3, <2>1 DEF BatchOf
  <2>9. QED
    BY ONLY <2>2, <2>7, <2>8
<1>9. CountInv'
  <2>1. \A g \in Fibers : Counted(g)' <=> Counted(g)
    BY ONLY <1>3, <1>7 DEF Counted
  <2>2. {g \in Fibers : Counted(g)}' = {g \in Fibers : Counted(g)}
    BY ONLY <2>1
  <2>3. QED
    BY ONLY <1>1, <1>3, <2>2 DEF CountInv
<1>10. QED
  BY <1>2, <1>6, <1>8, <1>9 DEF IInv, FiberInv

(* The invariant does not depend on anything else. *)
LEMMA StutterInductive == IInv /\ UNCHANGED vars => IInv'
<1> SUFFICES ASSUME IInv, UNCHANGED vars
             PROVE  IInv'
  OBVIOUS
<1>1. /\ fstate' = fstate /\ wakeList' = wakeList /\ current' = current
      /\ interrupted' = interrupted
      /\ readers' = readers /\ writer' = writer /\ writerq' = writerq /\ readerq' = readerq
      /\ queueLock' = queueLock /\ batch' = batch /\ pc' = pc
  BY Zenon DEF vars, schedVars, mutexVars
<1>2. Types' /\ SchedInv' /\ NoShutdown' /\ QueueInv'
  BY ONLY IInv, <1>1 DEF IInv, Types, SchedTypeOK, SchedInv, Executing, NoShutdown, QueueInv
<1>3. \A g \in Fibers : InBatch(g)' <=> InBatch(g)
  BY ONLY <1>1, Zenon DEF InBatch
<1>4. ASSUME NEW g \in Fibers
      PROVE  PcOf(g)' /\ WaitOf(g)' /\ BatchOf(g)'
  <2>1. PcOf(g) /\ WaitOf(g) /\ BatchOf(g)
    BY ONLY IInv, <1>4 DEF IInv, FiberInv
  <2>2. PcOf(g)' /\ BatchOf(g)'
    BY ONLY <1>1, <2>1 DEF PcOf, BatchOf
  <2>3. WaitOf(g)'
    BY ONLY <1>1, <1>3, <1>4, <2>1, Zenon DEF WaitOf, Asleep, Suspended
  <2>4. QED
    BY ONLY <2>2, <2>3
<1>5. CountInv'
  BY ONLY IInv, <1>1, <1>3, Zenon DEF IInv, CountInv, Counted
<1>6. QED
  BY ONLY <1>2, <1>4, <1>5 DEF IInv, FiberInv

(* No step of Next leaves the invariant. *)
LEMMA Inductive == IInv /\ [Next]_vars => IInv'
<1> SUFFICES ASSUME IInv, [Next]_vars
             PROVE  IInv'
  OBVIOUS
<1>1. CASE UNCHANGED vars
  BY ONLY IInv, <1>1, StutterInductive, Zenon
<1>2. CASE SchedStep /\ UNCHANGED mutexVars
  <2>1. \A s \in Scheds : ~interrupted[s] /\ s \notin Interruptible
    BY SharedMutexAssumption, Zenon DEF IInv, NoShutdown
  <2>2. \/ \E s \in Scheds : drainWakeList(s)
        \/ \E f \in Fibers : Resume(f)
    BY ONLY <1>2, <2>1 DEF SchedStep, Interrupt, ShutdownScan
  <2>3. QED
    BY ONLY IInv, <1>2, <2>2, drainWakeListInductive, ResumeInductive
<1>3. CASE \E f \in Fibers : FiberStep(f)
  <2>1. PICK f \in Fibers : FiberStep(f)
    BY ONLY <1>3, Zenon
  <2>2. CASE \/ LockTest(f) \/ TryLockTest(f) \/ LockTake(f) \/ UnlockClear(f)
             \/ SharedLoad(f) \/ TrySharedLoad(f) \/ SharedAdd(f) \/ SharedCheck(f) \/ SharedUndo(f)
             \/ ParkReturn(f) \/ UnlockShared(f) \/ UnlockSharedLast(f)
             \/ SharedSlow(f) /\ ~writer /\ writerq = <<>>
             \/ UnlockHandoff(f) /\ readerq = <<>> /\ writerq = <<>>
    <3>1. \E l : LocalTo(f, l)
      BY ONLY IInv, <2>2, LockIsLocal, SharedIsLocal, ReturnIsLocal
    <3>2. QED
      BY ONLY IInv, <3>1, LocalStep
  <2>3. CASE ParkWaiter(f) \/ Yield(f)
    BY ONLY IInv, <2>3, SwitchOutInductive
  <2>4. CASE LockEnqueue(f) \/ (SharedSlow(f) /\ (writer \/ writerq # <<>>))
    BY ONLY IInv, <2>4, EnqueueInductive
  <2>5. CASE \/ UnlockHandoff(f) /\ (readerq # <<>> \/ writerq # <<>>)
             \/ UnlockSharedHandoff(f)
    BY ONLY IInv, <2>5, HandoffInductive
  <2>6. CASE UnlockWakeReader(f) \/ WakeWriter(f)
    BY ONLY IInv, <2>6, WakeInductive, Zenon
  <2>7. QED
    BY ONLY <2>1, <2>2, <2>3, <2>4, <2>5, <2>6, Zenon DEF FiberStep
<1>4. QED
  BY ONLY [Next]_vars, <1>1, <1>2, <1>3 DEF Next

(* The first state: nobody waits and nobody is counted. *)
LEMMA InitIInv == Init => IInv
<1> SUFFICES ASSUME Init
             PROVE  IInv
  OBVIOUS
<1>1. /\ SchedTypeOK /\ SchedInv
      /\ \A f \in Fibers : fstate[f] = "Ready" /\ f \notin wakeList[Home[f]]
      /\ \A s \in Scheds : ~interrupted[s]
  BY SchedInitInv, SchedAssumption DEF Init, SchedInit
<1>2. /\ readers = 0 /\ writer = FALSE /\ writerq = <<>> /\ readerq = <<>>
      /\ queueLock = NoFiber /\ NoFiber \notin Fibers
      /\ \A f \in Fibers : pc[f] = "idle" /\ batch[f] = <<>>
  BY SchedAssumption, Zenon DEF Init
<1>3. Types
  <2>1. writer \in BOOLEAN
    BY ONLY <1>2, Zenon
  <2>2. QED
    BY <1>1, <1>2, <2>1 DEF Init, Types, Pcs
<1>4. \A g \in Fibers : ~In(g, writerq) /\ ~In(g, readerq) /\ ~InBatch(g)
  BY ONLY <1>2, ShortFacts, Zenon DEF InBatch
<1>5. Distinct(<<>>) /\ \A g : ~In(g, <<>>)
  BY ONLY ShortFacts
<1>6. FiberInv
  BY ONLY <1>1, <1>2, <1>4, <1>5, Zenon
     DEF FiberInv, PcOf, WaitOf, BatchOf, RestPcs, LockPcs, WritePcs, ReadPcs
<1>7. QueueInv
  BY ONLY <1>2, <1>5, Zenon DEF QueueInv
<1>8. CountInv
  <2>1. {g \in Fibers : Counted(g)} = {}
    BY ONLY <1>2, Zenon DEF Counted, CountPcs, ReadPcs
  <2>2. QED
    BY ONLY <1>2, <2>1, FS_EmptySet DEF CountInv
<1>9. QED
  BY ONLY <1>1, <1>3, <1>6, <1>7, <1>8 DEF IInv, NoShutdown

(* IInv holds throughout. *)
LEMMA InvariantHolds == Spec => []IInv
  BY InitIInv, Inductive, PTL DEF Spec

(* On any number of threads _readers counts exactly the fibers that hold   *)
(* the mutex shared, that unlock() has admitted, or whose fast path has    *)
(* not yet looked again.                                                   *)
THEOREM ReadersAreCounted == Spec => []ReaderCountExact
<1>1. IInv => ReaderCountExact
  <2> SUFFICES ASSUME IInv
               PROVE  ReaderCountExact
    OBVIOUS
  <2> DEFINE S == {f \in Fibers : Counted(f)}
  <2>1. Types /\ readers = Cardinality(S)
    BY Zenon DEF IInv, CountInv
  <2>2. IsFiniteSet(Fibers) /\ S \subseteq Fibers
    BY SharedMutexAssumption
  <2>3. S = {f \in Fibers :
              \/ pc[f] \in {"rHeld", "rCheck", "rUndo", "tCheck", "tUndo"}
              \/ /\ pc[f] \in {"rQueued", "rParked"}
                 /\ \A i \in DOMAIN readerq : readerq[i] # f
                 /\ \A g \in Fibers : \A i \in DOMAIN batch[g] : batch[g][i] # f}
    BY ONLY TRUE DEF Counted, CountPcs, ReadPcs, In, InBatch
  <2> HIDE DEF S
  <2>4. Cardinality(S) \in Nat /\ Cardinality(Fibers) \in Nat /\ Cardinality(S) <= Cardinality(Fibers)
    BY ONLY <2>2, FS_Subset, FS_CardinalityType
  <2>5. readers \in 0..(2 * Cardinality(Fibers))
    BY ONLY <2>1, <2>4
  <2>6. QED
    BY ONLY <2>1, <2>3, <2>5 DEF ReaderCountExact, TypeOK, Types
<1>2. QED
  BY <1>1, InvariantHolds, PTL

(* On any number of threads no unlock drops a waiter that it has taken off *)
(* a queue.                                                                *)
THEOREM NoWaiterIsDropped == Spec => []WaiterAccountedFor
<1>1. IInv => WaiterAccountedFor
  BY Zenon DEF IInv, FiberInv, WaitOf, WaiterAccountedFor, In, InBatch, WritePcs, ReadPcs, ParkPcs
<1>2. QED
  BY <1>1, InvariantHolds, PTL

-----------------------------------------------------------------------------
(* The fibers of one thread.                                               *)

(* It has the mutex exclusively, or has been handed it. *)
WriteSide(f) == pc[f] = "wHeld" \/ (pc[f] \in WritePcs /\ ~In(f, writerq))

(* It has the mutex shared, or is being admitted. *)
ReadSide(f) == pc[f] \in CountPcs \/ (pc[f] \in ReadPcs /\ ~In(f, readerq))

NoReader == \A g \in Fibers : ~ReadSide(g)

(* _writer is set for exactly one fiber, and then there is no reader. *)
OwnerInv ==
    /\ \A f, g \in Fibers : WriteSide(f) /\ WriteSide(g) => f = g
    /\ \A f \in Fibers : WriteSide(f) => writer /\ NoReader
    /\ writer => \E f \in Fibers : WriteSide(f)

(* What the fiber that runs has found is still so. *)
FoundOf(f) ==
    /\ pc[f] \in {"wTake", "uHandoff", "ruHandoff"} => ~writer /\ NoReader
    /\ pc[f] \in {"rHead", "rAdd", "rCheck", "tAdd", "tCheck", "ruLast", "uWakeReaders"} => ~writer
    /\ pc[f] \notin {"rUndo", "tUndo"}
    /\ pc[f] = "wEnqueue" => writer \/ readers # 0 \/ writerq # <<>>

(* The queues wait for somebody. *)
WaitInv ==
    /\ writerq # <<>> =>
          \/ writer \/ readers # 0
          \/ \E f \in Fibers : pc[f] \in {"uHandoff", "uWakeReaders", "ruLast", "ruHandoff"}
    /\ readerq # <<>> => writer \/ writerq # <<>> \/ \E f \in Fibers : pc[f] = "uHandoff"

OneThreadInv == OwnerInv /\ (\A f \in Fibers : FoundOf(f)) /\ WaitInv

-----------------------------------------------------------------------------
(* One thread: a fiber that runs runs alone, between two suspensions.      *)

(* All the fibers are of one scheduler. *)
OneThread == \A f, g \in Fibers : Home[f] = Home[g]

(* WaitInv, when only f can be inside an operation. *)
WaitFor(f) ==
    /\ writerq # <<>> =>
          writer \/ readers # 0 \/ pc[f] \in {"uHandoff", "uWakeReaders", "ruLast", "ruHandoff"}
    /\ readerq # <<>> => writer \/ writerq # <<>> \/ pc[f] = "uHandoff"

(* What a running fiber may rely on. *)
Alone(f) ==
    /\ \A g \in Fibers \ {f} : pc[g] \in RestPcs
    /\ pc \in [Fibers -> Pcs]
    /\ OwnerInv /\ FoundOf(f) /\ WaitFor(f)
    /\ readers \in Nat
    /\ pc[f] \in CountPcs => readers # 0
    /\ readers = 0 /\ pc[f] # "uWakeReaders" => NoReader
    /\ pc[f] \in ParkPcs => ~In(f, writerq) /\ ~In(f, readerq)

LEMMA RunsAlone ==
    ASSUME OneThread, IInv, OneThreadInv, NEW f \in Fibers, Executing(f)
    PROVE  Alone(f)
<1>1. /\ Types /\ SchedInv /\ FiberInv /\ CountInv /\ OwnerInv /\ FoundOf(f) /\ WaitInv
      /\ pc \in [Fibers -> Pcs] /\ NoFiber \notin Fibers
  BY SchedAssumption, Zenon DEF IInv, Types, OneThreadInv
<1>2. ASSUME NEW g \in Fibers, g # f
      PROVE  pc[g] \in RestPcs
  <2>1. ~Executing(g)
    BY ONLY OneThread, Executing(f), <1>2, f \in Fibers DEF OneThread, Executing
  <2>2. QED
    BY ONLY <1>1, <1>2, <2>1 DEF SchedInv, FiberInv, PcOf
<1>3. WaitFor(f)
  <2>1. \A g \in Fibers : pc[g] \in {"uHandoff", "uWakeReaders", "ruLast", "ruHandoff"} => g = f
    BY ONLY <1>2 DEF RestPcs
  <2>2. QED
    BY ONLY <1>1, <2>1 DEF WaitInv, WaitFor
<1>4. /\ readers \in Nat
      /\ \A g \in Fibers : Counted(g) => readers # 0
  <2> DEFINE S == {g \in Fibers : Counted(g)}
  <2>1. IsFiniteSet(S) /\ readers = Cardinality(S)
    <3>1. S \subseteq Fibers /\ IsFiniteSet(Fibers)
      BY SharedMutexAssumption
    <3>2. QED
      BY <1>1, <3>1, FS_Subset DEF CountInv
  <2>2. \A g \in Fibers : Counted(g) => g \in S
    OBVIOUS
  <2> HIDE DEF S
  <2>3. Cardinality(S) \in Nat /\ (Cardinality(S) = 0 => S = {})
    BY ONLY <2>1, FS_CardinalityType, FS_EmptySet
  <2>4. QED
    BY ONLY <2>1, <2>2, <2>3
<1>5. pc[f] \in CountPcs => readers # 0
  BY ONLY <1>4, f \in Fibers DEF Counted
<1>6. ASSUME readers = 0, pc[f] # "uWakeReaders", NEW g \in Fibers, ReadSide(g)
      PROVE  FALSE
  <2>1. ~Counted(g)
    BY ONLY <1>4, <1>6
  <2>2. InBatch(g) /\ pc[g] \in ReadPcs
    BY ONLY <1>6, <2>1 DEF ReadSide, Counted
  <2>3. PICK h \in Fibers : In(g, batch[h])
    BY ONLY <2>2 DEF InBatch
  <2>4. BatchOf(h)
    BY ONLY <1>1, <2>3 DEF FiberInv
  <2>5. batch[h] # <<>>
    BY ONLY <2>3, ShortFacts
  <2>6. h = f /\ pc[f] = "wake"
    BY ONLY <1>2, <1>6, <2>4, <2>5 DEF BatchOf, RestPcs
  <2>7. batch[h] \in Seq(Fibers) /\ Len(batch[h]) = 1 /\ pc[batch[h][1]] \in WritePcs
    BY ONLY <1>1, <2>4, <2>6, h \in Fibers DEF Types, BatchOf
  <2>8. g = batch[h][1]
    <3>1. DOMAIN batch[h] = {1}
      BY ONLY <2>7
    <3>2. QED
      BY ONLY <2>3, <3>1 DEF In
  <2>9. QED
    BY ONLY <2>2, <2>7, <2>8 DEF ReadPcs, WritePcs
<1>7. fstate[f] = "Running" /\ WaitOf(f)
  BY ONLY <1>1, Executing(f), f \in Fibers DEF SchedInv, FiberInv
<1>8. pc[f] \in ParkPcs => ~In(f, writerq) /\ ~In(f, readerq)
  BY ONLY <1>7 DEF WaitOf, Asleep, Suspended
<1>9. QED
  BY ONLY <1>1, <1>2, <1>3, <1>4, <1>5, <1>6, <1>8 DEF Alone, NoReader

(* A step of the fiber that runs: what there is to show. *)
LEMMA AloneStep ==
    ASSUME NEW f \in Fibers, Alone(f), NEW l, Goto(f, l),
           OwnerInv', FoundOf(f)', WaitFor(f)'
    PROVE  OneThreadInv'
<1>1. /\ \A g \in Fibers \ {f} : pc[g] \in RestPcs /\ pc'[g] = pc[g]
  BY Zenon DEF Alone, Goto
<1>2. \A g \in Fibers \ {f} : FoundOf(g)'
  BY ONLY <1>1, Zenon DEF FoundOf, RestPcs
<1>3. WaitInv'
  BY ONLY WaitFor(f)', f \in Fibers DEF WaitInv, WaitFor
<1>4. QED
  BY ONLY OwnerInv', FoundOf(f)', <1>2, <1>3 DEF OneThreadInv

(* The other fibers change sides only if they leave a queue. *)
LEMMA OtherSides ==
    ASSUME NEW f \in Fibers, Alone(f), NEW l, Goto(f, l)
    PROVE  /\ pc'[f] = l
           /\ \A g \in Fibers \ {f} :
                 /\ (In(g, writerq)' <=> In(g, writerq)) => (WriteSide(g)' <=> WriteSide(g))
                 /\ (In(g, readerq)' <=> In(g, readerq)) => (ReadSide(g)' <=> ReadSide(g))
<1>1. pc'[f] = l /\ \A g \in Fibers \ {f} : pc'[g] = pc[g]
  BY DEF Alone, Goto
<1>2. QED
  BY ONLY <1>1, Zenon DEF WriteSide, ReadSide

(* Nobody changes sides. *)
LEMMA SameSides ==
    ASSUME NEW f \in Fibers, Alone(f), NEW l, Goto(f, l), writer' = writer,
           \A g \in Fibers \ {f} : /\ In(g, writerq)' <=> In(g, writerq)
                                   /\ In(g, readerq)' <=> In(g, readerq),
           WriteSide(f)' <=> WriteSide(f), ReadSide(f)' <=> ReadSide(f),
           FoundOf(f)', WaitFor(f)'
    PROVE  OneThreadInv'
<1>1. \A g \in Fibers : (WriteSide(g)' <=> WriteSide(g)) /\ (ReadSide(g)' <=> ReadSide(g))
  BY ONLY f \in Fibers, Alone(f), Goto(f, l),
          \A g \in Fibers \ {f} : /\ In(g, writerq)' <=> In(g, writerq)
                                  /\ In(g, readerq)' <=> In(g, readerq),
          WriteSide(f)' <=> WriteSide(f), ReadSide(f)' <=> ReadSide(f), OtherSides
<1>2. OwnerInv
  BY Zenon DEF Alone
<1>3. OwnerInv'
  BY ONLY <1>1, <1>2, writer' = writer DEF OwnerInv, NoReader
<1>4. QED
  BY ONLY f \in Fibers, Alone(f), Goto(f, l), FoundOf(f)', WaitFor(f)', <1>3,
          AloneStep

(* Nobody has the mutex exclusively afterwards. *)
LEMMA NoWriterAfter ==
    ASSUME NEW f \in Fibers, Alone(f), NEW l, Goto(f, l), ~writer',
           ~writer \/ WriteSide(f), writerq' = writerq,
           l \notin WritePcs \cup {"wHeld"},
           FoundOf(f)', WaitFor(f)'
    PROVE  OneThreadInv'
<1>1. OwnerInv
  BY Zenon DEF Alone
<1>2. \A g \in Fibers \ {f} : ~WriteSide(g)
  BY ONLY <1>1, ~writer \/ WriteSide(f), f \in Fibers DEF OwnerInv
<1>3. \A g \in Fibers \ {f} : ~WriteSide(g)'
  BY ONLY f \in Fibers, Alone(f), Goto(f, l), writerq' = writerq, <1>2, OtherSides
<1>4. pc'[f] = l
  BY DEF Alone, Goto
<1>5. ~WriteSide(f)'
  BY ONLY <1>4, l \notin WritePcs \cup {"wHeld"} DEF WriteSide
<1>6. OwnerInv'
  BY ONLY <1>3, <1>5, ~writer' DEF OwnerInv
<1>7. QED
  BY ONLY f \in Fibers, Alone(f), Goto(f, l), FoundOf(f)', WaitFor(f)', <1>6,
          AloneStep, Zenon


(* Where a fiber is on neither side. *)
OutPcs == {"idle", "wTake", "wEnqueue", "uHandoff", "uWakeReaders", "rHead", "rAdd", "rSlow",
           "tAdd", "ruLast", "ruHandoff", "wake"}

(* A step outside, to a label where what it relies on holds. *)
LEMMA OutStep ==
    ASSUME NEW f \in Fibers, Alone(f), NEW l \in OutPcs, Goto(f, l), pc[f] \in OutPcs,
           writer' = writer, writerq' = writerq, readerq' = readerq,
           l \in {"wTake", "uHandoff", "ruHandoff"} => ~writer /\ NoReader,
           l \in {"rHead", "rAdd", "tAdd", "ruLast", "uWakeReaders"} => ~writer,
           l = "wEnqueue" => writer \/ readers' # 0 \/ writerq # <<>>,
           WaitFor(f)'
    PROVE  OneThreadInv'
<1>1. pc'[f] = l
  BY DEF Alone, Goto
<1>2. \A p \in OutPcs : p \notin CountPcs \cup ReadPcs \cup WritePcs \cup {"wHeld", "rUndo", "tUndo"}
  BY DEF OutPcs, CountPcs, ReadPcs, WritePcs
<1>3. ~WriteSide(f) /\ ~WriteSide(f)' /\ ~ReadSide(f) /\ ~ReadSide(f)'
  BY ONLY <1>1, <1>2, pc[f] \in OutPcs, l \in OutPcs DEF WriteSide, ReadSide
<1>4. \A g \in Fibers \ {f} : ReadSide(g)' <=> ReadSide(g)
  BY ONLY f \in Fibers, Alone(f), Goto(f, l), readerq' = readerq, OtherSides
<1>5. NoReader' <=> NoReader
  BY ONLY <1>3, <1>4 DEF NoReader
<1>6. l \notin {"rCheck", "tCheck", "rUndo", "tUndo"}
  BY DEF OutPcs
<1>7. FoundOf(f)'
  BY ONLY <1>1, <1>5, <1>6, writer' = writer, writerq' = writerq,
          l \in {"wTake", "uHandoff", "ruHandoff"} => ~writer /\ NoReader,
          l \in {"rHead", "rAdd", "tAdd", "ruLast", "uWakeReaders"} => ~writer,
          l = "wEnqueue" => writer \/ readers' # 0 \/ writerq # <<>>
     DEF FoundOf
<1>8. QED
  BY ONLY f \in Fibers, Alone(f), Goto(f, l), writer' = writer, writerq' = writerq,
          readerq' = readerq, WaitFor(f)', <1>3, <1>7, SameSides

(* The tests of lock() and try_lock(), the loads of lock_shared() and of   *)
(* try_lock_shared().                                                      *)
LEMMA TestsAlone ==
    ASSUME NEW f \in Fibers, Alone(f),
           LockTest(f) \/ TryLockTest(f) \/ SharedLoad(f) \/ TrySharedLoad(f)
    PROVE  OneThreadInv'
<1>1. /\ WaitFor(f) /\ FoundOf(f) /\ (readers = 0 /\ pc[f] # "uWakeReaders" => NoReader)
      /\ pc \in [Fibers -> Pcs]
  BY DEF Alone
<1>2. /\ writer' = writer /\ writerq' = writerq /\ readerq' = readerq /\ readers' = readers
      /\ pc[f] \in {"idle", "rHead"}
  BY DEF LockTest, TryLockTest, SharedLoad, TrySharedLoad, At
<1>3. ASSUME NEW l, Goto(f, l)
      PROVE  WaitFor(f)'
  BY ONLY <1>1, <1>2 DEF WaitFor
<1>4. pc[f] \in OutPcs
  BY ONLY <1>2 DEF OutPcs
<1>5. \E l \in OutPcs :
         /\ Goto(f, l)
         /\ l \in {"wTake", "uHandoff", "ruHandoff"} => ~writer /\ NoReader
         /\ l \in {"rHead", "rAdd", "tAdd", "ruLast", "uWakeReaders"} => ~writer
         /\ l = "wEnqueue" => writer \/ readers # 0 \/ writerq # <<>>
  <2>1. CASE LockTest(f)
    <3> DEFINE l == IF Free THEN "wTake" ELSE "wEnqueue"
    <3>1. Goto(f, l) /\ pc[f] = "idle"
      BY ONLY <2>1 DEF LockTest, At
    <3>2. /\ l \in OutPcs /\ l \in {"wTake", "wEnqueue"}
          /\ l = "wTake" => ~writer /\ NoReader
          /\ l = "wEnqueue" => writer \/ readers # 0 \/ writerq # <<>>
      BY ONLY <1>1, <3>1 DEF Free, OutPcs
    <3>3. QED
      BY ONLY <3>1, <3>2
  <2>2. CASE TryLockTest(f)
    <3>1. Goto(f, "wTake") /\ pc[f] = "idle" /\ ~writer /\ readers = 0
      BY ONLY <2>2 DEF TryLockTest, At
    <3>2. "wTake" \in OutPcs /\ NoReader
      BY ONLY <1>1, <3>1 DEF OutPcs
    <3>3. QED
      BY ONLY <3>1, <3>2
  <2>3. CASE SharedLoad(f)
    <3>1. PICK l \in {"rSlow", "rHead", "rAdd"} :
             Goto(f, l) /\ (l = "rHead" => ~writer) /\ (l = "rAdd" => pc[f] = "rHead")
      BY ONLY <2>3 DEF SharedLoad, At
    <3>2. l \in OutPcs /\ (l \in {"rHead", "rAdd"} => ~writer)
      BY ONLY <1>1, <3>1 DEF OutPcs, FoundOf
    <3>3. QED
      BY ONLY <3>1, <3>2
  <2>4. CASE TrySharedLoad(f)
    <3>1. Goto(f, "tAdd") /\ ~writer /\ "tAdd" \in OutPcs
      BY ONLY <2>4 DEF TrySharedLoad, OutPcs
    <3>2. QED
      BY ONLY <3>1, Zenon
  <2>5. QED
    BY ONLY <2>1, <2>2, <2>3, <2>4, LockTest(f) \/ TryLockTest(f) \/ SharedLoad(f) \/ TrySharedLoad(f)
<1>6. QED
  BY ONLY f \in Fibers, Alone(f), <1>2, <1>3, <1>4, <1>5, OutStep

(* The ends of unlock() and unlock_shared(). *)
LEMMA EndsAlone ==
    ASSUME NEW f \in Fibers, Alone(f),
           \/ UnlockHandoff(f) /\ readerq = <<>> /\ writerq = <<>>
           \/ UnlockWakeReader(f) \/ WakeWriter(f) \/ UnlockSharedLast(f)
    PROVE  OneThreadInv'
<1>1. /\ WaitFor(f) /\ FoundOf(f) /\ (readers = 0 /\ pc[f] # "uWakeReaders" => NoReader)
      /\ pc \in [Fibers -> Pcs] /\ readers \in Nat
  BY Zenon DEF Alone
<1>2. /\ writer' = writer /\ writerq' = writerq /\ readerq' = readerq
      /\ pc[f] \in {"uHandoff", "uWakeReaders", "wake", "ruLast"}
  BY Zenon DEF UnlockHandoff, UnlockWakeReader, WakeWriter, UnlockSharedLast, At
<1>3. pc[f] \in OutPcs
  BY ONLY <1>2 DEF OutPcs
<1>4. ASSUME NEW l \in {"idle", "uWakeReaders", "ruHandoff"}, Goto(f, l),
             l = "uWakeReaders" => ~writer,
             l = "ruHandoff" => ~writer /\ NoReader,
             WaitFor(f)'
      PROVE  OneThreadInv'
  <2>1. l \in OutPcs
    BY ONLY <1>4 DEF OutPcs
  <2>2. QED
    BY ONLY f \in Fibers, Alone(f), <1>2, <1>3, <1>4, <2>1, OutStep
<1>5. CASE UnlockHandoff(f) /\ readerq = <<>> /\ writerq = <<>>
  <2>1. Goto(f, "idle")
    BY ONLY <1>5 DEF UnlockHandoff
  <2>2. WaitFor(f)'
    BY ONLY <1>2, <1>5 DEF WaitFor
  <2>3. QED
    BY ONLY <1>4, <2>1, <2>2
<1>6. CASE UnlockWakeReader(f)
  <2> DEFINE l == IF Len(batch[f]) = 1 THEN "idle" ELSE "uWakeReaders"
  <2>1. Goto(f, l) /\ pc[f] = "uWakeReaders" /\ readers' = readers + 1
    BY ONLY <1>6 DEF UnlockWakeReader, At
  <2>2. readers' # 0
    BY ONLY <1>1, <2>1
  <2>3. ~writer /\ l \in {"idle", "uWakeReaders"}
    BY ONLY <1>1, <2>1 DEF FoundOf
  <2>4. WaitFor(f)'
    BY ONLY <1>1, <1>2, <2>1, <2>2 DEF WaitFor
  <2> HIDE DEF l
  <2>5. QED
    BY ONLY <1>4, <2>1, <2>3, <2>4
<1>7. CASE WakeWriter(f)
  <2>1. Goto(f, "idle") /\ pc[f] = "wake" /\ readers' = readers
    BY ONLY <1>7, Zenon DEF WakeWriter, At
  <2>2. WaitFor(f)'
    BY ONLY <1>1, <1>2, <2>1 DEF WaitFor
  <2>3. QED
    BY ONLY <1>4, <2>1, <2>2
<1>8. CASE UnlockSharedLast(f)
  <2>1. PICK l \in {"idle", "ruHandoff"} :
           /\ Goto(f, l)
           /\ l = "ruHandoff" => readers = 0
           /\ l = "idle" => readers # 0 \/ writerq = <<>>
    BY ONLY <1>8, Zenon DEF UnlockSharedLast
  <2>2. pc[f] = "ruLast" /\ readers' = readers /\ ~writer
    BY ONLY <1>1, <1>8 DEF UnlockSharedLast, At, FoundOf
  <2>3. pc'[f] = l
    BY ONLY <1>1, <2>1, f \in Fibers DEF Goto
  <2>4. WaitFor(f)'
    BY ONLY <1>1, <1>2, <2>1, <2>2, <2>3 DEF WaitFor
  <2>5. QED
    BY ONLY <1>1, <1>4, <2>1, <2>2, <2>4
<1>9. QED
  BY ONLY <1>5, <1>6, <1>7, <1>8,
          \/ UnlockHandoff(f) /\ readerq = <<>> /\ writerq = <<>>
          \/ UnlockWakeReader(f) \/ WakeWriter(f) \/ UnlockSharedLast(f)


(* The steps of a waiter, and the second load of lock_shared(). *)
LEMMA WaitersAlone ==
    ASSUME NEW f \in Fibers, Alone(f), Types,
           \/ ParkWaiter(f) \/ ParkReturn(f) \/ LockEnqueue(f) \/ SharedCheck(f)
           \/ SharedSlow(f) /\ (writer \/ writerq # <<>>)
    PROVE  OneThreadInv'
<1>1. /\ WaitFor(f) /\ FoundOf(f) /\ pc \in [Fibers -> Pcs]
      /\ pc[f] \in ParkPcs => ~In(f, writerq) /\ ~In(f, readerq)
      /\ writerq \in Seq(Fibers) /\ readerq \in Seq(Fibers)
  BY Zenon DEF Alone, Types
<1>2. writer' = writer /\ readers' = readers
  BY Zenon DEF ParkWaiter, ParkReturn, LockEnqueue, SharedCheck, SharedSlow
<1>3. ASSUME NEW l \in {"wQueued", "rQueued", "wParked", "rParked", "wHeld", "rHeld"}, Goto(f, l),
             \A g \in Fibers \ {f} : /\ In(g, writerq)' <=> In(g, writerq)
                                     /\ In(g, readerq)' <=> In(g, readerq),
             WriteSide(f)' <=> WriteSide(f), ReadSide(f)' <=> ReadSide(f), WaitFor(f)'
      PROVE  OneThreadInv'
  <2>1. pc'[f] = l
    BY ONLY <1>1, <1>3, f \in Fibers DEF Goto
  <2>2. FoundOf(f)'
    BY ONLY <1>3, <2>1 DEF FoundOf
  <2>3. QED
    BY ONLY f \in Fibers, Alone(f), <1>2, <1>3, <2>2, SameSides
<1>4. CASE ParkWaiter(f) \/ ParkReturn(f) \/ SharedCheck(f)
  <2>1. PICK l : /\ Goto(f, l)
                 /\ \/ pc[f] = "wQueued" /\ l = "wParked"
                    \/ pc[f] = "rQueued" /\ l = "rParked"
                    \/ pc[f] = "wParked" /\ l = "wHeld"
                    \/ pc[f] = "rParked" /\ l = "rHeld"
                    \/ pc[f] \in {"rCheck", "tCheck"} /\ l = "rHeld"
    <3>1. pc[f] \in {"rCheck", "tCheck"} => ~writer
      BY ONLY <1>1 DEF FoundOf
    <3>2. QED
      BY ONLY <1>4, <3>1 DEF ParkWaiter, ParkReturn, SharedCheck, At
  <2>2. writerq' = writerq /\ readerq' = readerq
    BY ONLY <1>4 DEF ParkWaiter, ParkReturn, SharedCheck
  <2>3. pc'[f] = l
    BY ONLY <1>1, <2>1, f \in Fibers DEF Goto
  <2>4. WriteSide(f)' <=> WriteSide(f)
    BY ONLY <1>1, <2>1, <2>2, <2>3 DEF WriteSide, WritePcs, ParkPcs
  <2>5. ReadSide(f)' <=> ReadSide(f)
    BY ONLY <1>1, <2>1, <2>2, <2>3 DEF ReadSide, ReadPcs, ParkPcs, CountPcs
  <2>6. WaitFor(f)'
    BY ONLY <1>1, <1>2, <2>1, <2>2 DEF WaitFor
  <2>7. l \in {"wQueued", "rQueued", "wParked", "rParked", "wHeld", "rHeld"}
    BY ONLY <2>1
  <2>8. QED
    BY ONLY <1>3, <2>1, <2>2, <2>4, <2>5, <2>6, <2>7
<1>5. CASE LockEnqueue(f)
  <2>1. /\ Goto(f, "wQueued") /\ pc[f] = "wEnqueue"
        /\ writerq' = Append(writerq, f) /\ readerq' = readerq
    BY ONLY <1>5 DEF LockEnqueue, At
  <2>2. writerq' # <<>> /\ \A g : In(g, writerq') <=> In(g, writerq) \/ g = f
    BY ONLY <1>1, <2>1, f \in Fibers, AppendFacts
  <2>3. pc'[f] = "wQueued"
    BY ONLY <1>1, <2>1, f \in Fibers DEF Goto
  <2>4. ~WriteSide(f) /\ ~WriteSide(f)' /\ ~ReadSide(f) /\ ~ReadSide(f)'
    BY ONLY <2>1, <2>2, <2>3 DEF WriteSide, WritePcs, ReadSide, ReadPcs, CountPcs
  <2>5. WaitFor(f)'
    BY ONLY <1>1, <1>2, <2>1, <2>2 DEF WaitFor, FoundOf
  <2>6. \A g \in Fibers \ {f} : /\ In(g, writerq)' <=> In(g, writerq)
                                /\ In(g, readerq)' <=> In(g, readerq)
    BY ONLY <2>1, <2>2
  <2>7. QED
    BY ONLY <1>3, <2>1, <2>4, <2>5, <2>6
<1>6. CASE SharedSlow(f) /\ (writer \/ writerq # <<>>)
  <2>1. /\ Goto(f, "rQueued") /\ pc[f] = "rSlow"
        /\ readerq' = Append(readerq, f) /\ writerq' = writerq
    BY ONLY <1>6 DEF SharedSlow, At
  <2>2. \A g : In(g, readerq') <=> In(g, readerq) \/ g = f
    BY ONLY <1>1, <2>1, f \in Fibers, AppendFacts
  <2>3. pc'[f] = "rQueued"
    BY ONLY <1>1, <2>1, f \in Fibers DEF Goto
  <2>4. ~WriteSide(f) /\ ~WriteSide(f)' /\ ~ReadSide(f) /\ ~ReadSide(f)'
    BY ONLY <2>1, <2>2, <2>3 DEF WriteSide, WritePcs, ReadSide, ReadPcs, CountPcs
  <2>5. WaitFor(f)'
    BY ONLY <1>1, <1>2, <1>6, <2>1 DEF WaitFor
  <2>6. \A g \in Fibers \ {f} : /\ In(g, writerq)' <=> In(g, writerq)
                                /\ In(g, readerq)' <=> In(g, readerq)
    BY ONLY <2>1, <2>2
  <2>7. QED
    BY ONLY <1>3, <2>1, <2>4, <2>5, <2>6
<1>7. QED
  BY ONLY <1>4, <1>5, <1>6,
          \/ ParkWaiter(f) \/ ParkReturn(f) \/ LockEnqueue(f) \/ SharedCheck(f)
          \/ SharedSlow(f) /\ (writer \/ writerq # <<>>)

(* A reader enters or leaves; unlock() clears _writer or admits readers. *)
LEMMA ReadersAlone ==
    ASSUME NEW f \in Fibers, Alone(f),
           \/ SharedAdd(f) \/ (SharedSlow(f) /\ ~writer /\ writerq = <<>>)
           \/ UnlockShared(f) \/ UnlockClear(f) \/ (UnlockHandoff(f) /\ readerq # <<>>)
    PROVE  OneThreadInv'
<1>1. /\ WaitFor(f) /\ FoundOf(f) /\ OwnerInv /\ pc \in [Fibers -> Pcs] /\ readers \in Nat
      /\ pc[f] \in CountPcs => readers # 0
  BY Zenon DEF Alone
<1>2. writerq' = writerq
  BY DEF SharedAdd, SharedSlow, UnlockShared, UnlockClear, UnlockHandoff
<1>3. ASSUME NEW l \in {"idle", "rCheck", "tCheck", "rHeld", "ruLast", "uHandoff", "uWakeReaders"},
             Goto(f, l), ~writer', ~writer \/ WriteSide(f), WaitFor(f)',
             l = "uHandoff" => NoReader'
      PROVE  OneThreadInv'
  <2>1. pc'[f] = l
    BY ONLY <1>1, <1>3, f \in Fibers DEF Goto
  <2>2. FoundOf(f)'
    BY ONLY <1>3, <2>1 DEF FoundOf
  <2>3. l \notin WritePcs \cup {"wHeld"}
    BY ONLY <1>3 DEF WritePcs
  <2>4. QED
    BY ONLY f \in Fibers, Alone(f), <1>2, <1>3, <2>2, <2>3, NoWriterAfter
<1>4. CASE SharedAdd(f)
  <2>1. PICK l \in {"rCheck", "tCheck"} : Goto(f, l)
    BY ONLY <1>4, Zenon DEF SharedAdd
  <2>2. ~writer /\ writer' = writer /\ readers' = readers + 1 /\ readerq' = readerq
    BY ONLY <1>1, <1>4 DEF SharedAdd, At, FoundOf
  <2>3. readers' # 0 /\ pc[f] # "uHandoff"
    BY ONLY <1>1, <1>4, <2>2 DEF SharedAdd, At
  <2>4. WaitFor(f)'
    BY ONLY <1>1, <1>2, <2>2, <2>3 DEF WaitFor
  <2>5. QED
    BY ONLY <1>3, <2>1, <2>2, <2>4
<1>5. CASE SharedSlow(f) /\ ~writer /\ writerq = <<>>
  <2>1. /\ Goto(f, "rHeld") /\ writer' = writer /\ readerq' = readerq
        /\ pc[f] = "rSlow"
    BY ONLY <1>5 DEF SharedSlow, At
  <2>2. WaitFor(f)'
    BY ONLY <1>1, <1>2, <1>5, <2>1 DEF WaitFor
  <2>3. QED
    BY ONLY <1>3, <1>5, <2>1, <2>2
<1>6. CASE UnlockShared(f)
  <2>1. PICK l \in {"ruLast", "idle"} : Goto(f, l) /\ (l = "idle" => readers # 1)
    BY ONLY <1>6, Zenon DEF UnlockShared, LastReader
  <2>2. /\ pc[f] = "rHeld" /\ writer' = writer /\ readers' = readers - 1
        /\ readerq' = readerq
    BY ONLY <1>6 DEF UnlockShared, At
  <2>3. ReadSide(f)
    BY ONLY <2>2 DEF ReadSide, CountPcs
  <2>4. ~writer
    BY ONLY <1>1, <2>3, f \in Fibers DEF OwnerInv, NoReader
  <2>5. readers # 0
    BY ONLY <1>1, <2>2 DEF CountPcs
  <2>6. l = "idle" => readers' # 0
    BY ONLY <1>1, <2>1, <2>2, <2>5
  <2>7. pc'[f] = l
    BY ONLY <1>1, <2>1, f \in Fibers DEF Goto
  <2>8. WaitFor(f)'
    BY ONLY <1>1, <1>2, <2>1, <2>2, <2>6, <2>7 DEF WaitFor
  <2>9. QED
    BY ONLY <1>3, <2>1, <2>2, <2>4, <2>8
<1>7. CASE UnlockClear(f)
  <2>1. Goto(f, "uHandoff") /\ pc[f] = "wHeld" /\ ~writer' /\ readerq' = readerq
    BY ONLY <1>7 DEF UnlockClear, At
  <2>2. WriteSide(f)
    BY ONLY <2>1, Zenon DEF WriteSide
  <2>3. pc'[f] = "uHandoff"
    BY ONLY <1>1, <2>1, f \in Fibers DEF Goto
  <2>4. WaitFor(f)'
    BY ONLY <2>3, Zenon DEF WaitFor
  <2>5. NoReader
    BY ONLY <1>1, <2>2, f \in Fibers DEF OwnerInv
  <2>6. \A g \in Fibers \ {f} : ReadSide(g)' <=> ReadSide(g)
    BY ONLY f \in Fibers, Alone(f), <2>1, OtherSides
  <2>7. ~ReadSide(f)'
    BY ONLY <2>3 DEF ReadSide, CountPcs, ReadPcs
  <2>8. NoReader'
    BY ONLY <2>5, <2>6, <2>7 DEF NoReader
  <2>9. QED
    BY ONLY <1>3, <2>1, <2>2, <2>4, <2>8
<1>8. CASE UnlockHandoff(f) /\ readerq # <<>>
  <2>1. /\ Goto(f, "uWakeReaders") /\ writer' = writer /\ readerq' = <<>> /\ pc[f] = "uHandoff"
    BY ONLY <1>8 DEF UnlockHandoff, At
  <2>2. ~writer
    BY ONLY <1>1, <2>1 DEF FoundOf
  <2>3. pc'[f] = "uWakeReaders"
    BY ONLY <1>1, <2>1, f \in Fibers DEF Goto
  <2>4. WaitFor(f)'
    BY ONLY <2>1, <2>3 DEF WaitFor
  <2>5. QED
    BY ONLY <1>3, <2>1, <2>2, <2>4
<1>9. QED
  BY ONLY <1>4, <1>5, <1>6, <1>7, <1>8,
          \/ SharedAdd(f) \/ (SharedSlow(f) /\ ~writer /\ writerq = <<>>)
          \/ UnlockShared(f) \/ UnlockClear(f) \/ (UnlockHandoff(f) /\ readerq # <<>>)

(* A writer gets the mutex: by lock(), or by a handoff. *)
LEMMA WritersAlone ==
    ASSUME NEW f \in Fibers, Alone(f), IInv,
           \/ LockTake(f) \/ UnlockSharedHandoff(f)
           \/ UnlockHandoff(f) /\ readerq = <<>> /\ writerq # <<>>
    PROVE  OneThreadInv'
<1>1. /\ FoundOf(f) /\ OwnerInv /\ pc \in [Fibers -> Pcs] /\ PcOf(f) /\ QueueInv
      /\ writerq \in Seq(Fibers) /\ FiberInv /\ Distinct(writerq)
  BY Zenon DEF Alone, IInv, FiberInv, Types, QueueInv
<1>2. pc[f] \in {"wTake", "uHandoff", "ruHandoff"} /\ writer' /\ readerq' = readerq
  BY Zenon DEF LockTake, UnlockSharedHandoff, UnlockHandoff, At
<1>3. ~writer /\ NoReader /\ \A g \in Fibers : ~WriteSide(g)
  BY ONLY <1>1, <1>2 DEF FoundOf, OwnerInv
<1>4. ASSUME NEW l \in {"wHeld", "wake"}, Goto(f, l), NEW h \in Fibers, WriteSide(h)',
             \A g \in Fibers \ {h} : ~WriteSide(g)'
      PROVE  OneThreadInv'
  <2>1. pc'[f] = l
    BY ONLY <1>1, <1>4, f \in Fibers DEF Goto
  <2>2. \A g \in Fibers \ {f} : ReadSide(g)' <=> ReadSide(g)
    BY ONLY f \in Fibers, Alone(f), <1>2, <1>4, OtherSides
  <2>3. ~ReadSide(f)'
    BY ONLY <1>4, <2>1 DEF ReadSide, CountPcs, ReadPcs
  <2>4. NoReader'
    BY ONLY <1>3, <2>2, <2>3 DEF NoReader
  <2>5. OwnerInv'
    BY ONLY <1>2, <1>4, <2>4 DEF OwnerInv
  <2>6. FoundOf(f)'
    BY ONLY <1>4, <2>1 DEF FoundOf
  <2>7. WaitFor(f)'
    BY ONLY <1>2 DEF WaitFor
  <2>8. QED
    BY ONLY f \in Fibers, Alone(f), <1>4, <2>5, <2>6, <2>7, AloneStep
<1>5. CASE LockTake(f)
  <2>1. Goto(f, "wHeld") /\ writerq' = writerq
    BY ONLY <1>5 DEF LockTake
  <2>2. WriteSide(f)'
    BY ONLY <1>1, <2>1, f \in Fibers DEF Goto, WriteSide
  <2>3. \A g \in Fibers \ {f} : ~WriteSide(g)'
    BY ONLY f \in Fibers, Alone(f), <1>3, <2>1, OtherSides
  <2>4. QED
    BY ONLY <1>4, <2>1, <2>2, <2>3, f \in Fibers
<1>6. CASE UnlockSharedHandoff(f) \/ (UnlockHandoff(f) /\ readerq = <<>> /\ writerq # <<>>)
  <2>1. writerq # <<>>
    BY ONLY <1>1, <1>6 DEF UnlockSharedHandoff, At, PcOf
  <2>2. Goto(f, "wake") /\ writerq' = Tail(writerq)
    BY ONLY <1>6, <2>1 DEF UnlockSharedHandoff, UnlockHandoff
  <2>3. PICK h \in Fibers : h = Head(writerq)
    BY ONLY <1>1, <2>1, TailFacts
  <2>4. /\ In(h, writerq) /\ ~In(h, writerq')
        /\ \A g : g # h => (In(g, writerq') <=> In(g, writerq))
    BY ONLY <1>1, <2>1, <2>2, <2>3, TailFacts
  <2>5. pc[h] \in WritePcs /\ h # f
    BY ONLY <1>1, <1>2, <2>4, Zenon DEF FiberInv, WaitOf, WritePcs
  <2>6. pc'[h] = pc[h] /\ pc'[f] = "wake"
    BY ONLY <1>1, <2>2, <2>5, f \in Fibers DEF Goto
  <2>7. WriteSide(h)'
    BY ONLY <2>4, <2>5, <2>6 DEF WriteSide
  <2>8. \A g \in Fibers \ {h} : ~WriteSide(g)'
    <3>1. ~WriteSide(f)'
      BY ONLY <2>6 DEF WriteSide, WritePcs
    <3>2. \A g \in Fibers \ {f, h} : ~WriteSide(g)'
      BY ONLY f \in Fibers, Alone(f), <1>3, <2>2, <2>4, OtherSides
    <3>3. QED
      BY ONLY <3>1, <3>2
  <2>9. QED
    BY ONLY <1>4, <2>2, <2>7, <2>8
<1>7. QED
  BY ONLY <1>5, <1>6,
          \/ LockTake(f) \/ UnlockSharedHandoff(f)
          \/ UnlockHandoff(f) /\ readerq = <<>> /\ writerq # <<>>


(* On one thread no step of Next leaves the second invariant. *)
LEMMA OneThreadInductive ==
    ASSUME OneThread
    PROVE  IInv /\ OneThreadInv /\ [Next]_vars => OneThreadInv'
<1> SUFFICES ASSUME IInv, OneThreadInv, [Next]_vars
             PROVE  OneThreadInv'
  OBVIOUS
<1>1. CASE UNCHANGED mutexVars
  <2>1. /\ readers' = readers /\ writer' = writer /\ writerq' = writerq /\ readerq' = readerq
        /\ pc' = pc
    BY ONLY <1>1, Zenon DEF mutexVars
  <2>2. QED
    BY ONLY OneThreadInv, <2>1
       DEF OneThreadInv, OwnerInv, FoundOf, WaitInv, NoReader, WriteSide, ReadSide
<1>2. CASE \E f \in Fibers : FiberStep(f) /\ ~UNCHANGED mutexVars
  <2>1. PICK f \in Fibers : FiberStep(f) /\ ~UNCHANGED mutexVars
    BY ONLY <1>2
  <2>2. Executing(f)
    BY ONLY <2>1, Zenon
       DEF FiberStep, LockTest, TryLockTest, LockTake, LockEnqueue, ParkWaiter, ParkReturn,
           UnlockClear, UnlockHandoff, UnlockWakeReader, WakeWriter, SharedLoad, TrySharedLoad,
           SharedAdd, SharedCheck, SharedUndo, SharedSlow, UnlockShared, UnlockSharedLast,
           UnlockSharedHandoff, Yield, At, ParkCurrent, YieldCurrent, SwitchOut
  <2>3. Alone(f) /\ Types
    BY ONLY OneThread, IInv, OneThreadInv, <2>2, RunsAlone DEF IInv
  <2>4. CASE LockTest(f) \/ TryLockTest(f) \/ SharedLoad(f) \/ TrySharedLoad(f)
    BY ONLY <2>3, <2>4, TestsAlone
  <2>5. CASE \/ UnlockHandoff(f) /\ readerq = <<>> /\ writerq = <<>>
             \/ UnlockWakeReader(f) \/ WakeWriter(f) \/ UnlockSharedLast(f)
    BY ONLY <2>3, <2>5, EndsAlone
  <2>6. CASE \/ ParkWaiter(f) \/ ParkReturn(f) \/ LockEnqueue(f) \/ SharedCheck(f)
             \/ SharedSlow(f) /\ (writer \/ writerq # <<>>)
    BY ONLY <2>3, <2>6, WaitersAlone
  <2>7. CASE \/ SharedAdd(f) \/ (SharedSlow(f) /\ ~writer /\ writerq = <<>>)
             \/ UnlockShared(f) \/ UnlockClear(f) \/ (UnlockHandoff(f) /\ readerq # <<>>)
    BY ONLY <2>3, <2>7, ReadersAlone
  <2>8. CASE \/ LockTake(f) \/ UnlockSharedHandoff(f)
             \/ UnlockHandoff(f) /\ readerq = <<>> /\ writerq # <<>>
    BY ONLY IInv, <2>3, <2>8, WritersAlone
  <2>9. CASE SharedUndo(f)
    BY ONLY <2>3, <2>9 DEF SharedUndo, At, Alone, FoundOf
  <2>10. CASE Yield(f)
    BY ONLY <2>1, <2>10 DEF Yield
  <2>11. QED
    BY ONLY <2>1, <2>4, <2>5, <2>6, <2>7, <2>8, <2>9, <2>10, Zenon DEF FiberStep
<1>3. QED
  BY ONLY [Next]_vars, <1>1, <1>2 DEF Next, vars

(* The first state of the second invariant. *)
LEMMA InitOneThread == Init => OneThreadInv
<1> SUFFICES ASSUME Init
             PROVE  OneThreadInv
  OBVIOUS
<1>1. ~writer /\ writerq = <<>> /\ readerq = <<>> /\ \A f \in Fibers : pc[f] = "idle"
  BY Zenon DEF Init
<1>2. QED
  BY ONLY <1>1 DEF OneThreadInv, OwnerInv, FoundOf, WaitInv, WriteSide, WritePcs

(* On one thread both invariants hold throughout. *)
LEMMA OneThreadInvariantHolds ==
    ASSUME OneThread
    PROVE  Spec => [](IInv /\ OneThreadInv)
<1>1. Init => IInv /\ OneThreadInv
  BY InitIInv, InitOneThread
<1>2. IInv /\ OneThreadInv /\ [Next]_vars => (IInv /\ OneThreadInv)'
  BY OneThread, Inductive, OneThreadInductive
<1>3. QED
  BY <1>1, <1>2, PTL DEF Spec

(* On one thread no fiber is inside with a writer.  (On two threads one    *)
(* can be.)                                                                *)
THEOREM WritersExcludeOnOneThread ==
    ASSUME OneThread
    PROVE  Spec => []WritersExclusive
<1>1. OneThreadInv => WritersExclusive
  <2> SUFFICES ASSUME OneThreadInv, NEW w \in Writers, NEW f \in Writers \cup Readers
               PROVE  f = w
    BY Zenon DEF WritersExclusive
  <2>1. WriteSide(w) /\ w \in Fibers /\ f \in Fibers /\ (WriteSide(f) \/ ReadSide(f))
    BY Zenon DEF Writers, Readers, WriteSide, ReadSide, CountPcs
  <2>2. QED
    BY ONLY OneThreadInv, <2>1 DEF OneThreadInv, OwnerInv, NoReader
<1>2. Spec => [](IInv /\ OneThreadInv)
  BY OneThread, OneThreadInvariantHolds
<1>3. QED
  BY <1>1, <1>2, PTL

(* On one thread nobody waits for a mutex that is free: once every         *)
(* operation has returned or parked and every wake has been delivered, no  *)
(* waiter is left behind.                                                  *)
THEOREM NobodyIsLeftWaitingOnOneThread ==
    ASSUME OneThread
    PROVE  Spec => []NobodyWaitsForAFreeMutex
<1>1. IInv /\ OneThreadInv => NobodyWaitsForAFreeMutex
  <2> SUFFICES ASSUME IInv, OneThreadInv,
                      \A f \in Fibers : pc[f] \in {"idle", "wParked", "rParked"},
                      \A f \in Fibers : pc[f] # "idle" => fstate[f] = "Parked",
                      \A s \in Scheds : wakeList[s] = {}
               PROVE  \A f \in Fibers : pc[f] = "idle"
    BY Zenon DEF NobodyWaitsForAFreeMutex
  <2>1. /\ FiberInv /\ CountInv /\ OwnerInv /\ WaitInv
        /\ \A f \in Fibers : f \notin wakeList[Home[f]]
    BY SchedAssumption, Zenon DEF IInv, OneThreadInv
  <2>2. \A f \in Fibers : ~InBatch(f)
    <3>1. \A f \in Fibers : batch[f] = <<>>
      BY ONLY <2>1, \A f \in Fibers : pc[f] \in {"idle", "wParked", "rParked"}
         DEF FiberInv, BatchOf
    <3>2. QED
      BY ONLY <3>1, ShortFacts DEF InBatch
  <2>3. ASSUME NEW f \in Fibers, pc[f] # "idle"
        PROVE  /\ pc[f] = "wParked" => In(f, writerq)
               /\ pc[f] = "rParked" => In(f, readerq)
    <3>1. WaitOf(f) /\ fstate[f] = "Parked" /\ ~InBatch(f) /\ f \notin wakeList[Home[f]]
      BY ONLY <2>1, <2>2, <2>3, \A g \in Fibers : pc[g] # "idle" => fstate[g] = "Parked"
         DEF FiberInv
    <3>2. QED
      BY ONLY <3>1, Zenon DEF WaitOf, WritePcs, ReadPcs
  <2>4. \A f \in Fibers : ~WriteSide(f) /\ ~Counted(f)
    BY ONLY <2>2, <2>3, \A f \in Fibers : pc[f] \in {"idle", "wParked", "rParked"}
       DEF WriteSide, WritePcs, Counted, CountPcs, ReadPcs
  <2>5. ~writer /\ readers = 0
    <3>1. {f \in Fibers : Counted(f)} = {}
      BY ONLY <2>4, Zenon
    <3>2. QED
      BY ONLY <2>1, <2>4, <3>1, FS_EmptySet DEF OwnerInv, CountInv
  <2>6. writerq = <<>> /\ readerq = <<>>
    BY ONLY <2>1, <2>5, \A f \in Fibers : pc[f] \in {"idle", "wParked", "rParked"} DEF WaitInv
  <2>7. QED
    BY ONLY <2>3, <2>6, ShortFacts, \A f \in Fibers : pc[f] \in {"idle", "wParked", "rParked"}
<1>2. Spec => [](IInv /\ OneThreadInv)
  BY OneThread, OneThreadInvariantHolds, Zenon
<1>3. QED
  BY <1>1, <1>2, PTL
=============================================================================
