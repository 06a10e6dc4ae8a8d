--------------------------- MODULE SchedulerProofs ---------------------------
(***************************************************************************)
(* Proofs about the run loop of a scheduler: every Ready fiber is in one   *)
(* place of the queues, no wake is lost, and the loop takes the steps of   *)
(* the kernel.                                                             *)
(***************************************************************************)
EXTENDS Scheduler, WellFoundedInduction, TLAPS

In(f, q) == \E i \in DOMAIN q : q[i] = f

Distinct(q) == \A i, j \in DOMAIN q : q[i] = q[j] => i = j

-----------------------------------------------------------------------------
(* Induction on the natural numbers, for sets.                             *)

LEMMA LessIsWellFounded == IsWellFoundedOn({ss \in Nat \X Nat : ss[1] < ss[2]}, Nat)
  BY NatLessThanWellFounded, Zenon DEF OpToRel

LEMMA Induction ==
    ASSUME NEW P, NEW n \in Nat, 0 \in P, \A i \in Nat : i < n /\ i \in P => i + 1 \in P
    PROVE  \A i \in 0..n : i \in P
<1> DEFINE T == {i \in 0..n : i \notin P}
<1>1. SUFFICES ASSUME T # {} PROVE FALSE
  OBVIOUS
<1>2. T \subseteq Nat
  OBVIOUS
<1>3. \E x \in T : \A y \in T : ~(<<y, x>> \in {ss \in Nat \X Nat : ss[1] < ss[2]})
  <2> HIDE DEF T
  <2>1. QED
    BY ONLY <1>1, <1>2, LessIsWellFounded, WFMin, Zenon
<1>4. PICK x \in T : \A y \in T : ~(y < x)
  BY <1>2, <1>3, Zenon
<1>5. x # 0 /\ x - 1 \in Nat /\ x - 1 < n
  OBVIOUS
<1>6. x - 1 \in P
  BY <1>4, <1>5
<1>7. QED
  BY <1>5, <1>6

-----------------------------------------------------------------------------
(* Sequences.                                                              *)

LEMMA EmptyFacts ==
    ASSUME NEW S, NEW q \in Seq(S)
    PROVE  (q = <<>> <=> Len(q) = 0) /\ (q = <<>> <=> \A f : ~In(f, q))
<1>1. Len(q) \in Nat /\ DOMAIN q = 1..Len(q)
  OBVIOUS
<1>2. q = <<>> <=> Len(q) = 0
  OBVIOUS
<1>3. ASSUME Len(q) # 0 PROVE In(q[1], q)
  BY <1>1, <1>3 DEF In
<1>4. ASSUME Len(q) = 0 PROVE \A f : ~In(f, q)
  <2>1. DOMAIN q = {}
    BY ONLY <1>1, <1>4
  <2>2. QED
    BY ONLY <2>1, Zenon DEF In
<1>5. QED
  BY ONLY <1>2, <1>3, <1>4, Zenon

LEMMA AppendFacts ==
    ASSUME NEW S, NEW q \in Seq(S), NEW f \in S
    PROVE  /\ Append(q, f) \in Seq(S)
           /\ \A g : In(g, Append(q, f)) <=> In(g, q) \/ g = f
           /\ Distinct(q) /\ ~In(f, q) => Distinct(Append(q, f))
<1>1. Len(q) \in Nat /\ DOMAIN q = 1..Len(q)
  OBVIOUS
<1>2. Append(q, f) \in Seq(S) /\ DOMAIN Append(q, f) = 1 .. Len(q) + 1
  OBVIOUS
<1>3. /\ \A i \in 1..Len(q) : Append(q, f)[i] = q[i]
      /\ Append(q, f)[Len(q) + 1] = f
  OBVIOUS
<1>4. ASSUME NEW g PROVE In(g, Append(q, f)) <=> In(g, q) \/ g = f
  <2>1. In(g, q) => In(g, Append(q, f))
    BY ONLY <1>1, <1>2, <1>3 DEF In
  <2>2. In(f, Append(q, f))
    BY ONLY <1>1, <1>2, <1>3 DEF In
  <2>3. In(g, Append(q, f)) => In(g, q) \/ g = f
    BY ONLY <1>1, <1>2, <1>3 DEF In
  <2>4. QED
    BY ONLY <2>1, <2>2, <2>3, Zenon
<1>5. ASSUME Distinct(q), ~In(f, q) PROVE Distinct(Append(q, f))
  BY ONLY <1>1, <1>2, <1>3, <1>5 DEF Distinct, In
<1>6. QED
  BY ONLY <1>2, <1>4, <1>5

LEMMA TailFacts ==
    ASSUME NEW S, NEW q \in Seq(S), q # <<>>
    PROVE  /\ Head(q) \in S /\ Tail(q) \in Seq(S) /\ In(Head(q), q)
           /\ \A g : In(g, q) <=> In(g, Tail(q)) \/ g = Head(q)
           /\ Distinct(q) => Distinct(Tail(q)) /\ ~In(Head(q), Tail(q))
<1>1. Len(q) \in Nat \ {0} /\ DOMAIN q = 1..Len(q)
  BY EmptyFacts
<1>2. Head(q) = q[1] /\ q[1] \in S
  BY <1>1
<1>3. /\ Tail(q) \in Seq(S) /\ DOMAIN Tail(q) = 1 .. Len(q) - 1
      /\ \A i \in 1 .. Len(q) - 1 : Tail(q)[i] = q[i + 1]
  BY <1>1
<1>4. ASSUME NEW g PROVE In(g, q) <=> In(g, Tail(q)) \/ g = Head(q)
  <2>1. In(g, Tail(q)) => In(g, q)
    BY ONLY <1>1, <1>3 DEF In
  <2>2. In(Head(q), q)
    BY ONLY <1>1, <1>2 DEF In
  <2>3. ASSUME NEW i \in DOMAIN q, q[i] = g, g # Head(q) PROVE In(g, Tail(q))
    <3>1. i - 1 \in DOMAIN Tail(q) /\ Tail(q)[i - 1] = g
      BY ONLY <1>1, <1>2, <1>3, <2>3
    <3>2. QED
      BY ONLY <3>1, Zenon DEF In
  <2>4. QED
    BY ONLY <2>1, <2>2, <2>3, Zenon DEF In
<1>5. ASSUME Distinct(q) PROVE Distinct(Tail(q)) /\ ~In(Head(q), Tail(q))
  <2>1. ASSUME NEW i \in DOMAIN Tail(q), NEW j \in DOMAIN Tail(q), i # j PROVE Tail(q)[i] # Tail(q)[j]
    <3>1. /\ i + 1 \in DOMAIN q /\ j + 1 \in DOMAIN q /\ i + 1 # j + 1
          /\ Tail(q)[i] = q[i + 1] /\ Tail(q)[j] = q[j + 1]
      BY ONLY <1>1, <1>3, <2>1
    <3>2. QED
      BY ONLY <1>5, <3>1, Zenon DEF Distinct
  <2>2. ASSUME NEW i \in DOMAIN Tail(q) PROVE Tail(q)[i] # Head(q)
    <3>1. i + 1 \in DOMAIN q /\ 1 \in DOMAIN q /\ i + 1 # 1 /\ Tail(q)[i] = q[i + 1]
      BY ONLY <1>1, <1>3, <2>2
    <3>2. QED
      BY ONLY <1>2, <1>5, <3>1, Zenon DEF Distinct
  <2>3. QED
    BY ONLY <2>1, <2>2, Zenon DEF Distinct, In
<1>6. QED
  BY <1>2, <1>3, <1>4, <1>5

LEMMA ReverseFacts ==
    ASSUME NEW S, NEW q \in Seq(S)
    PROVE  /\ Reversed(q) \in Seq(S) /\ Len(Reversed(q)) = Len(q)
           /\ \A g : In(g, Reversed(q)) <=> In(g, q)
           /\ Distinct(q) => Distinct(Reversed(q))
<1>1. Len(q) \in Nat /\ DOMAIN q = 1..Len(q)
  OBVIOUS
<1>2. /\ Reversed(q) \in Seq(S) /\ Len(Reversed(q)) = Len(q) /\ DOMAIN Reversed(q) = 1..Len(q)
      /\ \A i \in 1..Len(q) : Reversed(q)[i] = q[Len(q) - i + 1]
  BY <1>1 DEF Reversed
<1>3. ASSUME NEW g PROVE In(g, Reversed(q)) <=> In(g, q)
  <2>1. ASSUME NEW i \in DOMAIN q PROVE In(q[i], Reversed(q))
    <3>1. Len(q) - i + 1 \in DOMAIN Reversed(q) /\ Reversed(q)[Len(q) - i + 1] = q[i]
      BY ONLY <1>1, <1>2, i \in DOMAIN q
    <3>2. QED
      BY ONLY <3>1, Zenon DEF In
  <2>2. ASSUME NEW i \in DOMAIN Reversed(q) PROVE In(Reversed(q)[i], q)
    <3>1. Len(q) - i + 1 \in DOMAIN q /\ Reversed(q)[i] = q[Len(q) - i + 1]
      BY ONLY <1>1, <1>2, i \in DOMAIN Reversed(q)
    <3>2. QED
      BY ONLY <3>1, Zenon DEF In
  <2>3. QED
    BY ONLY <2>1, <2>2, Zenon DEF In
<1>4. ASSUME Distinct(q) PROVE Distinct(Reversed(q))
  BY ONLY <1>1, <1>2, <1>4 DEF Distinct
<1>5. QED
  BY ONLY <1>2, <1>3, <1>4

-----------------------------------------------------------------------------
(* The loop that adds fibers to the queues.                                *)

(* The n steps F of a loop from q, and the values it goes through. *)
Steps(Q, n) == [1..n -> [Q -> Q]]

HasTrace(Q, q, n, F) ==
    \E g \in [0..n -> Q] : g[0] = q /\ \A i \in 1..n : g[i] = F[i][g[i - 1]]

(* Every loop of n steps goes through some values. *)
LEMMA RecursionOn ==
    ASSUME NEW Q, NEW q \in Q, NEW n \in Nat, NEW F \in Steps(Q, n)
    PROVE  HasTrace(Q, q, n, F)
<1> USE DEF Steps, HasTrace
<1> DEFINE Upto(m) == \E g \in [0..m -> Q] : g[0] = q /\ \A i \in 1..m : g[i] = F[i][g[i - 1]]
           P == {m \in 0..n : Upto(m)}
<1>1. 0 \in P
  <2>1. [i \in 0..0 |-> q] \in [0..0 -> Q] /\ [i \in 0..0 |-> q][0] = q /\ 1..0 = {}
    OBVIOUS
  <2>2. Upto(0)
    BY ONLY <2>1, Zenon
  <2>3. QED
    BY <2>2
<1>2. ASSUME NEW m \in Nat, m < n, m \in P PROVE m + 1 \in P
  <2>1. PICK g \in [0..m -> Q] : g[0] = q /\ \A i \in 1..m : g[i] = F[i][g[i - 1]]
    BY <1>2, Zenon
  <2> DEFINE h == [i \in 0 .. m + 1 |-> IF i = m + 1 THEN F[m + 1][g[m]] ELSE g[i]]
  <2>2. h \in [0 .. m + 1 -> Q]
    BY <1>2, <2>1
  <2>3. h[0] = q /\ \A i \in 1 .. m + 1 : h[i] = F[i][h[i - 1]]
    BY <1>2, <2>1
  <2> HIDE DEF h
  <2>4. Upto(m + 1)
    BY ONLY <2>2, <2>3, Zenon
  <2>5. m + 1 \in 0..n
    BY ONLY <1>2, n \in Nat
  <2>6. QED
    BY ONLY <2>4, <2>5, Zenon
<1>3. n \in 0..n
  OBVIOUS
<1>4. n \in P
  <2> HIDE DEF P
  <2>1. QED
    BY ONLY <1>1, <1>2, <1>3, Induction, n \in Nat, Zenon
<1>5. QED
  BY ONLY <1>4, Zenon

Queues == [Priorities -> Seq(Fibers)]

LEMMA AddOne ==
    ASSUME NEW q \in Queues, NEW f \in Fibers
    PROVE  /\ addToReadyQueue(q, f) \in Queues
           /\ \A p \in Priorities : \A g : 
                 In(g, addToReadyQueue(q, f)[p]) <=> In(g, q[p]) \/ (g = f /\ p = Priority[f])
           /\ (\A p \in Priorities : Distinct(q[p])) /\ ~In(f, q[Priority[f]])
                 => \A p \in Priorities : Distinct(addToReadyQueue(q, f)[p])
<1> DEFINE r == addToReadyQueue(q, f)
<1>1. Priority[f] \in Priorities
  BY SchedulerAssumption
<1>2. \A p \in Priorities : q[p] \in Seq(Fibers)
  BY DEF Queues
<1>3. r \in Queues /\ r[Priority[f]] = Append(q[Priority[f]], f)
  BY <1>1, <1>2 DEF Queues, addToReadyQueue
<1>4. \A p \in Priorities : p # Priority[f] => r[p] = q[p]
  BY <1>1 DEF Queues, addToReadyQueue
<1>5. /\ \A g : In(g, Append(q[Priority[f]], f)) <=> In(g, q[Priority[f]]) \/ g = f
      /\ Distinct(q[Priority[f]]) /\ ~In(f, q[Priority[f]])
            => Distinct(Append(q[Priority[f]], f))
  BY <1>1, <1>2, AppendFacts, Zenon
<1> HIDE DEF r
<1>6. QED
  BY ONLY <1>1, <1>3, <1>4, <1>5, Zenon DEF r

(* What AddEach computes: it terminates, keeps what was queued, adds each  *)
(* fiber of fs that is in S to the queue of its priority, and queues none  *)
(* twice if none of them was queued.                                       *)
LEMMA AddEachFacts ==
    ASSUME NEW q \in Queues, NEW fs \in Seq(Fibers), NEW S
    PROVE  /\ AddEach(q, fs, S) \in Queues
           /\ \A p \in Priorities : \A f :
                 In(f, AddEach(q, fs, S)[p])
                    <=> In(f, q[p]) \/ (f \in S /\ p = Priority[f] /\ In(f, fs))
           /\ /\ \A p \in Priorities : Distinct(q[p])
              /\ Distinct(fs)
              /\ \A f \in S : \A p \in Priorities : ~In(f, q[p])
              => \A p \in Priorities : Distinct(AddEach(q, fs, S)[p])
<1> DEFINE n == Len(fs)
           Body(g) == [i \in 0 .. Len(fs) |->
                          IF i = 0 THEN q
                          ELSE IF fs[i] \in S THEN addToReadyQueue(g[i - 1], fs[i])
                          ELSE g[i - 1]]
           added == CHOOSE g : g = Body(g)
           F == [i \in 1..n |-> [x \in Queues |->
                   IF fs[i] \in S THEN addToReadyQueue(x, fs[i]) ELSE x]]
<1>1. AddEach(q, fs, S) = added[n]
  BY Zenon DEF AddEach
<1>2. n \in Nat /\ DOMAIN fs = 1..n /\ \A i \in 1..n : fs[i] \in Fibers
  OBVIOUS
<1>3. F \in [1..n -> [Queues -> Queues]]
  BY <1>2, AddOne
<1>4. PICK g \in [0..n -> Queues] : g[0] = q /\ \A i \in 1..n : g[i] = F[i][g[i - 1]]
  <2>1. n \in Nat /\ F \in Steps(Queues, n)
    BY <1>2, <1>3, Zenon DEF Steps
  <2> HIDE DEF F, n
  <2>2. HasTrace(Queues, q, n, F)
    BY ONLY <2>1, q \in Queues, RecursionOn, Zenon
  <2>3. QED
    BY ONLY <2>2, Zenon DEF HasTrace
<1>5. \A i \in 1..n : g[i] = IF fs[i] \in S THEN addToReadyQueue(g[i - 1], fs[i]) ELSE g[i - 1]
  BY <1>2, <1>4
<1>6. g = Body(g)
  BY ONLY <1>2, <1>4, <1>5
<1>7. added = Body(added)
  BY ONLY <1>6, Zenon
<1> HIDE DEF added
<1>8. /\ added[0] = q
      /\ \A i \in 1..n : added[i] = IF fs[i] \in S THEN addToReadyQueue(added[i - 1], fs[i])
                                    ELSE added[i - 1]
  <2>1. \A i \in 0..n : added[i] = Body(added)[i]
    BY ONLY <1>7, Zenon
  <2>2. \A i \in 0..n : Body(added)[i] =
           IF i = 0 THEN q
           ELSE IF fs[i] \in S THEN addToReadyQueue(added[i - 1], fs[i]) ELSE added[i - 1]
    BY ONLY Zenon
  <2> HIDE DEF Body, n
  <2>3. QED
    BY ONLY <1>2, <2>1, <2>2
<1> HIDE DEF Body, F
<1> DEFINE Fresh == /\ \A p \in Priorities : Distinct(q[p])
                    /\ Distinct(fs)
                    /\ \A f \in S : \A p \in Priorities : ~In(f, q[p])
           Done(i, f) == \E j \in 1..i : fs[j] = f
           Good(i) == /\ added[i] \in Queues
                      /\ \A p \in Priorities : \A f :
                            In(f, added[i][p])
                               <=> In(f, q[p]) \/ (f \in S /\ p = Priority[f] /\ Done(i, f))
                      /\ Fresh => \A p \in Priorities : Distinct(added[i][p])
           P == {i \in 0..n : Good(i)}
<1> HIDE DEF n
<1>9. 0 \in P
  <2>1. 1..0 = {} /\ 0 \in 0..n
    BY ONLY <1>2
  <2>2. QED
    BY ONLY <1>8, <2>1, q \in Queues, Zenon
<1>10. ASSUME NEW i \in Nat, i < n, i \in P PROVE i + 1 \in P
  <2>1. i + 1 \in 1..n /\ i + 1 \in 0..n /\ (i + 1) - 1 = i /\ i \in 0..n
    BY ONLY <1>2, <1>10
  <2>2. Good(i)
    BY ONLY <1>10, Zenon
  <2>3. \A f : Done(i + 1, f) <=> Done(i, f) \/ f = fs[i + 1]
    <3>1. \A j : j \in 1 .. i + 1 <=> j \in 1..i \/ j = i + 1
      BY ONLY i \in Nat
    <3>2. QED
      BY ONLY <3>1, Zenon
  <2>4. Fresh => ~Done(i, fs[i + 1])
    <3>1. \A j \in 1..i : j \in 1..n /\ j # i + 1
      BY ONLY <1>2, <1>10
    <3>2. QED
      BY ONLY <1>2, <2>1, <3>1, Zenon DEF Distinct
  <2>5. fs[i + 1] \in Fibers
    BY ONLY <1>2, <2>1, Zenon
  <2>6. CASE fs[i + 1] \in S
    <3>1. added[i + 1] = addToReadyQueue(added[i], fs[i + 1])
      BY ONLY <1>8, <2>1, <2>6, Zenon
    <3>2. added[i] \in Queues
      BY ONLY <2>2, Zenon
    <3>3. /\ added[i + 1] \in Queues
          /\ \A p \in Priorities : \A f :
                In(f, added[i + 1][p]) <=> In(f, added[i][p]) \/ (f = fs[i + 1] /\ p = Priority[fs[i + 1]])
          /\ (\A p \in Priorities : Distinct(added[i][p])) /\ ~In(fs[i + 1], added[i][Priority[fs[i + 1]]])
                => \A p \in Priorities : Distinct(added[i + 1][p])
      BY ONLY <2>5, <3>1, <3>2, AddOne, Zenon
    <3>4. Priority[fs[i + 1]] \in Priorities
      BY <2>5, SchedulerAssumption
    <3>5. Fresh => ~In(fs[i + 1], added[i][Priority[fs[i + 1]]])
      <4>1. In(fs[i + 1], added[i][Priority[fs[i + 1]]])
               <=> In(fs[i + 1], q[Priority[fs[i + 1]]])
                   \/ (fs[i + 1] \in S /\ Done(i, fs[i + 1]))
        <5>1. \A p \in Priorities : \A f :
                 In(f, added[i][p]) <=> In(f, q[p]) \/ (f \in S /\ p = Priority[f] /\ Done(i, f))
          BY ONLY <2>2, Zenon
        <5> HIDE DEF Done
        <5>2. QED
          BY ONLY <3>4, <5>1, Zenon
      <4>2. Fresh => ~In(fs[i + 1], q[Priority[fs[i + 1]]])
        BY ONLY <2>6, <3>4, Zenon
      <4> HIDE DEF Fresh, Done
      <4>3. QED
        BY ONLY <2>4, <4>1, <4>2, Zenon
    <3>6. \A p \in Priorities : \A f : In(f, added[i + 1][p])
             <=> In(f, q[p]) \/ (f \in S /\ p = Priority[f] /\ Done(i + 1, f))
      <4>1. \A p \in Priorities : \A f :
               In(f, added[i][p]) <=> In(f, q[p]) \/ (f \in S /\ p = Priority[f] /\ Done(i, f))
        BY ONLY <2>2, Zenon
      <4> HIDE DEF Done
      <4>2. QED
        BY ONLY <2>3, <2>6, <3>3, <4>1, Zenon
    <3>7. Good(i + 1)
      BY ONLY <2>2, <3>3, <3>5, <3>6, Zenon
    <3>8. QED
      BY ONLY <2>1, <3>7, Zenon
  <2>7. CASE fs[i + 1] \notin S
    <3>1. added[i + 1] = added[i]
      BY ONLY <1>8, <2>1, <2>7, Zenon
    <3>2. Good(i + 1)
      BY ONLY <2>2, <2>3, <2>7, <3>1, Zenon
    <3>3. QED
      BY ONLY <2>1, <3>2, Zenon
  <2>8. QED
    BY ONLY <2>6, <2>7, Zenon
<1>11. n \in P
  <2>1. n \in 0..n
    BY ONLY <1>2
  <2> HIDE DEF P
  <2>2. QED
    BY ONLY <1>2, <1>9, <1>10, <2>1, Induction, Zenon
<1>12. \A f : Done(n, f) <=> In(f, fs)
  BY ONLY <1>2, Zenon DEF In
<1>13. Good(n)
  BY ONLY <1>11, Zenon
<1>14. QED
  BY ONLY <1>1, <1>12, <1>13, Zenon

-----------------------------------------------------------------------------
(* The queues and the LIFO slot l hold the fibers of R, each once: one in  *)
(* the slot, the others in the queues of their priorities.                 *)

Holds(q, l, R) ==
    /\ \A p \in Priorities : Distinct(q[p])
    /\ \A p \in Priorities : \A f \in Fibers :
          In(f, q[p]) <=> p = Priority[f] /\ f \in R /\ l # f
    /\ \A f \in Fibers : l = f => f \in R

LEMMA PriorityType == \A f \in Fibers : Priority[f] \in Priorities
  BY SchedulerAssumption

(* The loops that schedule the fibers of S. *)
LEMMA HoldsAddEach ==
    ASSUME NEW q \in Queues, NEW l, NEW R, Holds(q, l, R),
           NEW fs \in Seq(Fibers), Distinct(fs),
           NEW S, \A f \in S : f \in Fibers /\ In(f, fs) /\ f \notin R
    PROVE  AddEach(q, fs, S) \in Queues /\ Holds(AddEach(q, fs, S), l, R \cup S)
<1>1. \A f \in S : \A p \in Priorities : ~In(f, q[p])
  BY Zenon DEF Holds
<1>2. /\ AddEach(q, fs, S) \in Queues
      /\ \A p \in Priorities : \A f :
            In(f, AddEach(q, fs, S)[p])
               <=> In(f, q[p]) \/ (f \in S /\ p = Priority[f] /\ In(f, fs))
  BY AddEachFacts, Zenon
<1>3. \A p \in Priorities : Distinct(q[p])
  BY Zenon DEF Holds
<1>4. \A p \in Priorities : Distinct(AddEach(q, fs, S)[p])
  BY <1>1, <1>3, AddEachFacts, Zenon
<1>5. ASSUME NEW p \in Priorities, NEW f \in Fibers
      PROVE  In(f, AddEach(q, fs, S)[p]) <=> p = Priority[f] /\ f \in R \cup S /\ l # f
  <2>1. In(f, q[p]) <=> p = Priority[f] /\ f \in R /\ l # f
    BY Zenon DEF Holds
  <2>2. f \in S => l # f /\ In(f, fs)
    BY Zenon DEF Holds
  <2>3. In(f, AddEach(q, fs, S)[p])
           <=> In(f, q[p]) \/ (f \in S /\ p = Priority[f] /\ In(f, fs))
    BY <1>2, Zenon
  <2>4. QED
    BY ONLY <2>1, <2>2, <2>3, Zenon
<1>6. \A f \in Fibers : l = f => f \in R \cup S
  BY Zenon DEF Holds
<1>7. QED
  BY ONLY <1>2, <1>4, <1>5, <1>6, Zenon DEF Holds

(* One fiber is queued: it yields, or leaves the slot for its queue. *)
LEMMA HoldsAddOne ==
    ASSUME NEW q \in Queues, NEW l, NEW m, NEW R, Holds(q, l, R), NEW f \in Fibers,
           (f \notin R /\ m = l) \/ (l = f /\ m \notin Fibers)
    PROVE  addToReadyQueue(q, f) \in Queues /\ Holds(addToReadyQueue(q, f), m, R \cup {f})
<1>1. Priority[f] \in Priorities
  BY PriorityType, Zenon
<1>2. ~In(f, q[Priority[f]])
  BY <1>1, Zenon DEF Holds
<1>3. /\ addToReadyQueue(q, f) \in Queues
      /\ \A p \in Priorities : \A g :
            In(g, addToReadyQueue(q, f)[p]) <=> In(g, q[p]) \/ (g = f /\ p = Priority[f])
  BY AddOne, Zenon
<1>4. \A p \in Priorities : Distinct(q[p])
  BY Zenon DEF Holds
<1>5. \A p \in Priorities : Distinct(addToReadyQueue(q, f)[p])
  BY <1>2, <1>4, AddOne, Zenon
<1>6. ASSUME NEW p \in Priorities, NEW g \in Fibers
      PROVE  In(g, addToReadyQueue(q, f)[p]) <=> p = Priority[g] /\ g \in R \cup {f} /\ m # g
  <2>1. In(g, q[p]) <=> p = Priority[g] /\ g \in R /\ l # g
    BY Zenon DEF Holds
  <2>2. In(g, addToReadyQueue(q, f)[p]) <=> In(g, q[p]) \/ (g = f /\ p = Priority[f])
    BY <1>3, Zenon
  <2>3. l = g => g \in R
    BY Zenon DEF Holds
  <2>4. CASE g = f
    BY <2>1, <2>2, <2>3, <2>4, Zenon
  <2>5. CASE g # f
    BY <2>1, <2>2, <2>3, <2>5, Zenon
  <2>6. QED
    BY ONLY <2>4, <2>5, Zenon
<1>7. \A g \in Fibers : m = g => g \in R \cup {f}
  BY Zenon DEF Holds
<1>8. QED
  BY ONLY <1>3, <1>5, <1>6, <1>7, Zenon DEF Holds

(* A fiber goes to the empty slot. *)
LEMMA HoldsFillSlot ==
    ASSUME NEW q, NEW R, Holds(q, NoFiber, R), NEW f \in Fibers, f \notin R
    PROVE  Holds(q, f, R \cup {f})
<1>1. NoFiber \notin Fibers
  BY SchedulerAssumption, Zenon
<1>2. QED
  BY <1>1, Zenon DEF Holds

(* The fiber in the slot is taken. *)
LEMMA HoldsTakeSlot ==
    ASSUME NEW q, NEW R, NEW l \in Fibers, Holds(q, l, R)
    PROVE  l \in R /\ Holds(q, NoFiber, R \ {l})
<1>1. NoFiber \notin Fibers
  BY SchedulerAssumption, Zenon
<1>2. QED
  BY <1>1, Zenon DEF Holds

(* A queue is popped. *)
LEMMA HoldsPop ==
    ASSUME NEW q \in Queues, NEW R, Holds(q, NoFiber, R),
           NEW p \in Priorities, q[p] # <<>>
    PROVE  /\ Head(q[p]) \in Fibers /\ Head(q[p]) \in R
           /\ [q EXCEPT ![p] = Tail(@)] \in Queues
           /\ Holds([q EXCEPT ![p] = Tail(@)], NoFiber, R \ {Head(q[p])})
<1> DEFINE h == Head(q[p])
           r == [q EXCEPT ![p] = Tail(@)]
<1>1. NoFiber \notin Fibers
  BY SchedulerAssumption, Zenon
<1>2. q[p] \in Seq(Fibers)
  BY DEF Queues
<1>3. /\ h \in Fibers /\ Tail(q[p]) \in Seq(Fibers) /\ In(h, q[p])
      /\ \A g : In(g, q[p]) <=> In(g, Tail(q[p])) \/ g = h
      /\ Distinct(q[p]) => Distinct(Tail(q[p])) /\ ~In(h, Tail(q[p]))
  BY <1>2, TailFacts, Zenon
<1>4. r \in Queues /\ r[p] = Tail(q[p]) /\ \A s \in Priorities : s # p => r[s] = q[s]
  BY <1>3 DEF Queues
<1> HIDE DEF h, r
<1>5. h \in R /\ p = Priority[h]
  BY <1>3, Zenon DEF Holds
<1>6. Distinct(q[p])
  BY Zenon DEF Holds
<1>7. \A s \in Priorities : Distinct(r[s])
  <2>1. ASSUME NEW s \in Priorities PROVE Distinct(r[s])
    <3>1. CASE s = p
      BY <1>3, <1>4, <1>6, <3>1, Zenon
    <3>2. CASE s # p
      BY <1>4, <3>2, Zenon DEF Holds
    <3>3. QED
      BY ONLY <3>1, <3>2, Zenon
  <2>2. QED
    BY ONLY <2>1, Zenon
<1>8. ASSUME NEW s \in Priorities, NEW g \in Fibers
      PROVE  In(g, r[s]) <=> s = Priority[g] /\ g \in R \ {h} /\ NoFiber # g
  <2>1. In(g, q[s]) <=> s = Priority[g] /\ g \in R /\ NoFiber # g
    BY Zenon DEF Holds
  <2>2. CASE s = p
    BY <1>3, <1>4, <1>5, <1>6, <2>1, <2>2, Zenon
  <2>3. CASE s # p
    BY <1>4, <1>5, <2>1, <2>3, Zenon
  <2>4. QED
    BY ONLY <2>2, <2>3, Zenon
<1>9. \A g \in Fibers : NoFiber = g => g \in R \ {h}
  BY ONLY <1>1, Zenon
<1>10. Holds(r, NoFiber, R \ {h})
  BY ONLY <1>7, <1>8, <1>9, Zenon DEF Holds
<1>11. QED
  BY <1>3, <1>4, <1>5, <1>10, Zenon DEF h, r

(* With the queues and the slot empty no fiber is left. *)
LEMMA HoldsNone ==
    ASSUME NEW q \in Queues, NEW R, Holds(q, NoFiber, R), \A p \in Priorities : q[p] = <<>>
    PROVE  \A f \in Fibers : f \notin R
<1>1. NoFiber \notin Fibers
  BY SchedulerAssumption, Zenon
<1>2. \A p \in Priorities : \A f : ~In(f, q[p])
  <2>1. ASSUME NEW p \in Priorities PROVE \A f : ~In(f, q[p])
    <3>1. q[p] \in Seq(Fibers) /\ q[p] = <<>>
      BY DEF Queues
    <3>2. QED
      BY <3>1, EmptyFacts, Zenon
  <2>2. QED
    BY ONLY <2>1, Zenon
<1>3. QED
  BY <1>1, <1>2, PriorityType, Zenon DEF Holds

-----------------------------------------------------------------------------
(* The inductive invariant.                                                *)

ReadySet == {f \in Fibers : state[f] = "Ready"}

(* The queues and the LIFO slot hold the Ready fibers. *)
QueueInv == Holds(readyQueues, lifoSlot, ReadySet)

(* The thread is in a fiber iff it has a current one, which is the one     *)
(* that is Running.                                                        *)
RunInv ==
    /\ phase = "fiber" <=> current # NoFiber
    /\ \A f \in Fibers : state[f] = "Running" <=> current = f

(* A wake is in one place, with the waker or on the wake list; only a      *)
(* fiber that parks, or was made to throw out of its park, has one, and a  *)
(* fiber that is parking has one until it is woken.                        *)
HasWake(f) == f \in awaited \/ In(f, wakeStack)

WakeOf(f) ==
    /\ mode[f] \in {"fresh", "run"} => ~HasWake(f)
    /\ state[f] = "Ready" /\ mode[f] = "parking" => ~HasWake(f) \/ interrupted
    /\ state[f] = "Running" /\ mode[f] = "parking" => HasWake(f)
    /\ state[f] = "Parked" => mode[f] = "parking" /\ HasWake(f)
    /\ state[f] \in {"Sleeping", "Blocked"} => mode[f] = "run"
    /\ mode[f] = "unwind" => interrupted

WakeInv ==
    /\ Distinct(wakeStack)
    /\ \A f \in awaited : ~In(f, wakeStack)
    /\ \A f \in Fibers : WakeOf(f)

(* Between the second drain and the poll a fiber on the wake list has its  *)
(* event triggered or about to be; the scan finds no fiber Ready.          *)
PhaseInv ==
    /\ phase \in {"repick", "idle", "scan", "spin", "block", "polling"} /\ wakeStack # <<>>
          => userEvent \/ pushing # {}
    /\ phase \in {"idle", "scan"} => \A f \in Fibers : state[f] # "Ready"
    /\ phase = "scan" => interrupted

Inv == TypeOK /\ QueueInv /\ RunInv /\ WakeInv /\ PhaseInv

-----------------------------------------------------------------------------
(* What the actions do to the queues.                                      *)

LEMMA MadeReady ==
    ASSUME NEW S \in SUBSET Fibers, MakeReady(S)
    PROVE  /\ state' = [f \in Fibers |-> IF f \in S THEN "Ready" ELSE state[f]]
           /\ ReadySet' = ReadySet \cup S
<1>1. state' = [f \in Fibers |-> IF f \in S THEN "Ready" ELSE state[f]]
  BY Zenon DEF MakeReady
<1>2. \A f \in Fibers : state'[f] = IF f \in S THEN "Ready" ELSE state[f]
  BY <1>1, Zenon
<1>3. QED
  BY <1>1, <1>2, Zenon DEF ReadySet

LEMMA QueueInvPrimed ==
    ASSUME Holds(readyQueues', lifoSlot', ReadySet') PROVE QueueInv'
  BY Zenon DEF QueueInv, Holds, In, Distinct, ReadySet

LEMMA RegisteredFacts ==
    Registered \in Seq(Fibers) /\ Distinct(Registered) /\ \A f \in Fibers : In(f, Registered)
<1>1. Registered \in Seq(Fibers) /\ Distinct(Registered)
  BY SchedulerAssumption, Zenon DEF Distinct
<1>2. \A f \in Fibers : In(f, Registered)
  BY Zenon DEF Fibers, Members, In
<1>3. QED
  BY <1>1, <1>2, Zenon

(* A poll makes some sleeping and blocked fibers Ready. *)
Unblocks(S) ==
    /\ S \in SUBSET Fibers
    /\ \A f \in S : state[f] \in {"Sleeping", "Blocked"}
    /\ MakeReady(S)
    /\ readyQueues' \in Queues
    /\ Holds(readyQueues', lifoSlot', ReadySet \cup S)

LEMMA UnblockEffect ==
    ASSUME TypeOK, QueueInv, NEW A, NEW B, NEW to,
           \A f \in A : f \in Fibers /\ state[f] = "Sleeping",
           \A f \in B : f \in Fibers /\ state[f] = "Blocked",
           Unblock(A, B, to)
    PROVE  Unblocks(A \cup B)
<1> DEFINE q1 == AddEach(readyQueues, Registered, A)
<1>1. readyQueues \in Queues
  BY Zenon DEF TypeOK, Queues
<1>2. Holds(readyQueues, lifoSlot, ReadySet)
  BY Zenon DEF QueueInv
<1>3. /\ \A f \in A : f \in Fibers /\ In(f, Registered) /\ f \notin ReadySet
      /\ \A f \in B : f \in Fibers /\ In(f, Registered) /\ f \notin ReadySet \cup A
  <2>1. "Sleeping" # "Ready" /\ "Blocked" # "Ready" /\ "Sleeping" # "Blocked"
    OBVIOUS
  <2>2. QED
    BY <2>1, RegisteredFacts, Zenon DEF ReadySet
<1>4. q1 \in Queues /\ Holds(q1, lifoSlot, ReadySet \cup A)
  BY <1>1, <1>2, <1>3, RegisteredFacts, HoldsAddEach, Zenon
<1> HIDE DEF q1
<1>5. /\ AddEach(q1, Registered, B) \in Queues
      /\ Holds(AddEach(q1, Registered, B), lifoSlot, (ReadySet \cup A) \cup B)
  BY <1>3, <1>4, RegisteredFacts, HoldsAddEach, Zenon
<1>6. /\ readyQueues' = AddEach(q1, Registered, B) /\ lifoSlot' = lifoSlot
      /\ MakeReady(A \cup B)
  BY Zenon DEF Unblock, q1
<1>7. (ReadySet \cup A) \cup B = ReadySet \cup (A \cup B)
  BY Zenon
<1>8. /\ A \cup B \in SUBSET Fibers
      /\ \A f \in A \cup B : state[f] \in {"Sleeping", "Blocked"}
  BY Zenon
<1>9. QED
  BY ONLY <1>5, <1>6, <1>7, <1>8, Zenon DEF Unblocks

(* Every step of the loop that polls. *)
LEMMA PollEffect ==
    ASSUME TypeOK, QueueInv, NEW to,
           \/ Unblock(Due("Sleeping"), Due("Blocked"), to)
           \/ Unblock({}, Due("Blocked"), to)
    PROVE  \E S : Unblocks(S)
<1>1. due \in SUBSET Fibers
  BY Zenon DEF TypeOK
<1>2. /\ \A f \in Due("Sleeping") : f \in Fibers /\ state[f] = "Sleeping"
      /\ \A f \in Due("Blocked") : f \in Fibers /\ state[f] = "Blocked"
      /\ \A f \in {} : f \in Fibers /\ state[f] = "Sleeping"
  BY <1>1, Zenon DEF Due
<1>3. CASE Unblock(Due("Sleeping"), Due("Blocked"), to)
  <2>1. Unblocks(Due("Sleeping") \cup Due("Blocked"))
    BY <1>2, <1>3, UnblockEffect, Zenon
  <2>2. QED
    BY ONLY <2>1, Zenon
<1>4. CASE Unblock({}, Due("Blocked"), to)
  <2>1. Unblocks({} \cup Due("Blocked"))
    BY <1>2, <1>4, UnblockEffect, Zenon
  <2>2. QED
    BY ONLY <2>1, Zenon
<1>5. QED
  BY <1>3, <1>4, Zenon

(* The loop resumes h. *)
Resumes(h) ==
    /\ h \in ReadySet
    /\ Resume(h)
    /\ readyQueues' \in Queues
    /\ Holds(readyQueues', NoFiber, ReadySet \ {h})

(* The loop finds nothing to resume. *)
FindsNone(otherwise) ==
    /\ \A f \in Fibers : state[f] # "Ready"
    /\ phase' = otherwise
    /\ UNCHANGED <<current, state, mode>>
    /\ readyQueues' \in Queues
    /\ Holds(readyQueues', NoFiber, ReadySet)

LEMMA PopEffect ==
    ASSUME NEW q \in Queues, Holds(q, NoFiber, ReadySet), NEW otherwise,
           PopAndResume(q, otherwise)
    PROVE  (\E h \in Fibers : Resumes(h)) \/ FindsNone(otherwise)
<1>1. ASSUME NEW p \in Priorities, q[p] # <<>>,
             readyQueues' = [q EXCEPT ![p] = Tail(@)], Resume(Head(q[p]))
      PROVE  \E h \in Fibers : Resumes(h)
  <2>1. /\ Head(q[p]) \in Fibers /\ Head(q[p]) \in ReadySet
        /\ [q EXCEPT ![p] = Tail(@)] \in Queues
        /\ Holds([q EXCEPT ![p] = Tail(@)], NoFiber, ReadySet \ {Head(q[p])})
    BY <1>1, HoldsPop, Zenon
  <2>2. QED
    BY ONLY <1>1, <2>1, Zenon DEF Resumes
<1>2. ASSUME \A p \in Priorities : q[p] = <<>>, readyQueues' = q, phase' = otherwise,
             UNCHANGED <<current, state, mode>>
      PROVE  FindsNone(otherwise)
  <2>1. \A f \in Fibers : f \notin ReadySet
    BY <1>2, HoldsNone, Zenon
  <2>2. QED
    BY <1>2, <2>1, Zenon DEF FindsNone, ReadySet
<1>3. QED
  BY <1>1, <1>2, Zenon DEF PopAndResume

LEMMA PickEffect ==
    ASSUME TypeOK, QueueInv, Pick \/ Repick
    PROVE  \/ \E h \in Fibers : Resumes(h)
           \/ FindsNone(IF phase = "pick" THEN "poll" ELSE "idle")
<1>1. readyQueues \in Queues
  BY Zenon DEF TypeOK, Queues
<1>2. Holds(readyQueues, lifoSlot, ReadySet) /\ (lifoSlot = NoFiber \/ lifoSlot \in Fibers)
  BY Zenon DEF QueueInv, TypeOK
<1>3. lifoSlot = NoFiber => Holds(readyQueues, NoFiber, ReadySet)
  BY <1>2, Zenon
<1>4. ASSUME lifoSlot # NoFiber, Resume(lifoSlot), UNCHANGED readyQueues
      PROVE  \E h \in Fibers : Resumes(h)
  <2>1. lifoSlot \in Fibers
    BY <1>2, <1>4, Zenon
  <2>2. lifoSlot \in ReadySet /\ Holds(readyQueues, NoFiber, ReadySet \ {lifoSlot})
    BY <1>2, <2>1, HoldsTakeSlot, Zenon
  <2>3. QED
    BY ONLY <1>1, <1>4, <2>1, <2>2, Zenon DEF Resumes
<1>5. ASSUME lifoSlot # NoFiber
      PROVE  /\ addToReadyQueue(readyQueues, lifoSlot) \in Queues
             /\ Holds(addToReadyQueue(readyQueues, lifoSlot), NoFiber, ReadySet)
  <2>1. lifoSlot \in Fibers /\ lifoSlot \in ReadySet /\ NoFiber \notin Fibers
    BY <1>2, <1>5, HoldsTakeSlot, SchedulerAssumption, Zenon
  <2>2. /\ addToReadyQueue(readyQueues, lifoSlot) \in Queues
        /\ Holds(addToReadyQueue(readyQueues, lifoSlot), NoFiber, ReadySet \cup {lifoSlot})
    BY <1>1, <1>2, <2>1, HoldsAddOne, Zenon
  <2>3. ReadySet \cup {lifoSlot} = ReadySet
    BY <2>1, Zenon
  <2>4. QED
    BY ONLY <2>2, <2>3, Zenon
<1>6. CASE Pick
  <2>1. CASE LifoTurn /\ Resume(lifoSlot) /\ UNCHANGED readyQueues
    BY <1>4, <2>1, Zenon DEF LifoTurn
  <2>2. CASE lifoSlot = NoFiber /\ PopAndResume(readyQueues, "poll")
    BY <1>1, <1>3, <1>6, <2>2, PopEffect, Zenon DEF Pick
  <2>3. CASE lifoSlot # NoFiber /\ PopAndResume(addToReadyQueue(readyQueues, lifoSlot), "poll")
    BY <1>5, <1>6, <2>3, PopEffect, Zenon DEF Pick
  <2>4. QED
    BY <1>6, <2>1, <2>2, <2>3, Zenon DEF Pick
<1>7. CASE Repick
  <2>1. phase # "pick"
    BY <1>7 DEF Repick
  <2>2. CASE lifoSlot # NoFiber /\ Resume(lifoSlot) /\ UNCHANGED readyQueues
    BY <1>4, <2>2, Zenon
  <2>3. CASE lifoSlot = NoFiber /\ PopAndResume(readyQueues, "idle")
    BY <1>1, <1>3, <2>1, <2>3, PopEffect, Zenon
  <2>4. QED
    BY <1>7, <2>2, <2>3, Zenon DEF Repick
<1>8. QED
  BY <1>6, <1>7, Zenon


(* The fibers on the wake list that are still Parked. *)
Drained == {f \in Fibers : In(f, wakeStack) /\ state[f] = "Parked"}

LEMMA DrainEffect ==
    ASSUME TypeOK, QueueInv, Distinct(wakeStack), drainWakeList
    PROVE  /\ MakeReady(Drained)
           /\ readyQueues' \in Queues
           /\ lifoSlot' \in Fibers \cup {NoFiber}
           /\ Holds(readyQueues', lifoSlot', ReadySet \cup Drained)
<1> DEFINE batch == Reversed(wakeStack)
<1>1. readyQueues \in Queues /\ wakeStack \in Seq(Fibers) /\ lifoSlot \in Fibers \cup {NoFiber}
  BY Zenon DEF TypeOK, Queues
<1>2. /\ batch \in Seq(Fibers) /\ Distinct(batch)
      /\ \A g : In(g, batch) <=> In(g, wakeStack)
  BY <1>1, ReverseFacts, Zenon
<1> HIDE DEF batch
<1>3. Woken(batch) = Drained
  <2>1. \A f : In(f, batch) => f \in Fibers
    BY <1>2 DEF In
  <2>2. QED
    BY <1>2, <2>1, Zenon DEF Woken, Members, Drained, In
<1>4. Holds(readyQueues, lifoSlot, ReadySet)
  BY Zenon DEF QueueInv
<1>5. \A f \in Drained : f \in Fibers /\ In(f, batch) /\ f \notin ReadySet
  <2>1. "Parked" # "Ready"
    OBVIOUS
  <2>2. QED
    BY <1>2, <2>1, Zenon DEF Drained, ReadySet
<1>6. MakeReady(Drained)
  BY <1>3, Zenon DEF drainWakeList, batch
<1>7. CASE Len(batch) = 1 /\ lifoSlot = NoFiber
  <2>1. /\ lifoSlot' = IF batch[1] \in Drained THEN batch[1] ELSE NoFiber
        /\ readyQueues' = readyQueues
    BY <1>3, <1>7, Zenon DEF drainWakeList, batch
  <2>2. \A f : In(f, batch) <=> f = batch[1]
    BY <1>2, <1>7 DEF In
  <2>3. CASE batch[1] \in Drained
    <3>1. Drained = {batch[1]} /\ batch[1] \in Fibers /\ batch[1] \notin ReadySet
      BY <1>5, <2>2, <2>3, Zenon
    <3>2. Holds(readyQueues, batch[1], ReadySet \cup {batch[1]})
      BY <1>4, <1>7, <3>1, HoldsFillSlot, Zenon
    <3>3. QED
      BY ONLY <1>1, <1>6, <2>1, <2>3, <3>1, <3>2, Zenon
  <2>4. CASE batch[1] \notin Drained
    <3>1. Drained = {}
      BY <1>5, <2>2, <2>4, Zenon
    <3>2. ReadySet \cup Drained = ReadySet
      BY <3>1, Zenon
    <3>3. QED
      BY ONLY <1>1, <1>4, <1>6, <1>7, <2>1, <2>4, <3>2, Zenon
  <2>5. QED
    BY ONLY <2>3, <2>4, Zenon
<1>8. CASE ~(Len(batch) = 1 /\ lifoSlot = NoFiber)
  <2>1. readyQueues' = AddEach(readyQueues, batch, Drained) /\ lifoSlot' = lifoSlot
    BY <1>3, <1>8, Zenon DEF drainWakeList, batch
  <2>2. /\ AddEach(readyQueues, batch, Drained) \in Queues
        /\ Holds(AddEach(readyQueues, batch, Drained), lifoSlot, ReadySet \cup Drained)
    BY <1>1, <1>2, <1>4, <1>5, HoldsAddEach, Zenon
  <2>3. QED
    BY ONLY <1>1, <1>6, <2>1, <2>2, Zenon
<1>9. QED
  BY ONLY <1>7, <1>8, Zenon

SuspendedSet == {f \in Fibers : state[f] \in Suspended}

LEMMA ScanEffect ==
    ASSUME TypeOK, QueueInv, Scan
    PROVE  /\ MakeReady(SuspendedSet)
           /\ readyQueues' \in Queues
           /\ Holds(readyQueues', lifoSlot', ReadySet \cup SuspendedSet)
<1>1. readyQueues \in Queues
  BY Zenon DEF TypeOK, Queues
<1>2. Holds(readyQueues, lifoSlot, ReadySet)
  BY Zenon DEF QueueInv
<1>3. "Ready" \notin Suspended
  BY DEF Suspended
<1>4. \A f \in SuspendedSet : f \in Fibers /\ In(f, Registered) /\ f \notin ReadySet
  BY <1>3, RegisteredFacts, Zenon DEF SuspendedSet, ReadySet
<1>5. /\ AddEach(readyQueues, Registered, SuspendedSet) \in Queues
      /\ Holds(AddEach(readyQueues, Registered, SuspendedSet), lifoSlot,
               ReadySet \cup SuspendedSet)
  BY <1>1, <1>2, <1>4, RegisteredFacts, HoldsAddEach, Zenon
<1>6. /\ MakeReady(SuspendedSet) /\ lifoSlot' = lifoSlot
      /\ readyQueues' = AddEach(readyQueues, Registered, SuspendedSet)
  BY Zenon DEF Scan, ScanStates, SuspendedSet
<1>7. QED
  BY ONLY <1>5, <1>6, Zenon

-----------------------------------------------------------------------------
(* Type correctness.                                                       *)

LEMMA InitType == Init => TypeOK /\ Holds(readyQueues, lifoSlot, ReadySet)
<1> SUFFICES ASSUME Init PROVE TypeOK /\ Holds(readyQueues, lifoSlot, ReadySet)
  OBVIOUS
<1> DEFINE none == [p \in Priorities |-> <<>>]
<1>1. none \in Queues /\ \A p \in Priorities : none[p] \in Seq(Fibers) /\ none[p] = <<>>
  BY DEF Queues
<1>2. \A p \in Priorities : Distinct(none[p]) /\ \A f : ~In(f, none[p])
  <2>1. ASSUME NEW p \in Priorities PROVE Distinct(none[p]) /\ \A f : ~In(f, none[p])
    <3>1. \A f : ~In(f, none[p])
      BY <1>1, EmptyFacts, Zenon
    <3>2. QED
      BY <3>1, Zenon DEF Distinct, In
  <2>2. QED
    BY ONLY <2>1, Zenon
<1> HIDE DEF none
<1>3. NoFiber \notin Fibers
  BY SchedulerAssumption, Zenon
<1>4. Holds(none, NoFiber, {})
  BY <1>2, <1>3, Zenon DEF Holds
<1>5. \A f \in Fibers : f \in Fibers /\ In(f, Registered) /\ f \notin {}
  BY RegisteredFacts, Zenon
<1>6. /\ AddEach(none, Registered, Fibers) \in Queues
      /\ Holds(AddEach(none, Registered, Fibers), NoFiber, {} \cup Fibers)
  BY <1>1, <1>4, <1>5, RegisteredFacts, HoldsAddEach, Zenon
<1>7. readyQueues = AddEach(none, Registered, Fibers) /\ lifoSlot = NoFiber
  BY Zenon DEF Init, none
<1>8. {} \cup Fibers = ReadySet
  BY Zenon DEF Init, ReadySet
<1>9. readyQueues \in [Priorities -> Seq(Fibers)]
  BY <1>6, <1>7, Zenon DEF Queues
<1>10. TypeOK
  <2>1. wakeStack \in Seq(Fibers) /\ lifoConsecutive \in 0..lifo_cap
    BY SchedulerAssumption DEF Init
  <2>2. QED
    BY <1>9, <2>1, Zenon DEF Init, TypeOK, FiberStates, Phases
<1>11. QED
  BY ONLY <1>6, <1>7, <1>8, <1>10, Zenon


(* The parts of the type invariant. *)
FiberTypes ==
    /\ state \in [Fibers -> FiberStates]
    /\ mode \in [Fibers -> {"fresh", "run", "parking", "unwind"}]
    /\ awaited \in SUBSET Fibers
    /\ due \in SUBSET Fibers

WakeTypes == wakeStack \in Seq(Fibers) /\ pushing \in SUBSET Fibers /\ userEvent \in BOOLEAN

QueueTypes ==
    /\ readyQueues \in Queues
    /\ lifoSlot \in Fibers \cup {NoFiber}
    /\ lifoConsecutive \in 0..lifo_cap

LoopTypes ==
    /\ current \in Fibers \cup {NoFiber}
    /\ interrupted \in BOOLEAN
    /\ stopFlag \in BOOLEAN
    /\ phase \in Phases

LEMMA TypeParts == TypeOK <=> FiberTypes /\ WakeTypes /\ QueueTypes /\ LoopTypes
  BY Zenon DEF TypeOK, FiberTypes, WakeTypes, QueueTypes, LoopTypes, Queues

LEMMA TypePartsPrimed ==
    ASSUME FiberTypes', WakeTypes', QueueTypes', LoopTypes' PROVE TypeOK'
  BY Zenon DEF TypeOK, FiberTypes, WakeTypes, QueueTypes, LoopTypes, Queues

LEMMA FiberFrame == ASSUME FiberTypes, UNCHANGED fiberVars PROVE FiberTypes'
  BY Zenon DEF FiberTypes, fiberVars

LEMMA WakeFrame == ASSUME WakeTypes, UNCHANGED wakeVars PROVE WakeTypes'
  BY Zenon DEF WakeTypes, wakeVars

LEMMA QueueFrame == ASSUME QueueTypes, UNCHANGED queueVars PROVE QueueTypes'
  BY Zenon DEF QueueTypes, queueVars, Queues

LEMMA MadeReadyType ==
    ASSUME FiberTypes, NEW S, MakeReady(S), UNCHANGED <<mode, awaited, due>> PROVE FiberTypes'
<1>1. "Ready" \in FiberStates
  BY DEF FiberStates
<1>2. state' \in [Fibers -> FiberStates]
  BY <1>1 DEF MakeReady, FiberTypes
<1>3. QED
  BY <1>2, Zenon DEF FiberTypes

LEMMA PhaseNames ==
    /\ "drain" \in Phases /\ "pick" \in Phases /\ "poll" \in Phases /\ "redrain" \in Phases
    /\ "repick" \in Phases /\ "fiber" \in Phases /\ "idle" \in Phases /\ "scan" \in Phases
    /\ "spin" \in Phases /\ "block" \in Phases /\ "polling" \in Phases /\ "exited" \in Phases
  BY DEF Phases

(* The steps of a fiber that switch to the loop. *)
LEMMA SwitchOutType ==
    ASSUME FiberTypes, WakeTypes, LoopTypes, NEW f \in Fibers, NEW st \in FiberStates,
           SwitchOut(f, st), UNCHANGED <<mode, awaited>>, due' \in SUBSET Fibers
    PROVE  FiberTypes' /\ WakeTypes' /\ LoopTypes'
<1>1. state' \in [Fibers -> FiberStates]
  BY DEF SwitchOut, FiberTypes
<1>2. FiberTypes'
  BY <1>1, Zenon DEF FiberTypes
<1>3. UNCHANGED wakeVars
  BY Zenon DEF SwitchOut
<1>4. WakeTypes'
  BY <1>3, WakeFrame, Zenon
<1>5. LoopTypes'
  BY PhaseNames, Zenon DEF SwitchOut, LoopTypes
<1>6. QED
  BY <1>2, <1>4, <1>5, Zenon

LEMMA ResumeType ==
    ASSUME FiberTypes, WakeTypes, LoopTypes, NEW f \in Fibers, Resume(f), UNCHANGED Resumed
    PROVE  FiberTypes' /\ WakeTypes' /\ LoopTypes'
<1>1. "Running" \in FiberStates /\ ModeOnResume(f) \in {"fresh", "run", "parking", "unwind"}
  BY DEF FiberStates, ModeOnResume
<1>2. /\ state' \in [Fibers -> FiberStates]
      /\ mode' \in [Fibers -> {"fresh", "run", "parking", "unwind"}]
  BY <1>1 DEF Resume, FiberTypes
<1>3. FiberTypes'
  BY <1>2, Zenon DEF FiberTypes, Resumed
<1>4. UNCHANGED wakeVars
  BY Zenon DEF Resumed
<1>5. WakeTypes'
  BY <1>4, WakeFrame, Zenon
<1>6. LoopTypes'
  BY PhaseNames, Zenon DEF Resume, Resumed, LoopTypes
<1>7. QED
  BY <1>3, <1>5, <1>6, Zenon

LEMMA FiberCodeType ==
    ASSUME TypeOK, NEW f \in Fibers, FiberCode(f)
    PROVE  TypeOK'
<1>1. FiberTypes /\ WakeTypes /\ QueueTypes /\ LoopTypes
  BY TypeParts, Zenon
<1>2. /\ "Ready" \in FiberStates /\ "Parked" \in FiberStates /\ "Sleeping" \in FiberStates
      /\ "Blocked" \in FiberStates /\ "Recyclable" \in FiberStates
  BY DEF FiberStates
<1>3. due \in SUBSET Fibers /\ due \ {f} \in SUBSET Fibers
  BY <1>1, Zenon DEF FiberTypes
<1>4. CASE yieldCurrentFiber(f)
  <2>1. FiberTypes' /\ WakeTypes' /\ LoopTypes'
    BY <1>1, <1>2, <1>3, <1>4, SwitchOutType, Zenon DEF yieldCurrentFiber
  <2>2. addToReadyQueue(readyQueues, f) \in Queues
    BY <1>1, AddOne, Zenon DEF QueueTypes
  <2>3. QueueTypes'
    BY <1>1, <1>4, <2>2, Zenon DEF yieldCurrentFiber, QueueTypes
  <2>4. QED
    BY <2>1, <2>3, TypePartsPrimed, Zenon
<1>5. CASE Register(f)
  <2>1. mode' \in [Fibers -> {"fresh", "run", "parking", "unwind"}]
    BY <1>1, <1>5 DEF Register, FiberTypes
  <2>2. FiberTypes'
    BY <1>1, <1>5, <2>1, Zenon DEF Register, FiberTypes
  <2>3. WakeTypes' /\ QueueTypes'
    BY <1>1, <1>5, WakeFrame, QueueFrame, Zenon DEF Register
  <2>4. LoopTypes'
    BY <1>1, <1>5, Zenon DEF Register, LoopTypes, loopVars
  <2>5. QED
    BY <2>2, <2>3, <2>4, TypePartsPrimed, Zenon
<1>6. CASE parkCurrentFiber(f)
  <2>1. FiberTypes' /\ WakeTypes' /\ LoopTypes'
    BY <1>1, <1>2, <1>3, <1>6, SwitchOutType, Zenon DEF parkCurrentFiber
  <2>2. QueueTypes'
    BY <1>1, <1>6, QueueFrame, Zenon DEF parkCurrentFiber
  <2>3. QED
    BY <2>1, <2>2, TypePartsPrimed, Zenon
<1>7. CASE WaitForPoll(f)
  <2>1. /\ SwitchOut(f, "Sleeping") \/ SwitchOut(f, "Blocked")
        /\ due' \in SUBSET Fibers /\ UNCHANGED <<mode, awaited>> /\ UNCHANGED queueVars
    BY <1>3, <1>7, Zenon DEF WaitForPoll
  <2>2. FiberTypes' /\ WakeTypes' /\ LoopTypes'
    BY <1>1, <1>2, <2>1, SwitchOutType, Zenon
  <2>3. QueueTypes'
    BY <1>1, <2>1, QueueFrame, Zenon
  <2>4. QED
    BY <2>2, <2>3, TypePartsPrimed, Zenon
<1>8. CASE Finish(f)
  <2>1. FiberTypes' /\ WakeTypes' /\ LoopTypes'
    BY <1>1, <1>2, <1>3, <1>8, SwitchOutType, Zenon DEF Finish
  <2>2. QueueTypes'
    BY <1>1, <1>8, QueueFrame, Zenon DEF Finish
  <2>3. QED
    BY <2>1, <2>2, TypePartsPrimed, Zenon
<1>9. QED
  BY <1>4, <1>5, <1>6, <1>7, <1>8, Zenon DEF FiberCode


(* The loop that polls, makes some fibers Ready and goes on. *)
LEMMA UnblockType ==
    ASSUME TypeOK, QueueInv, NEW to \in Phases,
           \/ Unblock(Due("Sleeping"), Due("Blocked"), to)
           \/ Unblock({}, Due("Blocked"), to)
    PROVE  TypeOK'
<1>1. FiberTypes /\ WakeTypes /\ QueueTypes /\ LoopTypes
  BY TypeParts, Zenon
<1>2. PICK S : Unblocks(S)
  BY PollEffect, Zenon
<1>3. /\ UNCHANGED <<lifoSlot, lifoConsecutive, mode, awaited, due, wakeStack, pushing>>
      /\ UNCHANGED <<current, interrupted, stopFlag>>
      /\ userEvent' = FALSE /\ phase' = to
  BY Zenon DEF Unblock
<1>4. FiberTypes'
  BY <1>1, <1>2, <1>3, MadeReadyType, Zenon DEF Unblocks
<1>5. WakeTypes'
  BY <1>1, <1>3, Zenon DEF WakeTypes
<1>6. QueueTypes'
  BY <1>1, <1>2, <1>3, Zenon DEF QueueTypes, Unblocks
<1>7. LoopTypes'
  BY <1>1, <1>3, Zenon DEF LoopTypes
<1>8. QED
  BY <1>4, <1>5, <1>6, <1>7, TypePartsPrimed, Zenon

LEMMA PickType ==
    ASSUME TypeOK, QueueInv, Pick \/ Repick
    PROVE  TypeOK'
<1>1. FiberTypes /\ WakeTypes /\ QueueTypes /\ LoopTypes
  BY TypeParts, Zenon
<1>2. lifoSlot' = NoFiber /\ UNCHANGED Resumed
  BY Zenon DEF Pick, Repick
<1>3. lifoConsecutive' \in 0..lifo_cap
  <2>1. lifoConsecutive \in 0..lifo_cap /\ lifo_cap \in Nat \ {0}
    BY <1>1, SchedulerAssumption, Zenon DEF QueueTypes
  <2>2. \/ lifoConsecutive < lifo_cap /\ lifoConsecutive' = lifoConsecutive + 1
        \/ lifoConsecutive' = 0
        \/ lifoConsecutive' = 1
        \/ lifoConsecutive' = lifoConsecutive
    BY Zenon DEF Pick, Repick, LifoTurn, LifoCount
  <2>3. QED
    BY ONLY <2>1, <2>2
<1>4. readyQueues' \in Queues
  BY PickEffect, Zenon DEF Resumes, FindsNone
<1>5. QueueTypes'
  BY <1>2, <1>3, <1>4, Zenon DEF QueueTypes
<1>6. CASE \E h \in Fibers : Resumes(h)
  <2>1. FiberTypes' /\ WakeTypes' /\ LoopTypes'
    BY <1>1, <1>2, <1>6, ResumeType, Zenon DEF Resumes
  <2>2. QED
    BY <1>5, <2>1, TypePartsPrimed, Zenon
<1>7. CASE FindsNone(IF phase = "pick" THEN "poll" ELSE "idle")
  <2>1. UNCHANGED <<current, state, mode>> /\ phase' \in {"poll", "idle"}
    BY <1>7, Zenon DEF FindsNone
  <2>2. UNCHANGED wakeVars /\ UNCHANGED <<awaited, due, interrupted, stopFlag>>
    BY <1>2, Zenon DEF Resumed
  <2>3. FiberTypes'
    BY <1>1, <2>1, <2>2, Zenon DEF FiberTypes
  <2>4. WakeTypes'
    BY <1>1, <2>2, WakeFrame, Zenon
  <2>5. LoopTypes'
    BY <1>1, <2>1, <2>2, PhaseNames, Zenon DEF LoopTypes
  <2>6. QED
    BY <1>5, <2>3, <2>4, <2>5, TypePartsPrimed, Zenon
<1>8. QED
  BY <1>6, <1>7, PickEffect, Zenon

LEMMA LoopType ==
    ASSUME TypeOK, QueueInv, Distinct(wakeStack), Loop
    PROVE  TypeOK'
<1>1. FiberTypes /\ WakeTypes /\ QueueTypes /\ LoopTypes
  BY TypeParts, Zenon
<1>2. CASE drainWakeList
  <2>1. /\ MakeReady(Drained) /\ readyQueues' \in Queues
        /\ lifoSlot' \in Fibers \cup {NoFiber}
    BY <1>2, DrainEffect, Zenon
  <2>2. /\ wakeStack' = <<>> /\ phase' \in {"pick", "repick"}
        /\ UNCHANGED <<mode, awaited, due>>
        /\ UNCHANGED <<lifoConsecutive, pushing, userEvent, current, interrupted, stopFlag>>
    BY <1>2, Zenon DEF drainWakeList
  <2>3. FiberTypes'
    BY <1>1, <2>1, <2>2, MadeReadyType, Zenon
  <2>4. <<>> \in Seq(Fibers)
    OBVIOUS
  <2>5. WakeTypes'
    BY <1>1, <2>2, <2>4, Zenon DEF WakeTypes
  <2>6. QueueTypes'
    BY <1>1, <2>1, <2>2, Zenon DEF QueueTypes
  <2>7. LoopTypes'
    BY <1>1, <2>2, PhaseNames, Zenon DEF LoopTypes
  <2>8. QED
    BY <2>3, <2>5, <2>6, <2>7, TypePartsPrimed, Zenon
<1>3. CASE Pick \/ Repick
  BY <1>3, PickType, Zenon
<1>4. CASE Poll
  BY <1>4, PhaseNames, UnblockType, Zenon DEF Poll
<1>5. CASE Idle
  <2>1. interrupted' \in BOOLEAN /\ phase' \in {"scan", "spin"}
    BY <1>5, Zenon DEF Idle
  <2>2. FiberTypes' /\ WakeTypes' /\ QueueTypes'
    BY <1>1, <1>5, FiberFrame, WakeFrame, QueueFrame, Zenon DEF Idle
  <2>3. LoopTypes'
    BY <1>1, <1>5, <2>1, PhaseNames, Zenon DEF Idle, LoopTypes
  <2>4. QED
    BY <2>2, <2>3, TypePartsPrimed, Zenon
<1>6. CASE Scan
  <2>1. MakeReady(SuspendedSet) /\ readyQueues' \in Queues
    BY <1>6, ScanEffect, Zenon
  <2>2. /\ UNCHANGED wakeVars /\ UNCHANGED <<mode, awaited, due>>
        /\ UNCHANGED <<lifoSlot, lifoConsecutive, current, interrupted, stopFlag>>
        /\ phase' \in {"exited", "drain"}
    BY <1>6, Zenon DEF Scan
  <2>3. FiberTypes' /\ WakeTypes'
    BY <1>1, <2>1, <2>2, MadeReadyType, WakeFrame, Zenon
  <2>4. QueueTypes'
    BY <1>1, <2>1, <2>2, Zenon DEF QueueTypes
  <2>5. LoopTypes'
    BY <1>1, <2>2, PhaseNames, Zenon DEF LoopTypes
  <2>6. QED
    BY <2>3, <2>4, <2>5, TypePartsPrimed, Zenon
<1>7. CASE Spin
  <2>1. FiberTypes' /\ WakeTypes' /\ QueueTypes'
    BY <1>1, <1>7, FiberFrame, WakeFrame, QueueFrame, Zenon DEF Spin
  <2>2. LoopTypes'
    BY <1>1, <1>7, PhaseNames, Zenon DEF Spin, LoopTypes
  <2>3. QED
    BY <2>1, <2>2, TypePartsPrimed, Zenon
<1>8. CASE Block
  <2>1. CASE Unblock(Due("Sleeping"), Due("Blocked"), "drain")
    BY <2>1, PhaseNames, UnblockType, Zenon
  <2>2. CASE phase' = "polling" /\ UNCHANGED <<wakeVars, queueVars, fiberVars, current,
                                               interrupted, stopFlag>>
    <3>1. FiberTypes' /\ WakeTypes' /\ QueueTypes'
      BY <1>1, <2>2, FiberFrame, WakeFrame, QueueFrame, Zenon
    <3>2. LoopTypes'
      BY <1>1, <2>2, PhaseNames, Zenon DEF LoopTypes
    <3>3. QED
      BY <3>1, <3>2, TypePartsPrimed, Zenon
  <2>3. QED
    BY <1>8, <2>1, <2>2, Zenon DEF Block
<1>9. CASE PollReturn
  BY <1>9, PhaseNames, UnblockType, Zenon DEF PollReturn
<1>10. QED
  BY <1>2, <1>3, <1>4, <1>5, <1>6, <1>7, <1>8, <1>9, Zenon DEF Loop

(* The steps of the wakers and of the environment. *)
Outside(f) == WakeLocal(f) \/ WakeRemote(f) \/ notifyIfPolling(f) \/ BecomesDue(f)

LEMMA OutsideType ==
    ASSUME TypeOK, RequestStop \/ \E f \in Fibers : Outside(f)
    PROVE  TypeOK'
<1>1. FiberTypes /\ WakeTypes /\ QueueTypes /\ LoopTypes
  BY TypeParts, Zenon
<1>2. CASE RequestStop
  <2>1. FiberTypes' /\ WakeTypes' /\ QueueTypes'
    BY <1>1, <1>2, FiberFrame, WakeFrame, QueueFrame, Zenon DEF RequestStop
  <2>2. LoopTypes'
    BY <1>1, <1>2, Zenon DEF RequestStop, LoopTypes
  <2>3. QED
    BY <2>1, <2>2, TypePartsPrimed, Zenon
<1>3. ASSUME NEW f \in Fibers, WakeLocal(f) \/ WakeRemote(f) PROVE TypeOK'
  <2>1. <<f>> \o wakeStack \in Seq(Fibers)
    BY <1>1 DEF WakeTypes
  <2>2. FiberTypes'
    BY <1>1, <1>3, Zenon DEF WakeLocal, WakeRemote, Push, FiberTypes
  <2>3. WakeTypes'
    BY <1>1, <1>3, <2>1, Zenon DEF WakeLocal, WakeRemote, Push, WakeTypes
  <2>4. QueueTypes'
    BY <1>1, <1>3, QueueFrame, Zenon DEF WakeLocal, WakeRemote
  <2>5. LoopTypes'
    BY <1>1, <1>3, Zenon DEF WakeLocal, WakeRemote, LoopTypes, loopVars
  <2>6. QED
    BY <2>2, <2>3, <2>4, <2>5, TypePartsPrimed, Zenon
<1>4. ASSUME NEW f \in Fibers, notifyIfPolling(f) PROVE TypeOK'
  <2>1. FiberTypes' /\ QueueTypes'
    BY <1>1, <1>4, FiberFrame, QueueFrame, Zenon DEF notifyIfPolling
  <2>2. WakeTypes'
    BY <1>1, <1>4, Zenon DEF notifyIfPolling, WakeTypes
  <2>3. LoopTypes'
    BY <1>1, <1>4, Zenon DEF notifyIfPolling, LoopTypes, loopVars
  <2>4. QED
    BY <2>1, <2>2, <2>3, TypePartsPrimed, Zenon
<1>5. ASSUME NEW f \in Fibers, BecomesDue(f) PROVE TypeOK'
  <2>1. WakeTypes' /\ QueueTypes'
    BY <1>1, <1>5, WakeFrame, QueueFrame, Zenon DEF BecomesDue
  <2>2. FiberTypes'
    BY <1>1, <1>5, Zenon DEF BecomesDue, FiberTypes
  <2>3. LoopTypes'
    BY <1>1, <1>5, Zenon DEF BecomesDue, LoopTypes, loopVars
  <2>4. QED
    BY <2>1, <2>2, <2>3, TypePartsPrimed, Zenon
<1>6. QED
  BY <1>2, <1>3, <1>4, <1>5, Zenon DEF Outside

-----------------------------------------------------------------------------
(* The queues hold the Ready fibers, and the current fiber is the one that *)
(* is Running.                                                             *)

(* A step that schedules nothing. *)
LEMMA QueueRunFrame ==
    ASSUME QueueInv, RunInv, UNCHANGED <<readyQueues, lifoSlot, state, current>>,
           phase' = "fiber" <=> phase = "fiber"
    PROVE  QueueInv' /\ RunInv'
<1>1. ReadySet' = ReadySet
  BY Zenon DEF ReadySet
<1>2. Holds(readyQueues', lifoSlot', ReadySet')
  BY <1>1, Zenon DEF QueueInv
<1>3. QED
  BY <1>2, QueueInvPrimed, Zenon DEF RunInv

(* The loop makes the fibers of S Ready and stays in the loop. *)
LEMMA QueueRunReady ==
    ASSUME RunInv, NEW S \in SUBSET Fibers, MakeReady(S),
           \A f \in S : state[f] # "Running",
           Holds(readyQueues', lifoSlot', ReadySet \cup S),
           current' = current, phase # "fiber", phase' # "fiber"
    PROVE  QueueInv' /\ RunInv'
<1>1. /\ state' = [f \in Fibers |-> IF f \in S THEN "Ready" ELSE state[f]]
      /\ ReadySet' = ReadySet \cup S
  BY MadeReady, Zenon
<1>2. QueueInv'
  BY <1>1, QueueInvPrimed, Zenon
<1>3. \A f \in Fibers : state'[f] = "Running" <=> state[f] = "Running"
  <2>1. "Ready" # "Running"
    OBVIOUS
  <2>2. \A f \in Fibers : state'[f] = IF f \in S THEN "Ready" ELSE state[f]
    BY <1>1, Zenon
  <2>3. QED
    BY <2>1, <2>2, Zenon
<1>4. RunInv'
  BY <1>3, Zenon DEF RunInv
<1>5. QED
  BY <1>2, <1>4, Zenon

(* The loop resumes a fiber. *)
LEMMA QueueRunResume ==
    ASSUME TypeOK, RunInv, phase # "fiber", NEW h \in Fibers, Resumes(h), lifoSlot' = NoFiber
    PROVE  QueueInv' /\ RunInv'
<1>1. /\ current' = h /\ phase' = "fiber" /\ state' = [state EXCEPT ![h] = "Running"]
      /\ Holds(readyQueues', NoFiber, ReadySet \ {h})
  BY Zenon DEF Resumes, Resume
<1>2. \A f \in Fibers : state'[f] = IF f = h THEN "Running" ELSE state[f]
  BY <1>1, Zenon DEF TypeOK
<1>3. ReadySet' = ReadySet \ {h}
  <2>1. "Ready" # "Running"
    OBVIOUS
  <2>2. QED
    BY <1>2, <2>1, Zenon DEF ReadySet
<1>4. QueueInv'
  BY <1>1, <1>3, QueueInvPrimed, Zenon
<1>5. current = NoFiber /\ NoFiber \notin Fibers
  BY SchedulerAssumption, Zenon DEF RunInv
<1>6. RunInv'
  BY <1>1, <1>2, <1>5, Zenon DEF RunInv
<1>7. QED
  BY <1>4, <1>6, Zenon

(* A fiber switches to the loop, and is in the queues if it yields. *)
LEMMA QueueRunSwitchOut ==
    ASSUME TypeOK, QueueInv, RunInv, NEW f \in Fibers, NEW st, SwitchOut(f, st), st # "Running",
           lifoSlot' = lifoSlot,
           readyQueues' = IF st = "Ready" THEN addToReadyQueue(readyQueues, f) ELSE readyQueues
    PROVE  QueueInv' /\ RunInv'
<1>1. /\ phase = "fiber" /\ current = f
      /\ state' = [state EXCEPT ![f] = st] /\ current' = NoFiber /\ phase' = "drain"
  BY Zenon DEF SwitchOut, InFiber
<1>2. \A g \in Fibers : state'[g] = IF g = f THEN st ELSE state[g]
  BY <1>1, Zenon DEF TypeOK
<1>3. state[f] = "Running" /\ NoFiber \notin Fibers
  BY <1>1, SchedulerAssumption, Zenon DEF RunInv
<1>4. f \notin ReadySet
  BY <1>3 DEF ReadySet
<1>5. RunInv'
  <2>1. "drain" # "fiber"
    OBVIOUS
  <2>2. QED
    BY <1>1, <1>2, <1>3, <2>1, Zenon DEF RunInv
<1>6. Holds(readyQueues, lifoSlot, ReadySet) /\ readyQueues \in Queues
  BY Zenon DEF QueueInv, TypeOK, Queues
<1>7. CASE st = "Ready"
  <2>1. Holds(addToReadyQueue(readyQueues, f), lifoSlot, ReadySet \cup {f})
    BY <1>4, <1>6, HoldsAddOne, Zenon
  <2>2. ReadySet' = ReadySet \cup {f}
    BY <1>2, <1>7, Zenon DEF ReadySet
  <2>3. QED
    BY <1>5, <1>7, <2>1, <2>2, QueueInvPrimed, Zenon
<1>8. CASE st # "Ready"
  <2>1. ReadySet' = ReadySet
    BY <1>2, <1>4, <1>8, Zenon DEF ReadySet
  <2>2. QED
    BY <1>5, <1>6, <1>8, <2>1, QueueInvPrimed, Zenon
<1>9. QED
  BY <1>7, <1>8, Zenon

LEMMA FiberCodeQueueRun ==
    ASSUME TypeOK, QueueInv, RunInv, NEW f \in Fibers, FiberCode(f)
    PROVE  QueueInv' /\ RunInv'
<1>1. /\ "Parked" # "Running" /\ "Parked" # "Ready" /\ "Ready" # "Running"
      /\ "Sleeping" # "Running" /\ "Sleeping" # "Ready"
      /\ "Blocked" # "Running" /\ "Blocked" # "Ready"
      /\ "Recyclable" # "Running" /\ "Recyclable" # "Ready"
  OBVIOUS
<1>2. CASE yieldCurrentFiber(f)
  BY <1>1, <1>2, QueueRunSwitchOut, Zenon DEF yieldCurrentFiber
<1>3. CASE Register(f)
  BY <1>3, QueueRunFrame, Zenon DEF Register, queueVars, loopVars
<1>4. CASE parkCurrentFiber(f)
  BY <1>1, <1>4, QueueRunSwitchOut, Zenon DEF parkCurrentFiber, queueVars
<1>5. CASE WaitForPoll(f)
  <2>1. /\ SwitchOut(f, "Sleeping") \/ SwitchOut(f, "Blocked")
        /\ UNCHANGED <<readyQueues, lifoSlot>>
    BY <1>5, Zenon DEF WaitForPoll, queueVars
  <2>2. QED
    BY <1>1, <2>1, QueueRunSwitchOut, Zenon
<1>6. CASE Finish(f)
  BY <1>1, <1>6, QueueRunSwitchOut, Zenon DEF Finish, queueVars
<1>7. QED
  BY <1>2, <1>3, <1>4, <1>5, <1>6, Zenon DEF FiberCode

LEMMA PollQueueRun ==
    ASSUME TypeOK, QueueInv, RunInv, phase # "fiber", NEW to, to # "fiber",
           \/ Unblock(Due("Sleeping"), Due("Blocked"), to)
           \/ Unblock({}, Due("Blocked"), to)
    PROVE  QueueInv' /\ RunInv'
<1>1. PICK S : Unblocks(S)
  BY PollEffect, Zenon
<1>2. \A f \in S : state[f] # "Running"
  BY <1>1 DEF Unblocks
<1>3. current' = current /\ phase' = to
  BY Zenon DEF Unblock
<1>4. QED
  BY <1>1, <1>2, <1>3, QueueRunReady, Zenon DEF Unblocks

LEMMA LoopQueueRun ==
    ASSUME TypeOK, QueueInv, RunInv, Distinct(wakeStack), Loop
    PROVE  QueueInv' /\ RunInv'
<1>1. CASE drainWakeList
  <2>1. MakeReady(Drained) /\ Holds(readyQueues', lifoSlot', ReadySet \cup Drained)
    BY <1>1, DrainEffect, Zenon
  <2>2. phase # "fiber" /\ phase' # "fiber" /\ current' = current
    BY <1>1 DEF drainWakeList
  <2>3. Drained \in SUBSET Fibers /\ \A f \in Drained : state[f] # "Running"
    BY DEF Drained
  <2>4. QED
    BY <2>1, <2>2, <2>3, QueueRunReady, Zenon
<1>2. CASE Pick \/ Repick
  <2>1. phase # "fiber" /\ lifoSlot' = NoFiber
    BY <1>2 DEF Pick, Repick
  <2>2. CASE \E h \in Fibers : Resumes(h)
    BY <2>1, <2>2, QueueRunResume, Zenon
  <2>3. CASE FindsNone(IF phase = "pick" THEN "poll" ELSE "idle")
    <3>1. /\ UNCHANGED <<current, state>> /\ phase' # "fiber"
          /\ Holds(readyQueues', NoFiber, ReadySet)
      BY <2>3 DEF FindsNone
    <3>2. ReadySet' = ReadySet
      BY <3>1, Zenon DEF ReadySet
    <3>3. QueueInv'
      BY <2>1, <3>1, <3>2, QueueInvPrimed, Zenon
    <3>4. RunInv'
      BY <2>1, <3>1, Zenon DEF RunInv
    <3>5. QED
      BY <3>3, <3>4, Zenon
  <2>4. QED
    BY <1>2, <2>2, <2>3, PickEffect, Zenon
<1>3. CASE Poll
  <2>1. phase # "fiber" /\ "redrain" # "fiber"
    BY <1>3 DEF Poll
  <2>2. QED
    BY <1>3, <2>1, PollQueueRun, Zenon DEF Poll
<1>4. CASE Idle
  <2>1. phase # "fiber" /\ phase' # "fiber"
    BY <1>4 DEF Idle
  <2>2. QED
    BY <1>4, <2>1, QueueRunFrame, Zenon DEF Idle, queueVars, fiberVars
<1>5. CASE Scan
  <2>1. /\ MakeReady(SuspendedSet)
        /\ Holds(readyQueues', lifoSlot', ReadySet \cup SuspendedSet)
    BY <1>5, ScanEffect, Zenon
  <2>2. phase # "fiber" /\ phase' # "fiber" /\ current' = current
    BY <1>5 DEF Scan
  <2>3. SuspendedSet \in SUBSET Fibers /\ \A f \in SuspendedSet : state[f] # "Running"
    BY DEF SuspendedSet, Suspended
  <2>4. QED
    BY <2>1, <2>2, <2>3, QueueRunReady, Zenon
<1>6. CASE Spin
  <2>1. phase # "fiber" /\ phase' # "fiber"
    BY <1>6 DEF Spin
  <2>2. QED
    BY <1>6, <2>1, QueueRunFrame, Zenon DEF Spin, queueVars, fiberVars
<1>7. CASE Block
  <2>1. phase # "fiber" /\ "drain" # "fiber" /\ "polling" # "fiber"
    BY <1>7 DEF Block
  <2>2. CASE Unblock(Due("Sleeping"), Due("Blocked"), "drain")
    BY <2>1, <2>2, PollQueueRun, Zenon
  <2>3. CASE phase' = "polling" /\ UNCHANGED <<wakeVars, queueVars, fiberVars, current,
                                               interrupted, stopFlag>>
    BY <2>1, <2>3, QueueRunFrame, Zenon DEF queueVars, fiberVars
  <2>4. QED
    BY <1>7, <2>2, <2>3, Zenon DEF Block
<1>8. CASE PollReturn
  <2>1. phase # "fiber" /\ "drain" # "fiber"
    BY <1>8 DEF PollReturn
  <2>2. QED
    BY <1>8, <2>1, PollQueueRun, Zenon DEF PollReturn
<1>9. QED
  BY <1>1, <1>2, <1>3, <1>4, <1>5, <1>6, <1>7, <1>8, Zenon DEF Loop

LEMMA OutsideQueueRun ==
    ASSUME QueueInv, RunInv, RequestStop \/ \E f \in Fibers : Outside(f)
    PROVE  QueueInv' /\ RunInv'
<1>1. CASE RequestStop
  BY <1>1, QueueRunFrame, Zenon DEF RequestStop, queueVars, fiberVars
<1>2. ASSUME NEW f \in Fibers, Outside(f)
      PROVE  UNCHANGED <<readyQueues, lifoSlot, state, current, phase>>
  BY <1>2, Zenon DEF Outside, WakeLocal, WakeRemote, notifyIfPolling, BecomesDue,
                     queueVars, loopVars, fiberVars
<1>3. QED
  BY <1>1, <1>2, QueueRunFrame, Zenon

-----------------------------------------------------------------------------
(* The wakes.                                                              *)

(* A fiber whose state, mode and wake a step leaves alone. *)
LEMMA WakeOfFrame ==
    ASSUME NEW f, WakeOf(f), state'[f] = state[f], mode'[f] = mode[f],
           HasWake(f)' <=> HasWake(f), interrupted => interrupted'
    PROVE  WakeOf(f)'
  BY Zenon DEF WakeOf

LEMMA HasWakeFrame ==
    ASSUME UNCHANGED <<awaited, wakeStack>> PROVE \A f : HasWake(f)' <=> HasWake(f)
  BY Zenon DEF HasWake, In

(* A step that leaves the wakes where they are. *)
LEMMA WakeInvFrame ==
    ASSUME WakeInv, UNCHANGED <<awaited, wakeStack>>, \A f \in Fibers : WakeOf(f)'
    PROVE  WakeInv'
  BY Zenon DEF WakeInv, Distinct, In

LEMMA WakeInvSame ==
    ASSUME WakeInv, UNCHANGED <<awaited, wakeStack, state, mode>>, interrupted => interrupted'
    PROVE  WakeInv'
<1>1. \A f \in Fibers : WakeOf(f)'
  BY WakeOfFrame, HasWakeFrame, Zenon DEF WakeInv
<1>2. QED
  BY <1>1, WakeInvFrame, Zenon

LEMMA WakeSwitchOut ==
    ASSUME TypeOK, RunInv, WakeInv, NEW f \in Fibers, NEW st, SwitchOut(f, st),
           UNCHANGED <<mode, awaited>>,
           \/ st \in {"Ready", "Sleeping", "Blocked"} /\ mode[f] = "run"
           \/ st = "Parked" /\ mode[f] = "parking"
           \/ st = "Recyclable" /\ mode[f] \in {"run", "unwind"}
    PROVE  WakeInv'
<1>1. /\ current = f /\ state' = [state EXCEPT ![f] = st]
      /\ UNCHANGED <<wakeStack, interrupted>>
  BY Zenon DEF SwitchOut, InFiber, wakeVars
<1>2. \A g \in Fibers : state'[g] = IF g = f THEN st ELSE state[g]
  BY <1>1, Zenon DEF TypeOK
<1>3. state[f] = "Running" /\ WakeOf(f)
  BY <1>1, Zenon DEF RunInv, WakeInv
<1>4. \A g : HasWake(g)' <=> HasWake(g)
  BY <1>1, HasWakeFrame, Zenon
<1>5. ASSUME NEW g \in Fibers, g # f PROVE WakeOf(g)'
  BY <1>1, <1>2, <1>4, <1>5, WakeOfFrame, Zenon DEF WakeInv
<1>6. WakeOf(f)'
  <2>1. state'[f] = st /\ mode'[f] = mode[f] /\ interrupted' = interrupted
    BY <1>1, <1>2, Zenon
  <2>2. /\ mode[f] \in {"fresh", "run"} => ~HasWake(f)
        /\ mode[f] = "parking" => HasWake(f)
        /\ mode[f] = "unwind" => interrupted
    BY <1>3, Zenon DEF WakeOf
  <2>3. QED
    BY <1>4, <2>1, <2>2 DEF WakeOf
<1>7. QED
  BY <1>1, <1>5, <1>6, WakeInvFrame, Zenon

LEMMA FiberCodeWake ==
    ASSUME TypeOK, RunInv, WakeInv, NEW f \in Fibers, FiberCode(f)
    PROVE  WakeInv'
<1>1. CASE yieldCurrentFiber(f)
  BY <1>1, WakeSwitchOut, Zenon DEF yieldCurrentFiber
<1>2. CASE Register(f)
  <2>1. /\ current = f /\ mode[f] = "run" /\ mode' = [mode EXCEPT ![f] = "parking"]
        /\ awaited' = awaited \cup {f} /\ UNCHANGED <<state, wakeStack, interrupted>>
    BY <1>2, Zenon DEF Register, InFiber, wakeVars, loopVars
  <2>2. \A g \in Fibers : mode'[g] = IF g = f THEN "parking" ELSE mode[g]
    BY <2>1, Zenon DEF TypeOK
  <2>3. state[f] = "Running" /\ WakeOf(f)
    BY <2>1, Zenon DEF RunInv, WakeInv
  <2>4. ~In(f, wakeStack)
    BY <2>1, <2>3, Zenon DEF WakeOf, HasWake
  <2>5. HasWake(f)' /\ \A g : g # f => (HasWake(g)' <=> HasWake(g))
    BY <2>1, Zenon DEF HasWake, In
  <2>6. ASSUME NEW g \in Fibers, g # f PROVE WakeOf(g)'
    BY <2>1, <2>2, <2>5, <2>6, WakeOfFrame, Zenon DEF WakeInv
  <2>7. WakeOf(f)'
    <3>1. state'[f] = "Running" /\ mode'[f] = "parking"
      BY <2>1, <2>2, <2>3, Zenon
    <3>2. QED
      BY <2>5, <3>1 DEF WakeOf
  <2>8. Distinct(wakeStack)' /\ \A g \in awaited' : ~In(g, wakeStack)'
    BY <2>1, <2>4, Zenon DEF WakeInv, Distinct, In
  <2>9. QED
    BY <2>6, <2>7, <2>8, Zenon DEF WakeInv
<1>3. CASE parkCurrentFiber(f)
  BY <1>3, WakeSwitchOut, Zenon DEF parkCurrentFiber
<1>4. CASE WaitForPoll(f)
  <2>1. /\ SwitchOut(f, "Sleeping") \/ SwitchOut(f, "Blocked")
        /\ mode[f] = "run" /\ UNCHANGED <<mode, awaited>>
    BY <1>4, Zenon DEF WaitForPoll
  <2>2. QED
    BY <2>1, WakeSwitchOut, Zenon
<1>5. CASE Finish(f)
  BY <1>5, WakeSwitchOut, Zenon DEF Finish
<1>6. QED
  BY <1>1, <1>2, <1>3, <1>4, <1>5, Zenon DEF FiberCode

LEMMA ResumeWake ==
    ASSUME TypeOK, WakeInv, NEW h \in Fibers, Resumes(h), UNCHANGED Resumed
    PROVE  WakeInv'
<1>1. /\ state[h] = "Ready" /\ state' = [state EXCEPT ![h] = "Running"]
      /\ mode' = [mode EXCEPT ![h] = ModeOnResume(h)]
      /\ UNCHANGED <<awaited, wakeStack, interrupted>>
  BY Zenon DEF Resumes, Resume, ReadySet, Resumed, wakeVars
<1>2. \A g \in Fibers : /\ state'[g] = IF g = h THEN "Running" ELSE state[g]
                        /\ mode'[g] = IF g = h THEN ModeOnResume(h) ELSE mode[g]
  BY <1>1, Zenon DEF TypeOK
<1>3. \A g : HasWake(g)' <=> HasWake(g)
  BY <1>1, HasWakeFrame, Zenon
<1>4. ASSUME NEW g \in Fibers, g # h PROVE WakeOf(g)'
  BY <1>1, <1>2, <1>3, <1>4, WakeOfFrame, Zenon DEF WakeInv
<1>5. WakeOf(h)'
  <2>1. state'[h] = "Running" /\ mode'[h] = ModeOnResume(h) /\ interrupted' = interrupted
    BY <1>1, <1>2, Zenon
  <2>2. WakeOf(h) /\ mode[h] \in {"fresh", "run", "parking", "unwind"}
    BY Zenon DEF WakeInv, TypeOK
  <2>3. \/ ModeOnResume(h) = "unwind" /\ interrupted
        \/ ModeOnResume(h) = "run" /\ ~HasWake(h)
    BY <1>1, <2>2 DEF WakeOf, ModeOnResume
  <2>4. QED
    BY <1>3, <2>1, <2>3 DEF WakeOf
<1>6. QED
  BY <1>1, <1>4, <1>5, WakeInvFrame, Zenon

(* The loop makes the fibers of S Ready, none of which is Parked unless    *)
(* the scheduler is interrupted.                                           *)
LEMMA ReadyWake ==
    ASSUME WakeInv, NEW S \in SUBSET Fibers, MakeReady(S),
           UNCHANGED <<mode, awaited, wakeStack, interrupted>>,
           \A f \in S : interrupted \/ state[f] \in {"Sleeping", "Blocked"}
    PROVE  WakeInv'
<1>1. \A f \in Fibers : state'[f] = IF f \in S THEN "Ready" ELSE state[f]
  BY MadeReady, Zenon
<1>2. \A g : HasWake(g)' <=> HasWake(g)
  BY HasWakeFrame, Zenon
<1>3. ASSUME NEW f \in Fibers PROVE WakeOf(f)'
  <2>1. WakeOf(f)
    BY Zenon DEF WakeInv
  <2>2. CASE f \notin S
    BY <1>1, <1>2, <2>1, <2>2, WakeOfFrame, Zenon
  <2>3. CASE f \in S
    <3>1. state'[f] = "Ready" /\ mode'[f] = mode[f] /\ interrupted' = interrupted
      BY <1>1, <2>3, Zenon
    <3>2. interrupted \/ mode[f] = "run"
      BY <2>1, <2>3, Zenon DEF WakeOf
    <3>3. /\ mode[f] \in {"fresh", "run"} => ~HasWake(f)
          /\ mode[f] = "unwind" => interrupted
      BY <2>1, Zenon DEF WakeOf
    <3>4. QED
      BY <1>2, <3>1, <3>2, <3>3 DEF WakeOf
  <2>4. QED
    BY <2>2, <2>3, Zenon
<1>4. QED
  BY <1>3, WakeInvFrame, Zenon

LEMMA PollWake ==
    ASSUME TypeOK, QueueInv, WakeInv, NEW to,
           \/ Unblock(Due("Sleeping"), Due("Blocked"), to)
           \/ Unblock({}, Due("Blocked"), to)
    PROVE  WakeInv'
<1>1. PICK S : Unblocks(S)
  BY PollEffect, Zenon
<1>2. UNCHANGED <<mode, awaited, wakeStack, interrupted>>
  BY Zenon DEF Unblock
<1>3. QED
  BY <1>1, <1>2, ReadyWake, Zenon DEF Unblocks


LEMMA DrainWake ==
    ASSUME TypeOK, QueueInv, RunInv, WakeInv, drainWakeList
    PROVE  WakeInv'
<1>1. MakeReady(Drained) /\ Drained \in SUBSET Fibers
  BY DrainEffect, Zenon DEF WakeInv, Drained
<1>2. \A f \in Fibers : state'[f] = IF f \in Drained THEN "Ready" ELSE state[f]
  BY <1>1 DEF MakeReady
<1>3. wakeStack' = <<>> /\ UNCHANGED <<mode, awaited, interrupted>>
  BY Zenon DEF drainWakeList
<1>4. \A f : ~In(f, wakeStack)'
  <2>1. \A f : ~In(f, <<>>)
    BY DEF In
  <2>2. QED
    BY <1>3, <2>1, Zenon DEF In
<1>5. \A f : HasWake(f)' <=> f \in awaited
  BY <1>3, <1>4, Zenon DEF HasWake
<1>6. \A f \in Fibers : state[f] # "Running"
  <2>1. phase # "fiber"
    BY DEF drainWakeList
  <2>2. current = NoFiber /\ NoFiber \notin Fibers
    BY <2>1, SchedulerAssumption, Zenon DEF RunInv
  <2>3. QED
    BY <2>2, Zenon DEF RunInv
<1>7. ASSUME NEW f \in Fibers PROVE WakeOf(f)'
  <2>1. WakeOf(f) /\ (f \in awaited => ~In(f, wakeStack))
    BY Zenon DEF WakeInv
  <2>2. mode'[f] = mode[f] /\ interrupted' = interrupted
    BY <1>3, Zenon
  <2>3. CASE f \in Drained
    <3>1. /\ state'[f] = "Ready" /\ f \notin awaited
          /\ mode[f] = "unwind" => interrupted
      BY <1>2, <2>1, <2>3, Zenon DEF Drained, WakeOf
    <3>2. QED
      BY <1>5, <2>2, <3>1 DEF WakeOf
  <2>4. CASE f \notin Drained
    <3>1. state'[f] = state[f] /\ state[f] # "Running"
      BY <1>2, <1>6, <2>4, Zenon
    <3>2. f \in awaited => HasWake(f)
      BY Zenon DEF HasWake
    <3>3. state[f] = "Parked" => f \in awaited
      BY <2>1, <2>4, Zenon DEF Drained, WakeOf, HasWake
    <3>4. QED
      BY <1>5, <2>1, <2>2, <3>1, <3>2, <3>3, Zenon DEF WakeOf
  <2>5. QED
    BY <2>3, <2>4, Zenon
<1>8. Distinct(wakeStack)'
  BY <1>4, Zenon DEF Distinct, In
<1>9. QED
  BY <1>4, <1>7, <1>8, Zenon DEF WakeInv

LEMMA LoopWake ==
    ASSUME TypeOK, QueueInv, RunInv, WakeInv, PhaseInv, Loop
    PROVE  WakeInv'
<1>1. CASE drainWakeList
  BY <1>1, DrainWake, Zenon
<1>2. CASE Pick \/ Repick
  <2>1. UNCHANGED Resumed
    BY <1>2, Zenon DEF Pick, Repick
  <2>2. CASE \E h \in Fibers : Resumes(h)
    BY <2>1, <2>2, ResumeWake, Zenon
  <2>3. CASE FindsNone(IF phase = "pick" THEN "poll" ELSE "idle")
    BY <2>1, <2>3, WakeInvSame, Zenon DEF FindsNone, Resumed, wakeVars
  <2>4. QED
    BY <1>2, <2>2, <2>3, PickEffect, Zenon
<1>3. CASE Poll
  BY <1>3, PollWake, Zenon DEF Poll
<1>4. CASE Idle
  BY <1>4, WakeInvSame, Zenon DEF Idle, wakeVars, fiberVars
<1>5. CASE Scan
  <2>1. MakeReady(SuspendedSet) /\ SuspendedSet \in SUBSET Fibers
    BY <1>5, ScanEffect, Zenon DEF SuspendedSet
  <2>2. interrupted /\ UNCHANGED <<mode, awaited, wakeStack, interrupted>>
    BY <1>5, Zenon DEF Scan, PhaseInv, wakeVars
  <2>3. QED
    BY <2>1, <2>2, ReadyWake, Zenon
<1>6. CASE Spin
  BY <1>6, WakeInvSame, Zenon DEF Spin, wakeVars, fiberVars
<1>7. CASE Block
  <2>1. CASE Unblock(Due("Sleeping"), Due("Blocked"), "drain")
    BY <2>1, PollWake, Zenon
  <2>2. CASE phase' = "polling" /\ UNCHANGED <<wakeVars, queueVars, fiberVars, current,
                                               interrupted, stopFlag>>
    BY <2>2, WakeInvSame, Zenon DEF wakeVars, fiberVars
  <2>3. QED
    BY <1>7, <2>1, <2>2, Zenon DEF Block
<1>8. CASE PollReturn
  BY <1>8, PollWake, Zenon DEF PollReturn
<1>9. QED
  BY <1>1, <1>2, <1>3, <1>4, <1>5, <1>6, <1>7, <1>8, Zenon DEF Loop

LEMMA PushFacts ==
    ASSUME NEW S, NEW q \in Seq(S), NEW f \in S
    PROVE  /\ \A g : In(g, <<f>> \o q) <=> g = f \/ In(g, q)
           /\ Distinct(q) /\ ~In(f, q) => Distinct(<<f>> \o q)
           /\ <<f>> \o q # <<>>
<1> DEFINE r == <<f>> \o q
<1>1. Len(q) \in Nat /\ DOMAIN q = 1..Len(q)
  OBVIOUS
<1>2. /\ r \in Seq(S) /\ Len(r) = Len(q) + 1 /\ DOMAIN r = 1 .. Len(q) + 1 /\ r[1] = f
      /\ \A i \in 2 .. Len(q) + 1 : r[i] = q[i - 1]
  BY <1>1
<1> HIDE DEF r
<1>3. In(f, r)
  BY <1>1, <1>2 DEF In
<1>4. ASSUME NEW i \in DOMAIN q PROVE In(q[i], r)
  <2>1. i + 1 \in DOMAIN r /\ r[i + 1] = q[i]
    BY ONLY <1>1, <1>2, i \in DOMAIN q
  <2>2. QED
    BY ONLY <2>1, Zenon DEF In
<1>5. ASSUME NEW i \in DOMAIN r PROVE r[i] = f \/ In(r[i], q)
  <2>1. i # 1 => i - 1 \in DOMAIN q /\ r[i] = q[i - 1]
    BY ONLY <1>1, <1>2, i \in DOMAIN r
  <2>2. QED
    BY ONLY <1>2, <2>1, Zenon DEF In
<1>6. \A g : In(g, r) <=> g = f \/ In(g, q)
  BY ONLY <1>3, <1>4, <1>5, Zenon DEF In
<1>7. ASSUME Distinct(q), ~In(f, q), NEW i \in DOMAIN r, NEW j \in DOMAIN r, r[i] = r[j]
      PROVE  i = j
  <2>1. \A k \in DOMAIN r : k # 1 => k - 1 \in DOMAIN q /\ r[k] = q[k - 1] /\ r[k] # f
    BY ONLY <1>1, <1>2, <1>7 DEF In
  <2>2. CASE i = 1 \/ j = 1
    BY ONLY <1>2, <1>7, <2>1, <2>2
  <2>3. CASE i # 1 /\ j # 1
    <3>1. i - 1 = j - 1
      BY ONLY <1>7, <2>1, <2>3, Zenon DEF Distinct
    <3>2. QED
      BY ONLY <1>1, <1>2, <1>7, <3>1
  <2>4. QED
    BY ONLY <2>2, <2>3, Zenon
<1>8. r # <<>>
  BY ONLY <1>2, <1>3, EmptyFacts, Zenon
<1>9. QED
  BY <1>6, <1>7, <1>8, Zenon DEF r, Distinct

LEMMA OutsideWake ==
    ASSUME TypeOK, WakeInv, RequestStop \/ \E f \in Fibers : Outside(f)
    PROVE  WakeInv'
<1>1. CASE RequestStop
  <2>1. interrupted => interrupted'
    BY <1>1 DEF RequestStop
  <2>2. QED
    BY <1>1, <2>1, WakeInvSame, Zenon DEF RequestStop, wakeVars, fiberVars
<1>2. ASSUME NEW f \in Fibers, WakeLocal(f) \/ WakeRemote(f) PROVE WakeInv'
  <2>1. /\ f \in awaited /\ awaited' = awaited \ {f} /\ wakeStack' = <<f>> \o wakeStack
        /\ UNCHANGED <<state, mode, interrupted>>
    BY <1>2, Zenon DEF WakeLocal, WakeRemote, Push, loopVars
  <2>2. wakeStack \in Seq(Fibers) /\ Distinct(wakeStack) /\ ~In(f, wakeStack)
    BY <2>1, Zenon DEF TypeOK, WakeInv
  <2>3. \A g : In(g, <<f>> \o wakeStack) <=> g = f \/ In(g, wakeStack)
    BY <2>2, PushFacts, Zenon
  <2>4. Distinct(<<f>> \o wakeStack)
    BY <2>2, PushFacts, Zenon
  <2>5. \A g : In(g, wakeStack)' <=> g = f \/ In(g, wakeStack)
    BY <2>1, <2>3, Zenon DEF In
  <2>6. Distinct(wakeStack)'
    BY <2>1, <2>4, Zenon DEF Distinct
  <2>7. \A g : HasWake(g)' <=> HasWake(g)
    BY <2>1, <2>5, Zenon DEF HasWake
  <2>8. \A g \in Fibers : WakeOf(g)'
    BY <2>1, <2>7, WakeOfFrame, Zenon DEF WakeInv
  <2>9. \A g \in awaited' : ~In(g, wakeStack)'
    BY <2>1, <2>5, Zenon DEF WakeInv
  <2>10. QED
    BY <2>6, <2>8, <2>9, Zenon DEF WakeInv
<1>3. ASSUME NEW f \in Fibers, notifyIfPolling(f) \/ BecomesDue(f) PROVE WakeInv'
  <2>1. UNCHANGED <<awaited, wakeStack, state, mode, interrupted>>
    BY <1>3, Zenon DEF notifyIfPolling, BecomesDue, wakeVars, fiberVars, loopVars
  <2>2. interrupted => interrupted'
    BY <2>1
  <2>3. QED
    BY <2>1, <2>2, WakeInvSame, Zenon
<1>4. QED
  BY <1>1, <1>2, <1>3, Zenon DEF Outside

-----------------------------------------------------------------------------
(* The phases of the loop.                                                 *)

LEMMA PhasePrimed ==
    ASSUME phase' \in {"drain", "pick", "poll", "redrain", "fiber", "exited"}
    PROVE  PhaseInv'
  BY DEF PhaseInv

LEMMA FiberCodePhase ==
    ASSUME NEW f \in Fibers, FiberCode(f)
    PROVE  PhaseInv'
<1>1. phase' \in {"drain", "fiber"}
  BY DEF FiberCode, yieldCurrentFiber, Register, parkCurrentFiber, WaitForPoll, Finish,
         SwitchOut, InFiber, loopVars
<1>2. QED
  BY <1>1, PhasePrimed

LEMMA LoopPhase ==
    ASSUME TypeOK, QueueInv, PhaseInv, Loop
    PROVE  PhaseInv'
<1>1. CASE drainWakeList
  BY <1>1 DEF drainWakeList, PhaseInv
<1>2. CASE Pick \/ Repick
  <2>1. CASE \E h \in Fibers : Resumes(h)
    <3>1. phase' = "fiber"
      BY <2>1, Zenon DEF Resumes, Resume
    <3>2. QED
      BY <3>1, PhasePrimed
  <2>2. CASE FindsNone(IF phase = "pick" THEN "poll" ELSE "idle")
    <3>1. CASE Pick
      <4>1. phase' = "poll"
        BY <2>2, <3>1, Zenon DEF FindsNone, Pick
      <4>2. QED
        BY <4>1, PhasePrimed
    <3>2. CASE Repick
      <4>1. phase = "repick" /\ phase' = "idle"
        BY <2>2, <3>2 DEF FindsNone, Repick
      <4>2. UNCHANGED <<state, wakeStack, userEvent, pushing>>
        BY <2>2, <3>2, Zenon DEF FindsNone, Repick, Resumed, wakeVars
      <4>3. \A f \in Fibers : state'[f] # "Ready"
        BY <2>2, <4>2, Zenon DEF FindsNone
      <4>4. QED
        BY <4>1, <4>2, <4>3 DEF PhaseInv
    <3>3. QED
      BY <1>2, <3>1, <3>2, Zenon
  <2>3. QED
    BY <1>2, <2>1, <2>2, PickEffect, Zenon
<1>3. CASE Poll
  <2>1. phase' = "redrain"
    BY <1>3, Zenon DEF Poll, Unblock
  <2>2. QED
    BY <2>1, PhasePrimed
<1>4. CASE Idle
  <2>1. UNCHANGED <<state, wakeStack, userEvent, pushing>> /\ phase = "idle"
    BY <1>4, Zenon DEF Idle, wakeVars, fiberVars
  <2>2. (phase' = "scan" /\ interrupted') \/ phase' = "spin"
    BY <1>4, Zenon DEF Idle
  <2>3. QED
    BY <2>1, <2>2 DEF PhaseInv
<1>5. CASE Scan
  <2>1. phase' \in {"exited", "drain"}
    BY <1>5, Zenon DEF Scan
  <2>2. QED
    BY <2>1, PhasePrimed
<1>6. CASE Spin
  <2>1. /\ UNCHANGED <<wakeStack, userEvent, pushing>> /\ phase = "spin"
        /\ phase' = "drain" \/ phase' = "block"
    BY <1>6, Zenon DEF Spin, wakeVars
  <2>2. QED
    BY <2>1 DEF PhaseInv
<1>7. CASE Block
  <2>1. CASE Unblock(Due("Sleeping"), Due("Blocked"), "drain")
    <3>1. phase' = "drain"
      BY <2>1, Zenon DEF Unblock
    <3>2. QED
      BY <3>1, PhasePrimed
  <2>2. CASE phase' = "polling" /\ UNCHANGED <<wakeVars, queueVars, fiberVars, current,
                                               interrupted, stopFlag>>
    <3>1. phase = "block" /\ UNCHANGED <<wakeStack, userEvent, pushing>>
      BY <1>7, <2>2, Zenon DEF Block, wakeVars
    <3>2. QED
      BY <2>2, <3>1 DEF PhaseInv
  <2>3. QED
    BY <1>7, <2>1, <2>2, Zenon DEF Block
<1>8. CASE PollReturn
  <2>1. phase' = "drain"
    BY <1>8, Zenon DEF PollReturn, Unblock
  <2>2. QED
    BY <2>1, PhasePrimed
<1>9. QED
  BY <1>1, <1>2, <1>3, <1>4, <1>5, <1>6, <1>7, <1>8, Zenon DEF Loop

LEMMA OutsidePhase ==
    ASSUME PhaseInv, RequestStop \/ \E f \in Fibers : Outside(f)
    PROVE  PhaseInv'
<1>1. CASE RequestStop
  <2>1. UNCHANGED <<phase, state, wakeStack, userEvent, pushing>>
    BY <1>1, Zenon DEF RequestStop, wakeVars, fiberVars
  <2>2. interrupted => interrupted'
    BY <1>1 DEF RequestStop
  <2>3. QED
    BY <2>1, <2>2, Zenon DEF PhaseInv
<1>2. ASSUME NEW f \in Fibers, WakeLocal(f) PROVE PhaseInv'
  <2>1. phase' = "fiber"
    BY <1>2, Zenon DEF WakeLocal, loopVars
  <2>2. QED
    BY <2>1, PhasePrimed
<1>3. ASSUME NEW f \in Fibers, WakeRemote(f) PROVE PhaseInv'
  <2>1. pushing' # {} /\ UNCHANGED <<phase, state, interrupted>>
    BY <1>3, Zenon DEF WakeRemote, loopVars
  <2>2. QED
    BY <2>1, Zenon DEF PhaseInv
<1>4. ASSUME NEW f \in Fibers, notifyIfPolling(f) PROVE PhaseInv'
  <2>1. userEvent' /\ UNCHANGED <<phase, state, interrupted>>
    BY <1>4, Zenon DEF notifyIfPolling, loopVars, fiberVars
  <2>2. QED
    BY <2>1, Zenon DEF PhaseInv
<1>5. ASSUME NEW f \in Fibers, BecomesDue(f) PROVE PhaseInv'
  <2>1. UNCHANGED <<phase, state, interrupted, wakeStack, userEvent, pushing>>
    BY <1>5, Zenon DEF BecomesDue, loopVars, wakeVars
  <2>2. QED
    BY <2>1, Zenon DEF PhaseInv
<1>6. QED
  BY <1>1, <1>2, <1>3, <1>4, <1>5, Zenon DEF Outside

-----------------------------------------------------------------------------
(* The invariant is inductive.                                             *)

LEMMA InitInv == Init => Inv
<1> SUFFICES ASSUME Init PROVE Inv
  OBVIOUS
<1>1. TypeOK /\ QueueInv
  BY InitType, Zenon DEF QueueInv
<1>2. NoFiber \notin Fibers /\ \A f \in Fibers : state[f] = "Ready" /\ mode[f] = "fresh"
  BY SchedulerAssumption, Zenon DEF Init
<1>3. RunInv
  BY <1>2 DEF Init, RunInv
<1>4. \A f : ~In(f, wakeStack)
  BY DEF Init, In
<1>5. \A f \in Fibers : WakeOf(f)
  <2>1. \A f : ~HasWake(f)
    BY <1>4, Zenon DEF Init, HasWake
  <2>2. QED
    BY <1>2, <2>1 DEF WakeOf
<1>6. WakeInv
  BY <1>4, <1>5, Zenon DEF WakeInv, Distinct, In
<1>7. PhaseInv
  BY DEF Init, PhaseInv
<1>8. QED
  BY <1>1, <1>3, <1>6, <1>7, Zenon DEF Inv

LEMMA NextCases ==
    ASSUME Next
    PROVE  \/ Loop
           \/ \E f \in Fibers : FiberCode(f)
           \/ RequestStop \/ \E f \in Fibers : Outside(f)
  BY Zenon DEF Next, Thread, Outside

LEMMA StutterInv == ASSUME Inv, UNCHANGED vars PROVE Inv'
<1>1. UNCHANGED wakeVars /\ UNCHANGED queueVars /\ UNCHANGED fiberVars /\ UNCHANGED loopVars
  BY Zenon DEF vars
<1>2. TypeOK'
  BY <1>1, Zenon DEF Inv, TypeOK, wakeVars, queueVars, fiberVars, loopVars
<1>3. QueueInv' /\ RunInv'
  BY <1>1, QueueRunFrame, Zenon DEF Inv, queueVars, fiberVars, loopVars
<1>4. WakeInv'
  BY <1>1, WakeInvSame, Zenon DEF Inv, wakeVars, fiberVars, loopVars
<1>5. PhaseInv'
  BY <1>1, Zenon DEF Inv, PhaseInv, wakeVars, fiberVars, loopVars
<1>6. QED
  BY <1>2, <1>3, <1>4, <1>5, Zenon DEF Inv

LEMMA NextInv == ASSUME Inv, [Next]_vars PROVE Inv'
<1>1. TypeOK /\ QueueInv /\ RunInv /\ WakeInv /\ PhaseInv /\ Distinct(wakeStack)
  BY Zenon DEF Inv, WakeInv
<1>2. CASE UNCHANGED vars
  BY <1>2, StutterInv, Zenon
<1>3. CASE Loop
  <2>1. TypeOK' /\ QueueInv' /\ RunInv' /\ WakeInv' /\ PhaseInv'
    BY <1>1, <1>3, LoopType, LoopQueueRun, LoopWake, LoopPhase, Zenon
  <2>2. QED
    BY <2>1, Zenon DEF Inv
<1>4. ASSUME NEW f \in Fibers, FiberCode(f) PROVE Inv'
  <2>1. TypeOK' /\ QueueInv' /\ RunInv' /\ WakeInv' /\ PhaseInv'
    BY <1>1, <1>4, FiberCodeType, FiberCodeQueueRun, FiberCodeWake, FiberCodePhase, Zenon
  <2>2. QED
    BY <2>1, Zenon DEF Inv
<1>5. CASE RequestStop \/ \E f \in Fibers : Outside(f)
  <2>1. TypeOK' /\ QueueInv' /\ RunInv' /\ WakeInv' /\ PhaseInv'
    BY <1>1, <1>5, OutsideType, OutsideQueueRun, OutsideWake, OutsidePhase, Zenon
  <2>2. QED
    BY <2>1, Zenon DEF Inv
<1>6. QED
  BY <1>2, <1>3, <1>4, <1>5, NextCases, Zenon

LEMMA SpecInv == Spec => []Inv
<1>1. Inv /\ [Next]_vars => Inv'
  BY NextInv, Zenon
<1>2. QED
  BY <1>1, InitInv, PTL DEF Spec

(* The index of a fiber in the queues and the slot. *)
LEMMA InvScheduledOnce == Inv => ScheduledOnce
<1> SUFFICES ASSUME Inv PROVE ScheduledOnce
  OBVIOUS
<1>1. TypeOK /\ Holds(readyQueues, lifoSlot, ReadySet)
  BY Zenon DEF Inv, QueueInv
<1> DEFINE At(f, p) == {<<p, i>> : i \in InQueue(f, p)}
           Slot(f) == IF lifoSlot = f THEN {<<3, 0>>} ELSE {}
<1>2. \A f : Occurrences(f) = (UNION {At(f, p) : p \in Priorities}) \cup Slot(f)
  BY Zenon DEF Occurrences
<1>3. \A f, p : ~In(f, readyQueues[p]) => At(f, p) = {}
  BY Zenon DEF In, InQueue
<1>4. ASSUME NEW f \in Fibers, state[f] = "Ready"
      PROVE  \E o \in Occurrences(f) : Occurrences(f) = {o}
  <2>1. CASE lifoSlot = f
    <3>1. \A p \in Priorities : ~In(f, readyQueues[p])
      BY <1>1, <2>1, Zenon DEF Holds
    <3>2. \A p \in Priorities : At(f, p) = {}
      BY <1>3, <3>1, Zenon
    <3>3. Slot(f) = {<<3, 0>>}
      BY <2>1, Zenon
    <3> HIDE DEF At, Slot
    <3>4. Occurrences(f) = {<<3, 0>>}
      BY ONLY <1>2, <3>2, <3>3, Zenon
    <3>5. QED
      BY <3>4, Zenon
  <2>2. CASE lifoSlot # f
    <3> DEFINE p == Priority[f]
    <3>1. p \in Priorities /\ In(f, readyQueues[p]) /\ Distinct(readyQueues[p])
      BY <1>1, <1>4, <2>2, PriorityType, Zenon DEF Holds, ReadySet
    <3>2. PICK i \in DOMAIN readyQueues[p] : readyQueues[p][i] = f
      BY <3>1, Zenon DEF In
    <3>3. At(f, p) = {<<p, i>>}
      <4>1. InQueue(f, p) = {i}
        BY <3>1, <3>2, Zenon DEF Distinct, InQueue
      <4>2. QED
        BY <4>1, Zenon
    <3>4. \A s \in Priorities : s # p => ~In(f, readyQueues[s])
      BY <1>1, Zenon DEF Holds
    <3>5. \A s \in Priorities : s # p => At(f, s) = {}
      BY <1>3, <3>4, Zenon
    <3>6. Slot(f) = {}
      BY <2>2, Zenon
    <3> HIDE DEF At, Slot, p
    <3>7. Occurrences(f) = {<<p, i>>}
      BY <1>2, <3>1, <3>3, <3>5, <3>6, Zenon
    <3>8. QED
      BY <3>7, Zenon
  <2>3. QED
    BY <2>1, <2>2, Zenon
<1>5. ASSUME NEW f \in Fibers, state[f] # "Ready" PROVE Occurrences(f) = {}
  <2>1. lifoSlot # f /\ \A p \in Priorities : ~In(f, readyQueues[p])
    BY <1>1, <1>5, Zenon DEF Holds, ReadySet
  <2>2. \A p \in Priorities : At(f, p) = {}
    BY <1>3, <2>1, Zenon
  <2>3. Slot(f) = {}
    BY <2>1, Zenon
  <2> HIDE DEF At, Slot
  <2>4. QED
    BY <1>2, <2>2, <2>3, Zenon
<1>6. QED
  BY <1>1, <1>4, <1>5, Zenon DEF ScheduledOnce

(* For every set of fibers and priorities: a Ready fiber is in one place   *)
(* of the ready queues and the LIFO slot and any other in none, whatever   *)
(* wakes, timers, I/O and the shutdown scan do.                            *)
THEOREM FibersAreScheduledOnce == Spec => []ScheduledOnce
  BY SpecInv, InvScheduledOnce, PTL

LEMMA InvNoWakeIsLost == Inv => NoWakeIsLost
<1> SUFFICES ASSUME Inv PROVE NoWakeIsLost
  OBVIOUS
<1>1. \A f \in Fibers : state[f] = "Parked" => f \in awaited \cup Members(wakeStack)
  <2>1. \A f : In(f, wakeStack) => f \in Members(wakeStack)
    BY Zenon DEF In, Members
  <2>2. QED
    BY <2>1, Zenon DEF Inv, WakeInv, WakeOf, HasWake
<1>2. phase = "polling" /\ wakeStack # <<>> => userEvent \/ pushing # {}
  BY Zenon DEF Inv, PhaseInv
<1>3. QED
  BY <1>1, <1>2, Zenon DEF NoWakeIsLost

(* A Parked fiber has its waker or is on the wake list, and the thread     *)
(* blocks in the poll with a fiber on the wake list only while the user    *)
(* event is triggered or about to be.                                      *)
THEOREM WakesAreNotLost == Spec => []NoWakeIsLost
  BY SpecInv, InvNoWakeIsLost, PTL

-----------------------------------------------------------------------------
(* The loop takes the steps of the kernel.  The variables of the kernel    *)
(* are functions on its one thread.                                        *)

LEMMA OnThread ==
    /\ \A x : [s \in {ThisThread} |-> x][ThisThread] = x
    /\ \A x, y : [[s \in {ThisThread} |-> x] EXCEPT ![ThisThread] = y] = [s \in {ThisThread} |-> y]
    /\ \A f \in Fibers : [g \in Fibers |-> ThisThread][f] = ThisThread
  BY Zenon

LEMMA KernelFibers ==
    /\ Kernel!FibersOf(ThisThread) = Fibers
    /\ Kernel!ReadyOf(ThisThread) = ReadySet
    /\ Kernel!SuspendedOf(ThisThread) = SuspendedSet
<1>1. Kernel!FibersOf(ThisThread) = Fibers
  BY OnThread, Zenon DEF Kernel!FibersOf
<1>2. QED
  BY <1>1, Zenon DEF Kernel!ReadyOf, ReadySet, Kernel!SuspendedOf, Kernel!SuspendedStates,
                     SuspendedSet, Suspended

(* What no step of the kernel sees. *)
LEMMA KernelStutters ==
    ASSUME UNCHANGED <<state, current, interrupted>>, Members(wakeStack)' = Members(wakeStack)
    PROVE  UNCHANGED Kernel!schedVars
  BY Zenon DEF Kernel!schedVars

LEMMA KernelSwitchOut ==
    ASSUME NEW f \in Fibers, NEW st, SwitchOut(f, st)
    PROVE  Kernel!SwitchOut(f, st)
<1>1. /\ current = f /\ state' = [state EXCEPT ![f] = st] /\ current' = NoFiber
      /\ UNCHANGED <<wakeStack, interrupted>>
  BY Zenon DEF SwitchOut, InFiber, wakeVars
<1>2. Members(wakeStack)' = Members(wakeStack)
  BY <1>1, Zenon DEF Members
<1>3. Kernel!Executing(f)
  BY <1>1, OnThread, Zenon DEF Kernel!Executing
<1>4. QED
  BY <1>1, <1>2, <1>3, OnThread, Zenon DEF Kernel!SwitchOut

LEMMA FiberCodeKernel ==
    ASSUME NEW f \in Fibers, FiberCode(f)
    PROVE  Kernel!KernelStep \/ UNCHANGED Kernel!schedVars
<1>1. CASE Register(f)
  <2>1. UNCHANGED <<state, current, interrupted>> /\ Members(wakeStack)' = Members(wakeStack)
    BY <1>1, Zenon DEF Register, wakeVars, loopVars, Members
  <2>2. QED
    BY <2>1, KernelStutters, Zenon
<1>2. CASE ~Register(f)
  <2>1. \E st \in {"Ready", "Parked", "Sleeping", "Blocked", "Recyclable"} : SwitchOut(f, st)
    BY <1>2, Zenon DEF FiberCode, yieldCurrentFiber, parkCurrentFiber, WaitForPoll, Finish
  <2>2. Kernel!FiberOperation
    BY <2>1, KernelSwitchOut, Zenon
       DEF Kernel!FiberOperation, Kernel!ParkCurrent, Kernel!YieldCurrent,
           Kernel!FinishCurrent, Kernel!WaitForPoll
  <2>3. QED
    BY <2>2, Zenon DEF Kernel!KernelStep
<1>3. QED
  BY <1>1, <1>2, Zenon

LEMMA OutsideKernel ==
    ASSUME NEW f \in Fibers, Outside(f), wakeStack \in Seq(Fibers)
    PROVE  Kernel!KernelStep \/ UNCHANGED Kernel!schedVars
<1>1. CASE WakeLocal(f) \/ WakeRemote(f)
  <2>1. UNCHANGED <<state, current, interrupted>> /\ wakeStack' = <<f>> \o wakeStack
    BY <1>1, Zenon DEF WakeLocal, WakeRemote, Push, loopVars
  <2>2. \A g : In(g, <<f>> \o wakeStack) <=> g = f \/ In(g, wakeStack)
    BY PushFacts, Zenon
  <2>3. Members(wakeStack)' = Members(wakeStack) \cup {f}
    BY <2>1, <2>2, Zenon DEF Members, In
  <2>4. Kernel!Wake(f)
    BY <2>1, <2>3, OnThread, Zenon DEF Kernel!Wake
  <2>5. QED
    BY <2>4, Zenon DEF Kernel!FiberOperation, Kernel!KernelStep
<1>2. CASE notifyIfPolling(f) \/ BecomesDue(f)
  <2>1. UNCHANGED <<state, current, interrupted>> /\ Members(wakeStack)' = Members(wakeStack)
    BY <1>2, Zenon DEF notifyIfPolling, BecomesDue, fiberVars, wakeVars, loopVars, Members
  <2>2. QED
    BY <2>1, KernelStutters, Zenon
<1>3. QED
  BY <1>1, <1>2, Zenon DEF Outside

(* interrupt(), or the loop interrupts itself. *)
LEMMA InterruptKernel ==
    ASSUME interrupted \in BOOLEAN, interrupted' \in BOOLEAN, interrupted => interrupted',
           UNCHANGED <<state, current>>, Members(wakeStack)' = Members(wakeStack)
    PROVE  Kernel!KernelStep \/ UNCHANGED Kernel!schedVars
<1>1. CASE interrupted' = interrupted
  BY <1>1, KernelStutters, Zenon
<1>2. CASE interrupted' # interrupted
  <2>1. ~interrupted /\ interrupted' = TRUE
    BY <1>2
  <2>2. Kernel!Interrupt(ThisThread)
    BY <2>1, OnThread, Zenon DEF Kernel!Interrupt
  <2>3. QED
    BY <2>2, Zenon DEF Kernel!KernelStep, Kernel!SchedStep
<1>3. QED
  BY <1>1, <1>2, Zenon

LEMMA ResumeKernel ==
    ASSUME NEW h \in Fibers, Resumes(h), current = NoFiber, UNCHANGED Resumed
    PROVE  Kernel!KernelStep
<1>1. /\ state[h] = "Ready" /\ state' = [state EXCEPT ![h] = "Running"] /\ current' = h
      /\ UNCHANGED <<wakeStack, interrupted>>
  BY Zenon DEF Resumes, ReadySet, Resume, Resumed, wakeVars
<1>2. Members(wakeStack)' = Members(wakeStack)
  BY <1>1, Zenon DEF Members
<1>3. Kernel!Resume(h)
  BY <1>1, <1>2, OnThread, Zenon DEF Kernel!Resume
<1>4. QED
  BY <1>3, Zenon DEF Kernel!KernelStep, Kernel!SchedStep

LEMMA PollKernel ==
    ASSUME TypeOK, QueueInv, current = NoFiber, NEW to,
           \/ Unblock(Due("Sleeping"), Due("Blocked"), to)
           \/ Unblock({}, Due("Blocked"), to)
    PROVE  Kernel!KernelStep
<1>1. PICK S : Unblocks(S)
  BY PollEffect, Zenon
<1>2. UNCHANGED <<current, wakeStack, interrupted>>
  BY Zenon DEF Unblock
<1>3. Members(wakeStack)' = Members(wakeStack)
  BY <1>2, Zenon DEF Members
<1>4. /\ S \in SUBSET {f \in Kernel!FibersOf(ThisThread) : state[f] \in {"Sleeping", "Blocked"}}
      /\ Kernel!MakeReady(S)
  BY <1>1, KernelFibers, Zenon DEF Unblocks, Kernel!MakeReady, MakeReady
<1>5. Kernel!Unblock(ThisThread)
  BY <1>2, <1>3, <1>4, OnThread, Zenon DEF Kernel!Unblock
<1>6. QED
  BY <1>5, Zenon DEF Kernel!KernelStep

LEMMA NothingMadeReady ==
    ASSUME TypeOK, NEW S, MakeReady(S), \A f \in Fibers : f \notin S
    PROVE  state' = state
<1>1. state' = [f \in Fibers |-> state[f]]
  BY DEF MakeReady
<1>2. state \in [Fibers -> FiberStates]
  BY Zenon DEF TypeOK
<1>3. QED
  BY ONLY <1>1, <1>2

LEMMA DrainKernel ==
    ASSUME TypeOK, QueueInv, Distinct(wakeStack), current = NoFiber, drainWakeList
    PROVE  Kernel!KernelStep \/ UNCHANGED Kernel!schedVars
<1>1. MakeReady(Drained)
  BY DrainEffect, Zenon
<1>2. wakeStack' = <<>> /\ UNCHANGED <<current, interrupted>>
  BY Zenon DEF drainWakeList
<1>3. \A f : ~In(f, <<>>)
  BY DEF In
<1>4. Members(wakeStack)' = {}
  BY <1>2, <1>3, Zenon DEF Members, In
<1>5. CASE Members(wakeStack) = {}
  <2>1. \A f \in Fibers : f \notin Drained
    BY <1>5, Zenon DEF Drained, Members, In
  <2>2. state' = state
    BY <1>1, <2>1, NothingMadeReady, Zenon
  <2>3. QED
    BY <1>2, <1>4, <1>5, <2>2, KernelStutters, Zenon
<1>6. CASE Members(wakeStack) # {}
  <2>1. Members(wakeStack) \subseteq Fibers
    BY DEF TypeOK, Members
  <2>2. Drained = {f \in Members(wakeStack) : state[f] = "Parked"}
    BY <2>1, Zenon DEF Drained, Members, In
  <2>3. Kernel!MakeReady({f \in Members(wakeStack) : state[f] = "Parked"})
    BY <1>1, <2>2, Zenon DEF MakeReady, Kernel!MakeReady
  <2>4. Kernel!drainWakeList(ThisThread)
    BY <1>2, <1>4, <1>6, <2>3, OnThread, Zenon DEF Kernel!drainWakeList
  <2>5. QED
    BY <2>4, Zenon DEF Kernel!KernelStep, Kernel!SchedStep
<1>7. QED
  BY <1>5, <1>6, Zenon

LEMMA ScanKernel ==
    ASSUME TypeOK, QueueInv, PhaseInv, current = NoFiber, Scan
    PROVE  Kernel!KernelStep \/ UNCHANGED Kernel!schedVars
<1>1. MakeReady(SuspendedSet)
  BY ScanEffect, Zenon
<1>2. UNCHANGED <<current, interrupted, wakeStack>>
  BY Zenon DEF Scan, wakeVars
<1>3. Members(wakeStack)' = Members(wakeStack)
  BY <1>2, Zenon DEF Members
<1>4. interrupted /\ ReadySet = {}
  BY Zenon DEF Scan, PhaseInv, ReadySet
<1>5. CASE SuspendedSet = {}
  <2>1. state' = state
    BY <1>1, <1>5, NothingMadeReady, Zenon
  <2>2. QED
    BY <1>2, <1>3, <2>1, KernelStutters, Zenon
<1>6. CASE SuspendedSet # {}
  <2>1. Kernel!MakeReady(Kernel!SuspendedOf(ThisThread))
    BY <1>1, KernelFibers, Zenon DEF MakeReady, Kernel!MakeReady
  <2>2. Kernel!ShutdownScan(ThisThread)
    BY <1>2, <1>3, <1>4, <1>6, <2>1, KernelFibers, OnThread, Zenon DEF Kernel!ShutdownScan
  <2>3. QED
    BY <2>2, Zenon DEF Kernel!KernelStep, Kernel!SchedStep
<1>7. QED
  BY <1>5, <1>6, Zenon


LEMMA LoopKernel ==
    ASSUME Inv, Inv', Loop
    PROVE  Kernel!KernelStep \/ UNCHANGED Kernel!schedVars
<1>1. TypeOK /\ QueueInv /\ RunInv /\ PhaseInv /\ Distinct(wakeStack)
  BY Zenon DEF Inv, WakeInv
<1>2. current = NoFiber
  <2>1. phase # "fiber"
    BY DEF Loop, drainWakeList, Pick, Poll, Repick, Idle, Scan, Spin, Block, PollReturn
  <2>2. QED
    BY <1>1, <2>1, Zenon DEF RunInv
<1>3. CASE drainWakeList
  BY <1>1, <1>2, <1>3, DrainKernel, Zenon
<1>4. CASE Pick \/ Repick
  <2>1. UNCHANGED Resumed
    BY <1>4, Zenon DEF Pick, Repick
  <2>2. CASE \E h \in Fibers : Resumes(h)
    BY <1>2, <2>1, <2>2, ResumeKernel, Zenon
  <2>3. CASE FindsNone(IF phase = "pick" THEN "poll" ELSE "idle")
    <3>1. UNCHANGED <<state, current, interrupted, wakeStack>>
      BY <2>1, <2>3, Zenon DEF FindsNone, Resumed, wakeVars
    <3>2. Members(wakeStack)' = Members(wakeStack)
      BY <3>1, Zenon DEF Members
    <3>3. QED
      BY <3>1, <3>2, KernelStutters, Zenon
  <2>4. QED
    BY <1>1, <1>4, <2>2, <2>3, PickEffect, Zenon
<1>5. CASE Poll
  BY <1>1, <1>2, <1>5, PollKernel, Zenon DEF Poll
<1>6. CASE Idle
  <2>1. UNCHANGED <<state, current, wakeStack>>
    BY <1>6, Zenon DEF Idle, fiberVars, wakeVars
  <2>2. Members(wakeStack)' = Members(wakeStack)
    BY <2>1, Zenon DEF Members
  <2>3. interrupted \in BOOLEAN /\ interrupted' \in BOOLEAN
    BY Zenon DEF Inv, TypeOK
  <2>4. interrupted => interrupted'
    BY <1>6, Zenon DEF Idle
  <2>5. QED
    BY <2>1, <2>2, <2>3, <2>4, InterruptKernel, Zenon
<1>7. CASE Scan
  BY <1>1, <1>2, <1>7, ScanKernel, Zenon
<1>8. CASE Spin
  <2>1. UNCHANGED <<state, current, interrupted, wakeStack>>
    BY <1>8, Zenon DEF Spin, fiberVars, wakeVars
  <2>2. Members(wakeStack)' = Members(wakeStack)
    BY <2>1, Zenon DEF Members
  <2>3. QED
    BY <2>1, <2>2, KernelStutters, Zenon
<1>9. CASE Block
  <2>1. CASE Unblock(Due("Sleeping"), Due("Blocked"), "drain")
    BY <1>1, <1>2, <2>1, PollKernel, Zenon
  <2>2. CASE phase' = "polling" /\ UNCHANGED <<wakeVars, queueVars, fiberVars, current,
                                               interrupted, stopFlag>>
    <3>1. UNCHANGED <<state, current, interrupted, wakeStack>>
      BY <2>2, Zenon DEF fiberVars, wakeVars
    <3>2. Members(wakeStack)' = Members(wakeStack)
      BY <3>1, Zenon DEF Members
    <3>3. QED
      BY <3>1, <3>2, KernelStutters, Zenon
  <2>3. QED
    BY <1>9, <2>1, <2>2, Zenon DEF Block
<1>10. CASE PollReturn
  BY <1>1, <1>2, <1>10, PollKernel, Zenon DEF PollReturn
<1>11. QED
  BY <1>3, <1>4, <1>5, <1>6, <1>7, <1>8, <1>9, <1>10, Zenon DEF Loop

LEMMA NextKernel ==
    ASSUME Inv, Inv', [Next]_vars
    PROVE  [Kernel!KernelStep]_(Kernel!schedVars)
<1>1. SUFFICES Kernel!KernelStep \/ UNCHANGED Kernel!schedVars
  BY Zenon
<1>2. CASE UNCHANGED vars
  <2>1. UNCHANGED <<state, current, interrupted, wakeStack>>
    BY <1>2, Zenon DEF vars, wakeVars, fiberVars, loopVars
  <2>2. Members(wakeStack)' = Members(wakeStack)
    BY <2>1, Zenon DEF Members
  <2>3. QED
    BY <2>1, <2>2, KernelStutters, Zenon
<1>3. CASE Loop
  BY <1>3, LoopKernel, Zenon
<1>4. CASE \E f \in Fibers : FiberCode(f)
  BY <1>4, FiberCodeKernel, Zenon
<1>5. CASE RequestStop
  <2>1. UNCHANGED <<state, current, wakeStack>>
    BY <1>5, Zenon DEF RequestStop, fiberVars, wakeVars
  <2>2. Members(wakeStack)' = Members(wakeStack)
    BY <2>1, Zenon DEF Members
  <2>3. interrupted \in BOOLEAN /\ interrupted' \in BOOLEAN
    BY Zenon DEF Inv, TypeOK
  <2>4. interrupted => interrupted'
    BY <1>5 DEF RequestStop
  <2>5. QED
    BY <2>1, <2>2, <2>3, <2>4, InterruptKernel, Zenon
<1>6. CASE \E f \in Fibers : Outside(f)
  <2>1. wakeStack \in Seq(Fibers)
    BY Zenon DEF Inv, TypeOK
  <2>2. QED
    BY <1>6, <2>1, OutsideKernel, Zenon
<1>7. QED
  BY <1>2, <1>3, <1>4, <1>5, <1>6, NextCases, Zenon

LEMMA InitKernel == Init => Kernel!SchedInit
<1> SUFFICES ASSUME Init PROVE Kernel!SchedInit
  OBVIOUS
<1>1. \A f : ~In(f, wakeStack)
  BY DEF Init, In
<1>2. Members(wakeStack) = {}
  BY <1>1, Zenon DEF Members, In
<1>3. QED
  BY <1>2, Zenon DEF Init, Kernel!SchedInit

(* The run loop of scheduler.cpp, with its queues, LIFO slot, timers and   *)
(* shutdown, the fibers it runs and the threads that wake them, takes only *)
(* steps of the kernel from which the models of the mutexes, the promise   *)
(* and the transaction mutex are built.                                    *)
THEOREM LoopRefinesKernel == Spec => TakesKernelSteps
<1>1. Inv /\ Inv' /\ [Next]_vars => [Kernel!KernelStep]_(Kernel!schedVars)
  BY NextKernel, Zenon
<1>2. QED
  BY <1>1, SpecInv, InitKernel, PTL DEF Spec, TakesKernelSteps, Kernel!KernelSpec
=============================================================================
