---------------------------- MODULE StrandProofs ----------------------------
(***************************************************************************)
(* Proofs about strands when the reactor has one thread, for any number of *)
(* fibers and strands: t is that thread throughout.                        *)
(***************************************************************************)
EXTENDS Strand, TLAPS

In(f, q) == \E i \in DOMAIN q : q[i] = f

Distinct(q) == \A i, j \in DOMAIN q : q[i] = q[j] => i = j

OutsidePcs == {"enter", "queued", "waiting", "reenter"}

(* Where a fiber is on its thread. *)
PlaceOf(t, f) ==
    /\ current[t] = f <=> state[f] = "Running"
    /\ In(f, ready[t]) <=> state[f] = "Ready"
    /\ state[f] = "Recyclable" <=> pc[f] = "done"
    /\ pc[f] \in {"queued", "body", "reenter", "parking"} => state[f] = "Running"
    /\ pc[f] \in {"enter", "yielded"} => state[f] \in {"Ready", "Running"}
    /\ switched[t] = f => \/ state[f] = "Parked" /\ pc[f] \in {"waiting", "asleep"}
                          \/ state[f] = "Ready" /\ pc[f] = "yielded"
                          \/ pc[f] = "done"

(* What it has to do with the strands: it is the active fiber of the one   *)
(* it is in or entering, waits in its queue, or neither.                   *)
StrandOf(f) ==
    /\ homeStrand[f] = IF pc[f] \in OutsidePcs THEN NoStrand ELSE target[f]
    /\ \A s \in Strands : active[s] = f =>
          s = target[f] /\ pc[f] \notin {"enter", "reenter", "queued"}
    /\ \A s \in Strands : In(f, waitq[s]) =>
          /\ s = target[f] /\ active[s] # f
          /\ pc[f] = "queued" \/ (pc[f] \in {"waiting", "asleep"} /\ state[f] = "Parked")
    /\ pc[f] \in {"body", "parking", "yielded"} => active[target[f]] = f
    /\ pc[f] = "queued" => In(f, waitq[target[f]])
    /\ pc[f] = "waiting" /\ state[f] = "Parked" => In(f, waitq[target[f]])
    /\ pc[f] \in {"waiting", "asleep"} /\ state[f] # "Parked" => active[target[f]] = f

(* Who is going to resume it, or to take its strand back: the loop, the    *)
(* reactor, or a waker.                                                    *)
CareOf(t, f) ==
    /\ active[target[f]] = f /\ state[f] \in {"Parked", "Recyclable"} =>
          (switched[t] = f <=> target[f] \notin readyStrands)
    /\ active[target[f]] = f /\ target[f] \in readyStrands =>
          state[f] = "Parked" /\ pc[f] = "asleep"
    /\ switched[t] = f /\ pc[f] \in {"asleep", "done"} => active[target[f]] = f
    /\ f \in awaited \/ In(f, wakeList[t]) =>
          \/ pc[f] = "parking"
          \/ /\ pc[f] = "asleep" /\ state[f] = "Parked" /\ ~In(f, waitq[target[f]])
             /\ active[target[f]] = f => switched[t] = f
    /\ ~(f \in awaited /\ In(f, wakeList[t]))

FiberInv(t, f) == PlaceOf(t, f) /\ StrandOf(f) /\ CareOf(t, f)

(* A strand that nobody is in has no waiters. *)
StrandInv(s) ==
    /\ active[s] = NoFiber => waitq[s] = <<>> /\ s \notin readyStrands
    /\ Distinct(waitq[s])

ThreadInv(t) ==
    /\ current[t] = NoFiber \/ switched[t] = NoFiber
    /\ Distinct(ready[t]) /\ Distinct(wakeList[t])

IInv(t) ==
    /\ TypeOK
    /\ \A f \in Fibers : FiberInv(t, f)
    /\ \A s \in Strands : StrandInv(s)
    /\ ThreadInv(t)

-----------------------------------------------------------------------------
(* The empty queue. *)
LEMMA EmptyFacts ==
    ASSUME NEW S, NEW q \in Seq(S)
    PROVE  q = <<>> <=> Len(q) = 0
  OBVIOUS

(* What an append to a queue changes. *)
LEMMA AppendFacts ==
    ASSUME NEW S, NEW q \in Seq(S), NEW e \in S
    PROVE  /\ Append(q, e) \in Seq(S)
           /\ Append(q, e) # <<>>
           /\ \A f : In(f, Append(q, e)) <=> In(f, q) \/ f = e
           /\ Distinct(q) /\ ~In(e, q) => Distinct(Append(q, e))
<1> DEFINE r == Append(q, e)
<1>1. /\ r \in Seq(S) /\ Len(r) = Len(q) + 1 /\ Len(q) \in Nat
      /\ DOMAIN q = 1..Len(q) /\ DOMAIN r = 1..Len(r)
      /\ \A i \in 1..Len(q) : r[i] = q[i]
      /\ r[Len(q) + 1] = e
  OBVIOUS
<1>2. \A i \in DOMAIN r : i \in DOMAIN q \/ i = Len(q) + 1
  BY ONLY <1>1
<1>3. \A i \in DOMAIN q : i \in DOMAIN r
  BY ONLY <1>1
<1>4. Len(q) + 1 \in DOMAIN r
  BY ONLY <1>1
<1> HIDE DEF r
<1>5. \A f : In(f, r) <=> In(f, q) \/ f = e
  BY ONLY <1>1, <1>2, <1>3, <1>4, Zenon DEF In
<1>6. Distinct(q) /\ ~In(e, q) => Distinct(r)
  BY ONLY <1>1, <1>2, Zenon DEF In, Distinct
<1>7. r # <<>>
  BY <1>1
<1>8. QED
  BY <1>1, <1>5, <1>6, <1>7, Zenon DEF r

(* The removal of a queue's head. *)
LEMMA TailFacts ==
    ASSUME NEW S, NEW q \in Seq(S), q # <<>>
    PROVE  /\ Head(q) \in S /\ Tail(q) \in Seq(S)
           /\ In(Head(q), q)
           /\ Head(q) = q[1]
           /\ Len(q) = 1 <=> Tail(q) = <<>>
           /\ \A f : In(f, Tail(q)) => In(f, q)
           /\ \A f : In(f, q) => f = Head(q) \/ In(f, Tail(q))
           /\ Distinct(q) => Distinct(Tail(q)) /\ ~In(Head(q), Tail(q))
<1> DEFINE r == Tail(q)
<1>1. /\ r \in Seq(S) /\ Len(r) = Len(q) - 1 /\ Len(q) \in Nat \ {0} /\ Head(q) \in S
      /\ DOMAIN q = 1..Len(q) /\ DOMAIN r = 1..Len(r)
      /\ \A i \in 1..Len(r) : r[i] = q[i + 1]
      /\ Head(q) = q[1]
  OBVIOUS
<1>2. \A i \in DOMAIN r : i \in Nat /\ i + 1 \in DOMAIN q /\ i + 1 # 1
  BY ONLY <1>1
<1>3. \A i \in DOMAIN q : i = 1 \/ (i - 1 \in DOMAIN r /\ (i - 1) + 1 = i)
  BY ONLY <1>1
<1>4. 1 \in DOMAIN q
  BY ONLY <1>1
<1> HIDE DEF r
<1>5. Len(q) = 1 <=> r = <<>>
  <2>1. r = <<>> <=> Len(r) = 0
    BY ONLY <1>1, EmptyFacts, Zenon
  <2>2. QED
    BY ONLY <1>1, <2>1
<1>6. In(Head(q), q) /\ \A f : In(f, r) => In(f, q)
  BY ONLY <1>1, <1>2, <1>4, Zenon DEF In
<1>7. \A f : In(f, q) => f = Head(q) \/ In(f, r)
  <2>1. ASSUME NEW i \in DOMAIN q, i # 1
        PROVE  i - 1 \in DOMAIN r /\ r[i - 1] = q[i]
    BY ONLY <1>1, <1>3, <2>1, Zenon
  <2>2. ASSUME NEW i \in DOMAIN q
        PROVE  q[i] = Head(q) \/ In(q[i], r)
    BY ONLY <1>1, <2>1, <2>2, Zenon DEF In
  <2>3. QED
    BY ONLY <2>2, Zenon DEF In
<1>8. ASSUME Distinct(q)
      PROVE  Distinct(r) /\ ~In(Head(q), r)
  <2>1. \A i, j \in DOMAIN r : r[i] = r[j] => i + 1 = j + 1
    BY ONLY <1>1, <1>2, <1>8 DEF Distinct
  <2>2. Distinct(r)
    BY ONLY <1>2, <2>1 DEF Distinct
  <2>3. ~In(Head(q), r)
    BY ONLY <1>1, <1>2, <1>4, <1>8 DEF Distinct, In
  <2>4. QED
    BY ONLY <2>2, <2>3, Zenon
<1>9. QED
  BY <1>1, <1>5, <1>6, <1>7, <1>8, Zenon DEF r

(* The short sequences. *)
LEMMA ShortFacts ==
    /\ \A f : ~In(f, <<>>)
    /\ Distinct(<<>>)
    /\ \A f, e : In(f, <<e>>) <=> f = e
    /\ \A e : Distinct(<<e>>) /\ Len(<<e>>) = 1 /\ <<e>>[1] = e
<1>1. DOMAIN <<>> = {} /\ \A e : DOMAIN <<e>> = {1} /\ <<e>>[1] = e /\ Len(<<e>>) = 1
  OBVIOUS
<1>2. QED
  BY <1>1 DEF In, Distinct

(* Nothing that the invariant says of a fiber changes. *)
Same(t, g) ==
    /\ pc'[g] = pc[g] /\ state'[g] = state[g] /\ target'[g] = target[g]
    /\ homeStrand'[g] = homeStrand[g]
    /\ current'[t] = g <=> current[t] = g
    /\ switched'[t] = g <=> switched[t] = g
    /\ In(g, ready'[t]) <=> In(g, ready[t])
    /\ In(g, wakeList'[t]) <=> In(g, wakeList[t])
    /\ g \in awaited' <=> g \in awaited
    /\ \A s \in Strands : /\ active'[s] = g <=> active[s] = g
                          /\ In(g, waitq'[s]) <=> In(g, waitq[s])
                          /\ active[s] = g => (s \in readyStrands' <=> s \in readyStrands)

(* Then the invariant says the same of it. *)
LEMMA SameKeeps ==
    ASSUME NEW t, TypeOK, NEW g \in Fibers, FiberInv(t, g), Same(t, g)
    PROVE  FiberInv(t, g)'
<1>1. target[g] \in Strands
  BY Zenon DEF TypeOK
<1>2. PlaceOf(t, g)'
  BY ONLY FiberInv(t, g), Same(t, g), Zenon DEF FiberInv, Same, PlaceOf
<1>3. StrandOf(g)'
  BY ONLY FiberInv(t, g), Same(t, g), <1>1, Zenon DEF FiberInv, Same, StrandOf
<1>4. CareOf(t, g)'
  BY ONLY FiberInv(t, g), Same(t, g), <1>1, Zenon DEF FiberInv, Same, CareOf
<1>5. QED
  BY ONLY <1>2, <1>3, <1>4, Zenon DEF FiberInv

(* A step that concerns one fiber. *)
LEMMA OwnStep ==
    ASSUME NEW t, IInv(t), NEW f \in Fibers, TypeOK',
           \A g \in Fibers \ {f} : Same(t, g),
           FiberInv(t, f)', \A s \in Strands : StrandInv(s)', ThreadInv(t)'
    PROVE  IInv(t)'
<1>1. TypeOK /\ \A g \in Fibers : FiberInv(t, g)
  BY Zenon DEF IInv
<1>2. \A g \in Fibers : FiberInv(t, g)'
  BY <1>1, SameKeeps, Zenon
<1>3. QED
  BY <1>2, Zenon DEF IInv

-----------------------------------------------------------------------------
(* No waiter of a strand has finished: release() picks the first one.      *)
LEMMA ReleaseFacts ==
    ASSUME NEW t, IInv(t), NEW s \in Strands
    PROVE  /\ waitq[s] = <<>> => ActiveAfterRelease(s) = NoFiber
           /\ waitq[s] # <<>> =>
                 /\ ActiveAfterRelease(s) = Head(waitq[s])
                 /\ SubSeq(waitq[s], NextWaiter(s) + 1, Len(waitq[s])) = Tail(waitq[s])
<1> DEFINE q == waitq[s]
<1>1. q \in Seq(Fibers) /\ \A g \in Fibers : FiberInv(t, g)
  BY Zenon DEF IInv, TypeOK
<1>2. DOMAIN q = 1..Len(q) /\ Len(q) \in Nat /\ \A i \in DOMAIN q : q[i] \in Fibers
  BY ONLY <1>1
<1>3. \A i \in DOMAIN q : state[q[i]] # "Recyclable"
  <2>1. SUFFICES ASSUME NEW i \in DOMAIN q
                 PROVE  state[q[i]] # "Recyclable"
    OBVIOUS
  <2>2. In(q[i], waitq[s]) /\ q[i] \in Fibers
    BY <1>2, Zenon DEF In
  <2>3. PlaceOf(t, q[i]) /\ StrandOf(q[i])
    BY ONLY <1>1, <2>2, Zenon DEF FiberInv
  <2>4. QED
    BY ONLY <2>2, <2>3, s \in Strands, Zenon DEF PlaceOf, StrandOf
<1>4. LiveWaiters(s) = 1..Len(q)
  BY <1>2, <1>3, Zenon DEF LiveWaiters
<1>5. CASE q = <<>>
  <2>1. Len(q) = 0
    BY ONLY <1>5
  <2>2. LiveWaiters(s) = {}
    BY ONLY <1>4, <2>1
  <2>3. QED
    BY <1>5, <2>2, Zenon DEF NextWaiter, ActiveAfterRelease
<1>6. CASE q # <<>>
  <2>1. Len(q) # 0
    BY ONLY <1>1, <1>6, EmptyFacts, Zenon
  <2>2. 1 \in LiveWaiters(s) /\ \A j \in LiveWaiters(s) : 1 <= j /\ j \in Nat
    BY ONLY <1>2, <1>4, <2>1
  <2>3. \A i \in LiveWaiters(s) : (\A j \in LiveWaiters(s) : i <= j) => i = 1
    BY ONLY <2>2
  <2>4. NextWaiter(s) = 1
    BY ONLY <2>2, <2>3, Zenon DEF NextWaiter
  <2>5. Head(q) = q[1] /\ Tail(q) = SubSeq(q, 2, Len(q))
    BY ONLY <1>1, <1>6
  <2>6. QED
    BY ONLY <1>6, <2>4, <2>5 DEF ActiveAfterRelease
<1>7. QED
  BY ONLY <1>5, <1>6, Zenon

(* What a step of f leaves alone. *)
Elsewhere(t, f) ==
    /\ UNCHANGED <<readyStrands, wakeList, awaited>>
    /\ \A g \in Fibers \ {f} :
          /\ pc'[g] = pc[g] /\ target'[g] = target[g] /\ homeStrand'[g] = homeStrand[g]
          /\ current'[t] = g <=> current[t] = g
          /\ switched'[t] = g <=> switched[t] = g

(* What is left to show of f when it has given its strand up. *)
GivenUp(t, f) ==
    /\ active' \in [Strands -> Fibers \cup {NoFiber}] /\ waitq' \in [Strands -> Seq(Fibers)]
    /\ state' \in [Fibers -> {"Ready", "Running", "Parked", "Recyclable"}]
    /\ home' \in [Fibers -> Threads] /\ ready' \in [Threads -> Seq(Fibers)]
    /\ \A g \in Fibers \ {f} : FiberInv(t, g)'
    /\ \A u \in Strands : StrandInv(u)'
    /\ Distinct(ready'[t])
    /\ state'[f] = state[f] /\ (In(f, ready'[t]) <=> In(f, ready[t]))
    /\ \A u \in Strands : active'[u] # f /\ ~In(f, waitq'[u])

(* Nobody waits: the strand is free. *)
LEMMA ReleaseToNobody ==
    ASSUME NEW t, t \in Threads, IInv(t), NEW f \in Fibers, NEW s \in Strands, active[s] = f,
           s \notin readyStrands, waitq[s] = <<>>, ReleaseAndPromote(t, s, state), Elsewhere(t, f)
    PROVE  GivenUp(t, f)
<1>1. TypeOK /\ (\A g \in Fibers : FiberInv(t, g)) /\ (\A u \in Strands : StrandInv(u)) /\ ThreadInv(t)
  BY Zenon DEF IInv
<1>2. ActiveAfterRelease(s) = NoFiber
  BY ReleaseFacts, Zenon
<1>3. /\ active' = [active EXCEPT ![s] = NoFiber] /\ waitq' = [waitq EXCEPT ![s] = <<>>]
      /\ state' = state /\ home' = home /\ ready' = ready
  BY ONLY ReleaseAndPromote(t, s, state), <1>2, Zenon DEF ReleaseAndPromote
<1>4. /\ active \in [Strands -> Fibers \cup {NoFiber}] /\ waitq \in [Strands -> Seq(Fibers)]
      /\ state \in [Fibers -> {"Ready", "Running", "Parked", "Recyclable"}]
      /\ home \in [Fibers -> Threads] /\ ready \in [Threads -> Seq(Fibers)]
  BY ONLY <1>1, Zenon DEF TypeOK
<1>5. waitq' = waitq
  BY ONLY <1>3, <1>4, waitq[s] = <<>>, Zenon
<1>6. active'[s] = NoFiber /\ \A u \in Strands \ {s} : active'[u] = active[u]
  BY ONLY <1>3, <1>4, Zenon
<1>7. f # NoFiber /\ \A g \in Fibers : g # NoFiber
  BY StrandAssumption, Zenon DEF StrandAssumption
<1>8. \A g \in Fibers \ {f} : Same(t, g)
  <2>1. SUFFICES ASSUME NEW g \in Fibers \ {f} PROVE Same(t, g)
    OBVIOUS
  <2>2. \A u \in Strands : active'[u] = g <=> active[u] = g
    BY ONLY <1>6, <1>7, active[s] = f, g \in Fibers \ {f}, Zenon
  <2>3. QED
    BY ONLY Elsewhere(t, f), <1>3, <1>5, <2>2, g \in Fibers \ {f}, Zenon DEF Elsewhere, Same
<1>9. \A g \in Fibers \ {f} : FiberInv(t, g)'
  BY ONLY <1>1, <1>8, SameKeeps, Zenon
<1>10. \A u \in Strands : StrandInv(u)'
  <2>1. readyStrands' = readyStrands
    BY ONLY Elsewhere(t, f), Zenon DEF Elsewhere
  <2>2. QED
    BY ONLY <1>1, <1>5, <1>6, <2>1, waitq[s] = <<>>, s \notin readyStrands, Zenon DEF StrandInv
<1>11. StrandOf(f)
  BY ONLY <1>1, Zenon DEF FiberInv
<1>12. \A u \in Strands : active'[u] # f /\ ~In(f, waitq'[u])
  BY ONLY <1>5, <1>6, <1>7, <1>11, active[s] = f, s \in Strands, Zenon DEF StrandOf
<1>13. Distinct(ready'[t])
  BY ONLY <1>1, <1>3, Zenon DEF ThreadInv
<1>14. /\ active' \in [Strands -> Fibers \cup {NoFiber}] /\ waitq' \in [Strands -> Seq(Fibers)]
       /\ state' \in [Fibers -> {"Ready", "Running", "Parked", "Recyclable"}]
       /\ home' \in [Fibers -> Threads] /\ ready' \in [Threads -> Seq(Fibers)]
  BY ONLY <1>3, <1>4, <1>5, Zenon
<1>15. QED
  BY ONLY <1>3, <1>9, <1>10, <1>12, <1>13, <1>14, Zenon DEF GivenUp

(* The first waiter becomes active and is scheduled.  Parked, since t runs *)
(* f or nothing, it waited in no other queue, and no waker knows of it.    *)
LEMMA ReleaseToNext ==
    ASSUME NEW t, t \in Threads, IInv(t), NEW f \in Fibers, NEW s \in Strands, active[s] = f,
           s \notin readyStrands, waitq[s] # <<>>, ReleaseAndPromote(t, s, state), Elsewhere(t, f),
           current[t] \in {f, NoFiber}, switched'[t] = NoFiber
    PROVE  GivenUp(t, f)
<1>1. TypeOK /\ (\A g \in Fibers : FiberInv(t, g)) /\ (\A u \in Strands : StrandInv(u)) /\ ThreadInv(t)
  BY Zenon DEF IInv
<1>2. /\ active \in [Strands -> Fibers \cup {NoFiber}] /\ waitq \in [Strands -> Seq(Fibers)]
      /\ state \in [Fibers -> {"Ready", "Running", "Parked", "Recyclable"}]
      /\ home \in [Fibers -> Threads] /\ ready \in [Threads -> Seq(Fibers)]
  BY ONLY <1>1, Zenon DEF TypeOK
<1>3. f # NoFiber /\ \A g \in Fibers : g # NoFiber
  BY StrandAssumption DEF StrandAssumption
<1>4. PICK n : n = Head(waitq[s])
  OBVIOUS
<1>5. PICK q : q = Tail(waitq[s])
  BY Zenon
<1>6. waitq[s] \in Seq(Fibers) /\ Distinct(waitq[s])
  BY ONLY <1>1, <1>2, s \in Strands, Zenon DEF StrandInv
<1>7. /\ n \in Fibers /\ q \in Seq(Fibers) /\ In(n, waitq[s])
      /\ \A g : In(g, q) => In(g, waitq[s])
      /\ \A g : In(g, waitq[s]) => g = n \/ In(g, q)
      /\ Distinct(q) /\ ~In(n, q)
  BY ONLY <1>4, <1>5, <1>6, waitq[s] # <<>>, TailFacts, Zenon
<1>8. /\ active' = [active EXCEPT ![s] = n] /\ waitq' = [waitq EXCEPT ![s] = q]
      /\ state' = [state EXCEPT ![n] = "Ready"] /\ home' = [home EXCEPT ![n] = t]
      /\ ready' = [ready EXCEPT ![t] = Append(@, n)]
  <2>1. ActiveAfterRelease(s) = n /\ SubSeq(waitq[s], NextWaiter(s) + 1, Len(waitq[s])) = q
    BY <1>4, <1>5, ReleaseFacts, Zenon
  <2>2. n # NoFiber
    BY ONLY <1>3, <1>7, Zenon
  <2>3. QED
    BY ONLY ReleaseAndPromote(t, s, state), <2>1, <2>2, Zenon DEF ReleaseAndPromote
<1>9. PlaceOf(t, n) /\ StrandOf(n) /\ CareOf(t, n) /\ PlaceOf(t, f) /\ StrandOf(f)
  BY ONLY <1>1, <1>7, Zenon DEF FiberInv
<1>10. /\ n # f /\ target[n] = s /\ pc[n] \in {"waiting", "asleep"} /\ state[n] = "Parked"
       /\ n \notin awaited /\ ~In(n, wakeList[t]) /\ ~In(n, ready[t])
       /\ \A u \in Strands : In(n, waitq[u]) => u = s
       /\ homeStrand[n] = IF pc[n] = "waiting" THEN NoStrand ELSE target[n]
  <2>1. n # f /\ target[n] = s /\ \A u \in Strands : In(n, waitq[u]) => u = s
    BY ONLY <1>7, <1>9, active[s] = f, s \in Strands, Zenon DEF StrandOf
  <2>2. current[t] # n
    BY ONLY <1>3, <1>7, <2>1, current[t] \in {f, NoFiber}, Zenon
  <2>3. pc[n] \in {"waiting", "asleep"} /\ state[n] = "Parked"
    BY ONLY <1>7, <1>9, <2>2, s \in Strands, Zenon DEF StrandOf, PlaceOf
  <2>4. ~In(n, ready[t])
    BY ONLY <1>9, <2>3, Zenon DEF PlaceOf
  <2>5. n \notin awaited /\ ~In(n, wakeList[t])
    BY ONLY <1>7, <1>9, <2>1, <2>3, Zenon DEF CareOf
  <2>6. homeStrand[n] = IF pc[n] = "waiting" THEN NoStrand ELSE target[n]
    BY ONLY <1>9, <2>3, Zenon DEF StrandOf, OutsidePcs
  <2>7. QED
    BY ONLY <2>1, <2>3, <2>4, <2>5, <2>6, Zenon
<1>11. ready[t] \in Seq(Fibers) /\ Distinct(ready[t])
  BY ONLY <1>1, <1>2, t \in Threads, Zenon DEF ThreadInv
<1>12. /\ Append(ready[t], n) \in Seq(Fibers) /\ Distinct(Append(ready[t], n))
       /\ \A g : In(g, Append(ready[t], n)) <=> In(g, ready[t]) \/ g = n
  BY ONLY <1>7, <1>10, <1>11, AppendFacts
<1>13. /\ active'[s] = n /\ \A u \in Strands \ {s} : active'[u] = active[u]
       /\ waitq'[s] = q /\ \A u \in Strands \ {s} : waitq'[u] = waitq[u]
       /\ state'[n] = "Ready" /\ \A g \in Fibers \ {n} : state'[g] = state[g]
       /\ ready'[t] = Append(ready[t], n)
  BY ONLY <1>2, <1>7, <1>8, t \in Threads, s \in Strands, Zenon
<1>14. /\ active' \in [Strands -> Fibers \cup {NoFiber}] /\ waitq' \in [Strands -> Seq(Fibers)]
       /\ state' \in [Fibers -> {"Ready", "Running", "Parked", "Recyclable"}]
       /\ home' \in [Fibers -> Threads] /\ ready' \in [Threads -> Seq(Fibers)]
  <2>1. /\ active' \in [Strands -> Fibers \cup {NoFiber}] /\ waitq' \in [Strands -> Seq(Fibers)]
        /\ home' \in [Fibers -> Threads]
    BY ONLY <1>2, <1>7, <1>8, t \in Threads, Zenon
  <2>2. state' \in [Fibers -> {"Ready", "Running", "Parked", "Recyclable"}]
    BY ONLY <1>2, <1>8, Zenon
  <2>3. ready' \in [Threads -> Seq(Fibers)]
    <3>1. PICK r : r = Append(ready[t], n)
      BY Zenon
    <3>2. r \in Seq(Fibers) /\ ready' = [ready EXCEPT ![t] = r]
      BY ONLY <1>8, <1>12, <3>1, Zenon
    <3>3. QED
      BY ONLY <1>2, <3>2, Zenon
  <2>4. QED
    BY ONLY <2>1, <2>2, <2>3, Zenon
<1>15. \A u \in Strands : In(n, waitq'[u]) => FALSE
  BY ONLY <1>7, <1>10, <1>13, Zenon
<1>16. \A g \in Fibers \ {f, n} : Same(t, g)
  <2>1. SUFFICES ASSUME NEW g \in Fibers \ {f, n} PROVE Same(t, g)
    OBVIOUS
  <2>2. /\ pc'[g] = pc[g] /\ state'[g] = state[g] /\ target'[g] = target[g]
        /\ homeStrand'[g] = homeStrand[g]
        /\ current'[t] = g <=> current[t] = g
        /\ switched'[t] = g <=> switched[t] = g
        /\ In(g, ready'[t]) <=> In(g, ready[t])
        /\ wakeList' = wakeList /\ awaited' = awaited /\ readyStrands' = readyStrands
    BY ONLY Elsewhere(t, f), <1>12, <1>13, g \in Fibers \ {f, n} DEF Elsewhere
  <2>3. \A u \in Strands : /\ active'[u] = g <=> active[u] = g
                           /\ In(g, waitq'[u]) <=> In(g, waitq[u])
    BY ONLY <1>7, <1>13, active[s] = f, g \in Fibers \ {f, n}, Zenon
  <2>4. QED
    BY ONLY <2>2, <2>3, Zenon DEF Same
<1>17. \A g \in Fibers \ {f, n} : FiberInv(t, g)'
  BY ONLY <1>1, <1>16, SameKeeps, Zenon
<1>18. FiberInv(t, n)'
  <2>1. /\ pc'[n] = pc[n] /\ target'[n] = target[n] /\ homeStrand'[n] = homeStrand[n]
        /\ wakeList' = wakeList /\ awaited' = awaited /\ readyStrands' = readyStrands
        /\ current'[t] = n <=> current[t] = n
    BY ONLY Elsewhere(t, f), <1>7, <1>10, Zenon DEF Elsewhere
  <2>2. current'[t] # n /\ switched'[t] # n
    BY ONLY <1>3, <1>7, <1>10, <2>1, current[t] \in {f, NoFiber}, switched'[t] = NoFiber, Zenon
  <2>3. In(n, ready'[t]) /\ state'[n] = "Ready" /\ active'[s] = n /\ target'[n] = s
    BY ONLY <1>10, <1>12, <1>13, <2>1, Zenon
  <2>4. PlaceOf(t, n)'
    BY ONLY <1>10, <2>1, <2>2, <2>3, Zenon DEF PlaceOf
  <2>5. \A u \in Strands : active'[u] = n => u = s
    <3>1. \A u \in Strands : active[u] = n => u = s
      BY ONLY <1>9, <1>10, Zenon DEF StrandOf
    <3>2. QED
      BY ONLY <1>13, <3>1, Zenon
  <2>6. StrandOf(n)'
    BY ONLY <1>10, <1>15, <2>1, <2>3, <2>5, Zenon DEF StrandOf, OutsidePcs
  <2>7. CareOf(t, n)'
    BY ONLY <1>10, <2>1, <2>2, <2>3, s \notin readyStrands, Zenon DEF CareOf
  <2>8. QED
    BY ONLY <2>4, <2>6, <2>7, Zenon DEF FiberInv
<1>19. \A u \in Strands : StrandInv(u)'
  <2>1. readyStrands' = readyStrands
    BY ONLY Elsewhere(t, f), Zenon DEF Elsewhere
  <2>2. n # NoFiber
    BY ONLY <1>3, <1>7, Zenon
  <2>3. QED
    BY ONLY <1>1, <1>7, <1>13, <2>1, <2>2, Zenon DEF StrandInv
<1>20. state'[f] = state[f] /\ (In(f, ready'[t]) <=> In(f, ready[t]))
  BY ONLY <1>10, <1>12, <1>13, f \in Fibers, Zenon
<1>21. \A u \in Strands : active'[u] # f /\ ~In(f, waitq'[u])
  <2>1. \A u \in Strands : (active[u] = f => u = s) /\ ~In(f, waitq[u])
    BY ONLY <1>9, active[s] = f, s \in Strands, Zenon DEF StrandOf
  <2>2. \A u \in Strands : active'[u] # f
    BY ONLY <1>10, <1>13, <2>1, Zenon
  <2>3. \A u \in Strands : ~In(f, waitq'[u])
    BY ONLY <1>7, <1>13, <2>1, s \in Strands, Zenon
  <2>4. QED
    BY ONLY <2>2, <2>3, Zenon
<1>22. \A g \in Fibers \ {f} : FiberInv(t, g)'
  BY ONLY <1>17, <1>18, Zenon
<1>23. QED
  BY ONLY <1>12, <1>13, <1>14, <1>19, <1>20, <1>21, <1>22, Zenon DEF GivenUp

LEMMA ReleaseStep ==
    ASSUME NEW t, t \in Threads, IInv(t), NEW f \in Fibers, NEW s \in Strands, active[s] = f,
           s \notin readyStrands, ReleaseAndPromote(t, s, state), Elsewhere(t, f),
           current[t] \in {f, NoFiber}, switched'[t] = NoFiber
    PROVE  GivenUp(t, f)
  BY ReleaseToNobody, ReleaseToNext, Zenon

-----------------------------------------------------------------------------
(* A free strand takes a fiber. *)
LEMMA BecomeActiveFacts ==
    ASSUME NEW t, IInv(t), NEW f \in Fibers, NEW s \in Strands, BecomeActive(s, f),
           readyStrands' \subseteq readyStrands \cup {s}
    PROVE  /\ active' \in [Strands -> Fibers \cup {NoFiber}] /\ waitq' = waitq
           /\ waitq[s] = <<>> /\ s \notin readyStrands /\ active'[s] = f
           /\ \A u \in Strands \ {s} : active'[u] = active[u]
           /\ \A g \in Fibers \ {f} : \A u \in Strands : active'[u] = g <=> active[u] = g
           /\ \A u \in Strands : StrandInv(u)'
<1>1. active \in [Strands -> Fibers \cup {NoFiber}] /\ \A u \in Strands : StrandInv(u)
  BY Zenon DEF IInv, TypeOK
<1>2. active[s] = NoFiber /\ active' = [active EXCEPT ![s] = f] /\ waitq' = waitq
  BY Zenon DEF BecomeActive
<1>3. \A g \in Fibers : g # NoFiber
  BY StrandAssumption, Zenon DEF StrandAssumption
<1>4. active'[s] = f /\ \A u \in Strands \ {s} : active'[u] = active[u]
  BY ONLY <1>1, <1>2, s \in Strands, Zenon
<1>5. active' \in [Strands -> Fibers \cup {NoFiber}]
  BY ONLY <1>1, <1>2, f \in Fibers, Zenon
<1>6. waitq[s] = <<>> /\ s \notin readyStrands
  BY ONLY <1>1, <1>2, s \in Strands, Zenon DEF StrandInv
<1>7. \A g \in Fibers \ {f} : \A u \in Strands : active'[u] = g <=> active[u] = g
  BY ONLY <1>2, <1>3, <1>4, Zenon
<1>8. \A u \in Strands : StrandInv(u)'
  <2>1. SUFFICES ASSUME NEW u \in Strands PROVE StrandInv(u)'
    OBVIOUS
  <2>2. f # NoFiber
    BY ONLY <1>3, f \in Fibers, Zenon
  <2>3. active'[u] = NoFiber => u # s /\ active[u] = NoFiber
    BY ONLY <1>4, <2>2, u \in Strands, Zenon
  <2>4. u # s /\ u \notin readyStrands => u \notin readyStrands'
    BY ONLY readyStrands' \subseteq readyStrands \cup {s}, Zenon
  <2>5. QED
    BY ONLY <1>1, <1>2, <2>3, <2>4, u \in Strands, Zenon DEF StrandInv
<1>9. QED
  BY ONLY <1>2, <1>4, <1>5, <1>6, <1>7, <1>8, Zenon

(* A fiber queues for a strand. *)
LEMMA JoinQueueFacts ==
    ASSUME NEW t, IInv(t), NEW f \in Fibers, NEW s \in Strands, JoinQueue(s, f),
           ~In(f, waitq[s]), readyStrands' = readyStrands
    PROVE  /\ active' = active /\ active[s] # NoFiber /\ waitq' \in [Strands -> Seq(Fibers)]
           /\ In(f, waitq'[s])
           /\ \A u \in Strands \ {s} : waitq'[u] = waitq[u]
           /\ \A g \in Fibers \ {f} : \A u \in Strands : In(g, waitq'[u]) <=> In(g, waitq[u])
           /\ \A u \in Strands : StrandInv(u)'
<1>1. waitq \in [Strands -> Seq(Fibers)] /\ \A u \in Strands : StrandInv(u)
  BY Zenon DEF IInv, TypeOK
<1>2. waitq[s] \in Seq(Fibers) /\ Distinct(waitq[s])
  BY ONLY <1>1, s \in Strands, Zenon DEF StrandInv
<1>3. PICK r : r = Append(waitq[s], f)
  BY Zenon
<1>4. r \in Seq(Fibers) /\ Distinct(r) /\ \A g : In(g, r) <=> In(g, waitq[s]) \/ g = f
  BY ONLY <1>2, <1>3, ~In(f, waitq[s]), f \in Fibers, AppendFacts, Zenon
<1>5. active' = active /\ active[s] # NoFiber /\ waitq' = [waitq EXCEPT ![s] = r]
  BY <1>3, Zenon DEF JoinQueue, AppendWaiter
<1>6. /\ waitq' \in [Strands -> Seq(Fibers)] /\ waitq'[s] = r
      /\ \A u \in Strands \ {s} : waitq'[u] = waitq[u]
  BY ONLY <1>1, <1>4, <1>5, s \in Strands, Zenon
<1>7. \A g \in Fibers \ {f} : \A u \in Strands : In(g, waitq'[u]) <=> In(g, waitq[u])
  BY ONLY <1>4, <1>6, Zenon
<1>8. \A u \in Strands : StrandInv(u)'
  BY ONLY <1>1, <1>4, <1>5, <1>6, readyStrands' = readyStrands, Zenon DEF StrandInv
<1>9. QED
  BY ONLY <1>4, <1>5, <1>6, <1>7, <1>8, Zenon

(* A fiber is scheduled. *)
LEMMA ScheduleFacts ==
    ASSUME NEW t \in Threads, IInv(t), NEW f \in Fibers, ~In(f, ready[t]),
           ready' = [ready EXCEPT ![t] = Append(@, f)]
    PROVE  /\ ready' \in [Threads -> Seq(Fibers)] /\ Distinct(ready'[t])
           /\ \A g : In(g, ready'[t]) <=> In(g, ready[t]) \/ g = f
<1>1. ready \in [Threads -> Seq(Fibers)] /\ Distinct(ready[t])
  BY Zenon DEF IInv, TypeOK, ThreadInv
<1>2. PICK r : r = Append(ready[t], f)
  BY Zenon
<1>3. r \in Seq(Fibers) /\ Distinct(r) /\ \A g : In(g, r) <=> In(g, ready[t]) \/ g = f
  <2>1. ready[t] \in Seq(Fibers)
    BY ONLY <1>1, t \in Threads, Zenon
  <2>2. QED
    BY ONLY <1>1, <1>2, <2>1, ~In(f, ready[t]), f \in Fibers, AppendFacts, Zenon
<1>4. ready' = [ready EXCEPT ![t] = r]
  BY <1>2, Zenon
<1>5. ready' \in [Threads -> Seq(Fibers)] /\ ready'[t] = r
  BY ONLY <1>1, <1>3, <1>4, t \in Threads, Zenon
<1>6. QED
  BY ONLY <1>3, <1>5, Zenon

(* What the invariant says of the fiber that t executes. *)
LEMMA RunningFacts ==
    ASSUME NEW t, IInv(t), NEW f \in Fibers, current[t] = f
    PROVE  /\ state[f] = "Running" /\ ~In(f, ready[t]) /\ switched[t] = NoFiber
           /\ target[f] \in Strands /\ f # NoFiber /\ NoStrand # target[f]
           /\ homeStrand[f] = IF pc[f] \in OutsidePcs THEN NoStrand ELSE target[f]
           /\ pc[f] # "parking" => f \notin awaited /\ ~In(f, wakeList[t])
           /\ ~(f \in awaited /\ In(f, wakeList[t]))
           /\ pc[f] \in {"enter", "reenter"} =>
                 \A u \in Strands : active[u] # f /\ ~In(f, waitq[u])
           /\ pc[f] = "queued" =>
                 /\ In(f, waitq[target[f]])
                 /\ \A u \in Strands : active[u] # f /\ (In(f, waitq[u]) => u = target[f])
           /\ pc[f] \notin {"enter", "reenter", "queued"} =>
                 /\ active[target[f]] = f /\ target[f] \notin readyStrands
                 /\ \A u \in Strands : (active[u] = f => u = target[f]) /\ ~In(f, waitq[u])
<1>1. PlaceOf(t, f) /\ StrandOf(f) /\ CareOf(t, f) /\ ThreadInv(t)
  BY Zenon DEF IInv, FiberInv
<1>2. target[f] \in Strands /\ pc[f] \in Pcs /\ NoStrand # target[f] /\ f # NoFiber
  <2>1. target[f] \in Strands /\ pc[f] \in Pcs
    BY Zenon DEF IInv, TypeOK
  <2>2. NoFiber \notin Fibers /\ NoStrand \notin Strands
    BY StrandAssumption, Zenon DEF StrandAssumption
  <2>3. QED
    BY ONLY <2>1, <2>2, f \in Fibers, Zenon
<1>3. switched[t] = NoFiber
  BY ONLY <1>1, <1>2, current[t] = f, Zenon DEF ThreadInv
<1>4. state[f] = "Running" /\ ~In(f, ready[t]) /\ pc[f] # "done"
  BY ONLY <1>1, current[t] = f, Zenon DEF PlaceOf
<1>5. homeStrand[f] = IF pc[f] \in OutsidePcs THEN NoStrand ELSE target[f]
  BY ONLY <1>1, Zenon DEF StrandOf
<1>6. /\ pc[f] # "parking" => f \notin awaited /\ ~In(f, wakeList[t])
      /\ ~(f \in awaited /\ In(f, wakeList[t]))
  BY ONLY <1>1, <1>4, Zenon DEF CareOf
<1>7. pc[f] \in {"enter", "reenter"} => \A u \in Strands : active[u] # f /\ ~In(f, waitq[u])
  BY ONLY <1>1, Zenon DEF StrandOf
<1>8. pc[f] = "queued" =>
         /\ In(f, waitq[target[f]])
         /\ \A u \in Strands : active[u] # f /\ (In(f, waitq[u]) => u = target[f])
  BY ONLY <1>1, Zenon DEF StrandOf
<1>9. ASSUME pc[f] \notin {"enter", "reenter", "queued"}
      PROVE  /\ active[target[f]] = f /\ target[f] \notin readyStrands
             /\ \A u \in Strands : (active[u] = f => u = target[f]) /\ ~In(f, waitq[u])
  <2>1. pc[f] \in {"waiting", "body", "yielded", "parking", "asleep"}
    BY ONLY <1>2, <1>4, <1>9, Zenon DEF Pcs
  <2>2. active[target[f]] = f
    BY ONLY <1>1, <1>4, <2>1, Zenon DEF StrandOf
  <2>3. target[f] \notin readyStrands
    BY ONLY <1>1, <1>4, <2>2, Zenon DEF CareOf
  <2>4. \A u \in Strands : (active[u] = f => u = target[f]) /\ ~In(f, waitq[u])
    BY ONLY <1>1, <2>2, Zenon DEF StrandOf
  <2>5. QED
    BY ONLY <2>2, <2>3, <2>4, Zenon
<1>10. QED
  BY ONLY <1>2, <1>3, <1>4, <1>5, <1>6, <1>7, <1>8, <1>9, Zenon

-----------------------------------------------------------------------------
(* The own fields of a fiber do not change. *)
Untouched(t, g) ==
    /\ pc'[g] = pc[g] /\ state'[g] = state[g] /\ target'[g] = target[g]
    /\ homeStrand'[g] = homeStrand[g]
    /\ current'[t] = g <=> current[t] = g
    /\ switched'[t] = g <=> switched[t] = g
    /\ g \in awaited' <=> g \in awaited

(* A step of f that touches neither the strands nor the queues of t. *)
LEMMA PrivateStep ==
    ASSUME NEW t, IInv(t), NEW f \in Fibers, TypeOK',
           UNCHANGED <<active, waitq, readyStrands, ready, wakeList>>,
           \A g \in Fibers \ {f} : Untouched(t, g),
           FiberInv(t, f)', current'[t] = NoFiber \/ switched'[t] = NoFiber
    PROVE  IInv(t)'
<1>1. (\A s \in Strands : StrandInv(s)) /\ ThreadInv(t)
  BY Zenon DEF IInv
<1>2. \A g \in Fibers \ {f} : Same(t, g)
  BY Zenon DEF Untouched, Same
<1>3. \A s \in Strands : StrandInv(s)'
  BY ONLY <1>1, UNCHANGED <<active, waitq, readyStrands, ready, wakeList>>, Zenon DEF StrandInv
<1>4. ThreadInv(t)'
  BY ONLY <1>1, UNCHANGED <<active, waitq, readyStrands, ready, wakeList>>,
     current'[t] = NoFiber \/ switched'[t] = NoFiber, Zenon DEF ThreadInv
<1>5. QED
  BY <1>2, <1>3, <1>4, OwnStep, Zenon

(* enter(): the fiber is in, or waits. *)
LEMMA EnterInductive ==
    ASSUME NEW t \in Threads, IInv(t), NEW f \in Fibers, Enter(t, f)
    PROVE  IInv(t)'
<1>1. TypeOK /\ ThreadInv(t) /\ FiberInv(t, f)
  BY Zenon DEF IInv
<1>2. current[t] = f /\ pc[f] = "enter"
  BY Zenon DEF Enter, At
<1>3. PICK s : s = target[f]
  BY Zenon
<1>4. /\ state[f] = "Running" /\ ~In(f, ready[t]) /\ switched[t] = NoFiber
      /\ s \in Strands /\ f # NoFiber /\ NoStrand # s /\ homeStrand[f] = NoStrand
      /\ f \notin awaited /\ ~In(f, wakeList[t])
      /\ \A u \in Strands : active[u] # f /\ ~In(f, waitq[u])
  BY <1>2, <1>3, RunningFacts DEF OutsidePcs
<1>5. /\ readyStrands' = readyStrands /\ state' = state /\ home' = home /\ target' = target
      /\ current' = current /\ switched' = switched /\ ready' = ready /\ wakeList' = wakeList
      /\ awaited' = awaited
  BY Zenon DEF Enter, threadVars
<1>6. ThreadInv(t)'
  BY ONLY <1>1, <1>5, Zenon DEF ThreadInv
<1>7. CASE BecomeActive(s, f) /\ homeStrand' = [homeStrand EXCEPT ![f] = s] /\ Goto(f, "body")
  <2>1. readyStrands' \subseteq readyStrands \cup {s}
    BY ONLY <1>5, Zenon
  <2>2. /\ active' \in [Strands -> Fibers \cup {NoFiber}] /\ waitq' = waitq
        /\ s \notin readyStrands /\ active'[s] = f
        /\ \A u \in Strands \ {s} : active'[u] = active[u]
        /\ \A g \in Fibers \ {f} : \A u \in Strands : active'[u] = g <=> active[u] = g
        /\ \A u \in Strands : StrandInv(u)'
    BY <1>4, <1>7, <2>1, BecomeActiveFacts, Zenon
  <2>3. /\ pc'[f] = "body" /\ homeStrand'[f] = s
        /\ \A g \in Fibers \ {f} : pc'[g] = pc[g] /\ homeStrand'[g] = homeStrand[g]
        /\ pc' \in [Fibers -> Pcs] /\ homeStrand' \in [Fibers -> Strands \cup {NoStrand}]
    BY ONLY <1>1, <1>4, <1>7, f \in Fibers, Zenon DEF TypeOK, Pcs, Goto
  <2>4. TypeOK'
    BY ONLY <1>1, <1>5, <2>2, <2>3, Zenon DEF TypeOK
  <2>5. \A g \in Fibers \ {f} : Same(t, g)
    BY ONLY <1>5, <2>2, <2>3 DEF Same
  <2>6. FiberInv(t, f)'
    <3>1. PlaceOf(t, f)'
      BY ONLY <1>2, <1>4, <1>5, <2>3, Zenon DEF PlaceOf
    <3>2. StrandOf(f)'
      BY ONLY <1>3, <1>4, <1>5, <2>2, <2>3 DEF StrandOf, OutsidePcs
    <3>3. CareOf(t, f)'
      BY ONLY <1>3, <1>4, <1>5, <2>2, <2>3, Zenon DEF CareOf
    <3>4. QED
      BY ONLY <3>1, <3>2, <3>3, Zenon DEF FiberInv
  <2>7. QED
    BY <1>6, <2>2, <2>4, <2>5, <2>6, OwnStep, Zenon
<1>8. CASE JoinQueue(s, f) /\ Goto(f, "queued") /\ homeStrand' = homeStrand
  <2>1. /\ active' = active /\ waitq' \in [Strands -> Seq(Fibers)] /\ In(f, waitq'[s])
        /\ \A u \in Strands \ {s} : waitq'[u] = waitq[u]
        /\ \A g \in Fibers \ {f} : \A u \in Strands : In(g, waitq'[u]) <=> In(g, waitq[u])
        /\ \A u \in Strands : StrandInv(u)'
    BY <1>4, <1>5, <1>8, JoinQueueFacts, Zenon
  <2>2. /\ pc'[f] = "queued" /\ \A g \in Fibers \ {f} : pc'[g] = pc[g]
        /\ pc' \in [Fibers -> Pcs]
    BY ONLY <1>1, <1>8, f \in Fibers, Zenon DEF TypeOK, Pcs, Goto
  <2>3. TypeOK'
    BY ONLY <1>1, <1>5, <1>8, <2>1, <2>2, Zenon DEF TypeOK
  <2>4. \A g \in Fibers \ {f} : Same(t, g)
    BY ONLY <1>5, <1>8, <2>1, <2>2, Zenon DEF Same
  <2>5. FiberInv(t, f)'
    <3>1. PlaceOf(t, f)'
      BY ONLY <1>2, <1>4, <1>5, <2>2, Zenon DEF PlaceOf
    <3>2. StrandOf(f)'
      BY ONLY <1>3, <1>4, <1>5, <1>8, <2>1, <2>2, Zenon DEF StrandOf, OutsidePcs
    <3>3. CareOf(t, f)'
      BY ONLY <1>3, <1>4, <1>5, <2>1, <2>2, Zenon DEF CareOf
    <3>4. QED
      BY ONLY <3>1, <3>2, <3>3, Zenon DEF FiberInv
  <2>6. QED
    BY <1>6, <2>1, <2>3, <2>4, <2>5, OwnStep, Zenon
<1>9. QED
  BY <1>3, <1>7, <1>8, Zenon DEF Enter

(* The fiber suspends for the strand, still queued. *)
LEMMA EnterParkInductive ==
    ASSUME NEW t \in Threads, IInv(t), NEW f \in Fibers, EnterPark(t, f)
    PROVE  IInv(t)'
<1>1. TypeOK
  BY Zenon DEF IInv
<1>2. current[t] = f /\ pc[f] = "queued"
  BY Zenon DEF EnterPark, At
<1>3. /\ ~In(f, ready[t]) /\ target[f] \in Strands /\ f # NoFiber
      /\ homeStrand[f] = NoStrand /\ f \notin awaited /\ ~In(f, wakeList[t])
      /\ In(f, waitq[target[f]])
      /\ \A u \in Strands : active[u] # f /\ (In(f, waitq[u]) => u = target[f])
  BY <1>2, RunningFacts DEF OutsidePcs
<1>4. /\ UNCHANGED <<active, waitq, readyStrands, ready, wakeList>>
      /\ home' = home /\ homeStrand' = homeStrand /\ target' = target /\ awaited' = awaited
      /\ state' = [state EXCEPT ![f] = "Parked"] /\ pc' = [pc EXCEPT ![f] = "waiting"]
      /\ current' = [current EXCEPT ![t] = NoFiber] /\ switched' = [switched EXCEPT ![t] = f]
  BY Zenon DEF EnterPark, SwitchOut, Goto, strandVars
<1>5. /\ state'[f] = "Parked" /\ pc'[f] = "waiting" /\ current'[t] = NoFiber /\ switched'[t] = f
      /\ \A g \in Fibers \ {f} : state'[g] = state[g] /\ pc'[g] = pc[g]
  BY ONLY <1>1, <1>4, f \in Fibers, t \in Threads, Zenon DEF TypeOK
<1>6. TypeOK'
  BY ONLY <1>1, <1>4, f \in Fibers, Zenon DEF TypeOK, Pcs
<1>7. switched[t] = NoFiber /\ \A g \in Fibers : g # NoFiber
  BY <1>2, RunningFacts, StrandAssumption DEF StrandAssumption
<1>8. \A g \in Fibers \ {f} : Untouched(t, g)
  BY ONLY <1>2, <1>4, <1>5, <1>7 DEF Untouched
<1>9. FiberInv(t, f)'
  <2>1. PlaceOf(t, f)'
    BY ONLY <1>3, <1>4, <1>5, Zenon DEF PlaceOf
  <2>2. StrandOf(f)'
    BY ONLY <1>3, <1>4, <1>5, Zenon DEF StrandOf, OutsidePcs
  <2>3. CareOf(t, f)'
    BY ONLY <1>3, <1>4, <1>5, Zenon DEF CareOf
  <2>4. QED
    BY ONLY <2>1, <2>2, <2>3, Zenon DEF FiberInv
<1>10. QED
  BY <1>4, <1>5, <1>6, <1>8, <1>9, PrivateStep, Zenon

(* Admitted: homeStrand says so again. *)
LEMMA ReturnInductive ==
    ASSUME NEW t \in Threads, IInv(t), NEW f \in Fibers, Return(t, f)
    PROVE  IInv(t)'
<1>1. TypeOK
  BY Zenon DEF IInv
<1>2. current[t] = f /\ pc[f] \in {"waiting", "yielded", "asleep"}
  BY Zenon DEF Return
<1>3. /\ state[f] = "Running" /\ ~In(f, ready[t]) /\ switched[t] = NoFiber
      /\ target[f] \in Strands /\ f # NoFiber
      /\ f \notin awaited /\ ~In(f, wakeList[t])
      /\ active[target[f]] = f /\ target[f] \notin readyStrands
      /\ \A u \in Strands : (active[u] = f => u = target[f]) /\ ~In(f, waitq[u])
  BY <1>2, RunningFacts
<1>4. /\ UNCHANGED <<active, waitq, readyStrands, ready, wakeList>>
      /\ state' = state /\ home' = home /\ target' = target /\ awaited' = awaited
      /\ current' = current /\ switched' = switched
      /\ homeStrand' = [homeStrand EXCEPT ![f] = target[f]] /\ pc' = [pc EXCEPT ![f] = "body"]
  BY Zenon DEF Return, Goto, strandVars, threadVars
<1>5. /\ homeStrand'[f] = target[f] /\ pc'[f] = "body"
      /\ \A g \in Fibers \ {f} : homeStrand'[g] = homeStrand[g] /\ pc'[g] = pc[g]
  BY ONLY <1>1, <1>4, f \in Fibers, Zenon DEF TypeOK
<1>6. TypeOK'
  BY ONLY <1>1, <1>3, <1>4, Zenon DEF TypeOK, Pcs
<1>7. \A g \in Fibers \ {f} : Untouched(t, g)
  BY ONLY <1>4, <1>5, Zenon DEF Untouched
<1>8. FiberInv(t, f)'
  <2>1. PlaceOf(t, f)'
    BY ONLY <1>2, <1>3, <1>4, <1>5, Zenon DEF PlaceOf
  <2>2. StrandOf(f)'
    BY ONLY <1>3, <1>4, <1>5, Zenon DEF StrandOf, OutsidePcs
  <2>3. CareOf(t, f)'
    BY ONLY <1>3, <1>4, <1>5, Zenon DEF CareOf
  <2>4. QED
    BY ONLY <2>1, <2>2, <2>3, Zenon DEF FiberInv
<1>9. QED
  BY <1>3, <1>4, <1>6, <1>7, <1>8, PrivateStep, Zenon

(* A waker knows of the fiber before it parks. *)
LEMMA RegisterInductive ==
    ASSUME NEW t \in Threads, IInv(t), NEW f \in Fibers, Register(t, f)
    PROVE  IInv(t)'
<1>1. TypeOK
  BY Zenon DEF IInv
<1>2. current[t] = f /\ pc[f] = "body"
  BY Zenon DEF Register, At
<1>3. /\ state[f] = "Running" /\ ~In(f, ready[t]) /\ switched[t] = NoFiber
      /\ target[f] \in Strands /\ f # NoFiber /\ homeStrand[f] = target[f]
      /\ ~In(f, wakeList[t])
      /\ active[target[f]] = f /\ target[f] \notin readyStrands
      /\ \A u \in Strands : (active[u] = f => u = target[f]) /\ ~In(f, waitq[u])
  BY <1>2, RunningFacts DEF OutsidePcs
<1>4. /\ UNCHANGED <<active, waitq, readyStrands, ready, wakeList>>
      /\ state' = state /\ home' = home /\ target' = target /\ homeStrand' = homeStrand
      /\ current' = current /\ switched' = switched
      /\ awaited' = awaited \cup {f} /\ pc' = [pc EXCEPT ![f] = "parking"]
  BY Zenon DEF Register, Goto, strandVars, threadVars
<1>5. pc'[f] = "parking" /\ \A g \in Fibers \ {f} : pc'[g] = pc[g]
  BY ONLY <1>1, <1>4, f \in Fibers, Zenon DEF TypeOK
<1>6. TypeOK'
  BY ONLY <1>1, <1>4, f \in Fibers, Zenon DEF TypeOK, Pcs
<1>7. \A g \in Fibers \ {f} : Untouched(t, g)
  BY ONLY <1>4, <1>5, Zenon DEF Untouched
<1>8. FiberInv(t, f)'
  <2>1. PlaceOf(t, f)'
    BY ONLY <1>2, <1>3, <1>4, <1>5, Zenon DEF PlaceOf
  <2>2. StrandOf(f)'
    BY ONLY <1>3, <1>4, <1>5, Zenon DEF StrandOf, OutsidePcs
  <2>3. CareOf(t, f)'
    BY ONLY <1>3, <1>4, <1>5, Zenon DEF CareOf
  <2>4. QED
    BY ONLY <2>1, <2>2, <2>3, Zenon DEF FiberInv
<1>9. QED
  BY <1>3, <1>4, <1>6, <1>7, <1>8, PrivateStep, Zenon

(* The fiber parks; its strand is given up by the loop. *)
LEMMA ParkInductive ==
    ASSUME NEW t \in Threads, IInv(t), NEW f \in Fibers, Park(t, f)
    PROVE  IInv(t)'
<1>1. TypeOK
  BY Zenon DEF IInv
<1>2. current[t] = f /\ pc[f] = "parking"
  BY Zenon DEF Park, At
<1>3. /\ ~In(f, ready[t]) /\ target[f] \in Strands /\ f # NoFiber /\ homeStrand[f] = target[f]
      /\ ~(f \in awaited /\ In(f, wakeList[t]))
      /\ active[target[f]] = f /\ target[f] \notin readyStrands
      /\ \A u \in Strands : (active[u] = f => u = target[f]) /\ ~In(f, waitq[u])
  BY <1>2, RunningFacts DEF OutsidePcs
<1>4. /\ UNCHANGED <<active, waitq, readyStrands, ready, wakeList>>
      /\ home' = home /\ homeStrand' = homeStrand /\ target' = target /\ awaited' = awaited
      /\ state' = [state EXCEPT ![f] = "Parked"] /\ pc' = [pc EXCEPT ![f] = "asleep"]
      /\ current' = [current EXCEPT ![t] = NoFiber] /\ switched' = [switched EXCEPT ![t] = f]
  BY Zenon DEF Park, SwitchOut, Goto, strandVars
<1>5. /\ state'[f] = "Parked" /\ pc'[f] = "asleep" /\ current'[t] = NoFiber /\ switched'[t] = f
      /\ \A g \in Fibers \ {f} : state'[g] = state[g] /\ pc'[g] = pc[g]
  BY ONLY <1>1, <1>4, f \in Fibers, t \in Threads, Zenon DEF TypeOK
<1>6. TypeOK'
  BY ONLY <1>1, <1>4, f \in Fibers, Zenon DEF TypeOK, Pcs
<1>7. switched[t] = NoFiber /\ \A g \in Fibers : g # NoFiber
  BY <1>2, RunningFacts, StrandAssumption DEF StrandAssumption
<1>8. \A g \in Fibers \ {f} : Untouched(t, g)
  BY ONLY <1>2, <1>4, <1>5, <1>7 DEF Untouched
<1>9. FiberInv(t, f)'
  <2>1. PlaceOf(t, f)'
    BY ONLY <1>3, <1>4, <1>5, Zenon DEF PlaceOf
  <2>2. StrandOf(f)'
    BY ONLY <1>3, <1>4, <1>5, Zenon DEF StrandOf, OutsidePcs
  <2>3. CareOf(t, f)'
    BY ONLY <1>3, <1>4, <1>5, Zenon DEF CareOf
  <2>4. QED
    BY ONLY <2>1, <2>2, <2>3, Zenon DEF FiberInv
<1>10. QED
  BY <1>4, <1>5, <1>6, <1>8, <1>9, PrivateStep, Zenon

(* The callable is done; its strand is given up by the loop. *)
LEMMA FinishInductive ==
    ASSUME NEW t \in Threads, IInv(t), NEW f \in Fibers, Finish(t, f)
    PROVE  IInv(t)'
<1>1. TypeOK
  BY Zenon DEF IInv
<1>2. current[t] = f /\ pc[f] = "body"
  BY Zenon DEF Finish, At
<1>3. /\ ~In(f, ready[t]) /\ target[f] \in Strands /\ f # NoFiber /\ homeStrand[f] = target[f]
      /\ f \notin awaited /\ ~In(f, wakeList[t])
      /\ active[target[f]] = f /\ target[f] \notin readyStrands
      /\ \A u \in Strands : (active[u] = f => u = target[f]) /\ ~In(f, waitq[u])
  BY <1>2, RunningFacts DEF OutsidePcs
<1>4. /\ UNCHANGED <<active, waitq, readyStrands, ready, wakeList>>
      /\ home' = home /\ homeStrand' = homeStrand /\ target' = target /\ awaited' = awaited
      /\ state' = [state EXCEPT ![f] = "Recyclable"] /\ pc' = [pc EXCEPT ![f] = "done"]
      /\ current' = [current EXCEPT ![t] = NoFiber] /\ switched' = [switched EXCEPT ![t] = f]
  BY Zenon DEF Finish, SwitchOut, Goto, strandVars
<1>5. /\ state'[f] = "Recyclable" /\ pc'[f] = "done" /\ current'[t] = NoFiber /\ switched'[t] = f
      /\ \A g \in Fibers \ {f} : state'[g] = state[g] /\ pc'[g] = pc[g]
  BY ONLY <1>1, <1>4, f \in Fibers, t \in Threads, Zenon DEF TypeOK
<1>6. TypeOK'
  BY ONLY <1>1, <1>4, f \in Fibers, Zenon DEF TypeOK, Pcs
<1>7. switched[t] = NoFiber /\ \A g \in Fibers : g # NoFiber
  BY <1>2, RunningFacts, StrandAssumption DEF StrandAssumption
<1>8. \A g \in Fibers \ {f} : Untouched(t, g)
  BY ONLY <1>2, <1>4, <1>5, <1>7 DEF Untouched
<1>9. FiberInv(t, f)'
  <2>1. PlaceOf(t, f)'
    BY ONLY <1>3, <1>4, <1>5, Zenon DEF PlaceOf
  <2>2. StrandOf(f)'
    BY ONLY <1>3, <1>4, <1>5, Zenon DEF StrandOf, OutsidePcs
  <2>3. CareOf(t, f)'
    BY ONLY <1>3, <1>4, <1>5, Zenon DEF CareOf
  <2>4. QED
    BY ONLY <2>1, <2>2, <2>3, Zenon DEF FiberInv
<1>10. QED
  BY <1>4, <1>5, <1>6, <1>8, <1>9, PrivateStep, Zenon

(* A fiber that has given its strand up runs on, outside. *)
LEMMA RunsOutside ==
    ASSUME NEW t \in Threads, IInv(t), NEW f \in Fibers, At(t, f, "body"),
           homeStrand' = [homeStrand EXCEPT ![f] = NoStrand],
           ReleaseAndPromote(t, target[f], state),
           NEW label \in {"enter", "reenter"}, Goto(f, label),
           target' \in [Fibers -> Strands], \A g \in Fibers \ {f} : target'[g] = target[g],
           UNCHANGED <<readyStrands, current, switched, wakeList, awaited>>
    PROVE  IInv(t)'
<1>1. TypeOK /\ ThreadInv(t)
  BY Zenon DEF IInv
<1>2. current[t] = f /\ pc[f] = "body"
  BY Zenon DEF At
<1>3. /\ state[f] = "Running" /\ ~In(f, ready[t]) /\ switched[t] = NoFiber
      /\ target[f] \in Strands /\ f # NoFiber
      /\ f \notin awaited /\ ~In(f, wakeList[t])
      /\ active[target[f]] = f /\ target[f] \notin readyStrands
  BY <1>2, RunningFacts
<1>4. /\ homeStrand'[f] = NoStrand /\ pc'[f] = label
      /\ \A g \in Fibers \ {f} : homeStrand'[g] = homeStrand[g] /\ pc'[g] = pc[g]
      /\ homeStrand' \in [Fibers -> Strands \cup {NoStrand}] /\ pc' \in [Fibers -> Pcs]
  BY <1>1, Zenon DEF TypeOK, Pcs, Goto
<1>5. Elsewhere(t, f)
  BY <1>4, Zenon DEF Elsewhere
<1>6. current'[t] = f /\ switched'[t] = NoFiber /\ current[t] \in {f, NoFiber}
  BY <1>2, <1>3, Zenon
<1>7. GivenUp(t, f)
  BY ONLY ReleaseAndPromote(t, target[f], state), IInv(t), t \in Threads, f \in Fibers,
     <1>3, <1>5, <1>6, ReleaseStep, Zenon
<1>8. /\ active' \in [Strands -> Fibers \cup {NoFiber}] /\ waitq' \in [Strands -> Seq(Fibers)]
      /\ state' \in [Fibers -> {"Ready", "Running", "Parked", "Recyclable"}]
      /\ home' \in [Fibers -> Threads] /\ ready' \in [Threads -> Seq(Fibers)]
      /\ \A g \in Fibers \ {f} : FiberInv(t, g)'
      /\ \A u \in Strands : StrandInv(u)'
      /\ Distinct(ready'[t])
      /\ state'[f] = "Running" /\ ~In(f, ready'[t])
      /\ \A u \in Strands : active'[u] # f /\ ~In(f, waitq'[u])
  BY ONLY <1>3, <1>7, Zenon DEF GivenUp
<1>9. TypeOK'
  BY <1>1, <1>4, <1>8, Zenon DEF TypeOK
<1>10. target'[f] \in Strands
  BY ONLY target' \in [Fibers -> Strands], f \in Fibers, Zenon
<1>11. awaited' = awaited /\ wakeList' = wakeList
  OBVIOUS
<1>12. FiberInv(t, f)'
  <2>1. PlaceOf(t, f)'
    BY ONLY <1>3, <1>4, <1>6, <1>8, label \in {"enter", "reenter"}, Zenon DEF PlaceOf
  <2>2. StrandOf(f)'
    BY ONLY <1>4, <1>8, label \in {"enter", "reenter"}, Zenon DEF StrandOf, OutsidePcs
  <2>3. CareOf(t, f)'
    BY ONLY <1>3, <1>6, <1>8, <1>10, <1>11, Zenon DEF CareOf
  <2>4. QED
    BY ONLY <2>1, <2>2, <2>3, Zenon DEF FiberInv
<1>13. ThreadInv(t)'
  BY ONLY <1>1, <1>6, <1>8, <1>11, Zenon DEF ThreadInv
<1>14. \A g \in Fibers : FiberInv(t, g)'
  BY ONLY <1>8, <1>12
<1>15. QED
  BY ONLY <1>8, <1>9, <1>13, <1>14, Zenon DEF IInv

LEMMA YieldReleaseInductive ==
    ASSUME NEW t \in Threads, IInv(t), NEW f \in Fibers, YieldRelease(t, f)
    PROVE  IInv(t)'
<1>1. target' = target /\ target \in [Fibers -> Strands]
  BY Zenon DEF YieldRelease, IInv, TypeOK
<1>2. QED
  BY <1>1, RunsOutside, Zenon DEF YieldRelease

LEMMA SyncInductive ==
    ASSUME NEW t \in Threads, IInv(t), NEW f \in Fibers, Sync(t, f)
    PROVE  IInv(t)'
<1>1. PICK s \in Strands : target' = [target EXCEPT ![f] = s]
  BY Zenon DEF Sync
<1>2. target \in [Fibers -> Strands]
  BY Zenon DEF IInv, TypeOK
<1>3. target' \in [Fibers -> Strands] /\ \A g \in Fibers \ {f} : target'[g] = target[g]
  BY ONLY <1>1, <1>2, Zenon
<1>4. QED
  BY <1>3, RunsOutside, Zenon DEF Sync

(* The strand taken again by a fiber that yields, or queued for. *)
LEMMA YieldReenterInductive ==
    ASSUME NEW t \in Threads, IInv(t), NEW f \in Fibers, YieldReenter(t, f)
    PROVE  IInv(t)'
<1>1. TypeOK /\ ThreadInv(t)
  BY Zenon DEF IInv
<1>2. current[t] = f /\ pc[f] = "reenter"
  BY Zenon DEF YieldReenter, At
<1>3. PICK s : s = target[f]
  BY Zenon
<1>4. /\ state[f] = "Running" /\ ~In(f, ready[t]) /\ switched[t] = NoFiber
      /\ s \in Strands /\ f # NoFiber /\ NoStrand # s /\ homeStrand[f] = NoStrand
      /\ f \notin awaited /\ ~In(f, wakeList[t])
      /\ \A u \in Strands : active[u] # f /\ ~In(f, waitq[u])
  BY <1>2, <1>3, RunningFacts DEF OutsidePcs
<1>5. /\ readyStrands' = readyStrands /\ home' = home /\ target' = target
      /\ wakeList' = wakeList /\ awaited' = awaited
  BY Zenon DEF YieldReenter
<1>6. \A g \in Fibers : g # NoFiber
  BY StrandAssumption, Zenon DEF StrandAssumption
<1>7. CASE /\ BecomeActive(s, f) /\ homeStrand' = [homeStrand EXCEPT ![f] = s]
           /\ state' = [state EXCEPT ![f] = "Ready"]
           /\ ready' = [ready EXCEPT ![t] = Append(@, f)]
           /\ SwitchOut(t, f) /\ Goto(f, "yielded")
  <2>1. readyStrands' \subseteq readyStrands \cup {s}
    BY ONLY <1>5, Zenon
  <2>2. /\ active' \in [Strands -> Fibers \cup {NoFiber}] /\ waitq' = waitq
        /\ s \notin readyStrands /\ active'[s] = f
        /\ \A u \in Strands \ {s} : active'[u] = active[u]
        /\ \A g \in Fibers \ {f} : \A u \in Strands : active'[u] = g <=> active[u] = g
        /\ \A u \in Strands : StrandInv(u)'
    BY <1>4, <1>7, <2>1, BecomeActiveFacts, Zenon
  <2>3. /\ ready' \in [Threads -> Seq(Fibers)] /\ Distinct(ready'[t])
        /\ \A g : In(g, ready'[t]) <=> In(g, ready[t]) \/ g = f
    BY <1>4, <1>7, ScheduleFacts, Zenon
  <2>4. /\ pc'[f] = "yielded" /\ homeStrand'[f] = s /\ state'[f] = "Ready"
        /\ \A g \in Fibers \ {f} : pc'[g] = pc[g] /\ homeStrand'[g] = homeStrand[g]
        /\ \A g \in Fibers \ {f} : state'[g] = state[g]
    BY ONLY <1>1, <1>4, <1>7, f \in Fibers, Zenon DEF TypeOK, Goto
  <2>5. /\ pc' \in [Fibers -> Pcs] /\ homeStrand' \in [Fibers -> Strands \cup {NoStrand}]
        /\ state' \in [Fibers -> {"Ready", "Running", "Parked", "Recyclable"}]
    BY ONLY <1>1, <1>4, <1>7, f \in Fibers, Zenon DEF TypeOK, Pcs, Goto
  <2>6. /\ current'[t] = NoFiber /\ switched'[t] = f
        /\ current' \in [Threads -> Fibers \cup {NoFiber}]
        /\ switched' \in [Threads -> Fibers \cup {NoFiber}]
    BY ONLY <1>1, <1>7, f \in Fibers, t \in Threads, Zenon DEF TypeOK, SwitchOut
  <2>7. TypeOK'
    BY ONLY <1>1, <1>5, <2>2, <2>3, <2>5, <2>6, Zenon DEF TypeOK
  <2>8. \A g \in Fibers \ {f} : Same(t, g)
    BY ONLY <1>2, <1>4, <1>5, <1>6, <2>2, <2>3, <2>4, <2>6 DEF Same
  <2>9. FiberInv(t, f)'
    <3>1. PlaceOf(t, f)'
      BY ONLY <1>4, <2>3, <2>4, <2>6, Zenon DEF PlaceOf
    <3>2. StrandOf(f)'
      BY ONLY <1>3, <1>4, <1>5, <2>2, <2>4 DEF StrandOf, OutsidePcs
    <3>3. CareOf(t, f)'
      BY ONLY <1>3, <1>4, <1>5, <2>2, <2>4, <2>6, Zenon DEF CareOf
    <3>4. QED
      BY ONLY <3>1, <3>2, <3>3, Zenon DEF FiberInv
  <2>10. ThreadInv(t)'
    BY ONLY <1>1, <1>5, <2>3, <2>6, Zenon DEF ThreadInv
  <2>11. QED
    BY <2>2, <2>7, <2>8, <2>9, <2>10, OwnStep, Zenon
<1>8. CASE /\ JoinQueue(s, f) /\ Goto(f, "queued")
           /\ UNCHANGED <<homeStrand, state, ready, current, switched>>
  <2>1. /\ active' = active /\ waitq' \in [Strands -> Seq(Fibers)] /\ In(f, waitq'[s])
        /\ \A u \in Strands \ {s} : waitq'[u] = waitq[u]
        /\ \A g \in Fibers \ {f} : \A u \in Strands : In(g, waitq'[u]) <=> In(g, waitq[u])
        /\ \A u \in Strands : StrandInv(u)'
    BY <1>4, <1>5, <1>8, JoinQueueFacts, Zenon
  <2>2. /\ pc'[f] = "queued" /\ \A g \in Fibers \ {f} : pc'[g] = pc[g]
        /\ pc' \in [Fibers -> Pcs]
    BY ONLY <1>1, <1>8, f \in Fibers, Zenon DEF TypeOK, Pcs, Goto
  <2>3. TypeOK'
    BY ONLY <1>1, <1>5, <1>8, <2>1, <2>2, Zenon DEF TypeOK
  <2>4. \A g \in Fibers \ {f} : Same(t, g)
    BY ONLY <1>5, <1>8, <2>1, <2>2, Zenon DEF Same
  <2>5. FiberInv(t, f)'
    <3>1. PlaceOf(t, f)'
      BY ONLY <1>2, <1>4, <1>8, <2>2, Zenon DEF PlaceOf
    <3>2. StrandOf(f)'
      BY ONLY <1>3, <1>4, <1>5, <1>8, <2>1, <2>2, Zenon DEF StrandOf, OutsidePcs
    <3>3. CareOf(t, f)'
      BY ONLY <1>3, <1>4, <1>5, <1>8, <2>1, <2>2, Zenon DEF CareOf
    <3>4. QED
      BY ONLY <3>1, <3>2, <3>3, Zenon DEF FiberInv
  <2>6. ThreadInv(t)'
    BY ONLY <1>1, <1>5, <1>8, Zenon DEF ThreadInv
  <2>7. QED
    BY <2>1, <2>3, <2>4, <2>5, <2>6, OwnStep, Zenon
<1>9. QED
  BY <1>3, <1>7, <1>8, Zenon DEF YieldReenter

-----------------------------------------------------------------------------
(* The loop gives the strand of a fiber that parked or finished to the     *)
(* next one.                                                               *)
LEMMA AfterSwitchInductive ==
    ASSUME NEW t \in Threads, IInv(t), AfterSwitch(t)
    PROVE  IInv(t)'
<1>1. TypeOK /\ ThreadInv(t) /\ \A g \in Fibers : FiberInv(t, g)
  BY Zenon DEF IInv
<1>2. PICK f : f = switched[t]
  BY Zenon
<1>3. /\ f # NoFiber
      /\ switched' = [switched EXCEPT ![t] = NoFiber]
      /\ readyStrands' = readyStrands /\ homeStrand' = homeStrand /\ target' = target
      /\ current' = current /\ wakeList' = wakeList /\ awaited' = awaited /\ pc' = pc
  BY <1>2, Zenon DEF AfterSwitch
<1>4. f \in Fibers
  BY ONLY <1>1, <1>2, <1>3, t \in Threads, Zenon DEF TypeOK
<1>5. PlaceOf(t, f) /\ StrandOf(f) /\ CareOf(t, f)
  BY ONLY <1>1, <1>4, Zenon DEF FiberInv
<1>6. current[t] = NoFiber
  BY ONLY <1>1, <1>2, <1>3, Zenon DEF ThreadInv
<1>7. switched'[t] = NoFiber /\ switched' \in [Threads -> Fibers \cup {NoFiber}]
  BY ONLY <1>1, <1>3, t \in Threads, Zenon DEF TypeOK
<1>8. target[f] \in Strands /\ NoStrand # target[f] /\ \A g \in Fibers : g # NoFiber
  <2>1. target[f] \in Strands
    BY ONLY <1>1, <1>4, Zenon DEF TypeOK
  <2>2. NoFiber \notin Fibers /\ NoStrand \notin Strands
    BY StrandAssumption, Zenon DEF StrandAssumption
  <2>3. QED
    BY ONLY <2>1, <2>2, Zenon
<1>9. CASE GivesUpStrand(f)
  <2>1. homeStrand[f] = target[f] /\ active[target[f]] = f /\ state[f] \in {"Parked", "Recyclable"}
    BY ONLY <1>5, <1>9, Zenon DEF GivesUpStrand, StrandOf
  <2>2. target[f] \notin readyStrands
    BY ONLY <1>2, <1>5, <2>1, Zenon DEF CareOf
  <2>3. ReleaseAndPromote(t, target[f], state)
    BY <1>2, <1>9, <2>1, Zenon DEF AfterSwitch
  <2>4. pc[f] \in {"asleep", "done"}
    BY ONLY <1>2, <1>5, <1>8, <2>1, Zenon DEF PlaceOf, StrandOf, OutsidePcs
  <2>5. Elsewhere(t, f)
    BY ONLY <1>2, <1>3, <1>7, <1>8, Zenon DEF Elsewhere
  <2>6. GivenUp(t, f)
    BY ONLY IInv(t), t \in Threads, <1>4, <1>6, <1>7, <1>8, <2>1, <2>2, <2>3, <2>5, ReleaseStep, Zenon
  <2>7. /\ active' \in [Strands -> Fibers \cup {NoFiber}] /\ waitq' \in [Strands -> Seq(Fibers)]
        /\ state' \in [Fibers -> {"Ready", "Running", "Parked", "Recyclable"}]
        /\ home' \in [Fibers -> Threads] /\ ready' \in [Threads -> Seq(Fibers)]
        /\ \A g \in Fibers \ {f} : FiberInv(t, g)'
        /\ \A u \in Strands : StrandInv(u)'
        /\ Distinct(ready'[t])
        /\ state'[f] = state[f] /\ (In(f, ready'[t]) <=> In(f, ready[t]))
        /\ \A u \in Strands : active'[u] # f /\ ~In(f, waitq'[u])
    BY ONLY <2>6, Zenon DEF GivenUp
  <2>8. TypeOK'
    BY ONLY <1>1, <1>3, <1>7, <2>7, Zenon DEF TypeOK
  <2>9. FiberInv(t, f)'
    <3>1. PlaceOf(t, f)'
      BY ONLY <1>3, <1>5, <1>7, <2>7, Zenon DEF PlaceOf
    <3>2. StrandOf(f)'
      <4>1. pc[f] = "asleep" => state[f] = "Parked"
        BY ONLY <1>2, <1>5, Zenon DEF PlaceOf
      <4>2. homeStrand[f] = IF pc[f] \in OutsidePcs THEN NoStrand ELSE target[f]
        BY ONLY <1>5, Zenon DEF StrandOf
      <4>3. QED
        BY ONLY <1>3, <2>4, <2>7, <4>1, <4>2, Zenon DEF StrandOf
    <3>3. CareOf(t, f)'
      BY ONLY <1>3, <1>5, <1>7, <1>8, <2>7, <1>3, Zenon DEF CareOf
    <3>4. QED
      BY ONLY <3>1, <3>2, <3>3, Zenon DEF FiberInv
  <2>10. ThreadInv(t)'
    BY ONLY <1>1, <1>3, <1>7, <2>7, Zenon DEF ThreadInv
  <2>11. \A g \in Fibers : FiberInv(t, g)'
    BY ONLY <2>7, <2>9, Zenon
  <2>12. QED
    BY ONLY <2>7, <2>8, <2>10, <2>11, Zenon DEF IInv
<1>10. CASE ~GivesUpStrand(f)
  <2>1. UNCHANGED <<active, waitq, state, home, ready>>
    BY <1>2, <1>10, Zenon DEF AfterSwitch
  <2>2. pc[f] \in {"waiting", "yielded"}
    <3>1. \/ state[f] = "Parked" /\ pc[f] \in {"waiting", "asleep"}
          \/ state[f] = "Ready" /\ pc[f] = "yielded"
          \/ pc[f] = "done" /\ state[f] = "Recyclable"
      BY ONLY <1>2, <1>5, Zenon DEF PlaceOf
    <3>2. pc[f] \in {"asleep", "done"} => active[target[f]] = f /\ homeStrand[f] = target[f]
      BY ONLY <1>2, <1>5, Zenon DEF CareOf, StrandOf, OutsidePcs
    <3>3. QED
      BY ONLY <1>8, <1>10, <3>1, <3>2, Zenon DEF GivesUpStrand
  <2>3. active[target[f]] # f \/ state[f] = "Ready"
    BY ONLY <1>2, <1>5, <1>8, <2>2, Zenon DEF PlaceOf, StrandOf
  <2>4. TypeOK'
    BY ONLY <1>1, <1>3, <1>7, <2>1, Zenon DEF TypeOK
  <2>5. \A g \in Fibers \ {f} : Untouched(t, g)
    BY ONLY <1>2, <1>3, <1>7, <1>8, <2>1, Zenon DEF Untouched
  <2>6. FiberInv(t, f)'
    <3>1. PlaceOf(t, f)'
      BY ONLY <1>3, <1>5, <1>7, <2>1, <1>3, Zenon DEF PlaceOf
    <3>2. StrandOf(f)'
      BY ONLY <1>3, <1>5, <2>1, Zenon DEF StrandOf
    <3>3. CareOf(t, f)'
      BY ONLY <1>3, <1>5, <1>7, <2>1, <2>2, <2>3, Zenon DEF CareOf
    <3>4. QED
      BY ONLY <3>1, <3>2, <3>3, Zenon DEF FiberInv
  <2>7. QED
    BY ONLY IInv(t), <1>3, <1>4, <1>7, <2>1, <2>4, <2>5, <2>6, PrivateStep, Zenon
<1>11. QED
  BY ONLY <1>9, <1>10, Zenon

(* The reactor's fiber is scheduled. *)
LEMMA ReactorPullInductive ==
    ASSUME NEW t \in Threads, IInv(t), ReactorPull(t)
    PROVE  IInv(t)'
<1>1. TypeOK /\ ThreadInv(t) /\ (\A g \in Fibers : FiberInv(t, g)) /\ \A u \in Strands : StrandInv(u)
  BY Zenon DEF IInv
<1>2. PICK s \in readyStrands :
         /\ readyStrands' = readyStrands \ {s}
         /\ IF active[s] = NoFiber
            THEN UNCHANGED <<state, home, ready>>
            ELSE /\ state' = [state EXCEPT ![active[s]] = "Ready"]
                 /\ home' = [home EXCEPT ![active[s]] = t]
                 /\ ready' = [ready EXCEPT ![t] = Append(@, active[s])]
  BY Zenon DEF ReactorPull
<1>3. /\ current[t] = NoFiber /\ switched[t] = NoFiber
      /\ active' = active /\ waitq' = waitq /\ homeStrand' = homeStrand /\ target' = target
      /\ current' = current /\ switched' = switched /\ wakeList' = wakeList
      /\ awaited' = awaited /\ pc' = pc
  BY Zenon DEF ReactorPull, InLoop
<1>4. PICK f : f = active[s]
  BY Zenon
<1>5. s \in Strands /\ f \in Fibers /\ f # NoFiber
  <2>1. s \in Strands
    BY ONLY <1>1, s \in readyStrands, Zenon DEF TypeOK
  <2>2. f # NoFiber
    BY ONLY <1>1, <1>4, <2>1, s \in readyStrands, Zenon DEF StrandInv
  <2>3. QED
    BY ONLY <1>1, <1>4, <2>1, <2>2, Zenon DEF TypeOK
<1>6. /\ state' = [state EXCEPT ![f] = "Ready"] /\ home' = [home EXCEPT ![f] = t]
      /\ ready' = [ready EXCEPT ![t] = Append(@, f)]
  BY ONLY <1>2, <1>4, <1>5, Zenon
<1>7. PlaceOf(t, f) /\ StrandOf(f) /\ CareOf(t, f)
  BY ONLY <1>1, <1>5, Zenon DEF FiberInv
<1>8. target[f] = s /\ \A u \in Strands : active[u] = f => u = s
  BY ONLY <1>4, <1>5, <1>7, Zenon DEF StrandOf
<1>9. /\ state[f] = "Parked" /\ pc[f] = "asleep"
      /\ f \notin awaited /\ ~In(f, wakeList[t])
  <2>1. state[f] = "Parked" /\ pc[f] = "asleep"
    BY ONLY <1>4, <1>7, <1>8, s \in readyStrands, Zenon DEF CareOf
  <2>2. switched[t] # f
    BY ONLY <1>3, <1>5, Zenon
  <2>3. f \notin awaited /\ ~In(f, wakeList[t])
    BY ONLY <1>4, <1>7, <1>8, <2>1, <2>2, Zenon DEF CareOf
  <2>4. QED
    BY ONLY <2>1, <2>3, Zenon
<1>10. ~In(f, ready[t])
  BY ONLY <1>7, <1>9, Zenon DEF PlaceOf
<1>11. /\ ready' \in [Threads -> Seq(Fibers)] /\ Distinct(ready'[t])
       /\ \A g : In(g, ready'[t]) <=> In(g, ready[t]) \/ g = f
  BY ONLY IInv(t), t \in Threads, <1>5, <1>6, <1>10, ScheduleFacts, Zenon
<1>12. /\ state'[f] = "Ready" /\ \A g \in Fibers \ {f} : state'[g] = state[g]
       /\ state' \in [Fibers -> {"Ready", "Running", "Parked", "Recyclable"}]
       /\ home' \in [Fibers -> Threads]
  BY ONLY <1>1, <1>5, <1>6, t \in Threads, Zenon DEF TypeOK
<1>13. readyStrands' \in SUBSET Strands
  BY ONLY <1>1, <1>2, Zenon DEF TypeOK
<1>14. TypeOK'
  BY ONLY <1>1, <1>3, <1>11, <1>12, <1>13, Zenon DEF TypeOK
<1>15. \A g \in Fibers \ {f} : Same(t, g)
  BY ONLY <1>2, <1>3, <1>4, <1>11, <1>12, Zenon DEF Same
<1>16. FiberInv(t, f)'
  <2>1. In(f, ready'[t]) /\ s \notin readyStrands' /\ current'[t] # f /\ switched'[t] # f
    BY ONLY <1>2, <1>3, <1>5, <1>11, Zenon
  <2>2. PlaceOf(t, f)'
    BY ONLY <1>3, <1>9, <1>12, <2>1, Zenon DEF PlaceOf
  <2>3. \A u \in Strands : ~In(f, waitq[u])
    BY ONLY <1>4, <1>7, <1>8, Zenon DEF StrandOf
  <2>4. homeStrand[f] = target[f]
    BY ONLY <1>7, <1>9, Zenon DEF StrandOf, OutsidePcs
  <2>5. StrandOf(f)'
    BY ONLY <1>3, <1>4, <1>8, <1>9, <1>12, <2>3, <2>4, Zenon DEF StrandOf, OutsidePcs
  <2>6. CareOf(t, f)'
    BY ONLY <1>3, <1>4, <1>8, <1>9, <1>12, <2>1, Zenon DEF CareOf
  <2>7. QED
    BY ONLY <2>2, <2>5, <2>6, Zenon DEF FiberInv
<1>17. \A u \in Strands : StrandInv(u)'
  BY ONLY <1>1, <1>2, <1>3, Zenon DEF StrandInv
<1>18. ThreadInv(t)'
  BY ONLY <1>1, <1>3, <1>11, Zenon DEF ThreadInv
<1>19. QED
  BY ONLY IInv(t), <1>5, <1>14, <1>15, <1>16, <1>17, <1>18, OwnStep, Zenon

(* The first scheduled fiber runs. *)
LEMMA ResumeInductive ==
    ASSUME NEW t \in Threads, IInv(t), Resume(t)
    PROVE  IInv(t)'
<1>1. TypeOK /\ ThreadInv(t) /\ (\A g \in Fibers : FiberInv(t, g)) /\ \A u \in Strands : StrandInv(u)
  BY Zenon DEF IInv
<1>2. PICK f : f = Head(ready[t])
  BY Zenon
<1>3. PICK q : q = Tail(ready[t])
  BY Zenon
<1>4. /\ current[t] = NoFiber /\ switched[t] = NoFiber /\ ready[t] # <<>>
      /\ ready' = [ready EXCEPT ![t] = q] /\ current' = [current EXCEPT ![t] = f]
      /\ state' = [state EXCEPT ![f] = "Running"] /\ home' = [home EXCEPT ![f] = t]
      /\ active' = active /\ waitq' = waitq /\ readyStrands' = readyStrands
      /\ homeStrand' = homeStrand /\ target' = target /\ switched' = switched
      /\ wakeList' = wakeList /\ awaited' = awaited /\ pc' = pc
  BY <1>2, <1>3, Zenon DEF Resume, InLoop, strandVars
<1>5. ready[t] \in Seq(Fibers) /\ Distinct(ready[t])
  BY ONLY <1>1, t \in Threads, Zenon DEF TypeOK, ThreadInv
<1>6. /\ f \in Fibers /\ q \in Seq(Fibers) /\ In(f, ready[t])
      /\ Distinct(q) /\ ~In(f, q)
      /\ \A g : In(g, q) => In(g, ready[t])
      /\ \A g : In(g, ready[t]) => g = f \/ In(g, q)
  BY ONLY <1>2, <1>3, <1>4, <1>5, TailFacts, Zenon
<1>7. PlaceOf(t, f) /\ StrandOf(f) /\ CareOf(t, f)
  BY ONLY <1>1, <1>6, Zenon DEF FiberInv
<1>8. \A g \in Fibers : g # NoFiber
  BY StrandAssumption, Zenon DEF StrandAssumption
<1>9. /\ state[f] = "Ready" /\ pc[f] \notin {"queued", "body", "reenter", "parking", "done"}
      /\ f \notin awaited /\ ~In(f, wakeList[t])
  <2>1. state[f] = "Ready" /\ pc[f] \notin {"queued", "body", "reenter", "parking", "done"}
    BY ONLY <1>6, <1>7, Zenon DEF PlaceOf
  <2>2. QED
    BY ONLY <1>7, <2>1, Zenon DEF CareOf
<1>10. \A u \in Strands : ~In(f, waitq[u])
  BY ONLY <1>7, <1>9, Zenon DEF StrandOf
<1>11. /\ ready'[t] = q /\ current'[t] = f /\ switched'[t] = NoFiber
       /\ state'[f] = "Running" /\ \A g \in Fibers \ {f} : state'[g] = state[g]
  BY ONLY <1>1, <1>4, <1>6, t \in Threads, Zenon DEF TypeOK
<1>12. TypeOK'
  <2>1. ready' \in [Threads -> Seq(Fibers)]
    BY ONLY <1>1, <1>4, <1>6, Zenon DEF TypeOK
  <2>2. /\ current' \in [Threads -> Fibers \cup {NoFiber}] /\ home' \in [Fibers -> Threads]
        /\ state' \in [Fibers -> {"Ready", "Running", "Parked", "Recyclable"}]
    BY ONLY <1>1, <1>4, <1>6, t \in Threads, Zenon DEF TypeOK
  <2>3. QED
    BY ONLY <1>1, <1>4, <2>1, <2>2, Zenon DEF TypeOK
<1>13. \A g \in Fibers \ {f} : Same(t, g)
  BY ONLY <1>4, <1>6, <1>8, <1>11, Zenon DEF Same
<1>14. FiberInv(t, f)'
  <2>1. PlaceOf(t, f)'
    BY ONLY <1>4, <1>6, <1>8, <1>9, <1>11, Zenon DEF PlaceOf
  <2>2. active[target[f]] = f => target[f] \notin readyStrands
    BY ONLY <1>7, <1>9, Zenon DEF CareOf
  <2>3. StrandOf(f)'
    BY ONLY <1>4, <1>7, <1>9, <1>10, <1>11, Zenon DEF StrandOf
  <2>4. CareOf(t, f)'
    BY ONLY <1>4, <1>6, <1>8, <1>9, <1>11, <2>2, Zenon DEF CareOf
  <2>5. QED
    BY ONLY <2>1, <2>3, <2>4, Zenon DEF FiberInv
<1>15. \A u \in Strands : StrandInv(u)'
  BY ONLY <1>1, <1>4, Zenon DEF StrandInv
<1>16. ThreadInv(t)'
  BY ONLY <1>1, <1>4, <1>6, <1>11, Zenon DEF ThreadInv
<1>17. QED
  BY ONLY IInv(t), <1>6, <1>12, <1>13, <1>14, <1>15, <1>16, OwnStep, Zenon

(* The one thread is every fiber's home. *)
LEMMA WakeInductive ==
    ASSUME NEW t, Threads = {t}, IInv(t), NEW f \in Fibers, Wake(f)
    PROVE  IInv(t)'
<1>1. TypeOK /\ ThreadInv(t) /\ (\A g \in Fibers : FiberInv(t, g)) /\ \A u \in Strands : StrandInv(u)
  BY Zenon DEF IInv
<1>2. home[f] = t /\ t \in Threads
  BY <1>1, Zenon DEF TypeOK
<1>3. PICK q : q = Append(wakeList[t], f)
  BY Zenon
<1>4. /\ f \in awaited /\ awaited' = awaited \ {f} /\ wakeList' = [wakeList EXCEPT ![t] = q]
      /\ active' = active /\ waitq' = waitq /\ readyStrands' = readyStrands
      /\ state' = state /\ home' = home /\ homeStrand' = homeStrand /\ target' = target
      /\ current' = current /\ switched' = switched /\ ready' = ready /\ pc' = pc
  BY <1>2, <1>3, Zenon DEF Wake, strandVars
<1>5. PlaceOf(t, f) /\ StrandOf(f) /\ CareOf(t, f)
  BY ONLY <1>1, f \in Fibers, Zenon DEF FiberInv
<1>6. wakeList[t] \in Seq(Fibers) /\ Distinct(wakeList[t]) /\ ~In(f, wakeList[t])
  BY ONLY <1>1, <1>2, <1>4, <1>5, Zenon DEF TypeOK, ThreadInv, CareOf
<1>7. /\ q \in Seq(Fibers) /\ Distinct(q) /\ \A g : In(g, q) <=> In(g, wakeList[t]) \/ g = f
  BY ONLY <1>3, <1>6, f \in Fibers, AppendFacts, Zenon
<1>8. wakeList'[t] = q /\ wakeList' \in [Threads -> Seq(Fibers)]
  BY ONLY <1>1, <1>2, <1>4, <1>7, Zenon DEF TypeOK
<1>9. awaited' \in SUBSET Fibers
  BY ONLY <1>1, <1>4, Zenon DEF TypeOK
<1>10. TypeOK'
  BY ONLY <1>1, <1>4, <1>8, <1>9, Zenon DEF TypeOK
<1>11. \A g \in Fibers \ {f} : Same(t, g)
  BY ONLY <1>4, <1>7, <1>8, Zenon DEF Same
<1>12. FiberInv(t, f)'
  <2>1. PlaceOf(t, f)'
    BY ONLY <1>4, <1>5, Zenon DEF PlaceOf
  <2>2. StrandOf(f)'
    BY ONLY <1>4, <1>5, Zenon DEF StrandOf
  <2>3. CareOf(t, f)'
    BY ONLY <1>4, <1>5, <1>7, <1>8, Zenon DEF CareOf
  <2>4. QED
    BY ONLY <2>1, <2>2, <2>3, Zenon DEF FiberInv
<1>13. \A u \in Strands : StrandInv(u)'
  BY ONLY <1>1, <1>4, Zenon DEF StrandInv
<1>14. ThreadInv(t)'
  BY ONLY <1>1, <1>4, <1>7, <1>8, Zenon DEF ThreadInv
<1>15. QED
  BY ONLY IInv(t), f \in Fibers, <1>10, <1>11, <1>12, <1>13, <1>14, OwnStep, Zenon

(* What the invariant says of the first fiber of the wake list. *)
LEMMA DrainFacts ==
    ASSUME NEW t \in Threads, IInv(t), InLoop(t), wakeList[t] # <<>>, NEW f, f = Head(wakeList[t])
    PROVE  /\ f \in Fibers /\ f # NoFiber /\ In(f, wakeList[t])
           /\ target[f] \in Strands /\ homeStrand[f] = target[f]
           /\ state[f] = "Parked" /\ pc[f] = "asleep" /\ f \notin awaited
           /\ current[t] # f /\ switched[t] # f /\ ~In(f, ready[t])
           /\ \A u \in Strands : active[u] # f /\ ~In(f, waitq[u])
<1>1. TypeOK /\ ThreadInv(t) /\ (\A g \in Fibers : FiberInv(t, g))
  BY Zenon DEF IInv
<1>2. wakeList[t] \in Seq(Fibers)
  BY ONLY <1>1, t \in Threads, Zenon DEF TypeOK
<1>3. f \in Fibers /\ In(f, wakeList[t])
  BY ONLY <1>2, wakeList[t] # <<>>, f = Head(wakeList[t]), TailFacts, Zenon
<1>4. f # NoFiber /\ current[t] # f /\ switched[t] # f
  BY <1>3, StrandAssumption, Zenon DEF StrandAssumption, InLoop
<1>5. PlaceOf(t, f) /\ StrandOf(f) /\ CareOf(t, f)
  BY ONLY <1>1, <1>3, Zenon DEF FiberInv
<1>6. target[f] \in Strands
  BY ONLY <1>1, <1>3, Zenon DEF TypeOK
<1>7. pc[f] # "parking"
  BY ONLY <1>4, <1>5, Zenon DEF PlaceOf
<1>8. /\ state[f] = "Parked" /\ pc[f] = "asleep" /\ f \notin awaited
      /\ ~In(f, waitq[target[f]]) /\ active[target[f]] # f
  BY ONLY <1>3, <1>4, <1>5, <1>7, Zenon DEF CareOf
<1>9. ~In(f, ready[t])
  BY ONLY <1>5, <1>8, Zenon DEF PlaceOf
<1>10. \A u \in Strands : active[u] # f /\ ~In(f, waitq[u])
  BY ONLY <1>5, <1>8, Zenon DEF StrandOf
<1>11. homeStrand[f] = target[f]
  BY ONLY <1>5, <1>8, Zenon DEF StrandOf, OutsidePcs
<1>12. QED
  BY ONLY <1>3, <1>4, <1>6, <1>8, <1>9, <1>10, <1>11, Zenon

(* A woken fiber goes to the reactor, is scheduled, or queues. *)
LEMMA DrainInductive ==
    ASSUME NEW t \in Threads, IInv(t), Drain(t)
    PROVE  IInv(t)'
<1>1. TypeOK /\ ThreadInv(t) /\ (\A u \in Strands : StrandInv(u))
  BY Zenon DEF IInv
<1>2. PICK f : f = Head(wakeList[t])
  BY Zenon
<1>3. PICK q : q = Tail(wakeList[t])
  BY Zenon
<1>4. PICK s : s = homeStrand[f]
  BY Zenon
<1>5. /\ InLoop(t) /\ wakeList[t] # <<>> /\ wakeList' = [wakeList EXCEPT ![t] = q]
      /\ home' = home /\ homeStrand' = homeStrand /\ target' = target /\ current' = current
      /\ switched' = switched /\ awaited' = awaited /\ pc' = pc
  BY <1>3, Zenon DEF Drain
<1>6. /\ f \in Fibers /\ f # NoFiber /\ In(f, wakeList[t])
      /\ target[f] = s /\ s \in Strands
      /\ state[f] = "Parked" /\ pc[f] = "asleep" /\ f \notin awaited
      /\ current[t] # f /\ switched[t] # f /\ ~In(f, ready[t])
      /\ \A u \in Strands : active[u] # f /\ ~In(f, waitq[u])
  <2>1. InLoop(t) /\ wakeList[t] # <<>>
    BY ONLY <1>5, Zenon
  <2>2. /\ f \in Fibers /\ f # NoFiber /\ In(f, wakeList[t])
        /\ target[f] \in Strands /\ homeStrand[f] = target[f]
        /\ state[f] = "Parked" /\ pc[f] = "asleep" /\ f \notin awaited
        /\ current[t] # f /\ switched[t] # f /\ ~In(f, ready[t])
        /\ \A u \in Strands : active[u] # f /\ ~In(f, waitq[u])
    BY ONLY IInv(t), t \in Threads, <1>2, <2>1, DrainFacts
  <2>3. QED
    BY ONLY <1>4, <2>2, Zenon
<1>7. /\ q \in Seq(Fibers) /\ Distinct(q) /\ ~In(f, q)
      /\ \A g : In(g, q) => In(g, wakeList[t])
      /\ \A g : In(g, wakeList[t]) => g = f \/ In(g, q)
  <2>1. wakeList[t] \in Seq(Fibers) /\ Distinct(wakeList[t])
    BY ONLY <1>1, t \in Threads, Zenon DEF TypeOK, ThreadInv
  <2>2. QED
    BY ONLY <1>2, <1>3, <1>5, <2>1, TailFacts, Zenon
<1>8. wakeList'[t] = q /\ wakeList' \in [Threads -> Seq(Fibers)]
  BY ONLY <1>1, <1>5, <1>7, t \in Threads, Zenon DEF TypeOK
<1>9. CASE /\ BecomeActive(s, f) /\ readyStrands' = readyStrands \cup {s}
           /\ state' = state /\ ready' = ready
  <2>1. readyStrands' \subseteq readyStrands \cup {s}
    BY ONLY <1>9, Zenon
  <2>2. /\ active' \in [Strands -> Fibers \cup {NoFiber}] /\ waitq' = waitq
        /\ active'[s] = f
        /\ \A u \in Strands \ {s} : active'[u] = active[u]
        /\ \A g \in Fibers \ {f} : \A u \in Strands : active'[u] = g <=> active[u] = g
        /\ \A u \in Strands : StrandInv(u)'
    BY ONLY IInv(t), <1>6, <1>9, <2>1, BecomeActiveFacts
  <2>3. readyStrands' \in SUBSET Strands
    BY ONLY <1>1, <1>6, <1>9, Zenon DEF TypeOK
  <2>4. TypeOK'
    BY ONLY <1>1, <1>5, <1>8, <1>9, <2>2, <2>3, Zenon DEF TypeOK
  <2>5. active[s] = NoFiber /\ \A g \in Fibers : g # NoFiber
    BY <1>9, StrandAssumption, Zenon DEF BecomeActive, StrandAssumption
  <2>6. \A g \in Fibers \ {f} : Same(t, g)
    BY ONLY <1>5, <1>7, <1>8, <1>9, <2>2, <2>5, Zenon DEF Same
  <2>7. FiberInv(t, f)'
    <3>1. PlaceOf(t, f)'
      BY ONLY <1>5, <1>6, <1>9, Zenon DEF PlaceOf
    <3>2. StrandOf(f)'
      BY ONLY <1>4, <1>5, <1>6, <1>9, <2>2 DEF StrandOf, OutsidePcs
    <3>3. CareOf(t, f)'
      BY ONLY <1>5, <1>6, <1>7, <1>8, <1>9, Zenon DEF CareOf
    <3>4. QED
      BY ONLY <3>1, <3>2, <3>3, Zenon DEF FiberInv
  <2>8. ThreadInv(t)'
    BY ONLY <1>1, <1>5, <1>7, <1>8, <1>9, Zenon DEF ThreadInv
  <2>9. QED
    BY ONLY IInv(t), <1>6, <2>2, <2>4, <2>6, <2>7, <2>8, OwnStep, Zenon
<1>10. CASE /\ BecomeActive(s, f) /\ readyStrands' = readyStrands
            /\ state' = [state EXCEPT ![f] = "Ready"]
            /\ ready' = [ready EXCEPT ![t] = Append(@, f)]
  <2>1. readyStrands' \subseteq readyStrands \cup {s}
    BY ONLY <1>10, Zenon
  <2>2. /\ active' \in [Strands -> Fibers \cup {NoFiber}] /\ waitq' = waitq
        /\ active'[s] = f /\ s \notin readyStrands
        /\ \A u \in Strands \ {s} : active'[u] = active[u]
        /\ \A g \in Fibers \ {f} : \A u \in Strands : active'[u] = g <=> active[u] = g
        /\ \A u \in Strands : StrandInv(u)'
    BY ONLY IInv(t), <1>6, <1>10, <2>1, BecomeActiveFacts
  <2>3. /\ ready' \in [Threads -> Seq(Fibers)] /\ Distinct(ready'[t])
        /\ \A g : In(g, ready'[t]) <=> In(g, ready[t]) \/ g = f
    BY ONLY IInv(t), t \in Threads, <1>6, <1>10, ScheduleFacts, Zenon
  <2>4. /\ state'[f] = "Ready" /\ \A g \in Fibers \ {f} : state'[g] = state[g]
        /\ state' \in [Fibers -> {"Ready", "Running", "Parked", "Recyclable"}]
    BY ONLY <1>1, <1>6, <1>10, Zenon DEF TypeOK
  <2>5. TypeOK'
    BY ONLY <1>1, <1>5, <1>8, <1>10, <2>2, <2>3, <2>4, Zenon DEF TypeOK
  <2>6. \A g \in Fibers \ {f} : Same(t, g)
    BY ONLY <1>5, <1>7, <1>8, <1>10, <2>2, <2>3, <2>4 DEF Same
  <2>7. FiberInv(t, f)'
    <3>1. PlaceOf(t, f)'
      BY ONLY <1>5, <1>6, <2>3, <2>4, Zenon DEF PlaceOf
    <3>2. StrandOf(f)'
      BY ONLY <1>4, <1>5, <1>6, <2>2, <2>4 DEF StrandOf, OutsidePcs
    <3>3. CareOf(t, f)'
      BY ONLY <1>5, <1>6, <1>7, <1>8, <1>10, <2>2, <2>4, Zenon DEF CareOf
    <3>4. QED
      BY ONLY <3>1, <3>2, <3>3, Zenon DEF FiberInv
  <2>8. ThreadInv(t)'
    BY ONLY <1>1, <1>5, <1>7, <1>8, <2>3, Zenon DEF ThreadInv
  <2>9. QED
    BY ONLY IInv(t), <1>6, <2>2, <2>5, <2>6, <2>7, <2>8, OwnStep, Zenon
<1>11. CASE /\ JoinQueue(s, f) /\ readyStrands' = readyStrands
            /\ state' = state /\ ready' = ready
  <2>1. /\ active' = active /\ waitq' \in [Strands -> Seq(Fibers)] /\ In(f, waitq'[s])
        /\ \A u \in Strands \ {s} : waitq'[u] = waitq[u]
        /\ \A g \in Fibers \ {f} : \A u \in Strands : In(g, waitq'[u]) <=> In(g, waitq[u])
        /\ \A u \in Strands : StrandInv(u)'
    BY ONLY IInv(t), <1>6, <1>11, JoinQueueFacts, Zenon
  <2>2. TypeOK'
    BY ONLY <1>1, <1>5, <1>8, <1>11, <2>1, Zenon DEF TypeOK
  <2>3. \A g \in Fibers \ {f} : Same(t, g)
    BY ONLY <1>5, <1>7, <1>8, <1>11, <2>1, Zenon DEF Same
  <2>4. FiberInv(t, f)'
    <3>1. PlaceOf(t, f)'
      BY ONLY <1>5, <1>6, <1>11, Zenon DEF PlaceOf
    <3>2. StrandOf(f)'
      BY ONLY <1>4, <1>5, <1>6, <1>11, <2>1, Zenon DEF StrandOf, OutsidePcs
    <3>3. CareOf(t, f)'
      BY ONLY <1>5, <1>6, <1>7, <1>8, <2>1, Zenon DEF CareOf
    <3>4. QED
      BY ONLY <3>1, <3>2, <3>3, Zenon DEF FiberInv
  <2>5. ThreadInv(t)'
    BY ONLY <1>1, <1>5, <1>7, <1>8, <1>11, Zenon DEF ThreadInv
  <2>6. QED
    BY ONLY IInv(t), <1>6, <2>1, <2>2, <2>3, <2>4, <2>5, OwnStep, Zenon
<1>12. QED
  <2>1. \/ BecomeActive(s, f) /\ readyStrands' = readyStrands \cup {s} /\ UNCHANGED <<state, ready>>
        \/ /\ BecomeActive(s, f) /\ readyStrands' = readyStrands
           /\ state' = [state EXCEPT ![f] = "Ready"]
           /\ ready' = [ready EXCEPT ![t] = Append(@, f)]
        \/ JoinQueue(s, f) /\ UNCHANGED <<readyStrands, state, ready>>
    BY <1>2, <1>4, <1>6, Zenon DEF Drain
  <2>2. QED
    BY ONLY <1>9, <1>10, <1>11, <2>1, Zenon

-----------------------------------------------------------------------------
LEMMA StutterInductive ==
    ASSUME NEW t, IInv(t), UNCHANGED vars
    PROVE  IInv(t)'
<1>1. TypeOK /\ ThreadInv(t) /\ (\A g \in Fibers : FiberInv(t, g)) /\ \A u \in Strands : StrandInv(u)
  BY Zenon DEF IInv
<1>2. /\ active' = active /\ waitq' = waitq /\ readyStrands' = readyStrands
      /\ state' = state /\ home' = home /\ homeStrand' = homeStrand /\ target' = target
      /\ current' = current /\ switched' = switched /\ ready' = ready /\ pc' = pc
      /\ wakeList' = wakeList /\ awaited' = awaited
  BY Zenon DEF vars, strandVars, threadVars, fiberVars
<1>3. TypeOK'
  BY ONLY <1>1, <1>2, Zenon DEF TypeOK
<1>4. \A g \in Fibers : Same(t, g)
  BY ONLY <1>2, Zenon DEF Same
<1>5. \A g \in Fibers : FiberInv(t, g)'
  BY ONLY <1>1, <1>4, SameKeeps, Zenon
<1>6. ThreadInv(t)' /\ \A u \in Strands : StrandInv(u)'
  BY ONLY <1>1, <1>2, Zenon DEF ThreadInv, StrandInv
<1>7. QED
  BY ONLY <1>3, <1>5, <1>6, Zenon DEF IInv

LEMMA Inductive ==
    ASSUME NEW t, Threads = {t}, IInv(t), [Next]_vars
    PROVE  IInv(t)'
<1>1. t \in Threads
  OBVIOUS
<1>2. ASSUME NEW f \in Fibers, FiberStep(t, f)
      PROVE  IInv(t)'
  BY <1>1, <1>2, EnterInductive, EnterParkInductive, ReturnInductive, YieldReleaseInductive,
     YieldReenterInductive, SyncInductive, RegisterInductive, ParkInductive, FinishInductive
 , Zenon DEF FiberStep
<1>3. ASSUME Thread(t)
      PROVE  IInv(t)'
  BY <1>1, <1>2, <1>3, AfterSwitchInductive, DrainInductive, ReactorPullInductive, ResumeInductive
 , Zenon DEF Thread
<1>4. QED
  BY <1>3, WakeInductive, StutterInductive, Zenon DEF Next

(* Every posted callable is in the one thread's queue. *)
LEMMA InitIInv ==
    ASSUME NEW t, Threads = {t}, Init
    PROVE  IInv(t)
<1>1. /\ active = [s \in Strands |-> NoFiber] /\ waitq = [s \in Strands |-> <<>>]
      /\ readyStrands = {} /\ state = [f \in Fibers |-> "Ready"]
      /\ homeStrand = [f \in Fibers |-> NoStrand] /\ target = Posted
      /\ current = [u \in Threads |-> NoFiber] /\ switched = [u \in Threads |-> NoFiber]
      /\ ready = Spawned /\ wakeList = [u \in Threads |-> <<>>] /\ awaited = {}
      /\ pc = [f \in Fibers |-> "enter"]
  BY Zenon DEF Init
<1>2. /\ Posted \in [Fibers -> Strands] /\ Spawned \in [Threads -> Seq(Fibers)]
      /\ NoFiber \notin Fibers
      /\ \A f \in Fibers : In(f, Spawned[t])
  BY StrandAssumption, Zenon DEF StrandAssumption, In
<1>3. home \in [Fibers -> Threads]
  <2>1. \A f \in Fibers : \E u \in Threads : \E i \in DOMAIN Spawned[u] : Spawned[u][i] = f
    BY StrandAssumption, Zenon DEF StrandAssumption
  <2>2. home = [f \in Fibers |-> CHOOSE u \in Threads : \E i \in DOMAIN Spawned[u] : Spawned[u][i] = f]
    BY Zenon DEF Init
  <2>3. QED
    BY ONLY <2>1, <2>2, Zenon
<1>4. Distinct(Spawned[t])
  BY StrandAssumption, Zenon DEF StrandAssumption, Distinct
<1>5. TypeOK
  <2>1. waitq \in [Strands -> Seq(Fibers)] /\ wakeList \in [Threads -> Seq(Fibers)]
    BY ONLY <1>1
  <2>2. /\ active \in [Strands -> Fibers \cup {NoFiber}] /\ readyStrands \in SUBSET Strands
        /\ state \in [Fibers -> {"Ready", "Running", "Parked", "Recyclable"}]
        /\ homeStrand \in [Fibers -> Strands \cup {NoStrand}] /\ awaited \in SUBSET Fibers
        /\ current \in [Threads -> Fibers \cup {NoFiber}]
        /\ switched \in [Threads -> Fibers \cup {NoFiber}]
        /\ pc \in [Fibers -> Pcs]
    BY ONLY <1>1, Zenon DEF Pcs
  <2>3. QED
    BY ONLY <1>1, <1>2, <1>3, <2>1, <2>2, Zenon DEF TypeOK
<1>6. /\ current[t] = NoFiber /\ switched[t] = NoFiber /\ wakeList[t] = <<>> /\ ready[t] = Spawned[t]
      /\ \A s \in Strands : active[s] = NoFiber /\ waitq[s] = <<>>
      /\ \A f \in Fibers : /\ state[f] = "Ready" /\ homeStrand[f] = NoStrand /\ pc[f] = "enter"
                           /\ target[f] \in Strands /\ f # NoFiber
  BY ONLY <1>1, <1>2, Threads = {t}, Zenon
<1>7. (\A f : ~In(f, <<>>)) /\ Distinct(<<>>)
  BY ShortFacts, Zenon
<1>8. \A f \in Fibers : FiberInv(t, f)
  <2>1. SUFFICES ASSUME NEW f \in Fibers PROVE FiberInv(t, f)
    OBVIOUS
  <2>2. PlaceOf(t, f)
    BY ONLY <1>2, <1>6, f \in Fibers, Zenon DEF PlaceOf
  <2>3. StrandOf(f)
    BY ONLY <1>6, <1>7, f \in Fibers, Zenon DEF StrandOf, OutsidePcs
  <2>4. CareOf(t, f)
    BY ONLY <1>1, <1>6, <1>7, f \in Fibers, Zenon DEF CareOf
  <2>5. QED
    BY ONLY <2>2, <2>3, <2>4, Zenon DEF FiberInv
<1>9. \A s \in Strands : StrandInv(s)
  BY ONLY <1>1, <1>6, <1>7, Zenon DEF StrandInv
<1>10. ThreadInv(t)
  BY ONLY <1>4, <1>6, <1>7, Zenon DEF ThreadInv
<1>11. QED
  BY ONLY <1>5, <1>8, <1>9, <1>10, Zenon DEF IInv

LEMMA InvariantHolds ==
    ASSUME NEW CONSTANT t, Threads = {t}
    PROVE  Spec => []IInv(t)
<1>1. Init => IInv(t)
  BY InitIInv, Zenon
<1>2. IInv(t) /\ [Next]_vars => IInv(t)'
  BY Inductive, Zenon
<1>3. QED
  BY <1>1, <1>2, PTL DEF Spec

-----------------------------------------------------------------------------
(* What the invariant says of the active fiber of a strand. *)
LEMMA ActiveFacts ==
    ASSUME NEW t, IInv(t), NEW s \in Strands, NEW f, f = active[s], f # NoFiber
    PROVE  /\ f \in Fibers
           /\ state[f] = "Ready" =>
                 In(f, ready[t]) /\ current[t] # f /\ ~GivesUpStrand(f) /\ s \notin readyStrands
           /\ state[f] = "Running" =>
                 ~In(f, ready[t]) /\ current[t] = f /\ s \notin readyStrands
           /\ state[f] \in {"Parked", "Recyclable"} =>
                 /\ ~In(f, ready[t]) /\ current[t] # f
                 /\ s \notin readyStrands => switched[t] = f /\ GivesUpStrand(f)
                 /\ s \in readyStrands => switched[t] # f
           /\ state[f] \in {"Ready", "Running", "Parked", "Recyclable"}
<1>1. TypeOK /\ \A g \in Fibers : FiberInv(t, g)
  BY Zenon DEF IInv
<1>2. f \in Fibers
  BY ONLY <1>1, f = active[s], f # NoFiber, s \in Strands, Zenon DEF TypeOK
<1>3. PlaceOf(t, f) /\ StrandOf(f) /\ CareOf(t, f)
  BY ONLY <1>1, <1>2, Zenon DEF FiberInv
<1>4. target[f] = s /\ ~In(f, waitq[s]) /\ active[target[f]] = f
  BY ONLY <1>3, f = active[s], s \in Strands, Zenon DEF StrandOf
<1>5. state[f] = "Ready" =>
         In(f, ready[t]) /\ current[t] # f /\ ~GivesUpStrand(f) /\ s \notin readyStrands
  BY ONLY <1>3, <1>4, Zenon DEF PlaceOf, CareOf, GivesUpStrand
<1>6. state[f] = "Running" =>
         ~In(f, ready[t]) /\ current[t] = f /\ s \notin readyStrands
  BY ONLY <1>3, <1>4, Zenon DEF PlaceOf, CareOf
<1>7. ASSUME state[f] \in {"Parked", "Recyclable"}
      PROVE  /\ ~In(f, ready[t]) /\ current[t] # f
             /\ s \notin readyStrands => switched[t] = f /\ GivesUpStrand(f)
             /\ s \in readyStrands => switched[t] # f
  <2>1. ~In(f, ready[t]) /\ current[t] # f
    BY ONLY <1>3, <1>7, Zenon DEF PlaceOf
  <2>2. switched[t] = f <=> s \notin readyStrands
    BY ONLY <1>3, <1>4, <1>7, Zenon DEF CareOf
  <2>3. ASSUME switched[t] = f PROVE GivesUpStrand(f)
    <3>1. pc[f] \in {"asleep", "done"}
      BY ONLY <1>3, <1>4, <1>7, <2>3, Zenon DEF PlaceOf, StrandOf
    <3>2. homeStrand[f] = target[f]
      BY ONLY <1>3, <3>1, Zenon DEF StrandOf, OutsidePcs
    <3>3. s # NoStrand
      BY StrandAssumption, Zenon DEF StrandAssumption
    <3>4. QED
      BY ONLY <1>4, <1>7, <3>2, <3>3, Zenon DEF GivesUpStrand
  <2>4. QED
    BY ONLY <2>1, <2>2, <2>3, Zenon
<1>8. state[f] \in {"Ready", "Running", "Parked", "Recyclable"}
  BY ONLY <1>1, <1>2, Zenon DEF TypeOK
<1>9. QED
  BY ONLY <1>2, <1>5, <1>6, <1>7, <1>8, Zenon

LEMMA ScheduledOnce ==
    ASSUME NEW t, Threads = {t}, IInv(t)
    PROVE  ActiveIsScheduledOnce
<1>1. TypeOK /\ Distinct(ready[t])
  BY Zenon DEF IInv, ThreadInv
<1>2. ASSUME NEW s \in Strands, active[s] # NoFiber
      PROVE  \E h \in HoldersOf(s) : HoldersOf(s) = {h}
  <2> DEFINE f == active[s]
             places == {<<"ready", t, i>> : i \in {j \in DOMAIN ready[t] : ready[t][j] = f}}
             running == IF current[t] = f \/ (switched[t] = f /\ GivesUpStrand(f))
                        THEN {<<"running", t, 0>>} ELSE {}
             reactor == IF s \in readyStrands THEN {<<"reactor", s, 0>>} ELSE {}
  <2>1. /\ f \in Fibers
        /\ state[f] = "Ready" =>
              In(f, ready[t]) /\ current[t] # f /\ ~GivesUpStrand(f) /\ s \notin readyStrands
        /\ state[f] = "Running" =>
              ~In(f, ready[t]) /\ current[t] = f /\ s \notin readyStrands
        /\ state[f] \in {"Parked", "Recyclable"} =>
              /\ ~In(f, ready[t]) /\ current[t] # f
              /\ s \notin readyStrands => switched[t] = f /\ GivesUpStrand(f)
              /\ s \in readyStrands => switched[t] # f
        /\ state[f] \in {"Ready", "Running", "Parked", "Recyclable"}
    BY <1>2, ActiveFacts, Zenon
  <2>2. HoldersOf(s) = places \cup running \cup reactor
    <3>1. UNION {{<<"ready", u, i>> : i \in {j \in DOMAIN ready[u] : ready[u][j] = f}} : u \in Threads}
             = places
      BY ONLY Threads = {t}, Zenon
    <3>2. {<<"running", u, 0>> :
             u \in {v \in Threads : current[v] = f \/ (switched[v] = f /\ GivesUpStrand(f))}}
             = running
      BY ONLY Threads = {t}, Zenon
    <3>3. QED
      BY ONLY <3>1, <3>2, Zenon DEF HoldersOf
  <2>3. ~In(f, ready[t]) => places = {}
    BY Zenon DEF In
  <2>4. In(f, ready[t]) => \E x : places = {x}
    <3>1. SUFFICES ASSUME In(f, ready[t]) PROVE \E x : places = {x}
      OBVIOUS
    <3>2. PICK i \in DOMAIN ready[t] : ready[t][i] = f
      BY ONLY <3>1, Zenon DEF In
    <3>3. \A j \in DOMAIN ready[t] : ready[t][j] = f => j = i
      BY ONLY <1>1, <3>2, Zenon DEF Distinct
    <3>4. places = {<<"ready", t, i>>}
      BY ONLY <3>2, <3>3, Zenon
    <3>5. QED
      BY ONLY <3>4, Zenon
  <2>5. SUFFICES \E x : places \cup running \cup reactor = {x}
    BY <2>2, Zenon
  <2>6. CASE state[f] = "Ready"
    <3>1. (\E x : places = {x}) /\ running = {} /\ reactor = {}
      BY ONLY <2>1, <2>4, <2>6, Zenon
    <3>2. QED
      BY ONLY <3>1, Zenon
  <2>7. CASE state[f] = "Running"
    <3>1. places = {} /\ running = {<<"running", t, 0>>} /\ reactor = {}
      BY ONLY <2>1, <2>3, <2>7, Zenon
    <3>2. QED
      BY ONLY <3>1, Zenon
  <2>8. CASE state[f] \in {"Parked", "Recyclable"} /\ s \in readyStrands
    <3>1. places = {} /\ running = {} /\ reactor = {<<"reactor", s, 0>>}
      BY ONLY <2>1, <2>3, <2>8, Zenon
    <3>2. QED
      BY ONLY <3>1, Zenon
  <2>9. CASE state[f] \in {"Parked", "Recyclable"} /\ s \notin readyStrands
    <3>1. places = {} /\ running = {<<"running", t, 0>>} /\ reactor = {}
      BY ONLY <2>1, <2>3, <2>9, Zenon
    <3>2. QED
      BY ONLY <3>1, Zenon
  <2>10. QED
    BY ONLY <2>1, <2>6, <2>7, <2>8, <2>9, Zenon
<1>3. ASSUME NEW f \in Fibers, pc[f] \in {"body", "parking", "yielded", "waiting", "asleep"},
             state[f] \in {"Ready", "Running"}
      PROVE  active[target[f]] = f
  BY <1>3, Zenon DEF IInv, FiberInv, StrandOf
<1>4. QED
  BY <1>1, <1>2, <1>3, Zenon DEF ActiveIsScheduledOnce

(* On a reactor with one thread, a fiber that a strand has admitted is     *)
(* executing, in the ready queue once, or in the reactor's care: release,  *)
(* promotion, the drain and the pull never lose nor duplicate it, and no   *)
(* other fiber is ready or running in the strand's code.                   *)
THEOREM StrandNeverLosesItsFiber ==
    ASSUME NEW CONSTANT t, Threads = {t}
    PROVE  Spec => []ActiveIsScheduledOnce
<1>1. IInv(t) => ActiveIsScheduledOnce
  BY ScheduledOnce, Zenon
<1>2. QED
  BY <1>1, InvariantHolds, PTL

-----------------------------------------------------------------------------
(* The order.  A step does to the watched strand what a step of the        *)
(* first-come first-served lock does.  First, how the places in a queue,   *)
(* and their order, change.                                                *)
Abstract == INSTANCE FifoLock WITH
    inside <- Inside(Watched), waiting <- Waiting(Watched),
    ahead <- Ordered(Queue(Watched)), closing <- {}

Line(q) == {q[i] : i \in DOMAIN q}

LEMMA LineAppend ==
    ASSUME NEW q \in Seq(Fibers), NEW f \in Fibers
    PROVE  /\ Line(Append(q, f)) = Line(q) \cup {f}
           /\ Ordered(Append(q, f)) = Ordered(q) \cup (Line(q) \X {f})
<1>1. PICK r : r = Append(q, f)
  BY Zenon
<1>2. PICK n : n = Len(q)
  BY Zenon
<1>3. /\ n \in Nat /\ DOMAIN q = 1..n /\ DOMAIN r = 1..(n + 1)
      /\ \A i \in 1..n : r[i] = q[i] /\ q[i] \in Fibers
      /\ r[n + 1] = f
  BY <1>1, <1>2
<1>4. \A i \in DOMAIN r : i \in DOMAIN q \/ i = n + 1
  BY ONLY <1>3
<1>5. n + 1 \in DOMAIN r /\ \A i \in DOMAIN q : i \in DOMAIN r /\ i < n + 1 /\ r[i] = q[i]
  BY ONLY <1>3
<1>6. \A i \in DOMAIN r : ~(n + 1 < i)
  BY ONLY <1>3
<1>7. Line(r) = Line(q) \cup {f}
  BY ONLY <1>3, <1>4, <1>5, Zenon DEF Line
<1>8. Ordered(r) = Ordered(q) \cup (Line(q) \X {f})
  <2>1. ASSUME NEW e \in Ordered(r)
        PROVE  e \in Ordered(q) \cup (Line(q) \X {f})
    <3>1. PICK i \in DOMAIN r, j \in DOMAIN r : i < j /\ e = <<r[i], r[j]>>
      BY ONLY <2>1, Zenon DEF Ordered
    <3>2. i \in DOMAIN q
      BY ONLY <1>4, <1>6, <3>1, Zenon
    <3>3. CASE j \in DOMAIN q
      <4>1. i < j /\ e = <<q[i], q[j]>> /\ q[i] \in Fibers /\ q[j] \in Fibers
        BY ONLY <1>3, <1>5, <3>1, <3>2, <3>3, Zenon
      <4>2. QED
        BY ONLY <3>2, <3>3, <4>1, Zenon DEF Ordered
    <3>4. CASE j = n + 1
      BY ONLY <1>3, <1>5, <3>1, <3>2, <3>4, Zenon DEF Line
    <3>5. QED
      BY ONLY <1>4, <3>3, <3>4, j \in DOMAIN r, Zenon
  <2>2. ASSUME NEW e \in Ordered(q)
        PROVE  e \in Ordered(r)
    <3>1. PICK i \in DOMAIN q, j \in DOMAIN q : i < j /\ e = <<q[i], q[j]>>
      BY ONLY <2>2, Zenon DEF Ordered
    <3>2. i \in DOMAIN r /\ j \in DOMAIN r /\ e = <<r[i], r[j]>> /\ e \in Fibers \X Fibers
      BY ONLY <1>3, <1>5, <3>1, Zenon
    <3>3. QED
      BY ONLY <3>1, <3>2, Zenon DEF Ordered
  <2>3. ASSUME NEW e \in Line(q) \X {f}
        PROVE  e \in Ordered(r)
    <3>1. PICK i \in DOMAIN q : e = <<q[i], f>>
      BY ONLY <2>3 DEF Line
    <3>2. /\ i \in DOMAIN r /\ n + 1 \in DOMAIN r /\ i < n + 1 /\ e = <<r[i], r[n + 1]>>
          /\ e \in Fibers \X Fibers
      BY ONLY <1>3, <1>5, <3>1, f \in Fibers, Zenon
    <3>3. QED
      BY ONLY <3>2, Zenon DEF Ordered
  <2>4. QED
    BY ONLY <2>1, <2>2, <2>3, Zenon
<1>9. QED
  BY ONLY <1>1, <1>7, <1>8, Zenon

LEMMA LineHead ==
    ASSUME NEW q \in Seq(Fibers), NEW f \in Fibers, ~In(f, q)
    PROVE  /\ Line(<<f>> \o q) \ {f} = Line(q) /\ f \in Line(<<f>> \o q)
           /\ {e \in Ordered(<<f>> \o q) : f \notin {e[1], e[2]}} = Ordered(q)
           /\ \A g : <<g, f>> \notin Ordered(<<f>> \o q)
<1>1. PICK r : r = <<f>> \o q
  BY Zenon
<1>2. PICK n : n = Len(q)
  BY Zenon
<1>3. /\ n \in Nat /\ DOMAIN q = 1..n /\ DOMAIN r = 1..(n + 1)
      /\ \A i \in 1..n : q[i] \in Fibers
      /\ r[1] = f /\ \A i \in 2..(n + 1) : r[i] = q[i - 1]
  BY <1>1, <1>2
<1>4. \A i \in DOMAIN r : i = 1 \/ (i - 1 \in DOMAIN q /\ r[i] = q[i - 1])
  BY ONLY <1>3
<1>5. \A i \in DOMAIN q : i + 1 \in DOMAIN r /\ r[i + 1] = q[i]
  BY ONLY <1>3
<1>6. \A i \in DOMAIN q : q[i] # f
  BY ~In(f, q), Zenon DEF In
<1>7. 1 \in DOMAIN r
  BY ONLY <1>3
<1>8. Line(r) \ {f} = Line(q) /\ f \in Line(r)
  <2>1. ASSUME NEW i \in DOMAIN r
        PROVE  r[i] = f \/ r[i] \in Line(q)
    <3>1. CASE i = 1
      BY ONLY <1>3, <3>1, Zenon
    <3>2. CASE i # 1
      BY ONLY <1>4, <3>2, i \in DOMAIN r, Zenon DEF Line
    <3>3. QED
      BY ONLY <3>1, <3>2, Zenon
  <2>2. ASSUME NEW i \in DOMAIN q
        PROVE  q[i] # f /\ q[i] \in Line(r)
    <3>1. i + 1 \in DOMAIN r /\ r[i + 1] = q[i]
      BY ONLY <1>5, i \in DOMAIN q, Zenon
    <3>2. QED
      BY ONLY <1>6, <3>1, i \in DOMAIN q, Zenon DEF Line
  <2>3. f \in Line(r)
    BY ONLY <1>3, <1>7, Zenon DEF Line
  <2>4. (\A x \in Line(r) : x = f \/ x \in Line(q)) /\ \A x \in Line(q) : x # f /\ x \in Line(r)
    BY ONLY <2>1, <2>2, Zenon DEF Line
  <2>5. QED
    BY ONLY <2>3, <2>4, Zenon
<1>9. \A g : <<g, f>> \notin Ordered(r)
  <2>1. SUFFICES ASSUME NEW g, <<g, f>> \in Ordered(r) PROVE FALSE
    OBVIOUS
  <2>2. PICK i \in DOMAIN r, j \in DOMAIN r : i < j /\ <<g, f>> = <<r[i], r[j]>>
    BY ONLY <2>1, Zenon DEF Ordered
  <2>3. j # 1
    BY ONLY <1>3, <2>2
  <2>4. r[j] # f
    BY ONLY <1>4, <1>6, <2>3, j \in DOMAIN r, Zenon
  <2>5. QED
    BY ONLY <2>2, <2>4, Zenon
<1>10. {e \in Ordered(r) : f \notin {e[1], e[2]}} = Ordered(q)
  <2>1. ASSUME NEW e \in Ordered(r), f \notin {e[1], e[2]}
        PROVE  e \in Ordered(q)
    <3>1. PICK i \in DOMAIN r, j \in DOMAIN r : i < j /\ e = <<r[i], r[j]>>
      BY ONLY <2>1, Zenon DEF Ordered
    <3>2. i # 1 /\ j # 1
      BY ONLY <1>3, <2>1, <3>1, Zenon
    <3>3. i - 1 \in DOMAIN q /\ j - 1 \in DOMAIN q /\ r[i] = q[i - 1] /\ r[j] = q[j - 1]
      BY ONLY <1>4, <3>2, i \in DOMAIN r, j \in DOMAIN r, Zenon
    <3>4. i - 1 < j - 1
      BY ONLY <1>3, <3>1
    <3>5. e \in Fibers \X Fibers /\ e = <<q[i - 1], q[j - 1]>>
      BY ONLY <1>3, <3>1, <3>3, Zenon
    <3>6. QED
      BY ONLY <3>3, <3>4, <3>5, Zenon DEF Ordered
  <2>2. ASSUME NEW e \in Ordered(q)
        PROVE  e \in Ordered(r) /\ f \notin {e[1], e[2]}
    <3>1. PICK i \in DOMAIN q, j \in DOMAIN q : i < j /\ e = <<q[i], q[j]>>
      BY ONLY <2>2, Zenon DEF Ordered
    <3>2. i + 1 \in DOMAIN r /\ j + 1 \in DOMAIN r /\ e = <<r[i + 1], r[j + 1]>>
      BY ONLY <1>5, <3>1, Zenon
    <3>3. i + 1 < j + 1
      BY ONLY <1>3, <3>1
    <3>4. e \in Fibers \X Fibers /\ f # e[1] /\ f # e[2]
      BY ONLY <1>3, <1>6, <3>1, Zenon
    <3>5. QED
      BY ONLY <3>2, <3>3, <3>4, Zenon DEF Ordered
  <2>3. QED
    BY ONLY <2>1, <2>2, Zenon
<1>11. QED
  BY ONLY <1>1, <1>8, <1>9, <1>10, Zenon

(* The head in front of the tail, and a queue of one. *)
LEMMA JoinFacts ==
    ASSUME NEW q \in Seq(Fibers), NEW f \in Fibers
    PROVE  /\ q # <<>> => <<Head(q)>> \o Tail(q) = q
           /\ <<f>> \o <<>> = Append(<<>>, f)
           /\ \A a \in Fibers : <<a>> \o Append(q, f) = Append(<<a>> \o q, f) /\ <<a>> \o q \in Seq(Fibers)
           /\ \A a \in Fibers : \A g : In(g, <<a>> \o q) <=> In(g, q) \/ g = a
<1>1. q # <<>> => <<Head(q)>> \o Tail(q) = q
  OBVIOUS
<1>2. <<f>> \o <<>> = Append(<<>>, f)
  OBVIOUS
<1>3. ASSUME NEW a \in Fibers
      PROVE  <<a>> \o Append(q, f) = Append(<<a>> \o q, f) /\ <<a>> \o q \in Seq(Fibers)
  OBVIOUS
<1>4. ASSUME NEW a \in Fibers, NEW g
      PROVE  In(g, <<a>> \o q) <=> In(g, q) \/ g = a
  <2>1. PICK r : r = <<a>> \o q
    BY Zenon
  <2>2. PICK n : n = Len(q)
    BY Zenon
  <2>3. /\ n \in Nat /\ DOMAIN q = 1..n /\ DOMAIN r = 1..(n + 1)
        /\ r[1] = a /\ \A i \in 2..(n + 1) : r[i] = q[i - 1]
    BY <2>1, <2>2
  <2>4. \A i \in DOMAIN r : i = 1 \/ (i - 1 \in DOMAIN q /\ r[i] = q[i - 1])
    BY ONLY <2>3
  <2>5. \A i \in DOMAIN q : i + 1 \in DOMAIN r /\ r[i + 1] = q[i]
    BY ONLY <2>3
  <2>6. 1 \in DOMAIN r
    BY ONLY <2>3
  <2>7. QED
    <3>1. ASSUME In(g, r) PROVE In(g, q) \/ g = a
      <4>1. PICK i \in DOMAIN r : r[i] = g
        BY ONLY <3>1, Zenon DEF In
      <4>2. i = 1 \/ (i - 1 \in DOMAIN q /\ q[i - 1] = g)
        BY ONLY <2>4, <4>1, Zenon
      <4>3. QED
        BY ONLY <2>3, <4>1, <4>2, Zenon DEF In
    <3>2. ASSUME In(g, q) PROVE In(g, r)
      <4>1. PICK i \in DOMAIN q : q[i] = g
        BY ONLY <3>2, Zenon DEF In
      <4>2. i + 1 \in DOMAIN r /\ r[i + 1] = g
        BY ONLY <2>5, <4>1, Zenon
      <4>3. QED
        BY ONLY <4>2, Zenon DEF In
    <3>3. In(a, r)
      BY ONLY <2>3, <2>6, Zenon DEF In
    <3>4. QED
      BY ONLY <2>1, <3>1, <3>2, <3>3, Zenon
<1>5. QED
  BY ONLY <1>1, <1>2, <1>3, <1>4, Zenon

-----------------------------------------------------------------------------
(* The active fiber of the watched strand is inside, or heads the queue,   *)
(* or is on its way out.                                                   *)
Lined(t, a) == pc[a] \in {"waiting", "yielded"} \/ (pc[a] = "asleep" /\ switched[t] # a)

View(t) ==
    \A a \in Fibers \cup {NoFiber} : active[Watched] = a =>
       /\ Inside(Watched) = IF a # NoFiber /\ pc[a] \in {"body", "parking"} THEN {a} ELSE {}
       /\ Queue(Watched) = IF a # NoFiber /\ Lined(t, a) THEN <<a>> \o waitq[Watched]
                                                         ELSE waitq[Watched]
       /\ waitq[Watched] \in Seq(Fibers) /\ ~In(a, waitq[Watched])
       /\ a = NoFiber => waitq[Watched] = <<>>

LEMMA ViewHolds ==
    ASSUME NEW CONSTANT t, Threads = {t}
    PROVE  IInv(t) => View(t)
<1> SUFFICES ASSUME IInv(t), NEW a \in Fibers \cup {NoFiber}, active[Watched] = a
             PROVE  /\ Inside(Watched) = IF a # NoFiber /\ pc[a] \in {"body", "parking"} THEN {a} ELSE {}
                    /\ Queue(Watched) = IF a # NoFiber /\ Lined(t, a) THEN <<a>> \o waitq[Watched]
                                                                      ELSE waitq[Watched]
                    /\ waitq[Watched] \in Seq(Fibers) /\ ~In(a, waitq[Watched])
                    /\ a = NoFiber => waitq[Watched] = <<>>
  BY Zenon DEF View
<1>1. TypeOK /\ (\A g \in Fibers : FiberInv(t, g)) /\ \A u \in Strands : StrandInv(u)
  BY Zenon DEF IInv
<1>2. Watched \in Strands /\ NoFiber \notin Fibers /\ NoStrand \notin Strands
  BY StrandAssumption, Zenon DEF StrandAssumption
<1>3. \A g \in Fibers : PlaceOf(t, g) /\ StrandOf(g) /\ CareOf(t, g)
  BY ONLY <1>1, Zenon DEF FiberInv
<1>4. \A g \in Fibers : pc[g] \in {"body", "parking"} /\ target[g] = Watched => g = a
  BY ONLY <1>3, active[Watched] = a, Zenon DEF StrandOf
<1>5. a # NoFiber => a \in Fibers /\ target[a] = Watched
  BY ONLY <1>2, <1>3, active[Watched] = a, a \in Fibers \cup {NoFiber} DEF StrandOf
<1>6. Inside(Watched) = IF a # NoFiber /\ pc[a] \in {"body", "parking"} THEN {a} ELSE {}
  BY ONLY <1>2, <1>4, <1>5, Zenon DEF Inside
<1>7. waitq[Watched] \in Seq(Fibers)
  BY ONLY <1>1, <1>2, Zenon DEF TypeOK
<1>8. a = NoFiber => waitq[Watched] = <<>>
  BY ONLY <1>1, <1>2, active[Watched] = a, Zenon DEF StrandInv
<1>9. ~In(a, waitq[Watched])
  <2>1. CASE a = NoFiber
    BY ONLY <1>8, <2>1, ShortFacts, Zenon
  <2>2. CASE a # NoFiber
    BY ONLY <1>2, <1>3, <1>5, <2>2, active[Watched] = a, Zenon DEF StrandOf
  <2>3. QED
    BY ONLY <2>1, <2>2, Zenon
<1>10. ASSUME a # NoFiber
       PROVE  (/\ pc[a] \in {"queued", "waiting", "yielded", "asleep"}
               /\ ~ \E u \in Threads : switched[u] = a /\ GivesUpStrand(a)) <=> Lined(t, a)
  <2>1. PlaceOf(t, a) /\ StrandOf(a) /\ CareOf(t, a) /\ target[a] = Watched
    BY ONLY <1>3, <1>5, <1>10, Zenon
  <2>2. pc[a] # "queued" /\ (pc[a] = "waiting" => state[a] # "Parked")
    BY ONLY <1>2, <1>9, <2>1, active[Watched] = a, Zenon DEF StrandOf
  <2>3. pc[a] = "asleep" /\ switched[t] = a => GivesUpStrand(a)
    <3>1. SUFFICES ASSUME pc[a] = "asleep", switched[t] = a PROVE GivesUpStrand(a)
      OBVIOUS
    <3>2. state[a] = "Parked"
      BY ONLY <2>1, <3>1, Zenon DEF PlaceOf
    <3>3. homeStrand[a] = Watched
      BY ONLY <2>1, <3>1, Zenon DEF StrandOf, OutsidePcs
    <3>4. QED
      BY ONLY <1>2, <3>2, <3>3, active[Watched] = a, Zenon DEF GivesUpStrand
  <2>4. switched[t] = a /\ pc[a] \in {"waiting", "yielded"} => state[a] = "Ready"
    BY ONLY <2>1, <2>2, Zenon DEF PlaceOf
  <2>5. GivesUpStrand(a) => state[a] # "Ready"
    BY Zenon DEF GivesUpStrand
  <2>6. (\E u \in Threads : switched[u] = a /\ GivesUpStrand(a)) <=> switched[t] = a /\ GivesUpStrand(a)
    BY ONLY Threads = {t}, Zenon
  <2>7. QED
    BY ONLY <2>2, <2>3, <2>4, <2>5, <2>6, Zenon DEF Lined
<1>11. Queue(Watched) = IF a # NoFiber /\ Lined(t, a) THEN <<a>> \o waitq[Watched] ELSE waitq[Watched]
  BY ONLY <1>10, active[Watched] = a, Zenon DEF Queue
<1>12. QED
  BY ONLY <1>6, <1>7, <1>8, <1>9, <1>11, Zenon

(* The steps of the abstract lock, by what happens to the queue. *)
LEMMA Stutters ==
    ASSUME Inside(Watched)' = Inside(Watched), Queue(Watched)' = Queue(Watched)
    PROVE  UNCHANGED Abstract!lockVars
  BY Zenon DEF Abstract!lockVars, Waiting

LEMMA Arrives ==
    ASSUME NEW f \in Fibers, Queue(Watched) \in Seq(Fibers), ~In(f, Queue(Watched)),
           Inside(Watched)' = Inside(Watched), Queue(Watched)' = Append(Queue(Watched), f)
    PROVE  Abstract!Arrive(f)
<1>1. PICK q : q = Queue(Watched)
  BY Zenon
<1>2. PICK r : r = Queue(Watched)'
  BY Zenon
<1>3. Line(r) = Line(q) \cup {f} /\ Ordered(r) = Ordered(q) \cup (Line(q) \X {f})
  BY <1>1, <1>2, LineAppend
<1>4. f \notin Line(q)
  BY <1>1, Zenon DEF Line, In
<1>5. /\ Waiting(Watched) = Line(q)
      /\ Waiting(Watched)' = Line(r)
      /\ Ordered(Queue(Watched)) = Ordered(q) /\ Ordered(Queue(Watched))' = Ordered(r)
  BY ONLY <1>1, <1>2, Zenon DEF Line, Waiting
<1>6. QED
  BY ONLY Inside(Watched)' = Inside(Watched), <1>3, <1>4, <1>5, Zenon DEF Abstract!Arrive

LEMMA EntersFree ==
    ASSUME NEW f \in Fibers, Inside(Watched) = {}, Inside(Watched)' = {f},
           Queue(Watched) = <<>>, Queue(Watched)' = <<>>
    PROVE  Abstract!EnterFree(f)
<1>1. Waiting(Watched) = {}
  BY ONLY Queue(Watched) = <<>> DEF Waiting
<1>2. QED
  BY <1>1, Zenon DEF Abstract!EnterFree, Waiting

LEMMA EntersNext ==
    ASSUME NEW f \in Fibers, NEW q \in Seq(Fibers), ~In(f, q),
           Inside(Watched) = {}, Inside(Watched)' = {f},
           Queue(Watched) = <<f>> \o q, Queue(Watched)' = q
    PROVE  Abstract!EnterNext(f)
<1>1. PICK r : r = <<f>> \o q
  BY Zenon
<1>2. /\ Line(r) \ {f} = Line(q) /\ f \in Line(r)
      /\ {e \in Ordered(r) : f \notin {e[1], e[2]}} = Ordered(q)
      /\ \A g : <<g, f>> \notin Ordered(r)
  BY <1>1, LineHead, Zenon
<1>3. Queue(Watched) = r /\ Queue(Watched)' = q
  BY <1>1, Zenon
<1>4. /\ Waiting(Watched) = Line(r)
      /\ Waiting(Watched)' = Line(q)
      /\ Ordered(Queue(Watched)) = Ordered(r) /\ Ordered(Queue(Watched))' = Ordered(q)
  BY ONLY <1>3, Zenon DEF Line, Waiting
<1>5. QED
  BY ONLY Inside(Watched) = {}, Inside(Watched)' = {f}, <1>2, <1>4, Zenon
  DEF Abstract!EnterNext, Abstract!Withdraw

LEMMA Leaves ==
    ASSUME NEW f \in Fibers, Inside(Watched) = {f}, Inside(Watched)' = {},
           Queue(Watched)' = Queue(Watched)
    PROVE  Abstract!Leave(f)
  BY Zenon DEF Abstract!Leave, Waiting

-----------------------------------------------------------------------------
(* The steps of the fibers and of the loop, by what they do to the watched *)
(* strand.  The view holds before and after each of them.                  *)

(* Nothing: its queue and its active fiber stay as they are. *)
LEMMA Quiet ==
    ASSUME NEW t, View(t), View(t)', NEW a \in Fibers \cup {NoFiber}, active[Watched] = a,
           active'[Watched] = a, waitq'[Watched] = waitq[Watched],
           a # NoFiber => /\ pc'[a] \in {"body", "parking"} <=> pc[a] \in {"body", "parking"}
                          /\ Lined(t, a)' <=> Lined(t, a)
    PROVE  UNCHANGED Abstract!lockVars
<1>1. /\ Inside(Watched) = IF a # NoFiber /\ pc[a] \in {"body", "parking"} THEN {a} ELSE {}
      /\ Queue(Watched) = IF a # NoFiber /\ Lined(t, a) THEN <<a>> \o waitq[Watched]
                                                        ELSE waitq[Watched]
  BY ONLY View(t), a \in Fibers \cup {NoFiber}, active[Watched] = a, Zenon DEF View
<1>2. /\ Inside(Watched)' = IF a # NoFiber /\ pc'[a] \in {"body", "parking"} THEN {a} ELSE {}
      /\ Queue(Watched)' = IF a # NoFiber /\ Lined(t, a)' THEN <<a>> \o waitq'[Watched]
                                                          ELSE waitq'[Watched]
  BY ONLY View(t)', a \in Fibers \cup {NoFiber}, active'[Watched] = a, Zenon DEF View
<1>3. Inside(Watched)' = Inside(Watched) /\ Queue(Watched)' = Queue(Watched)
  BY <1>1, <1>2, Zenon
<1>4. QED
  BY <1>3, Stutters, Zenon

(* The active fiber of the watched strand does not move. *)
LEMMA OutOfSight ==
    ASSUME NEW t, IInv(t), View(t), View(t)',
           active'[Watched] = active[Watched], waitq'[Watched] = waitq[Watched],
           \A a \in Fibers : active[Watched] = a =>
              pc'[a] = pc[a] /\ (pc[a] = "asleep" => (switched'[t] = a <=> switched[t] = a))
    PROVE  UNCHANGED Abstract!lockVars
<1>1. PICK a : a = active[Watched]
  BY Zenon
<1>2. a \in Fibers \cup {NoFiber}
  BY <1>1, StrandAssumption DEF IInv, TypeOK, StrandAssumption
<1>3. active[Watched] = a /\ active'[Watched] = a
  BY <1>1, Zenon
<1>4. ASSUME a # NoFiber
      PROVE  /\ pc'[a] \in {"body", "parking"} <=> pc[a] \in {"body", "parking"}
             /\ Lined(t, a)' <=> Lined(t, a)
  <2>1. pc'[a] = pc[a] /\ (pc[a] = "asleep" => (switched'[t] = a <=> switched[t] = a))
    BY <1>2, <1>3, <1>4, Zenon
  <2>2. QED
    BY ONLY <2>1, Zenon DEF Lined
<1>5. QED
  BY <1>2, <1>3, <1>4, Quiet, Zenon

(* A fiber queues. *)
LEMMA JoinsTheQueue ==
    ASSUME NEW t, IInv(t), View(t), View(t)', NEW f \in Fibers, JoinQueue(Watched, f),
           \A u \in Strands : active[u] # f /\ ~In(f, waitq[u]),
           \A a \in Fibers : active[Watched] = a =>
              pc'[a] = pc[a] /\ (switched'[t] = a <=> switched[t] = a)
    PROVE  Abstract!Arrive(f)
<1>1. PICK a : a = active[Watched]
  BY Zenon
<1>2. Watched \in Strands
  BY StrandAssumption, Zenon DEF StrandAssumption
<1>3. a \in Fibers /\ a # f /\ a # NoFiber /\ active[Watched] = a /\ active'[Watched] = a
  <2>1. active[Watched] # NoFiber /\ active' = active
    BY Zenon DEF JoinQueue
  <2>2. a \in Fibers \cup {NoFiber}
    BY <1>1, <1>2, Zenon DEF IInv, TypeOK
  <2>3. QED
    BY <1>1, <1>2, <2>1, <2>2, Zenon
<1>4. PICK q : q = waitq[Watched]
  BY Zenon
<1>5. q \in Seq(Fibers) /\ ~In(f, q) /\ waitq'[Watched] = Append(q, f)
  <2>1. waitq \in [Strands -> Seq(Fibers)]
    BY Zenon DEF IInv, TypeOK
  <2>2. waitq' = [waitq EXCEPT ![Watched] = Append(@, f)]
    BY Zenon DEF JoinQueue, AppendWaiter
  <2>3. waitq'[Watched] = Append(waitq[Watched], f)
    BY ONLY <1>2, <2>1, <2>2, Zenon
  <2>4. QED
    BY <1>2, <1>4, <2>1, <2>3, Zenon
<1>6. pc'[a] = pc[a] /\ (Lined(t, a)' <=> Lined(t, a))
  <2>1. pc'[a] = pc[a] /\ (switched'[t] = a <=> switched[t] = a)
    BY <1>3, Zenon
  <2>2. QED
    BY ONLY <2>1, Zenon DEF Lined
<1>7. /\ Inside(Watched) = IF pc[a] \in {"body", "parking"} THEN {a} ELSE {}
      /\ Queue(Watched) = IF Lined(t, a) THEN <<a>> \o q ELSE q
  BY ONLY View(t), <1>3, <1>4, Zenon DEF View
<1>8. /\ Inside(Watched)' = IF pc'[a] \in {"body", "parking"} THEN {a} ELSE {}
      /\ Queue(Watched)' = IF Lined(t, a)' THEN <<a>> \o Append(q, f) ELSE Append(q, f)
  <2>1. /\ Inside(Watched)' = IF pc'[a] \in {"body", "parking"} THEN {a} ELSE {}
        /\ Queue(Watched)' = IF Lined(t, a)' THEN <<a>> \o waitq'[Watched] ELSE waitq'[Watched]
    BY ONLY View(t)', <1>3, Zenon DEF View
  <2>2. QED
    BY ONLY <1>5, <2>1, Zenon
<1>9. /\ <<a>> \o Append(q, f) = Append(<<a>> \o q, f) /\ <<a>> \o q \in Seq(Fibers)
      /\ In(f, <<a>> \o q) <=> In(f, q) \/ f = a
  <2>1. \A b \in Fibers : <<b>> \o Append(q, f) = Append(<<b>> \o q, f) /\ <<b>> \o q \in Seq(Fibers)
    BY ONLY <1>5, f \in Fibers, JoinFacts, Zenon
  <2>2. \A b \in Fibers : \A g : In(g, <<b>> \o q) <=> In(g, q) \/ g = b
    BY ONLY <1>5, f \in Fibers, JoinFacts, Zenon
  <2>3. QED
    BY ONLY <1>3, <2>1, <2>2, Zenon
<1>10. Queue(Watched) \in Seq(Fibers) /\ ~In(f, Queue(Watched))
  <2>1. CASE Lined(t, a)
    BY ONLY <1>3, <1>5, <1>7, <1>9, <2>1, Zenon
  <2>2. CASE ~Lined(t, a)
    BY ONLY <1>5, <1>7, <2>2, Zenon
  <2>3. QED
    BY ONLY <2>1, <2>2, Zenon
<1>11. Inside(Watched)' = Inside(Watched) /\ Queue(Watched)' = Append(Queue(Watched), f)
  BY ONLY <1>6, <1>7, <1>8, <1>9, Zenon
<1>12. QED
  BY ONLY <1>10, <1>11, f \in Fibers, Arrives, Zenon

(* A fiber that is not to run yet finds the strand free. *)
LEMMA ComesBackFirst ==
    ASSUME NEW t, IInv(t), View(t), View(t)', NEW f \in Fibers, BecomeActive(Watched, f), Lined(t, f)'
    PROVE  Abstract!Arrive(f)
<1>1. Watched \in Strands /\ NoFiber \notin Fibers
  BY StrandAssumption, Zenon DEF StrandAssumption
<1>2. active[Watched] = NoFiber /\ active'[Watched] = f /\ waitq' = waitq
  <2>1. active \in [Strands -> Fibers \cup {NoFiber}]
    BY Zenon DEF IInv, TypeOK
  <2>2. active[Watched] = NoFiber /\ active' = [active EXCEPT ![Watched] = f] /\ waitq' = waitq
    BY Zenon DEF BecomeActive
  <2>3. QED
    BY ONLY <1>1, <2>1, <2>2, Zenon
<1>3. Inside(Watched) = {} /\ Queue(Watched) = <<>> /\ waitq[Watched] = <<>>
  BY ONLY View(t), <1>2, Zenon DEF View
<1>4. Inside(Watched)' = {} /\ Queue(Watched)' = <<f>> \o <<>>
  <2>1. /\ Inside(Watched)' = IF f # NoFiber /\ pc'[f] \in {"body", "parking"} THEN {f} ELSE {}
        /\ Queue(Watched)' = IF f # NoFiber /\ Lined(t, f)' THEN <<f>> \o waitq'[Watched]
                                                            ELSE waitq'[Watched]
    BY ONLY View(t)', <1>2, f \in Fibers, Zenon DEF View
  <2>2. pc'[f] \notin {"body", "parking"}
    BY ONLY Lined(t, f)', Zenon DEF Lined
  <2>3. QED
    BY ONLY <1>1, <1>2, <1>3, <2>1, <2>2, f \in Fibers, Lined(t, f)', Zenon
<1>5. <<f>> \o <<>> = Append(<<>>, f) /\ <<>> \in Seq(Fibers) /\ ~In(f, <<>>)
  BY JoinFacts, ShortFacts
<1>6. /\ Queue(Watched) \in Seq(Fibers) /\ ~In(f, Queue(Watched))
      /\ Inside(Watched)' = Inside(Watched) /\ Queue(Watched)' = Append(Queue(Watched), f)
  BY ONLY <1>3, <1>4, <1>5, Zenon
<1>7. QED
  BY ONLY <1>6, f \in Fibers, Arrives, Zenon

(* The strand is passed on: its queue is as it was, with an active head. *)
LEMMA PassesOn ==
    ASSUME NEW t, t \in Threads, IInv(t), View(t)', NEW f \in Fibers, active[Watched] = f,
           ReleaseAndPromote(t, Watched, state), current[t] \in {f, NoFiber},
           switched'[t] = NoFiber, \A g \in Fibers \ {f} : pc'[g] = pc[g]
    PROVE  Inside(Watched)' = {} /\ Queue(Watched)' = waitq[Watched]
<1>1. Watched \in Strands /\ NoFiber \notin Fibers
  BY StrandAssumption, Zenon DEF StrandAssumption
<1>2. active \in [Strands -> Fibers \cup {NoFiber}] /\ waitq \in [Strands -> Seq(Fibers)]
  BY Zenon DEF IInv, TypeOK
<1>3. CASE waitq[Watched] = <<>>
  <2>1. ActiveAfterRelease(Watched) = NoFiber
    BY ONLY IInv(t), <1>1, <1>3, ReleaseFacts, Zenon
  <2>2. active' = [active EXCEPT ![Watched] = NoFiber] /\ waitq' = [waitq EXCEPT ![Watched] = <<>>]
    BY ONLY <2>1, ReleaseAndPromote(t, Watched, state), Zenon DEF ReleaseAndPromote
  <2>3. active'[Watched] = NoFiber /\ waitq'[Watched] = <<>>
    BY ONLY <1>1, <1>2, <2>2, Zenon
  <2>4. QED
    BY ONLY View(t)', <1>3, <2>3, Zenon DEF View
<1>4. CASE waitq[Watched] # <<>>
  <2>1. PICK n : n = Head(waitq[Watched])
    BY Zenon
  <2>2. PICK q : q = Tail(waitq[Watched])
    BY Zenon
  <2>3. waitq[Watched] \in Seq(Fibers)
    BY ONLY <1>1, <1>2, Zenon
  <2>4. n \in Fibers /\ In(n, waitq[Watched]) /\ <<n>> \o q = waitq[Watched] /\ n # NoFiber
    <3>1. n \in Fibers /\ In(n, waitq[Watched])
      BY ONLY <1>4, <2>1, <2>3, TailFacts, Zenon
    <3>2. <<n>> \o q = waitq[Watched]
      BY ONLY <1>4, <2>1, <2>2, <2>3, <3>1, JoinFacts, Zenon
    <3>3. QED
      BY ONLY <1>1, <3>1, <3>2, Zenon
  <2>5. /\ ActiveAfterRelease(Watched) = n
        /\ SubSeq(waitq[Watched], NextWaiter(Watched) + 1, Len(waitq[Watched])) = q
    BY ONLY IInv(t), <1>1, <1>4, <2>1, <2>2, ReleaseFacts, Zenon
  <2>6. active' = [active EXCEPT ![Watched] = n] /\ waitq' = [waitq EXCEPT ![Watched] = q]
    BY ONLY <2>4, <2>5, ReleaseAndPromote(t, Watched, state), Zenon DEF ReleaseAndPromote
  <2>7. active'[Watched] = n /\ waitq'[Watched] = q
    BY ONLY <1>1, <1>2, <2>6, Zenon
  <2>8. PlaceOf(t, n) /\ StrandOf(n)
    BY ONLY IInv(t), <2>4, Zenon DEF IInv, FiberInv
  <2>9. n # f /\ pc[n] \in {"waiting", "asleep"}
    <3>1. n # f
      BY ONLY <1>1, <2>4, <2>8, active[Watched] = f, Zenon DEF StrandOf
    <3>2. current[t] # n
      BY ONLY <2>4, <3>1, current[t] \in {f, NoFiber}, Zenon
    <3>3. QED
      BY ONLY <1>1, <2>4, <2>8, <3>1, <3>2, Zenon DEF StrandOf, PlaceOf
  <2>10. pc'[n] = pc[n] /\ switched'[t] # n
    BY <2>4, <2>9, Zenon
  <2>11. Lined(t, n)' /\ pc'[n] \notin {"body", "parking"}
    BY ONLY <2>9, <2>10, Zenon DEF Lined
  <2>12. /\ Inside(Watched)' = IF n # NoFiber /\ pc'[n] \in {"body", "parking"} THEN {n} ELSE {}
         /\ Queue(Watched)' = IF n # NoFiber /\ Lined(t, n)' THEN <<n>> \o waitq'[Watched]
                                                             ELSE waitq'[Watched]
    BY ONLY View(t)', <2>4, <2>7, Zenon DEF View
  <2>13. QED
    BY ONLY <2>4, <2>7, <2>11, <2>12, Zenon
<1>5. QED
  BY ONLY <1>3, <1>4, Zenon

-----------------------------------------------------------------------------
(* One lemma for each action.                                              *)

LEMMA TypeFacts ==
    ASSUME NEW t, IInv(t)
    PROVE  /\ Watched \in Strands /\ NoFiber \notin Fibers
           /\ active \in [Strands -> Fibers \cup {NoFiber}] /\ waitq \in [Strands -> Seq(Fibers)]
           /\ pc \in [Fibers -> Pcs] /\ switched \in [Threads -> Fibers \cup {NoFiber}]
           /\ active[Watched] \in Fibers \cup {NoFiber}
<1>1. Watched \in Strands /\ NoFiber \notin Fibers
  BY StrandAssumption, Zenon DEF StrandAssumption
<1>2. /\ active \in [Strands -> Fibers \cup {NoFiber}] /\ waitq \in [Strands -> Seq(Fibers)]
      /\ pc \in [Fibers -> Pcs] /\ switched \in [Threads -> Fibers \cup {NoFiber}]
  BY Zenon DEF IInv, TypeOK
<1>3. QED
  BY ONLY <1>1, <1>2, Zenon

LEMMA EnterRefines ==
    ASSUME NEW t \in Threads, IInv(t), View(t), View(t)', NEW f \in Fibers, Enter(t, f)
    PROVE  Abstract!EnterFree(f) \/ Abstract!Arrive(f) \/ UNCHANGED Abstract!lockVars
<1>1. current[t] = f /\ pc[f] = "enter"
  BY Zenon DEF Enter, At
<1>2. target[f] \in Strands /\ \A u \in Strands : active[u] # f /\ ~In(f, waitq[u])
  BY ONLY IInv(t), f \in Fibers, <1>1, RunningFacts
<1>3. /\ Watched \in Strands /\ NoFiber \notin Fibers
      /\ active \in [Strands -> Fibers \cup {NoFiber}] /\ waitq \in [Strands -> Seq(Fibers)]
      /\ pc \in [Fibers -> Pcs]
  BY ONLY IInv(t), TypeFacts, Zenon
<1>4. switched' = switched
  BY Zenon DEF Enter, threadVars
<1>5. PICK l : pc' = [pc EXCEPT ![f] = l]
  BY Zenon DEF Enter, Goto
<1>6. \A a \in Fibers : active[Watched] = a => pc'[a] = pc[a] /\ (switched'[t] = a <=> switched[t] = a)
  BY ONLY <1>2, <1>3, <1>4, <1>5, Zenon
<1>7. (BecomeActive(target[f], f) /\ Goto(f, "body")) \/ JoinQueue(target[f], f)
  BY Zenon DEF Enter
<1>8. CASE target[f] # Watched
  <2>1. active'[Watched] = active[Watched] /\ waitq'[Watched] = waitq[Watched]
    BY ONLY <1>2, <1>3, <1>7, <1>8, Zenon DEF BecomeActive, JoinQueue, AppendWaiter
  <2>2. QED
    BY ONLY IInv(t), View(t), View(t)', <1>6, <2>1, OutOfSight, Zenon
<1>9. CASE target[f] = Watched /\ JoinQueue(target[f], f)
  <2>1. JoinQueue(Watched, f)
    BY ONLY <1>9, Zenon
  <2>2. QED
    BY ONLY IInv(t), View(t), View(t)', f \in Fibers, <1>2, <1>6, <2>1, JoinsTheQueue, Zenon
<1>10. CASE target[f] = Watched /\ BecomeActive(target[f], f) /\ Goto(f, "body")
  <2>1. active[Watched] = NoFiber /\ active'[Watched] = f /\ waitq' = waitq
    BY ONLY <1>3, <1>10, Zenon DEF BecomeActive
  <2>2. pc'[f] = "body"
    BY ONLY <1>3, <1>10, f \in Fibers, Zenon DEF Goto
  <2>3. Inside(Watched) = {} /\ Queue(Watched) = <<>> /\ waitq[Watched] = <<>>
    BY ONLY View(t), <2>1, Zenon DEF View
  <2>4. /\ Inside(Watched)' = IF f # NoFiber /\ pc'[f] \in {"body", "parking"} THEN {f} ELSE {}
        /\ Queue(Watched)' = IF f # NoFiber /\ Lined(t, f)' THEN <<f>> \o waitq'[Watched]
                                                            ELSE waitq'[Watched]
    BY ONLY View(t)', <2>1, f \in Fibers, Zenon DEF View
  <2>5. ~Lined(t, f)'
    BY ONLY <2>2, Zenon DEF Lined
  <2>6. Inside(Watched)' = {f} /\ Queue(Watched)' = <<>>
    BY ONLY <1>3, <2>1, <2>2, <2>3, <2>4, <2>5, f \in Fibers, Zenon
  <2>7. QED
    BY ONLY <2>3, <2>6, f \in Fibers, EntersFree, Zenon
<1>11. QED
  BY ONLY <1>7, <1>8, <1>9, <1>10, Zenon

LEMMA EnterParkRefines ==
    ASSUME NEW t \in Threads, IInv(t), View(t), View(t)', NEW f \in Fibers, EnterPark(t, f)
    PROVE  UNCHANGED Abstract!lockVars
<1>1. current[t] = f /\ pc[f] = "queued"
  BY Zenon DEF EnterPark, At
<1>2. f # NoFiber /\ switched[t] = NoFiber /\ \A u \in Strands : active[u] # f
  BY ONLY IInv(t), f \in Fibers, <1>1, RunningFacts
<1>3. /\ Watched \in Strands /\ NoFiber \notin Fibers
      /\ pc \in [Fibers -> Pcs] /\ switched \in [Threads -> Fibers \cup {NoFiber}]
  BY ONLY IInv(t), TypeFacts, Zenon
<1>4. /\ active' = active /\ waitq' = waitq /\ pc' = [pc EXCEPT ![f] = "waiting"]
      /\ switched' = [switched EXCEPT ![t] = f]
  BY Zenon DEF EnterPark, Goto, SwitchOut, strandVars
<1>5. \A a \in Fibers : active[Watched] = a => pc'[a] = pc[a] /\ (switched'[t] = a <=> switched[t] = a)
  BY ONLY <1>2, <1>3, <1>4, t \in Threads, Zenon
<1>6. QED
  BY ONLY IInv(t), View(t), View(t)', <1>4, <1>5, OutOfSight, Zenon

LEMMA ReturnRefines ==
    ASSUME NEW t \in Threads, IInv(t), View(t), View(t)', NEW f \in Fibers, Return(t, f)
    PROVE  Abstract!EnterNext(f) \/ UNCHANGED Abstract!lockVars
<1>1. current[t] = f /\ pc[f] \in {"waiting", "yielded", "asleep"}
  BY Zenon DEF Return
<1>2. /\ f # NoFiber /\ switched[t] = NoFiber /\ active[target[f]] = f
      /\ \A u \in Strands : active[u] = f => u = target[f]
  BY ONLY IInv(t), f \in Fibers, <1>1, RunningFacts
<1>3. Watched \in Strands /\ pc \in [Fibers -> Pcs]
  BY ONLY IInv(t), TypeFacts, Zenon
<1>4. active' = active /\ waitq' = waitq /\ pc' = [pc EXCEPT ![f] = "body"] /\ switched' = switched
  BY Zenon DEF Return, Goto, strandVars, threadVars
<1>5. CASE target[f] # Watched
  <2>1. \A a \in Fibers : active[Watched] = a => pc'[a] = pc[a] /\ (switched'[t] = a <=> switched[t] = a)
    BY ONLY <1>2, <1>3, <1>4, <1>5, Zenon
  <2>2. QED
    BY ONLY IInv(t), View(t), View(t)', <1>4, <2>1, OutOfSight, Zenon
<1>6. CASE target[f] = Watched
  <2>1. PICK q : q = waitq[Watched]
    BY Zenon
  <2>2. active[Watched] = f /\ active'[Watched] = f /\ waitq'[Watched] = q /\ pc'[f] = "body"
    BY ONLY <1>2, <1>3, <1>4, <1>6, <2>1, f \in Fibers, Zenon
  <2>3. /\ Inside(Watched) = IF f # NoFiber /\ pc[f] \in {"body", "parking"} THEN {f} ELSE {}
        /\ Queue(Watched) = IF f # NoFiber /\ Lined(t, f) THEN <<f>> \o q ELSE q
        /\ q \in Seq(Fibers) /\ ~In(f, q)
    BY ONLY View(t), <2>1, <2>2, f \in Fibers, Zenon DEF View
  <2>4. /\ Inside(Watched)' = IF f # NoFiber /\ pc'[f] \in {"body", "parking"} THEN {f} ELSE {}
        /\ Queue(Watched)' = IF f # NoFiber /\ Lined(t, f)' THEN <<f>> \o waitq'[Watched]
                                                            ELSE waitq'[Watched]
    BY ONLY View(t)', <2>2, f \in Fibers, Zenon DEF View
  <2>5. Lined(t, f) /\ ~Lined(t, f)'
    BY ONLY <1>1, <1>2, <2>2, Zenon DEF Lined
  <2>6. Inside(Watched) = {} /\ Inside(Watched)' = {f}
    BY ONLY <1>1, <1>2, <2>2, <2>3, <2>4, Zenon
  <2>7. Queue(Watched) = <<f>> \o q /\ Queue(Watched)' = q
    BY ONLY <1>2, <2>2, <2>3, <2>4, <2>5, Zenon
  <2>8. QED
    BY ONLY <2>3, <2>6, <2>7, f \in Fibers, EntersNext, Zenon
<1>7. QED
  BY ONLY <1>5, <1>6, Zenon

LEMMA RegisterRefines ==
    ASSUME NEW t \in Threads, IInv(t), View(t), View(t)', NEW f \in Fibers, Register(t, f)
    PROVE  UNCHANGED Abstract!lockVars
<1>1. pc[f] = "body" /\ pc \in [Fibers -> Pcs]
  BY Zenon DEF Register, At, IInv, TypeOK
<1>2. active' = active /\ waitq' = waitq /\ pc' = [pc EXCEPT ![f] = "parking"] /\ switched' = switched
  BY Zenon DEF Register, Goto, strandVars, threadVars
<1>3. PICK a : a = active[Watched]
  BY Zenon
<1>4. a \in Fibers \cup {NoFiber}
  BY ONLY IInv(t), <1>3, TypeFacts, Zenon
<1>5. a # NoFiber => /\ pc'[a] \in {"body", "parking"} <=> pc[a] \in {"body", "parking"}
                     /\ Lined(t, a)' <=> Lined(t, a)
  BY ONLY <1>1, <1>2, <1>4, Zenon DEF Lined
<1>6. QED
  BY ONLY View(t), View(t)', <1>2, <1>3, <1>4, <1>5, Quiet

(* A fiber that parks or finishes is out at once; its strand is passed on  *)
(* by the loop.                                                            *)
LEMMA SwitchRefines ==
    ASSUME NEW t \in Threads, IInv(t), View(t), View(t)', NEW f \in Fibers,
           current[t] = f, pc[f] \in {"body", "parking"}, SwitchOut(t, f),
           NEW l \in {"asleep", "done"}, Goto(f, l), UNCHANGED strandVars
    PROVE  Abstract!Leave(f) \/ UNCHANGED Abstract!lockVars
<1>1. /\ f # NoFiber /\ switched[t] = NoFiber /\ active[target[f]] = f
      /\ \A u \in Strands : active[u] = f => u = target[f]
  BY ONLY IInv(t), f \in Fibers, current[t] = f, pc[f] \in {"body", "parking"}, RunningFacts
<1>2. /\ Watched \in Strands /\ NoFiber \notin Fibers
      /\ pc \in [Fibers -> Pcs] /\ switched \in [Threads -> Fibers \cup {NoFiber}]
  BY ONLY IInv(t), TypeFacts, Zenon
<1>3. /\ active' = active /\ waitq' = waitq /\ pc' = [pc EXCEPT ![f] = l]
      /\ switched' = [switched EXCEPT ![t] = f]
  BY Zenon DEF Goto, SwitchOut, strandVars
<1>4. CASE target[f] # Watched
  <2>1. \A a \in Fibers : active[Watched] = a => pc'[a] = pc[a] /\ (switched'[t] = a <=> switched[t] = a)
    BY ONLY <1>1, <1>2, <1>3, <1>4, t \in Threads, Zenon
  <2>2. QED
    BY ONLY IInv(t), View(t), View(t)', <1>3, <2>1, OutOfSight, Zenon
<1>5. CASE target[f] = Watched
  <2>1. active[Watched] = f /\ active'[Watched] = f /\ pc'[f] = l /\ switched'[t] = f
    BY ONLY <1>1, <1>2, <1>3, <1>5, f \in Fibers, t \in Threads, Zenon
  <2>2. /\ Inside(Watched) = IF f # NoFiber /\ pc[f] \in {"body", "parking"} THEN {f} ELSE {}
        /\ Queue(Watched) = IF f # NoFiber /\ Lined(t, f) THEN <<f>> \o waitq[Watched]
                                                          ELSE waitq[Watched]
    BY ONLY View(t), <2>1, f \in Fibers, Zenon DEF View
  <2>3. /\ Inside(Watched)' = IF f # NoFiber /\ pc'[f] \in {"body", "parking"} THEN {f} ELSE {}
        /\ Queue(Watched)' = IF f # NoFiber /\ Lined(t, f)' THEN <<f>> \o waitq'[Watched]
                                                            ELSE waitq'[Watched]
    BY ONLY View(t)', <2>1, f \in Fibers, Zenon DEF View
  <2>4. ~Lined(t, f) /\ ~Lined(t, f)'
    BY ONLY <2>1, pc[f] \in {"body", "parking"}, l \in {"asleep", "done"}, Zenon DEF Lined
  <2>5. Inside(Watched) = {f} /\ Inside(Watched)' = {}
    BY ONLY <1>1, <2>1, <2>2, <2>3, pc[f] \in {"body", "parking"}, l \in {"asleep", "done"}, Zenon
  <2>6. Queue(Watched)' = Queue(Watched)
    BY ONLY <1>3, <2>2, <2>3, <2>4, Zenon
  <2>7. QED
    BY ONLY <2>5, <2>6, f \in Fibers, Leaves, Zenon
<1>6. QED
  BY ONLY <1>4, <1>5, Zenon

(* A fiber that yields, or goes to another strand, passes its strand on. *)
LEMMA ReleaseRefines ==
    ASSUME NEW t \in Threads, IInv(t), View(t), View(t)', NEW f \in Fibers, At(t, f, "body"),
           ReleaseAndPromote(t, target[f], state), NEW l, Goto(f, l), switched' = switched
    PROVE  Abstract!Leave(f) \/ UNCHANGED Abstract!lockVars
<1>1. current[t] = f /\ pc[f] = "body"
  BY Zenon DEF At
<1>2. /\ f # NoFiber /\ switched[t] = NoFiber /\ active[target[f]] = f /\ target[f] \in Strands
      /\ \A u \in Strands : active[u] = f => u = target[f]
  BY ONLY IInv(t), f \in Fibers, <1>1, RunningFacts
<1>3. /\ Watched \in Strands /\ pc \in [Fibers -> Pcs]
      /\ active \in [Strands -> Fibers \cup {NoFiber}] /\ waitq \in [Strands -> Seq(Fibers)]
  BY ONLY IInv(t), TypeFacts, Zenon
<1>4. \A g \in Fibers \ {f} : pc'[g] = pc[g]
  BY ONLY <1>3, Goto(f, l), Zenon DEF Goto
<1>5. CASE target[f] # Watched
  <2>1. active'[Watched] = active[Watched] /\ waitq'[Watched] = waitq[Watched]
    BY ONLY ReleaseAndPromote(t, target[f], state), <1>2, <1>3, <1>5, Zenon DEF ReleaseAndPromote
  <2>2. \A a \in Fibers : active[Watched] = a => pc'[a] = pc[a] /\ (switched'[t] = a <=> switched[t] = a)
    BY ONLY <1>2, <1>3, <1>4, <1>5, switched' = switched, Zenon
  <2>3. QED
    BY ONLY IInv(t), View(t), View(t)', <2>1, <2>2, OutOfSight, Zenon
<1>6. CASE target[f] = Watched
  <2>1. active[Watched] = f /\ ReleaseAndPromote(t, Watched, state)
    BY ONLY <1>2, <1>6, ReleaseAndPromote(t, target[f], state), Zenon
  <2>2. current[t] \in {f, NoFiber} /\ switched'[t] = NoFiber
    BY ONLY <1>1, <1>2, switched' = switched, Zenon
  <2>3. Inside(Watched)' = {} /\ Queue(Watched)' = waitq[Watched]
    BY ONLY IInv(t), View(t)', t \in Threads, f \in Fibers, <1>4, <2>1, <2>2, PassesOn, Zenon
  <2>4. /\ Inside(Watched) = IF f # NoFiber /\ pc[f] \in {"body", "parking"} THEN {f} ELSE {}
        /\ Queue(Watched) = IF f # NoFiber /\ Lined(t, f) THEN <<f>> \o waitq[Watched]
                                                          ELSE waitq[Watched]
    BY ONLY View(t), <2>1, f \in Fibers, Zenon DEF View
  <2>5. ~Lined(t, f)
    BY ONLY <1>1, Zenon DEF Lined
  <2>6. Inside(Watched) = {f} /\ Queue(Watched)' = Queue(Watched)
    BY ONLY <1>1, <1>2, <2>3, <2>4, <2>5, Zenon
  <2>7. QED
    BY ONLY <2>3, <2>6, f \in Fibers, Leaves, Zenon
<1>7. QED
  BY ONLY <1>5, <1>6, Zenon

LEMMA YieldReenterRefines ==
    ASSUME NEW t \in Threads, IInv(t), View(t), View(t)', NEW f \in Fibers, YieldReenter(t, f)
    PROVE  Abstract!Arrive(f) \/ UNCHANGED Abstract!lockVars
<1>1. current[t] = f /\ pc[f] = "reenter"
  BY Zenon DEF YieldReenter, At
<1>2. /\ f # NoFiber /\ switched[t] = NoFiber /\ target[f] \in Strands
      /\ \A u \in Strands : active[u] # f /\ ~In(f, waitq[u])
  BY ONLY IInv(t), f \in Fibers, <1>1, RunningFacts
<1>3. /\ Watched \in Strands /\ NoFiber \notin Fibers
      /\ active \in [Strands -> Fibers \cup {NoFiber}] /\ waitq \in [Strands -> Seq(Fibers)]
      /\ pc \in [Fibers -> Pcs] /\ switched \in [Threads -> Fibers \cup {NoFiber}]
  BY ONLY IInv(t), TypeFacts, Zenon
<1>4. \/ BecomeActive(target[f], f) /\ SwitchOut(t, f) /\ Goto(f, "yielded")
      \/ JoinQueue(target[f], f) /\ switched' = switched /\ Goto(f, "queued")
  BY Zenon DEF YieldReenter
<1>5. \A a \in Fibers : active[Watched] = a => pc'[a] = pc[a] /\ (switched'[t] = a <=> switched[t] = a)
  BY ONLY <1>2, <1>3, <1>4, t \in Threads, Zenon DEF SwitchOut, Goto
<1>6. CASE target[f] # Watched
  <2>1. active'[Watched] = active[Watched] /\ waitq'[Watched] = waitq[Watched]
    BY ONLY <1>2, <1>3, <1>4, <1>6, Zenon DEF BecomeActive, JoinQueue, AppendWaiter
  <2>2. QED
    BY ONLY IInv(t), View(t), View(t)', <1>5, <2>1, OutOfSight, Zenon
<1>7. CASE target[f] = Watched /\ JoinQueue(target[f], f)
  <2>1. JoinQueue(Watched, f)
    BY ONLY <1>7, Zenon
  <2>2. QED
    BY ONLY IInv(t), View(t), View(t)', f \in Fibers, <1>2, <1>5, <2>1, JoinsTheQueue, Zenon
<1>8. CASE target[f] = Watched /\ BecomeActive(target[f], f) /\ Goto(f, "yielded")
  <2>1. BecomeActive(Watched, f)
    BY ONLY <1>8, Zenon
  <2>2. pc'[f] = "yielded"
    BY ONLY <1>3, <1>8, f \in Fibers, Zenon DEF Goto
  <2>3. Lined(t, f)'
    BY ONLY <2>2, Zenon DEF Lined
  <2>4. QED
    BY ONLY IInv(t), View(t), View(t)', f \in Fibers, <2>1, <2>3, ComesBackFirst, Zenon
<1>9. QED
  BY ONLY <1>4, <1>6, <1>7, <1>8, Zenon

(* The loop passes the strand on after its fiber has left. *)
LEMMA AfterSwitchRefines ==
    ASSUME NEW t \in Threads, IInv(t), View(t), View(t)', AfterSwitch(t)
    PROVE  UNCHANGED Abstract!lockVars
<1>1. PICK f : f = switched[t]
  BY Zenon
<1>2. f # NoFiber /\ switched' = [switched EXCEPT ![t] = NoFiber] /\ pc' = pc
  BY <1>1, Zenon DEF AfterSwitch
<1>3. /\ Watched \in Strands /\ NoFiber \notin Fibers
      /\ active \in [Strands -> Fibers \cup {NoFiber}] /\ waitq \in [Strands -> Seq(Fibers)]
      /\ switched \in [Threads -> Fibers \cup {NoFiber}]
  BY ONLY IInv(t), TypeFacts, Zenon
<1>4. f \in Fibers /\ switched'[t] = NoFiber
  BY ONLY <1>1, <1>2, <1>3, t \in Threads, Zenon
<1>5. PlaceOf(t, f) /\ StrandOf(f) /\ CareOf(t, f) /\ target[f] \in Strands /\ ThreadInv(t)
  BY <1>4, Zenon DEF IInv, FiberInv, TypeOK
<1>6. current[t] = NoFiber
  BY ONLY <1>1, <1>2, <1>5, Zenon DEF ThreadInv
<1>7. /\ pc[f] = "asleep" => state[f] = "Parked" /\ active[target[f]] = f /\ homeStrand[f] = target[f]
      /\ \A u \in Strands : active[u] = f => u = target[f]
  <2>1. pc[f] = "asleep" => state[f] = "Parked"
    BY ONLY <1>1, <1>5, Zenon DEF PlaceOf
  <2>2. pc[f] = "asleep" => active[target[f]] = f /\ homeStrand[f] = target[f]
    BY ONLY <1>1, <1>5, Zenon DEF CareOf, StrandOf, OutsidePcs
  <2>3. \A u \in Strands : active[u] = f => u = target[f]
    BY ONLY <1>5, Zenon DEF StrandOf
  <2>4. QED
    BY ONLY <2>1, <2>2, <2>3, Zenon
<1>8. CASE GivesUpStrand(f)
  <2>1. /\ homeStrand[f] = target[f] /\ active[target[f]] = f
        /\ pc[f] \in {"asleep", "done"}
    <3>1. homeStrand[f] # NoStrand /\ active[homeStrand[f]] = f /\ state[f] \in {"Parked", "Recyclable"}
      BY ONLY <1>8, Zenon DEF GivesUpStrand
    <3>2. QED
      BY ONLY <1>1, <1>5, <3>1, Zenon DEF StrandOf, PlaceOf, OutsidePcs
  <2>2. ReleaseAndPromote(t, target[f], state)
    BY <1>1, <1>8, <2>1, Zenon DEF AfterSwitch
  <2>3. CASE target[f] # Watched
    <3>1. active'[Watched] = active[Watched] /\ waitq'[Watched] = waitq[Watched]
      BY ONLY <1>3, <1>5, <2>2, <2>3, Zenon DEF ReleaseAndPromote
    <3>2. \A a \in Fibers : active[Watched] = a => pc'[a] = pc[a] /\ (switched'[t] = a <=> switched[t] = a)
      BY ONLY <1>1, <1>2, <1>3, <1>4, <1>7, <2>3, Zenon
    <3>3. QED
      BY ONLY IInv(t), View(t), View(t)', <3>1, <3>2, OutOfSight, Zenon
  <2>4. CASE target[f] = Watched
    <3>1. active[Watched] = f /\ ReleaseAndPromote(t, Watched, state)
      BY ONLY <2>1, <2>2, <2>4, Zenon
    <3>2. current[t] \in {f, NoFiber} /\ \A g \in Fibers \ {f} : pc'[g] = pc[g]
      BY ONLY <1>2, <1>6, Zenon
    <3>3. Inside(Watched)' = {} /\ Queue(Watched)' = waitq[Watched]
      BY ONLY IInv(t), View(t)', t \in Threads, <1>4, <3>1, <3>2, PassesOn, Zenon
    <3>4. /\ Inside(Watched) = IF f # NoFiber /\ pc[f] \in {"body", "parking"} THEN {f} ELSE {}
          /\ Queue(Watched) = IF f # NoFiber /\ Lined(t, f) THEN <<f>> \o waitq[Watched]
                                                            ELSE waitq[Watched]
      BY ONLY View(t), <1>4, <3>1, Zenon DEF View
    <3>5. ~Lined(t, f)
      BY ONLY <1>1, <2>1, Zenon DEF Lined
    <3>6. Inside(Watched)' = Inside(Watched) /\ Queue(Watched)' = Queue(Watched)
      BY ONLY <2>1, <3>3, <3>4, <3>5, Zenon
    <3>7. QED
      BY ONLY <3>6, Stutters, Zenon
  <2>5. QED
    BY ONLY <2>3, <2>4, Zenon
<1>9. CASE ~GivesUpStrand(f)
  <2>1. active' = active /\ waitq' = waitq
    BY <1>1, <1>9, Zenon DEF AfterSwitch
  <2>2. pc[f] # "asleep"
    <3>1. NoStrand # target[f]
      BY <1>5, StrandAssumption, Zenon DEF StrandAssumption
    <3>2. QED
      BY ONLY <1>7, <1>9, <3>1, Zenon DEF GivesUpStrand
  <2>3. \A a \in Fibers : active[Watched] = a =>
           pc'[a] = pc[a] /\ (pc[a] = "asleep" => (switched'[t] = a <=> switched[t] = a))
    BY ONLY <1>1, <1>2, <1>3, <1>4, <2>2, Zenon
  <2>4. QED
    BY ONLY IInv(t), View(t), View(t)', <2>1, <2>3, OutOfSight, Zenon
<1>10. QED
  BY ONLY <1>8, <1>9, Zenon

(* A woken fiber arrives at its strand. *)
LEMMA DrainRefines ==
    ASSUME NEW t \in Threads, IInv(t), View(t), View(t)', Drain(t)
    PROVE  \E f \in Fibers : Abstract!Arrive(f) \/ UNCHANGED Abstract!lockVars
<1>1. PICK f : f = Head(wakeList[t])
  BY Zenon
<1>2. InLoop(t) /\ wakeList[t] # <<>> /\ pc' = pc /\ switched' = switched
  BY Zenon DEF Drain
<1>3. /\ f \in Fibers /\ f # NoFiber /\ target[f] \in Strands /\ homeStrand[f] = target[f]
      /\ state[f] = "Parked" /\ pc[f] = "asleep" /\ switched[t] # f
      /\ \A u \in Strands : active[u] # f /\ ~In(f, waitq[u])
  BY ONLY IInv(t), t \in Threads, <1>1, <1>2, DrainFacts
<1>4. /\ Watched \in Strands
      /\ active \in [Strands -> Fibers \cup {NoFiber}] /\ waitq \in [Strands -> Seq(Fibers)]
  BY ONLY IInv(t), TypeFacts, Zenon
<1>5. BecomeActive(target[f], f) \/ JoinQueue(target[f], f)
  BY <1>1, <1>3, Zenon DEF Drain
<1>6. \A a \in Fibers : active[Watched] = a => pc'[a] = pc[a] /\ (switched'[t] = a <=> switched[t] = a)
  BY ONLY <1>2, Zenon
<1>7. CASE target[f] # Watched
  <2>1. active'[Watched] = active[Watched] /\ waitq'[Watched] = waitq[Watched]
    BY ONLY <1>3, <1>4, <1>5, <1>7, Zenon DEF BecomeActive, JoinQueue, AppendWaiter
  <2>2. UNCHANGED Abstract!lockVars
    BY ONLY IInv(t), View(t), View(t)', <1>6, <2>1, OutOfSight, Zenon
  <2>3. QED
    BY ONLY <1>3, <2>2, Zenon
<1>8. CASE target[f] = Watched
  <2>1. BecomeActive(Watched, f) \/ JoinQueue(Watched, f)
    BY ONLY <1>5, <1>8, Zenon
  <2>2. Lined(t, f)'
    BY ONLY <1>2, <1>3, Zenon DEF Lined
  <2>3. BecomeActive(Watched, f) => Abstract!Arrive(f)
    BY ONLY IInv(t), View(t), View(t)', <1>3, <2>2, ComesBackFirst, Zenon
  <2>4. JoinQueue(Watched, f) => Abstract!Arrive(f)
    BY ONLY IInv(t), View(t), View(t)', <1>3, <1>6, JoinsTheQueue, Zenon
  <2>5. QED
    BY ONLY <1>3, <2>1, <2>3, <2>4, Zenon
<1>9. QED
  BY ONLY <1>7, <1>8, Zenon

(* Nobody outside a thread sees the rest. *)
LEMMA OthersRefine ==
    ASSUME NEW t, IInv(t), View(t), View(t)', UNCHANGED <<active, waitq, pc, switched>>
    PROVE  UNCHANGED Abstract!lockVars
  BY OutOfSight, Zenon

LEMMA FiberStepRefines ==
    ASSUME NEW t \in Threads, IInv(t), View(t), View(t)', NEW f \in Fibers, FiberStep(t, f)
    PROVE  Abstract!Next \/ UNCHANGED Abstract!lockVars
<1>1. ASSUME YieldRelease(t, f) \/ Sync(t, f)
      PROVE  Abstract!Leave(f) \/ UNCHANGED Abstract!lockVars
  <2>1. /\ At(t, f, "body") /\ ReleaseAndPromote(t, target[f], state) /\ switched' = switched
        /\ \E l : Goto(f, l)
    BY <1>1, Zenon DEF YieldRelease, Sync
  <2>2. QED
    BY ONLY IInv(t), View(t), View(t)', t \in Threads, f \in Fibers, <2>1, ReleaseRefines, Zenon
<1>2. ASSUME Park(t, f) \/ Finish(t, f)
      PROVE  Abstract!Leave(f) \/ UNCHANGED Abstract!lockVars
  <2>1. /\ current[t] = f /\ pc[f] \in {"body", "parking"} /\ SwitchOut(t, f)
        /\ UNCHANGED strandVars /\ \E l \in {"asleep", "done"} : Goto(f, l)
    BY <1>2, Zenon DEF Park, Finish, At
  <2>2. QED
    BY ONLY IInv(t), View(t), View(t)', t \in Threads, f \in Fibers, <2>1, SwitchRefines, Zenon
<1>3. \/ Abstract!EnterFree(f) \/ Abstract!Arrive(f) \/ Abstract!EnterNext(f) \/ Abstract!Leave(f)
      \/ UNCHANGED Abstract!lockVars
  BY <1>1, <1>2, EnterRefines, EnterParkRefines, ReturnRefines, YieldReenterRefines, RegisterRefines, Zenon
  DEF FiberStep
<1>4. QED
  BY ONLY <1>3, f \in Fibers, Zenon DEF Abstract!Next

(* Every step of the fibers, the loop and the wakers is a step of the      *)
(* abstract lock or invisible.                                             *)
LEMMA StepRefines ==
    ASSUME NEW t, Threads = {t}, IInv(t), View(t), View(t)', [Next]_vars
    PROVE  Abstract!Next \/ UNCHANGED Abstract!lockVars
<1>1. t \in Threads
  OBVIOUS
<1>2. ASSUME ReactorPull(t) \/ Resume(t) \/ (\E f \in Fibers : Wake(f)) \/ UNCHANGED vars
      PROVE  UNCHANGED Abstract!lockVars
  <2>1. UNCHANGED <<active, waitq, pc, switched>>
    BY <1>2, Zenon DEF ReactorPull, Resume, Wake, vars, strandVars, threadVars, fiberVars
  <2>2. QED
    BY ONLY IInv(t), View(t), View(t)', <2>1, OthersRefine, Zenon
<1>3. ASSUME Drain(t)
      PROVE  Abstract!Next \/ UNCHANGED Abstract!lockVars
  BY <1>1, <1>3, DrainRefines, Zenon DEF Abstract!Next
<1>4. ASSUME Thread(t)
      PROVE  Abstract!Next \/ UNCHANGED Abstract!lockVars
  BY <1>1, <1>2, <1>3, <1>4, FiberStepRefines, AfterSwitchRefines, Zenon DEF Thread
<1>5. QED
  BY <1>2, <1>4, Zenon DEF Next

(* Of two places in a queue one is the first. *)
LEMMA LineTotal ==
    ASSUME NEW q \in Seq(Fibers), NEW f \in Fibers, NEW g \in Fibers, In(f, q), In(g, q), f # g
    PROVE  <<f, g>> \in Ordered(q) \/ <<g, f>> \in Ordered(q)
<1>1. PICK i \in DOMAIN q : q[i] = f
  BY Zenon DEF In
<1>2. PICK j \in DOMAIN q : q[j] = g
  BY Zenon DEF In
<1>3. i < j \/ j < i
  BY <1>1, <1>2
<1>4. QED
  BY <1>1, <1>2, <1>3, Zenon DEF Ordered

LEMMA QueueType ==
    ASSUME NEW t, IInv(t), View(t)
    PROVE  Queue(Watched) \in Seq(Fibers)
<1>1. PICK a : a = active[Watched]
  BY Zenon
<1>2. a \in Fibers \cup {NoFiber}
  BY <1>1, StrandAssumption DEF IInv, TypeOK, StrandAssumption
<1>3. /\ waitq[Watched] \in Seq(Fibers)
      /\ Queue(Watched) = waitq[Watched] \/ (a # NoFiber /\ Queue(Watched) = <<a>> \o waitq[Watched])
  BY <1>1, <1>2, Zenon DEF View
<1>4. \A w \in Seq(Fibers), g \in Fibers : <<g>> \o w \in Seq(Fibers)
  OBVIOUS
<1>5. QED
  BY ONLY <1>2, <1>3, <1>4, Zenon

LEMMA StepInOrder ==
    ASSUME Queue(Watched) \in Seq(Fibers), Abstract!Next \/ UNCHANGED Abstract!lockVars
    PROVE  ServedInOrder(Watched)
<1>1. CASE UNCHANGED Abstract!lockVars
  BY <1>1, Zenon DEF Abstract!lockVars, ServedInOrder
<1>2. CASE Abstract!Next
  <2>1. PICK f \in Fibers : \/ Abstract!EnterFree(f) \/ Abstract!Arrive(f) \/ Abstract!EnterNext(f)
                             \/ Abstract!Leave(f)
    BY <1>2, Zenon DEF Abstract!Next, Abstract!Abandon
  <2>2. CASE Abstract!EnterFree(f)
    BY <2>2, Zenon DEF Abstract!EnterFree, ServedInOrder
  <2>3. CASE Abstract!Arrive(f)
    BY <2>3, Zenon DEF Abstract!Arrive, ServedInOrder
  <2>4. CASE Abstract!EnterNext(f)
    <3>1. ASSUME NEW g \in Waiting(Watched) \ {f} PROVE <<f, g>> \in Ordered(Queue(Watched))
      <4>1. f \in Waiting(Watched) /\ <<g, f>> \notin Ordered(Queue(Watched))
        BY <2>4, <3>1, Zenon DEF Abstract!EnterNext
      <4>2. In(f, Queue(Watched)) /\ In(g, Queue(Watched)) /\ g # f
        BY <3>1, <4>1, Zenon DEF Waiting, In
      <4>3. g \in Fibers
        BY <4>2 DEF In
      <4>4. QED
        BY <4>1, <4>2, <4>3, LineTotal, Zenon
    <3>2. QED
      BY <2>4, <3>1, Zenon DEF Abstract!EnterNext, Abstract!Withdraw, ServedInOrder
  <2>5. CASE Abstract!Leave(f)
    BY <2>5, Zenon DEF Abstract!Leave, ServedInOrder
  <2>6. QED
    BY <2>1, <2>2, <2>3, <2>4, <2>5, Zenon
<1>3. QED
  BY <1>1, <1>2, Zenon

(* On a reactor with one thread the fibers of a strand are let in, the     *)
(* first time and after each park, yield and sync(), in the order in which *)
(* they came.                                                              *)
THEOREM StrandsAreFifo ==
    ASSUME NEW CONSTANT t, Threads = {t}
    PROVE  Spec => FibersAreFifo
<1>1. IInv(t) => View(t)
  BY ViewHolds, Zenon
<1>2. ASSUME IInv(t), View(t), View(t)', [Next]_vars PROVE ServedInOrder(Watched)
  <2>1. Queue(Watched) \in Seq(Fibers)
    BY <1>2, QueueType
  <2>2. QED
    BY <1>2, <2>1, StepRefines, StepInOrder, Zenon
<1>3. QED
  BY <1>1, <1>2, InvariantHolds, PTL DEF Spec, FibersAreFifo
=============================================================================
