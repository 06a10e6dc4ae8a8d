-------------------------- MODULE FiberSchedProofs --------------------------
(***************************************************************************)
(* What every operation of the fiber kernel preserves, for any number of   *)
(* fibers and threads: the facts about FiberSched that the proofs of the   *)
(* synchronisation primitives share.                                       *)
(***************************************************************************)
EXTENDS FiberSched, TLAPS

(* A scheduler runs only its own fibers, the fiber it runs is the one that *)
(* is Running, and a wake list holds only fibers of its scheduler.         *)
SchedInv ==
    /\ \A s \in Scheds : current[s] # NoFiber => Home[current[s]] = s
    /\ \A f \in Fibers : Executing(f) <=> fstate[f] = "Running"
    /\ \A s \in Scheds : \A f \in wakeList[s] : Home[f] = s

(* The three ways in which a fiber gives its thread up: park, yield, end. *)
LEMMA SwitchOutPreserves ==
    ASSUME SchedTypeOK, SchedInv, NEW f \in Fibers,
           NEW st \in {"Ready", "Parked", "Recyclable"}, SwitchOut(f, st)
    PROVE  SchedTypeOK' /\ SchedInv'
<1> USE SchedAssumption DEF SchedTypeOK, SwitchOut, FiberStates, Executing
<1>1. SchedTypeOK'
  OBVIOUS
<1>2. \A s \in Scheds : (current'[s] # NoFiber => Home[current'[s]] = s)
  BY DEF SchedInv
<1>3. ASSUME NEW g \in Fibers
      PROVE  Executing(g)' <=> fstate'[g] = "Running"
  <2>1. CASE g = f
    BY <2>1
  <2>2. CASE g # f /\ Home[g] = Home[f]
    BY <2>2 DEF SchedInv
  <2>3. CASE g # f /\ Home[g] # Home[f]
    BY <2>3 DEF SchedInv
  <2>4. QED
    BY <2>1, <2>2, <2>3
<1>4. QED
  BY <1>1, <1>2, <1>3 DEF SchedInv

(* The resumption of a Ready fiber. *)
LEMMA ResumePreserves ==
    ASSUME SchedTypeOK, SchedInv, NEW f \in Fibers, Resume(f)
    PROVE  SchedTypeOK' /\ SchedInv'
<1> USE SchedAssumption DEF SchedTypeOK, Resume, FiberStates, Executing
<1>1. SchedTypeOK'
  OBVIOUS
<1>2. \A s \in Scheds : (current'[s] # NoFiber => Home[current'[s]] = s)
  BY DEF SchedInv
<1>3. ASSUME NEW g \in Fibers
      PROVE  Executing(g)' <=> fstate'[g] = "Running"
  <2>1. CASE g = f
    BY <2>1
  <2>2. CASE g # f /\ Home[g] = Home[f]
    BY <2>2 DEF SchedInv
  <2>3. CASE g # f /\ Home[g] # Home[f]
    BY <2>3 DEF SchedInv
  <2>4. QED
    BY <2>1, <2>2, <2>3
<1>4. QED
  BY <1>1, <1>2, <1>3 DEF SchedInv

(* A wake from any thread. *)
LEMMA WakePreserves ==
    ASSUME SchedTypeOK, SchedInv, NEW f \in Fibers, Wake(f)
    PROVE  SchedTypeOK' /\ SchedInv'
<1> USE SchedAssumption DEF SchedTypeOK, Wake, Executing
<1>1. wakeList' \in [Scheds -> SUBSET Fibers]
  OBVIOUS
<1>2. \A s \in Scheds : \A g \in wakeList'[s] : Home[g] = s
  BY DEF SchedInv
<1>3. QED
  BY <1>1, <1>2 DEF SchedInv

(* The drain of a scheduler's wake list. *)
LEMMA drainWakeListPreserves ==
    ASSUME SchedTypeOK, SchedInv, NEW s \in Scheds, drainWakeList(s)
    PROVE  SchedTypeOK' /\ SchedInv'
  BY SchedAssumption DEF SchedTypeOK, SchedInv, drainWakeList, MakeReady, FiberStates, Executing

(* interrupt() *)
LEMMA InterruptPreserves ==
    ASSUME SchedTypeOK, SchedInv, NEW s \in Scheds, Interrupt(s)
    PROVE  SchedTypeOK' /\ SchedInv'
  BY SchedAssumption DEF SchedTypeOK, SchedInv, Interrupt, Executing

(* The scan that readies the suspended fibers of an interrupted scheduler. *)
LEMMA ShutdownScanPreserves ==
    ASSUME SchedTypeOK, SchedInv, NEW s \in Scheds, ShutdownScan(s)
    PROVE  SchedTypeOK' /\ SchedInv'
  BY SchedAssumption DEF SchedTypeOK, SchedInv, ShutdownScan, MakeReady, SuspendedOf, FibersOf,
     SuspendedStates, FiberStates, Executing

(* Every step of the schedulers. *)
LEMMA SchedStepPreserves == SchedTypeOK /\ SchedInv /\ SchedStep => SchedTypeOK' /\ SchedInv'
  BY ResumePreserves, drainWakeListPreserves, InterruptPreserves, ShutdownScanPreserves
     DEF SchedStep

(* No fiber runs and every wake list is empty. *)
LEMMA SchedInitInv == SchedInit => SchedTypeOK /\ SchedInv
  BY SchedAssumption DEF SchedInit, SchedTypeOK, SchedInv, FiberStates, Executing
=============================================================================
