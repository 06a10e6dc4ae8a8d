------------------------------ MODULE PfsProofs -----------------------------
(***************************************************************************)
(* For any number of tenants, paths, contents, roots and threads:          *)
(* pfs::store never frees a content that something refers to and charges   *)
(* each tenant for all of its files, through stops of the process; and,    *)
(* until the store is opened again, every block belongs to one entry and a *)
(* read returns the bytes it was asked for.                                *)
(*                                                                         *)
(* The count of references is a sum of cardinalities.  Every transaction   *)
(* changes at most one entry and one call, so the two counting lemmas give *)
(* what a step does to each summand, and the steps are left with           *)
(* arithmetic.  The bytes of a tenant are a recursive sum over the places; *)
(* a change of one entry changes it by the difference of the sizes.        *)
(*                                                                         *)
(* Blocks are numbered in the order of allocation, and a number is used    *)
(* once until the store is opened again.  So a reader's copy of a list of  *)
(* blocks goes stale in one way only: a block of it may be gone.           *)
(***************************************************************************)
EXTENDS PfsStore, FiniteSetTheorems, TLAPS

EntryRefs(c) == Cardinality({e \in Places : files[e] = c})
CallRefs(c) == Cardinality({x \in Threads : Refers(op[x], c)})

(* What the steps need to know about the state. *)
Shape ==
    /\ refcount \in [Contents -> Nat]
    /\ held \in [Contents -> Nat]
    /\ files \in [Places -> Contents \cup {"dir", None}]
    /\ op = [x \in Threads |-> op[x]]
    /\ \A x \in Threads :
          /\ "at" \in DOMAIN op[x]
          /\ op[x].at \in {"write", "share", "pin", "unpin"} =>
                "c" \in DOMAIN op[x] /\ op[x].c \in Contents
          /\ op[x].at \in {"write", "share", "pin"} =>
                "place" \in DOMAIN op[x] /\ op[x].place \in Tenants \X Paths

Inv == Shape /\ NoDanglingReference

-----------------------------------------------------------------------------
(* Counting.                                                               *)

LEMMA FinitePlaces == IsFiniteSet(Places)
  BY StoreAssumption, FS_Union, FS_Product, Zenon DEF Places

(* The elements of a finite set that a function maps to v, after the       *)
(* function is changed at one of them.                                     *)
LEMMA CountStep ==
  ASSUME NEW S, IsFiniteSet(S), NEW x \in S,
         NEW A \in SUBSET S, NEW B \in SUBSET S,
         \A y \in S \ {x} : y \in A <=> y \in B
  PROVE  /\ Cardinality(A) \in Nat /\ Cardinality(B) \in Nat
         /\ x \in A /\ x \in B => Cardinality(B) = Cardinality(A)
         /\ x \notin A /\ x \notin B => Cardinality(B) = Cardinality(A)
         /\ x \in A /\ x \notin B => Cardinality(B) = Cardinality(A) - 1
         /\ x \notin A /\ x \in B => Cardinality(B) = Cardinality(A) + 1
<1>1. IsFiniteSet(A) /\ IsFiniteSet(B)
  BY FS_Subset, Zenon
<1>2. Cardinality(A) \in Nat /\ Cardinality(B) \in Nat
  BY <1>1, FS_CardinalityType, Zenon
<1>3. CASE (x \in A) <=> (x \in B)
  <2>1. A = B
    BY <1>3
  <2> QED
    BY <2>1, <1>2, Zenon
<1>4. CASE x \in A /\ x \notin B
  <2>1. B = A \ {x}
    BY <1>4, Zenon
  <2>2. Cardinality(A \ {x}) = Cardinality(A) - 1
    BY <1>1, <1>4, FS_RemoveElement, Zenon
  <2> QED
    BY <2>1, <2>2, <1>2, <1>4, Zenon
<1>5. CASE x \notin A /\ x \in B
  <2>1. B = A \cup {x}
    BY <1>5, Zenon
  <2>2. Cardinality(A \cup {x}) = Cardinality(A) + 1
    BY <1>1, <1>5, FS_AddElement, Zenon
  <2> QED
    BY <2>1, <2>2, <1>2, <1>5, Zenon
<1> QED
  BY <1>3, <1>4, <1>5, Zenon

(* Writing entry e of files to v. *)
LEMMA EntryStep ==
  ASSUME Shape, NEW e \in Places, NEW v, files' = [files EXCEPT ![e] = v],
         NEW c
  PROVE  /\ EntryRefs(c) \in Nat /\ EntryRefs(c)' \in Nat
         /\ files[e] = c /\ v = c => EntryRefs(c)' = EntryRefs(c)
         /\ files[e] # c /\ v # c => EntryRefs(c)' = EntryRefs(c)
         /\ files[e] = c /\ v # c => EntryRefs(c)' = EntryRefs(c) - 1
         /\ files[e] # c /\ v = c => EntryRefs(c)' = EntryRefs(c) + 1
<1> DEFINE A == {d \in Places : files[d] = c}
           B == {d \in Places : files'[d] = c}
<1>1. /\ files'[e] = v
      /\ \A d \in Places \ {e} : files'[d] = files[d]
  BY Zenon DEF Shape
<1>2. A \in SUBSET Places /\ B \in SUBSET Places
  OBVIOUS
<1>3. \A d \in Places \ {e} : d \in A <=> d \in B
  BY <1>1, Zenon
<1>4. (e \in A <=> files[e] = c) /\ (e \in B <=> v = c)
  BY <1>1, Zenon
<1>5. EntryRefs(c) = Cardinality(A) /\ EntryRefs(c)' = Cardinality(B)
  BY Zenon DEF EntryRefs, Places
<1> HIDE DEF A, B
<1> QED
  BY <1>2, <1>3, <1>4, <1>5, FinitePlaces, CountStep

(* Moving the call of thread x to o. *)
LEMMA CallStep ==
  ASSUME Shape, NEW x \in Threads, NEW o, Becomes(x, o), NEW c
  PROVE  /\ CallRefs(c) \in Nat /\ CallRefs(c)' \in Nat
         /\ Refers(op[x], c) /\ Refers(o, c) => CallRefs(c)' = CallRefs(c)
         /\ ~Refers(op[x], c) /\ ~Refers(o, c) => CallRefs(c)' = CallRefs(c)
         /\ Refers(op[x], c) /\ ~Refers(o, c) => CallRefs(c)' = CallRefs(c) - 1
         /\ ~Refers(op[x], c) /\ Refers(o, c) => CallRefs(c)' = CallRefs(c) + 1
<1> DEFINE A == {y \in Threads : Refers(op[y], c)}
           B == {y \in Threads : Refers(op'[y], c)}
<1>1. /\ op'[x] = o
      /\ \A y \in Threads \ {x} : op'[y] = op[y]
  BY Zenon DEF Shape, Becomes
<1>2. A \in SUBSET Threads /\ B \in SUBSET Threads
  OBVIOUS
<1>3. \A y \in Threads \ {x} : y \in A <=> y \in B
  BY <1>1, Zenon
<1>4. (x \in A <=> Refers(op[x], c)) /\ (x \in B <=> Refers(o, c))
  BY <1>1, Zenon
<1>5. CallRefs(c) = Cardinality(A) /\ CallRefs(c)' = Cardinality(B)
  BY Zenon DEF CallRefs, Refers
<1> HIDE DEF A, B
<1> QED
  BY <1>2, <1>3, <1>4, <1>5, StoreAssumption, CountStep

(* The three summands, and what it takes to keep the sum covered. *)
LEMMA Covered ==
  ASSUME Inv, NEW c \in Contents
  PROVE  /\ EntryRefs(c) \in Nat /\ CallRefs(c) \in Nat
         /\ refcount[c] \in Nat /\ held[c] \in Nat
         /\ refcount[c] >= EntryRefs(c) + held[c] + CallRefs(c)
<1>1. EntryRefs(c) \in Nat
  <2>1. {e \in Places : files[e] = c} \in SUBSET Places
    OBVIOUS
  <2> QED
    BY <2>1, FinitePlaces, FS_Subset, FS_CardinalityType, Zenon DEF EntryRefs
<1>2. CallRefs(c) \in Nat
  <2>1. {x \in Threads : Refers(op[x], c)} \in SUBSET Threads
    OBVIOUS
  <2> QED
    BY <2>1, StoreAssumption, FS_Subset, FS_CardinalityType, Zenon DEF CallRefs
<1> QED
  BY <1>1, <1>2, Zenon DEF Inv, Shape, NoDanglingReference, References, EntryRefs, CallRefs

LEMMA Uncovered ==
  ASSUME \A c \in Contents :
            refcount'[c] >= EntryRefs(c)' + held'[c] + CallRefs(c)'
  PROVE  NoDanglingReference'
  BY Zenon DEF NoDanglingReference, References, EntryRefs, CallRefs

LEMMA SameEntries == ASSUME UNCHANGED files, NEW c PROVE EntryRefs(c)' = EntryRefs(c)
  BY Zenon DEF EntryRefs, Places

LEMMA SameCalls == ASSUME UNCHANGED op, NEW c PROVE CallRefs(c)' = CallRefs(c)
  BY Zenon DEF CallRefs, Refers

-----------------------------------------------------------------------------
(* The shape of the state.                                                 *)

(* A call may move to o without changing the shape. *)
WellShaped(o) ==
    /\ "at" \in DOMAIN o
    /\ o.at \in {"write", "share", "pin", "unpin"} => "c" \in DOMAIN o /\ o.c \in Contents
    /\ o.at \in {"write", "share", "pin"} =>
          "place" \in DOMAIN o /\ o.place \in Tenants \X Paths

LEMMA ShapeKept ==
  ASSUME Shape, NEW x \in Threads, NEW o, Becomes(x, o), WellShaped(o),
         refcount' \in [Contents -> Nat], held' \in [Contents -> Nat],
         files' \in [Places -> Contents \cup {"dir", None}]
  PROVE  Shape'
<1>1. op' = [y \in Threads |-> op'[y]]
  BY Zenon DEF Shape, Becomes
<1>2. ASSUME NEW y \in Threads PROVE WellShaped(op'[y])
  <2>1. CASE y = x
    BY <2>1, Zenon DEF Shape, Becomes
  <2>2. CASE y # x
    <3>1. op'[y] = op[y]
      BY <2>2, Zenon DEF Shape, Becomes
    <3>2. WellShaped(op[y])
      BY Zenon DEF Shape, WellShaped
    <3> QED
      BY <3>1, <3>2, Zenon
  <2> QED
    BY <2>1, <2>2, Zenon
<1> QED
  BY <1>1, <1>2, Zenon DEF Shape, WellShaped, Places

LEMMA IdleShape == WellShaped(Idle) /\ \A c : ~Refers(Idle, c)
  BY Zenon DEF WellShaped, Idle, Refers

LEMMA UnpinShape ==
  ASSUME NEW d \in Contents
  PROVE  /\ WellShaped([at |-> "unpin", c |-> d])
         /\ \A c : Refers([at |-> "unpin", c |-> d], c) <=> c = d
  BY Zenon DEF WellShaped, Refers

LEMMA PlaceOfPath == Tenants \X Paths \subseteq Places
  BY Zenon DEF Places

(* What the transactions of the content store do to the counts. *)
LEMMA CountUp ==
  ASSUME Shape, NEW d \in Contents, put(d) \/ pin(d)
  PROVE  /\ refcount' \in [Contents -> Nat]
         /\ refcount'[d] = refcount[d] + 1
         /\ \A c \in Contents \ {d} : refcount'[c] = refcount[c]
  BY DEF put, pin, Shape

LEMMA CountDown ==
  ASSUME Shape, NEW d \in Contents, unpin(d)
  PROVE  /\ refcount' \in [Contents -> Nat]
         /\ refcount[d] > 0 => refcount'[d] = refcount[d] - 1
         /\ \A c \in Contents \ {d} : refcount'[c] = refcount[c]
<1>1. refcount \in [Contents -> Nat] /\ refcount[d] \in Nat
  BY Zenon DEF Shape
<1>2. refcount' = [refcount EXCEPT ![d] = IF refcount[d] = 0 THEN 0 ELSE refcount[d] - 1]
  BY Zenon DEF unpin
<1>3. (IF refcount[d] = 0 THEN 0 ELSE refcount[d] - 1) \in Nat
  BY <1>1
<1> QED
  BY <1>1, <1>2, <1>3

-----------------------------------------------------------------------------
(* One lemma per kind of step.                                             *)

(* put() and the release by its caller. *)
LEMMA PutKeeps ==
  ASSUME Inv, NEW x \in Threads, Put(x) \/ Unpin(x)
  PROVE  Inv'
<1>1. PICK d \in Contents :
         \/ put(d) /\ held' = [held EXCEPT ![d] = @ + 1]
         \/ held[d] > 0 /\ unpin(d) /\ held' = [held EXCEPT ![d] = @ - 1]
  BY Zenon DEF Put, Unpin
<1>2. UNCHANGED <<files, op>> /\ Shape
  BY Zenon DEF Put, Unpin, Inv
<1>3. /\ refcount' \in [Contents -> Nat] /\ held' \in [Contents -> Nat]
      /\ \A c \in Contents :
            refcount'[c] >= EntryRefs(c)' + held'[c] + CallRefs(c)'
  <2>1. CASE put(d) /\ held' = [held EXCEPT ![d] = @ + 1]
    <3>1. held' \in [Contents -> Nat] /\ held'[d] = held[d] + 1
          /\ \A c \in Contents \ {d} : held'[c] = held[c]
      BY <1>2, <2>1 DEF Shape
    <3> QED
      BY <1>2, <2>1, <3>1, CountUp, Covered, SameEntries, SameCalls
  <2>2. CASE held[d] > 0 /\ unpin(d) /\ held' = [held EXCEPT ![d] = @ - 1]
    <3>1. held' \in [Contents -> Nat] /\ held'[d] = held[d] - 1
          /\ \A c \in Contents \ {d} : held'[c] = held[c]
      BY <1>2, <2>2 DEF Shape
    <3>2. refcount[d] > 0
      BY <2>2, Covered
    <3> QED
      BY <1>2, <2>2, <3>1, <3>2, CountDown, Covered, SameEntries, SameCalls
  <2> QED
    BY <1>1, <2>1, <2>2, Zenon
<1>4. NoDanglingReference'
  BY <1>3, Uncovered, Zenon
<1>5. Shape'
  BY <1>2, <1>3, Zenon DEF Shape, Places
<1> QED
  BY <1>4, <1>5, Zenon DEF Inv

(* A step that leaves counts and entries alone, to a call that refers to   *)
(* nothing it did not refer to before.                                     *)
LEMMA CallOnly ==
  ASSUME Inv, NEW x \in Threads, NEW o, Becomes(x, o), WellShaped(o),
         UNCHANGED <<refcount, files, held>>,
         \A c : Refers(o, c) => Refers(op[x], c)
  PROVE  Inv'
<1>1. Shape
  BY Zenon DEF Inv
<1>2. ASSUME NEW c \in Contents
      PROVE  refcount'[c] >= EntryRefs(c)' + held'[c] + CallRefs(c)'
  <2>1. CallRefs(c)' <= CallRefs(c) /\ CallRefs(c)' \in Nat
    BY <1>1, CallStep, Covered
  <2> QED
    BY <2>1, Covered, SameEntries
<1>3. NoDanglingReference'
  BY <1>2, Uncovered, Zenon
<1>4. Shape'
  BY <1>1, ShapeKept, Zenon DEF Shape
<1> QED
  BY <1>3, <1>4, Zenon DEF Inv

(* An entry that goes from u to v and a call that goes from p to o: each   *)
(* content loses at least the references it gains.                         *)
Balanced(u, v, p, o) ==
    \A c \in Contents :
        /\ v = c /\ u # c => Refers(p, c) /\ ~Refers(o, c)
        /\ Refers(o, c) /\ ~Refers(p, c) => u = c /\ v # c

(* A step that changes one entry and one call, and no count. *)
LEMMA EntryAndCall ==
  ASSUME Inv, NEW x \in Threads, NEW o, Becomes(x, o), WellShaped(o),
         NEW e \in Places, NEW v \in Contents \cup {"dir", None},
         files' = [files EXCEPT ![e] = v],
         UNCHANGED <<refcount, held>>,
         Balanced(files[e], v, op[x], o)
  PROVE  Inv'
<1>1. Shape
  BY Zenon DEF Inv
<1>2. ASSUME NEW c \in Contents
      PROVE  refcount'[c] >= EntryRefs(c)' + held'[c] + CallRefs(c)'
  <2>1. /\ EntryRefs(c)' \in Nat /\ CallRefs(c)' \in Nat
        /\ EntryRefs(c)' + CallRefs(c)' <= EntryRefs(c) + CallRefs(c)
    <3>1. /\ CallRefs(c) \in Nat /\ CallRefs(c)' \in Nat
          /\ Refers(op[x], c) /\ Refers(o, c) => CallRefs(c)' = CallRefs(c)
          /\ ~Refers(op[x], c) /\ ~Refers(o, c) => CallRefs(c)' = CallRefs(c)
          /\ Refers(op[x], c) /\ ~Refers(o, c) => CallRefs(c)' = CallRefs(c) - 1
          /\ ~Refers(op[x], c) /\ Refers(o, c) => CallRefs(c)' = CallRefs(c) + 1
      BY <1>1, CallStep, Zenon
    <3>2. /\ EntryRefs(c) \in Nat /\ EntryRefs(c)' \in Nat
          /\ files[e] = c /\ v = c => EntryRefs(c)' = EntryRefs(c)
          /\ files[e] # c /\ v # c => EntryRefs(c)' = EntryRefs(c)
          /\ files[e] = c /\ v # c => EntryRefs(c)' = EntryRefs(c) - 1
          /\ files[e] # c /\ v = c => EntryRefs(c)' = EntryRefs(c) + 1
      BY <1>1, EntryStep, Zenon
    <3>3. /\ v = c /\ files[e] # c => Refers(op[x], c) /\ ~Refers(o, c)
          /\ Refers(o, c) /\ ~Refers(op[x], c) => files[e] = c /\ v # c
      BY Zenon DEF Balanced
    <3> QED
      BY <3>1, <3>2, <3>3
  <2> QED
    BY <2>1, Covered
<1>3. NoDanglingReference'
  BY <1>2, Uncovered, Zenon
<1>4. files' \in [Places -> Contents \cup {"dir", None}]
  BY <1>1, Zenon DEF Shape
<1>5. Shape'
  BY <1>1, <1>4, ShapeKept, Zenon DEF Shape
<1> QED
  BY <1>3, <1>5, Zenon DEF Inv

(* A step that takes or gives back the one reference its call has. *)
LEMMA CountAndCall ==
  ASSUME Inv, NEW x \in Threads, NEW o, Becomes(x, o), WellShaped(o),
         NEW d \in Contents,
         UNCHANGED <<files, held>>,
         \/ /\ put(d) \/ pin(d)
            /\ \A c : Refers(o, c) <=> c = d
            /\ \A c : ~Refers(op[x], c)
         \/ /\ unpin(d)
            /\ \A c : ~Refers(o, c)
            /\ \A c : Refers(op[x], c) <=> c = d
  PROVE  Inv'
<1>1. Shape
  BY Zenon DEF Inv
<1>2. /\ refcount' \in [Contents -> Nat]
      /\ \A c \in Contents :
            refcount'[c] >= EntryRefs(c)' + held'[c] + CallRefs(c)'
  <2>1. CASE /\ put(d) \/ pin(d)
             /\ \A c : Refers(o, c) <=> c = d
             /\ \A c : ~Refers(op[x], c)
    <3>1. \A c \in Contents : CallRefs(c)' = IF c = d THEN CallRefs(c) + 1 ELSE CallRefs(c)
      BY <1>1, <2>1, CallStep, Zenon
    <3> QED
      BY <1>1, <2>1, <3>1, CountUp, Covered, SameEntries
  <2>2. CASE /\ unpin(d)
             /\ \A c : ~Refers(o, c)
             /\ \A c : Refers(op[x], c) <=> c = d
    <3>1. /\ \A c \in Contents :
               CallRefs(c)' = IF c = d THEN CallRefs(c) - 1 ELSE CallRefs(c)
          /\ CallRefs(d)' \in Nat
      BY <1>1, <2>2, CallStep, Zenon
    <3>2. refcount[d] > 0
      BY <3>1, Covered
    <3> QED
      BY <1>1, <2>2, <3>1, <3>2, CountDown, Covered, SameEntries
  <2> QED
    BY <2>1, <2>2, Zenon
<1>3. NoDanglingReference'
  BY <1>2, Uncovered, Zenon
<1>4. Shape'
  BY <1>1, <1>2, ShapeKept, Zenon DEF Shape
<1> QED
  BY <1>3, <1>4, Zenon DEF Inv

-----------------------------------------------------------------------------
(* The calls.                                                              *)

LEMMA WriteKeeps ==
  ASSUME Inv, NEW x \in Threads, WritePut(x) \/ WriteEntry(x) \/ UnpinOld(x)
  PROVE  Inv'
<1>1. CASE WritePut(x)
  <2>1. PICK e \in Tenants \X Paths, d \in Contents :
          put(d) /\ Becomes(x, [at |-> "write", place |-> e, c |-> d])
    BY <1>1, Zenon DEF WritePut
  <2> DEFINE o == [at |-> "write", place |-> e, c |-> d]
  <2>2. WellShaped(o) /\ \A c : Refers(o, c) <=> c = d
    BY Zenon DEF WellShaped, Refers
  <2>3. \A c : ~Refers(op[x], c)
    BY <1>1, IdleShape, Zenon DEF WritePut, Begin
  <2>4. UNCHANGED <<files, held>>
    BY <1>1, Zenon DEF WritePut, storeVars
  <2> HIDE DEF o
  <2> QED
    BY <2>1, <2>2, <2>3, <2>4, CountAndCall, Zenon DEF o
<1>2. CASE WriteEntry(x)
  <2>0. PICK e, d : e = op[x].place /\ d = op[x].c
    OBVIOUS
  <2>1. /\ e \in Tenants \X Paths /\ e \in Places /\ d \in Contents
        /\ \A c : Refers(op[x], c) <=> c = d
    BY <1>2, <2>0, PlaceOfPath, Zenon DEF WriteEntry, Inv, Shape, Refers
  <2>2. CASE OverQuota(e[1], EntrySize(e), Size[d])
    <3>1. Becomes(x, Idle) /\ UNCHANGED <<refcount, files, held>>
      BY <1>2, <2>0, <2>2, Zenon DEF WriteEntry, storeVars, casVars
    <3> QED
      BY <3>1, IdleShape, CallOnly, Zenon
  <2>3. CASE ~OverQuota(e[1], EntrySize(e), Size[d])
    <3>1. /\ files' = [files EXCEPT ![e] = d]
          /\ Becomes(x, IF Replaced(files[e], d) THEN [at |-> "unpin", c |-> files[e]] ELSE Idle)
          /\ UNCHANGED <<refcount, held>>
      BY <1>2, <2>0, <2>3, Zenon DEF WriteEntry, casVars
    <3>4. /\ e \in Places /\ d \in Contents \cup {"dir", None}
          /\ files' = [files EXCEPT ![e] = d] /\ UNCHANGED <<refcount, held>>
      BY <2>1, <3>1, Zenon
    <3>2. CASE Replaced(files[e], d)
      <4>1. files[e] \in Contents /\ files[e] # d
        BY <3>2, Zenon DEF Replaced
      <4>2. Becomes(x, [at |-> "unpin", c |-> files[e]])
        BY <3>1, <3>2, Zenon
      <4>6. PICK o : o = [at |-> "unpin", c |-> files[e]]
        OBVIOUS
      <4>3. WellShaped(o) /\ \A c : Refers(o, c) <=> c = files[e]
        BY <4>1, <4>6, UnpinShape, Zenon
      <4>4. Balanced(files[e], d, op[x], o)
        BY <2>1, <4>1, <4>3, Zenon DEF Balanced
      <4>5. Becomes(x, o) /\ WellShaped(o)
        BY <4>2, <4>3, <4>6, Zenon
      <4> QED
        BY <3>4, <4>4, <4>5, EntryAndCall, Zenon
    <3>3. CASE ~Replaced(files[e], d)
      <4>1. Becomes(x, Idle)
        BY <3>1, <3>3, Zenon
      <4>2. Balanced(files[e], d, op[x], Idle)
        BY <2>1, IdleShape, Zenon DEF Balanced
      <4> QED
        BY <3>4, <4>1, <4>2, IdleShape, EntryAndCall, Zenon
    <3> QED
      BY <3>2, <3>3, Zenon
  <2> QED
    BY <2>2, <2>3, Zenon
<1>3. CASE UnpinOld(x)
  <2>1. /\ op[x].c \in Contents
        /\ \A c : Refers(op[x], c) <=> c = op[x].c
    BY <1>3, Zenon DEF UnpinOld, Inv, Shape, Refers
  <2>2. unpin(op[x].c) /\ Becomes(x, Idle) /\ UNCHANGED <<files, held>>
    BY <1>3, Zenon DEF UnpinOld, storeVars
  <2> QED
    BY <2>1, <2>2, IdleShape, CountAndCall, Zenon
<1> QED
  BY <1>1, <1>2, <1>3, Zenon

LEMMA RemoveKeeps ==
  ASSUME Inv, NEW x \in Threads, remove(x) \/ mkdir(x) \/ set_quota(x)
  PROVE  Inv'
<1> {None, "dir"} \cap Contents = {}
  BY StoreAssumption, Zenon
<1>0. \A c : ~Refers(op[x], c)
  BY IdleShape, Zenon DEF remove, mkdir, set_quota, Begin
<1>1. CASE remove(x)
  <2>1. PICK e \in Places :
          /\ files[e] # None
          /\ files' = [files EXCEPT ![e] = None]
          /\ Becomes(x, IF files[e] = "dir" THEN Idle ELSE [at |-> "unpin", c |-> files[e]])
    BY <1>1, Zenon DEF remove
  <2>2. UNCHANGED <<refcount, held>>
    BY <1>1, Zenon DEF remove, casVars
  <2>3. CASE files[e] = "dir"
    <3>1. Balanced(files[e], None, op[x], Idle)
      BY <1>0, IdleShape, Zenon DEF Balanced
    <3> QED
      BY <2>1, <2>2, <2>3, <3>1, IdleShape, EntryAndCall, Zenon
  <2>4. CASE files[e] # "dir"
    <3>1. files[e] \in Contents
      BY <2>1, <2>4, Zenon DEF Inv, Shape
    <3>2. Becomes(x, [at |-> "unpin", c |-> files[e]])
      BY <2>1, <2>4, Zenon
    <3> DEFINE o == [at |-> "unpin", c |-> files[e]]
    <3>3. WellShaped(o) /\ \A c : Refers(o, c) <=> c = files[e]
      BY <3>1, UnpinShape, Zenon
    <3>4. Becomes(x, o)
      BY <3>2, Zenon
    <3> HIDE DEF o
    <3>5. Balanced(files[e], None, op[x], o)
      BY <1>0, <3>3, Zenon DEF Balanced
    <3> QED
      BY <2>1, <2>2, <3>3, <3>4, <3>5, EntryAndCall
  <2> QED
    BY <2>3, <2>4, Zenon
<1>2. CASE mkdir(x)
  <2>1. PICK e \in Tenants \X Dirs : files' = [files EXCEPT ![e] = "dir"]
    BY <1>2, Zenon DEF mkdir
  <2>2. e \in Places /\ op[x] = Idle
    BY <1>2, Zenon DEF Places, mkdir, Begin
  <2>3. UNCHANGED <<refcount, held, op>>
    BY <1>2, Zenon DEF mkdir, casVars
  <2>4. Becomes(x, Idle)
    BY <2>2, <2>3, Zenon DEF Becomes, Inv, Shape
  <2>5. Balanced(files[e], "dir", op[x], Idle)
    BY <1>0, IdleShape, Zenon DEF Balanced
  <2> QED
    BY <2>1, <2>2, <2>3, <2>4, <2>5, IdleShape, EntryAndCall
<1>3. CASE set_quota(x)
  <2>1. UNCHANGED <<refcount, files, held, op>> /\ op[x] = Idle
    BY <1>3, Zenon DEF set_quota, casVars, Begin
  <2>2. Becomes(x, Idle)
    BY <2>1, Zenon DEF Becomes, Inv, Shape
  <2> QED
    BY <2>1, <2>2, IdleShape, CallOnly, Zenon
<1> QED
  BY <1>1, <1>2, <1>3, Zenon

LEMMA ShareKeeps ==
  ASSUME Inv, NEW x \in Threads, ShareStat(x) \/ SharePin(x) \/ ShareEntry(x)
  PROVE  Inv'
<1>1. CASE ShareStat(x)
  <2>1. PICK e \in Tenants \X Paths, d \in Contents :
          Becomes(x, [at |-> "pin", place |-> e, c |-> d])
    BY <1>1, Zenon DEF ShareStat
  <2>2. PICK o : o = [at |-> "pin", place |-> e, c |-> d]
    OBVIOUS
  <2>3. WellShaped(o) /\ \A c : ~Refers(o, c)
    BY <2>2, Zenon DEF WellShaped, Refers
  <2>4. UNCHANGED <<refcount, files, held>>
    BY <1>1, Zenon DEF ShareStat, casVars, storeVars
  <2> QED
    BY <2>1, <2>2, <2>3, <2>4, CallOnly, Zenon
<1>2. CASE SharePin(x)
  <2>1. /\ op[x].at = "pin" /\ op[x].c \in Contents
        /\ "at" \in DOMAIN op[x] /\ "c" \in DOMAIN op[x]
        /\ "place" \in DOMAIN op[x] /\ op[x].place \in Tenants \X Paths
    BY <1>2, Zenon DEF SharePin, Inv, Shape
  <2>2. UNCHANGED <<files, held>>
    BY <1>2, Zenon DEF SharePin, storeVars
  <2>3. CASE refcount[op[x].c] = 0
    <3>1. Becomes(x, Idle) /\ UNCHANGED refcount
      BY <1>2, <2>3, Zenon DEF SharePin, casVars
    <3> QED
      BY <2>2, <3>1, IdleShape, CallOnly, Zenon
  <2>4. CASE refcount[op[x].c] # 0
    <3>1. PICK o : o = [op[x] EXCEPT !.at = "share"]
      OBVIOUS
    <3>2. pin(op[x].c) /\ Becomes(x, o)
      BY <1>2, <2>4, <3>1, Zenon DEF SharePin
    <3>3. /\ DOMAIN o = DOMAIN op[x]
          /\ o.at = "share" /\ o.c = op[x].c /\ o.place = op[x].place
      BY <2>1, <3>1, Zenon
    <3>4. WellShaped(o) /\ \A c : Refers(o, c) <=> c = op[x].c
      BY <2>1, <3>3, Zenon DEF WellShaped, Refers
    <3>5. \A c : ~Refers(op[x], c)
      BY <2>1, Zenon DEF Refers
    <3> QED
      BY <2>1, <2>2, <3>2, <3>4, <3>5, CountAndCall, Zenon
  <2> QED
    BY <2>3, <2>4, Zenon
<1>3. CASE ShareEntry(x)
  <2>0. PICK e, d : e = op[x].place /\ d = op[x].c
    OBVIOUS
  <2>1. /\ e \in Places /\ d \in Contents
        /\ \A c : Refers(op[x], c) <=> c = d
    BY <1>3, <2>0, PlaceOfPath, Zenon DEF ShareEntry, Inv, Shape, Refers
  <2>2. Becomes(x, Idle) /\ UNCHANGED <<refcount, held>>
    BY <1>3, Zenon DEF ShareEntry, casVars, storeVars
  <2>3. CASE UNCHANGED files
    BY <2>2, <2>3, IdleShape, CallOnly, Zenon
  <2>4. CASE files' = [files EXCEPT ![e] = d]
    <3>1. Balanced(files[e], d, op[x], Idle)
      BY <2>1, IdleShape, Zenon DEF Balanced
    <3>2. e \in Places /\ d \in Contents \cup {"dir", None}
      BY <2>1, Zenon
    <3> QED
      BY <2>2, <2>4, <3>1, <3>2, IdleShape, EntryAndCall, Zenon
  <2> QED
    BY <1>3, <2>0, <2>3, <2>4, Zenon DEF ShareEntry, storeVars
<1> QED
  BY <1>1, <1>2, <1>3, Zenon

(* Reading refers to nothing: a handle does not keep its content. *)
LEMMA ReadKeeps ==
  ASSUME Inv, NEW x \in Threads,
         Open(x) \/ ReadEntry(x) \/ ReadChunk(x) \/ ReadReturn(x)
  PROVE  Inv'
<1>1. UNCHANGED <<refcount, files, held>>
  BY Zenon DEF Open, ReadEntry, ReadChunk, ReadReturn, casVars, storeVars
<1>2. ASSUME NEW o, Becomes(x, o), "at" \in DOMAIN o, o.at \in {"idle", "open", "read", "done"}
      PROVE  Inv'
  <2>1. WellShaped(o) /\ \A c : ~Refers(o, c)
    BY <1>2, Zenon DEF WellShaped, Refers
  <2> QED
    BY <1>1, <1>2, <2>1, CallOnly, Zenon
<1>3. CASE Open(x)
  <2>1. PICK d \in Contents : Becomes(x, [at |-> "open", c |-> d])
    BY <1>3, Zenon DEF Open
  <2> QED
    BY <1>2, <2>1, Zenon
<1>4. CASE ReadEntry(x)
  <2>1. CASE Becomes(x, Idle)
    BY <1>2, <2>1, Zenon DEF Idle
  <2>2. ASSUME NEW a \in {"done", "read"}, NEW d, NEW ids, NEW offset, NEW end, NEW got,
               Becomes(x, [at |-> a, c |-> d, ids |-> ids, i |-> 1,
                           offset |-> offset, end |-> end, got |-> got])
        PROVE  Inv'
    BY <1>2, <2>2, Zenon
  <2>3. op[x].at = "open"
    BY <1>4, Zenon DEF ReadEntry
  <2>4. CASE refcount[op[x].c] > 0 /\ ~Becomes(x, Idle)
    <3>1. PICK end, offset :
            Becomes(x, [at |-> IF chunks[op[x].c] = <<>> THEN "done" ELSE "read",
                        c |-> op[x].c, ids |-> chunks[op[x].c], i |-> 1,
                        offset |-> offset, end |-> end,
                        got |-> IF chunks[op[x].c] = <<>> THEN BytesOf(op[x].c, offset, end)
                                ELSE <<>>])
      BY <1>4, <2>4, Zenon DEF ReadEntry
    <3>2. PICK a, got : /\ a = IF chunks[op[x].c] = <<>> THEN "done" ELSE "read"
                        /\ got = IF chunks[op[x].c] = <<>> THEN BytesOf(op[x].c, offset, end)
                                 ELSE <<>>
      OBVIOUS
    <3>3. a \in {"done", "read"}
      BY <3>2, Zenon
    <3>4. Becomes(x, [at |-> a, c |-> op[x].c, ids |-> chunks[op[x].c], i |-> 1,
                      offset |-> offset, end |-> end, got |-> got])
      BY <3>1, <3>2, Zenon
    <3> QED
      BY <2>2, <3>3, <3>4, Zenon
  <2> QED
    BY <1>4, <2>1, <2>4, Zenon DEF ReadEntry
<1>5. CASE ReadChunk(x)
  <2>0. op[x].at = "read" /\ "at" \in DOMAIN op[x]
    BY <1>5, Zenon DEF ReadChunk, Inv, Shape
  <2>1. PICK o : /\ Becomes(x, o)
                 /\ \/ o = [op[x] EXCEPT !.at = "done"]
                    \/ o = [op[x] EXCEPT !.i = @ + 1]
                    \/ o = Idle
                    \/ \E bytes : o = [op[x] EXCEPT !.i = @ + 1, !.got = @ \o bytes]
    BY <1>5, Zenon DEF ReadChunk
  <2>2. "at" \in DOMAIN o /\ o.at \in {"idle", "read", "done"}
    <3>1. CASE o = Idle
      BY <3>1, Zenon DEF Idle
    <3>2. CASE o = [op[x] EXCEPT !.at = "done"]
      BY <2>0, <3>2, Zenon
    <3>3. CASE o = [op[x] EXCEPT !.i = @ + 1]
      BY <2>0, <3>3, Zenon
    <3>4. ASSUME NEW bytes, o = [op[x] EXCEPT !.i = @ + 1, !.got = @ \o bytes]
          PROVE  "at" \in DOMAIN o /\ o.at \in {"idle", "read", "done"}
      BY <2>0, <3>4, Zenon
    <3> QED
      BY <2>1, <3>1, <3>2, <3>3, <3>4, Zenon
  <2> QED
    BY <1>2, <2>1, <2>2, Zenon
<1>6. CASE ReadReturn(x)
  BY <1>2, <1>6, Zenon DEF ReadReturn, Idle
<1> QED
  BY <1>3, <1>4, <1>5, <1>6, Zenon

(* A stop of the process forgets the calls, and the references they had    *)
(* stay counted.                                                           *)
LEMMA RestartKeeps ==
  ASSUME Inv, Restart
  PROVE  Inv'
<1>1. UNCHANGED <<refcount, files, held>> /\ op' = [x \in Threads |-> Idle]
  BY Zenon DEF Restart, Reopen, storeVars
<1>2. Shape'
  BY <1>1, Zenon DEF Inv, Shape, Places, Idle
<1>3. ASSUME NEW c \in Contents PROVE CallRefs(c)' = 0
  <2>1. {x \in Threads : Refers(op'[x], c)} = {}
    BY <1>1, IdleShape, Zenon
  <2>2. CallRefs(c)' = Cardinality({x \in Threads : Refers(op'[x], c)})
    BY Zenon DEF CallRefs, Refers
  <2> QED
    BY <2>1, <2>2, FS_EmptySet, Zenon
<1>4. NoDanglingReference'
  BY <1>1, <1>3, Covered, SameEntries, Uncovered
<1> QED
  BY <1>2, <1>4, Zenon DEF Inv

-----------------------------------------------------------------------------

LEMMA InitInv == Init => Inv
<1> SUFFICES ASSUME Init PROVE Inv
  OBVIOUS
<1>1. Shape
  BY StoreAssumption, Zenon DEF Init, CasInit, Shape, Idle
<1>2. ASSUME NEW c \in Contents PROVE References(c) = 0
  <2>1. {e \in Places : files[e] = c} = {}
    BY StoreAssumption, Zenon DEF Init
  <2>2. {x \in Threads : Refers(op[x], c)} = {}
    BY IdleShape, Zenon DEF Init
  <2> QED
    BY <2>1, <2>2, FS_EmptySet DEF References, Init
<1>3. NoDanglingReference
  BY <1>2 DEF NoDanglingReference, Init, CasInit
<1> QED
  BY <1>1, <1>3, Zenon DEF Inv

LEMMA StepInv == Inv /\ [Next]_vars => Inv'
<1> SUFFICES ASSUME Inv, [Next]_vars PROVE Inv'
  OBVIOUS
<1>1. CASE UNCHANGED vars
  BY <1>1, Zenon DEF vars, casVars, storeVars, Inv, Shape, NoDanglingReference, References, Refers,
     Places
<1>2. ASSUME NEW x \in Threads, Call(x) PROVE Inv'
  BY <1>2, PutKeeps, WriteKeeps, RemoveKeeps, ShareKeeps, ReadKeeps, Zenon DEF Call
<1> QED
  BY <1>1, <1>2, RestartKeeps, Zenon DEF Next

(* store.cpp never lets the count of a content fall below the number of    *)
(* entries, callers and calls under way that refer to it, for any number   *)
(* of tenants, paths and threads, and whenever the process stops.          *)
THEOREM ReferencesAreCounted == Spec => []NoDanglingReference
<1>1. Inv => NoDanglingReference
  BY Zenon DEF Inv
<1> QED
  BY <1>1, InitInv, StepInv, PTL DEF Spec

-----------------------------------------------------------------------------
(* Chunks and ranges of bytes.                                             *)

(* Multiplication by the size of a chunk. *)
LEMMA Times ==
  ASSUME NEW k \in Nat \ {0}, NEW a \in Nat, NEW b \in Nat, a <= b
  PROVE  /\ a * k \in Nat /\ b * k \in Nat /\ a * k <= b * k
         /\ (a + 1) * k = a * k + k
  OBVIOUS

LEMMA Chunks ==
  ASSUME NEW c \in Contents
  PROVE  /\ NumChunks(c) \in Nat
         /\ NumChunks(c) # 0 => /\ NumChunks(c) * chunk_size >= Size[c]
                                /\ (NumChunks(c) - 1) * chunk_size < Size[c]
<1>1. chunk_size \in Nat \ {0} /\ Size[c] \in Nat
  BY CasAssumption, Zenon
<1>2. ASSUME NEW a \in Nat, NEW k \in Nat \ {0}, NEW m, m = a \div k
      PROVE  m \in Nat /\ m * k <= a /\ a < m * k + k
  BY <1>2
<1>3. CASE Size[c] > chunk_size
  <2>1. /\ Size[c] + chunk_size - 1 \in Nat
        /\ NumChunks(c) = (Size[c] + chunk_size - 1) \div chunk_size
    BY <1>1, <1>3 DEF NumChunks
  <2>2. PICK n : n = NumChunks(c)
    OBVIOUS
  <2>3. /\ n \in Nat /\ n * chunk_size <= Size[c] + chunk_size - 1
        /\ Size[c] + chunk_size - 1 < n * chunk_size + chunk_size
    BY <1>1, <1>2, <2>1, <2>2, Zenon
  <2>4. n # 0 => n * chunk_size >= Size[c] /\ (n - 1) * chunk_size < Size[c]
    BY ONLY <1>1, <2>3
  <2>5. QED
    BY ONLY <2>2, <2>3, <2>4, Zenon
<1>4. CASE Size[c] <= chunk_size
  BY <1>4, Zenon DEF NumChunks
<1>5. QED
  BY <1>1, <1>3, <1>4

(* One turn of the read loop on the chunk at pos, for the bytes offset to  *)
(* end: Upto is how far the bytes reach that were read before pos.         *)
Upto(pos, offset, end) == IF pos >= end THEN end ELSE IF pos <= offset THEN offset ELSE pos

LEMMA UptoRange ==
  ASSUME NEW pos \in Nat, NEW offset \in Nat, NEW end \in Nat, offset <= end
  PROVE  Upto(pos, offset, end) \in Nat /\ offset <= Upto(pos, offset, end)
  BY DEF Upto

(* Reading on. *)
LEMMA ReadOn ==
  ASSUME NEW c, NEW o \in Nat, NEW a \in Nat, NEW b \in Nat, o <= a, a <= b
  PROVE  BytesOf(c, o, a) \o BytesOf(c, a, b) = BytesOf(c, o, b)
<1>1. /\ BytesOf(c, o, a) \in Seq({c} \X Nat) /\ Len(BytesOf(c, o, a)) = a - o
      /\ BytesOf(c, a, b) \in Seq({c} \X Nat) /\ Len(BytesOf(c, a, b)) = b - a
      /\ BytesOf(c, o, b) \in Seq({c} \X Nat) /\ Len(BytesOf(c, o, b)) = b - o
  BY DEF BytesOf
<1>2. QED
  BY <1>1 DEF BytesOf

-----------------------------------------------------------------------------
(* The blocks of the content store: what holds of them, and what a         *)
(* transaction does to them.                                               *)

(* The types of the content store; an entry has all of its chunks. *)
CasInv ==
    /\ chunks \in [Contents -> Seq(Seqs)]
    /\ blocks \in [Roots -> [Seqs -> Pieces \cup {NoBlock}]]
    /\ nextSeq \in 1 .. MaxSeq + 1
    /\ \A c \in Contents : Len(chunks[c]) = IF refcount[c] = 0 THEN 0 ELSE NumChunks(c)

(* Until the store is opened again: the blocks of an entry were allocated  *)
(* and hold its bytes, no two chunks share one, and every block is some    *)
(* chunk's.                                                                *)
Stored ==
    \A c \in Contents : \A i \in DOMAIN chunks[c] :
        /\ i \in Seqs /\ chunks[c][i] < nextSeq
        /\ blocks[RootForCid[c]][chunks[c][i]] = ChunkOf(c, i)

Unshared ==
    \A c, d \in Contents : \A i \in DOMAIN chunks[c], j \in DOMAIN chunks[d] :
        chunks[c][i] = chunks[d][j] => c = d /\ i = j

Owned ==
    \A r \in Roots, q \in Seqs : blocks[r][q] # NoBlock =>
        \E c \in Contents : \E i \in DOMAIN chunks[c] : RootForCid[c] = r /\ chunks[c][i] = q

BlockInv == Stored /\ Unshared /\ Owned

-----------------------------------------------------------------------------
(* What a transaction does to the blocks: it makes an entry with its       *)
(* blocks, removes one with its blocks, or only counts.                    *)

Grows(c) ==
    /\ DOMAIN chunks[c] = {}
    /\ nextSeq' = nextSeq + NumChunks(c)
    /\ \A d \in Contents \ {c} : chunks'[d] = chunks[d]
    /\ DOMAIN chunks'[c] = 1 .. NumChunks(c)
    /\ \A i \in 1 .. NumChunks(c) : chunks'[c][i] = nextSeq + i - 1
    /\ \A r \in Roots, q \in Seqs :
          blocks'[r][q] = IF r = RootForCid[c] /\ nextSeq <= q /\ q < nextSeq'
                          THEN ChunkOf(c, q - nextSeq + 1) ELSE blocks[r][q]

Shrinks(c) ==
    /\ nextSeq' = nextSeq
    /\ \A d \in Contents \ {c} : chunks'[d] = chunks[d]
    /\ DOMAIN chunks'[c] = {}
    /\ \A r \in Roots, q \in Seqs :
          blocks'[r][q] = IF r = RootForCid[c] /\ \E i \in DOMAIN chunks[c] : chunks[c][i] = q
                          THEN NoBlock ELSE blocks[r][q]

Stays == UNCHANGED <<chunks, blocks, nextSeq>>

LEMMA EmptyChunks ==
  ASSUME NEW S, NEW q \in Seq(S)
  PROVE  (Len(q) = 0 <=> q = <<>>) /\ DOMAIN q = 1 .. Len(q) /\ Len(q) \in Nat
         /\ (Len(q) = 0 => DOMAIN q = {})
  OBVIOUS

LEMMA Allocation ==
  ASSUME Shape, CasInv, NEW c \in Contents, put(c), refcount[c] = 0
  PROVE  CasInv' /\ Grows(c)
<1> DEFINE n == NumChunks(c)
           R == RootForCid[c]
           new == [q \in Seqs |-> IF q \in nextSeq .. nextSeq + n - 1
                                  THEN ChunkOf(c, q - nextSeq + 1) ELSE blocks[R][q]]
<1>1. n \in Nat /\ R \in Roots /\ nextSeq \in Nat \ {0} /\ MaxSeq \in Nat
  BY Chunks, CasAssumption DEF CasInv
<1>2. /\ nextSeq + n <= MaxSeq + 1 /\ nextSeq' = nextSeq + n
      /\ chunks' = [chunks EXCEPT ![c] = [i \in 1..n |-> nextSeq + i - 1]]
      /\ blocks' = [blocks EXCEPT ![R] = new]
  BY DEF put, alloc
<1>3. [i \in 1..n |-> nextSeq + i - 1] \in Seq(Seqs) /\ Len([i \in 1..n |-> nextSeq + i - 1]) = n
  <2>1. \A i \in 1..n : nextSeq + i - 1 \in Seqs
    BY ONLY <1>1, <1>2 DEF Seqs
  <2>2. QED
    BY ONLY <1>1, <2>1
<1>4. /\ chunks' \in [Contents -> Seq(Seqs)]
      /\ chunks'[c] = [i \in 1..n |-> nextSeq + i - 1]
      /\ \A d \in Contents \ {c} : chunks'[d] = chunks[d]
  BY ONLY <1>2, <1>3, c \in Contents, CasInv DEF CasInv
<1>5. new \in [Seqs -> Pieces \cup {NoBlock}]
  <2>1. ASSUME NEW q \in Seqs, q \in nextSeq .. nextSeq + n - 1
        PROVE  ChunkOf(c, q - nextSeq + 1) \in Pieces
    <3>1. q - nextSeq + 1 \in 1 .. MaxSeq
      BY ONLY <1>1, <1>2, <2>1
    <3>2. QED
      BY ONLY <3>1, c \in Contents DEF Pieces
  <2>2. \A q \in Seqs : blocks[R][q] \in Pieces \cup {NoBlock}
    BY ONLY <1>1, CasInv, Zenon DEF CasInv
  <2>3. QED
    BY ONLY <2>1, <2>2
<1>6. blocks' \in [Roots -> [Seqs -> Pieces \cup {NoBlock}]]
  BY ONLY <1>1, <1>2, <1>5, CasInv DEF CasInv
<1>7. ASSUME NEW r \in Roots, NEW q \in Seqs
      PROVE  blocks'[r][q] = IF r = R /\ nextSeq <= q /\ q < nextSeq'
                             THEN ChunkOf(c, q - nextSeq + 1) ELSE blocks[r][q]
  <2>1. q \in nextSeq .. nextSeq + n - 1 <=> nextSeq <= q /\ q < nextSeq'
    BY ONLY <1>1, <1>2, q \in Seqs DEF Seqs
  <2>2. blocks'[r] = IF r = R THEN new ELSE blocks[r]
    BY ONLY <1>2, <1>1, CasInv, r \in Roots DEF CasInv
  <2>3. QED
    BY ONLY <2>1, <2>2, q \in Seqs
<1>8. \A d \in Contents : Len(chunks'[d]) = IF refcount'[d] = 0 THEN 0 ELSE NumChunks(d)
  <2>1. refcount'[c] # 0 /\ \A d \in Contents \ {c} : refcount'[d] = refcount[d]
    BY CountUp DEF Shape
  <2>2. Len(chunks'[c]) = NumChunks(c)
    BY ONLY <1>3, <1>4, Zenon
  <2>3. QED
    BY ONLY <1>4, <2>1, <2>2, CasInv, Zenon DEF CasInv
<1>9. CasInv'
  BY ONLY <1>1, <1>2, <1>4, <1>6, <1>8 DEF CasInv
<1>10. DOMAIN chunks[c] = {}
  BY ONLY CasInv, refcount[c] = 0, c \in Contents, EmptyChunks, Zenon DEF CasInv
<1>11. Grows(c)
  <2>1. /\ DOMAIN chunks'[c] = 1 .. NumChunks(c)
        /\ \A i \in 1 .. NumChunks(c) : chunks'[c][i] = nextSeq + i - 1
    BY ONLY <1>4
  <2>2. QED
    BY ONLY <1>2, <1>4, <1>7, <1>10, <2>1, Zenon DEF Grows
<1>12. QED
  BY ONLY <1>9, <1>11, Zenon

LEMMA Release ==
  ASSUME Shape, CasInv, NEW c \in Contents, unpin(c), refcount[c] = 1
  PROVE  CasInv' /\ Shrinks(c)
<1> DEFINE R == RootForCid[c]
           ids == {chunks[c][i] : i \in DOMAIN chunks[c]}
           new == [q \in Seqs |-> IF q \in ids THEN NoBlock ELSE blocks[R][q]]
<1>1. R \in Roots
  BY CasAssumption, Zenon
<1>2. /\ nextSeq' = nextSeq
      /\ chunks' = [chunks EXCEPT ![c] = <<>>]
      /\ blocks' = [blocks EXCEPT ![R] = new]
  BY Zenon DEF unpin, free
<1>4. /\ chunks' \in [Contents -> Seq(Seqs)]
      /\ chunks'[c] = <<>>
      /\ \A d \in Contents \ {c} : chunks'[d] = chunks[d]
  BY ONLY <1>2, c \in Contents, CasInv DEF CasInv
<1>5. new \in [Seqs -> Pieces \cup {NoBlock}]
  <2>2. \A q \in Seqs : blocks[R][q] \in Pieces \cup {NoBlock}
    BY ONLY <1>1, CasInv, Zenon DEF CasInv
  <2>3. QED
    BY ONLY <2>2, Zenon
<1>6. blocks' \in [Roots -> [Seqs -> Pieces \cup {NoBlock}]]
  BY ONLY <1>1, <1>2, <1>5, CasInv, Zenon DEF CasInv
<1>7. ASSUME NEW r \in Roots, NEW q \in Seqs
      PROVE  blocks'[r][q] = IF r = R /\ \E i \in DOMAIN chunks[c] : chunks[c][i] = q
                             THEN NoBlock ELSE blocks[r][q]
  <2>1. q \in ids <=> \E i \in DOMAIN chunks[c] : chunks[c][i] = q
    BY ONLY Zenon
  <2>2. blocks'[r] = IF r = R THEN new ELSE blocks[r]
    BY ONLY <1>2, <1>1, CasInv, r \in Roots DEF CasInv
  <2> HIDE DEF ids
  <2>3. QED
    BY ONLY <2>1, <2>2, q \in Seqs
<1>8. \A d \in Contents : Len(chunks'[d]) = IF refcount'[d] = 0 THEN 0 ELSE NumChunks(d)
  <2>1. refcount'[c] = 0 /\ \A d \in Contents \ {c} : refcount'[d] = refcount[d]
    BY CountDown DEF Shape
  <2>2. Len(chunks'[c]) = 0
    BY ONLY <1>4
  <2>3. QED
    BY ONLY <1>4, <2>1, <2>2, CasInv, Zenon DEF CasInv
<1>9. CasInv'
  BY ONLY <1>2, <1>4, <1>6, <1>8, CasInv, Zenon DEF CasInv
<1>11. Shrinks(c)
  <2>1. DOMAIN chunks'[c] = {}
    BY ONLY <1>4
  <2>2. QED
    BY ONLY <1>2, <1>4, <1>7, <2>1, Zenon DEF Shrinks
<1>12. QED
  BY ONLY <1>9, <1>11, Zenon

LEMMA Transaction ==
  ASSUME Shape, CasInv, NEW c \in Contents, put(c) \/ pin(c) \/ unpin(c)
  PROVE  CasInv' /\ (Grows(c) \/ Shrinks(c) \/ Stays)
<1>1. CASE put(c) /\ refcount[c] = 0
  BY <1>1, Allocation, Zenon
<1>2. CASE unpin(c) /\ refcount[c] = 1
  BY <1>2, Release, Zenon
<1>3. CASE ~(put(c) /\ refcount[c] = 0) /\ ~(unpin(c) /\ refcount[c] = 1)
  <2>1. refcount[c] \in Nat /\ chunks = [d \in Contents |-> chunks[d]]
    BY Zenon DEF Shape, CasInv
  <2>2. Stays /\ \A d \in Contents : refcount'[d] = 0 <=> refcount[d] = 0
    <3>1. CASE put(c) \/ pin(c)
      <4>1. refcount[c] # 0 /\ Stays
        BY <1>3, <2>1, <3>1 DEF put, pin, Stays
      <4>2. QED
        BY <2>1, <3>1, <4>1, CountUp
    <3>2. CASE unpin(c)
      <4>1. chunks' = [chunks EXCEPT ![c] = chunks[c]] /\ UNCHANGED <<blocks, nextSeq>>
        BY <1>3, <3>2, Zenon DEF unpin
      <4>2. Stays
        BY <2>1, <4>1, Zenon DEF Stays
      <4>3. refcount' = [refcount EXCEPT ![c] = IF refcount[c] = 0 THEN 0 ELSE refcount[c] - 1]
        BY <3>2, Zenon DEF unpin
      <4>4. QED
        BY <1>3, <2>1, <3>2, <4>2, <4>3 DEF Shape
    <3>3. QED
      BY <3>1, <3>2, Zenon
  <2>3. QED
    BY ONLY <2>2, CasInv, Zenon DEF Stays, CasInv
<1>4. QED
  BY <1>1, <1>2, <1>3, Zenon

-----------------------------------------------------------------------------
(* The blocks, transaction by transaction.                                 *)

LEMMA IsABlock == ASSUME NEW c \in Contents, NEW i PROVE ChunkOf(c, i) # NoBlock
<1>1. ChunkOf(c, i).c = c /\ NoBlock.c = "none"
  BY Zenon DEF ChunkOf, Piece, NoBlock
<1>2. QED
  BY ONLY <1>1, c \in Contents, CasAssumption, Zenon

(* The ids in an entry are numbers of blocks. *)
LEMMA IdsAreSeqs ==
  ASSUME CasInv
  PROVE  /\ \A c \in Contents : \A i \in DOMAIN chunks[c] :
                i \in Nat \ {0} /\ chunks[c][i] \in Seqs /\ chunks[c][i] \in Nat
         /\ nextSeq \in Nat \ {0} /\ nextSeq <= MaxSeq + 1 /\ MaxSeq \in Nat
  BY CasAssumption DEF CasInv, Seqs

LEMMA GrowsKeeps ==
  ASSUME CasInv, CasInv', BlockInv, NEW c \in Contents, Grows(c)
  PROVE  BlockInv'
<1> DEFINE n == NumChunks(c)
<1>1. /\ n \in Nat /\ nextSeq' = nextSeq + n
      /\ nextSeq \in Nat \ {0} /\ nextSeq' \in Nat /\ nextSeq' <= MaxSeq + 1 /\ MaxSeq \in Nat
  BY Chunks, IdsAreSeqs, CasAssumption DEF Grows, CasInv
<1>2. /\ DOMAIN chunks[c] = {} /\ DOMAIN chunks'[c] = 1..n
      /\ \A i \in 1..n : chunks'[c][i] = nextSeq + i - 1
      /\ \A d \in Contents \ {c} : chunks'[d] = chunks[d]
  BY Zenon DEF Grows
<1>3. \A r \in Roots, q \in Seqs :
          blocks'[r][q] = IF r = RootForCid[c] /\ nextSeq <= q /\ q < nextSeq'
                          THEN ChunkOf(c, q - nextSeq + 1) ELSE blocks[r][q]
  BY Zenon DEF Grows
<1>4. RootForCid \in [Contents -> Roots]
  BY CasAssumption, Zenon
<1> HIDE DEF n
<1>5. \A d \in Contents \ {c} : \A i \in DOMAIN chunks'[d] :
         /\ i \in DOMAIN chunks[d] /\ chunks'[d][i] = chunks[d][i]
         /\ chunks[d][i] \in Seqs /\ chunks[d][i] \in Nat
         /\ i \in Seqs /\ chunks[d][i] < nextSeq
         /\ blocks[RootForCid[d]][chunks[d][i]] = ChunkOf(d, i)
  BY ONLY <1>2, BlockInv, CasInv, IdsAreSeqs, Zenon DEF BlockInv, Stored
<1>6. \A i \in 1..n : /\ nextSeq + i - 1 \in Seqs /\ i \in Seqs /\ nextSeq <= nextSeq + i - 1
                      /\ nextSeq + i - 1 < nextSeq' /\ (nextSeq + i - 1) - nextSeq + 1 = i
                      /\ ~(nextSeq + i - 1 < nextSeq)
                      /\ \A j \in 1..n : nextSeq + i - 1 = nextSeq + j - 1 => i = j
  BY ONLY <1>1 DEF Seqs
<1>7. Stored'
  <2>1. ASSUME NEW d \in Contents, NEW i \in DOMAIN chunks'[d]
        PROVE  /\ i \in Seqs /\ chunks'[d][i] < nextSeq'
               /\ blocks'[RootForCid[d]][chunks'[d][i]] = ChunkOf(d, i)
    <3>1. CASE d = c
      <4>1. i \in 1..n /\ chunks'[c][i] = nextSeq + i - 1
        BY ONLY <1>2, <2>1, <3>1, Zenon
      <4>2. blocks'[RootForCid[c]][nextSeq + i - 1] = ChunkOf(c, (nextSeq + i - 1) - nextSeq + 1)
        BY ONLY <1>3, <1>4, <1>6, <4>1, c \in Contents, Zenon
      <4>3. QED
        BY ONLY <1>6, <3>1, <4>1, <4>2, Zenon
    <3>2. CASE d # c
      <4>1. d \in Contents \ {c} /\ RootForCid[d] \in Roots
        BY ONLY <1>4, <3>2, d \in Contents
      <4>2. ~(nextSeq <= chunks[d][i]) /\ chunks[d][i] < nextSeq'
        <5>1. chunks[d][i] \in Nat /\ chunks[d][i] < nextSeq
          BY ONLY <1>5, <4>1, i \in DOMAIN chunks'[d], Zenon
        <5>2. QED
          BY ONLY <1>1, <5>1
      <4>3. blocks'[RootForCid[d]][chunks[d][i]] = blocks[RootForCid[d]][chunks[d][i]]
        BY ONLY <1>3, <1>5, <4>1, <4>2, i \in DOMAIN chunks'[d], Zenon
      <4>4. QED
        BY ONLY <1>5, <4>1, <4>2, <4>3, i \in DOMAIN chunks'[d], Zenon
    <3>3. QED
      BY ONLY <3>1, <3>2, Zenon
  <2>2. QED
    BY ONLY <2>1, Zenon DEF Stored
<1>8. Unshared'
  <2>1. ASSUME NEW d \in Contents, NEW e \in Contents,
               NEW i \in DOMAIN chunks'[d], NEW j \in DOMAIN chunks'[e],
               chunks'[d][i] = chunks'[e][j]
        PROVE  d = e /\ i = j
    <3>1. CASE d = c /\ e = c
      <4>1. i \in 1..n /\ j \in 1..n /\ nextSeq + i - 1 = nextSeq + j - 1
        BY ONLY <1>2, <2>1, <3>1, Zenon
      <4>2. QED
        BY ONLY <1>6, <3>1, <4>1, Zenon
    <3>2. CASE d = c /\ e # c
      <4>1. i \in 1..n /\ chunks'[d][i] = nextSeq + i - 1
        BY ONLY <1>2, <2>1, <3>2, Zenon
      <4>2. chunks'[e][j] < nextSeq
        BY ONLY <1>5, <2>1, <3>2, Zenon
      <4>3. QED
        BY ONLY <1>1, <2>1, <4>1, <4>2
    <3>3. CASE d # c /\ e = c
      <4>1. j \in 1..n /\ chunks'[e][j] = nextSeq + j - 1
        BY ONLY <1>2, <2>1, <3>3, Zenon
      <4>2. chunks'[d][i] < nextSeq
        BY ONLY <1>5, <2>1, <3>3, Zenon
      <4>3. QED
        BY ONLY <1>1, <2>1, <4>1, <4>2
    <3>4. CASE d # c /\ e # c
      <4>1. /\ i \in DOMAIN chunks[d] /\ j \in DOMAIN chunks[e]
            /\ chunks[d][i] = chunks[e][j]
        BY ONLY <1>2, <2>1, <3>4, Zenon
      <4>2. Unshared
        BY ONLY BlockInv, Zenon DEF BlockInv
      <4>3. QED
        BY ONLY <4>1, <4>2, d \in Contents, e \in Contents, Zenon DEF Unshared
    <3>5. QED
      BY ONLY <3>1, <3>2, <3>3, <3>4, Zenon
  <2>2. QED
    BY ONLY <2>1, Zenon DEF Unshared
<1>9. Owned'
  <2>1. ASSUME NEW r \in Roots, NEW q \in Seqs, blocks'[r][q] # NoBlock
        PROVE  \E d \in Contents : \E i \in DOMAIN chunks'[d] :
                  RootForCid[d] = r /\ chunks'[d][i] = q
    <3>1. CASE r = RootForCid[c] /\ nextSeq <= q /\ q < nextSeq'
      <4>1. q - nextSeq + 1 \in 1..n /\ nextSeq + (q - nextSeq + 1) - 1 = q
        BY ONLY <1>1, <3>1, q \in Seqs DEF Seqs
      <4>2. QED
        BY ONLY <1>2, <3>1, <4>1, c \in Contents, Zenon
    <3>2. CASE ~(r = RootForCid[c] /\ nextSeq <= q /\ q < nextSeq')
      <4>1. blocks[r][q] # NoBlock
        BY ONLY <1>3, <2>1, <3>2, Zenon
      <4>2. PICK d \in Contents : \E i \in DOMAIN chunks[d] : RootForCid[d] = r /\ chunks[d][i] = q
        BY ONLY <2>1, <4>1, BlockInv, Zenon DEF BlockInv, Owned
      <4>3. d # c
        BY ONLY <1>2, <4>2, Zenon
      <4>4. chunks'[d] = chunks[d]
        BY ONLY <1>2, <4>3, d \in Contents, Zenon
      <4>5. QED
        BY ONLY <4>2, <4>4, Zenon
    <3>3. QED
      BY ONLY <3>1, <3>2, Zenon
  <2>2. QED
    BY ONLY <2>1, Zenon DEF Owned
<1>10. QED
  BY ONLY <1>7, <1>8, <1>9, Zenon DEF BlockInv

LEMMA ShrinksKeeps ==
  ASSUME CasInv, BlockInv, NEW c \in Contents, Shrinks(c)
  PROVE  BlockInv'
<1>1. /\ DOMAIN chunks'[c] = {} /\ nextSeq' = nextSeq
      /\ \A d \in Contents \ {c} : chunks'[d] = chunks[d]
  BY Zenon DEF Shrinks
<1>2. \A r \in Roots, q \in Seqs :
          blocks'[r][q] = IF r = RootForCid[c] /\ \E i \in DOMAIN chunks[c] : chunks[c][i] = q
                          THEN NoBlock ELSE blocks[r][q]
  BY Zenon DEF Shrinks
<1>3. \A d \in Contents : RootForCid[d] \in Roots
  BY CasAssumption, Zenon
<1>4. \A d \in Contents : \A i \in DOMAIN chunks[d] : chunks[d][i] \in Seqs
  BY IdsAreSeqs, Zenon
<1>5. \A d \in Contents : \A i \in DOMAIN chunks'[d] :
         d # c /\ i \in DOMAIN chunks[d] /\ chunks'[d][i] = chunks[d][i]
  BY ONLY <1>1, Zenon
<1>6. Stored'
  <2>1. ASSUME NEW d \in Contents, NEW i \in DOMAIN chunks'[d]
        PROVE  /\ i \in Seqs /\ chunks'[d][i] < nextSeq'
               /\ blocks'[RootForCid[d]][chunks'[d][i]] = ChunkOf(d, i)
    <3>1. /\ i \in Seqs /\ chunks[d][i] < nextSeq /\ chunks'[d][i] = chunks[d][i]
          /\ blocks[RootForCid[d]][chunks[d][i]] = ChunkOf(d, i)
      BY ONLY <1>5, <2>1, BlockInv, Zenon DEF BlockInv, Stored
    <3>2. ~\E j \in DOMAIN chunks[c] : chunks[c][j] = chunks[d][i]
      BY ONLY <1>5, <2>1, c \in Contents, BlockInv, Zenon DEF BlockInv, Unshared
    <3>3. blocks'[RootForCid[d]][chunks[d][i]] = blocks[RootForCid[d]][chunks[d][i]]
      <4>1. RootForCid[d] \in Roots /\ chunks[d][i] \in Seqs
        BY ONLY <1>3, <1>4, <1>5, <2>1, Zenon
      <4>2. QED
        BY ONLY <1>2, <3>2, <4>1, Zenon
    <3>4. QED
      BY ONLY <1>1, <3>1, <3>3, Zenon
  <2>2. QED
    BY ONLY <2>1, Zenon DEF Stored
<1>7. Unshared'
  <2>1. ASSUME NEW d \in Contents, NEW e \in Contents,
               NEW i \in DOMAIN chunks'[d], NEW j \in DOMAIN chunks'[e],
               chunks'[d][i] = chunks'[e][j]
        PROVE  d = e /\ i = j
    <3>1. /\ i \in DOMAIN chunks[d] /\ j \in DOMAIN chunks[e]
          /\ chunks[d][i] = chunks[e][j]
      BY ONLY <1>5, <2>1, Zenon
    <3>2. Unshared
      BY ONLY BlockInv, Zenon DEF BlockInv
    <3>3. QED
      BY ONLY <3>1, <3>2, d \in Contents, e \in Contents, Zenon DEF Unshared
  <2>2. QED
    BY ONLY <2>1, Zenon DEF Unshared
<1>8. Owned'
  <2>1. ASSUME NEW r \in Roots, NEW q \in Seqs, blocks'[r][q] # NoBlock
        PROVE  \E d \in Contents : \E i \in DOMAIN chunks'[d] :
                  RootForCid[d] = r /\ chunks'[d][i] = q
    <3>1. /\ blocks[r][q] # NoBlock
          /\ ~(r = RootForCid[c] /\ \E i \in DOMAIN chunks[c] : chunks[c][i] = q)
      BY ONLY <1>2, <2>1, Zenon
    <3>2. PICK d \in Contents : \E i \in DOMAIN chunks[d] : RootForCid[d] = r /\ chunks[d][i] = q
      BY ONLY <2>1, <3>1, BlockInv, Zenon DEF BlockInv, Owned
    <3>3. d # c
      BY ONLY <3>1, <3>2, Zenon
    <3>4. chunks'[d] = chunks[d]
      BY ONLY <1>1, <3>3, d \in Contents, Zenon
    <3>5. QED
      BY ONLY <3>2, <3>4, Zenon
  <2>2. QED
    BY ONLY <2>1, Zenon DEF Owned
<1>9. QED
  BY ONLY <1>6, <1>7, <1>8, Zenon DEF BlockInv

LEMMA StaysKeeps == ASSUME BlockInv, Stays PROVE BlockInv'
<1>1. chunks' = chunks /\ blocks' = blocks /\ nextSeq' = nextSeq
  BY Zenon DEF Stays
<1>2. Stored'
  BY ONLY <1>1, BlockInv, Zenon DEF BlockInv, Stored
<1>3. Unshared'
  BY ONLY <1>1, BlockInv DEF BlockInv, Unshared
<1>4. Owned'
  BY ONLY <1>1, BlockInv DEF BlockInv, Owned
<1>5. QED
  BY ONLY <1>2, <1>3, <1>4, Zenon DEF BlockInv

(* No block is overwritten before it is freed, and none is allocated under *)
(* a number that was used.                                                 *)
LEMMA BlocksOnlyGo ==
  ASSUME CasInv, NEW c \in Contents, Grows(c) \/ Shrinks(c) \/ Stays
  PROVE  /\ nextSeq' \in Nat /\ nextSeq <= nextSeq'
         /\ \A r \in Roots, q \in Seqs : q < nextSeq => blocks'[r][q] \in {NoBlock, blocks[r][q]}
<1>1. NumChunks(c) \in Nat /\ nextSeq \in Nat
  BY Chunks, IdsAreSeqs, Zenon
<1>2. CASE Grows(c)
  <2>1. nextSeq' \in Nat /\ nextSeq <= nextSeq'
    BY <1>1, <1>2 DEF Grows
  <2>2. \A q \in Seqs : q < nextSeq => ~(nextSeq <= q)
    BY <1>1 DEF Seqs
  <2>3. QED
    BY ONLY <1>2, <2>1, <2>2, Zenon DEF Grows
<1>3. CASE Shrinks(c) \/ Stays
  <2>1. nextSeq' = nextSeq
    BY ONLY <1>3, Zenon DEF Shrinks, Stays
  <2>2. \A r \in Roots, q \in Seqs : blocks'[r][q] \in {NoBlock, blocks[r][q]}
    <3>1. CASE Stays
      BY ONLY <3>1, Zenon DEF Stays
    <3>2. CASE Shrinks(c)
      <4>1. \A r \in Roots, q \in Seqs : blocks'[r][q] = NoBlock \/ blocks'[r][q] = blocks[r][q]
        <5>1. ASSUME NEW r \in Roots, NEW q \in Seqs
              PROVE  blocks'[r][q] = NoBlock \/ blocks'[r][q] = blocks[r][q]
          BY ONLY <3>2, r \in Roots, q \in Seqs DEF Shrinks
        <5>2. QED
          BY ONLY <5>1, Zenon
      <4>2. QED
        BY ONLY <4>1, Zenon
    <3>3. QED
      BY ONLY <1>3, <3>1, <3>2, Zenon
  <2>3. QED
    BY <1>1, <2>1, <2>2
<1>4. QED
  BY <1>2, <1>3, Zenon

LEMMA BlocksBelong == ASSUME CasInv, BlockInv PROVE BlocksBelongToEntries
<1> DEFINE owners(r, q) == {w \in Contents \X Seqs :
                               /\ RootForCid[w[1]] = r
                               /\ w[2] \in DOMAIN chunks[w[1]] /\ chunks[w[1]][w[2]] = q}
<1>0. Stored /\ Unshared /\ Owned
  BY Zenon DEF BlockInv
<1>1. ASSUME NEW r \in Roots, NEW q \in Seqs
      PROVE  IF blocks[r][q] = NoBlock THEN owners(r, q) = {}
             ELSE \E c \in Contents, i \in Seqs :
                     owners(r, q) = {<<c, i>>} /\ blocks[r][q] = ChunkOf(c, i)
  <2>1. \A c \in Contents, i \in Seqs : <<c, i>> \in owners(r, q) <=>
           RootForCid[c] = r /\ i \in DOMAIN chunks[c] /\ chunks[c][i] = q
    OBVIOUS
  <2>2. \A w \in owners(r, q) : \E c \in Contents, i \in Seqs : w = <<c, i>>
    OBVIOUS
  <2> HIDE DEF owners
  <2>3. CASE blocks[r][q] = NoBlock
    <3>1. ASSUME NEW c \in Contents, NEW i \in Seqs, <<c, i>> \in owners(r, q) PROVE FALSE
      <4>1. RootForCid[c] = r /\ i \in DOMAIN chunks[c] /\ chunks[c][i] = q
        BY ONLY <2>1, <3>1, Zenon
      <4>2. blocks[r][q] = ChunkOf(c, i)
        BY ONLY <1>0, <4>1, c \in Contents, Zenon DEF Stored
      <4>3. QED
        BY ONLY <2>3, <4>2, IsABlock, c \in Contents, Zenon
    <3>2. QED
      BY ONLY <2>2, <2>3, <3>1, Zenon
  <2>4. CASE blocks[r][q] # NoBlock
    <3>1. PICK c \in Contents : \E i \in DOMAIN chunks[c] : RootForCid[c] = r /\ chunks[c][i] = q
      BY ONLY <1>0, <1>1, <2>4, Zenon DEF Owned
    <3>2. PICK i \in DOMAIN chunks[c] : RootForCid[c] = r /\ chunks[c][i] = q
      BY ONLY <3>1, Zenon
    <3>3. i \in Seqs /\ blocks[r][q] = ChunkOf(c, i)
      BY ONLY <1>0, <3>2, c \in Contents, Zenon DEF Stored
    <3>4. <<c, i>> \in owners(r, q)
      BY ONLY <2>1, <3>2, <3>3, c \in Contents, Zenon
    <3>5. ASSUME NEW d \in Contents, NEW j \in Seqs, <<d, j>> \in owners(r, q) PROVE d = c /\ j = i
      <4>1. j \in DOMAIN chunks[d] /\ chunks[d][j] = chunks[c][i]
        BY ONLY <2>1, <3>2, <3>5, Zenon
      <4>2. QED
        BY ONLY <1>0, <3>2, <4>1, c \in Contents, d \in Contents, Zenon DEF Unshared
    <3>6. owners(r, q) = {<<c, i>>}
      BY ONLY <2>2, <3>4, <3>5, Zenon
    <3>7. QED
      BY ONLY <2>4, <3>3, <3>6, c \in Contents, Zenon
  <2>5. QED
    BY ONLY <2>3, <2>4, Zenon
<1>2. QED
  BY ONLY <1>1, Zenon DEF BlocksBelongToEntries

-----------------------------------------------------------------------------
(* Reads: the record of a call that is reading.                            *)

LEMMA SeqsAreNumbers == \A q \in Seqs : q \in Nat
  BY CasAssumption DEF Seqs

(* The records of the calls. *)
LEMMA CallRecords ==
  /\ Idle \in Ops /\ Idle.at = "idle"
  /\ \A e \in Tenants \X Paths, c \in Contents, a \in {"write", "share", "pin"} :
        [at |-> a, place |-> e, c |-> c] \in Ops
  /\ \A c \in Contents, a \in {"unpin", "open"} : [at |-> a, c |-> c] \in Ops
  BY Zenon DEF Ops, Idle

ReadOps == [at : {"read", "done"}, c : Contents, ids : Seq(Seqs),
            i : Nat, offset : Nat, end : Nat, got : Seq(Contents \X Nat)]

LEMMA ReadRecord ==
  ASSUME NEW o \in Ops
  PROVE  /\ o.at \in {"read", "done"} => o \in ReadOps
         /\ o.at \in {"write", "share", "pin", "unpin", "open"} => o.c \in Contents
         /\ o.at \in {"write", "share", "pin"} =>
               o.place \in Tenants \X Paths /\ o = [at |-> o.at, place |-> o.place, c |-> o.c]
<1>1. CASE o \in ReadOps
  BY <1>1, Zenon DEF ReadOps
<1>2. CASE o \in [at : {"write", "share"}, place : Tenants \X Paths, c : Contents]
  BY <1>2, Zenon
<1>3. CASE o \in [at : {"pin"}, place : Tenants \X Paths, c : Contents]
  BY <1>3, Zenon
<1>4. CASE o \in [at : {"unpin"}, c : Contents] \cup [at : {"open"}, c : Contents]
  BY <1>4, Zenon
<1>5. CASE o = Idle
  BY <1>5, Zenon DEF Idle
<1>6. QED
  BY <1>1, <1>2, <1>3, <1>4, <1>5 DEF Ops, ReadOps

LEMMA ReadOpsAreOps == ReadOps \subseteq Ops
  BY Zenon DEF Ops, ReadOps

LEMMA ReadFields ==
  ASSUME NEW o \in ReadOps
  PROVE  /\ o.at \in {"read", "done"} /\ o.c \in Contents /\ o.ids \in Seq(Seqs)
         /\ o.i \in Nat /\ o.offset \in Nat /\ o.end \in Nat
         /\ o.got \in Seq(Contents \X Nat)
  BY Zenon DEF ReadOps

(* What the loop over the chunks does to the record. *)
LEMMA ReadMoves ==
  ASSUME NEW o \in ReadOps
  PROVE  /\ LET p == [o EXCEPT !.at = "done"]
            IN  /\ p \in ReadOps /\ p.at = "done" /\ p.c = o.c
                /\ p.offset = o.offset /\ p.end = o.end /\ p.got = o.got
         /\ LET p == [o EXCEPT !.i = @ + 1]
            IN  /\ p \in ReadOps /\ p.at = o.at /\ p.c = o.c /\ p.ids = o.ids /\ p.i = o.i + 1
                /\ p.offset = o.offset /\ p.end = o.end /\ p.got = o.got
<1>1. o.i + 1 \in Nat
  BY ReadFields
<1>2. QED
  BY <1>1, Zenon DEF ReadOps

LEMMA ReadMovesOn ==
  ASSUME NEW o \in ReadOps, NEW bytes \in Seq(Contents \X Nat)
  PROVE  LET p == [o EXCEPT !.i = @ + 1, !.got = @ \o bytes]
         IN  /\ p \in ReadOps /\ p.at = o.at /\ p.c = o.c /\ p.ids = o.ids /\ p.i = o.i + 1
             /\ p.offset = o.offset /\ p.end = o.end /\ p.got = o.got \o bytes
<1>1. o.got \o bytes \in Seq(Contents \X Nat) /\ o.i + 1 \in Nat
  BY DEF ReadOps
<1>2. QED
  BY <1>1, Zenon DEF ReadOps

-----------------------------------------------------------------------------
(* A read under way stays inside its content and has all of its ids ...    *)
InRange(o) ==
    o.at = "read" =>
        /\ o.i # 0 /\ Len(o.ids) = NumChunks(o.c) /\ NumChunks(o.c) # 0
        /\ o.offset <= o.end /\ o.end <= Size[o.c]

(* ... and, until the store is opened again, has the bytes up to the chunk *)
(* it is at; its other blocks are still there or gone, but never another's. *)
Faithful(o, n, b) ==
    /\ o.at = "read" =>
          /\ \A k \in DOMAIN o.ids : \A r \in Roots :
                o.ids[k] < n /\ b[r][o.ids[k]] \in {NoBlock, ChunkOf(o.c, k)}
          /\ o.got = BytesOf(o.c, o.offset, Upto((o.i - 1) * chunk_size, o.offset, o.end))
    /\ o.at = "done" => o.got = BytesOf(o.c, o.offset, o.end)

OpInv == op \in [Threads -> Ops] /\ \A x \in Threads : InRange(op[x])

ReadInv == \A x \in Threads : Faithful(op[x], nextSeq, blocks)

LEMMA NotReading ==
  ASSUME NEW o, o.at \notin {"read", "done"}
  PROVE  InRange(o) /\ \A n, b : Faithful(o, n, b)
  BY Zenon DEF InRange, Faithful

(* Other transactions do not disturb it. *)
LEMMA StaysFaithful ==
  ASSUME NEW o \in Ops, NEW n \in Nat, NEW m \in Nat, n <= m, NEW b, NEW d, Faithful(o, n, b),
         \A r \in Roots, q \in Seqs : q < n => d[r][q] \in {NoBlock, b[r][q]}
  PROVE  Faithful(o, m, d)
<1>1. CASE o.at = "read"
  <2>1. ASSUME NEW k \in DOMAIN o.ids, NEW r \in Roots
        PROVE  o.ids[k] < m /\ d[r][o.ids[k]] \in {NoBlock, ChunkOf(o.c, k)}
    <3>1. o.ids[k] < n /\ b[r][o.ids[k]] \in {NoBlock, ChunkOf(o.c, k)}
      BY ONLY <1>1, <2>1, Faithful(o, n, b), Zenon DEF Faithful
    <3>2. o.ids[k] \in Seqs /\ o.ids[k] \in Nat
      <4>1. o.ids \in Seq(Seqs)
        BY <1>1, ReadRecord, ReadFields, Zenon
      <4>2. o.ids[k] \in Seqs
        BY ONLY <4>1, k \in DOMAIN o.ids
      <4>3. QED
        BY ONLY <4>2, SeqsAreNumbers, Zenon
    <3>3. d[r][o.ids[k]] \in {NoBlock, b[r][o.ids[k]]}
      BY <3>1, <3>2, Zenon
    <3>4. o.ids[k] < m
      BY <3>1, <3>2
    <3>5. QED
      BY ONLY <3>1, <3>3, <3>4, Zenon
  <2>2. QED
    BY ONLY <1>1, <2>1, Faithful(o, n, b), Zenon DEF Faithful
<1>2. CASE o.at # "read"
  BY ONLY <1>2, Faithful(o, n, b), Zenon DEF Faithful
<1>3. QED
  BY ONLY <1>1, <1>2, Zenon

-----------------------------------------------------------------------------
(* A read takes the entry ...                                              *)

LEMMA BytesType ==
  ASSUME NEW c \in Contents, NEW a \in Nat, NEW b \in Nat, a <= b
  PROVE  /\ BytesOf(c, a, b) \in Seq(Contents \X Nat)
         /\ BytesOf(c, a, a) = <<>>
  BY DEF BytesOf

(* A thread's call becomes o, a record of the right kind, which is         *)
(* faithful if nothing was reopened.                                       *)
MovesTo(x, o) ==
    /\ Becomes(x, o) /\ o \in Ops /\ InRange(o)
    /\ BlockInv /\ ReadInv => Faithful(o, nextSeq, blocks)

LEMMA MovesToIdle ==
  ASSUME NEW x, Becomes(x, Idle)
  PROVE  MovesTo(x, Idle)
<1>1. Idle \in Ops /\ Idle.at \notin {"read", "done"}
  BY CallRecords
<1>2. QED
  BY <1>1, NotReading, Zenon DEF MovesTo

(* The ids that a read starts with. *)
LEMMA IdsAreRight ==
  ASSUME CasInv, BlockInv, NEW c \in Contents, NEW k \in DOMAIN chunks[c], NEW r \in Roots
  PROVE  chunks[c][k] < nextSeq /\ blocks[r][chunks[c][k]] \in {NoBlock, ChunkOf(c, k)}
<1>1. Stored /\ Unshared /\ Owned
  BY Zenon DEF BlockInv
<1>2. chunks[c][k] \in Seqs
  BY IdsAreSeqs, Zenon
<1>3. chunks[c][k] < nextSeq /\ blocks[RootForCid[c]][chunks[c][k]] = ChunkOf(c, k)
  BY ONLY <1>1, c \in Contents, k \in DOMAIN chunks[c], Zenon DEF Stored
<1>4. ASSUME blocks[r][chunks[c][k]] # NoBlock PROVE r = RootForCid[c]
  <2>1. PICK d \in Contents :
           \E i \in DOMAIN chunks[d] : RootForCid[d] = r /\ chunks[d][i] = chunks[c][k]
    BY ONLY <1>1, <1>2, <1>4, r \in Roots, Zenon DEF Owned
  <2>2. d = c
    BY ONLY <1>1, <2>1, c \in Contents, k \in DOMAIN chunks[c], Zenon DEF Unshared
  <2>3. QED
    BY ONLY <2>1, <2>2, Zenon
<1>5. QED
  BY ONLY <1>3, <1>4, Zenon

LEMMA ReadEntryMoves ==
  ASSUME Shape, CasInv, OpInv, NEW x \in Threads, ReadEntry(x)
  PROVE  \E o : MovesTo(x, o)
<1>1. PICK c : c = op[x].c
  OBVIOUS
<1>2. op[x].at = "open" /\ c \in Contents
  <2>1. op[x] \in Ops /\ op[x].at = "open"
    BY Zenon DEF OpInv, ReadEntry
  <2>2. QED
    BY ONLY <1>1, <2>1, ReadRecord
<1>3. CASE Becomes(x, Idle)
  BY <1>3, MovesToIdle, Zenon
<1>4. CASE ~Becomes(x, Idle)
  <2>1. refcount[c] > 0
    BY ONLY <1>1, <1>4, ReadEntry(x), Zenon DEF ReadEntry
  <2>2. PICK end \in 0..Size[c] : \E offset \in 0..end :
          Becomes(x, [at |-> IF chunks[c] = <<>> THEN "done" ELSE "read",
                      c |-> c, ids |-> chunks[c], i |-> 1,
                      offset |-> offset, end |-> end,
                      got |-> IF chunks[c] = <<>> THEN BytesOf(c, offset, end) ELSE <<>>])
    BY ONLY <1>1, <1>4, ReadEntry(x), Zenon DEF ReadEntry
  <2>3. PICK offset \in 0..end :
          Becomes(x, [at |-> IF chunks[c] = <<>> THEN "done" ELSE "read",
                      c |-> c, ids |-> chunks[c], i |-> 1,
                      offset |-> offset, end |-> end,
                      got |-> IF chunks[c] = <<>> THEN BytesOf(c, offset, end) ELSE <<>>])
    BY ONLY <2>2, Zenon
  <2>4. PICK a, got : /\ a = IF chunks[c] = <<>> THEN "done" ELSE "read"
                      /\ got = IF chunks[c] = <<>> THEN BytesOf(c, offset, end) ELSE <<>>
    BY ONLY Zenon
  <2>5. PICK o : o = [at |-> a, c |-> c, ids |-> chunks[c], i |-> 1,
                      offset |-> offset, end |-> end, got |-> got]
    BY ONLY Zenon
  <2>6. Becomes(x, o)
    BY ONLY <2>3, <2>4, <2>5, Zenon
  <2>7. /\ end \in Nat /\ offset \in Nat /\ offset <= end /\ end <= Size[c]
        /\ chunks[c] \in Seq(Seqs)
    <3>1. Size[c] \in Nat
      BY ONLY <1>2, CasAssumption
    <3>2. end \in 0..Size[c] /\ offset \in 0..end
      BY Zenon
    <3>3. chunks[c] \in Seq(Seqs)
      BY ONLY <1>2, CasInv DEF CasInv
    <3>4. QED
      BY ONLY <3>1, <3>2, <3>3
  <2>8. got \in Seq(Contents \X Nat) /\ a \in {"read", "done"}
    <3>1. BytesOf(c, offset, end) \in Seq(Contents \X Nat)
      BY ONLY <1>2, <2>7, BytesType
    <3>2. QED
      BY ONLY <2>4, <3>1
  <2>9. /\ o.at = a /\ o.c = c /\ o.ids = chunks[c] /\ o.i = 1
        /\ o.offset = offset /\ o.end = end /\ o.got = got
    BY ONLY <2>5
  <2>10. o \in Ops
    <3>1. o \in ReadOps
      BY ONLY <1>2, <2>5, <2>7, <2>8 DEF ReadOps
    <3>2. QED
      BY ONLY <3>1, ReadOpsAreOps, Zenon
  <2>11. a = "read" => NumChunks(c) # 0 /\ got = <<>>
    BY <1>2, <2>1, <2>4, <2>7, EmptyChunks DEF CasInv
  <2>12. Len(chunks[c]) = NumChunks(c)
    BY <1>2, <2>1 DEF CasInv, Shape
  <2>13. InRange(o)
    BY ONLY <2>7, <2>9, <2>11, <2>12 DEF InRange
  <2>14. ASSUME BlockInv PROVE Faithful(o, nextSeq, blocks)
    <3>1. CASE a = "read"
      <4>1. Upto((1 - 1) * chunk_size, offset, end) = offset
        BY ONLY <2>7, CasAssumption DEF Upto
      <4>2. got = BytesOf(c, offset, Upto((1 - 1) * chunk_size, offset, end))
        BY ONLY <1>2, <2>7, <2>11, <3>1, <4>1, BytesType, Zenon
      <4>3. \A k \in DOMAIN o.ids : \A r \in Roots :
               o.ids[k] < nextSeq /\ blocks[r][o.ids[k]] \in {NoBlock, ChunkOf(o.c, k)}
        BY ONLY <1>2, <2>9, <2>14, CasInv, IdsAreRight, Zenon
      <4>4. o.at # "done"
        BY ONLY <2>9, <3>1
      <4>5. QED
        BY ONLY <2>9, <4>2, <4>3, <4>4, Zenon DEF Faithful
    <3>2. CASE a # "read"
      <4>1. got = BytesOf(c, offset, end)
        BY ONLY <2>4, <3>2, Zenon
      <4>2. QED
        BY ONLY <2>9, <3>2, <4>1, Zenon DEF Faithful
    <3>3. QED
      BY ONLY <3>1, <3>2, Zenon
  <2>15. QED
    BY ONLY <2>6, <2>10, <2>13, <2>14, Zenon DEF MovesTo
<1>5. QED
  BY ONLY <1>3, <1>4, Zenon

-----------------------------------------------------------------------------
(* ... and goes over the chunks.                                           *)

(* The chunk that a read is at. *)
LEMMA ChunkAt ==
  ASSUME NEW c \in Contents, NumChunks(c) # 0, NEW i \in Nat \ {0}
  PROVE  /\ (i - 1) * chunk_size \in Nat
         /\ ((i + 1) - 1) * chunk_size = (i - 1) * chunk_size + chunk_size
         /\ i <= NumChunks(c) => (i - 1) * chunk_size < Size[c]
         /\ i > NumChunks(c) => (i - 1) * chunk_size >= Size[c]
<1>1. chunk_size \in Nat \ {0} /\ Size[c] \in Nat
  BY CasAssumption, Zenon
<1>2. PICK n : n = NumChunks(c)
  BY Zenon
<1>3. n \in Nat \ {0} /\ n * chunk_size >= Size[c] /\ (n - 1) * chunk_size < Size[c]
  BY ONLY <1>2, Chunks, NumChunks(c) # 0, c \in Contents
<1>4. (i - 1) * chunk_size \in Nat /\ ((i + 1) - 1) * chunk_size = (i - 1) * chunk_size + chunk_size
  BY ONLY <1>1, i \in Nat \ {0}
<1>5. ASSUME i <= n PROVE (i - 1) * chunk_size < Size[c]
  <2>1. (i - 1) * chunk_size <= (n - 1) * chunk_size
    BY ONLY <1>1, <1>3, <1>5, i \in Nat \ {0}, Times, i - 1 \in Nat, n - 1 \in Nat
  <2>2. (n - 1) * chunk_size \in Nat
    BY ONLY <1>1, <1>3
  <2>3. QED
    BY ONLY <1>1, <1>3, <1>4, <2>1, <2>2
<1>6. ASSUME i > n PROVE (i - 1) * chunk_size >= Size[c]
  <2>1. n * chunk_size <= (i - 1) * chunk_size
    BY ONLY <1>1, <1>3, <1>6, i \in Nat \ {0}, Times, i - 1 \in Nat
  <2>2. n * chunk_size \in Nat
    BY ONLY <1>1, <1>3
  <2>3. QED
    BY ONLY <1>1, <1>3, <1>4, <2>1, <2>2
<1>7. QED
  BY ONLY <1>2, <1>4, <1>5, <1>6, Zenon

(* What one turn reads, and how far it takes the read. *)
ReadsOn(i, offset, end, range) ==
    LET before == Upto((i - 1) * chunk_size, offset, end)
        after == Upto(((i + 1) - 1) * chunk_size, offset, end)
    IN  /\ range.from \in Nat /\ range.to \in Nat
        /\ range.from >= range.to => after = before
        /\ range.from < range.to => /\ (i - 1) * chunk_size + range.from = before
                                    /\ (i - 1) * chunk_size + range.to = after

LEMMA TurnReadsOn ==
  ASSUME NEW c \in Contents, NumChunks(c) # 0, NEW i \in Nat \ {0}, i <= NumChunks(c),
         NEW offset \in Nat, NEW end \in Nat, offset <= end, end <= Size[c]
  PROVE  ReadsOn(i, offset, end, TurnReads(c, i, offset, end))
<1>0. PICK range : range = TurnReads(c, i, offset, end)
  BY Zenon
<1>1. PICK pos : pos = (i - 1) * chunk_size
  BY Zenon
<1>2. pos \in Nat /\ pos < Size[c] /\ ((i + 1) - 1) * chunk_size = pos + chunk_size
  BY ONLY <1>1, ChunkAt, c \in Contents, NumChunks(c) # 0, i \in Nat \ {0}, i <= NumChunks(c)
<1>3. PICK len : len = IF pos + chunk_size > Size[c] THEN Size[c] - pos ELSE chunk_size
  BY Zenon
<1>4. ChunkOf(c, i).len = len
  BY ONLY <1>1, <1>3 DEF ChunkOf, Piece
<1>5. chunk_size \in Nat \ {0} /\ Size[c] \in Nat
  BY CasAssumption, Zenon
<1>6. IF pos >= end \/ pos + len <= offset THEN range.from = 0 /\ range.to = 0
      ELSE range.from = ReadStart(pos, offset) /\ range.to = ReadEnd(pos, len, end)
  BY ONLY <1>0, <1>1, <1>4 DEF TurnReads
<1>7. /\ range.from \in Nat /\ range.to \in Nat
      /\ range.from >= range.to => Upto(pos + chunk_size, offset, end) = Upto(pos, offset, end)
      /\ range.from < range.to => /\ pos + range.from = Upto(pos, offset, end)
                                  /\ pos + range.to = Upto(pos + chunk_size, offset, end)
  <2>1. PICK from, to, size, k : /\ from = range.from /\ to = range.to
                                 /\ size = Size[c] /\ k = chunk_size
    BY Zenon
  <2>2. IF pos >= end \/ pos + len <= offset THEN from = 0 /\ to = 0
        ELSE from = ReadStart(pos, offset) /\ to = ReadEnd(pos, len, end)
    BY ONLY <1>6, <2>1, Zenon
  <2>3. /\ pos \in Nat /\ k \in Nat \ {0} /\ size \in Nat /\ pos < size /\ end <= size
        /\ len = IF pos + k > size THEN size - pos ELSE k
    BY ONLY <1>2, <1>3, <1>5, <2>1, end <= Size[c], Zenon
  <2>4. /\ from \in Nat /\ to \in Nat
        /\ from >= to => Upto(pos + k, offset, end) = Upto(pos, offset, end)
        /\ from < to => /\ pos + from = Upto(pos, offset, end)
                        /\ pos + to = Upto(pos + k, offset, end)
    BY ONLY <2>2, <2>3, offset \in Nat, end \in Nat, offset <= end DEF Upto, ReadStart, ReadEnd
  <2>5. QED
    BY ONLY <2>1, <2>4, Zenon
<1>8. QED
  BY ONLY <1>0, <1>1, <1>2, <1>7, Zenon DEF ReadsOn

(* The bytes of one block. *)
LEMMA BlockBytesType ==
  ASSUME CasInv, NEW q \in Seqs, NEW range, range.from \in Nat, range.to \in Nat,
         range.from < range.to, NEW bytes \in BlockBytes(q, range)
  PROVE  /\ bytes \in Seq(Contents \X Nat)
         /\ blocks[RootForBlock[q]][q] # NoBlock
         /\ \A c \in Contents : \A i :
               blocks[RootForBlock[q]][q] = ChunkOf(c, i) /\ (i - 1) * chunk_size \in Nat =>
               bytes = BytesOf(c, (i - 1) * chunk_size + range.from,
                                  (i - 1) * chunk_size + range.to)
<1>1. PICK b : b = blocks[RootForBlock[q]][q]
  BY Zenon
<1>2. b # NoBlock /\ bytes = [k \in 1 .. range.to - range.from |-> <<b.c, b.from + range.from + k>>]
  BY ONLY <1>1, bytes \in BlockBytes(q, range), Zenon DEF BlockBytes
<1>3. b.c \in Contents /\ b.from \in Nat
  <2>1. RootForBlock[q] \in Roots
    BY CasAssumption, Zenon
  <2>2. b \in Pieces
    BY ONLY <1>1, <1>2, <2>1, CasInv, q \in Seqs DEF CasInv
  <2>3. PICK d \in Contents, j \in 1..MaxSeq : b = ChunkOf(d, j)
    BY ONLY <2>2 DEF Pieces
  <2>4. b.c = d /\ b.from = (j - 1) * chunk_size
    BY ONLY <2>3, Zenon DEF ChunkOf, Piece
  <2>5. (j - 1) * chunk_size \in Nat
    BY CasAssumption
  <2>6. QED
    BY ONLY <2>4, <2>5, Zenon
<1>4. bytes \in Seq(Contents \X Nat)
  <2>1. \A k \in 1 .. range.to - range.from : <<b.c, b.from + range.from + k>> \in Contents \X Nat
    BY ONLY <1>3, range.from \in Nat, range.to \in Nat
  <2>2. range.to - range.from \in Nat
    BY ONLY range.from \in Nat, range.to \in Nat, range.from < range.to
  <2>3. QED
    BY ONLY <1>2, <2>1, <2>2
<1>5. ASSUME NEW c \in Contents, NEW i, b = ChunkOf(c, i), (i - 1) * chunk_size \in Nat
      PROVE  bytes = BytesOf(c, (i - 1) * chunk_size + range.from,
                                  (i - 1) * chunk_size + range.to)
  <2>1. PICK pos : pos = (i - 1) * chunk_size
    BY Zenon
  <2>2. b.c = c /\ b.from = pos
    BY ONLY <1>5, <2>1 DEF ChunkOf, Piece
  <2>3. (pos + range.to) - (pos + range.from) = range.to - range.from
    BY ONLY <1>5, <2>1, range.from \in Nat, range.to \in Nat
  <2>4. QED
    BY ONLY <1>2, <2>1, <2>2, <2>3, Zenon DEF BytesOf
<1>6. QED
  BY ONLY <1>1, <1>2, <1>4, <1>5, Zenon

LEMMA ReadChunkMoves ==
  ASSUME CasInv, OpInv, NEW x \in Threads, ReadChunk(x)
  PROVE  \E o : MovesTo(x, o)
<1>1. PICK o, range : o = op[x] /\ range = TurnReads(o.c, o.i, o.offset, o.end)
  BY Zenon
<1>2. o.at = "read" /\ o \in ReadOps /\ InRange(o)
  <2>1. op[x] \in Ops /\ op[x].at = "read" /\ InRange(op[x])
    BY Zenon DEF OpInv, ReadChunk
  <2>2. QED
    BY ONLY <1>1, <2>1, ReadRecord, Zenon
<1>3. /\ o.c \in Contents /\ o.ids \in Seq(Seqs)
      /\ o.i \in Nat \ {0} /\ o.offset \in Nat /\ o.end \in Nat
      /\ o.got \in Seq(Contents \X Nat)
      /\ Len(o.ids) = NumChunks(o.c) /\ NumChunks(o.c) # 0
      /\ o.offset <= o.end /\ o.end <= Size[o.c]
  BY ONLY <1>2, ReadFields, Zenon DEF InRange
<1>4. ReadInv => Faithful(o, nextSeq, blocks)
  BY ONLY <1>1, x \in Threads, Zenon DEF ReadInv
<1>5. CASE o.i > Len(o.ids) /\ Becomes(x, [o EXCEPT !.at = "done"])
  <2>1. PICK p : p = [o EXCEPT !.at = "done"]
    BY Zenon
  <2>2. /\ p \in ReadOps /\ p.at = "done" /\ p.c = o.c
        /\ p.offset = o.offset /\ p.end = o.end /\ p.got = o.got
    BY ONLY <1>2, <2>1, ReadMoves, Zenon
  <2>3. Upto((o.i - 1) * chunk_size, o.offset, o.end) = o.end
    <3>1. (o.i - 1) * chunk_size \in Nat /\ (o.i - 1) * chunk_size >= Size[o.c] /\ Size[o.c] \in Nat
      BY <1>3, <1>5, ChunkAt, CasAssumption
    <3>2. (o.i - 1) * chunk_size >= o.end
      BY ONLY <1>3, <3>1
    <3>3. QED
      BY ONLY <3>2, Zenon DEF Upto
  <2>4. p.at # "read"
    BY ONLY <2>2, Zenon
  <2>5. ReadInv => Faithful(p, nextSeq, blocks)
    BY ONLY <1>2, <1>4, <2>2, <2>3, <2>4, Zenon DEF Faithful
  <2>6. InRange(p) /\ p \in Ops
    BY ONLY <2>2, <2>4, ReadOpsAreOps, Zenon DEF InRange
  <2>7. QED
    BY ONLY <1>5, <2>1, <2>5, <2>6, Zenon DEF MovesTo
<1>6. CASE o.i <= Len(o.ids)
  <2>0. o.i <= NumChunks(o.c)
    BY ONLY <1>3, <1>6, Zenon
  <2>1. /\ range.from \in Nat /\ range.to \in Nat
        /\ range.from >= range.to =>
              Upto(((o.i + 1) - 1) * chunk_size, o.offset, o.end)
                 = Upto((o.i - 1) * chunk_size, o.offset, o.end)
        /\ range.from < range.to =>
              /\ (o.i - 1) * chunk_size + range.from = Upto((o.i - 1) * chunk_size, o.offset, o.end)
              /\ (o.i - 1) * chunk_size + range.to
                    = Upto(((o.i + 1) - 1) * chunk_size, o.offset, o.end)
    <3>1. ReadsOn(o.i, o.offset, o.end, TurnReads(o.c, o.i, o.offset, o.end))
      BY ONLY <1>3, <2>0, TurnReadsOn, Zenon
    <3>2. QED
      BY ONLY <1>1, <3>1, Zenon DEF ReadsOn
  <2>2. o.i + 1 # 0
    BY ONLY <1>3
  <2>3. o.at # "done"
    BY ONLY <1>2, Zenon
  <2>4. CASE range.from >= range.to /\ Becomes(x, [o EXCEPT !.i = @ + 1])
    <3>1. PICK p : p = [o EXCEPT !.i = @ + 1]
      BY Zenon
    <3>2. /\ p \in ReadOps /\ p.at = o.at /\ p.c = o.c /\ p.ids = o.ids /\ p.i = o.i + 1
          /\ p.offset = o.offset /\ p.end = o.end /\ p.got = o.got
      BY ONLY <1>2, <3>1, ReadMoves, Zenon
    <3>3. ReadInv => Faithful(p, nextSeq, blocks)
      BY ONLY <1>2, <1>4, <2>1, <2>3, <2>4, <3>2, Zenon DEF Faithful
    <3>4. InRange(p) /\ p \in Ops
      BY ONLY <1>2, <1>3, <2>2, <3>2, ReadOpsAreOps, Zenon DEF InRange
    <3>5. QED
      BY ONLY <2>4, <3>1, <3>3, <3>4, Zenon DEF MovesTo
  <2>5. ASSUME NEW bytes \in BlockBytes(o.ids[o.i], range), range.from < range.to,
               Becomes(x, [o EXCEPT !.i = @ + 1, !.got = @ \o bytes])
        PROVE  \E p : MovesTo(x, p)
    <3>1. o.i \in DOMAIN o.ids /\ o.ids[o.i] \in Seqs
      BY ONLY <1>3, <1>6
    <3>2. PICK q : q = o.ids[o.i]
      BY Zenon
    <3>3. /\ bytes \in Seq(Contents \X Nat)
          /\ blocks[RootForBlock[q]][q] # NoBlock
          /\ blocks[RootForBlock[q]][q] = ChunkOf(o.c, o.i) /\ (o.i - 1) * chunk_size \in Nat =>
             bytes = BytesOf(o.c, (o.i - 1) * chunk_size + range.from,
                                  (o.i - 1) * chunk_size + range.to)
      <4>1. q \in Seqs /\ bytes \in BlockBytes(q, range)
        BY ONLY <2>5, <3>1, <3>2, Zenon
      <4>2. range.from \in Nat /\ range.to \in Nat /\ range.from < range.to
        BY ONLY <2>1, <2>5, Zenon
      <4>3. QED
        BY ONLY <1>3, <4>1, <4>2, CasInv, BlockBytesType, Zenon
    <3>4. (o.i - 1) * chunk_size \in Nat /\ RootForBlock[q] \in Roots
      BY ONLY <1>3, <3>1, <3>2, ChunkAt, CasAssumption, Zenon
    <3>5. PICK p : p = [o EXCEPT !.i = @ + 1, !.got = @ \o bytes]
      BY Zenon
    <3>6. /\ p \in ReadOps /\ p.at = o.at /\ p.c = o.c /\ p.ids = o.ids /\ p.i = o.i + 1
          /\ p.offset = o.offset /\ p.end = o.end /\ p.got = o.got \o bytes
      BY ONLY <1>2, <3>3, <3>5, ReadMovesOn, Zenon
    <3>7. ASSUME ReadInv PROVE Faithful(p, nextSeq, blocks)
      <4>1. PICK a, b : /\ a = Upto((o.i - 1) * chunk_size, o.offset, o.end)
                        /\ b = Upto(((o.i + 1) - 1) * chunk_size, o.offset, o.end)
        BY Zenon
      <4>2. Faithful(o, nextSeq, blocks)
        BY ONLY <1>4, <3>7, Zenon
      <4>3. blocks[RootForBlock[q]][q] = ChunkOf(o.c, o.i)
        BY ONLY <1>2, <3>1, <3>2, <3>3, <3>4, <4>2, Zenon DEF Faithful
      <4>4. bytes = BytesOf(o.c, a, b) /\ o.got = BytesOf(o.c, o.offset, a)
        BY ONLY <1>2, <2>1, <2>5, <3>3, <3>4, <4>1, <4>2, <4>3, Zenon DEF Faithful
      <4>5. a \in Nat /\ b \in Nat /\ o.offset <= a /\ a <= b
        <5>1. a \in Nat /\ o.offset <= a
          BY ONLY <1>3, <3>4, <4>1, UptoRange, Zenon
        <5>2. PICK pos : pos = (o.i - 1) * chunk_size
          BY Zenon
        <5>3. QED
          BY ONLY <2>1, <2>5, <3>4, <4>1, <5>1, <5>2
      <4>6. p.got = BytesOf(p.c, p.offset, b)
        <5>1. BytesOf(o.c, o.offset, a) \o BytesOf(o.c, a, b) = BytesOf(o.c, o.offset, b)
          BY ONLY <1>3, <4>5, ReadOn, Zenon
        <5>2. QED
          BY ONLY <3>6, <4>4, <5>1, Zenon
      <4>7. QED
        BY ONLY <1>2, <2>3, <3>6, <4>1, <4>2, <4>6, Zenon DEF Faithful
    <3>8. InRange(p) /\ p \in Ops
      BY ONLY <1>2, <1>3, <2>2, <3>6, ReadOpsAreOps, Zenon DEF InRange
    <3>9. QED
      BY ONLY <2>5, <3>5, <3>7, <3>8, Zenon DEF MovesTo
  <2>6. CASE Becomes(x, Idle)
    BY <2>6, MovesToIdle, Zenon
  <2>7. QED
    <3>1. /\ o.i > Len(o.ids) => FALSE
          /\ range.from >= range.to \/ range.from < range.to
      BY ONLY <1>3, <1>6, <2>1
    <3>2. \/ range.from >= range.to /\ Becomes(x, [o EXCEPT !.i = @ + 1])
          \/ /\ range.from < range.to
             /\ IF BlockBytes(o.ids[o.i], range) = {} THEN Becomes(x, Idle)
                ELSE \E bytes \in BlockBytes(o.ids[o.i], range) :
                        Becomes(x, [o EXCEPT !.i = @ + 1, !.got = @ \o bytes])
      BY ONLY <1>1, <3>1, ReadChunk(x), Zenon DEF ReadChunk
    <3>3. QED
      BY ONLY <2>4, <2>5, <2>6, <3>2, Zenon
<1>7. CASE ~(o.i <= Len(o.ids))
  <2>1. Becomes(x, [o EXCEPT !.at = "done"]) /\ o.i > Len(o.ids)
    <3>1. o.i > Len(o.ids)
      BY ONLY <1>3, <1>7
    <3>2. QED
      BY ONLY <1>1, <1>7, <3>1, ReadChunk(x), Zenon DEF ReadChunk
  <2>2. QED
    BY ONLY <1>5, <2>1, Zenon
<1>8. QED
  BY ONLY <1>6, <1>7, Zenon

-----------------------------------------------------------------------------
(* Sums.  A sum is a function with its partial sums, and the facts about   *)
(* it are by induction on the number of summands.                          *)

LEMMA LessIsWellFounded == IsWellFoundedOn({ss \in Nat \X Nat : ss[1] < ss[2]}, Nat)
  BY NatLessThanWellFounded, Zenon DEF OpToRel

(* Induction on the natural numbers, for sets. *)
LEMMA Induction ==
  ASSUME NEW P, NEW n \in Nat, 0 \in P, \A i \in Nat : i < n /\ i \in P => i + 1 \in P
  PROVE  \A i \in 0..n : i \in P
<1> DEFINE T == {i \in 0..n : i \notin P}
<1>1. SUFFICES ASSUME T # {} PROVE FALSE
  OBVIOUS
<1>2. T \subseteq Nat
  OBVIOUS
<1>3. \E x \in T : \A y \in T : ~(<<y, x>> \in {ss \in Nat \X Nat : ss[1] < ss[2]})
  <2> HIDE DEF T
  <2>1. QED
    BY ONLY <1>1, <1>2, LessIsWellFounded, WFMin, Zenon
<1>4. PICK x \in T : \A y \in T : ~(y < x)
  BY <1>2, <1>3, Zenon
<1>5. x # 0 /\ x - 1 \in Nat /\ x - 1 < n
  OBVIOUS
<1>6. x - 1 \in P
  BY <1>4, <1>5
<1>7. QED
  BY <1>5, <1>6

(* The partial sums of w. *)
IsSum(s, w, n) == s \in [0..n -> Nat] /\ s[0] = 0 /\ \A i \in 1..n : s[i] = s[i - 1] + w[i]

LEMMA SumExists ==
  ASSUME NEW n \in Nat, NEW w \in [1..n -> Nat]
  PROVE  \E s : IsSum(s, w, n)
<1> DEFINE P == {m \in 0..n : \E s : IsSum(s, w, m)}
<1>1. 0 \in P
  <2>1. IsSum([i \in 0..0 |-> 0], w, 0)
    BY DEF IsSum
  <2>2. 0 \in 0..n
    OBVIOUS
  <2>3. QED
    BY ONLY <2>1, <2>2, Zenon
<1>2. ASSUME NEW m \in Nat, m < n, m \in P PROVE m + 1 \in P
  <2>1. PICK s : IsSum(s, w, m)
    BY <1>2, Zenon
  <2> DEFINE h == [i \in 0 .. m + 1 |-> IF i = m + 1 THEN s[m] + w[m + 1] ELSE s[i]]
  <2>2. s \in [0..m -> Nat] /\ s[0] = 0 /\ \A i \in 1..m : s[i] = s[i - 1] + w[i]
    BY ONLY <2>1, Zenon DEF IsSum
  <2>3. m + 1 \in 1..n /\ m + 1 \in 0..n /\ w[m + 1] \in Nat
    BY <1>2
  <2>4. h \in [0 .. m + 1 -> Nat] /\ h[0] = 0
    BY ONLY <1>2, <2>2, <2>3
  <2>5. \A i \in 1 .. m + 1 : h[i] = h[i - 1] + w[i]
    <3>1. h[m + 1] = s[m] + w[m + 1] /\ \A i \in 0..m : h[i] = s[i]
      BY ONLY <1>2
    <3> HIDE DEF h
    <3>2. ASSUME NEW i \in 1 .. m + 1 PROVE h[i] = h[i - 1] + w[i]
      <4>1. CASE i = m + 1
        BY ONLY <1>2, <3>1, <4>1
      <4>2. CASE i # m + 1
        <5>1. i \in 1..m /\ i \in 0..m /\ i - 1 \in 0..m
          BY ONLY <1>2, <3>2, <4>2
        <5>2. QED
          BY ONLY <2>2, <3>1, <5>1, Zenon
      <4>3. QED
        BY ONLY <4>1, <4>2, Zenon
    <3>3. QED
      BY ONLY <3>2, Zenon
  <2> HIDE DEF h
  <2>6. IsSum(h, w, m + 1)
    BY ONLY <2>4, <2>5, Zenon DEF IsSum
  <2>7. QED
    BY ONLY <2>3, <2>6, Zenon
<1>3. n \in 0..n
  OBVIOUS
<1>4. n \in P
  <2> HIDE DEF P
  <2>1. QED
    BY ONLY <1>1, <1>2, <1>3, Induction, n \in Nat, Zenon
<1>5. QED
  BY ONLY <1>4, Zenon

(* A change of one summand changes the sum by as much. *)
LEMMA SumStep ==
  ASSUME NEW n \in Nat, NEW k \in 1..n, NEW v \in [1..n -> Nat], NEW w \in [1..n -> Nat],
         \A i \in 1..n : i # k => v[i] = w[i],
         NEW s, NEW t, IsSum(s, v, n), IsSum(t, w, n)
  PROVE  t[n] \in Nat /\ s[n] \in Nat /\ t[n] + v[k] = s[n] + w[k] /\ s[n] >= v[k]
<1> DEFINE P == {i \in 0..n : /\ i < k => t[i] = s[i]
                              /\ i >= k => t[i] + v[k] = s[i] + w[k] /\ s[i] >= v[k]}
<1>1. /\ s \in [0..n -> Nat] /\ s[0] = 0 /\ \A i \in 1..n : s[i] = s[i - 1] + v[i]
      /\ t \in [0..n -> Nat] /\ t[0] = 0 /\ \A i \in 1..n : t[i] = t[i - 1] + w[i]
  BY Zenon DEF IsSum
<1>2. 0 \in P
  BY <1>1
<1>3. ASSUME NEW i \in Nat, i < n, i \in P PROVE i + 1 \in P
  <2>1. i + 1 \in 1..n /\ i + 1 \in 0..n /\ (i + 1) - 1 = i /\ i \in 0..n
    BY ONLY <1>3, n \in Nat
  <2>2. s[i + 1] = s[i] + v[i + 1] /\ t[i + 1] = t[i] + w[i + 1]
    BY ONLY <1>1, <2>1, Zenon
  <2>3. /\ s[i] \in Nat /\ t[i] \in Nat /\ v[i + 1] \in Nat /\ w[i + 1] \in Nat
        /\ v[k] \in Nat /\ w[k] \in Nat /\ k \in Nat
    BY <1>1, <2>1
  <2>4. i + 1 # k => v[i + 1] = w[i + 1]
    BY <2>1, Zenon
  <2>5. /\ i < k => t[i] = s[i]
        /\ i >= k => t[i] + v[k] = s[i] + w[k] /\ s[i] >= v[k]
    BY ONLY <1>3, Zenon
  <2>6. /\ i + 1 < k => t[i + 1] = s[i + 1]
        /\ i + 1 >= k => t[i + 1] + v[k] = s[i + 1] + w[k] /\ s[i + 1] >= v[k]
    <3>1. CASE i + 1 < k
      BY ONLY <2>2, <2>3, <2>4, <2>5, <3>1, i \in Nat
    <3>2. CASE i + 1 = k
      <4>1. t[i] = s[i] /\ v[k] = v[i + 1] /\ w[k] = w[i + 1]
        BY ONLY <2>3, <2>5, <3>2, i \in Nat
      <4>2. QED
        BY ONLY <2>2, <2>3, <3>2, <4>1, i \in Nat
    <3>3. CASE i + 1 > k
      <4>1. t[i] + v[k] = s[i] + w[k] /\ s[i] >= v[k] /\ v[i + 1] = w[i + 1]
        BY ONLY <2>3, <2>4, <2>5, <3>3, i \in Nat
      <4>2. PICK a, b, c, d, e : a = s[i] /\ b = t[i] /\ c = v[k] /\ d = w[k] /\ e = v[i + 1]
        BY Zenon
      <4>3. t[i + 1] + v[k] = s[i + 1] + w[k] /\ s[i + 1] >= v[k]
        <5>1. /\ a \in Nat /\ b \in Nat /\ c \in Nat /\ d \in Nat /\ e \in Nat
              /\ b + c = a + d /\ a >= c
          BY ONLY <2>3, <4>1, <4>2, Zenon
        <5>2. (b + e) + c = (a + e) + d /\ a + e >= c
          BY ONLY <5>1
        <5>3. t[i + 1] = b + e /\ s[i + 1] = a + e
          BY ONLY <2>2, <4>1, <4>2, Zenon
        <5>4. QED
          BY ONLY <4>2, <5>2, <5>3, Zenon
      <4>4. ~(i + 1 < k)
        BY ONLY <2>3, <3>3, i \in Nat
      <4>5. QED
        BY ONLY <4>3, <4>4, Zenon
    <3>4. QED
      BY ONLY <2>3, <3>1, <3>2, <3>3, i \in Nat
  <2>7. QED
    BY ONLY <2>1, <2>6, Zenon
<1>4. n \in 0..n /\ n >= k /\ t[n] \in Nat /\ s[n] \in Nat
  BY <1>1
<1>5. n \in P
  <2> HIDE DEF P
  <2>1. QED
    BY ONLY <1>2, <1>3, <1>4, Induction, n \in Nat, Zenon
<1>6. QED
  BY ONLY <1>4, <1>5, Zenon

(* The sum depends on the summands only. *)
LEMMA SumSame ==
  ASSUME NEW n \in Nat, NEW w, NEW s, NEW t, IsSum(s, w, n), IsSum(t, w, n)
  PROVE  t[n] = s[n]
<1> DEFINE P == {i \in 0..n : t[i] = s[i]}
<1>1. /\ s[0] = 0 /\ \A i \in 1..n : s[i] = s[i - 1] + w[i]
      /\ t[0] = 0 /\ \A i \in 1..n : t[i] = t[i - 1] + w[i]
  BY Zenon DEF IsSum
<1>2. 0 \in P
  BY <1>1
<1>3. ASSUME NEW i \in Nat, i < n, i \in P PROVE i + 1 \in P
  <2>1. i + 1 \in 1..n /\ i + 1 \in 0..n /\ (i + 1) - 1 = i
    BY ONLY <1>3, n \in Nat
  <2>2. s[i + 1] = s[i] + w[i + 1] /\ t[i + 1] = t[i] + w[i + 1]
    BY ONLY <1>1, <2>1, Zenon
  <2>3. QED
    BY ONLY <1>3, <2>1, <2>2, Zenon
<1>4. n \in 0..n
  OBVIOUS
<1>5. n \in P
  <2> HIDE DEF P
  <2>1. QED
    BY ONLY <1>2, <1>3, <1>4, Induction, n \in Nat, Zenon
<1>6. QED
  BY ONLY <1>5, Zenon

-----------------------------------------------------------------------------
(* The bytes of a tenant's files as a sum over the places.                 *)

(* PlaceSeq lists every place once. *)
LEMMA PlacesListed ==
  /\ Cardinality(Places) \in Nat
  /\ PlaceSeq \in [1 .. Cardinality(Places) -> Places]
  /\ \A e \in Places : \E i \in 1 .. Cardinality(Places) :
        PlaceSeq[i] = e /\ \A j \in 1 .. Cardinality(Places) : PlaceSeq[j] = e => j = i
<1> DEFINE n == Cardinality(Places)
           Lists(s) == \A e \in Places : \E i \in DOMAIN s :
                           s[i] = e /\ \A j \in DOMAIN s : s[j] = e => j = i
<1>1. n \in Nat
  BY FinitePlaces, FS_CardinalityType, Zenon
<1>2. PICK s : s \in Bijection(1..n, Places)
  <2>1. PICK m \in Nat : ExistsBijection(1..m, Places)
    BY FinitePlaces, FS_NatBijection, Zenon
  <2>2. n = m
    BY <2>1, FS_CountingElements, Zenon
  <2>3. QED
    BY <2>1, <2>2, Zenon DEF ExistsBijection
<1> HIDE DEF n
<1>3. s \in [1..n -> Places] /\ IsInjective(s) /\ \A e \in Places : \E i \in 1..n : s[i] = e
  BY <1>2, Zenon DEF Bijection, Injection, Surjection
<1>4. Lists(s)
  BY <1>3, Zenon DEF IsInjective
<1>5. PlaceSeq = CHOOSE q \in [1..n -> Places] : Lists(q)
  BY Zenon DEF PlaceSeq, n
<1> HIDE DEF Lists
<1>6. PlaceSeq \in [1..n -> Places] /\ Lists(PlaceSeq)
  BY <1>3, <1>4, <1>5, Zenon
<1>7. DOMAIN PlaceSeq = 1..n
  BY <1>6, Zenon
<1>8. QED
  BY ONLY <1>1, <1>6, <1>7, Zenon DEF n, Lists

(* The bytes of the files fs. *)
SizeIn(fs, e) == IF fs[e] \in Contents THEN Size[fs[e]] ELSE 0

ChargeOf(fs, t, i) == IF PlaceSeq[i][1] = t THEN SizeIn(fs, PlaceSeq[i]) ELSE 0

BytesIn(fs, t) ==
    LET sum[i \in 0 .. Cardinality(Places)] ==
            IF i = 0 THEN 0 ELSE sum[i - 1] + ChargeOf(fs, t, i)
    IN  sum[Cardinality(Places)]

LEMMA BytesAreSizes ==
  /\ \A t : FileBytes(t) = BytesIn(files, t) /\ FileBytes(t)' = BytesIn(files', t)
  /\ \A e : EntrySize(e) = SizeIn(files, e) /\ EntrySize(e)' = SizeIn(files', e)
  BY Zenon DEF FileBytes, BytesIn, ChargeOf, SizeIn, EntrySize

SumsBytes(fs, t, s, w) ==
    /\ w \in [1 .. Cardinality(Places) -> Nat]
    /\ \A i \in 1 .. Cardinality(Places) : w[i] = ChargeOf(fs, t, i)
    /\ IsSum(s, w, Cardinality(Places))
    /\ BytesIn(fs, t) = s[Cardinality(Places)]

LEMMA BytesInIsSum == ASSUME NEW fs, NEW t PROVE \E s, w : SumsBytes(fs, t, s, w)
<1> DEFINE n == Cardinality(Places)
           w == [i \in 1..n |-> ChargeOf(fs, t, i)]
           Body(g) == [i \in 0..n |-> IF i = 0 THEN 0 ELSE g[i - 1] + ChargeOf(fs, t, i)]
           sum == CHOOSE g : g = Body(g)
<1>1. BytesIn(fs, t) = sum[n]
  BY Zenon DEF BytesIn
<1>2. n \in Nat
  BY PlacesListed, Zenon
<1>3. w \in [1..n -> Nat] /\ \A i \in 1..n : w[i] = ChargeOf(fs, t, i)
  <2>1. \A e : SizeIn(fs, e) \in Nat
    BY CasAssumption, Zenon DEF SizeIn
  <2>2. \A i \in 1..n : ChargeOf(fs, t, i) \in Nat
    BY ONLY <2>1, 0 \in Nat, Zenon DEF ChargeOf
  <2>3. QED
    BY ONLY <2>2, Zenon
<1> HIDE DEF n, w
<1>4. PICK g : IsSum(g, w, n)
  BY ONLY <1>2, <1>3, SumExists, Zenon
<1>5. g \in [0..n -> Nat] /\ g[0] = 0 /\ \A i \in 1..n : g[i] = g[i - 1] + ChargeOf(fs, t, i)
  BY ONLY <1>3, <1>4, Zenon DEF IsSum
<1>6. g = Body(g)
  BY ONLY <1>2, <1>5
<1>7. sum = Body(sum)
  BY ONLY <1>6, Zenon
<1> HIDE DEF sum
<1>8. sum[0] = 0 /\ \A i \in 1..n : sum[i] = sum[i - 1] + ChargeOf(fs, t, i)
  <2>1. \A i \in 0..n : sum[i] = Body(sum)[i]
    BY ONLY <1>7, Zenon
  <2>2. \A i \in 0..n : Body(sum)[i] = IF i = 0 THEN 0 ELSE sum[i - 1] + ChargeOf(fs, t, i)
    BY ONLY Zenon
  <2>3. 0 \in 0..n /\ \A i \in 1..n : i \in 0..n /\ i # 0
    BY ONLY <1>2
  <2> HIDE DEF Body
  <2>4. QED
    BY ONLY <2>1, <2>2, <2>3, Zenon
<1>9. sum \in [0..n -> Nat]
  <2> DEFINE P == {i \in 0..n : sum[i] \in Nat}
  <2>1. 0 \in P
    BY ONLY <1>2, <1>8
  <2>2. ASSUME NEW i \in Nat, i < n, i \in P PROVE i + 1 \in P
    <3>1. i + 1 \in 1..n /\ i + 1 \in 0..n /\ (i + 1) - 1 = i
      BY ONLY <1>2, <2>2
    <3>2. sum[i + 1] = sum[i] + w[i + 1] /\ w[i + 1] \in Nat /\ sum[i] \in Nat
      BY ONLY <1>3, <1>8, <2>2, <3>1, Zenon
    <3>3. sum[i + 1] \in Nat
      BY ONLY <3>2
    <3>4. QED
      BY ONLY <3>1, <3>3, Zenon
  <2>3. \A i \in 0..n : i \in P
    <3> HIDE DEF P
    <3>1. QED
      BY ONLY <1>2, <2>1, <2>2, Induction, Zenon
  <2>4. sum = [i \in 0..n |-> sum[i]]
    BY ONLY <1>7, Zenon
  <2>5. QED
    BY ONLY <2>3, <2>4, Zenon
<1>10. IsSum(sum, w, n)
  BY ONLY <1>3, <1>8, <1>9, Zenon DEF IsSum
<1>11. QED
  BY ONLY <1>1, <1>3, <1>10, Zenon DEF SumsBytes, n

LEMMA BytesAreNumbers == ASSUME NEW fs, NEW t PROVE BytesIn(fs, t) \in Nat
<1>1. Cardinality(Places) \in Nat
  BY PlacesListed, Zenon
<1>2. PICK s, w : SumsBytes(fs, t, s, w)
  BY ONLY BytesInIsSum, Zenon
<1>3. s \in [0 .. Cardinality(Places) -> Nat] /\ BytesIn(fs, t) = s[Cardinality(Places)]
  BY ONLY <1>2, Zenon DEF SumsBytes, IsSum
<1>4. QED
  BY ONLY <1>1, <1>3

(* A change of one entry changes the bytes of its tenant by the difference *)
(* of the sizes, and those of no other.                                    *)
LEMMA OneEntry ==
  ASSUME NEW fs, NEW gs, NEW e \in Places, \A d \in Places : d # e => gs[d] = fs[d], NEW t
  PROVE  /\ t # e[1] => BytesIn(gs, t) = BytesIn(fs, t)
         /\ t = e[1] => /\ BytesIn(gs, t) + SizeIn(fs, e) = BytesIn(fs, t) + SizeIn(gs, e)
                        /\ BytesIn(fs, t) >= SizeIn(fs, e)
<1> DEFINE n == Cardinality(Places)
<1>2. n \in Nat /\ PlaceSeq \in [1..n -> Places]
  BY ONLY PlacesListed, Zenon
<1>a. PICK s, v : SumsBytes(fs, t, s, v)
  BY ONLY BytesInIsSum, Zenon
<1>b. PICK r, w : SumsBytes(gs, t, r, w)
  BY ONLY BytesInIsSum, Zenon
<1>3. /\ v \in [1..n -> Nat] /\ \A i \in 1..n : v[i] = ChargeOf(fs, t, i)
      /\ IsSum(s, v, n) /\ BytesIn(fs, t) = s[n]
  BY ONLY <1>a, Zenon DEF SumsBytes
<1>4. /\ w \in [1..n -> Nat] /\ \A i \in 1..n : w[i] = ChargeOf(gs, t, i)
      /\ IsSum(r, w, n) /\ BytesIn(gs, t) = r[n]
  BY ONLY <1>b, Zenon DEF SumsBytes
<1>5. PICK k \in 1..n : PlaceSeq[k] = e /\ \A j \in 1..n : PlaceSeq[j] = e => j = k
  BY ONLY PlacesListed, e \in Places, Zenon
<1> HIDE DEF n
<1>6. \A i \in 1..n : i # k => v[i] = w[i]
  <2>1. ASSUME NEW i \in 1..n, i # k PROVE ChargeOf(fs, t, i) = ChargeOf(gs, t, i)
    <3>1. PlaceSeq[i] \in Places /\ PlaceSeq[i] # e
      BY ONLY <1>2, <1>5, <2>1, Zenon
    <3>2. gs[PlaceSeq[i]] = fs[PlaceSeq[i]]
      BY <3>1, Zenon
    <3>3. QED
      BY ONLY <3>2, Zenon DEF ChargeOf, SizeIn
  <2>2. QED
    BY ONLY <1>3, <1>4, <2>1, Zenon
<1>s. r[n] \in Nat /\ s[n] \in Nat /\ r[n] + v[k] = s[n] + w[k] /\ s[n] >= v[k]
  <2>1. v \in [1..n -> Nat] /\ w \in [1..n -> Nat] /\ IsSum(s, v, n) /\ IsSum(r, w, n)
    BY ONLY <1>3, <1>4, Zenon
  <2>2. QED
    BY ONLY <1>2, <1>6, <2>1, k \in 1..n, SumStep, Zenon
<1>7. CASE t # e[1]
  <2>1. v[k] = 0 /\ w[k] = 0
    BY ONLY <1>3, <1>4, <1>5, <1>7, Zenon DEF ChargeOf
  <2>3. r[n] = s[n]
    BY ONLY <1>s, <2>1
  <2>4. QED
    BY ONLY <1>3, <1>4, <1>7, <2>3, Zenon
<1>8. CASE t = e[1]
  <2>1. v[k] = SizeIn(fs, e) /\ w[k] = SizeIn(gs, e)
    BY ONLY <1>3, <1>4, <1>5, <1>8, Zenon DEF ChargeOf
  <2>2. QED
    BY ONLY <1>3, <1>4, <1>8, <1>s, <2>1, Zenon
<1>9. QED
  BY ONLY <1>7, <1>8, Zenon

-----------------------------------------------------------------------------
(* The quota.                                                              *)

QuotaInv ==
    /\ used \in [Tenants -> Nat]
    /\ limit \in [Tenants -> Limits \cup {0}]
    /\ \A t \in Tenants : used[t] >= FileBytes(t)

(* An entry of size old becomes one of size new, and its tenant is charged *)
(* at least the difference.                                                *)
LEMMA Charged ==
  ASSUME Shape, QuotaInv, NEW e \in Places, NEW v, files' = [files EXCEPT ![e] = v],
         NEW u, used' = [used EXCEPT ![e[1]] = u],
         u = used[e[1]] + SizeIn(files', e) \/ u = used[e[1]] + SizeIn(files', e) - EntrySize(e),
         UNCHANGED limit
  PROVE  QuotaInv'
<1>1. PICK a : a = e[1]
  BY Zenon
<1>2. a \in Tenants /\ used[a] \in Nat /\ used[a] >= BytesIn(files, a)
  BY <1>1, BytesAreSizes DEF Places, QuotaInv
<1>3. \A d \in Places : d # e => files'[d] = files[d]
  BY Zenon DEF Shape
<1>4. /\ BytesIn(files', a) + SizeIn(files, e) = BytesIn(files, a) + SizeIn(files', e)
      /\ BytesIn(files, a) >= SizeIn(files, e)
  BY ONLY <1>1, <1>3, e \in Places, OneEntry
<1>5. BytesIn(files, a) \in Nat /\ BytesIn(files', a) \in Nat
  BY ONLY BytesAreNumbers, Zenon
<1>6. SizeIn(files, e) \in Nat /\ SizeIn(files', e) \in Nat
  BY CasAssumption, Zenon DEF SizeIn
<1>7. u = used[a] + SizeIn(files', e) \/ u = used[a] + SizeIn(files', e) - SizeIn(files, e)
  BY <1>1, BytesAreSizes, Zenon
<1>8. u \in Nat /\ u >= BytesIn(files', a)
  <2>1. PICK b, c, d, f, g : /\ b = BytesIn(files, a) /\ c = BytesIn(files', a) /\ g = used[a]
                             /\ d = SizeIn(files, e) /\ f = SizeIn(files', e)
    BY Zenon
  <2>2. /\ b \in Nat /\ c \in Nat /\ d \in Nat /\ f \in Nat /\ g \in Nat
        /\ c + d = b + f /\ b >= d /\ g >= b /\ (u = g + f \/ u = g + f - d)
    BY ONLY <1>2, <1>4, <1>5, <1>6, <1>7, <2>1, Zenon
  <2>3. u \in Nat /\ u >= c
    BY ONLY <2>2
  <2>4. QED
    BY ONLY <2>1, <2>3, Zenon
<1>9. used' \in [Tenants -> Nat] /\ used'[a] = u /\ \A t \in Tenants : t # a => used'[t] = used[t]
  BY <1>1, <1>2, <1>8 DEF QuotaInv
<1>10. ASSUME NEW t \in Tenants PROVE used'[t] >= FileBytes(t)'
  <2>1. CASE t = a
    BY ONLY <1>8, <1>9, <2>1, BytesAreSizes, Zenon
  <2>2. CASE t # a
    <3>1. BytesIn(files', t) = BytesIn(files, t)
      BY ONLY <1>1, <1>3, <2>2, e \in Places, OneEntry, Zenon
    <3>2. used[t] >= FileBytes(t)
      BY Zenon DEF QuotaInv
    <3>3. QED
      BY ONLY <1>9, <1>10, <2>2, <3>1, <3>2, BytesAreSizes, Zenon
  <2>3. QED
    BY ONLY <2>1, <2>2, Zenon
<1>11. limit' \in [Tenants -> Limits \cup {0}]
  BY Zenon DEF QuotaInv
<1>12. QED
  BY ONLY <1>9, <1>10, <1>11, Zenon DEF QuotaInv

LEMMA NotCharged ==
  ASSUME QuotaInv, UNCHANGED <<files, used>>, limit' \in [Tenants -> Limits \cup {0}]
  PROVE  QuotaInv'
<1>1. ASSUME NEW t PROVE FileBytes(t)' = FileBytes(t)
  BY BytesAreSizes, Zenon
<1>2. QED
  BY <1>1, Zenon DEF QuotaInv

-----------------------------------------------------------------------------
(* The quota, the record of the thread and the content store, call by call. *)

LEMMA CallsKeepQuota ==
  ASSUME Shape, QuotaInv, NEW x \in Threads, Call(x)
  PROVE  QuotaInv'
<1>1. CASE UNCHANGED <<files, used, limit>>
  <2>1. limit' \in [Tenants -> Limits \cup {0}]
    BY <1>1, Zenon DEF QuotaInv
  <2>2. QED
    BY <1>1, <2>1, NotCharged
<1>2. CASE WriteEntry(x) /\ ~UNCHANGED <<files, used, limit>>
  <2>1. PICK e, c : e = op[x].place /\ c = op[x].c
    BY Zenon
  <2>2. e \in Places /\ c \in Contents
    BY <1>2, <2>1, PlaceOfPath DEF WriteEntry, Shape
  <2>3. /\ files' = [files EXCEPT ![e] = c] /\ UNCHANGED limit
        /\ used' = [used EXCEPT ![e[1]] = used[e[1]] + Size[c] - EntrySize(e)]
    BY <1>2, <2>1 DEF WriteEntry, storeVars
  <2>4. SizeIn(files', e) = Size[c]
    BY <2>2, <2>3 DEF Shape, SizeIn
  <2>5. PICK u : u = used[e[1]] + Size[c] - EntrySize(e)
    BY Zenon
  <2>6. used' = [used EXCEPT ![e[1]] = u] /\ u = used[e[1]] + SizeIn(files', e) - EntrySize(e)
    BY ONLY <2>3, <2>4, <2>5, Zenon
  <2>7. QED
    BY <2>2, <2>3, <2>6, Charged, Zenon
<1>3. CASE remove(x)
  <2>1. PICK e \in Places : /\ files' = [files EXCEPT ![e] = None] /\ UNCHANGED limit
                            /\ used' = [used EXCEPT ![e[1]] = used[e[1]] - EntrySize(e)]
    BY <1>3, Zenon DEF remove
  <2>2. SizeIn(files', e) = 0
    BY <2>1, StoreAssumption DEF Shape, SizeIn
  <2>3. used[e[1]] \in Nat /\ EntrySize(e) \in Nat
    <3>1. e[1] \in Tenants
      BY Zenon DEF Places
    <3>2. QED
      BY <3>1, CasAssumption DEF QuotaInv, EntrySize
  <2>4. PICK u : u = used[e[1]] - EntrySize(e)
    BY Zenon
  <2>5. u = used[e[1]] + SizeIn(files', e) - EntrySize(e)
    BY ONLY <2>2, <2>3, <2>4
  <2>6. used' = [used EXCEPT ![e[1]] = u]
    BY ONLY <2>1, <2>4, Zenon
  <2>7. QED
    BY <2>1, <2>5, <2>6, Charged, Zenon
<1>4. CASE mkdir(x)
  <2>1. PICK e \in Places : files' = [files EXCEPT ![e] = "dir"] /\ UNCHANGED <<used, limit>>
    BY <1>4, Zenon DEF mkdir, Places
  <2>2. SizeIn(files', e) = 0
    BY <2>1, StoreAssumption DEF Shape, SizeIn
  <2>3. PICK u : u = used[e[1]]
    BY Zenon
  <2>4. u \in Nat /\ used' = [used EXCEPT ![e[1]] = u]
    BY <2>1, <2>3 DEF QuotaInv, Places
  <2>5. u = used[e[1]] + SizeIn(files', e)
    BY ONLY <2>2, <2>3, <2>4
  <2>6. QED
    BY <2>1, <2>4, <2>5, Charged, Zenon
<1>5. CASE ShareEntry(x) /\ ~UNCHANGED <<files, used, limit>>
  <2>1. PICK e, c : e = op[x].place /\ c = op[x].c
    BY Zenon
  <2>2. e \in Places /\ c \in Contents
    BY <1>5, <2>1, PlaceOfPath DEF ShareEntry, Shape
  <2>3. /\ files' = [files EXCEPT ![e] = c] /\ UNCHANGED limit
        /\ used' = [used EXCEPT ![e[1]] = used[e[1]] + Size[c]]
    BY <1>5, <2>1 DEF ShareEntry, ShareCharge, storeVars
  <2>4. SizeIn(files', e) = Size[c]
    BY <2>2, <2>3 DEF Shape, SizeIn
  <2>5. PICK u : u = used[e[1]] + Size[c]
    BY Zenon
  <2>6. used' = [used EXCEPT ![e[1]] = u] /\ u = used[e[1]] + SizeIn(files', e)
    BY ONLY <2>3, <2>4, <2>5, Zenon
  <2>7. QED
    BY <2>2, <2>3, <2>6, Charged, Zenon
<1>6. CASE set_quota(x)
  <2>1. UNCHANGED <<files, used>>
    BY <1>6 DEF set_quota
  <2>2. limit' \in [Tenants -> Limits \cup {0}]
    BY <1>6, Zenon DEF set_quota, QuotaInv
  <2>3. QED
    BY <2>1, <2>2, NotCharged
<1>7. CASE Put(x) \/ Unpin(x)
  BY <1>1, <1>7 DEF Put, Unpin
<1>8. CASE WritePut(x) \/ UnpinOld(x) \/ ShareStat(x) \/ SharePin(x)
  BY <1>1, <1>8 DEF WritePut, UnpinOld, ShareStat, SharePin, storeVars
<1>9. CASE Open(x) \/ ReadEntry(x) \/ ReadChunk(x) \/ ReadReturn(x)
  BY <1>1, <1>9, Zenon DEF Open, ReadEntry, ReadChunk, ReadReturn, storeVars
<1>10. QED
  BY ONLY <1>1, <1>2, <1>3, <1>4, <1>5, <1>6, <1>7, <1>8, <1>9, Call(x), Zenon DEF Call

-----------------------------------------------------------------------------
(* What the other calls do to the thread's record.                         *)

LEMMA MovesToOther ==
  ASSUME NEW x, NEW o \in Ops, o.at \notin {"read", "done"}, Becomes(x, o)
  PROVE  MovesTo(x, o)
  BY NotReading, Zenon DEF MovesTo

LEMMA StaysIdle ==
  ASSUME OpInv, NEW x \in Threads, op[x] = Idle, UNCHANGED op
  PROVE  MovesTo(x, Idle)
<1>1. Becomes(x, Idle)
  BY Zenon DEF OpInv, Becomes
<1>2. QED
  BY ONLY <1>1, MovesToIdle, Zenon

LEMMA CallMoves ==
  ASSUME Shape, CasInv, OpInv, NEW x \in Threads, Call(x)
  PROVE  \E o : MovesTo(x, o)
<1>1. CASE Put(x) \/ Unpin(x) \/ mkdir(x) \/ set_quota(x)
  <2>1. op[x] = Idle /\ UNCHANGED op
    BY <1>1, Zenon DEF Put, Unpin, mkdir, set_quota, Begin
  <2>2. QED
    BY <2>1, StaysIdle, Zenon
<1>2. CASE Becomes(x, Idle)
  BY <1>2, MovesToIdle, Zenon
<1>3. ASSUME NEW c \in Contents, NEW a \in {"unpin", "open"}, Becomes(x, [at |-> a, c |-> c])
      PROVE  \E o : MovesTo(x, o)
  <2>1. PICK o : o = [at |-> a, c |-> c]
    BY Zenon
  <2>2. o \in Ops /\ Becomes(x, o)
    BY ONLY <1>3, <2>1, CallRecords, Zenon
  <2>3. o.at \notin {"read", "done"}
    BY ONLY <2>1, a \in {"unpin", "open"}
  <2>4. QED
    BY ONLY <2>2, <2>3, MovesToOther, Zenon
<1>4. ASSUME NEW e \in Tenants \X Paths, NEW c \in Contents, NEW a \in {"write", "share", "pin"},
             Becomes(x, [at |-> a, place |-> e, c |-> c])
      PROVE  \E o : MovesTo(x, o)
  <2>1. PICK o : o = [at |-> a, place |-> e, c |-> c]
    BY Zenon
  <2>2. o \in Ops /\ Becomes(x, o)
    BY ONLY <1>4, <2>1, CallRecords, Zenon
  <2>3. o.at \notin {"read", "done"}
    BY ONLY <2>1, a \in {"write", "share", "pin"}
  <2>4. QED
    BY ONLY <2>2, <2>3, MovesToOther, Zenon
<1>5. CASE WritePut(x)
  <2>1. PICK e \in Tenants \X Paths, c \in Contents :
          Becomes(x, [at |-> "write", place |-> e, c |-> c])
    BY <1>5, Zenon DEF WritePut
  <2>2. QED
    BY <1>4, <2>1, Zenon
<1>6. CASE WriteEntry(x)
  <2>1. PICK c : Becomes(x, Idle) \/ (c \in Contents /\ Becomes(x, [at |-> "unpin", c |-> c]))
    BY <1>6 DEF WriteEntry, Replaced
  <2>2. QED
    BY <1>2, <1>3, <2>1, Zenon
<1>7. CASE remove(x)
  <2>1. PICK e \in Places :
          /\ files[e] # None
          /\ Becomes(x, IF files[e] = "dir" THEN Idle ELSE [at |-> "unpin", c |-> files[e]])
    BY <1>7, Zenon DEF remove
  <2>2. files[e] = "dir" \/ files[e] \in Contents
    BY <2>1 DEF Shape
  <2>3. QED
    BY <1>2, <1>3, <2>1, <2>2, Zenon
<1>8. CASE ShareStat(x)
  <2>1. PICK e \in Tenants \X Paths, c \in Contents :
          Becomes(x, [at |-> "pin", place |-> e, c |-> c])
    BY <1>8, Zenon DEF ShareStat
  <2>2. QED
    BY <1>4, <2>1, Zenon
<1>9. CASE SharePin(x)
  <2>1. op[x] \in Ops /\ op[x].at = "pin"
    BY <1>9, Zenon DEF SharePin, OpInv
  <2>2. PICK e, c : e = op[x].place /\ c = op[x].c
    BY Zenon
  <2>3. e \in Tenants \X Paths /\ c \in Contents /\ op[x] = [at |-> "pin", place |-> e, c |-> c]
    BY ONLY <2>1, <2>2, ReadRecord
  <2>4. [op[x] EXCEPT !.at = "share"] = [at |-> "share", place |-> e, c |-> c]
    BY ONLY <2>3
  <2>5. Becomes(x, Idle) \/ Becomes(x, [at |-> "share", place |-> e, c |-> c])
    BY <1>9, <2>4, Zenon DEF SharePin
  <2>6. QED
    BY <1>2, <1>4, <2>3, <2>5, Zenon
<1>10. CASE Open(x)
  <2>1. PICK c \in Contents : Becomes(x, [at |-> "open", c |-> c])
    BY <1>10, Zenon DEF Open
  <2>2. QED
    BY <1>3, <2>1, Zenon
<1>11. CASE UnpinOld(x) \/ ShareEntry(x) \/ ReadReturn(x)
  BY <1>2, <1>11, Zenon DEF UnpinOld, ShareEntry, ReadReturn
<1>12. CASE ReadEntry(x) \/ ReadChunk(x)
  BY <1>12, ReadEntryMoves, ReadChunkMoves, Zenon
<1>13. QED
  BY ONLY <1>1, <1>5, <1>6, <1>7, <1>8, <1>9, <1>10, <1>11, <1>12, Call(x), Zenon DEF Call

(* At most one transaction of the content store. *)
LEMMA CallTransaction ==
  ASSUME Shape, NEW x \in Threads, Call(x)
  PROVE  UNCHANGED casVars \/ \E c \in Contents : put(c) \/ pin(c) \/ unpin(c)
<1>1. CASE Put(x) \/ Unpin(x) \/ WritePut(x)
  BY <1>1, Zenon DEF Put, Unpin, WritePut
<1>2. CASE UnpinOld(x)
  <2>1. op[x].c \in Contents
    BY <1>2 DEF UnpinOld, Shape
  <2>2. QED
    BY <1>2, <2>1, Zenon DEF UnpinOld
<1>3. CASE SharePin(x)
  <2>1. op[x].c \in Contents
    BY <1>3 DEF SharePin, Shape
  <2>2. QED
    BY <1>3, <2>1, Zenon DEF SharePin
<1>4. CASE WriteEntry(x) \/ remove(x) \/ mkdir(x) \/ set_quota(x)
  BY <1>4 DEF WriteEntry, remove, mkdir, set_quota, casVars
<1>5. CASE ShareStat(x) \/ ShareEntry(x) \/ Open(x) \/ ReadEntry(x) \/ ReadChunk(x) \/ ReadReturn(x)
  BY <1>5, Zenon DEF ShareStat, ShareEntry, Open, ReadEntry, ReadChunk, ReadReturn, casVars
<1>6. QED
  BY ONLY <1>1, <1>2, <1>3, <1>4, <1>5, Call(x), Zenon DEF Call

LEMMA CallCounts ==
  ASSUME calls \in 0..MaxCalls, NEW x \in Threads, Call(x)
  PROVE  calls' \in 0..MaxCalls /\ restarted' = restarted
<1>1. CASE Begin(x)
  BY <1>1, StoreAssumption DEF Begin
<1>2. CASE Continue
  BY <1>2, Zenon DEF Continue
<1>3. QED
  BY <1>1, <1>2, Zenon DEF Call, Put, Unpin, WritePut, WriteEntry, UnpinOld, remove, mkdir,
     set_quota, ShareStat, SharePin, ShareEntry, Open, ReadEntry, ReadChunk, ReadReturn

-----------------------------------------------------------------------------
(* All of it together.                                                     *)

(* The inductive invariant of the store. *)
StoreInv ==
    /\ Inv /\ CasInv /\ OpInv /\ QuotaInv
    /\ calls \in 0..MaxCalls /\ restarted \in BOOLEAN
    /\ restarted \/ (BlockInv /\ ReadInv)

LEMMA NoSum ==
  ASSUME NEW n \in Nat, NEW w, NEW s, IsSum(s, w, n), \A i \in 1..n : w[i] = 0
  PROVE  s[n] = 0
<1>1. PICK t : t = [i \in 0..n |-> 0]
  BY Zenon
<1>2. IsSum(t, w, n) /\ t[n] = 0
  BY <1>1 DEF IsSum
<1>3. QED
  BY ONLY <1>2, n \in Nat, IsSum(s, w, n), SumSame, Zenon

LEMMA InitStoreInv == Init => StoreInv
<1> SUFFICES ASSUME Init PROVE StoreInv
  BY Zenon
<1>1. Inv
  BY InitInv, Zenon
<1>2. CasInv
  BY CasAssumption DEF Init, CasInit, CasInv
<1>3. op = [x \in Threads |-> Idle] /\ calls = 0 /\ restarted = FALSE
  BY Zenon DEF Init
<1>4. OpInv /\ ReadInv
  <2>1. ASSUME NEW x \in Threads
        PROVE  op[x] = Idle
    BY ONLY <1>3, x \in Threads
  <2>2. Idle \in Ops /\ InRange(Idle) /\ Faithful(Idle, nextSeq, blocks)
    BY CallRecords, NotReading
  <2>3. op \in [Threads -> Ops]
    BY ONLY <1>3, <2>2
  <2>4. QED
    BY ONLY <2>1, <2>2, <2>3, Zenon DEF OpInv, ReadInv
<1>5. BlockInv
  <2>1. \A c \in Contents : DOMAIN chunks[c] = {}
    BY DEF Init, CasInit
  <2>2. \A r \in Roots, q \in Seqs : blocks[r][q] = NoBlock
    BY Zenon DEF Init, CasInit
  <2>3. QED
    BY ONLY <2>1, <2>2, Zenon DEF BlockInv, Stored, Unshared, Owned
<1>6. QuotaInv
  <2>1. ASSUME NEW t \in Tenants PROVE FileBytes(t) = 0
    <3>0. PICK s, w : SumsBytes(files, t, s, w)
      BY ONLY BytesInIsSum, Zenon
    <3>1. /\ \A i \in 1 .. Cardinality(Places) : w[i] = ChargeOf(files, t, i)
          /\ IsSum(s, w, Cardinality(Places)) /\ BytesIn(files, t) = s[Cardinality(Places)]
      BY ONLY <3>0, Zenon DEF SumsBytes
    <3>2. ASSUME NEW i \in 1 .. Cardinality(Places) PROVE w[i] = 0
      <4>1. PlaceSeq[i] \in Places
        BY ONLY PlacesListed, Zenon
      <4>2. SizeIn(files, PlaceSeq[i]) = 0
        BY <4>1, StoreAssumption DEF Init, SizeIn
      <4>3. QED
        BY ONLY <3>1, <4>2, Zenon DEF ChargeOf
    <3>3. s[Cardinality(Places)] = 0
      BY ONLY <3>1, <3>2, PlacesListed, NoSum, Zenon
    <3>4. QED
      BY ONLY <3>1, <3>3, BytesAreSizes, Zenon
  <2>2. used = [t \in Tenants |-> 0] /\ limit = [t \in Tenants |-> 0]
    BY Zenon DEF Init
  <2>3. QED
    BY ONLY <2>1, <2>2 DEF QuotaInv
<1>7. calls \in 0..MaxCalls
  BY ONLY <1>3, StoreAssumption
<1>8. QED
  BY ONLY <1>1, <1>2, <1>3, <1>4, <1>5, <1>6, <1>7, Zenon DEF StoreInv

LEMMA CallKeepsStore ==
  ASSUME StoreInv, NEW x \in Threads, Call(x)
  PROVE  StoreInv'
<1>1. Shape /\ Inv /\ CasInv /\ OpInv /\ QuotaInv
  BY Zenon DEF StoreInv, Inv
<1>2. Inv'
  BY <1>1, StepInv, Zenon DEF Next
<1>3. QuotaInv'
  BY <1>1, CallsKeepQuota, Zenon
<1>4. calls' \in 0..MaxCalls /\ restarted' = restarted
  BY CallCounts, Zenon DEF StoreInv
<1>5. PICK o : MovesTo(x, o)
  BY <1>1, CallMoves, Zenon
<1>6. op' = [op EXCEPT ![x] = o] /\ o \in Ops /\ InRange(o)
  BY ONLY <1>5, Zenon DEF MovesTo, Becomes
<1>7. /\ op' \in [Threads -> Ops] /\ op'[x] = o
      /\ \A y \in Threads : y # x => op'[y] = op[y]
  BY ONLY <1>1, <1>6 DEF OpInv
<1>8. OpInv'
  BY ONLY <1>1, <1>6, <1>7, Zenon DEF OpInv, InRange
<1> DEFINE Kept == /\ CasInv'
                   /\ BlockInv => BlockInv'
                   /\ nextSeq \in Nat /\ nextSeq' \in Nat /\ nextSeq <= nextSeq'
                   /\ \A r \in Roots, q \in Seqs :
                          q < nextSeq => blocks'[r][q] \in {NoBlock, blocks[r][q]}
<1>9. Kept
  <2>1. nextSeq \in Nat
    BY ONLY <1>1, IdsAreSeqs, Zenon
  <2>2. CASE UNCHANGED casVars
    <3>1. CasInv'
      BY ONLY <1>1, <2>2 DEF CasInv, casVars
    <3>2. UNCHANGED <<chunks, blocks, nextSeq>>
      BY ONLY <2>2, Zenon DEF casVars
    <3>3. BlockInv => BlockInv'
      BY ONLY <3>2, StaysKeeps, Zenon DEF Stays
    <3>4. nextSeq' \in Nat /\ nextSeq <= nextSeq'
      BY ONLY <2>1, <3>2
    <3>5. QED
      BY ONLY <2>1, <3>1, <3>2, <3>3, <3>4, Zenon
  <2>3. ASSUME NEW c \in Contents, put(c) \/ pin(c) \/ unpin(c) PROVE Kept
    <3>1. CasInv' /\ (Grows(c) \/ Shrinks(c) \/ Stays)
      BY ONLY <1>1, <2>3, Transaction, Zenon
    <3>2. BlockInv => BlockInv'
      BY ONLY <1>1, <3>1, GrowsKeeps, ShrinksKeeps, StaysKeeps, Zenon
    <3>3. QED
      BY ONLY <1>1, <2>1, <3>1, <3>2, BlocksOnlyGo, Zenon
  <2>4. QED
    BY ONLY <1>1, <2>2, <2>3, CallTransaction, Call(x), x \in Threads, Zenon
<1>10. restarted' \/ (BlockInv' /\ ReadInv')
  <2>0. restarted \/ (BlockInv /\ ReadInv)
    BY Zenon DEF StoreInv
  <2>1. SUFFICES ASSUME BlockInv, ReadInv PROVE BlockInv' /\ ReadInv'
    BY <1>4, <2>0, Zenon
  <2>2. ASSUME NEW y \in Threads PROVE Faithful(op'[y], nextSeq', blocks')
    <3>1. op'[y] \in Ops /\ Faithful(op'[y], nextSeq, blocks)
      <4>1. op'[y] \in Ops
        BY ONLY <1>7, Zenon
      <4>2. Faithful(o, nextSeq, blocks)
        BY ONLY <1>5, <2>1, Zenon DEF MovesTo
      <4>3. y # x => Faithful(op[y], nextSeq, blocks)
        BY ONLY <2>1, Zenon DEF ReadInv
      <4>4. QED
        BY ONLY <1>7, <4>1, <4>2, <4>3, Zenon
    <3>2. QED
      BY ONLY <1>9, <3>1, StaysFaithful
  <2>3. QED
    BY ONLY <1>9, <2>1, <2>2, Zenon DEF ReadInv
<1>11. QED
  BY ONLY <1>2, <1>3, <1>4, <1>8, <1>9, <1>10, StoreInv, Zenon DEF StoreInv

LEMMA RestartKeepsStore ==
  ASSUME StoreInv, Restart
  PROVE  StoreInv'
<1>1. Shape /\ Inv /\ CasInv /\ OpInv /\ QuotaInv /\ calls \in 0..MaxCalls
  BY Zenon DEF StoreInv, Inv
<1>2. Inv'
  BY <1>1, RestartKeeps, Zenon
<1>3. nextSeq' = 1 /\ UNCHANGED <<refcount, chunks, blocks>>
  BY Zenon DEF Restart, Reopen
<1>4. CasInv'
  BY <1>1, <1>3, CasAssumption DEF CasInv
<1>5. /\ op' = [x \in Threads |-> Idle] /\ UNCHANGED <<files, used, limit, calls>>
      /\ restarted' = TRUE
  BY Zenon DEF Restart, storeVars
<1>6. OpInv'
  <2>1. Idle \in Ops /\ InRange(Idle)
    BY CallRecords, NotReading, Zenon
  <2>2. op' \in [Threads -> Ops] /\ \A x \in Threads : op'[x] = Idle
    BY ONLY <1>5, <2>1
  <2>3. QED
    BY ONLY <2>1, <2>2, Zenon DEF OpInv, InRange
<1>7. QuotaInv'
  <2>1. limit' \in [Tenants -> Limits \cup {0}]
    BY ONLY <1>1, <1>5, Zenon DEF QuotaInv
  <2>2. QED
    BY <1>1, <1>5, <2>1, NotCharged
<1>8. QED
  BY ONLY <1>1, <1>2, <1>4, <1>5, <1>6, <1>7, Zenon DEF StoreInv

LEMMA StepStoreInv == StoreInv /\ [Next]_vars => StoreInv'
<1> SUFFICES ASSUME StoreInv, [Next]_vars PROVE StoreInv'
  BY Zenon
<1>1. CASE UNCHANGED vars
  <2>1. UNCHANGED <<refcount, chunks, blocks, nextSeq, files, used, limit, held, op,
                  calls, restarted>>
    BY <1>1 DEF vars, casVars, storeVars
  <2>2. Inv'
    BY <1>1, StepInv, Zenon DEF StoreInv
  <2>3. CasInv'
    BY <2>1, Zenon DEF StoreInv, CasInv
  <2>4. OpInv' /\ (ReadInv => ReadInv')
    BY <2>1, Zenon DEF StoreInv, OpInv, ReadInv, InRange, Faithful
  <2>5. QuotaInv'
    BY <2>1, NotCharged, Zenon DEF StoreInv, QuotaInv
  <2>6. BlockInv => BlockInv'
    BY <2>1, StaysKeeps, Zenon DEF Stays
  <2>7. QED
    BY <2>1, <2>2, <2>3, <2>4, <2>5, <2>6, Zenon DEF StoreInv
<1>2. QED
  BY <1>1, CallKeepsStore, RestartKeepsStore, Zenon DEF Next

LEMMA StoreIsInvariant == Spec => []StoreInv
  BY InitStoreInv, StepStoreInv, PTL DEF Spec

(* cas.cpp and block_store.cpp, until the store is opened again: every     *)
(* block is one chunk of one entry and holds its bytes, and a release      *)
(* leaves none behind, for any contents, sizes and roots.                  *)
THEOREM BlocksAreTheEntries == Spec => []BlocksBelongToEntries
<1>1. StoreInv => BlocksBelongToEntries
  BY BlocksBelong, Zenon DEF StoreInv, BlocksBelongToEntries
<1>2. QED
  BY <1>1, StoreIsInvariant, PTL

(* file_handle::read(), until the store is opened again: a read that       *)
(* returns has the bytes that were asked for, whatever the other threads   *)
(* put, removed and allocated between its read sessions, and wherever      *)
(* root_for_block() looks for a block.                                     *)
THEOREM ReadsReturnWhatWasAsked == Spec => []ReadsAreFaithful
<1>1. StoreInv => ReadsAreFaithful
  BY Zenon DEF StoreInv, ReadsAreFaithful, ReadInv, Faithful
<1>2. QED
  BY <1>1, StoreIsInvariant, PTL

(* update_quota(): what a tenant is charged never falls below the bytes of *)
(* its files, so that the unsigned count never wraps around, whatever the  *)
(* order of writes, removals and shares and whenever the process stops;    *)
(* and every variable keeps its type.                                      *)
THEOREM TenantsAreCharged == Spec => []QuotaCoversFiles
<1>1. StoreInv => QuotaCoversFiles
  <2>1. SUFFICES ASSUME StoreInv PROVE TypeOK /\ \A t \in Tenants : used[t] >= FileBytes(t)
    BY Zenon DEF QuotaCoversFiles
  <2>2. Shape /\ CasInv /\ OpInv /\ QuotaInv /\ calls \in 0..MaxCalls
    BY <2>1, Zenon DEF StoreInv, Inv
  <2>r. restarted \in BOOLEAN
    BY <2>1, Zenon DEF StoreInv
  <2>3. \A r \in Roots, q \in Seqs : blocks[r][q] \in Pieces \cup {NoBlock}
    BY ONLY <2>2 DEF CasInv
  <2>4. CasTypeOK
    BY ONLY <2>2, <2>3, Zenon DEF CasTypeOK, CasInv, Shape
  <2>5. QED
    BY ONLY <2>2, <2>4, <2>r, Zenon DEF TypeOK, Shape, OpInv, QuotaInv
<1>2. QED
  BY <1>1, StoreIsInvariant, PTL
=============================================================================
