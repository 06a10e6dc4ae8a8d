---------------------------- MODULE HandleTable ----------------------------
(***************************************************************************)
(* psizam::handle_table: the slab that maps the u32 handles of a guest to   *)
(* objects of the host.  A table is a value, and create, get and destroy    *)
(* are operators on it, so that a host with several tables holds several    *)
(* such values.  A handle is the pair of a slot and the generation the slot *)
(* had when the handle was made.  The objects are whatever the host stores. *)
(***************************************************************************)
EXTENDS Integers, FiniteSets, SequencesExt

CONSTANTS Capacity,      \* slots of a table
          Generations,   \* 2^16: a generation is a uint16_t
          Null           \* no object, and invalid_handle

ASSUME HandleTableAssumption ==
    Capacity \in Nat \ {0} /\ Generations \in Nat \ {0, 1}

Slots == 0 .. Capacity - 1
Handles == Slots \X (0 .. Generations - 1)

\* A table whose constructor was given max.  "dead" is not in the code: the
\* handles that were destroyed.
EmptyTable(max) ==
    [value      |-> [i \in Slots |-> Null],
     generation |-> [i \in Slots |-> 0],
     next_free  |-> [i \in Slots |-> i + 1],
     free_head  |-> 0,
     live_count |-> 0,
     max_live   |-> max,
     dead       |-> {}]

TableTypeOK(t) ==
    /\ DOMAIN t.value = Slots
    /\ t.generation \in [Slots -> 0 .. Generations - 1]
    /\ t.next_free \in [Slots -> 0 .. Capacity]
    /\ t.free_head \in 0 .. Capacity
    /\ t.live_count \in 0 .. Capacity
    /\ t.dead \subseteq Handles

occupied(t, i) == t.value[i] # Null
full(t) == t.live_count >= t.max_live \/ t.free_head >= Capacity

\* The handle create returns, when the table is not full.
NextHandle(t) == <<t.free_head, t.generation[t.free_head]>>

create(t, v) ==
    [t EXCEPT !.value[t.free_head] = v,
              !.free_head = t.next_free[t.free_head],
              !.live_count = @ + 1]

get(t, h) ==
    IF h \in Handles /\ t.generation[h[1]] = h[2] THEN t.value[h[1]] ELSE Null

Resolves(t, h) == get(t, h) # Null
Live(t) == {h \in Handles : Resolves(t, h)}

\* Plausible slip: the generation stays.
destroy_SameGeneration(t, h) ==
    IF ~Resolves(t, h) THEN t
    ELSE [t EXCEPT !.value[h[1]] = Null,
                   !.next_free[h[1]] = t.free_head,
                   !.free_head = h[1],
                   !.live_count = @ - 1,
                   !.dead = @ \cup {h}]

\* Plausible slip: the slot goes back with the link it had.
destroy_NoLink(t, h) ==
    IF ~Resolves(t, h) THEN t
    ELSE [t EXCEPT !.value[h[1]] = Null,
                   !.generation[h[1]] = (@ + 1) % Generations,
                   !.free_head = h[1],
                   !.live_count = @ - 1,
                   !.dead = @ \cup {h}]

destroy(t, h) ==
    IF ~Resolves(t, h) THEN t
    ELSE [t EXCEPT !.value[h[1]] = Null,
                   !.generation[h[1]] = (@ + 1) % Generations,
                   !.next_free[h[1]] = t.free_head,
                   !.free_head = h[1],
                   !.live_count = @ - 1,
                   !.dead = @ \cup {h}]

\* A call of destroy for each handle of a sequence, in order.
destroy_each(t, hs) == FoldLeft(destroy, t, hs)

destroy_all(t) ==
    [t EXCEPT !.value = [i \in Slots |-> Null],
              !.generation = [i \in Slots |->
                  IF occupied(t, i) THEN (@[i] + 1) % Generations ELSE @[i]],
              !.next_free = [i \in Slots |-> i + 1],
              !.free_head = 0,
              !.live_count = 0,
              !.dead = @ \cup Live(t)]

\* Replaces the object of a handle that resolves: a write through the pointer.
update(t, h, v) == [t EXCEPT !.value[h[1]] = v]

---------------------------------------------------------------------------
\* The slots that the free list passes in k steps from i.
FreeSlots(t) ==
    LET from[k \in 0 .. Capacity, i \in 0 .. Capacity] ==
            IF k = 0 \/ i = Capacity THEN << >>
            ELSE <<i>> \o from[k - 1, t.next_free[i]]
    IN  from[Capacity, t.free_head]

\* The free list holds every unoccupied slot, once, and nothing else, and the
\* count of live objects is exact: what create relies on when it reuses a slot
\* without looking at it.
FreeListIntact(t) ==
    /\ ToSet(FreeSlots(t)) = {i \in Slots : ~occupied(t, i)}
    /\ Len(FreeSlots(t)) = Capacity - t.live_count
    /\ t.live_count <= t.max_live

\* A destroyed handle never resolves again, until its slot has gone through
\* every generation.
DeadStayDead(t) ==
    \A h \in t.dead :
        Resolves(t, h) => \A g \in 0 .. Generations - 1 : <<h[1], g>> \in t.dead
=============================================================================
