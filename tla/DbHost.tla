------------------------------- MODULE DbHost -------------------------------
(***************************************************************************)
(* psiserve::DbHost, the host side of psi:db: databases, transactions,      *)
(* tables and cursors that one guest holds through handles.  Every action   *)
(* is one call of the guest, with a handle that resolves; a call with any   *)
(* other handle changes nothing.                                            *)
(*                                                                         *)
(* psitri is external.  Of it the model has what the host relies on: a root *)
(* that maps table names to trees, a write transaction with a private view  *)
(* of it that commit publishes, frames that are savepoints of that one view *)
(* and whose abort restores it, and cursors on trees that are detached      *)
(* until their root is stored.  A tree is the set of its keys.  psitri lets *)
(* one writer in at a time.  The host does not keep the guest from ending a *)
(* transaction under an open frame, or from using a frame whose transaction *)
(* is gone; what becomes of the trees then is psitri's, and left open.      *)
(***************************************************************************)
EXTENDS HandleTable

CONSTANTS Names, Keys,
          MaxDatabases, MaxTransactions, MaxTables, MaxCursors,
          NoTree,        \* a null root: no tree
          Unclear,       \* nothing is expected of this table
          MaxCalls       \* bound on the calls that change something

VARIABLES databases, transactions, tables, cursors,
          root,          \* the published trees
          view,          \* the trees as the write transaction and its frames see them
          expect,        \* history: the trees the guest's calls asked for
          calls

vars == <<databases, transactions, tables, cursors, root, view, expect, calls>>

Trees == SUBSET Keys
Roots == [Names -> Trees \cup {NoTree}]

Init ==
    /\ databases = EmptyTable(MaxDatabases)
    /\ transactions = EmptyTable(MaxTransactions)
    /\ tables = EmptyTable(MaxTables)
    /\ cursors = EmptyTable(MaxCursors)
    /\ root = [n \in Names |-> NoTree]
    /\ view = root /\ expect = root
    /\ calls = 0

TypeOK ==
    /\ \A t \in {databases, transactions, tables, cursors} : TableTypeOK(t)
    /\ root \in Roots /\ view \in Roots
    /\ expect \in [Names -> Trees \cup {NoTree, Unclear}]
    /\ calls \in 0 .. MaxCalls

Tx(h) == get(transactions, h)
Table(h) == get(tables, h)

Call == calls < MaxCalls /\ calls' = calls + 1

Writing(h) == Tx(h) # Null /\ Tx(h).is_write /\ ~Tx(h).ended
WriteFrames == {h \in Live(transactions) : Writing(h)}

\* The write transaction itself is open, not only frames it has left behind.
Writer == \E h \in WriteFrames : Tx(h).parent = Null

\* A write transaction, or a frame of it, with no frame begun on top of it.
InTurn(h) ==
    Writing(h) /\ Writer /\ \A s \in WriteFrames : Tx(s).depth <= Tx(h).depth

\* The guest holds a write handle of table n, through a transaction other than h.
Held(n) == \E th \in Live(tables) : Table(th).is_write /\ Table(th).name = n
HeldBesides(h, n) ==
    \E th \in Live(tables) :
        Table(th).is_write /\ Table(th).name = n /\ Table(th).tx # h

\* History: a call asks for table n to be tree.  If the guest then works on the
\* table out of turn or through two handles, nothing is expected until the
\* write transaction ends.
Ask(n, tree, clear) ==
    expect' = [expect EXCEPT ![n] = IF clear /\ @ # Unclear THEN tree ELSE Unclear]

NothingExpected == [n \in Names |-> Unclear]

---------------------------------------------------------------------------
open ==
    /\ ~full(databases)
    /\ databases' = create(databases, [root_index |-> 0])
    /\ Call /\ UNCHANGED <<transactions, tables, cursors, root, view, expect>>

database_drop(d) ==
    /\ Resolves(databases, d)
    /\ databases' = destroy(databases, d)
    /\ Call /\ UNCHANGED <<transactions, tables, cursors, root, view, expect>>

NewTx(write, parent) ==
    [is_write |-> write, parent |-> parent, ended |-> FALSE, open |-> << >>,
     read_root |-> Null, depth |-> 0, saved_view |-> Null, saved_expect |-> Null]

\* When the transaction table is full the new psitri transaction is destroyed
\* again, and nothing has changed.
start_write(d) ==
    /\ Resolves(databases, d)
    /\ ~Writer /\ ~full(transactions)
    /\ view' = root
    /\ expect' = IF WriteFrames = {} THEN root ELSE NothingExpected
    /\ transactions' = create(transactions, [NewTx(TRUE, Null) EXCEPT
                                  !.saved_view = root, !.saved_expect = expect'])
    /\ Call /\ UNCHANGED <<databases, tables, cursors, root>>

start_read(d) ==
    /\ Resolves(databases, d)
    /\ ~full(transactions)
    /\ transactions' = create(transactions, [NewTx(FALSE, Null) EXCEPT !.read_root = root])
    /\ Call /\ UNCHANGED <<databases, tables, cursors, root, view, expect>>

start_sub(h) ==
    /\ Writing(h) /\ ~full(transactions)
    /\ transactions' = create(transactions, [NewTx(TRUE, h) EXCEPT
                            !.depth = 1 + Max({Tx(s).depth : s \in WriteFrames}),
                            !.saved_view = view, !.saved_expect = expect])
    /\ Call /\ UNCHANGED <<databases, tables, cursors, root, view, expect>>

\* The view after every dirty table of the transaction has been stored in it.
write_back_dirty_tables(tx) ==
    LET store(v, th) ==
            LET t == Table(th)
            IN  IF t # Null /\ t.is_write /\ t.dirty /\ t.tree # NoTree
                THEN [v EXCEPT ![t.name] = t.tree] ELSE v
    IN  FoldLeft(store, view, tx.open)

CursorsOf(th) == IF Table(th) = Null THEN << >> ELSE Table(th).open

\* Plausible slip: the cursors of the tables are left.
destroy_transaction_children_TablesOnly(tx) ==
    /\ cursors' = cursors
    /\ tables' = destroy_each(tables, tx.open)

destroy_transaction_children(tx) ==
    /\ cursors' = destroy_each(cursors,
           FlattenSeq([i \in DOMAIN tx.open |-> CursorsOf(tx.open[i])]))
    /\ tables' = destroy_each(tables, tx.open)

Ended(h) == update(transactions, h, [Tx(h) EXCEPT !.ended = TRUE, !.open = << >>])

\* psitri's commit with the trees v: the write transaction's publishes them.
Committed(h, v) ==
    IF InTurn(h)
    THEN /\ view' = v
         /\ root' = IF Tx(h).parent = Null THEN v ELSE root
         /\ expect' = expect
    ELSE /\ view' \in {v, Tx(h).saved_view}
         /\ root' \in {root} \cup (IF Tx(h).parent = Null THEN {view'} ELSE {})
         /\ expect' = NothingExpected

\* Plausible slip: commit takes the transaction's view as it is.
commit_NoWriteBack(h) ==
    /\ Writing(h)
    /\ Committed(h, view)
    /\ transactions' = Ended(h)
    /\ destroy_transaction_children(Tx(h))
    /\ Call /\ UNCHANGED databases

commit(h) ==
    /\ Writing(h)
    /\ Committed(h, write_back_dirty_tables(Tx(h)))
    /\ transactions' = Ended(h)
    /\ destroy_transaction_children(Tx(h))
    /\ Call /\ UNCHANGED databases

\* psitri's abort; a read transaction has nothing to abort.  The guest gets back
\* what it asked for before, except that a table it holds through an outer
\* transaction keeps what it wrote through that handle.
Aborted(h) ==
    CASE ~Tx(h).is_write -> UNCHANGED <<view, expect>>
      [] InTurn(h) ->
            /\ view' = Tx(h).saved_view
            /\ expect' = [n \in Names |->
                   IF Tx(h).parent # Null /\ (expect[n] = Unclear \/ HeldBesides(h, n))
                   THEN expect[n] ELSE Tx(h).saved_expect[n]]
      [] OTHER -> view' \in {view, Tx(h).saved_view} /\ expect' = NothingExpected

abort(h) ==
    /\ Tx(h) # Null /\ ~Tx(h).ended
    /\ Aborted(h)
    /\ transactions' = Ended(h)
    /\ destroy_transaction_children(Tx(h))
    /\ Call /\ UNCHANGED <<databases, root>>

transaction_drop(h) ==
    /\ Tx(h) # Null
    /\ IF Tx(h).ended THEN UNCHANGED <<tables, cursors, view, expect>>
       ELSE Aborted(h) /\ destroy_transaction_children(Tx(h))
    /\ transactions' = destroy(transactions, h)
    /\ Call /\ UNCHANGED <<databases, root>>

---------------------------------------------------------------------------
NewTable(h, n, tree, isCreated) ==
    [tx |-> h, name |-> n, is_write |-> Tx(h).is_write, tree |-> tree,
     open |-> << >>, dirty |-> FALSE, created |-> isCreated]

AddTable(h, t) ==
    /\ ~full(tables)
    /\ tables' = create(tables, t)
    /\ transactions' = update(transactions, h,
                           [Tx(h) EXCEPT !.open = Append(@, NextHandle(tables))])

open_table(h, n) ==
    /\ Tx(h) # Null /\ ~Tx(h).ended
    /\ LET trees == IF Tx(h).is_write THEN view ELSE Tx(h).read_root
       IN  trees[n] # NoTree /\ AddTable(h, NewTable(h, n, trees[n], FALSE))
    /\ IF Tx(h).is_write THEN Ask(n, expect[n], InTurn(h) /\ ~Held(n)) ELSE expect' = expect
    /\ Call /\ UNCHANGED <<databases, cursors, root, view>>

create_table(h, n) ==
    /\ Writing(h)
    /\ view[n] = NoTree
    /\ AddTable(h, NewTable(h, n, NoTree, TRUE))
    /\ Ask(n, {}, InTurn(h) /\ ~Held(n))
    /\ Call /\ UNCHANGED <<databases, cursors, root, view>>

drop_table(h, n) ==
    /\ Writing(h)
    /\ view[n] # NoTree
    /\ view' = [view EXCEPT ![n] = NoTree]
    /\ Ask(n, NoTree, InTurn(h) /\ ~Held(n))
    /\ Call /\ UNCHANGED <<databases, transactions, tables, cursors, root>>

\* The view after a table that is being dropped has been stored in it.
write_back_table(t) ==
    IF t.is_write /\ (t.dirty \/ t.created) /\ Writing(t.tx) /\ t.tree # NoTree
    THEN [view EXCEPT ![t.name] = t.tree] ELSE view

Without(seq, h) == SelectSeq(seq, LAMBDA x : x # h)

table_drop(h) ==
    /\ Table(h) # Null
    /\ view' = write_back_table(Table(h))
    /\ LET t == Table(h)
       IN  IF t.is_write /\ (t.dirty \/ t.created)
           THEN Ask(t.name, expect[t.name], InTurn(t.tx)) ELSE expect' = expect
    /\ cursors' = destroy_each(cursors, Table(h).open)
    /\ transactions' = IF Tx(Table(h).tx) = Null THEN transactions
                       ELSE update(transactions, Table(h).tx,
                                [Tx(Table(h).tx) EXCEPT !.open = Without(@, h)])
    /\ tables' = destroy(tables, h)
    /\ Call /\ UNCHANGED <<databases, root>>

KeysOf(tree) == IF tree = NoTree THEN {} ELSE tree

\* A write through the table's cursor, and what the guest now expects.
Write(h, tree) ==
    /\ tables' = update(tables, h, [Table(h) EXCEPT !.tree = tree, !.dirty = TRUE])
    /\ Ask(Table(h).name, KeysOf(tree), TRUE)
    /\ Call /\ UNCHANGED <<databases, transactions, cursors, root, view>>

Writable(h) == Table(h) # Null /\ Table(h).is_write

upsert(h, k) == Writable(h) /\ Write(h, KeysOf(Table(h).tree) \cup {k})

\* remove of one key, and remove_range of several: a call that finds no key
\* changes nothing.  Whether an emptied tree still has a root is psitri's.
remove(h, ks) ==
    /\ Writable(h)
    /\ KeysOf(Table(h).tree) \cap ks # {}
    /\ LET left == KeysOf(Table(h).tree) \ ks
       IN  Write(h, left) \/ (left = {} /\ Write(h, NoTree))

open_cursor(h) ==
    /\ Table(h) # Null /\ ~full(cursors)
    /\ cursors' = create(cursors, [table |-> h])
    /\ tables' = update(tables, h,
                     [Table(h) EXCEPT !.open = Append(@, NextHandle(cursors))])
    /\ Call /\ UNCHANGED <<databases, transactions, root, view, expect>>

cursor_drop(c) ==
    /\ Resolves(cursors, c)
    /\ LET th == get(cursors, c).table
       IN  tables' = IF Table(th) = Null THEN tables
                     ELSE update(tables, th, [Table(th) EXCEPT !.open = Without(@, c)])
    /\ cursors' = destroy(cursors, c)
    /\ Call /\ UNCHANGED <<databases, transactions, root, view, expect>>

\* The guest's instance ends: the tables are destroyed in the reverse order of
\* their declaration, and psitri aborts a transaction that is destroyed.
Teardown ==
    /\ Live(databases) # {}
    /\ cursors' = destroy_all(cursors)
    /\ tables' = destroy_all(tables)
    /\ transactions' = destroy_all(transactions)
    /\ databases' = destroy_all(databases)
    /\ view' = root /\ expect' = root
    /\ Call /\ UNCHANGED root

Next ==
    \/ open
    \/ Teardown
    \/ \E d \in Live(databases) : database_drop(d) \/ start_write(d) \/ start_read(d)
    \/ \E h \in Live(transactions) :
           \/ start_sub(h) \/ commit(h) \/ abort(h) \/ transaction_drop(h)
           \/ \E n \in Names : open_table(h, n) \/ create_table(h, n) \/ drop_table(h, n)
    \/ \E h \in Live(tables) :
           \/ table_drop(h) \/ open_cursor(h)
           \/ \E k \in Keys : upsert(h, k)
           \/ \E ks \in (SUBSET Keys) \ {{}} : remove(h, ks)
    \/ \E c \in Live(cursors) : cursor_drop(c)

Spec == Init /\ [][Next]_vars

---------------------------------------------------------------------------
HandleTables == {databases, transactions, tables, cursors}

\* Every open table belongs to a transaction that has not ended and that lists
\* it, every open cursor to a table that lists it, and no list names a handle
\* that is gone: commit, abort and the drops walk these lists to release what
\* they own (destroy_transaction_children, table_drop, cursor_drop).
ChildrenBelongToLiveParents ==
    /\ \A h \in Live(tables) : LET tx == Tx(Table(h).tx)
                             IN  tx # Null /\ ~tx.ended /\ h \in ToSet(tx.open)
    /\ \A c \in Live(cursors) : LET t == Table(get(cursors, c).table)
                              IN  t # Null /\ c \in ToSet(t.open)
    /\ \A h \in Live(transactions) : ToSet(Tx(h).open) \subseteq Live(tables)
    /\ \A h \in Live(tables) : ToSet(Table(h).open) \subseteq Live(cursors)

\* In each of the four tables the free list and the count of live objects agree
\* with the slots in use (handle_table::create and destroy).
FreeListsIntact == TypeOK /\ \A t \in HandleTables : FreeListIntact(t)

\* A handle the guest has dropped, or that a commit or abort destroyed, does not
\* reach a later object (the generation check of handle_table::get).
DroppedHandlesStayDead == \A t \in HandleTables : DeadStayDead(t)

\* Between write transactions, the published root is what the calls of the
\* committed ones asked for and nothing of the aborted ones: rows reach the
\* transaction only when their table's handle is dropped or its transaction
\* commits, and frames may begin, commit and abort in between, also while the
\* guest goes on writing through a table of an outer transaction
\* (write_back_dirty_tables, write_back_table, commit, abort, transaction_drop).
\* Nothing is said of a table that was held through two handles at once, or
\* opened, dropped or stored under an open frame of another handle: there the
\* last one stored wins and a frame's abort undoes an outer store.  Nor of
\* tables without rows, which may have no root to store.
CommittedIsWhatWasWritten ==
    ~Writer => \A n \in Names : expect[n] \in {Unclear, {}} \/ root[n] = expect[n]
=============================================================================
