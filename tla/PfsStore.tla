------------------------------ MODULE PfsStore ------------------------------
(***************************************************************************)
(* pfs::store (src/libraries/pfs/src/store.cpp): the files and quotas of   *)
(* the tenants on top of the content store.  The worker threads of the     *)
(* server share one store.  A call is a sequence of transactions on        *)
(* different roots, with other threads' transactions in between, and the   *)
(* process may stop after any of them: the database keeps what was         *)
(* committed, the rest of the call is lost.                                *)
(*                                                                         *)
(* An entry is reduced to its content and its size; mode, owner and mtime  *)
(* are data nothing here depends on, so chmod() changes nothing.           *)
(***************************************************************************)
EXTENDS Cas

CONSTANTS
    Tenants,
    Paths,        \* paths of files
    Dirs,         \* paths of directories: they end with '/'
    Limits,       \* the limits set_quota() is called with; 0 is none
    Threads,
    MaxCalls,     \* bound: the calls made
    MayRestart,   \* whether the process stops and starts again
    None

ASSUME StoreAssumption ==
    /\ Limits \subseteq Nat
    /\ Paths \cap Dirs = {}
    /\ MaxCalls \in Nat
    /\ MayRestart \in BOOLEAN
    /\ {None, "dir"} \cap Contents = {}
    /\ IsFiniteSet(Tenants) /\ IsFiniteSet(Paths) /\ IsFiniteSet(Dirs)
    /\ IsFiniteSet(Threads)

VARIABLES
    files,      \* the fs_entry of each path: its content, "dir", or None
    used,       \* fs_quota::used
    limit,      \* fs_quota::limit
    held,       \* the references that callers of store::put() have
    op,         \* the call each thread is in
    calls,      \* the calls made so far
    restarted   \* the store was closed and opened again

storeVars == <<files, used, limit, held>>
vars == <<casVars, storeVars, op, calls, restarted>>

Places == Tenants \X (Paths \cup Dirs)
Idle == [at |-> "idle"]

Ops ==
    [at : {"write", "share"}, place : Tenants \X Paths, c : Contents]
    \cup [at : {"pin"}, place : Tenants \X Paths, c : Contents]
    \cup [at : {"unpin"}, c : Contents]
    \cup [at : {"open"}, c : Contents]
    \cup [at : {"read", "done"}, c : Contents, ids : Seq(Seqs),
          i : Nat, offset : Nat, end : Nat, got : Seq(Contents \X Nat)]
    \cup {Idle}

TypeOK ==
    /\ CasTypeOK
    /\ files \in [Places -> Contents \cup {"dir", None}]
    /\ used \in [Tenants -> Nat]
    /\ limit \in [Tenants -> Limits \cup {0}]
    /\ held \in [Contents -> Nat]
    /\ op \in [Threads -> Ops]
    /\ calls \in 0..MaxCalls
    /\ restarted \in BOOLEAN

Init ==
    /\ CasInit
    /\ files = [e \in Places |-> None]
    /\ used = [t \in Tenants |-> 0]
    /\ limit = [t \in Tenants |-> 0]
    /\ held = [c \in Contents |-> 0]
    /\ op = [x \in Threads |-> Idle]
    /\ calls = 0
    /\ restarted = FALSE

-----------------------------------------------------------------------------

EntrySize(e) == IF files[e] \in Contents THEN Size[files[e]] ELSE 0

Becomes(x, o) == op' = [op EXCEPT ![x] = o]

(* A thread that is in no call begins one. *)
Begin(x) ==
    /\ op[x] = Idle
    /\ calls < MaxCalls
    /\ calls' = calls + 1
    /\ UNCHANGED restarted

Continue == UNCHANGED <<calls, restarted>>

(* update_quota() with a change from old bytes to new ones: it throws when *)
(* the result is over the limit, also when the change lowers it.           *)
OverQuota(t, old, new) == limit[t] > 0 /\ used[t] + new - old > limit[t]

(* put() by the host API; the caller keeps the reference ... *)
Put(x) ==
    /\ Begin(x)
    /\ \E c \in Contents : put(c) /\ held' = [held EXCEPT ![c] = @ + 1]
    /\ UNCHANGED <<files, used, limit, op>>

(* ... until it gives it back. *)
Unpin(x) ==
    /\ Begin(x)
    /\ \E c \in Contents :
          /\ held[c] > 0
          /\ unpin(c)
          /\ held' = [held EXCEPT ![c] = @ - 1]
    /\ UNCHANGED <<files, used, limit, op>>

(* write(): the content first ... *)
WritePut(x) ==
    /\ Begin(x)
    /\ \E e \in Tenants \X Paths, c \in Contents :
          put(c) /\ Becomes(x, [at |-> "write", place |-> e, c |-> c])
    /\ UNCHANGED storeVars

Replaced(old, c) == old \in Contents /\ old # c

(* ... then the entry and the quota; the content put stays when the quota  *)
(* check throws.                                                           *)
WriteEntry(x) ==
    LET e == op[x].place
        c == op[x].c
    IN  /\ op[x].at = "write"
        /\ IF OverQuota(e[1], EntrySize(e), Size[c])
           THEN Becomes(x, Idle) /\ UNCHANGED storeVars
           ELSE /\ files' = [files EXCEPT ![e] = c]
                /\ used' = [used EXCEPT ![e[1]] = @ + Size[c] - EntrySize(e)]
                /\ Becomes(x, IF Replaced(files[e], c) THEN [at |-> "unpin", c |-> files[e]]
                              ELSE Idle)
                /\ UNCHANGED <<limit, held>>
        /\ UNCHANGED casVars /\ Continue

(* The last step of write() and remove(): the old content is released. *)
UnpinOld(x) ==
    /\ op[x].at = "unpin"
    /\ unpin(op[x].c)
    /\ Becomes(x, Idle)
    /\ UNCHANGED storeVars /\ Continue

remove(x) ==
    /\ Begin(x)
    /\ \E e \in Places :
          /\ files[e] # None
          /\ files[e] = "dir" \/ ~OverQuota(e[1], EntrySize(e), 0)
          /\ files' = [files EXCEPT ![e] = None]
          /\ used' = [used EXCEPT ![e[1]] = @ - EntrySize(e)]
          /\ Becomes(x, IF files[e] = "dir" THEN Idle ELSE [at |-> "unpin", c |-> files[e]])
    /\ UNCHANGED <<casVars, limit, held>>

mkdir(x) ==
    /\ Begin(x)
    /\ \E e \in Tenants \X Dirs : files' = [files EXCEPT ![e] = "dir"]
    /\ UNCHANGED <<casVars, used, limit, held, op>>

set_quota(x) ==
    /\ Begin(x)
    /\ \E t \in Tenants, n \in Limits : limit' = [limit EXCEPT ![t] = n]
    /\ UNCHANGED <<casVars, files, used, held, op>>

(* share(): the source is looked up, ... *)
ShareStat(x) ==
    /\ Begin(x)
    /\ \E src, dst \in Tenants \X Paths :
          /\ files[src] \in Contents
          /\ Becomes(x, [at |-> "pin", place |-> dst, c |-> files[src]])
    /\ UNCHANGED <<casVars, storeVars>>

(* Mutant: the content is shared without a reference to it. *)
SharePin_Missing(x) ==
    /\ op[x].at = "pin"
    /\ Becomes(x, [op[x] EXCEPT !.at = "share"])
    /\ UNCHANGED <<casVars, storeVars>> /\ Continue

(* ... its content pinned if it is still there, ... *)
SharePin(x) ==
    /\ op[x].at = "pin"
    /\ IF refcount[op[x].c] = 0
       THEN Becomes(x, Idle) /\ UNCHANGED casVars
       ELSE pin(op[x].c) /\ Becomes(x, [op[x] EXCEPT !.at = "share"])
    /\ UNCHANGED storeVars /\ Continue

(* Mutant: the shared bytes are not charged to the new owner. *)
ShareCharge_None(c) == 0

ShareCharge(c) == Size[c]

(* ... and the entry made, over whatever was there. *)
ShareEntry(x) ==
    LET e == op[x].place
        c == op[x].c
    IN  /\ op[x].at = "share"
        /\ Becomes(x, Idle)
        /\ IF OverQuota(e[1], 0, Size[c]) THEN UNCHANGED storeVars
           ELSE /\ files' = [files EXCEPT ![e] = c]
                /\ used' = [used EXCEPT ![e[1]] = @ + ShareCharge(c)]
                /\ UNCHANGED <<limit, held>>
        /\ UNCHANGED casVars /\ Continue

(* open(), by path or by content: a handle, which is a copy of the entry. *)
Open(x) ==
    /\ Begin(x)
    /\ \E c \in Contents :
          /\ refcount[c] > 0 \/ \E e \in Tenants \X Paths : files[e] = c
          /\ Becomes(x, [at |-> "open", c |-> c])
    /\ UNCHANGED <<casVars, storeVars>>

(* file_handle::read(): read_entry(), and the bounds check. *)
ReadEntry(x) ==
    LET c == op[x].c
    IN  /\ op[x].at = "open"
        /\ \/ refcount[c] = 0 /\ Becomes(x, Idle)
           \/ /\ refcount[c] > 0
              /\ \E end \in 0..Size[c] : \E offset \in 0..end :
                    Becomes(x, [at |-> IF chunks[c] = <<>> THEN "done" ELSE "read",
                                c |-> c, ids |-> chunks[c], i |-> 1,
                                offset |-> offset, end |-> end,
                                got |-> IF chunks[c] = <<>> THEN BytesOf(c, offset, end) ELSE <<>>])
        /\ UNCHANGED <<casVars, storeVars>> /\ Continue

(* One turn of the loop over the chunks; a missing block throws. *)
ReadChunk(x) ==
    LET o == op[x]
        range == TurnReads(o.c, o.i, o.offset, o.end)
    IN  /\ o.at = "read"
        /\ \/ /\ o.i > Len(o.ids)
              /\ Becomes(x, [o EXCEPT !.at = "done"])
           \/ /\ o.i <= Len(o.ids)
              /\ range.from >= range.to
              /\ Becomes(x, [o EXCEPT !.i = @ + 1])
           \/ /\ o.i <= Len(o.ids)
              /\ range.from < range.to
              /\ IF BlockBytes(o.ids[o.i], range) = {} THEN Becomes(x, Idle)
                 ELSE \E bytes \in BlockBytes(o.ids[o.i], range) :
                         Becomes(x, [o EXCEPT !.i = @ + 1, !.got = @ \o bytes])
        /\ UNCHANGED <<casVars, storeVars>> /\ Continue

ReadReturn(x) ==
    /\ op[x].at = "done"
    /\ Becomes(x, Idle)
    /\ UNCHANGED <<casVars, storeVars>> /\ Continue

(* The process stops, and the store is opened again on the same database. *)
Restart ==
    /\ MayRestart
    /\ Reopen
    /\ op' = [x \in Threads |-> Idle]
    /\ restarted' = TRUE
    /\ UNCHANGED <<storeVars, calls>>

Call(x) ==
    \/ Put(x) \/ Unpin(x) \/ WritePut(x) \/ WriteEntry(x) \/ UnpinOld(x)
    \/ remove(x) \/ mkdir(x) \/ set_quota(x)
    \/ ShareStat(x) \/ SharePin(x) \/ ShareEntry(x)
    \/ Open(x) \/ ReadEntry(x) \/ ReadChunk(x) \/ ReadReturn(x)

Next == (\E x \in Threads : Call(x)) \/ Restart

Spec == Init /\ [][Next]_vars

-----------------------------------------------------------------------------
(* Properties.                                                             *)

(* A call under way that has taken a reference to c, or has yet to give    *)
(* one back.                                                               *)
Refers(o, c) == o.at \in {"write", "share", "unpin"} /\ o.c = c

(* The references to c: entries, callers of put() and calls under way. *)
References(c) ==
    Cardinality({e \in Places : files[e] = c})
    + held[c]
    + Cardinality({x \in Threads : Refers(op[x], c)})

(* A content is never freed while something refers to it: through writes,  *)
(* removals and shares of several threads, and a stop between any two of   *)
(* their transactions, the count is at least the number of references.     *)
NoDanglingReference == \A c \in Contents : refcount[c] >= References(c)

(* The places in some order, each once. *)
PlaceSeq ==
    CHOOSE s \in [1 .. Cardinality(Places) -> Places] :
        \A e \in Places : \E i \in DOMAIN s : s[i] = e /\ \A j \in DOMAIN s : s[j] = e => j = i

(* The bytes of the files of tenant t. *)
FileBytes(t) ==
    LET sum[i \in 0 .. Cardinality(Places)] ==
            IF i = 0 THEN 0
            ELSE sum[i - 1] + (IF PlaceSeq[i][1] = t THEN EntrySize(PlaceSeq[i]) ELSE 0)
    IN  sum[Cardinality(Places)]

(* A tenant is charged for all of its files, whatever the order of writes, *)
(* removals and shares, so that update_quota() never goes below zero       *)
(* (used is unsigned).                                                     *)
QuotaCoversFiles ==
    /\ TypeOK
    /\ \A t \in Tenants : used[t] >= FileBytes(t)

(* Every block belongs to one chunk of one entry and holds its bytes, and  *)
(* none is left behind by a release, until the store is opened again.      *)
BlocksBelongToEntries ==
    restarted \/
    \A r \in Roots, q \in Seqs :
        LET owners == {w \in Contents \X Seqs :
                          /\ RootForCid[w[1]] = r
                          /\ w[2] \in DOMAIN chunks[w[1]] /\ chunks[w[1]][w[2]] = q}
        IN  IF blocks[r][q] = NoBlock THEN owners = {}
            ELSE \E c \in Contents, i \in Seqs :
                    owners = {<<c, i>>} /\ blocks[r][q] = ChunkOf(c, i)

(* A read that returns has returned the bytes asked for, of the content    *)
(* the handle names, whatever was written and freed between its read       *)
(* sessions, until the store is opened again.                              *)
ReadsAreFaithful ==
    restarted \/
    \A x \in Threads :
        op[x].at = "done" => op[x].got = BytesOf(op[x].c, op[x].offset, op[x].end)
=============================================================================
