-------------------------------- MODULE Cas --------------------------------
(***************************************************************************)
(* The content-addressed store of pfs (src/libraries/pfs/src/cas.cpp) on   *)
(* its block store (block_store.cpp).  A content identifier is the content *)
(* itself: compute_cid() is a hash without collisions.  A transaction of   *)
(* the psitri database on one root is atomic; a read takes one read        *)
(* session for the entry and one for every block, so other threads change  *)
(* the store in between.                                                   *)
(*                                                                         *)
(* This module has the store's state and its transactions, as operators    *)
(* that other modules make steps of.                                       *)
(***************************************************************************)
EXTENDS Naturals, Sequences, FiniteSets

CONSTANTS
    Contents,     \* the byte strings that are stored
    Size,         \* how many bytes each of them has
    chunk_size,
    Roots,        \* the roots of the database, one per shard
    RootForCid,   \* cas::root_for_cid()
    RootForBlock, \* block_store::root_for_block(), of the sequence number in an id
    MaxSeq        \* bound: blocks allocated since the store was opened

Seqs == 1..MaxSeq

ASSUME CasAssumption ==
    /\ IsFiniteSet(Contents)
    /\ "none" \notin Contents
    /\ Size \in [Contents -> Nat]
    /\ chunk_size \in Nat \ {0}
    /\ RootForCid \in [Contents -> Roots]
    /\ RootForBlock \in [Seqs -> Roots]
    /\ MaxSeq \in Nat

VARIABLES
    refcount,   \* cas_entry::refcount; 0 when there is no entry
    chunks,     \* the block ids of cas_entry::chunks; empty when the data is inline
    blocks,     \* the blocks of each root
    nextSeq     \* block_store::_next_seq

casVars == <<refcount, chunks, blocks, nextSeq>>

(* The bytes of c from position from on, n of them (fewer at the end). *)
Piece(c, from, n) ==
    [c |-> c, from |-> from, len |-> IF from + n > Size[c] THEN Size[c] - from ELSE n]

(* The chunks put() cuts c into; none if c is small enough to be inline. *)
NumChunks(c) ==
    IF Size[c] <= chunk_size THEN 0 ELSE (Size[c] + chunk_size - 1) \div chunk_size

ChunkOf(c, i) == Piece(c, (i - 1) * chunk_size, chunk_size)

NoBlock == [c |-> "none", from |-> 0, len |-> 0]
Pieces == {ChunkOf(c, i) : c \in Contents, i \in 1..MaxSeq}

CasTypeOK ==
    /\ refcount \in [Contents -> Nat]
    /\ chunks \in [Contents -> Seq(Seqs)]
    /\ \A r \in Roots, q \in Seqs : blocks[r][q] \in Pieces \cup {NoBlock}
    /\ nextSeq \in 1 .. MaxSeq + 1

CasInit ==
    /\ refcount = [c \in Contents |-> 0]
    /\ chunks = [c \in Contents |-> <<>>]
    /\ blocks = [r \in Roots |-> [q \in Seqs |-> NoBlock]]
    /\ nextSeq = 1

-----------------------------------------------------------------------------
(* Transactions.                                                           *)

(* alloc() for every chunk of c: the blocks go to the root of the          *)
(* transaction, which is the content's.                                    *)
alloc(c) ==
    LET n == NumChunks(c)
    IN  /\ nextSeq + n <= MaxSeq + 1
        /\ nextSeq' = nextSeq + n
        /\ chunks' = [chunks EXCEPT ![c] = [i \in 1..n |-> nextSeq + i - 1]]
        /\ blocks' = [blocks EXCEPT ![RootForCid[c]] =
                         [q \in Seqs |-> IF q \in nextSeq .. nextSeq + n - 1
                                         THEN ChunkOf(c, q - nextSeq + 1) ELSE @[q]]]

(* put(): one more reference to an entry that exists, or a new entry. *)
put(c) ==
    /\ refcount' = [refcount EXCEPT ![c] = @ + 1]
    /\ IF refcount[c] > 0 THEN UNCHANGED <<chunks, blocks, nextSeq>> ELSE alloc(c)

(* pin(), when the entry exists. *)
pin(c) ==
    /\ refcount[c] > 0
    /\ refcount' = [refcount EXCEPT ![c] = @ + 1]
    /\ UNCHANGED <<chunks, blocks, nextSeq>>

(* Mutant: the blocks of the last reference are not freed. *)
free_None(c) == blocks

(* free() of every chunk. *)
free(c) ==
    LET ids == {chunks[c][i] : i \in DOMAIN chunks[c]}
    IN  [blocks EXCEPT ![RootForCid[c]] =
            [q \in Seqs |-> IF q \in ids THEN NoBlock ELSE @[q]]]

(* unpin(): the last reference takes the entry and its blocks with it. *)
unpin(c) ==
    /\ refcount' = [refcount EXCEPT ![c] = IF @ = 0 THEN 0 ELSE @ - 1]
    /\ chunks' = [chunks EXCEPT ![c] = IF refcount[c] = 1 THEN <<>> ELSE @]
    /\ blocks' = IF refcount[c] = 1 THEN free(c) ELSE blocks
    /\ UNCHANGED nextSeq

(* The database is opened again: the sequence numbers start over. *)
Reopen == nextSeq' = 1 /\ UNCHANGED <<refcount, chunks, blocks>>

-----------------------------------------------------------------------------
(* Reading a range: read() and get_range().                                *)

(* Mutant: a range that starts inside a chunk is read from its start. *)
ReadStart_Zero(pos, offset) == 0

ReadStart(pos, offset) == IF offset > pos THEN offset - pos ELSE 0

ReadEnd(pos, len, end) == IF len < end - pos THEN len ELSE end - pos

(* What the i-th turn of the loop over the chunks reads of its block, for  *)
(* the bytes offset .. end - 1: an interval, empty if it skips the chunk   *)
(* or has left the loop.                                                   *)
TurnReads(c, i, offset, end) ==
    LET pos == (i - 1) * chunk_size
        len == ChunkOf(c, i).len
    IN  IF pos >= end \/ pos + len <= offset THEN [from |-> 0, to |-> 0]
        ELSE [from |-> ReadStart(pos, offset), to |-> ReadEnd(pos, len, end)]

(* read_range() of one block: the bytes, or nothing when the block is gone *)
(* or too short.                                                           *)
BlockBytes(q, range) ==
    LET b == blocks[RootForBlock[q]][q]
    IN  IF b = NoBlock \/ range.to > b.len THEN {}
        ELSE {[k \in 1 .. range.to - range.from |-> <<b.c, b.from + range.from + k>>]}

(* The bytes asked for. *)
BytesOf(c, offset, end) == [k \in 1 .. end - offset |-> <<c, offset + k>>]
=============================================================================
