----------------------------- MODULE PagedCopy -----------------------------
(***************************************************************************)
(* The paged K and V copies of one thread of the split-KV kernel.  A       *)
(* thread moves kGmemRowsPerThread consecutive rows of every key block; it *)
(* looks one page up in the block table per block and takes all its rows   *)
(* from that page (resolve_thread_kv_page_slice_offset).  The first block  *)
(* may be partial: rows past the sequence are predicated off, and the      *)
(* lookup is clamped.                                                      *)
(*                                                                         *)
(* A row is abstracted to the place it was copied from, <<index into the   *)
(* block table, row of that page>>.                                        *)
(***************************************************************************)
EXTENDS Integers

CONSTANTS
  kBlockN,
  kGmemRowsPerThread,
  PageSizes,       \* page_block_size values considered
  MaxKeys          \* bound on actual_seqlen_k

(* forward() admits pages of a multiple of 16 rows; a thread moves 2 or 4. *)
ASSUME PagedCopyAssumption ==
  /\ kGmemRowsPerThread \in Nat \ {0}
  /\ kBlockN \in Nat \ {0} /\ kBlockN % kGmemRowsPerThread = 0
  /\ PageSizes \subseteq { n \in Nat \ {0} : n % kGmemRowsPerThread = 0 }
  /\ MaxKeys \in Nat

VARIABLES
  page_block_size, seqlen_k,
  slice,           \* first row of this thread in a key block
  n_min, n_max,    \* block range of the CTA
  n_block,
  pc,
  kRows, vRows,    \* what the thread's rows of the K and V tile hold
  lookup           \* index of the last block table entry read

vars == <<page_block_size, seqlen_k, slice, n_min, n_max, n_block, pc, kRows, vRows, lookup>>
fixed == <<page_block_size, seqlen_k, slice, n_min, n_max>>

CeilDiv(a, b) == (a + b - 1) \div b

ThreadRows == 0 .. kGmemRowsPerThread - 1
Stale      == <<-1, -1>>       \* left by the previous tile, or never written
Zero       == <<-2, -2>>       \* cleared
NoLimit    == -1               \* std::nullopt

Init ==
  /\ page_block_size \in PageSizes
  /\ seqlen_k \in 1 .. MaxKeys
  /\ slice \in { r \in 0 .. kBlockN - 1 : r % kGmemRowsPerThread = 0 }
  /\ n_max \in 1 .. CeilDiv(seqlen_k, kBlockN)
  /\ n_min \in 0 .. n_max - 1
  /\ n_block = n_max - 1
  /\ pc = "load_first_k"
  /\ kRows = [i \in ThreadRows |-> Stale]
  /\ vRows = [i \in ThreadRows |-> Stale]
  /\ lookup = 0

Mut_BlockRowOffset_Unclamped(partial) == slice

(* The thread's first row, moved back when the block is partial.           *)
BlockRowOffset(partial) ==
  IF partial = NoLimit THEN slice
  ELSE LET final == IF partial > 1 THEN partial - 1 ELSE 0
           last  == CeilDiv(final, kGmemRowsPerThread) * kGmemRowsPerThread
       IN  IF slice <= last THEN slice ELSE last

GlobalRow(n, partial) == BlockRowOffset(partial) + n * kBlockN
VirtualPage(n, partial) == GlobalRow(n, partial) \div page_block_size

(* Row i of the thread's slice of block n.                                 *)
SourceRow(n, partial, i) ==
  <<VirtualPage(n, partial), (GlobalRow(n, partial) % page_block_size) + i>>

Mut_FinalBlockSize_NextBlock == seqlen_k - n_max * kBlockN

(* Keys in the first block, counted from its start.                        *)
FinalBlockSize == seqlen_k - (n_max - 1) * kBlockN

Mut_LoadFirstV_KeepsOutOfBounds ==
  /\ pc = "load_first_v"
  /\ pc' = "load_k"
  /\ lookup' = VirtualPage(n_block, FinalBlockSize)
  /\ vRows' = [i \in ThreadRows |->
                 IF slice + i < seqlen_k - n_block * kBlockN
                 THEN SourceRow(n_block, FinalBlockSize, i) ELSE vRows[i]]
  /\ UNCHANGED <<fixed, n_block, kRows>>

-----------------------------------------------------------------------------
LoadFirstK ==
  /\ pc = "load_first_k"
  /\ pc' = "load_first_v"
  /\ lookup' = VirtualPage(n_block, FinalBlockSize)
  /\ kRows' = [i \in ThreadRows |->
                 IF slice + i < seqlen_k - n_block * kBlockN
                 THEN SourceRow(n_block, FinalBlockSize, i) ELSE kRows[i]]
  /\ UNCHANGED <<fixed, n_block, vRows>>

(* Clear_OOB_MN: rows of V that are predicated off become zero.            *)
LoadFirstV ==
  /\ pc = "load_first_v"
  /\ pc' = "load_k"
  /\ lookup' = VirtualPage(n_block, FinalBlockSize)
  /\ vRows' = [i \in ThreadRows |->
                 IF slice + i < seqlen_k - n_block * kBlockN
                 THEN SourceRow(n_block, FinalBlockSize, i) ELSE Zero]
  /\ UNCHANGED <<fixed, n_block, kRows>>

Mut_LoadK_PastFirstBlock ==
  /\ pc = "load_k"
  /\ pc' = "load_v"
  /\ n_block >= n_min
  /\ n_block' = n_block - 1
  /\ lookup' = VirtualPage(n_block - 1, NoLimit)
  /\ kRows' = [i \in ThreadRows |-> SourceRow(n_block - 1, NoLimit, i)]
  /\ UNCHANGED <<fixed, vRows>>

(* K of the next block, without predicates, while this block is in use.    *)
LoadK ==
  /\ pc = "load_k"
  /\ n_block > n_min
  /\ pc' = "load_v"
  /\ n_block' = n_block - 1
  /\ lookup' = VirtualPage(n_block - 1, NoLimit)
  /\ kRows' = [i \in ThreadRows |-> SourceRow(n_block - 1, NoLimit, i)]
  /\ UNCHANGED <<fixed, vRows>>

LoadV ==
  /\ pc = "load_v"
  /\ pc' = "load_k"
  /\ lookup' = VirtualPage(n_block, NoLimit)
  /\ vRows' = [i \in ThreadRows |-> SourceRow(n_block, NoLimit, i)]
  /\ UNCHANGED <<fixed, n_block, kRows>>

Terminating == pc = "load_k" /\ n_block = n_min /\ UNCHANGED vars

Next == LoadFirstK \/ LoadFirstV \/ LoadK \/ LoadV \/ Terminating

Spec == Init /\ [][Next]_vars

-----------------------------------------------------------------------------
TypeOK ==
  /\ page_block_size \in PageSizes
  /\ seqlen_k \in 1 .. MaxKeys
  /\ slice \in { r \in 0 .. kBlockN - 1 : r % kGmemRowsPerThread = 0 }
  /\ n_max \in 1 .. CeilDiv(seqlen_k, kBlockN)
  /\ n_min \in 0 .. n_max - 1
  /\ n_block \in n_min .. n_max - 1
  /\ pc \in {"load_first_k", "load_first_v", "load_k", "load_v"}
  /\ kRows \in [ThreadRows -> Int \X Int]
  /\ vRows \in [ThreadRows -> Int \X Int]
  /\ lookup \in Int

Key(i) == n_block * kBlockN + slice + i

(* Where the cache keeps key k of the sequence.                            *)
Home(k) == <<k \div page_block_size, k % page_block_size>>

(***************************************************************************)
(* Every row of the K and V tile that stands for a key of the sequence     *)
(* comes from that key's place in the paged cache: one table lookup per    *)
(* thread and block is enough, whatever the page size and the sequence     *)
(* length, and the clamp never moves a row that is used.                   *)
(***************************************************************************)
RowsFromTheirPage ==
  /\ pc # "load_first_k" =>
       \A i \in ThreadRows : Key(i) < seqlen_k => kRows[i] = Home(Key(i))
  /\ pc = "load_k" =>
       \A i \in ThreadRows : Key(i) < seqlen_k => vRows[i] = Home(Key(i))

(***************************************************************************)
(* A row of V past the sequence is zero, never a stale one: the product    *)
(* multiplies it with a zero probability, and zero times NaN is NaN.       *)
(***************************************************************************)
NoStaleV ==
  pc = "load_k" => \A i \in ThreadRows : Key(i) >= seqlen_k => vRows[i] = Zero

PagesUsed == CeilDiv(seqlen_k, page_block_size)

(* A lookup is at most one entry past those the sequence uses.             *)
LookupNearSequence == lookup \in 0 .. PagesUsed

(***************************************************************************)
(* "if we have a partial block, we need to adjust the row offset to avoid  *)
(* reading of the end end of the block_table" (utils.h): entries past the  *)
(* pages of the sequence are not read.                                     *)
(***************************************************************************)
LookupWithinSequence == lookup < PagesUsed
=============================================================================
