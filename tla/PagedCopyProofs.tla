-------------------------- MODULE PagedCopyProofs --------------------------
(***************************************************************************)
(* One page-table lookup per thread and key block is enough, for all block *)
(* and page sizes, rows per thread and sequence lengths: a thread's rows   *)
(* start at a multiple of their number, so do pages, and therefore no      *)
(* thread's rows straddle two pages.                                       *)
(***************************************************************************)
EXTENDS PagedCopy, TLAPS

(* Division of naturals: quotient and remainder.                           *)
LEMMA DivMod ==
  ASSUME NEW a \in Nat, NEW b \in Nat \ {0}
  PROVE  /\ a \div b \in Nat /\ a % b \in 0 .. b - 1
         /\ a = (a \div b) * b + (a % b)
  BY SMT

(* Quotient and remainder are unique.                                      *)
LEMMA DivModUnique ==
  ASSUME NEW b \in Nat \ {0}, NEW q \in Nat, NEW r \in 0 .. b - 1
  PROVE  (q * b + r) \div b = q /\ (q * b + r) % b = r
  BY SMT

(* A number without remainder is a multiple.                               *)
LEMMA IsMultiple ==
  ASSUME NEW a \in Nat, NEW b \in Nat \ {0}, a % b = 0
  PROVE  \E c \in Nat : a = c * b
  <1>1. a \div b \in Nat /\ a = (a \div b) * b
    BY DivMod
  <1> QED
    BY <1>1

(* Multiples of g are g apart.                                             *)
LEMMA MultiplesApart ==
  ASSUME NEW g \in Nat \ {0}, NEW x \in Int, NEW y \in Int, x * g < y * g
  PROVE  x * g + g <= y * g
  <1>1. x < y
    <2>1. ASSUME y <= x PROVE FALSE
      <3>1. PICK d \in Nat : x = y + d
        BY <2>1
      <3>2. x * g = y * g + d * g /\ d * g \in Nat
        BY <3>1
      <3> QED
        BY <3>2
    <2> QED
      BY <2>1
  <1>2. PICK e \in Nat : y = x + 1 + e
    BY <1>1
  <1>3. y * g = x * g + g + e * g /\ e * g \in Nat
    BY <1>2
  <1> QED
    BY <1>3

(* A row of a slice that starts on a slice boundary shares the slice's     *)
(* page and follows its first row there.                                   *)
LEMMA SliceWithinPage ==
  ASSUME NEW g \in Nat \ {0}, NEW p \in Nat \ {0}, p % g = 0,
         NEW a \in Nat, a % g = 0, NEW i \in 0 .. g - 1
  PROVE  /\ (a + i) \div p = a \div p
         /\ (a + i) % p = (a % p) + i
  <1> DEFINE q == a \div p
             r == a % p
  <1>1. q \in Nat /\ r \in 0 .. p - 1 /\ a = q * p + r
    BY DivMod
  <1>2. PICK c \in Nat : p = c * g
    BY IsMultiple
  <1>3. PICK d \in Nat : a = d * g
    BY IsMultiple
  <1> HIDE DEF q, r
  <1>4. /\ q * p = (q * c) * g
        /\ r = (d - q * c) * g
    <2>1. q * (c * g) = (q * c) * g
      BY <1>1, <1>2
    <2>2. (d - q * c) * g = d * g - (q * c) * g
      BY <1>1, <1>2, <1>3
    <2> QED
      BY <1>1, <1>2, <1>3, <2>1, <2>2
  <1>5. r + g <= p
    <2> DEFINE x == d - q * c
    <2>1. x \in Int /\ r = x * g
      BY <1>1, <1>2, <1>3, <1>4
    <2> HIDE DEF x
    <2>2. x * g < c * g
      BY <1>1, <1>2, <2>1
    <2>3. x * g + g <= c * g
      BY <1>2, <2>1, <2>2, MultiplesApart
    <2> QED
      BY <1>2, <2>1, <2>3
  <1>6. r + i \in 0 .. p - 1 /\ a + i = q * p + (r + i)
    BY <1>1, <1>5
  <1>7. (a + i) \div p = q /\ (a + i) % p = r + i
    BY <1>1, <1>6, DivModUnique
  <1> QED
    BY <1>7 DEF q, r

-----------------------------------------------------------------------------
(* The thread's first row in block n, of the whole sequence.               *)
FirstRow(n) == n * kBlockN + slice

(* It is aligned to the number of rows per thread.                         *)
LEMMA FirstRowAligned ==
  ASSUME TypeOK, NEW n \in Nat
  PROVE  FirstRow(n) \in Nat /\ FirstRow(n) % kGmemRowsPerThread = 0
  <1> DEFINE g == kGmemRowsPerThread
  <1>1. g \in Nat \ {0} /\ kBlockN \in Nat \ {0} /\ slice \in Nat /\ slice % g = 0 /\ kBlockN % g = 0
    BY PagedCopyAssumption DEF TypeOK
  <1> HIDE DEF g
  <1>2. PICK c \in Nat : kBlockN = c * g
    BY <1>1, IsMultiple
  <1>3. PICK d \in Nat : slice = d * g
    BY <1>1, IsMultiple
  <1>4. n * kBlockN \in Nat /\ n * c + d \in Nat
    BY <1>1, <1>2, <1>3
  <1>5. n * kBlockN + slice = (n * c + d) * g + 0
    BY <1>1, <1>2, <1>3
  <1>6. ((n * c + d) * g + 0) % g = 0
    BY <1>1, <1>4, DivModUnique
  <1> QED
    BY <1>1, <1>4, <1>5, <1>6 DEF FirstRow, g

(* An unclamped lookup finds every row of the thread.                      *)
LEMMA UnclampedSource ==
  ASSUME TypeOK, NEW n \in Nat, NEW partial \in Int, BlockRowOffset(partial) = slice,
         NEW i \in ThreadRows
  PROVE  SourceRow(n, partial, i) = Home(FirstRow(n) + i)
  <1>1. GlobalRow(n, partial) = FirstRow(n)
    BY PagedCopyAssumption DEF GlobalRow, FirstRow, TypeOK
  <1>2. page_block_size \in Nat \ {0} /\ page_block_size % kGmemRowsPerThread = 0
    BY PagedCopyAssumption DEF TypeOK
  <1>3. /\ (FirstRow(n) + i) \div page_block_size = FirstRow(n) \div page_block_size
        /\ (FirstRow(n) + i) % page_block_size = (FirstRow(n) % page_block_size) + i
    BY <1>2, FirstRowAligned, SliceWithinPage, PagedCopyAssumption DEF ThreadRows
  <1> QED
    BY <1>1, <1>3 DEF SourceRow, VirtualPage, Home

(* The clamp of a partial block leaves a thread alone that has a row to    *)
(* copy.                                                                   *)
LEMMA ClampKeepsUsedSlices ==
  ASSUME TypeOK, NEW partial \in Nat, NEW i \in ThreadRows, slice + i < partial
  PROVE  BlockRowOffset(partial) = slice
  <1> DEFINE g == kGmemRowsPerThread
             final == IF partial > 1 THEN partial - 1 ELSE 0
  <1>1. g \in Nat \ {0} /\ slice \in Nat /\ slice % g = 0 /\ i \in 0 .. g - 1
    BY PagedCopyAssumption DEF TypeOK, ThreadRows
  <1>2. final \in Nat /\ slice <= final /\ partial # NoLimit
    BY <1>1 DEF NoLimit
  <1> HIDE DEF final, g
  <1>3. final <= CeilDiv(final, g) * g
    <2>1. final + g - 1 \in Nat
      BY <1>1, <1>2
    <2>2. CeilDiv(final, g) \in Nat /\ final + g - 1 < CeilDiv(final, g) * g + g
      <3>1. (final + g - 1) \div g \in Nat /\ (final + g - 1) % g \in 0 .. g - 1
            /\ final + g - 1 = ((final + g - 1) \div g) * g + ((final + g - 1) % g)
        BY <1>1, <2>1, DivMod
      <3> QED
        BY <1>1, <3>1 DEF CeilDiv
    <2>3. CeilDiv(final, g) * g \in Nat
      BY <1>1, <2>2
    <2> QED
      BY <1>1, <1>2, <2>2, <2>3
  <1>4. CeilDiv(final, g) * g \in Int
    <2>1. CeilDiv(final, g) \in Int
      BY <1>1, <1>2 DEF CeilDiv
    <2> QED
      BY <1>1, <2>1
  <1> QED
    BY <1>1, <1>2, <1>3, <1>4 DEF BlockRowOffset, final, g

-----------------------------------------------------------------------------
(* The first block has at least one key, and it is the block in use until  *)
(* both of its tiles are loaded.                                           *)
AtFirstBlock == pc \in {"load_first_k", "load_first_v"} => n_block = n_max - 1

(* Only the first block is loaded with predicates: V of any other block is *)
(* loaded after K has moved on from it.                                    *)
PastFirstBlock == pc = "load_v" => n_block < n_max - 1

PagedInv == TypeOK /\ AtFirstBlock /\ PastFirstBlock /\ RowsFromTheirPage /\ NoStaleV

(* The first block really has keys, so its clamp has a last row.           *)
LEMMA FirstBlockNotEmpty ==
  ASSUME TypeOK
  PROVE  FinalBlockSize \in Nat \ {0}
  <1>1. /\ n_max \in Nat \ {0} /\ seqlen_k \in Nat \ {0} /\ kBlockN \in Nat \ {0}
        /\ n_max <= CeilDiv(seqlen_k, kBlockN)
        /\ CeilDiv(seqlen_k, kBlockN) \in Nat
    <2>1. seqlen_k \in Nat \ {0} /\ kBlockN \in Nat \ {0}
      BY PagedCopyAssumption DEF TypeOK
    <2>2. CeilDiv(seqlen_k, kBlockN) \in Nat
      BY <2>1, DivMod DEF CeilDiv
    <2> QED
      BY <2>1, <2>2 DEF TypeOK
  <1> DEFINE c == CeilDiv(seqlen_k, kBlockN)
  <1>2. c * kBlockN <= seqlen_k + kBlockN - 1
    <2>1. seqlen_k + kBlockN - 1 \in Nat
      BY <1>1
    <2>2. /\ (seqlen_k + kBlockN - 1) % kBlockN \in 0 .. kBlockN - 1
          /\ seqlen_k + kBlockN - 1 = c * kBlockN + ((seqlen_k + kBlockN - 1) % kBlockN)
      BY <1>1, <2>1, DivMod DEF CeilDiv
    <2>3. c * kBlockN \in Nat
      BY <1>1
    <2> QED
      BY <1>1, <2>2, <2>3
  <1> HIDE DEF c
  <1>3. PICK e \in Nat : c = n_max + e
    BY <1>1 DEF c
  <1>4. c * kBlockN = (n_max - 1) * kBlockN + kBlockN + e * kBlockN
    BY <1>1, <1>3
  <1>5. (n_max - 1) * kBlockN \in Nat /\ e * kBlockN \in Nat
    BY <1>1
  <1> QED
    BY <1>1, <1>2, <1>4, <1>5 DEF FinalBlockSize

(* A block other than the first has no key past the sequence, so its tiles *)
(* need no predicates.                                                     *)
LEMMA FullBlock ==
  ASSUME TypeOK, NEW n \in Nat, n < n_max - 1, n_max \in Nat, NEW i \in ThreadRows
  PROVE  FirstRow(n) + i < seqlen_k
  <1> DEFINE g == kGmemRowsPerThread
  <1>1. /\ g \in Nat \ {0} /\ kBlockN \in Nat \ {0} /\ kBlockN % g = 0
        /\ slice \in Nat /\ slice % g = 0 /\ slice < kBlockN
        /\ seqlen_k \in Nat /\ i \in 0 .. g - 1
    BY PagedCopyAssumption DEF TypeOK, ThreadRows
  <1> HIDE DEF g
  <1>2. slice + g <= kBlockN
    <2>1. PICK c \in Nat : kBlockN = c * g
      BY <1>1, IsMultiple
    <2>2. PICK d \in Nat : slice = d * g
      BY <1>1, IsMultiple
    <2>3. d * g < c * g
      BY <1>1, <2>1, <2>2
    <2>4. d * g + g <= c * g
      BY <1>1, <2>3, MultiplesApart
    <2> QED
      BY <2>1, <2>2, <2>4
  <1>3. PICK e \in Nat : n_max - 1 = n + 1 + e
    <2>1. n_max - 1 - n - 1 \in Nat /\ n_max - 1 = n + 1 + (n_max - 1 - n - 1)
      OBVIOUS
    <2> QED
      BY <2>1
  <1>4. /\ (n_max - 1) * kBlockN = n * kBlockN + kBlockN + e * kBlockN
        /\ n * kBlockN \in Nat /\ e * kBlockN \in Nat
    BY <1>1, <1>3
  <1>5. (n_max - 1) * kBlockN < seqlen_k
    BY <1>1, <1>4, FirstBlockNotEmpty DEF FinalBlockSize
  <1> QED
    BY <1>1, <1>2, <1>4, <1>5 DEF FirstRow

(* A load of block n that keeps the lookup of used slices.                 *)
LEMMA LoadedRow ==
  ASSUME TypeOK, NEW n \in Nat, NEW i \in ThreadRows,
         n = n_max - 1, FirstRow(n) + i < seqlen_k
  PROVE  /\ slice + i < seqlen_k - n * kBlockN
         /\ SourceRow(n, FinalBlockSize, i) = Home(FirstRow(n) + i)
  <1>1. slice \in Nat /\ seqlen_k \in Nat /\ n * kBlockN \in Nat /\ i \in Nat
    BY PagedCopyAssumption DEF TypeOK, ThreadRows
  <1>2. slice + i < seqlen_k - n * kBlockN
    BY <1>1 DEF FirstRow
  <1>3. slice + i < FinalBlockSize
    BY <1>2 DEF FinalBlockSize
  <1> QED
    BY <1>2, <1>3, FirstBlockNotEmpty, ClampKeepsUsedSlices, UnclampedSource

(* Every source is a pair of integers.                                     *)
LEMMA SourceTypes ==
  ASSUME TypeOK, NEW n \in Nat, NEW partial \in Int, NEW i \in ThreadRows
  PROVE  SourceRow(n, partial, i) \in Int \X Int /\ VirtualPage(n, partial) \in Int
  <1>1. /\ slice \in Int /\ kGmemRowsPerThread \in Nat \ {0} /\ kBlockN \in Nat
        /\ page_block_size \in Nat \ {0} /\ i \in Int
    BY PagedCopyAssumption DEF TypeOK, ThreadRows
  <1>2. BlockRowOffset(partial) \in Int
    BY <1>1 DEF BlockRowOffset, CeilDiv
  <1>3. n * kBlockN \in Int
    BY <1>1
  <1>4. GlobalRow(n, partial) \in Int
    BY <1>2, <1>3 DEF GlobalRow
  <1> QED
    BY <1>1, <1>4 DEF SourceRow, VirtualPage

(* Nothing has been copied before the first step.                          *)
LEMMA InitPagedInv == Init => PagedInv
  <1> SUFFICES ASSUME Init PROVE PagedInv
    OBVIOUS
  <1>1. n_max - 1 \in n_min .. n_max - 1
    <2>1. n_max \in Int
      BY PagedCopyAssumption DEF Init, CeilDiv
    <2> QED
      BY <2>1 DEF Init
  <1> QED
    BY <1>1 DEF Init, PagedInv, TypeOK, AtFirstBlock, PastFirstBlock, RowsFromTheirPage, NoStaleV, Stale

(* Each copy leaves every used row of its tile with its own key.           *)
LEMMA NextPagedInv == PagedInv /\ [Next]_vars => PagedInv'
  <1> SUFFICES ASSUME PagedInv, [Next]_vars PROVE PagedInv'
    OBVIOUS
  <1> USE DEF PagedInv
  <1>0. n_block \in Nat /\ n_min \in Nat /\ n_max \in Nat
    <2>1. n_max \in Int
      BY PagedCopyAssumption DEF TypeOK, CeilDiv
    <2> QED
      BY <2>1 DEF TypeOK
  <1>1. CASE LoadFirstK
    <2>1. n_block = n_max - 1
      BY <1>1 DEF LoadFirstK, AtFirstBlock
    <2>2. FinalBlockSize \in Int
      BY FirstBlockNotEmpty
    <2>3. \A i \in ThreadRows : /\ SourceRow(n_block, FinalBlockSize, i) \in Int \X Int
                                /\ VirtualPage(n_block, FinalBlockSize) \in Int
      BY <1>0, <2>2, SourceTypes
    <2>4. VirtualPage(n_block, FinalBlockSize) \in Int
      BY <2>3, PagedCopyAssumption DEF ThreadRows
    <2>5. TypeOK'
      BY <1>1, <2>3, <2>4 DEF LoadFirstK, TypeOK, fixed
    <2>6. ASSUME NEW i \in ThreadRows, Key(i) < seqlen_k PROVE kRows'[i] = Home(Key(i))
      BY <1>0, <1>1, <2>1, <2>6, LoadedRow DEF LoadFirstK, Key, FirstRow
    <2>7. RowsFromTheirPage'
      BY <1>1, <2>6 DEF LoadFirstK, RowsFromTheirPage, Key, Home, fixed
    <2> QED
      BY <1>1, <2>1, <2>5, <2>7 DEF LoadFirstK, AtFirstBlock, PastFirstBlock, NoStaleV, fixed
  <1>2. CASE LoadFirstV
    <2>1. n_block = n_max - 1
      BY <1>2 DEF LoadFirstV, AtFirstBlock
    <2>2. FinalBlockSize \in Int
      BY FirstBlockNotEmpty
    <2>3. \A i \in ThreadRows : /\ SourceRow(n_block, FinalBlockSize, i) \in Int \X Int
                                /\ VirtualPage(n_block, FinalBlockSize) \in Int
      BY <1>0, <2>2, SourceTypes
    <2>4. VirtualPage(n_block, FinalBlockSize) \in Int
      BY <2>3, PagedCopyAssumption DEF ThreadRows
    <2>5. TypeOK'
      BY <1>2, <2>3, <2>4 DEF LoadFirstV, TypeOK, fixed, Zero
    <2>6. ASSUME NEW i \in ThreadRows, Key(i) < seqlen_k PROVE vRows'[i] = Home(Key(i))
      BY <1>0, <1>2, <2>1, <2>6, LoadedRow DEF LoadFirstV, Key, FirstRow
    <2>7. RowsFromTheirPage'
      BY <1>2, <2>6 DEF LoadFirstV, RowsFromTheirPage, Key, Home, fixed
    <2>8. NoStaleV'
      <3>1. ASSUME NEW i \in ThreadRows, Key(i) >= seqlen_k PROVE vRows'[i] = Zero
        <4>1. slice \in Nat /\ seqlen_k \in Nat /\ n_block * kBlockN \in Nat /\ i \in Nat
          BY <1>0, PagedCopyAssumption DEF TypeOK, ThreadRows
        <4>2. ~ (slice + i < seqlen_k - n_block * kBlockN)
          BY <3>1, <4>1 DEF Key
        <4> QED
          BY <1>2, <4>2 DEF LoadFirstV
      <3> QED
        BY <1>2, <3>1 DEF LoadFirstV, NoStaleV, Key, fixed
    <2> QED
      BY <1>2, <2>5, <2>7, <2>8 DEF LoadFirstV, AtFirstBlock, PastFirstBlock, fixed
  <1>3. CASE LoadK
    <2>1. n_block - 1 \in Nat /\ n_block - 1 \in n_min .. n_max - 1
      BY <1>0, <1>3 DEF LoadK, TypeOK
    <2>2. NoLimit \in Int /\ BlockRowOffset(NoLimit) = slice
      BY DEF NoLimit, BlockRowOffset
    <2>3. \A i \in ThreadRows : /\ SourceRow(n_block - 1, NoLimit, i) \in Int \X Int
                                /\ VirtualPage(n_block - 1, NoLimit) \in Int
      BY <2>1, <2>2, SourceTypes
    <2>4. VirtualPage(n_block - 1, NoLimit) \in Int
      BY <2>3, PagedCopyAssumption DEF ThreadRows
    <2>5. TypeOK'
      BY <1>3, <2>1, <2>3, <2>4 DEF LoadK, TypeOK, fixed
    <2>6. ASSUME NEW i \in ThreadRows
          PROVE  SourceRow(n_block - 1, NoLimit, i) = Home(FirstRow(n_block - 1) + i)
      BY <2>1, <2>2, UnclampedSource
    <2>7. RowsFromTheirPage'
      BY <1>3, <2>6 DEF LoadK, RowsFromTheirPage, Key, Home, FirstRow, fixed
    <2>8. PastFirstBlock'
      BY <1>0, <1>3 DEF LoadK, PastFirstBlock, TypeOK, fixed
    <2> QED
      BY <1>3, <2>5, <2>7, <2>8 DEF LoadK, AtFirstBlock, NoStaleV, fixed
  <1>4. CASE LoadV
    <2>2. NoLimit \in Int /\ BlockRowOffset(NoLimit) = slice
      BY DEF NoLimit, BlockRowOffset
    <2>3. \A i \in ThreadRows : /\ SourceRow(n_block, NoLimit, i) \in Int \X Int
                                /\ VirtualPage(n_block, NoLimit) \in Int
      BY <1>0, <2>2, SourceTypes
    <2>4. VirtualPage(n_block, NoLimit) \in Int
      BY <2>3, PagedCopyAssumption DEF ThreadRows
    <2>5. TypeOK'
      BY <1>4, <2>3, <2>4 DEF LoadV, TypeOK, fixed
    <2>6. ASSUME NEW i \in ThreadRows
          PROVE  SourceRow(n_block, NoLimit, i) = Home(FirstRow(n_block) + i)
      BY <1>0, <2>2, UnclampedSource
    <2>7. RowsFromTheirPage'
      BY <1>4, <2>6 DEF LoadV, RowsFromTheirPage, Key, Home, FirstRow, fixed
    <2>8. NoStaleV'
      <3>1. ASSUME NEW i \in ThreadRows PROVE ~ (Key(i) >= seqlen_k)
        <4>1. FirstRow(n_block) + i < seqlen_k
          BY <1>0, <1>4, FullBlock DEF LoadV, PastFirstBlock
        <4>2. slice \in Nat /\ seqlen_k \in Nat /\ n_block * kBlockN \in Nat /\ i \in Nat
          BY <1>0, PagedCopyAssumption DEF TypeOK, ThreadRows
        <4> QED
          BY <4>1, <4>2 DEF Key, FirstRow
      <3> QED
        BY <1>4, <3>1 DEF LoadV, NoStaleV, Key, fixed
    <2> QED
      BY <1>4, <2>5, <2>7, <2>8 DEF LoadV, AtFirstBlock, PastFirstBlock, fixed
  <1>5. CASE UNCHANGED vars
    BY <1>5 DEF vars, TypeOK, AtFirstBlock, PastFirstBlock, RowsFromTheirPage, NoStaleV, Key, Home
  <1> QED
    BY <1>1, <1>2, <1>3, <1>4, <1>5 DEF Next, Terminating

(* Type correctness of the copies of a thread.                             *)
THEOREM PagedCopyTypes == Spec => []TypeOK
  <1>1. PagedInv => TypeOK
    BY DEF PagedInv
  <1> QED
    BY InitPagedInv, NextPagedInv, <1>1, PTL DEF Spec

(* Every used row of a K or V tile comes from its key's place in the paged *)
(* cache: resolve_thread_kv_page_slice_offset needs one lookup per thread  *)
(* and block, for every page size that is a multiple of the rows of a      *)
(* thread, every sequence length and every block range of the CTA.         *)
THEOREM OneLookupIsEnough == Spec => []RowsFromTheirPage
  <1>1. PagedInv => RowsFromTheirPage
    BY DEF PagedInv
  <1> QED
    BY InitPagedInv, NextPagedInv, <1>1, PTL DEF Spec

(* A row of V past the sequence is zero: only the first block of a CTA can *)
(* have one, and its V copy clears what it does not load (Clear_OOB_MN).   *)
THEOREM VIsNeverStale == Spec => []NoStaleV
  <1>1. PagedInv => NoStaleV
    BY DEF PagedInv
  <1> QED
    BY InitPagedInv, NextPagedInv, <1>1, PTL DEF Spec

-----------------------------------------------------------------------------
(* Division by a positive number keeps the order.                          *)
LEMMA DivKeepsOrder ==
  ASSUME NEW a \in Nat, NEW b \in Nat, a <= b, NEW p \in Nat \ {0}
  PROVE  a \div p <= b \div p
  <1> DEFINE x == a \div p
             y == b \div p
  <1>1. x \in Nat /\ y \in Nat /\ x * p <= a /\ b < y * p + p
    BY DivMod
  <1> HIDE DEF x, y
  <1>2. ASSUME y < x PROVE FALSE
    <2>1. y * p < x * p
      <3>1. PICK e \in Nat : x = y + 1 + e
        BY <1>1, <1>2
      <3>2. x * p = y * p + p + e * p /\ e * p \in Nat /\ y * p \in Nat
        BY <1>1, <3>1
      <3> QED
        BY <3>2
    <2>2. y * p + p <= x * p
      BY <1>1, <2>1, MultiplesApart
    <2>3. x * p \in Nat /\ y * p \in Nat
      BY <1>1
    <2> QED
      BY <1>1, <2>2, <2>3
  <1>3. x <= y
    BY <1>1, <1>2
  <1> QED
    BY <1>3 DEF x, y

(* The clamp rounds the last row up, by less than a slice.                 *)
LEMMA ClampBound ==
  ASSUME TypeOK, NEW partial \in Nat \ {0}
  PROVE  BlockRowOffset(partial) \in Nat /\ BlockRowOffset(partial) <= partial + kGmemRowsPerThread - 2
  <1> DEFINE g == kGmemRowsPerThread
             final == IF partial > 1 THEN partial - 1 ELSE 0
             c == CeilDiv(final, g)
  <1>1. g \in Nat \ {0} /\ slice \in Nat
    BY PagedCopyAssumption DEF TypeOK
  <1>2. final = partial - 1 /\ final \in Nat /\ partial # NoLimit
    BY DEF NoLimit
  <1> HIDE DEF g, final
  <1>3. final + g - 1 \in Nat
    BY <1>1, <1>2
  <1>4. c \in Nat /\ c * g <= final + g - 1
    <2>1. /\ (final + g - 1) \div g \in Nat /\ (final + g - 1) % g \in 0 .. g - 1
          /\ final + g - 1 = ((final + g - 1) \div g) * g + ((final + g - 1) % g)
      BY <1>1, <1>3, DivMod
    <2>2. c = (final + g - 1) \div g
      BY DEF CeilDiv
    <2> HIDE DEF c
    <2>3. c * g \in Nat /\ final + g - 1 = c * g + ((final + g - 1) % g)
      BY <1>1, <2>1, <2>2
    <2> QED
      BY <1>1, <1>2, <2>1, <2>2, <2>3
  <1>5. BlockRowOffset(partial) = IF slice <= c * g THEN slice ELSE c * g
    BY <1>2 DEF BlockRowOffset, final, g
  <1> HIDE DEF c
  <1>6. c * g \in Nat
    BY <1>1, <1>4
  <1>7. BlockRowOffset(partial) \in Nat /\ BlockRowOffset(partial) <= c * g
    BY <1>1, <1>5, <1>6
  <1>8. BlockRowOffset(partial) <= partial + g - 2
    BY <1>1, <1>2, <1>4, <1>6, <1>7
  <1> QED
    BY <1>7, <1>8 DEF g

(* A row before the end, or less than a page behind it, is at most one     *)
(* page behind those of the sequence.                                      *)
LEMMA PageOfRow ==
  ASSUME TypeOK, NEW a \in Nat, a <= seqlen_k + kGmemRowsPerThread - 2
  PROVE  a \div page_block_size \in 0 .. PagesUsed
  <1>1. /\ page_block_size \in Nat \ {0} /\ page_block_size % kGmemRowsPerThread = 0
        /\ kGmemRowsPerThread \in Nat \ {0} /\ seqlen_k \in Nat \ {0}
    BY PagedCopyAssumption DEF TypeOK
  <1>2. kGmemRowsPerThread <= page_block_size
    <2>1. PICK c \in Nat : page_block_size = c * kGmemRowsPerThread
      BY <1>1, IsMultiple
    <2>2. c # 0
      BY <1>1, <2>1
    <2>3. PICK d \in Nat : c = d + 1
      BY <2>2
    <2>4. page_block_size = d * kGmemRowsPerThread + kGmemRowsPerThread /\ d * kGmemRowsPerThread \in Nat
      BY <1>1, <2>1, <2>3
    <2> QED
      BY <1>1, <2>4
  <1>3. seqlen_k + page_block_size - 1 \in Nat /\ a <= seqlen_k + page_block_size - 1
    BY <1>1, <1>2
  <1>4. a \div page_block_size <= (seqlen_k + page_block_size - 1) \div page_block_size
    BY <1>1, <1>3, DivKeepsOrder
  <1>5. /\ a \div page_block_size \in Nat
        /\ (seqlen_k + page_block_size - 1) \div page_block_size \in Nat
    BY <1>1, <1>3, DivMod
  <1> QED
    BY <1>4, <1>5 DEF PagesUsed, CeilDiv

(* The two kinds of lookups: of the first block, clamped, and of a full    *)
(* block.                                                                  *)
LEMMA FirstLookup ==
  ASSUME TypeOK
  PROVE  VirtualPage(n_max - 1, FinalBlockSize) \in 0 .. PagesUsed
  <1> DEFINE off == BlockRowOffset(FinalBlockSize)
             base == (n_max - 1) * kBlockN
  <1>1. n_max \in Nat \ {0} /\ kBlockN \in Nat \ {0} /\ seqlen_k \in Nat /\ kGmemRowsPerThread \in Nat
    <2>1. n_max \in Int
      BY PagedCopyAssumption DEF TypeOK, CeilDiv
    <2> QED
      BY <2>1, PagedCopyAssumption DEF TypeOK
  <1>2. FinalBlockSize \in Nat \ {0}
    BY FirstBlockNotEmpty
  <1>3. off \in Nat /\ off <= FinalBlockSize + kGmemRowsPerThread - 2
    BY <1>2, ClampBound
  <1>4. base \in Nat /\ FinalBlockSize = seqlen_k - base
    BY <1>1 DEF FinalBlockSize
  <1>5. GlobalRow(n_max - 1, FinalBlockSize) = off + base
    BY DEF GlobalRow
  <1> HIDE DEF off, base
  <1>6. off + base \in Nat /\ off + base <= seqlen_k + kGmemRowsPerThread - 2
    BY <1>1, <1>2, <1>3, <1>4
  <1> QED
    BY <1>5, <1>6, PageOfRow DEF VirtualPage

(* A later block is full, so its first row is a row of the sequence.       *)
LEMMA LaterLookup ==
  ASSUME TypeOK, NEW n \in Nat, n < n_max - 1, n_max \in Nat
  PROVE  VirtualPage(n, NoLimit) \in 0 .. PagesUsed
  <1>1. 0 \in ThreadRows /\ kGmemRowsPerThread \in Nat \ {0} /\ seqlen_k \in Nat
    BY PagedCopyAssumption DEF ThreadRows, TypeOK
  <1>2. FirstRow(n) + 0 < seqlen_k
    BY <1>1, FullBlock
  <1>3. FirstRow(n) \in Nat
    BY FirstRowAligned
  <1>4. BlockRowOffset(NoLimit) = slice
    BY DEF NoLimit, BlockRowOffset
  <1>5. GlobalRow(n, NoLimit) = FirstRow(n)
    BY <1>4, PagedCopyAssumption DEF GlobalRow, FirstRow, TypeOK
  <1> QED
    BY <1>1, <1>2, <1>3, <1>5, PageOfRow DEF VirtualPage

(***************************************************************************)
(* The clamp keeps every block table access of a thread inside the entries *)
(* of the sequence or one behind them.  The table needs one entry more     *)
(* than the pages of the longest sequence, and never two.                  *)
(***************************************************************************)
THEOREM LookupStaysNear == Spec => []LookupNearSequence
  <1>1. Init => LookupNearSequence
    <2> SUFFICES ASSUME Init PROVE lookup \in 0 .. PagesUsed
      BY DEF LookupNearSequence
    <2>1. TypeOK
      BY InitPagedInv DEF PagedInv
    <2>2. 0 <= seqlen_k + kGmemRowsPerThread - 2
      BY <2>1, PagedCopyAssumption DEF TypeOK
    <2>3. 0 \div page_block_size \in 0 .. PagesUsed
      BY <2>1, <2>2, PageOfRow
    <2>4. 0 \div page_block_size = 0
      BY <2>1, PagedCopyAssumption DEF TypeOK
    <2> QED
      BY <2>3, <2>4 DEF Init
  <1>2. PagedInv /\ LookupNearSequence /\ [Next]_vars => LookupNearSequence'
    <2> SUFFICES ASSUME PagedInv, LookupNearSequence, [Next]_vars PROVE LookupNearSequence'
      OBVIOUS
    <2>1. TypeOK /\ AtFirstBlock /\ PastFirstBlock
      BY DEF PagedInv
    <2>2. n_block \in Nat /\ n_block <= n_max - 1 /\ n_max \in Nat /\ n_min \in Nat
      <3>1. n_max \in Int
        BY <2>1, PagedCopyAssumption DEF TypeOK, CeilDiv
      <3> QED
        BY <2>1, <3>1 DEF TypeOK
    <2>3. UNCHANGED <<seqlen_k, page_block_size>> /\ PagesUsed' = PagesUsed
      <3>1. UNCHANGED <<seqlen_k, page_block_size>>
        BY DEF Next, LoadFirstK, LoadFirstV, LoadK, LoadV, Terminating, fixed, vars
      <3> QED
        BY <3>1 DEF PagesUsed
    <2>4. CASE LoadFirstK \/ LoadFirstV
      <3>1. n_block = n_max - 1 /\ lookup' = VirtualPage(n_block, FinalBlockSize)
        BY <2>1, <2>4 DEF LoadFirstK, LoadFirstV, AtFirstBlock
      <3>2. lookup' \in 0 .. PagesUsed
        BY <2>1, <3>1, FirstLookup
      <3> QED
        BY <2>3, <3>2 DEF LookupNearSequence
    <2>5. CASE LoadK
      <3>1. lookup' = VirtualPage(n_block - 1, NoLimit) /\ n_block - 1 \in Nat /\ n_block - 1 < n_max - 1
        BY <2>2, <2>5 DEF LoadK
      <3>2. lookup' \in 0 .. PagesUsed
        BY <2>1, <2>2, <3>1, LaterLookup
      <3> QED
        BY <2>3, <3>2 DEF LookupNearSequence
    <2>6. CASE LoadV
      <3>1. lookup' = VirtualPage(n_block, NoLimit) /\ n_block < n_max - 1
        BY <2>1, <2>6 DEF LoadV, PastFirstBlock
      <3>2. lookup' \in 0 .. PagesUsed
        BY <2>1, <2>2, <3>1, LaterLookup
      <3> QED
        BY <2>3, <3>2 DEF LookupNearSequence
    <2>7. CASE UNCHANGED vars
      BY <2>3, <2>7 DEF vars, LookupNearSequence
    <2> QED
      BY <2>4, <2>5, <2>6, <2>7 DEF Next, Terminating
  <1> QED
    BY InitPagedInv, NextPagedInv, <1>1, <1>2, PTL DEF Spec
=============================================================================
