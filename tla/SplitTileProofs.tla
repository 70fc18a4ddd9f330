--------------------------- MODULE SplitTileProofs ---------------------------
(***************************************************************************)
(* SplitTile for all block sizes, tiles and splits: its types, that the    *)
(* partial results the combine kernel adds never share a key, that no row  *)
(* folds in a key it may not see or a NaN, and that each row ends with the *)
(* attention over exactly its visible keys.                                *)
(***************************************************************************)
EXTENDS SplitTile, KvGeometryProofs

Partials == [kind : {"mean", "nan"}, keys : SUBSET Int]
PartialSums == [kind : {"logsum", "-inf"}, keys : SUBSET Int]
Results == [kind : {"mean", "nan", "untouched"}, keys : SUBSET Int]
Sums    == [kind : {"logsum", "+inf", "untouched"}, keys : SUBSET Int]

(* The launch starts with well-typed state.                                *)
LEMMA InitTypeOK == Init => TypeOK
  <1> SUFFICES ASSUME Init PROVE TypeOK
    OBVIOUS
  <1>1. tile \in ValidTiles
    BY TilesAreValid DEF Init
  <1>2. Mean({}) \in Partials /\ NegInf \in PartialSums /\ Untouched \in Results /\ Untouched \in Sums
    BY DEF Mean, NegInf, Untouched, Partials, PartialSums, Results, Sums
  <1> QED
    BY <1>1, <1>2 DEF Init, TypeOK, Partials, PartialSums, Results, Sums

(* Keys are positions.                                                     *)
LEMMA BlockKeysAreIntegers ==
  ASSUME NEW n \in Int PROVE BlockKeys(n) \subseteq Int
  BY BlocksArePositive DEF BlockKeys

(* Storing well-typed rows keeps the four result memories well-typed.      *)
LEMMA StoreTypes ==
  ASSUME TypeOK, NEW s \in Splits,
         NEW o, NEW l,
         o \in [Rows -> Partials],
         l \in [Rows -> IF Split THEN PartialSums ELSE Sums],
         Store(s, o, l)
  PROVE  /\ oaccum' \in [Splits -> [Rows -> Partials]]
         /\ lseaccum' \in [Splits -> [Rows -> PartialSums]]
         /\ out' \in [Rows -> Results]
         /\ lse' \in [Rows -> Sums]
  <1>1. /\ oaccum \in [Splits -> [Rows -> Partials]]
        /\ lseaccum \in [Splits -> [Rows -> PartialSums]]
        /\ out \in [Rows -> Results]
        /\ lse \in [Rows -> Sums]
    BY DEF TypeOK, Partials, PartialSums, Results, Sums
  <1>2. \A r \in Rows : o[r] \in Partials /\ o[r] \in Results
    BY DEF Partials, Results
  <1>3. CASE Split
    <2> DEFINE newO == [r \in Rows |-> IF r \in LiveRows(tile) THEN o[r] ELSE oaccum[s][r]]
               newL == [r \in Rows |-> IF r \in LiveRows(tile) THEN l[r] ELSE lseaccum[s][r]]
    <2>1. /\ oaccum' = [oaccum EXCEPT ![s] = newO]
          /\ lseaccum' = [lseaccum EXCEPT ![s] = newL]
          /\ out' = out /\ lse' = lse
      BY <1>3 DEF Store
    <2>2. newO \in [Rows -> Partials]
      BY <1>1
    <2>3. newL \in [Rows -> PartialSums]
      BY <1>1, <1>3
    <2> HIDE DEF newO, newL
    <2> QED
      BY <1>1, <2>1, <2>2, <2>3
  <1>4. CASE ~ Split
    BY <1>1, <1>2, <1>4 DEF Store
  <1> QED
    BY <1>3, <1>4

(* Folding a block keeps the accumulators typed.                           *)
LEMMA FoldTypes ==
  ASSUME TypeOK, NEW s \in Splits, NEW n \in Int,
         NEW masking, NEW first, NEW checkInf,
         Fold(s, n, masking, first, checkInf)
  PROVE  acc' \in [Splits -> [Rows -> SUBSET Int]] /\ nan' \in [Splits -> SUBSET Rows]
  <1>1. acc \in [Splits -> [Rows -> SUBSET Int]] /\ nan \in [Splits -> SUBSET Rows]
    BY DEF TypeOK
  <1>2. BlockKeys(n) \subseteq Int
    BY BlockKeysAreIntegers
  <1> QED
    BY <1>1, <1>2 DEF Fold

(* normalize_softmax_lse returns a result and a log-sum.                   *)
LEMMA PartialTypes ==
  ASSUME TypeOK, NEW s \in Splits, NEW r \in Rows
  PROVE  /\ Partial(s, r).o \in Partials
         /\ Partial(s, r).l \in (IF Split THEN PartialSums ELSE Sums)
  <1>1. acc[s][r] \subseteq Int
    BY DEF TypeOK
  <1> QED
    BY <1>1 DEF Partial, Mean, NaN, LogSum, NegInf, PosInf, Partials, PartialSums, Sums

(* The combine kernel returns a result and a log-sum.                      *)
LEMMA CombineTypes ==
  ASSUME TypeOK, NEW r \in Rows
  PROVE  /\ Combined(r) \in Results
         /\ LogSum(UNION { lseaccum[s][r].keys : s \in Contributing(r) }) \in Sums
         /\ PosInf \in Sums
  <1>1. \A s \in Splits : oaccum[s][r].keys \subseteq Int /\ lseaccum[s][r].keys \subseteq Int
    BY DEF TypeOK
  <1>2. Contributing(r) \subseteq Splits
    BY DEF Contributing
  <1>3. /\ UNION { oaccum[s][r].keys : s \in Contributing(r) } \subseteq Int
        /\ UNION { lseaccum[s][r].keys : s \in Contributing(r) } \subseteq Int
    BY <1>1, <1>2
  <1> QED
    BY <1>3 DEF Combined, Mean, NaN, LogSum, PosInf, Results, Sums

(* A split's first and last block are integers.                            *)
LEMMA SplitBoundsAreIntegers ==
  ASSUME tile \in ValidTiles, NEW s \in Splits
  PROVE  s \in Nat /\ BlockMin(tile, s) \in Int /\ BlockMax(tile, s) \in Int
  <1>1. s \in Nat
    BY DEF Splits, ValidTiles
  <1> QED
    BY <1>1, GeometryTypes

(* Every action keeps the types.                                           *)
LEMMA NextTypeOK ==
  ASSUME TypeOK, [Next]_vars
  PROVE  TypeOK'
  <1> USE DEF Partials, PartialSums, Results, Sums
  <1>1. /\ tile \in ValidTiles
        /\ pc \in [Splits -> {"start", "masking", "unmasked", "done"}]
        /\ n_block \in [Splits -> Int]
        /\ step \in [Splits -> Nat]
    BY DEF TypeOK
  <1>2. \A s \in Splits : BlockMin(tile, s) \in Int /\ BlockMax(tile, s) \in Int
    BY <1>1, SplitBoundsAreIntegers
  <1>3. ASSUME NEW s \in Splits, Return(s) PROVE TypeOK'
    BY <1>3 DEF TypeOK, Return, Jump, Splits
  <1>4. ASSUME NEW s \in Splits, EarlyExit(s) PROVE TypeOK'
    <2> DEFINE o == [r \in Rows |-> Mean({})]
               l == [r \in Rows |-> IF Split THEN NegInf ELSE PosInf]
    <2>1. Store(s, o, l) /\ Jump(s, "start", "done")
          /\ UNCHANGED <<tile, n_block, step, acc, nan>>
      BY <1>4 DEF EarlyExit
    <2>2. o \in [Rows -> Partials] /\ l \in [Rows -> IF Split THEN PartialSums ELSE Sums]
      BY DEF Mean, NegInf, PosInf
    <2>3. /\ oaccum' \in [Splits -> [Rows -> Partials]]
          /\ lseaccum' \in [Splits -> [Rows -> PartialSums]]
          /\ out' \in [Rows -> Results]
          /\ lse' \in [Rows -> Sums]
      <3> HIDE DEF o, l, Partials, PartialSums, Results, Sums
      <3> QED BY <2>1, <2>2, StoreTypes
    <2> QED
      BY <2>1, <2>3 DEF TypeOK, Jump, Splits
  <1>5. ASSUME NEW s \in Splits, Prologue(s) PROVE TypeOK'
    BY <1>2, <1>5 DEF TypeOK, Prologue, Jump, Splits
  <1>6. ASSUME NEW s \in Splits, MaskingIteration(s) PROVE TypeOK'
    <2>1. n_block[s] \in Int
      BY <1>1
    <2>2. acc' \in [Splits -> [Rows -> SUBSET Int]] /\ nan' \in [Splits -> SUBSET Rows]
      BY <1>6, <2>1, FoldTypes DEF MaskingIteration
    <2>3. pc' \in [Splits -> {"start", "masking", "unmasked", "done"}]
      BY <1>1, <1>6 DEF MaskingIteration, Jump
    <2>4. n_block' \in [Splits -> Int] /\ step' \in [Splits -> Nat]
      BY <1>1, <1>6 DEF MaskingIteration
    <2> QED
      BY <1>6, <2>2, <2>3, <2>4 DEF TypeOK, MaskingIteration, Splits
  <1>7. ASSUME NEW s \in Splits, UnmaskedIteration(s) PROVE TypeOK'
    <2>1. n_block[s] \in Int
      BY <1>1
    <2>2. acc' \in [Splits -> [Rows -> SUBSET Int]] /\ nan' \in [Splits -> SUBSET Rows]
      BY <1>7, <2>1, FoldTypes DEF UnmaskedIteration
    <2>3. pc' \in [Splits -> {"start", "masking", "unmasked", "done"}]
      BY <1>1, <1>7 DEF UnmaskedIteration, Jump
    <2>4. n_block' \in [Splits -> Int]
      BY <1>1, <1>7 DEF UnmaskedIteration
    <2> QED
      BY <1>7, <2>2, <2>3, <2>4 DEF TypeOK, UnmaskedIteration, Splits
  <1>8. ASSUME NEW s \in Splits, Epilogue(s) PROVE TypeOK'
    <2> DEFINE o == [r \in Rows |-> Partial(s, r).o]
               l == [r \in Rows |-> Partial(s, r).l]
    <2>1. Store(s, o, l) /\ Jump(s, "unmasked", "done")
          /\ UNCHANGED <<tile, n_block, step, acc, nan>>
      BY <1>8 DEF Epilogue
    <2>2. o \in [Rows -> Partials] /\ l \in [Rows -> IF Split THEN PartialSums ELSE Sums]
      <3> HIDE DEF Partials, PartialSums, Sums
      <3> QED BY PartialTypes
    <2>3. /\ oaccum' \in [Splits -> [Rows -> Partials]]
          /\ lseaccum' \in [Splits -> [Rows -> PartialSums]]
          /\ out' \in [Rows -> Results]
          /\ lse' \in [Rows -> Sums]
      <3> HIDE DEF o, l, Partials, PartialSums, Results, Sums
      <3> QED BY <2>1, <2>2, StoreTypes
    <2> QED
      BY <2>1, <2>3 DEF TypeOK, Jump, Splits
  <1>9. ASSUME NEW r \in Rows, CombineRow(r) PROVE TypeOK'
    <2>1. out' \in [Rows -> Results] /\ lse' \in [Rows -> Sums]
      <3>1. out \in [Rows -> Results] /\ lse \in [Rows -> Sums]
        BY DEF TypeOK
      <3> HIDE DEF Results, Sums
      <3> QED
        BY <1>9, <3>1, CombineTypes DEF CombineRow
    <2> QED
      BY <1>9, <2>1 DEF TypeOK, CombineRow, Splits
  <1>10. CASE UNCHANGED vars
    BY <1>10 DEF TypeOK, vars, Splits
  <1> QED
    BY <1>3, <1>4, <1>5, <1>6, <1>7, <1>8, <1>9, <1>10 DEF Next, CtaStep, Terminating

(***************************************************************************)
(* The state of a launch stays well-typed for every block size and tile:   *)
(* partial results only ever hold -inf for an empty sum, final results     *)
(* only +inf, which is what the combine kernel and the caller expect.      *)
(***************************************************************************)
THEOREM SplitTileTypes == Spec => []TypeOK
  BY InitTypeOK, NextTypeOK, PTL DEF Spec

-----------------------------------------------------------------------------
(* Keys of the blocks that split s owns.                                   *)
OwnKeys(s) ==
  UNION { BlockKeys(n) : n \in BlockMin(tile, s) .. BlockMax(tile, s) - 1 }

(***************************************************************************)
(* The block loop stays inside the split's range: the masking loop leaves  *)
(* before n_block falls below it, so no block of another split is folded.  *)
(***************************************************************************)
LoopInRange ==
  \A s \in Splits :
    /\ pc[s] \in {"start", "masking"} => step[s] < MaskingSteps(tile)
    /\ pc[s] = "start" => step[s] = 0
    /\ pc[s] = "masking" => n_block[s] \in BlockMin(tile, s) .. BlockMax(tile, s) - 1
    /\ pc[s] = "unmasked" => n_block[s] < BlockMax(tile, s)

FoldsOwnKeys == \A s \in Splits, r \in Rows : acc[s][r] \subseteq OwnKeys(s)

SplitInv == TypeOK /\ LoopInRange /\ FoldsOwnKeys

(* There is at least one masking iteration.                                *)
LEMMA MaskingStepsPositive ==
  ASSUME NEW t \in ValidTiles PROVE MaskingSteps(t) \in Nat /\ MaskingSteps(t) > 0
  <1>1. kBlockM >= 0 /\ kBlockM \in Int
    BY BlocksArePositive
  <1>2. CeilDiv(kBlockM, kBlockN) \in Nat
    BY <1>1, BlocksArePositive, CeilDivCovers
  <1> QED
    BY <1>2 DEF MaskingSteps

(* Folding a block of the split's own range adds own keys only.            *)
LEMMA FoldKeepsOwnKeys ==
  ASSUME TypeOK, FoldsOwnKeys, NEW s \in Splits,
         NEW masking, NEW first, NEW checkInf,
         n_block[s] \in BlockMin(tile, s) .. BlockMax(tile, s) - 1,
         Fold(s, n_block[s], masking, first, checkInf), tile' = tile
  PROVE  FoldsOwnKeys'
  <1>1. BlockKeys(n_block[s]) \subseteq OwnKeys(s)
    BY DEF OwnKeys
  <1>2. \A x \in Splits : OwnKeys(x)' = OwnKeys(x)
    BY DEF OwnKeys
  <1>3. \A x \in Splits, r \in Rows :
          acc'[x][r] \subseteq (IF x = s THEN acc[x][r] \cup BlockKeys(n_block[s]) ELSE acc[x][r])
    BY DEF TypeOK, Fold
  <1>4. Splits' = Splits
    BY DEF Splits
  <1> QED
    BY <1>1, <1>2, <1>3, <1>4 DEF FoldsOwnKeys

(* The invariant holds before any CTA runs.                                *)
LEMMA InitSplitInv == Init => SplitInv
  <1> SUFFICES ASSUME Init PROVE SplitInv
    OBVIOUS
  <1>1. TypeOK
    BY InitTypeOK
  <1>2. MaskingSteps(tile) > 0
    BY <1>1, MaskingStepsPositive DEF TypeOK
  <1> QED
    BY <1>1, <1>2 DEF Init, SplitInv, LoopInRange, FoldsOwnKeys

(* Every step of every CTA and combine row preserves the invariant.        *)
LEMMA NextSplitInv ==
  ASSUME SplitInv, [Next]_vars
  PROVE  SplitInv'
  <1>1. TypeOK /\ LoopInRange /\ FoldsOwnKeys /\ TypeOK'
    BY NextTypeOK DEF SplitInv
  <1>2. /\ tile \in ValidTiles
        /\ pc \in [Splits -> {"start", "masking", "unmasked", "done"}]
        /\ n_block \in [Splits -> Int]
        /\ step \in [Splits -> Nat]
        /\ MaskingSteps(tile) \in Nat /\ MaskingSteps(tile) > 0
    BY <1>1, MaskingStepsPositive DEF TypeOK
  <1>3. \A s \in Splits : BlockMin(tile, s) \in Int /\ BlockMax(tile, s) \in Int
    BY <1>2, SplitBoundsAreIntegers
  <1>4. ASSUME tile' = tile, acc' = acc PROVE FoldsOwnKeys'
    BY <1>1, <1>4 DEF FoldsOwnKeys, OwnKeys, Splits
  <1>5. ASSUME NEW s \in Splits, Return(s) \/ EarlyExit(s) \/ Epilogue(s)
        PROVE  LoopInRange' /\ FoldsOwnKeys'
    <2>1. /\ tile' = tile /\ acc' = acc /\ n_block' = n_block /\ step' = step
          /\ pc' = [pc EXCEPT ![s] = "done"]
      BY <1>5 DEF Return, EarlyExit, Epilogue, Jump
    <2>2. LoopInRange'
      BY <1>1, <1>2, <2>1 DEF LoopInRange, Splits
    <2> QED
      BY <1>4, <2>1, <2>2
  <1>6. ASSUME NEW s \in Splits, Prologue(s) PROVE LoopInRange' /\ FoldsOwnKeys'
    <2>1. /\ tile' = tile /\ acc' = acc /\ step' = step
          /\ pc[s] = "start" /\ pc' = [pc EXCEPT ![s] = "masking"]
          /\ n_block' = [n_block EXCEPT ![s] = BlockMax(tile, s) - 1]
          /\ BlockMin(tile, s) < BlockMax(tile, s)
      BY <1>6 DEF Prologue, Jump
    <2>2. LoopInRange'
      BY <1>1, <1>2, <1>3, <2>1 DEF LoopInRange, Splits
    <2> QED
      BY <1>4, <2>1, <2>2
  <1>7. ASSUME NEW s \in Splits, MaskingIteration(s) PROVE LoopInRange' /\ FoldsOwnKeys'
    <2> DEFINE last == \/ MaskingSteps(tile) > 1 /\ n_block[s] <= BlockMin(tile, s)
                       \/ step[s] + 1 = MaskingSteps(tile)
    <2>1. /\ tile' = tile
          /\ pc[s] = "masking" /\ pc' = [pc EXCEPT ![s] = IF last THEN "unmasked" ELSE "masking"]
          /\ n_block' = [n_block EXCEPT ![s] = n_block[s] - 1]
          /\ step' = [step EXCEPT ![s] = step[s] + 1]
          /\ Fold(s, n_block[s], TRUE, step[s] = 0, TRUE)
      BY <1>7 DEF MaskingIteration, Jump
    <2>2. n_block[s] \in BlockMin(tile, s) .. BlockMax(tile, s) - 1 /\ step[s] < MaskingSteps(tile)
      BY <1>1, <2>1 DEF LoopInRange
    <2>3. FoldsOwnKeys'
      BY <1>1, <2>1, <2>2, FoldKeepsOwnKeys
    <2>4. ~ last => /\ step[s] + 1 < MaskingSteps(tile)
                    /\ n_block[s] - 1 \in BlockMin(tile, s) .. BlockMax(tile, s) - 1
      BY <1>2, <1>3, <2>2
    <2>5. LoopInRange'
      <3> HIDE DEF last
      <3> QED
        BY <1>1, <1>2, <1>3, <2>1, <2>2, <2>4 DEF LoopInRange, Splits
    <2> QED
      BY <2>3, <2>5
  <1>8. ASSUME NEW s \in Splits, UnmaskedIteration(s) PROVE LoopInRange' /\ FoldsOwnKeys'
    <2>1. /\ tile' = tile /\ step' = step
          /\ pc[s] = "unmasked" /\ pc' = [pc EXCEPT ![s] = "unmasked"]
          /\ n_block' = [n_block EXCEPT ![s] = n_block[s] - 1]
          /\ n_block[s] >= BlockMin(tile, s)
          /\ Fold(s, n_block[s], FALSE, FALSE, tile.local)
      BY <1>8 DEF UnmaskedIteration, Jump
    <2>2. n_block[s] \in BlockMin(tile, s) .. BlockMax(tile, s) - 1
      BY <1>1, <1>2, <1>3, <2>1 DEF LoopInRange
    <2>3. FoldsOwnKeys'
      BY <1>1, <2>1, <2>2, FoldKeepsOwnKeys
    <2>4. LoopInRange'
      BY <1>1, <1>2, <1>3, <2>1, <2>2 DEF LoopInRange, Splits
    <2> QED
      BY <2>3, <2>4
  <1>9. ASSUME NEW r \in Rows, CombineRow(r) PROVE LoopInRange' /\ FoldsOwnKeys'
    <2>1. UNCHANGED <<tile, pc, n_block, step, acc>>
      BY <1>9 DEF CombineRow
    <2> QED
      BY <1>1, <1>4, <2>1 DEF LoopInRange, Splits
  <1>10. CASE UNCHANGED vars
    <2>1. UNCHANGED <<tile, pc, n_block, step, acc>>
      BY <1>10 DEF vars
    <2> QED
      BY <1>1, <1>4, <2>1 DEF SplitInv, LoopInRange, Splits
  <1> QED
    BY <1>1, <1>5, <1>6, <1>7, <1>8, <1>9, <1>10 DEF SplitInv, Next, CtaStep, Terminating

(* Two splits own different keys.                                          *)
LEMMA OwnKeysDisjoint ==
  ASSUME TypeOK, NEW s1 \in Splits, NEW s2 \in Splits, s1 # s2
  PROVE  OwnKeys(s1) \cap OwnKeys(s2) = {}
  <1>1. tile \in ValidTiles /\ s1 \in Nat /\ s2 \in Nat
    BY DEF TypeOK, Splits, ValidTiles
  <1>2. \A n1 \in BlockMin(tile, s1) .. BlockMax(tile, s1) - 1,
           n2 \in BlockMin(tile, s2) .. BlockMax(tile, s2) - 1 :
             n1 \in Int /\ n2 \in Int /\ n1 # n2
    BY <1>1, SplitsOwnDifferentBlocks, GeometryTypes
  <1> QED
    BY <1>2, BlockKeysDisjoint DEF OwnKeys

(***************************************************************************)
(* No key is counted twice by the combine kernel: the partial results it   *)
(* adds come from disjoint sets of keys, for every block size, number of   *)
(* splits, mask and sequence length, whatever order the CTAs run in.       *)
(***************************************************************************)
THEOREM SplitsStayDisjoint == Spec => []SplitsDisjoint
  <1>1. SplitInv => SplitsDisjoint
    BY OwnKeysDisjoint DEF SplitInv, FoldsOwnKeys, SplitsDisjoint, LiveRows
  <1>2. Init => SplitInv
    BY InitSplitInv
  <1>3. SplitInv /\ [Next]_vars => SplitInv'
    BY NextSplitInv
  <1> QED
    BY <1>1, <1>2, <1>3, PTL DEF Spec
-----------------------------------------------------------------------------
(* The keys of split s that row r may see: its share of the result.        *)
OwnVisible(s, r) == Visible(tile, r) \cap OwnKeys(s)

(***************************************************************************)
(* The loop index counts masking steps down from the split's last block,   *)
(* and the unmasked iterations start below the masked blocks.              *)
(***************************************************************************)
LoopCounts ==
  \A s \in Splits :
    /\ pc[s] = "masking" => n_block[s] = BlockMax(tile, s) - 1 - step[s]
    /\ pc[s] = "unmasked" =>
         /\ n_block[s] >= BlockMin(tile, s) - 1
         /\ n_block[s] >= BlockMin(tile, s) =>
              n_block[s] < BlockMax(tile, s) - MaskingSteps(tile)

NothingFolded ==
  \A s \in Splits : pc[s] = "start" => \A r \in Rows : acc[s][r] = {}

NeverNaN == \A s \in Splits : nan[s] = {}

FoldInv == SplitInv /\ LoopCounts /\ NothingFolded /\ FoldedAreVisible /\ NeverNaN

(* The block a running CTA folds is one of its own, hence one of the tile. *)
LEMMA OwnBlockInTile ==
  ASSUME TypeOK, NEW s \in Splits, NEW n \in Int,
         BlockMin(tile, s) <= n, n < BlockMax(tile, s)
  PROVE  n \in Nat /\ n < LastBlock(tile) /\ BlockMax(tile, s) <= LastBlock(tile)
  <1>1. tile \in ValidTiles /\ s \in Nat
    BY DEF TypeOK, Splits, ValidTiles
  <1>2. /\ BlockMin(tile, s) \in Nat /\ BlockMax(tile, s) \in Int /\ LastBlock(tile) \in Int
        /\ BlocksPerSplit(tile) \in Nat /\ FirstBlock(tile) \in Nat
    BY <1>1, GeometryTypes
  <1>3. BlockMax(tile, s) <= LastBlock(tile)
    <2>1. (s + 1) * BlocksPerSplit(tile) \in Nat
      BY <1>1, <1>2
    <2> QED
      BY <1>2, <2>1 DEF BlockMax, AtMost
  <1> QED
    BY <1>2, <1>3

(* No row of V that an iteration multiplies is garbage: only the last      *)
(* block can hold rows past the sequence, and only the first iteration of  *)
(* the last split reads it, under the load predicate.                      *)
LEMMA NoGarbageV ==
  ASSUME TypeOK, NEW s \in Splits, NEW n \in Int, NEW first \in BOOLEAN,
         BlockMin(tile, s) <= n, n < BlockMax(tile, s),
         first \/ n < BlockMax(tile, s) - 1
  PROVE  ~ GarbageV(n, first)
  <1>1. tile \in ValidTiles /\ s \in Nat
    BY DEF TypeOK, Splits, ValidTiles
  <1>2. /\ n \in Nat /\ BlockMax(tile, s) <= LastBlock(tile)
        /\ BlockMax(tile, s) \in Int /\ LastBlock(tile) \in Int
    BY <1>1, OwnBlockInTile, GeometryTypes
  <1>3. SUFFICES ASSUME NEW k \in BlockKeys(n), Evicted(k), ~ ClearedByLoad(k, first)
                 PROVE  ClearedByWindow(k)
    BY DEF GarbageV
  <1>4. k \in Nat
    BY <1>2, KeysOfBlock
  <1>5. ~ (k >= tile.K)
    <2>1. CASE first
      BY <1>3, <2>1 DEF ClearedByLoad
    <2>2. CASE n < BlockMax(tile, s) - 1
      <3>1. n < LastBlock(tile) - 1
        BY <1>2, <2>2
      <3>2. k < tile.K /\ tile.K \in Nat
        BY <1>1, <1>2, <3>1, OnlyLastBlockIsRagged DEF ValidTiles
      <3> QED
        BY <1>4, <3>2
    <2> QED
      BY <2>1, <2>2
  <1>6. tile.local /\ k < tile.K - Tokens(tile) - tile.wl
    BY <1>3, <1>5 DEF Evicted
  <1>7. (tile.m * kBlockM) \div tile.groups \in Nat
    <2>1. tile.m * kBlockM \in Nat /\ tile.groups \in Nat \ {0}
      BY <1>1, BlocksArePositive DEF ValidTiles
    <2> QED
      BY <2>1, DivBounds
  <1>8. Tokens(tile) \in Int /\ tile.K \in Int /\ tile.wl \in Int
    <2>1. tile.Q \in Nat /\ tile.groups \in Nat \ {0} /\ tile.K \in Int /\ tile.wl \in Int
      BY <1>1 DEF ValidTiles
    <2> QED
      BY <2>1, DivBounds DEF Tokens
  <1> QED
    BY <1>4, <1>6, <1>7, <1>8 DEF ClearedByWindow

(* What an iteration of the masking loop, or of the loop behind it, keeps  *)
(* for a live row is what the row may see of the block.                    *)
LEMMA KeptIsVisible ==
  ASSUME TypeOK, NEW s \in Splits, NEW n \in Int, NEW masking \in BOOLEAN,
         BlockMin(tile, s) <= n, n < BlockMax(tile, s),
         masking \/ n < BlockMax(tile, s) - MaskingSteps(tile),
         NEW r \in LiveRows(tile)
  PROVE  { k \in BlockKeys(n) : Kept(tile, r, k, masking) } = Visible(tile, r) \cap BlockKeys(n)
  <1>1. tile \in ValidTiles /\ s \in Nat
    BY DEF TypeOK, Splits, ValidTiles
  <1>2. /\ n \in Nat /\ BlockMax(tile, s) <= LastBlock(tile)
        /\ BlockMax(tile, s) \in Int /\ LastBlock(tile) \in Int
        /\ MaskingSteps(tile) \in Nat
    BY <1>1, OwnBlockInTile, GeometryTypes, MaskingStepsPositive
  <1>3. CASE masking \/ tile.local
    BY <1>1, <1>2, <1>3, MaskIsExact
  <1>4. CASE ~ masking /\ ~ tile.local
    <2>1. n < LastBlock(tile) - MaskingSteps(tile)
      BY <1>2, <1>4
    <2>2. \A k \in BlockKeys(n) : k \in Visible(tile, r)
      BY <1>1, <1>2, <1>4, <2>1, MaskingCoversDiagonal
    <2>3. \A k : Kept(tile, r, k, masking)
      BY <1>4 DEF Kept
    <2> QED
      BY <2>2, <2>3
  <1> QED
    BY <1>3, <1>4

(* An iteration on the next block extends what a CTA has folded by what    *)
(* its rows may see of that block, and leaves no NaN.                      *)
LEMMA FoldExtends ==
  ASSUME FoldInv, NEW s \in Splits, NEW masking \in BOOLEAN, NEW first \in BOOLEAN,
         pc[s] \in {"masking", "unmasked"},
         BlockMin(tile, s) <= n_block[s], n_block[s] < BlockMax(tile, s),
         masking \/ n_block[s] < BlockMax(tile, s) - MaskingSteps(tile),
         first \/ n_block[s] < BlockMax(tile, s) - 1,
         Fold(s, n_block[s], masking, first, masking \/ tile.local)
  PROVE  /\ nan' = nan
         /\ \A x \in Splits : x # s => acc'[x] = acc[x]
         /\ \A r \in LiveRows(tile) :
              acc'[s][r] = { k \in Visible(tile, r) :
                               \E n \in n_block[s] .. BlockMax(tile, s) - 1 : k \in BlockKeys(n) }
  <1> DEFINE n == n_block[s]
             kept(r) == { k \in BlockKeys(n) : Kept(tile, r, k, masking) }
  <1>1. TypeOK /\ FoldedAreVisible /\ NeverNaN
    BY DEF FoldInv, SplitInv
  <1>2. tile \in ValidTiles /\ n \in Int /\ BlockMax(tile, s) \in Int
    BY <1>1, SplitBoundsAreIntegers DEF TypeOK
  <1>3. /\ acc \in [Splits -> [Rows -> SUBSET Int]] /\ nan \in [Splits -> SUBSET Rows]
        /\ nan[s] = {}
    BY <1>1 DEF TypeOK, NeverNaN
  <1>4. /\ acc' = [acc EXCEPT ![s] = [r \in Rows |-> acc[s][r] \cup kept(r)]]
        /\ nan' = [nan EXCEPT ![s] = nan[s] \cup
               { r \in Rows : \/ GarbageV(n, first)
                              \/ ~ first /\ ~ (masking \/ tile.local) /\ acc[s][r] \cup kept(r) = {} }]
    BY DEF Fold
  <1>5. ~ GarbageV(n, first)
    BY <1>1, <1>2, NoGarbageV
  <1>6. ASSUME ~ masking, ~ tile.local, NEW r \in Rows PROVE kept(r) # {}
    <2>1. n * kBlockN \in BlockKeys(n)
      <3>1. n * kBlockN \in Int /\ kBlockN \in Nat \ {0}
        BY <1>2, BlocksArePositive
      <3> QED
        BY <3>1 DEF BlockKeys
    <2>2. Kept(tile, r, n * kBlockN, masking)
      BY <1>6 DEF Kept
    <2> QED
      BY <2>1, <2>2
  <1>7. nan' = nan
    <2>1. { r \in Rows : \/ GarbageV(n, first)
                         \/ ~ first /\ ~ (masking \/ tile.local) /\ acc[s][r] \cup kept(r) = {} } = {}
      <3> HIDE DEF kept
      <3> QED BY <1>5, <1>6
    <2> HIDE DEF kept, n
    <2> QED
      BY <1>3, <1>4, <2>1
  <1>8. \A x \in Splits : x # s => acc'[x] = acc[x]
    BY <1>3, <1>4
  <1>9. ASSUME NEW r \in LiveRows(tile)
        PROVE  acc'[s][r] = { k \in Visible(tile, r) :
                   \E b \in n .. BlockMax(tile, s) - 1 : k \in BlockKeys(b) }
    <2>1. r \in Rows
      BY DEF LiveRows
    <2>2. kept(r) = Visible(tile, r) \cap BlockKeys(n)
      BY <1>1, <1>2, KeptIsVisible
    <2>3. acc[s][r] = { k \in Visible(tile, r) :
                          \E b \in n + 1 .. BlockMax(tile, s) - 1 : k \in BlockKeys(b) }
      BY <1>1 DEF FoldedAreVisible
    <2>4. acc'[s][r] = acc[s][r] \cup kept(r)
      <3> HIDE DEF kept
      <3> QED BY <1>3, <1>4, <2>1
    <2>5. \A b : b \in n .. BlockMax(tile, s) - 1 <=> b = n \/ b \in n + 1 .. BlockMax(tile, s) - 1
      <3> HIDE DEF n
      <3> QED BY <1>2 DEF n
    <2> HIDE DEF n, kept
    <2> QED
      BY <2>2, <2>3, <2>4, <2>5
  <1> QED
    BY <1>7, <1>8, <1>9
(* The fold invariant holds before any CTA runs.                           *)
LEMMA InitFoldInv == Init => FoldInv
  BY InitSplitInv DEF Init, FoldInv, LoopCounts, NothingFolded, FoldedAreVisible, NeverNaN

(* The fold invariant says something of each CTA alone: a step of one CTA  *)
(* has to establish it for that CTA only.                                  *)
LEMMA OtherCtasKeepFoldInv ==
  ASSUME FoldInv, SplitInv', tile' = tile, NEW s \in Splits,
         \A x \in Splits : x # s =>
           /\ pc'[x] = pc[x] /\ n_block'[x] = n_block[x] /\ step'[x] = step[x]
           /\ acc'[x] = acc[x] /\ nan'[x] = nan[x],
         pc'[s] = "masking" => n_block'[s] = BlockMax(tile, s) - 1 - step'[s],
         pc'[s] = "unmasked" =>
           /\ n_block'[s] >= BlockMin(tile, s) - 1
           /\ n_block'[s] >= BlockMin(tile, s) =>
                n_block'[s] < BlockMax(tile, s) - MaskingSteps(tile),
         pc'[s] # "start",
         nan'[s] = {},
         pc'[s] \in {"masking", "unmasked"} => \A r \in LiveRows(tile) :
           acc'[s][r] = { k \in Visible(tile, r) :
               \E n \in n_block'[s] + 1 .. BlockMax(tile, s) - 1 : k \in BlockKeys(n) }
  PROVE  FoldInv'
  <1>1. Splits' = Splits
    BY DEF Splits
  <1>2. LoopCounts'
    BY <1>1 DEF FoldInv, LoopCounts
  <1>3. NothingFolded'
    BY <1>1 DEF FoldInv, NothingFolded
  <1>4. FoldedAreVisible'
    BY <1>1 DEF FoldInv, FoldedAreVisible
  <1>5. NeverNaN'
    BY <1>1 DEF FoldInv, NeverNaN
  <1> QED
    BY <1>2, <1>3, <1>4, <1>5 DEF FoldInv

(* Every step of every CTA and combine row preserves the fold invariant.   *)
LEMMA NextFoldInv ==
  ASSUME FoldInv, [Next]_vars
  PROVE  FoldInv'
  <1>1. /\ SplitInv /\ SplitInv' /\ TypeOK /\ LoopInRange /\ LoopCounts /\ NothingFolded
        /\ FoldedAreVisible /\ NeverNaN
    BY NextSplitInv DEF FoldInv, SplitInv
  <1>2. /\ tile \in ValidTiles
        /\ pc \in [Splits -> {"start", "masking", "unmasked", "done"}]
        /\ n_block \in [Splits -> Int]
        /\ step \in [Splits -> Nat]
        /\ MaskingSteps(tile) \in Nat /\ MaskingSteps(tile) > 0
    BY <1>1, MaskingStepsPositive DEF TypeOK
  <1>3. \A s \in Splits : BlockMin(tile, s) \in Int /\ BlockMax(tile, s) \in Int
    BY <1>2, SplitBoundsAreIntegers
  <1>4. ASSUME NEW s \in Splits, Return(s) \/ EarlyExit(s) \/ Epilogue(s) PROVE FoldInv'
    <2>1. /\ tile' = tile /\ acc' = acc /\ nan' = nan /\ n_block' = n_block /\ step' = step
          /\ pc' = [pc EXCEPT ![s] = "done"]
      BY <1>4 DEF Return, EarlyExit, Epilogue, Jump
    <2>2. pc'[s] = "done" /\ nan'[s] = {} /\ \A x \in Splits : x # s => pc'[x] = pc[x]
      BY <1>1, <1>2, <2>1 DEF NeverNaN
    <2> QED
      BY <1>1, <2>1, <2>2, OtherCtasKeepFoldInv
  <1>5. ASSUME NEW s \in Splits, Prologue(s) PROVE FoldInv'
    <2>1. /\ tile' = tile /\ acc' = acc /\ nan' = nan /\ step' = step
          /\ pc[s] = "start" /\ pc' = [pc EXCEPT ![s] = "masking"]
          /\ n_block' = [n_block EXCEPT ![s] = BlockMax(tile, s) - 1]
      BY <1>5 DEF Prologue, Jump
    <2>2. /\ pc'[s] = "masking" /\ nan'[s] = {}
          /\ n_block'[s] = BlockMax(tile, s) - 1 /\ step'[s] = 0
          /\ \A x \in Splits : x # s => pc'[x] = pc[x] /\ n_block'[x] = n_block[x]
      BY <1>1, <1>2, <2>1 DEF NeverNaN, LoopInRange
    <2>3. \A r \in LiveRows(tile) : acc'[s][r] = {}
      BY <1>1, <2>1 DEF NothingFolded, LiveRows
    <2>4. ~ \E n \in n_block'[s] + 1 .. BlockMax(tile, s) - 1 : TRUE
      BY <1>3, <2>2
    <2>5. n_block'[s] = BlockMax(tile, s) - 1 - step'[s]
      BY <1>3, <2>2
    <2> QED
      BY <1>1, <2>1, <2>2, <2>3, <2>4, <2>5, OtherCtasKeepFoldInv
  <1>6. ASSUME NEW s \in Splits, MaskingIteration(s) PROVE FoldInv'
    <2> DEFINE last == \/ MaskingSteps(tile) > 1 /\ n_block[s] <= BlockMin(tile, s)
                       \/ step[s] + 1 = MaskingSteps(tile)
               first == step[s] = 0
    <2>1. /\ tile' = tile
          /\ pc[s] = "masking" /\ pc' = [pc EXCEPT ![s] = IF last THEN "unmasked" ELSE "masking"]
          /\ n_block' = [n_block EXCEPT ![s] = n_block[s] - 1]
          /\ step' = [step EXCEPT ![s] = step[s] + 1]
          /\ Fold(s, n_block[s], TRUE, first, TRUE)
      BY <1>6 DEF MaskingIteration, Jump
    <2>2. /\ n_block[s] \in Int /\ BlockMin(tile, s) <= n_block[s] /\ n_block[s] < BlockMax(tile, s)
          /\ step[s] < MaskingSteps(tile) /\ step[s] \in Nat
          /\ n_block[s] = BlockMax(tile, s) - 1 - step[s]
      <3> HIDE DEF last, first
      <3>1. n_block[s] \in BlockMin(tile, s) .. BlockMax(tile, s) - 1 /\ step[s] < MaskingSteps(tile)
        BY <1>1, <2>1 DEF LoopInRange
      <3>2. n_block[s] = BlockMax(tile, s) - 1 - step[s]
        BY <1>1, <2>1 DEF LoopCounts
      <3> QED
        BY <1>2, <1>3, <3>1, <3>2
    <2>3. first \/ n_block[s] < BlockMax(tile, s) - 1
      BY <1>3, <2>2
    <2>4. /\ nan' = nan
          /\ \A x \in Splits : x # s => acc'[x] = acc[x]
          /\ \A r \in LiveRows(tile) :
               acc'[s][r] = { k \in Visible(tile, r) :
                               \E n \in n_block[s] .. BlockMax(tile, s) - 1 : k \in BlockKeys(n) }
      <3>1. Fold(s, n_block[s], TRUE, first, TRUE \/ tile.local)
        BY <2>1 DEF Fold
      <3>2. first \in BOOLEAN
        OBVIOUS
      <3> HIDE DEF first
      <3> QED
        BY <2>1, <2>2, <2>3, <3>1, <3>2, FoldExtends
    <2>5. n_block'[s] + 1 = n_block[s] /\ n_block'[s] = n_block[s] - 1 /\ step'[s] = step[s] + 1
      BY <1>2, <2>1, <2>2
    <2>6. pc'[s] = "masking" => n_block'[s] = BlockMax(tile, s) - 1 - step'[s]
      BY <1>3, <2>2, <2>5
    <2>7. pc'[s] = "unmasked" =>
            /\ n_block'[s] >= BlockMin(tile, s) - 1
            /\ n_block'[s] >= BlockMin(tile, s) =>
                 n_block'[s] < BlockMax(tile, s) - MaskingSteps(tile)
      <3>1. pc'[s] = "unmasked" => last
        BY <1>2, <2>1
      <3> QED
        BY <1>2, <1>3, <2>2, <2>5, <3>1
    <2>8. \A x \in Splits : x # s =>
             pc'[x] = pc[x] /\ n_block'[x] = n_block[x] /\ step'[x] = step[x]
      BY <1>2, <2>1
    <2>9. pc'[s] # "start" /\ nan'[s] = {}
      BY <1>1, <1>2, <2>1, <2>4 DEF NeverNaN
    <2> HIDE DEF last, first
    <2> QED
      BY <1>1, <2>1, <2>4, <2>5, <2>6, <2>7, <2>8, <2>9, OtherCtasKeepFoldInv
  <1>7. ASSUME NEW s \in Splits, UnmaskedIteration(s) PROVE FoldInv'
    <2>1. /\ tile' = tile /\ step' = step
          /\ pc[s] = "unmasked" /\ pc' = [pc EXCEPT ![s] = "unmasked"]
          /\ n_block' = [n_block EXCEPT ![s] = n_block[s] - 1]
          /\ n_block[s] >= BlockMin(tile, s)
          /\ Fold(s, n_block[s], FALSE, FALSE, tile.local)
      BY <1>7 DEF UnmaskedIteration, Jump
    <2>2. /\ n_block[s] \in Int /\ BlockMin(tile, s) <= n_block[s] /\ n_block[s] < BlockMax(tile, s)
          /\ n_block[s] < BlockMax(tile, s) - MaskingSteps(tile)
          /\ n_block[s] < BlockMax(tile, s) - 1
      BY <1>1, <1>2, <1>3, <2>1 DEF LoopInRange, LoopCounts
    <2>3. /\ nan' = nan
          /\ \A x \in Splits : x # s => acc'[x] = acc[x]
          /\ \A r \in LiveRows(tile) :
               acc'[s][r] = { k \in Visible(tile, r) :
                               \E n \in n_block[s] .. BlockMax(tile, s) - 1 : k \in BlockKeys(n) }
      <3>1. Fold(s, n_block[s], FALSE, FALSE, FALSE \/ tile.local)
        BY <2>1 DEF Fold
      <3> QED
        BY <2>1, <2>2, <3>1, FoldExtends
    <2>4. n_block'[s] + 1 = n_block[s] /\ n_block'[s] = n_block[s] - 1
      BY <1>2, <2>1, <2>2
    <2>5. /\ n_block'[s] >= BlockMin(tile, s) - 1
          /\ n_block'[s] < BlockMax(tile, s) - MaskingSteps(tile)
      BY <1>2, <1>3, <2>2, <2>4
    <2>6. \A x \in Splits : x # s => pc'[x] = pc[x] /\ n_block'[x] = n_block[x]
      BY <1>2, <2>1
    <2>7. pc'[s] = "unmasked" /\ nan'[s] = {}
      BY <1>1, <1>2, <2>1, <2>3 DEF NeverNaN
    <2> QED
      BY <1>1, <2>1, <2>3, <2>4, <2>5, <2>6, <2>7, OtherCtasKeepFoldInv
  <1>8. ASSUME UNCHANGED <<tile, pc, n_block, step, acc, nan>> PROVE FoldInv'
    BY <1>1, <1>8 DEF FoldInv, LoopCounts, NothingFolded, FoldedAreVisible, NeverNaN, Splits
  <1>9. ASSUME NEW r \in Rows, CombineRow(r) PROVE FoldInv'
    BY <1>8, <1>9 DEF CombineRow
  <1>10. CASE UNCHANGED vars
    BY <1>8, <1>10 DEF vars
  <1> QED
    BY <1>4, <1>5, <1>6, <1>7, <1>9, <1>10 DEF Next, CtaStep, Terminating

(***************************************************************************)
(* At every point of its loop, a CTA has folded exactly the keys its live  *)
(* rows may see of the blocks behind it: the masking iterations cover the  *)
(* causal diagonal, the window and the ragged end, for every block size.   *)
(***************************************************************************)
THEOREM FoldedStayVisible == Spec => []FoldedAreVisible
  <1>1. FoldInv => FoldedAreVisible
    BY DEF FoldInv
  <1> QED
    BY <1>1, InitFoldInv, NextFoldInv, PTL DEF Spec

(***************************************************************************)
(* No accumulator turns NaN: no row is rescaled from a running maximum of  *)
(* -inf without the check, and no V row that was evicted, or not loaded,   *)
(* meets a zero weight, for every window, sequence length and split.       *)
(***************************************************************************)
THEOREM NaNNeverStored == Spec => []NoNaN
  <1>1. FoldInv => NoNaN
    BY DEF FoldInv, NeverNaN, NoNaN
  <1> QED
    BY <1>1, InitFoldInv, NextFoldInv, PTL DEF Spec
-----------------------------------------------------------------------------
(* The average and log-sum of a set of keys as a row's partial result, and *)
(* as its final result: the empty sum is -inf for one, +inf for the other. *)
PartialIs(o, l, S) == o = Mean(S) /\ l = IF S = {} THEN NegInf ELSE LogSum(S)
ResultIs(o, l, S)  == o = Mean(S) /\ l = IF S = {} THEN PosInf ELSE LogSum(S)

(* A CTA that is done has stored the average over its share of the keys.   *)
SharesStored ==
  \A s \in Splits, r \in LiveRows(tile) :
    pc[s] = "done" =>
      IF Split THEN PartialIs(oaccum[s][r], lseaccum[s][r], OwnVisible(s, r))
               ELSE ResultIs(out[r], lse[r], OwnVisible(s, r))

RowsCombined ==
  Split => \A r \in LiveRows(tile) :
             lse[r] # Untouched => ResultIs(out[r], lse[r], Visible(tile, r))

PaddingUntouched ==
  \A r \in Rows \ LiveRows(tile) : out[r] = Untouched /\ lse[r] = Untouched

ResultInv == FoldInv /\ SharesStored /\ RowsCombined /\ PaddingUntouched

(* The shares of the splits add up to what a row may see.                  *)
LEMMA SharesAddUp ==
  ASSUME TypeOK, NEW r \in LiveRows(tile)
  PROVE  Visible(tile, r) = UNION { OwnVisible(s, r) : s \in Splits }
  <1>1. tile \in ValidTiles
    BY DEF TypeOK
  <1>2. ASSUME NEW k \in Visible(tile, r) PROVE \E s \in Splits : k \in OwnVisible(s, r)
    <2>1. PICK n \in FirstBlock(tile) .. LastBlock(tile) - 1 : k \in BlockKeys(n)
      BY <1>1, VisibleKeysInRange
    <2>2. PICK s \in Splits : n \in BlockMin(tile, s) .. BlockMax(tile, s) - 1
      BY <1>1, SplitsOwnEveryBlock DEF Splits
    <2> QED
      BY <2>1, <2>2 DEF OwnVisible, OwnKeys
  <1> QED
    BY <1>2 DEF OwnVisible

(* Without splitting, the only CTA's share is everything.                  *)
LEMMA OnlyShare ==
  ASSUME TypeOK, ~ Split, NEW s \in Splits, NEW r \in LiveRows(tile)
  PROVE  OwnVisible(s, r) = Visible(tile, r) /\ \A x \in Splits : x = s
  <1>1. tile.splits \in Nat \ {0}
    BY DEF TypeOK, ValidTiles
  <1>2. \A x \in Splits : x = 0
    BY <1>1 DEF Split, Splits
  <1> QED
    BY <1>2, SharesAddUp

(* A CTA that leaves its loop has folded its whole share.                  *)
LEMMA LoopFoldsShare ==
  ASSUME FoldInv, NEW s \in Splits, pc[s] = "unmasked", n_block[s] < BlockMin(tile, s),
         NEW r \in LiveRows(tile)
  PROVE  acc[s][r] = OwnVisible(s, r)
  <1>1. tile \in ValidTiles /\ n_block[s] \in Int
    BY DEF FoldInv, SplitInv, TypeOK
  <1>2. BlockMin(tile, s) \in Int /\ BlockMax(tile, s) \in Int
    BY <1>1, SplitBoundsAreIntegers
  <1>3. n_block[s] + 1 = BlockMin(tile, s)
    BY <1>1, <1>2 DEF FoldInv, LoopCounts
  <1>4. acc[s][r] = { k \in Visible(tile, r) :
                        \E n \in n_block[s] + 1 .. BlockMax(tile, s) - 1 : k \in BlockKeys(n) }
    BY DEF FoldInv, FoldedAreVisible
  <1> QED
    BY <1>3, <1>4 DEF OwnVisible, OwnKeys

(* A CTA that stores its share for its live rows and is done.              *)
LEMMA StoreShare ==
  ASSUME ResultInv, FoldInv', NEW s \in Splits, tile' = tile,
         pc' = [pc EXCEPT ![s] = "done"],
         NEW o, NEW l, Store(s, o, l),
         \A r \in LiveRows(tile) :
           IF Split THEN PartialIs(o[r], l[r], OwnVisible(s, r))
                    ELSE ResultIs(o[r], l[r], OwnVisible(s, r))
  PROVE  ResultInv'
  <1>1. TypeOK /\ SharesStored /\ RowsCombined /\ PaddingUntouched
    BY DEF ResultInv, FoldInv, SplitInv
  <1>2. LiveRows(tile) \subseteq Rows
    BY DEF LiveRows
  <1>3. Splits' = Splits /\ (Split' <=> Split) /\ \A x, r : OwnVisible(x, r)' = OwnVisible(x, r)
    BY DEF Splits, Split, OwnVisible, OwnKeys
  <1>4. \A x \in Splits : x # s => pc'[x] = pc[x]
    BY <1>1 DEF TypeOK
  <1>5. CASE Split
    <2>1. out' = out /\ lse' = lse
      BY <1>5 DEF Store
    <2>2. \A x \in Splits : x # s => oaccum'[x] = oaccum[x] /\ lseaccum'[x] = lseaccum[x]
      BY <1>1, <1>5 DEF Store, TypeOK
    <2>3. \A r \in LiveRows(tile) : oaccum'[s][r] = o[r] /\ lseaccum'[s][r] = l[r]
      BY <1>1, <1>2, <1>5 DEF Store, TypeOK
    <2>4. SharesStored'
      BY <1>1, <1>3, <1>4, <1>5, <2>2, <2>3 DEF SharesStored
    <2>5. RowsCombined' /\ PaddingUntouched'
      BY <1>1, <1>3, <2>1 DEF RowsCombined, PaddingUntouched
    <2> QED
      BY <2>4, <2>5 DEF ResultInv
  <1>6. CASE ~ Split
    <2>1. /\ \A r \in LiveRows(tile) : out'[r] = o[r] /\ lse'[r] = l[r]
          /\ \A r \in Rows \ LiveRows(tile) : out'[r] = out[r] /\ lse'[r] = lse[r]
      BY <1>2, <1>6 DEF Store
    <2>2. \A r \in LiveRows(tile), x \in Splits : x = s
      BY <1>1, <1>6, OnlyShare
    <2>3. SharesStored'
      BY <1>3, <1>6, <2>1, <2>2 DEF SharesStored
    <2>4. RowsCombined' /\ PaddingUntouched'
      BY <1>1, <1>3, <1>6, <2>1 DEF RowsCombined, PaddingUntouched
    <2> QED
      BY <2>3, <2>4 DEF ResultInv
  <1> QED
    BY <1>5, <1>6

(* The combine kernel adds the shares of all splits up.                    *)
LEMMA CombineAddsShares ==
  ASSUME ResultInv, Split, \A s \in Splits : pc[s] = "done", NEW r \in LiveRows(tile)
  PROVE  /\ Combined(r) = Mean(Visible(tile, r))
         /\ Contributing(r) = {} <=> Visible(tile, r) = {}
         /\ UNION { lseaccum[s][r].keys : s \in Contributing(r) } = Visible(tile, r)
  <1>1. TypeOK /\ \A s \in Splits : PartialIs(oaccum[s][r], lseaccum[s][r], OwnVisible(s, r))
    BY DEF ResultInv, FoldInv, SplitInv, SharesStored
  <1>2. Visible(tile, r) = UNION { OwnVisible(s, r) : s \in Splits }
    BY <1>1, SharesAddUp
  <1>3. ASSUME NEW s \in Splits
        PROVE  /\ oaccum[s][r].kind = "mean" /\ oaccum[s][r].keys = OwnVisible(s, r)
               /\ lseaccum[s][r].kind = "logsum" <=> OwnVisible(s, r) # {}
               /\ lseaccum[s][r].keys = OwnVisible(s, r)
    <2>1. PartialIs(oaccum[s][r], lseaccum[s][r], OwnVisible(s, r))
      BY <1>1
    <2> QED
      BY <2>1 DEF PartialIs, Mean, LogSum, NegInf
  <1>4. Contributing(r) = { s \in Splits : OwnVisible(s, r) # {} }
    BY <1>3 DEF Contributing
  <1>5. ~ \E s \in Splits : oaccum[s][r] = NaN
    <2>1. NaN.kind # "mean"
      BY DEF NaN
    <2> QED
      BY <1>3, <2>1
  <1>6. /\ UNION { oaccum[s][r].keys : s \in Contributing(r) } = Visible(tile, r)
        /\ UNION { lseaccum[s][r].keys : s \in Contributing(r) } = Visible(tile, r)
    BY <1>2, <1>3, <1>4
  <1>7. Contributing(r) = {} <=> Visible(tile, r) = {}
    BY <1>2, <1>4
  <1> QED
    BY <1>5, <1>6, <1>7 DEF Combined

(* The result invariant holds before any CTA runs.                         *)
LEMMA InitResultInv == Init => ResultInv
  BY InitFoldInv DEF Init, ResultInv, SharesStored, RowsCombined, PaddingUntouched, LiveRows

(* Every step of every CTA and combine row preserves the result invariant. *)
LEMMA NextResultInv ==
  ASSUME ResultInv, [Next]_vars
  PROVE  ResultInv'
  <1>1. /\ FoldInv /\ FoldInv' /\ TypeOK /\ NeverNaN
        /\ SharesStored /\ RowsCombined /\ PaddingUntouched
    BY NextFoldInv DEF ResultInv, FoldInv, SplitInv
  <1>2. /\ tile \in ValidTiles
        /\ pc \in [Splits -> {"start", "masking", "unmasked", "done"}]
        /\ LiveRows(tile) \subseteq Rows
    BY <1>1 DEF TypeOK, LiveRows
  <1>3. ASSUME NEW s \in Splits, Return(s) PROVE ResultInv'
    <2>1. tile' = tile /\ UNCHANGED <<oaccum, lseaccum, out, lse>> /\ tile.m * kBlockM >= tile.Q
      BY <1>3 DEF Return
    <2>2. LiveRows(tile) = {}
      <3>1. tile.m * kBlockM \in Nat /\ tile.Q \in Nat
        BY <1>2, BlocksArePositive DEF ValidTiles
      <3> QED
        BY <2>1, <3>1 DEF LiveRows, Rows
    <2> QED
      BY <1>1, <2>1, <2>2 DEF ResultInv, SharesStored, RowsCombined, PaddingUntouched
  <1>4. ASSUME NEW s \in Splits, EarlyExit(s) PROVE ResultInv'
    <2> DEFINE o == [r \in Rows |-> Mean({})]
               l == [r \in Rows |-> IF Split THEN NegInf ELSE PosInf]
    <2>1. /\ Store(s, o, l) /\ tile' = tile /\ pc' = [pc EXCEPT ![s] = "done"]
          /\ BlockMin(tile, s) >= BlockMax(tile, s)
      BY <1>4 DEF EarlyExit, Jump
    <2>2. OwnKeys(s) = {}
      BY <1>2, <2>1, SplitBoundsAreIntegers DEF OwnKeys
    <2>3. \A r \in LiveRows(tile) :
            IF Split THEN PartialIs(o[r], l[r], OwnVisible(s, r))
                     ELSE ResultIs(o[r], l[r], OwnVisible(s, r))
      BY <1>2, <2>2 DEF OwnVisible, PartialIs, ResultIs
    <2> HIDE DEF o, l
    <2> QED
      BY <1>1, <2>1, <2>3, StoreShare
  <1>5. ASSUME NEW s \in Splits, Epilogue(s) PROVE ResultInv'
    <2> DEFINE o == [r \in Rows |-> Partial(s, r).o]
               l == [r \in Rows |-> Partial(s, r).l]
    <2>1. /\ Store(s, o, l) /\ tile' = tile /\ pc' = [pc EXCEPT ![s] = "done"]
          /\ pc[s] = "unmasked" /\ n_block[s] < BlockMin(tile, s)
      BY <1>5 DEF Epilogue, Jump
    <2>2. \A r \in LiveRows(tile) : acc[s][r] = OwnVisible(s, r)
      BY <1>1, <2>1, LoopFoldsShare
    <2>3. nan[s] = {}
      BY <1>1 DEF NeverNaN
    <2>4. \A r \in LiveRows(tile) :
            IF Split THEN PartialIs(o[r], l[r], OwnVisible(s, r))
                     ELSE ResultIs(o[r], l[r], OwnVisible(s, r))
      BY <1>2, <2>2, <2>3 DEF Partial, PartialIs, ResultIs
    <2> HIDE DEF o, l
    <2> QED
      BY <1>1, <2>1, <2>4, StoreShare
  <1>6. ASSUME NEW s \in Splits, Prologue(s) \/ MaskingIteration(s) \/ UnmaskedIteration(s)
        PROVE  ResultInv'
    <2>1. /\ tile' = tile /\ UNCHANGED <<oaccum, lseaccum, out, lse>>
          /\ \A x \in Splits : pc'[x] = "done" => pc[x] = "done"
      BY <1>2, <1>6 DEF Prologue, MaskingIteration, UnmaskedIteration, Jump
    <2>2. Splits' = Splits /\ (Split' <=> Split) /\ \A x, r : OwnVisible(x, r)' = OwnVisible(x, r)
      BY <2>1 DEF Splits, Split, OwnVisible, OwnKeys
    <2> QED
      BY <1>1, <2>1, <2>2 DEF ResultInv, SharesStored, RowsCombined, PaddingUntouched
  <1>7. ASSUME NEW r \in Rows, CombineRow(r) PROVE ResultInv'
    <2>1. /\ Split /\ r \in LiveRows(tile) /\ \A s \in Splits : pc[s] = "done"
          /\ UNCHANGED <<tile, pc, oaccum, lseaccum>>
          /\ out' = [out EXCEPT ![r] = Combined(r)]
          /\ lse' = [lse EXCEPT ![r] = IF Contributing(r) = {} THEN PosInf
                       ELSE LogSum(UNION { lseaccum[s][r].keys : s \in Contributing(r) })]
      BY <1>7 DEF CombineRow
    <2>2. ResultIs(out'[r], lse'[r], Visible(tile, r))
      <3>1. out'[r] = Mean(Visible(tile, r))
        BY <1>1, <1>7, <2>1, CombineAddsShares DEF ResultInv, TypeOK
      <3>2. lse'[r] = IF Visible(tile, r) = {} THEN PosInf ELSE LogSum(Visible(tile, r))
        <4>1. lse'[r] = IF Contributing(r) = {} THEN PosInf
                        ELSE LogSum(UNION { lseaccum[s][r].keys : s \in Contributing(r) })
          BY <1>1, <1>7, <2>1 DEF TypeOK
        <4> QED
          BY <2>1, <4>1, CombineAddsShares DEF ResultInv
      <3> QED
        BY <3>1, <3>2 DEF ResultIs
    <2>3. \A x \in Rows : x # r => out'[x] = out[x] /\ lse'[x] = lse[x]
      BY <1>1, <2>1 DEF TypeOK
    <2>4. Splits' = Splits /\ (Split' <=> Split) /\ \A x, y : OwnVisible(x, y)' = OwnVisible(x, y)
      BY <2>1 DEF Splits, Split, OwnVisible, OwnKeys
    <2>5. SharesStored'
      BY <1>1, <2>1, <2>4 DEF SharesStored
    <2>6. RowsCombined'
      BY <1>1, <1>2, <2>1, <2>2, <2>3, <2>4 DEF RowsCombined
    <2>7. PaddingUntouched'
      BY <1>1, <2>1, <2>3 DEF PaddingUntouched
    <2> QED
      BY <1>1, <2>5, <2>6, <2>7 DEF ResultInv
  <1>8. CASE UNCHANGED vars
    BY <1>1, <1>8 DEF vars, ResultInv, SharesStored, RowsCombined, PaddingUntouched,
                      Splits, Split, OwnVisible, OwnKeys
  <1> QED
    BY <1>3, <1>4, <1>5, <1>6, <1>7, <1>8 DEF Next, CtaStep, Terminating

(***************************************************************************)
(* The kernels compute attention: when a launch is over, the result of     *)
(* every query row is the average over exactly the keys it may see, with   *)
(* the log-sum of the same keys (0 and +inf for none), and rows past the   *)
(* sequence are untouched; for every block size, mask, window, packing,    *)
(* ragged length and number of splits, in whatever order the CTAs run.     *)
(***************************************************************************)
THEOREM KernelComputesAttention == Spec => []ResultIsAttention
  <1>1. ASSUME ResultInv, Finished PROVE ResultIsAttention
    <2>1. /\ TypeOK /\ SharesStored /\ RowsCombined /\ PaddingUntouched
          /\ \A s \in Splits : pc[s] = "done"
          /\ Split => \A r \in LiveRows(tile) : lse[r] # Untouched
      BY <1>1 DEF ResultInv, FoldInv, SplitInv, Finished
    <2>2. ASSUME NEW r \in LiveRows(tile) PROVE ResultIs(out[r], lse[r], Visible(tile, r))
      <3>1. CASE Split
        BY <2>1, <3>1 DEF RowsCombined
      <3>2. CASE ~ Split
        <4>1. 0 \in Splits
          BY <2>1 DEF TypeOK, ValidTiles, Splits
        <4> QED
          BY <2>1, <3>2, <4>1, OnlyShare DEF SharesStored
      <3> QED
        BY <3>1, <3>2
    <2> QED
      BY <2>1, <2>2 DEF ResultIsAttention, ResultIs, PaddingUntouched
  <1>2. ResultInv => ResultIsAttention
    BY <1>1 DEF ResultIsAttention
  <1> QED
    BY <1>2, InitResultInv, NextResultInv, PTL DEF Spec
=============================================================================
