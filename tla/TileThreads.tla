----------------------------- MODULE TileThreads -----------------------------
(***************************************************************************)
(* SplitTile, thread by thread: compute_attn_1rowblock_splitkv with the    *)
(* running softmax in the registers of the lanes that hold it, then        *)
(* combine_attn_seqk_parallel.  The CTAs of the splits share nothing, so   *)
(* here they run one after the other (Turn); SplitTile has every order.    *)
(***************************************************************************)
EXTENDS CombineThreads

CONSTANTS
  Tiles,      \* the tiles considered
  Padding     \* how far seqlen_q may exceed the sequence

ASSUME TilesAreValid ==
  /\ Tiles \subseteq { t \in ValidTiles : t.splits <= kMaxSplits }
  /\ Padding \subseteq Nat

VARIABLES
  n_block, step,    \* of each split's CTA, as in SplitTile
  rowMax, rowSum,   \* Softmax::row_max, row_sum: per split and slot
  accO,             \* acc_o: per split and slot, the same for all its columns
  nan               \* slots whose accumulator holds a NaN

cta  == <<pc, n_block, step, rowMax, rowSum, accO, nan, oaccum, lseaccum>>
vars == <<tile, seqlen_q, cta, out, lse, combine>>

(* A lane holds two rows, <<warp, lane, i>>; lanes of a quad the same ones. *)
Slots    == Warps \X Lanes \X {0, 1}
RowOf(x) == AccRow(x[1], x[2], x[3])
Quad(r)  == { x \in Slots : RowOf(x) = r }

TileInit ==
  /\ tile \in Tiles
  /\ seqlen_q \in { tile.Q + p : p \in Padding }
  /\ tile.m * kBlockM < seqlen_q
  /\ pc       = [s \in Splits |-> "start"]
  /\ n_block  = [s \in Splits |-> 0]
  /\ step     = [s \in Splits |-> 0]
  /\ rowMax   = [s \in Splits |-> [x \in Slots |-> {}]]
  /\ rowSum   = [s \in Splits |-> [x \in Slots |-> EmptyBag]]
  /\ accO     = [s \in Splits |-> [x \in Slots |-> EmptyBag]]
  /\ nan      = [s \in Splits |-> {}]
  /\ oaccum   = [s \in Splits |-> [r \in Rows |-> Mean({})]]
  /\ lseaccum = [s \in Splits |-> [r \in Rows |-> NegInf]]
  /\ out      = [r \in Rows |-> Untouched]
  /\ lse      = [r \in Rows |-> Untouched]

Init == TileInit /\ CombineInit

(* What the threads implement: sums without their terms, rows without      *)
(* lanes; a row's result counts when its output is there.                  *)
S == INSTANCE SplitTile WITH
       acc <- [s \in Splits |-> [r \in Rows |-> UNION { Sources(rowSum[s][x]) : x \in Quad(r) }]],
       nan <- [s \in Splits |-> { RowOf(x) : x \in nan[s] }],
       lse <- [r \in Rows |-> IF Split /\ out[r] = Untouched THEN Untouched ELSE lse[r]]

Turn(s) == \A p \in 0 .. s - 1 : pc[p] = "done"

Jump(s, from, to) ==
  /\ Turn(s)
  /\ pc[s] = from
  /\ pc' = [pc EXCEPT ![s] = to]
  /\ UNCHANGED <<tile, seqlen_q, combine>>

Store(s, o, l) ==
  LET over(f, g) == [r \in Rows |-> IF r \in LiveRows(tile) THEN g[r] ELSE f[r]]
  IN  IF Split
      THEN /\ oaccum'   = [oaccum EXCEPT ![s] = over(@, o)]
           /\ lseaccum' = [lseaccum EXCEPT ![s] = over(@, l)]
           /\ UNCHANGED <<out, lse>>
      ELSE /\ out' = over(out, o)
           /\ lse' = over(lse, l)
           /\ UNCHANGED <<oaccum, lseaccum>>

-----------------------------------------------------------------------------
Return(s) ==
  /\ Jump(s, "start", "done")
  /\ tile.m * kBlockM >= tile.Q
  /\ UNCHANGED <<n_block, step, rowMax, rowSum, accO, nan, oaccum, lseaccum, out, lse>>

NoSum == IF Split THEN NegInf ELSE PosInf

EarlyExit(s) ==
  /\ Jump(s, "start", "done")
  /\ tile.m * kBlockM < tile.Q
  /\ BlockMin(tile, s) >= BlockMax(tile, s)
  /\ Store(s, [r \in Rows |-> Mean({})], [r \in Rows |-> NoSum])
  /\ UNCHANGED <<n_block, step, rowMax, rowSum, accO, nan>>

Prologue(s) ==
  /\ Jump(s, "start", "masking")
  /\ tile.m * kBlockM < tile.Q
  /\ BlockMin(tile, s) < BlockMax(tile, s)
  /\ n_block' = [n_block EXCEPT ![s] = BlockMax(tile, s) - 1]
  /\ UNCHANGED <<step, rowMax, rowSum, accO, nan, oaccum, lseaccum, out, lse>>

-----------------------------------------------------------------------------
(* Score registers of a slot that apply_mask leaves, and their keys.       *)
Unmasked(x, n, masking) ==
  { g \in Registers : /\ RowHalf(g[1]) = x[3]
                      /\ Kept(tile, MaskRow(x[1], x[2], x[3]),
                              MaskCol(n, x[2], Column(g[1]), g[2]), masking) }

KeyOf(x, g, n) == n * kBlockN + AccCol(x[2], g[1], g[2])

(***************************************************************************)
(* softmax_rescale_o and the product with V of block n.  The maximum is    *)
(* agreed on by the quad, the sum stays with the lane.  The scores become  *)
(* the left operand in place: a term of acc_o has the row and key its      *)
(* score is of, and the row of V it is multiplied with.                    *)
(***************************************************************************)
Fold(s, n, masking, first, checkInf) ==
  LET kept == [x \in Slots |-> Unmasked(x, n, masking)]
      keys == [x \in Slots |-> { KeyOf(x, g, n) : g \in kept[x] }]
      seen(x) == IF first THEN keys[x] ELSE rowMax[s][x] \cup keys[x]
      agreed == [w \in Warps |-> [i \in {0, 1} |->
                   AllreduceMax(QuadSize, [lane \in Lanes |-> seen(<<w, lane, i>>)])]]
      max == [x \in Slots |-> agreed[x[1]][x[3]][x[2]]]
      Scaled(sum, x) == IF first THEN sum ELSE Rescale(sum, rowMax[s][x], max[x])
      terms == [w \in Warps |-> UNION { { LET a == Aregs(g[1], g[2]) IN
                  [at |-> OperandRow(w, x[2], a[1]),
                   term |-> Term(<<RowOf(x), KeyOf(x, g, n),
                                   n * kBlockN + OperandCol(x[2], a[1], a[2])>>, max[x])] :
                  g \in kept[x] } : x \in {w} \X Lanes \X {0, 1} }]
  IN  /\ rowMax' = [rowMax EXCEPT ![s] = max]
      /\ rowSum' = [rowSum EXCEPT ![s] = [x \in Slots |->
           Scaled(@[x], x) (+) SetToBag({ Term(k, max[x]) : k \in keys[x] })]]
      /\ accO' = [accO EXCEPT ![s] = [x \in Slots |->
           Scaled(@[x], x) (+) SetToBag({ e.term : e \in { e \in terms[x[1]] : e.at = RowOf(x) } })]]
      /\ nan' = [nan EXCEPT ![s] = @ \cup
           { x \in Slots : S!GarbageV(n, first) \/ (~ first /\ ~ checkInf /\ max[x] = {}) }]

MaskingIteration(s) ==
  LET n    == n_block[s]
      last == \/ MaskingSteps(tile) > 1 /\ n <= BlockMin(tile, s)
              \/ step[s] + 1 = MaskingSteps(tile)
  IN  /\ Jump(s, "masking", IF last THEN "unmasked" ELSE "masking")
      /\ Fold(s, n, TRUE, step[s] = 0, TRUE)
      /\ n_block' = [n_block EXCEPT ![s] = n - 1]
      /\ step'    = [step EXCEPT ![s] = @ + 1]
      /\ UNCHANGED <<oaccum, lseaccum, out, lse>>

UnmaskedIteration(s) ==
  /\ n_block[s] >= BlockMin(tile, s)
  /\ Jump(s, "unmasked", "unmasked")
  /\ Fold(s, n_block[s], FALSE, FALSE, tile.local)
  /\ n_block' = [n_block EXCEPT ![s] = @ - 1]
  /\ UNCHANGED <<step, oaccum, lseaccum, out, lse>>

-----------------------------------------------------------------------------
(* normalize_softmax_lse: the sum over the quad, at last.                  *)
Total(s, x) ==
  Allreduce(QuadSize, [lane \in Lanes |-> rowSum[s][<<x[1], lane, x[3]>>]])[x[2]]

LseOf(s, x) ==
  LET sum == Total(s, x)
  IN  IF x \in nan[s] \/ sum = EmptyBag THEN NoSum
      ELSE IF Usable(sum, rowMax[s][x]) THEN LogSum(Sources(sum)) ELSE Wrong

OutOf(s, x) ==
  LET keys == Sources(Total(s, x))
  IN  IF x \in nan[s] THEN NaN
      ELSE IF /\ Usable(accO[s][x], rowMax[s][x])
              /\ Sources(accO[s][x]) = { <<RowOf(x), k, k>> : k \in keys }
           THEN Mean(keys) ELSE Wrong

(* The log-sum-exp is stored by the lanes that hold column 0 of the tile,  *)
(* the output by every lane, each its columns.                             *)
Epilogue(s) ==
  LET row(r) == { OutOf(s, x) : x \in Quad(r) }
  IN  /\ n_block[s] < BlockMin(tile, s)
      /\ Jump(s, "unmasked", "done")
      /\ Store(s, [r \in Rows |-> IF Cardinality(row(r)) = 1 THEN CHOOSE o \in row(r) : TRUE
                                  ELSE Wrong],
                  [r \in Rows |-> LET x == CHOOSE x \in Quad(r) : x[2] % QuadSize = 0
                                  IN  LseOf(s, x)])
      /\ UNCHANGED <<n_block, step, rowMax, rowSum, accO, nan>>

-----------------------------------------------------------------------------
CtaStep(s) ==
  \/ Return(s) \/ EarlyExit(s) \/ Prologue(s)
  \/ MaskingIteration(s) \/ UnmaskedIteration(s) \/ Epilogue(s)

Finished == (\A s \in Splits : pc[s] = "done") /\ Combined

(* The launch is over; stuttering here lets TLC look for real deadlocks.   *)
Terminating == Finished /\ UNCHANGED vars

Next ==
  \/ \E s \in Splits : CtaStep(s)
  \/ CombineStep /\ UNCHANGED <<n_block, step, rowMax, rowSum, accO, nan>>
  \/ Terminating

Spec == Init /\ [][Next]_vars

-----------------------------------------------------------------------------
(***************************************************************************)
(* A row of scores lives in the lanes of a quad.  Between iterations they  *)
(* agree on its maximum, no key is counted by two of them, and the output  *)
(* accumulator has exactly the terms of their sums, each times its own row *)
(* of V and relative to that maximum, although the sums are only added up  *)
(* after the last iteration (softmax.h:163-165).                           *)
(***************************************************************************)
QuadAgrees ==
  \A s \in Splits : pc[s] \in {"masking", "unmasked"} =>
    \A r \in Rows : \A x, y \in Quad(r) :
      /\ rowMax[s][x] = rowMax[s][y]
      /\ x # y => Sources(rowSum[s][x]) \cap Sources(rowSum[s][y]) = {}
      /\ Usable(rowSum[s][x], rowMax[s][x]) /\ Usable(accO[s][x], rowMax[s][x])
      /\ Sources(accO[s][x]) = { <<r, k, k>> : k \in UNION { Sources(rowSum[s][z]) : z \in Quad(r) } }

(***************************************************************************)
(* Lanes, registers, shuffles and the shared array of the combine kernel   *)
(* compute what SplitTile computes on whole rows, one row per step.        *)
(***************************************************************************)
ImplementsSplitTile == S!Spec

(* So they give each row the average over exactly the keys it may see,     *)
(* also on a square tile, whose causal diagonal crosses two key blocks.    *)
ResultIsAttention == S!ResultIsAttention
=============================================================================
