------------------------------ MODULE SplitTile ------------------------------
(***************************************************************************)
(* One row block of one kernel head: the CTAs of its splits run            *)
(* concurrently (compute_attn_1rowblock_splitkv), each folding the key     *)
(* blocks of its split from the last to the first into a running softmax;  *)
(* when num_splits > 1 the combine kernel then merges the partial results. *)
(*                                                                         *)
(* Data is abstracted to the set of keys a result is the softmax average   *)
(* of: that is what distinguishes a right output from a wrong one.         *)
(***************************************************************************)
EXTENDS KvGeometry

CONSTANT Tiles      \* the tiles considered

ASSUME TilesAreValid == Tiles \subseteq ValidTiles

VARIABLES
  tile,      \* the launch parameters seen by the CTAs; never change
  pc,        \* where each split's CTA is
  n_block,   \* next key block of each CTA
  step,      \* masking_step of each CTA
  acc,       \* keys folded into acc_o / row_sum, per CTA and row
  nan,       \* rows of each CTA whose accumulator holds a NaN
  oaccum,    \* out_accum, lse_accum in global memory, per split and row
  lseaccum,
  out,       \* the kernel's results, per row
  lse

vars == <<tile, pc, n_block, step, acc, nan, oaccum, lseaccum, out, lse>>

Splits == 0 .. tile.splits - 1
Split  == tile.splits > 1            \* the template flag

Mean(S)   == [kind |-> "mean", keys |-> S]       \* average of V over S; Mean({}) = 0
NaN       == [kind |-> "nan", keys |-> {}]
LogSum(S) == [kind |-> "logsum", keys |-> S]
NegInf    == [kind |-> "-inf", keys |-> {}]
PosInf    == [kind |-> "+inf", keys |-> {}]
Untouched == [kind |-> "untouched", keys |-> {}]

Kinds == {"mean", "nan", "logsum", "-inf", "+inf", "untouched"}

-----------------------------------------------------------------------------
(* at::full(-inf), at::zeros and at::empty of forward().                   *)
Init ==
  /\ tile \in Tiles
  /\ pc       = [s \in Splits |-> "start"]
  /\ n_block  = [s \in Splits |-> 0]
  /\ step     = [s \in Splits |-> 0]
  /\ acc      = [s \in Splits |-> [r \in Rows |-> {}]]
  /\ nan      = [s \in Splits |-> {}]
  /\ oaccum   = [s \in Splits |-> [r \in Rows |-> Mean({})]]
  /\ lseaccum = [s \in Splits |-> [r \in Rows |-> NegInf]]
  /\ out      = [r \in Rows |-> Untouched]
  /\ lse      = [r \in Rows |-> Untouched]

Jump(s, from, to) ==
  /\ pc[s] = from
  /\ pc' = [pc EXCEPT ![s] = to]

(* Store one value per live row: to the split's scratch, or to the output. *)
Store(s, o, l) ==
  LET over(f, g) == [r \in Rows |-> IF r \in LiveRows(tile) THEN g[r] ELSE f[r]]
  IN  IF Split
      THEN /\ oaccum'   = [oaccum EXCEPT ![s] = over(@, o)]
           /\ lseaccum' = [lseaccum EXCEPT ![s] = over(@, l)]
           /\ UNCHANGED <<out, lse>>
      ELSE /\ out' = over(out, o)
           /\ lse' = over(lse, l)
           /\ UNCHANGED <<oaccum, lseaccum>>

-----------------------------------------------------------------------------
(* A row block past the end of a ragged sequence has nothing to do.        *)
Return(s) ==
  /\ Jump(s, "start", "done")
  /\ tile.m * kBlockM >= tile.Q
  /\ UNCHANGED <<tile, n_block, step, acc, nan, oaccum, lseaccum, out, lse>>

(* No key block for this split: zero output, empty sum.                    *)
EarlyExit(s) ==
  /\ Jump(s, "start", "done")
  /\ tile.m * kBlockM < tile.Q
  /\ BlockMin(tile, s) >= BlockMax(tile, s)
  /\ Store(s, [r \in Rows |-> Mean({})],
              [r \in Rows |-> IF Split THEN NegInf ELSE PosInf])
  /\ UNCHANGED <<tile, n_block, step, acc, nan>>

Prologue(s) ==
  /\ Jump(s, "start", "masking")
  /\ tile.m * kBlockM < tile.Q
  /\ BlockMin(tile, s) < BlockMax(tile, s)
  /\ n_block' = [n_block EXCEPT ![s] = BlockMax(tile, s) - 1]
  /\ UNCHANGED <<tile, step, acc, nan, oaccum, lseaccum, out, lse>>

-----------------------------------------------------------------------------
(***************************************************************************)
(* The V rows the second product multiplies.  A row is zeroed when it was  *)
(* predicated off in the first (boundary) load, or when it lies outside    *)
(* the tile's window; otherwise it holds what the cache holds, which is    *)
(* arbitrary past the sequence and, once a sliding window has evicted the  *)
(* pages, before the first key any query of the sequence can still see.    *)
(***************************************************************************)
Evicted(k) == k >= tile.K \/ (tile.local /\ k < tile.K - Tokens(tile) - tile.wl)

ClearedByWindow(k) ==
  LET lastQuery == AtMost((tile.m + 1) * kBlockM, tile.Q) \div tile.groups - 1
      shift     == tile.K - Tokens(tile)
  IN  tile.local /\ ( \/ k < (tile.m * kBlockM) \div tile.groups + shift - tile.wl
                      \/ k > lastQuery + shift + tile.wr )

Mut_ClearedByLoad_Never(k, first) == FALSE

ClearedByLoad(k, first) == first /\ k >= tile.K

GarbageV(n, first) ==
  \E k \in BlockKeys(n) : Evicted(k) /\ ~ ClearedByLoad(k, first) /\ ~ ClearedByWindow(k)

(***************************************************************************)
(* One iteration on block n: scores, mask, softmax_rescale_o, P x V.       *)
(* Rescaling an accumulator whose running maximum is still -inf gives NaN  *)
(* unless Check_inf replaces the maximum by 0.                             *)
(***************************************************************************)
Fold(s, n, masking, first, checkInf) ==
  LET kept(r) == { k \in BlockKeys(n) : Kept(tile, r, k, masking) }
  IN  /\ acc' = [acc EXCEPT ![s] = [r \in Rows |-> @[r] \cup kept(r)]]
      /\ nan' = [nan EXCEPT ![s] = @ \cup
                   { r \in Rows : \/ GarbageV(n, first)
                                  \/ ~ first /\ ~ checkInf /\ acc[s][r] \cup kept(r) = {} }]

MaskingIteration(s) ==
  LET n    == n_block[s]
      last == \/ MaskingSteps(tile) > 1 /\ n <= BlockMin(tile, s)    \* the break
              \/ step[s] + 1 = MaskingSteps(tile)
  IN  /\ Jump(s, "masking", IF last THEN "unmasked" ELSE "masking")
      /\ Fold(s, n, TRUE, step[s] = 0, TRUE)
      /\ n_block' = [n_block EXCEPT ![s] = n - 1]
      /\ step'    = [step EXCEPT ![s] = @ + 1]
      /\ UNCHANGED <<tile, oaccum, lseaccum, out, lse>>

Mut_UnmaskedIteration_NoStep(s) ==
  /\ n_block[s] >= BlockMin(tile, s)
  /\ Jump(s, "unmasked", "unmasked")
  /\ Fold(s, n_block[s], FALSE, FALSE, tile.local)
  /\ UNCHANGED <<tile, step, n_block, oaccum, lseaccum, out, lse>>

UnmaskedIteration(s) ==
  /\ n_block[s] >= BlockMin(tile, s)
  /\ Jump(s, "unmasked", "unmasked")
  /\ Fold(s, n_block[s], FALSE, FALSE, tile.local)
  /\ n_block' = [n_block EXCEPT ![s] = @ - 1]
  /\ UNCHANGED <<tile, step, oaccum, lseaccum, out, lse>>

Mut_Partial_NotSplit(s, r) ==
  IF r \in nan[s] THEN [o |-> NaN, l |-> PosInf]
  ELSE IF acc[s][r] = {}
       THEN [o |-> Mean({}), l |-> PosInf]
       ELSE [o |-> Mean(acc[s][r]), l |-> LogSum(acc[s][r])]

(* normalize_softmax_lse for row r.                                        *)
Partial(s, r) ==
  IF r \in nan[s] THEN [o |-> NaN, l |-> IF Split THEN NegInf ELSE PosInf]
  ELSE IF acc[s][r] = {}
       THEN [o |-> Mean({}), l |-> IF Split THEN NegInf ELSE PosInf]
       ELSE [o |-> Mean(acc[s][r]), l |-> LogSum(acc[s][r])]

Epilogue(s) ==
  /\ n_block[s] < BlockMin(tile, s)
  /\ Jump(s, "unmasked", "done")
  /\ Store(s, [r \in Rows |-> Partial(s, r).o], [r \in Rows |-> Partial(s, r).l])
  /\ UNCHANGED <<tile, n_block, step, acc, nan>>

-----------------------------------------------------------------------------
(***************************************************************************)
(* combine_attn_seqk_parallel, for one row.  Split s contributes with      *)
(* weight exp(lse - logsum), 0 when its lse is -inf; 0 times NaN is NaN.   *)
(* It starts when the grid of the first kernel has finished (same stream)  *)
(* and skips rows past the end of the sequence.                            *)
(***************************************************************************)
Mut_Contributing_DropsLast(r) ==
  { s \in Splits : s < tile.splits - 1 /\ lseaccum[s][r].kind = "logsum" }

Contributing(r) == { s \in Splits : lseaccum[s][r].kind = "logsum" }

Combined(r) ==
  IF \E s \in Splits : oaccum[s][r] = NaN
  THEN NaN
  ELSE Mean(UNION { oaccum[s][r].keys : s \in Contributing(r) })

CombineRow(r) ==
  /\ Split
  /\ \A s \in Splits : pc[s] = "done"
  /\ r \in LiveRows(tile)
  /\ lse[r] = Untouched
  /\ out' = [out EXCEPT ![r] = Combined(r)]
  /\ lse' = [lse EXCEPT ![r] =
               IF Contributing(r) = {} THEN PosInf
               ELSE LogSum(UNION { lseaccum[s][r].keys : s \in Contributing(r) })]
  /\ UNCHANGED <<tile, pc, n_block, step, acc, nan, oaccum, lseaccum>>

-----------------------------------------------------------------------------
CtaStep(s) ==
  \/ Return(s) \/ EarlyExit(s) \/ Prologue(s)
  \/ MaskingIteration(s) \/ UnmaskedIteration(s) \/ Epilogue(s)

Finished ==
  /\ \A s \in Splits : pc[s] = "done"
  /\ Split => \A r \in LiveRows(tile) : lse[r] # Untouched

(* The launch is over; stuttering here lets TLC look for real deadlocks.   *)
Terminating == Finished /\ UNCHANGED vars

Next ==
  \/ \E s \in Splits : CtaStep(s)
  \/ \E r \in Rows : CombineRow(r)
  \/ Terminating

(* The GPU eventually schedules every CTA of a resident grid.              *)
Fairness == WF_vars(Next)

Spec     == Init /\ [][Next]_vars
FairSpec == Spec /\ Fairness

-----------------------------------------------------------------------------
TypeOK ==
  /\ tile \in ValidTiles
  /\ pc \in [Splits -> {"start", "masking", "unmasked", "done"}]
  /\ n_block \in [Splits -> Int]
  /\ step \in [Splits -> Nat]
  /\ acc \in [Splits -> [Rows -> SUBSET Int]]
  /\ nan \in [Splits -> SUBSET Rows]
  /\ oaccum \in [Splits -> [Rows -> [kind : {"mean", "nan"}, keys : SUBSET Int]]]
  /\ lseaccum \in [Splits -> [Rows -> [kind : {"logsum", "-inf"}, keys : SUBSET Int]]]
  /\ out \in [Rows -> [kind : {"mean", "nan", "untouched"}, keys : SUBSET Int]]
  /\ lse \in [Rows -> [kind : {"logsum", "+inf", "untouched"}, keys : SUBSET Int]]

(***************************************************************************)
(* What a CTA has folded is exactly what its rows may see of the blocks it *)
(* has passed: the unmasked iterations, which compare no key with the      *)
(* causal limit, never fold a key a row must not see, packed rows included.*)
(***************************************************************************)
FoldedAreVisible ==
  \A s \in Splits : pc[s] \in {"masking", "unmasked"} =>
    \A r \in LiveRows(tile) :
      acc[s][r] = { k \in Visible(tile, r) :
                      \E n \in n_block[s] + 1 .. BlockMax(tile, s) - 1 : k \in BlockKeys(n) }

(***************************************************************************)
(* No accumulator that will be stored ever turns NaN: neither from         *)
(* rescaling a row that has seen no key (unmasked iterations do not check  *)
(* for it), nor from a zero weight times an evicted or unloaded V row.     *)
(***************************************************************************)
NoNaN == \A s \in Splits : nan[s] \cap LiveRows(tile) = {}

(***************************************************************************)
(* No key is counted twice: partial results that the combine kernel adds   *)
(* come from disjoint keys.                                                *)
(***************************************************************************)
SplitsDisjoint ==
  \A s1, s2 \in Splits : s1 # s2 =>
    \A r \in LiveRows(tile) : acc[s1][r] \cap acc[s2][r] = {}

(***************************************************************************)
(* The result of every query row is the average over exactly the keys it   *)
(* may see (0 and +inf when there are none), whatever the split count and  *)
(* the interleaving of the CTAs; rows past the sequence are never written. *)
(***************************************************************************)
ResultIsAttention ==
  Finished =>
    \A r \in Rows :
      IF r \in LiveRows(tile)
      THEN /\ out[r] = Mean(Visible(tile, r))
           /\ lse[r] = IF Visible(tile, r) = {} THEN PosInf ELSE LogSum(Visible(tile, r))
      ELSE out[r] = Untouched /\ lse[r] = Untouched

(* Every launch finishes: each block loop runs down to its split's start.  *)
Termination == <>Finished
=============================================================================
