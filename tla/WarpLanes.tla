----------------------------- MODULE WarpLanes -----------------------------
(***************************************************************************)
(* How the rows and columns of a tile are spread over the warps, lanes and *)
(* registers of a CTA, and how lanes combine what they hold.  A warp is    *)
(* LaneRows x QuadSize lanes; the four lanes of a quad hold one row's      *)
(* columns.  What the tensor-core instruction expects is external; what    *)
(* the kernel believes about it is computed from the thread index.         *)
(***************************************************************************)
EXTENDS KvGeometry, FiniteSets, Bags

CONSTANTS
  kNWarps,    \* 4
  LaneRows,   \* 8
  QuadSize    \* 4

WarpSize  == LaneRows * QuadSize
kNThreads == kNWarps * WarpSize
AtomRows  == 2 * LaneRows           \* 16: rows of a warp, one MMA_M
AtomCols  == 2 * QuadSize           \* 8

Warps == 0 .. kNWarps - 1
Lanes == 0 .. WarpSize - 1
Atoms == 0 .. (kBlockN \div AtomCols) - 1     \* MMA_N of the scores

ShuffleSizes == {2, 4, 8, 16, 32}             \* THREADS of Allreduce

ASSUME TileOfWarps ==
  /\ {kNWarps, LaneRows, QuadSize} \subseteq Nat \ {0}
  /\ kBlockM = kNWarps * AtomRows
  /\ kBlockN % (2 * AtomCols) = 0
  /\ QuadSize \in ShuffleSizes

(***************************************************************************)
(* A lane's accumulator has registers <<v, nj>>, v in 0 .. 3.  The kernel  *)
(* reads them as (i, (j, nj)): row half i and column j of atom nj.         *)
(***************************************************************************)
Registers == (0 .. 3) \X Atoms
RowHalf(v) == v \div 2
Column(v)  == v % 2

(* External: the element of the product in register <<v, nj>> of a lane.   *)
AccRow(w, lane, i)  == w * AtomRows + i * LaneRows + (lane \div QuadSize)
AccCol(lane, v, nj) == nj * AtomCols + (lane % QuadSize) * 2 + (v % 2)

Mut_MaskRow_SameForBothHalves(w, lane, i) == w * AtomRows + (lane \div QuadSize)

(* The row and key apply_mask takes that register for.                     *)
MaskRow(w, lane, i)     == w * AtomRows + (lane \div QuadSize) + i * LaneRows
MaskCol(n, lane, j, nj) == n * kBlockN + (lane % QuadSize) * 2 + nj * AtomCols + j

(* External: the element of the left operand in register a of k-atom mk.   *)
OperandRow(w, lane, a)   == w * AtomRows + ((a \div 2) % 2) * LaneRows + (lane \div QuadSize)
OperandCol(lane, a, mk)  == mk * 2 * AtomCols + (a \div 4) * AtomCols + (lane % QuadSize) * 2 + (a % 2)

Mut_Aregs_HalvesOfTile(v, nj) ==
  <<v + 4 * (nj \div (Cardinality(Atoms) \div 2)), nj % (Cardinality(Atoms) \div 2)>>

(* The scores as left operand of the second product: <<a, mk>>.            *)
Aregs(v, nj) == <<v + 4 * (nj % 2), nj \div 2>>

-----------------------------------------------------------------------------
(* __shfl_xor_sync partner of a lane; offset is a power of two.            *)
Partner(lane, offset) ==
  IF (lane \div offset) % 2 = 0 THEN lane + offset ELSE lane - offset

(***************************************************************************)
(* Allreduce<threads>: every group of so many lanes gets the combination   *)
(* of what its lanes hold, by exchanges at distances threads/2 .. 1.  A    *)
(* sum of exp(x - max) is a bag of terms, each with the maximum it is      *)
(* relative to; it is usable when each term is there once, relative to one *)
(* maximum.  A maximum is the set of values it was taken over ({} is       *)
(* -inf): it forgets how often it met each.                                *)
(***************************************************************************)
Allreduce(threads, x) ==
  LET stage[n \in 1 .. threads] ==
        IF 2 * n > threads THEN x
        ELSE [lane \in Lanes |-> stage[2 * n][lane] (+) stage[2 * n][Partner(lane, n)]]
  IN  stage[1]

AllreduceMax(threads, x) ==
  LET met == Allreduce(threads, [lane \in Lanes |-> SetToBag(x[lane])])
  IN  [lane \in Lanes |-> BagToSet(met[lane])]

Term(x, max) == [of |-> x, max |-> max]
Sources(sum) == { e.of : e \in DOMAIN sum }
Usable(sum, max) == \A e \in DOMAIN sum : sum[e] = 1 /\ e.max = max

(* Multiply a sum by exp(from - to): the terms relative to one maximum     *)
(* become relative to the other.                                           *)
Rescale(sum, from, to) ==
  LET moving == { e \in DOMAIN sum : e.max = from }
  IN  [e \in DOMAIN sum \ moving |-> sum[e]]
        (+) [e \in { Term(m.of, to) : m \in moving } |-> sum[Term(e.of, from)]]
=============================================================================
