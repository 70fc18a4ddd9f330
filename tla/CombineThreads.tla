--------------------------- MODULE CombineThreads ---------------------------
(***************************************************************************)
(* combine_attn_seqk_parallel, thread by thread: one CTA merges the        *)
(* partial results of CombineRows rows through the shared array sLSE, which *)
(* holds log-sum-exps first and, in the same places, weights later.  Warps *)
(* run apart between the two barriers.                                     *)
(*                                                                         *)
(* The launch has one sequence and one head (ForwardLaunch has the flat    *)
(* index over several); the rows are those of one tile of the first kernel.*)
(***************************************************************************)
EXTENDS WarpLanes

CONSTANTS
  CombineRows,   \* kBlockM of this kernel, 4
  kMaxSplits     \* 1 << Log_max_splits, 128

kRowsPerLoad == kNThreads \div CombineRows      \* kRowsPerLoadLSE, also kBlockN
kRowsPerLoadTranspose == AtMost(kRowsPerLoad, kMaxSplits)
LsePerThread == 0 .. CeilDiv(kMaxSplits * CombineRows, kNThreads) - 1

ASSUME CombineShape ==
  /\ {CombineRows, kMaxSplits} \subseteq Nat \ {0}
  /\ kNThreads = CombineRows * WarpSize
  /\ kBlockM % CombineRows = 0
  /\ kRowsPerLoadTranspose \in ShuffleSizes
  /\ WarpSize % kRowsPerLoadTranspose = 0
  /\ Cardinality(LsePerThread) * kRowsPerLoadTranspose <= kMaxSplits

VARIABLES
  tile, seqlen_q,       \* the launch: never change
  pc,                   \* the CTAs of the first kernel, by split
  oaccum, lseaccum,     \* its partial results, by split and row
  out, lse,             \* results, by row
  block,                \* the CTA of this kernel that runs
  cpc,                  \* where its warps are
  sLSE,                 \* shared memory
  held,                 \* lse_accum of each thread
  logsum,               \* lse_logsum of each thread
  touched               \* accesses to sLSE since the last barrier

combine == <<block, cpc, sLSE, held, logsum, touched>>

Splits == 0 .. tile.splits - 1
Split  == tile.splits > 1

Mean(S)   == [kind |-> "mean", keys |-> S]
NaN       == [kind |-> "nan", keys |-> {}]
LogSum(S) == [kind |-> "logsum", keys |-> S]
NegInf    == [kind |-> "-inf", keys |-> {}]
PosInf    == [kind |-> "+inf", keys |-> {}]
Untouched == [kind |-> "untouched", keys |-> {}]
Wrong     == [kind |-> "wrong", keys |-> {}]   \* no average or sum of any keys

Threads(w) == { w * WarpSize + lane : lane \in Lanes }
AllThreads == 0 .. kNThreads - 1
Cells      == (0 .. kMaxSplits - 1) \X (0 .. CombineRows - 1)

Garbage   == [kind |-> "garbage"]               \* shared memory of a new CTA
Empty     == [kind |-> "-inf"]
Part(s, r) == [kind |-> "lse", split |-> s, row |-> r]   \* lse_accum(s, r), finite
Weight(x, sum) == [kind |-> "weight", of |-> x, sum |-> sum]  \* exp(x - sum)

Row(col)    == block * CombineRows + col        \* row of the tile
InLaunch(r) == tile.m * kBlockM + r < seqlen_q

CombineInit ==
  /\ block  = 0
  /\ cpc    = [w \in Warps |-> "load"]
  /\ sLSE   = [c \in Cells |-> Garbage]
  /\ held   = [t \in AllThreads |-> [l \in LsePerThread |-> Empty]]
  /\ logsum = [t \in AllThreads |-> Untouched]
  /\ touched = {}

Started == Split /\ \A s \in Splits : pc[s] = "done"
Blocks  == { b \in 0 .. (kBlockM \div CombineRows) - 1 : InLaunch(b * CombineRows) }

Goto(w, from, to) ==
  /\ Started
  /\ block \in Blocks
  /\ cpc[w] = from
  /\ cpc' = [cpc EXCEPT ![w] = to]

-----------------------------------------------------------------------------
(* Places a thread loads to, and places it takes lse_accum from.           *)
LoadCell(t, l)      == <<l * kRowsPerLoad + (t \div CombineRows), t % CombineRows>>

TransposeCell(t, l) == <<l * kRowsPerLoadTranspose + (t % kRowsPerLoadTranspose),
                         t \div kRowsPerLoadTranspose>>

Access(w, kind, Cell(_, _)) ==
  { <<t, kind, Cell(t, l)>> : t \in Threads(w), l \in LsePerThread }

LoadLse(w) ==
  LET value(c) == IF /\ c[1] \in Splits /\ InLaunch(Row(c[2]))
                     /\ lseaccum[c[1]][Row(c[2])].kind = "logsum"
                  THEN Part(c[1], Row(c[2])) ELSE Empty
      mine == { LoadCell(t, l) : t \in Threads(w), l \in LsePerThread } \cap Cells
  IN  /\ Goto(w, "load", "loaded")
      /\ sLSE' = [c \in Cells |-> IF c \in mine THEN value(c) ELSE sLSE[c]]
      /\ touched' = touched \cup Access(w, "write", LoadCell)
      /\ UNCHANGED <<tile, seqlen_q, pc, oaccum, lseaccum, out, lse, block, held, logsum>>

(* A sum over the parts of row r; parts of another row make it wrong.      *)
SumOf(r, sum, max) ==
  IF sum = EmptyBag THEN PosInf
  ELSE IF /\ Usable(sum, max)
          /\ \A x \in Sources(sum) : x.kind = "lse" /\ x.row = r
       THEN LogSum(UNION { lseaccum[x.split][x.row].keys : x \in Sources(sum) })
       ELSE Wrong

(* The log-sum-exp of each row by shuffles; one lane stores it.            *)
Reduce(w) ==
  LET lane(t)  == t - w * WarpSize
      got(t)   == [l \in LsePerThread |->
                     IF TransposeCell(t, l) \in Cells THEN sLSE[TransposeCell(t, l)] ELSE Empty]
      finite(t) == { got(t)[l] : l \in LsePerThread } \ {Empty}
      at(i)    == w * WarpSize + i
      max      == AllreduceMax(kRowsPerLoadTranspose, [i \in Lanes |-> finite(at(i))])
      sum      == Allreduce(kRowsPerLoadTranspose,
                     [i \in Lanes |-> SetToBag({ Term(x, max[i]) : x \in finite(at(i)) })])
      row(t)   == Row(t \div kRowsPerLoadTranspose)
      result(t) == SumOf(row(t), sum[lane(t)], max[lane(t)])
      storing  == { t \in Threads(w) : /\ t % kRowsPerLoadTranspose = 0
                                       /\ t \div kRowsPerLoadTranspose < CombineRows
                                       /\ InLaunch(row(t)) /\ row(t) \in LiveRows(tile) }
  IN  /\ Goto(w, "reduce", "reduced")
      /\ held'   = [t \in AllThreads |-> IF t \in Threads(w) THEN got(t) ELSE held[t]]
      /\ logsum' = [t \in AllThreads |-> IF t \in Threads(w) THEN result(t) ELSE logsum[t]]
      /\ lse' = [r \in Rows |-> IF \E t \in storing : row(t) = r
                                THEN result(CHOOSE t \in storing : row(t) = r) ELSE lse[r]]
      /\ touched' = touched \cup Access(w, "read", TransposeCell)
      /\ UNCHANGED <<tile, seqlen_q, pc, oaccum, lseaccum, out, block, sLSE>>

(* The weights replace the log-sum-exps in shared memory.                  *)
StoreWeights(w) ==
  LET mine == { x \in Threads(w) \X LsePerThread :
                  LET c == TransposeCell(x[1], x[2]) IN c[1] \in Splits /\ c[2] < CombineRows }
      by(c) == { x \in mine : TransposeCell(x[1], x[2]) = c }
  IN  /\ Goto(w, "reduced", "weighted")
      /\ sLSE' = [c \in Cells |->
                    IF by(c) = {} THEN sLSE[c]
                    ELSE LET x == CHOOSE x \in by(c) : TRUE
                         IN  Weight(held[x[1]][x[2]], logsum[x[1]])]
      /\ touched' = touched \cup { <<x[1], "write", TransposeCell(x[1], x[2])>> : x \in mine }
      /\ UNCHANGED <<tile, seqlen_q, pc, oaccum, lseaccum, out, lse, block, held, logsum>>

(***************************************************************************)
(* The weighted sum of the partial outputs of row r with weights x[s].  A  *)
(* row past the launch was not loaded: its registers hold anything.        *)
(***************************************************************************)
WeightedSum(r, x) ==
  LET parts == { s \in Splits : x[s].kind = "weight" /\ x[s].of # Empty /\ x[s].sum # PosInf }
  IN  IF ~ InLaunch(r) \/ \E s \in Splits : oaccum[s][r] = NaN THEN NaN
      ELSE IF /\ \A s \in Splits : x[s].kind = "weight"
              /\ \A s \in parts : /\ x[s].of = Part(s, r)
                                  /\ x[s].sum = LogSum(UNION { lseaccum[p][r].keys : p \in parts })
           THEN Mean(UNION { oaccum[s][r].keys : s \in parts })
           ELSE Wrong

(* Thread t accumulates columns of row t \div kRowsPerLoad.                *)
Accumulate(w) ==
  LET rows   == { Row(t \div kRowsPerLoad) : t \in Threads(w) }
      col(r) == r - block * CombineRows
      value(r) == WeightedSum(r, [s \in Splits |-> sLSE[<<s, col(r)>>]])
  IN  /\ Goto(w, "accumulate", "stored")
      /\ out' = [r \in Rows |-> IF r \in rows /\ InLaunch(r) /\ r \in LiveRows(tile)
                                THEN value(r) ELSE out[r]]
      /\ touched' = touched \cup
           { <<t, "read", <<s, t \div kRowsPerLoad>> >> : t \in Threads(w), s \in Splits }
      /\ UNCHANGED <<tile, seqlen_q, pc, oaccum, lseaccum, lse, block, sLSE, held, logsum>>

Mut_CombineBarrier_None(from, to) ==
  /\ \E w \in Warps : Goto(w, from, to)
  /\ UNCHANGED <<tile, seqlen_q, pc, oaccum, lseaccum, out, lse, block, sLSE, held, logsum, touched>>

(* __syncthreads: nobody goes on before all have arrived.                  *)
CombineBarrier(from, to) ==
  /\ Started /\ block \in Blocks
  /\ \A w \in Warps : cpc[w] = from
  /\ cpc' = [w \in Warps |-> to]
  /\ touched' = {}
  /\ UNCHANGED <<tile, seqlen_q, pc, oaccum, lseaccum, out, lse, block, sLSE, held, logsum>>

(* Bound: the CTAs, which share nothing, run one after the other.          *)
NextBlock ==
  /\ Started /\ block \in Blocks
  /\ \A w \in Warps : cpc[w] = "stored"
  /\ block' = block + 1
  /\ cpc'   = [w \in Warps |-> "load"]
  /\ sLSE'  = [c \in Cells |-> Garbage]
  /\ held'  = [t \in AllThreads |-> [l \in LsePerThread |-> Empty]]
  /\ logsum' = [t \in AllThreads |-> Untouched]
  /\ touched' = {}
  /\ UNCHANGED <<tile, seqlen_q, pc, oaccum, lseaccum, out, lse>>

CombineStep ==
  \/ \E w \in Warps : LoadLse(w) \/ Reduce(w) \/ StoreWeights(w) \/ Accumulate(w)
  \/ CombineBarrier("loaded", "reduce") \/ CombineBarrier("weighted", "accumulate")
  \/ NextBlock

Combined == Started => block \notin Blocks

-----------------------------------------------------------------------------
(***************************************************************************)
(* Between two barriers no place of sLSE is written by one thread and      *)
(* touched by another: the array is loaded row-wise, read column-wise and  *)
(* overwritten in place (__syncthreads, flash_fwd_kernel.h:1243, 1306).    *)
(***************************************************************************)
NoSharedRace ==
  \A a, b \in touched :
    (a[1] # b[1] /\ a[3] = b[3] /\ a[3] \in Cells) => a[2] = "read" /\ b[2] = "read"
=============================================================================
