-------------------------- MODULE TileThreadsProofs --------------------------
(***************************************************************************)
(* Theorems about the threads of a tile, for every number of warps, size   *)
(* of warp, of tile and of combine block, and every number of splits: what *)
(* a lane holds in either kernel, that the two kernels implement SplitTile, *)
(* and with its theorem that each row ends with its attention.             *)
(***************************************************************************)
EXTENDS TileThreads, KvGeometryProofs, FiniteSetTheorems, TLAPS

-----------------------------------------------------------------------------
(* Where a lane is in its warp.                                            *)
LEMMA LanePosition ==
  ASSUME NEW lane \in Lanes
  PROVE  /\ QuadSize \in Nat \ {0} /\ LaneRows \in Nat \ {0}
         /\ lane \div QuadSize \in 0 .. LaneRows - 1
         /\ lane % QuadSize \in 0 .. QuadSize - 1
<1>1. LaneRows \in Nat \ {0} /\ QuadSize \in Nat \ {0}
  BY TileOfWarps
<1>2. lane \in 0 .. LaneRows * QuadSize - 1
  BY DEF Lanes, WarpSize
<1> QED  BY <1>1, <1>2

(***************************************************************************)
(* apply_mask (mask.h:146-154, called at flash_fwd_kernel.h:961) takes     *)
(* each accumulator register for the row and key it really holds.          *)
(***************************************************************************)
THEOREM MaskKnowsItsScores ==
  ASSUME NEW w \in Warps, NEW lane \in Lanes, NEW v \in 0 .. 3, NEW nj \in Atoms, NEW n \in Int
  PROVE  /\ MaskRow(w, lane, RowHalf(v)) = AccRow(w, lane, RowHalf(v))
         /\ MaskCol(n, lane, Column(v), nj) = n * kBlockN + AccCol(lane, v, nj)
<1>1. w \in Nat /\ kNWarps \in Nat /\ nj \in Int /\ lane \in Int
  BY TileOfWarps DEF Warps, Atoms, Lanes
<1>2. AtomRows \in Nat /\ AtomCols \in Nat /\ LaneRows \in Nat /\ kBlockN \in Nat
  BY LanePosition, BlocksArePositive DEF AtomRows, AtomCols
<1>3. w * AtomRows \in Int /\ nj * AtomCols \in Int /\ n * kBlockN \in Int
  BY <1>1, <1>2
<1>4. lane \div QuadSize \in Int /\ lane % QuadSize \in Int
  BY LanePosition
<1>5. RowHalf(v) \in {0, 1} /\ Column(v) \in {0, 1} /\ Column(v) = v % 2
  BY DEF RowHalf, Column
<1>6. RowHalf(v) * LaneRows \in Int
  BY <1>2, <1>5
<1> QED  BY <1>3, <1>4, <1>5, <1>6 DEF MaskRow, AccRow, MaskCol, AccCol

(***************************************************************************)
(* convert_layout_acc_Aregs (utils.h:199-213) only renames registers: as   *)
(* left operand of the second product a score keeps its row and its key.   *)
(***************************************************************************)
THEOREM ScoresStayInPlace ==
  ASSUME NEW w \in Warps, NEW lane \in Lanes, NEW v \in 0 .. 3, NEW nj \in Atoms
  PROVE  LET a == Aregs(v, nj)
         IN  /\ OperandRow(w, lane, a[1]) = AccRow(w, lane, RowHalf(v))
             /\ OperandCol(lane, a[1], a[2]) = AccCol(lane, v, nj)
<1> DEFINE reg == v + 4 * (nj % 2)  atom == nj \div 2
<1>1. Aregs(v, nj) = <<reg, atom>>
  BY DEF Aregs
<1>2. nj \in Nat /\ nj = 2 * atom + (nj % 2) /\ nj % 2 \in {0, 1} /\ atom \in Nat
  BY DEF Atoms
<1>3. (reg \div 2) % 2 = v \div 2 /\ reg \div 4 = nj % 2 /\ reg % 2 = v % 2
  BY <1>2
<1>4. lane \div QuadSize \in Int /\ lane % QuadSize \in Int /\ AtomCols \in Nat /\ LaneRows \in Nat
  BY LanePosition DEF AtomCols
<1>5. OperandRow(w, lane, reg) = AccRow(w, lane, RowHalf(v))
  BY <1>3 DEF OperandRow, AccRow, RowHalf
<1>6. atom * 2 * AtomCols + (nj % 2) * AtomCols = nj * AtomCols
  <2>1. atom * 2 * AtomCols + (nj % 2) * AtomCols = (2 * atom + (nj % 2)) * AtomCols
    BY <1>2, <1>4
  <2> QED  BY <2>1, <1>2
<1>7. OperandCol(lane, reg, atom) = AccCol(lane, v, nj)
  BY <1>3, <1>4, <1>6 DEF OperandCol, AccCol
<1> QED  BY <1>1, <1>5, <1>7

-----------------------------------------------------------------------------
(* A place in a grid of width T has one row and one column.                *)
LEMMA OnePlace ==
  ASSUME NEW T \in Nat \ {0}, NEW l \in Int, NEW k \in Int,
         NEW a \in 0 .. T - 1, NEW b \in 0 .. T - 1, l * T + a = k * T + b
  PROVE  a = b
<1>1. (l - k) * T = b - a
  BY l * T \in Int, k * T \in Int
<1>2. CASE l = k
  BY <1>1, <1>2
<1>3. CASE l > k
  <2>1. (l - k - 1) * T >= 0
    BY <1>3, l - k - 1 \in Nat
  <2> QED  BY <1>1, <2>1, (l - k - 1) * T = (l - k) * T - T
<1>4. CASE l < k
  <2>1. (k - l - 1) * T >= 0
    BY <1>4, k - l - 1 \in Nat
  <2>2. (k - l - 1) * T = - ((l - k) * T) - T
    OBVIOUS
  <2> QED  BY <1>1, <2>1, <2>2
<1> QED  BY <1>2, <1>3, <1>4

(* The shape of the combine kernel's threads.                              *)
LEMMA CombineSizes ==
  /\ CombineRows \in Nat \ {0} /\ WarpSize \in Nat \ {0}
  /\ kNThreads = CombineRows * WarpSize
  /\ kRowsPerLoad = WarpSize
  /\ kRowsPerLoadTranspose \in Nat \ {0}
<1>1. CombineRows \in Nat \ {0} /\ kMaxSplits \in Nat \ {0} /\ kNThreads = CombineRows * WarpSize
  BY CombineShape
<1>2. WarpSize \in Nat \ {0}
  BY TileOfWarps DEF WarpSize
<1>3. kRowsPerLoad = WarpSize
  BY <1>1, <1>2 DEF kRowsPerLoad
<1> QED  BY <1>1, <1>2, <1>3 DEF kRowsPerLoadTranspose, AtMost

(* The threads of a warp are threads of the block.                         *)
LEMMA ThreadsOfWarp ==
  ASSUME NEW w \in Warps
  PROVE  Threads(w) \subseteq AllThreads
<1> SUFFICES ASSUME NEW lane \in Lanes
             PROVE  w * WarpSize + lane \in AllThreads
  BY DEF Threads
<1>1. WarpSize \in Nat \ {0} /\ kNWarps \in Nat \ {0} /\ w \in 0 .. kNWarps - 1 /\ lane \in 0 .. WarpSize - 1
  BY CombineSizes, TileOfWarps DEF Warps, Lanes
<1>2. w * WarpSize \in Nat /\ (kNWarps - 1 - w) * WarpSize \in Nat
  BY <1>1
<1>3. (kNWarps - 1 - w) * WarpSize = kNWarps * WarpSize - WarpSize - w * WarpSize
  BY <1>1
<1> QED  BY <1>1, <1>2, <1>3 DEF AllThreads, kNThreads

(* The LSE slots a thread loads are integers.                              *)
LEMMA LoadsPerThread == LsePerThread \subseteq Int
  BY DEF LsePerThread

(* No two threads load to one place of sLSE.                               *)
LEMMA LoadCellIsOwn ==
  ASSUME NEW t \in AllThreads, NEW u \in AllThreads, NEW l \in LsePerThread, NEW k \in LsePerThread,
         LoadCell(t, l) = LoadCell(u, k)
  PROVE  t = u
<1> DEFINE C == CombineRows  R == WarpSize
<1>1. C \in Nat \ {0} /\ R \in Nat \ {0} /\ l \in Int /\ k \in Int
  BY CombineSizes, LoadsPerThread
<1>2. t \in 0 .. C * R - 1 /\ u \in 0 .. C * R - 1
  BY CombineSizes DEF AllThreads
<1>3. /\ t = C * (t \div C) + (t % C) /\ t \div C \in 0 .. R - 1
      /\ u = C * (u \div C) + (u % C) /\ u \div C \in 0 .. R - 1
  BY <1>1, <1>2
<1>4. l * R + (t \div C) = k * R + (u \div C) /\ t % C = u % C
  BY CombineSizes DEF LoadCell
<1>5. t \div C = u \div C
  <2> HIDE DEF C, R
  <2> QED  BY <1>1, <1>3, <1>4, OnePlace
<1> QED  BY <1>3, <1>4, <1>5

(* No two threads read, or overwrite, one place of the transposed view.    *)
LEMMA TransposeCellIsOwn ==
  ASSUME NEW t \in AllThreads, NEW u \in AllThreads, NEW l \in LsePerThread, NEW k \in LsePerThread,
         TransposeCell(t, l) = TransposeCell(u, k)
  PROVE  t = u
<1> DEFINE T == kRowsPerLoadTranspose
<1>1. T \in Nat \ {0} /\ l \in Int /\ k \in Int /\ t \in Int /\ u \in Int
  BY CombineSizes, LoadsPerThread DEF AllThreads
<1>2. /\ t = T * (t \div T) + (t % T) /\ t % T \in 0 .. T - 1
      /\ u = T * (u \div T) + (u % T) /\ u % T \in 0 .. T - 1
  BY <1>1
<1>3. l * T + (t % T) = k * T + (u % T) /\ t \div T = u \div T
  BY DEF TransposeCell
<1>4. t % T = u % T
  <2> HIDE DEF T
  <2> QED  BY <1>1, <1>2, <1>3, OnePlace
<1> QED  BY <1>2, <1>3, <1>4

-----------------------------------------------------------------------------
(***************************************************************************)
(* Between two barriers all warps are in one phase of the combine kernel,  *)
(* and its accesses to sLSE are those of that phase: loads by rows, then   *)
(* reads and writes by columns, each thread its own places, then reads.    *)
(***************************************************************************)
Loading ==
  /\ \A w \in Warps : cpc[w] \in {"load", "loaded"}
  /\ \A a \in touched : \E t \in AllThreads, l \in LsePerThread : a = <<t, "write", LoadCell(t, l)>>

Weighting ==
  /\ \A w \in Warps : cpc[w] \in {"reduce", "reduced", "weighted"}
  /\ \A a \in touched : \E t \in AllThreads, l \in LsePerThread, kind \in {"read", "write"} :
       a = <<t, kind, TransposeCell(t, l)>>

Summing ==
  /\ \A w \in Warps : cpc[w] \in {"accumulate", "stored"}
  /\ \A a \in touched : a[2] = "read"

Places == {"load", "loaded", "reduce", "reduced", "weighted", "accumulate", "stored"}

RaceInv == cpc \in [Warps -> Places] /\ (Loading \/ Weighting \/ Summing)

(* Threads that are in one phase together touch different words.           *)
LEMMA PhasesDoNotRace == RaceInv => NoSharedRace
<1> SUFFICES ASSUME RaceInv, NEW a \in touched, NEW b \in touched,
                    a[1] # b[1], a[3] = b[3]
             PROVE  a[2] = "read" /\ b[2] = "read"
  BY DEF NoSharedRace
<1>1. ~ Loading
  <2> SUFFICES ASSUME Loading PROVE FALSE
    OBVIOUS
  <2>1. PICK t \in AllThreads, l \in LsePerThread : a = <<t, "write", LoadCell(t, l)>>
    BY DEF Loading
  <2>2. PICK u \in AllThreads, k \in LsePerThread : b = <<u, "write", LoadCell(u, k)>>
    BY DEF Loading
  <2>3. LoadCell(t, l) = LoadCell(u, k) /\ t # u
    BY <2>1, <2>2
  <2> QED  BY <2>3, LoadCellIsOwn
<1>2. ~ Weighting
  <2> SUFFICES ASSUME Weighting PROVE FALSE
    OBVIOUS
  <2>1. PICK t \in AllThreads, l \in LsePerThread, kind \in {"read", "write"} :
          a = <<t, kind, TransposeCell(t, l)>>
    BY DEF Weighting
  <2>2. PICK u \in AllThreads, k \in LsePerThread, kind2 \in {"read", "write"} :
          b = <<u, kind2, TransposeCell(u, k)>>
    BY DEF Weighting
  <2>3. TransposeCell(t, l) = TransposeCell(u, k) /\ t # u
    BY <2>1, <2>2
  <2> QED  BY <2>3, TransposeCellIsOwn
<1> QED  BY <1>1, <1>2 DEF RaceInv, Places, Summing

(* A warp that is in a phase finds all warps in it.                        *)
LEMMA PhaseOfWarp ==
  ASSUME RaceInv, NEW w \in Warps
  PROVE  /\ cpc[w] \in {"load", "loaded"} => Loading
         /\ cpc[w] \in {"reduce", "reduced", "weighted"} => Weighting
         /\ cpc[w] \in {"accumulate", "stored"} => Summing
BY DEF RaceInv, Places, Loading, Weighting, Summing

(* All warps start in the first phase.                                     *)
LEMMA RaceInvAtStart == Init => RaceInv
BY DEF Init, CombineInit, RaceInv, Places, Loading

(* Every step keeps the invariant.                                         *)
LEMMA RaceInvStep == RaceInv /\ [Next]_vars => RaceInv'
<1> SUFFICES ASSUME RaceInv, [Next]_vars PROVE RaceInv'
  OBVIOUS
<1>1. ASSUME NEW w \in Warps, LoadLse(w)
      PROVE  RaceInv'
  <2>1. cpc[w] = "load" /\ cpc' = [cpc EXCEPT ![w] = "loaded"]
    BY <1>1 DEF LoadLse, Goto
  <2>2. Loading
    BY <2>1, PhaseOfWarp
  <2>3. touched' = touched \cup Access(w, "write", LoadCell)
    BY <1>1 DEF LoadLse
  <2>4. \A a \in Access(w, "write", LoadCell) :
          \E t \in AllThreads, l \in LsePerThread : a = <<t, "write", LoadCell(t, l)>>
    BY ThreadsOfWarp DEF Access
  <2> QED  BY <2>1, <2>2, <2>3, <2>4 DEF RaceInv, Places, Loading
<1>2. ASSUME NEW w \in Warps, Reduce(w)
      PROVE  RaceInv'
  <2>1. cpc[w] = "reduce" /\ cpc' = [cpc EXCEPT ![w] = "reduced"]
    BY <1>2 DEF Reduce, Goto
  <2>2. Weighting
    BY <2>1, PhaseOfWarp
  <2>3. touched' = touched \cup Access(w, "read", TransposeCell)
    BY <1>2 DEF Reduce
  <2>4. \A a \in Access(w, "read", TransposeCell) :
          \E t \in AllThreads, l \in LsePerThread, kind \in {"read", "write"} :
            a = <<t, kind, TransposeCell(t, l)>>
    BY ThreadsOfWarp DEF Access
  <2> QED  BY <2>1, <2>2, <2>3, <2>4 DEF RaceInv, Places, Weighting
<1>3. ASSUME NEW w \in Warps, StoreWeights(w)
      PROVE  RaceInv'
  <2>1. cpc[w] = "reduced" /\ cpc' = [cpc EXCEPT ![w] = "weighted"]
    BY <1>3 DEF StoreWeights, Goto
  <2>2. Weighting
    BY <2>1, PhaseOfWarp
  <2>3. PICK mine \in SUBSET (Threads(w) \X LsePerThread) :
          touched' = touched \cup { <<x[1], "write", TransposeCell(x[1], x[2])>> : x \in mine }
    BY <1>3 DEF StoreWeights
  <2>4. \A a \in touched' :
          \E t \in AllThreads, l \in LsePerThread, kind \in {"read", "write"} :
            a = <<t, kind, TransposeCell(t, l)>>
    BY <2>2, <2>3, ThreadsOfWarp DEF Weighting
  <2> QED  BY <2>1, <2>2, <2>4 DEF RaceInv, Places, Weighting
<1>4. ASSUME NEW w \in Warps, Accumulate(w)
      PROVE  RaceInv'
  <2>1. cpc[w] = "accumulate" /\ cpc' = [cpc EXCEPT ![w] = "stored"]
    BY <1>4 DEF Accumulate, Goto
  <2>2. Summing
    BY <2>1, PhaseOfWarp
  <2>3. touched' = touched \cup
          { <<t, "read", <<s, t \div kRowsPerLoad>> >> : t \in Threads(w), s \in Splits }
    BY <1>4 DEF Accumulate
  <2> QED  BY <2>1, <2>2, <2>3 DEF RaceInv, Places, Summing
<1>5. ASSUME CombineBarrier("loaded", "reduce") \/ CombineBarrier("weighted", "accumulate")
      PROVE  RaceInv'
  BY <1>5 DEF CombineBarrier, RaceInv, Places, Weighting, Summing
<1>6. ASSUME NextBlock
      PROVE  RaceInv'
  BY <1>6 DEF NextBlock, RaceInv, Places, Loading
<1>7. ASSUME UNCHANGED combine
      PROVE  RaceInv'
  <2>1. cpc' = cpc /\ touched' = touched
    BY <1>7 DEF combine
  <2> QED  BY <2>1 DEF RaceInv, Places, Loading, Weighting, Summing
<1>8. ASSUME NEW s \in Splits, CtaStep(s)
      PROVE  UNCHANGED combine
  <2>1. \A from, to : Jump(s, from, to) => UNCHANGED combine
    BY DEF Jump
  <2> QED  BY <1>8, <2>1 DEF CtaStep, Return, EarlyExit, Prologue, MaskingIteration,
                            UnmaskedIteration, Epilogue
<1>9. UNCHANGED vars => UNCHANGED combine
  BY DEF vars
<1>10. CombineStep => RaceInv'
  BY <1>1, <1>2, <1>3, <1>4, <1>5, <1>6 DEF CombineStep
<1> QED  BY <1>7, <1>8, <1>9, <1>10 DEF Next, Terminating

(***************************************************************************)
(* However many warps, splits and rows: between two barriers of the        *)
(* combine kernel (flash_fwd_kernel.h:1243, 1306) no thread touches a      *)
(* place of sLSE that another one writes.                                  *)
(***************************************************************************)
THEOREM CombineIsRaceFree == Spec => []NoSharedRace
<1>1. Init => RaceInv
  BY RaceInvAtStart
<1>2. RaceInv /\ [Next]_vars => RaceInv'
  BY RaceInvStep
<1>3. RaceInv => NoSharedRace
  BY PhasesDoNotRace
<1> QED  BY <1>1, <1>2, <1>3, PTL DEF Spec

-----------------------------------------------------------------------------
(***************************************************************************)
(* Shuffles.  After the exchange at distance n a lane holds the            *)
(* combination of the lanes of its group that agree with it modulo n.      *)
(***************************************************************************)
MatesAt(T, n, lane) == { l \in Lanes : l \div T = lane \div T /\ l % n = lane % n }
Mates(T, lane)      == { l \in Lanes : l \div T = lane \div T }

Distances == {1, 2, 4, 8, 16}

(* The partner at distance n has the same place modulo n, not modulo 2n.   *)
LEMMA PartnerPlace ==
  ASSUME NEW n \in Distances, NEW a \in Nat
  PROVE  /\ Partner(a, n) \in Nat
         /\ Partner(a, n) \div (2 * n) = a \div (2 * n)
         /\ Partner(a, n) % (2 * n) # a % (2 * n)
         /\ \A l \in Nat : (l % n = a % n) <=>
              (l % (2 * n) = a % (2 * n) \/ l % (2 * n) = Partner(a, n) % (2 * n))
<1>1. CASE n = 1  BY <1>1, SMT DEF Partner
<1>2. CASE n = 2  BY <1>2, SMT DEF Partner
<1>3. CASE n = 4  BY <1>3, SMT DEF Partner
<1>4. CASE n = 8  BY <1>4, SMT DEF Partner
<1>5. CASE n = 16  BY <1>5, SMT DEF Partner
<1> QED  BY <1>1, <1>2, <1>3, <1>4, <1>5 DEF Distances

(* What falls into one group falls into one group of a multiple of them.   *)
LEMMA CoarserGroup ==
  ASSUME NEW d \in Nat \ {0}, NEW m \in Nat \ {0}, NEW a \in Nat
  PROVE  a \div (d * m) = (a \div d) \div m
<1> DEFINE q == a \div d  p == q \div m  s == q % m  r == a % d
<1>1. q \in Nat /\ r \in 0 .. d - 1 /\ a = d * q + r
  BY DivBounds
<1>2. p \in Nat /\ s \in 0 .. m - 1 /\ q = m * p + s
  BY <1>1, DivBounds
<1> HIDE DEF q, p, s, r
<1>3. d * m \in Nat \ {0} /\ d * s \in Nat /\ d * (m - 1 - s) \in Nat
  BY <1>2, SMT
<1>4. d * (m - 1 - s) = d * m - d - d * s
  BY <1>2, SMT
<1>5. d * s + r \in 0 .. d * m - 1
  BY <1>1, <1>3, <1>4, SMT
<1>6. a = p * (d * m) + (d * s + r)
  <2>1. d * q = d * (m * p) + d * s
    BY <1>2, SMT
  <2>2. d * (m * p) = p * (d * m)
    BY <1>2, SMT
  <2>3. d * q = p * (d * m) + d * s
    BY <2>1, <2>2
  <2> DEFINE x == p * (d * m)  y == d * s
  <2>4. x \in Int /\ y \in Int /\ d * q = x + y
    BY <1>2, <1>3, <2>3
  <2> HIDE DEF x, y
  <2>5. a = x + (y + r)
    BY <1>1, <2>4
  <2> QED  BY <2>5 DEF x, y
<1>7. a \div (d * m) = p
  BY <1>2, <1>3, <1>5, <1>6, DivUnique
<1> QED  BY <1>7 DEF p, q

(* A number is its quotient and its remainder.                             *)
LEMMA QuotientRemainder ==
  ASSUME NEW d \in Nat \ {0}, NEW a \in Nat
  PROVE  a = d * (a \div d) + (a % d) /\ a % d \in 0 .. d - 1 /\ a \div d \in Nat
  BY SMT

(* An exchange stays in the group and doubles what a lane has met.         *)
LEMMA MatesDouble ==
  ASSUME NEW T \in ShuffleSizes, WarpSize % T = 0, NEW n \in Distances, 2 * n <= T,
         NEW lane \in Lanes
  PROVE  /\ Partner(lane, n) \in Lanes
         /\ MatesAt(T, n, lane) = MatesAt(T, 2 * n, lane) \cup MatesAt(T, 2 * n, Partner(lane, n))
         /\ MatesAt(T, 2 * n, lane) \cap MatesAt(T, 2 * n, Partner(lane, n)) = {}
<1> DEFINE p == Partner(lane, n)  m == T \div (2 * n)
<1>1. WarpSize \in Nat \ {0} /\ lane \in 0 .. WarpSize - 1 /\ T \in Nat \ {0} /\ n \in Nat \ {0}
  BY TileOfWarps DEF WarpSize, Lanes, ShuffleSizes, Distances
<1>2. m \in Nat \ {0} /\ T = (2 * n) * m
  BY SMT DEF ShuffleSizes, Distances
<1>0. lane \in Nat
  BY <1>1
<1>3. p \in Nat /\ p \div (2 * n) = lane \div (2 * n)
  BY <1>0, PartnerPlace, Zenon
<1>4. p \div T = lane \div T
  <2>1. lane \div ((2 * n) * m) = (lane \div (2 * n)) \div m /\ p \div ((2 * n) * m) = (p \div (2 * n)) \div m
    <3>1. 2 * n \in Nat \ {0}
      BY <1>1
    <3> DEFINE d == 2 * n
    <3> HIDE DEF d, m, p
    <3>2. lane \div (d * m) = (lane \div d) \div m
      BY <1>0, <1>2, <3>1, CoarserGroup DEF d
    <3>3. p \div (d * m) = (p \div d) \div m
      BY <1>3, <1>2, <3>1, CoarserGroup DEF d
    <3> QED  BY <3>2, <3>3 DEF d
  <2> HIDE DEF p, m
  <2> QED  BY <1>2, <1>3, <2>1, Zenon
<1>5. p \in Lanes
  <2> DEFINE c == WarpSize \div T  g == lane \div T
  <2>1. c \in Nat /\ WarpSize = T * c
    BY <1>1
  <2>2. g \in Nat /\ T * g <= lane /\ p < T * g + T
    BY <1>1, <1>3, <1>4, DivBounds
  <2> HIDE DEF c, g, p
  <2>3. g < c
    BY <1>1, <2>1, <2>2, MultiplesReflectOrder, SMT
  <2>4. T * (c - 1 - g) \in Nat /\ T * (c - 1 - g) = T * c - T - T * g
    BY <1>1, <2>1, <2>2, <2>3, SMT
  <2>5. p < WarpSize
    BY <1>1, <1>3, <2>1, <2>2, <2>4, SMT
  <2> QED  BY <1>1, <1>3, <2>5, SMT DEF Lanes
<1>6. \A l \in Lanes : (l % n = lane % n) <=> (l % (2 * n) = lane % (2 * n) \/ l % (2 * n) = p % (2 * n))
  <2> SUFFICES ASSUME NEW l \in Nat
               PROVE  (l % n = lane % n) <=> (l % (2 * n) = lane % (2 * n) \/ l % (2 * n) = p % (2 * n))
    BY SMT DEF Lanes
  <2> QED  BY <1>0, PartnerPlace, Zenon
<1>7. p % (2 * n) # lane % (2 * n)
  BY <1>0, PartnerPlace, Zenon
<1> HIDE DEF p
<1>8. /\ MatesAt(T, n, lane) = MatesAt(T, 2 * n, lane) \cup MatesAt(T, 2 * n, p)
      /\ MatesAt(T, 2 * n, lane) \cap MatesAt(T, 2 * n, p) = {}
  BY <1>4, <1>6, <1>7 DEF MatesAt
<1> QED  BY <1>5, <1>8 DEF p

(* A group of lanes modulo its size is one lane, modulo 1 all of them.     *)
LEMMA MatesEnds ==
  ASSUME NEW T \in Nat \ {0}, NEW lane \in Lanes
  PROVE  MatesAt(T, T, lane) = {lane} /\ MatesAt(T, 1, lane) = Mates(T, lane)
<1>1. \A l \in Lanes : l \in Nat
  BY DEF Lanes
<1>2. \A l \in Lanes : l = T * (l \div T) + (l % T) /\ l % 1 = 0
  <2>1. \A l \in Nat : l % 1 = 0
    BY SMT
  <2> QED  BY <1>1, <2>1, QuotientRemainder, Zenon
<1> QED  BY <1>2 DEF MatesAt, Mates

(* Allreduce<T> is its exchanges, one after the other.                     *)
Exchanged(f, n) == [lane \in Lanes |-> f[lane] (+) f[Partner(lane, n)]]

Stages(T, x, stage) ==
  /\ Allreduce(T, x) = stage[1]
  /\ stage[T] = x
  /\ \A n \in 1 .. T : 2 * n <= T => stage[n] = Exchanged(stage[2 * n], n)

(* The exchanges of each group size, one after the other.                  *)
LEMMA AllreduceStages ==
  ASSUME NEW T \in ShuffleSizes, NEW x
  PROVE  \E stage : Stages(T, x, stage)
<1> DEFINE Body(f) == [n \in 1 .. T |->
             IF 2 * n > T THEN x
             ELSE [lane \in Lanes |-> f[2 * n][lane] (+) f[2 * n][Partner(lane, n)]]]
           F0(n) == x
           F1(n) == IF 2 * n > T THEN x ELSE Exchanged(F0(2 * n), n)
           F2(n) == IF 2 * n > T THEN x ELSE Exchanged(F1(2 * n), n)
           F3(n) == IF 2 * n > T THEN x ELSE Exchanged(F2(2 * n), n)
           F4(n) == IF 2 * n > T THEN x ELSE Exchanged(F3(2 * n), n)
           F5(n) == IF 2 * n > T THEN x ELSE Exchanged(F4(2 * n), n)
           F6(n) == IF 2 * n > T THEN x ELSE Exchanged(F5(2 * n), n)
           f == [n \in 1 .. T |-> F5(n)]
           stage == CHOOSE g : g = Body(g)
<1>1. T \in Nat \ {0} /\ T <= 32
  BY DEF ShuffleSizes
<1>2. \A n \in 1 .. T : F6(n) = F5(n)
  <2> SUFFICES ASSUME NEW n \in 1 .. T PROVE F6(n) = F5(n)
    OBVIOUS
  <2>1. \A k \in Nat : k > 16 => F1(k) = x /\ F0(k) = x
    BY <1>1
  <2> HIDE DEF F0, F1
  <2>2. \A k \in Nat : k > 8 => F2(k) = F1(k)
    <3>1. \A k \in Nat : k > 8 => F1(2 * k) = F0(2 * k)
      BY <2>1
    <3> QED  BY <3>1 DEF F1
  <2> HIDE DEF F2
  <2>3. \A k \in Nat : k > 4 => F3(k) = F2(k)
    <3>1. \A k \in Nat : k > 4 => F2(2 * k) = F1(2 * k)
      BY <2>2
    <3> QED  BY <3>1 DEF F2
  <2> HIDE DEF F3
  <2>4. \A k \in Nat : k > 2 => F4(k) = F3(k)
    <3>1. \A k \in Nat : k > 2 => F3(2 * k) = F2(2 * k)
      BY <2>3
    <3> QED  BY <3>1 DEF F3
  <2> HIDE DEF F4
  <2>5. \A k \in Nat : k > 1 => F5(k) = F4(k)
    <3>1. \A k \in Nat : k > 1 => F4(2 * k) = F3(2 * k)
      BY <2>4
    <3> QED  BY <3>1 DEF F4
  <2> HIDE DEF F5
  <2>6. F5(2 * n) = F4(2 * n)
    BY <1>1, <2>5
  <2> QED  BY <2>6 DEF F5
<1>3. f = Body(f)
  <2> HIDE DEF F4
  <2>1. ASSUME NEW n \in 1 .. T
        PROVE  f[n] = (IF 2 * n > T THEN x
                       ELSE [lane \in Lanes |-> f[2 * n][lane] (+) f[2 * n][Partner(lane, n)]])
    <3>1. F5(n) = IF 2 * n > T THEN x ELSE Exchanged(F5(2 * n), n)
      BY <1>2
    <3> HIDE DEF F5
    <3>2. f[n] = F5(n) /\ (2 * n <= T => f[2 * n] = F5(2 * n))
      BY <1>1
    <3> QED  BY <1>1, <3>1, <3>2 DEF Exchanged
  <2> HIDE DEF F5
  <2> QED  BY <2>1
<1>4. stage = Body(stage)
  <2> HIDE DEF f, Body
  <2> QED  BY <1>3
<1>5. Allreduce(T, x) = stage[1]
  BY DEF Allreduce
<1> HIDE DEF stage, F0, F1, F2, F3, F4, F5, F6, f
<1>6. /\ stage[T] = x
      /\ \A n \in 1 .. T : 2 * n <= T => stage[n] = Exchanged(stage[2 * n], n)
  <2>1. ASSUME NEW n \in 1 .. T
        PROVE  stage[n] = IF 2 * n > T THEN x ELSE Exchanged(stage[2 * n], n)
    BY <1>4, Zenon DEF Exchanged
  <2> QED  BY <1>1, <2>1
<1> QED  BY <1>5, <1>6 DEF Stages

(* From T, halving reaches 1.                                              *)
LEMMA Halving ==
  ASSUME NEW T \in ShuffleSizes, NEW K, T \in K,
         \A n \in Distances : 2 * n <= T /\ 2 * n \in K => n \in K
  PROVE  1 \in K
<1>1. \A n \in Distances : 2 * n <= T => (2 * n \in K => n \in K)
  OBVIOUS
<1>2. CASE T = 2  BY <1>1, <1>2 DEF Distances
<1>3. CASE T = 4  BY <1>1, <1>3 DEF Distances
<1>4. CASE T = 8  BY <1>1, <1>4 DEF Distances
<1>5. CASE T = 16  BY <1>1, <1>5 DEF Distances
<1>6. CASE T = 32  BY <1>1, <1>6 DEF Distances
<1> QED  BY <1>2, <1>3, <1>4, <1>5, <1>6 DEF ShuffleSizes

(* A bag sum has what either bag has.                                      *)
LEMMA BagSumDomain ==
  ASSUME NEW a, NEW b PROVE DOMAIN (a (+) b) = DOMAIN a \cup DOMAIN b
  BY DEF (+)

(* Of disjoint sets it is the bag of their union.                          *)
LEMMA BagSumOfSets ==
  ASSUME NEW A, NEW B, A \cap B = {}
  PROVE  SetToBag(A) (+) SetToBag(B) = SetToBag(A \cup B)
<1>1. \A e \in A \cup B : (IF e \in A THEN 1 ELSE 0) + (IF e \in B THEN 1 ELSE 0) = 1
  OBVIOUS
<1> QED  BY <1>1 DEF (+), SetToBag

(***************************************************************************)
(* Allreduce (utils.h:112-133) meets in every lane what the lanes of its   *)
(* group hold, nothing of another group.                                   *)
(***************************************************************************)
LEMMA GroupMeets ==
  ASSUME NEW T \in ShuffleSizes, WarpSize % T = 0, NEW x, NEW lane \in Lanes
  PROVE  DOMAIN Allreduce(T, x)[lane] = UNION { DOMAIN x[l] : l \in Mates(T, lane) }
<1>0. PICK stage : Stages(T, x, stage)
  BY AllreduceStages
<1>1. /\ Allreduce(T, x) = stage[1]
      /\ stage[T] = x
      /\ \A n \in 1 .. T : 2 * n <= T => stage[n] = Exchanged(stage[2 * n], n)
  BY <1>0 DEF Stages
<1>2. T \in Nat \ {0}
  BY DEF ShuffleSizes
<1> DEFINE Met(n, a) == UNION { DOMAIN x[l] : l \in MatesAt(T, n, a) }
           Good == { n \in 1 .. T : \A a \in Lanes : DOMAIN stage[n][a] = Met(n, a) }
<1>3. T \in Good
  BY <1>1, <1>2, MatesEnds
<1>4. ASSUME NEW n \in Distances, 2 * n <= T, 2 * n \in Good
      PROVE  n \in Good
  <2>1. n \in 1 .. T
    BY <1>2, <1>4 DEF Distances
  <2>2. ASSUME NEW a \in Lanes
        PROVE  DOMAIN stage[n][a] = Met(n, a)
    <3>1. stage[n][a] = stage[2 * n][a] (+) stage[2 * n][Partner(a, n)]
      BY <1>1, <1>4, <2>1 DEF Exchanged
    <3>2. Partner(a, n) \in Lanes /\ MatesAt(T, n, a) = MatesAt(T, 2 * n, a) \cup MatesAt(T, 2 * n, Partner(a, n))
      BY <1>4, MatesDouble
    <3>3. DOMAIN stage[n][a] = DOMAIN stage[2 * n][a] \cup DOMAIN stage[2 * n][Partner(a, n)]
      BY <3>1, BagSumDomain
    <3>4. DOMAIN stage[n][a] = Met(2 * n, a) \cup Met(2 * n, Partner(a, n))
      BY <1>4, <3>2, <3>3
    <3> QED  BY <3>2, <3>4
  <2> QED  BY <2>1, <2>2
<1>5. 1 \in Good
  <2> HIDE DEF Good
  <2> QED  BY <1>3, <1>4, Halving
<1> QED  BY <1>1, <1>2, <1>5, MatesEnds

(* No two lanes of a group hold one term; the group's terms, each once.    *)
SharesOut(T, D)       == \A l, k \in Lanes : l # k /\ l \div T = k \div T => D[l] \cap D[k] = {}
SumsUp(T, x, D, lane) == Allreduce(T, x)[lane] = SetToBag(UNION { D[l] : l \in Mates(T, lane) })

(* Sums of disjoint sets of terms.                                         *)
LEMMA GroupSum ==
  ASSUME NEW T \in ShuffleSizes, WarpSize % T = 0, NEW x, NEW D, NEW lane \in Lanes,
         \A l \in Lanes : x[l] = SetToBag(D[l]),
         SharesOut(T, D)
  PROVE  SumsUp(T, x, D, lane)
<1>0. PICK stage : Stages(T, x, stage)
  BY AllreduceStages
<1>1. /\ Allreduce(T, x) = stage[1]
      /\ stage[T] = x
      /\ \A n \in 1 .. T : 2 * n <= T => stage[n] = Exchanged(stage[2 * n], n)
  BY <1>0 DEF Stages
<1>2. T \in Nat \ {0}
  BY DEF ShuffleSizes
<1> DEFINE Met(n, a) == UNION { D[l] : l \in MatesAt(T, n, a) }
           Good == { n \in 1 .. T : \A a \in Lanes : stage[n][a] = SetToBag(Met(n, a)) }
<1>3. T \in Good
  <2>1. \A a \in Lanes : MatesAt(T, T, a) = {a}
    BY <1>2, MatesEnds
  <2>2. \A a \in Lanes : Met(T, a) = D[a]
    BY <2>1
  <2> HIDE DEF Met
  <2> QED  BY <1>1, <1>2, <2>2
<1>4. ASSUME NEW n \in Distances, 2 * n <= T, 2 * n \in Good
      PROVE  n \in Good
  <2>1. n \in 1 .. T
    BY <1>2, <1>4 DEF Distances
  <2>2. ASSUME NEW a \in Lanes
        PROVE  stage[n][a] = SetToBag(Met(n, a))
    <3>1. stage[n][a] = stage[2 * n][a] (+) stage[2 * n][Partner(a, n)]
      <4>1. stage[n] = Exchanged(stage[2 * n], n)
        BY <1>1, <1>4, <2>1
      <4> QED  BY <4>1 DEF Exchanged
    <3>2. /\ Partner(a, n) \in Lanes
          /\ MatesAt(T, n, a) = MatesAt(T, 2 * n, a) \cup MatesAt(T, 2 * n, Partner(a, n))
          /\ MatesAt(T, 2 * n, a) \cap MatesAt(T, 2 * n, Partner(a, n)) = {}
      BY <1>4, MatesDouble
    <3>3. stage[n][a] = SetToBag(Met(2 * n, a)) (+) SetToBag(Met(2 * n, Partner(a, n)))
      BY <1>4, <3>1, <3>2
    <3>4. Met(2 * n, a) \cap Met(2 * n, Partner(a, n)) = {}
      <4>1. \A l \in MatesAt(T, 2 * n, a), k \in MatesAt(T, 2 * n, Partner(a, n)) :
              l \in Lanes /\ k \in Lanes /\ l # k /\ l \div T = k \div T
        <5>1. MatesAt(T, n, a) \subseteq { l \in Lanes : l \div T = a \div T }
          BY DEF MatesAt
        <5> QED  BY <3>2, <5>1
      <4> QED  BY <4>1 DEF SharesOut
    <3>5. Met(n, a) = Met(2 * n, a) \cup Met(2 * n, Partner(a, n))
      BY <3>2
    <3> HIDE DEF Met
    <3> QED  BY <3>3, <3>4, <3>5, BagSumOfSets
  <2> QED  BY <2>1, <2>2
<1>5. 1 \in Good
  <2> HIDE DEF Good
  <2> QED  BY <1>3, <1>4, Halving
<1>6. stage[1][lane] = SetToBag(Met(1, lane)) /\ MatesAt(T, 1, lane) = Mates(T, lane)
  BY <1>2, <1>5, MatesEnds
<1> QED  BY <1>1, <1>6 DEF SumsUp

(* A maximum is over what the lanes of the group have seen.                *)
LEMMA GroupMax ==
  ASSUME NEW T \in ShuffleSizes, WarpSize % T = 0, NEW x, NEW lane \in Lanes
  PROVE  AllreduceMax(T, x)[lane] = UNION { x[l] : l \in Mates(T, lane) }
<1> DEFINE y == [a \in Lanes |-> SetToBag(x[a])]
<1>1. \A l \in Mates(T, lane) : DOMAIN y[l] = x[l]
  BY DEF SetToBag, Mates
<1>2. DOMAIN Allreduce(T, y)[lane] = UNION { DOMAIN y[l] : l \in Mates(T, lane) }
  <2> HIDE DEF y
  <2> QED  BY GroupMeets
<1>3. AllreduceMax(T, x)[lane] = DOMAIN Allreduce(T, y)[lane]
  BY DEF AllreduceMax, BagToSet
<1> HIDE DEF y
<1> QED  BY <1>1, <1>2, <1>3

-----------------------------------------------------------------------------
(***************************************************************************)
(* Sums.  A sum that has each term of K once, relative to maximum m.       *)
(***************************************************************************)
Once(K, m) == SetToBag({ Term(k, m) : k \in K })

(* Its terms are those of K, and it is usable with that maximum only.      *)
LEMMA OnceIsUsable ==
  ASSUME NEW K, NEW m
  PROVE  Sources(Once(K, m)) = K /\ Usable(Once(K, m), m) /\ (Once(K, m) = EmptyBag <=> K = {})
<1>1. DOMAIN Once(K, m) = { Term(k, m) : k \in K } /\ \A e \in DOMAIN Once(K, m) : Once(K, m)[e] = 1
  BY DEF Once, SetToBag
<1>2. \A k \in K : Term(k, m).of = k /\ Term(k, m).max = m
  BY DEF Term
<1>3. Sources(Once(K, m)) = K
  BY <1>1, <1>2 DEF Sources
<1>4. Usable(Once(K, m), m)
  BY <1>1, <1>2 DEF Usable
<1>5. Once(K, m) = EmptyBag <=> K = {}
  <2>1. K = {} => Once(K, m) = EmptyBag
    BY DEF Once, EmptyBag
  <2>2. DOMAIN EmptyBag = {}
    BY DEF EmptyBag, SetToBag
  <2>3. K # {} => DOMAIN Once(K, m) # {}
    BY <1>1
  <2> QED  BY <2>1, <2>2, <2>3
<1> QED  BY <1>3, <1>4, <1>5

(* Rescaling moves all terms to the new maximum.                           *)
LEMMA RescaleOnce ==
  ASSUME NEW K, NEW a, NEW b
  PROVE  Rescale(Once(K, a), a, b) = Once(K, b)
<1> DEFINE sum == Once(K, a)
           moving == { e \in DOMAIN sum : e.max = a }
           there == { Term(m.of, b) : m \in moving }
           rest == [e \in DOMAIN sum \ moving |-> sum[e]]
           moved == [e \in there |-> sum[Term(e.of, a)]]
<1>1. DOMAIN sum = { Term(k, a) : k \in K } /\ \A e \in DOMAIN sum : sum[e] = 1
  BY DEF Once, SetToBag
<1>2. \A k \in K : Term(k, a).of = k /\ Term(k, a).max = a
  BY DEF Term
<1>3. moving = DOMAIN sum
  BY <1>1, <1>2
<1>4. there = { Term(k, b) : k \in K }
  BY <1>1, <1>2, <1>3
<1>5. \A e \in there : sum[Term(e.of, a)] = 1
  <2>1. \A k \in K : Term(k, b).of = k
    BY DEF Term
  <2> QED  BY <1>1, <1>4, <2>1
<1>6. rest = SetToBag({})
  BY <1>3 DEF SetToBag
<1>7. moved = SetToBag({ Term(k, b) : k \in K })
  BY <1>4, <1>5 DEF SetToBag
<1>8. Rescale(sum, a, b) = rest (+) moved
  BY DEF Rescale
<1> HIDE DEF rest, moved
<1>9. rest (+) moved = SetToBag({} \cup { Term(k, b) : k \in K })
  BY <1>6, <1>7, BagSumOfSets
<1> QED  BY <1>8, <1>9 DEF Once

(* New terms are added to a sum.                                           *)
LEMMA OnceSum ==
  ASSUME NEW A, NEW B, NEW m, A \cap B = {}
  PROVE  Once(A, m) (+) Once(B, m) = Once(A \cup B, m)
<1> DEFINE TA == { Term(k, m) : k \in A }  TB == { Term(k, m) : k \in B }
<1>1. \A k : Term(k, m).of = k
  BY DEF Term
<1>2. TA \cap TB = {}
  BY <1>1
<1>3. { Term(k, m) : k \in A \cup B } = TA \cup TB
  OBVIOUS
<1> HIDE DEF TA, TB
<1>4. SetToBag(TA) (+) SetToBag(TB) = SetToBag(TA \cup TB)
  BY <1>2, BagSumOfSets
<1> QED  BY <1>3, <1>4 DEF Once, TA, TB

-----------------------------------------------------------------------------
(***************************************************************************)
(* Rows.  The lanes that hold row r are the quads' lanes of one warp and   *)
(* one half of its rows; every row of the tile has a lane.                 *)
(***************************************************************************)
LEMMA SamePlace ==
  ASSUME NEW T \in Nat \ {0}, NEW l \in Int, NEW k \in Int,
         NEW a \in 0 .. T - 1, NEW b \in 0 .. T - 1, l * T + a = k * T + b
  PROVE  l = k /\ a = b
<1>1. a = b
  BY OnePlace
<1>2. (l - k) * T = 0
  BY <1>1, l * T \in Int, k * T \in Int
<1>3. CASE l > k
  <2>1. (l - k - 1) * T >= 0 /\ (l - k - 1) * T = (l - k) * T - T
    BY <1>3, l - k - 1 \in Nat
  <2> QED  BY <1>2, <2>1
<1>4. CASE l < k
  <2>1. (k - l - 1) * T >= 0 /\ (k - l - 1) * T = - ((l - k) * T) - T
    BY <1>4, k - l - 1 \in Nat
  <2> QED  BY <1>2, <2>1
<1> QED  BY <1>1, <1>3, <1>4

(* A slot's row, by warp half and place in the half.                       *)
LEMMA RowNumber ==
  ASSUME NEW x \in Slots
  PROVE  /\ x[1] \in Nat /\ x[1] < kNWarps /\ x[2] \in Lanes /\ x[3] \in {0, 1}
         /\ x[2] \in Nat /\ x[2] \div QuadSize \in 0 .. LaneRows - 1
         /\ RowOf(x) = (2 * x[1] + x[3]) * LaneRows + (x[2] \div QuadSize)
<1>1. x[1] \in Nat /\ x[1] < kNWarps /\ x[2] \in Lanes /\ x[3] \in {0, 1} /\ x[2] \in Nat
  BY TileOfWarps DEF Slots, Warps, Lanes
<1>2. x[2] \div QuadSize \in 0 .. LaneRows - 1 /\ LaneRows \in Nat \ {0}
  BY <1>1, LanePosition
<1>3. x[1] * (2 * LaneRows) + x[3] * LaneRows = (2 * x[1] + x[3]) * LaneRows
  BY <1>1, <1>2
<1>4. RowOf(x) = x[1] * (2 * LaneRows) + x[3] * LaneRows + (x[2] \div QuadSize)
  BY DEF RowOf, AccRow, AtomRows
<1> QED  BY <1>1, <1>2, <1>3, <1>4

(* The slots of a row are the mates of one of its lanes.                   *)
LEMMA QuadIs ==
  ASSUME NEW x \in Slots
  PROVE  Quad(RowOf(x)) = { <<x[1], l, x[3]>> : l \in Mates(QuadSize, x[2]) }
<1>1. ASSUME NEW y \in Slots, RowOf(y) = RowOf(x)
      PROVE  y[1] = x[1] /\ y[3] = x[3] /\ y[2] \div QuadSize = x[2] \div QuadSize
  <2>1. LaneRows \in Nat \ {0} /\ 2 * x[1] + x[3] \in Int /\ 2 * y[1] + y[3] \in Int
    BY TileOfWarps, RowNumber
  <2>2. 2 * y[1] + y[3] = 2 * x[1] + x[3] /\ y[2] \div QuadSize = x[2] \div QuadSize
    BY <1>1, <2>1, RowNumber, SamePlace
  <2> QED  BY <2>2, RowNumber
<1>2. ASSUME NEW l \in Mates(QuadSize, x[2])
      PROVE  <<x[1], l, x[3]>> \in Slots /\ RowOf(<<x[1], l, x[3]>>) = RowOf(x)
  BY <1>2, RowNumber DEF Mates, Slots, RowOf, AccRow
<1>3. \A y \in Slots : y = <<y[1], y[2], y[3]>> /\ y[2] \in Lanes
  BY DEF Slots
<1>4. Quad(RowOf(x)) \subseteq { <<x[1], l, x[3]>> : l \in Mates(QuadSize, x[2]) }
  BY <1>1, <1>3 DEF Quad, Mates
<1>5. { <<x[1], l, x[3]>> : l \in Mates(QuadSize, x[2]) } \subseteq Quad(RowOf(x))
  BY <1>2 DEF Quad
<1> QED  BY <1>4, <1>5

(* Every row has a slot for each place in the quad.                        *)
LEMMA RowsHaveLanes ==
  /\ \A x \in Slots : RowOf(x) \in Rows
  /\ \A r \in Rows, j \in 0 .. QuadSize - 1 : \E x \in Quad(r) : x[2] % QuadSize = j
<1>0. /\ LaneRows \in Nat \ {0} /\ kNWarps \in Nat \ {0} /\ QuadSize \in Nat \ {0}
      /\ kBlockM = (2 * kNWarps) * LaneRows /\ kBlockM \in Nat
  <2>1. LaneRows \in Nat \ {0} /\ kNWarps \in Nat \ {0} /\ QuadSize \in Nat \ {0}
    BY TileOfWarps
  <2>2. kBlockM = kNWarps * (2 * LaneRows)
    BY TileOfWarps DEF AtomRows
  <2> QED  BY <2>1, <2>2, BlocksArePositive
<1>1. ASSUME NEW x \in Slots PROVE RowOf(x) \in Rows
  <2> DEFINE h == 2 * x[1] + x[3]  q == x[2] \div QuadSize
  <2>1. h \in Nat /\ h <= 2 * kNWarps - 1 /\ q \in 0 .. LaneRows - 1 /\ RowOf(x) = h * LaneRows + q
    BY <1>0, RowNumber
  <2> HIDE DEF h, q
  <2>2. h * LaneRows \in Nat /\ (2 * kNWarps - 1 - h) * LaneRows \in Nat
    BY <1>0, <2>1
  <2>3. (2 * kNWarps - 1 - h) * LaneRows = kBlockM - LaneRows - h * LaneRows
    BY <1>0, <2>1
  <2> QED  BY <1>0, <2>1, <2>2, <2>3 DEF Rows
<1>2. ASSUME NEW r \in Rows, NEW j \in 0 .. QuadSize - 1
      PROVE  \E x \in Quad(r) : x[2] % QuadSize = j
  <2> DEFINE h == r \div LaneRows  q == r % LaneRows
             w == h \div 2  i == h % 2  lane == q * QuadSize + j
  <2>1. r \in Nat /\ r < kBlockM
    BY <1>0 DEF Rows
  <2>2. h \in Nat /\ q \in 0 .. LaneRows - 1 /\ r = LaneRows * h + q
    BY <1>0, <2>1, QuotientRemainder
  <2> HIDE DEF h, q
  <2>3. h < 2 * kNWarps
    <3>1. h * LaneRows < (2 * kNWarps) * LaneRows
      <4>1. LaneRows * h = h * LaneRows /\ LaneRows * h \in Int
        BY <1>0, <2>2
      <4> QED  BY <1>0, <2>1, <2>2, <4>1
    <3> QED  BY <1>0, <2>2, <3>1, MultiplesReflectOrder
  <2>4. w \in Nat /\ w < kNWarps /\ i \in {0, 1} /\ h = 2 * w + i
    BY <1>0, <2>2, <2>3
  <2>5. lane \in Nat /\ lane < WarpSize
    <3>1. q * QuadSize \in Nat /\ (LaneRows - 1 - q) * QuadSize \in Nat
      BY <1>0, <2>2
    <3>2. (LaneRows - 1 - q) * QuadSize = LaneRows * QuadSize - QuadSize - q * QuadSize
      BY <1>0, <2>2
    <3> QED  BY <1>0, <3>1, <3>2 DEF WarpSize
  <2>6. lane \div QuadSize = q /\ lane % QuadSize = j
    BY <1>0, <2>2, <2>5, DivUnique
  <2> HIDE DEF w, i, lane
  <2>7. <<w, lane, i>> \in Slots
    <3>1. w \in Warps
      BY <1>0, <2>4 DEF Warps
    <3>2. lane \in Lanes
      BY <1>0, <2>5 DEF Lanes, WarpSize
    <3> QED  BY <2>4, <3>1, <3>2 DEF Slots
  <2>8. RowOf(<<w, lane, i>>) = (2 * w + i) * LaneRows + q
    BY <2>6, <2>7, RowNumber
  <2>9. RowOf(<<w, lane, i>>) = r
    <3>1. LaneRows * h = h * LaneRows
      BY <1>0, <2>2
    <3> QED  BY <2>2, <2>4, <2>8, <3>1
  <2> QED  BY <2>6, <2>7, <2>9 DEF Quad
<1> QED  BY <1>1, <1>2

-----------------------------------------------------------------------------
(***************************************************************************)
(* Keys.  A lane's place among the columns of an atom tells its keys from  *)
(* those of the other lanes of its quad.                                   *)
(***************************************************************************)
LanePlace(x, k) ==
  \E q \in Int, v \in {0, 1} : k = q * AtomCols + ((x[2] % QuadSize) * 2 + v)

(* Columns of an atom, and atoms of a block.                               *)
LEMMA AtomSizes ==
  /\ AtomCols \in Nat \ {0} /\ AtomCols = 2 * QuadSize /\ kBlockN \in Nat \ {0}
  /\ kBlockN \div AtomCols \in Nat /\ kBlockN = (kBlockN \div AtomCols) * AtomCols
<1>1. QuadSize \in Nat \ {0} /\ AtomCols = 2 * QuadSize /\ kBlockN \in Nat \ {0}
  BY TileOfWarps, BlocksArePositive DEF AtomCols
<1> DEFINE d == 2 * AtomCols  p == kBlockN \div d
<1>2. d \in Nat \ {0} /\ AtomCols \in Nat \ {0} /\ kBlockN % d = 0
  BY <1>1, TileOfWarps
<1>3. p \in Nat /\ kBlockN = d * p
  <2> HIDE DEF d
  <2> QED  BY <1>1, <1>2, QuotientRemainder
<1>4. kBlockN = (2 * p) * AtomCols + 0
  <2> HIDE DEF p
  <2> QED  BY <1>1, <1>2, <1>3
<1>5. kBlockN \div AtomCols = 2 * p
  <2> HIDE DEF p
  <2> QED  BY <1>1, <1>2, <1>3, <1>4, DivUnique
<1> HIDE DEF p, d
<1> QED  BY <1>1, <1>2, <1>3, <1>4, <1>5

(* A key of the block has one atom, register and lane of the quad.         *)
LEMMA KeyPlace ==
  ASSUME NEW x \in Slots, NEW g \in Registers, NEW n \in Int
  PROVE  KeyOf(x, g, n) \in BlockKeys(n) /\ KeyOf(x, g, n) \in Int /\ LanePlace(x, KeyOf(x, g, n))
<1> DEFINE c == kBlockN \div AtomCols  j == x[2] % QuadSize  v == g[1] % 2
<1>1. /\ g[1] \in 0 .. 3 /\ g[2] \in Nat /\ g[2] <= c - 1 /\ v \in {0, 1}
      /\ c \in Nat /\ AtomCols \in Nat \ {0} /\ kBlockN = c * AtomCols
      /\ j \in 0 .. QuadSize - 1 /\ QuadSize \in Nat \ {0} /\ AtomCols = 2 * QuadSize
  <2>1. g[1] \in 0 .. 3 /\ g[2] \in 0 .. c - 1
    BY DEF Registers, Atoms
  <2>2. j \in 0 .. QuadSize - 1 /\ QuadSize \in Nat \ {0}
    BY RowNumber, LanePosition
  <2> HIDE DEF c, j
  <2> QED  BY <2>1, <2>2, AtomSizes DEF c
<1>2. KeyOf(x, g, n) = n * kBlockN + (g[2] * AtomCols + j * 2 + v)
  BY DEF KeyOf, AccCol
<1> HIDE DEF c, j, v
<1> DEFINE a == g[2] * AtomCols  b == j * 2 + v
<1>3. b \in 0 .. AtomCols - 1
  BY <1>1
<1>4. a \in Nat /\ a <= kBlockN - AtomCols
  <2>1. (c - 1 - g[2]) * AtomCols \in Nat
    BY <1>1
  <2>2. (c - 1 - g[2]) * AtomCols = c * AtomCols - AtomCols - g[2] * AtomCols
    <3> DEFINE k == g[2]
    <3>1. k \in Int
      BY <1>1
    <3> HIDE DEF k
    <3>2. (c - 1 - k) * AtomCols = c * AtomCols - AtomCols - k * AtomCols
      BY <1>1, <3>1
    <3> QED  BY <3>2 DEF k
  <2> QED  BY <1>1, <2>1, <2>2
<1>5. n * kBlockN \in Int /\ kBlockN \in Int
  BY AtomSizes
<1>6. KeyOf(x, g, n) = n * kBlockN + (a + b)
  BY <1>1, <1>2
<1>7. KeyOf(x, g, n) = (n * c + g[2]) * AtomCols + b
  <2>1. n * kBlockN = n * (c * AtomCols) /\ n * (c * AtomCols) = (n * c) * AtomCols
    BY <1>1
  <2>2. (n * c + g[2]) * AtomCols = (n * c) * AtomCols + a
    BY <1>1, n * c \in Int
  <2> HIDE DEF a, b
  <2> QED  BY <1>3, <1>4, <1>5, <1>6, <2>1, <2>2
<1>8. LanePlace(x, KeyOf(x, g, n))
  <2>1. n * c + g[2] \in Int
    BY <1>1, n * c \in Int
  <2> QED  BY <1>1, <1>7, <2>1 DEF LanePlace, j
<1>9. KeyOf(x, g, n) \in BlockKeys(n) /\ KeyOf(x, g, n) \in Int
  <2> HIDE DEF a, b
  <2> QED  BY <1>3, <1>4, <1>5, <1>6, <1>1 DEF BlockKeys
<1> QED  BY <1>8, <1>9

(* Two slots of a row never hold the same key.                             *)
LEMMA LanesDiffer ==
  ASSUME NEW x \in Slots, NEW y \in Slots, RowOf(x) = RowOf(y),
         NEW k, LanePlace(x, k), LanePlace(y, k)
  PROVE  x = y
<1>1. QuadSize \in Nat \ {0} /\ AtomCols \in Nat \ {0} /\ AtomCols = 2 * QuadSize
  BY AtomSizes, TileOfWarps
<1>2. x[2] \in Nat /\ y[2] \in Nat /\ x[2] % QuadSize \in 0 .. QuadSize - 1 /\ y[2] % QuadSize \in 0 .. QuadSize - 1
  BY RowNumber, LanePosition
<1>3. PICK p \in Int, v \in {0, 1} : k = p * AtomCols + ((x[2] % QuadSize) * 2 + v)
  BY DEF LanePlace
<1>4. PICK q \in Int, u \in {0, 1} : k = q * AtomCols + ((y[2] % QuadSize) * 2 + u)
  BY DEF LanePlace
<1>5. (x[2] % QuadSize) * 2 + v \in 0 .. AtomCols - 1 /\ (y[2] % QuadSize) * 2 + u \in 0 .. AtomCols - 1
  BY <1>1, <1>2
<1>6. (x[2] % QuadSize) * 2 + v = (y[2] % QuadSize) * 2 + u
  <2> DEFINE a == (x[2] % QuadSize) * 2 + v  b == (y[2] % QuadSize) * 2 + u
  <2>1. p * AtomCols + a = q * AtomCols + b
    BY <1>3, <1>4
  <2>2. a \in 0 .. AtomCols - 1 /\ b \in 0 .. AtomCols - 1
    BY <1>5
  <2> HIDE DEF a, b
  <2>3. a = b
    BY <1>1, <2>1, <2>2, OnePlace
  <2> QED  BY <2>3 DEF a, b
<1>7. x[2] % QuadSize = y[2] % QuadSize
  <2> DEFINE a == x[2] % QuadSize  b == y[2] % QuadSize
  <2>1. a \in Int /\ b \in Int /\ a * 2 + v = b * 2 + u
    BY <1>2, <1>6
  <2> HIDE DEF a, b
  <2>2. a = b
    BY <2>1
  <2> QED  BY <2>2 DEF a, b
<1>8. x \in Quad(RowOf(y))
  BY DEF Quad
<1>9. x[1] = y[1] /\ x[3] = y[3] /\ x[2] \div QuadSize = y[2] \div QuadSize
  <2>1. PICK l \in Mates(QuadSize, y[2]) : x = <<y[1], l, y[3]>>
    BY <1>8, QuadIs
  <2> QED  BY <2>1 DEF Mates
<1>10. x[2] = y[2]
  <2>1. x[2] = QuadSize * (x[2] \div QuadSize) + (x[2] % QuadSize)
    BY <1>1, <1>2, QuotientRemainder
  <2>2. y[2] = QuadSize * (y[2] \div QuadSize) + (y[2] % QuadSize)
    BY <1>1, <1>2, QuotientRemainder
  <2> QED  BY <1>7, <1>9, <2>1, <2>2, Zenon
<1> QED  BY <1>9, <1>10 DEF Slots

(* Keys of block n whose scores slot x holds after apply_mask.             *)
NewKeys(x, n, masking) == { KeyOf(x, g, n) : g \in Unmasked(x, n, masking) }
NewOfRow(r, n, masking) == { k \in BlockKeys(n) : Kept(tile, r, k, masking) }

(* What apply_mask leaves of a slot is what its row may keep.              *)
LEMMA UnmaskedIs ==
  ASSUME NEW x \in Slots, NEW n \in Int, NEW masking
  PROVE  Unmasked(x, n, masking) =
           { g \in Registers : RowHalf(g[1]) = x[3] /\ Kept(tile, RowOf(x), KeyOf(x, g, n), masking) }
<1> SUFFICES ASSUME NEW g \in Registers, RowHalf(g[1]) = x[3]
             PROVE  /\ MaskRow(x[1], x[2], x[3]) = RowOf(x)
                    /\ MaskCol(n, x[2], Column(g[1]), g[2]) = KeyOf(x, g, n)
  BY DEF Unmasked
<1>1. x[1] \in Warps /\ x[2] \in Lanes /\ g[1] \in 0 .. 3 /\ g[2] \in Atoms
  BY DEF Slots, Registers
<1>2. /\ MaskRow(x[1], x[2], RowHalf(g[1])) = AccRow(x[1], x[2], RowHalf(g[1]))
      /\ MaskCol(n, x[2], Column(g[1]), g[2]) = n * kBlockN + AccCol(x[2], g[1], g[2])
  BY <1>1, MaskKnowsItsScores
<1> QED  BY <1>2 DEF RowOf, KeyOf

(* The lanes of a row hold all the keys of the block the row may count.    *)
LEMMA NewKeysOfRow ==
  ASSUME NEW r \in Rows, NEW n \in Int, NEW masking
  PROVE  UNION { NewKeys(x, n, masking) : x \in Quad(r) } = NewOfRow(r, n, masking)
<1>1. \A x \in Quad(r) : x \in Slots /\ RowOf(x) = r
  BY DEF Quad
<1>2. ASSUME NEW x \in Quad(r), NEW k \in NewKeys(x, n, masking)
      PROVE  k \in NewOfRow(r, n, masking)
  BY <1>1, UnmaskedIs, KeyPlace DEF NewKeys, NewOfRow
<1>3. ASSUME NEW k \in NewOfRow(r, n, masking)
      PROVE  \E x \in Quad(r) : k \in NewKeys(x, n, masking)
  <2> DEFINE c == k - n * kBlockN  nj == c \div AtomCols  a == c % AtomCols
             j == a \div 2  u == a % 2
  <2>1. kBlockN \in Nat /\ n * kBlockN \in Int /\ AtomCols \in Nat \ {0} /\ AtomCols = 2 * QuadSize /\ QuadSize \in Nat \ {0}
    BY AtomSizes, TileOfWarps
  <2>2. c \in Nat /\ c < kBlockN /\ k = n * kBlockN + c
    BY <2>1 DEF NewOfRow, BlockKeys
  <2> HIDE DEF c
  <2>3. nj \in Nat /\ a \in 0 .. AtomCols - 1 /\ c = AtomCols * nj + a
    BY <2>1, <2>2, QuotientRemainder
  <2>4. nj \in Atoms
    <3> DEFINE m == kBlockN \div AtomCols
    <3>1. m \in Nat /\ kBlockN = m * AtomCols
      BY AtomSizes
    <3> HIDE DEF nj, a, m
    <3>2. nj * AtomCols < m * AtomCols
      <4>1. AtomCols * nj = nj * AtomCols /\ nj * AtomCols \in Int
        BY <2>1, <2>3
      <4> QED  BY <2>1, <2>2, <2>3, <3>1, <4>1
    <3>3. nj < m
      BY <2>1, <2>3, <3>1, <3>2, MultiplesReflectOrder
    <3> QED  BY <2>3, <3>1, <3>3 DEF Atoms, m
  <2> HIDE DEF nj, a
  <2>5. j \in 0 .. QuadSize - 1 /\ u \in {0, 1} /\ a = j * 2 + u
    BY <2>1, <2>3
  <2> HIDE DEF j, u
  <2>6. PICK x \in Quad(r) : x[2] % QuadSize = j
    BY <2>5, RowsHaveLanes
  <2> DEFINE v == 2 * x[3] + u
  <2>7. v \in 0 .. 3 /\ RowHalf(v) = x[3] /\ v % 2 = u
    BY <1>1, <2>5, RowNumber DEF RowHalf
  <2> HIDE DEF v
  <2>8. <<v, nj>> \in Registers
    BY <2>4, <2>7 DEF Registers
  <2>9. KeyOf(x, <<v, nj>>, n) = k
    <3>1. KeyOf(x, <<v, nj>>, n) = n * kBlockN + (nj * AtomCols + j * 2 + u)
      BY <2>6, <2>7 DEF KeyOf, AccCol
    <3>2. nj * AtomCols = AtomCols * nj /\ nj * AtomCols \in Int
      BY <2>1, <2>3
    <3> QED  BY <2>1, <2>2, <2>3, <2>5, <3>1, <3>2
  <2>10. <<v, nj>> \in Unmasked(x, n, masking)
    BY <1>1, <2>7, <2>8, <2>9, UnmaskedIs DEF NewOfRow
  <2> QED  BY <2>9, <2>10 DEF NewKeys
<1> QED  BY <1>2, <1>3

-----------------------------------------------------------------------------
(***************************************************************************)
(* Between iterations.  A slot counts some keys, a row those of its quad;  *)
(* everything a lane holds is determined by them: its maximum is over the  *)
(* row's keys, its sum has its own keys, its output accumulator has the    *)
(* row's keys, each times its own row of V.                                *)
(***************************************************************************)
KeysOf(s, x)    == Sources(rowSum[s][x])
KeysOfRow(s, r) == UNION { KeysOf(s, x) : x \in Quad(r) }
OwnTerms(r, K)  == { <<r, k, k>> : k \in K }

LanesOf(s) ==
  /\ rowMax[s] = [x \in Slots |-> KeysOfRow(s, RowOf(x))]
  /\ rowSum[s] = [x \in Slots |-> Once(KeysOf(s, x), KeysOfRow(s, RowOf(x)))]
  /\ accO[s] = [x \in Slots |-> Once(OwnTerms(RowOf(x), KeysOfRow(s, RowOf(x))), KeysOfRow(s, RowOf(x)))]
  /\ nan[s] \subseteq Slots
  /\ \A x, y \in Slots : RowOf(x) = RowOf(y) /\ x \in nan[s] => y \in nan[s]

(* Counted keys come from the blocks passed, each in its lane; none before *)
(* the first iteration.                                                    *)
CountsOf(s) ==
  /\ \A x \in Slots : \A k \in KeysOf(s, x) :
       k \in Int /\ k >= (n_block[s] + 1) * kBlockN /\ LanePlace(x, k)
  /\ pc[s] = "start" => step[s] = 0
  /\ pc[s] \in {"start", "masking"} /\ step[s] = 0 => \A x \in Slots : KeysOf(s, x) = {}

LaneTypes ==
  /\ tile \in Tiles
  /\ seqlen_q \in { tile.Q + p : p \in Padding }
  /\ pc \in [Splits -> {"start", "masking", "unmasked", "done"}]
  /\ n_block \in [Splits -> Int]
  /\ step \in [Splits -> Nat]
  /\ rowMax = [s \in Splits |-> rowMax[s]]
  /\ rowSum = [s \in Splits |-> rowSum[s]]
  /\ accO = [s \in Splits |-> accO[s]]
  /\ nan = [s \in Splits |-> nan[s]]

LaneInv == LaneTypes /\ \A s \in Splits : LanesOf(s) /\ CountsOf(s)

(* All CTAs start with empty registers.                                    *)
LEMMA LaneInvAtStart == Init => LaneInv
<1> SUFFICES ASSUME Init PROVE LaneInv
  OBVIOUS
<1>1. TileInit
  BY DEF Init
<1>2. LaneTypes
  BY <1>1 DEF TileInit, LaneTypes
<1>3. ASSUME NEW s \in Splits PROVE LanesOf(s) /\ CountsOf(s)
  <2>1. \A x \in Slots : rowMax[s][x] = {} /\ rowSum[s][x] = EmptyBag /\ accO[s][x] = EmptyBag
    BY <1>1 DEF TileInit
  <2>2. \A m : Once({}, m) = EmptyBag
    BY OnceIsUsable
  <2>3. Sources(EmptyBag) = {}
    BY DEF Sources, EmptyBag, SetToBag
  <2>4. \A x \in Slots : KeysOf(s, x) = {}
    BY <2>1, <2>3 DEF KeysOf
  <2>5. \A r : KeysOfRow(s, r) = {} /\ OwnTerms(r, KeysOfRow(s, r)) = {}
    BY <2>4 DEF KeysOfRow, Quad, OwnTerms
  <2>6. /\ rowMax[s] = [x \in Slots |-> {}] /\ rowSum[s] = [x \in Slots |-> EmptyBag]
        /\ accO[s] = [x \in Slots |-> EmptyBag] /\ nan[s] = {} /\ pc[s] = "start" /\ step[s] = 0
    BY <1>1 DEF TileInit
  <2>7. LanesOf(s)
    <3>1. rowSum[s] = [x \in Slots |-> Once(KeysOf(s, x), KeysOfRow(s, RowOf(x)))]
      BY <2>2, <2>4, <2>6
    <3>2. accO[s] = [x \in Slots |-> Once(OwnTerms(RowOf(x), KeysOfRow(s, RowOf(x))), KeysOfRow(s, RowOf(x)))]
      BY <2>2, <2>5, <2>6
    <3> QED  BY <2>5, <2>6, <3>1, <3>2 DEF LanesOf
  <2>8. CountsOf(s)
    BY <2>4, <2>6 DEF CountsOf
  <2> QED  BY <2>7, <2>8
<1> QED  BY <1>2, <1>3 DEF LaneInv

(***************************************************************************)
(* So the lanes of a quad agree, and share out the row's keys.             *)
(***************************************************************************)
LEMMA LanesAgree == LaneInv => QuadAgrees
<1> SUFFICES ASSUME LaneInv, NEW s \in Splits, NEW r \in Rows, NEW x \in Quad(r), NEW y \in Quad(r)
             PROVE  /\ rowMax[s][x] = rowMax[s][y]
                    /\ x # y => Sources(rowSum[s][x]) \cap Sources(rowSum[s][y]) = {}
                    /\ Usable(rowSum[s][x], rowMax[s][x]) /\ Usable(accO[s][x], rowMax[s][x])
                    /\ Sources(accO[s][x]) = { <<r, k, k>> : k \in UNION { Sources(rowSum[s][z]) : z \in Quad(r) } }
  BY DEF QuadAgrees
<1>1. x \in Slots /\ y \in Slots /\ RowOf(x) = r /\ RowOf(y) = r
  BY DEF Quad
<1>2. LanesOf(s) /\ CountsOf(s)
  BY DEF LaneInv
<1>3. rowMax[s][x] = KeysOfRow(s, r) /\ rowMax[s][y] = KeysOfRow(s, r)
  BY <1>1, <1>2 DEF LanesOf
<1>4. rowSum[s][x] = Once(KeysOf(s, x), KeysOfRow(s, r))
  BY <1>1, <1>2 DEF LanesOf
<1>5. accO[s][x] = Once(OwnTerms(r, KeysOfRow(s, r)), KeysOfRow(s, r))
  BY <1>1, <1>2 DEF LanesOf
<1>6. x # y => KeysOf(s, x) \cap KeysOf(s, y) = {}
  BY <1>1, <1>2, LanesDiffer DEF CountsOf
<1>7. Sources(accO[s][x]) = { <<r, k, k>> : k \in UNION { Sources(rowSum[s][z]) : z \in Quad(r) } }
  BY <1>5, OnceIsUsable DEF OwnTerms, KeysOfRow, KeysOf
<1> QED  BY <1>3, <1>4, <1>5, <1>6, <1>7, OnceIsUsable DEF KeysOf

-----------------------------------------------------------------------------
(***************************************************************************)
(* One iteration.                                                          *)
(***************************************************************************)
AfterFold(s, r, masking) == KeysOfRow(s, r) \cup NewOfRow(r, n_block[s], masking)

(* A warp is whole quads.                                                  *)
LEMMA QuadShuffles == QuadSize \in ShuffleSizes /\ WarpSize % QuadSize = 0
<1>1. QuadSize \in ShuffleSizes /\ QuadSize \in Nat \ {0} /\ LaneRows \in Nat
  BY TileOfWarps
<1>2. LaneRows * QuadSize \in Nat
  BY <1>1
<1>3. LaneRows * QuadSize = LaneRows * QuadSize + 0
  BY <1>2
<1>4. (LaneRows * QuadSize) % QuadSize = 0
  BY <1>1, <1>2, <1>3, DivUnique
<1> QED  BY <1>1, <1>4 DEF WarpSize

(* Keys of block n are not among those of the blocks passed.               *)
LEMMA NewKeysAreNew ==
  ASSUME NEW s \in Splits, LaneTypes, CountsOf(s), NEW x \in Slots, NEW k \in KeysOf(s, x)
  PROVE  k \notin BlockKeys(n_block[s])
<1>1. n_block[s] \in Int /\ kBlockN \in Nat /\ n_block[s] * kBlockN \in Int
  BY BlocksArePositive DEF LaneTypes
<1>2. k \in Int /\ k >= (n_block[s] + 1) * kBlockN
  BY DEF CountsOf
<1>3. (n_block[s] + 1) * kBlockN = n_block[s] * kBlockN + kBlockN
  BY <1>1
<1> QED  BY <1>1, <1>2, <1>3 DEF BlockKeys

(* What the iteration makes of the registers.                              *)
FoldedTo(s, masking, first, checkInf) ==
  /\ rowMax' = [rowMax EXCEPT ![s] = [x \in Slots |-> AfterFold(s, RowOf(x), masking)]]
  /\ rowSum' = [rowSum EXCEPT ![s] = [x \in Slots |->
       Once(KeysOf(s, x) \cup NewKeys(x, n_block[s], masking), AfterFold(s, RowOf(x), masking))]]
  /\ accO' = [accO EXCEPT ![s] = [x \in Slots |->
       Once(OwnTerms(RowOf(x), AfterFold(s, RowOf(x), masking)), AfterFold(s, RowOf(x), masking))]]
  /\ nan' = [nan EXCEPT ![s] = @ \cup { x \in Slots :
       S!GarbageV(n_block[s], first) \/ (~ first /\ ~ checkInf /\ AfterFold(s, RowOf(x), masking) = {}) }]

(* What the four assignments of an iteration come to.                      *)
LEMMA FoldLanes ==
  ASSUME NEW s \in Splits, LaneTypes, LanesOf(s), CountsOf(s),
         NEW masking, NEW first \in BOOLEAN, NEW checkInf,
         first => \A x \in Slots : KeysOf(s, x) = {},
         Fold(s, n_block[s], masking, first, checkInf)
  PROVE  FoldedTo(s, masking, first, checkInf)
<1> DEFINE n == n_block[s]
           kept == [x \in Slots |-> Unmasked(x, n, masking)]
           keys == [x \in Slots |-> { KeyOf(x, g, n) : g \in kept[x] }]
           seen(x) == IF first THEN keys[x] ELSE rowMax[s][x] \cup keys[x]
           agreed == [w \in Warps |-> [i \in {0, 1} |->
                        AllreduceMax(QuadSize, [lane \in Lanes |-> seen(<<w, lane, i>>)])]]
           max == [x \in Slots |-> agreed[x[1]][x[3]][x[2]]]
           Scaled(sum, x) == IF first THEN sum ELSE Rescale(sum, rowMax[s][x], max[x])
           terms == [w \in Warps |-> UNION { { LET a == Aregs(g[1], g[2]) IN
                       [at |-> OperandRow(w, x[2], a[1]),
                        term |-> Term(<<RowOf(x), KeyOf(x, g, n),
                                        n * kBlockN + OperandCol(x[2], a[1], a[2])>>, max[x])] :
                       g \in kept[x] } : x \in {w} \X Lanes \X {0, 1} }]
           placed(x) == { e.term : e \in { e \in terms[x[1]] : e.at = RowOf(x) } }
           After(x) == AfterFold(s, RowOf(x), masking)
<1>1. /\ rowMax' = [rowMax EXCEPT ![s] = max]
      /\ rowSum' = [rowSum EXCEPT ![s] = [x \in Slots |->
           Scaled(rowSum[s][x], x) (+) SetToBag({ Term(k, max[x]) : k \in keys[x] })]]
      /\ accO' = [accO EXCEPT ![s] = [x \in Slots |-> Scaled(accO[s][x], x) (+) SetToBag(placed(x))]]
      /\ nan' = [nan EXCEPT ![s] = @ \cup
           { x \in Slots : S!GarbageV(n, first) \/ (~ first /\ ~ checkInf /\ max[x] = {}) }]
  BY DEF Fold
<1>2. n \in Int
  BY DEF LaneTypes
<1>3. \A x \in Slots : keys[x] = NewKeys(x, n, masking)
  BY DEF NewKeys
<1>4. \A x \in Slots : RowOf(x) \in Rows /\ x \in Quad(RowOf(x))
  BY RowsHaveLanes DEF Quad
<1>5. ASSUME NEW x \in Slots PROVE max[x] = After(x)
  <2>1. x[1] \in Warps /\ x[2] \in Lanes /\ x[3] \in {0, 1}
    BY DEF Slots
  <2> DEFINE f == [lane \in Lanes |-> seen(<<x[1], lane, x[3]>>)]
  <2>2. max[x] = AllreduceMax(QuadSize, f)[x[2]]
    BY <2>1
  <2>3. AllreduceMax(QuadSize, f)[x[2]] = UNION { f[l] : l \in Mates(QuadSize, x[2]) }
    <3> HIDE DEF f
    <3> QED  BY <2>1, QuadShuffles, GroupMax
  <2> HIDE DEF max
  <2>4. \A l \in Mates(QuadSize, x[2]) : f[l] = seen(<<x[1], l, x[3]>>)
    BY DEF Mates
  <2> HIDE DEF f, seen
  <2>5. UNION { f[l] : l \in Mates(QuadSize, x[2]) } = UNION { seen(z) : z \in Quad(RowOf(x)) }
    <3>1. \A l \in Mates(QuadSize, x[2]) : \E z \in Quad(RowOf(x)) : f[l] = seen(z)
      BY <2>4, QuadIs
    <3>2. \A z \in Quad(RowOf(x)) : \E l \in Mates(QuadSize, x[2]) : f[l] = seen(z)
      <4> SUFFICES ASSUME NEW z \in Quad(RowOf(x))
                   PROVE  \E l \in Mates(QuadSize, x[2]) : f[l] = seen(z)
        OBVIOUS
      <4>1. PICK l \in Mates(QuadSize, x[2]) : z = <<x[1], l, x[3]>>
        BY QuadIs
      <4> QED  BY <2>4, <4>1
    <3> QED  BY <3>1, <3>2
  <2>6. ASSUME NEW z \in Quad(RowOf(x))
        PROVE  seen(z) = KeysOfRow(s, RowOf(x)) \cup NewKeys(z, n, masking)
    <3>1. z \in Slots /\ RowOf(z) = RowOf(x)
      BY DEF Quad
    <3>2. rowMax[s][z] = KeysOfRow(s, RowOf(x))
      BY <3>1 DEF LanesOf
    <3>3. first => KeysOfRow(s, RowOf(x)) = {}
      BY DEF KeysOfRow, Quad
    <3>4. keys[z] = NewKeys(z, n, masking)
      BY <1>3, <3>1
    <3> HIDE DEF keys
    <3> QED  BY <3>2, <3>3, <3>4 DEF seen
  <2>7. UNION { seen(z) : z \in Quad(RowOf(x)) } = KeysOfRow(s, RowOf(x)) \cup UNION { NewKeys(z, n, masking) : z \in Quad(RowOf(x)) }
    BY <1>4, <2>6
  <2> QED  BY <1>2, <1>4, <2>2, <2>3, <2>5, <2>7, NewKeysOfRow DEF AfterFold
<1> HIDE DEF max, agreed, seen
<1>6. ASSUME NEW x \in Slots PROVE KeysOf(s, x) \cap keys[x] = {}
  <2>1. keys[x] \subseteq BlockKeys(n)
    BY <1>2, <1>3, KeyPlace DEF NewKeys, Unmasked
  <2> HIDE DEF keys
  <2> QED  BY <2>1, NewKeysAreNew
<1>7. ASSUME NEW x \in Slots
      PROVE  Scaled(rowSum[s][x], x) (+) SetToBag({ Term(k, max[x]) : k \in keys[x] })
               = Once(KeysOf(s, x) \cup NewKeys(x, n, masking), After(x))
  <2>1. rowSum[s][x] = Once(KeysOf(s, x), KeysOfRow(s, RowOf(x))) /\ rowMax[s][x] = KeysOfRow(s, RowOf(x))
    BY DEF LanesOf
  <2>2. Scaled(rowSum[s][x], x) = Once(KeysOf(s, x), max[x])
    <3>1. CASE first
      BY <2>1, <3>1, OnceIsUsable
    <3>2. CASE ~ first
      BY <2>1, <3>2, RescaleOnce
    <3> QED  BY <3>1, <3>2
  <2>3. SetToBag({ Term(k, max[x]) : k \in keys[x] }) = Once(keys[x], max[x])
    BY DEF Once
  <2> HIDE DEF keys, Scaled
  <2>4. Once(KeysOf(s, x), max[x]) (+) Once(keys[x], max[x]) = Once(KeysOf(s, x) \cup keys[x], max[x])
    BY <1>6, OnceSum
  <2> QED  BY <1>3, <1>5, <2>2, <2>3, <2>4
<1>8. ASSUME NEW z \in Slots, NEW g \in kept[z]
      PROVE  LET a == Aregs(g[1], g[2])
             IN  /\ OperandRow(z[1], z[2], a[1]) = RowOf(z)
                 /\ n * kBlockN + OperandCol(z[2], a[1], a[2]) = KeyOf(z, g, n)
  <2>1. g[1] \in 0 .. 3 /\ g[2] \in Atoms /\ RowHalf(g[1]) = z[3] /\ z[1] \in Warps /\ z[2] \in Lanes
    BY <1>8 DEF Unmasked, Registers, Slots
  <2>2. LET a == Aregs(g[1], g[2])
        IN  /\ OperandRow(z[1], z[2], a[1]) = AccRow(z[1], z[2], RowHalf(g[1]))
            /\ OperandCol(z[2], a[1], a[2]) = AccCol(z[2], g[1], g[2])
    BY <2>1, ScoresStayInPlace
  <2> QED  BY <2>1, <2>2 DEF RowOf, KeyOf
<1>9. ASSUME NEW x \in Slots
      PROVE  placed(x) = { Term(t, max[x]) : t \in OwnTerms(RowOf(x), NewOfRow(RowOf(x), n, masking)) }
  <2> DEFINE r == RowOf(x)
             own(z, g) == [at |-> RowOf(z), term |-> Term(<<RowOf(z), KeyOf(z, g, n), KeyOf(z, g, n)>>, max[z])]
  <2>1. x[1] \in Warps
    BY DEF Slots
  <2>2. \A z \in {x[1]} \X Lanes \X {0, 1} : z \in Slots /\ z[1] = x[1]
    BY <2>1 DEF Slots
  <2>3. terms[x[1]] = UNION { { own(z, g) : g \in kept[z] } : z \in {x[1]} \X Lanes \X {0, 1} }
    <3> DEFINE raw(z, g) == LET a == Aregs(g[1], g[2]) IN
                 [at |-> OperandRow(x[1], z[2], a[1]),
                  term |-> Term(<<RowOf(z), KeyOf(z, g, n), n * kBlockN + OperandCol(z[2], a[1], a[2])>>, max[z])]
    <3>1. terms[x[1]] = UNION { { raw(z, g) : g \in kept[z] } : z \in {x[1]} \X Lanes \X {0, 1} }
      BY <2>1
    <3>2. \A z \in {x[1]} \X Lanes \X {0, 1} : \A g \in kept[z] : raw(z, g) = own(z, g)
      BY <1>8, <2>2
    <3> HIDE DEF terms, raw, own, kept
    <3>3. \A z \in {x[1]} \X Lanes \X {0, 1} : { raw(z, g) : g \in kept[z] } = { own(z, g) : g \in kept[z] }
      BY <3>2
    <3> QED  BY <3>1, <3>3
  <2> HIDE DEF terms
  <2>4. \A z \in Slots : { KeyOf(z, g, n) : g \in kept[z] } = NewKeys(z, n, masking)
    BY DEF NewKeys
  <2>5. \A z \in Quad(r) : z \in {x[1]} \X Lanes \X {0, 1} /\ z \in Slots /\ RowOf(z) = r /\ max[z] = max[x]
    <3>1. \A z \in Quad(r) : z \in Slots /\ RowOf(z) = r
      BY DEF Quad
    <3>2. \A z \in Quad(r) : z \in {x[1]} \X Lanes \X {0, 1}
      BY QuadIs DEF Mates, Slots
    <3> QED  BY <1>5, <3>1, <3>2
  <2>6. \A z \in Slots : RowOf(z) = r => z \in Quad(r)
    BY DEF Quad
  <2> HIDE DEF kept, r
  <2>7. ASSUME NEW p \in placed(x)
        PROVE  \E z \in Quad(r) : \E k \in NewKeys(z, n, masking) : p = Term(<<r, k, k>>, max[x])
    <3>1. PICK e \in terms[x[1]] : e.at = r /\ p = e.term
      BY <2>7 DEF r
    <3>2. PICK z \in {x[1]} \X Lanes \X {0, 1} : \E g \in kept[z] : e = own(z, g)
      BY <2>3, <3>1
    <3>3. PICK g \in kept[z] : e = own(z, g)
      BY <3>2
    <3>4. z \in Slots /\ RowOf(z) = r
      BY <2>2, <3>1, <3>3
    <3>5. KeyOf(z, g, n) \in NewKeys(z, n, masking)
      BY <2>4, <3>4
    <3>6. p = Term(<<r, KeyOf(z, g, n), KeyOf(z, g, n)>>, max[x])
      BY <2>5, <2>6, <3>1, <3>3, <3>4
    <3> QED  BY <2>6, <3>4, <3>5, <3>6
  <2>8. ASSUME NEW z \in Quad(r), NEW k \in NewKeys(z, n, masking)
        PROVE  Term(<<r, k, k>>, max[x]) \in placed(x)
    <3>1. PICK g \in kept[z] : k = KeyOf(z, g, n)
      BY <2>4, <2>5
    <3>2. own(z, g) \in terms[x[1]]
      BY <2>3, <2>5, <3>1
    <3>3. own(z, g).at = r /\ own(z, g).term = Term(<<r, k, k>>, max[x])
      BY <2>5, <3>1
    <3> HIDE DEF own
    <3> QED  BY <3>2, <3>3 DEF r
  <2>9. NewOfRow(r, n, masking) = UNION { NewKeys(z, n, masking) : z \in Quad(r) }
    BY <1>2, <1>4, NewKeysOfRow DEF r
  <2> HIDE DEF placed
  <2>10. placed(x) = { Term(t, max[x]) : t \in OwnTerms(r, NewOfRow(r, n, masking)) }
    <3> DEFINE t(k) == <<r, k, k>>
               N == NewOfRow(r, n, masking)
    <3>1. { Term(y, max[x]) : y \in OwnTerms(r, N) } = { Term(t(k), max[x]) : k \in N }
      BY DEF OwnTerms
    <3>2. \A p \in placed(x) : \E k \in N : p = Term(t(k), max[x])
      BY <2>7, <2>9
    <3>3. \A k \in N : Term(t(k), max[x]) \in placed(x)
      BY <2>8, <2>9
    <3> HIDE DEF t, N
    <3>4. placed(x) = { Term(t(k), max[x]) : k \in N }
      BY <3>2, <3>3
    <3> QED  BY <3>1, <3>4 DEF N
  <2> QED  BY <2>10 DEF r
<1>10. ASSUME NEW x \in Slots
       PROVE  Scaled(accO[s][x], x) (+) SetToBag(placed(x)) = Once(OwnTerms(RowOf(x), After(x)), After(x))
  <2> DEFINE r == RowOf(x)
             old == OwnTerms(r, KeysOfRow(s, r))
             new == OwnTerms(r, NewOfRow(r, n, masking))
  <2>1. accO[s][x] = Once(old, KeysOfRow(s, r)) /\ rowMax[s][x] = KeysOfRow(s, r)
    BY DEF LanesOf
  <2>2. first => old = {}
    BY DEF KeysOfRow, Quad, OwnTerms
  <2>3. SetToBag(placed(x)) = Once(new, max[x])
    <3> HIDE DEF placed
    <3> QED  BY <1>9 DEF Once
  <2>4. \A k \in KeysOfRow(s, r) : k \notin NewOfRow(r, n, masking)
    BY NewKeysAreNew DEF KeysOfRow, NewOfRow, Quad
  <2>5. old \cap new = {}
    BY <2>4 DEF OwnTerms
  <2>6. OwnTerms(r, After(x)) = old \cup new
    BY DEF OwnTerms, AfterFold
  <2> HIDE DEF old, new, placed
  <2>7. Scaled(accO[s][x], x) = Once(old, max[x])
    <3>1. CASE first
      BY <2>1, <2>2, <3>1, OnceIsUsable
    <3>2. CASE ~ first
      BY <2>1, <3>2, RescaleOnce
    <3> QED  BY <3>1, <3>2
  <2>8. Once(old, max[x]) (+) Once(new, max[x]) = Once(old \cup new, max[x])
    BY <2>5, OnceSum
  <2> HIDE DEF Scaled
  <2> QED  BY <1>5, <2>3, <2>6, <2>7, <2>8
<1>11. max = [x \in Slots |-> After(x)]
  BY <1>5 DEF max
<1>12. [x \in Slots |-> Scaled(rowSum[s][x], x) (+) SetToBag({ Term(k, max[x]) : k \in keys[x] })]
         = [x \in Slots |-> Once(KeysOf(s, x) \cup NewKeys(x, n, masking), After(x))]
  <2> HIDE DEF Scaled, keys, After
  <2> QED  BY <1>7
<1>13. [x \in Slots |-> Scaled(accO[s][x], x) (+) SetToBag(placed(x))]
         = [x \in Slots |-> Once(OwnTerms(RowOf(x), After(x)), After(x))]
  <2> HIDE DEF Scaled, placed, After
  <2> QED  BY <1>10
<1>14. { x \in Slots : S!GarbageV(n, first) \/ (~ first /\ ~ checkInf /\ max[x] = {}) }
         = { x \in Slots : S!GarbageV(n, first) \/ (~ first /\ ~ checkInf /\ After(x) = {}) }
  <2> HIDE DEF After
  <2> QED  BY <1>5
<1> HIDE DEF Scaled, keys, placed, After
<1>15. /\ rowMax' = [rowMax EXCEPT ![s] = [x \in Slots |-> After(x)]]
       /\ rowSum' = [rowSum EXCEPT ![s] = [x \in Slots |-> Once(KeysOf(s, x) \cup NewKeys(x, n, masking), After(x))]]
       /\ accO' = [accO EXCEPT ![s] = [x \in Slots |-> Once(OwnTerms(RowOf(x), After(x)), After(x))]]
       /\ nan' = [nan EXCEPT ![s] = @ \cup
            { x \in Slots : S!GarbageV(n, first) \/ (~ first /\ ~ checkInf /\ After(x) = {}) }]
  BY <1>1, <1>11, <1>12, <1>13, <1>14, Zenon
<1> QED  BY <1>15 DEF After, FoldedTo

(* A CTA whose registers and counters stay, stays what it was.             *)
LEMMA LanesStay ==
  ASSUME NEW p \in Splits, LanesOf(p),
         rowMax'[p] = rowMax[p], rowSum'[p] = rowSum[p], accO'[p] = accO[p], nan'[p] = nan[p]
  PROVE  LanesOf(p)' /\ \A x \in Slots : KeysOf(p, x)' = KeysOf(p, x)
<1>1. \A x : KeysOf(p, x)' = KeysOf(p, x)
  BY DEF KeysOf
<1>2. \A r : Quad(r)' = Quad(r) /\ KeysOfRow(p, r)' = KeysOfRow(p, r)
  BY <1>1 DEF KeysOfRow, Quad
<1>3. \A x : RowOf(x)' = RowOf(x)
  BY DEF RowOf
<1> QED  BY <1>1, <1>2, <1>3 DEF LanesOf, Once, OwnTerms

(* The iteration keeps what its CTA's lanes hold in order.                 *)
LEMMA FoldKeepsLanes ==
  ASSUME NEW s \in Splits, LaneInv,
         NEW masking, NEW first \in BOOLEAN, NEW checkInf,
         first => \A x \in Slots : KeysOf(s, x) = {},
         Fold(s, n_block[s], masking, first, checkInf),
         n_block'[s] = n_block[s] - 1
  PROVE  /\ LanesOf(s)'
         /\ \A r \in Rows : KeysOfRow(s, r)' = AfterFold(s, r, masking)
         /\ \A x \in Slots : \A k \in KeysOf(s, x)' :
              k \in Int /\ k >= (n_block'[s] + 1) * kBlockN /\ LanePlace(x, k)
<1> DEFINE n == n_block[s]
<1>0. LaneTypes /\ LanesOf(s) /\ CountsOf(s)
  BY DEF LaneInv
<1>1. /\ rowMax' = [rowMax EXCEPT ![s] = [x \in Slots |-> AfterFold(s, RowOf(x), masking)]]
      /\ rowSum' = [rowSum EXCEPT ![s] = [x \in Slots |->
           Once(KeysOf(s, x) \cup NewKeys(x, n_block[s], masking), AfterFold(s, RowOf(x), masking))]]
      /\ accO' = [accO EXCEPT ![s] = [x \in Slots |->
           Once(OwnTerms(RowOf(x), AfterFold(s, RowOf(x), masking)), AfterFold(s, RowOf(x), masking))]]
      /\ nan' = [nan EXCEPT ![s] = @ \cup { x \in Slots :
           S!GarbageV(n_block[s], first) \/ (~ first /\ ~ checkInf /\ AfterFold(s, RowOf(x), masking) = {}) }]
  <2>1. FoldedTo(s, masking, first, checkInf)
    BY <1>0, FoldLanes
  <2> QED  BY <2>1 DEF FoldedTo
<1>2. n \in Int /\ kBlockN \in Nat /\ n * kBlockN \in Int /\ (n + 1) * kBlockN = n * kBlockN + kBlockN
  BY <1>0, BlocksArePositive DEF LaneTypes
<1>3. s \in DOMAIN rowMax /\ s \in DOMAIN rowSum /\ s \in DOMAIN accO /\ s \in DOMAIN nan
  BY <1>0 DEF LaneTypes
<1>4. /\ rowMax'[s] = [x \in Slots |-> AfterFold(s, RowOf(x), masking)]
      /\ rowSum'[s] = [x \in Slots |->
           Once(KeysOf(s, x) \cup NewKeys(x, n, masking), AfterFold(s, RowOf(x), masking))]
      /\ accO'[s] = [x \in Slots |->
           Once(OwnTerms(RowOf(x), AfterFold(s, RowOf(x), masking)), AfterFold(s, RowOf(x), masking))]
      /\ nan'[s] = nan[s] \cup { x \in Slots :
           S!GarbageV(n, first) \/ (~ first /\ ~ checkInf /\ AfterFold(s, RowOf(x), masking) = {}) }
  BY <1>1, <1>3, Zenon
<1>5. \A x \in Slots : KeysOf(s, x)' = KeysOf(s, x) \cup NewKeys(x, n, masking)
  BY <1>4, OnceIsUsable DEF KeysOf
<1>6. ASSUME NEW r \in Rows PROVE KeysOfRow(s, r)' = AfterFold(s, r, masking)
  <2>1. KeysOfRow(s, r)' = UNION { KeysOf(s, x)' : x \in Quad(r) }
    BY DEF KeysOfRow, Quad
  <2>2. \A x \in Quad(r) : x \in Slots
    BY DEF Quad
  <2>3. KeysOfRow(s, r)' = UNION { KeysOf(s, x) \cup NewKeys(x, n, masking) : x \in Quad(r) }
    BY <1>5, <2>1, <2>2
  <2>4. UNION { KeysOf(s, x) \cup NewKeys(x, n, masking) : x \in Quad(r) }
          = (UNION { KeysOf(s, x) : x \in Quad(r) }) \cup (UNION { NewKeys(x, n, masking) : x \in Quad(r) })
    <3> DEFINE A(x) == KeysOf(s, x)  B(x) == NewKeys(x, n, masking)
    <3> HIDE DEF A, B
    <3>1. UNION { A(x) \cup B(x) : x \in Quad(r) } = (UNION { A(x) : x \in Quad(r) }) \cup (UNION { B(x) : x \in Quad(r) })
      <4>1. \A e : e \in UNION { A(x) \cup B(x) : x \in Quad(r) } <=> \E x \in Quad(r) : e \in A(x) \/ e \in B(x)
        OBVIOUS
      <4>2. \A e : e \in UNION { A(x) : x \in Quad(r) } <=> \E x \in Quad(r) : e \in A(x)
        OBVIOUS
      <4>3. \A e : e \in UNION { B(x) : x \in Quad(r) } <=> \E x \in Quad(r) : e \in B(x)
        OBVIOUS
      <4>4. \A e : e \in UNION { A(x) \cup B(x) : x \in Quad(r) }
                     <=> e \in UNION { A(x) : x \in Quad(r) } \/ e \in UNION { B(x) : x \in Quad(r) }
        BY <4>1, <4>2, <4>3, Zenon
      <4> DEFINE U == UNION { A(x) \cup B(x) : x \in Quad(r) }
                 UA == UNION { A(x) : x \in Quad(r) }
                 UB == UNION { B(x) : x \in Quad(r) }
      <4>5. \A e : e \in U <=> e \in UA \/ e \in UB
        BY <4>4
      <4> HIDE DEF U, UA, UB
      <4>6. U = UA \cup UB
        BY <4>5
      <4> QED  BY <4>6 DEF U, UA, UB
    <3> QED  BY <3>1 DEF A, B
  <2>5. UNION { NewKeys(x, n, masking) : x \in Quad(r) } = NewOfRow(r, n, masking)
    BY <1>2, NewKeysOfRow
  <2> QED  BY <2>3, <2>4, <2>5 DEF AfterFold, KeysOfRow
<1>7. \A x \in Slots : RowOf(x)' = RowOf(x) /\ KeysOfRow(s, RowOf(x))' = AfterFold(s, RowOf(x), masking)
  BY <1>6, RowsHaveLanes DEF RowOf
<1>9. LanesOf(s)'
  <2>1. rowMax'[s] = [x \in Slots |-> KeysOfRow(s, RowOf(x))']
    BY <1>4, <1>7
  <2>2. rowSum'[s] = [x \in Slots |-> Once(KeysOf(s, x)', KeysOfRow(s, RowOf(x))')]
    BY <1>4, <1>5, <1>7
  <2>3. accO'[s] = [x \in Slots |-> Once(OwnTerms(RowOf(x), KeysOfRow(s, RowOf(x))'), KeysOfRow(s, RowOf(x))')]
    BY <1>4, <1>7
  <2>4. nan'[s] \subseteq Slots
    BY <1>0, <1>4 DEF LanesOf
  <2>5. \A x, y \in Slots : RowOf(x) = RowOf(y) /\ x \in nan'[s] => y \in nan'[s]
    BY <1>0, <1>4 DEF LanesOf
  <2> QED  BY <1>7, <2>1, <2>2, <2>3, <2>4, <2>5 DEF LanesOf
<1>10. ASSUME NEW x \in Slots, NEW k \in KeysOf(s, x)'
       PROVE  k \in Int /\ k >= (n_block'[s] + 1) * kBlockN /\ LanePlace(x, k)
  <2>1. (n_block'[s] + 1) * kBlockN = n * kBlockN
    BY <1>2
  <2>2. CASE k \in KeysOf(s, x)
    BY <1>0, <1>2, <2>1, <2>2 DEF CountsOf
  <2>3. CASE k \in NewKeys(x, n, masking)
    <3>1. PICK g \in Registers : k = KeyOf(x, g, n)
      BY <2>3 DEF NewKeys, Unmasked
    <3>2. k \in BlockKeys(n) /\ k \in Int /\ LanePlace(x, k)
      BY <1>2, <3>1, KeyPlace
    <3> QED  BY <1>2, <2>1, <3>2 DEF BlockKeys
  <2> QED  BY <1>5, <2>2, <2>3
<1> QED  BY <1>6, <1>9, <1>10

(* A step of one CTA leaves the registers of the others alone.             *)
LEMMA OtherLanesStay ==
  ASSUME LaneInv, NEW s \in Splits, tile' = tile, LaneTypes', LanesOf(s)', CountsOf(s)',
         \A p \in Splits : p # s =>
           /\ pc'[p] = pc[p] /\ n_block'[p] = n_block[p] /\ step'[p] = step[p]
           /\ rowMax'[p] = rowMax[p] /\ rowSum'[p] = rowSum[p] /\ accO'[p] = accO[p]
           /\ nan'[p] = nan[p]
  PROVE  LaneInv'
<1>1. Splits' = Splits
  BY DEF Splits
<1>2. ASSUME NEW p \in Splits, p # s PROVE LanesOf(p)' /\ CountsOf(p)'
  <2>1. LanesOf(p) /\ CountsOf(p)
    BY DEF LaneInv
  <2>2. LanesOf(p)' /\ \A x \in Slots : KeysOf(p, x)' = KeysOf(p, x)
    BY <1>2, <2>1, LanesStay
  <2>3. pc'[p] = pc[p] /\ n_block'[p] = n_block[p] /\ step'[p] = step[p]
    BY <1>2
  <2>4. CountsOf(p)'
    BY <2>1, <2>2, <2>3 DEF CountsOf, LanePlace
  <2> QED  BY <2>2, <2>4
<1> QED  BY <1>1, <1>2 DEF LaneInv

(* Every step of a CTA keeps the lane invariant.                           *)
LEMMA CtaKeepsLanes ==
  ASSUME LaneInv, NEW s \in Splits, CtaStep(s)
  PROVE  LaneInv'
<1>0. LaneTypes /\ LanesOf(s) /\ CountsOf(s)
  BY DEF LaneInv
<1>1. \A from, to : Jump(s, from, to) =>
        /\ pc[s] = from /\ pc' = [pc EXCEPT ![s] = to] /\ tile' = tile /\ seqlen_q' = seqlen_q
  BY DEF Jump
<1>2. /\ pc \in [Splits -> {"start", "masking", "unmasked", "done"}]
      /\ n_block \in [Splits -> Int] /\ step \in [Splits -> Nat]
      /\ tile \in ValidTiles
  BY <1>0, TilesAreValid DEF LaneTypes
<1>3. BlockMax(tile, s) \in Int
  <2>1. s \in Nat
    BY <1>2 DEF Splits, ValidTiles
  <2> QED  BY <1>2, <2>1, GeometryTypes
<1>4. ASSUME NEW from, NEW to, from \in {"start", "unmasked"}, to \in {"masking", "done"},
             to = "masking" => from = "start",
             Jump(s, from, to), UNCHANGED <<step, rowMax, rowSum, accO, nan>>,
             n_block' = n_block \/ (from = "start" /\ n_block' = [n_block EXCEPT ![s] = BlockMax(tile, s) - 1])
      PROVE  LaneInv'
  <2>1. pc[s] = from /\ pc' = [pc EXCEPT ![s] = to] /\ tile' = tile /\ seqlen_q' = seqlen_q
    BY <1>1, <1>4
  <2>2. Splits' = Splits /\ n_block' \in [Splits -> Int]
    BY <1>2, <1>3, <1>4, <2>1 DEF Splits
  <2>3. LaneTypes'
    BY <1>0, <1>2, <1>4, <2>1, <2>2 DEF LaneTypes
  <2>4. LanesOf(s)' /\ \A x \in Slots : KeysOf(s, x)' = KeysOf(s, x)
    BY <1>0, <1>4, LanesStay
  <2>5. pc'[s] = to /\ step'[s] = step[s]
    BY <1>2, <1>4, <2>1
  <2>6. CountsOf(s)'
    <3>1. CASE from = "start"
      <4>1. \A x \in Slots : KeysOf(s, x) = {}
        BY <1>0, <2>1, <3>1 DEF CountsOf
      <4> QED  BY <1>4, <2>4, <2>5, <4>1 DEF CountsOf
    <3>2. CASE from = "unmasked"
      <4>1. n_block' = n_block /\ to = "done"
        BY <1>4, <3>2
      <4> QED  BY <1>0, <2>4, <2>5, <4>1 DEF CountsOf, LanePlace
    <3> QED  BY <1>4, <3>1, <3>2
  <2>7. \A p \in Splits : p # s => pc'[p] = pc[p] /\ n_block'[p] = n_block[p]
    BY <1>2, <1>4, <2>1
  <2> QED  BY <1>4, <2>1, <2>3, <2>4, <2>6, <2>7, OtherLanesStay
<1>5. ASSUME NEW masking, NEW first \in BOOLEAN, NEW checkInf, NEW from, NEW to,
             from \in {"masking", "unmasked"}, to \in {"masking", "unmasked"},
             Jump(s, from, to), Fold(s, n_block[s], masking, first, checkInf),
             first => from = "masking" /\ step[s] = 0,
             n_block' = [n_block EXCEPT ![s] = n_block[s] - 1],
             \/ from = "masking" /\ step' = [step EXCEPT ![s] = @ + 1]
             \/ to = "unmasked" /\ step' = step
      PROVE  LaneInv'
  <2>1. pc[s] = from /\ pc' = [pc EXCEPT ![s] = to] /\ tile' = tile /\ seqlen_q' = seqlen_q
    BY <1>1, <1>5
  <2>2. Splits' = Splits /\ n_block' \in [Splits -> Int] /\ step' \in [Splits -> Nat]
    BY <1>2, <1>5, <2>1 DEF Splits
  <2>3. first => \A x \in Slots : KeysOf(s, x) = {}
    BY <1>0, <1>5, <2>1 DEF CountsOf
  <2>4. n_block'[s] = n_block[s] - 1
    BY <1>2, <1>5
  <2>5. /\ LanesOf(s)'
        /\ \A x \in Slots : \A k \in KeysOf(s, x)' :
             k \in Int /\ k >= (n_block'[s] + 1) * kBlockN /\ LanePlace(x, k)
    BY <1>5, <2>3, <2>4, FoldKeepsLanes
  <2>6. pc'[s] = to /\ (to = "masking" => step'[s] # 0)
    BY <1>2, <1>5, <2>1
  <2>7. CountsOf(s)'
    BY <1>5, <2>5, <2>6 DEF CountsOf, LanePlace
  <2>8. FoldedTo(s, masking, first, checkInf)
    BY <1>0, <1>5, <2>3, FoldLanes
  <2>9. /\ rowMax' = [p \in Splits |-> rowMax'[p]] /\ rowSum' = [p \in Splits |-> rowSum'[p]]
        /\ accO' = [p \in Splits |-> accO'[p]] /\ nan' = [p \in Splits |-> nan'[p]]
        /\ \A p \in Splits : p # s => /\ rowMax'[p] = rowMax[p] /\ rowSum'[p] = rowSum[p]
                                      /\ accO'[p] = accO[p] /\ nan'[p] = nan[p]
    BY <1>0, <2>8 DEF FoldedTo, LaneTypes
  <2>10. LaneTypes'
    BY <1>0, <1>2, <1>5, <2>1, <2>2, <2>9 DEF LaneTypes
  <2>11. \A p \in Splits : p # s => pc'[p] = pc[p] /\ n_block'[p] = n_block[p] /\ step'[p] = step[p]
    BY <1>2, <1>5, <2>1
  <2> QED  BY <2>1, <2>5, <2>7, <2>9, <2>10, <2>11, OtherLanesStay
<1>6. CASE Return(s)
  BY <1>4, <1>6 DEF Return
<1>7. CASE EarlyExit(s)
  BY <1>4, <1>7 DEF EarlyExit
<1>8. CASE Prologue(s)
  BY <1>4, <1>8 DEF Prologue
<1>9. CASE MaskingIteration(s)
  <2>1. PICK to \in {"masking", "unmasked"} : Jump(s, "masking", to)
    BY <1>9 DEF MaskingIteration
  <2>2. /\ Fold(s, n_block[s], TRUE, step[s] = 0, TRUE)
        /\ n_block' = [n_block EXCEPT ![s] = n_block[s] - 1]
        /\ step' = [step EXCEPT ![s] = @ + 1]
    BY <1>9 DEF MaskingIteration
  <2> QED  BY <1>5, <2>1, <2>2
<1>10. CASE UnmaskedIteration(s)
  <2>1. /\ Jump(s, "unmasked", "unmasked")
        /\ Fold(s, n_block[s], FALSE, FALSE, tile.local)
        /\ n_block' = [n_block EXCEPT ![s] = n_block[s] - 1]
        /\ step' = step
    BY <1>10 DEF UnmaskedIteration
  <2> QED  BY <1>5, <2>1
<1>11. CASE Epilogue(s)
  BY <1>4, <1>11 DEF Epilogue
<1> QED  BY <1>6, <1>7, <1>8, <1>9, <1>10, <1>11 DEF CtaStep

(* The combine kernel does not touch them.                                 *)
LEMMA StutterKeepsLanes ==
  ASSUME LaneInv, UNCHANGED <<tile, seqlen_q, pc, n_block, step, rowMax, rowSum, accO, nan>>
  PROVE  LaneInv'
<1>1. Splits' = Splits
  BY DEF Splits
<1>2. LaneTypes'
  BY <1>1 DEF LaneInv, LaneTypes
<1>3. ASSUME NEW p \in Splits PROVE LanesOf(p)' /\ CountsOf(p)'
  <2>1. LanesOf(p) /\ CountsOf(p)
    BY DEF LaneInv
  <2>2. LanesOf(p)' /\ \A x \in Slots : KeysOf(p, x)' = KeysOf(p, x)
    BY <2>1, LanesStay
  <2> QED  BY <2>1, <2>2 DEF CountsOf, LanePlace
<1> QED  BY <1>1, <1>2, <1>3 DEF LaneInv

(* Every step keeps it.                                                    *)
LEMMA LaneInvStep == LaneInv /\ [Next]_vars => LaneInv'
<1> SUFFICES ASSUME LaneInv, [Next]_vars PROVE LaneInv'
  OBVIOUS
<1>1. ASSUME CombineStep PROVE UNCHANGED <<tile, seqlen_q, pc>>
  <2>1. \A w \in Warps : LoadLse(w) => UNCHANGED <<tile, seqlen_q, pc>>
    BY DEF LoadLse
  <2>2. \A w \in Warps : Reduce(w) => UNCHANGED <<tile, seqlen_q, pc>>
    BY DEF Reduce
  <2>3. \A w \in Warps : StoreWeights(w) => UNCHANGED <<tile, seqlen_q, pc>>
    BY DEF StoreWeights
  <2>4. \A w \in Warps : Accumulate(w) => UNCHANGED <<tile, seqlen_q, pc>>
    BY DEF Accumulate
  <2>5. \A from, to : CombineBarrier(from, to) => UNCHANGED <<tile, seqlen_q, pc>>
    BY DEF CombineBarrier
  <2>6. NextBlock => UNCHANGED <<tile, seqlen_q, pc>>
    BY DEF NextBlock
  <2> QED  BY <1>1, <2>1, <2>2, <2>3, <2>4, <2>5, <2>6 DEF CombineStep
<1>2. CASE \E s \in Splits : CtaStep(s)
  BY <1>2, CtaKeepsLanes
<1>3. CASE CombineStep /\ UNCHANGED <<n_block, step, rowMax, rowSum, accO, nan>>
  BY <1>1, <1>3, StutterKeepsLanes
<1>4. CASE UNCHANGED vars
  BY <1>4, StutterKeepsLanes DEF vars, cta
<1> QED  BY <1>2, <1>3, <1>4 DEF Next, Terminating

(***************************************************************************)
(* However many lanes share a row: between iterations they agree on its    *)
(* maximum, count no key twice, and the output accumulator has the terms   *)
(* of their sums, although the sums are only added up after the last       *)
(* iteration (softmax.h:163-165).                                          *)
(***************************************************************************)
THEOREM QuadsAgree == Spec => []QuadAgrees
<1>1. Init => LaneInv
  BY LaneInvAtStart
<1>2. LaneInv /\ [Next]_vars => LaneInv'
  BY LaneInvStep
<1>3. LaneInv => QuadAgrees
  BY LanesAgree
<1> QED  BY <1>1, <1>2, <1>3, PTL DEF Spec

-----------------------------------------------------------------------------
(***************************************************************************)
(* Threads of the combine kernel.  One warp per row of its block; loads by *)
(* rows and the transposed accesses each reach every cell of sLSE.         *)
(***************************************************************************)
LEMMA LoadsReach ==
  /\ \A k \in 0 .. kMaxSplits - 1 : k \div WarpSize \in LsePerThread
  /\ \A k \in 0 .. kMaxSplits - 1 : k \div kRowsPerLoadTranspose \in LsePerThread
<1> DEFINE C == CombineRows  W == WarpSize  T == kRowsPerLoadTranspose
           L == CeilDiv(kMaxSplits * C, kNThreads)
<1>1. /\ C \in Nat \ {0} /\ W \in Nat \ {0} /\ kNThreads = C * W /\ T \in Nat \ {0}
      /\ kMaxSplits \in Nat \ {0} /\ T = AtMost(W, kMaxSplits)
  BY CombineSizes, CombineShape DEF kRowsPerLoadTranspose
<1>2. kMaxSplits * C \in Nat /\ C * W \in Nat \ {0}
  BY <1>1
<1>3. L \in Int /\ kMaxSplits * C <= L * (C * W)
  <2> DEFINE a == kMaxSplits * C  b == C * W
  <2>1. a \in Int /\ b \in Nat \ {0} /\ L = CeilDiv(a, b)
    BY <1>1, <1>2
  <2> HIDE DEF a, b, L
  <2>2. CeilDiv(a, b) \in Int /\ a <= CeilDiv(a, b) * b
    BY <2>1, CeilDivCovers
  <2> QED  BY <2>1, <2>2 DEF a, b
<1>4. LsePerThread = 0 .. L - 1
  BY DEF LsePerThread
<1> HIDE DEF C, W, T, L
<1>5. kMaxSplits <= L * W
  <2>1. L * (C * W) = (L * W) * C /\ L * W \in Int
    BY <1>1, <1>3
  <2>2. ~ (L * W < kMaxSplits)
    <3> SUFFICES ASSUME L * W < kMaxSplits PROVE FALSE
      OBVIOUS
    <3> DEFINE a == L * W
    <3>1. a \in Int /\ a + 1 <= kMaxSplits
      BY <1>1, <2>1
    <3> HIDE DEF a
    <3>2. (a + 1) * C <= kMaxSplits * C /\ (a + 1) * C = a * C + C /\ a * C \in Int
      BY <1>1, <3>1, MultiplesOrdered
    <3> QED  BY <1>1, <1>2, <1>3, <2>1, <3>2 DEF a
  <2> QED  BY <1>1, <2>1, <2>2
<1>6. L >= 1
  <2> SUFFICES ASSUME L <= 0 PROVE FALSE
    BY <1>3
  <2>1. L * W <= 0 * W /\ 0 * W = 0
    BY <1>1, <1>3, MultiplesOrdered
  <2> QED  BY <1>1, <1>3, <1>5, <2>1
<1>7. ASSUME NEW k \in 0 .. kMaxSplits - 1 PROVE k \div W \in 0 .. L - 1
  <2>1. k \in Nat /\ k < kMaxSplits
    BY <1>1
  <2>2. k \div W \in Nat /\ (k \div W) * W <= k
    BY <1>1, <2>1, DivBounds
  <2>3. (k \div W) * W < L * W
    BY <1>1, <1>3, <1>5, <2>1, <2>2
  <2>4. k \div W < L
    BY <1>1, <1>3, <2>2, <2>3, MultiplesReflectOrder
  <2> QED  BY <1>3, <2>2, <2>4
<1>8. ASSUME NEW k \in 0 .. kMaxSplits - 1 PROVE k \div T \in 0 .. L - 1
  <2>1. CASE T = W
    BY <1>7, <2>1
  <2>2. CASE T = kMaxSplits
    <3>1. k \div T = 0
      <4>1. k \in Nat /\ k \in 0 .. T - 1 /\ k = 0 * T + k
        BY <1>1, <2>2
      <4> QED  BY <1>1, <4>1, DivUnique
    <3> QED  BY <1>3, <1>6, <3>1
  <2> QED  BY <1>1, <2>1, <2>2 DEF AtMost
<1> QED  BY <1>4, <1>7, <1>8 DEF W, T

(* A combine block has as many warps as rows.                              *)
LEMMA OneWarpPerRow ==
  /\ kNWarps = CombineRows
  /\ \A t \in AllThreads : t \in Nat /\ t \div WarpSize \in Warps /\ t \in Threads(t \div WarpSize)
  /\ \A w \in Warps : \A t \in Threads(w) : t \in AllThreads /\ t \div WarpSize = w
<1> DEFINE W == WarpSize
<1>1. /\ CombineRows \in Nat \ {0} /\ W \in Nat \ {0} /\ kNWarps \in Nat \ {0}
      /\ kNThreads = CombineRows * W /\ kNThreads = kNWarps * W
  BY CombineSizes, TileOfWarps DEF kNThreads
<1> HIDE DEF W
<1>2. kNWarps = CombineRows
  <2>1. kNWarps * W + 0 = CombineRows * W + 0 /\ 0 \in 0 .. W - 1
    BY <1>1
  <2> QED  BY <1>1, <2>1, SamePlace
<1>3. ASSUME NEW t \in AllThreads
      PROVE  t \in Nat /\ t \div W \in Warps /\ t \in Threads(t \div W)
  <2>1. t \in Nat /\ t < kNWarps * W
    BY <1>1 DEF AllThreads
  <2>2. t \div W \in Nat /\ (t \div W) * W <= t /\ t % W \in 0 .. W - 1 /\ t = W * (t \div W) + (t % W)
    BY <1>1, <2>1, DivBounds, QuotientRemainder
  <2>3. t \div W < kNWarps
    <3>1. (t \div W) * W < kNWarps * W
      BY <1>1, <2>1, <2>2
    <3> QED  BY <1>1, <2>2, <3>1, MultiplesReflectOrder
  <2>4. t \div W \in Warps
    BY <1>1, <2>2, <2>3 DEF Warps
  <2>5. t = (t \div W) * W + (t % W)
    <3>1. W * (t \div W) = (t \div W) * W
      BY <1>1, <2>2
    <3> QED  BY <2>2, <3>1
  <2>6. t % W \in Lanes
    BY <2>2 DEF Lanes, W
  <2> QED  BY <2>1, <2>4, <2>5, <2>6 DEF Threads, W
<1>4. ASSUME NEW w \in Warps, NEW t \in Threads(w)
      PROVE  t \in AllThreads /\ t \div W = w
  <2>1. t \in AllThreads
    BY ThreadsOfWarp
  <2>2. PICK lane \in Lanes : t = w * W + lane
    BY DEF Threads, W
  <2>3. lane \in 0 .. W - 1 /\ w \in Int /\ t \in Nat
    BY <1>1, <2>1 DEF Lanes, Warps, AllThreads, W
  <2> QED  BY <1>1, <2>1, <2>2, <2>3, DivUnique
<1> QED  BY <1>2, <1>3, <1>4 DEF W

(* Every cell is loaded, and read column-wise, by some thread.             *)
LEMMA CellsAreReached ==
  ASSUME NEW c \in Cells
  PROVE  /\ \E t \in AllThreads, l \in LsePerThread : LoadCell(t, l) = c
         /\ \E t \in AllThreads, l \in LsePerThread :
              TransposeCell(t, l) = c /\ t = c[2] * kRowsPerLoadTranspose + (c[1] % kRowsPerLoadTranspose)
<1> DEFINE C == CombineRows  W == WarpSize  T == kRowsPerLoadTranspose
           a == c[1]  b == c[2]
<1>1. /\ C \in Nat \ {0} /\ W \in Nat \ {0} /\ T \in Nat \ {0} /\ kNThreads = C * W
      /\ kRowsPerLoad = W /\ kMaxSplits \in Nat \ {0} /\ T <= W
  BY CombineSizes, CombineShape DEF kRowsPerLoadTranspose, AtMost
<1>2. a \in 0 .. kMaxSplits - 1 /\ a \in Nat /\ b \in 0 .. C - 1 /\ c = <<a, b>>
  BY <1>1 DEF Cells
<1>3. a \div W \in LsePerThread /\ a \div T \in LsePerThread
  BY <1>2, LoadsReach
<1> HIDE DEF C, W, T, a, b
<1>4. \E t \in AllThreads, l \in LsePerThread : LoadCell(t, l) = c
  <2> DEFINE q == a % W  t == q * C + b
  <2>1. q \in 0 .. W - 1 /\ a = W * (a \div W) + q /\ a \div W \in Nat
    BY <1>1, <1>2, QuotientRemainder
  <2> HIDE DEF q
  <2>2. q * C \in Nat /\ (W - 1 - q) * C \in Nat /\ (W - 1 - q) * C = W * C - C - q * C
    BY <1>1, <2>1
  <2>3. t \in Nat /\ t < C * W
    <3>1. C * W = W * C /\ W * C \in Nat
      BY <1>1
    <3> QED  BY <1>1, <1>2, <2>2, <3>1
  <2>4. t \div C = q /\ t % C = b
    BY <1>1, <1>2, <2>1, <2>3, DivUnique
  <2>5. t \in AllThreads
    BY <1>1, <2>3 DEF AllThreads
  <2>6. (a \div W) * W + q = a
    <3>1. (a \div W) * W = W * (a \div W)
      BY <1>1, <2>1
    <3> QED  BY <2>1, <3>1
  <2> HIDE DEF t
  <2>7. LoadCell(t, a \div W) = <<(a \div W) * W + q, b>>
    BY <1>1, <2>4 DEF LoadCell, C
  <2> QED  BY <1>2, <1>3, <2>5, <2>6, <2>7
<1>5. \E t \in AllThreads, l \in LsePerThread : TransposeCell(t, l) = c /\ t = b * T + (a % T)
  <2> DEFINE q == a % T  t == b * T + q
  <2>1. q \in 0 .. T - 1 /\ a = T * (a \div T) + q /\ a \div T \in Nat
    BY <1>1, <1>2, QuotientRemainder
  <2> HIDE DEF q
  <2>2. b * T \in Nat /\ (C - 1 - b) * T \in Nat /\ (C - 1 - b) * T = C * T - T - b * T
    BY <1>1, <1>2
  <2>3. t \in Nat /\ t < C * W
    <3>1. C * T <= C * W /\ C * T \in Nat /\ C * W \in Nat
      <4>1. T * C <= W * C
        BY <1>1, MultiplesOrdered
      <4> QED  BY <1>1, <4>1
    <3> QED  BY <1>1, <1>2, <2>1, <2>2, <3>1
  <2>4. t \div T = b /\ t % T = q
    BY <1>1, <1>2, <2>1, <2>3, DivUnique
  <2>5. t \in AllThreads
    BY <1>1, <2>3 DEF AllThreads
  <2>6. (a \div T) * T + q = a
    <3>1. (a \div T) * T = T * (a \div T)
      BY <1>1, <2>1
    <3> QED  BY <2>1, <3>1
  <2>7. t = b * T + (a % T)
    BY DEF q
  <2> HIDE DEF t
  <2>8. TransposeCell(t, a \div T) = <<(a \div T) * T + q, b>>
    BY <2>4 DEF TransposeCell, T
  <2> QED  BY <1>2, <1>3, <2>5, <2>6, <2>7, <2>8
<1> QED  BY <1>4, <1>5 DEF T, a, b

(* A cell is read column-wise in one place only.                           *)
LEMMA TransposeOnce ==
  ASSUME NEW t \in AllThreads, NEW u \in AllThreads, NEW l \in LsePerThread, NEW k \in LsePerThread,
         TransposeCell(t, l) = TransposeCell(u, k)
  PROVE  t = u /\ l = k
<1> DEFINE T == kRowsPerLoadTranspose
<1>1. t = u
  BY TransposeCellIsOwn
<1>2. T \in Nat \ {0} /\ l \in Int /\ k \in Int /\ t % T \in 0 .. T - 1
  <2>1. t \in Nat
    BY OneWarpPerRow
  <2> QED  BY <2>1, CombineSizes, LoadsPerThread, QuotientRemainder
<1>3. l * T + (t % T) = k * T + (t % T)
  BY <1>1 DEF TransposeCell
<1> HIDE DEF T
<1> QED  BY <1>1, <1>2, <1>3, SamePlace

-----------------------------------------------------------------------------
(***************************************************************************)
(* What the combine kernel holds, warp by warp.                            *)
(***************************************************************************)
(* The partial results that row r adds up, and the sum of their weights.   *)
Finite(r) == { s \in Splits : InLaunch(r) /\ lseaccum[s][r].kind = "logsum" }

SumOfRow(r) ==
  IF Finite(r) = {} THEN PosInf ELSE LogSum(UNION { lseaccum[s][r].keys : s \in Finite(r) })

(* What a cell of sLSE is loaded with, and what replaces it.               *)
LoadedValue(c) == IF c[1] \in Finite(Row(c[2])) THEN Part(c[1], Row(c[2])) ELSE Empty
WeightAt(c)    == Weight(LoadedValue(c), SumOfRow(Row(c[2])))

LoadedFor(w) ==
  \A t \in Threads(w), l \in LsePerThread :
    LoadCell(t, l) \in Cells => sLSE[LoadCell(t, l)] = LoadedValue(LoadCell(t, l))

ColumnsFor(w) ==
  \A t \in Threads(w), l \in LsePerThread :
    TransposeCell(t, l) \in Cells => sLSE[TransposeCell(t, l)] = LoadedValue(TransposeCell(t, l))

HeldValue(t, l) == IF TransposeCell(t, l) \in Cells THEN LoadedValue(TransposeCell(t, l)) ELSE Empty

ReducedFor(w) ==
  \A t \in Threads(w) :
    /\ \A l \in LsePerThread : held[t][l] = HeldValue(t, l)
    /\ t \div kRowsPerLoadTranspose < CombineRows =>
         logsum[t] = SumOfRow(Row(t \div kRowsPerLoadTranspose))

SumsFor(w) ==
  \A b \in 0 .. CombineRows - 1 :
    b * kRowsPerLoadTranspose \in Threads(w) /\ Row(b) \in LiveRows(tile) =>
      lse[Row(b)] = SumOfRow(Row(b))

WeightsFor(w) ==
  \A t \in Threads(w), l \in LsePerThread :
    TransposeCell(t, l) \in Cells /\ TransposeCell(t, l)[1] \in Splits =>
      sLSE[TransposeCell(t, l)] = WeightAt(TransposeCell(t, l))

AllWeighted ==
  /\ \A c \in Cells : c[1] \in Splits => sLSE[c] = WeightAt(c)
  /\ \A b \in 0 .. CombineRows - 1 : Row(b) \in LiveRows(tile) => lse[Row(b)] = SumOfRow(Row(b))

WarpHolds(w) ==
  /\ cpc[w] = "loaded" => LoadedFor(w)
  /\ cpc[w] \in {"reduce", "reduced"} => ColumnsFor(w)
  /\ cpc[w] = "reduced" => ReducedFor(w)
  /\ cpc[w] \in {"reduced", "weighted"} => SumsFor(w)
  /\ cpc[w] = "weighted" => WeightsFor(w)
  /\ cpc[w] \in {"accumulate", "stored"} => AllWeighted

(* It runs after the first kernel, and writes each row of the output once. *)
Ordered ==
  /\ block \in Nat
  /\ out = [r \in Rows |-> out[r]] /\ lse = [r \in Rows |-> lse[r]]
  /\ ~ Started => block = 0 /\ \A w \in Warps : cpc[w] = "load"
  /\ Split => \A r \in Rows : out[r] # Untouched =>
       r < block * CombineRows \/ \E w \in Warps : cpc[w] = "stored" /\ r = Row(w)

CombineInv == Ordered /\ \A w \in Warps : WarpHolds(w)

(* It holds before the combine kernel runs.                                *)
LEMMA CombineInvAtStart == Init => CombineInv
<1> SUFFICES ASSUME Init PROVE CombineInv
  OBVIOUS
<1>1. /\ block = 0 /\ \A w \in Warps : cpc[w] = "load"
      /\ out = [r \in Rows |-> Untouched] /\ lse = [r \in Rows |-> Untouched]
  BY DEF Init, TileInit, CombineInit
<1>2. \A r \in Rows : out[r] = Untouched
  BY <1>1
<1>3. out = [r \in Rows |-> out[r]] /\ lse = [r \in Rows |-> lse[r]]
  BY <1>1
<1>4. Ordered
  BY <1>1, <1>2, <1>3 DEF Ordered
<1>5. \A w \in Warps : WarpHolds(w)
  BY <1>1 DEF WarpHolds
<1> QED  BY <1>4, <1>5 DEF CombineInv

(* A CTA of the first kernel that is not done keeps the combine kernel out. *)
LEMMA CtaBeforeCombine ==
  ASSUME CombineInv, NEW s \in Splits, CtaStep(s)
  PROVE  CombineInv'
<1>1. ASSUME NEW from, NEW to, Jump(s, from, to), from # "done"
      PROVE  pc[s] # "done" /\ tile' = tile /\ UNCHANGED combine
  BY <1>1 DEF Jump
<1>2. /\ pc[s] # "done" /\ tile' = tile /\ UNCHANGED combine
      /\ out' = [r \in Rows |-> out'[r]] /\ lse' = [r \in Rows |-> lse'[r]]
      /\ Split => out' = out
  <2>0. out = [r \in Rows |-> out[r]] /\ lse = [r \in Rows |-> lse[r]]
    BY DEF CombineInv, Ordered
  <2>1. ASSUME NEW o, NEW l, Store(s, o, l)
        PROVE  /\ out' = [r \in Rows |-> out'[r]] /\ lse' = [r \in Rows |-> lse'[r]]
               /\ Split => out' = out
    <3> DEFINE over(f, g) == [r \in Rows |-> IF r \in LiveRows(tile) THEN g[r] ELSE f[r]]
    <3>1. CASE Split
      BY <2>0, <2>1, <3>1 DEF Store
    <3>2. CASE ~ Split
      <4>1. out' = over(out, o) /\ lse' = over(lse, l)
        BY <2>1, <3>2 DEF Store
      <4> QED  BY <3>2, <4>1
    <3> QED  BY <3>1, <3>2
  <2>2. CASE Return(s) \/ Prologue(s) \/ MaskingIteration(s) \/ UnmaskedIteration(s)
    <3>1. out' = out /\ lse' = lse
      BY <2>2 DEF Return, Prologue, MaskingIteration, UnmaskedIteration
    <3>2. pc[s] # "done" /\ tile' = tile /\ UNCHANGED combine
      BY <1>1, <2>2 DEF Return, Prologue, MaskingIteration, UnmaskedIteration
    <3> QED  BY <2>0, <3>1, <3>2
  <2>3. CASE EarlyExit(s)
    BY <1>1, <2>1, <2>3 DEF EarlyExit
  <2>4. CASE Epilogue(s)
    BY <1>1, <2>1, <2>4 DEF Epilogue
  <2> QED  BY <2>2, <2>3, <2>4 DEF CtaStep
<1>3. ~ Started
  BY <1>2 DEF Started
<1>4. block = 0 /\ \A w \in Warps : cpc[w] = "load"
  BY <1>3 DEF CombineInv, Ordered
<1>5. block' = 0 /\ \A w \in Warps : cpc'[w] = "load"
  BY <1>2, <1>4 DEF combine
<1>6. Split' = Split
  BY <1>2 DEF Split
<1>7. ASSUME Split, NEW r \in Rows PROVE out[r] = Untouched
  <2>1. CombineRows \in Nat /\ r \in Nat /\ block * CombineRows = 0
    BY <1>4, CombineSizes, BlocksArePositive DEF Rows
  <2>2. out[r] # Untouched => r < block * CombineRows \/ \E w \in Warps : cpc[w] = "stored" /\ r = Row(w)
    BY <1>7 DEF CombineInv, Ordered
  <2> QED  BY <1>4, <2>1, <2>2
<1>8. Ordered'
  BY <1>2, <1>5, <1>6, <1>7 DEF Ordered
<1>9. \A w \in Warps : WarpHolds(w)'
  BY <1>5 DEF WarpHolds
<1> QED  BY <1>8, <1>9 DEF CombineInv

(* Steps of the combine kernel do not change what its values mean.         *)
Steady == tile' = tile /\ seqlen_q' = seqlen_q /\ pc' = pc /\ lseaccum' = lseaccum /\ block' = block

(* So what a cell should hold stays.                                       *)
LEMMA MeaningsStay ==
  ASSUME Steady
  PROVE  /\ \A r : Finite(r)' = Finite(r) /\ SumOfRow(r)' = SumOfRow(r)
         /\ \A b : Row(b)' = Row(b)
         /\ \A c : LoadedValue(c)' = LoadedValue(c) /\ WeightAt(c)' = WeightAt(c)
         /\ \A t, l : HeldValue(t, l)' = HeldValue(t, l)
         /\ LiveRows(tile)' = LiveRows(tile) /\ Splits' = Splits /\ Split' = Split /\ Started' = Started
<1>1. Splits' = Splits /\ Split' = Split /\ Started' = Started /\ LiveRows(tile)' = LiveRows(tile)
  BY DEF Steady, Splits, Split, Started
<1>2. \A r : Finite(r)' = Finite(r)
  BY <1>1 DEF Finite, InLaunch, Steady
<1>3. \A r : SumOfRow(r)' = SumOfRow(r)
  BY <1>2 DEF SumOfRow, Steady
<1>4. \A b : Row(b)' = Row(b)
  BY DEF Row, Steady
<1>5. \A c : LoadedValue(c)' = LoadedValue(c)
  BY <1>2, <1>4 DEF LoadedValue
<1>6. \A c : WeightAt(c)' = WeightAt(c)
  BY <1>3, <1>4, <1>5 DEF WeightAt
<1>7. \A t, l : HeldValue(t, l)' = HeldValue(t, l)
  BY <1>5 DEF HeldValue
<1> QED  BY <1>1, <1>2, <1>3, <1>4, <1>5, <1>6, <1>7

(* So does the order in which rows are written.                            *)
LEMMA OrderStays ==
  ASSUME Ordered, Steady, Started, out' = out, lse' = [r \in Rows |-> lse'[r]],
         \A w \in Warps : cpc[w] = "stored" => cpc'[w] = "stored"
  PROVE  Ordered'
<1>1. Split' = Split /\ Started' /\ \A b : Row(b)' = Row(b)
  BY MeaningsStay
<1>2. block' = block
  BY DEF Steady
<1>3. ASSUME Split, NEW r \in Rows, out[r] # Untouched
      PROVE  r < block * CombineRows \/ \E w \in Warps : cpc'[w] = "stored" /\ r = Row(w)
  BY <1>3 DEF Ordered
<1>4. Split' => \A r \in Rows : out'[r] # Untouched =>
        r < block' * CombineRows \/ \E w \in Warps : cpc'[w] = "stored" /\ r = Row(w)'
  BY <1>1, <1>2, <1>3
<1> QED  BY <1>1, <1>2, <1>4 DEF Ordered

(* Loading fills the warp's places with finite sums or -inf.               *)
LEMMA LoadKeeps ==
  ASSUME CombineInv, RaceInv, NEW w \in Warps, LoadLse(w)
  PROVE  CombineInv'
<1> DEFINE mine == { LoadCell(t, l) : t \in Threads(w), l \in LsePerThread } \cap Cells
<1>1. Steady /\ Started /\ out' = out /\ lse' = lse
  BY DEF LoadLse, Goto, Steady
<1>2. cpc[w] = "load" /\ cpc' = [cpc EXCEPT ![w] = "loaded"]
  BY DEF LoadLse, Goto
<1>3. Loading /\ cpc \in [Warps -> Places]
  BY <1>2, PhaseOfWarp DEF RaceInv
<1>4. sLSE' = [c \in Cells |-> IF c \in mine THEN LoadedValue(c) ELSE sLSE[c]]
  <2>1. sLSE' = [c \in Cells |-> IF c \in mine
                 THEN IF /\ c[1] \in Splits /\ InLaunch(Row(c[2]))
                         /\ lseaccum[c[1]][Row(c[2])].kind = "logsum"
                      THEN Part(c[1], Row(c[2])) ELSE Empty
                 ELSE sLSE[c]]
    BY DEF LoadLse
  <2>2. \A c : LoadedValue(c) = (IF /\ c[1] \in Splits /\ InLaunch(Row(c[2]))
                                    /\ lseaccum[c[1]][Row(c[2])].kind = "logsum"
                                 THEN Part(c[1], Row(c[2])) ELSE Empty)
    BY DEF LoadedValue, Finite
  <2> HIDE DEF mine
  <2> QED  BY <2>1, <2>2
<1>5. \A c : LoadedValue(c)' = LoadedValue(c)
  BY <1>1, MeaningsStay
<1>6. Ordered'
  <2>1. lse' = [r \in Rows |-> lse'[r]] /\ Ordered
    BY <1>1 DEF CombineInv, Ordered
  <2>2. \A v \in Warps : cpc[v] = "stored" => cpc'[v] = "stored"
    BY <1>2, <1>3
  <2> QED  BY <1>1, <2>1, <2>2, OrderStays
<1>7. ASSUME NEW v \in Warps PROVE WarpHolds(v)'
  <2>1. cpc'[v] \in {"load", "loaded"}
    BY <1>2, <1>3 DEF Loading
  <2>2. ASSUME cpc'[v] = "loaded" PROVE LoadedFor(v)'
    <3> SUFFICES ASSUME NEW t \in Threads(v), NEW l \in LsePerThread, LoadCell(t, l) \in Cells
                 PROVE  sLSE'[LoadCell(t, l)] = LoadedValue(LoadCell(t, l))
      BY <1>5 DEF LoadedFor
    <3>1. CASE LoadCell(t, l) \in mine
      BY <1>4, <3>1
    <3>2. CASE LoadCell(t, l) \notin mine
      <4>1. v # w
        BY <3>2
      <4>2. cpc[v] = "loaded"
        BY <1>2, <1>3, <2>2, <4>1
      <4>3. sLSE[LoadCell(t, l)] = LoadedValue(LoadCell(t, l))
        BY <4>2 DEF CombineInv, WarpHolds, LoadedFor
      <4> QED  BY <1>4, <3>2, <4>3
    <3> QED  BY <3>1, <3>2
  <2> QED  BY <2>1, <2>2 DEF WarpHolds
<1> QED  BY <1>6, <1>7 DEF CombineInv

(* Storing replaces them by weights, in the columns' order.                *)
LEMMA StoreKeeps ==
  ASSUME CombineInv, RaceInv, NEW w \in Warps, StoreWeights(w)
  PROVE  CombineInv'
<1> DEFINE mine == { x \in Threads(w) \X LsePerThread :
                       LET c == TransposeCell(x[1], x[2]) IN c[1] \in Splits /\ c[2] < CombineRows }
           by(c) == { x \in mine : TransposeCell(x[1], x[2]) = c }
<1>1. Steady /\ Started /\ out' = out /\ lse' = lse /\ held' = held /\ logsum' = logsum
  BY DEF StoreWeights, Goto, Steady
<1>2. cpc[w] = "reduced" /\ cpc' = [cpc EXCEPT ![w] = "weighted"]
  BY DEF StoreWeights, Goto
<1>3. Weighting /\ cpc \in [Warps -> Places]
  BY <1>2, PhaseOfWarp DEF RaceInv
<1>4. ReducedFor(w) /\ SumsFor(w)
  BY <1>2 DEF CombineInv, WarpHolds
<1>5. ASSUME NEW c \in Cells, c[1] \in Splits,
             NEW t \in Threads(w), NEW l \in LsePerThread, TransposeCell(t, l) = c
      PROVE  sLSE'[c] = WeightAt(c)
  <2>1. c[2] < CombineRows
    BY CombineSizes DEF Cells
  <2>2. <<t, l>> \in by(c)
    BY <1>5, <2>1
  <2> DEFINE x == CHOOSE x \in by(c) : TRUE
  <2>3. sLSE'[c] = Weight(held[x[1]][x[2]], logsum[x[1]])
    BY <2>2 DEF StoreWeights
  <2>4. x \in by(c)
    BY <2>2
  <2>5. x[1] \in Threads(w) /\ x[2] \in LsePerThread /\ TransposeCell(x[1], x[2]) = c
    BY <2>4
  <2> HIDE DEF x
  <2>6. c[2] = x[1] \div kRowsPerLoadTranspose
    BY <2>5 DEF TransposeCell
  <2>7. held[x[1]][x[2]] = LoadedValue(c) /\ logsum[x[1]] = SumOfRow(Row(c[2]))
    BY <1>4, <2>1, <2>5, <2>6 DEF ReducedFor, HeldValue
  <2> QED  BY <2>3, <2>7 DEF WeightAt
<1>6. ASSUME NEW c \in Cells, NEW v \in Warps, v # w,
             NEW t \in Threads(v), NEW l \in LsePerThread, TransposeCell(t, l) = c
      PROVE  sLSE'[c] = sLSE[c]
  <2>1. by(c) = {}
    <3> SUFFICES ASSUME NEW x \in by(c) PROVE FALSE
      OBVIOUS
    <3>1. x[1] \in Threads(w) /\ x[2] \in LsePerThread /\ TransposeCell(x[1], x[2]) = c
      OBVIOUS
    <3>2. x[1] \in AllThreads /\ t \in AllThreads /\ x[1] \div WarpSize = w /\ t \div WarpSize = v
      BY <3>1, OneWarpPerRow
    <3>3. x[1] = t
      BY <1>6, <3>1, <3>2, TransposeCellIsOwn
    <3> QED  BY <1>6, <3>2, <3>3
  <2> QED  BY <2>1 DEF StoreWeights
<1>7. Ordered'
  <2>1. lse' = [r \in Rows |-> lse'[r]] /\ Ordered
    BY <1>1 DEF CombineInv, Ordered
  <2>2. \A v \in Warps : cpc[v] = "stored" => cpc'[v] = "stored"
    BY <1>2, <1>3
  <2> QED  BY <1>1, <2>1, <2>2, OrderStays
<1>8. /\ \A c : LoadedValue(c)' = LoadedValue(c) /\ WeightAt(c)' = WeightAt(c)
      /\ \A t, l : HeldValue(t, l)' = HeldValue(t, l)
      /\ \A b : Row(b)' = Row(b)
      /\ \A r : SumOfRow(r)' = SumOfRow(r)
      /\ LiveRows(tile)' = LiveRows(tile) /\ Splits' = Splits
  BY <1>1, MeaningsStay
<1>9. ASSUME NEW v \in Warps PROVE /\ SumsFor(v) => SumsFor(v)'
                                   /\ ReducedFor(v) => ReducedFor(v)'
  BY <1>1, <1>8 DEF SumsFor, ReducedFor
<1>10. ASSUME NEW v \in Warps, v # w PROVE /\ ColumnsFor(v) => ColumnsFor(v)'
                                           /\ WeightsFor(v) => WeightsFor(v)'
  <2>1. ASSUME NEW t \in Threads(v), NEW l \in LsePerThread, TransposeCell(t, l) \in Cells
        PROVE  sLSE'[TransposeCell(t, l)] = sLSE[TransposeCell(t, l)]
    BY <1>6, <1>10, <2>1
  <2> QED  BY <1>8, <2>1 DEF ColumnsFor, WeightsFor
<1>11. WeightsFor(w)'
  BY <1>5, <1>8 DEF WeightsFor
<1>12. ASSUME NEW v \in Warps PROVE WarpHolds(v)'
  <2>1. CASE v = w
    <3>1. cpc'[v] = "weighted"
      BY <1>2, <1>3, <2>1
    <3> QED  BY <1>4, <1>9, <1>11, <2>1, <3>1 DEF WarpHolds
  <2>2. CASE v # w
    <3>1. cpc'[v] = cpc[v] /\ cpc[v] \in {"reduce", "reduced", "weighted"} /\ WarpHolds(v)
      BY <1>2, <1>3, <2>2 DEF Weighting, CombineInv
    <3> QED  BY <1>9, <1>10, <2>2, <3>1 DEF WarpHolds
  <2> QED  BY <2>1, <2>2
<1> QED  BY <1>7, <1>12 DEF CombineInv

(* Thread t of warp w accumulates columns of one row: that of the warp.    *)
LEMMA RowOfWarp ==
  ASSUME NEW w \in Warps
  PROVE  { Row(t \div kRowsPerLoad) : t \in Threads(w) } = { Row(w) }
<1>1. \A t \in Threads(w) : t \div kRowsPerLoad = w
  BY OneWarpPerRow, CombineSizes
<1>2. Threads(w) # {}
  <2>1. 0 \in Lanes
    BY CombineSizes DEF Lanes
  <2> QED  BY <2>1 DEF Threads
<1> QED  BY <1>1, <1>2

(* Accumulating writes the row of the warp.                                *)
LEMMA AccumulateKeeps ==
  ASSUME CombineInv, RaceInv, NEW w \in Warps, Accumulate(w)
  PROVE  CombineInv'
<1>1. Steady /\ Started /\ lse' = lse /\ sLSE' = sLSE
  BY DEF Accumulate, Goto, Steady
<1>2. cpc[w] = "accumulate" /\ cpc' = [cpc EXCEPT ![w] = "stored"]
  BY DEF Accumulate, Goto
<1>3. Summing /\ cpc \in [Warps -> Places] /\ cpc'[w] = "stored"
  BY <1>2, PhaseOfWarp DEF RaceInv
<1>4. out' = [r \in Rows |-> out'[r]] /\ \A r \in Rows : out'[r] = out[r] \/ r = Row(w)
  BY RowOfWarp DEF Accumulate
<1>5. /\ \A c : WeightAt(c)' = WeightAt(c)
      /\ \A b : Row(b)' = Row(b)
      /\ \A r : SumOfRow(r)' = SumOfRow(r)
      /\ LiveRows(tile)' = LiveRows(tile) /\ Splits' = Splits /\ Split' = Split /\ Started'
  BY <1>1, MeaningsStay
<1>6. Ordered'
  <2>1. block' = block /\ Ordered
    BY <1>1 DEF Steady, CombineInv
  <2>2. ASSUME Split, NEW r \in Rows, out'[r] # Untouched
        PROVE  r < block * CombineRows \/ \E v \in Warps : cpc'[v] = "stored" /\ r = Row(v)
    <3>1. CASE r = Row(w)
      BY <1>3, <3>1
    <3>2. CASE r # Row(w)
      <4>1. out[r] # Untouched
        BY <1>4, <2>2, <3>2
      <4>2. r < block * CombineRows \/ \E v \in Warps : cpc[v] = "stored" /\ r = Row(v)
        BY <2>1, <2>2, <4>1 DEF Ordered
      <4> QED  BY <1>2, <1>3, <4>2
    <3> QED  BY <3>1, <3>2
  <2>3. lse' = [r \in Rows |-> lse'[r]] /\ block' \in Nat
    BY <1>1, <2>1 DEF Ordered
  <2> QED  BY <1>4, <1>5, <2>1, <2>2, <2>3 DEF Ordered
<1>7. ASSUME NEW v \in Warps PROVE WarpHolds(v)'
  <2>1. cpc'[v] \in {"accumulate", "stored"} /\ cpc[v] \in {"accumulate", "stored"}
    BY <1>2, <1>3 DEF Summing
  <2>2. AllWeighted
    BY <2>1 DEF CombineInv, WarpHolds
  <2>3. AllWeighted'
    BY <1>1, <1>5, <2>2 DEF AllWeighted
  <2> QED  BY <2>1, <2>3 DEF WarpHolds
<1> QED  BY <1>6, <1>7 DEF CombineInv

(* Behind the barriers each warp finds what all of them have done.         *)
LEMMA BarrierKeeps ==
  ASSUME CombineInv, CombineBarrier("loaded", "reduce") \/ CombineBarrier("weighted", "accumulate")
  PROVE  CombineInv'
<1>1. /\ Steady /\ Started /\ out' = out /\ lse' = lse /\ sLSE' = sLSE
      /\ \A v \in Warps : cpc[v] # "stored"
  BY DEF CombineBarrier, Steady
<1>2. Ordered'
  <2>1. lse' = [r \in Rows |-> lse'[r]] /\ Ordered
    BY <1>1 DEF CombineInv, Ordered
  <2> QED  BY <1>1, <2>1, OrderStays
<1>3. /\ \A c : LoadedValue(c)' = LoadedValue(c) /\ WeightAt(c)' = WeightAt(c)
      /\ \A b : Row(b)' = Row(b)
      /\ \A r : SumOfRow(r)' = SumOfRow(r)
      /\ LiveRows(tile)' = LiveRows(tile) /\ Splits' = Splits
  BY <1>1, MeaningsStay
<1>4. ASSUME CombineBarrier("loaded", "reduce"), NEW w \in Warps PROVE WarpHolds(w)'
  <2>1. cpc'[w] = "reduce" /\ \A v \in Warps : cpc[v] = "loaded"
    BY <1>4 DEF CombineBarrier
  <2>2. ASSUME NEW c \in Cells PROVE sLSE[c] = LoadedValue(c)
    <3>1. PICK t \in AllThreads, l \in LsePerThread : LoadCell(t, l) = c
      BY CellsAreReached
    <3>2. t \div WarpSize \in Warps /\ t \in Threads(t \div WarpSize)
      BY OneWarpPerRow
    <3>3. LoadedFor(t \div WarpSize)
      BY <2>1, <3>2 DEF CombineInv, WarpHolds
    <3> QED  BY <3>1, <3>2, <3>3 DEF LoadedFor
  <2>3. ColumnsFor(w)'
    BY <1>1, <1>3, <2>2 DEF ColumnsFor
  <2> QED  BY <2>1, <2>3 DEF WarpHolds
<1>5. ASSUME CombineBarrier("weighted", "accumulate"), NEW w \in Warps PROVE WarpHolds(w)'
  <2>1. cpc'[w] = "accumulate" /\ \A v \in Warps : cpc[v] = "weighted"
    BY <1>5 DEF CombineBarrier
  <2>2. ASSUME NEW c \in Cells, c[1] \in Splits PROVE sLSE[c] = WeightAt(c)
    <3>1. PICK t \in AllThreads, l \in LsePerThread : TransposeCell(t, l) = c
      BY CellsAreReached
    <3>2. t \div WarpSize \in Warps /\ t \in Threads(t \div WarpSize)
      BY OneWarpPerRow
    <3>3. WeightsFor(t \div WarpSize)
      BY <2>1, <3>2 DEF CombineInv, WarpHolds
    <3> QED  BY <2>2, <3>1, <3>2, <3>3 DEF WeightsFor
  <2>3. ASSUME NEW b \in 0 .. CombineRows - 1, Row(b) \in LiveRows(tile)
        PROVE  lse[Row(b)] = SumOfRow(Row(b))
    <3> DEFINE t == b * kRowsPerLoadTranspose
    <3>1. t \in AllThreads
      <4>1. <<0, b>> \in Cells
        BY CombineShape DEF Cells
      <4>2. PICK u \in AllThreads, l \in LsePerThread : u = b * kRowsPerLoadTranspose + (0 % kRowsPerLoadTranspose)
        BY <4>1, CellsAreReached
      <4>3. 0 % kRowsPerLoadTranspose = 0 /\ b * kRowsPerLoadTranspose \in Nat
        BY CombineSizes
      <4> QED  BY <4>2, <4>3
    <3> HIDE DEF t
    <3>2. t \div WarpSize \in Warps /\ t \in Threads(t \div WarpSize)
      BY <3>1, OneWarpPerRow
    <3>3. SumsFor(t \div WarpSize)
      BY <2>1, <3>2 DEF CombineInv, WarpHolds
    <3> QED  BY <2>3, <3>2, <3>3 DEF SumsFor, t
  <2>4. AllWeighted'
    BY <1>1, <1>3, <2>2, <2>3 DEF AllWeighted
  <2> QED  BY <2>1, <2>4 DEF WarpHolds
<1> QED  BY <1>2, <1>4, <1>5 DEF CombineInv

(* The next block starts when all rows of this one are written.            *)
LEMMA NextBlockKeeps ==
  ASSUME CombineInv, NextBlock
  PROVE  CombineInv'
<1>1. /\ tile' = tile /\ pc' = pc /\ Started /\ out' = out /\ lse' = lse /\ block' = block + 1
      /\ \A w \in Warps : cpc[w] = "stored" /\ cpc'[w] = "load"
  BY DEF NextBlock
<1>2. Started' /\ Split' = Split /\ Ordered
  BY <1>1 DEF Started, Split, Splits, CombineInv
<1>3. ASSUME Split, NEW r \in Rows, out[r] # Untouched PROVE r < (block + 1) * CombineRows
  <2>1. /\ r \in Nat /\ block \in Nat /\ CombineRows \in Nat /\ block * CombineRows \in Nat
        /\ (block + 1) * CombineRows = block * CombineRows + CombineRows
    BY <1>2, CombineSizes, BlocksArePositive DEF Rows, Ordered
  <2>2. \A w \in Warps : w \in Nat /\ w < CombineRows
    BY OneWarpPerRow, CombineSizes DEF Warps
  <2>3. r < block * CombineRows \/ \E w \in Warps : r = block * CombineRows + w
    BY <1>2, <1>3 DEF Ordered, Row
  <2> QED  BY <2>1, <2>2, <2>3
<1>4. Ordered'
  BY <1>1, <1>2, <1>3 DEF Ordered
<1>5. \A w \in Warps : WarpHolds(w)'
  BY <1>1 DEF WarpHolds
<1> QED  BY <1>4, <1>5 DEF CombineInv

-----------------------------------------------------------------------------
(***************************************************************************)
(* Columns.  A group of kRowsPerLoadTranspose lanes holds the log-sum-exps *)
(* of one row, and stays in its warp.                                      *)
(***************************************************************************)
LEMMA GroupOfThreads ==
  ASSUME NEW w \in Warps, NEW i \in Lanes, NEW u \in AllThreads
  PROVE  u \div kRowsPerLoadTranspose = (w * WarpSize + i) \div kRowsPerLoadTranspose
           <=> \E j \in Mates(kRowsPerLoadTranspose, i) : u = w * WarpSize + j
<1> DEFINE W == WarpSize  T == kRowsPerLoadTranspose  m == W \div T
<1>1. /\ W \in Nat \ {0} /\ T \in Nat \ {0} /\ W % T = 0 /\ w \in Nat
  BY CombineSizes, CombineShape DEF Warps
<1>2. /\ Lanes = 0 .. W - 1 /\ \A a \in Threads(w) : a \in AllThreads /\ a \div W = w
      /\ u \in Nat /\ u \in Threads(u \div W)
      /\ \A a \in Lanes : w * W + a \in Threads(w)
      /\ \A v : \A a \in Threads(v) : \E j \in Lanes : a = v * W + j
      /\ \A a \in AllThreads : a \in Nat
      /\ Mates(T, i) = { l \in Lanes : l \div T = i \div T }
  BY OneWarpPerRow DEF Lanes, Threads, Mates
<1> HIDE DEF W, T
<1>3. W = m * T /\ m \in Nat \ {0}
  <2>1. W = T * (W \div T) + (W % T) /\ W \div T \in Nat
    <3>1. W \in Nat
      BY <1>1
    <3> QED  BY <1>1, <3>1, QuotientRemainder, Zenon
  <2> DEFINE q == W \div T
  <2> HIDE DEF q
  <2>2. W = T * q + 0 /\ q \in Nat
    BY <1>1, <2>1 DEF q
  <2>3. T * q = q * T /\ q # 0
    BY <1>1, <2>2
  <2> QED  BY <1>1, <2>2, <2>3 DEF q
<1> HIDE DEF m
<1>4. ASSUME NEW a \in Lanes
      PROVE  (w * W + a) \div T = w * m + (a \div T) /\ a \div T \in Nat
  <2> DEFINE q == a \div T  r == a % T
  <2>1. a \in Nat /\ a = T * q + r /\ q \in Nat /\ r \in 0 .. T - 1
    <3>1. a \in Nat
      BY <1>1, <1>2
    <3> QED  BY <1>1, <3>1, QuotientRemainder, Zenon
  <2> HIDE DEF q, r
  <2>2. w * W = (w * m) * T /\ w * m \in Nat
    BY <1>1, <1>3
  <2>3. (w * m + q) * T = (w * m) * T + T * q /\ w * m + q \in Nat
    BY <1>1, <2>1, <2>2
  <2>4. w * W + a = (w * m + q) * T + r /\ w * W + a \in Nat
    <3> DEFINE x == w * W  y == (w * m) * T  z == T * q
    <3>1. x \in Nat /\ z \in Nat /\ x = y /\ (w * m + q) * T = y + z /\ a = z + r
      BY <1>1, <2>1, <2>2, <2>3
    <3> HIDE DEF x, y, z
    <3>2. x + a = y + z + r /\ x + a \in Nat
      BY <2>1, <3>1
    <3> QED  BY <3>1, <3>2 DEF x
  <2> HIDE DEF m
  <2>5. (w * W + a) \div T = w * m + q
    <3> DEFINE n == w * W + a  p == w * m + q
    <3>1. n = p * T + r /\ n \in Nat /\ p \in Int
      BY <2>1, <2>3, <2>4
    <3> HIDE DEF n, p
    <3>2. n \div T = p
      BY <1>1, <2>1, <3>1, DivUnique
    <3> QED  BY <3>2 DEF n, p
  <2> QED  BY <2>1, <2>5 DEF q
<1>5. w * m \in Nat
  BY <1>1, <1>3
<1>6. ASSUME NEW j \in Lanes, j \div T = i \div T, u = w * W + j
      PROVE  u \div T = (w * W + i) \div T
  BY <1>4, <1>6
<1>7. ASSUME u \div T = (w * W + i) \div T
      PROVE  \E j \in Lanes : j \div T = i \div T /\ u = w * W + j
  <2> DEFINE t == w * W + i
  <2>1. t \in Threads(w) /\ t \in AllThreads /\ t \in Nat /\ t \div W = w
    BY <1>2
  <2>2. u \div T = t \div T
    BY <1>7
  <2> HIDE DEF t
  <2>3. u \div W = t \div W
    <3>1. T * m = W
      BY <1>1, <1>3
    <3>2. \A a \in Nat : a \div (T * m) = (a \div T) \div m
      BY <1>1, <1>3, CoarserGroup, Zenon
    <3> QED  BY <1>2, <2>1, <2>2, <3>1, <3>2
  <2>4. PICK j \in Lanes : u = w * W + j
    BY <1>2, <2>1, <2>3
  <2>5. w * m + (j \div T) = w * m + (i \div T) /\ j \div T \in Nat /\ i \div T \in Nat
    BY <1>4, <1>7, <2>4
  <2> QED  BY <1>5, <2>4, <2>5
<1> QED  BY <1>2, <1>6, <1>7 DEF W, T

(* The finite log-sum-exps among those of thread t.                        *)
FiniteOf(t) == { HeldValue(t, l) : l \in LsePerThread } \ {Empty}

(* They are parts of the row the thread reduces.                           *)
LEMMA FiniteOfIs ==
  ASSUME NEW t, NEW x \in FiniteOf(t)
  PROVE  \E l \in LsePerThread :
           /\ TransposeCell(t, l) \in Cells
           /\ TransposeCell(t, l)[1] \in Finite(Row(t \div kRowsPerLoadTranspose))
           /\ x = Part(TransposeCell(t, l)[1], Row(t \div kRowsPerLoadTranspose))
<1>1. PICK l \in LsePerThread : x = HeldValue(t, l) /\ x # Empty
  BY DEF FiniteOf
<1>2. TransposeCell(t, l)[2] = t \div kRowsPerLoadTranspose
  BY DEF TransposeCell
<1> QED  BY <1>1, <1>2 DEF HeldValue, LoadedValue

(* No two threads of a row take the same part.                             *)
LEMMA PartsDiffer ==
  ASSUME NEW t \in AllThreads, NEW u \in AllThreads, t # u,
         t \div kRowsPerLoadTranspose = u \div kRowsPerLoadTranspose
  PROVE  FiniteOf(t) \cap FiniteOf(u) = {}
<1> SUFFICES ASSUME NEW x \in FiniteOf(t), x \in FiniteOf(u) PROVE FALSE
  OBVIOUS
<1>1. PICK l \in LsePerThread :
        x = Part(TransposeCell(t, l)[1], Row(t \div kRowsPerLoadTranspose))
  BY FiniteOfIs
<1>2. PICK k \in LsePerThread :
        x = Part(TransposeCell(u, k)[1], Row(u \div kRowsPerLoadTranspose))
  BY FiniteOfIs
<1>3. TransposeCell(t, l)[1] = TransposeCell(u, k)[1]
  <2>1. \A a, b, c, d : Part(a, b) = Part(c, d) => a = c
    <3> SUFFICES ASSUME NEW a, NEW b, NEW c, NEW d, Part(a, b) = Part(c, d) PROVE a = c
      OBVIOUS
    <3>1. Part(a, b).split = a /\ Part(c, d).split = c
      BY DEF Part
    <3> QED  BY <3>1
  <2> QED  BY <1>1, <1>2, <2>1
<1>4. TransposeCell(t, l) = TransposeCell(u, k)
  BY <1>3 DEF TransposeCell
<1> QED  BY <1>4, TransposeCellIsOwn

(* There is a place for each split and row.                                *)
LEMMA SplitsHaveCells ==
  ASSUME tile \in Tiles
  PROVE  /\ tile \in ValidTiles /\ tile.splits \in Nat \ {0}
         /\ \A s \in Splits, b \in 0 .. CombineRows - 1 : <<s, b>> \in Cells
<1>1. tile \in ValidTiles /\ tile.splits <= kMaxSplits
  BY TilesAreValid
<1>2. tile.splits \in Nat \ {0}
  BY <1>1 DEF ValidTiles
<1> QED  BY <1>1, <1>2, CombineShape DEF Splits, Cells

(* Rows of the sequence were launched; the launch may be longer.           *)
LEMMA LiveInLaunch ==
  ASSUME LaneTypes
  PROVE  LiveRows(tile) \subseteq Rows /\ \A r \in LiveRows(tile) : InLaunch(r)
<1>1. tile \in ValidTiles
  BY TilesAreValid DEF LaneTypes
<1>2. tile.m \in Nat /\ tile.Q \in Nat /\ tile.m * kBlockM \in Nat
  BY <1>1, BlocksArePositive DEF ValidTiles
<1>3. seqlen_q \in Nat /\ seqlen_q >= tile.Q
  BY <1>2, TilesAreValid DEF LaneTypes
<1> QED  BY <1>2, <1>3, BlocksArePositive DEF LiveRows, Rows, InLaunch

(* The group of a thread holds all of its row, each once.                  *)
LEMMA PartsOfGroup ==
  ASSUME tile \in Tiles, NEW w \in Warps, NEW i \in Lanes,
         NEW b \in 0 .. CombineRows - 1, b = (w * WarpSize + i) \div kRowsPerLoadTranspose
  PROVE  UNION { FiniteOf(w * WarpSize + j) : j \in Mates(kRowsPerLoadTranspose, i) }
           = { Part(s, Row(b)) : s \in Finite(Row(b)) }
<1> DEFINE T == kRowsPerLoadTranspose
           G == UNION { FiniteOf(w * WarpSize + j) : j \in Mates(T, i) }
           P == { Part(s, Row(b)) : s \in Finite(Row(b)) }
<1>1. \A j \in Lanes : w * WarpSize + j \in AllThreads
  BY ThreadsOfWarp DEF Threads
<1>2. \A j \in Mates(T, i) : j \in Lanes
  BY DEF Mates
<1>3. ASSUME NEW j \in Mates(T, i), NEW x \in FiniteOf(w * WarpSize + j) PROVE x \in P
  <2> DEFINE u == w * WarpSize + j
  <2>1. u \div T = b
    BY <1>1, <1>2, GroupOfThreads
  <2> HIDE DEF u
  <2>2. x \in FiniteOf(u)
    BY <1>3 DEF u
  <2>3. PICK l \in LsePerThread :
          /\ TransposeCell(u, l)[1] \in Finite(Row(u \div T))
          /\ x = Part(TransposeCell(u, l)[1], Row(u \div T))
    BY <2>2, FiniteOfIs
  <2> QED  BY <2>1, <2>3
<1>4. ASSUME NEW s \in Finite(Row(b)) PROVE Part(s, Row(b)) \in G
  <2>1. s \in Splits /\ <<s, b>> \in Cells
    BY SplitsHaveCells DEF Finite
  <2>2. PICK u \in AllThreads, l \in LsePerThread : TransposeCell(u, l) = <<s, b>>
    BY <2>1, CellsAreReached
  <2>3. u \div T = b
    BY <2>2 DEF TransposeCell
  <2>4. PICK j \in Mates(T, i) : u = w * WarpSize + j
    BY <2>3, GroupOfThreads
  <2>5. HeldValue(u, l) = Part(s, Row(b))
    BY <2>1, <2>2 DEF HeldValue, LoadedValue
  <2>6. Part(s, Row(b)) # Empty
    <3>1. Part(s, Row(b)).kind = "lse" /\ Empty.kind = "-inf"
      BY DEF Part, Empty
    <3> QED  BY <3>1
  <2>7. Part(s, Row(b)) \in FiniteOf(u)
    BY <2>5, <2>6 DEF FiniteOf
  <2> QED  BY <2>4, <2>7
<1> QED  BY <1>3, <1>4

(***************************************************************************)
(* What the shuffles of Reduce give: in each lane of a group the sum over  *)
(* the row of the group, relative to its maximum.                          *)
(***************************************************************************)
GroupMaxOf(w) == AllreduceMax(kRowsPerLoadTranspose, [i \in Lanes |-> FiniteOf(w * WarpSize + i)])
GroupTerms(w) == [i \in Lanes |-> { Term(x, GroupMaxOf(w)[i]) : x \in FiniteOf(w * WarpSize + i) }]
GroupSumOf(w) == Allreduce(kRowsPerLoadTranspose, [i \in Lanes |-> SetToBag(GroupTerms(w)[i])])

(* A sum with each part once is the row's log-sum-exp.                     *)
LEMMA SumOfOnce ==
  ASSUME NEW r
  PROVE  SumOf(r, Once({ Part(s, r) : s \in Finite(r) }, { Part(s, r) : s \in Finite(r) }),
               { Part(s, r) : s \in Finite(r) }) = SumOfRow(r)
<1> DEFINE P == { Part(s, r) : s \in Finite(r) }  sum == Once(P, P)
<1>1. Sources(sum) = P /\ Usable(sum, P) /\ (sum = EmptyBag <=> P = {})
  BY OnceIsUsable
<1>2. \A s : Part(s, r).kind = "lse" /\ Part(s, r).row = r /\ Part(s, r).split = s
  BY DEF Part
<1>3. \A x \in P : x.kind = "lse" /\ x.row = r
  BY <1>2
<1>4. { lseaccum[x.split][x.row].keys : x \in P } = { lseaccum[s][r].keys : s \in Finite(r) }
  <2> DEFINE A == { lseaccum[x.split][x.row].keys : x \in P }
             B == { lseaccum[s][r].keys : s \in Finite(r) }
  <2>1. ASSUME NEW x \in P PROVE lseaccum[x.split][x.row].keys \in B
    <3>1. PICK s \in Finite(r) : x = Part(s, r)
      OBVIOUS
    <3>2. x.split = s /\ x.row = r
      BY <1>2, <3>1
    <3> QED  BY <3>2
  <2>2. ASSUME NEW s \in Finite(r) PROVE lseaccum[s][r].keys \in A
    <3>1. Part(s, r) \in P /\ Part(s, r).split = s /\ Part(s, r).row = r
      BY <1>2
    <3> HIDE DEF P
    <3> QED  BY <3>1
  <2> HIDE DEF P
  <2>3. A \subseteq B
    BY <2>1
  <2> QED  BY <2>2, <2>3
<1>5. P = {} <=> Finite(r) = {}
  OBVIOUS
<1> HIDE DEF P, sum
<1>6. ASSUME P = {} PROVE SumOf(r, sum, P) = SumOfRow(r)
  BY <1>1, <1>5, <1>6 DEF SumOf, SumOfRow
<1>7. ASSUME P # {} PROVE SumOf(r, sum, P) = SumOfRow(r)
  <2>1. SumOf(r, sum, P) = LogSum(UNION { lseaccum[x.split][x.row].keys : x \in P })
    BY <1>1, <1>3, <1>7 DEF SumOf
  <2> QED  BY <1>4, <1>5, <1>7, <2>1 DEF SumOfRow
<1> QED  BY <1>6, <1>7 DEF P, sum

(* The shuffles give each thread the sum over all parts of its row.        *)
LEMMA GroupSumIs ==
  ASSUME tile \in Tiles, NEW w \in Warps, NEW i \in Lanes,
         NEW b \in 0 .. CombineRows - 1, b = (w * WarpSize + i) \div kRowsPerLoadTranspose
  PROVE  SumOf(Row(b), GroupSumOf(w)[i], GroupMaxOf(w)[i]) = SumOfRow(Row(b))
<1> DEFINE T == kRowsPerLoadTranspose
           F == [j \in Lanes |-> FiniteOf(w * WarpSize + j)]
           P == { Part(s, Row(b)) : s \in Finite(Row(b)) }
           D == GroupTerms(w)
<1>1. T \in ShuffleSizes /\ WarpSize % T = 0
  BY CombineShape
<1>2. \A j \in Lanes : w * WarpSize + j \in AllThreads
  BY ThreadsOfWarp DEF Threads
<1>3. \A j \in Lanes : F[j] = FiniteOf(w * WarpSize + j)
  OBVIOUS
<1>4. ASSUME NEW j \in Mates(T, i)
      PROVE  GroupMaxOf(w)[j] = P /\ j \in Lanes
  <2>1. j \in Lanes /\ Mates(T, j) = Mates(T, i) /\ \A l \in Mates(T, i) : l \in Lanes
    BY DEF Mates
  <2>2. AllreduceMax(T, F)[j] = UNION { F[l] : l \in Mates(T, j) }
    <3> HIDE DEF T, F
    <3> QED  BY <1>1, <2>1, GroupMax
  <2>3. { F[l] : l \in Mates(T, i) } = { FiniteOf(w * WarpSize + l) : l \in Mates(T, i) }
    BY <1>3, <2>1
  <2>4. UNION { FiniteOf(w * WarpSize + l) : l \in Mates(T, i) } = P
    BY PartsOfGroup
  <2>5. GroupMaxOf(w) = AllreduceMax(T, F)
    BY DEF GroupMaxOf
  <2> HIDE DEF P, F, T
  <2> QED  BY <2>1, <2>2, <2>3, <2>4, <2>5
<1>5. i \in Mates(T, i)
  BY DEF Mates
<1>6. ASSUME NEW l \in Lanes, NEW k \in Lanes, l # k, l \div T = k \div T
      PROVE  D[l] \cap D[k] = {}
  <2> DEFINE t == w * WarpSize + l  u == w * WarpSize + k
  <2>1. t # u
    BY <1>6, CombineSizes DEF Lanes, Warps
  <2>2. k \in Mates(T, l)
    BY <1>6 DEF Mates
  <2>3. u \div T = t \div T
    BY <1>2, <2>2, GroupOfThreads
  <2>4. t \in AllThreads /\ u \in AllThreads
    BY <1>2
  <2> HIDE DEF t, u
  <2>5. FiniteOf(t) \cap FiniteOf(u) = {}
    BY <2>1, <2>3, <2>4, PartsDiffer
  <2>6. D[l] = { Term(x, GroupMaxOf(w)[l]) : x \in FiniteOf(t) } /\ D[k] = { Term(x, GroupMaxOf(w)[k]) : x \in FiniteOf(u) }
    BY DEF GroupTerms, t, u
  <2> HIDE DEF D
  <2> SUFFICES ASSUME NEW e \in D[l], e \in D[k] PROVE FALSE
    OBVIOUS
  <2>8. PICK x \in FiniteOf(t) : e = Term(x, GroupMaxOf(w)[l])
    BY <2>6
  <2>9. PICK y \in FiniteOf(u) : e = Term(y, GroupMaxOf(w)[k])
    BY <2>6
  <2>10. x = e.of /\ y = e.of
    <3>1. e.of = x
      BY <2>8 DEF Term
    <3>2. e.of = y
      BY <2>9 DEF Term
    <3> QED  BY <3>1, <3>2
  <2> QED  BY <2>5, <2>10
<1>7. GroupSumOf(w)[i] = SetToBag(UNION { D[l] : l \in Mates(T, i) })
  <2> DEFINE X == [l \in Lanes |-> SetToBag(D[l])]
  <2>1. \A l \in Lanes : X[l] = SetToBag(D[l])
    OBVIOUS
  <2>2. GroupSumOf(w) = Allreduce(T, X)
    BY DEF GroupSumOf
  <2> HIDE DEF X, D, T
  <2>3. Allreduce(T, X)[i] = SetToBag(UNION { D[l] : l \in Mates(T, i) })
    <3>1. SharesOut(T, D)
      BY <1>6 DEF SharesOut
    <3>2. SumsUp(T, X, D, i)
      BY <1>1, <2>1, <3>1, GroupSum
    <3> QED  BY <3>2 DEF SumsUp
  <2> QED  BY <2>2, <2>3
<1>8. UNION { D[l] : l \in Mates(T, i) } = { Term(x, P) : x \in P }
  <2>1. \A l \in Mates(T, i) : D[l] = { Term(x, P) : x \in F[l] }
    BY <1>3, <1>4 DEF GroupTerms
  <2>2. UNION { F[l] : l \in Mates(T, i) } = P
    <3>1. { F[l] : l \in Mates(T, i) } = { FiniteOf(w * WarpSize + l) : l \in Mates(T, i) }
      BY <1>3, <1>4
    <3>2. UNION { FiniteOf(w * WarpSize + l) : l \in Mates(T, i) } = P
      BY PartsOfGroup
    <3> HIDE DEF P, F, T
    <3> QED  BY <3>1, <3>2
  <2> HIDE DEF P, F, T, D
  <2>3. { D[l] : l \in Mates(T, i) } = { { Term(x, P) : x \in F[l] } : l \in Mates(T, i) }
    BY <2>1
  <2>4. UNION { { Term(x, P) : x \in F[l] } : l \in Mates(T, i) } = { Term(x, P) : x \in UNION { F[l] : l \in Mates(T, i) } }
    OBVIOUS
  <2> QED  BY <2>2, <2>3, <2>4
<1>9. GroupSumOf(w)[i] = Once(P, P) /\ GroupMaxOf(w)[i] = P
  BY <1>4, <1>5, <1>7, <1>8 DEF Once
<1> QED  BY <1>9, SumOfOnce

-----------------------------------------------------------------------------
(* Reducing gives each thread, and lse, the sum of its row.                *)
LEMMA ReduceKeeps ==
  ASSUME CombineInv, RaceInv, LaneTypes, NEW w \in Warps, Reduce(w)
  PROVE  CombineInv'
<1> DEFINE T == kRowsPerLoadTranspose
           lane(t)  == t - w * WarpSize
           got(t)   == [l \in LsePerThread |->
                          IF TransposeCell(t, l) \in Cells THEN sLSE[TransposeCell(t, l)] ELSE Empty]
           finite(t) == { got(t)[l] : l \in LsePerThread } \ {Empty}
           at(i)    == w * WarpSize + i
           max      == AllreduceMax(T, [i \in Lanes |-> finite(at(i))])
           sum      == Allreduce(T, [i \in Lanes |-> SetToBag({ Term(x, max[i]) : x \in finite(at(i)) })])
           row(t)   == Row(t \div T)
           result(t) == SumOf(row(t), sum[lane(t)], max[lane(t)])
           storing  == { t \in Threads(w) : /\ t % T = 0
                                            /\ t \div T < CombineRows
                                            /\ InLaunch(row(t)) /\ row(t) \in LiveRows(tile) }
<1>1. /\ Steady /\ Started /\ out' = out /\ sLSE' = sLSE
      /\ held'   = [t \in AllThreads |-> IF t \in Threads(w) THEN got(t) ELSE held[t]]
      /\ logsum' = [t \in AllThreads |-> IF t \in Threads(w) THEN result(t) ELSE logsum[t]]
      /\ lse' = [r \in Rows |-> IF \E t \in storing : row(t) = r
                                THEN result(CHOOSE t \in storing : row(t) = r) ELSE lse[r]]
  BY DEF Reduce, Goto, Steady
<1>2. cpc[w] = "reduce" /\ cpc' = [cpc EXCEPT ![w] = "reduced"]
  BY DEF Reduce, Goto
<1>3. Weighting /\ cpc \in [Warps -> Places]
  BY <1>2, PhaseOfWarp DEF RaceInv
<1>4. ColumnsFor(w)
  BY <1>2 DEF CombineInv, WarpHolds
<1>5. ASSUME NEW t \in Threads(w)
      PROVE  /\ \A l \in LsePerThread : got(t)[l] = HeldValue(t, l)
             /\ finite(t) = FiniteOf(t)
  <2>1. \A l \in LsePerThread : got(t)[l] = HeldValue(t, l)
    BY <1>4 DEF ColumnsFor, HeldValue
  <2>2. { got(t)[l] : l \in LsePerThread } = { HeldValue(t, l) : l \in LsePerThread }
    <3> HIDE DEF got
    <3> QED  BY <2>1
  <2> QED  BY <2>1, <2>2 DEF FiniteOf
<1>6. \A i \in Lanes : at(i) \in Threads(w)
  BY DEF Threads
<1>7. max = GroupMaxOf(w) /\ sum = GroupSumOf(w)
  <2>1. \A i \in Lanes : finite(at(i)) = FiniteOf(w * WarpSize + i)
    BY <1>5, <1>6
  <2> HIDE DEF finite
  <2>2. [i \in Lanes |-> finite(at(i))] = [i \in Lanes |-> FiniteOf(w * WarpSize + i)]
    BY <2>1
  <2>3. max = GroupMaxOf(w)
    BY <2>2 DEF GroupMaxOf
  <2>4. \A i \in Lanes : SetToBag({ Term(x, max[i]) : x \in finite(at(i)) }) = SetToBag(GroupTerms(w)[i])
    BY <2>1, <2>3 DEF GroupTerms
  <2>5. [i \in Lanes |-> SetToBag({ Term(x, max[i]) : x \in finite(at(i)) })]
          = [i \in Lanes |-> SetToBag(GroupTerms(w)[i])]
    BY <2>4
  <2>6. sum = GroupSumOf(w)
    BY <2>5 DEF GroupSumOf
  <2> QED  BY <2>3, <2>6
<1> HIDE DEF got, finite, max, sum
<1>8. ASSUME NEW t \in Threads(w), t \div T < CombineRows
      PROVE  result(t) = SumOfRow(Row(t \div T))
  <2>1. PICK i \in Lanes : t = w * WarpSize + i
    BY DEF Threads
  <2>2. lane(t) = i /\ t \in Nat
    <3>1. i \in Int /\ w * WarpSize \in Int /\ t \in Nat
      BY CombineSizes, OneWarpPerRow DEF Lanes, Warps
    <3> QED  BY <2>1, <3>1
  <2>3. t \div T \in 0 .. CombineRows - 1
    <3> DEFINE b == t \div T
    <3>1. T \in Nat \ {0} /\ b < CombineRows /\ CombineRows \in Nat
      BY <1>8, CombineSizes
    <3>2. b \in Nat
      <4> HIDE DEF T
      <4> QED  BY <2>2, <3>1, QuotientRemainder
    <3> HIDE DEF b
    <3>3. b \in 0 .. CombineRows - 1
      BY <3>1, <3>2
    <3> QED  BY <3>3 DEF b
  <2> DEFINE b == t \div T
  <2>4. b \in 0 .. CombineRows - 1 /\ b = (w * WarpSize + i) \div T /\ tile \in Tiles
    BY <2>1, <2>3 DEF LaneTypes
  <2> HIDE DEF b
  <2>5. SumOf(Row(b), GroupSumOf(w)[i], GroupMaxOf(w)[i]) = SumOfRow(Row(b))
    BY <2>4, GroupSumIs
  <2> QED  BY <1>7, <2>2, <2>5 DEF b
<1> HIDE DEF result, row
<1>9. ASSUME NEW t \in storing
      PROVE  result(t) = SumOfRow(row(t)) /\ row(t) = Row(t \div T)
  BY <1>8 DEF row
<1>10. ASSUME NEW r \in Rows
       PROVE  /\ (\E t \in storing : row(t) = r) => lse'[r] = SumOfRow(r)
              /\ lse'[r] \in {SumOfRow(r), lse[r]}
  <2>1. CASE \E t \in storing : row(t) = r
    <3> DEFINE t == CHOOSE t \in storing : row(t) = r
    <3>1. t \in storing /\ row(t) = r
      BY <2>1
    <3>2. lse'[r] = result(t)
      BY <1>1, <2>1
    <3> HIDE DEF t
    <3> QED  BY <1>9, <3>1, <3>2
  <2>2. CASE ~ \E t \in storing : row(t) = r
    BY <1>1, <2>2
  <2> QED  BY <2>1, <2>2
<1>11. /\ \A c : LoadedValue(c)' = LoadedValue(c) /\ WeightAt(c)' = WeightAt(c)
       /\ \A t, l : HeldValue(t, l)' = HeldValue(t, l)
       /\ \A b : Row(b)' = Row(b)
       /\ \A r : SumOfRow(r)' = SumOfRow(r)
       /\ LiveRows(tile)' = LiveRows(tile) /\ Splits' = Splits
  BY <1>1, MeaningsStay
<1>12. LiveRows(tile) \subseteq Rows /\ \A r \in LiveRows(tile) : InLaunch(r)
  BY LiveInLaunch
<1>13. Ordered'
  <2>1. lse' = [r \in Rows |-> lse'[r]]
    BY <1>1
  <2>2. \A v \in Warps : cpc[v] = "stored" => cpc'[v] = "stored"
    BY <1>2, <1>3
  <2> QED  BY <1>1, <2>1, <2>2, OrderStays DEF CombineInv
<1>14. SumsFor(w)'
  <2> SUFFICES ASSUME NEW b \in 0 .. CombineRows - 1, b * T \in Threads(w), Row(b) \in LiveRows(tile)
               PROVE  lse'[Row(b)] = SumOfRow(Row(b))
    BY <1>11 DEF SumsFor
  <2>1. (b * T) \div T = b /\ (b * T) % T = 0
    <3>1. b \in Int /\ 0 \in 0 .. T - 1 /\ b * T \in Nat /\ b * T = b * T + 0
      BY CombineSizes
    <3> QED  BY <3>1, CombineSizes, DivUnique
  <2>2. b * T \in storing /\ row(b * T) = Row(b)
    BY <1>12, <2>1, CombineSizes DEF row
  <2> QED  BY <1>10, <1>12, <2>2
<1>15. ReducedFor(w)'
  <2>1. ASSUME NEW t \in Threads(w)
        PROVE  /\ \A l \in LsePerThread : held'[t][l] = HeldValue(t, l)
               /\ t \div T < CombineRows => logsum'[t] = SumOfRow(Row(t \div T))
    <3>1. held'[t] = got(t) /\ logsum'[t] = result(t)
      BY <1>1, OneWarpPerRow
    <3> QED  BY <1>5, <1>8, <3>1
  <2> QED  BY <1>11, <2>1 DEF ReducedFor
<1>16. ASSUME NEW v \in Warps
       PROVE  /\ ColumnsFor(v) => ColumnsFor(v)'
              /\ WeightsFor(v) => WeightsFor(v)'
              /\ SumsFor(v) => SumsFor(v)'
  <2>1. ColumnsFor(v) => ColumnsFor(v)'
    BY <1>1, <1>11 DEF ColumnsFor
  <2>2. WeightsFor(v) => WeightsFor(v)'
    BY <1>1, <1>11 DEF WeightsFor
  <2>3. SumsFor(v) => SumsFor(v)'
    BY <1>10, <1>11, <1>12 DEF SumsFor
  <2> QED  BY <2>1, <2>2, <2>3
<1>17. ASSUME NEW v \in Warps, v # w, ReducedFor(v)
       PROVE  ReducedFor(v)'
  <2>1. ASSUME NEW t \in Threads(v) PROVE held'[t] = held[t] /\ logsum'[t] = logsum[t]
    <3>1. t \in AllThreads /\ t \notin Threads(w)
      BY <1>17, OneWarpPerRow
    <3> QED  BY <1>1, <3>1
  <2> QED  BY <1>11, <1>17, <2>1 DEF ReducedFor
<1>18. ASSUME NEW v \in Warps PROVE WarpHolds(v)'
  <2>1. CASE v = w
    <3>1. cpc'[v] = "reduced"
      BY <1>2, <1>3, <2>1
    <3> QED  BY <1>4, <1>14, <1>15, <1>16, <2>1, <3>1 DEF WarpHolds
  <2>2. CASE v # w
    <3>1. cpc'[v] = cpc[v] /\ cpc[v] \in {"reduce", "reduced", "weighted"} /\ WarpHolds(v)
      BY <1>2, <1>3, <2>2 DEF Weighting, CombineInv
    <3> QED  BY <1>16, <1>17, <2>2, <3>1 DEF WarpHolds
  <2> QED  BY <2>1, <2>2
<1> QED  BY <1>13, <1>18 DEF CombineInv

(* Every step keeps the invariants of both kernels.                        *)
TileInv == LaneInv /\ RaceInv /\ CombineInv

(* They hold at the start,                                                 *)
LEMMA TileInvAtStart == Init => TileInv
BY LaneInvAtStart, RaceInvAtStart, CombineInvAtStart DEF TileInv

(* survive a stutter,                                                      *)
LEMMA StutterKeepsCombine ==
  ASSUME CombineInv, UNCHANGED vars
  PROVE  CombineInv'
<1>1. /\ Steady /\ out' = out /\ lse' = lse /\ sLSE' = sLSE /\ held' = held /\ logsum' = logsum
      /\ cpc' = cpc
  BY DEF vars, cta, combine, Steady
<1>2. /\ \A c : LoadedValue(c)' = LoadedValue(c) /\ WeightAt(c)' = WeightAt(c)
      /\ \A t, l : HeldValue(t, l)' = HeldValue(t, l)
      /\ \A b : Row(b)' = Row(b)
      /\ \A r : SumOfRow(r)' = SumOfRow(r)
      /\ LiveRows(tile)' = LiveRows(tile) /\ Splits' = Splits /\ Split' = Split /\ Started' = Started
  BY <1>1, MeaningsStay
<1>3. Ordered'
  BY <1>1, <1>2 DEF CombineInv, Ordered, Steady
<1>4. ASSUME NEW w \in Warps PROVE WarpHolds(w)'
  <2>1. LoadedFor(w) => LoadedFor(w)'
    BY <1>1, <1>2 DEF LoadedFor
  <2>2. ColumnsFor(w) => ColumnsFor(w)'
    BY <1>1, <1>2 DEF ColumnsFor
  <2>3. ReducedFor(w) => ReducedFor(w)'
    BY <1>1, <1>2 DEF ReducedFor
  <2>4. SumsFor(w) => SumsFor(w)'
    BY <1>1, <1>2 DEF SumsFor
  <2>5. WeightsFor(w) => WeightsFor(w)'
    BY <1>1, <1>2 DEF WeightsFor
  <2>6. AllWeighted => AllWeighted'
    BY <1>1, <1>2 DEF AllWeighted
  <2>7. WarpHolds(w)
    BY DEF CombineInv
  <2> QED  BY <1>1, <2>1, <2>2, <2>3, <2>4, <2>5, <2>6, <2>7 DEF WarpHolds
<1> QED  BY <1>3, <1>4 DEF CombineInv

(* and every step.                                                         *)
LEMMA TileInvStep == TileInv /\ [Next]_vars => TileInv'
<1> SUFFICES ASSUME TileInv, [Next]_vars PROVE TileInv'
  OBVIOUS
<1>1. LaneInv' /\ RaceInv'
  BY LaneInvStep, RaceInvStep DEF TileInv
<1>2. LaneTypes
  BY DEF TileInv, LaneInv
<1>3. ASSUME NEW s \in Splits, CtaStep(s) PROVE CombineInv'
  BY <1>3, CtaBeforeCombine DEF TileInv
<1>4. ASSUME CombineStep PROVE CombineInv'
  BY <1>2, <1>4, LoadKeeps, ReduceKeeps, StoreKeeps, AccumulateKeeps, BarrierKeeps, NextBlockKeeps
     DEF TileInv, CombineStep
<1>5. ASSUME UNCHANGED vars PROVE CombineInv'
  BY <1>5, StutterKeepsCombine DEF TileInv
<1>6. CombineInv'
  BY <1>3, <1>4, <1>5 DEF Next, Terminating
<1> QED  BY <1>1, <1>6 DEF TileInv

-----------------------------------------------------------------------------
(***************************************************************************)
(* The threads implement SplitTile.  Its state, as they hold it:           *)
(***************************************************************************)
AbsAcc == [s \in Splits |-> [r \in Rows |-> UNION { Sources(rowSum[s][x]) : x \in Quad(r) }]]
AbsNan == [s \in Splits |-> { RowOf(x) : x \in nan[s] }]
AbsLse == [r \in Rows |-> IF Split /\ out[r] = Untouched THEN Untouched ELSE lse[r]]

(* Both modules have the geometry of KvGeometry.                           *)
LEMMA SameGeometry ==
  /\ S!Rows = Rows /\ S!Splits = Splits /\ S!Split = Split
  /\ \A t : S!LiveRows(t) = LiveRows(t) /\ S!MaskingSteps(t) = MaskingSteps(t)
  /\ \A t, s : S!BlockMin(t, s) = BlockMin(t, s) /\ S!BlockMax(t, s) = BlockMax(t, s)
  /\ \A n : S!BlockKeys(n) = BlockKeys(n)
  /\ \A t, r, k, masking : S!Kept(t, r, k, masking) = Kept(t, r, k, masking)
<1>1. S!Rows = Rows /\ S!Splits = Splits /\ S!Split = Split
  BY DEF S!Rows, Rows, S!Splits, Splits, S!Split, Split
<1>2. \A t : S!LiveRows(t) = LiveRows(t)
  BY <1>1 DEF S!LiveRows, LiveRows
<1>3. /\ \A a, b : S!AtLeast(a, b) = AtLeast(a, b) /\ S!AtMost(a, b) = AtMost(a, b)
      /\ \A a, b : S!TruncDiv(a, b) = TruncDiv(a, b) /\ S!CeilDiv(a, b) = CeilDiv(a, b)
  BY DEF S!AtLeast, AtLeast, S!AtMost, AtMost, S!TruncDiv, TruncDiv, S!CeilDiv, CeilDiv
<1>4. \A t : /\ S!Shift(t) = Shift(t) /\ S!MaskingSteps(t) = MaskingSteps(t)
             /\ S!FirstBlock(t) = FirstBlock(t) /\ S!LastBlock(t) = LastBlock(t)
  BY <1>3 DEF S!Shift, Shift, S!MaskingSteps, MaskingSteps, S!FirstBlock, FirstBlock, S!LastBlock, LastBlock
<1>5. \A t : S!BlocksPerSplit(t) = BlocksPerSplit(t)
  BY <1>3, <1>4 DEF S!BlocksPerSplit, BlocksPerSplit
<1>6. \A t, s : S!BlockMin(t, s) = BlockMin(t, s) /\ S!BlockMax(t, s) = BlockMax(t, s)
  BY <1>3, <1>4, <1>5 DEF S!BlockMin, BlockMin, S!BlockMax, BlockMax
<1>7. \A n : S!BlockKeys(n) = BlockKeys(n)
  BY DEF S!BlockKeys, BlockKeys
<1>8. \A t, r : /\ S!Token(t, r) = Token(t, r) /\ S!Tokens(t) = Tokens(t)
                /\ S!LimitLeft(t, r) = LimitLeft(t, r) /\ S!LimitRight(t, r) = LimitRight(t, r)
  BY <1>3 DEF S!Token, Token, S!Tokens, Tokens, S!LimitLeft, LimitLeft, S!LimitRight, LimitRight
<1>9. \A t, r, k, masking : S!Kept(t, r, k, masking) = Kept(t, r, k, masking)
  BY <1>8 DEF S!Kept, Kept
<1> QED  BY <1>1, <1>2, <1>4, <1>6, <1>7, <1>9

(* Its values are the same.                                                *)
LEMMA SameValues ==
  /\ \A K : S!Mean(K) = Mean(K) /\ S!LogSum(K) = LogSum(K)
  /\ S!NaN = NaN /\ S!NegInf = NegInf /\ S!PosInf = PosInf /\ S!Untouched = Untouched
BY DEF S!Mean, Mean, S!LogSum, LogSum, S!NaN, NaN, S!NegInf, NegInf, S!PosInf, PosInf,
       S!Untouched, Untouched

(* What a step leaves alone there when it leaves it alone here.            *)
LEMMA AbstractStays ==
  /\ tile' = tile /\ rowSum' = rowSum /\ nan' = nan => AbsAcc' = AbsAcc /\ AbsNan' = AbsNan
  /\ tile' = tile /\ out' = out /\ lse' = lse => AbsLse' = AbsLse
<1>1. tile' = tile => Splits' = Splits /\ Split' = Split
  BY DEF Splits, Split
<1> QED  BY <1>1 DEF AbsAcc, AbsNan, AbsLse

(* In terms of the keys of a row.                                          *)
LEMMA AbstractIs ==
  /\ \A s \in Splits, r \in Rows : AbsAcc[s][r] = KeysOfRow(s, r)
  /\ \A s \in Splits : AbsNan[s] = { RowOf(x) : x \in nan[s] }
BY DEF AbsAcc, AbsNan, KeysOfRow, KeysOf

(* The threads start as SplitTile does.                                    *)
LEMMA InitMaps == Init => S!Init
<1> SUFFICES ASSUME Init PROVE S!Init
  OBVIOUS
<1>1. TileInit /\ LaneInv
  BY LaneInvAtStart DEF Init
<1>2. AbsAcc = [s \in Splits |-> [r \in Rows |-> {}]]
  <2>1. \A s \in Splits : \A x \in Slots : KeysOf(s, x) = {}
    BY <1>1 DEF TileInit, LaneInv, CountsOf
  <2>2. \A s \in Splits : \A r \in Rows : UNION { Sources(rowSum[s][x]) : x \in Quad(r) } = {}
    BY <2>1 DEF Quad, KeysOf
  <2> QED  BY <2>2 DEF AbsAcc
<1>3. AbsNan = [s \in Splits |-> {}]
  BY <1>1 DEF TileInit, AbsNan
<1>4. AbsLse = [r \in Rows |-> Untouched]
  BY <1>1 DEF TileInit, AbsLse
<1>5. /\ tile \in Tiles
      /\ pc = [s \in Splits |-> "start"] /\ n_block = [s \in Splits |-> 0] /\ step = [s \in Splits |-> 0]
      /\ oaccum = [s \in Splits |-> [r \in Rows |-> Mean({})]]
      /\ lseaccum = [s \in Splits |-> [r \in Rows |-> NegInf]]
      /\ out = [r \in Rows |-> Untouched]
  BY <1>1 DEF TileInit
<1> QED  BY <1>2, <1>3, <1>4, <1>5, SameGeometry, SameValues DEF S!Init, AbsAcc, AbsNan, AbsLse

(* Steps of a CTA that store: the same rows, the same values.              *)
LEMMA StoreMaps ==
  ASSUME CombineInv, NEW s \in Splits, NEW STATE o, NEW STATE l, tile' = tile, Store(s, o, l)
  PROVE  S!Store(s, o, l)
<1> DEFINE over(f, g) == [r \in Rows |-> IF r \in LiveRows(tile) THEN g[r] ELSE f[r]]
<1>1. Split' = Split /\ lse = [r \in Rows |-> lse[r]]
  BY DEF Split, CombineInv, Ordered
<1>2. CASE Split
  <2>1. /\ oaccum' = [oaccum EXCEPT ![s] = over(@, o)]
        /\ lseaccum' = [lseaccum EXCEPT ![s] = over(@, l)]
        /\ out' = out /\ lse' = lse
    BY <1>2 DEF Store
  <2>2. AbsLse' = AbsLse
    BY <2>1, AbstractStays
  <2> QED  BY <1>2, <2>1, <2>2, SameGeometry DEF S!Store, AbsLse
<1>3. CASE ~ Split
  <2>1. out' = over(out, o) /\ lse' = over(lse, l) /\ oaccum' = oaccum /\ lseaccum' = lseaccum
    BY <1>3 DEF Store
  <2>2. AbsLse = lse
    BY <1>1, <1>3 DEF AbsLse
  <2>3. AbsLse' = over(lse, l)
    BY <1>1, <1>3, <2>1 DEF AbsLse
  <2> QED  BY <1>3, <2>1, <2>2, <2>3, SameGeometry DEF S!Store, AbsLse
<1> QED  BY <1>2, <1>3

(* Program points are the same.                                            *)
LEMMA JumpMaps ==
  ASSUME NEW s \in Splits, NEW from, NEW to, Jump(s, from, to)
  PROVE  S!Jump(s, from, to) /\ tile' = tile
BY DEF Jump, S!Jump

(* A CTA behind the sequence returns in both.                              *)
LEMMA ReturnMaps ==
  ASSUME NEW s \in Splits, Return(s)
  PROVE  S!Return(s)
<1>1. /\ S!Jump(s, "start", "done") /\ tile' = tile /\ tile.m * kBlockM >= tile.Q
      /\ UNCHANGED <<n_block, step, rowMax, rowSum, accO, nan, oaccum, lseaccum, out, lse>>
  BY JumpMaps DEF Return
<1>2. AbsAcc' = AbsAcc /\ AbsNan' = AbsNan /\ AbsLse' = AbsLse
  BY <1>1, AbstractStays
<1> QED  BY <1>1, <1>2 DEF S!Return, AbsAcc, AbsNan, AbsLse

(* A CTA with key blocks enters its loop in both.                          *)
LEMMA PrologueMaps ==
  ASSUME NEW s \in Splits, Prologue(s)
  PROVE  S!Prologue(s)
<1>1. /\ S!Jump(s, "start", "masking") /\ tile' = tile /\ tile.m * kBlockM < tile.Q
      /\ BlockMin(tile, s) < BlockMax(tile, s)
      /\ n_block' = [n_block EXCEPT ![s] = BlockMax(tile, s) - 1]
      /\ UNCHANGED <<step, rowMax, rowSum, accO, nan, oaccum, lseaccum, out, lse>>
  BY JumpMaps DEF Prologue
<1>2. AbsAcc' = AbsAcc /\ AbsNan' = AbsNan /\ AbsLse' = AbsLse
  BY <1>1, AbstractStays
<1> QED  BY <1>1, <1>2, SameGeometry DEF S!Prologue, AbsAcc, AbsNan, AbsLse

(* A CTA without key blocks stores the empty sum in both.                  *)
LEMMA EarlyExitMaps ==
  ASSUME CombineInv, NEW s \in Splits, EarlyExit(s)
  PROVE  S!EarlyExit(s)
<1> DEFINE o == [r \in Rows |-> Mean({})]  l == [r \in Rows |-> NoSum]
<1>1. /\ S!Jump(s, "start", "done") /\ tile' = tile /\ tile.m * kBlockM < tile.Q
      /\ BlockMin(tile, s) >= BlockMax(tile, s)
      /\ Store(s, o, l)
      /\ UNCHANGED <<n_block, step, rowMax, rowSum, accO, nan>>
  BY JumpMaps DEF EarlyExit
<1>2. AbsAcc' = AbsAcc /\ AbsNan' = AbsNan
  BY <1>1, AbstractStays
<1>3. S!Store(s, o, l)
  <2> HIDE DEF o, l
  <2> QED  BY <1>1, StoreMaps
<1>4. o = [r \in S!Rows |-> S!Mean({})] /\ l = [r \in S!Rows |-> IF S!Split THEN S!NegInf ELSE S!PosInf]
  BY SameGeometry, SameValues DEF NoSum
<1>5. S!Store(s, [r \in S!Rows |-> S!Mean({})],
                 [r \in S!Rows |-> IF S!Split THEN S!NegInf ELSE S!PosInf])
  BY <1>3, <1>4 DEF S!Store
<1> QED  BY <1>1, <1>2, <1>5, SameGeometry DEF S!EarlyExit, AbsAcc, AbsNan

(* An iteration folds the row's new keys.                                  *)
AbsFolded(s, masking, first, checkInf) ==
  LET kept(r) == { k \in S!BlockKeys(n_block[s]) : S!Kept(tile, r, k, masking) }
  IN  /\ AbsAcc' = [AbsAcc EXCEPT ![s] = [r \in Rows |-> @[r] \cup kept(r)]]
      /\ AbsNan' = [AbsNan EXCEPT ![s] = @ \cup
                      { r \in Rows : \/ S!GarbageV(n_block[s], first)
                                     \/ ~ first /\ ~ checkInf /\ AbsAcc[s][r] \cup kept(r) = {} }]

(* An iteration adds to each row what SplitTile adds.                      *)
LEMMA FoldMaps ==
  ASSUME LaneInv, NEW s \in Splits, NEW masking, NEW first \in BOOLEAN, NEW checkInf,
         first => \A x \in Slots : KeysOf(s, x) = {},
         tile' = tile,
         Fold(s, n_block[s], masking, first, checkInf),
         n_block'[s] = n_block[s] - 1
  PROVE  AbsFolded(s, masking, first, checkInf)
<1> DEFINE G == S!GarbageV(n_block[s], first)
           unchecked == ~ first /\ ~ checkInf
           kept(r) == { k \in S!BlockKeys(n_block[s]) : S!Kept(tile, r, k, masking) }
<1>1. LaneTypes /\ LanesOf(s) /\ CountsOf(s)
  BY DEF LaneInv
<1>2. FoldedTo(s, masking, first, checkInf)
  BY <1>1, FoldLanes
<1>3. \A r \in Rows : KeysOfRow(s, r)' = AfterFold(s, r, masking)
  BY FoldKeepsLanes
<1>4. \A r \in Rows : kept(r) = NewOfRow(r, n_block[s], masking)
  BY SameGeometry DEF NewOfRow
<1>5. Splits' = Splits
  BY DEF Splits
<1>6. AbsAcc' = [AbsAcc EXCEPT ![s] = [r \in Rows |-> @[r] \cup kept(r)]]
  <2> DEFINE new == [AbsAcc EXCEPT ![s] = [r \in Rows |-> @[r] \cup kept(r)]]
             row(p) == [r \in Rows |-> UNION { Sources(rowSum[p][x]) : x \in Quad(r) }]
  <2>1. ASSUME NEW p \in Splits, p # s PROVE row(p)' = row(p)
    <3>1. rowSum'[p] = rowSum[p]
      BY <1>1, <1>2, <2>1 DEF FoldedTo, LaneTypes
    <3> QED  BY <3>1
  <2>2. row(s)' = [r \in Rows |-> AbsAcc[s][r] \cup kept(r)]
    <3>1. \A r \in Rows : row(s)'[r] = KeysOfRow(s, r)'
      BY DEF KeysOfRow, KeysOf
    <3>2. \A r \in Rows : row(s)'[r] = AbsAcc[s][r] \cup kept(r)
      BY <1>3, <1>4, <3>1, AbstractIs DEF AfterFold
    <3> QED  BY <3>2
  <2>3. AbsAcc = [p \in Splits |-> row(p)] /\ AbsAcc' = [p \in Splits |-> row(p)']
    BY <1>5 DEF AbsAcc
  <2> HIDE DEF row, kept
  <2>4. \A p \in Splits : AbsAcc'[p] = new[p]
    BY <2>1, <2>2, <2>3
  <2> QED  BY <2>3, <2>4
<1>7. AbsNan' = [AbsNan EXCEPT ![s] = @ \cup
                   { r \in Rows : G \/ (unchecked /\ AbsAcc[s][r] \cup kept(r) = {}) }]
  <2> DEFINE bad == { x \in Slots : G \/ (unchecked /\ AfterFold(s, RowOf(x), masking) = {}) }
             badRows == { r \in Rows : G \/ (unchecked /\ AbsAcc[s][r] \cup kept(r) = {}) }
             rows(p) == { RowOf(x) : x \in nan[p] }
  <2>1. \A r \in Rows : AbsAcc[s][r] \cup kept(r) = AfterFold(s, r, masking)
    BY <1>4, AbstractIs DEF AfterFold
  <2>2. nan' = [nan EXCEPT ![s] = @ \cup bad]
    BY <1>2 DEF FoldedTo
  <2>3. nan'[s] = nan[s] \cup bad /\ \A p \in Splits : p # s => nan'[p] = nan[p]
    BY <1>1, <2>2 DEF LaneTypes
  <2>4. { RowOf(x) : x \in bad } = badRows
    <3> HIDE DEF G, unchecked, kept
    <3>1. \A x \in bad : RowOf(x) \in badRows
      BY <2>1, RowsHaveLanes
    <3>2. ASSUME NEW r \in badRows PROVE \E x \in bad : RowOf(x) = r
      <4>1. PICK x \in Quad(r) : TRUE
        <5>1. 0 \in 0 .. QuadSize - 1
          BY TileOfWarps
        <5> QED  BY <5>1, RowsHaveLanes
      <4>2. x \in Slots /\ RowOf(x) = r
        BY DEF Quad
      <4> QED  BY <2>1, <4>2
    <3> HIDE DEF bad, badRows
    <3> QED  BY <3>1, <3>2
  <2> HIDE DEF bad, badRows
  <2>5. rows(s)' = rows(s) \cup badRows
    BY <2>3, <2>4
  <2>6. \A p \in Splits : p # s => rows(p)' = rows(p)
    BY <2>3
  <2>7. AbsNan = [p \in Splits |-> rows(p)] /\ AbsNan' = [p \in Splits |-> rows(p)']
    BY <1>5 DEF AbsNan
  <2> HIDE DEF rows
  <2>8. AbsNan' = [AbsNan EXCEPT ![s] = @ \cup badRows]
    BY <2>5, <2>6, <2>7
  <2> QED  BY <2>8 DEF badRows
<1> QED  BY <1>6, <1>7 DEF AbsFolded

(* So the iterations of the two loops are those of SplitTile.              *)
LEMMA IterationsMap ==
  ASSUME LaneInv, NEW s \in Splits
  PROVE  /\ MaskingIteration(s) => S!MaskingIteration(s)
         /\ UnmaskedIteration(s) => S!UnmaskedIteration(s)
<1>0. LaneTypes /\ CountsOf(s) /\ tile \in ValidTiles
  BY TilesAreValid DEF LaneInv, LaneTypes
<1>1. ASSUME MaskingIteration(s) PROVE S!MaskingIteration(s)
  <2> DEFINE n == n_block[s]
             last == (MaskingSteps(tile) > 1 /\ n <= BlockMin(tile, s)) \/ step[s] + 1 = MaskingSteps(tile)
             first == step[s] = 0
  <2>1. /\ Jump(s, "masking", IF last THEN "unmasked" ELSE "masking")
        /\ Fold(s, n, TRUE, first, TRUE)
        /\ n_block' = [n_block EXCEPT ![s] = n - 1]
        /\ step' = [step EXCEPT ![s] = @ + 1]
        /\ UNCHANGED <<oaccum, lseaccum, out, lse>>
    BY <1>1 DEF MaskingIteration
  <2>2. first => \A x \in Slots : KeysOf(s, x) = {}
    BY <1>0, <2>1 DEF CountsOf, Jump
  <2>3. n_block'[s] = n - 1 /\ tile' = tile /\ first \in BOOLEAN
    BY <1>0, <2>1 DEF LaneTypes, Jump
  <2>4. S!Fold(s, n, TRUE, first, TRUE)
    <3>1. AbsFolded(s, TRUE, first, TRUE)
      <4> HIDE DEF first
      <4> QED  BY <2>1, <2>2, <2>3, FoldMaps
    <3> QED  BY <3>1, SameGeometry DEF AbsFolded, S!Fold, AbsAcc, AbsNan
  <2>5. S!Jump(s, "masking", IF last THEN "unmasked" ELSE "masking")
    BY <2>1 DEF Jump, S!Jump
  <2>6. AbsLse' = AbsLse
    BY <2>1, <2>3, AbstractStays
  <2> QED  BY <2>1, <2>3, <2>4, <2>5, <2>6, SameGeometry DEF S!MaskingIteration, AbsLse
<1>2. ASSUME UnmaskedIteration(s) PROVE S!UnmaskedIteration(s)
  <2>1. /\ n_block[s] >= BlockMin(tile, s)
        /\ Jump(s, "unmasked", "unmasked")
        /\ Fold(s, n_block[s], FALSE, FALSE, tile.local)
        /\ n_block' = [n_block EXCEPT ![s] = n_block[s] - 1]
        /\ UNCHANGED <<step, oaccum, lseaccum, out, lse>>
    BY <1>2 DEF UnmaskedIteration
  <2>2. n_block'[s] = n_block[s] - 1 /\ tile' = tile
    BY <1>0, <2>1 DEF LaneTypes, Jump
  <2>3. S!Fold(s, n_block[s], FALSE, FALSE, tile.local)
    <3>1. AbsFolded(s, FALSE, FALSE, tile.local)
      BY <2>1, <2>2, FoldMaps
    <3> QED  BY <3>1, SameGeometry DEF AbsFolded, S!Fold, AbsAcc, AbsNan
  <2>4. S!Jump(s, "unmasked", "unmasked")
    BY <2>1, JumpMaps
  <2>5. AbsLse' = AbsLse
    BY <2>1, <2>2, AbstractStays
  <2> QED  BY <2>1, <2>2, <2>3, <2>4, <2>5, SameGeometry DEF S!UnmaskedIteration, AbsLse
<1> QED  BY <1>1, <1>2

-----------------------------------------------------------------------------
(* The epilogue's shuffles sum the row: each of its keys, once.            *)
LEMMA TotalIs ==
  ASSUME NEW s \in Splits, LanesOf(s), CountsOf(s), NEW x \in Slots
  PROVE  Total(s, x) = Once(KeysOfRow(s, RowOf(x)), KeysOfRow(s, RowOf(x)))
<1> DEFINE K == KeysOfRow(s, RowOf(x))
           z(l) == <<x[1], l, x[3]>>
           D == [l \in Lanes |-> { Term(k, KeysOfRow(s, RowOf(z(l)))) : k \in KeysOf(s, z(l)) }]
           X == [l \in Lanes |-> rowSum[s][z(l)]]
<1>1. /\ QuadSize \in ShuffleSizes /\ WarpSize % QuadSize = 0
      /\ x[1] \in Warps /\ x[2] \in Lanes /\ x[3] \in {0, 1} /\ x = z(x[2])
  BY QuadShuffles DEF Slots
<1>2. \A l \in Lanes : z(l) \in Slots /\ z(l)[1] = x[1] /\ z(l)[2] = l /\ z(l)[3] = x[3]
  BY <1>1 DEF Slots
<1>3. \A l \in Lanes : X[l] = SetToBag(D[l])
  <2>1. \A l \in Lanes : rowSum[s][z(l)] = Once(KeysOf(s, z(l)), KeysOfRow(s, RowOf(z(l))))
    BY <1>2 DEF LanesOf
  <2> QED  BY <2>1 DEF Once
<1>4. \A l, k \in Lanes : l \div QuadSize = k \div QuadSize => RowOf(z(l)) = RowOf(z(k))
  BY <1>2 DEF RowOf, AccRow
<1>5. SharesOut(QuadSize, D)
  <2> SUFFICES ASSUME NEW l \in Lanes, NEW k \in Lanes, l # k, l \div QuadSize = k \div QuadSize,
                      NEW e \in D[l], e \in D[k]
               PROVE  FALSE
    BY DEF SharesOut
  <2>1. PICK a \in KeysOf(s, z(l)) : e = Term(a, KeysOfRow(s, RowOf(z(l))))
    OBVIOUS
  <2>2. PICK b \in KeysOf(s, z(k)) : e = Term(b, KeysOfRow(s, RowOf(z(k))))
    OBVIOUS
  <2>3. e.of = a
    BY <2>1 DEF Term
  <2>4. e.of = b
    BY <2>2 DEF Term
  <2>5. LanePlace(z(l), a) /\ LanePlace(z(k), a)
    BY <1>2, <2>3, <2>4 DEF CountsOf
  <2>6. z(l) = z(k)
    BY <1>2, <1>4, <2>5, LanesDiffer
  <2> QED  BY <1>2, <2>6
<1>6. Total(s, x) = Allreduce(QuadSize, X)[x[2]]
  BY DEF Total
<1>7. Allreduce(QuadSize, X)[x[2]] = SetToBag(UNION { D[l] : l \in Mates(QuadSize, x[2]) })
  <2>1. SumsUp(QuadSize, X, D, x[2])
    <3> HIDE DEF X, D
    <3> QED  BY <1>1, <1>3, <1>5, GroupSum
  <2> QED  BY <2>1 DEF SumsUp
<1>8. UNION { D[l] : l \in Mates(QuadSize, x[2]) } = { Term(k, K) : k \in K }
  <2>1. \A l \in Mates(QuadSize, x[2]) : l \in Lanes /\ RowOf(z(l)) = RowOf(x)
    BY <1>1, <1>4 DEF Mates
  <2>2. \A l \in Mates(QuadSize, x[2]) : D[l] = { Term(k, K) : k \in KeysOf(s, z(l)) }
    BY <2>1
  <2>3. K = UNION { KeysOf(s, z(l)) : l \in Mates(QuadSize, x[2]) }
    <3>1. Quad(RowOf(x)) = { z(l) : l \in Mates(QuadSize, x[2]) }
      BY QuadIs
    <3> QED  BY <3>1 DEF KeysOfRow
  <2> HIDE DEF D, z, K
  <2>4. UNION { D[l] : l \in Mates(QuadSize, x[2]) }
          = UNION { { Term(k, K) : k \in KeysOf(s, z(l)) } : l \in Mates(QuadSize, x[2]) }
    BY <2>2
  <2> QED  BY <2>3, <2>4
<1> QED  BY <1>6, <1>7, <1>8 DEF Once

(* A row's quad stores what SplitTile's row does.                          *)
LEMMA PartialIs ==
  ASSUME NEW s \in Splits, LanesOf(s), CountsOf(s), NEW x \in Slots
  PROVE  /\ OutOf(s, x) = S!Partial(s, RowOf(x)).o
         /\ LseOf(s, x) = S!Partial(s, RowOf(x)).l
<1> DEFINE r == RowOf(x)
           K == KeysOfRow(s, r)
           lost == r \in AbsNan[s]
<1>1. r \in Rows /\ AbsAcc[s][r] = K
  BY RowsHaveLanes, AbstractIs
<1>2. x \in nan[s] <=> lost
  BY AbstractIs DEF LanesOf
<1>3. S!Partial(s, r) =
        IF lost THEN [o |-> NaN, l |-> NoSum]
        ELSE IF K = {} THEN [o |-> Mean({}), l |-> NoSum] ELSE [o |-> Mean(K), l |-> LogSum(K)]
  BY <1>1, SameGeometry, SameValues DEF S!Partial, AbsAcc, AbsNan, NoSum
<1>4. /\ Sources(Total(s, x)) = K /\ Usable(Total(s, x), K)
      /\ Total(s, x) = EmptyBag <=> K = {}
  BY TotalIs, OnceIsUsable
<1>5. /\ rowMax[s][x] = K
      /\ Usable(accO[s][x], K)
      /\ Sources(accO[s][x]) = { <<r, k, k>> : k \in K }
  <2>1. rowMax[s][x] = K /\ accO[s][x] = Once(OwnTerms(r, K), K)
    BY DEF LanesOf
  <2> QED  BY <2>1, OnceIsUsable DEF OwnTerms
<1> HIDE DEF r, K, lost
<1>6. OutOf(s, x) = IF lost THEN NaN ELSE Mean(K)
  BY <1>2, <1>4, <1>5 DEF OutOf, r
<1>7. LseOf(s, x) = IF lost \/ K = {} THEN NoSum ELSE LogSum(K)
  BY <1>2, <1>4, <1>5 DEF LseOf
<1> QED  BY <1>3, <1>6, <1>7 DEF r

(* All lanes of a row store one result: SplitTile's.                       *)
LEMMA EpilogueMaps ==
  ASSUME LaneInv, CombineInv, NEW s \in Splits, Epilogue(s)
  PROVE  S!Epilogue(s)
<1> DEFINE row(r) == { OutOf(s, x) : x \in Quad(r) }
           first(r) == CHOOSE x \in Quad(r) : x[2] % QuadSize = 0
           o == [r \in Rows |-> IF Cardinality(row(r)) = 1 THEN CHOOSE v \in row(r) : TRUE ELSE Wrong]
           l == [r \in Rows |-> LseOf(s, first(r))]
<1>1. LanesOf(s) /\ CountsOf(s)
  BY DEF LaneInv
<1>2. /\ n_block[s] < BlockMin(tile, s)
      /\ S!Jump(s, "unmasked", "done") /\ tile' = tile
      /\ Store(s, o, l)
      /\ UNCHANGED <<n_block, step, rowMax, rowSum, accO, nan>>
  BY JumpMaps DEF Epilogue
<1>3. ASSUME NEW r \in Rows
      PROVE  o[r] = S!Partial(s, r).o /\ l[r] = S!Partial(s, r).l
  <2> DEFINE p == S!Partial(s, r)
  <2>1. PICK y \in Quad(r) : y[2] % QuadSize = 0
    <3>1. 0 \in 0 .. QuadSize - 1
      BY TileOfWarps
    <3> QED  BY <3>1, RowsHaveLanes
  <2>2. \A x \in Quad(r) : OutOf(s, x) = p.o /\ LseOf(s, x) = p.l
    BY <1>1, PartialIs DEF Quad
  <2> HIDE DEF p
  <2>3. row(r) = { p.o }
    BY <2>1, <2>2
  <2>4. Cardinality(row(r)) = 1 /\ (CHOOSE v \in row(r) : TRUE) = p.o
    BY <2>3, FS_Singleton
  <2>5. first(r) \in Quad(r)
    BY <2>1
  <2> QED  BY <2>2, <2>4, <2>5 DEF p
<1>4. S!Store(s, o, l)
  <2> HIDE DEF o, l
  <2> QED  BY <1>2, StoreMaps
<1>5. o = [r \in S!Rows |-> S!Partial(s, r).o] /\ l = [r \in S!Rows |-> S!Partial(s, r).l]
  BY <1>3, SameGeometry
<1>6. S!Store(s, [r \in S!Rows |-> S!Partial(s, r).o], [r \in S!Rows |-> S!Partial(s, r).l])
  <2> HIDE DEF o, l
  <2> QED  BY <1>4, <1>5 DEF S!Store
<1>7. AbsAcc' = AbsAcc /\ AbsNan' = AbsNan
  BY <1>2, AbstractStays
<1> QED  BY <1>2, <1>6, <1>7, SameGeometry DEF S!Epilogue, AbsAcc, AbsNan

-----------------------------------------------------------------------------
(* With the weights in place, a live row's weighted sum is the combination *)
(* of its partial results.                                                 *)
LEMMA WeightedSumIs ==
  ASSUME LaneTypes, AllWeighted, NEW b \in 0 .. CombineRows - 1, Row(b) \in LiveRows(tile),
         NEW x, \A s \in Splits : x[s] = sLSE[<<s, b>>]
  PROVE  WeightedSum(Row(b), x) = S!Combined(Row(b))
<1> DEFINE r == Row(b)
           sum == SumOfRow(r)
           parts == { s \in Splits : x[s].kind = "weight" /\ x[s].of # Empty /\ x[s].sum # PosInf }
<1>1. InLaunch(r)
  BY LiveInLaunch
<1>2. ASSUME NEW s \in Splits
      PROVE  x[s] = Weight(IF s \in Finite(r) THEN Part(s, r) ELSE Empty, sum)
  <2>1. <<s, b>> \in Cells /\ <<s, b>>[1] = s /\ <<s, b>>[2] = b
    BY SplitsHaveCells DEF LaneTypes
  <2>2. x[s] = WeightAt(<<s, b>>)
    BY <2>1 DEF AllWeighted
  <2> QED  BY <2>1, <2>2 DEF WeightAt, LoadedValue
<1>3. \A s \in Splits : /\ x[s].kind = "weight" /\ x[s].sum = sum
                        /\ s \in Finite(r) => x[s].of = Part(s, r)
                        /\ s \notin Finite(r) => x[s].of = Empty
  <2> HIDE DEF r, sum
  <2>1. \A v, z : Weight(v, z).kind = "weight" /\ Weight(v, z).of = v /\ Weight(v, z).sum = z
    BY DEF Weight
  <2> QED  BY <1>2, <2>1
<1>4. \A s : Part(s, r) # Empty
  <2>1. \A s : Part(s, r).kind = "lse" /\ Empty.kind = "-inf"
    BY DEF Part, Empty
  <2> QED  BY <2>1
<1>5. Finite(r) # {} => /\ sum = LogSum(UNION { lseaccum[s][r].keys : s \in Finite(r) })
                        /\ sum # PosInf
  BY DEF SumOfRow, LogSum, PosInf
<1>6. Finite(r) \subseteq Splits /\ Finite(r) = S!Contributing(r)
  BY <1>1, SameGeometry DEF Finite, S!Contributing
<1> HIDE DEF r, sum
<1>7. parts = Finite(r)
  <2>1. \A s \in Splits : s \in parts <=> s \in Finite(r)
    BY <1>3, <1>4, <1>5
  <2> QED  BY <1>6, <2>1
<1> HIDE DEF parts
<1>8. WeightedSum(r, x) = IF \E s \in Splits : oaccum[s][r] = NaN THEN NaN
                          ELSE Mean(UNION { oaccum[s][r].keys : s \in Finite(r) })
  <2>1. /\ \A s \in Splits : x[s].kind = "weight"
        /\ \A s \in parts : /\ x[s].of = Part(s, r)
                            /\ x[s].sum = LogSum(UNION { lseaccum[p][r].keys : p \in parts })
    BY <1>3, <1>5, <1>6, <1>7
  <2> QED  BY <1>1, <1>7, <2>1 DEF WeightedSum, parts
<1> QED  BY <1>6, <1>8, SameGeometry, SameValues DEF S!Combined, r

(* What the CTAs of the first kernel keep.                                 *)
CtaStays == UNCHANGED <<tile, pc, n_block, step, rowMax, rowSum, accO, nan, oaccum, lseaccum>>

(* A warp that accumulates writes its row of the output, for the first     *)
(* time, unless it is past the sequence.                                   *)
LEMMA AccumulateMaps ==
  ASSUME LaneTypes, CombineInv, RaceInv, NEW w \in Warps, Accumulate(w), CtaStays
  PROVE  (\E r \in S!Rows : S!CombineRow(r)) \/ UNCHANGED S!vars
<1> DEFINE r == Row(w)
           x == [s \in Splits |-> sLSE[<<s, r - block * CombineRows>>]]
<1>1. /\ Started /\ cpc[w] = "accumulate" /\ lse' = lse
      /\ out' = [q \in Rows |->
                   IF q = r /\ InLaunch(q) /\ q \in LiveRows(tile)
                   THEN WeightedSum(q, [s \in Splits |-> sLSE[<<s, q - block * CombineRows>>]])
                   ELSE out[q]]
  BY RowOfWarp DEF Accumulate, Goto
<1>2. Splits' = Splits /\ Split' = Split /\ Split /\ \A s \in Splits : pc[s] = "done"
  BY <1>1 DEF Started, CtaStays, Split, Splits
<1>3. AllWeighted /\ Ordered
  BY <1>1 DEF CombineInv, WarpHolds
<1>4. w \in 0 .. CombineRows - 1 /\ r \in Int /\ r - block * CombineRows = w
      /\ (\A v \in Warps : Row(v) = r => v = w) /\ ~ (r < block * CombineRows)
  <2>1. block \in Nat /\ CombineRows \in Nat /\ block * CombineRows \in Nat
    BY <1>3, CombineSizes DEF Ordered
  <2> QED  BY <2>1, OneWarpPerRow DEF Warps, Row
<1>5. AbsAcc' = AbsAcc /\ AbsNan' = AbsNan
  BY AbstractStays DEF CtaStays
<1>6. CASE r \notin LiveRows(tile)
  <2>1. out' = out
    <3>1. \A q \in Rows : out'[q] = out[q]
      BY <1>1, <1>6
    <3>2. out = [q \in Rows |-> out[q]] /\ out' = [q \in Rows |-> out'[q]]
      BY <1>1, <1>3 DEF Ordered
    <3> QED  BY <3>1, <3>2
  <2>2. AbsLse' = AbsLse
    BY <1>1, <2>1, AbstractStays DEF CtaStays
  <2> QED  BY <1>5, <2>1, <2>2 DEF S!vars, CtaStays, AbsAcc, AbsNan, AbsLse
<1>7. CASE r \in LiveRows(tile)
  <2> DEFINE sum == SumOfRow(r)
  <2>1. InLaunch(r) /\ r \in Rows
    BY <1>7, LiveInLaunch
  <2>2. out[r] = Untouched
    <3>1. \A v \in Warps : ~ (cpc[v] = "stored" /\ r = Row(v))
      BY <1>1, <1>4
    <3> QED  BY <1>2, <1>3, <1>4, <2>1, <3>1 DEF Ordered
  <2>3. out'[r] = S!Combined(r)
    <3>1. \A s \in Splits : x[s] = sLSE[<<s, w>>]
      BY <1>4
    <3>2. WeightedSum(r, x) = S!Combined(r)
      <4> HIDE DEF x
      <4> QED  BY <1>3, <1>4, <1>7, <3>1, WeightedSumIs
    <3>3. out'[r] = WeightedSum(r, x)
      <4> HIDE DEF r
      <4> QED  BY <1>1, <1>7, <2>1
    <3> QED  BY <3>2, <3>3
  <2>4. out' = [out EXCEPT ![r] = S!Combined(r)]
    <3>1. out = [q \in Rows |-> out[q]]
      BY <1>3 DEF Ordered
    <3> HIDE DEF r
    <3>2. \A q \in Rows : q # r => out'[q] = out[q]
      BY <1>1
    <3>3. out' = [q \in Rows |-> out'[q]]
      BY <1>1
    <3> QED  BY <2>1, <2>3, <3>1, <3>2, <3>3
  <2>5. S!Combined(r) # Untouched
    BY DEF S!Combined, S!NaN, S!Mean, Untouched
  <2>6. lse[r] = sum
    BY <1>3, <1>4, <1>7 DEF AllWeighted
  <2>7. sum = IF S!Contributing(r) = {} THEN S!PosInf
              ELSE S!LogSum(UNION { lseaccum[s][r].keys : s \in S!Contributing(r) })
    <3>1. Finite(r) = S!Contributing(r)
      BY <2>1, SameGeometry DEF Finite, S!Contributing
    <3> QED  BY <3>1, SameValues DEF SumOfRow
  <2>8. AbsLse[r] = S!Untouched
    BY <1>2, <2>1, <2>2, SameValues DEF AbsLse
  <2>9. AbsLse' = [AbsLse EXCEPT ![r] = sum]
    <3> HIDE DEF r, sum
    <3>1. AbsLse = [q \in Rows |-> IF out[q] = Untouched THEN Untouched ELSE lse[q]]
      BY <1>2 DEF AbsLse
    <3>2. AbsLse' = [q \in Rows |-> IF out'[q] = Untouched THEN Untouched ELSE lse[q]]
      BY <1>1, <1>2 DEF AbsLse
    <3>3. \A q \in Rows : q # r => out'[q] = out[q]
      BY <1>1
    <3> QED  BY <2>1, <2>3, <2>5, <2>6, <3>1, <3>2, <3>3
  <2>10. PICK q \in S!Rows : q = r
    BY <2>1, SameGeometry
  <2>11. /\ S!Split /\ q \in S!LiveRows(tile) /\ \A s \in S!Splits : pc[s] = "done"
         /\ UNCHANGED <<tile, pc, n_block, step, oaccum, lseaccum>>
    BY <1>2, <1>7, <2>10, SameGeometry DEF CtaStays
  <2>12. S!CombineRow(q)
    <3> HIDE DEF r, sum
    <3>1. out' = [out EXCEPT ![q] = S!Combined(q)] /\ AbsLse[q] = S!Untouched
      BY <2>4, <2>8, <2>10
    <3>2. AbsLse' = [AbsLse EXCEPT ![q] = sum]
      BY <2>9, <2>10
    <3>3. sum = IF S!Contributing(q) = {} THEN S!PosInf
                ELSE S!LogSum(UNION { lseaccum[s][q].keys : s \in S!Contributing(q) })
      BY <2>7, <2>10, SameGeometry
    <3>4. AbsLse' = [AbsLse EXCEPT ![q] =
                       IF S!Contributing(q) = {} THEN S!PosInf
                       ELSE S!LogSum(UNION { lseaccum[s][q].keys : s \in S!Contributing(q) })]
      BY <3>2, <3>3
    <3> QED  BY <1>5, <2>11, <3>1, <3>4, SameGeometry DEF S!CombineRow, AbsAcc, AbsNan, AbsLse
  <2> QED  BY <2>10, <2>12
<1> QED  BY <1>6, <1>7

(* The other steps of the combine kernel show at most sums of rows whose   *)
(* output is still missing.                                                *)
LEMMA ReduceStutters ==
  ASSUME CombineInv, RaceInv, NEW w \in Warps, Reduce(w), CtaStays
  PROVE  AbsLse' = AbsLse
<1> DEFINE T == kRowsPerLoadTranspose
<1>1. Started /\ cpc[w] = "reduce" /\ out' = out /\ tile' = tile
  BY DEF Reduce, Goto
<1>2. Split /\ Split' = Split /\ Ordered /\ Weighting
  BY <1>1, PhaseOfWarp DEF Started, Split, CombineInv
<1>3. ASSUME NEW r \in Rows, lse'[r] # lse[r] PROVE out[r] = Untouched
  <2>1. PICK t \in Threads(w) : Row(t \div T) = r
    BY <1>3 DEF Reduce
  <2>2. t \div T \in Nat
    <3>1. t \in Nat /\ T \in Nat \ {0}
      BY OneWarpPerRow, CombineSizes
    <3> HIDE DEF T
    <3> QED  BY <3>1, QuotientRemainder
  <2>3. ~ (r < block * CombineRows)
    <3>1. block \in Nat /\ CombineRows \in Nat /\ block * CombineRows \in Nat
      BY <1>2, CombineSizes DEF Ordered
    <3> QED  BY <2>1, <2>2, <3>1 DEF Row
  <2>4. \A v \in Warps : cpc[v] # "stored"
    BY <1>2 DEF Weighting
  <2> QED  BY <1>2, <2>3, <2>4 DEF Ordered
<1> QED  BY <1>1, <1>2, <1>3 DEF AbsLse

(* Of the combine kernel's steps only Accumulate shows.                    *)
LEMMA CombineMaps ==
  ASSUME LaneTypes, CombineInv, RaceInv, CombineStep, CtaStays
  PROVE  (\E r \in S!Rows : S!CombineRow(r)) \/ UNCHANGED S!vars
<1>1. AbsAcc' = AbsAcc /\ AbsNan' = AbsNan
  BY AbstractStays DEF CtaStays
<1>2. ASSUME out' = out, AbsLse' = AbsLse PROVE UNCHANGED S!vars
  BY <1>1, <1>2 DEF S!vars, CtaStays, AbsAcc, AbsNan, AbsLse
<1>3. ASSUME out' = out, lse' = lse PROVE UNCHANGED S!vars
  <2>1. AbsLse' = AbsLse
    BY <1>3, AbstractStays DEF CtaStays
  <2> QED  BY <1>2, <1>3, <2>1
<1>4. ASSUME NEW w \in Warps, LoadLse(w) \/ StoreWeights(w) PROVE UNCHANGED S!vars
  <2>1. LoadLse(w) => out' = out /\ lse' = lse
    BY DEF LoadLse
  <2>2. StoreWeights(w) => out' = out /\ lse' = lse
    BY DEF StoreWeights
  <2> QED  BY <1>3, <1>4, <2>1, <2>2
<1>5. ASSUME NEW w \in Warps, Reduce(w) PROVE UNCHANGED S!vars
  <2>1. out' = out
    BY <1>5 DEF Reduce
  <2>2. AbsLse' = AbsLse
    BY <1>5, ReduceStutters
  <2> QED  BY <1>2, <2>1, <2>2
<1>6. ASSUME NextBlock \/ CombineBarrier("loaded", "reduce") \/ CombineBarrier("weighted", "accumulate")
      PROVE  UNCHANGED S!vars
  BY <1>3, <1>6 DEF NextBlock, CombineBarrier
<1>7. ASSUME NEW w \in Warps, Accumulate(w) PROVE (\E r \in S!Rows : S!CombineRow(r)) \/ UNCHANGED S!vars
  BY <1>7, AccumulateMaps
<1> QED  BY <1>4, <1>5, <1>6, <1>7 DEF CombineStep

(* Every step is a step of SplitTile or leaves it where it was.            *)
LEMMA NextMaps == TileInv /\ [Next]_vars => [S!Next]_(S!vars)
<1> SUFFICES ASSUME TileInv, [Next]_vars PROVE S!Next \/ UNCHANGED S!vars
  OBVIOUS
<1>1. LaneInv /\ RaceInv /\ CombineInv /\ LaneTypes /\ \A s \in Splits : LanesOf(s) /\ CountsOf(s)
  BY DEF TileInv, LaneInv
<1>2. ASSUME NEW s \in Splits, CtaStep(s) PROVE S!Next
  <2>1. Return(s) => S!Return(s)
    BY ReturnMaps
  <2>2. EarlyExit(s) => S!EarlyExit(s)
    BY <1>1, EarlyExitMaps
  <2>3. Prologue(s) => S!Prologue(s)
    BY PrologueMaps
  <2>4. /\ MaskingIteration(s) => S!MaskingIteration(s)
        /\ UnmaskedIteration(s) => S!UnmaskedIteration(s)
    BY <1>1, IterationsMap
  <2>5. Epilogue(s) => S!Epilogue(s)
    BY <1>1, EpilogueMaps
  <2>6. S!CtaStep(s)
    BY <1>2, <2>1, <2>2, <2>3, <2>4, <2>5 DEF CtaStep, S!CtaStep
  <2>7. s \in S!Splits
    BY SameGeometry
  <2> QED  BY <2>6, <2>7 DEF S!Next
<1>3. ASSUME CombineStep, UNCHANGED <<n_block, step, rowMax, rowSum, accO, nan>>
      PROVE  S!Next \/ UNCHANGED S!vars
  <2>1. UNCHANGED <<tile, pc, oaccum, lseaccum>>
    <3> DEFINE stays == UNCHANGED <<tile, pc, oaccum, lseaccum>>
    <3>1. \A w \in Warps : LoadLse(w) => stays
      BY DEF LoadLse
    <3>2. \A w \in Warps : Reduce(w) => stays
      BY DEF Reduce
    <3>3. \A w \in Warps : StoreWeights(w) => stays
      BY DEF StoreWeights
    <3>4. \A w \in Warps : Accumulate(w) => stays
      BY DEF Accumulate
    <3>5. \A from, to : CombineBarrier(from, to) => stays
      BY DEF CombineBarrier
    <3>6. NextBlock => stays
      BY DEF NextBlock
    <3> HIDE DEF stays
    <3>7. stays
      BY <1>3, <3>1, <3>2, <3>3, <3>4, <3>5, <3>6 DEF CombineStep
    <3> QED  BY <3>7 DEF stays
  <2>2. CtaStays
    BY <1>3, <2>1 DEF CtaStays
  <2> QED  BY <1>1, <1>3, <2>2, CombineMaps DEF S!Next
<1>4. ASSUME UNCHANGED vars PROVE UNCHANGED S!vars
  <2>1. CtaStays /\ out' = out /\ lse' = lse
    BY <1>4 DEF vars, cta, CtaStays
  <2>2. AbsAcc' = AbsAcc /\ AbsNan' = AbsNan /\ AbsLse' = AbsLse
    BY <2>1, AbstractStays DEF CtaStays
  <2> QED  BY <2>1, <2>2 DEF S!vars, CtaStays, AbsAcc, AbsNan, AbsLse
<1> QED  BY <1>2, <1>3, <1>4 DEF Next, Terminating

(***************************************************************************)
(* Lanes, registers, shuffles, and the warps and shared array of the       *)
(* combine kernel compute what SplitTile computes on whole rows.           *)
(***************************************************************************)
THEOREM ThreadsImplementTile == Spec => ImplementsSplitTile
<1>1. Spec => []TileInv
  BY TileInvAtStart, TileInvStep, PTL DEF Spec
<1> QED  BY <1>1, InitMaps, NextMaps, PTL DEF Spec, ImplementsSplitTile, S!Spec

-----------------------------------------------------------------------------
(***************************************************************************)
(* What is proved of SplitTile holds for the tile the threads implement:   *)
(* the proofs' instance of SplitTile is the same specification as S.       *)
(***************************************************************************)
Proved == INSTANCE SplitTileProofs WITH
            acc <- [s \in Splits |-> [r \in Rows |-> UNION { Sources(rowSum[s][x]) : x \in Quad(r) }]],
            nan <- [s \in Splits |-> { RowOf(x) : x \in nan[s] }],
            lse <- [r \in Rows |-> IF Split /\ out[r] = Untouched THEN Untouched ELSE lse[r]]

(* Its assumptions about the tiles are met.                                *)
LEMMA TilesOfTheProof == Proved!TilesAreValid /\ Proved!BlocksArePositive
<1>1. Proved!ValidTiles = ValidTiles
  BY DEF Proved!ValidTiles, ValidTiles
<1> QED  BY <1>1, TilesAreValid, BlocksArePositive
            DEF Proved!TilesAreValid, Proved!BlocksArePositive

(* The definitions of the two instances expand to the same formulas.       *)
LEMMA SameSteps ==
  /\ S!Init => Proved!Init
  /\ S!Next => Proved!Next
  /\ UNCHANGED S!vars => UNCHANGED Proved!vars
  /\ Proved!ResultIsAttention => S!ResultIsAttention
<1> USE DEF S!Rows, Proved!Rows, S!Splits, Proved!Splits, S!Split, Proved!Split, S!LiveRows,
            Proved!LiveRows, S!Mean, Proved!Mean, S!NaN, Proved!NaN, S!LogSum, Proved!LogSum,
            S!NegInf, Proved!NegInf, S!PosInf, Proved!PosInf, S!Untouched, Proved!Untouched,
            S!AtLeast, Proved!AtLeast, S!AtMost, Proved!AtMost, S!TruncDiv, Proved!TruncDiv,
            S!CeilDiv, Proved!CeilDiv, S!Shift, Proved!Shift, S!MaskingSteps, Proved!MaskingSteps,
            S!FirstBlock, Proved!FirstBlock, S!LastBlock, Proved!LastBlock, S!BlocksPerSplit,
            Proved!BlocksPerSplit, S!BlockMin, Proved!BlockMin, S!BlockMax, Proved!BlockMax,
            S!BlockKeys, Proved!BlockKeys, S!Token, Proved!Token, S!Tokens, Proved!Tokens,
            S!LimitLeft, Proved!LimitLeft, S!LimitRight, Proved!LimitRight, S!Kept, Proved!Kept,
            S!Visible, Proved!Visible, S!Jump, Proved!Jump, S!Store, Proved!Store, S!Finished,
            Proved!Finished
<1>1. S!Init => Proved!Init
  BY DEF S!Init, Proved!Init
<1>2. \A s : S!Return(s) => Proved!Return(s)
  BY DEF S!Return, Proved!Return
<1>3. \A s : S!EarlyExit(s) => Proved!EarlyExit(s)
  BY DEF S!EarlyExit, Proved!EarlyExit
<1>4. \A s : S!Prologue(s) => Proved!Prologue(s)
  BY DEF S!Prologue, Proved!Prologue
<1>5. \A s : S!MaskingIteration(s) => Proved!MaskingIteration(s)
  BY DEF S!MaskingIteration, Proved!MaskingIteration, S!Fold, Proved!Fold, S!GarbageV,
         Proved!GarbageV, S!Evicted, Proved!Evicted, S!ClearedByWindow, Proved!ClearedByWindow,
         S!ClearedByLoad, Proved!ClearedByLoad
<1>6. \A s : S!UnmaskedIteration(s) => Proved!UnmaskedIteration(s)
  BY DEF S!UnmaskedIteration, Proved!UnmaskedIteration, S!Fold, Proved!Fold, S!GarbageV,
         Proved!GarbageV, S!Evicted, Proved!Evicted, S!ClearedByWindow, Proved!ClearedByWindow,
         S!ClearedByLoad, Proved!ClearedByLoad
<1>7. \A s : S!Epilogue(s) => Proved!Epilogue(s)
  BY DEF S!Epilogue, Proved!Epilogue, S!Partial, Proved!Partial
<1>8. \A r : S!CombineRow(r) => Proved!CombineRow(r)
  BY DEF S!CombineRow, Proved!CombineRow, S!Combined, Proved!Combined, S!Contributing,
         Proved!Contributing
<1>9. (UNCHANGED S!vars => UNCHANGED Proved!vars) /\ (S!Terminating => Proved!Terminating)
  BY DEF S!vars, Proved!vars, S!Terminating, Proved!Terminating
<1>10. S!Next => Proved!Next
  BY <1>2, <1>3, <1>4, <1>5, <1>6, <1>7, <1>8, <1>9
     DEF S!Next, Proved!Next, S!CtaStep, Proved!CtaStep
<1>11. Proved!ResultIsAttention => S!ResultIsAttention
  BY DEF S!ResultIsAttention, Proved!ResultIsAttention
<1> QED  BY <1>1, <1>9, <1>10, <1>11

(***************************************************************************)
(* So, whatever the split count, the tile and the interleaving of warps in *)
(* the combine kernel, each query row ends with the average over exactly   *)
(* the keys it may see, and rows past the sequence are never written.      *)
(***************************************************************************)
THEOREM ThreadsComputeAttention == Spec => []ResultIsAttention
<1>1. Spec => S!Spec
  BY ThreadsImplementTile DEF ImplementsSplitTile
<1>2. Proved!Spec => []Proved!ResultIsAttention
  BY TilesOfTheProof, Proved!KernelComputesAttention
<1>3. [S!Next]_(S!vars) => [Proved!Next]_(Proved!vars)
  BY SameSteps
<1>4. S!Spec => Proved!Spec
  BY <1>3, SameSteps, PTL DEF S!Spec, Proved!Spec
<1> QED  BY <1>1, <1>2, <1>4, SameSteps, PTL DEF ResultIsAttention
=============================================================================
