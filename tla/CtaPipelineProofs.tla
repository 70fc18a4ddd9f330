-------------------------- MODULE CtaPipelineProofs --------------------------
(***************************************************************************)
(* The pipeline of a CTA for any number of warps and key blocks, in both   *)
(* builds: types, the barriers, what the products read, the output tile,   *)
(* and the safety part of the refinement of TileStream.                    *)
(***************************************************************************)
EXTENDS CtaPipeline, SequenceTheorems, TLAPS

(***************************************************************************)
(* Between two barriers the warps are in the same phase: a set of program  *)
(* points.  The phase that fetches a tile reaches from the last part of    *)
(* one iteration to the first barrier of the next one, or, for a kernel    *)
(* that does not split, to the staged output.                              *)
(***************************************************************************)
LoopPoints == {"prologue", "wait_k", "bar_top", "convert_k", "bar_k", "load_v", "qk", "wait_v",
               "bar_mid", "convert_v", "bar_v", "clear_v", "bar_clear", "load_k", "pv"}

Phase(w) ==
  IF pc[w] \in {"convert_k", "bar_k"} THEN "k"
  ELSE IF pc[w] \in {"load_v", "qk", "wait_v", "bar_mid"} THEN "qk"
  ELSE IF pc[w] \in {"convert_v", "bar_v"} THEN "v"
  ELSE IF pc[w] \in {"clear_v", "bar_clear"} THEN "clear"
  ELSE IF pc[w] \in {"store_o", "done"} THEN "store"
  ELSE IF mode.split /\ pc[w] \in {"stage_o", "bar_o"} THEN "stage"
  ELSE "fetch"

(* The iteration whose K tile the warp fetches, waits for or uses.         *)
Index(w) == IF pc[w] \in {"load_k", "pv"} THEN n_block[w] - 1 ELSE n_block[w]

Together == \A w, x \in Warps : Phase(w) = Phase(x) /\ Index(w) = Index(x)

(* A build or launch without a feature never reaches its program points.   *)
PointsOfMode(w) ==
  /\ pc[w] \in {"convert_k", "bar_k", "convert_v", "bar_v"} => mode.pipeline
  /\ pc[w] \in {"clear_v", "bar_clear"} => mode.local
  /\ pc[w] = "bar_out" => mode.split

LoopIndex(w) ==
  /\ pc[w] \in LoopPoints => n_min <= n_block[w] /\ n_block[w] < n_max
  /\ pc[w] \notin LoopPoints => n_block[w] = n_min - 1
  /\ pc[w] = "prologue" => n_block[w] = n_max - 1

(* The copies that may be in flight at a program point.                    *)
Pending(w) ==
  { c \in {Copy("q", 0), Copy("k", n_block[w]), Copy("k", n_block[w] - 1), Copy("v", n_block[w])} :
      \/ pc[w] = "wait_k" /\ c = Copy("q", 0)
      \/ pc[w] = "wait_k" /\ mode.pipeline /\ c = Copy("k", n_block[w])
      \/ pc[w] \in {"qk", "wait_v"} /\ mode.pipeline /\ c = Copy("v", n_block[w])
      \/ pc[w] = "pv" /\ mode.pipeline /\ n_min < n_block[w] /\ c = Copy("k", n_block[w] - 1) }

InFlight(w) == open[w] = {} /\ group[w] \subseteq Pending(w)

(* The warp's slice of the K tile: staged, on its way, or converted.       *)
KSlice(w) ==
  /\ pc[w] \in {"bar_k", "load_v", "qk", "wait_v", "bar_mid"} => sK[w] = n_block[w]
  /\ mode.pipeline =>
       /\ pc[w] = "wait_k" => kStage[w] = n_block[w] \/ Copy("k", n_block[w]) \in group[w]
       /\ pc[w] \in {"bar_top", "convert_k"} => kStage[w] = n_block[w]
       /\ pc[w] = "pv" /\ n_min < n_block[w] =>
            kStage[w] = n_block[w] - 1 \/ Copy("k", n_block[w] - 1) \in group[w]
  /\ ~ mode.pipeline =>
       /\ pc[w] \in {"wait_k", "bar_top"} => sK[w] = n_block[w]
       /\ pc[w] = "pv" /\ n_min < n_block[w] => sK[w] = n_block[w] - 1

(* The warp is through with its last V tile, slower warps may not be.      *)
Ahead(w) ==
  /\ n_block[w] < n_max - 1
  /\ \/ pc[w] \in {"wait_k", "bar_top", "bar_out"}
     \/ ~ mode.split /\ pc[w] \in {"stage_o", "bar_o"}

VSlice(w) ==
  /\ pc[w] \in {"bar_v", "clear_v", "bar_clear", "load_k", "pv"} => sV[w] = n_block[w]
  /\ Ahead(w) => sV[w] = n_block[w] + 1
  /\ mode.local /\ (pc[w] \in {"bar_clear", "load_k", "pv"} \/ Ahead(w)) => w \in cleared
  /\ mode.pipeline =>
       /\ pc[w] \in {"qk", "wait_v"} => vStage[w] = n_block[w] \/ Copy("v", n_block[w]) \in group[w]
       /\ pc[w] \in {"bar_mid", "convert_v"} => vStage[w] = n_block[w]
  /\ ~ mode.pipeline /\ pc[w] \in {"qk", "wait_v", "bar_mid"} => sV[w] = n_block[w]

(* The warp's part of Q has landed, for the rows of every warp.            *)
QLanded(w) == \A x \in Warps : w \in qRows[x]

QSlice(w) ==
  /\ pc[w] = "wait_k" => QLanded(w) \/ Copy("q", 0) \in group[w]
  /\ pc[w] \in LoopPoints \ {"prologue", "wait_k", "load_k", "pv"} => QLanded(w)
  /\ pc[w] \in {"load_k", "pv"} /\ n_min < n_block[w] => QLanded(w)

(* What the running product has read so far is of its own iteration.       *)
ReadSoFar(w) ==
  /\ pc[w] \in {"qk", "pv"} => got[w] \subseteq { <<x, n_block[w]>> : x \in Warps }
  /\ pc[w] \notin {"qk", "pv"} => got[w] = {}

(* The pairs of the iterations a warp has completed.                       *)
HalfDone == {"wait_v", "bar_mid", "convert_v", "bar_v", "clear_v", "bar_clear", "load_k", "pv"}

PairsBefore(n) == [i \in 1 .. n_max - 1 - n |-> <<n_max - i, n_max - i>>]

Multiplied(w) ==
  used[w] = IF pc[w] \in HalfDone
            THEN Append(PairsBefore(n_block[w]), <<n_block[w], Empty>>)
            ELSE PairsBefore(n_block[w])

Staged(w) == w \in sO <=> pc[w] \in {"bar_o", "store_o", "done"}

WarpInv(w) ==
  /\ PointsOfMode(w) /\ LoopIndex(w) /\ InFlight(w) /\ KSlice(w) /\ VSlice(w)
  /\ QSlice(w) /\ ReadSoFar(w) /\ Multiplied(w) /\ Staged(w)

PipelineInv == TypeOK /\ Together /\ \A w \in Warps : WarpInv(w)

-----------------------------------------------------------------------------
(* A CTA has at least one warp.                                            *)
LEMMA SomeWarp == \E w \in Warps : TRUE
  BY WarpsAssumption

(* The pairs before an iteration are a sequence, one pair per iteration.   *)
LEMMA PairsTypes ==
  ASSUME TypeOK, NEW n \in Int, n < n_max
  PROVE  PairsBefore(n) \in Seq(Int \X Int) /\ Len(PairsBefore(n)) = n_max - 1 - n
  <1>1. n_max - 1 - n \in Nat /\ n_max \in Int
    BY DEF TypeOK
  <1>2. \A i \in 1 .. n_max - 1 - n : <<n_max - i, n_max - i>> \in Int \X Int
    BY <1>1
  <1> QED
    BY <1>1, <1>2 DEF PairsBefore

(* Before the first iteration there is none.                               *)
LEMMA NoPairsAtFirst == ASSUME TypeOK PROVE PairsBefore(n_max - 1) = << >>
  <1>1. n_max \in Int /\ n_max - 1 \in Int /\ n_max - 1 < n_max
    BY DEF TypeOK
  <1>2. PairsBefore(n_max - 1) \in Seq(Int \X Int) /\ Len(PairsBefore(n_max - 1)) = 0
    BY <1>1, PairsTypes
  <1> QED
    BY <1>2, EmptySeq

(* An iteration adds its pair to those before it.                          *)
LEMMA PairsGrow ==
  ASSUME TypeOK, NEW n \in Int, n < n_max
  PROVE  PairsBefore(n - 1) = Append(PairsBefore(n), <<n, n>>)
  <1> DEFINE s == PairsBefore(n - 1)
             t == Append(PairsBefore(n), <<n, n>>)
  <1>0. n_max \in Int /\ n - 1 \in Int /\ n - 1 < n_max /\ <<n, n>> \in Int \X Int
    BY DEF TypeOK
  <1>1. /\ PairsBefore(n) \in Seq(Int \X Int) /\ Len(PairsBefore(n)) = n_max - 1 - n
        /\ s \in Seq(Int \X Int) /\ Len(s) = n_max - n
    <2>1. n_max - 1 - (n - 1) = n_max - n
      BY <1>0
    <2> QED
      BY <1>0, <2>1, PairsTypes
  <1>2. /\ t \in Seq(Int \X Int) /\ Len(t) = n_max - n
        /\ \A i \in 1 .. n_max - 1 - n : t[i] = PairsBefore(n)[i]
        /\ t[n_max - n] = <<n, n>>
    <2>1. n_max - 1 - n + 1 = n_max - n
      BY <1>0
    <2> QED
      BY <1>0, <1>1, <2>1, AppendProperties
  <1>3. ASSUME NEW i \in 1 .. n_max - n PROVE s[i] = t[i]
    <2>1. s[i] = <<n_max - i, n_max - i>>
      BY <1>0 DEF PairsBefore
    <2>2. CASE i = n_max - n
      <3> HIDE DEF s, t
      <3>1. n_max - i = n
        BY <1>0, <2>2
      <3>2. t[i] = <<n, n>>
        BY <1>2, <2>2
      <3> QED
        BY <2>1, <3>1, <3>2
    <2>3. CASE i # n_max - n
      <3>1. i \in 1 .. n_max - 1 - n
        BY <1>0, <2>3
      <3>2. PairsBefore(n)[i] = <<n_max - i, n_max - i>>
        BY <3>1 DEF PairsBefore
      <3> QED
        BY <1>2, <2>1, <3>1, <3>2
    <2> QED
      BY <2>2, <2>3
  <1> HIDE DEF s, t
  <1>4. s = t
    BY <1>1, <1>2, <1>3, SeqEqual
  <1> QED
    BY <1>4 DEF s, t

(* Replacing the last element of a sequence.                               *)
LEMMA ReplaceLast ==
  ASSUME NEW S, NEW s \in Seq(S), NEW d \in S, NEW e \in S
  PROVE  /\ [Append(s, d) EXCEPT ![Len(Append(s, d))] = e] = Append(s, e)
         /\ Append(s, d)[Len(Append(s, d))] = d
  <1> DEFINE t == Append(s, d)
             u == [t EXCEPT ![Len(t)] = e]
             v == Append(s, e)
  <1>1. Len(s) \in Nat
    BY LenProperties
  <1>2. /\ t \in Seq(S) /\ Len(t) = Len(s) + 1 /\ t[Len(s) + 1] = d
        /\ \A i \in 1 .. Len(s) : t[i] = s[i]
    BY AppendProperties
  <1>3. /\ v \in Seq(S) /\ Len(v) = Len(s) + 1 /\ v[Len(s) + 1] = e
        /\ \A i \in 1 .. Len(s) : v[i] = s[i]
    BY AppendProperties
  <1> HIDE DEF t, v
  <1>4. Len(t) \in 1 .. Len(t)
    BY <1>1, <1>2
  <1>5. /\ u \in Seq(S) /\ Len(u) = Len(t)
        /\ \A j \in 1 .. Len(t) : u[j] = IF j = Len(t) THEN e ELSE t[j]
    BY <1>2, <1>4, ExceptSeq
  <1> HIDE DEF u
  <1>6. \A i \in 1 .. Len(u) : u[i] = v[i]
    BY <1>1, <1>2, <1>3, <1>5
  <1>7. u = v
    BY <1>2, <1>3, <1>5, <1>6, SeqEqual
  <1> QED
    BY <1>2, <1>7 DEF t, u, v

(* Dropping the element appended last.                                     *)
LEMMA DropLast ==
  ASSUME NEW S, NEW s \in Seq(S), NEW d \in S
  PROVE  SubSeq(Append(s, d), 1, Len(Append(s, d)) - 1) = s
  <1> DEFINE t == Append(s, d)
             u == SubSeq(t, 1, Len(t) - 1)
  <1>1. Len(s) \in Nat
    BY LenProperties
  <1>2. /\ t \in Seq(S) /\ Len(t) = Len(s) + 1
        /\ \A i \in 1 .. Len(s) : t[i] = s[i]
    BY AppendProperties
  <1> HIDE DEF t
  <1>3. Len(t) - 1 = Len(s) /\ Len(t) - 1 \in Int /\ \A i \in 1 .. Len(t) - 1 : t[i] \in S
    BY <1>1, <1>2, ElementOfSeq
  <1>4. /\ u \in Seq(S)
        /\ Len(u) = IF 1 <= Len(t) - 1 THEN Len(t) - 1 - 1 + 1 ELSE 0
        /\ \A i \in 1 .. Len(t) - 1 - 1 + 1 : u[i] = t[1 + i - 1]
    BY <1>3, SubSeqProperties
  <1> HIDE DEF u
  <1>5. Len(u) = Len(s)
    BY <1>1, <1>3, <1>4
  <1>6. \A i \in 1 .. Len(u) : u[i] = s[i]
    BY <1>1, <1>2, <1>3, <1>4, <1>5
  <1>7. u = s
    BY <1>4, <1>5, <1>6, SeqEqual
  <1> QED
    BY <1>7 DEF t, u

-----------------------------------------------------------------------------
(* A product that has read all slices has read the tile of its iteration.  *)
LEMMA TileReadIsOwn ==
  ASSUME NEW w \in Warps, ReadSoFar(w), pc[w] \in {"qk", "pv"}, AllRead(w)
  PROVE  TileRead(w) = n_block[w]
  <1> DEFINE n == n_block[w]
             T == { g[2] : g \in got[w] }
  <1>1. got[w] \subseteq { <<x, n>> : x \in Warps } /\ { g[1] : g \in got[w] } = Warps
    BY DEF ReadSoFar, AllRead
  <1>2. got[w] = { <<x, n>> : x \in Warps }
    <2>1. ASSUME NEW x \in Warps PROVE <<x, n>> \in got[w]
      <3>1. PICK g \in got[w] : g[1] = x
        BY <1>1
      <3>2. g = <<x, n>>
        BY <1>1, <3>1
      <3> QED
        BY <3>2
    <2> QED
      BY <1>1, <2>1
  <1>3. T = {n}
    <2>1. \A g \in got[w] : g[2] = n
      BY <1>1
    <2>2. PICK x \in Warps : TRUE
      BY SomeWarp
    <2>3. <<x, n>> \in got[w] /\ <<x, n>>[2] = n
      BY <1>2
    <2> QED
      BY <2>1, <2>3
  <1>4. (CHOOSE t \in T : TRUE) = n
    BY <1>3
  <1>5. \E t \in T : got[w] = { <<x, t>> : x \in Warps }
    BY <1>2, <1>3
  <1> HIDE DEF T
  <1>6. TileRead(w) = CHOOSE t \in T : TRUE
    BY <1>5 DEF TileRead, T
  <1> QED
    BY <1>4, <1>6

(* The pair a warp is working on is the last of its sequence; completing   *)
(* it gives the pairs before the next iteration.                           *)
LEMMA PairCompleted ==
  ASSUME TypeOK, NEW w \in Warps, Multiplied(w), pc[w] \in HalfDone, n_block[w] < n_max,
         NEW v \in Int
  PROVE  /\ [used[w] EXCEPT ![Len(used[w])] = <<used[w][Len(used[w])][1], v>>]
              = Append(PairsBefore(n_block[w]), <<n_block[w], v>>)
         /\ SubSeq(used[w], 1, Len(used[w]) - 1) = PairsBefore(n_block[w])
  <1> DEFINE n == n_block[w]
             s == PairsBefore(n)
             d == <<n, Empty>>
  <1>1. n \in Int /\ s \in Seq(Int \X Int) /\ d \in Int \X Int /\ <<n, v>> \in Int \X Int
    <2>1. n \in Int /\ Empty \in Int
      BY DEF TypeOK, Empty
    <2> QED
      BY <2>1, PairsTypes
  <1>2. used[w] = Append(s, d)
    BY DEF Multiplied
  <1>3. d[1] = n
    OBVIOUS
  <1> DEFINE e == <<n, v>>
  <1> HIDE DEF s, d, e
  <1>4. e \in Int \X Int
    BY <1>1 DEF e
  <1>5. used[w][Len(used[w])] = d
    BY <1>1, <1>2, ReplaceLast
  <1>6. used[w][Len(used[w])][1] = n
    BY <1>3, <1>5
  <1>7. [used[w] EXCEPT ![Len(used[w])] = e] = Append(s, e)
    <2>1. [Append(s, d) EXCEPT ![Len(Append(s, d))] = e] = Append(s, e)
      BY <1>1, <1>4, ReplaceLast
    <2> QED
      BY <1>2, <2>1
  <1>8. SubSeq(used[w], 1, Len(used[w]) - 1) = s
    BY <1>1, <1>2, DropLast
  <1> QED
    BY <1>6, <1>7, <1>8 DEF s, e

(* While one warp multiplies Q with K, every slice of K and Q is in place. *)
LEMMA KTileInPlace ==
  ASSUME PipelineInv, NEW w \in Warps, pc[w] = "qk", NEW x \in Warps
  PROVE  sK[x] = n_block[w] /\ QLanded(x)
  <1>1. /\ Phase(x) = Phase(w) /\ Index(x) = Index(w) /\ pc[x] \in Points
        /\ KSlice(x) /\ QSlice(x)
    BY DEF PipelineInv, Together, WarpInv, TypeOK
  <1>2. pc[x] \in {"load_v", "qk", "wait_v", "bar_mid"}
    BY <1>1 DEF Phase, Points
  <1>3. n_block[x] = n_block[w]
    BY <1>1, <1>2 DEF Index
  <1> QED
    BY <1>1, <1>2, <1>3 DEF KSlice, QSlice, LoopPoints

(* While one warp multiplies P with V, every slice of V is in place, also  *)
(* of the warps that are already past it.                                  *)
LEMMA VTileInPlace ==
  ASSUME PipelineInv, NEW w \in Warps, pc[w] = "pv", NEW x \in Warps
  PROVE  sV[x] = n_block[w] /\ (mode.local => x \in cleared)
  <1>1. /\ Phase(x) = Phase(w) /\ Index(x) = Index(w) /\ pc[x] \in Points
        /\ VSlice(x) /\ LoopIndex(x) /\ LoopIndex(w)
        /\ n_block[x] \in Int /\ n_block[w] \in Int /\ n_max \in Int
    BY DEF PipelineInv, Together, WarpInv, TypeOK
  <1>2. Phase(x) = "fetch" /\ Index(x) = n_block[w] - 1 /\ n_block[w] < n_max
    BY <1>1 DEF Phase, Index, LoopIndex, LoopPoints
  <1>3. \/ pc[x] \in {"prologue", "wait_k", "bar_top", "load_k", "pv", "bar_out"}
        \/ (~ mode.split /\ pc[x] \in {"stage_o", "bar_o"})
    BY <1>1, <1>2 DEF Phase, Points
  <1>4. CASE pc[x] \in {"load_k", "pv"}
    BY <1>1, <1>2, <1>4 DEF Index, VSlice
  <1>5. CASE pc[x] \notin {"load_k", "pv"}
    <2>1. n_block[x] = n_block[w] - 1
      BY <1>2, <1>5 DEF Index
    <2>2. Ahead(x)
      BY <1>1, <1>2, <1>3, <1>5, <2>1 DEF Ahead, LoopIndex, LoopPoints
    <2> QED
      BY <1>1, <2>1, <2>2 DEF VSlice
  <1> QED
    BY <1>4, <1>5

(* What PV does to a warp's sequence of pairs.                             *)
LEMMA PVAppends ==
  ASSUME PipelineInv, NEW w \in Warps, PV(w)
  PROVE  used' = [used EXCEPT ![w] = PairsBefore(n_block[w] - 1)]
  <1>1. /\ TypeOK /\ WarpInv(w) /\ pc[w] = "pv" /\ AllRead(w)
        /\ n_block[w] \in Int /\ n_block[w] < n_max
    BY DEF PipelineInv, PV, Jump, WarpInv, LoopIndex, LoopPoints, TypeOK
  <1>2. TileRead(w) = n_block[w]
    BY <1>1, TileReadIsOwn DEF WarpInv
  <1>3. ~ (mode.local /\ cleared # Warps)
    BY <1>1, VTileInPlace DEF TypeOK
  <1>4. used' = [used EXCEPT ![w] =
                   [used[w] EXCEPT ![Len(used[w])] = <<used[w][Len(used[w])][1], n_block[w]>>]]
    BY <1>2, <1>3 DEF PV
  <1>5. [used[w] EXCEPT ![Len(used[w])] = <<used[w][Len(used[w])][1], n_block[w]>>]
          = Append(PairsBefore(n_block[w]), <<n_block[w], n_block[w]>>)
    BY <1>1, PairCompleted DEF WarpInv, HalfDone
  <1>6. Append(PairsBefore(n_block[w]), <<n_block[w], n_block[w]>>) = PairsBefore(n_block[w] - 1)
    BY <1>1, PairsGrow
  <1> QED
    BY <1>4, <1>5, <1>6

(* What QK does to it.                                                     *)
LEMMA QKAppends ==
  ASSUME PipelineInv, NEW w \in Warps, QK(w)
  PROVE  used' = [used EXCEPT ![w] = Append(PairsBefore(n_block[w]), <<n_block[w], Empty>>)]
  <1>1. TypeOK /\ WarpInv(w) /\ pc[w] = "qk" /\ AllRead(w)
    BY DEF PipelineInv, QK, Jump
  <1>2. TileRead(w) = n_block[w]
    BY <1>1, TileReadIsOwn DEF WarpInv
  <1>3. used[w] = PairsBefore(n_block[w])
    BY <1>1 DEF WarpInv, Multiplied, HalfDone
  <1>4. qRows[w] = Warps
    BY <1>1, KTileInPlace DEF QLanded, TypeOK
  <1> QED
    BY <1>2, <1>3, <1>4 DEF QK

-----------------------------------------------------------------------------
(* The invariant holds before the first warp runs.                         *)
LEMMA InitPipelineInv == Init => PipelineInv
  <1> SUFFICES ASSUME Init PROVE PipelineInv
    OBVIOUS
  <1>1. /\ n_min \in Nat /\ n_max \in Nat /\ n_min < n_max /\ mode \in Modes
        /\ \A w \in Warps : pc[w] = "prologue" /\ n_block[w] = n_max - 1
    BY MaxBlocksAssumption DEF Init
  <1>2. TypeOK
    BY <1>1, EmptySeq DEF Init, TypeOK, Points, Copies, Empty
  <1>3. Together
    BY <1>1 DEF Together, Phase, Index
  <1>4. ASSUME NEW w \in Warps PROVE WarpInv(w)
    <2>1. PointsOfMode(w) /\ LoopIndex(w) /\ InFlight(w) /\ Staged(w) /\ ReadSoFar(w)
      BY <1>1, <1>4 DEF Init, PointsOfMode, LoopIndex, LoopPoints, InFlight, Staged, ReadSoFar
    <2>2. KSlice(w) /\ VSlice(w) /\ QSlice(w)
      BY <1>1, <1>4 DEF KSlice, VSlice, Ahead, QSlice, LoopPoints
    <2>3. Multiplied(w)
      BY <1>1, <1>2, <1>4, NoPairsAtFirst DEF Init, Multiplied, HalfDone
    <2> QED
      BY <2>1, <2>2, <2>3 DEF WarpInv
  <1> QED
    BY <1>2, <1>3, <1>4 DEF PipelineInv

-----------------------------------------------------------------------------
(* Copies of tiles of the CTA's range are copies.                          *)
LEMMA CopyTypes ==
  ASSUME NEW b \in {"q", "k", "v"}, NEW n \in Int, n >= 0
  PROVE  Copy(b, n) \in Copies
  BY DEF Copy, Copies

(* Every action keeps the types.                                           *)
LEMMA NextPipelineTypes ==
  ASSUME PipelineInv, [Next]_vars
  PROVE  TypeOK'
  <1> USE DEF loopVars
  <1>1. TypeOK /\ \A w \in Warps : WarpInv(w) /\ LoopIndex(w)
    BY DEF PipelineInv, WarpInv
  <1>2. /\ n_min \in Nat /\ n_max \in Nat /\ n_block \in [Warps -> Int] /\ pc \in [Warps -> Points]
        /\ open \in [Warps -> SUBSET Copies] /\ group \in [Warps -> SUBSET Copies]
    BY <1>1 DEF TypeOK
  <1>3. ASSUME NEW w \in Warps, NEW cs \in SUBSET Copies, IssueAndFence(w, cs)
        PROVE  open' \in [Warps -> SUBSET Copies] /\ group' \in [Warps -> SUBSET Copies]
    BY <1>2, <1>3 DEF IssueAndFence
  <1>4. ASSUME NEW w \in Warps, LandSome(w) PROVE TypeOK'
    <2>1. PICK c \in open[w] \cup group[w] : Land(w, c)
      BY <1>4 DEF LandSome
    <2>2. c \in Copies /\ c.tile \in Int
      BY <1>2, <2>1 DEF Copies
    <2> QED
      BY <1>1, <2>1, <2>2 DEF TypeOK, Land
  <1>5. ASSUME NEW w \in Warps, Prologue(w) PROVE TypeOK'
    <2>1. n_block[w] \in Int /\ n_block[w] >= 0
      BY <1>1, <1>2, <1>5 DEF LoopIndex, LoopPoints, Prologue, Jump
    <2>2. Copy("q", 0) \in Copies /\ Copy("k", n_block[w]) \in Copies
      BY <2>1, CopyTypes
    <2>3. open' \in [Warps -> SUBSET Copies] /\ group' \in [Warps -> SUBSET Copies]
      BY <1>3, <1>5, <2>2 DEF Prologue
    <2>4. sK' \in [Warps -> Int]
      BY <1>1, <1>5, <2>1 DEF Prologue, TypeOK
    <2> QED
      BY <1>1, <1>5, <2>3, <2>4 DEF TypeOK, Prologue, Jump, Points
  <1>6. ASSUME NEW w \in Warps, WaitK(w) \/ ConvertK(w) \/ WaitV(w) \/ ConvertV(w) \/ ClearV(w)
        PROVE  TypeOK'
    <2>1. CASE WaitK(w) \/ WaitV(w)
      BY <1>1, <2>1 DEF TypeOK, WaitK, WaitV, Jump, Points
    <2>2. CASE ConvertK(w)
      BY <1>1, <2>2 DEF TypeOK, ConvertK, Jump, Points
    <2>3. CASE ConvertV(w)
      BY <1>1, <2>3 DEF TypeOK, ConvertV, Jump, Points
    <2>4. CASE ClearV(w)
      BY <1>1, <2>4 DEF TypeOK, ClearV, Jump, Points
    <2> QED
      BY <1>6, <2>1, <2>2, <2>3, <2>4
  <1>7. ASSUME NEW w \in Warps, LoadV(w) PROVE TypeOK'
    <2>1. n_block[w] \in Int /\ n_block[w] >= 0
      BY <1>1, <1>2, <1>7 DEF LoopIndex, LoopPoints, LoadV, Jump
    <2>2. Copy("v", n_block[w]) \in Copies
      BY <2>1, CopyTypes
    <2>3. open' \in [Warps -> SUBSET Copies] /\ group' \in [Warps -> SUBSET Copies]
      BY <1>3, <1>7, <2>2 DEF LoadV
    <2>4. sV' \in [Warps -> Int] /\ cleared' \subseteq Warps
      BY <1>1, <1>7, <2>1 DEF LoadV, TypeOK
    <2> QED
      BY <1>1, <1>7, <2>3, <2>4 DEF TypeOK, LoadV, Jump, Points
  <1>8. ASSUME NEW w \in Warps, NEW x \in Warps, ReadSlice(w, x) PROVE TypeOK'
    <2>1. <<x, IF pc[w] = "qk" THEN sK[x] ELSE sV[x]>> \in Warps \X Int
      BY <1>1 DEF TypeOK
    <2>2. got' \in [Warps -> SUBSET (Warps \X Int)]
      BY <1>1, <1>8, <2>1 DEF TypeOK, ReadSlice
    <2> QED
      BY <1>1, <1>8, <2>2 DEF TypeOK, ReadSlice
  <1>9. ASSUME NEW w \in Warps, QK(w) PROVE TypeOK'
    <2>1. n_block[w] \in Int /\ n_block[w] < n_max
      BY <1>1, <1>2, <1>9 DEF LoopIndex, LoopPoints, QK, Jump
    <2>2. <<n_block[w], Empty>> \in Int \X Int /\ PairsBefore(n_block[w]) \in Seq(Int \X Int)
      BY <1>1, <2>1, PairsTypes DEF Empty
    <2>3. Append(PairsBefore(n_block[w]), <<n_block[w], Empty>>) \in Seq(Int \X Int)
      BY <2>2, AppendProperties
    <2>4. used' \in [Warps -> Seq(Int \X Int)]
      BY <1>1, <1>9, <2>3, QKAppends DEF TypeOK
    <2> QED
      BY <1>1, <1>9, <2>4 DEF TypeOK, QK, Jump, Points
  <1>10. ASSUME NEW w \in Warps, LoadK(w) PROVE TypeOK'
    <2>1. n_block[w] \in Int /\ (n_block[w] > n_min => n_block[w] - 1 \in Int /\ n_block[w] - 1 >= 0)
      BY <1>2
    <2>2. n_block[w] > n_min => Copy("k", n_block[w] - 1) \in Copies
      BY <2>1, CopyTypes
    <2>3. open' \in [Warps -> SUBSET Copies] /\ group' \in [Warps -> SUBSET Copies]
      BY <1>2, <1>3, <1>10, <2>2 DEF LoadK
    <2>4. sK' \in [Warps -> Int]
      BY <1>1, <1>10, <2>1 DEF LoadK, TypeOK
    <2> QED
      BY <1>1, <1>10, <2>3, <2>4 DEF TypeOK, LoadK, Jump, Points
  <1>11. ASSUME NEW w \in Warps, PV(w) PROVE TypeOK'
    <2>1. n_block[w] - 1 \in Int /\ n_block[w] - 1 < n_max
      BY <1>1, <1>2, <1>11 DEF LoopIndex, LoopPoints, PV, Jump
    <2>2. used' \in [Warps -> Seq(Int \X Int)]
      BY <1>1, <1>11, <2>1, PairsTypes, PVAppends DEF TypeOK
    <2>3. pc' \in [Warps -> Points] /\ n_block' \in [Warps -> Int] /\ got' \in [Warps -> SUBSET (Warps \X Int)]
      BY <1>1, <1>11, <2>1 DEF TypeOK, PV, Jump, Points
    <2> QED
      BY <1>1, <1>11, <2>2, <2>3 DEF TypeOK, PV
  <1>12. ASSUME NEW w \in Warps, StageO(w) \/ StoreO(w) PROVE TypeOK'
    <2>1. CASE StoreO(w)
      BY <1>1, <2>1 DEF TypeOK, StoreO, Jump, Points
    <2>2. CASE StageO(w)
      <3>1. /\ qRows' \in [Warps -> SUBSET Warps] /\ sK' \in [Warps -> Int] /\ sV' \in [Warps -> Int]
        <4>1. CASE mode.split
          BY <2>2, <4>1 DEF StageO, Empty
        <4>2. CASE ~ mode.split
          BY <1>1, <2>2, <4>2 DEF TypeOK, StageO
        <4> QED
          BY <4>1, <4>2
      <3>2. pc' \in [Warps -> Points] /\ sO' \subseteq Warps
        BY <1>1, <2>2 DEF TypeOK, StageO, Jump, Points
      <3> QED
        BY <1>1, <2>2, <3>1, <3>2 DEF TypeOK, StageO
    <2> QED
      BY <1>12, <2>1, <2>2
  <1>13. ASSUME Syncthreads PROVE TypeOK'
    <2>1. \A w \in Warps : After(pc[w]) \in Points
      BY <1>13 DEF Syncthreads, After, Barriers, Points
    <2> QED
      BY <1>1, <1>13, <2>1 DEF TypeOK, Syncthreads
  <1>14. CASE UNCHANGED vars
    BY <1>1, <1>14 DEF TypeOK, vars
  <1> QED
    BY <1>4, <1>5, <1>6, <1>7, <1>8, <1>9, <1>10, <1>11, <1>12, <1>13, <1>14
    DEF Next, WarpStep, Terminating

-----------------------------------------------------------------------------
(* A warp whose own state does not change.                                 *)
SameWarp(x) ==
  /\ mode' = mode /\ n_min' = n_min /\ n_max' = n_max
  /\ pc'[x] = pc[x] /\ n_block'[x] = n_block[x]
  /\ sK'[x] = sK[x] /\ sV'[x] = sV[x] /\ (x \in cleared' <=> x \in cleared)
  /\ kStage'[x] = kStage[x] /\ vStage'[x] = vStage[x]
  /\ open'[x] = open[x] /\ group'[x] = group[x]
  /\ got'[x] = got[x] /\ used'[x] = used[x] /\ (x \in sO' <=> x \in sO)
  /\ QLanded(x) => QLanded(x)'

(* It keeps its invariant and its place.                                   *)
LEMMA SameWarpKeeps ==
  ASSUME NEW x \in Warps, WarpInv(x), SameWarp(x)
  PROVE  WarpInv(x)' /\ Phase(x)' = Phase(x) /\ Index(x)' = Index(x)
  <1>1. PointsOfMode(x)' /\ LoopIndex(x)' /\ Staged(x)' /\ ReadSoFar(x)'
    BY DEF WarpInv, SameWarp, PointsOfMode, LoopIndex, Staged, ReadSoFar
  <1>2. InFlight(x)'
    BY DEF WarpInv, SameWarp, InFlight, Pending
  <1>3. KSlice(x)'
    BY DEF WarpInv, SameWarp, KSlice
  <1>4. VSlice(x)'
    BY DEF WarpInv, SameWarp, VSlice, Ahead
  <1>5. QSlice(x)'
    BY DEF WarpInv, SameWarp, QSlice
  <1>6. Multiplied(x)'
    BY DEF WarpInv, SameWarp, Multiplied, PairsBefore
  <1>7. Phase(x)' = Phase(x) /\ Index(x)' = Index(x)
    BY DEF SameWarp, Phase, Index
  <1> QED
    BY <1>1, <1>2, <1>3, <1>4, <1>5, <1>6, <1>7 DEF WarpInv

(* A step of one warp inside its phase has to establish that warp's part.  *)
LEMMA OneWarpSteps ==
  ASSUME PipelineInv, TypeOK', NEW w \in Warps,
         WarpInv(w)', Phase(w)' = Phase(w), Index(w)' = Index(w),
         \A x \in Warps : x # w => SameWarp(x)
  PROVE  PipelineInv'
  <1>1. \A x \in Warps : WarpInv(x)' /\ Phase(x)' = Phase(x) /\ Index(x)' = Index(x)
    BY SameWarpKeeps DEF PipelineInv
  <1>2. Together'
    BY <1>1 DEF PipelineInv, Together
  <1> QED
    BY <1>1, <1>2 DEF PipelineInv

(* A copy that completes is one its warp is waiting for.                   *)
LEMMA LandKeeps ==
  ASSUME PipelineInv, TypeOK', NEW w \in Warps, LandSome(w)
  PROVE  PipelineInv'
  <1>1. /\ TypeOK /\ WarpInv(w) /\ PointsOfMode(w) /\ LoopIndex(w) /\ InFlight(w) /\ KSlice(w)
        /\ VSlice(w) /\ QSlice(w) /\ ReadSoFar(w) /\ Multiplied(w) /\ Staged(w)
    BY DEF PipelineInv, WarpInv
  <1>2. PICK c \in group[w] : Land(w, c)
    BY <1>1 DEF LandSome, InFlight
  <1>3. /\ UNCHANGED <<mode, n_min, n_max, pc, n_block, sK, sV, cleared, got, used, sO>>
        /\ open' = [open EXCEPT ![w] = open[w] \ {c}]
        /\ group' = [group EXCEPT ![w] = group[w] \ {c}]
        /\ c \in Pending(w)
    BY <1>1, <1>2 DEF Land, loopVars, InFlight
  <1>4. /\ open'[w] = {} /\ group'[w] = group[w] \ {c}
        /\ \A x \in Warps : x # w => open'[x] = open[x] /\ group'[x] = group[x]
    BY <1>1, <1>3 DEF TypeOK, InFlight
  <1>5. /\ c.buffer = "k" => kStage'[w] = c.tile
        /\ c.buffer # "k" => kStage'[w] = kStage[w]
        /\ c.buffer = "v" => vStage'[w] = c.tile
        /\ c.buffer # "v" => vStage'[w] = vStage[w]
        /\ c.buffer = "q" => QLanded(w)'
        /\ \A x \in Warps : x # w => kStage'[x] = kStage[x] /\ vStage'[x] = vStage[x]
        /\ \A x \in Warps : QLanded(x) => QLanded(x)'
    BY <1>1, <1>2 DEF Land, TypeOK, QLanded
  <1>6. \A x \in Warps : x # w => SameWarp(x)
    BY <1>3, <1>4, <1>5 DEF SameWarp
  <1>7. PointsOfMode(w)' /\ LoopIndex(w)' /\ ReadSoFar(w)' /\ Staged(w)'
    BY <1>1, <1>3 DEF PointsOfMode, LoopIndex, ReadSoFar, Staged
  <1>8. Multiplied(w)'
    BY <1>1, <1>3 DEF Multiplied, PairsBefore
  <1>9. InFlight(w)'
    BY <1>1, <1>3, <1>4 DEF InFlight, Pending
  <1>10. /\ c.buffer = "k" => mode.pipeline /\ (pc[w] = "wait_k" => c.tile = n_block[w])
                              /\ (pc[w] = "pv" => c.tile = n_block[w] - 1)
                              /\ pc[w] \in {"wait_k", "pv"}
         /\ c.buffer = "v" => mode.pipeline /\ pc[w] \in {"qk", "wait_v"} /\ c.tile = n_block[w]
         /\ c.buffer = "q" => pc[w] = "wait_k"
    BY <1>3 DEF Pending, Copy
  <1>11. /\ \A n : Copy("k", n).buffer = "k" /\ Copy("v", n).buffer = "v" /\ Copy("q", n).buffer = "q"
    BY DEF Copy
  <1>12. KSlice(w)'
    BY <1>1, <1>3, <1>4, <1>5, <1>10, <1>11 DEF KSlice
  <1>13. VSlice(w)'
    BY <1>1, <1>3, <1>4, <1>5, <1>10, <1>11 DEF VSlice, Ahead
  <1>14. QSlice(w)'
    BY <1>1, <1>3, <1>4, <1>5, <1>10, <1>11 DEF QSlice
  <1>15. Phase(w)' = Phase(w) /\ Index(w)' = Index(w)
    BY <1>3 DEF Phase, Index
  <1> QED
    BY <1>6, <1>7, <1>8, <1>9, <1>12, <1>13, <1>14, <1>15, OneWarpSteps DEF WarpInv

(* Copies a warp issues and fences are pending afterwards.                 *)
LEMMA IssueFacts ==
  ASSUME TypeOK, NEW w \in Warps, InFlight(w), NEW cs, IssueAndFence(w, cs)
  PROVE  /\ open'[w] = {} /\ group'[w] = group[w] \cup cs
         /\ \A x \in Warps : x # w => open'[x] = open[x] /\ group'[x] = group[x]
  BY DEF TypeOK, InFlight, IssueAndFence

(* What the invariant says of one warp.                                    *)
LEMMA WarpFacts ==
  ASSUME PipelineInv, NEW w \in Warps
  PROVE  /\ TypeOK /\ PointsOfMode(w) /\ LoopIndex(w) /\ InFlight(w) /\ KSlice(w) /\ VSlice(w)
         /\ QSlice(w) /\ ReadSoFar(w) /\ Multiplied(w) /\ Staged(w)
         /\ n_block[w] \in Int /\ n_min \in Int /\ n_max \in Int
         /\ pc[w] \in Points /\ mode.pipeline \in BOOLEAN
  BY DEF PipelineInv, WarpInv, TypeOK, Modes

(* The first copies.                                                       *)
LEMMA PrologueKeeps ==
  ASSUME PipelineInv, TypeOK', NEW w \in Warps, Prologue(w)
  PROVE  PipelineInv'
  <1> USE DEF loopVars
  <1>1. /\ TypeOK /\ LoopIndex(w) /\ InFlight(w) /\ Multiplied(w) /\ Staged(w) /\ ReadSoFar(w)
        /\ n_block[w] \in Int /\ n_min \in Int /\ n_max \in Int
    BY WarpFacts
  <1>2. /\ UNCHANGED <<mode, n_min, n_max, n_block, qRows, sV, cleared, kStage, vStage, got, used, sO>>
        /\ pc[w] = "prologue" /\ pc'[w] = "wait_k"
        /\ \A x \in Warps : x # w => pc'[x] = pc[x]
    BY <1>1 DEF Prologue, Jump, TypeOK
  <1>3. n_block[w] = n_max - 1 /\ n_min <= n_block[w] /\ group[w] = {}
    BY <1>1, <1>2 DEF LoopIndex, LoopPoints, InFlight, Pending
  <1>4. /\ open'[w] = {}
        /\ group'[w] = IF mode.pipeline THEN {Copy("q", 0), Copy("k", n_block[w])} ELSE {Copy("q", 0)}
        /\ mode.pipeline => sK' = sK
        /\ ~ mode.pipeline => sK'[w] = n_block[w]
        /\ \A x \in Warps : x # w => open'[x] = open[x] /\ group'[x] = group[x] /\ sK'[x] = sK[x]
    <2>1. CASE mode.pipeline
      BY <1>1, <1>3, <2>1, IssueFacts DEF Prologue
    <2>2. CASE ~ mode.pipeline
      <3>1. IssueAndFence(w, {Copy("q", 0)}) /\ sK' = [sK EXCEPT ![w] = n_block[w]]
        BY <2>2 DEF Prologue
      <3>2. sK'[w] = n_block[w] /\ \A x \in Warps : x # w => sK'[x] = sK[x]
        BY <1>1, <3>1 DEF TypeOK
      <3> QED
        BY <1>1, <1>3, <2>2, <3>1, <3>2, IssueFacts
    <2> QED
      BY <2>1, <2>2
  <1>5. \A x \in Warps : x # w => SameWarp(x)
    BY <1>2, <1>4 DEF SameWarp, QLanded
  <1>6. PointsOfMode(w)' /\ LoopIndex(w)' /\ ReadSoFar(w)' /\ Staged(w)'
    BY <1>1, <1>2, <1>3 DEF PointsOfMode, LoopIndex, LoopPoints, ReadSoFar, Staged
  <1>7. InFlight(w)'
    BY <1>2, <1>4 DEF InFlight, Pending
  <1>8. KSlice(w)' /\ VSlice(w)' /\ QSlice(w)'
    <2>1. KSlice(w)'
      BY <1>2, <1>4 DEF KSlice
    <2>2. VSlice(w)'
      BY <1>1, <1>2, <1>3 DEF VSlice, Ahead
    <2>3. QSlice(w)'
      <3>1. Copy("q", 0) \in group'[w]
        BY <1>4
      <3> QED
        BY <1>2, <3>1 DEF QSlice, LoopPoints
    <2> QED
      BY <2>1, <2>2, <2>3
  <1>9. Multiplied(w)'
    BY <1>1, <1>2 DEF Multiplied, HalfDone, PairsBefore
  <1>10. Phase(w)' = Phase(w) /\ Index(w)' = Index(w)
    BY <1>2 DEF Phase, Index
  <1> QED
    BY <1>5, <1>6, <1>7, <1>8, <1>9, <1>10, OneWarpSteps DEF WarpInv

(* A warp behind cp_async_wait<0> has its slices of Q and K in place.      *)
LEMMA WaitKKeeps ==
  ASSUME PipelineInv, TypeOK', NEW w \in Warps, WaitK(w)
  PROVE  PipelineInv'
  <1> USE DEF loopVars
  <1>1. /\ TypeOK /\ LoopIndex(w) /\ InFlight(w) /\ KSlice(w) /\ VSlice(w) /\ QSlice(w)
        /\ Multiplied(w) /\ Staged(w) /\ ReadSoFar(w)
    BY WarpFacts
  <1>2. /\ UNCHANGED <<mode, n_min, n_max, n_block, qRows, sK, sV, cleared, kStage, vStage,
                       open, group, got, used, sO>>
        /\ pc[w] = "wait_k" /\ pc'[w] = "bar_top" /\ group[w] = {}
        /\ \A x \in Warps : x # w => pc'[x] = pc[x]
    BY <1>1 DEF WaitK, Jump, Drained, TypeOK
  <1>3. \A x \in Warps : x # w => SameWarp(x)
    BY <1>2 DEF SameWarp, QLanded
  <1>4. PointsOfMode(w)' /\ LoopIndex(w)' /\ ReadSoFar(w)' /\ Staged(w)' /\ InFlight(w)'
    BY <1>1, <1>2 DEF PointsOfMode, LoopIndex, LoopPoints, ReadSoFar, Staged, InFlight
  <1>5. KSlice(w)' /\ VSlice(w)' /\ QSlice(w)'
    BY <1>1, <1>2 DEF KSlice, VSlice, Ahead, QSlice, QLanded, LoopPoints
  <1>6. Multiplied(w)'
    BY <1>1, <1>2 DEF Multiplied, HalfDone, PairsBefore
  <1>7. Phase(w)' = Phase(w) /\ Index(w)' = Index(w)
    BY <1>2 DEF Phase, Index
  <1> QED
    BY <1>3, <1>4, <1>5, <1>6, <1>7, OneWarpSteps DEF WarpInv

(* Its slice of the BF16 tile is the staged one.                           *)
LEMMA ConvertKKeeps ==
  ASSUME PipelineInv, TypeOK', NEW w \in Warps, ConvertK(w)
  PROVE  PipelineInv'
  <1> USE DEF loopVars
  <1>1. /\ TypeOK /\ PointsOfMode(w) /\ LoopIndex(w) /\ InFlight(w) /\ KSlice(w) /\ VSlice(w) /\ QSlice(w)
        /\ Multiplied(w) /\ Staged(w) /\ ReadSoFar(w)
    BY WarpFacts
  <1>2. /\ UNCHANGED <<mode, n_min, n_max, n_block, qRows, sV, cleared, kStage, vStage,
                       open, group, got, used, sO>>
        /\ pc[w] = "convert_k" /\ pc'[w] = "bar_k" /\ sK'[w] = kStage[w]
        /\ \A x \in Warps : x # w => pc'[x] = pc[x] /\ sK'[x] = sK[x]
    BY <1>1 DEF ConvertK, Jump, TypeOK
  <1>3. mode.pipeline
    BY <1>1, <1>2 DEF PointsOfMode
  <1>4. \A x \in Warps : x # w => SameWarp(x)
    BY <1>2 DEF SameWarp, QLanded
  <1>5. PointsOfMode(w)' /\ LoopIndex(w)' /\ ReadSoFar(w)' /\ Staged(w)'
    BY <1>1, <1>2, <1>3 DEF PointsOfMode, LoopIndex, LoopPoints, ReadSoFar, Staged
  <1>6. InFlight(w)'
    BY <1>1, <1>2 DEF InFlight, Pending
  <1>7. KSlice(w)' /\ VSlice(w)' /\ QSlice(w)'
    BY <1>1, <1>2, <1>3 DEF KSlice, VSlice, Ahead, QSlice, QLanded, LoopPoints
  <1>8. Multiplied(w)'
    BY <1>1, <1>2 DEF Multiplied, HalfDone, PairsBefore
  <1>9. Phase(w)' = Phase(w) /\ Index(w)' = Index(w)
    BY <1>2 DEF Phase, Index
  <1> QED
    BY <1>4, <1>5, <1>6, <1>7, <1>8, <1>9, OneWarpSteps DEF WarpInv

(* The V tile of the same iteration is issued, or converted at once.       *)
LEMMA LoadVKeeps ==
  ASSUME PipelineInv, TypeOK', NEW w \in Warps, LoadV(w)
  PROVE  PipelineInv'
  <1> USE DEF loopVars
  <1>1. /\ TypeOK /\ LoopIndex(w) /\ InFlight(w) /\ KSlice(w) /\ VSlice(w) /\ QSlice(w)
        /\ Multiplied(w) /\ Staged(w) /\ ReadSoFar(w) /\ n_block[w] \in Int
    BY WarpFacts
  <1>2. /\ UNCHANGED <<mode, n_min, n_max, n_block, qRows, sK, kStage, vStage, got, used, sO>>
        /\ pc[w] = "load_v" /\ pc'[w] = "qk"
        /\ \A x \in Warps : x # w => pc'[x] = pc[x]
    BY <1>1 DEF LoadV, Jump, TypeOK
  <1>3. group[w] = {}
    BY <1>1, <1>2 DEF InFlight, Pending
  <1>4. /\ open'[w] = {}
        /\ group'[w] = IF mode.pipeline THEN {Copy("v", n_block[w])} ELSE {}
        /\ ~ mode.pipeline => sV'[w] = n_block[w]
        /\ \A x \in Warps : x # w => /\ open'[x] = open[x] /\ group'[x] = group[x]
                                    /\ sV'[x] = sV[x] /\ (x \in cleared' <=> x \in cleared)
    <2>1. CASE mode.pipeline
      BY <1>1, <1>3, <2>1, IssueFacts DEF LoadV
    <2>2. CASE ~ mode.pipeline
      <3>1. /\ IssueAndFence(w, {}) /\ sV' = [sV EXCEPT ![w] = n_block[w]]
            /\ cleared' = cleared \ {w}
        BY <2>2 DEF LoadV
      <3>2. sV'[w] = n_block[w] /\ \A x \in Warps : x # w => sV'[x] = sV[x]
        BY <1>1, <3>1 DEF TypeOK
      <3> QED
        BY <1>1, <1>3, <2>2, <3>1, <3>2, IssueFacts
    <2> QED
      BY <2>1, <2>2
  <1>5. \A x \in Warps : x # w => SameWarp(x)
    BY <1>2, <1>4 DEF SameWarp, QLanded
  <1>6. PointsOfMode(w)' /\ LoopIndex(w)' /\ ReadSoFar(w)' /\ Staged(w)'
    BY <1>1, <1>2 DEF PointsOfMode, LoopIndex, LoopPoints, ReadSoFar, Staged
  <1>7. InFlight(w)'
    BY <1>2, <1>4 DEF InFlight, Pending
  <1>8. KSlice(w)' /\ QSlice(w)'
    BY <1>1, <1>2 DEF KSlice, QSlice, QLanded, LoopPoints
  <1>9. VSlice(w)'
    BY <1>1, <1>2, <1>4 DEF VSlice, Ahead
  <1>10. Multiplied(w)'
    BY <1>1, <1>2 DEF Multiplied, HalfDone, PairsBefore
  <1>11. Phase(w)' = Phase(w) /\ Index(w)' = Index(w)
    BY <1>2 DEF Phase, Index
  <1> QED
    BY <1>5, <1>6, <1>7, <1>8, <1>9, <1>10, <1>11, OneWarpSteps DEF WarpInv

(* A product reads slices of its own tile.                                 *)
LEMMA ReadSliceKeeps ==
  ASSUME PipelineInv, TypeOK', NEW w \in Warps, NEW x \in Warps, ReadSlice(w, x)
  PROVE  PipelineInv'
  <1> USE DEF loopVars
  <1>1. /\ TypeOK /\ PointsOfMode(w) /\ LoopIndex(w) /\ InFlight(w) /\ KSlice(w) /\ VSlice(w)
        /\ QSlice(w) /\ Multiplied(w) /\ Staged(w) /\ ReadSoFar(w)
    BY WarpFacts
  <1>2. /\ UNCHANGED <<mode, n_min, n_max, pc, n_block, qRows, sK, sV, cleared, kStage, vStage,
                       open, group, used, sO>>
        /\ pc[w] \in {"qk", "pv"}
        /\ got'[w] = got[w] \cup {<<x, IF pc[w] = "qk" THEN sK[x] ELSE sV[x]>>}
        /\ \A y \in Warps : y # w => got'[y] = got[y]
    BY <1>1 DEF ReadSlice, TypeOK
  <1>3. (IF pc[w] = "qk" THEN sK[x] ELSE sV[x]) = n_block[w]
    BY <1>2, KTileInPlace, VTileInPlace
  <1>4. \A y \in Warps : y # w => SameWarp(y)
    BY <1>2 DEF SameWarp, QLanded
  <1>5. ReadSoFar(w)'
    BY <1>1, <1>2, <1>3 DEF ReadSoFar
  <1>6. PointsOfMode(w)' /\ LoopIndex(w)' /\ Staged(w)' /\ InFlight(w)'
    BY <1>1, <1>2 DEF PointsOfMode, LoopIndex, Staged, InFlight, Pending
  <1>7. KSlice(w)' /\ VSlice(w)' /\ QSlice(w)'
    BY <1>1, <1>2 DEF KSlice, VSlice, Ahead, QSlice, QLanded
  <1>8. Multiplied(w)'
    BY <1>1, <1>2 DEF Multiplied, PairsBefore
  <1>9. Phase(w)' = Phase(w) /\ Index(w)' = Index(w)
    BY <1>2 DEF Phase, Index
  <1> QED
    BY <1>4, <1>5, <1>6, <1>7, <1>8, <1>9, OneWarpSteps DEF WarpInv

(* The first product of an iteration is done.                              *)
LEMMA QKKeeps ==
  ASSUME PipelineInv, TypeOK', NEW w \in Warps, QK(w)
  PROVE  PipelineInv'
  <1> USE DEF loopVars
  <1>1. /\ TypeOK /\ LoopIndex(w) /\ InFlight(w) /\ KSlice(w) /\ VSlice(w) /\ QSlice(w) /\ Staged(w)
    BY WarpFacts
  <1>2. /\ UNCHANGED <<mode, n_min, n_max, n_block, qRows, sK, sV, cleared, kStage, vStage,
                       open, group, sO>>
        /\ pc[w] = "qk" /\ pc'[w] = "wait_v" /\ got'[w] = {}
        /\ \A x \in Warps : x # w => pc'[x] = pc[x] /\ got'[x] = got[x]
    BY <1>1 DEF QK, Jump, TypeOK
  <1>3. /\ used'[w] = Append(PairsBefore(n_block[w]), <<n_block[w], Empty>>)
        /\ \A x \in Warps : x # w => used'[x] = used[x]
    BY <1>1, QKAppends DEF TypeOK
  <1>4. \A x \in Warps : x # w => SameWarp(x)
    BY <1>2, <1>3 DEF SameWarp, QLanded
  <1>5. PointsOfMode(w)' /\ LoopIndex(w)' /\ ReadSoFar(w)' /\ Staged(w)'
    BY <1>1, <1>2 DEF PointsOfMode, LoopIndex, LoopPoints, ReadSoFar, Staged
  <1>6. InFlight(w)'
    BY <1>1, <1>2 DEF InFlight, Pending
  <1>7. KSlice(w)' /\ VSlice(w)' /\ QSlice(w)'
    BY <1>1, <1>2 DEF KSlice, VSlice, Ahead, QSlice, QLanded, LoopPoints
  <1>8. Multiplied(w)'
    BY <1>2, <1>3 DEF Multiplied, HalfDone, PairsBefore
  <1>9. Phase(w)' = Phase(w) /\ Index(w)' = Index(w)
    BY <1>2 DEF Phase, Index
  <1> QED
    BY <1>4, <1>5, <1>6, <1>7, <1>8, <1>9, OneWarpSteps DEF WarpInv

(* A warp behind the second cp_async_wait<0> has its slice of V in place.  *)
LEMMA WaitVKeeps ==
  ASSUME PipelineInv, TypeOK', NEW w \in Warps, WaitV(w)
  PROVE  PipelineInv'
  <1> USE DEF loopVars
  <1>1. /\ TypeOK /\ LoopIndex(w) /\ InFlight(w) /\ KSlice(w) /\ VSlice(w) /\ QSlice(w)
        /\ Multiplied(w) /\ Staged(w) /\ ReadSoFar(w)
    BY WarpFacts
  <1>2. /\ UNCHANGED <<mode, n_min, n_max, n_block, qRows, sK, sV, cleared, kStage, vStage,
                       open, group, got, used, sO>>
        /\ pc[w] = "wait_v" /\ pc'[w] = "bar_mid" /\ group[w] = {}
        /\ \A x \in Warps : x # w => pc'[x] = pc[x]
    BY <1>1 DEF WaitV, Jump, Drained, TypeOK
  <1>3. \A x \in Warps : x # w => SameWarp(x)
    BY <1>2 DEF SameWarp, QLanded
  <1>4. PointsOfMode(w)' /\ LoopIndex(w)' /\ ReadSoFar(w)' /\ Staged(w)' /\ InFlight(w)'
    BY <1>1, <1>2 DEF PointsOfMode, LoopIndex, LoopPoints, ReadSoFar, Staged, InFlight
  <1>5. KSlice(w)' /\ VSlice(w)' /\ QSlice(w)'
    BY <1>1, <1>2 DEF KSlice, VSlice, Ahead, QSlice, QLanded, LoopPoints
  <1>6. Multiplied(w)'
    BY <1>1, <1>2 DEF Multiplied, HalfDone, PairsBefore
  <1>7. Phase(w)' = Phase(w) /\ Index(w)' = Index(w)
    BY <1>2 DEF Phase, Index
  <1> QED
    BY <1>3, <1>4, <1>5, <1>6, <1>7, OneWarpSteps DEF WarpInv

(* Its slice of the BF16 tile is the staged one.                           *)
LEMMA ConvertVKeeps ==
  ASSUME PipelineInv, TypeOK', NEW w \in Warps, ConvertV(w)
  PROVE  PipelineInv'
  <1> USE DEF loopVars
  <1>1. /\ TypeOK /\ PointsOfMode(w) /\ LoopIndex(w) /\ InFlight(w) /\ KSlice(w) /\ VSlice(w) /\ QSlice(w)
        /\ Multiplied(w) /\ Staged(w) /\ ReadSoFar(w)
    BY WarpFacts
  <1>2. /\ UNCHANGED <<mode, n_min, n_max, n_block, qRows, sK, kStage, vStage,
                       open, group, got, used, sO>>
        /\ pc[w] = "convert_v" /\ pc'[w] = "bar_v" /\ sV'[w] = vStage[w]
        /\ \A x \in Warps : x # w => /\ pc'[x] = pc[x] /\ sV'[x] = sV[x]
                                    /\ (x \in cleared' <=> x \in cleared)
    BY <1>1 DEF ConvertV, Jump, TypeOK
  <1>3. mode.pipeline
    BY <1>1, <1>2 DEF PointsOfMode
  <1>4. \A x \in Warps : x # w => SameWarp(x)
    BY <1>2 DEF SameWarp, QLanded
  <1>5. PointsOfMode(w)' /\ LoopIndex(w)' /\ ReadSoFar(w)' /\ Staged(w)'
    BY <1>1, <1>2, <1>3 DEF PointsOfMode, LoopIndex, LoopPoints, ReadSoFar, Staged
  <1>6. InFlight(w)'
    BY <1>1, <1>2 DEF InFlight, Pending
  <1>7. KSlice(w)' /\ VSlice(w)' /\ QSlice(w)'
    BY <1>1, <1>2, <1>3 DEF KSlice, VSlice, Ahead, QSlice, QLanded, LoopPoints
  <1>8. Multiplied(w)'
    BY <1>1, <1>2 DEF Multiplied, HalfDone, PairsBefore
  <1>9. Phase(w)' = Phase(w) /\ Index(w)' = Index(w)
    BY <1>2 DEF Phase, Index
  <1> QED
    BY <1>4, <1>5, <1>6, <1>7, <1>8, <1>9, OneWarpSteps DEF WarpInv

(* Its slice of V has no rows outside the window any more.                 *)
LEMMA ClearVKeeps ==
  ASSUME PipelineInv, TypeOK', NEW w \in Warps, ClearV(w)
  PROVE  PipelineInv'
  <1> USE DEF loopVars
  <1>1. /\ TypeOK /\ PointsOfMode(w) /\ LoopIndex(w) /\ InFlight(w) /\ KSlice(w) /\ VSlice(w) /\ QSlice(w)
        /\ Multiplied(w) /\ Staged(w) /\ ReadSoFar(w)
    BY WarpFacts
  <1>2. /\ UNCHANGED <<mode, n_min, n_max, n_block, qRows, sK, sV, kStage, vStage,
                       open, group, got, used, sO>>
        /\ pc[w] = "clear_v" /\ pc'[w] = "bar_clear" /\ w \in cleared'
        /\ \A x \in Warps : x # w => pc'[x] = pc[x] /\ (x \in cleared' <=> x \in cleared)
    BY <1>1 DEF ClearV, Jump, TypeOK
  <1>3. \A x \in Warps : x # w => SameWarp(x)
    BY <1>2 DEF SameWarp, QLanded
  <1>4. PointsOfMode(w)' /\ LoopIndex(w)' /\ ReadSoFar(w)' /\ Staged(w)'
    BY <1>1, <1>2 DEF PointsOfMode, LoopIndex, LoopPoints, ReadSoFar, Staged
  <1>5. InFlight(w)'
    BY <1>1, <1>2 DEF InFlight, Pending
  <1>6. KSlice(w)' /\ VSlice(w)' /\ QSlice(w)'
    BY <1>1, <1>2 DEF KSlice, VSlice, Ahead, QSlice, QLanded, LoopPoints
  <1>7. Multiplied(w)'
    BY <1>1, <1>2 DEF Multiplied, HalfDone, PairsBefore
  <1>8. Phase(w)' = Phase(w) /\ Index(w)' = Index(w)
    BY <1>2 DEF Phase, Index
  <1> QED
    BY <1>3, <1>4, <1>5, <1>6, <1>7, <1>8, OneWarpSteps DEF WarpInv

(* The K tile of the next iteration is issued, or converted at once.       *)
LEMMA LoadKKeeps ==
  ASSUME PipelineInv, TypeOK', NEW w \in Warps, LoadK(w)
  PROVE  PipelineInv'
  <1> USE DEF loopVars
  <1>1. /\ TypeOK /\ LoopIndex(w) /\ InFlight(w) /\ KSlice(w) /\ VSlice(w) /\ QSlice(w)
        /\ Multiplied(w) /\ Staged(w) /\ ReadSoFar(w) /\ n_block[w] \in Int /\ n_min \in Int
    BY WarpFacts
  <1>2. /\ UNCHANGED <<mode, n_min, n_max, n_block, qRows, sV, cleared, kStage, vStage, got, used, sO>>
        /\ pc[w] = "load_k" /\ pc'[w] = "pv"
        /\ \A x \in Warps : x # w => pc'[x] = pc[x]
    BY <1>1 DEF LoadK, Jump, TypeOK
  <1>3. group[w] = {} /\ open[w] = {}
    BY <1>1, <1>2 DEF InFlight, Pending
  <1> DEFINE next == n_block[w] > n_min
  <1>4. /\ open'[w] = {}
        /\ group'[w] = IF next /\ mode.pipeline THEN {Copy("k", n_block[w] - 1)} ELSE {}
        /\ next /\ ~ mode.pipeline => sK'[w] = n_block[w] - 1
        /\ \A x \in Warps : x # w => open'[x] = open[x] /\ group'[x] = group[x] /\ sK'[x] = sK[x]
    <2>1. CASE ~ next
      BY <1>1, <1>3, <2>1 DEF LoadK
    <2>2. CASE next /\ mode.pipeline
      <3>1. IssueAndFence(w, {Copy("k", n_block[w] - 1)}) /\ sK' = sK
        BY <2>2 DEF LoadK
      <3> QED
        BY <1>1, <1>3, <2>2, <3>1, IssueFacts
    <2>3. CASE next /\ ~ mode.pipeline
      <3>1. IssueAndFence(w, {}) /\ sK' = [sK EXCEPT ![w] = n_block[w] - 1]
        BY <2>3 DEF LoadK
      <3>2. sK'[w] = n_block[w] - 1 /\ \A x \in Warps : x # w => sK'[x] = sK[x]
        BY <1>1, <3>1 DEF TypeOK
      <3> QED
        BY <1>1, <1>3, <2>3, <3>1, <3>2, IssueFacts
    <2> QED
      BY <2>1, <2>2, <2>3
  <1>5. \A x \in Warps : x # w => SameWarp(x)
    BY <1>2, <1>4 DEF SameWarp, QLanded
  <1>6. PointsOfMode(w)' /\ LoopIndex(w)' /\ ReadSoFar(w)' /\ Staged(w)'
    BY <1>1, <1>2 DEF PointsOfMode, LoopIndex, LoopPoints, ReadSoFar, Staged
  <1>7. InFlight(w)'
    BY <1>1, <1>2, <1>4 DEF InFlight, Pending
  <1>8. KSlice(w)'
    BY <1>1, <1>2, <1>4 DEF KSlice
  <1>9. VSlice(w)' /\ QSlice(w)'
    BY <1>1, <1>2 DEF VSlice, Ahead, QSlice, QLanded, LoopPoints
  <1>10. Multiplied(w)'
    BY <1>1, <1>2 DEF Multiplied, HalfDone, PairsBefore
  <1>11. Phase(w)' = Phase(w) /\ Index(w)' = Index(w)
    BY <1>2 DEF Phase, Index
  <1> QED
    BY <1>5, <1>6, <1>7, <1>8, <1>9, <1>10, <1>11, OneWarpSteps DEF WarpInv

(* The second product completes the iteration.                             *)
LEMMA PVKeeps ==
  ASSUME PipelineInv, TypeOK', NEW w \in Warps, PV(w)
  PROVE  PipelineInv'
  <1> USE DEF loopVars
  <1> DEFINE n == n_block[w]
  <1>1. /\ TypeOK /\ LoopIndex(w) /\ InFlight(w) /\ KSlice(w) /\ VSlice(w) /\ QSlice(w)
        /\ Staged(w) /\ n \in Int /\ n_min \in Int /\ n_max \in Int
    BY WarpFacts
  <1>2. /\ UNCHANGED <<mode, n_min, n_max, qRows, sK, sV, cleared, kStage, vStage, open, group, sO>>
        /\ pc[w] = "pv" /\ got'[w] = {} /\ n_block'[w] = n - 1
        /\ pc'[w] = IF n > n_min THEN "wait_k" ELSE IF mode.split THEN "bar_out" ELSE "stage_o"
        /\ \A x \in Warps : x # w =>
             pc'[x] = pc[x] /\ got'[x] = got[x] /\ n_block'[x] = n_block[x]
    BY <1>1 DEF PV, Jump, TypeOK
  <1>3. used'[w] = PairsBefore(n - 1) /\ \A x \in Warps : x # w => used'[x] = used[x]
    BY <1>1, PVAppends DEF TypeOK
  <1>4. n_min <= n /\ n < n_max
    BY <1>1, <1>2 DEF LoopIndex, LoopPoints
  <1>5. \A x \in Warps : x # w => SameWarp(x)
    BY <1>2, <1>3 DEF SameWarp, QLanded
  <1> HIDE DEF n
  <1>6. PointsOfMode(w)' /\ LoopIndex(w)' /\ ReadSoFar(w)' /\ Staged(w)'
    BY <1>1, <1>2, <1>4 DEF PointsOfMode, LoopIndex, LoopPoints, ReadSoFar, Staged
  <1>7. InFlight(w)'
    <2>1. open[w] = {} /\ group[w] \subseteq { c \in {Copy("k", n - 1)} : mode.pipeline /\ n_min < n }
      BY <1>1, <1>2 DEF InFlight, Pending, n
    <2> QED
      BY <1>2, <2>1 DEF InFlight, Pending
  <1>8. KSlice(w)'
    BY <1>1, <1>2 DEF KSlice, n
  <1>9. VSlice(w)'
    BY <1>1, <1>2 DEF VSlice, Ahead, n
  <1>10. QSlice(w)'
    BY <1>1, <1>2 DEF QSlice, QLanded, LoopPoints, n
  <1>11. Multiplied(w)'
    BY <1>2, <1>3 DEF Multiplied, HalfDone, PairsBefore
  <1>12. Phase(w)' = Phase(w) /\ Index(w)' = Index(w)
    BY <1>1, <1>2 DEF Phase, Index, n
  <1> QED
    BY <1>5, <1>6, <1>7, <1>8, <1>9, <1>10, <1>11, <1>12, OneWarpSteps DEF WarpInv

(* The output tile is laid over buffers that nobody needs any more.        *)
LEMMA StageOKeeps ==
  ASSUME PipelineInv, TypeOK', NEW w \in Warps, StageO(w)
  PROVE  PipelineInv'
  <1> USE DEF loopVars
  <1>1. /\ TypeOK /\ pc[w] = "stage_o" /\ LoopIndex(w) /\ n_min \in Int
        /\ UNCHANGED <<mode, n_min, n_max, n_block, cleared, kStage, vStage, open, group, got, used>>
        /\ pc' = [pc EXCEPT ![w] = "bar_o"] /\ sO' = sO \cup {w}
        /\ ~ mode.split => sK' = sK /\ sV' = sV
    BY WarpFacts DEF StageO, Jump
  <1>2. /\ pc'[w] = "bar_o" /\ \A x \in Warps : x # w => pc'[x] = pc[x]
        /\ n_block[w] = n_min - 1
    BY <1>1 DEF TypeOK, LoopIndex, LoopPoints
  <1>3. ASSUME NEW x \in Warps PROVE WarpInv(x)' /\ Phase(x)' = Phase(x) /\ Index(x)' = Index(x)
    <2>1. /\ PointsOfMode(x) /\ LoopIndex(x) /\ InFlight(x) /\ KSlice(x) /\ VSlice(x)
          /\ QSlice(x) /\ ReadSoFar(x) /\ Multiplied(x) /\ Staged(x)
          /\ n_block[x] \in Int /\ pc[x] \in Points
          /\ Phase(x) = Phase(w) /\ Index(x) = Index(w)
      BY WarpFacts DEF PipelineInv, Together
    <2>2. Index(x) = n_min - 1
      BY <1>1, <1>2, <2>1 DEF Index
    <2>3. mode.split => pc[x] \in {"stage_o", "bar_o"}
      BY <1>1, <2>1 DEF Phase, Points
    <2>4. ~ mode.split =>
            \/ pc[x] \in {"load_k", "pv"} /\ n_block[x] = n_min
            \/ pc[x] \in {"bar_out", "stage_o", "bar_o"}
      <3>1. ~ mode.split =>
              pc[x] \in {"prologue", "wait_k", "bar_top", "load_k", "pv", "bar_out", "stage_o", "bar_o"}
        BY <1>1, <2>1 DEF Phase, Points
      <3> QED
        BY <1>1, <2>1, <2>2, <3>1 DEF Index, LoopIndex, LoopPoints
    <2>5. (pc[x] = "stage_o" \/ pc'[x] = pc[x]) /\ (x = w => pc'[x] = "bar_o") /\ (x # w => pc'[x] = pc[x])
      BY <1>1, <1>2
    <2>6. PointsOfMode(x)' /\ LoopIndex(x)' /\ ReadSoFar(x)' /\ Staged(x)'
      BY <1>1, <1>2, <2>1, <2>5 DEF PointsOfMode, LoopIndex, LoopPoints, ReadSoFar, Staged
    <2>7. InFlight(x)'
      BY <1>1, <2>1, <2>5 DEF InFlight, Pending
    <2>8. KSlice(x)'
      BY <1>1, <2>1, <2>3, <2>5 DEF KSlice
    <2>9. VSlice(x)'
      BY <1>1, <2>1, <2>3, <2>5 DEF VSlice, Ahead
    <2>10. QSlice(x)'
      BY <1>1, <2>3, <2>4, <2>5 DEF QSlice, LoopPoints
    <2>11. Multiplied(x)'
      BY <1>1, <2>1, <2>5 DEF Multiplied, HalfDone, PairsBefore
    <2>12. Phase(x)' = Phase(x) /\ Index(x)' = Index(x)
      BY <1>1, <2>5 DEF Phase, Index
    <2> QED
      BY <2>6, <2>7, <2>8, <2>9, <2>10, <2>11, <2>12 DEF WarpInv
  <1>4. Together'
    BY <1>3 DEF PipelineInv, Together
  <1> QED
    BY <1>3, <1>4 DEF PipelineInv

(* A warp stores its rows and leaves.                                      *)
LEMMA StoreOKeeps ==
  ASSUME PipelineInv, TypeOK', NEW w \in Warps, StoreO(w)
  PROVE  PipelineInv'
  <1> USE DEF loopVars
  <1>1. /\ TypeOK /\ LoopIndex(w) /\ InFlight(w) /\ Multiplied(w) /\ Staged(w) /\ ReadSoFar(w)
    BY WarpFacts
  <1>2. /\ UNCHANGED <<mode, n_min, n_max, n_block, qRows, sK, sV, cleared, kStage, vStage,
                       open, group, got, used, sO>>
        /\ pc[w] = "store_o" /\ pc'[w] = "done"
        /\ \A x \in Warps : x # w => pc'[x] = pc[x]
    BY <1>1 DEF StoreO, Jump, TypeOK
  <1>3. \A x \in Warps : x # w => SameWarp(x)
    BY <1>2 DEF SameWarp, QLanded
  <1>4. PointsOfMode(w)' /\ LoopIndex(w)' /\ ReadSoFar(w)' /\ Staged(w)'
    BY <1>1, <1>2 DEF PointsOfMode, LoopIndex, LoopPoints, ReadSoFar, Staged
  <1>5. InFlight(w)'
    BY <1>1, <1>2 DEF InFlight, Pending
  <1>6. KSlice(w)' /\ VSlice(w)' /\ QSlice(w)'
    BY <1>2 DEF KSlice, VSlice, Ahead, QSlice, LoopPoints
  <1>7. Multiplied(w)'
    BY <1>1, <1>2 DEF Multiplied, HalfDone, PairsBefore
  <1>8. Phase(w)' = Phase(w) /\ Index(w)' = Index(w)
    BY <1>2 DEF Phase, Index
  <1> QED
    BY <1>3, <1>4, <1>5, <1>6, <1>7, <1>8, OneWarpSteps DEF WarpInv

-----------------------------------------------------------------------------
(* When every warp waits at a barrier, it is the same one.                 *)
LEMMA SameBarrier ==
  ASSUME PipelineInv, \A w \in Warps : pc[w] \in Barriers
  PROVE  \A w, x \in Warps : pc[w] = pc[x] /\ n_block[w] = n_block[x]
  <1> SUFFICES ASSUME NEW w \in Warps, NEW x \in Warps
               PROVE  pc[w] = pc[x] /\ n_block[w] = n_block[x]
    OBVIOUS
  <1>1. /\ Phase(w) = Phase(x) /\ Index(w) = Index(x)
        /\ LoopIndex(w) /\ LoopIndex(x) /\ PointsOfMode(w) /\ PointsOfMode(x)
        /\ n_block[w] \in Int /\ n_block[x] \in Int /\ n_min \in Int
        /\ pc[w] \in Barriers /\ pc[x] \in Barriers
    BY WarpFacts DEF PipelineInv, Together
  <1>2. n_block[w] = n_block[x]
    BY <1>1 DEF Index, Barriers
  <1>3. CASE Phase(w) # "fetch"
    BY <1>1, <1>2, <1>3 DEF Phase, Barriers
  <1>4. CASE Phase(w) = "fetch"
    <2>1. /\ pc[w] \in {"bar_top", "bar_out"} \/ (~ mode.split /\ pc[w] = "bar_o")
          /\ pc[x] \in {"bar_top", "bar_out"} \/ (~ mode.split /\ pc[x] = "bar_o")
      BY <1>1, <1>4 DEF Phase, Barriers
    <2> QED
      BY <1>1, <1>2, <2>1 DEF LoopIndex, LoopPoints, PointsOfMode
  <1> QED
    BY <1>3, <1>4

(* A barrier takes all warps to the same next phase.                       *)
LEMMA SyncthreadsKeeps ==
  ASSUME PipelineInv, TypeOK', Syncthreads
  PROVE  PipelineInv'
  <1> USE DEF loopVars
  <1>1. /\ TypeOK /\ \A w \in Warps : pc[w] \in Barriers
        /\ UNCHANGED <<mode, n_min, n_max, n_block, qRows, sK, sV, cleared, kStage, vStage,
                       open, group, got, used, sO>>
        /\ \A w \in Warps : pc'[w] = After(pc[w])
    BY DEF PipelineInv, Syncthreads
  <1>2. \A w, x \in Warps : pc[w] = pc[x] /\ n_block[w] = n_block[x]
    BY <1>1, SameBarrier
  <1>3. Together'
    BY <1>1, <1>2 DEF Together, Phase, Index
  <1>4. ASSUME NEW w \in Warps PROVE WarpInv(w)'
    <2>1. /\ PointsOfMode(w) /\ LoopIndex(w) /\ InFlight(w) /\ KSlice(w) /\ VSlice(w)
          /\ QSlice(w) /\ ReadSoFar(w) /\ Multiplied(w) /\ Staged(w)
          /\ n_block[w] \in Int /\ n_min \in Int /\ n_max \in Int
      BY WarpFacts
    <2>2. \/ pc[w] = "bar_top" /\ mode.pipeline /\ pc'[w] = "convert_k"
          \/ pc[w] = "bar_top" /\ ~ mode.pipeline /\ pc'[w] = "load_v"
          \/ pc[w] = "bar_k" /\ pc'[w] = "load_v"
          \/ pc[w] = "bar_mid" /\ mode.pipeline /\ pc'[w] = "convert_v"
          \/ pc[w] = "bar_mid" /\ ~ mode.pipeline /\ mode.local /\ pc'[w] = "clear_v"
          \/ pc[w] = "bar_mid" /\ ~ mode.pipeline /\ ~ mode.local /\ pc'[w] = "load_k"
          \/ pc[w] = "bar_v" /\ mode.local /\ pc'[w] = "clear_v"
          \/ pc[w] = "bar_v" /\ ~ mode.local /\ pc'[w] = "load_k"
          \/ pc[w] = "bar_clear" /\ pc'[w] = "load_k"
          \/ pc[w] = "bar_out" /\ pc'[w] = "stage_o"
          \/ pc[w] = "bar_o" /\ pc'[w] = "store_o"
      <3>1. pc[w] \in {"bar_top", "bar_k", "bar_mid", "bar_v", "bar_clear", "bar_out", "bar_o"}
            /\ pc'[w] = After(pc[w])
        BY <1>1 DEF Barriers
      <3> QED
        BY <3>1 DEF After
    <2>3. PointsOfMode(w)' /\ LoopIndex(w)'
      BY <1>1, <2>1, <2>2 DEF PointsOfMode, LoopIndex, LoopPoints
    <2>4. ReadSoFar(w)' /\ Staged(w)'
      BY <1>1, <2>1, <2>2 DEF ReadSoFar, Staged
    <2>5. InFlight(w)'
      <3>1. Pending(w) = {}
        BY <2>2 DEF Pending
      <3> QED
        BY <1>1, <2>1, <3>1 DEF InFlight
    <2>6. KSlice(w)'
      BY <1>1, <2>1, <2>2 DEF KSlice
    <2>7. VSlice(w)'
      BY <1>1, <2>1, <2>2 DEF VSlice, Ahead, PointsOfMode
    <2>8. QSlice(w)'
      BY <1>1, <2>1, <2>2 DEF QSlice, QLanded, LoopPoints
    <2>9. Multiplied(w)'
      BY <1>1, <2>1, <2>2 DEF Multiplied, HalfDone, PairsBefore
    <2> QED
      BY <2>3, <2>4, <2>5, <2>6, <2>7, <2>8, <2>9 DEF WarpInv
  <1> QED
    BY <1>3, <1>4 DEF PipelineInv

-----------------------------------------------------------------------------
(* The invariant is inductive.                                             *)
LEMMA NextPipelineInv == PipelineInv /\ [Next]_vars => PipelineInv'
  <1> SUFFICES ASSUME PipelineInv, [Next]_vars PROVE PipelineInv'
    OBVIOUS
  <1>1. TypeOK'
    BY NextPipelineTypes
  <1>2. ASSUME NEW w \in Warps, WarpStep(w) PROVE PipelineInv'
    <2>1. CASE \E x \in Warps : ReadSlice(w, x)
      BY <1>1, <2>1, ReadSliceKeeps
    <2> QED
      BY <1>1, <1>2, <2>1, PrologueKeeps, WaitKKeeps, ConvertKKeeps, LoadVKeeps, QKKeeps,
         WaitVKeeps, ConvertVKeeps, ClearVKeeps, LoadKKeeps, PVKeeps, StageOKeeps, StoreOKeeps
         DEF WarpStep
  <1>3. CASE UNCHANGED vars
    <2>1. \A x \in Warps : SameWarp(x)
      BY <1>3 DEF vars, SameWarp, QLanded
    <2>2. \A x \in Warps : WarpInv(x)' /\ Phase(x)' = Phase(x) /\ Index(x)' = Index(x)
      BY <2>1, SameWarpKeeps DEF PipelineInv
    <2> QED
      BY <1>1, <2>2 DEF PipelineInv, Together
  <1> QED
    BY <1>1, <1>2, <1>3, LandKeeps, SyncthreadsKeeps DEF Next, Terminating

(***************************************************************************)
(* The invariant holds in every state of a CTA: warps stay in one phase of *)
(* the main loop between two barriers, and each keeps its own slices,      *)
(* copies and pairs in step with its program point.                        *)
(***************************************************************************)
THEOREM PipelineInvariance == Spec => []PipelineInv
  BY InitPipelineInv, NextPipelineInv, PTL DEF Spec

(* Every variable of the pipeline keeps its type: the loop index, the      *)
(* tiles in shared memory and the copies in flight.                        *)
THEOREM PipelineTypes == Spec => []TypeOK
  BY PipelineInvariance, PTL DEF PipelineInv

(***************************************************************************)
(* When all warps of a CTA wait in __syncthreads(), they wait at the same  *)
(* one and in the same iteration, also with the barrier inside             *)
(* clear_window_values.                                                    *)
(***************************************************************************)
THEOREM WarpsMeetAtBarriers == Spec => []BarriersMatch
  <1>1. PipelineInv => BarriersMatch
    BY SameBarrier DEF BarriersMatch
  <1> QED
    BY <1>1, PipelineInvariance, PTL

(***************************************************************************)
(* While a warp multiplies, all slices it reads are of its iteration, Q    *)
(* has landed, and a window's dead V rows are zeroed: no faster warp       *)
(* refills sK or sV under a slower one, and no cp.async is waited for too  *)
(* late.                                                                   *)
(***************************************************************************)
THEOREM NoTileIsRefilledEarly == Spec => []ProductReadsItsTile
  <1>1. PipelineInv => ProductReadsItsTile
    <2> SUFFICES ASSUME PipelineInv, NEW w \in Warps
                 PROVE  /\ pc[w] = "qk" => \A x \in Warps : sK[x] = n_block[w] /\ qRows[w] = Warps
                        /\ pc[w] = "pv" => \A x \in Warps :
                                             sV[x] = n_block[w] /\ (mode.local => x \in cleared)
                        /\ \A g \in got[w] : g[2] = n_block[w]
      BY DEF ProductReadsItsTile
    <2>1. ASSUME pc[w] = "qk" PROVE \A x \in Warps : sK[x] = n_block[w] /\ qRows[w] = Warps
      BY <2>1, KTileInPlace DEF QLanded, PipelineInv, TypeOK
    <2>2. ASSUME pc[w] = "pv"
          PROVE  \A x \in Warps : sV[x] = n_block[w] /\ (mode.local => x \in cleared)
      BY <2>2, VTileInPlace
    <2>3. \A g \in got[w] : g[2] = n_block[w]
      BY DEF PipelineInv, WarpInv, ReadSoFar
    <2> QED
      BY <2>1, <2>2, <2>3
  <1> QED
    BY <1>1, PipelineInvariance, PTL

(* A warp that may read the output tile is in the last phase, and so are   *)
(* all warps.                                                              *)
LEMMA LastPhase ==
  ASSUME PipelineInv, NEW w \in Warps, pc[w] \in {"store_o", "done"}, NEW x \in Warps
  PROVE  pc[x] \in {"store_o", "done"} /\ x \in sO /\ n_block[x] = n_min - 1
  <1>1. /\ Phase(x) = Phase(w) /\ pc[x] \in Points
        /\ Staged(x) /\ LoopIndex(x)
    BY DEF PipelineInv, Together, WarpInv, TypeOK
  <1>2. pc[x] \in {"store_o", "done"}
    BY <1>1 DEF Phase, Points
  <1> QED
    BY <1>1, <1>2 DEF Staged, LoopIndex, LoopPoints

(* A warp stores rows of the shared output tile only when every warp has   *)
(* put its rows there.                                                     *)
THEOREM OutputIsStagedBeforeStores == Spec => []OutputStaged
  <1>1. PipelineInv => OutputStaged
    BY LastPhase DEF OutputStaged, PipelineInv, TypeOK
  <1> QED
    BY <1>1, PipelineInvariance, PTL

(* No cp.async of a warp is in flight when it lays the output tile over    *)
(* the buffers.                                                            *)
THEOREM NoCopyLandsOnOutput == Spec => []QuietAtTheEnd
  <1>1. ASSUME PipelineInv, NEW w \in Warps, w \in sO PROVE open[w] \cup group[w] = {}
    <2>1. pc[w] \in {"bar_o", "store_o", "done"} /\ InFlight(w)
      BY <1>1 DEF PipelineInv, WarpInv, Staged
    <2> QED
      BY <2>1 DEF InFlight, Pending
  <1>2. PipelineInv => QuietAtTheEnd
    BY <1>1 DEF QuietAtTheEnd
  <1> QED
    BY <1>2, PipelineInvariance, PTL

-----------------------------------------------------------------------------
(* The pairs TileStream sees are those of the iterations a warp completed. *)
MappedUsed ==
  [w \in Warps |->
     IF pc[w] \in {"wait_v", "bar_mid", "convert_v", "bar_v", "clear_v",
                   "bar_clear", "load_k", "pv"}
     THEN SubSeq(used[w], 1, Len(used[w]) - 1) ELSE used[w]]

MappedStored == { w \in Warps : pc[w] = "done" }

(* The pairs TileStream sees follow from the loop index alone.             *)
LEMMA MappedPairs ==
  ASSUME PipelineInv
  PROVE  /\ MappedUsed = [w \in Warps |-> PairsBefore(n_block[w])]
         /\ \A w \in Warps : /\ MappedUsed[w] = PairsBefore(n_block[w])
                             /\ n_max - 1 - Len(MappedUsed[w]) = n_block[w]
  <1>1. ASSUME NEW w \in Warps
        PROVE  /\ MappedUsed[w] = PairsBefore(n_block[w])
               /\ n_max - 1 - Len(PairsBefore(n_block[w])) = n_block[w]
    <2>1. /\ TypeOK /\ LoopIndex(w) /\ Multiplied(w)
          /\ n_block[w] \in Int /\ n_min \in Int /\ n_max \in Int /\ n_min < n_max /\ Empty \in Int
      BY DEF PipelineInv, WarpInv, TypeOK, Empty
    <2>2. n_block[w] < n_max
      BY <2>1 DEF LoopIndex
    <2>3. n_max - 1 - Len(PairsBefore(n_block[w])) = n_block[w]
      BY <2>1, <2>2, PairsTypes
    <2>4. CASE pc[w] \in HalfDone
      <3>1. SubSeq(used[w], 1, Len(used[w]) - 1) = PairsBefore(n_block[w])
        BY <2>1, <2>2, <2>4, PairCompleted
      <3> QED
        BY <2>3, <2>4, <3>1 DEF MappedUsed, HalfDone
    <2>5. CASE pc[w] \notin HalfDone
      BY <2>1, <2>3, <2>5 DEF MappedUsed, HalfDone, Multiplied
    <2> QED
      BY <2>4, <2>5
  <1> QED
    BY <1>1 DEF MappedUsed

MappedIsPairs == MappedUsed = [x \in Warps |-> PairsBefore(n_block[x])]

(* Also after the step.                                                    *)
LEMMA MappedPairsNext == PipelineInv' => MappedIsPairs'
  <1>1. PipelineInv => MappedIsPairs
    BY MappedPairs DEF MappedIsPairs
  <1> QED
    BY <1>1, PTL

(* The initial states are initial states of TileStream.                    *)
LEMMA InitMaps == Init => Stream!Init
  <1> SUFFICES ASSUME Init PROVE Stream!Init
    OBVIOUS
  <1>1. n_min \in Nat /\ n_max \in Nat /\ n_min < n_max
    BY MaxBlocksAssumption DEF Init
  <1>2. MappedUsed = [w \in Warps |-> << >>] /\ MappedStored = {}
    BY DEF Init, MappedUsed, MappedStored
  <1> QED
    BY <1>1, <1>2 DEF Stream!Init, MappedUsed, MappedStored

(* Finishing the second product is the step of TileStream that folds a     *)
(* tile; leaving the kernel is the one that stores the rows.               *)
LEMMA PVFolds ==
  ASSUME PipelineInv, PipelineInv', NEW w \in Warps, PV(w)
  PROVE  Stream!FoldTile(w)
  <1> DEFINE n == n_block[w]
  <1>1. /\ TypeOK /\ LoopIndex(w) /\ pc[w] = "pv" /\ n \in Int /\ n_max \in Int /\ n_min \in Int
        /\ n_block' = [n_block EXCEPT ![w] = n - 1] /\ n_min' = n_min /\ n_max' = n_max
        /\ pc' = [pc EXCEPT ![w] = IF n > n_min THEN "wait_k"
                                   ELSE IF mode.split THEN "bar_out" ELSE "stage_o"]
        /\ pc \in [Warps -> Points]
    BY DEF PipelineInv, WarpInv, TypeOK, PV, Jump, loopVars
  <1>2. n_min <= n /\ n < n_max
    BY <1>1 DEF LoopIndex, LoopPoints
  <1>3. /\ MappedUsed = [x \in Warps |-> PairsBefore(n_block[x])]
        /\ MappedUsed' = [x \in Warps |-> PairsBefore(n_block'[x])]
        /\ n_max - 1 - Len(MappedUsed[w]) = n
    <2>1. MappedUsed' = [x \in Warps |-> PairsBefore(n_block[x])]'
      BY MappedPairsNext DEF MappedIsPairs
    <2>2. [x \in Warps |-> PairsBefore(n_block[x])]' = [x \in Warps |-> PairsBefore(n_block'[x])]
      BY <1>1 DEF PairsBefore
    <2> QED
      BY <2>1, <2>2, MappedPairs
  <1>4. MappedUsed' = [MappedUsed EXCEPT ![w] = Append(MappedUsed[w], <<n, n>>)]
    <2>1. PairsBefore(n - 1) = Append(PairsBefore(n), <<n, n>>)
      BY <1>1, <1>2, PairsGrow
    <2>2. \A x \in Warps : n_block'[x] = IF x = w THEN n - 1 ELSE n_block[x]
      BY <1>1 DEF TypeOK
    <2> QED
      BY <1>3, <2>1, <2>2
  <1>5. MappedStored' = MappedStored
    BY <1>1 DEF MappedStored
  <1> QED
    BY <1>1, <1>2, <1>3, <1>4, <1>5 DEF Stream!FoldTile, Stream!NextTile, MappedUsed, MappedStored

(* The output stores of a warp are its row stores of the stream.           *)
LEMMA StoreOStores ==
  ASSUME PipelineInv, PipelineInv', NEW w \in Warps, StoreO(w)
  PROVE  Stream!StoreRows(w)
  <1>1. /\ pc[w] = "store_o" /\ pc' = [pc EXCEPT ![w] = "done"] /\ pc \in [Warps -> Points]
        /\ UNCHANGED <<n_min, n_max, n_block, used>> /\ n_min \in Int
    BY DEF PipelineInv, TypeOK, StoreO, Jump, loopVars
  <1>2. MappedStored' = MappedStored \cup {w} /\ w \notin MappedStored
    BY <1>1 DEF MappedStored
  <1>3. MappedUsed' = MappedUsed
    BY <1>1 DEF MappedUsed
  <1>4. \A x \in Warps : n_max - 1 - Len(MappedUsed[x]) < n_min
    BY <1>1, LastPhase, MappedPairs
  <1> QED
    BY <1>1, <1>2, <1>3, <1>4 DEF Stream!StoreRows, Stream!NextTile, MappedUsed, MappedStored

(* Every other step leaves what TileStream sees as it is.                  *)
LEMMA OtherStepsStutter ==
  ASSUME PipelineInv, PipelineInv',
         UNCHANGED <<n_min, n_max, n_block>>,
         \A w \in Warps : pc'[w] = "done" <=> pc[w] = "done"
  PROVE  UNCHANGED Stream!vars
  <1>1. MappedStored' = MappedStored
    BY DEF MappedStored
  <1>2. MappedUsed' = MappedUsed
    <2>1. [x \in Warps |-> PairsBefore(n_block[x])]' = [x \in Warps |-> PairsBefore(n_block[x])]
      BY DEF PairsBefore
    <2> QED
      BY <2>1, MappedPairs, MappedPairsNext DEF MappedIsPairs
  <1> QED
    BY <1>1, <1>2 DEF Stream!vars, MappedUsed, MappedStored

(* Every step is a step of TileStream or leaves it where it was.           *)
LEMMA NextMaps == PipelineInv /\ PipelineInv' /\ [Next]_vars => [Stream!Next]_(Stream!vars)
  <1> SUFFICES ASSUME PipelineInv, PipelineInv', [Next]_vars
               PROVE  Stream!Next \/ UNCHANGED Stream!vars
    OBVIOUS
  <1>1. pc \in [Warps -> Points]
    BY DEF PipelineInv, TypeOK
  <1>2. CASE UNCHANGED vars
    BY <1>2, OtherStepsStutter DEF vars
  <1>3. ASSUME NEW w \in Warps, LandSome(w) PROVE UNCHANGED Stream!vars
    BY <1>3, OtherStepsStutter DEF LandSome, Land, loopVars
  <1>4. ASSUME Syncthreads PROVE UNCHANGED Stream!vars
    <2>1. \A w \in Warps : After(pc[w]) # "done" /\ pc[w] # "done"
      BY <1>4 DEF Syncthreads, After, Barriers
    <2>2. \A w \in Warps : pc'[w] = "done" <=> pc[w] = "done"
      BY <1>4, <2>1 DEF Syncthreads
    <2> QED
      BY <1>4, <2>2, OtherStepsStutter DEF Syncthreads, loopVars
  <1>5. ASSUME NEW w \in Warps, WarpStep(w), ~ PV(w), ~ StoreO(w) PROVE UNCHANGED Stream!vars
    <2>1. \/ \E x \in Warps : ReadSlice(w, x)
          \/ \E from, to \in Points \ {"done"} :
               Jump(w, from, to) /\ UNCHANGED <<n_min, n_max, n_block>>
      BY <1>5 DEF WarpStep, Prologue, WaitK, ConvertK, LoadV, QK, WaitV, ConvertV, ClearV, LoadK,
         StageO, loopVars, Points
    <2>2. CASE \E x \in Warps : ReadSlice(w, x)
      BY <2>2, OtherStepsStutter DEF ReadSlice, loopVars
    <2>3. CASE \E from, to \in Points \ {"done"} :
                 Jump(w, from, to) /\ UNCHANGED <<n_min, n_max, n_block>>
      <3>1. \A x \in Warps : pc'[x] = "done" <=> pc[x] = "done"
        BY <1>1, <2>3 DEF Jump
      <3> QED
        BY <2>3, <3>1, OtherStepsStutter
    <2> QED
      BY <2>1, <2>2, <2>3
  <1> QED
    BY <1>2, <1>3, <1>4, <1>5, PVFolds, StoreOStores DEF Next, Terminating, Stream!Next

(***************************************************************************)
(* The main loop with its staging tiles, asynchronous copies and barriers  *)
(* does what TileStream promises: each warp multiplies each tile of its    *)
(* range whole and once, K and V of the same index, from the last to the   *)
(* first, and stores only when all warps are through.                      *)
(***************************************************************************)
THEOREM PipelineImplementsStream == Spec => Stream!Spec
  BY InitMaps, NextMaps, PipelineInvariance, PTL DEF Spec, Stream!Spec
=============================================================================
