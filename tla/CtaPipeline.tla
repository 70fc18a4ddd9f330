---------------------------- MODULE CtaPipeline ----------------------------
(***************************************************************************)
(* The shared-memory pipeline of one CTA: the warps of                     *)
(* compute_attn_1rowblock_splitkv, their cp.async copies, the barriers     *)
(* between them, and the buffers that are reused from tile to tile.        *)
(*                                                                         *)
(* Every copy of a tile is cut into one slice per warp (the part its own   *)
(* threads move); the products read every slice.  A slice is abstracted to *)
(* the index of the tile it holds.  Two builds are modelled: with          *)
(* FA2_FP8KV_PIPELINE the FP8 bytes are staged by cp.async and converted   *)
(* one barrier later; without it they are converted on their way to sK/sV. *)
(***************************************************************************)
EXTENDS Integers, Sequences, FiniteSets

CONSTANTS
  Warps,
  MaxBlocks     \* bound on the number of key blocks of the CTA

ASSUME WarpsAssumption == IsFiniteSet(Warps) /\ Warps # {}
ASSUME MaxBlocksAssumption == MaxBlocks \in Nat \ {0}

Empty == -1     \* never written, or overwritten by the output tile

Modes == [pipeline : BOOLEAN, local : BOOLEAN, split : BOOLEAN]

VARIABLES
  mode,        \* compile-time flags FA2_FP8KV_PIPELINE, Is_local, Split
  n_min, n_max,
  pc,          \* program point of each warp
  n_block,     \* loop index of each warp
  qRows,       \* sQ: for the rows of each warp, the slices that have landed
  sK, sV,      \* the BF16 tiles the products read, per slice
  cleared,     \* slices of sV whose rows outside the window are zeroed
  kStage,      \* the FP8 staging tiles, per slice
  vStage,
  open,        \* cp.async copies issued but not yet in a commit group
  group,       \* cp.async copies in a commit group, not yet complete
  got,         \* what the running product has read: <<slice, tile>> pairs
  used,        \* per warp, the <<K tile, V tile>> pairs it has multiplied
  sO           \* warps whose rows of the output tile are in shared memory

loopVars == <<mode, n_min, n_max>>
vars == <<mode, n_min, n_max, pc, n_block, qRows, sK, sV, cleared, kStage,
          vStage, open, group, got, used, sO>>

Points == {"prologue", "wait_k", "bar_top", "convert_k", "bar_k", "load_v",
           "qk", "wait_v", "bar_mid", "convert_v", "bar_v", "clear_v",
           "bar_clear", "load_k", "pv", "bar_out", "stage_o", "bar_o",
           "store_o", "done"}

Barriers == {"bar_top", "bar_k", "bar_mid", "bar_v", "bar_clear", "bar_out", "bar_o"}

Torn == -2     \* a product read slices of different tiles

-----------------------------------------------------------------------------
Init ==
  /\ mode \in Modes
  /\ n_min \in 0 .. MaxBlocks - 1
  /\ n_max \in n_min + 1 .. MaxBlocks
  /\ pc      = [w \in Warps |-> "prologue"]
  /\ n_block = [w \in Warps |-> n_max - 1]
  /\ qRows   = [w \in Warps |-> {}]
  /\ sK      = [w \in Warps |-> Empty]
  /\ sV      = [w \in Warps |-> Empty]
  /\ cleared = {}
  /\ kStage  = [w \in Warps |-> Empty]
  /\ vStage  = [w \in Warps |-> Empty]
  /\ open    = [w \in Warps |-> {}]
  /\ group   = [w \in Warps |-> {}]
  /\ got     = [w \in Warps |-> {}]
  /\ used    = [w \in Warps |-> << >>]
  /\ sO      = {}

Jump(w, from, to) ==
  /\ pc[w] = from
  /\ pc' = [pc EXCEPT ![w] = to]

Copy(buffer, tile) == [buffer |-> buffer, tile |-> tile]

(* cp.async followed by cp_async_fence: the copy joins a commit group.     *)
IssueAndFence(w, copies) ==
  /\ group' = [group EXCEPT ![w] = @ \cup open[w] \cup copies]
  /\ open'  = [open EXCEPT ![w] = {}]

(* cp_async_wait<0>: returns when no commit group of the thread is pending. *)
Drained(w) == group[w] = {}

(***************************************************************************)
(* A cp.async copy completes at any time after it was issued.              *)
(***************************************************************************)
Land(w, c) ==
  /\ c \in open[w] \cup group[w]
  /\ open'  = [open EXCEPT ![w] = @ \ {c}]
  /\ group' = [group EXCEPT ![w] = @ \ {c}]
  /\ qRows'  = IF c.buffer = "q" THEN [x \in Warps |-> qRows[x] \cup {w}] ELSE qRows
  /\ kStage' = IF c.buffer = "k" THEN [kStage EXCEPT ![w] = c.tile] ELSE kStage
  /\ vStage' = IF c.buffer = "v" THEN [vStage EXCEPT ![w] = c.tile] ELSE vStage
  /\ UNCHANGED <<loopVars, pc, n_block, sK, sV, cleared, got, used, sO>>

-----------------------------------------------------------------------------
(* Q by cp.async in both builds; K of the last block staged or converted.  *)
Prologue(w) ==
  /\ Jump(w, "prologue", "wait_k")
  /\ IF mode.pipeline
     THEN /\ IssueAndFence(w, {Copy("q", 0), Copy("k", n_block[w])})
          /\ UNCHANGED sK
     ELSE /\ IssueAndFence(w, {Copy("q", 0)})
          /\ sK' = [sK EXCEPT ![w] = n_block[w]]
  /\ UNCHANGED <<loopVars, n_block, qRows, sV, cleared, kStage, vStage, got, used, sO>>

Mut_WaitK_Skipped(w) ==
  /\ Jump(w, "wait_k", "bar_top")
  /\ UNCHANGED <<loopVars, n_block, qRows, sK, sV, cleared, kStage, vStage,
                 open, group, got, used, sO>>

WaitK(w) ==
  /\ Drained(w)
  /\ Jump(w, "wait_k", "bar_top")
  /\ UNCHANGED <<loopVars, n_block, qRows, sK, sV, cleared, kStage, vStage,
                 open, group, got, used, sO>>

ConvertK(w) ==
  /\ Jump(w, "convert_k", "bar_k")
  /\ sK' = [sK EXCEPT ![w] = kStage[w]]
  /\ UNCHANGED <<loopVars, n_block, qRows, sV, cleared, kStage, vStage,
                 open, group, got, used, sO>>

(* V of this block: staged by cp.async, or converted into sV at once.      *)
LoadV(w) ==
  /\ Jump(w, "load_v", "qk")
  /\ IF mode.pipeline
     THEN IssueAndFence(w, {Copy("v", n_block[w])}) /\ UNCHANGED <<sV, cleared>>
     ELSE /\ IssueAndFence(w, {})
          /\ sV' = [sV EXCEPT ![w] = n_block[w]]
          /\ cleared' = cleared \ {w}
  /\ UNCHANGED <<loopVars, n_block, qRows, sK, kStage, vStage, got, used, sO>>

(* A product reads the slices of its tile one after the other.             *)
ReadSlice(w, x) ==
  /\ pc[w] \in {"qk", "pv"}
  /\ x \notin { g[1] : g \in got[w] }
  /\ got' = [got EXCEPT ![w] = @ \cup {<<x, IF pc[w] = "qk" THEN sK[x] ELSE sV[x]>>}]
  /\ UNCHANGED <<loopVars, pc, n_block, qRows, sK, sV, cleared, kStage, vStage,
                 open, group, used, sO>>

AllRead(w) == { g[1] : g \in got[w] } = Warps

(* The tile a finished product has used.                                   *)
TileRead(w) ==
  IF \E t \in { g[2] : g \in got[w] } : got[w] = { <<x, t>> : x \in Warps }
  THEN CHOOSE t \in { g[2] : g \in got[w] } : TRUE
  ELSE Torn

(* gemm S = Q K; the rows of Q must all have landed.                       *)
QK(w) ==
  /\ AllRead(w)
  /\ Jump(w, "qk", "wait_v")
  /\ got'  = [got EXCEPT ![w] = {}]
  /\ used' = [used EXCEPT ![w] =
                Append(@, <<IF qRows[w] = Warps THEN TileRead(w) ELSE Torn, Empty>>)]
  /\ UNCHANGED <<loopVars, n_block, qRows, sK, sV, cleared, kStage, vStage,
                 open, group, sO>>

WaitV(w) ==
  /\ Drained(w)
  /\ Jump(w, "wait_v", "bar_mid")
  /\ UNCHANGED <<loopVars, n_block, qRows, sK, sV, cleared, kStage, vStage,
                 open, group, got, used, sO>>

ConvertV(w) ==
  /\ Jump(w, "convert_v", "bar_v")
  /\ sV' = [sV EXCEPT ![w] = vStage[w]]
  /\ cleared' = cleared \ {w}
  /\ UNCHANGED <<loopVars, n_block, qRows, sK, kStage, vStage,
                 open, group, got, used, sO>>

Mut_ClearV_BranchBarrier(w) ==
  /\ \E to \in {"bar_clear", "load_k"} : Jump(w, "clear_v", to)
  /\ cleared' = cleared \cup {w}
  /\ UNCHANGED <<loopVars, n_block, qRows, sK, sV, kStage, vStage,
                 open, group, got, used, sO>>

(* clear_window_values: each thread zeroes its own rows, then a barrier.   *)
ClearV(w) ==
  /\ Jump(w, "clear_v", "bar_clear")
  /\ cleared' = cleared \cup {w}
  /\ UNCHANGED <<loopVars, n_block, qRows, sK, sV, kStage, vStage,
                 open, group, got, used, sO>>

Mut_LoadK_Unconditional(w) ==
  /\ Jump(w, "load_k", "pv")
  /\ IF mode.pipeline
     THEN IssueAndFence(w, {Copy("k", n_block[w] - 1)}) /\ UNCHANGED sK
     ELSE IssueAndFence(w, {}) /\ sK' = [sK EXCEPT ![w] = n_block[w] - 1]
  /\ UNCHANGED <<loopVars, n_block, qRows, sV, cleared, kStage, vStage, got, used, sO>>

(* The K tile of the next iteration.                                       *)
LoadK(w) ==
  /\ Jump(w, "load_k", "pv")
  /\ IF n_block[w] > n_min
     THEN IF mode.pipeline
          THEN IssueAndFence(w, {Copy("k", n_block[w] - 1)}) /\ UNCHANGED sK
          ELSE /\ IssueAndFence(w, {})
               /\ sK' = [sK EXCEPT ![w] = n_block[w] - 1]
     ELSE UNCHANGED <<open, group, sK>>
  /\ UNCHANGED <<loopVars, n_block, qRows, sV, cleared, kStage, vStage, got, used, sO>>

Mut_PV_OneTileTooMany(w) ==
  /\ AllRead(w)
  /\ Jump(w, "pv", IF n_block[w] >= n_min THEN "wait_k"
                   ELSE IF mode.split THEN "bar_out" ELSE "stage_o")
  /\ got'  = [got EXCEPT ![w] = {}]
  /\ used' = [used EXCEPT ![w][Len(used[w])] =
                <<@[1], IF mode.local /\ cleared # Warps THEN Torn ELSE TileRead(w)>>]
  /\ n_block' = [n_block EXCEPT ![w] = @ - 1]
  /\ UNCHANGED <<loopVars, qRows, sK, sV, cleared, kStage, vStage, open, group, sO>>

(* gemm_rs O += P V, then the next iteration or the epilogue.              *)
PV(w) ==
  /\ AllRead(w)
  /\ Jump(w, "pv", IF n_block[w] > n_min THEN "wait_k"
                   ELSE IF mode.split THEN "bar_out" ELSE "stage_o")
  /\ got'  = [got EXCEPT ![w] = {}]
  /\ used' = [used EXCEPT ![w][Len(used[w])] =
                <<@[1], IF mode.local /\ cleared # Warps THEN Torn ELSE TileRead(w)>>]
  /\ n_block' = [n_block EXCEPT ![w] = @ - 1]
  /\ UNCHANGED <<loopVars, qRows, sK, sV, cleared, kStage, vStage, open, group, sO>>

-----------------------------------------------------------------------------
Mut_StageO_NoBarrier(w) ==
  /\ Jump(w, "stage_o", "store_o")
  /\ sO' = sO \cup {w}
  /\ UNCHANGED <<qRows, sK, sV>>
  /\ UNCHANGED <<loopVars, n_block, cleared, kStage, vStage, open, group, got, used>>

(***************************************************************************)
(* The output tile reuses the memory at the start of smem_.  In BF16 the   *)
(* rows of a warp fall on its own rows of sQ; the FP32 tile of a split     *)
(* kernel is larger and falls on sQ, sK and sV of every warp.              *)
(***************************************************************************)
StageO(w) ==
  /\ Jump(w, "stage_o", "bar_o")
  /\ sO' = sO \cup {w}
  /\ IF mode.split
     THEN /\ qRows' = [x \in Warps |-> {}]
          /\ sK' = [x \in Warps |-> Empty]
          /\ sV' = [x \in Warps |-> Empty]
     ELSE /\ qRows' = [qRows EXCEPT ![w] = {}]
          /\ UNCHANGED <<sK, sV>>
  /\ UNCHANGED <<loopVars, n_block, cleared, kStage, vStage, open, group, got, used>>

(* Rows move to global memory by another partition than they came in.      *)
StoreO(w) ==
  /\ Jump(w, "store_o", "done")
  /\ UNCHANGED <<loopVars, n_block, qRows, sK, sV, cleared, kStage, vStage,
                 open, group, got, used, sO>>

-----------------------------------------------------------------------------
(* The program point behind a barrier; the flags are compile-time.         *)
After(b) ==
  CASE b = "bar_top"   -> IF mode.pipeline THEN "convert_k" ELSE "load_v"
    [] b = "bar_k"     -> "load_v"
    [] b = "bar_mid"   -> IF mode.pipeline THEN "convert_v"
                          ELSE IF mode.local THEN "clear_v" ELSE "load_k"
    [] b = "bar_v"     -> IF mode.local THEN "clear_v" ELSE "load_k"
    [] b = "bar_clear" -> "load_k"
    [] b = "bar_out"   -> "stage_o"
    [] b = "bar_o"     -> "store_o"

(* __syncthreads() releases the CTA when every warp has arrived.           *)
Syncthreads ==
  /\ \A w \in Warps : pc[w] \in Barriers
  /\ pc' = [w \in Warps |-> After(pc[w])]
  /\ UNCHANGED <<loopVars, n_block, qRows, sK, sV, cleared, kStage, vStage,
                 open, group, got, used, sO>>

WarpStep(w) ==
  \/ Prologue(w) \/ WaitK(w) \/ ConvertK(w) \/ LoadV(w)
  \/ \E x \in Warps : ReadSlice(w, x)
  \/ QK(w) \/ WaitV(w) \/ ConvertV(w) \/ ClearV(w) \/ LoadK(w) \/ PV(w)
  \/ StageO(w) \/ StoreO(w)

LandSome(w) == \E c \in open[w] \cup group[w] : Land(w, c)

Finished    == \A w \in Warps : pc[w] = "done"
Terminating == Finished /\ UNCHANGED vars

Next ==
  \/ \E w \in Warps : WarpStep(w) \/ LandSome(w)
  \/ Syncthreads
  \/ Terminating

(* Warps of a resident CTA keep being scheduled and copies complete.       *)
Fairness ==
  /\ \A w \in Warps : WF_vars(WarpStep(w)) /\ WF_vars(LandSome(w))
  /\ WF_vars(Syncthreads)

Spec     == Init /\ [][Next]_vars
FairSpec == Spec /\ Fairness

-----------------------------------------------------------------------------
Copies == [buffer : {"q", "k", "v"}, tile : Nat]

TypeOK ==
  /\ mode \in Modes
  /\ n_min \in Nat /\ n_max \in Nat /\ n_min < n_max
  /\ pc \in [Warps -> Points]
  /\ n_block \in [Warps -> Int]
  /\ qRows \in [Warps -> SUBSET Warps]
  /\ sK \in [Warps -> Int] /\ sV \in [Warps -> Int]
  /\ cleared \subseteq Warps
  /\ kStage \in [Warps -> Int] /\ vStage \in [Warps -> Int]
  /\ open \in [Warps -> SUBSET Copies] /\ group \in [Warps -> SUBSET Copies]
  /\ got \in [Warps -> SUBSET (Warps \X Int)]
  /\ used \in [Warps -> Seq(Int \X Int)]
  /\ sO \subseteq Warps

(***************************************************************************)
(* While a product is running, every slice it has read or will read holds  *)
(* the tile of its own iteration: nobody refills sK or sV under a slower   *)
(* warp, and no slice is left over from the previous tile.                 *)
(***************************************************************************)
ProductReadsItsTile ==
  \A w \in Warps :
    /\ pc[w] = "qk" => \A x \in Warps : sK[x] = n_block[w] /\ qRows[w] = Warps
    /\ pc[w] = "pv" => \A x \in Warps : sV[x] = n_block[w] /\ (mode.local => x \in cleared)
    /\ \A g \in got[w] : g[2] = n_block[w]

(***************************************************************************)
(* __syncthreads() is only well defined when all threads reach the same    *)
(* one: the warps' copies of the loop index never drift apart there.       *)
(***************************************************************************)
BarriersMatch ==
  (\A w \in Warps : pc[w] \in Barriers) =>
    \A w, x \in Warps : pc[w] = pc[x] /\ n_block[w] = n_block[x]

(***************************************************************************)
(* Rows are read from the shared output tile only when every warp has put  *)
(* its rows there, and nothing is overwritten after that.                  *)
(***************************************************************************)
OutputStaged == \A w \in Warps : pc[w] \in {"store_o", "done"} => sO = Warps

(***************************************************************************)
(* No copy is in flight when the output tile is laid over the buffers.     *)
(***************************************************************************)
QuietAtTheEnd == \A w \in Warps : w \in sO => open[w] \cup group[w] = {}

(***************************************************************************)
(* The pipeline implements TileStream, its liveness included: every warp   *)
(* gets through all its tiles and stores its rows, no barrier is left      *)
(* waiting.  A pair counts as multiplied when its second product is done.  *)
(***************************************************************************)
Stream == INSTANCE TileStream WITH
  used   <- [w \in Warps |->
               IF pc[w] \in {"wait_v", "bar_mid", "convert_v", "bar_v", "clear_v",
                             "bar_clear", "load_k", "pv"}
               THEN SubSeq(used[w], 1, Len(used[w]) - 1) ELSE used[w]],
  stored <- { w \in Warps : pc[w] = "done" }

ImplementsTileStream == Stream!FairSpec
=============================================================================
