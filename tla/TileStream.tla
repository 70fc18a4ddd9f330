----------------------------- MODULE TileStream -----------------------------
(***************************************************************************)
(* What the main loop of a CTA promises, without shared memory: every warp *)
(* multiplies its queries with the K tiles n_max - 1, ..., n_min and its   *)
(* probabilities with the V tile of the same index, each tile whole and    *)
(* once, and results leave the CTA only when all warps are through.        *)
(***************************************************************************)
EXTENDS Integers, Sequences

CONSTANT Warps

VARIABLES
  n_min, n_max,   \* the block range of this CTA; never change
  used,           \* per warp, the <<K tile, V tile>> pairs it has multiplied
  stored          \* warps that have written their part of the output

vars == <<n_min, n_max, used, stored>>

NextTile(w) == n_max - 1 - Len(used[w])

Init ==
  /\ n_min \in Nat
  /\ n_max \in Nat
  /\ n_min < n_max
  /\ used = [w \in Warps |-> << >>]
  /\ stored = {}

FoldTile(w) ==
  /\ NextTile(w) >= n_min
  /\ used' = [used EXCEPT ![w] = Append(@, <<NextTile(w), NextTile(w)>>)]
  /\ UNCHANGED <<n_min, n_max, stored>>

StoreRows(w) ==
  /\ w \notin stored
  /\ \A x \in Warps : NextTile(x) < n_min
  /\ stored' = stored \cup {w}
  /\ UNCHANGED <<n_min, n_max, used>>

Next == \E w \in Warps : FoldTile(w) \/ StoreRows(w)

Fairness == \A w \in Warps : WF_vars(FoldTile(w)) /\ WF_vars(StoreRows(w))

Spec     == Init /\ [][Next]_vars
FairSpec == Spec /\ Fairness
=============================================================================
