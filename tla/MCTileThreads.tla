---------------------------- MODULE MCTileThreads ----------------------------
(***************************************************************************)
(* TileThreads with warps of 4 x 2 lanes: the tile is 16 x 16, as square   *)
(* as that of head dimension 128 (64 x 64).  A few tiles stand for the     *)
(* shapes SplitTile enumerates.                                            *)
(***************************************************************************)
EXTENDS TileThreads

Shape(causal, wl, wr, splits, groups, m, Q, K) ==
  [causal |-> causal, local |-> wl >= 0 /\ ~ causal, wl |-> wl, wr |-> wr,
   splits |-> splits, groups |-> groups, m |-> m, Q |-> Q, K |-> K]

MCTiles ==
  { t \in
      { Shape(TRUE, 64, 0, n, g, m, q, k) :
          n \in {1, 2, 5}, g \in {1, 2}, m \in {0, 1}, q \in {6, 18}, k \in {5, 37} }
      \cup { Shape(FALSE, 7, 1, n, 1, m, q, k) :
               n \in {1, 2}, m \in {0, 1}, q \in {6, 18}, k \in {5, 37} }
      \cup { Shape(FALSE, -1, -1, n, 1, 0, 6, k) : n \in {1, 5}, k \in {0, 37} }
      \cup { Shape(FALSE, -1, -1, 10, 1, 0, 6, 150) } :
    t \in ValidTiles }
=============================================================================
