---------------------------- MODULE MCSplitTile ----------------------------
(***************************************************************************)
(* Small instances of SplitTile.  kBlockM/kBlockN keeps the ratios of the  *)
(* build: 2 for head dimension 256 (64/32), 1 for head dimension 128.      *)
(***************************************************************************)
EXTENDS SplitTile

CONSTANTS
  MaxQ, MaxK,      \* bounds on actual_seqlen_q and actual_seqlen_k
  MaxSplits,
  Windows,         \* bounds tried for a local window
  GroupSizes       \* query_group_size values tried for a causal launch

Shape(causal, local, wl, wr, groups) ==
  { [causal |-> causal, local |-> local, wl |-> wl, wr |-> wr,
     splits |-> n, groups |-> groups, m |-> m, Q |-> q, K |-> k] :
      n \in 1 .. MaxSplits, m \in 0 .. MaxQ \div kBlockM,
      q \in 0 .. MaxQ, k \in 0 .. MaxK }

CausalTiles == UNION { Shape(TRUE, FALSE, MaxK, 0, g) : g \in GroupSizes }
LocalTiles  == UNION { Shape(FALSE, TRUE, l, r, 1) : l, r \in Windows }
PlainTiles  == Shape(FALSE, FALSE, -1, -1, 1)

MCTiles == { t \in CausalTiles \cup LocalTiles \cup PlainTiles : t \in ValidTiles }
=============================================================================
