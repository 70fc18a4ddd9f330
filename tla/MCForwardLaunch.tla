-------------------------- MODULE MCForwardLaunch --------------------------
(***************************************************************************)
(* Instances of ForwardLaunch: calls small enough that all orders of their *)
(* CTAs can be explored, each chosen for a part of the address arithmetic. *)
(***************************************************************************)
EXTENDS ForwardLaunch

Call(heads, kv_heads, max_q, splits, pack) ==
  [ batch |-> 2, tokens |-> 2 * max_q, heads |-> heads, kv_heads |-> kv_heads,
    page_size |-> 2, pages |-> 2, max_q |-> max_q, max_k |-> 4, causal |-> TRUE,
    window_left |-> -1, window_right |-> -1, splits |-> splits, pack_gqa |-> pack,
    contiguous |-> TRUE ]

Windowed(left, right, causal) ==
  [Call(1, 1, 2, 0, FALSE) EXCEPT !.batch = 1, !.tokens = 2, !.window_left = left,
                                  !.window_right = right, !.causal = causal]

LaunchedCalls ==
  { [Call(1, 1, 3, 2, FALSE) EXCEPT !.tokens = 4], \* two row blocks, two splits
    Call(2, 1, 3, 1, FALSE),                      \* no split, two heads on one KV head
    Call(4, 2, 1, 2, TRUE),                       \* packed, through a temporary
    Call(2, 1, 1, 3, TRUE),                       \* packed, a view of the output
    Call(2, 1, 2, 2, TRUE),                       \* packing refused: two query tiles
    [Call(2, 1, 1, 1, TRUE) EXCEPT !.window_left = 1] }  \* packing refused: a window
  \cup { Windowed(l, r, c) : l \in {-1, 0, 1}, r \in {-1, 1}, c \in BOOLEAN }

(* Captured calls padded to two tokens: replayed with other sequences.   *)
ReplayedCalls ==
  { Call(1, 1, 1, 2, FALSE), Call(2, 1, 1, 2, TRUE), Call(4, 2, 1, 1, TRUE) }

MCCalls == LaunchedCalls \cup ReplayedCalls

MCRounds(c) == IF c \in ReplayedCalls THEN 2 ELSE 1

(* Every compiler keeps the low half of a product.                         *)
NarrowBuild == { {} }

(* A split call whose scratch is larger than an int can address.           *)
ScratchCalls == { Call(1, 1, 2, 3, FALSE) }

AnyBuild == SUBSET AddressProducts

(* Unsplit launch of a ragged batch with an empty sequence.                *)
EmptyTileCalls == { Call(2, 1, 2, 1, FALSE) }

(* Device metadata a caller may put into the tensors captured with c.      *)
MCMetadata(c) ==
  LET contents(lens, keys) ==
        [ cu_q  |-> [i \in 1 .. c.batch + 1 |->
                       IF i = 1 THEN 0 ELSE IF i = 2 THEN lens[1] ELSE lens[1] + lens[2]],
          seq_k |-> [i \in 1 .. c.batch |-> keys[i]] ]
  IN  { contents(lens, keys) : lens \in { l \in [1 .. 2 -> {0, 1, c.max_q}] : l[1] + l[2] <= c.tokens },
                           keys \in [1 .. 2 -> {0, 3, c.max_k}] }

FullSequences(c) == { m \in MCMetadata(c) : m.cu_q = <<0, c.max_q, 2 * c.max_q>> }

MCMetadataNoEmptyTile(c) == { m \in MCMetadata(c) : NoEmptyTile(c, m) }
=============================================================================
