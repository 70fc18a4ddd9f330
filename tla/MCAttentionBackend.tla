------------------------- MODULE MCAttentionBackend -------------------------
(***************************************************************************)
(* Instances of AttentionBackend.  Limits keep their order: ShortQuery is  *)
(* one query tile (2), the operator takes 4 queries, the prefix is         *)
(* unpacked 3 keys at a time, so contexts of up to 13 keys give up to four *)
(* prefix chunks and up to three chunks of queries.                        *)
(***************************************************************************)
EXTENDS AttentionBackend

Batch(q, k, upper) ==
  [ q |-> q, k |-> k, upper |-> upper, causal |-> TRUE, window_left |-> -1,
    capturing |-> FALSE, supported |-> TRUE, heads |-> 2, kv_heads |-> 2,
    page_size |-> 2, pages |-> 7, max_model_len |-> 13,
    adapter |-> "plugin", enabled |-> FALSE, splits |-> 1,
    rows |-> IF Len(q) = 1 THEN q[1] + 1 ELSE q[1] + q[2] + 1 ]

(* The CPU bound is exact for a prefill row and may be too large for a     *)
(* decode row, whose rejected draft tokens it still counts.                *)
Bounds(q, k) ==
  { << >>, k } \cup (IF q[1] <= ShortQuery THEN { [k EXCEPT ![1] = @ + 2] } ELSE {})

Single == UNION { { Batch(<<q>>, <<k>>, u) : u \in Bounds(<<q>>, <<k>>) } :
                    q \in 0 .. 10, k \in 0 .. 13 }
Pairs  == UNION { { Batch(<<q[1], q[2]>>, <<k[1], k[2]>>, u) : u \in Bounds(q, k) } :
                    q \in ({0, 1, 2, 5} \X {0, 4, 9}), k \in ({2, 6, 12} \X {5, 9, 13}) }

(* A decoder request has at least as many keys as queries.                 *)
Sound == { b \in Single \cup Pairs : \A i \in 1 .. Len(b.q) : b.q[i] <= b.k[i] }

Variants(b) ==
  { b,
    [b EXCEPT !.heads = 2, !.kv_heads = 1],
    [b EXCEPT !.capturing = TRUE],
    [b EXCEPT !.window_left = 3, !.causal = FALSE],
    [b EXCEPT !.window_left = 3],
    [b EXCEPT !.causal = FALSE, !.supported = FALSE],
    [b EXCEPT !.max_model_len = 20],
    [b EXCEPT !.adapter = "overlay"],
    [b EXCEPT !.adapter = "overlay", !.enabled = TRUE, !.splits = 3],
    [b EXCEPT !.adapter = "overlay", !.enabled = TRUE, !.window_left = 3, !.causal = FALSE] }

MCBatches == UNION { Variants(b) : b \in Sound }
=============================================================================
