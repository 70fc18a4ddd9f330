---------------------------- MODULE HostForward ----------------------------
(***************************************************************************)
(* The host side of one operator call, fa2_fp8kv::forward in fp8_attn.cu:  *)
(* what is accepted, and the launch parameters derived from it.            *)
(*                                                                         *)
(* A call c has the fields                                                 *)
(*   batch, tokens      seq_k.numel(), q.size(0)                           *)
(*   heads, kv_heads    q.size(1), k.size(2)                               *)
(*   page_size, pages   k.size(1), table.size(1)                           *)
(*   max_q, max_k, causal, window_left, window_right, splits, pack_gqa     *)
(*   contiguous         out.is_contiguous()                                *)
(* The numeric limits of the port are constants so that an instance can    *)
(* scale them down.                                                        *)
(***************************************************************************)
EXTENDS KvGeometry

CONSTANTS
  MaxQueries,      \* 2048
  MaxKeys,         \* 262144
  MaxSplitCount,   \* 128, also 1 << Log_max_splits of the combine kernel
  AutoSplitKeys,   \* 128 keys per automatic split
  PageQuantum      \* pages are a multiple of 16 rows

ASSUME LimitsAssumption ==
  /\ {MaxQueries, MaxKeys, MaxSplitCount, AutoSplitKeys, PageQuantum} \subseteq Nat \ {0}

(* The arguments of a call; q has at least one head.                       *)
CallTypes ==
  [ batch : Nat, tokens : Nat, heads : Nat \ {0}, kv_heads : Nat, page_size : Nat,
    pages : Nat, max_q : Int, max_k : Int, causal : BOOLEAN, window_left : Int,
    window_right : Int, splits : Int, pack_gqa : BOOLEAN, contiguous : BOOLEAN ]

Groups(c) == IF c.pack_gqa THEN c.heads \div c.kv_heads ELSE 1

(* Window normalisation: causal means no key to the right.                 *)
RightWindow(c)    == IF c.causal THEN 0 ELSE c.window_right
OrdinaryCausal(c) == c.window_left < 0 /\ RightWindow(c) = 0

Mut_LaunchLeft_Raw(c)  == c.window_left

LaunchLeft(c) ==
  IF c.window_left < 0 /\ RightWindow(c) >= 0 THEN c.max_k ELSE c.window_left
LaunchRight(c) ==
  IF RightWindow(c) < 0 /\ LaunchLeft(c) >= 0 THEN c.max_k ELSE RightWindow(c)

(* splits = 0 asks for an automatic count; only short queries are split.   *)
SplitCount(c) ==
  LET active_k == IF c.window_left >= 0
                  THEN AtMost(c.max_k, c.window_left + c.max_q) ELSE c.max_k
  IN  IF c.splits # 0 THEN c.splits
      ELSE IF c.max_q <= kBlockM
           THEN AtMost(MaxSplitCount,
                       AtLeast(1, (active_k + AutoSplitKeys - 1) \div AutoSplitKeys))
           ELSE 1

Mut_PackingAllowed_AnyLength(c) == Groups(c) = 1 \/ OrdinaryCausal(c)

(* "GQA packing currently supports one causal query tile".                 *)
PackingAllowed(c) ==
  Groups(c) = 1 \/ (c.max_q * Groups(c) <= kBlockM /\ OrdinaryCausal(c))

Accepted(c) ==
  /\ c.kv_heads > 0 /\ c.heads % c.kv_heads = 0
  /\ c.page_size >= PageQuantum /\ c.page_size % PageQuantum = 0
  /\ c.batch > 0
  /\ c.max_q > 0 /\ c.max_q <= MaxQueries
  /\ c.max_k > 0 /\ c.max_k <= MaxKeys
  /\ c.tokens <= c.batch * c.max_q
  /\ c.pages >= (c.max_k + c.page_size - 1) \div c.page_size
  /\ c.window_left >= -1 /\ c.window_right >= -1
  /\ c.splits >= 0 /\ c.splits <= MaxSplitCount
  /\ PackingAllowed(c)

(***************************************************************************)
(* What the caller owes the kernels, which the host cannot check on device *)
(* tensors: cu_q is a prefix sum inside q, no sequence has more queries    *)
(* than max_q or more keys than max_k.                                     *)
(***************************************************************************)
ValidMetadata(c) ==
  { m \in [cu_q : [1 .. c.batch + 1 -> 0 .. c.tokens], seq_k : [1 .. c.batch -> 0 .. c.max_k]] :
      /\ m.cu_q[1] = 0
      /\ \A i, j \in 1 .. c.batch + 1 : i <= j => m.cu_q[i] <= m.cu_q[j]
      /\ \A i \in 1 .. c.batch : m.cu_q[i + 1] - m.cu_q[i] <= c.max_q }

(* dispatch<>: the template flags of the kernel that is launched.          *)
Launch(c) ==
  [ causal  |-> OrdinaryCausal(c),
    local   |-> ~ OrdinaryCausal(c) /\ (LaunchLeft(c) >= 0 \/ LaunchRight(c) >= 0),
    wl      |-> LaunchLeft(c),
    wr      |-> LaunchRight(c),
    splits  |-> SplitCount(c),
    groups  |-> Groups(c),
    b       |-> c.batch,
    h       |-> c.heads \div Groups(c),
    ratio   |-> (c.heads \div Groups(c)) \div c.kv_heads,
    total_q |-> c.tokens * Groups(c),
    seqlen_q |-> c.max_q * Groups(c) ]

(* The tile a CTA of launch p works on: row block m of a sequence with q   *)
(* (packed) query rows and k keys.                                         *)
TileOf(p, m, q, k) ==
  [ causal |-> p.causal, local |-> p.local, wl |-> p.wl, wr |-> p.wr,
    splits |-> p.splits, groups |-> p.groups, m |-> m, Q |-> q, K |-> k ]
=============================================================================
