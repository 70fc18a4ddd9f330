----------------------------- MODULE KvGeometry -----------------------------
(***************************************************************************)
(* The integer geometry of the split-KV forward kernel: which key blocks a *)
(* row block of queries needs, how they are divided between the splits,    *)
(* how many of them are masked, and which scores a mask keeps.             *)
(*                                                                         *)
(* A tile t describes one row block of one (sequence, kernel head) of one  *)
(* launch; the host side guarantees t \in ValidTiles:                      *)
(*   causal, local  the template flags Is_causal and Is_local              *)
(*   wl, wr         params.window_size_left / _right                       *)
(*   splits         params.num_splits        groups  query_group_size      *)
(*   m              m_block (blockIdx.x)                                   *)
(*   Q, K           actual_seqlen_q (in packed rows) and actual_seqlen_k   *)
(***************************************************************************)
EXTENDS Integers

CONSTANTS
  kBlockM,   \* query rows of a row block
  kBlockN    \* keys of a key block

ASSUME BlocksArePositive == kBlockM \in Nat \ {0} /\ kBlockN \in Nat \ {0}

AtLeast(a, b) == IF a >= b THEN a ELSE b      \* std::max
AtMost(a, b)  == IF a <= b THEN a ELSE b      \* std::min

(* C++ integer division truncates toward zero; the divisor is positive.    *)
TruncDiv(a, b) == IF a >= 0 THEN a \div b ELSE -((-a) \div b)
CeilDiv(a, b)  == TruncDiv(a + b - 1, b)

(* What forward() and dispatch() let through (fp8_attn.cu).                *)
ValidTiles ==
  { t \in [causal : BOOLEAN, local : BOOLEAN, wl : Int, wr : Int,
           splits : Nat \ {0}, groups : Nat \ {0}, m : Nat, Q : Nat, K : Nat] :
      /\ ~ (t.causal /\ t.local)
      /\ t.causal => t.wr = 0
      /\ t.local  => t.wl >= 0 /\ t.wr >= 0
      /\ t.groups > 1 => t.causal /\ t.Q <= kBlockM
      /\ t.Q % t.groups = 0 }

-----------------------------------------------------------------------------
(* The last key position a row may need, before clipping to the sequence.  *)
Shift(t) == t.K - t.Q

FirstBlock(t) ==
  IF t.local THEN AtLeast(0, TruncDiv(t.m * kBlockM + Shift(t) - t.wl, kBlockN)) ELSE 0

LastBlock(t) ==
  IF t.causal \/ t.local
  THEN AtMost(CeilDiv(t.K, kBlockN),
              CeilDiv((t.m + 1) * kBlockM + Shift(t) + t.wr, kBlockN))
  ELSE CeilDiv(t.K, kBlockN)

BlocksPerSplit(t) ==
  CeilDiv(AtLeast(0, LastBlock(t) - FirstBlock(t)), t.splits)

(* Split s owns the key blocks BlockMin(t, s) .. BlockMax(t, s) - 1.       *)
BlockMin(t, s) == FirstBlock(t) + s * BlocksPerSplit(t)

Mut_BlockMax_OneTooMany(t, s) ==
  AtMost(LastBlock(t), FirstBlock(t) + (s + 1) * BlocksPerSplit(t) + 1)

BlockMax(t, s) ==
  AtMost(LastBlock(t), FirstBlock(t) + (s + 1) * BlocksPerSplit(t))

-----------------------------------------------------------------------------
Mut_MaskingSteps_EvenMN(t) ==
  IF ~ t.causal /\ ~ t.local THEN 1 ELSE CeilDiv(kBlockM, kBlockN)

(* Leading iterations that mask scores; Is_even_MN is false in this build. *)
MaskingSteps(t) ==
  IF ~ t.causal /\ ~ t.local THEN 1 ELSE CeilDiv(kBlockM, kBlockN) + 1

(* Row r of the row block, as a query position of its sequence.            *)
Token(t, r) == (t.m * kBlockM + r) \div t.groups
Tokens(t)   == t.Q \div t.groups

LimitLeft(t, r)  == AtLeast(0, Token(t, r) + t.K - Tokens(t) - t.wl)

Mut_LimitRight_Packed(t, r) ==
  AtMost(t.K, t.m * kBlockM + r + 1 + t.K - t.Q + t.wr)

LimitRight(t, r) == AtMost(t.K, Token(t, r) + 1 + t.K - Tokens(t) + t.wr)

(* The score of key k survives apply_mask in a masking iteration or not.   *)
Kept(t, r, k, masking) ==
  IF t.local
  THEN LimitLeft(t, r) <= k /\ k < LimitRight(t, r)
  ELSE masking => k < (IF t.causal THEN LimitRight(t, r) ELSE t.K)

BlockKeys(n) == n * kBlockN .. n * kBlockN + kBlockN - 1

-----------------------------------------------------------------------------
(***************************************************************************)
(* The reference: bottom-right aligned attention.  Query position i of a   *)
(* sequence of Tokens(t) queries and K keys stands at key position         *)
(* i + K - Tokens(t).                                                      *)
(***************************************************************************)
Visible(t, r) ==
  LET here == Token(t, r) + t.K - Tokens(t)
  IN  { k \in 0 .. t.K - 1 :
          /\ t.causal => k <= here
          /\ t.local  => here - t.wl <= k /\ k <= here + t.wr }

Rows == 0 .. kBlockM - 1

(* Rows of the tile that hold a query (the others are padding).            *)
LiveRows(t) == { r \in Rows : r < t.Q - t.m * kBlockM }
=============================================================================
