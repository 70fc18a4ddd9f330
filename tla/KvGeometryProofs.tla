-------------------------- MODULE KvGeometryProofs --------------------------
(* Facts about the block geometry, for all block sizes, lengths, windows   *)
(* and split counts.                                                       *)
EXTENDS KvGeometry, WellFoundedInduction, TLAPS

(* Division of naturals: quotient and remainder.                           *)
LEMMA DivBounds ==
  ASSUME NEW a \in Nat, NEW b \in Nat \ {0}
  PROVE  /\ a \div b \in Nat
         /\ (a \div b) * b <= a
         /\ a < (a \div b) * b + b
  BY SMT

(* C++ division truncates toward zero, for both signs.                     *)
LEMMA TruncDivInt ==
  ASSUME NEW a \in Int, NEW b \in Nat \ {0}
  PROVE  /\ TruncDiv(a, b) \in Int
         /\ a >= 0 => TruncDiv(a, b) \in Nat /\ TruncDiv(a, b) * b <= a
         /\ a <= 0 => TruncDiv(a, b) <= 0 /\ TruncDiv(a, b) * b >= a
         /\ a < TruncDiv(a, b) * b + b
  <1>1. CASE a >= 0
    <2>1. a \in Nat /\ TruncDiv(a, b) = a \div b
      BY <1>1 DEF TruncDiv
    <2>2. a = 0 => a \div b <= 0
      BY SMT
    <2> QED
      BY <1>1, <2>1, <2>2, DivBounds
  <1>2. CASE a < 0
    <2>1. -a \in Nat /\ TruncDiv(a, b) = -((-a) \div b)
      BY <1>2 DEF TruncDiv
    <2> DEFINE d == (-a) \div b
    <2>2. d \in Nat /\ d * b <= -a /\ -a < d * b + b
      BY <2>1, DivBounds
    <2>3. (-d) * b = -(d * b)
      BY <2>2
    <2> HIDE DEF d
    <2> QED
      BY <1>2, <2>1, <2>2, <2>3
  <1> QED
    BY <1>1, <1>2

(* ceil_div never falls short, also of a negative dividend.                *)
LEMMA CeilDivCovers ==
  ASSUME NEW a \in Int, NEW b \in Nat \ {0}
  PROVE  /\ CeilDiv(a, b) \in Int
         /\ a <= CeilDiv(a, b) * b
         /\ a >= 0 => CeilDiv(a, b) \in Nat
  BY TruncDivInt DEF CeilDiv

(* ceil_div of integers is an integer.                                     *)
LEMMA CeilDivInt ==
  ASSUME NEW a \in Int, NEW b \in Nat \ {0}
  PROVE  CeilDiv(a, b) \in Int
  BY CeilDivCovers

(* Multiplication by a natural number keeps the order.                     *)
LEMMA MultiplesOrdered ==
  ASSUME NEW x \in Int, NEW y \in Int, NEW c \in Nat, x <= y
  PROVE  x * c <= y * c
  BY SMT

(* Comparing multiples compares the factors.                               *)
LEMMA MultiplesReflectOrder ==
  ASSUME NEW x \in Int, NEW y \in Int, NEW c \in Nat \ {0}, x * c < y * c
  PROVE  x < y
  <1>1. ASSUME y <= x PROVE FALSE
    BY <1>1, MultiplesOrdered
  <1> QED
    BY <1>1

(* A quotient and remainder are unique.                                    *)
LEMMA DivUnique ==
  ASSUME NEW d \in Nat \ {0}, NEW q \in Int, NEW r \in 0 .. d - 1, NEW n \in Nat, n = q * d + r
  PROVE  n \div d = q /\ n % d = r
  <1>1. n \div d \in Int /\ (n \div d) * d <= n /\ n < (n \div d) * d + d
    BY DivBounds
  <1>2. q * d <= n /\ n < q * d + d
    BY SMT
  <1>3. (q + 1) * d = q * d + d /\ (n \div d + 1) * d = (n \div d) * d + d
    BY <1>1
  <1>4. q * d < (n \div d + 1) * d /\ (n \div d) * d < (q + 1) * d
    BY <1>1, <1>2, <1>3
  <1>5. q < n \div d + 1 /\ n \div d < q + 1
    <2>1. q + 1 \in Int /\ n \div d + 1 \in Int
      BY <1>1
    <2> QED
      BY <1>1, <1>4, <2>1, MultiplesReflectOrder
  <1>6. n \div d = q
    BY <1>1, <1>5
  <1>7. n % d = n - d * (n \div d)
    BY SMT
  <1> QED
    BY <1>6, <1>7

(* A non-empty set of natural numbers has a least element.                 *)
LEMMA LeastNatural ==
  ASSUME NEW T \in SUBSET Nat, T # {}
  PROVE  \E m \in T : \A k \in T : m <= k
  <1> DEFINE R == OpToRel(<, Nat)
  <1>1. IsWellFoundedOn(R, Nat)
    BY NatLessThanWellFounded
  <1>2. R = { ss \in Nat \X Nat : ss[1] < ss[2] }
    BY DEF OpToRel
  <1> HIDE DEF R
  <1>3. PICK m \in T : \A y \in T : ~ (<<y, m>> \in R)
    BY <1>1, WFMin
  <1>4. ASSUME NEW k \in T PROVE m <= k
    <2>1. k \in Nat /\ m \in Nat /\ ~ (<<k, m>> \in R)
      BY <1>3
    <2>2. <<k, m>> \in Nat \X Nat /\ <<k, m>>[1] = k /\ <<k, m>>[2] = m
      BY <2>1
    <2>3. ~ (k < m)
      BY <1>2, <2>1, <2>2
    <2> QED
      BY <2>1, <2>3
  <1> QED
    BY <1>4

(* The block numbers of a valid tile are integers of the right sign.       *)
LEMMA GeometryTypes ==
  ASSUME NEW t \in ValidTiles
  PROVE  /\ FirstBlock(t) \in Nat
         /\ LastBlock(t) \in Int
         /\ BlocksPerSplit(t) \in Nat
         /\ \A s \in Nat : BlockMin(t, s) \in Nat /\ BlockMax(t, s) \in Int
  <1> USE BlocksArePositive
  <1>1. /\ t.m \in Nat /\ t.Q \in Nat /\ t.K \in Nat /\ t.wl \in Int /\ t.wr \in Int
        /\ t.splits \in Nat \ {0}
    BY DEF ValidTiles
  <1>2. /\ t.m * kBlockM + Shift(t) - t.wl \in Int
        /\ (t.m + 1) * kBlockM + Shift(t) + t.wr \in Int
    BY <1>1 DEF Shift
  <1>3. FirstBlock(t) \in Nat
    BY <1>2, TruncDivInt DEF FirstBlock, AtLeast
  <1>4. LastBlock(t) \in Int
    <2>1. CeilDiv(t.K, kBlockN) \in Int
      BY <1>1, CeilDivInt
    <2>2. CeilDiv((t.m + 1) * kBlockM + Shift(t) + t.wr, kBlockN) \in Int
      BY <1>2, CeilDivInt
    <2> QED
      BY <2>1, <2>2 DEF LastBlock, AtMost
  <1>5. BlocksPerSplit(t) \in Nat
    BY <1>1, <1>3, <1>4, CeilDivCovers DEF BlocksPerSplit, AtLeast
  <1>6. ASSUME NEW s \in Nat PROVE BlockMin(t, s) \in Nat /\ BlockMax(t, s) \in Int
    <2>1. s * BlocksPerSplit(t) \in Nat /\ (s + 1) * BlocksPerSplit(t) \in Nat
      BY <1>5
    <2> QED
      BY <1>3, <1>4, <2>1 DEF BlockMin, BlockMax, AtMost
  <1> QED
    BY <1>3, <1>4, <1>5, <1>6

(* Different key blocks hold different keys.                               *)
LEMMA BlockKeysDisjoint ==
  ASSUME NEW n1 \in Int, NEW n2 \in Int, n1 # n2
  PROVE  BlockKeys(n1) \cap BlockKeys(n2) = {}
  <1> USE BlocksArePositive
  <1>1. ASSUME NEW a \in Int, NEW b \in Int, a < b PROVE a * kBlockN + kBlockN <= b * kBlockN
    <2>1. (a + 1) * kBlockN <= b * kBlockN
      BY <1>1, MultiplesOrdered
    <2>2. (a + 1) * kBlockN = a * kBlockN + kBlockN
      BY SMT
    <2> QED
      BY <2>1, <2>2
  <1>2. n1 < n2 \/ n2 < n1
    OBVIOUS
  <1> QED
    BY <1>1, <1>2 DEF BlockKeys

(***************************************************************************)
(* Two splits never own the same key block: their ranges are disjoint for  *)
(* every number of splits, blocks left over or not.                        *)
(***************************************************************************)
THEOREM SplitsOwnDifferentBlocks ==
  ASSUME NEW t \in ValidTiles, NEW s1 \in Nat, NEW s2 \in Nat, s1 # s2,
         NEW n1 \in BlockMin(t, s1) .. BlockMax(t, s1) - 1,
         NEW n2 \in BlockMin(t, s2) .. BlockMax(t, s2) - 1
  PROVE  n1 # n2
  <1> DEFINE B == BlocksPerSplit(t)
  <1>1. /\ FirstBlock(t) \in Nat /\ LastBlock(t) \in Int /\ B \in Nat
        /\ BlockMin(t, s1) \in Nat /\ BlockMax(t, s1) \in Int
        /\ BlockMin(t, s2) \in Nat /\ BlockMax(t, s2) \in Int
    BY GeometryTypes
  <1>2. ASSUME NEW a \in Nat, NEW b \in Nat, a < b, NEW x \in BlockMin(t, a) .. BlockMax(t, a) - 1
        PROVE  x < BlockMin(t, b)
    <2>1. (a + 1) * B <= b * B
      BY <1>1, <1>2, MultiplesOrdered
    <2>2. (a + 1) * B \in Nat /\ b * B \in Nat /\ BlockMin(t, a) \in Nat /\ BlockMax(t, a) \in Int
      BY <1>1, GeometryTypes
    <2>3. BlockMax(t, a) <= FirstBlock(t) + (a + 1) * B
      BY <1>1, <2>2 DEF BlockMax, AtMost
    <2> HIDE DEF B
    <2>4. BlockMin(t, b) = FirstBlock(t) + b * B
      BY DEF BlockMin, B
    <2> QED
      BY <1>1, <1>2, <2>1, <2>2, <2>3, <2>4
  <1>3. CASE s1 < s2
    BY <1>1, <1>2, <1>3
  <1>4. CASE s2 < s1
    BY <1>1, <1>2, <1>4
  <1> QED
    BY <1>3, <1>4

(***************************************************************************)
(* The splits together own every block of the range: nothing is dropped    *)
(* when the number of blocks is not a multiple of the number of splits.    *)
(***************************************************************************)
THEOREM SplitsOwnEveryBlock ==
  ASSUME NEW t \in ValidTiles, NEW n \in FirstBlock(t) .. LastBlock(t) - 1
  PROVE  \E s \in 0 .. t.splits - 1 : n \in BlockMin(t, s) .. BlockMax(t, s) - 1
  <1> DEFINE B == BlocksPerSplit(t)
             d == n - FirstBlock(t)
             s == d \div B
  <1>1. FirstBlock(t) \in Nat /\ LastBlock(t) \in Int /\ B \in Nat /\ t.splits \in Nat \ {0}
    BY GeometryTypes DEF ValidTiles
  <1>2. d \in Nat /\ d < LastBlock(t) - FirstBlock(t)
    BY <1>1
  <1>3. LastBlock(t) - FirstBlock(t) <= B * t.splits
    <2>1. AtLeast(0, LastBlock(t) - FirstBlock(t)) = LastBlock(t) - FirstBlock(t)
      BY <1>1, <1>2 DEF AtLeast
    <2>2. LastBlock(t) - FirstBlock(t) \in Int
      BY <1>1
    <2> QED
      BY <1>1, <2>1, <2>2, CeilDivCovers DEF BlocksPerSplit
  <1>4. B # 0
    BY <1>1, <1>2, <1>3
  <1>5. s \in Nat /\ s * B <= d /\ d < s * B + B
    BY <1>1, <1>2, <1>4, DivBounds
  <1>6. s < t.splits
    <2>1. s * B < t.splits * B
      <3>1. B * t.splits = t.splits * B
        BY <1>1
      <3> QED
        BY <1>1, <1>2, <1>3, <1>5, <3>1
    <2> QED
      BY <1>1, <1>4, <1>5, <2>1, MultiplesReflectOrder
  <1>7. n \in BlockMin(t, s) .. BlockMax(t, s) - 1
    <2>1. (s + 1) * B = s * B + B
      BY <1>1, <1>5
    <2>2. BlockMin(t, s) = FirstBlock(t) + s * B
      BY DEF BlockMin
    <2>3. BlockMax(t, s) = AtMost(LastBlock(t), FirstBlock(t) + (s + 1) * B)
      BY DEF BlockMax
    <2> HIDE DEF B, s
    <2>4. s * B \in Nat
      BY <1>1, <1>5
    <2> QED
      BY <1>1, <1>2, <1>5, <2>1, <2>2, <2>3, <2>4 DEF AtMost
  <1> QED
    BY <1>1, <1>5, <1>6, <1>7

(***************************************************************************)
(* Every key that a live row may see lies in the range of blocks the tile  *)
(* visits: with causal or local masks, ragged or packed query rows, and    *)
(* sequences shorter than the query block.                                 *)
(***************************************************************************)
THEOREM VisibleKeysInRange ==
  ASSUME NEW t \in ValidTiles, NEW r \in LiveRows(t), NEW k \in Visible(t, r)
  PROVE  \E n \in FirstBlock(t) .. LastBlock(t) - 1 : k \in BlockKeys(n)
  <1> USE BlocksArePositive
  <1> DEFINE n == k \div kBlockN
  <1>1. /\ t.m \in Nat /\ t.Q \in Nat /\ t.K \in Nat /\ t.wl \in Int /\ t.wr \in Int
        /\ t.groups \in Nat \ {0} /\ t.causal \in BOOLEAN /\ t.local \in BOOLEAN
        /\ ~ (t.causal /\ t.local)
        /\ t.causal => t.wr = 0
        /\ t.groups > 1 => t.causal /\ t.Q <= kBlockM
    BY DEF ValidTiles
  <1>2. r \in Nat /\ r < kBlockM /\ t.m * kBlockM \in Nat /\ t.m * kBlockM + r < t.Q
    BY <1>1 DEF LiveRows, Rows
  <1>3. k \in Nat /\ k < t.K
    BY <1>1 DEF Visible
  <1>4. n \in Nat /\ n * kBlockN <= k /\ k < n * kBlockN + kBlockN
    BY <1>3, DivBounds
  <1>5. k \in BlockKeys(n)
    BY <1>3, <1>4 DEF BlockKeys
  <1>6. ASSUME NEW x \in Int, k < x PROVE n < CeilDiv(x, kBlockN)
    <2>1. CeilDiv(x, kBlockN) \in Int /\ x <= CeilDiv(x, kBlockN) * kBlockN
      BY CeilDivCovers
    <2>2. n * kBlockN < CeilDiv(x, kBlockN) * kBlockN
      <3> HIDE DEF n
      <3> QED BY <1>3, <1>4, <1>6, <2>1
    <2> QED
      BY <1>4, <2>1, <2>2, MultiplesReflectOrder
  <1>7. t.groups = 1 => Token(t, r) = t.m * kBlockM + r /\ Tokens(t) = t.Q
    BY <1>1, <1>2 DEF Token, Tokens
  <1>8. n < LastBlock(t)
    <2> DEFINE y == (t.m + 1) * kBlockM + Shift(t) + t.wr
    <2>0. (t.m + 1) * kBlockM = t.m * kBlockM + kBlockM
      BY <1>1
    <2>1. y \in Int
      BY <1>1, <1>2, <2>0 DEF Shift
    <2>2. /\ CeilDiv(t.K, kBlockN) \in Int /\ CeilDiv(y, kBlockN) \in Int
          /\ n < CeilDiv(t.K, kBlockN)
      <3> HIDE DEF n, y
      <3> QED
        BY <1>1, <1>3, <1>6, <2>1, CeilDivInt
    <2>3. t.causal \/ t.local => k < y
      <3>1. CASE t.groups = 1
        BY <1>1, <1>2, <1>3, <1>7, <2>0, <3>1 DEF Shift, Visible
      <3>2. CASE t.groups > 1
        BY <1>1, <1>2, <1>3, <2>0, <3>2 DEF Shift
      <3> QED
        BY <1>1, <3>1, <3>2
    <2>4. k < y => n < CeilDiv(y, kBlockN)
      BY <1>6, <2>1
    <2> HIDE DEF n
    <2> QED
      BY <1>4, <2>2, <2>3, <2>4 DEF LastBlock, AtMost
  <1>9. FirstBlock(t) <= n
    <2>1. CASE t.local
      <3> DEFINE x == t.m * kBlockM + Shift(t) - t.wl
      <3>1. t.groups = 1
        BY <1>1, <2>1
      <3>2. x \in Int /\ x <= k
        BY <1>1, <1>2, <1>3, <1>7, <2>1, <3>1 DEF Shift, Visible
      <3>3. TruncDiv(x, kBlockN) <= n
        <4>1. CASE x < 0
          BY <1>4, <3>2, <4>1, TruncDivInt
        <4>2. CASE x >= 0
          <5>1. TruncDiv(x, kBlockN) \in Nat /\ TruncDiv(x, kBlockN) * kBlockN <= x
            BY <3>2, <4>2, TruncDivInt
          <5>2. (n + 1) * kBlockN = n * kBlockN + kBlockN
            BY <1>4
          <5>3. TruncDiv(x, kBlockN) * kBlockN < (n + 1) * kBlockN
            <6> HIDE DEF n, x
            <6> QED BY <1>3, <1>4, <3>2, <5>1, <5>2
          <5> QED
            BY <1>4, <5>1, <5>3, MultiplesReflectOrder
        <4> QED
          BY <3>2, <4>1, <4>2
      <3> QED
        BY <1>4, <2>1, <3>2, <3>3 DEF FirstBlock, AtLeast
    <2> QED
      BY <1>1, <1>4, <2>1 DEF FirstBlock
  <1> QED
    BY <1>4, <1>5, <1>8, <1>9, GeometryTypes
-----------------------------------------------------------------------------
(* ceil_div overshoots by less than one divisor.                           *)
LEMMA CeilDivTight ==
  ASSUME NEW a \in Int, NEW b \in Nat \ {0}, CeilDiv(a, b) > 0
  PROVE  CeilDiv(a, b) * b <= a + b - 1
  <1>1. a + b - 1 \in Int
    OBVIOUS
  <1>2. a + b - 1 >= 0
    BY <1>1, TruncDivInt DEF CeilDiv
  <1> QED
    BY <1>1, <1>2, TruncDivInt DEF CeilDiv

(* The keys of a block are the positions from its first to its last.       *)
LEMMA KeysOfBlock ==
  ASSUME NEW n \in Nat, NEW k \in BlockKeys(n)
  PROVE  k \in Nat /\ n * kBlockN <= k /\ k < (n + 1) * kBlockN
  <1>1. (n + 1) * kBlockN = n * kBlockN + kBlockN /\ n * kBlockN \in Nat
    BY BlocksArePositive
  <1> QED
    BY <1>1, BlocksArePositive DEF BlockKeys

(* The last block stays inside the sequence and, with a causal mask, under *)
(* the diagonal of the last row.                                           *)
LEMMA LastBlockBounds ==
  ASSUME NEW t \in ValidTiles
  PROVE  /\ LastBlock(t) <= CeilDiv(t.K, kBlockN)
         /\ t.causal => LastBlock(t) <= CeilDiv((t.m + 1) * kBlockM + Shift(t), kBlockN)
  <1> DEFINE y == (t.m + 1) * kBlockM + Shift(t) + t.wr
  <1>1. /\ t.m \in Nat /\ t.Q \in Nat /\ t.K \in Nat /\ t.wr \in Int
        /\ t.causal => t.wr = 0
    BY DEF ValidTiles
  <1>2. y \in Int /\ (t.causal => y = (t.m + 1) * kBlockM + Shift(t))
    BY <1>1, BlocksArePositive DEF Shift
  <1>3. CeilDiv(t.K, kBlockN) \in Int /\ CeilDiv(y, kBlockN) \in Int
    <2>1. t.K \in Int /\ kBlockN \in Nat \ {0}
      BY <1>1, BlocksArePositive
    <2> HIDE DEF y
    <2> QED
      BY <1>2, <2>1, CeilDivInt
  <1>4. LastBlock(t) = IF t.causal \/ t.local
                       THEN AtMost(CeilDiv(t.K, kBlockN), CeilDiv(y, kBlockN))
                       ELSE CeilDiv(t.K, kBlockN)
    BY DEF LastBlock
  <1> HIDE DEF y
  <1> QED
    BY <1>2, <1>3, <1>4 DEF AtMost

(***************************************************************************)
(* Only the last block of a tile can hold keys past the sequence: it is    *)
(* the block that the first load of the CTA reads under a predicate, and   *)
(* the only one for which the boundary mask is needed.                     *)
(***************************************************************************)
THEOREM OnlyLastBlockIsRagged ==
  ASSUME NEW t \in ValidTiles, NEW n \in Nat, n < LastBlock(t) - 1, NEW k \in BlockKeys(n)
  PROVE  k < t.K
  <1> DEFINE c == CeilDiv(t.K, kBlockN)
  <1>1. t.K \in Nat /\ LastBlock(t) \in Int /\ c \in Int
    <2>1. t.K \in Nat /\ t.K \in Int /\ kBlockN \in Nat \ {0}
      BY BlocksArePositive DEF ValidTiles
    <2> QED
      BY <2>1, GeometryTypes, CeilDivInt
  <1>2. LastBlock(t) <= c
    BY LastBlockBounds
  <1>3. n + 2 <= c /\ c > 0
    <2> HIDE DEF c
    <2> QED BY <1>1, <1>2
  <1>4. c * kBlockN <= t.K + kBlockN - 1
    BY <1>1, <1>3, CeilDivTight, BlocksArePositive
  <1> HIDE DEF c
  <1>5. (n + 2) * kBlockN <= c * kBlockN
    BY <1>1, <1>3, MultiplesOrdered, BlocksArePositive
  <1>6. (n + 2) * kBlockN = (n + 1) * kBlockN + kBlockN
    BY BlocksArePositive
  <1>7. (n + 1) * kBlockN \in Nat /\ c * kBlockN \in Int
    BY <1>1, BlocksArePositive
  <1> QED
    BY <1>1, <1>4, <1>5, <1>6, <1>7, KeysOfBlock, BlocksArePositive

(* A live row is a query of the sequence, and its position lies at or      *)
(* behind the diagonal of the row block's first row.                       *)
LEMMA LiveRowPosition ==
  ASSUME NEW t \in ValidTiles, NEW r \in LiveRows(t)
  PROVE  /\ Token(t, r) \in Nat /\ Tokens(t) \in Nat
         /\ t.m * kBlockM - t.Q <= Token(t, r) - Tokens(t)
         /\ Token(t, r) < Tokens(t)
  <1>1. /\ t.m \in Nat /\ t.Q \in Nat /\ t.groups \in Nat \ {0}
        /\ t.groups > 1 => t.causal /\ t.Q <= kBlockM
        /\ t.Q % t.groups = 0
    BY DEF ValidTiles
  <1>2. r \in Nat /\ t.m * kBlockM \in Nat /\ t.m * kBlockM + r < t.Q
    BY <1>1, BlocksArePositive DEF LiveRows, Rows
  <1>3. Token(t, r) \in Nat /\ Tokens(t) \in Nat
    BY <1>1, <1>2, DivBounds DEF Token, Tokens
  <1>4. Tokens(t) * t.groups = t.Q
    BY <1>1 DEF Tokens
  <1>5. Token(t, r) * t.groups <= t.m * kBlockM + r
    <2> DEFINE row == t.m * kBlockM + r
    <2>1. row \in Nat /\ Token(t, r) = row \div t.groups
      BY <1>2 DEF Token
    <2> HIDE DEF row
    <2>2. (row \div t.groups) * t.groups <= row
      BY <1>1, <2>1, DivBounds
    <2> QED
      BY <2>1, <2>2 DEF row
  <1>6. Token(t, r) < Tokens(t)
    <2>1. Token(t, r) * t.groups < Tokens(t) * t.groups
      <3>1. Token(t, r) * t.groups \in Nat
        BY <1>1, <1>3
      <3> QED BY <1>1, <1>2, <1>4, <1>5, <3>1
    <2> QED
      BY <1>1, <1>3, <2>1, MultiplesReflectOrder
  <1>7. CASE t.groups = 1
    BY <1>1, <1>2, <1>3, <1>6, <1>7 DEF Token, Tokens
  <1>8. CASE t.groups > 1
    <2>1. t.m * kBlockM < kBlockM
      BY <1>1, <1>2, <1>8, BlocksArePositive
    <2>2. t.m * kBlockM < 1 * kBlockM
      BY <2>1, BlocksArePositive
    <2>3. t.m = 0
      BY <1>1, <2>2, MultiplesReflectOrder, BlocksArePositive
    <2>4. t.m * kBlockM = 0
      BY <2>3, BlocksArePositive
    <2>5. Tokens(t) <= t.Q
      BY <1>1, <1>3 DEF Tokens
    <2> QED
      BY <1>1, <1>3, <1>6, <2>4, <2>5
  <1> QED
    BY <1>1, <1>7, <1>8

(***************************************************************************)
(* A masking iteration keeps, for every live row, exactly the keys of its  *)
(* block that the reference attention lets the row see.                    *)
(***************************************************************************)
THEOREM MaskIsExact ==
  ASSUME NEW t \in ValidTiles, NEW r \in LiveRows(t), NEW n \in Nat, NEW k \in BlockKeys(n),
         NEW masking \in BOOLEAN, masking \/ t.local
  PROVE  Kept(t, r, k, masking) <=> k \in Visible(t, r)
  <1>1. /\ t.K \in Nat /\ t.wl \in Int /\ t.wr \in Int
        /\ t.causal \in BOOLEAN /\ t.local \in BOOLEAN /\ ~ (t.causal /\ t.local)
        /\ t.causal => t.wr = 0
    BY DEF ValidTiles
  <1>2. Token(t, r) \in Nat /\ Tokens(t) \in Nat /\ Token(t, r) < Tokens(t)
    BY LiveRowPosition
  <1>3. k \in Nat
    BY KeysOfBlock
  <1> QED
    BY <1>1, <1>2, <1>3 DEF Kept, Visible, LimitLeft, LimitRight, AtLeast, AtMost

(***************************************************************************)
(* The masking iterations cover the diagonal: a block left to the unmasked *)
(* iterations of a causal or plain tile holds only keys that every live    *)
(* row may see, whatever the ratio of kBlockM to kBlockN and whether or    *)
(* not the query heads of a group are packed into rows.                    *)
(***************************************************************************)
THEOREM MaskingCoversDiagonal ==
  ASSUME NEW t \in ValidTiles, ~ t.local, NEW n \in Nat, n < LastBlock(t) - MaskingSteps(t),
         NEW r \in LiveRows(t), NEW k \in BlockKeys(n)
  PROVE  k \in Visible(t, r)
  <1>1. /\ t.m \in Nat /\ t.Q \in Nat /\ t.K \in Nat /\ t.causal \in BOOLEAN
        /\ LastBlock(t) \in Int
    BY GeometryTypes DEF ValidTiles
  <1>2. /\ Token(t, r) \in Nat /\ Tokens(t) \in Nat
        /\ t.m * kBlockM - t.Q <= Token(t, r) - Tokens(t)
    BY LiveRowPosition
  <1>3. CASE ~ t.causal
    <2>1. MaskingSteps(t) = 1
      BY <1>3 DEF MaskingSteps
    <2>2. k \in Nat /\ k < t.K
      BY <2>1, OnlyLastBlockIsRagged, KeysOfBlock
    <2> QED
      BY <1>1, <1>3, <2>2 DEF Visible
  <1>4. CASE t.causal
    <2> DEFINE x == (t.m + 1) * kBlockM + Shift(t)
               c == CeilDiv(x, kBlockN)
               d == CeilDiv(kBlockM, kBlockN)
    <2>1. x \in Int /\ x = t.m * kBlockM + kBlockM + t.K - t.Q /\ t.m * kBlockM \in Nat
      BY <1>1, BlocksArePositive DEF Shift
    <2>2. kBlockM \in Int /\ kBlockM >= 0 /\ kBlockN \in Nat \ {0}
      BY BlocksArePositive
    <2>3. d \in Nat /\ kBlockM <= d * kBlockN /\ MaskingSteps(t) = d + 1
      BY <1>4, <2>2, CeilDivCovers DEF MaskingSteps
    <2>4. c \in Int /\ LastBlock(t) <= c
      BY <1>4, <2>1, <2>2, LastBlockBounds, CeilDivInt
    <2>5. n + d + 2 <= c /\ c > 0
      <3> HIDE DEF c, d
      <3> QED BY <1>1, <2>3, <2>4
    <2>6. c * kBlockN <= x + kBlockN - 1
      BY <2>1, <2>2, <2>5, CeilDivTight
    <2> HIDE DEF c, d, x
    <2>7. (n + 1 + d + 1) * kBlockN <= c * kBlockN
      BY <2>2, <2>3, <2>4, <2>5, MultiplesOrdered
    <2>8. (n + 1 + d + 1) * kBlockN = (n + 1) * kBlockN + d * kBlockN + kBlockN
      BY <2>2, <2>3
    <2>9. (n + 1) * kBlockN \in Nat /\ d * kBlockN \in Nat /\ c * kBlockN \in Int
      BY <2>2, <2>3, <2>4
    <2>10. (n + 1) * kBlockN < t.m * kBlockM + t.K - t.Q
      BY <1>1, <2>1, <2>2, <2>3, <2>6, <2>7, <2>8, <2>9
    <2>11. k \in Nat /\ k < (n + 1) * kBlockN
      BY KeysOfBlock
    <2>12. k <= Token(t, r) + t.K - Tokens(t)
      BY <1>1, <1>2, <2>1, <2>9, <2>10, <2>11
    <2>13. Token(t, r) < Tokens(t)
      BY LiveRowPosition
    <2> QED
      BY <1>1, <1>2, <1>4, <2>11, <2>12, <2>13 DEF Visible
  <1> QED
    BY <1>1, <1>3, <1>4
=============================================================================
