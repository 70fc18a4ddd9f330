------------------------ MODULE ForwardLaunchProofs ------------------------
(***************************************************************************)
(* One operator call for any shapes, splits, window and metadata: the      *)
(* tiles its CTAs get, the addresses both kernels compute, and the values  *)
(* that are in the returned tensors when it is done.                       *)
(***************************************************************************)
EXTENDS ForwardLaunch, KvGeometryProofs

-----------------------------------------------------------------------------
Phases == {"check", "rejected", "launch", "attend", "combine", "unpack", "done"}

Running == phase \in {"launch", "attend", "combine", "unpack", "done"}

(* Which call is running, with which metadata.                             *)
Fixed ==
  /\ call \in Calls /\ wide \in Builds /\ meta \in Metadata(call)
  /\ round \in Nat \ {0} /\ phase \in Phases
  /\ Running => Accepted(call) /\ launch = Launch(call)
  /\ phase = "attend" => waiting \subseteq Grid
  /\ phase = "combine" => Split /\ waiting \subseteq Nat

(* Coordinates of a packed row: sequence, kernel head, row of the sequence. *)
Seqs   == 0 .. launch.b - 1
KHeads == 0 .. launch.h - 1
Live(b) == 0 .. LenQ(b) - 1

(* The flat row of the kernels, and the inverse of Decode.                 *)
Flat(b, h, r) == (b * launch.h + h) * launch.seqlen_q + r

CtaOf(m, s, b, h) == IF Split THEN <<m, s, b * launch.h + h>> ELSE <<m, b, h>>

(* A value from before the running round.                                  *)
Older(v) == v.round \in 0 .. round - 1

(* The partial result of split s for a row, and its place in the scratch.  *)
Part(s, b, h, r) == Provenance(b, h, CuQ(b) + r, {s})

Place(s, b, h, r) == s * LseSize + Flat(b, h, r)

(* Partial results: a CTA that has run has left its rows, the others none. *)
ScratchRowInv(s, b, h, r) ==
  /\ lseAccum[Place(s, b, h, r)] =
       IF phase = "attend" /\ CtaOf(r \div kBlockM, s, b, h) \in waiting THEN Blank ELSE Part(s, b, h, r)
  /\ outAccum[Place(s, b, h, r)] = lseAccum[Place(s, b, h, r)]

ScratchInv ==
  /\ (phase \in {"attend", "combine", "unpack"} /\ Split) =>
       /\ DOMAIN lseAccum = 0 .. launch.splits * LseSize - 1
       /\ DOMAIN outAccum = 0 .. launch.splits * LseSize - 1
  /\ (phase \in {"attend", "combine"} /\ Split) =>
       \A s \in 0 .. launch.splits - 1, b \in Seqs, h \in KHeads : \A r \in Live(b) :
         ScratchRowInv(s, b, h, r)

(* The block that stores the final value of a row has run.                 *)
Complete(b, h, r) ==
  \/ phase = "attend" /\ ~ Split /\ CtaOf(r \div kBlockM, 0, b, h) \notin waiting
  \/ phase = "combine" /\ Flat(b, h, r) \div CombineRows \notin waiting
  \/ phase = "unpack"

Final(b, h, r) == Provenance(b, h, CuQ(b) + r, 0 .. launch.splits - 1)

(* The kernels write the output tensor or a view of it.                    *)
View == launch.groups = 1 \/ PackedOutputView

(* Where the kernels store the output row and the LSE of a row.            *)
OutPlace(b, h, r) == <<CuQ(b) + r, h>>
LsePlace(b, h, r) == h * launch.total_q + (CuQ(b) + r)

KernelRowInv(b, h, r) ==
  IF Complete(b, h, r)
  THEN kout[OutPlace(b, h, r)] = Final(b, h, r) /\ klse[LsePlace(b, h, r)] = Final(b, h, r)
  ELSE Older(kout[OutPlace(b, h, r)]) /\ Older(klse[LsePlace(b, h, r)])

(* Packed rows behind the last sequence.                                   *)
PaddingRows == CuQ(launch.b) .. launch.total_q - 1

PaddingInv(row, h) ==
  Older(kout[<<row, h>>]) /\ (View => kout[<<row, h>>].kind \in {"caller", "row"})

KernelOutInv ==
  phase \in {"attend", "combine", "unpack"} =>
    /\ DOMAIN kout = (0 .. launch.total_q - 1) \X (0 .. launch.h - 1)
    /\ DOMAIN klse = 0 .. launch.h * launch.total_q - 1
    /\ \A b \in Seqs, h \in KHeads : \A r \in Live(b) : KernelRowInv(b, h, r)
    /\ \A row \in PaddingRows, h \in KHeads : PaddingInv(row, h)

OutInv ==
  /\ DOMAIN out = OutIndex
  /\ \A i \in OutIndex :
       /\ out[i].round \in 0 .. round
       /\ phase # "done" \/ i[1] \notin LiveTokens => Older(out[i])
       /\ phase = "check" \/ (Running /\ View) => out[i].kind \in {"caller", "row"}

Returned ==
  phase = "done" =>
    \A token \in LiveTokens, head \in 0 .. call.heads - 1 :
      /\ out[<<token, head>>] = Expected(token, head)
      /\ lse[<<head, token>>] = Expected(token, head)

LaunchInv == Fixed /\ ScratchInv /\ KernelOutInv /\ OutInv /\ Returned

-----------------------------------------------------------------------------
(* Digits of a mixed radix number are unique.                              *)
LEMMA RadixUnique ==
  ASSUME NEW d \in Nat \ {0}, NEW a \in Nat, NEW b \in Nat,
         NEW x \in 0 .. d - 1, NEW y \in 0 .. d - 1, a * d + x = b * d + y
  PROVE  a = b /\ x = y
  <1>1. a * d + x \in Nat
    BY SMT
  <1>2. (a * d + x) \div d = a /\ (a * d + x) % d = x
    BY <1>1, DivUnique
  <1>3. (a * d + x) \div d = b /\ (a * d + x) % d = y
    BY <1>1, DivUnique
  <1> QED
    BY <1>2, <1>3

(* A mixed radix number of two digits stays below the product.             *)
LEMMA RadixBound ==
  ASSUME NEW d \in Nat \ {0}, NEW n \in Nat, NEW a \in 0 .. n - 1, NEW x \in 0 .. d - 1
  PROVE  a * d + x \in 0 .. n * d - 1
  <1>1. (a + 1) * d <= n * d
    BY MultiplesOrdered
  <1>2. (a + 1) * d = a * d + d /\ a * d \in Nat
    BY SMT
  <1> QED
    BY <1>1, <1>2

(* The digits of a number below the product.                               *)
LEMMA RadixDigits ==
  ASSUME NEW d \in Nat \ {0}, NEW n \in Nat, NEW i \in 0 .. n * d - 1
  PROVE  /\ i \div d \in 0 .. n - 1 /\ i % d \in 0 .. d - 1
         /\ i = (i \div d) * d + (i % d)
  <1>0. n * d \in Nat /\ i \in Nat /\ i < n * d
    BY SMT
  <1>1. i \div d \in Nat /\ (i \div d) * d <= i /\ i < (i \div d) * d + d
    BY <1>0, DivBounds
  <1>2. i \div d < n
    <2>1. (i \div d) * d < n * d /\ i \div d \in Int
      BY <1>0, <1>1
    <2> QED
      BY <2>1, MultiplesReflectOrder
  <1>3. i % d = i - d * (i \div d) /\ d * (i \div d) = (i \div d) * d
    BY <1>0, <1>1
  <1> QED
    BY <1>0, <1>1, <1>2, <1>3

(* Dividing twice is dividing by the product.                              *)
LEMMA DivDiv ==
  ASSUME NEW a \in Nat, NEW b \in Nat \ {0}, NEW c \in Nat \ {0}
  PROVE  (a \div b) \div c = a \div (b * c)
  <1> DEFINE x == a \div b
             y == x \div c
  <1>1. x \in Nat /\ x * b <= a /\ a < x * b + b
    BY DivBounds
  <1>2. y \in Nat /\ y * c <= x /\ x < y * c + c
    BY <1>1, DivBounds
  <1> HIDE DEF x, y
  <1>3. y * (b * c) = (y * c) * b /\ (y * c) * b <= x * b
    <2>1. y * c \in Nat
      BY <1>2
    <2> QED
      BY <1>1, <1>2, <2>1, MultiplesOrdered
  <1>4. a < y * (b * c) + b * c
    <2>1. x + 1 <= y * c + c /\ x + 1 \in Int /\ y * c + c \in Int
      BY <1>1, <1>2
    <2>2. (x + 1) * b <= (y * c + c) * b
      BY <2>1, MultiplesOrdered
    <2>3. (x + 1) * b = x * b + b /\ (y * c + c) * b = y * (b * c) + b * c
      BY <1>1, <1>2
    <2>4. x * b \in Int /\ y * (b * c) \in Int /\ b * c \in Int
      BY <1>1, <1>2
    <2>5. x * b + b <= y * (b * c) + b * c
      BY <2>2, <2>3
    <2> QED
      BY <1>1, <2>4, <2>5
  <1>5. b * c \in Nat \ {0}
    BY SMT
  <1>6. a \div (b * c) = y
    <2>1. y * (b * c) \in Nat
      BY <1>2, <1>5
    <2>2. a - y * (b * c) \in 0 .. b * c - 1
      BY <1>1, <1>3, <1>4, <1>5, <2>1
    <2>3. a = y * (b * c) + (a - y * (b * c))
      BY <2>1
    <2> QED
      BY <1>2, <1>5, <2>2, <2>3, DivUnique
  <1> QED
    BY <1>6 DEF x, y

-----------------------------------------------------------------------------
(* The automatic split count is at least one.                              *)
LEMMA SplitsArePositive ==
  ASSUME NEW c \in CallTypes, Accepted(c)
  PROVE  SplitCount(c) \in Nat \ {0}
  <1> DEFINE active == IF c.window_left >= 0
                       THEN AtMost(c.max_k, c.window_left + c.max_q) ELSE c.max_k
  <1>1. /\ c.max_k \in Int /\ c.max_q \in Int /\ c.window_left \in Int /\ c.splits \in Int
        /\ c.splits >= 0
    BY DEF CallTypes, Accepted
  <1>2. active + AutoSplitKeys - 1 \in Int /\ MaxSplitCount \in Nat \ {0} /\ AutoSplitKeys \in Nat \ {0}
    BY <1>1, LimitsAssumption DEF AtMost
  <1>3. (active + AutoSplitKeys - 1) \div AutoSplitKeys \in Int
    BY <1>2, SMT
  <1> HIDE DEF active
  <1>4. AtMost(MaxSplitCount, AtLeast(1, (active + AutoSplitKeys - 1) \div AutoSplitKeys)) \in Nat \ {0}
    BY <1>2, <1>3 DEF AtMost, AtLeast
  <1> QED
    BY <1>1, <1>4 DEF SplitCount, active

(* Heads per KV head.                                                      *)
LEMMA HeadsDivide ==
  ASSUME NEW c \in CallTypes, Accepted(c)
  PROVE  /\ c.heads \div c.kv_heads \in Nat \ {0}
         /\ (c.heads \div c.kv_heads) * c.kv_heads = c.heads
  <1>1. c.heads \in Nat \ {0} /\ c.kv_heads \in Nat \ {0} /\ c.heads % c.kv_heads = 0
    BY DEF CallTypes, Accepted
  <1>2. c.heads \div c.kv_heads \in Nat
    BY <1>1, DivBounds
  <1>3. c.heads = c.kv_heads * (c.heads \div c.kv_heads) + (c.heads % c.kv_heads)
    BY <1>1, SMT
  <1>4. c.kv_heads * (c.heads \div c.kv_heads) = (c.heads \div c.kv_heads) * c.kv_heads
    BY <1>1, <1>2
  <1>5. c.heads \div c.kv_heads # 0
    BY <1>1, <1>3
  <1> QED
    BY <1>1, <1>2, <1>3, <1>4, <1>5

(* Packing turns the heads of a KV head into rows of one kernel head.      *)
LEMMA PackedHeads ==
  ASSUME NEW c \in CallTypes, Accepted(c)
  PROVE  /\ Groups(c) \in Nat \ {0}
         /\ c.heads \div Groups(c) \in Nat \ {0}
         /\ (c.heads \div Groups(c)) * Groups(c) = c.heads
         /\ (c.heads \div Groups(c)) \div c.kv_heads \in Nat \ {0}
         /\ Groups(c) * ((c.heads \div Groups(c)) \div c.kv_heads) = c.heads \div c.kv_heads
         /\ c.kv_heads = 1 /\ Groups(c) # 1 => c.heads \div Groups(c) = 1
  <1> DEFINE n == c.heads \div c.kv_heads
  <1>1. c.heads \in Nat \ {0} /\ c.kv_heads \in Nat \ {0} /\ c.pack_gqa \in BOOLEAN
    BY DEF CallTypes, Accepted
  <1>2. n \in Nat \ {0} /\ n * c.kv_heads = c.heads
    BY HeadsDivide
  <1> HIDE DEF n
  <1>3. CASE ~ c.pack_gqa
    <2>1. Groups(c) = 1
      BY <1>3 DEF Groups
    <2>2. c.heads \div 1 = c.heads
      BY <1>1, SMT
    <2> QED
      BY <1>1, <1>2, <2>1, <2>2 DEF n
  <1>4. CASE c.pack_gqa
    <2>1. Groups(c) = n
      BY <1>4 DEF Groups, n
    <2>2. c.heads = c.kv_heads * n + 0
      BY <1>1, <1>2
    <2>3. c.heads \div n = c.kv_heads
      BY <1>1, <1>2, <2>2, DivUnique
    <2>4. c.kv_heads = 1 * c.kv_heads + 0
      BY <1>1
    <2>5. c.kv_heads \div c.kv_heads = 1
      BY <1>1, <2>4, DivUnique
    <2> QED
      BY <1>1, <1>2, <2>1, <2>3, <2>5 DEF n
  <1> QED
    BY <1>1, <1>3, <1>4

(* The parameters of an accepted call.                                     *)
LEMMA LaunchShape ==
  ASSUME NEW c \in Calls, Accepted(c), NEW p, p = Launch(c)
  PROVE  /\ c \in CallTypes
         /\ p.b \in Nat \ {0} /\ p.b = c.batch
         /\ p.h \in Nat \ {0} /\ p.groups \in Nat \ {0} /\ p.h * p.groups = c.heads
         /\ p.ratio \in Nat \ {0} /\ p.groups * p.ratio = c.heads \div c.kv_heads
         /\ p.splits \in Nat \ {0}
         /\ p.seqlen_q \in Nat \ {0} /\ p.seqlen_q = c.max_q * p.groups
         /\ p.total_q \in Nat /\ p.total_q = c.tokens * p.groups
         /\ p.groups = 1 => p.h = c.heads /\ p.total_q = c.tokens
         /\ c.kv_heads = 1 /\ p.groups # 1 => p.h = 1
  <1>1. c \in CallTypes
    BY CallsAssumption
  <1>2. c.batch \in Nat \ {0} /\ c.max_q \in Nat \ {0} /\ c.tokens \in Nat /\ c.heads \in Nat \ {0}
    BY <1>1 DEF CallTypes, Accepted
  <1>3. /\ p.b = c.batch /\ p.h = c.heads \div Groups(c) /\ p.groups = Groups(c)
        /\ p.ratio = (c.heads \div Groups(c)) \div c.kv_heads /\ p.splits = SplitCount(c)
        /\ p.seqlen_q = c.max_q * Groups(c) /\ p.total_q = c.tokens * Groups(c)
    BY DEF Launch
  <1>4. /\ Groups(c) \in Nat \ {0}
        /\ p.h \in Nat \ {0} /\ p.h * p.groups = c.heads
        /\ p.ratio \in Nat \ {0} /\ p.groups * p.ratio = c.heads \div c.kv_heads
        /\ c.kv_heads = 1 /\ p.groups # 1 => p.h = 1
    BY <1>1, <1>3, PackedHeads
  <1>5. c.max_q * Groups(c) \in Nat \ {0} /\ c.tokens * Groups(c) \in Nat
    BY <1>2, <1>4
  <1>6. p.groups = 1 => p.h = c.heads /\ p.total_q = c.tokens
    BY <1>2, <1>3, <1>4
  <1> QED
    BY <1>1, <1>2, <1>3, <1>4, <1>5, <1>6, SplitsArePositive

(* The window the kernel gets, and the packing check, as a tile needs them. *)
LEMMA LaunchFlags ==
  ASSUME NEW c \in Calls, Accepted(c), NEW p, p = Launch(c)
  PROVE  /\ p.causal \in BOOLEAN /\ p.local \in BOOLEAN /\ p.wl \in Int /\ p.wr \in Int
         /\ ~ (p.causal /\ p.local)
         /\ p.causal => p.wr = 0
         /\ p.local => p.wl >= 0 /\ p.wr >= 0
         /\ p.groups > 1 => p.causal /\ p.seqlen_q <= kBlockM
  <1>1. c \in CallTypes /\ Groups(c) \in Nat \ {0}
    BY CallsAssumption, PackedHeads
  <1>2. /\ c.window_left \in Int /\ c.window_right \in Int /\ c.causal \in BOOLEAN
        /\ c.max_k \in Int /\ c.max_k > 0
    BY <1>1 DEF CallTypes, Accepted
  <1>3. /\ p.causal = OrdinaryCausal(c)
        /\ p.local = (~ OrdinaryCausal(c) /\ (LaunchLeft(c) >= 0 \/ LaunchRight(c) >= 0))
        /\ p.wl = LaunchLeft(c) /\ p.wr = LaunchRight(c)
        /\ p.groups = Groups(c) /\ p.seqlen_q = c.max_q * Groups(c)
    BY DEF Launch
  <1>4. LaunchLeft(c) \in Int /\ LaunchRight(c) \in Int
    BY <1>2 DEF LaunchLeft, LaunchRight, RightWindow
  <1>5. OrdinaryCausal(c) => LaunchRight(c) = 0
    BY <1>2 DEF OrdinaryCausal, LaunchRight, LaunchLeft, RightWindow
  <1>6. LaunchLeft(c) >= 0 \/ LaunchRight(c) >= 0 => LaunchLeft(c) >= 0 /\ LaunchRight(c) >= 0
    BY <1>2 DEF LaunchRight, LaunchLeft, RightWindow
  <1>7. OrdinaryCausal(c) \in BOOLEAN
    BY DEF OrdinaryCausal
  <1>8. Groups(c) > 1 => OrdinaryCausal(c) /\ c.max_q * Groups(c) <= kBlockM
    BY <1>1 DEF Accepted, PackingAllowed
  <1> QED
    BY <1>3, <1>4, <1>5, <1>6, <1>7, <1>8

-----------------------------------------------------------------------------
(* The parameters of the running call.                                     *)
LEMMA Shape ==
  ASSUME Fixed, Running
  PROVE  /\ call \in CallTypes /\ Accepted(call)
         /\ call.tokens \in Nat /\ call.heads \in Nat \ {0} /\ call.batch \in Nat \ {0}
         /\ launch.b \in Nat \ {0} /\ launch.b = call.batch
         /\ launch.h \in Nat \ {0} /\ launch.groups \in Nat \ {0}
         /\ launch.h * launch.groups = call.heads
         /\ launch.ratio \in Nat \ {0}
         /\ launch.groups * launch.ratio = call.heads \div call.kv_heads
         /\ launch.splits \in Nat \ {0}
         /\ launch.seqlen_q \in Nat \ {0} /\ launch.seqlen_q = call.max_q * launch.groups
         /\ launch.total_q \in Nat /\ launch.total_q = call.tokens * launch.groups
         /\ launch.groups = 1 => launch.h = call.heads /\ launch.total_q = call.tokens
         /\ call.kv_heads = 1 /\ launch.groups # 1 => launch.h = 1
         /\ round \in Nat \ {0}
  <1>1. call \in Calls /\ Accepted(call) /\ launch = Launch(call) /\ round \in Nat \ {0}
    BY DEF Fixed
  <1>2. call \in CallTypes
    BY <1>1, CallsAssumption
  <1>3. call.tokens \in Nat /\ call.heads \in Nat \ {0} /\ call.batch \in Nat \ {0}
    BY <1>1, <1>2 DEF CallTypes, Accepted
  <1> QED
    BY <1>1, <1>2, <1>3, LaunchShape

(* The metadata of the running call.                                       *)
LEMMA Contents ==
  ASSUME Fixed, Running
  PROVE  /\ meta.cu_q[1] = 0 /\ call.max_q \in Nat \ {0} /\ call.max_k \in Nat
         /\ \A i \in 1 .. launch.b + 1 : meta.cu_q[i] \in 0 .. call.tokens
         /\ \A i, j \in 1 .. launch.b + 1 : i <= j => meta.cu_q[i] <= meta.cu_q[j]
         /\ \A i \in 1 .. launch.b : /\ meta.cu_q[i + 1] - meta.cu_q[i] <= call.max_q
                                     /\ meta.seq_k[i] \in 0 .. call.max_k
  <1>1. meta \in ValidMetadata(call)
    BY MetadataAssumption DEF Fixed
  <1>2. launch.b = call.batch
    BY Shape
  <1>3. meta.cu_q \in [1 .. call.batch + 1 -> 0 .. call.tokens]
    BY <1>1 DEF ValidMetadata
  <1>4. meta.seq_k \in [1 .. call.batch -> 0 .. call.max_k]
    BY <1>1 DEF ValidMetadata
  <1>5. /\ meta.cu_q[1] = 0
        /\ \A i, j \in 1 .. call.batch + 1 : i <= j => meta.cu_q[i] <= meta.cu_q[j]
        /\ \A i \in 1 .. call.batch : meta.cu_q[i + 1] - meta.cu_q[i] <= call.max_q
    BY <1>1 DEF ValidMetadata
  <1>6. call.max_q \in Nat \ {0} /\ call.max_k \in Nat
    BY Shape DEF CallTypes, Accepted
  <1> QED
    BY <1>2, <1>3, <1>4, <1>5, <1>6

(* The sequences are consecutive intervals of the packed rows.             *)
LEMMA Offsets ==
  ASSUME Fixed, Running
  PROVE  /\ CuQ(0) = 0 /\ CuQ(launch.b) <= launch.total_q
         /\ \A b \in 0 .. launch.b :
              /\ meta.cu_q[b + 1] \in Nat
              /\ CuQ(b) \in Nat /\ CuQ(b) = meta.cu_q[b + 1] * launch.groups
         /\ \A b, x \in 0 .. launch.b : b <= x => CuQ(b) <= CuQ(x)
  <1>1. /\ launch.b \in Nat \ {0} /\ launch.groups \in Nat \ {0} /\ call.tokens \in Nat
        /\ launch.total_q = call.tokens * launch.groups
    BY Shape
  <1>2. ASSUME NEW b \in 0 .. launch.b
        PROVE  /\ meta.cu_q[b + 1] \in 0 .. call.tokens
               /\ CuQ(b) = meta.cu_q[b + 1] * launch.groups
    <2>1. b + 1 \in 1 .. launch.b + 1
      BY <1>1
    <2> QED
      BY <2>1, Contents DEF CuQ
  <1>3. ASSUME NEW b \in 0 .. launch.b PROVE CuQ(b) \in Nat /\ meta.cu_q[b + 1] \in Nat
    BY <1>1, <1>2
  <1>4. CuQ(0) = 0
    BY <1>1, Contents DEF CuQ
  <1>5. ASSUME NEW b \in 0 .. launch.b, NEW x \in 0 .. launch.b, b <= x PROVE CuQ(b) <= CuQ(x)
    <2>1. b + 1 \in 1 .. launch.b + 1 /\ x + 1 \in 1 .. launch.b + 1 /\ b + 1 <= x + 1
      BY <1>1, <1>5
    <2>2. meta.cu_q[b + 1] <= meta.cu_q[x + 1]
      BY <2>1, Contents
    <2>3. meta.cu_q[b + 1] * launch.groups <= meta.cu_q[x + 1] * launch.groups
      BY <1>1, <1>2, <2>2, MultiplesOrdered
    <2> QED
      BY <1>2, <2>3
  <1>6. CuQ(launch.b) <= launch.total_q
    <2>1. launch.b \in 0 .. launch.b
      BY <1>1
    <2>2. meta.cu_q[launch.b + 1] * launch.groups <= call.tokens * launch.groups
      BY <1>1, <1>2, <2>1, MultiplesOrdered
    <2> QED
      BY <1>1, <1>2, <2>1, <2>2
  <1> QED
    BY <1>2, <1>3, <1>4, <1>5, <1>6

(* No sequence is longer than the grid and the scratch provide for.        *)
LEMMA Lengths ==
  ASSUME Fixed, Running, NEW b \in Seqs
  PROVE  /\ LenQ(b) \in 0 .. launch.seqlen_q /\ LenQ(b) % launch.groups = 0
         /\ LenQ(b) = (meta.cu_q[b + 2] - meta.cu_q[b + 1]) * launch.groups
         /\ CuQ(b + 1) = CuQ(b) + LenQ(b) /\ CuQ(b) + LenQ(b) <= CuQ(launch.b)
         /\ CuQ(b) \in Nat /\ LenK(b) \in 0 .. call.max_k
         /\ b \in 0 .. launch.b /\ b + 1 \in 0 .. launch.b
  <1>1. /\ launch.b \in Nat \ {0} /\ launch.groups \in Nat \ {0}
        /\ launch.seqlen_q = call.max_q * launch.groups
    BY Shape
  <1>2. /\ b \in 0 .. launch.b /\ b + 1 \in 0 .. launch.b /\ b + 1 \in 1 .. launch.b
        /\ launch.b \in 0 .. launch.b /\ b + 2 = (b + 1) + 1 /\ b \in Int
    BY <1>1 DEF Seqs
  <1>3. /\ CuQ(b) \in Nat /\ CuQ(b + 1) \in Nat /\ CuQ(b) <= CuQ(b + 1) /\ CuQ(b + 1) <= CuQ(launch.b)
        /\ CuQ(launch.b) \in Nat
        /\ CuQ(b) = meta.cu_q[b + 1] * launch.groups /\ CuQ(b + 1) = meta.cu_q[b + 2] * launch.groups
        /\ meta.cu_q[b + 1] \in Nat /\ meta.cu_q[b + 2] \in Nat
    BY <1>1, <1>2, Offsets
  <1> DEFINE n == meta.cu_q[b + 2] - meta.cu_q[b + 1]
  <1>4. n \in Int /\ n <= call.max_q /\ call.max_q \in Nat \ {0} /\ LenK(b) \in 0 .. call.max_k
    BY <1>2, <1>3, Contents DEF LenK
  <1>5. LenQ(b) = n * launch.groups
    BY <1>1, <1>3 DEF LenQ
  <1>6. LenQ(b) \in Nat /\ CuQ(b + 1) = CuQ(b) + LenQ(b)
    BY <1>3 DEF LenQ
  <1> HIDE DEF n
  <1>7. n * launch.groups <= call.max_q * launch.groups
    BY <1>1, <1>4, MultiplesOrdered
  <1>8. LenQ(b) % launch.groups = 0
    <2>1. 0 \in 0 .. launch.groups - 1 /\ LenQ(b) = n * launch.groups + 0
      BY <1>1, <1>4, <1>5, <1>6
    <2> QED
      BY <1>1, <1>4, <1>6, <2>1, DivUnique
  <1> QED
    BY <1>1, <1>2, <1>3, <1>4, <1>5, <1>6, <1>7, <1>8 DEF n

(* A packed row belongs to one sequence only.                              *)
LEMMA RowUnique ==
  ASSUME Fixed, Running, NEW b \in Seqs, NEW x \in Seqs, NEW r \in Live(b), NEW y \in Live(x),
         CuQ(b) + r = CuQ(x) + y
  PROVE  b = x /\ r = y
  <1>1. /\ launch.b \in Nat /\ b \in 0 .. launch.b /\ x \in 0 .. launch.b
        /\ b + 1 \in 0 .. launch.b /\ x + 1 \in 0 .. launch.b
        /\ CuQ(b) \in Nat /\ CuQ(x) \in Nat /\ LenQ(b) \in Nat /\ LenQ(x) \in Nat
        /\ CuQ(b + 1) = CuQ(b) + LenQ(b) /\ CuQ(x + 1) = CuQ(x) + LenQ(x)
    BY Shape, Lengths
  <1>2. r \in Nat /\ r < LenQ(b) /\ y \in Nat /\ y < LenQ(x)
    BY <1>1 DEF Live
  <1>3. ASSUME b < x PROVE FALSE
    <2>1. CuQ(b + 1) <= CuQ(x)
      BY <1>1, <1>3, Offsets
    <2> QED
      BY <1>1, <1>2, <2>1
  <1>4. ASSUME x < b PROVE FALSE
    <2>1. CuQ(x + 1) <= CuQ(b)
      BY <1>1, <1>4, Offsets
    <2> QED
      BY <1>1, <1>2, <2>1
  <1>5. b = x
    BY <1>1, <1>3, <1>4
  <1> QED
    BY <1>1, <1>2, <1>5

(* Every packed row before the last offset belongs to some sequence: the   *)
(* first one that ends behind it.                                          *)
LEMMA RowCovered ==
  ASSUME Fixed, Running, NEW q \in 0 .. CuQ(launch.b) - 1
  PROVE  \E b \in Seqs : CuQ(b) <= q /\ q < CuQ(b + 1) /\ q - CuQ(b) \in Live(b)
  <1> DEFINE T == { b \in Seqs : q < CuQ(b + 1) }
  <1>1. launch.b \in Nat \ {0} /\ CuQ(launch.b) \in Nat /\ q \in Nat /\ q < CuQ(launch.b)
    <2>1. launch.b \in Nat \ {0} /\ launch.b \in 0 .. launch.b
      BY Shape
    <2> QED
      BY <2>1, Offsets
  <1>2. launch.b - 1 \in T
    <2>1. launch.b - 1 \in Seqs /\ launch.b - 1 + 1 = launch.b
      BY <1>1 DEF Seqs
    <2> QED
      BY <1>1, <2>1
  <1>3. T \in SUBSET Nat /\ T # {}
    BY <1>1, <1>2 DEF Seqs
  <1>4. PICK b \in T : \A k \in T : b <= k
    BY <1>3, LeastNatural
  <1>5. b \in Seqs /\ q < CuQ(b + 1) /\ b \in Nat /\ b < launch.b
    BY <1>1, <1>4 DEF Seqs
  <1>6. CuQ(b) <= q
    <2>1. CASE b = 0
      BY <1>1, <2>1, Offsets
    <2>2. CASE b # 0
      <3>1. b - 1 \in Seqs /\ ~ (b <= b - 1) /\ b - 1 + 1 = b
        BY <1>1, <1>5, <2>2 DEF Seqs
      <3>2. b - 1 \notin T
        BY <1>4, <3>1
      <3>3. ~ (q < CuQ(b))
        BY <3>1, <3>2
      <3> QED
        BY <1>1, <1>5, <3>3, Lengths
    <2> QED
      BY <2>1, <2>2
  <1>7. q - CuQ(b) \in Live(b)
    BY <1>1, <1>5, <1>6, Lengths DEF Live
  <1> QED
    BY <1>5, <1>6, <1>7

-----------------------------------------------------------------------------
(* Nothing is launched before the host checks.                             *)
LEMMA InitFixed == Init => Fixed
  BY DEF Init, Fixed, Phases, Running

(* The call and its launch parameters stay; only a replay brings other     *)
(* metadata.                                                               *)
LEMMA NextFixed == Fixed /\ [Next]_vars => Fixed'
  <1> SUFFICES ASSUME Fixed, [Next]_vars PROVE Fixed'
    OBVIOUS
  <1> USE DEF Phases, Running
  <1>1. CASE Accept
    BY <1>1 DEF Accept, Fixed
  <1>2. CASE Reject
    BY <1>2 DEF Reject, Fixed
  <1>3. CASE LaunchSplitKernel
    BY <1>3 DEF LaunchSplitKernel, Fixed, Grid, Split
  <1>4. ASSUME NEW cta \in waiting, RunCta(cta) PROVE Fixed'
    BY <1>4 DEF RunCta, Fixed, Grid, Split
  <1>5. ASSUME NEW block \in waiting, RunCombine(block) PROVE Fixed'
    BY <1>5 DEF RunCombine, Fixed, Split
  <1>6. CASE NextKernel
    <2>1. phase' = "combine" => Split' /\ waiting' \subseteq Nat
      <3>1. CASE Split
        <4>1. phase = "attend" /\ launch' = launch /\ waiting' = 0 .. CeilDiv(LseSize, CombineRows) - 1
          BY <1>6, <3>1 DEF NextKernel
        <4>2. LseSize \in Int /\ CombineRows \in Nat \ {0}
          <5>1. launch.b \in Nat /\ launch.h \in Nat /\ launch.seqlen_q \in Nat
            BY <4>1, Shape
          <5> QED
            BY <5>1 DEF LseSize, CombineRows
        <4>3. CeilDiv(LseSize, CombineRows) \in Int
          BY <4>2, CeilDivInt
        <4> QED
          BY <3>1, <4>1, <4>3 DEF Split
      <3>2. CASE ~ Split
        BY <1>6, <3>2 DEF NextKernel
      <3> QED
        BY <3>1, <3>2
    <2> QED
      BY <1>6, <2>1 DEF NextKernel, Fixed, Split
  <1>7. CASE CombineDone
    BY <1>7 DEF CombineDone, Fixed, Split
  <1>8. CASE Unpack
    BY <1>8 DEF Unpack, Fixed, Split
  <1>9. CASE Replay
    BY <1>9 DEF Replay, Fixed, Split
  <1>10. CASE UNCHANGED vars
    BY <1>10 DEF vars, Fixed, Grid, Split
  <1> QED
    BY <1>1, <1>2, <1>3, <1>4, <1>5, <1>6, <1>7, <1>8, <1>9, <1>10 DEF Next, Terminating

(* So the call, its launch and a valid metadata stay together.             *)
LEMMA FixedInvariance == Spec => []Fixed
  BY InitFixed, NextFixed, PTL DEF Spec

(* The kernel decodes its block index into coordinates of the launch.      *)
LEMMA DecodeInGrid ==
  ASSUME Fixed, Running, NEW cta \in Grid
  PROVE  /\ Decode(cta).m \in 0 .. CeilDiv(launch.seqlen_q, kBlockM) - 1
         /\ Decode(cta).m = cta[1] /\ Decode(cta).b \in Seqs /\ Decode(cta).h \in KHeads
         /\ Decode(cta).s \in 0 .. launch.splits - 1
         /\ cta = CtaOf(Decode(cta).m, Decode(cta).s, Decode(cta).b, Decode(cta).h)
  <1>1. launch.b \in Nat \ {0} /\ launch.h \in Nat \ {0} /\ launch.splits \in Nat \ {0}
    BY Shape
  <1>2. CASE Split
    <2>1. PICK m \in 0 .. CeilDiv(launch.seqlen_q, kBlockM) - 1, s \in 0 .. launch.splits - 1,
               z \in 0 .. launch.b * launch.h - 1 : cta = <<m, s, z>>
      BY <1>2 DEF Grid
    <2>2. /\ z \div launch.h \in 0 .. launch.b - 1 /\ z % launch.h \in 0 .. launch.h - 1
          /\ z = (z \div launch.h) * launch.h + (z % launch.h)
      BY <1>1, RadixDigits
    <2>3. z - (z \div launch.h) * launch.h = z % launch.h
      BY <1>1, <2>2
    <2>4. Decode(cta) = [m |-> m, b |-> z \div launch.h, h |-> z % launch.h, s |-> s]
      BY <1>2, <2>1, <2>3 DEF Decode
    <2> QED
      BY <1>2, <2>1, <2>2, <2>4 DEF CtaOf, Seqs, KHeads
  <1>3. CASE ~ Split
    <2>1. PICK m \in 0 .. CeilDiv(launch.seqlen_q, kBlockM) - 1, b \in 0 .. launch.b - 1,
               h \in 0 .. launch.h - 1 : cta = <<m, b, h>>
      BY <1>3 DEF Grid
    <2>2. Decode(cta) = [m |-> m, b |-> b, h |-> h, s |-> 0]
      BY <1>3, <2>1 DEF Decode
    <2> QED
      BY <1>1, <1>3, <2>1, <2>2 DEF CtaOf, Seqs, KHeads
  <1> QED
    BY <1>2, <1>3

(* Different coordinates are different blocks.                             *)
LEMMA CtaUnique ==
  ASSUME Fixed, Running, NEW m, NEW s, NEW b \in Seqs, NEW h \in KHeads,
         NEW n, NEW u, NEW x \in Seqs, NEW y \in KHeads,
         CtaOf(m, s, b, h) = CtaOf(n, u, x, y)
  PROVE  m = n /\ b = x /\ h = y /\ (Split => s = u)
  <1>1. launch.b \in Nat \ {0} /\ launch.h \in Nat \ {0}
    BY Shape
  <1>2. CASE Split
    <2>1. m = n /\ s = u /\ b * launch.h + h = x * launch.h + y
      BY <1>2 DEF CtaOf
    <2>2. b \in Nat /\ x \in Nat /\ h \in 0 .. launch.h - 1 /\ y \in 0 .. launch.h - 1
      BY <1>1 DEF Seqs, KHeads
    <2> QED
      BY <1>1, <2>1, <2>2, RadixUnique
  <1>3. CASE ~ Split
    BY <1>3 DEF CtaOf
  <1> QED
    BY <1>2, <1>3

(* The block of every row is in the grid.                                  *)
LEMMA CtaInGrid ==
  ASSUME Fixed, Running, NEW b \in Seqs, NEW h \in KHeads, NEW r \in Live(b),
         NEW s \in 0 .. launch.splits - 1
  PROVE  CtaOf(r \div kBlockM, s, b, h) \in Grid
  <1>1. /\ launch.b \in Nat \ {0} /\ launch.h \in Nat \ {0} /\ launch.seqlen_q \in Nat \ {0}
        /\ kBlockM \in Nat \ {0}
    BY Shape, BlocksArePositive
  <1>2. r \in Nat /\ r < launch.seqlen_q
    BY <1>1, Lengths DEF Live
  <1> DEFINE c == CeilDiv(launch.seqlen_q, kBlockM)
  <1>3. c \in Nat /\ launch.seqlen_q <= c * kBlockM
    <2>1. launch.seqlen_q \in Int /\ launch.seqlen_q >= 0
      BY <1>1
    <2> QED
      BY <1>1, <2>1, CeilDivCovers
  <1>4. r \div kBlockM \in Nat /\ (r \div kBlockM) * kBlockM <= r
    BY <1>1, <1>2, DivBounds
  <1> HIDE DEF c
  <1>5. r \div kBlockM < c
    <2>1. (r \div kBlockM) * kBlockM < c * kBlockM
      BY <1>1, <1>2, <1>3, <1>4
    <2> QED
      BY <1>1, <1>3, <1>4, <2>1, MultiplesReflectOrder
  <1>6. r \div kBlockM \in 0 .. c - 1
    BY <1>3, <1>4, <1>5
  <1>7. b * launch.h + h \in 0 .. launch.b * launch.h - 1
    BY <1>1, RadixBound DEF Seqs, KHeads
  <1> QED
    BY <1>6, <1>7 DEF CtaOf, Grid, Seqs, KHeads, c

(* A row block of a launch satisfies what the geometry assumes.            *)
LEMMA LaunchTileIsValid ==
  ASSUME NEW c \in Calls, Accepted(c), NEW p, p = Launch(c), NEW m \in Nat,
         NEW q \in 0 .. p.seqlen_q, q % p.groups = 0, NEW k \in Nat
  PROVE  TileOf(p, m, q, k) \in ValidTiles
  <1>1. /\ p.causal \in BOOLEAN /\ p.local \in BOOLEAN /\ p.wl \in Int /\ p.wr \in Int
        /\ ~ (p.causal /\ p.local)
        /\ p.causal => p.wr = 0
        /\ p.local => p.wl >= 0 /\ p.wr >= 0
        /\ p.groups > 1 => p.causal /\ p.seqlen_q <= kBlockM
    BY LaunchFlags
  <1>2. p.splits \in Nat \ {0} /\ p.groups \in Nat \ {0} /\ p.seqlen_q \in Nat
    BY LaunchShape
  <1>3. q \in Nat /\ (p.groups > 1 => p.causal /\ q <= kBlockM)
    BY <1>1, <1>2, BlocksArePositive
  <1> DEFINE t == TileOf(p, m, q, k)
  <1>4. /\ t \in [causal : BOOLEAN, local : BOOLEAN, wl : Int, wr : Int, splits : Nat \ {0},
                  groups : Nat \ {0}, m : Nat, Q : Nat, K : Nat]
        /\ t.causal = p.causal /\ t.local = p.local /\ t.wl = p.wl
        /\ t.wr = p.wr /\ t.groups = p.groups /\ t.Q = q
    BY <1>1, <1>2, <1>3 DEF TileOf
  <1> HIDE DEF t
  <1>5. t \in ValidTiles
    BY <1>1, <1>3, <1>4 DEF ValidTiles
  <1> QED
    BY <1>5 DEF t

(* The same for the tile of a CTA in a replay.                             *)
LEMMA TileIsValid ==
  ASSUME Fixed, Running, NEW b \in Seqs, NEW m \in Nat
  PROVE  TileOf(launch, m, LenQ(b), LenK(b)) \in ValidTiles
  <1>1. call \in Calls /\ Accepted(call) /\ launch = Launch(call)
    BY DEF Fixed
  <1>2. launch.groups \in Nat \ {0} /\ launch.seqlen_q \in Nat
    BY Shape
  <1>3. LenQ(b) \in 0 .. launch.seqlen_q /\ LenQ(b) % launch.groups = 0 /\ LenK(b) \in Nat
    BY <1>2, Lengths, Contents
  <1> QED
    BY <1>1, <1>3, LaunchTileIsValid

(***************************************************************************)
(* Whatever shapes, window, splits and packing the host lets through, and  *)
(* whatever the device metadata hold in a replay, every CTA gets a tile    *)
(* that satisfies what the results on SplitTile assume: one mask at most,  *)
(* a normalised window, and packed heads only under a causal mask in one   *)
(* row block.                                                              *)
(***************************************************************************)
THEOREM EveryTileIsValid == Spec => []LaunchesValidTiles
  <1>1. Fixed => LaunchesValidTiles
    <2> SUFFICES ASSUME Fixed, phase = "attend", NEW cta \in waiting
                 PROVE  TileOf(launch, cta[1], LenQ(Decode(cta).b), LenK(Decode(cta).b)) \in ValidTiles
      BY DEF LaunchesValidTiles
    <2>1. Running /\ cta \in Grid
      BY DEF Running, Fixed
    <2>2. CeilDiv(launch.seqlen_q, kBlockM) \in Int
      <3>1. launch.seqlen_q \in Int
        BY <2>1, Shape
      <3> QED
        BY <3>1, CeilDivInt, BlocksArePositive
    <2>3. cta[1] \in Nat /\ Decode(cta).b \in Seqs
      BY <2>1, <2>2, DecodeInGrid
    <2> QED
      BY <2>1, <2>3, TileIsValid
  <1> QED
    BY <1>1, FixedInvariance, PTL

-----------------------------------------------------------------------------
(* The windows of the host and of the kernel agree on a position, as seen  *)
(* from one of the last Tokens positions of a sequence of K keys.          *)
LEMMA WindowRewritten ==
  ASSUME NEW c \in Calls, Accepted(c), c.max_q <= c.max_k, NEW p, p = Launch(c),
         NEW K \in 0 .. c.max_k, NEW here \in Int, here < K, K - c.max_q <= here,
         NEW k \in 0 .. K - 1
  PROVE  (/\ p.causal => k <= here
          /\ p.local => here - p.wl <= k /\ k <= here + p.wr)
         <=> (/\ c.window_left >= 0 => here - k <= c.window_left
              /\ RightWindow(c) >= 0 => k - here <= RightWindow(c))
  <1>1. c \in CallTypes
    BY CallsAssumption
  <1>2. /\ c.window_left \in Int /\ c.window_left >= -1 /\ RightWindow(c) \in Int
        /\ c.max_k \in Nat /\ c.max_q \in Nat /\ K \in Nat /\ K <= c.max_k /\ k \in Nat /\ k < K
    BY <1>1 DEF CallTypes, Accepted, RightWindow
  <1>3. /\ p.causal <=> OrdinaryCausal(c)
        /\ p.local <=> (~ OrdinaryCausal(c) /\ (LaunchLeft(c) >= 0 \/ LaunchRight(c) >= 0))
        /\ p.wl = LaunchLeft(c) /\ p.wr = LaunchRight(c)
    BY DEF Launch
  <1>4. CASE c.window_left < 0 /\ RightWindow(c) = 0
    <2>1. p.causal /\ ~ p.local
      BY <1>2, <1>3, <1>4 DEF OrdinaryCausal
    <2> QED
      BY <1>2, <1>4, <2>1
  <1>5. CASE c.window_left < 0 /\ RightWindow(c) < 0
    <2>1. ~ p.causal /\ ~ p.local
      BY <1>2, <1>3, <1>5 DEF OrdinaryCausal, LaunchLeft, LaunchRight
    <2> QED
      BY <1>2, <1>5, <2>1
  <1>6. CASE c.window_left < 0 /\ RightWindow(c) > 0
    <2>1. ~ p.causal /\ p.local /\ p.wl = c.max_k /\ p.wr = RightWindow(c)
      BY <1>2, <1>3, <1>6 DEF OrdinaryCausal, LaunchLeft, LaunchRight
    <2> QED
      BY <1>2, <1>6, <2>1
  <1>7. CASE c.window_left >= 0 /\ RightWindow(c) >= 0
    <2>1. ~ p.causal /\ p.local /\ p.wl = c.window_left /\ p.wr = RightWindow(c)
      BY <1>2, <1>3, <1>7 DEF OrdinaryCausal, LaunchLeft, LaunchRight
    <2> QED
      BY <1>2, <1>7, <2>1
  <1>8. CASE c.window_left >= 0 /\ RightWindow(c) < 0
    <2>1. ~ p.causal /\ p.local /\ p.wl = c.window_left /\ p.wr = c.max_k
      BY <1>2, <1>3, <1>8 DEF OrdinaryCausal, LaunchLeft, LaunchRight
    <2> QED
      BY <1>2, <1>8, <2>1
  <1> QED
    BY <1>2, <1>4, <1>5, <1>6, <1>7, <1>8

(* Rows of a tile of the launch stand among the last keys.                 *)
LEMMA WindowOfTile ==
  ASSUME Fixed, Running, call.max_q <= call.max_k, NEW b \in Seqs, NEW m \in Nat,
         NEW t, t = TileOf(launch, m, LenQ(b), LenK(b)), NEW r \in LiveRows(t)
  PROVE  Visible(t, r) =
           { k \in 0 .. t.K - 1 :
               LET ahead == k - (Token(t, r) + t.K - Tokens(t))
               IN  /\ call.window_left >= 0 => -ahead <= call.window_left
                   /\ RightWindow(call) >= 0 => ahead <= RightWindow(call) }
  <1> DEFINE n == meta.cu_q[b + 2] - meta.cu_q[b + 1]
             here == Token(t, r) + t.K - Tokens(t)
  <1>1. t \in ValidTiles
    BY TileIsValid
  <1>2. /\ t.K = LenK(b) /\ t.Q = LenQ(b) /\ t.groups = launch.groups
        /\ t.causal = launch.causal /\ t.local = launch.local /\ t.wl = launch.wl /\ t.wr = launch.wr
    BY DEF TileOf
  <1>3. Token(t, r) \in Nat /\ Tokens(t) \in Nat /\ Token(t, r) < Tokens(t)
    BY <1>1, LiveRowPosition
  <1>4. /\ t.K \in 0 .. call.max_k /\ launch.groups \in Nat \ {0}
        /\ call.max_q \in Nat /\ call.max_k \in Nat
    BY <1>2, Lengths, Shape, Contents
  <1>5. Tokens(t) <= call.max_q
    <2>1. n \in Int /\ n <= call.max_q
      <3>1. b + 1 \in 1 .. launch.b /\ (b + 1) + 1 = b + 2 /\ b + 1 \in 0 .. launch.b /\ b \in 0 .. launch.b
        BY Shape DEF Seqs
      <3>2. meta.cu_q[b + 1] \in Nat /\ meta.cu_q[(b + 1) + 1] \in Nat
        BY <3>1, Offsets
      <3> QED
        BY <3>1, <3>2, Contents
    <2>2. LenQ(b) = n * launch.groups + 0 /\ LenQ(b) \in Nat
      <3>1. LenQ(b) = n * launch.groups /\ LenQ(b) \in 0 .. launch.seqlen_q /\ launch.seqlen_q \in Nat
        BY Lengths, Shape
      <3> QED
        BY <3>1
    <2>3. 0 \in 0 .. launch.groups - 1
      BY <1>4
    <2> HIDE DEF n
    <2>4. LenQ(b) \div launch.groups = n
      BY <1>4, <2>1, <2>2, <2>3, DivUnique
    <2> QED
      BY <1>2, <2>1, <2>4 DEF Tokens
  <1>6. here \in Int /\ here < t.K /\ t.K - call.max_q <= here
    BY <1>3, <1>4, <1>5
  <1>7. call \in Calls /\ Accepted(call) /\ launch = Launch(call)
    BY DEF Fixed
  <1> HIDE DEF here
  <1>8. ASSUME NEW k \in 0 .. t.K - 1
        PROVE  (/\ t.causal => k <= here
                /\ t.local => here - t.wl <= k /\ k <= here + t.wr)
               <=> (/\ call.window_left >= 0 => -(k - here) <= call.window_left
                    /\ RightWindow(call) >= 0 => k - here <= RightWindow(call))
    <2>1. -(k - here) = here - k
      BY <1>4, <1>6
    <2> QED
      BY <1>2, <1>4, <1>6, <1>7, <2>1, WindowRewritten
  <1> QED
    BY <1>8 DEF Visible, here

(***************************************************************************)
(* The kernel masks exactly what the caller asked for, after the host has  *)
(* normalised the window for it - when no call has more queries than keys: *)
(* with a left window and window_right = -1 the host puts max_k for the    *)
(* latter, and keys further than that ahead of a query would be lost.      *)
(***************************************************************************)
THEOREM WindowIsHonoured ==
  ASSUME \A c \in Calls : Accepted(c) => c.max_q <= c.max_k
  PROVE  Spec => []WindowAsRequested
  <1>1. Fixed => WindowAsRequested
    <2> SUFFICES ASSUME Fixed, phase = "attend", NEW cta \in waiting,
                        NEW b, b = Decode(cta).b,
                        NEW t, t = TileOf(launch, cta[1], LenQ(b), LenK(b)),
                        NEW limit, limit = IF call.causal THEN 0 ELSE call.window_right,
                        NEW r \in LiveRows(t)
                 PROVE  Visible(t, r) =
                          { k \in 0 .. t.K - 1 :
                              LET ahead == k - (Token(t, r) + t.K - Tokens(t))
                              IN  /\ call.window_left >= 0 => -ahead <= call.window_left
                                  /\ limit >= 0 => ahead <= limit }
      BY DEF WindowAsRequested
    <2>1. Running /\ cta \in Grid /\ call.max_q <= call.max_k /\ limit = RightWindow(call)
      BY DEF Running, Fixed, RightWindow
    <2>2. CeilDiv(launch.seqlen_q, kBlockM) \in Int
      <3>1. launch.seqlen_q \in Int
        BY <2>1, Shape
      <3> QED
        BY <3>1, CeilDivInt, BlocksArePositive
    <2>3. cta[1] \in Nat /\ b \in Seqs
      BY <2>1, <2>2, DecodeInGrid
    <2> QED
      BY <2>1, <2>3, WindowOfTile
  <1> QED
    BY <1>1, FixedInvariance, PTL

-----------------------------------------------------------------------------
(* Flat rows number the rows of all sequences and heads.                   *)
LEMMA FlatInRange ==
  ASSUME Fixed, Running, NEW b \in Seqs, NEW h \in KHeads, NEW r \in 0 .. launch.seqlen_q - 1
  PROVE  Flat(b, h, r) \in 0 .. LseSize - 1
  <1>1. launch.b \in Nat \ {0} /\ launch.h \in Nat \ {0} /\ launch.seqlen_q \in Nat \ {0}
    BY Shape
  <1>2. b * launch.h + h \in 0 .. launch.b * launch.h - 1
    BY <1>1, RadixBound DEF Seqs, KHeads
  <1>3. launch.b * launch.h \in Nat
    BY <1>1
  <1>4. (b * launch.h + h) * launch.seqlen_q + r \in 0 .. (launch.b * launch.h) * launch.seqlen_q - 1
    BY <1>1, <1>2, <1>3, RadixBound
  <1> QED
    BY <1>4 DEF Flat, LseSize

(* Two packed rows have different flat rows.                               *)
LEMMA FlatUnique ==
  ASSUME Fixed, Running, NEW b \in Seqs, NEW h \in KHeads, NEW r \in 0 .. launch.seqlen_q - 1,
         NEW x \in Seqs, NEW y \in KHeads, NEW z \in 0 .. launch.seqlen_q - 1,
         Flat(b, h, r) = Flat(x, y, z)
  PROVE  b = x /\ h = y /\ r = z
  <1>1. launch.b \in Nat \ {0} /\ launch.h \in Nat \ {0} /\ launch.seqlen_q \in Nat \ {0}
    BY Shape
  <1>2. /\ b \in Nat /\ x \in Nat /\ h \in 0 .. launch.h - 1 /\ y \in 0 .. launch.h - 1
        /\ b * launch.h + h \in Nat /\ x * launch.h + y \in Nat
    BY <1>1 DEF Seqs, KHeads
  <1>3. b * launch.h + h = x * launch.h + y /\ r = z
    <2>1. (b * launch.h + h) * launch.seqlen_q + r = (x * launch.h + y) * launch.seqlen_q + z
      BY DEF Flat
    <2>2. \A a, c \in Nat, u, v \in 0 .. launch.seqlen_q - 1 :
            a * launch.seqlen_q + u = c * launch.seqlen_q + v => a = c /\ u = v
      BY <1>1, RadixUnique
    <2> QED
      BY <1>2, <2>1, <2>2
  <1>4. \A a, c \in Nat, u, v \in 0 .. launch.h - 1 :
          a * launch.h + u = c * launch.h + v => a = c /\ u = v
    BY <1>1, RadixUnique
  <1> QED
    BY <1>2, <1>3, <1>4

(* A flat row has a sequence, a head and a row, which the combine kernel   *)
(* finds again.                                                            *)
LEMMA FlatDigits ==
  ASSUME Fixed, Running, NEW i \in 0 .. LseSize - 1
  PROVE  \E b \in Seqs, h \in KHeads, r \in 0 .. launch.seqlen_q - 1 : i = Flat(b, h, r)
  <1>1. launch.b \in Nat \ {0} /\ launch.h \in Nat \ {0} /\ launch.seqlen_q \in Nat \ {0}
    BY Shape
  <1>2. launch.b * launch.h \in Nat /\ i \in 0 .. (launch.b * launch.h) * launch.seqlen_q - 1
    BY <1>1 DEF LseSize
  <1> DEFINE z == i \div launch.seqlen_q
             r == i % launch.seqlen_q
  <1>3. /\ z \in 0 .. launch.b * launch.h - 1 /\ r \in 0 .. launch.seqlen_q - 1
        /\ i = z * launch.seqlen_q + r
    BY <1>1, <1>2, RadixDigits
  <1> HIDE DEF z, r
  <1>4. /\ z \div launch.h \in Seqs /\ z % launch.h \in KHeads
        /\ z = (z \div launch.h) * launch.h + (z % launch.h)
    BY <1>1, <1>3, RadixDigits DEF Seqs, KHeads
  <1>5. i = Flat(z \div launch.h, z % launch.h, r)
    BY <1>3, <1>4 DEF Flat
  <1> QED
    BY <1>3, <1>4, <1>5

(* The combine kernel decodes a flat row to the row it is for.             *)
LEMMA CombineFindsRow ==
  ASSUME Fixed, Running, NEW b \in Seqs, NEW h \in KHeads, NEW r \in 0 .. launch.seqlen_q - 1
  PROVE  /\ CombineTarget(Flat(b, h, r)).live <=> r < LenQ(b)
         /\ CombineTarget(Flat(b, h, r)).row = CuQ(b) + r /\ CombineTarget(Flat(b, h, r)).h = h
  <1> DEFINE i == Flat(b, h, r)
             H == launch.h
             Q == launch.seqlen_q
  <1>1. launch.b \in Nat \ {0} /\ H \in Nat \ {0} /\ Q \in Nat \ {0}
    BY Shape
  <1>2. b \in Nat /\ h \in 0 .. H - 1 /\ i = (b * H + h) * Q + r /\ i \in Nat
    BY <1>1 DEF Seqs, KHeads, Flat
  <1> HIDE DEF i, H, Q
  <1>3. i \div (H * Q) = b
    <2>1. h * Q + r \in 0 .. H * Q - 1
      BY <1>1, <1>2, RadixBound DEF Q
    <2>2. i = b * (H * Q) + (h * Q + r)
      <3>1. (b * H + h) * Q = b * (H * Q) + h * Q
        BY <1>1, <1>2
      <3>2. b * (H * Q) \in Int /\ h * Q \in Int /\ r \in Int
        BY <1>1, <1>2 DEF Q
      <3> QED
        BY <1>2, <3>1, <3>2
    <2>3. H * Q \in Nat \ {0}
      BY <1>1
    <2> QED
      BY <1>2, <2>1, <2>2, <2>3, DivUnique
  <1>4. (i - b * H * Q) \div Q = h
    <2>1. i - b * H * Q = h * Q + r /\ h * Q + r \in Nat
      <3>1. (b * H + h) * Q = b * H * Q + h * Q
        BY <1>1, <1>2
      <3>2. b * H * Q \in Int /\ h * Q \in Nat /\ r \in Nat
        BY <1>1, <1>2 DEF Q
      <3> QED
        BY <1>2, <3>1, <3>2
    <2>2. r \in 0 .. Q - 1 /\ h \in Int
      BY <1>2 DEF Q
    <2>3. \A n \in Nat : n = h * Q + r => n \div Q = h
      BY <1>1, <2>2, DivUnique
    <2> QED
      BY <2>1, <2>3
  <1>5. i - (b * H + h) * Q = r
    <2>1. (b * H + h) * Q \in Int /\ r \in Int
      BY <1>1, <1>2 DEF Q
    <2> QED
      BY <1>2, <2>1
  <1> DEFINE T == CombineTarget(i)
  <1>6. T.row = CuQ(b) + r /\ T.h = h
    BY <1>3, <1>4, <1>5 DEF CombineTarget, H, Q
  <1>7. T.live <=> r < LenQ(b)
    <2>1. T.live <=> i - (b * H + h) * Q < LenQ(b)
      BY <1>3, <1>4 DEF CombineTarget, H, Q
    <2> HIDE DEF T
    <2> QED
      BY <1>5, <2>1
  <1> QED
    BY <1>6, <1>7 DEF i

(* The scratch is one array of flat rows per split.                        *)
LEMMA AccumIsFlat ==
  ASSUME Fixed, Running, NEW s \in Nat, NEW b \in Seqs, NEW h \in KHeads, NEW r \in Nat
  PROVE  AccumOffset(s, b, h) + r = s * LseSize + Flat(b, h, r)
  <1> DEFINE B == launch.b
             H == launch.h
             Q == launch.seqlen_q
  <1>1. B \in Nat /\ H \in Nat /\ Q \in Nat /\ b \in Nat /\ h \in Nat
    BY Shape DEF Seqs, KHeads
  <1> HIDE DEF B, H, Q
  <1>2. ((s * B + b) * H + h) * Q = s * (B * H * Q) + (b * H + h) * Q
    <2>1. (s * B + b) * H + h = s * (B * H) + (b * H + h)
      BY <1>1
    <2>2. B * H \in Nat /\ b * H + h \in Nat
      BY <1>1
    <2>3. (s * (B * H) + (b * H + h)) * Q = s * ((B * H) * Q) + (b * H + h) * Q
      BY <1>1, <2>2
    <2> QED
      BY <2>1, <2>3
  <1>3. s * (B * H * Q) \in Nat /\ (b * H + h) * Q \in Nat
    BY <1>1
  <1> QED
    BY <1>2, <1>3 DEF AccumOffset, Flat, LseSize, B, H, Q

(* A launch has at least one flat row.                                     *)
LEMMA LseSizePositive ==
  ASSUME Fixed, Running
  PROVE  LseSize \in Nat \ {0}
  <1>1. launch.b \in Nat \ {0} /\ launch.h \in Nat \ {0} /\ launch.seqlen_q \in Nat \ {0}
    BY Shape
  <1>2. launch.b * launch.h \in Nat \ {0}
    BY <1>1
  <1> QED
    BY <1>1, <1>2 DEF LseSize

(* Rows of different splits have different places inside the scratch.      *)
LEMMA ScratchRows ==
  ASSUME Fixed, Running, NEW s \in 0 .. launch.splits - 1, NEW b \in Seqs, NEW h \in KHeads,
         NEW r \in Live(b)
  PROVE  /\ r \in 0 .. launch.seqlen_q - 1
         /\ Place(s, b, h, r) \in 0 .. launch.splits * LseSize - 1
         /\ \A u \in 0 .. launch.splits - 1, x \in Seqs, y \in KHeads : \A z \in Live(x) :
              Place(s, b, h, r) = Place(u, x, y, z) => s = u /\ b = x /\ h = y /\ r = z
  <1>1. launch.splits \in Nat \ {0} /\ LseSize \in Nat \ {0} /\ launch.seqlen_q \in Nat
    BY Shape, LseSizePositive
  <1>2. ASSUME NEW x \in Seqs, NEW z \in Live(x) PROVE z \in 0 .. launch.seqlen_q - 1
    BY <1>1, Lengths DEF Live
  <1>3. r \in 0 .. launch.seqlen_q - 1
    BY <1>2
  <1>4. Flat(b, h, r) \in 0 .. LseSize - 1
    BY <1>3, FlatInRange
  <1>5. s * LseSize + Flat(b, h, r) \in 0 .. launch.splits * LseSize - 1
    BY <1>1, <1>4, RadixBound
  <1>6. ASSUME NEW u \in 0 .. launch.splits - 1, NEW x \in Seqs, NEW y \in KHeads, NEW z \in Live(x),
               s * LseSize + Flat(b, h, r) = u * LseSize + Flat(x, y, z)
        PROVE  s = u /\ b = x /\ h = y /\ r = z
    <2>1. z \in 0 .. launch.seqlen_q - 1
      BY <1>2
    <2>2. Flat(x, y, z) \in 0 .. LseSize - 1
      BY <2>1, FlatInRange
    <2>3. s = u /\ Flat(b, h, r) = Flat(x, y, z)
      <3>1. \A a, c \in Nat, e, f \in 0 .. LseSize - 1 :
              a * LseSize + e = c * LseSize + f => a = c /\ e = f
        BY <1>1, RadixUnique
      <3>2. s \in Nat /\ u \in Nat
        BY <1>1
      <3> QED
        BY <1>4, <1>6, <2>2, <3>1, <3>2
    <2> QED
      BY <1>3, <2>1, <2>3, FlatUnique
  <1> QED
    BY <1>3, <1>5, <1>6 DEF Place

(* The LSE the kernels write is one row of total_q values per head.        *)
LEMMA HeadRows ==
  ASSUME Fixed, Running, NEW h \in KHeads, NEW q \in 0 .. launch.total_q - 1
  PROVE  /\ h * launch.total_q + q \in 0 .. launch.h * launch.total_q - 1
         /\ \A y \in KHeads, z \in 0 .. launch.total_q - 1 :
              h * launch.total_q + q = y * launch.total_q + z => h = y /\ q = z
  <1>1. launch.h \in Nat /\ launch.total_q \in Nat \ {0}
    BY Shape
  <1>2. h * launch.total_q + q \in 0 .. launch.h * launch.total_q - 1
    BY <1>1, RadixBound DEF KHeads
  <1>3. ASSUME NEW y \in KHeads, NEW z \in 0 .. launch.total_q - 1,
               h * launch.total_q + q = y * launch.total_q + z
        PROVE  h = y /\ q = z
    <2>1. h \in Nat /\ y \in Nat
      BY <1>1 DEF KHeads
    <2>2. \A a, c \in Nat, u, v \in 0 .. launch.total_q - 1 :
            a * launch.total_q + u = c * launch.total_q + v => a = c /\ u = v
      BY <1>1, RadixUnique
    <2> QED
      BY <1>3, <2>1, <2>2
  <1> QED
    BY <1>2, <1>3

(* A live row of a sequence is a packed row of the launch.                 *)
LEMMA LiveRowOfLaunch ==
  ASSUME Fixed, Running, NEW b \in Seqs, NEW r \in Live(b)
  PROVE  CuQ(b) + r \in 0 .. launch.total_q - 1 /\ CuQ(b) + r \in 0 .. CuQ(launch.b) - 1 /\ r \in Nat
  <1>1. launch.b \in Nat /\ launch.b \in 0 .. launch.b /\ launch.total_q \in Nat
    BY Shape
  <1>2. CuQ(launch.b) \in Nat /\ CuQ(launch.b) <= launch.total_q
    BY <1>1, Offsets
  <1>3. CuQ(b) \in Nat /\ LenQ(b) \in 0 .. launch.seqlen_q /\ CuQ(b) + LenQ(b) <= CuQ(launch.b)
    BY Lengths
  <1>4. r \in Nat /\ r < LenQ(b) /\ LenQ(b) \in Nat
    BY <1>3, Shape DEF Live
  <1> QED
    BY <1>1, <1>2, <1>3, <1>4

(* The address products give the rows they should.                         *)
ExactProducts == \A c \in Calls, build \in Builds : Accepted(c) => ProductsExact(c, build)

(* With exact products a row of the scratch is at its own offset.          *)
LEMMA ExactOffset ==
  ASSUME Fixed, Running, Split, ExactProducts,
         NEW site \in AddressProducts, NEW rows \in 0 .. launch.splits * LseSize - 1
  PROVE  RowOffset(site, rows) = rows
  <1> DEFINE x == rows * HeadDim
             n == launch.splits * LseSize
  <1>1. HeadDim \in Nat \ {0} /\ IntLimit \in Nat \ {0} /\ n \in Nat /\ rows \in Nat /\ rows < n
    BY Shape, LseSizePositive, WidthAssumption
  <1>2. x \in Nat /\ x \div HeadDim = rows
    <2>1. x \in Nat /\ x = rows * HeadDim + 0 /\ 0 \in 0 .. HeadDim - 1
      BY <1>1
    <2> HIDE DEF x
    <2> QED
      BY <1>1, <2>1, DivUnique
  <1>3. IntProduct(site, x) = x
    <2>1. CASE site \in wide
      BY <2>1 DEF IntProduct
    <2>2. CASE site \notin wide
      <3>1. n * HeadDim <= IntLimit
        BY <2>2 DEF Fixed, ExactProducts, ProductsExact, Split, LseSize
      <3>2. x < n * HeadDim
        <4>1. (rows + 1) * HeadDim <= n * HeadDim
          BY <1>1, MultiplesOrdered
        <4>2. (rows + 1) * HeadDim = x + HeadDim
          BY <1>1
        <4>3. n * HeadDim \in Int
          BY <1>1
        <4> HIDE DEF x, n
        <4> QED
          BY <1>1, <1>2, <4>1, <4>2, <4>3
      <3>3. x < IntLimit
        <4>1. n * HeadDim \in Int
          BY <1>1
        <4> HIDE DEF x, n
        <4> QED
          BY <1>1, <1>2, <3>1, <3>2, <4>1
      <3> HIDE DEF x
      <3>4. x + IntLimit \in 0 .. 2 * IntLimit - 1 /\ 2 * IntLimit \in Nat \ {0}
        BY <1>1, <1>2, <3>3
      <3>5. x + IntLimit = 0 * (2 * IntLimit) + (x + IntLimit) /\ x + IntLimit \in Nat
        BY <1>1, <3>4
      <3>6. (x + IntLimit) % (2 * IntLimit) = x + IntLimit
        BY <3>4, <3>5, DivUnique
      <3> QED
        BY <1>1, <1>2, <2>2, <3>6 DEF IntProduct
    <2> QED
      BY <2>1, <2>2
  <1> HIDE DEF x
  <1>4. RowOffset(site, rows) = IntProduct(site, x) \div HeadDim
    BY DEF RowOffset, x
  <1> QED
    BY <1>2, <1>3, <1>4

-----------------------------------------------------------------------------
(* Places and provenances depend on the call, its metadata and the round.  *)
LEMMA SamePlaces ==
  ASSUME UNCHANGED <<call, launch, meta, round>>
  PROVE  /\ Split' = Split /\ LseSize' = LseSize /\ Seqs' = Seqs /\ KHeads' = KHeads /\ View' = View
         /\ LiveTokens' = LiveTokens /\ OutIndex' = OutIndex /\ PaddingRows' = PaddingRows
         /\ \A b, h, r : OutPlace(b, h, r)' = OutPlace(b, h, r) /\ LsePlace(b, h, r)' = LsePlace(b, h, r)
         /\ \A b : CuQ(b)' = CuQ(b) /\ LenQ(b)' = LenQ(b) /\ Live(b)' = Live(b)
         /\ \A b, h, r : Flat(b, h, r)' = Flat(b, h, r) /\ Final(b, h, r)' = Final(b, h, r)
         /\ \A s, b, h, r : Part(s, b, h, r)' = Part(s, b, h, r) /\ Place(s, b, h, r)' = Place(s, b, h, r)
         /\ \A m, s, b, h : CtaOf(m, s, b, h)' = CtaOf(m, s, b, h)
         /\ \A b, h, q, parts : Provenance(b, h, q, parts)' = Provenance(b, h, q, parts)
         /\ \A v : Older(v)' <=> Older(v)
         /\ \A token, head : Expected(token, head)' = Expected(token, head)
  <1>1. Split' = Split /\ LseSize' = LseSize /\ Seqs' = Seqs /\ KHeads' = KHeads /\ View' = View
    BY DEF Split, LseSize, Seqs, KHeads, View, PackedOutputView
  <1>2. LiveTokens' = LiveTokens /\ OutIndex' = OutIndex
    BY DEF LiveTokens, OutIndex
  <1>3. \A b : CuQ(b)' = CuQ(b) /\ LenQ(b)' = LenQ(b) /\ Live(b)' = Live(b)
    BY DEF CuQ, LenQ, Live
  <1>4. \A b, h, q, parts : Provenance(b, h, q, parts)' = Provenance(b, h, q, parts)
    BY DEF Provenance, Row
  <1>5. \A b, h, r : Flat(b, h, r)' = Flat(b, h, r) /\ Final(b, h, r)' = Final(b, h, r)
    BY <1>3, <1>4 DEF Flat, Final
  <1>6. \A m, s, b, h : CtaOf(m, s, b, h)' = CtaOf(m, s, b, h)
    BY DEF CtaOf, Split
  <1>7. \A v : Older(v)' <=> Older(v)
    BY DEF Older
  <1>8. \A token, head : Expected(token, head)' = Expected(token, head)
    BY DEF Expected, Row, SequenceOf
  <1>9. \A s, b, h, r : Part(s, b, h, r)' = Part(s, b, h, r) /\ Place(s, b, h, r)' = Place(s, b, h, r)
    BY <1>1, <1>3, <1>4, <1>5 DEF Part, Place
  <1>10. /\ PaddingRows' = PaddingRows
         /\ \A b, h, r : OutPlace(b, h, r)' = OutPlace(b, h, r) /\ LsePlace(b, h, r)' = LsePlace(b, h, r)
    BY <1>3 DEF PaddingRows, OutPlace, LsePlace, CuQ
  <1> QED
    BY <1>1, <1>2, <1>3, <1>4, <1>5, <1>6, <1>7, <1>8, <1>9, <1>10

(* What a store does to a memory.                                          *)
LEMMA WriteFacts ==
  ASSUME NEW f, NEW g
  PROVE  /\ DOMAIN Write(f, g) = DOMAIN f \cup DOMAIN g
         /\ \A a \in DOMAIN g : Write(f, g)[a] = g[a]
         /\ \A a \in DOMAIN f : a \notin DOMAIN g => Write(f, g)[a] = f[a]
  BY DEF Write

(* The live rows of a tile are the rows of the sequence in its row block.  *)
LEMMA TileRows ==
  ASSUME Fixed, Running, NEW b \in Seqs, NEW m \in Nat,
         NEW t, t = TileOf(launch, m, LenQ(b), LenK(b))
  PROVE  /\ \A r \in LiveRows(t) : /\ r \in Nat /\ m * kBlockM + r \in Live(b)
                                   /\ (m * kBlockM + r) \div kBlockM = m
         /\ \A r \in Live(b) : r \div kBlockM = m =>
              r - m * kBlockM \in LiveRows(t) /\ m * kBlockM + (r - m * kBlockM) = r
  <1>1. /\ t.m = m /\ t.Q = LenQ(b) /\ LenQ(b) \in Nat /\ kBlockM \in Nat \ {0} /\ m * kBlockM \in Nat
    BY Lengths, Shape, BlocksArePositive DEF TileOf
  <1>2. ASSUME NEW r \in LiveRows(t)
        PROVE  r \in Nat /\ m * kBlockM + r \in Live(b) /\ (m * kBlockM + r) \div kBlockM = m
    <2>1. r \in 0 .. kBlockM - 1 /\ r < LenQ(b) - m * kBlockM
      BY <1>1 DEF LiveRows, Rows
    <2>2. m * kBlockM + r \in Nat /\ m * kBlockM + r < LenQ(b) /\ m \in Int
      BY <1>1, <2>1
    <2>3. \A n \in Nat : n = m * kBlockM + r => n \div kBlockM = m
      <3>1. r \in 0 .. kBlockM - 1 /\ m \in Int
        BY <2>1, <2>2
      <3> QED
        BY <3>1, BlocksArePositive, DivUnique
    <2> QED
      BY <1>1, <2>1, <2>2, <2>3 DEF Live
  <1>3. ASSUME NEW r \in Live(b), r \div kBlockM = m
        PROVE  r - m * kBlockM \in LiveRows(t) /\ m * kBlockM + (r - m * kBlockM) = r
    <2>1. r \in Nat /\ r < LenQ(b)
      BY <1>1 DEF Live
    <2>2. m * kBlockM <= r /\ r < m * kBlockM + kBlockM
      BY <1>1, <1>3, <2>1, DivBounds
    <2>3. r - m * kBlockM \in 0 .. kBlockM - 1 /\ r - m * kBlockM < LenQ(b) - m * kBlockM
      BY <1>1, <2>1, <2>2
    <2> QED
      BY <1>1, <2>1, <2>3 DEF LiveRows, Rows
  <1> QED
    BY <1>2, <1>3

(* Adding up the parts of one row gives the row with all its parts.        *)
LEMMA AddedParts ==
  ASSUME NEW n \in Nat \ {0}, NEW b, NEW h, NEW q,
         NEW x, x = { Provenance(b, h, q, {s}) : s \in 0 .. n - 1 }
  PROVE  Added(x) = Provenance(b, h, q, 0 .. n - 1)
  <1> DEFINE P(parts) == Provenance(b, h, q, parts)
             one == CHOOSE y \in x : TRUE
  <1>1. \A parts : P(parts).kind = "row" /\ P(parts).parts = parts
                   /\ \A other : [P(parts) EXCEPT !.parts = other] = P(other)
    BY DEF Provenance, Row
  <1>2. \A parts : P(parts) # Blank
    <2>1. Blank.kind = "blank"
      BY DEF Blank
    <2> QED
      BY <1>1, <2>1
  <1> HIDE DEF P
  <1>3. x = { P({s}) : s \in 0 .. n - 1 }
    BY DEF P
  <1>4. x \ {Blank} = x
    BY <1>2, <1>3
  <1>5. P({0}) \in x
    <2>1. 0 \in 0 .. n - 1
      BY SMT
    <2> QED
      BY <1>3, <2>1
  <1>6. one \in x
    BY <1>5
  <1> HIDE DEF one
  <1>7. PICK s \in 0 .. n - 1 : one = P({s})
    BY <1>3, <1>6
  <1>8. ASSUME NEW y \in x
        PROVE  /\ y.kind = "row" /\ [y EXCEPT !.parts = {}] = [one EXCEPT !.parts = {}]
               /\ \E u \in 0 .. n - 1 : y.parts = {u}
    <2>1. PICK u \in 0 .. n - 1 : y = P({u})
      BY <1>3
    <2>2. y.kind = "row" /\ y.parts = {u} /\ [y EXCEPT !.parts = {}] = P({})
      BY <1>1, <2>1
    <2>3. [one EXCEPT !.parts = {}] = P({})
      BY <1>1, <1>7
    <2> QED
      BY <2>2, <2>3
  <1>9. UNION { y.parts : y \in x } = 0 .. n - 1
    <2>1. ASSUME NEW u \in 0 .. n - 1 PROVE \E y \in x : y.parts = {u}
      <3>1. P({u}) \in x /\ P({u}).parts = {u}
        BY <1>1, <1>3
      <3> QED
        BY <3>1
    <2>2. ASSUME NEW y \in x, NEW v \in y.parts PROVE v \in 0 .. n - 1
      <3>1. PICK u \in 0 .. n - 1 : y.parts = {u}
        BY <1>8
      <3> QED
        BY <3>1
    <2>3. ASSUME NEW v \in 0 .. n - 1 PROVE \E y \in x : v \in y.parts
      BY <2>1
    <2>4. \A v : v \in UNION { y.parts : y \in x } <=> v \in 0 .. n - 1
      BY <2>2, <2>3
    <2> QED
      BY <2>4
  <1>10. [one EXCEPT !.parts = UNION { y.parts : y \in x }] = P(0 .. n - 1)
    BY <1>1, <1>7, <1>9
  <1>11. x # {}
    BY <1>5
  <1>12. Added(x) = [one EXCEPT !.parts = UNION { y.parts : y \in x }]
    BY <1>4, <1>8, <1>11 DEF Added, one
  <1> QED
    BY <1>10, <1>12 DEF P

(* The combine kernel's pointer into out_accum is at the flat row.         *)
LEMMA CombineReadsRow ==
  ASSUME Fixed, Running, Split, ExactProducts, NEW i \in 0 .. LseSize - 1, NEW s \in 0 .. launch.splits - 1
  PROVE  CombineSource(i, s) = s * LseSize + i
  <1> DEFINE block == i \div CombineRows
             n == LseSize
             k == launch.splits
  <1>1. n \in Nat \ {0} /\ k \in Nat /\ k > 1 /\ i \in Nat /\ i < n /\ s \in Nat
    BY Shape, LseSizePositive DEF Split
  <1>2. 2 * n <= k * n
    <2>1. n \in Int /\ n >= 0 /\ k \in Int /\ 2 <= k
      BY <1>1
    <2> HIDE DEF n, k
    <2> QED
      BY <2>1, MultiplesOrdered
  <1>3. k * n \in Nat
    BY <1>1
  <1>4. block \in Nat /\ block * CombineRows <= i /\ i % CombineRows = i - CombineRows * block
    <2>1. CombineRows \in Nat \ {0}
      BY DEF CombineRows
    <2>2. block \in Nat /\ block * CombineRows <= i
      BY <1>1, <2>1, DivBounds
    <2>3. i % CombineRows = i - CombineRows * (i \div CombineRows)
      BY <1>1 DEF CombineRows
    <2> QED
      BY <2>2, <2>3
  <1> HIDE DEF block
  <1>5. block * CombineRows \in Nat /\ block * CombineRows + (i % CombineRows) = i
    BY <1>1, <1>4 DEF CombineRows
  <1> HIDE DEF n, k
  <1>6. block * CombineRows \in 0 .. k * n - 1 /\ n \in 0 .. k * n - 1
    <2>1. block * CombineRows < n
      BY <1>1, <1>4, <1>5
    <2> QED
      BY <1>1, <1>2, <1>3, <1>5, <2>1
  <1>7. RowOffset("combine", block * CombineRows) = block * CombineRows
    BY <1>6, ExactOffset DEF AddressProducts, n, k
  <1>8. RowOffset("advance", LseSize) = n
    BY <1>6, ExactOffset DEF AddressProducts, n, k
  <1>9. CombineSource(i, s) = RowOffset("combine", block * CombineRows) + (i % CombineRows)
                              + s * RowOffset("advance", LseSize)
    BY DEF CombineSource, block
  <1>10. CombineSource(i, s) = i + s * n
    BY <1>5, <1>7, <1>8, <1>9
  <1>11. s * n \in Nat
    BY <1>1
  <1> QED
    BY <1>1, <1>10, <1>11 DEF n

(* What is merged for a live row: one part of each split, and no other.    *)
LEMMA MergedRow ==
  ASSUME Fixed, phase = "combine", ScratchInv, ExactProducts,
         NEW b \in Seqs, NEW h \in KHeads, NEW r \in Live(b)
  PROVE  Merged(Flat(b, h, r)) = Final(b, h, r) /\ MergedLse(Flat(b, h, r)) = Final(b, h, r)
  <1> DEFINE i == Flat(b, h, r)
             n == launch.splits
             P(s) == Provenance(b, h, CuQ(b) + r, {s})
             x == { P(s) : s \in 0 .. n - 1 }
  <1>1. Running /\ Split /\ n \in Nat \ {0}
    BY Shape DEF Running, Fixed
  <1>2. i \in 0 .. LseSize - 1
    <2>1. r \in 0 .. launch.seqlen_q - 1
      <3>1. 0 \in 0 .. launch.splits - 1
        BY <1>1
      <3> QED
        BY <1>1, <3>1, ScratchRows
    <2> QED
      BY <1>1, <2>1, FlatInRange
  <1> HIDE DEF i, n, P
  <1>3. ASSUME NEW s \in 0 .. n - 1
        PROVE  <<lseAccum[s * LseSize + i], Read(outAccum, CombineSource(i, s))>> = <<P(s), P(s)>>
    <2>1. s * LseSize + i \in 0 .. launch.splits * LseSize - 1
      BY <1>1, ScratchRows DEF i, n, Place
    <2>2. lseAccum[s * LseSize + i] = P(s) /\ outAccum[s * LseSize + i] = lseAccum[s * LseSize + i]
      BY <1>1 DEF ScratchInv, ScratchRowInv, Part, Place, i, n, P
    <2>3. CombineSource(i, s) = s * LseSize + i
      BY <1>1, <1>2, CombineReadsRow DEF n
    <2>4. DOMAIN outAccum = 0 .. launch.splits * LseSize - 1
      BY <1>1 DEF ScratchInv
    <2>5. Read(outAccum, CombineSource(i, s)) = P(s)
      BY <2>1, <2>2, <2>3, <2>4 DEF Read
    <2> QED
      BY <2>2, <2>5
  <1>4. Parts(i) = { <<P(s), P(s)>> : s \in 0 .. n - 1 }
    BY <1>3 DEF Parts, n
  <1>5. \A p \in Parts(i) : p[1] = p[2]
    BY <1>4
  <1>6. { p[1] : p \in Parts(i) } = x
    <2>1. ASSUME NEW p \in Parts(i) PROVE p[1] \in x
      BY <1>4
    <2>2. ASSUME NEW y \in x PROVE \E p \in Parts(i) : p[1] = y
      <3>1. PICK s \in 0 .. n - 1 : y = P(s)
        OBVIOUS
      <3>2. <<y, y>> \in Parts(i) /\ <<y, y>>[1] = y
        BY <1>4, <3>1
      <3> QED
        BY <3>2
    <2>3. \A y : y \in { p[1] : p \in Parts(i) } <=> y \in x
      BY <2>1, <2>2
    <2> QED
      BY <2>3
  <1>7. Added(x) = Final(b, h, r)
    <2>1. x = { Provenance(b, h, CuQ(b) + r, {s}) : s \in 0 .. n - 1 }
      BY DEF P
    <2> HIDE DEF x
    <2>2. Added(x) = Provenance(b, h, CuQ(b) + r, 0 .. n - 1)
      BY <1>1, <2>1, AddedParts
    <2> QED
      BY <2>2 DEF Final, n
  <1> HIDE DEF x
  <1>8. MergedLse(i) = Final(b, h, r)
    BY <1>6, <1>7 DEF MergedLse
  <1>9. Merged(i) = MergedLse(i)
    BY <1>5 DEF Merged
  <1> QED
    BY <1>8, <1>9 DEF i

-----------------------------------------------------------------------------
(* The values a CTA stores for the live rows of its tile from address at.  *)
RowsAt(at, t, m, s, b, h) ==
  [a \in { at + r : r \in LiveRows(t) } |-> Provenance(b, h, CuQ(b) + m * kBlockM + (a - at), {s})]

(* The rows a CTA stores into a scratch array are the live rows of its     *)
(* block, for its split, each at its flat row.                             *)
LEMMA ScratchStores ==
  ASSUME Fixed, Running, Split, NEW m \in Nat, NEW s \in 0 .. launch.splits - 1,
         NEW b \in Seqs, NEW h \in KHeads, NEW t, t = TileOf(launch, m, LenQ(b), LenK(b)), NEW at,
         LiveRows(t) # {} => at = AccumOffset(s, b, h) + m * kBlockM,
         NEW g, g = RowsAt(at, t, m, s, b, h)
  PROVE  /\ \A a \in DOMAIN g : \E z \in Live(b) :
              a = Place(s, b, h, z) /\ z \div kBlockM = m
         /\ \A u \in 0 .. launch.splits - 1, x \in Seqs, y \in KHeads : \A z \in Live(x) :
              IF CtaOf(z \div kBlockM, u, x, y) = CtaOf(m, s, b, h)
              THEN /\ Place(u, x, y, z) \in DOMAIN g
                   /\ g[Place(u, x, y, z)] = Part(u, x, y, z)
              ELSE Place(u, x, y, z) \notin DOMAIN g
  <1>1. DOMAIN g = { at + r : r \in LiveRows(t) }
    BY DEF RowsAt
  <1>2. m * kBlockM \in Nat /\ CuQ(b) \in Nat /\ s \in Nat
    BY BlocksArePositive, Lengths, Shape
  <1>3. ASSUME NEW r \in LiveRows(t)
        PROVE  /\ r \in Nat /\ m * kBlockM + r \in Live(b) /\ (m * kBlockM + r) \div kBlockM = m
               /\ at \in Int /\ at + r = Place(s, b, h, m * kBlockM + r)
    <2>1. r \in Nat /\ m * kBlockM + r \in Live(b) /\ (m * kBlockM + r) \div kBlockM = m
      BY TileRows
    <2>2. at = AccumOffset(s, b, h) + m * kBlockM
      BY <1>3
    <2>3. /\ AccumOffset(s, b, h) + m * kBlockM = Place(s, b, h, m * kBlockM)
          /\ AccumOffset(s, b, h) + (m * kBlockM + r) = Place(s, b, h, m * kBlockM + r)
      BY <1>2, <2>1, AccumIsFlat DEF Place
    <2>4. AccumOffset(s, b, h) \in Nat
      <3>1. launch.b \in Nat /\ launch.h \in Nat /\ launch.seqlen_q \in Nat /\ b \in Nat /\ h \in Nat
        BY Shape DEF Seqs, KHeads
      <3>2. (s * launch.b + b) * launch.h + h \in Nat
        BY <1>2, <3>1
      <3> QED
        BY <3>1, <3>2 DEF AccumOffset
    <2> QED
      BY <1>2, <2>1, <2>2, <2>3, <2>4
  <1>4. ASSUME NEW a \in DOMAIN g
        PROVE  \E z \in Live(b) : a = Place(s, b, h, z) /\ z \div kBlockM = m
    <2>1. PICK r \in LiveRows(t) : a = at + r
      BY <1>1
    <2> QED
      BY <1>3, <2>1
  <1>5. ASSUME NEW u \in 0 .. launch.splits - 1, NEW x \in Seqs, NEW y \in KHeads, NEW z \in Live(x),
               CtaOf(z \div kBlockM, u, x, y) = CtaOf(m, s, b, h)
        PROVE  /\ Place(u, x, y, z) \in DOMAIN g
               /\ g[Place(u, x, y, z)] = Part(u, x, y, z)
    <2>1. z \div kBlockM = m /\ x = b /\ y = h /\ u = s
      BY <1>5, CtaUnique
    <2> DEFINE r == z - m * kBlockM
    <2>2. r \in LiveRows(t) /\ m * kBlockM + r = z
      BY <2>1, TileRows
    <2> HIDE DEF r
    <2>3. at + r = Place(u, x, y, z) /\ r \in Nat /\ at \in Int
      BY <1>3, <2>1, <2>2
    <2>4. at + r \in DOMAIN g
      BY <1>1, <2>2
    <2>5. (at + r) - at = r
      BY <2>3
    <2>6. g[at + r] = Provenance(b, h, CuQ(b) + m * kBlockM + r, {s})
      BY <1>1, <2>4, <2>5 DEF RowsAt
    <2>7. CuQ(b) + m * kBlockM + r = CuQ(b) + z
      BY <1>2, <2>2, <2>3
    <2> QED
      BY <2>1, <2>2, <2>3, <2>4, <2>6, <2>7 DEF Part
  <1>6. ASSUME NEW u \in 0 .. launch.splits - 1, NEW x \in Seqs, NEW y \in KHeads, NEW z \in Live(x),
               Place(u, x, y, z) \in DOMAIN g
        PROVE  CtaOf(z \div kBlockM, u, x, y) = CtaOf(m, s, b, h)
    <2>1. PICK w \in Live(b) : Place(u, x, y, z) = Place(s, b, h, w)
                               /\ w \div kBlockM = m
      BY <1>4, <1>6
    <2>2. u = s /\ x = b /\ y = h /\ z = w
      BY <2>1, ScratchRows
    <2> QED
      BY <2>1, <2>2
  <1>7. ASSUME NEW u \in 0 .. launch.splits - 1, NEW x \in Seqs, NEW y \in KHeads, NEW z \in Live(x)
        PROVE  IF CtaOf(z \div kBlockM, u, x, y) = CtaOf(m, s, b, h)
               THEN /\ Place(u, x, y, z) \in DOMAIN g
                    /\ g[Place(u, x, y, z)] = Part(u, x, y, z)
               ELSE Place(u, x, y, z) \notin DOMAIN g
    BY <1>5, <1>6
  <1> QED
    BY <1>4, <1>7

(* What is known of a block of the running split-KV kernel.                *)
LEMMA BlockCoordinates ==
  ASSUME Fixed, phase = "attend", NEW cta \in waiting
  PROVE  /\ Running /\ cta \in Grid
         /\ Decode(cta).m \in Nat /\ Decode(cta).m * kBlockM \in 0 .. launch.seqlen_q - 1
         /\ Decode(cta).b \in Seqs /\ Decode(cta).h \in KHeads
         /\ Decode(cta).s \in 0 .. launch.splits - 1
         /\ cta = CtaOf(Decode(cta).m, Decode(cta).s, Decode(cta).b, Decode(cta).h)
  <1>1. Running /\ cta \in Grid
    BY DEF Running, Fixed
  <1>2. kBlockM \in Nat \ {0} /\ launch.seqlen_q \in Nat \ {0}
    BY <1>1, Shape, BlocksArePositive
  <1>3. CeilDiv(launch.seqlen_q, kBlockM) \in Int
    BY <1>2, CeilDivInt
  <1>4. Decode(cta).m \in 0 .. CeilDiv(launch.seqlen_q, kBlockM) - 1
    BY <1>1, DecodeInGrid
  <1> DEFINE m == Decode(cta).m
  <1>5. m \in Nat /\ m <= CeilDiv(launch.seqlen_q, kBlockM) - 1
    BY <1>3, <1>4
  <1> HIDE DEF m
  <1>6. m * kBlockM \in 0 .. launch.seqlen_q - 1
    <2>1. (CeilDiv(launch.seqlen_q, kBlockM) - 1) * kBlockM < launch.seqlen_q
      <3> DEFINE c == CeilDiv(launch.seqlen_q, kBlockM)
      <3>1. c \in Int /\ c > 0 /\ launch.seqlen_q \in Int
        BY <1>2, <1>3, <1>5
      <3>2. c * kBlockM <= launch.seqlen_q + kBlockM - 1
        BY <1>2, <3>1, CeilDivTight
      <3> HIDE DEF c
      <3>3. (c - 1) * kBlockM = c * kBlockM - kBlockM /\ c * kBlockM \in Int
        BY <1>2, <3>1
      <3>4. (c - 1) * kBlockM < launch.seqlen_q
        BY <1>2, <3>2, <3>3
      <3> QED
        BY <3>4 DEF c
    <2>2. m * kBlockM <= (CeilDiv(launch.seqlen_q, kBlockM) - 1) * kBlockM
      <3>1. m \in Int /\ CeilDiv(launch.seqlen_q, kBlockM) - 1 \in Int
        BY <1>3, <1>5
      <3> QED
        BY <1>2, <1>5, <3>1, MultiplesOrdered
    <2>3. m * kBlockM \in Nat /\ (CeilDiv(launch.seqlen_q, kBlockM) - 1) * kBlockM \in Int
      BY <1>2, <1>3, <1>5
    <2> QED
      BY <1>2, <2>1, <2>2, <2>3
  <1> QED
    BY <1>1, <1>5, <1>6, DecodeInGrid DEF m

(* Nothing but blank rows is overwritten by f in the change to g.          *)
Fills(f, g) == DOMAIN g = DOMAIN f /\ \A a \in DOMAIN f : g[a] = f[a] \/ f[a] = Blank

(* A CTA of a split launch leaves the partial results of its rows, in both *)
(* arrays, at places no other CTA writes.                                  *)
LEMMA RunSplitCta ==
  ASSUME Fixed, ScratchInv, ExactProducts, Split, NEW cta \in waiting, RunCta(cta)
  PROVE  ScratchInv' /\ Fills(lseAccum, lseAccum') /\ Fills(outAccum, outAccum')
  <1> DEFINE i == Decode(cta)
             t == TileOf(launch, i.m, LenQ(i.b), LenK(i.b))
             empty == BlockMin(t, i.s) >= BlockMax(t, i.s)
             lseAt == LseOffset(i.s, i.b, i.h, empty) + i.m * kBlockM
             outAt == AccumOffset(i.s, i.b, i.h) + i.m * kBlockM
             accAt == RowOffset(IF empty THEN "exit" ELSE "epilogue", outAt)
             g(at) == RowsAt(at, t, i.m, i.s, i.b, i.h)
             size == launch.splits * LseSize
  <1>1. phase = "attend"
    BY DEF RunCta
  <1>2. /\ Running /\ cta \in Grid /\ i.m \in Nat /\ i.m * kBlockM \in 0 .. launch.seqlen_q - 1
        /\ i.b \in Seqs /\ i.h \in KHeads /\ i.s \in 0 .. launch.splits - 1
        /\ cta = CtaOf(i.m, i.s, i.b, i.h)
    BY <1>1, BlockCoordinates
  <1>3. /\ lseAccum' = Write(lseAccum, g(lseAt)) /\ outAccum' = Write(outAccum, g(accAt))
        /\ waiting' = waiting \ {cta} /\ phase' = "attend"
        /\ UNCHANGED <<call, launch, meta, round>>
    BY <1>1 DEF RunCta, RowsAt
  <1>4. lseAt = outAt
    BY DEF LseOffset
  <1>5. accAt = outAt
    <2>1. i.s \in Nat /\ i.m * kBlockM \in Nat /\ launch.seqlen_q \in Nat
      BY <1>2, Shape
    <2>2. outAt = i.s * LseSize + Flat(i.b, i.h, i.m * kBlockM)
      BY <1>2, <2>1, AccumIsFlat
    <2>3. Flat(i.b, i.h, i.m * kBlockM) \in 0 .. LseSize - 1
      BY <1>2, FlatInRange
    <2>4. outAt \in 0 .. launch.splits * LseSize - 1
      <3>1. LseSize \in Nat \ {0} /\ launch.splits \in Nat
        BY <1>2, Shape, LseSizePositive
      <3>2. i.s * LseSize + Flat(i.b, i.h, i.m * kBlockM) \in 0 .. launch.splits * LseSize - 1
        BY <1>2, <2>3, <3>1, RadixBound
      <3> QED
        BY <2>2, <3>2
    <2> HIDE DEF outAt
    <2> QED
      BY <1>2, <2>4, ExactOffset DEF AddressProducts
  <1> DEFINE stores == g(outAt)
  <1>6. lseAccum' = Write(lseAccum, stores) /\ outAccum' = Write(outAccum, stores)
    BY <1>3, <1>4, <1>5
  <1> DEFINE at == outAt
  <1>14. /\ stores = RowsAt(at, t, i.m, i.s, i.b, i.h)
         /\ t = TileOf(launch, i.m, LenQ(i.b), LenK(i.b))
         /\ at = AccumOffset(i.s, i.b, i.h) + i.m * kBlockM
    OBVIOUS
  <1> HIDE DEF stores, i, t, empty, lseAt, outAt, accAt, g, at
  <1>7. /\ \A a \in DOMAIN stores : \E z \in Live(i.b) :
             a = Place(i.s, i.b, i.h, z) /\ z \div kBlockM = i.m
        /\ \A u \in 0 .. launch.splits - 1, x \in Seqs, y \in KHeads : \A z \in Live(x) :
             IF CtaOf(z \div kBlockM, u, x, y) = CtaOf(i.m, i.s, i.b, i.h)
             THEN /\ Place(u, x, y, z) \in DOMAIN stores
                  /\ stores[Place(u, x, y, z)] = Part(u, x, y, z)
             ELSE Place(u, x, y, z) \notin DOMAIN stores
    BY <1>2, <1>14, ScratchStores
  <1>8. /\ DOMAIN lseAccum = 0 .. size - 1 /\ DOMAIN outAccum = 0 .. size - 1
        /\ \A s \in 0 .. launch.splits - 1, b \in Seqs, h \in KHeads : \A r \in Live(b) :
             /\ lseAccum[Place(s, b, h, r)] =
                  IF CtaOf(r \div kBlockM, s, b, h) \in waiting
                  THEN Blank ELSE Part(s, b, h, r)
             /\ outAccum[Place(s, b, h, r)] = lseAccum[Place(s, b, h, r)]
    BY <1>1 DEF ScratchInv, ScratchRowInv
  <1>9. ASSUME NEW a \in DOMAIN stores PROVE a \in 0 .. size - 1 /\ lseAccum[a] = Blank /\ outAccum[a] = Blank
    <2>1. PICK z \in Live(i.b) : a = Place(i.s, i.b, i.h, z) /\ z \div kBlockM = i.m
      BY <1>7
    <2>2. a \in 0 .. size - 1
      BY <1>2, <2>1, ScratchRows
    <2>3. CtaOf(z \div kBlockM, i.s, i.b, i.h) \in waiting
      BY <1>2, <2>1
    <2> QED
      BY <1>2, <1>8, <2>1, <2>2, <2>3
  <1> HIDE DEF size
  <1>10. Fills(lseAccum, lseAccum') /\ Fills(outAccum, outAccum')
    <2>1. DOMAIN lseAccum' = DOMAIN lseAccum /\ DOMAIN outAccum' = DOMAIN outAccum
      <3>1. \A f : DOMAIN Write(f, stores) = DOMAIN f \cup DOMAIN stores
        BY WriteFacts
      <3>2. DOMAIN stores \subseteq 0 .. size - 1
        BY <1>9
      <3> QED
        BY <1>6, <1>8, <3>1, <3>2
    <2>2. ASSUME NEW a \in 0 .. size - 1
          PROVE  /\ lseAccum'[a] = lseAccum[a] \/ lseAccum[a] = Blank
                 /\ outAccum'[a] = outAccum[a] \/ outAccum[a] = Blank
      <3>1. CASE a \in DOMAIN stores
        BY <1>9, <3>1
      <3>2. CASE a \notin DOMAIN stores
        BY <1>6, <1>8, <3>2, WriteFacts
      <3> QED
        BY <3>1, <3>2
    <2> QED
      BY <1>8, <2>1, <2>2 DEF Fills
  <1>11. ASSUME NEW s \in 0 .. launch.splits - 1, NEW b \in Seqs, NEW h \in KHeads, NEW r \in Live(b)
         PROVE  /\ lseAccum'[Place(s, b, h, r)] =
                     IF CtaOf(r \div kBlockM, s, b, h) \in waiting'
                     THEN Blank ELSE Part(s, b, h, r)
                /\ outAccum'[Place(s, b, h, r)] = lseAccum'[Place(s, b, h, r)]
    <2> DEFINE a == Place(s, b, h, r)
    <2>1. a \in 0 .. size - 1
      BY <1>2, ScratchRows DEF size
    <2>2. CASE CtaOf(r \div kBlockM, s, b, h) = cta
      <3>1. a \in DOMAIN stores /\ stores[a] = Part(s, b, h, r)
        BY <1>2, <1>7, <2>2
      <3> HIDE DEF a
      <3>2. lseAccum'[a] = stores[a] /\ outAccum'[a] = stores[a]
        BY <1>6, <3>1, WriteFacts
      <3>3. CtaOf(r \div kBlockM, s, b, h) \notin waiting'
        BY <1>3, <2>2
      <3> QED
        BY <3>1, <3>2, <3>3 DEF a
    <2>3. CASE CtaOf(r \div kBlockM, s, b, h) # cta
      <3>1. a \notin DOMAIN stores
        BY <1>2, <1>7, <2>3
      <3> HIDE DEF a
      <3>2. lseAccum'[a] = lseAccum[a] /\ outAccum'[a] = outAccum[a]
        BY <1>6, <1>8, <2>1, <3>1, WriteFacts
      <3>3. CtaOf(r \div kBlockM, s, b, h) \in waiting' <=> CtaOf(r \div kBlockM, s, b, h) \in waiting
        BY <1>3, <2>3
      <3>4. /\ lseAccum[a] = IF CtaOf(r \div kBlockM, s, b, h) \in waiting
                             THEN Blank ELSE Part(s, b, h, r)
            /\ outAccum[a] = lseAccum[a]
        BY <1>8 DEF a
      <3> QED
        BY <3>2, <3>3, <3>4 DEF a
    <2> QED
      BY <2>2, <2>3
  <1>12. DOMAIN lseAccum' = 0 .. size - 1 /\ DOMAIN outAccum' = 0 .. size - 1
    BY <1>8, <1>10 DEF Fills
  <1>13. ScratchInv'
    <2>1. UNCHANGED <<call, launch, meta, round>> /\ phase' = "attend"
      BY <1>3
    <2>2. /\ LseSize' = LseSize /\ Seqs' = Seqs /\ KHeads' = KHeads
          /\ \A b : Live(b)' = Live(b)
          /\ \A s, b, h, r : Part(s, b, h, r)' = Part(s, b, h, r) /\ Place(s, b, h, r)' = Place(s, b, h, r)
          /\ \A m, s, b, h : CtaOf(m, s, b, h)' = CtaOf(m, s, b, h)
      BY <2>1, SamePlaces
    <2>3. ASSUME NEW s \in 0 .. launch.splits - 1, NEW b \in Seqs, NEW h \in KHeads, NEW r \in Live(b)
          PROVE  ScratchRowInv(s, b, h, r)'
      <3>1. /\ lseAccum'[Place(s, b, h, r)] =
                 IF CtaOf(r \div kBlockM, s, b, h) \in waiting' THEN Blank ELSE Part(s, b, h, r)
            /\ outAccum'[Place(s, b, h, r)] = lseAccum'[Place(s, b, h, r)]
        BY <1>11
      <3>2. Place(s, b, h, r)' = Place(s, b, h, r) /\ Part(s, b, h, r)' = Part(s, b, h, r)
            /\ CtaOf(r \div kBlockM, s, b, h)' = CtaOf(r \div kBlockM, s, b, h)
        BY <2>2
      <3> QED
        BY <2>1, <3>1, <3>2 DEF ScratchRowInv
    <2>4. /\ DOMAIN lseAccum' = 0 .. launch'.splits * LseSize' - 1
          /\ DOMAIN outAccum' = 0 .. launch'.splits * LseSize' - 1
      BY <1>12, <2>1, <2>2 DEF size
    <2> QED
      BY <2>1, <2>2, <2>3, <2>4 DEF ScratchInv
  <1> QED
    BY <1>10, <1>13

-----------------------------------------------------------------------------
(* Stores f and g, to the output and the LSE, of the final values of the   *)
(* rows in W and of nothing else.                                          *)
RowStores(f, g, W) ==
  /\ \A a \in DOMAIN f : \E b \in Seqs, h \in KHeads : \E r \in Live(b) :
       <<b, h, r>> \in W /\ a = OutPlace(b, h, r)
  /\ \A a \in DOMAIN g : \E b \in Seqs, h \in KHeads : \E r \in Live(b) :
       <<b, h, r>> \in W /\ a = LsePlace(b, h, r)
  /\ \A b \in Seqs, h \in KHeads : \A r \in Live(b) : <<b, h, r>> \in W =>
       /\ OutPlace(b, h, r) \in DOMAIN f /\ f[OutPlace(b, h, r)] = Final(b, h, r)
       /\ LsePlace(b, h, r) \in DOMAIN g /\ g[LsePlace(b, h, r)] = Final(b, h, r)

(* Only values of earlier rounds are overwritten in the change to g.       *)
Renews(f, g) == \A a \in DOMAIN f : g[a] = f[a] \/ Older(f[a])

(* Places of different rows are different, inside the tensors.             *)
LEMMA RowPlaces ==
  ASSUME Fixed, Running, NEW b \in Seqs, NEW h \in KHeads, NEW r \in Live(b)
  PROVE  /\ OutPlace(b, h, r) \in (0 .. launch.total_q - 1) \X (0 .. launch.h - 1)
         /\ LsePlace(b, h, r) \in 0 .. launch.h * launch.total_q - 1
         /\ \A row \in PaddingRows, y \in KHeads : OutPlace(b, h, r) # <<row, y>>
         /\ \A x \in Seqs, y \in KHeads : \A z \in Live(x) :
              OutPlace(b, h, r) = OutPlace(x, y, z) \/ LsePlace(b, h, r) = LsePlace(x, y, z)
                => b = x /\ h = y /\ r = z
  <1>1. CuQ(b) + r \in 0 .. launch.total_q - 1 /\ CuQ(b) + r \in 0 .. CuQ(launch.b) - 1
    BY LiveRowOfLaunch
  <1>2. OutPlace(b, h, r) \in (0 .. launch.total_q - 1) \X (0 .. launch.h - 1)
    BY <1>1 DEF OutPlace, KHeads
  <1>3. LsePlace(b, h, r) \in 0 .. launch.h * launch.total_q - 1
    BY <1>1, HeadRows DEF LsePlace
  <1>4. ASSUME NEW row \in PaddingRows, NEW y \in KHeads PROVE OutPlace(b, h, r) # <<row, y>>
    <2>1. CuQ(launch.b) \in Nat /\ launch.total_q \in Nat
      <3>1. launch.b \in 0 .. launch.b
        BY Shape
      <3> QED
        BY <3>1, Shape, Offsets
    <2>2. CuQ(b) + r # row
      BY <1>1, <2>1 DEF PaddingRows
    <2> QED
      BY <2>2 DEF OutPlace
  <1>5. ASSUME NEW x \in Seqs, NEW y \in KHeads, NEW z \in Live(x),
               OutPlace(b, h, r) = OutPlace(x, y, z) \/ LsePlace(b, h, r) = LsePlace(x, y, z)
        PROVE  b = x /\ h = y /\ r = z
    <2>1. CuQ(x) + z \in 0 .. launch.total_q - 1
      BY LiveRowOfLaunch
    <2>2. CASE OutPlace(b, h, r) = OutPlace(x, y, z)
      <3>1. CuQ(b) + r = CuQ(x) + z /\ h = y
        BY <2>2 DEF OutPlace
      <3> QED
        BY <3>1, RowUnique
    <2>3. CASE LsePlace(b, h, r) = LsePlace(x, y, z)
      <3>1. h * launch.total_q + (CuQ(b) + r) = y * launch.total_q + (CuQ(x) + z)
        BY <2>3 DEF LsePlace
      <3>2. CuQ(b) + r = CuQ(x) + z /\ h = y
        BY <1>1, <2>1, <3>1, HeadRows
      <3> QED
        BY <3>2, RowUnique
    <2> QED
      BY <1>5, <2>2, <2>3
  <1> QED
    BY <1>2, <1>3, <1>4, <1>5

(* A step of a kernel that completes the rows in W keeps the others.       *)
LEMMA StoredRows ==
  ASSUME Fixed, Running, KernelOutInv, phase \in {"attend", "combine", "unpack"}, phase' = phase,
         UNCHANGED <<call, launch, meta, round>>,
         NEW f, NEW g, NEW W, RowStores(f, g, W), kout' = Write(kout, f), klse' = Write(klse, g),
         \A b \in Seqs, h \in KHeads : \A r \in Live(b) :
           /\ <<b, h, r>> \in W => ~ Complete(b, h, r)
           /\ Complete(b, h, r)' <=> (Complete(b, h, r) \/ <<b, h, r>> \in W)
  PROVE  KernelOutInv' /\ Renews(kout, kout') /\ Renews(klse, klse')
  <1> DEFINE K == (0 .. launch.total_q - 1) \X (0 .. launch.h - 1)
             L == 0 .. launch.h * launch.total_q - 1
  <1>1. /\ DOMAIN kout = K /\ DOMAIN klse = L
        /\ \A b \in Seqs, h \in KHeads : \A r \in Live(b) : KernelRowInv(b, h, r)
        /\ \A row \in PaddingRows, h \in KHeads : PaddingInv(row, h)
    BY DEF KernelOutInv
  <1>2. ASSUME NEW a \in DOMAIN f
        PROVE  a \in K /\ Older(kout[a]) /\ \A row \in PaddingRows, y \in KHeads : a # <<row, y>>
    <2>1. PICK b \in Seqs, h \in KHeads : \E r \in Live(b) : <<b, h, r>> \in W /\ a = OutPlace(b, h, r)
      BY DEF RowStores
    <2>2. PICK r \in Live(b) : <<b, h, r>> \in W /\ a = OutPlace(b, h, r)
      BY <2>1
    <2>3. Older(kout[OutPlace(b, h, r)])
      BY <1>1, <2>2 DEF KernelRowInv
    <2> QED
      BY <2>2, <2>3, RowPlaces
  <1>3. ASSUME NEW a \in DOMAIN g PROVE a \in L /\ Older(klse[a])
    <2>1. PICK b \in Seqs, h \in KHeads : \E r \in Live(b) : <<b, h, r>> \in W /\ a = LsePlace(b, h, r)
      BY DEF RowStores
    <2>2. PICK r \in Live(b) : <<b, h, r>> \in W /\ a = LsePlace(b, h, r)
      BY <2>1
    <2>3. Older(klse[LsePlace(b, h, r)])
      BY <1>1, <2>2 DEF KernelRowInv
    <2> QED
      BY <2>2, <2>3, RowPlaces
  <1> HIDE DEF K, L
  <1>4. DOMAIN kout' = K /\ DOMAIN klse' = L
    <2>1. DOMAIN Write(kout, f) = DOMAIN kout \cup DOMAIN f
          /\ DOMAIN Write(klse, g) = DOMAIN klse \cup DOMAIN g
      BY WriteFacts
    <2> QED
      BY <1>1, <1>2, <1>3, <2>1
  <1>5. /\ \A a \in DOMAIN f : kout'[a] = f[a]
        /\ \A a \in K : a \notin DOMAIN f => kout'[a] = kout[a]
        /\ \A a \in DOMAIN g : klse'[a] = g[a]
        /\ \A a \in L : a \notin DOMAIN g => klse'[a] = klse[a]
    <2>1. /\ \A a \in DOMAIN f : Write(kout, f)[a] = f[a]
          /\ \A a \in DOMAIN kout : a \notin DOMAIN f => Write(kout, f)[a] = kout[a]
      BY WriteFacts
    <2>2. /\ \A a \in DOMAIN g : Write(klse, g)[a] = g[a]
          /\ \A a \in DOMAIN klse : a \notin DOMAIN g => Write(klse, g)[a] = klse[a]
      BY WriteFacts
    <2> QED
      BY <1>1, <2>1, <2>2
  <1>6. Renews(kout, kout') /\ Renews(klse, klse')
    BY <1>1, <1>2, <1>3, <1>5 DEF Renews
  <1>7. ASSUME NEW b \in Seqs, NEW h \in KHeads, NEW r \in Live(b)
        PROVE  KernelRowInv(b, h, r)'
    <2> DEFINE o == OutPlace(b, h, r)
               l == LsePlace(b, h, r)
    <2>1. o \in K /\ l \in L
      BY RowPlaces DEF K, L
    <2>2. /\ OutPlace(b, h, r)' = o /\ LsePlace(b, h, r)' = l /\ Final(b, h, r)' = Final(b, h, r)
          /\ \A v : Older(v)' <=> Older(v)
      BY SamePlaces
    <2>3. /\ <<b, h, r>> \in W => ~ Complete(b, h, r)
          /\ Complete(b, h, r)' <=> (Complete(b, h, r) \/ <<b, h, r>> \in W)
      OBVIOUS
    <2>4. CASE <<b, h, r>> \in W
      <3>1. o \in DOMAIN f /\ f[o] = Final(b, h, r) /\ l \in DOMAIN g /\ g[l] = Final(b, h, r)
        BY <2>4 DEF RowStores
      <3>2. kout'[o] = Final(b, h, r) /\ klse'[l] = Final(b, h, r)
        BY <1>5, <3>1
      <3> QED
        BY <2>2, <2>3, <2>4, <3>2 DEF KernelRowInv
    <2>5. CASE <<b, h, r>> \notin W
      <3>1. o \notin DOMAIN f
        <4> SUFFICES ASSUME o \in DOMAIN f PROVE FALSE
          OBVIOUS
        <4>1. PICK x \in Seqs, y \in KHeads : \E z \in Live(x) : <<x, y, z>> \in W /\ o = OutPlace(x, y, z)
          BY DEF RowStores
        <4>2. PICK z \in Live(x) : <<x, y, z>> \in W /\ o = OutPlace(x, y, z)
          BY <4>1
        <4> QED
          BY <2>5, <4>2, RowPlaces
      <3>2. l \notin DOMAIN g
        <4> SUFFICES ASSUME l \in DOMAIN g PROVE FALSE
          OBVIOUS
        <4>1. PICK x \in Seqs, y \in KHeads : \E z \in Live(x) : <<x, y, z>> \in W /\ l = LsePlace(x, y, z)
          BY DEF RowStores
        <4>2. PICK z \in Live(x) : <<x, y, z>> \in W /\ l = LsePlace(x, y, z)
          BY <4>1
        <4> QED
          BY <2>5, <4>2, RowPlaces
      <3>3. kout'[o] = kout[o] /\ klse'[l] = klse[l]
        BY <1>5, <2>1, <3>1, <3>2
      <3>4. KernelRowInv(b, h, r)
        BY <1>1
      <3> HIDE DEF o, l
      <3>5. IF Complete(b, h, r) THEN kout[o] = Final(b, h, r) /\ klse[l] = Final(b, h, r)
            ELSE Older(kout[o]) /\ Older(klse[l])
        BY <3>4 DEF KernelRowInv, o, l
      <3>6. IF Complete(b, h, r)' THEN kout'[o] = Final(b, h, r) /\ klse'[l] = Final(b, h, r)
            ELSE Older(kout'[o]) /\ Older(klse'[l])
        BY <2>3, <2>5, <3>3, <3>5
      <3> QED
        BY <2>2, <3>6 DEF KernelRowInv
    <2> QED
      BY <2>4, <2>5
  <1>8. ASSUME NEW row \in PaddingRows, NEW h \in KHeads PROVE PaddingInv(row, h)'
    <2>1. <<row, h>> \notin DOMAIN f
      BY <1>2
    <2>2. <<row, h>> \in K
      <3>1. CuQ(launch.b) \in Nat /\ launch.total_q \in Nat
        <4>1. launch.b \in 0 .. launch.b
          BY Shape
        <4> QED
          BY <4>1, Shape, Offsets
      <3> QED
        BY <3>1 DEF K, KHeads, PaddingRows
    <2>3. kout'[<<row, h>>] = kout[<<row, h>>]
      BY <1>5, <2>1, <2>2
    <2>4. View' = View /\ \A v : Older(v)' <=> Older(v)
      BY SamePlaces
    <2>5. PaddingInv(row, h)
      BY <1>1
    <2> QED
      BY <2>3, <2>4, <2>5 DEF PaddingInv
  <1>9. /\ Seqs' = Seqs /\ KHeads' = KHeads /\ PaddingRows' = PaddingRows /\ \A b : Live(b)' = Live(b)
        /\ launch' = launch
    BY SamePlaces
  <1>10. KernelOutInv'
    BY <1>4, <1>7, <1>8, <1>9 DEF KernelOutInv, K, L
  <1> QED
    BY <1>6, <1>10

(* The final value of a row needs no second split when there is none.      *)
LEMMA OneSplit ==
  ASSUME Fixed, Running, ~ Split
  PROVE  \A b, h, r : Part(0, b, h, r) = Final(b, h, r)
  <1>1. launch.splits = 1
    BY Shape DEF Split
  <1>2. 0 .. launch.splits - 1 = {0}
    BY <1>1
  <1> QED
    BY <1>2 DEF Part, Final

(* No launch without splits meets a row block that sees no key block.      *)
NoEmptyTiles == \A c \in Calls : Accepted(c) => \A m \in Metadata(c) : NoEmptyTile(c, m)

(* Without splits a row block with a query has a key block.                *)
LEMMA LiveTileIsNotEmpty ==
  ASSUME Fixed, Running, ~ Split, NoEmptyTiles, NEW b \in Seqs,
         NEW m \in Nat, m * kBlockM \in 0 .. launch.seqlen_q - 1,
         NEW t, t = TileOf(launch, m, LenQ(b), LenK(b)), LiveRows(t) # {}
  PROVE  ~ (BlockMin(t, 0) >= BlockMax(t, 0))
  <1>1. NoEmptyTile(call, meta) /\ launch = Launch(call) /\ Accepted(call)
    BY DEF Fixed, NoEmptyTiles
  <1>2. /\ launch.b = call.batch /\ launch.b \in Nat /\ launch.groups \in Nat \ {0}
        /\ launch.seqlen_q \in Nat /\ launch.splits \in Nat
    BY Shape
  <1>3. b + 1 \in 1 .. call.batch /\ b + 1 + 1 = b + 2
    BY <1>2 DEF Seqs
  <1>4. launch.groups * (meta.cu_q[b + 1 + 1] - meta.cu_q[b + 1]) = LenQ(b)
    <2>1. meta.cu_q[b + 1] \in Nat /\ meta.cu_q[b + 2] \in Nat
      <3>1. b \in 0 .. launch.b /\ b + 1 \in 0 .. launch.b
        BY <1>2 DEF Seqs
      <3> QED
        BY <1>3, <3>1, Offsets
    <2> DEFINE n == meta.cu_q[b + 2] - meta.cu_q[b + 1]
    <2>2. n \in Int /\ LenQ(b) = n * launch.groups
      BY <2>1, Lengths
    <2> HIDE DEF n
    <2>3. launch.groups * n = n * launch.groups
      BY <1>2, <2>2
    <2> QED
      BY <1>3, <2>2, <2>3 DEF n
  <1>5. m * kBlockM < LenQ(b) /\ m \in 0 .. launch.seqlen_q
    <2>1. PICK r \in LiveRows(t) : TRUE
      OBVIOUS
    <2>2. r \in Nat /\ m * kBlockM + r \in Live(b) /\ LenQ(b) \in Nat /\ kBlockM \in Nat \ {0}
      BY <1>2, <2>1, TileRows, Lengths, BlocksArePositive
    <2>3. m * kBlockM + r < LenQ(b) /\ m * kBlockM \in Nat
      BY <2>2 DEF Live
    <2>4. m <= m * kBlockM
      <3>1. 1 <= kBlockM /\ kBlockM \in Int
        BY <2>2
      <3>2. 1 * m <= kBlockM * m
        BY <3>1, MultiplesOrdered
      <3>3. kBlockM * m = m * kBlockM
        BY <3>1
      <3> QED
        BY <3>2, <3>3
    <2> QED
      BY <1>2, <2>2, <2>3, <2>4
  <1> DEFINE q == launch.groups * (meta.cu_q[b + 1 + 1] - meta.cu_q[b + 1])
             u == TileOf(launch, m, q, meta.seq_k[b + 1])
  <1>6. ~ (launch.splits > 1)
    BY DEF Split
  <1>7. m * kBlockM < q => BlockMin(u, 0) < BlockMax(u, 0)
    BY <1>1, <1>3, <1>5, <1>6 DEF NoEmptyTile
  <1>8. u = t
    BY <1>4 DEF LenK
  <1> HIDE DEF u, q
  <1>9. BlockMin(t, 0) < BlockMax(t, 0)
    BY <1>4, <1>5, <1>7, <1>8 DEF q
  <1>10. BlockMin(t, 0) \in Int /\ BlockMax(t, 0) \in Int
    <2>1. t \in ValidTiles /\ 0 \in Nat
      BY TileIsValid
    <2> QED
      BY <2>1, GeometryTypes
  <1> QED
    BY <1>9, <1>10

(* The rows of a block, as triples; what a CTA of a launch without splits  *)
(* stores are their final values.                                          *)
RowsOfBlock(m, b, h) == { <<b, h, r>> : r \in { z \in Live(b) : z \div kBlockM = m } }

(* The rows of a CTA are those of its row block, sequence and head.        *)
LEMMA BlockRows ==
  ASSUME NEW m, NEW b, NEW h, NEW x, NEW y, NEW z \in Live(x)
  PROVE  <<x, y, z>> \in RowsOfBlock(m, b, h) <=> (x = b /\ y = h /\ z \div kBlockM = m)
  BY DEF RowsOfBlock

(* What a CTA stores when the launch is not split.                         *)
LEMMA UnsplitStores ==
  ASSUME Fixed, Running, ~ Split, NEW m \in Nat, NEW b \in Seqs, NEW h \in KHeads,
         NEW t, t = TileOf(launch, m, LenQ(b), LenK(b)), NEW at,
         LiveRows(t) # {} => at = h * launch.total_q + CuQ(b) + m * kBlockM,
         NEW g, g = RowsAt(at, t, m, 0, b, h),
         NEW f, f = [a \in { <<CuQ(b) + m * kBlockM + r, h>> : r \in LiveRows(t) } |->
                       Provenance(b, h, CuQ(b) + m * kBlockM + (a[1] - (CuQ(b) + m * kBlockM + 0)), {0})]
  PROVE  RowStores(f, g, RowsOfBlock(m, b, h))
  <1>1. /\ DOMAIN g = { at + r : r \in LiveRows(t) }
        /\ DOMAIN f = { <<CuQ(b) + m * kBlockM + r, h>> : r \in LiveRows(t) }
    BY DEF RowsAt
  <1>2. /\ m * kBlockM \in Nat /\ CuQ(b) \in Nat /\ launch.total_q \in Nat /\ h \in Nat
        /\ h * launch.total_q \in Nat
    <2>1. m * kBlockM \in Nat /\ CuQ(b) \in Nat /\ launch.total_q \in Nat /\ h \in Nat
      BY BlocksArePositive, Lengths, Shape DEF KHeads
    <2> QED
      BY <2>1
  <1> DEFINE w(r) == m * kBlockM + r
  <1>3. ASSUME NEW r \in LiveRows(t)
        PROVE  /\ r \in Nat /\ w(r) \in Live(b) /\ <<b, h, w(r)>> \in RowsOfBlock(m, b, h) /\ at \in Int
               /\ at + r = LsePlace(b, h, w(r)) /\ <<CuQ(b) + m * kBlockM + r, h>> = OutPlace(b, h, w(r))
    <2>1. r \in Nat /\ w(r) \in Live(b) /\ w(r) \div kBlockM = m
      BY TileRows
    <2>2. at = h * launch.total_q + CuQ(b) + m * kBlockM
      BY <1>3
    <2>3. CuQ(b) + w(r) = CuQ(b) + m * kBlockM + r
      BY <1>2, <2>1
    <2>4. at \in Int /\ at + r = h * launch.total_q + (CuQ(b) + w(r))
      BY <1>2, <2>1, <2>2
    <2>5. <<b, h, w(r)>> \in RowsOfBlock(m, b, h)
      BY <2>1, BlockRows
    <2> QED
      BY <2>1, <2>3, <2>4, <2>5 DEF LsePlace, OutPlace
  <1>4. ASSUME NEW a \in DOMAIN f
        PROVE  \E x \in Seqs, y \in KHeads : \E z \in Live(x) :
                 <<x, y, z>> \in RowsOfBlock(m, b, h) /\ a = OutPlace(x, y, z)
    <2>1. PICK r \in LiveRows(t) : a = <<CuQ(b) + m * kBlockM + r, h>>
      BY <1>1
    <2> QED
      BY <1>3, <2>1
  <1>5. ASSUME NEW a \in DOMAIN g
        PROVE  \E x \in Seqs, y \in KHeads : \E z \in Live(x) :
                 <<x, y, z>> \in RowsOfBlock(m, b, h) /\ a = LsePlace(x, y, z)
    <2>1. PICK r \in LiveRows(t) : a = at + r
      BY <1>1
    <2> QED
      BY <1>3, <2>1
  <1>6. ASSUME NEW x \in Seqs, NEW y \in KHeads, NEW z \in Live(x), <<x, y, z>> \in RowsOfBlock(m, b, h)
        PROVE  /\ OutPlace(x, y, z) \in DOMAIN f /\ f[OutPlace(x, y, z)] = Final(x, y, z)
               /\ LsePlace(x, y, z) \in DOMAIN g /\ g[LsePlace(x, y, z)] = Final(x, y, z)
    <2>1. x = b /\ y = h /\ z \div kBlockM = m
      BY <1>6, BlockRows
    <2> DEFINE r == z - m * kBlockM
    <2>2. r \in LiveRows(t) /\ m * kBlockM + r = z
      BY <2>1, TileRows
    <2> HIDE DEF r
    <2>3. /\ w(r) = z /\ r \in Nat /\ at \in Int /\ at + r = LsePlace(x, y, z)
          /\ <<CuQ(b) + m * kBlockM + r, h>> = OutPlace(x, y, z)
      BY <1>3, <2>1, <2>2
    <2>4. CuQ(b) + m * kBlockM + r = CuQ(b) + z
      BY <1>2, <2>2, <2>3
    <2>5. Provenance(b, h, CuQ(b) + m * kBlockM + r, {0}) = Final(x, y, z)
      BY <2>1, <2>4, OneSplit DEF Part
    <2>6. at + r \in DOMAIN g /\ g[at + r] = Provenance(b, h, CuQ(b) + m * kBlockM + r, {0})
      <3>1. at + r \in DOMAIN g /\ (at + r) - at = r
        BY <1>1, <2>2, <2>3
      <3> QED
        BY <1>1, <3>1 DEF RowsAt
    <2>7. /\ OutPlace(x, y, z) \in DOMAIN f
          /\ f[OutPlace(x, y, z)] = Provenance(b, h, CuQ(b) + m * kBlockM + r, {0})
      <3> DEFINE a == <<CuQ(b) + m * kBlockM + r, h>>
      <3>1. a \in DOMAIN f
        BY <1>1, <2>2
      <3>2. a[1] - (CuQ(b) + m * kBlockM + 0) = r
        BY <1>2, <2>3
      <3> HIDE DEF a
      <3>3. f[a] = Provenance(b, h, CuQ(b) + m * kBlockM + r, {0})
        BY <1>1, <3>1, <3>2
      <3> QED
        BY <2>3, <3>1, <3>3 DEF a
    <2> QED
      BY <2>3, <2>5, <2>6, <2>7
  <1> QED
    BY <1>4, <1>5, <1>6 DEF RowStores

(* A CTA of a launch without splits completes the rows of its block.       *)
LEMMA RunUnsplitCta ==
  ASSUME Fixed, KernelOutInv, NoEmptyTiles, ~ Split, NEW cta \in waiting, RunCta(cta)
  PROVE  KernelOutInv' /\ Renews(kout, kout') /\ Renews(klse, klse')
  <1> DEFINE i == Decode(cta)
             t == TileOf(launch, i.m, LenQ(i.b), LenK(i.b))
             empty == BlockMin(t, i.s) >= BlockMax(t, i.s)
             at == LseOffset(i.s, i.b, i.h, empty) + i.m * kBlockM
             g == RowsAt(at, t, i.m, i.s, i.b, i.h)
             f == [a \in { <<CuQ(i.b) + i.m * kBlockM + r, i.h>> : r \in LiveRows(t) } |->
                     Provenance(i.b, i.h,
                       CuQ(i.b) + i.m * kBlockM + (a[1] - (CuQ(i.b) + i.m * kBlockM + 0)), {i.s})]
             W == RowsOfBlock(i.m, i.b, i.h)
  <1>1. phase = "attend"
    BY DEF RunCta
  <1>2. /\ Running /\ cta \in Grid /\ i.m \in Nat /\ i.m * kBlockM \in 0 .. launch.seqlen_q - 1
        /\ i.b \in Seqs /\ i.h \in KHeads /\ i.s \in 0 .. launch.splits - 1
        /\ cta = CtaOf(i.m, i.s, i.b, i.h)
    BY <1>1, BlockCoordinates
  <1>3. /\ kout' = Write(kout, f) /\ klse' = Write(klse, g)
        /\ waiting' = waiting \ {cta} /\ phase' = "attend"
        /\ UNCHANGED <<call, launch, meta, round>>
    BY <1>1 DEF RunCta, RowsAt
  <1>4. i.s = 0
    <2>1. launch.splits = 1
      BY <1>2, Shape DEF Split
    <2> QED
      BY <1>2, <2>1
  <1>5. LiveRows(t) # {} => at = i.h * launch.total_q + CuQ(i.b) + i.m * kBlockM
    <2>1. ASSUME LiveRows(t) # {} PROVE ~ empty
      <3> HIDE DEF i
      <3> QED
        BY <1>2, <1>4, <2>1, LiveTileIsNotEmpty
    <2> QED
      BY <2>1 DEF LseOffset
  <1>6. /\ t = TileOf(launch, i.m, LenQ(i.b), LenK(i.b))
        /\ g = RowsAt(at, t, i.m, 0, i.b, i.h)
        /\ f = [a \in { <<CuQ(i.b) + i.m * kBlockM + r, i.h>> : r \in LiveRows(t) } |->
                  Provenance(i.b, i.h,
                    CuQ(i.b) + i.m * kBlockM + (a[1] - (CuQ(i.b) + i.m * kBlockM + 0)), {0})]
    BY <1>4
  <1> HIDE DEF i, t, empty, at, g, f
  <1>7. RowStores(f, g, W)
    BY <1>2, <1>5, <1>6, UnsplitStores
  <1>8. ASSUME NEW b \in Seqs, NEW h \in KHeads, NEW r \in Live(b)
        PROVE  /\ <<b, h, r>> \in W => ~ Complete(b, h, r)
               /\ Complete(b, h, r)' <=> (Complete(b, h, r) \/ <<b, h, r>> \in W)
    <2> DEFINE c == CtaOf(r \div kBlockM, 0, b, h)
    <2>1. <<b, h, r>> \in W <=> c = cta
      <3>1. c = cta => b = i.b /\ h = i.h /\ r \div kBlockM = i.m
        BY <1>2, CtaUnique
      <3>2. <<b, h, r>> \in W <=> b = i.b /\ h = i.h /\ r \div kBlockM = i.m
        BY BlockRows
      <3> QED
        BY <1>2, <1>4, <3>1, <3>2
    <2>2. Complete(b, h, r) <=> c \notin waiting
      BY <1>1 DEF Complete
    <2>3. Complete(b, h, r)' <=> c \notin waiting'
      <3>1. c' = c /\ Split' = Split
        BY <1>3, SamePlaces
      <3> HIDE DEF c
      <3>2. Complete(b, h, r)' <=> c' \notin waiting'
        BY <1>3, <3>1 DEF Complete, c
      <3> QED
        BY <3>1, <3>2
    <2> HIDE DEF c
    <2> QED
      BY <1>3, <2>1, <2>2, <2>3
  <1> HIDE DEF W
  <1>9. phase \in {"attend", "combine", "unpack"} /\ phase' = phase
    BY <1>1, <1>3
  <1> QED
    BY <1>2, <1>3, <1>7, <1>8, <1>9, StoredRows

-----------------------------------------------------------------------------
(* The rows of a block of the combine kernel, as triples.                  *)
RowsOfCombine(block) ==
  { w \in Seqs \X KHeads \X (0 .. launch.seqlen_q - 1) : Flat(w[1], w[2], w[3]) \div CombineRows = block }

(* The flat rows a block of the combine kernel merges, and the row of each. *)
FlatRows(block) ==
  { i \in block * CombineRows .. block * CombineRows + CombineRows - 1 :
      i < LseSize /\ CombineTarget(i).live }

(* The flat rows a combine block stores are its packed rows.               *)
LEMMA FlatRowsOfBlock ==
  ASSUME Fixed, Running, NEW block \in Nat
  PROVE  /\ \A i \in FlatRows(block) : \E b \in Seqs, h \in KHeads : \E r \in Live(b) :
              /\ i = Flat(b, h, r) /\ <<b, h, r>> \in RowsOfCombine(block)
              /\ <<CombineTarget(i).row, CombineTarget(i).h>> = OutPlace(b, h, r)
              /\ CombineTarget(i).h * launch.total_q + CombineTarget(i).row = LsePlace(b, h, r)
         /\ \A b \in Seqs, h \in KHeads : \A r \in Live(b) :
              /\ Flat(b, h, r) \in Nat
              /\ <<b, h, r>> \in RowsOfCombine(block) <=> Flat(b, h, r) \div CombineRows = block
              /\ <<b, h, r>> \in RowsOfCombine(block) =>
                   /\ Flat(b, h, r) \in FlatRows(block)
                   /\ <<CombineTarget(Flat(b, h, r)).row, CombineTarget(Flat(b, h, r)).h>> = OutPlace(b, h, r)
                   /\ CombineTarget(Flat(b, h, r)).h * launch.total_q + CombineTarget(Flat(b, h, r)).row
                        = LsePlace(b, h, r)
  <1>1. CombineRows \in Nat \ {0} /\ CombineRows = 4 /\ block * CombineRows \in Nat /\ LseSize \in Nat \ {0}
    BY LseSizePositive DEF CombineRows
  <1>2. ASSUME NEW b \in Seqs, NEW r \in Live(b) PROVE r \in 0 .. launch.seqlen_q - 1 /\ r < LenQ(b)
    <2>1. LenQ(b) \in 0 .. launch.seqlen_q /\ launch.seqlen_q \in Nat
      BY Shape, Lengths
    <2> QED
      BY <2>1 DEF Live
  <1>3. ASSUME NEW b \in Seqs, NEW h \in KHeads, NEW r \in Live(b)
        PROVE  /\ Flat(b, h, r) \in 0 .. LseSize - 1 /\ CombineTarget(Flat(b, h, r)).live
               /\ <<CombineTarget(Flat(b, h, r)).row, CombineTarget(Flat(b, h, r)).h>> = OutPlace(b, h, r)
               /\ CombineTarget(Flat(b, h, r)).h * launch.total_q + CombineTarget(Flat(b, h, r)).row
                    = LsePlace(b, h, r)
    <2>1. Flat(b, h, r) \in 0 .. LseSize - 1
      BY <1>2, FlatInRange
    <2>2. /\ CombineTarget(Flat(b, h, r)).live <=> r < LenQ(b)
          /\ CombineTarget(Flat(b, h, r)).row = CuQ(b) + r /\ CombineTarget(Flat(b, h, r)).h = h
      BY <1>2, CombineFindsRow
    <2>3. r < LenQ(b)
      BY <1>2
    <2> QED
      BY <2>1, <2>2, <2>3 DEF OutPlace, LsePlace
  <1>4. ASSUME NEW b \in Seqs, NEW h \in KHeads, NEW r \in Live(b)
        PROVE  <<b, h, r>> \in RowsOfCombine(block) <=> Flat(b, h, r) \div CombineRows = block
    <2>1. <<b, h, r>> \in Seqs \X KHeads \X (0 .. launch.seqlen_q - 1)
      BY <1>2
    <2> QED
      BY <2>1 DEF RowsOfCombine
  <1>5. ASSUME NEW i \in Nat
        PROVE  i \in block * CombineRows .. block * CombineRows + CombineRows - 1 <=> i \div CombineRows = block
    BY DEF CombineRows
  <1>6. ASSUME NEW i \in FlatRows(block)
        PROVE  \E b \in Seqs, h \in KHeads : \E r \in Live(b) :
                 /\ i = Flat(b, h, r) /\ <<b, h, r>> \in RowsOfCombine(block)
                 /\ <<CombineTarget(i).row, CombineTarget(i).h>> = OutPlace(b, h, r)
                 /\ CombineTarget(i).h * launch.total_q + CombineTarget(i).row = LsePlace(b, h, r)
    <2>1. i \in block * CombineRows .. block * CombineRows + CombineRows - 1 /\ i < LseSize
          /\ CombineTarget(i).live
      BY DEF FlatRows
    <2>2. i \in 0 .. LseSize - 1
      BY <1>1, <2>1
    <2>3. PICK b \in Seqs, h \in KHeads, r \in 0 .. launch.seqlen_q - 1 : i = Flat(b, h, r)
      BY <2>2, FlatDigits
    <2>4. r \in Live(b)
      <3>1. CombineTarget(i).live <=> r < LenQ(b)
        BY <2>3, CombineFindsRow
      <3>2. r < LenQ(b) /\ LenQ(b) \in Nat /\ launch.seqlen_q \in Nat
        BY <2>1, <3>1, Lengths, Shape
      <3> QED
        BY <3>2 DEF Live
    <2>5. i \div CombineRows = block
      BY <1>5, <2>1, <2>2
    <2>6. <<b, h, r>> \in RowsOfCombine(block)
      BY <1>4, <2>3, <2>4, <2>5
    <2> QED
      BY <1>3, <2>3, <2>4, <2>6
  <1>7. ASSUME NEW b \in Seqs, NEW h \in KHeads, NEW r \in Live(b), <<b, h, r>> \in RowsOfCombine(block)
        PROVE  Flat(b, h, r) \in FlatRows(block)
    <2> DEFINE i == Flat(b, h, r)
    <2>1. i \in 0 .. LseSize - 1 /\ CombineTarget(i).live /\ i \div CombineRows = block
      BY <1>3, <1>4, <1>7
    <2> HIDE DEF i
    <2>2. i \in Nat /\ i < LseSize
      BY <1>1, <2>1
    <2>3. i \in block * CombineRows .. block * CombineRows + CombineRows - 1
      BY <1>5, <2>1, <2>2
    <2>4. i \in FlatRows(block)
      BY <2>1, <2>2, <2>3 DEF FlatRows
    <2> QED
      BY <2>4 DEF i
  <1>8. ASSUME NEW b \in Seqs, NEW h \in KHeads, NEW r \in Live(b) PROVE Flat(b, h, r) \in Nat
    BY <1>1, <1>3
  <1> QED
    BY <1>3, <1>4, <1>6, <1>7, <1>8

(* A block of the combine kernel merges the parts of its rows.             *)
LEMMA RunCombineBlock ==
  ASSUME Fixed, ScratchInv, KernelOutInv, ExactProducts, NEW block \in waiting, RunCombine(block)
  PROVE  KernelOutInv' /\ Renews(kout, kout') /\ Renews(klse, klse')
  <1> DEFINE flat == FlatRows(block)
             outAt(i) == <<CombineTarget(i).row, CombineTarget(i).h>>
             lseAt(i) == CombineTarget(i).h * launch.total_q + CombineTarget(i).row
             f == [a \in { outAt(i) : i \in flat } |-> Merged(CHOOSE i \in flat : outAt(i) = a)]
             g == [a \in { lseAt(i) : i \in flat } |-> MergedLse(CHOOSE i \in flat : lseAt(i) = a)]
             W == RowsOfCombine(block)
  <1>1. phase = "combine"
    BY DEF RunCombine
  <1>2. Running /\ block \in Nat
    BY <1>1 DEF Running, Fixed
  <1>3. /\ kout' = Write(kout, f) /\ klse' = Write(klse, g)
        /\ waiting' = waiting \ {block} /\ phase' = "combine"
        /\ UNCHANGED <<call, launch, meta, round>>
    BY <1>1 DEF RunCombine, FlatRows
  <1>4. ASSUME NEW i \in flat
        PROVE  \E b \in Seqs, h \in KHeads : \E r \in Live(b) :
                 /\ i = Flat(b, h, r) /\ <<b, h, r>> \in W
                 /\ outAt(i) = OutPlace(b, h, r) /\ lseAt(i) = LsePlace(b, h, r)
    BY <1>2, FlatRowsOfBlock
  <1>12. ASSUME NEW b \in Seqs, NEW h \in KHeads, NEW r \in Live(b)
         PROVE  /\ <<b, h, r>> \in W <=> Flat(b, h, r) \div CombineRows = block
                /\ <<b, h, r>> \in W =>
                     /\ Flat(b, h, r) \in flat
                     /\ outAt(Flat(b, h, r)) = OutPlace(b, h, r)
                     /\ lseAt(Flat(b, h, r)) = LsePlace(b, h, r)
    BY <1>2, FlatRowsOfBlock
  <1> HIDE DEF flat, outAt, lseAt, W
  <1>5. ASSUME NEW i \in flat, NEW j \in flat, outAt(i) = outAt(j) \/ lseAt(i) = lseAt(j) PROVE i = j
    <2>1. PICK b \in Seqs, h \in KHeads : \E r \in Live(b) :
             i = Flat(b, h, r) /\ outAt(i) = OutPlace(b, h, r) /\ lseAt(i) = LsePlace(b, h, r)
      BY <1>4
    <2>2. PICK r \in Live(b) :
             i = Flat(b, h, r) /\ outAt(i) = OutPlace(b, h, r) /\ lseAt(i) = LsePlace(b, h, r)
      BY <2>1
    <2>3. PICK x \in Seqs, y \in KHeads : \E z \in Live(x) :
             j = Flat(x, y, z) /\ outAt(j) = OutPlace(x, y, z) /\ lseAt(j) = LsePlace(x, y, z)
      BY <1>4
    <2>4. PICK z \in Live(x) :
             j = Flat(x, y, z) /\ outAt(j) = OutPlace(x, y, z) /\ lseAt(j) = LsePlace(x, y, z)
      BY <2>3
    <2>5. b = x /\ h = y /\ r = z
      BY <1>2, <1>5, <2>2, <2>4, RowPlaces
    <2> QED
      BY <2>2, <2>4, <2>5
  <1>6. ASSUME NEW b \in Seqs, NEW h \in KHeads, NEW r \in Live(b), <<b, h, r>> \in W
        PROVE  /\ OutPlace(b, h, r) \in DOMAIN f /\ f[OutPlace(b, h, r)] = Final(b, h, r)
               /\ LsePlace(b, h, r) \in DOMAIN g /\ g[LsePlace(b, h, r)] = Final(b, h, r)
    <2> DEFINE n == Flat(b, h, r)
               o == OutPlace(b, h, r)
               l == LsePlace(b, h, r)
    <2>1. n \in flat /\ outAt(n) = o /\ lseAt(n) = l
      BY <1>6, <1>12
    <2>2. Merged(n) = Final(b, h, r) /\ MergedLse(n) = Final(b, h, r)
      BY <1>1, MergedRow
    <2> HIDE DEF n, o, l
    <2>3. (CHOOSE i \in flat : outAt(i) = o) = n
      BY <1>5, <2>1
    <2>4. (CHOOSE i \in flat : lseAt(i) = l) = n
      BY <1>5, <2>1
    <2>5. o \in DOMAIN f /\ l \in DOMAIN g
      BY <2>1
    <2>6. f[o] = Merged(n) /\ g[l] = MergedLse(n)
      BY <2>3, <2>4, <2>5
    <2> QED
      BY <2>2, <2>5, <2>6 DEF o, l
  <1>7. ASSUME NEW a \in DOMAIN f
        PROVE  \E b \in Seqs, h \in KHeads : \E r \in Live(b) : <<b, h, r>> \in W /\ a = OutPlace(b, h, r)
    <2>1. PICK i \in flat : a = outAt(i)
      OBVIOUS
    <2> QED
      BY <1>4, <2>1
  <1>8. ASSUME NEW a \in DOMAIN g
        PROVE  \E b \in Seqs, h \in KHeads : \E r \in Live(b) : <<b, h, r>> \in W /\ a = LsePlace(b, h, r)
    <2>1. PICK i \in flat : a = lseAt(i)
      OBVIOUS
    <2> QED
      BY <1>4, <2>1
  <1> HIDE DEF f, g
  <1>9. RowStores(f, g, W)
    BY <1>6, <1>7, <1>8 DEF RowStores
  <1>10. ASSUME NEW b \in Seqs, NEW h \in KHeads, NEW r \in Live(b)
         PROVE  /\ <<b, h, r>> \in W => ~ Complete(b, h, r)
                /\ Complete(b, h, r)' <=> (Complete(b, h, r) \/ <<b, h, r>> \in W)
    <2> DEFINE c == Flat(b, h, r) \div CombineRows
    <2>1. <<b, h, r>> \in W <=> c = block
      BY <1>12
    <2>2. Complete(b, h, r) <=> c \notin waiting
      BY <1>1 DEF Complete
    <2>3. Complete(b, h, r)' <=> c \notin waiting'
      <3>1. Flat(b, h, r)' = Flat(b, h, r)
        BY <1>3, SamePlaces
      <3>2. Complete(b, h, r)' <=> Flat(b, h, r)' \div CombineRows \notin waiting'
        BY <1>3 DEF Complete, CombineRows
      <3> QED
        BY <3>1, <3>2
    <2> HIDE DEF c
    <2> QED
      BY <1>3, <2>1, <2>2, <2>3
  <1>11. phase \in {"attend", "combine", "unpack"} /\ phase' = phase
    BY <1>1, <1>3
  <1> QED
    BY <1>2, <1>3, <1>9, <1>10, <1>11, StoredRows

-----------------------------------------------------------------------------
(* The output keeps what it holds while the kernels run.                   *)
LEMMA OutKept ==
  ASSUME OutInv, Running, phase # "done", Running', phase' # "done", UNCHANGED <<call, launch, meta, round, out>>
  PROVE  OutInv' /\ Returned'
  <1>1. /\ OutIndex' = OutIndex /\ (\A v : Older(v)' <=> Older(v)) /\ (View' <=> View)
        /\ out' = out /\ round' = round
    BY SamePlaces
  <1>2. phase' # "check"
    BY DEF Running
  <1>3. DOMAIN out' = OutIndex'
    BY <1>1 DEF OutInv
  <1>4. ASSUME NEW i \in OutIndex
        PROVE  /\ out'[i].round \in 0 .. round' /\ Older(out'[i])
               /\ View => out'[i].kind \in {"caller", "row"}
    BY <1>1 DEF OutInv
  <1>5. OutInv'
    BY <1>1, <1>2, <1>3, <1>4 DEF OutInv
  <1> QED
    BY <1>5 DEF Returned

(* Rows of the kernels' output keep their standing between two kernels.    *)
LEMMA KernelKept ==
  ASSUME KernelOutInv, phase \in {"attend", "combine", "unpack"}, phase' \in {"attend", "combine", "unpack"},
         UNCHANGED <<call, launch, meta, round, kout, klse>>,
         \A b \in Seqs, h \in KHeads : \A r \in Live(b) : Complete(b, h, r)' <=> Complete(b, h, r)
  PROVE  KernelOutInv'
  <1>1. /\ Seqs' = Seqs /\ KHeads' = KHeads /\ PaddingRows' = PaddingRows /\ (View' <=> View)
        /\ \A b : Live(b)' = Live(b)
        /\ \A b, h, r : /\ OutPlace(b, h, r)' = OutPlace(b, h, r) /\ LsePlace(b, h, r)' = LsePlace(b, h, r)
                        /\ Final(b, h, r)' = Final(b, h, r)
        /\ \A v : Older(v)' <=> Older(v)
    BY SamePlaces
  <1>2. ASSUME NEW b \in Seqs, NEW h \in KHeads, NEW r \in Live(b) PROVE KernelRowInv(b, h, r)'
    <2>1. KernelRowInv(b, h, r) /\ (Complete(b, h, r)' <=> Complete(b, h, r))
      BY DEF KernelOutInv
    <2> QED
      BY <1>1, <2>1 DEF KernelRowInv
  <1>3. ASSUME NEW row \in PaddingRows, NEW h \in KHeads PROVE PaddingInv(row, h)'
    <2>1. PaddingInv(row, h)
      BY DEF KernelOutInv
    <2> QED
      BY <1>1, <2>1 DEF PaddingInv
  <1> QED
    BY <1>1, <1>2, <1>3 DEF KernelOutInv

(* The tensor the kernels get holds values of earlier rounds only.         *)
LEMMA KernelOutIsOld ==
  ASSUME Fixed, OutInv, phase = "launch"
  PROVE  /\ DOMAIN KernelOut = (0 .. launch.total_q - 1) \X (0 .. launch.h - 1)
         /\ \A i \in (0 .. launch.total_q - 1) \X (0 .. launch.h - 1) :
              Older(KernelOut[i]) /\ (View => KernelOut[i].kind \in {"caller", "row"})
  <1> DEFINE K == (0 .. launch.total_q - 1) \X (0 .. launch.h - 1)
  <1>1. /\ Running /\ round \in Nat \ {0}
        /\ DOMAIN out = OutIndex
        /\ \A i \in OutIndex : Older(out[i]) /\ (View => out[i].kind \in {"caller", "row"})
    BY DEF Running, Fixed, OutInv
  <1>2. /\ launch.groups \in Nat \ {0} /\ call.tokens \in Nat /\ launch.h * launch.groups = call.heads
        /\ launch.h \in Nat \ {0}
        /\ launch.total_q = call.tokens * launch.groups
        /\ launch.groups = 1 => launch.h = call.heads /\ launch.total_q = call.tokens
        /\ call.kv_heads = 1 /\ launch.groups # 1 => launch.h = 1
    BY <1>1, Shape
  <1>3. CASE launch.groups = 1
    <2>1. KernelOut = out /\ OutIndex = K
      BY <1>2, <1>3 DEF KernelOut, OutIndex
    <2> QED
      BY <1>1, <2>1
  <1>4. CASE launch.groups # 1
    <2>1. DOMAIN KernelOut = K
      BY <1>4 DEF KernelOut
    <2>2. ASSUME NEW i \in K
          PROVE  Older(KernelOut[i]) /\ (View => KernelOut[i].kind \in {"caller", "row"})
      <3>1. CASE PackedOutputView
        <4> DEFINE o == <<i[1] \div launch.groups, i[1] % launch.groups>>
        <4>1. i[1] \in 0 .. call.tokens * launch.groups - 1 /\ call.heads = launch.groups
          BY <1>2, <1>4, <3>1 DEF PackedOutputView
        <4>2. i[1] \div launch.groups \in 0 .. call.tokens - 1 /\ i[1] % launch.groups \in 0 .. launch.groups - 1
          BY <1>2, <4>1, RadixDigits
        <4>3. o \in OutIndex
          BY <4>1, <4>2 DEF OutIndex
        <4>4. KernelOut[i] = out[o]
          BY <1>4, <3>1 DEF KernelOut
        <4> QED
          BY <1>1, <4>3, <4>4
      <3>2. CASE ~ PackedOutputView
        <4>1. KernelOut[i] = Blank
          BY <1>4, <3>2 DEF KernelOut
        <4>2. Blank.round \in 0 .. round - 1
          BY <1>1 DEF Blank
        <4> QED
          BY <1>4, <3>2, <4>1, <4>2 DEF View, Older
      <3> QED
        BY <3>1, <3>2
    <2> QED
      BY <2>1, <2>2
  <1> QED
    BY <1>3, <1>4

(* At the launch no row has its partial results, nor its final ones.       *)
LEMMA LaunchStep ==
  ASSUME Fixed, OutInv, LaunchSplitKernel
  PROVE  ScratchInv' /\ KernelOutInv' /\ OutInv' /\ Returned'
  <1> DEFINE K == (0 .. launch.total_q - 1) \X (0 .. launch.h - 1)
             L == 0 .. launch.h * launch.total_q - 1
             size == launch.splits * LseSize
  <1>1. /\ phase = "launch" /\ phase' = "attend" /\ waiting' = Grid
        /\ lseAccum' = IF Split THEN [i \in 0 .. size - 1 |-> Blank] ELSE << >>
        /\ outAccum' = lseAccum'
        /\ kout' = KernelOut
        /\ klse' = [i \in L |-> Blank]
        /\ UNCHANGED <<call, launch, meta, round, out>>
    BY DEF LaunchSplitKernel
  <1>2. Running /\ Running' /\ round \in Nat \ {0} /\ launch.splits \in Nat \ {0}
    BY <1>1, Shape DEF Running, Fixed
  <1>3. /\ LseSize' = LseSize /\ Seqs' = Seqs /\ KHeads' = KHeads /\ (Split' <=> Split)
        /\ PaddingRows' = PaddingRows /\ (View' <=> View) /\ \A b : Live(b)' = Live(b)
        /\ \A s, b, h, r : Place(s, b, h, r)' = Place(s, b, h, r)
        /\ \A m, s, b, h : CtaOf(m, s, b, h)' = CtaOf(m, s, b, h)
        /\ \A b, h, r : OutPlace(b, h, r)' = OutPlace(b, h, r) /\ LsePlace(b, h, r)' = LsePlace(b, h, r)
        /\ \A v : Older(v)' <=> Older(v)
    BY <1>1, SamePlaces
  <1>4. launch' = launch
    BY <1>1
  <1>5. ASSUME NEW b \in Seqs, NEW h \in KHeads, NEW r \in Live(b), NEW s \in 0 .. launch.splits - 1
        PROVE  CtaOf(r \div kBlockM, s, b, h)' \in waiting'
    BY <1>1, <1>2, <1>3, CtaInGrid
  <1>6. ScratchInv'
    <2> SUFFICES ASSUME Split PROVE ScratchInv'
      BY <1>3 DEF ScratchInv
    <2>1. lseAccum' = [i \in 0 .. size - 1 |-> Blank] /\ outAccum' = lseAccum'
      BY <1>1
    <2> HIDE DEF size
    <2>2. DOMAIN lseAccum' = 0 .. size - 1 /\ DOMAIN outAccum' = 0 .. size - 1
      BY <2>1
    <2>3. ASSUME NEW s \in 0 .. launch.splits - 1, NEW b \in Seqs, NEW h \in KHeads, NEW r \in Live(b)
          PROVE  ScratchRowInv(s, b, h, r)'
      <3>1. Place(s, b, h, r) \in 0 .. size - 1
        BY <1>2, ScratchRows DEF size
      <3>2. lseAccum'[Place(s, b, h, r)] = Blank /\ outAccum'[Place(s, b, h, r)] = Blank
        BY <2>1, <3>1
      <3>3. CtaOf(r \div kBlockM, s, b, h)' \in waiting'
        BY <1>5
      <3>4. Place(s, b, h, r)' = Place(s, b, h, r)
        BY <1>3
      <3> QED
        BY <1>1, <3>2, <3>3, <3>4 DEF ScratchRowInv, Blank
    <2> QED
      BY <1>3, <1>4, <2>2, <2>3 DEF ScratchInv, size
  <1> HIDE DEF size
  <1>7. /\ DOMAIN KernelOut = K
        /\ \A i \in K : Older(KernelOut[i]) /\ (View => KernelOut[i].kind \in {"caller", "row"})
    BY <1>1, KernelOutIsOld
  <1>8. ASSUME NEW b \in Seqs, NEW h \in KHeads, NEW r \in Live(b) PROVE KernelRowInv(b, h, r)'
    <2>1. OutPlace(b, h, r) \in K /\ LsePlace(b, h, r) \in L
      BY <1>2, RowPlaces
    <2>2. Older(kout'[OutPlace(b, h, r)])
      BY <1>1, <1>7, <2>1
    <2>3. Older(klse'[LsePlace(b, h, r)])
      <3>1. klse'[LsePlace(b, h, r)] = Blank /\ Blank.round = 0
        BY <1>1, <2>1 DEF Blank
      <3> QED
        BY <1>2, <3>1 DEF Older
    <2>4. ~ Complete(b, h, r)'
      <3>1. 0 \in 0 .. launch.splits - 1
        BY <1>2
      <3>2. CtaOf(r \div kBlockM, 0, b, h)' \in waiting'
        BY <1>5, <3>1
      <3> QED
        BY <1>1, <3>2 DEF Complete
    <2>5. OutPlace(b, h, r)' = OutPlace(b, h, r) /\ LsePlace(b, h, r)' = LsePlace(b, h, r)
          /\ \A v : Older(v)' <=> Older(v)
      BY <1>3
    <2> QED
      BY <2>2, <2>3, <2>4, <2>5 DEF KernelRowInv
  <1>9. ASSUME NEW row \in PaddingRows, NEW h \in KHeads PROVE PaddingInv(row, h)'
    <2>1. <<row, h>> \in K
      <3>1. CuQ(launch.b) \in Nat /\ launch.total_q \in Nat
        <4>1. launch.b \in 0 .. launch.b
          BY <1>2, Shape
        <4> QED
          BY <1>2, <4>1, Shape, Offsets
      <3> QED
        BY <3>1 DEF KHeads, PaddingRows
    <2> QED
      BY <1>1, <1>3, <1>7, <2>1 DEF PaddingInv
  <1>10. KernelOutInv'
    <2>1. DOMAIN kout' = K /\ DOMAIN klse' = L
      BY <1>1, <1>7
    <2> QED
      BY <1>3, <1>4, <1>8, <1>9, <2>1 DEF KernelOutInv
  <1>11. OutInv' /\ Returned'
    <2>1. phase # "done" /\ phase' # "done"
      BY <1>1
    <2> QED
      BY <1>1, <1>2, <2>1, OutKept
  <1> QED
    BY <1>6, <1>10, <1>11

(* After the split-KV kernel every partial result is there; the combine    *)
(* kernel has a block for every flat row.                                  *)
LEMMA NextKernelStep ==
  ASSUME Fixed, ScratchInv, KernelOutInv, OutInv, NextKernel
  PROVE  ScratchInv' /\ KernelOutInv' /\ OutInv' /\ Returned'
  <1>1. /\ phase = "attend" /\ waiting = {}
        /\ Split => phase' = "combine" /\ waiting' = 0 .. CeilDiv(LseSize, CombineRows) - 1
        /\ ~ Split => phase' = "unpack"
        /\ UNCHANGED <<call, launch, meta, round, lseAccum, outAccum, kout, klse, out>>
    BY DEF NextKernel, scratch
  <1>2. Running /\ Running' /\ phase # "done" /\ phase' # "done"
    BY <1>1 DEF Running
  <1>3. /\ LseSize' = LseSize /\ Seqs' = Seqs /\ KHeads' = KHeads /\ (Split' <=> Split)
        /\ (\A b : Live(b)' = Live(b)) /\ launch' = launch
        /\ \A s, b, h, r : Part(s, b, h, r)' = Part(s, b, h, r) /\ Place(s, b, h, r)' = Place(s, b, h, r)
        /\ \A b, h, r : Flat(b, h, r)' = Flat(b, h, r)
    BY <1>1, SamePlaces
  <1>4. ScratchInv'
    <2> SUFFICES ASSUME Split PROVE ScratchInv'
      BY <1>3 DEF ScratchInv
    <2>1. ASSUME NEW s \in 0 .. launch.splits - 1, NEW b \in Seqs, NEW h \in KHeads, NEW r \in Live(b)
          PROVE  ScratchRowInv(s, b, h, r)'
      <3>1. /\ lseAccum[Place(s, b, h, r)] = Part(s, b, h, r)
            /\ outAccum[Place(s, b, h, r)] = lseAccum[Place(s, b, h, r)]
        BY <1>1 DEF ScratchInv, ScratchRowInv
      <3>2. Place(s, b, h, r)' = Place(s, b, h, r) /\ Part(s, b, h, r)' = Part(s, b, h, r)
        BY <1>3
      <3> QED
        BY <1>1, <3>1, <3>2 DEF ScratchRowInv
    <2>2. DOMAIN lseAccum = 0 .. launch.splits * LseSize - 1 /\ DOMAIN outAccum = DOMAIN lseAccum
      BY <1>1 DEF ScratchInv
    <2> QED
      BY <1>1, <1>3, <2>1, <2>2 DEF ScratchInv
  <1>5. ASSUME NEW b \in Seqs, NEW h \in KHeads, NEW r \in Live(b)
        PROVE  Complete(b, h, r)' <=> Complete(b, h, r)
    <2>1. CASE Split
      <3>1. ~ Complete(b, h, r)
        BY <1>1, <2>1 DEF Complete
      <3>2. Flat(b, h, r) \div CombineRows \in 0 .. CeilDiv(LseSize, CombineRows) - 1
        <4> DEFINE i == Flat(b, h, r)
                   c == CeilDiv(LseSize, CombineRows)
        <4>1. CombineRows \in Nat \ {0} /\ LseSize \in Nat \ {0}
          BY <1>2, LseSizePositive DEF CombineRows
        <4>2. i \in 0 .. LseSize - 1
          <5>1. r \in 0 .. launch.seqlen_q - 1
            <6>1. 0 \in 0 .. launch.splits - 1
              BY <1>2, Shape
            <6> QED
              BY <1>2, <6>1, ScratchRows
          <5> QED
            BY <1>2, <5>1, FlatInRange
        <4> HIDE DEF i
        <4>3. i \in Nat /\ i < LseSize
          BY <4>1, <4>2
        <4>4. c \in Nat /\ LseSize <= c * CombineRows
          <5>1. LseSize \in Int /\ LseSize >= 0
            BY <4>1
          <5> QED
            BY <4>1, <5>1, CeilDivCovers
        <4>5. i \div CombineRows \in Nat /\ (i \div CombineRows) * CombineRows <= i
          BY <4>1, <4>3, DivBounds
        <4> HIDE DEF c
        <4>6. i \div CombineRows < c
          <5>1. (i \div CombineRows) * CombineRows < c * CombineRows
            BY <4>1, <4>3, <4>4, <4>5
          <5>2. i \div CombineRows \in Int /\ c \in Int
            BY <4>4, <4>5
          <5> QED
            BY <4>1, <5>1, <5>2, MultiplesReflectOrder
        <4> QED
          BY <4>4, <4>5, <4>6 DEF i, c
      <3>3. ~ Complete(b, h, r)'
        <4>1. Flat(b, h, r)' \div CombineRows \in waiting'
          BY <1>1, <1>3, <2>1, <3>2
        <4> QED
          BY <1>1, <2>1, <4>1 DEF Complete, CombineRows
      <3> QED
        BY <3>1, <3>3
    <2>2. CASE ~ Split
      BY <1>1, <2>2 DEF Complete
    <2> QED
      BY <2>1, <2>2
  <1>6. KernelOutInv'
    <2>1. phase' \in {"attend", "combine", "unpack"} /\ phase \in {"attend", "combine", "unpack"}
      BY <1>1
    <2> QED
      BY <1>1, <1>5, <2>1, KernelKept
  <1>7. OutInv' /\ Returned'
    BY <1>1, <1>2, OutKept
  <1> QED
    BY <1>4, <1>6, <1>7

(* The end of the combine kernel keeps the invariant.                      *)
LEMMA CombineDoneStep ==
  ASSUME ScratchInv, KernelOutInv, OutInv, CombineDone
  PROVE  ScratchInv' /\ KernelOutInv' /\ OutInv' /\ Returned'
  <1>1. /\ phase = "combine" /\ waiting = {} /\ phase' = "unpack"
        /\ UNCHANGED <<call, launch, meta, round, lseAccum, outAccum, kout, klse, out>>
    BY DEF CombineDone, scratch
  <1>2. ScratchInv'
    <2>1. Split' = Split /\ LseSize' = LseSize /\ launch' = launch
      BY <1>1, SamePlaces
    <2> QED
      BY <1>1, <2>1 DEF ScratchInv
  <1>3. KernelOutInv'
    <2>1. \A b \in Seqs, h \in KHeads : \A r \in Live(b) : Complete(b, h, r)' <=> Complete(b, h, r)
      BY <1>1 DEF Complete
    <2>2. phase' \in {"attend", "combine", "unpack"} /\ phase \in {"attend", "combine", "unpack"}
      BY <1>1
    <2> QED
      BY <1>1, <2>1, <2>2, KernelKept
  <1>4. OutInv' /\ Returned'
    <2>1. Running /\ Running' /\ phase # "done" /\ phase' # "done"
      BY <1>1 DEF Running
    <2> QED
      BY <1>1, <2>1, OutKept
  <1> QED
    BY <1>2, <1>3, <1>4

(* The packed row of a token and a head, its sequence and its provenance.  *)
LEMMA UnpackedRow ==
  ASSUME Fixed, Running, NEW token \in LiveTokens, NEW head \in 0 .. call.heads - 1
  PROVE  \E b \in Seqs, h \in KHeads : \E r \in Live(b) :
           /\ <<token * launch.groups + (head % launch.groups), head \div launch.groups>> = OutPlace(b, h, r)
           /\ (head \div launch.groups) * launch.total_q + token * launch.groups + (head % launch.groups)
                = LsePlace(b, h, r)
           /\ Final(b, h, r) = Expected(token, head)
  <1> DEFINE G == launch.groups
             h == head \div G
             x == head % G
             q == token * G + x
  <1>1. /\ G \in Nat \ {0} /\ launch.h \in Nat \ {0} /\ launch.h * G = call.heads
        /\ launch.ratio \in Nat \ {0} /\ G * launch.ratio = call.heads \div call.kv_heads
        /\ launch.b \in Nat \ {0} /\ call.batch = launch.b /\ launch.total_q \in Nat
        /\ call.heads \in Nat
    BY Shape
  <1>2. /\ meta.cu_q[launch.b + 1] \in Nat /\ CuQ(launch.b) = meta.cu_q[launch.b + 1] * G
        /\ CuQ(launch.b) \in Nat
    <2>1. launch.b \in 0 .. launch.b
      BY <1>1
    <2> QED
      BY <2>1, Offsets
  <1>3. token \in 0 .. meta.cu_q[launch.b + 1] - 1 /\ token \in Nat
    BY <1>1, <1>2 DEF LiveTokens
  <1> HIDE DEF G, h, x, q
  <1>4. h \in KHeads /\ h \in Nat /\ x \in 0 .. G - 1 /\ head = h * G + x
    <2>1. head \in 0 .. launch.h * G - 1
      BY <1>1
    <2>2. h \in 0 .. launch.h - 1 /\ x \in 0 .. G - 1 /\ head = h * G + x
      BY <1>1, <2>1, RadixDigits DEF h, x
    <2> QED
      BY <1>1, <2>2 DEF KHeads
  <1>5. q \in 0 .. CuQ(launch.b) - 1 /\ q \in Nat
    <2>1. token * G + x \in 0 .. meta.cu_q[launch.b + 1] * G - 1
      BY <1>1, <1>2, <1>3, <1>4, RadixBound
    <2>2. q \in 0 .. CuQ(launch.b) - 1
      BY <1>2, <2>1 DEF q
    <2> QED
      BY <1>2, <2>2
  <1>6. PICK b \in Seqs : CuQ(b) <= q /\ q < CuQ(b + 1) /\ q - CuQ(b) \in Live(b)
    BY <1>5, RowCovered
  <1> DEFINE r == q - CuQ(b)
  <1>7. /\ b \in Nat /\ b \in 0 .. call.batch - 1 /\ CuQ(b) \in Nat /\ CuQ(b + 1) \in Nat
        /\ b \in 0 .. launch.b /\ b + 1 \in 0 .. launch.b
        /\ CuQ(b) = meta.cu_q[b + 1] * G /\ CuQ(b + 1) = meta.cu_q[b + 2] * G
        /\ meta.cu_q[b + 1] \in Nat /\ meta.cu_q[b + 2] \in Nat
    <2>1. b \in Nat /\ b \in 0 .. launch.b /\ b + 1 \in 0 .. launch.b /\ b + 1 + 1 = b + 2
      BY <1>1 DEF Seqs
    <2> QED
      BY <1>1, <2>1, Offsets DEF Seqs, G
  <1>8. CuQ(b) + r = q /\ r \in Live(b)
    BY <1>5, <1>6, <1>7
  <1> HIDE DEF r
  <1>9. meta.cu_q[b + 1] <= token /\ token < meta.cu_q[b + 2]
    <2>1. token * G \in Nat /\ (token + 1) * G = token * G + G /\ (token + 1) * G \in Nat
      BY <1>1, <1>3
    <2>2. token * G <= q /\ q < (token + 1) * G
      BY <1>1, <1>4, <2>1 DEF q
    <2>3. meta.cu_q[b + 1] * G < (token + 1) * G /\ token * G < meta.cu_q[b + 2] * G
      BY <1>5, <1>6, <1>7, <2>1, <2>2
    <2>4. meta.cu_q[b + 1] \in Int /\ meta.cu_q[b + 2] \in Int /\ token \in Int /\ token + 1 \in Int
      BY <1>3, <1>7
    <2>5. meta.cu_q[b + 1] < token + 1 /\ token < meta.cu_q[b + 2]
      BY <1>1, <2>3, <2>4, MultiplesReflectOrder
    <2> QED
      BY <2>4, <2>5
  <1>10. SequenceOf(token) = b
    <2>1. ASSUME NEW y \in 0 .. call.batch - 1, meta.cu_q[y + 1] <= token, token < meta.cu_q[y + 2]
          PROVE  y = b
      <3>1. /\ y \in Nat /\ y + 1 \in 1 .. launch.b + 1 /\ y + 2 \in 1 .. launch.b + 1
            /\ b + 1 \in 1 .. launch.b + 1 /\ b + 2 \in 1 .. launch.b + 1
        BY <1>1, <1>7
      <3>2. meta.cu_q[y + 1] \in Int /\ meta.cu_q[y + 2] \in Int
        BY <3>1, Contents
      <3>3. ASSUME y < b PROVE FALSE
        <4>1. y + 2 <= b + 1
          BY <1>7, <3>1, <3>3
        <4>2. meta.cu_q[y + 2] <= meta.cu_q[b + 1]
          BY <3>1, <4>1, Contents
        <4> QED
          BY <1>3, <1>7, <1>9, <2>1, <3>2, <4>2
      <3>4. ASSUME b < y PROVE FALSE
        <4>1. b + 2 <= y + 1
          BY <1>7, <3>1, <3>4
        <4>2. meta.cu_q[b + 2] <= meta.cu_q[y + 1]
          BY <3>1, <4>1, Contents
        <4> QED
          BY <1>3, <1>7, <1>9, <2>1, <3>2, <4>2
      <3> QED
        BY <1>7, <3>1, <3>3, <3>4
    <2> QED
      BY <1>7, <1>9, <2>1 DEF SequenceOf
  <1>11. /\ q \div G = token /\ q % G = x
    <2>1. q = token * G + x /\ token \in Int /\ x \in 0 .. G - 1 /\ G \in Nat \ {0} /\ q \in Nat
      BY <1>1, <1>3, <1>4, <1>5 DEF q
    <2>2. \A n \in Nat : n = token * G + x => n \div G = token /\ n % G = x
      BY <2>1, DivUnique
    <2> QED
      BY <2>1, <2>2
  <1>12. h \div launch.ratio = head \div (call.heads \div call.kv_heads)
    <2>1. head \in Nat
      BY <1>1
    <2> QED
      BY <1>1, <2>1, DivDiv DEF h
  <1>13. Final(b, h, r) = Expected(token, head)
    BY <1>4, <1>8, <1>10, <1>11, <1>12 DEF Final, Provenance, Expected, G
  <1>14. <<q, h>> = OutPlace(b, h, r) /\ h * launch.total_q + q = LsePlace(b, h, r)
    BY <1>8 DEF OutPlace, LsePlace
  <1>15. h * launch.total_q + token * G + x = h * launch.total_q + q
    <2>1. h * launch.total_q \in Nat /\ token * G \in Nat /\ x \in Nat
      BY <1>1, <1>3, <1>4
    <2> QED
      BY <2>1 DEF q
  <1> QED
    BY <1>4, <1>8, <1>13, <1>14, <1>15 DEF G, h, x, q

(* A place behind the last token is a padding row of some kernel head.     *)
LEMMA UnpackedPadding ==
  ASSUME Fixed, Running, NEW token \in 0 .. call.tokens - 1, token \notin LiveTokens,
         NEW head \in 0 .. call.heads - 1
  PROVE  /\ token * launch.groups + (head % launch.groups) \in PaddingRows
         /\ head \div launch.groups \in KHeads
  <1> DEFINE G == launch.groups
             x == head % G
  <1>1. /\ G \in Nat \ {0} /\ launch.h \in Nat /\ launch.h * G = call.heads
        /\ launch.b \in Nat \ {0} /\ call.batch = launch.b /\ launch.total_q = call.tokens * G
        /\ call.tokens \in Nat
    BY Shape
  <1>2. meta.cu_q[launch.b + 1] \in Nat /\ CuQ(launch.b) = meta.cu_q[launch.b + 1] * G
    <2>1. launch.b \in 0 .. launch.b
      BY <1>1
    <2> QED
      BY <2>1, Offsets
  <1> HIDE DEF G, x
  <1>3. head \div G \in 0 .. launch.h - 1 /\ x \in 0 .. G - 1
    <2>1. head \in 0 .. launch.h * G - 1
      BY <1>1
    <2> QED
      BY <1>1, <2>1, RadixDigits DEF x
  <1>4. token \in Nat /\ meta.cu_q[launch.b + 1] <= token
    BY <1>1, <1>2 DEF LiveTokens
  <1>5. token * G + x \in 0 .. call.tokens * G - 1
    BY <1>1, <1>3, RadixBound
  <1>6. meta.cu_q[launch.b + 1] * G <= token * G /\ token * G \in Nat /\ meta.cu_q[launch.b + 1] * G \in Nat
    BY <1>1, <1>2, <1>4, MultiplesOrdered
  <1>7. token * G + x \in CuQ(launch.b) .. launch.total_q - 1
    BY <1>1, <1>2, <1>3, <1>5, <1>6
  <1> QED
    BY <1>3, <1>7 DEF PaddingRows, KHeads, G, x

(* Unpacking puts every row where the caller looks for it.                 *)
LEMMA UnpackStep ==
  ASSUME Fixed, KernelOutInv, OutInv, Unpack
  PROVE  ScratchInv' /\ KernelOutInv' /\ OutInv' /\ Returned'
  <1> DEFINE row(token, head) == token * launch.groups + (head % launch.groups)
             kh(head) == head \div launch.groups
             at(token, head) == kh(head) * launch.total_q + token * launch.groups + (head % launch.groups)
  <1>1. /\ phase = "unpack" /\ phase' = "done"
        /\ out' = [i \in OutIndex |-> kout[<<row(i[1], i[2]), kh(i[2])>>]]
        /\ lse' = [i \in LseIndex |-> klse[at(i[2], i[1])]]
        /\ UNCHANGED <<call, launch, meta, round>>
    BY DEF Unpack
  <1>2. Running /\ round \in Nat \ {0}
    BY <1>1 DEF Running, Fixed
  <1>3. /\ LiveTokens' = LiveTokens /\ OutIndex' = OutIndex /\ (View' <=> View) /\ call' = call /\ round' = round
        /\ (\A v : Older(v)' <=> Older(v))
        /\ \A token, head : Expected(token, head)' = Expected(token, head)
    BY <1>1, SamePlaces
  <1>4. /\ call.tokens \in Nat /\ call.heads \in Nat
        /\ LiveTokens \subseteq 0 .. call.tokens - 1
    <2>1. launch.b + 1 \in 1 .. launch.b + 1 /\ launch.b = call.batch
      BY <1>2, Shape
    <2>2. meta.cu_q[call.batch + 1] \in 0 .. call.tokens /\ call.tokens \in Nat /\ call.heads \in Nat
      BY <1>2, <2>1, Contents, Shape
    <2> QED
      BY <2>2 DEF LiveTokens
  <1> HIDE DEF row, kh, at
  <1>5. ASSUME NEW token \in LiveTokens, NEW head \in 0 .. call.heads - 1
        PROVE  out'[<<token, head>>] = Expected(token, head) /\ lse'[<<head, token>>] = Expected(token, head)
    <2>1. PICK b \in Seqs, h \in KHeads : \E r \in Live(b) :
             /\ <<row(token, head), kh(head)>> = OutPlace(b, h, r) /\ at(token, head) = LsePlace(b, h, r)
             /\ Final(b, h, r) = Expected(token, head)
      BY <1>2, UnpackedRow DEF row, kh, at
    <2>2. PICK r \in Live(b) :
             /\ <<row(token, head), kh(head)>> = OutPlace(b, h, r) /\ at(token, head) = LsePlace(b, h, r)
             /\ Final(b, h, r) = Expected(token, head)
      BY <2>1
    <2>3. kout[OutPlace(b, h, r)] = Final(b, h, r) /\ klse[LsePlace(b, h, r)] = Final(b, h, r)
      BY <1>1 DEF KernelOutInv, KernelRowInv, Complete
    <2>4. <<token, head>> \in OutIndex /\ <<head, token>> \in LseIndex
      BY <1>4 DEF OutIndex, LseIndex
    <2>5. /\ out'[<<token, head>>] = kout[<<row(token, head), kh(head)>>]
          /\ lse'[<<head, token>>] = klse[at(token, head)]
      BY <1>1, <2>4
    <2> QED
      BY <2>2, <2>3, <2>5
  <1>6. ASSUME NEW i \in OutIndex
        PROVE  /\ out'[i].round \in 0 .. round
               /\ i[1] \notin LiveTokens => Older(out'[i])
               /\ View => out'[i].kind \in {"caller", "row"}
    <2>1. PICK token \in 0 .. call.tokens - 1, head \in 0 .. call.heads - 1 : i = <<token, head>>
      BY DEF OutIndex
    <2>2. CASE token \in LiveTokens
      <3>1. out'[i] = Expected(token, head)
        BY <1>5, <2>1, <2>2
      <3>2. Expected(token, head).round = round /\ Expected(token, head).kind = "row"
        BY DEF Expected, Row
      <3> QED
        BY <1>2, <2>1, <2>2, <3>1, <3>2
    <2>3. CASE token \notin LiveTokens
      <3>1. row(token, head) \in PaddingRows /\ kh(head) \in KHeads
        BY <1>2, <2>3, UnpackedPadding DEF row, kh
      <3>2. PaddingInv(row(token, head), kh(head))
        BY <1>1, <3>1 DEF KernelOutInv
      <3>3. out'[i] = kout[<<row(token, head), kh(head)>>]
        BY <1>1, <2>1
      <3>4. Older(out'[i]) /\ (View => out'[i].kind \in {"caller", "row"})
        BY <3>2, <3>3 DEF PaddingInv
      <3> QED
        BY <1>2, <3>4 DEF Older
    <2> QED
      BY <2>2, <2>3
  <1>7. OutInv'
    <2>1. DOMAIN out' = OutIndex
      BY <1>1
    <2>2. phase' # "check"
      BY <1>1
    <2>3. phase' = "done"
      BY <1>1
    <2> QED
      BY <1>3, <1>6, <2>1, <2>2, <2>3 DEF OutInv
  <1>8. Returned'
    BY <1>3, <1>5 DEF Returned
  <1> QED
    BY <1>1, <1>7, <1>8 DEF ScratchInv, KernelOutInv

(* A replay makes everything written so far old.                           *)
LEMMA ReplayStep ==
  ASSUME Fixed, OutInv, Replay
  PROVE  ScratchInv' /\ KernelOutInv' /\ OutInv' /\ Returned'
  <1>1. /\ phase = "done" /\ phase' = "launch" /\ round' = round + 1
        /\ UNCHANGED <<call, launch, out>>
    BY DEF Replay
  <1>2. round \in Nat \ {0} /\ Running
    BY <1>1 DEF Fixed, Running
  <1>3. OutIndex' = OutIndex /\ (View' <=> View)
    BY <1>1 DEF OutIndex, View, PackedOutputView
  <1>4. ASSUME NEW i \in OutIndex
        PROVE  /\ out'[i].round \in 0 .. round' /\ Older(out[i])'
               /\ View => out'[i].kind \in {"caller", "row"}
    <2>1. out[i].round \in 0 .. round /\ (View => out[i].kind \in {"caller", "row"})
      BY <1>2 DEF OutInv
    <2>2. out[i].round \in 0 .. round' - 1 /\ out[i].round \in 0 .. round'
      BY <1>1, <1>2, <2>1
    <2> QED
      BY <1>1, <2>1, <2>2 DEF Older
  <1>5. DOMAIN out' = OutIndex'
    BY <1>1, <1>3 DEF OutInv
  <1>6. phase' # "check"
    BY <1>1
  <1>7. OutInv'
    BY <1>3, <1>4, <1>5, <1>6 DEF OutInv
  <1> QED
    BY <1>1, <1>7 DEF ScratchInv, KernelOutInv, Returned

(* Before the launch only the caller's output is there.                    *)
LEMMA CheckStep ==
  ASSUME OutInv, Accept \/ Reject
  PROVE  ScratchInv' /\ KernelOutInv' /\ OutInv' /\ Returned'
  <1>1. /\ phase = "check" /\ phase' \in {"launch", "rejected"}
        /\ UNCHANGED <<call, meta, round, out>>
    BY DEF Accept, Reject
  <1>2. OutIndex' = OutIndex /\ out' = out /\ round' = round /\ (\A v : Older(v)' <=> Older(v))
    BY <1>1 DEF OutIndex, Older
  <1>3. ASSUME NEW i \in OutIndex
        PROVE  out[i].round \in 0 .. round /\ Older(out[i]) /\ out[i].kind \in {"caller", "row"}
    BY <1>1 DEF OutInv
  <1>4. DOMAIN out = OutIndex
    BY DEF OutInv
  <1>5. OutInv'
    BY <1>2, <1>3, <1>4 DEF OutInv
  <1> QED
    BY <1>1, <1>5 DEF ScratchInv, KernelOutInv, Returned

(* The invariant holds before the call is checked.                         *)
LEMMA InitLaunch == Init => LaunchInv
  <1> SUFFICES ASSUME Init PROVE LaunchInv
    OBVIOUS
  <1>1. phase = "check" /\ round = 1 /\ out = [i \in OutIndex |-> Caller]
    BY DEF Init
  <1>2. Caller.round = 0 /\ Caller.kind = "caller" /\ 0 \in 0 .. 1 /\ 0 \in 0 .. 1 - 1
    BY DEF Caller
  <1>3. OutInv
    BY <1>1, <1>2 DEF OutInv, Older
  <1> QED
    BY <1>1, <1>3, InitFixed DEF LaunchInv, ScratchInv, KernelOutInv, Returned

-----------------------------------------------------------------------------
(* A CTA of the split-KV kernel leaves the invariant as it was.            *)
LEMMA RunCtaStep ==
  ASSUME Fixed, ScratchInv, KernelOutInv, OutInv, ExactProducts, NoEmptyTiles,
         NEW cta \in waiting, RunCta(cta)
  PROVE  ScratchInv' /\ KernelOutInv' /\ OutInv' /\ Returned'
  <1>1. phase = "attend" /\ phase' = "attend" /\ UNCHANGED <<call, launch, meta, round, out>>
    BY DEF RunCta
  <1>2. Running /\ Running' /\ phase # "done" /\ phase' # "done" /\ phase \in {"attend", "combine", "unpack"}
        /\ phase' \in {"attend", "combine", "unpack"} /\ (Split' <=> Split)
    BY <1>1 DEF Running, Split
  <1>3. OutInv' /\ Returned'
    BY <1>1, <1>2, OutKept
  <1>4. CASE Split
    <2>1. UNCHANGED <<kout, klse>>
      BY <1>4 DEF RunCta
    <2>2. \A b \in Seqs, h \in KHeads : \A r \in Live(b) : Complete(b, h, r)' <=> Complete(b, h, r)
      BY <1>1, <1>2, <1>4 DEF Complete
    <2>3. KernelOutInv'
      BY <1>1, <1>2, <2>1, <2>2, KernelKept
    <2>4. ScratchInv'
      BY <1>4, RunSplitCta
    <2> QED
      BY <1>3, <2>3, <2>4
  <1>5. CASE ~ Split
    <2>1. KernelOutInv'
      BY <1>5, RunUnsplitCta
    <2>2. ScratchInv'
      BY <1>2, <1>5 DEF ScratchInv
    <2> QED
      BY <1>3, <2>1, <2>2
  <1> QED
    BY <1>4, <1>5

(* A combine block keeps the invariant.                                    *)
LEMMA RunCombineStep ==
  ASSUME Fixed, ScratchInv, KernelOutInv, OutInv, ExactProducts,
         NEW block \in waiting, RunCombine(block)
  PROVE  ScratchInv' /\ KernelOutInv' /\ OutInv' /\ Returned'
  <1>1. phase = "combine" /\ phase' = "combine"
        /\ UNCHANGED <<call, launch, meta, round, out, lseAccum, outAccum>>
    BY DEF RunCombine, scratch
  <1>2. Running /\ Running' /\ phase # "done" /\ phase' # "done" /\ (Split' <=> Split)
    BY <1>1 DEF Running, Split
  <1>3. OutInv' /\ Returned'
    BY <1>1, <1>2, OutKept
  <1>4. KernelOutInv'
    BY RunCombineBlock
  <1>5. /\ LseSize' = LseSize /\ Seqs' = Seqs /\ KHeads' = KHeads
        /\ (\A b : Live(b)' = Live(b)) /\ launch' = launch
        /\ \A s, b, h, r : Part(s, b, h, r)' = Part(s, b, h, r) /\ Place(s, b, h, r)' = Place(s, b, h, r)
    BY <1>1, SamePlaces
  <1>6. ScratchInv'
    <2>1. ASSUME Split, NEW s \in 0 .. launch.splits - 1, NEW b \in Seqs, NEW h \in KHeads, NEW r \in Live(b)
          PROVE  ScratchRowInv(s, b, h, r)'
      <3>1. /\ lseAccum[Place(s, b, h, r)] = Part(s, b, h, r)
            /\ outAccum[Place(s, b, h, r)] = lseAccum[Place(s, b, h, r)]
        BY <1>1, <2>1 DEF ScratchInv, ScratchRowInv
      <3>2. Place(s, b, h, r)' = Place(s, b, h, r) /\ Part(s, b, h, r)' = Part(s, b, h, r)
        BY <1>5
      <3> QED
        BY <1>1, <3>1, <3>2 DEF ScratchRowInv
    <2>2. Split => /\ DOMAIN lseAccum = 0 .. launch.splits * LseSize - 1
                   /\ DOMAIN outAccum = 0 .. launch.splits * LseSize - 1
      BY <1>1 DEF ScratchInv
    <2> QED
      BY <1>1, <1>2, <1>5, <2>1, <2>2 DEF ScratchInv
  <1> QED
    BY <1>3, <1>4, <1>6

(* The invariant is about the variables only.                              *)
LEMMA LaunchStutter ==
  ASSUME LaunchInv, UNCHANGED vars
  PROVE  ScratchInv' /\ KernelOutInv' /\ OutInv' /\ Returned'
  <1>1. /\ phase' = phase /\ waiting' = waiting
        /\ UNCHANGED <<call, launch, meta, round, lseAccum, outAccum, kout, klse, out, lse>>
    BY DEF vars, scratch
  <1>2. /\ LseSize' = LseSize /\ Seqs' = Seqs /\ KHeads' = KHeads /\ (Split' <=> Split)
        /\ (\A b : Live(b)' = Live(b)) /\ launch' = launch /\ (View' <=> View)
        /\ LiveTokens' = LiveTokens /\ OutIndex' = OutIndex
        /\ \A s, b, h, r : Part(s, b, h, r)' = Part(s, b, h, r) /\ Place(s, b, h, r)' = Place(s, b, h, r)
        /\ \A m, s, b, h : CtaOf(m, s, b, h)' = CtaOf(m, s, b, h)
        /\ \A b, h, r : Flat(b, h, r)' = Flat(b, h, r)
        /\ \A v : Older(v)' <=> Older(v)
        /\ \A token, head : Expected(token, head)' = Expected(token, head)
    BY <1>1, SamePlaces
  <1>3. ScratchInv'
    <2>1. ASSUME phase \in {"attend", "combine"}, Split,
                 NEW s \in 0 .. launch.splits - 1, NEW b \in Seqs, NEW h \in KHeads, NEW r \in Live(b)
          PROVE  ScratchRowInv(s, b, h, r)'
      <3>1. ScratchRowInv(s, b, h, r)
        BY <2>1 DEF LaunchInv, ScratchInv
      <3> QED
        BY <1>1, <1>2, <3>1 DEF ScratchRowInv, Blank
    <2>2. phase \in {"attend", "combine", "unpack"} /\ Split =>
            /\ DOMAIN lseAccum = 0 .. launch.splits * LseSize - 1
            /\ DOMAIN outAccum = 0 .. launch.splits * LseSize - 1
      BY DEF LaunchInv, ScratchInv
    <2> QED
      BY <1>1, <1>2, <2>1, <2>2 DEF ScratchInv
  <1>4. KernelOutInv'
    <2>1. CASE phase \in {"attend", "combine", "unpack"}
      <3>1. ASSUME NEW b \in Seqs, NEW h \in KHeads, NEW r \in Live(b)
            PROVE  Complete(b, h, r)' <=> Complete(b, h, r)
        BY <1>1, <1>2 DEF Complete, CombineRows
      <3> QED
        BY <1>1, <2>1, <3>1, KernelKept DEF LaunchInv
    <2>2. CASE phase \notin {"attend", "combine", "unpack"}
      BY <1>1, <2>2 DEF KernelOutInv
    <2> QED
      BY <2>1, <2>2
  <1>5. OutInv'
    <2>1. Running' <=> Running
      BY <1>1 DEF Running
    <2> QED
      BY <1>1, <1>2, <2>1 DEF LaunchInv, OutInv
  <1>6. Returned'
    BY <1>1, <1>2 DEF LaunchInv, Returned
  <1> QED
    BY <1>3, <1>4, <1>5, <1>6

(* Every step keeps the invariant.                                         *)
LEMMA NextLaunch ==
  ASSUME ExactProducts, NoEmptyTiles, LaunchInv, [Next]_vars
  PROVE  LaunchInv'
  <1>1. Fixed /\ ScratchInv /\ KernelOutInv /\ OutInv /\ Returned
    BY DEF LaunchInv
  <1>2. Fixed'
    BY <1>1, NextFixed
  <1> SUFFICES ScratchInv' /\ KernelOutInv' /\ OutInv' /\ Returned'
    BY <1>2 DEF LaunchInv
  <1>3. CASE Accept \/ Reject
    BY <1>1, <1>3, CheckStep
  <1>4. CASE LaunchSplitKernel
    BY <1>1, <1>4, LaunchStep
  <1>5. ASSUME NEW cta \in waiting, RunCta(cta)
        PROVE  ScratchInv' /\ KernelOutInv' /\ OutInv' /\ Returned'
    BY <1>1, <1>5, RunCtaStep
  <1>6. ASSUME NEW block \in waiting, RunCombine(block)
        PROVE  ScratchInv' /\ KernelOutInv' /\ OutInv' /\ Returned'
    BY <1>1, <1>6, RunCombineStep
  <1>7. CASE NextKernel
    BY <1>1, <1>7, NextKernelStep
  <1>8. CASE CombineDone
    BY <1>1, <1>8, CombineDoneStep
  <1>9. CASE Unpack
    BY <1>1, <1>9, UnpackStep
  <1>10. CASE Replay
    BY <1>1, <1>10, ReplayStep
  <1>11. CASE UNCHANGED vars
    BY <1>11, LaunchStutter
  <1> QED
    BY <1>3, <1>4, <1>5, <1>6, <1>7, <1>8, <1>9, <1>10, <1>11 DEF Next, Terminating

(* So it is an invariant of the operator call.                             *)
LEMMA LaunchInvariance ==
  ASSUME ExactProducts, NoEmptyTiles
  PROVE  Spec => []LaunchInv
  <1>1. LaunchInv /\ [Next]_vars => LaunchInv'
    BY NextLaunch
  <1> QED
    BY <1>1, InitLaunch, PTL DEF Spec

(***************************************************************************)
(* The kernels store inside the tensors they were given and nowhere else,  *)
(* for every shape, ragged batch, split count and packing - given address  *)
(* products that do not overflow and no row block without keys in a launch *)
(* that is not split.                                                      *)
(***************************************************************************)
THEOREM StoresStayInBounds ==
  ASSUME ExactProducts, NoEmptyTiles
  PROVE  Spec => []StoresInBounds
  <1>1. LaunchInv => StoresInBounds
    BY DEF LaunchInv, StoresInBounds, KernelOutInv, ScratchInv
  <1> QED
    BY <1>1, LaunchInvariance, PTL

(***************************************************************************)
(* Every row of every head of the returned output is its own result, of    *)
(* this run's metadata, with the part of every split: through the flat     *)
(* index of the combine kernel, packed heads, ragged batches and replays.  *)
(***************************************************************************)
THEOREM OutputIsComplete ==
  ASSUME ExactProducts, NoEmptyTiles
  PROVE  Spec => []OutputsComplete
  <1>1. LaunchInv => OutputsComplete
    BY DEF LaunchInv, OutputsComplete, Returned
  <1> QED
    BY <1>1, LaunchInvariance, PTL

(* The same for the returned log-sum-exp, laid out by head.                *)
THEOREM LseIsComplete ==
  ASSUME ExactProducts, NoEmptyTiles
  PROVE  Spec => []LseComplete
  <1>1. LaunchInv => LseComplete
    BY DEF LaunchInv, LseComplete, Returned
  <1> QED
    BY <1>1, LaunchInvariance, PTL

(* Rows behind the last sequence keep what was there before the run, when  *)
(* the kernels write the output tensor or a view of it.                    *)
THEOREM PaddingIsUntouched ==
  ASSUME ExactProducts, NoEmptyTiles
  PROVE  Spec => []PaddingUntouched
  <1>1. LaunchInv => PaddingUntouched
    <2> SUFFICES ASSUME LaunchInv, phase = "done", View, NEW i \in OutIndex, i[1] \notin LiveTokens
                 PROVE  out[i].kind \in {"caller", "row"} /\ out[i].round < round
      BY DEF PaddingUntouched, View
    <2>1. Running /\ round \in Nat
      BY DEF LaunchInv, Fixed, Running
    <2>2. Older(out[i]) /\ out[i].kind \in {"caller", "row"}
      BY <2>1 DEF LaunchInv, OutInv
    <2> QED
      BY <2>1, <2>2 DEF Older
  <1> QED
    BY <1>1, LaunchInvariance, PTL

(* What a step of a kernel overwrites is not of this round.                *)
LEMMA KernelStepSettles ==
  ASSUME ExactProducts, NoEmptyTiles, LaunchInv, [Next]_vars,
         round' = round, phase \in {"attend", "combine"}
  PROVE  /\ Settled(lseAccum, lseAccum') /\ Settled(outAccum, outAccum')
         /\ Settled(kout, kout') /\ Settled(klse, klse')
  <1>1. Fixed /\ ScratchInv /\ KernelOutInv /\ round \in Nat \ {0}
    BY DEF LaunchInv, Fixed
  <1>2. /\ \A f : Settled(f, f)
        /\ \A f, g : Fills(f, g) => Settled(f, g)
        /\ \A f, g : Renews(f, g) => Settled(f, g)
    <2>1. Blank.kind # "row"
      BY DEF Blank
    <2>2. \A v : Older(v) => v.round # round
      BY <1>1 DEF Older
    <2>3. ASSUME NEW f, NEW g, Fills(f, g) PROVE Settled(f, g)
      BY <2>1, <2>3 DEF Fills, Settled
    <2>4. ASSUME NEW f, NEW g, Renews(f, g) PROVE Settled(f, g)
      BY <2>2, <2>4 DEF Renews, Settled
    <2> QED
      BY <2>3, <2>4 DEF Settled
  <1>3. ASSUME UNCHANGED <<lseAccum, outAccum, kout, klse>>
        PROVE  /\ Settled(lseAccum, lseAccum') /\ Settled(outAccum, outAccum')
               /\ Settled(kout, kout') /\ Settled(klse, klse')
    BY <1>2, <1>3
  <1>4. CASE NextKernel \/ CombineDone \/ UNCHANGED vars
    BY <1>3, <1>4 DEF NextKernel, CombineDone, vars, scratch
  <1>5. ASSUME NEW cta \in waiting, RunCta(cta)
        PROVE  /\ Settled(lseAccum, lseAccum') /\ Settled(outAccum, outAccum')
               /\ Settled(kout, kout') /\ Settled(klse, klse')
    <2>1. CASE Split
      <3>1. Fills(lseAccum, lseAccum') /\ Fills(outAccum, outAccum')
        BY <1>1, <1>5, <2>1, RunSplitCta
      <3>2. UNCHANGED <<kout, klse>>
        BY <1>5, <2>1 DEF RunCta
      <3> QED
        BY <1>2, <3>1, <3>2
    <2>2. CASE ~ Split
      <3>1. Renews(kout, kout') /\ Renews(klse, klse')
        BY <1>1, <1>5, <2>2, RunUnsplitCta
      <3>2. UNCHANGED <<lseAccum, outAccum>>
        BY <1>5, <2>2 DEF RunCta, scratch
      <3> QED
        BY <1>2, <3>1, <3>2
    <2> QED
      BY <2>1, <2>2
  <1>6. ASSUME NEW block \in waiting, RunCombine(block)
        PROVE  /\ Settled(lseAccum, lseAccum') /\ Settled(outAccum, outAccum')
               /\ Settled(kout, kout') /\ Settled(klse, klse')
    <2>1. Renews(kout, kout') /\ Renews(klse, klse')
      BY <1>1, <1>6, RunCombineBlock
    <2>2. UNCHANGED <<lseAccum, outAccum>>
      BY <1>6 DEF RunCombine, scratch
    <2> QED
      BY <1>2, <2>1, <2>2
  <1>7. ~ Accept /\ ~ Reject /\ ~ LaunchSplitKernel /\ ~ Unpack /\ ~ Replay
    BY DEF Accept, Reject, LaunchSplitKernel, Unpack, Replay
  <1> QED
    BY <1>4, <1>5, <1>6, <1>7 DEF Next, Terminating

(***************************************************************************)
(* The blocks of a kernel never write the same place twice in a round, in  *)
(* whatever order they run: the result does not depend on the order.       *)
(***************************************************************************)
THEOREM BlocksWriteOnce ==
  ASSUME ExactProducts, NoEmptyTiles
  PROVE  Spec => WrittenOnce
  <1> DEFINE A == (round' = round /\ phase \in {"attend", "combine"})
                    => /\ Settled(lseAccum, lseAccum') /\ Settled(outAccum, outAccum')
                       /\ Settled(kout, kout') /\ Settled(klse, klse')
  <1>1. LaunchInv /\ [Next]_vars => [A]_vars
    BY KernelStepSettles
  <1>2. Spec => [][A]_vars
    <2> HIDE DEF A
    <2> QED
      BY <1>1, LaunchInvariance, PTL DEF Spec
  <1> QED
    BY <1>2 DEF WrittenOnce

-----------------------------------------------------------------------------
(* The first row of a live row block sees the key at its own position.     *)
LEMMA FirstRowSeesAKey ==
  ASSUME NEW t \in ValidTiles, t.m * kBlockM < t.Q, Tokens(t) <= t.K
  PROVE  FirstBlock(t) < LastBlock(t)
  <1> DEFINE here == Token(t, 0) + t.K - Tokens(t)
  <1>1. /\ t.m \in Nat /\ t.Q \in Nat /\ t.K \in Nat /\ t.wl \in Int /\ t.wr \in Int
        /\ t.causal \in BOOLEAN /\ t.local \in BOOLEAN
        /\ t.local => t.wl >= 0 /\ t.wr >= 0
    BY DEF ValidTiles
  <1>2. 0 \in LiveRows(t)
    <2>1. t.m * kBlockM \in Nat /\ 0 \in Rows
      BY <1>1, BlocksArePositive DEF Rows
    <2> QED
      BY <1>1, <2>1 DEF LiveRows
  <1>3. Token(t, 0) \in Nat /\ Tokens(t) \in Nat /\ Token(t, 0) < Tokens(t)
    BY <1>2, LiveRowPosition
  <1>4. here \in 0 .. t.K - 1
    BY <1>1, <1>3
  <1>5. here \in Visible(t, 0)
    <2> HIDE DEF here
    <2>1. here \in Int /\ here <= here /\ (t.local => here - t.wl <= here /\ here <= here + t.wr)
      BY <1>1, <1>4
    <2> QED
      BY <1>4, <2>1 DEF Visible, here
  <1>6. PICK n \in FirstBlock(t) .. LastBlock(t) - 1 : TRUE
    BY <1>2, <1>5, VisibleKeysInRange
  <1>7. FirstBlock(t) \in Nat /\ LastBlock(t) \in Int
    BY GeometryTypes
  <1> QED
    BY <1>6, <1>7

(* A launch that is not split gives its only split every key block.        *)
LEMMA OnlySplitHasABlock ==
  ASSUME NEW t \in ValidTiles, t.splits = 1, FirstBlock(t) < LastBlock(t)
  PROVE  BlockMin(t, 0) < BlockMax(t, 0)
  <1>1. /\ FirstBlock(t) \in Nat /\ LastBlock(t) \in Int /\ 0 \in Nat
        /\ BlockMin(t, 0) \in Nat /\ BlockMax(t, 0) \in Int
    BY GeometryTypes
  <1>2. FirstBlock(t) \in FirstBlock(t) .. LastBlock(t) - 1
    BY <1>1
  <1>3. PICK s \in 0 .. t.splits - 1 : FirstBlock(t) \in BlockMin(t, s) .. BlockMax(t, s) - 1
    BY <1>2, SplitsOwnEveryBlock
  <1>4. s = 0
    BY <1>3
  <1> QED
    BY <1>1, <1>3, <1>4

(***************************************************************************)
(* Metadata in which no sequence has more queries than keys satisfy the    *)
(* condition of the results above: without splits every row block with a   *)
(* query still has a key block.  Decode and prefill metadata are of this   *)
(* kind, since the queries of a call are among the keys it attends to.     *)
(***************************************************************************)
THEOREM KeysForEveryQuery ==
  ASSUME NEW c \in Calls, Accepted(c), NEW m \in Metadata(c),
         \A b \in 1 .. c.batch : m.cu_q[b + 1] - m.cu_q[b] <= m.seq_k[b]
  PROVE  NoEmptyTile(c, m)
  <1> DEFINE p == Launch(c)
             len(b) == m.cu_q[b + 1] - m.cu_q[b]
             q(b) == p.groups * len(b)
             t(b, block) == TileOf(p, block, q(b), m.seq_k[b])
  <1>1. /\ c \in CallTypes /\ p.groups \in Nat \ {0} /\ p.splits \in Nat \ {0}
        /\ p.seqlen_q \in Nat \ {0} /\ p.seqlen_q = c.max_q * p.groups
    BY LaunchShape
  <1>2. c.batch \in Nat /\ c.tokens \in Nat /\ c.max_q \in Int /\ c.max_k \in Int
    BY <1>1 DEF CallTypes
  <1>3. m \in ValidMetadata(c)
    BY MetadataAssumption
  <1>4. /\ m.cu_q \in [1 .. c.batch + 1 -> 0 .. c.tokens] /\ m.seq_k \in [1 .. c.batch -> 0 .. c.max_k]
        /\ \A i, j \in 1 .. c.batch + 1 : i <= j => m.cu_q[i] <= m.cu_q[j]
        /\ \A i \in 1 .. c.batch : m.cu_q[i + 1] - m.cu_q[i] <= c.max_q
    BY <1>3 DEF ValidMetadata
  <1> HIDE DEF p
  <1>5. ASSUME p.splits <= 1, NEW b \in 1 .. c.batch, NEW block \in 0 .. p.seqlen_q,
               block * kBlockM < q(b)
        PROVE  BlockMin(t(b, block), 0) < BlockMax(t(b, block), 0)
    <2>1. b \in 1 .. c.batch + 1 /\ b + 1 \in 1 .. c.batch + 1 /\ b <= b + 1
      BY <1>2
    <2>2. m.cu_q[b] \in Nat /\ m.cu_q[b + 1] \in Nat /\ m.cu_q[b] <= m.cu_q[b + 1]
      BY <1>2, <1>4, <2>1
    <2>3. len(b) \in Nat /\ len(b) <= c.max_q /\ len(b) <= m.seq_k[b] /\ m.seq_k[b] \in Nat
      <3>1. len(b) \in Nat
        BY <2>2
      <3>2. len(b) <= c.max_q /\ len(b) <= m.seq_k[b]
        BY <1>4
      <3>3. m.seq_k[b] \in 0 .. c.max_k
        BY <1>4
      <3>4. m.seq_k[b] \in Nat
        BY <1>2, <3>3
      <3> QED
        BY <3>1, <3>2, <3>4
    <2> HIDE DEF len
    <2>4. q(b) \in Nat /\ q(b) = len(b) * p.groups + 0
      BY <1>1, <2>3
    <2>5. q(b) <= p.seqlen_q
      <3>1. len(b) \in Int /\ c.max_q \in Int /\ p.groups \in Nat
        BY <1>1, <1>2, <2>3
      <3>2. len(b) * p.groups <= c.max_q * p.groups
        BY <2>3, <3>1, MultiplesOrdered
      <3> QED
        BY <1>1, <2>3, <2>4, <3>2
    <2>6. q(b) \div p.groups = len(b) /\ q(b) % p.groups = 0
      <3> DEFINE n == q(b)
                 k == len(b)
                 d == p.groups
      <3>1. 0 \in 0 .. d - 1 /\ k \in Int /\ n \in Nat /\ n = k * d + 0 /\ d \in Nat \ {0}
        BY <1>1, <2>3, <2>4
      <3> HIDE DEF n, k, d
      <3>2. n \div d = k /\ n % d = 0
        BY <3>1, DivUnique
      <3> QED
        BY <3>2 DEF n, k, d
    <2> HIDE DEF q
    <2>7. block \in Nat /\ q(b) \in 0 .. p.seqlen_q
      BY <1>1, <2>4, <2>5
    <2>8. t(b, block) \in ValidTiles
      BY <2>3, <2>6, <2>7, LaunchTileIsValid DEF p
    <2>9. /\ t(b, block).m = block /\ t(b, block).Q = q(b) /\ t(b, block).K = m.seq_k[b]
          /\ t(b, block).groups = p.groups /\ t(b, block).splits = p.splits
      BY DEF TileOf
    <2> HIDE DEF t
    <2>10. Tokens(t(b, block)) <= t(b, block).K
      BY <2>3, <2>6, <2>9 DEF Tokens
    <2>11. FirstBlock(t(b, block)) < LastBlock(t(b, block))
      BY <1>5, <2>8, <2>9, <2>10, FirstRowSeesAKey
    <2>12. t(b, block).splits = 1
      BY <1>1, <1>5, <2>9
    <2> QED
      BY <2>8, <2>11, <2>12, OnlySplitHasABlock
  <1> QED
    BY <1>1, <1>5 DEF NoEmptyTile, p
=============================================================================
