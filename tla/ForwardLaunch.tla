--------------------------- MODULE ForwardLaunch ---------------------------
(***************************************************************************)
(* One operator call from the host checks to the returned tensors: the     *)
(* grid of the split-KV kernel, the addresses its CTAs write, the combine  *)
(* kernel that re-derives (sequence, head, row) from a flat index, the GQA *)
(* packing around them, and replays of the captured call on new metadata.  *)
(*                                                                         *)
(* What a CTA computes for one row is SplitTile's subject.  Here a value   *)
(* is the provenance of a row: which query, which KV head, which splits;   *)
(* a result is right when its provenance is that of the place it is at.    *)
(***************************************************************************)
EXTENDS HostForward, Sequences, FiniteSets

CONSTANTS
  Calls,          \* calls considered
  Metadata(_),    \* values of the device tensors cu_q, seq_k for a call
  Rounds(_),      \* bound: how often the captured call is run
  HeadDim,        \* d_rounded
  IntLimit,       \* 2^31: an int holds -IntLimit .. IntLimit - 1
  Builds          \* what compilers make of the int products (see IntProduct)

ASSUME WidthAssumption == {HeadDim, IntLimit} \subseteq Nat \ {0}

ASSUME CallsAssumption == Calls \subseteq CallTypes

ASSUME MetadataAssumption == \A c \in Calls : Accepted(c) => Metadata(c) \subseteq ValidMetadata(c)

CombineRows == 4  \* kBlockM of the combine kernel

VARIABLES
  call,           \* the arguments fixed at capture
  launch,         \* params, filled once: the launches of every replay
  meta,           \* contents of cu_q and seq_k, rewritten between replays
  round,
  phase,
  waiting,        \* blocks of the running kernel that have not run yet
  wide,           \* the address products this build computes in 64 bits
  lseAccum,       \* lse_accum, by flat row
  outAccum,       \* out_accum, by flat row
  kout,           \* kernel_out: by <<row, head>>
  klse,           \* lse as the kernels see it: by flat address
  out,            \* the output tensor, by <<token, head>>
  lse             \* the returned LSE, by <<head, token>>

scratch == <<lseAccum, outAccum>>

vars == <<call, launch, wide, meta, round, phase, waiting, scratch, kout, klse, out, lse>>

Split == launch.splits > 1

Blank  == [kind |-> "blank", round |-> 0]    \* as allocated
Caller == [kind |-> "caller", round |-> 0]   \* what the caller had in the tensor
Mixed  == [kind |-> "mixed", round |-> 0]    \* parts of different rows added up
Foreign == [kind |-> "foreign", round |-> 0] \* memory no tensor of the call owns
Row(n, b, token, head, kv, parts) ==
  [kind |-> "row", round |-> n, seq |-> b, token |-> token, head |-> head,
   kv |-> kv, parts |-> parts]

\* Device metadata: cu_seqlens_q is scaled when heads are packed into rows.
CuQ(b)  == meta.cu_q[b + 1] * launch.groups
LenQ(b) == CuQ(b + 1) - CuQ(b)
LenK(b) == meta.seq_k[b + 1]

LseSize == launch.b * launch.h * launch.seqlen_q

(***************************************************************************)
(* An int product that is only then converted to index_t.  Signed overflow *)
(* is undefined: a compiler may keep the low 32 bits, sign extended, or    *)
(* multiply in 64 bits, each product for itself.                           *)
(***************************************************************************)
AddressProducts == {"exit", "epilogue", "combine", "advance"}

IntProduct(site, x) ==
  IF site \in wide THEN x ELSE ((x + IntLimit) % (2 * IntLimit)) - IntLimit

(* Flat row at which a product of rows and d_rounded points.               *)
RowOffset(site, rows) == IntProduct(site, rows * HeadDim) \div HeadDim

OutIndex == (0 .. call.tokens - 1) \X (0 .. call.heads - 1)
LseIndex == (0 .. call.heads - 1) \X (0 .. call.tokens - 1)

(* A store to an address no tensor owns still happens: it extends DOMAIN.  *)
Write(memory, stores) ==
  [a \in DOMAIN memory \cup DOMAIN stores |->
     IF a \in DOMAIN stores THEN stores[a] ELSE memory[a]]

-----------------------------------------------------------------------------
Init ==
  /\ call \in Calls
  /\ launch = << >>
  /\ wide \in Builds
  /\ meta \in Metadata(call)
  /\ round = 1
  /\ phase = "check"
  /\ waiting = {}
  /\ lseAccum = << >>
  /\ outAccum = << >>
  /\ kout = << >>
  /\ klse = << >>
  /\ out = [i \in OutIndex |-> Caller]
  /\ lse = [i \in LseIndex |-> Blank]

(* Grid of flash_fwd_splitkv_kernel: x, y, z.                              *)
Grid == (0 .. CeilDiv(launch.seqlen_q, kBlockM) - 1)
        \X (0 .. (IF Split THEN launch.splits ELSE launch.b) - 1)
        \X (0 .. (IF Split THEN launch.b * launch.h ELSE launch.h) - 1)

Accept ==
  /\ phase = "check"
  /\ Accepted(call)
  /\ phase' = "launch"
  /\ launch' = Launch(call)
  /\ UNCHANGED <<call, wide, meta, round, waiting, scratch, kout, klse, out, lse>>

Reject ==
  /\ phase = "check"
  /\ ~ Accepted(call)
  /\ phase' = "rejected"
  /\ UNCHANGED <<call, launch, wide, meta, round, waiting, scratch, kout, klse, out, lse>>

(* With one KV head the packed rows lie in a contiguous output as they are. *)
PackedOutputView == call.kv_heads = 1 /\ call.contiguous

(* The tensor the kernels write: the output itself, a view of it, or a     *)
(* temporary.                                                              *)
KernelOut ==
  IF launch.groups = 1 THEN out
  ELSE [i \in (0 .. launch.total_q - 1) \X (0 .. launch.h - 1) |->
          IF PackedOutputView THEN out[<<i[1] \div launch.groups, i[1] % launch.groups>>]
                              ELSE Blank]

(***************************************************************************)
(* Allocation of the temporaries and launch of the split-KV kernel; these  *)
(* are what a captured graph runs again.                                   *)
(***************************************************************************)
LaunchSplitKernel ==
  /\ phase = "launch"
  /\ phase' = "attend"
  /\ waiting' = Grid
  /\ lseAccum' = IF Split THEN [i \in 0 .. launch.splits * LseSize - 1 |-> Blank] ELSE << >>
  /\ outAccum' = lseAccum'
  /\ kout' = KernelOut
  /\ klse' = [i \in 0 .. launch.h * launch.total_q - 1 |-> Blank]
  /\ UNCHANGED <<call, launch, wide, meta, round, out, lse>>

-----------------------------------------------------------------------------
(* Which query row the packed row q of kernel head h is (reshape/permute). *)
Provenance(b, h, q, parts) ==
  Row(round, b, q \div launch.groups, h * launch.groups + (q % launch.groups), h \div launch.ratio, parts)

AccumOffset(s, b, h) == ((s * launch.b + b) * launch.h + h) * launch.seqlen_q

Mut_LseOffset_Padded(s, b, h, empty) == AccumOffset(s, b, h)

(***************************************************************************)
(* Start of the LSE rows of a CTA.  The early exit of an empty split and   *)
(* the epilogue compute it differently.                                    *)
(***************************************************************************)
LseOffset(s, b, h, empty) ==
  IF Split \/ empty THEN AccumOffset(s, b, h) ELSE h * launch.total_q + CuQ(b)

Mut_Decode_SwappedStride(cta) ==
  [ m |-> cta[1],
    b |-> IF Split THEN cta[3] % launch.b ELSE cta[2],
    h |-> IF Split THEN cta[3] \div launch.b ELSE cta[3],
    s |-> IF Split THEN cta[3] % launch.splits ELSE 0 ]

(* compute_attn_splitkv: the block index as (row block, sequence, head,    *)
(* split).                                                                 *)
Decode(cta) ==
  [ m |-> cta[1],
    b |-> IF Split THEN cta[3] \div launch.h ELSE cta[2],
    h |-> IF Split THEN cta[3] - (cta[3] \div launch.h) * launch.h ELSE cta[3],
    s |-> IF Split THEN cta[2] ELSE 0 ]

(* One CTA of the split-KV kernel, seen from global memory.                *)
RunCta(cta) ==
  LET i     == Decode(cta)
      t     == TileOf(launch, i.m, LenQ(i.b), LenK(i.b))
      empty == BlockMin(t, i.s) >= BlockMax(t, i.s)
      q(r)  == CuQ(i.b) + i.m * kBlockM + r
      lseAt == LseOffset(i.s, i.b, i.h, empty) + i.m * kBlockM
      outAt == AccumOffset(i.s, i.b, i.h) + i.m * kBlockM
      accAt == RowOffset(IF empty THEN "exit" ELSE "epilogue", outAt)
      value(r) == Provenance(i.b, i.h, q(r), {i.s})
  IN  /\ phase = "attend"
      /\ cta \in waiting
      /\ waiting' = waiting \ {cta}
      /\ IF Split
         THEN /\ lseAccum' = Write(lseAccum, [a \in { lseAt + r : r \in LiveRows(t) } |-> value(a - lseAt)])
              /\ outAccum' = Write(outAccum, [a \in { accAt + r : r \in LiveRows(t) } |-> value(a - accAt)])
              /\ UNCHANGED <<kout, klse>>
         ELSE /\ kout' = Write(kout, [a \in { <<q(r), i.h>> : r \in LiveRows(t) } |-> value(a[1] - q(0))])
              /\ klse' = Write(klse, [a \in { lseAt + r : r \in LiveRows(t) } |-> value(a - lseAt)])
              /\ UNCHANGED scratch
      /\ UNCHANGED <<call, launch, wide, meta, round, phase, out, lse>>

(* The kernels of one stream run one after the other.                      *)
NextKernel ==
  /\ phase = "attend"
  /\ waiting = {}
  /\ IF Split
     THEN phase' = "combine" /\ waiting' = 0 .. CeilDiv(LseSize, CombineRows) - 1
     ELSE phase' = "unpack" /\ waiting' = {}
  /\ UNCHANGED <<call, launch, wide, meta, round, scratch, kout, klse, out, lse>>

(* A load, also from an address no tensor owns.                            *)
Read(memory, a) == IF a \in DOMAIN memory THEN memory[a] ELSE Foreign

(* Row of out_accum the combine kernel loads for flat row i and a split:   *)
(* the pointer starts at the block's rows and advances once per split.     *)
CombineSource(i, split) ==
  LET block == i \div CombineRows
  IN  RowOffset("combine", block * CombineRows) + (i % CombineRows)
      + split * RowOffset("advance", LseSize)

Parts(i) == { <<lseAccum[s * LseSize + i], Read(outAccum, CombineSource(i, s))>> :
                s \in 0 .. launch.splits - 1 }

(* The sum of partial results x: nothing, one row's, or a mixture.         *)
Added(x) ==
  LET written == x \ {Blank}
  IN  IF written = {} THEN Blank
      ELSE LET one == CHOOSE y \in written : TRUE
           IN  IF \A y \in written : y.kind = "row" /\ [y EXCEPT !.parts = {}] = [one EXCEPT !.parts = {}]
               THEN [one EXCEPT !.parts = UNION { y.parts : y \in written }]
               ELSE Mixed

(* The merged log-sum-exp of flat row i, and its merged output: partial    *)
(* outputs under the weights their log-sum-exp gives them.                 *)
MergedLse(i) == Added({ p[1] : p \in Parts(i) })
Merged(i)    == IF \A p \in Parts(i) : p[1] = p[2] THEN MergedLse(i) ELSE Mixed

Mut_CombineTarget_Padded(i) ==
  LET b == i \div (launch.h * launch.seqlen_q)
      h == (i - b * launch.h * launch.seqlen_q) \div launch.seqlen_q
      r == i - (b * launch.h + h) * launch.seqlen_q
  IN  [ live |-> TRUE, row |-> CuQ(b) + r, h |-> h ]

(* Flat row -> sequence, head, row; rows past the sequence are dropped.    *)
CombineTarget(i) ==
  LET b == i \div (launch.h * launch.seqlen_q)
      h == (i - b * launch.h * launch.seqlen_q) \div launch.seqlen_q
      r == i - (b * launch.h + h) * launch.seqlen_q
  IN  [ live |-> r < LenQ(b), row |-> CuQ(b) + r, h |-> h ]

(* One CTA of the combine kernel: CombineRows flat rows.                   *)
RunCombine(block) ==
  LET flat == { i \in block * CombineRows .. block * CombineRows + CombineRows - 1 :
                  i < LseSize /\ CombineTarget(i).live }
      outAt(i) == <<CombineTarget(i).row, CombineTarget(i).h>>
      lseAt(i) == CombineTarget(i).h * launch.total_q + CombineTarget(i).row
  IN  /\ phase = "combine"
      /\ block \in waiting
      /\ waiting' = waiting \ {block}
      /\ kout' = Write(kout, [a \in { outAt(i) : i \in flat } |->
                   Merged(CHOOSE i \in flat : outAt(i) = a)])
      /\ klse' = Write(klse, [a \in { lseAt(i) : i \in flat } |->
                   MergedLse(CHOOSE i \in flat : lseAt(i) = a)])
      /\ UNCHANGED <<call, launch, wide, meta, round, phase, scratch, out, lse>>

CombineDone ==
  /\ phase = "combine"
  /\ waiting = {}
  /\ phase' = "unpack"
  /\ UNCHANGED <<call, launch, wide, meta, round, waiting, scratch, kout, klse, out, lse>>

(* Packed rows back to heads; the identity when nothing was packed.        *)
Unpack ==
  /\ phase = "unpack"
  /\ phase' = "done"
  /\ out' = [i \in OutIndex |-> kout[<<i[1] * launch.groups + (i[2] % launch.groups), i[2] \div launch.groups>>]]
  /\ lse' = [i \in LseIndex |->
               klse[(i[1] \div launch.groups) * launch.total_q + i[2] * launch.groups + (i[1] % launch.groups)]]
  /\ UNCHANGED <<call, launch, wide, meta, round, waiting, scratch, kout, klse>>

(* The captured graph is replayed after the caller rewrote cu_q and seq_k. *)
Replay ==
  /\ phase = "done"
  /\ round < Rounds(call)
  /\ round' = round + 1
  /\ meta' \in Metadata(call)
  /\ phase' = "launch"
  /\ UNCHANGED <<call, launch, wide, waiting, scratch, kout, klse, out, lse>>

Terminating ==
  /\ phase = "rejected" \/ (phase = "done" /\ round = Rounds(call))
  /\ UNCHANGED vars

Next ==
  \/ Accept \/ Reject \/ LaunchSplitKernel
  \/ \E cta \in waiting : RunCta(cta) \/ RunCombine(cta)
  \/ NextKernel \/ CombineDone \/ Unpack \/ Replay \/ Terminating

Spec == Init /\ [][Next]_vars

-----------------------------------------------------------------------------
(***************************************************************************)
(* Conditions under which a call computes what it should; without them the *)
(* code goes wrong.  A tile without any key block in a launch that is not  *)
(* split makes the kernel store its LSE at a wrong place.                  *)
(***************************************************************************)
NoEmptyTile(c, m) ==
  LET l == Launch(c)
      q(b) == l.groups * (m.cu_q[b + 1] - m.cu_q[b])
      t(b, block) == TileOf(l, block, q(b), m.seq_k[b])
  IN  l.splits > 1 \/ \A b \in 1 .. c.batch, block \in 0 .. l.seqlen_q :
        block * kBlockM < q(b) => BlockMin(t(b, block), 0) < BlockMax(t(b, block), 0)

(* Scratch larger than an int can address needs 64-bit products.           *)
ProductsExact(c, build) ==
  \/ build = AddressProducts
  \/ Launch(c).splits > 1 =>
       Launch(c).splits * (Launch(c).b * Launch(c).h * Launch(c).seqlen_q) * HeadDim <= IntLimit

(***************************************************************************)
(* Every CTA works on a tile that satisfies what SplitTile assumes, so its *)
(* results apply: this is what dispatch and the packing check establish.   *)
(***************************************************************************)
LaunchesValidTiles ==
  phase = "attend" => \A cta \in waiting :
    TileOf(launch, cta[1], LenQ(Decode(cta).b), LenK(Decode(cta).b)) \in ValidTiles

SequenceOf(token) ==
  CHOOSE b \in 0 .. call.batch - 1 : meta.cu_q[b + 1] <= token /\ token < meta.cu_q[b + 2]

Expected(token, head) ==
  Row(round, SequenceOf(token), token, head, head \div (call.heads \div call.kv_heads),
      0 .. launch.splits - 1)

LiveTokens == 0 .. meta.cu_q[call.batch + 1] - 1

(***************************************************************************)
(* After a run every query row of every head carries its own result, of    *)
(* this run's metadata, with the contribution of every split; in a ragged  *)
(* batch, in a replay, and with packed heads.                              *)
(***************************************************************************)
OutputsComplete ==
  phase = "done" =>
    \A token \in LiveTokens, head \in 0 .. call.heads - 1 :
      out[<<token, head>>] = Expected(token, head)

(***************************************************************************)
(* The same for the log-sum-exp, which is returned as [nheads, total_q]    *)
(* ("For varlen paths: LSE is in [nheads, total_seqlen_q] format", flash.h *)
(* on unpadded_lse).                                                       *)
(***************************************************************************)
LseComplete ==
  phase = "done" =>
    \A token \in LiveTokens, head \in 0 .. call.heads - 1 :
      lse[<<head, token>>] = Expected(token, head)

(* No kernel stores outside the tensors it was given.                      *)
StoresInBounds ==
  phase \in {"attend", "combine", "unpack"} =>
    /\ DOMAIN klse = 0 .. launch.h * launch.total_q - 1
    /\ DOMAIN kout = (0 .. launch.total_q - 1) \X (0 .. launch.h - 1)
    /\ Split => /\ DOMAIN lseAccum = 0 .. launch.splits * LseSize - 1
                /\ DOMAIN outAccum = DOMAIN lseAccum

(* What memory f holds of this run is still in g.                          *)
Settled(f, g) ==
  \A a \in DOMAIN f : (f[a].kind = "row" /\ f[a].round = round) => g[a] = f[a]

(***************************************************************************)
(* The blocks of a kernel write disjoint places: nothing written in this   *)
(* round is written again before the round ends, whatever the order the    *)
(* blocks run in.                                                          *)
(***************************************************************************)
WrittenOnce ==
  [][(round' = round /\ phase \in {"attend", "combine"})
       => /\ Settled(lseAccum, lseAccum') /\ Settled(outAccum, outAccum')
          /\ Settled(kout, kout') /\ Settled(klse, klse')]_vars

(***************************************************************************)
(* Rows of the output tensor that belong to no sequence (the padding of a  *)
(* captured batch) keep what an earlier run or the caller left there, as   *)
(* long as the kernels write the output tensor or a view of it.            *)
(***************************************************************************)
PaddingUntouched ==
  (phase = "done" /\ (launch.groups = 1 \/ PackedOutputView)) =>
    \A i \in OutIndex : i[1] \notin LiveTokens =>
      out[i].kind \in {"caller", "row"} /\ out[i].round < round

(***************************************************************************)
(* Window arguments mean what the caller asked for: after the host has     *)
(* rewritten them, the kernel chosen by dispatch sees for every query row  *)
(* exactly the keys within window_left and window_right of its position,   *)
(* -1 meaning no limit and causal meaning none to the right.               *)
(***************************************************************************)
WindowAsRequested ==
  phase = "attend" => \A cta \in waiting :
    LET b == Decode(cta).b
        t == TileOf(launch, cta[1], LenQ(b), LenK(b))
        limit == IF call.causal THEN 0 ELSE call.window_right
    IN  \A r \in LiveRows(t) :
          Visible(t, r) =
            { k \in 0 .. t.K - 1 :
                LET ahead == k - (Token(t, r) + t.K - Tokens(t))
                IN  /\ call.window_left >= 0 => -ahead <= call.window_left
                    /\ limit >= 0 => ahead <= limit }
=============================================================================
