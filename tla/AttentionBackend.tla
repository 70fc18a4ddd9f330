-------------------------- MODULE AttentionBackend --------------------------
(***************************************************************************)
(* The two vLLM adapters, the plugin (backend.py) and the older source     *)
(* overlay (flashinfer.py): metadata of a batch (build), the choice of a   *)
(* path (forward), the native BF16 prefill (Fa2Prefill with the page       *)
(* gather), its paged fallback (PagedPrefill), and the operator call.      *)
(*                                                                         *)
(* Two actors: the host thread issues work and may run out of memory; the  *)
(* device executes the stream later, in order.  What the operator returns  *)
(* for an accepted call is its promise (KvGeometry!Visible); the sibling   *)
(* modules show that the kernels keep it.  An output row is abstracted to  *)
(* the request, KV head and keys it was computed from.                     *)
(*                                                                         *)
(* A batch has the fields                                                  *)
(*   q, k          query and key lengths of the requests (device, exact)   *)
(*   upper         seq_lens_cpu_upper_bound, or << >> for None             *)
(*   causal, window_left, capturing, supported                             *)
(*   heads, kv_heads, page_size, pages, max_model_len                      *)
(*   rows          output rows, padding included                           *)
(*   adapter       "plugin" or "overlay"                                   *)
(*   enabled       FA2_FP8KV_PREFILL of the overlay                        *)
(*   splits        FA2_FP8KV_SPLITS of the overlay                         *)
(***************************************************************************)
EXTENDS HostForward, Sequences

CONSTANTS
  Batches,        \* batches considered
  ShortQuery,     \* 64 query tokens
  ChunkTokens,    \* Fa2Prefill.chunk_tokens, 65536
  QueryTokens,    \* PagedPrefill.query_tokens, 2048
  CausalSplits,   \* 128
  WindowSplits    \* 32

ASSUME BackendAssumption ==
  /\ {ShortQuery, ChunkTokens, QueryTokens} \subseteq Nat \ {0}
  /\ QueryTokens <= MaxQueries
  /\ ShortQuery <= kBlockM /\ ShortQuery <= MaxQueries
  /\ CausalSplits \in 1 .. MaxSplitCount /\ WindowSplits \in 1 .. MaxSplitCount

BatchTypes ==
  [ q : Seq(Nat), k : Seq(Nat), upper : Seq(Nat), causal : BOOLEAN, window_left : Int,
    capturing : BOOLEAN, supported : BOOLEAN, heads : Nat \ {0}, kv_heads : Nat \ {0},
    page_size : Nat, pages : Nat, max_model_len : Nat, rows : Nat,
    adapter : {"plugin", "overlay"}, enabled : BOOLEAN, splits : 1 .. MaxSplitCount ]

(***************************************************************************)
(* What the engine hands over: decoder requests, whose context ends with   *)
(* their queries and fits the page table; a CPU bound on the contexts that *)
(* is exact for the rows of a prefill.                                     *)
(***************************************************************************)
BatchFits(b) ==
  /\ b.q # << >> /\ Len(b.k) = Len(b.q)
  /\ b.heads % b.kv_heads = 0 /\ b.window_left >= -1
  /\ b.page_size >= PageQuantum /\ b.page_size % PageQuantum = 0
  /\ AtMost(b.max_model_len, b.pages * b.page_size) \in 1 .. MaxKeys
  /\ \A i \in 1 .. Len(b.q) :
       b.q[i] <= b.k[i] /\ b.k[i] <= AtMost(b.max_model_len, b.pages * b.page_size)
  /\ b.upper # << >> =>
       /\ Len(b.upper) = Len(b.q)
       /\ \A i \in 1 .. Len(b.q) : b.q[i] > ShortQuery => b.upper[i] = b.k[i]

ASSUME BatchesAssumption == Batches \subseteq { b \in BatchTypes : BatchFits(b) }

VARIABLES
  batch,                \* never changes
  prefill_context,      \* Fp8Metadata
  prefill_query_starts,
  pc,
  head, chunk,          \* the loops of Fa2Prefill.forward
  paged,                \* arguments of PagedPrefill.forward_batch
  row, start,           \* its loops
  stream,               \* work issued to the device and not executed yet
  unpacked,             \* device: the BF16 workspace
  accumulated,          \* device: the running result of one KV head
  output                \* device: by <<row, head>>

metadata == <<prefill_context, prefill_query_starts>>
native   == <<head, chunk>>
fallback == <<paged, row, start>>
device   == <<unpacked, accumulated, output>>
vars == <<batch, metadata, pc, native, fallback, stream, device>>

-----------------------------------------------------------------------------
num_reqs == Len(batch.q)
Requests == 1 .. num_reqs

(* query_start_loc: entry b is the first token of request b.               *)
QueryStarts ==
  LET upTo[b \in 0 .. num_reqs] == IF b = 0 THEN 0 ELSE upTo[b - 1] + batch.q[b]
  IN  [b \in 1 .. num_reqs + 1 |-> upTo[b - 1]]

count         == QueryStarts[num_reqs + 1]           \* num_actual_tokens
max_query_len == CHOOSE n \in { batch.q[b] : b \in Requests } :
                   \A b \in Requests : batch.q[b] <= n
group         == batch.heads \div batch.kv_heads
capacity      == batch.pages * batch.page_size

Value(seq, kv, keys) == [kind |-> "mean", seq |-> seq, kv |-> kv, keys |-> keys]
Caller == [kind |-> "caller", seq |-> 0, kv |-> 0, keys |-> {}]
Zero   == [Caller EXCEPT !.kind = "zero"]
Wrong  == [Caller EXCEPT !.kind = "wrong"]

OutIndex == (0 .. batch.rows - 1) \X (0 .. batch.heads - 1)
NoWorkspace == [kv |-> 0, start |-> 0, length |-> 0]
NoCall      == [starts |-> << >>, lengths |-> << >>, maximum |-> 0]

Init ==
  /\ batch \in Batches
  /\ prefill_context = 0
  /\ prefill_query_starts = << >>
  /\ pc = "build"
  /\ head = 0 /\ chunk = 1
  /\ paged = NoCall /\ row = 1 /\ start = 0
  /\ stream = << >>
  /\ unpacked = NoWorkspace
  /\ accumulated = << >>
  /\ output = [i \in OutIndex |-> Caller]

Jump(from, to) == pc = from /\ pc' = to

Plugin == batch.adapter = "plugin"

Mut_Build_OneRequestOnly ==
  /\ Plugin
  /\ Jump("build", "forward")
  /\ prefill_context' =
       IF batch.causal /\ max_query_len > ShortQuery /\ num_reqs = 1 /\ batch.upper # << >>
       THEN batch.upper[1] ELSE 0
  /\ prefill_query_starts' =
       IF batch.causal /\ max_query_len > MaxQueries /\ num_reqs = 1
       THEN QueryStarts ELSE << >>
  /\ UNCHANGED <<batch, native, fallback, stream, device>>

(* Fp8MetadataBuilder.build.                                               *)
Build ==
  /\ Plugin
  /\ Jump("build", "forward")
  /\ prefill_context' =
       IF batch.causal /\ max_query_len > ShortQuery /\ num_reqs = 1 /\ batch.upper # << >>
       THEN batch.upper[1] ELSE 0
  /\ prefill_query_starts' =
       IF batch.causal /\ max_query_len > MaxQueries THEN QueryStarts ELSE << >>
  /\ UNCHANGED <<batch, native, fallback, stream, device>>

(* Fa2Fp8KvMetadataBuilder.build keeps no query starts.                    *)
BuildOverlay ==
  /\ ~ Plugin
  /\ Jump("build", "forward")
  /\ prefill_context' =
       IF batch.causal /\ max_query_len > ShortQuery /\ num_reqs = 1 /\ batch.upper # << >>
       THEN batch.upper[1] ELSE 0
  /\ UNCHANGED <<batch, prefill_query_starts, native, fallback, stream, device>>

-----------------------------------------------------------------------------
(* Fp8Attention.forward, and Fa2Fp8KvImpl.forward where it differs.        *)
Issue(op) == stream' = Append(stream, op)

FillZero ==
  /\ Jump("forward", "returned")
  /\ count = 0
  /\ Issue([op |-> "fill"])
  /\ UNCHANGED <<batch, metadata, native, fallback, device>>

Unsupported ==
  /\ Jump("forward", "raised")
  /\ count # 0 /\ ~ batch.supported
  /\ UNCHANGED <<batch, metadata, native, fallback, stream, device>>

FullCausal == batch.causal /\ batch.window_left = -1

TakesNative ==
  /\ prefill_context >= max_query_len /\ max_query_len > ShortQuery
  /\ FullCausal /\ ~ batch.capturing

OverlayTakesNative == batch.enabled /\ TakesNative

RunsNative == IF Plugin THEN TakesNative ELSE OverlayTakesNative

TakesPagedBatch ==
  /\ prefill_query_starts # << >>
  /\ FullCausal /\ ~ batch.capturing

(* Fa2Prefill refuses a geometry that is not causal prefill.               *)
StartNative ==
  /\ count # 0 /\ batch.supported /\ RunsNative
  /\ Jump("forward", IF batch.heads % batch.kv_heads = 0 /\ prefill_context >= count
                     THEN "gather" ELSE "raised")
  /\ head' = 0 /\ chunk' = 1
  /\ UNCHANGED <<batch, metadata, fallback, stream, device>>

Maximum == AtMost(batch.max_model_len, capacity)

(* Enter PagedPrefill.forward_batch.                                       *)
EnterPaged(starts, lengths, maximum) ==
  /\ paged' = [starts |-> starts, lengths |-> lengths, maximum |-> maximum]
  /\ row' = 1
  /\ start' = starts[1]

StartPagedBatch ==
  /\ Jump("forward", "paged")
  /\ count # 0 /\ batch.supported /\ ~ RunsNative /\ TakesPagedBatch
  /\ EnterPaged(prefill_query_starts, batch.k, Maximum)
  /\ UNCHANGED <<batch, metadata, native, stream, device>>

(* An operator call on token rows first .. of the batch, for the requests  *)
(* seqs, with the metadata the kernels will read from the device.          *)
Operator(call, first, cu_q, seq_k, seqs) ==
  [op |-> "forward", call |-> call, first |-> first, cu_q |-> cu_q, seq_k |-> seq_k, seqs |-> seqs]

OperatorCall(n, tokens, max_q, max_k, causal, window_left, splits, pack_gqa) ==
  [ batch |-> n, tokens |-> tokens, heads |-> batch.heads, kv_heads |-> batch.kv_heads,
    page_size |-> batch.page_size, pages |-> batch.pages, max_q |-> max_q, max_k |-> max_k,
    causal |-> causal, window_left |-> window_left, window_right |-> -1,
    splits |-> splits, pack_gqa |-> pack_gqa, contiguous |-> TRUE ]

DirectCall ==
  OperatorCall(num_reqs, count, max_query_len, Maximum, batch.causal, batch.window_left,
    IF max_query_len <= ShortQuery
    THEN IF batch.causal THEN CausalSplits ELSE WindowSplits ELSE 1,
    FullCausal /\ max_query_len * group <= ShortQuery)

(* A call the operator refuses raises out of forward().                    *)
Direct ==
  /\ Plugin
  /\ count # 0 /\ batch.supported /\ ~ RunsNative /\ ~ TakesPagedBatch
  /\ Jump("forward", IF Accepted(DirectCall) THEN "returned" ELSE "raised")
  /\ IF Accepted(DirectCall)
     THEN Issue(Operator(DirectCall, 0, QueryStarts, batch.k, [b \in Requests |-> b]))
     ELSE UNCHANGED stream
  /\ UNCHANGED <<batch, metadata, native, fallback, device>>

OverlayCall ==
  [DirectCall EXCEPT !.splits =
     IF max_query_len > ShortQuery THEN 1 ELSE IF batch.causal THEN batch.splits ELSE WindowSplits]

DirectOverlay ==
  /\ ~ Plugin
  /\ count # 0 /\ batch.supported /\ ~ RunsNative
  /\ Jump("forward", IF Accepted(OverlayCall) THEN "returned" ELSE "raised")
  /\ IF Accepted(OverlayCall)
     THEN Issue(Operator(OverlayCall, 0, QueryStarts, batch.k, [b \in Requests |-> b]))
     ELSE UNCHANGED stream
  /\ UNCHANGED <<batch, metadata, native, fallback, device>>

-----------------------------------------------------------------------------
(* Fa2Prefill.forward: the prefix in chunks, then the queries' own keys.   *)
Chunks ==
  LET prefix_length == prefill_context - count
      n == CeilDiv(prefix_length, ChunkTokens)
  IN  [i \in 1 .. n |-> [start  |-> (i - 1) * ChunkTokens,
                         length |-> AtMost(ChunkTokens, prefix_length - (i - 1) * ChunkTokens),
                         causal |-> FALSE]]
      \o <<[start |-> prefix_length, length |-> count, causal |-> TRUE]>>

(* torch.ops.fa2_fp8kv_prefill.gather: checks, workspace, kernel.          *)
Gather ==
  LET c == Chunks[chunk]
      valid == /\ num_reqs = 1            \* one row of the page table
               /\ c.start >= 0 /\ c.length > 0 /\ c.start + c.length <= capacity
  IN  /\ Jump("gather", IF valid THEN "attend" ELSE "raised")
      /\ IF valid
         THEN Issue([op |-> "gather", kv |-> head, start |-> c.start, length |-> c.length])
         ELSE UNCHANGED stream
      /\ UNCHANGED <<batch, metadata, native, fallback, device>>

Mut_Attend_NeverRestarts ==
  LET c == Chunks[chunk]
  IN  /\ Jump("attend", IF chunk = Len(Chunks) THEN "copy" ELSE "gather")
      /\ Issue([op |-> "attend", causal |-> c.causal, first |-> c.start = 0 /\ head = 0])
      /\ chunk' = chunk + 1
      /\ UNCHANGED <<batch, metadata, head, fallback, device>>

(* Attention of all queries over the workspace, merged into the running    *)
(* result; the first chunk of a head starts it.                            *)
Attend ==
  LET c == Chunks[chunk]
  IN  /\ Jump("attend", IF chunk = Len(Chunks) THEN "copy" ELSE "gather")
      /\ Issue([op |-> "attend", causal |-> c.causal, first |-> c.start = 0])
      /\ chunk' = chunk + 1
      /\ UNCHANGED <<batch, metadata, head, fallback, device>>

CopyHead ==
  /\ Jump("copy", IF head + 1 = batch.kv_heads THEN "returned" ELSE "gather")
  /\ Issue([op |-> "copy", kv |-> head])
  /\ head' = head + 1
  /\ chunk' = 1
  /\ UNCHANGED <<batch, metadata, fallback, device>>

(* An allocation fails: PagedPrefill.forward takes over.  Work already in  *)
(* the stream is not taken back.                                           *)
OutOfMemory ==
  /\ pc \in {"gather", "attend"}
  /\ pc' = "paged"
  /\ EnterPaged(<<0, count>>, <<prefill_context>>, prefill_context)
  /\ UNCHANGED <<batch, metadata, native, stream, device>>

-----------------------------------------------------------------------------
(* PagedPrefill.forward_batch: rows in order, each in chunks of queries.   *)
PagedEnd == paged.starts[row + 1]

QueryChunk == AtMost(QueryTokens, PagedEnd - start)

Mut_PagedLength_BeforeChunk == paged.lengths[row] - (PagedEnd - start)

(* The context of a query chunk ends at its own last query.                *)
PagedLength == paged.lengths[row] - (PagedEnd - start - QueryChunk)

PagedChunkCall == OperatorCall(1, QueryChunk, QueryChunk, paged.maximum, TRUE, -1, 1, FALSE)

Mut_PagedChunk_NoAdvance ==
  /\ row < Len(paged.starts) /\ start < PagedEnd
  /\ Jump("paged", IF Accepted(PagedChunkCall) THEN "paged" ELSE "raised")
  /\ IF Len(stream) < 2
     THEN Issue(Operator(PagedChunkCall, start, <<0, QueryChunk>>, <<PagedLength>>, <<row>>))
     ELSE UNCHANGED stream
  /\ UNCHANGED <<batch, metadata, native, paged, row, start, device>>

PagedChunk ==
  /\ row < Len(paged.starts) /\ start < PagedEnd
  /\ Jump("paged", IF Accepted(PagedChunkCall) THEN "paged" ELSE "raised")
  /\ IF Accepted(PagedChunkCall)
     THEN Issue(Operator(PagedChunkCall, start, <<0, QueryChunk>>, <<PagedLength>>, <<row>>))
     ELSE UNCHANGED stream
  /\ start' = start + QueryChunk
  /\ UNCHANGED <<batch, metadata, native, paged, row, device>>

PagedNextRow ==
  /\ row < Len(paged.starts) /\ start >= PagedEnd
  /\ Jump("paged", IF row + 2 > Len(paged.starts) THEN "returned" ELSE "paged")
  /\ row' = row + 1
  /\ UNCHANGED <<batch, metadata, native, paged, start, stream, device>>

-----------------------------------------------------------------------------
(* Device side.  flash_attn_varlen_func aligns a causal mask bottom right. *)
ChunkRow(i, causal) ==
  Value(1, unpacked.kv,
        { unpacked.start + j : j \in { j \in 0 .. unpacked.length - 1 :
                                         causal => j <= i + unpacked.length - count } })

Merge(a, b) ==
  IF a.kind = "mean" /\ a.kv = b.kv /\ a.keys \cap b.keys = {}
  THEN [a EXCEPT !.keys = @ \cup b.keys] ELSE Wrong

(* What the operator promises for token t and head h of the call.          *)
Promised(o, t, h) ==
  LET b == CHOOSE b \in 1 .. Len(o.seqs) : o.cu_q[b] <= t - o.first /\ t - o.first < o.cu_q[b + 1]
      l == Launch(o.call)
      r == (t - o.first - o.cu_q[b]) * l.groups
      tile == TileOf(l, r \div kBlockM, (o.cu_q[b + 1] - o.cu_q[b]) * l.groups, o.seq_k[b])
  IN  Value(o.seqs[b], h \div group, Visible(tile, r % kBlockM))

Written(o, t) == o.cu_q[1] <= t - o.first /\ t - o.first < o.cu_q[Len(o.cu_q)]

Effect(o) ==
  CASE o.op = "fill" ->
         /\ output' = [i \in OutIndex |-> Zero]
         /\ UNCHANGED <<unpacked, accumulated>>
    [] o.op = "gather" ->
         /\ unpacked' = [kv |-> o.kv, start |-> o.start, length |-> o.length]
         /\ UNCHANGED <<accumulated, output>>
    [] o.op = "attend" ->
         /\ accumulated' = [i \in 0 .. count - 1 |->
                              IF o.first THEN ChunkRow(i, o.causal)
                              ELSE Merge(accumulated[i], ChunkRow(i, o.causal))]
         /\ UNCHANGED <<unpacked, output>>
    [] o.op = "copy" ->
         /\ output' = [i \in OutIndex |->
                         IF i[1] < count /\ i[2] \div group = o.kv THEN accumulated[i[1]] ELSE output[i]]
         /\ UNCHANGED <<unpacked, accumulated>>
    [] o.op = "forward" ->
         /\ output' = [i \in OutIndex |->
                         IF Written(o, i[1]) THEN Promised(o, i[1], i[2]) ELSE output[i]]
         /\ UNCHANGED <<unpacked, accumulated>>

Execute ==
  /\ stream # << >>
  /\ stream' = Tail(stream)
  /\ Effect(Head(stream))
  /\ UNCHANGED <<batch, metadata, pc, native, fallback>>

-----------------------------------------------------------------------------
HostStep ==
  \/ Build \/ BuildOverlay \/ FillZero \/ Unsupported
  \/ StartNative \/ StartPagedBatch \/ Direct \/ DirectOverlay
  \/ Gather \/ Attend \/ CopyHead
  \/ PagedChunk \/ PagedNextRow

HostDone == pc \in {"returned", "raised"}
Terminating == HostDone /\ stream = << >> /\ UNCHANGED vars

Next == HostStep \/ OutOfMemory \/ Execute \/ Terminating

(* The engine's thread runs and the GPU works its stream off.              *)
Fairness == WF_vars(HostStep) /\ WF_vars(Execute)

Spec     == Init /\ [][Next]_vars
FairSpec == Spec /\ Fairness

-----------------------------------------------------------------------------
(* What attention over the whole context gives token i of request b.       *)
ExpectedKeys(b, i) ==
  LET here == i + batch.k[b] - batch.q[b]
  IN  { k \in 0 .. batch.k[b] - 1 :
          /\ batch.causal => k <= here
          /\ batch.window_left # -1 => k >= here - batch.window_left }

Returned == pc = "returned" /\ stream = << >>

(***************************************************************************)
(* Whatever path a batch takes - native prefill, native prefill that ran   *)
(* out of memory after any number of chunks and heads, paged chunks, one   *)
(* call - every query token of every head ends with its own request's      *)
(* keys, its KV head, causally aligned, each key once; the rows behind the *)
(* batch stay the caller's, and a batch without tokens is all zero.        *)
(***************************************************************************)
OutputIsAttention ==
  Returned =>
    \A i \in OutIndex :
      output[i] =
        IF count = 0 THEN Zero
        ELSE IF i[1] >= count THEN Caller
        ELSE LET b == CHOOSE b \in Requests : QueryStarts[b] <= i[1] /\ i[1] < QueryStarts[b + 1]
             IN  Value(b, i[2] \div group, ExpectedKeys(b, i[1] - QueryStarts[b]))

(***************************************************************************)
(* What ForwardLaunch and PagedCopy assume of the device metadata of a     *)
(* call: no request has more queries than max_q or keys than max_k, or     *)
(* fewer keys than queries.                                                *)
(***************************************************************************)
CallsWithinEnvelope ==
  \A n \in 1 .. Len(stream) : stream[n].op = "forward" =>
    LET o == stream[n]
    IN  \A b \in 1 .. Len(o.seqs) :
          /\ o.cu_q[b + 1] - o.cu_q[b] \in 0 .. o.call.max_q
          /\ o.seq_k[b] \in o.cu_q[b + 1] - o.cu_q[b] .. o.call.max_k

(***************************************************************************)
(* "This change does not extend long-query support to sliding-window,      *)
(* noncausal, or full CUDA Graph prefill execution" (plugin README): no    *)
(* other batch of a supported configuration is ever refused.  The overlay  *)
(* has no chunked route: it takes long queries only natively.              *)
(***************************************************************************)
RefusedOnlyLongSpecial ==
  pc = "raised" =>
    \/ ~ batch.supported
    \/ /\ max_query_len > MaxQueries
       /\ \/ ~ FullCausal \/ batch.capturing
          \/ ~ Plugin /\ ~ (batch.enabled /\ num_reqs = 1 /\ batch.upper # << >>)

(* forward() returns or raises, and the device finishes what it was given. *)
CallEnds == <>(HostDone /\ stream = << >>)
=============================================================================
