--------------------------- MODULE KvCacheService ---------------------------
(***************************************************************************)
(* The life of an engine that serves a model through one of the two        *)
(* adapters: which class each layer gets, whether the builder and the      *)
(* layers accept the configuration, which batches are captured in full     *)
(* CUDA graphs, and then steps in which every layer first writes its new   *)
(* keys and values to the paged cache and then attends over it.            *)
(*                                                                         *)
(* The cache is memory: a write and a read each compute addresses from     *)
(* their own view of the tensor.  A byte is abstracted to what was stored  *)
(* there: layer, request, position, token, head, K or V, number format.    *)
(* How the operator's kernels attend, and which route a long batch takes,  *)
(* is in ForwardLaunch and AttentionBackend.                               *)
(*                                                                         *)
(* A service (one engine and its model) has the fields                     *)
(*   adapter       "plugin" or "overlay"                                   *)
(*   capability    10 * major + minor of the device                        *)
(*   cache_dtype   --kv-cache-dtype, of the whole engine                   *)
(*   layers        sequence of [cache_dtype, shares]; a layer that shares  *)
(*                 uses the cache of layer 1                               *)
(*   dtype         of the model: "bf16" or "fp16"                          *)
(*   layout        "NHD" or "HND", as far as the backend leaves it open    *)
(*   heads, kv_heads, head_size, page_size, max_len                        *)
(*   window        sliding window, 0 for None                              *)
(*   decoder       decoder attention, as against encoder or cross          *)
(*   non_causal, softcap, sinks, trtllm, dcp                               *)
(*   uniform       query tokens of a decode row, drafts included           *)
(*   captures      token counts of the full CUDA graphs                    *)
(***************************************************************************)
EXTENDS Integers, Sequences, FiniteSets

CONSTANTS
  Services,       \* engines considered
  Requests,       \* requests that may be live at once
  NumPages,       \* pages of a layer's cache
  MaxSteps,       \* bound: engine steps
  MaxNew,         \* bound: new tokens of a request in one step
  ShortQuery,     \* 64 query rows
  LargestPage,    \* 64, the largest page of the generic kernels
  PageSizes,      \* {16, 32, 64}
  Window          \* 2048, the sliding window with a kernel

ASSUME ServiceAssumption ==
  /\ {NumPages, MaxSteps, MaxNew, ShortQuery, LargestPage, Window} \subseteq Nat \ {0}
  /\ PageSizes \subseteq 1 .. LargestPage
  /\ IsFiniteSet(Requests)

ServiceTypes ==
  [ adapter : {"plugin", "overlay"}, capability : Nat, cache_dtype : STRING,
    layers : Seq([cache_dtype : STRING, shares : BOOLEAN]),
    dtype : {"bf16", "fp16"}, layout : {"NHD", "HND"},
    heads : Nat \ {0}, kv_heads : Nat \ {0}, head_size : Nat, page_size : Nat \ {0},
    max_len : Nat, window : Nat, decoder : BOOLEAN, non_causal : BOOLEAN, softcap : BOOLEAN,
    sinks : BOOLEAN, trtllm : BOOLEAN, dcp : Nat, uniform : Nat \ {0}, captures : SUBSET Nat ]

(* A layer can only share a cache that an earlier layer writes.            *)
ASSUME ServicesAssumption ==
  Services \subseteq { s \in ServiceTypes : s.layers # << >> /\ ~ s.layers[1].shares }

VARIABLES
  service,    \* never changes
  pc,
  layer,      \* the layer being set up or run
  impl,       \* class of each layer selected so far
  graphs,     \* captured arguments by token count
  step,
  tokens,     \* by request: its tokens, each named by the step that brought it
  table,      \* by request: its pages
  batch,      \* requests of this step in batch order, and their query tokens
  cache,      \* by layer and address: what was stored there
  call        \* the last operator call of this step

setup  == <<service, impl, graphs>>
engine == <<step, tokens, table, batch>>
vars   == <<setup, pc, layer, engine, cache, call>>

-----------------------------------------------------------------------------
Layers == 1 .. Len(service.layers)
Plugin == service.adapter = "plugin"
Family100 == service.capability \div 10 = 10
AtMost(a, b) == IF a <= b THEN a ELSE b

E4M3 == {"fp8", "fp8_e4m3"}
CacheDtype(l) == service.layers[l].cache_dtype

(* extension_selected.                                                     *)
ExtensionSelected(cache_dtype) ==
  service.capability \in {86, 89, 120} /\ cache_dtype \in E4M3

(* sliding_window - 1, or -1 for none.                                     *)
Mut_WindowLeft_Inclusive == IF service.window = 0 THEN -1 ELSE service.window

WindowLeft == IF service.window = 0 THEN -1 ELSE service.window - 1

(* The layout the backend requires or the engine chose.                    *)
Layout ==
  IF Plugin THEN "NHD" ELSE IF Family100 THEN "HND" ELSE service.layout

-----------------------------------------------------------------------------
(* Addresses.  The tensor is (page, head, slot, K or V) to its users and   *)
(* in memory ordered by the layout.                                        *)
Halves == {0, 1}
Heads  == 0 .. service.kv_heads - 1
Addresses == 0 .. NumPages * service.page_size * service.kv_heads * 2 - 1

Offset(page, head, slot, half) ==
  2 * (IF Layout = "NHD"
       THEN (page * service.page_size + slot) * service.kv_heads + head
       ELSE (page * service.kv_heads + head) * service.page_size + slot) + half

(* Attention takes slots from dimension 1 and heads from dimension 2 of    *)
(* the view, the overlay's view being in memory order.                     *)
ViewPage == IF Layout = "NHD" THEN service.page_size ELSE service.kv_heads

ReadOffset(page, slot, head, half) ==
  IF Layout = "NHD" THEN Offset(page, head, slot, half) ELSE Offset(page, slot, head, half)

Garbage == << >>

Stored(r, i, l, head, half, format) ==
  <<r, i, tokens[r][i + 1], l, head, half, format>>

Format(cache_dtype) ==
  IF cache_dtype \in E4M3 THEN "e4m3"
  ELSE IF cache_dtype = "auto" THEN service.dtype ELSE cache_dtype

Owner(l) == IF service.layers[l].shares THEN 1 ELSE l

-----------------------------------------------------------------------------
NoBatch == [rows |-> << >>, q |-> << >>]
NoCall  == [batch |-> 0, tokens |-> 0, max_q |-> 0, max_k |-> 0, grouped |-> FALSE]

Init ==
  /\ service \in Services
  /\ pc = "select" /\ layer = 1
  /\ impl = << >> /\ graphs = << >>
  /\ step = 0
  /\ tokens = [r \in Requests |-> << >>]
  /\ table = [r \in Requests |-> << >>]
  /\ batch = NoBatch
  /\ cache = [l \in Layers |-> [a \in Addresses |-> Garbage]]
  /\ call = NoCall

(* The stock FlashAttention backend: FP8 caches need Hopper.               *)
StockSupports(l) == CacheDtype(l) = "auto" \/ service.capability = 90

(* supports_kv_cache_dtype and supports_combination.                       *)
PluginSupports(l) ==
  IF ExtensionSelected(CacheDtype(l))
  THEN service.head_size \in {128, 256} /\ service.dtype = "bf16" /\ ~ service.sinks
  ELSE StockSupports(l)

SupportsSink == Family100 /\ service.trtllm

OverlaySupports(l) ==
  /\ service.head_size \in {64, 128, 256, 512}
  /\ service.capability \in 80 .. 121
  /\ CacheDtype(l) \in {"auto", "fp8_e5m2", "nvfp4"} \cup E4M3
  /\ CacheDtype(l) = "nvfp4" => Family100 /\ service.trtllm
  /\ service.sinks => SupportsSink
  /\ service.page_size \in PageSizes

(* The backend is asked about one layer; the class then depends on the     *)
(* cache type of the engine (get_impl_cls, get_builder_cls).               *)
SelectLayer ==
  /\ pc = "select"
  /\ IF IF Plugin THEN PluginSupports(layer) ELSE OverlaySupports(layer)
     THEN /\ impl' = Append(impl, IF Plugin /\ ~ ExtensionSelected(service.cache_dtype)
                                  THEN "stock" ELSE "fp8")
          /\ IF layer < Len(service.layers)
             THEN layer' = layer + 1 /\ UNCHANGED pc
             ELSE layer' = 1 /\ pc' = IF Plugin THEN "capture" ELSE "construct"
     ELSE pc' = "refused" /\ UNCHANGED <<layer, impl>>
  /\ UNCHANGED <<service, graphs, engine, cache, call>>

(* FlashInferImpl.__init__ runs for every layer before any builder does.   *)
ConstructImpl ==
  /\ pc = "construct"
  /\ IF ~ service.decoder THEN pc' = "raised" /\ UNCHANGED layer
     ELSE IF layer < Len(service.layers) THEN layer' = layer + 1 /\ UNCHANGED pc
     ELSE layer' = 1 /\ pc' = "build"
  /\ UNCHANGED <<setup, engine, cache, call>>

(* FlashInferMetadataBuilder.__init__ for the cache group of a layer.      *)
BuilderRaises ==
  \/ CacheDtype(layer) = "nvfp4" /\ ~ service.trtllm
  \/ /\ service.page_size > LargestPage
     /\ ~ (Family100 /\ service.trtllm /\ service.heads \div service.kv_heads > 1)
  \/ service.capability = 90 /\ WindowLeft # -1
  \/ service.sinks /\ ~ SupportsSink

ConstructBuilder ==
  /\ pc = "build"
  /\ IF BuilderRaises THEN pc' = "raised" /\ UNCHANGED layer
     ELSE IF layer < Len(service.layers) THEN layer' = layer + 1 /\ UNCHANGED pc
     ELSE layer' = 1 /\ pc' = "capture"
  /\ UNCHANGED <<setup, engine, cache, call>>

-----------------------------------------------------------------------------
(* FlashInferImpl asks for FP8 queries where trtllm-gen would take them.   *)
QueryDtype(l) ==
  IF ~ Plugin /\ service.trtllm /\ Family100 /\ CacheDtype(l) # "auto"
  THEN "fp8" ELSE service.dtype

HeadPairs == {<<256, 1>>, <<256, 2>>, <<128, 4>>}

(* The configuration part of Fp8Attention.forward and Fa2Fp8KvImpl.forward.*)
Served(l) ==
  \/ impl[l] = "stock"
  \/ /\ service.dcp = 1
     /\ QueryDtype(l) = "bf16"
     /\ WindowLeft \in {-1, Window - 1}
     /\ ~ service.softcap
     /\ IF Plugin
        THEN /\ ExtensionSelected(CacheDtype(l))
             /\ service.head_size \in {128, 256}
             /\ service.decoder /\ ~ service.sinks
        ELSE /\ CacheDtype(l) \in E4M3
             /\ <<service.head_size, service.kv_heads>> \in HeadPairs
             /\ Layout = "NHD"

TableWidth == (service.max_len + service.page_size - 1) \div service.page_size

Mut_Maximum_LongestNow ==
  CHOOSE n \in 0 .. service.max_len + MaxNew :
    /\ \A r \in Requests : Len(tokens[r]) <= n
    /\ n = service.uniform \/ \E r \in Requests : Len(tokens[r]) = n /\ n > service.uniform

Maximum == AtMost(service.max_len, TableWidth * service.page_size)

(* Arguments of the operator that a captured call keeps.                   *)
Arguments(n, count, max_q) ==
  [ batch |-> n, tokens |-> count, max_q |-> max_q, max_k |-> Maximum,
    grouped |-> /\ ~ service.non_causal /\ WindowLeft = -1
                /\ max_q * (service.heads \div service.kv_heads) <= ShortQuery ]

(* FlashInferMetadataBuilder.get_cudagraph_support: full graphs of batches *)
(* with uniform rows, or only of rows with a single token.                 *)
NativeUniformGraphs ==
  \/ service.capability = 86 /\ service.dcp = 1 /\ ~ service.non_causal
  \/ service.capability # 90 /\ service.trtllm /\ ~ service.non_causal

(* The overlay's own, which also captures noncausal drafts; the plugin     *)
(* inherits that of the stock builder.                                     *)
UniformGraphs ==
  Plugin \/ (service.capability = 86 /\ service.dcp = 1) \/ NativeUniformGraphs

CapturedSizes ==
  { n \in service.captures : /\ UniformGraphs \/ service.uniform = 1
                             /\ n % service.uniform = 0 }

(* Capture runs every layer on a dummy batch of uniform rows.              *)
Capture(n) ==
  /\ pc = "capture"
  /\ n \in CapturedSizes \ DOMAIN graphs
  /\ IF \A l \in Layers : Served(l)
     THEN /\ graphs' = [m \in DOMAIN graphs \cup {n} |->
                          IF m = n THEN Arguments(n \div service.uniform, n, service.uniform)
                          ELSE graphs[m]]
          /\ UNCHANGED <<pc, layer>>
     ELSE /\ pc' = "raised"
          /\ layer' = CHOOSE l \in Layers : ~ Served(l) /\ \A k \in 1 .. l - 1 : Served(k)
          /\ UNCHANGED graphs
  /\ UNCHANGED <<service, impl, engine, cache, call>>

Ready ==
  /\ pc = "capture"
  /\ CapturedSizes \subseteq DOMAIN graphs
  /\ pc' = "idle"
  /\ UNCHANGED <<setup, layer, engine, cache, call>>

-----------------------------------------------------------------------------
(* The engine around the adapters (vLLM): it gives a request free pages,   *)
(* puts requests in any order in a batch, rejects draft tokens, and frees  *)
(* the pages of finished requests without clearing them.                   *)
FreePages == (0 .. NumPages - 1) \ UNION { { table[r][p] : p \in DOMAIN table[r] } : r \in Requests }

PagesFor(n) == (n + service.page_size - 1) \div service.page_size

Batches ==
  UNION { { [rows |-> rows, q |-> q] :
              rows \in { f \in [1 .. n -> Requests] : \A i, j \in 1 .. n : f[i] = f[j] => i = j },
              q \in [1 .. n -> 1 .. MaxNew] } : n \in 1 .. Cardinality(Requests) }

Grown(b, r) ==
  LET j == CHOOSE j \in DOMAIN b.rows : b.rows[j] = r
  IN  tokens[r] \o [i \in 1 .. b.q[j] |-> step + 1]

Schedule(b) ==
  /\ pc = "idle" /\ step < MaxSteps
  /\ \A j \in DOMAIN b.rows : Len(tokens[b.rows[j]]) + b.q[j] <= service.max_len
  /\ step' = step + 1
  /\ batch' = b
  /\ tokens' = [r \in Requests |-> IF \E j \in DOMAIN b.rows : b.rows[j] = r
                                   THEN Grown(b, r) ELSE tokens[r]]
  /\ LET missing == [r \in Requests |->
                       { <<r, p>> : p \in Len(table[r]) + 1 .. PagesFor(Len(tokens'[r])) }]
         wanted == UNION { missing[r] : r \in Requests }
     IN  /\ Cardinality(wanted) <= Cardinality(FreePages)
         /\ LET given == CHOOSE f \in [wanted -> FreePages] :
                           \A a, c \in wanted : f[a] = f[c] => a = c
            IN  table' = [r \in Requests |->
                            table[r] \o [k \in 1 .. Cardinality(missing[r]) |->
                                           given[<<r, Len(table[r]) + k>>]]]
  /\ pc' = IF service.dcp = 1 \/ impl[1] = "stock" THEN "update" ELSE "raised"
  /\ layer' = 1
  /\ UNCHANGED <<setup, cache, call>>

count == LET upTo[j \in 0 .. Len(batch.q)] == IF j = 0 THEN 0 ELSE upTo[j - 1] + batch.q[j]
         IN  upTo[Len(batch.q)]

(* Slots of the new tokens; padding tokens have none.                      *)
NewEntries ==
  UNION { { <<batch.rows[j], i, head, half>> :
              i \in Len(tokens[batch.rows[j]]) - batch.q[j] .. Len(tokens[batch.rows[j]]) - 1,
              head \in Heads, half \in Halves } : j \in DOMAIN batch.rows }

PageAt(r, i, page_size) == table[r][i \div page_size + 1]

Write(l) ==
  LET stores == { << Offset(PageAt(e[1], e[2], service.page_size), e[3],
                            e[2] % service.page_size, e[4]),
                     Stored(e[1], e[2], l, e[3], e[4], Format(CacheDtype(l))) >> : e \in NewEntries }
  IN  cache' = [cache EXCEPT ![Owner(l)] =
        [a \in Addresses |->
           IF \E s \in stores : s[1] = a THEN (CHOOSE s \in stores : s[1] = a)[2] ELSE @[a]]]

Mut_UpdateCache_WritesShared ==
  /\ pc = "update" /\ pc' = "forward"
  /\ IF impl[layer] = "stock" THEN UNCHANGED cache ELSE Write(layer)
  /\ UNCHANGED <<setup, layer, engine, call>>

(* do_kv_cache_update: a layer that shares another's cache skips it.       *)
UpdateCache ==
  /\ pc = "update" /\ pc' = "forward"
  /\ IF impl[layer] = "stock" \/ service.layers[layer].shares
     THEN UNCHANGED cache ELSE Write(layer)
  /\ UNCHANGED <<setup, layer, engine, call>>

(* A batch of uniform rows replays the smallest graph it fits in.          *)
Replays ==
  /\ \A j \in DOMAIN batch.q : batch.q[j] = service.uniform
  /\ \E n \in DOMAIN graphs : count <= n

ReplayedSize ==
  CHOOSE n \in DOMAIN graphs : count <= n /\ \A m \in DOMAIN graphs : count <= m => n <= m

MaxQuery == CHOOSE n \in 0 .. MaxNew : /\ \E j \in DOMAIN batch.q : batch.q[j] = n
                                       /\ \A j \in DOMAIN batch.q : batch.q[j] <= n

Forward ==
  /\ pc = "forward"
  /\ IF Served(layer)
     THEN /\ call' = IF impl[layer] = "stock" THEN NoCall
                     ELSE IF Replays THEN graphs[ReplayedSize]
                     ELSE Arguments(Len(batch.rows), count, MaxQuery)
          /\ IF layer < Len(service.layers)
             THEN pc' = "update" /\ layer' = layer + 1
             ELSE pc' = "sampled" /\ UNCHANGED layer
     ELSE pc' = "raised" /\ UNCHANGED <<call, layer>>
  /\ UNCHANGED <<setup, engine, cache>>

(* Some of a row's last tokens are rejected and will be replaced.          *)
Sample ==
  /\ pc = "sampled" /\ pc' = "idle"
  /\ \E rejected \in [DOMAIN batch.q -> 0 .. MaxNew - 1] :
       /\ \A j \in DOMAIN batch.q : rejected[j] < batch.q[j]
       /\ tokens' = [r \in Requests |->
            IF \E j \in DOMAIN batch.rows : batch.rows[j] = r
            THEN LET j == CHOOSE j \in DOMAIN batch.rows : batch.rows[j] = r
                 IN  SubSeq(tokens[r], 1, Len(tokens[r]) - rejected[j])
            ELSE tokens[r]]
  /\ batch' = NoBatch /\ call' = NoCall /\ layer' = 1
  /\ UNCHANGED <<setup, step, table, cache>>

Finish(r) ==
  /\ pc = "idle" /\ tokens[r] # << >>
  /\ tokens' = [tokens EXCEPT ![r] = << >>]
  /\ table' = [table EXCEPT ![r] = << >>]
  /\ UNCHANGED <<setup, pc, layer, step, batch, cache, call>>

Stopped == pc \in {"refused", "raised"} \/ (pc = "idle" /\ step = MaxSteps)
Terminating == Stopped /\ UNCHANGED vars

Next ==
  \/ SelectLayer \/ ConstructImpl \/ ConstructBuilder
  \/ \E n \in service.captures : Capture(n)
  \/ Ready
  \/ \E b \in Batches : Schedule(b)
  \/ UpdateCache \/ Forward \/ Sample
  \/ \E r \in Requests : Finish(r)
  \/ Terminating

Spec == Init /\ [][Next]_vars

-----------------------------------------------------------------------------
(* The layer of the last call.                                             *)
CalledLayer == IF pc = "sampled" THEN layer ELSE layer - 1
HasCall == pc \in {"update", "sampled"} /\ call # NoCall

KernelReads(l, r, i, head, half) ==
  LET known == i \div ViewPage + 1 \in DOMAIN table[r]
      a == ReadOffset(PageAt(r, i, ViewPage), i % ViewPage, head, half)
  IN  IF known /\ a \in Addresses THEN cache[Owner(l)][a] ELSE Garbage

(***************************************************************************)
(* Whenever a layer has attended, every key and value of every request of  *)
(* the batch that its kernel could see is the one the owner of the cache   *)
(* wrote for the request's present token at that position, for that head,  *)
(* as E4M3 bytes: not a rejected draft, not the previous owner of a page,  *)
(* not the bytes of a layer that only shares the cache, not another slot   *)
(* or head of a differently ordered cache (do_kv_cache_update, forward).   *)
(***************************************************************************)
ReadsWhatWasWritten ==
  HasCall =>
    \A j \in DOMAIN batch.rows :
      LET r == batch.rows[j]
      IN  \A i \in 0 .. Len(tokens[r]) - 1 : \A head \in Heads, half \in Halves :
            KernelReads(CalledLayer, r, i, head, half)
              = Stored(r, i, Owner(CalledLayer), head, half, "e4m3")

(***************************************************************************)
(* The arguments of a call - for a replay, those fixed when the graph was  *)
(* captured on a dummy batch - hold for the batch it serves: rows, tokens, *)
(* longest query and longest context.                                      *)
(***************************************************************************)
CallFitsBatch ==
  HasCall =>
    /\ Len(batch.rows) <= call.batch
    /\ count <= call.tokens
    /\ \A j \in DOMAIN batch.rows : /\ batch.q[j] <= call.max_q
                                    /\ Len(tokens[batch.rows[j]]) <= call.max_k

(* What the READMEs of the adapters list as supported.                     *)
Documented ==
  /\ service.dtype = "bf16" /\ service.dcp = 1
  /\ service.window \in {0, Window}
  /\ service.decoder /\ ~ service.softcap /\ ~ service.sinks
  /\ \A l \in Layers : CacheDtype(l) \in E4M3
  /\ IF Plugin
     THEN service.capability \in {86, 89, 120} /\ service.head_size \in {128, 256}
     ELSE /\ service.capability = 86
          /\ <<service.head_size, service.kv_heads>> \in HeadPairs
          /\ service.layout = "NHD" /\ service.page_size \in PageSizes

(***************************************************************************)
(* A documented configuration passes every check on its way - selection,   *)
(* the stock builder's constructor, capture, each layer's own test - and   *)
(* no step of it is refused, causal or not, with or without a window.      *)
(***************************************************************************)
DocumentedIsServed == pc \in {"refused", "raised"} => ~ Documented

(***************************************************************************)
(* "other native FlashAttention configurations delegate to the stock       *)
(* implementation" (plugin README): no layer without an E4M3 cache, that   *)
(* supports_combination has left to the stock backend and the stock        *)
(* backend has accepted, is refused by the extension.                      *)
(***************************************************************************)
DelegatedLayersAreServed ==
  Plugin /\ pc = "raised" => ExtensionSelected(CacheDtype(layer))
=============================================================================
