-------------------------- MODULE MCKvCacheService --------------------------
(***************************************************************************)
(* Instances of KvCacheService: pages of two slots, two requests, decode   *)
(* rows of one or two tokens, and engines inside and outside of what the   *)
(* adapters support.                                                       *)
(***************************************************************************)
EXTENDS KvCacheService

CONSTANTS r1, r2

Own(cache_dtype)  == [cache_dtype |-> cache_dtype, shares |-> FALSE]
Sharing(cache_dtype) == [cache_dtype |-> cache_dtype, shares |-> TRUE]

PluginService ==
  [ adapter |-> "plugin", capability |-> 86, cache_dtype |-> "fp8",
    layers |-> <<Own("fp8")>>, dtype |-> "bf16", layout |-> "NHD",
    heads |-> 4, kv_heads |-> 2, head_size |-> 256, page_size |-> 2, max_len |-> 3,
    window |-> 0, decoder |-> TRUE, non_causal |-> FALSE, softcap |-> FALSE, sinks |-> FALSE,
    trtllm |-> FALSE, dcp |-> 1, uniform |-> 2, captures |-> {2, 4} ]

OverlayService ==
  [PluginService EXCEPT !.adapter = "overlay", !.cache_dtype = "fp8_e4m3",
                        !.layers = <<Own("fp8_e4m3"), Sharing("fp8_e4m3")>>]

PluginServices ==
  { PluginService,
    [PluginService EXCEPT !.capability = 120, !.head_size = 128, !.uniform = 1],
    [PluginService EXCEPT !.window = 2048, !.kv_heads = 1, !.non_causal = TRUE],
    [PluginService EXCEPT !.window = 1024],
    [PluginService EXCEPT !.capability = 80],
    [PluginService EXCEPT !.capability = 90],
    [PluginService EXCEPT !.dtype = "fp16"],
    [PluginService EXCEPT !.dcp = 2, !.captures = {}],
    [PluginService EXCEPT !.softcap = TRUE],
    [PluginService EXCEPT !.decoder = FALSE],
    [PluginService EXCEPT !.cache_dtype = "auto", !.layers = <<Own("auto")>>,
                          !.max_len = 2],
    [PluginService EXCEPT !.layers = <<Own("fp8"), Own("auto")>>, !.captures = {}] }

OverlayServices ==
  { OverlayService,
    [OverlayService EXCEPT !.layers = <<Own("fp8_e4m3")>>, !.kv_heads = 4, !.head_size = 128,
                           !.window = 2048, !.non_causal = TRUE],
    [OverlayService EXCEPT !.layout = "HND"],
    [OverlayService EXCEPT !.capability = 100, !.trtllm = TRUE],
    [OverlayService EXCEPT !.capability = 90, !.window = 2048],
    [OverlayService EXCEPT !.capability = 80, !.kv_heads = 1, !.layers = <<Own("fp8_e4m3")>>,
                           !.max_len = 2, !.uniform = 1, !.captures = {1}],
    [OverlayService EXCEPT !.cache_dtype = "fp8_e5m2", !.layers = <<Own("fp8_e5m2")>>],
    [OverlayService EXCEPT !.cache_dtype = "nvfp4", !.layers = <<Own("nvfp4")>>],
    [OverlayService EXCEPT !.decoder = FALSE],
    [OverlayService EXCEPT !.sinks = TRUE],
    [OverlayService EXCEPT !.head_size = 64],
    [OverlayService EXCEPT !.page_size = 3] }

MCServices == PluginServices \cup OverlayServices
=============================================================================
