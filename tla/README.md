# Verification of the FP8 KV-cache FlashAttention-2 port

The repository is a port of the FlashAttention-2 split-KV forward kernel to a paged FP8 (E4M3) KV
cache on SM86, with what surrounds it: a PyTorch operator, two vLLM adapters, two prefill routes
that are built on the operator or bypass it, and the containers that ship the compiled artifacts.
This directory holds TLA+ modules of that program, TLC configurations that check them on small
instances, and theorems checked by TLAPS for every value of the constants.

Reading order: `KvGeometry`, `SplitTile`, `CtaPipeline`, `PagedCopy` (one CTA and its tile), `WarpLanes`,
`CombineThreads`, `TileThreads` (the same tile, thread by thread), then `HostForward`, `ForwardLaunch` (one operator call), `AttentionBackend` (one batch of the engine),
`KvCacheService` (the life of an engine), and `ArtifactExport`, which stands alone.

## 1. Inventory

| Component | State | Operations | Talks to |
|---|---|---|---|
| Split-KV kernel, per row block (`headers/flash_fwd_kernel.h`, `mask.h`, `softmax.h`, `block_info.h`) | registers of a CTA: running softmax (`acc_o`, `row_max`, `row_sum`), loop index | early exit, masking iterations, unmasked iterations, epilogue, combine | global scratch (`out_accum`, `lse_accum`), output |
| The same per thread (`utils.h`, `mask.h`, `softmax.h`, `kernel_traits.h`) | accumulator registers of each lane, its copy of two rows' maxima and partial sums; `sLSE` in shared memory | masks by lane index, quad shuffles, reinterpreting scores as operand, three phases of the combine kernel | lanes through shuffles, warps through `sLSE` |
| Shared-memory pipeline (`flash_fwd_kernel.h`, `utils.h`, `kernel_traits.h`) | `sQ`, `sK`, `sV`, FP8 staging tiles, cp.async groups | copy, fence, wait, barrier, convert, clear window rows, two products, stage and store output | warps through shared memory and `__syncthreads` |
| Paged addressing (`utils.h`) | a thread's rows, block table | one table lookup per thread and key block, predicated copies | the cache |
| Operator call (`fp8_attn.cu`, `flash_fwd_launch_template.h`, `flash.h`) | arguments captured once, device metadata rewritten between replays, temporaries | checks, window normalisation, automatic splits, GQA packing, grid, unpacking | both kernels, the adapters |
| BF16 prefill (`fa2_prefill.py`, `prefill.cu`) | unpacked workspace, running result and LSE | gather, attend, merge, copy per head | `flash_attn_varlen_func` (external) |
| Paged prefill (`paged_prefill.py`) | row, offset in the row | one operator call per chunk of queries | operator |
| vLLM adapters (`integration/vllm_plugin/.../backend.py`, end of `integration/vllm/flashinfer.py`) | metadata of a batch (`prefill_context`, `prefill_query_starts`), class of each layer, the paged cache, captured graphs | selection, constructors, graph support, cache update, build, forward with its routes, fallback on out-of-memory | the engine, operator, both prefills, CUDA graphs |
| Artifact export (`containers/export.sh`) | a shared volume, staging directories | find, stage, copy, verify, publish, verify the winner | other exporters |
| Build and packaging (`build.py`, `setup.sh`, `containers/build_artifacts.py`, `check_upstream.py`) | files | compile, write manifest | compilers |
| Checks and benchmarks (`check_*.py`, `bench*.py`) | - | numeric comparisons | read as statements of intent |

How they interact. An adapter turns a batch into one or more operator calls or runs the BF16
prefill head by head; everything it issues goes to one CUDA stream and is executed later. An
operator call launches one grid of CTAs and, for more than one split, a combine grid behind it.
Inside a CTA warps share memory and synchronise by barriers and cp.async waits. A call may be
captured in a graph and replayed with other contents in `cu_q` and `seq_k`.

What is hard here, and where the properties aim:

- warps that run ahead of each other between barriers, and copies that land at any time;
- integer block ranges that come from truncating divisions of negative numbers, and splits that do
  not divide the number of blocks;
- softmax rows that have seen no key (minus infinity), and masked keys whose value is NaN;
- lanes that work out from their index which row and key a register holds, quads that agree on a maximum
  in every iteration but on a sum only at the end, a shared array that is filled by rows, read by columns and
  overwritten in place;
- `int` products that wrap before they become 64-bit offsets;
- address arithmetic that differs between the prefix (padded), variable-length, packed and split
  layouts and must agree between two kernels and the host;
- graph replays on stale temporaries;
- an out-of-memory fallback in the middle of work already in the stream;
- lengths that are only upper bounds when the CPU reads them;
- one cache tensor that writer and reader address through different views, and pages that are reused,
  shared between layers and hold rejected drafts;
- a backend chosen by the cache type of one layer and a class chosen by that of the engine;
- exporters that race, are killed, or copy wrong bytes, also of the list that the copies are checked with.

`PROJECT.json` lists each at its source line with the properties that cover it.

What makes each component correct: *the tile* - every live row ends as the average over exactly its
visible keys, computed once, without NaN; *the pipeline* - a product reads only its own tile and the
warps meet at the same barrier; *paged addressing* - every used row comes from its own page;
*the call* - every row of every head is at the place the caller expects, of this run's metadata,
nothing is written twice or outside; *the adapters* - whichever route is taken the output is the
attention of each request, and no call leaves the limits the kernels rely on; *the service* - a layer reads
back exactly what was written for the tokens of its batch, a captured call fits every batch that replays
it, and what is documented as supported is not refused; *export* - a reader
never sees a partial directory, nor a wrong file that the directory's own `SHA256SUMS` lists.

## 2. Modules

**KvGeometry** (constant level). The integer geometry of one row block: `FirstBlock`, `LastBlock`
(`n_block_min`/`max`), division between splits (`BlocksPerSplit`, `BlockMin`, `BlockMax`), number of
masking iterations, mask limits, and as reference `Visible`, bottom-right-aligned attention.
`TruncDiv` is C++ division. `ValidTiles` says what the host lets through; `ForwardLaunch` checks that
it does (`LaunchesValidTiles`).

**SplitTile** extends it. State: per split CTA `pc`, `n_block`, `step` (`masking_step`), `acc` (the set of
keys folded per row), `nan`; in global memory `oaccum`, `lseaccum`, `out`, `lse`. One action per
exit or iteration of `compute_attn_1rowblock_splitkv` (`Return`, `EarlyExit`, `Prologue`,
`MaskingIteration`, `UnmaskedIteration`, `Epilogue`) and `CombineRow` for
`combine_attn_seqk_parallel`. Data is the set of keys a number averages; NaN arises where the code
multiplies garbage V rows by zero or rescales from minus infinity unchecked.

**WarpLanes** (constant level), **CombineThreads** and **TileThreads** are the same two kernels, thread by thread.
`WarpLanes` has the lanes: `AccRow`, `AccCol`, `OperandRow`, `OperandCol` are the fragment layout of the tensor-core
instruction (external, `mma.m16n8k16`), `MaskRow`, `MaskCol` what the mask believes about it, `Aregs` the
reinterpretation of scores as left operand, `Allreduce` the shuffles. A sum of exponentials is a bag of terms, each
with the maximum it is relative to; it is `Usable` only when each term is in it once, relative to one maximum.
`TileThreads` has the softmax state of each lane (`rowMax`, `rowSum`, `accO` per slot, a lane's copy of a
row) and the actions of `SplitTile` on it. `CombineThreads` is `combine_attn_seqk_parallel`: each warp does
`LoadLse`, `Reduce`, `StoreWeights`, `Accumulate` on `sLSE` with a `CombineBarrier` after the first and the third.
`S == INSTANCE SplitTile WITH acc <- ..., nan <- ..., lse <- ...` is the refinement mapping: a row's keys are
those of the partial sums of the lanes of its quad. The CTAs of a launch share nothing, so they run one after the
other here; their interleavings are in `SplitTile`.

**CtaPipeline** and **TileStream**. `CtaPipeline` has one program point per wait, barrier, copy, conversion and product of
the main loop, for both builds (`FA2_FP8KV_PIPELINE` or not), with and without a window and splits.
A tile is one slice per warp; `Land` completes a copy at any time after it was issued. `TileStream`
is the abstract promise: each warp folds each tile once, whole, in order, and results leave only when
all are through. `Stream == INSTANCE TileStream WITH used <- ..., stored <- ...` is the refinement
mapping: a pair counts when its second product is done.

**PagedCopy**. One thread of the copies: `resolve_thread_kv_page_slice_offset` with its clamp, first
(predicated, V cleared) and later (unpredicated) loads of K and V.

**HostForward** (constant level) and **ForwardLaunch**. `Accepted`, window normalisation, `SplitCount`,
`Launch` are the host part of `forward()` and `dispatch()`. `ForwardLaunch` runs a call: `Accept` or
`Reject`, `LaunchSplitKernel`, `RunCta` in any order, `NextKernel`, `RunCombine` in any order,
`Unpack`, `Replay`. A value is the provenance of a row (query, head, KV head, splits, replay), so a
store at a wrong address shows as a wrong provenance, a `Mixed` one, or a grown `DOMAIN`. The `int` products in
the scratch addresses are `IntProduct`: signed overflow is undefined, so each of the four (`AddressProducts`) either
wraps at `IntLimit` or is computed in 64 bits, by the variable `wide`, which stands for the build and is chosen once.

**AttentionBackend**. Both adapters, both prefills and the operator as one system: the host appends
operations to `stream`, `Execute` applies them to the device later. `Build`/`BuildOverlay` compute
the metadata; the routes are `FillZero`, `Unsupported`, `StartNative`, `StartPagedBatch`, `Direct`,
`DirectOverlay`; `Gather`, `Attend`, `CopyHead` are `Fa2Prefill.forward`; `PagedChunk`,
`PagedNextRow` are `PagedPrefill`; `OutOfMemory` may strike between any two steps of the native
route. It extends `HostForward`: a call the operator refuses raises. What one operator call computes
is taken from `Visible` - the result established by `SplitTile` and `ForwardLaunch`.

**KvCacheService**. An engine from start to its last step, through one of the two adapters.
`SelectLayer` asks the backend about one layer (`PluginSupports`: `supports_kv_cache_dtype`,
`supports_combination`; `OverlaySupports`: the class methods of `FlashInferBackend`) and picks the class
(`get_impl_cls`, `get_builder_cls`); `ConstructImpl` and `ConstructBuilder` are the overlay's two
constructors; `Capture` and `Ready` the full CUDA graphs (`get_cudagraph_support`); then each step is
`Schedule`, per layer `UpdateCache` (`do_kv_cache_update`) and `Forward`, and `Sample`; `Finish` ends a
request. The cache is addressed physically: the write goes through `Offset`, the read through
`ReadOffset`, each following the views its code takes of the tensor in the layout the backend requires,
and an address holds the provenance of a byte. `Served` is the configuration part of the two `forward`
methods. The engine around the adapters is external and modelled from how they rely on it: the block
allocator gives out any free pages without clearing them, batches have any order, any number of a row's
last tokens is rejected, and a batch of uniform rows replays the smallest graph that holds it. Assumed:
layers that share a cache have equal scales (numbers are not modelled), engines of the plugin have no
sharing layers, and the stock backend does what it promises.

**ArtifactExport**. Shells of `export.sh` on one volume; `Kill` skips the EXIT trap and restarts the
container, `CommandFails` runs it, `CopyFile` may deliver wrong bytes. `SHA256SUMS` is not in its own list
(`build_artifacts.py:78-80`), so its copy is state of its own: `CopyList` may change or lose lines of it.
`Verified(dir, list)` is `sha256sum -c`: against the image's list at lines 9 and 18 (`VerifyFound`,
`VerifyOther`), against the staged copy at line 15 (`VerifyStaging`). A line counts as lost when the check does not
look at its file; BusyBox, which the image uses, fails on a malformed line, which is therefore "wrong".
A shell that has renamed its directory has not ended yet (`renamed`): killed there, it comes back and finds its own
directory.

**Compositions.** `SplitTile` EXTENDS `KvGeometry`; `TileThreads` EXTENDS `CombineThreads`, which EXTENDS
`WarpLanes`, which EXTENDS `KvGeometry`, and implements `SplitTile`; `ForwardLaunch` and `AttentionBackend` EXTEND
`HostForward`, which EXTENDS `KvGeometry`. The layers meet at stated interfaces rather than in one
state space: `LaunchesValidTiles` (the call establishes what the tile assumes), `CallFitsBatch` (a replayed call keeps limits that hold),
`AdaptersMeetTheContract` (a theorem: the adapters establish what the call assumes of its arguments and of device metadata;
`CallsWithinEnvelope` is the part the run checks), `VisibleKeysInRange` (a
theorem: the ranges used by the tile contain every key the reference needs).

Definitions whose name begins with `Mut_` are not part of the model: each is a wrong variant of the
definition it is named after, stated next to it, and documents that the properties detect that bug.

## 3. Runs

| Run | Question | Bounds, and why they are enough |
|---|---|---|
| `split_tile_d256` | In every interleaving of the split CTAs and combine rows, does each live row get exactly its visible keys, once, without NaN? Does the launch end? | `kBlockM/kBlockN = 4/2`, the ratio of the head-dimension 256 kernel (64/32); up to 5 queries, 9 keys (two row blocks, five key blocks, lengths not aligned), 1 to 3 splits, windows {0,1,3}, group sizes {1,2}, causal, local, plain |
| `tile_threads` | Do lanes, registers, shuffles and the combine kernel's shared array compute what `SplitTile` computes on rows? | 2 warps of 4 x 2 lanes with 4 rows per half atom: two warps, both row halves, several atoms per tile and two per operand atom, as in the code's 4 warps of 8 x 4. The tile is 16 x 16, square as for head dimension 128 (64 x 64), where an unaligned length makes the causal diagonal cross two blocks. Combine blocks of 2 rows; 16 splits at most, so that a thread holds two values (`LsePerThread`), as the code's hold four: 1, 2, 5 and 10 splits leave both partly filled. Causal, local, plain; groups {1,2}; `seqlen_q` equal to or above the sequence |
| `cta_pipeline` | Do waits and barriers keep every product on its own tile, and does the pipeline implement `TileStream`, with its liveness? | 2 warps (one ahead of the other), up to 4 blocks and every sub-range, all 8 compile-time modes; a first, two steady and a last iteration. No symmetry, which is unsound for liveness. All six properties in one run; a third warp adds no kind of lag between barriers, since warps share buffers only and every barrier needs all |
| `forward_launch` | Is every row of every head where the caller expects it, also when a captured call is replayed on rewritten metadata? | limits of the port scaled to 4 queries, 8 keys, 4 splits; combine blocks keep their real 4 rows; batches of two with lengths 0, 1, max; calls chosen for two row blocks with splits, several heads per KV head, packing with and without a view, refused packing, all window/causal combinations; three padded calls are run twice, from any metadata to any metadata. Products wrap at `IntLimit` = 4096, exactly the size of the largest scratch among these calls (16 rows of 256), as 2^31 elements are for the code |
| `paged_copy` | Is one table lookup per thread and block enough? | 8 keys per block, 2 rows per thread, pages {2,4,6,8,10,16} (below, equal to, above and not commensurate with a block), up to 26 keys |
| `artifact_export` | Is what is published complete and final? | 2 exporters (a winner and a loser; one of them killed and run again acts as a third), 2 files (so a partial copy exists, and a list can lose one line and keep one), 1 kill, 2 bad copies (a wrong file and the list that would have told), each anywhere |
| `attention_backend` | Whichever route, is the output attention? | one query tile is 2 queries, the operator takes 4, the prefix is unpacked 3 keys at a time; contexts up to 13 (four prefix chunks), up to 10 queries (three query chunks), pairs of requests, both adapters |
| `kv_cache_service` | Does every layer read what was written for it, does a captured call fit its batches, is every documented configuration served? | pages of 2 slots, 3 pages, 2 requests of at most 3 tokens, 3 steps, at most 2 new tokens per request and step: a context crosses a page, a draft is rejected and overwritten, a page changes its owner, and a step may be eager or a replay of a larger graph. 24 engines: both adapters, head counts 1, 2, 4, windows, NHD and HND, shared caches, and every reason to refuse one at a time |
| `lse_of_empty_tile` | finding 1, below | one call, unsplit, ragged batch |
| `scratch_beyond_int` | finding 4, below | one call with 3 splits, whose scratch of 12 rows exceeds `IntLimit` = 2048, every combination of wrapping and 64-bit products |
| `page_lookup_past_sequence` | finding 2, below | as `paged_copy` |
| `mixed_cache_types` | finding 3, below | as `kv_cache_service` |

`forward_launch` leaves out metadata with a live tile that has no key block in an unsplit launch
(`NoEmptyTile`): that case is finding 1 and has its own run. Every other empty sequence, empty split
and empty tile is in.

Type invariants are kept where a proof rests on them (SplitTile, PagedCopy, ArtifactExport) and in CtaPipeline; the other
properties are:

- `FoldedAreVisible`, `NoNaN`, `SplitsDisjoint`, `ResultIsAttention`, `Termination` (SplitTile);
- `NoSharedRace` (CombineThreads), `QuadAgrees`, `ResultIsAttention`, `ImplementsSplitTile` (TileThreads);
- `ProductReadsItsTile`, `BarriersMatch`, `OutputStaged`, `QuietAtTheEnd`, `ImplementsTileStream` (CtaPipeline);
- `RowsFromTheirPage`, `NoStaleV`, `LookupNearSequence` (PagedCopy);
- `LaunchesValidTiles`, `WindowAsRequested`, `OutputsComplete`, `LseComplete`, `StoresInBounds`, `WrittenOnce`, `PaddingUntouched` (ForwardLaunch);
- `PublishedIsComplete`, `SuccessMeansPublished`, `NoLitter`, `PublishedOnce`, `AllExit` (ArtifactExport);
- `OutputIsAttention`, `CallsWithinEnvelope`, `RefusedOnlyLongSpecial`, `CallEnds` (AttentionBackend);
- `ReadsWhatWasWritten`, `CallFitsBatch`, `DocumentedIsServed` (KvCacheService).

Deadlock is checked in every run; systems that end have a `Terminating` step that is only enabled
when they really have finished.

### Fairness

- SplitTile: weak fairness of the next-state relation; the GPU schedules every CTA of a grid
  eventually, and no CTA waits for another within a grid.
- CtaPipeline: weak fairness per warp, of the landing of a warp's copies, and of the barrier: warps of a resident CTA keep being
  scheduled and cp.async copies complete. `WaitK` alone may not be taken while a copy is open, hence
  the separate fairness of landing.
- ArtifactExport: weak fairness of each shell's next command. `Kill`, `CommandFails` and `RenameFails` have none: they may happen or
  not. Kills are bounded by `MaxKills`; with unboundedly many, nothing ends.
- AttentionBackend: weak fairness of the host step (the engine's thread runs) and of `Execute` (the device
  works off its stream). `OutOfMemory` has none.

## 4. Theorems

Checked by `tlapm`, for every value of the constants that satisfies the named assumptions. `ServiceProofs` holds the
theorems of two components, the engine and the init containers that bring it its artifacts; they share no constant
and no variable, and no theorem of one cites the other.

| Module | Assumptions | Result |
|---|---|---|
| `KvGeometryProofs` | `BlocksArePositive` | `SplitsOwnDifferentBlocks`, `SplitsOwnEveryBlock`: the ranges of the splits partition the tile's range. `VisibleKeysInRange`: no key a live row may see lies outside that range. `OnlyLastBlockIsRagged`, `MaskIsExact`, `MaskingCoversDiagonal`: a block behind the masking iterations needs no mask, and the mask of the others keeps exactly the visible keys |
| `SplitTileProofs` | also `TilesAreValid` | `SplitTileTypes`; `SplitsStayDisjoint`: partial results that are added never share a key; `FoldedStayVisible`, `NaNNeverStored`; `KernelComputesAttention`: `ResultIsAttention` for every tile |
| `TileThreadsProofs` | `BlocksArePositive`, `TileOfWarps`, `CombineShape`, `TilesAreValid` | `ThreadsImplementTile`: `Spec => ImplementsSplitTile`, the two kernels thread by thread are `SplitTile`; with `KernelComputesAttention`, `ThreadsComputeAttention`: `ResultIsAttention` for every tile, block size, split count and number and size of warps; `QuadsAgree`: `QuadAgrees` for every tile, block size, number of warps and quad of lanes; `CombineIsRaceFree`: `NoSharedRace` for every number of warps, splits and rows; `MaskKnowsItsScores` and `ScoresStayInPlace`: the mask and the operand view agree with the accumulator's layout on every register |
| `CtaPipelineProofs` | those of `CtaPipeline` | `PipelineTypes`, `WarpsMeetAtBarriers`, `NoTileIsRefilledEarly`, `OutputIsStagedBeforeStores`, `NoCopyLandsOnOutput`: all invariants of the run, for any number of warps and blocks; `PipelineImplementsStream`: `Spec => Stream!Spec`, the safety part of the refinement |
| `ForwardLaunchProofs` | also `LimitsAssumption`, `WidthAssumption`, `CallsAssumption`, `MetadataAssumption` | `EveryTileIsValid`; `WindowIsHonoured` (for `max_q <= max_k`); `StoresStayInBounds`, `OutputIsComplete`, `LseIsComplete`, `PaddingIsUntouched`, `BlocksWriteOnce` (under `ExactProducts` and `NoEmptyTiles`); `KeysForEveryQuery`: what is enough for the second of these |
| `PagedCopyProofs` | `PagedCopyAssumption` | `PagedCopyTypes`; `OneLookupIsEnough`; `VIsNeverStale`; `LookupStaysNear` |
| `AttentionBackendProofs` | `BackendAssumption`, `BatchesAssumption`, `LimitsAssumption`, `BlocksArePositive` | `AdaptersMeetTheContract`; `CallsStayWithinEnvelope`; `OnlyLongSpecialRefused`; `EveryRouteIsAttention`: `OutputIsAttention` for every batch and chunk size, whenever memory runs out |
| `ServiceProofs`, engine | `ServiceAssumption`, `ServicesAssumption` | `DocumentedConfigurationsAreServed`; `CallsFitTheirBatch`; `AttentionReadsWhatWasWritten`, from `EngineInvariant`: every safety property of `KvCacheService`, for any engine, requests, pages and number of steps |
| `ServiceProofs`, artifacts | `ExportAssumption` | `ExportTypes`; `OneFaultIsNotPublished`; `SecondSuccessConfirms`; `PublishedStays`; `OnlyKillsLitter` |

The inductive invariants:

- `SplitInv == TypeOK /\ LoopInRange /\ FoldsOwnKeys`. Disjointness of what was folded is not inductive:
  nothing stops a CTA from folding a foreign block unless its loop index is known to stay in its own range
  (`LoopInRange`), and what it has folded must be known to come from that range and not from above the
  current index (`FoldsOwnKeys`). With `SplitsOwnDifferentBlocks`, disjointness follows.
- `FoldInv` and `ResultInv` sharpen it to equality: between iterations a live row has folded exactly the visible keys
  of the blocks its CTA has left behind, and a stored partial result has those of the whole range of its split. The step
  needs the geometry: an iteration without a mask folds a whole block, which is right only behind the
  masking iterations (`MaskingCoversDiagonal`) and only because the ragged block comes first
  (`OnlyLastBlockIsRagged`). That the splits' results add up to all visible keys is `SplitsOwnEveryBlock` with
  `VisibleKeysInRange`.
- `RaceInv == cpc \in [Warps -> Places] /\ (Loading \/ Weighting \/ Summing)`. That a race needs two accesses since the last
  barrier is no help by itself; the invariant says that all warps are in one phase and which accesses a phase makes. Within
  a phase, `LoadCellIsOwn` and `TransposeCellIsOwn` (a place in a grid has one row and one column) give each thread its own
  places.
- `LaneInv`, for `QuadAgrees`. That the lanes of a quad agree is not inductive: a lane can only count a new key once if no
  lane has counted it, and after a shuffle a maximum is common only if the lanes together held the maximum of the row. The invariant
  says for each slot which keys it may have counted (`CountsOf`: those of its own columns, `LanePlace`, in the blocks passed), that the sum has each of them once
  relative to the slot's maximum, that this maximum is the one over all keys the row has met (`KeysOfRow`), and that the output accumulator
  has the terms of the whole row (`LanesOf`). `FoldKeepsLanes` is the step: the quad of a row meets every key of the block in one register (`KeyPlace`, `LanesDiffer`),
  the shuffles give each lane the maximum over its quad (`GroupMax`), rescaling moves every term from the old
  maximum to the new one (`RescaleOnce`), and the operand view puts each score on its own row and key. Of `Allreduce` it needs that the exchanges
  visit each lane of the group exactly once (`AllreduceStages`, `Halving`): the group sizes are the five that
  the template takes (`ShuffleSizes`), so the stages are unrolled.
- `CombineInv == Ordered /\ \A w : WarpHolds(w)`. It says for each warp and point of the combine kernel what its places in `sLSE`, its
  registers and its rows of `lse` hold: after the load the finite partial sums and minus infinity (`LoadedFor`), behind the
  first barrier the same read by columns (`ColumnsFor`: every place is loaded by some thread, `CellsAreReached`), after the
  shuffles the sum of the row (`ReducedFor`, `SumsFor`), then the weights relative to it (`WeightsFor`), and behind the second
  barrier all weights (`AllWeighted`). `Ordered` adds that a row of the output that has been written belongs to a finished
  block or to a warp that is through, so it is written once. A step of a warp must not spoil what the others hold: that is
  `TransposeCellIsOwn`, together with `RaceInv`. That the shuffles add up the row is `GroupSumIs`: the threads of
  a group hold disjoint parts (`PartsDiffer`) and together every part.
- `TileInv == LaneInv /\ RaceInv /\ CombineInv` carries the refinement. A row's keys in `SplitTile` are the union of what its quad
  has counted (`AbsAcc`), and its log-sum-exp counts when its output is there (`AbsLse`): the kernel writes `lse` before
  it accumulates the output, in an earlier step, so `CombineRow` is the step `Accumulate` and the
  steps before it stutter (`ReduceStutters`: no output of a row in work has been written). An iteration maps by `FoldLanes`
  (`FoldMaps`). The epilogue maps because the sum over the quad has each key of the row once (`TotalIs`), so that
  all lanes of a row store the same (`PartialIs`). `WeightedSumIs` is the combination. `ThreadsComputeAttention`
  then instantiates `SplitTileProofs` with the same mapping (`Proved`), whose definitions expand to those of `S` (`SameSteps`).
- `PipelineInv == TypeOK /\ Together /\ \A w : WarpInv(w)`. Between two barriers all warps are in one phase of one
  iteration (`Together`: `Phase`, `Index`), and for each warp the program point determines which copies may be in flight
  (`InFlight`), which tile its slice of each buffer holds or awaits (`KSlice`, `VSlice`, `QSlice`), what the running product
  has read (`ReadSoFar`) and which pairs are complete (`Multiplied`). A slice is written by its own warp and read by all:
  `ProductReadsItsTile` follows because a reader's phase puts every writer at a point where its slice holds that tile,
  also a warp that is ahead (`Ahead`). None of the run's invariants is inductive without it.
- `LaunchInv == Fixed /\ ScratchInv /\ KernelOutInv /\ OutInv /\ Returned`. A place in the scratch has the partial result
  of its own row and split exactly when the CTA of that row has run (`ScratchInv`), a place in the kernel's output has the
  final value when the block that completes its row has run and otherwise something older (`KernelOutInv`), and
  `out` and `lse` get them at the end. It rests on the address maps: `Flat`, `Place` and `OutPlace` are injective and
  `Decode` and `CombineTarget` are their inverses, for every shape, by uniqueness of quotient and remainder.
- `HostInv == BuildInv /\ NativeInv /\ PagedInv /\ CallsMeetContract /\ (pc = "raised" => MayRefuse)` with types. What
  was issued stays within its contract only if the next call will, so the invariant keeps what each route knows at each of
  its points: what `build` stored is what it computed (`BuildInv`), the loops of the native route stay in range
  (`NativeInv`), and the fallback's arguments are the batch's own, also after running out of memory in the middle
  (`PagedInv`). The lemmas under it: query starts are ordered prefix sums (`StartsFacts`, `StartsOrdered`), chunks of the prefix
  are adjacent and end at the queries (`ChunksFacts`), pages suffice (`PagesSuffice`), a chunk ends at its own last query
  (`ChunkGeometry`).
- `StreamInv`, for `OutputIsAttention`. What the device holds says little while work waits in the stream, so the invariant is
  about the state it will have reached when it has caught up: there are states `d[1] .. d[Len(stream) + 1]`, the first the present
  one, each the effect of one waiting operation on the one before (`Applied`), and the last satisfies `Ahead`. An `Execute` step
  drops the first of them and leaves the last alone (`ExecutedAhead`); a host step appends one (`IssuedAhead`), so that
  each action is argued as if the device ran in step with the host. `Ahead` says which places of the output are final
  (`Settled`: heads already copied, tokens before `start`), what the running result has folded (`Folded`: the keys before
  the current chunk, for each query) and what the workspace holds between a gather and its attention. Running out of memory
  settles nothing, and the fallback starts at token 0, so what the interrupted route still writes comes first. That one
  call promises attention is `WholeBatchPromise` and `ChunkPromise`: the rewritten window, the packed rows and the chunk's
  shortened context select exactly `ExpectedKeys`.
- `PagedInv` (of `PagedCopyProofs`) `== TypeOK /\ AtFirstBlock /\ PastFirstBlock /\ RowsFromTheirPage /\ NoStaleV`. The unpredicated
  loads are only right because a block past the first is full; `PastFirstBlock` and `AtFirstBlock` relate
  program point and index so that this is known. The arithmetic core is that a slice of
  `kGmemRowsPerThread` rows aligned to its own size never crosses a page whose size is a multiple of it,
  and that the clamp moves only slices without a used row, by less than a slice behind the sequence (`ClampBound`).
- `ServiceInv == SetupInv /\ HoldsPages /\ PagesHaveOneOwner /\ BatchInv /\ CallInv /\ CallFitsBatch /\ CacheInv`.
  What a layer reads cannot be argued from its last write alone: the bytes of a token may be many steps old, and every step
  since has written other addresses of the same cache. `TokensHeld` (in `CacheInv`) therefore says at every point of every
  step that each layer with a cache of its own holds the bytes of each token of each request, except those
  of the present step it has not come to yet (`Pending`). A write keeps what is held because two tokens never
  share an address (`TokenHasAddress`): in both layouts `Offset` has one preimage (`OffsetIsOwn`, by uniqueness of quotient
  and remainder), and a page is in one place of one table (`PagesHaveOneOwner`), which scheduling keeps because new
  pages are free and handed out once (`ScheduledPages`), and rejection and finishing because they only
  shorten (`CacheAtRest`). Then `CalledLayers`: the layer that attended, and the owner of its cache, passed their test, so the
  cache is in the order attention reads and the bytes are E4M3. For `CallFitsBatch`, `CapturesUniform` remembers what a
  graph was captured with, and `BatchInv` that contexts stay within the model's length. `DocumentedIsServed`
  needs only `SetupInv` and that the overlay alone goes through the stock constructors (`OverlayConstructs`).
- `ExportInv == TypeOK /\ StagingReady /\ PublishedIsComplete /\ SuccessShared`. `StagingReady`
  counts: the bad copies that a staging directory shows, a wrong file and a spoilt list, were separate ones
  (`FaultsCounted`); it is whole when it is checked, and agrees with its own list when it is renamed. So a wrong file
  that passes line 15 is one whose line is lost, and both are faults (`CheckedMayBePublished`). `SuccessShared` says of
  two shells that have renamed or succeeded that the files agree with the image's list: the second of them either
  compared, or could not have renamed. Nobody but its owner writes a staging
  directory. `LitterInv` adds that only a shell between `mktemp` and the end of its `mv` or its last check has one.

The hypotheses of the results on `ForwardLaunch`:

- `CallsAssumption` and `MetadataAssumption` type the calls and say what `forward()` cannot check because it is on the
  device: `cu_q` is a prefix sum inside `q`, no sequence has more than `max_q` queries or `max_k` keys.
- `ExactProducts`: the build multiplies scratch offsets in 64 bits, or the scratch has at most `IntLimit` elements.
  Without it the theorems are false; finding 4 is the counterexample.
- `NoEmptyTiles`: in an unsplit launch every row block with a query has a key block. Without it they are false;
  finding 1 is the counterexample. `KeysForEveryQuery` proves it for metadata in which no sequence has more queries
  than keys, and `AdaptersMeetTheContract` proves that the adapters only produce such metadata.
- `max_q <= max_k` in `WindowIsHonoured`. `forward()` does not check it, and it is needed: with a left window, no right
  limit and `max_q > max_k + 1`, the host replaces the missing right limit by `max_k` (`LaunchRight`), and a query
  that stands before the first key would lose the keys farther ahead of it than `max_k`. The adapters never make such a call (`AdaptersMeetTheContract`).

The hypotheses of the results on `AttentionBackend` are those on the constants:

- `BackendAssumption`: a short query fits one row block and the operator (64 = `kBlockM`, at most 2048), a chunk of the
  fallback fits the operator (`paged_prefill.py:21-22`), the split counts are ones the operator takes.
- `BatchesAssumption`: what the engine hands over (`BatchFits`; external). Decoder requests, so that a context ends with its
  queries; contexts within the model's limit and the page table, and that limit within the operator's 262144; whole head groups;
  pages the operator takes; a CPU bound on the context that is exact for prefill rows (`check_mixed_prefill.py:79-80`).
  `FA2_FP8KV_SPLITS` is between 1 and 128.

The hypotheses of the results on `KvCacheService`: `ServicesAssumption` types the engines (`ServiceTypes`; external) and says
that the first layer has a cache of its own, since a layer can only share one that an earlier layer writes.
`ServiceAssumption` bounds nothing but the supported page sizes by the largest page of the generic kernels.
The engine around the adapters (vLLM's scheduler and page allocator) is part of the
model, not of the hypotheses: free pages go to one request, rejected tokens are the last of a row.

Only model-checked: liveness (`Termination`, `AllExit`, `CallEnds`, liveness part of `ImplementsTileStream`), which
rests on fairness and ENABLED. Every invariant and every other action or refinement property of the passing runs is a theorem. What a recursive definition computes for all inputs is out of the provers' reach, and
`Allreduce` is one; where a proof needs an induction over a number it takes a least counterexample
instead (`LeastNatural`). No module here declares a RECURSIVE operator.

## 5. Findings

1. **LSE address of an empty tile** (`headers/flash_fwd_kernel.h:556`, run `lse_of_empty_tile`). The early
   exit of a tile without key blocks computes its LSE address by the padded layout also when the launch
   is not split, where the epilogue uses the `[heads, tokens]` layout that `flash.h:148` describes. In a
   ragged batch the row's own LSE is left unwritten and another place gets the infinity.
2. **Block-table clamp** (`headers/utils.h:322`, run `page_lookup_past_sequence`). The comment at
   `utils.h:315-316` says the clamp avoids reading past the end of the block table; because the last row
   is rounded up to a slice, threads behind the sequence may read the entry after the sequence's last page.
   The value is only used for rows that are predicated off (`RowsFromTheirPage`), and the entry is never
   further than one past (`LookupNearSequence`).
3. **Mixed cache types under the plugin** (`integration/vllm_plugin/fa2_fp8kv_vllm/backend.py:135`, run
   `mixed_cache_types`). The plugin's README (lines 11-13) says that other configurations delegate to the stock
   implementation. Support is decided by the cache type of the layer, but the class by that of the engine:
   a layer with an `auto` cache in an FP8 engine is accepted on behalf of the stock backend, gets
   `Fp8Attention` and is refused there. Engines whose layers all have the engine's cache type are not
   affected (`DocumentedIsServed`).
4. **Scratch offsets in `int`** (`headers/flash_fwd_kernel.h:554`, run `scratch_beyond_int`). The row offsets of the early
   exit (554), the epilogue (1099) and the combine kernel (1308), and its step between splits (1352), multiply in
   32 bits before they become `index_t`, while the scratch is allocated in 64. `forward()` bounds queries and splits
   but no product, so a call of more than 2^31 scratch elements is accepted and its rows go to, or are merged from,
   other places. The plugin asks for 128 splits for up to 64 queries (`backend.py:123`): at head dimension 256, more
   than 65536 rows of batch, heads and queries are enough, for example 43 sequences of 24 heads with 64 queries.
   Up to 2^31 elements nothing wraps (`forward_launch`, at the limit exactly).

Observations that are not findings:

- `fp8_attn.cu:156` initialises the scratch of splits that get no block; in this version every CTA writes
  minus infinity and zero for each live row itself, and the merge never depends on the initial values
  (`forward_launch`, where the scratch starts `Blank`).
- When packed rows are not a view of the output, `out.copy_` overwrites padding rows of a captured batch
  too; `PaddingUntouched` is therefore stated for the other cases.
- `export.sh:15` checks the staged files against the staged copy of `SHA256SUMS`, which no check covers. A copy that lost
  lines is published and reported as success, with whatever went wrong in the files of those lines: the properties
  therefore speak of the lines the published list still has, and of two faults for a wrong file
  (`PublishedIsComplete`). Later exporters read the image's list at line 9: they accept intact files whatever the
  published list is, and refuse a wrong one with status 1. That is what `containers/README.md:50-51` promises
  ("Repeated extraction verifies the existing files against checksums from the image"); of the first extraction no
  document promises more than the model shows, hence no finding. `sha256sum -c /artifacts/SHA256SUMS` at line 15, as
  at lines 9 and 18, would check the files against the image the first time too.
- `export.sh` never repairs a destination that was corrupted after publishing, and a killed exporter leaves its staging
  directory on the volume. Only what it leaves through its trap is clean (`NoLitter`).
- `setup.sh:8-10` tests for `third_party/cutlass/.git` before `git init` and `git remote add`: stopped between the two, it
  fails at the fetch in every later run until the directory is removed.
- `prefill_context` is taken from a CPU upper bound. It is exact for prefill rows; the model assumes this for
  rows longer than one query tile, as `check_mixed_prefill.py` does, and lets it be too large for others.

## 6. Not modelled, and why

- Numbers: rounding, the FP8 to BF16 conversion (FlashInfer's converter, an empty submodule here, then a multiplication by
  the scale and a patch for NaN bytes; when and from which bytes it converts is in `CtaPipeline`), `exp2` and LSE values. They are data here; a numeric test
  against a reference fits them better.
- Features compiled out of this build: ALiBi, softcap, rotary, Append_KV, dropout, the ordinary forward kernel.
- Tensor dtype, device and stride checks, registration with vLLM, the bytes of the cache-update kernel, and of
  the 2500 lines of upstream `flashinfer.py` in front of the overlay's adapter those that the adapter replaces
  (the upstream `build` and `forward` with their TRT-LLM, DCP and cascade routes). What the adapter inherits and runs is in
  `KvCacheService`.
- An allocation failure inside the fallback or the direct call: it propagates to the caller.
- Build, manifest and upstream comparison scripts: sequential, one process, and every one stops at its first failing
  command (`set -e`, `check=True`), without concurrency or recovery that a model could get wrong.
  Their lasting product, the files and `SHA256SUMS` of an image, is what `ArtifactExport` takes as given.
- Shared-memory swizzles and the copy atoms of `kernel_traits.h`: they permute addresses inside one tile, identically for
  the writer and the reader of a tile, by types the compiler checks.
- Checks and benchmarks.

## 7. Plan

Order: the tile, the pipeline and the paged copies carry the kernel's correctness and came first; then the
call around them, the adapters around the call, and export. Then the same tile per thread and the width of the offsets. All of these are in place. Next:

1. **Model further.** What is left is small: several batches in sequence through `AttentionBackend`, so that the
   workspace and result buffers shared between layers are reused; the tensor checks at the head of `forward()`.
2. **Prove further.** Liveness, when the provers can reason about ENABLED.
