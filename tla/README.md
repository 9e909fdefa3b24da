# Verification of the GLM-5.3-Flash serving stack on two DGX Sparks

The repository serves a language model on two GB10 nodes: a container image with
an entrypoint, a status server and a self-test; overlays of parts of vLLM (the
shared-memory message queue, the sparse-attention indexer, the speculative
decoder, the JIT monitor); patchers that edit installed sources; scripts that
bring the pair up. This directory holds TLA+ models of it, the TLC
configurations that check them and TLAPS proofs about them.

Run `tlc -workers 2 -config <cfg> <MC module>` and `tlapm <module>` here.
`PROJECT.json` maps each definition to the lines it models, each run to its
properties, and each property to a mutation of the code it detects.

## Inventory

| component | state | operations | what is hard | what makes it correct |
|---|---|---|---|---|
| shared-memory ring (`shm_broadcast.pristine.py`, `acquire_write/read`) | one written flag and one read flag per reader and chunk, chunk bytes, a private index per process | check, wait, copy, set and reset flags | one flag at a time, no lock, ARM memory | no unread chunk overwritten, no torn read, a broadcast FIFO |
| message queue (same file) | ring + two PUB/SUB sockets + wake-up and cancel sockets | handshake, `enqueue`, `dequeue`, `shutdown` | two channels per message, lost wake-ups, timeouts, another thread shutting down | each reader gets each object once, in order; idle readers wake |
| entrypoint (`image/entrypoint.sh`) | stage file, position, background watcher | two boot branches (mp, ray), watchers, `exec` | two writers of one file, restarts, bounded loops | stages tell the truth about this boot |
| self-test (`image/self-test.py`) | question, attempt, failures | wait, ask, retry, judge | timeouts are not wrong answers | exit 0 means right answers |
| status server: stage, health, peers (`image/status-server.py`) | peer snapshots | poll, report | stale rows, dead peers | never claims a health that is not there |
| status server: throughput | last reading, kept windows | scrape, window, percentiles | failed scrapes, a clock set back, tokens credited late | windows lose no token; a busy engine shows |
| status server: MCP tools | none of its own | dispatch, forward | rows of a node that is gone, unknown names | answered by the node named, always answered |
| scripts (`scripts/*.sh`) | containers, clocks and files on two nodes | up, down, lane, clocks | one step of several failing on one of two nodes | a reported READY is a working pair |
| source patchers (`image/patches/*.py`) | text of each target file | apply a hunk, skip it, refuse | repeated runs, interruptions between hunks | each hunk once, or no image |
| overlay generators (`docs/patch_sm121_mla.py`, `scripts/gen-*.sh`) | pristine copies and outputs in a work directory | copy, patch, write, verify | copies and outputs of earlier runs, runs that stop | what is mounted has every hunk and is of one run |
| hybrid prefix-cache hit (`docs/patch_hybrid_prefix_hit.py`) | hit length and blocks per group | fixpoint over groups | a group kept out of the minimum | blocks and length of every group agree |
| KV groups (`docs/patch_dflash_glm5_kv_groups.py`) | layer groups, tensor offsets | group, recognize, configure | three functions that must count alike | layers that hold data at once do not overlap, none lies beyond the pool |
| indexer (`patches/sparse_attn_indexer_kpool.py`) | pooled keys, tail blocks, shared workspace, top-k buffer | prefill, decode | rejected drafts, ragged batches, buffers reused within a step | the right keys, the right rows |
| speculator (`patches/dflash2_speculator.py`) | drafts, draft logits, cached candidates, probe counters | walk, cache, verify, observe | state reused by another request | drafts are verified against the scores they were chosen by |
| model overlay: layers (`patches/glm5next_model.py`) | streams, deferred mixing, auxiliary states | forward of layers and model | mixing left to the next layer, shards | nothing deferred shows outside |
| model overlay: weights | pending FP8 halves, parameters | load one tensor | files in any order | each shard loaded once, with its own scale |
| warm-up (`patches/spec_decode_rejection_warmup.py`, `deepseek_v4_mhc_warmup.py`) | compiled variants | launch, fail | a pass that raises in or outside its try, boundaries of the block sizes, no speculation | what is served was compiled, but for what no pass tries |
| JIT monitor (`runtime/jit`) | active flag, hooks, nesting counter, kernels warned of | activate, report | nested calls of several threads that raise | each compilation handled once, and silent only where it is meant |
| linear dispatch, memory tracing, benchmarks, evidence | tensors, data | | not control logic | not modelled |

The writer of the message queue is the vLLM scheduler process of the head; its
local readers are the workers of that node, its remote readers those of the
other. A worker runs the model overlay with the indexer, and the speculator
behind it, on the KV cache the groups lay out; before the first request it loads
weights and warms up, and the monitor watches its compilers from then on. The
entrypoint becomes vLLM by `exec`; a status server runs beside it from the
moment the stage file exists and polls the page of the other node. The image was
patched when it was built.

## What is modelled

Each module's header says what it stands for and what it takes as external.
Modules with a `Proofs` suffix prove theorems about the module of the same name;
`IndexerProofs` is about `KpoolIndexer`, and `NodeProofs` and `EngineProofs` are
about the compositions `MCNode` and `MCEngine`.

### The ring: `BroadcastQueue`, `ShmRing`, `ShmFence`

`BroadcastQueue` is the promise: a log of at most `MaxChunks` messages unread by
somebody; each reader takes, or drops when its body raised, the next one.
`ShmRing` is the protocol, one shared-memory access per step: the writer loads
the written flag, then each read flag; clears the written flag; copies the chunk
in two halves; resets the read flags one by one; sets the written flag; moves
on. A reader loads its read flag, then the written flag, copies two halves, sets
its flag. Timeouts, a body that raises on either side, and cancelled reads are
actions. `log`, `taken` and `out` are history variables for the refinement.

`ShmFence` takes one chunk to hardware memory: the stores of the writer wait in
a buffer that `memory_fence()` drains, in order (`WeakStores = FALSE`, x86) or
per byte (`TRUE`, ARM). `memory_fence` is taken as the full barrier its
docstring describes. On x86 the protocol is right with the fences it has; on ARM
the store `written = 0` may be overtaken by the reset of a read flag, and a
reader takes the old chunk for a new one (finding). The stack runs on ARM.

### The queue: `MessageQueue`

The ring is the abstract queue here, so writing or reading a chunk is one step
(what `ShmRingProofs!Refinement` licenses). Around it: subscriptions and `READY`
of `wait_until_ready`; `enqueue` (chunk, overflow payload, wake-up, remote send
in that order, or a timeout of the ring that does none of the later steps);
`dequeue` (chunk, and the payload from the socket when the chunk says overflow);
`SpinCondition.wait` with its hot and idle modes; `shutdown` from another thread.
ZeroMQ is external: a connected channel is a lossless FIFO, wake-ups may all be
lost (SNDHWM 1, CONFLATE, no handshake), a publication before the subscription is lost.

### Boot and health: `SelfTest`, `ClusterStatus`

`SelfTest` is `self-test.py` with a server that may answer right, wrong, err, or
stay silent at each request. `ClusterStatus` is the boot of two containers: the
stage file with its two writers (the script and its background watcher), both
values of `DIST_BACKEND`, containers that stop anywhere and are started again
with their old file system, and on top the status pages: `Healthy` is
`local_status`, a poll takes the answer in one step and stores it in a later
one, `ClusterHealthy` is what `/cluster.json` reports. The self-test appears in
it as a step that passes a right model only, which `SelfTest` shows. vLLM's
binding of the API is external (`BindApi`): it needs every rank.

### The engine: `KpoolIndexer`, `DFlash2`, `GlmForward`, `KvGroups`

* `KpoolIndexer`: `Forward` is one pass over a batch, its decodes in any order
  and then its prefills in any order, through one indexer layer. Tokens are names; a pooled key is the sequence of
  the tokens it was compressed from, a row of the top-k buffer is the set of
  positions a token may attend to. The tail block of a request state, what
  rejected drafts leave in it and in the pools they crossed into (`spoiled`),
  the padded decode grid, and the workspace whose views start at one address
  are there; which pools score best is left open.
* `DFlash2`: `Propose` walks over candidates in either `DFLASH_WALK_MODE`, and
  caches logits per request state, clearing the cells of the last candidates;
  `Verify` is the (external, greedy) sampler with the probe wrapped around it;
  `NewRequest` reuses a state, `Reinstall` creates a speculator over a sampler
  that is already wrapped.
* `GlmForward`: `Layer` is a decoder layer with and without the residual
  streams, dense or mixture, sharded or not, in every combination; `Return` is
  the end of `forward`. A value is the sequence of the sublayers mixed into it,
  so that a mixing that is missing or done twice shows. With sequence
  parallelism a value is sharded between the collectives; `Summed` is what
  becomes of a sum over the ranks of shards: a dense MLP is not told of the
  sharding and sums in any case, and a layer without streams has no collectives
  at all, so what such a sublayer computes from is `Mixed`.
  `NothingDeferredShows` says of these that they run in their order and are
  mixed in, not what they compute (`SumsShards`).
* `KvGroups`: `Group`, `Recognize`, `Configure` are the functions the patch
  writes; a layout is a set of tensors with page and offset.

`MCEngine` composes the four. None of them reads the state of another, so a
behaviour moves one of them, chosen at the start; the product of all
interleavings would only multiply states that nothing relates.

### The node: `SourcePatches`, `Overlays`, `WeightLoad`, `WarmUp`, `JitMonitor`, `Throughput`, `McpCalls`

* `SourcePatches`: the scripts of the Dockerfile in its order, a hunk at a time.
  A region has one of five texts; a script applies, skips or refuses, may be
  interrupted between or within two writes, and is run again, within the build
  (the layer is lost) or by hand (the files stay). `verify.py` ends it.
* `Overlays`: `docs/patch_sm121_mla.py` over its six files. `Extract` copies what
  is not there yet, `Patch` works in memory and ends at the first anchor error,
  `Write` and `Verify` follow; each may be the last of its run and leave a file
  cut short, and the image may change before the next (`NewImage`). The launcher
  mounts what a run that succeeded wrote.
* `WeightLoad`: the tensors of a checkpoint in any order. `Pair` is
  `_try_load_fp8_attn_proj` and `_try_load_fp8_indexer_wk` with the half that
  waits, `Plain` the mapping of names to shards, `Expert` the loop over the
  experts, `Skip` the early returns.
* `WarmUp`: the passes in order, launch by launch, for any speculative config:
  with none the warm-up returns after the mHC pass, with no drafts only the
  drafter's preparation and the tails are launched, and a method other than
  `dflash` prepares nothing. `Raise` is a launch that raises in the `try` of its
  pass, `Escape` whatever raises outside one, which ends the start. `Serve` asks
  for any variant requests can need (`Needed`): batches of every size up to
  `MaxTokens`, not those that are warmed; how TileLang splits so many tokens is
  the constant `Splits`. `Untried` names what no pass tries: the tails without
  speculation, the blocks between those of one and of 16 scheduled tokens, which
  few drafts leave out, and splits that no warmed size has.
* `JitMonitor`: `activate`, the hooks, and the wrapped calls of TileLang across
  threads: `Enter`, `Leave` (by return or by exception), and a kernel built
  within one (`BuildInside`) or not (`BuildOutside`). `Level` is what the handler
  makes of a report: an error in mode `error`, a debug line where the stack is
  silenced, a warning, or a repeat that `warning_once` drops. `ReportedOnce` is
  about handing over and about when the handler may be silent; it does not say
  that every compilation is a warning or an error, which is not so (see below).
* `Throughput`: `Sample` is a turn of `throughput_loop` with a scrape that may
  fail and a clock that may be set back, `Ask` and `Answer` the two scrapes of
  the percentile tool, `Engine` a step of the engine behind the counters.
* `McpCalls`: `Call` enters `mcp_handle`, `Forward` is `proxy_tool_call` with
  the rows the page has, `Poll` and `Restart` change them meanwhile. A name may
  be blank: it is stripped to the empty string, which is also what stands for
  the key `host` that rows do not have (`NamesOf`), so any other row answers.
  `AnsweredByNamed` allows that.

`MCNode` composes these with `SelfTest` and with `ShmFence` on x86, the same way
as `MCEngine`.

## Runs

| run | shows | bounds |
|---|---|---|
| `ring` | type, `UnreadIntact`, `NoTornRead`, `FlagDiscipline`, refinement of `BroadcastQueue`; every message reaches every reader; an enqueue returns | 2 readers, 2 chunks, 3 messages: a chunk is reused while a reader is behind on it |
| `mq` | handshake, exactly once and in order, remote readers in step; every object returned with every wake-up lost; shutdown ends a local reader | 1 local reader (may be shut down), 1 remote (may time out), 2 objects in 1 chunk: the second enqueue waits, or times out |
| `mq_desync` | finding: a timeout between marker and payload shifts the objects | 2 chunks, 3 objects |
| `fence_arm` | finding: chunks are not whole on ARM | 1 reader, 3 uses of one chunk |
| `self_test_metrics` | finding: a crash on an unreadable metrics page | the real 3 questions and 3 tries |
| `cluster` | `HealthyServes`, `HealthyStays`, `RowsTrue` with deaths, restarts and a flapping network | ray with the self-test and the shipped mp without; 3 container starts: either node restarts while the other's rows still name its old boot |
| `cluster_live` | dead peers are noticed, healthy clusters seen, every gated boot gets a verdict | the same setups, 2 starts |
| `cluster_mp_worker` | finding: the mp worker is never healthy | mp, 2 starts |
| `engine` | keys, rows and buffers of the indexer; draft logits and probe of the speculator; the chain of layers; the tensors of the KV cache | 2 request states, prompts of 2 and 5 tokens, lengths to 5, 2 requests per state, pools of 2, top-k 2, 2 drafts; 2 slots, 3 token ids, 2 steps, 2 verified requests; 4 layers; 384 models of small pages in 2 sizes of memory |
| `workspace` | finding: the second chunk of a prefill scores with overwritten keys | the indexer of `engine`, prefills split in chunks |
| `node` | the self-test, the windows and percentiles of the page, tool calls, patches, overlays, loading, warm-up, the monitor, whole chunks on x86 | 3 questions with 3 tries; 2 kept windows, 4 scrapes, 3 engine steps; 2 nodes, 2 calls, 2 restarts; 1 failure and 1 rerun of the scripts; 2 runs of the generator with 4 kinds of image and 1 change of it; 3 layers of tensors; no speculation, MTP with 4 drafts and `dflash` with 0, 4 and 7, 2 sequences, 140 tokens; 2 threads, 2 kernels, 3 calls; 2 readers, 3 messages |
| `mcp_unknown_node` | finding: a call for an unknown node has no result | the tool calls of `node` |

Why these are enough. The loops of 480 and 120 attempts of the boot are cut to
one or two: an attempt depends on nothing but the state it meets, so more of
them only delay the giving up. Prompts of 2 and 5 end on and beside a pool
boundary, 5 tokens with 2 drafts cross one, and a second request in a state
meets what the first one left. Two slots are what it takes to pair a
verification with the wrong request. Windows are dropped after two, so four
scrapes drop one. 140 tokens reach every block size of the ladder, and lie on
both sides of the 16 tokens at which the mHC kernels branch. Three calls of two
threads nest and overlap at once, and one kernel can be compiled again. In the
small KV models the tokens of the drafter fill the page of the MLA layers
exactly or do not. Time is a choice: a timeout may fire whenever
its guard allows it. Each property was also tried on a mutated model, listed in
`PROJECT.json`, that breaks it within these bounds.

Deadlock checking is off where the system may stop: all objects delivered and
all readers shut down, the self-test ended, containers that may not start again,
an image built, a checkpoint loaded, a forward pass returned.

## Fairness

* `ring`, `mq`: weak fairness of the writer's running call and of each reader.
  The readers are `worker_busy_loop`s, which call `dequeue` for ever; the loops
  within a call re-check after every wait, and `SpinCondition.wait` is bounded by
  `SHM_READER_RECHECK_INTERVAL_MS`. The writer is not obliged to start a call,
  and nobody to time out or to shut down.
* `Cool` (time passes in `SpinCondition`) and `Cancel` (the second half of a
  shutdown that began) are weakly fair.
* `cluster_live`: weak fairness of the script, the watcher and the poll loop of
  each running container and of vLLM's start. None for starting or stopping a
  container, nor for the network. `VerdictReached` is about boots with the gate.
* `node`: weak fairness of the self-test, which is one process whose requests
  have a timeout; none of the other parts.

## Proofs

Constants are assumed to be what the modules' named assumptions say: an ASSUME
in `ShmRing`, `MessageQueue` and `ClusterStatus`; in the modules that are
instantiated a definition (`TestAssumption`, `McpAssumption`, ...) that the
theorems take as hypothesis and the ASSUMEs of `MCNode` and `MCEngine` collect,
so that TLC evaluates them. They are what the code gives: a list of peers is not
empty; projections of a checkpoint are not named like fused parameters; the
candidates of a draft are different tokens, at least one and as many at every
step, best first; there are finitely many request states; the token budget of a
step has room for a decode of every request with all its drafts; the first pool
fits the budget of the top-k; an image is stock, moved on, patched before, or
stock with the older hunks.

* `ShmRingProofs`, for any number of readers, chunks and messages: `TypeCorrect`,
  `UnreadMessagesIntact`, `ReadsNotTorn`, `FlagsCleared`, and `Refinement` (the
  safety part of implementing `BroadcastQueue`). None of the properties is
  inductive: they say nothing about which message a chunk holds, what a process
  has loaded into its registers, or which flags a half-done scan has vouched
  for. `IInv` adds: every index is the number of messages modulo the number of
  chunks; a chunk holds the last message written at its index; a flag is set
  exactly for the readers that took it; a reader counted by the writer's scan
  really is past the chunk; a reader past its check is at an unread message the
  writer cannot reach. The facts on `%` come first.
* `MessageQueueProofs`, for any number of local and remote readers and any
  capacity. `HandshakeHolds` (`ReadyFirst`): the invariant counts subscriptions
  (`Counting`; the writer has counted no more than there are, so the count
  reached means all) and puts READY first in the socket of whoever waits for it
  (`Waiting`). `RemoteSentAll` (`RemoteInStep`): READY is in a channel once, and
  what a reader was sent beside it is 1 to the number of objects sent on.
  `EachObjectOnce` (`ExactlyOnce`): for a reader whose dequeues have no timeout
  the payloads in its socket are, in order, those of the overflow objects whose
  chunk it has still to take or has just taken (`Listed`, `Fed`), and what it
  has is what it took but for the one it waits for (`Had`); so the first payload
  is always the one of its last chunk.
* `ClusterProofs`, for any peer list that is not empty, number of attempts and
  starts and every set of settings: `HealthyMeansServing` (`HealthyServes`),
  `HealthStays` (`HealthyStays`) and `RowsAreTrue` (`RowsTrue`). None is
  inductive: the stage file says nothing of the watcher that wrote it. The
  invariant ties them together: a stage `serving` was written by a watcher that
  is done, in a container whose script is in vLLM, after the API was bound; a
  verdict of the watcher is only there with a model that answers right. For the
  rows it says of every row that claims health, stored or in the hands of a poll
  (`TrueRow`): it is of the node its address resolves to and of a container start
  that really was, and if that start is still the running one the node is healthy
  now. Polls overlap restarts, so a row may be old but never made up.
* `SelfTestProofs`, for any number of questions and tries: `GateHolds`, with
  `Judged`: every question behind came back right at last or is a failure.
* `McpProofs`, for any nodes and peer lists: `RanWhereNamed`, with `RowsTell` (a
  row with a name has the one of the node at its address) and `Followed` (a call
  still has the name it came with, or was forwarded, once and without a name, to
  a node that goes by it).
* `NodeProofs`: every safety property of the run `node`, for all values of its
  constants. A step of the node is one of a part or leaves its variables alone,
  so what the two modules above prove carries over (`NodeGateHolds`,
  `NodeRanWhereNamed`), and for the rest an invariant of the part is one of the
  node:
  * `NodeReportedOnce` and `NodeCounterReturns`, for any threads, kernels and
    number of calls. `MonitorInv`: the counter is the number of wrapped calls in
    progress, whoever made them and however they end; each of them was reported
    as it should, so that the compilation in it is; and the property itself.
  * `NodeAcceptedWhole`, a chunk in the memory of an x86. `BufferInv`: the store
    buffer is the stores that are not visible, in program order, and all before
    them are. `ChunkInv`: a written chunk holds the last message, and the read
    flags say who took it; otherwise everybody is done with it. `LoadsInv`: what
    a reader has loaded after finding its flag clear and the chunk written is
    the message, because the writer waits for that very reader. This is where
    the order of the two loads and the order of the buffer are needed, and where
    the proof fails for the memory of an ARM.
  * `NodeWindowsTile` and `NodeBusyShows`. `TileInv`: what windows told and what
    was skipped add up to the counter at the last reading; `BusyInv`: what the
    engine did since that reading shows in a counter or was freed.
  * `NodePercentileRight`, with `PctInv`: a cumulative bucket has grown by the
    number of observations since the first scrape that are within its bound.
  * `NodeLoadedOnce`, for every checkpoint: `WeightsInv` says what each shard
    holds as a function of the tensors that have not arrived, and that the
    halves that wait are those that arrived without their other half.
  * `NodeLateMeansFailed`, with `WarmInv`: a variant that requests may need is
    compiled, is of a pass that failed, is launched by a pass to come, or is one
    that no pass tries. Most of the proof is that the passes launch all there is
    to need but for that, for every speculative config.
  * `NodePatchedOnce`, with `PatchInv`: the scripts before the current one have
    gone over all their regions, the current one over its first hunks, in the
    text and in what is kept of it. `NodeOverlayWhole`, with `OverInv`: a copy is
    there before a file is patched and cut short before its patch is, and the
    outputs are those the run found until it writes.
  * `NodeTypeOK`, from all of these.
* `IndexerProofs`, for any sizes of pool, batch, budget and top-k and any reuse
  of the blocks. `IndexerInv`: what counters and blocks hold has its type
  (`Lengths`, `Blocks`), a prompt is computed up to a pool boundary or to its end
  (`Aligned`, which is why a prefill never completes a pool it has only a part
  of), every row left by the last pass has the length of its own token and the
  grid is within what a step may decode (`Within`), and `KeysRight`. Most of the
  proof is about where a batch has a token: chunks lie one after another, in any
  order, so the grid of the decodes, scattered or reshaped, has each request's
  chunk as its row, and a prefill finds its own chunk as one run of the region.
  Then, token by token: a pool that fills is compressed from the tail and the
  chunk, and a tail entry is the last token at its offset, unless rejected drafts
  took the pool (`spoiled`).
* `EngineProofs`, for all values of the constants of `MCEngine`:
  * `EngineKeysRight`, `EngineRowsAttend` and `EngineFits` (`KeysRight`,
    `RowsAttendRight`, `FitsBuffers`): what `IndexerProofs` proves, carried over
    to the instance of the engine, whose definitions are the same.
  * `EngineTypes` (`TypeOK`), from the invariants of the parts and, for the
    speculator, the types of what a proposal caches and a round counts.
  * `EngineDefersNothing` (`NothingDeferredShows`), for any number of layers, any
    captured, the first of them dense or none, with and without streams and
    sequence parallelism. `HandedOn` says what one layer hands to the next: the streams up
    to its first sublayer, and its second one with them as what is deferred.
  * `EngineDraftsMatch` (`DraftLogitsMatch`), for any edges, proposals and
    vocabulary. `Held`: the draft logits of a state are minus infinity but in
    the cells of the cached candidates, which are the last draft's, and there
    the scores the walk took the best of.
  * `EngineProbePairs` (`ProbePairsRight`), with `StashRight`: while a state
    has drafts to verify, its rows in the stash are of the request it serves and
    of the proposal those drafts came from.
  * `EngineLedgerBalances` (`LedgerBalanced`), for batches of any size:
    `LedgerInv` adds that the probe is installed once, which is what makes a
    verification count once; a batch is a fold, so that it keeps the balance is
    shown for every prefix of it.
  * `EnginePagesDisjoint` (`PagesDisjoint`), for any models and memory.
    `CacheInv`: the groups are a dealing of the layers, the layout recognized is
    made of those groups, and the tensors are one per layer at `PlaceOf`, which
    says in which of three zones of the pool a layer lies and the how manieth it
    is there. That each rank in a group of mamba layers is taken once, that runs
    of pages and zones follow one another, and that the two functions that count
    bytes count alike, give the property.

A function defined by recursion, and a fold, is one that CHOOSE picks among those
that satisfy the recursion. Induction theorems that take an operator cannot be
instantiated by the provers here, but a least counterexample among the natural
numbers can be taken (`Least`), and with it the proofs show that such a function
exists and what it computes for every length.

Every safety and action property of the passing runs is a theorem. Only
model-checked: liveness (`EveryReaderCatchesUp`, `EnqueueReturns`,
`EveryObjectReturned`, `ShutdownReturns`, `DeadPeerNoticed`, `ClusterSeenHealthy`,
`VerdictReached`, `GateEnds`), for which the prover has no rule for ENABLED, and
that the bounded instances reach what the theorems are about.

## Findings

Six disagreements between the code and its own documents, each with a run that
shows it; `PROJECT.json` quotes the lines.

* `fence_arm`: the order of stores on ARM lets a reader take an old chunk.
* `mq_desync`: a `dequeue` that times out after the overflow marker leaves its
  payload to the next one.
* `workspace`: the top-k buffers of a prefill chunk are taken from the memory
  its gathered keys are in, and later chunks score with what is left of them.
* `self_test_metrics`: an unreadable metrics page ends a passed test with a crash.
* `cluster_mp_worker`: with `mp`, the default, a worker never becomes healthy.
* `mcp_unknown_node`: a call for an unknown node ends in a KeyError outside the
  handler's `try`, without a response.

In the models, openly excepted by a property and without a run of their own:

* Under sequence parallelism the dense MLP of a layer (`glm5next_model.py:361`)
  is not told of it and sums shards of different tokens over the ranks, against
  the comment at 114-117; without streams every sublayer does. No launch of the
  repository turns sequence parallelism on. `SumsShards` in
  `NothingDeferredShows`; without it the run `engine` fails.
* `activate` promises (`jit_monitor.patched.py:56-58`) that each compilation is
  logged as a warning or raised as an error. The stack ships silenced
  (`compose/glm53.yaml:97`), which logs at debug, as the comment at 137-139
  means it to; otherwise `warning_once` drops every further report of a kernel.
  `ReportedOnce` says just when the handler is silent.
* The ladder of the drafter's preparation (`spec_decode_rejection_warmup.py:138`)
  meets every block with the 7 drafts that ship, as its docstring lists them.
  With 4 the blocks it tries are 8, 32, 64, 128 and 256, and a prefill of 4 to 11
  tokens waits for a block of 16. Without speculation the tails of the kpools are
  not warmed, although the comment on that pass (124) says that the first prefill
  would compile them otherwise. `Untried` in `LateMeansFailed`; without any
  of its three disjuncts the run `node` fails.
* A tool call for a node named by blanks is answered by any other node, because
  `_peer_addr_for` (`status-server.py:1087`) reads a key that rows do not have.
  `Named` in `AnsweredByNamed`.

Plain from the code, kept as hazards or notes without a run: `shutdown()` does
not wake a reader of another node; the time bound of the gate counts three tries
in all where the code has three per question; the inline test of `enqueue`
counts 6 header bytes where the layout has 7, which `>=` makes right;
`load_weights` does not report the half of an FP8 projection whose other half
never came, and `WeightLoad` has complete checkpoints only; a pristine copy is
never refreshed, so an overlay may be made of the files of an earlier image, or
of a copy that was cut short and still has its anchors; a run that stops between
two outputs leaves files of two runs, which `--verify-only` accepts and no launch
mounts before a whole run; the remote socket drops messages past its high-water
mark, which the model of ZeroMQ leaves out.

## Not modelled, and why

* Bring-up scripts: straight sequences of ssh and docker commands that end at
  the first failure; what they start is `ClusterStatus`. The checks of network,
  RDMA and GID before the stage file are a start that does not happen.
* `gen-*.sh` and `patch_sm90_fp8_plan_dtype.py`: one file is copied out of the
  image at every run and gets one hunk behind a marker.
* Hybrid prefix hit: the patch changes four lines of a loop that is upstream
  code the repository does not hold; a model would be of that loop.
* `glm5next_model.modelopt.py` and `model.pristine.py`: variants of the modelled
  file kept to diff against.
* Host samples and the size memo of the status server: one thread writes, others
  read whole values, nothing relates two of them. HTML and wording: layout.
* `gate_linear.py` (one condition per tier), `hook_linear_8192.py` and
  `spark_mem_trace.py` (recorders), benchmarks and evidence (clients and data).
* Kernels, the draft model, all arithmetic on tensors: numerical. Several
  pipeline stages, which this stack does not run.
* The layout of a chunk and the pickling of tensors: data.

What could come next: a `load_weights` with incomplete checkpoints and its
callers; the process manager around the queue, if its source were at hand.
