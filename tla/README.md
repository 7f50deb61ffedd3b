# llama-wasm in TLA+

A specification of this repository's own code: the C++ bridge
(`src/llama_api.cc`), the thread pool as the patches leave it, the SIMD kernels
(`src/kernels/internal/asm`) and the scripts that prepare the build. TLC checks the
modules on small instances; TLAPS proves theorems about ten of them for every
value of their constants: of every module all the safety properties the runs check,
refinements included, but one of `Quants`.
`PROJECT.json` lists the runs, the lines each definition stands for, the hazards
and the findings.

## The system

`llama-wasm` compiles llama.cpp to WebAssembly behind a small embedding API.
llama.cpp itself is a git submodule, absent from this tree; the repository's own
code is the bridge, the patches that make ggml run under wasm, the generators of
native SIMD kernels that replace wasm function bodies, and the build scripts.

| Component | Where | State it keeps | Operations |
|---|---|---|---|
| Slots (continuous batching) | `llama_api.cc:1267-1782` | queue of tasks, slots, system prompt, next id, cells of each slot's sequence | `slots_post`, `slots_update`, `slots_cancel`, `slots_system_prompt`, `slots_status`, `slots_free` |
| Single-sequence decoding | `llama_api.cc:1117-1265, 2122-2651` | prompt history `hist` with `hist_valid`, interrupt word, `generating`, sequence 0 of the cache | `generate`, `eval`, `score`, `score_choices`, `embed`, `lora_set`, `state_save`, `state_load`, `reset` |
| Speculative decoding | `llama_api.cc:1861-2120` | a target and a draft cache, their positions, the proposals of a round | `generate_speculative` |
| Thread pool | `llama_api.cc:605-855`, `patches/*thread*` | workers, barrier, stop and abort flags, the pool pointers of the context and of the CPU backend | `ctx_new`, `attach_threadpool`, `free_threadpool`, `ctx_free`, a graph |
| Row-dot kernels | `kernels/internal/asm/vecdot_*` | pointers, block count, accumulators; linear memory | one body for each format and architecture |
| Attention kernels | `flashattn_*.go` | running maximum, sum of weights, the row VKQ | one query over a range of KV positions |
| Repacked GEMV and GEMM kernels | `repack*.go` | group and chunk counters, sums in registers or in the output | fourteen nests over interleaved blocks |
| Vector math kernels | `vec*.go`, `simdgemm_*`, `quantmat_*` | none beyond a cursor | straight passes over float arrays |
| Kernel table and emitter | `manifest.go`, `asm.go`, `constpool.go` | none | which body replaces which function; text generation |
| Sampling, stop strings, JSON, base64 | `llama_api.cc:60-290, 950-1112` | sampler chain, text so far | `parse_params`, `build_sampler`, `find_stop`, readers |
| Model loading, tokenizing, chat templates | `llama_api.cc:350-540, 860-946, 1784-1860` | one model handle | thin wrappers over llama.cpp |
| Patch series | `scripts/wasi-configure.sh`, `patches/` | the working tree and index of llama.cpp | look, refuse, reset, apply |
| C++ runtimes | `scripts/build-eh-runtimes.sh` | what is downloaded, unpacked and installed; a stamp | fetch, unpack, build, install, stamp |
| Build, verifier, workflows | `scripts/wasi-build.sh`, `scripts/verify-patches`, `Makefile`, `.github/` | a build directory | configure, build, verify |

How they interact. A host drives one context with one call at a time. Every entry
point works on the context's one KV cache; the slots share it among several
sequences, the single-sequence calls use sequence 0 of it (or clear all of it).
The guards `slots_active` and `generating` keep the two families apart. Each
decode computes a graph on the thread pool, and each node of a graph ends in
kernel calls on shared linear memory. The concurrent actors are the host writing
an interrupt word while a call runs, the token sink, which calls out of
`generate`, and the workers of the pool.

### What is hard, and what makes each part correct

*Slots.* A batch mixes tasks in different phases, and its size is decided before
its rows are placed: it must never have more rows than `n_batch`. With
`kv_unified` all sequences draw on one buffer: a task may start only if every
token the busy tasks may still write fits. A slot's counters (`n_past`,
`n_cached`, `pending`) must stay in step with cells that another call placed (the
system prompt) and a third removes. A decode or a sampler fails in the middle of
a call; each task must still be in one place and end once, told in order, and
eventually.

*Single-sequence decoding.* `generate` with `cache_prompt` trusts the history in
place of the cache: every path that decodes, fails half-way, clears or restores
must keep them equal or say that they are not. The interrupt word is written at
any moment. The calls must not touch a cache in which slots hold tasks.

*Speculative decoding.* Two caches of different lengths are rolled back to a common
position each round; only what the target itself sampled, after exactly the text
emitted, may be emitted; and a draft must never make a call fail.

*Thread pool.* A trap abandons workers at a barrier; a fork leaves an instance with
a pool whose threads exist only in its parent. Taking the pool down must release
every worker, join each one and end, and neither the context nor the backend may
keep a freed pool.

*Kernels.* A kernel replaces a compiled function: it must trap exactly when the
loops it replaces would leave memory and before it wrote anything, take every
block once, decode dozens of bit fields the way the reference does, and never
let 16-bit products saturate. What a kernel carries from one block, tile or chunk
to the next must be its own.

*Patch series.* After any interrupted run, the next one restores the pinned tree,
touches no one's own changes and applies the whole stack. A developer's editor runs
beside the script, which looks at git's status only once.

*C++ runtimes.* A stamp may only say that a release is installed when all of it is,
wherever the runs before were stopped.

## The modules

| Module | What it is |
|---|---|
| `Memory` | the KV cache of llama.cpp, external: cells with a position, a token and the sequences that own them; remove, copy, decode |
| `Slots` | the slots: one action per call, `slots_update` split into the turns of its loops |
| `Context` | `Slots` composed with every single-sequence call, the prompt history, the interrupt word and a saved state |
| `Autoregressive` | abstract: generation token after token |
| `Speculative` | `generate_speculative` on two caches, implementing `Autoregressive` |
| `Threadpool` | pools, workers and who points at them, over the life of a context |
| `Lanes` | the lane arithmetic of the kernels, the linear form a body computes, and where activations lie, plain or interleaved |
| `QuantRef` | what the bytes of a block of each format mean |
| `DotA64`, `DotX64` | the row-dot bodies of both architectures, as linear forms |
| `Packs`, `PackA64`, `PackX64` | the interleaved weight blocks, and the GEMV and GEMM bodies over them |
| `PackRef` | how plain rows are interleaved into such a block, as the kernels' tests do it |
| `Quants` | every row-dot, tile and repacked body on a block, against `QuantRef` |
| `QuantsForms` | the dots of each body, written out under the indices of its loops, for the proofs |
| `VecDot` | the control of a row dot: prologue, block loop, tile, stores |
| `Softmax` | the recurrence of single-query attention |
| `Attention` | abstract: a call ends with the recurrence over its positions in order |
| `FlashAttn` | the three attention nests, implementing `Attention` |
| `Repack` | the control of the fourteen repacked nests: checks, groups, chunks, sums |
| `PatchSeries` | the working tree under the stacked series of patches |
| `Configure` | `PatchSeries` composed with the stamped installation of the C++ runtimes: the whole of `wasi-configure.sh` |
| `MC...` | small instances |
| `ContextProofs`, `SpeculativeProofs`, `ThreadpoolProofs`, `QuantsProofs`, `VecDotProofs`, `FlashAttnProofs`, `RepackProofs`, `ConfigureProofs` | theorems about the module of that name; `ContextProofs` holds those about `Slots` too, `ConfigureProofs` those about `PatchSeries` |

**Memory.** With `kv_unified` a copied sequence shares cells; without, every
sequence has its own stream of `n_ctx / n_seq_max` cells and a copy duplicates
them. `llama_decode` takes a batch whole or refuses it whole.

**Slots.** `queue`, `next_id`, `slots`, `system`, `system_seq` are the fields of
`SlotsState`; `created` is whether the context has one. A slot's `take` and
`logits` are the locals of one update (its chunk, `i_batch >= 0`). `phase` says
where `slots_update` is: `launch` (`slots_launch`, one `LaunchHead` for each task
that starts), `chunks` (counting rows), `decode`, `sample` (one action for each
slot the loop visits), and `host` between calls. `events` is what the update will
return and `heard` what the host was told; `heard` is a ghost, and "dropped" in it
stands for the silent cancel of a queued task. Tokens are model values; whether a
token completes a stop string is a free choice, and so is what the sampler draws.

**Context.** It extends `Slots`, whose calls are taken unchanged while no other
call runs. `generate` is split at each look at the interrupt word and each decode
(`gen.pc`), because the host can act between them; the other calls cannot be
observed half-way and are atomic, with their failures: `Decodable` is every
prefix that a text decoded in pieces of `n_batch` may leave. `gen.base`,
`gen.from` and `gen.late` are ghosts. `score_choices` is its net effect on the
cache (its groups' sequences are gone) and `generate_speculative` is the set of
texts it may leave; its inside is `Speculative`.

**Speculative.** A cache is the text it holds (`kv`); `tpos` and `dpos` are the
lengths the code believes. Actions follow the code's order: both prefills in
pieces, the first sample, and for each round the catch-up decode of the draft,
one proposal at a time, the verification batch, and one action for each row
walked. `logits` remembers after which text each row was computed, and `given`
(a ghost) the text each emitted token was sampled after. Under the mapping
`AR` a token with its `given` is one step of `Autoregressive`, and all else stutters.

**Threadpool.** The main step follows `ctx_new` (with a spawn that fails),
`attach_threadpool`, a graph of `Nodes` nodes with a barrier after each,
`free_threadpool` and `ctx_free`; a trap may take any step of the graph away, a
fork may replace the instance at rest. A worker sleeps, runs nodes and waits at
barriers. After a fork the host attaches first, and after a trap it only frees,
as `llama_api.h` asks of it. What runs under the pool's mutex is one step.

**Kernels.** `Lanes`: a block is a function from offsets to bytes. A body is linear in
the activations, so what it computes is which activation byte meets which weight
under which scale; the bit operations that make a weight are kept exactly, the
order of additions inside a register is not. Rounding of floats is left out. A
repacked body is taken one cell (a column, an activation row) at a time: the
cell's form is the one the plain row of that column would have. In
`VecDot`, `Repack` and `FlashAttn` a sum is the sequence of what was added, so a
part that is lost, repeated or taken over from elsewhere is seen. `VecDot` is one
machine for all bodies, parameterised by what differs (blocks per pass, tile
form); `Repack` likewise for its nests (order of entry checks, groups per tile,
chunks). `FlashAttn` keeps M and S as scores and logs of exponentials: additions
of an exact zero and multiplications by an exact one are dropped, a
multiplication by zero forgets.

**PatchSeries.** A file is what it started from, the set of patches it carries and
whether the developer edited it; patches of a stack only ever come in order, so a
set is enough. `status`, `touched` and `foreign` are the script's `dirty`, `touched`
and `foreign`; `dirty` is the part of the list the reset loop has not come to. A
checkout that is killed may leave the file away or cut short, an apply some of the
patch's files written. git's own index lock, which a `kill -9` can leave behind, is
outside. The developer edits, creates or deletes a file at any time and runs
`git add` between runs.

**Configure.** A run that applied the series calls `build-eh-runtimes.sh` (`Call`) and
no other begins before that returns. Of it there is one step for each command;
stopping a run, by hand or by a command that fails, leaves the file that was being
written in part, and a member of the archive counts as one file. `want` is
`LLVM_VERSION`, which the wasi-sdk or the environment changes.

## What is checked

Passing runs:

| Run | Instance | Shows |
|---|---|---|
| `slots_unified` | 3 sequences, one buffer of 6 cells, batches of 2, 2 tasks, 2 system prompts; decodes may fail, samplers may throw | `TypeOK`, `KVMirrors`, `SystemIsolation`, `AdmittedTasksFit`, `NothingAfterTheEnd`, `NoOvertaking` |
| `slots_live` | 3 sequences, one buffer of 7 cells, batches of 2, 3 tasks, 1 system prompt; decodes may fail | `BatchFits`, `TokensAddUp`, `NoTaskLost`, `EveryTaskEnds` |
| `context_history` | 2 sequences, one buffer of 3 cells, batches of 1, one task next to all single-sequence calls, a saved state | `HistMirrors`, `SampledFromItsPrompt`, `InterruptStops` |
| `context_guards` | 2 streams of 3 cells, batches of 2, no system prompt, no speculative call; samplers may throw | `SlotsSeeSequence0`: `Context` implements `Slots` |
| `speculative` | two drafts a round, two windows of 5 cells, batches of 3 and 2; budgets 0, 2, the window, more | `CachesAgree`, `FailsOnlyWhenFull`, `InterruptEndsRound`, `ImplementsAutoregressive` |
| `threadpool` | two pools of 1 or 3 threads, graphs of two nodes, spawn failures, traps, forks | `NothingFreedIsUsed`, `CountsMatchPool`, `AbandonedGraphEnds`, `CallsReturn` |
| `quants` | every row dot, tile, GEMV and GEMM body, under each CPU feature it is exported for, on 12 blocks: all zeros, all ones, alternating, and mixed bytes | `QuantsOnce`, `DecodesAsReference`, `NoPairSaturates`, `LoadsInBlock`, `TileMatchesSingle` |
| `vecdot` | rows of 0 to 5 blocks, ranges that end before, at and after byte 72, the end of memory | `InBounds`, `TrapIsClean`, `TrapIsDeserved`, `EveryBlockOnce` |
| `attention` | up to five positions in blocks of three, all orders of scores, masked and vanishing ones | `AttnInBounds`, `SoftmaxOfRange`, `ImplementsRecurrence` |
| `repack` | 14 nests, 0 to 5 blocks in chunks of two, odd rows and columns, buffers ending at the last unit of memory | `RepackInBounds`, `SumsInOrder` |
| `configure` | two patches on two files, one of them created by the series, one file outside; two edits or `git add`s, two runs killed or stopped; two releases, two members of the archive, two installed parts | `TreeIsSeries`, `ForeignUntouched`, `Recovers`, `RuntimesAreBuilt` |

Why the bounds are enough. *Slots*: three sequences give a busy slot, one that
launches and the system prompt's. Six cells let two tasks generate at once, seven let them
next to a system prompt, and a longer prompt or system prompt makes the second one
wait; the prompts share all or part of a system prompt, or are one, and one
fits no window. Batches of two rows hold two decoding slots, or mix a decode row with
a chunk, or cut a prompt of three in chunks. Three tasks are one more than the slots
they compete for once a system prompt takes a sequence. Budgets are none, one that
ends by length after a decode, and the rest of the window. `MaxTasks` bounds the ids handed out between
two resets; `Reset` starts them again at 1, as the code does. *Context*: prompts of
three pieces let an interrupt fall before, between and after them, and prompts
that share a prefix with `eval`'s text exercise the reuse. A blob can be loaded any
number of times. `context_history` does not check for deadlock: after a trap
(`embed` of a text beyond `n_batch`) the instance is lost and nothing runs.
*Speculative*: with two drafts a round accepts none, one or both; five cells hold a
prompt of three, and a window that runs out in the middle of a round; one prompt
exceeds it. *Threadpool*: three threads put two workers at a barrier at different
nodes; the second pool is the one a fork or a detach replaces the first by.
*Kernels*: a decoder's bit operations act on each byte alone or on words of a block,
so a few blocks with no regularity, and the extreme bytes, separate any two
placements; grids are a few entries with all signs. A repacked block is computed for
every column; the GEMM's four activation rows come in turn, and twelve blocks give
each of the eight columns every row. For `NoPairSaturates` the
blocks of all zeros and all ones put the extreme value of a bit field into every lane,
and the activations count with the largest value they may have; `NoPairSaturatesHolds`
covers the bytes between. Loops over one, two or four
blocks or groups with tails need rows of at most five. A block of three positions
with five of them gives a full block, a tail and an empty call. The kernels end,
so their runs do not check for deadlock, nor does `threadpool`, where the last
call frees the context. *Scripts*: a patch of two files can be cut between them; a
file the series creates and one it changes are put back by different commands; two
steps of the developer are an edit and a `git add` of it or of what a run applied.
Two stopped runs let the second start from what the first left, in the series or in
the runtimes. The next release is asked for after a run that ended well
(`SwitchAnytime = FALSE`); what happens otherwise is noted below.

Fairness. `slots_live`: a call that began runs to its end (`WF(UpdateStep)`: the code
has no blocking wait in `slots_update`) and the host keeps calling `slots_update`
(`WF(UpdateBegin)`), which is how llama_api.h tells it to drive tasks. Nothing is
assumed of the sampler: a task ends because its budget is finite. Weak fairness is
enough because an update that began disables all other calls, and between updates
`UpdateBegin` stays enabled. The run has one system prompt that each task's prompt
goes beyond, and no throwing sampler: without these two restrictions the property
fails, as noted below. `threadpool`: weak fairness of the main thread's step and of each existing
worker, which are operating-system threads; a condition variable that is signalled
wakes its waiter. A trap and a fork are never forced. `configure`:
`WF(ConfRun)`, builds go on being run and a run that is not stopped gets on; kills
are finitely many, as `MaxCrashes` bounds them.

### Findings

* `repack_chunks` is a run that TLC refutes: the AVX2 GEMV of the repacked formats
  (`repackgemv_x64.go:163`) reloads the sums of a later chunk through a cursor that
  the previous pass over the columns has moved. It takes more than 512 blocks in a
  row and a second pass over column groups, so more than 16384
  activations and at least 32 outputs; with one pass, or one chunk, it is right,
  as the `repack` run shows.

### Divergences seen, no run kept

Each of these is reproduced by an instance of the modules as they stand: change
the named run's constants as given, and TLC refutes the property.

* `WaitsOnlyForBusySlots` (`llama_api.cc:1432`), `slots_unified` with `NSeqMax = 3`,
  `NCtx = 6`, `NBatch = 2`, `MaxTasks = 1`, `SystemPrompt <- MCSystemPrompt`,
  `DecodeMayFail = TRUE`. Admission counts the system prompt's cells against a task,
  `slots_post` does not: a task that shares none of the system prompt can be
  accepted and never launch, and it blocks the queue although every slot is idle.
* `NoTaskLost` and `TokensAddUp` (`:1655`), `slots_live` with `SamplerMayThrow = TRUE`. If
  `llama_sampler_sample` throws, the events gathered in that update are lost, finals
  included; the task that threw keeps its slot with nothing pending and is never
  decoded again.
* `SystemIsolation` (`:1158`), `context_history` with `NSeqMax = 2`, `NCtx = 3`,
  `NBatch = 1`, `MaxTasks = 1`, `SystemPrompt <- MCSystemPrompt`, `SpecLeft <- MCNone`,
  `MaxChoices = 0`, `Saves = FALSE`. The single-sequence calls clear the whole cache,
  the system prompt's cells too, but not `system_seq`: later tasks count reused
  tokens that are not in the cache.
* `KVMirrors` (`:1880`), `context_history` with `SystemPrompt <- MCNone`.
  `generate_speculative` lacks the `slots_active` guard; a second guard with its
  message stands, unreachable, in `score`.
* `DecodeWithinBatch` (`:2428`), `context_history` with `EmbedText <- MCEmbedLong`:
  `embed` decodes a text in one batch whatever `n_batch` is.
* `HistMirrors` (`:2631`), `context_history` with `RejectClears = TRUE`. A rejected
  `state_load` leaves the history valid. This rests on an assumption about
  llama.cpp: that `llama_state_set_data` may have emptied the cache when it
  reports failure.
* `RunsToContextEnd` (`:1140`), `context_history` with `GenPrompt <- MCShortPrompt`,
  `SystemPrompt` and `SpecLeft <- MCNone`. `n_predict` -1 is `n_ctx - n_prompt` even when
  the prompt is appended to tokens in the cache: generation fails at the end of the
  window.
* `FailsOnlyWhenFull` (`:1965`), `speculative` with `Batch <- MCSmallBatch`: the
  verification batch has `n_draft + 1` rows whatever `n_batch` is, and a decode with
  more rows than `n_batch` traps.
* `FailsOnlyWhenFull` (`:2030`), `speculative` with `Cells <- MCDraftCells`: a draft
  context with a smaller window ends the call with an error, and the text so far is
  lost, where the target alone would have gone on. The comment at `:1912-1914` says
  that correctness never depends on the draft.
* `ResetIsPinned` (`wasi-configure.sh:67`), `configure` with it as a further invariant:
  `git checkout -- path` takes the file from the index, so a path that was staged is
  not "put back to the pinned commit first". `TreeIsSeries` and `Recovers` therefore
  speak of files that are not staged.
* `RuntimesAreBuilt` (`build-eh-runtimes.sh:35`), `configure` with
  `SwitchAnytime = TRUE`: the stamp of the release installed before stays while
  another is installed over it. If that install is stopped and the first release is
  asked for again, the script returns at once over a mixture of the two.
* `RerunInstalls` (`build-eh-runtimes.sh:44, 47`), `configure` with it as a further
  property: a tarball, an unpacked directory or the narrowed source file that was cut
  short exists, so later runs skip the step that would make it whole and fail until
  it is removed by hand.

Smaller notes. The AVX2 kernels of the Kx8 formats write nothing when a row has no
blocks; the others store zeros. The comment at `repack_q5_0_a64.go:57-59` describes an
earlier layout. `x64GemmX8Kernel` keeps its column groups at `176(SP)` and declares a
frame of 176 bytes (`repack_q5_0_x64.go:363`).

## What is proved

**ContextProofs, the slots**: for every number of sequences, cache size, batch size and set of
prompts that satisfies `SizesAssumption` and `SlotsAssumption`:

* `TypeCorrect`: `Spec => []TypeOK`. Its content beyond types is that budgets,
  chunk sizes and positions never go below zero.
* `BatchAlwaysFits`: `Spec => []BatchFits`. The batch has at most `n_batch` rows and
  fills exactly the arrays allocated for it.

`BatchFits` is not inductive: it speaks of the moment of the decode, and the rows
were counted loop by loop before. The invariant `IInv` adds to `TypeOK`

* `RowKinds`: a slot with a pending token or with logits is generating, one with a
  chunk is not, and the chunk is within its prompt; so no slot has two kinds of
  row;
* `RowCount`: the slots with a pending token, a chunk or logits (`RowHolders`) are
  at most `n_batch`, and at most `rows` while a batch is assembled. This is why
  the decoding slots alone never exceed `n_batch`: a slot becomes a decoding one
  only through a row in an earlier batch that had room for it.

A second invariant on top of it, `RowsFilled`, says that `rows` is the number of
cells the batch will write: it holds because each slot's cells belong to its own
sequence, so the cells of different slots are disjoint and their numbers add up.
The proofs have one lemma for each action.

**ContextProofs, the life of a task**, under the same assumptions:

* `EndingsAreLast`: `Spec => []NothingAfterTheEnd`.
* `FirstComeFirstServed`: `Spec => []NoOvertaking`.
* `EveryTaskIsAccountedFor`: `~SamplerMayThrow => (Spec => []NoTaskLost)`.
* `TokensAreAllTold`: `~SamplerMayThrow => (Spec => []TokensAddUp)`.

The first two rest on `OrderInv`: the ids in the queue grow towards its end and are
all above the ids that started, a slot's id is neither in the queue nor in another
slot, and what was told or gathered of a task in a slot or in the queue holds no
ending. That ids are never handed out twice between two resets is what makes this
inductive. `NoTaskLost` speaks of the moments between calls; inside
one, `Accounted` says of each id posted that it is in the queue, in a slot, or has
its ending in what was told or is about to be, and `TokensMatch` that the tokens told
and gathered of a slot's task are those it has produced. A sampler that
throws discards what was gathered, so both need `~SamplerMayThrow` (see the divergence
at `:1655`); the proof shows that nothing else loses a task or a token, failing decodes,
cancellations and stops included.

**ContextProofs, the cache of the slots**, under the same assumptions, for both layouts of it:

* `CacheHoldsTheText`: `Spec => []KVMirrors`.
* `TasksAreApart`: `Spec => []SystemIsolation`.
* `AdmissionKeepsItsWord`: `Spec => []AdmittedTasksFit`.

`CacheInv` follows the cells while a call runs. A slot's sequence holds the places of
the first `n_past` tokens of its text, and a pending token is the one that follows; the
system prompt is whole in its sequence, which runs no task; and a cell that two
sequences own is one of its cells. `KVMirrors` and `SystemIsolation` are two parts of it, and neither is
inductive without the other: a trim of one sequence leaves the others alone only
because no cell is shared but the system prompt's, and a launch copies the right cells
only because the system prompt's are still there.

`RoomInv` is what admission promises. With one buffer, `slots_reserved` is the
number of places (a slot and a position) the busy slots reserve: positions from the
end of the shared part to the end of the prompt and the budget. The cells in memory
that are not the system prompt's, and those of the batch being assembled, inject into
these places, so a decode never needs a cell that admission did not count; with streams,
every position stays below the window. That the recursive sum in `slots_reserved`
counts the places is proved by the least number of slots for which it would not.

**ContextProofs, the single-sequence calls**: for every prompt, text, batch size and number of choices that
`ContextAssumption` allows, with the slots' calls in between:

* `InterruptsAreHeard`: `CtxSpec => []InterruptStops`.
* `HistoryIsTheCache`: `~RejectClears => (CtxSpec => []HistMirrors)`.
* `SamplesItsOwnText`: `~RejectClears => (CtxSpec => []SampledFromItsPrompt)`.
* `ContextImplementsSlots`: `CtxSpec => SlotsSeeSequence0`, the refinement, for a host
  that sets no system prompt and makes no speculative call (`SystemPrompt = {}`,
  `SpecLeft = {}`, as in the run).

`CtxInv` adds to the slots' `IInv` who may run next to whom: a generate has the
context to itself, and the history is only valid while no slot has a task, so that
whatever the slots do to sequence 0 they do while it is not. It also bounds the
positions in the cache: the code asks for the last one, and a maximum exists of
finitely many only. `HistInv` is
`HistMirrors` for the context and for a saved state at once, because a load brings
the one in from the other. `GenHolds` says at every step of a generate that sequence 0
is what it found (`gen.base`) and the text decoded so far at the places from
`gen.from` on, and that it ends there: a piece of the prompt, however it is cut by
`n_batch`, continues the run. A sample is taken when the text decoded is the prompt
and all tokens before it. `RejectClears` is the assumption about the engine under which
`HistMirrors` fails (see the divergence at `:2631`).

`SoloInv`, for the refinement, says that every cell belongs to one sequence, that of a
busy slot or 0, and that sequence 0, while slot 0 is idle, holds a text from position 0 on
that a window holds; so does the saved state. While no slot has a task the cache is
then that text and nothing else, whatever a single-sequence call does to it (append,
cut, clear, load) leaves another one, and that is the instance's `UseSequence0`. The
slots' own steps are the instance's literally. The two assumptions are what the code
needs, not the proof: generate and its kin clear the system prompt's cells too
(`:1158`), and generate_speculative does not look at the slots (`:1880`).

**SpeculativeProofs**, for every vocabulary, prompt, window, cache, batch and number
of drafts that satisfies `SpeculativeAssumption`:

* `GenerationIsAutoregressive`: `Spec => ImplementsAutoregressive`, the refinement.
* `CachesAlwaysAgree`: `Spec => []CachesAgree`.
* `InterruptsEndRounds`: `Spec => []InterruptEndsRound`.
* `DraftNeverFailsACall`: `Spec => []FailsOnlyWhenFull`, assuming `Roomy`: no decode
  fails for a reason of its own, the draft's window is no smaller than the
  target's, and `n_draft + 1 <= n_batch`. The two divergences above are what happens
  without the last two.

The invariant `IInv` says for each place of the call which text each cache holds.
During the walk of a verification it is `First(target, base + 1 + i) = prompt \o
produced` together with "row j was computed after `First(target, base + j)`": the
row that is looked at was computed after the text emitted, and when a draft is
rejected the cut at `base + 1 + i` restores the equation of the next round.
`Counts` bounds the drafts by what `Proposals` allowed and the tokens since an
interrupt by the row; `Failures` needs both.

**ThreadpoolProofs**, for every number of pools, threads, nodes, traps, forks and
failed spawns:

* `FreedIsUnused`: `Spec => []NothingFreedIsUsed`.
* `CountsAreThePools`: `Spec => []CountsMatchPool`.
* `NoNodeAfterStop`: `Spec => AbandonedGraphEnds`.

`PoolInv` relates every worker to the main thread: the threads that compute a
graph have all passed equally many barriers, and the pool has counted exactly those that
wait at the next one, so the main thread leaves a graph only when no worker is still in
a node of it; outside a graph every worker rests, unless a trap abandoned it; and the
pointers of the context and of the backend name a live pool that is not stopping, or
none. The thread counts have a maximum (`ThreadpoolAssumption`, an `int32_t` in the code).

**VecDotProofs**, for every set of kernels and calls and every size of memory:

* `MemorySafe`: `Spec => []InBounds`.
* `TrapsWriteNothing`: `Spec => []TrapIsClean`.
* `TrapsAreDeserved`: `Spec => []TrapIsDeserved`.
* `SumsAreComplete`: `OutputsApart => (Spec => []EveryBlockOnce)`.

`SafeInv` says that what is left of each row ends inside memory, that a pass which
runs has the blocks it reads left, and that the results' addresses were checked.
`BlocksInv` says that each accumulator holds exactly the blocks below its row's
pointer, in order, whatever the number of blocks in a pass and the tail left by
it. `OutputsApart` excludes the one call of a tile whose two columns of results
overlap (`nrc = 2` with a result stride below 2), which ggml does not make.

**FlashAttnProofs**, for every set of calls with finite dots (`CallsAssumption`), every
size of block and of memory, and scores of any magnitude above `NegInf`:

* `NothingPastTheEnd`: `Spec => []AttnInBounds`.
* `BlocksChangeNothing`: `Spec => ImplementsRecurrence`, the refinement.
* `SoftmaxIsWhole`: `Spec => []SoftmaxOfRange`, assuming that no call starts at
  position 0, which in `Softmax` stands for what was there before.

`Places` says that the pointers of K, V and mask move together and that what is left of
the call is what lies between them and its end; a block and a lane of it end there too.
`Scores` adds what the fast path takes for granted: the scores of the block
are those of its positions, none is above the maximum, and the maximum is no smaller
than a finite score, so the lanes past the last position, whose score is minus infinity,
weigh nothing. The recurrence over a block (`Walk`) and the sums of its lanes
(`Sums`) are recursive functions; that they agree is shown by the least lane at which they
would not. `SoftmaxIsWhole` is a fact about the recurrence alone (`Tells`: after each
position every weight in a log is the exponential of its distance to the maximum so far,
or has vanished with it), carried to the kernels by the refinement.

**QuantsProofs**, for rows of any number of blocks and any bytes in them (`BlocksAssumption`):

* `QuantsOnceHolds`: `Spec => []QuantsOnce`, for all 25 formats, both architectures, the
  row dots, the arm64 tiles and every export of the repacked products.
* `LoadsInBlockHolds`: `Spec => []LoadsInBlock`.
* `TileMatchesSingleHolds`: `Spec => []TileMatchesSingle`.
* `NoPairSaturatesHolds`: `Spec => []NoPairSaturates`, also from `GridAssumption`: the
  codebooks hold no byte but those of the source's grids.

The layout is taken apart from the arithmetic. A kernel's dots are runs of lanes on the
activation block, one for each member of an index set (`Covers`); an activation block, plain
or interleaved, is laid out in runs of quants with a scale each (`Seats`, proved once for
each length of run). Where the two agree on the runs, each quant has one reader (`Once`);
one lemma for each body shows that they do, whatever its weights are, and that its other loads
end inside the blocks (`Within`). The dots of each body are written out in `QuantsForms`, and
shown here to be the ones the body computes. A tile's body picks the high bits by other instructions
than the single row's: `Q4KTile`, `Q5KTile` and `Q6KTile` show that on bytes both give
the same form, and that is where the assumption on the bytes is used. `QInv` is
inductive because a pass computes its forms from the blocks alone.

For the sums in 16 bits the invariant is `FInv`: every form of a pass fits (`Fits`). The
arm64 kernels add in 32 bits (`a64LookupQuiet` and its siblings). Of an amd64 row dot it is
enough that its weights are `Narrow`, of magnitude 128 under activations of 127 or the other
way around (`NarrowFits`: both make 32512); that they are is one lemma for each format, from
the bits it takes (`x64Field`, `x64Shr`), the tables and grids it looks up and the signs it
applies. The nests add two or four pairs before they widen (`WordsFit`), which leaves q4_K
and q5_K weights of 31 and q6_K weights of 63. That a nest reads bytes at all is the packing's
doing: where the quants lie, it moves bytes of the columns' blocks or flips bits of them
(`PackedK`, `PackedQ6`, `PackedX`).

**RepackProofs**, for every set of kernels and calls, every size of a row group, column
group, pass and chunk, and every memory, with calls whose output rows do not overlap
(`CallsAssumption`):

* `NothingPastTheBuffers`: `Spec => []RepackInBounds`.
* `SumsAreInOrder`: `OnePass => (Spec => []SumsInOrder)`. `OnePass` is what the finding
  at `repackgemv_x64.go:163` leaves of the AVX2 GEMV: its rows are one chunk, or its
  column groups fewer than two passes. The bounds hold without it.

`Shape` says that the cursors follow from the row groups, column groups and blocks done;
only the output cursor of the x64 GEMV may lag behind, by whole groups, and that is the
finding. It also says why a second chunk means a full first one. `MemoryIs` tells of
every float of the output what it holds in the middle of the nest (`Is`): the whole sum
in the rows done, the sum up to this chunk in the columns stored, the sum of the chunks
before in the others, and what the host left in the rows to come. `Running` says the same
of the tile's accumulators, which a later chunk loads from the output. That a tile is
stored over nothing but its own floats needs rows that do not overlap: a float then has
one row and one column (`OneFloat`).

**ConfigureProofs**, of `PatchSeries`, for every tree and every series:

* `AppliedMeansApplied`: `Spec => []TreeIsSeries`.
* `OthersAreSafe`: `Spec => ForeignUntouched`.

`IInv` says of every file not edited since git's status: while the reset runs it is
still listed or as the commit has it, and while patches are applied it is the pinned
one with the patches so far. `Carried` is needed for `git add` after a run: a file
that carries a patch cannot become an unstaged pinned one.

and of `Configure`, for every tree, series and set of releases, members and parts:

* `StampIsEnough`: `~SwitchAnytime => (ConfSpec => []RuntimesAreBuilt)`. Past the look
  at the stamp a run works with one that is not the one wanted, so wherever it ends no
  later run returns at once; and a stamp seen at a change of release tells the truth.
* `ConfiguredIsSeries`: `ConfSpec => []TreeIsSeries`, and `ConfigureLeavesOthers`:
  `ConfSpec => ForeignUntouched`: what is shown of the series holds of
  the whole script.

## What is only model-checked, and what is not modelled

Only checked: liveness (`EveryTaskEnds`, `CallsReturn`, `Recovers`: out of the
prover's reach), and of `Quants` what the decoders compute (`DecodesAsReference`): not
recursion but the number of bodies stands in the way, each decoder needs its own bit
arithmetic, on both architectures and for each nest. The theorems state the other 36 of
the 40 properties of the passing runs.

Assumptions of the kernel models. `FlashAttn`: the values of V are finite, dots and
scores lie above half of `NegInf`, which stands for minus infinity; row sizes are
multiples of 8, the rounding of f16 accumulators is left out. `Repack`: rows of the
output do not overlap, their stride is at least the columns computed. AVX2 signed
pairs: activations are between -127 and 127, as ggml's quantizers make them.
What `n_draft` the host passes is positive; slots' tokens carry no text.

Not modelled:

* what samplers, scores and embeddings compute; JSON, base64, UTF-8; stop strings
  (a stop is a free choice); how `score_choices` packs choices into batches;
* nested calls from the token sink (`llama_api.cc:1210`), which llama_api.h's threading
  model rules out;
* adapters as a property of cells (`lora_set`), and ids that outlive a `reset`;
* inside ggml's pool, a trap that captures a worker while it holds the mutex;
* vector math kernels and the values the quantizers compute: straight passes over
  floats, whose hazards (rounding, polynomial error) integers do not show; where the
  quantizers store is in `Lanes`;
* text generation: instruction encoding, the constant pool, dispatch stubs;
* the patch verifier, a sequential reader of one binary; `wasi-build.sh`, which
  starts from an empty directory; the workflows.

## Plan

1. `Algorithms`: `find_stop` against the first match in the whole text, the grouping
   of `score_choices` against `n_batch` and the spare sequences, the state envelope
   as encode/decode, checked over bounded inputs.
2. Adapters as a tag of cells; ghost generations of task ids across resets; chunk
   starvation under endless posts.
3. Proofs: of the values in `Quants`, one format after another, along the lemmas
   `QuantsProofs` has for the layouts.
