# A TLA+ model of llmopt's serving stack and toolchain

llmopt compiles language models for Apple GPUs and serves them over HTTP. The
compiler is a pipeline of pure passes; what is hard to test is, first, the
*serving stack*: a prefix cache whose slots change owners all the time,
transactions that can fail between any two steps, a lock-free ring between an
OCaml thread and a C worker, and a server whose engine thread and HTTP thread
share a queue. Around it stands a *toolchain* of Python programs: they capture
the models the compiler reads, build engines, and measure servers, and each of
them shares directories, ports, processes or connections with others that may be
killed, time out or start at the wrong moment. These two are what the modules model.

All paths are relative to the repository root, `src/` here.

## 1. Inventory

### Components, their state and their operations

| part | source | state | operations |
|---|---|---|---|
| slot pools | `lib/kv_cache.ml` | free list, in-use bitmap, counter (twice: token slots, recurrent checkpoints) | reserve, release |
| radix tree | `lib/radix_cache.ml` | nodes with edges, slots per edge, `resumable`, checkpoint, `lock_ref`, `cached_tokens`; leases | match_prefix, release, insert, insert_and_match, extend, evict |
| serving cache | `lib/serving_cache.ml` | one tree and the two pools | the tree's operations, each settled with the pools; speculative reservations |
| serving engine | `lib/serving_engine.ml` | the cache; retained decode plan, recurrent buffers, last checkpoint; cursors | prompt, verify_prompt, decode, step_batch, Sequence.*, prompt lookup, reset |
| ring queue | `native/ocaml_metal_stubs.m` | two rings with wrapping counters, mutex and two conditions, a worker with one command held back, token and output buffers | create, submit, wait_completion, poll_completion, destroy; the worker's loop |
| serving queue | `lib/serving_queue.ml` | waiting requests with their state and score, allocated tokens, congestion flag | enqueue, pop_next_batch, reserve_tokens, release_tokens |
| generation driver | `lib/generation_core.ml` | engine step (with its lease), last token, count | State.init, State.step |
| server loop | `bin/serve.ml` | table of active requests | HTTP handler, engine loop |
| HTTP connections | `lib/webs_iomux/` | connections, streams of chunks | accept, read, write, drop; Stream.push, pop, close |
| speculation | `lib/serving_speculative.ml` | none (pure) | acceptance, n-gram proposals, tree masks |
| memory plan | `lib/serving_memory_plan.ml` | intervals of a workspace | allocate, release, coalesce |
| physical cache | `lib/metal_cache.ml` | device tensors addressed by slot | batched pack and unpack |
| capture backend | `python/llmopt_backend/__init__.py` | sessions with their keys and archive, artifact directories | compile_fx, bind, seal, relink |
| benchmark clients | `bench/racebench/http.py`, `lfm25_poisson_bench.py`, `lfm25_benchsuite.py` (`run_trace`) | conversations, kept connections, results | the turns of a trace |
| benchmark hosts | `bench/llama_cpp_speculative_bench.py`, `bench_prompt_lookup_speculative.py`, `llama_cpp_server_bench.py`, `run_serial_job.py` | lock file, child processes, port, receipts | campaigns, phases, jobs |
| suite reports | `bench/lfm25_benchsuite.py` | files of an artifact directory, workers | isolated runs, combination |
| workloads and scores | `bench/racebench/` | none (pure) | profiles, trace files, needle prompts, scores, summaries |
| interchange formats | `python/llmopt_backend/*.py`, `lib/weight_archive.ml`, `lib/tokenizer.ml` | none (files) | write, read |
| engine builds | `bench/build_gemma4_engine.py`, `build_mellum21_engine.py`, `gemma4_mtp_capture.py` | none (pure) | entries, names, bindings of weights |
| schedules, runtime, compiler, code generators, loaders, text, other tools | the rest of `lib/`, `python/`, `bench/`, `native/` | | not stateful, or I/O |

### How they interact

```
 clients <-> HTTP thread --handler--> active table, queue --> engine thread
                ^  (webs_iomux)              (mutex, condition)     |
                +------- stream of chunks (own lock) <--------------+
                                                                    | State.init / State.step
                                            serving engine <--------+
                              match/lease, reserve, run, insert, release
                                  |                          |
                       serving cache (tree + pools)      Metal schedules, or the
                                                        ring: SQ -> worker -> GPU -> CQ
```

```
 PyTorch model --compile_fx--> session: weights archive + graphs --> compiler
                   (threads, processes, one artifact directory)
 GGUF file ------build_*_engine--> entries bound to an augmented archive --> runtime
 trace file, profile --> benchmark client --> server (llmopt's, llama-server)
 suite run --> worker per candidate --> reports --> combined report
 benchmark, job --> lock, process list, port --> llama-cli, llama-server, command
```

The engine runs on one thread. What makes its cache transactions hard is not
parallelism but length: a call leases a prefix, reserves slots, calls the device,
which may fail, and then either inserts or gives back, while cursors opened
earlier keep their leases, and every error path must settle exactly what is
still its own. (One does not: see `engine_raises` below.) The rings and the server do
have real concurrency.

### What makes each part correct, and what is hard

* **Pools**: bitmap, free list and counter describe the same set. Hard: error
  answers must leave everything as it was.
* **Tree**: a cached prefix is found again; lock counts survive splits; a leased
  path keeps its slots; eviction finds what is unlocked.
* **Cache**: every slot in use has exactly one owner (the tree or a reservation).
  Hard: insertions that are partly or wholly redundant; drafts that end in a page.
* **Engine**: a cached slot or checkpoint holds the states of exactly its
  prefix; a call that returns, with a result or an error, has forgotten no slot,
  checkpoint or lease, and one that ends in an exception forgets a known part.
* **Ring**: nothing lost, repeated or overwritten over counter wrap-around;
  each request gets its own answer; nobody sleeps through a wake-up; destroy ends.
* **Server**: no request falls between queue and thread; the admission account
  follows the requests; each request's stream is ended, or the process; a client gets
  the whole answer in order.
* **Capture**: a graph names exactly the weights it was captured with, in the
  archive it is linked to; a call is refused only for a reason. Hard: calls of
  several threads and processes on one directory, deaths while an archive is written.
* **Clients**: one result per turn, prompts that repeat what was answered, no
  failure of the client's own making, an end to every trace.
* **Hosts**: what is measured runs alone and is what was started for it. Hard: a
  signal between any two steps, each met by other clauses; children that outlive
  their parent.
* **Reports**: a combined report holds results of one run. Hard: files of earlier,
  crashed and concurrent runs in the same directory.
* **Formats, builds, scores**: what one side writes the other reads as it was; an
  engine's entry computes what was captured, with its own weights and caches.

The full list of hazards, each at its line and with the properties that watch
it, is in `PROJECT.json`.

## 2. Modules

| module | models | lines of state |
|---|---|---|
| `SlotPool` | a pool as a set of slots: grants and returns | `inUse` |
| `SlotService` | what a pool promises its callers: the right answer to every call | + `reply` |
| `KvPool` | `kv_cache.ml` 315-399 | `free`, `inUse`, `used`, `reply` |
| `KvPoolProofs` | theorems about `KvPool` | |
| `PrefixStore` | what a prefix cache promises its readers, without a tree | `store`, `readers` |
| `RadixCache` | `radix_cache.ml` as actions with parameters | `nodes`, `slotAt`, `cachedTokens`, `resumable`, `ckptAt`, `lockRef`, `leases` |
| `ServingCache` | `serving_cache.ml` over `RadixCache` and two `SlotPool`s | + `tokensUsed`, `ckptsUsed`, `held`, `refused` |
| `ServingEngine` | the transactions of `serving_engine.ml` over `ServingCache` | + `call`, `cursors`, `orphans`, `slotData`, `ckptData`, `decodeBuf`, `planBuf`, `bufData`, `lastCkpt` |
| `RingQueue` | the rings of `ocaml_metal_stubs.m` | rings, worker, device, buffers, client |
| `NativeParts` | `KvPool` and `RingQueue`, one per behaviour | + `part` |
| `ServingQueue` | `serving_queue.ml` | `queue`, `allocated`, `congested` |
| `ServeLoop` | `serve.ml`, its streams and its driver, over `ServingQueue` | + `active`, `driver`, `stream`, `conn`, `received`, `engine` |
| `CaptureSession` | `compile_fx` and its sessions | `root`, `archives`, `linked`, `graphs`, `session`, `ticket`, `calls` |
| `TraceClient` | the three benchmark clients | `mode`, `talk`, `results`, `requests`, `faults` |
| `BenchHost`, `ServerBench`, `SerialJob` | programs that start others | lock, children, ports, receipts |
| `ReportSet` | isolated suite runs in one directory | `runs`, `workers`, `files`, `sealed`, `top` |
| `Programs` | the programs above, one per behaviour | + `focus` |
| `FxCapture`, `EngineGraph`, `TensorBinding`, `WeightBinding` | captured nodes, engine entries, the names their weights are bound by and the archive these are in, as operators | |
| `Codecs`, `InputFiles`, `Workloads`, `Verdicts` | formats, input files, workloads and scores, what a suite or a needle test concludes, as operators | |
| `Toolchain` | `Programs`, `ServeLoop` and the cases of the operators | + `case` |
| `Tables` | a hash table's `replace`, and two tables joined, as operators | |
| `MC*` | small instances for TLC | |
| `RadixCacheProofs`, `ServingCacheProofs`, `ServingEngineProofs` | lemmas about the tree; theorems about the cache and the engine; each EXTENDS the one before | |
| `RingQueueProofs` | theorems about `RingQueue` | |
| `ServeLoopProofs` | theorems about `ServeLoop`: requests and leases, answers, admission | |
| `ProgramsProofs` | theorems about `Programs`: captures, hosts, server benches, jobs, suite runs, trace clients | |
| `CasesProofs` | theorems about `TensorBinding`, `InputFiles` and `Verdicts`, for every input | |

**Composition.** `ServingCache` EXTENDS `RadixCache` and instantiates `SlotPool`
twice: it knows of each pool the set of slots in use. That `KvPool` answers every call
as such a set must (`SlotService`) is checked and proved. `ServingEngine` EXTENDS `ServingCache` and uses its actions with its
one caller. `ServeLoop` EXTENDS `ServingQueue`; it leaves the engine open (any
call may fail, any token may end the generation) and keeps of it only whether a
driver holds a lease, so the server is correct for any engine with that interface.
A call may also raise, which ends the process. `NativeParts` puts `KvPool` and
`RingQueue` side by side, which only the engine brings together: `part` says which of
them a behaviour is about.
`Programs` EXTENDS the modules of the Python programs. These share nothing but the
machine, so they are not interleaved: `focus` says which program a behaviour is about,
and the others stay in one initial state. Within a program, its threads, processes
and files do interleave. `Toolchain` EXTENDS `Programs`, `ServeLoop` and the modules of
the conversions; a behaviour of no program is the server's, or has in `case` one input
of the enumerated ones. It is apart because the formats need RECURSIVE operators, which
no module with a theorem may reach: the theorems about the programs are stated of
`ProgramsSpec` and those about the server of `ServeSpec`. A step of `Toolchain` is one of
`Programs` or of `ServeLoop` and leaves everything else alone.

### How state corresponds

* *A tree node is named by the token string that leads to it*; parents and edges
  follow from the names. The code's arrays of slots per edge become one function
  `slotAt` from positions, a position being the page-aligned string up to it
  and an index. A split then moves no value, as in the code, where it only
  cuts arrays. Namespaces: a token of the model is a (namespace, token) pair.
* `held` is what a caller has reserved and neither inserted nor returned. The
  code has it in local variables; here it is state, because ownership is the point.
* A decode that ends in an exception leaves its reservation in `held` for a caller that
  does nothing more (`Lost`: one in the runs, any number in the proofs);
  `orphans` are cursors that a reset, which asks nothing of open cursors, has left with a
  match of the cache it dropped.
* `refused` records that a pool has refused a release: the code answers with an
  error then, *after* it has changed the tree. A correct caller never gets there.
* The *content* of device memory is the prefix it was computed from, `{p}`, or
  `{}` for anything else. Freed memory has no content: whatever is read there is wrong.
* In `RingQueue` the right answer to a request is its own name, and the device
  answers `Wrong` if the token it read was meant for another request.
* In `ServeLoop` `engine` is the engine thread's program counter with the
  requests it holds in locals, `"over"` once an exception has ended the process;
  `lost` and `unreadable` only remember events.
* In `BenchHost` a benchmark's step says which handlers and clauses enclose it, so a
  signal does there what they do: between `Popen` and the assignment to
  `_ACTIVE_CHILD`, during the grace wait, and between the creation of the temporary
  receipt and the assignment of its name, they do nothing.
* In `SerialJob` a job's command is a program or a Python script of the lists of
  `run_serial_job.py`, or neither; a job of a listed script is itself a Python with that
  script among its words, so `ps` shows it as that workload while it waits.

### What a step is

`ServingCache`, `ServingEngine`: one call of the cache, or one run of the device;
calls of one engine do not interleave, but open cursors and reservations of other
callers (in `ServingCache`) do. `RingQueue`: one access to shared memory, or one
section under the mutex. `ServeLoop`: one section under the mutex or the stream's
lock, or the work between two of them.

### Abstractions worth knowing

* Access stamps of the tree are left out: `Evict` takes any evictable leaf, one
  per step. What holds for every order holds for least-recently-used.
* Scores of the queue depend on the clock: `PopNextBatch` returns the decodes in
  any order and any admissible prompt. The code's order is one of these.
* Reservation picks any free slots; the code picks the head of a free list.
* The atomics of the ring are sequentially consistent: each relaxed access of the
  C code is of a counter only the reading thread writes, or is under the mutex.
* Branches that cannot be reached are left out and said so: in `ServeLoop` those
  for a popped decode that is not registered or has finished (`NoRequestLost`).
* In the tool modules a tensor, a spelling, a text or a digest is a value that is
  compared, never spelled; a file holds who wrote it; a graph's value is the
  expression it computes. An initial choice (`overlap`, `apart`, `inTurn`,
  `symlinked`) says whether the user keeps runs apart, and a property then says what
  holds only if so.
* `Codecs` counts the bytes of a name and of a tensor; alignment, offsets and sizes
  are computed. Integers have the width of the file's words (`WordBits`, 64 in the
  code), and the compiler's are one bit narrower. A W4 scale is rounded to the
  nearest half-precision number of `Significant` digits, underflows to zero and
  overflows to infinity, as `Half` says; the float32 arithmetic before it is taken as
  exact, and its clamp at float32 eps is below the least half and has no other effect
  than that of zero. Strings, floats, enums and keyword arguments are constants like
  an integer and are left out, as are `op`, `target`, `dtype` and, in
  `TensorBinding`, the prefixes `self.` and `m.`, which are dropped like `model.`.
* After a refused release `ServingEngine` starts no further call; what the tree
  then holds is no longer described (`Idle`).

## 3. What the runs show

Passing runs:

| run | instance | states | shows |
|---|---|---|---|
| `native_parts` | pool: 4 slots, requests -1..5, releases of up to two numbers -1..4; ring: capacity 2, counters modulo 4, depths 1-3 | 412,241 | pool: the three records agree, each call has the right answer of a plain set (`SlotService`); ring: entries exact, right answers, no lost wake-up |
| `serving_cache` | 2 tokens, 4 slots, 2 checkpoints, 2 leases, keys up to 3, pages of 1 | 25,911 | ownership, lock counts, pinning, tree shape; refines `PrefixStore` |
| `serving_cache_pages` | the same with pages of 2, keys up to 4, 5 slots | 1,815 | every cached page is found again and owned when edges are cut at pages only |
| `engine_attention` | 4 prompts, 5 slots, 3 leases, 2 cursors, no recurrent state | 176,555 | the cache is truthful, cursors stay anchored through resets, nothing is left behind but what an exception drops |
| `engine_recurrent` | 4 prompts, 4 slots, 3 checkpoints, 1 cursor | 206,491 | ownership, with checkpoints (that nothing else is left behind is proved for this case too) |
| `toolchain` | server: 2 requests, capacity 8, streams of 2 chunks; programs: five compile calls in two processes; two conversations of two turns; three benchmarks, two server benches, two suite runs, two jobs; inputs of each conversion | 351,655 | server: no request lost, exact account, complete answers, every request ended or the process; programs: right weights, exact traces that end, measurements undisturbed, reports of one run; conversions that fit |

`serving_cache` has one caller, who may hold several leases and several reservations;
for any number of callers its properties are proved.

Of the conversions four properties are checked, each of one kind of input: what is
written is read back (`FilesReadBack`: graphs, archives, W4 rows, tokenizers, traces),
what is captured, renamed and bound keeps its meaning (`GraphsKeepMeaning`), what is
measured is what the numbers are of (`MeasuresMean`), and a suite's verdict does not
depend on how it was run (`VerdictsAgree`).

What the properties of `toolchain` except, because the code does it:

* a second thread or process, or a new call whose directory already holds an archive,
  is refused (`RefusalsExplained`);
* a kept connection fails at the turn after a chunked answer that ended with `[DONE]`:
  the client leaves the last chunk unread (`FailuresExplained`). The docstring at
  `bench/racebench/http.py:262-267` looks for the reason in the server;
* a `llama-cli` started through a symbolic link is not recognised in the process list,
  and one that a SIGINT finds during the grace wait, or any signal before it is known
  to the handler, lives on without its benchmark (`MeasuredAlone`);
* two servers or jobs that both look before either has started run side by side, and a
  job whose command is of no list is no workload (`ServersOwn`, `JobsSerial`). Two jobs
  of listed scripts never do, but both may be refused: each waits for the other's job;
* a slice whose bound is a node that nothing else names is captured without it among
  the inputs, an integer of the file may not fit the compiler's, and a key may be blank:
  the compiler refuses these graphs (`CaptureTaken`);
* a W4 weight is away by half a step and by what the scale lost, and is infinite or
  zero where the scale is (`WeightsClose`);
* a needle test over HTTP exits 0 whatever was retrieved (`NeedleRunRight`);
* the tokenizer exporter takes spellings with two ids and merges of unknown tokens,
  which the server's loader refuses (`TokenizerSurvives`).

Runs that end in a violation, each a disagreement of the code with what the
repository says (quoted in `PROJECT.json`, `findings`):

| run | property | what the code does |
|---|---|---|
| `engine_replay` | `ReleasesAccepted` | the insertions of a replay offer settled slots again; the pool refuses them after the tree has changed |
| `engine_stale` | `CacheTruthful` | the retained decode plan runs on the buffers of an earlier call |
| `engine_raises` | `NeverRaises` | `extend` raises on an edge longer than one token instead of splitting it, and the slot and the checkpoint of the call stay in use for nobody |
| `ring_pipelined` | `AnswersRight` | with two commands in flight an answer is overwritten by its predecessor's |
| `serve_batching` | `PromptsRunBesideDecodes` | a round with a decode puts its prompt back, so requests are served one at a time and there is no continuous batching |
| `required_needles` | `RequiredNeedlesFound` | results of workers that skipped the needles, combined with `--require-needle`, pass although no needle was looked for |

`AnswersRightUnpipelined` is the part of `AnswersRight` that does hold: at depth
one, or when each answer is collected before the next submission, which is what
`execute_static_decode` does. `CacheTruthful` holds without recurrent state: it is
checked in `engine_attention` and proved (`AttentionServedTruly`).

### Bounds, and why they are enough

* *Keys up to three tokens over two token values* give every relation between two
  keys (equal, prefix, parting at the root, parting inside an edge) and a split
  below a split; *two leases* give a lease above and one below a split; *four
  slots* make the pool run out. With *pages of two*, keys of four tokens have an
  edge of two pages, which is the only one that can be split.
* The engine needs *four tokens*, as only an uncached suffix of three is prefilled
  behind a cached prefix (`SuffixPrefillMin`, from the code), and *three leases*
  for a call beside two cursors. Recurrent runs keep to three tokens: replays
  there have one or two steps. `Prompts` bounds the calls' arguments.
* `Buffer` has three elements: the retained buffer, the plan's, and a replay's.
* Pool: requests and releases go one beyond each end of the valid numbers; two slots
  in a release are enough for a duplicate and for one right and one wrong.
* Ring: with *capacity two and counters modulo four* every counter wraps, both
  rings fill, and both token buffers are used; `Window` bounds what the client
  leaves uncollected to the ring's capacity, so names are unique.
  `ring_pipelined` uses modulo eight only for a readable trace.
* Server: one request fits and one closes admission and is charged beyond the
  capacity, the two sides of each comparison with the watermarks. `MaxChunks = 2`
  is less than the chunks of an ending, so full streams occur.
* Toolchain: calls of one and of two processes, with tensors shared under two names
  and one name for two tensors; *two turns* are the least in which a connection is
  reused and a turn skipped; *three benchmarks*, one without signal handlers, leave
  an orphan beside a holder of the lock and one who is refused; *two* benches, runs
  and jobs give every race of a look with a start. `Deepest = 2` bounds the nesting of
  arguments the codec takes (64 in the code), and inputs one deeper are refused;
  `WordBits = 4` has integers that a word holds, that only the compiler refuses and
  that nobody takes; scales of `Significant = 3` digits and `Exponents = 2` binades
  above `Finest = 4` are rounded, vanish and overflow;
  `Alignment = 32`, `GroupSize = 2` and `ReadSize = 3` are small against the
  inputs, so padding, incomplete groups and split reads occur; models have up to
  six layers with every full-attention period up to three; `Rounds = 6` (64 in the
  code) ends searches that do and do not converge.
* Symmetry is used for slots, checkpoints, leases, cursors and (in the cache)
  tokens and callers, of runs without liveness properties; no definition tells
  members of these sets apart, and each `CHOOSE` over them is over a set with one
  element or a result that does not depend on the choice.
* `CHECK_DEADLOCK FALSE`: the engine runs stop after a refused release and at a second
  exception, whose reservation has no name left,
  the ring stops when it is destroyed, and the engine thread sleeps when the
  finitely many clients have been served, and is gone after an exception; the tools come
  to an end.

### Fairness

`RingQueue`: weak fairness of the worker (the operating system schedules it), of
the device (it finishes committed commands, with success or error) and of the
rest of a call the client has begun; none that the client makes calls. `ServeLoop`:
weak fairness of the engine thread only. Clients may stall or never come, and the
HTTP thread owes the engine thread nothing: `RequestAnswered` holds all the same,
because the engine thread never waits for a stream. It says that a request's stream is
ended unless an exception ends the process, with every connection cut; nothing makes
that happen, as an exception is a choice of a step that could also be taken without. `SliceAssumption` states what
liveness needs of the configuration: a prompt slice larger than the high watermark
is never admitted, and the engine thread then spins. `TraceClient`: weak fairness
of each conversation's own steps (its thread is scheduled, its socket times out
because `timeout_s` is set on the connection); the server owes nothing, and
`TracesFinish` holds even if it falls silent in the middle of an answer.

## 4. What is proved

Each property of a run that is listed here is also checked by TLC on that run's
instance; the theorems hold for every value of the constants that satisfies the
named assumptions. Every proof goes through an inductive invariant, named below,
with one lemma per action.

### Pools: `KvPoolProofs`

`PoolTypeCorrect`, `FreeListAlwaysExact`, `RefusalAlwaysHonest`,
`GrantsAlwaysFresh`, `PoolImplementsService`: for every capacity, every set of
requested counts and every set of release arguments, duplicated and foreign slots
included. (`RefusalHonest` and `GrantsFresh` are only proved: the run checks
`ImplementsSlotService`, which says both and more.) `FreeListExact` together with the types of
the four variables is inductive. `used \in 0 .. Capacity` is not inductive by
itself: that a release does not make the counter negative needs that it equals
the number of slots in use, and that a reservation does not exceed the capacity
needs that the free list holds each free slot once. `RefusalHonest` needs that
the length of the free list is `Capacity - used`, which is a counting lemma about
injective sequences. One lemma per helper (head and tail of an injective
sequence, reversing and concatenating, cardinality of the difference) carries
the steps of `Reserve` and `Release`. `PoolImplementsService` shows each call to be the
one right answer of `SlotService`: granted exactly if so many slots are free, taken back
exactly if each slot is in use and named once, and nothing moved otherwise.

### Tree and cache: `RadixCacheProofs`, `ServingCacheProofs`

For every page size, any number of callers and leases, any set of tokens, any finite
set of slots and any bound on the keys (`CacheAssumption`):

* `CacheTypesCorrect`, `TreeStaysSound`, `LocksCountLeases`, `LeasesStayPinned`,
  `UnlockedCanGo`, `PagesStaySound` of the tree;
* `EverySlotHasOneOwner`, `EveryCheckpointHasOneOwner`, `NothingIsRefused` of the
  tree with its pools;
* `CacheImplementsStore`: `Spec => ImplementsPrefixStore`.

`RadixCacheProofs` shows that each operation of the tree keeps `TreeInv`: types, the
shape of the tree (two nodes part at a node), exact lock counts and pinned leases.
The four need each other: that a split takes over the right `lock_ref` needs that
counts are exact; that eviction of an unlocked leaf leaves leased paths alone needs
that a lease below it would have locked it; that a lookup stops at a node needs the
shape. `CacheInv` adds ownership: the slots of the tree and those of the reservations
are injective, disjoint, and together are the pool's slots in use, and the same
for checkpoints. It is stated for any user of the cache, so that the engine can use it
with more checkpoints per reservation; `OneCkpt` is what the callers of `Spec` add.
`ReleasesAccepted` follows, as what is given back is owned. The refinement maps a
lease to the positions of its path (`Readers`) and the tree to `slotAt`: an insertion
extends the map where it had no entry (`Extended`), an eviction removes what no
reader holds (`ReadersServed` with pinning), and a split changes nothing.

### Engine: `ServingEngineProofs`

For any prompts, cursors, slots and checkpoints, with and without recurrent state, for
every page size, with device failures at every point, refused reservations, decodes that
end in an exception, and resets under open cursors:

* `EngineTypesCorrect`, `NothingStaysBehind`, `CursorsStayAnchored`,
  `OwnedUntilRefusal`.

`EngineInv` has seven parts. `CacheSound`: the tree is always sound, and the whole of
`CacheInv` holds until a release is refused, which the code does get to
(`engine_replay`), so no theorem says that it does not. `PhaseSound`,
`ComputesMore`: what a call may be doing in each phase, and that it computes at least
one token. `LeasesKnown`, `CursorsSound`: every lease is the call's or one cursor's,
and only the cursor being decoded shares its lease with the call. `HeldSound`: there is
a reservation exactly between reserving and settling, as long as what is left to
insert. `ReplaySound`: what a replay has inserted, the tree has, or the pool has it back.
Without the last, nothing could be said of a replay's second insertion. `LostSound` says
what is reserved for nobody: the one slot, and with recurrent state the one checkpoint,
of each decode that ended in an exception.

* `AttentionServedTruly`: `AttentionOnly => (EngineSpec => []CacheTruthful)`, for
  models without recurrent state and with pages of one token (the page size that
  cursors require). That
  a cached slot has the content of its prefix needs that a
  slot which was filled keeps its content until it is inserted, that nothing in use is
  filled a second time, and that a call which runs has inserted nothing yet (`TruthInv`).
  With recurrent state the code violates the property (`engine_stale`).

`CallerAssumption` says that there is a caller, the engine itself.

### Rings: `RingQueueProofs`

For every capacity, depth and width of the counters (`WrapAssumption`: a multiple
of twice the capacity, as 2^32 is for a power of two), in every interleaving of client,
worker and device, under `WindowFits`: the client leaves no more uncollected than a
ring holds. The hypothesis is needed, as the completion ring has no check for a full
ring (a hazard in `PROJECT.json`).

* `RingTypesCorrect`, `RingsKeepEntries`: the invariant is `InOrder`: the distances
  between the four counters, taken modulo the width, and the worker's and the device's
  commands add up to what the client has not collected, and each entry between two
  counters is the one of that number.
* `UnpipelinedAnswersRight`: `OneByOne` adds, for a client or a depth with one command
  in flight, that the worker never holds a command back and that the token and
  output buffers are those of the one command.

### Server: `ServeLoopProofs`

For every set of requests, prompts, limits, batch sizes and lengths of streams, with
clients that stall or leave, and calls of the engine that fail or raise:

* `ServeTypesCorrect`, `NoRequestEverLost`, `LeasesAlwaysReleased` from `Inv`: types,
  what the engine thread has in its hands at each step (`HandsFit`),
  `NoRequestLost`, which driver goes with which place (`DriversFit`), and when a stream
  may be closed (`ClosingFits`).
* `AnswersComplete` from `OnTheWay`: what the client has read, followed by what its
  stream holds, is the driver's answer so far, one token behind between step and push.
* How far the server is from continuous batching is a lemma, `OneRequestAtATime` from
  `StartsAlone`: a prompt is run only when no decode is waiting, and no registered
  request then has a driver, so at most one is between its prompt and its end.
* `AccountIsExact`, under `LowWatermark < HighWatermark`, which holds for every capacity
  of five tokens or more: `allocated` is the sum of the charges when that fits. A sum
  over a table is a fold; that it follows the table when an entry comes, goes
  or grows is proved from the fold's definition by well-founded recursion (`AddsUp`).

### Programs: `ProgramsProofs`

For every set of calls, processes, conversations, benchmarks, runs and jobs, whoever is
killed at whichever step: each program has an inductive invariant of its own, and
`ProgramsInv` is their conjunction, since a step is one of a single program.

* `CapturedWeightsRight`, `CaptureRefusalsExplained` from `CaptureInv`, for any static
  tensors under any keys (`StaticsAssumption`: each call has a sequence of them).
  `SessionsSealed`: a process writes one archive, and its session's keys are that
  archive's. `CallsFit`: a call that seals has the session's lock. `OwnDirectories`: a
  call alone uses the directory it has created. `DirectoryFits`: what is linked
  there is the archive the bindings were made from. The bindings give each node its own
  tensor where the keys of a graph are distinct (`CapturedRight`); that a tensor has a
  first use and a key a last one is proved by well-founded induction (`FirstAndLast`).
* `TracesAreExact` from `TraceInv`, for workloads and pools of any size
  (`TraceAssumption`). The requests and the messages of a conversation are beginnings of
  one `Dialogue` with the results recorded so far (`RequestsFit`), there is one good
  result for each turn behind it (`ResultsFit`), and a response is left unread only as
  the property's exception says (`LinkFits`). A pool of threads grows by one where
  there is room (`PoolFits`).
* `MeasurementsAreOwn` from `HostInv`, `ServerInv` and `JobInv`. `LockHeld`: the lock
  belongs to the one benchmark that is past it; `LlamasKnown`, `OneAlive`: an orphan under
  its own name is seen before the next campaign. `OnePort`, `AnswersOwn`: another
  server answers only if its bench was killed, and a server of one's own that has
  answered is not followed by another's answers unless it has exited. `TurnsTaken`: of
  jobs that look in turn, one that has found the machine idle is alone; `ScriptsApart`:
  a job of a listed script that has found it idle is seen by every other
  (`HostAssumption`, `ServerAssumption`).
* `ReportsAreFresh` from `ReportInv`. `SpawnedOnce`: the i-th worker is spawned after
  the results before it; `ResultsEnded`: a result file is of a worker that ended;
  `ReadsOwn`: all that the workers of a run that nothing overlapped have written is
  still there, though the directory had files of other runs (`ReportAssumption`).

The exceptions the properties make (overlapping runs, symbolic links, races of a look
with a start, kinds of commands) are initial choices, and the theorems hold for all.

### Conversions: `CasesProofs`

Five parts of what the runs ask of enumerated inputs, for every input of the right type:

* `BindingsRight`: any captured nodes, any inventory of a GGUF file. Its hypothesis
  `WellNamed` is that a key that names a constant (an inverse frequency, a scale) is
  of no layer, as in the models that are captured. A key is looked up as one name
  at most (`GemmaNames`, `MellumNames`), of its own layer, and never as a constant's
  (`ConstantsApart`), so what is refused is missing, misshapen or spelled twice.
* `CoverageAlwaysRight`: any parameters that were validated against a file use each
  of its tensors once, as the tables of names are injective (`GemmaKeys`).
* `TracesPlayable`: any numbers in a trace file that is taken, in each of the
  three forms of output counts.
* `SuitesAgree`: the verdict of two workers, of their files combined and of one process
  is the same for all results and options; a worker is never told that the needles
  are required, so it is their combination that asks for them.
* `ScoreFalls`: a final score falls with the loss of accuracy, for all scores.

### What stays with TLC

* Liveness (`RequestAnswered`, `WaitReturns`, `DestroyReturns`, `TracesFinish`), which
  is beyond the proof system.
* `FilesReadBack`, `GraphsKeepMeaning`, `MeasuresMean` and `VerdictsAgree` as a whole. Graphs, archives and captured nodes are read and written by
  RECURSIVE operators (values nest); tokenizers, entries, W4 rows, scores, rankings and
  the reading of an answer sort, fold or filter a sequence, and what that computes
  for every sequence needs induction over data. The library's induction theorems take
  an operator as a parameter, which the provers cannot instantiate.
* The six properties that the code violates.

## 5. Not modelled

* The order in which the queue and eviction prefer requests and leaves: open, so
  that results hold for any.
* `evict` has no caller in `lib/` and `bin/`; it is modelled in `ServingCache`, as
  it is part of its interface, and absent from `ServingEngine`, as in the code.
* The loss of chunks on a full stream and the lease that leaks after a token that
  cannot be decoded are in the model (`lost`, `unreadable`), and `AnswerComplete` and
  `LeasesReleased` say so.
* A server that is started again after an exception has ended it: it has lost every
  request and every cached prefix, and starts as the modules do.
* In the toolchain: the parsing of llama.cpp's output and the metadata of reports,
  the comparison of completed reports, the Gemma assistant's capture, an archive that is
  reused (`--reuse-weights` is never compared with the GGUF file), scripts that only
  compute (`gguf_fx_parity`, `convert_gguf_exl3`, `model_adoption_matrix`, ...).
* Connections below the stream (parsing, keep-alive, limits, timeouts), schedules,
  kernels, numerics: see `components` in `PROJECT.json` for the reason of each.

## 6. Plan

The order puts what most of the system relies on first.

1. *(done)* Pools, tree, cache, engine transactions, rings, queue and server; the
   proofs of the pools.
2. *(done)* The toolchain: capture sessions, benchmark clients and hosts, suite
   reports, formats, engine builds, workloads and scores.
3. *(done)* The proofs of the cache, its refinement of `PrefixStore`, the engine, the
   rings, the server and the programs, and of the conversions that need no induction.
   Every invariant that a run checks and the code keeps is proved, but those of the
   conversions.
4. Left to extend: the HTTP connection loop (read, write, keep-alive, time-outs, stop)
   and its composition with `ServeLoop`; `Generation.run` and the prompt-lookup
   driver; the workspace interval allocator; acceptance and proposals of
   `serving_speculative.ml` against reference definitions; the layout arithmetic of
   `kv_cache.ml`; a run for the full cache that is never evicted and one for the
   lease that leaks.
