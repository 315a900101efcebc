# A TLA+ verification project for acestep.cpp

acestep.cpp generates music on ggml: an HTTP server that owns the GPU and runs
jobs for its clients, command-line tools around the same pipelines, a native
adapter trainer, an MP3 encoder and a web UI. This directory holds TLA+
modules translated from its code, TLC configurations that check them on small
instances, and TLAPS proofs about them. Paths are relative to the repository.

    tlasany M.tla                          parse a module
    tlc -workers 2 -config X.cfg MCM       check a run (table below)
    tlapm M_proofs.tla                     check the proofs

## 1. The system

| part | state | operations | talks to |
|---|---|---|---|
| HTTP handlers (`tools/ace-server.cpp`) | none of their own | POST /lm, /synth, /understand, /caption, /vae; GET and POST /job; /logs, /props | the job pool, the work queue |
| job pool | `g_jobs`, `g_job_order`; in each `Job` the status, the cancel flag, the result | `job_create` (evicts), `job_find` | handlers under `mtx_jobs`; the worker holds shared pointers |
| worker | `g_work_queue`, `g_work_stop`, the `g_loaded_*` names | `worker_main`, one worker function per kind of job | the pipelines; writes results into jobs |
| log stream | a ring of 512 lines, a cursor per client | reader thread, `handle_logs`, the end of the capture | stderr through a pipe |
| model store (`src/model-store.cpp`) | `gpu` (key to pointer and refcount), `handle_to_key`, CPU tables | `store_require_*`, `store_release` | every pipeline; one loader per kind of module |
| loaders (`src/*-enc.h`, `dit.h`, `vae*.h`, `qwen3-lm.h`, ...), adapters (`src/adapter-merge.h`) | the shared backends and their count; what a refused load left | load, merge an adapter, free | store, weight files |
| registry, requests (`src/model-registry.h`, `src/request.cpp`) | names found at start; one record per request | scan, find; parse, write, resolve seeds | handlers, workers |
| pipelines (`src/pipeline-*.cpp`) | one call's tensors | lm, synth, understand; cancel callback | store, samplers, VAE |
| synth runner (`tools/synth-batch-runner.h`) | the job, latents and audio slots | DiT phase, decode phase | pipeline, worker |
| trainer (`tools/ace-train.cpp`) | epoch, cursor, accumulator, optimizer, progress file | train, save, resume, cancel | checkpoints, preprocess cache, history |
| checkpoints (`src/train-checkpoint.h`) | a directory of generations, root PEFT files, a pointer | save, resolve, validate, load | the file system |
| preprocess cache, history | files of examples; `metrics.jsonl`; an LRU | store, get; append, repair | trainer |
| metadata FSM (`src/metadata-fsm.h`) | where in the YAML header the LM is | apply a mask, take a token | LM pipeline |
| LM pipeline (`src/pipeline-lm.cpp`) | prompts, one FSM and last token per sequence, KV sets that outlive the call | phase 1, merge, phase 2 | store, FSM, model |
| DiT sampler (`src/dit-sampler.h`), VAE tiling (`src/vae-tile.h`) | device inputs and what they still hold; tile plans | a step's uploads and passes; encode, decode | synth pipeline |
| tokenizer, MP3, audio I/O, the graphs themselves | numerical work and parsing | | pipelines |
| web UI, tools | | poll, fetch, cancel; sequential drivers | server; pipelines |

What is hard here:

* **The job system is threads over two locks and some atomics.** Handlers run
  beside the worker; creation and push take different locks; the result is
  published by a status store; the cancel flag is polled where the pipeline
  happens to look; a finished job may be evicted under a client's request.
* **Cancellation and failure meet in the middle of several tracks.** Each stage
  has its own idea of what a set flag means, and owns memory to be given back.
* **The store aborts the process** on a require its caller should not have made,
  and it recognises handles by addresses that can be given out again.
* **Checkpoints must survive kills and power loss** between any two system calls.
* **A batch of sequences shares one decode** but each ends in its own step, on
  caches that still hold the last call; the LM's text is steered by one state
  machine, which sees tokens, and read back by another parser, which sees text.
* **Device buffers and graphs are kept and reused**: what a computation leaves in
  them, and who uploads what again, depends on the kind of guidance and graph.
* **One region, four roundings.** A repaint is given in the time of the source,
  and then padded, cut to frames, to patches and to tiles by different functions.
* **Training is interrupted and continued** at any update, many times, over files
  that other trainers change and a journal whose last row may be torn.

Nothing here sends messages over a lossy network: the clients' HTTP requests
are the only ones, and a client that repeats a request just makes another job.

What makes each part correct, in a sentence: a pushed job runs once and settles,
whoever sees "done" reads a whole result, and a cancel is honoured where it can
be; a batch keeps tracks, latents and memory together on every path; a held
module stays loaded and nothing else does under strict; a checkpoint is all
there or not there; a training job makes the same updates, of the same examples, however it
is cut; each song of a batch is decoded on its own cache, its header is well
formed, and what its request gave comes back; a repaint changes its region and
nothing else; what a handler accepts its worker can do, and gives back all of.
`PROJECT.json` lists the hazards behind these, each at its line, with the
properties aimed at it.

## 2. The modules

| module | models | run by | proved in |
|---|---|---|---|
| `JobServer` | pool, queue, worker, GET/POST /job, shutdown | `JobServer.cfg` | `JobServer_proofs` |
| `JobService` | what the job endpoints promise; `JobServer` implements it | `JobServer.cfg` | `JobServer_proofs` |
| `Requests` | parsing, writing and resolving a request, as operators | through `HttpServer` | `HttpServer_proofs` |
| `Registry` | the scan of models and adapters, names | through `HttpServer` | `HttpServer_proofs` |
| `Intake` | the POST handlers and the workers: refusals, buffers, names, start, shutdown (extends the two above) | through `HttpServer` | `HttpServer_proofs` |
| `LogStream` | capture of stderr, ring, reader, /logs clients | through `HttpServer` | `HttpServer_proofs` |
| `HttpServer` | `Intake` and `LogStream` in one process | `HttpServer.cfg` | `HttpServer_proofs` |
| `SynthBatch` | one synth job: expansion, runner, encode, multipart body | through `SynthShape` | `Synth_proofs` |
| `VaeTiling` | the tile plans of both VAE directions, as operators | through `SynthShape` | `Synth_proofs` |
| `DitSampler` | a sampler run: uploads, graphs, passes, the cover swap | through `SynthShape` | `Synth_proofs` |
| `SynthShape` | phase 1 frame by frame, and the splices of the decode, inside `SynthBatch` | `SynthShape.cfg`, `DitTwoPass.cfg`, `LegoRegion.cfg` | `Synth_proofs` |
| `ModelStore` | the store's entry points under both policies | through `ModuleLoad` | `ModelStore_proofs` |
| `AdapterMerge` | which weights an adapter file changes or why it is refused, as operators | through `ModuleLoad` | `ModelStore_proofs` |
| `ModuleLoad` | the loaders inside a miss of `ModelStore`, shared backends, CPU tables | `ModelStore.cfg` | `ModelStore_proofs` |
| `Pipelines` | any sequence of jobs on the store (extends `ModelStore`) | `Pipelines.cfg` | `Pipelines_proofs` |
| `MetadataFSM` | the constrained decoder, as operators on the state of one | through `LmBatch` | `Understand_proofs` |
| `LmModel` | the causal LM: KV sets, the kept decode graph, as operators | through `LmBatch` | `Understand_proofs` |
| `LmBatch` | `ace_lm_generate`: two phases, their batch and caches, the merge | through `Understand` | `Understand_proofs` |
| `Understand` | `ace_understand_generate` on the same loaded LM (extends `LmBatch`) | `LmBatch.cfg`, `LmCompaction.cfg`, `LmGenres.cfg` | `Understand_proofs` |
| `Checkpoint` | a save, step by step, and the file system under it | `Checkpoint.cfg` | `Checkpoint_proofs` |
| `CheckpointStore` | what saves promise a run that resumes; `Checkpoint` implements it | `Checkpoint.cfg` | `Checkpoint_proofs` |
| `TrainRun` | a training job as a chain of interrupted runs | through `TrainJob` | `TrainJob_proofs` |
| `PreprocessCache` | the prepared examples: chunks, entries, LRU, other trainers | through `TrainJob` | `TrainJob_proofs` |
| `TrainHistory` | `metrics.jsonl` | through `TrainJob` | `TrainJob_proofs` |
| `TrainJob` | the three together | `TrainJob.cfg` | `TrainJob_proofs` |

Each `MC` module is a module with the values its configurations need; `MCLmBatch`
is `MCUnderstand` with the assumption that the instance is plain (section 4), which
the configuration of `lm_genres` does not meet. Some
modules also define *slips*, operators that say "Slip" in their comment: the
same definition as a plausible bug would have it. They are no part of any
specification; they show that a property notices the bug.

### JobServer
A job is its creation number, so the order of `g_job_order` is the order of the
numbers. `submit[j]` is where the POST handler is: between `job_create` and
`job_push` it holds no lock, hence two actions. Everything a handler does under
one lock, or with one atomic, is one action: the GET handler is `FetchFind`
(`job_find`), `FetchStatus` (the load of the status), `FetchResult` (the copy);
the cancelling POST is `CancelFind`, `CancelStatus`, `CancelStore`. The worker's
`pc` follows the shape all worker functions share; what differs between the six
kinds is in the sets `Interruptible`, `CutShort`, `Rechecked` and `CheckedLast`,
read off lm_worker, synth_worker, understand_worker, decode_worker and
encode_worker. The last look at the flag and the store of the final status are
two actions, as they are in the code: `Choose` keeps what was chosen in `verdict`,
and `Settle` stores it whatever became of the flag meanwhile. Atomics are
sequentially consistent, as the code uses them; the
queue's lock and condition variable make pop and stop atomic. `Threads` bounds
the handlers that are in the middle of something, as the thread pool does.

### Requests, Registry, Intake, LogStream and HttpServer
The other half of the server: what a post may hold and what becomes of it. Jobs
here have contents and no threads, since `JobServer` has the interleavings of
the pool: a post is one action, a job's work another. A payload is its length,
or absent, or there and undecodable; a length is counted in samples or
latents. `Handle` takes a post through the checks of its handler in order and
either enqueues a job or refuses, with what a refused /synth post had decoded
by then left in `heap`; the worker's actions follow its early returns, and free
and remember what the code does at each. The heap is a set, so it tells what is
freed too early or never, and not what is freed twice. `made` is what the last LM job answered,
which a client may send back to /synth as it is (`SentBack`).
`LogStream` has the capture (`written` half lines: one half is what has arrived of a
line), the ring, and for each client the place in the loop of `handle_logs`:
the content provider, the copy under the lock, the send without it, the wait of
two seconds that ends by itself. `HttpServer` joins both: every handler and
worker step writes a line; main, returning or through the hook of `exit()`, ends
the capture. /logs holds a thread of the pool and ends when `svr.stop()` or its
client says so, and main's `listen` waits for it.

### SynthBatch, SynthShape, DitSampler and VaeTiling
`SynthBatch` is the inside of one synth job. The expansion clamps sizes and cuts
the batch at the slots allocated; a decode polls the flag per tile only when it
is tiled; a failed track is skipped, and a cancelled one fails the run; the
encoder leaves an empty string when the flag is up at its end. As in `JobServer`,
the final status is chosen by a look at the flag and stored by another step, and a
cancel in between is acknowledged and changes nothing. `inputs`, `job`
and `audio` are the allocations that must be given back. `SynthShape` puts into
its DiT phase what phase 1 does to every frame: a sample of the source is its
time, a frame of latents is the samples it stands for, so that the track that
comes out says for each of its samples whether it is the source's, and of which
time, or generated. The region, the left padding, the rounding to frames and to
patches, the FSQ roundtrip of a cover, the codes of each request and the buffers
with their real lengths are those of `pipeline-synth-ops.cpp`; reading beyond a
buffer gives `Beyond`. `VaeTiling` has the tiles, of which only the kept core
reaches the output. `DitSampler` keeps for each device input what it holds and
lets a computation clobber whatever the scheduler may reuse.

### ModelStore, ModuleLoad, AdapterMerge and Pipelines
`gpu`, `owner` and `held` are the store's table, `handle_to_key`, and what its
callers owe. Each entry point holds the mutex throughout and is one action. In
`ModelStore` callers do anything their contract allows. `ModuleLoad` opens a
miss: each kind's loader is the sequence of its steps, and a load may be
refused, or end the process, at those where the code says so; `stray` counts,
for each such step, what refused loads took and did not give back, and `careless`
holds their keys. `refs` is `g_backend_refs`. The DiT may wear an
adapter, and `AdapterMerge` says of a file, entry by entry, which weights it
changes and when it is refused. In `Pipelines` the one worker runs programs of
requires and releases, read off the pipelines for each task and source, and
leaves them at any point by error or cancel (a job whose model is not `Found`
in the registry does not begin), which unwinds the open scopes as
`ModelHandle` destructors do. The VAE loaders end the process when they fail
(`Exits`).

### MetadataFSM, LmModel, LmBatch and Understand
`MetadataFSM` is one decoder's state as a record and what `apply_mask` and
`update` do to it; a token is the sequence of the pieces of its text that matter
here, so that a line break or a colon inside a token, or blanks before a colon,
are what they are in the code. `LmBatch` gives each sequence such a record.
Any token that the masks leave may be sampled. The cache of a KV set is the
sequence of what was written to it, first the prompt, so a set that was not
reset, or fed with another's token, is seen. `LmModel` adds the batched decode
graph, kept from step to step and call to call and identified by a key, and the
scheduler whose memory it may share with prefills. The merge reads the sampled
text as `parse_cot_and_lyrics` does, which finds a key wherever it stands.
`Understand` is the other pipeline on the same LM, its prompt as long as the
song, its answer cut by what the cache has left.

### Checkpoint
`disk` is what the file system shows, `safe` what the last fsyncs left for
certain. Each rename, copy and fsync of `ace_save_train_checkpoint` is an action;
`Fail`, `Kill` and `PowerLoss` can come between any two. A power loss keeps or
loses each unsynced entry independently; the unsynced files of one generation
count as one, since one lost file spoils it. A directory entry that is synced
through its directory is safe, a file through its own fsync. The checkpoint
directory itself is taken as durable: its entry in its parent is never synced,
so on some file systems a power loss may still take a new directory as a whole.

### TrainRun, PreprocessCache, TrainHistory and TrainJob
`cursor` is `ACETrainResumeProgress`, `weights` the list of updates that made the
weights, each the microbatches it was made of, and a microbatch is named by what
determines it: the shuffle order, the epoch and the batch. A save is atomic:
`Checkpoint` implements `CheckpointStore`, in which it is. A power loss that takes back
what a save published and did not yet return for is in those two and not here. A
save that fails may have published before it failed, so `Fail` comes before or after. `Launch` may resume any checkpoint ever saved into
the output if the output has none, and only its current one if it has one;
checkpoints with equal contents in different directories are not told apart, so
the model allows a little more than the code does. The cadence is fixed per
instance, the stop target may change between runs.

`PreprocessCache` names an example by its identity, the posterior seed it was
made with and the sizes of its tensors. `files` is the directory, which starts
with anything in it and which other trainers change at any time: each
publishes whole entries by rename, so a partial one stands only for damage,
which the checksum finds. `LookUp` and `Write` are the loop of
`preprocess_dataset`, chunk by chunk; `Get` is the training's read through the
LRU, in which `Slot` is the one entry of an example that is `Kept`.
`TrainHistory` has the journal line by line; a writer that is killed or
fails leaves a row, nothing, or a piece. `TrainJob` runs `TrainRun` over both: a
run prepares until the last example is there, opens the journal at the restored
step, gets the example of each microbatch, and flushes a row for each update
before the progress file tells of it. Batches are of one example, and every
example is in memory or on disk when its turn comes or the run fails.

## 3. The runs

| run | instance | states | what it shows |
|---|---|---|---|
| `jobs` | 2 jobs, 4 kinds, pool limit 1, 2 threads | 176 thousand | no interleaving of handlers, worker, cancels and shutdown loses a job, evicts a running one (`NeverLost`), shows an unfinished or cut result, or leaves the job at work behind at a shutdown; `JobServer` implements `JobService`; every job settles; a queued cancel is honoured; a signal ends the process |
| `http` | 2 of 89 posts over 5 model directories; with the log captured, one kind of post, 5 lines, a ring of 2, one client | 179 thousand | what is accepted can be worked on, variants of a request have seeds of their own, a job's audio is freed when it is over and not before, a request survives the round trip through a client, and the log reaches its followers |
| `synth_batch` | up to 2 requests of sizes -1, 2, 4 with 3 slots; 53 ways to ask; up to 6 tiles | 951 thousand | tracks and latents stay paired and complete, nothing leaks, a cancel before the last look at the flag ends as cancelled; a repaint changes its region only; the DiT reads its own inputs |
| `dit_two_pass` | text to music alone | violation | the second pass of a step without batched guidance reads timesteps that the first may have overwritten |
| `lego_region` | lego with regions alone | violation | a lego with a region gives the source back where it should generate |
| `store` | 4 kinds of modules, 4 addresses, 2 holds each, 1960 adapter files for 3 weights | 347 thousand | counts and handles with reused addresses under both policies; the backends outlive their modules; an adapter is whole or refused |
| `pipelines` | 2 LMs, 1 DiT with and without adapter, 1 VAE | 1.2 million | no order of requires aborts, everything is given back, remembered names are loaded |
| `lm_batch` | 18 sequences of calls to one LM: 1 or 2 requests in 3 modes, and songs to understand | 5.4 million | headers are well formed and end, sequences keep to their caches, no stale graph is computed, an answer fits the cache, the merge keeps what was given |
| `lm_compaction` | 2 requests under CFG | violation | when one sequence of a batch under CFG has ended, the other is decoded on a set that is not its own |
| `lm_genres` | 1 song, a genre of two tokens, and a blank among the tokens | violation | a genre that takes a second blank is no longer one of the vocabulary |
| `checkpoint` | 3 saves, 2 configurations | 86 thousand | `Checkpoint` implements `CheckpointStore`: a resume finds a whole generation or none; a save that returned stays; the root's files fit each other |
| `train_run` | 3 runs of 2 epochs of 5 batches, accumulation 2, 5 examples in chunks of 2, memory for two small examples, one change by others | 5.0 million | what is saved can be resumed; the updates are those of the uninterrupted job, made of their own examples; progress file and journal tell what happened; the memory of the cache is counted |

Why the bounds are enough to be interesting. Two jobs and a pool limit of one make each
creation evict the other job if it has finished and spare it if not; two threads let every
pair of handlers interleave. Eviction among several finished jobs is left to the proofs,
which have any number of jobs. In `http` a second post meets what the first one left queued,
loaded or remembered; the posts cross every kind of part (absent, empty, short, fitting, one
too long) with every endpoint that looks at it; five lines through a ring of two lap a
client twice. The log is captured in a part of the states only, with fewer inputs, because
the handlers do not look at it. Three slots with sizes up to four reach a request that
crosses the limit and one beyond it; frames of four samples, patches of two frames and a
canvas of up to twelve frames make each rounding differ from the next, and regions before,
in, across and after the source give each splice an end of its own. `RegionKept` allows a
repaint to miss the end of its region by a frame, to which it is cut down, and on latents by
half a frame more, because these are also padded by whole frames to the nearest; frames of
four samples are the first to tell the two apart. Four keys let a module be evicted and its
address reused while another is held. Three saves allow a good one, a failed one and one
after it, in the order of any crash. Five batches with accumulation two give a short last
update; three runs give an interruption of a resumed run. The five examples fill two chunks
and a half, the longest of them in the last, and memory for two of them makes every new one
evict. In `lm_batch` the LM writes freely over an alphabet of 12 tokens (line breaks alone,
in a token and before a blank, colons, names of fields that do and do not follow the
caption, `</think>`) up to the tenth token of its text, the first four of a caption, so that
a caption is ended in every way and taken up again; from then on it writes a word or ends.
Values of one and two tokens, one a prefix of the other, exercise the trees; 28 tokens hold
the longest header, and a caption that never ends uses them up. Every token here has its
line break or colon as its last piece, and none of the tokens of genres is blank or ends so:
what becomes of others is shown by `lm_genres` and told in section 5. Two requests suffice
for one to end while the other goes on, and sequences of two or three calls for one to find
the other's rows and graph.

The instance names every bound: `Submissions`, `MaxPosts`, `MaxLines`, `Tried`,
`MaxRequests`, `MaxHolds` and `MaxLost` (a state constraint), `Saves`, `Runs`,
`MaxOthers`, `FreeTokens`, `MaxCodes` and the alphabets of `LmBatch`. Deadlock is
checked everywhere but in `store`, whose constraint stops it, and in `http`,
where a process that has ended does nothing more; in the others an action says so
where the system really ends.

The four violations are disagreements between the code and something the
repository says of it; each is a finding in `PROJECT.json` with both sides.

### Fairness
`JobServer`, `SynthBatch` (and `SynthShape` with it) and `HttpServer` state fairness,
for their liveness properties: weak fairness of the worker (an operating-system
thread whose calls return), of a handler that has started, of main's step after
`svr.listen` has returned, of the log's reader, and of each /logs loop, whose sends
have a timeout of httplib and whose wait is `wait_for` two seconds. Requests,
cancels, signals, failures and crashes are never forced. Model calls are assumed
to return: nothing in the code bounds them.

## 4. The proofs

Every theorem is of the form "the specification implies that this always holds",
for every value of the constants that the named assumptions allow. None of the
properties is inductive as it stands, so each module defines a stronger
invariant, proves that `Init` establishes it and each action keeps it, one lemma
per action, and reads the properties off it. What each strengthening says:

`JobServer_proofs`, for any number of jobs and threads and any pool size:
`NeverLost` (which is `RunningKept` and `OnePlace`), `FetchedIsWhole`,
`StopFinishesCurrent`, with `DoneIsWhole` and `CancelledWasAsked` which only the
proofs state; `StatusIsFinal` of every step. `DoneIsWhole` needs that a cut
result implies the cancel flag and that the flag is never lowered, that a job
with a final step has a result, that only pushed jobs are found by clients, that
the job at work is still running, and that a status that was chosen and is not yet
stored agrees with the flag and the result. `IInv` adds these (`Unborn`, `Shape`,
`Results`, `Verdicts` and the links between `fetch`, `status`, `cancel` and `ask`).
`ServesJobs` is the safety half of the refinement: every step maps to one of
`JobService` or to a stutter. Creation is the hard one: the jobs that
`job_create` evicts are the oldest finished ones, as many as the pool's limit
asks for or all there are (`EvictionFits`).

`ModelStore_proofs`, for any keys and addresses: `RefsAreHolds`, `HandlesLive`,
`StrictKeepsOne`, `NeverUnloads`. The strengthening `StoreInv` says that the two maps
of the store are inverse to each other (`MapsAgree`) and that nobody holds what
nobody owns (`NothingStray`); it is what makes an `emplace` into `handle_to_key`
never meet a stale entry.

Its second half carries this over to the loaders of `ModuleLoad`, action by action,
for any kinds and files of adapters, and adds `PoolFollows` and `AdapterWhole`:
`LoadInv` is `StoreInv`, the backends' count (`PoolInv`: the modules
resident, finitely many, and what refused loads kept) and `WornInv`: what the
adapted DiT wears is one of the files, accepted as it was when it was loaded.

`Pipelines_proofs`, for any registry: `NeverAborts`, `IdleReleased`, `StickyLoaded`.
The programs are shown once to be well bracketed: between two of their steps some
number of scopes is open, all of one key, a skip goes to a place that is alike,
and at the end none is left (`Fits`); they begin with none (`Whole`), and take what
the server will remember, or the job fails (`Needed`). `WInv` then says that the rest
of the program fits what the stack holds (`Planned`), and that the store's counts
are those of the stack (`HeldByStack`).

`Checkpoint_proofs`, for any number of saves and configurations: `SavesAtomically` (the
refinement of `CheckpointStore`, whole, since it states no fairness), `PointerWhole`, on
which it rests, `KeptForever`, `PeftConsistent`. The invariant relates `disk` and `safe`
step by step: `Progress` says what each step of a save has already made visible or durable,
`Ordered` that what is durable is never ahead of what is visible and that no pointer is
ahead of the durable root model, and `PeftAgree` that the root's configuration fits
whichever model a power loss may leave beside it.

`HttpServer_proofs`, for any ring, clients, limits and posts: `StreamFollows`,
`BuffersOwned`, `AcceptedFits`, `RequestCarried`. The log's invariant `LogInv` says
which lines the ring holds, also in the slots that were overwritten (`RingHolds`),
and that a client that is not lapped finds its next line there (`InReach`).
`IntakeInv` says what a queued job may hold (`JobsOK`), that no two jobs are of one
post, so that no buffer has two owners (`PostsApart`), that remembered names are in
the registry (`LoadedOK`), and that the last LM answer is what its requests are
written as (`MadeOK`).

`TrainJob_proofs`, for any number of epochs, batches and runs, any accumulation,
cadence and targets: `Resumable` and `SameTrajectory` (`IInv`: the cursor stands
where the updates so far end in the plan, `Stands`; the accumulator holds the
microbatches since, `Accumulating`; everything saved did once stand so);
`RecordsTrue` (`HInv`: the rows of a session are of the updates it planned, and
each update told of has its row); `ExamplesOwn` (`CInv`: a file that can be read was
made as `Made` says, every length was observed by the end of the preparation, and
what memory holds was read so); `MemoryCounted` (inductive beside `CInv`: the bytes
in memory, a fold over the LRU, are the last of the sums over its beginnings, `SumOf`,
and these change by one size when an example is moved, added or dropped).

`Understand_proofs`, for any values, vocabulary, batch and sequence of calls:

* `RequestKept`: `KeptInv` carries through phase 2 what the merge filled in, which is
  compared with the request field by field.
* `KvOwnTokens` and `ForwardsFit`: `LmInv`. Each sequence's set holds its prompt and what
  it was fed since (`OwnInv`), the rows it was given are as many (`PosInv`), the batch
  is a selection of the sequences that go on, in order (`SeqInv`), and what an answer may
  still write fits behind its prompt (`AnswerInv`). Of phase 2 under CFG this is said as
  long as the sets lie side by side; `lm_compaction` shows the rest to be false.
* `HeaderProgress`, an action property: `FsmInv` says of each decoder that what it forces
  fits its state, that the value it is writing goes on as a legal one, and that one
  that has ended masks nothing. Then each kind of state has a lemma that a token its
  mask leaves brings the end nearer.
* `HeaderWellFormed`: `HeadInv`. `HeaderAt` says for each state of a decoder (a name, a
  value, the genres, a caption, the end) which lines of the header stand, as ever longer
  beginnings of it (`Opened`, `CaptionAt`, `CaptionEnded`, `Reached`, `Begun`), and where its
  next value is due. Texts are flattened tokens, so the lemmas under it are about the
  flattening, trimming and cutting of sequences.

The last has a hypothesis, `PlainInstance`, without which it is false, as `lm_genres` and
the observations on the decoder in section 5 tell. In a caption or an answer every token
that the LM may write has its line break or colon as its last piece, and one that begins
with a blank breaks no line; the tokens that write genres do not end in a blank, and behind
the beginning of a genre there is always one that goes on; and the values that a request
gives are on one line. The instance of `lm_batch` is plain: TLC evaluates `PlainAssumption`
there. Of phase 1, where no genres are asked for, only the first and the last part say
something.

`Synth_proofs`, for any requests, batch limit, source and frame size:
`TracksDelivered` and `Released` (`BInv`: which slots, latents and audio are held at each
step and by whom), `PassReadsOwn` (`SInv`: which device inputs stand and which the last
computation may have clobbered, for each kind of guidance), `ConditioningFits` and
`RegionKept` (`ShapeInv`: one conjunct per stage of phase 1, from the source to the
wave). The last two rest on lemmas about the plans of tiles, which cover a track of
any length without a gap or an overlap (`DecodeWhole`, `EncodeWhole`), and about
recursive functions; where an induction is needed it is over a set of numbers,
with the least element of its complement, since the prover cannot instantiate the
theorems that take an operator.

The assumptions are those named in the modules. They say what the code's types and checks
give: counts and limits are naturals and positive where the code divides by them
(`IntakeAssumption`, `PlanAssumption`, `ShapeAssumption`, `TilingAssumption`,
`CacheAssumption`, `LmAssumption`, `BoundsAssumption`, `AnswerAssumption`), with two sets of
KV caches for each sequence of a batch (`SetsAssumption`); a value stands for absence
(`NullAssumption`, `NoKeyAssumption`, `NoneAssumption`, `AbsenceAssumption`); inputs have
the shape the parser gives them, with numbers the code does not check left to any integer
(`TriedAssumption`, `DrawnAssumption`, `AsksAssumption`, `SizesAssumption`,
`FilesAssumption`, `SettingsAssumption`, `StagedAssumption`, `ValuesAssumption`,
`ScenariosAssumption`); keys, kinds and modules with an exit are those of the code
(`KindAssumption`, `KeysAssumption`), and two loaded modules are at two addresses
(`AddressAssumption`). `ShuffledAssumption` is that a shuffle only permutes,
`TargetsAssumption` that a stop target is a step.

Proving changed the models in a few places. Overlapping CASEs, of which TLA+ leaves
the choice open, became chains of IF in the order of the code (`ResolveName`,
`EncodeSource`, `ResolveT`, `Unmasked`). The names of a job are looked up in the
registry before it begins (`Found` of `Pipelines`). The tolerance of `RegionKept` was half a frame too
tight for latents, which the bounds then in use could not show; it is now checked
with longer frames. A genre that takes a second blank, and a colon with a line break in
one token, came up as cases of `HeaderWellFormed` that could not be closed: the first is
now the run `lm_genres`, the second is told in section 5.

Only model-checked:

* Liveness: `CancelHonoured`, `QueuedCancelHonoured`, `EveryJobSettles`, `SignalEnds`,
  `FollowersServed`, and the fairness half of `ImplementsService`. The prover has
  neither ENABLED nor a rule for fairness that its backends can use.
* The four violations, which are counterexamples.

## 5. Observations that are not properties

The server and its requests:
* `handle_synth` does not free decoded source or reference audio when it refuses
  the post afterwards (`tools/ace-server.cpp:1057`); `BuffersOwned` leaves room
  for exactly these, so it records this leak and finds others. It also checks the
  first request of an array only.
* A `/logs` client lapped by the ring reads newer lines out of order and reads them
  again in their own turn (line 560). `StreamFollows` says which ones, and that it
  ends when the client is back at lines the ring holds.
* A cancel that comes after the worker's last look at the flag is acknowledged as
  "cancelled" (line 2178) though the job is then stored done or failed. Both models
  have that step, so `CancelHonoured` promises nothing of such a cancel; the result
  is whole all the same (`FetchedIsWhole`, `TracksDelivered`).
* docs/ARCHITECTURE.md:1202 gives /understand a temperature of 0.3, which
  `handle_understand_request` sets (line 1281); a post with a request part has it
  overwritten by `request_init`, also when the part does not mention it.
* The VAE that an understand job with latents remembers was never loaded
  (line 1197).
* `/vae` accepts audio shorter than one frame and answers an empty body, which
  it would not accept back.

The synth pipeline:
* `ops_vae_decode` skips a track whose decode failed and returns 0
  (`tools/synth-batch-runner.h:33` then counts the run as good); `TracksDelivered`
  says what the worker makes of it.
* src/pipeline-synth.h:83 says that decoding the captured latents reproduces the
  audio; they are captured before the latent splice of a repaint.
* Under the SDE solver, the noise of one variant at a step has the seed of the
  next variant at the step before.
* The frames of the last patch beyond the source are generated.
* The key of the batch graph leaves `clamp_fp16` out, and a `use_flash_attn` that one
  pipeline turned off stays off.

The LM:
* docs/ARCHITECTURE.md:558 says that the FSM constrains the duration to 10 to 600.
  The merge takes the first "duration:" of the text, though: one that the LM
  mentions in its caption, where the masks leave it free, is taken for the field,
  below 10 too, if the request gave no duration (`src/prompt.h:57`). What a
  request gave is safe: `RequestKept`.
* An empty line in the caption, or a next line that names no field, leaves the FSM
  waiting for a name that can no longer match; the header then ends only when
  the LM itself writes `</think>` or ends, or with the budget
  (`src/metadata-fsm.h:641`). That is why `HeaderProgress` spares the caption.
* `duration :` with a blank is a field to the FSM and none to the parser.
* The decoder looks for a colon anywhere in the token that names a field behind a
  caption (`src/metadata-fsm.h:618`) and goes to the value: after a colon and a line
  break in one token the value is written on the next line, where `get_field`
  (`src/prompt.h:55`) does not look. It looks for the line break of a caption anywhere
  in a token, too, but behind one only at the first character of the next (line 609), so
  a token of a blank and a line break counts as the caption's next line, and a field named
  behind it stays in the caption. `PlainInstance` leaves these tokens out.
* `qw3lm_forward_batch` ends the process when a sequence outgrows `max_seq`
  (`src/qwen3-lm.h:650`), and `qw3lm_forward` returns leaving the logits unset
  (line 493); only the understand pass checks beforehand, and only its prompt.

Loaders and adapters:
* The LM's loader ignores the result of its upload (`src/qwen3-lm.h:319`).
  Loaders other than the DiT's keep their backends when they are refused; the
  VAE's can only end the process.
* An adapter that is replaced on disk is not seen under `--keep-loaded`.

Training:
* A power loss before the first pointer can keep the root model file and lose
  the configuration renamed just before it. Every later save into that
  directory then fails with "incompatible PEFT files"; `Checkpoint` reaches this.
* A first save cut short leaves generations without a pointer: a resume is
  refused, a fresh run is let in (`tools/ace-train.cpp:1202`).
* The progress file of a killed trainer says "running" for ever, and that of a run
  that failed at an update may count a step that no checkpoint has.
* The last row of the journal that names an update is always the one that made
  the weights (`RecordsTrue`). Reading it as "each session replaces the rows
  behind its `start_update`" can lose rows instead: a row does not say which session
  its own resumed from.
* An example larger than the memory limit empties the whole LRU
  (`src/train-preprocess-cache.h:289`) and is itself not kept.

## 6. The plan

Done, in this order: the job system, because everything a client sees passes
through it; the synth job inside it; the store and the pipelines on it; the
checkpoint and the training loop that relies on it; the LM's decode with its FSM;
the understand pass and the kept graph on the same LM; the loaders and adapters
under the store; the shapes, tiles and uploads of the synth pipeline; the
handlers, requests, registry and the log; the cache and the journal of the trainer.

Every safety property that a passing run checks is proved, with the refinement of
`CheckpointStore` and the safety half of that of `JobService`.

Not modelled, and why:

* The numerical work (graphs, schedules, solvers, encoders, optimizers, the sums of
  a merge, the resampler): a model would restate floating-point code.
* The choice of training windows and the loss weights, which are floating point; the
  pairing of dataset files, which is a directory scan run once.
* The tokenizer and the genre vocabulary's files: string processing, external
  to `MetadataFSM`, which takes their results as constants.
* The MP3 encoder: signal processing; its threads share nothing but the cancel
  flag, which `SynthBatch` has.
* The command-line tools: sequential drivers of the pipelines that the server's
  workers run. The converters and the quantizer: file to file.
* The web UI: a client like any other, whose posts and polls `HttpServer` and
  `JobServer` allow in any order.
* The vendored libraries; httplib's listener and pool are external to `JobServer`.
