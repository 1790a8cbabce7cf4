# Olorin in TLA+

Olorin is a local assistant written in Rust: a chat loop over an inference
engine, an encrypted vault for the conversation, an HTTP server, a terminal in
the browser, a WhatsApp bridge, a log watcher (`palantir`) and a set of *runes*,
small analysers of logs, tables and lines of JSON.  This directory models the
parts of it whose correctness depends on order (what survives a crash, who may
write, who waits for whom, what is told to whom and when) and the algorithms that
are easy to get wrong at an edge.  The modules are translated from the code under
`src/src`; PROJECT.json names the lines of every definition.

## 1. Inventory

### Components, their state and their operations

| Component | State | Operations | Modelled |
|---|---|---|---|
| Vault log (`storage/vault.rs`, `vault_format.rs`) | file (two header slots, records), `header`, `index` | `create_new`, `open_existing`, `append`, `commit_header`, `search`, `decrypt_last_n` | `Vault`, `VaultLog`, `VaultProofs`; `VaultFormat` (bytes, search) |
| Vault opening (`storage/key.rs`, `core/vault_open.rs`, `platform/lock.rs`) | `vault.salt`, `vault.bin`, the advisory lock | `open_vault`, `load_or_create_salt`, `try_lock_file_exclusive` | `VaultOpen`, `VaultOpenProofs` |
| Thread barrier (`inference/threadpool.rs`, `platform/futex.rs`) | arrival counter, pass counter, futex queue | `SpinBarrier::wait` | `Barrier`, `SpinBarrier`, `GraphPoolProofs` |
| Graph pool (`inference/threadpool.rs`) | graph number, work pointers, stop flag, mutex and condition variable | `run_graph`, worker loop, `drop` | `GraphPool`, `GraphPoolProofs` |
| Decode graph (`forward_graph*.rs`, `matmul_graph.rs`) | shared buffers, chunk counter, KV cache | one phase after another, between barriers | `GraphSteps`, `ForwardGraph` |
| Batch forward (`forward_batch*.rs`, `matmul_graph_batch*.rs`) | as above, for many tokens | a chunk of a prefill | `GraphSteps`, `ForwardGraph` |
| Generation (`generate.rs`, `forward.rs`, `cache.rs`) | KV cache cells and position, size of a chunk, budget, `in_thinking` | `generate`: reset, prefill in chunks, sample, decode, stop | `Generate`, `InferenceProofs` |
| Tokenizer and sampler (`tokenizer*.rs`, `sample.rs`) | the vocabulary | load, encode, decode, sample | `Tokens` |
| Log watcher (`palantir/*`) | detector phase, rate window, last alert, offset and half a line, snapshot file, pid file | start, detach, poll, observe, deliver, snapshot, `--stop` | `Palantir`, `PalantirProofs`, `Watchers`, `WatchersProofs` |
| Request pipeline (`core/router*.rs`, `handlers.rs`, `audit.rs`) | session messages, recall ring, vault rows, audit log, engine settings | a turn from each surface, commands, tools, narration, files, teleport | `Pipe`, `PipeProofs`, `ToolCalls` |
| Recall (`recall.rs`) | ring of embeddings | add, search, deduplicate, synthesize, clear | `Recall` |
| HTTP server (`interface/server*.rs`) | connection count, context mutex, sampling settings, upload directories, teleport flag | accept, route, generate, command, analyze, config, heartbeat | `Server`, `ServerProofs`, `Wire` |
| WhatsApp (`whatsapp.rs`) | teleport flag, bridge | handshake, message, return | `Pipe` (turns), `Server` (flag and context) |
| Terminal sessions (`term_stream.rs`, `pty*.rs`, `ws.rs`, `ansi.rs`) | session table, line buffer, master, child, screen | open, attach, resize, close, reader and writer loops | `Terminals`, `Wire`, `TermGrid` |
| Processes (`exec.rs`, `spawner*.rs`) | pipe ends, children | `run`; `spawn`, `read_line` | `Terminals` (`exec.rs`) |
| Runes (`runes/*`) | none | functions over logs, tables, lines | `EventStreams`, `RuneOutputs`, `Calendar`, `Tables`, `JsonLines`, `Logs`, `Flows`, `Sql`, `Parquet`, `RuneCalls` |
| JSON (`storage/json.rs`, `jsonl_parse.rs`) | none | parse, write, scan | `JsonText`, `JsonLines` |
| Guards (`safety.rs`, `shell_guard.rs`, `path_guard.rs`, `tool_parse.rs`) | the detector's buffer | scan, detect | where they stand: `Pipe`, `Wire`; the detector: `ToolCalls`; the path guard: `RuneCalls` |
| Model files (`gguf.rs`) | none | open, look up, slice a tensor | `Gguf` |
| Cryptography, dequantisation, tools, kernels, platform | none | functions, bindings | no, see 7 |

### How they interact

* The chat, the server and the WhatsApp loop each own or share one
  `DispatchContext`; in the server it is behind a mutex (`Server`).  A turn
  (`Pipe`) adds to the session, to the recall ring (`Recall`), to the vault (the
  promise of `VaultLog`: a row is kept or its append failed) and to the audit
  log, and runs inference.
* A turn that teleports takes the context for as long as the bridge lives; the
  messages that come over it are turns inside that turn (`Pipe`), while
  everybody else at the server waits or is turned away (`Server`).
* Inference runs a *graph* on the pool: the owner calls `run_graph`, the workers
  join in, and all of them go through the same phases, separated by barriers.
  `run_graph` does not join the workers; that its closure ends with a barrier
  is what makes it sound (`GraphPool`, `ForwardGraph`, `Generate`, from below).
* Several Olorin processes meet only in the file system: on `vault.salt` and
  `vault.bin` (`VaultOpen`), and on a watcher's snapshot and pid file
  (`Watchers`).  The children of one process meet in the descriptors they
  inherit (`Terminals`).
* A watcher tells sinks, and writes a snapshot; the chat's system prompt and the
  web page read the snapshot (`Palantir`).

### What is hard

Power loss and failed writes in the vault; several processes in one vault
directory; a barrier reused round after round on two counters with a futex
beneath; a pool that returns without joining; chunk stealing on a counter that
every thread resets; a cache that is a ring on some layers, filled in chunks and
shared by later layers; a detector whose windows and cooldowns overlap with late
polls; a log that is rotated under its reader; a turn that fails half way, or
inside which another one runs; locks released and taken again in the middle of a
request; a session served by two threads and a child, any of which may go first;
descriptors that outlive their owner in another child; text that is summarised
from the places of its quotes without a parse.  PROJECT.json lists these hazards
line by line.

### What makes each component correct

* Vault: an acknowledged block survives; what is open reads back; the durable
  log only grows (`CrashSafe`, `ReadsBack`, `IsALog`).
* Opening: one writer; the salt stays; a wrong passphrase or a second process
  takes nothing away (`OneWriter`, `SaltKept`, `OldVaultGrows`).
* Barrier and pool: nobody leaves before all have come, nobody is left asleep, no
  use of a closure after `run_graph` returned, no mixed phases, every graph once
  per thread, drop ends (`IsABarrier`, `GraphsApart`, `PoolFinishes`).
* The passes: no racing access, every thread computes on what a single thread
  would compute on, no piece twice, all threads come to the end
  (`SharedSoundly`, `GraphEnds`).
* Generation: no pass goes past the cache, attention reads the query's window and
  nothing of another call, the cache stands where the text does, the user sees
  what is outside thinking blocks (`AttendsRight`, `CacheHoldsText`,
  `ThinkingHidden`).
* Watcher: one alert chain per incident, cooldowns kept, no false stand-down, the
  readers agree with the detector (`IncidentTold`, `NoFalseClear`,
  `LiveIsFresh`); one watcher behind the pid file, every whole line once, every
  alert to every sink (`OneWatcher`, `TailExact`, `EverySinkTold`).
* A turn is told once to whoever asked, once to the session and in one piece to
  the vault; the audit log can be read back; the next turn runs with the user's
  settings and a clean context, and a call in the model's text is found; every
  turn is answered (`TurnTold`, `VaultTellsTurns`, `AuditReadsBack`, `ModelGiven`,
  `PipeAnswers`).
* Server: the cap and the flag are true, settings are never older than the
  request, uploads go with it, everybody is answered (`Accounted`,
  `SettingsNotOlder`, `UploadsKept`, `EveryoneAnswered`).
* Terminals and processes: what has gone is cleaned up and told, what runs is
  read to its end (`SessionsGo`, `ShellsEnd`, `ExitTold`, `RunReturns`).
* The algorithms: each equals a definition of what it is for (`StreamsRight`,
  `SummariesRight`, `WireRight`, `TokensRight`, `RecallRight`, `TerminalRight`).

## 2. Plan

The core came first: the parts where data is lost, memory is unsound or an
incident is misreported if an order is wrong.  Then what is around it.

| Step | Modules | Composition and abstraction |
|---|---|---|
| done | `VaultLog`, `Vault`, `VaultProofs` | `Vault` implements `VaultLog` under `log <- DurableLog` |
| done | `VaultOpen`, `VaultOpenProofs` | several processes, over the same file with whole records |
| done | `Barrier`, `SpinBarrier` | `SpinBarrier` implements `Barrier` (proved in `GraphPoolProofs`) |
| done | `GraphPool`, `GraphPoolProofs` | EXTENDS `SpinBarrier`: the pool runs over the real barrier, which implements `Barrier` inside it |
| done | `GraphSteps`, `ForwardGraph` | the texts of both passes as sequences of steps; `ForwardGraph` EXTENDS it and runs them over an INSTANCE of `Barrier` (proved about in `InferenceProofs`) |
| done | `Generate`, `InferenceProofs` | one layer of a pass is a step, which `ForwardGraph` justifies |
| done | `Palantir`, `PalantirProofs` | loop, detectors, snapshot and its readers |
| done | `Watchers`, `WatchersProofs` | the life of several watchers around that loop: pid file, tail, sinks |
| done | `Recall`, `ToolCalls`, `Pipe`, `PipeProofs` | `Pipe` EXTENDS both: a turn with its ring and its detector |
| done | `Server`, `ServerProofs` | many turns at a time around one context; a turn's inside is `Pipe` |
| done | `Terminals` | sessions and commands with the descriptors they inherit |
| done | `Wire`, `TermGrid`, `JsonText`, `Tokens`, `EventStreams`, `Calendar`, `RuneOutputs`, `Tables`, `JsonLines` | operators, each with a reference definition, brought together by `MCAlgorithms` |
| done | `Logs`, `Flows`, `Sql`, `Parquet`, `RuneCalls`, `Gguf`, `VaultFormat` | the same for the other runes, how runes are called and reach files, model files, and what a vault's bytes and its search give |
| next | theorems on `Terminals` | type correctness, and who holds which descriptor |
| next | the patterns of `safety.rs` and `shell_guard.rs`; `report.rs`, `plot.rs` | operators, as the runes |

## 3. Modules and their correspondence to the code

### State machines

**`Vault`** (`storage/vault.rs`).  `header`, `index` are the fields of `Vault`;
`slot` and `rec` the file as the running system reads it; `diskSlot`, `diskRec`
the same cells on the medium.  `append` and `flush_block` are the steps
`WriteRecord`, `SyncRecord`, `WriteHeader`, `SyncHeader`, each with its failing
twin; `RefuseAppend` is the counter guard.  The memory is bumped between the
record's sync and the header write, as in the code, and is not taken back when
the header write fails.  `Open` is `open_existing` with its choice of slot
(`IsCommitPoint`) and its scan (`Scans`, `History`).  `Stop` (exit, kill) keeps
the page cache, `Crash` does not.  A record is one cell that holds a whole block
or does not; a failed sync leaves a dirty cell old, new or torn on the medium
and clean in the cache, as Linux does.

**`VaultLog`** is what the vault promises: a durable, ordered, append-only log
and what the caller of `append` was told about each block.

**`VaultOpen`** (`open_vault`, `storage/key.rs`, `platform/lock.rs`, the open
paths of `vault.rs`).  `salt`, `bin`, `holder` are the files and the advisory
lock; `pc`, `key`, `index` are per process.  One step is one system call that
another process can come in between.  A process may end at any point.

**`Barrier`, `SpinBarrier`** (`SpinBarrier::wait`, `platform/futex.rs`).  Each
atomic access and each futex call is a step; the spin may end at any time.  A
futex wait compares and sleeps in one step, and may be interrupted.

**`GraphPool`** (`run_graph`, `graph_worker_loop`, `Drop`).  `nGraph`, `stop`,
`work`, `mutex` are the shared fields, `last` each worker's `last_graph`.  A
closure is `Phases` phases, each ended by a `wait()` of `SpinBarrier`, whose
steps are taken over as they are; the pool touches the barrier nowhere else.

**`GraphSteps`, `ForwardGraph`**
(`forward_graph*.rs`, `forward_batch*.rs`, `matmul_graph*.rs`).  A program is the
text of `forward_one_inner` or `forward_batch_inner` with its layers: a sequence
of steps, built per layer from the layer's flags (K and V of its own, gate and up
in one matmul, repacked weights, per-layer embeddings).  A step is cut in pieces;
each piece says which cells of the shared buffers it reads and which it writes,
and the kind of the step how the pieces are dealt out: in rounded-up shares, in
strides, by stealing from `current_chunk`, or to thread 0.  `ForwardGraph` picks
one of the three passes (`forward_one_graph`, a chunk of `forward_batch`, its last
chunk) and lets the threads go through it on their own: `Begin` and `End` are one
piece, `StoreChunk` the `store(nth)` by every thread.  Numbers are replaced by the
step that wrote them last.

**`Generate`** (`Engine::generate`, `forward_batch`, `KvCache`).  `cells` are the
rows of the cache, one ring of `Window` cells on a sliding layer and `MaxSeqLen`
on a global one; a row is the token that was stored there.  `Owner` is
`kv_shared_source`, `StoreBatch` the copy of `store` and `store_batch`, `NKv` and
`AttnLen` the row counts given to attention, `Attended` the rows its mask lets
through.  `Start` is the budget and the reset, `PrefillLayer` and `DecodeLayer`
one layer of a pass (threads meet at a barrier around the store and after
attention), `Sample` one round of the loop with the events it sends.

**`Palantir`** (`palantir/mod.rs`, `watch.rs`, `daemon.rs`).  `phase` is
`Detector.phase`, `rate` the `RateDetector`, `last`, `tick`, `wake` the locals of
`run_watch`, `snapshot` the JSON file.  `Poll` is one iteration up to the
alerts, `Deliver` one alert to all sinks, `EndTick` the snapshot and the sleep.
`Chat` and `Badge` are what the readers make of the snapshot.

**`Watchers`** (`palantir/mod.rs`, `daemon.rs`, `tail.rs`, `sink.rs`).  Several
invocations under one name: `Check` to `AtEnd` is `run_watch` up to its loop, with
`daemonize` between reading and writing the pid file; `Stat`, `ReadAppended` are
the two system calls of a poll, `Looked` and `Appended` what the tail makes of
them; `PassOver` is the rule that a failing sink costs the others nothing,
`Hang` an exec sink that never ends; `ReadPid` to `RemoveSnapshot` is `--stop`.
The snapshot is truncated, filled and renamed in three steps.  Lines are bytes
with a mark at the end of a line; which alerts a poll raises is a choice, since
`Palantir` is about that.

**`Recall`** is the ring of `VectorStore`; the similarity of two texts is a
constant table (`sim`), and so is what a text is once it is trimmed and in lower
case (`norm`).  **`ToolCalls`** is `ToolCallDetector::feed` and the loop of
`extract_tool_calls`, over symbols.

**`Pipe`** (`core/router*.rs`, `handlers.rs`, `audit.rs`, the teleport loops of
`whatsapp.rs`).  A turn is a frame of a stack: its surface, where it is, what it
has said, its context and its model's text.  An action is a stretch of code
between two points where something outside may intervene or fail: the model's
answer, a tool's, an append to the vault, a message over the bridge.  A context is lines from the session,
cut to their first hundred characters (`cut`), and whole ones from the vault.
`messages`, `store`, `vault`, `audit` are the records a turn leaves; `Kill` ends the process and
leaves the last two.  Appends fail by choice (`LoseRow`), the code goes on.

**`Server`** (`interface/server*.rs`).  A connection has the program counter of its
thread (`pc`) and that of the thread of its turn (`run`).  `ctx` is who holds the
mutex, `stamp` whose settings are in force, `active` the counter of connections,
`flag` the teleport flag, `dirs` the upload directories.  What `Pipe` does is one
step here: hold the context, say Done, let go or become the bridge.  `Panic`
unwinds one of the threads; `SpawnFails`, `NoThread` are failing starts.

**`Terminals`** (`term_stream.rs`, `pty.rs`, `pty_unix.rs`, `exec.rs`).  `master` and
`ends` say which processes hold a session's master and a command's pipe ends;
`fork` hands on all that are open, as nothing is closed on exec.  `writer` and
`reader` are the two threads of a socket, `map` and `sick` the table and the
poisoned mutexes.

### Algorithms

| Module | Code | Reference definition |
|---|---|---|
| `EventStreams` | `stream.rs`, `substream.rs`, `eacorrelate.rs`, `incident.rs` | the best lag over all lags; shortest paths over findings |
| `Calendar` | `timekey.rs`, `eatime.rs`, `anomaly.rs` | counting the days of a calendar one by one; every format shows the same instant |
| `RuneOutputs` | `output.rs`, `correlation.rs`, `eadiff.rs` | reading back what was written, whole or with a part missing; a difference seen from the other side |
| `Tables` | `eacrunch.rs`, `grouping.rs`, `filter.rs`, `common.rs`, the two CSV kernels | a table written out and read back; groups that make the whole |
| `JsonText` | `storage/json.rs` | parse after write, and after write again |
| `JsonLines` | `eajson.rs`, `eajson_aggregate.rs`, `jsonl_parse.rs`, the line kernel | summaries of the objects themselves |
| `Tokens` | `tokenizer.rs`, `tokenizer_gemma4.rs`, `sample.rs` | all ways to cut a text; merging by rank without a queue |
| `Wire` | `ws.rs`, `server_http.rs`, `server_analyze.rs`, `pty.rs` | what was sent arrives; what is refused is not run |
| `TermGrid` | `ansi.rs` | plain text laid out by hand |
| `Logs` | `ealog.rs`, the log level kernel | levels and samples of the lines taken one by one |
| `Flows` | `eanet.rs`, `netflow.rs`, the pcap kernel | the packets themselves, however the windows fall |
| `Sql` | `easql.rs`, the SQL kernel | tables, columns and rows of the statements a dump was written from |
| `Parquet` | `eaparquet.rs`, `parquet.rs`, `parquet_meta.rs`, `thrift_compact.rs` | what the footer was written from, with fields of newer writers between |
| `Gguf` | `gguf.rs` | settings and tensors of the file that was written; the same file cut short |
| `RuneCalls` | the runes' `parse_args` and `run`, `select.rs`, `common.rs`, `path_guard.rs` | following links by hand, so that what is read lies below an allowed directory; success exactly for a call of the usage line on a readable file; a file dropped in reaches the rune that understands it |
| `VaultFormat` | `vault_format.rs`, `vault.rs`, `search.rs`, the search kernel | the vault that wrote the file: whole, with a tail of a lost append, cut at every length, with any byte damaged; for a search, the places of words in a text without windows, and the rank of a block among all |

`MCAlgorithms` brings them together: one step picks a study and an input, the
properties compare.

## 4. Runs

An instance that needs more than numbers has an `MC` module; the others run the
module itself.

| Run | Instance | Distinct states | What it shows |
|---|---|---|---|
| `MCVault` | 4 appends, 2 power losses, 1 failed record, 2 failed commits, counter limit 3 | 92 842 | `CrashSafe`, `ReadsBack`, and `IsALog`: every step without a failed commit is one of `VaultLog` |
| `MCVaultTornHeader` | 3 appends, 1 failed commit | violated | the finding of section 5 |
| `MCVaultOpen` | an old vault: 3 processes, 2 passphrases, 4 starts, 4 blocks, 1 power loss; a new one: one process after another, kills | 60 668 | one writer, the salt stays, the log only grows |
| `MCGraphPool` | 3 threads, 2 graphs of 2 phases, counters modulo 2, spurious wakeups | 27 974 | the barrier implements `Barrier` and forgets nobody; no closure used after its call, phases in step, every graph once, drop ends |
| `MCForwardGraph` | 3 threads, vectors of 4 blocks, 3 tokens padded to 4, 2 layers, 3 passes | 69 140 | no race, every read as if alone, no piece twice, the graph ends |
| `MCGenerate` | 4 layers (2 sliding, the last 2 share), window 3, context 6, 2 calls, 3 tokens | 8 890 | attention reads the right rows, nothing past the context, what the user sees |
| `MCPalantir` | 8 seconds, a poll a second, window 3, 4 errors confirm | 3.8 million | chains, cooldowns, stand-downs, readers |
| `MCPipe` | 2 turns, 3 installations, 3 questions, 5 outputs, ring of 2, 1 kill, 1 lost append, 3 files | 1.3 million | each turn told once, in one piece, with its outcome, and answered; what the model is given and says |
| `MCServer` | 3 connections, 2 at a time, 1 upload each, 1 panic | 110 422 | the cap, the settings, the uploads, an answer for everybody |
| `MCTerminals` | 2 children out of 2 sessions (cap 1) and 2 commands, a pipe of 1, 1 panic | 143 000 | clean-up, exits told, output read |
| `MCWatchers` | 2 starts, 1 stop, 3 bytes, 1 rotation, 1 alert, 1 hang, 2 sinks | 6 million | one watcher, whole lines once, all sinks told |
| `MCAlgorithms` | 55 sets of inputs | 456 560 | every algorithm on every small input |

Why the bounds are enough:

* The vault has two slots and one block in flight.  Four appends write each slot
  twice after creation; two power losses allow a recovery and a crash of what was
  recovered; the counter limit of 3 lies below the appends, so the guard bites.
  `GenMod` is 5: the generation is the block count plus one, failed commits
  included, so with the guard at 2^31 it cannot wrap in 2^32, and the assumption
  `CountLimit + 1 < GenMod` says just that.
* Three processes: one has the vault, one is in the way, one comes later.
* The barrier in the pool goes four rounds on a pass counter modulo 2: the third
  is the first that meets it at a value it has had before.  The same goes for
  two graphs and the graph number, whose width the code packs into a word.
* Three threads over four blocks: shares of two, so the third thread has none;
  over three tokens and one of padding: strides where one thread has two.
  Stealing starts with one piece per thread and one more to steal, or six pieces
  of rows by tokens; a vector has one row past the last quad, a group of tokens
  is half padding, and the last chunk of tokens is short.  The two layers take
  each branch once.
* A window of three in a context of six: the ring goes round twice.  Prompts of
  1 to 7 tokens lie on both sides of every limit, in chunks of one, two and the
  whole prompt, which ends before, at and after the window.  The second call
  finds the cache of the first.  Of the layers that share, one is sliding, one
  global.
* Eight seconds hold a whole window, its extension, a confirmation, its rest
  and the next trigger; the delay of the sinks makes polls late.
* Two turns are one inside the other, or one after the other with the session, the
  ring and the vault of the first; the ring of two wraps in the second turn with
  its files.  The five outputs are plain text, a call with and without a secret,
  and a call that is not closed.
* Three connections at a cap of two: one is refused, one waits for the context
  another holds, and each kind of request meets each.  A settings race needs two.
* Two children are enough for one to inherit from the other; a cap of one is
  overshot by two openings.  The pipe of one holds less than what a command writes.
* Two starts and a stop: every pair of them.  Three bytes make a line, half a
  line and its rest, before and after a rotation.
* The algorithms have inputs on both sides of every comparison in the code, in
  constants made small (`MaxGroups`, `TextCap`, `ByteArrayMax`, ...) where the code's
  are large; the widths of frames and the lengths of characters are the real ones.
  The vault's file has its real layout in bytes of four values (`Radix`), so that its
  counters run out after 128 appends and the last of them is looked at too; the search
  has windows of four bytes, so that words and lines lie on both sides of a border.
  Captures, dumps and footers are cut into windows in every way that matters.

`CHECK_DEADLOCK FALSE` stands where the program or the instance really stops: a
vault nobody opens again, threads that have returned, a watcher at the end of
its clock, connections that are over, turns that are used up.

Every property of a passing run has a mutant in PROJECT.json: a change of a
definition, of the kind a slip in that code would be, that breaks it.

### Fairness

* `GraphPool`, `ForwardGraph`: weak fairness of every thread's own steps.  The
  operating system runs every runnable thread, and a kernel returns.  A step that
  waits (for the pass counter, the mutex, a work item) is not enabled, and nothing
  is assumed about it.  Spurious wakeups get no fairness.
* `Pipe`: weak fairness of its one thread: models, tools and the disk answer in the
  end.  Nothing makes the bridge send, answer or end.
* `Server`: weak fairness of every thread.  The context is taken finitely often in an
  instance, so that weak fairness gets it to whoever waits; in the program that
  is the mutex's own promise.  Nothing makes anybody connect, or a bridge end.
* `Terminals`: weak fairness of the server's threads and of what the kernel does
  (hang-ups, ends of file), strong fairness of the writer's check of its stop flag,
  which it comes by in every round.  A shell need not end, and a client need not go.
* `SpinBarrier` by itself, `Vault`, `VaultOpen`, `Generate`, `Palantir`, `Watchers` and
  `MCAlgorithms` state safety only and have none.  That the watcher polls in time is a
  part of `Second` in `Palantir`: the clock does not pass `wake` while it sleeps, nor
  `MaxDelay` while it delivers.  The second half is an assumption on the sinks that an
  `exec:` sink can break; see the known limits.

## 5. Findings and known limits

**A failed commit endangers the only commit point** (`MCVaultTornHeader`,
`CommitPointSurvives`).  The generation bumped for a commit that failed is kept
(`vault.rs:313`); the next commit writes the slot that holds the only durable
header, so a power loss during it leaves no header at all.  The comment at
`vault.rs:58–60` promises that a torn header write cannot cost the last one.

### Known limits

What follows is what the code does where a property stops short of it, or what
was seen while translating.  The models contain these cases where a model of the
code is named; the properties are stated around them.

Vault:

* Two processes that find no `vault.bin` both create it, and the later one
  truncates the file of the earlier before it asks for the lock (`vault.rs:148`);
  in the same way two salts can be made (`key.rs:38`).  A new vault is
  therefore looked at under `SoloSpec`, where one process at a time runs (`Alone`).
* The salt is not synced (`key.rs:51`): a power loss can leave a vault and no key.
* A kill between creating `vault.bin` and writing its slots leaves a file that no
  open accepts and nothing creates again (`vault.rs:149`, `182–185`).
* After a crash between a record and its header, the nonce of the lost record is
  used again for the next one (`vault.rs:266`).
* The last append that the counter guard lets through (the 2^31st) commits a header
  with generation 2^31 + 1, whose nonce is that of the first header of all
  (`vault_format.rs:172–178`): `NoncesOnce` holds up to the last but one.
* The comment on `build_block_aad` (`vault_format.rs:180–182`) speaks of a block's
  position; what is bound is the counter that stands in the record itself, which the
  scan (`vault.rs:213–235`) does not compare with the record's place.
* A search tells no line for a word that stands across the border of two windows
  (4096 bytes), and cuts lines at window borders and after 256 bytes, so that a line
  told may lack the word.  More than 64 words find nothing.

Inference:

* A prefill chunk that goes past the window is not causal on sliding layers
  (`cache.rs:122`): it is stored before attention runs, so that the ring's later
  tokens stand where the earlier ones did.  The last query of a chunk is right,
  and so is every query of a chunk that ends inside the window (`AttendsRight`);
  `Causal` in `Generate` is the stronger claim.
* Byte-fallback tokens decode as their name, `<0xNN>`; text is made of each token
  by itself with replacement of what is not UTF-8 (`generate.rs:214`, `231`), so a
  character cut by a token boundary is lost.  `encode_sentencepiece` drops a whole
  segment with no cover (`tokenizer.rs:377`), an unknown byte becomes token 0
  (`:428`).  `top_k` of 0 and a logit that is not a number panic (`sample.rs:59`, `62`).
* The block sizes at `gguf.rs:181–188` do not agree with the comments beside them: a
  block of Q8_0 counts 36 bytes instead of 34, one of Q4_0 20 instead of 18, so that the
  last tensor of a file may read as missing.  `FileKept` is stated for the types whose
  size is exact (floats, integers, Q3_K, Q4_K, Q6_K, I2_S).

Watcher:

* A late poll stands down on an incident: the watch expires before the errors of
  the poll are counted (`watch.rs:177`).
* A start that overlaps another start or a stop can leave two watchers, or none
  with a pid file (`palantir/mod.rs:114`, `daemon.rs:187`).  `--stop` may remove the
  snapshot before the watcher renames its next one into place, and a pid file that
  outlived its watcher names whoever has the number now (`daemon.rs:190`).
* A log rotated and regrown past the old offset is read from its middle
  (`tail.rs:42`).  Lines written between the first read (`palantir/mod.rs:120`) and
  `at_end` (`:156`) are seen by neither.
* An `exec:` sink is waited for without limit (`sink.rs:94`).

Server:

* A raw upload whose body fails leaves its directory (`server_analyze.rs:297–300`),
  and a panic leaves its files; `drain_to_file` takes a body that ends early for
  the whole (`:336`).
* The teleport flag is tested and then set (`server.rs:325`), and a panic inside
  the bridge leaves it up (`whatsapp.rs:128`).  A streamed `/teleport` keeps its
  connection slot for the life of the bridge.  Sockets have a read timeout and no
  write timeout (`server.rs:97–98`).

Terminals and processes:

* The cap on sessions can be overshot (`term_stream.rs:27`).  An exit with nothing
  left to read is not told (`:192`).  A panic in a resize poisons the session's
  locks (`:54–58`).
* An interactive shell ignores the SIGTERM of a close, and the drop signals a pid
  that may have been reaped (`pty_unix.rs:133`); input is dropped when the terminal
  is full (`:95`).  The guarded writer follows backspace and no other editing key.
* Pipes are inherited by what is forked later (`exec.rs:33`), a failed fork leaks
  them (`:44`), and a child that fills stderr before closing stdout is waited for
  for ever (`:68`).
* Erasing to a cursor one past the last column takes the first cell of the next
  row too, and panics on the last row (`ansi.rs:362`; `TerminalRight` leaves out
  just these two); cursor movements add without saturation (`208–209`); the byte
  `0x9C` inside a UTF-8 title ends it.

Pipeline:

* What the session recalls is cut to a hundred characters before the vault's lines are
  compared with it (`recall.rs:249`, `router.rs:350`), so that a longer fact comes
  from the vault once more, though the comment at `router.rs:345–346` says that
  duplicates are skipped.  `ContextClean`, a part of `ModelGiven`, says what holds:
  no line is there twice, and none asks the question again.
* Extraction does not end on an output that ends inside a tag or a call
  (`tool_parse.rs:187`; the comment at `:63` expects a flush).

Runes and JSON:

* `easql`: a line longer than the window of 2 MiB may cut a keyword, which the comment
  at `easql.rs:145–146` rules out; a quote escaped by a backslash misleads the count of
  rows; a keyword at the start of a line is counted in a comment or in COPY data too.
* `eaparquet`: nested columns are reported under their group's name, though the comment
  at `parquet.rs:262–264` says they are skipped; a list of booleans is skipped without
  its bytes.
* `eanet`: a record longer than the window of 16 MiB makes `triage` read for ever
  (`netflow.rs:162`; `hangs` in `Flows`); a capture with one conversation always has a
  heavy talker, though `eanet.rs:20` says a quiet one never has.
* `ealog`'s cap on samples counts matches, not lines.
* A usage error of `eatime` is plain text if `--json` stands behind the wrong option; the
  options of `eajson` and `eacrunch` take the next word for their value, `--json` too.
  On macOS `open_capped` refuses every file below `/tmp`, whose canonical name is below
  `/private/tmp`; the path guard accepts it (`path_guard.rs:190`).
* Buckets of times before the epoch round towards zero (`stream.rs:161`); the
  incident's lags can be negative (`incident.rs:160`) and wrap (`:180`); `timekey`
  accepts 30 February and second 60.
* `eadiff` lists in the order of a hash map and ignores `success`; statistics that
  are not finite read back as 0; `eajson_aggregate.rs:217–220` takes the first
  matching field of a hash map as the time; lines that are `{}` count as no rows;
  `eatime` takes the first of equal peaks in one place and the last in another;
  `filter.rs` takes the operator it lists first, wherever it stands; the mean of a
  column without finite values is 0, of a group null; the count of distinct texts
  stops at its cap.
* `extract_json_string` leaves `\r` and `\u` as they are and finds a key inside an
  earlier value; numbers stop at an exponent; `json.rs` writes `NaN.0` and `inf.0`;
  an invalid continuation byte swallows the byte after it.

## 6. Theorems

All are for every value of the constants, under the named assumptions of the
modules, and checked by TLAPS to the last leaf.

* **`VaultProofs`** (assumes `VaultAssumption`).  `TypeCorrect` from `TypeInv`:
  `TypeOK` alone is not inductive, since a record needs a cell; `Counts` adds
  that no header counts as far as a block not submitted yet.  `VaultCrashSafe`
  from `CommitInv`: as long as no commit failed, some slot holds a header `h` in
  the cache and on the medium, every record it counts is durable, and the other
  slot holds something older (`Quiet`) or the header after `h`, whose record is
  already durable (`Pending`).  The two alternate because consecutive
  generations have different slots.  `VaultReadsBack` from `IndexInv`, without
  any assumption on failures.  `VaultIsALog` is the refinement: under
  `log <- DurableLog` the vault starts as `VaultLog` and every step of it, while no
  commit has failed, is one of `VaultLog` or a stutter.  It rests on `CommitInv`,
  on `OrderInv` (blocks are submitted in order, one at a time) and on `LogInv` (what
  is on the medium ascends, each block of it acknowledged or lost, and a pending
  record lies behind it); `LogStep` says of each action that it leaves the medium's
  commit point, which is unique (`OnePoint`), or moves it to the next header.
* **`VaultOpenProofs`** (assumes `VaultOpenAssumption`).  `OpenTypeCorrect`;
  `OpenOneWriter` from `LockInv` (past the lock means holding it), which needs
  no assumption on the files; `OldVaultUndisturbed` and `OldVaultOnlyGrows` with
  `ASSUME Existing`, from `OldInv`: nobody reaches the code that creates a
  vault, the slots hold the last two counts, and whoever has the vault open
  knows its records.  For a new vault both are false (Known
  limits).  `OldSaltKept`, with `ASSUME Existing`: the salt under the newest
  header stays in its file. `NewSaltKept`, for `SoloSpec` and a vault still to
  be made, from `NewInv`: a salt is drawn only where none is whole, `vault.bin`
  is made only once it is, and whoever is past the salt has derived its key from
  the one in the file.
* **`GraphPoolProofs`** (assumes `GraphPoolAssumption` and that of the barrier,
  more than one thread and more than one value of the pass counter).  First the
  barrier by itself: `BarrierTypeCorrect`, `BarrierNoLostWakeup` and
  `BarrierImplemented` rest on `RoundInv`: a round `r` is being gathered, every
  thread takes part in it or is still on its way out of the one before, the
  arrival counter counts those who have come, and once the last ticket is drawn
  everybody else waits.  `BarrierImplemented` maps every step to a step of
  `Barrier` or a stutter; `BarrierNoLostWakeup` is a part of `GraphsApart`,
  which the pool's run checks.  Then the pool: `PoolGraphsApart` from the
  barrier's `RoundInv` and `PoolInv`: the calls of `wait()` a thread has begun
  and those it has left add up to the phases of all graphs up to its own
  (`Sums`), what the owner has stored and shown at each place in `run_graph` and
  `drop` (`OwnerInv`), every worker is in the last graph or the one before
  (`Close`), and one that has run the last graph knows so, hence does not run it
  again (`Knows`).  The core is `Settled`: an owner out of `run_graph` has been
  through every barrier of the last graph, so by `RoundInv` all others have come
  to each of them, are in that graph and have nothing left of it; this is all
  that joins the workers.  `PoolIsABarrier` is the refinement of `Barrier` for
  the barrier inside the pool, over all graphs.  Neither needs the graph counter to be wide: that a kickoff
  is noticed is liveness, for the run (`PoolFinishes`).
* **`InferenceProofs`**, one pass (assumes `StepsAssumption`, `BatchAssumption` and
  `ThreadsAssumption`: at least one thread, layer, block and token).  `PassIsSound`
  is all of `SharedSoundly`, in two halves.  The first is about the text of a pass
  alone: it is `Sound` when each step is cut in pieces that stay out of each
  other's cells (`WellCut`), two steps with no barrier between them are thread 0's
  or have no cell in common that one of them writes (`Agree`), and before every
  stealing the counter was reset with a barrier in between and no stealing since
  (`ResetFor`).  That `OneToken` and `ChunkOfPrompt` are sound, for any number of
  layers of any kinds, is put together like the text: a `Block` is sound and ends
  in a barrier, and blocks join (`BlockJoin`, `StealJoin`, `LeavesFits`).  The second
  half is about the threads, whatever sound text they run (`PassInv`).  Nobody is
  past a barrier that another has not come to, so two threads are on steps that
  meet (`BarInv`, `Nearby`).  While a step is stolen from, the pieces held are apart
  and below the counter, which is never further past the pieces than there are
  threads that had their last one (`StealInv`; that keeps it from running away).
  What is done is in the cells or was overwritten by a later step (`DoneInv`), and
  what is in a cell was done (`FromInv`): together they say that a cell holds the
  last write before the step that reads it.  To the provers `LayersTo` and
  `BatchLayersTo` are a CHOICE of a function that satisfies the recursion; that
  there is one, and what holds of every layer of it, is proved from the least
  layer for which it would fail (`ChainExists`, `ChainIsBlock`).
* **`InferenceProofs`**, all passes (assumes `GenerateAssumption`, that the buffers hold a
  whole context among it).  `GenerationInBounds` from `RoomInv`: what is left of
  the prompt and of the budget always has a row to go to, in each state of the
  loop. It is a part of `AttendsRight`.  `GenerationAttendsRight` and
  `CacheFollowsText` from `CacheInv`: the layers the running pass has been
  through are one chunk ahead of the position (`Stands`), and each slot of a
  ring holds the last of this call's tokens that goes there, or is blank where
  none has gone (`RingHolds`). Storing a chunk keeps that (`StoreBatch` takes
  the last token that falls on a slot); a layer without a storage of its own has
  the window of the one it shares, which comes before it (`OwnerBefore`), so
  that its query finds the pass already stored.  That there is a last token, and
  a last layer of a kind, is the least element of a set of numbers, from
  `WFMin`.  `ThoughtsStayHidden` from `ThinkInv`: `in_thinking` is true when the
  samples so far stand inside a block, and when the events so far do; the one
  says what is hidden, the other what was announced, and `InsideAppend` is how
  both change with one more token.
* **`PalantirProofs`** (assumes `PalantirAssumption`).  `WatcherTypeCorrect`.
  `LiveWatcherIsFresh` with `ASSUME Tolerant`, which is `Heartbeat * (PollSecs +
  MaxDelay) + MaxDelay <= SnapshotFresh`, from `TimeInv`: the snapshot is at
  most one poll interval and one delivery old per tick since it was made.  With
  the constants of the code (a snapshot every ten polls, 120 seconds) and the
  default poll of one second that allows ten seconds of delivery in every tick,
  which is one webhook at its limit.  A poll of twelve seconds leaves nothing,
  and with a longer one a healthy watcher looks dead. `WatcherTellsIncidents`
  with `ASSUME Tolerant`: `IncidentTold` from `ToldInv` and
  `NewestInv`.  `ToldInv` ties the alerts of a run to the phase: an armed watch
  has the prediction as the last alert, a cooldown the confirmation, and each
  confirmation's silence ends by the phase's own times; a poll is a sequence of
  single alerts, with one lemma for each (`StandingDown`, `CoolingOff`,
  `Predicting`, `Confirming`, `RateSpeaking`, `SayingNothing`).  `NewestInv`
  follows the newest alert through delivery into the
  snapshot.  `WatcherHearsOut` with `ASSUME Prompt`, which is `PollSecs +
  MaxDelay <= Margin`: `NoFalseClear` from `WatchInv`, that errors counted in
  `landed` and not yet by the watch are polled before its deadline.
* **`WatchersProofs`** (assumes `WatchersAssumption`).  `OneWatcherRuns` from
  `OneInv`: no two invocations share a pid; and as long as nothing was mixed,
  one watcher runs and the pid file has its pid (`PidKept`), nobody starts
  between a stop's reading of the pid and its end, and that pid is the running
  watcher's (`StopKept`), and the temporary file is whole where it is renamed
  (`SnapKept`). `EverySinkIsTold` from `SinkInv`: while a tick delivers, what
  was told so far is, alert after alert and sink after sink, what lies before
  the place it has come to (`Along`).  `TailIsExact` from `TailInv`: the bytes
  of a log carry its number and their places (`LogKept`), and the lines handed
  on and the bytes held back are the file's from the tail's place on, whole
  lines first, up to its offset (`Follows`); when the file is replaced, what was
  handed on stays as it is.
* **`PipeProofs`** (assumes `MaxCaptureAssumption`, and that the ring's capacity and
  the recall levels are numbers and an answer is a sequence; nothing of what the
  model or the tools say, nor of the similarity).  `PipeInvariant` is the conjunction of
  what follows, and the other theorems are its consequences.  `StackInv`: all
  turns but the last wait for the bridge, turns are numbered in the order of the
  stack, and the last is the one begun last until it has itself waited.  `Edges`
  says once where each action takes the turn it is a step of; each invariant has
  a lemma that reduces the actions to a few moves of its own (`SettingsMoves`,
  `SaidMoves`, ...) and one that goes through the moves.  `ModelIsGivenRight` is all
  of `ModelGiven`.  Its settings (`SettingsAreTheUsers`) are from `SettingsInv`: a
  narration under way holds the user's in its `prior`.  The context and the call are
  from `GivenInv`, where most of the work is about functions.  What
  `extract_tool_calls` has done with a text (`Extracting`) says in which of four
  places the loop is, by what of a call the text contains (a whole one, its start,
  a part of the start, nothing), or that it has found what a reader would find;
  `StepExtract` takes each place to the next.  What is recalled is sifted three
  times (the question, near duplicates, the vault's rows): each is an instance of
  `Sift`, of which `Recursion` says that the function is there and `Throughout`
  that what each step keeps holds at its end, both from the least counterexample
  in a stretch of numbers.  `TurnsAreToldOnce` from `SaidInv` (a turn of
  the stack has said Done only after its bridge is over) and `HistoryInv` (a
  turn that is yet to ask is newer than every message, and the question of one
  that waits for its answer is the last). `TurnsAreKeptWhole` from `VaultInv`: a
  turn whose first row is not due has no row, one past it has it kept or lost,
  and an answer in the session is kept, lost or the next to
  save.  `AuditTellsTruth` from `LogInv` and `OutcomeInv`: every turn of the
  stack that has an id has its input in the log, and its outcome exactly when it
  is past the place that writes it; ids are never above the counter and grow
  with the turns of a run; inputs come in the order the turns begin and nothing
  of an older turn comes between a turn's input and its outcome; and where a
  turn still may speak or write, the outcome it has written says so.
* **`ServerProofs`** (assumes `ServerAssumption`).  `ServerAccounted`,
  `ServerSettings` and `ServerUploadsKept`, all from one invariant: what each place
  in the code says of the turn and the upload (`PlaceInv`), who holds the context
  (`HoldInv`), when the flag is up (`FlagInv`), that a request's settings are among
  those stored (`OwnInv`), that the count is that of the connections served
  (`SlotsCounted`), that drop directories are numbered apart (`Numbered`) and are
  there while their request needs them (`KeptInv`).

### What is only model-checked

* Liveness (`PoolFinishes`, `GraphEnds`, `PipeAnswers`, `EveryoneAnswered`, and
  `Terminals`' four): fairness is ENABLED, which the provers do not handle.
* The algorithms of `MCAlgorithms`, which are recursive: what a recursion computes for
  every input needs induction over data, and the library's theorems for it cannot be
  instantiated here.  Where a theorem needed one (the layers of a pass, the sifting of
  a context), a lemma for that recursion is proved from the least counterexample.
* Within reach and not done: safety of `Terminals`.

## 7. What is not modelled, and why

* Inside the modelled components: the rounding of a search's scores and words too long
  for its scratch; the scratch that the forward passes slice by thread, and their
  numbers; finding and loading a model; the output of the watcher's `--status`; the
  Windows backends; the streaming process spawner; on the server, authentication,
  static pages, the watcher's badge and storing or reading back the API key; the
  stand-alone `--whatsapp` start.
* `session.rs`, which nothing in the code uses.
* Of the runes `plot`, `report` and `narration`: layout of results that other runes
  computed.  They keep no state and wait for nobody.  In `Parquet`, the rounding of
  floating-point statistics and a negative length of the footer.
* Guards other than the call detector and the path guard: `safety.rs` and
  `shell_guard.rs` match lists of patterns.  The models take their verdict as a
  choice, at the place where the code asks for it.
* Dequantisation and repacking, cryptography, tools and start-up, kernels and platform
  bindings: arithmetic over large data, or calls into the system.  The models take
  from them that a tag verifies exactly what was sealed under the same key (`VaultFormat` too), that
  `flock` admits one holder and dies with it, and that a futex wait compares and
  sleeps in one step.
