# mlxd in TLA+

A verification development kept beside the C sources of mlxd (`src/src/`), a
text-generation server for Apple Silicon: TLA+ modules translated from the code,
TLC configurations that check them on small instances, and proofs checked by
TLAPS. Line numbers of every definition's source are in `PROJECT.json` (`map`).

## 1. The system and its parts

| Component | State | Operations | Interacts with |
|---|---|---|---|
| `stream_t` (engine/engine.c) | ring buffer, `len`, `read_pos`, `cancelled`, `refcount`, `on_push` | create, retain, release, push, next, cancel, finish_cancelled, set_notify | written by the engine thread, read by one consumer, cancelled by either side and by shutdown |
| engine actor (engine/engine.c) | mailbox, `shutdown`, `load_state`, `load_error`, resident model, `inflight` | post, post_load, wait_load, signal_shutdown, destroy; thread: dequeue, generate, load, unload, reclaim, drain | any thread posts; one thread runs the model |
| `gen_request_t` (http/gen_request.c) | stream, connection, `suppress_writes`, `role_sent`, uv_async, uv_timer, `pending_closes` | start, drain of the stream, finish, conn-gone, teardown, close | loop thread; the engine thread calls its `notify_cb` |
| server (http/server.c) | connections, `gen_owned`, observer, drain timer and counter | accept, read, dispatch, write, close, stop, drain, deadline | libuv |
| parser, router, handlers (http/conn.c, router.c, handler.c) | buffers, sticky status and llhttp of a connection | feed, reset, match, verdict of a handler | called by the read loop of the server |
| CLI (main.c, cli/*) | SIGINT flags and handlers, the one generation, output | serve, run, pull, list | engine, server, registry |
| registry and hub client | cache directory, `.part` files | list, resolve, pull | file system, libcurl |
| model configuration (model/model.c, emodel.c) | `model_config_t` | load of two files, the gate, the layer functions | engine load, forward pass, sampling |
| KV cache, forward pass | offsets and rows per layer | prefill, decode, update, view, grow | engine thread |
| tokenizer, detokenizer | vocabulary, merges, special tokens; bytes held back | load, encode, decode, feed, flush | loop thread, CLI |
| weights | tensors by name, merged from the files | load, get | engine thread |
| sampler, chat template | tables | pure or single-threaded | engine thread, handlers |

What is hard here: two threads (engine, loop) plus posters share streams whose
buffers, callbacks and reference counts outlive either side; shutdown and Ctrl-C
may arrive between any two steps; a cancelled stream may or may not get a
terminal; close callbacks, timers and coalesced async sends free one object in
several orders; the drain counts connections that close for many reasons; bytes
of the next request arrive while the last is answered; a pull may be cut
anywhere and resumed against a hub that has moved; what a model is follows from
keys that may be absent, null or in either of two objects; the tokenizer's
merging works on candidates that have gone stale. `PROJECT.json` lists the
hazards line by line with the properties that cover them.

## 2. Modules

```
StreamQueue  <-- implemented by --  StreamRing  (MCStreamRing, StreamRingProofs)
                                        ring abstracted to a sequence
Streams  (operations on the streams of all requests)
   ^             ^
 Engine  -- implements -->  GenStream  <-- extended by --  Serving  (MCServing,
 (MCEngine, EngineProofs)       ^                                    ServingProofs)
                                +-- extended by --  CliRun  (MCCliRun, CliRunProofs)
                                                      |  uses CliArgs

HttpConn     (MCHttpConn, HttpConnProofs): one connection up to the dispatch whose
             generation Serving carries on
Attention    (theorems in LoadedModelProofs): the inside of one generation, which
   ^         Engine takes as forwards that yield a token or fail
LoadedModel  (MCAttention, LoadedModelProofs) = Attention with the configuration
             that ModelConfig reads from a directory, if Weights accepts its tensors
Utf8 <- Pretokenize, TokenizerFile <- TokenText <- Tokenizer  (MCTokenizer)
                                                      |  extends
NaiveMerge   <-- implemented by --  BpeMerge  (TokenizerProofs, and all of Tokenizer)
Pull         (MCPull, PullProofs): the model cache
```

* **StreamQueue**: what a stream promises: a bounded FIFO, a cancel flag, and a
  terminal that is never refused and costs the newest chunk of a full queue.
* **StreamRing**: the code of `stream_t`, one action per critical section of
  `s->mtx`. A thread in `pthread_cond_wait` is a member of `sleepers` and runs
  again only after a broadcast, or a timeout of a timed wait. Chunks carry the
  serial number of their push, so order, loss and duplication are visible, and an
  ERROR chunk stands for its heap-allocated message (`errs`, `frees`). `prod` and
  `cons` say where a thread is inside `stream_push` and `stream_next`.
* **Streams**: the same operations for the streams of all requests, over the
  sequence `StreamRing` implements, with the notify callback due after the unlock
  (`cb`) and the reference counts.
* **Engine**: the actor. `pc` is the program counter of the engine thread (its
  values are the commands of `engine_thread_main` and the labels of
  `handle_generate`), `mailbox`, `mailbox_mtx`, `inflight`, `load_state` as in
  `engine_t`; `post[r]` is where the command of a request is, `client[r]` what
  its consumer does with its reference, `loader[l]` a caller of
  `engine_post_load` and its wait, `stopper` the main thread.
  `engine_post_load` and `engine_signal_shutdown` are split where another thread
  may act between their writes: `load_error` and `load_state` are read without
  `mailbox_mtx`, and `shutdown` is stored before the mutex is taken.
* **GenStream**: the contract: tokens, at most one error, at most one DONE,
  then release; a stream neither cancelled nor overtaken by shutdown always gets
  its DONE. `Engine` is checked to implement it (`KeepsContract`, refinement
  mapping `PhaseOf`).
* **Serving**: `gen_request_t`, the connections and stop-and-drain, over
  `GenStream` in the place of the engine. A libuv callback is one action, except
  where the engine thread can act in its middle: the loop of `gen_on_async`
  (`loop = r`) and the walk and the two halves of the signal of `on_stop_async`
  (`loop = "stop"`, `"signal"`). `Teardown`, `CloseConns`, `DrainCheck` and
  `WriteAll` are the helpers `try_teardown`/`begin_close`, `close_conn`,
  `drain_check` and `queue_write`, shared by the callbacks as in the code.
* **HttpConn**: what a connection does with the bytes it reads. The peer's bytes
  are units (a piece of a target, the end of the headers, a piece of a body, the
  last chunk, junk), `Bytes(sent)` in all; a read takes any number of them up to
  `ReadCap`. `Execute` is llhttp on one unit with the callback of conn.c it
  calls; the `Feed...` actions are the returns of `http_parser_feed`, with
  `Dispatch` (router, handlers) where it returns COMPLETE; `AfterDispatch` is
  the choice of `on_read` between leaving and resetting the parser for the
  remainder. `Handle` has the statuses a handler may answer with, given the
  parts of the model that are there and what validation finds in the body.
* **CliArgs, CliRun**: the four argument parsers are one loop (`Read`, one `ReadArg`
  per argument) over tables of options; an argument is an atom with what `strtol`
  and `strtof` make of it, and what the parsers compare with begins with a dash
  (`OptionsAssumption`). `CliRun` is the main thread of `cmd_run` and `cmd_serve` with one action
  per call, over `GenStream` and a thread that loads first. `Sigint`, the handler
  installed at that moment, may come between any two actions; `Clock` is the
  grace period of `cli_run_consume`.
* **Utf8, Pretokenize, TokenizerFile, TokenText, Tokenizer**: bytes are numbers.
  `Pretokenize` has the hand-written matchers of `gpt2_pretokenize`;
  `TokenizerFile` reads a directory (both formats) to a tokenizer or to none;
  `TokenText` has what goes from bytes to bytes without merging (the byte table,
  SentencePiece's pieces, WordPiece, the decoders). `Tokenizer` is the state
  machine: load, scan for special tokens with the cached `sites`, merge each word
  with the steps of `BpeMerge`, then feed the ids to
  the detokenizer. Written beside it, from definitions and not from the code, are the
  references: `NaiveSymbols` (join the leftmost pair of lowest rank while
  there is one), `RegexSplit` (the pre-tokenizer's regular expression), `GapIds`
  and `ReferenceIds`, which takes a tokenizer, its special tokens and a text to ids.
* **BpeMerge**: `bpe_merge` on one word: the linked list `nodes` with their versions
  and the `heap` of candidates; a `MergeStep` pops a minimum, drops it if it is stale
  and else merges and pushes its neighbours. **NaiveMerge** is what that promises:
  a set of the characters that begin a symbol, and one action that joins the
  leftmost pair of lowest rank. The mapping takes the nodes that are still in the
  list.
* **ModelConfig**: `model_config_load` and the whole of
  `engine_model_check_supported`. A JSON value is a record of kind and value, an
  object a function from the keys that are there, fractions are in hundredths.
* **Attention**: which positions a generation attends to. `stage` is the part of
  `handle_generate_real` (prefill, seed, decode) and `step` the point within it;
  `layer` is the loop of `model_forward`; `offset` and `rows` are the entries of
  `kvcache_t`. A key is a pair: the position of its token, which the loops of
  engine.c decide, and the position RoPE turned it by, which is the offset of a
  cache. `OwnLayer` is `fwd_attention` with `kvcache_update` in a layer with a
  cache of its own, preceded by `Grow`, `GrowDouble` and `GrowCopy` (`grow_entry`)
  when there is no room; `SharedLayer` reads another layer's cache
  (`kvcache_view`). `Attend` joins the trim of the view with the mask and records
  in `att` what each query saw.
* **Weights**: the two places of the program that know the names of tensors.
  `weights_load` with its parts (`Shards`, `Merges`, `ExpectedNames`, the rules of
  `weights_validate`) is what a load accepts; `Triplets` and `Vectors`, collected
  from `forward.c` and `model_forward`, are what a forward asks for.
* **LoadedModel**: the generations of the model in a directory of `Dirs`, if it
  loads, the gate accepts it and its weights load. `MeantWindow` and its neighbours say what the files
  mean, to compare with what runs.
* **Pull**: `registry_pull` and `reg_download_file` on one model's directory.
  `dest`, `part` and `meta` are what is on disk, a file being a sequence of
  blocks that name the commit they come from; `head` is the hub and `world` what
  may go wrong; the other variables are locals of the two functions and die with
  the process. One action per statement that touches the disk or the network: the
  skip of a file that is there, the open of its `.part`, the response, each write
  of `dl_write_cb`, the rename, the two steps of `write_meta_json` (truncate,
  fill). `Interrupt` is possible between any two of them, and the next pull
  starts from the disk.

### Abstractions

Memory allocation does not fail, except where a response is built (`AllocFails`
in `HttpConn`): an allocation failure while a frame is built drops that frame; a
failed `strdup` in `stream_push_error` loses the error.

Streams and engine: tokens have no identity. Each poll / hook / re-poll of the
generation loop is one poll: the flags are never reset. The one-lock check of
`shutdown` in `engine_post` is merged with the check under the lock.
`engine_post` is only called before `engine_destroy` returns, as engine.h
demands; the model also lets callers post after it, and the flag alone refuses
them.

Serving: text is "some" or "none"; frames are named, not spelled. A connection
serves at most one generation, any number of which may be preceded by an
immediate answer, and `engine_signal_shutdown` may cancel any stream the engine
still holds or none.

LoadedModel: the last failure of `engine_model_load`, that of `fwd_rope_freqs_build`
(no memory, or an error of the library), refuses no directory here: `AcceptedDirs`
may have more directories than the code loads, never fewer.

HttpConn: of a generation's response only the last write is there, which may not
come; its frames are Serving's. llhttp is external, modelled by which callback it makes for a unit and
what it refuses; the end of the headers is one unit, so that the limit of
headers (in bytes) is the library's. `on_read` runs without interruption by other
callbacks, as libuv does. A body is a word and an end that is or is not there,
which is all the handlers' verdicts need.

CliRun: stdout is the set of tokens whose text was written; the detokenizer may
hold text back and may fail. The calls into registry, tokenizer and template
end well or not, and `mlxd list` does one of the two.

Attention follows one generation at a time, as the engine thread does. A tensor
is reduced to its positions; keys and values move together, so one stands for
both. The library's `"causal"` mask is taken to align the last query with the last
key, and `mlx_zeros` to give rows that are no token's (`Zero`). What can end a
generation early (a flag, an allocation, a kernel, the sampler) is one action,
`GiveUp`, possible in every step. The numbers of rows stay far below the width of
an `int`.

ModelConfig: the families `lfm2`, `nemotron_h` and `bert` are refused by the
gate, so the values only they use are validated and then dropped; the match of
lfm2 types by prefix is a set of types.

Weights: a tensor is its name (layer, suffix, part) and the kind of its elements
(float, uint32, another); shapes are left to the kernels, which refuse what does
not fit. Names are within the buffers they are printed to, and the index does not
change while it is read.

Tokenizer: the hash map is a function (the rule of a full table at tok_map.c:87
is not modelled), the array of the candidate heap a set with its minimum, the
Unicode tables sets given as constants, and the normal forms of CoreFoundation a
function given as a constant. `StreamedText` is about texts the vocabulary
can write down (`Covered`); section 3 says what happens to the others.

Pull has one pulling process at a time, and a plan (the files and their order)
that does not change with the commit. A failure of the model API changes nothing
and is not a step. A rename within the directory does not fail and what was
renamed or closed survives: the process may die, the machine does not. The
response to a request is that of the commit the revision names when it is made.

## 3. Runs

| Run | Instance | Shows |
|---|---|---|
| StreamRing | capacity 2, 3 pushes | `ImplementsQueue`; `ErrorOwnedOnce`: every error message freed exactly once, overwritten ones too; `ThreadsReturn`: the single condition variable loses no wakeup |
| Engine | 1 request of 5 inputs, 1 load of any kind, a fresh engine or one an earlier load has left OK or FAILED, RECLAIM, UNLOAD, EMBED, STOP | `TokenBudget`, `TerminalUnlessWithdrawn`, `RefsExact`, `NoUseAfterFree`, `ResidentModel`, `DestroyedClean`, `VerdictIsOwn`, `KeepsContract`; with fairness `ShutdownExits`, `CancelSettles` |
| EngineNoTerminal | the least of it | violation: see below |
| ServingOne | 1 connection, 4 kinds of response, 2 tokens | `ResponseShape`; `RequestsEnd`, `StopReturns`: no coalesced wakeup is missed, teardown retries until the engine lets go, the stop returns with peers that do nothing (`NoDanglingPointer` for streams is the theorem's) |
| ServingTwo | 2 connections, writes fail on the spot | `DrainCount`, `NoDanglingPointer`, `AnsweredOnce` under re-entrant closes |
| Attention | model directories of 4 layers, prompts to 7, chunks of 3, 4 tokens | `AttendsWindow`, `CacheHoldsPrefix`; `AcceptedServed`: what runs is what the files say; `TensorsServed`: what loads has what a forward asks for |
| Pull | one revision over 3 commits and calm; one or two revisions and every fault | `LabelHonest`, `FilesWhole`, `PinnedHasAllFiles`, `PullReturns` |
| PullRevisions | 2 revisions, nothing else going wrong | violation: see below |
| HttpConn | all pairs of 14 requests, 9 triples, cut anywhere; writes and responses fail | `InOrder`, `AllServed`, `AnswersFollow`, `Closes` |
| HttpSticky | a request behind one that asked to close | violation: see below |
| CliRun | 72 command lines, 3 tokens, Ctrl-C up to twice | `ExitHonest`, `NothingLost`, `LeavesNothing`; `CtrlCEnds` |
| Tokenizer | 5 tokenizers, short texts, damaged files | `EncodeIsReference` (merging included), `ScratchFits`, `StreamedText`, `LoadConsistent`; `MergesAreNaive`: each merge is the naive scan's next, and the heap is not empty before that is done |

Deadlock is checked in Pull and Attention, where a pull or a generation can always
start again. In the others it is not: every instance is finite and ends (all
requests released, the thread exited, the server stopped, the program gone, the
connection freed, the text decoded).

**Bounds.** A ring of capacity 2 wraps and fills with 3 chunks, which gives every
relation of the window to the array; the theorem covers all capacities. `Cap = 2`
is the least capacity the callers' code is written for (`generate_fail` pushes
two chunks; the program uses 64 and 256, and `StreamCapAssumption` excludes less) and
makes a full stream frequent. The inputs of
`MCEngine` hit each branch: nothing to generate, a decode that exhausts its
budget, a prefill of three chunks, a prompt too long, a truncated echo. `AnyInit`
gives a fresh engine beside nothing but a load every input, and the least input
beside a STOP, an EMBED or, after an earlier load, a RECLAIM or an UNLOAD. Two
requests, one queued while the other runs, are too many states for the run; the
invariants of the proofs hold for any number. `LoadedInit` is what an earlier load
leaves, its waiter told, so that the load of the run meets every terminal state it
must not take for its own. `SerialSpec` is `Spec` with callers that post a load once
the waiters of the earlier ones have their verdicts (`InTurn`); with one load it is
`Spec`. It is what the theorem on `VerdictIsOwn` is about, and TLC, given two loads
that start from `Init`, agrees.

In `Serving`, two tokens and a high-water mark of one unsent write reach
backpressure; two connections give the counter its orders. `ServingTwo.cfg` has
`VIEW WithoutHistory`, which drops the history variable `got`: with `MaxTokens = 0`
no guard and no property reads it, so states that differ in it only are the same.
In `HttpConn` a limit of 3 pieces for targets and 2 for bodies puts requests at
and beyond both, and reads of 1 to 4 units end in any place of two requests;
the third request shows what the second leaves in the parser.

In `CliRun`, three tokens are more than a stream of two holds, so the engine waits
for the consumer; two Ctrl-C are what the handlers tell apart; the command
lines give every option its boundary values and the combinations the loop
could confuse ("--" as a value, a value that looks like an option, an option
given twice). In `Tokenizer`, words of up to six letters over merges that
compete for a letter (`b b`, `a b`, `ab a`, `a bb`, `bb a`) leave stale candidates of both
kinds in the heap; special tokens overlap in every way two strings can; short
texts over space, newline, tab, apostrophe, letter and punctuation reach every
alternative of the regex; bytes of cut characters reach the hold-back.

In `Attention`, a prompt of seven tokens is two full chunks and a last token,
shorter ones end in a chunk of one or two; the windows are none, shorter than a
chunk and as long as one, and the lengths cross the capacities 1 to 16 at and
beside them; four layers hold two types with and without a shared tail. The
directories also vary the kind of each key (absent, null, wrong kind, at its
limits), the place of the text's configuration, and the ends of sequence; and
the checkpoints of small dense, quantized, tied and gemma4 models, in one file with
any one tensor missing, of another kind or with scales of its own, in two files
with an index that is absent, broken, partial or wrong, and beside a third file.

In `Pull`, commits of one and of two blocks are the least with which a transfer is
cut in its middle and a `.part` is longer than the file it is for; three commits
let a `.part` outlive one move and meet another; `MaxPart` stops a `.part`
growing by error pages. `LabelHonest` and `FilesWhole` are claims about benign
worlds (the hub moves between settled pulls, one revision, disk and error pages
whole): with two revisions a later pull of the one completes by length (206, or
416 and a retry) the `.part` an interrupted pull of the other has left, which refutes
both. `PinnedHasAllFiles` and `PullReturns` are claims about all worlds.

**Fairness.** `StreamRing`: a thread inside a call that is not asleep runs; no
one is obliged to read, push or cancel. `Engine`: the engine thread, a callback in
progress and a started `engine_post_load` or `engine_signal_shutdown` go on;
`engine_destroy` is eventually called by the main thread (strong fairness, since
the main thread may signal a few more times first); consumers owe nothing.
`Serving`: the engine keeps its steps enabled by the contract, libuv serves the
handles that are ready, including timers; peers owe nothing and may stall for ever.
`HttpConn`: a callback goes on, and after `uv_close` libuv ends the queued writes and
calls back. No peer owes a byte, a read or a hang-up, since writes have no
timeout, and a generation need not finish, since it may end with no terminal (see
below): `Closes` says that what is closing is freed whatever the peer does, and
that an answer that says close ends its connection if the peer takes what is
written (`PeerReads`, the property's own hypothesis). A connection that a generation
took and never answers is not covered: it is open until its peer leaves or the
server stops, and without `PeerReads`, or with `gen_owned` in its place, TLC refutes
the property. `CliRun`: both threads are scheduled and time passes; nobody has to
press Ctrl-C. The fairness of the engine thread makes a load end, after any
time: `CtrlCEnds` rests on it, since `engine_destroy` joins the thread, and a load
that hangs leaves the second Ctrl-C alone to end the program. `Pull`: a pull that was started goes on or is interrupted,
since libcurl is given a connect timeout and a least speed; nobody is obliged to
pull. `Attention` and `Tokenizer` have no liveness property: their loops are
bounded by the deadlock check and by the data.

### Disagreements found

* **EngineNoTerminal**: `generate_fail` adds the cancelled terminal only under
  shutdown. A generation that fails after its consumer cancelled ends silently,
  against the comment of `stream_cancel` in engine.h. One consequence: a
  connection given up for backpressure waits for a terminal that may never come
  and stays open until the peer leaves.
* **PullRevisions**: `force_redownload` is decided by the label alone, and the
  label is written last. A pull of one revision interrupted before it leaves files
  that the pull of another revision keeps, and labels with its own commit; a
  `.part` it leaves is completed with the end of the other revision's file. If the
  hub may move at any time one revision is enough: the first pull is interrupted,
  the branch moves, and the second pull completes the set with files of the new
  commit.
* **HttpSticky**: after a request without keep-alive the parser stays in COMPLETE
  until its answer is written, and the connection keeps reading. What the peer
  sends in that time is fed to the parser, which returns its sticky COMPLETE
  without filling `out`; `dispatch` then looks at a request of NULLs. The two other
  sticky statuses queue a second 400 or 413 behind the first, which does no harm.

Seen by changing a constant:

* `WritesFail = TRUE` in ServingOne: a token's write fails at once, the connection
  closes inside `emit_sse_chunk`, `on_conn_gone` finds the engine already gone and
  runs `begin_close`, and the loop of `gen_on_async` calls `stream_next(NULL)`.
* Two loads in Engine at once (`Spec` in the place of `SerialSpec`) refute
  `VerdictIsOwn`: `load_state` is shared, and a waiter may take the other load's
  verdict although the comment of `engine_post_load` says it cannot see a stale
  one. So may a waiter whose predecessor gave up on time while its load went on.
  The shipped commands post one load per engine.
* `"disk_fills"` or `"torn_errors"` in a benign world refute `FilesWhole`: `fclose`
  is not checked before the rename, and an error page cut short stays in the
  `.part`.

Met while translating, where no document or test says otherwise:

* The empty argument reads as 0 for `--max-tokens`, `--top-k`, `--seed` and
  `--temperature`; `mlxd pull --` takes no model and exits with 1; `mlxd list`
  prints an empty list when it runs out of memory.
* config.json without `num_hidden_layers` loads as a model of no layers; an
  explicit `"head_dim": null` counts as present and passes the gate of llama,
  mistral and qwen3 as 0 (model.c:168); the eight places for ends of sequence may
  leave gemma's own two out (model.c:103).
* Weights: a gemma4 with `"attention_bias": true` passes the gate (emodel.c:99) and
  the strict set, which names no biases, but each of its forwards then fails in
  `add_proj_bias` unless the checkpoint has them; a dense family with
  `hidden_size_per_layer_input` passes both and fails in `fwd_ple_inputs`; a matrix
  with scales and no quantization in config.json loads and is multiplied as a
  quantized one of 0 bits. `Plain` leaves the three out of `TensorsServed`. In a dense
  family `attention_k_eq_v` makes every global layer use its keys as values, and the
  `v_proj` the strict set demands is never read.
* Tokenizer: a NUL ends or vanishes from decoded text; when U+2581 is not in a
  SentencePiece vocabulary, the streaming detokenizer gives it out where
  `tokenizer_decode` gives a space; special tokens with Latin-1 characters decode
  through the byte table; the per-byte fallback of byte-level BPE walks the bytes
  of the expanded text (tokenizer.c:745); lines of merges.txt that begin with "#"
  are comments even when they are merges; of two strings with one id the last is
  decoded to.

## 4. Proofs

The proof modules hold for all values of the constants, under the named
assumptions of the modules they extend.

**StreamRingProofs** (from `CapAssumption`, `MaxPushAssumption`). `IInv` is
`TypeOK`, `LiveFilled` (every slot of the live window holds a chunk, which makes
the abstraction a sequence of chunks) and `Owned` (what each end may still do with
the reference it holds). Lemmas on the index arithmetic (`SlotInjective`,
`Wrap`) and on the window (append, tail, overwrite of the last) reduce every
action of the code to one of the queue. `TypeCorrect` and `RingImplementsQueue`
follow. `Fates` says where the message of every error pushed so far is: in one
slot of the window, with the consumer, or freed once; `ErrorsOwnedOnce` follows.

**EngineProofs** (from `StreamCapAssumption`, `BoundsAssumption`,
`MiscAssumption`, `NoneAssumption`), in four layers.
- References. `NoUseAfterFree` is not inductive: it needs to know who owns what.
  `IInv` adds to `TypeOK`: `Owners` (the reference counts, the thread's hold on the
  current request, that `inflight` names it, that a pending callback belongs to a
  stream whose producer has not moved on, that fresh requests have no chunks),
  `MailboxOK` and `BatchOK` (each command is in exactly one place, which is the
  place `post` and `client` say), `ResidentModel`, and `JoinedOK` (destruction
  starts after the thread left). `EngineTypeCorrect`, `ReferencesExact`,
  `NeverUsedAfterFree` and `ModelStaysResident` follow.
- Generations. `Progress` says what the history of a stream may hold wherever the
  command that carries it is: how many tokens against the budget, and that a command
  that has let go of a stream nobody withdrew has left its DONE. `BudgetKept` and
  `DoneUnlessWithdrawn` follow, and `EngineKeepsContract`: every step of the engine
  is a step of `GenStream` under `PhaseOf`, or none.
- Shutdown. `StopperOK` and `AccountedOK` (every command that was posted is in the
  mailbox, in the batch or done) give `DestroyLeavesNothing`.
- Loads. `LoadsOK` gives `VerdictInTurn`, `VerdictIsOwn` of `SerialSpec`: any number of
  loads, each posted once the earlier waiters have their verdicts, so that the state
  a load starts from is whatever the earlier ones left. It says that at most one
  poster waits (`OneWaits`), that its command is queued or handled once and is not
  yet handled while it is (`QueueOK`, `PostedOK`), and that a terminal state seen
  while it waits is its own (`StateOK`), which is what the reset under the lock of
  `engine_post_load` is for. Loads posted at once refute the property (section 3).

**ServingProofs** (from `ServingAssumption`). `SInv` says who holds what: the counts
of a stream against its `gen_request_t` and the engine, which objects a callback due
may touch, which connections the observers point to (`PointersOK`), and that the
drain counts the open connections (`DrainOK`); every callback is a lemma.
`PointersNeverDangle` and `DrainCounts` follow. `WInv` rests on it and describes
what a response has queued so far: the shape of its frames, its body, its ending, and
that a connection its request has let go of has its whole answer queued or
closes. `ResponsesWellFormed` and `EachAnsweredOnce` follow. The theorems
cover any number of connections and tokens, and both values of `WritesFail`, which
the runs split; what the program does after `stream_next(NULL)` (section 3) is not in
the model, whose loop stays there.

**PullProofs** (from the five assumptions of `Pull`). `PInv` is `TypeOK` and
`Complete` (a labelled directory, and a pull that is past a file, has it), which
holds whatever goes wrong: `PullTypeCorrect`, `PinnedIsComplete`. In a benign world
with one revision the pulls also keep `Honest`: every `.part` is a first part of the
commit the revision names (`Parts`), the response goes on where it ends (`Answer`),
and the files fetched so far are of that commit (`Progress`). `FilesAreWhole` and
`LabelIsHonest` follow, for any number of files, commits and blocks.

**HttpConnProofs** (from `HttpConnAssumption`, `ScriptsAssumption`). `Matched`
relates the answers accepted to the requests dispatched at every point of the read
loop: `AnswersFollowRequests`. `Ordered` says where in the script the parser is,
unit by unit, and what of the current request its buffers hold; with it
`DispatchedAsSent` (`InOrder`) and `NoneWaitsInTheBuffer` (`AllServed`) hold for every
script and every way its bytes are cut into reads.

**CliRunProofs** (from `StreamCapAssumption`, `CliArgsAssumption`,
`OptionsAssumption`, `CliRunAssumption`). First the parsers. `Fits` is the usage text
as a grammar: each argument of a command line has a role (option, value, flag, the
end of options, one of the others). `Tracks` relates what the loop has read after a
number of arguments to the roles of these; `ParsersFollowUsage` says that the four
parsers accept what the grammar allows, nothing else, and read the values it
gives. The induction over the arguments is one over a bounded set of numbers
(`UpTo`, from `Greatest`). Then the two commands. `Inv` has a conjunct for each
question: `TypeInv`, `Owned` (references), `Engaged` (what the engine is
doing while the main thread is where), `Placed` and `Pressed` (handlers and flags of
SIGINT), `Blamed` (a failure has a reason), `Parsed`, `Shaped` and `Counted` (what
was taken from the stream against what was written), `Budgeted`, `Finished`.
`CliTypeCorrect`, `ExitIsHonest`, `NothingIsLost` and `CommandLeavesNothing` follow.
`Inv` was model-checked first.

**LoadedModelProofs**, on Attention (from `AttentionAssumption`). `IInv` is `TypeOK`, `Phases`
(where the loops can be), `CacheHoldsPrefix` and `AttendsWindow`, which rests on the
caches and is no inductive invariant alone. `CacheHoldsPrefix` says what every
cache holds at every point of a forward, in which the layers before `layer` are one
forward ahead. `AttendSees` is the argument about one attention: over a cache of
that shape the trim (a single query) or the mask (a chunk) leaves the window and
nothing else. `SourceEarlier` shows that a shared layer reads an earlier layer of
its type, which in that forward has run; the greatest element of a set that
`KvSource` chooses exists by `Greatest`, from the well-foundedness of strict
inclusion on finite sets, since induction is out of the provers' reach.
`TypeCorrect`, `CachesHoldPrefix`, `QueriesSeeTheirWindow` and
`SharedLayersServed` follow; the parts of `IInv` were model-checked first.

**LoadedModelProofs**, on LoadedModel (from `LoadedModelAssumption` and those of the
modules it extends).
`SameLayers`: the layer functions of `model_config_t` are those Attention has of
its fields. `GateSuffices`: a configuration the whole gate accepts satisfies what
Attention assumes of one. So `ModelSpec` implements `Spec`
(`LoadedModelImplements`), and the theorems on Attention hold of the model in
every directory the engine loads (`LoadedModelSeesItsWindow`,
`LoadedModelCaches`, `LoadedModelServesShared`). `LoadedModelHasItsTensors` is
`TensorsServed` for every directory: `AsksForExpected` places each name of a forward
among the expected ones, family by family (for a shared layer of a gemma4 this
needs the gate's rule that it has a source), and `MatmulServed` shows that the three
rules on quantized matrices together leave `fwd_linear` nothing to trip over.
`LoadedModelMeansItsFiles` is `AcceptedServed`, with `DirsAssumption` (a JSON array is
a list). `WindowsMeant` compares, family by family and for keys that are absent, null
or numbers, the window a layer runs with to the one its files give; the pattern
needs `L % p = p - 1 <=> (L + 1) % p = 0`, the list that no layer is beyond
`MAX_LAYERS`. `FirstKept` is about `add_eos`: of a list of ids, those that come first
are all kept if they fit, whatever follows (again by `UpTo`); config.json's come
before those of generation_config.json, which may therefore be dropped.

**TokenizerProofs**, on `bpe_merge` alone (no assumption: any word, any places of its
characters, any table of merges; `MergeSpec` is one call). `MergeInv` has a conjunct per reason. `Linked` and `Adjacent`: the live nodes
are a list in the order of the characters, nothing live between two of them, and a
node that left it does not come back. `Spans`: a live node covers the characters up to the
next. `Honest`: a candidate whose two versions are current is two neighbours as they
are now; the version of the left node alone already says that they still are
neighbours. `Seeded`: every two neighbours with a rank are in the heap as they are
now. With these the minimum that passes the guard is the pair the naive scan would
find (`PoppedPair`, `RankedPairs`), and taking its right node out of the list is the
join (`MergedHeads`, `StepIsJoin`); a stale candidate changes nothing of the list.
So `BpeImplementsScan`, the refinement, and `BpeMergesAreNaive`, the property of the
run, with `NoneLeft`: an empty heap is the end of the naive scan too. `Counted` weighs the
heap against the list and gives `BpeHeapFits`, the bound that `bpe_push_cand`
asserts; `PushedOnce` shows that no candidate is pushed twice, so that the set of the
model is the array of the code. `MergeInv` was model-checked first, for words of up to
six letters and every order of up to three among five merges that compete.

**TokenizerProofs**, on the tokenizer (from `InputsAssumption`, that directories and
texts are what their types say, `NamesAssumption` on the names looked for, and
`NormalAssumption`, that a normal form is a text; nothing is assumed of a
vocabulary, a merge or a special token beyond what the loader checks). Its parts:
- Loading. `BaseMaps` and `AddedMaps` are about maps in which the last entry wins
  (`LastEntry`), `FileListed` says that both formats give lists, whatever they hold.
  `LoadedInv` keeps `tok` what was loaded from `dir`: `LoadIsConsistent`.
- Room. `EncodeInv` is `TextInv` (the text, and that a cached site lies inside it),
  `Ready` (there is a tokenizer when it is used), `WordInv` (`MergeInv` for
  the head of `todo`) and `RoomInv` (a running sum: the ids so far, and behind them
  room for each word of `todo`). The sums come from the operators: characters cover
  a text (`CharactersCover`), the expansion of a gap is at most two or three bytes for
  one (`ByteLevelFits`, `LowerBarsFits`, `WordsFit`), a symbol gives no more ids
  than it has bytes (`EmitFits`), WordPiece likewise (`WordpieceFits`).
  `ScratchIsEnough` follows, and, with `MergeInv` for every word of every text,
  `WordsMergedNaively`.
- Ids. `ReferenceInv` adds three conjuncts. `ScannedWord`: the symbols along
  the list are those of the naive scan after as many rounds as nodes are gone
  (`ScannedStep`; `JoinAt` finds the pair of a round, `AlongMerged` the list after it),
  so that an empty heap means that the remaining rounds change nothing
  (`ScannedEnd`). `SiteInv`: a cached site is the first occurrence of its token from
  some position not behind the cursor, hence what a fresh search would give as
  long as it is not behind (`ProbedFirst`). `OwedInv`: the ids so far, then those of
  `todo`, then what the reference gives from the cursor on (`RestOf`) are
  the reference's ids of the whole text; a round of the scan cuts where the reference
  does (`ScanCuts`, `ScanOwed`), and to emit an item moves it from one part to
  the other (`EmittedItem`). Between them stands `MatchersAreRegex`: at every position
  of every text the hand-made matchers end where the alternatives of the regular
  expression do, matched greedily and with the white space given back (`WhiteGives`).
  `EncodingIsReference` follows.

What a loop of the code computes is written as a recursive function here (`Chain`,
`FlattenSeq`, `NaiveSymbols`). That such a function exists and what it gives is proved
by induction over the bounded set of its indices (`UpTo`, `FromExists`,
`FlatExists`, `RoundsExist`), never over data.

Left to TLC: all liveness properties, which need fairness and ENABLED
(`ThreadsReturn`, `ShutdownExits`, `CancelSettles`, `RequestsEnd`, `StopReturns`,
`PullReturns`, `Closes`, `CtrlCEnds`); and `StreamedText`, that decoding gives back the
text. Every other invariant of a run is stated by
a theorem. The modules with theorems are the eight above.

## 5. Plan

1. Proofs: `StreamedText`, the way back: the bytes of each symbol from its ids, then
   those of a word from its symbols, then the whole characters of a stream.
2. The parsing of OpenAI requests (openai.c), to refine what `Parse` stands for in
   HttpConn.
3. Registry: two processes pulling one model (the shared `.part`), model
   specifiers, discovery and list (discover.c).

Not modelled, and why: the tensor algebra of the forward pass and the kernels of
the sampler (numerics on the GPU); the text of JSON, SSE and templates (layout,
and vendored engines); the tables of Unicode data; core types, log and sysinfo
(value helpers and wrappers). `PROJECT.json` gives the reason for each component.
