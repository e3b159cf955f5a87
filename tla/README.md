# Verification of deno-director

deno-director runs Deno runtimes inside a Node process: a TypeScript wrapper
(`src/src/ts`) talks through a native bridge (`src/src/native_api`,
`src/src/bridge`) to a thread that runs the Deno runtime
(`src/src/worker`), whose JavaScript side is `bootstrap.js`. This directory holds
TLA+ models of its core, the TLC configurations that check them and
TLAPS proofs. Paths below start at the root of the project's source tree, `src/`.
"Host" is the Node side, "worker" the Deno side.

## 1. Inventory

| Component | State | What is hard | What makes it correct | Modules |
|---|---|---|---|---|
| **Host-to-worker stream lane** (`worker.ts` streamCreate, `bootstrap.js` makeStreamReader) | writer credit and waiters, fast chunk queue with its flush flag and error; data channel; reader queue, withheld credit; discard marks on both sides | two ways into the channel, setImmediate flush, resolved waits that continue later, a full channel | no loss, no duplicate, window respected, credit conserved, every call settles, both tables emptied | HostLane, WriterCredit, StreamReader, StreamFrames, ByteStream |
| **Worker-to-host stream lane** (`bootstrap.js` hostStreams.create, `worker.ts` StreamReaderImpl) | the mirror image, with batches of writeMany and credit frames flushed by threshold or callback | every write awaits before it posts; credit goes through the bounded channel | the same | WorkerLane and the shared parts |
| **Native runtime** (`runtime.rs`, `dispatch/`, `state.rs`, `worker_api.rs`, `lib.rs`) | worker table, control, data and node channels, stop flag | biased select with a drain, close against queued requests, blocked threads, join order | each request is answered once, order across channels, the threads do not wait for each other | NativeRuntime |
| **Requests and promises** (`promise.rs`) | a settler per request, moved from channel to channel | reply against rejection against drop | each promise settles once | NativeRuntime |
| **Messages and host calls** (`ops.rs`, `node_host_calls.rs`, `node_events.rs`) | calls and emitted messages of the worker's code, dispatcher | 2 s and 5 s timeouts, evalSync that blocks the answering thread, a sync call that is made again as an async one | each call runs its function as often as the protocol says, no deadlock, messages before results | NativeRuntime |
| **Native stream plane** (`stream_plane.rs`, opt-in) | streams by id, id by key, backlog, frames before their open, waiting flag, two Notifys | wake flag outside the lock, reopened keys, timed-out accepts | tables agree, order, no lost wakeup | NativeStreamPlane |
| **Evaluation** (`eval.rs`) | one timer thread for all workers, cancel flags, V8's termination flag | the flag is read before and used after the eval ends | runaway scripts end, nothing is left behind | EvalTimer |
| **Module registry** (`modules.rs`, `eval.rs`, `deno_commands.rs`) | entries, aliases, LRU queue | eviction against modules still needed | queue matches map, LRU order, importable names | ModuleRegistry |
| **Module loading** (`modules.rs`, `node_imports.rs`) | imports under way, callback answers, disk cache | checks in different places of two paths, a callback that answers late, redirects | permissions of the URL asked for on every path, every import ends | ModuleLoader |
| **Codecs** (`neon_codec.rs`, `v8_codec.rs`, `wire.rs`, `wire.ts`, `bootstrap.js`) | none | seven routes with different functions, markers, rebased views | values arrive, markers do not | ValueCodec, BufferViews, BridgeNumbers |
| **Stream registry** (TypeScript and JavaScript tables) | ids, names, backlog, pending accepts, early frames, slot pool | accept and open race, reuse of a key | a key names one stream, nothing leaks | - |
| **Worker lifecycle, Duplex, Handles, Director, Options, Filesystem** | see section 7 | | | - |

Interaction: host code calls the wrapper; the wrapper posts to the control channel
(requests) or the data channel (messages, stream frames), both bounded; the
worker thread handles one message at a time and calls into `bootstrap.js`, whose
code and promise continuations run to the end; the worker answers through ops that
reach the Node thread by the pump or, for synchronous ops, by the dispatcher
thread. Each side is single-threaded JavaScript, so there interleaving
happens between callbacks and between the continuations of awaits; on the
Rust side it happens between threads at every channel, flag and lock.

`PROJECT.json` lists every hazard with its line ("hazards"), and the part of each
component that is modelled ("components").

## 2. How the project is ordered

1. The stream lanes: `StreamFrames`, `WriterCredit`, `StreamReader` are shared by
   `HostLane` and `WorkerLane`, which implement `ByteStream`.
2. What carries them: `NativeRuntime`; the opt-in `NativeStreamPlane`.
3. What runs in a worker: `EvalTimer`, `ModuleRegistry`, `ModuleLoader`.
4. What crosses the bridge: `ValueCodec` over `BufferViews` and `BridgeNumbers`.
5. Proofs: `HostLaneProofs` and `WorkerLaneProofs` over `StreamPartsProofs`, and
   `NativeRuntimeProofs`, `NativeStreamPlaneProofs`, `ModuleRegistryProofs`,
   `EvalTimerProofs` for the module each is named after; `AdmissionProofs` for
   `ModuleLoader`, `BufferViews` and `BridgeNumbers`.

What the plan still has: the stream registry of the TypeScript plane; the wrapper's
close and restart.

## 3. The modules

**StreamFrames** has the frames, the discard marks of a stream's entry (an entry
that was deleted is one with both marks: every step ignores both alike) and the
operators `Bytes` and `At` on sequences of frames, as recursive functions so that
proofs can use them.

**WriterCredit** is addWriterCredit, consumeWriterCredit and waitForWriterCredit
with the waiting calls. `jobs` is the queue of promise continuations: a wait that
was resolved when the call was made (a "tick") leaves the application time for
further calls before its continuation runs, one resolved by a credit frame does not.
The continuation looks at nothing but the credit, as in the code: not at `done`, nor
whether the balance is still there.

**StreamReader** is the reader: StreamReaderImpl and the closure of
makeStreamReader are the same program but for the first condition of cancel()
(`CancelAfterClose`). Chunks are handed to a pending read or queued; consumed bytes
become credit unless more than the high-water mark is buffered. read() may be called
again whatever the last one came to, also after an end. An end is handed to the oldest
pending read() or queued; only an end that is taken off the queue sets `done`. The
history variable `told` says how the first end reached a caller.

**HostLane** adds the writer of worker.stream.create: write() of a chunk with
enough credit posts within the call; chunks up to `BatchMax` go through the fast queue,
posted together by FlushTick (setImmediate) or at a limit; larger ones are posted at once;
writeMany posts all at once if it can. Any post may find the data channel full
(`PostFindsFull`), because the channel is shared with all other traffic.
**WorkerLane** is the other direction: hostStreams.create as the writer, where write
and writeMany wait for every chunk and spend credit when they post; the host's
reader, its credit frames (threshold or callback) and the bounded channel that
carries credit, cancel and discard frames back.

**ByteStream** is the promise of types.ts to both applications. The refinement
mapping takes `accepted` (ids of chunks whose write went through, in the order it
did), `received` (ids that read() returned) and the way the first end reached a
reader (`told`).

**NativeRuntime** is one native worker with its threads. The Node thread runs the
tasks of the Neon channel and calls the addon, in which it may block (`node`): a
request on a full control channel, a message on a full data channel, evalSync. The
worker thread boots, runs the startup module, then takes a control message,
drains data, handles it, or takes data. The code of an eval makes host calls
and posts messages, synchronously through the dispatcher or asynchronously
through the node channel. The pump hands both on. The op of an async call looks at
the flag of evalSync when it is first polled (`OpStarts`), not when the call is made.
A sync call whose function returns a promise is answered with an error, and the wrapper
makes the call again as an async one: its kind becomes "retry", and the function
runs a second time (`InvokeAtOnce`). A settler is a message: it is in a
channel, in a thread's hands, or dropped with the thread's receivers, which puts a
rejection on the Neon channel. Timeouts are steps that may happen at any time
while an op waits.

**NativeStreamPlane** has the tables of NativeIncomingPlaneInner, each method under
the lock being one step; `accept` and `reader` are the JavaScript closures that
call the ops. A worker reads in one of two modes: by the asynchronous op, which
polls and then awaits a Notify, or by polling with a waiter that the next frame pokes.

**EvalTimer** has a program counter per worker in eval_in_runtime and one for the
timer thread, with every access to the command channel, the cancel flags and the
isolates' termination flags a step of its own. V8 may or may not see its flag before a
script ends; an event loop that runs no JavaScript may or may not.

**ModuleRegistry** is the in-memory registry as a function from keys to entries
with its queue; the requests around it put, load, evict and drop entries. V8's module
map (`known`) is external: what it holds is not loaded again.

**ModuleLoader** follows one import from resolve to a source. Specifiers and URLs
are classes that the checks tell apart (inside the sandbox, outside it, bare, wasm,
one per remote scheme); the configuration is a record of the switches. A fetch ends
at the host that was asked, by http or https, or elsewhere (`Ends`), for the client
follows redirects; the disk cache keeps what was fetched under the URL that was asked
for, and may or may not be read or written.

**ValueCodec** carries a value along its route in two steps: encoding on one side,
decoding on the other, each translated from the function that does it. Numbers are
those of a machine with `IntBits` bits and a significand of `Mantissa` bits, so
that saturation and rounding happen with small numbers, and `BigLimit` is the largest
BigInt whose decimal text from_v8 takes. A single binary argument of a host function,
and such a message, goes through ops of their own (`GoesAsBytes`, `BytesBridge`)
that know bytes and not their kind; one argument of several does not. **BufferViews** is the
part about views and **BridgeNumbers** the part about numbers, without recursive
operators and therefore provable.

| Model | Code |
|---|---|
| Write, WriteMany, Ready, Resume (HostLane) | writeChunkWithCallbacks, writeMany, ready and their continuations |
| FlushFastChunks, QueueFastChunk, FlushTick | functions of the same names, scheduleFastFlush |
| Close, Abort, EndFails, End | close(), error(), cancel() of the writers, with every post, mark, release and rejection in one step |
| WorkerReceive, HostReceive | handleIncomingStreamFrame and routeIncomingStreamChunkFast on each side |
| QueueStreamCredit; QueueCreditFrame, CreditFlushTick | queueStreamCredit (worker); queueCreditFrame, flushCreditFrames (host) |
| QueueDenoMsgOrReject, ControlUnblocks | queue_deno_msg_or_reject_with_backpressure |
| TakeControl, Drain, DrainEnds, TakeData | the biased select of spawn_worker_thread |
| HostCall, OpStarts, AsyncSent, CallTimesOut, PostToNode | the host-call and post ops of ops.rs |
| InvokeAtOnce, InvokeLater | handle_invoke_sync with the retry of `bootstrap.js:2254`; handle_invoke_async, handle_import_request |
| Open, PushChunks, PushTerminal, AcceptPoll, ReadPoll | open, push_*_with_wake, accept_wait, read_wait of stream_plane.rs |
| Store, Evicted, GetForLoad, Clear | put_persistent, evict_persistent_if_needed, get_for_load, handle_clear_module_msg |
| Resolve, LoadNow, AskCallback, Answer | resolve and load of DynamicModuleLoader |
| ReadCached, Fetch | read_or_fetch_remote_source, fetch_remote_text |
| FromNeon, ToV8, FromV8, ToNeon, HydrateHost, HydrateWorker | from_neon_value, to_v8, from_v8, to_neon_value, hydrateFromWire, `__hydrate` |

## 4. The runs

Deadlock is not checked in any run: a stream that ended, a worker that is gone, a
registry that is full and a value that has arrived have nothing left to do.

| Run | Question |
|---|---|
| HostLane | one caller, any mixture of calls, any end, a reader that may cancel, one full channel: types, window, credit, stranded chunks, lost or doubled calls |
| HostLane_live | two callers, every chunk queued: ByteStream, no lost wakeup; calls settle, chunks are read, both sides release |
| WorkerLane | one caller writing chunk by chunk, one lost frame: window, credit, scheduled credit |
| WorkerLane_live | two callers that await their calls, two readers that read on after an end: ByteStream; calls settle with a flush amount above the window; the oldest pending read() returns after an end |
| WorkerLane_reads | an end settles every pending read(): **violated** |
| NativeRuntime_requests | requests, messages and stream frames over full channels, with close, evalSync and disposal |
| NativeRuntime_calls | host calls (retried ones too) and imports of evaluated code against evalSync and close |
| NativeStreamPlane | two streams, one key, two accepts, both reading modes |
| ModuleLoader | each class of specifier, each combination of switches, each answer, each end of a redirect |
| ModuleRegistry | two names, three generated modules, a cap of two |
| EvalTimer | two workers, two evals, deadlines of one instant |
| ValueCodec | each value on each of the seven routes, and back |

Bounds and why they are enough:

- Lanes: `MaxChunks` bounds the chunks written, `MaxFull` the posts that find the
  channel full. Windows are 2 or 3 bytes and chunks 1 or 2, so that a chunk fits
  beside another, must wait for one, or wakes with one; the high-water mark is 1, so that
  credit is withheld with two bytes buffered; the flush amount is below, at, or above
  the window; four chunks fill the window, drain it and fill it again.
- NativeRuntime: channels of size one are full with one message, so every send
  may block; two requests are a close and one behind it, or an eval under
  another's timeout; two messages fill the data channel and wait behind it. `DrainMax`
  is the channel's size: see section 6 for a smaller drain. The two requests of
  NativeRuntime_calls never fill the control channel while an eval runs, since the
  first has left it; a third can, and then `EveryRequestSettles` does not
  hold (section 6).
- NativeStreamPlane: two streams with one key reach the refused open and the key's
  reuse; two accepts race for one stream; two chunks and an end show an order.
- ModuleLoader: the loads do not share state except the disk cache and the
  callback, so one load at a time (repeated: Forget) reaches every path. `MaxCached`
  bounds the files of the disk cache: one file, which another fetch replaces, is there
  or not, and from any of the ends. The
  switches jsr and node, and interop and outside, change together.
- ModuleRegistry: a cap of two with two names and three generated modules is over
  its limit with any mixture of loaded and unloaded entries.
- EvalTimer: two evals, on one worker or on two, are the one that arms a timer
  and the one it may hit. The clock is bounded by `MaxNow`.
- ValueCodec: every kind alone, pairs of every kind with three others in each
  container, and containers of containers for the kinds some rule singles out;
  BigInts on both sides of `BigLimit`.

**Fairness.** Lanes: weak fairness of the continuations, the setImmediate
callbacks, the frame handlers of both sides and of read() for each reader. An
event loop runs whatever is queued, the frames come through channels that are
polled until they are empty, and a consumer that iterates a stream keeps calling
read(), also after an end. NativeRuntime: each thread (worker, pump, dispatcher, the Node thread with
its task queue) goes on when it can, since the operating system schedules it,
blocked sends are served when there is room, and timers fire. The thread that has a
choice, such as the Node thread between its tasks and a host function's promise,
goes on with one of them. Evaluated code that waits for nothing comes to an end, for
endless scripts are EvalTimer's subject; nothing makes the application or the
worker's code call anything.
NativeStreamPlane: the operations that wait are polled after a notification.
EvalTimer: the clock, the timer thread and the workers go on. ModuleLoader:
the runtime polls its loads and timers; the callback need not answer.

In every module writing, ending, cancelling, closing and calling are never forced.

## 5. What is proved

Every theorem holds for all values of the constants that the named assumptions of
its modules allow: sizes are positive integers or naturals, an id or a name is not the
value that stands for "none". An assumption beyond those is stated in the theorem
and named here.

**The host lane** (`HostLaneProofs`), for every window, high-water mark, flush amount,
limit of the fast queue and chunk size. What both lanes need of the operators on
frames, of the reader, of the waiting calls and of the byte stream that a reader sees
is proved once, in `StreamPartsProofs`.

- `TypeCorrect`, `NoLostWakeup` (WaitersLackCredit) and `NothingStranded`
  (QueuedIsScheduled), for any number of callers. The three together are inductive
  (`HostLaneInv`). Types carry the arithmetic: that a waiter is left behind only if
  the balance is below its need compares naturals before and after a step.
  `WaitersLackCredit` needs no more, because a wait is registered only when the
  balance is too small, a spent balance only falls, and a credit frame walks over
  all waiters with the new balance; `QueuedIsScheduled` because each step that leaves
  something queued has set the flag.
- `PendingCallInOnePlace` (PendingCallIsTracked), for any number of callers. That one
  entry per pending call exists is not inductive as a count: a step that removes
  an entry must know whose it is and that no other is left. `CallsTracked` says it
  per entry: two entries of one caller are the same entry, an entry belongs to a
  pending call, a pending call has an entry, a waiter's need is its call's need, and
  that is the size of the chunk the call goes on with.
- `WindowIsRespected` (WindowRespected) and `CreditIsConserved` (CreditConserved), of
  calls that follow one another (`OneCaller`: any two callers are the same; section 6
  says what two woken calls do to the window). The sum of CreditConserved
  holds only while both ends are open, so it cannot carry itself past an end. `LaneInv`
  adds the shape of the lane (`LaneShape`: only chunks and credit frames carry
  bytes, a reader that closed has marked its side so that nothing is handed to it,
  `buffered` covers what is queued) and the budget (`Budget`): all bytes and credit
  under way (`Total`) and the balance never exceed the window, and equal it
  while both ends are open; a call about to be resumed has its credit while the
  stream is open, and its chunk fits even when the end has taken the credit away. Steps
  of the worker only have to show that they move bytes from one account to
  another, or drop them after an end (`BooksKept`).
- `HostLaneIsAByteStream` (ImplementsByteStream), for any number of callers and
  readers, readers that cancel included: every step of the lane is a step of
  `ByteStream` or a stutter. It has two hypotheses. `AwaitsCalls`: the writer ends the
  stream when its calls have settled. `OneWay`: all chunks go one way, either
  posted at once (`Direct`: every size is above fastMaxBatchChunkBytes; write and
  writeMany, and any number of refused posts) or through the fast queue (`Gathered`:
  every size is at most that; no writeMany, no refused post). The code keeps no
  order between the two ways, and a refused flush drops what was accepted
  (section 6), so that neither part of `OneWay` can go. `StreamInv` adds three things
  to the types. `WriterTurns`: the chunks a call has left have ids and sizes of the
  lane, a stream that ended has no call and nothing gathered, and chunks that are
  posted at once leave nothing gathered. `Marks`: a side that ended or discarded has
  closed its reader. `LaneFlow`: `Flow`, of the channel and, behind it, the fast
  queue (`UnderWay`).

  `Flow`, shared by both lanes, says where the chunks are that were accepted and
  not yet received: in the reader's queue and, behind it, at the front of what is
  under way, with the frames of the end, as far as they were not refused, last
  (`Open`); in the queue of a reader that is closed, with the end last (`Ending`); or
  the reader is over and nothing remains to be read (`Over`). It is shown once for
  each thing that can happen to it: chunks or an end are posted (`FlowPosts`,
  `FlowEnds`), a frame arrives (`FlowArrives`), the application reads or cancels
  (`FlowReads`, `FlowCancelled`); the last three also say which step of the byte
  stream that is (`ReaderStep`).

- `OnlySizeStalls`, of calls that follow one another: when nothing of the lane is
  under way any more (`AtRest`) and the stream is open, a call that still waits has
  `need + (CreditThreshold - 1) + lost > Window`. So a write that is smaller than
  the window by the flush amount never waits for ever, and the bound is exact: with
  one byte less TLC finds a call that waits for credit the worker keeps below its
  threshold. The invariant is the budget of `LaneInv` and what a reader withholds
  (`WithholdsLittle`: nothing of its own once it is empty, less than the threshold for the
  next frame). EveryCallSettles of the runs is what this gives with fairness.
- `ReadAtMostOnce`: no chunk is read twice and none that was not accepted
  (`ReadOnceAndAccepted`), with neither `AwaitsCalls` nor `OneWay`: any number of
  callers and readers, both ways of posting mixed, refused posts, any end at any
  time. Chunks may then be lost or overtake each other, so that the lane is no
  ByteStream, but each is in one place only (`OnePlace`): among the chunks that a
  call has left to post, in the fast queue, in the channel, in the reader's queue or
  read.

**The worker lane** (`WorkerLaneProofs`), for every window, high-water mark, flush
amount, batch length and chunk size, and any number of full channels.

- `WithheldGoesOut` (WithheldIsScheduled, the types among it) and `NoLostWakeup`
  (WaitersLackCredit), for any number of callers, by `WorkerLaneInv`, as in the host
  lane; `PendingCallInOnePlace` (PendingCallIsTracked) by the same `CallsTracked`. Here
  it matters that End leaves the calls that are resumed already pending: they go on.
- `WindowIsRespected` (WindowRespected) and `CreditIsConserved` (CreditConserved), of
  calls that follow one another (`OneCaller`) and are posted chunk by chunk
  (`OneByOne`: writeMany is not used, or `BatchLen` is 1). Both assumptions are needed:
  two woken calls, or the chunks of one batch, are each checked against a balance
  that the others are about to spend (section 6). `LaneInv` has the same budget as
  the host lane, on top of the shape of the two sides: nothing is gathered
  (`WriterShape`), only chunks carry bytes one way and only credit the other, and the
  host's reader is closed when the host has discarded the stream (`HostShape`). The
  credit withheld, under way or swallowed (`Owed`) is one account: a flush moves it
  within the account, whichever way the post ends.
- `WorkerLaneIsAByteStream` (ImplementsByteStream), for any number of callers and
  readers and any batch length, writeMany included: every step of the lane is a step
  of `ByteStream` or a stutter. It assumes that the writer awaits its calls before it
  ends the stream (`AwaitsCalls`): a call that is resumed behind the end posts its
  chunk behind it, where no reader looks (section 6). `StreamInv` is made as in the
  host lane; here `WriterTurns` says that the chunks a call has left, and those of
  its batch before them, are numbered in a row, so that an id goes out once and in
  a batch of its own, and `LaneFlow` is `Flow` of the frames to the host. The steps
  of the abstract stream are those of the writer (`Sends`, `Ends`), of the reader
  (`ReaderSteps`) and none (`Stutters`).

- `OnlySizeStalls`, of calls that follow one another and post chunk by chunk: as in
  the host lane, but with `need + lost > Window`. The host keeps no credit back at
  rest, whatever the threshold, because its flush is scheduled
  (`WithholdsAboveMark`, WithheldIsScheduled).
- `ReadAtMostOnce` (`ReadOnceAndAccepted`), without `AwaitsCalls`, `OneCaller` or
  `OneByOne`: a call that goes on behind the end posts its chunk once all the same. By
  `OnePlace`, as in the host lane; here a batch is one more place.

**The native runtime** (`NativeRuntimeProofs`), for any requests, calls, messages,
channel size and drain.

- `RequestsAreConsistent`: a promise is pending exactly as long as one message
  or thread holds its settler. The invariant counts the holders over all channels and
  threads (`PendingHasOneOwner`), and ties the request, the flag and the reply
  of evalSync to the wait of the Node thread (`SyncInv`), since evalSync answers
  through a channel of its own, and a control message to the one request it carries
  (`SoleRequest`).
- `FunctionsRunAsCalled` (RunsMatchCalls): a function runs once for a call that is
  answered, twice for one that the wrapper makes again, not at all for a refused one,
  and never more often. The messages under way for a call and the runs it
  has had are counted together (`CallInv`): one for a call, one more once it was
  made again, so a late message after a timeout still finds the call not run.
- `MessagesComeFirst` (EventsBeforeResult): a message that the worker's code was told is
  sent stands ahead of the result in every channel that both go through
  (`EmitInv`), the task queue of the Node thread included.
- `EvalSyncAdmitsNoCall` (NoCallDuringEvalSync), of any application: while an evalSync
  is active, every host call and import that is past its op was under way when evalSync
  was called (`earlier`). The ops look at a flag that the Node thread sets before it
  posts the request and resets after the answer, and an async op does so at its
  first poll, so that a call which was made earlier may still be refused. That
  nothing waits for an answer the Node thread cannot give does not follow: a call
  that was under way may be left to answer (section 6).
- `DataArrearsAreBounded`: when a request is handled, of the data posted before it
  at most `ChannelSize - DrainMax` messages are undelivered (none, if the drain is as
  large as the channel). `DataComesFirst` (DataBeforeControl) is the case
  `ChannelSize <= DrainMax`. Data messages are numbered in the order of their posts,
  and the drain that is under way has enough left for what was posted before
  the request, up to the arrears (`DataInv`).

- `OnlyTwoStandstills`, of a startup module that makes no calls (`~StartupCalls`): while
  a promise is pending (`PendingMoves`) the Node thread, the worker, the pump or the
  dispatcher can take a step by itself, but for two situations. `CallAwaitsNode`: an
  eval waits for a call that the Node thread is to answer, and that stands in the
  addon, in evalSync() or before a full control channel. `WorkerAwaitsPump`: the
  worker joins a pump that stands in blocking_recv. Both are reached, and section 6
  lists what each costs; the theorem says that there is no third. `MovesInv`
  adds to `RuntimeInv` where the pump is for each place of the worker
  (`Stations`), that the evalSync() the Node thread waits for is with the worker or
  answered (`AnswerComes`), and that an async call that was sent is in a channel
  (`Underway`). The guards `NodeCanMove`, `WorkerCanMove`, `PumpCanMove` and
  `DispatcherCanMove` are written out, for ENABLED is out of the prover's reach; TLC
  finds them equal to ENABLED of the actions in `Fairness` in every state of the
  instances NativeRuntime_calls and NativeRuntime_requests.

**The native stream plane** (`NativeStreamPlaneProofs`), for any streams and keys, any
bound of the queue.

- `TablesConsistent` (PlaneConsistent): the tables by id and by key and the backlog.
- `NothingSkippedOrTwice` (ReadsAreAPrefix): what a reader got can only grow by the
  right chunk if the queue continues it, so the invariant (`PlaneInv`) says of each
  stream that what was read and what is queued, in that order, are the chunks sent
  without a gap, with an end as the last (`InOrder`, `Prefix`), and of a
  stream that the host has not opened that there is no trace of it (`Untouched`).

- `ReadersWake` (WaitingReaderWakes) and `AcceptsWake` (WaitingAcceptWakes), action
  properties that say in each step that a wait which has something to return is
  resumed or has its wakeup under way. They need an invariant of their own
  (`WakeInv`): no reader waits, unnotified, on a stream with an event or without an
  entry (`NoReaderForgotten`, `HasToWait`), and no accept on a key whose stream can be
  taken (`NoAcceptForgotten`). It assumes that a worker has the two ways of reading of
  `bootstrap.js:1155` (`WaysOfReading`): the asynchronous op where it finds it, polling
  otherwise.

**The module registry** (`ModuleRegistryProofs`), for any names, number of generated
specifiers and limit.

- `QueueHoldsTheMap` (RegistryConsistent), `ServedWrapperLinks` (WrapperCanLink) and
  `RegisteredStaysImportable` (RegisteredIsImportable), and the action property
  `EvictionIsLeastRecent` (PutEvictsLeastRecent). All four rest on what the eviction loop
  leaves of the queue: a loop is a recursive function of the queue in the model, and
  the lemmas describe its result by the places that it keeps. The
  queue repeats nothing and holds the loaded entries in the order of the last load
  (`MapInv`); what a wrapper waits for has not been loaded and so cannot be evicted
  (`WrappersUnloaded`); what was loaded is known to V8, and generated names are
  fresh (`EntriesHaveOrigin`); the module under evaluation is ephemeral
  (`EvaluatesEphemeral`). Together with the types they are inductive (`RegistryInv`).

**The evaluation timer** (`EvalTimerProofs`), for any workers and any number of evals.

- `EvalLeavesNothing` (NothingIsLeft) and `NoEarlyTermination`
  (TerminatedAfterDeadline). `EvalTimerInv` adds: a disarm is behind its arm
  in the command channel (`ArmedFirst`), without which a disarm could pass its arm and
  leave the timer; a flag goes up, and the thread is about to raise one, only for
  a deadline that has passed (`FiredAfterDeadline`); between two rounds the thread
  holds no timer (`EmptyHanded`); and a timer that still counts belongs to the eval
  that its worker is running (`EvalOwnsItsTimer`).

- `LimitsAreNotLost` (`LimitIsPursued`), the part of RunawayEnds that is a matter of
  safety: while an eval with a limit runs, its timer was armed for that very eval, it
  is queued, in the table, in the thread's hand or has set the isolate's flag, nothing
  has cancelled or disarmed it, and past its deadline the timer thread has a step to
  take (`ThreadGoesOn`, which TLC finds equal to ENABLED of the thread). A
  timer that is disarmed or cancelled must not be another eval's, so `PursuitInv` says
  whose timer each record holds (`TimersAreOwned`).

**The module loader** (`AdmissionProofs`), for any number of imports in flight and any
configuration of the worker.

- `SourcesAreAdmitted` (ServesAdmitted) and `ConsentIsNeeded` (PolicyDecides). The first
  is about the URL that the loader asks for, one that a callback put in its place
  included; where redirects lead the code does not check (section 6). Once a
  source is served nobody asks again why, so the invariant (`LoaderInv`) says of
  each import what is known at its stage (`LoadOK`): one that is resolved or waits for
  the callback has heard nothing and holds no source; one that fetches has
  a remote URL; one that fetches or is served has a source that passed (`Passed`): the
  worker's own, the callback's, or one that the rules admit for the URL it
  ended at (`Admits`), with the consent the policy asks for.
- `TrueMeansAllowDisk` (TrueIsAllowDisk), an action property. load makes some checks
  before it comes to load_resolved_module, which makes them again, and a callback's
  import gets there by the second way only. `BothWaysAgree` shows for every URL that
  the first checks change nothing; `AnswerHeard` and `NothingElseHeard` that an
  import hears "true" in the one step that answers it.

**Views** (`AdmissionProofs`), for every buffer, kind of view, offset and length.

- `WindowInBounds`: the window that buffer_view_window chooses lies within the
  bytes that arrived, whatever the other side claims;
- `ViewCrossesIntact`: a view that lies in its buffer has the same kind,
  length and bytes on the other side, though its bytes were copied out of the
  buffer and its offset was not.

Both are case distinctions along the branches of the function: whole buffers,
a window that fits where it claims to be, one that fits at offset 0, and the rest.

**Numbers** (`AdmissionProofs`), for every width of integers and significands.

- `OnlyTheLargestSaturate`: a BigInt that passes the cast to a double and back of
  from_v8 is represented by that double, unless it is the largest of i64 or of
  u64, which pass because casts saturate. These two are among the losses that
  `ArrivesIntact` lists (`SaturatedBig`); TLC finds that both are lost.

**Only model-checked.** All liveness (temporal proofs under fairness are out of the
prover's reach; `OnlySizeStalls`, `OnlyTwoStandstills`, `LimitsAreNotLost`,
`ReadersWake` and `AcceptsWake` are the safety halves of the liveness properties of
their components); that the written-out guards are ENABLED of the actions they stand
for; everything in `ValueCodec` itself, whose conversions are RECURSIVE
operators over trees (`ArrivesIntact` and `ArrivesWellFormed` are its only
invariants, and the only ones without a theorem); that a BigInt below
2^Mantissa is exact, which needs induction over powers of two; the refinement of
`ByteStream` by a host lane outside `OneWay`, as in `HostLane_live`, where writeMany
runs beside gathered chunks and sends its own one by one because they exceed the window
(`ReadAtMostOnce` covers it); the window of a writer of the worker that uses writeMany
with longer batches, which it does not keep. The instances of `OneWay` can be checked
too: in `HostLane_live` with `BatchMax = 0`, `MaxFull = 1` and `"cancelRead"` in Ops,
or without writeMany, `ImplementsByteStream` holds.

Each inductive invariant, and each statement that a theorem makes and no run lists
(`StalledBySizeOnly`, `ReadOnceAndAccepted`, `PendingMoves`, `LimitIsPursued`), can be
checked on the instances of section 4: a copy of the cfg with the definition as an
INVARIANT, run on a module that extends the MC module and the module of the proofs.

## 6. What the code does not keep

`WorkerLane_reads` is a run of its own, and `PROJECT.json` "findings" quotes the
comments it contradicts: closeRemote and errorRemote "resolve" or "reject pending reads"
(`worker.ts:314`, `worker.ts:322`), but pushEvent hands the end to the oldest pending
read() only.

Further statements of the documentation that the models refute are definitions in
the modules. Each is reproduced by adding it to the cfg that is named, with the
constants that are named:

| Definition | How to reproduce | What happens |
|---|---|---|
| HostLane.ReadInWriteOrder | INVARIANT in HostLane | a chunk above fastMaxBatchChunkBytes overtakes smaller ones still in the fast queue (`worker.ts:3233`) |
| HostLane.CleanEndIsComplete | INVARIANT in HostLane | a flush that finds the channel full drops chunks whose write() resolved, and close() reports a clean end (`worker.ts:3188`) |
| WorkerLane: WindowRespected | `Batches <- MCBatches`, `"writeMany"` in Ops of WorkerLane | writeMany checks each chunk against a balance it spends per batch (`bootstrap.js:1491`) |
| WorkerLane: EveryCallSettles | `"cancelRead"` in Ops of WorkerLane_live | the worker's writer is not told that the reader cancelled (`bootstrap.js:1335`) |
| WorkerLane.EveryReadSettles | PROPERTY in WorkerLane_live | an end that is handed to a pending read() does not set `done`: other pending calls, and read() called later, wait for ever (`worker.ts:331`) |
| WorkerLane: EveryCallSettles | `MaxFull = 1` in WorkerLane_live | flushCreditFrames forgets credit that a full channel refused (`worker.ts:1864`) |
| NativeRuntime.AcceptedRequestCompletes | PROPERTY in NativeRuntime_requests | a request behind a close is dropped when nothing lets the thread end: the pump may stand in blocking_recv (`runtime.rs:570`) after it took the close event |
| NativeRuntime.DataBeforeControl | `ChannelSize = 2` in NativeRuntime_requests, DrainMax 1 | more data queued than the drain takes (`runtime.rs:592`: 1024, the default channel has 2048) |
| NativeRuntime.StartupImportIsServed | INVARIANT in NativeRuntime_calls, `StartupCalls = TRUE` | the pump starts after the startup module (`runtime.rs:568`) |
| NativeRuntime: EveryRequestSettles without its last disjunct, EvalSyncAwaitsEarlierCall | PROPERTY in NativeRuntime_calls | an eval made an async host call that is not answered yet, be it an eval that was not awaited or one that ended with the call left behind (`await eval("hostAsync(); 1")`); the worker then waits for the thread that stands in evalSync(), before it comes to the evalSync or in the event loop of its promise (`ops.rs:681` has no timeout) |
| NativeRuntime: EveryRequestSettles | `MaxPosts = 2` and `"post"` in Ops of NativeRuntime_calls | a message that finds the data channel full blocks the Node thread, while the eval that runs awaits an async host call which that thread is to answer |
| NativeRuntime.CallRunsOnce | INVARIANT in NativeRuntime_calls | a sync call whose function returns a promise runs it, is answered with an error (`node_host_calls.rs:87`), and is made again as an async call (`bootstrap.js:2254`), which runs it a second time |
| NativeRuntime: EveryRequestSettles | `Requests = {r1, r2, r3}` and `Ops = {"eval"}` in NativeRuntime_calls | a request that finds the control channel full blocks the Node thread (`lib.rs:48`, "Control-plane calls keep blocking semantics to preserve completion guarantees"), while the eval that runs awaits an async host call which that thread is to answer |
| NativeStreamPlane.CloseLosesNothing | INVARIANT in NativeStreamPlane | close clears the queue of unread chunks (`stream_plane.rs:413`) |
| ModuleRegistry.NoEphemeralLeft | INVARIANT in ModuleRegistry | an evaluated module is loaded once and has a budget of three (`modules.rs:252`) |
| ModuleLoader.FinalUrlAdmitted | INVARIANT in ModuleLoader | the client follows ten redirects (`modules.rs:406`) and fetch_remote_text (`modules.rs:1698`) looks at neither scheme, host nor permission of the URL it ended at; what it got is cached under the URL that was asked for |
| ValueCodec.HostFunctionsGetValues | INVARIANT in ValueCodec | the arguments of a host function are not hydrated: a container that is not plain JSON arrives as its `__graph` wrapper, with undefined and NaN as markers inside. A Date, Map, Set, RegExp or URL that is an argument itself arrives as a value |
| EvalTimer.OwnDeadlineOnly | INVARIANT in EvalTimer | the timer reads the cancel flag, the eval ends, the next one is terminated (`eval.rs:114`) |

The passing runs leave out what these are about: the window runs have one caller,
for two waiting calls woken together spend the same credit (addWriterCredit
resolves each waiter against the same balance). HostLane_live flushes credit byte
by byte: with a flush amount as large as the window a call may wait for ever, since
queueStreamCredit has no scheduled flush as queueCreditFrame has. The runs of
ByteStream end a stream when its calls have settled (`AwaitsCalls`): a worker that
closes without awaiting a write may post the chunk behind the end. WorkerLane_live has
two readers and claims only what the code gives them: the oldest pending read() returns
(`OldestReadSettles`), if none was told of the end before. In NativeRuntime_calls evalSync() may come at any time, with evals that are not awaited
and host calls that an eval left behind; `EveryRequestSettles` excepts the one
standstill that comes of it (`EvalSyncAwaitsEarlierCall`). A credit flush of the host that is
refused in its setImmediate callback throws there, an uncaught exception
(`worker.ts:1845`, `worker.ts:1803`); the lane goes on with the credit lost.
`ArrivesIntact` lists the losses of the codec (`Loses`) and holds both ways: what is
not listed arrives, and what is listed does not. Among them: a lone ArrayBuffer, DataView
or typed array, as an argument or as a message, arrives as a Uint8Array
(`LostByBytes`); a BigInt of more than 40 digits is refused (`v8_codec.rs:629`); an error
whose cause is null or undefined loses it (`NoCause`).

## 7. What is not modelled

- Opening a stream in the TypeScript plane: both lanes start when the open frame has
  been handled. The registry of that plane (accept, backlog, slot pool, frames
  before their open) has no module; the native plane's has.
- Chunks of no bytes, which take a path of their own on the host; chunks larger
  than the window (a write of one never settles); the untyped payload queue;
  `DENO_DIRECTOR_STREAM_V2=0` (no fast queue).
- Frames for a stream that has been released are ignored in the lanes; the code
  puts them aside for an open that never comes (a leak, not a change of the lane).
- The other streams whose pending credit close() flushes: only that the flush may be
  refused, in which case close() throws (EndFails). Credit piggybacked on a
  chunk, which is of the same id and thus never there for an outgoing stream.
- NativeRuntime: inspector, working directory and permissions of the boot
  (an unusable directory calls blocking_send inside the runtime); the requests for
  globals, modules and environment, which are settled as the four modelled ones are; the
  lock on the worker table that setGlobal holds while it encodes; the
  wrapper's own close, restart and epochs.
- NativeStreamPlane: the blocking read op, telemetry, credit; concurrent
  reads of one reader (the second overwrites the waiter of the first); ids above the
  range of i32.
- ModuleLoader: the file system, package.json (and its cache), transpiling,
  CommonJS detection (looks_like_cjs may wrap a file that its extension declares a
  module), the matching of hosts and prefixes in permission lists, a full node
  channel before the callback's timeout starts.
- ModuleRegistry: source text; that V8 keeps the old module when a name that was
  loaded is registered again.
- EvalTimer: memory limits, statistics, and what evaluated code does beyond
  ending, running for ever or leaving a promise pending.
- ValueCodec: cycles and shared references, depth limits, blobs, functions sent as
  globals, SharedArrayBuffer contents, the byte form of stream envelopes.
- Duplex (an adapter to Node's stream module, whose order of events is not in this
  repository), remote handles (each operation is an eval of generated code), options,
  Director and filesystem (sequential data and path computation).
