# A TLA+ model of nihostt

nihostt is a local speech-to-text server written in Rust. It keeps a fixed number of
ONNX sessions in memory, lends them to REST, server-sent-event, WebSocket and FFI
clients, cuts streamed audio into segments with a voice activity detector, and keeps a
directory of downloaded models. This directory models its concurrent and stateful
parts in TLA+, checks them with TLC on small instances and proves the central
invariants with TLAPS for every instance.

`PROJECT.json` lists the components, the runs, a mutant for every property, the lines
of the source behind every definition, the findings, the hazards and the theorems.

    tlc -workers 2 -config pool_safety.cfg MCSessionPool.tla     # one run
    tlapm SessionPoolProofs.tla                                  # one module of proofs

## Inventory

| Part | State | Operations | Interacts with |
|---|---|---|---|
| Session pool (`inference/mod.rs`) | semaphore, vector of sessions | `checkout`, `checkout_blocking`, `is_ready`, drop of a guard | every handler, FFI |
| Streaming session (`inference/mod.rs`) | sample buffer, detector position, open segment | `process_chunk`, `finalize` | detector, decoder; owned by a WebSocket or an FFI stream |
| WebSocket handler (`server/http.rs`) | one streaming session, timers | configure, audio, stop, close, shutdown | pool, streaming session, socket |
| Upload handlers (`server/http.rs`) | temporary file, blocking jobs, event channel | transcribe, transcribe as SSE | pool, blocking threads, a client that may go away |
| Rate limiter (`server/rate_limit.rs`) | token bucket per address | `check` | middleware in front of the handlers |
| Model store (`model/mod.rs`, `main.rs`) | files of the model directory | download, verify, replace by INT8 | network, engine start-up |
| Quantizer (`quantize.rs`) | ONNX graph | `quantize_model` | model store |
| Lifecycle (`server/http.rs`, `main.rs`) | shutdown channel, cancellation token, helper's timeout | start, shut down, drop, end of the process | listener, handlers, uploads |
| Access control (`server/http.rs`, `main.rs`) | the policy made at the start | bind check, API keys, origins, layers | in front of every handler, with the limiter |
| FFI (`ffi.rs`) | engine and stream handles | new, transcribe, stream, flush, free | pool, streaming session |
| Detector, decoder (`inference/vad.rs`, `decode.rs`) | recurrent state | judge a frame, decode | streaming session |
| Audio, features, punctuation, diarization | none, or numeric | functions of one input | streaming session, uploads |
| Protocol, errors, command line, metrics | none | data types, parsing, text | all |
| Android bridge, examples, packaging | none | clients of the interfaces | server, FFI |

What is hard in each of them, and what correct means:

* **Pool.** A counting semaphore and a mutex-protected vector, with no lock over both.
  The pop after a permit relies on the order in which a guard is torn down. A future
  dropped in `checkout` (a timeout, a client that left) may own a permit already.
  Correct: no session or permit is lost or doubled, the pop never fails, waiters are
  served.
* **Streaming session.** Five indices into a buffer that is cut while it is being
  walked, errors in the middle of a call, and a detector that is sent back to the
  start. Correct: no slice panics, no speech is dropped or reported twice, the segments are
  those the audio calls for however it is cut into chunks, every call returns.
* **WebSocket handler.** Many ways to end a session, each with its own last messages,
  and two places that ask the pool again. Clients may stall, so that a send never
  returns. Correct: a handler that waits holds nothing, pending speech is reported,
  Stop is answered, the cap and the shutdown end a session.
* **Uploads.** The server drops the handler's future when the client goes; blocking
  jobs and spawned tasks live on. Correct: a running job finds its file, sessions
  return, files do not stay, the event stream is complete.
* **Model store.** Two renames replace one file, and the process may be killed between
  any two system calls. Correct: what the engine loads is whole and of the wanted
  precision, and the next start can go on from any crash.
* **Rate limiter.** The clock is read before the lock is taken. Correct: a bound on what
  is let through, and a client that obeys `retry-after` is admitted.
* **Quantizer.** Weights with several uses, and weights skipped half way. Correct: the
  graph that is written can be loaded and computes the same.
* **Lifecycle.** axum waits for HTTP connections and not for upgraded ones; the token, the
  channel and the helper's timeout stop different things. Correct: a shutdown comes to an
  end, no session outlives its server, and none is cut off.
* **Access control.** The start and the layers decide about one list of keys in two places;
  layers run in the reverse of the order they were added in. Correct: a public server is
  never open by mistake, and probes and preflights are never locked out.
* **FFI.** A call that fails has no handle to give its session back with; streams and the
  engine are freed in any order and from several threads. Correct: nothing is owned where
  the host has nothing, no stream outlives its session, no refusal without a reason.

## Modules

| Module | Models | Composition |
|---|---|---|
| `SessionLease` | what clients may rely on: exclusive leases, none withheld | abstract specification |
| `SessionPool`, `MCSessionPool` | the pool and tokio's semaphore | implements `SessionLease` |
| `SpeechSegments` | the segments that the audio itself calls for | abstract specification |
| `StreamingSession` | `process_chunk`, `finalize` | implements `SpeechSegments` |
| `WsSession` | `handle_socket`, several connections | uses the pool and the session by what the two modules show of them |
| `Uploads` | `transcribe_handler`, `transcribe_stream_handler` | uses the pool likewise |
| `ModelStore` | `ensure_model`, `ensure_int8_encoder`, the engine's load | contains the file operations of `quantize_model` |
| `Quantizer` | `quantize_model` on the graph | |
| `RateLimiter` | `RateLimiter::check`, `rate_limit_layer` | |
| `RequestPath` | the checks of `serve`, the three layers of `create_router` | extends `RateLimiter` |
| `ServerLifecycle` | `run_with_config`, `run_on_random_port_with_shutdown`, the end of `main` | extends `WsSession`; uploads that share its pool |
| `FfiHandles` | the functions of `ffi.rs` | extends `SessionPool`, and is proved to implement it |
| `SessionPoolProofs`, `StreamingSessionProofs`, `WsSessionProofs` (also of `ServerLifecycle`), `UploadsProofs`, `ModelStoreProofs`, `QuantizerProofs`, `RequestPathProofs` (also of `RateLimiter`), `FfiHandlesProofs` | theorems | extend the modules they are about |

**`SessionPool`.** One action per step between two points at which others may interfere.
`pc[a]` says where a task or thread is; `waiting` and `assigned` are the two states of a
suspended `acquire_owned`, before and after a permit was handed to it. `Acquire`, `Poll`,
`Pop` are `checkout`; `TryAcquire`, `Pop` are `checkout_blocking`; `Abandon` is the drop
of a suspended checkout; `DropSession`, `DropPermit` are the body of `Drop` and the drop
of the permit field; `Probe`, `EndProbe` are `is_ready`. Tokio's semaphore is external:
`Release` hands a permit to the longest waiter. Which session a pop takes (the code takes
the last) is left open.

**`StreamingSession`.** `ProcessChunk` appends a chunk and `Finalize` asks for what is left.
`Judge` takes one frame to the detector, whose verdict is arbitrary (speech, below the
silence threshold, between the two), and `VadError` is its failure. `EmitFinal`,
`EmitPartial`, `Continue` are the rest of the loop body, and `DecodeError` its failure;
`ReturnFromChunk`, `ReturnFromFinalize`, `FinalizeError` end the call. Indices are
samples. `base` counts the samples that left the buffer, `returned` the final results that
were handed over, and `judgedBy` remembers which call judged the last frame. A final result
cuts the buffer at the end of its speech and sends the detector back to 0, as `reset_after_final` does, in the same step. `Left` is what a call
leaves behind: an open segment that is long enough to be reported, frames that a cut has put
back for the detector, or nothing to report. `WhatCallsLeave` says how it may change, and is
all that `WsSession` knows of a streaming session. In particular a `finalize` that reported
nothing leaves nothing: it has judged every frame, and an open segment was too short.

**`SpeechSegments`.** The audio by position in the stream, with no buffer and no chunks. A
frame is judged (`Speech`, `Silence`, `Undecided`), and when that completes the segment nothing
but `Finish` or the failure of the call (`Fail`) may come next: with the same verdicts the
segments are the same however the client cuts its audio up. A result has the range of its
speech (`from`, `to`) and the padded range that is decoded (`lo`, `hi`). `hi` is the one place
where chunks show, in the code (`mod.rs:438`) and hence here: the padding behind the speech
ends at what has been received by then, so that the last words may be decoded with less of
the silence behind them. A failing call loses the results it had found (`found`), never those
already returned (`handed`).

**`WsSession`.** A handler is a chain of steps between awaits. `pc` says what it awaits
(send, create, loop, checkout, infer, close) and `goal` for what, hence where it goes on.
The order of the `biased` select is kept: a cancelled token wins over a message. A client
reads, stalls (sends do not complete) or is gone (sends fail). `age` is the session's time
in ticks against the cap. `left` is what the streaming session has not reported: `speech` in
a segment that is long enough, `audio` that a cut has put back for the detector, which was
reset and may find speech in it, or `nothing`. `FinalizeReports`, `FinalizeFindsNothing` and
`FinalizeFails` are the outcomes of a `finalize`, after Stop, after the client's Close and
behind the loop, with what each of them may leave. `asked`, `answer`, `lapses` record what was
left when Stop came and what the client was told since, for the connections in `Observed`.

**`Uploads`.** `pc` is where the handler or, for a stream, the task it spawns is; `job` is
the blocking job. A client that goes drops a suspended handler, and not its job. A job
that ends after that closes the file and returns the session, and nobody removes the file.
`channel` is the bounded channel of events, in which a blocking send waits.

**`ModelStore`.** The directory maps names to contents, and a rename carries the open file
along. One action per system call that others can see, or that a crash can come after.
`Exit` ends or kills a process at any step. Contents are the two published encoders,
a local quantization and anything less than whole ("short"). Several processes share the
directory; `alone` remembers of each command whether another was at work during its own.

**`RateLimiter`.** `ReadClock` takes the clock, `Check` locks, refills and admits or refuses.
Tokens are counted in exact parts where the code has `f64`, so rounding is not covered.
The limiter of rate 0 does not exist in the code and is excluded by an assumption.

**`Quantizer`.** The graph's nodes and initializers by name; names are pairs, so that
`w_scale` is `<<"scale", w>>`. `Collect` (one input of a node), `Quantize` (one target) and
`Rewrite` are the three loops. The order of a graph's tensors has no meaning, so `inits` and
`newInits` count how many there are of each name. Scales and rounding, and the protobuf codec,
are left out.

**`ServerLifecycle`.** `owner` says who started the server and so what may stop it: `main`
passes no channel, a library fires or drops one (`Signal`), the helper of the tests has a
token for its caller (`CancelToken`) and a timeout from the start (`DrainTimeout`), which
drops the server's future. `Return` is axum's graceful shutdown, which waits for `Open`
uploads and for no upgraded connection. `WsStep` is any step of a handler of `WsSession`;
an upload is queued, leased and over, as `Uploads` shows in detail. `ProcessEnds` takes
every task with it.

**`RequestPath`.** `Policies` is what the command lines that pass `ensure_bind_allowed` and
`ensure_auth_allowed` turn into; `Answer` goes through rate limit, keys and origins in the
order axum runs them. A key, a path or an origin is one of the values the code tells apart.
Requests are steps: `Limited` is a request under `/v1`, which goes on to the keys, the origins
and its handler as the limiter's update lets it; `Unlimited` is a probe, a preflight or the
metrics, which go past the limiter. `Outcome` is what of a request and its answer shows in the
histories: `served` counts the handlers that ran under `/v1`, `keyless` and `turnedAway` note
what must not happen. Which request it was is chosen when it is checked, as the limiter looks
at its address only.

**`FfiHandles`.** An actor of the pool is a place where the host keeps one stream or makes
one call. `StreamNew` and `TranscribeFile` are `checkout_blocking` from `SessionPool`;
`Opened`, `Transcribed`, `StreamFree` lead to `PushBack` and `GiveBack`, the two halves of a
dropped guard, on every path out. `memory` are the sessions that are loaded: the vector is
shared by the engine and the guards, and goes with the last of them. The host keeps to the
rules in the functions' comments; `Abort` is a panic at the edge of an `extern "C"` function.

## Runs

All runs finish within the times given on two workers.

| Run | Instance | Question | States, time |
|---|---|---|---|
| `pool_safety` | 4 actors, 2 sessions | conservation, no lost wake-up, no starvation, refinement of `SessionLease` | 2 219, 4 s |
| `stream_safety` | frames of 2, chunks of 1 and 4, 15 samples | index order, speech kept, bounded segments, refinement of `SpeechSegments`, calls return | 490 k, 50 s |
| `lifecycle` | 3 owners, 1 connection and 1 upload on 1 session, cap 1 | no hold and wait, speech reported and Stop answered through every shutdown, cap and shutdown end sessions, leases return, the shutdown ends, nothing outlives the server | 211 k, 95 s |
| `cap_zero` | 1 connection, cap 0 | fails: a cap of 0 ends sessions | |
| `lifecycle_drain` | the server of `main` | fails: a signal ends the process in the middle of a session | |
| `upload_safety` | 1 upload, 1 stream, 1 session, channel of 1, lengths 0, 5, 9 s | files, windows, events, leases return, requests end | 48 k, 24 s |
| `upload_leak` | 1 upload | fails: a client that leaves leaves its file behind | |
| `store_crash` | 2 processes, all commands, crashes, damaged bodies | what is loaded is whole and INT8, crashes and overlaps heal, an encoder survives, the backup is FP32 | 2.2 M, 55 s |
| `store_once` | serve, no damage | fails: the encoder is quantized again at every start | |
| `rate_safety` | 1 address, 2 threads, 5 ticks, all policies, all kinds of requests | the bound on admissions, retry-after, keys on public servers, probes and preflights | 5.2 M, 110 s |
| `quant_safety` | all graphs of 2 nodes with 3 inputs over 2 weights of 4 kinds | exactly which graphs come out whole; same computation | 724 k, 20 s |
| `ffi_handles` | 3 places, 2 sessions | failed calls keep nothing, streams outlive the engine, refusals are justified | 2 726, 2 s |

Why these bounds are enough to meet the hard cases:

* Two sessions and four actors give a queue of two while two hold, so that an abandoned
  `assigned` waiter has a successor, and a newcomer, a probe or a blocking caller can race
  a hand-over. Clients are all alike; the proofs cover every number of them.
* 15 samples in frames of 2 are seven frames and an unjudged rest. With a minimum of 3, a
  maximum of 11, a silence of 3 and a padding of 3 samples a run contains several segments,
  each kind of ending, partial results, a cut that leaves frames to be judged again, and
  chunks shorter and longer than a frame. The maximum is high enough for two flushes in a
  row to leave a segment open for longer than a partial result may be due; with 9 it was
  not. `MaxAudio` bounds the audio of a run.
* In `lifecycle` the competitor of the connection for the session is an upload: what a second
  connection could do to it is to keep the session, which the upload does as well, and for
  ever when its client stalls. Longer chains of waiting are excluded by `NoHoldAndWait`, which
  is proved for every number of connections. A cap of 1 tick gives sessions that are younger
  than the cap, at it and older; 0 is the question of `cap_zero`.
* Two processes make every pair of steps on one file overlap; a third could only repeat
  what the second does. `MaxQuantized` bounds the count of local quantizations: 0 where it
  is not looked at, 2 where a second one is the question.
* Three places and two sessions let a third call be refused while two are in use, and let
  streams be freed before, during and after the engine; the proofs cover every number.
* A channel of one event fills at once; lengths 0, 5 and 9 give no window, one that is
  exactly full, and two that overlap. Chunk and hop are the code's 5 s and 4 s.
* `MaxTime` bounds the clock of the limiter; five ticks cover the refill of the whole burst
  of 2 at 2/3 of a token per tick, and late readings of several ticks.
* Two weights in two nodes of three inputs give shared weights, both orders of first use,
  a weight as first input and as the input of a node that is not quantized.

`CHECK_DEADLOCK FALSE` is set where the system may really stop: all connections closed, all
requests ended, the clock at its bound, the graph written. The pool and the streaming
session never stop. The host of an engine may stop calling it.

**Fairness.** Weak fairness of the steps a runtime takes by itself: tokio polls a task
that was woken, a thread is scheduled, a guard in scope is dropped, an inference returns,
a timeout of the code elapses. No client is obliged to send, to read or to leave, nobody
to enter the pool, no clock to reach a cap. Liveness of a handler is therefore stated up
to a client that has stopped reading, because sends have no timeout. The hand-over in the
semaphore is what makes weak fairness enough for `NoStarvation`.

## What the checks show

For the passing runs, the properties hold on these instances, and for each of them a
plausible bug in the code (a mutant in `PROJECT.json`) breaks it. The failing runs are
disagreements between the code and what the repository says of it:

1. A signal ends the server in the middle of a session. `docs/runbook.md:188` says "SIGTERM
   triggers graceful shutdown" and `docs/cli.md:52` "Max wait for in-flight sessions on
   SIGTERM"; `main.rs:379` gives the server no channel, nothing handles a signal, and
   `shutdown_drain_secs` is read by a test helper only.
2. A client that disconnects during an upload leaves its temporary file: the removal is a
   statement after awaits that are never resumed. `server/http.rs:560` says the file is
   cleaned up regardless.
3. An encoder that was quantized locally has no expected hash: the next start removes it,
   downloads the FP32 encoder and quantizes again, where `main.rs:312` says one-time.
4. `--max-session-secs 0` is "disabled" in `docs/cli.md:50` and `docs/asyncapi.yaml:38`. The
   comparison at `server/http.rs:827` knows no such case: with 0 a session ends at the first
   message that comes later than it was created. `SessionEnds` is checked with a cap of 1.

Seen while modelling, and not the subject of a run:

* `is_ready` takes a permit for an instant, so a second probe or a `checkout_blocking`
  can be told that a pool with an idle session is saturated (`README.md:199`,
  `docs/openapi.yaml:56` say 503 means saturated).
* The limiter admits more than its rate when a reading of the clock comes late to the lock:
  it sets `last_update` back. `BoundedByReadings`, proved, says by how much.
* Two processes that start on one model directory share the partial files' names: while
  they overlap, one may load what the other is still writing. `LoadsRight` without `alone`
  is violated in seconds.
* `quantize --force` on an INT8 encoder quantizes the INT8 encoder and renames it over the
  FP32 backup, although `main.rs:307` speaks of the FP32 encoder (the exception in
  `BackupIsFp32`).
* Documents say that loopback origins are always allowed (`README.md:267`, `docs/cli.md:27`,
  `docs/deployment.md:111`, `docs/runbook.md:160`); `origin_is_allowed` looks at the list and
  at `--cors-allow-any` only.
* `--host localhost` and `--host ::1` pass the check of the start, and fail to parse as an
  address at `server/http.rs:69`, after the models were loaded (`Binds`).
* A wrong `x-api-key` hides a valid bearer token (`ExtractApiKey`). Answers 401 and 429 carry
  no CORS headers, as their layers are outside of `origin_layer`, which also answers every
  OPTIONS request, so that the routes to `preflight_handler` are never reached.
* `quantize_model` removes a tensor that it skips for its shape (`quantize.rs:86` before
  `:105`), and one that also has uses it does not rewire (`:192`). `Loadable` states that
  these are the only two ways to a graph that cannot be loaded.
* An error late in a call of `process_chunk` discards the final results of that call
  (the exception in `NoSpeechLost`). A panic of the resampling job leaves the upload's
  file (the exception in `FileLifetime`). A panic in `nihostt_stream_flush` or
  `nihostt_transcribe_file` is not caught and aborts the host (`Abort`), one in the inference
  of `nihostt_stream_process_chunk` is caught.
* Two flushes in a row: the first cuts at the end of the speech, the second judges what the
  cut left, and `finalize` looks at no partial result, so one may be overdue when the next
  chunk comes. `SegmentBounded` promises none after `process_chunk` only.
* A client that sent Stop may be told two final results: `finalize` runs for Stop
  (`server/http.rs:858`) and again behind the loop (`:1031`), and the first, when it cuts the
  buffer (`inference/mod.rs:454`), leaves frames that the reset detector judges once more.
  `ServedAnswers` has both answers. A client that was told an empty Final is told nothing
  more, unless Stop itself failed or got no session.
* A default burst of 20 in `README.md:268` is 10 in the code.
* `ffi/android/NihosttBridge.kt:61` declares `quantizeModel`; `ffi.rs` exports no such function.

## Proofs

Every theorem is about the specification for all values of the constants that satisfy the
named assumptions. `PoolAssumption`: finitely many actors and sessions. `StreamAssumption`:
the sizes and thresholds are natural numbers, the frame and the interval of partial results
positive. `WsAssumption`, `LifecycleAssumption`: finitely many connections and uploads, a
pool of at least one session. `UploadsAssumption`: the two kinds of requests are disjoint and
finitely many, the pool, the channel and the hop are positive, and windows do not leave gaps.
`LimiterAssumption`: rate, cost and burst
are positive. `StoreAssumption`, `NoneAssumption`: the kinds of commands, and a name for
"nothing" that no file has. `QuantizerAssumption`: the kinds of weights, and nodes with at
least one input.

**Pool.** `IInv == TypeOK /\ SessionConservation /\ NoLostWakeup /\ PermitAccounting`.
`PopNeverFails` is not inductive: it needs `PermitAccounting`, which says that the vector
holds a session for each permit that is free or owned by an actor without a session
(`Credits`), a cardinality argument that each action has to repay. `NoLostWakeup` is needed
for the step that hands a permit over: the waiter must be suspended for the accounts to
balance. From it follow `TypeCorrect`, `SessionsConserved`, `WakeupsKept`, `PopSucceeds`
and, as a property of steps, `WaitersFirst` (`NoBarging`). `PoolImplementsLease` is the safety
part of `LeaseSpec`: a hand-over changes neither who wants a session nor who has one
(`ReleaseKeepsWanting`), so that only a pop grants and only the first half of a drop returns.

**Streaming session.** `IInv == TypeOK /\ IndexOrder /\ FinalsInOrder` is inductive.
`CutKeepsInv` carries the weight: a final result is appended and the buffer is cut in one
step, so results stay behind `base`. `RewindsTerminate` shows that the detector only goes
back over a shorter buffer, the variant of the loop. `SessionImplementsSegments` is the
refinement of `SpeechSegments`, action by action, under the mapping of buffer indices to
positions in the stream (`Segments`): a segment is finished exactly when the audio calls for it,
and neither chunks nor cuts move it. `CallsLeave` is what `WsSession` builds on: speech that is
left is reported by the next call, lost by a failing one or still left, and a `finalize` that
returns nothing leaves nothing (`NothingToFinalize`, `ReturnsLeave`).
`SegmentsBounded` adds what `finalize`, which looks at no maximum, relies on: the buffer it
walks has no frame left to judge, or is what an earlier cut left and shorter than the maximum
(`Bounds`). `SpeechIsKept` needs
that all indices are multiples of a frame (`Aligned`), so that a frame is judged at the same
place again after a cut, and that what was judged outside of the open segment was quiet
(`Passed`); the rest is in a final result (`Kept`).

**Rate limiter.** `IInv` adds to the types that the parts admitted and left are covered by
burst, time and rewinds (`Credit`), that nothing is from the future (`NoFuture`), that a
refused address keeps what came in since (`Saved`), and that an address without a bucket
was admitted nothing (`Fresh`). `LimitKept` and `RetryAfterHolds` follow.

**WebSocket handler.** Handlers meet only in the pool, so everything but the number of leases
is an invariant of one connection (`Local`), and a step of one leaves the others as they
were (`OthersUnchanged`). `Tidy` says where a session may be held and where messages are left
to send, `Pending` that no speech is left once the last finalization was through.
`StopIsAnswered` speaks of the closed socket only; `Progress` says for every place between
Stop and the end what the client was told and will be told next (`Told`, which a message does
not change when it moves from one to the other). `OpenAnswer` relates what it was told to what
is still left: an empty Final although something is left is possible only after Stop lapsed.
The last finalization then completes the answer (`ReportCompletes`, `SilenceCompletes`).

**Lifecycle.** `ShutdownKeepsPromises` carries what is proved of one session over to every
server: a signal, a cancelled token and a timeout are steps of `WsSession` or leave it alone,
and after `ProcessEnds` no handler moves (`ClosedHandlersRest`). `LifeInv` adds that uploads
and connections share one pool and that a server which stops has cancelled its token, in the
order of the statements (`StopIsTold`).

**Uploads.** `UploadInv` follows the file and the job through the handler, again request by
request: the one place where a file and no handler exist is a dropped request, and then the
job that reads it may still run. For `StreamsComplete` an event must not be lost between the
job, the channel and the client: `Flow`, what was read, is in the channel and is still to be
sent, in this order, always is what the windows so far call for (`Due`).

**Model store.** `StoreInv` has two parts. `Knows` says for every place in a command what it may
rely on if it was alone so far: that the partial file is its own, what it has verified, and
which encoder lies where. `Solo` is what makes it inductive over several processes: while one is
alone no other is between its first and its last step, so that no step of another can change
what it knows. The four theorems read off the ends of the commands.

**Quantizer.** `QuantInv` says what the loops have found (`Found`), seen (`Visited`) and made
(`Replacements`: one node and three tensors for each weight, once). `WrittenNodes`,
`WrittenTensors` and `WrittenOutputs` describe the graph that is written, and
`InputIsAvailable` decides for every input of an old node when it can be read;
`LoadableExactlyIf` is the sum of it, in both directions.

**Request path.** `PathInv` adds to the limiter's invariant that no more handlers ran under `/v1`
than tokens were taken (`HandlersAreLimited`). It rests on `OutcomeFacts`: a request that
reaches such a handler is charged and was admitted, whatever its method, path, keys and origin
are, so that the limiter is neither passed by nor counted for another address. `PublicIsKeyed` goes through `StartChecks`: a public address without the opt-out has exactly
the operator's key left after `NormalizeApiKeys`, so no blank one can be matched.

**FFI.** `FInv` adds to the pool's `IInv` where a call can be in the pool by what the host is
doing (`HandlesAgree`) and which sessions are loaded (`MemoryAgrees`). `CallsUsePool` maps every
call to a step of the pool or to none, so that the pool's invariant carries over without a
second proof; `FfiImplementsPool` is that refinement. `RefusalsJustified` counts: with no
permit left, every session is in a guard or promised to one (`PermitAccounting` again), and
each of those belongs to another place of the host.

## Only model-checked

All liveness (`NoStarvation`, `CallsReturn`, those of the handlers and of `ServerLifecycle`)
and the liveness part of `LeaseSpec`: fairness and ENABLED are outside what the prover
supports. Every safety property that a passing run checks is proved. `PermitAccounting`,
`NoBarging`, `FinalsInOrder`, `RewindsShrink`, `WhatCallsLeave`, `HandlersLimited` and `StopIsTold`
are the other way round: proved, and not looked at by a run, as `PopNeverFails`, `SegmentsSpec`,
`CallsReturn`, `BoundedByReadings` and the properties of `lifecycle` fail where they would.

## Not modelled

* Inference, resampling, features, diarization, punctuation: numeric functions of one
  input. Their results and errors are arbitrary in the models that call them. The greedy
  decoder and the detector's framing are loops over such numbers; nothing outlives a call
  but the detector's recurrent tensor.
* JSON and protobuf codecs, argument parsing, logging, metrics text, the Android bridge,
  examples and packaging.
* Memory: the streaming buffer of a client that never speaks and the limiter's buckets grow
  without a bound in the code, so that there is none to state. A burst of 0 is accepted by
  the command line and excluded by `LimiterAssumption`: it refuses every request.

## Plan

Done, in this order: the pool and its abstract specification, the streaming session and
its own, the WebSocket handler, the uploads, the model store, the rate limiter, the
quantizer; then the server's lifecycle, the FFI over the pool, the way of a request through
the layers, several processes in the model store; proofs about the pool, the streaming
session, the WebSocket handler, the files of uploads, the limiter, the layers and the FFI;
then the safety part of `LeaseSpec`, `NoSpeechLost`, `SegmentBounded`, `StreamComplete`, the
model store, the quantizer and the sessions of a server that stops.

To do, proofs: that `WsSession` and `Uploads` lease sessions as `SessionLease` allows, which
needs the identity of sessions in both; variants behind the liveness properties, as
`RewindsTerminate` is for `CallsReturn`.
