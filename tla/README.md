# Verification of LK-go-agent-sdk

TLA+ models of the concurrent parts of this SDK, the TLC runs that check them,
and TLAPS proofs about them. Paths are relative to `src/`.

## The system

| Part | State | Operations | What makes it hard |
| --- | --- | --- | --- |
| `worker.go`: dispatch | `pending`, `jobs`, `draining`, `status` under one mutex | `handleAvailability`, `handleAssignment`, `handleTermination`, assignment timers, `runJob`/`finishJob`, `Drain` | the read loop, one timer per acceptance, one goroutine per job and `Drain` interleave between critical sections; the request callback runs unlocked |
| `worker.go`: connection | the bounded queue `sendCh`, the backoff | `Run`, `runConn` and its five goroutines, `send`, `sendStatus` | goroutines that outlive a connection feed the same queue; connections break; messages are dropped, flushed, lost; statuses are read before they are queued |
| `job.go` | room, shutdown callbacks, context of one job | `Connect`, `AddShutdownCallback`, `Shutdown`, `WaitForParticipant` | `Connect` checks and stores in two critical sections, and races the end of the job |
| `voice/session.go` | chat history, agent state, `activeCancel` | `Start`, `generate`, `interrupt` | the loop, a fan-out goroutine, an audio goroutine per turn and the VAD goroutine; barge-in; five channels whose closing somebody waits for |
| `voice/room_io.go` | the first subscribed track | `RunRoomSession` | track subscription against the end of the job |
| `cli/cli.go` | signals, the process | `run` | drain, cancel and exit in order |
| `audio/track`, `audio/frame.go` | a bounded frame channel; PCM data | `WriteSample`, `Close`; `FromBytes` | sample against close; numeric conversion |
| `plugins/deepgram`, `cartesia`, `gemini` | one stream per connection or reply | `Stream`/`Chat`, `Push*`, `EndInput`, `Close` | who closes the event channel, and when |
| `plugins/silero` | control queue; speech detector | `PushFrame`, `run`; `step`, `reset` | a reader that stops while writers do not; sample counts |
| `stt`, `tts`, `llm`, `vad` | - | interfaces | their contract is only implied: range over `Chan()`, then check `Err()` (`StreamContract` spells it out) |

They interact by calls (cli -> Worker -> entrypoint -> RunRoomSession ->
AgentSession -> plugins), by channels (frames, speech events, chunks, audio), by
messages with the LiveKit server, and by contexts: the job's context ends the
session's, which ends each turn's.

What makes each part correct: for dispatch, that an acceptance becomes one run
or lapses, that a running job can be found and that `Drain` is right about what
it waited for; for the connection, that the server's picture is not distorted by
reconnects and converges; for a session, that turns begin and end one after the
other, nothing said is lost, and a barge-in silences the agent; for the streams,
that every channel is closed once, after which nobody writes to it.

## Modules

| Module | Role |
| --- | --- |
| `Dispatch` | abstract: the life of a job offer |
| `Worker` | dispatch in `worker.go`; implements `Dispatch` (`KeepsPromise`) |
| `WorkerConn` | connection, queue and reporting in `worker.go` |
| `Cli` | the process of `cli/cli.go` around `WorkerConn` |
| `AgentSession` | `voice/session.go`, with `GeminiRequest` |
| `RoomSession` | a job that runs `voice/room_io.go`: `job.go`, `finishJob`, `audio/track/input.go` |
| `Detector` | pure: the speech detector of `plugins/silero/detector.go` |
| `SileroStream` | the VAD stream of `plugins/silero/vad.go`, with `Detector` |
| `StreamContract` | abstract: what `Chan`, `Err` and `Close` of a stream promise together |
| `PluginStream` | the state and the steps that the three network streams share |
| `DeepgramStream`, `CartesiaStream`, `GeminiStream` | the streams of `plugins/deepgram/stt.go`, `plugins/cartesia/tts.go`, `plugins/gemini/llm.go`: `PluginStream` and what is their own |
| `PluginStreams` | one of the three in each behaviour; implements `StreamContract` (`KeepsContract`) |
| `GeminiRequest` | pure: `toContents` of `plugins/gemini/llm.go` |
| `Frame` | pure: the PCM16 conversion of `audio/frame.go` |
| `WorkerProofs`, `WorkerConnProofs`, `CliProofs`, `AgentSessionProofs`, `RoomSessionProofs`, `PluginStreamProofs`, `SileroProofs`, `FrameProofs` | theorems about the module of that name (`PluginStreams` and `SileroStream` for two of them) |
| `MCWorker`, `MCWorkerConn`, `MCCli`, `MCAgentSession`, `MCRoomSession`, `MCSileroStream`, `MCPluginStreams` | instances for TLC |

An operator whose comment begins with "Mutant:" is a version of the definition
that follows it with a plausible mistake. Nothing uses it; it is there to be put
in the definition's place, so as to see a property fail.

### Worker

One action is one critical section under `w.mu`, together with what the
goroutine does on its own until its next one. `readerAt` is the read loop's
place in a handler: "deciding" while `RequestFnc` runs (`sawDraining` is the
handler's copy of the flag), "starting" between the two critical sections of
`handleAssignment`. An acceptance and the `JobContext` that its assignment
creates are the same value, an offer: `pending[j]` and `jobs[j]` hold one each.
`run[o]` is the job's goroutine, in the entrypoint, in `finishJob`, or done.
`drain` is one call of `Drain`, with `owed` the jobs it found.

The server may send anything at any time, and may offer a job that is accepted or
running here, as can happen when it gives a job out again after a reconnect. Then
two JobContexts of one job run side by side, and since `finishJob` deletes by job
id, the end of one deletes the entry of the other. `overlapped` is the history of
those that have run beside another. `RegisteredWhileLive` and `DrainSettles` hold of
all JobContexts but these, which may lose their entry, so that neither a termination
nor `Drain` finds them. What a job sends to the server is left to `WorkerConn`; JobContext internals, permissions and URLs are left out.

A timer deletes whatever is pending under the job's id, also a later acceptance
that has not had its time: to the promise of `Dispatch` that is a lapse like another.

### WorkerConn

`runAt` is the place of `Run` and `runConn`. `reader`, `writer`, `ticker` and
`connOpen` (whose closing is the fifth goroutine's only task) are the group that
`g.Wait` waits for; `pingLoop` is an action that may occur as long as the group
exists. The queue holds messages: a `status` report, the status of a `job`, or
`bound`, which stands for what belongs to a connection (registration, answers,
pings). `snap` is what a caller of `sendStatus` has read and not yet queued.
`seen` and `seenJob` are the server's side: what it was told last. A write may
succeed, fail, or succeed and be lost with the connection. A job stands for one
run: whether an assignment finds an acceptance is `Worker`'s subject, and a job that
is given out again counts as another one. `finishJob` removes the entry, takes its
own look at the map and sends what it saw in three steps. The backoff is in
seconds; whether an attempt took long enough to reset it is a free choice.

### Cli

`proc` is where `run` is: serving, draining, stopping (the context cancelled, `Run`
waited for), exited by its own return or killed by the goroutine that waits for a
second signal. `sigCh` has room for one signal; what comes when it is full is
dropped. The worker is `WorkerConn`, whose steps go on as long as there is a
process: the first steps of `Drain` are `WorkerConn`'s own, and `DrainReturns` adds
the wait for the jobs, its timeout and the cancellation. With a timeout the process
may exit while cancelled jobs are still cleaning up, as the code does. Left out is
the health server, and with it `healthSrv.Shutdown(context.Background())`, which
after `Run` has returned waits for open requests without a deadline: `SignalsStop`
is about a process without one, or with one that nobody is asking.

### AgentSession

`main` follows `Start` and the call of `generate` it is in, one value per place
where it can be overtaken. `audio` is the turn's audio goroutine and `vad` the
VAD goroutine within `interrupt`: it has read the cancel of turn `held`, has
called it, will clear the buffer. `active` is `activeCancel`, a turn number.
`out` is the set of turns with audio in the output queue. Plugins are external:
their channels are open or closed, they may fail at any time, and they deliver
what they like as long as they are open. The STT channel may also close because
the stream has failed; `Start` returns nil all the same, since it looks at no `Err`.
The end
of the context is seen at the next event, if one comes (`ReturnAtEvent`), or when the
channel closes, which the end of the context brings about (`Return`). Utterances are numbered, so that the
history shows which of them a user message holds. Left out: session events
(dropped when full, read by nobody inside), interim transcripts, chunks and
frames without content, which change no state.

`RequestOrder` looks at the history through `ToContents`, as Gemini does when a
turn begins: instructions apart, blank messages dropped, and a question last.

`endCloses`, chosen in `Init`, tells two TTS plugins apart: one that closes its
channel once it has spoken after `EndInput`, as the session's test assumes, and
one that does not, like Cartesia's.

### RoomSession

`job` is the job's goroutine, from the entrypoint through `Connect`, `Publish`,
the `select` of `RunRoomSession`, `Start` (one step here, `AgentSession` there)
and the deferred `in.Close` to `finishJob`. `subscribed[t]` is the callback of
track `t`: making its `Input`, at `once.Do`, returned. `writing` holds the
tracks whose `WriteSample` has the read lock. `room` is the connection, `roomSet`
the field `c.room` and `taken` the copy `finishJob` makes of it. `late` counts
callbacks added after `finishJob` has taken the list: they are never called.
The entrypoint may connect by itself first (`preconnected`), in the same steps; that
makes `RunRoomSession` lose its callbacks. It may also wait in `WaitForParticipant`
("awaiting"): when the job is shut down it is assumed to return the error, as it is
when it cannot join; after any other outcome it goes on as it likes, and it may
return without a session (`EntrypointReturns`). Samples may come when the room has
been left. Not modelled: several goroutines in `Connect` at once, the output track,
and how many frames a channel holds.

What the model shows without a property of its own: the `Input` of every track
but the session's stays open, since only the one that is received is closed.

### Detector and SileroStream

`Loud` and `Quiet` are the two halves of `step`, for a window of `WindowSize`
samples; `ResetEvents` is what `reset` reports. The reference definition, over
the list of all windows since the last reset, says from which window on speech
is going on (`SpeechFrom`) and how long it is (`Utterance`), without counters.
The stream has the call in progress (one caller), `control`, the goroutine
`run` with its buffer, and `events`. The verdict on a window is a free choice.
`run` may never start: the allocation failed.

### The streams of the plugins

The three streams have one shape, which the code repeats three times and
`PluginStream` states once: calls that `send` under `sendMu`, a reader that turns
messages into items of a bounded channel, and `Close` by the owner and by a watcher
of the context. `plugin` says which one it is. `at[w]` is where the caller and
`keepAlive` are in `send`, `closing[c]` where the owner and the watcher are in
`Close`, whose three steps (flag, `done`, connection) the others may come between.
`conn` is the connection with the service's share in it: open, asked to close,
taking nothing, lost, closed by us; for Gemini it is the iteration over the
responses, which may also come to its end. `items` is the channel, `pending` what
the reader holds of a message, and `due` the history of what the reader of the
channel has still to get.

- `DeepgramStream` adds `keepAlive`, `EndInput`, which asks the server to close, and
  the kinds of messages: of `Results` an interim and a final transcript, each of which
  may also end the speech, and an empty one.
- `CartesiaStream` adds the segments: `segment` and `ctxN` are `ctxID` and `ctxN` of
  the code, and `sent` the history of what the service was told. `Flush` is three
  steps (the id, the message, the reset), because each has a lock of its own.
  `EndInput` only flushes. An error message sets `err` and the stream goes on
  (`failed`). Audio is assumed to come in whole samples.
- `GeminiStream` has neither `send` nor watcher; `Close` cancels the context of `run`,
  which then gives up what it holds.

`StreamContract` knows only whether the channel is open, whether there is an error,
whether somebody asked for the end and whether there is nothing more to come:
when the channel closes, the error is settled, and a stream without one has
been asked to end or is complete (`Safety`); a stream that has been asked does end.

The code as it is: a Deepgram stream that ended normally, after `CloseStream`, has
its `Err` set, because readLoop does not tell the server's close frame from a
failure (it counts as "lost" in `ErrIsReal`); an empty transcript drops the end of
speech that comes with it; keepAlive outlives a lost connection until somebody
closes.

### Frame

`Bytes` and `FromBytes` with the conversions `uint16(s)` and `int16(u)`. `FromBytes`
panics on an odd number of bytes (`FromBytesAccepts`).

## Runs

| Run | Shows |
| --- | --- |
| `worker` | dispatch, whatever the server offers: `RegisteredWhileLive`, `DrainSettles`, `RunsOnce`, `KeepsPromise`; acceptances are resolved (`AcceptanceResolved`) |
| `worker_drain` (violated) | `DrainedIsIdle`: an accepted job can start after `Drain` returned nil |
| `conn` | `AnswersStay`, `JobStatusForward` over two connections; `TypeOK` bounds the queue and the wait between attempts, which one doubling takes past the limit |
| `conn_status` | `StatusConverges`: stale and dropped reports do no lasting harm |
| `cli` | `StaysUp`: the process ends for no reason but a signal; `SignalsStop`: a signal ends it wherever it is, unless the request callback never returns, and one more ends it even then |
| `session` | `TranscriptConserved`, `RequestOrder`, `StateMatches`, `PlayedBeforeNext`, `BargeInStopsText`; a turn that is interrupted, or whose TTS plugin closes, ends (`TurnEnds`); `Start` returns with its context, and with such a plugin at the end of its input (`StartReturns`) |
| `session_late` (violated) | `InterruptedSilent`: audio of an interrupted turn queued after the clearing |
| `session_stale` (violated) | `ClearsOnlyInterrupted`: a late `interrupt` clears the next turn's audio |
| `session_hang` (violated) | `SessionStops` fails with a TTS plugin that does not close |
| `silero` | `DetectorCorrect`, `EverySampleOnce`, `ChangesArrive`; calls and the goroutine return (`NobodyStuck`) |
| `streams` | `DoneClosedOnce`, `ErrIsReal`, `ItemsInOrder`, `SegmentsWhole`; each stream implements `StreamContract` (`KeepsContract`, with its liveness); `CallsReturn`, `HelpersReturn`, `EndInputEnds` |
| `room` | `CleanedUp`, `NoWriteAfterClose`, `CallbacksBeforeLeaving`; `JobEnds`, `OfferedIsHeard` |

Where a module has a type invariant its passing run checks it, once: `conn` for
`conn_status` and for `cli`. `LateOffersDeclined` is proved, and no run checks it.

No run checks for deadlock: a worker without offers, a process that has ended, a
session, a stream or a job that has returned and a queue nobody fills may stop.

### Bounds

- `MCWorker`: three offers, two of them for one job. Two offers of one job are
  needed for stale timers and lost registrations, a second job for `Drain` to
  wait for one while another finishes. Each offer arrives once.
- `MCWorkerConn`: `QueueCap = 2` instead of 64, so that full queues, and queues
  with messages of two senders, are common; `MaxConns = 2`, one reconnect being
  what can mix messages; one job, whose messages meet those of `Drain`, ticker
  and reader. The limit of the wait is 3 in `conn`, which a wait of 2, doubled,
  exceeds, as 16 s doubled exceeds the code's 30 s; it is 1 in `conn_status`, where
  the wait does not matter.
- `MCCli`: one job, which `Drain` waits for or leaves, one connection and a queue of
  one; dials may go on failing for ever.
- `MCAgentSession`: two turns, the second being what a late frame or a stale
  cancel can hit; two utterances, which may fall in one turn or in two, and three
  where a violation is looked for without fairness; two chunks, so that one may
  be too many (one in `session_hang`).
- `MCSileroStream`: windows of two samples, frames of one and of five, so that a
  window may take two frames and a frame may give two windows; thresholds of
  three samples, which no number of windows hits exactly; three frames, so that
  speech can begin, pause and end; queues of two, which are full at once.
- `MCPluginStreams`: a channel of one, and two units of work to be divided between
  calls and messages, besides `EndInput` and the ticks: two messages fill the
  channel, two calls give two segments, one of each meet in the middle.
- `MCRoomSession`: two tracks, for a first and a further one; two callbacks.

### Fairness

- `Worker`: the request callback, shutdown callbacks and timers come to an end,
  `Drain` polls or times out, and an entrypoint returns once its context is
  cancelled. That is the contract of an entrypoint; without it nothing can make
  a goroutine stop. Neither offers nor assignments are fair.
- `WorkerConn`: each goroutine runs; dials, writes and callbacks end.
  `TickerStops` is strongly fair: the `select` of `statusLoop` has the ended
  context ready at every round, the tick only every 2.5 s. `StatusConverges`
  assumes, in the property, a connection that lasts and a writer that keeps up.
- `Cli`: the same for the goroutines that the end depends on, as long as there is a
  process. The request callback is not assumed to return (`SignalsStop` says what
  follows when it does), and nobody has to send a signal.
- `AgentSession`: each goroutine runs, `Start` returning when the STT channel has
  closed (`ReturnAtEvent` is not fair); a reply is finite and played in finite time; a plugin closes its channel when its context ends, STT also after
  `EndInput` (Deepgram asks its server to), TTS only if `endCloses`.
  `FanOutEnds` also assumes that the VAD plugin keeps taking frames,
  which `SileroStream` shows it does while its context lasts.
- `SileroStream`, `PluginStreams`: the goroutines run and the reader reads; nobody
  has to close. `Return` and `KeepAliveReturns` are strongly fair: the end is
  ready at every round of their `select`. `WriteBegins` is: a Go mutex starves
  nobody. Deepgram's server closes when it
  has been asked to, unless it stalls; Cartesia's and Gemini's need never answer.
- `RoomSession`: goroutines and callbacks run, joining and publishing end, `Start`
  returns after its context has ended (`session`). An entrypoint calls
  `RunRoomSession` sooner or later; that it returns before is not fair. `CloseInput` is strongly
  fair: a waiting `Lock` goes before new readers.

## Proofs

`WorkerProofs` proves, for every set of jobs and offers:

- `TypeCorrect`: `TypeOK`.
- `RunsOnceHolds`, `KeepsPromiseHolds`, `LateOffersDeclinedHolds`. They rest on `OfferInv`: an offer is unsent, with
  the read loop, in `pending` under its own job, or started, and never two of
  these at once. `RunsOnce` is not inductive without it: `StartJob` has to find
  its offer unstarted, which is so because taking it out of `pending` was the
  only way to get there. The refinement proof has one step per action; an
  expired timer maps to `Lapse` of whatever it deleted, which is why the promise
  holds in spite of stale timers.
- `RegisteredWhileLiveHolds`, `DrainSettlesHolds`. They rest on `OwnershipInv`, which
  adds `BesideKnown` to the property: of two JobContexts of a job that run at once
  both are in `overlapped`. So when `finishJob` deletes by id, the entry is either
  its own, or that of a JobContext the property exempts. `DrainInv` adds that
  what `Drain` found has been started.

All of these hold for every server: nothing is assumed of what it offers or when.

`WorkerConnProofs`, for any number of jobs and connections, any capacity of the
queue and any limit of the wait: `ConnTypeCorrect`, `AnswersStayHolds`,
`JobStatusForwardHolds`. `GroupInv` adds to the types that the goroutines of a
connection exist only while `runConn` waits for them, and that after the flush
nothing of an old connection is left in the queue or can still be put there;
`AnswersStay` alone says nothing of the moment between the two. `JobOrder` relates
the place a job is at to what of it is queued and what the server was told: a
"running" in the queue is always ahead of the result, and none is left once the
result was sent.

`CliProofs`: `StaysUpHolds`, from `RunInv` (nobody ends `Run`'s context before `Drain`
has returned, and `Run` returns after that only), and with it
`ProcessImplementsConn`: `CliSpec => Spec`, so that the theorems about
`WorkerConn` hold of the worker inside the process.

`AgentSessionProofs`, for any number of utterances, turns and chunks:
`SessionTypeCorrect`, `StateMatchesHolds`, `PlayedBeforeNextHolds`,
`BargeInStopsTextHolds`, `TranscriptConservedHolds`, `RequestOrderHolds`. `AudioInv`
says that the audio goroutine has returned whenever `generate` is past its join or
not yet at `Think`: this is what keeps it from setting the state, or queueing audio,
later. `PlayedInv` says what may still be queued after the wait for playout,
`TextInv` that a chunk about to be pushed is not the second late one.
`HeardInv` is `TranscriptConserved` with a start: nothing is heard before the
instructions are given. `AskedInv` says of every state what `RequestOrder` says of
the beginning of a turn, and that from the question to the place of its answer the
question stays last: without it an answer could follow an answer. Both are about
`FlattenSeq`, a recursive function: that it is the concatenation element by element
(`FlattenAppend`) is proved by induction over its prefixes.

`RoomSessionProofs`, for every set of tracks and the model's two callbacks:
`RoomTypeCorrect`, `CallbacksBeforeLeavingHolds`, `NoWriteAfterCloseHolds`,
`CleanedUpHolds`. The types need `CallbacksInv` and `InputInv` (`finishJob` has taken
no callback before it begins; the input a session has is that of a track whose
callback has returned). `RoomInv` says who knows of a joined room, `Connect`, the
field or `finishJob`, and `CleanedInv` that the session's input stays closed.

`PluginStreamProofs`, for any amount of work and capacity of the channel, and all
three plugins: `StreamTypeCorrect` (`TypeInv` bounds the segments by the calls),
`DoneClosedOnceHolds` from `CloseInv` (of two calls of `Close` one has found the flag
unset), `ErrIsRealHolds` from `ErrInv` (a reader about to report a failure has seen
the connection fail before anybody closed it). `ContractKept` is the safety part of
`KeepsContract`, step by step: it needs `EndInv`, by which a reader that returns has
an error, a request to end or the end of what there is. `ItemsInOrder` is
inductive given `TypeInv` and `CloseInv`. `SegmentsWholeHolds` needs `SegmentInv`:
which id the next message to Cartesia will bear, at every place of `Flush`, whose
three steps may be cut short by the end of the stream.

`SileroProofs`, for every size of window and frame, every threshold and capacity:
`SileroTypeCorrect`, `EverySampleOnceHolds`, `ChangesArriveHolds` and
`DetectorCorrectHolds`. `ChangesArrive` is inductive: every report extends what is on
its way by the change the detector has made, every reception takes it from the
front. `DetectorCorrect` is not: `DetInv` says what the counters count, the loud run
at the end while there is no speech, the quiet one while there is, and that the
utterance began with the first window from which there is speech. A loud window
can only add such windows after that one (`LoudWindow`, `SameFirst`), a quiet one
keeps or removes them all (`QuietEnds`).

`FrameProofs`, for frames of any length: `FramesSurvive` (a frame turned into bytes
is accepted by `FromBytes` and comes back unchanged) and `BytesSurvive`.

The assumptions are the named `ASSUME`s of the modules: `JobOf` maps offers to
jobs, `NoOffer` is no offer; the set of jobs is finite
(`JobsAssumption`, for their number to be one); bounds are natural numbers,
capacities, the size of a window and the limit of the wait positive ones.

Induction over data is done where it is needed by taking the least number that a
statement fails for (`LeastNumber`, from the library's theorem that the numbers are
well founded), since its induction theorems cannot be instantiated here.

Only model-checked: liveness, which with `ENABLED` is out of the prover's reach, and
so the liveness part of `KeepsContract`; and of course what fails. Every invariant
and every action property that a run checks is proved.

## Not modelled, and the plan

Left: `RoomSession` with a second goroutine in `Connect`, should the SDK get a caller of
that kind; `Conversation`, an abstract specification of a session's turns that
`AgentSession` implements; panics (of the request callback, of an entrypoint, of
shutdown callbacks, which nothing recovers) with the process in `Cli`.

To stay out: configuration and its defaults, logging, the health endpoint, the
translation of tools and JSON schemas (stateless data conversion), durations of
frames (no caller in the library), ONNX inference and the destruction of its
session, the LiveKit and media SDKs, the session's events (a channel that drops
when full and is never closed), and the examples.
