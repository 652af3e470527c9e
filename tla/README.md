# Formal models of Minutes

Minutes is Signal Desktop with a recorder of calls, transcription, summaries
and an automation server built in. This directory models the code that
Minutes adds, not Signal: the state machines of the recording path, of the
files it writes, of the automation server and of what it downloads, in TLA+, with TLC
configurations that check them on small instances and proofs that TLAPS checks
for every value of the constants.

Paths below are relative to `src/`; `ts/…` means `src/ts/minutes/…` unless it is
written out. `PROJECT.json` maps every definition to the lines it models, and
lists the runs, the mutants that show that each property can fail, the
hazards and the findings.

Contents: [1 the system](#1-the-system) · [2 what is hard](#2-what-is-hard-in-it) ·
[3 the modules](#3-the-modules-and-the-code) · [4 runs](#4-what-the-runs-check) ·
[5 fairness](#5-fairness) · [6 proofs](#6-what-is-proved) ·
[7 findings](#7-where-the-code-and-its-documents-disagree) ·
[8 not modelled](#8-what-is-not-modelled) · [9 plan](#9-plan) ·
[10 how to run it](#10-running-it)

## 1. The system

There are two processes. The **page** (renderer) owns the call, the audio graph and
the user interface; the **main process** owns the files, the models and the
servers. They talk by IPC messages; a page may be reloaded or destroyed while
the main process goes on.

```
 page                                         main process
 ────                                         ────────────
 callCaptureService ── call ended ─┐
   ├─ CallRecordingServiceCore ────┤ lease
   │     └─ CallRecorder ── append ┼──IPC──▶ CallRecordingFileWriter ─▶ files
   ├─ VideoRecordingServiceCore ───┘ lease           ▲      recovery, reaper
   │     └─ compositor, PCM tap ──IPC──▶ VideoRecordingFileWriter     │
   └─ MinutesCaptureCoordinator (one lock)                            ▼
 TranscriptionQueueService ────IPC──▶ transcribe / summarise ─▶ artifacts
 AutomationRendererHandler ◀──IPC──▶ AutomationRendererBridge ◀─┐
                                      AutomationJobRegistry  ◀──┤ MCP server
                                      WebhookDispatcher/Outbox ─┴▶ endpoints
 settings panels ──────────────IPC──▶ AutomationRuntime ── starts, stops ─▶ MCP server
 local model panel ────────────IPC──▶ installLocalLlmExtension ─┬─ downloadHttpsFile ─▶ files
 version footer ───────────────IPC──▶ appUpdate ────────────────┘
 summaries ────────────────────IPC──▶ LocalLlmModelScheduler (one model in memory)
```

| component | state it keeps | operations | talks to |
|---|---|---|---|
| Capture coordinator `captureCoordinator.std.ts` | `#state`, `#activeCapture`, its finalize promise | `acquire`, and `pause`, `resume`, `release`, `finalize` of a lease | shared by both recording services |
| Audio recording service `callRecordingServiceCore.std.ts` | state, lease, writer session, audio track, pending error, finalization promise | start, pause, resume, stop, `onCallEnded`, two error callbacks | coordinator, CallRecorder, RingRTC tap, file writer, transcription |
| Video recording service `videoRecordingServiceCore.std.ts` and its wrapper | state, lease, session, two write queues, recorder, track, compositor, termination promise, pending call ends | start, pause, resume, stop, `onCallEnded`, chunk, PCM, fatal error | the same |
| Call recorder `callRecorder.dom.ts` | a state object that is replaced by copies, its write queue, drain, stop promise | start, pause, resume, stop, worklet messages | worklet, file writer |
| Recording files `app/minutes_call_recording_channel.main.ts`, `app/minutes_video_recording_channel.main.ts`, `recordingPartialFiles.node.ts` | sessions with handles and write chains; aborted sessions; files on disk | create, append, finalize, abort, cleanup of an owner, recovery (audio only), reaper | disk |
| Webhook delivery `automation/webhookOutbox.std.ts`, `webhookDispatcher.node.ts` | entries, dirty flag, encrypted file, settings file | enqueue, flush, add, drop, persist, delivery result | disk, HTTP endpoints |
| Automation requests `automation/automationRendererBridge.node.ts`, `automationRendererHandler.std.ts` | pending requests and timers; cache of idempotency keys | request, response, timeout, reload, destroy | each other by IPC, Signal's message queue |
| Job registry `automation/jobRegistry.std.ts` | jobs, queue, number running, completions | enqueue, drain, finish, prune, wait | transcribe / summarise |
| MCP server `automation/automationRuntime.main.ts`, `serializedAsyncRunner.std.ts`, `mcpHttpServer.node.ts` | settings file, page ready, runner chain, the current server, its sessions and requests | save, regenerate the token, page ready, reconcile, quit; HTTP requests | disk, sockets, job registry |
| Local language model `localLlmExtension.main.ts`, `localLlmInference.main.ts` | model files, settings file, abort controller; scheduler chain, loaded model | install, re-install, cancel, save, generate | downloads, node-llama-cpp |
| Application update `appUpdate.main.ts`, `appUpdateService.preload.ts` | installers and their metadata, active download; the state the page shows | check, download, install | downloads, GitHub, the system's installer |
| Transcription queue `transcriptionQueueService.preload.ts` | jobs, paused, processing, active job | enqueue, process, pause, resume, cancel, retry, remove, clear | main process by IPC |
| Transcription and summary `callSummaryExtension.main.ts`, `transcriptionCancel.main.ts`, `recordingFiles.main.ts` | cancelled job ids; artifacts on disk | transcribe, summarise, cancel, delete | disk, models |

What makes each of them correct:

* **Coordinator** - one capture at a time; a stale lease has no effect; a capture that
  is being finalized keeps the lock until its promise settles.
* **Recording services** - the one RingRTC tap never serves two users; whatever fails, a start
  gives the lock and the sessions back; nothing is finalized before its
  last write; a recording ends with its call.
* **Call recorder** - appends are serialized, the queue is bounded, and `stop()`
  returns after the last of them or throws.
* **Recording files** - recorded sound survives every crash and failure under one of its names; what is
  published is complete; an interrupted recording is published at the next
  start, exactly once, and never while its session is alive.
* **Webhook delivery** - the outbox holds what is to be delivered; it is on disk
  before it is sent; what was accepted is not sent again; all is delivered in the end.
* **Automation requests** - one message per idempotency key, a true answer for each request,
  no request without an answer.
* **Job registry** - at most so many tasks at once, no place idle while a job waits,
  unfinished jobs are never forgotten, waiters are told.
* **MCP server** - at most one lives, it is the one the settings ask for when all is quiet,
  a revoked token opens nothing, and none is left behind by the end of the application.
* **Local model** - one model in memory, a prompt on the model that was asked for, nothing half
  downloaded after a cancellation, no failure that stops the chain.
* **Update** - only a whole installer of a newer version is started.
* **Queue and operations** - no stall, no stale cancellation, one writer of a recording's artifacts,
  what is shown as completed is on disk, what is deleted stays deleted.

## 2. What is hard in it

Almost every method is `async` and keeps state across its awaits. A unit test
resolves its promises in the order its author thought of; the properties here
are about the other orders:

* **await interleavings** - a call ends, an error arrives, the user presses stop,
  or the other recorder starts, between any two awaits of a start or a termination;
* **copied state** - `CallRecorder` replaces its state object while a drain keeps the old one;
* **crashes** - between three renames that together publish a recording; between an
  outbox in memory and its file; a page that is reloaded while the main process works for it;
* **partial failure** - any step of a start, of a finalization, and of the rollback of a finalization;
* **overlapping writers** - two recovery passes, two flush timers, two saves of one
  file, two ways to transcribe one recording, two downloads to one path;
* **reconfiguration** - a server that is restarted while requests are under way and
  settings change again; a model that is replaced while prompts wait for it;
* **late messages** - a cancellation after the end of what it cancels, a response after its
  timeout, a retry after its key is forgotten;
* **limits** - write queues, the outbox, the key cache and the job registry when they are full.

`PROJECT.json` lists them one by one under `hazards`, each at its line and
with the properties that would notice it going wrong.

## 3. The modules and the code

```
ExclusiveCapture (abstract)  ◀─ implements ─ CaptureCoordinator
                                                    ▲ extends
                                            CaptureEnvironment
                                             ▲             ▲
                              AudioRecordingService   VideoRecordingService
                                             ▲             ▲
                                             CallCapture (both, one window)
RecorderContract (abstract)  ◀─ implements ─ CallRecorder

RecordingFilesEnvironment
   ▲ extends            ▲
RecordingFileWriter   VideoRecordingFileWriter
   ▲                    ▲
RecordingFiles (both channels, one process, one window)

SerialExecutor (abstract)  ◀─ implements ─ AutomationServer     JobRegistry
                                              ▲                  ▲      ▲
                                              AutomationRuntime         │ instance
                  RecordingJobs ────────────────────────────────────────┘
                     └─ extends ▶ TranscriptionQueue ─ extends ▶ TranscriptionOps
                                          └─ extends ─┐
WebhookDelivery ───────────────────────── extends ─▶ ArrayFilter
AutomationRequests ────────────────────── extends ────┘

FileDownloads ◀─ extends ─ LocalModel ◀─ extends ─ Downloads
      ▲─────── extends ─── AppUpdate  ◀─ extends ─────┘
```

The theorems about a module `M` and their proofs are in `M_proofs`, which extends it; those about the coordinator are
in `CallCapture_proofs`, those about `AutomationServer`, `AutomationRequests` and `AutomationRuntime` in `Automation_proofs`, and those about
`RecordingFiles` and `CallRecorder` in `Recording_proofs`. Section 6
says which there are.

The step of every model is a **turn of the event loop**: the code from one
`await`, event or message to the next is one action, with everything it calls
synchronously. A method with awaits is a record with a field `step` (or `phase`)
that names the await it stands at; each await is one action per outcome.
Failures of the environment are not separate models: a variable that `Init`
chooses and no step changes (`faults` in the capture modules, `scenario` elsewhere) says
which of them may happen in this behaviour, and how much of what. The constants
`FaultSets` and `Scenarios` list the choices, so that one run covers
behaviours with and without a failure, and a property that needs its absence says so
(`faults \subseteq UndoneFaults => ...`). Beside a definition that carries a property
stands a *seeded fault*: the same definition with a plausible bug. No
specification uses them; they are the mutants of `PROJECT.json`.

### Capture

`CaptureCoordinator` - `state`, `activeCapture` and `finalizePromise` are the private
fields; a lease value is the `Symbol` made by `acquire()`. `Acquire`, `Pause`, `Resume`,
`Release`, `Finalize`, `CompleteFinalization` are the closures of `acquire()`
(captureCoordinator.std.ts). The operations may be called on any lease at any
time, also on one long given back. `ExclusiveCapture` is the lock itself: a holder,
whether it is closing, and who has ended.

`AudioRecordingService` - one record `audio` with the fields of
`CallRecordingServiceCore`; `audio.start.step` is the await of `startRecording()`,
`audio.stop.step` that of `#finalizeRecording()`. The recorder is seen through
its interface (`RecorderContract`). `VideoRecordingService` - the same for
`VideoRecordingServiceCore` and the wrapper `videoRecordingService.preload.ts`,
with the two write queues (`video.pending`) and the termination.
`CallCapture` puts both side by side, adds the broadcast of a call end
(`callCaptureService`). That together they use the coordinator only as `CaptureCoordinator`
allows follows from how their actions are written; it is a lemma of the proofs.

`CallRecorder` - `objects` are the copies of the state object, `current` the one
`#state` refers to, `arrays` the write queues they share, `drains` the loops of
`#drainWrites` with their promises, `completion` the handler of the worklet's
"complete". `RecorderContract` is what `AudioRecordingService` assumes of it, and
`ImplementsContract` ties the two modules together. Two
branches are unreachable and not modelled: `#waitForPendingWrites()` never finds a newer
drain to wait for, as only the flush of the chunker is queued after "complete", and a drain
never ends with writes in its own queue.

Left out of these: calls of modes that cannot be recorded (the guards return early),
speaker activity, titles, levels and encoding. The two awaits of the recovery of a stale
recorder are one step. `finalizeActive()` is called by no code. The late
errors of video drains that outlive a failed start or termination are not modelled: a queue
belongs to one recording here.

### Recording files

`RecordingFilesEnvironment` - `files[r]` is the set of names (kind, final or partial) of
recording `r` on disk; `window`, `running` and the reaper of old partial files.

`RecordingFileWriter`, the audio channel - `sessions` is `#sessions`; `writer[r]` holds
what `create`, `append`, `finalize` (with each rename and each step of its rollback) and
`abort` stand at; `pass[p]` is one run of `recoverInterruptedCallRecordings()`.
`VideoRecordingFileWriter`, the video channel - `videoSessions`, and `video[v]` with the same
calls, `#abortedSessions` (`remembered`) and the answer of an abort the renderer asks for (`told`).
A video has four files and no recovery.

`RecordingFiles` puts both into one process. `Crash`, `StartApp`, `DestroyWindow`, `OpenWindow`
and `Reap` may come between any two steps. Contents of the files are left out, file names contain a
timestamp and are not used twice; so are a page that is reloaded (which is not
"destroyed") and the limit of remembered aborts, which no behaviour here reaches. The branch of
the audio rollback that undoes the rename of the MP3 is unreachable, as the MP3 is renamed last.

### Automation server

`WebhookDelivery` - `entries` and `dirty` are the fields of `WebhookOutbox`, `file` what
is on disk, `writes` the overlapping `persist()` calls, `emit[e]` the await of
`enqueue()` for an event, `flush[f]` that of `flushDue()` called by a timer,
`settings` the part of the settings file that decides who is sent what, `user` a
save by the user. `fate` is a history variable. The delay until a retry is
the action `Elapse`.

`AutomationRequests` - `pending` and `answer` are the bridge, `capability` (what runs for a request), `awaits` and `cache`
the handler with `idempotentSendRequests` (oldest first), `toRenderer` and `toMain` the
messages on their way, `sent` what Signal has queued. A reload empties the page's
half only. The capability is `sendMessage`, the only one with a key: it queues the message
(`Queues`), returns (`Returns`) or throws (`Throws`), and may throw after it has queued or return without.

`AutomationServer` - a *call* is what ends in `reconcile()`: the handlers that save the settings or
regenerate the token, and the page's message that it is ready; `call[c].step` is the await it stands at.
`chain` and `closed` are the `SerializedAsyncRunner`, `current` is `#server`, `server[c]` the server
the task of call `c` has made, `request[r]` an HTTP request or an event stream under way. `writer[w]` is a webhook
operation that has read the same file and will write it back, `lost` a history variable: whether such a copy
has undone a change of the settings, and whether a reconciliation has read the file since. `SerialExecutor` is what the runner
promises. The settings that do not matter here (tools, hosts) take the way of the port.

`JobRegistry` - `status`, `queue`, `running` are the fields of the same names,
`enqueued` is the iteration order of the Map, `forgotten` what was pruned and `waiting`
the callers of `waitFor()`. `#drain()` is a loop without awaits; the model states what
it does in closed form (`Starts`, `Drain`). `AutomationRuntime` puts the registry beside the server:
a tool hands in a job and answers with its id; the registry outlives every server.

### Transcription

`TranscriptionOps` - `op[o]` is one run of `transcribeCallRecording()` or
`generateCallRecordingSummary()`: a phase is an await together with those that
follow it with nothing but checks in between. `cancelledJobIds` is the set of
`transcriptionCancel.main.ts`; `files` the artifacts of each recording, its sound and the recording itself
among them; `removing[f]` is the `rm()` at which `deleteCallRecording()` stands. A
failed AI correction is swallowed as in the code.
`TranscriptionQueue` - the fields of `TranscriptionQueueService` and the two kinds of
messages to the main process. The user's operations have the guards the panel has
(a cancel button that is disabled once pressed; the bin of a row that is always
enabled). Electron wraps error messages, so the class of a cancellation is lost on the way
and `cancelRequested` decides, as in the model. `RecordingJobs` adds the job registry, whose
tasks run the same operations on the same files. `ArrayFilter` is `Array.prototype.filter`.

### Downloads

`FileDownloads` - `downloadHttpsFile()` writes in place: `file[p]` is how much of a file is there
(nothing, less than its user asks for, enough, all), who writes to it and who has truncated it last. An
`unlink()` may fail (`Removed`), as every caller ignores it, and a peer may stall. Two
streams on one file are modelled as what they do: the older one goes on at its own place.

`LocalModel` - `install[i]` is a run of `installLocalLlmExtension()`, `abort` the run
`activeDownloadAbort` belongs to, `save` one of `saveLocalLlmContextSize()`, `generation[g]` a
summary, `settings` the settings file, which a reader may find cut off while it is written. `waiting`,
`active`, `phase`, `loaded` are `LocalLlmModelScheduler` with its promise chain; `inMemory`
counts the models nobody has disposed of, one that was loaded in vain (`LoadFails`) among them. The panel offers one thing at a time, as its `isBusy`
does, until it is closed and opened again (the fault "reopen").

`AppUpdate` - `pending` is the metadata file, `download[d]` a run of `downloadAppUpdate()`,
`startup` and `launch` one of `resolveStartupAppUpdateState()` and of `installPendingAppUpdate()`,
`ui` what the page shows. Versions are numbers; `installed` changes when a whole installer was launched.

`Downloads` puts both into one process that may end at any time, after the launch of an
installer too: what was being downloaded stays cut off, metadata and settings may be.

## 4. What the runs check

Bounds are constants of the configurations; *scenarios* are the choices of `Init` described above.

| run | properties | bounds, and why they are enough |
|---|---|---|
| `capture_faults` | `CaptureInv`, `CoordinatorInv`, `LockIsKept`, `FinalizedAfterLastWrite`, `PublishesOpenSession`, refinement of `ExclusiveCapture` | 3 captures (a recording, one that overlaps its end, a third), 1 conversation, write queues of length 1, every fault. A queue of 1 is "full" and "empty" one step apart. |
| `capture_ends` | `NoSessionLeft`, `FinishedVideoIsTranscribed`, `RecordingsEnd` | 2 captures and 2 conversations (a call end may be about the other call); every fault, or only those after which the services undo all they did, as `NoSessionLeft` says. |
| `call_recorder` | `RecorderInv`, `StopAnswered`, refinement of `RecorderContract` | 4 blocks, queue of 2, 3 copies of the state: a drain may be two copies behind, and the queue can fill up behind it. |
| `recording_files` | `WriterInv`, `PublishedIsComplete`, `RecordedIsKept`, `FinalizeIsAtomic`, `InterruptedIsRecovered` | 2 recovery passes, 1 crash, 2 queued appends. Recordings share no files: the scenarios with failures have 1 recording or 1 video, those without have 2 recordings, as a pass loops over them, or a recording beside a video. |
| `webhooks` | `OutboxInv`, `SettledIsDurable`, `QueuedIsDelivered` | 2 events, 2 timers, a crash, a change of the settings; 1 place in the outbox with failing and reordered writes, so that it overflows, or 2 places without. |
| `requests` | `RequestsInv`, `SentOncePerKey`, `AnswersAreTrue`, `RequestsAreAnswered` | 3 requests, cache of 1; with one key, two contents and failures, before and after the message is queued, or with two keys (one is evicted while in progress), a reload, expiry and a destroyed window. |
| `automation_runtime` | `ServerInv`, `SettledServerFits`, `RevokedTokenIsDead`, `RegistryInv`, `RegistryKeepsOrder`, refinement of `SerialExecutor` (`ImplementsExecutor`), `WorkEnds` | 3 calls (one running, one chained, one more) with overlapping handlers and the end of the application, with a request, with a webhook operation, or with every failure and a port in use; 2 calls with 2 requests; 4 jobs, 2 places, 2 retained, so that the queue, the places and the retained jobs are all exceeded. |
| `queue` | `QueueInv`, `CancelsTheRightRun`, `OneWriterPerRecording`, `CompletedIsSaved`, `DeletedStaysDeleted` | 3 jobs of one recording; 2 jobs of 2 recordings; 2 jobs of one with a deletion; 2 jobs beside 2 tasks of the registry; or one of each with a deletion whose `rm()` may fail; 2 messages under way at a time. |
| `queue_liveness` | `QueuedIsProcessed` | 3 jobs with failures, so that two may be retried in turn before a third, or 2 jobs with a reload; 1 message under way when something is cancelled. |
| `downloads` | `DownloadsInv`, `LaunchedIsComplete`, `DownloadsEnd` | 2 installations, 2 summaries, 2 models, 1 change of the settings; 2 downloads of 2 versions, 2 restarts, 1 reload, on Windows and macOS; and one of each side with a restart. A second installation or download is what overlaps, repeats or overtakes the first. |

Each module's consistency is one invariant with named parts, the type among them, and
properties about one question are one property:

| property | parts besides the type |
|---|---|
| `CoordinatorInv` | `StateMatchesCapture`, `FinalizingHoldsLock`, `PromisesFollowLeases` |
| `CaptureInv` | `PausesAgree` |
| `LockIsKept` | `OneTapUser`, `LockHasOwner` |
| `RecordingsEnd` | `FinalizationEnds`, `VideoStopsWithCall`, `AudioHearsEndOfCall` |
| `RecorderInv` | `OneAppendAtATime`, `QueueBounded`, `NoAppendAfterStop`, `UnpausedIsComplete` |
| `WriterInv` | handles have an owner, in both channels; a repeated abort of a video still finds its file |
| `PublishedIsComplete` | that of audio, that of video, `PublishedOnce` |
| `OutboxInv` | `OutboxHoldsQueued`, `AcceptedOnce` |
| `RequestsInv` | `WaitersHaveCalls` |
| `ServerInv` | `OneServer`, `NoServerIsLost`, `NothingAfterQuit` |
| `RegistryInv` | `RunningIsBounded`, `NobodyWaitsForAFreePlace`, the queue names no job twice, `UnfinishedAreRetained`, `WaitersAreTold` |
| `RegistryKeepsOrder` | `StartsInOrder`, `IdleIsBounded` |
| `WorkEnds` | `CallsAreAnswered`, `JobsEnd` |
| `QueueInv` | `QueueNeverStalls`, `TwoAtMost` |
| `CancelsTheRightRun` | `NoStaleCancel`, `CancelledIsQuiet` |
| `DownloadsInv` | `OneModelInMemory`, `PromptsFit`, `CancelledLeavesNothing` |

The types carry the resource limits: the write queues, the outbox and the key cache never exceed theirs.

Two more runs, `call_recorder_lost_audio` and `webhook_settings`, end with a
counterexample: section 7.

Some properties hold under a condition, and the condition is a statement about the code:

* `NoSessionLeft` - for the faults in `UndoneFaults`. After the others (a tap or a
  recorder that throws while it is stopped) the session stays open.
* `PublishedIsComplete`, `FinalizeIsAtomic`, for audio - not when a recovery pass works on the
  files of a live session *and* an operation of its `finalize()` fails; for video without a condition
  but that a rollback may not fail as well.
* `RecordedIsKept` - as long as nothing is older than the reaper's limit.
* `InterruptedIsRecovered` - for a crash before `finalize()`, whose own renames are not
  resumed, when no operation of the pass fails and the reaper was not faster, and as long as windows do not overlap,
  so that neither two passes nor a pass and a session it does not know work on one recording.
* `SettledIsDurable` - when writes succeed and land in the order they were made.
* `SentOncePerKey` - while the page that took the key lives and remembers it, and but for a call that fails
  after it has queued its message: the key is forgotten, and a retry sends another.
* `AnswersAreTrue` - "ok" is true but for a conversation that takes no message and says nothing, "error" but
  for such a late failure.
* `QueuedIsProcessed` - but for a job that is starved by retries, repeated for ever, of jobs ahead of it.
* `DeletedStaysDeleted` - when every `rm()` succeeds, and from the moment at which the deletion has ended and no
  operation has the sound or the transcript in hand; one that has writes its artifacts.
* `OneWriterPerRecording`, `TwoAtMost` - for the jobs of one page that is not reloaded.
* `UnpausedIsComplete` - for a recording that was not paused.
* `RecordingsEnd` - an audio recording that is still starting misses the end of its call.
* `RevokedTokenIsDead` - while the handlers of the settings do not overlap, which may restore the
  old token, until a webhook operation has written back a copy it read before, which may do the same, and
  while the runtime is not closed, which reconciles no more.
* `SettledServerFits` - when no handler has failed after it wrote the file, and not between a webhook
  operation that writes an older copy back and the next reconciliation.
* `OneModelInMemory` - when models can be disposed of (the error is logged and the next one is loaded) and
  the context of a loaded model can be made (nothing disposes of the model if not).
* `PromptsFit`, `CancelledLeavesNothing` - the freshness of the model, and that nothing is left, as long
  as installations do not overlap; that nothing is left, when the file can be removed.
* `LaunchedIsComplete` - not after a reload of the page during a download, a release that was withdrawn and
  came back, an installer something else has deleted, or a directory that could not be made.
* `DownloadsEnd` - where a peer may stall, whatever does not wait for it: summaries, the scheduler, changes of the
  settings, and a download that is cancelled.

Symmetry is used in the run `queue` only, over the jobs and over the tasks, which the
specification does not tell apart; no run with a liveness property uses it. `queue_liveness` takes the names of
the jobs in order instead (`NamesInOrder`).
`CHECK_DEADLOCK FALSE` stands in `AutomationRuntime.cfg` and `Downloads.cfg`, whose finite numbers of
calls, jobs, installations and downloads are used up in the end; that what is under way ends is
then a liveness property. `RecordingFiles`, `CallCapture` and `AutomationRequests` have
an explicit action `Rest`, enabled when nothing is left to do, so that a
system that is stuck in the middle is a deadlock TLC reports; in the others an
operation on a stale lease, a timer or the user can always act.

## 5. Fairness

| specification | assumed | why the code justifies it |
|---|---|---|
| `CallCapture` | the awaited calls of each service, and each write queue, go on | every IPC call and every call into the tap returns or throws; **`recorder.stop()` has no timeout**, so that the worklet answers is an assumption (listed as a hazard) |
| `CallRecorder` | appends are answered; the worklet completes | the same |
| `WebhookDelivery` | each timer fires, writes end, `fetch()` ends, delays go by; an endpoint asked infinitely often accepts once (strong fairness) | `flushDue()` is called every 30 seconds, `fetch()` has a timeout; an endpoint that never accepts is retried for ever, by design |
| `AutomationRequests` | only the timer of the bridge | nothing is assumed of the page, of IPC or of the call |
| `AutomationRuntime` | the task of the runner goes on; a settings handler goes on; requests and tools end, an event stream when its server stops; tasks of the registry end | the file system and sockets answer, Node ends a request whose body does not come (`requestTimeout`); a task is bounded work or an HTTP request with a timeout |
| `Downloads` | something of what is under way goes on, on each side; what waits for the network only in behaviours without the fault "stall" (`NetworkAnswers`) | the disk answers or fails, models load or fail, prompts are bounded by `maxTokens`. **The downloads and the check of the release have no timeout** (`ts/httpsDownload.main.ts:62`, `ts/appUpdate.main.ts:86`): nothing is assumed of a peer that stalls |
| `RecordingJobs` (`LiveSpec`) | messages arrive, answers are delivered, operations of the queue end | IPC; the same |

No fairness is assumed of a user's operation, of a retry, or of a failure. The other
specifications have safety properties only and assume none.

## 6. What is proved

TLAPS checks these for **every** value of the constants that the named assumptions
allow. The assumptions say what the code ensures (an id is new, a limit is at least one, `undefined`
is not a lease, two kinds of names differ) and what form the scenarios have; TLC evaluates each of them on the
instances of section 4. `PROJECT.json` lists the theorems one by one, with the properties of the runs they state.

Each proof has the same three parts: the initial states satisfy the inductive invariant, every action
preserves it (one lemma per action or per part of the code that several actions share, one step per conjunct the
action can disturb), and it implies the property. Where an invariant is more than the property, this is
what had to be added and why:

| module | from | the argument |
|---|---|---|
| `CallCapture_proofs` (the coordinator) | `LeaseAssumption` | `CoordinatorInv` is inductive as it stands. `FinalizingHoldsLock` alone is not: that the settling of a promise frees the lock of the right capture needs the agreement of state, capture and promise, and that a fresh lease has no promise yet needs `PromisesFollowLeases`. |
| `CallCapture_proofs` (the services) | `LeaseAssumption`, `EnvironmentAssumption`, `MaxQueuedAssumption` | *Ownership*. A lease is acquired for one mode, so a busy audio service and a busy video service would both have to be the active capture. For each service the invariant says what it **holds** (lease and session at each await), what **runs** (tap, recorder, track, compositor, microphone), what is being **written**, and how its sessions **close**. A step of one service either finds the other at rest or leaves its lock, state and sessions alone (`LockOf`, `FilesOf`); only then do the facts about one service survive the steps of the other. That a termination knows whose recording it hands on needs that a video names its conversation as long as it records (`VideoNames`). |
| `Recording_proofs` (the recorder) | `RecorderAssumption` | `RecorderInv` speaks of the current object only. That no drain runs while that object names none holds because the drain of an older object is named by every copy made since (`DrainIsCopied`); the bounds of the queue need `queuedBytes` related to what waits in the array (`QueueIsCounted`, `CountsAreBounded`), which an older copy may count below zero; completeness needs that the first object is exact. |
| `Recording_proofs` (the files) | `FilesAssumption`, `VideosAssumption` | The invariant says, at every await of `create()`, `finalize()`, its rollback and a recovery pass, which file a recording has under which name. Only one of them renames the PCM, and nobody once the MP3 has its final name (`PcmInv`); the metadata is removed only where the MP3 can no longer be published (`JsonInv`); without overlapping windows a pass and the calls of a session do not meet (`ApartInv`). The video channel is simpler: its files are renamed by `finalize()` alone. `VideosAssumption` is the limit of remembered aborts: no more videos than `MAX_REMEMBERED_ABORTS`, beyond which the code forgets them. |
| `Automation_proofs` (the server) | `ServerAssumption` | That `TokenLoaded()` finds no server alive is known only from where the running task is, and that a task runs alone only from what the chain of the runner holds (`TaskInv`). `FitsInv` and `RevokedInv` say of each task in the chain, and of each step of the running one, what it still has to learn from the settings file; the copies that webhook operations hold are known only as long as none has been written back over a change. |
| `Automation_proofs` (the requests) | `RequestsAssumption` (a limit of at least one, no key is `undefined`), `ScenarioAssumption` | `SentOncePerKey` compares two messages that are sent; why there is no second one is known only while there is one. `OnceInv` says that every call whose key may be used again is in the cache, unless an entry expired or there is no room for all keys: then `Evicted` drops nothing, by an injection from the entries into the keys in use (`RoomForKey`). `CacheInv` says that an entry stands for what was asked by a call that has not failed, and that its key is there once; `CallsInv` that whoever waits has the key and the content of the call; `ToldInv` is `AnswersAreTrue` extended to the answers on their way; `ComingInv` that a request has left no trace before it is handled. |
| `WebhookDelivery_proofs` | `WebhookAssumption` (endpoints are finitely many, an event is not a timer, limits) | `OutboxInv` speaks of the outbox, of which `enqueue()`, `flushDue()` and the writer of the file hold older copies across their awaits. What an `enqueue()` has still to add is nowhere yet (`Unheard`); what a flush has still to send are deliveries it has taken from the outbox, each once and none accepted, and only one flush sends (`Sends`); the file and every list on its way to it are within the limit and name known deliveries only (`Stored`). `SettledIsDurable` needs which write is the latest and that it carries the outbox of its time. |
| `JobRegistry_proofs` | `LimitsAssumption` (the checks of the constructor), `JobsAssumption` (finitely many jobs) | `running = Cardinality(RunningJobs)` survives `#drain()` only because the queue names each job once: as many jobs start as are counted, by a bijection between the first positions of the queue and the jobs at them (`StartedCardinality`). `DrainEstablishes` states what `#drain()` makes of any consistent state and serves both `enqueue()` and the end of a task. The order of the starts needs that the queue is a final part of the order of the Map (`OrderInv`). |
| `RecordingJobs_proofs` | `ScenarioAssumption`, `OpsAssumption`, `NoJobAssumption`, `RegistryAssumption` | *One job at a time*. `Fit` relates what the page shows of a job, its operation in the main process, a message to run it and a cancellation on its way; every step changes these for one or two jobs. `#processNext()`, at the end of most handlers, is one lemma (`NextJob`) about any queue that fits. `SavedInv` follows the artifact from the phase that writes it to the job that shows it. That a deleted recording stays deleted needs that its sound is the last to be removed and nothing writes it (`SoundIsGone`). The registry's part is `JobRegistry_proofs` itself, taken by `INSTANCE` with the tasks for its jobs; that every step is one of the registry or leaves it alone makes the rest of what is proved there hold of the tasks. |
| `Downloads_proofs` (the model) | `ModelAssumption`, `DownloadsAssumption` | The phase of the operation that runs says what is in memory (`PhasesFit`), and the queue of the scheduler holds each operation that is awaited once (`OperationsAreAwaited`). `PromptsFit` compares what is in memory with what is installed now; as installations are numbered, what a summary has read, what is loaded and what is there as a file are compared by number (`LoadedIsCurrent`, `SinceLasts`). `CancelledLeavesNothing` needs that a stream writes to the file its installation has opened last (`WritersHaveOpened`), and that a model which is not whole belongs to an installation that will see to it, unless one has failed (`NothingIsHalf`). |
| `Downloads_proofs` (the update) | `ModelAssumption`, `DownloadsAssumption` (models and installers are different files) | `LaunchedIsComplete` relates three steps of three handlers that know one another from files only. What the page shows tells what goes on (`PageKnows`), so that no check and no download overlaps another; an installer whose metadata is there is whole, or is gone and older than any version still to be asked for (`RecordIsWhole`); and what a check, a download or a launch has read on its way is still so (`CheckIsFit`, `CheckIsTrue`, `DownloadIsWhole`, `ReadyIsWhole`). The page has to remember what it shows, a release has to stay and nobody else to delete files: these are the conditions of the property. |
| `ArrayFilter_proofs` | - | Lemmas that the other proofs rest on: `filter()` returns the elements at the chosen indices, each once and in their order. The n-th chosen index is the one of rank n; that there is exactly one is a bijection again. |

The theorems:

* `CallCapture_proofs` - of the coordinator: `CoordinatorInvariant`, `FinalizingAlwaysHoldsLock`, and `CoordinatorImplementsLock`, the refinement of
  `ExclusiveCapture`: `Acquire` is `Grant`, `Release` is `Drop`, `Finalize` is `BeginClose`, the settling of the
  promise is `EndClose`; all else is a stutter.
* `CallCapture_proofs` - of the services: `CaptureInvariant`, `LockIsAlwaysKept`, `AlwaysFinalizedAfterLastWrite`, `NoSessionIsLeft`,
  `FinishedVideoIsAlwaysTranscribed`, the action properties `AlwaysPublishesOpenSession` and
  `AudioAlwaysHearsEndOfCall`, and the refinement `CaptureImplementsLock`, from the lemma that each
  step of the two services is an operation of the coordinator or leaves it alone. `AudioHearsEndOfCall` is the safety
  part of `RecordingsEnd`.
* `Recording_proofs` - of the recorder: `RecorderInvariant`, and `RecorderKeepsContract`, by which `CallCapture` may see the recorder as
  a `RecorderContract`.
* `Recording_proofs` - of the files: `FilesInvariant`, `RecordedIsAlwaysKept`, `PublishedIsAlwaysComplete`,
  `FinalizeIsAlwaysAtomic`, `WriterInvariant`, `InterruptedIsAlwaysRecovered`.
* `Automation_proofs` - of the server: `ServerInvariant`, `OneReconciliationAtATime`, `SettledServerAlwaysFits`,
  `RevokedTokenStaysDead`, and `RunnerIsSerialExecutor`, the refinement of `SerialExecutor`; of the requests:
  `RequestsInvariant`, `WaitersAreServed`, `OneMessagePerKey`, `ClientsAreToldTheTruth`; of the runtime:
  `RuntimeImplementsServer` and `RuntimeImplementsRegistry`, by which each of the two parts behaves in
  the composition as it does alone, and `RuntimeIsSafe`, the safety the run `automation_runtime` checks.
* `WebhookDelivery_proofs` - `DeliveryInvariant`, `OutboxAlwaysHolds`, `SettledIsAlwaysDurable`.
* `JobRegistry_proofs` - `RegistryInvariant`, `RegistryAlwaysKeepsOrder`, and the parts `ConcurrencyIsBounded`,
  `NoPlaceIsWasted`, `PruningSparesUnfinished`.
* `RecordingJobs_proofs` - `JobsInvariant`, `QueueAlwaysFits`, `NeverTwoWriters`, `AlwaysCancelsTheRightRun`,
  `CompletedIsAlwaysSaved`, the action property `DeletedAlwaysStaysDeleted`, `TasksFollowRegistry` and `TasksKeepTheirOrder`.
* `Downloads_proofs` - `DownloadsInvariant`, `LaunchedInstallerIsComplete`, and `SchedulerIsSerialExecutor`: the chain
  of `LocalLlmModelScheduler` refines `SerialExecutor` too, from each start of the application to its end.

Those that state a property of a run are about the specification of that run, or about a part of it that it is
shown to implement: every safety property of the passing runs, invariants, action properties and
refinements alike, is a theorem.

Only model-checked is **liveness**: `RecordingsEnd` (its parts `FinalizationEnds` and `VideoStopsWithCall`),
`StopAnswered`, `QueuedIsDelivered`, `RequestsAreAnswered`, `WorkEnds`, `QueuedIsProcessed`, `DownloadsEnd`.
Fairness and `ENABLED` are beyond the prover. What a step could do to make some of them impossible is excluded by
theorems: `AudioHearsEndOfCall` for `RecordingsEnd`, `QueueNeverStalls` for `QueuedIsProcessed`,
`NobodyWaitsForAFreePlace` for `WorkEnds`, `WaitersHaveCalls` for `RequestsAreAnswered`.

No module uses a `RECURSIVE` operator, nor do the proofs use induction over data. `SelectSeq` is defined by recursion, and
the prover knows nothing of it: in the modules that are proved about, `Array.prototype.filter` is `ElementsAt` of
`ArrayFilter`, which is defined without.

## 7. Where the code and its documents disagree

Two disagreements are runs that end with a counterexample; `PROJECT.json` quotes
the documents.

| run | what happens |
|---|---|
| `call_recorder_lost_audio` (`NothingLeftBehind`) | a pause during an append leaves a copy of the state with a settled drain: later audio is never written, and `stop()` returns a recording |
| `webhook_settings` (`SavedSettingsStay`) | a delivery result writes back settings older than the user's change |

The models reach more behaviours a maintainer should know of. No property
forbids them, or the condition of one excludes them (section 4):

* a call that ends while its audio recording starts leaves the recording on: the core
  compares the call with a session it does not have yet (`ts/callRecordingServiceCore.std.ts:355`);
* after a failed append the recorder never becomes idle again and refuses every later start
  (`ts/callRecorder.dom.ts:340`);
* a media error during `writer.finalize()` puts a published video into the error state;
* a crash between the renames of `finalize()`, or of a recovery, is not recovered, as
  the recovery skips a recording whose MP3 or metadata exists or whose partial PCM is gone
  (`app/minutes_call_recording_channel.main.ts:525-535`);
* the reaper and the recovery start together: an interrupted recording that is older
  than a day may be deleted first;
* a recording that starts while the recovery lists files is renamed under its session
  (`app/minutes_call_recording_channel.main.ts:695`);
* two recoveries at once, or a pass over a session it does not know, can undo each other: one removes the
  metadata the other has renamed, and neither publishes the recording (`…:562-582`);
* a window destroyed during `create()` leaves a session nobody closes (`…:218`);
* two settings handlers that overlap, after the panel was reopened, may write the old token back, and so may a
  delivery result or a change of a webhook that read the file before (`ts/automation/automationSettings.node.ts:203-320`);
  the server then keeps a port or a token that the file does not name until something reconciles, which is
  when it takes the old ones back;
* a call that fails after `conversationJobQueue.add()` has queued the message is answered with an error and its key is
  forgotten: a retry sends the message again (`src/ts/models/conversations.preload.ts:4437-4500`, Signal's own);
  a conversation that takes no message is answered "ok" (`…:4289-4295`);
* a local model that was loaded, but whose context could not be made, stays in memory: nothing refers to it, and the
  next summary loads another (`ts/localLlmInference.main.ts:123-131`);
* an installation or a download of an update whose peer stalls never ends; the first can be cancelled;
* when the directory of the installers cannot be made, the version counts as being downloaded from then on
  (`ts/appUpdate.main.ts:426-428`);
* jobs that fail and are retried keep their places in the array: two of them, retried in turn, keep a third from ever
  being processed (`ts/transcriptionQueueService.preload.ts:137-153, 274`);
* a second installation of the local model, begun after the panel was reopened, writes the same file as
  the first and cannot be cancelled once the first has ended (`ts/localLlmExtension.main.ts:198, 320`);
* metadata of a whole installer outlives the installer when its download is repeated after a reload, a
  withdrawn release or a deletion: a partial download of more than a megabyte is then offered
  as ready (`ts/appUpdate.main.ts:298-340`);
* overlapping saves of the outbox may land in the wrong order, and a delivery is sent
  before the save that holds it has ended;
* a retry with the same key sends a second message after a reload of the page or the
  expiry of the key;
* a finished job is forgotten at once when more jobs than the limit are unfinished;
* a job of the page and a task of the MCP server may write the artifacts of one recording at once;
* a recording deleted while it is transcribed gets a transcript afterwards.

## 8. What is not modelled

* **Automation settings** - the handlers of the server, the other writers of the file and their lost updates are
  modelled; tools, hosts and endpoints have no behaviour of their own. The capabilities behind the
  MCP tools, in the page and the main process, read or forward; the one that sends is modelled.
* **Transcription and summary** - control and artifacts are modelled; the choice among engines and
  providers, prompts and chunks are data.
* **RingRTC timeline and chunker, alignment of speakers, screen share sources, video
  compositor** - algorithms over samples, windows of time and native objects; candidates below.
* **Transcription engines, AI providers, inference, video export** -
  numerical work, prompts and HTTP; no state of their own that survives a call.
* **Catalogue, search, bookmarks, PCM reader, IPC registration, React components** - read
  files or forward calls; the conditions under which the interface offers an
  operation are guards of the models.
* **Signal Desktop** - the models take from it that calls start and end and that a message is queued.

## 9. Plan

Done, in this order: coordinator and its proofs; both recording services and their
composition; call recorder; recording files; webhooks; automation requests; job registry
and its proofs; transcription queue and the composition with the registry; the video files;
the MCP server with its runner and the registry; the local model and the update.

Proofs done: the coordinator, the registry, the server and its runner, the call recorder, the recording files of both
channels, the composition of the two recording services, the transcription queue with the registry, the webhooks, the
requests to the renderer, the local model and the update, the composition of the server with the registry.

Modules that could follow: the registry of screen share sources with its compositor; the RingRTC timeline
and the alignment of speakers, as operators checked against a reference over bounded inputs.

## 10. Running it

```
tlc -workers 2 -config CaptureFaults.cfg MCCallCapture.tla
tlapm JobRegistry_proofs.tla
```

Each configuration belongs to the MC module `PROJECT.json` names with it. `automation_runtime`,
`downloads`, `webhooks`, `requests`, `queue` and `queue_liveness` are the largest (two to three minutes each with two
workers); the others take seconds to a minute and a half. The proofs of a
module take seconds to a minute or two, those of `Recording_proofs`, `CallCapture_proofs`,
`Automation_proofs`, `WebhookDelivery_proofs` and `Downloads_proofs` several minutes.
