--------------------------- MODULE TranscriptionQueue ---------------------------
(***************************************************************************)
(* The queue of transcriptions and summaries in the page                   *)
(* (ts/minutes/transcriptionQueueService.preload.ts) and its calls to the  *)
(* main process (app/minutes_channel.main.ts:476-569).                     *)
(*                                                                         *)
(* The queue hands one job at a time to the main process and awaits the    *)
(* answer; the user pauses, cancels, retries and removes jobs meanwhile.   *)
(* A cancellation is a message of its own: the main process may receive it *)
(* when the operation it names has already ended.  A reload of the page    *)
(* forgets the queue, not what the main process is doing.                  *)
(*                                                                         *)
(* Progress, the panel and the texts are left out.                         *)
(***************************************************************************)
EXTENDS TranscriptionOps, ArrayFilter, FiniteSetsExt

CONSTANTS
    NoJob,
    MaxMessages         \* messages under way at which no more is cancelled

ASSUME NoJobAssumption == NoJob \notin Jobs

VARIABLES
    jobs,               \* #jobs: the ids in the order of the array
    job,                \* job[j]: status, kind, recording, cancelRequested
    queuePaused,
    processing,
    activeJobId,
    toMain,             \* messages on their way to the main process
    reloads

pageVars == <<jobs, job, queuePaused, processing, activeJobId, toMain>>
queueVars == <<pageVars, reloads, opsVars>>

\* "none" before enqueue(), "gone" after a reload or the removal.
JobStatuses == {"none", "queued", "processing", "completed", "failed",
                "cancelled", "gone"}

QueueInit ==
    /\ OpsInit
    /\ jobs = <<>>
    /\ job = [j \in Jobs |-> [status |-> "none", kind |-> "summary",
                              file |-> CHOOSE f \in Recordings : TRUE,
                              cancelRequested |-> FALSE]]
    /\ queuePaused = FALSE
    /\ processing = FALSE
    /\ activeJobId = NoJob
    /\ toMain = <<>>
    /\ reloads = 0

-----------------------------------------------------------------------------
Queued(list, js) == {i \in DOMAIN list : js[list[i]].status = "queued"}

\* Seeded fault: #processNext() looks at the pause only.
MayProcessUnlessPaused(busy, halted) == ~halted

MayProcess(busy, halted) == ~busy /\ ~halted

\* #processNext() up to the message to the main process, given the queue it
\* finds: the array, the jobs, #processing, #queuePaused and the messages
\* sent before.
ProcessNext(list, js, busy, halted, sent) ==
    /\ jobs' = list
    /\ queuePaused' = halted
    /\ IF MayProcess(busy, halted) /\ Queued(list, js) # {}
       THEN LET next == list[Min(Queued(list, js))]
            IN  /\ processing' = TRUE
                /\ activeJobId' = next
                /\ job' = [js EXCEPT ![next].status = "processing"]
                /\ toMain' = Append(sent, [do |-> "run", job |-> next])
       ELSE /\ processing' = busy
            /\ activeJobId' = IF busy THEN activeJobId ELSE NoJob
            /\ job' = js
            /\ toMain' = sent

\* enqueue() skips a job whose kind and recording are already queued or
\* processed.
Duplicate(kind, f) ==
    \E i \in DOMAIN jobs :
        /\ job[jobs[i]].kind = kind
        /\ job[jobs[i]].file = f
        /\ job[jobs[i]].status \in {"queued", "processing"}

\* The catalogue offers a summary only when there is a transcript.  One asked
\* for when the transcript has just been removed fails like one asked for just
\* before.
Enqueue(j, kind, f) ==
    /\ job[j].status = "none" /\ f \in scenario.recordings
    /\ Cardinality({k \in Jobs : job[k].status # "none"}) < scenario.jobs
    /\ Catalogued(f)
    /\ kind = "summary" => "transcript" \in files[f]
    /\ ~Duplicate(kind, f)
    /\ ProcessNext(Append(jobs, j),
                   [job EXCEPT ![j] = [status |-> "queued", kind |-> kind,
                                       file |-> f, cancelRequested |-> FALSE]],
                   processing, queuePaused, toMain)
    /\ UNCHANGED <<reloads, opsVars>>

PauseQueue ==
    /\ queuePaused' = TRUE
    /\ UNCHANGED <<jobs, job, processing, activeJobId, toMain, reloads, opsVars>>

\* Seeded fault: resumeQueue() does not look for the next job.
ResumeQueueOnly ==
    /\ queuePaused' = FALSE
    /\ UNCHANGED <<jobs, job, processing, activeJobId, toMain, reloads, opsVars>>

ResumeQueue ==
    /\ ProcessNext(jobs, job, processing, FALSE, toMain)
    /\ UNCHANGED <<reloads, opsVars>>

\* The page lists j among its jobs.
Listed(j) == \E i \in DOMAIN jobs : jobs[i] = j

RetryJob(j) ==
    /\ Listed(j)
    /\ job[j].status = "failed"
    /\ ProcessNext(jobs, [job EXCEPT ![j].status = "queued"],
                   processing, FALSE, toMain)
    /\ UNCHANGED <<reloads, opsVars>>

\* The job in progress is only marked; the main process stops it.
Cancels(js, j) ==
    /\ Len(toMain) < MaxMessages
    /\ job' = [js EXCEPT ![j].cancelRequested = TRUE]
    /\ toMain' = Append(toMain, [do |-> "cancel", job |-> j])

\* Seeded fault: a job in progress is shown as cancelled at once.
CancelJobAtOnce(j) ==
    /\ Listed(j)
    /\ job[j].status \in {"queued", "processing"}
    /\ job' = [job EXCEPT ![j].status = "cancelled"]
    /\ UNCHANGED <<jobs, queuePaused, processing, activeJobId, toMain, reloads, opsVars>>

\* The button is disabled once the cancellation has been requested.
CancelJob(j) ==
    /\ Listed(j)
    /\ \/ /\ job[j].status = "queued"
          /\ job' = [job EXCEPT ![j].status = "cancelled"]
          /\ UNCHANGED toMain
       \/ /\ job[j].status = "processing"
          /\ ~job[j].cancelRequested
          /\ Cancels(job, j)
    /\ UNCHANGED <<jobs, queuePaused, processing, activeJobId, reloads, opsVars>>

CancelAllActive ==
    LET js == [j \in Jobs |-> IF Listed(j) /\ job[j].status = "queued"
                              THEN [job[j] EXCEPT !.status = "cancelled"]
                              ELSE job[j]]
    IN  /\ IF activeJobId # NoJob
           THEN Cancels(js, activeJobId)
           ELSE job' = js /\ UNCHANGED toMain
        /\ UNCHANGED <<jobs, queuePaused, processing, activeJobId, reloads, opsVars>>

\* removeJob() of one job and clearCompleted() of all that are over.
Remove(gone) ==
    /\ jobs' = ElementsAt(jobs, {i \in DOMAIN jobs : jobs[i] \notin gone})
    /\ job' = [j \in Jobs |-> IF j \in gone THEN [job[j] EXCEPT !.status = "gone"]
                                            ELSE job[j]]
    /\ UNCHANGED <<queuePaused, processing, activeJobId, toMain, reloads, opsVars>>

RemoveJob(j) ==
    /\ Listed(j)
    /\ job[j].status # "processing"
    /\ Remove({j})

ClearCompleted ==
    Remove({j \in Jobs : Listed(j) /\ job[j].status \in {"completed", "cancelled"}})

\* Seeded fault: only the error of the main process tells a cancellation; it
\* reaches the page with another message, so that none is recognised.
SettledByError(j) == IF op[j].phase = "done" THEN "completed" ELSE "failed"

\* Seeded fault: the answer is not looked at.
SettledUnchecked(j) == IF job[j].cancelRequested THEN "cancelled" ELSE "completed"

\* How a job ends.  The message of an error of the main process is wrapped on
\* its way to the page, so that isTranscriptionCancelledError() is false and
\* cancelRequested decides.
Settled(j) ==
    IF op[j].phase = "done" THEN "completed"
    ELSE IF job[j].cancelRequested THEN "cancelled"
    ELSE "failed"

Answered(j) == op[j].phase \in {"done", "failed"}

\* The answer reaches the page: the rest of #processNext() and its next call.
Settle(j) ==
    /\ activeJobId = j
    /\ Answered(j)
    /\ ProcessNext(jobs,
                   [job EXCEPT ![j].status = Settled(j),
                               ![j].cancelRequested =
                                   Settled(j) = "completed" /\ @],
                   FALSE, queuePaused, toMain)
    /\ op' = [op EXCEPT ![j].phase = "none"]
    /\ UNCHANGED <<reloads, cancelledJobIds, storeVars>>

\* The main process takes the next message of the page.
Receive ==
    /\ toMain # <<>>
    /\ LET message == Head(toMain)
       IN  IF message.do = "run"
           THEN /\ op' = [op EXCEPT ![message.job] =
                            [phase |-> "load", kind |-> job[message.job].kind,
                             file |-> job[message.job].file]]
                /\ UNCHANGED cancelledJobIds
           ELSE /\ cancelledJobIds' = cancelledJobIds \union {message.job}
                /\ UNCHANGED op
    /\ toMain' = Tail(toMain)
    /\ UNCHANGED <<jobs, job, queuePaused, processing, activeJobId, reloads, storeVars>>

\* The page starts again; what it has sent is on its way.
Reload ==
    /\ reloads < scenario.reloads
    /\ reloads' = reloads + 1
    /\ jobs' = <<>>
    /\ job' = [j \in Jobs |-> IF Listed(j) THEN [job[j] EXCEPT !.status = "gone"]
                                           ELSE job[j]]
    /\ queuePaused' = FALSE
    /\ processing' = FALSE
    /\ activeJobId' = NoJob
    /\ UNCHANGED <<toMain, opsVars>>

UserStep ==
    \/ \E j \in Jobs, kind \in Kinds, f \in Recordings : Enqueue(j, kind, f)
    \/ PauseQueue
    \/ ResumeQueue
    \/ \E j \in Jobs : RetryJob(j) \/ CancelJob(j) \/ RemoveJob(j)
    \/ CancelAllActive
    \/ ClearCompleted
    \/ Reload

QueueStep ==
    \/ UserStep
    \/ Receive
    \/ \E j \in Jobs : Settle(j)

MainStep ==
    /\ \/ \E o \in Jobs : OpStep(o)
       \/ \E f \in Recordings : Delete(f) \/ FileRemoved(f)
    /\ UNCHANGED <<pageVars, reloads>>

-----------------------------------------------------------------------------
\* What #processing, #activeJobId and the jobs say of one another.
QueueTypeOK ==
    /\ OpsTypeOK
    /\ jobs \in Seq(Jobs)
    /\ job \in [Jobs -> [status : JobStatuses, kind : Kinds, file : Recordings,
                         cancelRequested : BOOLEAN]]
    /\ queuePaused \in BOOLEAN
    /\ processing = (activeJobId # NoJob)
    /\ {j \in Jobs : job[j].status = "processing"} = {activeJobId} \ {NoJob}
    /\ reloads \in 0 .. scenario.reloads

(* Two jobs of the queue never write the artifacts of one recording at the
   same time: transcribeCallRecording() writes them one after the other, with
   the work of minutes between them, and nothing but the queue keeps two
   operations apart.  A page that is loaded anew does not know of the job it
   has lost. *)
OneWriterPerRecording ==
    reloads = 0 =>
        \A o, p \in Jobs :
            Working(o) /\ Working(p) /\ op[o].file = op[p].file => o = p

(* The queue never sleeps on a job it could start: every step that frees the
   queue, adds a job or ends a pause looks for the next one. *)
QueueNeverStalls ==
    ~processing /\ ~queuePaused => Queued(jobs, job) = {}

(* A cancellation the main process receives too late stays in
   cancelledJobIds for ever.  It must never meet a job that is run again
   under the same id (retryJob). *)
NoStaleCancel ==
    \A j \in Jobs : job[j].status = "queued" =>
        /\ j \notin cancelledJobIds
        /\ \A i \in DOMAIN toMain : toMain[i].job # j

(* When the page shows a job as cancelled, the main process has stopped
   working for it and will not begin. *)
CancelledIsQuiet ==
    \A j \in Jobs : job[j].status = "cancelled" =>
        /\ ~Working(j)
        /\ ~\E i \in DOMAIN toMain : toMain[i] = [do |-> "run", job |-> j]

(* A cancellation reaches the run it was meant for: not a later one of the same
   job, and not too late (transcriptionQueueService.preload.ts:296-299,
   338-420). *)
CancelsTheRightRun == NoStaleCancel /\ CancelledIsQuiet

(* What the page shows as completed has been saved, unless the user has
   deleted the recording. *)
CompletedIsSaved ==
    \A j \in Jobs :
        job[j].status = "completed" /\ job[j].file \notin deleted =>
            (IF job[j].kind = "transcription" THEN "transcript" ELSE "summary")
                \in files[job[j].file]
===============================================================================
