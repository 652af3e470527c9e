------------------------------ MODULE RecordingJobs ------------------------------
(***************************************************************************)
(* The two ways to have a recording transcribed or summarised, side by     *)
(* side: the queue of the page and the job registry behind the MCP server  *)
(* (automationRuntime.main.ts:200-236).  Both call the same functions of   *)
(* the main process on the same files, and neither knows of the other.     *)
(***************************************************************************)
EXTENDS TranscriptionQueue

CONSTANTS
    MaxConcurrent,
    MaxRetainedJobs

\* What JobRegistry assumes.
ASSUME RegistryAssumption ==
    /\ MaxConcurrent \in Nat \ {0}
    /\ MaxRetainedJobs \in Nat \ {0}
    /\ IsFiniteSet(Tasks)

VARIABLES
    status, queue, running, enqueued, forgotten, waiting,
                        \* the state of the registry
    task                \* task[t]: the kind and the recording of a job

registryVars == <<status, queue, running, enqueued, forgotten, waiting>>
vars == <<queueVars, registryVars, task, scenario>>

Registry == INSTANCE JobRegistry WITH Jobs <- Tasks

Init ==
    /\ QueueInit
    /\ Registry!RegistryInit
    /\ task = [t \in Tasks |-> [kind |-> "summary",
                                file |-> CHOOSE f \in Recordings : TRUE]]

\* The registry calls the function of every task it has just started.  No
\* job id is passed on, so a task cannot be cancelled.
TasksStarted(ops) ==
    op' = [o \in Ops |->
            IF o \in Tasks /\ status[o] # "running" /\ status'[o] = "running"
            THEN [phase |-> "load", kind |-> task'[o].kind, file |-> task'[o].file]
            ELSE ops[o]]

\* transcribeRecording() and summarizeRecording() of a recording in the
\* catalogue.
RequestTask(t, kind, f) ==
    /\ f \in scenario.recordings
    /\ Cardinality({u \in Tasks : status[u] # "none"}) < scenario.tasks
    /\ "recording" \in files[f]
    /\ task' = [task EXCEPT ![t] = [kind |-> kind, file |-> f]]
    /\ Registry!Enqueue(t)
    /\ TasksStarted(op)
    /\ UNCHANGED <<pageVars, reloads, cancelledJobIds, storeVars>>

TaskEnds(t) ==
    /\ op[t].phase \in {"done", "failed"}
    /\ Registry!Finish(t, IF op[t].phase = "done" THEN "completed" ELSE "failed")
    /\ UNCHANGED task
    /\ TasksStarted([op EXCEPT ![t].phase = "none"])
    /\ UNCHANGED <<pageVars, reloads, cancelledJobIds, storeVars>>

TaskStep ==
    \/ \E t \in Tasks, kind \in Kinds, f \in Recordings : RequestTask(t, kind, f)
    \/ \E t \in Tasks : TaskEnds(t)
    \/ /\ \E t \in Tasks : OpStep(t)
       /\ UNCHANGED <<pageVars, reloads, registryVars, task>>

Step ==
    \/ (QueueStep \/ MainStep) /\ UNCHANGED <<registryVars, task>>
    \/ TaskStep

Next == Step /\ UNCHANGED scenario

Spec == Init /\ [][Next]_vars

\* Messages arrive, operations end, answers are delivered: nothing that the
\* queue awaits depends on the user.
Others == <<registryVars, task, scenario>>
Fairness ==
    /\ WF_vars(Receive /\ UNCHANGED Others)
    /\ \A j \in Jobs :
        /\ WF_vars(Settle(j) /\ UNCHANGED Others)
        /\ WF_vars(OpStep(j) /\ UNCHANGED <<pageVars, reloads, Others>>)

LiveSpec == Spec /\ Fairness

-----------------------------------------------------------------------------
TypeOK ==
    /\ QueueTypeOK
    /\ Registry!RegistryTypeOK
    /\ \A t \in Tasks : (status[t] = "running") = (op[t].phase # "none")

(* Each of the two sides works on one recording at a time: never more than
   two models run at once on the user's machine. *)
TwoAtMost ==
    reloads = 0 => Cardinality({o \in Ops : Working(o)}) <= 1 + MaxConcurrent

(* The processing flag, the active job and the statuses agree, the queue never
   sleeps on a job it could start, and no more runs than the two sides allow. *)
QueueInv ==
    /\ TypeOK
    /\ QueueNeverStalls
    /\ TwoAtMost

\* k comes before j in the array.
Ahead(k, j) ==
    \E i, n \in DOMAIN jobs : i < n /\ jobs[i] = k /\ jobs[n] = j

(* A queue that is not paused comes to every job: nothing but jobs ahead of it
   that fail and are retried again and again, which keep their places in the
   array, can keep a job from its turn
   (transcriptionQueueService.preload.ts:137-153, 269-420). *)
QueuedIsProcessed ==
    \A j \in Jobs :
        \/ []<><<\E k \in Jobs : Ahead(k, j) /\ RetryJob(k)>>_vars
        \/ job[j].status = "queued" ~> (job[j].status # "queued" \/ queuePaused)

\* Nothing of what is known about f is left, and no operation holds its input.
Gone(f) ==
    /\ f \in deleted
    /\ removing[f] = 0
    /\ files[f] \intersect {"transcript", "summary"} = {}
    /\ \A o \in Ops : Working(o) /\ op[o].file = f => op[o].phase = "load"

(* A deleted recording does not come back: once the deletion has ended and no
   operation has its sound or its transcript in hand, no job still in the queue
   of the page and none of the registry writes a transcript or a summary of it
   again (recordingFiles.main.ts:27-57, callSummaryExtension.main.ts:336-366).
   An rm() that fails may leave an input behind. *)
DeletedStaysDeleted ==
    [][\A f \in Recordings : "rm" \notin scenario.faults /\ Gone(f) => Gone(f)']_vars
===============================================================================
