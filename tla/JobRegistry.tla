------------------------------ MODULE JobRegistry ------------------------------
(***************************************************************************)
(* The AutomationJobRegistry of the main process                           *)
(* (ts/minutes/automation/jobRegistry.std.ts).  An MCP client starts a     *)
(* transcription or a summary, gets a job id at once and reads the state   *)
(* and the result of the job later.  The registry runs at most             *)
(* MaxConcurrent tasks, first come first served, and forgets the oldest    *)
(* finished jobs once it keeps more than MaxRetainedJobs.                  *)
(*                                                                         *)
(* Every function of the registry runs to its first await in one turn of   *)
(* the event loop, so enqueue() includes #drain(), and the end of a task   *)
(* includes the resolution of its waiters, #drain() and                    *)
(* #pruneCompletedJobs().  The tasks are async functions: their outcome is *)
(* reported in a turn of its own.  Progress, results and error messages    *)
(* are left out.                                                           *)
(***************************************************************************)
EXTENDS Integers, Sequences, FiniteSets

CONSTANTS
    Jobs,               \* the ids idFactory() returns; none is returned twice
    MaxConcurrent,
    MaxRetainedJobs

\* The checks of the constructor.
ASSUME LimitsAssumption ==
    /\ MaxConcurrent \in Nat \ {0}
    /\ MaxRetainedJobs \in Nat \ {0}

ASSUME JobsAssumption == IsFiniteSet(Jobs)

VARIABLES
    status,             \* status[j], "none" before enqueue()
    queue,              \* #queue: the jobs no task has been started for
    running,            \* #running
    enqueued,           \* the order in which the Map #jobs is iterated
    forgotten,          \* jobs deleted from #jobs and #completion
    waiting             \* jobs whose completion somebody awaits

registryVars == <<status, queue, running, enqueued, forgotten, waiting>>

Statuses == {"none", "queued", "running", "completed", "failed"}

RunningJobs == {j \in Jobs : status[j] = "running"}
Unfinished == {j \in Jobs : status[j] \in {"queued", "running"}}
Finished == {j \in Jobs : status[j] \in {"completed", "failed"}}

\* The keys of #jobs.
Retained == (Unfinished \union Finished) \ forgotten

RegistryInit ==
    /\ status = [j \in Jobs |-> "none"]
    /\ queue = <<>>
    /\ running = 0
    /\ enqueued = <<>>
    /\ forgotten = {}
    /\ waiting = {}

-----------------------------------------------------------------------------
Smaller(m, n) == IF m <= n THEN m ELSE n

\* The iterations of the loop of #drain().
Starts(q, busy) == Smaller(Len(q), MaxConcurrent - busy)

\* Seeded fault: #drain() pops the newest entries.
StartedLast(q, n) == {q[i] : i \in Len(q) - n + 1 .. Len(q)}

\* The jobs #drain() shifts from the front of the queue.
Started(q, n) == {q[i] : i \in 1 .. n}

\* #drain(), given the statuses, the queue and #running it finds.
Drain(stat, q, busy) ==
    LET n == Starts(q, busy)
    IN  /\ status' = [j \in Jobs |->
                        IF j \in Started(q, n) THEN "running" ELSE stat[j]]
        /\ queue' = SubSeq(q, n + 1, Len(q))
        /\ running' = busy + n

Enqueue(j) ==
    /\ status[j] = "none"
    /\ enqueued' = Append(enqueued, j)
    /\ Drain([status EXCEPT ![j] = "queued"], Append(queue, j), running)
    /\ UNCHANGED <<forgotten, waiting>>

\* waitFor() of a job that is still known; of any other it throws.
WaitFor(j) ==
    /\ j \in Retained
    /\ waiting' = IF j \in Finished THEN waiting ELSE waiting \union {j}
    /\ UNCHANGED <<status, queue, running, enqueued, forgotten>>

\* The retained jobs that were enqueued no later than j.
NoLaterThan(j, kept) ==
    {k \in kept : \E m, n \in DOMAIN enqueued :
                    enqueued[m] = k /\ enqueued[n] = j /\ m <= n}

\* #pruneCompletedJobs() skips jobs that are queued or running.
Prunable(done) == Retained \ (Unfinished \ done)

\* Seeded fault: one job more than the limit is kept.
ExcessOffByOne == Cardinality(Retained) - MaxRetainedJobs - 1

Excess == Cardinality(Retained) - MaxRetainedJobs

\* The finished jobs, oldest first, until the map is back at its limit.
Pruned(done) ==
    {j \in Prunable(done) :
        Cardinality(NoLaterThan(j, Prunable(done))) <= Excess}

\* Seeded fault: a failed task keeps its place.
FinishLeakingSlot(j, outcome) ==
    /\ status[j] = "running"
    /\ Drain([status EXCEPT ![j] = outcome], queue,
             IF outcome = "failed" THEN running ELSE running - 1)
    /\ waiting' = waiting \ {j}
    /\ forgotten' = forgotten \union Pruned({j})
    /\ UNCHANGED enqueued

\* Seeded fault: the end of a task does not start the next one.
FinishWithoutDrain(j, outcome) ==
    /\ status[j] = "running"
    /\ status' = [status EXCEPT ![j] = outcome]
    /\ running' = running - 1
    /\ waiting' = waiting \ {j}
    /\ forgotten' = forgotten \union Pruned({j})
    /\ UNCHANGED <<queue, enqueued>>

\* The task of j returns or throws: #run() from the await of the task on.
Finish(j, outcome) ==
    /\ status[j] = "running"
    /\ Drain([status EXCEPT ![j] = outcome], queue, running - 1)
    /\ waiting' = waiting \ {j}
    /\ forgotten' = forgotten \union Pruned({j})
    /\ UNCHANGED enqueued

RegistryNext ==
    \E j \in Jobs :
        \/ Enqueue(j)
        \/ WaitFor(j)
        \/ Finish(j, "completed")
        \/ Finish(j, "failed")

\* Every task ends: each of them bounds or awaits nothing but work that ends.
TasksEnd ==
    \A j \in Jobs : WF_registryVars(Finish(j, "completed") \/ Finish(j, "failed"))

RegistrySpec == RegistryInit /\ [][RegistryNext]_registryVars /\ TasksEnd

-----------------------------------------------------------------------------
RegistryTypeOK ==
    /\ status \in [Jobs -> Statuses]
    /\ queue \in Seq(Jobs)
    /\ running \in Nat
    /\ enqueued \in Seq(Jobs)
    /\ forgotten \subseteq Jobs
    /\ waiting \subseteq Jobs

(* #running is the number of jobs that say they are running, and never more
   than the limit: a place that is counted twice or never returned would
   let two tasks run or none for ever. *)
RunningIsBounded ==
    /\ running = Cardinality(RunningJobs)
    /\ running <= MaxConcurrent

(* No job waits while a place is free: whoever frees a place or adds a job
   starts the next one in the same turn.  The queue holds exactly the jobs
   that say they are queued. *)
NobodyWaitsForAFreePlace ==
    /\ queue # <<>> => running = MaxConcurrent
    /\ {queue[i] : i \in DOMAIN queue} = {j \in Jobs : status[j] = "queued"}

(* A job that has not ended can be read and awaited: pruning forgets
   finished jobs only. *)
UnfinishedAreRetained == forgotten \subseteq Finished

(* Whoever awaits a job awaits one that will still report its end. *)
WaitersAreTold == waiting \subseteq Unfinished

Distinct(q) == \A m, n \in DOMAIN q : q[m] = q[n] => m = n

(* Places, queue, jobs and waiters agree.  This is the inductive invariant:
   that #running counts the running jobs survives #drain() only because the
   queue names each queued job exactly once (jobRegistry.std.ts:117-165). *)
RegistryInv ==
    /\ RegistryTypeOK
    /\ RunningIsBounded
    /\ NobodyWaitsForAFreePlace
    /\ Distinct(queue)
    /\ UnfinishedAreRetained
    /\ WaitersAreTold

(* Once nothing is left to do, no more jobs are kept than the limit allows. *)
IdleIsBounded ==
    Unfinished = {} => Cardinality(Retained) <= MaxRetainedJobs

(* First come first served: no job starts before one that was enqueued
   earlier. *)
StartsInOrder ==
    \A m, n \in DOMAIN enqueued :
        m < n /\ status[enqueued[m]] = "queued" => status[enqueued[n]] = "queued"

(* The order and the limit survive every sequence of calls, also one in which
   more jobs are unfinished than the limit allows (jobRegistry.std.ts:117-176). *)
RegistryKeepsOrder == IdleIsBounded /\ StartsInOrder

(* Every job ends. *)
JobsEnd == \A j \in Jobs : status[j] = "queued" ~> j \in Finished
===============================================================================
