-------------------------- MODULE RecordingJobs_proofs --------------------------
(***************************************************************************)
(* Proofs, for all sets of jobs, tasks and recordings and every scenario,  *)
(* that the queue of the page and the main process agree: the flags and    *)
(* the statuses fit together, the queue never sleeps on a job it could     *)
(* start, never two of its jobs write the artifacts of one recording, a    *)
(* cancellation reaches the run it was meant for, and what is shown as     *)
(* completed has been saved.                                               *)
(*                                                                         *)
(* The argument looks at one job at a time.  What the page shows of it,    *)
(* the operation of the main process and the messages between the two must *)
(* fit (Fit below), and every step changes these for one or two jobs only. *)
(* #processNext() is at the end of most handlers: one lemma (NextJob) says *)
(* what it makes of any queue that fits.                                   *)
(***************************************************************************)
EXTENDS RecordingJobs, ArrayFilter_proofs, TLAPS

-----------------------------------------------------------------------------
(* The inductive invariant. *)

Messages == [do : {"run", "cancel"}, job : Jobs]
JobRecords == [status : JobStatuses, kind : Kinds, file : Recordings,
               cancelRequested : BOOLEAN]
OpRecords == [phase : Phases, kind : Kinds, file : Recordings]

RunOf(j) == [do |-> "run", job |-> j]
CancelOf(j) == [do |-> "cancel", job |-> j]

Sent(sent, message) == \E i \in DOMAIN sent : sent[i] = message

\* Nothing is sent to run twice.
RunsOnce(sent) ==
    \A i, k \in DOMAIN sent : sent[i].do = "run" /\ sent[i] = sent[k] => i = k

\* A cancellation of j is on its way or waits for j.
Cancelling(j, sent, cancelled) == j \in cancelled \/ Sent(sent, CancelOf(j))

Artifact(kind) == IF kind = "transcription" THEN "transcript" ELSE "summary"

\* A job that is shown as completed has its artifact.
JobSaved(rec) ==
    rec.status = "completed" /\ rec.file \notin deleted =>
        Artifact(rec.kind) \in files[rec.file]

\* The phases of an operation after its artifact has been written.
Reporting(kind) ==
    {"emit", "done"} \union (IF kind = "transcription" THEN {"summary"} ELSE {})

\* An operation that has come so far has its artifact.
OpSaved(o) ==
    o.file \notin deleted /\ o.phase \in Reporting(o.kind) =>
        Artifact(o.kind) \in files[o.file]

\* What the page knows of a job, its operation, whether it is being sent to
\* run and whether it is being cancelled.
Fit(rec, o, run, cancel) ==
    /\ run => o.phase = "none"
    /\ rec.status \in {"none", "queued", "failed"} =>
          o.phase = "none" /\ ~run /\ ~cancel
    /\ rec.status \in {"completed", "cancelled"} => o.phase = "none" /\ ~run
    /\ rec.status = "processing" /\ cancel => rec.cancelRequested
    /\ o.phase # "none" => o.kind = rec.kind /\ o.file = rec.file
    /\ reloads = 0 /\ (run \/ o.phase # "none") => rec.status = "processing"

AllFit(js, ops, sent, cancelled) ==
    \A j \in Jobs : Fit(js[j], ops[j], Sent(sent, RunOf(j)),
                        Cancelling(j, sent, cancelled))

\* The array names the jobs that the page knows.
ListFits(list, js) ==
    \A j \in Jobs : (\E i \in DOMAIN list : list[i] = j)
                      <=> js[j].status \notin {"none", "gone"}

\* #processing and #activeJobId name the job in progress.
ActiveFits(js, busy, active) ==
    /\ active \in Jobs \union {NoJob}
    /\ busy = (active # NoJob)
    /\ \A j \in Jobs : js[j].status = "processing" <=> j = active

NeverSleeps ==
    \A j \in Jobs : job[j].status = "queued" => processing \/ queuePaused

PageInv ==
    /\ jobs \in Seq(Jobs)
    /\ job \in [Jobs -> JobRecords]
    /\ queuePaused \in BOOLEAN
    /\ toMain \in Seq(Messages)
    /\ RunsOnce(toMain)
    /\ ListFits(jobs, job)
    /\ ActiveFits(job, processing, activeJobId)
    /\ NeverSleeps
    /\ AllFit(job, op, toMain, cancelledJobIds)

SavedInv ==
    /\ \A j \in Jobs : JobSaved(job[j])
    /\ \A o \in Ops : OpSaved(op[o])

TasksInv ==
    /\ task \in [Tasks -> [kind : Kinds, file : Recordings]]
    /\ Registry!RegistryInv
    /\ \A t \in Tasks : (status[t] = "running") = (op[t].phase # "none")

IInv ==
    /\ OpsTypeOK
    /\ reloads \in 0 .. scenario.reloads
    /\ PageInv
    /\ SavedInv
    /\ TasksInv

USE DEF storeVars

-----------------------------------------------------------------------------
(* Messages. *)

(* A message appended is sent, and nothing else is added. *)
LEMMA SentAppend ==
  ASSUME NEW sent \in Seq(Messages), NEW new \in Messages
  PROVE  /\ Append(sent, new) \in Seq(Messages)
         /\ \A m \in Messages : Sent(Append(sent, new), m)
                                  <=> Sent(sent, m) \/ m = new
         /\ RunsOnce(sent) /\ (new.do = "run" => ~Sent(sent, new)) =>
              RunsOnce(Append(sent, new))
  <1> DEFINE longer == Append(sent, new)
             n == Len(sent)
  <1>1. /\ longer \in Seq(Messages) /\ n \in Nat
        /\ DOMAIN sent = 1 .. n /\ DOMAIN longer = 1 .. n + 1
        /\ longer[n + 1] = new
        /\ \A i \in 1 .. n : longer[i] = sent[i]
    OBVIOUS
  <1>2. \A i \in 1 .. n + 1 : i \in 1 .. n \/ i = n + 1
    BY <1>1
  <1>3. \A i \in 1 .. n : i \in 1 .. n + 1
    BY <1>1
  <1>3a. n + 1 \in 1 .. n + 1
    BY <1>1
  <1> HIDE DEF longer, n
  <1>4. \A m \in Messages : Sent(longer, m) <=> Sent(sent, m) \/ m = new
    BY <1>1, <1>2, <1>3, <1>3a, Zenon DEF Sent
  <1>5. ASSUME RunsOnce(sent), new.do = "run" => ~Sent(sent, new)
        PROVE  RunsOnce(longer)
    BY <1>1, <1>2, <1>5 DEF RunsOnce, Sent
  <1> QED BY <1>1, <1>4, <1>5 DEF longer

(* What is left once the main process has taken the first message. *)
LEMMA SentTail ==
  ASSUME NEW sent \in Seq(Messages), sent # <<>>, RunsOnce(sent)
  PROVE  /\ Head(sent) \in Messages /\ Tail(sent) \in Seq(Messages)
         /\ Sent(sent, Head(sent))
         /\ \A m \in Messages : Sent(Tail(sent), m) => Sent(sent, m)
         /\ Head(sent).do = "run" => ~Sent(Tail(sent), Head(sent))
         /\ RunsOnce(Tail(sent))
  <1> DEFINE rest == Tail(sent)
             n == Len(sent)
  <1>1. /\ rest \in Seq(Messages) /\ n \in Nat \ {0}
        /\ DOMAIN sent = 1 .. n /\ DOMAIN rest = 1 .. n - 1
        /\ Head(sent) = sent[1]
        /\ \A i \in 1 .. n - 1 : rest[i] = sent[i + 1]
    OBVIOUS
  <1>2. \A i \in 1 .. n - 1 : i + 1 \in 1 .. n /\ i + 1 # 1
    BY <1>1
  <1>3. 1 \in 1 .. n
    BY <1>1
  <1>3a. sent[1] \in Messages
    BY <1>3
  <1> HIDE DEF rest, n
  <1>4. \A m \in Messages : Sent(rest, m) => Sent(sent, m)
    BY <1>1, <1>2, Zenon DEF Sent
  <1>5. Sent(sent, Head(sent))
    BY <1>1, <1>3 DEF Sent
  <1>6. \A i, k \in 1 .. n : sent[i].do = "run" /\ sent[i] = sent[k] => i = k
    BY <1>1 DEF RunsOnce
  <1>7. Head(sent).do = "run" => ~Sent(rest, Head(sent))
    <2> SUFFICES ASSUME sent[1].do = "run", NEW i \in 1 .. n - 1,
                        rest[i] = sent[1]
                 PROVE  FALSE
      BY <1>1 DEF Sent
    <2>1. sent[i + 1] = sent[1] /\ i + 1 \in 1 .. n /\ i + 1 # 1
      BY <1>1, <1>2
    <2> QED BY <1>3, <1>6, <2>1
  <1>8. RunsOnce(rest)
    <2> SUFFICES ASSUME NEW i \in 1 .. n - 1, NEW k \in 1 .. n - 1,
                        rest[i].do = "run", rest[i] = rest[k]
                 PROVE  i = k
      BY <1>1 DEF RunsOnce
    <2>1. i + 1 = k + 1
      BY <1>1, <1>2, <1>6
    <2> QED BY <1>1, <2>1
  <1> QED BY <1>1, <1>3a, <1>4, <1>5, <1>7, <1>8 DEF rest

(* The least of some indices is one of them. *)
LEMMA MinIndex ==
  ASSUME NEW I \in SUBSET Nat, IsFiniteSet(I), I # {}
  PROVE  Min(I) \in I
  <1> DEFINE first == NthIndex(I, 1)
  <1>1. Cardinality(I) \in Nat /\ Cardinality(I) # 0
    BY FS_EmptySet, FS_CardinalityType
  <1>2. 1 \in 1 .. Cardinality(I)
    BY <1>1
  <1>3. first \in I
    BY <1>2, NthIndexProperties
  <1>4. ASSUME NEW i \in I PROVE first <= i
    <2>1. PICK n \in 1 .. Cardinality(I) : NthIndex(I, n) = i
      BY NthIndexProperties
    <2>2. n = 1 \/ 1 < n
      BY <1>1
    <2>3. 1 < n => first < i
      BY <1>2, <2>1, NthIndexProperties
    <2>4. first \in Nat /\ i \in Nat
      BY <1>3
    <2> HIDE DEF first
    <2> QED BY <2>1, <2>2, <2>3, <2>4 DEF first
  <1>5. \E x \in I : \A y \in I : x <= y
    BY <1>3, <1>4
  <1> QED BY <1>5 DEF Min

-----------------------------------------------------------------------------
(* #processNext(). *)

(* #processNext() takes the first queued job if it may, and whatever it finds,
   what it leaves fits together (transcriptionQueueService.preload.ts:338-420).
   The arguments are those of ProcessNext; ops and cancelled are the state of
   the main process after the step. *)
LEMMA NextJob ==
  ASSUME NEW list \in Seq(Jobs), NEW js \in [Jobs -> JobRecords],
         NEW busy \in BOOLEAN, NEW halted \in BOOLEAN,
         NEW sent \in Seq(Messages), RunsOnce(sent),
         NEW ops, NEW cancelled,
         ListFits(list, js),
         ActiveFits(js, busy, IF busy THEN activeJobId ELSE NoJob),
         AllFit(js, ops, sent, cancelled),
         ProcessNext(list, js, busy, halted, sent)
  PROVE  /\ jobs' \in Seq(Jobs)
         /\ job' \in [Jobs -> JobRecords]
         /\ queuePaused' \in BOOLEAN
         /\ toMain' \in Seq(Messages)
         /\ RunsOnce(toMain')
         /\ ListFits(jobs', job')
         /\ ActiveFits(job', processing', activeJobId')
         /\ NeverSleeps'
         /\ AllFit(job', ops, toMain', cancelled)
         /\ \A j \in Jobs : /\ job'[j].kind = js[j].kind
                            /\ job'[j].file = js[j].file
                            /\ job'[j].status = js[j].status
                                 \/ job'[j].status = "processing"
  <1> USE NoJobAssumption
  <1>1. jobs' = list /\ queuePaused' = halted
    BY DEF ProcessNext
  <1>2. CASE MayProcess(busy, halted) /\ Queued(list, js) # {}
    <2> DEFINE next == list[Min(Queued(list, js))]
    <2>1. /\ processing' = TRUE /\ activeJobId' = next
          /\ job' = [js EXCEPT ![next].status = "processing"]
          /\ toMain' = Append(sent, RunOf(next))
      BY <1>2 DEF ProcessNext, RunOf
    <2>2. next \in Jobs /\ js[next].status = "queued"
      <3>1. Queued(list, js) \in SUBSET (1 .. Len(list))
        BY DEF Queued
      <3>2. Len(list) \in Nat /\ IsFiniteSet(1 .. Len(list))
        BY FS_Interval
      <3>3. IsFiniteSet(Queued(list, js))
        BY <3>1, <3>2, FS_Subset
      <3>4. Min(Queued(list, js)) \in Queued(list, js)
        BY <1>2, <3>1, <3>3, MinIndex
      <3> QED BY <3>4 DEF Queued
    <2> HIDE DEF next
    <2>3. /\ busy = FALSE
          /\ \A j \in Jobs : js[j].status # "processing"
      BY <1>2 DEF MayProcess, ActiveFits
    <2>4. /\ job' \in [Jobs -> JobRecords]
          /\ job'[next].status = "processing"
          /\ job'[next].kind = js[next].kind /\ job'[next].file = js[next].file
          /\ \A j \in Jobs \ {next} : job'[j] = js[j]
      BY <2>1, <2>2 DEF JobRecords, JobStatuses
    <2>5. RunOf(next) \in Messages
      BY <2>2 DEF RunOf, Messages
    <2>6. ~Sent(sent, RunOf(next)) /\ ~Cancelling(next, sent, cancelled)
          /\ ops[next].phase = "none"
      BY <2>2 DEF AllFit, Fit
    <2>7. /\ toMain' \in Seq(Messages) /\ RunsOnce(toMain')
          /\ \A m \in Messages : Sent(toMain', m)
                                   <=> Sent(sent, m) \/ m = RunOf(next)
      BY <2>1, <2>5, <2>6, SentAppend
    <2>8. \A j \in Jobs :
            /\ Sent(toMain', RunOf(j)) <=> Sent(sent, RunOf(j)) \/ j = next
            /\ Sent(toMain', CancelOf(j)) <=> Sent(sent, CancelOf(j))
      <3> TAKE j \in Jobs
      <3>1. /\ RunOf(j) \in Messages /\ CancelOf(j) \in Messages
            /\ RunOf(j) = RunOf(next) <=> j = next
            /\ CancelOf(j) # RunOf(next)
        BY DEF RunOf, CancelOf, Messages
      <3> QED BY <2>7, <3>1
    <2>9. AllFit(job', ops, toMain', cancelled)
      <3> SUFFICES ASSUME NEW j \in Jobs
                   PROVE  Fit(job'[j], ops[j], Sent(toMain', RunOf(j)),
                              Cancelling(j, toMain', cancelled))
        BY DEF AllFit
      <3>1. Cancelling(j, toMain', cancelled) <=> Cancelling(j, sent, cancelled)
        BY <2>8 DEF Cancelling
      <3>2. CASE j = next
        BY <2>4, <2>6, <3>1, <3>2 DEF Fit
      <3>3. CASE j # next
        BY <2>4, <2>8, <3>1, <3>3 DEF AllFit, Fit
      <3> QED BY <3>2, <3>3
    <2>10. ListFits(jobs', job')
      BY <1>1, <2>2, <2>4 DEF ListFits
    <2>11. ActiveFits(job', processing', activeJobId')
      BY <2>1, <2>2, <2>3, <2>4 DEF ActiveFits
    <2>12. NeverSleeps'
      BY <2>1 DEF NeverSleeps
    <2> QED BY <1>1, <2>4, <2>7, <2>9, <2>10, <2>11, <2>12
  <1>3. CASE ~(MayProcess(busy, halted) /\ Queued(list, js) # {})
    <2>1. /\ processing' = busy /\ job' = js /\ toMain' = sent
          /\ activeJobId' = IF busy THEN activeJobId ELSE NoJob
      BY <1>3 DEF ProcessNext
    <2>2. ASSUME NEW j \in Jobs, js[j].status = "queued"
          PROVE  busy \/ halted
      <3>1. PICK i \in DOMAIN list : list[i] = j
        BY <2>2 DEF ListFits
      <3>2. Queued(list, js) # {}
        BY <2>2, <3>1 DEF Queued
      <3> QED BY <1>3, <3>2 DEF MayProcess
    <2>3. NeverSleeps'
      BY <1>1, <2>1, <2>2 DEF NeverSleeps
    <2> QED BY <1>1, <2>1, <2>3
  <1> QED BY <1>2, <1>3

-----------------------------------------------------------------------------
(* The steps of the page and of the messages. *)

PageStep ==
    /\ OpsTypeOK'
    /\ reloads' \in 0 .. scenario'.reloads
    /\ PageInv'
    /\ SavedInv'

(* A handler that ends in #processNext(). *)
LEMMA NextJobInv ==
  ASSUME IInv, NEW list \in Seq(Jobs), NEW js \in [Jobs -> JobRecords],
         NEW busy \in BOOLEAN, NEW halted \in BOOLEAN,
         NEW sent \in Seq(Messages), RunsOnce(sent),
         ListFits(list, js),
         ActiveFits(js, busy, IF busy THEN activeJobId ELSE NoJob),
         AllFit(js, op', sent, cancelledJobIds),
         \A j \in Jobs : JobSaved(js[j]),
         OpsTypeOK', \A o \in Ops : OpSaved(op'[o]),
         ProcessNext(list, js, busy, halted, sent),
         UNCHANGED <<reloads, cancelledJobIds, storeVars, scenario>>
  PROVE  PageStep
  <1>1. /\ jobs' \in Seq(Jobs)
        /\ job' \in [Jobs -> JobRecords]
        /\ queuePaused' \in BOOLEAN
        /\ toMain' \in Seq(Messages)
        /\ RunsOnce(toMain')
        /\ ListFits(jobs', job')
        /\ ActiveFits(job', processing', activeJobId')
        /\ NeverSleeps'
        /\ AllFit(job', op', toMain', cancelledJobIds)
        /\ \A j \in Jobs : /\ job'[j].kind = js[j].kind
                           /\ job'[j].file = js[j].file
                           /\ job'[j].status = js[j].status
                                \/ job'[j].status = "processing"
    BY NextJob
  <1>2. AllFit(job, op, toMain, cancelledJobIds)'
    BY <1>1 DEF AllFit, Fit, Cancelling
  <1>3. PageInv'
    BY <1>1, <1>2 DEF PageInv, RunsOnce, ListFits, ActiveFits
  <1>4. (\A j \in Jobs : JobSaved(job[j]))'
    BY <1>1 DEF JobSaved
  <1>5. (\A o \in Ops : OpSaved(op[o]))'
    BY DEF OpSaved
  <1>6. reloads' \in 0 .. scenario'.reloads
    BY DEF IInv
  <1> QED BY <1>3, <1>4, <1>5, <1>6 DEF PageStep, SavedInv

(* A handler that sends nothing, calls nothing and leaves the flags alone. *)
LEMMA QuietStepInv ==
  ASSUME IInv, jobs' \in Seq(Jobs), job' \in [Jobs -> JobRecords],
         queuePaused' \in BOOLEAN,
         ListFits(jobs', job'), NeverSleeps',
         \A j \in Jobs : /\ job'[j].kind = job[j].kind
                         /\ job'[j].file = job[j].file
                         /\ job'[j].status # "completed"
                              \/ job[j].status = "completed"
                         /\ job'[j].status = "processing"
                              <=> job[j].status = "processing",
         AllFit(job', op, toMain, cancelledJobIds),
         UNCHANGED <<processing, activeJobId, toMain, reloads, opsVars, scenario>>
  PROVE  PageStep
  <1> USE DEF opsVars
  <1>1. AllFit(job, op, toMain, cancelledJobIds)'
    BY DEF AllFit, Fit, Cancelling
  <1>2. ActiveFits(job, processing, activeJobId)'
    BY DEF ActiveFits, IInv, PageInv
  <1>3. toMain' \in Seq(Messages) /\ RunsOnce(toMain)'
    BY DEF IInv, PageInv, RunsOnce
  <1>4. PageInv'
    BY <1>1, <1>2, <1>3 DEF PageInv, ListFits
  <1>5. SavedInv'
    BY DEF IInv, SavedInv, JobSaved, OpSaved
  <1>6. OpsTypeOK' /\ reloads' \in 0 .. scenario'.reloads
    BY DEF IInv, OpsTypeOK
  <1> QED BY <1>4, <1>5, <1>6 DEF PageStep

(* enqueue(). *)
LEMMA EnqueueInv ==
  ASSUME IInv, NEW j \in Jobs, NEW kind \in Kinds, NEW f \in Recordings,
         Enqueue(j, kind, f), UNCHANGED scenario
  PROVE  PageStep
  <1> DEFINE rec == [status |-> "queued", kind |-> kind, file |-> f,
                     cancelRequested |-> FALSE]
             js == [job EXCEPT ![j] = rec]
             list == Append(jobs, j)
  <1>1. /\ job[j].status = "none"
        /\ ProcessNext(list, js, processing, queuePaused, toMain)
        /\ UNCHANGED <<reloads, op, cancelledJobIds, storeVars>>
    BY DEF Enqueue, opsVars
  <1>2. PageInv /\ SavedInv /\ OpsTypeOK
    BY DEF IInv
  <1>3. /\ js \in [Jobs -> JobRecords] /\ js[j] = rec
        /\ rec.status = "queued"
        /\ \A k \in Jobs \ {j} : js[k] = job[k]
    BY <1>2 DEF PageInv, JobRecords, JobStatuses
  <1>4. list \in Seq(Jobs) /\ ListFits(list, js)
    <2>1. jobs \in Seq(Jobs)
      BY <1>2 DEF PageInv
    <2>2. /\ list \in Seq(Jobs) /\ Len(jobs) \in Nat
          /\ DOMAIN jobs = 1 .. Len(jobs) /\ DOMAIN list = 1 .. Len(jobs) + 1
          /\ list[Len(jobs) + 1] = j
          /\ \A i \in 1 .. Len(jobs) : list[i] = jobs[i]
      BY <2>1
    <2>3. \A k \in Jobs : (\E i \in DOMAIN list : list[i] = k)
                            <=> (\E i \in DOMAIN jobs : jobs[i] = k) \/ k = j
      BY <2>2
    <2> HIDE DEF list, js, rec
    <2> QED BY <1>2, <1>3, <2>2, <2>3 DEF PageInv, ListFits
  <1> HIDE DEF js, rec, list
  <1>5. ActiveFits(js, processing, IF processing THEN activeJobId ELSE NoJob)
    BY <1>1, <1>2, <1>3 DEF PageInv, ActiveFits
  <1>6. AllFit(js, op', toMain, cancelledJobIds)
    BY <1>1, <1>2, <1>3 DEF PageInv, AllFit, Fit
  <1>7. \A k \in Jobs : JobSaved(js[k])
    BY <1>2, <1>3 DEF SavedInv, JobSaved
  <1>8. OpsTypeOK' /\ \A o \in Ops : OpSaved(op'[o])
    BY <1>1, <1>2 DEF OpsTypeOK, SavedInv
  <1>9. /\ processing \in BOOLEAN /\ queuePaused \in BOOLEAN
        /\ toMain \in Seq(Messages) /\ RunsOnce(toMain)
    BY <1>2 DEF PageInv, ActiveFits
  <1> QED BY <1>1, <1>3, <1>4, <1>5, <1>6, <1>7, <1>8, <1>9, NextJobInv

(* The handlers that change at most one status before #processNext(). *)
LEMMA ResumeRetryInv ==
  ASSUME IInv, UNCHANGED scenario,
         \/ ResumeQueue
         \/ \E j \in Jobs : RetryJob(j)
  PROVE  PageStep
  <1>1. PageInv /\ SavedInv /\ OpsTypeOK
    BY DEF IInv
  <1>2. /\ processing \in BOOLEAN /\ jobs \in Seq(Jobs)
        /\ job \in [Jobs -> JobRecords]
        /\ toMain \in Seq(Messages) /\ RunsOnce(toMain)
        /\ ListFits(jobs, job)
        /\ ActiveFits(job, processing,
                      IF processing THEN activeJobId ELSE NoJob)
        /\ AllFit(job, op, toMain, cancelledJobIds)
    BY <1>1 DEF PageInv, ActiveFits
  <1>4. CASE ResumeQueue
    <2>1. /\ ProcessNext(jobs, job, processing, FALSE, toMain)
          /\ UNCHANGED <<reloads, op, cancelledJobIds, storeVars>>
      BY <1>4 DEF ResumeQueue, opsVars
    <2>2. OpsTypeOK' /\ \A o \in Ops : OpSaved(op'[o])
      BY <1>1, <2>1 DEF OpsTypeOK, SavedInv
    <2>3. \A k \in Jobs : JobSaved(job[k])
      BY <1>1 DEF SavedInv
    <2>4. AllFit(job, op', toMain, cancelledJobIds)
      BY <1>2, <2>1
    <2> QED BY <1>2, <2>1, <2>2, <2>3, <2>4, NextJobInv
  <1>5. CASE \E j \in Jobs : RetryJob(j)
    <2>0. PICK j \in Jobs : RetryJob(j)
      BY <1>5
    <2> DEFINE js == [job EXCEPT ![j].status = "queued"]
    <2>1. /\ job[j].status = "failed"
          /\ ProcessNext(jobs, js, processing, FALSE, toMain)
          /\ UNCHANGED <<reloads, op, cancelledJobIds, storeVars>>
      BY <2>0 DEF RetryJob, opsVars
    <2>2. /\ js \in [Jobs -> JobRecords] /\ js[j].status = "queued"
          /\ \A k \in Jobs : js[k].kind = job[k].kind /\ js[k].file = job[k].file
          /\ \A k \in Jobs \ {j} : js[k] = job[k]
      BY <1>2 DEF JobRecords, JobStatuses
    <2> HIDE DEF js
    <2>3. ListFits(jobs, js)
      BY <1>2, <2>1, <2>2 DEF ListFits
    <2>4. ActiveFits(js, processing, IF processing THEN activeJobId ELSE NoJob)
      BY <1>2, <2>1, <2>2 DEF ActiveFits
    <2>5. AllFit(js, op', toMain, cancelledJobIds)
      BY <1>2, <2>1, <2>2 DEF AllFit, Fit
    <2>6. \A k \in Jobs : JobSaved(js[k])
      BY <1>1, <2>1, <2>2 DEF SavedInv, JobSaved
    <2>7. OpsTypeOK' /\ \A o \in Ops : OpSaved(op'[o])
      BY <1>1, <2>1 DEF OpsTypeOK, SavedInv
    <2> QED BY <1>2, <2>1, <2>2, <2>3, <2>4, <2>5, <2>6, <2>7, NextJobInv
  <1> QED BY <1>4, <1>5

(* A cancellation is sent for the job in progress; js are the statuses that
   cancelAllActive() has left (transcriptionQueueService.preload.ts:285-323). *)
LEMMA CancelsInv ==
  ASSUME IInv, NEW js \in [Jobs -> JobRecords], NEW j \in Jobs,
         job[j].status = "processing", js[j].status = "processing",
         \A k \in Jobs : /\ js[k].kind = job[k].kind /\ js[k].file = job[k].file
                         /\ js[k] = job[k] \/ /\ job[k].status = "queued"
                                              /\ js[k].status = "cancelled",
         Cancels(js, j),
         UNCHANGED <<jobs, queuePaused, processing, activeJobId, reloads,
                     opsVars, scenario>>
  PROVE  PageStep
  <1> USE DEF opsVars
  <1>1. PageInv /\ SavedInv /\ OpsTypeOK
    BY DEF IInv
  <1>2. /\ job' = [js EXCEPT ![j].cancelRequested = TRUE]
        /\ toMain' = Append(toMain, CancelOf(j))
    BY DEF Cancels, CancelOf
  <1>3. /\ job' \in [Jobs -> JobRecords]
        /\ job'[j].cancelRequested = TRUE
        /\ \A k \in Jobs : /\ job'[k].status = js[k].status
                           /\ job'[k].kind = job[k].kind
                           /\ job'[k].file = job[k].file
        /\ \A k \in Jobs \ {j} : job'[k] = js[k]
    BY <1>2 DEF JobRecords
  <1>4. CancelOf(j) \in Messages /\ CancelOf(j).do # "run"
    BY DEF CancelOf, Messages
  <1>5. /\ toMain' \in Seq(Messages) /\ RunsOnce(toMain')
        /\ \A m \in Messages : Sent(toMain', m)
                                 <=> Sent(toMain, m) \/ m = CancelOf(j)
    BY <1>1, <1>2, <1>4, SentAppend DEF PageInv
  <1>6. \A k \in Jobs :
          /\ Sent(toMain', RunOf(k)) <=> Sent(toMain, RunOf(k))
          /\ Sent(toMain', CancelOf(k)) <=> Sent(toMain, CancelOf(k)) \/ k = j
    <2> TAKE k \in Jobs
    <2>1. /\ RunOf(k) \in Messages /\ CancelOf(k) \in Messages
          /\ CancelOf(k) = CancelOf(j) <=> k = j
          /\ RunOf(k) # CancelOf(j)
      BY DEF RunOf, CancelOf, Messages
    <2> QED BY <1>5, <2>1
  <1>7. AllFit(job, op, toMain, cancelledJobIds)'
    <2> SUFFICES ASSUME NEW k \in Jobs
                 PROVE  Fit(job[k], op[k], Sent(toMain, RunOf(k)),
                            Cancelling(k, toMain, cancelledJobIds))'
      BY DEF AllFit
    <2>1. Fit(job[k], op[k], Sent(toMain, RunOf(k)),
              Cancelling(k, toMain, cancelledJobIds))
      BY <1>1 DEF PageInv, AllFit
    <2>2. CASE k = j
      BY <1>3, <1>6, <2>1, <2>2 DEF Fit
    <2>3. CASE k # j /\ js[k] = job[k]
      BY <1>3, <1>6, <2>1, <2>3 DEF Fit, Cancelling
    <2>4. CASE k # j /\ job[k].status = "queued" /\ js[k].status = "cancelled"
      BY <1>3, <1>6, <2>1, <2>4 DEF Fit
    <2> QED BY <2>2, <2>3, <2>4
  <1>8. ListFits(jobs, job)'
    BY <1>1, <1>3 DEF PageInv, ListFits
  <1>9. ActiveFits(job, processing, activeJobId)'
    BY <1>1, <1>3 DEF PageInv, ActiveFits
  <1>10. NeverSleeps'
    BY <1>1, <1>3 DEF PageInv, NeverSleeps
  <1>11. PageInv'
    BY <1>1, <1>3, <1>5, <1>7, <1>8, <1>9, <1>10 DEF PageInv, RunsOnce
  <1>12. SavedInv'
    BY <1>1, <1>3 DEF SavedInv, JobSaved, OpSaved
  <1>13. OpsTypeOK' /\ reloads' \in 0 .. scenario'.reloads
    BY <1>1 DEF IInv, OpsTypeOK
  <1> QED BY <1>11, <1>12, <1>13 DEF PageStep

(* pauseQueue() and the cancellation of queued jobs. *)
LEMMA PauseCancelInv ==
  ASSUME IInv, UNCHANGED scenario,
         \/ PauseQueue
         \/ \E j \in Jobs : CancelJob(j)
         \/ CancelAllActive
  PROVE  PageStep
  <1> USE DEF opsVars
  <1>1. PageInv /\ job \in [Jobs -> JobRecords] /\ jobs \in Seq(Jobs)
        /\ AllFit(job, op, toMain, cancelledJobIds)
        /\ ListFits(jobs, job)
    BY DEF IInv, PageInv
  <1>2. CASE PauseQueue
    <2>1. /\ queuePaused' = TRUE
          /\ UNCHANGED <<jobs, job, processing, activeJobId, toMain, reloads,
                         opsVars>>
      BY <1>2 DEF PauseQueue
    <2>2. NeverSleeps' /\ ListFits(jobs', job')
      BY <1>1, <2>1 DEF NeverSleeps
    <2> QED BY <1>1, <2>1, <2>2, QuietStepInv
  <1>3. ASSUME NEW js \in [Jobs -> JobRecords],
               \A k \in Jobs : /\ js[k].kind = job[k].kind
                               /\ js[k].file = job[k].file
                               /\ js[k] = job[k] \/ /\ job[k].status = "queued"
                                                    /\ js[k].status = "cancelled",
               job' = js,
               UNCHANGED <<jobs, queuePaused, processing, activeJobId, toMain,
                           reloads, opsVars>>
        PROVE  PageStep
    <2>1. ListFits(jobs', job')
      BY <1>1, <1>3 DEF ListFits
    <2>2. NeverSleeps'
      BY <1>1, <1>3 DEF PageInv, NeverSleeps
    <2>3. AllFit(job', op, toMain, cancelledJobIds)
      BY <1>1, <1>3 DEF AllFit, Fit
    <2>4. \A k \in Jobs : /\ job'[k].kind = job[k].kind
                          /\ job'[k].file = job[k].file
                          /\ job'[k].status # "completed"
                               \/ job[k].status = "completed"
                          /\ job'[k].status = "processing"
                               <=> job[k].status = "processing"
      BY <1>3
    <2>5. queuePaused' \in BOOLEAN
      BY <1>1, <1>3 DEF PageInv
    <2> QED BY <1>1, <1>3, <2>1, <2>2, <2>3, <2>4, <2>5, QuietStepInv
  <1>4. ASSUME NEW j \in Jobs, CancelJob(j) PROVE PageStep
    <2>1. UNCHANGED <<jobs, queuePaused, processing, activeJobId, reloads,
                      opsVars>>
      BY <1>4 DEF CancelJob
    <2>2. CASE /\ job[j].status = "queued" /\ UNCHANGED toMain
               /\ job' = [job EXCEPT ![j].status = "cancelled"]
      <3> DEFINE js == [job EXCEPT ![j].status = "cancelled"]
      <3>1. /\ js \in [Jobs -> JobRecords]
            /\ \A k \in Jobs : /\ js[k].kind = job[k].kind
                               /\ js[k].file = job[k].file
                               /\ js[k] = job[k] \/ /\ job[k].status = "queued"
                                                    /\ js[k].status = "cancelled"
        BY <1>1, <2>2 DEF JobRecords, JobStatuses
      <3> HIDE DEF js
      <3>2. job' = js
        BY <2>2 DEF js
      <3> QED BY <1>3, <2>1, <2>2, <3>1, <3>2
    <2>3. CASE job[j].status = "processing" /\ Cancels(job, j)
      BY <1>1, <2>1, <2>3, CancelsInv
    <2> QED BY <1>4, <2>2, <2>3 DEF CancelJob
  <1>5. CASE CancelAllActive
    <2> DEFINE js == [j \in Jobs |-> IF Listed(j) /\ job[j].status = "queued"
                                     THEN [job[j] EXCEPT !.status = "cancelled"]
                                     ELSE job[j]]
    <2>1. /\ IF activeJobId # NoJob
             THEN Cancels(js, activeJobId)
             ELSE job' = js /\ UNCHANGED toMain
          /\ UNCHANGED <<jobs, queuePaused, processing, activeJobId, reloads,
                         opsVars>>
      BY <1>5 DEF CancelAllActive
    <2>2. /\ js \in [Jobs -> JobRecords]
          /\ \A k \in Jobs : /\ js[k].kind = job[k].kind
                             /\ js[k].file = job[k].file
                             /\ js[k] = job[k] \/ /\ job[k].status = "queued"
                                                  /\ js[k].status = "cancelled"
      BY <1>1 DEF JobRecords, JobStatuses
    <2> HIDE DEF js
    <2>3. CASE activeJobId # NoJob
      <3>1. activeJobId \in Jobs /\ job[activeJobId].status = "processing"
        BY <1>1, <2>3 DEF PageInv, ActiveFits
      <3>2. js[activeJobId].status = "processing"
        BY <2>2, <3>1
      <3> QED BY <2>1, <2>2, <2>3, <3>1, <3>2, CancelsInv
    <2>4. CASE activeJobId = NoJob
      BY <1>3, <2>1, <2>2, <2>4
    <2> QED BY <2>3, <2>4
  <1> QED BY <1>2, <1>4, <1>5

(* removeJob() and clearCompleted(): a job that is not in progress is forgotten
   with its place in the array. *)
LEMMA RemoveInv ==
  ASSUME IInv, UNCHANGED scenario, NEW gone \in SUBSET Jobs,
         \A j \in gone : Listed(j) /\ job[j].status # "processing",
         Remove(gone)
  PROVE  PageStep
  <1> DEFINE I == {i \in DOMAIN jobs : jobs[i] \notin gone}
  <1>1. /\ job \in [Jobs -> JobRecords] /\ jobs \in Seq(Jobs)
        /\ AllFit(job, op, toMain, cancelledJobIds)
        /\ ListFits(jobs, job) /\ NeverSleeps /\ queuePaused \in BOOLEAN
    BY DEF IInv, PageInv
  <1>2. /\ jobs' = ElementsAt(jobs, I)
        /\ job' = [j \in Jobs |-> IF j \in gone
                                  THEN [job[j] EXCEPT !.status = "gone"]
                                  ELSE job[j]]
        /\ UNCHANGED <<queuePaused, processing, activeJobId, toMain, reloads,
                       opsVars>>
    BY DEF Remove
  <1>3. /\ jobs' \in Seq(Jobs)
        /\ \A j \in Jobs : (\E n \in DOMAIN jobs' : jobs'[n] = j)
                             <=> \E i \in I : jobs[i] = j
    <2> HIDE DEF I
    <2>1. I \in SUBSET DOMAIN jobs
      BY DEF I
    <2>2. jobs \in Seq(Jobs)
      BY <1>1
    <2>3. /\ jobs' \in Seq(Jobs)
          /\ \A n \in DOMAIN jobs' : \E i \in I : jobs'[n] = jobs[i]
          /\ \A i \in I : \E n \in DOMAIN jobs' : jobs'[n] = jobs[i]
      BY <1>2, <2>1, <2>2, ElementsAtProperties
    <2> QED BY <2>3, Zenon
  <1>4. /\ job' \in [Jobs -> JobRecords]
        /\ \A j \in gone : /\ job'[j].status = "gone"
                           /\ job'[j].kind = job[j].kind
                           /\ job'[j].file = job[j].file
        /\ \A j \in Jobs \ gone : job'[j] = job[j]
    BY <1>1, <1>2 DEF JobRecords, JobStatuses
  <1>5. ListFits(jobs', job')
    <2>1. \A j \in Jobs : (\E n \in DOMAIN jobs' : jobs'[n] = j)
                            <=> (\E i \in DOMAIN jobs : jobs[i] = j) /\ j \notin gone
      BY <1>3
    <2> QED BY <1>1, <1>4, <2>1 DEF ListFits
  <1>6. NeverSleeps'
    BY <1>1, <1>2, <1>4 DEF NeverSleeps
  <1>7. AllFit(job', op, toMain, cancelledJobIds)
    <2> SUFFICES ASSUME NEW j \in Jobs
                 PROVE  Fit(job'[j], op[j], Sent(toMain, RunOf(j)),
                            Cancelling(j, toMain, cancelledJobIds))
      BY DEF AllFit
    <2>1. CASE j \in gone
      BY <1>1, <1>4, <2>1 DEF AllFit, Fit
    <2>2. CASE j \notin gone
      BY <1>1, <1>4, <2>2 DEF AllFit
    <2> QED BY <2>1, <2>2
  <1>8. \A j \in Jobs : /\ job'[j].kind = job[j].kind
                        /\ job'[j].file = job[j].file
                        /\ job'[j].status # "completed"
                             \/ job[j].status = "completed"
                        /\ job'[j].status = "processing"
                             <=> job[j].status = "processing"
    BY <1>4
  <1> QED BY <1>1, <1>2, <1>3, <1>4, <1>5, <1>6, <1>7, <1>8, QuietStepInv

(* A new page knows of no job; the main process goes on. *)
LEMMA ReloadInv ==
  ASSUME IInv, Reload, UNCHANGED scenario
  PROVE  PageStep
  <1> USE DEF opsVars
  <1>1. /\ job \in [Jobs -> JobRecords] /\ PageInv /\ SavedInv
        /\ AllFit(job, op, toMain, cancelledJobIds)
        /\ ListFits(jobs, job) /\ OpsTypeOK
    BY DEF IInv, PageInv
  <1>2. /\ reloads' = reloads + 1 /\ reloads < scenario.reloads
        /\ jobs' = <<>> /\ queuePaused' = FALSE /\ processing' = FALSE
        /\ activeJobId' = NoJob /\ UNCHANGED <<toMain, opsVars>>
        /\ job' = [j \in Jobs |-> IF Listed(j)
                                  THEN [job[j] EXCEPT !.status = "gone"]
                                  ELSE job[j]]
    BY DEF Reload
  <1>3. /\ job' \in [Jobs -> JobRecords]
        /\ \A j \in Jobs : /\ job'[j].status \in {"none", "gone"}
                           /\ job'[j].status = "none" => job'[j] = job[j]
                           /\ job'[j].kind = job[j].kind
                           /\ job'[j].file = job[j].file
    BY <1>1, <1>2 DEF JobRecords, JobStatuses, ListFits, Listed
  <1>4. reloads' \in 0 .. scenario'.reloads /\ reloads' # 0
    <2>1. scenario.reloads \in Nat
      BY ScenarioAssumption, <1>1 DEF OpsTypeOK, Scenario
    <2> QED BY <1>2, <2>1 DEF IInv
  <1>5. AllFit(job, op, toMain, cancelledJobIds)'
    <2> SUFFICES ASSUME NEW j \in Jobs
                 PROVE  Fit(job[j], op[j], Sent(toMain, RunOf(j)),
                            Cancelling(j, toMain, cancelledJobIds))'
      BY DEF AllFit
    <2>1. Fit(job[j], op[j], Sent(toMain, RunOf(j)),
              Cancelling(j, toMain, cancelledJobIds))
      BY <1>1 DEF AllFit
    <2> QED BY <1>2, <1>3, <1>4, <2>1 DEF Fit, Cancelling
  <1>6. ListFits(jobs, job)'
    BY <1>2, <1>3 DEF ListFits
  <1>7. ActiveFits(job, processing, activeJobId)'
    BY <1>2, <1>3, NoJobAssumption DEF ActiveFits
  <1>8. NeverSleeps'
    BY <1>3 DEF NeverSleeps
  <1>9. jobs' \in Seq(Jobs) /\ toMain' \in Seq(Messages) /\ RunsOnce(toMain)'
    BY <1>1, <1>2 DEF PageInv, RunsOnce
  <1>10. PageInv'
    BY <1>2, <1>3, <1>5, <1>6, <1>7, <1>8, <1>9 DEF PageInv
  <1>11. SavedInv'
    BY <1>1, <1>2, <1>3 DEF SavedInv, JobSaved, OpSaved
  <1>12. OpsTypeOK'
    BY <1>1, <1>2 DEF OpsTypeOK
  <1> QED BY <1>4, <1>10, <1>11, <1>12 DEF PageStep

(* The answer ends the job in progress: a failure counts as a cancellation if
   one was requested, and then only (transcriptionQueueService.preload.ts:
   338-420). *)
LEMMA SettleInv ==
  ASSUME IInv, NEW j \in Jobs, Settle(j), UNCHANGED scenario
  PROVE  PageStep
  <1> DEFINE end == Settled(j)
             stays == end = "completed" /\ job[j].cancelRequested
             js == [job EXCEPT ![j].status = end, ![j].cancelRequested = stays]
  <1>1. /\ job \in [Jobs -> JobRecords] /\ jobs \in Seq(Jobs)
        /\ op \in [Ops -> OpRecords] /\ j \in Ops
        /\ AllFit(job, op, toMain, cancelledJobIds)
        /\ ListFits(jobs, job) /\ ActiveFits(job, processing, activeJobId)
        /\ SavedInv /\ OpsTypeOK /\ queuePaused \in BOOLEAN
        /\ toMain \in Seq(Messages) /\ RunsOnce(toMain)
    BY DEF IInv, PageInv, OpsTypeOK, OpRecords, Ops
  <1>2. /\ activeJobId = j /\ op[j].phase \in {"done", "failed"}
        /\ ProcessNext(jobs, js, FALSE, queuePaused, toMain)
        /\ op' = [op EXCEPT ![j].phase = "none"]
        /\ UNCHANGED <<reloads, cancelledJobIds, storeVars>>
    BY DEF Settle, Answered
  <1>3. /\ end \in {"completed", "cancelled", "failed"}
        /\ end = "completed" => op[j].phase = "done"
        /\ end = "failed" => ~job[j].cancelRequested
        /\ stays \in BOOLEAN
    BY <1>2 DEF Settled
  <1> HIDE DEF end, stays
  <1>4. /\ js \in [Jobs -> JobRecords] /\ js[j].status = end
        /\ js[j].kind = job[j].kind /\ js[j].file = job[j].file
        /\ \A k \in Jobs \ {j} : js[k] = job[k]
    BY <1>1, <1>3 DEF JobRecords, JobStatuses
  <1>5. /\ op' \in [Ops -> OpRecords] /\ op'[j].phase = "none"
        /\ \A o \in Ops \ {j} : op'[o] = op[o]
    BY <1>1, <1>2 DEF OpRecords, Phases
  <1> HIDE DEF js
  <1>6. job[j].status = "processing"
    BY <1>1, <1>2 DEF ActiveFits
  <1>7. Fit(job[j], op[j], Sent(toMain, RunOf(j)),
            Cancelling(j, toMain, cancelledJobIds))
    BY <1>1 DEF AllFit
  <1>8. AllFit(js, op', toMain, cancelledJobIds)
    <2> SUFFICES ASSUME NEW k \in Jobs
                 PROVE  Fit(js[k], op'[k], Sent(toMain, RunOf(k)),
                            Cancelling(k, toMain, cancelledJobIds))
      BY DEF AllFit
    <2>1. CASE k = j
      <3>1. ~Sent(toMain, RunOf(j))
        BY <1>2, <1>7 DEF Fit
      <3>2. end = "failed" => ~Cancelling(j, toMain, cancelledJobIds)
        BY <1>3, <1>6, <1>7 DEF Fit
      <3> QED BY <1>3, <1>4, <1>5, <2>1, <3>1, <3>2 DEF Fit
    <2>2. CASE k # j
      BY <1>1, <1>4, <1>5, <2>2 DEF AllFit, Ops
    <2> QED BY <2>1, <2>2
  <1>9. ListFits(jobs, js)
    BY <1>1, <1>3, <1>4, <1>6 DEF ListFits
  <1>10. ActiveFits(js, FALSE, IF FALSE THEN activeJobId ELSE NoJob)
    BY <1>1, <1>2, <1>3, <1>4, NoJobAssumption DEF ActiveFits
  <1>11. \A k \in Jobs : JobSaved(js[k])
    <2> TAKE k \in Jobs
    <2>1. CASE k = j
      <3>1. OpSaved(op[j])
        BY <1>1 DEF SavedInv
      <3>2. op[j].kind = job[j].kind /\ op[j].file = job[j].file
        BY <1>2, <1>7 DEF Fit
      <3> QED BY <1>3, <1>4, <2>1, <3>1, <3>2 DEF JobSaved, OpSaved, Reporting
    <2>2. CASE k # j
      BY <1>1, <1>4, <2>2 DEF SavedInv
    <2> QED BY <2>1, <2>2
  <1>12. \A o \in Ops : OpSaved(op'[o])
    <2> TAKE o \in Ops
    <2>1. CASE o = j
      BY <1>5, <2>1 DEF OpSaved, Reporting
    <2>2. CASE o # j
      BY <1>1, <1>5, <2>2 DEF SavedInv
    <2> QED BY <2>1, <2>2
  <1>13. OpsTypeOK'
    BY <1>1, <1>2, <1>5 DEF OpsTypeOK, OpRecords
  <1>14. FALSE \in BOOLEAN
    OBVIOUS
  <1> QED BY <1>1, <1>2, <1>4, <1>8, <1>9, <1>10, <1>11, <1>12, <1>13, <1>14,
             NextJobInv

(* The main process takes a message: it begins, or notes a cancellation
   (minutes_channel.main.ts:476-569). *)
LEMMA ReceiveInv ==
  ASSUME IInv, Receive, UNCHANGED scenario
  PROVE  PageStep
  <1> DEFINE m == Head(toMain)
             j == m.job
  <1>1. /\ PageInv /\ job \in [Jobs -> JobRecords] /\ jobs \in Seq(Jobs)
        /\ op \in [Ops -> OpRecords] /\ Jobs \subseteq Ops
        /\ AllFit(job, op, toMain, cancelledJobIds)
        /\ SavedInv /\ OpsTypeOK
        /\ toMain \in Seq(Messages) /\ RunsOnce(toMain)
    BY DEF IInv, PageInv, OpsTypeOK, OpRecords, Ops
  <1>2. toMain # <<>> /\ toMain' = Tail(toMain)
    BY DEF Receive
  <1>3. /\ m \in Messages /\ toMain' \in Seq(Messages) /\ RunsOnce(toMain')
        /\ Sent(toMain, m)
        /\ \A n \in Messages : Sent(toMain', n) => Sent(toMain, n)
        /\ m.do = "run" => ~Sent(toMain', m)
    BY <1>1, <1>2, SentTail
  <1>4. /\ IF m.do = "run"
           THEN /\ op' = [op EXCEPT ![j] = [phase |-> "load",
                                            kind |-> job[j].kind,
                                            file |-> job[j].file]]
                /\ UNCHANGED cancelledJobIds
           ELSE /\ cancelledJobIds' = cancelledJobIds \union {j}
                /\ UNCHANGED op
        /\ UNCHANGED <<jobs, job, queuePaused, processing, activeJobId, reloads,
                       storeVars>>
    BY DEF Receive
  <1> HIDE DEF m
  <1>5. /\ j \in Jobs
        /\ m.do = "run" => m = RunOf(j)
        /\ m.do # "run" => m = CancelOf(j)
    BY <1>3 DEF Messages, RunOf, CancelOf
  <1>6. \A k \in Jobs : RunOf(k) \in Messages /\ CancelOf(k) \in Messages
    BY DEF RunOf, CancelOf, Messages
  <1> HIDE DEF j
  <1>7. /\ ListFits(jobs, job)' /\ ActiveFits(job, processing, activeJobId)'
        /\ NeverSleeps' /\ jobs' \in Seq(Jobs) /\ job' \in [Jobs -> JobRecords]
        /\ queuePaused' \in BOOLEAN /\ RunsOnce(toMain)'
    BY <1>1, <1>3, <1>4
    DEF PageInv, ListFits, ActiveFits, NeverSleeps, RunsOnce
  <1>8. CASE m.do = "run"
    <2>1. /\ op' \in [Ops -> OpRecords] /\ op'[j].phase = "load"
          /\ op'[j].kind = job[j].kind /\ op'[j].file = job[j].file
          /\ \A o \in Ops \ {j} : op'[o] = op[o]
      <3> DEFINE begun == [phase |-> "load", kind |-> job[j].kind,
                           file |-> job[j].file]
      <3>1. begun \in OpRecords /\ begun.phase = "load"
            /\ begun.kind = job[j].kind /\ begun.file = job[j].file
        BY <1>1, <1>5 DEF OpRecords, JobRecords, Phases
      <3>2. op' = [op EXCEPT ![j] = begun]
        BY <1>4, <1>8
      <3> HIDE DEF begun
      <3> QED BY <1>1, <1>5, <3>1, <3>2
    <2>2. AllFit(job, op, toMain, cancelledJobIds)'
      <3> SUFFICES ASSUME NEW k \in Jobs
                   PROVE  Fit(job[k], op[k], Sent(toMain, RunOf(k)),
                              Cancelling(k, toMain, cancelledJobIds))'
        BY DEF AllFit
      <3>1. Fit(job[k], op[k], Sent(toMain, RunOf(k)),
                Cancelling(k, toMain, cancelledJobIds))
        BY <1>1 DEF AllFit
      <3>2. /\ Sent(toMain', RunOf(k)) => Sent(toMain, RunOf(k))
            /\ Cancelling(k, toMain', cancelledJobIds')
                 => Cancelling(k, toMain, cancelledJobIds)
        BY <1>3, <1>4, <1>6, <1>8 DEF Cancelling
      <3>3. CASE k = j
        <4>1. Sent(toMain, RunOf(j)) /\ ~Sent(toMain', RunOf(j))
          BY <1>3, <1>5, <1>8
        <4>2. job'[j] = job[j] /\ reloads' = reloads
          BY <1>4
        <4> QED BY <2>1, <3>1, <3>2, <3>3, <4>1, <4>2 DEF Fit
      <3>4. CASE k # j
        <4>1. job'[k] = job[k] /\ reloads' = reloads /\ op'[k] = op[k]
          BY <1>1, <1>4, <2>1, <3>4
        <4> QED BY <3>1, <3>2, <4>1 DEF Fit
      <3> QED BY <3>3, <3>4
    <2>3. (\A o \in Ops : OpSaved(op[o]))'
      <3> SUFFICES ASSUME NEW o \in Ops PROVE OpSaved(op[o])'
        OBVIOUS
      <3>1. CASE o = j
        BY <1>4, <2>1, <3>1 DEF OpSaved, Reporting
      <3>2. CASE o # j
        BY <1>1, <1>4, <2>1, <3>2 DEF SavedInv, OpSaved
      <3> QED BY <3>1, <3>2
    <2>4. SavedInv'
      BY <1>1, <1>4, <2>3 DEF SavedInv, JobSaved
    <2>5. OpsTypeOK' /\ reloads' \in 0 .. scenario'.reloads
      BY <1>1, <1>4, <1>8, <2>1 DEF IInv, OpsTypeOK, OpRecords
    <2> QED BY <1>3, <1>7, <2>2, <2>4, <2>5 DEF PageStep, PageInv
  <1>9. CASE m.do # "run"
    <2>1. cancelledJobIds' = cancelledJobIds \union {j} /\ op' = op
      BY <1>4, <1>9
    <2>2. AllFit(job, op, toMain, cancelledJobIds)'
      <3> SUFFICES ASSUME NEW k \in Jobs
                   PROVE  Fit(job[k], op[k], Sent(toMain, RunOf(k)),
                              Cancelling(k, toMain, cancelledJobIds))'
        BY DEF AllFit
      <3>1. Fit(job[k], op[k], Sent(toMain, RunOf(k)),
                Cancelling(k, toMain, cancelledJobIds))
        BY <1>1 DEF AllFit
      <3>2. /\ Sent(toMain', RunOf(k)) => Sent(toMain, RunOf(k))
            /\ Cancelling(k, toMain', cancelledJobIds')
                 => Cancelling(k, toMain, cancelledJobIds)
        BY <1>3, <1>5, <1>6, <1>9, <2>1 DEF Cancelling
      <3>3. job'[k] = job[k] /\ reloads' = reloads /\ op'[k] = op[k]
        BY <1>4, <2>1
      <3> QED BY <3>1, <3>2, <3>3 DEF Fit
    <2>3. SavedInv'
      BY <1>1, <1>4, <2>1 DEF SavedInv, JobSaved, OpSaved
    <2>4. OpsTypeOK' /\ reloads' \in 0 .. scenario'.reloads
      BY <1>1, <1>4, <1>5, <2>1 DEF IInv, OpsTypeOK
    <2> QED BY <1>3, <1>7, <2>2, <2>3, <2>4 DEF PageStep, PageInv
  <1> QED BY <1>8, <1>9

-----------------------------------------------------------------------------
(* The steps of the main process. *)

(* An operation goes from one phase to the next: it stays an operation of the
   same kind on the same recording, writes what the phase leaves behind and
   clears at most its own cancellation (callSummaryExtension.main.ts). *)
LEMMA OpStepMoves ==
  ASSUME OpsTypeOK, NEW o \in Ops, OpStep(o), UNCHANGED scenario
  PROVE  /\ OpsTypeOK'
         /\ op[o].phase \notin {"none", "done", "failed"}
         /\ op'[o].phase # "none"
         /\ op'[o].kind = op[o].kind /\ op'[o].file = op[o].file
         /\ \A p \in Ops \ {o} : op'[p] = op[p]
         /\ cancelledJobIds' \subseteq cancelledJobIds
         /\ deleted' = deleted /\ removing' = removing
         /\ \A f \in Recordings : files[f] \subseteq files'[f]
         /\ \A f \in Recordings : "sound" \in files'[f] => "sound" \in files[f]
         /\ OpSaved(op[o]) => OpSaved(op[o])'
  <1> DEFINE rec == op[o]
  <1>1. /\ op \in [Ops -> OpRecords] /\ files \in [Recordings -> SUBSET Artifacts]
        /\ cancelledJobIds \subseteq Jobs /\ deleted \subseteq Recordings
        /\ removing \in [Recordings -> 0 .. Len(DeletedArtifacts)]
        /\ \A f \in Recordings : removing[f] # 0 => f \in deleted
        /\ scenario \in Scenarios
    BY DEF OpsTypeOK, OpRecords
  <1>2. ASSUME NEW to \in Phases, op' = [op EXCEPT ![o].phase = to]
        PROVE  /\ op' \in [Ops -> OpRecords] /\ op'[o].phase = to
               /\ op'[o].kind = op[o].kind /\ op'[o].file = op[o].file
               /\ \A p \in Ops \ {o} : op'[p] = op[p]
    BY <1>1, <1>2 DEF OpRecords
  <1>3. CASE Advance(o)
    <2>1. PICK next \in Follows(op[o].kind, op[o].phase),
               new \in Written(op[o].phase) :
            /\ files' = [files EXCEPT ![op[o].file] = @ \union new]
            /\ LET to == IF StopsHere(o, next) THEN "failed" ELSE next
               IN  /\ op' = [op EXCEPT ![o].phase = to]
                   /\ cancelledJobIds' = Cleared(o, to)
            /\ UNCHANGED <<deleted, removing>>
      BY <1>3 DEF Advance
    <2> DEFINE to == IF StopsHere(o, next) THEN "failed" ELSE next
    <2>2. op' = [op EXCEPT ![o].phase = to] /\ cancelledJobIds' = Cleared(o, to)
      BY <2>1
    <2>3. op[o].kind \in Kinds /\ op[o].phase \in Phases
          /\ op[o].file \in Recordings
      BY <1>1 DEF OpRecords
    <2>4. /\ op[o].phase \notin {"none", "done", "failed", "emit"}
          /\ next \in Phases \ {"none", "load", "done", "failed"}
          /\ op[o].kind = "transcription" /\ next \in {"summary", "emit"} =>
                op[o].phase \in {"transcript", "summary"}
          /\ op[o].kind = "transcription" /\ op[o].phase = "summary" =>
                next = "emit"
          /\ op[o].kind = "summary" /\ next = "emit" => op[o].phase = "save"
      BY <2>3 DEF Follows, Kinds, Phases
    <2>5. /\ new \subseteq Artifacts \ {"sound"}
          /\ op[o].phase = "transcript" => new = {"transcript"}
          /\ op[o].phase = "save" => new = {"summary"}
      BY <2>3 DEF Written, Artifacts, Phases
    <2>6. to \in Phases /\ to # "none" /\ (to # "failed" => to = next)
      BY <2>4 DEF Phases
    <2> HIDE DEF to
    <2>7. /\ op' \in [Ops -> OpRecords] /\ op'[o].phase = to
          /\ op'[o].kind = op[o].kind /\ op'[o].file = op[o].file
          /\ \A p \in Ops \ {o} : op'[p] = op[p]
      BY <1>2, <2>2, <2>6
    <2>8. /\ files' \in [Recordings -> SUBSET Artifacts]
          /\ files'[op[o].file] = files[op[o].file] \union new
          /\ \A f \in Recordings : files[f] \subseteq files'[f]
          /\ \A f \in Recordings : "sound" \in files'[f] => "sound" \in files[f]
      BY <1>1, <2>1, <2>3, <2>5
    <2>9. cancelledJobIds' \subseteq cancelledJobIds
      BY <2>2 DEF Cleared
    <2>10. OpsTypeOK'
      BY <1>1, <2>1, <2>7, <2>8, <2>9 DEF OpsTypeOK, OpRecords
    <2>11. OpSaved(op[o]) => OpSaved(op[o])'
      <3> SUFFICES ASSUME OpSaved(op[o]), op[o].file \notin deleted,
                          to \in Reporting(op[o].kind)
                   PROVE  Artifact(op[o].kind) \in files'[op[o].file]
        BY <2>1, <2>7 DEF OpSaved
      <3>1. to = next /\ next \in {"summary", "emit"}
        BY <2>4, <2>6 DEF Reporting, Phases
      <3>2. CASE op[o].kind = "transcription"
        <4>1. CASE op[o].phase = "transcript"
          BY <2>5, <2>8, <3>2, <4>1 DEF Artifact
        <4>2. CASE op[o].phase = "summary"
          <5>1. Artifact(op[o].kind) \in files[op[o].file]
            BY <3>2, <4>2 DEF OpSaved, Reporting
          <5> QED BY <2>3, <2>8, <5>1
        <4> QED BY <2>4, <3>1, <3>2, <4>1, <4>2
      <3>3. CASE op[o].kind = "summary"
        <4>1. next = "emit"
          BY <3>1, <3>3 DEF Reporting
        <4>2. new = {"summary"}
          BY <2>4, <2>5, <3>3, <4>1
        <4> QED BY <2>8, <3>3, <4>2 DEF Artifact
      <3> QED BY <2>3, <3>2, <3>3 DEF Kinds
    <2> QED BY <2>1, <2>4, <2>6, <2>7, <2>8, <2>9, <2>10, <2>11
  <1>4. CASE Throw(o)
    <2>1. /\ op[o].phase \notin {"none", "emit", "done", "failed"}
          /\ op' = [op EXCEPT ![o].phase = "failed"]
          /\ cancelledJobIds' = Cleared(o, "failed")
          /\ UNCHANGED <<deleted, removing>>
      BY <1>4 DEF Throw, Working
    <2>0. PICK new \in Written(op[o].phase) \union {{}} :
            files' = [files EXCEPT ![op[o].file] = @ \union new]
      BY <1>4 DEF Throw
    <2>6. op[o].phase \in Phases /\ op[o].file \in Recordings
      BY <1>1 DEF OpRecords
    <2>7. new \subseteq Artifacts \ {"sound"}
      BY <2>6 DEF Written, Artifacts, Phases
    <2>8. /\ files' \in [Recordings -> SUBSET Artifacts]
          /\ \A f \in Recordings : files[f] \subseteq files'[f]
          /\ \A f \in Recordings : "sound" \in files'[f] => "sound" \in files[f]
      BY <1>1, <2>0, <2>6, <2>7
    <2>2. /\ op' \in [Ops -> OpRecords] /\ op'[o].phase = "failed"
          /\ op'[o].kind = op[o].kind /\ op'[o].file = op[o].file
          /\ \A p \in Ops \ {o} : op'[p] = op[p]
      BY <1>2, <2>1 DEF Phases
    <2>3. cancelledJobIds' \subseteq cancelledJobIds
      BY <2>1 DEF Cleared
    <2>4. OpsTypeOK'
      BY <1>1, <2>1, <2>2, <2>3, <2>8 DEF OpsTypeOK, OpRecords
    <2>5. OpSaved(op[o])'
      BY <2>2 DEF OpSaved, Reporting
    <2> QED BY <2>1, <2>2, <2>3, <2>4, <2>5, <2>8
  <1>5. CASE Emitted(o)
    <2>1. /\ op[o].phase = "emit" /\ op' = [op EXCEPT ![o].phase = "done"]
          /\ UNCHANGED <<cancelledJobIds, storeVars>>
      BY <1>5 DEF Emitted
    <2>2. /\ op' \in [Ops -> OpRecords] /\ op'[o].phase = "done"
          /\ op'[o].kind = op[o].kind /\ op'[o].file = op[o].file
          /\ \A p \in Ops \ {o} : op'[p] = op[p]
      BY <1>2, <2>1 DEF Phases
    <2>3. OpsTypeOK'
      BY <1>1, <2>1, <2>2 DEF OpsTypeOK, OpRecords
    <2>4. OpSaved(op[o]) => OpSaved(op[o])'
      BY <2>1, <2>2 DEF OpSaved, Reporting
    <2> QED BY <2>1, <2>2, <2>3, <2>4
  <1> QED BY <1>3, <1>4, <1>5 DEF OpStep

(* A step of an operation keeps what the page knows fitting. *)
LEMMA OpStepInv ==
  ASSUME IInv, NEW o \in Ops, OpStep(o), UNCHANGED <<pageVars, reloads, scenario>>
  PROVE  PageStep
  <1> USE DEF pageVars
  <1>1. OpsTypeOK /\ PageInv /\ SavedInv
    BY DEF IInv
  <1>2. /\ OpsTypeOK'
        /\ op[o].phase \notin {"none", "done", "failed"}
        /\ op'[o].phase # "none"
        /\ op'[o].kind = op[o].kind /\ op'[o].file = op[o].file
        /\ \A p \in Ops \ {o} : op'[p] = op[p]
        /\ cancelledJobIds' \subseteq cancelledJobIds
        /\ deleted' = deleted
        /\ \A f \in Recordings : files[f] \subseteq files'[f]
        /\ OpSaved(op[o]) => OpSaved(op[o])'
    BY <1>1, OpStepMoves
  <1>3. AllFit(job, op, toMain, cancelledJobIds)'
    <2> SUFFICES ASSUME NEW j \in Jobs
                 PROVE  Fit(job[j], op[j], Sent(toMain, RunOf(j)),
                            Cancelling(j, toMain, cancelledJobIds))'
      BY DEF AllFit
    <2>1. Fit(job[j], op[j], Sent(toMain, RunOf(j)),
              Cancelling(j, toMain, cancelledJobIds))
      BY <1>1 DEF PageInv, AllFit
    <2>2. /\ job' = job /\ toMain' = toMain /\ reloads' = reloads
          /\ Cancelling(j, toMain', cancelledJobIds')
               => Cancelling(j, toMain, cancelledJobIds)
      BY <1>2 DEF Cancelling
    <2>3. CASE j = o
      BY <1>2, <2>1, <2>2, <2>3 DEF Fit
    <2>4. CASE j # o
      <3>1. op'[j] = op[j]
        BY <1>2, <2>4 DEF Ops
      <3> QED BY <2>1, <2>2, <3>1 DEF Fit
    <2> QED BY <2>3, <2>4
  <1>4. PageInv'
    BY <1>1, <1>3 DEF PageInv, RunsOnce, ListFits, ActiveFits, NeverSleeps
  <1>5. SavedInv'
    <2>1. ASSUME NEW j \in Jobs PROVE JobSaved(job[j])'
      <3>1. job[j].file \in Recordings /\ JobSaved(job[j])
        BY <1>1 DEF PageInv, SavedInv, JobRecords
      <3> QED BY <1>2, <3>1 DEF JobSaved
    <2>2. ASSUME NEW p \in Ops PROVE OpSaved(op[p])'
      <3>1. op[p].file \in Recordings /\ OpSaved(op[p])
        BY <1>1 DEF OpsTypeOK, SavedInv
      <3>2. CASE p = o
        BY <1>2, <3>1, <3>2
      <3>3. CASE p # o
        BY <1>2, <3>1, <3>3 DEF OpSaved
      <3> QED BY <3>2, <3>3
    <2> QED BY <2>1, <2>2 DEF SavedInv
  <1>6. reloads' \in 0 .. scenario'.reloads
    BY DEF IInv
  <1> QED BY <1>2, <1>4, <1>5, <1>6 DEF PageStep

(* The user deletes a recording, and its files are removed one by one. *)
LEMMA DeleteInv ==
  ASSUME IInv, NEW f \in Recordings, Delete(f) \/ FileRemoved(f),
         UNCHANGED <<pageVars, reloads, scenario>>
  PROVE  PageStep
  <1> USE DEF pageVars
  <1>1. OpsTypeOK /\ PageInv /\ SavedInv
    BY DEF IInv
  <1>2. /\ deleted' = deleted \union {f}
        /\ \E gone : files' = [files EXCEPT ![f] = @ \ gone]
        /\ \E n \in 0 .. Len(DeletedArtifacts) : removing' = [removing EXCEPT ![f] = n]
        /\ UNCHANGED <<op, cancelledJobIds>>
    <2>0. /\ files \in [Recordings -> SUBSET Artifacts] /\ deleted \subseteq Recordings
          /\ removing \in [Recordings -> 0 .. Len(DeletedArtifacts)]
          /\ removing[f] # 0 => f \in deleted
      BY <1>1 DEF OpsTypeOK
    <2>1. Len(DeletedArtifacts) = 4
      BY DEF DeletedArtifacts
    <2>2. files = [files EXCEPT ![f] = @ \ {}]
      BY <2>0
    <2>3. CASE Delete(f)
      <3>1. /\ deleted' = deleted \union {f} /\ removing' = [removing EXCEPT ![f] = 1]
            /\ UNCHANGED <<op, cancelledJobIds>> /\ files' = files
        BY <2>3 DEF Delete
      <3>2. \E gone : files' = [files EXCEPT ![f] = @ \ gone]
        BY <2>2, <3>1
      <3>3. 1 \in 0 .. Len(DeletedArtifacts)
        BY <2>1
      <3> QED BY <3>1, <3>2, <3>3
    <2>4. CASE FileRemoved(f)
      <3> DEFINE n == (removing[f] + 1) % (Len(DeletedArtifacts) + 1)
                 gone == {DeletedArtifacts[removing[f]]}
      <3>1. /\ f \in deleted
            /\ removing' = [removing EXCEPT ![f] = n]
            /\ UNCHANGED <<op, cancelledJobIds, deleted>>
            /\ files' = [files EXCEPT ![f] = @ \ gone] \/ files' = files
        BY <2>0, <2>4 DEF FileRemoved
      <3>2. n \in 0 .. Len(DeletedArtifacts)
        <4>1. removing[f] \in 0 .. 4 /\ n = (removing[f] + 1) % 5
          BY <2>0, <2>1
        <4>2. (removing[f] + 1) % 5 \in 0 .. 4
          BY <4>1
        <4> QED BY <2>1, <4>1, <4>2
      <3> HIDE DEF n, gone
      <3>3. deleted' = deleted \union {f}
        BY <3>1
      <3> QED BY <2>2, <3>1, <3>2, <3>3
    <2> QED BY <2>3, <2>4
  <1>3. /\ files' \in [Recordings -> SUBSET Artifacts]
        /\ \A g \in Recordings \ {f} : files'[g] = files[g]
    BY <1>1, <1>2 DEF OpsTypeOK
  <1>4. OpsTypeOK'
    BY <1>1, <1>2, <1>3 DEF OpsTypeOK
  <1>5. PageInv'
    BY <1>1, <1>2 DEF PageInv, RunsOnce, ListFits, ActiveFits, NeverSleeps,
                      AllFit, Fit, Cancelling
  <1>6. SavedInv'
    <2>1. ASSUME NEW j \in Jobs PROVE JobSaved(job[j])'
      <3>1. job[j].file \in Recordings /\ JobSaved(job[j])
        BY <1>1 DEF PageInv, SavedInv, JobRecords
      <3> QED BY <1>2, <1>3, <3>1 DEF JobSaved
    <2>2. ASSUME NEW p \in Ops PROVE OpSaved(op[p])'
      <3>1. op[p].file \in Recordings /\ OpSaved(op[p])
        BY <1>1 DEF OpsTypeOK, SavedInv
      <3> QED BY <1>2, <1>3, <3>1 DEF OpSaved
    <2> QED BY <2>1, <2>2 DEF SavedInv
  <1>7. reloads' \in 0 .. scenario'.reloads
    BY DEF IInv
  <1> QED BY <1>4, <1>5, <1>6, <1>7 DEF PageStep

-----------------------------------------------------------------------------
(* The job registry: what JobRegistry_proofs shows, for the tasks. *)

R == INSTANCE JobRegistry_proofs WITH Jobs <- Tasks

(* Two instances of one module define the same. *)
LEMMA SameRegistry ==
  /\ Registry!RegistryInv <=> R!RegistryInv
  /\ Registry!RegistryInit <=> R!RegistryInit
  /\ \A t \in Tasks : Registry!Enqueue(t) <=> R!Enqueue(t)
  /\ \A t \in Tasks, outcome \in {"completed", "failed"} :
        Registry!Finish(t, outcome) <=> R!Finish(t, outcome)
  <1>1. \A S : Registry!Cardinality(S) = R!Cardinality(S)
    BY DEF Registry!Cardinality, R!Cardinality
  <1>2. /\ Registry!Unfinished = R!Unfinished /\ Registry!Finished = R!Finished
        /\ Registry!RunningJobs = R!RunningJobs
        /\ Registry!Statuses = R!Statuses
    BY DEF Registry!Unfinished, R!Unfinished, Registry!Finished, R!Finished,
           Registry!RunningJobs, R!RunningJobs, Registry!Statuses, R!Statuses
  <1>3. Registry!RegistryInv <=> R!RegistryInv
    <2>1. Registry!RegistryTypeOK <=> R!RegistryTypeOK
      BY <1>2 DEF Registry!RegistryTypeOK, R!RegistryTypeOK
    <2>2. Registry!RunningIsBounded <=> R!RunningIsBounded
      BY <1>1, <1>2 DEF Registry!RunningIsBounded, R!RunningIsBounded
    <2>3. /\ Registry!NobodyWaitsForAFreePlace <=> R!NobodyWaitsForAFreePlace
          /\ Registry!Distinct(queue) <=> R!Distinct(queue)
      BY DEF Registry!NobodyWaitsForAFreePlace, R!NobodyWaitsForAFreePlace,
             Registry!Distinct, R!Distinct
    <2>4. /\ Registry!UnfinishedAreRetained <=> R!UnfinishedAreRetained
          /\ Registry!WaitersAreTold <=> R!WaitersAreTold
      BY <1>2 DEF Registry!UnfinishedAreRetained, R!UnfinishedAreRetained,
                  Registry!WaitersAreTold, R!WaitersAreTold
    <2> QED BY <2>1, <2>2, <2>3, <2>4 DEF Registry!RegistryInv, R!RegistryInv
  <1>4. Registry!RegistryInit <=> R!RegistryInit
    BY DEF Registry!RegistryInit, R!RegistryInit
  <1>5. \A m, n : Registry!Smaller(m, n) = R!Smaller(m, n)
    BY DEF Registry!Smaller, R!Smaller
  <1>6. \A q, busy : Registry!Starts(q, busy) = R!Starts(q, busy)
    BY <1>5 DEF Registry!Starts, R!Starts
  <1>7. \A q, n : Registry!Started(q, n) = R!Started(q, n)
    BY DEF Registry!Started, R!Started
  <1>8. \A stat, q, busy : Registry!Drain(stat, q, busy) <=> R!Drain(stat, q, busy)
    BY <1>6, <1>7 DEF Registry!Drain, R!Drain
  <1>9. \A t \in Tasks : Registry!Enqueue(t) <=> R!Enqueue(t)
    BY <1>8 DEF Registry!Enqueue, R!Enqueue
  <1>10. \A t \in Tasks : Registry!Pruned({t}) = R!Pruned({t})
    <2>1. Registry!Retained = R!Retained
      BY <1>2 DEF Registry!Retained, R!Retained
    <2>2. Registry!Excess = R!Excess
      BY <1>1, <2>1 DEF Registry!Excess, R!Excess
    <2>3. \A done : Registry!Prunable(done) = R!Prunable(done)
      BY <1>2, <2>1 DEF Registry!Prunable, R!Prunable
    <2>4. \A j, kept : Registry!NoLaterThan(j, kept) = R!NoLaterThan(j, kept)
      BY DEF Registry!NoLaterThan, R!NoLaterThan
    <2> QED BY <1>1, <2>2, <2>3, <2>4 DEF Registry!Pruned, R!Pruned
  <1>11. \A t \in Tasks, outcome \in {"completed", "failed"} :
           Registry!Finish(t, outcome) <=> R!Finish(t, outcome)
    BY <1>8, <1>10 DEF Registry!Finish, R!Finish
  <1> QED BY <1>3, <1>4, <1>9, <1>11

(* ... also after a step. *)
LEMMA SameRegistryAfter ==
  Registry!RegistryInv' <=> R!RegistryInv'
  <1>1. Registry!RegistryInv <=> R!RegistryInv
    BY SameRegistry
  <1> QED BY <1>1, PTL

(* The assumptions of the registry hold of the tasks. *)
LEMMA RegistryAssumptions ==
  R!LimitsAssumption /\ R!JobsAssumption
  BY RegistryAssumption DEF R!LimitsAssumption, R!JobsAssumption, IsFiniteSet,
                            R!IsFiniteSet

(* enqueue() and the end of a task start others and stop none but that one. *)
LEMMA RegistryKeepsRunning ==
  ASSUME Registry!RegistryInv, NEW t \in Tasks
  PROVE  /\ Registry!Enqueue(t) =>
              /\ Registry!RegistryInv'
              /\ \A u \in Tasks : status[u] = "running" => status'[u] = "running"
         /\ \A outcome \in {"completed", "failed"} :
              Registry!Finish(t, outcome) =>
                /\ Registry!RegistryInv'
                /\ status[t] = "running" /\ status'[t] # "running"
                /\ \A u \in Tasks \ {t} :
                     status[u] = "running" => status'[u] = "running"
  <1>1. R!RegistryInv /\ status \in [Tasks -> Registry!Statuses]
    BY SameRegistry DEF Registry!RegistryInv, Registry!RegistryTypeOK
  <1>2. R!RegistryInv' => Registry!RegistryInv'
    BY SameRegistryAfter
  <1>3. ASSUME Registry!Enqueue(t)
        PROVE  /\ Registry!RegistryInv'
               /\ \A u \in Tasks : status[u] = "running" => status'[u] = "running"
    <2>1. R!Enqueue(t)
      BY <1>3, SameRegistry
    <2>2. R!RegistryInv'
      BY <1>1, <2>1, RegistryAssumptions, R!EnqueuePreservesInv
    <2>3. \A u \in Tasks : status[u] = "running" => status'[u] = "running"
      BY <1>1, <1>3 DEF Registry!Enqueue, Registry!Drain
    <2> QED BY <1>2, <2>2, <2>3
  <1>4. ASSUME NEW outcome \in {"completed", "failed"},
               Registry!Finish(t, outcome)
        PROVE  /\ Registry!RegistryInv'
               /\ status[t] = "running" /\ status'[t] # "running"
               /\ \A u \in Tasks \ {t} :
                    status[u] = "running" => status'[u] = "running"
    <2>1. R!Finish(t, outcome)
      BY <1>4, SameRegistry
    <2>2. R!RegistryInv' /\ R!Unfinished' = R!Unfinished \ {t}
      BY <1>1, <2>1, RegistryAssumptions, R!FinishPreservesInv
    <2>3. status'[t] # "running"
      BY <2>2 DEF R!Unfinished
    <2>4. status[t] = "running"
      BY <1>4 DEF Registry!Finish
    <2>5. \A u \in Tasks \ {t} : status[u] = "running" => status'[u] = "running"
      BY <1>1, <1>4 DEF Registry!Finish, Registry!Drain
    <2> QED BY <1>2, <2>2, <2>3, <2>4, <2>5
  <1> QED BY <1>3, <1>4

(* What the tasks do leaves the page alone; only their operations change. *)
LEMMA TaskOpsInv ==
  ASSUME IInv, op' \in [Ops -> OpRecords],
         \A j \in Jobs : op'[j] = op[j],
         \A t \in Tasks : op'[t] = op[t] \/ op'[t].phase \in {"none", "load"},
         UNCHANGED <<pageVars, reloads, cancelledJobIds, storeVars, scenario>>
  PROVE  PageStep
  <1> USE DEF pageVars
  <1>1. OpsTypeOK /\ PageInv /\ SavedInv
    BY DEF IInv
  <1>2. OpsTypeOK' /\ reloads' \in 0 .. scenario'.reloads
    BY <1>1 DEF IInv, OpsTypeOK, OpRecords
  <1>3. AllFit(job, op, toMain, cancelledJobIds)'
    BY <1>1 DEF PageInv, AllFit, Fit, Cancelling
  <1>4. PageInv'
    BY <1>1, <1>3 DEF PageInv, RunsOnce, ListFits, ActiveFits, NeverSleeps
  <1>5. ASSUME NEW p \in Ops PROVE OpSaved(op[p])'
    <2>1. CASE op'[p] = op[p]
      BY <1>1, <2>1 DEF SavedInv, OpSaved
    <2>2. CASE op'[p].phase \in {"none", "load"}
      BY <2>2 DEF OpSaved, Reporting
    <2> QED BY <2>1, <2>2 DEF Ops
  <1>6. SavedInv'
    BY <1>1, <1>5 DEF SavedInv, JobSaved
  <1> QED BY <1>2, <1>4, <1>6 DEF PageStep

(* The tasks that have just started, and the operations they begin. *)
LEMMA TasksStartedInv ==
  ASSUME NEW ops \in [Ops -> OpRecords], TasksStarted(ops),
         task' \in [Tasks -> [kind : Kinds, file : Recordings]]
  PROVE  /\ op' \in [Ops -> OpRecords]
         /\ \A j \in Jobs : op'[j] = ops[j]
         /\ \A t \in Tasks :
              IF status[t] # "running" /\ status'[t] = "running"
              THEN op'[t].phase = "load"
              ELSE op'[t] = ops[t]
  <1> DEFINE begun(o) == [phase |-> "load", kind |-> task'[o].kind,
                          file |-> task'[o].file]
  <1>1. op' = [o \in Ops |-> IF o \in Tasks /\ status[o] # "running"
                                            /\ status'[o] = "running"
                             THEN begun(o) ELSE ops[o]]
    BY DEF TasksStarted
  <1>2. \A o \in Tasks : begun(o) \in OpRecords /\ begun(o).phase = "load"
    BY DEF OpRecords, Phases
  <1>3. \A j \in Jobs : j \in Ops /\ j \notin Tasks
    BY OpsAssumption DEF Ops
  <1>4. \A t \in Tasks : t \in Ops
    BY DEF Ops
  <1> HIDE DEF begun
  <1>5. op' \in [Ops -> OpRecords]
    BY <1>1, <1>2
  <1> QED BY <1>1, <1>2, <1>3, <1>4, <1>5

(* A step that does not touch the registry, and in which no task begins or
   ends. *)
LEMMA TasksStay ==
  ASSUME TasksInv, UNCHANGED <<registryVars, task>>,
         \A t \in Tasks : op'[t].phase = "none" <=> op[t].phase = "none"
  PROVE  TasksInv'
  <1> USE DEF registryVars
  <1>1. Registry!RegistryInv'
    BY DEF TasksInv, Registry!RegistryInv, Registry!RegistryTypeOK,
           Registry!RunningIsBounded, Registry!RunningJobs,
           Registry!NobodyWaitsForAFreePlace, Registry!Distinct,
           Registry!UnfinishedAreRetained, Registry!WaitersAreTold,
           Registry!Unfinished, Registry!Finished
  <1>2. \A t \in Tasks : (status'[t] = "running") = (op'[t].phase # "none")
    BY DEF TasksInv
  <1> QED BY <1>1, <1>2 DEF TasksInv

(* A task is requested, ends, or does a step of its work. *)
LEMMA TaskStepInv ==
  ASSUME IInv, TaskStep, UNCHANGED scenario
  PROVE  PageStep /\ TasksInv'
  <1>1. /\ TasksInv /\ Registry!RegistryInv
        /\ task \in [Tasks -> [kind : Kinds, file : Recordings]]
        /\ \A t \in Tasks : (status[t] = "running") = (op[t].phase # "none")
        /\ op \in [Ops -> OpRecords]
    BY DEF IInv, TasksInv, OpsTypeOK, OpRecords
  <1>2. (\A t \in Tasks : t \in Ops) /\ \A j \in Jobs : j \in Ops /\ j \notin Tasks
    BY OpsAssumption DEF Ops
  <1>3. ASSUME NEW t \in Tasks, NEW kind \in Kinds, NEW f \in Recordings,
               RequestTask(t, kind, f)
        PROVE  PageStep /\ TasksInv'
    <2>1. /\ task' = [task EXCEPT ![t] = [kind |-> kind, file |-> f]]
          /\ Registry!Enqueue(t)
          /\ TasksStarted(op)
          /\ UNCHANGED <<pageVars, reloads, cancelledJobIds, storeVars>>
      BY <1>3 DEF RequestTask
    <2>2. task' \in [Tasks -> [kind : Kinds, file : Recordings]]
      BY <1>1, <2>1
    <2>3. /\ Registry!RegistryInv'
          /\ \A u \in Tasks : status[u] = "running" => status'[u] = "running"
      BY <1>1, <2>1, RegistryKeepsRunning
    <2>4. /\ op' \in [Ops -> OpRecords]
          /\ \A j \in Jobs : op'[j] = op[j]
          /\ \A u \in Tasks :
              IF status[u] # "running" /\ status'[u] = "running"
              THEN op'[u].phase = "load"
              ELSE op'[u] = op[u]
      BY <1>1, <2>1, <2>2, TasksStartedInv
    <2>5. \A u \in Tasks : (status'[u] = "running") = (op'[u].phase # "none")
      BY <1>1, <2>3, <2>4
    <2>6. PageStep
      BY <2>1, <2>4, TaskOpsInv
    <2> QED BY <2>2, <2>3, <2>5, <2>6 DEF TasksInv
  <1>4. ASSUME NEW t \in Tasks, TaskEnds(t)
        PROVE  PageStep /\ TasksInv'
    <2> DEFINE outcome == IF op[t].phase = "done" THEN "completed" ELSE "failed"
               ops == [op EXCEPT ![t].phase = "none"]
    <2>1. /\ Registry!Finish(t, outcome) /\ task' = task
          /\ TasksStarted(ops)
          /\ UNCHANGED <<pageVars, reloads, cancelledJobIds, storeVars>>
      BY <1>4 DEF TaskEnds
    <2>2. /\ ops \in [Ops -> OpRecords] /\ ops[t].phase = "none"
          /\ \A o \in Ops \ {t} : ops[o] = op[o]
      BY <1>1, <1>2 DEF OpRecords, Phases
    <2>3. outcome \in {"completed", "failed"}
      OBVIOUS
    <2> HIDE DEF ops, outcome
    <2>4. /\ Registry!RegistryInv'
          /\ status[t] = "running" /\ status'[t] # "running"
          /\ \A u \in Tasks \ {t} : status[u] = "running" => status'[u] = "running"
      BY <1>1, <2>1, <2>3, RegistryKeepsRunning
    <2>5. task' \in [Tasks -> [kind : Kinds, file : Recordings]]
      BY <1>1, <2>1
    <2>6. /\ op' \in [Ops -> OpRecords]
          /\ \A j \in Jobs : op'[j] = ops[j]
          /\ \A u \in Tasks :
              IF status[u] # "running" /\ status'[u] = "running"
              THEN op'[u].phase = "load"
              ELSE op'[u] = ops[u]
      BY <2>1, <2>2, <2>5, TasksStartedInv
    <2>7. op'[t].phase = "none"
      BY <2>2, <2>4, <2>6
    <2>8. \A u \in Tasks \ {t} : ops[u] = op[u]
      BY <1>2, <2>2
    <2>9. \A u \in Tasks : (status'[u] = "running") = (op'[u].phase # "none")
      BY <1>1, <2>4, <2>6, <2>7, <2>8
    <2>10. \A j \in Jobs : op'[j] = op[j]
      BY <1>2, <2>2, <2>6
    <2>11. \A u \in Tasks : op'[u] = op[u] \/ op'[u].phase \in {"none", "load"}
      BY <2>6, <2>7, <2>8
    <2>12. PageStep
      BY <2>1, <2>6, <2>10, <2>11, TaskOpsInv
    <2> QED BY <2>4, <2>5, <2>9, <2>12 DEF TasksInv
  <1>5. ASSUME NEW t \in Tasks, OpStep(t),
               UNCHANGED <<pageVars, reloads, registryVars, task>>
        PROVE  PageStep /\ TasksInv'
    <2>1. PageStep
      BY <1>2, <1>5, OpStepInv
    <2>2. /\ op[t].phase # "none" /\ op'[t].phase # "none"
          /\ \A p \in Ops \ {t} : op'[p] = op[p]
      BY <1>2, <1>5, OpStepMoves DEF IInv
    <2>3. TasksInv'
      BY <1>1, <1>2, <1>5, <2>2, TasksStay
    <2> QED BY <2>1, <2>3
  <1> QED BY <1>3, <1>4, <1>5 DEF TaskStep

-----------------------------------------------------------------------------
(* The invariant, and what follows from it. *)

(* Nothing has been asked for yet. *)
LEMMA InitInv ==
  Init => IInv
  <1> SUFFICES ASSUME Init PROVE IInv
    OBVIOUS
  <1> DEFINE first == CHOOSE f \in Recordings : TRUE
  <1>1. first \in Recordings
    BY OpsAssumption
  <1> HIDE DEF first
  <1>2. /\ op = [o \in Ops |-> [phase |-> "none", kind |-> "summary",
                                file |-> first]]
        /\ cancelledJobIds = {}
        /\ files = [f \in Recordings |-> {"recording", "sound"}]
        /\ scenario \in Scenarios /\ deleted = {}
        /\ removing = [f \in Recordings |-> 0]
        /\ jobs = <<>> /\ queuePaused = FALSE /\ processing = FALSE
        /\ activeJobId = NoJob /\ toMain = <<>> /\ reloads = 0
        /\ job = [j \in Jobs |-> [status |-> "none", kind |-> "summary",
                                  file |-> first, cancelRequested |-> FALSE]]
        /\ task = [t \in Tasks |-> [kind |-> "summary", file |-> first]]
        /\ Registry!RegistryInit
    BY DEF Init, QueueInit, OpsInit, first
  <1>3. OpsTypeOK
    <2>1. 0 \in 0 .. Len(DeletedArtifacts)
      BY DEF DeletedArtifacts
    <2> QED BY <1>1, <1>2, <2>1 DEF OpsTypeOK, Phases, Kinds, Artifacts
  <1>4. /\ job \in [Jobs -> JobRecords]
        /\ \A j \in Jobs : job[j].status = "none"
        /\ \A o \in Ops : op[o].phase = "none"
    BY <1>1, <1>2 DEF JobRecords, JobStatuses, Kinds
  <1>5. DOMAIN toMain = {} /\ DOMAIN jobs = {}
    BY <1>2
  <1>6. AllFit(job, op, toMain, cancelledJobIds)
    BY <1>2, <1>4, <1>5 DEF AllFit, Fit, Sent, Cancelling, Ops
  <1>7. PageInv
    <2>1. ListFits(jobs, job)
      BY <1>4, <1>5 DEF ListFits
    <2>2. ActiveFits(job, processing, activeJobId)
      BY <1>2, <1>4, NoJobAssumption DEF ActiveFits
    <2>3. NeverSleeps
      BY <1>4 DEF NeverSleeps
    <2>4. RunsOnce(toMain) /\ toMain \in Seq(Messages) /\ jobs \in Seq(Jobs)
      BY <1>2, <1>5 DEF RunsOnce
    <2> QED BY <1>2, <1>4, <1>6, <2>1, <2>2, <2>3, <2>4 DEF PageInv
  <1>8. SavedInv
    BY <1>4 DEF SavedInv, JobSaved, OpSaved, Reporting
  <1>9. TasksInv
    <2>1. R!RegistryInit
      BY <1>2, SameRegistry
    <2>2. Registry!RegistryInv
      BY <2>1, SameRegistry, RegistryAssumptions, R!RegistryInitInv
    <2>3. \A t \in Tasks : status[t] = "none"
      BY <1>2 DEF Registry!RegistryInit
    <2>4. task \in [Tasks -> [kind : Kinds, file : Recordings]]
      BY <1>1, <1>2 DEF Kinds
    <2>5. \A t \in Tasks : t \in Ops
      BY DEF Ops
    <2> QED BY <1>4, <2>2, <2>3, <2>4, <2>5 DEF TasksInv
  <1>10. reloads \in 0 .. scenario.reloads
    <2>1. scenario.reloads \in Nat
      BY ScenarioAssumption, <1>2 DEF Scenario
    <2> QED BY <1>2, <2>1
  <1> QED BY <1>3, <1>7, <1>8, <1>9, <1>10 DEF IInv

(* A step of the queue begins and ends no task. *)
LEMMA QueueStepInv ==
  ASSUME IInv, QueueStep, UNCHANGED <<registryVars, task, scenario>>
  PROVE  IInv'
  <1>1. PageStep
    <2>1. ASSUME NEW j \in Jobs, NEW kind \in Kinds, NEW f \in Recordings,
                 Enqueue(j, kind, f)
          PROVE  PageStep
      BY <2>1, EnqueueInv
    <2>2. CASE PauseQueue \/ CancelAllActive
      BY <2>2, PauseCancelInv
    <2>3. CASE ResumeQueue
      BY <2>3, ResumeRetryInv
    <2>4. ASSUME NEW j \in Jobs, RetryJob(j) PROVE PageStep
      BY <2>4, ResumeRetryInv
    <2>5. ASSUME NEW j \in Jobs, CancelJob(j) PROVE PageStep
      BY <2>5, PauseCancelInv
    <2>6. ASSUME NEW j \in Jobs, RemoveJob(j) PROVE PageStep
      BY <2>6, RemoveInv DEF RemoveJob
    <2>7. CASE ClearCompleted
      BY <2>7, RemoveInv DEF ClearCompleted
    <2>8. CASE Reload
      BY <2>8, ReloadInv
    <2>9. CASE Receive
      BY <2>9, ReceiveInv
    <2>10. ASSUME NEW j \in Jobs, Settle(j) PROVE PageStep
      BY <2>10, SettleInv
    <2> QED BY <2>1, <2>2, <2>3, <2>4, <2>5, <2>6, <2>7, <2>8, <2>9, <2>10
            DEF QueueStep, UserStep
  <1>2. \A t \in Tasks : op'[t] = op[t]
    <2>0. /\ \A t \in Tasks : t \in Ops /\ t \notin Jobs
          /\ op \in [Ops -> OpRecords]
      BY OpsAssumption DEF Ops, IInv, OpsTypeOK, OpRecords
    <2>1. CASE UserStep
      BY <2>1 DEF UserStep, Enqueue, PauseQueue, ResumeQueue, RetryJob, CancelJob,
                  RemoveJob, CancelAllActive, ClearCompleted, Remove, Reload,
                  opsVars
    <2>2. CASE Receive
      <3>1. Head(toMain).job \in Jobs
        <4>1. toMain \in Seq(Messages) /\ RunsOnce(toMain)
          BY DEF IInv, PageInv
        <4>2. Head(toMain) \in Messages
          BY <2>2, <4>1, SentTail DEF Receive
        <4> QED BY <4>2 DEF Messages
      <3> QED BY <2>0, <2>2, <3>1 DEF Receive
    <2>3. ASSUME NEW j \in Jobs, Settle(j) PROVE \A t \in Tasks : op'[t] = op[t]
      BY <2>0, <2>3 DEF Settle
    <2> QED BY <2>1, <2>2, <2>3 DEF QueueStep
  <1>3. TasksInv'
    BY <1>2, TasksStay DEF IInv
  <1> QED BY <1>1, <1>3 DEF IInv, PageStep

(* Every step keeps the invariant. *)
LEMMA NextInv ==
  IInv /\ [Next]_vars => IInv'
  <1> SUFFICES ASSUME IInv, [Next]_vars PROVE IInv'
    OBVIOUS
  <1>1. CASE QueueStep /\ UNCHANGED <<registryVars, task, scenario>>
    BY <1>1, QueueStepInv
  <1>2. CASE MainStep /\ UNCHANGED <<registryVars, task, scenario>>
    <2>1. ASSUME NEW o \in Jobs, OpStep(o) PROVE IInv'
      <3>1. o \in Ops /\ o \notin Tasks /\ \A t \in Tasks : t \in Ops
        BY OpsAssumption DEF Ops
      <3>2. UNCHANGED <<pageVars, reloads, scenario>>
        BY <1>2 DEF MainStep
      <3>3. PageStep
        BY <2>1, <3>1, <3>2, OpStepInv
      <3>4. \A t \in Tasks : op'[t] = op[t]
        BY <1>2, <2>1, <3>1, OpStepMoves DEF IInv
      <3>5. TasksInv'
        BY <1>2, <3>4, TasksStay DEF IInv
      <3> QED BY <3>3, <3>5 DEF IInv, PageStep
    <2>2. ASSUME NEW f \in Recordings, Delete(f) \/ FileRemoved(f) PROVE IInv'
      <3>1. UNCHANGED <<pageVars, reloads, scenario>>
        BY <1>2 DEF MainStep
      <3>2. PageStep
        BY <2>2, <3>1, DeleteInv
      <3>3. TasksInv'
        BY <1>2, <2>2, TasksStay DEF IInv, Delete, FileRemoved
      <3> QED BY <3>2, <3>3 DEF IInv, PageStep
    <2> QED BY <1>2, <2>1, <2>2 DEF MainStep
  <1>3. CASE TaskStep /\ UNCHANGED scenario
    BY <1>3, TaskStepInv DEF IInv, PageStep
  <1>4. CASE UNCHANGED vars
    <2> USE <1>4 DEF vars, queueVars, pageVars, opsVars
    <2>1. AllFit(job, op, toMain, cancelledJobIds)'
      BY DEF IInv, PageInv, AllFit, Fit, Cancelling
    <2>2. PageInv'
      BY <2>1 DEF IInv, PageInv, RunsOnce, ListFits, ActiveFits, NeverSleeps
    <2>3. OpsTypeOK' /\ SavedInv' /\ reloads' \in 0 .. scenario'.reloads
      BY DEF IInv, OpsTypeOK, SavedInv, JobSaved, OpSaved
    <2>4. TasksInv'
      BY TasksStay DEF IInv
    <2> QED BY <2>2, <2>3, <2>4 DEF IInv
  <1> QED BY <1>1, <1>2, <1>3, <1>4 DEF Next, Step

(* The invariant holds in every state. *)
THEOREM JobsInvariant ==
  Spec => []IInv
  <1> QED BY InitInv, NextInv, PTL DEF Spec

(* Two jobs of the queue never write the artifacts of one recording at the same
   time: the page hands out one at a time and learns of its end, whatever the
   user cancels, retries or removes meanwhile (transcriptionQueueService.
   preload.ts:338-420). *)
THEOREM NeverTwoWriters ==
  Spec => []OneWriterPerRecording
  <1>1. IInv => OneWriterPerRecording
    <2> SUFFICES ASSUME IInv, reloads = 0, NEW o \in Jobs, NEW p \in Jobs,
                        Working(o), Working(p)
                 PROVE  o = p
      BY DEF OneWriterPerRecording
    <2>1. \A j \in Jobs : Working(j) => j = activeJobId
      BY DEF IInv, PageInv, AllFit, Fit, ActiveFits, Working
    <2> QED BY <2>1
  <1> QED BY <1>1, JobsInvariant, PTL

(* A cancellation reaches the run it was meant for: a job that may run again
   has none waiting for it, and a job shown as cancelled is not being worked on
   (transcriptionQueueService.preload.ts:296-299, 338-420). *)
THEOREM AlwaysCancelsTheRightRun ==
  Spec => []CancelsTheRightRun
  <1>1. IInv => CancelsTheRightRun
    <2> SUFFICES ASSUME IInv PROVE CancelsTheRightRun
      OBVIOUS
    <2>1. /\ toMain \in Seq(Messages)
          /\ \A j \in Jobs : Fit(job[j], op[j], Sent(toMain, RunOf(j)),
                                 Cancelling(j, toMain, cancelledJobIds))
      BY DEF IInv, PageInv, AllFit
    <2>2. ASSUME NEW j \in Jobs, job[j].status = "queued"
          PROVE  /\ j \notin cancelledJobIds
                 /\ \A i \in DOMAIN toMain : toMain[i].job # j
      <3>1. /\ j \notin cancelledJobIds
            /\ ~Sent(toMain, RunOf(j)) /\ ~Sent(toMain, CancelOf(j))
        BY <2>1, <2>2 DEF Fit, Cancelling
      <3>2. ASSUME NEW i \in DOMAIN toMain, toMain[i].job = j PROVE FALSE
        <4>1. toMain[i] \in Messages
          BY <2>1
        <4>2. toMain[i] = RunOf(j) \/ toMain[i] = CancelOf(j)
          BY <3>2, <4>1 DEF Messages, RunOf, CancelOf
        <4> QED BY <3>1, <4>2 DEF Sent
      <3> QED BY <3>1, <3>2
    <2>3. NoStaleCancel
      BY <2>2 DEF NoStaleCancel
    <2>4. CancelledIsQuiet
      BY <2>1 DEF CancelledIsQuiet, Fit, Working, Sent, RunOf
    <2> QED BY <2>3, <2>4 DEF CancelsTheRightRun
  <1> QED BY <1>1, JobsInvariant, PTL

(* What the page shows as completed has been saved, unless the user has deleted
   the recording (callSummaryExtension.main.ts). *)
THEOREM CompletedIsAlwaysSaved ==
  Spec => []CompletedIsSaved
  <1>1. IInv => CompletedIsSaved
    BY DEF IInv, SavedInv, JobSaved, Artifact, CompletedIsSaved
  <1> QED BY <1>1, JobsInvariant, PTL

(* What a step does to the files of the recordings and to the operations that
   have their input in hand: only the operations that are under way write, only
   a deletion removes, and every other step begins or ends operations. *)
LEMMA StoreSteps ==
  ASSUME IInv, [Next]_vars
  PROVE  /\ scenario' = scenario
         /\ \/ /\ UNCHANGED storeVars
               /\ \A o \in Ops : op'[o] = op[o] \/ op'[o].phase \in {"none", "load"}
            \/ \E o \in Ops : OpStep(o)
            \/ \E f \in Recordings : Delete(f) \/ FileRemoved(f)
  <1>1. op \in [Ops -> OpRecords] /\ \A j \in Jobs : j \in Ops
    BY DEF IInv, OpsTypeOK, OpRecords, Ops
  <1>2. CASE QueueStep /\ UNCHANGED <<registryVars, task, scenario>>
    <2>1. CASE UserStep
      BY <1>2, <2>1 DEF UserStep, Enqueue, PauseQueue, ResumeQueue, RetryJob,
                  CancelJob, RemoveJob, CancelAllActive, ClearCompleted, Remove,
                  Reload, opsVars
    <2>2. CASE Receive
      <3>1. Head(toMain).job \in Jobs
        <4>1. toMain \in Seq(Messages) /\ RunsOnce(toMain)
          BY DEF IInv, PageInv
        <4>2. Head(toMain) \in Messages
          BY <2>2, <4>1, SentTail DEF Receive
        <4> QED BY <4>2 DEF Messages
      <3> QED BY <1>1, <1>2, <2>2, <3>1 DEF Receive
    <2>3. ASSUME NEW j \in Jobs, Settle(j)
          PROVE  /\ UNCHANGED storeVars
                 /\ \A o \in Ops : op'[o] = op[o] \/ op'[o].phase \in {"none", "load"}
      BY <1>1, <2>3 DEF Settle, OpRecords
    <2> QED BY <1>2, <2>1, <2>2, <2>3 DEF QueueStep
  <1>3. CASE MainStep /\ UNCHANGED <<registryVars, task, scenario>>
    BY <1>3 DEF MainStep, Ops
  <1>4. CASE TaskStep /\ UNCHANGED scenario
    <2>1. ASSUME NEW ops \in [Ops -> OpRecords], TasksStarted(ops)
          PROVE  \A o \in Ops : op'[o] = ops[o] \/ op'[o].phase = "load"
      BY <2>1 DEF TasksStarted
    <2>2. ASSUME NEW t \in Tasks, NEW kind \in Kinds, NEW f \in Recordings,
                 RequestTask(t, kind, f)
          PROVE  /\ UNCHANGED storeVars
                 /\ \A o \in Ops : op'[o] = op[o] \/ op'[o].phase \in {"none", "load"}
      BY <1>1, <2>1, <2>2 DEF RequestTask
    <2>3. ASSUME NEW t \in Tasks, TaskEnds(t)
          PROVE  /\ UNCHANGED storeVars
                 /\ \A o \in Ops : op'[o] = op[o] \/ op'[o].phase \in {"none", "load"}
      <3> DEFINE ops == [op EXCEPT ![t].phase = "none"]
      <3>1. /\ ops \in [Ops -> OpRecords]
            /\ \A o \in Ops : ops[o] = op[o] \/ ops[o].phase = "none"
        BY <1>1 DEF OpRecords, Phases
      <3>2. TasksStarted(ops) /\ UNCHANGED storeVars
        BY <2>3 DEF TaskEnds
      <3> HIDE DEF ops
      <3> QED BY <2>1, <3>1, <3>2
    <2> QED BY <1>4, <2>2, <2>3 DEF TaskStep, Ops
  <1>5. CASE UNCHANGED vars
    BY <1>5 DEF vars, queueVars, opsVars
  <1> QED BY <1>2, <1>3, <1>4, <1>5 DEF Next, Step

\* The sound of a recording whose deletion has ended is gone.
SoundIsGone ==
    "rm" \notin scenario.faults =>
        \A f \in deleted : removing[f] = 0 => "sound" \notin files[f]

(* No step brings the sound back, and no deletion ends without removing it. *)
LEMMA SoundStaysGone ==
  IInv /\ SoundIsGone /\ [Next]_vars => SoundIsGone'
  <1> SUFFICES ASSUME IInv, SoundIsGone, [Next]_vars,
                      "rm" \notin scenario'.faults,
                      NEW f \in deleted', removing'[f] = 0
               PROVE  "sound" \notin files'[f]
    BY DEF SoundIsGone
  <1>1. /\ files \in [Recordings -> SUBSET Artifacts] /\ deleted \subseteq Recordings
        /\ removing \in [Recordings -> 0 .. 4]
        /\ \A g \in Recordings : removing[g] # 0 => g \in deleted
    <2>1. Len(DeletedArtifacts) = 4
      BY DEF DeletedArtifacts
    <2> QED BY <2>1 DEF IInv, OpsTypeOK
  <1>2. "rm" \notin scenario.faults
    BY StoreSteps
  <1>3. \A g \in deleted : removing[g] = 0 => "sound" \notin files[g]
    BY <1>2 DEF SoundIsGone
  <1>4. CASE UNCHANGED storeVars
    BY <1>3, <1>4
  <1>5. ASSUME NEW o \in Ops, OpStep(o) PROVE "sound" \notin files'[f]
    <2>1. /\ deleted' = deleted /\ removing' = removing
          /\ \A g \in Recordings : "sound" \in files'[g] => "sound" \in files[g]
      BY <1>5, StoreSteps, OpStepMoves DEF IInv
    <2> QED BY <1>1, <1>3, <2>1
  <1>6. ASSUME NEW g \in Recordings, Delete(g) PROVE "sound" \notin files'[f]
    BY <1>1, <1>3, <1>6 DEF Delete
  <1>7. ASSUME NEW g \in Recordings, FileRemoved(g) PROVE "sound" \notin files'[f]
    <2>1. /\ removing[g] \in 1 .. 4
          /\ deleted' = deleted
          /\ files' = [files EXCEPT ![g] = @ \ {DeletedArtifacts[removing[g]]}]
          /\ removing' = [removing EXCEPT ![g] = (@ + 1) % 5]
      <3>1. Len(DeletedArtifacts) + 1 = 5
        BY DEF DeletedArtifacts
      <3>2. removing[g] \in 1 .. 4
        BY <1>1, <1>7 DEF FileRemoved
      <3> QED BY <1>2, <1>7, <3>1, <3>2 DEF FileRemoved
    <2>2. CASE f = g
      <3>1. (removing[g] + 1) % 5 = 0
        BY <1>1, <2>1, <2>2
      <3>2. removing[g] = 4
        BY <2>1, <3>1
      <3>3. DeletedArtifacts[4] = "sound"
        BY DEF DeletedArtifacts
      <3> QED BY <1>1, <2>1, <2>2, <3>2, <3>3
    <2>3. CASE f # g
      BY <1>1, <1>3, <2>1, <2>3
    <2> QED BY <2>2, <2>3
  <1> QED BY <1>4, <1>5, <1>6, <1>7, StoreSteps

(* A deleted recording does not come back: when the deletion has ended and no
   operation has its input in hand, neither a job still in the queue nor a task
   writes a transcript or a summary of it again, since the sound has gone with
   the recording (recordingFiles.main.ts:27-57). *)
THEOREM DeletedAlwaysStaysDeleted ==
  Spec => DeletedStaysDeleted
  <1>1. Init => SoundIsGone
    BY DEF Init, QueueInit, OpsInit, SoundIsGone
  <1>2. IInv /\ SoundIsGone /\ [Next]_vars =>
          \A f \in Recordings : "rm" \notin scenario.faults /\ Gone(f) => Gone(f)'
    <2> SUFFICES ASSUME IInv, SoundIsGone, [Next]_vars, NEW f \in Recordings,
                        "rm" \notin scenario.faults, Gone(f)
                 PROVE  Gone(f)'
      OBVIOUS
    <2>1. /\ f \in deleted /\ removing[f] = 0
          /\ files[f] \intersect {"sound", "transcript", "summary"} = {}
          /\ \A o \in Ops : Working(o) /\ op[o].file = f => op[o].phase = "load"
      BY DEF Gone, SoundIsGone
    <2>2. op \in [Ops -> OpRecords] /\ files \in [Recordings -> SUBSET Artifacts]
          /\ removing \in [Recordings -> 0 .. Len(DeletedArtifacts)]
      BY DEF IInv, OpsTypeOK, OpRecords
    <2>3. ASSUME UNCHANGED storeVars,
                 \A o \in Ops : op'[o] = op[o] \/ op'[o].phase \in {"none", "load"}
          PROVE  Gone(f)'
      BY <2>1, <2>3 DEF Gone, Working
    <2>4. ASSUME NEW o \in Ops, OpStep(o) PROVE Gone(f)'
      <3>1. /\ op'[o].kind = op[o].kind /\ op'[o].file = op[o].file
            /\ \A p \in Ops \ {o} : op'[p] = op[p]
            /\ deleted' = deleted /\ removing' = removing
            /\ op[o].phase \notin {"none", "done", "failed"}
        BY <2>4, StoreSteps, OpStepMoves DEF IInv
      <3>2. op[o] \in OpRecords
        BY <2>2
      <3>3. CASE op[o].file # f
        <4>1. files'[f] = files[f]
          BY <2>2, <2>4, <3>3 DEF OpStep, Advance, Throw, Emitted
        <4> QED BY <2>1, <3>1, <3>3, <4>1 DEF Gone, Working
      <3>4. CASE op[o].file = f
        <4>1. op[o].phase \in {"load", "emit"}
          BY <2>1, <3>1, <3>4 DEF Working
        <4>2. ~Advance(o)
          <5>1. CASE op[o].phase = "load"
            BY <2>1, <3>4, <5>1 DEF Advance, InputMissing
          <5>2. CASE op[o].phase = "emit"
            BY <5>2 DEF Advance, Follows
          <5> QED BY <4>1, <5>1, <5>2
        <4>3. files'[f] = files[f] /\ op'[o].phase \in {"failed", "done"}
          <5>1. CASE Throw(o)
            <6>1. op[o].phase = "load" /\ op' = [op EXCEPT ![o].phase = "failed"]
              BY <4>1, <5>1 DEF Throw, Working
            <6>2. Written(op[o].phase) = {{}}
              BY <6>1 DEF Written
            <6> QED BY <2>2, <5>1, <6>1, <6>2 DEF Throw, OpRecords
          <5>2. CASE Emitted(o)
            BY <2>2, <5>2 DEF Emitted, OpRecords
          <5> QED BY <2>4, <4>2, <5>1, <5>2 DEF OpStep
        <4> QED BY <2>1, <3>1, <4>3 DEF Gone, Working
      <3> QED BY <3>3, <3>4
    <2>5. ASSUME NEW g \in Recordings, Delete(g) \/ FileRemoved(g) PROVE Gone(f)'
      <3>1. g # f
        BY <2>1, <2>5 DEF Delete, FileRemoved
      <3>2. files'[f] = files[f] /\ removing'[f] = removing[f] /\ f \in deleted'
            /\ op' = op
        BY <2>1, <2>2, <2>5, <3>1 DEF Delete, FileRemoved
      <3> QED BY <2>1, <3>2 DEF Gone, Working
    <2> QED BY <2>3, <2>4, <2>5, StoreSteps
  <1> QED BY <1>1, <1>2, SoundStaysGone, JobsInvariant, PTL DEF Spec, DeletedStaysDeleted

(* The processing flag, the active job and the statuses agree, the queue never
   sleeps on a job it could start, and no more operations work than one of the
   queue and MaxConcurrent of the registry (transcriptionQueueService.preload.
   ts:269-420, jobRegistry.std.ts:117-128). *)
THEOREM QueueAlwaysFits ==
  Spec => []QueueInv
  <1>1. IInv => QueueInv
    <2> SUFFICES ASSUME IInv PROVE QueueInv
      OBVIOUS
    <2>1. QueueTypeOK
      <3>1. {j \in Jobs : job[j].status = "processing"} = {activeJobId} \ {NoJob}
        BY NoJobAssumption DEF IInv, PageInv, ActiveFits
      <3> QED BY <3>1 DEF QueueTypeOK, IInv, PageInv, ActiveFits, JobRecords
    <2>2. TypeOK
      BY <2>1 DEF TypeOK, IInv, TasksInv, Registry!RegistryInv
    <2>3. QueueNeverStalls
      BY DEF QueueNeverStalls, Queued, IInv, PageInv, NeverSleeps
    <2>4. TwoAtMost
      <3> DEFINE W == {o \in Ops : Working(o)}
                 Active == {t \in Tasks : status[t] = "running"}
      <3> SUFFICES ASSUME reloads = 0
                   PROVE  Cardinality(W) <= 1 + MaxConcurrent
        BY DEF TwoAtMost
      <3>1. W \in SUBSET (Active \union {activeJobId})
        <4>1. \A j \in Jobs : Working(j) => j = activeJobId
          BY DEF IInv, PageInv, AllFit, Fit, ActiveFits, Working
        <4>2. \A t \in Tasks : Working(t) => status[t] = "running"
          BY DEF IInv, TasksInv, Working
        <4> QED BY <4>1, <4>2 DEF Ops
      <3>2. IsFiniteSet(Active) /\ Cardinality(Active) \in Nat
        <4>1. Active \in SUBSET Tasks
          OBVIOUS
        <4> HIDE DEF Active
        <4> QED BY <4>1, RegistryAssumption, FS_Subset, FS_CardinalityType
      <3>3. Cardinality(Active) <= MaxConcurrent
        <4>1. Registry!RunningIsBounded
          BY DEF IInv, TasksInv, Registry!RegistryInv
        <4>2. \A S : Registry!Cardinality(S) = Cardinality(S)
          BY DEF Registry!Cardinality, Cardinality
        <4> QED BY <4>1, <4>2 DEF Registry!RunningIsBounded, Registry!RunningJobs
      <3> HIDE DEF W, Active
      <3>4. /\ IsFiniteSet(Active \union {activeJobId})
            /\ Cardinality(Active \union {activeJobId}) <= Cardinality(Active) + 1
            /\ Cardinality(Active \union {activeJobId}) \in Nat
        BY <3>2, FS_AddElement
      <3>5. Cardinality(W) <= Cardinality(Active \union {activeJobId})
            /\ Cardinality(W) \in Nat
        BY <3>1, <3>4, FS_Subset, FS_CardinalityType
      <3> QED BY <3>2, <3>3, <3>4, <3>5, RegistryAssumption
    <2> QED BY <2>2, <2>3, <2>4 DEF QueueInv
  <1> QED BY <1>1, JobsInvariant, PTL

-----------------------------------------------------------------------------
(* The tasks of MCP clients: what is known of the registry alone. *)

(* A step is one of the registry or leaves it alone. *)
LEMMA StepOfRegistry ==
  [Next]_vars => [Registry!RegistryNext]_registryVars /\ [R!RegistryNext]_registryVars
  <1>1. ASSUME NEW t \in Tasks, NEW kind \in Kinds, NEW f \in Recordings,
               RequestTask(t, kind, f)
        PROVE  Registry!RegistryNext /\ R!RegistryNext
    BY <1>1, SameRegistry DEF RequestTask, Registry!RegistryNext, R!RegistryNext
  <1>2. ASSUME NEW t \in Tasks, TaskEnds(t)
        PROVE  Registry!RegistryNext /\ R!RegistryNext
    <2>1. PICK outcome \in {"completed", "failed"} : Registry!Finish(t, outcome)
      BY <1>2 DEF TaskEnds
    <2>2. R!Finish(t, outcome)
      BY <2>1, SameRegistry
    <2> QED BY <2>1, <2>2 DEF Registry!RegistryNext, R!RegistryNext
  <1>3. CASE UNCHANGED vars
    BY <1>3 DEF vars
  <1> QED BY <1>1, <1>2, <1>3 DEF Next, Step, TaskStep

(* The registry behaves as described alone, although its tasks work on the same
   recordings as the jobs of the page (automationRuntime.main.ts:200-236,
   jobRegistry.std.ts:51-176). *)
THEOREM TasksFollowRegistry ==
  Spec => Registry!RegistryInit /\ [][Registry!RegistryNext]_registryVars
  <1>1. Init => Registry!RegistryInit
    BY DEF Init
  <1> QED BY <1>1, StepOfRegistry, PTL DEF Spec

(* Tasks of MCP clients start in the order in which they were asked for, whatever
   the page has processed at the same time, and a registry at rest keeps no more
   of them than it may (jobRegistry.std.ts:117-176). *)
THEOREM TasksKeepTheirOrder ==
  Spec => []Registry!RegistryKeepsOrder
  <1>1. Init => R!RegistryInv /\ R!OrderInv
    BY SameRegistry, RegistryAssumptions, R!RegistryInitInv, R!RegistryInitOrder
       DEF Init
  <1>2. R!RegistryInv /\ R!OrderInv /\ [Next]_vars => R!RegistryInv' /\ R!OrderInv'
    BY StepOfRegistry, RegistryAssumptions, R!RegistryNextInv, R!RegistryNextOrder
       DEF R!registryVars, registryVars
  <1>3. R!RegistryInv /\ R!OrderInv => Registry!RegistryKeepsOrder
    <2>1. ASSUME R!RegistryKeepsOrder PROVE Registry!RegistryKeepsOrder
      <3>1. /\ Registry!Unfinished = R!Unfinished
            /\ Registry!Finished = R!Finished
        BY DEF Registry!Unfinished, R!Unfinished, Registry!Finished, R!Finished
      <3>2. Registry!Retained = R!Retained
        BY <3>1 DEF Registry!Retained, R!Retained
      <3>3. Registry!Cardinality(R!Retained) = R!Cardinality(R!Retained)
        BY DEF Registry!Cardinality, R!Cardinality
      <3> QED
        BY <2>1, <3>1, <3>2, <3>3
           DEF Registry!RegistryKeepsOrder, R!RegistryKeepsOrder,
               Registry!IdleIsBounded, R!IdleIsBounded,
               Registry!StartsInOrder, R!StartsInOrder
    <2> QED BY <2>1, RegistryAssumptions, R!OrderIsKept
  <1> QED BY <1>1, <1>2, <1>3, PTL DEF Spec
===============================================================================
