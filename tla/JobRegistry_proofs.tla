-------------------------- MODULE JobRegistry_proofs --------------------------
(***************************************************************************)
(* Proofs, for every finite set of jobs and all limits, that the registry  *)
(* counts its running tasks correctly, never runs more than it may, leaves *)
(* no job waiting for a free place, and forgets or leaves waiting nobody   *)
(* whose job has not ended; that it starts jobs in the order in which they *)
(* were enqueued; and that at rest it keeps no more than it may.           *)
(***************************************************************************)
EXTENDS JobRegistry, TLAPS, FiniteSetTheorems, FunctionTheorems

(* #drain() starts as many different jobs as it counts. *)
LEMMA StartedCardinality ==
  ASSUME NEW q \in Seq(Jobs), Distinct(q), NEW n \in 0 .. Len(q)
  PROVE  /\ Started(q, n) \in SUBSET Jobs
         /\ IsFiniteSet(Started(q, n))
         /\ Cardinality(Started(q, n)) = n
  <1> DEFINE f == [i \in 1 .. n |-> q[i]]
  <1>1. f \in [1 .. n -> Started(q, n)]
    BY DEF Started
  <1>2. \A a, b \in 1 .. n : f[a] = f[b] => a = b
    BY DEF Distinct
  <1>3. \A t \in Started(q, n) : \E s \in 1 .. n : f[s] = t
    BY DEF Started
  <1>4. f \in Bijection(1 .. n, Started(q, n))
    BY <1>1, <1>2, <1>3, Fun_IsBij
  <1>5. ExistsBijection(1 .. n, Started(q, n))
    BY <1>4 DEF ExistsBijection
  <1>6. IsFiniteSet(1 .. n) /\ Cardinality(1 .. n) = n
    BY FS_Interval
  <1>7. IsFiniteSet(Started(q, n)) /\ Cardinality(Started(q, n)) = n
    BY <1>5, <1>6, FS_Bijection
  <1>8. Started(q, n) \in SUBSET Jobs
    BY DEF Started
  <1> QED BY <1>7, <1>8

(* What #drain() establishes from any consistent statuses and queue. *)
LEMMA DrainEstablishes ==
  ASSUME NEW stat \in [Jobs -> Statuses],
         NEW q \in Seq(Jobs), Distinct(q),
         {q[i] : i \in DOMAIN q} = {j \in Jobs : stat[j] = "queued"},
         NEW busy \in 0 .. MaxConcurrent,
         busy = Cardinality({j \in Jobs : stat[j] = "running"}),
         Drain(stat, q, busy)
  PROVE  /\ status' \in [Jobs -> Statuses]
         /\ queue' \in Seq(Jobs)
         /\ running' \in Nat
         /\ RunningIsBounded'
         /\ NobodyWaitsForAFreePlace'
         /\ Distinct(queue)'
         /\ \A j \in Jobs :
              stat[j] \in {"queued", "running"}
                <=> status'[j] \in {"queued", "running"}
         /\ \A j \in Jobs :
              stat[j] \in {"completed", "failed"}
                <=> status'[j] \in {"completed", "failed"}
  <1> DEFINE n == Starts(q, busy)
             was == {j \in Jobs : stat[j] = "running"}
  <1>1. /\ n \in 0 .. Len(q)
        /\ n <= MaxConcurrent - busy
        /\ n = Len(q) \/ n = MaxConcurrent - busy
    BY LimitsAssumption DEF Starts, Smaller
  <1>2. /\ status' = [j \in Jobs |->
                        IF j \in Started(q, n) THEN "running" ELSE stat[j]]
        /\ queue' = SubSeq(q, n + 1, Len(q))
        /\ running' = busy + n
    BY DEF Drain
  <1> HIDE DEF n
  <1>3. /\ Started(q, n) \in SUBSET Jobs
        /\ IsFiniteSet(Started(q, n))
        /\ Cardinality(Started(q, n)) = n
    BY <1>1, StartedCardinality
  <1>4. \A j \in Started(q, n) : stat[j] = "queued"
    BY <1>1 DEF Started
  <1>5. status' \in [Jobs -> Statuses]
    BY <1>2 DEF Statuses
  <1>6. /\ queue' \in Seq(Jobs)
        /\ Len(queue') = Len(q) - n
        /\ \A i \in 1 .. Len(q) - n : queue'[i] = q[i + n]
    BY <1>1, <1>2
  <1>7. running' \in Nat /\ running' <= MaxConcurrent
    BY <1>1, <1>2, LimitsAssumption
  <1>8. RunningJobs' = was \union Started(q, n) /\ was \intersect Started(q, n) = {}
    BY <1>2, <1>3, <1>4 DEF RunningJobs
  <1>9. IsFiniteSet(was)
    BY JobsAssumption, FS_Subset
  <1>10. Cardinality(RunningJobs') = busy + n
    <2>1. Cardinality(was \union Started(q, n))
            = Cardinality(was) + Cardinality(Started(q, n))
                - Cardinality(was \intersect Started(q, n))
      BY <1>3, <1>9, FS_Union
    <2>2. Cardinality(was \intersect Started(q, n)) = 0
      BY <1>8, FS_EmptySet
    <2> QED BY <1>1, <1>3, <1>8, <2>1, <2>2
  <1>11. RunningIsBounded'
    BY <1>2, <1>7, <1>10 DEF RunningIsBounded
  <1>12. Distinct(queue)'
    <2>1. ASSUME NEW a \in DOMAIN queue', NEW b \in DOMAIN queue',
                 queue'[a] = queue'[b]
          PROVE  a = b
      <3>1. /\ a + n \in DOMAIN q /\ b + n \in DOMAIN q
            /\ q[a + n] = q[b + n]
        BY <1>1, <1>6, <2>1
      <3>2. a + n = b + n
        BY <3>1 DEF Distinct
      <3> QED BY <1>1, <1>6, <3>2
    <2> QED BY <2>1 DEF Distinct
  <1>13. queue' # <<>> => running' = MaxConcurrent
    <2>1. queue' # <<>> => n # Len(q)
      BY <1>1, <1>6
    <2> QED BY <1>1, <1>2, <2>1, LimitsAssumption
  <1>14. {queue'[i] : i \in DOMAIN queue'} = {j \in Jobs : status'[j] = "queued"}
    <2>1. ASSUME NEW i \in DOMAIN queue'
          PROVE  queue'[i] \in Jobs /\ status'[queue'[i]] = "queued"
      <3>1. i + n \in DOMAIN q /\ i + n > n /\ queue'[i] = q[i + n]
        BY <1>1, <1>6
      <3>2. q[i + n] \notin Started(q, n)
        BY <1>1, <3>1 DEF Started, Distinct
      <3>3. q[i + n] \in Jobs /\ stat[q[i + n]] = "queued"
        BY <3>1
      <3> QED BY <1>2, <3>1, <3>2, <3>3
    <2>2. ASSUME NEW j \in Jobs, status'[j] = "queued"
          PROVE  \E i \in DOMAIN queue' : queue'[i] = j
      <3>1. j \notin Started(q, n) /\ stat[j] = "queued"
        BY <1>2, <2>2
      <3>2. PICK k \in DOMAIN q : q[k] = j
        BY <3>1
      <3>3. k > n
        BY <1>1, <3>1, <3>2 DEF Started
      <3>4. k - n \in DOMAIN queue' /\ queue'[k - n] = q[k]
        BY <1>1, <1>6, <3>2, <3>3
      <3> QED BY <3>2, <3>4
    <2> QED BY <2>1, <2>2
  <1>15. NobodyWaitsForAFreePlace'
    BY <1>13, <1>14 DEF NobodyWaitsForAFreePlace
  <1>16. \A j \in Jobs :
           /\ stat[j] \in {"queued", "running"}
                <=> status'[j] \in {"queued", "running"}
           /\ stat[j] \in {"completed", "failed"}
                <=> status'[j] \in {"completed", "failed"}
    BY <1>2, <1>4
  <1> QED BY <1>5, <1>6, <1>7, <1>11, <1>12, <1>15, <1>16

(* An empty registry satisfies the invariant. *)
LEMMA RegistryInitInv ==
  RegistryInit => RegistryInv
  <1> SUFFICES ASSUME RegistryInit PROVE RegistryInv
    OBVIOUS
  <1> USE DEF RegistryInit
  <1>1. RegistryTypeOK
    BY DEF RegistryTypeOK, Statuses
  <1>2. RunningIsBounded
    <2>1. RunningJobs = {}
      BY DEF RunningJobs
    <2> QED BY <2>1, FS_EmptySet, LimitsAssumption DEF RunningIsBounded
  <1>3. NobodyWaitsForAFreePlace
    BY DEF NobodyWaitsForAFreePlace
  <1>4. Distinct(queue)
    BY DEF Distinct
  <1>5. UnfinishedAreRetained /\ WaitersAreTold
    BY DEF UnfinishedAreRetained, WaitersAreTold
  <1> QED BY <1>1, <1>2, <1>3, <1>4, <1>5 DEF RegistryInv

(* enqueue(): the new job joins the end of the queue, then #drain() runs. *)
LEMMA EnqueuePreservesInv ==
  ASSUME RegistryInv, NEW j \in Jobs, Enqueue(j)
  PROVE  /\ RegistryInv'
         /\ j \in Unfinished' /\ status[j] = "none"
         /\ \A k \in Jobs \ {j} : status'[k] = "none" <=> status[k] = "none"
  <1> DEFINE stat == [status EXCEPT ![j] = "queued"]
             q == Append(queue, j)
  <1> USE DEF RegistryInv, RegistryTypeOK
  <1>1. /\ status[j] = "none"
        /\ enqueued' = Append(enqueued, j)
        /\ Drain(stat, q, running)
        /\ UNCHANGED <<forgotten, waiting>>
    BY DEF Enqueue
  <1>2. stat \in [Jobs -> Statuses] /\ q \in Seq(Jobs)
    BY DEF Statuses
  <1>3. \A i \in DOMAIN queue : queue[i] # j
    BY <1>1 DEF NobodyWaitsForAFreePlace
  <1>4. Distinct(q)
    BY <1>3 DEF Distinct
  <1>5. {q[i] : i \in DOMAIN q} = {k \in Jobs : stat[k] = "queued"}
    <2>1. {q[i] : i \in DOMAIN q} = {queue[i] : i \in DOMAIN queue} \union {j}
      <3>1. /\ Len(q) = Len(queue) + 1
            /\ q[Len(q)] = j
            /\ \A i \in 1 .. Len(queue) : q[i] = queue[i]
        OBVIOUS
      <3> QED BY <3>1
    <2>2. {k \in Jobs : stat[k] = "queued"}
            = {k \in Jobs : status[k] = "queued"} \union {j}
      OBVIOUS
    <2> QED BY <2>1, <2>2 DEF NobodyWaitsForAFreePlace
  <1>6. {k \in Jobs : stat[k] = "running"} = RunningJobs
    BY <1>1 DEF RunningJobs
  <1>7. running \in 0 .. MaxConcurrent
    BY LimitsAssumption DEF RunningIsBounded
  <1> HIDE DEF stat, q
  <1>8. /\ status' \in [Jobs -> Statuses]
        /\ queue' \in Seq(Jobs)
        /\ running' \in Nat
        /\ RunningIsBounded'
        /\ NobodyWaitsForAFreePlace'
        /\ Distinct(queue)'
        /\ \A k \in Jobs :
             /\ stat[k] \in {"queued", "running"}
                  <=> status'[k] \in {"queued", "running"}
             /\ stat[k] \in {"completed", "failed"}
                  <=> status'[k] \in {"completed", "failed"}
    BY <1>1, <1>2, <1>4, <1>5, <1>6, <1>7, DrainEstablishes
       DEF RunningIsBounded
  <1>9. RegistryTypeOK'
    BY <1>1, <1>8
  <1>10. \A k \in Jobs : k # j => stat[k] = status[k]
    BY DEF stat
  <1>11. UnfinishedAreRetained'
    BY <1>1, <1>8, <1>10 DEF UnfinishedAreRetained, Finished
  <1>12. WaitersAreTold'
    BY <1>1, <1>8, <1>10 DEF WaitersAreTold, Unfinished
  <1>13. stat[j] = "queued"
    BY DEF stat
  <1>14. j \in Unfinished'
    BY <1>8, <1>13 DEF Unfinished
  <1>15. \A k \in Jobs \ {j} : status'[k] = "none" <=> status[k] = "none"
    BY <1>2, <1>8, <1>10 DEF Statuses
  <1> QED BY <1>1, <1>8, <1>9, <1>11, <1>12, <1>14, <1>15

(* waitFor() adds a waiter of a job that has not ended. *)
LEMMA WaitForPreservesInv ==
  ASSUME RegistryInv, NEW j \in Jobs, WaitFor(j)
  PROVE  RegistryInv'
  <1> USE DEF RegistryInv, WaitFor
  <1>1. RegistryTypeOK'
    BY DEF RegistryTypeOK
  <1>2. RunningIsBounded' /\ NobodyWaitsForAFreePlace' /\ UnfinishedAreRetained'
    BY DEF RunningIsBounded, NobodyWaitsForAFreePlace, UnfinishedAreRetained,
           RunningJobs, Finished
  <1>3. Distinct(queue)'
    BY DEF Distinct
  <1>4. WaitersAreTold'
    BY DEF WaitersAreTold, Retained, Unfinished, Finished
  <1> QED BY <1>1, <1>2, <1>3, <1>4

(* The end of a task frees its place before #drain() counts. *)
LEMMA FinishPreservesInv ==
  ASSUME RegistryInv, NEW j \in Jobs,
         NEW outcome \in {"completed", "failed"}, Finish(j, outcome)
  PROVE  /\ RegistryInv'
         /\ j \in Unfinished
         /\ Unfinished' = Unfinished \ {j} /\ Finished' = Finished \union {j}
  <1> DEFINE stat == [status EXCEPT ![j] = outcome]
  <1> USE DEF RegistryInv, RegistryTypeOK
  <1>1. /\ status[j] = "running"
        /\ Drain(stat, queue, running - 1)
        /\ waiting' = waiting \ {j}
        /\ forgotten' = forgotten \union Pruned({j})
        /\ UNCHANGED enqueued
    BY DEF Finish
  <1>2. stat \in [Jobs -> Statuses]
    BY DEF Statuses
  <1>3. {queue[i] : i \in DOMAIN queue} = {k \in Jobs : stat[k] = "queued"}
    BY <1>1 DEF NobodyWaitsForAFreePlace
  <1>4. {k \in Jobs : stat[k] = "running"} = RunningJobs \ {j}
    BY <1>1 DEF RunningJobs
  <1>5. IsFiniteSet(RunningJobs)
    BY JobsAssumption, FS_Subset DEF RunningJobs
  <1>6. j \in RunningJobs
    BY <1>1 DEF RunningJobs
  <1>7. Cardinality(RunningJobs \ {j}) = running - 1
    BY <1>5, <1>6, FS_RemoveElement DEF RunningIsBounded
  <1>8. Cardinality(RunningJobs \ {j}) \in Nat
    BY <1>5, FS_RemoveElement, FS_CardinalityType
  <1>9. running - 1 \in 0 .. MaxConcurrent
    BY <1>7, <1>8, LimitsAssumption DEF RunningIsBounded
  <1> HIDE DEF stat
  <1>10. /\ status' \in [Jobs -> Statuses]
         /\ queue' \in Seq(Jobs)
         /\ running' \in Nat
         /\ RunningIsBounded'
         /\ NobodyWaitsForAFreePlace'
         /\ Distinct(queue)'
         /\ \A k \in Jobs :
              /\ stat[k] \in {"queued", "running"}
                   <=> status'[k] \in {"queued", "running"}
              /\ stat[k] \in {"completed", "failed"}
                   <=> status'[k] \in {"completed", "failed"}
    BY <1>1, <1>2, <1>3, <1>4, <1>7, <1>9, DrainEstablishes
  <1>11. stat[j] = outcome /\ \A k \in Jobs : k # j => stat[k] = status[k]
    BY DEF stat
  <1>12. Pruned({j}) \subseteq Finished \union {j}
    BY DEF Pruned, Prunable, Retained, Unfinished, Finished
  <1>13. Finished \union {j} \subseteq Finished'
    BY <1>10, <1>11 DEF Finished
  <1>14. UnfinishedAreRetained'
    BY <1>1, <1>12, <1>13 DEF UnfinishedAreRetained
  <1>15. RegistryTypeOK'
    BY <1>1, <1>10, <1>12 DEF Finished
  <1>16. WaitersAreTold'
    BY <1>1, <1>10, <1>11 DEF WaitersAreTold, Unfinished
  <1>17. Unfinished' = Unfinished \ {j}
    BY <1>1, <1>10, <1>11 DEF Unfinished
  <1>18. Finished' = Finished \union {j}
    BY <1>1, <1>10, <1>11 DEF Finished
  <1>19. j \in Unfinished
    BY <1>1 DEF Unfinished
  <1> QED BY <1>10, <1>14, <1>15, <1>16, <1>17, <1>18, <1>19

(* Every step of the registry preserves the invariant. *)
LEMMA RegistryNextInv ==
  RegistryInv /\ [RegistryNext]_registryVars => RegistryInv'
  <1> SUFFICES ASSUME RegistryInv, [RegistryNext]_registryVars
               PROVE  RegistryInv'
    OBVIOUS
  <1>1. ASSUME NEW j \in Jobs, Enqueue(j) PROVE RegistryInv'
    BY <1>1, EnqueuePreservesInv
  <1>2. ASSUME NEW j \in Jobs, WaitFor(j) PROVE RegistryInv'
    BY <1>2, WaitForPreservesInv
  <1>3. ASSUME NEW j \in Jobs, Finish(j, "completed") \/ Finish(j, "failed")
        PROVE  RegistryInv'
    BY <1>3, FinishPreservesInv
  <1>4. CASE UNCHANGED registryVars
    BY <1>4 DEF registryVars, RegistryInv, RegistryTypeOK, RunningIsBounded,
        NobodyWaitsForAFreePlace, Distinct, UnfinishedAreRetained,
        WaitersAreTold, RunningJobs, Unfinished, Finished
  <1> QED BY <1>1, <1>2, <1>3, <1>4 DEF RegistryNext

(* The invariant holds for every finite set of jobs and all limits. *)
THEOREM RegistryInvariant ==
  RegistrySpec => []RegistryInv
  <1> QED BY RegistryInitInv, RegistryNextInv, PTL DEF RegistrySpec

(* Type correctness. *)
THEOREM RegistryTypeCorrect ==
  RegistrySpec => []RegistryTypeOK
  <1>1. RegistryInv => RegistryTypeOK
    BY DEF RegistryInv
  <1> QED BY <1>1, RegistryInvariant, PTL

(* enqueue() and the end of a task never let more than maxConcurrent tasks
   run, and #running counts them (jobRegistry.std.ts:117-128,147). *)
THEOREM ConcurrencyIsBounded ==
  RegistrySpec => []RunningIsBounded
  <1>1. RegistryInv => RunningIsBounded
    BY DEF RegistryInv
  <1> QED BY <1>1, RegistryInvariant, PTL

(* A job is queued only while every place is taken. *)
THEOREM NoPlaceIsWasted ==
  RegistrySpec => []NobodyWaitsForAFreePlace
  <1>1. RegistryInv => NobodyWaitsForAFreePlace
    BY DEF RegistryInv
  <1> QED BY <1>1, RegistryInvariant, PTL

(* #pruneCompletedJobs() forgets finished jobs only, and who waits for a job
   waits for one that has not ended. *)
THEOREM PruningSparesUnfinished ==
  RegistrySpec => [](UnfinishedAreRetained /\ WaitersAreTold)
  <1>1. RegistryInv => UnfinishedAreRetained /\ WaitersAreTold
    BY DEF RegistryInv
  <1> QED BY <1>1, RegistryInvariant, PTL

-----------------------------------------------------------------------------
(* First come first served, and no more finished jobs than may be kept. *)

\* A job has one place in the order in which they were enqueued.
EnqueuedOnce ==
    /\ Distinct(enqueued)
    /\ {enqueued[i] : i \in DOMAIN enqueued} = {j \in Jobs : status[j] # "none"}

\* The queue holds the jobs that were enqueued last, in that order.
QueueIsTail ==
    /\ Len(queue) <= Len(enqueued)
    /\ \A i \in DOMAIN queue :
          queue[i] = enqueued[Len(enqueued) - Len(queue) + i]

OrderInv ==
    /\ EnqueuedOnce
    /\ QueueIsTail
    /\ IdleIsBounded

(* The oldest n of the jobs that are kept are n jobs: no two of them have the
   same number of jobs before them. *)
LEMMA OldestAreCounted ==
  ASSUME enqueued \in Seq(Jobs), Distinct(enqueued),
         NEW kept \in SUBSET {enqueued[i] : i \in DOMAIN enqueued},
         NEW n \in 0 .. Cardinality(kept)
  PROVE  Cardinality({j \in kept : Cardinality(NoLaterThan(j, kept)) <= n}) = n
  <1> DEFINE N == Cardinality(kept)
             rank == [j \in kept |-> Cardinality(NoLaterThan(j, kept))]
             oldest == {j \in kept : Cardinality(NoLaterThan(j, kept)) <= n}
  <1>1. IsFiniteSet(kept) /\ N \in Nat
    <2>1. kept \in SUBSET Jobs
      OBVIOUS
    <2> QED BY <2>1, JobsAssumption, FS_Subset, FS_CardinalityType
  <1>2. ASSUME NEW j \in kept
        PROVE  /\ NoLaterThan(j, kept) \subseteq kept /\ j \in NoLaterThan(j, kept)
               /\ IsFiniteSet(NoLaterThan(j, kept))
               /\ Cardinality(NoLaterThan(j, kept)) \in 1 .. N
    <2>1. NoLaterThan(j, kept) \subseteq kept /\ j \in NoLaterThan(j, kept)
      BY DEF NoLaterThan
    <2>2. /\ IsFiniteSet(NoLaterThan(j, kept))
          /\ Cardinality(NoLaterThan(j, kept)) \in Nat
          /\ Cardinality(NoLaterThan(j, kept)) <= N
      BY <1>1, <2>1, FS_Subset, FS_CardinalityType
    <2>3. Cardinality(NoLaterThan(j, kept)) # 0
      BY <2>1, <2>2, FS_EmptySet
    <2> QED BY <1>1, <2>1, <2>2, <2>3
  <1>3. ASSUME NEW j \in kept, NEW k \in kept,
               NEW a \in DOMAIN enqueued, NEW b \in DOMAIN enqueued,
               enqueued[a] = j, enqueued[b] = k, a < b
        PROVE  Cardinality(NoLaterThan(j, kept)) # Cardinality(NoLaterThan(k, kept))
    <2>1. NoLaterThan(j, kept) \subseteq NoLaterThan(k, kept)
      <3>1. ASSUME NEW l \in NoLaterThan(j, kept)
            PROVE  l \in NoLaterThan(k, kept)
        <4>1. PICK m \in DOMAIN enqueued, o \in DOMAIN enqueued :
                 enqueued[m] = l /\ enqueued[o] = j /\ m <= o
          BY DEF NoLaterThan
        <4>2. o = a
          BY <1>3, <4>1 DEF Distinct
        <4>3. m <= b
          BY <1>3, <4>1, <4>2
        <4> QED BY <1>2, <1>3, <4>1, <4>3 DEF NoLaterThan
      <3> QED BY <3>1
    <2>2. k \notin NoLaterThan(j, kept)
      <3> SUFFICES ASSUME k \in NoLaterThan(j, kept) PROVE FALSE
        OBVIOUS
      <3>1. PICK m \in DOMAIN enqueued, o \in DOMAIN enqueued :
               enqueued[m] = k /\ enqueued[o] = j /\ m <= o
        BY DEF NoLaterThan
      <3>2. m = b /\ o = a
        BY <1>3, <3>1 DEF Distinct
      <3> QED BY <1>3, <3>1, <3>2
    <2> QED BY <1>2, <2>1, <2>2, FS_Subset
  <1>4. ASSUME NEW j \in kept, NEW k \in kept, j # k
        PROVE  Cardinality(NoLaterThan(j, kept)) # Cardinality(NoLaterThan(k, kept))
    <2>1. PICK a \in DOMAIN enqueued, b \in DOMAIN enqueued :
             enqueued[a] = j /\ enqueued[b] = k
      OBVIOUS
    <2>2. a < b \/ b < a
      BY <1>4, <2>1
    <2> QED BY <1>3, <2>1, <2>2
  <1>5. /\ rank \in [kept -> 1 .. N]
        /\ \A j, k \in kept : rank[j] = rank[k] => j = k
    BY <1>2, <1>4
  <1>6. rank \in Injection(kept, 1 .. N)
    BY <1>5, Fun_IsInj
  <1>7. rank \in Surjection(kept, 1 .. N)
    <2> HIDE DEF rank, N
    <2>1. IsFiniteSet(1 .. N) /\ Cardinality(1 .. N) = N
      BY <1>1, FS_Interval
    <2> QED BY <1>6, <2>1, FS_Injection DEF N
  <1>8. \A m \in 1 .. N : \E j \in kept : rank[j] = m
    BY <1>7 DEF Surjection
  <1> DEFINE place == [j \in oldest |-> rank[j]]
  <1>9. place \in Bijection(oldest, 1 .. n)
    <2>1. place \in [oldest -> 1 .. n]
      BY <1>1, <1>2
    <2>2. \A j, k \in oldest : place[j] = place[k] => j = k
      BY <1>5
    <2>3. \A m \in 1 .. n : \E j \in oldest : place[j] = m
      BY <1>1, <1>8
    <2> HIDE DEF place, oldest
    <2> QED BY <2>1, <2>2, <2>3, Fun_IsBij
  <1>10. IsFiniteSet(oldest)
    BY <1>1, FS_Subset
  <1>11. Cardinality(1 .. n) = n
    BY <1>1, FS_Interval
  <1> HIDE DEF oldest, place
  <1>12. ExistsBijection(oldest, 1 .. n)
    BY <1>9 DEF ExistsBijection
  <1>13. Cardinality(oldest) = n
    BY <1>10, <1>11, <1>12, FS_Bijection
  <1> QED BY <1>13 DEF oldest

(* What #drain() leaves of the queue is its tail. *)
LEMMA DrainKeepsTail ==
  ASSUME NEW stat, NEW q \in Seq(Jobs), NEW e \in Seq(Jobs), NEW busy \in Nat,
         busy <= MaxConcurrent,
         Len(q) <= Len(e),
         \A i \in DOMAIN q : q[i] = e[Len(e) - Len(q) + i],
         Drain(stat, q, busy), enqueued' = e
  PROVE  QueueIsTail'
  <1> DEFINE n == Starts(q, busy)
  <1>1. n \in 0 .. Len(q) /\ queue' = SubSeq(q, n + 1, Len(q))
    BY LimitsAssumption DEF Starts, Smaller, Drain
  <1> HIDE DEF n
  <1>2. /\ queue' \in Seq(Jobs)
        /\ Len(queue') = Len(q) - n
        /\ \A i \in 1 .. Len(q) - n : queue'[i] = q[i + n]
    BY <1>1
  <1>3. ASSUME NEW i \in 1 .. Len(q) - n
        PROVE  queue'[i] = e[Len(e) - Len(queue') + i]
    <2>1. i + n \in DOMAIN q
      BY <1>1
    <2>2. q[i + n] = e[Len(e) - Len(q) + (i + n)]
      BY <2>1
    <2>3. Len(e) - Len(q) + (i + n) = Len(e) - Len(queue') + i
      <3>1. /\ Len(e) \in Nat /\ Len(q) \in Nat /\ n \in Nat /\ i \in Nat
            /\ Len(queue') = Len(q) - n
        BY <1>1, <1>2
      <3> QED BY <3>1
    <2> QED BY <1>2, <2>2, <2>3
  <1>4. DOMAIN queue' = 1 .. Len(q) - n
    BY <1>2
  <1>5. Len(queue') <= Len(e)
    BY <1>1, <1>2
  <1> QED BY <1>3, <1>4, <1>5 DEF QueueIsTail

(* An empty registry is in order. *)
LEMMA RegistryInitOrder ==
  RegistryInit => OrderInv
  <1> SUFFICES ASSUME RegistryInit PROVE OrderInv
    OBVIOUS
  <1>1. EnqueuedOnce /\ QueueIsTail
    BY DEF RegistryInit, EnqueuedOnce, QueueIsTail, Distinct
  <1>2. Retained = {}
    BY DEF RegistryInit, Retained, Unfinished, Finished
  <1>3. IdleIsBounded
    BY <1>2, FS_EmptySet, LimitsAssumption DEF IdleIsBounded
  <1> QED BY <1>1, <1>3 DEF OrderInv

(* enqueue() appends the job to both sequences; it is not idle. *)
LEMMA EnqueuePreservesOrder ==
  ASSUME RegistryInv, OrderInv, NEW j \in Jobs, Enqueue(j)
  PROVE  OrderInv'
  <1>1. /\ j \in Unfinished' /\ status[j] = "none"
        /\ \A k \in Jobs \ {j} : status'[k] = "none" <=> status[k] = "none"
    BY EnqueuePreservesInv
  <1>2. /\ enqueued' = Append(enqueued, j)
        /\ Drain([status EXCEPT ![j] = "queued"], Append(queue, j), running)
    BY DEF Enqueue
  <1>3. /\ enqueued \in Seq(Jobs) /\ queue \in Seq(Jobs) /\ running \in Nat
        /\ running <= MaxConcurrent
    BY DEF RegistryInv, RegistryTypeOK, RunningIsBounded
  <1>4. /\ Len(enqueued') = Len(enqueued) + 1 /\ enqueued'[Len(enqueued) + 1] = j
        /\ \A i \in 1 .. Len(enqueued) : enqueued'[i] = enqueued[i]
        /\ enqueued' \in Seq(Jobs)
    BY <1>2, <1>3
  <1>5. EnqueuedOnce'
    <2>1. \A i \in 1 .. Len(enqueued) : enqueued[i] # j
      BY <1>1, <1>3 DEF OrderInv, EnqueuedOnce
    <2>2. Distinct(enqueued)'
      BY <1>3, <1>4, <2>1 DEF OrderInv, EnqueuedOnce, Distinct
    <2>3. {enqueued'[i] : i \in DOMAIN enqueued'}
            = {enqueued[i] : i \in DOMAIN enqueued} \union {j}
      BY <1>3, <1>4, SMTT(30)
    <2>4. {k \in Jobs : status'[k] # "none"}
            = {k \in Jobs : status[k] # "none"} \union {j}
      BY <1>1 DEF Unfinished
    <2> QED BY <2>2, <2>3, <2>4 DEF OrderInv, EnqueuedOnce
  <1>6. QueueIsTail'
    <2> DEFINE q == Append(queue, j)
               stat == [status EXCEPT ![j] = "queued"]
    <2>1. /\ q \in Seq(Jobs) /\ Len(q) = Len(queue) + 1 /\ q[Len(queue) + 1] = j
          /\ \A i \in 1 .. Len(queue) : q[i] = queue[i]
      BY <1>3
    <2>2. Len(queue) <= Len(enqueued)
      BY DEF OrderInv, QueueIsTail
    <2>3. Drain(stat, q, running)
      BY <1>2
    <2> HIDE DEF q, stat
    <2>4. ASSUME NEW i \in DOMAIN q
          PROVE  q[i] = enqueued'[Len(enqueued') - Len(q) + i]
      <3>1. Len(enqueued') - Len(q) + i = Len(enqueued) - Len(queue) + i
        BY <1>3, <1>4, <2>1
      <3>2. CASE i = Len(queue) + 1
        <4>1. Len(enqueued) - Len(queue) + i = Len(enqueued) + 1
          BY <1>3, <3>2
        <4> QED BY <1>4, <2>1, <3>1, <3>2, <4>1
      <3>3. CASE i \in 1 .. Len(queue)
        <4>1. queue[i] = enqueued[Len(enqueued) - Len(queue) + i]
          BY <3>3 DEF OrderInv, QueueIsTail
        <4>2. Len(enqueued) - Len(queue) + i \in 1 .. Len(enqueued)
          BY <1>3, <2>2, <3>3
        <4> QED BY <1>4, <2>1, <3>1, <3>3, <4>1, <4>2
      <3> QED BY <1>3, <2>1, <3>2, <3>3
    <2>5. Len(q) <= Len(enqueued')
      BY <1>3, <1>4, <2>1, <2>2
    <2> QED BY <1>3, <1>4, <2>1, <2>3, <2>4, <2>5, DrainKeepsTail
  <1>7. IdleIsBounded'
    BY <1>1 DEF IdleIsBounded
  <1> QED BY <1>5, <1>6, <1>7 DEF OrderInv

(* The end of the last task prunes every job, finished as they all are, down to
   the limit. *)
LEMMA FinishPreservesOrder ==
  ASSUME RegistryInv, OrderInv, NEW j \in Jobs,
         NEW outcome \in {"completed", "failed"}, Finish(j, outcome)
  PROVE  OrderInv'
  <1>1. /\ j \in Unfinished /\ status' \in [Jobs -> Statuses]
        /\ Unfinished' = Unfinished \ {j} /\ Finished' = Finished \union {j}
    BY FinishPreservesInv DEF RegistryInv, RegistryTypeOK
  <1>2. /\ Drain([status EXCEPT ![j] = outcome], queue, running - 1)
        /\ forgotten' = forgotten \union Pruned({j})
        /\ enqueued' = enqueued /\ status[j] = "running"
    BY DEF Finish
  <1>3. /\ enqueued \in Seq(Jobs) /\ queue \in Seq(Jobs) /\ running \in Nat
        /\ running <= MaxConcurrent /\ status \in [Jobs -> Statuses]
    BY DEF RegistryInv, RegistryTypeOK, RunningIsBounded
  <1>4. EnqueuedOnce'
    <2>1. {k \in Jobs : status'[k] # "none"} = {k \in Jobs : status[k] # "none"}
      <3>1. /\ {k \in Jobs : status'[k] # "none"} = Unfinished' \union Finished'
            /\ {k \in Jobs : status[k] # "none"} = Unfinished \union Finished
        BY <1>1, <1>3 DEF Unfinished, Finished, Statuses
      <3> QED BY <1>1, <3>1
    <2> QED BY <1>2, <2>1 DEF OrderInv, EnqueuedOnce, Distinct
  <1>5. QueueIsTail'
    <2>1. running - 1 \in Nat
      <3>1. IsFiniteSet(RunningJobs) /\ j \in RunningJobs
        BY <1>2, JobsAssumption, FS_Subset DEF RunningJobs
      <3>2. running # 0
        BY <3>1, FS_EmptySet DEF RegistryInv, RunningIsBounded
      <3> QED BY <1>3, <3>2
    <2>2. running - 1 <= MaxConcurrent
      BY <1>3, LimitsAssumption
    <2> QED BY <1>2, <1>3, <2>1, <2>2, DrainKeepsTail DEF OrderInv, QueueIsTail
  <1>6. ASSUME Unfinished' = {}
        PROVE  Cardinality(Retained') <= MaxRetainedJobs
    <2>1. Prunable({j}) = Retained
      BY <1>1, <1>6 DEF Prunable
    <2>2. Retained' = Retained \ Pruned({j}) /\ Pruned({j}) \subseteq Retained
      BY <1>1, <1>2, <2>1 DEF Retained, Pruned
    <2>3. IsFiniteSet(Retained) /\ Cardinality(Retained) \in Nat
      <3>1. Retained \in SUBSET Jobs
        BY DEF Retained, Unfinished, Finished
      <3> QED BY <3>1, JobsAssumption, FS_Subset, FS_CardinalityType
    <2>4. Cardinality(Retained') = Cardinality(Retained) - Cardinality(Pruned({j}))
      <3>1. Retained \intersect Pruned({j}) = Pruned({j})
        BY <2>2
      <3> QED BY <2>2, <2>3, <3>1, FS_Difference, ZenonT(60)
    <2>5. IsFiniteSet(Pruned({j})) /\ Cardinality(Pruned({j})) \in Nat
      BY <2>2, <2>3, FS_Subset, FS_CardinalityType
    <2>6. CASE Excess <= 0
      BY <2>3, <2>4, <2>5, <2>6, LimitsAssumption DEF Excess
    <2>7. CASE Excess > 0
      <3>1. Excess \in 0 .. Cardinality(Retained)
        BY <2>3, <2>7, LimitsAssumption DEF Excess
      <3>2. Retained \in SUBSET {enqueued[i] : i \in DOMAIN enqueued}
        BY <1>3 DEF OrderInv, EnqueuedOnce, Retained, Unfinished, Finished
      <3>3. Distinct(enqueued)
        BY DEF OrderInv, EnqueuedOnce
      <3>4. Cardinality({k \in Retained :
                           Cardinality(NoLaterThan(k, Retained)) <= Excess}) = Excess
        BY <1>3, <3>1, <3>2, <3>3, OldestAreCounted
      <3>5. Cardinality(Pruned({j})) = Excess
        BY <2>1, <3>4 DEF Pruned
      <3> QED BY <2>3, <2>4, <3>5, LimitsAssumption DEF Excess
    <2> QED BY <2>3, <2>6, <2>7, LimitsAssumption DEF Excess
  <1>7. IdleIsBounded'
    BY <1>6 DEF IdleIsBounded
  <1> QED BY <1>4, <1>5, <1>7 DEF OrderInv

(* Every step keeps the order and the limit. *)
LEMMA RegistryNextOrder ==
  RegistryInv /\ OrderInv /\ [RegistryNext]_registryVars => OrderInv'
  <1> SUFFICES ASSUME RegistryInv, OrderInv, [RegistryNext]_registryVars
               PROVE  OrderInv'
    OBVIOUS
  <1>1. ASSUME NEW j \in Jobs, Enqueue(j) PROVE OrderInv'
    BY <1>1, EnqueuePreservesOrder
  <1>2. ASSUME UNCHANGED <<status, queue, enqueued, forgotten>> PROVE OrderInv'
    BY <1>2 DEF OrderInv, EnqueuedOnce, QueueIsTail, IdleIsBounded, Distinct,
                Retained, Unfinished, Finished
  <1>3. ASSUME NEW j \in Jobs, WaitFor(j) PROVE OrderInv'
    BY <1>2, <1>3 DEF WaitFor
  <1>4. ASSUME NEW j \in Jobs, Finish(j, "completed") \/ Finish(j, "failed")
        PROVE  OrderInv'
    BY <1>4, FinishPreservesOrder
  <1>5. CASE UNCHANGED registryVars
    BY <1>2, <1>5 DEF registryVars
  <1> QED BY <1>1, <1>3, <1>4, <1>5 DEF RegistryNext

(* A queue that is the end of the Map keeps its order. *)
LEMMA OrderIsKept ==
  RegistryInv /\ OrderInv => RegistryKeepsOrder
  <1> SUFFICES ASSUME RegistryInv, OrderInv,
                      NEW m \in DOMAIN enqueued, NEW n \in DOMAIN enqueued,
                      m < n, status[enqueued[m]] = "queued"
               PROVE  status[enqueued[n]] = "queued"
    BY DEF RegistryKeepsOrder, StartsInOrder, OrderInv
  <1>1. enqueued \in Seq(Jobs) /\ queue \in Seq(Jobs)
    BY DEF RegistryInv, RegistryTypeOK
  <1>2. {queue[i] : i \in DOMAIN queue} = {k \in Jobs : status[k] = "queued"}
    BY DEF RegistryInv, NobodyWaitsForAFreePlace
  <1>3. PICK i \in DOMAIN queue : queue[i] = enqueued[m]
    BY <1>1, <1>2
  <1> DEFINE k == Len(enqueued) - Len(queue)
  <1>4. k \in Nat /\ \A l \in DOMAIN queue : queue[l] = enqueued[k + l]
    BY <1>1 DEF OrderInv, QueueIsTail
  <1>5. m = k + i
    <2>1. k + i \in DOMAIN enqueued
      BY <1>1, <1>4
    <2> QED BY <1>3, <1>4, <2>1 DEF OrderInv, EnqueuedOnce, Distinct
  <1>6. n - k \in DOMAIN queue /\ k + (n - k) = n
    BY <1>1, <1>4, <1>5
  <1>7. queue[n - k] = enqueued[n]
    BY <1>4, <1>6
  <1> QED BY <1>2, <1>6, <1>7

(* Jobs start in the order in which they were enqueued, and a registry with
   nothing to do keeps no more jobs than it may (jobRegistry.std.ts:117-176). *)
THEOREM RegistryAlwaysKeepsOrder ==
  RegistrySpec => []RegistryKeepsOrder
  <1> QED
    BY OrderIsKept, RegistryInvariant, RegistryInitOrder, RegistryNextOrder, PTL
    DEF RegistrySpec
===============================================================================
