---------------------------- MODULE MCRecordingJobs ----------------------------
(* The queue alone with three jobs of one recording; with failures
   and a deletion among two recordings; beside the job registry; and across a
   reload of the page. *)
EXTENDS RecordingJobs, TLC

CONSTANTS f1, f2, j1, j2, j3

\* Jobs are interchangeable among themselves, and so are tasks.
JobSymmetry == Permutations(Jobs) \union Permutations(Tasks)

QueueScenarios ==
    {[jobs |-> 3, tasks |-> 0, recordings |-> {f1},
      deletions |-> 0, reloads |-> 0, faults |-> {"fail"}],
     [jobs |-> 2, tasks |-> 0, recordings |-> {f1, f2},
      deletions |-> 0, reloads |-> 0, faults |-> {"fail"}],
     [jobs |-> 2, tasks |-> 0, recordings |-> {f1},
      deletions |-> 1, reloads |-> 0, faults |-> {"fail"}],
     [jobs |-> 2, tasks |-> 2, recordings |-> {f1},
      deletions |-> 0, reloads |-> 0, faults |-> {}],
     [jobs |-> 1, tasks |-> 1, recordings |-> {f1},
      deletions |-> 1, reloads |-> 0, faults |-> {"rm"}]}

LiveScenarios ==
    {[jobs |-> 3, tasks |-> 0, recordings |-> {f1},
      deletions |-> 0, reloads |-> 0, faults |-> {"fail"}],
     [jobs |-> 2, tasks |-> 0, recordings |-> {f1},
      deletions |-> 0, reloads |-> 1, faults |-> {"fail", "correct"}]}

\* Symmetry is not sound for a liveness property.  The names of the jobs mean
\* nothing, so it is enough to look at the behaviours that use them in order.
NamesInOrder ==
    LET names == <<j1, j2, j3>>
    IN  \A n \in 2 .. 3 :
            job[names[n]].status = "none" /\ job[names[n - 1]].status = "none" =>
                job'[names[n]].status = "none"

OrderedLiveSpec == Init /\ [][Next /\ NamesInOrder]_vars /\ Fairness
===============================================================================
