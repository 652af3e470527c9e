------------------------------- MODULE Downloads -------------------------------
(***************************************************************************)
(* The main process with its two users of downloadHttpsFile(), the local   *)
(* language model and the update, which ends the application and with it   *)
(* whatever is being downloaded.                                           *)
(***************************************************************************)
EXTENDS LocalModel, AppUpdate

VARIABLE
    restarts      \* ends of the application that nobody planned

ASSUME DownloadsAssumption ==
    /\ UpdateAssumption
    /\ UpdateCalls \cap Installs = {}
    /\ Models \cap (Versions \cup {0}) = {}     \* they are in directories of their own
    /\ \A s \in Scenarios :
        s.restarts \in Nat /\ s.faults \subseteq ModelFaults \cup UpdateFaults

vars == <<modelVars, updateVars, fileVars, restarts, scenario>>

Init ==
    /\ FilesInit
    /\ file = [p \in Paths |-> IF p = scenario.legacy
                               THEN [NoFile EXCEPT !.content = "complete"]
                               ELSE NoFile]
    /\ ModelInit
    /\ UpdateInit
    /\ restarts = 0

\* app.quit() follows the launch of an installer; the user, or a crash, may end
\* the application at any time.
Restart ==
    /\ \/ launch.step = "launched" /\ UNCHANGED restarts
       \/ restarts < scenario.restarts /\ restarts' = restarts + 1
    /\ ModelKilled
    /\ UpdateKilled
    /\ TransfersKilled

Next ==
    /\ \/ ModelStep /\ UNCHANGED <<updateVars, restarts>>
       \/ UpdateStep /\ UNCHANGED <<modelVars, restarts>>
       \/ Restart
    /\ UNCHANGED scenario

\* The disk answers or fails, models load and prompts end, and so do the answers
\* of the network, unless a peer stalls: nothing times out.  On each side, something
\* of what is under way goes on.  Nothing is assumed of the user, nor that the
\* application ends.
NetworkAnswers == "stall" \notin scenario.faults

Fairness ==
    /\ WF_vars(ModelWorks /\ UNCHANGED <<updateVars, restarts, scenario>>)
    /\ WF_vars(NetworkAnswers /\ ModelReceives
               /\ UNCHANGED <<updateVars, restarts, scenario>>)
    /\ WF_vars(UpdateWorks /\ UNCHANGED <<modelVars, restarts, scenario>>)
    /\ WF_vars(NetworkAnswers /\ UpdateReceives
               /\ UNCHANGED <<modelVars, restarts, scenario>>)

Spec == Init /\ [][Next]_vars /\ Fairness

-------------------------------------------------------------------------------

(* One model is in memory at a time and it is the one that was asked for, across
   re-installations, changes of the settings and failures
   (localLlmInference.main.ts:73-111, localLlmExtension.main.ts:238-245,
   282-293, 399-401); a cancelled download is removed
   (localLlmExtension.main.ts:304-311). *)
DownloadsInv ==
    /\ FilesTypeOK
    /\ ModelTypeOK
    /\ UpdateTypeOK
    /\ restarts \in Nat
    /\ OneModelInMemory
    /\ PromptsFit
    /\ CancelledLeavesNothing

(* Every installation, summary and download of an installer ends, and the page
   does not show one that has ended: an operation that fails frees the chain of
   the scheduler, and a page hears of its own calls
   (localLlmInference.main.ts:64-71, localLlmExtension.main.ts:303-321,
   appUpdateService.preload.ts:101-114).  A download has no timeout: with a peer
   that stalls, an installation ends when it is cancelled, the summaries end all
   the same, and the page of the update may wait for ever
   (httpsDownload.main.ts:55-144, appUpdate.main.ts:84-115). *)
DownloadsEnd ==
    /\ \A i \in Installs :
          InstallRuns(i) /\ (NetworkAnswers \/ install[i].aborted) ~> ~InstallRuns(i)
    /\ \A g \in Generations :
          generation[g].step # "none" ~> generation[g].step \in GenerationEnds
    /\ NetworkAnswers /\ ui.kind \in {"checking", "downloading"} ~>
          ui.kind \notin {"checking", "downloading"}
===============================================================================
