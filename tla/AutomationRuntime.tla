--------------------------- MODULE AutomationRuntime ---------------------------
(***************************************************************************)
(* What MCP clients reach in the main process: the server, which comes and *)
(* goes with the settings, and the job registry, which is made once with   *)
(* the runtime and outlives every server                                   *)
(* (ts/minutes/automation/automationRuntime.main.ts:168-246).              *)
(***************************************************************************)
EXTENDS AutomationServer, JobRegistry

runtimeVars == <<serverVars, registryVars, scenario>>

RuntimeInit == ServerInit /\ RegistryInit

\* transcribe_recording and summarize_recording look for the recording, hand
\* in a job and answer with its id, whether or not the client is still there.
\* Jobs are numbered in this order.
JobRequested ==
    \E j \in Jobs :
        /\ j <= scenario.jobs
        /\ \A i \in Jobs : status[i] = "none" <=> i >= j
        /\ Enqueue(j)

ToolStep ==
    /\ \E r \in Requests : ToolEnds(r)
    /\ JobRequested \/ UNCHANGED registryVars

\* Nobody in the main process waits for a job; the registry allows it.
JobStep ==
    \E j \in Jobs :
        \/ scenario.jobs > 0 /\ WaitFor(j)
        \/ Finish(j, "completed") \/ Finish(j, "failed")

RuntimeNext ==
    \/ ServerStep /\ UNCHANGED registryVars
    \/ ToolStep /\ UNCHANGED scenario
    \/ JobStep /\ UNCHANGED <<serverVars, scenario>>

\* The file system and the sockets answer, a client does not send its request
\* for ever, stop() ends the streams, and tools and tasks end.
RuntimeFairness ==
    /\ WF_runtimeVars(/\ \E c \in Calls \cup {Quit} : TaskBegins(c) \/ TaskProceeds(c)
                      /\ UNCHANGED <<registryVars, scenario>>)
    /\ WF_runtimeVars(/\ \E c \in Calls : SettingsRead(c) \/ SettingsWritten(c)
                      /\ UNCHANGED <<registryVars, scenario>>)
    /\ \A r \in Requests :
          WF_runtimeVars(\/ /\ BodyArrives(r) \/ (ConnectionEnds(r) /\ ~Lasts(r))
                            /\ UNCHANGED <<registryVars, scenario>>
                         \/ /\ ToolEnds(r)
                            /\ JobRequested \/ UNCHANGED registryVars
                            /\ UNCHANGED scenario)

RuntimeSpec ==
    RuntimeInit /\ [][RuntimeNext]_runtimeVars /\ RuntimeFairness /\ TasksEnd

-------------------------------------------------------------------------------

(* Whatever is under way comes to an end: every settings handler is answered
   and every job of an MCP client ends, although servers are stopped and the
   runtime may be closed meanwhile (automationRuntime.main.ts:293-353,
   jobRegistry.std.ts:117-165). *)
WorkEnds == CallsAreAnswered /\ JobsEnd
===============================================================================
