------------------------------ MODULE LocalModel -------------------------------
(***************************************************************************)
(* The local language model in the main process: its installation and its  *)
(* settings file (localLlmExtension.main.ts) and LocalLlmModelScheduler,   *)
(* which runs one prompt at a time on the one model it keeps in memory     *)
(* (localLlmInference.main.ts).                                            *)
(*                                                                         *)
(* The context size stands for all that a model is loaded with, the        *)
(* reasoning switch included.                                              *)
(***************************************************************************)
EXTENDS FileDownloads, Sequences

CONSTANTS
    Models,           \* model files
    MaxInstalls,      \* bound: installations, numbered in the order of their calls
    MaxGenerations,   \* bound: summaries asked of the local model, likewise
    Contexts          \* context sizes

Installs == 1..MaxInstalls
Generations == 1..MaxGenerations

\* What may go wrong here, among a scenario's faults.
ModelFaults ==
    {"network",    \* a download fails
     "stall",      \* a peer neither answers nor breaks off, and nothing times out
     "runtime",    \* node-llama-cpp is missing
     "write",      \* the settings cannot be written
     "model",      \* a model cannot be loaded, or a prompt fails
     "context",    \* a model is loaded, but what it needs for a prompt is not there
     "dispose",    \* a model cannot be disposed of
     "unlink",     \* a file cannot be removed
     "reopen"}     \* the settings panel is closed and opened again while it waits

ASSUME ModelAssumption ==
    /\ MaxInstalls \in Nat /\ MaxGenerations \in Nat
    /\ Installs \subseteq Transfers
    /\ NoTransfer \notin Transfers
    /\ Models \subseteq Paths
    /\ Models # {} /\ Contexts # {}
    /\ \A s \in Scenarios :
        /\ s.installs \in 0..MaxInstalls
        /\ s.generations \in 0..MaxGenerations
        /\ s.models \subseteq Models
        /\ s.saves \in Nat
        /\ s.cancels \in BOOLEAN     \* whether the user cancels installations

VARIABLES
    settings,     \* local-llm-extension.json
    install,      \* calls of installLocalLlmExtension()
    abort,        \* the call activeDownloadAbort belongs to
    generation,   \* calls of generateLocalLlmSummary()
    save,         \* the call of saveLocalLlmContextSize() under way
    saves,        \* such calls made so far
    waiting,      \* operations chained in the scheduler
    active,       \* the one that runs
    phase,        \* what it waits for
    loaded,       \* #loadedModel
    inMemory      \* models that are not disposed of yet

schedulerVars == <<waiting, active, phase, loaded, inMemory>>
callVars == <<settings, install, abort, generation, save, saves>>
modelVars == <<callVars, schedulerVars>>

\* Operations of the scheduler, by whom they are for.
Operations ==
    {<<"generate", g>> : g \in Generations} \cup
    {<<"install", i>> : i \in Installs} \cup {<<"save", 0>>}
NoOperation == <<"none", 0>>

SomeModel == CHOOSE m \in Models : TRUE
DefaultContext == CHOOSE c \in Contexts : TRUE
NoSettings == [activated |-> FALSE, model |-> SomeModel, context |-> DefaultContext]
NoModel == [model |-> SomeModel, context |-> DefaultContext, origin |-> NoTransfer]
NoInstall == [step |-> "none", model |-> SomeModel, force |-> FALSE,
              aborted |-> FALSE, seen |-> NoSettings]
NoGeneration == [step |-> "none", model |-> SomeModel, context |-> DefaultContext,
                 since |-> NoTransfer]
NoSave == [step |-> "none", seen |-> NoSettings, context |-> DefaultContext]

InstallEnds == {"complete", "cancelled", "failed", "killed"}
InstallSteps ==
    {"none", "runtime", "dispose", "unlink", "status", "transfer", "verify",
     "settings", "store", "final", "remove"} \cup InstallEnds
GenerationEnds == {"generated", "failed", "killed"}
GenerationSteps == {"none", "state", "path", "scheduled"} \cup GenerationEnds

InstallRuns(i) == install[i].step \notin {"none"} \cup InstallEnds

ModelInit ==
    /\ settings = NoSettings
    /\ install = [i \in Installs |-> NoInstall]
    /\ abort = NoTransfer
    /\ generation = [g \in Generations |-> NoGeneration]
    /\ save = NoSave
    /\ saves = 0
    /\ waiting = <<>>
    /\ active = NoOperation
    /\ phase = "none"
    /\ loaded = NoModel
    /\ inMemory = 0

\* The settings file is not replaced but rewritten: a reader, or a restart, may
\* find it cut off, and then takes it for missing.
StoredRead ==
    {settings} \cup
        IF save.step = "write" \/ \E i \in Installs : install[i].step = "store"
        THEN {NoSettings} ELSE {}

\* isModelReady()
IsReady(p) == file[p].content \in {"long", "complete"}

-------------------------------------------------------------------------------
(* LocalLlmModelScheduler. *)

Enqueue(operation) ==
    /\ waiting' = Append(waiting, operation)
    /\ UNCHANGED <<active, phase, loaded, inMemory>>

Fits(request) ==
    /\ loaded # NoModel
    /\ loaded.model = request.model
    /\ loaded.context = request.context

\* What the operation does before its first wait.
Begins(operation) ==
    IF operation[1] = "generate" /\ Fits(generation[operation[2]])
    THEN phase' = "prompt" /\ UNCHANGED loaded
    ELSE /\ phase' = IF loaded # NoModel THEN "unload"
                     ELSE IF operation[1] = "generate" THEN "load" ELSE "end"
         /\ loaded' = NoModel

\* The chain goes on with the next operation, whether or not the one before it
\* has failed.
OperationBegins ==
    /\ active = NoOperation
    /\ waiting # <<>>
    /\ active' = Head(waiting)
    /\ waiting' = Tail(waiting)
    /\ Begins(Head(waiting))
    /\ UNCHANGED <<inMemory, callVars>>

\* Seeded fault: the next model is loaded while the last one is disposed of.
UnloadedLater ==
    /\ phase = "unload"
    /\ inMemory' = inMemory
    /\ phase' = IF active[1] = "generate" THEN "load" ELSE "end"
    /\ UNCHANGED <<waiting, active, loaded, callVars>>

\* An error of dispose() is logged; the model may stay in memory then.
Unloaded ==
    /\ phase = "unload"
    /\ \/ inMemory' = inMemory - 1
       \/ "dispose" \in scenario.faults /\ UNCHANGED inMemory
    /\ phase' = IF active[1] = "generate" THEN "load" ELSE "end"
    /\ UNCHANGED <<waiting, active, loaded, callVars>>

ModelLoaded ==
    /\ phase = "load"
    /\ LET g == generation[active[2]]
       IN  /\ IsReady(g.model)
           /\ loaded' = [model |-> g.model, context |-> g.context,
                         origin |-> file[g.model].opener]
    /\ inMemory' = inMemory + 1
    /\ phase' = "prompt"
    /\ UNCHANGED <<waiting, active, callVars>>

OperationEnds == active' = NoOperation /\ phase' = "none"

\* Seeded fault: an error keeps the chain from going on.
GeneratesAlone(outcome) ==
    /\ IF outcome = "failed" THEN phase' = "none" /\ UNCHANGED active ELSE OperationEnds
    /\ generation' = [generation EXCEPT ![active[2]].step = outcome]
    /\ UNCHANGED <<waiting, loaded, settings, install, abort, save, saves>>

\* A prompt, or the loading of a model, is over for the generation it is for.
Generates(outcome) ==
    /\ OperationEnds
    /\ generation' = [generation EXCEPT ![active[2]].step = outcome]
    /\ UNCHANGED <<waiting, loaded, settings, install, abort, save, saves>>

\* Nothing disposes of a model that is loaded when its context cannot be made, and
\* nothing refers to it any more.
LoadFails ==
    /\ phase = "load"
    /\ LET m == generation[active[2]].model
       IN  \/ /\ "model" \in scenario.faults \/ file[m].content # "complete"
              /\ UNCHANGED inMemory
           \/ /\ "context" \in scenario.faults /\ IsReady(m)
              /\ inMemory' = inMemory + 1
    /\ Generates("failed")

PromptEnds ==
    /\ phase = "prompt"
    /\ UNCHANGED inMemory
    /\ \/ Generates("generated")
       \/ "model" \in scenario.faults /\ Generates("failed")

-------------------------------------------------------------------------------
(* installLocalLlmExtension(). *)

At(i, step) == install[i].step = step

Goto(i, step) == install' = [install EXCEPT ![i].step = step]

\* The finally block forgets whichever call can be aborted.
Over(i, outcome) ==
    /\ install' = [install EXCEPT ![i].step = outcome, ![i].seen = NoSettings]
    /\ abort' = NoTransfer

\* An error, or the wish to cancel, at a place where the model is known.
Leave(i) ==
    IF install[i].aborted
    THEN Goto(i, "remove") /\ UNCHANGED abort
    ELSE Over(i, "failed")

\* The panel offers one thing at a time, as long as it is open.
PanelIsFree ==
    \/ "reopen" \in scenario.faults
    \/ save.step = "none" /\ \A i \in Installs : ~InstallRuns(i)

IsActive == settings.activated /\ IsReady(settings.model)

InstallCalled(i, m, force) ==
    /\ i <= scenario.installs
    /\ \A j \in Installs : At(j, "none") <=> j >= i
    /\ PanelIsFree
    /\ m \in scenario.models
    /\ IF force THEN IsActive /\ m = settings.model
                ELSE ~(IsActive /\ m = settings.model)
    /\ install' = [install EXCEPT ![i].step = "runtime", ![i].model = m,
                                  ![i].force = force]
    /\ abort' = i
    /\ UNCHANGED <<settings, generation, save, saves, schedulerVars, fileVars>>

\* Before the path of the model is known there is nothing to remove.
RuntimeChecked(i) ==
    /\ At(i, "runtime")
    /\ \/ /\ ~install[i].aborted
          /\ IF install[i].force
             THEN Goto(i, "dispose") /\ Enqueue(<<"install", i>>)
             ELSE Goto(i, "status") /\ UNCHANGED schedulerVars
          /\ UNCHANGED abort
       \/ /\ install[i].aborted
          /\ Over(i, "cancelled")
          /\ UNCHANGED schedulerVars
       \/ /\ "runtime" \in scenario.faults
          /\ Over(i, IF install[i].aborted THEN "cancelled" ELSE "failed")
          /\ UNCHANGED schedulerVars
    /\ UNCHANGED <<settings, generation, save, saves, fileVars>>

\* The model that is downloaded again.
OldModelRemoved(i) ==
    /\ At(i, "unlink")
    /\ Goto(i, "status")
    /\ Removed(install[i].model)
    /\ UNCHANGED <<settings, abort, generation, save, saves, schedulerVars, transfer>>

StatusRead(i) ==
    /\ At(i, "status")
    /\ \/ /\ install[i].aborted
          /\ Goto(i, "remove")
          /\ UNCHANGED transfer
       \/ /\ ~install[i].aborted /\ IsReady(install[i].model)
          /\ Goto(i, "verify")
          /\ UNCHANGED transfer
       \/ /\ ~install[i].aborted /\ ~IsReady(install[i].model)
          /\ Goto(i, "transfer")
          /\ TransferStarts(i, install[i].model)
    /\ UNCHANGED <<settings, abort, generation, save, saves, schedulerVars, file>>

ModelDownloaded(i) ==
    /\ At(i, "transfer")
    /\ TransferEnds(i)
    /\ Goto(i, "verify")
    /\ UNCHANGED <<settings, abort, generation, save, saves, schedulerVars>>

ModelNotDownloaded(i) ==
    /\ At(i, "transfer")
    /\ "network" \in scenario.faults
    /\ TransferStops(i)
    /\ Leave(i)
    /\ UNCHANGED <<settings, generation, save, saves, schedulerVars>>

\* cancelLocalLlmExtensionDownload(): a download stops at once, anything else
\* looks at the signal later, or not at all.
CancelCalled ==
    /\ scenario.cancels
    /\ abort # NoTransfer
    /\ ~install[abort].aborted
    /\ IF At(abort, "transfer")
       THEN /\ TransferStops(abort)
            /\ install' = [install EXCEPT ![abort].aborted = TRUE,
                                          ![abort].step = "remove"]
       ELSE /\ install' = [install EXCEPT ![abort].aborted = TRUE]
            /\ UNCHANGED fileVars
    /\ UNCHANGED <<settings, abort, generation, save, saves, schedulerVars>>

ModelVerified(i) ==
    /\ At(i, "verify")
    /\ IF IsReady(install[i].model)
       THEN Goto(i, "settings") /\ UNCHANGED abort
       ELSE Leave(i)
    /\ UNCHANGED <<settings, generation, save, saves, schedulerVars, fileVars>>

SettingsRead(i) ==
    /\ At(i, "settings")
    /\ \E stored \in StoredRead :
          install' = [install EXCEPT
                        ![i].step = "store",
                        ![i].seen = [stored EXCEPT !.activated = TRUE,
                                                   !.model = install[i].model]]
    /\ UNCHANGED <<settings, abort, generation, save, saves, schedulerVars, fileVars>>

\* Seeded fault: the model in memory is not disposed of when a new one is there.
SettingsStoredOnly(i) ==
    /\ At(i, "store")
    /\ settings' = install[i].seen
    /\ Over(i, "complete")
    /\ UNCHANGED <<generation, save, saves, schedulerVars, fileVars>>

SettingsStored(i) ==
    /\ At(i, "store")
    /\ \/ /\ settings' = install[i].seen
          /\ Goto(i, "final")
          /\ Enqueue(<<"install", i>>)
          /\ UNCHANGED abort
       \/ /\ "write" \in scenario.faults
          /\ settings' \in {settings, NoSettings}
          /\ Leave(i)
          /\ UNCHANGED schedulerVars
    /\ UNCHANGED <<generation, save, saves, fileVars>>

\* Seeded fault: the file of a cancelled download is left behind.
CancelledModelKept(i) ==
    /\ At(i, "remove")
    /\ Over(i, "cancelled")
    /\ UNCHANGED <<settings, generation, save, saves, schedulerVars, fileVars>>

CancelledModelRemoved(i) ==
    /\ At(i, "remove")
    /\ Over(i, "cancelled")
    /\ Removed(install[i].model)
    /\ UNCHANGED <<settings, generation, save, saves, schedulerVars, transfer>>

InstallProceeds(i) ==
    \/ RuntimeChecked(i) \/ OldModelRemoved(i)
    \/ StatusRead(i) \/ ModelDownloaded(i) \/ ModelNotDownloaded(i)
    \/ ModelVerified(i) \/ SettingsRead(i) \/ SettingsStored(i)
    \/ CancelledModelRemoved(i)

-------------------------------------------------------------------------------
(* saveLocalLlmContextSize() and saveLocalLlmReasoningEnabled(). *)

SaveCalled(context) ==
    /\ saves < scenario.saves
    /\ save.step = "none"
    /\ PanelIsFree
    /\ save' = [NoSave EXCEPT !.step = "read", !.context = context]
    /\ saves' = saves + 1
    /\ UNCHANGED <<settings, install, abort, generation, schedulerVars, fileVars>>

SaveReads ==
    /\ save.step = "read"
    /\ \E stored \in StoredRead : save' = [save EXCEPT !.step = "write", !.seen = stored]
    /\ UNCHANGED <<settings, install, abort, generation, saves, schedulerVars, fileVars>>

SaveWrites ==
    /\ save.step = "write"
    /\ \/ /\ settings' = [save.seen EXCEPT !.context = save.context]
          /\ IF save.context # save.seen.context
             THEN save' = [save EXCEPT !.step = "dispose"] /\ Enqueue(<<"save", 0>>)
             ELSE save' = NoSave /\ UNCHANGED schedulerVars
       \/ /\ "write" \in scenario.faults
          /\ settings' \in {settings, NoSettings}
          /\ save' = NoSave
          /\ UNCHANGED schedulerVars
    /\ UNCHANGED <<install, abort, generation, saves, fileVars>>

SaveProceeds == SaveReads \/ SaveWrites

-------------------------------------------------------------------------------
(* generateLocalLlmSummary(). *)

GenerationFails(g) == generation' = [generation EXCEPT ![g].step = "failed"]

GenerationCalled(g, m) ==
    /\ g <= scenario.generations
    /\ \A h \in Generations : generation[h].step = "none" <=> h >= g
    /\ m \in scenario.models
    /\ generation' = [generation EXCEPT ![g].step = "state", ![g].model = m]
    /\ UNCHANGED <<settings, install, abort, save, saves, schedulerVars>>

\* getLocalLlmExtensionPublic() is asked for the model and its settings.
StateRead(g) ==
    /\ generation[g].step = "state"
    /\ \E stored \in StoredRead :
          IF stored.activated /\ stored.model = generation[g].model /\ IsReady(stored.model)
          THEN generation' = [generation EXCEPT ![g].step = "path",
                                                ![g].context = stored.context]
          ELSE GenerationFails(g)
    /\ UNCHANGED <<settings, install, abort, save, saves, schedulerVars>>

\* The call i has completed, and its download is the model m on disk.
Provides(i, m) == At(i, "complete") /\ file[m].opener = i

PathResolved(g) ==
    /\ generation[g].step = "path"
    /\ LET m == generation[g].model
       IN  IF IsReady(m)
           THEN /\ Enqueue(<<"generate", g>>)
                /\ generation' =
                     [generation EXCEPT
                        ![g].step = "scheduled",
                        ![g].since = IF \E i \in Installs : Provides(i, m)
                                     THEN file[m].opener ELSE NoTransfer]
           ELSE GenerationFails(g) /\ UNCHANGED schedulerVars
    /\ UNCHANGED <<settings, install, abort, save, saves>>

-------------------------------------------------------------------------------
(* The end of an operation that disposes of the model. *)

\* Whoever awaits it goes on.
DisposedFor(operation) ==
    CASE operation[1] = "save" ->
            /\ save' = NoSave
            /\ UNCHANGED <<install, abort>>
      [] operation[1] = "install" /\ At(operation[2], "dispose") ->
            /\ Goto(operation[2], "unlink")
            /\ UNCHANGED <<save, abort>>
      [] operation[1] = "install" /\ At(operation[2], "final") ->
            /\ Over(operation[2], "complete")
            /\ UNCHANGED save

Disposed ==
    /\ phase = "end"
    /\ OperationEnds
    /\ DisposedFor(active)
    /\ UNCHANGED <<waiting, loaded, inMemory, settings, generation, saves>>

SchedulerProceeds ==
    \/ OperationBegins \/ Unloaded \/ ModelLoaded \/ LoadFails
    \/ PromptEnds \/ Disposed

-------------------------------------------------------------------------------

\* The application ends.
ModelKilled ==
    /\ settings' \in StoredRead
    /\ install' = [i \in Installs |-> IF InstallRuns(i)
                                      THEN [NoInstall EXCEPT !.step = "killed"]
                                      ELSE install[i]]
    /\ abort' = NoTransfer
    /\ generation' = [g \in Generations |->
                        IF generation[g].step \in {"none"} \cup GenerationEnds
                        THEN generation[g]
                        ELSE [NoGeneration EXCEPT !.step = "killed"]]
    /\ save' = NoSave
    /\ UNCHANGED saves
    /\ waiting' = <<>>
    /\ OperationEnds
    /\ loaded' = NoModel
    /\ inMemory' = 0

\* What depends on the network.
ModelReceives ==
    \E i \in Installs :
        \/ ModelDownloaded(i) \/ ModelNotDownloaded(i)
        \/ TransferProceeds(i) /\ UNCHANGED modelVars

\* What does not.
ModelWorks ==
    \/ SchedulerProceeds /\ UNCHANGED fileVars
    \/ SaveProceeds
    \/ \E i \in Installs : ~At(i, "transfer") /\ InstallProceeds(i)
    \/ \E g \in Generations : (StateRead(g) \/ PathResolved(g)) /\ UNCHANGED fileVars

\* What goes on by itself.
ModelProceeds ==
    \/ SchedulerProceeds /\ UNCHANGED fileVars
    \/ SaveProceeds
    \/ \E i \in Installs :
          \/ InstallProceeds(i)
          \/ TransferProceeds(i) /\ UNCHANGED modelVars
    \/ \E g \in Generations : (StateRead(g) \/ PathResolved(g)) /\ UNCHANGED fileVars

ModelStep ==
    \/ \E i \in Installs, m \in Models, force \in BOOLEAN : InstallCalled(i, m, force)
    \/ CancelCalled
    \/ \E c \in Contexts : SaveCalled(c)
    \/ \E g \in Generations, m \in Models : GenerationCalled(g, m) /\ UNCHANGED fileVars
    \/ ModelProceeds

-------------------------------------------------------------------------------

ModelTypeOK ==
    LET Settings == [activated : BOOLEAN, model : Models, context : Contexts]
    IN  /\ settings \in Settings
        /\ install \in [Installs -> [step : InstallSteps, model : Models,
                                     force : BOOLEAN, aborted : BOOLEAN,
                                     seen : Settings]]
        /\ abort \in Installs \cup {NoTransfer}
        /\ generation \in [Generations -> [step : GenerationSteps, model : Models,
                                           context : Contexts,
                                           since : Installs \cup {NoTransfer}]]
        /\ save \in [step : {"none", "read", "write", "dispose"}, seen : Settings,
                     context : Contexts]
        /\ saves \in Nat
        /\ waiting \in Seq(Operations)
        /\ active \in Operations \cup {NoOperation}
        /\ phase \in {"none", "unload", "load", "prompt", "end"}
        /\ loaded \in [model : Models, context : Contexts,
                       origin : Installs \cup {NoTransfer}]
        /\ inMemory \in Nat

\* A model takes gigabytes: the next is loaded when the last is gone.  One that
\* cannot be disposed of stays, and so does one whose context could not be made.
OneModelInMemory ==
    /\ scenario.faults \cap {"dispose", "context"} = {} => inMemory <= 1
    /\ loaded # NoModel => inMemory >= 1

\* A prompt runs on what its request asked for, and not on a file that was
\* replaced by an installation that was over when the request was handed in.
\* Overlapping installations write one file; who is the last is not known.
PromptsFit ==
    phase = "prompt" =>
        LET g == generation[active[2]]
        IN  /\ Fits(g)
           /\ "reopen" \notin scenario.faults => loaded.origin >= g.since

\* A cancelled download leaves nothing that could pass for a model, when files can
\* be removed.
CancelledLeavesNothing ==
    \A i \in Installs :
        /\ scenario.faults \cap {"reopen", "unlink"} = {}
        /\ At(i, "cancelled")
        /\ \A j \in Installs :
              /\ j < i => install[j].step \in {"complete", "cancelled"}
              /\ j > i => At(j, "none")
        => file[install[i].model].content \in {"none", "complete"}
===============================================================================
