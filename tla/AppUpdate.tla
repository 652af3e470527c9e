------------------------------- MODULE AppUpdate --------------------------------
(***************************************************************************)
(* The update of the application: the check for a release, the download of *)
(* its installer and its launch in the main process (appUpdate.main.ts),   *)
(* and the page, which runs a check some time after it is loaded and       *)
(* offers a download or an installation (appUpdateService.preload.ts,      *)
(* MinutesVersionFooter.dom.tsx).                                          *)
(*                                                                         *)
(* Versions are numbered.  An answer of the main process and what the page *)
(* does with it is one step.                                               *)
(***************************************************************************)
EXTENDS FileDownloads

CONSTANTS
    Versions,         \* versions, also the path of the installer of each
    UpdateCalls       \* calls of downloadAppUpdate(), also of their transfers

UpdateFaults ==
    {"network",       \* the check or a download fails
     "stall",         \* a peer neither answers nor breaks off, and nothing times out
     "write",         \* the metadata cannot be written
     "mkdir",         \* the directory of the installers cannot be made
     "unlink",        \* a file cannot be removed
     "launch",        \* the installer cannot be opened
     "withdrawn",     \* a release is withdrawn, an older one is the latest again
     "lost",          \* something else deletes an installer
     "reload"}        \* the page is loaded again

UpdateAssumption ==
    /\ Versions \subseteq Nat \ {0}
    /\ Versions \subseteq Paths
    /\ UpdateCalls \subseteq Transfers
    /\ \A s \in Scenarios :
        /\ s.downloads \subseteq UpdateCalls
        /\ s.platform \in {"win32", "darwin"}
        /\ s.legacy \in Versions \cup {0}   \* an installer an older program has
                                          \* downloaded unasked, or none
        /\ s.reloads \in Nat

VARIABLES
    installed,        \* the version that runs; at first, one older than Versions
    latest,           \* the latest release, or NoVersion
    pending,          \* pending-app-update.json
    activeDownload,   \* activeDownloadVersion
    download,         \* the calls of downloadAppUpdate()
    startup,          \* resolveStartupAppUpdateState(), asked for by the page
    launch,           \* installPendingAppUpdate()
    ui,               \* the state the page shows
    reloads           \* reloads of the page so far

mainVars == <<pending, activeDownload, download, startup, launch>>
worldVars == <<installed, latest>>
updateVars == <<worldVars, mainVars, ui, reloads>>

NoVersion == 0
VersionOrNone == Versions \cup {NoVersion}

NoPending == [version |-> NoVersion, userInitiated |-> FALSE]
NoDownload == [step |-> "none", version |-> NoVersion, heard |-> FALSE]
NoStartup == [step |-> "none", latest |-> NoVersion, failed |-> FALSE,
              pending |-> NoPending]
NoLaunch == [step |-> "none", version |-> NoVersion]
Idle == [kind |-> "idle", version |-> NoVersion]

DownloadEnds == {"ready", "failed", "killed"}

UpdateInit ==
    /\ installed = NoVersion
    /\ latest \in VersionOrNone
    /\ pending = [version |-> scenario.legacy, userInitiated |-> FALSE]
    /\ activeDownload = NoVersion
    /\ download = [d \in UpdateCalls |-> NoDownload]
    /\ startup = NoStartup
    /\ launch = NoLaunch
    /\ ui = Idle
    /\ reloads = 0

\* getPendingAppUpdate()
Pending ==
    IF pending # NoPending /\ file[pending.version].content # "none"
    THEN pending ELSE NoPending

\* The metadata is not replaced but rewritten: a reader may find it cut off.  A
\* short installer may be empty, and then counts as missing.
PendingsRead ==
    {Pending} \cup IF \/ \E d \in UpdateCalls : download[d].step \in {"write", "update"}
                      \/ Pending # NoPending /\ file[pending.version].content = "short"
                   THEN {NoPending} ELSE {}

\* assertInstallerPayload(): the disk image must not be empty, the installer for
\* Windows must have a megabyte.
PayloadVerdicts(v) ==
    IF file[v].content \in {"long", "complete"} THEN {TRUE}
    ELSE IF file[v].content = "short" /\ scenario.platform = "darwin" THEN {TRUE, FALSE}
    ELSE {FALSE}

-------------------------------------------------------------------------------
(* The page and its check after it is loaded. *)

StartupCalled ==
    /\ ui.kind = "idle"
    /\ startup.step = "none"
    /\ ui' = [Idle EXCEPT !.kind = "checking"]
    /\ startup' = [NoStartup EXCEPT !.step = "check"]
    /\ UNCHANGED <<worldVars, pending, activeDownload, download, launch, reloads, fileVars>>

\* checkForAppUpdate(); its errors are part of the answer.
ReleaseChecked ==
    /\ startup.step = "check"
    /\ \/ startup' = [startup EXCEPT !.step = "pending", !.latest = latest,
                                     !.failed = latest = NoVersion]
       \/ /\ "network" \in scenario.faults
          /\ startup' = [startup EXCEPT !.step = "pending", !.failed = TRUE]
    /\ UNCHANGED <<worldVars, pending, activeDownload, download, launch, ui,
                   reloads, fileVars>>

\* Seeded fault: an installer is kept whatever the latest release is.
IsCurrent(p) == TRUE

\* Without a network the latest release is not known.
IsWanted(p) ==
    /\ startup.failed \/ p.version = startup.latest
    /\ p.version > installed

PendingRead ==
    /\ startup.step = "pending"
    /\ \E p \in PendingsRead :
          startup' = [startup EXCEPT
                        !.step = IF p = NoPending \/ IsWanted(p) THEN "answer"
                                 ELSE "unlink",
                        !.pending = p]
    /\ UNCHANGED <<worldVars, pending, activeDownload, download, launch, ui,
                   reloads, fileVars>>

\* discardPendingInstaller(): the installer, then its metadata.
StartupDiscards ==
    /\ \/ /\ startup.step = "unlink"
          /\ startup' = [startup EXCEPT !.step = "clear"]
          /\ Removed(startup.pending.version)
          /\ UNCHANGED pending
       \/ /\ startup.step = "clear"
          /\ startup' = [startup EXCEPT !.step = "answer", !.pending = NoPending]
          /\ pending' = NoPending
          /\ UNCHANGED file
    /\ UNCHANGED <<worldVars, activeDownload, download, launch, ui, reloads, transfer>>

\* What runStartupAppUpdateFlow() shows.
Shown(s) ==
    IF s.failed THEN [kind |-> "error", version |-> NoVersion]
    ELSE IF s.pending.userInitiated /\ s.pending.version = s.latest
         THEN [kind |-> "ready", version |-> s.latest]
    ELSE IF s.latest > installed
         THEN [kind |-> "available", version |-> s.latest]
    ELSE [kind |-> "current", version |-> NoVersion]

StartupAnswered ==
    /\ startup.step = "answer"
    /\ startup' = NoStartup
    /\ ui' = IF ui.kind = "checking" THEN Shown(startup) ELSE ui
    /\ UNCHANGED <<worldVars, pending, activeDownload, download, launch, reloads, fileVars>>

StartupProceeds ==
    ReleaseChecked \/ PendingRead \/ StartupDiscards \/ StartupAnswered

-------------------------------------------------------------------------------
(* downloadAppUpdate(), for the page of runBackgroundDownload(). *)

DownloadAt(d, step) == download[d].step = step

DownloadTo(d, step) == download' = [download EXCEPT ![d].step = step]

\* The finally block.
Cleared(d) ==
    activeDownload' = IF activeDownload = download[d].version THEN NoVersion
                      ELSE activeDownload

\* The page hears of the end of a call it has made itself.
Answers(d, outcome) ==
    /\ DownloadTo(d, outcome)
    /\ ui' = IF ~download[d].heard THEN ui
             ELSE [kind |-> IF outcome = "ready" THEN "ready" ELSE "available",
                   version |-> download[d].version]

\* Seeded fault: the metadata is written before the installer is there.
RecordedEarly(d) ==
    /\ d \in scenario.downloads
    /\ DownloadAt(d, "none")
    /\ ui.kind = "available"
    /\ ui' = [ui EXCEPT !.kind = "downloading"]
    /\ pending' = [version |-> ui.version, userInitiated |-> TRUE]
    /\ download' = [download EXCEPT
                      ![d] = [step |-> "unlink", version |-> ui.version, heard |-> TRUE]]
    /\ activeDownload' = ui.version
    /\ UNCHANGED <<worldVars, startup, launch, reloads, fileVars>>

DownloadCalled(d) ==
    /\ d \in scenario.downloads
    /\ DownloadAt(d, "none")
    /\ ui.kind = "available"
    /\ ui' = [ui EXCEPT !.kind = "downloading"]
    /\ \E step \in IF activeDownload = ui.version THEN {"existing"} ELSE {"unlink"} :
          /\ download' = [download EXCEPT
                            ![d] = [step |-> step, version |-> ui.version, heard |-> TRUE]]
          /\ activeDownload' = IF step = "unlink" THEN ui.version ELSE activeDownload
    /\ UNCHANGED <<worldVars, pending, startup, launch, reloads, fileVars>>

\* Another call downloads this version, or has just recorded it.
ExistingRead(d) ==
    /\ DownloadAt(d, "existing")
    /\ \E p \in PendingsRead :
          IF p.version # download[d].version
          THEN /\ DownloadTo(d, "unlink")
               /\ activeDownload' = download[d].version
               /\ UNCHANGED ui
          ELSE /\ IF p.userInitiated
                  THEN Answers(d, "ready")
                  ELSE DownloadTo(d, "update") /\ UNCHANGED ui
               /\ UNCHANGED activeDownload
    /\ UNCHANGED <<worldVars, pending, startup, launch, reloads, fileVars>>

\* This is before the try block: the version goes on to count as downloaded.
DirectoryFails(d) ==
    /\ DownloadAt(d, "unlink")
    /\ "mkdir" \in scenario.faults
    /\ Answers(d, "failed")
    /\ UNCHANGED <<worldVars, pending, activeDownload, startup, launch, reloads, fileVars>>

\* What is there is removed before the metadata that may be about it.
OldInstallerRemoved(d) ==
    /\ DownloadAt(d, "unlink")
    /\ DownloadTo(d, "transfer")
    /\ TransferStarts(d, download[d].version)
    /\ Removed(download[d].version)
    /\ UNCHANGED <<worldVars, pending, activeDownload, startup, launch, ui, reloads>>

InstallerDownloaded(d) ==
    /\ DownloadAt(d, "transfer")
    /\ TransferEnds(d)
    /\ DownloadTo(d, "verify")
    /\ UNCHANGED <<worldVars, pending, activeDownload, startup, launch, ui, reloads>>

DownloadFails(d) ==
    /\ \/ DownloadAt(d, "transfer") /\ "network" \in scenario.faults /\ TransferStops(d)
       \/ /\ DownloadAt(d, "verify")
          /\ file[download[d].version].content \in {"none", "short"}
          /\ UNCHANGED fileVars
    /\ Answers(d, "failed")
    /\ Cleared(d)
    /\ UNCHANGED <<worldVars, pending, startup, launch, reloads>>

InstallerVerified(d) ==
    /\ DownloadAt(d, "verify")
    /\ file[download[d].version].content # "none"
    /\ \E verdict \in PayloadVerdicts(download[d].version) :
          DownloadTo(d, IF verdict THEN "write" ELSE "discard")
    /\ UNCHANGED <<worldVars, pending, activeDownload, startup, launch, ui, reloads, fileVars>>

DownloadDiscards(d) ==
    \/ /\ DownloadAt(d, "discard")
       /\ DownloadTo(d, "clear")
       /\ Removed(download[d].version)
       /\ UNCHANGED <<worldVars, pending, activeDownload, startup, launch, ui,
                      reloads, transfer>>
    \/ /\ DownloadAt(d, "clear")
       /\ pending' = NoPending
       /\ Answers(d, "failed")
       /\ Cleared(d)
       /\ UNCHANGED <<worldVars, startup, launch, reloads, fileVars>>

\* "update" does not come out of the try block.
InstallerRecorded(d) ==
    /\ DownloadAt(d, "write") \/ DownloadAt(d, "update")
    /\ \/ /\ pending' = [version |-> download[d].version, userInitiated |-> TRUE]
          /\ Answers(d, "ready")
       \/ /\ "write" \in scenario.faults
          /\ pending' \in {pending, NoPending}
          /\ Answers(d, "failed")
    /\ IF DownloadAt(d, "write") THEN Cleared(d) ELSE UNCHANGED activeDownload
    /\ UNCHANGED <<worldVars, startup, launch, reloads, fileVars>>

DownloadProceeds(d) ==
    \/ ExistingRead(d) \/ DirectoryFails(d) \/ OldInstallerRemoved(d)
    \/ InstallerDownloaded(d) \/ DownloadFails(d) \/ InstallerVerified(d) \/ DownloadDiscards(d)
    \/ InstallerRecorded(d)

-------------------------------------------------------------------------------
(* installPendingAppUpdate(). *)

LaunchCalled ==
    /\ ui.kind = "ready"
    /\ launch.step = "none"
    /\ launch' = [step |-> "pending", version |-> ui.version]
    /\ UNCHANGED <<worldVars, pending, activeDownload, download, startup, ui,
                   reloads, fileVars>>

LaunchReads ==
    /\ launch.step = "pending"
    /\ \E p \in PendingsRead :
          launch' = IF p # NoPending /\ p.version = launch.version
                    THEN [launch EXCEPT !.step = "assert"] ELSE NoLaunch
    /\ UNCHANGED <<worldVars, pending, activeDownload, download, startup, ui,
                   reloads, fileVars>>

PayloadAsserted ==
    /\ launch.step = "assert"
    /\ \E verdict \in PayloadVerdicts(launch.version) :
          launch' = [launch EXCEPT !.step = IF verdict THEN "open" ELSE "unlink"]
    /\ UNCHANGED <<worldVars, pending, activeDownload, download, startup, ui,
                   reloads, fileVars>>

LaunchDiscards ==
    /\ \/ /\ launch.step = "unlink"
          /\ launch' = [launch EXCEPT !.step = "clear"]
          /\ Removed(launch.version)
          /\ UNCHANGED pending
       \/ /\ launch.step = "clear"
          /\ launch' = NoLaunch
          /\ pending' = NoPending
          /\ UNCHANGED file
    /\ UNCHANGED <<worldVars, activeDownload, download, startup, ui, reloads, transfer>>

InstallerOpened ==
    /\ launch.step = "open"
    /\ \/ launch' = [launch EXCEPT !.step = "launched"]
       \/ "launch" \in scenario.faults /\ launch' = NoLaunch
    /\ UNCHANGED <<worldVars, pending, activeDownload, download, startup, ui,
                   reloads, fileVars>>

LaunchProceeds ==
    LaunchReads \/ PayloadAsserted \/ LaunchDiscards \/ InstallerOpened

-------------------------------------------------------------------------------
(* The world. *)

ReleaseChanges ==
    /\ \E v \in VersionOrNone :
          /\ v > latest \/ "withdrawn" \in scenario.faults
          /\ latest' = v
    /\ UNCHANGED <<installed, mainVars, ui, reloads, fileVars>>

InstallerLost(v) ==
    /\ "lost" \in scenario.faults
    /\ file[v].content # "none" /\ file[v].writers = {}
    /\ file' = Unlinked(v)
    /\ UNCHANGED <<updateVars, transfer>>

PageReloaded ==
    /\ "reload" \in scenario.faults
    /\ reloads < scenario.reloads
    /\ reloads' = reloads + 1
    /\ ui' = Idle
    /\ download' = [d \in UpdateCalls |-> [download[d] EXCEPT !.heard = FALSE]]
    /\ UNCHANGED <<worldVars, pending, activeDownload, startup, launch, fileVars>>

\* The application ends; a launched installer may replace it meanwhile.
UpdateKilled ==
    /\ installed' \in {installed} \cup
            IF launch.step = "launched" /\ file[launch.version].content = "complete"
            THEN {launch.version} ELSE {}
    /\ UNCHANGED <<latest, reloads>>
    /\ pending' \in {pending} \cup
            IF \E d \in UpdateCalls : DownloadAt(d, "write") \/ DownloadAt(d, "update")
            THEN {NoPending} ELSE {}
    /\ activeDownload' = NoVersion
    /\ download' = [d \in UpdateCalls |->
                      IF download[d].step \in {"none"} \cup DownloadEnds
                      THEN download[d] ELSE [NoDownload EXCEPT !.step = "killed"]]
    /\ startup' = NoStartup
    /\ launch' = NoLaunch
    /\ ui' = Idle

\* What depends on the network.
UpdateReceives ==
    \/ ReleaseChecked
    \/ \E d \in UpdateCalls :
          \/ DownloadAt(d, "transfer") /\ DownloadProceeds(d)
          \/ TransferProceeds(d) /\ UNCHANGED updateVars

\* What does not.
UpdateWorks ==
    \/ PendingRead \/ StartupDiscards \/ StartupAnswered
    \/ \E d \in UpdateCalls : ~DownloadAt(d, "transfer") /\ DownloadProceeds(d)

\* What goes on by itself.
UpdateProceeds ==
    \/ StartupProceeds
    \/ \E d \in UpdateCalls :
          \/ DownloadProceeds(d)
          \/ TransferProceeds(d) /\ UNCHANGED updateVars

UpdateStep ==
    \/ StartupCalled
    \/ \E d \in UpdateCalls : DownloadCalled(d)
    \/ LaunchCalled \/ LaunchProceeds
    \/ ReleaseChanges
    \/ \E v \in Versions : InstallerLost(v)
    \/ PageReloaded
    \/ UpdateProceeds

-------------------------------------------------------------------------------

UpdateTypeOK ==
    LET PendingUpdates == [version : VersionOrNone, userInitiated : BOOLEAN]
    IN  /\ installed \in VersionOrNone /\ latest \in VersionOrNone
        /\ pending \in PendingUpdates
        /\ activeDownload \in VersionOrNone
        /\ download \in [UpdateCalls -> [step : {"none", "existing", "update", "unlink",
                                               "transfer", "verify", "discard", "clear",
                                               "write"} \cup DownloadEnds,
                                       version : VersionOrNone, heard : BOOLEAN]]
        /\ startup \in [step : {"none", "check", "pending", "unlink", "clear", "answer"},
                        latest : VersionOrNone, failed : BOOLEAN,
                        pending : PendingUpdates]
        /\ launch \in [step : {"none", "pending", "assert", "unlink", "clear", "open",
                               "launched"},
                       version : VersionOrNone]
        /\ ui \in [kind : {"idle", "checking", "current", "available", "downloading",
                           "ready", "error"},
                   version : VersionOrNone]
        /\ reloads \in Nat

(* An installer that is started is newer than what runs, and all of it is there,
   whatever the network, the disk and the end of the application did to the
   downloads before (appUpdate.main.ts:311-340, 406-495, 497-565, 580-608).
   Nothing checks more than the size: a page that is reloaded during a download, a
   release that comes back and an installer that something else deletes each leave
   metadata behind that a later, partial download then fits; and a directory that
   cannot be made leaves a version that counts as downloaded. *)
LaunchedIsComplete ==
    /\ launch.step = "launched"
    /\ scenario.faults \cap {"reload", "withdrawn", "lost", "mkdir"} = {}
    => file[launch.version].content = "complete" /\ launch.version > installed
===============================================================================
