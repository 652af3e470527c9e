----------------------- MODULE RecordingFilesEnvironment -----------------------
(***************************************************************************)
(* What the audio and the video recording channel of the main process      *)
(* share: the directories with the files of the recordings, the window     *)
(* that records, the life of the process and the reaper of old partial     *)
(* files (ts/minutes/recordingPartialFiles.node.ts).                       *)
(***************************************************************************)
EXTENDS FiniteSets, Naturals

CONSTANTS
    Recordings,   \* audio recordings, each with file names of its own
    Videos,       \* video recordings, likewise
    MaxPending,   \* appends that fit into the write queue of a session
    MaxCrashes,   \* bound: times the process is killed
    Scenarios     \* what is recorded and what may go wrong in a behaviour

AllFaults ==
    {"disk",     \* an operation of a writer or a recovery pass fails
     "undo",     \* an operation of a rollback fails
     "window",   \* the window is destroyed while the process lives on
     "eager",    \* a recording starts before the recovery has listed the files
     "announce", \* the event of a finished recording cannot be built
     "old"}      \* partial files are older than the retention time

ASSUME FilesAssumption ==
    /\ MaxPending \in Nat \ {0}
    /\ MaxCrashes \in Nat
    /\ Recordings \cap Videos = {}
    /\ Scenarios \subseteq [recordings : SUBSET (Recordings \cup Videos),
                            faults : SUBSET AllFaults]

Kinds == {"mp3", "webm", "pcm", "json", "log"}
Final(k) == <<k, "final">>
Partial(k) == <<k, "partial">>
FileNames == Kinds \X {"final", "partial"}

VARIABLES
    files,        \* the files of each recording on disk
    window,       \* is the window open?
    running,      \* is the main process running?
    crashes,      \* how often it has been killed
    reapable,     \* old partial files the reaper has not come to yet
    scenario      \* the choice made from Scenarios

lifeVars == <<window, running, crashes>>

FilesTypeOK ==
    /\ files \in [Recordings \cup Videos -> SUBSET FileNames]
    /\ window \in BOOLEAN /\ running \in BOOLEAN
    /\ crashes \in 0..MaxCrashes
    /\ reapable \subseteq (Recordings \cup Videos) \X Kinds
    /\ scenario \in Scenarios

FilesInit ==
    /\ files = [r \in Recordings \cup Videos |-> {}]
    /\ window = FALSE /\ running = FALSE /\ crashes = 0
    /\ reapable = {}
    /\ scenario \in Scenarios

May(faults) == scenario.faults \cap faults # {}

Has(r, name) == name \in files[r]
AddFile(r, name) == files' = [files EXCEPT ![r] = @ \cup {name}]
Rename(r, k) ==
    files' = [files EXCEPT ![r] = (@ \ {Partial(k)}) \cup {Final(k)}]
RenameBack(r, k) ==
    files' = [files EXCEPT ![r] = (@ \ {Final(k)}) \cup {Partial(k)}]
RemoveFiles(r, names) == files' = [files EXCEPT ![r] = @ \ names]

-------------------------------------------------------------------------------
(* reapStaleRecordingPartials(), started with the process for both channels *)

OldFiles(r) ==
    {<<r, k>> : k \in {j \in Kinds : Has(r, Partial(j))}}

\* The reaper finds the partial files that are old when the process starts.
ReaperStarts ==
    \E old \in SUBSET (Recordings \cup Videos) :
        /\ old # {} => "old" \in scenario.faults
        /\ reapable' = UNION {OldFiles(r) : r \in old}

Reap(r, k) ==
    /\ <<r, k>> \in reapable
    /\ reapable' = reapable \ {<<r, k>>}
    /\ RemoveFiles(r, {Partial(k)})
    /\ UNCHANGED lifeVars
===============================================================================
