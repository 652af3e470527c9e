---------------------------- MODULE TranscriptionOps ----------------------------
(***************************************************************************)
(* The work of the main process on a recording:                            *)
(* transcribeCallRecording() and generateCallRecordingSummary()            *)
(* (ts/minutes/callSummaryExtension.main.ts), the set of cancelled jobs    *)
(* they look at between their awaits (ts/minutes/transcriptionCancel.main.ts) *)
(* and the deletion of a recording (ts/minutes/recordingFiles.main.ts).    *)
(*                                                                         *)
(* An operation stands in the phase whose await is in progress.  Awaits    *)
(* with nothing but checks between them are one phase; contents,           *)
(* progress and the models are left out.  Whoever starts an operation      *)
(* finds its end in the phases "done" and "failed".                        *)
(***************************************************************************)
EXTENDS Integers, Sequences, FiniteSets

CONSTANTS
    Jobs,               \* jobs of the queue of the page
    Tasks,              \* jobs of the AutomationJobRegistry
    Recordings,
    Scenarios           \* what is asked for, and what may go wrong

Ops == Jobs \union Tasks

\* The bounds of a behaviour: how many jobs and tasks there may be and of
\* which recordings, how often the user deletes a recording and reloads the
\* page; whether operations and the removal of a file fail, and whether an AI
\* corrects transcripts.
Scenario ==
    [jobs : Nat, tasks : Nat, recordings : SUBSET Recordings,
     deletions : Nat, reloads : Nat, faults : SUBSET {"fail", "correct", "rm"}]

ASSUME ScenarioAssumption == Scenarios \subseteq Scenario

\* The id of a task is a new UUID.  That of a job is made of its kind, start
\* and conversation and the millisecond: two jobs with one id would be one job
\* cancelled and asked for again within a millisecond, and are left out.
ASSUME OpsAssumption == Jobs \intersect Tasks = {} /\ Recordings # {}

VARIABLES
    op,                 \* op[o]: its phase, kind and recording
    cancelledJobIds,
    files,              \* files[f]: the artifacts of recording f on disk
    deleted,            \* recordings the user has deleted
    removing,           \* removing[f]: the artifact whose rm() is in progress
    scenario            \* the choice made from Scenarios

\* The files of the recordings and what deletes them.
storeVars == <<files, deleted, removing>>
opsVars == <<op, cancelledJobIds, storeVars>>

Kinds == {"transcription", "summary"}
\* The transcripts of before and after the AI correction, which are written
\* beside the one that is read, are left out.
Artifacts == {"recording", "sound", "transcript", "summary"}

\* What may come after a phase.  The AI correction and the AI summary depend
\* on the settings, read when their turn comes.
Follows(kind, phase) ==
    IF kind = "transcription"
    THEN CASE phase = "load" -> {"decode"}
           [] phase = "decode" -> {"whisper"}
           [] phase = "whisper" ->
                {"transcript"} \union (IF "correct" \in scenario.faults THEN {"correct"} ELSE {})
           [] phase = "correct" -> {"transcript"}
           [] phase = "transcript" -> {"summary", "emit"}
           [] phase = "summary" -> {"emit"}
           [] OTHER -> {}
    ELSE CASE phase = "load" -> {"generate"}
           [] phase = "generate" -> {"save"}
           [] phase = "save" -> {"emit"}
           [] OTHER -> {}

Phases == {"none", "load", "decode", "whisper", "correct", "transcript",
           "summary", "generate", "save", "emit", "done", "failed"}

\* The operation is inside the function that writes the artifacts.
Working(o) == op[o].phase \notin {"none", "emit", "done", "failed"}

OpsInit ==
    /\ op = [o \in Ops |-> [phase |-> "none", kind |-> "summary",
                            file |-> CHOOSE f \in Recordings : TRUE]]
    /\ cancelledJobIds = {}
    /\ files = [f \in Recordings |-> {"recording", "sound"}]
    /\ scenario \in Scenarios
    /\ deleted = {}
    /\ removing = [f \in Recordings |-> 0]

-----------------------------------------------------------------------------
\* The artifacts that the end of a phase leaves on disk.
Written(phase) ==
    CASE phase = "transcript" -> {{"transcript"}}
      [] phase = "save" -> {{"summary"}}
      [] phase = "summary" -> {{"summary"}, {}}
      [] OTHER -> {{}}

\* A summary is read from the transcript, the sound from its PCM file.  The
\* phase "load" ends when that file has been opened: its contents can be read
\* even when it is then removed.
InputMissing(o) ==
    /\ op[o].phase = "load"
    /\ IF op[o].kind = "summary"
       THEN "transcript" \notin files[op[o].file]
       ELSE "sound" \notin files[op[o].file]

\* throwIfTranscriptionCancelled() stands before every phase but the last.
StopsHere(o, next) == o \in cancelledJobIds /\ next # "emit"

\* The finally block clears the cancellation when the function ends.
Cleared(o, next) == cancelledJobIds \ (IF next \in {"emit", "failed"} THEN {o} ELSE {})

\* The await of the current phase ends well.
Advance(o) ==
    \E next \in Follows(op[o].kind, op[o].phase), new \in Written(op[o].phase) :
        /\ ~InputMissing(o)
        /\ files' = [files EXCEPT ![op[o].file] = @ \union new]
        /\ LET to == IF StopsHere(o, next) THEN "failed" ELSE next
           IN  /\ op' = [op EXCEPT ![o].phase = to]
               /\ cancelledJobIds' = Cleared(o, to)
        /\ UNCHANGED <<deleted, removing>>

\* The await of the current phase throws; the AI correction catches it.  What
\* the phase writes may be on disk already: the metadata of the transcript are
\* written after it.
Throw(o) ==
    /\ Working(o)
    /\ op[o].phase # "correct"
    /\ InputMissing(o) \/ "fail" \in scenario.faults
    /\ op' = [op EXCEPT ![o].phase = "failed"]
    /\ cancelledJobIds' = Cleared(o, "failed")
    /\ \E new \in Written(op[o].phase) \union {{}} :
        files' = [files EXCEPT ![op[o].file] = @ \union new]
    /\ UNCHANGED <<deleted, removing>>

\* The events are handed to the webhooks before the answer is given.
Emitted(o) ==
    /\ op[o].phase = "emit"
    /\ op' = [op EXCEPT ![o].phase = "done"]
    /\ UNCHANGED <<cancelledJobIds, storeVars>>

OpStep(o) == Advance(o) \/ Throw(o) \/ Emitted(o)

\* Seeded fault: the sound in the private directory is forgotten.
DeletedButSound == <<"recording", "transcript", "summary">>

\* The artifacts deleteCallRecording() knows of, in its order.  Those that
\* nothing here depends on are left out, and so is the PCM file beside the
\* recording that earlier versions wrote.
DeletedArtifacts == <<"recording", "transcript", "summary", "sound">>

\* The page has f in its list, which it reads again only after the answer of
\* a deletion.
Catalogued(f) == "recording" \in files[f] \/ removing[f] > 0

\* The user confirms the deletion of a recording, once for each.  Its row in
\* the list can be deleted at any time; the button of the detail is disabled
\* while the queue works on it.
Delete(f) ==
    /\ f \notin deleted
    /\ Cardinality(deleted) < scenario.deletions
    /\ deleted' = deleted \union {f}
    /\ removing' = [removing EXCEPT ![f] = 1]
    /\ UNCHANGED <<op, cancelledJobIds, files>>

\* An rm() of deleteCallRecording() returns and the next one is called.  Its
\* error is logged, and the file stays.
FileRemoved(f) ==
    /\ removing[f] > 0
    /\ \/ files' = [files EXCEPT ![f] = @ \ {DeletedArtifacts[removing[f]]}]
       \/ "rm" \in scenario.faults /\ UNCHANGED files
    /\ removing' = [removing EXCEPT ![f] = (@ + 1) % (Len(DeletedArtifacts) + 1)]
    /\ UNCHANGED <<op, cancelledJobIds, deleted>>

OpsTypeOK ==
    /\ op \in [Ops -> [phase : Phases, kind : Kinds, file : Recordings]]
    /\ cancelledJobIds \subseteq Jobs
    /\ files \in [Recordings -> SUBSET Artifacts]
    /\ deleted \subseteq Recordings
    /\ removing \in [Recordings -> 0 .. Len(DeletedArtifacts)]
    /\ \A f \in Recordings : removing[f] # 0 => f \in deleted
    /\ scenario \in Scenarios
===============================================================================
