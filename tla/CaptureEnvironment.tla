-------------------------- MODULE CaptureEnvironment --------------------------
(***************************************************************************)
(* What the two recording services share besides the coordinator: the      *)
(* calls that are going on, the recording files held open by the main      *)
(* process, the finished files and the transcription queue.  A recording   *)
(* session is named by the lease of the capture that opened it: one        *)
(* startRecording() opens at most one.                                     *)
(***************************************************************************)
EXTENDS CaptureCoordinator

CONSTANTS
    Conversations,    \* conversations with a call of a recordable call mode
    NoConversation,
    FaultSets         \* the failures that may happen together

AllFaults ==
    {"createTrack", "trackError", "stopTrack",
     "createFile", "appendFile", "finalizeFile", "abortFile",
     "refuseStreams", "queueOverflow", "compositorError", "recorderError",
     "speakerLog"}

ASSUME EnvironmentAssumption ==
    /\ NoConversation \notin Conversations
    /\ FaultSets \subseteq SUBSET AllFaults

VARIABLES
    endedCalls,      \* conversations whose call is over
    openSessions,    \* recording sessions the main process holds open
    savedFiles,      \* sessions published under their final name
    transcriptions,  \* sessions handed to the transcription queue
    faults           \* the failures that may happen in this behaviour

environmentVars == <<endedCalls, openSessions, savedFiles, transcriptions>>
fileVars == <<openSessions, savedFiles, transcriptions>>

EnvironmentTypeOK ==
    /\ endedCalls \subseteq Conversations
    /\ openSessions \subseteq Leases
    /\ savedFiles \subseteq Leases
    /\ transcriptions \subseteq Leases
    /\ faults \in FaultSets

EnvironmentInit ==
    /\ endedCalls = {}
    /\ openSessions = {}
    /\ savedFiles = {}
    /\ transcriptions = {}
    /\ faults \in FaultSets

\* writer.create()
OpenSession(s) ==
    /\ openSessions' = openSessions \cup {s}
    /\ UNCHANGED <<savedFiles, transcriptions>>

\* writer.finalize() published the files of the session.
PublishSession(s) ==
    /\ openSessions' = openSessions \ {s}
    /\ savedFiles' = savedFiles \cup {s}

\* enqueueRecordingTranscription()
Transcribe(s) == transcriptions' = transcriptions \cup {s}

\* writer.abort(), and what the main process does after a failed append or
\* finalize: the files are closed and stay on disk as partial files.
CloseSession(s) ==
    /\ openSessions' = openSessions \ {s}
    /\ UNCHANGED <<savedFiles, transcriptions>>
===============================================================================
