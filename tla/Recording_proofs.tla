---------------------------- MODULE Recording_proofs ----------------------------
(***************************************************************************)
(* Proofs about the two ends of a recording, its files in the main process *)
(* and the recorder in the page that appends to one.                       *)
(*                                                                         *)
(* The files: for any set of recordings and videos, any number of recovery *)
(* passes, destroyed windows and crashes and any combination of faults,    *)
(* nothing recorded is lost, a recording is published complete and once,   *)
(* finalize() is all or nothing, and the files a crash interrupted are     *)
(* recovered.  The invariant says at every await which of its files a      *)
(* recording has under which name, and who may rename the PCM: finalize()  *)
(* or one pass.                                                            *)
(*                                                                         *)
(* The recorder: for every memory limit and any number of writes, pauses   *)
(* and failures, its queue is bounded and written by one drain at a time,  *)
(* stop() returns a recording only after it, and it keeps to the contract  *)
(* of the recording service.  RecorderInv is not inductive: that no drain  *)
(* runs while the current object names none holds because the drain of an  *)
(* older object is named by every copy that was made since                 *)
(* (DrainIsCopied).                                                        *)
(***************************************************************************)
EXTENDS RecordingFiles, CallRecorder, FiniteSetTheorems, TLAPS

\* The kinds of which a recording has the final file, or the partial one.
Finals(r) == {k \in Kinds : Has(r, Final(k))}
Partials(r) == {k \in Kinds : Has(r, Partial(k))}

TypeOK == FilesTypeOK /\ AudioTypeOK /\ VideoTypeOK

Undoing == {"undoPcm", "undoFinal", "undoPartial"}
PassActive == {"list", "next", "stat", "metadata", "pcm", "json", "mp3", "catch"}

(* The files of a recording, and the sets finalize() has renamed of them. *)
AllKinds(r) == {"mp3", "pcm", "json"} \cup (IF writer[r].hasLog THEN {"log"} ELSE {})
Prefixes(hasLog) ==
    IF hasLog THEN {{}, {"pcm"}, {"pcm", "log"}, {"pcm", "log", "json"}}
              ELSE {{}, {"pcm"}, {"pcm", "json"}}

\* finalize() has renamed the PCM and may rename it back.
Renaming(r) ==
    writer[r].finalize \in {"publish", "undoPcm"} /\ "pcm" \in writer[r].renamed
\* The pass has renamed the PCM and goes on to the metadata and the MP3.
HoldsPcm(p, r) == r \in pass[p].at /\ pass[p].step \in {"json", "mp3"}

\* The pass will come to the recording.
Lists(p, r) == r \in pass[p].todo /\ pass[p].step \in PassActive

\* What the calls in progress on a recording say about each other.
CallsInv(r) ==
    /\ r \in sessions => writer[r].create = "done"
    /\ writer[r].create # "done" =>
         writer[r].finalize = "none" /\ writer[r].abort = "none" /\ ~writer[r].open
    /\ writer[r].create # "none" => running /\ interrupted[r] = "no"
    /\ writer[r].finalize # "done" => writer[r].answer = "none"
    /\ writer[r].finalize \in {"none", "drain", "flush", "metadata", "log", "close"} =>
         writer[r].renamed = {}
    /\ writer[r].finalize \in {"publish"} \cup Undoing =>
         ~writer[r].open /\ writer[r].renamed \in Prefixes(writer[r].hasLog)
    /\ writer[r].finalize = "log" => writer[r].hasLog
    /\ r \in sessions /\ writer[r].finalize = "none" =>
         writer[r].open /\ writer[r].abort = "none"

\* A name that has not been used, or whose create() failed.
FreshInv(r) ==
    writer[r].create # "done" /\ interrupted[r] = "no" =>
        /\ Finals(r) = {} /\ Partials(r) \subseteq {"mp3"}
        /\ writer[r].create \in {"none", "mp3"} => Partials(r) = {}
        /\ published[r] = 0
        /\ \A p \in Passes : ~WorksOn(p, r)

KeptInv(r) ==
    ~May({"old"}) =>
        /\ \/ writer[r].create \in {"pcm", "done"}
           \/ interrupted[r] \in {"recording", "finalizing", "recovering"}
           => "mp3" \in Partials(r) \cup Finals(r)
        /\ \/ writer[r].create = "done"
           \/ interrupted[r] \in {"recording", "finalizing", "recovering"}
           => "pcm" \in Partials(r) \cup Finals(r)

\* Only one renames the PCM, and nobody once the MP3 has its final name.
PcmInv(r) ==
    /\ Renaming(r) =>
         /\ "pcm" \in Finals(r) \ Partials(r)
         /\ \A p \in Passes : ~HoldsPcm(p, r)
    /\ \A p \in Passes : HoldsPcm(p, r) =>
         /\ "pcm" \in Finals(r) \ Partials(r)
         /\ \A q \in Passes : HoldsPcm(q, r) => q = p
    /\ "mp3" \in Finals(r) =>
         /\ "pcm" \in Finals(r) \ Partials(r) /\ "mp3" \notin Partials(r)
         /\ ~Renaming(r) /\ \A p \in Passes : ~HoldsPcm(p, r)
    /\ writer[r].finalize = "publish" => writer[r].renamed \subseteq Finals(r)
    /\ published[r] = IF "mp3" \in Finals(r) THEN 1 ELSE 0

\* The metadata is removed only where the MP3 can no longer be published.
JsonInv(r) ==
    ~(Races /\ May({"disk"})) =>
        /\ writer[r].finalize \in {"undoPcm", "undoFinal"}
           /\ "json" \in writer[r].renamed =>
             "mp3" \notin Finals(r) /\ (Races => "mp3" \notin Partials(r))
        /\ "mp3" \in Finals(r) => "json" \in Finals(r)
        /\ \A p \in Passes :
             r \in pass[p].at /\ pass[p].step = "mp3" /\ "mp3" \in Partials(r) =>
               "json" \in Finals(r)

\* Unless windows overlap, a pass and the calls on a recording do not meet.
ApartInv ==
    ~Races =>
        /\ running => window
        /\ \A p \in Passes : pass[p].step = "list" =>
             \A r \in Recordings : writer[r].create = "none"
        /\ \A p \in Passes, r \in Recordings :
             WorksOn(p, r) \/ Lists(p, r) =>
               writer[r].create = "none" /\ interrupted[r] # "no"

PassInv ==
    \A p \in Passes :
        /\ \A r, s \in pass[p].at : r = s
        /\ pass[p].at \cap pass[p].todo = {}
        /\ pass[p].step \in {"unused", "list"} =>
             pass[p].at = {} /\ pass[p].todo = {}
ReaperInv == reapable # {} => May({"old"})

\* The files finalize() works on, before it renames them.
Made(r) ==
    CASE writer[r].finalize \in {"none", "drain", "flush", "metadata"} -> {"mp3", "pcm"}
      [] writer[r].finalize = "log" -> {"mp3", "pcm", "json"}
      [] OTHER -> AllKinds(r)

\* Where finalize() is, and which files there are.
FilesInv(r) ==
    ~Races /\ writer[r].create = "done" =>
        /\ writer[r].finalize \notin {"done"} \cup Undoing =>
             /\ Finals(r) = writer[r].renamed
             /\ Partials(r) \subseteq Made(r) \ writer[r].renamed
             /\ ~May({"old"}) => Made(r) \ writer[r].renamed \subseteq Partials(r)
        /\ writer[r].answer = "ok" =>
             Finals(r) = AllKinds(r) /\ Partials(r) = {}
        /\ \/ writer[r].finalize \in {"flush", "metadata", "log", "close", "publish"}
           \/ writer[r].answer = "ok"
           => writer[r].pending = 0 /\ ~writer[r].failed

\* The rollback, where nothing is reaped.
UndoInv(r) ==
    ~Races /\ ~(May({"disk"}) /\ May({"undo"})) /\ ~May({"old"}) =>
        /\ writer[r].finalize \in Undoing =>
             /\ {"mp3", "pcm"} \subseteq Partials(r) \cup Finals(r)
             /\ Partials(r) \subseteq {"mp3", "pcm", "json", "log"}
        /\ writer[r].finalize = "undoPcm" => Finals(r) = writer[r].renamed
        /\ writer[r].finalize = "undoFinal" => Finals(r) = writer[r].renamed \ {"pcm"}
        /\ writer[r].finalize = "undoPartial" => Finals(r) = {}
        /\ writer[r].answer = "error" =>
             Finals(r) = {} /\ Partials(r) = {"mp3", "pcm"}

\* Without a fault finalize() does not throw.
SafeInv(r) ==
    ~Races /\ ~May({"disk"}) =>
        /\ ~writer[r].failed
        /\ writer[r].finalize \in {"drain", "flush"} =>
             writer[r].open /\ writer[r].abort = "none"
        /\ ~May({"old"}) =>
             writer[r].finalize \notin Undoing /\ writer[r].answer # "error"

\* The recovery of what a crash has interrupted, step by step.
Recovering(r) ==
    \/ "mp3" \in Finals(r)
    \/ /\ Finals(r) = {} /\ Partials(r) = {"mp3", "pcm"}
       /\ \A p \in Passes :
            \/ pass[p].step \in {"unused", "failed", "list"}
            \/ Lists(p, r)
            \/ pass[p].step \in {"stat", "metadata"} /\ r \in pass[p].at
    \/ \E p \in Passes :
         /\ r \in pass[p].at
         /\ \/ /\ pass[p].step = "pcm" /\ Finals(r) = {}
               /\ Partials(r) = {"mp3", "pcm", "json"}
            \/ /\ pass[p].step = "json" /\ Finals(r) = {"pcm"}
               /\ Partials(r) = {"mp3", "json"}
            \/ /\ pass[p].step = "mp3" /\ Finals(r) = {"pcm", "json"}
               /\ Partials(r) = {"mp3"}

RecoveryInv ==
    ~Races /\ ~May({"disk", "old"}) =>
        /\ \A p \in Passes :
             /\ pass[p].step \notin {"unused", "failed"} =>
                  running /\ \A q \in Passes :
                    pass[q].step \notin {"unused", "failed"} => q = p
             /\ pass[p].step = "list" => pass[p].active = {}
             /\ pass[p].step = "done" => pass[p].todo = {}
        /\ \A r \in Recordings : interrupted[r] = "recording" => Recovering(r)

\* The open handles of a recording have somebody who will close them.
OwnedInv(r) ==
    writer[r].open =>
        \/ r \in sessions
        \/ writer[r].abort = "drain"
        \/ writer[r].finalize \notin {"none", "done"}

\* What is said of one recording.
RecordingInv(r) ==
    /\ CallsInv(r) /\ FreshInv(r) /\ KeptInv(r) /\ PcmInv(r) /\ JsonInv(r)
    /\ FilesInv(r) /\ UndoInv(r) /\ SafeInv(r) /\ OwnedInv(r)

AudioInv ==
    /\ \A r \in Recordings : RecordingInv(r)
    /\ ApartInv /\ PassInv /\ ReaperInv /\ RecoveryInv

VideoKinds == {"webm", "pcm", "json", "log"}
VideoPrefixes == {{}, {"pcm"}, {"pcm", "log"}, {"pcm", "log", "json"}}

\* What the calls in progress on a video say about each other.
VideoCallsInv(v) ==
    /\ v \in videoSessions => video[v].create = "done"
    /\ video[v].create # "done" =>
         /\ video[v].finalize = "none" /\ ~video[v].open
         /\ video[v].told = "none"
    /\ video[v].finalize = "done" <=> video[v].answer # "none"
    /\ video[v].finalize \in {"none", "drain", "sync", "metadata", "log", "close"} =>
         video[v].renamed = {}
    /\ video[v].finalize \in {"publish"} \cup Undoing =>
         video[v].renamed \in VideoPrefixes
    /\ video[v].finalize \in {"publish", "announce"} \cup Undoing => ~video[v].open
    /\ video[v].create = "done" =>
         v \in videoSessions \/ video[v].remembered \/ "webm" \in Finals(v)

VideoKeptInv(v) ==
    ~May({"old"}) =>
        /\ video[v].create \in {"pcm", "done", "lost"} =>
             "webm" \in Partials(v) \cup Finals(v)
        /\ video[v].create \in {"done", "lost"} =>
             "pcm" \in Partials(v) \cup Finals(v)

\* After the WebM has its final name nothing is renamed or removed.
VideoPublishedInv(v) ==
    /\ "webm" \in Finals(v) =>
         /\ {"pcm", "json", "log"} \subseteq Finals(v)
         /\ video[v].finalize \in {"announce", "done"} \/ video[v].create = "lost"
    /\ video[v].create \notin {"done", "lost"} => Finals(v) = {}

VideoMade(v) ==
    CASE video[v].finalize \in {"none", "drain", "sync", "metadata"} -> {"webm", "pcm"}
      [] video[v].finalize = "log" -> {"webm", "pcm", "json"}
      [] OTHER -> VideoKinds

\* Where finalize() is, and which files there are.
VideoFilesInv(v) ==
    /\ video[v].create \in {"none", "webm"} => Partials(v) = {}
    /\ video[v].create = "pcm" => Partials(v) \subseteq {"webm"}
    /\ /\ video[v].create = "done"
       /\ video[v].finalize \notin {"announce", "done"} \cup Undoing
       => /\ Finals(v) = video[v].renamed
          /\ Partials(v) \subseteq VideoMade(v) \ video[v].renamed
          /\ ~May({"old"}) => VideoMade(v) \ video[v].renamed \subseteq Partials(v)
    /\ video[v].finalize = "announce" \/ video[v].answer \in {"ok", "rejected"} =>
         Finals(v) = VideoKinds /\ Partials(v) = {}

\* The rollback, where nothing is reaped.
VideoUndoInv(v) ==
    ~May({"undo", "old"}) =>
        /\ video[v].finalize \in Undoing =>
             /\ {"webm", "pcm"} \subseteq Partials(v) \cup Finals(v)
             /\ Partials(v) \subseteq VideoKinds
        /\ video[v].finalize = "undoPcm" => Finals(v) = video[v].renamed
        /\ video[v].finalize = "undoFinal" => Finals(v) = video[v].renamed \ {"pcm"}
        /\ video[v].finalize = "undoPartial" => Finals(v) = {}
        /\ video[v].answer = "error" =>
             Finals(v) = {} /\ Partials(v) = {"webm", "pcm"}

\* The open handles of a video have somebody who will close them, and an abort
\* does not forget its path.
VideoOwnedInv(v) ==
    /\ video[v].open =>
         \/ v \in videoSessions
         \/ video[v].abort = "drain"
         \/ video[v].finalize \notin {"none", "done"}
    /\ video[v].told = "unknown" => "webm" \in Finals(v)

\* What is said of one video.
VideoInvOf(v) ==
    /\ VideoCallsInv(v) /\ VideoKeptInv(v) /\ VideoPublishedInv(v)
    /\ VideoFilesInv(v) /\ VideoUndoInv(v) /\ VideoOwnedInv(v)

VideoInv == \A v \in Videos : VideoInvOf(v)

IInv == TypeOK /\ AudioInv /\ VideoInv

-------------------------------------------------------------------------------
(* What the operations on files do to the names of one recording. *)

Names == Recordings \cup Videos

\* The files of r are now those of the kinds f, and partial ones of p.
FilesBecome(r, f, p) ==
    /\ files' \in [Names -> SUBSET FileNames]
    /\ Finals(r)' = f /\ Partials(r)' = p
    /\ \A s \in Names \ {r} : files'[s] = files[s]

(* No two names of a recording's files are the same. *)
LEMMA NamesDiffer ==
  /\ \A j, k \in Kinds : Final(j) # Partial(k)
  /\ \A j, k \in Kinds : Final(j) = Final(k) <=> j = k
  /\ \A j, k \in Kinds : Partial(j) = Partial(k) <=> j = k
  /\ \A k \in Kinds : Final(k) \in FileNames /\ Partial(k) \in FileNames
  BY DEF Final, Partial, FileNames

(* A step that leaves the files alone. *)
LEMMA FilesStay ==
  ASSUME FilesTypeOK, NEW r \in Names, files' = files
  PROVE  FilesBecome(r, Finals(r), Partials(r))
  BY DEF FilesBecome, FilesTypeOK, Names, Finals, Partials, Has

(* A partial file is written. *)
LEMMA FileAdded ==
  ASSUME FilesTypeOK, NEW r \in Names, NEW k \in Kinds, AddFile(r, Partial(k))
  PROVE  FilesBecome(r, Finals(r), Partials(r) \cup {k})
  BY NamesDiffer DEF FilesBecome, FilesTypeOK, Names, Finals, Partials, Has, AddFile

(* A partial file gets its final name. *)
LEMMA FileRenamed ==
  ASSUME FilesTypeOK, NEW r \in Names, NEW k \in Kinds, Rename(r, k)
  PROVE  FilesBecome(r, Finals(r) \cup {k}, Partials(r) \ {k})
  BY NamesDiffer DEF FilesBecome, FilesTypeOK, Names, Finals, Partials, Has, Rename

(* A final file gets its partial name back. *)
LEMMA FileRenamedBack ==
  ASSUME FilesTypeOK, NEW r \in Names, NEW k \in Kinds, RenameBack(r, k)
  PROVE  FilesBecome(r, Finals(r) \ {k}, Partials(r) \cup {k})
  BY NamesDiffer DEF FilesBecome, FilesTypeOK, Names, Finals, Partials, Has, RenameBack

(* Files are removed. *)
LEMMA FilesRemoved ==
  ASSUME FilesTypeOK, NEW r \in Names, NEW names, RemoveFiles(r, names)
  PROVE  FilesBecome(r, {k \in Finals(r) : Final(k) \notin names},
                        {k \in Partials(r) : Partial(k) \notin names})
  BY NamesDiffer DEF FilesBecome, FilesTypeOK, Names, Finals, Partials, Has, RemoveFiles

-------------------------------------------------------------------------------
(* The calls on an audio recording. *)

CallTable ==
    [create : {"none", "mp3", "pcm", "done"},
     finalize : {"none", "drain", "flush", "metadata", "log", "close",
                 "publish", "undoPcm", "undoFinal", "undoPartial", "done"},
     abort : {"none", "drain", "done"},
     answer : {"none", "ok", "error"},
     open : BOOLEAN, pending : 0..MaxPending, failed : BOOLEAN,
     hasLog : BOOLEAN, renamed : SUBSET Kinds]

\* The calls on r become w; nothing is said of another recording.
CallsBecome(r, w) ==
    /\ writer' \in [Recordings -> CallTable]
    /\ sessions' \subseteq Recordings /\ published' \in [Recordings -> 0..2]
    /\ writer'[r] = w
    /\ \A s \in Recordings \ {r} :
          /\ writer'[s] = writer[s]
          /\ s \in sessions' <=> s \in sessions
          /\ published'[s] = published[s]
    /\ UNCHANGED <<appVars, scenario>>

(* What is said of another recording does not depend on the one a call works
   on. *)
LEMMA OthersKeep ==
  ASSUME NEW r \in Recordings, NEW s \in Recordings \ {r}, NEW w,
         CallsBecome(r, w), files'[s] = files[s], RecordingInv(s)
  PROVE  RecordingInv(s)'
  <1>1. /\ writer'[s] = writer[s] /\ (s \in sessions' <=> s \in sessions)
        /\ published'[s] = published[s] /\ interrupted' = interrupted
        /\ pass' = pass /\ scenario' = scenario /\ running' = running
    BY DEF CallsBecome, appVars
  <1>2. Finals(s)' = Finals(s) /\ Partials(s)' = Partials(s)
    BY DEF Finals, Partials, Has
  <1>3. (Races' <=> Races) /\ \A faults : May(faults)' <=> May(faults)
    BY <1>1 DEF Races, May
  <1>4. \A p \in Passes : /\ WorksOn(p, s)' <=> WorksOn(p, s)
                          /\ HoldsPcm(p, s)' <=> HoldsPcm(p, s)
    BY <1>1 DEF WorksOn, HoldsPcm
  <1>5. Renaming(s)' <=> Renaming(s)
    BY <1>1 DEF Renaming
  <1>6. AllKinds(s)' = AllKinds(s) /\ Made(s)' = Made(s)
    BY <1>1 DEF AllKinds, Made
  <1>7. CallsInv(s)' /\ OwnedInv(s)' /\ FreshInv(s)'
    BY <1>1, <1>2, <1>4 DEF RecordingInv, CallsInv, OwnedInv, FreshInv
  <1>8. KeptInv(s)' /\ FilesInv(s)' /\ UndoInv(s)' /\ SafeInv(s)'
    BY <1>1, <1>2, <1>3, <1>6 DEF RecordingInv, KeptInv, FilesInv, UndoInv, SafeInv
  <1>9. PcmInv(s)' /\ JsonInv(s)'
    BY <1>1, <1>2, <1>3, <1>4, <1>5 DEF RecordingInv, PcmInv, JsonInv
  <1> QED BY <1>7, <1>8, <1>9 DEF RecordingInv

\* A call begins only where no pass is at work, and moves only files of its own.
Alone(r, w) ==
    /\ \/ w.create = "none" \/ writer[r].create # "none"
       \/ interrupted[r] = "no" /\ (~Races => \A p \in Passes : pass[p].step # "list")
    /\ files' = files \/ interrupted[r] = "no"

\* What a step of a call keeps.
AudioKeeps ==
    /\ FilesTypeOK' /\ AudioTypeOK' /\ AudioInv'
    /\ \A v \in Videos : files'[v] = files[v]

(* A call keeps the invariant when it keeps that of its own recording. *)
LEMMA CallKeeps ==
  ASSUME FilesTypeOK, AudioTypeOK, AudioInv, NEW r \in Recordings, NEW w,
         NEW f, NEW p, CallsBecome(r, w), FilesBecome(r, f, p), Alone(r, w),
         RecordingInv(r)'
  PROVE  AudioKeeps
  <1>1. /\ interrupted' = interrupted /\ pass' = pass /\ scenario' = scenario
        /\ running' = running /\ window' = window /\ reapable' = reapable
        /\ dead' = dead /\ crashes' = crashes
        /\ writer'[r] = w /\ \A s \in Recordings \ {r} : writer'[s] = writer[s]
        /\ writer' \in [Recordings -> CallTable]
        /\ sessions' \subseteq Recordings /\ published' \in [Recordings -> 0..2]
    BY DEF CallsBecome, appVars
  <1>2. /\ files' \in [Names -> SUBSET FileNames]
        /\ \A s \in Names \ {r} : files'[s] = files[s]
    BY DEF FilesBecome
  <1>3. (Races' <=> Races) /\ \A faults : May(faults)' <=> May(faults)
    BY <1>1 DEF Races, May
  <1>4. \A q \in Passes, s \in Recordings :
           (WorksOn(q, s)' <=> WorksOn(q, s)) /\ (Lists(q, s)' <=> Lists(q, s))
    BY <1>1 DEF WorksOn, Lists
  <1>5. FilesTypeOK'
    BY <1>1, <1>2 DEF FilesTypeOK, Names
  <1>6. AudioTypeOK'
    BY <1>1 DEF AudioTypeOK, CallTable
  <1>7. \A v \in Videos : files'[v] = files[v]
    BY <1>2, FilesAssumption DEF Names
  <1>8. \A s \in Recordings : RecordingInv(s)'
    BY <1>2, OthersKeep DEF AudioInv, Names
  <1>9. ApartInv'
    <2> SUFFICES ASSUME ~Races
                 PROVE  /\ running => window
                        /\ \A q \in Passes : pass[q].step = "list" =>
                             \A s \in Recordings : writer'[s].create = "none"
                        /\ \A q \in Passes, s \in Recordings :
                             WorksOn(q, s) \/ Lists(q, s) =>
                               writer'[s].create = "none" /\ interrupted[s] # "no"
      BY <1>1, <1>3, <1>4 DEF ApartInv
    <2>1. /\ running => window
          /\ \A q \in Passes : pass[q].step = "list" =>
               \A s \in Recordings : writer[s].create = "none"
          /\ \A q \in Passes, s \in Recordings :
               WorksOn(q, s) \/ Lists(q, s) =>
                 writer[s].create = "none" /\ interrupted[s] # "no"
      BY DEF AudioInv, ApartInv
    <2> QED BY <1>1, <2>1 DEF Alone
  <1>10. PassInv' /\ ReaperInv'
    BY <1>1, <1>3 DEF AudioInv, PassInv, ReaperInv
  <1>11. RecoveryInv'
    <2>1. \A s \in Recordings : interrupted[s] = "recording" =>
             Finals(s)' = Finals(s) /\ Partials(s)' = Partials(s)
      BY <1>2 DEF Alone, Names, Finals, Partials, Has
    <2> QED BY <1>1, <1>3, <1>4, <2>1 DEF AudioInv, RecoveryInv, Recovering
  <1> QED BY <1>5, <1>6, <1>7, <1>8, <1>9, <1>10, <1>11 DEF AudioKeeps, AudioInv

\* The step as its own recording sees it.
CallSees(r, w, f, p) ==
    /\ writer'[r] = w /\ Finals(r)' = f /\ Partials(r)' = p
    /\ interrupted' = interrupted /\ pass' = pass /\ running' = running
    /\ (Races' <=> Races) /\ \A faults : May(faults)' <=> May(faults)
    /\ \A q \in Passes : /\ WorksOn(q, r)' <=> WorksOn(q, r)
                         /\ HoldsPcm(q, r)' <=> HoldsPcm(q, r)

(* What a call does is all its recording sees. *)
LEMMA CallIsSeen ==
  ASSUME NEW r \in Recordings, NEW w, NEW f, NEW p,
         CallsBecome(r, w), FilesBecome(r, f, p)
  PROVE  CallSees(r, w, f, p)
  <1>1. /\ interrupted' = interrupted /\ pass' = pass /\ scenario' = scenario
        /\ running' = running /\ writer'[r] = w
    BY DEF CallsBecome, appVars
  <1> QED BY <1>1 DEF CallSees, FilesBecome, Races, May, WorksOn, HoldsPcm

(* Calls that change neither the files nor what finalize() has done. *)
LEMMA SameFilesKeep ==
  ASSUME NEW r \in Recordings, NEW w, CallSees(r, w, Finals(r), Partials(r)),
         RecordingInv(r), published'[r] = published[r],
         w.create = writer[r].create, w.finalize = writer[r].finalize,
         w.answer = writer[r].answer, w.renamed = writer[r].renamed,
         w.hasLog = writer[r].hasLog
  PROVE  /\ FreshInv(r)' /\ KeptInv(r)' /\ PcmInv(r)' /\ JsonInv(r)' /\ UndoInv(r)'
         /\ AllKinds(r)' = AllKinds(r) /\ Made(r)' = Made(r)
  <1>1. Renaming(r)' <=> Renaming(r)
    BY DEF CallSees, Renaming
  <1>2. FreshInv(r)' /\ KeptInv(r)'
    BY DEF RecordingInv, CallSees, FreshInv, KeptInv
  <1>3. PcmInv(r)' /\ JsonInv(r)'
    BY <1>1 DEF RecordingInv, CallSees, PcmInv, JsonInv
  <1>4. UndoInv(r)'
    BY DEF RecordingInv, CallSees, UndoInv
  <1> QED BY <1>2, <1>3, <1>4 DEF CallSees, AllKinds, Made

(* A call is one of the table. *)
LEMMA CallIsTyped ==
  ASSUME AudioTypeOK, NEW r \in Recordings
  PROVE  /\ writer \in [Recordings -> CallTable] /\ writer[r] \in CallTable
         /\ sessions \subseteq Recordings /\ published \in [Recordings -> 0..2]
  BY DEF AudioTypeOK, CallTable

(* A change of the calls on r. *)
LEMMA CallSet ==
  ASSUME AudioTypeOK, NEW r \in Recordings, NEW w \in CallTable,
         Set(r, w), UNCHANGED <<appVars, scenario>>,
         sessions' \in {sessions, sessions \ {r}, sessions \cup {r}},
         published' \in [Recordings -> 0..2],
         \A s \in Recordings \ {r} : published'[s] = published[s]
  PROVE  CallsBecome(r, w)
  <1>1. /\ writer \in [Recordings -> CallTable]
        /\ sessions \subseteq Recordings
    BY CallIsTyped
  <1> QED BY <1>1 DEF Set, CallsBecome

(* create() asks for the files. *)
LEMMA CreateKeeps ==
  ASSUME FilesTypeOK, AudioTypeOK, AudioInv, NEW r \in Recordings, Create(r),
         scenario' = scenario
  PROVE  AudioKeeps
  <1> DEFINE w == [writer[r] EXCEPT !.create = "mp3"]
  <1>0. writer[r] \in CallTable /\ published \in [Recordings -> 0..2] /\ RecordingInv(r)
    BY CallIsTyped DEF AudioInv
  <1>1. /\ running /\ writer[r].create = "none" /\ interrupted[r] = "no"
        /\ ~Races => \A q \in Passes : pass[q].step # "list"
        /\ Set(r, w) /\ files' = files /\ sessions' = sessions
        /\ published' = published /\ UNCHANGED <<appVars, scenario>>
    BY DEF Create, Races, May
  <1>2. /\ w \in CallTable /\ w.create = "mp3"
        /\ w.finalize = writer[r].finalize /\ w.abort = writer[r].abort
        /\ w.answer = writer[r].answer /\ w.open = writer[r].open
        /\ w.pending = writer[r].pending /\ w.failed = writer[r].failed
        /\ w.hasLog = writer[r].hasLog /\ w.renamed = writer[r].renamed
    BY <1>0 DEF CallTable
  <1> HIDE DEF w
  <1>3. CallsBecome(r, w)
    BY <1>0, <1>1, <1>2, CallSet
  <1>4. FilesBecome(r, Finals(r), Partials(r))
    BY <1>1, FilesStay DEF Names
  <1>5. CallSees(r, w, Finals(r), Partials(r))
    BY <1>3, <1>4, CallIsSeen
  <1>6. CallsInv(r)' /\ FreshInv(r)'
    BY <1>0, <1>1, <1>2, <1>5 DEF RecordingInv, CallSees, CallsInv, FreshInv
  <1>7. KeptInv(r)' /\ PcmInv(r)' /\ JsonInv(r)'
    BY <1>0, <1>1, <1>2, <1>5
       DEF RecordingInv, CallSees, CallsInv, KeptInv, PcmInv, JsonInv, Renaming
  <1>8. FilesInv(r)' /\ UndoInv(r)' /\ SafeInv(r)' /\ OwnedInv(r)'
    BY <1>0, <1>1, <1>2, <1>5
       DEF RecordingInv, CallSees, CallsInv, FilesInv, UndoInv, SafeInv, OwnedInv
  <1>9. Alone(r, w) /\ RecordingInv(r)'
    BY <1>1, <1>6, <1>7, <1>8 DEF Alone, RecordingInv
  <1> QED BY <1>3, <1>4, <1>9, CallKeeps

\* appendMp3(), appendPcm(), abort() and the ends of writes change neither the
\* files nor finalize(); the calls on r become w.
Quiet(r, w) ==
    /\ w \in CallTable /\ Set(r, w)
    /\ UNCHANGED <<files, published, appVars, scenario>>
    /\ w.create = writer[r].create /\ w.finalize = writer[r].finalize
    /\ w.answer = writer[r].answer /\ w.renamed = writer[r].renamed
    /\ w.hasLog = writer[r].hasLog
    /\ w.failed => writer[r].failed \/ (May({"disk"}) /\ writer[r].pending # 0)
    /\ writer[r].pending = 0 => w.pending = 0 \/ writer[r].finalize = "none"
    /\ \/ /\ sessions' = sessions
          /\ w.open = writer[r].open /\ w.abort = writer[r].abort
       \/ /\ r \in sessions /\ sessions' = sessions \ {r}
          /\ w.open = writer[r].open /\ w.abort = "drain"
          /\ writer[r].finalize = "none" \/ May({"disk"})
       \/ /\ sessions' = sessions /\ writer[r].abort = "drain"
          /\ ~w.open /\ w.abort = "done"

(* What is said of a recording withstands its quiet calls. *)
LEMMA QuietKeeps ==
  ASSUME FilesTypeOK, AudioTypeOK, AudioInv, NEW r \in Recordings, NEW w, Quiet(r, w)
  PROVE  AudioKeeps
  <1>0. writer[r] \in CallTable /\ published \in [Recordings -> 0..2] /\ RecordingInv(r)
    BY CallIsTyped DEF AudioInv
  <1>1. /\ published' = published /\ UNCHANGED <<appVars, scenario>>
        /\ w \in CallTable /\ Set(r, w) /\ files' = files
        /\ sessions' \in {sessions, sessions \ {r}, sessions \cup {r}}
    BY DEF Quiet
  <1>2. CallsBecome(r, w)
    BY <1>0, <1>1, CallSet
  <1>3. FilesBecome(r, Finals(r), Partials(r))
    BY <1>1, FilesStay DEF Names
  <1>4. CallSees(r, w, Finals(r), Partials(r))
    BY <1>2, <1>3, CallIsSeen
  <1>5. /\ FreshInv(r)' /\ KeptInv(r)' /\ PcmInv(r)' /\ JsonInv(r)' /\ UndoInv(r)'
        /\ AllKinds(r)' = AllKinds(r) /\ Made(r)' = Made(r)
    BY <1>0, <1>1, <1>4, SameFilesKeep DEF Quiet
  <1>6. CallsInv(r)' /\ OwnedInv(r)'
    BY <1>0, <1>4 DEF Quiet, RecordingInv, CallSees, CallsInv, OwnedInv, CallTable
  <1>7. FilesInv(r)'
    <2>1. /\ writer'[r] = w /\ Finals(r)' = Finals(r) /\ Partials(r)' = Partials(r)
          /\ (Races' <=> Races) /\ \A faults : May(faults)' <=> May(faults)
      BY <1>4 DEF CallSees
    <2>2. /\ w.create = writer[r].create /\ w.finalize = writer[r].finalize
          /\ w.answer = writer[r].answer /\ w.renamed = writer[r].renamed
      BY DEF Quiet
    <2>3. /\ writer[r].pending = 0 /\ ~writer[r].failed
          /\ writer[r].finalize # "none"
          => w.pending = 0 /\ ~w.failed
      BY DEF Quiet
    <2>4. writer[r].answer = "ok" => writer[r].finalize # "none"
      BY <1>0 DEF RecordingInv, CallsInv
    <2>5. FilesInv(r)
      BY <1>0 DEF RecordingInv
    <2> QED BY <1>5, <2>1, <2>2, <2>3, <2>4, <2>5 DEF FilesInv
  <1>8. SafeInv(r)'
    BY <1>0, <1>4 DEF Quiet, RecordingInv, CallSees, SafeInv, Races
  <1>9. Alone(r, w) /\ RecordingInv(r)'
    BY <1>1, <1>5, <1>6, <1>7, <1>8 DEF Quiet, Alone, RecordingInv
  <1> QED BY <1>2, <1>3, <1>9, CallKeeps

(* The quiet calls. *)
LEMMA QuietCallsKeep ==
  ASSUME FilesTypeOK, AudioTypeOK, AudioInv, NEW r \in Recordings, scenario' = scenario,
         Append(r) \/ WriteDone(r) \/ WriteFails(r) \/ Abort(r) \/ AbortCloses(r)
  PROVE  AudioKeeps
  <1>0. writer[r] \in CallTable /\ MaxPending \in Nat /\ writer[r].pending \in 0..MaxPending
    BY CallIsTyped, FilesAssumption DEF CallTable
  <1>1. ASSUME NEW v \in CallTable, StartAbort(r, v),
               UNCHANGED <<files, published, appVars, scenario>>,
               v.create = writer[r].create, v.finalize = writer[r].finalize,
               v.answer = writer[r].answer, v.renamed = writer[r].renamed,
               v.hasLog = writer[r].hasLog, v.open = writer[r].open,
               v.abort = writer[r].abort,
               v.failed => writer[r].failed \/ (May({"disk"}) /\ writer[r].pending # 0),
               writer[r].pending = 0 => v.pending = 0,
               writer[r].finalize = "none" \/ May({"disk"})
        PROVE  AudioKeeps
    <2>1. CASE r \in sessions
      <3> DEFINE w == [v EXCEPT !.abort = "drain"]
      <3>1. w \in CallTable /\ w.abort = "drain"
            /\ w.create = v.create /\ w.finalize = v.finalize
            /\ w.answer = v.answer /\ w.open = v.open
            /\ w.pending = v.pending /\ w.failed = v.failed
            /\ w.hasLog = v.hasLog /\ w.renamed = v.renamed
        BY DEF CallTable
      <3>2. Set(r, w) /\ sessions' = sessions \ {r}
        BY <1>1, <2>1 DEF StartAbort
      <3> HIDE DEF w
      <3>3. Quiet(r, w)
        BY <1>1, <2>1, <3>1, <3>2 DEF Quiet
      <3> QED BY <3>3, QuietKeeps
    <2>2. CASE r \notin sessions
      <3>1. Set(r, v) /\ sessions' = sessions
        BY <1>1, <2>2 DEF StartAbort
      <3>2. Quiet(r, v)
        BY <1>1, <3>1 DEF Quiet
      <3> QED BY <3>2, QuietKeeps
    <2> QED BY <2>1, <2>2
  <1>2. CASE (Append(r) /\ writer[r].pending = MaxPending) \/ Abort(r)
    <2>1. /\ StartAbort(r, writer[r]) /\ writer[r].finalize = "none"
          /\ UNCHANGED <<files, published, appVars, scenario>>
      BY <1>2 DEF Append, Abort
    <2> QED BY <1>0, <1>1, <2>1
  <1>3. CASE Append(r) /\ writer[r].pending # MaxPending
    <2> DEFINE w == [writer[r] EXCEPT !.pending = @ + 1]
    <2>1. /\ Set(r, w) /\ sessions' = sessions /\ writer[r].finalize = "none"
          /\ UNCHANGED <<files, published, appVars, scenario>>
      BY <1>3 DEF Append
    <2>2. writer[r].pending + 1 \in 0..MaxPending
      BY <1>0, <1>3
    <2>3. /\ w \in CallTable /\ w.abort = writer[r].abort
          /\ w.create = writer[r].create /\ w.finalize = writer[r].finalize
          /\ w.answer = writer[r].answer /\ w.open = writer[r].open
          /\ w.failed = writer[r].failed
          /\ w.hasLog = writer[r].hasLog /\ w.renamed = writer[r].renamed
      BY <1>0, <2>2 DEF CallTable
    <2> HIDE DEF w
    <2>4. Quiet(r, w)
      BY <2>1, <2>3 DEF Quiet
    <2> QED BY <2>4, QuietKeeps
  <1>4. CASE WriteDone(r)
    <2> DEFINE w == [writer[r] EXCEPT !.pending = @ - 1]
    <2>1. /\ Set(r, w) /\ sessions' = sessions /\ writer[r].pending > 0
          /\ UNCHANGED <<files, published, appVars, scenario>>
      BY <1>4 DEF WriteDone
    <2>2. writer[r].pending - 1 \in 0..MaxPending /\ writer[r].pending # 0
      BY <1>0, <2>1
    <2>3. /\ w \in CallTable /\ w.abort = writer[r].abort
          /\ w.create = writer[r].create /\ w.finalize = writer[r].finalize
          /\ w.answer = writer[r].answer /\ w.open = writer[r].open
          /\ w.failed = writer[r].failed
          /\ w.hasLog = writer[r].hasLog /\ w.renamed = writer[r].renamed
      BY <1>0, <2>2 DEF CallTable
    <2> HIDE DEF w
    <2>4. Quiet(r, w)
      BY <2>1, <2>2, <2>3 DEF Quiet
    <2> QED BY <2>4, QuietKeeps
  <1>5. CASE WriteFails(r)
    <2> DEFINE v == [writer[r] EXCEPT !.pending = 0, !.failed = TRUE]
    <2>1. /\ StartAbort(r, v) /\ May({"disk"}) /\ writer[r].pending # 0
          /\ UNCHANGED <<files, published, appVars, scenario>>
      BY <1>5 DEF WriteFails, May
    <2>2. 0 \in 0..MaxPending
      BY <1>0
    <2>3. /\ v \in CallTable /\ v.abort = writer[r].abort /\ v.pending = 0
          /\ v.create = writer[r].create /\ v.finalize = writer[r].finalize
          /\ v.answer = writer[r].answer /\ v.open = writer[r].open
          /\ v.hasLog = writer[r].hasLog /\ v.renamed = writer[r].renamed
      BY <1>0, <2>2 DEF CallTable
    <2> HIDE DEF v
    <2> QED BY <1>1, <2>1, <2>3
  <1>6. CASE AbortCloses(r)
    <2> DEFINE w == [writer[r] EXCEPT !.abort = "done", !.open = FALSE]
    <2>1. /\ Set(r, w) /\ sessions' = sessions /\ writer[r].abort = "drain"
          /\ UNCHANGED <<files, published, appVars, scenario>>
      BY <1>6 DEF AbortCloses
    <2>2. /\ w \in CallTable /\ w.abort = "done" /\ ~w.open
          /\ w.create = writer[r].create /\ w.finalize = writer[r].finalize
          /\ w.answer = writer[r].answer /\ w.pending = writer[r].pending
          /\ w.failed = writer[r].failed
          /\ w.hasLog = writer[r].hasLog /\ w.renamed = writer[r].renamed
      BY <1>0 DEF CallTable
    <2> HIDE DEF w
    <2>3. Quiet(r, w)
      BY <2>1, <2>2 DEF Quiet
    <2> QED BY <2>3, QuietKeeps
  <1> QED BY <1>2, <1>3, <1>4, <1>5, <1>6

\* A call on r leaves the calls w, the final files f and the partial files p.
CallStep(r, w, f, p) ==
    /\ w \in CallTable /\ Set(r, w)
    /\ UNCHANGED <<appVars, scenario>>
    /\ sessions' \in {sessions, sessions \ {r}, sessions \cup {r}}
    /\ published' \in [Recordings -> 0..2]
    /\ \A s \in Recordings \ {r} : published'[s] = published[s]
    /\ FilesBecome(r, f, p)

(* What remains to be shown of a call. *)
LEMMA CallStepKeeps ==
  ASSUME FilesTypeOK, AudioTypeOK, AudioInv, NEW r \in Recordings, NEW w,
         NEW f, NEW p, CallStep(r, w, f, p)
  PROVE  /\ CallSees(r, w, f, p) /\ w \in CallTable /\ writer[r] \in CallTable
         /\ RecordingInv(r) /\ published[r] \in 0..2
         /\ Alone(r, w) /\ RecordingInv(r)' => AudioKeeps
  <1>1. CallsBecome(r, w)
    BY CallSet DEF CallStep
  <1>2. FilesBecome(r, f, p) /\ w \in CallTable
    BY DEF CallStep
  <1>3. CallSees(r, w, f, p)
    BY <1>1, <1>2, CallIsSeen
  <1>4. writer[r] \in CallTable /\ RecordingInv(r) /\ published[r] \in 0..2
    BY CallIsTyped DEF AudioInv
  <1>5. Alone(r, w) /\ RecordingInv(r)' => AudioKeeps
    BY <1>1, <1>2, CallKeeps
  <1> QED BY <1>2, <1>3, <1>4, <1>5

(* As long as create() has not answered there are at most the files it
   made. *)
LEMMA FreshKeeps ==
  ASSUME FilesTypeOK, AudioTypeOK, AudioInv, NEW r \in Recordings, NEW w, NEW p,
         CallStep(r, w, {}, p), sessions' = sessions, published' = published,
         writer[r].create \in {"mp3", "pcm"}, p \subseteq {"mp3"},
         w.create \in {"none", "pcm"},
         w.create = "pcm" => p = {"mp3"}, w.create = "none" => p = {},
         w.finalize = "none", w.abort = "none", w.answer = "none", ~w.open,
         w.failed => writer[r].failed, w.renamed = {}
  PROVE  AudioKeeps
  <1>1. /\ CallSees(r, w, {}, p) /\ RecordingInv(r)
        /\ Alone(r, w) /\ RecordingInv(r)' => AudioKeeps
    BY CallStepKeeps
  <1>2. /\ running /\ interrupted[r] = "no" /\ r \notin sessions
        /\ published[r] = 0
        /\ \A q \in Passes : ~WorksOn(q, r) /\ ~HoldsPcm(q, r)
    BY <1>1 DEF RecordingInv, CallsInv, FreshInv, WorksOn, HoldsPcm
  <1>3. \A q \in Passes : ~(r \in pass[q].at /\ pass[q].step = "mp3")
    BY <1>2 DEF WorksOn
  <1>4. CallsInv(r)' /\ FreshInv(r)'
    <2>1. CallsInv(r)'
      BY <1>1, <1>2 DEF CallSees, CallsInv, Undoing
    <2>2. FreshInv(r)'
      BY <1>1, <1>2 DEF CallSees, FreshInv
    <2> QED BY <2>1, <2>2
  <1>5. KeptInv(r)' /\ OwnedInv(r)'
    BY <1>1, <1>2 DEF CallSees, KeptInv, OwnedInv
  <1>6. PcmInv(r)'
    BY <1>1, <1>2 DEF CallSees, PcmInv, Renaming
  <1>7. JsonInv(r)'
    BY <1>1, <1>3 DEF CallSees, JsonInv
  <1>8. FilesInv(r)' /\ UndoInv(r)'
    BY <1>1 DEF CallSees, FilesInv, UndoInv, Undoing
  <1>9. SafeInv(r)'
    BY <1>1 DEF RecordingInv, CallSees, SafeInv, Undoing
  <1>10. Alone(r, w)
    BY <1>2 DEF Alone
  <1> QED BY <1>1, <1>4, <1>5, <1>6, <1>7, <1>8, <1>9, <1>10 DEF RecordingInv

(* create() makes the MP3. *)
LEMMA CreateMp3Keeps ==
  ASSUME FilesTypeOK, AudioTypeOK, AudioInv, NEW r \in Recordings, CreateMp3(r),
         scenario' = scenario
  PROVE  AudioKeeps
  <1>0. /\ writer[r] \in CallTable /\ published \in [Recordings -> 0..2]
        /\ RecordingInv(r) /\ MaxPending \in Nat
    BY CallIsTyped, FilesAssumption DEF AudioInv
  <1>1. /\ writer[r].create = "mp3" /\ sessions' = sessions
        /\ published' = published /\ UNCHANGED <<appVars, scenario>>
    BY DEF CreateMp3
  <1>2. /\ Finals(r) = {} /\ Partials(r) = {}
        /\ writer[r].finalize = "none" /\ ~writer[r].open /\ writer[r].abort = "none"
        /\ writer[r].answer = "none" /\ writer[r].renamed = {}
    BY <1>0, <1>1 DEF RecordingInv, CallsInv, FreshInv
  <1>3. CASE AddFile(r, Partial("mp3")) /\ Set(r, [writer[r] EXCEPT !.create = "pcm"])
    <2> DEFINE w == [writer[r] EXCEPT !.create = "pcm"]
    <2>1. /\ w \in CallTable /\ Set(r, w) /\ w.create = "pcm"
          /\ w.finalize = "none" /\ w.abort = "none" /\ w.answer = "none"
          /\ ~w.open /\ w.failed = writer[r].failed /\ w.renamed = {}
      BY <1>0, <1>2, <1>3 DEF CallTable
    <2>2. FilesBecome(r, {}, {"mp3"})
      BY <1>2, <1>3, FileAdded DEF Names, Kinds
    <2> HIDE DEF w
    <2>3. CallStep(r, w, {}, {"mp3"})
      BY <1>0, <1>1, <2>1, <2>2 DEF CallStep
    <2> QED BY <1>1, <2>1, <2>3, FreshKeeps
  <1>4. CASE Set(r, NoCalls) /\ files' = files
    <2>1. FilesBecome(r, {}, {})
      BY <1>2, <1>4, FilesStay DEF Names
    <2>2. /\ NoCalls \in CallTable /\ NoCalls.create = "none"
          /\ NoCalls.finalize = "none" /\ NoCalls.abort = "none"
          /\ NoCalls.answer = "none" /\ ~NoCalls.open /\ ~NoCalls.failed
          /\ NoCalls.renamed = {}
      BY <1>0 DEF NoCalls, CallTable
    <2>3. CallStep(r, NoCalls, {}, {})
      BY <1>0, <1>1, <1>4, <2>1, <2>2 DEF CallStep
    <2> QED BY <1>1, <2>2, <2>3, FreshKeeps
  <1> QED BY <1>3, <1>4 DEF CreateMp3

(* create() makes the PCM and registers the session, or removes the MP3. *)
LEMMA CreatePcmKeeps ==
  ASSUME FilesTypeOK, AudioTypeOK, AudioInv, NEW r \in Recordings, CreatePcm(r),
         scenario' = scenario
  PROVE  AudioKeeps
  <1>0. /\ writer[r] \in CallTable /\ published \in [Recordings -> 0..2]
        /\ RecordingInv(r) /\ MaxPending \in Nat
    BY CallIsTyped, FilesAssumption DEF AudioInv
  <1>1. /\ writer[r].create = "pcm" /\ published' = published
        /\ UNCHANGED <<appVars, scenario>>
    BY DEF CreatePcm
  <1>2. /\ Finals(r) = {} /\ Partials(r) \subseteq {"mp3"}
        /\ writer[r].finalize = "none" /\ ~writer[r].open /\ writer[r].abort = "none"
        /\ writer[r].answer = "none" /\ writer[r].renamed = {}
        /\ running /\ interrupted[r] = "no" /\ published[r] = 0
        /\ \A q \in Passes : ~WorksOn(q, r)
        /\ ~May({"old"}) => "mp3" \in Partials(r)
    BY <1>0, <1>1 DEF RecordingInv, CallsInv, FreshInv, KeptInv
  <1>3. CASE /\ AddFile(r, Partial("pcm")) /\ sessions' = sessions \cup {r}
             /\ Set(r, [writer[r] EXCEPT !.create = "done", !.open = TRUE])
    <2> DEFINE w == [writer[r] EXCEPT !.create = "done", !.open = TRUE]
               p == Partials(r) \cup {"pcm"}
    <2>1. /\ w \in CallTable /\ Set(r, w) /\ w.create = "done"
          /\ w.finalize = "none" /\ w.abort = "none" /\ w.answer = "none"
          /\ w.open /\ w.failed = writer[r].failed /\ w.renamed = {}
      BY <1>0, <1>2, <1>3 DEF CallTable
    <2>2. FilesBecome(r, {}, p)
      BY <1>2, <1>3, FileAdded DEF Names, Kinds
    <2>3. p \subseteq {"mp3", "pcm"} /\ "pcm" \in p /\ (~May({"old"}) => "mp3" \in p)
      BY <1>2
    <2> HIDE DEF w, p
    <2>4. CallStep(r, w, {}, p)
      BY <1>0, <1>1, <1>3, <2>1, <2>2 DEF CallStep
    <2>5. /\ CallSees(r, w, {}, p)
          /\ Alone(r, w) /\ RecordingInv(r)' => AudioKeeps
      BY <2>4, CallStepKeeps
    <2>6. /\ \A q \in Passes : ~HoldsPcm(q, r)
          /\ \A q \in Passes : ~(r \in pass[q].at /\ pass[q].step = "mp3")
      BY <1>2 DEF WorksOn, HoldsPcm
    <2>7. CallsInv(r)' /\ FreshInv(r)' /\ KeptInv(r)' /\ OwnedInv(r)'
      BY <1>2, <1>3, <2>1, <2>3, <2>5
         DEF CallSees, CallsInv, FreshInv, KeptInv, OwnedInv, Undoing
    <2>8. PcmInv(r)' /\ JsonInv(r)'
      BY <1>1, <1>2, <2>1, <2>5, <2>6 DEF CallSees, PcmInv, JsonInv, Renaming
    <2>9. FilesInv(r)' /\ UndoInv(r)'
      BY <2>1, <2>3, <2>5 DEF CallSees, FilesInv, UndoInv, Made, Undoing
    <2>10. SafeInv(r)'
      BY <1>0, <2>1, <2>5 DEF RecordingInv, CallSees, SafeInv, Undoing
    <2>11. Alone(r, w)
      BY <1>1, <1>2 DEF Alone
    <2> QED BY <2>5, <2>7, <2>8, <2>9, <2>10, <2>11 DEF RecordingInv
  <1>4. CASE /\ RemoveFiles(r, {Partial("mp3")})
             /\ Set(r, NoCalls) /\ sessions' = sessions
    <2> DEFINE p == {k \in Partials(r) : Partial(k) \notin {Partial("mp3")}}
    <2>1. FilesBecome(r, {k \in {} : Final(k) \notin {Partial("mp3")}}, p)
      BY <1>2, <1>4, FilesRemoved DEF Names
    <2>2. {k \in {} : Final(k) \notin {Partial("mp3")}} = {} /\ p = {}
      BY <1>2
    <2>3. /\ NoCalls \in CallTable /\ NoCalls.create = "none"
          /\ NoCalls.finalize = "none" /\ NoCalls.abort = "none"
          /\ NoCalls.answer = "none" /\ ~NoCalls.open /\ ~NoCalls.failed
          /\ NoCalls.renamed = {}
      BY <1>0 DEF NoCalls, CallTable
    <2>4. CallStep(r, NoCalls, {}, {})
      BY <1>0, <1>1, <1>4, <2>1, <2>2, <2>3 DEF CallStep
    <2> QED BY <1>1, <1>4, <2>3, <2>4, FreshKeeps
  <1> QED BY <1>3, <1>4 DEF CreatePcm

(* finalize() goes on, as long as it has renamed nothing. *)
LEMMA AdvanceKeeps ==
  ASSUME FilesTypeOK, AudioTypeOK, AudioInv, NEW r \in Recordings, NEW w, NEW p,
         CallStep(r, w, Finals(r), p), sessions' = sessions, published' = published,
         writer[r].create = "done",
         writer[r].finalize \in {"none", "drain", "flush", "metadata", "log", "close"},
         Partials(r) \subseteq p, p \ Partials(r) \subseteq {"json", "log"},
         w.create = "done", w.answer = "none", w.renamed = {},
         w.finalize \in {"drain", "flush", "metadata", "log", "close", "publish"},
         w.finalize = "log" => w.hasLog, w.finalize = "publish" => ~w.open,
         FilesInv(r)', SafeInv(r)'
  PROVE  AudioKeeps
  <1>1. /\ CallSees(r, w, Finals(r), p) /\ RecordingInv(r)
        /\ Alone(r, w) /\ RecordingInv(r)' => AudioKeeps
    BY CallStepKeeps
  <1>2. running /\ interrupted[r] = "no" /\ writer[r].renamed = {}
    BY <1>1 DEF RecordingInv, CallsInv
  <1>3. CallsInv(r)'
    BY <1>1, <1>2 DEF CallSees, CallsInv, Undoing, Prefixes
  <1>4. FreshInv(r)' /\ KeptInv(r)' /\ OwnedInv(r)'
    BY <1>1, <1>2 DEF RecordingInv, CallSees, FreshInv, KeptInv, OwnedInv
  <1>5. PcmInv(r)'
    BY <1>1, <1>2 DEF RecordingInv, CallSees, PcmInv, Renaming
  <1>6. JsonInv(r)'
    BY <1>1, <1>2 DEF RecordingInv, CallSees, JsonInv
  <1>7. UndoInv(r)'
    BY <1>1 DEF CallSees, UndoInv, Undoing
  <1>8. Alone(r, w)
    BY <1>2 DEF Alone
  <1> QED BY <1>1, <1>3, <1>4, <1>5, <1>6, <1>7, <1>8 DEF RecordingInv

(* finalize() throws: it needs a fault, and after the rename of the metadata
   only a failing disk makes it throw while there is an MP3 to publish. *)
LEMMA ThrowsKeeps ==
  ASSUME FilesTypeOK, AudioTypeOK, AudioInv, NEW r \in Recordings, FinalizeThrows(r),
         UNCHANGED <<files, sessions, published, appVars, scenario>>,
         writer[r].finalize \in {"drain", "flush", "metadata", "log", "publish"},
         Races \/ May({"disk"}) \/ May({"old"}),
         "json" \in writer[r].renamed => May({"disk"}) \/ "mp3" \notin Partials(r)
  PROVE  AudioKeeps
  <1> DEFINE w == [writer[r] EXCEPT !.finalize = "undoPcm", !.open = FALSE]
  <1>0. writer[r] \in CallTable /\ published \in [Recordings -> 0..2]
    BY CallIsTyped
  <1>1. /\ w \in CallTable /\ Set(r, w) /\ w.finalize = "undoPcm" /\ ~w.open
        /\ w.create = writer[r].create /\ w.answer = writer[r].answer
        /\ w.failed = writer[r].failed /\ w.hasLog = writer[r].hasLog
        /\ w.renamed = writer[r].renamed
    BY <1>0 DEF CallTable, FinalizeThrows
  <1> HIDE DEF w
  <1>2. CallStep(r, w, Finals(r), Partials(r))
    BY <1>0, <1>1, FilesStay DEF CallStep, Names
  <1>3. /\ CallSees(r, w, Finals(r), Partials(r)) /\ RecordingInv(r)
        /\ Alone(r, w) /\ RecordingInv(r)' => AudioKeeps
    BY <1>2, CallStepKeeps
  <1>4. /\ running /\ interrupted[r] = "no" /\ writer[r].create = "done"
        /\ writer[r].answer = "none"
        /\ writer[r].renamed \in Prefixes(writer[r].hasLog)
        /\ writer[r].finalize # "publish" => writer[r].renamed = {}
    BY <1>3 DEF RecordingInv, CallsInv, Prefixes
  <1>5. CallsInv(r)'
    BY <1>1, <1>3, <1>4 DEF CallSees, CallsInv, Undoing
  <1>6. FreshInv(r)' /\ KeptInv(r)' /\ OwnedInv(r)'
    BY <1>1, <1>3, <1>4 DEF RecordingInv, CallSees, FreshInv, KeptInv, OwnedInv
  <1>7. Renaming(r)' <=> Renaming(r)
    BY <1>1, <1>3, <1>4 DEF CallSees, Renaming
  <1>8. PcmInv(r)'
    BY <1>1, <1>3, <1>7 DEF RecordingInv, CallSees, PcmInv
  <1>9. JsonInv(r)'
    <2>1. "json" \in writer[r].renamed => Renaming(r) /\ "mp3" \notin Finals(r)
      BY <1>3, <1>4 DEF RecordingInv, PcmInv, Renaming, Prefixes
    <2> QED BY <1>1, <1>3, <2>1 DEF RecordingInv, CallSees, JsonInv
  <1>10. FilesInv(r)'
    BY <1>1, <1>3, <1>4 DEF CallSees, FilesInv, Undoing
  <1>11. UndoInv(r)'
    <2>1. ~May({"old"}) => {"mp3", "pcm"} \subseteq Partials(r) \cup Finals(r)
      BY <1>3, <1>4 DEF RecordingInv, KeptInv
    <2>2. ~Races => /\ Finals(r) = writer[r].renamed
                    /\ Partials(r) \subseteq {"mp3", "pcm", "json", "log"}
      BY <1>3, <1>4 DEF RecordingInv, FilesInv, Made, AllKinds, Undoing
    <2> QED BY <1>1, <1>3, <1>4, <2>1, <2>2 DEF CallSees, UndoInv
  <1>12. SafeInv(r)'
    BY <1>1, <1>3, <1>4 DEF RecordingInv, CallSees, SafeInv
  <1>13. Alone(r, w)
    BY <1>4 DEF Alone
  <1> QED BY <1>3, <1>5, <1>6, <1>8, <1>9, <1>10, <1>11, <1>12, <1>13 DEF RecordingInv

(* finalize() begins, drains the queue and flushes the encoder. *)
LEMMA FinalizeBegins ==
  ASSUME FilesTypeOK, AudioTypeOK, AudioInv, NEW r \in Recordings, scenario' = scenario,
         \/ \E hasLog \in BOOLEAN : Finalize(r, hasLog)
         \/ FinalizeDrained(r) \/ FinalizeFlushed(r)
  PROVE  AudioKeeps
  <1>0. /\ writer[r] \in CallTable /\ published \in [Recordings -> 0..2] /\ RecordingInv(r)
    BY CallIsTyped DEF AudioInv
  <1>1. CASE \E hasLog \in BOOLEAN : Finalize(r, hasLog)
    <2>1. PICK hasLog \in BOOLEAN : Finalize(r, hasLog)
      BY <1>1
    <2> DEFINE w == [writer[r] EXCEPT !.finalize = "drain", !.hasLog = hasLog]
    <2>2. /\ r \in sessions /\ writer[r].finalize = "none" /\ Set(r, w)
          /\ UNCHANGED <<files, sessions, published, appVars>>
      BY <2>1 DEF Finalize, Live
    <2>3. /\ writer[r].create = "done" /\ writer[r].answer = "none"
          /\ writer[r].renamed = {} /\ writer[r].open /\ writer[r].abort = "none"
      BY <1>0, <2>2 DEF RecordingInv, CallsInv
    <2>4. /\ w \in CallTable /\ w.finalize = "drain" /\ w.create = "done"
          /\ w.answer = "none" /\ w.renamed = {} /\ w.open /\ w.abort = "none"
          /\ w.failed = writer[r].failed
      BY <1>0, <2>3 DEF CallTable
    <2> HIDE DEF w
    <2>5. CallStep(r, w, Finals(r), Partials(r))
      BY <1>0, <2>2, <2>4, FilesStay DEF CallStep, Names
    <2>6. CallSees(r, w, Finals(r), Partials(r))
      BY <2>5, CallStepKeeps
    <2>7. FilesInv(r)'
      BY <1>0, <2>2, <2>3, <2>4, <2>6 DEF RecordingInv, CallSees, FilesInv, Made, Undoing
    <2>8. SafeInv(r)'
      BY <1>0, <2>4, <2>6 DEF RecordingInv, CallSees, SafeInv, Undoing
    <2> QED BY <2>2, <2>3, <2>4, <2>5, <2>7, <2>8, AdvanceKeeps
  <1>2. CASE FinalizeDrained(r) \/ FinalizeFlushed(r)
    <2>1. /\ writer[r].finalize \in {"drain", "flush"}
          /\ writer[r].finalize = "drain" => writer[r].pending = 0
          /\ UNCHANGED <<files, sessions, published, appVars>>
      BY <1>2 DEF FinalizeDrained, FinalizeFlushed, FinalizeAt
    <2>2. /\ writer[r].create = "done" /\ writer[r].answer = "none"
          /\ writer[r].renamed = {}
      BY <1>0, <2>1 DEF RecordingInv, CallsInv
    <2>3. CASE /\ FinalizeThrows(r)
               /\ writer[r].finalize = "drain" => writer[r].failed
               /\ writer[r].finalize = "flush" => ~writer[r].open \/ May({"disk"})
      <3>1. Races \/ May({"disk"})
        BY <1>0, <2>1, <2>3 DEF RecordingInv, SafeInv
      <3> QED BY <2>1, <2>2, <2>3, <3>1, ThrowsKeeps
    <2>4. CASE \E next \in {"flush", "metadata"} :
                 /\ FinalizeGoes(r, next)
                 /\ next = "flush" => writer[r].finalize = "drain" /\ ~writer[r].failed
                 /\ next = "metadata" => writer[r].finalize = "flush"
      <3>1. PICK next \in {"flush", "metadata"} :
              /\ FinalizeGoes(r, next)
              /\ next = "flush" => writer[r].finalize = "drain" /\ ~writer[r].failed
              /\ next = "metadata" => writer[r].finalize = "flush"
        BY <2>4
      <3> DEFINE w == [writer[r] EXCEPT !.finalize = next]
      <3>2. /\ w \in CallTable /\ Set(r, w) /\ w.finalize = next /\ w.create = "done"
            /\ w.answer = "none" /\ w.renamed = {} /\ w.open = writer[r].open
            /\ w.abort = writer[r].abort /\ w.pending = writer[r].pending
            /\ w.failed = writer[r].failed /\ w.hasLog = writer[r].hasLog
        BY <1>0, <2>2, <3>1 DEF CallTable, FinalizeGoes
      <3> HIDE DEF w
      <3>3. CallStep(r, w, Finals(r), Partials(r))
        BY <1>0, <2>1, <3>2, FilesStay DEF CallStep, Names
      <3>4. CallSees(r, w, Finals(r), Partials(r))
        BY <3>3, CallStepKeeps
      <3>5. FilesInv(r)'
        <4>1. /\ writer'[r] = w /\ Finals(r)' = Finals(r) /\ Partials(r)' = Partials(r)
              /\ (Races' <=> Races) /\ \A faults : May(faults)' <=> May(faults)
          BY <3>4 DEF CallSees
        <4>2. Made(r) = {"mp3", "pcm"} /\ Made(r)' = {"mp3", "pcm"}
          BY <2>1, <3>1, <3>2, <4>1 DEF Made
        <4>3. ~Races => /\ Finals(r) = {} /\ Partials(r) \subseteq {"mp3", "pcm"}
                        /\ ~May({"old"}) => {"mp3", "pcm"} \subseteq Partials(r)
          BY <1>0, <2>1, <2>2, <4>2 DEF RecordingInv, FilesInv, Undoing
        <4>4. ~Races => w.pending = 0 /\ ~w.failed
          BY <1>0, <2>1, <2>2, <3>1, <3>2 DEF RecordingInv, FilesInv
        <4> QED BY <3>2, <4>1, <4>2, <4>3, <4>4 DEF FilesInv
      <3>6. SafeInv(r)'
        BY <1>0, <2>1, <3>1, <3>2, <3>4 DEF RecordingInv, CallSees, SafeInv, Undoing
      <3> QED BY <2>1, <2>2, <3>1, <3>2, <3>3, <3>5, <3>6, AdvanceKeeps
    <2>5. CASE FinalizeDrained(r)
      BY <2>3, <2>4, <2>5 DEF FinalizeDrained, FinalizeAt
    <2>6. CASE FinalizeFlushed(r)
      BY <2>3, <2>4, <2>6 DEF FinalizeFlushed, FinalizeAt, May
    <2> QED BY <1>2, <2>5, <2>6
  <1> QED BY <1>1, <1>2

(* finalize() writes the metadata and the speaker log. *)
LEMMA FinalizeWritesKeeps ==
  ASSUME FilesTypeOK, AudioTypeOK, AudioInv, NEW r \in Recordings, scenario' = scenario,
         FinalizeMetadata(r) \/ FinalizeLog(r)
  PROVE  AudioKeeps
  <1>0. /\ writer[r] \in CallTable /\ published \in [Recordings -> 0..2] /\ RecordingInv(r)
    BY CallIsTyped DEF AudioInv
  <1>1. PICK k \in {"json", "log"}, step \in {"metadata", "log"},
             next \in {"log", "close"} :
          /\ FinalizeWrites(r, step, k, next)
          /\ step = "metadata" <=> k = "json"
          /\ next = "log" <=> step = "metadata" /\ writer[r].hasLog
    BY DEF FinalizeMetadata, FinalizeLog
  <1>2. /\ writer[r].finalize = step
        /\ UNCHANGED <<sessions, published, appVars>>
    BY <1>1 DEF FinalizeWrites, FinalizeAt
  <1>3. /\ writer[r].create = "done" /\ writer[r].answer = "none"
        /\ writer[r].renamed = {} /\ (step = "log" => writer[r].hasLog)
    BY <1>0, <1>1, <1>2 DEF RecordingInv, CallsInv
  <1>4. Made(r) = IF step = "log" THEN {"mp3", "pcm", "json"} ELSE {"mp3", "pcm"}
    BY <1>2 DEF Made
  <1>5. ~Races => /\ Finals(r) = {} /\ Partials(r) \subseteq Made(r)
                  /\ ~May({"old"}) => Made(r) \subseteq Partials(r)
                  /\ writer[r].pending = 0 /\ ~writer[r].failed
    BY <1>0, <1>2, <1>3 DEF RecordingInv, FilesInv, Undoing
  <1>6. CASE AddFile(r, Partial(k)) /\ FinalizeGoes(r, next)
    <2> DEFINE w == [writer[r] EXCEPT !.finalize = next]
               p == Partials(r) \cup {k}
    <2>1. /\ w \in CallTable /\ Set(r, w) /\ w.finalize = next /\ w.create = "done"
          /\ w.answer = "none" /\ w.renamed = {} /\ w.pending = writer[r].pending
          /\ w.failed = writer[r].failed /\ w.hasLog = writer[r].hasLog
      BY <1>0, <1>3, <1>6 DEF CallTable, FinalizeGoes
    <2>2. FilesBecome(r, Finals(r), p)
      BY <1>6, FileAdded DEF Names, Kinds
    <2>3. Partials(r) \subseteq p /\ p \ Partials(r) \subseteq {"json", "log"}
      OBVIOUS
    <2>4. ~Races => p \subseteq Made(r) \cup {k}
                    /\ (~May({"old"}) => Made(r) \cup {k} \subseteq p)
      BY <1>5
    <2> HIDE DEF w, p
    <2>5. CallStep(r, w, Finals(r), p)
      BY <1>0, <1>2, <2>1, <2>2 DEF CallStep
    <2>6. CallSees(r, w, Finals(r), p)
      BY <2>5, CallStepKeeps
    <2>7. FilesInv(r)'
      <3>1. /\ writer'[r] = w /\ Finals(r)' = Finals(r) /\ Partials(r)' = p
            /\ (Races' <=> Races) /\ \A faults : May(faults)' <=> May(faults)
        BY <2>6 DEF CallSees
      <3>2. Made(r)' = Made(r) \cup {k}
        BY <1>1, <1>2, <1>3, <1>4, <2>1, <3>1 DEF Made, AllKinds
      <3> QED BY <1>5, <2>1, <2>4, <3>1, <3>2 DEF FilesInv
    <2>8. SafeInv(r)'
      BY <1>0, <2>1, <2>6 DEF RecordingInv, CallSees, SafeInv, Undoing
    <2> QED BY <1>1, <1>2, <1>3, <2>1, <2>3, <2>5, <2>7, <2>8, AdvanceKeeps
  <1>7. CASE /\ May({"disk"}) \/ k \in Partials(r)
             /\ FinalizeThrows(r) /\ files' = files
    <2>1. Races \/ May({"disk"})
      BY <1>1, <1>2, <1>4, <1>5, <1>7
    <2> QED BY <1>2, <1>3, <1>7, <2>1, ThrowsKeeps
  <1> QED BY <1>1, <1>6, <1>7 DEF FinalizeWrites, Partials, May, Kinds

(* finalize() closes the handles. *)
LEMMA FinalizeClosesKeeps ==
  ASSUME FilesTypeOK, AudioTypeOK, AudioInv, NEW r \in Recordings, scenario' = scenario,
         FinalizeCloses(r)
  PROVE  AudioKeeps
  <1> DEFINE w == [writer[r] EXCEPT !.finalize = "publish", !.open = FALSE]
  <1>0. /\ writer[r] \in CallTable /\ published \in [Recordings -> 0..2] /\ RecordingInv(r)
    BY CallIsTyped DEF AudioInv
  <1>1. /\ writer[r].finalize = "close" /\ Set(r, w)
        /\ UNCHANGED <<files, sessions, published, appVars>>
    BY DEF FinalizeCloses, FinalizeAt
  <1>2. writer[r].create = "done" /\ writer[r].answer = "none" /\ writer[r].renamed = {}
    BY <1>0, <1>1 DEF RecordingInv, CallsInv
  <1>3. /\ w \in CallTable /\ w.finalize = "publish" /\ w.create = "done"
        /\ w.answer = "none" /\ w.renamed = {} /\ ~w.open
        /\ w.pending = writer[r].pending /\ w.failed = writer[r].failed
        /\ w.hasLog = writer[r].hasLog
    BY <1>0, <1>2 DEF CallTable
  <1> HIDE DEF w
  <1>4. CallStep(r, w, Finals(r), Partials(r))
    BY <1>0, <1>1, <1>3, FilesStay DEF CallStep, Names
  <1>5. CallSees(r, w, Finals(r), Partials(r))
    BY <1>4, CallStepKeeps
  <1>6. FilesInv(r)'
    <2>1. /\ writer'[r] = w /\ Finals(r)' = Finals(r) /\ Partials(r)' = Partials(r)
          /\ (Races' <=> Races) /\ \A faults : May(faults)' <=> May(faults)
      BY <1>5 DEF CallSees
    <2>2. Made(r)' = Made(r)
      BY <1>1, <1>3, <2>1 DEF Made, AllKinds
    <2> QED BY <1>0, <1>1, <1>2, <1>3, <2>1, <2>2 DEF RecordingInv, FilesInv, Undoing
  <1>7. SafeInv(r)'
    BY <1>0, <1>3, <1>5 DEF RecordingInv, CallSees, SafeInv, Undoing
  <1> QED BY <1>1, <1>2, <1>3, <1>4, <1>6, <1>7, AdvanceKeeps

(* The renames come in the order of the code: the PCM first, the MP3 after
   the metadata. *)
LEMMA PublishIsOrdered ==
  ASSUME NEW r \in Recordings, writer[r].hasLog \in BOOLEAN,
         writer[r].renamed \in Prefixes(writer[r].hasLog)
  PROVE  /\ ToPublish(r) \in AllKinds(r) \ writer[r].renamed
         /\ ToPublish(r) # "mp3" =>
              writer[r].renamed \cup {ToPublish(r)} \in Prefixes(writer[r].hasLog)
         /\ ToPublish(r) = "mp3" =>
              writer[r].renamed = AllKinds(r) \ {"mp3"}
         /\ ToPublish(r) = "pcm" <=> writer[r].renamed = {}
         /\ "json" \in writer[r].renamed => ToPublish(r) = "mp3"
  <1> DEFINE order == PublishOrder(r)
             First(i) == /\ order[i] \notin writer[r].renamed
                         /\ \A j \in 1..(i - 1) : order[j] \in writer[r].renamed
  <1>1. ToPublish(r) = order[CHOOSE i \in DOMAIN order : First(i)]
    BY DEF ToPublish
  <1>2. ASSUME NEW n \in DOMAIN order, First(n), DOMAIN order \subseteq Nat,
               \A i \in DOMAIN order : First(i) => i = n
        PROVE  ToPublish(r) = order[n]
    <2> HIDE DEF First, order
    <2>1. (CHOOSE i \in DOMAIN order : First(i)) = n
      BY <1>2
    <2> QED BY <1>1, <2>1
  <1>3. CASE writer[r].hasLog
    <2>1. /\ order = <<"pcm", "log", "json", "mp3">> /\ DOMAIN order = 1..4
          /\ AllKinds(r) = {"mp3", "pcm", "json", "log"}
      BY <1>3 DEF PublishOrder, AllKinds
    <2>2. CASE writer[r].renamed = {}
      <3>1. First(1) /\ \A i \in DOMAIN order : First(i) => i = 1
        BY <2>1, <2>2
      <3>2. ToPublish(r) = "pcm"
        BY <1>2, <2>1, <3>1
      <3> QED BY <1>3, <2>1, <2>2, <3>2 DEF Prefixes
    <2>3. CASE writer[r].renamed = {"pcm"}
      <3>1. First(2) /\ \A i \in DOMAIN order : First(i) => i = 2
        BY <2>1, <2>3
      <3>2. ToPublish(r) = "log"
        BY <1>2, <2>1, <3>1
      <3> QED BY <1>3, <2>1, <2>3, <3>2 DEF Prefixes
    <2>4. CASE writer[r].renamed = {"pcm", "log"}
      <3>1. First(3) /\ \A i \in DOMAIN order : First(i) => i = 3
        BY <2>1, <2>4
      <3>2. ToPublish(r) = "json"
        BY <1>2, <2>1, <3>1
      <3> QED BY <1>3, <2>1, <2>4, <3>2 DEF Prefixes
    <2>5. CASE writer[r].renamed = {"pcm", "log", "json"}
      <3>1. First(4) /\ \A i \in DOMAIN order : First(i) => i = 4
        BY <2>1, <2>5
      <3>2. ToPublish(r) = "mp3"
        BY <1>2, <2>1, <3>1
      <3> QED BY <1>3, <2>1, <2>5, <3>2 DEF Prefixes
    <2> QED BY <1>3, <2>2, <2>3, <2>4, <2>5 DEF Prefixes
  <1>4. CASE ~writer[r].hasLog
    <2>1. /\ order = <<"pcm", "json", "mp3">> /\ DOMAIN order = 1..3
          /\ AllKinds(r) = {"mp3", "pcm", "json"}
      BY <1>4 DEF PublishOrder, AllKinds
    <2>2. CASE writer[r].renamed = {}
      <3>1. First(1) /\ \A i \in DOMAIN order : First(i) => i = 1
        BY <2>1, <2>2
      <3>2. ToPublish(r) = "pcm"
        BY <1>2, <2>1, <3>1
      <3> QED BY <1>4, <2>1, <2>2, <3>2 DEF Prefixes
    <2>3. CASE writer[r].renamed = {"pcm"}
      <3>1. First(2) /\ \A i \in DOMAIN order : First(i) => i = 2
        BY <2>1, <2>3
      <3>2. ToPublish(r) = "json"
        BY <1>2, <2>1, <3>1
      <3> QED BY <1>4, <2>1, <2>3, <3>2 DEF Prefixes
    <2>4. CASE writer[r].renamed = {"pcm", "json"}
      <3>1. First(3) /\ \A i \in DOMAIN order : First(i) => i = 3
        BY <2>1, <2>4
      <3>2. ToPublish(r) = "mp3"
        BY <1>2, <2>1, <3>1
      <3> QED BY <1>4, <2>1, <2>4, <3>2 DEF Prefixes
    <2> QED BY <1>4, <2>2, <2>3, <2>4 DEF Prefixes
  <1> QED BY <1>3, <1>4

(* finalize() renames the next file or throws. *)
LEMMA FinalizePublishesKeeps ==
  ASSUME FilesTypeOK, AudioTypeOK, AudioInv, NEW r \in Recordings, scenario' = scenario,
         FinalizePublishes(r)
  PROVE  AudioKeeps
  <1>0. /\ writer[r] \in CallTable /\ published \in [Recordings -> 0..2] /\ RecordingInv(r)
        /\ writer[r].hasLog \in BOOLEAN /\ published[r] \in 0..2
    BY CallIsTyped DEF AudioInv, CallTable
  <1>1. writer[r].finalize = "publish" /\ UNCHANGED appVars
    BY DEF FinalizePublishes, FinalizeAt
  <1>2. /\ writer[r].create = "done" /\ writer[r].answer = "none" /\ ~writer[r].open
        /\ writer[r].renamed \in Prefixes(writer[r].hasLog)
        /\ running /\ interrupted[r] = "no"
    BY <1>0, <1>1 DEF RecordingInv, CallsInv
  <1>3. PICK k : /\ k = ToPublish(r) /\ k \in AllKinds(r) \ writer[r].renamed
                 /\ k # "mp3" => writer[r].renamed \cup {k} \in Prefixes(writer[r].hasLog)
                 /\ k = "mp3" => writer[r].renamed = AllKinds(r) \ {"mp3"}
                 /\ k = "pcm" <=> writer[r].renamed = {}
                 /\ "json" \in writer[r].renamed => k = "mp3"
    BY <1>0, <1>2, PublishIsOrdered
  <1>4. /\ k \in Kinds /\ AllKinds(r) \subseteq {"mp3", "pcm", "json", "log"}
        /\ {"mp3", "pcm", "json"} \subseteq AllKinds(r)
        /\ writer[r].renamed # {} => "pcm" \in writer[r].renamed
    BY <1>2, <1>3 DEF AllKinds, Kinds, Prefixes
  <1>5. ~Races => /\ Finals(r) = writer[r].renamed
                  /\ Partials(r) \subseteq AllKinds(r) \ writer[r].renamed
                  /\ ~May({"old"}) => AllKinds(r) \ writer[r].renamed \subseteq Partials(r)
                  /\ writer[r].pending = 0 /\ ~writer[r].failed
    BY <1>0, <1>1, <1>2 DEF RecordingInv, FilesInv, Undoing, Made
  <1>6. ASSUME k \in Partials(r)
        PROVE  /\ "mp3" \notin Finals(r) /\ published[r] = 0
               /\ \A q \in Passes : ~HoldsPcm(q, r)
               /\ k # "pcm" => "pcm" \in Finals(r) \ Partials(r)
               /\ writer[r].renamed \subseteq Finals(r)
    <2>1. CASE k = "pcm"
      BY <1>0, <1>1, <1>6, <2>1 DEF RecordingInv, PcmInv
    <2>2. CASE k # "pcm"
      <3>1. Renaming(r)
        BY <1>1, <1>3, <1>4, <2>2 DEF Renaming
      <3> QED BY <1>0, <1>1, <3>1 DEF RecordingInv, PcmInv
    <2> QED BY <2>1, <2>2
  <1>7. CASE k \in Partials(r) /\ Rename(r, k) /\ k # "mp3"
             /\ Set(r, [writer[r] EXCEPT !.renamed = @ \cup {k}])
             /\ UNCHANGED <<sessions, published>>
    <2> DEFINE w == [writer[r] EXCEPT !.renamed = @ \cup {k}]
               f == Finals(r) \cup {k}
               p == Partials(r) \ {k}
    <2>1. /\ w \in CallTable /\ Set(r, w) /\ w.finalize = "publish" /\ w.create = "done"
          /\ w.answer = "none" /\ w.renamed = writer[r].renamed \cup {k} /\ ~w.open
          /\ w.abort = writer[r].abort /\ w.pending = writer[r].pending
          /\ w.failed = writer[r].failed /\ w.hasLog = writer[r].hasLog
      BY <1>0, <1>1, <1>2, <1>4, <1>7 DEF CallTable
    <2>2. FilesBecome(r, f, p)
      BY <1>4, <1>7, FileRenamed DEF Names
    <2>3. /\ "mp3" \notin f /\ "pcm" \in f \ p /\ writer[r].renamed \cup {k} \subseteq f
          /\ \A q \in Passes : ~HoldsPcm(q, r)
      BY <1>6, <1>7
    <2>4. p \cup f = Partials(r) \cup Finals(r)
      BY <1>7
    <2>5. ~Races => /\ f = writer[r].renamed \cup {k}
                    /\ p \subseteq AllKinds(r) \ (writer[r].renamed \cup {k})
                    /\ ~May({"old"}) =>
                         AllKinds(r) \ (writer[r].renamed \cup {k}) \subseteq p
      BY <1>5
    <2> HIDE DEF w, f, p
    <2>6. CallStep(r, w, f, p)
      BY <1>0, <1>1, <1>7, <2>1, <2>2 DEF CallStep
    <2>7. /\ CallSees(r, w, f, p) /\ (Alone(r, w) /\ RecordingInv(r)' => AudioKeeps)
      BY <2>6, CallStepKeeps
    <2>8. CallsInv(r)'
      BY <1>0, <1>2, <1>3, <1>7, <2>1, <2>7 DEF RecordingInv, CallSees, CallsInv, Undoing
    <2>9. FreshInv(r)' /\ OwnedInv(r)'
      BY <2>1, <2>7 DEF CallSees, FreshInv, OwnedInv
    <2>10. KeptInv(r)'
      BY <1>0, <1>2, <2>1, <2>4, <2>7 DEF RecordingInv, CallSees, KeptInv
    <2>11. PcmInv(r)'
      BY <1>6, <1>7, <2>1, <2>3, <2>7 DEF CallSees, PcmInv
    <2>12. JsonInv(r)'
      <3>1. \A q \in Passes : ~(r \in pass[q].at /\ pass[q].step = "mp3")
        BY <2>3 DEF HoldsPcm
      <3> QED BY <2>1, <2>3, <2>7, <3>1 DEF CallSees, JsonInv
    <2>13. FilesInv(r)'
      <3>1. /\ writer'[r] = w /\ Finals(r)' = f /\ Partials(r)' = p
            /\ (Races' <=> Races) /\ \A faults : May(faults)' <=> May(faults)
        BY <2>7 DEF CallSees
      <3>2. Made(r)' = AllKinds(r)
        BY <2>1, <3>1 DEF Made, AllKinds
      <3> QED BY <1>5, <2>1, <2>5, <3>1, <3>2 DEF FilesInv
    <2>14. UndoInv(r)' /\ SafeInv(r)'
      BY <1>0, <2>1, <2>7 DEF RecordingInv, CallSees, UndoInv, SafeInv, Undoing
    <2>15. Alone(r, w)
      BY <1>2 DEF Alone
    <2> QED BY <2>7, <2>8, <2>9, <2>10, <2>11, <2>12, <2>13, <2>14, <2>15 DEF RecordingInv
  <1>8. CASE k \in Partials(r) /\ Rename(r, k) /\ k = "mp3"
             /\ Set(r, [[writer[r] EXCEPT !.renamed = @ \cup {k}]
                           EXCEPT !.finalize = "done", !.answer = "ok"])
             /\ sessions' = sessions \ {r}
             /\ published' = [published EXCEPT ![r] = @ + 1]
    <2> DEFINE v == [writer[r] EXCEPT !.renamed = @ \cup {k}]
               w == [v EXCEPT !.finalize = "done", !.answer = "ok"]
               f == Finals(r) \cup {"mp3"}
               p == Partials(r) \ {"mp3"}
    <2>1. /\ v \in CallTable /\ v.create = "done" /\ ~v.open
          /\ v.abort = writer[r].abort /\ v.pending = writer[r].pending
          /\ v.failed = writer[r].failed /\ v.hasLog = writer[r].hasLog
      BY <1>0, <1>1, <1>2, <1>4 DEF CallTable
    <2>2. Set(r, w)
      BY <1>8
    <2> HIDE DEF v
    <2>3. /\ w \in CallTable /\ w.finalize = "done" /\ w.create = "done"
          /\ w.answer = "ok" /\ ~w.open
          /\ w.abort = writer[r].abort /\ w.pending = writer[r].pending
          /\ w.failed = writer[r].failed /\ w.hasLog = writer[r].hasLog
      BY <2>1 DEF CallTable
    <2>4. FilesBecome(r, f, p)
      BY <1>4, <1>8, FileRenamed DEF Names
    <2>5. published[r] = 0 /\ published'[r] = 1 /\ published' \in [Recordings -> 0..2]
          /\ \A s \in Recordings \ {r} : published'[s] = published[s]
      BY <1>0, <1>6, <1>8
    <2>6. /\ "mp3" \in f /\ "mp3" \notin p /\ "pcm" \in f \ p /\ "json" \in f
          /\ \A q \in Passes : ~HoldsPcm(q, r)
      BY <1>3, <1>4, <1>6, <1>8
    <2>7. p \cup f = Partials(r) \cup Finals(r)
      BY <1>8
    <2>8. ~Races => f = AllKinds(r) /\ p = {}
      BY <1>3, <1>4, <1>5, <1>8
    <2> HIDE DEF w, f, p
    <2>9. CallStep(r, w, f, p)
      BY <1>0, <1>1, <1>8, <2>2, <2>3, <2>4, <2>5 DEF CallStep
    <2>10. /\ CallSees(r, w, f, p) /\ (Alone(r, w) /\ RecordingInv(r)' => AudioKeeps)
      BY <2>9, CallStepKeeps
    <2>11. CallsInv(r)'
      BY <1>2, <1>8, <2>3, <2>10 DEF CallSees, CallsInv, Undoing
    <2>12. FreshInv(r)' /\ OwnedInv(r)'
      BY <2>3, <2>10 DEF CallSees, FreshInv, OwnedInv
    <2>13. KeptInv(r)'
      BY <1>0, <1>2, <2>3, <2>7, <2>10 DEF RecordingInv, CallSees, KeptInv
    <2>14. PcmInv(r)'
      BY <2>3, <2>5, <2>6, <2>10 DEF CallSees, PcmInv, Renaming
    <2>15. JsonInv(r)'
      BY <2>3, <2>6, <2>10 DEF CallSees, JsonInv
    <2>16. FilesInv(r)'
      <3>1. /\ writer'[r] = w /\ Finals(r)' = f /\ Partials(r)' = p
            /\ (Races' <=> Races) /\ \A faults : May(faults)' <=> May(faults)
        BY <2>10 DEF CallSees
      <3>2. AllKinds(r)' = AllKinds(r)
        BY <2>3, <3>1 DEF AllKinds
      <3> QED BY <1>5, <2>3, <2>8, <3>1, <3>2 DEF FilesInv
    <2>17. UndoInv(r)' /\ SafeInv(r)'
      BY <1>0, <2>3, <2>10 DEF RecordingInv, CallSees, UndoInv, SafeInv, Undoing
    <2>18. Alone(r, w)
      BY <1>2 DEF Alone
    <2> QED BY <2>10, <2>11, <2>12, <2>13, <2>14, <2>15, <2>16, <2>17, <2>18
            DEF RecordingInv
  <1>9. CASE /\ May({"disk"}) \/ k \notin Partials(r)
             /\ FinalizeThrows(r)
             /\ UNCHANGED <<files, sessions, published>>
    <2>1. Races \/ May({"disk"}) \/ May({"old"})
      BY <1>3, <1>5, <1>9
    <2>2. "json" \in writer[r].renamed => May({"disk"}) \/ "mp3" \notin Partials(r)
      BY <1>3, <1>9
    <2> QED BY <1>1, <1>9, <2>1, <2>2, ThrowsKeeps
  <1>10. k \in Partials(r) <=> Has(r, Partial(k))
    BY <1>4 DEF Partials
  <1> QED
    <2>1. \/ /\ Has(r, Partial(k)) /\ Rename(r, k)
             /\ IF k = "mp3"
                THEN /\ Set(r, [[writer[r] EXCEPT !.renamed = @ \cup {k}]
                                  EXCEPT !.finalize = "done", !.answer = "ok"])
                     /\ sessions' = sessions \ {r}
                     /\ published' = [published EXCEPT ![r] = @ + 1]
                ELSE /\ Set(r, [writer[r] EXCEPT !.renamed = @ \cup {k}])
                     /\ UNCHANGED <<sessions, published>>
          \/ /\ "disk" \in scenario.faults \/ ~Has(r, Partial(k))
             /\ FinalizeThrows(r) /\ UNCHANGED <<files, sessions, published>>
      BY <1>3, Zenon DEF FinalizePublishes
    <2> QED BY <1>7, <1>8, <1>9, <1>10, <2>1 DEF May

(* A step of the rollback, from which no recording loses its MP3 or its
   PCM. *)
LEMMA UndoKeeps ==
  ASSUME FilesTypeOK, AudioTypeOK, AudioInv, NEW r \in Recordings, NEW w, NEW f, NEW p,
         CallStep(r, w, f, p), published' = published,
         sessions' = sessions \/ (w.finalize = "done" /\ sessions' = sessions \ {r}),
         writer[r].finalize \in Undoing,
         w.finalize \in {"undoFinal", "undoPartial", "done"},
         w.answer = IF w.finalize = "done" THEN "error" ELSE "none",
         w.create = writer[r].create, ~w.open, w.failed = writer[r].failed,
         w.hasLog = writer[r].hasLog, w.renamed = writer[r].renamed,
         \A k \in {"mp3", "pcm"} :
            k \in Partials(r) \cup Finals(r) => k \in p \cup f,
         PcmInv(r)', JsonInv(r)', UndoInv(r)'
  PROVE  AudioKeeps
  <1>1. /\ CallSees(r, w, f, p) /\ RecordingInv(r)
        /\ Alone(r, w) /\ RecordingInv(r)' => AudioKeeps
    BY CallStepKeeps
  <1>2. /\ running /\ interrupted[r] = "no" /\ writer[r].create = "done"
        /\ writer[r].renamed \in Prefixes(writer[r].hasLog)
    BY <1>1 DEF RecordingInv, CallsInv, Undoing
  <1>3. CallsInv(r)'
    BY <1>1, <1>2 DEF CallSees, CallsInv, Undoing
  <1>4. FreshInv(r)' /\ OwnedInv(r)'
    BY <1>1, <1>2 DEF CallSees, FreshInv, OwnedInv
  <1>5. KeptInv(r)'
    BY <1>1, <1>2 DEF RecordingInv, CallSees, KeptInv
  <1>6. FilesInv(r)'
    BY <1>1, <1>2 DEF CallSees, FilesInv, Undoing
  <1>7. SafeInv(r)'
    BY <1>1 DEF RecordingInv, CallSees, SafeInv
  <1>8. Alone(r, w)
    BY <1>2 DEF Alone
  <1> QED BY <1>1, <1>3, <1>4, <1>5, <1>6, <1>7, <1>8 DEF RecordingInv

(* The rollback takes the PCM back. *)
LEMMA UndoPcmKeeps ==
  ASSUME FilesTypeOK, AudioTypeOK, AudioInv, NEW r \in Recordings, scenario' = scenario,
         UndoPcm(r)
  PROVE  AudioKeeps
  <1> DEFINE w == [writer[r] EXCEPT !.finalize = "undoFinal"]
  <1>0. /\ writer[r] \in CallTable /\ published \in [Recordings -> 0..2] /\ RecordingInv(r)
    BY CallIsTyped DEF AudioInv
  <1>1. /\ writer[r].finalize = "undoPcm" /\ Set(r, w)
        /\ UNCHANGED <<sessions, published, appVars>>
    BY DEF UndoPcm, FinalizeAt, FinalizeGoes
  <1>2. writer[r].create = "done" /\ writer[r].answer = "none" /\ ~writer[r].open
    BY <1>0, <1>1 DEF RecordingInv, CallsInv, Undoing
  <1>3. /\ w \in CallTable /\ w.finalize = "undoFinal" /\ w.answer = "none" /\ ~w.open
        /\ w.create = writer[r].create /\ w.failed = writer[r].failed
        /\ w.hasLog = writer[r].hasLog /\ w.renamed = writer[r].renamed
    BY <1>0, <1>2 DEF CallTable
  <1> HIDE DEF w
  <1>4. ~Races /\ ~(May({"disk"}) /\ May({"undo"})) /\ ~May({"old"}) => ~May({"undo"})
    BY <1>0, <1>1 DEF RecordingInv, SafeInv, Undoing
  <1>5. CASE RenameBack(r, "pcm") /\ "pcm" \in writer[r].renamed
    <2> DEFINE f == Finals(r) \ {"pcm"}
               p == Partials(r) \cup {"pcm"}
    <2>1. FilesBecome(r, f, p)
      BY <1>5, FileRenamedBack DEF Names, Kinds
    <2>2. "mp3" \notin Finals(r) /\ \A q \in Passes : ~HoldsPcm(q, r)
      BY <1>0, <1>1, <1>5 DEF RecordingInv, PcmInv, Renaming
    <2>3. /\ "mp3" \notin f /\ p \cup f = Partials(r) \cup Finals(r) \cup {"pcm"}
          /\ "json" \in f <=> "json" \in Finals(r)
          /\ "mp3" \in p <=> "mp3" \in Partials(r)
          /\ f = Finals(r) \ {"pcm"} /\ p \subseteq Partials(r) \cup {"pcm"}
      BY <2>2
    <2> HIDE DEF f, p
    <2>4. CallStep(r, w, f, p)
      BY <1>0, <1>1, <1>3, <2>1 DEF CallStep
    <2>5. CallSees(r, w, f, p)
      BY <2>4, CallStepKeeps
    <2>6. PcmInv(r)'
      BY <1>0, <1>1, <1>3, <2>2, <2>3, <2>5
         DEF RecordingInv, CallSees, PcmInv, Renaming
    <2>7. JsonInv(r)'
      BY <1>0, <1>1, <1>3, <2>3, <2>5 DEF RecordingInv, CallSees, JsonInv
    <2>8. UndoInv(r)'
      BY <1>0, <1>1, <1>3, <2>3, <2>5 DEF RecordingInv, CallSees, UndoInv, Undoing
    <2> QED BY <1>1, <1>3, <2>3, <2>4, <2>6, <2>7, <2>8, UndoKeeps DEF Undoing
  <1>6. CASE /\ files' = files
             /\ "pcm" \in writer[r].renamed /\ "pcm" \in Finals(r) => May({"undo"})
    <2>1. CallStep(r, w, Finals(r), Partials(r))
      BY <1>0, <1>1, <1>3, <1>6, FilesStay DEF CallStep, Names
    <2>2. CallSees(r, w, Finals(r), Partials(r))
      BY <2>1, CallStepKeeps
    <2>3. PcmInv(r)'
      BY <1>0, <1>1, <1>3, <2>2 DEF RecordingInv, CallSees, PcmInv, Renaming
    <2>4. JsonInv(r)'
      BY <1>0, <1>1, <1>3, <2>2 DEF RecordingInv, CallSees, JsonInv
    <2>5. UndoInv(r)'
      BY <1>0, <1>1, <1>3, <1>4, <1>6, <2>2 DEF RecordingInv, CallSees, UndoInv, Undoing
    <2> QED BY <1>1, <1>3, <2>1, <2>3, <2>4, <2>5, UndoKeeps DEF Undoing
  <1>7. "pcm" \in Finals(r) <=> Has(r, Final("pcm"))
    BY DEF Finals, Kinds
  <1> QED BY <1>5, <1>6, <1>7 DEF UndoPcm, May

(* The rollback removes what else it has renamed. *)
LEMMA UndoFinalKeeps ==
  ASSUME FilesTypeOK, AudioTypeOK, AudioInv, NEW r \in Recordings, scenario' = scenario,
         UndoFinal(r)
  PROVE  AudioKeeps
  <1> DEFINE w == [writer[r] EXCEPT !.finalize = "undoPartial"]
             gone == {Final(k) : k \in writer[r].renamed \ {"mp3", "pcm"}}
  <1>0. /\ writer[r] \in CallTable /\ published \in [Recordings -> 0..2] /\ RecordingInv(r)
    BY CallIsTyped DEF AudioInv
  <1>1. /\ writer[r].finalize = "undoFinal" /\ Set(r, w)
        /\ UNCHANGED <<sessions, published, appVars>>
    BY DEF UndoFinal, FinalizeAt, FinalizeGoes
  <1>2. /\ writer[r].create = "done" /\ writer[r].answer = "none" /\ ~writer[r].open
        /\ writer[r].renamed \in Prefixes(writer[r].hasLog)
    BY <1>0, <1>1 DEF RecordingInv, CallsInv, Undoing
  <1>3. /\ w \in CallTable /\ w.finalize = "undoPartial" /\ w.answer = "none" /\ ~w.open
        /\ w.create = writer[r].create /\ w.failed = writer[r].failed
        /\ w.hasLog = writer[r].hasLog /\ w.renamed = writer[r].renamed
    BY <1>0, <1>2 DEF CallTable
  <1>4. ~Races /\ ~(May({"disk"}) /\ May({"undo"})) /\ ~May({"old"}) => ~May({"undo"})
    BY <1>0, <1>1 DEF RecordingInv, SafeInv, Undoing
  <1>5. PICK f : /\ FilesBecome(r, f, Partials(r))
                 /\ \/ f = Finals(r) \ (writer[r].renamed \ {"mp3", "pcm"})
                    \/ f = Finals(r) /\ May({"undo"})
    <2>1. CASE RemoveFiles(r, gone)
      <3>1. /\ \A k \in Kinds : Partial(k) \notin gone
            /\ \A k \in Kinds : Final(k) \in gone <=> k \in writer[r].renamed \ {"mp3", "pcm"}
        BY <1>0, NamesDiffer DEF CallTable
      <3> HIDE DEF gone
      <3>2. FilesBecome(r, {k \in Finals(r) : Final(k) \notin gone},
                           {k \in Partials(r) : Partial(k) \notin gone})
        BY <2>1, FilesRemoved DEF Names
      <3>3. /\ {k \in Finals(r) : Final(k) \notin gone}
                 = Finals(r) \ (writer[r].renamed \ {"mp3", "pcm"})
            /\ {k \in Partials(r) : Partial(k) \notin gone} = Partials(r)
        BY <3>1 DEF Finals, Partials
      <3> QED BY <3>2, <3>3
    <2>2. CASE files' = files /\ May({"undo"})
      <3>1. FilesBecome(r, Finals(r), Partials(r))
        BY <2>2, FilesStay DEF Names
      <3> QED BY <2>2, <3>1
    <2> QED BY <2>1, <2>2 DEF UndoFinal, May
  <1> HIDE DEF w
  <1>6. CallStep(r, w, f, Partials(r))
    BY <1>0, <1>1, <1>3, <1>5 DEF CallStep
  <1>7. CallSees(r, w, f, Partials(r))
    BY <1>6, CallStepKeeps
  <1>8. /\ "mp3" \in f <=> "mp3" \in Finals(r)
        /\ "pcm" \in f <=> "pcm" \in Finals(r)
        /\ f \subseteq Finals(r)
        /\ "json" \in Finals(r) => "json" \in f \/ "json" \in writer[r].renamed
    BY <1>5
  <1>9. PcmInv(r)'
    BY <1>0, <1>1, <1>3, <1>7, <1>8 DEF RecordingInv, CallSees, PcmInv, Renaming
  <1>10. JsonInv(r)'
    <2>1. ~Races => \A q \in Passes : ~WorksOn(q, r)
      BY <1>2 DEF AudioInv, ApartInv
    <2>2. ~Races => \A q \in Passes : ~(r \in pass[q].at /\ pass[q].step = "mp3")
      BY <2>1 DEF WorksOn
    <2> QED BY <1>0, <1>1, <1>3, <1>7, <1>8, <2>2 DEF RecordingInv, CallSees, JsonInv
  <1>11. UndoInv(r)'
    <2>1. "mp3" \notin writer[r].renamed
      BY <1>2 DEF Prefixes
    <2> QED BY <1>0, <1>1, <1>3, <1>4, <1>5, <1>7, <1>8, <2>1
            DEF RecordingInv, CallSees, UndoInv, Undoing
  <1> QED BY <1>1, <1>3, <1>6, <1>8, <1>9, <1>10, <1>11, UndoKeeps DEF Undoing

(* The rollback ends and the handler aborts the session. *)
LEMMA UndoPartialKeeps ==
  ASSUME FilesTypeOK, AudioTypeOK, AudioInv, NEW r \in Recordings, scenario' = scenario,
         UndoPartial(r)
  PROVE  AudioKeeps
  <1> DEFINE v == [writer[r] EXCEPT !.finalize = "done", !.answer = "error"]
             w == IF r \in sessions THEN [v EXCEPT !.abort = "drain"] ELSE v
             gone == {Partial("json"), Partial("log")}
  <1>0. /\ writer[r] \in CallTable /\ published \in [Recordings -> 0..2] /\ RecordingInv(r)
    BY CallIsTyped DEF AudioInv
  <1>1. /\ writer[r].finalize = "undoPartial" /\ Set(r, w) /\ sessions' = sessions \ {r}
        /\ UNCHANGED <<published, appVars>>
    BY DEF UndoPartial, FinalizeAt, StartAbort
  <1>2. writer[r].create = "done" /\ ~writer[r].open
    BY <1>0, <1>1 DEF RecordingInv, CallsInv, Undoing
  <1>3. /\ v \in CallTable /\ v.finalize = "done" /\ v.answer = "error" /\ ~v.open
        /\ v.create = writer[r].create /\ v.failed = writer[r].failed
        /\ v.hasLog = writer[r].hasLog /\ v.renamed = writer[r].renamed
    BY <1>0, <1>2 DEF CallTable
  <1> HIDE DEF v
  <1>4. /\ w \in CallTable /\ w.finalize = "done" /\ w.answer = "error" /\ ~w.open
        /\ w.create = writer[r].create /\ w.failed = writer[r].failed
        /\ w.hasLog = writer[r].hasLog /\ w.renamed = writer[r].renamed
    <2>1. CASE r \in sessions
      BY <1>3, <2>1 DEF CallTable
    <2>2. CASE r \notin sessions
      BY <1>3, <2>2
    <2> QED BY <2>1, <2>2
  <1> HIDE DEF w
  <1>5. ~Races /\ ~(May({"disk"}) /\ May({"undo"})) /\ ~May({"old"}) => ~May({"undo"})
    BY <1>0, <1>1 DEF RecordingInv, SafeInv, Undoing
  <1>6. PICK p : /\ FilesBecome(r, Finals(r), p)
                 /\ p = Partials(r) \ {"json", "log"} \/ (p = Partials(r) /\ May({"undo"}))
    <2>1. CASE RemoveFiles(r, gone)
      <3>1. /\ \A k \in Kinds : Final(k) \notin gone
            /\ \A k \in Kinds : Partial(k) \in gone <=> k \in {"json", "log"}
        BY NamesDiffer DEF Kinds
      <3> HIDE DEF gone
      <3>2. FilesBecome(r, {k \in Finals(r) : Final(k) \notin gone},
                           {k \in Partials(r) : Partial(k) \notin gone})
        BY <2>1, FilesRemoved DEF Names
      <3>3. /\ {k \in Finals(r) : Final(k) \notin gone} = Finals(r)
            /\ {k \in Partials(r) : Partial(k) \notin gone} = Partials(r) \ {"json", "log"}
        BY <3>1 DEF Finals, Partials
      <3> QED BY <3>2, <3>3
    <2>2. CASE files' = files /\ May({"undo"})
      <3>1. FilesBecome(r, Finals(r), Partials(r))
        BY <2>2, FilesStay DEF Names
      <3> QED BY <2>2, <3>1
    <2> QED BY <2>1, <2>2 DEF UndoPartial, May
  <1>7. CallStep(r, w, Finals(r), p)
    BY <1>0, <1>1, <1>4, <1>6 DEF CallStep
  <1>8. CallSees(r, w, Finals(r), p)
    BY <1>7, CallStepKeeps
  <1>9. /\ "mp3" \in p <=> "mp3" \in Partials(r)
        /\ "pcm" \in p <=> "pcm" \in Partials(r)
        /\ p \subseteq Partials(r)
    BY <1>6
  <1>10. PcmInv(r)'
    BY <1>0, <1>1, <1>4, <1>8, <1>9 DEF RecordingInv, CallSees, PcmInv, Renaming
  <1>11. JsonInv(r)'
    BY <1>0, <1>1, <1>4, <1>8, <1>9 DEF RecordingInv, CallSees, JsonInv
  <1>12. UndoInv(r)'
    BY <1>0, <1>1, <1>4, <1>5, <1>6, <1>8, <1>9
       DEF RecordingInv, CallSees, UndoInv, Undoing
  <1> QED BY <1>1, <1>4, <1>7, <1>9, <1>10, <1>11, <1>12, UndoKeeps DEF Undoing

-------------------------------------------------------------------------------
(* The recovery passes. *)

PassTable ==
    [step : {"unused", "list", "next", "stat", "metadata", "pcm", "json",
             "mp3", "catch", "done", "failed"},
     active : SUBSET Recordings, todo : SUBSET Recordings, at : SUBSET Recordings]

\* A step of the pass p.
PassMoves(p) ==
    /\ pass' \in [Passes -> PassTable]
    /\ \A q \in Passes \ {p} : pass'[q] = pass[q]
    /\ UNCHANGED <<PassVars, scenario>>

(* A pass moves to another step. *)
LEMMA PassGoesOn ==
  ASSUME AudioTypeOK, NEW p \in Passes, NEW step, PassGoes(p, step),
         step \in {"next", "metadata", "pcm", "json", "mp3", "catch", "done", "failed"},
         UNCHANGED <<PassVars, scenario>>
  PROVE  /\ PassMoves(p) /\ pass'[p].step = step
         /\ pass'[p].active = pass[p].active /\ pass'[p].todo = pass[p].todo
         /\ pass'[p].at = pass[p].at
  <1>1. pass \in [Passes -> PassTable] /\ pass[p] \in PassTable
    BY DEF AudioTypeOK, PassTable
  <1> DEFINE x == [pass[p] EXCEPT !.step = step]
  <1>2. /\ x \in PassTable /\ x.step = step /\ x.active = pass[p].active
        /\ x.todo = pass[p].todo /\ x.at = pass[p].at
    BY <1>1 DEF PassTable
  <1>3. pass' = [pass EXCEPT ![p] = x]
    BY DEF PassGoes
  <1> HIDE DEF x
  <1> QED BY <1>1, <1>2, <1>3 DEF PassMoves

(* What is said of a recording a pass does not touch. *)
LEMMA PassLeaves ==
  ASSUME UNCHANGED <<writer, sessions, interrupted, scenario>>, running => running',
         NEW s \in Recordings, files'[s] = files[s], published'[s] = published[s], RecordingInv(s),
         writer[s].create # "done" /\ interrupted[s] = "no" =>
            \A q \in Passes : ~WorksOn(q, s)',
         \A q \in Passes : HoldsPcm(q, s)' => HoldsPcm(q, s),
         \A q \in Passes : s \in pass'[q].at /\ pass'[q].step = "mp3" =>
            s \in pass[q].at /\ pass[q].step = "mp3"
  PROVE  RecordingInv(s)'
  <1>1. /\ writer' = writer /\ sessions' = sessions /\ interrupted' = interrupted
        /\ scenario' = scenario
    OBVIOUS
  <1>2. Finals(s)' = Finals(s) /\ Partials(s)' = Partials(s)
    BY DEF Finals, Partials, Has
  <1>3. (Races' <=> Races) /\ \A faults : May(faults)' <=> May(faults)
    BY <1>1 DEF Races, May
  <1>4. CallsInv(s)' /\ OwnedInv(s)' /\ SafeInv(s)'
    BY <1>1, <1>3 DEF RecordingInv, CallsInv, OwnedInv, SafeInv
  <1>5. FreshInv(s)' /\ KeptInv(s)'
    BY <1>1, <1>2, <1>3 DEF RecordingInv, FreshInv, KeptInv
  <1>6. PcmInv(s)'
    BY <1>1, <1>2 DEF RecordingInv, PcmInv, Renaming
  <1>7. JsonInv(s)'
    BY <1>1, <1>2, <1>3 DEF RecordingInv, JsonInv
  <1>8. FilesInv(s)' /\ UndoInv(s)'
    BY <1>1, <1>2, <1>3 DEF RecordingInv, FilesInv, UndoInv, Made, AllKinds
  <1> QED BY <1>4, <1>5, <1>6, <1>7, <1>8 DEF RecordingInv

(* A pass at work on one recording. *)
LEMMA PassWorks ==
  ASSUME FilesTypeOK, AudioTypeOK, AudioInv, NEW p \in Passes, NEW r \in Recordings,
         NEW f, NEW g, PassMoves(p), FilesBecome(r, f, g), WorksOn(p, r),
         pass'[p].at = pass[p].at, pass'[p].todo = pass[p].todo,
         pass'[p].step \notin {"unused", "list", "done"},
         published' \in [Recordings -> 0..2],
         \A s \in Recordings \ {r} : published'[s] = published[s],
         \A k \in {"mp3", "pcm"} :
            k \in Partials(r) \cup Finals(r) => k \in f \cup g,
         PcmInv(r)', JsonInv(r)',
         ~Races /\ ~May({"disk", "old"}) /\ interrupted[r] = "recording" =>
            Recovering(r)'
  PROVE  AudioKeeps
  <1>1. /\ writer' = writer /\ sessions' = sessions /\ interrupted' = interrupted
        /\ scenario' = scenario /\ running' = running /\ window' = window
        /\ dead' = dead /\ reapable' = reapable /\ crashes' = crashes
        /\ UNCHANGED <<PassVars, scenario>>
        /\ pass' \in [Passes -> PassTable]
        /\ \A q \in Passes \ {p} : pass'[q] = pass[q]
    BY DEF PassMoves, PassVars, lifeVars
  <1>2. /\ files' \in [Names -> SUBSET FileNames]
        /\ \A s \in Names \ {r} : files'[s] = files[s]
        /\ Finals(r)' = f /\ Partials(r)' = g
    BY DEF FilesBecome
  <1>3. (Races' <=> Races) /\ \A faults : May(faults)' <=> May(faults)
    BY <1>1 DEF Races, May
  <1>4. /\ r \in pass[p].at /\ \A s \in pass[p].at : s = r
        /\ pass[p].step \in {"stat", "metadata", "pcm", "json", "mp3", "catch"}
        /\ RecordingInv(r)
    BY DEF WorksOn, AudioInv, PassInv
  <1>5. FilesTypeOK' /\ AudioTypeOK'
    <2>1. FilesTypeOK'
      BY <1>1, <1>2 DEF FilesTypeOK, Names
    <2>2. AudioTypeOK'
      BY <1>1 DEF AudioTypeOK, PassTable
    <2> QED BY <2>1, <2>2
  <1>6. \A v \in Videos : files'[v] = files[v]
    BY <1>2, FilesAssumption DEF Names
  <1>7. ASSUME NEW s \in Recordings \ {r} PROVE RecordingInv(s)'
    <2>1. files'[s] = files[s]
      BY <1>2 DEF Names
    <2>2. \A q \in Passes : s \in pass'[q].at => s \in pass[q].at /\ pass'[q] = pass[q]
      BY <1>1, <1>4
    <2>3. /\ \A q \in Passes : WorksOn(q, s)' => WorksOn(q, s)
          /\ \A q \in Passes : HoldsPcm(q, s)' => HoldsPcm(q, s)
          /\ \A q \in Passes : s \in pass'[q].at /\ pass'[q].step = "mp3" =>
               s \in pass[q].at /\ pass[q].step = "mp3"
      BY <2>2 DEF WorksOn, HoldsPcm
    <2>4. RecordingInv(s)
      BY DEF AudioInv
    <2>5. writer[s].create # "done" /\ interrupted[s] = "no" =>
            \A q \in Passes : ~WorksOn(q, s)'
      BY <2>3, <2>4 DEF RecordingInv, FreshInv
    <2> QED BY <1>1, <2>1, <2>3, <2>4, <2>5, PassLeaves
  <1>8. ~Races => /\ writer[r].create = "none" /\ writer[r].finalize = "none"
                  /\ writer[r].answer = "none"
    BY <1>4 DEF AudioInv, ApartInv, RecordingInv, CallsInv
  <1>9. writer[r].create = "done" \/ interrupted[r] # "no"
    BY <1>4 DEF RecordingInv, FreshInv
  <1>10. CallsInv(r)' /\ OwnedInv(r)' /\ SafeInv(r)'
    BY <1>1, <1>3, <1>4 DEF RecordingInv, CallsInv, OwnedInv, SafeInv
  <1>11. FreshInv(r)' /\ KeptInv(r)'
    BY <1>1, <1>2, <1>3, <1>4, <1>9 DEF RecordingInv, FreshInv, KeptInv
  <1>12. FilesInv(r)' /\ UndoInv(r)'
    BY <1>1, <1>3, <1>8 DEF FilesInv, UndoInv, Undoing
  <1>13. \A s \in Recordings : RecordingInv(s)'
    BY <1>7, <1>10, <1>11, <1>12 DEF RecordingInv
  <1>14. /\ \A q \in Passes, s \in Recordings : WorksOn(q, s)' => WorksOn(q, s)
         /\ \A q \in Passes, s \in Recordings : Lists(q, s)' => Lists(q, s)
    <2>1. \A s \in Recordings : WorksOn(p, s)' => WorksOn(p, s)
      BY <1>4 DEF WorksOn
    <2>2. \A s \in Recordings : Lists(p, s)' => Lists(p, s)
      BY <1>4 DEF Lists, PassActive
    <2>3. \A q \in Passes \ {p}, s \in Recordings :
            (WorksOn(q, s)' => WorksOn(q, s)) /\ (Lists(q, s)' => Lists(q, s))
      BY <1>1 DEF WorksOn, Lists
    <2> QED BY <2>1, <2>2, <2>3
  <1>15. ApartInv'
    <2> SUFFICES ASSUME ~Races
                 PROVE  /\ running => window
                        /\ \A q \in Passes : pass'[q].step = "list" =>
                             \A s \in Recordings : writer[s].create = "none"
                        /\ \A q \in Passes, s \in Recordings :
                             WorksOn(q, s)' \/ Lists(q, s)' =>
                               writer[s].create = "none" /\ interrupted[s] # "no"
      BY <1>1, <1>3 DEF ApartInv
    <2>1. \A q \in Passes : pass'[q].step = "list" => pass[q].step = "list"
      BY <1>1
    <2> QED BY <1>14, <2>1 DEF AudioInv, ApartInv
  <1>16. PassInv' /\ ReaperInv'
    <2>1. PassInv'
      BY <1>1 DEF AudioInv, PassInv
    <2>2. ReaperInv'
      BY <1>1, <1>3 DEF AudioInv, ReaperInv
    <2> QED BY <2>1, <2>2
  <1>17. RecoveryInv'
    <2> SUFFICES ASSUME ~Races, ~May({"disk", "old"})
                 PROVE
        /\ \A q \in Passes :
             /\ pass'[q].step \notin {"unused", "failed"} =>
                  running /\ \A o \in Passes :
                    pass'[o].step \notin {"unused", "failed"} => o = q
             /\ pass'[q].step = "list" => pass'[q].active = {}
             /\ pass'[q].step = "done" => pass'[q].todo = {}
        /\ \A s \in Recordings : interrupted[s] = "recording" => Recovering(s)'
      BY <1>1, <1>3 DEF RecoveryInv
    <2>1. \A q \in Passes :
            /\ pass[q].step \notin {"unused", "failed"} =>
                 running /\ \A o \in Passes :
                   pass[o].step \notin {"unused", "failed"} => o = q
            /\ pass[q].step = "list" => pass[q].active = {}
            /\ pass[q].step = "done" => pass[q].todo = {}
      BY DEF AudioInv, RecoveryInv
    <2>2. \A q \in Passes :
            /\ pass'[q].step \notin {"unused", "failed"} =>
                 pass[q].step \notin {"unused", "failed"}
            /\ pass'[q].step \in {"list", "done"} => pass'[q] = pass[q]
      BY <1>1, <1>4
    <2>3. ASSUME NEW s \in Recordings, interrupted[s] = "recording" PROVE Recovering(s)'
      <3>1. CASE s = r
        BY <2>3, <3>1
      <3>2. CASE s # r
        <4>1. Finals(s)' = Finals(s) /\ Partials(s)' = Partials(s)
          BY <1>2, <3>2 DEF Names, Finals, Partials, Has
        <4>2. s \notin pass[p].at /\ s \notin pass'[p].at
          BY <1>4, <3>2
        <4>3. Recovering(s)
          BY <2>3 DEF AudioInv, RecoveryInv
        <4>4. \A q \in Passes \ {p} : Lists(q, s)' <=> Lists(q, s)
          BY <1>1 DEF Lists
        <4>5. Lists(p, s) => Lists(p, s)' \/ pass'[p].step = "failed"
          BY <1>1, <1>4 DEF Lists, PassActive, PassTable
        <4> QED BY <1>1, <1>4, <4>1, <4>2, <4>3, <4>4, <4>5 DEF Recovering
      <3> QED BY <3>1, <3>2
    <2> QED BY <2>1, <2>2, <2>3
  <1> QED BY <1>5, <1>6, <1>13, <1>15, <1>16, <1>17 DEF AudioKeeps, AudioInv

(* A step of a pass that changes no file. *)
LEMMA PassLooks ==
  ASSUME FilesTypeOK, AudioTypeOK, AudioInv, NEW p \in Passes, PassMoves(p),
         files' = files, published' = published,
         \A s \in Recordings : WorksOn(p, s)' =>
            WorksOn(p, s) \/ writer[s].create = "done" \/ interrupted[s] # "no",
         pass'[p].step \notin {"json", "mp3"},
         ApartInv', PassInv', RecoveryInv'
  PROVE  AudioKeeps
  <1>1. /\ writer' = writer /\ sessions' = sessions /\ interrupted' = interrupted
        /\ scenario' = scenario /\ running' = running /\ window' = window
        /\ dead' = dead /\ reapable' = reapable /\ crashes' = crashes
        /\ UNCHANGED <<PassVars, scenario>>
        /\ pass' \in [Passes -> PassTable]
        /\ \A q \in Passes \ {p} : pass'[q] = pass[q]
    BY DEF PassMoves, PassVars, lifeVars
  <1>2. FilesTypeOK' /\ AudioTypeOK'
    <2>1. FilesTypeOK'
      BY <1>1 DEF FilesTypeOK
    <2>2. AudioTypeOK'
      BY <1>1 DEF AudioTypeOK, PassTable
    <2> QED BY <2>1, <2>2
  <1>3. ASSUME NEW s \in Recordings PROVE RecordingInv(s)'
    <2>1. RecordingInv(s)
      BY DEF AudioInv
    <2>2. \A q \in Passes \ {p} : WorksOn(q, s)' <=> WorksOn(q, s)
      BY <1>1 DEF WorksOn
    <2>3. writer[s].create # "done" /\ interrupted[s] = "no" =>
            \A q \in Passes : ~WorksOn(q, s)'
      BY <2>1, <2>2 DEF RecordingInv, FreshInv
    <2>4. \A q \in Passes : HoldsPcm(q, s)' => HoldsPcm(q, s)
      BY <1>1 DEF HoldsPcm
    <2>5. \A q \in Passes : s \in pass'[q].at /\ pass'[q].step = "mp3" =>
            s \in pass[q].at /\ pass[q].step = "mp3"
      BY <1>1
    <2> QED BY <1>1, <2>1, <2>3, <2>4, <2>5, PassLeaves
  <1>4. ReaperInv'
    BY <1>1 DEF AudioInv, ReaperInv, May
  <1> QED BY <1>2, <1>3, <1>4 DEF AudioKeeps, AudioInv

\* What is known of the passes when windows do not overlap.
PassFacts(p) ==
    ~Races /\ ~May({"disk", "old"}) =>
        /\ running /\ \A q \in Passes :
             pass[q].step \notin {"unused", "failed"} => q = p
        /\ \A q \in Passes \ {p} : pass[q].step \in {"unused", "failed"}
        /\ pass[p].step = "list" => pass[p].active = {}

(* While a pass is at work no other one is. *)
LEMMA PassIsAlone ==
  ASSUME AudioInv, NEW p \in Passes, pass[p].step \notin {"unused", "failed"}
  PROVE  PassFacts(p)
  BY DEF AudioInv, RecoveryInv, PassFacts

(* A pass lists the partial files. *)
LEMMA PassListsKeeps ==
  ASSUME FilesTypeOK, AudioTypeOK, AudioInv, NEW p \in Passes, PassLists(p),
         scenario' = scenario
  PROVE  AudioKeeps
  <1> DEFINE found == {r \in Recordings \ pass[p].active : Has(r, Partial("mp3"))}
             x == [pass[p] EXCEPT !.step = "next", !.todo = found]
  <1>1. /\ pass[p].step = "list" /\ UNCHANGED <<files, published, PassVars, scenario>>
        /\ pass' = [pass EXCEPT ![p] = x]
    BY DEF PassLists, PassAt
  <1>2. pass \in [Passes -> PassTable] /\ pass[p] \in PassTable
    BY DEF AudioTypeOK, PassTable
  <1>3. found \subseteq Recordings
    OBVIOUS
  <1>4. \A r \in Recordings : r \in found <=>
          r \notin pass[p].active /\ "mp3" \in Partials(r)
    BY DEF Partials, Kinds
  <1> HIDE DEF found
  <1>5. /\ x \in PassTable /\ x.step = "next" /\ x.todo = found
        /\ x.active = pass[p].active /\ x.at = pass[p].at
    BY <1>2, <1>3 DEF PassTable
  <1> HIDE DEF x
  <1>6. /\ PassMoves(p) /\ pass'[p] = x /\ \A q \in Passes \ {p} : pass'[q] = pass[q]
    BY <1>1, <1>2, <1>5 DEF PassMoves
  <1>7. pass[p].at = {}
    BY <1>1 DEF AudioInv, PassInv
  <1>8. /\ writer' = writer /\ interrupted' = interrupted /\ running' = running
        /\ window' = window /\ (Races' <=> Races)
        /\ \A faults : May(faults)' <=> May(faults)
        /\ \A s \in Recordings : Finals(s)' = Finals(s) /\ Partials(s)' = Partials(s)
    BY <1>1 DEF PassVars, lifeVars, Races, May, Finals, Partials, Has
  <1>9. \A s \in Recordings : ~WorksOn(p, s)'
    BY <1>5, <1>6 DEF WorksOn
  <1>10. \A q \in Passes \ {p}, s \in Recordings :
           (WorksOn(q, s)' <=> WorksOn(q, s)) /\ (Lists(q, s)' <=> Lists(q, s))
    BY <1>6 DEF WorksOn, Lists
  <1>11. \A s \in Recordings : Lists(p, s)' <=> s \in found
    BY <1>5, <1>6 DEF Lists, PassActive
  <1>12. ApartInv'
    <2> SUFFICES ASSUME ~Races
                 PROVE  /\ running => window
                        /\ \A q \in Passes : pass'[q].step = "list" =>
                             \A s \in Recordings : writer[s].create = "none"
                        /\ \A q \in Passes, s \in Recordings :
                             WorksOn(q, s)' \/ Lists(q, s)' =>
                               writer[s].create = "none" /\ interrupted[s] # "no"
      BY <1>8 DEF ApartInv
    <2>1. /\ running => window
          /\ \A q \in Passes : pass[q].step = "list" =>
               \A s \in Recordings : writer[s].create = "none"
          /\ \A q \in Passes, s \in Recordings :
               WorksOn(q, s) \/ Lists(q, s) =>
                 writer[s].create = "none" /\ interrupted[s] # "no"
      BY DEF AudioInv, ApartInv
    <2>2. \A s \in found : writer[s].create = "none" /\ interrupted[s] # "no"
      BY <1>1, <1>3, <1>4, <2>1 DEF AudioInv, RecordingInv, FreshInv
    <2>3. \A q \in Passes : pass'[q].step = "list" => pass[q].step = "list"
      BY <1>5, <1>6
    <2>4. \A q \in Passes, s \in Recordings :
            WorksOn(q, s)' \/ Lists(q, s)' => WorksOn(q, s) \/ Lists(q, s) \/ s \in found
      BY <1>9, <1>10, <1>11
    <2> QED BY <2>1, <2>2, <2>3, <2>4
  <1>13. PassInv'
    BY <1>5, <1>6, <1>7 DEF AudioInv, PassInv
  <1>14. RecoveryInv'
    <2>1. PassFacts(p)
      BY <1>1, PassIsAlone
    <2>2. ASSUME NEW s \in Recordings, Recovering(s), ~Races, ~May({"disk", "old"})
          PROVE  Recovering(s)'
      <3>1. CASE "mp3" \in Finals(s)
        BY <1>8, <3>1 DEF Recovering
      <3>2. CASE Finals(s) = {} /\ Partials(s) = {"mp3", "pcm"}
        <4>1. s \in found
          BY <1>1, <1>4, <2>1, <2>2, <3>2 DEF PassFacts
        <4>2. \A q \in Passes : pass'[q].step \in {"unused", "failed"} \/ Lists(q, s)'
          BY <1>6, <1>11, <2>1, <2>2, <4>1 DEF PassFacts
        <4> QED BY <1>8, <3>2, <4>2 DEF Recovering
      <3> QED BY <1>1, <1>7, <2>1, <2>2, <3>1, <3>2 DEF Recovering, PassFacts
    <2> QED BY <1>1, <1>5, <1>6, <1>8, <2>1, <2>2 DEF AudioInv, RecoveryInv, PassFacts
  <1> QED BY <1>1, <1>5, <1>6, <1>9, <1>12, <1>13, <1>14, PassLooks

(* A pass takes the next recording and looks at its files, or ends. *)
LEMMA PassChecksKeeps ==
  ASSUME FilesTypeOK, AudioTypeOK, AudioInv, NEW p \in Passes, PassChecks(p),
         scenario' = scenario
  PROVE  AudioKeeps
  <1>1. pass[p].step = "next" /\ UNCHANGED <<files, published, PassVars, scenario>>
    BY DEF PassChecks, PassAt
  <1>2. pass \in [Passes -> PassTable] /\ pass[p] \in PassTable
    BY DEF AudioTypeOK, PassTable
  <1>3. /\ writer' = writer /\ interrupted' = interrupted /\ running' = running
        /\ window' = window /\ (Races' <=> Races)
        /\ \A faults : May(faults)' <=> May(faults)
        /\ \A s \in Recordings : Finals(s)' = Finals(s) /\ Partials(s)' = Partials(s)
    BY <1>1 DEF PassVars, lifeVars, Races, May, Finals, Partials, Has
  <1>4. PassFacts(p)
    BY <1>1, PassIsAlone
  <1>5. ASSUME NEW x \in PassTable, pass' = [pass EXCEPT ![p] = x],
               x.step \in {"stat", "next", "done"},
               x.todo \subseteq pass[p].todo, x.at \cap x.todo = {},
               \A r, s \in x.at : r = s,
               x.step = "done" => x.todo = {} /\ pass[p].todo = {},
               x.step = "stat" => x.at \subseteq pass[p].todo,
               \A s \in x.at : x.step = "stat" => Recoverable(s),
               \A s \in pass[p].todo \ x.todo : Recoverable(s) =>
                  x.step = "stat" /\ s \in x.at
        PROVE  AudioKeeps
    <2>1. /\ PassMoves(p) /\ pass'[p] = x /\ \A q \in Passes \ {p} : pass'[q] = pass[q]
      BY <1>1, <1>2, <1>5 DEF PassMoves
    <2>2. \A q \in Passes \ {p}, s \in Recordings :
             (WorksOn(q, s)' <=> WorksOn(q, s)) /\ (Lists(q, s)' <=> Lists(q, s))
      BY <2>1 DEF WorksOn, Lists
    <2>3. \A s \in Recordings : WorksOn(p, s)' => s \in x.at /\ x.step = "stat"
      BY <1>5, <2>1 DEF WorksOn
    <2>4. \A s \in Recordings : WorksOn(p, s)' \/ Lists(p, s)' => Lists(p, s)
      BY <1>1, <1>5, <2>1, <2>3 DEF Lists, PassActive
    <2>5. \A s \in Recordings : WorksOn(p, s)' =>
             writer[s].create = "done" \/ interrupted[s] # "no"
      BY <1>5, <2>3 DEF AudioInv, RecordingInv, FreshInv, Recoverable, Partials, Kinds
    <2>6. ApartInv'
      <3> SUFFICES ASSUME ~Races
                   PROVE  /\ running => window
                          /\ \A q \in Passes : pass'[q].step = "list" =>
                               \A s \in Recordings : writer[s].create = "none"
                          /\ \A q \in Passes, s \in Recordings :
                               WorksOn(q, s)' \/ Lists(q, s)' =>
                                 writer[s].create = "none" /\ interrupted[s] # "no"
        BY <1>3 DEF ApartInv
      <3>1. \A q \in Passes : pass'[q].step = "list" => pass[q].step = "list"
        BY <1>5, <2>1
      <3>2. \A q \in Passes, s \in Recordings :
              WorksOn(q, s)' \/ Lists(q, s)' => WorksOn(q, s) \/ Lists(q, s)
        BY <2>2, <2>4
      <3> QED BY <3>1, <3>2 DEF AudioInv, ApartInv
    <2>7. PassInv'
      BY <1>5, <2>1 DEF AudioInv, PassInv
    <2>8. RecoveryInv'
      <3>1. ASSUME NEW s \in Recordings, Recovering(s), ~Races, ~May({"disk", "old"})
            PROVE  Recovering(s)'
        <4>1. CASE "mp3" \in Finals(s)
          BY <1>3, <4>1 DEF Recovering
        <4>2. CASE "mp3" \notin Finals(s) /\ Finals(s) = {} /\ Partials(s) = {"mp3", "pcm"}
          <5>1. Recoverable(s)
            BY <4>2 DEF Recoverable, Finals, Partials, Kinds
          <5>2. s \in pass[p].todo
            BY <1>1, <1>4, <3>1, <4>2 DEF Recovering, Lists, PassFacts
          <5>3. Lists(p, s)' \/ (x.step = "stat" /\ s \in x.at)
            BY <1>5, <2>1, <5>1, <5>2 DEF Lists, PassActive
          <5>4. \A q \in Passes \ {p} : pass'[q].step \in {"unused", "failed"}
            BY <1>4, <2>1, <3>1 DEF PassFacts
          <5> QED BY <1>3, <2>1, <4>2, <5>3, <5>4 DEF Recovering
        <4> QED BY <1>1, <1>4, <3>1, <4>1, <4>2 DEF Recovering, PassFacts
      <3>2. pass'[p].step = "done" => pass'[p].todo = {}
        BY <1>5, <2>1
      <3>3. pass'[p].step \notin {"unused", "failed", "list"}
        BY <1>5, <2>1
      <3> QED BY <1>3, <1>4, <2>1, <3>1, <3>2, <3>3 DEF AudioInv, RecoveryInv, PassFacts
    <2>9. pass'[p].step \notin {"json", "mp3"}
      BY <1>5, <2>1
    <2> QED BY <1>1, <2>1, <2>5, <2>6, <2>7, <2>8, <2>9, PassLooks
  <1>6. ASSUME NEW r \in pass[p].todo,
               pass' = [pass EXCEPT ![p].todo = @ \ {r}, ![p].at = {r},
                                    ![p].step = IF Recoverable(r) THEN "stat" ELSE "next"]
        PROVE  AudioKeeps
    <2> DEFINE step == IF Recoverable(r) THEN "stat" ELSE "next"
               x == [pass[p] EXCEPT !.todo = @ \ {r}, !.at = {r}, !.step = step]
    <2>1. pass' = [pass EXCEPT ![p] = x]
      BY <1>6
    <2>2. step \in {"stat", "next"} /\ (step = "stat" <=> Recoverable(r))
      OBVIOUS
    <2> HIDE DEF step
    <2>3. /\ x \in PassTable /\ x.step = step /\ x.todo = pass[p].todo \ {r}
          /\ x.at = {r}
      BY <1>2, <2>2 DEF PassTable
    <2> HIDE DEF x
    <2> QED BY <1>5, <2>1, <2>2, <2>3
  <1>7. CASE pass[p].todo = {} /\ PassGoes(p, "done")
    <2> DEFINE x == [pass[p] EXCEPT !.step = "done"]
    <2>1. pass' = [pass EXCEPT ![p] = x]
      BY <1>7 DEF PassGoes
    <2>2. /\ x \in PassTable /\ x.step = "done" /\ x.todo = {} /\ x.at = pass[p].at
      BY <1>2, <1>7 DEF PassTable
    <2>3. \A r, s \in x.at : r = s
      BY <2>2 DEF AudioInv, PassInv
    <2> HIDE DEF x
    <2> QED BY <1>5, <1>7, <2>1, <2>2, <2>3
  <1> QED BY <1>6, <1>7 DEF PassChecks

\* What a step of the pass p means to the recording r it is at.
PassSees(p, r, step, f, g) ==
    /\ PassMoves(p) /\ pass'[p].step = step
    /\ pass'[p].at = pass[p].at /\ pass'[p].todo = pass[p].todo
    /\ r \in pass[p].at /\ WorksOn(p, r)
    /\ Finals(r)' = f /\ Partials(r)' = g
    /\ writer' = writer /\ interrupted' = interrupted
    /\ (Races' <=> Races) /\ \A faults : May(faults)' <=> May(faults)
    /\ \A q \in Passes \ {p} : pass'[q] = pass[q] /\ (HoldsPcm(q, r)' <=> HoldsPcm(q, r))
    /\ HoldsPcm(p, r)' <=> step \in {"json", "mp3"}

(* What a step of a pass means to its recording. *)
LEMMA PassIsSeen ==
  ASSUME AudioTypeOK, NEW p \in Passes, NEW r \in pass[p].at, NEW step, NEW f, NEW g,
         pass[p].step \in {"stat", "metadata", "pcm", "json", "mp3", "catch"},
         step \in {"next", "metadata", "pcm", "json", "mp3", "catch", "failed"},
         PassGoes(p, step), FilesBecome(r, f, g), UNCHANGED <<PassVars, scenario>>
  PROVE  PassSees(p, r, step, f, g) /\ r \in Recordings
  <1>1. /\ PassMoves(p) /\ pass'[p].step = step
        /\ pass'[p].at = pass[p].at /\ pass'[p].todo = pass[p].todo
    BY PassGoesOn
  <1>2. writer' = writer /\ interrupted' = interrupted /\ scenario' = scenario
    BY DEF PassVars
  <1>3. \A q \in Passes \ {p} : pass'[q] = pass[q] /\ (HoldsPcm(q, r)' <=> HoldsPcm(q, r))
    BY <1>1 DEF PassMoves, HoldsPcm
  <1>4. HoldsPcm(p, r)' <=> step \in {"json", "mp3"}
    BY <1>1 DEF HoldsPcm
  <1>5. Finals(r)' = f /\ Partials(r)' = g
    BY DEF FilesBecome
  <1>6. r \in Recordings /\ WorksOn(p, r)
    BY DEF AudioTypeOK, WorksOn
  <1> QED BY <1>1, <1>2, <1>3, <1>4, <1>5, <1>6 DEF PassSees, Races, May

(* What the recovery knows of the files at the steps of a pass. *)
LEMMA PassKnows ==
  ASSUME AudioTypeOK, AudioInv, NEW p \in Passes, NEW r \in pass[p].at,
         pass[p].step \in {"stat", "metadata", "pcm", "json", "mp3", "catch"},
         ~Races, ~May({"disk", "old"}), interrupted[r] = "recording"
  PROVE  \/ "mp3" \in Finals(r)
         \/ /\ pass[p].step \in {"stat", "metadata"}
            /\ Finals(r) = {} /\ Partials(r) = {"mp3", "pcm"}
         \/ /\ pass[p].step = "pcm" /\ Finals(r) = {}
            /\ Partials(r) = {"mp3", "pcm", "json"}
         \/ /\ pass[p].step = "json" /\ Finals(r) = {"pcm"}
            /\ Partials(r) = {"mp3", "json"}
         \/ /\ pass[p].step = "mp3" /\ Finals(r) = {"pcm", "json"}
            /\ Partials(r) = {"mp3"}
  <1>1. PassFacts(p)
    BY PassIsAlone
  <1>2. r \notin pass[p].todo /\ r \in Recordings
    BY DEF AudioInv, PassInv, AudioTypeOK
  <1>3. Recovering(r)
    BY <1>2 DEF AudioInv, RecoveryInv
  <1> QED BY <1>1, <1>2, <1>3 DEF Recovering, Lists, PassFacts

(* A pass asks for the length of the PCM. *)
LEMMA PassStatsKeeps ==
  ASSUME FilesTypeOK, AudioTypeOK, AudioInv, NEW p \in Passes, PassStats(p),
         scenario' = scenario
  PROVE  AudioKeeps
  <1>1. PICK r \in pass[p].at :
          PassGoes(p, IF Has(r, Partial("pcm")) THEN "metadata" ELSE "failed")
    BY DEF PassStats
  <1>2. /\ pass[p].step = "stat" /\ UNCHANGED <<files, published, PassVars, scenario>>
        /\ published' \in [Recordings -> 0..2]
    BY DEF PassStats, PassAt, AudioTypeOK
  <1>3. PICK step \in {"metadata", "failed"} :
          PassGoes(p, step) /\ ("pcm" \in Partials(r) => step = "metadata")
    BY <1>1 DEF Partials, Kinds
  <1>4. r \in Names /\ r \in Recordings /\ RecordingInv(r)
    BY DEF AudioTypeOK, Names, AudioInv
  <1>5. FilesBecome(r, Finals(r), Partials(r))
    BY <1>2, <1>4, FilesStay
  <1>6. PassSees(p, r, step, Finals(r), Partials(r))
    BY <1>2, <1>3, <1>5, PassIsSeen
  <1>7. PcmInv(r)'
    BY <1>2, <1>3, <1>4, <1>6 DEF PassSees, RecordingInv, PcmInv, Renaming
  <1>8. JsonInv(r)'
    BY <1>3, <1>4, <1>6 DEF PassSees, RecordingInv, JsonInv
  <1>9. ~Races /\ ~May({"disk", "old"}) /\ interrupted[r] = "recording" =>
           Recovering(r)'
    <2> SUFFICES ASSUME ~Races, ~May({"disk", "old"}), interrupted[r] = "recording"
                 PROVE  Recovering(r)'
      OBVIOUS
    <2>1. "mp3" \in Finals(r) \/ (Finals(r) = {} /\ Partials(r) = {"mp3", "pcm"})
      BY <1>2, PassKnows
    <2>2. PassFacts(p)
      BY <1>2, PassIsAlone
    <2> QED BY <1>3, <1>6, <2>1, <2>2 DEF PassSees, Recovering, PassFacts
  <1> QED BY <1>2, <1>3, <1>4, <1>5, <1>6, <1>7, <1>8, <1>9, PassWorks DEF PassSees

(* A pass writes the metadata. *)
LEMMA PassWritesMetadataKeeps ==
  ASSUME FilesTypeOK, AudioTypeOK, AudioInv, NEW p \in Passes, PassWritesMetadata(p),
         scenario' = scenario
  PROVE  AudioKeeps
  <1>1. PICK r \in pass[p].at :
          \/ AddFile(r, Partial("json")) /\ PassGoes(p, "pcm")
          \/ /\ May({"disk"}) \/ "json" \in Partials(r)
             /\ PassGoes(p, "catch") /\ files' = files
    BY DEF PassWritesMetadata, Partials, Kinds, May
  <1>2. /\ pass[p].step = "metadata" /\ UNCHANGED <<published, PassVars, scenario>>
        /\ published' \in [Recordings -> 0..2]
    BY DEF PassWritesMetadata, PassAt, AudioTypeOK
  <1>3. r \in Names /\ r \in Recordings /\ RecordingInv(r)
    BY DEF AudioTypeOK, Names, AudioInv
  <1>4. PICK step \in {"pcm", "catch"}, g \in SUBSET Kinds :
          /\ PassGoes(p, step) /\ FilesBecome(r, Finals(r), g)
          /\ g \in {Partials(r), Partials(r) \cup {"json"}}
          /\ step = "pcm" => g = Partials(r) \cup {"json"}
          /\ step = "catch" => May({"disk"}) \/ "json" \in Partials(r)
    <2>1. CASE AddFile(r, Partial("json")) /\ PassGoes(p, "pcm")
      <3>1. FilesBecome(r, Finals(r), Partials(r) \cup {"json"})
        BY <1>3, <2>1, FileAdded DEF Kinds
      <3> QED BY <2>1, <3>1 DEF Partials, Kinds
    <2>2. CASE /\ May({"disk"}) \/ "json" \in Partials(r)
               /\ PassGoes(p, "catch") /\ files' = files
      <3>1. FilesBecome(r, Finals(r), Partials(r))
        BY <1>3, <2>2, FilesStay
      <3> QED BY <2>2, <3>1 DEF Partials, Kinds
    <2> QED BY <1>1, <2>1, <2>2
  <1>5. PassSees(p, r, step, Finals(r), g)
    BY <1>2, <1>4, PassIsSeen
  <1>6. /\ "mp3" \in g <=> "mp3" \in Partials(r)
        /\ "pcm" \in g <=> "pcm" \in Partials(r)
    BY <1>4
  <1>7. PcmInv(r)'
    BY <1>2, <1>3, <1>4, <1>5, <1>6 DEF PassSees, RecordingInv, PcmInv, Renaming
  <1>8. JsonInv(r)'
    BY <1>3, <1>4, <1>5, <1>6 DEF PassSees, RecordingInv, JsonInv
  <1>9. ~Races /\ ~May({"disk", "old"}) /\ interrupted[r] = "recording" =>
           Recovering(r)'
    <2> SUFFICES ASSUME ~Races, ~May({"disk", "old"}), interrupted[r] = "recording"
                 PROVE  Recovering(r)'
      OBVIOUS
    <2>1. "mp3" \in Finals(r) \/ (Finals(r) = {} /\ Partials(r) = {"mp3", "pcm"})
      BY <1>2, PassKnows
    <2>2. ~May({"disk"})
      BY DEF May
    <2> QED BY <1>4, <1>5, <2>1, <2>2 DEF PassSees, Recovering
  <1> QED BY <1>2, <1>3, <1>4, <1>5, <1>6, <1>7, <1>8, <1>9, PassWorks DEF PassSees

(* A pass gives the files their final names, the MP3 last, or catches an
   error. *)
LEMMA PassRenamesKeeps ==
  ASSUME FilesTypeOK, AudioTypeOK, AudioInv, NEW p \in Passes, scenario' = scenario,
         \/ PassRenames(p, "pcm", "json") \/ PassRenames(p, "json", "mp3")
         \/ PassRenames(p, "mp3", "next")
  PROVE  AudioKeeps
  <1>1. PICK k \in {"pcm", "json", "mp3"}, next \in {"json", "mp3", "next"} :
          /\ PassRenames(p, k, next)
          /\ k = "pcm" <=> next = "json"
          /\ k = "json" <=> next = "mp3"
          /\ k = "mp3" <=> next = "next"
    OBVIOUS
  <1>2. PICK r \in pass[p].at :
          \/ /\ k \in Partials(r) /\ Rename(r, k) /\ PassGoes(p, next)
             /\ published' = IF k = "mp3" THEN [published EXCEPT ![r] = @ + 1]
                                          ELSE published
          \/ /\ May({"disk"}) \/ k \notin Partials(r)
             /\ PassGoes(p, "catch") /\ UNCHANGED <<files, published>>
    BY <1>1 DEF PassRenames, Partials, Kinds, May
  <1>3. /\ pass[p].step = k /\ UNCHANGED <<PassVars, scenario>>
        /\ published \in [Recordings -> 0..2]
    BY <1>1 DEF PassRenames, PassAt, AudioTypeOK
  <1>4. r \in Names /\ r \in Recordings /\ RecordingInv(r) /\ WorksOn(p, r)
    BY <1>3 DEF AudioTypeOK, Names, AudioInv, WorksOn
  <1>5. CASE /\ May({"disk"}) \/ k \notin Partials(r)
             /\ PassGoes(p, "catch") /\ UNCHANGED <<files, published>>
    <2>1. FilesBecome(r, Finals(r), Partials(r))
      BY <1>4, <1>5, FilesStay
    <2>2. PassSees(p, r, "catch", Finals(r), Partials(r))
      BY <1>3, <1>5, <2>1, PassIsSeen
    <2>3. PcmInv(r)'
      BY <1>4, <1>5, <2>2 DEF PassSees, RecordingInv, PcmInv, Renaming
    <2>4. JsonInv(r)'
      BY <1>4, <2>2 DEF PassSees, RecordingInv, JsonInv
    <2>5. ~Races /\ ~May({"disk", "old"}) /\ interrupted[r] = "recording" =>
             Recovering(r)'
      <3> SUFFICES ASSUME ~Races, ~May({"disk", "old"}), interrupted[r] = "recording"
                   PROVE  Recovering(r)'
        OBVIOUS
      <3>1. k \in Partials(r) \/ "mp3" \in Finals(r)
        BY <1>3, PassKnows
      <3>2. ~May({"disk"})
        BY DEF May
      <3> QED BY <1>5, <2>2, <3>1, <3>2 DEF PassSees, Recovering
    <2> QED BY <1>3, <1>4, <1>5, <2>1, <2>2, <2>3, <2>4, <2>5, PassWorks DEF PassSees
  <1>6. CASE /\ k \in Partials(r) /\ Rename(r, k) /\ PassGoes(p, next)
             /\ published' = IF k = "mp3" THEN [published EXCEPT ![r] = @ + 1]
                                          ELSE published
    <2> DEFINE f == Finals(r) \cup {k}
               g == Partials(r) \ {k}
    <2>1. FilesBecome(r, f, g)
      BY <1>4, <1>6, FileRenamed DEF Kinds
    <2>2. PassSees(p, r, next, f, g)
      BY <1>3, <1>6, <2>1, PassIsSeen
    <2>3. /\ "mp3" \notin Finals(r) /\ ~Renaming(r) /\ published[r] = 0
          /\ \A q \in Passes \ {p} : ~HoldsPcm(q, r)
          /\ k # "pcm" => "pcm" \in Finals(r) \ Partials(r)
      <3>1. CASE k = "pcm"
        BY <1>4, <1>6, <3>1 DEF RecordingInv, PcmInv
      <3>2. CASE k # "pcm"
        <4>1. HoldsPcm(p, r)
          BY <1>3, <3>2 DEF HoldsPcm
        <4> QED BY <1>4, <4>1 DEF RecordingInv, PcmInv
      <3> QED BY <3>1, <3>2
    <2>4. /\ published' \in [Recordings -> 0..2]
          /\ published'[r] = IF k = "mp3" THEN 1 ELSE 0
          /\ \A s \in Recordings \ {r} : published'[s] = published[s]
      <3>1. CASE k = "mp3"
        BY <1>3, <1>4, <1>6, <2>3, <3>1
      <3>2. CASE k # "mp3"
        BY <1>3, <1>6, <2>3, <3>2
      <3> QED BY <3>1, <3>2
    <2>5. /\ "pcm" \in f \ g /\ ("mp3" \in f <=> k = "mp3")
          /\ k = "mp3" => "mp3" \notin g
          /\ Finals(r) \subseteq f /\ g \subseteq Partials(r)
          /\ f \cup g = Finals(r) \cup Partials(r)
          /\ k = "json" => "json" \in f
      BY <1>6, <2>3
    <2>6. ~(Races /\ May({"disk"})) /\ k = "mp3" =>
            /\ "json" \in Finals(r)
            /\ ~(/\ writer[r].finalize \in {"undoPcm", "undoFinal"}
                 /\ "json" \in writer[r].renamed)
      <3>1. ~Races => writer[r].finalize = "none"
        BY <1>4 DEF AudioInv, ApartInv, RecordingInv, CallsInv
      <3> QED BY <1>3, <1>4, <1>6, <3>1 DEF RecordingInv, JsonInv
    <2>7. ~Races /\ ~May({"disk", "old"}) /\ interrupted[r] = "recording" =>
            \/ k = "mp3"
            \/ k = "pcm" /\ f = {"pcm"} /\ g = {"mp3", "json"}
            \/ k = "json" /\ f = {"pcm", "json"} /\ g = {"mp3"}
      <3>1. ASSUME ~Races, ~May({"disk", "old"}), interrupted[r] = "recording"
            PROVE  \/ k = "mp3"
                   \/ k = "pcm" /\ Finals(r) = {} /\ Partials(r) = {"mp3", "pcm", "json"}
                   \/ k = "json" /\ Finals(r) = {"pcm"} /\ Partials(r) = {"mp3", "json"}
        BY <1>3, <2>3, <3>1, PassKnows
      <3> QED BY <3>1
    <2> HIDE DEF f, g
    <2>8. PcmInv(r)'
      <3>1. Renaming(r)' <=> Renaming(r)
        BY <2>2 DEF PassSees, Renaming
      <3>2. \A q \in Passes : HoldsPcm(q, r)' => q = p /\ k # "mp3"
        BY <1>1, <2>2, <2>3 DEF PassSees
      <3>3. writer[r].finalize = "publish" => writer[r].renamed \subseteq Finals(r)
        BY <1>4 DEF RecordingInv, PcmInv
      <3>4. Finals(r)' = f /\ Partials(r)' = g /\ writer' = writer
        BY <2>2 DEF PassSees
      <3> QED BY <2>3, <2>4, <2>5, <3>1, <3>2, <3>3, <3>4 DEF PcmInv
    <2>9. JsonInv(r)'
      <3>1. \A q \in Passes : r \in pass'[q].at /\ pass'[q].step = "mp3" => k = "json"
        <4>1. \A q \in Passes \ {p} : ~(r \in pass[q].at /\ pass[q].step = "mp3")
          BY <2>3 DEF HoldsPcm
        <4> QED BY <1>1, <2>2, <4>1 DEF PassSees
      <3>2. /\ Finals(r)' = f /\ Partials(r)' = g /\ writer' = writer
            /\ (Races' <=> Races) /\ \A faults : May(faults)' <=> May(faults)
        BY <2>2 DEF PassSees
      <3>3. JsonInv(r)
        BY <1>4 DEF RecordingInv
      <3> QED BY <2>3, <2>5, <2>6, <3>1, <3>2, <3>3 DEF JsonInv
    <2>10. ~Races /\ ~May({"disk", "old"}) /\ interrupted[r] = "recording" =>
             Recovering(r)'
      BY <1>1, <2>2, <2>5, <2>7 DEF PassSees, Recovering
    <2> QED BY <1>1, <1>3, <1>4, <2>1, <2>2, <2>4, <2>5, <2>8, <2>9, <2>10, PassWorks
            DEF PassSees
  <1> QED BY <1>2, <1>5, <1>6

(* A pass removes its metadata again. *)
LEMMA PassCatchesKeeps ==
  ASSUME FilesTypeOK, AudioTypeOK, AudioInv, NEW p \in Passes, PassCatches(p),
         scenario' = scenario
  PROVE  AudioKeeps
  <1>1. PICK r \in pass[p].at : RemoveFiles(r, {Partial("json")})
    BY DEF PassCatches
  <1>2. /\ pass[p].step = "catch" /\ PassGoes(p, "next")
        /\ UNCHANGED <<published, PassVars, scenario>>
        /\ published' \in [Recordings -> 0..2]
    BY DEF PassCatches, PassAt, AudioTypeOK
  <1>3. r \in Names /\ r \in Recordings /\ RecordingInv(r)
    BY DEF AudioTypeOK, Names, AudioInv
  <1> DEFINE g == Partials(r) \ {"json"}
  <1>4. FilesBecome(r, Finals(r), g)
    <2>1. FilesBecome(r, {k \in Finals(r) : Final(k) \notin {Partial("json")}},
                         {k \in Partials(r) : Partial(k) \notin {Partial("json")}})
      BY <1>1, <1>3, FilesRemoved
    <2>2. /\ {k \in Finals(r) : Final(k) \notin {Partial("json")}} = Finals(r)
          /\ {k \in Partials(r) : Partial(k) \notin {Partial("json")}} = g
      BY NamesDiffer DEF Finals, Partials, Kinds
    <2> QED BY <2>1, <2>2
  <1>5. PassSees(p, r, "next", Finals(r), g)
    BY <1>2, <1>4, PassIsSeen
  <1>6. /\ "mp3" \in g <=> "mp3" \in Partials(r)
        /\ "pcm" \in g <=> "pcm" \in Partials(r)
    OBVIOUS
  <1> HIDE DEF g
  <1>7. PcmInv(r)'
    BY <1>2, <1>3, <1>5, <1>6 DEF PassSees, RecordingInv, PcmInv, Renaming
  <1>8. JsonInv(r)'
    BY <1>3, <1>5, <1>6 DEF PassSees, RecordingInv, JsonInv
  <1>9. ~Races /\ ~May({"disk", "old"}) /\ interrupted[r] = "recording" =>
           Recovering(r)'
    <2> SUFFICES ASSUME ~Races, ~May({"disk", "old"}), interrupted[r] = "recording"
                 PROVE  Recovering(r)'
      OBVIOUS
    <2>1. "mp3" \in Finals(r)
      BY <1>2, PassKnows
    <2> QED BY <1>5, <2>1 DEF PassSees, Recovering
  <1> QED BY <1>2, <1>3, <1>4, <1>5, <1>6, <1>7, <1>8, <1>9, PassWorks DEF PassSees

-------------------------------------------------------------------------------
(* The reaper, the window and the process. *)

(* What the audio recordings do not take part in keeps what is said of them. *)
LEMMA AudioStays ==
  ASSUME AudioTypeOK, AudioInv, UNCHANGED <<audioVars, scenario>>,
         window' = window, running' = running,
         reapable' \subseteq reapable,
         \A r \in Recordings : files'[r] = files[r]
  PROVE  AudioTypeOK' /\ AudioInv'
  <1>1. /\ writer' = writer /\ sessions' = sessions /\ interrupted' = interrupted
        /\ scenario' = scenario /\ dead' = dead /\ pass' = pass /\ published' = published
    BY DEF audioVars
  <1>2. AudioTypeOK'
    BY <1>1 DEF AudioTypeOK
  <1>3. ASSUME NEW s \in Recordings PROVE RecordingInv(s)'
    <2>1. RecordingInv(s)
      BY DEF AudioInv
    <2>2. /\ writer[s].create # "done" /\ interrupted[s] = "no" =>
               \A q \in Passes : ~WorksOn(q, s)'
          /\ \A q \in Passes : HoldsPcm(q, s)' => HoldsPcm(q, s)
          /\ \A q \in Passes : s \in pass'[q].at /\ pass'[q].step = "mp3" =>
               s \in pass[q].at /\ pass[q].step = "mp3"
      BY <1>1, <2>1 DEF RecordingInv, FreshInv, WorksOn, HoldsPcm
    <2> QED BY <1>1, <2>1, <2>2, PassLeaves
  <1>4. /\ (Races' <=> Races) /\ \A faults : May(faults)' <=> May(faults)
        /\ \A q \in Passes, s \in Recordings :
             (WorksOn(q, s)' <=> WorksOn(q, s)) /\ (Lists(q, s)' <=> Lists(q, s))
        /\ \A s \in Recordings : Finals(s)' = Finals(s) /\ Partials(s)' = Partials(s)
    BY <1>1 DEF Races, May, WorksOn, Lists, Finals, Partials, Has
  <1>5. ApartInv'
    BY <1>1, <1>4 DEF AudioInv, ApartInv
  <1>6. PassInv' /\ ReaperInv'
    BY <1>1, <1>4 DEF AudioInv, PassInv, ReaperInv
  <1>7. RecoveryInv'
    <2>1. \A s \in Recordings : Recovering(s)' <=> Recovering(s)
      BY <1>1, <1>4 DEF Recovering
    <2> QED BY <1>1, <1>4, <2>1 DEF AudioInv, RecoveryInv
  <1> QED BY <1>2, <1>3, <1>5, <1>6, <1>7 DEF AudioInv

\* An old partial file of the name r is deleted.
Reaped(r, k) ==
    /\ r \in Names /\ k \in Kinds /\ May({"old"})
    /\ FilesBecome(r, Finals(r), Partials(r) \ {k})
    /\ UNCHANGED <<lifeVars, scenario>>

(* Only old partial files are deleted. *)
LEMMA ReapIsReaped ==
  ASSUME FilesTypeOK, ReaperInv, NEW r \in Names, NEW k \in Kinds, Reap(r, k),
         scenario' = scenario
  PROVE  Reaped(r, k) /\ reapable' \subseteq reapable
  <1>1. reapable # {} /\ reapable' \subseteq reapable /\ UNCHANGED <<lifeVars, scenario>>
    BY DEF Reap
  <1>2. May({"old"})
    BY <1>1 DEF ReaperInv
  <1>3. FilesBecome(r, {j \in Finals(r) : Final(j) \notin {Partial(k)}},
                       {j \in Partials(r) : Partial(j) \notin {Partial(k)}})
    BY FilesRemoved DEF Reap
  <1>4. /\ {j \in Finals(r) : Final(j) \notin {Partial(k)}} = Finals(r)
        /\ {j \in Partials(r) : Partial(j) \notin {Partial(k)}} = Partials(r) \ {k}
    BY NamesDiffer DEF Finals, Partials
  <1> QED BY <1>1, <1>2, <1>3, <1>4 DEF Reaped

(* The reaper and the recordings. *)
LEMMA ReapKeepsAudio ==
  ASSUME FilesTypeOK, AudioTypeOK, AudioInv, NEW r \in Names, NEW k \in Kinds,
         Reaped(r, k), reapable' \subseteq reapable, UNCHANGED audioVars
  PROVE  FilesTypeOK' /\ AudioTypeOK' /\ AudioInv'
  <1>1. /\ writer' = writer /\ sessions' = sessions /\ interrupted' = interrupted
        /\ scenario' = scenario /\ dead' = dead /\ pass' = pass /\ published' = published
        /\ running' = running /\ window' = window /\ crashes' = crashes
    BY DEF audioVars, Reaped, lifeVars
  <1>2. /\ files' \in [Names -> SUBSET FileNames]
        /\ \A s \in Names \ {r} : files'[s] = files[s]
        /\ Finals(r)' = Finals(r) /\ Partials(r)' = Partials(r) \ {k}
    BY DEF Reaped, FilesBecome
  <1>3. FilesTypeOK'
    BY <1>1, <1>2 DEF FilesTypeOK, Names
  <1>4. CASE r \notin Recordings
    <2>1. \A s \in Recordings : files'[s] = files[s]
      BY <1>2, <1>4 DEF Names
    <2> QED BY <1>1, <1>3, <2>1, AudioStays
  <1>5. CASE r \in Recordings
    <2>1. (Races' <=> Races) /\ \A faults : May(faults)' <=> May(faults)
      BY <1>1 DEF Races, May
    <2>2. /\ May({"old"}) /\ May({"disk", "old"})
      BY DEF Reaped, May
    <2>3. \A q \in Passes, s \in Recordings :
            /\ WorksOn(q, s)' <=> WorksOn(q, s)
            /\ Lists(q, s)' <=> Lists(q, s)
            /\ HoldsPcm(q, s)' <=> HoldsPcm(q, s)
      BY <1>1 DEF WorksOn, Lists, HoldsPcm
    <2>4. ASSUME NEW s \in Recordings \ {r} PROVE RecordingInv(s)'
      <3>1. RecordingInv(s) /\ files'[s] = files[s]
        BY <1>2 DEF AudioInv, Names
      <3>2. writer[s].create # "done" /\ interrupted[s] = "no" =>
              \A q \in Passes : ~WorksOn(q, s)'
        BY <2>3, <3>1 DEF RecordingInv, FreshInv
      <3> QED BY <1>1, <2>3, <3>1, <3>2, PassLeaves
    <2>5. RecordingInv(r)
      BY <1>5 DEF AudioInv
    <2>6. CallsInv(r)' /\ OwnedInv(r)' /\ SafeInv(r)'
      BY <1>1, <2>1, <2>5 DEF RecordingInv, CallsInv, OwnedInv, SafeInv
    <2>7. FreshInv(r)' /\ KeptInv(r)'
      BY <1>1, <1>2, <1>5, <2>1, <2>2, <2>3, <2>5 DEF RecordingInv, FreshInv, KeptInv
    <2>8. PcmInv(r)'
      BY <1>1, <1>2, <1>5, <2>3, <2>5 DEF RecordingInv, PcmInv, Renaming
    <2>9. JsonInv(r)'
      BY <1>1, <1>2, <2>1, <2>5 DEF RecordingInv, JsonInv
    <2>10. FilesInv(r)'
      <3>1. Made(r)' = Made(r) /\ AllKinds(r)' = AllKinds(r)
        BY <1>1 DEF Made, AllKinds
      <3> QED BY <1>1, <1>2, <2>1, <2>2, <2>5, <3>1 DEF RecordingInv, FilesInv
    <2>11. UndoInv(r)'
      BY <2>1, <2>2 DEF UndoInv
    <2>12. ApartInv'
      BY <1>1, <2>1, <2>3 DEF AudioInv, ApartInv
    <2>13. PassInv' /\ ReaperInv' /\ RecoveryInv'
      BY <1>1, <2>1, <2>2 DEF AudioInv, PassInv, ReaperInv, RecoveryInv
    <2>14. AudioTypeOK'
      BY <1>1 DEF AudioTypeOK
    <2> QED BY <1>3, <2>4, <2>6, <2>7, <2>8, <2>9, <2>10, <2>11, <2>12, <2>13, <2>14
            DEF AudioInv, RecordingInv
  <1> QED BY <1>4, <1>5

(* A new window asks for a recovery. *)
LEMMA StartPassKeeps ==
  ASSUME AudioTypeOK, AudioInv, StartPass, scenario' = scenario, files' = files,
         running', window', ReaperInv',
         ~running \/ (running /\ ~window)
  PROVE  AudioTypeOK' /\ AudioInv'
  <1>1. PICK p \in Passes :
          /\ pass[p].step = "unused"
          /\ pass' = [pass EXCEPT ![p].step = "list", ![p].active = sessions]
          /\ UNCHANGED <<sessions, writer, dead, published, interrupted>>
    BY DEF StartPass, PassAt
  <1> DEFINE x == [pass[p] EXCEPT !.step = "list", !.active = sessions]
  <1>2. pass' = [pass EXCEPT ![p] = x]
    BY <1>1
  <1>3. pass \in [Passes -> PassTable] /\ pass[p] \in PassTable /\ sessions \subseteq Recordings
    BY DEF AudioTypeOK, PassTable
  <1>4. /\ x \in PassTable /\ x.step = "list" /\ x.active = sessions
        /\ x.todo = pass[p].todo /\ x.at = pass[p].at
    BY <1>3 DEF PassTable
  <1> HIDE DEF x
  <1>5. /\ pass' \in [Passes -> PassTable] /\ pass'[p] = x
        /\ \A q \in Passes \ {p} : pass'[q] = pass[q]
    BY <1>2, <1>3, <1>4
  <1>6. x.at = {} /\ x.todo = {}
    BY <1>1, <1>4 DEF AudioInv, PassInv
  <1>7. AudioTypeOK'
    BY <1>1, <1>5 DEF AudioTypeOK, PassTable
  <1>8. \A q \in Passes, s \in Recordings :
          /\ WorksOn(q, s)' => WorksOn(q, s)
          /\ Lists(q, s)' => Lists(q, s)
          /\ HoldsPcm(q, s)' => HoldsPcm(q, s)
          /\ s \in pass'[q].at /\ pass'[q].step = "mp3" =>
               s \in pass[q].at /\ pass[q].step = "mp3"
    BY <1>4, <1>5, <1>6 DEF WorksOn, Lists, HoldsPcm
  <1>9. ASSUME NEW s \in Recordings PROVE RecordingInv(s)'
    <2>1. RecordingInv(s)
      BY DEF AudioInv
    <2>2. writer[s].create # "done" /\ interrupted[s] = "no" =>
             \A q \in Passes : ~WorksOn(q, s)'
      BY <1>8, <2>1 DEF RecordingInv, FreshInv
    <2> QED BY <1>1, <1>8, <2>1, <2>2, PassLeaves
  <1>10. PassInv'
    BY <1>4, <1>5, <1>6 DEF AudioInv, PassInv
  <1>11. /\ (Races' <=> Races) /\ \A faults : May(faults)' <=> May(faults)
         /\ \A s \in Recordings : Finals(s)' = Finals(s) /\ Partials(s)' = Partials(s)
    BY DEF Races, May, Finals, Partials, Has
  <1>12. ~Races => ~running
    BY DEF AudioInv, ApartInv
  <1>13. ~running => sessions = {} /\ \A s \in Recordings : writer[s].create = "none"
    BY <1>3 DEF AudioInv, RecordingInv, CallsInv
  <1>14. ApartInv'
    <2>1. ~Races => \A s \in Recordings : writer'[s].create = "none"
      BY <1>1, <1>12, <1>13
    <2>2. ~Races => \A q \in Passes, s \in Recordings :
            WorksOn(q, s)' \/ Lists(q, s)' => interrupted'[s] # "no"
      BY <1>1, <1>8 DEF AudioInv, ApartInv
    <2> QED BY <1>11, <2>1, <2>2 DEF ApartInv
  <1>15. RecoveryInv'
    <2> SUFFICES ASSUME ~Races, ~May({"disk", "old"})
                 PROVE
        /\ \A q \in Passes :
             /\ pass'[q].step \notin {"unused", "failed"} =>
                  running' /\ \A o \in Passes :
                    pass'[o].step \notin {"unused", "failed"} => o = q
             /\ pass'[q].step = "list" => pass'[q].active = {}
             /\ pass'[q].step = "done" => pass'[q].todo = {}
        /\ \A s \in Recordings : interrupted'[s] = "recording" => Recovering(s)'
      BY <1>11 DEF RecoveryInv
    <2>1. \A q \in Passes : pass[q].step \in {"unused", "failed"}
      BY <1>12 DEF AudioInv, RecoveryInv
    <2>2. ASSUME NEW s \in Recordings, interrupted[s] = "recording" PROVE Recovering(s)'
      <3>1. Recovering(s)
        BY <2>2 DEF AudioInv, RecoveryInv
      <3> QED BY <1>4, <1>5, <1>11, <2>1, <3>1 DEF Recovering
    <2> QED BY <1>1, <1>4, <1>5, <1>12, <1>13, <2>1, <2>2
  <1> QED BY <1>7, <1>9, <1>10, <1>14, <1>15 DEF AudioInv

(* The window is destroyed. *)
LEMMA DestroyedKeepsAudio ==
  ASSUME AudioTypeOK, AudioInv, AudioOwnerDestroyed, scenario' = scenario,
         UNCHANGED <<files, running, reapable>>, May({"window"})
  PROVE  AudioTypeOK' /\ AudioInv'
  <1>1. /\ dead' \subseteq Recordings /\ sessions' = {} /\ pass' = pass
        /\ published' = published /\ interrupted' = interrupted
        /\ writer' = [r \in Recordings |->
                        IF r \in sessions THEN [writer[r] EXCEPT !.abort = "drain"]
                                          ELSE writer[r]]
    BY DEF AudioOwnerDestroyed
  <1>2. Races /\ Races' /\ \A faults : May(faults)' <=> May(faults)
    BY DEF Races, May
  <1>3. ASSUME NEW s \in Recordings
        PROVE  /\ writer'[s] \in CallTable /\ writer'[s].create = writer[s].create
               /\ writer'[s].finalize = writer[s].finalize
               /\ writer'[s].answer = writer[s].answer
               /\ writer'[s].open = writer[s].open
               /\ writer'[s].hasLog = writer[s].hasLog
               /\ writer'[s].renamed = writer[s].renamed
               /\ IF s \in sessions THEN writer'[s].abort = "drain"
                                    ELSE writer'[s].abort = writer[s].abort
    <2>1. writer[s] \in CallTable
      BY CallIsTyped
    <2>2. CASE s \in sessions
      <3>1. writer'[s] = [writer[s] EXCEPT !.abort = "drain"]
        BY <1>1, <2>2
      <3> QED BY <2>1, <2>2, <3>1 DEF CallTable
    <2>3. CASE s \notin sessions
      BY <1>1, <2>1, <2>3
    <2> QED BY <2>2, <2>3
  <1>4. AudioTypeOK'
    <2>1. writer' \in [Recordings -> CallTable]
      BY <1>1, <1>3
    <2> QED BY <1>1, <2>1 DEF AudioTypeOK, CallTable
  <1>5. \A s \in Recordings : Finals(s)' = Finals(s) /\ Partials(s)' = Partials(s)
    BY DEF Finals, Partials, Has
  <1>6. \A q \in Passes, s \in Recordings :
          (WorksOn(q, s)' <=> WorksOn(q, s)) /\ (HoldsPcm(q, s)' <=> HoldsPcm(q, s))
    BY <1>1 DEF WorksOn, HoldsPcm
  <1>7. ASSUME NEW s \in Recordings PROVE RecordingInv(s)'
    <2>1. RecordingInv(s)
      BY DEF AudioInv
    <2>2. CallsInv(s)'
      BY <1>1, <1>3, <2>1 DEF RecordingInv, CallsInv
    <2>3. OwnedInv(s)'
      BY <1>3, <2>1 DEF RecordingInv, OwnedInv
    <2>4. FreshInv(s)' /\ KeptInv(s)'
      BY <1>1, <1>2, <1>3, <1>5, <1>6, <2>1 DEF RecordingInv, FreshInv, KeptInv
    <2>5. PcmInv(s)'
      BY <1>1, <1>3, <1>5, <1>6, <2>1 DEF RecordingInv, PcmInv, Renaming
    <2>6. JsonInv(s)'
      BY <1>1, <1>2, <1>3, <1>5, <2>1 DEF RecordingInv, JsonInv
    <2>7. FilesInv(s)' /\ UndoInv(s)' /\ SafeInv(s)'
      BY <1>2 DEF FilesInv, UndoInv, SafeInv
    <2> QED BY <2>2, <2>3, <2>4, <2>5, <2>6, <2>7 DEF RecordingInv
  <1>8. ApartInv' /\ RecoveryInv' /\ PassInv' /\ ReaperInv'
    BY <1>1, <1>2 DEF AudioInv, ApartInv, RecoveryInv, PassInv, ReaperInv
  <1> QED BY <1>4, <1>7, <1>8 DEF AudioInv

(* The process is killed. *)
LEMMA KilledKeepsAudio ==
  ASSUME AudioTypeOK, AudioInv, AudioKilled, scenario' = scenario, files' = files,
         ~running', ~window', reapable' = {}
  PROVE  AudioTypeOK' /\ AudioInv'
  <1>1. /\ sessions' = {} /\ dead' = {} /\ published' = published
        /\ writer' = [r \in Recordings |-> NoCalls]
        /\ \A p \in Passes : pass'[p] \in {NoPass, [NoPass EXCEPT !.step = "failed"]}
        /\ pass' \in [Passes -> {NoPass, [NoPass EXCEPT !.step = "failed"]}]
    BY DEF AudioKilled
  <1>2. /\ NoCalls \in CallTable /\ NoCalls.create = "none" /\ NoCalls.finalize = "none"
        /\ NoCalls.answer = "none" /\ ~NoCalls.open /\ ~NoCalls.failed
        /\ NoCalls.abort = "none" /\ NoCalls.renamed = {}
    BY FilesAssumption DEF NoCalls, CallTable
  <1>3. \A p \in Passes : /\ pass'[p] \in PassTable
                          /\ pass'[p].step \in {"unused", "failed"}
                          /\ pass'[p].at = {} /\ pass'[p].todo = {}
    BY <1>1 DEF NoPass, PassTable
  <1>4. ASSUME NEW s \in Recordings
        PROVE  interrupted'[s] =
                 IF s \in sessions
                 THEN IF writer[s].finalize = "none" THEN "recording" ELSE "finalizing"
                 ELSE IF writer[s].create # "none" THEN "over"
                 ELSE IF interrupted[s] = "recording" /\ (\E p \in Passes : WorksOn(p, s))
                 THEN "recovering" ELSE interrupted[s]
    BY DEF AudioKilled, FinalizeAt
  <1>5. AudioTypeOK'
    <2>1. interrupted' \in [Recordings -> {"no", "over", "recording", "finalizing",
                                           "recovering"}]
      <3>1. \A s \in Recordings :
              interrupted'[s] \in {"no", "over", "recording", "finalizing", "recovering"}
        BY <1>4 DEF AudioTypeOK
      <3>2. interrupted' = [s \in Recordings |-> interrupted'[s]]
        BY DEF AudioKilled
      <3> QED BY <3>1, <3>2
    <2>2. pass' \in [Passes -> PassTable]
      BY <1>1, <1>3
    <2> QED BY <1>1, <1>2, <2>1, <2>2 DEF AudioTypeOK, CallTable, PassTable
  <1>6. (Races' <=> Races) /\ \A faults : May(faults)' <=> May(faults)
    BY DEF Races, May
  <1>7. \A q \in Passes, s \in Recordings :
           ~WorksOn(q, s)' /\ ~Lists(q, s)' /\ ~HoldsPcm(q, s)'
    BY <1>3 DEF WorksOn, Lists, HoldsPcm, PassActive
  <1>8. ASSUME NEW s \in Recordings
        PROVE  /\ Finals(s)' = Finals(s) /\ Partials(s)' = Partials(s)
               /\ writer'[s] = NoCalls /\ RecordingInv(s)
    BY <1>1 DEF Finals, Partials, Has, AudioInv
  <1>9. ASSUME NEW s \in Recordings PROVE RecordingInv(s)'
    <2>1. CallsInv(s)' /\ OwnedInv(s)' /\ SafeInv(s)'
      BY <1>1, <1>2, <1>8 DEF CallsInv, OwnedInv, SafeInv, Undoing
    <2>2. FreshInv(s)'
      <3>1. interrupted'[s] = "no" => writer[s].create = "none" /\ interrupted[s] = "no"
        BY <1>4
      <3> QED BY <1>1, <1>2, <1>7, <1>8, <3>1 DEF RecordingInv, FreshInv
    <2>3. KeptInv(s)'
      <3>1. interrupted'[s] \in {"recording", "finalizing", "recovering"} =>
              \/ writer[s].create = "done"
              \/ interrupted[s] \in {"recording", "finalizing", "recovering"}
        BY <1>4, <1>8 DEF RecordingInv, CallsInv
      <3> QED BY <1>2, <1>6, <1>8, <3>1 DEF RecordingInv, KeptInv
    <2>4. PcmInv(s)'
      BY <1>1, <1>2, <1>7, <1>8 DEF RecordingInv, PcmInv, Renaming
    <2>5. JsonInv(s)'
      BY <1>2, <1>3, <1>6, <1>8 DEF RecordingInv, JsonInv
    <2>6. FilesInv(s)' /\ UndoInv(s)'
      BY <1>2, <1>8 DEF FilesInv, UndoInv, Undoing
    <2> QED BY <2>1, <2>2, <2>3, <2>4, <2>5, <2>6 DEF RecordingInv
  <1>10. ApartInv'
    BY <1>3, <1>7 DEF ApartInv
  <1>11. PassInv' /\ ReaperInv'
    BY <1>3 DEF PassInv, ReaperInv
  <1>12. RecoveryInv'
    <2> SUFFICES ASSUME ~Races, ~May({"disk", "old"}), NEW s \in Recordings,
                        interrupted'[s] = "recording"
                 PROVE  Recovering(s)'
      BY <1>3, <1>6 DEF RecoveryInv
    <2>1. CASE s \in sessions
      <3>1. writer[s].finalize = "none" /\ writer[s].create = "done" /\ writer[s].renamed = {}
        BY <1>4, <1>8, <2>1 DEF RecordingInv, CallsInv
      <3>2. Made(s) = {"mp3", "pcm"} /\ ~May({"old"})
        BY <3>1 DEF Made, May
      <3>3. Finals(s) = {} /\ Partials(s) = {"mp3", "pcm"}
        BY <1>8, <3>1, <3>2 DEF RecordingInv, FilesInv, Undoing
      <3> QED BY <1>3, <1>8, <3>3 DEF Recovering
    <2>2. CASE s \notin sessions
      <3>1. interrupted[s] = "recording" /\ \A p \in Passes : ~WorksOn(p, s)
        BY <1>4, <2>2
      <3>2. Recovering(s)
        BY <3>1 DEF AudioInv, RecoveryInv
      <3>3. "mp3" \in Finals(s) \/ (Finals(s) = {} /\ Partials(s) = {"mp3", "pcm"})
        BY <3>1, <3>2 DEF Recovering, WorksOn
      <3> QED BY <1>3, <1>8, <3>3 DEF Recovering
    <2> QED BY <2>1, <2>2
  <1> QED BY <1>5, <1>9, <1>10, <1>11, <1>12 DEF AudioInv

-------------------------------------------------------------------------------
(* The videos. *)

VideoTable ==
    [create : {"none", "webm", "pcm", "done", "failed", "lost"},
     finalize : {"none", "drain", "sync", "metadata", "log", "close",
                 "publish", "announce", "undoPcm", "undoFinal",
                 "undoPartial", "done"},
     answer : {"none", "ok", "error", "rejected"},
     abort : {"none", "drain", "done"}, remembered : BOOLEAN,
     told : {"none", "path", "unknown"}, open : BOOLEAN, owned : BOOLEAN,
     pending : 0..MaxPending, failed : BOOLEAN, renamed : SUBSET Kinds]

\* A call on v leaves the calls w, the final files f and the partial files p.
VideoStepIs(v, w, f, p) ==
    /\ w \in VideoTable /\ SetVideo(v, w)
    /\ UNCHANGED <<videoLife, scenario>>
    /\ videoSessions' \in {videoSessions, videoSessions \ {v}, videoSessions \cup {v}}
    /\ FilesBecome(v, f, p)

\* The step as its own video sees it.
VideoSees(v, w, f, p) ==
    /\ video'[v] = w /\ Finals(v)' = f /\ Partials(v)' = p
    /\ \A faults : May(faults)' <=> May(faults)

\* What a step of a video keeps.
VideoKeeps ==
    /\ FilesTypeOK' /\ VideoTypeOK' /\ VideoInv'
    /\ \A r \in Recordings : files'[r] = files[r]
    /\ UNCHANGED <<videoLife, scenario>>

(* The calls of a video are those of the table. *)
LEMMA VideoIsTyped ==
  ASSUME VideoTypeOK
  PROVE  /\ video \in [Videos -> VideoTable] /\ videoSessions \subseteq Videos
         /\ \A v \in Videos : video[v] \in VideoTable
  BY DEF VideoTypeOK, VideoTable

(* What is said of a video depends on nothing else. *)
LEMMA OtherVideosKeep ==
  ASSUME NEW v \in Videos, VideoInvOf(v), video'[v] = video[v], files'[v] = files[v],
         v \in videoSessions' <=> v \in videoSessions, scenario' = scenario
  PROVE  VideoInvOf(v)'
  <1>1. /\ Finals(v)' = Finals(v) /\ Partials(v)' = Partials(v)
        /\ \A faults : May(faults)' <=> May(faults)
    BY DEF Finals, Partials, Has, May
  <1>2. VideoCallsInv(v)' /\ VideoOwnedInv(v)'
    BY <1>1 DEF VideoInvOf, VideoCallsInv, VideoOwnedInv
  <1>3. VideoKeptInv(v)' /\ VideoPublishedInv(v)'
    BY <1>1 DEF VideoInvOf, VideoKeptInv, VideoPublishedInv
  <1>4. VideoFilesInv(v)' /\ VideoUndoInv(v)'
    BY <1>1 DEF VideoInvOf, VideoFilesInv, VideoUndoInv, VideoMade
  <1> QED BY <1>2, <1>3, <1>4 DEF VideoInvOf

(* What remains to be shown of a call on a video. *)
LEMMA VideoStepKeeps ==
  ASSUME FilesTypeOK, VideoTypeOK, VideoInv, NEW v \in Videos, NEW w, NEW f, NEW p,
         VideoStepIs(v, w, f, p)
  PROVE  /\ VideoSees(v, w, f, p) /\ VideoInvOf(v)
         /\ VideoInvOf(v)' => VideoKeeps
  <1>1. /\ video' = [video EXCEPT ![v] = w] /\ w \in VideoTable /\ scenario' = scenario
        /\ UNCHANGED <<videoLife, scenario>>
        /\ videoSessions' \in {videoSessions, videoSessions \ {v}, videoSessions \cup {v}}
    BY DEF VideoStepIs, SetVideo
  <1>2. /\ files' \in [Names -> SUBSET FileNames]
        /\ Finals(v)' = f /\ Partials(v)' = p
        /\ \A s \in Names \ {v} : files'[s] = files[s]
    BY DEF VideoStepIs, FilesBecome
  <1>3. /\ video \in [Videos -> VideoTable] /\ videoSessions \subseteq Videos
    BY VideoIsTyped
  <1>4. video'[v] = w /\ \A u \in Videos \ {v} : video'[u] = video[u]
    BY <1>1, <1>3
  <1>5. VideoSees(v, w, f, p)
    BY <1>1, <1>2, <1>4 DEF VideoSees, May
  <1>6. ASSUME NEW u \in Videos \ {v} PROVE VideoInvOf(u)'
    <2>1. /\ files'[u] = files[u] /\ VideoInvOf(u)
          /\ u \in videoSessions' <=> u \in videoSessions
      BY <1>1, <1>2 DEF Names, VideoInv
    <2> QED BY <1>1, <1>4, <2>1, OtherVideosKeep
  <1>7. FilesTypeOK'
    BY <1>1, <1>2 DEF FilesTypeOK, Names, videoLife, lifeVars
  <1>8. VideoTypeOK'
    <2>1. video' \in [Videos -> VideoTable] /\ videoSessions' \subseteq Videos
      BY <1>1, <1>3
    <2> QED BY <2>1 DEF VideoTypeOK, VideoTable
  <1>9. \A r \in Recordings : files'[r] = files[r]
    BY <1>2, FilesAssumption DEF Names
  <1> QED BY <1>1, <1>5, <1>6, <1>7, <1>8, <1>9 DEF VideoKeeps, VideoInv

(* create() of a video. *)
LEMMA VideoCreateKeeps ==
  ASSUME FilesTypeOK, VideoTypeOK, VideoInv, NEW v \in Videos, scenario' = scenario,
         VideoCreate(v) \/ VideoCreateWebm(v) \/ VideoCreatePcm(v)
  PROVE  VideoKeeps
  <1>0. video[v] \in VideoTable /\ VideoInvOf(v) /\ v \in Names
    BY VideoIsTyped DEF VideoInv, Names
  <1>1. UNCHANGED <<videoLife, scenario>> /\ video[v].create \in {"none", "webm", "pcm"}
    BY DEF VideoCreate, VideoCreateWebm, VideoCreatePcm
  <1>2. /\ video[v].finalize = "none" /\ ~video[v].open /\ video[v].told = "none"
        /\ video[v].answer = "none" /\ video[v].renamed = {}
        /\ Finals(v) = {} /\ v \notin videoSessions
        /\ video[v].create # "pcm" => Partials(v) = {}
        /\ video[v].create = "pcm" => /\ Partials(v) \subseteq {"webm"}
                                      /\ ~May({"old"}) => "webm" \in Partials(v)
    BY <1>0, <1>1 DEF VideoInvOf, VideoCallsInv, VideoPublishedInv, VideoFilesInv,
                      VideoKeptInv
  <1>3. ASSUME NEW next \in {"webm", "pcm", "failed"}, NEW p,
               SetVideo(v, [video[v] EXCEPT !.create = next]),
               videoSessions' = videoSessions, FilesBecome(v, {}, p),
               next = "webm" => p = {}, next = "pcm" => p = {"webm"}
        PROVE  VideoKeeps
    <2> DEFINE w == [video[v] EXCEPT !.create = next]
    <2>1. /\ w \in VideoTable /\ SetVideo(v, w) /\ w.create = next /\ w.finalize = "none"
          /\ w.answer = "none" /\ ~w.open /\ w.told = "none" /\ w.renamed = {}
      BY <1>0, <1>2, <1>3 DEF VideoTable
    <2> HIDE DEF w
    <2>2. VideoStepIs(v, w, {}, p)
      BY <1>1, <1>3, <2>1 DEF VideoStepIs
    <2>3. VideoSees(v, w, {}, p) /\ (VideoInvOf(v)' => VideoKeeps)
      BY <2>2, VideoStepKeeps
    <2>4. VideoCallsInv(v)' /\ VideoOwnedInv(v)'
      BY <1>2, <1>3, <2>1, <2>3 DEF VideoSees, VideoCallsInv, VideoOwnedInv, Undoing
    <2>5. VideoKeptInv(v)' /\ VideoPublishedInv(v)'
      BY <1>3, <2>1, <2>3 DEF VideoSees, VideoKeptInv, VideoPublishedInv
    <2>6. VideoFilesInv(v)' /\ VideoUndoInv(v)'
      BY <1>3, <2>1, <2>3 DEF VideoSees, VideoFilesInv, VideoUndoInv, Undoing
    <2> QED BY <2>3, <2>4, <2>5, <2>6 DEF VideoInvOf
  <1>4. CASE VideoCreate(v)
    <2>1. FilesBecome(v, {}, {})
      <3>1. FilesBecome(v, Finals(v), Partials(v)) /\ video[v].create = "none"
        BY <1>0, <1>4, FilesStay DEF VideoCreate
      <3> QED BY <1>2, <3>1
    <2> QED BY <1>3, <1>4, <2>1 DEF VideoCreate
  <1>5. CASE VideoCreateWebm(v)
    <2>1. video[v].create = "webm" /\ videoSessions' = videoSessions /\ Partials(v) = {}
      BY <1>2, <1>5 DEF VideoCreateWebm
    <2>2. CASE AddFile(v, Partial("webm"))
               /\ SetVideo(v, [video[v] EXCEPT !.create = "pcm"])
      <3>1. FilesBecome(v, Finals(v), Partials(v) \cup {"webm"})
        BY <1>0, <2>2, FileAdded DEF Kinds
      <3>2. FilesBecome(v, {}, {"webm"})
        BY <1>2, <2>1, <3>1
      <3> QED BY <1>3, <2>1, <2>2, <3>2
    <2>3. CASE files' = files /\ SetVideo(v, [video[v] EXCEPT !.create = "failed"])
      <3>1. FilesBecome(v, {}, Partials(v))
        BY <1>0, <1>2, <2>3, FilesStay
      <3> QED BY <1>3, <2>1, <2>3, <3>1
    <2> QED BY <1>5, <2>2, <2>3 DEF VideoCreateWebm
  <1>6. CASE VideoCreatePcm(v)
    <2>1. video[v].create = "pcm"
      BY <1>6 DEF VideoCreatePcm
    <2>2. CASE /\ AddFile(v, Partial("pcm")) /\ videoSessions' = videoSessions \cup {v}
               /\ SetVideo(v, [video[v] EXCEPT !.create = "done", !.open = TRUE])
      <3> DEFINE w == [video[v] EXCEPT !.create = "done", !.open = TRUE]
                 p == Partials(v) \cup {"pcm"}
      <3>1. /\ w \in VideoTable /\ SetVideo(v, w) /\ w.create = "done"
            /\ w.finalize = "none" /\ w.answer = "none" /\ w.open /\ w.told = "none"
            /\ w.renamed = {}
        BY <1>0, <1>2, <2>2 DEF VideoTable
      <3>2. FilesBecome(v, {}, p)
        BY <1>0, <1>2, <2>2, FileAdded DEF Kinds
      <3>3. p \subseteq {"webm", "pcm"} /\ "pcm" \in p /\ (~May({"old"}) => "webm" \in p)
        BY <1>2, <2>1
      <3> HIDE DEF w, p
      <3>4. VideoStepIs(v, w, {}, p)
        BY <1>1, <2>2, <3>1, <3>2 DEF VideoStepIs
      <3>5. VideoSees(v, w, {}, p) /\ (VideoInvOf(v)' => VideoKeeps)
        BY <3>4, VideoStepKeeps
      <3>6. VideoCallsInv(v)' /\ VideoOwnedInv(v)'
        BY <2>2, <3>1, <3>5 DEF VideoSees, VideoCallsInv, VideoOwnedInv, Undoing
      <3>7. VideoKeptInv(v)' /\ VideoPublishedInv(v)'
        BY <3>1, <3>3, <3>5 DEF VideoSees, VideoKeptInv, VideoPublishedInv
      <3>8. VideoFilesInv(v)' /\ VideoUndoInv(v)'
        BY <3>1, <3>3, <3>5
           DEF VideoSees, VideoFilesInv, VideoUndoInv, VideoMade, Undoing
      <3> QED BY <3>5, <3>6, <3>7, <3>8 DEF VideoInvOf
    <2>3. CASE /\ SetVideo(v, [video[v] EXCEPT !.create = "failed"])
               /\ UNCHANGED <<files, videoSessions>>
      <3>1. FilesBecome(v, {}, Partials(v))
        BY <1>0, <1>2, <2>3, FilesStay
      <3> QED BY <1>3, <2>3, <3>1
    <2> QED BY <1>6, <2>2, <2>3 DEF VideoCreatePcm
  <1> QED BY <1>4, <1>5, <1>6

\* append(), abort() and the ends of writes change neither the files nor
\* finalize(); the calls on v become w.
VideoQuiet(v, w) ==
    /\ w \in VideoTable /\ SetVideo(v, w)
    /\ UNCHANGED <<files, videoLife, scenario>>
    /\ w.create = video[v].create /\ w.finalize = video[v].finalize
    /\ w.answer = video[v].answer /\ w.renamed = video[v].renamed
    /\ w.open => video[v].open
    /\ w.told # video[v].told => video[v].create = "done"
    /\ w.told = "unknown" /\ video[v].told # "unknown" =>
         v \notin videoSessions /\ ~video[v].remembered
    /\ \/ /\ videoSessions' = videoSessions /\ w.remembered = video[v].remembered
          /\ w.abort = video[v].abort \/ ~w.open
       \/ /\ videoSessions' = videoSessions \ {v}
          /\ v \in videoSessions /\ w.remembered /\ w.abort = "drain"

(* What is said of a video withstands its quiet calls. *)
LEMMA VideoQuietKeeps ==
  ASSUME FilesTypeOK, VideoTypeOK, VideoInv, NEW v \in Videos, NEW w, VideoQuiet(v, w)
  PROVE  VideoKeeps
  <1>1. FilesBecome(v, Finals(v), Partials(v))
    BY FilesStay DEF VideoQuiet, Names
  <1>2. VideoStepIs(v, w, Finals(v), Partials(v))
    BY <1>1 DEF VideoQuiet, VideoStepIs
  <1>3. /\ VideoSees(v, w, Finals(v), Partials(v)) /\ VideoInvOf(v)
        /\ VideoInvOf(v)' => VideoKeeps
    BY <1>2, VideoStepKeeps
  <1>4. VideoCallsInv(v)'
    BY <1>3 DEF VideoQuiet, VideoInvOf, VideoSees, VideoCallsInv
  <1>5. VideoOwnedInv(v)'
    <2>1. w.told = "unknown" => "webm" \in Finals(v)
      BY <1>3 DEF VideoQuiet, VideoInvOf, VideoCallsInv, VideoOwnedInv
    <2> QED BY <1>3, <2>1 DEF VideoQuiet, VideoInvOf, VideoSees, VideoOwnedInv
  <1>6. VideoKeptInv(v)' /\ VideoPublishedInv(v)'
    BY <1>3 DEF VideoQuiet, VideoInvOf, VideoSees, VideoKeptInv, VideoPublishedInv
  <1>7. VideoFilesInv(v)' /\ VideoUndoInv(v)'
    <2>1. VideoMade(v)' = VideoMade(v)
      BY <1>3 DEF VideoQuiet, VideoSees, VideoMade
    <2> QED BY <1>3, <2>1 DEF VideoQuiet, VideoInvOf, VideoSees, VideoFilesInv, VideoUndoInv
  <1> QED BY <1>3, <1>4, <1>5, <1>6, <1>7 DEF VideoInvOf

(* The quiet calls on a video. *)
LEMMA VideoQuietCallsKeep ==
  ASSUME FilesTypeOK, VideoTypeOK, VideoInv, NEW v \in Videos, scenario' = scenario,
         \/ VideoAppend(v) \/ VideoAbort(v) \/ VideoWriteDone(v)
         \/ VideoWriteFails(v) \/ VideoAbortCloses(v)
  PROVE  VideoKeeps
  <1>0. /\ video[v] \in VideoTable /\ MaxPending \in Nat
        /\ video[v].pending \in 0..MaxPending
    BY VideoIsTyped, FilesAssumption DEF VideoTable
  <1>1. ASSUME NEW u \in VideoTable, StartVideoAbort(v, u),
               UNCHANGED <<files, videoLife, scenario>>,
               u.create = video[v].create, u.finalize = video[v].finalize,
               u.answer = video[v].answer, u.renamed = video[v].renamed,
               u.open = video[v].open, u.abort = video[v].abort,
               u.remembered = video[v].remembered,
               u.told # video[v].told => video[v].create = "done",
               u.told = "unknown" /\ video[v].told # "unknown" =>
                 v \notin videoSessions /\ ~video[v].remembered
        PROVE  VideoKeeps
    <2>1. CASE v \in videoSessions
      <3> DEFINE w == [u EXCEPT !.abort = "drain", !.remembered = TRUE]
      <3>1. /\ w \in VideoTable /\ w.abort = "drain" /\ w.remembered
            /\ w.create = u.create /\ w.finalize = u.finalize /\ w.answer = u.answer
            /\ w.renamed = u.renamed /\ w.open = u.open /\ w.told = u.told
        BY DEF VideoTable
      <3>2. SetVideo(v, w) /\ videoSessions' = videoSessions \ {v}
        BY <1>1, <2>1 DEF StartVideoAbort
      <3> HIDE DEF w
      <3>3. VideoQuiet(v, w)
        BY <1>1, <2>1, <3>1, <3>2 DEF VideoQuiet
      <3> QED BY <3>3, VideoQuietKeeps
    <2>2. CASE v \notin videoSessions
      <3>1. SetVideo(v, u) /\ videoSessions' = videoSessions
        BY <1>1, <2>2 DEF StartVideoAbort
      <3>2. VideoQuiet(v, u)
        BY <1>1, <3>1 DEF VideoQuiet
      <3> QED BY <3>2, VideoQuietKeeps
    <2> QED BY <2>1, <2>2
  <1>2. CASE VideoAppend(v) /\ video[v].pending = MaxPending
    <2>1. StartVideoAbort(v, video[v]) /\ UNCHANGED <<files, videoLife, scenario>>
      BY <1>2 DEF VideoAppend
    <2> QED BY <1>0, <1>1, <2>1
  <1>3. CASE VideoAppend(v) /\ video[v].pending # MaxPending
    <2> DEFINE w == [video[v] EXCEPT !.pending = @ + 1]
    <2>1. /\ SetVideo(v, w) /\ videoSessions' = videoSessions
          /\ UNCHANGED <<files, videoLife, scenario>>
      BY <1>3 DEF VideoAppend
    <2>2. video[v].pending + 1 \in 0..MaxPending
      BY <1>0, <1>3
    <2>3. /\ w \in VideoTable /\ w.abort = video[v].abort /\ w.told = video[v].told
          /\ w.create = video[v].create /\ w.finalize = video[v].finalize
          /\ w.answer = video[v].answer /\ w.open = video[v].open
          /\ w.remembered = video[v].remembered /\ w.renamed = video[v].renamed
      BY <1>0, <2>2 DEF VideoTable
    <2> HIDE DEF w
    <2>4. VideoQuiet(v, w)
      BY <2>1, <2>3 DEF VideoQuiet
    <2> QED BY <2>4, VideoQuietKeeps
  <1>4. CASE VideoAbort(v)
    <2> DEFINE told == IF v \in videoSessions \/ video[v].remembered
                       THEN "path" ELSE "unknown"
               u == [video[v] EXCEPT !.told = told]
    <2>1. /\ StartVideoAbort(v, u) /\ UNCHANGED <<files, videoLife, scenario>>
          /\ video[v].create = "done"
      BY <1>4 DEF VideoAbort
    <2>2. /\ told \in {"path", "unknown"}
          /\ told = "unknown" => v \notin videoSessions /\ ~video[v].remembered
      OBVIOUS
    <2> HIDE DEF told
    <2>3. /\ u \in VideoTable /\ u.abort = video[v].abort /\ u.told = told
          /\ u.create = video[v].create /\ u.finalize = video[v].finalize
          /\ u.answer = video[v].answer /\ u.open = video[v].open
          /\ u.remembered = video[v].remembered /\ u.renamed = video[v].renamed
      BY <1>0, <2>2 DEF VideoTable
    <2> HIDE DEF u
    <2> QED BY <1>1, <2>1, <2>2, <2>3
  <1>5. CASE VideoWriteDone(v)
    <2> DEFINE w == [video[v] EXCEPT !.pending = @ - 1]
    <2>1. /\ SetVideo(v, w) /\ videoSessions' = videoSessions /\ video[v].pending > 0
          /\ UNCHANGED <<files, videoLife, scenario>>
      BY <1>5 DEF VideoWriteDone
    <2>2. video[v].pending - 1 \in 0..MaxPending
      BY <1>0, <2>1
    <2>3. /\ w \in VideoTable /\ w.abort = video[v].abort /\ w.told = video[v].told
          /\ w.create = video[v].create /\ w.finalize = video[v].finalize
          /\ w.answer = video[v].answer /\ w.open = video[v].open
          /\ w.remembered = video[v].remembered /\ w.renamed = video[v].renamed
      BY <1>0, <2>2 DEF VideoTable
    <2> HIDE DEF w
    <2>4. VideoQuiet(v, w)
      BY <2>1, <2>3 DEF VideoQuiet
    <2> QED BY <2>4, VideoQuietKeeps
  <1>6. CASE VideoWriteFails(v)
    <2> DEFINE u == [video[v] EXCEPT !.pending = 0, !.failed = TRUE]
    <2>1. StartVideoAbort(v, u) /\ UNCHANGED <<files, videoLife, scenario>>
      BY <1>6 DEF VideoWriteFails
    <2>2. 0 \in 0..MaxPending
      BY <1>0
    <2>3. /\ u \in VideoTable /\ u.abort = video[v].abort /\ u.told = video[v].told
          /\ u.create = video[v].create /\ u.finalize = video[v].finalize
          /\ u.answer = video[v].answer /\ u.open = video[v].open
          /\ u.remembered = video[v].remembered /\ u.renamed = video[v].renamed
      BY <1>0, <2>2 DEF VideoTable
    <2> HIDE DEF u
    <2> QED BY <1>1, <2>1, <2>3
  <1>7. CASE VideoAbortCloses(v)
    <2> DEFINE w == [video[v] EXCEPT !.abort = "done", !.open = FALSE]
    <2>1. /\ SetVideo(v, w) /\ videoSessions' = videoSessions
          /\ UNCHANGED <<files, videoLife, scenario>>
      BY <1>7 DEF VideoAbortCloses
    <2>2. /\ w \in VideoTable /\ ~w.open /\ w.told = video[v].told
          /\ w.create = video[v].create /\ w.finalize = video[v].finalize
          /\ w.answer = video[v].answer
          /\ w.remembered = video[v].remembered /\ w.renamed = video[v].renamed
      BY <1>0 DEF VideoTable
    <2> HIDE DEF w
    <2>3. VideoQuiet(v, w)
      BY <2>1, <2>2 DEF VideoQuiet
    <2> QED BY <2>3, VideoQuietKeeps
  <1> QED BY <1>2, <1>3, <1>4, <1>5, <1>6, <1>7

(* finalize() of a video goes on, as long as it has renamed nothing. *)
LEMMA VideoAdvanceKeeps ==
  ASSUME FilesTypeOK, VideoTypeOK, VideoInv, NEW v \in Videos, NEW w, NEW p,
         VideoStepIs(v, w, Finals(v), p), videoSessions' = videoSessions,
         video[v].create = "done",
         video[v].finalize \in {"none", "drain", "sync", "metadata", "log", "close"},
         w.finalize \in {"drain", "sync", "metadata", "log", "close", "publish"},
         w.create = "done", w.answer = "none", w.renamed = {},
         w.told = video[v].told, w.remembered = video[v].remembered,
         w.finalize = "publish" => ~w.open,
         Partials(v) \subseteq p,
         p \subseteq VideoMade(v)', ~May({"old"}) => VideoMade(v)' \subseteq p
  PROVE  VideoKeeps
  <1>1. /\ VideoSees(v, w, Finals(v), p) /\ VideoInvOf(v)
        /\ VideoInvOf(v)' => VideoKeeps
    BY VideoStepKeeps
  <1>2. Finals(v) = {}
    BY <1>1 DEF VideoInvOf, VideoCallsInv, VideoFilesInv, Undoing
  <1>3. VideoCallsInv(v)'
    BY <1>1 DEF VideoInvOf, VideoSees, VideoCallsInv, VideoPrefixes, Undoing
  <1>4. VideoOwnedInv(v)'
    BY <1>1 DEF VideoInvOf, VideoSees, VideoOwnedInv
  <1>5. VideoKeptInv(v)' /\ VideoPublishedInv(v)'
    BY <1>1, <1>2 DEF VideoInvOf, VideoSees, VideoKeptInv, VideoPublishedInv
  <1>6. VideoFilesInv(v)' /\ VideoUndoInv(v)'
    BY <1>1, <1>2 DEF VideoSees, VideoFilesInv, VideoUndoInv, Undoing
  <1> QED BY <1>1, <1>3, <1>4, <1>5, <1>6 DEF VideoInvOf

(* finalize() of a video throws. *)
LEMMA VideoThrowsKeeps ==
  ASSUME FilesTypeOK, VideoTypeOK, VideoInv, NEW v \in Videos, VideoThrows(v),
         UNCHANGED <<files, videoSessions, videoLife, scenario>>,
         video[v].finalize \in {"drain", "sync", "metadata", "log", "close", "publish"}
  PROVE  VideoKeeps
  <1> DEFINE w == [video[v] EXCEPT !.finalize = "undoPcm", !.open = FALSE]
  <1>0. video[v] \in VideoTable
    BY VideoIsTyped
  <1>1. /\ w \in VideoTable /\ SetVideo(v, w) /\ w.finalize = "undoPcm" /\ ~w.open
        /\ w.create = video[v].create /\ w.answer = video[v].answer
        /\ w.told = video[v].told /\ w.remembered = video[v].remembered
        /\ w.renamed = video[v].renamed
    BY <1>0 DEF VideoTable, VideoThrows
  <1> HIDE DEF w
  <1>2. VideoStepIs(v, w, Finals(v), Partials(v))
    BY <1>1, FilesStay DEF VideoStepIs, Names
  <1>3. /\ VideoSees(v, w, Finals(v), Partials(v)) /\ VideoInvOf(v)
        /\ VideoInvOf(v)' => VideoKeeps
    BY <1>2, VideoStepKeeps
  <1>4. /\ video[v].create = "done" /\ video[v].answer = "none"
        /\ video[v].renamed \in VideoPrefixes
    BY <1>3 DEF VideoInvOf, VideoCallsInv, VideoPrefixes
  <1>5. /\ Finals(v) = video[v].renamed /\ Partials(v) \subseteq VideoKinds
        /\ "webm" \notin Finals(v)
    BY <1>3, <1>4 DEF VideoInvOf, VideoFilesInv, VideoMade, Undoing, VideoKinds,
                      VideoPrefixes
  <1>6. VideoCallsInv(v)' /\ VideoOwnedInv(v)'
    BY <1>1, <1>3, <1>4
       DEF VideoInvOf, VideoSees, VideoCallsInv, VideoOwnedInv, Undoing
  <1>7. VideoKeptInv(v)' /\ VideoPublishedInv(v)'
    BY <1>1, <1>3, <1>4, <1>5
       DEF VideoInvOf, VideoSees, VideoKeptInv, VideoPublishedInv
  <1>8. VideoFilesInv(v)'
    BY <1>1, <1>3, <1>4 DEF VideoSees, VideoFilesInv, Undoing
  <1>9. VideoUndoInv(v)'
    <2>1. ~May({"undo", "old"}) => {"webm", "pcm"} \subseteq Partials(v) \cup Finals(v)
      BY <1>3, <1>4 DEF VideoInvOf, VideoKeptInv, May
    <2> QED BY <1>1, <1>3, <1>4, <1>5, <2>1 DEF VideoSees, VideoUndoInv, Undoing
  <1> QED BY <1>3, <1>6, <1>7, <1>8, <1>9 DEF VideoInvOf

(* The steps of finalize() up to the first rename. *)
LEMMA VideoFinalizeKeeps ==
  ASSUME FilesTypeOK, VideoTypeOK, VideoInv, NEW v \in Videos, scenario' = scenario,
         \/ VideoFinalize(v, TRUE) \/ VideoDrained(v) \/ VideoSynced(v)
         \/ VideoWritesMetadata(v) \/ VideoWritesLog(v) \/ VideoCloses(v)
  PROVE  VideoKeeps
  <1>0. video[v] \in VideoTable /\ VideoInvOf(v) /\ v \in Names
    BY VideoIsTyped DEF VideoInv, Names
  <1>1. UNCHANGED <<videoSessions, videoLife, scenario>>
    BY DEF VideoFinalize, VideoDrained, VideoSynced, VideoWritesMetadata,
           VideoWritesLog, VideoWrites, VideoCloses
  <1>2. /\ video[v].finalize \in {"none", "drain", "sync", "metadata", "log", "close"}
        /\ video[v].finalize = "none" => v \in videoSessions
    BY DEF VideoFinalize, VideoDrained, VideoSynced, VideoWritesMetadata,
           VideoWritesLog, VideoWrites, VideoCloses, VideoAt, Recording
  <1>3. /\ video[v].create = "done" /\ video[v].answer = "none"
        /\ video[v].renamed = {}
    BY <1>0, <1>2 DEF VideoInvOf, VideoCallsInv
  <1>4. /\ Partials(v) \subseteq VideoMade(v)
        /\ ~May({"old"}) => VideoMade(v) \subseteq Partials(v)
    BY <1>0, <1>2, <1>3 DEF VideoInvOf, VideoFilesInv, Undoing
  <1>5. ASSUME NEW w, NEW p, w \in VideoTable, SetVideo(v, w),
               FilesBecome(v, Finals(v), p),
               w.finalize \in {"drain", "sync", "metadata", "log", "close", "publish"},
               w.create = video[v].create, w.answer = video[v].answer,
               w.renamed = video[v].renamed,
               w.told = video[v].told, w.remembered = video[v].remembered,
               w.finalize = "publish" => ~w.open,
               \/ /\ p = Partials(v)
                  /\ \/ /\ video[v].finalize \in {"none", "drain", "sync"}
                        /\ w.finalize \in {"drain", "sync", "metadata"}
                     \/ video[v].finalize = "close" /\ w.finalize = "publish"
               \/ /\ p = Partials(v) \cup {"json"}
                  /\ video[v].finalize = "metadata" /\ w.finalize = "log"
               \/ /\ p = Partials(v) \cup {"log"}
                  /\ video[v].finalize = "log" /\ w.finalize = "close"
        PROVE  VideoKeeps
    <2>1. VideoStepIs(v, w, Finals(v), p)
      BY <1>1, <1>5 DEF VideoStepIs
    <2>2. VideoSees(v, w, Finals(v), p)
      BY <2>1, VideoStepKeeps
    <2>3. /\ Partials(v) \subseteq p /\ p \subseteq VideoMade(v)'
          /\ ~May({"old"}) => VideoMade(v)' \subseteq p
      BY <1>4, <1>5, <2>2 DEF VideoSees, VideoMade, VideoKinds
    <2> QED BY <1>1, <1>2, <1>3, <1>5, <2>1, <2>3, VideoAdvanceKeeps
  <1>6. ASSUME NEW next \in {"drain", "sync", "metadata", "log", "close"},
               VideoGoes(v, next)
        PROVE  \E w : /\ w \in VideoTable /\ SetVideo(v, w) /\ w.finalize = next
                      /\ w.create = video[v].create /\ w.answer = video[v].answer
                      /\ w.renamed = video[v].renamed /\ w.told = video[v].told
                      /\ w.remembered = video[v].remembered
    <2> DEFINE x == [video[v] EXCEPT !.finalize = next]
    <2>1. /\ x \in VideoTable /\ SetVideo(v, x) /\ x.finalize = next
          /\ x.create = video[v].create /\ x.answer = video[v].answer
          /\ x.renamed = video[v].renamed /\ x.told = video[v].told
          /\ x.remembered = video[v].remembered
      BY <1>0, <1>6 DEF VideoTable, VideoGoes
    <2> QED BY <2>1
  <1>7. files' = files => FilesBecome(v, Finals(v), Partials(v))
    BY <1>0, FilesStay
  <1>8. CASE VideoThrows(v) /\ files' = files /\ video[v].finalize # "none"
    BY <1>1, <1>2, <1>8, VideoThrowsKeeps
  <1>9. CASE VideoFinalize(v, TRUE)
    <2>1. /\ VideoGoes(v, "drain") /\ files' = files /\ video[v].finalize = "none"
      BY <1>9 DEF VideoFinalize, Recording
    <2> QED BY <1>5, <1>6, <1>7, <2>1
  <1>10. CASE VideoDrained(v)
    <2>1. files' = files /\ video[v].finalize = "drain"
          /\ (VideoThrows(v) \/ VideoGoes(v, "sync"))
      BY <1>10 DEF VideoDrained, VideoAt
    <2> QED BY <1>5, <1>6, <1>7, <1>8, <2>1
  <1>11. CASE VideoSynced(v)
    <2>1. files' = files /\ video[v].finalize = "sync"
          /\ (VideoThrows(v) \/ VideoGoes(v, "metadata"))
      BY <1>11 DEF VideoSynced, VideoAt
    <2> QED BY <1>5, <1>6, <1>7, <1>8, <2>1
  <1>12. CASE VideoWritesMetadata(v)
    <2>1. /\ video[v].finalize = "metadata"
          /\ \/ AddFile(v, Partial("json")) /\ VideoGoes(v, "log")
             \/ VideoThrows(v) /\ files' = files
      BY <1>12 DEF VideoWritesMetadata, VideoWrites, VideoAt
    <2>2. AddFile(v, Partial("json")) => FilesBecome(v, Finals(v), Partials(v) \cup {"json"})
      BY <1>0, FileAdded DEF Kinds
    <2> QED BY <1>5, <1>6, <1>8, <2>1, <2>2
  <1>13. CASE VideoWritesLog(v)
    <2>1. /\ video[v].finalize = "log"
          /\ \/ AddFile(v, Partial("log")) /\ VideoGoes(v, "close")
             \/ VideoThrows(v) /\ files' = files
      BY <1>13 DEF VideoWritesLog, VideoWrites, VideoAt
    <2>2. AddFile(v, Partial("log")) => FilesBecome(v, Finals(v), Partials(v) \cup {"log"})
      BY <1>0, FileAdded DEF Kinds
    <2> QED BY <1>5, <1>6, <1>8, <2>1, <2>2
  <1>14. CASE VideoCloses(v)
    <2>1. /\ video[v].finalize = "close" /\ files' = files
          /\ \/ SetVideo(v, [video[v] EXCEPT !.finalize = "publish", !.open = FALSE])
             \/ VideoThrows(v)
      BY <1>14 DEF VideoCloses, VideoAt
    <2>2. CASE SetVideo(v, [video[v] EXCEPT !.finalize = "publish", !.open = FALSE])
      <3> DEFINE x == [video[v] EXCEPT !.finalize = "publish", !.open = FALSE]
      <3>1. /\ x \in VideoTable /\ SetVideo(v, x) /\ x.finalize = "publish" /\ ~x.open
            /\ x.create = video[v].create /\ x.answer = video[v].answer
            /\ x.renamed = video[v].renamed /\ x.told = video[v].told
            /\ x.remembered = video[v].remembered
        BY <1>0, <2>2 DEF VideoTable
      <3> HIDE DEF x
      <3> QED BY <1>5, <1>7, <2>1, <3>1
    <2> QED BY <1>8, <2>1, <2>2
  <1> QED BY <1>9, <1>10, <1>11, <1>12, <1>13, <1>14

(* A video whose speaker log is invalid is refused and aborted. *)
LEMMA VideoRefusedKeeps ==
  ASSUME FilesTypeOK, VideoTypeOK, VideoInv, NEW v \in Videos, scenario' = scenario,
         VideoFinalize(v, FALSE)
  PROVE  VideoKeeps
  <1> DEFINE u == [video[v] EXCEPT !.finalize = "done", !.answer = "error"]
             w == [u EXCEPT !.abort = "drain", !.remembered = TRUE]
  <1>0. video[v] \in VideoTable
    BY VideoIsTyped
  <1>1. /\ v \in videoSessions /\ video[v].finalize = "none" /\ SetVideo(v, w)
        /\ videoSessions' = videoSessions \ {v} /\ UNCHANGED <<files, videoLife, scenario>>
    BY DEF VideoFinalize, StartVideoAbort, Recording
  <1>2. /\ u \in VideoTable /\ u.finalize = "done" /\ u.answer = "error"
        /\ u.create = video[v].create /\ u.told = video[v].told
        /\ u.renamed = video[v].renamed
    BY <1>0 DEF VideoTable
  <1> HIDE DEF u
  <1>3. /\ w \in VideoTable /\ w.finalize = "done" /\ w.answer = "error"
        /\ w.create = video[v].create /\ w.told = video[v].told
        /\ w.renamed = video[v].renamed /\ w.abort = "drain" /\ w.remembered
    BY <1>2 DEF VideoTable
  <1> HIDE DEF w
  <1>4. VideoStepIs(v, w, Finals(v), Partials(v))
    BY <1>1, <1>3, FilesStay DEF VideoStepIs, Names
  <1>5. /\ VideoSees(v, w, Finals(v), Partials(v)) /\ VideoInvOf(v)
        /\ VideoInvOf(v)' => VideoKeeps
    BY <1>4, VideoStepKeeps
  <1>6. video[v].create = "done" /\ video[v].renamed = {} /\ VideoMade(v) = {"webm", "pcm"}
    BY <1>1, <1>5 DEF VideoInvOf, VideoCallsInv, VideoMade
  <1>7. /\ Finals(v) = {} /\ Partials(v) \subseteq {"webm", "pcm"}
        /\ ~May({"old"}) => Partials(v) = {"webm", "pcm"}
    BY <1>1, <1>5, <1>6 DEF VideoInvOf, VideoFilesInv, Undoing
  <1>8. VideoCallsInv(v)' /\ VideoOwnedInv(v)'
    BY <1>1, <1>3, <1>5, <1>6
       DEF VideoInvOf, VideoSees, VideoCallsInv, VideoOwnedInv, Undoing
  <1>9. VideoKeptInv(v)' /\ VideoPublishedInv(v)'
    BY <1>3, <1>5, <1>7 DEF VideoInvOf, VideoSees, VideoKeptInv, VideoPublishedInv
  <1>10. VideoFilesInv(v)'
    BY <1>3, <1>5, <1>6 DEF VideoSees, VideoFilesInv
  <1>11. VideoUndoInv(v)'
    <2>1. ~May({"undo", "old"}) => ~May({"old"})
      BY DEF May
    <2> QED BY <1>3, <1>5, <1>7, <2>1 DEF VideoSees, VideoUndoInv, Undoing
  <1> QED BY <1>5, <1>8, <1>9, <1>10, <1>11 DEF VideoInvOf

(* The order of the renames: the WebM comes last. *)
LEMMA VideoPublishIsOrdered ==
  ASSUME NEW renamed \in VideoPrefixes, NEW k,
         k = VideoPublishOrder[Cardinality(renamed) + 1]
  PROVE  /\ k \in VideoKinds \ renamed
         /\ k # "webm" => renamed \cup {k} \in VideoPrefixes
         /\ k = "webm" => renamed = {"pcm", "log", "json"}
         /\ renamed \cup {k} = {"webm", "pcm", "json", "log"} <=> k = "webm"
  <1>1. Cardinality({}) = 0 /\ IsFiniteSet({})
    BY FS_EmptySet
  <1>2. Cardinality({"pcm"}) = 1 /\ IsFiniteSet({"pcm"})
    BY FS_Singleton
  <1>3. Cardinality({"pcm"} \cup {"log"}) = 2 /\ IsFiniteSet({"pcm"} \cup {"log"})
    BY <1>2, FS_AddElement
  <1>4. Cardinality({"pcm"} \cup {"log"} \cup {"json"}) = 3
    BY <1>3, FS_AddElement
  <1>5. {"pcm"} \cup {"log"} = {"pcm", "log"}
        /\ {"pcm"} \cup {"log"} \cup {"json"} = {"pcm", "log", "json"}
    OBVIOUS
  <1>6. CASE renamed = {}
    <2>1. VideoPublishOrder[Cardinality(renamed) + 1] = "pcm"
      BY <1>1, <1>6 DEF VideoPublishOrder
    <2> QED BY <1>6, <2>1 DEF VideoKinds, VideoPrefixes
  <1>7. CASE renamed = {"pcm"}
    <2>1. VideoPublishOrder[Cardinality(renamed) + 1] = "log"
      BY <1>2, <1>7 DEF VideoPublishOrder
    <2> QED BY <1>7, <2>1 DEF VideoKinds, VideoPrefixes
  <1>8. CASE renamed = {"pcm", "log"}
    <2>1. VideoPublishOrder[Cardinality(renamed) + 1] = "json"
      BY <1>3, <1>5, <1>8 DEF VideoPublishOrder
    <2> QED BY <1>8, <2>1 DEF VideoKinds, VideoPrefixes
  <1>9. CASE renamed = {"pcm", "log", "json"}
    <2>1. VideoPublishOrder[Cardinality(renamed) + 1] = "webm"
      BY <1>4, <1>5, <1>9 DEF VideoPublishOrder
    <2> QED BY <1>9, <2>1 DEF VideoKinds, VideoPrefixes
  <1> QED BY <1>6, <1>7, <1>8, <1>9 DEF VideoPrefixes

(* finalize() renames the next file of a video or throws. *)
LEMMA VideoPublishesKeeps ==
  ASSUME FilesTypeOK, VideoTypeOK, VideoInv, NEW v \in Videos, scenario' = scenario,
         VideoPublishes(v)
  PROVE  VideoKeeps
  <1>0. video[v] \in VideoTable /\ VideoInvOf(v) /\ v \in Names
    BY VideoIsTyped DEF VideoInv, Names
  <1>1. video[v].finalize = "publish" /\ UNCHANGED <<videoLife, scenario>>
    BY DEF VideoPublishes, VideoAt
  <1>2. /\ video[v].create = "done" /\ video[v].answer = "none" /\ ~video[v].open
        /\ video[v].renamed \in VideoPrefixes
    BY <1>0, <1>1 DEF VideoInvOf, VideoCallsInv
  <1> PICK k : k = VideoPublishOrder[Cardinality(video[v].renamed) + 1]
    OBVIOUS
  <1>3. /\ k = VideoPublishOrder[Cardinality(video[v].renamed) + 1]
        /\ k \in VideoKinds \ video[v].renamed
        /\ k # "webm" => video[v].renamed \cup {k} \in VideoPrefixes
        /\ k = "webm" => video[v].renamed = {"pcm", "log", "json"}
        /\ video[v].renamed \cup {k} = {"webm", "pcm", "json", "log"} <=> k = "webm"
    BY <1>2, VideoPublishIsOrdered
  <1>4. k \in Kinds
    BY <1>3 DEF VideoKinds, Kinds
  <1>5. /\ Finals(v) = video[v].renamed
        /\ Partials(v) \subseteq VideoKinds \ video[v].renamed
        /\ ~May({"old"}) => VideoKinds \ video[v].renamed \subseteq Partials(v)
    BY <1>0, <1>1, <1>2 DEF VideoInvOf, VideoFilesInv, VideoMade, Undoing
  <1>6. CASE /\ Rename(v, k)
             /\ SetVideo(v, [video[v] EXCEPT
                    !.renamed = @ \cup {k},
                    !.finalize = IF k = "webm" THEN "announce" ELSE "publish"])
             /\ videoSessions' = videoSessions \ (IF k = "webm" THEN {v} ELSE {})
    <2> DEFINE next == IF k = "webm" THEN "announce" ELSE "publish"
               w == [video[v] EXCEPT !.renamed = @ \cup {k}, !.finalize = next]
               f == Finals(v) \cup {k}
               p == Partials(v) \ {k}
    <2>1. next \in {"announce", "publish"} /\ (next = "announce" <=> k = "webm")
      OBVIOUS
    <2>2. SetVideo(v, w)
      BY <1>6
    <2> HIDE DEF next
    <2>3. /\ w \in VideoTable /\ w.finalize = next /\ w.create = "done"
          /\ w.answer = "none" /\ ~w.open /\ w.renamed = video[v].renamed \cup {k}
          /\ w.told = video[v].told /\ w.remembered = video[v].remembered
      BY <1>0, <1>2, <1>4, <2>1 DEF VideoTable
    <2>4. FilesBecome(v, f, p)
      BY <1>0, <1>4, <1>6, FileRenamed
    <2>5. /\ p \cup f = Partials(v) \cup Finals(v) \cup {k}
          /\ f = video[v].renamed \cup {k}
          /\ p \subseteq VideoKinds \ (video[v].renamed \cup {k})
          /\ ~May({"old"}) => VideoKinds \ (video[v].renamed \cup {k}) \subseteq p
          /\ k = "webm" => f = VideoKinds /\ p = {}
          /\ "webm" \in f <=> k = "webm"
      <3>1. "webm" \notin video[v].renamed
        BY <1>2 DEF VideoPrefixes
      <3> QED BY <1>3, <1>5, <3>1 DEF VideoKinds
    <2> HIDE DEF w, f, p
    <2>6. /\ videoSessions' \in {videoSessions, videoSessions \ {v}}
          /\ k # "webm" => videoSessions' = videoSessions
      BY <1>6
    <2>7. VideoStepIs(v, w, f, p)
      BY <1>1, <2>2, <2>3, <2>4, <2>6 DEF VideoStepIs
    <2>8. VideoSees(v, w, f, p) /\ (VideoInvOf(v)' => VideoKeeps)
      BY <2>7, VideoStepKeeps
    <2>9. VideoCallsInv(v)'
      BY <1>0, <1>2, <1>3, <1>5, <2>1, <2>3, <2>5, <2>6, <2>8
         DEF VideoInvOf, VideoSees, VideoCallsInv, Undoing
    <2>10. VideoOwnedInv(v)'
      BY <1>0, <2>3, <2>5, <2>8, <1>5 DEF VideoInvOf, VideoSees, VideoOwnedInv
    <2>11. VideoKeptInv(v)' /\ VideoPublishedInv(v)'
      BY <1>0, <1>2, <2>1, <2>3, <2>5, <2>8
         DEF VideoInvOf, VideoSees, VideoKeptInv, VideoPublishedInv, VideoKinds
    <2>12. VideoFilesInv(v)'
      <3>1. VideoMade(v)' = VideoKinds
        BY <2>1, <2>3, <2>8 DEF VideoSees, VideoMade
      <3> QED BY <2>1, <2>3, <2>5, <2>8, <3>1 DEF VideoSees, VideoFilesInv
    <2>13. VideoUndoInv(v)'
      BY <2>1, <2>3, <2>8 DEF VideoSees, VideoUndoInv, Undoing
    <2> QED BY <2>8, <2>9, <2>10, <2>11, <2>12, <2>13 DEF VideoInvOf
  <1>7. CASE VideoThrows(v) /\ UNCHANGED <<files, videoSessions>>
    BY <1>1, <1>7, VideoThrowsKeeps
  <1> QED
    <2>1. \/ /\ Rename(v, k)
             /\ SetVideo(v, [video[v] EXCEPT
                    !.renamed = @ \cup {k},
                    !.finalize = IF k = "webm" THEN "announce" ELSE "publish"])
             /\ videoSessions' = videoSessions \ (IF k = "webm" THEN {v} ELSE {})
          \/ VideoThrows(v) /\ UNCHANGED <<files, videoSessions>>
      BY <1>3 DEF VideoPublishes
    <2> QED BY <1>6, <1>7, <2>1

(* A published video is announced. *)
LEMMA VideoAnnouncedKeeps ==
  ASSUME FilesTypeOK, VideoTypeOK, VideoInv, NEW v \in Videos, scenario' = scenario,
         VideoAnnounced(v)
  PROVE  VideoKeeps
  <1>0. video[v] \in VideoTable
    BY VideoIsTyped
  <1>1. PICK answer \in {"ok", "rejected"} :
          SetVideo(v, [video[v] EXCEPT !.finalize = "done", !.answer = answer])
    BY DEF VideoAnnounced
  <1> DEFINE w == [video[v] EXCEPT !.finalize = "done", !.answer = answer]
  <1>2. /\ video[v].finalize = "announce" /\ SetVideo(v, w)
        /\ UNCHANGED <<files, videoSessions, videoLife, scenario>>
    BY <1>1 DEF VideoAnnounced, VideoAt
  <1>3. /\ w \in VideoTable /\ w.finalize = "done" /\ w.answer = answer
        /\ w.create = video[v].create /\ w.told = video[v].told
        /\ w.renamed = video[v].renamed /\ w.open = video[v].open
        /\ w.remembered = video[v].remembered
    BY <1>0 DEF VideoTable
  <1> HIDE DEF w
  <1>4. VideoStepIs(v, w, Finals(v), Partials(v))
    BY <1>2, <1>3, FilesStay DEF VideoStepIs, Names
  <1>5. /\ VideoSees(v, w, Finals(v), Partials(v)) /\ VideoInvOf(v)
        /\ VideoInvOf(v)' => VideoKeeps
    BY <1>4, VideoStepKeeps
  <1>6. /\ video[v].create = "done" /\ ~video[v].open
        /\ Finals(v) = VideoKinds /\ Partials(v) = {}
    BY <1>2, <1>5 DEF VideoInvOf, VideoCallsInv, VideoFilesInv
  <1>7. VideoCallsInv(v)' /\ VideoOwnedInv(v)'
    BY <1>2, <1>3, <1>5, <1>6
       DEF VideoInvOf, VideoSees, VideoCallsInv, VideoOwnedInv, Undoing
  <1>8. VideoKeptInv(v)' /\ VideoPublishedInv(v)'
    BY <1>3, <1>5, <1>6
       DEF VideoInvOf, VideoSees, VideoKeptInv, VideoPublishedInv, VideoKinds
  <1>9. VideoFilesInv(v)' /\ VideoUndoInv(v)'
    BY <1>3, <1>5, <1>6 DEF VideoSees, VideoFilesInv, VideoUndoInv, Undoing
  <1> QED BY <1>5, <1>7, <1>8, <1>9 DEF VideoInvOf


\* A step of the rollback leaves the calls w, the final files f and the partial
\* files p of a video.
VideoUndoes(v, w, f, p) ==
    /\ w \in VideoTable /\ SetVideo(v, w) /\ FilesBecome(v, f, p)
    /\ w.create = video[v].create /\ w.told = video[v].told
    /\ w.renamed = video[v].renamed /\ ~w.open
    /\ \/ w.remembered = video[v].remembered /\ videoSessions' = videoSessions
       \/ w.remembered /\ videoSessions' = videoSessions \ {v}
    /\ {"webm", "pcm"} \cap (Partials(v) \cup Finals(v)) \subseteq p \cup f
    /\ "webm" \notin f

\* In which files it leaves them when nothing else fails.
VideoUndone(v, w, f, p) ==
    /\ w.finalize \in {"undoFinal", "undoPartial"} => w.answer = "none"
    /\ w.finalize = "undoFinal" => f = video[v].renamed \ {"pcm"} /\ p \subseteq VideoKinds
    /\ w.finalize = "undoPartial" => f = {} /\ p \subseteq VideoKinds
    /\ w.finalize = "done" => f = {} /\ p = {"webm", "pcm"}

(* A video whose finalize() is rolled back. *)
LEMMA VideoUndoing ==
  ASSUME VideoTypeOK, VideoInv, NEW v \in Videos, video[v].finalize \in Undoing
  PROVE  /\ video[v] \in VideoTable /\ VideoInvOf(v) /\ v \in Names
         /\ video[v].create = "done" /\ video[v].answer = "none" /\ ~video[v].open
         /\ video[v].renamed \in VideoPrefixes /\ "webm" \notin Finals(v)
         /\ ~May({"undo", "old"}) =>
              /\ {"webm", "pcm"} \subseteq Partials(v) \cup Finals(v)
              /\ Partials(v) \subseteq VideoKinds
  <1>0. video[v] \in VideoTable /\ VideoInvOf(v) /\ v \in Names
    BY VideoIsTyped DEF VideoInv, Names
  <1>1. /\ video[v].create = "done" /\ video[v].answer = "none" /\ ~video[v].open
        /\ video[v].renamed \in VideoPrefixes
    BY <1>0 DEF VideoInvOf, VideoCallsInv, Undoing, VideoTable
  <1>2. "webm" \notin Finals(v)
    BY <1>0, <1>1 DEF VideoInvOf, VideoPublishedInv, Undoing
  <1> QED BY <1>0, <1>1, <1>2 DEF VideoInvOf, VideoUndoInv

(* What remains to be shown of a step of the rollback. *)
LEMMA VideoUndoesKeeps ==
  ASSUME FilesTypeOK, VideoTypeOK, VideoInv, NEW v \in Videos, scenario' = scenario,
         video[v].finalize \in Undoing, UNCHANGED videoLife,
         NEW w, NEW f, NEW p, VideoUndoes(v, w, f, p),
         \/ w.finalize \in {"undoFinal", "undoPartial"} /\ w.answer = "none"
         \/ w.finalize = "done" /\ w.answer = "error",
         ~May({"undo", "old"}) => VideoUndone(v, w, f, p)
  PROVE  VideoKeeps
  <1>0. /\ video[v].create = "done" /\ video[v].answer = "none"
        /\ video[v].renamed \in VideoPrefixes /\ "webm" \notin Finals(v)
        /\ ~May({"undo", "old"}) => {"webm", "pcm"} \subseteq Partials(v) \cup Finals(v)
    BY VideoUndoing
  <1>1. VideoStepIs(v, w, f, p)
    BY DEF VideoStepIs, VideoUndoes
  <1>2. VideoSees(v, w, f, p) /\ VideoInvOf(v) /\ (VideoInvOf(v)' => VideoKeeps)
    BY <1>1, VideoStepKeeps
  <1>3. VideoCallsInv(v)'
    BY <1>0, <1>2 DEF VideoUndoes, VideoInvOf, VideoSees, VideoCallsInv, Undoing
  <1>4. VideoOwnedInv(v)'
    BY <1>0, <1>2 DEF VideoUndoes, VideoInvOf, VideoSees, VideoOwnedInv
  <1>5. VideoKeptInv(v)' /\ VideoPublishedInv(v)'
    BY <1>0, <1>2
       DEF VideoUndoes, VideoInvOf, VideoSees, VideoKeptInv, VideoPublishedInv
  <1>6. VideoFilesInv(v)'
    BY <1>0, <1>2 DEF VideoUndoes, VideoSees, VideoFilesInv, Undoing
  <1>7. VideoUndoInv(v)'
    BY <1>0, <1>2 DEF VideoUndoes, VideoUndone, VideoSees, VideoUndoInv, Undoing
  <1> QED BY <1>2, <1>3, <1>4, <1>5, <1>6, <1>7 DEF VideoInvOf

(* The rollback renames the PCM back. *)
LEMMA VideoUndoPcmKeeps ==
  ASSUME FilesTypeOK, VideoTypeOK, VideoInv, NEW v \in Videos, scenario' = scenario,
         VideoUndoPcm(v)
  PROVE  VideoKeeps
  <1> DEFINE w == [video[v] EXCEPT !.finalize = "undoFinal"]
  <1>1. /\ video[v].finalize = "undoPcm" /\ SetVideo(v, w)
        /\ UNCHANGED <<videoSessions, videoLife>>
        /\ \/ "pcm" \in video[v].renamed /\ RenameBack(v, "pcm")
           \/ ("pcm" \in video[v].renamed => May({"undo"})) /\ files' = files
    BY DEF VideoUndoPcm, VideoAt, VideoGoes
  <1>2. /\ video[v].finalize \in Undoing /\ video[v] \in VideoTable /\ VideoInvOf(v)
        /\ v \in Names /\ video[v].answer = "none" /\ ~video[v].open
        /\ "webm" \notin Finals(v) /\ video[v].renamed \in VideoPrefixes
        /\ ~May({"undo", "old"}) => Partials(v) \subseteq VideoKinds
    <2>1. video[v].finalize \in Undoing
      BY <1>1 DEF Undoing
    <2> QED BY <2>1, VideoUndoing
  <1>3. /\ w \in VideoTable /\ w.finalize = "undoFinal" /\ w.answer = "none"
        /\ w.create = video[v].create /\ w.told = video[v].told
        /\ w.renamed = video[v].renamed /\ ~w.open
        /\ w.remembered = video[v].remembered
    BY <1>2 DEF VideoTable
  <1> HIDE DEF w
  <1>4. ~May({"undo", "old"}) => ~May({"undo"}) /\ Finals(v) = video[v].renamed
    BY <1>1, <1>2 DEF VideoInvOf, VideoUndoInv, May
  <1>5. CASE "pcm" \in video[v].renamed /\ RenameBack(v, "pcm")
    <2> DEFINE f == Finals(v) \ {"pcm"}
               p == Partials(v) \cup {"pcm"}
    <2>1. FilesBecome(v, f, p)
      BY <1>2, <1>5, FileRenamedBack DEF Kinds
    <2>2. VideoUndoes(v, w, f, p)
      BY <1>1, <1>2, <1>3, <2>1 DEF VideoUndoes
    <2>3. ~May({"undo", "old"}) => VideoUndone(v, w, f, p)
      BY <1>2, <1>3, <1>4 DEF VideoUndone, VideoKinds
    <2> HIDE DEF f, p
    <2> QED BY <1>1, <1>2, <1>3, <2>2, <2>3, VideoUndoesKeeps
  <1>6. CASE ("pcm" \in video[v].renamed => May({"undo"})) /\ files' = files
    <2>1. FilesBecome(v, Finals(v), Partials(v))
      BY <1>2, <1>6, FilesStay
    <2>2. VideoUndoes(v, w, Finals(v), Partials(v))
      BY <1>1, <1>2, <1>3, <2>1 DEF VideoUndoes
    <2>3. ~May({"undo", "old"}) => VideoUndone(v, w, Finals(v), Partials(v))
      BY <1>2, <1>3, <1>4, <1>6 DEF VideoUndone
    <2> QED BY <1>1, <1>2, <1>3, <2>2, <2>3, VideoUndoesKeeps
  <1> QED BY <1>1, <1>5, <1>6

(* The rollback removes the final metadata and speaker log. *)
LEMMA VideoUndoFinalKeeps ==
  ASSUME FilesTypeOK, VideoTypeOK, VideoInv, NEW v \in Videos, scenario' = scenario,
         VideoUndoFinal(v)
  PROVE  VideoKeeps
  <1> DEFINE w == [video[v] EXCEPT !.finalize = "undoPartial"]
             names == {Final(k) : k \in video[v].renamed \cap {"json", "log"}}
  <1>1. /\ video[v].finalize = "undoFinal" /\ SetVideo(v, w)
        /\ UNCHANGED <<videoSessions, videoLife>>
        /\ VideoRemoves(v, names)
    BY DEF VideoUndoFinal, VideoAt, VideoGoes
  <1>2. /\ video[v].finalize \in Undoing /\ video[v] \in VideoTable /\ VideoInvOf(v)
        /\ v \in Names /\ video[v].answer = "none" /\ ~video[v].open
        /\ "webm" \notin Finals(v) /\ video[v].renamed \in VideoPrefixes
        /\ ~May({"undo", "old"}) => Partials(v) \subseteq VideoKinds
    <2>1. video[v].finalize \in Undoing
      BY <1>1 DEF Undoing
    <2> QED BY <2>1, VideoUndoing
  <1>3. /\ w \in VideoTable /\ w.finalize = "undoPartial" /\ w.answer = "none"
        /\ w.create = video[v].create /\ w.told = video[v].told
        /\ w.renamed = video[v].renamed /\ ~w.open
        /\ w.remembered = video[v].remembered
    BY <1>2 DEF VideoTable
  <1> HIDE DEF w
  <1>4. PICK removed \in SUBSET names :
          (removed # names => May({"undo"})) /\ RemoveFiles(v, removed)
    BY <1>1 DEF VideoRemoves
  <1>5. PICK f : f = {k \in Finals(v) : Final(k) \notin removed}
    OBVIOUS
  <1>6. /\ f \subseteq Finals(v)
        /\ "pcm" \in Finals(v) => "pcm" \in f
        /\ removed = names => f = Finals(v) \ (video[v].renamed \cap {"json", "log"})
    <2>1. \A k \in Finals(v) : k \in Kinds
      BY DEF Finals
    <2>2. "pcm" \in Kinds /\ "json" \in Kinds /\ "log" \in Kinds
      BY DEF Kinds
    <2>3. Final("pcm") \notin names
      BY <2>2, NamesDiffer
    <2>4. \A k \in Finals(v) : Final(k) \in names <=> k \in video[v].renamed \cap {"json", "log"}
      BY <2>1, <2>2, NamesDiffer
    <2> HIDE DEF names
    <2> QED BY <1>4, <1>5, <2>3, <2>4
  <1>7. FilesBecome(v, f, Partials(v))
    <2>1. FilesBecome(v, f, {k \in Partials(v) : Partial(k) \notin removed})
      BY <1>2, <1>4, <1>5, FilesRemoved
    <2>2. {k \in Partials(v) : Partial(k) \notin removed} = Partials(v)
      <3>1. \A k \in Partials(v) : k \in Kinds
        BY DEF Partials
      <3>2. \A k \in video[v].renamed \cap {"json", "log"} : k \in Kinds
        BY DEF Kinds
      <3> QED BY <1>4, <3>1, <3>2, NamesDiffer
    <2> QED BY <2>1, <2>2
  <1>8. ~May({"undo", "old"}) => removed = names /\ Finals(v) = video[v].renamed \ {"pcm"}
    BY <1>1, <1>2, <1>4 DEF VideoInvOf, VideoUndoInv, May
  <1> HIDE DEF names
  <1>9. VideoUndoes(v, w, f, Partials(v))
    BY <1>1, <1>2, <1>3, <1>6, <1>7 DEF VideoUndoes
  <1>10. ~May({"undo", "old"}) => VideoUndone(v, w, f, Partials(v))
    BY <1>2, <1>3, <1>6, <1>8 DEF VideoUndone, VideoPrefixes
  <1> QED BY <1>1, <1>2, <1>3, <1>9, <1>10, VideoUndoesKeeps

(* The rollback removes the partial metadata and speaker log, and the handler
   aborts the session. *)
LEMMA VideoUndoPartialKeeps ==
  ASSUME FilesTypeOK, VideoTypeOK, VideoInv, NEW v \in Videos, scenario' = scenario,
         VideoUndoPartial(v)
  PROVE  VideoKeeps
  <1> DEFINE u == [video[v] EXCEPT !.finalize = "done", !.answer = "error"]
             x == [u EXCEPT !.abort = "drain", !.remembered = TRUE]
             names == {Partial("json"), Partial("log")}
  <1>1. /\ video[v].finalize = "undoPartial" /\ StartVideoAbort(v, u)
        /\ UNCHANGED videoLife /\ VideoRemoves(v, names)
    BY DEF VideoUndoPartial, VideoAt
  <1>2. /\ video[v].finalize \in Undoing /\ video[v] \in VideoTable /\ VideoInvOf(v)
        /\ v \in Names /\ video[v].answer = "none" /\ ~video[v].open
        /\ "webm" \notin Finals(v)
        /\ ~May({"undo", "old"}) => /\ {"webm", "pcm"} \subseteq Partials(v) \cup Finals(v)
                                    /\ Partials(v) \subseteq VideoKinds
    <2>1. video[v].finalize \in Undoing
      BY <1>1 DEF Undoing
    <2> QED BY <2>1, VideoUndoing
  <1>3. /\ u \in VideoTable /\ u.finalize = "done" /\ u.answer = "error"
        /\ u.create = video[v].create /\ u.told = video[v].told
        /\ u.renamed = video[v].renamed /\ ~u.open
        /\ u.remembered = video[v].remembered
    BY <1>2 DEF VideoTable
  <1> HIDE DEF u
  <1>4. /\ x \in VideoTable /\ x.finalize = "done" /\ x.answer = "error"
        /\ x.create = video[v].create /\ x.told = video[v].told
        /\ x.renamed = video[v].renamed /\ ~x.open /\ x.remembered
    BY <1>3 DEF VideoTable
  <1>5. \/ SetVideo(v, x) /\ videoSessions' = videoSessions \ {v}
        \/ SetVideo(v, u) /\ videoSessions' = videoSessions
    <2>1. v \notin videoSessions => videoSessions \ {v} = videoSessions
      OBVIOUS
    <2> QED BY <1>1, <2>1 DEF StartVideoAbort
  <1> HIDE DEF x
  <1>6. PICK removed \in SUBSET names :
          (removed # names => May({"undo"})) /\ RemoveFiles(v, removed)
    BY <1>1 DEF VideoRemoves
  <1>7. PICK p : p = {k \in Partials(v) : Partial(k) \notin removed}
    OBVIOUS
  <1>8. /\ p \subseteq Partials(v)
        /\ {"webm", "pcm"} \cap Partials(v) \subseteq p
        /\ removed = names => p = Partials(v) \ {"json", "log"}
    <2>1. \A k \in Partials(v) : k \in Kinds
      BY DEF Partials
    <2>2. \A k \in Partials(v) : Partial(k) \in names <=> k \in {"json", "log"}
      <3>1. "json" \in Kinds /\ "log" \in Kinds
        BY DEF Kinds
      <3> QED BY <2>1, <3>1, NamesDiffer
    <2> HIDE DEF names
    <2> QED BY <1>6, <1>7, <2>2
  <1>9. FilesBecome(v, Finals(v), p)
    <2>1. FilesBecome(v, {k \in Finals(v) : Final(k) \notin removed}, p)
      BY <1>2, <1>6, <1>7, FilesRemoved
    <2>2. {k \in Finals(v) : Final(k) \notin removed} = Finals(v)
      <3>1. \A k \in Finals(v) : k \in Kinds
        BY DEF Finals
      <3>2. "json" \in Kinds /\ "log" \in Kinds
        BY DEF Kinds
      <3> QED BY <1>6, <3>1, <3>2, NamesDiffer
    <2> QED BY <2>1, <2>2
  <1>10. ~May({"undo", "old"}) => removed = names /\ Finals(v) = {}
    BY <1>1, <1>2, <1>6 DEF VideoInvOf, VideoUndoInv, May
  <1> HIDE DEF names
  <1>11. ASSUME NEW w \in {u, x}, SetVideo(v, w),
                \/ w = u /\ videoSessions' = videoSessions
                \/ w = x /\ videoSessions' = videoSessions \ {v}
         PROVE  VideoKeeps
    <2>1. VideoUndoes(v, w, Finals(v), p)
      BY <1>2, <1>3, <1>4, <1>8, <1>9, <1>11 DEF VideoUndoes
    <2>2. ~May({"undo", "old"}) => VideoUndone(v, w, Finals(v), p)
      BY <1>2, <1>3, <1>4, <1>8, <1>10, <1>11 DEF VideoUndone, VideoKinds
    <2> QED BY <1>1, <1>2, <1>3, <1>4, <2>1, <2>2, <1>11, VideoUndoesKeeps
  <1> QED BY <1>5, <1>11

(* The reaper and the videos. *)
LEMMA ReapKeepsVideos ==
  ASSUME VideoTypeOK, VideoInv, NEW r \in Names, NEW k \in Kinds, Reaped(r, k),
         UNCHANGED videoVars
  PROVE  VideoTypeOK' /\ VideoInv'
  <1>1. /\ video' = video /\ videoSessions' = videoSessions /\ scenario' = scenario
        /\ \A s \in Names \ {r} : files'[s] = files[s]
        /\ Finals(r)' = Finals(r) /\ Partials(r)' = Partials(r) \ {k} /\ May({"old"})
    BY DEF videoVars, Reaped, FilesBecome
  <1>2. VideoTypeOK'
    BY <1>1 DEF VideoTypeOK
  <1>3. ASSUME NEW v \in Videos PROVE VideoInvOf(v)'
    <2>1. VideoInvOf(v)
      BY DEF VideoInv
    <2>2. CASE v # r
      BY <1>1, <2>1, <2>2, OtherVideosKeep DEF Names
    <2>3. CASE v = r
      <3>1. /\ Finals(v)' = Finals(v) /\ Partials(v)' \subseteq Partials(v)
            /\ \A faults : May(faults)' <=> May(faults)
        BY <1>1, <2>3 DEF May
      <3>2. VideoCallsInv(v)' /\ VideoOwnedInv(v)' /\ VideoPublishedInv(v)'
        BY <1>1, <2>1, <3>1
           DEF VideoInvOf, VideoCallsInv, VideoOwnedInv, VideoPublishedInv
      <3>3. VideoKeptInv(v)' /\ VideoUndoInv(v)'
        <4>1. May({"old"}) /\ May({"undo", "old"})
          BY <1>1 DEF May
        <4> QED BY <3>1, <4>1 DEF VideoKeptInv, VideoUndoInv
      <3>4. VideoFilesInv(v)'
        <4>1. VideoMade(v)' = VideoMade(v)
          BY <1>1 DEF VideoMade
        <4> QED BY <1>1, <2>1, <3>1, <4>1 DEF VideoInvOf, VideoFilesInv
      <3> QED BY <3>2, <3>3, <3>4 DEF VideoInvOf
    <2> QED BY <2>2, <2>3
  <1> QED BY <1>2, <1>3 DEF VideoInv

(* What the videos do not take part in keeps what is said of them. *)
LEMMA VideosStay ==
  ASSUME VideoTypeOK, VideoInv, UNCHANGED <<videoVars, scenario>>,
         \A v \in Videos : files'[v] = files[v]
  PROVE  VideoTypeOK' /\ VideoInv'
  <1>1. video' = video /\ videoSessions' = videoSessions /\ scenario' = scenario
    BY DEF videoVars
  <1>2. VideoTypeOK'
    BY <1>1 DEF VideoTypeOK
  <1>3. ASSUME NEW v \in Videos PROVE VideoInvOf(v)'
    <2>1. VideoInvOf(v)
      BY DEF VideoInv
    <2> QED BY <1>1, <2>1, OtherVideosKeep
  <1> QED BY <1>2, <1>3 DEF VideoInv

(* The window of the videos is destroyed. *)
LEMMA DestroyedKeepsVideos ==
  ASSUME VideoTypeOK, VideoInv, VideoOwnerDestroyed, UNCHANGED <<files, scenario>>
  PROVE  VideoTypeOK' /\ VideoInv'
  <1>1. ASSUME NEW v \in Videos
        PROVE  /\ video'[v] \in VideoTable
               /\ video'[v].create = video[v].create
               /\ video'[v].finalize = video[v].finalize
               /\ video'[v].answer = video[v].answer
               /\ video'[v].renamed = video[v].renamed
               /\ video'[v].open = video[v].open /\ video'[v].told = video[v].told
               /\ IF v \in videoSessions
                  THEN video'[v].abort = "drain" /\ video'[v].remembered
                  ELSE /\ video'[v].abort = video[v].abort
                       /\ video'[v].remembered = video[v].remembered
    <2> DEFINE u == [video[v] EXCEPT !.owned = video[v].create = "none"]
               w == [u EXCEPT !.abort = "drain", !.remembered = TRUE]
    <2>1. video'[v] = IF v \in videoSessions THEN w ELSE u
      BY DEF VideoOwnerDestroyed
    <2>2. /\ u \in VideoTable /\ u.create = video[v].create
          /\ u.finalize = video[v].finalize /\ u.answer = video[v].answer
          /\ u.renamed = video[v].renamed /\ u.open = video[v].open
          /\ u.told = video[v].told /\ u.abort = video[v].abort
          /\ u.remembered = video[v].remembered
      BY VideoIsTyped DEF VideoTable
    <2> HIDE DEF u
    <2>3. /\ w \in VideoTable /\ w.create = u.create
          /\ w.finalize = u.finalize /\ w.answer = u.answer
          /\ w.renamed = u.renamed /\ w.open = u.open
          /\ w.told = u.told /\ w.abort = "drain" /\ w.remembered
      BY <2>2 DEF VideoTable
    <2> HIDE DEF w
    <2> QED BY <2>1, <2>2, <2>3
  <1>2. VideoTypeOK'
    <2>1. video' = [v \in Videos |-> video'[v]]
      BY DEF VideoOwnerDestroyed
    <2>2. video' \in [Videos -> VideoTable] /\ videoSessions' = {}
      BY <1>1, <2>1 DEF VideoOwnerDestroyed
    <2> QED BY <2>2 DEF VideoTypeOK, VideoTable
  <1>3. ASSUME NEW v \in Videos PROVE VideoInvOf(v)'
    <2>1. /\ VideoInvOf(v) /\ videoSessions' = {}
          /\ Finals(v)' = Finals(v) /\ Partials(v)' = Partials(v)
          /\ \A faults : May(faults)' <=> May(faults)
      BY DEF VideoInv, VideoOwnerDestroyed, Finals, Partials, Has, May
    <2>2. VideoCallsInv(v)' /\ VideoOwnedInv(v)'
      BY <1>1, <2>1 DEF VideoInvOf, VideoCallsInv, VideoOwnedInv
    <2>3. VideoKeptInv(v)' /\ VideoPublishedInv(v)'
      BY <1>1, <2>1 DEF VideoInvOf, VideoKeptInv, VideoPublishedInv
    <2>4. VideoFilesInv(v)' /\ VideoUndoInv(v)'
      <3>1. VideoMade(v)' = VideoMade(v)
        BY <1>1 DEF VideoMade
      <3> QED BY <1>1, <2>1, <3>1 DEF VideoInvOf, VideoFilesInv, VideoUndoInv
    <2> QED BY <2>2, <2>3, <2>4 DEF VideoInvOf
  <1> QED BY <1>2, <1>3 DEF VideoInv

(* The process with the videos is killed. *)
LEMMA KilledKeepsVideos ==
  ASSUME VideoTypeOK, VideoInv, VideoKilled, UNCHANGED <<files, scenario>>
  PROVE  VideoTypeOK' /\ VideoInv'
  <1>1. ASSUME NEW v \in Videos
        PROVE  /\ video'[v] \in VideoTable
               /\ video'[v].create \in {"none", "failed", "lost"}
               /\ video'[v].create = "lost" <=> video[v].create \in {"done", "lost"}
               /\ video'[v].create = "none" => video[v].create = "none"
               /\ video'[v].finalize = "none" /\ video'[v].answer = "none"
               /\ video'[v].renamed = {} /\ ~video'[v].open
               /\ video'[v].told = "none"
    <2>1. PICK c : /\ c = CASE video[v].create \in {"webm", "pcm"} -> "failed"
                            [] video[v].create = "done" -> "lost"
                            [] OTHER -> video[v].create
                   /\ video'[v] = [NoVideoCalls EXCEPT !.create = c]
      BY DEF VideoKilled
    <2>2. video[v].create \in {"none", "webm", "pcm", "done", "failed", "lost"}
      BY VideoIsTyped DEF VideoTable
    <2>3. /\ c \in {"none", "failed", "lost"}
          /\ c = "lost" <=> video[v].create \in {"done", "lost"}
          /\ c = "none" => video[v].create = "none"
      BY <2>1, <2>2
    <2>4. video'[v] = [NoVideoCalls EXCEPT !.create = c] /\ MaxPending \in Nat
      BY <2>1, FilesAssumption
    <2>5. /\ NoVideoCalls \in VideoTable /\ NoVideoCalls.finalize = "none"
          /\ NoVideoCalls.answer = "none" /\ NoVideoCalls.renamed = {}
          /\ ~NoVideoCalls.open /\ NoVideoCalls.told = "none"
      BY <2>4 DEF NoVideoCalls, VideoTable
    <2> DEFINE w == [NoVideoCalls EXCEPT !.create = c]
    <2>6. /\ w \in VideoTable /\ w.create = c /\ w.finalize = "none"
          /\ w.answer = "none" /\ w.renamed = {} /\ ~w.open /\ w.told = "none"
      BY <2>3, <2>5 DEF VideoTable
    <2>7. video'[v] = w
      BY <2>4
    <2> HIDE DEF w
    <2> QED BY <2>3, <2>6, <2>7
  <1>2. VideoTypeOK'
    <2>1. video' = [v \in Videos |-> video'[v]]
      BY DEF VideoKilled
    <2>2. video' \in [Videos -> VideoTable] /\ videoSessions' = {}
      BY <1>1, <2>1 DEF VideoKilled
    <2> QED BY <2>2 DEF VideoTypeOK, VideoTable
  <1>3. ASSUME NEW v \in Videos PROVE VideoInvOf(v)'
    <2>1. /\ VideoInvOf(v) /\ videoSessions' = {}
          /\ Finals(v)' = Finals(v) /\ Partials(v)' = Partials(v)
          /\ \A faults : May(faults)' <=> May(faults)
      BY DEF VideoInv, VideoKilled, Finals, Partials, Has, May
    <2>2. VideoCallsInv(v)' /\ VideoOwnedInv(v)'
      BY <1>1, <2>1 DEF VideoCallsInv, VideoOwnedInv, Undoing
    <2>3. VideoKeptInv(v)' /\ VideoPublishedInv(v)'
      BY <1>1, <2>1 DEF VideoInvOf, VideoKeptInv, VideoPublishedInv
    <2>4. VideoFilesInv(v)' /\ VideoUndoInv(v)'
      BY <1>1, <2>1 DEF VideoInvOf, VideoFilesInv, VideoUndoInv, Undoing
    <2> QED BY <2>2, <2>3, <2>4 DEF VideoInvOf
  <1> QED BY <1>2, <1>3 DEF VideoInv

-------------------------------------------------------------------------------
(* The whole system. *)

(* A step of the audio channel. *)
LEMMA AudioStepKeeps ==
  ASSUME FilesTypeOK, AudioTypeOK, AudioInv, AudioStep, scenario' = scenario
  PROVE  AudioKeeps
  <1>1. ASSUME NEW r \in Recordings,
               \/ Create(r) \/ Append(r) \/ Abort(r)
               \/ \E hasLog \in BOOLEAN : Finalize(r, hasLog)
        PROVE  AudioKeeps
    BY <1>1, CreateKeeps, QuietCallsKeep, FinalizeBegins
  <1>2. ASSUME NEW r \in Recordings, WriterProceeds(r)
        PROVE  AudioKeeps
    <2>1. CASE CreateMp3(r) \/ CreatePcm(r)
      BY <2>1, CreateMp3Keeps, CreatePcmKeeps
    <2>2. CASE WriteDone(r) \/ WriteFails(r) \/ AbortCloses(r)
      BY <2>2, QuietCallsKeep
    <2>3. CASE FinalizeDrained(r) \/ FinalizeFlushed(r)
      BY <2>3, FinalizeBegins
    <2>4. CASE FinalizeMetadata(r) \/ FinalizeLog(r)
      BY <2>4, FinalizeWritesKeeps
    <2>5. CASE FinalizeCloses(r)
      BY <2>5, FinalizeClosesKeeps
    <2>6. CASE FinalizePublishes(r)
      BY <2>6, FinalizePublishesKeeps
    <2>7. CASE UndoPcm(r)
      BY <2>7, UndoPcmKeeps
    <2>8. CASE UndoFinal(r)
      BY <2>8, UndoFinalKeeps
    <2>9. CASE UndoPartial(r)
      BY <2>9, UndoPartialKeeps
    <2> QED BY <1>2, <2>1, <2>2, <2>3, <2>4, <2>5, <2>6, <2>7, <2>8, <2>9
            DEF WriterProceeds
  <1>3. ASSUME NEW p \in Passes, PassProceeds(p)
        PROVE  AudioKeeps
    <2>1. CASE PassLists(p)
      BY <2>1, PassListsKeeps
    <2>2. CASE PassChecks(p)
      BY <2>2, PassChecksKeeps
    <2>3. CASE PassStats(p)
      BY <2>3, PassStatsKeeps
    <2>4. CASE PassWritesMetadata(p)
      BY <2>4, PassWritesMetadataKeeps
    <2>5. CASE \/ PassRenames(p, "pcm", "json") \/ PassRenames(p, "json", "mp3")
               \/ PassRenames(p, "mp3", "next")
      BY <2>5, PassRenamesKeeps
    <2>6. CASE PassCatches(p)
      BY <2>6, PassCatchesKeeps
    <2> QED BY <1>3, <2>1, <2>2, <2>3, <2>4, <2>5, <2>6 DEF PassProceeds
  <1> QED BY <1>1, <1>2, <1>3 DEF AudioStep

(* A step of the video channel. *)
LEMMA VideoStepsKeep ==
  ASSUME FilesTypeOK, VideoTypeOK, VideoInv, VideoStep, scenario' = scenario
  PROVE  VideoKeeps
  <1> PICK v \in Videos :
        \/ VideoCreate(v) \/ VideoAppend(v) \/ VideoAbort(v)
        \/ \E validLog \in BOOLEAN : VideoFinalize(v, validLog)
        \/ VideoCreateWebm(v) \/ VideoCreatePcm(v)
        \/ VideoWriteDone(v) \/ VideoWriteFails(v) \/ VideoAbortCloses(v)
        \/ VideoDrained(v) \/ VideoSynced(v)
        \/ VideoWritesMetadata(v) \/ VideoWritesLog(v)
        \/ VideoCloses(v) \/ VideoPublishes(v) \/ VideoAnnounced(v)
        \/ VideoUndoPcm(v) \/ VideoUndoFinal(v) \/ VideoUndoPartial(v)
    BY DEF VideoStep
  <1>1. CASE VideoCreate(v) \/ VideoCreateWebm(v) \/ VideoCreatePcm(v)
    BY <1>1, VideoCreateKeeps
  <1>2. CASE \/ VideoAppend(v) \/ VideoAbort(v) \/ VideoWriteDone(v)
             \/ VideoWriteFails(v) \/ VideoAbortCloses(v)
    BY <1>2, VideoQuietCallsKeep
  <1>3. CASE \E validLog \in BOOLEAN : VideoFinalize(v, validLog)
    <2>1. VideoFinalize(v, TRUE) \/ VideoFinalize(v, FALSE)
      BY <1>3
    <2> QED BY <2>1, VideoFinalizeKeeps, VideoRefusedKeeps
  <1>4. CASE \/ VideoDrained(v) \/ VideoSynced(v)
             \/ VideoWritesMetadata(v) \/ VideoWritesLog(v) \/ VideoCloses(v)
    BY <1>4, VideoFinalizeKeeps
  <1>5. CASE VideoPublishes(v)
    BY <1>5, VideoPublishesKeeps
  <1>6. CASE VideoAnnounced(v)
    BY <1>6, VideoAnnouncedKeeps
  <1>7. CASE VideoUndoPcm(v)
    BY <1>7, VideoUndoPcmKeeps
  <1>8. CASE VideoUndoFinal(v)
    BY <1>8, VideoUndoFinalKeeps
  <1>9. CASE VideoUndoPartial(v)
    BY <1>9, VideoUndoPartialKeeps
  <1> QED BY <1>1, <1>2, <1>3, <1>4, <1>5, <1>6, <1>7, <1>8, <1>9

(* Nothing has happened yet. *)
LEMMA InitIsSound == Init => IInv
  <1> SUFFICES ASSUME Init PROVE IInv
    OBVIOUS
  <1>1. /\ files = [r \in Recordings \cup Videos |-> {}]
        /\ ~window /\ ~running /\ crashes = 0 /\ reapable = {} /\ scenario \in Scenarios
        /\ window = FALSE /\ running = FALSE
        /\ sessions = {} /\ dead = {}
        /\ writer = [r \in Recordings |-> NoCalls]
        /\ pass = [p \in Passes |-> NoPass]
        /\ published = [r \in Recordings |-> 0]
        /\ interrupted = [r \in Recordings |-> "no"]
        /\ videoSessions = {} /\ video = [v \in Videos |-> NoVideoCalls]
    BY DEF Init, FilesInit, AudioInit, VideoInit
  <1>2. /\ NoCalls \in CallTable /\ NoCalls.create = "none" /\ NoCalls.finalize = "none"
        /\ NoCalls.answer = "none" /\ ~NoCalls.open /\ ~NoCalls.failed
        /\ NoCalls.abort = "none" /\ NoCalls.renamed = {}
    BY FilesAssumption DEF NoCalls, CallTable
  <1>3. /\ NoPass \in PassTable /\ NoPass.step = "unused"
        /\ NoPass.at = {} /\ NoPass.todo = {}
    BY DEF NoPass, PassTable
  <1>4. /\ NoVideoCalls \in VideoTable /\ NoVideoCalls.create = "none"
        /\ NoVideoCalls.finalize = "none" /\ NoVideoCalls.answer = "none"
        /\ ~NoVideoCalls.open /\ NoVideoCalls.told = "none"
        /\ NoVideoCalls.renamed = {}
    BY FilesAssumption DEF NoVideoCalls, VideoTable
  <1>5. \A r \in Names : Finals(r) = {} /\ Partials(r) = {}
    BY <1>1 DEF Names, Finals, Partials, Has
  <1>6. TypeOK
    <2>1. FilesTypeOK
      <3>1. MaxCrashes \in Nat
        BY FilesAssumption
      <3>2. files \in [Recordings \cup Videos -> SUBSET FileNames]
        BY <1>1
      <3>3. window \in BOOLEAN /\ running \in BOOLEAN
        BY Zenon DEF Init, FilesInit
      <3>4. crashes \in 0..MaxCrashes
        BY <3>1 DEF Init, FilesInit
      <3>5. /\ reapable \subseteq (Recordings \cup Videos) \X Kinds
            /\ scenario \in Scenarios
        BY DEF Init, FilesInit
      <3> QED BY <3>2, <3>3, <3>4, <3>5 DEF FilesTypeOK
    <2>2. AudioTypeOK
      BY <1>1, <1>2, <1>3 DEF AudioTypeOK, CallTable, PassTable
    <2>3. VideoTypeOK
      BY <1>1, <1>4 DEF VideoTypeOK, VideoTable
    <2> QED BY <2>1, <2>2, <2>3 DEF TypeOK
  <1>7. \A p \in Passes, r \in Recordings :
          ~WorksOn(p, r) /\ ~Lists(p, r) /\ ~HoldsPcm(p, r)
    BY <1>1, <1>3 DEF WorksOn, Lists, HoldsPcm
  <1>8. ASSUME NEW r \in Recordings PROVE RecordingInv(r)
    <2>1. writer[r] = NoCalls /\ interrupted[r] = "no" /\ published[r] = 0
      BY <1>1
    <2>2. Finals(r) = {} /\ Partials(r) = {}
      BY <1>5 DEF Names
    <2>3. CallsInv(r) /\ OwnedInv(r) /\ SafeInv(r)
      BY <1>1, <1>2, <2>1 DEF CallsInv, OwnedInv, SafeInv, Undoing
    <2>4. FreshInv(r) /\ KeptInv(r)
      BY <1>2, <1>7, <2>1, <2>2 DEF FreshInv, KeptInv
    <2>5. PcmInv(r) /\ JsonInv(r)
      BY <1>1, <1>2, <1>3, <1>7, <2>1, <2>2 DEF PcmInv, JsonInv, Renaming
    <2>6. FilesInv(r) /\ UndoInv(r)
      BY <1>2, <2>1 DEF FilesInv, UndoInv, Undoing
    <2> QED BY <2>3, <2>4, <2>5, <2>6 DEF RecordingInv
  <1>9. ApartInv /\ PassInv /\ ReaperInv /\ RecoveryInv
    BY <1>1, <1>3, <1>7 DEF ApartInv, PassInv, ReaperInv, RecoveryInv
  <1>10. ASSUME NEW v \in Videos PROVE VideoInvOf(v)
    <2>1. video[v] = NoVideoCalls /\ v \notin videoSessions
      BY <1>1
    <2>2. Finals(v) = {} /\ Partials(v) = {}
      BY <1>5 DEF Names
    <2>3. VideoCallsInv(v) /\ VideoOwnedInv(v) /\ VideoKeptInv(v)
      BY <1>4, <2>1 DEF VideoCallsInv, VideoOwnedInv, VideoKeptInv, Undoing
    <2>4. VideoPublishedInv(v) /\ VideoFilesInv(v) /\ VideoUndoInv(v)
      BY <1>4, <2>1, <2>2 DEF VideoPublishedInv, VideoFilesInv, VideoUndoInv, Undoing
    <2> QED BY <2>3, <2>4 DEF VideoInvOf
  <1> QED BY <1>6, <1>8, <1>9, <1>10 DEF IInv, AudioInv, VideoInv

(* What the reaper sees is old. *)
LEMMA ReaperStartsOld ==
  ASSUME ReaperStarts, scenario' = scenario
  PROVE  ReaperInv' /\ reapable' \subseteq Names \X Kinds
  <1>1. PICK old \in SUBSET Names :
          /\ old # {} => "old" \in scenario.faults
          /\ reapable' = UNION {OldFiles(r) : r \in old}
    BY DEF ReaperStarts, Names
  <1>2. reapable' \subseteq Names \X Kinds
    BY <1>1 DEF OldFiles
  <1>3. reapable' # {} => old # {}
    BY <1>1
  <1> QED BY <1>1, <1>2, <1>3 DEF ReaperInv, May

(* Every step keeps the invariant. *)
LEMMA NextIsSound == IInv /\ [Next]_vars => IInv'
  <1> SUFFICES ASSUME IInv, [Next]_vars PROVE IInv'
    OBVIOUS
  <1>1. FilesTypeOK /\ AudioTypeOK /\ AudioInv /\ VideoTypeOK /\ VideoInv
    BY DEF IInv, TypeOK
  <1>2. ReaperInv
    BY <1>1 DEF AudioInv
  <1>3. CASE AudioStep /\ UNCHANGED videoVars /\ UNCHANGED scenario
    <2>1. AudioKeeps
      BY <1>1, <1>3, AudioStepKeeps
    <2>2. VideoTypeOK' /\ VideoInv'
      BY <1>1, <1>3, <2>1, VideosStay DEF AudioKeeps
    <2> QED BY <2>1, <2>2 DEF AudioKeeps, IInv, TypeOK
  <1>4. CASE VideoStep /\ UNCHANGED audioVars /\ UNCHANGED scenario
    <2>1. VideoKeeps
      BY <1>1, <1>4, VideoStepsKeep
    <2>2. /\ window' = window /\ running' = running /\ reapable' \subseteq reapable
          /\ \A r \in Recordings : files'[r] = files[r]
      BY <2>1 DEF VideoKeeps, videoLife, lifeVars
    <2>3. AudioTypeOK' /\ AudioInv'
      BY <1>1, <1>4, <2>2, AudioStays
    <2> QED BY <2>1, <2>3 DEF VideoKeeps, IInv, TypeOK
  <1>5. ASSUME NEW r \in Names, NEW k \in Kinds, Reap(r, k),
               UNCHANGED <<audioVars, videoVars, scenario>>
        PROVE  IInv'
    <2>1. Reaped(r, k) /\ reapable' \subseteq reapable
      BY <1>1, <1>2, <1>5, ReapIsReaped
    <2>2. FilesTypeOK' /\ AudioTypeOK' /\ AudioInv'
      BY <1>1, <1>5, <2>1, ReapKeepsAudio
    <2>3. VideoTypeOK' /\ VideoInv'
      BY <1>1, <1>5, <2>1, ReapKeepsVideos
    <2> QED BY <2>2, <2>3 DEF IInv, TypeOK
  <1>6. CASE OpenWindow /\ UNCHANGED scenario
    <2>1. /\ running /\ ~window /\ window' = TRUE /\ StartPass
          /\ UNCHANGED <<files, running, crashes, reapable, videoVars, scenario>>
      BY <1>6 DEF OpenWindow
    <2>2. FilesTypeOK' /\ ReaperInv'
      BY <1>1, <1>2, <2>1 DEF FilesTypeOK, ReaperInv, May
    <2>3. AudioTypeOK' /\ AudioInv'
      BY <1>1, <2>1, <2>2, StartPassKeeps
    <2>4. VideoTypeOK' /\ VideoInv'
      BY <1>1, <2>1, VideosStay
    <2> QED BY <2>2, <2>3, <2>4 DEF IInv, TypeOK
  <1>7. CASE StartApp /\ UNCHANGED scenario
    <2>1. /\ ~running /\ running' = TRUE /\ window' = TRUE /\ StartPass /\ ReaperStarts
          /\ UNCHANGED <<files, crashes, videoVars, scenario>>
      BY <1>7 DEF StartApp
    <2>2. ReaperInv' /\ reapable' \subseteq Names \X Kinds
      BY <2>1, ReaperStartsOld
    <2>3. FilesTypeOK'
      BY <1>1, <2>1, <2>2 DEF FilesTypeOK, Names
    <2>4. AudioTypeOK' /\ AudioInv'
      BY <1>1, <2>1, <2>2, StartPassKeeps
    <2>5. VideoTypeOK' /\ VideoInv'
      BY <1>1, <2>1, VideosStay
    <2> QED BY <2>3, <2>4, <2>5 DEF IInv, TypeOK
  <1>8. CASE DestroyWindow /\ UNCHANGED scenario
    <2>1. /\ "window" \in scenario.faults /\ window' = FALSE
          /\ AudioOwnerDestroyed /\ VideoOwnerDestroyed
          /\ UNCHANGED <<files, running, crashes, reapable, scenario>>
      BY <1>8 DEF DestroyWindow
    <2>2. FilesTypeOK'
      BY <1>1, <2>1 DEF FilesTypeOK
    <2>3. AudioTypeOK' /\ AudioInv'
      <3>1. May({"window"})
        BY <2>1 DEF May
      <3> QED BY <1>1, <2>1, <3>1, DestroyedKeepsAudio
    <2>4. VideoTypeOK' /\ VideoInv'
      BY <1>1, <2>1, DestroyedKeepsVideos
    <2> QED BY <2>2, <2>3, <2>4 DEF IInv, TypeOK
  <1>9. CASE Crash /\ UNCHANGED scenario
    <2>1. /\ crashes < MaxCrashes /\ crashes' = crashes + 1
          /\ running' = FALSE /\ window' = FALSE /\ reapable' = {}
          /\ AudioKilled /\ VideoKilled /\ UNCHANGED <<files, scenario>>
      BY <1>9 DEF Crash
    <2>2. FilesTypeOK'
      <3>1. MaxCrashes \in Nat /\ crashes \in 0..MaxCrashes
        BY <1>1, FilesAssumption DEF FilesTypeOK
      <3>2. crashes' \in 0..MaxCrashes
        BY <2>1, <3>1
      <3> QED BY <1>1, <2>1, <3>2 DEF FilesTypeOK
    <2>3. AudioTypeOK' /\ AudioInv'
      BY <1>1, <2>1, KilledKeepsAudio
    <2>4. VideoTypeOK' /\ VideoInv'
      BY <1>1, <2>1, KilledKeepsVideos
    <2> QED BY <2>2, <2>3, <2>4 DEF IInv, TypeOK
  <1>10. CASE UNCHANGED vars
    <2>1. /\ UNCHANGED <<audioVars, videoVars, scenario, files>>
          /\ window' = window /\ running' = running /\ crashes' = crashes
          /\ reapable' = reapable
      BY <1>10 DEF vars, lifeVars
    <2>2. FilesTypeOK'
      BY <1>1, <2>1 DEF FilesTypeOK
    <2>3. AudioTypeOK' /\ AudioInv'
      BY <1>1, <2>1, AudioStays
    <2>4. VideoTypeOK' /\ VideoInv'
      BY <1>1, <2>1, VideosStay
    <2> QED BY <2>2, <2>3, <2>4 DEF IInv, TypeOK
  <1>11. CASE Rest
    BY <1>10, <1>11 DEF Rest
  <1>12. CASE Step /\ UNCHANGED scenario
    <2>1. CASE \E r \in Recordings \cup Videos, k \in Kinds :
                  Reap(r, k) /\ UNCHANGED <<audioVars, videoVars>>
      BY <1>5, <1>12, <2>1 DEF Names
    <2> QED BY <1>3, <1>4, <1>6, <1>7, <1>8, <1>9, <1>12, <2>1 DEF Step
  <1> QED BY <1>10, <1>11, <1>12 DEF Next

(* What the invariant says of the files, the passes and the calls holds in
   every reachable state. *)
THEOREM FilesInvariant == Spec => []IInv
  BY InitIsSound, NextIsSound, PTL DEF Spec

-------------------------------------------------------------------------------
(* What follows. *)

(* The files of a name are its final and its partial ones. *)
LEMMA FilesAreNamed ==
  ASSUME FilesTypeOK, NEW r \in Names
  PROVE  files[r] = {Final(k) : k \in Finals(r)} \cup {Partial(k) : k \in Partials(r)}
  <1>1. \A n \in files[r] : \E k \in Kinds : n = Final(k) \/ n = Partial(k)
    BY DEF FilesTypeOK, Names, FileNames, Final, Partial
  <1> QED BY <1>1 DEF Finals, Partials, Has

(* What was recorded is never lost: sound and picture stay on disk under one
   of their two names through every failure, rollback, recovery, destroyed
   window and crash (minutes_call_recording_channel.main.ts:373-396 and
   minutes_video_recording_channel.main.ts:293-322). *)
THEOREM RecordedIsAlwaysKept == Spec => []RecordedIsKept
  <1>1. ASSUME IInv PROVE AudioIsKept
    <2>1. \A r \in Recordings : KeptInv(r)
      BY <1>1 DEF IInv, AudioInv, RecordingInv
    <2> QED BY <2>1 DEF AudioIsKept, KeptInv, Finals, Partials
  <1>2. ASSUME IInv PROVE VideoIsKept
    <2>1. \A v \in Videos : VideoKeptInv(v)
      BY <1>2 DEF IInv, VideoInv, VideoInvOf
    <2> QED BY <2>1 DEF VideoIsKept, VideoKeptInv, Finals, Partials
  <1>3. IInv => RecordedIsKept
    BY <1>1, <1>2 DEF RecordedIsKept
  <1> QED BY <1>3, FilesInvariant, PTL

(* A recording under the final name of its MP3 or WebM has all that belongs
   to it, and no recording is handed on twice
   (minutes_call_recording_channel.main.ts:362-372, 569-571 and
   minutes_video_recording_channel.main.ts:285-292). *)
THEOREM PublishedIsAlwaysComplete == Spec => []PublishedIsComplete
  <1>1. ASSUME IInv PROVE AudioPublishedIsComplete /\ PublishedOnce
    <2>1. \A r \in Recordings : PcmInv(r) /\ JsonInv(r)
      BY <1>1 DEF IInv, AudioInv, RecordingInv
    <2>2. \A k \in {"mp3", "pcm", "json"} : k \in Kinds
      BY DEF Kinds
    <2>3. AudioPublishedIsComplete
      <3> SUFFICES ASSUME ~(Races /\ May({"disk"})), NEW r \in Recordings,
                          Has(r, Final("mp3"))
                   PROVE  Has(r, Final("pcm")) /\ Has(r, Final("json"))
        BY DEF AudioPublishedIsComplete
      <3>1. "mp3" \in Finals(r)
        BY <2>2 DEF Finals
      <3>2. "pcm" \in Finals(r) /\ "json" \in Finals(r)
        BY <2>1, <3>1 DEF PcmInv, JsonInv
      <3> QED BY <3>2 DEF Finals
    <2>4. PublishedOnce
      BY <2>1 DEF PcmInv, PublishedOnce
    <2> QED BY <2>3, <2>4
  <1>2. ASSUME IInv PROVE VideoPublishedIsComplete
    <2>1. \A v \in Videos : VideoPublishedInv(v)
      BY <1>2 DEF IInv, VideoInv, VideoInvOf
    <2>2. "webm" \in Kinds
      BY DEF Kinds
    <2> QED BY <2>1, <2>2 DEF VideoPublishedIsComplete, VideoPublishedInv, Finals
  <1>3. IInv => PublishedIsComplete
    BY <1>1, <1>2 DEF PublishedIsComplete
  <1> QED BY <1>3, FilesInvariant, PTL

(* Both finalize() operations are all or nothing
   (minutes_call_recording_channel.main.ts:317-398 and
   minutes_video_recording_channel.main.ts:249-330). *)
THEOREM FinalizeIsAlwaysAtomic == Spec => []FinalizeIsAtomic
  <1>1. ASSUME IInv PROVE AudioFinalizeIsAtomic
    <2> SUFFICES ASSUME ~Races, ~(May({"disk"}) /\ May({"undo"})), NEW r \in Recordings
                 PROVE
            /\ writer[r].answer = "ok" =>
                 /\ \A k \in Kinds : ~Has(r, Partial(k))
                 /\ \A k \in {"mp3", "pcm", "json"} : Has(r, Final(k))
                 /\ writer[r].hasLog => Has(r, Final("log"))
                 /\ writer[r].pending = 0 /\ ~writer[r].failed
            /\ writer[r].answer = "error" /\ ~May({"old"}) =>
                 files[r] = {Partial("mp3"), Partial("pcm")}
      BY DEF AudioFinalizeIsAtomic
    <2>1. CallsInv(r) /\ FilesInv(r) /\ UndoInv(r) /\ FilesTypeOK /\ r \in Names
      BY <1>1 DEF IInv, TypeOK, AudioInv, RecordingInv, Names
    <2>2. writer[r].answer # "none" => writer[r].create = "done"
      BY <2>1 DEF CallsInv
    <2>3. ASSUME writer[r].answer = "ok"
          PROVE  /\ Finals(r) = AllKinds(r) /\ Partials(r) = {}
                 /\ writer[r].pending = 0 /\ ~writer[r].failed
      BY <2>1, <2>2, <2>3 DEF FilesInv
    <2>4. ASSUME writer[r].answer = "ok"
          PROVE  /\ \A k \in Kinds : ~Has(r, Partial(k))
                 /\ \A k \in {"mp3", "pcm", "json"} : Has(r, Final(k))
                 /\ writer[r].hasLog => Has(r, Final("log"))
      <3>1. \A k \in Kinds : ~Has(r, Partial(k))
        BY <2>3, <2>4 DEF Partials
      <3>2. \A k \in AllKinds(r) : Has(r, Final(k))
        BY <2>3, <2>4 DEF Finals
      <3> QED BY <3>1, <3>2 DEF AllKinds
    <2>5. ASSUME writer[r].answer = "error", ~May({"old"})
          PROVE  files[r] = {Partial("mp3"), Partial("pcm")}
      <3>1. Finals(r) = {} /\ Partials(r) = {"mp3", "pcm"}
        BY <2>1, <2>5 DEF UndoInv
      <3> QED BY <2>1, <3>1, FilesAreNamed
    <2> QED BY <2>3, <2>4, <2>5
  <1>2. ASSUME IInv PROVE VideoFinalizeIsAtomic
    <2> SUFFICES ASSUME NEW v \in Videos
                 PROVE
        /\ video[v].answer \in {"ok", "rejected"} =>
             files[v] = {Final(k) : k \in {"webm", "pcm", "json", "log"}}
        /\ video[v].answer = "error" /\ ~May({"undo", "old"}) =>
             files[v] = {Partial("webm"), Partial("pcm")}
      BY DEF VideoFinalizeIsAtomic
    <2>1. VideoFilesInv(v) /\ VideoUndoInv(v) /\ FilesTypeOK /\ v \in Names
      BY <1>2 DEF IInv, TypeOK, VideoInv, VideoInvOf, Names
    <2>2. files[v] = {Final(k) : k \in Finals(v)} \cup {Partial(k) : k \in Partials(v)}
      BY <2>1, FilesAreNamed
    <2>3. CASE video[v].answer \in {"ok", "rejected"}
      <3>1. Finals(v) = VideoKinds /\ Partials(v) = {}
        BY <2>1, <2>3 DEF VideoFilesInv
      <3> QED BY <2>2, <2>3, <3>1 DEF VideoKinds
    <2>4. CASE video[v].answer = "error" /\ ~May({"undo", "old"})
      <3>1. Finals(v) = {} /\ Partials(v) = {"webm", "pcm"}
        BY <2>1, <2>4 DEF VideoUndoInv
      <3> QED BY <2>2, <2>4, <3>1
    <2> QED BY <2>3, <2>4
  <1>3. IInv => FinalizeIsAtomic
    BY <1>1, <1>2 DEF FinalizeIsAtomic
  <1> QED BY <1>3, FilesInvariant, PTL

(* Files, sessions, handles and bounded write queues of both channels agree
   (minutes_call_recording_channel.main.ts:255-313, 401-470 and
   minutes_video_recording_channel.main.ts:333-390). *)
THEOREM WriterInvariant == Spec => []WriterInv
  <1>1. ASSUME IInv PROVE AudioWriterInv
    <2>1. \A r \in Recordings : OwnedInv(r)
      BY <1>1 DEF IInv, AudioInv, RecordingInv
    <2> QED BY <1>1, <2>1 DEF IInv, TypeOK, AudioWriterInv, HandlesAreOwned, OwnedInv
  <1>2. ASSUME IInv PROVE VideoWriterInv
    <2>1. \A v \in Videos : VideoOwnedInv(v)
      BY <1>2 DEF IInv, VideoInv, VideoInvOf
    <2> QED BY <1>2, <2>1 DEF IInv, TypeOK, VideoWriterInv, VideoOwnedInv, Finals
  <1>3. IInv => WriterInv
    BY <1>1, <1>2 DEF WriterInv, IInv, TypeOK
  <1> QED BY <1>3, FilesInvariant, PTL

(* The first recovery pass that ends after a crash has published every
   recording the crash interrupted before its finalize(), whatever their
   number (CHANGELOG.md:83; minutes_call_recording_channel.main.ts:533-582). *)
THEOREM InterruptedIsAlwaysRecovered == Spec => []InterruptedIsRecovered
  <1>1. ASSUME IInv, ~May({"disk", "eager", "old", "window"}),
               NEW p \in Passes, NEW r \in Recordings,
               PassAt(p, "done"), interrupted[r] = "recording"
        PROVE  Has(r, Final("mp3"))
    <2>1. ~Races /\ ~May({"disk", "old"})
      BY <1>1 DEF Races, May
    <2>2. /\ \A q \in Passes : pass[q].step \notin {"unused", "failed"} => q = p
          /\ Recovering(r) /\ pass[p].step = "done"
      BY <1>1, <2>1 DEF IInv, AudioInv, RecoveryInv, PassAt
    <2>3. "mp3" \in Finals(r)
      BY <2>2 DEF Recovering, Lists, PassActive
    <2> QED BY <2>3 DEF Finals
  <1>2. IInv => InterruptedIsRecovered
    BY <1>1 DEF InterruptedIsRecovered
  <1> QED BY <1>2, FilesInvariant, PTL

-------------------------------------------------------------------------------
(* The recorder. *)


IsPending(d) == drains[d].promise = "pending"
NonePending == \A d \in Drains : ~IsPending(d)

\* The writes that wait in the array of an object.
Waiting(o) == arrays[objects[o].array]

OneDrain == \A d, e \in Drains : IsPending(d) /\ IsPending(e) => d = e

\* Objects that were copied from the one a drain serves name this drain, and
\* share its array.
DrainIsCopied ==
    \A d \in Drains : IsPending(d) =>
        /\ drains[d].object <= current
        /\ \A o \in drains[d].object .. current :
              /\ objects[o].drain = d
              /\ objects[o].array = objects[drains[d].object].array

\* Every drain was started by a write that was accepted.
DrainsAreNumbered ==
    \E used \in 0..accepted :
        \A d \in Drains : drains[d].promise = "unused" <=> d > used

\* queuedBytes of the current object counts the writes that wait, and the one
\* that is under way.
QueueIsCounted ==
    /\ objects[current].drain = NoDrain => Waiting(current) = 0
    /\ Waiting(current) <= objects[current].queued
    /\ ~NonePending => Waiting(current) + 1 <= objects[current].queued

\* An object counts below zero by no more than was accepted after its copy.
CountsAreBounded ==
    /\ \A o \in Objects :
          objects[o].queued >= 0 \/ objects[o].queued + accepted >= 1
    /\ \A d \in Drains : IsPending(d) =>
          objects[drains[d].object].queued + accepted
            >= Waiting(drains[d].object) + 2

\* What was written had been accepted.
WritesAreCounted ==
    /\ written <= accepted
    /\ ~NonePending => written + 1 + Waiting(current) <= accepted

\* The first object loses nothing.
FirstObjectIsExact ==
    /\ objects[0].drain # NoDrain =>
          IsPending(objects[0].drain) /\ drains[objects[0].drain].object = 0
    /\ current = 0 /\ stopPromise # "rejected" =>
          accepted = written + Waiting(0) + (IF NonePending THEN 0 ELSE 1)

QueueInv ==
    /\ OneDrain
    /\ DrainIsCopied
    /\ DrainsAreNumbered
    /\ QueueIsCounted
    /\ CountsAreBounded
    /\ WritesAreCounted
    /\ FirstObjectIsExact

\* stop() and "complete" come after the last copy, and the flush is the last
\* write.
StopInv ==
    /\ completion.step # "none" =>
          /\ stopping \/ stopPromise # "pending"
          /\ completion.object = current
    /\ stopPromise = "resolved" => completion.step = "done" /\ NonePending
    /\ stopping => type # "idle"
    /\ type = "idle" => completion.step \in {"none", "done"} /\ NonePending
    /\ accepted <= MaxBlocks \/ completion.step \in {"flushed", "done"}

RecorderIInv == RecorderTypeOK /\ QueueInv /\ StopInv

ObjectTable == [Objects -> [queued : -MaxBlocks..MaxQueued,
                            drain : Drains \cup {NoDrain}, array : Arrays]]
DrainTable == [Drains -> [object : Objects,
                          promise : {"unused", "pending", "settled"}]]

\* The part of the type invariant that is about the queue.
QueueTypeOK ==
    /\ current \in Objects
    /\ objects \in ObjectTable
    /\ arrays \in [Arrays -> 0..MaxQueued]
    /\ drains \in DrainTable
    /\ accepted \in 0..(MaxBlocks + 1)
    /\ written \in 0..(MaxBlocks + 1)

\* The other part.
StopTypeOK ==
    /\ type \in {"idle", "running", "paused"}
    /\ stopPromise \in {"pending", "resolved", "rejected"}
    /\ stopping \in BOOLEAN
    /\ completion \in [step : {"none", "drain", "flushed", "done"},
                       object : Objects, awaits : Drains \cup {NoDrain}]

(* The two parts of the type invariant. *)
LEMMA TypeParts ==
  /\ RecorderTypeOK <=> QueueTypeOK /\ StopTypeOK
  /\ RecorderTypeOK' <=> QueueTypeOK' /\ StopTypeOK'
  BY DEF RecorderTypeOK, QueueTypeOK, StopTypeOK, ObjectTable, DrainTable

(* The sets of numbers, and that no drain has the number of "no drain". *)
LEMMA Numbers ==
  /\ MaxBlocks \in Nat /\ MaxCopies \in Nat /\ MaxQueued \in Nat \ {0}
  /\ Objects \subseteq Nat /\ 0 \in Objects
  /\ \A o \in Objects : o + 1 \in Arrays
  /\ Drains \subseteq Nat /\ NoDrain \notin Drains
  BY RecorderAssumption DEF Objects, Arrays, Drains, NoDrain

-------------------------------------------------------------------------------

\* The queue as start() makes it.
QueueIsFresh ==
    /\ current = 0
    /\ objects = FreshObjects /\ arrays = FreshArrays /\ drains = FreshDrains
    /\ accepted = 0 /\ written = 0

(* start() makes new objects, of which nothing is in use. *)
LEMMA FreshQueue ==
  ASSUME QueueIsFresh
  PROVE  QueueTypeOK /\ QueueInv /\ NonePending
  <1> USE Numbers
  <1>1. /\ \A o \in Objects : objects[o] = NewObject
        /\ \A a \in Arrays : arrays[a] = 0
        /\ \A d \in Drains : drains[d].promise = "unused"
    BY DEF QueueIsFresh, FreshObjects, FreshArrays, FreshDrains
  <1>2. NewObject.queued = 0 /\ NewObject.drain = NoDrain /\ NewObject.array = 0
    BY DEF NewObject
  <1>3. 0 \in Arrays
    BY DEF Arrays
  <1>4. QueueTypeOK
    <2>1. NewObject \in [queued : -MaxBlocks..MaxQueued,
                         drain : Drains \cup {NoDrain}, array : Arrays]
      BY <1>3 DEF NewObject
    <2>2. objects \in ObjectTable
      BY <2>1 DEF ObjectTable, QueueIsFresh, FreshObjects
    <2>3. drains \in DrainTable
      BY DEF DrainTable, QueueIsFresh, FreshDrains
    <2>4. arrays \in [Arrays -> 0..MaxQueued]
      BY DEF QueueIsFresh, FreshArrays
    <2> QED BY <2>2, <2>3, <2>4 DEF QueueTypeOK, QueueIsFresh
  <1>5. NonePending
    BY <1>1 DEF NonePending, IsPending
  <1>6. OneDrain /\ DrainIsCopied
    BY <1>1 DEF OneDrain, DrainIsCopied, IsPending
  <1>7. DrainsAreNumbered
    <2>1. \A d \in Drains : drains[d].promise = "unused" <=> d > 0
      BY <1>1 DEF Drains
    <2> QED BY <2>1 DEF DrainsAreNumbered, QueueIsFresh
  <1>8. \A o \in Objects : arrays[objects[o].array] = 0
    BY <1>1, <1>2, <1>3
  <1>9. QueueIsCounted /\ WritesAreCounted
    BY <1>1, <1>2, <1>5, <1>8 DEF QueueIsCounted, WritesAreCounted, Waiting,
                                QueueIsFresh
  <1>10. CountsAreBounded
    <2>1. \A d \in Drains : drains[d].promise # "pending"
      BY <1>1
    <2>2. \A o \in Objects : objects[o].queued = 0
      BY <1>1, <1>2
    <2> QED BY <2>1, <2>2 DEF CountsAreBounded, IsPending, QueueIsFresh
  <1>11. FirstObjectIsExact
    BY <1>1, <1>2, <1>5, <1>8 DEF FirstObjectIsExact, Waiting, QueueIsFresh
  <1> QED BY <1>4, <1>5, <1>6, <1>7, <1>9, <1>10, <1>11 DEF QueueInv

(* The same of the state after a start(). *)
LEMMA FreshQueueAfter ==
  QueueIsFresh' => QueueTypeOK' /\ QueueInv' /\ NonePending'
  <1>1. QueueIsFresh => QueueTypeOK /\ QueueInv /\ NonePending
    BY FreshQueue
  <1> QED BY <1>1, PTL

(* A step that touches neither the queue nor the first rejection. *)
LEMMA QueueStays ==
  ASSUME QueueTypeOK, QueueInv,
         UNCHANGED <<current, objects, arrays, drains, accepted, written>>,
         stopPromise' # "rejected" => stopPromise # "rejected"
  PROVE  QueueTypeOK' /\ QueueInv' /\ (NonePending' <=> NonePending)
  BY DEF QueueTypeOK, QueueInv, OneDrain, DrainIsCopied, DrainsAreNumbered,
         QueueIsCounted, CountsAreBounded, WritesAreCounted, FirstObjectIsExact,
         NonePending, IsPending, Waiting

(* pause() and resume() copy the current object. *)
LEMMA CopyPreservesQueue ==
  ASSUME QueueTypeOK, QueueInv, current < MaxCopies,
         current' = current + 1,
         objects' = [objects EXCEPT ![current + 1] = objects[current]],
         UNCHANGED <<arrays, drains, accepted, written, stopPromise>>
  PROVE  QueueTypeOK' /\ QueueInv' /\ (NonePending' <=> NonePending)
  <1> USE Numbers
  <1>1. /\ current \in Objects /\ current + 1 \in Objects
        /\ current \in Nat /\ objects \in ObjectTable
    BY DEF QueueTypeOK, Objects
  <1>2. /\ objects'[current + 1] = objects[current]
        /\ \A o \in Objects : o # current + 1 => objects'[o] = objects[o]
        /\ objects' \in ObjectTable
    BY <1>1 DEF ObjectTable
  <1>3. QueueTypeOK'
    BY <1>1, <1>2 DEF QueueTypeOK
  <1>4. NonePending' <=> NonePending
    BY DEF NonePending, IsPending
  <1>5. OneDrain' /\ DrainsAreNumbered'
    BY DEF QueueInv, OneDrain, DrainsAreNumbered, IsPending
  <1>6. DrainIsCopied'
    <2> SUFFICES ASSUME NEW d \in Drains, IsPending(d)
                 PROVE  /\ drains[d].object <= current + 1
                        /\ \A o \in drains[d].object .. (current + 1) :
                              /\ objects'[o].drain = d
                              /\ objects'[o].array =
                                   objects'[drains[d].object].array
      BY DEF DrainIsCopied, IsPending
    <2> DEFINE k == drains[d].object
    <2>1. /\ k \in Objects /\ k <= current
          /\ \A o \in k .. current : /\ objects[o].drain = d
                                     /\ objects[o].array = objects[k].array
      BY DEF QueueInv, DrainIsCopied, QueueTypeOK, DrainTable
    <2> HIDE DEF k
    <2>2. objects'[k] = objects[k] /\ k \in Nat
      BY <1>1, <1>2, <2>1
    <2>3. ASSUME NEW o \in k .. (current + 1)
          PROVE  objects'[o].drain = d /\ objects'[o].array = objects'[k].array
      <3>1. CASE o = current + 1
        <4>1. current \in k .. current
          BY <1>1, <2>1, <2>2
        <4> QED BY <1>2, <2>1, <2>2, <3>1, <4>1
      <3>2. CASE o # current + 1
        <4>1. o \in k .. current /\ o \in Objects
          BY <1>1, <2>1, <2>2, <3>2 DEF Objects
        <4> QED BY <1>2, <2>1, <2>2, <3>2, <4>1
      <3> QED BY <3>1, <3>2
    <2> QED BY <1>1, <2>1, <2>2, <2>3 DEF k
  <1>7. QueueIsCounted'
    BY <1>2, <1>4 DEF QueueInv, QueueIsCounted, Waiting
  <1>8. CountsAreBounded'
    <2>1. ASSUME NEW o \in Objects
          PROVE  objects'[o].queued >= 0 \/ objects'[o].queued + accepted >= 1
      BY <1>1, <1>2 DEF QueueInv, CountsAreBounded
    <2>2. ASSUME NEW d \in Drains, IsPending(d)
          PROVE  objects'[drains[d].object] = objects[drains[d].object]
      <3>1. drains[d].object \in Objects /\ drains[d].object <= current
        BY <2>2 DEF QueueInv, DrainIsCopied, QueueTypeOK, DrainTable
      <3> QED BY <1>1, <1>2, <3>1
    <2> QED BY <2>1, <2>2 DEF QueueInv, CountsAreBounded, IsPending, Waiting
  <1>9. WritesAreCounted'
    BY <1>2, <1>4 DEF QueueInv, WritesAreCounted, Waiting
  <1>10. FirstObjectIsExact'
    <2>1. objects'[0] = objects[0] /\ current' # 0
      BY <1>1, <1>2
    <2> QED BY <2>1 DEF QueueInv, FirstObjectIsExact, IsPending
  <1> QED BY <1>3, <1>4, <1>5, <1>6, <1>7, <1>8, <1>9, <1>10 DEF QueueInv

(* The next drain is one that was not used. *)
LEMMA NextDrainIsUnused ==
  ASSUME DrainsAreNumbered, accepted \in 0..MaxBlocks
  PROVE  /\ NextDrain \in Drains
         /\ drains[NextDrain].promise = "unused"
         /\ \E used \in 0..accepted :
               /\ NextDrain = used + 1
               /\ \A d \in Drains : drains[d].promise = "unused" <=> d > used
  <1> USE Numbers
  <1>1. PICK used \in 0..accepted :
           \A d \in Drains : drains[d].promise = "unused" <=> d > used
    BY DEF DrainsAreNumbered
  <1>2. used + 1 \in Drains
    BY DEF Drains
  <1>3. \A d \in Drains :
           (/\ drains[d].promise = "unused"
            /\ \A e \in Drains : drains[e].promise = "unused" => d <= e)
           <=> d = used + 1
    <2>1. \A d \in Drains : d > used <=> d >= used + 1
      BY DEF Drains
    <2> QED BY <1>1, <1>2, <2>1 DEF Drains
  <1>4. NextDrain = used + 1
    BY <1>2, <1>3 DEF NextDrain
  <1>5. drains[used + 1].promise = "unused"
    BY <1>1, <1>2 DEF Drains
  <1> QED BY ONLY <1>1, <1>2, <1>4, <1>5

\* A write of the current object that starts a drain.
StartsDrain ==
    /\ accepted <= MaxBlocks
    /\ objects[current].drain = NoDrain
    /\ objects[current].queued # MaxQueued
    /\ accepted' = accepted + 1
    /\ objects' = [objects EXCEPT ![current].queued = @ + 1,
                                  ![current].drain = NextDrain]
    /\ drains' = [drains EXCEPT ![NextDrain] =
                    [object |-> current, promise |-> "pending"]]
    /\ UNCHANGED <<arrays, current, written, stopPromise>>

(* A write that finds no drain starts one; the array is empty. *)
LEMMA DrainStartPreservesQueue ==
  ASSUME QueueTypeOK, QueueInv, StartsDrain
  PROVE  QueueTypeOK' /\ QueueInv'
  <1> USE Numbers
  <1>1. /\ current \in Objects /\ objects \in ObjectTable /\ drains \in DrainTable
        /\ arrays \in [Arrays -> 0..MaxQueued]
        /\ accepted \in 0..MaxBlocks /\ written \in 0..(MaxBlocks + 1)
    BY DEF QueueTypeOK, StartsDrain
  <1>0. /\ current' = current /\ arrays' = arrays /\ written' = written
        /\ stopPromise' = stopPromise /\ accepted' = accepted + 1
        /\ objects[current].drain = NoDrain
    BY DEF StartsDrain
  <1>2. PICK n \in Drains, used \in 0..accepted :
          /\ n = NextDrain /\ n = used + 1
          /\ drains[n].promise = "unused"
          /\ \A d \in Drains : drains[d].promise = "unused" <=> d > used
    BY <1>1, NextDrainIsUnused DEF QueueInv
  <1>3. /\ objects[current].queued \in 0..(MaxQueued - 1)
        /\ Waiting(current) = 0
    <2>1. objects[current].queued \in -MaxBlocks..MaxQueued
      BY <1>1 DEF ObjectTable
    <2>2. Waiting(current) = 0 /\ Waiting(current) <= objects[current].queued
      BY <1>0 DEF QueueInv, QueueIsCounted
    <2>3. objects[current].queued # MaxQueued
      BY DEF StartsDrain
    <2> QED BY <2>1, <2>2, <2>3
  <1>4. NonePending
    <2> SUFFICES ASSUME NEW d \in Drains, IsPending(d) PROVE FALSE
      BY DEF NonePending
    <2>1. drains[d].object \in Objects /\ drains[d].object <= current
      BY <1>1 DEF QueueInv, DrainIsCopied, DrainTable
    <2>2. current \in drains[d].object .. current
      BY <1>1, <2>1
    <2>3. objects[current].drain = d
      BY <2>2 DEF QueueInv, DrainIsCopied
    <2> QED BY <1>0, <2>3
  <1>5. /\ objects' \in ObjectTable
        /\ objects'[current].queued = objects[current].queued + 1
        /\ objects'[current].drain = n
        /\ objects'[current].array = objects[current].array
        /\ \A o \in Objects : o # current => objects'[o] = objects[o]
    BY <1>1, <1>2, <1>3 DEF ObjectTable, StartsDrain
  <1>6. /\ drains' \in DrainTable
        /\ drains'[n].object = current /\ drains'[n].promise = "pending"
        /\ \A d \in Drains : d # n => drains'[d] = drains[d]
    BY <1>1, <1>2 DEF DrainTable, StartsDrain
  <1>7. \A d \in Drains : drains'[d].promise = "pending" <=> d = n
    BY <1>4, <1>6 DEF IsPending, NonePending
  <1>8. QueueTypeOK'
    BY <1>0, <1>1, <1>5, <1>6 DEF QueueTypeOK
  <1>9. OneDrain'
    BY <1>7 DEF OneDrain, IsPending
  <1>10. DrainIsCopied'
    <2> SUFFICES ASSUME NEW d \in Drains, drains'[d].promise = "pending"
                 PROVE  /\ drains'[d].object <= current'
                        /\ \A o \in drains'[d].object .. current' :
                              /\ objects'[o].drain = d
                              /\ objects'[o].array =
                                   objects'[drains'[d].object].array
      BY DEF DrainIsCopied, IsPending
    <2>1. \A o \in current .. current : o = current
      BY <1>1
    <2>2. d = n /\ drains'[d].object = current
      BY <1>6, <1>7
    <2> QED BY <1>0, <1>1, <1>5, <2>1, <2>2
  <1>11. DrainsAreNumbered'
    <2>1. \A d \in Drains : drains'[d].promise = "unused" <=> d > used + 1
      BY <1>2, <1>6
    <2>2. used + 1 \in 0..accepted'
      BY <1>0, <1>1
    <2> QED BY <2>1, <2>2 DEF DrainsAreNumbered
  <1>12. Waiting(current)' = 0
    BY <1>0, <1>3, <1>5 DEF Waiting
  <1>13. QueueIsCounted'
    BY <1>0, <1>2, <1>3, <1>5, <1>12 DEF QueueIsCounted
  <1>14. CountsAreBounded'
    <2>1. ASSUME NEW o \in Objects
          PROVE  objects'[o].queued >= 0 \/ objects'[o].queued + accepted' >= 1
      <3>1. CASE o = current
        BY <1>0, <1>1, <1>3, <1>5, <3>1
      <3>2. CASE o # current
        <4>1. objects[o].queued \in -MaxBlocks..MaxQueued
          BY <1>1 DEF ObjectTable
        <4>2. objects[o].queued >= 0 \/ objects[o].queued + accepted >= 1
          BY DEF QueueInv, CountsAreBounded
        <4>3. objects'[o] = objects[o] /\ accepted' = accepted + 1
          BY <1>0, <1>5, <3>2
        <4> HIDE <1>5
        <4> QED BY <1>1, <4>1, <4>2, <4>3
      <3> QED BY <3>1, <3>2
    <2>2. ASSUME NEW d \in Drains, drains'[d].promise = "pending"
          PROVE  objects'[drains'[d].object].queued + accepted'
                   >= arrays'[objects'[drains'[d].object].array] + 2
      <3>1. drains'[d].object = current
        BY <1>6, <1>7, <2>2
      <3>2. arrays'[objects'[current].array] = 0
        BY <1>0, <1>12 DEF Waiting
      <3>3. objects'[current].queued + accepted' >= 2
        BY <1>0, <1>1, <1>3, <1>5
      <3> QED BY <3>1, <3>2, <3>3
    <2> QED BY <2>1, <2>2 DEF CountsAreBounded, IsPending, Waiting
  <1>15. WritesAreCounted'
    BY <1>0, <1>1, <1>12 DEF QueueInv, WritesAreCounted
  <1>16. FirstObjectIsExact'
    <2>1. CASE current = 0
      <3>1. /\ objects'[0].drain = n /\ drains'[n].promise = "pending"
            /\ drains'[n].object = 0
        BY <1>5, <1>6, <2>1
      <3>2. ~NonePending'
        BY <1>7 DEF NonePending, IsPending
      <3>3. Waiting(0)' = 0 /\ Waiting(0) = 0
        BY <1>0, <1>3, <1>5, <2>1 DEF Waiting
      <3>4. stopPromise # "rejected" => accepted = written
        BY <1>1, <1>4, <2>1, <3>3 DEF QueueInv, FirstObjectIsExact
      <3> QED BY <1>0, <1>1, <3>1, <3>2, <3>3, <3>4 DEF FirstObjectIsExact, IsPending
    <2>2. CASE current # 0
      <3>1. objects'[0] = objects[0]
        BY <1>5, <2>2
      <3>2. objects[0].drain = NoDrain
        BY <1>1, <1>4, <2>2 DEF QueueInv, FirstObjectIsExact, NonePending,
                                ObjectTable
      <3> QED BY <1>0, <2>2, <3>1, <3>2 DEF FirstObjectIsExact
    <2> QED BY <2>1, <2>2
  <1> QED BY <1>8, <1>9, <1>10, <1>11, <1>13, <1>14, <1>15, <1>16 DEF QueueInv

(* A drain that runs serves the array of the current object as well. *)
LEMMA DrainServesCurrent ==
  ASSUME QueueTypeOK, QueueInv, NEW d \in Drains, IsPending(d)
  PROVE  /\ drains[d].object \in Objects /\ drains[d].object <= current
         /\ objects[current].drain = d
         /\ objects[drains[d].object].drain = d
         /\ objects[current].array = objects[drains[d].object].array
  <1> USE Numbers
  <1>1. drains[d].object \in Objects /\ current \in Objects
    BY DEF QueueTypeOK, DrainTable
  <1>2. /\ drains[d].object <= current
        /\ \A o \in drains[d].object .. current :
              /\ objects[o].drain = d
              /\ objects[o].array = objects[drains[d].object].array
    BY DEF QueueInv, DrainIsCopied
  <1>3. \A k \in Nat : k <= current => k \in k .. current /\ current \in k .. current
    BY <1>1
  <1>4. /\ current \in drains[d].object .. current
        /\ drains[d].object \in drains[d].object .. current
    BY <1>1, <1>2, <1>3
  <1> QED BY <1>1, <1>2, <1>4

(* Copies go on naming the drain when no object changes its drain or its
   array. *)
LEMMA NamesAreKept ==
  ASSUME QueueTypeOK, QueueInv, drains' = drains, current' = current,
         \A o \in Objects : /\ objects'[o].drain = objects[o].drain
                            /\ objects'[o].array = objects[o].array
  PROVE  DrainIsCopied'
  <1> USE Numbers
  <1> SUFFICES ASSUME NEW d \in Drains, IsPending(d)
               PROVE  /\ drains[d].object <= current
                      /\ \A o \in drains[d].object .. current :
                            /\ objects'[o].drain = d
                            /\ objects'[o].array =
                                 objects'[drains[d].object].array
    BY DEF DrainIsCopied, IsPending
  <1>1. drains[d].object \in Objects /\ current \in Objects
    BY DrainServesCurrent DEF QueueTypeOK
  <1>2. drains[d].object .. current \subseteq Objects
    BY <1>1 DEF Objects
  <1>3. /\ drains[d].object <= current
        /\ \A o \in drains[d].object .. current :
              /\ objects[o].drain = d
              /\ objects[o].array = objects[drains[d].object].array
    BY DEF QueueInv, DrainIsCopied
  <1> QED BY <1>1, <1>2, <1>3

\* A write of the current object that waits for the drain.
WaitsForDrain ==
    /\ accepted <= MaxBlocks
    /\ objects[current].drain # NoDrain
    /\ objects[current].queued # MaxQueued
    /\ accepted' = accepted + 1
    /\ objects' = [objects EXCEPT ![current].queued = @ + 1]
    /\ arrays' = [arrays EXCEPT ![objects[current].array] = @ + 1]
    /\ UNCHANGED <<drains, current, written, stopPromise>>

(* A write that finds a drain is counted, and waits in its array. *)
LEMMA WaitingPreservesQueue ==
  ASSUME QueueTypeOK, QueueInv, WaitsForDrain
  PROVE  QueueTypeOK' /\ QueueInv'
  <1> USE Numbers
  <1>1. /\ current' = current /\ drains' = drains /\ written' = written
        /\ stopPromise' = stopPromise /\ accepted' = accepted + 1
        /\ objects[current].drain # NoDrain
        /\ objects[current].queued # MaxQueued
    BY DEF WaitsForDrain
  <1>2. /\ current \in Objects /\ objects \in ObjectTable /\ drains \in DrainTable
        /\ arrays \in [Arrays -> 0..MaxQueued]
        /\ accepted \in 0..MaxBlocks /\ written \in 0..(MaxBlocks + 1)
    BY DEF QueueTypeOK, WaitsForDrain
  <1> DEFINE array == objects[current].array
             waiting == arrays[array]
             queued == objects[current].queued
  <1>3. /\ array \in Arrays /\ waiting \in 0..MaxQueued
        /\ queued \in -MaxBlocks..(MaxQueued - 1)
        /\ waiting <= queued
        /\ ~NonePending => waiting + 1 <= queued
        /\ ~NonePending => written + 1 + waiting <= accepted
        /\ written <= accepted
    <2>1. array \in Arrays /\ queued \in -MaxBlocks..MaxQueued
      BY <1>2 DEF ObjectTable
    <2>2. waiting \in 0..MaxQueued
      BY <1>2, <2>1
    <2>3. /\ waiting <= queued
          /\ ~NonePending => waiting + 1 <= queued
          /\ ~NonePending => written + 1 + waiting <= accepted
          /\ written <= accepted
      BY DEF QueueInv, QueueIsCounted, WritesAreCounted, Waiting
    <2> QED BY <1>1, <2>1, <2>2, <2>3
  <1>4. /\ arrays' \in [Arrays -> 0..MaxQueued]
        /\ arrays'[objects[current].array] = waiting + 1
    BY <1>2, <1>3 DEF WaitsForDrain
  <1>5. /\ objects' \in ObjectTable
        /\ objects'[current].queued = queued + 1
        /\ \A o \in Objects : /\ objects'[o].drain = objects[o].drain
                              /\ objects'[o].array = objects[o].array
                              /\ o # current => objects'[o] = objects[o]
    BY <1>2, <1>3 DEF ObjectTable, WaitsForDrain
  <1>6. arrays'[objects'[current].array] = waiting + 1
    BY <1>2, <1>4, <1>5
  <1>7. NonePending' <=> NonePending
    BY <1>1 DEF NonePending, IsPending
  <1> HIDE DEF array, waiting, queued
  <1>8. QueueTypeOK'
    BY <1>1, <1>2, <1>4, <1>5 DEF QueueTypeOK
  <1>9. OneDrain'
    BY <1>1 DEF QueueInv, OneDrain, IsPending
  <1>10. DrainIsCopied'
    BY <1>1, <1>5, NamesAreKept
  <1>11. DrainsAreNumbered'
    <2>1. 0..accepted \subseteq 0..accepted'
      BY <1>1, <1>2
    <2> QED BY <1>1, <2>1 DEF QueueInv, DrainsAreNumbered
  <1>12. QueueIsCounted'
    <2>1. objects'[current].drain # NoDrain
      BY <1>1, <1>2, <1>5
    <2>2. waiting + 1 <= queued + 1
      BY <1>3
    <2>3. ~NonePending => waiting + 1 + 1 <= queued + 1
      BY <1>3
    <2> QED BY <1>1, <1>5, <1>6, <1>7, <2>1, <2>2, <2>3
            DEF QueueIsCounted, Waiting
  <1>13. CountsAreBounded'
    <2>1. ASSUME NEW o \in Objects
          PROVE  objects'[o].queued >= 0 \/ objects'[o].queued + accepted' >= 1
      <3>1. objects[o].queued \in -MaxBlocks..MaxQueued
        BY <1>2 DEF ObjectTable
      <3>2. objects[o].queued >= 0 \/ objects[o].queued + accepted >= 1
        BY DEF QueueInv, CountsAreBounded
      <3>3. \/ objects'[o].queued = objects[o].queued
            \/ objects'[o].queued = objects[o].queued + 1
        BY <1>5 DEF queued
      <3> QED BY <1>1, <1>2, <3>1, <3>2, <3>3
    <2>2. ASSUME NEW d \in Drains, IsPending(d)
          PROVE  objects'[drains[d].object].queued + accepted'
                   >= arrays'[objects'[drains[d].object].array] + 2
      <3> DEFINE k == drains[d].object
      <3>1. k \in Objects /\ objects[k].array = array
        BY <2>2, DrainServesCurrent DEF array
      <3> HIDE DEF k
      <3>2. objects[k].queued \in -MaxBlocks..MaxQueued
        BY <1>2, <3>1 DEF ObjectTable
      <3>3. objects[k].queued + accepted >= waiting + 2
        BY <2>2, <3>1 DEF QueueInv, CountsAreBounded, Waiting, k, array, waiting
      <3>4. arrays'[objects'[k].array] = waiting + 1
        BY <1>4, <1>5, <3>1 DEF array
      <3>5. \/ objects'[k].queued = objects[k].queued
            \/ objects'[k].queued = objects[k].queued + 1
        BY <1>5, <3>1 DEF queued
      <3>6. objects'[k].queued + accepted' >= waiting + 1 + 2
        BY <1>1, <1>2, <1>3, <3>2, <3>3, <3>5
      <3> QED BY <3>4, <3>6 DEF k
    <2> QED BY <1>1, <2>1, <2>2 DEF CountsAreBounded, IsPending, Waiting
  <1>14. WritesAreCounted'
    <2>1. written <= accepted + 1
      BY <1>2, <1>3
    <2>2. ~NonePending => written + 1 + (waiting + 1) <= accepted + 1
      BY <1>2, <1>3
    <2> QED BY <1>1, <1>6, <1>7, <2>1, <2>2 DEF WritesAreCounted, Waiting
  <1>15. FirstObjectIsExact'
    <2>1. /\ objects'[0].drain = objects[0].drain
          /\ objects[0].drain # NoDrain =>
                /\ IsPending(objects[0].drain)
                /\ drains[objects[0].drain].object = 0
      BY <1>5 DEF QueueInv, FirstObjectIsExact
    <2>2. ASSUME current = 0, stopPromise # "rejected"
          PROVE  accepted' = written + arrays'[objects'[0].array]
                               + (IF NonePending THEN 0 ELSE 1)
      <3>1. accepted = written + waiting + (IF NonePending THEN 0 ELSE 1)
        BY <2>2 DEF QueueInv, FirstObjectIsExact, Waiting, waiting, array
      <3>2. arrays'[objects'[0].array] = waiting + 1
        BY <1>6, <2>2
      <3>3. accepted + 1 = written + (waiting + 1)
                             + (IF NonePending THEN 0 ELSE 1)
        BY <1>2, <1>3, <3>1
      <3> QED BY <1>1, <3>2, <3>3
    <2> QED BY <1>1, <1>7, <2>1, <2>2 DEF FirstObjectIsExact, IsPending, Waiting
  <1> QED BY <1>8, <1>9, <1>10, <1>11, <1>12, <1>13, <1>14, <1>15 DEF QueueInv

(* #enqueueWrite() on the current object.  A write that is refused rejects
   the stopPromise and is not counted. *)
LEMMA EnqueuePreservesQueue ==
  ASSUME QueueTypeOK, QueueInv, StopTypeOK, accepted <= MaxBlocks,
         EnqueueWrite(current), UNCHANGED <<current, written>>
  PROVE  /\ QueueTypeOK' /\ QueueInv'
         /\ stopPromise' \in {stopPromise, "rejected"}
         /\ stopPromise # "pending" => stopPromise' = stopPromise
         /\ accepted' \in {accepted, accepted + 1}
         /\ stopPromise = "resolved" => stopPromise' = "resolved"
  <1>1. CASE QueueFull(current)
    <2>1. Settle("rejected") /\ UNCHANGED <<objects, arrays, drains, accepted>>
      BY <1>1 DEF EnqueueWrite, queueVars
    <2>2. /\ stopPromise' \in {stopPromise, "rejected"}
          /\ stopPromise # "pending" => stopPromise' = stopPromise
          /\ stopPromise' # "rejected" => stopPromise # "rejected"
      BY <2>1 DEF Settle
    <2> QED BY <2>1, <2>2, QueueStays
  <1>2. CASE ~QueueFull(current) /\ DrainStarts(current)
    <2>1. StartsDrain
      BY <1>2 DEF EnqueueWrite, QueueFull, DrainStarts, StartsDrain
    <2> QED BY <2>1, DrainStartPreservesQueue DEF StartsDrain
  <1>3. CASE ~QueueFull(current) /\ ~DrainStarts(current)
    <2>1. WaitsForDrain
      BY <1>3 DEF EnqueueWrite, QueueFull, DrainStarts, WaitsForDrain
    <2> QED BY <2>1, WaitingPreservesQueue DEF WaitsForDrain
  <1> QED BY <1>1, <1>2, <1>3

\* What the queue looks like to a drain d whose object is o.
DrainSees(d, o, waiting) ==
    /\ o \in Objects /\ o <= current
    /\ drains[d].object = o /\ objects[o].drain = d
    /\ objects[current].drain = d
    /\ objects[o].array = objects[current].array
    /\ objects[o].array \in Arrays
    /\ arrays[objects[o].array] = waiting
    /\ waiting \in 0..MaxQueued
    /\ objects[o].queued \in -MaxBlocks..MaxQueued
    /\ objects[current].queued \in -MaxBlocks..MaxQueued
    /\ waiting + 1 <= objects[current].queued
    /\ objects[o].queued + accepted >= waiting + 2
    /\ written + 1 + waiting <= accepted
    /\ \A e \in Drains : drains[e].promise = "pending" <=> e = d

(* The queue as the drain under way finds it. *)
LEMMA DrainFinds ==
  ASSUME QueueTypeOK, QueueInv, NEW d \in Drains, IsPending(d)
  PROVE  DrainSees(d, drains[d].object, Waiting(current))
  <1> USE Numbers
  <1>1. /\ drains[d].object \in Objects /\ drains[d].object <= current
        /\ objects[current].drain = d
        /\ objects[drains[d].object].drain = d
        /\ objects[current].array = objects[drains[d].object].array
    BY DrainServesCurrent
  <1>2. /\ current \in Objects /\ objects \in ObjectTable
        /\ arrays \in [Arrays -> 0..MaxQueued]
    BY DEF QueueTypeOK
  <1>3. \A o \in Objects : /\ objects[o].queued \in -MaxBlocks..MaxQueued
                           /\ objects[o].array \in Arrays
    BY <1>2 DEF ObjectTable
  <1>4. Waiting(current) \in 0..MaxQueued
    BY <1>2, <1>3 DEF Waiting
  <1>5. ~NonePending
    BY DEF NonePending
  <1>6. Waiting(current) + 1 <= objects[current].queued
    BY <1>5 DEF QueueInv, QueueIsCounted
  <1>7. written + 1 + Waiting(current) <= accepted
    BY <1>5 DEF QueueInv, WritesAreCounted
  <1>8. objects[drains[d].object].queued + accepted
          >= Waiting(drains[d].object) + 2
    BY DEF QueueInv, CountsAreBounded
  <1>9. Waiting(drains[d].object) = Waiting(current)
    BY <1>1 DEF Waiting
  <1>10. \A e \in Drains : drains[e].promise = "pending" <=> e = d
    BY DEF QueueInv, OneDrain, IsPending
  <1> QED BY <1>1, <1>2, <1>3, <1>4, <1>6, <1>7, <1>8, <1>9, <1>10
          DEF DrainSees, Waiting

\* An append of drain d succeeds and it takes the next write.
DrainGoesOn(d, o) ==
    /\ written' = written + 1
    /\ arrays[objects[o].array] > 0
    /\ arrays' = [arrays EXCEPT ![objects[o].array] = @ - 1]
    /\ objects' = [objects EXCEPT ![o].queued = @ - 1]
    /\ UNCHANGED <<drains, current, stopPromise, accepted>>

(* A drain that goes on gives back the place of the write that is done. *)
LEMMA GoingOnPreservesQueue ==
  ASSUME QueueTypeOK, QueueInv, NEW d \in Drains, NEW o \in Objects,
         NEW waiting \in Nat, DrainSees(d, o, waiting), DrainGoesOn(d, o)
  PROVE  QueueTypeOK' /\ QueueInv' /\ (NonePending' <=> NonePending)
  <1> USE Numbers
  <1>1. /\ current' = current /\ drains' = drains /\ written' = written + 1
        /\ stopPromise' = stopPromise /\ accepted' = accepted
        /\ waiting > 0
    BY DEF DrainGoesOn, DrainSees
  <1>2. /\ current \in Objects /\ objects \in ObjectTable /\ drains \in DrainTable
        /\ arrays \in [Arrays -> 0..MaxQueued]
        /\ accepted \in 0..(MaxBlocks + 1) /\ written \in 0..(MaxBlocks + 1)
    BY DEF QueueTypeOK
  <1>3. /\ objects[o].queued \in Int /\ objects[current].queued \in Int
        /\ objects[o].queued >= -MaxBlocks /\ objects[o].queued <= MaxQueued
        /\ waiting \in 1..MaxQueued
        /\ waiting + 1 <= objects[current].queued
        /\ objects[o].queued + accepted >= waiting + 2
        /\ written + 1 + waiting <= accepted
    BY <1>1 DEF DrainSees
  <1>4. objects[o].queued - 1 \in -MaxBlocks..MaxQueued
    BY <1>2, <1>3
  <1>5. /\ arrays' \in [Arrays -> 0..MaxQueued]
        /\ arrays'[objects[o].array] = waiting - 1
    BY <1>2, <1>3 DEF DrainGoesOn, DrainSees
  <1>6. /\ objects' \in ObjectTable
        /\ objects'[o].queued = objects[o].queued - 1
        /\ \A k \in Objects : /\ objects'[k].drain = objects[k].drain
                              /\ objects'[k].array = objects[k].array
                              /\ k # o => objects'[k] = objects[k]
    BY <1>2, <1>4 DEF ObjectTable, DrainGoesOn
  <1>7. /\ arrays'[objects'[o].array] = waiting - 1
        /\ arrays'[objects'[current].array] = waiting - 1
    BY <1>2, <1>5, <1>6 DEF DrainSees
  <1>8. NonePending' <=> NonePending
    BY <1>1 DEF NonePending, IsPending
  <1>9. QueueTypeOK'
    <2>1. written' \in 0..(MaxBlocks + 1)
      BY <1>1, <1>2, <1>3
    <2> QED BY <1>1, <1>2, <1>5, <1>6, <2>1 DEF QueueTypeOK
  <1>10. OneDrain' /\ DrainsAreNumbered'
    BY <1>1 DEF QueueInv, OneDrain, DrainsAreNumbered, IsPending
  <1>11. DrainIsCopied'
    BY <1>1, <1>6, NamesAreKept
  <1>12. QueueIsCounted'
    <2>1. objects'[current].drain # NoDrain
      BY <1>2, <1>6 DEF DrainSees
    <2>2. \/ objects'[current].queued = objects[current].queued
          \/ objects'[current].queued = objects[current].queued - 1
      BY <1>2, <1>6
    <2>3. waiting - 1 + 1 <= objects'[current].queued
      BY <1>3, <2>2
    <2>4. waiting - 1 <= objects'[current].queued
      BY <1>3, <2>2
    <2> QED BY <1>1, <1>7, <2>1, <2>3, <2>4 DEF QueueIsCounted, Waiting
  <1>13. CountsAreBounded'
    <2>1. objects'[o].queued + accepted >= waiting - 1 + 2
      BY <1>2, <1>3, <1>6
    <2>2. ASSUME NEW k \in Objects
          PROVE  objects'[k].queued >= 0 \/ objects'[k].queued + accepted >= 1
      <3>1. CASE k = o
        BY <1>2, <1>3, <1>6, <3>1
      <3>2. CASE k # o
        BY <1>6, <3>2 DEF QueueInv, CountsAreBounded
      <3> QED BY <3>1, <3>2
    <2>3. \A e \in Drains : IsPending(e) => drains[e].object = o
      BY DEF DrainSees, IsPending
    <2> QED BY <1>1, <1>7, <2>1, <2>2, <2>3
            DEF CountsAreBounded, IsPending, Waiting
  <1>14. WritesAreCounted'
    <2>1. written + 1 <= accepted
      BY <1>2, <1>3
    <2>2. written + 1 + 1 + (waiting - 1) <= accepted
      BY <1>2, <1>3
    <2> QED BY <1>1, <1>7, <2>1, <2>2 DEF WritesAreCounted, Waiting
  <1>15. FirstObjectIsExact'
    <2>1. /\ objects'[0].drain = objects[0].drain
          /\ objects[0].drain # NoDrain =>
                /\ IsPending(objects[0].drain)
                /\ drains[objects[0].drain].object = 0
      BY <1>6 DEF QueueInv, FirstObjectIsExact
    <2>2. ASSUME current = 0, stopPromise # "rejected"
          PROVE  accepted = written + 1 + arrays'[objects'[0].array]
                               + (IF NonePending THEN 0 ELSE 1)
      <3>1. Waiting(0) = waiting
        BY <2>2 DEF DrainSees, Waiting
      <3>2. accepted = written + waiting + (IF NonePending THEN 0 ELSE 1)
        BY <2>2, <3>1 DEF QueueInv, FirstObjectIsExact
      <3>3. accepted = written + 1 + (waiting - 1)
                             + (IF NonePending THEN 0 ELSE 1)
        BY <1>2, <1>3, <3>2
      <3> QED BY <1>7, <2>2, <3>3
    <2> QED BY <1>1, <1>8, <2>1, <2>2 DEF FirstObjectIsExact, IsPending, Waiting
  <1> QED BY <1>8, <1>9, <1>10, <1>11, <1>12, <1>13, <1>14, <1>15 DEF QueueInv

\* Drain d of object o is over, and the object names it no longer.
DrainIsOver(d, o) ==
    /\ drains' = [drains EXCEPT ![d].promise = "settled"]
    /\ objects'[o].drain = NoDrain
    /\ \A k \in Objects : k # o => objects'[k] = objects[k]
    /\ UNCHANGED <<current, accepted>>

(* When the drain under way is over there is none, and the first object names
   none: it names only a drain it started. *)
LEMMA NoDrainIsLeft ==
  ASSUME QueueTypeOK, QueueInv, NEW d \in Drains, NEW o \in Objects,
         NEW waiting \in Nat, DrainSees(d, o, waiting), DrainIsOver(d, o)
  PROVE  /\ drains' \in DrainTable
         /\ \A e \in Drains : drains'[e].promise # "pending"
         /\ NonePending' /\ OneDrain' /\ DrainIsCopied' /\ DrainsAreNumbered'
         /\ objects'[0].drain = NoDrain
  <1> USE Numbers
  <1>1. drains \in DrainTable
    BY DEF QueueTypeOK
  <1>2. /\ drains' \in DrainTable
        /\ drains'[d].promise = "settled"
        /\ \A e \in Drains : e # d => drains'[e] = drains[e]
    BY <1>1 DEF DrainIsOver, DrainTable
  <1>3. \A e \in Drains : drains[e].promise = "pending" <=> e = d
    BY DEF DrainSees
  <1>4. \A e \in Drains : drains'[e].promise # "pending"
    BY <1>2, <1>3
  <1>5. NonePending' /\ OneDrain' /\ DrainIsCopied'
    BY <1>4 DEF NonePending, OneDrain, DrainIsCopied, IsPending
  <1>6. DrainsAreNumbered'
    <2>1. \A e \in Drains : drains'[e].promise = "unused"
                             <=> drains[e].promise = "unused"
      BY <1>2, <1>3
    <2>2. accepted' = accepted
      BY DEF DrainIsOver
    <2> QED BY <2>1, <2>2 DEF QueueInv, DrainsAreNumbered
  <1>7. objects'[0].drain = NoDrain
    <2>1. CASE o = 0
      BY <2>1 DEF DrainIsOver
    <2>2. CASE o # 0
      <3>1. objects'[0] = objects[0]
        BY <2>2 DEF DrainIsOver
      <3>2. SUFFICES ASSUME objects[0].drain # NoDrain PROVE FALSE
        BY <3>1
      <3>3. /\ drains[objects[0].drain].promise = "pending"
            /\ drains[objects[0].drain].object = 0
        BY <3>2 DEF QueueInv, FirstObjectIsExact, IsPending
      <3>4. objects[0].drain \in Drains
        BY <3>2 DEF QueueTypeOK, ObjectTable
      <3>5. objects[0].drain = d
        BY <1>3, <3>3, <3>4
      <3> QED BY <2>2, <3>3, <3>5 DEF DrainSees
    <2> QED BY <2>1, <2>2
  <1> QED BY <1>2, <1>4, <1>5, <1>6, <1>7

\* An append of drain d succeeds and nothing waits.
DrainEnds(d, o) ==
    /\ written' = written + 1
    /\ ~(arrays[objects[o].array] > 0)
    /\ objects' = [objects EXCEPT ![o].queued = @ - 1, ![o].drain = NoDrain]
    /\ drains' = [drains EXCEPT ![d].promise = "settled"]
    /\ UNCHANGED <<arrays, current, stopPromise, accepted>>

(* A drain that finds nothing to write leaves nothing behind. *)
LEMMA EndingPreservesQueue ==
  ASSUME QueueTypeOK, QueueInv, NEW d \in Drains, NEW o \in Objects,
         NEW waiting \in Nat, DrainSees(d, o, waiting), DrainEnds(d, o)
  PROVE  QueueTypeOK' /\ QueueInv' /\ NonePending'
  <1> USE Numbers
  <1>1. /\ current' = current /\ arrays' = arrays /\ written' = written + 1
        /\ stopPromise' = stopPromise /\ accepted' = accepted
        /\ waiting = 0
    BY DEF DrainEnds, DrainSees
  <1>2. /\ current \in Objects /\ objects \in ObjectTable
        /\ arrays \in [Arrays -> 0..MaxQueued]
        /\ accepted \in 0..(MaxBlocks + 1) /\ written \in 0..(MaxBlocks + 1)
    BY DEF QueueTypeOK
  <1>3. /\ objects[o].queued \in Int /\ objects[current].queued \in Int
        /\ objects[o].queued >= -MaxBlocks /\ objects[o].queued <= MaxQueued
        /\ 1 <= objects[current].queued
        /\ objects[o].queued + accepted >= 2
        /\ written + 1 <= accepted
    BY <1>1, <1>2 DEF DrainSees
  <1>4. objects[o].queued - 1 \in -MaxBlocks..MaxQueued
    BY <1>2, <1>3
  <1>5. /\ objects' \in ObjectTable
        /\ objects'[o].queued = objects[o].queued - 1
        /\ objects'[o].drain = NoDrain
        /\ \A k \in Objects : /\ objects'[k].array = objects[k].array
                              /\ k # o => objects'[k] = objects[k]
    BY <1>2, <1>4 DEF ObjectTable, DrainEnds
  <1>6. arrays'[objects'[current].array] = 0
    BY <1>1, <1>2, <1>5 DEF DrainSees
  <1>7. DrainIsOver(d, o)
    BY <1>5 DEF DrainIsOver, DrainEnds
  <1>8. /\ drains' \in DrainTable
        /\ \A e \in Drains : drains'[e].promise # "pending"
        /\ NonePending' /\ OneDrain' /\ DrainIsCopied' /\ DrainsAreNumbered'
        /\ objects'[0].drain = NoDrain
    BY <1>7, NoDrainIsLeft
  <1>9. QueueTypeOK'
    <2>1. written' \in 0..(MaxBlocks + 1)
      BY <1>1, <1>2, <1>3
    <2> QED BY <1>1, <1>2, <1>5, <1>8, <2>1 DEF QueueTypeOK
  <1>10. QueueIsCounted'
    <2>1. \/ objects'[current].queued = objects[current].queued
          \/ objects'[current].queued = objects[current].queued - 1
      BY <1>2, <1>5
    <2>2. 0 <= objects'[current].queued
      BY <1>3, <2>1
    <2> QED BY <1>1, <1>6, <1>8, <2>2 DEF QueueIsCounted, Waiting
  <1>11. CountsAreBounded'
    <2>1. ASSUME NEW k \in Objects
          PROVE  objects'[k].queued >= 0 \/ objects'[k].queued + accepted >= 1
      <3>1. CASE k = o
        BY <1>2, <1>3, <1>5, <3>1
      <3>2. CASE k # o
        BY <1>5, <3>2 DEF QueueInv, CountsAreBounded
      <3> QED BY <3>1, <3>2
    <2> QED BY <1>1, <1>8, <2>1 DEF CountsAreBounded, IsPending
  <1>12. WritesAreCounted'
    BY <1>1, <1>3, <1>8 DEF WritesAreCounted
  <1>13. FirstObjectIsExact'
    <2>1. ASSUME current = 0, stopPromise # "rejected"
          PROVE  accepted = written + 1 + 0 + 0
      <3>1. Waiting(0) = 0
        BY <1>1, <2>1 DEF DrainSees, Waiting
      <3>2. ~NonePending
        BY DEF DrainSees, NonePending, IsPending
      <3> QED BY <1>2, <2>1, <3>1, <3>2 DEF QueueInv, FirstObjectIsExact
    <2>2. current = 0 => arrays'[objects'[0].array] = 0
      BY <1>6
    <2> QED BY <1>1, <1>8, <2>1, <2>2 DEF FirstObjectIsExact, Waiting
  <1> QED BY <1>8, <1>9, <1>10, <1>11, <1>12, <1>13 DEF QueueInv

\* An append of drain d fails: the object gets an array of its own.
DrainFails(d, o) ==
    /\ objects' = [objects EXCEPT ![o] = [NewObject EXCEPT !.array = o + 1]]
    /\ arrays' = [arrays EXCEPT ![o + 1] = 0]
    /\ drains' = [drains EXCEPT ![d].promise = "settled"]
    /\ stopPromise' = "rejected"
    /\ UNCHANGED <<current, accepted, written>>

(* What a failed drain drops is forgotten by the count of its object too. *)
LEMMA FailingPreservesQueue ==
  ASSUME QueueTypeOK, QueueInv, NEW d \in Drains, NEW o \in Objects,
         NEW waiting \in Nat, DrainSees(d, o, waiting), DrainFails(d, o)
  PROVE  QueueTypeOK' /\ QueueInv' /\ NonePending'
  <1> USE Numbers
  <1>1. /\ current' = current /\ written' = written
        /\ stopPromise' = "rejected" /\ accepted' = accepted
    BY DEF DrainFails
  <1>2. /\ current \in Objects /\ objects \in ObjectTable
        /\ arrays \in [Arrays -> 0..MaxQueued]
        /\ accepted \in 0..(MaxBlocks + 1) /\ written \in 0..(MaxBlocks + 1)
    BY DEF QueueTypeOK
  <1> DEFINE fresh == [NewObject EXCEPT !.array = o + 1]
  <1>3. /\ fresh \in [queued : -MaxBlocks..MaxQueued,
                      drain : Drains \cup {NoDrain}, array : Arrays]
        /\ fresh.queued = 0 /\ fresh.drain = NoDrain /\ fresh.array = o + 1
    BY DEF NewObject
  <1> HIDE DEF fresh
  <1>4. /\ objects' \in ObjectTable
        /\ objects'[o] = fresh
        /\ \A k \in Objects : k # o => objects'[k] = objects[k]
    BY <1>2, <1>3 DEF ObjectTable, DrainFails, fresh
  <1>5. /\ arrays' \in [Arrays -> 0..MaxQueued]
        /\ arrays'[o + 1] = 0
        /\ \A a \in Arrays : arrays'[a] = 0 \/ arrays'[a] = arrays[a]
    BY <1>2 DEF DrainFails
  <1>6. DrainIsOver(d, o)
    BY <1>3, <1>4 DEF DrainIsOver, DrainFails
  <1>7. /\ drains' \in DrainTable
        /\ \A e \in Drains : drains'[e].promise # "pending"
        /\ NonePending' /\ OneDrain' /\ DrainIsCopied' /\ DrainsAreNumbered'
        /\ objects'[0].drain = NoDrain
    BY <1>6, NoDrainIsLeft
  <1>8. QueueTypeOK'
    BY <1>1, <1>2, <1>4, <1>5, <1>7 DEF QueueTypeOK
  <1>9. QueueIsCounted'
    <2>1. CASE current = o
      <3>1. /\ arrays'[objects'[current].array] = 0
            /\ objects'[current].queued = 0
        BY <1>3, <1>4, <1>5, <2>1
      <3> QED BY <1>1, <1>7, <3>1 DEF QueueIsCounted, Waiting
    <2>2. CASE current # o
      <3>1. objects'[current] = objects[current]
        BY <1>2, <1>4, <2>2
      <3>2. /\ objects[current].drain # NoDrain
            /\ objects[current].array \in Arrays
            /\ arrays[objects[current].array] = waiting
            /\ objects[current].queued \in Int
            /\ waiting + 1 <= objects[current].queued
        BY DEF DrainSees
      <3>3. \/ arrays'[objects[current].array] = 0
            \/ arrays'[objects[current].array] = waiting
        BY <1>5, <3>2
      <3>4. arrays'[objects[current].array] <= objects[current].queued
        BY <3>2, <3>3
      <3> QED BY <1>1, <1>7, <3>1, <3>2, <3>4 DEF QueueIsCounted, Waiting
    <2> QED BY <2>1, <2>2
  <1>10. CountsAreBounded'
    <2>1. ASSUME NEW k \in Objects
          PROVE  objects'[k].queued >= 0 \/ objects'[k].queued + accepted >= 1
      <3>1. CASE k = o
        BY <1>3, <1>4, <3>1
      <3>2. CASE k # o
        BY <1>4, <3>2 DEF QueueInv, CountsAreBounded
      <3> QED BY <3>1, <3>2
    <2> QED BY <1>1, <1>7, <2>1 DEF CountsAreBounded, IsPending
  <1>11. WritesAreCounted'
    BY <1>1, <1>7 DEF QueueInv, WritesAreCounted
  <1>12. FirstObjectIsExact'
    BY <1>1, <1>7 DEF FirstObjectIsExact
  <1> QED BY <1>7, <1>8, <1>9, <1>10, <1>11, <1>12 DEF QueueInv

(* An acknowledged append: the drain goes on or ends. *)
LEMMA AppendDonePreservesQueue ==
  ASSUME QueueTypeOK, QueueInv, NEW d \in Drains, AppendDone(d)
  PROVE  QueueTypeOK' /\ QueueInv' /\ ~NonePending
  <1>1. IsPending(d)
    BY DEF AppendDone, IsPending
  <1>2. DrainSees(d, drains[d].object, Waiting(current))
    BY <1>1, DrainFinds
  <1>3. drains[d].object \in Objects /\ Waiting(current) \in Nat
    BY <1>2, Numbers DEF DrainSees
  <1>4. CASE arrays[objects[drains[d].object].array] > 0
    <2>1. DrainGoesOn(d, drains[d].object)
      BY <1>4 DEF AppendDone, DrainGoesOn
    <2> QED BY <1>1, <1>2, <1>3, <2>1, GoingOnPreservesQueue DEF NonePending
  <1>5. CASE ~(arrays[objects[drains[d].object].array] > 0)
    <2>1. DrainEnds(d, drains[d].object)
      BY <1>5 DEF AppendDone, DrainEnds
    <2> QED BY <1>1, <1>2, <1>3, <2>1, EndingPreservesQueue DEF NonePending
  <1> QED BY <1>4, <1>5

(* A failed append rejects the stopPromise, which no earlier stop has
   resolved: that would have awaited the drain. *)
LEMMA AppendFailsPreservesQueue ==
  ASSUME QueueTypeOK, QueueInv, NEW d \in Drains, AppendFails(d),
         stopPromise \in {"pending", "rejected"}
  PROVE  /\ QueueTypeOK' /\ QueueInv'
         /\ NonePending' /\ ~NonePending /\ stopPromise' = "rejected"
  <1>1. IsPending(d)
    BY DEF AppendFails, IsPending
  <1>2. DrainSees(d, drains[d].object, Waiting(current))
    BY <1>1, DrainFinds
  <1>3. drains[d].object \in Objects /\ Waiting(current) \in Nat
    BY <1>2, Numbers DEF DrainSees
  <1>4. DrainFails(d, drains[d].object)
    BY DEF AppendFails, DrainFails, Settle
  <1> QED BY <1>1, <1>2, <1>3, <1>4, FailingPreservesQueue
          DEF NonePending, DrainFails

-------------------------------------------------------------------------------

\* What a step may do to the part of the state that the service sees.
ServiceSteps ==
    \/ /\ type' = type
       /\ stopPromise = "pending" \/ stopPromise' = stopPromise
    \/ type = "idle" /\ type' = "running" /\ stopPromise' = "pending"
    \/ /\ {type, type'} = {"running", "paused"}
       /\ stopPromise = "pending" /\ stopPromise' = "pending"
    \/ /\ type # "idle" /\ stopPromise = "resolved"
       /\ type' = "idle" /\ stopPromise' = "resolved"

\* What every action preserves, and that the service sees a step it knows.
Steps == RecorderIInv' /\ ServiceSteps

(* The actions of the service: start(), pause(), resume() and stop(). *)
LEMMA ServiceCallsPreserve ==
  ASSUME RecorderIInv, Start \/ Pause \/ Resume \/ Stop
  PROVE  Steps
  <1> USE TypeParts, Numbers
  <1>0. QueueTypeOK /\ StopTypeOK /\ QueueInv /\ StopInv
    BY DEF RecorderIInv
  <1>1. CASE Start
    <2>1. QueueTypeOK' /\ QueueInv' /\ NonePending'
      BY <1>1, FreshQueueAfter DEF Start, QueueIsFresh
    <2>2. NoCompletion.step = "none" /\ NoCompletion.object = 0
      BY DEF NoCompletion
    <2>3. StopTypeOK'
      BY <1>1 DEF Start, StopTypeOK, NoCompletion
    <2>4. StopInv'
      BY <1>1, <2>2 DEF Start, StopInv
    <2> QED BY <1>1, <2>1, <2>3, <2>4 DEF RecorderIInv, Steps, ServiceSteps, Start
  <1>2. CASE Pause \/ Resume
    <2>1. /\ {type, type'} = {"running", "paused"} /\ type' # "idle"
          /\ ~stopping /\ stopPromise = "pending" /\ current < MaxCopies
          /\ current' = current + 1
          /\ objects' = [objects EXCEPT ![current + 1] = objects[current]]
          /\ UNCHANGED <<arrays, drains, stopPromise, stopping, completion,
                         accepted, written>>
      BY <1>2 DEF Pause, Resume, CopyState
    <2>2. QueueTypeOK' /\ QueueInv' /\ (NonePending' <=> NonePending)
      BY <1>0, <2>1, CopyPreservesQueue
    <2>3. StopTypeOK'
      BY <1>0, <2>1 DEF StopTypeOK
    <2>4. StopInv'
      BY <1>0, <2>1 DEF StopInv
    <2> QED BY <2>1, <2>2, <2>3, <2>4 DEF RecorderIInv, Steps, ServiceSteps
  <1>3. CASE Stop
    <2>1. /\ type # "idle" /\ stopping' = TRUE
          /\ UNCHANGED <<type, current, objects, arrays, drains, accepted,
                         stopPromise, completion, written>>
      BY <1>3 DEF Stop, queueVars
    <2>2. QueueTypeOK' /\ QueueInv' /\ (NonePending' <=> NonePending)
      BY <1>0, <2>1, QueueStays
    <2>3. StopTypeOK' /\ StopInv'
      BY <1>0, <2>1, <2>2 DEF StopTypeOK, StopInv
    <2> QED BY <2>1, <2>2, <2>3 DEF RecorderIInv, Steps, ServiceSteps
  <1> QED BY <1>1, <1>2, <1>3

(* The worklet's writes, and the answers of the main process. *)
LEMMA WritesPreserve ==
  ASSUME RecorderIInv, Produce \/ \E d \in Drains : AppendDone(d) \/ AppendFails(d)
  PROVE  Steps
  <1> USE TypeParts, Numbers
  <1>0. QueueTypeOK /\ StopTypeOK /\ QueueInv /\ StopInv
    BY DEF RecorderIInv
  <1>1. CASE Produce
    <2>1. /\ type # "idle" /\ completion.step = "none"
          /\ accepted < MaxBlocks /\ accepted \in Nat
          /\ EnqueueWrite(current)
          /\ UNCHANGED <<type, current, stopping, completion, written>>
      BY <1>0, <1>1 DEF Produce, QueueTypeOK
    <2>2. /\ QueueTypeOK' /\ QueueInv'
          /\ stopPromise' \in {stopPromise, "rejected"}
          /\ stopPromise # "pending" => stopPromise' = stopPromise
          /\ accepted' \in {accepted, accepted + 1}
      BY <1>0, <2>1, EnqueuePreservesQueue
    <2>3. StopTypeOK'
      BY <1>0, <2>1, <2>2 DEF StopTypeOK
    <2>4. accepted' <= MaxBlocks
      BY <2>1, <2>2
    <2>5. StopInv'
      BY <1>0, <2>1, <2>2, <2>4 DEF StopInv
    <2> QED BY <2>1, <2>2, <2>3, <2>5 DEF RecorderIInv, Steps, ServiceSteps
  <1>2. ASSUME NEW d \in Drains, AppendDone(d)
        PROVE  Steps
    <2>1. QueueTypeOK' /\ QueueInv' /\ ~NonePending
      BY <1>0, <1>2, AppendDonePreservesQueue
    <2>2. UNCHANGED <<type, current, stopPromise, stopping, completion, accepted>>
      BY <1>2 DEF AppendDone
    <2>3. StopTypeOK' /\ StopInv'
      BY <1>0, <2>1, <2>2 DEF StopTypeOK, StopInv
    <2> QED BY <2>1, <2>2, <2>3 DEF RecorderIInv, Steps, ServiceSteps
  <1>3. ASSUME NEW d \in Drains, AppendFails(d)
        PROVE  Steps
    <2>1. ~NonePending
      BY <1>3 DEF AppendFails, NonePending, IsPending
    <2>2. type # "idle" /\ stopPromise \in {"pending", "rejected"}
      BY <1>0, <2>1 DEF StopInv, StopTypeOK
    <2>3. QueueTypeOK' /\ QueueInv' /\ NonePending' /\ stopPromise' = "rejected"
      BY <1>0, <1>3, <2>2, AppendFailsPreservesQueue
    <2>4. UNCHANGED <<type, current, stopping, completion, accepted>>
      BY <1>3 DEF AppendFails
    <2>5. StopTypeOK' /\ StopInv'
      BY <1>0, <2>2, <2>3, <2>4 DEF StopTypeOK, StopInv
    <2> QED BY <2>2, <2>3, <2>4, <2>5 DEF RecorderIInv, Steps, ServiceSteps
  <1> QED BY <1>1, <1>2, <1>3

(* A wait that is over has seen the last drain: the drain of an older object is
   named by the current one, and no write came since but the flush. *)
LEMMA WaitSeesTheDrain ==
  ASSUME QueueTypeOK, QueueInv, completion.object = current,
         Awaited, ~NewerDrain
  PROVE  NonePending
  <1> SUFFICES ASSUME NEW d \in Drains, IsPending(d) PROVE FALSE
    BY DEF NonePending
  <1>1. objects[current].drain = d
    BY DrainServesCurrent
  <1>2. d # NoDrain
    BY Numbers
  <1>3. d = completion.awaits
    BY <1>1, <1>2 DEF NewerDrain
  <1> QED BY <1>3 DEF Awaited, IsPending

(* The handler of "complete", and the return of stop(). *)
LEMMA StoppingPreserves ==
  ASSUME RecorderIInv, RecorderProceeds
  PROVE  Steps
  <1> USE TypeParts, Numbers
  <1>0. QueueTypeOK /\ StopTypeOK /\ QueueInv /\ StopInv
    BY DEF RecorderIInv
  <1>a. current \in Objects /\ objects[current].drain \in Drains \cup {NoDrain}
    BY <1>0 DEF QueueTypeOK, ObjectTable
  <1>1. CASE WorkletCompletes
    <2>1. /\ stopping /\ completion.step = "none"
          /\ completion' = Awaiting("drain", current, objects[current].drain)
          /\ UNCHANGED <<type, current, objects, arrays, drains, accepted,
                         stopPromise, stopping, written>>
      BY <1>1 DEF WorkletCompletes, queueVars
    <2>2. QueueTypeOK' /\ QueueInv' /\ (NonePending' <=> NonePending)
      BY <1>0, <2>1, QueueStays
    <2>3. completion'.step = "drain" /\ completion'.object = current
      BY <2>1 DEF Awaiting
    <2>4. StopTypeOK'
      BY <1>0, <1>a, <2>1 DEF StopTypeOK, Awaiting
    <2>5. StopInv'
      BY <1>0, <2>1, <2>2, <2>3 DEF StopInv
    <2> QED BY <2>1, <2>2, <2>4, <2>5 DEF RecorderIInv, Steps, ServiceSteps
  <1>2. CASE CompletionFlushes
    <2>1. /\ completion.step = "drain"
          /\ \/ EnqueueWrite(completion.object)
             \/ UNCHANGED <<objects, arrays, drains, accepted, stopPromise>>
          /\ completion' = Awaiting("flushed", completion.object,
                                    objects'[completion.object].drain)
          /\ UNCHANGED <<type, current, stopping, written>>
      BY <1>2 DEF CompletionFlushes, queueVars
    <2>2. /\ completion.object = current /\ accepted <= MaxBlocks
          /\ stopPromise # "resolved" /\ type # "idle"
      BY <1>0, <2>1 DEF StopInv
    <2>3. /\ QueueTypeOK' /\ QueueInv'
          /\ stopPromise' \in {stopPromise, "rejected"}
          /\ stopPromise # "pending" => stopPromise' = stopPromise
      <3>1. CASE EnqueueWrite(current)
        BY <1>0, <2>1, <2>2, <3>1, EnqueuePreservesQueue
      <3>2. CASE UNCHANGED <<objects, arrays, drains, accepted, stopPromise>>
        BY <1>0, <2>1, <3>2, QueueStays
      <3> QED BY <2>1, <2>2, <3>1, <3>2
    <2>4. objects'[current].drain \in Drains \cup {NoDrain}
      BY <1>a, <2>3 DEF QueueTypeOK, ObjectTable
    <2>5. completion'.step = "flushed" /\ completion'.object = current
      BY <2>1, <2>2 DEF Awaiting
    <2>6. StopTypeOK'
      BY <1>0, <1>a, <2>1, <2>2, <2>3, <2>4 DEF StopTypeOK, Awaiting
    <2>7. StopInv'
      BY <1>0, <2>1, <2>2, <2>3, <2>5 DEF StopInv
    <2> QED BY <2>1, <2>2, <2>3, <2>6, <2>7 DEF RecorderIInv, Steps, ServiceSteps
  <1>3. CASE CompletionResolves
    <2>1. /\ completion.step = "flushed" /\ Awaited /\ ~NewerDrain
          /\ Settle("resolved")
          /\ completion' = Awaiting("done", completion.object, NoDrain)
          /\ UNCHANGED <<type, current, objects, arrays, drains, accepted,
                         stopping, written>>
      BY <1>3 DEF CompletionResolves, queueVars
    <2>2. /\ completion.object = current /\ type # "idle"
          /\ stopPromise \in {"pending", "rejected"}
      BY <1>0, <2>1 DEF StopInv, StopTypeOK
    <2>3. NonePending
      BY <1>0, <2>1, <2>2, WaitSeesTheDrain
    <2>4. /\ stopPromise' \in {"resolved", "rejected"}
          /\ stopPromise # "pending" => stopPromise' = stopPromise
          /\ stopPromise' # "rejected" => stopPromise # "rejected"
      BY <2>1, <2>2 DEF Settle
    <2>a. UNCHANGED <<current, objects, arrays, drains, accepted, written>>
      BY <2>1
    <2>5. QueueTypeOK' /\ QueueInv' /\ NonePending'
      BY <1>0, <2>3, <2>4, <2>a, QueueStays
    <2>6. completion'.step = "done" /\ completion'.object = current
      BY <2>1, <2>2 DEF Awaiting
    <2>7. StopTypeOK'
      BY <1>0, <1>a, <2>1, <2>2, <2>4 DEF StopTypeOK, Awaiting
    <2>8. StopInv'
      BY <1>0, <2>1, <2>2, <2>4, <2>5, <2>6 DEF StopInv
    <2> QED BY <2>1, <2>4, <2>5, <2>7, <2>8 DEF RecorderIInv, Steps, ServiceSteps
  <1>4. CASE StopReturns
    <2>1. /\ stopping /\ stopPromise # "pending" /\ stopping' = FALSE
          /\ type' = IF stopPromise = "resolved" THEN "idle" ELSE type
          /\ UNCHANGED <<current, objects, arrays, drains, accepted,
                         stopPromise, completion, written>>
      BY <1>4 DEF StopReturns, queueVars
    <2>2. QueueTypeOK' /\ QueueInv' /\ (NonePending' <=> NonePending)
      BY <1>0, <2>1, QueueStays
    <2>3. type # "idle"
      BY <1>0, <2>1 DEF StopInv
    <2>4. StopTypeOK'
      BY <1>0, <2>1 DEF StopTypeOK
    <2>5. StopInv'
      BY <1>0, <2>1, <2>2, <2>3 DEF StopInv
    <2>6. ServiceSteps
      BY <2>1, <2>3 DEF ServiceSteps
    <2> QED BY <2>2, <2>4, <2>5, <2>6 DEF RecorderIInv, Steps
  <1> QED BY <1>1, <1>2, <1>3, <1>4 DEF RecorderProceeds

(* Every step keeps the inductive invariant and is one the service knows. *)
LEMMA NextSteps ==
  ASSUME RecorderIInv, [RecorderNext]_recorderVars
  PROVE  Steps
  <1>1. CASE UNCHANGED recorderVars
    <2>1. UNCHANGED <<type, current, objects, arrays, drains, stopPromise,
                      stopping, completion, accepted, written>>
      BY <1>1 DEF recorderVars
    <2>2. QueueTypeOK' /\ QueueInv' /\ (NonePending' <=> NonePending)
      BY <2>1, TypeParts, QueueStays DEF RecorderIInv
    <2>3. StopTypeOK' /\ StopInv'
      BY <2>1, <2>2, TypeParts DEF RecorderIInv, StopTypeOK, StopInv
    <2> QED BY <2>1, <2>2, <2>3, TypeParts DEF Steps, RecorderIInv, ServiceSteps
  <1>2. CASE RecorderNext
    BY <1>2, ServiceCallsPreserve, WritesPreserve, StoppingPreserves DEF RecorderNext
  <1> QED BY <1>1, <1>2

(* The initial state satisfies the inductive invariant. *)
LEMMA InitEstablishes ==
  RecorderInit => RecorderIInv
  <1> SUFFICES ASSUME RecorderInit PROVE RecorderIInv
    OBVIOUS
  <1> USE TypeParts, Numbers
  <1>1. QueueTypeOK /\ QueueInv /\ NonePending
    BY FreshQueue DEF RecorderInit, QueueIsFresh
  <1>2. StopTypeOK /\ StopInv
    <2>1. StopTypeOK
      BY DEF RecorderInit, StopTypeOK, NoCompletion
    <2>2. StopInv
      BY <1>1 DEF RecorderInit, StopInv, NoCompletion
    <2> QED BY <2>1, <2>2
  <1> QED BY <1>1, <1>2 DEF RecorderIInv

(* What the invariant is for: one drain at most, and the limit, which counts
   the write under way. *)
LEMMA RecorderIInvImplies ==
  RecorderIInv => RecorderInv
  <1> SUFFICES ASSUME RecorderIInv PROVE RecorderInv
    OBVIOUS
  <1> USE Numbers
  <1>0. QueueTypeOK /\ StopTypeOK /\ QueueInv /\ StopInv /\ RecorderTypeOK
    BY TypeParts DEF RecorderIInv
  <1>1. CASE NonePending
    <2>1. InFlight = {}
      BY <1>1 DEF InFlight, NonePending, IsPending
    <2>2. Cardinality(InFlight) = 0
      BY <2>1, FS_EmptySet
    <2>3. /\ Waiting(current) \in 0..MaxQueued
      BY <1>0 DEF Waiting, QueueTypeOK, ObjectTable
    <2>4. OneAppendAtATime /\ QueueBounded
      BY <2>2, <2>3 DEF OneAppendAtATime, QueueBounded, Waiting
    <2>5. UnpausedIsComplete
      <3> SUFFICES ASSUME current = 0, stopPromise = "resolved"
                   PROVE  written = accepted
        BY DEF UnpausedIsComplete
      <3>1. accepted = written + Waiting(0) + 0
        BY <1>0, <1>1 DEF QueueInv, FirstObjectIsExact
      <3>2. Waiting(0) = 0
        <4>1. objects[0].drain = NoDrain
          BY <1>0, <1>1 DEF QueueInv, FirstObjectIsExact, NonePending,
                            QueueTypeOK, ObjectTable
        <4> QED BY <1>0, <4>1 DEF QueueInv, QueueIsCounted
      <3>3. accepted \in Nat /\ written \in Nat
        BY <1>0 DEF QueueTypeOK
      <3> QED BY <3>1, <3>2, <3>3
    <2> QED BY <1>0, <2>1, <2>4, <2>5 DEF RecorderInv, NoAppendAfterStop
  <1>2. CASE ~NonePending
    <2>1. PICK d \in Drains : IsPending(d)
      BY <1>2 DEF NonePending
    <2>2. InFlight = {d}
      BY <1>0, <2>1 DEF InFlight, QueueInv, OneDrain, IsPending
    <2>3. Cardinality(InFlight) = 1
      BY <2>2, FS_Singleton
    <2>4. /\ Waiting(current) \in 0..MaxQueued
          /\ Waiting(current) + 1 <= objects[current].queued
          /\ objects[current].queued \in -MaxBlocks..MaxQueued
      BY <1>0, <1>2 DEF QueueInv, QueueIsCounted, Waiting, QueueTypeOK, ObjectTable
    <2>5. Waiting(current) + 1 <= MaxQueued
      BY <2>4
    <2>6. OneAppendAtATime /\ QueueBounded
      BY <2>3, <2>5 DEF OneAppendAtATime, QueueBounded, Waiting
    <2>7. stopPromise # "resolved"
      BY <1>0, <1>2 DEF StopInv
    <2> QED BY <1>0, <2>6, <2>7
            DEF RecorderInv, NoAppendAfterStop, UnpausedIsComplete
  <1> QED BY <1>1, <1>2

(* However often the recording is paused and whichever appends fail, at most
   one append is under way, no more waits than fits under MAX_QUEUED_BYTES, a
   recording is returned only when no append of it is under way, and one that
   was never paused is returned complete (callRecorder.dom.ts:121-168,
   253-271). *)
THEOREM RecorderInvariant ==
  RecorderSpec => []RecorderInv
  <1>1. RecorderIInv /\ [RecorderNext]_recorderVars => RecorderIInv'
    BY NextSteps DEF Steps
  <1> QED BY <1>1, InitEstablishes, RecorderIInvImplies, PTL DEF RecorderSpec

-------------------------------------------------------------------------------

(* A step that changes what the service sees is one of its contract. *)
LEMMA ServiceStepsAreContract ==
  ASSUME StopTypeOK, StopTypeOK', ServiceSteps
  PROVE  [Contract!Next]_ServiceView
  <1> USE DEF ServiceView, Contract!Next, Contract!Start, Contract!Pause,
              Contract!Resume, Contract!Stop, Contract!Fail
  <1>1. /\ type \in {"idle", "running", "paused"}
        /\ type' \in {"idle", "running", "paused"}
        /\ stopPromise \in {"pending", "resolved", "rejected"}
        /\ stopPromise' \in {"pending", "resolved", "rejected"}
    BY DEF StopTypeOK
  <1>2. CASE type' = type /\ (stopPromise = "pending" \/ stopPromise' = stopPromise)
    BY <1>1, <1>2
  <1>3. CASE type = "idle" /\ type' = "running" /\ stopPromise' = "pending"
    BY <1>3
  <1>4. CASE /\ {type, type'} = {"running", "paused"}
             /\ stopPromise = "pending" /\ stopPromise' = "pending"
    <2>1. \/ type = "running" /\ type' = "paused"
          \/ type = "paused" /\ type' = "running"
      BY <1>1, <1>4
    <2> QED BY <1>4, <2>1
  <1>5. CASE /\ type # "idle" /\ stopPromise = "resolved"
             /\ type' = "idle" /\ stopPromise' = "resolved"
    BY <1>1, <1>5
  <1> QED BY <1>2, <1>3, <1>4, <1>5 DEF ServiceSteps

(* The recorder keeps to the contract by which the recording service is
   modelled: one that has failed is never idle, running or paused again
   (callRecorder.dom.ts:209-271, 325-343). *)
THEOREM RecorderKeepsContract ==
  RecorderSpec => ImplementsContract
  <1>1. RecorderInit => Contract!Init
    BY DEF RecorderInit, Contract!Init, ServiceView
  <1>2. RecorderIInv /\ [RecorderNext]_recorderVars => RecorderIInv' /\ [Contract!Next]_ServiceView
    <2> SUFFICES ASSUME RecorderIInv, [RecorderNext]_recorderVars
                 PROVE  RecorderIInv' /\ [Contract!Next]_ServiceView
      OBVIOUS
    <2>1. RecorderIInv' /\ ServiceSteps
      BY NextSteps DEF Steps
    <2>2. StopTypeOK /\ StopTypeOK'
      BY <2>1, TypeParts DEF RecorderIInv, RecorderTypeOK, StopTypeOK
    <2> QED BY <2>1, <2>2, ServiceStepsAreContract
  <1> QED BY <1>1, <1>2, InitEstablishes, PTL DEF RecorderSpec, ImplementsContract, Contract!Spec
===============================================================================
