-------------------------- MODULE RecordingFileWriter --------------------------
(***************************************************************************)
(* CallRecordingFileWriter, its IPC channel and the recovery of            *)
(* interrupted recordings (app/minutes_call_recording_channel.main.ts).    *)
(*                                                                         *)
(* Every await between two file operations is a step boundary at which     *)
(* the window may be destroyed, another recovery may run, the reaper may   *)
(* delete, or the process may be killed.                                   *)
(***************************************************************************)
EXTENDS RecordingFilesEnvironment

CONSTANT
    Passes        \* bound: recovery passes, one per window that is opened

VARIABLES
    sessions,     \* #sessions
    writer,       \* the calls in progress on each recording
    dead,         \* recordings whose window has been destroyed
    pass,         \* the calls of recoverInterruptedCallRecordings()
    published,    \* how often a recording was handed on as finished
    interrupted   \* what a crash caught each recording at

audioVars == <<sessions, writer, dead, pass, published, interrupted>>
\* What the calls on a recording leave alone.
appVars == <<window, running, crashes, reapable, dead, pass, interrupted>>

(* The calls on one recording:
     create     where create() awaits        finalize  where finalize() awaits
     abort      where abort() awaits         answer    of finalize()
     open       are the file handles open?   hasLog    is there a speaker log?
     pending    appends not yet written      failed    has one of them failed?
     renamed    files finalize() has renamed                               *)
NoCalls ==
    [create |-> "none", finalize |-> "none", abort |-> "none",
     answer |-> "none", open |-> FALSE, pending |-> 0, failed |-> FALSE,
     hasLog |-> FALSE, renamed |-> {}]
NoPass == [step |-> "unused", active |-> {}, todo |-> {}, at |-> {}]

AudioTypeOK ==
    /\ sessions \subseteq Recordings /\ dead \subseteq Recordings
    /\ writer \in [Recordings ->
         [create : {"none", "mp3", "pcm", "done"},
          finalize : {"none", "drain", "flush", "metadata", "log", "close",
                      "publish", "undoPcm", "undoFinal", "undoPartial", "done"},
          abort : {"none", "drain", "done"},
          answer : {"none", "ok", "error"},
          open : BOOLEAN, pending : 0..MaxPending, failed : BOOLEAN,
          hasLog : BOOLEAN, renamed : SUBSET Kinds]]
    /\ pass \in [Passes ->
         [step : {"unused", "list", "next", "stat", "metadata", "pcm", "json",
                  "mp3", "catch", "done", "failed"},
          active : SUBSET Recordings, todo : SUBSET Recordings,
          at : SUBSET Recordings]]
    /\ published \in [Recordings -> 0..2]
    /\ interrupted \in [Recordings -> {"no", "over", "recording", "finalizing",
                                       "recovering"}]

AudioInit ==
    /\ sessions = {} /\ dead = {}
    /\ writer = [r \in Recordings |-> NoCalls]
    /\ pass = [p \in Passes |-> NoPass]
    /\ published = [r \in Recordings |-> 0]
    /\ interrupted = [r \in Recordings |-> "no"]

Set(r, call) == writer' = [writer EXCEPT ![r] = call]

-------------------------------------------------------------------------------
(* create() *)

Create(r) ==
    /\ window /\ running
    /\ r \in scenario.recordings
    /\ writer[r].create = "none" /\ interrupted[r] = "no"
    /\ "eager" \in scenario.faults \/ \A p \in Passes : pass[p].step # "list"
    /\ Set(r, [writer[r] EXCEPT !.create = "mp3"])
    /\ UNCHANGED <<files, sessions, published, appVars>>

CreateMp3(r) ==
    /\ writer[r].create = "mp3"
    /\ \/ /\ AddFile(r, Partial("mp3"))
          /\ Set(r, [writer[r] EXCEPT !.create = "pcm"])
       \/ /\ "disk" \in scenario.faults
          /\ Set(r, NoCalls)
          /\ UNCHANGED files
    /\ UNCHANGED <<sessions, published, appVars>>

\* A failure removes the MP3 again.
CreatePcm(r) ==
    /\ writer[r].create = "pcm"
    /\ \/ /\ AddFile(r, Partial("pcm"))
          /\ sessions' = sessions \cup {r}
          /\ Set(r, [writer[r] EXCEPT !.create = "done", !.open = TRUE])
       \/ /\ "disk" \in scenario.faults
          /\ RemoveFiles(r, {Partial("mp3")})
          /\ Set(r, NoCalls)
          /\ UNCHANGED sessions
    /\ UNCHANGED <<published, appVars>>

-------------------------------------------------------------------------------
(* appendMp3(), appendPcm() and abort() *)

\* abort() of a session that still exists, up to its first await; w holds
\* the calls on the recording.
StartAbort(r, w) ==
    /\ sessions' = sessions \ {r}
    /\ Set(r, IF r \in sessions THEN [w EXCEPT !.abort = "drain"] ELSE w)

Live(r) == r \in sessions /\ r \notin dead

\* The renderer sends nothing after it has asked for the finalization.  An
\* append that finds the queue full is answered with an error and an abort.
Append(r) ==
    /\ Live(r) /\ writer[r].finalize = "none" /\ ~writer[r].failed
    /\ IF writer[r].pending = MaxPending
       THEN StartAbort(r, writer[r])
       ELSE /\ Set(r, [writer[r] EXCEPT !.pending = @ + 1])
            /\ UNCHANGED sessions
    /\ UNCHANGED <<files, published, appVars>>

WriteDone(r) ==
    /\ writer[r].pending > 0
    /\ Set(r, [writer[r] EXCEPT !.pending = @ - 1])
    /\ UNCHANGED <<files, sessions, published, appVars>>

\* All writes behind a failed one fail with it; their handlers abort.
WriteFails(r) ==
    /\ "disk" \in scenario.faults
    /\ writer[r].pending > 0
    /\ StartAbort(r, [writer[r] EXCEPT !.pending = 0, !.failed = TRUE])
    /\ UNCHANGED <<files, published, appVars>>

Abort(r) ==
    /\ Live(r) /\ writer[r].finalize = "none"
    /\ StartAbort(r, writer[r])
    /\ UNCHANGED <<files, published, appVars>>

AbortCloses(r) ==
    /\ writer[r].abort = "drain"
    /\ writer[r].pending = 0
    /\ Set(r, [writer[r] EXCEPT !.abort = "done", !.open = FALSE])
    /\ UNCHANGED <<files, sessions, published, appVars>>

-------------------------------------------------------------------------------
(* finalize() *)

Finalize(r, hasLog) ==
    /\ Live(r) /\ writer[r].finalize = "none"
    /\ Set(r, [writer[r] EXCEPT !.finalize = "drain", !.hasLog = hasLog])
    /\ UNCHANGED <<files, sessions, published, appVars>>

FinalizeAt(r, step) == writer[r].finalize = step
\* The step succeeds and finalize() goes on, or it throws.
FinalizeGoes(r, step) == Set(r, [writer[r] EXCEPT !.finalize = step])
FinalizeThrows(r) ==
    Set(r, [writer[r] EXCEPT !.finalize = "undoPcm", !.open = FALSE])

FinalizeDrained(r) ==
    /\ FinalizeAt(r, "drain")
    /\ writer[r].pending = 0
    /\ IF writer[r].failed THEN FinalizeThrows(r) ELSE FinalizeGoes(r, "flush")
    /\ UNCHANGED <<files, sessions, published, appVars>>

\* The last frame, the LAME tag and the syncs; an abort may have closed the
\* handles in the meantime.
FinalizeFlushed(r) ==
    /\ FinalizeAt(r, "flush")
    /\ \/ writer[r].open /\ FinalizeGoes(r, "metadata")
       \/ ("disk" \in scenario.faults \/ ~writer[r].open) /\ FinalizeThrows(r)
    /\ UNCHANGED <<files, sessions, published, appVars>>

\* The metadata and the speaker log are written with the flag "wx".
FinalizeWrites(r, step, k, next) ==
    /\ FinalizeAt(r, step)
    /\ \/ /\ ~Has(r, Partial(k))
          /\ AddFile(r, Partial(k))
          /\ FinalizeGoes(r, next)
       \/ /\ "disk" \in scenario.faults \/ Has(r, Partial(k))
          /\ FinalizeThrows(r)
          /\ UNCHANGED files
    /\ UNCHANGED <<sessions, published, appVars>>

FinalizeMetadata(r) ==
    FinalizeWrites(r, "metadata", "json",
                   IF writer[r].hasLog THEN "log" ELSE "close")
FinalizeLog(r) == FinalizeWrites(r, "log", "log", "close")

FinalizeCloses(r) ==
    /\ FinalizeAt(r, "close")
    /\ Set(r, [writer[r] EXCEPT !.finalize = "publish", !.open = FALSE])
    /\ UNCHANGED <<files, sessions, published, appVars>>

\* The order of the renames: the MP3 comes last.
PublishOrder(r) ==
    IF writer[r].hasLog THEN <<"pcm", "log", "json", "mp3">>
                        ELSE <<"pcm", "json", "mp3">>
ToPublish(r) ==
    LET order == PublishOrder(r)
        first == CHOOSE i \in DOMAIN order :
                     /\ order[i] \notin writer[r].renamed
                     /\ \A j \in 1..(i - 1) : order[j] \in writer[r].renamed
    IN  order[first]

\* Seeded fault: a partial file that is gone counts as renamed.
FinalizePublishesMissing(r) ==
    LET k == ToPublish(r)
        w == [writer[r] EXCEPT !.renamed = @ \cup {k}]
    IN  /\ FinalizeAt(r, "publish")
        /\ Rename(r, k)
        /\ IF k = "mp3"
           THEN /\ Set(r, [w EXCEPT !.finalize = "done", !.answer = "ok"])
                /\ sessions' = sessions \ {r}
                /\ published' = [published EXCEPT ![r] = @ + 1]
           ELSE Set(r, w) /\ UNCHANGED <<sessions, published>>
        /\ UNCHANGED appVars

FinalizePublishes(r) ==
    LET k == ToPublish(r)
        w == [writer[r] EXCEPT !.renamed = @ \cup {k}]
    IN  /\ FinalizeAt(r, "publish")
        /\ \/ /\ Has(r, Partial(k))
              /\ Rename(r, k)
              /\ IF k = "mp3"
                 THEN /\ Set(r, [w EXCEPT !.finalize = "done", !.answer = "ok"])
                      /\ sessions' = sessions \ {r}
                      /\ published' = [published EXCEPT ![r] = @ + 1]
                 ELSE Set(r, w) /\ UNCHANGED <<sessions, published>>
           \/ /\ "disk" \in scenario.faults \/ ~Has(r, Partial(k))
              /\ FinalizeThrows(r)
              /\ UNCHANGED <<files, sessions, published>>
        /\ UNCHANGED appVars

\* The rollback, whose own failures are ignored.
UndoPcm(r) ==
    /\ FinalizeAt(r, "undoPcm")
    /\ FinalizeGoes(r, "undoFinal")
    /\ IF "pcm" \in writer[r].renamed /\ Has(r, Final("pcm"))
       THEN \/ RenameBack(r, "pcm")
            \/ "undo" \in scenario.faults /\ UNCHANGED files
       ELSE UNCHANGED files
    /\ UNCHANGED <<sessions, published, appVars>>

\* Seeded fault: every file that was renamed is removed.
UndoFinalEverything(r) ==
    /\ FinalizeAt(r, "undoFinal")
    /\ FinalizeGoes(r, "undoPartial")
    /\ RemoveFiles(r, {Final(k) : k \in writer[r].renamed})
    /\ UNCHANGED <<sessions, published, appVars>>

UndoFinal(r) ==
    /\ FinalizeAt(r, "undoFinal")
    /\ FinalizeGoes(r, "undoPartial")
    /\ \/ RemoveFiles(r, {Final(k) : k \in writer[r].renamed \ {"mp3", "pcm"}})
       \/ "undo" \in scenario.faults /\ UNCHANGED files
    /\ UNCHANGED <<sessions, published, appVars>>

\* The IPC handler aborts the session and answers with the error.
UndoPartial(r) ==
    /\ FinalizeAt(r, "undoPartial")
    /\ StartAbort(r, [writer[r] EXCEPT !.finalize = "done", !.answer = "error"])
    /\ \/ RemoveFiles(r, {Partial("json"), Partial("log")})
       \/ "undo" \in scenario.faults /\ UNCHANGED files
    /\ UNCHANGED <<published, appVars>>

-------------------------------------------------------------------------------
(* recoverInterruptedCallRecordings(), called when a window starts *)

PassAt(p, step) == pass[p].step = step
PassGoes(p, step) == pass' = [pass EXCEPT ![p].step = step]
PassVars == <<lifeVars, reapable, sessions, writer, dead, interrupted>>

\* The set of active paths was taken before the directory is read.
PassLists(p) ==
    /\ PassAt(p, "list")
    /\ pass' = [pass EXCEPT ![p].step = "next",
                            ![p].todo = {r \in Recordings \ pass[p].active :
                                            Has(r, Partial("mp3"))}]
    /\ UNCHANGED <<files, published, PassVars>>

Recoverable(r) ==
    ~Has(r, Final("mp3")) /\ ~Has(r, Final("json")) /\ Has(r, Partial("pcm"))

\* Seeded fault: a return where the loop has to continue.
PassChecksOne(p) ==
    /\ PassAt(p, "next")
    /\ \/ \E r \in pass[p].todo :
             pass' = [pass EXCEPT ![p].todo = @ \ {r},
                                  ![p].at = {r},
                                  ![p].step = IF Recoverable(r) THEN "stat"
                                                                ELSE "done"]
       \/ pass[p].todo = {} /\ PassGoes(p, "done")
    /\ UNCHANGED <<files, published, PassVars>>

PassChecks(p) ==
    /\ PassAt(p, "next")
    /\ \/ \E r \in pass[p].todo :
             pass' = [pass EXCEPT ![p].todo = @ \ {r},
                                  ![p].at = {r},
                                  ![p].step = IF Recoverable(r) THEN "stat"
                                                                ELSE "next"]
       \/ pass[p].todo = {} /\ PassGoes(p, "done")
    /\ UNCHANGED <<files, published, PassVars>>

\* stat() stands outside the try block: its error ends the whole pass.
PassStats(p) ==
    /\ PassAt(p, "stat")
    /\ \E r \in pass[p].at :
           PassGoes(p, IF Has(r, Partial("pcm")) THEN "metadata" ELSE "failed")
    /\ UNCHANGED <<files, published, PassVars>>

PassWritesMetadata(p) ==
    /\ PassAt(p, "metadata")
    /\ \E r \in pass[p].at :
          \/ /\ ~Has(r, Partial("json"))
             /\ AddFile(r, Partial("json"))
             /\ PassGoes(p, "pcm")
          \/ /\ "disk" \in scenario.faults \/ Has(r, Partial("json"))
             /\ PassGoes(p, "catch")
             /\ UNCHANGED files
    /\ UNCHANGED <<published, PassVars>>

PassRenames(p, k, next) ==
    /\ PassAt(p, k)
    /\ \E r \in pass[p].at :
          \/ /\ Has(r, Partial(k))
             /\ Rename(r, k)
             /\ PassGoes(p, next)
             /\ published' = IF k = "mp3" THEN [published EXCEPT ![r] = @ + 1]
                                          ELSE published
          \/ /\ "disk" \in scenario.faults \/ ~Has(r, Partial(k))
             /\ PassGoes(p, "catch")
             /\ UNCHANGED <<files, published>>
    /\ UNCHANGED PassVars

PassCatches(p) ==
    /\ PassAt(p, "catch")
    /\ \E r \in pass[p].at : RemoveFiles(r, {Partial("json")})
    /\ PassGoes(p, "next")
    /\ UNCHANGED <<published, PassVars>>

PassProceeds(p) ==
    \/ PassLists(p) \/ PassChecks(p) \/ PassStats(p) \/ PassWritesMetadata(p)
    \/ PassRenames(p, "pcm", "json") \/ PassRenames(p, "json", "mp3")
    \/ PassRenames(p, "mp3", "next")
    \/ PassCatches(p)

-------------------------------------------------------------------------------
(* What the life of the window and of the process means to the recordings *)

\* A new window asks for the recovery before it can record.
StartPass ==
    \E p \in Passes :
        /\ PassAt(p, "unused")
        /\ pass' = [pass EXCEPT ![p].step = "list", ![p].active = sessions]
        /\ UNCHANGED <<sessions, writer, dead, published, interrupted>>

\* "destroyed": cleanupOwner() aborts the sessions of the window.
AudioOwnerDestroyed ==
    /\ dead' = {r \in Recordings : writer[r].create # "none"}
    /\ writer' = [r \in Recordings |->
                    IF r \in sessions THEN [writer[r] EXCEPT !.abort = "drain"]
                                      ELSE writer[r]]
    /\ sessions' = {}
    /\ UNCHANGED <<pass, published, interrupted>>

\* Between the check of its files and the end of its try block.
WorksOn(p, r) ==
    /\ r \in pass[p].at
    /\ pass[p].step \in {"stat", "metadata", "pcm", "json", "mp3", "catch"}

\* Only the files survive.  A name is not used again.
AudioKilled ==
    /\ interrupted' = [r \in Recordings |->
         IF r \in sessions
         THEN IF FinalizeAt(r, "none") THEN "recording" ELSE "finalizing"
         ELSE IF writer[r].create # "none" THEN "over"
         ELSE IF interrupted[r] = "recording" /\ (\E p \in Passes : WorksOn(p, r))
         THEN "recovering" ELSE interrupted[r]]
    /\ sessions' = {} /\ dead' = {}
    /\ writer' = [r \in Recordings |-> NoCalls]
    /\ pass' = [p \in Passes |-> IF PassAt(p, "unused") THEN NoPass
                                 ELSE [NoPass EXCEPT !.step = "failed"]]
    /\ UNCHANGED published

-------------------------------------------------------------------------------

WriterProceeds(r) ==
    \/ CreateMp3(r) \/ CreatePcm(r)
    \/ WriteDone(r) \/ WriteFails(r) \/ AbortCloses(r)
    \/ FinalizeDrained(r) \/ FinalizeFlushed(r)
    \/ FinalizeMetadata(r) \/ FinalizeLog(r)
    \/ FinalizeCloses(r) \/ FinalizePublishes(r)
    \/ UndoPcm(r) \/ UndoFinal(r) \/ UndoPartial(r)

AudioStep ==
    \/ \E r \in Recordings :
          \/ Create(r) \/ Append(r) \/ Abort(r)
          \/ \E hasLog \in BOOLEAN : Finalize(r, hasLog)
          \/ WriterProceeds(r)
    \/ \E p \in Passes : PassProceeds(p)

\* No call on a recording is in progress.
AudioAtRest ==
    /\ \A r \in Recordings :
          /\ writer[r].create \in {"none", "done"}
          /\ writer[r].finalize \in {"none", "done"}
          /\ writer[r].abort \in {"none", "done"}
          /\ writer[r].pending = 0
    /\ \A p \in Passes : pass[p].step \in {"unused", "done", "failed"}

-------------------------------------------------------------------------------

\* A session outlives its window or begins behind the back of a recovery.
Races == May({"window", "eager"})

(* An MP3 under its final name always has its PCM and its metadata: the MP3
   is renamed last, by finalize() and by the recovery, whatever fails and
   whenever the process is killed (minutes_call_recording_channel.main.ts:
   362-372, 569-571).  Only when a recovery has worked on the files of a live
   session may the rollback of its finalize() remove the metadata. *)
AudioPublishedIsComplete ==
    ~(Races /\ May({"disk"})) =>
        \A r \in Recordings :
            Has(r, Final("mp3")) => Has(r, Final("pcm")) /\ Has(r, Final("json"))

(* Once create() has answered, the sound of the recording is on disk under
   one of its two names at any time, so no failure, rollback, recovery, race
   or crash loses what was recorded; only the reaper deletes. *)
AudioIsKept ==
    ~May({"old"}) =>
        \A r \in Recordings :
            \/ writer[r].create = "done"
            \/ interrupted[r] \in {"recording", "finalizing", "recovering"}
            =>
                \A k \in {"mp3", "pcm"} : Has(r, Partial(k)) \/ Has(r, Final(k))

(* finalize() is all or nothing: it answers ok when every file has its final
   name, and an error only after the partial files are back under the names
   at which a recovery looks for them
   (minutes_call_recording_channel.main.ts:317-398).  Its rollback is made of
   single operations, so it may not fail as well. *)
AudioFinalizeIsAtomic ==
    ~Races /\ ~(May({"disk"}) /\ May({"undo"})) =>
        \A r \in Recordings :
            /\ writer[r].answer = "ok" =>
                 /\ \A k \in Kinds : ~Has(r, Partial(k))
                 /\ \A k \in {"mp3", "pcm", "json"} : Has(r, Final(k))
                 /\ writer[r].hasLog => Has(r, Final("log"))
                 /\ writer[r].pending = 0 /\ ~writer[r].failed
            /\ writer[r].answer = "error" /\ ~May({"old"}) =>
                 files[r] = {Partial("mp3"), Partial("pcm")}

(* A recording is handed on at most once, by its finalize() or by one of the
   recovery passes, even when two windows recover at the same time. *)
PublishedOnce == \A r \in Recordings : published[r] <= 1

(* No file handle stays open without somebody who will close it. *)
HandlesAreOwned ==
    \A r \in Recordings :
        writer[r].open =>
            \/ r \in sessions
            \/ writer[r].abort = "drain"
            \/ writer[r].finalize \notin {"none", "done"}

(* Sessions, handles and bounded write queues agree, also while abort(),
   finalize() and a failed append overlap
   (minutes_call_recording_channel.main.ts:255-313, 401-470). *)
AudioWriterInv == AudioTypeOK /\ HandlesAreOwned

(* The first recovery pass that ends after a crash has published every
   recording the crash interrupted before its finalize(), several of them as
   well as one (CHANGELOG.md:83, "po pádu nebo vynuceném ukončení Minutes se
   při dalším startu pokusí dokončit rozepsanou nahrávku"), unless an
   operation fails, the reaper was faster, a crash interrupts the pass as
   well, or windows overlap: a pass that does not know a session yet works on
   its files, and of two passes at once one removes the metadata of the other
   (minutes_call_recording_channel.main.ts:562-582). *)
InterruptedIsRecovered ==
    ~May({"disk", "eager", "old", "window"}) =>
        \A p \in Passes, r \in Recordings :
            PassAt(p, "done") /\ interrupted[r] = "recording" =>
                Has(r, Final("mp3"))
===============================================================================
