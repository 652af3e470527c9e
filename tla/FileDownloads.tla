----------------------------- MODULE FileDownloads -----------------------------
(***************************************************************************)
(* downloadHttpsFile() and the files it writes in place                    *)
(* (ts/minutes/httpsDownload.main.ts).  What its two users, the update of  *)
(* the application and the local language model, ask a file is its size:   *)
(* they take a file for whole that is merely long enough.                  *)
(***************************************************************************)
EXTENDS Naturals, FiniteSets

CONSTANTS
    Transfers,    \* calls of downloadHttpsFile(), named after their callers
    Paths,
    Scenarios     \* how much is asked for, and what may go wrong

VARIABLES
    file,         \* the files
    transfer,     \* the calls
    scenario      \* the choice made from Scenarios

fileVars == <<file, transfer>>

NoTransfer == 0

Contents ==
    {"none",
     "short",     \* less than its user asks for
     "long",      \* enough for the user, but not all of it
     "complete"}

\* The opener is the last transfer that has truncated the file, the writers are
\* those whose stream still is this file and not one that was unlinked.
NoFile == [content |-> "none", writers |-> {}, opener |-> NoTransfer]
IdleTransfer == [progress |-> "none", path |-> CHOOSE p \in Paths : TRUE]

FilesInit ==
    /\ transfer = [d \in Transfers |-> IdleTransfer]
    /\ scenario \in Scenarios

Transferring(d) == transfer[d].progress # "none"

\* The files without the streams of the transfers ds.
WithoutStreams(ds) ==
    [p \in Paths |-> [file[p] EXCEPT !.writers = @ \ ds]]

Unlinked(p) == [file EXCEPT ![p] = NoFile]

\* A file is removed before, or after, its download.  Each user of the downloads
\* ignores an error of unlink(): the file may stay.
Removed(p) == file' = Unlinked(p) \/ ("unlink" \in scenario.faults /\ UNCHANGED file)

TransferStarts(d, p) ==
    transfer' = [transfer EXCEPT ![d] = [progress |-> "requested", path |-> p]]

\* The answer is a file: its stream truncates what is there.
TransferOpens(d) ==
    /\ transfer[d].progress = "requested"
    /\ transfer' = [transfer EXCEPT ![d].progress = "short"]
    /\ file' = [file EXCEPT ![transfer[d].path] =
                  [content |-> "short", writers |-> @.writers \cup {d}, opener |-> d]]

\* What a file becomes when d has written up to the given content.  A stream
\* writes at its own place: one that was there before the last truncation makes
\* the file longer and leaves a hole.
Written(d, content) ==
    LET f == file[transfer[d].path]
    IN  IF d \notin f.writers THEN f
        ELSE IF f.opener = d THEN [f EXCEPT !.content = content]
        ELSE [f EXCEPT !.content = IF @ = "complete" THEN @ ELSE "long"]

TransferGrows(d) ==
    /\ transfer[d].progress = "short"
    /\ transfer' = [transfer EXCEPT ![d].progress = "long"]
    /\ file' = [file EXCEPT ![transfer[d].path] = Written(d, "long")]

TransferProceeds(d) == TransferOpens(d) \/ TransferGrows(d)

\* 'finish' of the stream.
TransferEnds(d) ==
    /\ transfer[d].progress = "long"
    /\ transfer' = [transfer EXCEPT ![d] = IdleTransfer]
    /\ LET p == transfer[d].path
           f == Written(d, "complete")
       IN  file' = [file EXCEPT ![p] = [f EXCEPT !.writers = @ \ {d}]]

\* The connection breaks, the server has no such file, the disk is full or the
\* signal aborts: what has been written stays.
TransferStops(d) ==
    /\ Transferring(d)
    /\ transfer' = [transfer EXCEPT ![d] = IdleTransfer]
    /\ file' = WithoutStreams({d})

\* The process ends.
TransfersKilled ==
    /\ transfer' = [d \in Transfers |-> IdleTransfer]
    /\ file' = WithoutStreams(Transfers)

FilesTypeOK ==
    /\ file \in [Paths -> [content : Contents, writers : SUBSET Transfers,
                           opener : Transfers \cup {NoTransfer}]]
    /\ transfer \in [Transfers -> [progress : {"none", "requested", "short", "long"},
                                   path : Paths]]
    /\ \A p \in Paths, d \in Transfers :
          d \in file[p].writers =>
              transfer[d].path = p /\ transfer[d].progress \in {"short", "long"}
===============================================================================
