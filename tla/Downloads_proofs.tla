---------------------------- MODULE Downloads_proofs ----------------------------
(***************************************************************************)
(* Proofs, for any models, versions, calls and scenarios and any number of *)
(* ends of the application, that one model is in memory at a time and is   *)
(* the one that was asked for, that a cancelled download leaves nothing,   *)
(* and that an installer which is launched is whole and newer than what    *)
(* runs.                                                                   *)
(*                                                                         *)
(* The local model: the phase of the operation that runs says what is in   *)
(* memory (PhasesFit); the scheduler's queue holds each operation that is  *)
(* awaited once (OperationsAreAwaited); and as installations are numbered, *)
(* what is loaded, or there as a file, is compared by number with what a   *)
(* summary saw when it was asked for (LoadedIsCurrent, SinceLasts).        *)
(*                                                                         *)
(* The update: what the page shows tells what goes on (PageKnows), and an  *)
(* installer that was recorded is whole, or is missing and older than what *)
(* will be asked for (RecordIsWhole).                                      *)
(*                                                                         *)
(* At the end: the scheduler is a serial executor.                         *)
(***************************************************************************)
EXTENDS Downloads, TLAPS

Files ==
    [content : Contents, writers : SUBSET Transfers, opener : Transfers \cup {NoTransfer}]
TransferRecords == [progress : {"none", "requested", "short", "long"}, path : Paths]

\* Nobody but the transfer d, and no file but p, is touched.
OnlyOf(d, p) ==
    /\ \A e \in Transfers \ {d} : transfer'[e] = transfer[e]
    /\ \A q \in Paths \ {p} : file'[q] = file[q]

(* There are paths, and an idle transfer is one. *)
LEMMA IdleTransferIsOne == IdleTransfer \in TransferRecords /\ IdleTransfer.progress = "none"
BY ModelAssumption DEF IdleTransfer, TransferRecords

(* A file that is missing is one. *)
LEMMA NoFileIsOne == NoFile \in Files /\ NoFile.content = "none" /\ NoFile.writers = {}
BY DEF NoFile, Files, Contents

(* What the files and transfers are, in words of these records. *)
LEMMA FilesTypes ==
    FilesTypeOK <=>
        /\ file \in [Paths -> Files] /\ transfer \in [Transfers -> TransferRecords]
        /\ \A p \in Paths, d \in Transfers :
              d \in file[p].writers =>
                  transfer[d].path = p /\ transfer[d].progress \in {"short", "long"}
BY DEF FilesTypeOK, Files, TransferRecords

(* The same of the next state. *)
LEMMA FilesTypesNext ==
    FilesTypeOK' <=>
        /\ file' \in [Paths -> Files] /\ transfer' \in [Transfers -> TransferRecords]
        /\ \A p \in Paths, d \in Transfers :
              d \in file'[p].writers =>
                  transfer'[d].path = p /\ transfer'[d].progress \in {"short", "long"}
BY DEF FilesTypeOK, Files, TransferRecords

(* A file is removed, if it can be. *)
LEMMA UnlinkKeepsFiles ==
    ASSUME FilesTypeOK, NEW q \in Paths, file' = Unlinked(q) \/ Removed(q), UNCHANGED transfer
    PROVE  /\ FilesTypeOK'
           /\ file'[q] \in {file[q], NoFile}
           /\ "unlink" \notin scenario.faults \/ file' = Unlinked(q) => file'[q] = NoFile
           /\ \A p \in Paths \ {q} : file'[p] = file[p]
<1>1. ASSUME file' = Unlinked(q)
      PROVE  /\ FilesTypeOK' /\ file'[q] = NoFile
             /\ \A p \in Paths \ {q} : file'[p] = file[p]
  <2>1. file' = [file EXCEPT ![q] = NoFile]
    BY <1>1 DEF Unlinked
  <2>2. QED
    BY ONLY <2>1, FilesTypeOK, UNCHANGED transfer, NoFileIsOne, FilesTypes, FilesTypesNext,
       q \in Paths
<1>2. ASSUME file' = file PROVE FilesTypeOK'
  BY <1>2 DEF FilesTypeOK
<1>3. file' = Unlinked(q) \/ (file' = file /\ "unlink" \in scenario.faults)
  BY DEF Removed
<1>4. QED
  BY <1>1, <1>2, <1>3

(* A transfer starts: it does not write yet. *)
LEMMA StartKeepsFiles ==
    ASSUME FilesTypeOK, NEW d \in Transfers, NEW p \in Paths, ~Transferring(d),
           TransferStarts(d, p), UNCHANGED file \/ file' = Unlinked(p)
    PROVE  /\ FilesTypeOK'
           /\ OnlyOf(d, p)
           /\ transfer'[d] = [progress |-> "requested", path |-> p]
           /\ file'[p] \in {file[p], NoFile}
<1>1. transfer' = [transfer EXCEPT ![d] = [progress |-> "requested", path |-> p]]
  BY DEF TransferStarts
<1>2. [progress |-> "requested", path |-> p] \in TransferRecords
  BY DEF TransferRecords
<1>3. file' = file \/ file' = [file EXCEPT ![p] = NoFile]
  BY DEF Unlinked
<1>4. transfer[d].progress = "none"
  BY DEF Transferring
<1>5. FilesTypeOK'
  BY ONLY <1>1, <1>2, <1>3, <1>4, FilesTypeOK, NoFileIsOne, FilesTypes, FilesTypesNext,
     d \in Transfers, p \in Paths
<1>6. QED
  BY ONLY <1>1, <1>3, <1>5, FilesTypeOK, FilesTypes, d \in Transfers, p \in Paths DEF OnlyOf

(* The record of a transfer that goes on. *)
LEMMA ProgressIsReplaced ==
    ASSUME NEW t \in TransferRecords, NEW s
    PROVE  [t EXCEPT !.progress = s] = [progress |-> s, path |-> t.path]
BY DEF TransferRecords

(* A stream truncates its file and becomes its opener. *)
LEMMA OpenKeepsFiles ==
    ASSUME FilesTypeOK, NEW d \in Transfers, TransferOpens(d)
    PROVE  /\ FilesTypeOK'
           /\ OnlyOf(d, transfer[d].path)
           /\ transfer[d].path \in Paths
           /\ Transferring(d)
           /\ transfer'[d] = [progress |-> "short", path |-> transfer[d].path]
           /\ LET f == file'[transfer[d].path]
              IN  f.content = "short" /\ d \in f.writers /\ f.opener = d
<1> DEFINE p == transfer[d].path
<1> DEFINE g == [content |-> "short", writers |-> file[p].writers \cup {d}, opener |-> d]
<1>1. p \in Paths /\ transfer[d] \in TransferRecords /\ file[p] \in Files
  BY FilesTypes DEF TransferRecords
<1>2. file' = [file EXCEPT ![p] = g]
  BY <1>1, FilesTypes DEF TransferOpens
<1>3. transfer' = [transfer EXCEPT ![d] = [progress |-> "short", path |-> p]]
  BY <1>1, ProgressIsReplaced DEF TransferOpens
<1>4. g \in Files
  BY <1>1 DEF Files, Contents
<1>5. /\ [progress |-> "short", path |-> p] \in TransferRecords
      /\ transfer[d].progress = "requested"
  BY <1>1 DEF TransferRecords, TransferOpens
<1>6. \A q \in Paths : q # p => d \notin file[q].writers
  BY <1>5, FilesTypes
<1>7. FilesTypeOK'
  <2> HIDE DEF p
  <2>1. file' \in [Paths -> Files] /\ transfer' \in [Transfers -> TransferRecords]
    BY ONLY <1>1, <1>2, <1>3, <1>4, <1>5, FilesTypeOK, FilesTypes, d \in Transfers
  <2>2. ASSUME NEW q \in Paths, NEW e \in Transfers, e \in file'[q].writers
        PROVE  transfer'[e].path = q /\ transfer'[e].progress \in {"short", "long"}
    <3>1. CASE e = d
      BY <3>1, <2>2, <1>1, <1>2, <1>3, <1>6, FilesTypes
    <3>2. CASE e # d
      BY <3>2, <2>2, <1>1, <1>2, <1>3, FilesTypes
    <3>3. QED
      BY <3>1, <3>2
  <2>3. QED
    BY <2>1, <2>2, FilesTypesNext
<1>8. QED
  BY <1>1, <1>2, <1>3, <1>5, <1>7, FilesTypes DEF OnlyOf, Transferring

(* What a file becomes that a stream writes to is a file of the same writers. *)
LEMMA WrittenIsAFile ==
    ASSUME FilesTypeOK, NEW d \in Transfers, NEW content \in Contents, content # "none"
    PROVE  LET f == file[transfer[d].path]
               g == Written(d, content)
           IN  /\ g \in Files
               /\ g.writers = f.writers
               /\ g.opener = f.opener
               /\ d \in f.writers => g.content # "none"
               /\ d \notin f.writers => g = f
               /\ d \in f.writers /\ f.opener = d => g.content = content
<1>1. file[transfer[d].path] \in Files
  BY FilesTypes DEF TransferRecords
<1>2. QED
  BY <1>1 DEF Written, Files, Contents

(* A stream writes on. *)
LEMMA GrowthKeepsFiles ==
    ASSUME FilesTypeOK, NEW d \in Transfers, TransferGrows(d)
    PROVE  /\ FilesTypeOK'
           /\ OnlyOf(d, transfer[d].path)
           /\ transfer[d].path \in Paths
           /\ Transferring(d)
           /\ transfer[d].progress = "short"
           /\ transfer'[d] = [progress |-> "long", path |-> transfer[d].path]
           /\ file'[transfer[d].path] = Written(d, "long")
<1> DEFINE p == transfer[d].path
<1> DEFINE g == Written(d, "long")
<1>1. p \in Paths /\ transfer[d] \in TransferRecords /\ transfer[d].progress = "short"
  BY FilesTypes DEF TransferRecords, TransferGrows
<1>2. file' = [file EXCEPT ![p] = g]
  BY DEF TransferGrows
<1>3. transfer' = [transfer EXCEPT ![d] = [progress |-> "long", path |-> p]]
  BY <1>1, ProgressIsReplaced DEF TransferGrows
<1>4. g \in Files /\ g.writers = file[p].writers
  BY WrittenIsAFile DEF Contents
<1>5. [progress |-> "long", path |-> p] \in TransferRecords
  BY <1>1 DEF TransferRecords
<1>6. FilesTypeOK'
  <2> HIDE DEF p, g
  <2>1. file' \in [Paths -> Files] /\ transfer' \in [Transfers -> TransferRecords]
    BY ONLY <1>1, <1>2, <1>3, <1>4, <1>5, FilesTypeOK, FilesTypes, d \in Transfers
  <2>2. \A q \in Paths : file'[q].writers = file[q].writers
    BY <1>1, <1>2, <1>4, FilesTypes
  <2>3. \A e \in Transfers : /\ transfer'[e].path = transfer[e].path
                             /\ transfer'[e].progress \in {"short", "long"}
                                  <=> transfer[e].progress \in {"short", "long"}
    BY <1>1, <1>3, FilesTypes DEF p
  <2>4. QED
    BY ONLY <2>1, <2>2, <2>3, FilesTypeOK, FilesTypes, FilesTypesNext
<1>7. QED
  BY <1>1, <1>2, <1>3, <1>6, FilesTypes DEF OnlyOf, Transferring

(* A transfer is over: its stream is closed. *)
LEMMA EndKeepsFiles ==
    ASSUME FilesTypeOK, NEW d \in Transfers, TransferEnds(d)
    PROVE  /\ FilesTypeOK'
           /\ OnlyOf(d, transfer[d].path)
           /\ transfer[d].path \in Paths
           /\ transfer[d].progress = "long"
           /\ ~Transferring(d)'
           /\ file'[transfer[d].path] =
                 [Written(d, "complete") EXCEPT
                    !.writers = file[transfer[d].path].writers \ {d}]
<1> DEFINE p == transfer[d].path
<1> DEFINE f == Written(d, "complete")
<1> DEFINE g == [f EXCEPT !.writers = file[p].writers \ {d}]
<1>1. p \in Paths /\ transfer[d] \in TransferRecords /\ transfer[d].progress = "long"
  BY FilesTypes DEF TransferRecords, TransferEnds
<1>2. f \in Files /\ f.writers = file[p].writers
  BY WrittenIsAFile DEF Contents
<1>3. file' = [file EXCEPT ![p] = g]
  BY <1>2 DEF TransferEnds
<1>4. transfer' = [transfer EXCEPT ![d] = IdleTransfer]
  BY DEF TransferEnds
<1>5. g \in Files /\ g.writers = file[p].writers \ {d}
  <2> HIDE DEF f
  <2> QED BY <1>2 DEF Files
<1>6. FilesTypeOK'
  <2> HIDE DEF p, g
  <2>1. file' \in [Paths -> Files] /\ transfer' \in [Transfers -> TransferRecords]
    BY ONLY <1>1, <1>3, <1>4, <1>5, IdleTransferIsOne, FilesTypeOK, FilesTypes,
       d \in Transfers
  <2>2. \A q \in Paths : file'[q].writers = file[q].writers \ {d}
    <3>1. ASSUME NEW q \in Paths, q # p PROVE d \notin file[q].writers
      BY <3>1, FilesTypes DEF p
    <3>2. QED
      BY <1>1, <1>3, <1>5, <3>1, FilesTypes
  <2>3. \A e \in Transfers \ {d} : transfer'[e] = transfer[e]
    BY <1>4, FilesTypes
  <2>4. QED
    BY ONLY <2>1, <2>2, <2>3, FilesTypeOK, FilesTypes, FilesTypesNext
<1>7. QED
  BY <1>1, <1>3, <1>4, <1>6, IdleTransferIsOne, FilesTypes DEF OnlyOf, Transferring

(* The streams of some transfers are closed and their files left as they are. *)
LEMMA StreamsAreClosed ==
    ASSUME FilesTypeOK, NEW ds \in SUBSET Transfers, file' = WithoutStreams(ds),
           transfer' \in [Transfers -> TransferRecords],
           \A e \in Transfers \ ds : transfer'[e] = transfer[e]
    PROVE  /\ FilesTypeOK'
           /\ \A p \in Paths : /\ file'[p] \in Files
                               /\ file'[p].content = file[p].content
                               /\ file'[p].opener = file[p].opener
                               /\ file'[p].writers = file[p].writers \ ds
           /\ \A p \in Paths : file[p].writers \cap ds = {} => file'[p] = file[p]
<1>1. file' \in [Paths -> Files]
  BY FilesTypes DEF WithoutStreams, Files
<1>2. ASSUME NEW p \in Paths
      PROVE  /\ file'[p].content = file[p].content
             /\ file'[p].opener = file[p].opener
             /\ file'[p].writers = file[p].writers \ ds
             /\ file[p].writers \cap ds = {} => file'[p] = file[p]
  <2>1. file[p] \in Files /\ file'[p] = [file[p] EXCEPT !.writers = file[p].writers \ ds]
    BY FilesTypes DEF WithoutStreams
  <2>2. file[p].writers \cap ds = {} => file[p].writers \ ds = file[p].writers
    OBVIOUS
  <2>3. file[p] = [file[p] EXCEPT !.writers = file[p].writers]
    BY <2>1 DEF Files
  <2>4. QED
    BY <2>1, <2>2, <2>3 DEF Files
<1>3. FilesTypeOK'
  BY ONLY <1>1, <1>2, transfer' \in [Transfers -> TransferRecords],
     \A e \in Transfers \ ds : transfer'[e] = transfer[e], FilesTypeOK,
     FilesTypes, FilesTypesNext
<1>4. QED
  BY <1>1, <1>2, <1>3

(* A transfer fails or is aborted. *)
LEMMA StopKeepsFiles ==
    ASSUME FilesTypeOK, NEW d \in Transfers, TransferStops(d)
    PROVE  /\ FilesTypeOK'
           /\ OnlyOf(d, transfer[d].path)
           /\ transfer[d].path \in Paths
           /\ Transferring(d) /\ ~Transferring(d)'
           /\ LET f == file[transfer[d].path]
                  g == file'[transfer[d].path]
              IN  g \in Files /\ g.content = f.content /\ g.opener = f.opener
                    /\ g.writers = f.writers \ {d}
<1>1. /\ transfer' = [transfer EXCEPT ![d] = IdleTransfer]
      /\ file' = WithoutStreams({d})
  BY DEF TransferStops
<1>2. /\ transfer' \in [Transfers -> TransferRecords]
      /\ \A e \in Transfers \ {d} : transfer'[e] = transfer[e]
      /\ transfer'[d] = IdleTransfer
  BY <1>1, IdleTransferIsOne, FilesTypes
<1>3. {d} \in SUBSET Transfers
  OBVIOUS
<1>4. transfer[d].path \in Paths
  BY FilesTypes DEF TransferRecords
<1>5. \A q \in Paths \ {transfer[d].path} : file[q].writers \cap {d} = {}
  BY FilesTypes
<1>6. QED
  BY <1>1, <1>2, <1>3, <1>4, <1>5, StreamsAreClosed, IdleTransferIsOne
  DEF OnlyOf, Transferring, TransferStops

(* The application ends: nothing is transferred. *)
LEMMA KillKeepsFiles ==
    ASSUME FilesTypeOK, TransfersKilled
    PROVE  /\ FilesTypeOK'
           /\ \A d \in Transfers : ~Transferring(d)'
           /\ \A p \in Paths : /\ file'[p] \in Files
                               /\ file'[p].content = file[p].content
                               /\ file'[p].opener = file[p].opener
           /\ \A p \in Paths : file[p] = NoFile => file'[p] = NoFile
<1>1. /\ transfer' \in [Transfers -> TransferRecords]
      /\ \A d \in Transfers : transfer'[d] = IdleTransfer
      /\ file' = WithoutStreams(Transfers)
  BY IdleTransferIsOne DEF TransfersKilled
<1>2. QED
  BY <1>1, StreamsAreClosed, IdleTransferIsOne, NoFileIsOne DEF Transferring

-------------------------------------------------------------------------------
(* The records of the local model. *)

StoredSettings == [activated : BOOLEAN, model : Models, context : Contexts]
InstallRecords == [step : InstallSteps, model : Models, force : BOOLEAN,
                   aborted : BOOLEAN, seen : StoredSettings]
GenerationRecords == [step : GenerationSteps, model : Models, context : Contexts,
                      since : Installs \cup {NoTransfer}]
SaveRecords == [step : {"none", "read", "write", "dispose"}, seen : StoredSettings,
                context : Contexts]
LoadedModels == [model : Models, context : Contexts, origin : Installs \cup {NoTransfer}]
Phases == {"none", "unload", "load", "prompt", "end"}

CallTypes ==
    /\ settings \in StoredSettings
    /\ install \in [Installs -> InstallRecords]
    /\ abort \in Installs \cup {NoTransfer}
    /\ generation \in [Generations -> GenerationRecords]
    /\ save \in SaveRecords
    /\ saves \in Nat

SchedulerTypes ==
    /\ waiting \in Seq(Operations)
    /\ active \in Operations \cup {NoOperation}
    /\ phase \in Phases
    /\ loaded \in LoadedModels
    /\ inMemory \in Nat

(* The two halves of the type invariant. *)
LEMMA ModelTypes == ModelTypeOK <=> CallTypes /\ SchedulerTypes
BY DEF ModelTypeOK, CallTypes, SchedulerTypes, StoredSettings, InstallRecords,
   GenerationRecords, SaveRecords, LoadedModels, Phases

(* The numbers of the calls, which are also those of their transfers. *)
LEMMA Numbers ==
    /\ Installs \subseteq Nat \ {0} /\ Generations \subseteq Nat \ {0}
    /\ NoTransfer = 0
    /\ Installs \subseteq Transfers /\ Models \subseteq Paths
    /\ UpdateCalls \subseteq Transfers /\ Versions \subseteq Paths
    /\ Versions \subseteq Nat \ {0}
    /\ Installs \cap UpdateCalls = {} /\ Models \cap Versions = {} /\ 0 \notin Models
BY ModelAssumption, DownloadsAssumption
DEF UpdateAssumption, Installs, Generations, NoTransfer

(* What a record is before anything has happened. *)
LEMMA Blanks ==
    /\ SomeModel \in Models /\ DefaultContext \in Contexts
    /\ NoSettings \in StoredSettings /\ NoModel \in LoadedModels
    /\ NoInstall \in InstallRecords /\ NoGeneration \in GenerationRecords
    /\ NoSave \in SaveRecords
<1>1. SomeModel \in Models /\ DefaultContext \in Contexts
  BY ModelAssumption DEF SomeModel, DefaultContext
<1>2. NoSettings \in StoredSettings
  BY <1>1 DEF NoSettings, StoredSettings
<1>3. QED
  BY <1>1, <1>2 DEF NoModel, NoInstall, NoGeneration, NoSave, LoadedModels,
     InstallRecords, GenerationRecords, SaveRecords, InstallSteps, GenerationSteps

(* What is read of the settings is settings. *)
LEMMA StoredIsSettings == CallTypes => StoredRead \subseteq StoredSettings
BY Blanks DEF CallTypes, StoredRead

(* An installation goes to a step. *)
LEMMA GotoTypes ==
    ASSUME CallTypes, NEW i \in Installs, NEW step \in InstallSteps, Goto(i, step)
    PROVE  /\ install' \in [Installs -> InstallRecords]
           /\ install'[i] = [install[i] EXCEPT !.step = step]
           /\ \A j \in Installs \ {i} : install'[j] = install[j]
BY DEF CallTypes, Goto, InstallRecords

(* An installation is over. *)
LEMMA OverTypes ==
    ASSUME CallTypes, NEW i \in Installs, NEW outcome \in InstallSteps, Over(i, outcome)
    PROVE  /\ install' \in [Installs -> InstallRecords]
           /\ install'[i] = [install[i] EXCEPT !.step = outcome, !.seen = NoSettings]
           /\ \A j \in Installs \ {i} : install'[j] = install[j]
           /\ abort' = NoTransfer
BY Blanks DEF CallTypes, Over, InstallRecords

-------------------------------------------------------------------------------
(* The scheduler and those who wait for it. *)

\* Someone waits for the end of an operation.
Awaited(operation) ==
    \/ \E g \in Generations :
          operation = <<"generate", g>> /\ generation[g].step = "scheduled"
    \/ \E i \in Installs :
          operation = <<"install", i>> /\ install[i].step \in {"dispose", "final"}
    \/ operation = <<"save", 0>> /\ save.step = "dispose"

\* Each operation is chained once, for someone.
OperationsAreAwaited ==
    /\ \A k \in DOMAIN waiting : Awaited(waiting[k]) /\ waiting[k] # active
    /\ \A k, l \in DOMAIN waiting : waiting[k] = waiting[l] => k = l
    /\ active # NoOperation => Awaited(active)

\* What is in memory in each phase.
PhasesFit ==
    /\ active = NoOperation <=> phase = "none"
    /\ phase \in {"load", "prompt"} => active[1] = "generate"
    /\ phase = "end" => active[1] # "generate"
    /\ phase \in {"unload", "load", "end"} => loaded = NoModel
    /\ phase = "unload" => inMemory >= 1
    /\ loaded # NoModel => inMemory >= 1
    /\ scenario.faults \cap {"dispose", "context"} = {} =>
          /\ inMemory <= 1
          /\ loaded = NoModel /\ phase # "unload" => inMemory = 0
    /\ phase = "prompt" => Fits(generation[active[2]])

\* A file that is there has been opened by an installation.
ModelFilesAreOpened ==
    \A m \in Models :
        \/ file[m] = NoFile
        \/ file[m].content # "none" /\ file[m].opener \in Installs

ModelBase ==
    /\ FilesTypeOK /\ CallTypes /\ SchedulerTypes
    /\ PhasesFit /\ OperationsAreAwaited /\ ModelFilesAreOpened

\* Whoever waits for the scheduler goes on waiting.
AwaitersStay ==
    /\ \A g \in Generations :
          generation[g].step = "scheduled" => generation'[g] = generation[g]
    /\ \A i \in Installs :
          install[i].step \in {"dispose", "final"} => install'[i].step = install[i].step
    /\ save.step = "dispose" => save' = save

(* The operation that runs is for a call. *)
LEMMA ActiveIsForACall ==
    ASSUME ModelBase
    PROVE  /\ phase \in {"load", "prompt"} =>
                /\ active[2] \in Generations
                /\ active = <<"generate", active[2]>>
                /\ generation[active[2]].step = "scheduled"
           /\ phase = "end" =>
                \/ active = <<"save", 0>> /\ save.step = "dispose"
                \/ /\ active[2] \in Installs
                   /\ active = <<"install", active[2]>>
                   /\ install[active[2]].step \in {"dispose", "final"}
<1>1. active # NoOperation => Awaited(active)
  BY DEF ModelBase, OperationsAreAwaited
<1>2. QED
  BY <1>1 DEF ModelBase, PhasesFit, Awaited, NoOperation

(* The end of an operation that disposes is the end of its wait. *)
LEMMA DisposedKinds ==
    ASSUME ModelBase, Disposed
    PROVE  \/ /\ active = <<"save", 0>> /\ save' = NoSave
              /\ UNCHANGED <<install, abort>>
           \/ \E i \in Installs :
                 /\ active = <<"install", i>> /\ UNCHANGED save
                 /\ \/ At(i, "dispose") /\ Goto(i, "unlink") /\ UNCHANGED abort
                    \/ At(i, "final") /\ Over(i, "complete")
<1>1. phase = "end" /\ DisposedFor(active)
  BY DEF Disposed
<1>2. CASE active = <<"save", 0>>
  BY <1>1, <1>2 DEF DisposedFor
<1>3. CASE /\ active[2] \in Installs
           /\ active = <<"install", active[2]>>
           /\ install[active[2]].step \in {"dispose", "final"}
  <2>1. active[1] = "install" /\ (At(active[2], "dispose") \/ At(active[2], "final"))
    BY <1>3 DEF At
  <2>2. CASE At(active[2], "dispose")
    <3>1. Goto(active[2], "unlink") /\ UNCHANGED <<save, abort>>
      BY <1>1, <2>1, <2>2 DEF DisposedFor, At
    <3>2. QED
      BY <1>3, <2>2, <3>1
  <2>3. CASE At(active[2], "final")
    <3>1. Over(active[2], "complete") /\ UNCHANGED save
      BY <1>1, <2>1, <2>3 DEF DisposedFor, At
    <3>2. QED
      BY <1>3, <2>3, <3>1
  <2>4. QED
    BY <2>1, <2>2, <2>3
<1>4. QED
  BY <1>1, <1>2, <1>3, ActiveIsForACall

(* The calls keep their types, whatever the model does. *)
LEMMA CallsKeepTypes ==
    ASSUME ModelBase, ModelStep
    PROVE  CallTypes'
<1> USE DEF ModelBase
<1>1. ASSUME NEW i \in Installs, NEW m \in Models, NEW force \in BOOLEAN,
             InstallCalled(i, m, force)
      PROVE  CallTypes'
  <2>1. PICK r \in InstallRecords : install' = [install EXCEPT ![i] = r]
    <3>1. install[i] \in InstallRecords
      BY DEF CallTypes
    <3>2. [install[i] EXCEPT !.step = "runtime", !.model = m, !.force = force]
             \in InstallRecords
      BY <3>1 DEF InstallRecords, InstallSteps
    <3>3. install' = [install EXCEPT ![i] = [install[i] EXCEPT
                        !.step = "runtime", !.model = m, !.force = force]]
      BY <1>1 DEF InstallCalled, CallTypes
    <3>4. QED
      BY <3>2, <3>3
  <2>2. abort' \in {abort, i}
    BY <1>1 DEF InstallCalled
  <2>3. UNCHANGED <<settings, generation, save, saves>>
    BY <1>1 DEF InstallCalled
  <2>4. QED
    BY <1>1, <2>1, <2>2, <2>3 DEF CallTypes
<1>2. ASSUME CancelCalled PROVE CallTypes'
  <2>1. abort \in Installs
    <3>1. abort # NoTransfer
      BY <1>2 DEF CancelCalled
    <3>2. QED
      BY <3>1 DEF CallTypes
  <2>2. \/ install' = [install EXCEPT ![abort].aborted = TRUE, ![abort].step = "remove"]
        \/ install' = [install EXCEPT ![abort].aborted = TRUE]
    BY <1>2 DEF CancelCalled
  <2>3. install' \in [Installs -> InstallRecords]
    <3>1. [install[abort] EXCEPT !.aborted = TRUE] \in InstallRecords
      BY <2>1 DEF CallTypes, InstallRecords
    <3>2. [install[abort] EXCEPT !.aborted = TRUE, !.step = "remove"] \in InstallRecords
      BY <2>1 DEF CallTypes, InstallRecords, InstallSteps
    <3>3. QED
      BY <2>1, <2>2, <3>1, <3>2 DEF CallTypes
  <2>4. UNCHANGED <<settings, abort, generation, save, saves>>
    BY <1>2 DEF CancelCalled
  <2>5. QED
    BY <2>3, <2>4 DEF CallTypes
<1>3. ASSUME NEW c \in Contexts, SaveCalled(c) PROVE CallTypes'
  <2>1. [NoSave EXCEPT !.step = "read", !.context = c] \in SaveRecords
    BY Blanks DEF SaveRecords
  <2>2. QED
    BY <1>3, <2>1 DEF SaveCalled, CallTypes
<1>4. ASSUME NEW g \in Generations, NEW m \in Models, GenerationCalled(g, m) PROVE CallTypes'
  BY <1>4 DEF GenerationCalled, CallTypes, GenerationRecords, GenerationSteps
<1>5. ASSUME SchedulerProceeds PROVE CallTypes'
  <2>1. CASE OperationBegins \/ Unloaded \/ ModelLoaded
    BY <2>1 DEF OperationBegins, Unloaded, ModelLoaded, callVars, CallTypes
  <2>2. CASE LoadFails \/ PromptEnds
    <3>1. active[2] \in Generations
      BY <2>2, ActiveIsForACall DEF LoadFails, PromptEnds
    <3>2. PICK outcome \in {"generated", "failed"} : Generates(outcome)
      BY <2>2 DEF LoadFails, PromptEnds
    <3>3. QED
      BY <3>1, <3>2 DEF Generates, CallTypes, GenerationRecords, GenerationSteps, GenerationEnds
  <2>3. CASE Disposed
    BY <2>3, DisposedKinds, GotoTypes, OverTypes, Blanks
    DEF Disposed, CallTypes, InstallSteps, InstallEnds
  <2>4. QED
    BY <1>5, <2>1, <2>2, <2>3 DEF SchedulerProceeds
<1>6. ASSUME SaveProceeds PROVE CallTypes'
  <2>1. CASE SaveReads
    <3>1. PICK stored \in StoredSettings : save' = [save EXCEPT !.step = "write", !.seen = stored]
      BY <2>1, StoredIsSettings DEF SaveReads
    <3>2. save' \in SaveRecords
      BY <3>1 DEF CallTypes, SaveRecords
    <3>3. QED
      BY <2>1, <3>2 DEF SaveReads, CallTypes
  <2>2. CASE SaveWrites
    <3>1. [save.seen EXCEPT !.context = save.context] \in StoredSettings
      BY DEF CallTypes, SaveRecords, StoredSettings
    <3>2. settings' \in StoredSettings
      BY <2>2, <3>1, Blanks DEF SaveWrites, CallTypes
    <3>3. save' \in SaveRecords
      BY <2>2, Blanks DEF SaveWrites, CallTypes, SaveRecords
    <3>4. QED
      BY <2>2, <3>2, <3>3 DEF SaveWrites, CallTypes
  <2>3. QED
    BY <1>6, <2>1, <2>2 DEF SaveProceeds
<1>7. ASSUME NEW i \in Installs, InstallProceeds(i) PROVE CallTypes'
  <2>1. CASE RuntimeChecked(i)
    BY <2>1, GotoTypes, OverTypes DEF RuntimeChecked, CallTypes, InstallSteps, InstallEnds
  <2>2. CASE OldModelRemoved(i) \/ StatusRead(i) \/ ModelDownloaded(i)
    BY <2>2, GotoTypes DEF OldModelRemoved, StatusRead, ModelDownloaded, CallTypes, InstallSteps
  <2>3. CASE ModelNotDownloaded(i) \/ ModelVerified(i)
    BY <2>3, GotoTypes, OverTypes
    DEF ModelNotDownloaded, ModelVerified, Leave, CallTypes, InstallSteps, InstallEnds
  <2>4. CASE SettingsRead(i)
    <3>1. PICK stored \in StoredSettings :
             install' = [install EXCEPT ![i].step = "store",
                                        ![i].seen = [stored EXCEPT !.activated = TRUE,
                                                                   !.model = install[i].model]]
      BY <2>4, StoredIsSettings DEF SettingsRead
    <3>2. [stored EXCEPT !.activated = TRUE, !.model = install[i].model] \in StoredSettings
      BY DEF StoredSettings, CallTypes, InstallRecords
    <3>3. install' \in [Installs -> InstallRecords]
      BY <3>1, <3>2 DEF CallTypes, InstallRecords, InstallSteps
    <3>4. QED
      BY <2>4, <3>3 DEF SettingsRead, CallTypes
  <2>5. CASE SettingsStored(i)
    <3>1. settings' \in StoredSettings
      BY <2>5, Blanks DEF SettingsStored, CallTypes, InstallRecords
    <3>2. QED
      BY <2>5, <3>1, GotoTypes, OverTypes
      DEF SettingsStored, Leave, CallTypes, InstallSteps, InstallEnds
  <2>6. CASE CancelledModelRemoved(i)
    BY <2>6, OverTypes DEF CancelledModelRemoved, CallTypes, InstallSteps, InstallEnds
  <2>7. QED
    BY <1>7, <2>1, <2>2, <2>3, <2>4, <2>5, <2>6 DEF InstallProceeds
<1>8. ASSUME NEW g \in Generations, StateRead(g) PROVE CallTypes'
  <2>1. PICK stored \in StoredSettings :
           \/ generation' = [generation EXCEPT ![g].step = "path", ![g].context = stored.context]
           \/ GenerationFails(g)
    BY <1>8, StoredIsSettings DEF StateRead
  <2>2. generation' \in [Generations -> GenerationRecords]
    BY <2>1 DEF GenerationFails, CallTypes, GenerationRecords, GenerationSteps, GenerationEnds,
                StoredSettings
  <2>3. QED
    BY <1>8, <2>2 DEF StateRead, CallTypes
<1>9. ASSUME NEW g \in Generations, PathResolved(g) PROVE CallTypes'
  <2> DEFINE m == generation[g].model
  <2>1. m \in Models
    BY DEF CallTypes, GenerationRecords
  <2>2. file[m].opener \in Installs \cup {NoTransfer}
    BY <2>1 DEF ModelFilesAreOpened, NoFile
  <2>3. generation' \in [Generations -> GenerationRecords]
    BY <1>9, <2>2 DEF PathResolved, GenerationFails, CallTypes, GenerationRecords,
                      GenerationSteps, GenerationEnds
  <2>4. QED
    BY <1>9, <2>3 DEF PathResolved, CallTypes
<1>10. ASSUME UNCHANGED modelVars PROVE CallTypes'
  BY <1>10 DEF modelVars, callVars, CallTypes
<1>11. QED
  BY <1>1, <1>2, <1>3, <1>4, <1>5, <1>6, <1>7, <1>8, <1>9, <1>10 DEF ModelStep, ModelProceeds

\* An operation is chained for a call that begins to wait for it.
Chained ==
    \E operation \in Operations :
        Enqueue(operation) /\ ~Awaited(operation) /\ Awaited(operation)'

\* The operation that runs comes to its end, and with it the wait for it.
Finishes ==
    /\ active # NoOperation /\ phase # "unload"
    /\ OperationEnds
    /\ UNCHANGED <<waiting, loaded>>
    /\ \/ UNCHANGED inMemory
       \/ "context" \in scenario.faults /\ inMemory' = inMemory + 1
    /\ \A operation \in Operations \ {active} : Awaited(operation) => Awaited(operation)'

(* Whoever stays awaits the same operation. *)
LEMMA AwaitersAwait ==
    ASSUME AwaitersStay, NEW operation, Awaited(operation)
    PROVE  Awaited(operation)'
BY DEF AwaitersStay, Awaited

(* What a step of the model is to the scheduler. *)
LEMMA StepsOfTheScheduler ==
    ASSUME ModelBase, ModelStep
    PROVE  \/ UNCHANGED schedulerVars /\ AwaitersStay
           \/ Chained /\ AwaitersStay
           \/ OperationBegins
           \/ Unloaded
           \/ ModelLoaded /\ UNCHANGED fileVars
           \/ Finishes
<1> DEFINE Kinds == \/ UNCHANGED schedulerVars /\ AwaitersStay
                    \/ Chained /\ AwaitersStay
                    \/ OperationBegins
                    \/ Unloaded
                    \/ ModelLoaded /\ UNCHANGED fileVars
                    \/ Finishes
<1> SUFFICES Kinds
  OBVIOUS
<1>0. CallTypes /\ SchedulerTypes
  BY DEF ModelBase
<1>1. ASSUME NEW i \in Installs, NEW m \in Models, NEW force \in BOOLEAN,
             InstallCalled(i, m, force)
      PROVE  Kinds
  <2>1. At(i, "none")
    BY <1>1 DEF InstallCalled, Installs, ModelAssumption
  <2>2. AwaitersStay
    BY <1>0, <1>1, <2>1 DEF InstallCalled, CallTypes, AwaitersStay, At, InstallRecords
  <2>3. QED
    BY <1>1, <2>2 DEF InstallCalled
<1>2. ASSUME CancelCalled PROVE Kinds
  <2>1. \/ At(abort, "transfer")
           /\ install' = [install EXCEPT ![abort].aborted = TRUE, ![abort].step = "remove"]
        \/ install' = [install EXCEPT ![abort].aborted = TRUE]
    BY <1>2 DEF CancelCalled
  <2>2. \A i \in Installs :
           install[i].step \in {"dispose", "final"} => install'[i].step = install[i].step
    BY <1>0, <2>1 DEF CallTypes, InstallRecords, At
  <2>3. QED
    BY <1>2, <2>2 DEF CancelCalled, AwaitersStay
<1>3. ASSUME NEW c \in Contexts, SaveCalled(c) PROVE Kinds
  BY <1>3 DEF SaveCalled, AwaitersStay
<1>4. ASSUME NEW g \in Generations, NEW m \in Models, GenerationCalled(g, m) PROVE Kinds
  <2>1. generation[g].step = "none"
    BY <1>4, Numbers DEF GenerationCalled
  <2>2. \A h \in Generations : generation[h].step = "scheduled" => generation'[h] = generation[h]
    BY <1>0, <1>4, <2>1 DEF GenerationCalled, CallTypes
  <2>3. QED
    BY <1>4, <2>2 DEF GenerationCalled, AwaitersStay
<1>5. ASSUME SchedulerProceeds, UNCHANGED fileVars PROVE Kinds
  <2>1. CASE LoadFails \/ PromptEnds
    <3> DEFINE g == active[2]
    <3>1. g \in Generations /\ active = <<"generate", g>>
      BY <2>1, ActiveIsForACall DEF LoadFails, PromptEnds
    <3>2. PICK outcome \in {"generated", "failed"} : Generates(outcome)
      BY <2>1 DEF LoadFails, PromptEnds
    <3>3. /\ \A h \in Generations \ {g} : generation'[h] = generation[h]
          /\ UNCHANGED <<install, save>>
      BY <1>0, <3>1, <3>2 DEF Generates, CallTypes
    <3>4. \A operation \in Operations \ {active} : Awaited(operation) => Awaited(operation)'
      BY <3>1, <3>3 DEF Awaited
    <3>5. QED
      BY <2>1, <3>1, <3>2, <3>4 DEF Generates, Finishes, NoOperation, LoadFails, PromptEnds
  <2>2. CASE Disposed
    <3>1. /\ active # NoOperation /\ OperationEnds /\ phase = "end"
          /\ UNCHANGED <<waiting, loaded, inMemory, generation>>
      BY <2>2, ActiveIsForACall DEF Disposed, NoOperation
    <3>2. CASE /\ active = <<"save", 0>> /\ save' = NoSave
               /\ UNCHANGED <<install, abort>>
      BY <3>1, <3>2 DEF Finishes, Awaited
    <3>3. ASSUME NEW i \in Installs, active = <<"install", i>>, UNCHANGED save,
                 Goto(i, "unlink") \/ Over(i, "complete")
          PROVE  Kinds
      <4>1. \A j \in Installs \ {i} : install'[j] = install[j]
        BY <1>0, <3>3, GotoTypes, OverTypes DEF InstallSteps, InstallEnds
      <4>2. \A operation \in Operations \ {active} : Awaited(operation) => Awaited(operation)'
        BY <3>1, <3>3, <4>1 DEF Awaited
      <4>3. QED
        BY <3>1, <4>2 DEF Finishes
    <3>4. QED
      BY <2>2, <3>2, <3>3, DisposedKinds
  <2>3. QED
    BY <1>5, <2>1, <2>2 DEF SchedulerProceeds
<1>6. ASSUME SaveProceeds PROVE Kinds
  <2>1. save.step \in {"read", "write"} /\ UNCHANGED <<install, generation>>
    BY <1>6 DEF SaveProceeds, SaveReads, SaveWrites
  <2>2. AwaitersStay
    BY <2>1 DEF AwaitersStay
  <2>3. CASE UNCHANGED schedulerVars
    BY <2>2, <2>3
  <2>4. CASE Enqueue(<<"save", 0>>) /\ save' = [save EXCEPT !.step = "dispose"]
    <3>1. ~Awaited(<<"save", 0>>)
      BY <2>1 DEF Awaited
    <3>2. save'.step = "dispose"
      BY <1>0, <2>4 DEF CallTypes, SaveRecords
    <3>3. Awaited(<<"save", 0>>)' /\ <<"save", 0>> \in Operations
      BY <3>2 DEF Awaited, Operations
    <3>4. QED
      BY <2>2, <2>4, <3>1, <3>3 DEF Chained
  <2>5. QED
    BY <1>6, <2>3, <2>4 DEF SaveProceeds, SaveReads, SaveWrites
<1>7. ASSUME NEW i \in Installs, InstallProceeds(i) PROVE Kinds
  <2>1. /\ install[i].step \notin {"dispose", "final"}
        /\ \A j \in Installs \ {i} : install'[j] = install[j]
        /\ UNCHANGED <<save, generation>>
    <3>1. CASE RuntimeChecked(i)
      BY <1>0, <3>1, GotoTypes, OverTypes DEF RuntimeChecked, At, InstallSteps, InstallEnds
    <3>2. CASE OldModelRemoved(i) \/ StatusRead(i) \/ ModelDownloaded(i)
      BY <1>0, <3>2, GotoTypes
      DEF OldModelRemoved, StatusRead, ModelDownloaded, At, InstallSteps
    <3>3. CASE ModelNotDownloaded(i) \/ ModelVerified(i) \/ CancelledModelRemoved(i)
      BY <1>0, <3>3, GotoTypes, OverTypes
      DEF ModelNotDownloaded, ModelVerified, CancelledModelRemoved, Leave, At, InstallSteps,
          InstallEnds
    <3>4. CASE SettingsRead(i)
      BY <1>0, <3>4 DEF SettingsRead, At, CallTypes
    <3>5. CASE SettingsStored(i)
      BY <1>0, <3>5, GotoTypes, OverTypes
      DEF SettingsStored, Leave, At, InstallSteps, InstallEnds
    <3>6. QED
      BY <1>7, <3>1, <3>2, <3>3, <3>4, <3>5 DEF InstallProceeds
  <2>2. AwaitersStay
    BY <2>1 DEF AwaitersStay
  <2>3. CASE UNCHANGED schedulerVars
    BY <2>2, <2>3
  <2>4. CASE \E step \in {"dispose", "final"} : Goto(i, step) /\ Enqueue(<<"install", i>>)
    <3>1. ~Awaited(<<"install", i>>)
      BY <2>1 DEF Awaited
    <3>2. install'[i].step \in {"dispose", "final"}
      BY <1>0, <2>4 DEF Goto, InstallRecords, CallTypes
    <3>3. Awaited(<<"install", i>>)' /\ <<"install", i>> \in Operations
      BY <3>2 DEF Awaited, Operations
    <3>4. QED
      BY <2>2, <2>4, <3>1, <3>3 DEF Chained
  <2>5. QED
    BY <1>7, <2>3, <2>4 DEF InstallProceeds, RuntimeChecked, OldModelRemoved, StatusRead,
       ModelDownloaded, ModelNotDownloaded, ModelVerified, SettingsRead, SettingsStored,
       CancelledModelRemoved
<1>8. ASSUME NEW g \in Generations, StateRead(g) PROVE Kinds
  <2>1. \A h \in Generations : generation[h].step = "scheduled" => generation'[h] = generation[h]
    BY <1>0, <1>8 DEF StateRead, GenerationFails, CallTypes
  <2>2. QED
    BY <1>8, <2>1 DEF StateRead, AwaitersStay
<1>9. ASSUME NEW g \in Generations, PathResolved(g) PROVE Kinds
  <2>1. /\ generation[g].step = "path" /\ UNCHANGED <<install, save>>
        /\ \A h \in Generations \ {g} : generation'[h] = generation[h]
    BY <1>0, <1>9 DEF PathResolved, GenerationFails, CallTypes
  <2>2. AwaitersStay
    BY <2>1 DEF AwaitersStay
  <2>3. CASE UNCHANGED schedulerVars
    BY <2>2, <2>3
  <2>4. CASE Enqueue(<<"generate", g>>) /\ generation'[g].step = "scheduled"
    <3>1. ~Awaited(<<"generate", g>>)
      BY <2>1 DEF Awaited
    <3>2. Awaited(<<"generate", g>>)' /\ <<"generate", g>> \in Operations
      BY <2>4 DEF Awaited, Operations
    <3>3. QED
      BY <2>2, <2>4, <3>1, <3>2 DEF Chained
  <2>5. QED
    BY <1>0, <1>9, <2>3, <2>4 DEF PathResolved, CallTypes, GenerationRecords
<1>10. ASSUME UNCHANGED modelVars PROVE Kinds
  BY <1>10 DEF modelVars, callVars, AwaitersStay
<1>11. QED
  BY <1>1, <1>2, <1>3, <1>4, <1>5, <1>6, <1>7, <1>8, <1>9, <1>10 DEF ModelStep, ModelProceeds

(* Calls that do not change await the same. *)
LEMMA SameCallsAwait ==
    ASSUME UNCHANGED callVars, NEW operation
    PROVE  Awaited(operation)' <=> Awaited(operation)
BY DEF callVars, Awaited

(* The queue of the scheduler stays one of operations, each chained once. *)
LEMMA QueueIsKept ==
    ASSUME ModelBase, ModelStep
    PROVE  SchedulerTypes' /\ OperationsAreAwaited'
<1>0. SchedulerTypes /\ OperationsAreAwaited /\ CallTypes /\ PhasesFit
  BY DEF ModelBase
<1>1. NoOperation \notin Operations
  BY DEF NoOperation, Operations
<1>2. ASSUME UNCHANGED schedulerVars, AwaitersStay PROVE SchedulerTypes' /\ OperationsAreAwaited'
  BY <1>0, <1>2, AwaitersAwait DEF schedulerVars, SchedulerTypes, OperationsAreAwaited
<1>3. ASSUME Chained, AwaitersStay PROVE SchedulerTypes' /\ OperationsAreAwaited'
  <2>1. PICK operation \in Operations :
           /\ waiting' = Append(waiting, operation)
           /\ UNCHANGED <<active, phase, loaded, inMemory>>
           /\ ~Awaited(operation) /\ Awaited(operation)'
    BY <1>3 DEF Chained, Enqueue
  <2>2. waiting' \in Seq(Operations) /\ waiting \in Seq(Operations)
    BY <1>0, <2>1 DEF SchedulerTypes
  <2>3. /\ Len(waiting') = Len(waiting) + 1
        /\ \A k \in 1..Len(waiting) : waiting'[k] = waiting[k]
        /\ waiting'[Len(waiting) + 1] = operation
        /\ DOMAIN waiting = 1..Len(waiting) /\ DOMAIN waiting' = 1..Len(waiting')
        /\ Len(waiting) \in Nat
    BY <2>1, <2>2
  <2>4. operation # active
    BY <1>0, <1>1, <2>1 DEF OperationsAreAwaited
  <2>5. \A k \in 1..Len(waiting) :
           /\ Awaited(waiting[k]) /\ waiting[k] # active /\ waiting[k] # operation
           /\ Awaited(waiting[k])'
    <3>1. ASSUME NEW k \in 1..Len(waiting)
          PROVE  Awaited(waiting[k]) /\ waiting[k] # active /\ waiting[k] # operation
      BY <1>0, <2>1, <2>3 DEF OperationsAreAwaited
    <3>2. ASSUME NEW k \in 1..Len(waiting), NEW o, o = waiting[k] PROVE Awaited(o)'
      BY <1>3, <3>1, <3>2, AwaitersAwait
    <3>3. ASSUME NEW k \in 1..Len(waiting) PROVE Awaited(waiting[k])'
      <4>1. PICK o : o = waiting[k]
        OBVIOUS
      <4>2. Awaited(o)' /\ waiting'[k] = o
        BY <2>3, <3>2, <4>1
      <4>3. QED
        BY <4>2 DEF Awaited
    <3>4. QED
      BY <3>1, <3>3
  <2>6. ASSUME NEW k \in DOMAIN waiting'
        PROVE  Awaited(waiting[k])' /\ waiting'[k] # active'
    <3>1. CASE k = Len(waiting) + 1
      BY <2>1, <2>3, <2>4, <3>1 DEF Awaited
    <3>2. CASE k \in 1..Len(waiting)
      BY <2>1, <2>3, <2>5, <3>2 DEF Awaited
    <3>3. QED
      BY <2>3, <3>1, <3>2
  <2>7. ASSUME NEW k \in DOMAIN waiting', NEW l \in DOMAIN waiting', waiting'[k] = waiting'[l]
        PROVE  k = l
    BY <1>0, <2>3, <2>5, <2>7 DEF OperationsAreAwaited
  <2>8. active' # NoOperation => Awaited(active)'
    <3>1. PICK o : o = active
      OBVIOUS
    <3>2. active' # NoOperation => Awaited(o)'
      BY <1>0, <1>3, <2>1, <3>1, AwaitersAwait DEF OperationsAreAwaited
    <3>3. QED
      BY <2>1, <3>1, <3>2 DEF Awaited
  <2>9. SchedulerTypes'
    BY <1>0, <2>1, <2>2 DEF SchedulerTypes
  <2>10. QED
    BY <2>6, <2>7, <2>8, <2>9 DEF OperationsAreAwaited
<1>4. ASSUME OperationBegins PROVE SchedulerTypes' /\ OperationsAreAwaited'
  <2>1. /\ active = NoOperation /\ waiting # <<>>
        /\ active' = Head(waiting) /\ waiting' = Tail(waiting)
        /\ Begins(Head(waiting)) /\ UNCHANGED inMemory /\ UNCHANGED callVars
    BY <1>4 DEF OperationBegins
  <2>2. waiting \in Seq(Operations)
    BY <1>0 DEF SchedulerTypes
  <2>3. /\ waiting' \in Seq(Operations) /\ active' \in Operations
        /\ Len(waiting) \in Nat \ {0} /\ Len(waiting') = Len(waiting) - 1
        /\ DOMAIN waiting = 1..Len(waiting) /\ DOMAIN waiting' = 1..Len(waiting')
        /\ active' = waiting[1]
        /\ \A k \in 1..Len(waiting') : waiting'[k] = waiting[k + 1]
    BY <2>1, <2>2
  <2>4. \A k \in 1..Len(waiting') : k + 1 \in DOMAIN waiting /\ 1 \in DOMAIN waiting
    BY <2>3
  <2>5. \A k \in DOMAIN waiting' : waiting'[k] # active'
    BY <1>0, <2>3, <2>4 DEF OperationsAreAwaited
  <2>6. ASSUME NEW k \in DOMAIN waiting', NEW l \in DOMAIN waiting', waiting'[k] = waiting'[l]
        PROVE  k = l
    <3>1. /\ waiting[k + 1] = waiting[l + 1]
          /\ k + 1 \in DOMAIN waiting /\ l + 1 \in DOMAIN waiting
      BY ONLY <2>3, <2>4, <2>6
    <3>2. k + 1 = l + 1 /\ k \in Nat /\ l \in Nat
      BY ONLY <1>0, <2>3, <2>6, <3>1 DEF OperationsAreAwaited
    <3>3. QED
      BY ONLY <3>2
  <2>7. ASSUME NEW k \in DOMAIN waiting' PROVE Awaited(waiting[k])'
    <3>1. PICK o : o = waiting[k + 1]
      OBVIOUS
    <3>2. Awaited(o)' /\ waiting'[k] = o
      BY <1>0, <2>1, <2>3, <2>4, <3>1, SameCallsAwait DEF OperationsAreAwaited
    <3>3. QED
      BY <3>2 DEF Awaited
  <2>8. Awaited(active)'
    <3>1. PICK o : o = waiting[1]
      OBVIOUS
    <3>2. 1 \in DOMAIN waiting
      BY <2>3
    <3>3. Awaited(o)' /\ active' = o
      BY <1>0, <2>1, <2>3, <3>1, <3>2, SameCallsAwait DEF OperationsAreAwaited
    <3>4. QED
      BY <3>3 DEF Awaited
  <2>9. phase' \in Phases /\ loaded' \in LoadedModels
    BY <1>0, <2>1, Blanks DEF Begins, Phases, SchedulerTypes
  <2>10. QED
    BY <1>0, <2>1, <2>3, <2>5, <2>6, <2>7, <2>8, <2>9 DEF SchedulerTypes, OperationsAreAwaited
<1>5. ASSUME Unloaded \/ ModelLoaded PROVE SchedulerTypes' /\ OperationsAreAwaited'
  <2>1. waiting' = waiting /\ active' = active /\ UNCHANGED callVars
    BY <1>5 DEF Unloaded, ModelLoaded
  <2>0. waiting' \in Seq(Operations) /\ active' \in Operations \cup {NoOperation}
    BY <1>0, <2>1 DEF SchedulerTypes
  <2>2. OperationsAreAwaited'
    <3>1. ASSUME NEW k \in DOMAIN waiting' PROVE Awaited(waiting[k])' /\ waiting'[k] # active'
      <4>1. PICK o : o = waiting[k]
        OBVIOUS
      <4>2. Awaited(o)' /\ waiting'[k] = o /\ o # active
        BY <1>0, <2>1, <4>1, SameCallsAwait DEF OperationsAreAwaited
      <4>3. QED
        BY <2>1, <4>2
    <3>2. active' # NoOperation => Awaited(active)'
      <4>1. PICK o : o = active
        OBVIOUS
      <4>2. active' = o /\ (o # NoOperation => Awaited(o)')
        BY <1>0, <2>1, <4>1, SameCallsAwait DEF OperationsAreAwaited
      <4>3. QED
        BY <4>2
    <3>3. QED
      BY <1>0, <2>1, <3>1, <3>2 DEF OperationsAreAwaited
  <2>3. CASE Unloaded
    <3>1. phase' \in Phases /\ loaded' = loaded
      BY <2>3 DEF Unloaded, Phases
    <3>2. inMemory' \in Nat
      BY <1>0, <2>3 DEF Unloaded, SchedulerTypes, PhasesFit
    <3>3. QED
      BY <1>0, <2>0, <2>2, <3>1, <3>2 DEF SchedulerTypes
  <2>4. CASE ModelLoaded
    <3> DEFINE g == generation[active[2]]
    <3>1. g \in GenerationRecords
      BY <1>0, <2>4, ActiveIsForACall DEF ModelLoaded, CallTypes
    <3>2. file[g.model].opener \in Installs \cup {NoTransfer}
      BY <3>1 DEF ModelBase, ModelFilesAreOpened, NoFile, GenerationRecords
    <3>3. loaded' = [model |-> g.model, context |-> g.context, origin |-> file[g.model].opener]
      BY <2>4 DEF ModelLoaded
    <3>4. loaded' \in LoadedModels
      BY <3>1, <3>2, <3>3 DEF LoadedModels, GenerationRecords
    <3>5. phase' = "prompt" /\ inMemory' = inMemory + 1
      BY <2>4 DEF ModelLoaded
    <3>6. QED
      BY <1>0, <2>0, <2>2, <3>4, <3>5 DEF SchedulerTypes, Phases
  <2>5. QED
    BY <1>5, <2>2, <2>3, <2>4 DEF OperationsAreAwaited
<1>6. ASSUME Finishes PROVE SchedulerTypes' /\ OperationsAreAwaited'
  <2>1. /\ waiting' = waiting /\ active' = NoOperation /\ phase' = "none"
        /\ UNCHANGED loaded /\ inMemory' \in {inMemory, inMemory + 1}
        /\ \A operation \in Operations \ {active} : Awaited(operation) => Awaited(operation)'
    BY <1>6 DEF Finishes, OperationEnds
  <2>2. waiting \in Seq(Operations)
    BY <1>0 DEF SchedulerTypes
  <2>3. ASSUME NEW k \in DOMAIN waiting'
        PROVE  Awaited(waiting[k])' /\ waiting'[k] # active'
    <3>1. waiting[k] \in Operations /\ waiting'[k] = waiting[k]
      BY <2>1, <2>2
    <3>2. PICK o : o = waiting[k]
      OBVIOUS
    <3>3. Awaited(o) /\ o \in Operations \ {active}
      BY <1>0, <2>1, <3>1, <3>2 DEF OperationsAreAwaited
    <3>4. Awaited(o)' /\ waiting'[k] = o
      BY <2>1, <3>1, <3>2, <3>3
    <3>5. QED
      BY <1>1, <2>1, <3>3, <3>4 DEF Awaited
  <2>4. QED
    BY <1>0, <2>1, <2>3 DEF SchedulerTypes, OperationsAreAwaited, Phases
<1>7. QED
  BY <1>2, <1>3, <1>4, <1>5, <1>6, StepsOfTheScheduler

(* What is in memory in each phase, after a step of the model. *)
LEMMA PhasesStayFit ==
    ASSUME ModelBase, ModelStep, UNCHANGED scenario
    PROVE  PhasesFit'
<1>0. /\ CallTypes /\ SchedulerTypes /\ PhasesFit /\ ModelFilesAreOpened
      /\ inMemory \in Nat
  BY DEF ModelBase, SchedulerTypes
<1>1. ASSUME UNCHANGED <<active, phase, loaded, inMemory>>, AwaitersStay
      PROVE  PhasesFit'
  <2>1. phase = "prompt" => generation'[active[2]] = generation[active[2]]
    BY <1>1, ActiveIsForACall DEF AwaitersStay
  <2>2. phase' = "prompt" => Fits(generation[active[2]])'
    BY <1>0, <1>1, <2>1 DEF PhasesFit, Fits
  <2>3. QED
    BY <1>0, <1>1, <2>2 DEF PhasesFit
<1>2. ASSUME OperationBegins PROVE PhasesFit'
  <2>1. PICK operation \in Operations : operation = Head(waiting)
    BY <1>0, <1>2 DEF OperationBegins, SchedulerTypes
  <2>2. /\ active = NoOperation /\ active' = operation
        /\ UNCHANGED <<inMemory, generation>>
        /\ Begins(operation)
    BY <1>2, <2>1 DEF OperationBegins, callVars
  <2>3. operation # NoOperation
    BY DEF Operations, NoOperation
  <2>4. CASE operation[1] = "generate" /\ Fits(generation[operation[2]])
    <3>1. phase' = "prompt" /\ loaded' = loaded
      BY <2>2, <2>4 DEF Begins
    <3>2. Fits(generation[active[2]])' /\ loaded # NoModel
      BY <2>2, <2>4, <3>1 DEF Fits
    <3>3. QED
      BY <1>0, <2>2, <2>3, <2>4, <3>1, <3>2 DEF PhasesFit
  <2>5. CASE ~(operation[1] = "generate" /\ Fits(generation[operation[2]]))
    <3>1. /\ phase' = IF loaded # NoModel THEN "unload"
                      ELSE IF operation[1] = "generate" THEN "load" ELSE "end"
          /\ loaded' = NoModel
      BY <2>2, <2>5 DEF Begins
    <3>2. QED
      BY <1>0, <2>2, <2>3, <3>1 DEF PhasesFit
  <2>6. QED
    BY <2>4, <2>5
<1>3. ASSUME Unloaded PROVE PhasesFit'
  BY <1>0, <1>3 DEF Unloaded, PhasesFit
<1>4. ASSUME ModelLoaded PROVE PhasesFit'
  <2> DEFINE g == generation[active[2]]
  <2>1. active[2] \in Generations /\ g \in GenerationRecords
    BY <1>0, <1>4, ActiveIsForACall DEF ModelLoaded, CallTypes
  <2>2. /\ loaded' = [model |-> g.model, context |-> g.context, origin |-> file[g.model].opener]
        /\ IsReady(g.model) /\ phase = "load" /\ phase' = "prompt"
        /\ inMemory' = inMemory + 1
        /\ UNCHANGED <<active, generation>>
    BY <1>4 DEF ModelLoaded, callVars
  <2>3. file[g.model].opener \in Installs
    <3>1. file[g.model] # NoFile
      BY <2>2, NoFileIsOne DEF IsReady
    <3>2. QED
      BY <1>0, <2>1, <3>1 DEF ModelFilesAreOpened, GenerationRecords
  <2>4. loaded' # NoModel
    BY <2>2, <2>3, Numbers DEF NoModel
  <2>5. Fits(generation[active[2]])'
    BY <2>2, <2>4 DEF Fits
  <2>6. QED
    BY <1>0, <2>2, <2>4, <2>5 DEF PhasesFit
<1>5. ASSUME Finishes PROVE PhasesFit'
  BY <1>0, <1>5 DEF Finishes, OperationEnds, PhasesFit
<1>6. QED
  BY <1>1, <1>2, <1>3, <1>4, <1>5, StepsOfTheScheduler DEF Chained, Enqueue, schedulerVars

-------------------------------------------------------------------------------
(* The installations and their files. *)

Same(i) == install'[i].step = install[i].step /\ install'[i].model = install[i].model

\* One installation goes on, or is over.
Moves(i) ==
    /\ InstallRuns(i)
    /\ \A j \in Installs \ {i} : Same(j)
    /\ install'[i].model = install[i].model
    /\ install'[i].step # "none"
    /\ install'[i].step = "complete" => loaded' = NoModel

MovesWithoutFile(i) ==
    /\ Moves(i) /\ UNCHANGED fileVars
    /\ ~At(i, "transfer") /\ ~At(i, "remove")

Removes(i) ==
    /\ Moves(i) /\ ~At(i, "transfer")
    /\ Removed(install[i].model) /\ UNCHANGED transfer

Starts(i) ==
    /\ Moves(i) /\ At(i, "status") /\ install'[i].step = "transfer"
    /\ ~IsReady(install[i].model)
    /\ TransferStarts(i, install[i].model) /\ UNCHANGED file

Ends(i) == Moves(i) /\ At(i, "transfer") /\ TransferEnds(i)

Stops(i) ==
    /\ Moves(i) /\ At(i, "transfer") /\ install'[i].step \in {"remove", "failed"}
    /\ TransferStops(i)

(* What a step of the model is to the installations and the files. *)
LEMMA StepsOfTheInstallations ==
    ASSUME ModelBase, ModelStep
    PROVE  \/ \E i \in Installs, m \in Models, force \in BOOLEAN : InstallCalled(i, m, force)
           \/ UNCHANGED fileVars /\ \A i \in Installs : Same(i)
           \/ \E i \in Installs :
                 \/ MovesWithoutFile(i) \/ Removes(i) \/ Starts(i) \/ Ends(i) \/ Stops(i)
                 \/ (TransferOpens(i) \/ TransferGrows(i)) /\ UNCHANGED modelVars
<1> DEFINE Kinds ==
       \/ \E i \in Installs, m \in Models, force \in BOOLEAN : InstallCalled(i, m, force)
       \/ UNCHANGED fileVars /\ \A i \in Installs : Same(i)
       \/ \E i \in Installs :
             \/ MovesWithoutFile(i) \/ Removes(i) \/ Starts(i) \/ Ends(i) \/ Stops(i)
             \/ (TransferOpens(i) \/ TransferGrows(i)) /\ UNCHANGED modelVars
<1> SUFFICES Kinds
  OBVIOUS
<1>0. CallTypes
  BY DEF ModelBase
<1>1. ASSUME UNCHANGED install, UNCHANGED fileVars PROVE Kinds
  BY <1>1 DEF Same
<1>2. ASSUME NEW i \in Installs, NEW step \in InstallSteps, Goto(i, step) \/ Over(i, step),
             InstallRuns(i), step # "none", step = "complete" => loaded' = NoModel
      PROVE  Moves(i) /\ install'[i].step = step
  <2>1. /\ \A j \in Installs \ {i} : install'[j] = install[j]
        /\ install'[i].model = install[i].model /\ install'[i].step = step
    <3>1. /\ \A j \in Installs \ {i} : install'[j] = install[j]
          /\ \/ install'[i] = [install[i] EXCEPT !.step = step]
             \/ install'[i] = [install[i] EXCEPT !.step = step, !.seen = NoSettings]
      BY <1>0, <1>2, GotoTypes, OverTypes
    <3>2. install[i] \in InstallRecords
      BY <1>0 DEF CallTypes
    <3>3. QED
      BY <3>1, <3>2 DEF InstallRecords
  <2>2. QED
    BY <1>2, <2>1 DEF Moves, Same
<1>3. ASSUME CancelCalled PROVE Kinds
  <2>1. abort \in Installs
    <3>1. abort # NoTransfer
      BY <1>3 DEF CancelCalled
    <3>2. QED
      BY <1>0, <3>1 DEF CallTypes
  <2>2. CASE At(abort, "transfer")
    <3>1. /\ TransferStops(abort)
          /\ install' = [install EXCEPT ![abort].aborted = TRUE, ![abort].step = "remove"]
      BY <1>3, <2>2 DEF CancelCalled
    <3>2. /\ \A j \in Installs \ {abort} : install'[j] = install[j]
          /\ install'[abort].model = install[abort].model /\ install'[abort].step = "remove"
      BY <1>0, <2>1, <3>1 DEF CallTypes, InstallRecords
    <3>3. InstallRuns(abort)
      BY <2>2 DEF At, InstallRuns, InstallEnds
    <3>4. Stops(abort)
      BY <2>1, <2>2, <3>1, <3>2, <3>3 DEF Stops, Moves, Same
    <3>5. QED
      BY <2>1, <3>4
  <2>3. CASE ~At(abort, "transfer")
    <3>1. install' = [install EXCEPT ![abort].aborted = TRUE] /\ UNCHANGED fileVars
      BY <1>3, <2>3 DEF CancelCalled
    <3>2. \A j \in Installs : Same(j)
      BY <1>0, <2>1, <3>1 DEF CallTypes, InstallRecords, Same
    <3>3. QED
      BY <3>1, <3>2
  <2>4. QED
    BY <2>2, <2>3
<1>4. ASSUME SchedulerProceeds, UNCHANGED fileVars PROVE Kinds
  <2>1. CASE ~Disposed
    <3>1. UNCHANGED install
      BY <1>4, <2>1 DEF SchedulerProceeds, OperationBegins, Unloaded, ModelLoaded,
         LoadFails, PromptEnds, Generates, callVars
    <3>2. QED
      BY <1>1, <1>4, <3>1
  <2>2. CASE Disposed
    <3>1. CASE UNCHANGED install
      BY <1>1, <1>4, <3>1
    <3>2. ASSUME NEW i \in Installs,
                 \/ At(i, "dispose") /\ Goto(i, "unlink")
                 \/ At(i, "final") /\ Over(i, "complete")
          PROVE  Kinds
      <4>1. loaded' = NoModel
        BY <2>2 DEF Disposed, ModelBase, PhasesFit
      <4>2. InstallRuns(i) /\ ~At(i, "transfer") /\ ~At(i, "remove")
        BY <3>2 DEF At, InstallRuns, InstallEnds
      <4>3. Moves(i)
        BY <1>2, <3>2, <4>1, <4>2 DEF InstallSteps, InstallEnds
      <4>4. QED
        BY <1>4, <4>2, <4>3 DEF MovesWithoutFile
    <3>3. QED
      BY <2>2, <3>1, <3>2, DisposedKinds
  <2>3. QED
    BY <2>1, <2>2
<1>5. ASSUME NEW i \in Installs, InstallProceeds(i) PROVE Kinds
  <2>1. CASE RuntimeChecked(i)
    <3>1. /\ InstallRuns(i) /\ ~At(i, "transfer") /\ ~At(i, "remove") /\ UNCHANGED fileVars
      BY <2>1 DEF RuntimeChecked, At, InstallRuns, InstallEnds
    <3>2. \E step \in {"dispose", "status", "cancelled", "failed"} : Goto(i, step) \/ Over(i, step)
      BY <2>1 DEF RuntimeChecked
    <3>3. Moves(i)
      BY <1>2, <3>1, <3>2 DEF InstallSteps, InstallEnds
    <3>4. QED
      BY <3>1, <3>3 DEF MovesWithoutFile
  <2>2. CASE OldModelRemoved(i) \/ CancelledModelRemoved(i)
    <3>1. /\ InstallRuns(i) /\ ~At(i, "transfer")
          /\ Removed(install[i].model) /\ UNCHANGED transfer
      BY <2>2 DEF OldModelRemoved, CancelledModelRemoved, At, InstallRuns, InstallEnds
    <3>2. Goto(i, "status") \/ Over(i, "cancelled")
      BY <2>2 DEF OldModelRemoved, CancelledModelRemoved
    <3>3. Moves(i)
      BY <1>2, <3>1, <3>2 DEF InstallSteps, InstallEnds
    <3>4. QED
      BY <3>1, <3>3 DEF Removes
  <2>3. CASE StatusRead(i)
    <3>1. InstallRuns(i) /\ At(i, "status") /\ ~At(i, "transfer") /\ ~At(i, "remove")
      BY <2>3 DEF StatusRead, At, InstallRuns, InstallEnds
    <3>2. CASE /\ ~IsReady(install[i].model) /\ Goto(i, "transfer")
               /\ TransferStarts(i, install[i].model)
      BY <1>2, <2>3, <3>1, <3>2 DEF StatusRead, Starts, InstallSteps
    <3>3. CASE UNCHANGED transfer /\ (Goto(i, "remove") \/ Goto(i, "verify"))
      BY <1>2, <2>3, <3>1, <3>3 DEF StatusRead, MovesWithoutFile, InstallSteps, fileVars
    <3>4. QED
      BY <2>3, <3>2, <3>3 DEF StatusRead
  <2>4. CASE ModelDownloaded(i)
    <3>1. InstallRuns(i) /\ At(i, "transfer") /\ TransferEnds(i) /\ Goto(i, "verify")
      BY <2>4 DEF ModelDownloaded, At, InstallRuns, InstallEnds
    <3>2. QED
      BY <1>2, <3>1 DEF Ends, InstallSteps
  <2>5. CASE ModelNotDownloaded(i)
    <3>1. InstallRuns(i) /\ At(i, "transfer") /\ TransferStops(i)
      BY <2>5 DEF ModelNotDownloaded, At, InstallRuns, InstallEnds
    <3>2. Goto(i, "remove") \/ Over(i, "failed")
      BY <2>5 DEF ModelNotDownloaded, Leave
    <3>3. QED
      BY <1>2, <3>1, <3>2 DEF Stops, InstallSteps, InstallEnds
  <2>6. CASE ModelVerified(i) \/ SettingsStored(i)
    <3>1. /\ InstallRuns(i) /\ ~At(i, "transfer") /\ ~At(i, "remove") /\ UNCHANGED fileVars
      BY <2>6 DEF ModelVerified, SettingsStored, At, InstallRuns, InstallEnds
    <3>2. Goto(i, "settings") \/ Goto(i, "final") \/ Goto(i, "remove") \/ Over(i, "failed")
      BY <2>6 DEF ModelVerified, SettingsStored, Leave
    <3>3. Moves(i)
      BY <1>2, <3>1, <3>2 DEF InstallSteps, InstallEnds
    <3>4. QED
      BY <3>1, <3>3 DEF MovesWithoutFile
  <2>7. CASE SettingsRead(i)
    <3>1. /\ InstallRuns(i) /\ ~At(i, "transfer") /\ ~At(i, "remove") /\ UNCHANGED fileVars
      BY <2>7 DEF SettingsRead, At, InstallRuns, InstallEnds
    <3>2. /\ \A j \in Installs \ {i} : install'[j] = install[j]
          /\ install'[i].model = install[i].model /\ install'[i].step = "store"
      BY <1>0, <2>7 DEF SettingsRead, CallTypes, InstallRecords
    <3>3. QED
      BY <3>1, <3>2 DEF MovesWithoutFile, Moves, Same
  <2>8. QED
    BY <1>5, <2>1, <2>2, <2>3, <2>4, <2>5, <2>6, <2>7 DEF InstallProceeds
<1>6. ASSUME \/ \E c \in Contexts : SaveCalled(c)
             \/ \E g \in Generations, m \in Models : GenerationCalled(g, m) /\ UNCHANGED fileVars
             \/ SaveProceeds
             \/ \E g \in Generations : (StateRead(g) \/ PathResolved(g)) /\ UNCHANGED fileVars
      PROVE  Kinds
  <2>1. UNCHANGED install /\ UNCHANGED fileVars
    BY <1>6 DEF SaveCalled, GenerationCalled, SaveProceeds, SaveReads, SaveWrites, StateRead,
       PathResolved
  <2>2. QED
    BY <1>1, <2>1
<1>7. QED
  BY <1>3, <1>4, <1>5, <1>6 DEF ModelStep, ModelProceeds, TransferProceeds

\* A transfer belongs to the installation that awaits it.
ModelTransfers ==
    \A i \in Installs :
        Transferring(i) => At(i, "transfer") /\ transfer[i].path = install[i].model

\* What a step of the model leaves alone.
UpdateFilesStay ==
    /\ \A v \in Versions : file'[v] = file[v]
    /\ \A d \in UpdateCalls : transfer'[d] = transfer[d]

\* A file that is there was there before, of the same opener, or is opened by an
\* installation under way.
OpenersLast ==
    \A m \in Models :
        \/ file'[m].content = "none" /\ file'[m].opener = NoTransfer
        \/ file[m].content # "none" /\ file'[m].opener = file[m].opener
        \/ \E i \in Installs : file'[m].opener = i /\ install'[i].step = "transfer"

(* One transfer of an installation touches its model only. *)
LEMMA OnlyOfAnInstallation ==
    ASSUME NEW i \in Installs, NEW m \in Models, OnlyOf(i, m)
    PROVE  /\ UpdateFilesStay
           /\ \A j \in Installs \ {i} : transfer'[j] = transfer[j]
           /\ \A q \in Models \ {m} : file'[q] = file[q]
BY Numbers DEF OnlyOf, UpdateFilesStay

(* A model that is there has an opener, before and after a change of one file. *)
LEMMA OneModelChanges ==
    ASSUME ModelFilesAreOpened, NEW m \in Models,
           \A q \in Models \ {m} : file'[q] = file[q],
           \/ file'[m] \in {NoFile, file[m]}
           \/ /\ file[m].content # "none" /\ file'[m].content # "none"
              /\ file'[m].opener = file[m].opener
           \/ /\ file'[m].content # "none"
              /\ \E i \in Installs : file'[m].opener = i /\ install'[i].step = "transfer"
    PROVE  ModelFilesAreOpened' /\ OpenersLast
<1> DEFINE Opened(q) ==
        \/ file'[q] = NoFile
        \/ file'[q].content # "none" /\ file'[q].opener \in Installs
<1> DEFINE Lasts(q) ==
        \/ file'[q].content = "none" /\ file'[q].opener = NoTransfer
        \/ file[q].content # "none" /\ file'[q].opener = file[q].opener
        \/ \E i \in Installs : file'[q].opener = i /\ install'[i].step = "transfer"
<1>1. NoFile.content = "none" /\ NoFile.opener = NoTransfer
  BY DEF NoFile
<1>2. ASSUME NEW q \in Models, file'[q] = file[q] PROVE Opened(q) /\ Lasts(q)
  BY <1>1, <1>2 DEF ModelFilesAreOpened
<1>3. CASE file'[m] \in {NoFile, file[m]}
  <2>1. Opened(m) /\ Lasts(m)
    BY <1>1, <1>2, <1>3
  <2>2. QED
    BY <1>2, <2>1 DEF ModelFilesAreOpened, OpenersLast
<1>4. CASE /\ file[m].content # "none" /\ file'[m].content # "none"
           /\ file'[m].opener = file[m].opener
  <2>1. Opened(m) /\ Lasts(m)
    BY <1>1, <1>4 DEF ModelFilesAreOpened
  <2>2. QED
    BY <1>2, <2>1 DEF ModelFilesAreOpened, OpenersLast
<1>5. CASE /\ file'[m].content # "none"
           /\ \E i \in Installs : file'[m].opener = i /\ install'[i].step = "transfer"
  <2>1. Opened(m) /\ Lasts(m)
    BY <1>5
  <2>2. QED
    BY <1>2, <2>1 DEF ModelFilesAreOpened, OpenersLast
<1>6. QED
  BY <1>3, <1>4, <1>5

(* The files and transfers after a step of the model. *)
LEMMA ModelFilesAreKept ==
    ASSUME ModelBase, ModelTransfers, ModelStep
    PROVE  /\ FilesTypeOK'
           /\ ModelTransfers'
           /\ ModelFilesAreOpened'
           /\ UpdateFilesStay
           /\ OpenersLast
<1> DEFINE Kept == /\ FilesTypeOK' /\ ModelTransfers' /\ ModelFilesAreOpened'
                   /\ UpdateFilesStay /\ OpenersLast
<1> SUFFICES Kept
  OBVIOUS
<1>0. FilesTypeOK /\ CallTypes /\ ModelFilesAreOpened
  BY DEF ModelBase
<1>1. ASSUME UNCHANGED fileVars,
             \A i \in Installs : At(i, "transfer") => Same(i)
      PROVE  Kept
  <2>1. file' = file /\ transfer' = transfer
    BY <1>1 DEF fileVars
  <2>2. FilesTypeOK' /\ ModelFilesAreOpened' /\ UpdateFilesStay
    BY <1>0, <2>1 DEF FilesTypeOK, ModelFilesAreOpened, UpdateFilesStay
  <2>3. ModelTransfers'
    BY <1>1, <2>1 DEF ModelTransfers, Transferring, Same, At
  <2>4. OpenersLast
    BY <1>0, <2>1, NoFileIsOne DEF OpenersLast, ModelFilesAreOpened, NoFile
  <2>5. QED
    BY <2>2, <2>3, <2>4
<1>2. ASSUME NEW i \in Installs, Removes(i) PROVE Kept
  <2> DEFINE m == install[i].model
  <2>1. m \in Models /\ m \in Paths
    BY <1>0, Numbers DEF CallTypes, InstallRecords
  <2>2. /\ FilesTypeOK' /\ file'[m] \in {file[m], NoFile}
        /\ \A p \in Paths \ {m} : file'[p] = file[p]
        /\ transfer' = transfer
    BY <1>0, <1>2, <2>1, UnlinkKeepsFiles DEF Removes
  <2>3. UpdateFilesStay
    BY <2>1, <2>2, Numbers DEF UpdateFilesStay
  <2>4. ModelFilesAreOpened' /\ OpenersLast
    <3>1. \A n \in Models : file'[n] = file[n] \/ file'[n] = NoFile
      BY <2>1, <2>2, Numbers
    <3>2. QED
      BY <1>0, <3>1, NoFileIsOne DEF ModelFilesAreOpened, OpenersLast, NoFile
  <2>5. ModelTransfers'
    BY <1>2, <2>2 DEF ModelTransfers, Transferring, At, Removes, Moves, Same
  <2>6. QED
    BY <2>2, <2>3, <2>4, <2>5
<1>3. ASSUME NEW i \in Installs, Starts(i) PROVE Kept
  <2> DEFINE m == install[i].model
  <2>1. m \in Models /\ m \in Paths /\ i \in Transfers
    BY <1>0, Numbers DEF CallTypes, InstallRecords
  <2>2. ~Transferring(i)
    BY <1>3 DEF ModelTransfers, Starts, At
  <2>3. /\ FilesTypeOK' /\ OnlyOf(i, m) /\ file' = file
        /\ transfer'[i] = [progress |-> "requested", path |-> m]
    BY <1>0, <1>3, <2>1, <2>2, StartKeepsFiles DEF Starts
  <2>4. UpdateFilesStay /\ \A j \in Installs \ {i} : transfer'[j] = transfer[j]
    BY <2>1, <2>3, OnlyOfAnInstallation
  <2>5. ModelFilesAreOpened' /\ OpenersLast
    BY <1>0, <2>1, <2>3, OneModelChanges
  <2>6. ModelTransfers'
    BY <1>3, <2>3, <2>4 DEF ModelTransfers, Transferring, At, Starts, Moves, Same
  <2>7. QED
    BY <2>3, <2>4, <2>5, <2>6
<1>4. ASSUME NEW i \in Installs, Ends(i) \/ Stops(i) PROVE Kept
  <2> DEFINE m == install[i].model
  <2>1. m \in Models /\ m \in Paths /\ i \in Transfers
    BY <1>0, Numbers DEF CallTypes, InstallRecords
  <2>2. Transferring(i) /\ transfer[i].path = m
    BY <1>4 DEF ModelTransfers, Ends, Stops, TransferEnds, TransferStops, Transferring
  <2>3. /\ FilesTypeOK' /\ OnlyOf(i, m) /\ ~Transferring(i)'
        /\ file'[m].opener = file[m].opener
        /\ file'[m].content = "none" <=> file[m].content = "none"
        /\ file[m] = NoFile => file'[m] = NoFile
    <3>1. file[m] \in Files
      BY <1>0, <2>1, FilesTypes
    <3>2. CASE TransferEnds(i)
      <4> DEFINE g == Written(i, "complete")
      <4>1. /\ FilesTypeOK' /\ OnlyOf(i, m) /\ ~Transferring(i)'
            /\ file'[m] = [g EXCEPT !.writers = file[m].writers \ {i}]
        BY <1>0, <2>1, <2>2, <3>2, EndKeepsFiles
      <4>2. /\ g \in Files /\ g.opener = file[m].opener
            /\ g.writers = file[m].writers
            /\ i \notin file[m].writers => g = file[m]
            /\ i \in file[m].writers => g.content # "none"
        BY <1>0, <2>1, <2>2, WrittenIsAFile DEF Contents
      <4>3. /\ file'[m].content = g.content /\ file'[m].opener = g.opener
            /\ i \notin file[m].writers => file'[m] = file[m]
        <5> HIDE DEF g, m
        <5>1. file'[m].content = g.content /\ file'[m].opener = g.opener
          BY <4>1, <4>2 DEF Files
        <5>2. ASSUME i \notin file[m].writers PROVE file'[m] = file[m]
          <6>1. file[m].writers \ {i} = file[m].writers
            BY <5>2
          <6>2. QED
            BY <3>1, <4>1, <4>2, <5>2, <6>1 DEF Files
        <5>3. QED
          BY <5>1, <5>2
      <4>4. i \in file[m].writers => file[m].content # "none"
        BY <1>0, <2>1, NoFileIsOne DEF ModelFilesAreOpened
      <4>5. QED
        BY <4>1, <4>2, <4>3, <4>4, NoFileIsOne
    <3>3. CASE TransferStops(i)
      <4>1. /\ FilesTypeOK' /\ OnlyOf(i, m) /\ ~Transferring(i)'
            /\ file'[m] \in Files
            /\ file'[m].content = file[m].content /\ file'[m].opener = file[m].opener
            /\ file'[m].writers = file[m].writers \ {i}
        BY <1>0, <2>1, <2>2, <3>3, StopKeepsFiles
      <4>2. ASSUME file[m] = NoFile PROVE file'[m] = NoFile
        <5>1. file'[m].writers = {}
          BY <4>1, <4>2, NoFileIsOne
        <5>2. QED
          BY <4>1, <4>2, <5>1 DEF Files, NoFile
      <4>3. QED
        BY <4>1, <4>2
    <3>4. QED
      BY <1>4, <3>2, <3>3 DEF Ends, Stops
  <2>4. /\ UpdateFilesStay /\ \A j \in Installs \ {i} : transfer'[j] = transfer[j]
        /\ \A q \in Models \ {m} : file'[q] = file[q]
    BY <2>1, <2>3, OnlyOfAnInstallation
  <2>5. ModelFilesAreOpened' /\ OpenersLast
    <3>1. \/ file'[m] = NoFile
          \/ /\ file[m].content # "none" /\ file'[m].content # "none"
             /\ file'[m].opener = file[m].opener
      BY <1>0, <2>1, <2>3, NoFileIsOne DEF ModelFilesAreOpened
    <3>2. QED
      BY <1>0, <2>1, <2>4, <3>1, OneModelChanges
  <2>6. ModelTransfers'
    BY <1>4, <2>3, <2>4 DEF ModelTransfers, Transferring, At, Ends, Stops, Moves, Same
  <2>7. QED
    BY <2>3, <2>4, <2>5, <2>6
<1>5. ASSUME NEW i \in Installs, TransferOpens(i), UNCHANGED modelVars PROVE Kept
  <2> DEFINE m == install[i].model
  <2>1. m \in Models /\ m \in Paths /\ i \in Transfers
    BY <1>0, Numbers DEF CallTypes, InstallRecords
  <2>2. Transferring(i) /\ transfer[i].path = m /\ At(i, "transfer")
    BY <1>5 DEF ModelTransfers, TransferOpens, Transferring
  <2>3. /\ FilesTypeOK' /\ OnlyOf(i, m)
        /\ transfer'[i] = [progress |-> "short", path |-> m]
        /\ file'[m].content = "short" /\ file'[m].opener = i
    BY <1>0, <1>5, <2>1, <2>2, OpenKeepsFiles
  <2>4. /\ UpdateFilesStay /\ \A j \in Installs \ {i} : transfer'[j] = transfer[j]
        /\ \A q \in Models \ {m} : file'[q] = file[q]
    BY <2>1, <2>3, OnlyOfAnInstallation
  <2>5. install' = install
    BY <1>5 DEF modelVars, callVars
  <2>6. ModelFilesAreOpened' /\ OpenersLast
    <3>1. file'[m].content # "none" /\ install'[i].step = "transfer"
      BY <2>2, <2>3, <2>5 DEF At
    <3>2. QED
      BY <1>0, <2>1, <2>3, <2>4, <3>1, OneModelChanges
  <2>7. ModelTransfers'
    BY <2>2, <2>3, <2>4, <2>5 DEF ModelTransfers, Transferring, At
  <2>8. QED
    BY <2>3, <2>4, <2>6, <2>7
<1>6. ASSUME NEW i \in Installs, TransferGrows(i), UNCHANGED modelVars PROVE Kept
  <2> DEFINE m == install[i].model
  <2> DEFINE g == Written(i, "long")
  <2>1. m \in Models /\ m \in Paths /\ i \in Transfers
    BY <1>0, Numbers DEF CallTypes, InstallRecords
  <2>2. Transferring(i) /\ transfer[i].path = m /\ At(i, "transfer")
    BY <1>6 DEF ModelTransfers, TransferGrows, Transferring
  <2>3. /\ FilesTypeOK' /\ OnlyOf(i, m)
        /\ transfer'[i] = [progress |-> "long", path |-> m]
        /\ file'[m] = g
    BY <1>0, <1>6, <2>1, <2>2, GrowthKeepsFiles
  <2>4. /\ g.opener = file[m].opener
        /\ i \notin file[m].writers => g = file[m]
        /\ i \in file[m].writers => g.content # "none"
    BY <1>0, <2>1, <2>2, WrittenIsAFile DEF Contents
  <2>5. i \in file[m].writers => file[m].content # "none"
    BY <1>0, <2>1, NoFileIsOne DEF ModelFilesAreOpened
  <2>6. /\ UpdateFilesStay /\ \A j \in Installs \ {i} : transfer'[j] = transfer[j]
        /\ \A q \in Models \ {m} : file'[q] = file[q]
    BY <2>1, <2>3, OnlyOfAnInstallation
  <2>7. install' = install
    BY <1>6 DEF modelVars, callVars
  <2>8. ModelFilesAreOpened' /\ OpenersLast
    <3> HIDE DEF g
    <3>1. \/ file'[m] = file[m]
          \/ /\ file[m].content # "none" /\ file'[m].content # "none"
             /\ file'[m].opener = file[m].opener
      BY <2>3, <2>4, <2>5
    <3>2. QED
      BY <1>0, <2>1, <2>6, <3>1, OneModelChanges
  <2>9. ModelTransfers'
    BY <2>2, <2>3, <2>6, <2>7 DEF ModelTransfers, Transferring, At
  <2>10. QED
    BY <2>3, <2>6, <2>8, <2>9
<1>7. ASSUME NEW i \in Installs, NEW m \in Models, NEW force \in BOOLEAN,
             InstallCalled(i, m, force)
      PROVE  Kept
  <2>1. UNCHANGED fileVars /\ At(i, "none")
    BY <1>7, Numbers DEF InstallCalled
  <2>2. \A j \in Installs \ {i} : install'[j] = install[j]
    BY <1>0, <1>7 DEF InstallCalled, CallTypes
  <2>3. QED
    BY <1>1, <2>1, <2>2 DEF Same, At
<1>8. ASSUME NEW i \in Installs, MovesWithoutFile(i) PROVE Kept
  BY <1>1, <1>8 DEF MovesWithoutFile, Moves
<1>9. QED
  BY <1>1, <1>2, <1>3, <1>4, <1>5, <1>6, <1>7, <1>8, StepsOfTheInstallations

-------------------------------------------------------------------------------
(* The order of the installations, and what is in memory of them. *)

\* The calls are numbered in their order; and as long as the panel is not opened
\* twice, one is made when the last is over.
InstallsAreNumbered ==
    /\ \A i, j \in Installs : j > i /\ At(i, "none") => At(j, "none")
    /\ "reopen" \notin scenario.faults =>
          \A i, j \in Installs : j > i /\ InstallRuns(i) => At(j, "none")

\* A model in memory is not older than a complete installation that provides it.
LoadedIsCurrent ==
    \A i \in Installs, m \in Models :
        Provides(i, m) /\ loaded # NoModel /\ loaded.model = m => loaded.origin >= i

\* What a generation waits for: neither the model in memory nor the one on disk is
\* older than the installation it has found.
SinceLasts ==
    \A g \in Generations :
        generation[g].step = "scheduled" =>
            LET since == generation[g].since
                m == generation[g].model
            IN  /\ since # NoTransfer => ~At(since, "none")
                /\ "reopen" \notin scenario.faults =>
                      /\ loaded # NoModel /\ loaded.model = m => loaded.origin >= since
                      /\ file[m].content # "none" => file[m].opener >= since

(* The order of the installations is kept. *)
LEMMA NumberingIsKept ==
    ASSUME ModelBase, InstallsAreNumbered, ModelStep, UNCHANGED scenario
    PROVE  InstallsAreNumbered'
<1>0. CallTypes
  BY DEF ModelBase
<1>1. ASSUME \A i \in Installs : /\ At(i, "none")' <=> At(i, "none")
                                 /\ InstallRuns(i)' => InstallRuns(i)
      PROVE  InstallsAreNumbered'
  BY <1>1 DEF InstallsAreNumbered
<1>2. ASSUME \A i \in Installs : Same(i) PROVE InstallsAreNumbered'
  BY <1>1, <1>2 DEF Same, At, InstallRuns
<1>3. ASSUME NEW i \in Installs, Moves(i) PROVE InstallsAreNumbered'
  BY <1>1, <1>3 DEF Moves, Same, At, InstallRuns
<1>4. ASSUME NEW i \in Installs, NEW m \in Models, NEW force \in BOOLEAN,
             InstallCalled(i, m, force)
      PROVE  InstallsAreNumbered'
  <2>1. /\ \A j \in Installs : At(j, "none") <=> j >= i
        /\ "reopen" \notin scenario.faults => \A j \in Installs : ~InstallRuns(j)
    BY <1>4 DEF InstallCalled, PanelIsFree
  <2>2. /\ install'[i].step = "runtime"
        /\ \A j \in Installs \ {i} : install'[j] = install[j]
    BY <1>0, <1>4 DEF InstallCalled, CallTypes, InstallRecords
  <2>3. \A j \in Installs : At(j, "none")' <=> j > i
    BY <2>1, <2>2, Numbers DEF At
  <2>4. \A j \in Installs \ {i} : InstallRuns(j)' <=> InstallRuns(j)
    BY <2>2 DEF InstallRuns
  <2>5. QED
    BY <2>1, <2>3, <2>4, Numbers DEF InstallsAreNumbered
<1>5. QED
  BY <1>2, <1>3, <1>4, StepsOfTheInstallations
  DEF MovesWithoutFile, Removes, Starts, Ends, Stops, modelVars, callVars, Same

(* A call that was made stays made, and it is complete since its own step. *)
LEMMA CallsGoOn ==
    ASSUME ModelBase, ModelStep, NEW i \in Installs
    PROVE  /\ ~At(i, "none") => ~At(i, "none")'
           /\ At(i, "complete")' => At(i, "complete") \/ loaded' = NoModel
           /\ install[i].step \in InstallEnds => Same(i)
<1>0. CallTypes
  BY DEF ModelBase
<1>1. ASSUME NEW j \in Installs, Moves(j)
      PROVE  /\ ~At(i, "none") => ~At(i, "none")'
             /\ At(i, "complete")' => At(i, "complete") \/ loaded' = NoModel
             /\ install[i].step \in InstallEnds => Same(i)
  BY <1>1 DEF Moves, Same, At, InstallRuns
<1>2. ASSUME NEW j \in Installs, NEW m \in Models, NEW force \in BOOLEAN,
             InstallCalled(j, m, force)
      PROVE  /\ ~At(i, "none") => ~At(i, "none")'
             /\ At(i, "complete")' => At(i, "complete") \/ loaded' = NoModel
             /\ install[i].step \in InstallEnds => Same(i)
  <2>1. At(j, "none")
    BY <1>2, Numbers DEF InstallCalled
  <2>2. install'[j].step = "runtime" /\ \A k \in Installs \ {j} : install'[k] = install[k]
    BY <1>0, <1>2 DEF InstallCalled, CallTypes, InstallRecords
  <2>3. QED
    BY <2>1, <2>2 DEF At, Same, InstallEnds
<1>3. CASE Same(i)
  BY <1>3 DEF Same, At
<1>4. QED
  BY <1>1, <1>2, <1>3, StepsOfTheInstallations
  DEF MovesWithoutFile, Removes, Starts, Ends, Stops, modelVars, callVars, Same

(* How the model in memory changes. *)
LEMMA LoadedChanges ==
    ASSUME ModelBase, ModelStep
    PROVE  \/ loaded' \in {loaded, NoModel}
           \/ /\ UNCHANGED fileVars /\ UNCHANGED callVars
              /\ \E g \in Generations :
                    /\ IsReady(generation[g].model)
                    /\ loaded' = [model |-> generation[g].model,
                                  context |-> generation[g].context,
                                  origin |-> file[generation[g].model].opener]
<1>1. CASE ModelLoaded /\ UNCHANGED fileVars
  BY <1>1, ActiveIsForACall DEF ModelLoaded
<1>2. CASE OperationBegins
  BY <1>2 DEF OperationBegins, Begins
<1>3. CASE UNCHANGED schedulerVars \/ Chained \/ Unloaded \/ Finishes
  BY <1>3 DEF schedulerVars, Chained, Enqueue, Unloaded, Finishes
<1>4. QED
  BY <1>1, <1>2, <1>3, StepsOfTheScheduler

(* The model in memory stays no older than what a complete installation provides. *)
LEMMA LoadedStaysCurrent ==
    ASSUME ModelBase, ModelTransfers, LoadedIsCurrent, ModelStep
    PROVE  LoadedIsCurrent'
<1>0. CallTypes /\ SchedulerTypes
  BY DEF ModelBase
<1> SUFFICES ASSUME NEW i \in Installs, NEW m \in Models,
                    install'[i].step = "complete", file'[m].opener = i,
                    loaded' # NoModel, loaded'.model = m
             PROVE  loaded'.origin >= i
  BY DEF LoadedIsCurrent, Provides, At
<1>1. At(i, "complete")
  BY CallsGoOn DEF At
<1>2. file[m].opener = i
  BY ModelFilesAreKept, Numbers DEF OpenersLast
<1>3. CASE loaded' = loaded
  BY <1>1, <1>2, <1>3 DEF LoadedIsCurrent, Provides
<1>4. CASE \E g \in Generations :
              loaded' = [model |-> generation[g].model,
                         context |-> generation[g].context,
                         origin |-> file[generation[g].model].opener]
  BY <1>2, <1>4, Numbers
<1>5. QED
  BY <1>3, <1>4, LoadedChanges

(* Where a generation comes to wait. *)
LEMMA WhoIsScheduled ==
    ASSUME ModelBase, ModelStep, NEW g \in Generations, generation'[g].step = "scheduled"
    PROVE  \/ generation'[g] = generation[g]
           \/ /\ UNCHANGED fileVars
              /\ UNCHANGED <<install, loaded>>
              /\ generation'[g].model = generation[g].model
              /\ IsReady(generation[g].model)
              /\ generation'[g].since =
                    IF \E i \in Installs : Provides(i, generation[g].model)
                    THEN file[generation[g].model].opener ELSE NoTransfer
<1>0. CallTypes
  BY DEF ModelBase
<1>1. CASE UNCHANGED generation
  BY <1>1
<1>2. ASSUME NEW h \in Generations, PathResolved(h), UNCHANGED fileVars
      PROVE  \/ generation'[g] = generation[g]
             \/ /\ UNCHANGED fileVars
                /\ UNCHANGED <<install, loaded>>
                /\ generation'[g].model = generation[g].model
                /\ IsReady(generation[g].model)
                /\ generation'[g].since =
                      IF \E i \in Installs : Provides(i, generation[g].model)
                      THEN file[generation[g].model].opener ELSE NoTransfer
  <2>1. CASE g # h
    BY <1>0, <1>2, <2>1 DEF PathResolved, GenerationFails, CallTypes
  <2>2. CASE g = h
    <3>1. IsReady(generation[g].model) /\ Enqueue(<<"generate", g>>)
          /\ generation' =
                 [generation EXCEPT
                        ![g].step = "scheduled",
                        ![g].since = IF \E i \in Installs : Provides(i, generation[g].model)
                                     THEN file[generation[g].model].opener ELSE NoTransfer]
      <4>1. CASE IsReady(generation[g].model)
        BY <1>2, <2>2, <4>1 DEF PathResolved
      <4>2. CASE ~IsReady(generation[g].model)
        <5>1. generation'[g].step = "failed"
          BY <1>0, <1>2, <2>2, <4>2 DEF PathResolved, GenerationFails, CallTypes,
             GenerationRecords
        <5>2. QED
          BY <5>1
      <4>3. QED
        BY <4>1, <4>2
    <3>2. UNCHANGED install /\ UNCHANGED loaded
      BY <1>2, <3>1 DEF PathResolved, Enqueue
    <3>3. QED
      BY <1>0, <1>2, <3>1, <3>2 DEF CallTypes, GenerationRecords
  <2>3. QED
    BY <2>1, <2>2
<1>3. ASSUME NEW h \in Generations, StateRead(h) PROVE generation'[g] = generation[g]
  BY <1>0, <1>3 DEF StateRead, GenerationFails, CallTypes, GenerationRecords
<1>4. ASSUME NEW h \in Generations, NEW m \in Models, GenerationCalled(h, m)
      PROVE  generation'[g] = generation[g]
  BY <1>0, <1>4 DEF GenerationCalled, CallTypes, GenerationRecords
<1>5. ASSUME LoadFails \/ PromptEnds PROVE generation'[g] = generation[g]
  <2>1. PICK outcome \in {"generated", "failed"} : Generates(outcome)
    BY <1>5 DEF LoadFails, PromptEnds
  <2>2. generation' = [generation EXCEPT ![active[2]].step = outcome]
    BY <2>1 DEF Generates
  <2>3. QED
    BY <1>0, <2>2 DEF CallTypes, GenerationRecords
<1>6. ASSUME \/ \E i \in Installs, m \in Models, force \in BOOLEAN : InstallCalled(i, m, force)
             \/ CancelCalled
             \/ \E c \in Contexts : SaveCalled(c)
             \/ SaveProceeds
             \/ \E i \in Installs : InstallProceeds(i)
             \/ UNCHANGED modelVars
      PROVE  UNCHANGED generation
  BY <1>6 DEF InstallCalled, CancelCalled, SaveCalled, SaveProceeds, SaveReads, SaveWrites,
     InstallProceeds, RuntimeChecked, OldModelRemoved, StatusRead, ModelDownloaded,
     ModelNotDownloaded, ModelVerified, SettingsRead, SettingsStored, CancelledModelRemoved,
     modelVars, callVars
<1>7. ASSUME OperationBegins \/ Unloaded \/ ModelLoaded \/ Disposed PROVE UNCHANGED generation
  BY <1>7 DEF OperationBegins, Unloaded, ModelLoaded, Disposed, callVars
<1>8. QED
  BY <1>1, <1>2, <1>3, <1>4, <1>5, <1>6, <1>7 DEF ModelStep, ModelProceeds, SchedulerProceeds

(* What is found stays no older than what was provided. *)
LEMMA SinceIsKept ==
    ASSUME ModelBase, ModelTransfers, InstallsAreNumbered, LoadedIsCurrent, SinceLasts,
           ModelStep, UNCHANGED scenario
    PROVE  SinceLasts'
<1>0. CallTypes /\ SchedulerTypes /\ ModelFilesAreOpened /\ CallTypes'
  BY CallsKeepTypes DEF ModelBase
<1>1. InstallsAreNumbered' /\ OpenersLast
  BY NumberingIsKept, ModelFilesAreKept
<1> SUFFICES ASSUME NEW g \in Generations, generation'[g].step = "scheduled",
                    NEW since, since = generation'[g].since,
                    NEW m, m = generation'[g].model
             PROVE  /\ since # NoTransfer => install'[since].step # "none"
                    /\ "reopen" \notin scenario.faults =>
                          /\ loaded' # NoModel /\ loaded'.model = m => loaded'.origin >= since
                          /\ file'[m].content # "none" => file'[m].opener >= since
  BY DEF SinceLasts, At
<1>2. since \in Installs \cup {NoTransfer} /\ m \in Models
  BY <1>0 DEF CallTypes, GenerationRecords
<1>3. CASE generation'[g] = generation[g]
  <2>1. /\ since # NoTransfer => install[since].step # "none"
        /\ "reopen" \notin scenario.faults =>
              /\ loaded # NoModel /\ loaded.model = m => loaded.origin >= since
              /\ file[m].content # "none" => file[m].opener >= since
    BY <1>3 DEF SinceLasts, At
  <2>2. since # NoTransfer => install'[since].step # "none"
    BY <1>2, <2>1, CallsGoOn DEF At
  <2>3. ASSUME "reopen" \notin scenario.faults, loaded' # NoModel, loaded'.model = m
        PROVE  loaded'.origin >= since
    <3>1. CASE loaded' = loaded
      BY <2>1, <2>3, <3>1
    <3>2. CASE \E h \in Generations :
                  /\ IsReady(generation[h].model)
                  /\ loaded' = [model |-> generation[h].model,
                                context |-> generation[h].context,
                                origin |-> file[generation[h].model].opener]
      <4>1. IsReady(m) /\ loaded'.origin = file[m].opener
        BY <2>3, <3>2
      <4>2. QED
        BY <2>1, <2>3, <4>1 DEF IsReady
    <3>3. QED
      BY <2>3, <3>1, <3>2, LoadedChanges
  <2>4. ASSUME "reopen" \notin scenario.faults, file'[m].content # "none"
        PROVE  file'[m].opener >= since
    <3>1. CASE file[m].content # "none" /\ file'[m].opener = file[m].opener
      BY <2>1, <2>4, <3>1
    <3>2. ASSUME NEW i \in Installs, file'[m].opener = i, install'[i].step = "transfer"
          PROVE  i >= since
      <4>1. InstallRuns(i)'
        BY <3>2 DEF InstallRuns, InstallEnds
      <4>2. \A j \in Installs : j > i => install'[j].step = "none"
        BY <1>1, <2>4, <4>1 DEF InstallsAreNumbered, At
      <4>3. QED
        BY <1>2, <2>2, <4>2, Numbers
    <3>3. QED
      BY <1>1, <1>2, <2>4, <3>1, <3>2 DEF OpenersLast
  <2>5. QED
    BY <2>2, <2>3, <2>4
<1>4. CASE /\ UNCHANGED fileVars
           /\ UNCHANGED <<install, loaded>>
           /\ generation'[g].model = generation[g].model
           /\ IsReady(generation[g].model)
           /\ generation'[g].since =
                 IF \E i \in Installs : Provides(i, generation[g].model)
                 THEN file[generation[g].model].opener ELSE NoTransfer
  <2>1. /\ file' = file /\ install' = install /\ loaded' = loaded
        /\ IsReady(m)
        /\ since = IF \E i \in Installs : Provides(i, m) THEN file[m].opener ELSE NoTransfer
    BY <1>4 DEF fileVars
  <2>2. file[m].opener \in Installs
    <3>1. file[m].content # "none" /\ file[m] # NoFile
      BY <2>1, NoFileIsOne DEF IsReady
    <3>2. QED
      BY <1>0, <1>2, <3>1 DEF ModelFilesAreOpened
  <2>3. loaded.origin \in Nat
    <3>1. loaded.origin \in Installs \cup {NoTransfer}
      BY <1>0 DEF SchedulerTypes, LoadedModels
    <3>2. Installs \cup {NoTransfer} \subseteq Nat
      BY ONLY Numbers
    <3>3. QED
      BY ONLY <3>1, <3>2
  <2>4. CASE \E i \in Installs : Provides(i, m)
    <3>1. since = file[m].opener /\ Provides(since, m) /\ since \in Installs
      BY <2>1, <2>2, <2>4 DEF Provides
    <3>2. loaded # NoModel /\ loaded.model = m => loaded.origin >= since
      BY <1>2, <3>1 DEF LoadedIsCurrent
    <3>3. QED
      BY <2>1, <3>1, <3>2, Numbers DEF Provides, At
  <2>5. CASE ~\E i \in Installs : Provides(i, m)
    <3>1. since = 0
      BY <2>1, <2>5, Numbers
    <3>2. loaded'.origin >= since /\ file'[m].opener >= since
      <4>1. loaded'.origin = loaded.origin /\ file'[m].opener = file[m].opener
        BY <2>1
      <4>2. file[m].opener \in Nat
        BY <2>2, Numbers
      <4>3. QED
        BY ONLY <2>3, <3>1, <4>1, <4>2
    <3>3. QED
      BY <3>1, <3>2, Numbers
  <2>6. QED
    BY <2>4, <2>5
<1>5. QED
  BY <1>3, <1>4, WhoIsScheduled

-------------------------------------------------------------------------------
(* What is there of a model. *)

\* The stream of an installation writes to the file it has opened.
WritersHaveOpened ==
    "reopen" \notin scenario.faults =>
        \A i \in Installs :
            transfer[i].progress \in {"short", "long"} =>
                LET f == file[install[i].model] IN i \in f.writers /\ f.opener = i

\* A model that is not whole belongs to an installation that will see to it, unless
\* one has failed or a file could not be removed.
NothingIsHalf ==
    scenario.faults \cap {"reopen", "unlink"} = {} =>
        \/ \E i \in Installs : install[i].step \in {"failed", "killed"}
        \/ \A m \in Models :
              \/ file[m].content \in {"none", "complete"}
              \/ \E i \in Installs :
                    install[i].model = m /\ install[i].step \in {"transfer", "remove"}

(* One transfer at a time is awaited. *)
LEMMA OneTransfers ==
    ASSUME ModelTransfers, InstallsAreNumbered, "reopen" \notin scenario.faults,
           NEW i \in Installs, InstallRuns(i), NEW j \in Installs, Transferring(j)
    PROVE  i = j
<1>1. At(j, "transfer")
  BY DEF ModelTransfers
<1>2. InstallRuns(j) /\ ~At(j, "none") /\ ~At(i, "none")
  BY <1>1 DEF At, InstallRuns, InstallEnds
<1>3. ~(i > j) /\ ~(j > i)
  BY <1>2 DEF InstallsAreNumbered
<1>4. QED
  BY <1>3, Numbers

(* The stream of an installation keeps its file. *)
LEMMA WritersAreKept ==
    ASSUME ModelBase, ModelTransfers, InstallsAreNumbered, WritersHaveOpened,
           ModelStep, UNCHANGED scenario
    PROVE  WritersHaveOpened'
<1>0. CallTypes /\ FilesTypeOK
  BY DEF ModelBase
<1> DEFINE Has(i) == transfer'[i].progress \in {"short", "long"} =>
                        /\ i \in file'[install'[i].model].writers
                        /\ file'[install'[i].model].opener = i
<1> SUFFICES ASSUME "reopen" \notin scenario.faults PROVE \A i \in Installs : Has(i)
  BY DEF WritersHaveOpened
<1>1. ASSUME NEW i \in Installs, Transferring(i), transfer'[i] = transfer[i],
             install'[i].model = install[i].model,
             file'[install[i].model] = file[install[i].model]
      PROVE  Has(i)
  BY <1>1 DEF WritersHaveOpened
<1>2. ASSUME NEW i \in Installs, ~Transferring(i), transfer'[i] = transfer[i]
      PROVE  Has(i)
  BY <1>2 DEF Transferring
<1>3. ASSUME UNCHANGED fileVars, \A i \in Installs : At(i, "transfer") => Same(i)
      PROVE  \A i \in Installs : Has(i)
  <2>1. file' = file /\ transfer' = transfer
    BY <1>3 DEF fileVars
  <2>2. \A i \in Installs : Transferring(i) => install'[i].model = install[i].model
    BY <1>3 DEF ModelTransfers, Same
  <2>3. QED
    BY <1>1, <1>2, <2>1, <2>2
<1>4. ASSUME NEW i \in Installs, InstallRuns(i),
             \A j \in Installs \ {i} : transfer'[j] = transfer[j]
      PROVE  \A j \in Installs \ {i} : Has(j)
  BY <1>2, <1>4, OneTransfers
<1>5. ASSUME NEW i \in Installs, Removes(i) PROVE \A j \in Installs : Has(j)
  <2>1. ~Transferring(i) /\ transfer' = transfer /\ InstallRuns(i)
    BY <1>5 DEF ModelTransfers, Removes, Moves
  <2>2. QED
    BY <1>2, <1>4, <2>1
<1>6. ASSUME NEW i \in Installs, Starts(i) \/ Ends(i) \/ Stops(i)
      PROVE  \A j \in Installs : Has(j)
  <2>1. i \in Transfers /\ install[i].model \in Paths
    BY <1>0, Numbers DEF CallTypes, InstallRecords
  <2>2. InstallRuns(i) /\ (Starts(i) => ~Transferring(i))
    BY <1>6 DEF ModelTransfers, Starts, Ends, Stops, Moves, At
  <2>3. /\ OnlyOf(i, IF Starts(i) THEN install[i].model ELSE transfer[i].path)
        /\ transfer'[i].progress \notin {"short", "long"}
    <3>1. CASE Starts(i)
      <4>1. /\ ~Transferring(i) /\ UNCHANGED file
            /\ TransferStarts(i, install[i].model)
        BY <2>2, <3>1 DEF Starts
      <4>2. /\ OnlyOf(i, install[i].model)
            /\ transfer'[i] = [progress |-> "requested", path |-> install[i].model]
        BY <1>0, <2>1, <4>1, StartKeepsFiles
      <4>3. QED
        BY <3>1, <4>2
    <3>2. CASE ~Starts(i) /\ Ends(i)
      BY <1>0, <2>1, <3>2, EndKeepsFiles DEF Ends, Transferring
    <3>3. CASE ~Starts(i) /\ Stops(i)
      BY <1>0, <2>1, <3>3, StopKeepsFiles DEF Stops, Transferring
    <3>4. QED
      BY <1>6, <3>1, <3>2, <3>3
  <2>4. \A j \in Installs \ {i} : transfer'[j] = transfer[j]
    BY <2>3, Numbers DEF OnlyOf
  <2>5. QED
    BY <1>4, <2>2, <2>3, <2>4
<1>7. ASSUME NEW i \in Installs, TransferOpens(i) \/ TransferGrows(i), UNCHANGED modelVars
      PROVE  \A j \in Installs : Has(j)
  <2> DEFINE m == install[i].model
  <2>1. /\ i \in Transfers /\ Transferring(i) /\ At(i, "transfer") /\ transfer[i].path = m
        /\ install' = install
    BY <1>7, Numbers DEF ModelTransfers, Transferring, TransferOpens, TransferGrows,
                         modelVars, callVars
  <2>2. InstallRuns(i)
    BY <2>1 DEF At, InstallRuns, InstallEnds
  <2>3. OnlyOf(i, m) /\ i \in file'[m].writers /\ file'[m].opener = i
    <3>1. CASE TransferOpens(i)
      BY <1>0, <2>1, <3>1, OpenKeepsFiles
    <3>2. CASE TransferGrows(i)
      <4>1. OnlyOf(i, m) /\ transfer[i].progress = "short" /\ file'[m] = Written(i, "long")
        BY <1>0, <2>1, <3>2, GrowthKeepsFiles
      <4>2. i \in file[m].writers /\ file[m].opener = i
        BY <4>1 DEF WritersHaveOpened
      <4>3. /\ Written(i, "long").writers = file[m].writers
            /\ Written(i, "long").opener = file[m].opener
        BY <1>0, <2>1, WrittenIsAFile DEF Contents
      <4>4. QED
        BY <4>1, <4>2, <4>3
    <3>3. QED
      BY <1>7, <3>1, <3>2
  <2>4. \A j \in Installs \ {i} : transfer'[j] = transfer[j]
    BY <2>3, Numbers DEF OnlyOf
  <2>5. QED
    BY <1>4, <2>1, <2>2, <2>3, <2>4
<1>8. ASSUME NEW i \in Installs, NEW m \in Models, NEW force \in BOOLEAN,
             InstallCalled(i, m, force)
      PROVE  \A j \in Installs : Has(j)
  <2>1. UNCHANGED fileVars /\ At(i, "none")
    BY <1>8, Numbers DEF InstallCalled
  <2>2. \A j \in Installs \ {i} : install'[j] = install[j]
    BY <1>0, <1>8 DEF InstallCalled, CallTypes
  <2>3. QED
    BY <1>3, <2>1, <2>2 DEF Same, At
<1>9. ASSUME NEW i \in Installs, MovesWithoutFile(i) PROVE \A j \in Installs : Has(j)
  BY <1>3, <1>9 DEF MovesWithoutFile, Moves
<1>10. QED
  BY <1>3, <1>5, <1>6, <1>7, <1>8, <1>9, StepsOfTheInstallations

(* No half a model is forgotten. *)
LEMMA NothingStaysHalf ==
    ASSUME ModelBase, ModelTransfers, InstallsAreNumbered, WritersHaveOpened, NothingIsHalf,
           ModelStep, UNCHANGED scenario
    PROVE  NothingIsHalf'
<1>0. CallTypes /\ FilesTypeOK
  BY DEF ModelBase
<1> DEFINE Minded(m) ==
        \/ file'[m].content \in {"none", "complete"}
        \/ \E i \in Installs :
              install'[i].model = m /\ install'[i].step \in {"transfer", "remove"}
<1>1. SUFFICES ASSUME scenario.faults \cap {"reopen", "unlink"} = {},
                      \A i \in Installs : install'[i].step \notin {"failed", "killed"},
                      NEW m \in Models
               PROVE  Minded(m)
  BY DEF NothingIsHalf
<1>2. \A i \in Installs : install[i].step \notin {"failed", "killed"}
  BY <1>1, CallsGoOn DEF Same, InstallEnds
<1>3. \/ file[m].content \in {"none", "complete"}
      \/ \E i \in Installs :
            install[i].model = m /\ install[i].step \in {"transfer", "remove"}
  BY <1>1, <1>2 DEF NothingIsHalf
<1>4. ASSUME file'[m].content = file[m].content,
             \A i \in Installs : install[i].step \in {"transfer", "remove"} => Same(i)
      PROVE  Minded(m)
  BY <1>3, <1>4 DEF Same
<1>5. ASSUME NEW i \in Installs, Removes(i) PROVE Minded(m)
  <2>1. install[i].model \in Paths /\ m \in Paths
    BY <1>0, Numbers DEF CallTypes, InstallRecords
  <2>2. /\ file'[install[i].model] = NoFile
        /\ \A p \in Paths \ {install[i].model} : file'[p] = file[p]
    BY <1>0, <1>1, <1>5, <2>1, UnlinkKeepsFiles DEF Removes
  <2>3. CASE m = install[i].model
    BY <2>2, <2>3, NoFileIsOne
  <2>4. CASE m # install[i].model
    BY <1>3, <1>5, <2>1, <2>2, <2>4 DEF Removes, Moves, Same
  <2>5. QED
    BY <2>3, <2>4
<1>6. ASSUME NEW i \in Installs, Starts(i) PROVE Minded(m)
  BY <1>4, <1>6 DEF Starts, Moves, At
<1>7. ASSUME NEW i \in Installs, Ends(i) \/ Stops(i) PROVE Minded(m)
  <2>1. /\ i \in Transfers /\ m \in Paths /\ transfer[i].path = install[i].model
        /\ Moves(i) /\ At(i, "transfer")
    BY <1>7, Numbers DEF ModelTransfers, Ends, Stops, TransferEnds, TransferStops, Transferring
  <2>2. OnlyOf(i, install[i].model)
    BY <1>0, <1>7, <2>1, EndKeepsFiles, StopKeepsFiles DEF Ends, Stops
  <2>3. CASE m # install[i].model
    <3>1. file'[m] = file[m]
      BY <2>1, <2>2, <2>3 DEF OnlyOf
    <3>2. QED
      BY <1>3, <2>1, <2>3, <3>1 DEF Moves, Same
  <2>4. CASE m = install[i].model /\ Stops(i)
    BY <1>1, <2>1, <2>4 DEF Stops, Moves
  <2>5. CASE m = install[i].model /\ Ends(i)
    <3> DEFINE g == Written(i, "complete")
    <3>1. /\ transfer[i].progress = "long"
          /\ file'[m] = [g EXCEPT !.writers = file[m].writers \ {i}]
      BY <1>0, <2>1, <2>5, EndKeepsFiles DEF Ends
    <3>2. i \in file[m].writers /\ file[m].opener = i
      BY <1>1, <2>5, <3>1 DEF WritersHaveOpened
    <3>3. g \in Files /\ g.content = "complete"
      BY <1>0, <2>1, <2>5, <3>2, WrittenIsAFile DEF Contents
    <3>4. file'[m].content = "complete"
      <4> HIDE DEF g
      <4> QED BY <3>1, <3>3 DEF Files
    <3>5. QED
      BY <3>4
  <2>6. QED
    BY <1>7, <2>3, <2>4, <2>5
<1>8. ASSUME NEW i \in Installs, TransferOpens(i) \/ TransferGrows(i), UNCHANGED modelVars
      PROVE  Minded(m)
  <2>1. /\ i \in Transfers /\ At(i, "transfer") /\ transfer[i].path = install[i].model
        /\ install' = install /\ m \in Paths
    BY <1>8, Numbers DEF ModelTransfers, Transferring, TransferOpens, TransferGrows,
                         modelVars, callVars
  <2>2. OnlyOf(i, install[i].model)
    BY <1>0, <1>8, <2>1, OpenKeepsFiles, GrowthKeepsFiles
  <2>3. m # install[i].model => file'[m] = file[m]
    BY <2>1, <2>2 DEF OnlyOf
  <2>4. QED
    BY <1>3, <2>1, <2>3 DEF At
<1>9. ASSUME NEW i \in Installs, NEW n \in Models, NEW force \in BOOLEAN,
             InstallCalled(i, n, force)
      PROVE  Minded(m)
  <2>1. UNCHANGED fileVars /\ At(i, "none")
    BY <1>9, Numbers DEF InstallCalled
  <2>2. \A j \in Installs \ {i} : install'[j] = install[j]
    BY <1>0, <1>9 DEF InstallCalled, CallTypes
  <2>3. QED
    BY <1>4, <2>1, <2>2 DEF Same, At, fileVars
<1>10. ASSUME NEW i \in Installs, MovesWithoutFile(i) PROVE Minded(m)
  BY <1>4, <1>10 DEF MovesWithoutFile, Moves, At, fileVars
<1>11. CASE UNCHANGED fileVars /\ \A i \in Installs : Same(i)
  BY <1>4, <1>11 DEF fileVars
<1>12. QED
  BY <1>5, <1>6, <1>7, <1>8, <1>9, <1>10, <1>11, StepsOfTheInstallations

-------------------------------------------------------------------------------
(* The local model as a whole. *)

ModelInv ==
    /\ CallTypes /\ SchedulerTypes
    /\ PhasesFit /\ OperationsAreAwaited /\ ModelFilesAreOpened
    /\ ModelTransfers /\ InstallsAreNumbered /\ LoadedIsCurrent /\ SinceLasts
    /\ WritersHaveOpened /\ NothingIsHalf

(* It holds before anything has happened. *)
LEMMA ModelStarts == Init => FilesTypeOK /\ ModelInv
<1> SUFFICES ASSUME Init PROVE FilesTypeOK /\ ModelInv
  OBVIOUS
<1>1. /\ transfer = [d \in Transfers |-> IdleTransfer]
      /\ file = [p \in Paths |-> IF p = scenario.legacy
                                 THEN [NoFile EXCEPT !.content = "complete"]
                                 ELSE NoFile]
      /\ scenario \in Scenarios
  BY DEF Init, FilesInit
<1>2. [NoFile EXCEPT !.content = "complete"] \in Files
  BY NoFileIsOne DEF Files, Contents
<1>3. \A d \in Transfers : ~Transferring(d)
  BY <1>1, IdleTransferIsOne DEF Transferring
<1>4. \A p \in Paths : file[p].writers = {}
  BY <1>1 DEF NoFile
<1>5. FilesTypeOK
  BY <1>1, <1>2, <1>4, IdleTransferIsOne, NoFileIsOne, FilesTypes
<1>6. \A m \in Models : file[m] = NoFile
  <2>1. scenario.legacy \in Versions \cup {0}
    BY <1>1, DownloadsAssumption DEF UpdateAssumption
  <2>2. QED
    BY <1>1, <2>1, Numbers
<1>7. CallTypes
  BY Blanks DEF Init, ModelInit, CallTypes
<1>8. SchedulerTypes
  BY Blanks DEF Init, ModelInit, SchedulerTypes, Phases
<1>9. /\ \A i \in Installs : install[i].step = "none"
      /\ \A g \in Generations : generation[g].step = "none"
      /\ active = NoOperation /\ phase = "none" /\ waiting = <<>>
      /\ loaded = NoModel /\ inMemory = 0
  BY DEF Init, ModelInit, NoInstall, NoGeneration
<1>10. PhasesFit /\ OperationsAreAwaited
  BY <1>9 DEF PhasesFit, OperationsAreAwaited
<1>11. ModelFilesAreOpened /\ ModelTransfers /\ WritersHaveOpened
  BY <1>1, <1>3, <1>6, IdleTransferIsOne, Numbers
  DEF ModelFilesAreOpened, ModelTransfers, WritersHaveOpened
<1>12. InstallsAreNumbered /\ LoadedIsCurrent /\ SinceLasts
  BY <1>9 DEF InstallsAreNumbered, LoadedIsCurrent, SinceLasts, At, InstallRuns
<1>13. NothingIsHalf
  BY <1>6, NoFileIsOne DEF NothingIsHalf
<1>14. QED
  BY <1>5, <1>7, <1>8, <1>10, <1>11, <1>12, <1>13 DEF ModelInv

\* What a step of the update leaves alone.
ModelFilesStay ==
    /\ \A m \in Models : file'[m] = file[m]
    /\ \A i \in Installs : transfer'[i] = transfer[i]

(* What the update does leaves the local model alone. *)
LEMMA ModelIsLeftAlone ==
    ASSUME ModelInv, UNCHANGED modelVars, UNCHANGED scenario, ModelFilesStay
    PROVE  ModelInv'
<1>1. /\ settings' = settings /\ install' = install /\ abort' = abort
      /\ generation' = generation /\ save' = save /\ saves' = saves
      /\ waiting' = waiting /\ active' = active /\ phase' = phase /\ loaded' = loaded
      /\ inMemory' = inMemory /\ scenario' = scenario
  BY DEF modelVars, callVars, schedulerVars
<1>2. CallTypes /\ CallTypes' /\ SchedulerTypes'
  BY <1>1 DEF ModelInv, CallTypes, SchedulerTypes
<1>3. PhasesFit'
  BY <1>1 DEF ModelInv, PhasesFit, Fits
<1>4. OperationsAreAwaited'
  <2>1. UNCHANGED schedulerVars /\ AwaitersStay
    BY <1>1 DEF schedulerVars, AwaitersStay
  <2>2. ASSUME NEW operation PROVE Awaited(operation)' <=> Awaited(operation)
    BY <1>1 DEF Awaited
  <2>3. QED
    BY <1>1, <2>2 DEF ModelInv, OperationsAreAwaited, Awaited
<1>5. ModelFilesAreOpened' /\ ModelTransfers' /\ WritersHaveOpened'
  BY <1>1, <1>2 DEF ModelInv, ModelFilesStay, ModelFilesAreOpened, ModelTransfers,
     WritersHaveOpened, Transferring, At, CallTypes, InstallRecords
<1>6. InstallsAreNumbered' /\ LoadedIsCurrent'
  BY <1>1 DEF ModelInv, ModelFilesStay, InstallsAreNumbered, LoadedIsCurrent, Provides, At,
     InstallRuns
<1>7. SinceLasts'
  BY <1>1, <1>2 DEF ModelInv, ModelFilesStay, SinceLasts, At, CallTypes, GenerationRecords
<1>8. NothingIsHalf'
  BY <1>1 DEF ModelInv, ModelFilesStay, NothingIsHalf
<1>9. QED
  BY <1>2, <1>3, <1>4, <1>5, <1>6, <1>7, <1>8 DEF ModelInv

(* The application ends: nothing runs, and what was there of the files is left. *)
LEMMA ModelIsKilled ==
    ASSUME FilesTypeOK, ModelInv, ModelKilled, TransfersKilled, UNCHANGED scenario
    PROVE  ModelInv'
<1>0. /\ CallTypes /\ SchedulerTypes /\ ModelFilesAreOpened /\ InstallsAreNumbered
      /\ LoadedIsCurrent /\ SinceLasts /\ NothingIsHalf
  BY DEF ModelInv
<1>1. /\ \A i \in Installs : install'[i] = IF InstallRuns(i)
                                           THEN [NoInstall EXCEPT !.step = "killed"]
                                           ELSE install[i]
      /\ install' \in [Installs -> InstallRecords]
      /\ active' = NoOperation /\ phase' = "none" /\ waiting' = <<>>
      /\ loaded' = NoModel /\ inMemory' = 0
  BY <1>0, Blanks
  DEF ModelKilled, OperationEnds, CallTypes, InstallRecords, InstallSteps, InstallEnds
<1>2. /\ generation' \in [Generations -> GenerationRecords]
      /\ \A g \in Generations : generation'[g].step # "scheduled"
  BY <1>0, Blanks
  DEF ModelKilled, CallTypes, GenerationRecords, GenerationSteps, GenerationEnds
<1>3. CallTypes'
  BY <1>0, <1>1, <1>2, Blanks, StoredIsSettings DEF ModelKilled, CallTypes
<1>4. SchedulerTypes'
  BY <1>1, Blanks DEF SchedulerTypes, Phases
<1>5. PhasesFit' /\ OperationsAreAwaited'
  BY <1>1 DEF PhasesFit, OperationsAreAwaited
<1>6. /\ \A i \in Installs : ~Transferring(i)'
      /\ \A m \in Models : /\ file'[m].content = file[m].content
                           /\ file'[m].opener = file[m].opener
                           /\ file[m] = NoFile => file'[m] = NoFile
  BY KillKeepsFiles, Numbers
<1>7. ModelFilesAreOpened' /\ ModelTransfers' /\ WritersHaveOpened'
  BY <1>0, <1>6 DEF ModelFilesAreOpened, ModelTransfers, WritersHaveOpened, Transferring
<1>8. InstallsAreNumbered'
  <2>1. \A i \in Installs : /\ At(i, "none")' <=> At(i, "none")
                            /\ ~InstallRuns(i)'
    BY <1>1 DEF At, InstallRuns, InstallEnds, NoInstall
  <2>2. QED
    BY <1>0, <2>1 DEF InstallsAreNumbered
<1>9. LoadedIsCurrent' /\ SinceLasts'
  BY <1>1, <1>2 DEF LoadedIsCurrent, SinceLasts
<1>10. NothingIsHalf'
  <2>1. ASSUME \A i \in Installs : install'[i].step \notin {"failed", "killed"}
        PROVE  \A i \in Installs : ~InstallRuns(i) /\ install'[i] = install[i]
    <3>1. [NoInstall EXCEPT !.step = "killed"].step = "killed"
      BY DEF NoInstall
    <3>2. QED
      BY <1>1, <2>1, <3>1
  <2>2. \A i \in Installs : install[i].step \in {"transfer", "remove"} => InstallRuns(i)
    BY DEF InstallRuns, InstallEnds
  <2>3. QED
    BY <1>0, <1>6, <2>1, <2>2 DEF NothingIsHalf
<1>11. QED
  BY <1>3, <1>4, <1>5, <1>7, <1>8, <1>9, <1>10 DEF ModelInv

(* And it holds after every step of the model. *)
LEMMA ModelGoesOn ==
    ASSUME FilesTypeOK, ModelInv, ModelStep, UNCHANGED scenario
    PROVE  FilesTypeOK' /\ ModelInv' /\ UpdateFilesStay
<1>1. /\ ModelBase /\ ModelTransfers /\ InstallsAreNumbered /\ LoadedIsCurrent /\ SinceLasts
      /\ WritersHaveOpened /\ NothingIsHalf
  BY DEF ModelInv, ModelBase
<1>2. /\ FilesTypeOK' /\ ModelTransfers' /\ ModelFilesAreOpened' /\ UpdateFilesStay
  BY <1>1, ModelFilesAreKept
<1>3. CallTypes' /\ SchedulerTypes' /\ OperationsAreAwaited' /\ PhasesFit'
  BY <1>1, CallsKeepTypes, QueueIsKept, PhasesStayFit
<1>4. InstallsAreNumbered' /\ LoadedIsCurrent' /\ SinceLasts'
  BY <1>1, NumberingIsKept, LoadedStaysCurrent, SinceIsKept
<1>5. WritersHaveOpened' /\ NothingIsHalf'
  BY <1>1, WritersAreKept, NothingStaysHalf
<1>6. QED
  BY <1>2, <1>3, <1>4, <1>5 DEF ModelInv

(* What the run checks of the local model follows. *)
LEMMA ModelIsSafe ==
    ASSUME ModelInv
    PROVE  ModelTypeOK /\ OneModelInMemory /\ PromptsFit /\ CancelledLeavesNothing
<1>1. ModelTypeOK
  BY ModelTypes DEF ModelInv
<1>2. OneModelInMemory
  BY DEF ModelInv, PhasesFit, OneModelInMemory
<1>3. PromptsFit
  <2> SUFFICES ASSUME phase = "prompt",
                      NEW g \in Generations, g = active[2]
               PROVE  /\ Fits(generation[g])
                      /\ "reopen" \notin scenario.faults =>
                            loaded.origin >= generation[g].since
    <3>1. phase = "prompt" =>
             active[2] \in Generations /\ generation[active[2]].step = "scheduled"
      <4>1. active # NoOperation => Awaited(active)
        BY DEF ModelInv, OperationsAreAwaited
      <4>2. QED
        BY <4>1 DEF ModelInv, PhasesFit, Awaited, NoOperation
    <3>2. QED
      BY <3>1 DEF PromptsFit
  <2>1. Fits(generation[g])
    BY DEF ModelInv, PhasesFit
  <2>2. generation[g].step = "scheduled"
    <3>1. active # NoOperation => Awaited(active)
      BY DEF ModelInv, OperationsAreAwaited
    <3>2. QED
      BY <3>1 DEF ModelInv, PhasesFit, Awaited, NoOperation
  <2>3. QED
    BY <2>1, <2>2 DEF ModelInv, SinceLasts, Fits
<1>4. CancelledLeavesNothing
  <2> SUFFICES ASSUME NEW i \in Installs,
                      scenario.faults \cap {"reopen", "unlink"} = {},
                      At(i, "cancelled"),
                      \A j \in Installs :
                          /\ j < i => install[j].step \in {"complete", "cancelled"}
                          /\ j > i => At(j, "none")
               PROVE  file[install[i].model].content \in {"none", "complete"}
    BY DEF CancelledLeavesNothing
  <2>1. \A j \in Installs : install[j].step \in {"complete", "cancelled", "none"}
    BY Numbers DEF At
  <2>2. install[i].model \in Models
    BY DEF ModelInv, CallTypes, InstallRecords
  <2>3. QED
    BY <2>1, <2>2 DEF ModelInv, NothingIsHalf
<1>5. QED
  BY <1>1, <1>2, <1>3, <1>4

-------------------------------------------------------------------------------
(* The records of the update. *)

PendingUpdates == [version : VersionOrNone, userInitiated : BOOLEAN]
DownloadSteps ==
    {"none", "existing", "update", "unlink", "transfer", "verify", "discard", "clear",
     "write"} \cup DownloadEnds
DownloadRecords == [step : DownloadSteps, version : VersionOrNone, heard : BOOLEAN]
StartupRecords ==
    [step : {"none", "check", "pending", "unlink", "clear", "answer"},
     latest : VersionOrNone, failed : BOOLEAN, pending : PendingUpdates]
LaunchRecords ==
    [step : {"none", "pending", "assert", "unlink", "clear", "open", "launched"},
     version : VersionOrNone]
Views ==
    [kind : {"idle", "checking", "current", "available", "downloading", "ready", "error"},
     version : VersionOrNone]

(* The type invariant of the update, in words of these records. *)
LEMMA UpdateTypes ==
    UpdateTypeOK <=>
        /\ installed \in VersionOrNone /\ latest \in VersionOrNone
        /\ pending \in PendingUpdates /\ activeDownload \in VersionOrNone
        /\ download \in [UpdateCalls -> DownloadRecords]
        /\ startup \in StartupRecords /\ launch \in LaunchRecords /\ ui \in Views
        /\ reloads \in Nat
BY DEF UpdateTypeOK, PendingUpdates, DownloadRecords, DownloadSteps, StartupRecords,
   LaunchRecords, Views

(* The same of the next state. *)
LEMMA UpdateTypesNext ==
    UpdateTypeOK' <=>
        /\ installed' \in VersionOrNone /\ latest' \in VersionOrNone
        /\ pending' \in PendingUpdates /\ activeDownload' \in VersionOrNone
        /\ download' \in [UpdateCalls -> DownloadRecords]
        /\ startup' \in StartupRecords /\ launch' \in LaunchRecords /\ ui' \in Views
        /\ reloads' \in Nat
BY DEF UpdateTypeOK, PendingUpdates, DownloadRecords, DownloadSteps, StartupRecords,
   LaunchRecords, Views

\* What is offered, downloaded, recorded or launched has a version.
VersionsAreNamed ==
    /\ ui.kind \in {"available", "downloading", "ready"} => ui.version \in Versions
    /\ \A d \in UpdateCalls :
          download[d].step \notin {"none", "killed"} => download[d].version \in Versions
    /\ pending = NoPending \/ pending.version \in Versions
    /\ startup.pending = NoPending \/ startup.pending.version \in Versions
    /\ startup.step = "unlink" => startup.pending.version \in Versions
    /\ launch.step # "none" => launch.version \in Versions

(* What the records are before anything has happened. *)
LEMMA UpdateBlanks ==
    /\ NoVersion \in VersionOrNone /\ NoVersion = 0 /\ NoVersion \notin Versions
    /\ Versions \subseteq VersionOrNone
    /\ NoPending \in PendingUpdates /\ NoPending.version = NoVersion
    /\ NoPending.userInitiated = FALSE
    /\ NoDownload \in DownloadRecords /\ NoStartup \in StartupRecords
    /\ NoLaunch \in LaunchRecords /\ Idle \in Views
BY Numbers
DEF NoVersion, VersionOrNone, NoPending, NoDownload, NoStartup, NoLaunch, Idle,
    PendingUpdates, DownloadRecords, DownloadSteps, StartupRecords, LaunchRecords, Views

(* What is read of the metadata. *)
LEMMA PendingsReadAre ==
    ASSUME NEW p \in PendingsRead
    PROVE  \/ p = NoPending
           \/ p = pending /\ pending # NoPending /\ file[pending.version].content # "none"
BY DEF PendingsRead, Pending

(* A download goes to a step. *)
LEMMA DownloadGoes ==
    ASSUME UpdateTypeOK, NEW d \in UpdateCalls, NEW step \in DownloadSteps,
           DownloadTo(d, step)
    PROVE  /\ download' \in [UpdateCalls -> DownloadRecords]
           /\ download'[d].step = step
           /\ download'[d].version = download[d].version
           /\ download'[d].heard = download[d].heard
           /\ \A e \in UpdateCalls \ {d} : download'[e] = download[e]
<1>1. download \in [UpdateCalls -> DownloadRecords] /\ download[d] \in DownloadRecords
  BY UpdateTypes
<1>2. download' = [download EXCEPT ![d] = [download[d] EXCEPT !.step = step]]
  BY <1>1 DEF DownloadTo
<1>3. [download[d] EXCEPT !.step = step] \in DownloadRecords
  BY <1>1 DEF DownloadRecords
<1>4. QED
  BY <1>1, <1>2, <1>3 DEF DownloadRecords

(* What the page is told of its own call. *)
LEMMA AnswersTypes ==
    ASSUME UpdateTypeOK, VersionsAreNamed, NEW d \in UpdateCalls,
           download[d].version \in Versions,
           NEW outcome \in {"ready", "failed"}, Answers(d, outcome)
    PROVE  /\ DownloadTo(d, outcome) /\ outcome \in DownloadSteps
           /\ ui' \in Views
           /\ ui'.kind \in {"available", "downloading", "ready"} => ui'.version \in Versions
<1>1. DownloadTo(d, outcome) /\ outcome \in DownloadSteps
  BY DEF Answers, DownloadSteps, DownloadEnds
<1>2. CASE ui' = ui
  BY <1>1, <1>2, UpdateTypes DEF VersionsAreNamed
<1>3. CASE ui' = [kind |-> IF outcome = "ready" THEN "ready" ELSE "available",
                  version |-> download[d].version]
  BY <1>1, <1>3, UpdateBlanks DEF Views
<1>4. QED
  BY <1>2, <1>3 DEF Answers

(* Which version a call clears. *)
LEMMA ClearedTypes ==
    ASSUME UpdateTypeOK, NEW d \in UpdateCalls, Cleared(d)
    PROVE  activeDownload' \in VersionOrNone
BY UpdateTypes, UpdateBlanks DEF Cleared

(* The page and its check keep their types. *)
LEMMA StartupKeepsTypes ==
    ASSUME UpdateTypeOK, VersionsAreNamed, StartupCalled \/ StartupProceeds
    PROVE  UpdateTypeOK' /\ VersionsAreNamed'
<1> USE UpdateTypes
<1>1. ASSUME UNCHANGED <<worldVars, activeDownload, download, launch, reloads>>,
             pending' \in {pending, NoPending},
             startup' \in StartupRecords,
             startup'.pending = NoPending \/ startup'.pending.version \in Versions,
             startup'.step = "unlink" => startup'.pending.version \in Versions,
             ui' \in Views,
             ui'.kind \in {"available", "downloading", "ready"} => ui'.version \in Versions
      PROVE  UpdateTypeOK' /\ VersionsAreNamed'
  <2>1. /\ installed' = installed /\ latest' = latest /\ activeDownload' = activeDownload
        /\ download' = download /\ launch' = launch /\ reloads' = reloads
    BY <1>1 DEF worldVars
  <2>2. UpdateTypeOK'
    BY <1>1, <2>1, UpdateBlanks, UpdateTypesNext
  <2>3. VersionsAreNamed'
    BY <1>1, <2>1 DEF VersionsAreNamed
  <2>4. QED
    BY <2>2, <2>3
<1>2. CASE StartupCalled
  <2>1. /\ [Idle EXCEPT !.kind = "checking"] \in Views
        /\ [Idle EXCEPT !.kind = "checking"].kind = "checking"
        /\ [NoStartup EXCEPT !.step = "check"] \in StartupRecords
        /\ [NoStartup EXCEPT !.step = "check"].step = "check"
        /\ [NoStartup EXCEPT !.step = "check"].pending = NoPending
    BY UpdateBlanks DEF Idle, NoStartup, Views, StartupRecords
  <2>2. QED
    BY <1>1, <1>2, <2>1 DEF StartupCalled
<1>3. CASE ReleaseChecked
  <2>1. /\ startup' \in StartupRecords /\ startup'.step = "pending"
        /\ startup'.pending = startup.pending
    BY <1>3 DEF ReleaseChecked, StartupRecords
  <2>2. QED
    BY <1>1, <1>3, <2>1 DEF ReleaseChecked, VersionsAreNamed
<1>4. CASE PendingRead
  <2>1. PICK p \in PendingsRead :
           startup' = [startup EXCEPT !.step = IF p = NoPending \/ IsWanted(p) THEN "answer"
                                               ELSE "unlink",
                                      !.pending = p]
    BY <1>4 DEF PendingRead
  <2>2. /\ p \in PendingUpdates
        /\ p = NoPending \/ p.version \in Versions
    BY UpdateBlanks, PendingsReadAre DEF VersionsAreNamed
  <2>3. /\ startup' \in StartupRecords /\ startup'.pending = p
        /\ startup'.step = "unlink" => p # NoPending
    BY <2>1, <2>2 DEF StartupRecords
  <2>4. QED
    BY <1>1, <1>4, <2>2, <2>3 DEF PendingRead, VersionsAreNamed
<1>5. CASE StartupDiscards
  <2>1. /\ startup' \in StartupRecords /\ startup'.step \in {"clear", "answer"}
        /\ startup'.pending \in {startup.pending, NoPending}
        /\ pending' \in {pending, NoPending}
    BY <1>5, UpdateBlanks DEF StartupDiscards, StartupRecords
  <2>2. QED
    BY <1>1, <1>5, <2>1 DEF StartupDiscards, VersionsAreNamed
<1>6. CASE StartupAnswered
  <2>1. /\ startup.latest \in VersionOrNone /\ installed \in VersionOrNone
        /\ startup.pending \in PendingUpdates
    BY DEF StartupRecords
  <2>2. Shown(startup) \in Views
    BY <2>1, UpdateBlanks DEF Shown, Views
  <2>3. Shown(startup).kind \in {"available", "downloading", "ready"} =>
           Shown(startup).version \in Versions
    <3>1. startup.pending.userInitiated => startup.pending.version \in Versions
      BY UpdateBlanks DEF VersionsAreNamed
    <3>2. startup.latest > installed => startup.latest \in Versions
      BY <2>1, Numbers DEF VersionOrNone, NoVersion
    <3>3. QED
      BY <3>1, <3>2 DEF Shown
  <2>4. NoStartup.step = "none" /\ NoStartup.pending = NoPending
    BY DEF NoStartup
  <2>5. QED
    BY <1>1, <1>6, <2>2, <2>3, <2>4, UpdateBlanks DEF StartupAnswered, VersionsAreNamed
<1>7. QED
  BY <1>2, <1>3, <1>4, <1>5, <1>6 DEF StartupProceeds

(* The downloads keep their types. *)
LEMMA DownloadsKeepTypes ==
    ASSUME UpdateTypeOK, VersionsAreNamed, NEW d \in UpdateCalls,
           DownloadCalled(d) \/ DownloadProceeds(d)
    PROVE  /\ UpdateTypeOK' /\ VersionsAreNamed'
           /\ \A e \in UpdateCalls \ {d} : download'[e] = download[e]
<1> USE UpdateTypes
<1>1. ASSUME UNCHANGED <<worldVars, startup, launch, reloads>>,
             pending' \in PendingUpdates, pending' = NoPending \/ pending'.version \in Versions,
             activeDownload' \in VersionOrNone,
             download' \in [UpdateCalls -> DownloadRecords],
             \A e \in UpdateCalls \ {d} : download'[e] = download[e],
             download'[d].step \notin {"none", "killed"} => download'[d].version \in Versions,
             ui' \in Views,
             ui'.kind \in {"available", "downloading", "ready"} => ui'.version \in Versions
      PROVE  /\ UpdateTypeOK' /\ VersionsAreNamed'
             /\ \A e \in UpdateCalls \ {d} : download'[e] = download[e]
  <2>1. /\ installed' = installed /\ latest' = latest
        /\ startup' = startup /\ launch' = launch /\ reloads' = reloads
    BY <1>1 DEF worldVars
  <2>2. UpdateTypeOK'
    BY <1>1, <2>1, UpdateBlanks, UpdateTypesNext
  <2>3. VersionsAreNamed'
    BY <1>1, <2>1 DEF VersionsAreNamed
  <2>4. QED
    BY <1>1, <2>2, <2>3
<1>2. pending \in PendingUpdates /\ (pending = NoPending \/ pending.version \in Versions)
  BY DEF VersionsAreNamed
<1>3. ui.kind \in {"available", "downloading", "ready"} => ui.version \in Versions
  BY DEF VersionsAreNamed
<1>4. CASE DownloadCalled(d)
  <2>1. PICK step \in {"existing", "unlink"} :
           /\ download' = [download EXCEPT
                             ![d] = [step |-> step, version |-> ui.version, heard |-> TRUE]]
           /\ activeDownload' \in {activeDownload, ui.version}
    BY <1>4 DEF DownloadCalled
  <2>2. ui.kind = "available" /\ ui.version \in Versions /\ ui' = [ui EXCEPT !.kind = "downloading"]
    BY <1>3, <1>4 DEF DownloadCalled
  <2>3. ui' \in Views /\ ui'.version = ui.version
    BY <2>2 DEF Views
  <2>4. [step |-> step, version |-> ui.version, heard |-> TRUE] \in DownloadRecords
    BY <2>2, UpdateBlanks DEF DownloadRecords, DownloadSteps
  <2>5. /\ download' \in [UpdateCalls -> DownloadRecords]
        /\ download'[d].version = ui.version
        /\ \A e \in UpdateCalls \ {d} : download'[e] = download[e]
    BY <2>1, <2>4
  <2>6. UNCHANGED <<worldVars, startup, launch, reloads>> /\ pending' = pending
    BY <1>4 DEF DownloadCalled
  <2>7. activeDownload' \in VersionOrNone
    BY <2>1, <2>2, UpdateBlanks
  <2>8. QED
    BY <1>1, <1>2, <2>2, <2>3, <2>5, <2>6, <2>7
<1>5. ASSUME download[d].step \notin {"none", "killed"}
      PROVE  download[d].version \in Versions
  BY <1>5 DEF VersionsAreNamed
<1>6. ASSUME NEW step \in DownloadSteps, DownloadTo(d, step),
             download[d].version \in Versions,
             UNCHANGED <<worldVars, startup, launch, reloads>>,
             pending' \in {pending, NoPending, [version |-> download[d].version,
                                                userInitiated |-> TRUE]},
             activeDownload' \in VersionOrNone,
             ui' \in Views,
             ui'.kind \in {"available", "downloading", "ready"} => ui'.version \in Versions
      PROVE  /\ UpdateTypeOK' /\ VersionsAreNamed'
             /\ \A e \in UpdateCalls \ {d} : download'[e] = download[e]
  <2>1. /\ download' \in [UpdateCalls -> DownloadRecords]
        /\ download'[d].version = download[d].version
        /\ \A e \in UpdateCalls \ {d} : download'[e] = download[e]
    BY <1>6, DownloadGoes
  <2> DEFINE recorded == [version |-> download[d].version, userInitiated |-> TRUE]
  <2>3. recorded \in PendingUpdates /\ recorded.version \in Versions
    BY <1>6, UpdateBlanks DEF PendingUpdates
  <2> HIDE DEF recorded
  <2>4. pending' \in {pending, NoPending, recorded}
    BY <1>6 DEF recorded
  <2>5. pending' \in PendingUpdates /\ (pending' = NoPending \/ pending'.version \in Versions)
    BY <1>2, <2>3, <2>4, UpdateBlanks
  <2>6. QED
    BY <1>1, <1>6, <2>1, <2>5
<1>7. ASSUME NEW outcome \in {"ready", "failed"}, Answers(d, outcome),
             download[d].version \in Versions,
             UNCHANGED <<worldVars, startup, launch, reloads>>,
             pending' \in {pending, NoPending, [version |-> download[d].version,
                                                userInitiated |-> TRUE]},
             activeDownload' \in VersionOrNone
      PROVE  /\ UpdateTypeOK' /\ VersionsAreNamed'
             /\ \A e \in UpdateCalls \ {d} : download'[e] = download[e]
  BY <1>6, <1>7, AnswersTypes
<1>8. CASE ExistingRead(d)
  <2>1. download[d].version \in Versions
    BY <1>5, <1>8 DEF ExistingRead, DownloadAt
  <2>2. /\ \/ DownloadTo(d, "unlink") /\ activeDownload' = download[d].version /\ ui' = ui
           \/ Answers(d, "ready") /\ activeDownload' = activeDownload
           \/ DownloadTo(d, "update") /\ ui' = ui /\ activeDownload' = activeDownload
        /\ UNCHANGED <<worldVars, startup, launch, reloads>> /\ pending' = pending
    BY <1>8 DEF ExistingRead
  <2>3. /\ activeDownload' \in VersionOrNone
        /\ "unlink" \in DownloadSteps /\ "update" \in DownloadSteps
        /\ "ready" \in {"ready", "failed"}
    BY <2>1, <2>2, UpdateBlanks DEF DownloadSteps
  <2>4. QED
    BY <1>3, <1>6, <1>7, <2>1, <2>2, <2>3
<1>9. CASE OldInstallerRemoved(d) \/ InstallerDownloaded(d) \/ InstallerVerified(d)
           \/ (DownloadAt(d, "discard") /\ DownloadDiscards(d))
  <2>1. download[d].version \in Versions
    BY <1>5, <1>9
    DEF OldInstallerRemoved, InstallerDownloaded, InstallerVerified, DownloadAt
  <2>2. /\ \E step \in {"transfer", "verify", "write", "discard", "clear"} : DownloadTo(d, step)
        /\ UNCHANGED <<worldVars, startup, launch, reloads>>
        /\ pending' = pending /\ ui' = ui /\ activeDownload' = activeDownload
    BY <1>9 DEF OldInstallerRemoved, InstallerDownloaded, InstallerVerified, DownloadDiscards,
                DownloadAt
  <2>3. {"transfer", "verify", "write", "discard", "clear"} \subseteq DownloadSteps
    BY DEF DownloadSteps
  <2>4. QED
    BY <1>3, <1>6, <2>1, <2>2, <2>3
<1>10. CASE DirectoryFails(d) \/ DownloadFails(d) \/ InstallerRecorded(d)
            \/ (DownloadAt(d, "clear") /\ DownloadDiscards(d))
  <2>1. download[d].version \in Versions
    BY <1>5, <1>10 DEF DirectoryFails, DownloadFails, InstallerRecorded, DownloadAt
  <2>2. /\ \E outcome \in {"ready", "failed"} : Answers(d, outcome)
        /\ UNCHANGED <<worldVars, startup, launch, reloads>>
        /\ pending' \in {pending, NoPending, [version |-> download[d].version,
                                              userInitiated |-> TRUE]}
        /\ Cleared(d) \/ activeDownload' = activeDownload
    BY <1>10 DEF DirectoryFails, DownloadFails, InstallerRecorded, DownloadDiscards, DownloadAt
  <2>3. activeDownload' \in VersionOrNone
    BY <2>2, ClearedTypes
  <2>4. QED
    BY <1>7, <2>1, <2>2, <2>3
<1>11. QED
  <2>1. CASE DownloadDiscards(d)
    BY <1>9, <1>10, <2>1 DEF DownloadDiscards
  <2>2. QED
    BY <1>4, <1>8, <1>9, <1>10, <2>1 DEF DownloadProceeds

(* The launch and the world keep their types. *)
LEMMA LaunchKeepsTypes ==
    ASSUME UpdateTypeOK, VersionsAreNamed, LaunchCalled \/ LaunchProceeds
    PROVE  UpdateTypeOK' /\ VersionsAreNamed'
<1> USE UpdateTypes
<1>1. ASSUME UNCHANGED <<worldVars, activeDownload, download, startup, ui, reloads>>,
             pending' \in {pending, NoPending},
             launch' = NoLaunch \/ (launch' \in LaunchRecords /\ launch'.version \in Versions)
      PROVE  UpdateTypeOK' /\ VersionsAreNamed'
  <2>1. /\ installed' = installed /\ latest' = latest /\ activeDownload' = activeDownload
        /\ download' = download /\ startup' = startup /\ ui' = ui /\ reloads' = reloads
    BY <1>1 DEF worldVars
  <2>2. launch' \in LaunchRecords /\ (launch'.step # "none" => launch'.version \in Versions)
    BY <1>1, UpdateBlanks DEF NoLaunch
  <2>3. UpdateTypeOK'
    BY <1>1, <2>1, <2>2, UpdateBlanks, UpdateTypesNext
  <2>4. VersionsAreNamed'
    BY <1>1, <2>1, <2>2 DEF VersionsAreNamed
  <2>5. QED
    BY <2>3, <2>4
<1>2. CASE LaunchCalled
  <2>1. ui.version \in Versions /\ launch' = [step |-> "pending", version |-> ui.version]
    BY <1>2 DEF LaunchCalled, VersionsAreNamed
  <2>2. [step |-> "pending", version |-> ui.version] \in LaunchRecords
    BY <2>1, UpdateBlanks DEF LaunchRecords
  <2>3. QED
    BY <1>1, <1>2, <2>1, <2>2 DEF LaunchCalled
<1>3. ASSUME LaunchProceeds,
             launch' = NoLaunch \/ \E step \in {"assert", "unlink", "clear", "open", "launched"} :
                                      launch' = [launch EXCEPT !.step = step],
             launch.step # "none",
             pending' \in {pending, NoPending},
             UNCHANGED <<worldVars, activeDownload, download, startup, ui, reloads>>
      PROVE  UpdateTypeOK' /\ VersionsAreNamed'
  <2>1. launch \in LaunchRecords /\ launch.version \in Versions
    BY <1>3 DEF VersionsAreNamed
  <2>2. ASSUME NEW step \in {"assert", "unlink", "clear", "open", "launched"}
        PROVE  /\ [launch EXCEPT !.step = step] \in LaunchRecords
               /\ [launch EXCEPT !.step = step].version = launch.version
    BY <2>1 DEF LaunchRecords
  <2>3. QED
    BY <1>1, <1>3, <2>1, <2>2
<1>4. CASE LaunchReads
  BY <1>3, <1>4 DEF LaunchReads, LaunchProceeds
<1>5. CASE PayloadAsserted
  BY <1>3, <1>5 DEF PayloadAsserted, LaunchProceeds
<1>6. CASE LaunchDiscards
  BY <1>3, <1>6 DEF LaunchDiscards, LaunchProceeds
<1>7. CASE InstallerOpened
  BY <1>3, <1>7 DEF InstallerOpened, LaunchProceeds
<1>8. QED
  BY <1>2, <1>4, <1>5, <1>6, <1>7 DEF LaunchProceeds

(* The world keeps the types, too, and so does the end of the application. *)
LEMMA WorldKeepsTypes ==
    ASSUME UpdateTypeOK, VersionsAreNamed, scenario \in Scenarios,
           ReleaseChanges \/ PageReloaded \/ UpdateKilled \/ UNCHANGED updateVars
    PROVE  UpdateTypeOK' /\ VersionsAreNamed'
<1> USE UpdateTypes
<1>1. CASE ReleaseChanges
  <2>1. /\ latest' \in VersionOrNone /\ installed' = installed /\ pending' = pending
        /\ activeDownload' = activeDownload /\ download' = download /\ startup' = startup
        /\ launch' = launch /\ ui' = ui /\ reloads' = reloads
    BY <1>1 DEF ReleaseChanges, mainVars
  <2>2. QED
    BY <2>1, UpdateTypesNext DEF VersionsAreNamed
<1>2. CASE PageReloaded
  <2>1. /\ latest' = latest /\ installed' = installed /\ pending' = pending
        /\ activeDownload' = activeDownload /\ startup' = startup
        /\ launch' = launch /\ ui' = Idle /\ reloads' = reloads + 1
        /\ download' = [d \in UpdateCalls |-> [download[d] EXCEPT !.heard = FALSE]]
    BY <1>2 DEF PageReloaded, worldVars
  <2>2. ASSUME NEW d \in UpdateCalls
        PROVE  /\ [download[d] EXCEPT !.heard = FALSE] \in DownloadRecords
               /\ [download[d] EXCEPT !.heard = FALSE].step = download[d].step
               /\ [download[d] EXCEPT !.heard = FALSE].version = download[d].version
    BY DEF DownloadRecords
  <2>3. UpdateTypeOK'
    BY <2>1, <2>2, UpdateBlanks, UpdateTypesNext
  <2>4. VersionsAreNamed'
    BY <2>1, <2>2 DEF VersionsAreNamed, Idle
  <2>5. QED
    BY <2>3, <2>4
<1>3. CASE UpdateKilled
  <2>1. /\ installed' = installed \/ (launch.step # "none" /\ installed' = launch.version)
        /\ latest' = latest /\ reloads' = reloads /\ pending' \in {pending, NoPending}
        /\ activeDownload' = NoVersion /\ startup' = NoStartup /\ launch' = NoLaunch
        /\ ui' = Idle
        /\ download' = [d \in UpdateCalls |->
                          IF download[d].step \in {"none"} \cup DownloadEnds
                          THEN download[d] ELSE [NoDownload EXCEPT !.step = "killed"]]
    BY <1>3 DEF UpdateKilled
  <2>2. /\ [NoDownload EXCEPT !.step = "killed"] \in DownloadRecords
        /\ [NoDownload EXCEPT !.step = "killed"].step = "killed"
    BY UpdateBlanks DEF NoDownload, DownloadRecords, DownloadSteps, DownloadEnds
  <2>3. installed' \in VersionOrNone
    BY <2>1 DEF VersionsAreNamed, VersionOrNone
  <2>4. /\ download' \in [UpdateCalls -> DownloadRecords]
        /\ \A d \in UpdateCalls : download'[d] = download[d] \/ download'[d].step = "killed"
    BY <2>1, <2>2
  <2>5. UpdateTypeOK'
    BY <2>1, <2>3, <2>4, UpdateBlanks, UpdateTypesNext
  <2>6. VersionsAreNamed'
    BY <2>1, <2>4 DEF VersionsAreNamed, Idle, NoStartup, NoLaunch
  <2>7. QED
    BY <2>5, <2>6
<1>4. CASE UNCHANGED updateVars
  BY <1>4, UpdateTypesNext DEF updateVars, mainVars, worldVars, VersionsAreNamed
<1>5. QED
  BY <1>1, <1>2, <1>3, <1>4

(* The types hold before anything has happened. *)
LEMMA UpdateStarts == Init => UpdateTypeOK /\ VersionsAreNamed
<1> SUFFICES ASSUME Init PROVE UpdateTypeOK /\ VersionsAreNamed
  OBVIOUS
<1>1. scenario.legacy \in VersionOrNone
  BY DownloadsAssumption DEF Init, FilesInit, UpdateAssumption, VersionOrNone, NoVersion
<1>2. /\ installed = NoVersion /\ latest \in VersionOrNone
      /\ pending = [version |-> scenario.legacy, userInitiated |-> FALSE]
      /\ activeDownload = NoVersion
      /\ download = [d \in UpdateCalls |-> NoDownload]
      /\ startup = NoStartup /\ launch = NoLaunch /\ ui = Idle /\ reloads = 0
  BY DEF Init, UpdateInit
<1>3. pending \in PendingUpdates /\ (pending = NoPending \/ pending.version \in Versions)
  BY <1>1, <1>2 DEF PendingUpdates, NoPending, VersionOrNone
<1>4. UpdateTypeOK
  BY <1>2, <1>3, UpdateBlanks, UpdateTypes
<1>5. VersionsAreNamed
  BY <1>2, <1>3 DEF VersionsAreNamed, Idle, NoDownload, NoStartup, NoLaunch
<1>6. QED
  BY <1>4, <1>5

-------------------------------------------------------------------------------
(* The files of the update. *)

\* A transfer belongs to the download that awaits it.
UpdateTransfers ==
    \A d \in UpdateCalls :
        Transferring(d) => DownloadAt(d, "transfer") /\ transfer[d].path = download[d].version

UpdateBase == FilesTypeOK /\ UpdateTypeOK /\ VersionsAreNamed /\ UpdateTransfers

\* A download that is at its transfer stays there, for the same version.
TransfersAwaited(d) ==
    DownloadAt(d, "transfer") =>
        download'[d].step = "transfer" /\ download'[d].version = download[d].version

(* Who transfers, transfers an installer. *)
LEMMA InstallersAreTransferred ==
    ASSUME UpdateBase, NEW d \in UpdateCalls, Transferring(d)
    PROVE  /\ DownloadAt(d, "transfer") /\ transfer[d].path = download[d].version
           /\ transfer[d].path \in Versions
BY DEF UpdateBase, UpdateTransfers, VersionsAreNamed, DownloadAt

(* The files are not touched. *)
LEMMA NoFileIsTouched ==
    ASSUME UpdateBase, UNCHANGED fileVars, \A d \in UpdateCalls : TransfersAwaited(d)
    PROVE  FilesTypeOK' /\ UpdateTransfers' /\ ModelFilesStay
<1>1. file' = file /\ transfer' = transfer
  BY DEF fileVars
<1>2. QED
  BY <1>1 DEF UpdateBase, FilesTypeOK, UpdateTransfers, Transferring, TransfersAwaited,
     DownloadAt, ModelFilesStay

(* An installer is removed. *)
LEMMA InstallerIsRemoved ==
    ASSUME UpdateBase, NEW v \in Versions, file' = Unlinked(v) \/ Removed(v),
           UNCHANGED transfer, \A d \in UpdateCalls : TransfersAwaited(d)
    PROVE  /\ FilesTypeOK' /\ UpdateTransfers' /\ ModelFilesStay
           /\ file'[v] \in {file[v], NoFile}
           /\ \A p \in Paths \ {v} : file'[p] = file[p]
<1>1. v \in Paths /\ FilesTypeOK
  BY Numbers DEF UpdateBase
<1>2. /\ FilesTypeOK' /\ file'[v] \in {file[v], NoFile}
      /\ \A p \in Paths \ {v} : file'[p] = file[p]
  BY <1>1, UnlinkKeepsFiles
<1>3. ModelFilesStay
  BY <1>2, Numbers DEF ModelFilesStay
<1>4. UpdateTransfers'
  BY DEF UpdateBase, UpdateTransfers, Transferring, TransfersAwaited, DownloadAt
<1>5. QED
  BY <1>2, <1>3, <1>4

(* One transfer of a download touches its installer only. *)
LEMMA OnlyOfADownload ==
    ASSUME NEW d \in UpdateCalls, NEW v \in Versions, OnlyOf(d, v)
    PROVE  /\ ModelFilesStay
           /\ \A e \in UpdateCalls \ {d} : transfer'[e] = transfer[e]
           /\ \A q \in Versions \ {v} : file'[q] = file[q]
BY Numbers DEF OnlyOf, ModelFilesStay

(* A download begins its transfer. *)
LEMMA DownloadStarts ==
    ASSUME UpdateBase, NEW d \in UpdateCalls, OldInstallerRemoved(d)
    PROVE  /\ FilesTypeOK' /\ UpdateTransfers' /\ OnlyOf(d, download[d].version)
           /\ ModelFilesStay
           /\ download[d].version \in Versions
           /\ transfer'[d].progress = "requested"
           /\ file'[download[d].version].content \in
                 {"none", file[download[d].version].content}
<1> DEFINE v == download[d].version
<1>1. v \in Versions /\ v \in Paths /\ d \in Transfers /\ ~Transferring(d)
  BY Numbers
  DEF UpdateBase, VersionsAreNamed, OldInstallerRemoved, DownloadAt, UpdateTransfers
<1>2. DownloadTo(d, "transfer") /\ "transfer" \in DownloadSteps
  BY DEF OldInstallerRemoved, DownloadSteps
<1>3. /\ download'[d].step = "transfer" /\ download'[d].version = v
      /\ \A e \in UpdateCalls \ {d} : download'[e] = download[e]
  BY <1>2, DownloadGoes DEF UpdateBase
<1>4. /\ FilesTypeOK' /\ OnlyOf(d, v)
      /\ transfer'[d] = [progress |-> "requested", path |-> v]
      /\ file'[v] \in {file[v], NoFile}
  BY <1>1, StartKeepsFiles DEF UpdateBase, OldInstallerRemoved, Removed
<1>5. ModelFilesStay /\ \A e \in UpdateCalls \ {d} : transfer'[e] = transfer[e]
  BY <1>1, <1>4, OnlyOfADownload
<1>6. UpdateTransfers'
  BY <1>3, <1>4, <1>5 DEF UpdateBase, UpdateTransfers, Transferring, DownloadAt
<1>7. QED
  BY <1>1, <1>4, <1>5, <1>6, NoFileIsOne

(* The transfer of a download is over, in one way or another. *)
LEMMA TransferIsOver ==
    ASSUME UpdateBase, NEW d \in UpdateCalls, TransferEnds(d) \/ TransferStops(d),
           \A e \in UpdateCalls \ {d} : download'[e] = download[e]
    PROVE  /\ FilesTypeOK' /\ UpdateTransfers' /\ ModelFilesStay
           /\ OnlyOf(d, download[d].version) /\ download[d].version \in Versions
<1>1. d \in Transfers /\ FilesTypeOK
  BY Numbers DEF UpdateBase
<1>2. Transferring(d)
  BY DEF TransferEnds, TransferStops, Transferring
<1>3. transfer[d].path = download[d].version /\ download[d].version \in Versions
  BY <1>2, InstallersAreTransferred
<1>4. FilesTypeOK' /\ OnlyOf(d, download[d].version) /\ ~Transferring(d)'
  BY <1>1, <1>3, EndKeepsFiles, StopKeepsFiles
<1>5. ModelFilesStay /\ \A e \in UpdateCalls \ {d} : transfer'[e] = transfer[e]
  BY <1>3, <1>4, OnlyOfADownload
<1>6. UpdateTransfers'
  BY <1>4, <1>5 DEF UpdateBase, UpdateTransfers, Transferring, DownloadAt
<1>7. QED
  BY <1>3, <1>4, <1>5, <1>6

(* A download receives its installer. *)
LEMMA TransferGoesOn ==
    ASSUME UpdateBase, NEW d \in UpdateCalls, TransferProceeds(d), UNCHANGED updateVars
    PROVE  /\ FilesTypeOK' /\ UpdateTransfers' /\ ModelFilesStay
           /\ OnlyOf(d, download[d].version) /\ download[d].version \in Versions
           /\ Transferring(d) /\ transfer[d].path = download[d].version
           /\ transfer'[d].path = transfer[d].path
<1>1. d \in Transfers /\ FilesTypeOK
  BY Numbers DEF UpdateBase
<1>2. Transferring(d)
  BY DEF TransferProceeds, TransferOpens, TransferGrows, Transferring
<1>3. /\ transfer[d].path = download[d].version /\ download[d].version \in Versions
      /\ DownloadAt(d, "transfer")
  BY <1>2, InstallersAreTransferred
<1>4. PICK v \in Versions : v = transfer[d].path
  BY <1>3
<1>5. /\ FilesTypeOK' /\ OnlyOf(d, v)
      /\ \/ transfer'[d] = [progress |-> "short", path |-> v]
         \/ transfer'[d] = [progress |-> "long", path |-> v]
  <2>1. CASE TransferOpens(d)
    BY <1>1, <1>4, <2>1, OpenKeepsFiles
  <2>2. CASE TransferGrows(d)
    BY <1>1, <1>4, <2>2, GrowthKeepsFiles
  <2>3. QED
    BY <2>1, <2>2 DEF TransferProceeds
<1>6. transfer'[d].path = v
  BY <1>5
<1>7. ModelFilesStay /\ \A e \in UpdateCalls \ {d} : transfer'[e] = transfer[e]
  BY <1>5, OnlyOfADownload
<1>8. download' = download
  BY DEF updateVars, mainVars
<1>9. UpdateTransfers'
  BY <1>3, <1>4, <1>6, <1>7, <1>8 DEF UpdateBase, UpdateTransfers, Transferring, DownloadAt
<1>10. QED
  BY <1>2, <1>3, <1>4, <1>5, <1>6, <1>7, <1>9

(* The update, as far as types and files are concerned, after each of its steps. *)
LEMMA UpdateGoesOn ==
    ASSUME UpdateBase, scenario \in Scenarios, UpdateStep
    PROVE  UpdateBase' /\ ModelFilesStay
<1> DEFINE Kept == UpdateBase' /\ ModelFilesStay
<1> SUFFICES Kept
  OBVIOUS
<1>1. UpdateTypeOK /\ VersionsAreNamed
  BY DEF UpdateBase
<1>2. ASSUME UpdateTypeOK', VersionsAreNamed', UNCHANGED fileVars,
             \A d \in UpdateCalls : TransfersAwaited(d)
      PROVE  Kept
  BY <1>2, NoFileIsTouched DEF UpdateBase
<1>3. ASSUME UpdateTypeOK', VersionsAreNamed', NEW v \in Versions,
             file' = Unlinked(v) \/ Removed(v), UNCHANGED transfer, \A d \in UpdateCalls : TransfersAwaited(d)
      PROVE  Kept
  BY <1>3, InstallerIsRemoved DEF UpdateBase
<1>4. ASSUME UNCHANGED download
      PROVE  \A d \in UpdateCalls : TransfersAwaited(d)
  BY <1>4 DEF TransfersAwaited, DownloadAt
<1>5. CASE StartupCalled \/ StartupProceeds
  <2>1. UpdateTypeOK' /\ VersionsAreNamed'
    BY <1>1, <1>5, StartupKeepsTypes
  <2>2. UNCHANGED download
    BY <1>5
    DEF StartupCalled, StartupProceeds, ReleaseChecked, PendingRead, StartupDiscards,
        StartupAnswered
  <2>3. CASE UNCHANGED fileVars
    BY <1>2, <1>4, <2>1, <2>2, <2>3
  <2>4. CASE StartupDiscards /\ startup.step = "unlink"
    <3>1. startup.pending.version \in Versions
      BY <1>1, <2>4 DEF VersionsAreNamed
    <3>2. Removed(startup.pending.version) /\ UNCHANGED transfer
      BY <2>4 DEF StartupDiscards
    <3>3. QED
      BY <1>3, <1>4, <2>1, <2>2, <3>1, <3>2
  <2>5. QED
    BY <1>5, <2>3, <2>4
    DEF StartupCalled, StartupProceeds, ReleaseChecked, PendingRead, StartupDiscards,
        StartupAnswered, fileVars
<1>6. CASE LaunchCalled \/ LaunchProceeds
  <2>1. UpdateTypeOK' /\ VersionsAreNamed'
    BY <1>1, <1>6, LaunchKeepsTypes
  <2>2. UNCHANGED download
    BY <1>6
    DEF LaunchCalled, LaunchProceeds, LaunchReads, PayloadAsserted, LaunchDiscards,
        InstallerOpened
  <2>3. CASE UNCHANGED fileVars
    BY <1>2, <1>4, <2>1, <2>2, <2>3
  <2>4. CASE LaunchDiscards /\ launch.step = "unlink"
    <3>1. launch.version \in Versions
      BY <1>1, <2>4 DEF VersionsAreNamed
    <3>2. Removed(launch.version) /\ UNCHANGED transfer
      BY <2>4 DEF LaunchDiscards
    <3>3. QED
      BY <1>3, <1>4, <2>1, <2>2, <3>1, <3>2
  <2>5. QED
    BY <1>6, <2>3, <2>4
    DEF LaunchCalled, LaunchProceeds, LaunchReads, PayloadAsserted, LaunchDiscards,
        InstallerOpened, fileVars
<1>7. CASE ReleaseChanges \/ PageReloaded
  <2>1. UpdateTypeOK' /\ VersionsAreNamed'
    BY <1>1, <1>7, WorldKeepsTypes
  <2>2. UNCHANGED fileVars
    BY <1>7 DEF ReleaseChanges, PageReloaded
  <2>3. \A d \in UpdateCalls : download'[d].step = download[d].step
                               /\ download'[d].version = download[d].version
    BY <1>1, <1>7, UpdateTypes DEF ReleaseChanges, PageReloaded, mainVars, DownloadRecords
  <2>4. \A d \in UpdateCalls : TransfersAwaited(d)
    BY <2>3 DEF TransfersAwaited, DownloadAt
  <2>5. QED
    BY <1>2, <2>1, <2>2, <2>4
<1>8. ASSUME NEW v \in Versions, InstallerLost(v) PROVE Kept
  <2>1. UNCHANGED updateVars /\ UNCHANGED transfer /\ file' = Unlinked(v)
    BY <1>8 DEF InstallerLost
  <2>2. UpdateTypeOK' /\ VersionsAreNamed'
    BY <1>1, <2>1, WorldKeepsTypes
  <2>3. QED
    BY <1>3, <1>4, <2>1, <2>2 DEF updateVars, mainVars
<1>9. ASSUME NEW d \in UpdateCalls, TransferProceeds(d), UNCHANGED updateVars PROVE Kept
  BY <1>1, <1>9, WorldKeepsTypes, TransferGoesOn DEF UpdateBase
<1>10. ASSUME NEW d \in UpdateCalls, DownloadCalled(d) \/ DownloadProceeds(d) PROVE Kept
  <2>1. /\ UpdateTypeOK' /\ VersionsAreNamed'
        /\ \A e \in UpdateCalls \ {d} : download'[e] = download[e]
    BY <1>1, <1>10, DownloadsKeepTypes
  <2>2. ASSUME UNCHANGED fileVars, ~DownloadAt(d, "transfer") PROVE Kept
    BY <1>2, <2>1, <2>2 DEF TransfersAwaited, DownloadAt
  <2>3. CASE DownloadCalled(d)
    BY <2>2, <2>3 DEF DownloadCalled, DownloadAt
  <2>4. CASE ExistingRead(d) \/ DirectoryFails(d) \/ InstallerVerified(d)
             \/ InstallerRecorded(d)
    BY <2>2, <2>4
    DEF ExistingRead, DirectoryFails, InstallerVerified, InstallerRecorded, DownloadAt
  <2>5. CASE OldInstallerRemoved(d)
    BY <2>1, <2>5, DownloadStarts DEF UpdateBase
  <2>6. ASSUME TransferEnds(d) \/ TransferStops(d) PROVE Kept
    BY <2>1, <2>6, TransferIsOver DEF UpdateBase
  <2>7. CASE InstallerDownloaded(d)
    BY <2>6, <2>7 DEF InstallerDownloaded
  <2>8. CASE DownloadFails(d)
    BY <2>2, <2>6, <2>8 DEF DownloadFails, DownloadAt
  <2>9. CASE DownloadDiscards(d)
    <3>1. CASE DownloadAt(d, "clear")
      BY <2>2, <2>9, <3>1 DEF DownloadDiscards, DownloadAt
    <3>2. CASE DownloadAt(d, "discard")
      <4>1. download[d].version \in Versions
        BY <1>1, <3>2 DEF VersionsAreNamed, DownloadAt
      <4>2. Removed(download[d].version) /\ UNCHANGED transfer
        BY <2>9, <3>2 DEF DownloadDiscards, DownloadAt
      <4>3. \A e \in UpdateCalls : TransfersAwaited(e)
        BY <2>1, <3>2 DEF TransfersAwaited, DownloadAt
      <4>4. QED
        BY <1>3, <2>1, <4>1, <4>2, <4>3
    <3>3. QED
      BY <2>9, <3>1, <3>2 DEF DownloadDiscards
  <2>10. QED
    BY <1>10, <2>3, <2>4, <2>5, <2>7, <2>8, <2>9 DEF DownloadProceeds
<1>11. QED
  BY <1>5, <1>6, <1>7, <1>8, <1>9, <1>10 DEF UpdateStep, UpdateProceeds

(* What the local model does leaves the update alone. *)
LEMMA UpdateIsLeftAlone ==
    ASSUME UpdateBase, UNCHANGED updateVars, scenario \in Scenarios, FilesTypeOK',
           UpdateFilesStay
    PROVE  UpdateBase'
<1>1. UpdateTypeOK' /\ VersionsAreNamed'
  BY WorldKeepsTypes DEF UpdateBase
<1>2. download' = download
  BY DEF updateVars, mainVars
<1>3. UpdateTransfers'
  BY <1>2 DEF UpdateBase, UpdateTransfers, UpdateFilesStay, Transferring, DownloadAt
<1>4. QED
  BY <1>1, <1>3 DEF UpdateBase

-------------------------------------------------------------------------------
(* The whole. *)

DownloadsBase == /\ ModelInv /\ UpdateBase
                 /\ scenario \in Scenarios /\ restarts \in Nat

(* What is there when the application ends, is there when it starts. *)
LEMMA BaseOutlivesARestart ==
    ASSUME DownloadsBase, Restart, UNCHANGED scenario
    PROVE  DownloadsBase'
<1>1. ModelKilled /\ UpdateKilled /\ TransfersKilled /\ FilesTypeOK
  BY DEF Restart, DownloadsBase, UpdateBase
<1>2. FilesTypeOK' /\ \A d \in Transfers : ~Transferring(d)'
  BY <1>1, KillKeepsFiles
<1>3. ModelInv'
  BY <1>1, ModelIsKilled DEF DownloadsBase
<1>4. UpdateTypeOK' /\ VersionsAreNamed'
  BY <1>1, WorldKeepsTypes DEF DownloadsBase, UpdateBase
<1>5. UpdateTransfers'
  BY <1>2, Numbers DEF UpdateTransfers
<1>6. restarts' \in Nat
  BY DEF DownloadsBase, Restart
<1>7. QED
  BY <1>2, <1>3, <1>4, <1>5, <1>6 DEF DownloadsBase, UpdateBase

(* Every step keeps it. *)
LEMMA BaseIsKept == DownloadsBase /\ [Next]_vars => DownloadsBase'
<1> SUFFICES ASSUME DownloadsBase, [Next]_vars PROVE DownloadsBase'
  OBVIOUS
<1>1. FilesTypeOK /\ ModelInv /\ UpdateBase /\ scenario \in Scenarios /\ restarts \in Nat
  BY DEF DownloadsBase, UpdateBase
<1>2. CASE ModelStep /\ UNCHANGED <<updateVars, restarts>> /\ UNCHANGED scenario
  BY <1>1, <1>2, ModelGoesOn, UpdateIsLeftAlone DEF DownloadsBase
<1>3. CASE UpdateStep /\ UNCHANGED <<modelVars, restarts>> /\ UNCHANGED scenario
  BY <1>1, <1>3, UpdateGoesOn, ModelIsLeftAlone DEF DownloadsBase
<1>4. CASE Restart /\ UNCHANGED scenario
  BY <1>4, BaseOutlivesARestart
<1>5. CASE UNCHANGED vars
  <2>1. /\ UNCHANGED modelVars /\ UNCHANGED updateVars /\ UNCHANGED fileVars
        /\ restarts' = restarts /\ scenario' = scenario
    BY <1>5 DEF vars
  <2>2. FilesTypeOK' /\ ModelFilesStay /\ UpdateFilesStay
    BY <1>1, <2>1 DEF FilesTypeOK, fileVars, ModelFilesStay, UpdateFilesStay
  <2>3. QED
    BY <1>1, <2>1, <2>2, UpdateIsLeftAlone, ModelIsLeftAlone DEF DownloadsBase
<1>6. QED
  BY <1>2, <1>3, <1>4, <1>5 DEF Next

(* It holds before anything has happened. *)
LEMMA BaseStarts == Init => DownloadsBase
<1> SUFFICES ASSUME Init PROVE DownloadsBase
  OBVIOUS
<1>1. UpdateTransfers
  BY Numbers, IdleTransferIsOne DEF Init, FilesInit, UpdateTransfers, Transferring
<1>2. QED
  BY <1>1, ModelStarts, UpdateStarts DEF Init, FilesInit, DownloadsBase, UpdateBase

(* One model is in memory at a time and it is the one that was asked for, whatever
   is installed, saved and summarised meanwhile and however often the application
   ends; what a cancelled download leaves is nothing (DownloadsInv:
   localLlmInference.main.ts:64-111, localLlmExtension.main.ts:238-321). *)
THEOREM DownloadsInvariant == Spec => []DownloadsInv
<1>1. DownloadsBase => DownloadsInv
  BY ModelIsSafe DEF DownloadsBase, UpdateBase, DownloadsInv
<1>2. QED
  BY <1>1, BaseStarts, BaseIsKept, PTL DEF Spec

-------------------------------------------------------------------------------
(* What is launched. *)

\* Nothing but this program changes the installers, their directory can be made and
\* the page is not reloaded.
Calm == scenario.faults \cap {"reload", "withdrawn", "lost", "mkdir"} = {}

DownloadRuns(d) == download[d].step \notin {"none"} \cup DownloadEnds

\* What the page shows is what goes on, and one thing goes on at a time.
PageKnows ==
    /\ startup.step # "none" <=> ui.kind = "checking"
    /\ \A d \in UpdateCalls : DownloadRuns(d) =>
        /\ ui.kind = "downloading" /\ download[d].version = ui.version /\ download[d].heard
        /\ download[d].step \in {"unlink", "transfer", "verify", "write"}
        /\ activeDownload = ui.version
        /\ \A e \in UpdateCalls : DownloadRuns(e) => e = d
    /\ (\A d \in UpdateCalls : ~DownloadRuns(d)) => activeDownload = NoVersion
    /\ launch.step # "none" =>
        /\ ui.kind = "ready" /\ launch.version = ui.version
        /\ launch.step \in {"pending", "assert", "open", "launched"}

\* What the page calls ready is recorded, there and new.
ReadyIsWhole ==
    ui.kind = "ready" =>
        /\ pending.version = ui.version /\ pending.userInitiated
        /\ file[ui.version].content = "complete"
        /\ ui.version > installed

\* What it offers or downloads is new, and nothing is recorded of it yet.
OfferIsNew ==
    ui.kind \in {"available", "downloading"} =>
        /\ ui.version > installed /\ ui.version <= latest
        /\ pending.userInitiated => pending.version # ui.version

\* An installer that is recorded is there, or will not be asked for again.
RecordIsWhole ==
    pending.userInitiated =>
        /\ pending.version <= latest
        /\ file[pending.version].content \in {"none", "complete"}
        /\ file[pending.version].content = "none" =>
             pending.version < latest \/ pending.version <= installed

\* The same for the release that a check has found, which may be older by now.
CheckIsFit ==
    startup.step \notin {"none", "check"} /\ ~startup.failed =>
        /\ startup.latest <= latest
        /\ pending.userInitiated =>
            /\ pending.version <= startup.latest
            /\ file[pending.version].content = "none" =>
               pending.version < startup.latest \/ pending.version <= installed

\* What a check has read of the metadata is still true.
CheckIsTrue ==
    /\ startup.step = "answer" =>
         \/ /\ startup.pending = NoPending
            /\ pending.userInitiated => file[pending.version].content = "none"
         \/ /\ startup.pending = pending /\ IsWanted(pending)
            /\ file[pending.version].content # "none"
    /\ startup.step \in {"unlink", "clear"} =>
            startup.pending = pending /\ ~IsWanted(pending)

\* A download writes the file that it has truncated last.
DownloadIsWhole ==
    \A d \in UpdateCalls :
      /\ transfer[d].progress \in {"short", "long"} =>
           d \in file[transfer[d].path].writers /\ file[transfer[d].path].opener = d
      /\ download[d].step \in {"verify", "write"} =>
           file[download[d].version].content = "complete"

CalmInv ==
    /\ PageKnows /\ ReadyIsWhole /\ OfferIsNew /\ RecordIsWhole /\ CheckIsFit /\ CheckIsTrue
    /\ DownloadIsWhole

(* The versions are numbers. *)
LEMMA VersionsAreNumbers ==
    ASSUME UpdateTypeOK
    PROVE  /\ installed \in Nat /\ latest \in Nat /\ pending.version \in Nat
           /\ startup.latest \in Nat /\ ui.version \in Nat /\ launch.version \in Nat
           /\ pending.userInitiated \in BOOLEAN
           /\ startup \in StartupRecords /\ pending \in PendingUpdates
           /\ \A d \in UpdateCalls : download[d] \in DownloadRecords
           /\ activeDownload \in Nat
<1>1. VersionOrNone \subseteq Nat
  BY Numbers DEF VersionOrNone, NoVersion
<1>2. QED
  BY <1>1, UpdateTypes DEF PendingUpdates, StartupRecords, Views, LaunchRecords

(* Who transfers runs. *)
LEMMA OneDownloadTransfers ==
    ASSUME UpdateBase, NEW d \in UpdateCalls
    PROVE  /\ transfer[d].progress # "none" => DownloadRuns(d)
           /\ ~DownloadRuns(d) => transfer[d].progress \notin {"short", "long"}
BY DEF UpdateBase, UpdateTransfers, Transferring, DownloadAt, DownloadRuns, DownloadEnds

(* A check, while nothing is downloaded or launched. *)
LEMMA CheckStaysCalm ==
    ASSUME UpdateBase, CalmInv, StartupCalled \/ StartupProceeds
    PROVE  CalmInv'
<1>1. /\ UpdateTypeOK /\ VersionsAreNamed /\ FilesTypeOK
      /\ PageKnows /\ ReadyIsWhole /\ OfferIsNew /\ RecordIsWhole /\ CheckIsFit
      /\ CheckIsTrue /\ DownloadIsWhole
  BY DEF UpdateBase, CalmInv
<1>2. /\ ui.kind \in {"idle", "checking"}
      /\ UNCHANGED <<worldVars, activeDownload, download, launch>>
      /\ transfer' = transfer
  BY <1>1
  DEF StartupCalled, StartupProceeds, ReleaseChecked, PendingRead, StartupDiscards,
      StartupAnswered, PageKnows, fileVars
<1>3. /\ installed' = installed /\ latest' = latest /\ activeDownload' = activeDownload
      /\ download' = download /\ launch' = launch
  BY <1>2 DEF worldVars
<1>4. /\ \A d \in UpdateCalls : ~DownloadRuns(d) /\ ~DownloadRuns(d)'
                                /\ transfer'[d].progress \notin {"short", "long"}
                                /\ download'[d].step \notin {"verify", "write"}
      /\ activeDownload' = NoVersion /\ launch.step = "none" /\ launch'.step = "none"
  BY <1>1, <1>2, <1>3, OneDownloadTransfers DEF PageKnows, DownloadRuns, DownloadEnds
<1>5. DownloadIsWhole'
  BY <1>4 DEF DownloadIsWhole
<1>6. ASSUME startup'.step # "none" <=> ui'.kind = "checking"
      PROVE  PageKnows'
  BY <1>4, <1>6 DEF PageKnows
<1>7. ASSUME ui'.kind \notin {"available", "downloading", "ready"}
      PROVE  ReadyIsWhole' /\ OfferIsNew'
  BY <1>7 DEF ReadyIsWhole, OfferIsNew
<1>8. ASSUME file' = file, pending' = pending
      PROVE  RecordIsWhole'
  BY <1>1, <1>3, <1>8 DEF RecordIsWhole
<1>9. CASE StartupCalled
  <2>1. /\ file' = file /\ pending' = pending
        /\ ui'.kind = "checking" /\ startup'.step = "check"
    BY <1>9 DEF StartupCalled, fileVars, Idle, NoStartup
  <2>2. CheckIsFit' /\ CheckIsTrue'
    BY <2>1 DEF CheckIsFit, CheckIsTrue
  <2>3. QED
    BY <1>5, <1>6, <1>7, <1>8, <2>1, <2>2 DEF CalmInv
<1>10. CASE ReleaseChecked
  <2>1. /\ file' = file /\ pending' = pending
        /\ ui' = ui /\ startup'.step = "pending" /\ startup.step = "check"
        /\ startup'.failed \/ startup'.latest = latest
    BY <1>10, VersionsAreNumbers, <1>1 DEF ReleaseChecked, fileVars, StartupRecords
  <2>2. CheckIsFit'
    BY <1>1, <1>3, <2>1, VersionsAreNumbers DEF RecordIsWhole, CheckIsFit
  <2>3. CheckIsTrue'
    BY <2>1 DEF CheckIsTrue
  <2>4. QED
    BY <1>1, <1>2, <1>5, <1>6, <1>7, <1>8, <2>1, <2>2, <2>3 DEF CalmInv, PageKnows
<1>11. CASE PendingRead
  <2>1. PICK p \in PendingsRead :
           startup' = [startup EXCEPT !.step = IF p = NoPending \/ IsWanted(p) THEN "answer"
                                               ELSE "unlink",
                                      !.pending = p]
    BY <1>11 DEF PendingRead
  <2>2. /\ file' = file /\ pending' = pending /\ ui' = ui /\ startup.step = "pending"
        /\ startup'.step \in {"answer", "unlink"} /\ startup'.pending = p
        /\ startup'.latest = startup.latest /\ startup'.failed = startup.failed
        /\ startup'.step = "unlink" => p # NoPending /\ ~IsWanted(p)
        /\ startup'.step = "answer" => p = NoPending \/ IsWanted(p)
    BY <1>1, <1>11, <2>1, VersionsAreNumbers DEF PendingRead, fileVars, StartupRecords
  <2>3. CheckIsFit'
    BY <1>1, <1>3, <2>2 DEF CheckIsFit
  <2>4. p = NoPending /\ pending.userInitiated => file[pending.version].content = "none"
    <3>1. \A d \in UpdateCalls : download[d].step \notin {"write", "update"}
      BY <1>4 DEF DownloadRuns, DownloadEnds
    <3>2. pending.userInitiated => file[pending.version].content # "short"
      BY <1>1 DEF RecordIsWhole
    <3>3. pending.userInitiated => pending # NoPending
      BY UpdateBlanks
    <3>4. QED
      BY <3>1, <3>2, <3>3 DEF PendingsRead, Pending
  <2>5. p # NoPending => p = pending /\ file[pending.version].content # "none"
    BY PendingsReadAre
  <2>6. \A q : IsWanted(q)' <=> IsWanted(q)
    BY <1>3, <2>2 DEF IsWanted
  <2>7. CheckIsTrue'
    BY <2>2, <2>4, <2>5, <2>6 DEF CheckIsTrue, IsWanted
  <2>8. QED
    BY <1>1, <1>2, <1>5, <1>6, <1>7, <1>8, <2>2, <2>3, <2>7 DEF CalmInv, PageKnows
<1>12. CASE StartupDiscards /\ startup.step = "unlink"
  <2> DEFINE v == startup.pending.version
  <2>1. /\ startup' = [startup EXCEPT !.step = "clear"] /\ ui' = ui /\ pending' = pending
        /\ Removed(v)
    BY <1>12 DEF StartupDiscards
  <2>2. /\ startup.pending = pending /\ ~IsWanted(pending) /\ v \in Versions
    BY <1>1, <1>12 DEF CheckIsTrue, VersionsAreNamed
  <2>3. /\ startup'.step = "clear" /\ startup'.pending = pending
        /\ startup'.latest = startup.latest /\ startup'.failed = startup.failed
    BY <1>1, <2>1, <2>2, VersionsAreNumbers DEF StartupRecords
  <2>4. file'[pending.version].content \in {file[pending.version].content, "none"}
    BY <1>1, <2>1, <2>2, Numbers, NoFileIsOne, FilesTypes DEF Removed, Unlinked
  <2>5. /\ ~startup.failed =>
              pending.version # startup.latest \/ ~(pending.version > installed)
        /\ startup.failed => ~(pending.version > installed)
    BY <2>2 DEF IsWanted
  <2>6. pending.userInitiated =>
           pending.version < latest \/ pending.version <= installed
    BY ONLY <1>1, <1>12, <2>5, VersionsAreNumbers DEF CheckIsFit
  <2>7. RecordIsWhole'
    BY <1>1, <1>3, <2>1, <2>4, <2>6 DEF RecordIsWhole
  <2>8. CheckIsFit'
    BY ONLY <1>1, <1>3, <1>12, <2>1, <2>3, <2>4, <2>5, VersionsAreNumbers DEF CheckIsFit
  <2>9. CheckIsTrue'
    BY <1>3, <2>1, <2>2, <2>3 DEF CheckIsTrue, IsWanted
  <2>10. QED
    BY <1>1, <1>2, <1>5, <1>6, <1>7, <1>12, <2>1, <2>3, <2>7, <2>8, <2>9 DEF CalmInv, PageKnows
<1>13. CASE StartupDiscards /\ startup.step = "clear"
  <2>1. /\ startup' = [startup EXCEPT !.step = "answer", !.pending = NoPending] /\ ui' = ui
        /\ pending' = NoPending /\ file' = file
    BY <1>13 DEF StartupDiscards
  <2>2. /\ startup'.step = "answer" /\ startup'.pending = NoPending
        /\ startup'.latest = startup.latest /\ startup'.failed = startup.failed
        /\ ~pending'.userInitiated
    BY <1>1, <2>1, VersionsAreNumbers, UpdateBlanks DEF StartupRecords
  <2>3. RecordIsWhole' /\ CheckIsFit' /\ CheckIsTrue'
    BY <1>1, <1>3, <1>13, <2>2 DEF RecordIsWhole, CheckIsFit, CheckIsTrue
  <2>4. QED
    BY <1>1, <1>2, <1>5, <1>6, <1>7, <1>13, <2>1, <2>2, <2>3 DEF CalmInv, PageKnows
<1>14. CASE StartupAnswered
  <2>1. /\ startup.step = "answer" /\ startup' = NoStartup /\ startup'.step = "none"
        /\ ui.kind = "checking" /\ ui' = Shown(startup)
        /\ file' = file /\ pending' = pending
    BY <1>1, <1>14 DEF StartupAnswered, fileVars, NoStartup, PageKnows
  <2>2. PageKnows' /\ CheckIsFit' /\ CheckIsTrue'
    BY <1>6, <2>1 DEF CheckIsFit, CheckIsTrue, Shown
  <2>3. startup.pending.userInitiated => startup.pending = pending /\ IsWanted(pending)
                                         /\ file[pending.version].content # "none"
    BY <1>1, <2>1, UpdateBlanks DEF CheckIsTrue
  <2>4. ReadyIsWhole'
    BY <1>1, <1>3, <2>1, <2>3 DEF ReadyIsWhole, RecordIsWhole, IsWanted, Shown
  <2>5. ui'.kind \in {"available", "downloading"} =>
           /\ ~startup.failed /\ ui'.version = startup.latest /\ startup.latest > installed
           /\ ~(startup.pending.userInitiated /\ startup.pending.version = startup.latest)
    BY <2>1 DEF Shown
  <2>6. ~startup.failed /\ startup.pending = pending /\ IsWanted(pending) =>
           pending.version = startup.latest
    BY DEF IsWanted
  <2>7. ASSUME ui'.kind \in {"available", "downloading"}, pending.userInitiated
        PROVE  pending.version # startup.latest
    <3>1. CASE startup.pending = pending /\ IsWanted(pending)
      BY <2>5, <2>7, <3>1
    <3>2. CASE file[pending.version].content = "none"
      BY <1>1, <2>1, <2>5, <2>7, <3>2, VersionsAreNumbers DEF CheckIsFit
    <3>3. QED
      BY <1>1, <2>1, <2>7, <3>1, <3>2 DEF CheckIsTrue
  <2>8. OfferIsNew'
    BY <1>1, <1>3, <2>1, <2>5, <2>7 DEF OfferIsNew, CheckIsFit
  <2>9. QED
    BY <1>5, <1>8, <2>1, <2>2, <2>4, <2>8 DEF CalmInv
<1>15. QED
  BY <1>9, <1>10, <1>11, <1>12, <1>13, <1>14 DEF StartupProceeds, StartupDiscards

(* A download that runs is the only one, and nothing else goes on; files and
   records of other versions are not its business. *)
LEMMA DownloadStaysCalm ==
    ASSUME UpdateBase, CalmInv, NEW d \in UpdateCalls, DownloadRuns(d) \/ DownloadRuns(d)',
           ui.kind \in {"available", "downloading"},
           ui'.kind \in {"available", "downloading"}, ui'.version = ui.version,
           installed' = installed, latest' = latest, startup' = startup, launch' = launch,
           pending' \in {pending, NoPending},
           \A e \in UpdateCalls \ {d} : ~DownloadRuns(e) /\ ~DownloadRuns(e)',
           DownloadRuns(d)' =>
              /\ ui'.kind = "downloading" /\ download'[d].version = ui.version
              /\ download'[d].heard
              /\ download'[d].step \in {"unlink", "transfer", "verify", "write"}
              /\ activeDownload' = ui.version,
           ~DownloadRuns(d)' => activeDownload' = NoVersion,
           \A v \in Versions \ {ui.version} : file'[v].content = file[v].content,
           \A e \in UpdateCalls \ {d} : transfer'[e] = transfer[e],
           transfer'[d].progress \in {"short", "long"} =>
              LET f == file'[transfer'[d].path] IN d \in f.writers /\ f.opener = d,
           download'[d].step \in {"verify", "write"} =>
              file'[ui.version].content = "complete"
    PROVE  CalmInv'
<1>1. /\ UpdateTypeOK /\ VersionsAreNamed /\ FilesTypeOK
      /\ PageKnows /\ ReadyIsWhole /\ OfferIsNew /\ RecordIsWhole /\ CheckIsFit
      /\ CheckIsTrue /\ DownloadIsWhole
  BY DEF UpdateBase, CalmInv
<1>2. startup'.step = "none" /\ launch'.step = "none" /\ startup.step = "none"
  BY <1>1 DEF PageKnows
<1>3. PageKnows'
  BY <1>2 DEF PageKnows
<1>4. ReadyIsWhole' /\ CheckIsFit' /\ CheckIsTrue'
  BY <1>2 DEF ReadyIsWhole, CheckIsFit, CheckIsTrue
<1>5. pending'.userInitiated => pending' = pending /\ pending.version \in Versions
                                /\ pending.version # ui.version
  BY <1>1, UpdateBlanks DEF VersionsAreNamed, OfferIsNew
<1>6. OfferIsNew'
  BY <1>1, <1>5 DEF OfferIsNew
<1>7. RecordIsWhole'
  BY <1>1, <1>5 DEF RecordIsWhole
<1>8. DownloadIsWhole'
  <2>1. ASSUME NEW e \in UpdateCalls \ {d}
        PROVE  /\ transfer'[e].progress \notin {"short", "long"}
               /\ download'[e].step \notin {"verify", "write"}
    BY <1>1, OneDownloadTransfers DEF DownloadRuns, DownloadEnds
  <2>2. download'[d].step \in {"verify", "write"} => download'[d].version = ui.version
    BY DEF DownloadRuns, DownloadEnds
  <2>3. QED
    BY <2>1, <2>2 DEF DownloadIsWhole
<1>9. QED
  BY <1>3, <1>4, <1>6, <1>7, <1>8 DEF CalmInv

(* What is known of a download that runs. *)
LEMMA RunningDownload ==
    ASSUME UpdateBase, CalmInv, NEW d \in UpdateCalls, DownloadRuns(d)
    PROVE  /\ ui.kind = "downloading" /\ download[d].version = ui.version /\ download[d].heard
           /\ download[d].step \in {"unlink", "transfer", "verify", "write"}
           /\ activeDownload = ui.version /\ ui.version \in Versions
           /\ \A e \in UpdateCalls \ {d} : ~DownloadRuns(e)
BY DEF UpdateBase, CalmInv, PageKnows, VersionsAreNamed

(* A call that answers has ended. *)
LEMMA AnswerIsHeard ==
    ASSUME UpdateBase, CalmInv, NEW d \in UpdateCalls, DownloadRuns(d),
           NEW outcome \in {"ready", "failed"}, Answers(d, outcome), Cleared(d)
    PROVE  /\ ~DownloadRuns(d)' /\ activeDownload' = NoVersion
           /\ ui'.kind = IF outcome = "ready" THEN "ready" ELSE "available"
           /\ ui'.version = ui.version
           /\ \A e \in UpdateCalls \ {d} : ~DownloadRuns(e)'
           /\ download'[d].step \notin {"verify", "write"}
<1>1. /\ download[d].heard /\ download[d].version = ui.version /\ activeDownload = ui.version
      /\ \A e \in UpdateCalls \ {d} : ~DownloadRuns(e)
  BY RunningDownload
<1>2. DownloadTo(d, outcome) /\ outcome \in DownloadSteps /\ outcome \in DownloadEnds
  BY DEF Answers, DownloadSteps, DownloadEnds
<1>3. /\ download'[d].step = outcome
      /\ \A e \in UpdateCalls \ {d} : download'[e] = download[e]
  BY <1>2, DownloadGoes DEF UpdateBase
<1>4. QED
  BY <1>1, <1>2, <1>3 DEF Answers, Cleared, DownloadRuns, DownloadEnds

(* A call that goes on. *)
LEMMA CallGoesOn ==
    ASSUME UpdateBase, CalmInv, NEW d \in UpdateCalls, DownloadRuns(d),
           NEW step \in {"transfer", "verify", "write"}, DownloadTo(d, step)
    PROVE  /\ download'[d].step = step /\ download'[d].version = download[d].version
           /\ download'[d].heard = download[d].heard
           /\ \A e \in UpdateCalls \ {d} : ~DownloadRuns(e) /\ ~DownloadRuns(e)'
<1>1. step \in DownloadSteps
  BY DEF DownloadSteps
<1>2. QED
  BY <1>1, DownloadGoes, RunningDownload DEF UpdateBase, DownloadRuns

(* The download of an installer, which takes it for whole only when it is. *)
LEMMA DownloadsStayCalm ==
    ASSUME UpdateBase, CalmInv, Calm, NEW d \in UpdateCalls,
           DownloadCalled(d) \/ DownloadProceeds(d)
    PROVE  CalmInv'
<1>1. /\ UpdateTypeOK /\ VersionsAreNamed /\ FilesTypeOK
      /\ PageKnows /\ OfferIsNew /\ RecordIsWhole /\ DownloadIsWhole
  BY DEF UpdateBase, CalmInv
<1>2. CASE DownloadCalled(d)
  <2>1. /\ ui.kind = "available" /\ ui.version \in Versions
        /\ ui' = [ui EXCEPT !.kind = "downloading"]
        /\ \A e \in UpdateCalls : ~DownloadRuns(e)
    BY <1>1, <1>2 DEF DownloadCalled, PageKnows, VersionsAreNamed
  <2>2. activeDownload # ui.version
    BY <1>1, <2>1, UpdateBlanks DEF PageKnows
  <2>3. /\ download' = [download EXCEPT
                          ![d] = [step |-> "unlink", version |-> ui.version, heard |-> TRUE]]
        /\ activeDownload' = ui.version
    BY <1>2, <2>2 DEF DownloadCalled
  <2>4. /\ download'[d].step = "unlink" /\ download'[d].version = ui.version
        /\ download'[d].heard
        /\ \A e \in UpdateCalls \ {d} : download'[e] = download[e]
    BY <1>1, <2>3, UpdateTypes
  <2>5. ui'.kind = "downloading" /\ ui'.version = ui.version
    BY <1>1, <2>1, UpdateTypes DEF Views
  <2>6. /\ installed' = installed /\ latest' = latest /\ startup' = startup
        /\ launch' = launch /\ pending' = pending /\ file' = file /\ transfer' = transfer
    BY <1>2 DEF DownloadCalled, worldVars, fileVars
  <2>7. DownloadRuns(d)' /\ \A e \in UpdateCalls \ {d} : ~DownloadRuns(e)'
    BY <2>1, <2>4 DEF DownloadRuns, DownloadEnds
  <2>8. transfer'[d].progress \notin {"short", "long"}
    BY <2>1, <2>6, OneDownloadTransfers
  <2>9. QED
    BY <2>1, <2>3, <2>4, <2>5, <2>6, <2>7, <2>8, DownloadStaysCalm
<1>3. ASSUME DownloadProceeds(d) PROVE DownloadRuns(d)
  BY <1>3
  DEF DownloadProceeds, ExistingRead, DirectoryFails, OldInstallerRemoved,
      InstallerDownloaded, DownloadFails, InstallerVerified, DownloadDiscards, InstallerRecorded, DownloadAt,
      DownloadRuns, DownloadEnds
<1>4. ASSUME DownloadProceeds(d)
      PROVE  /\ ui.kind = "downloading" /\ download[d].version = ui.version
             /\ download[d].heard /\ ui.version \in Versions
             /\ download[d].step \in {"unlink", "transfer", "verify", "write"}
             /\ activeDownload = ui.version
             /\ \A e \in UpdateCalls \ {d} : ~DownloadRuns(e)
             /\ \A e \in UpdateCalls \ {d} : transfer[e].progress \notin {"short", "long"}
             /\ Transferring(d) => transfer[d].path = ui.version
  BY <1>3, <1>4, RunningDownload, OneDownloadTransfers, InstallersAreTransferred
<1>5. CASE OldInstallerRemoved(d)
  <2>1. DownloadProceeds(d)
    BY <1>5 DEF DownloadProceeds
  <2>2. /\ OnlyOf(d, ui.version) /\ transfer'[d].progress = "requested"
    BY <1>4, <1>5, <2>1, DownloadStarts
  <2>3. /\ download'[d].step = "transfer" /\ download'[d].version = ui.version
        /\ download'[d].heard
        /\ \A e \in UpdateCalls \ {d} : ~DownloadRuns(e) /\ ~DownloadRuns(e)'
    BY <1>3, <1>4, <1>5, <2>1, CallGoesOn DEF OldInstallerRemoved
  <2>4. /\ installed' = installed /\ latest' = latest /\ startup' = startup
        /\ launch' = launch /\ pending' = pending /\ ui' = ui
        /\ activeDownload' = activeDownload
    BY <1>5 DEF OldInstallerRemoved, worldVars
  <2>5. /\ \A v \in Versions \ {ui.version} : file'[v].content = file[v].content
        /\ \A e \in UpdateCalls \ {d} : transfer'[e] = transfer[e]
    BY <2>2, Numbers DEF OnlyOf
  <2>6. DownloadRuns(d)'
    BY <2>3 DEF DownloadRuns, DownloadEnds
  <2>7. QED
    BY <1>4, <2>1, <2>2, <2>3, <2>4, <2>5, <2>6, DownloadStaysCalm
<1>6. CASE InstallerDownloaded(d)
  <2>1. DownloadProceeds(d) /\ TransferEnds(d) /\ d \in Transfers
    BY <1>6, Numbers DEF DownloadProceeds, InstallerDownloaded
  <2>2. Transferring(d) /\ transfer[d].path = ui.version /\ transfer[d].progress = "long"
    BY <1>4, <2>1 DEF TransferEnds, Transferring
  <2>3. /\ OnlyOf(d, ui.version) /\ ~Transferring(d)'
        /\ file'[ui.version] = [Written(d, "complete") EXCEPT
                                  !.writers = file[ui.version].writers \ {d}]
    BY <1>1, <2>1, <2>2, EndKeepsFiles
  <2>4. d \in file[ui.version].writers /\ file[ui.version].opener = d
    BY <1>1, <2>2 DEF DownloadIsWhole
  <2>5. Written(d, "complete") \in Files /\ Written(d, "complete").content = "complete"
    BY <1>1, <2>1, <2>2, <2>4, WrittenIsAFile DEF Contents
  <2>6. file'[ui.version].content = "complete"
    BY <2>3, <2>5 DEF Files
  <2>7. /\ download'[d].step = "verify" /\ download'[d].version = ui.version
        /\ download'[d].heard
        /\ \A e \in UpdateCalls \ {d} : ~DownloadRuns(e) /\ ~DownloadRuns(e)'
    BY <1>3, <1>4, <1>6, <2>1, CallGoesOn DEF InstallerDownloaded
  <2>8. /\ installed' = installed /\ latest' = latest /\ startup' = startup
        /\ launch' = launch /\ pending' = pending /\ ui' = ui
        /\ activeDownload' = activeDownload
    BY <1>6 DEF InstallerDownloaded, worldVars
  <2>9. /\ \A v \in Versions \ {ui.version} : file'[v].content = file[v].content
        /\ \A e \in UpdateCalls \ {d} : transfer'[e] = transfer[e]
    BY <2>3, Numbers DEF OnlyOf
  <2>10. DownloadRuns(d)' /\ transfer'[d].progress \notin {"short", "long"}
    BY <2>3, <2>7 DEF DownloadRuns, DownloadEnds, Transferring
  <2>11. QED
    BY <1>4, <2>1, <2>6, <2>7, <2>8, <2>9, <2>10, DownloadStaysCalm
<1>7. CASE DownloadFails(d)
  <2>1. DownloadProceeds(d) /\ Answers(d, "failed") /\ Cleared(d) /\ d \in Transfers
    BY <1>7, Numbers DEF DownloadProceeds, DownloadFails
  <2>2. /\ ~DownloadRuns(d)' /\ activeDownload' = NoVersion
        /\ ui'.kind = "available" /\ ui'.version = ui.version
        /\ \A e \in UpdateCalls \ {d} : ~DownloadRuns(e)'
        /\ download'[d].step \notin {"verify", "write"}
    BY <1>3, <2>1, AnswerIsHeard
  <2>3. download[d].step # "verify"
    BY <1>1, <1>7 DEF DownloadFails, DownloadIsWhole, DownloadAt
  <2>4. TransferStops(d)
    BY <1>7, <2>3 DEF DownloadFails, DownloadAt
  <2>5. Transferring(d) /\ transfer[d].path = ui.version
    BY <1>4, <2>1, <2>4 DEF TransferStops
  <2>6. OnlyOf(d, ui.version) /\ ~Transferring(d)'
    BY <1>1, <2>1, <2>4, <2>5, StopKeepsFiles
  <2>7. /\ installed' = installed /\ latest' = latest /\ startup' = startup
        /\ launch' = launch /\ pending' = pending
    BY <1>7 DEF DownloadFails, worldVars
  <2>8. /\ \A v \in Versions \ {ui.version} : file'[v].content = file[v].content
        /\ \A e \in UpdateCalls \ {d} : transfer'[e] = transfer[e]
    BY <2>6, Numbers DEF OnlyOf
  <2>9. transfer'[d].progress \notin {"short", "long"}
    BY <2>6 DEF Transferring
  <2>10. QED
    BY <1>3, <1>4, <2>1, <2>2, <2>7, <2>8, <2>9, DownloadStaysCalm
<1>8. CASE InstallerVerified(d)
  <2>1. DownloadProceeds(d) /\ download[d].step = "verify"
    BY <1>8 DEF DownloadProceeds, InstallerVerified, DownloadAt
  <2>2. file[ui.version].content = "complete"
    BY <1>1, <1>4, <2>1 DEF DownloadIsWhole
  <2>3. DownloadTo(d, "write")
    BY <1>4, <1>8, <2>1, <2>2 DEF InstallerVerified, PayloadVerdicts
  <2>4. /\ download'[d].step = "write" /\ download'[d].version = ui.version
        /\ download'[d].heard
        /\ \A e \in UpdateCalls \ {d} : ~DownloadRuns(e) /\ ~DownloadRuns(e)'
    BY <1>3, <1>4, <2>1, <2>3, CallGoesOn
  <2>5. /\ installed' = installed /\ latest' = latest /\ startup' = startup
        /\ launch' = launch /\ pending' = pending /\ ui' = ui
        /\ activeDownload' = activeDownload /\ file' = file /\ transfer' = transfer
    BY <1>8 DEF InstallerVerified, worldVars, fileVars
  <2>6. DownloadRuns(d)' /\ transfer'[d].progress \notin {"short", "long"}
    BY <1>1, <2>1, <2>4, <2>5
    DEF DownloadRuns, DownloadEnds, UpdateBase, UpdateTransfers, Transferring, DownloadAt
  <2>7. QED
    BY <1>4, <2>1, <2>2, <2>4, <2>5, <2>6, DownloadStaysCalm
<1>9. CASE InstallerRecorded(d)
  <2>1. DownloadProceeds(d) /\ download[d].step = "write"
    BY <1>4, <1>9 DEF DownloadProceeds, InstallerRecorded, DownloadAt
  <2>2. Cleared(d) /\ file[ui.version].content = "complete"
    BY <1>1, <1>4, <1>9, <2>1 DEF InstallerRecorded, DownloadAt, DownloadIsWhole
  <2>3. /\ installed' = installed /\ latest' = latest /\ startup' = startup
        /\ launch' = launch /\ file' = file /\ transfer' = transfer
    BY <1>9 DEF InstallerRecorded, worldVars, fileVars
  <2>4. transfer'[d].progress \notin {"short", "long"}
    BY <2>1, <2>3 DEF UpdateBase, UpdateTransfers, Transferring, DownloadAt
  <2>5. CASE Answers(d, "failed") /\ pending' \in {pending, NoPending}
    <3>1. /\ ~DownloadRuns(d)' /\ activeDownload' = NoVersion
          /\ ui'.kind = "available" /\ ui'.version = ui.version
          /\ \A e \in UpdateCalls \ {d} : ~DownloadRuns(e)'
          /\ download'[d].step \notin {"verify", "write"}
      BY <1>3, <2>1, <2>2, <2>5, AnswerIsHeard
    <3>2. QED
      BY <1>3, <1>4, <2>1, <2>3, <2>4, <2>5, <3>1, DownloadStaysCalm
  <2>6. CASE /\ Answers(d, "ready")
             /\ pending' = [version |-> download[d].version, userInitiated |-> TRUE]
    <3>1. /\ ~DownloadRuns(d)' /\ activeDownload' = NoVersion
          /\ ui'.kind = "ready" /\ ui'.version = ui.version
          /\ \A e \in UpdateCalls \ {d} : ~DownloadRuns(e)'
          /\ download'[d].step \notin {"verify", "write"}
      BY <1>3, <2>1, <2>2, <2>6, AnswerIsHeard
    <3>2. pending'.version = ui.version /\ pending'.userInitiated
      BY <1>4, <2>1, <2>6
    <3>3. startup.step = "none" /\ launch.step = "none"
      BY <1>1, <1>4, <2>1 DEF PageKnows
    <3>4. PageKnows'
      BY <2>3, <3>1, <3>3 DEF PageKnows
    <3>5. ReadyIsWhole' /\ OfferIsNew' /\ RecordIsWhole'
      BY <1>1, <1>4, <2>1, <2>2, <2>3, <3>1, <3>2
      DEF ReadyIsWhole, OfferIsNew, RecordIsWhole
    <3>6. CheckIsFit' /\ CheckIsTrue'
      BY <2>3, <3>3 DEF CheckIsFit, CheckIsTrue
    <3>7. DownloadIsWhole'
      BY <1>4, <2>1, <2>3, <2>4, <3>1 DEF DownloadIsWhole, DownloadRuns, DownloadEnds
    <3>8. QED
      BY <3>4, <3>5, <3>6, <3>7 DEF CalmInv
  <2>7. QED
    BY <1>9, <2>5, <2>6 DEF InstallerRecorded
<1>10. ASSUME ExistingRead(d) \/ DirectoryFails(d) \/ DownloadDiscards(d) PROVE FALSE
  BY <1>4, <1>10
  DEF DownloadProceeds, ExistingRead, DirectoryFails, DownloadDiscards, DownloadAt, Calm
<1>11. QED
  BY <1>2, <1>5, <1>6, <1>7, <1>8, <1>9, <1>10 DEF DownloadProceeds

(* What a download receives goes to its own stream. *)
LEMMA TransfersStayCalm ==
    ASSUME UpdateBase, CalmInv, NEW d \in UpdateCalls, TransferProceeds(d),
           UNCHANGED updateVars
    PROVE  CalmInv'
<1>1. /\ FilesTypeOK /\ PageKnows /\ DownloadIsWhole /\ d \in Transfers
  BY Numbers DEF UpdateBase, CalmInv
<1>2. Transferring(d)
  BY DEF TransferProceeds, TransferOpens, TransferGrows, Transferring
<1>3. /\ DownloadAt(d, "transfer") /\ DownloadRuns(d)
  BY <1>2, InstallersAreTransferred DEF DownloadAt, DownloadRuns, DownloadEnds
<1>4. /\ ui.kind = "downloading" /\ download[d].version = ui.version /\ download[d].heard
      /\ activeDownload = ui.version /\ ui.version \in Versions
      /\ \A e \in UpdateCalls \ {d} : ~DownloadRuns(e)
  BY <1>3, RunningDownload
<1>5. transfer[d].path = ui.version
  BY <1>2, <1>4, InstallersAreTransferred
<1>6. /\ installed' = installed /\ latest' = latest /\ startup' = startup
      /\ launch' = launch /\ pending' = pending /\ ui' = ui
      /\ activeDownload' = activeDownload /\ download' = download
  BY DEF updateVars, mainVars, worldVars
<1>7. /\ OnlyOf(d, ui.version) /\ transfer'[d].path = ui.version
  BY <1>4, <1>5, TransferGoesOn
<1>8. /\ \A v \in Versions \ {ui.version} : file'[v].content = file[v].content
      /\ \A e \in UpdateCalls \ {d} : transfer'[e] = transfer[e]
  BY <1>7, Numbers DEF OnlyOf
<1>9. d \in file'[ui.version].writers /\ file'[ui.version].opener = d
  <2>1. CASE TransferOpens(d)
    BY <1>1, <1>5, <2>1, OpenKeepsFiles
  <2>2. CASE TransferGrows(d)
    <3>1. file'[ui.version] = Written(d, "long") /\ transfer[d].progress = "short"
      BY <1>1, <1>5, <2>2, GrowthKeepsFiles
    <3>2. d \in file[ui.version].writers /\ file[ui.version].opener = d
      BY <1>1, <1>5, <3>1 DEF DownloadIsWhole
    <3>3. QED
      BY <1>1, <1>5, <3>1, <3>2, WrittenIsAFile DEF Contents
  <2>3. QED
    BY <2>1, <2>2 DEF TransferProceeds
<1>10. download[d].step = "transfer"
  BY <1>3 DEF DownloadAt
<1>11. /\ DownloadRuns(d)' /\ \A e \in UpdateCalls \ {d} : ~DownloadRuns(e)'
  BY <1>3, <1>4, <1>6 DEF DownloadRuns
<1>12. QED
  BY <1>3, <1>4, <1>6, <1>7, <1>8, <1>9, <1>10, <1>11, DownloadStaysCalm

(* An installer is launched while nothing is checked or downloaded. *)
LEMMA LaunchStaysCalm ==
    ASSUME UpdateBase, CalmInv, LaunchCalled \/ LaunchProceeds
    PROVE  CalmInv'
<1>1. /\ UpdateTypeOK /\ PageKnows /\ ReadyIsWhole /\ OfferIsNew /\ RecordIsWhole
      /\ CheckIsFit /\ CheckIsTrue /\ DownloadIsWhole
  BY DEF UpdateBase, CalmInv
<1>2. ui.kind = "ready"
  BY <1>1
  DEF PageKnows, LaunchCalled, LaunchProceeds, LaunchReads, PayloadAsserted,
      LaunchDiscards, InstallerOpened
<1>3. ASSUME file' = file, pending' = pending, transfer' = transfer,
             UNCHANGED <<worldVars, activeDownload, download, startup, ui>>,
             \/ launch' = NoLaunch
             \/ /\ launch'.version = ui.version
                /\ launch'.step \in {"pending", "assert", "open", "launched"}
      PROVE  CalmInv'
  <2>1. /\ installed' = installed /\ latest' = latest /\ activeDownload' = activeDownload
        /\ download' = download /\ startup' = startup /\ ui' = ui
    BY <1>3 DEF worldVars
  <2>2. PageKnows'
    BY <1>1, <1>2, <1>3, <2>1 DEF PageKnows, DownloadRuns, NoLaunch
  <2>3. ReadyIsWhole' /\ OfferIsNew' /\ RecordIsWhole' /\ CheckIsFit'
    BY <1>1, <1>3, <2>1 DEF ReadyIsWhole, OfferIsNew, RecordIsWhole, CheckIsFit
  <2>4. CheckIsTrue'
    BY <1>1, <1>3, <2>1 DEF CheckIsTrue, IsWanted
  <2>5. DownloadIsWhole'
    BY <1>1, <1>3, <2>1 DEF DownloadIsWhole
  <2>6. QED
    BY <2>2, <2>3, <2>4, <2>5 DEF CalmInv
<1>4. CASE LaunchCalled
  <2>1. launch' = [step |-> "pending", version |-> ui.version]
    BY <1>4 DEF LaunchCalled
  <2>2. QED
    BY <1>3, <1>4, <2>1 DEF LaunchCalled, fileVars
<1>5. ASSUME NEW step \in {"assert", "open", "launched"},
             launch' = [launch EXCEPT !.step = step], launch.step # "none"
      PROVE  /\ launch'.version = ui.version
             /\ launch'.step \in {"pending", "assert", "open", "launched"}
  <2>1. launch \in LaunchRecords /\ launch.version = ui.version
    BY <1>1, <1>5, UpdateTypes DEF PageKnows
  <2>2. QED
    BY <1>5, <2>1 DEF LaunchRecords
<1>6. CASE LaunchReads
  <2>1. launch' = [launch EXCEPT !.step = "assert"] \/ launch' = NoLaunch
    BY <1>6 DEF LaunchReads
  <2>2. QED
    BY <1>3, <1>5, <1>6, <2>1 DEF LaunchReads, fileVars
<1>7. CASE PayloadAsserted
  <2>1. launch.version = ui.version /\ file[launch.version].content = "complete"
    BY <1>1, <1>7 DEF PayloadAsserted, PageKnows, ReadyIsWhole
  <2>2. launch' = [launch EXCEPT !.step = "open"]
    BY <1>7, <2>1 DEF PayloadAsserted, PayloadVerdicts
  <2>3. QED
    BY <1>3, <1>5, <1>7, <2>2 DEF PayloadAsserted, fileVars
<1>8. CASE InstallerOpened
  <2>1. launch' = [launch EXCEPT !.step = "launched"] \/ launch' = NoLaunch
    BY <1>8 DEF InstallerOpened
  <2>2. QED
    BY <1>3, <1>5, <1>8, <2>1 DEF InstallerOpened, fileVars
<1>9. ~LaunchDiscards
  BY <1>1 DEF LaunchDiscards, PageKnows
<1>10. QED
  BY <1>4, <1>6, <1>7, <1>8, <1>9 DEF LaunchProceeds

(* There is a new release. *)
LEMMA ReleaseStaysCalm ==
    ASSUME UpdateBase, CalmInv, Calm, ReleaseChanges
    PROVE  CalmInv'
<1>1. /\ UpdateTypeOK /\ UpdateTypeOK' /\ PageKnows /\ ReadyIsWhole /\ OfferIsNew
      /\ RecordIsWhole /\ CheckIsFit /\ CheckIsTrue /\ DownloadIsWhole
  <2>1. latest' \in VersionOrNone
    BY DEF ReleaseChanges
  <2>2. QED
    BY <2>1, UpdateTypes, UpdateTypesNext DEF UpdateBase, CalmInv, ReleaseChanges, mainVars
<1>2. latest' > latest
  BY DEF ReleaseChanges, Calm
<1>3. /\ installed' = installed /\ startup' = startup
      /\ launch' = launch /\ pending' = pending /\ ui' = ui
      /\ activeDownload' = activeDownload /\ download' = download
      /\ file' = file /\ transfer' = transfer
  BY DEF ReleaseChanges, mainVars, fileVars
<1>4. /\ latest' \in Nat /\ latest \in Nat /\ pending.version \in Nat /\ ui.version \in Nat
      /\ startup.latest \in Nat
  <2>1. VersionOrNone \subseteq Nat
    BY Numbers DEF VersionOrNone, NoVersion
  <2>2. QED
    BY <1>1, <2>1, VersionsAreNumbers, UpdateTypesNext
<1>5. PageKnows' /\ ReadyIsWhole' /\ DownloadIsWhole'
  BY <1>1, <1>3 DEF PageKnows, ReadyIsWhole, DownloadIsWhole, DownloadRuns
<1>6. OfferIsNew' /\ RecordIsWhole'
  BY <1>1, <1>2, <1>3, <1>4 DEF OfferIsNew, RecordIsWhole
<1>7. CheckIsFit'
  BY <1>1, <1>2, <1>3, <1>4 DEF CheckIsFit
<1>8. CheckIsTrue'
  BY <1>1, <1>3 DEF CheckIsTrue, IsWanted
<1>9. QED
  BY <1>5, <1>6, <1>7, <1>8 DEF CalmInv

(* The application ends, and its installer may have replaced it. *)
LEMMA RestartStaysCalm ==
    ASSUME UpdateBase, CalmInv, UpdateKilled, TransfersKilled
    PROVE  CalmInv'
<1>1. /\ UpdateTypeOK /\ FilesTypeOK /\ VersionsAreNamed /\ PageKnows /\ ReadyIsWhole
      /\ RecordIsWhole
  BY DEF UpdateBase, CalmInv
<1>2. /\ latest' = latest /\ activeDownload' = NoVersion
      /\ startup' = NoStartup /\ launch' = NoLaunch /\ ui' = Idle
      /\ pending' \in {pending, NoPending}
      /\ installed' \in {installed} \cup IF launch.step = "launched" THEN {launch.version} ELSE {}
      /\ download' = [d \in UpdateCalls |->
                        IF download[d].step \in {"none"} \cup DownloadEnds
                        THEN download[d] ELSE [NoDownload EXCEPT !.step = "killed"]]
  BY DEF UpdateKilled
<1>3. /\ \A d \in UpdateCalls : transfer'[d].progress = "none"
      /\ \A v \in Versions : file'[v].content = file[v].content
  BY <1>1, KillKeepsFiles, Numbers DEF Transferring
<1>4. [NoDownload EXCEPT !.step = "killed"].step = "killed"
  BY DEF NoDownload
<1>5. \A d \in UpdateCalls : ~DownloadRuns(d)' /\ download'[d].step \notin {"verify", "write"}
  BY <1>2, <1>4 DEF DownloadRuns, DownloadEnds
<1>6. /\ startup'.step = "none" /\ launch'.step = "none" /\ ui'.kind = "idle"
  BY <1>2 DEF NoStartup, NoLaunch, Idle
<1>7. PageKnows' /\ ReadyIsWhole' /\ OfferIsNew' /\ CheckIsFit' /\ CheckIsTrue'
  BY <1>2, <1>5, <1>6 DEF PageKnows, ReadyIsWhole, OfferIsNew, CheckIsFit, CheckIsTrue
<1>8. installed' \in Nat /\ installed' >= installed
  BY <1>1, <1>2, VersionsAreNumbers DEF PageKnows, ReadyIsWhole
<1>9. pending'.userInitiated => pending' = pending /\ pending.version \in Versions
  BY <1>1, <1>2, UpdateBlanks DEF VersionsAreNamed
<1>10. RecordIsWhole'
  BY <1>1, <1>2, <1>3, <1>8, <1>9, VersionsAreNumbers DEF RecordIsWhole
<1>11. DownloadIsWhole'
  BY <1>3, <1>5 DEF DownloadIsWhole
<1>12. QED
  BY <1>7, <1>10, <1>11 DEF CalmInv

(* What the local model does is not its business. *)
LEMMA ModelStaysCalm ==
    ASSUME UpdateBase, CalmInv, UNCHANGED updateVars, UpdateFilesStay
    PROVE  CalmInv'
<1>1. /\ installed' = installed /\ latest' = latest /\ startup' = startup
      /\ launch' = launch /\ pending' = pending /\ ui' = ui
      /\ activeDownload' = activeDownload /\ download' = download
  BY DEF updateVars, mainVars, worldVars
<1>2. /\ \A v \in Versions : file'[v] = file[v]
      /\ \A d \in UpdateCalls : transfer'[d] = transfer[d]
  BY DEF UpdateFilesStay
<1>3. /\ UpdateTypeOK /\ VersionsAreNamed /\ PageKnows /\ ReadyIsWhole /\ OfferIsNew
      /\ RecordIsWhole /\ CheckIsFit /\ CheckIsTrue /\ DownloadIsWhole
  BY DEF UpdateBase, CalmInv
<1>4. /\ pending = NoPending \/ pending.version \in Versions
      /\ pending.userInitiated => pending.version \in Versions
      /\ ui.kind = "ready" => ui.version \in Versions
  BY <1>3, UpdateBlanks DEF VersionsAreNamed
<1>5. PageKnows' /\ OfferIsNew' /\ ReadyIsWhole' /\ RecordIsWhole' /\ CheckIsFit'
  BY <1>1, <1>2, <1>3, <1>4
  DEF PageKnows, OfferIsNew, ReadyIsWhole, RecordIsWhole, CheckIsFit, DownloadRuns
<1>6. CheckIsTrue'
  <2>1. IsWanted(pending) => pending.version \in Versions
    <3>1. pending = NoPending => ~(pending.version > installed)
      BY <1>3, UpdateBlanks, VersionsAreNumbers
    <3>2. QED
      BY <1>4, <3>1 DEF IsWanted
  <2>2. QED
    BY <1>1, <1>2, <1>3, <1>4, <2>1 DEF CheckIsTrue, IsWanted
<1>7. DownloadIsWhole'
  <2>1. ASSUME NEW d \in UpdateCalls
        PROVE  /\ transfer[d].progress \in {"short", "long"} => transfer[d].path \in Versions
               /\ download[d].step \in {"verify", "write"} => download[d].version \in Versions
    BY <1>3, InstallersAreTransferred DEF Transferring, VersionsAreNamed
  <2>2. QED
    BY <1>1, <1>2, <1>3, <2>1 DEF DownloadIsWhole
<1>8. QED
  BY <1>5, <1>6, <1>7 DEF CalmInv

LaunchInv == DownloadsBase /\ (Calm => CalmInv)

(* Every step keeps it. *)
LEMMA CalmIsKept == LaunchInv /\ [Next]_vars => LaunchInv'
<1>0. ASSUME [Next]_vars PROVE Calm' <=> Calm
  BY <1>0 DEF Next, vars, Calm
<1> SUFFICES ASSUME LaunchInv, [Next]_vars, Calm PROVE CalmInv'
  BY <1>0, BaseIsKept DEF LaunchInv
<1>1. /\ UpdateBase /\ CalmInv /\ ModelInv /\ FilesTypeOK
  BY DEF LaunchInv, DownloadsBase, UpdateBase
<1>2. CASE ModelStep /\ UNCHANGED <<updateVars, restarts>> /\ UNCHANGED scenario
  BY <1>1, <1>2, ModelGoesOn, ModelStaysCalm
<1>3. CASE UpdateStep
  <2>1. ~PageReloaded /\ \A v \in Versions : ~InstallerLost(v)
    BY DEF Calm, PageReloaded, InstallerLost
  <2>2. QED
    BY <1>1, <1>3, <2>1, CheckStaysCalm, DownloadsStayCalm, TransfersStayCalm,
       LaunchStaysCalm, ReleaseStaysCalm
    DEF UpdateStep, UpdateProceeds
<1>4. CASE Restart
  BY <1>1, <1>4, RestartStaysCalm DEF Restart
<1>5. CASE UNCHANGED vars
  <2>1. UNCHANGED updateVars /\ UpdateFilesStay
    BY <1>5 DEF vars, fileVars, UpdateFilesStay
  <2>2. QED
    BY <1>1, <2>1, ModelStaysCalm
<1>6. QED
  BY <1>2, <1>3, <1>4, <1>5 DEF Next

(* An installer that is launched is the whole one and newer than what runs: a part
   of it that was left by a failure, an end of the application or an older
   download is never recorded, and what is recorded is not written again while it
   is the latest release (LaunchedIsComplete: appUpdate.main.ts:311-340, 406-565,
   580-608). *)
THEOREM LaunchedInstallerIsComplete == Spec => []LaunchedIsComplete
<1>1. Init => LaunchInv
  <2> SUFFICES ASSUME Init PROVE LaunchInv
    OBVIOUS
  <2>1. DownloadsBase
    BY BaseStarts
  <2>2. /\ startup.step = "none" /\ ui.kind = "idle" /\ launch.step = "none"
        /\ activeDownload = NoVersion /\ ~pending.userInitiated
        /\ \A d \in UpdateCalls : download[d].step = "none" /\ transfer[d].progress = "none"
    BY Numbers, IdleTransferIsOne
    DEF Init, UpdateInit, FilesInit, NoStartup, Idle, NoLaunch, NoDownload
  <2>3. CalmInv
    BY <2>2
    DEF CalmInv, PageKnows, ReadyIsWhole, OfferIsNew, RecordIsWhole, CheckIsFit,
        CheckIsTrue, DownloadIsWhole, DownloadRuns
  <2>4. QED
    BY <2>1, <2>3 DEF LaunchInv
<1>2. LaunchInv => LaunchedIsComplete
  BY DEF LaunchInv, Calm, CalmInv, PageKnows, ReadyIsWhole, LaunchedIsComplete
<1>3. QED
  BY <1>1, <1>2, CalmIsKept, PTL DEF Spec

-------------------------------------------------------------------------------
(* The scheduler of the local model is a serial executor. *)

\* Nothing closes it; it ends with the application.
Scheduler ==
    INSTANCE SerialExecutor
        WITH Tasks <- Operations, Cleanup <- NoOperation, NoTask <- NoOperation,
             closed <- FALSE

\* A step of the scheduler, or one that leaves its chain alone.
SchedulerStep == Scheduler!Next \/ UNCHANGED <<waiting, active>>

(* What is handed in is waited for. *)
LEMMA EnqueueSubmits ==
    ASSUME NEW operation \in Operations, Enqueue(operation)
    PROVE  SchedulerStep
BY DEF Enqueue, SchedulerStep, Scheduler!Next, Scheduler!Submit

(* An operation that runs can end. *)
LEMMA EndEnds ==
    ASSUME active # NoOperation, OperationEnds, UNCHANGED waiting
    PROVE  SchedulerStep
BY DEF OperationEnds, SchedulerStep, Scheduler!Next, Scheduler!End

(* A scheduler that is left alone. *)
LEMMA RestStays ==
    ASSUME UNCHANGED schedulerVars PROVE SchedulerStep
BY DEF schedulerVars, SchedulerStep

(* The operations of the scheduler. *)
LEMMA SchedulerGoesOn ==
    ASSUME PhasesFit, SchedulerProceeds
    PROVE  SchedulerStep
<1>1. CASE OperationBegins
  BY <1>1 DEF OperationBegins, SchedulerStep, Scheduler!Next, Scheduler!Begin
<1>2. CASE Unloaded
  BY <1>2 DEF Unloaded, SchedulerStep
<1>3. CASE ModelLoaded
  BY <1>3 DEF ModelLoaded, SchedulerStep
<1>4. ASSUME LoadFails \/ PromptEnds PROVE SchedulerStep
  <2>1. active # NoOperation
    BY <1>4 DEF LoadFails, PromptEnds, PhasesFit
  <2>2. OperationEnds /\ UNCHANGED waiting
    BY <1>4 DEF LoadFails, PromptEnds, Generates
  <2>3. QED
    BY <2>1, <2>2, EndEnds
<1>5. CASE Disposed
  <2>1. active # NoOperation
    BY <1>5 DEF Disposed, PhasesFit
  <2>2. QED
    BY <1>5, <2>1, EndEnds DEF Disposed
<1>6. QED
  BY <1>1, <1>2, <1>3, <1>4, <1>5 DEF SchedulerProceeds

(* What installations, settings and summaries hand in. *)
LEMMA CallersSubmit ==
    ASSUME \/ \E i \in Installs : InstallProceeds(i)
           \/ SaveProceeds
           \/ \E g \in Generations : StateRead(g) \/ PathResolved(g)
    PROVE  SchedulerStep
<1>1. ASSUME NEW i \in Installs, InstallProceeds(i) PROVE SchedulerStep
  <2>1. ASSUME RuntimeChecked(i) \/ SettingsStored(i)
        PROVE  Enqueue(<<"install", i>>) \/ UNCHANGED schedulerVars
    BY ONLY <2>1 DEF RuntimeChecked, SettingsStored
  <2>2. ASSUME ~(RuntimeChecked(i) \/ SettingsStored(i)) PROVE UNCHANGED schedulerVars
    <3>1. CASE OldModelRemoved(i)
      BY ONLY <3>1 DEF OldModelRemoved
    <3>2. CASE StatusRead(i)
      BY ONLY <3>2 DEF StatusRead
    <3>3. CASE ModelDownloaded(i) \/ ModelNotDownloaded(i)
      BY ONLY <3>3 DEF ModelDownloaded, ModelNotDownloaded
    <3>4. CASE ModelVerified(i)
      BY ONLY <3>4 DEF ModelVerified
    <3>5. CASE SettingsRead(i)
      BY ONLY <3>5 DEF SettingsRead
    <3>6. CASE CancelledModelRemoved(i)
      BY ONLY <3>6 DEF CancelledModelRemoved
    <3>7. QED
      BY <1>1, <2>2, <3>1, <3>2, <3>3, <3>4, <3>5, <3>6 DEF InstallProceeds
  <2>3. QED
    BY <2>1, <2>2, EnqueueSubmits, RestStays DEF Operations
<1>2. ASSUME SaveProceeds PROVE SchedulerStep
  <2>1. Enqueue(<<"save", 0>>) \/ UNCHANGED schedulerVars
    <3>1. CASE SaveReads
      BY ONLY <3>1 DEF SaveReads
    <3>2. CASE SaveWrites
      BY ONLY <3>2 DEF SaveWrites
    <3>3. QED
      BY <1>2, <3>1, <3>2 DEF SaveProceeds
  <2>2. QED
    BY <2>1, EnqueueSubmits, RestStays DEF Operations
<1>3. ASSUME NEW g \in Generations, StateRead(g) \/ PathResolved(g) PROVE SchedulerStep
  <2>1. Enqueue(<<"generate", g>>) \/ UNCHANGED schedulerVars
    BY <1>3 DEF StateRead, PathResolved
  <2>2. QED
    BY <2>1, EnqueueSubmits, RestStays DEF Operations
<1>4. QED
  BY <1>1, <1>2, <1>3

(* Every step of the model is a step of the executor or leaves it alone. *)
LEMMA ModelStepsInOrder ==
    ASSUME PhasesFit, ModelStep
    PROVE  SchedulerStep
<1>1. CASE ModelProceeds
  <2>1. ASSUME NEW i \in Installs, TransferProceeds(i), UNCHANGED modelVars
        PROVE  SchedulerStep
    BY <2>1, RestStays DEF modelVars
  <2>2. QED
    BY <1>1, <2>1, SchedulerGoesOn, CallersSubmit DEF ModelProceeds
<1>2. CASE ~ModelProceeds
  <2>1. ASSUME NEW i \in Installs, NEW m \in Models, NEW force \in BOOLEAN,
               InstallCalled(i, m, force)
        PROVE  UNCHANGED schedulerVars
    BY ONLY <2>1 DEF InstallCalled
  <2>2. ASSUME CancelCalled PROVE UNCHANGED schedulerVars
    BY ONLY <2>2 DEF CancelCalled
  <2>3. ASSUME NEW c \in Contexts, SaveCalled(c) PROVE UNCHANGED schedulerVars
    BY ONLY <2>3 DEF SaveCalled
  <2>4. ASSUME NEW g \in Generations, NEW m \in Models, GenerationCalled(g, m)
        PROVE  UNCHANGED schedulerVars
    BY ONLY <2>4 DEF GenerationCalled
  <2>5. QED
    BY <1>2, <2>1, <2>2, <2>3, <2>4, RestStays DEF ModelStep
<1>3. QED
  BY <1>1, <1>2

(* From one start of the application to its end, the operations on the model in
   memory run one at a time and in the order in which they were asked for: a
   summary, and the disposals of a new model and of a new context, never overlap
   or overtake one another, and one that fails lets the next one run
   (localLlmInference.main.ts:64-71). *)
THEOREM SchedulerIsSerialExecutor ==
    Spec => /\ Scheduler!Init
            /\ [][SchedulerStep \/ (Restart /\ Scheduler!Init')]_vars
<1>1. Init => Scheduler!Init
  BY DEF Init, ModelInit, Scheduler!Init
<1>2. DownloadsBase /\ [Next]_vars => [SchedulerStep \/ (Restart /\ Scheduler!Init')]_vars
  <2> SUFFICES ASSUME DownloadsBase, Next
               PROVE  SchedulerStep \/ (Restart /\ Scheduler!Init')
    OBVIOUS
  <2>1. CASE ModelStep
    BY <2>1, ModelStepsInOrder DEF DownloadsBase, ModelInv, ModelBase
  <2>2. CASE UNCHANGED modelVars
    BY <2>2, RestStays DEF modelVars
  <2>3. CASE Restart
    BY <2>3 DEF Restart, ModelKilled, OperationEnds, Scheduler!Init
  <2>4. QED
    BY <2>1, <2>2, <2>3 DEF Next
<1>3. QED
  BY <1>1, <1>2, BaseStarts, BaseIsKept, PTL DEF Spec
===============================================================================
