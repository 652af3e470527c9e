---------------------------- MODULE WebhookDelivery ----------------------------
(***************************************************************************)
(* The webhook outbox, the dispatcher that fills and flushes it, and the   *)
(* settings file that both of them and the user read and write             *)
(* (ts/minutes/automation/webhookOutbox.std.ts, webhookDispatcher.node.ts, *)
(* automationSettings.node.ts and their wiring in automationRuntime.main). *)
(*                                                                         *)
(* The delays of the retries are abstracted to the moment at which an      *)
(* entry becomes due again.                                                *)
(***************************************************************************)
EXTENDS ArrayFilter, SequencesExt

CONSTANTS
    Events,       \* automation events, each emitted at most once
    Endpoints,    \* webhook endpoints
    Flushes,      \* timers that may call flushDue() at the same time
    MaxChanges,   \* bound: changes of the settings by the user
    MaxCrashes,   \* bound: times the process is killed
    Scenarios     \* the entries the outbox holds, and what may go wrong

AllFaults ==
    {"write",     \* writing the outbox file fails
     "order"}     \* overlapping writes of the file land in any order

ASSUME WebhookAssumption ==
    /\ IsFiniteSet(Endpoints)
    /\ Events \cap Flushes = {}
    /\ MaxChanges \in Nat /\ MaxCrashes \in Nat
    /\ Scenarios \subseteq [maxEntries : Nat \ {0}, faults : SUBSET AllFaults]

Deliveries == Events \X Endpoints
Entry == [id : Deliveries, due : BOOLEAN]

VARIABLES
    entries,    \* #entries of the outbox
    dirty,      \* #dirty
    file,       \* the entries on disk
    writes,     \* writes of the file in progress: who waits, what is written
    emit,       \* enqueue() of each event
    flush,      \* flushDue() of each timer
    settings,   \* the settings file
    user,       \* a change of the settings in progress
    chosen,     \* the settings the user was last told to be saved
    fate,       \* what has become of each delivery
    changes, crashes,
    scenario    \* the choice made from Scenarios

outboxVars == <<entries, dirty, writes>>
settingsVars == <<settings, user, chosen, changes>>
vars == <<outboxVars, settingsVars, file, emit, flush, fate, crashes, scenario>>

Settings == [enabled : BOOLEAN, subscribed : SUBSET Endpoints]
IdleFlush == [step |-> "idle", subscribed |-> {}, todo |-> <<>>,
              read |-> [enabled |-> TRUE, subscribed |-> {}]]
IdleUser == [step |-> "idle",
             read |-> [enabled |-> TRUE, subscribed |-> {}]]

TypeOK ==
    /\ entries \in Seq(Entry) /\ Len(entries) <= scenario.maxEntries
    /\ file \in Seq(Entry) /\ Len(file) <= scenario.maxEntries
    /\ dirty \in BOOLEAN
    /\ \A i \in DOMAIN writes :
          /\ writes[i].for \in Events \cup Flushes
          /\ writes[i].list \in Seq(Entry)
    /\ emit \in [Events -> [step : {"none", "enabled", "endpoints", "add",
                                    "saved", "done"},
                            todo : Seq(Endpoints)]]
    /\ \A f \in Flushes :
          /\ flush[f].step \in {"idle", "enabled", "endpoints", "next", "send",
                                "read", "write", "save"}
          /\ flush[f].subscribed \subseteq Endpoints
          /\ flush[f].todo \in Seq(Entry)
          /\ flush[f].read \in Settings
    /\ settings \in Settings /\ chosen \in Settings
    /\ user.step \in {"idle", "write"} /\ user.read \in Settings
    /\ fate \in [Deliveries -> {"none", "queued", "accepted", "dropped"}]
    /\ changes \in 0..MaxChanges /\ crashes \in 0..MaxCrashes
    /\ scenario \in Scenarios

Init ==
    /\ entries = <<>> /\ dirty = FALSE /\ writes = <<>> /\ file = <<>>
    /\ emit = [e \in Events |-> [step |-> "none", todo |-> <<>>]]
    /\ flush = [f \in Flushes |-> IdleFlush]
    /\ settings = [enabled |-> TRUE, subscribed |-> Endpoints]
    /\ chosen = settings
    /\ user = IdleUser
    /\ fate = [d \in Deliveries |-> "none"]
    /\ changes = 0 /\ crashes = 0
    /\ scenario \in Scenarios

-------------------------------------------------------------------------------
(* The outbox *)

Ids(list) == {list[i].id : i \in DOMAIN list}

InBatch == \E f \in Flushes : flush[f].step \in {"next", "send", "read", "write"}

\* #save() for one caller, with the new list of entries
Save(who, list) ==
    /\ entries' = list
    /\ IF InBatch
       THEN dirty' = TRUE /\ UNCHANGED writes
       ELSE /\ writes' = Append(writes, [for |-> who, list |-> list])
            /\ UNCHANGED dirty

\* add(): the oldest entries make room.
Trimmed(list) ==
    IF Len(list) > scenario.maxEntries
    THEN SubSeq(list, Len(list) - scenario.maxEntries + 1, Len(list))
    ELSE list

\* update() ignores an entry that has been removed meanwhile.
Updated(list, entry) ==
    [i \in DOMAIN list |-> IF list[i].id = entry.id THEN entry ELSE list[i]]
Removed(list, id) ==
    ElementsAt(list, {i \in DOMAIN list : list[i].id # id})

\* A write renames its temporary file; its caller goes on.
WriteEnds(i) ==
    LET who == writes[i].for
    IN  /\ i = 1 \/ "order" \in scenario.faults
        /\ writes' = RemoveAt(writes, i)
        /\ \/ /\ file' = writes[i].list
              /\ emit' = IF who \in Events
                         THEN [emit EXCEPT ![who].step = "add"] ELSE emit
           \/ /\ "write" \in scenario.faults
              /\ UNCHANGED file
              /\ emit' = IF who \in Events
                         THEN [emit EXCEPT ![who].step = "done"] ELSE emit
        /\ flush' = IF who \in Flushes THEN [flush EXCEPT ![who] = IdleFlush]
                                       ELSE flush
        /\ UNCHANGED <<entries, dirty, settingsVars, fate, crashes>>

-------------------------------------------------------------------------------
(* WebhookDispatcher.enqueue() *)

EmitAt(e, step) == emit[e].step = step

Emit(e) ==
    /\ EmitAt(e, "none")
    /\ emit' = [emit EXCEPT ![e].step = "enabled"]
    /\ UNCHANGED <<outboxVars, settingsVars, file, flush, fate, crashes, scenario>>

EmitEnabled(e) ==
    /\ EmitAt(e, "enabled")
    /\ emit' = [emit EXCEPT ![e].step =
                    IF settings.enabled THEN "endpoints" ELSE "done"]
    /\ UNCHANGED <<outboxVars, settingsVars, file, flush, fate, crashes, scenario>>

EmitEndpoints(e) ==
    /\ EmitAt(e, "endpoints")
    /\ emit' = [emit EXCEPT ![e] =
                   [step |-> "add", todo |-> SetToSeq(settings.subscribed)]]
    /\ UNCHANGED <<outboxVars, settingsVars, file, flush, fate, crashes, scenario>>

\* One turn of the loop; in a batch outbox.add() does not wait for a write.
EmitAdds(e) ==
    /\ EmitAt(e, "add")
    /\ IF emit[e].todo = <<>>
       THEN /\ emit' = [emit EXCEPT ![e].step = "done"]
            /\ UNCHANGED <<outboxVars, fate>>
       ELSE LET id == <<e, Head(emit[e].todo)>>
                list == Trimmed(Append(entries, [id |-> id, due |-> TRUE]))
            IN  /\ Save(e, list)
                /\ emit' = [emit EXCEPT ![e] =
                              [step |-> IF InBatch THEN "add" ELSE "saved",
                               todo |-> Tail(@.todo)]]
                /\ fate' = [d \in Deliveries |->
                              IF d = id THEN "queued"
                              ELSE IF d \in Ids(entries) \ Ids(list)
                                   THEN "dropped" ELSE fate[d]]
    /\ UNCHANGED <<settingsVars, file, flush, crashes>>

-------------------------------------------------------------------------------
(* WebhookDispatcher.flushDue() *)

FlushAt(f, step) == flush[f].step = step
FlushGoes(f, step) == flush' = [flush EXCEPT ![f].step = step]

\* Seeded fault: every timer starts a flush of its own.
FlushStartsAgain(f) ==
    /\ FlushAt(f, "idle")
    /\ FlushGoes(f, "enabled")
    /\ UNCHANGED <<outboxVars, settingsVars, file, emit, fate, crashes>>

\* A flush in progress is joined.
FlushStarts(f) ==
    /\ \A g \in Flushes : FlushAt(g, "idle")
    /\ FlushGoes(f, "enabled")
    /\ UNCHANGED <<outboxVars, settingsVars, file, emit, fate, crashes>>

FlushEnabled(f) ==
    /\ FlushAt(f, "enabled")
    /\ FlushGoes(f, IF settings.enabled THEN "endpoints" ELSE "idle")
    /\ UNCHANGED <<outboxVars, settingsVars, file, emit, fate, crashes>>

\* Seeded fault: the comparison with the time is the wrong way round.
FlushEndpointsInverted(f) ==
    /\ FlushAt(f, "endpoints")
    /\ flush' = [flush EXCEPT
                   ![f].step = "next",
                   ![f].subscribed = settings.subscribed,
                   ![f].todo = ElementsAt(entries, {i \in DOMAIN entries : ~entries[i].due})]
    /\ UNCHANGED <<outboxVars, settingsVars, file, emit, fate, crashes>>

\* The batch starts with the entries that are due now.
FlushEndpoints(f) ==
    /\ FlushAt(f, "endpoints")
    /\ flush' = [flush EXCEPT
                   ![f].step = "next",
                   ![f].subscribed = settings.subscribed,
                   ![f].todo = ElementsAt(entries, {i \in DOMAIN entries : entries[i].due})]
    /\ UNCHANGED <<outboxVars, settingsVars, file, emit, fate, crashes>>

Current(f) == Head(flush[f].todo)
FlushDone(f, step) ==
    flush' = [flush EXCEPT ![f].step = step, ![f].todo = Tail(@)]
Fate(id, outcome) ==
    fate' = [fate EXCEPT ![id] = IF @ = "queued" THEN outcome ELSE @]

\* A delivery whose endpoint no longer wants it is removed.
FlushNext(f) ==
    /\ FlushAt(f, "next")
    /\ flush[f].todo # <<>>
    /\ IF Current(f).id[2] \in flush[f].subscribed
       THEN FlushGoes(f, "send") /\ UNCHANGED <<outboxVars, fate>>
       ELSE /\ FlushDone(f, "next")
            /\ IF Current(f).id \in Ids(entries)
               THEN Save(f, Removed(entries, Current(f).id))
               ELSE UNCHANGED outboxVars
            /\ Fate(Current(f).id, "dropped")
    /\ UNCHANGED <<settingsVars, file, emit, crashes>>

Accepted(f) ==
    /\ FlushAt(f, "send")
    /\ IF Current(f).id \in Ids(entries)
       THEN Save(f, Removed(entries, Current(f).id))
       ELSE UNCHANGED outboxVars
    /\ fate' = [fate EXCEPT ![Current(f).id] = "accepted"]
    /\ FlushDone(f, "read")
    /\ UNCHANGED <<settingsVars, file, emit, crashes>>

\* Seeded fault: the entry is put back when it is not there any more.
RefusedReinserts(f) ==
    LET entry == [Current(f) EXCEPT !.due = FALSE]
    IN  /\ FlushAt(f, "send")
        /\ Save(f, IF entry.id \in Ids(entries) THEN Updated(entries, entry)
                   ELSE Trimmed(Append(entries, entry)))
        /\ FlushDone(f, "read")
        /\ UNCHANGED <<settingsVars, file, emit, fate, crashes>>

\* An error status, no answer within 15 s, or a redirect
Refused(f) ==
    /\ FlushAt(f, "send")
    /\ IF Current(f).id \in Ids(entries)
       THEN Save(f, Updated(entries, [Current(f) EXCEPT !.due = FALSE]))
       ELSE UNCHANGED outboxVars
    /\ FlushDone(f, "read")
    /\ UNCHANGED <<settingsVars, file, emit, fate, crashes>>

\* recordWebhookDeliveryResult(): the settings are read and written back.
FlushReads(f) ==
    /\ FlushAt(f, "read")
    /\ flush' = [flush EXCEPT ![f].step = "write", ![f].read = settings]
    /\ UNCHANGED <<outboxVars, settingsVars, file, emit, fate, crashes>>

FlushWrites(f) ==
    /\ FlushAt(f, "write")
    /\ settings' = flush[f].read
    /\ flush' = [flush EXCEPT ![f].step = "next", ![f].read = IdleFlush.read]
    /\ UNCHANGED <<outboxVars, user, chosen, changes, file, emit, fate, crashes>>

\* Seeded fault: the end of the batch forgets to save.
FlushEndsUnsaved(f) ==
    /\ FlushAt(f, "next")
    /\ flush[f].todo = <<>>
    /\ dirty' = FALSE
    /\ flush' = [flush EXCEPT ![f] = IdleFlush]
    /\ UNCHANGED <<entries, writes, settingsVars, file, emit, fate, crashes>>

\* The end of the batch saves what the batch has changed.
FlushEnds(f) ==
    /\ FlushAt(f, "next")
    /\ flush[f].todo = <<>>
    /\ dirty' = FALSE
    /\ IF dirty
       THEN /\ writes' = Append(writes, [for |-> f, list |-> entries])
            /\ FlushGoes(f, "save")
       ELSE /\ flush' = [flush EXCEPT ![f] = IdleFlush]
            /\ UNCHANGED writes
    /\ UNCHANGED <<entries, settingsVars, file, emit, fate, crashes>>

-------------------------------------------------------------------------------
(* The environment *)

\* The delay of a retry is over.
Elapse(d) ==
    /\ \E i \in DOMAIN entries :
          /\ entries[i] = [id |-> d, due |-> FALSE]
          /\ entries' = [entries EXCEPT ![i].due = TRUE]
    /\ UNCHANGED <<dirty, writes, settingsVars, file, emit, flush, fate, crashes, scenario>>

\* saveWebhookSettings(), upsertWebhook() and removeWebhook()
UserReads ==
    /\ user.step = "idle" /\ changes < MaxChanges
    /\ user' = [step |-> "write", read |-> settings]
    /\ changes' = changes + 1
    /\ UNCHANGED <<outboxVars, settings, chosen, file, emit, flush, fate, crashes, scenario>>

UserWrites ==
    /\ user.step = "write"
    /\ \/ settings' = [user.read EXCEPT !.enabled = ~@]
       \/ \E p \in Endpoints :
             settings' = [user.read EXCEPT !.subscribed =
                            IF p \in @ THEN @ \ {p} ELSE @ \cup {p}]
    /\ chosen' = settings'
    /\ user' = IdleUser
    /\ UNCHANGED <<outboxVars, changes, file, emit, flush, fate, crashes, scenario>>

\* The process is killed and started again: the file is all it remembers.
Crash ==
    /\ crashes < MaxCrashes
    /\ crashes' = crashes + 1
    /\ entries' = file
    /\ dirty' = FALSE /\ writes' = <<>>
    /\ emit' = [e \in Events |-> IF EmitAt(e, "none") THEN emit[e]
                                 ELSE [step |-> "done", todo |-> <<>>]]
    /\ flush' = [f \in Flushes |-> IdleFlush]
    /\ user' = IdleUser
    /\ fate' = [d \in Deliveries |-> IF d \in Ids(file) THEN "queued"
                                     ELSE IF fate[d] = "queued" THEN "dropped"
                                     ELSE fate[d]]
    /\ UNCHANGED <<settings, chosen, changes, file>>

EmitProceeds(e) == EmitEnabled(e) \/ EmitEndpoints(e) \/ EmitAdds(e)
FlushProceeds(f) ==
    \/ FlushEnabled(f) \/ FlushEndpoints(f) \/ FlushNext(f)
    \/ Accepted(f) \/ Refused(f)
    \/ FlushReads(f) \/ FlushWrites(f) \/ FlushEnds(f)

Step ==
    \/ \E e \in Events : Emit(e) \/ EmitProceeds(e)
    \/ \E f \in Flushes : FlushStarts(f) \/ FlushProceeds(f)
    \/ \E i \in DOMAIN writes : WriteEnds(i)
    \/ \E d \in Deliveries : Elapse(d)
    \/ UserReads \/ UserWrites \/ Crash

Next == Step /\ UNCHANGED scenario

\* The timer calls flushDue() every 30 seconds; fetch() has a timeout.  An
\* endpoint that is asked again and again answers one day.
Fairness ==
    /\ \A e \in Events : WF_vars(EmitProceeds(e) /\ UNCHANGED scenario)
    /\ \A f \in Flushes :
          /\ WF_vars(FlushProceeds(f) /\ UNCHANGED scenario)
          /\ WF_vars(FlushStarts(f) /\ UNCHANGED scenario)
    /\ \A p \in Endpoints :
          SF_vars(\E f \in Flushes : /\ Accepted(f) /\ Current(f).id[2] = p
                                     /\ UNCHANGED scenario)
    /\ WF_vars((\E i \in DOMAIN writes : WriteEnds(i)) /\ UNCHANGED scenario)
    /\ \A d \in Deliveries : WF_vars(Elapse(d) /\ UNCHANGED scenario)

Spec == Init /\ [][Next]_vars /\ Fairness

-------------------------------------------------------------------------------

(* A delivery is in the outbox until its fate is known, and never afterwards:
   a retry does not bring back what an overflow has dropped, an overlapping
   enqueue() is not lost by the flush that removes another entry
   (webhookOutbox.std.ts:49-74). *)
OutboxHoldsQueued ==
    /\ Ids(entries) = {d \in Deliveries : fate[d] = "queued"}
    /\ IsInjective([i \in DOMAIN entries |-> entries[i].id])

(* A delivery that an endpoint has accepted is not sent to it again by this
   process, whichever flushes overlap (webhookDispatcher.node.ts:100-113). *)
AcceptedOnce ==
    \A f \in Flushes : FlushAt(f, "send") => fate[Current(f).id] # "accepted"

(* OutboxHoldsQueued and AcceptedOnce, and the outbox stays within its limit
   (webhookOutbox.std.ts:47-66, webhookDispatcher.node.ts:100-113). *)
OutboxInv == TypeOK /\ OutboxHoldsQueued /\ AcceptedOnce

(* When nothing is being written, what a restart would find is what the
   outbox holds, the delays of the retries apart, as long as writes succeed
   and land in the order in which they were started (webhookDispatcher.node.ts:
   86 "Persistence is intentionally serialized to keep outbox writes
   ordered"). *)
SettledIsDurable ==
    scenario.faults = {} /\ writes = <<>> /\ ~InBatch => Ids(file) = Ids(entries)

(* What the user was told to be saved stays in the settings file until the
   user changes it (webhookDispatcher.node.ts:204 "Endpoint status is diagnostic
   and must not change delivery semantics"). *)
SavedSettingsStay == user.step = "idle" => settings = chosen

(* Every queued delivery is accepted in the end, or dropped by an overflow or
   because its endpoint no longer wants it: no flush, retry, failed write or
   lost entry stops the loop.  Nothing is delivered while the user has switched
   the webhooks off. *)
QueuedIsDelivered ==
    \A d \in Deliveries :
        fate[d] = "queued" ~> (fate[d] # "queued" \/ ~settings.enabled)
===============================================================================
