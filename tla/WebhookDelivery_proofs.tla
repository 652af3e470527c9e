-------------------------- MODULE WebhookDelivery_proofs --------------------------
(***************************************************************************)
(* Proofs, for any events, endpoints and timers, any size of the outbox    *)
(* and any combination of changes, crashes and faults, that the outbox     *)
(* holds the deliveries whose fate is open and no others, that nothing     *)
(* that was accepted is sent again, and that what a restart would find is  *)
(* what the outbox holds.                                                  *)
(*                                                                         *)
(* OutboxInv is not inductive.  That enqueue() adds a delivery the outbox  *)
(* does not hold is known from what it has still to add; that a flush      *)
(* sends nothing twice from the snapshot it works on, of which it is the   *)
(* only user; that a restart brings back nothing unheard of from the lists *)
(* that are on their way to the disk.                                      *)
(***************************************************************************)
EXTENDS WebhookDelivery, ArrayFilter_proofs, SequenceTheorems, TLAPS

-----------------------------------------------------------------------------
(* The inductive invariant. *)

Batch == {"next", "send", "read", "write"}
Fates == {"none", "queued", "accepted", "dropped"}
Writes == [for : Events \cup Flushes, list : Seq(Entry)]
EmitRecords == [step : {"none", "enabled", "endpoints", "add", "saved", "done"},
                todo : Seq(Endpoints)]
FlushRecords == [step : {"idle", "enabled", "endpoints", "save"} \cup Batch,
                 subscribed : SUBSET Endpoints, todo : Seq(Entry),
                 read : Settings]

ShapeInv ==
    /\ entries \in Seq(Entry)
    /\ file \in Seq(Entry)
    /\ dirty \in BOOLEAN
    /\ writes \in Seq(Writes)
    /\ emit \in [Events -> EmitRecords]
    /\ flush \in [Flushes -> FlushRecords]
    /\ settings \in Settings /\ chosen \in Settings
    /\ user \in [step : {"idle", "write"}, read : Settings]
    /\ fate \in [Deliveries -> Fates]
    /\ changes \in 0 .. MaxChanges /\ crashes \in 0 .. MaxCrashes
    /\ scenario \in Scenarios

Distinct(list) == \A i, j \in DOMAIN list : list[i].id = list[j].id => i = j
Fits(list) == Len(list) <= scenario.maxEntries
Known(list, fates) == \A i \in DOMAIN list : fates[list[i].id] # "none"

\* A list that is on disk or on its way there.
Stored(list, fates) == Distinct(list) /\ Fits(list) /\ Known(list, fates)

\* The outbox holds the deliveries that are queued.
Holds(list, fates) ==
    \A d \in Deliveries :
        fates[d] = "queued" <=> \E i \in DOMAIN list : list[i].id = d

ListsInv ==
    /\ Stored(entries, fate) /\ Holds(entries, fate)
    /\ Stored(file, fate)
    /\ \A i \in DOMAIN writes : Stored(writes[i].list, fate)

\* What an event has still to add is nowhere yet.
Unheard(e, new, fates) ==
    /\ new.step \in {"none", "enabled", "endpoints"} =>
          \A p \in Endpoints : fates[<<e, p>>] = "none"
    /\ \A i \in DOMAIN new.todo : fates[<<e, new.todo[i]>>] = "none"
    /\ \A i, j \in DOMAIN new.todo : new.todo[i] = new.todo[j] => i = j

EmitInv == \A e \in Events : Unheard(e, emit[e], fate)

\* What a flush has still to send.
Sends(run, fates) ==
    /\ run.step \in {"idle", "enabled", "endpoints", "save"} => run.todo = <<>>
    /\ run.step = "send" => run.todo # <<>>
    /\ Distinct(run.todo)
    /\ \A i \in DOMAIN run.todo :
          fates[run.todo[i].id] \notin {"none", "accepted"}

FlushInv ==
    /\ \A f, g \in Flushes : ~FlushAt(f, "idle") /\ ~FlushAt(g, "idle") => f = g
    /\ \A f \in Flushes : Sends(flush[f], fate)

\* A flush waits for its own write.
WritersInv ==
    /\ \A i \in DOMAIN writes :
          writes[i].for \in Flushes => FlushAt(writes[i].for, "save")
    /\ \A i, j \in DOMAIN writes :
          writes[i].for \in Flushes /\ writes[i].for = writes[j].for => i = j

\* What the disk holds when the writes have ended.
Latest == IF writes = <<>> THEN file ELSE writes[Len(writes)].list

DurableInv ==
    /\ dirty => InBatch
    /\ scenario.faults = {} /\ ~dirty => Ids(Latest) = Ids(entries)

IInv == ShapeInv /\ ListsInv /\ EmitInv /\ FlushInv /\ WritersInv /\ DurableInv

-----------------------------------------------------------------------------
(* The lists. *)

(* A part of a list (SequencesExt, Sequences). *)
LEMMA SubSeqElements ==
  ASSUME NEW S, NEW s \in Seq(S), NEW m \in Nat \ {0}, NEW n \in 0 .. Len(s),
         m <= n + 1
  PROVE  /\ SubSeq(s, m, n) \in Seq(S)
         /\ Len(SubSeq(s, m, n)) = n + 1 - m
         /\ DOMAIN SubSeq(s, m, n) = 1 .. (n + 1 - m)
         /\ \A i \in 1 .. (n + 1 - m) : SubSeq(s, m, n)[i] = s[i + m - 1]
  OBVIOUS

(* add() appends the new entry; what makes room for it are older ones
   (webhookOutbox.std.ts:49-66). *)
LEMMA TrimmedAppend ==
  ASSUME NEW list \in Seq(Entry), Distinct(list), NEW new \in Entry,
         \A i \in DOMAIN list : list[i].id # new.id, scenario \in Scenarios
  PROVE  LET longer == Trimmed(Append(list, new))
         IN  /\ longer \in Seq(Entry) /\ Fits(longer) /\ Distinct(longer)
             /\ \E i \in DOMAIN longer : longer[i] = new
             /\ \A i \in DOMAIN longer :
                  longer[i] = new \/ \E k \in DOMAIN list : longer[i] = list[k]
  <1> DEFINE all == Append(list, new)
             n == Len(list)
             max == scenario.maxEntries
  <1>1. /\ all \in Seq(Entry) /\ n \in Nat /\ Len(all) = n + 1
        /\ DOMAIN list = 1 .. n /\ DOMAIN all = 1 .. n + 1
        /\ all[n + 1] = new /\ \A i \in 1 .. n : all[i] = list[i]
    OBVIOUS
  <1>2. max \in Nat \ {0}
    BY WebhookAssumption
  <1>3. \A i, j \in 1 .. n + 1 : all[i].id = all[j].id => i = j
    <2> SUFFICES ASSUME NEW i \in 1 .. n + 1, NEW j \in 1 .. n + 1,
                        all[i].id = all[j].id
                 PROVE  i = j
      OBVIOUS
    <2>1. (i \in 1 .. n \/ i = n + 1) /\ (j \in 1 .. n \/ j = n + 1)
      BY <1>1
    <2>2. \A k \in 1 .. n : list[k].id # new.id
      BY <1>1
    <2>3. \A k, l \in 1 .. n : list[k].id = list[l].id => k = l
      BY <1>1 DEF Distinct
    <2>4. all[n + 1] = new /\ \A k \in 1 .. n : all[k] = list[k]
      BY <1>1
    <2> HIDE DEF all, n
    <2> QED BY <2>1, <2>2, <2>3, <2>4
  <1>4. CASE n + 1 > max
    <2> DEFINE cut == SubSeq(all, n + 1 - max + 1, n + 1)
    <2>0. Trimmed(all) = IF Len(all) > max
                         THEN SubSeq(all, Len(all) - max + 1, Len(all)) ELSE all
      BY DEF Trimmed
    <2>1. Trimmed(all) = cut
      <3>1. Len(all) = n + 1 /\ n \in Nat
        BY <1>1
      <3> HIDE DEF all, n, max
      <3>2. Trimmed(all) = SubSeq(all, Len(all) - max + 1, Len(all))
        BY <1>2, <1>4, <2>0, <3>1
      <3> QED BY <1>2, <3>1, <3>2
    <2>2. n + 1 - max + 1 \in Nat \ {0} /\ n + 1 - max + 1 <= n + 1 + 1
      BY <1>1, <1>2, <1>4
    <2> HIDE DEF all, n, max
    <2>3. /\ cut \in Seq(Entry) /\ Len(cut) = max /\ DOMAIN cut = 1 .. max
          /\ \A i \in 1 .. max : cut[i] = all[i + (n + 1 - max)]
      <3>1. n + 1 \in 0 .. Len(all)
        BY <1>1
      <3>2. n + 1 + 1 - (n + 1 - max + 1) = max
        BY <1>1, <1>2
      <3>3. \A i \in 1 .. max : i + (n + 1 - max + 1) - 1 = i + (n + 1 - max)
        BY <1>1, <1>2
      <3>4. /\ cut \in Seq(Entry)
            /\ Len(cut) = n + 1 + 1 - (n + 1 - max + 1)
            /\ DOMAIN cut = 1 .. (n + 1 + 1 - (n + 1 - max + 1))
            /\ \A i \in 1 .. (n + 1 + 1 - (n + 1 - max + 1)) :
                 cut[i] = all[i + (n + 1 - max + 1) - 1]
        BY <1>1, <2>2, <3>1, SubSeqElements, SMTT(30)
      <3> HIDE DEF cut
      <3> QED BY <3>2, <3>3, <3>4
    <2>4. \A i \in 1 .. max : i + (n + 1 - max) \in 1 .. n + 1
      BY <1>1, <1>2, <1>4
    <2> HIDE DEF cut
    <2>5. Fits(cut) /\ Distinct(cut)
      <3>1. Len(cut) <= max
        BY <1>2, <2>3
      <3>2. \A i, j \in 1 .. max : i + (n + 1 - max) = j + (n + 1 - max) => i = j
        BY <1>1, <1>2
      <3> QED BY <1>3, <2>3, <2>4, <3>1, <3>2 DEF Fits, Distinct, max
    <2>6. max \in DOMAIN cut /\ cut[max] = new
      <3>1. max \in 1 .. max /\ max + (n + 1 - max) = n + 1
        BY <1>1, <1>2
      <3> QED BY <1>1, <2>3, <3>1
    <2>7. \A i \in DOMAIN cut :
            cut[i] = new \/ \E k \in DOMAIN list : cut[i] = list[k]
      <3> TAKE i \in DOMAIN cut
      <3>1. i + (n + 1 - max) \in 1 .. n \/ i + (n + 1 - max) = n + 1
        BY <1>1, <2>3, <2>4
      <3> QED BY <1>1, <2>3, <3>1
    <2> QED BY <2>1, <2>3, <2>5, <2>6, <2>7 DEF all
  <1>5. CASE ~(n + 1 > max)
    <2>1. Trimmed(all) = all
      BY <1>1, <1>5 DEF Trimmed
    <2>2. Fits(all)
      BY <1>1, <1>2, <1>5 DEF Fits
    <2>3. \A i \in 1 .. n + 1 : i \in 1 .. n \/ i = n + 1
      BY <1>1
    <2>4. n + 1 \in 1 .. n + 1
      BY <1>1
    <2> HIDE DEF all
    <2> QED BY <1>1, <1>3, <2>1, <2>2, <2>3, <2>4 DEF Distinct, all
  <1> QED BY <1>4, <1>5

(* remove() keeps every other entry (webhookOutbox.std.ts:68-74). *)
LEMMA RemovedKeepsOthers ==
  ASSUME NEW list \in Seq(Entry), Distinct(list), Fits(list), NEW id,
         scenario \in Scenarios, NEW rest, rest = Removed(list, id)
  PROVE  /\ rest \in Seq(Entry) /\ Fits(rest) /\ Distinct(rest)
         /\ \A i \in DOMAIN rest : \E k \in DOMAIN list :
              list[k].id # id /\ rest[i] = list[k]
         /\ \A k \in DOMAIN list : list[k].id # id =>
              \E i \in DOMAIN rest : rest[i] = list[k]
  <1> DEFINE I == {i \in DOMAIN list : list[i].id # id}
  <1>0. rest = ElementsAt(list, I)
    BY DEF Removed
  <1>1. I \in SUBSET DOMAIN list
    OBVIOUS
  <1> HIDE DEF I
  <1>2. /\ rest \in Seq(Entry)
        /\ Len(rest) = Cardinality(I) /\ Cardinality(I) \in 0 .. Len(list)
        /\ \A i \in DOMAIN rest : \E k \in I : rest[i] = list[k]
        /\ \A k \in I : \E i \in DOMAIN rest : rest[i] = list[k]
        /\ \A m, n \in DOMAIN rest : m < n =>
             \E i, j \in I : i < j /\ rest[m] = list[i] /\ rest[n] = list[j]
    BY <1>0, <1>1, ElementsAtProperties
  <1>3. Fits(rest)
    <2>1. scenario.maxEntries \in Nat /\ Len(list) \in Nat
      BY WebhookAssumption
    <2> QED BY <1>2, <2>1 DEF Fits
  <1>4. Distinct(rest)
    <2>1. ASSUME NEW m \in DOMAIN rest, NEW n \in DOMAIN rest, m < n
          PROVE  rest[m].id # rest[n].id
      <3>1. PICK i \in I, j \in I :
              i < j /\ rest[m] = list[i] /\ rest[n] = list[j]
        BY <1>2, <2>1
      <3>2. i \in Nat /\ j \in Nat /\ i # j
        BY <1>1, <3>1
      <3> QED BY <1>1, <3>1, <3>2 DEF Distinct
    <2>2. \A m, n \in DOMAIN rest : m < n \/ n < m \/ m = n
      BY <1>2
    <2> QED BY <2>1, <2>2 DEF Distinct
  <1>5. \A k \in DOMAIN list : k \in I <=> list[k].id # id
    BY DEF I
  <1> QED BY <1>1, <1>2, <1>3, <1>4, <1>5

(* update() changes no id (webhookOutbox.std.ts:58-66). *)
LEMMA UpdatedKeepsIds ==
  ASSUME NEW list \in Seq(Entry), NEW entry \in Entry
  PROVE  LET new == Updated(list, entry)
         IN  /\ new \in Seq(Entry) /\ Len(new) = Len(list)
             /\ DOMAIN new = DOMAIN list
             /\ \A i \in DOMAIN list : new[i].id = list[i].id
  <1>1. DOMAIN list = 1 .. Len(list) /\ Len(list) \in Nat
    OBVIOUS
  <1> DEFINE new == Updated(list, entry)
  <1>2. /\ DOMAIN new = DOMAIN list
        /\ \A i \in DOMAIN list :
             new[i] = IF list[i].id = entry.id THEN entry ELSE list[i]
    BY DEF Updated
  <1>3. new = [i \in 1 .. Len(list) |-> new[i]]
    BY <1>1 DEF Updated
  <1> HIDE DEF new
  <1>4. \A i \in DOMAIN list : new[i] \in Entry /\ new[i].id = list[i].id
    BY <1>2
  <1>5. new \in Seq(Entry) /\ Len(new) = Len(list)
    BY <1>1, <1>3, <1>4
  <1> QED BY <1>2, <1>4, <1>5 DEF new

(* A flush starts with entries of the outbox, each of them once
   (webhookOutbox.std.ts, due()). *)
LEMMA DueEntries ==
  ASSUME NEW list \in Seq(Entry), Distinct(list),
         NEW I \in SUBSET DOMAIN list
  PROVE  /\ ElementsAt(list, I) \in Seq(Entry) /\ Distinct(ElementsAt(list, I))
         /\ \A i \in DOMAIN ElementsAt(list, I) : \E k \in DOMAIN list :
              ElementsAt(list, I)[i] = list[k]
  <1> DEFINE rest == ElementsAt(list, I)
  <1>2. /\ rest \in Seq(Entry)
        /\ \A i \in DOMAIN rest : \E k \in I : rest[i] = list[k]
        /\ \A m, n \in DOMAIN rest : m < n =>
             \E i, j \in I : i < j /\ rest[m] = list[i] /\ rest[n] = list[j]
    BY ElementsAtProperties
  <1> HIDE DEF rest
  <1>4. Distinct(rest)
    <2>1. ASSUME NEW m \in DOMAIN rest, NEW n \in DOMAIN rest, m < n
          PROVE  rest[m].id # rest[n].id
      <3>1. PICK i \in I, j \in I :
              i < j /\ rest[m] = list[i] /\ rest[n] = list[j]
        BY <1>2, <2>1
      <3>2. i \in Nat /\ j \in Nat /\ i # j
        BY <3>1
      <3> QED BY <3>1, <3>2 DEF Distinct
    <2>2. \A m, n \in DOMAIN rest : m < n \/ n < m \/ m = n
      BY <1>2
    <2> QED BY <2>1, <2>2 DEF Distinct
  <1> QED BY <1>2, <1>4 DEF rest

(* A finite set as a list has each of its elements once. *)
LEMMA SetToSeqElements ==
  ASSUME NEW S, IsFiniteSet(S)
  PROVE  /\ SetToSeq(S) \in Seq(S)
         /\ \A i, j \in DOMAIN SetToSeq(S) :
              SetToSeq(S)[i] = SetToSeq(S)[j] => i = j
  <1> DEFINE n == Cardinality(S)
  <1>1. n \in Nat
    BY FS_CardinalityType
  <1>2. ExistsBijection(1 .. n, S)
    BY FS_CardinalityType
  <1>3. PICK f : f \in Bijection(1 .. n, S)
    BY <1>2 DEF ExistsBijection
  <1>4. f \in [1 .. n -> S] /\ IsInjective(f)
    BY <1>3 DEF Bijection, Injection, IsInjective
  <1>5. SetToSeq(S) \in [1 .. n -> S] /\ IsInjective(SetToSeq(S))
    BY <1>4 DEF SetToSeq
  <1> HIDE DEF n
  <1> QED BY <1>1, <1>5 DEF IsInjective

(* A write that has ended leaves the others, in their order. *)
LEMMA RemoveAtElements ==
  ASSUME NEW S, NEW s \in Seq(S), NEW i \in DOMAIN s
  PROVE  /\ RemoveAt(s, i) \in Seq(S)
         /\ Len(RemoveAt(s, i)) = Len(s) - 1
         /\ DOMAIN RemoveAt(s, i) = 1 .. (Len(s) - 1)
         /\ \A k \in 1 .. (Len(s) - 1) :
              RemoveAt(s, i)[k] = s[IF k < i THEN k ELSE k + 1]
  <1> DEFINE a == SubSeq(s, 1, i - 1)
             b == SubSeq(s, i + 1, Len(s))
             n == Len(s)
  <1>1. n \in Nat /\ i \in 1 .. n
    OBVIOUS
  <1>2. /\ a \in Seq(S) /\ Len(a) = i - 1
        /\ \A k \in 1 .. i - 1 : a[k] = s[k]
    BY <1>1
  <1>3. /\ b \in Seq(S) /\ Len(b) = n - i
        /\ \A k \in 1 .. n - i : b[k] = s[k + i]
    BY <1>1
  <1>4. RemoveAt(s, i) = a \o b
    BY DEF RemoveAt
  <1> HIDE DEF a, b, n
  <1>5. /\ a \o b \in Seq(S) /\ Len(a \o b) = n - 1
        /\ DOMAIN (a \o b) = 1 .. n - 1
    <2>1. a \o b \in Seq(S) /\ Len(a \o b) = Len(a) + Len(b)
      BY <1>2, <1>3, ConcatProperties
    <2>2. Len(a) + Len(b) = n - 1
      BY <1>1, <1>2, <1>3
    <2> QED BY <2>1, <2>2
  <1>6. ASSUME NEW k \in 1 .. n - 1
        PROVE  (a \o b)[k] = s[IF k < i THEN k ELSE k + 1]
    <2>1. CASE k < i
      <3>1. k \in 1 .. i - 1
        BY <1>1, <2>1
      <3> QED BY <1>2, <1>3, <2>1, <3>1
    <2>2. CASE ~(k < i)
      <3>1. k - (i - 1) \in 1 .. n - i /\ k - (i - 1) + i = k + 1
        BY <1>1, <2>2
      <3>2. (a \o b)[k] = b[k - (i - 1)]
        BY <1>1, <1>2, <1>3, <2>2, SMTT(30)
      <3> QED BY <1>3, <2>2, <3>1, <3>2
    <2> QED BY <2>1, <2>2
  <1> QED BY <1>4, <1>5, <1>6 DEF n

-----------------------------------------------------------------------------
(* What several steps have in common. *)

\* No delivery becomes unknown.
Grow(old, new) == \A d \in Deliveries : old[d] # "none" => new[d] # "none"

(* A list whose deliveries stay known is as good as before. *)
LEMMA StoredGrows ==
  ASSUME NEW list \in Seq(Entry), NEW old, NEW new, Stored(list, old),
         Grow(old, new)
  PROVE  Stored(list, new)
  <1>0. \A i \in DOMAIN list : list[i] \in Entry
    OBVIOUS
  <1>1. \A i \in DOMAIN list : list[i].id \in Deliveries
    BY <1>0 DEF Entry
  <1> QED BY <1>1 DEF Stored, Known, Grow

(* The lists on disk and on their way stay good. *)
LEMMA ListsGrow ==
  ASSUME ShapeInv, ListsInv, Grow(fate, fate')
  PROVE  /\ Stored(file, fate')
         /\ \A i \in DOMAIN writes : Stored(writes[i].list, fate')
  <1>1. \A i \in DOMAIN writes : writes[i] \in Writes
    BY DEF ShapeInv
  <1>2. \A i \in DOMAIN writes : writes[i].list \in Seq(Entry)
    BY <1>1 DEF Writes
  <1>3. \A i \in DOMAIN writes : Stored(writes[i].list, fate)
    BY DEF ListsInv
  <1>4. \A i \in DOMAIN writes : Stored(writes[i].list, fate')
    BY <1>2, <1>3, StoredGrows
  <1>5. Stored(file, fate')
    BY StoredGrows DEF ShapeInv, ListsInv
  <1> QED BY <1>4, <1>5

(* A step that leaves the lists and the fates alone. *)
LEMMA ListsStay ==
  ASSUME ListsInv, UNCHANGED <<entries, file, writes, fate, scenario>>
  PROVE  ListsInv'
  BY DEF ListsInv, Stored, Holds, Fits, Distinct, Known

(* A step that leaves the dispatcher's enqueue() alone. *)
LEMMA EmitStays ==
  ASSUME EmitInv, UNCHANGED <<emit, fate>>
  PROVE  EmitInv'
  BY DEF EmitInv, Unheard

(* A step that leaves the flushes alone. *)
LEMMA FlushStays ==
  ASSUME FlushInv, UNCHANGED <<flush, fate>>
  PROVE  FlushInv'
  BY DEF FlushInv, Sends, FlushAt, Distinct

(* A step that leaves the writes and the flushes alone. *)
LEMMA WritersStay ==
  ASSUME WritersInv, UNCHANGED <<writes, flush>>
  PROVE  WritersInv'
  BY DEF WritersInv, FlushAt

(* A step that leaves the outbox, its file and the flushes alone. *)
LEMMA DurableStays ==
  ASSUME DurableInv, UNCHANGED <<entries, dirty, writes, file, flush, scenario>>
  PROVE  DurableInv'
  <1>1. Latest' = Latest /\ (InBatch' <=> InBatch)
    BY DEF Latest, InBatch
  <1>2. Ids(Latest)' = Ids(Latest) /\ Ids(entries)' = Ids(entries)
    BY <1>1 DEF Ids
  <1> QED BY <1>1, <1>2 DEF DurableInv

(* While a flush is in progress the others are idle
   (webhookDispatcher.node.ts, flushDue()). *)
LEMMA OthersIdle ==
  ASSUME ShapeInv, FlushInv, NEW f \in Flushes, ~FlushAt(f, "idle")
  PROVE  /\ \A g \in Flushes \ {f} : flush[g].step = "idle" /\ flush[g].todo = <<>>
         /\ InBatch <=> flush[f].step \in Batch
  <1>1. \A g \in Flushes \ {f} : flush[g].step = "idle" /\ flush[g].todo = <<>>
    BY DEF FlushInv, FlushAt, Sends
  <1> QED BY <1>1 DEF InBatch, Batch

(* One flush goes on, the others are idle. *)
LEMMA OneFlushMoves ==
  ASSUME ShapeInv, NEW f \in Flushes, NEW new \in FlushRecords,
         flush' = [flush EXCEPT ![f] = new],
         \A g \in Flushes \ {f} : flush[g].step = "idle" /\ flush[g].todo = <<>>,
         Sends(new, fate')
  PROVE  /\ flush' \in [Flushes -> FlushRecords]
         /\ FlushInv'
         /\ InBatch' <=> new.step \in Batch
  <1>1. /\ flush' \in [Flushes -> FlushRecords] /\ flush'[f] = new
        /\ \A g \in Flushes \ {f} : flush'[g] = flush[g]
    BY DEF ShapeInv
  <1>2. \A g \in Flushes \ {f} : flush'[g].step = "idle" /\ flush'[g].todo = <<>>
    BY <1>1
  <1>3. FlushInv'
    <2>1. \A g, h \in Flushes :
            flush'[g].step # "idle" /\ flush'[h].step # "idle" => g = h
      BY <1>2
    <2>2. \A g \in Flushes : Sends(flush'[g], fate')
      <3>1. ASSUME NEW g \in Flushes \ {f} PROVE Sends(flush'[g], fate')
        BY <1>2 DEF Sends, Distinct
      <3> QED BY <1>1, <3>1
    <2> QED BY <2>1, <2>2 DEF FlushInv, FlushAt, Sends, Distinct
  <1>4. InBatch' <=> new.step \in Batch
    BY <1>1, <1>2 DEF InBatch, Batch
  <1> QED BY <1>1, <1>3, <1>4

(* A flush that waits for no write has none. *)
LEMMA WritersKeep ==
  ASSUME ShapeInv, WritersInv, NEW f \in Flushes, ~FlushAt(f, "save"), NEW new,
         flush' = [flush EXCEPT ![f] = new], writes' = writes
  PROVE  WritersInv'
  <1>1. \A g \in Flushes \ {f} : flush'[g] = flush[g]
    BY DEF ShapeInv
  <1>2. \A i \in DOMAIN writes : writes[i].for # f
    BY DEF WritersInv
  <1> QED BY <1>1, <1>2 DEF WritersInv, FlushAt

(* What #save() does, in a batch and outside. *)
LEMMA SaveWrites ==
  ASSUME ShapeInv, NEW who \in Events \cup Flushes, NEW list \in Seq(Entry),
         Save(who, list)
  PROVE  /\ entries' = list /\ dirty' \in BOOLEAN /\ writes' \in Seq(Writes)
         /\ InBatch => dirty' /\ writes' = writes
         /\ ~InBatch =>
              /\ dirty' = dirty
              /\ writes' # <<>> /\ writes'[Len(writes')].list = list
              /\ \A i \in DOMAIN writes' :
                   \/ i \in DOMAIN writes /\ writes'[i] = writes[i]
                   \/ writes'[i] = [for |-> who, list |-> list]
  <1>1. [for |-> who, list |-> list] \in Writes
    BY DEF Writes
  <1>2. CASE InBatch
    BY <1>2 DEF Save, ShapeInv
  <1>3. CASE ~InBatch
    <2> DEFINE last == [for |-> who, list |-> list]
    <2>1. /\ entries' = list /\ dirty' = dirty
          /\ writes' = Append(writes, last)
      BY <1>3 DEF Save
    <2>2. writes \in Seq(Writes) /\ dirty \in BOOLEAN
      BY DEF ShapeInv
    <2>3. last.list = list /\ last \in Writes
      BY <1>1
    <2> HIDE DEF last
    <2>4. /\ writes' \in Seq(Writes) /\ writes' # <<>>
          /\ writes'[Len(writes')] = last
          /\ \A i \in DOMAIN writes' :
               (i \in DOMAIN writes /\ writes'[i] = writes[i]) \/ writes'[i] = last
      BY <2>1, <2>2, <2>3
    <2> QED BY <1>3, <2>1, <2>2, <2>3, <2>4 DEF last
  <1> QED BY <1>2, <1>3

(* Every list on its way is good after a save of a good list. *)
LEMMA SaveLists ==
  ASSUME ShapeInv, ListsInv, NEW who \in Events \cup Flushes,
         NEW list \in Seq(Entry), Save(who, list), Stored(list, fate'),
         Holds(list, fate'), Grow(fate, fate'), UNCHANGED <<file, scenario>>
  PROVE  ListsInv'
  <1>1. \A i \in DOMAIN writes : Stored(writes[i].list, fate')
    BY ListsGrow
  <1>2. Stored(file, fate')
    BY ListsGrow
  <1>3. \A i \in DOMAIN writes' : Stored(writes'[i].list, fate')
    BY <1>1, SaveWrites
  <1>4. entries' = list
    BY SaveWrites
  <1> QED BY <1>2, <1>3, <1>4 DEF ListsInv, Stored, Holds, Fits, Distinct, Known

-----------------------------------------------------------------------------
(* The initial states. *)

(* A new outbox, with nothing emitted and nothing on disk. *)
LEMMA InitInv ==
  Init => IInv
  <1> SUFFICES ASSUME Init PROVE IInv
    OBVIOUS
  <1>1. ShapeInv
    <2>1. IdleFlush \in FlushRecords /\ settings \in Settings
      BY DEF Init, IdleFlush, FlushRecords, Settings
    <2>2. IdleUser \in [step : {"idle", "write"}, read : Settings]
      BY DEF IdleUser, Settings
    <2>3. \A e \in Events : [step |-> "none", todo |-> <<>>] \in EmitRecords
      BY DEF EmitRecords
    <2>4. 0 \in 0 .. MaxChanges /\ 0 \in 0 .. MaxCrashes
      BY WebhookAssumption
    <2>5. /\ emit \in [Events -> EmitRecords] /\ flush \in [Flushes -> FlushRecords]
          /\ fate \in [Deliveries -> Fates]
      BY <2>1, <2>3 DEF Init, Fates
    <2>6. entries \in Seq(Entry) /\ file \in Seq(Entry) /\ writes \in Seq(Writes)
      BY DEF Init
    <2>7. /\ settings \in Settings /\ chosen \in Settings
          /\ user \in [step : {"idle", "write"}, read : Settings]
      BY <2>1, <2>2 DEF Init
    <2>8. /\ dirty \in BOOLEAN /\ scenario \in Scenarios
          /\ changes \in 0 .. MaxChanges /\ crashes \in 0 .. MaxCrashes
      BY <2>4 DEF Init
    <2> QED BY <2>5, <2>6, <2>7, <2>8 DEF ShapeInv
  <1>2. ListsInv
    <2>1. scenario.maxEntries \in Nat
      BY WebhookAssumption DEF Init
    <2> QED BY <2>1 DEF Init, ListsInv, Stored, Holds, Fits, Distinct, Known
  <1>3. EmitInv
    BY DEF Init, EmitInv, Unheard, Deliveries
  <1>4. FlushInv
    BY DEF Init, FlushInv, FlushAt, Sends, Distinct, IdleFlush
  <1>5. WritersInv
    BY DEF Init, WritersInv
  <1>6. DurableInv
    BY DEF Init, DurableInv, Latest
  <1> QED BY <1>1, <1>2, <1>3, <1>4, <1>5, <1>6 DEF IInv

-----------------------------------------------------------------------------
(* WebhookDispatcher.enqueue() *)

(* One event goes on; nothing it has still to add becomes known. *)
LEMMA EmitMoves ==
  ASSUME ShapeInv, EmitInv, NEW e \in Events, NEW new \in EmitRecords,
         emit' = [emit EXCEPT ![e] = new], Unheard(e, new, fate'),
         \A d \in Deliveries : d[1] # e /\ fate[d] = "none" => fate'[d] = "none"
  PROVE  emit' \in [Events -> EmitRecords] /\ EmitInv'
  <1>1. /\ emit' \in [Events -> EmitRecords] /\ emit'[e] = new
        /\ \A d \in Events \ {e} : emit'[d] = emit[d]
    BY DEF ShapeInv
  <1>2. ASSUME NEW d \in Events \ {e}
        PROVE  Unheard(d, emit[d], fate')
    <2>1. \A p \in Endpoints : fate[<<d, p>>] = "none" => fate'[<<d, p>>] = "none"
      BY DEF Deliveries
    <2>2. \A i \in DOMAIN emit[d].todo : emit[d].todo[i] \in Endpoints
      BY DEF ShapeInv, EmitRecords
    <2>3. Unheard(d, emit[d], fate)
      BY DEF EmitInv
    <2> QED BY <2>1, <2>2, <2>3 DEF Unheard
  <1>3. \A d \in Events : Unheard(d, emit'[d], fate')
    BY <1>1, <1>2
  <1> QED BY <1>1, <1>3 DEF EmitInv, Unheard

(* emit(), and the two reads of the settings before the loop
   (webhookDispatcher.node.ts, enqueue()). *)
LEMMA EmitReads ==
  ASSUME IInv, NEW e \in Events,
         Emit(e) \/ EmitEnabled(e) \/ EmitEndpoints(e), scenario' = scenario
  PROVE  IInv'
  <1>1. UNCHANGED <<outboxVars, settingsVars, file, flush, fate, crashes>>
    BY DEF Emit, EmitEnabled, EmitEndpoints
  <1>2. \E new \in EmitRecords :
          emit' = [emit EXCEPT ![e] = new] /\ Unheard(e, new, fate)
    <2>1. emit[e] \in EmitRecords /\ Unheard(e, emit[e], fate)
      BY DEF IInv, ShapeInv, EmitInv
    <2>2. CASE Emit(e) \/ EmitEnabled(e)
      <3>1. PICK step \in {"enabled", "endpoints", "done"} :
              /\ emit' = [emit EXCEPT ![e].step = step]
              /\ emit[e].step \in {"none", "enabled"}
        BY <2>2 DEF Emit, EmitEnabled, EmitAt
      <3> DEFINE new == [emit[e] EXCEPT !.step = step]
      <3>2. new \in EmitRecords /\ new.step = step /\ new.todo = emit[e].todo
        BY <2>1 DEF EmitRecords
      <3>3. Unheard(e, new, fate)
        BY <2>1, <3>1, <3>2 DEF Unheard
      <3>4. emit' = [emit EXCEPT ![e] = new]
        BY <3>1
      <3> HIDE DEF new
      <3> QED BY <3>2, <3>3, <3>4
    <2>3. CASE EmitEndpoints(e)
      <3> DEFINE all == SetToSeq(settings.subscribed)
                 new == [step |-> "add", todo |-> all]
      <3>1. settings.subscribed \in SUBSET Endpoints
        BY DEF IInv, ShapeInv, Settings
      <3>2. IsFiniteSet(settings.subscribed)
        BY <3>1, WebhookAssumption, FS_Subset
      <3>3. /\ all \in Seq(settings.subscribed)
            /\ \A i, j \in DOMAIN all : all[i] = all[j] => i = j
        BY <3>2, SetToSeqElements
      <3> HIDE DEF all
      <3>4. all \in Seq(Endpoints) /\ \A i \in DOMAIN all : all[i] \in Endpoints
        BY <3>1, <3>3
      <3>5. \A p \in Endpoints : fate[<<e, p>>] = "none"
        BY <2>1, <2>3 DEF EmitEndpoints, EmitAt, Unheard
      <3>6. new \in EmitRecords /\ Unheard(e, new, fate)
        BY <3>3, <3>4, <3>5 DEF EmitRecords, Unheard
      <3>7. emit' = [emit EXCEPT ![e] = new]
        BY <2>3 DEF EmitEndpoints, all
      <3> HIDE DEF new
      <3> QED BY <3>6, <3>7
    <2> QED BY <2>2, <2>3
  <1>3. emit' \in [Events -> EmitRecords] /\ EmitInv'
    <2>1. PICK new \in EmitRecords :
            emit' = [emit EXCEPT ![e] = new] /\ Unheard(e, new, fate)
      BY <1>2
    <2>2. fate' = fate
      BY <1>1
    <2>3. Unheard(e, new, fate')
      BY <2>1, <2>2
    <2> QED BY <2>1, <2>2, <2>3, EmitMoves DEF IInv
  <1>4. ShapeInv'
    BY <1>1, <1>3 DEF IInv, ShapeInv, outboxVars, settingsVars
  <1>5. ListsInv' /\ FlushInv' /\ WritersInv' /\ DurableInv'
    BY <1>1, ListsStay, FlushStays, WritersStay, DurableStays
    DEF IInv, outboxVars
  <1> QED BY <1>3, <1>4, <1>5 DEF IInv

(* One turn of the loop adds a delivery nobody has heard of
   (webhookDispatcher.node.ts, enqueue(); webhookOutbox.std.ts:49-66). *)
LEMMA EmitAddsInv ==
  ASSUME IInv, NEW e \in Events, EmitAdds(e), scenario' = scenario
  PROVE  IInv'
  <1>1. /\ emit[e] \in EmitRecords /\ Unheard(e, emit[e], fate)
        /\ emit[e].step = "add" /\ emit[e].todo \in Seq(Endpoints)
    BY DEF IInv, ShapeInv, EmitInv, EmitAdds, EmitAt, EmitRecords
  <1>2. UNCHANGED <<settingsVars, file, flush, crashes>>
    BY DEF EmitAdds
  <1>3. CASE emit[e].todo = <<>>
    <2>1. /\ UNCHANGED <<outboxVars, fate>>
          /\ emit' = [emit EXCEPT ![e].step = "done"]
      BY <1>3 DEF EmitAdds
    <2> DEFINE new == [emit[e] EXCEPT !.step = "done"]
    <2>2. new \in EmitRecords /\ new.step = "done" /\ new.todo = emit[e].todo
      BY <1>1 DEF EmitRecords
    <2>3. Unheard(e, new, fate')
      BY <1>1, <2>1, <2>2 DEF Unheard
    <2>4. emit' = [emit EXCEPT ![e] = new]
      BY <2>1
    <2> HIDE DEF new
    <2>5. emit' \in [Events -> EmitRecords] /\ EmitInv'
      BY <2>1, <2>2, <2>3, <2>4, EmitMoves DEF IInv
    <2>6. ShapeInv'
      BY <1>2, <2>1, <2>5 DEF IInv, ShapeInv, outboxVars, settingsVars
    <2>7. ListsInv' /\ FlushInv' /\ WritersInv' /\ DurableInv'
      BY <1>2, <2>1, ListsStay, FlushStays, WritersStay, DurableStays
      DEF IInv, outboxVars
    <2> QED BY <2>5, <2>6, <2>7 DEF IInv
  <1>4. CASE emit[e].todo # <<>>
    <2> DEFINE todo == emit[e].todo
               id == <<e, Head(todo)>>
               entry == [id |-> id, due |-> TRUE]
               list == Trimmed(Append(entries, entry))
               step == IF InBatch THEN "add" ELSE "saved"
               new == [step |-> step, todo |-> Tail(todo)]
    <2>1. /\ Save(e, list)
          /\ emit' = [emit EXCEPT ![e] = new]
          /\ fate' = [d \in Deliveries |->
                        IF d = id THEN "queued"
                        ELSE IF d \in Ids(entries) \ Ids(list) THEN "dropped"
                        ELSE fate[d]]
      BY <1>4 DEF EmitAdds
    <2>2. /\ Head(todo) = todo[1] /\ 1 \in DOMAIN todo /\ todo[1] \in Endpoints
          /\ Tail(todo) \in Seq(Endpoints)
          /\ \A i \in DOMAIN Tail(todo) :
               /\ Tail(todo)[i] = todo[i + 1] /\ i + 1 \in DOMAIN todo
               /\ i + 1 # 1 /\ todo[i + 1] \in Endpoints
          /\ \A i, j \in DOMAIN Tail(todo) : i + 1 = j + 1 => i = j
      BY <1>1, <1>4
    <2>3. /\ id \in Deliveries /\ entry \in Entry /\ entry.id = id
          /\ fate[id] = "none"
      <3>1. todo[1] \in Endpoints /\ fate[<<e, todo[1]>>] = "none"
        BY <1>1, <2>2 DEF Unheard
      <3>2. id \in Deliveries /\ fate[id] = "none"
        BY <2>2, <3>1 DEF Deliveries
      <3> HIDE DEF id
      <3> QED BY <3>2 DEF Entry
    <2> HIDE DEF id, entry
    <2>4. /\ entries \in Seq(Entry) /\ scenario \in Scenarios
          /\ Distinct(entries) /\ fate \in [Deliveries -> Fates]
      BY DEF IInv, ShapeInv, ListsInv, Stored
    <2>5. \A i \in DOMAIN entries : /\ entries[i].id # id
                                    /\ fate[entries[i].id] # "none"
      BY <2>3 DEF IInv, ListsInv, Stored, Known
    <2>6. /\ list \in Seq(Entry) /\ Fits(list) /\ Distinct(list)
          /\ \E i \in DOMAIN list : list[i] = entry
          /\ \A i \in DOMAIN list :
               list[i] = entry \/ \E k \in DOMAIN entries : list[i] = entries[k]
      BY <2>3, <2>4, <2>5, TrimmedAppend
    <2>7. \A d \in Ids(entries) : d # id /\ fate[d] # "none"
      BY <2>5 DEF Ids
    <2>8. id \in Ids(list) /\ Ids(list) \in SUBSET (Ids(entries) \cup {id})
      BY <2>3, <2>6 DEF Ids
    <2>9. \A d \in Deliveries : fate[d] = "queued" <=> d \in Ids(entries)
      BY DEF IInv, ListsInv, Holds, Ids
    <2> HIDE DEF todo, list, step, new
    <2>10. /\ fate' \in [Deliveries -> Fates]
           /\ Grow(fate, fate')
           /\ fate'[id] = "queued"
           /\ \A d \in Deliveries : d # id /\ fate[d] = "none" =>
                fate'[d] = "none"
           /\ \A d \in Deliveries : fate'[d] = "queued" <=> d \in Ids(list)
           /\ \A d \in Deliveries : fate[d] \notin {"none", "accepted"} =>
                fate'[d] \notin {"none", "accepted"}
      BY <2>1, <2>3, <2>4, <2>7, <2>8, <2>9 DEF Grow, Fates
    <2>11. Holds(list, fate')
      BY <2>10 DEF Holds, Ids
    <2>12. Stored(list, fate')
      <3>1. \A i \in DOMAIN list : list[i] \in Entry
        BY <2>6
      <3>2. \A i \in DOMAIN list : list[i].id \in Deliveries /\ list[i].id \in Ids(list)
        BY <3>1 DEF Entry, Ids
      <3>3. \A i \in DOMAIN list : fate'[list[i].id] # "none"
        BY <2>10, <3>2
      <3> QED BY <2>6, <3>3 DEF Stored, Known
    <2>13. ListsInv'
      BY <1>2, <2>1, <2>6, <2>10, <2>11, <2>12, SaveLists DEF IInv
    <2>14. emit' \in [Events -> EmitRecords] /\ EmitInv'
      <3>1. new \in EmitRecords /\ new.todo = Tail(todo) /\ new.step = step
            /\ step \in {"add", "saved"}
        BY <2>2 DEF EmitRecords, new, step
      <3>2. \A i \in DOMAIN Tail(todo) :
              /\ <<e, Tail(todo)[i]>> \in Deliveries /\ <<e, Tail(todo)[i]>> # id
              /\ fate[<<e, Tail(todo)[i]>>] = "none"
        <4> SUFFICES ASSUME NEW i \in DOMAIN Tail(todo)
                     PROVE  /\ <<e, Tail(todo)[i]>> \in Deliveries
                            /\ <<e, Tail(todo)[i]>> # id
                            /\ fate[<<e, Tail(todo)[i]>>] = "none"
          OBVIOUS
        <4>1. /\ \A k \in DOMAIN todo : fate[<<e, todo[k]>>] = "none"
              /\ \A k, l \in DOMAIN todo : todo[k] = todo[l] => k = l
          BY <1>1 DEF Unheard, todo
        <4>2. /\ Tail(todo)[i] = todo[i + 1] /\ todo[i + 1] \in Endpoints
              /\ todo[i + 1] # todo[1] /\ id = <<e, todo[1]>>
              /\ fate[<<e, todo[i + 1]>>] = "none"
          BY <2>2, <4>1 DEF id
        <4> HIDE DEF todo, id
        <4> QED BY <4>2 DEF Deliveries
      <3>3. \A i, j \in DOMAIN Tail(todo) :
              Tail(todo)[i] = Tail(todo)[j] => i = j
        BY <1>1, <2>2 DEF Unheard, todo
      <3>4. Unheard(e, new, fate')
        BY <2>10, <3>1, <3>2, <3>3 DEF Unheard
      <3>5. \A d \in Deliveries : d[1] # e /\ fate[d] = "none" =>
              fate'[d] = "none"
        BY <2>10 DEF id
      <3> QED BY <2>1, <3>1, <3>4, <3>5, EmitMoves DEF IInv
    <2>15. /\ entries' = list /\ dirty' \in BOOLEAN /\ writes' \in Seq(Writes)
           /\ InBatch => dirty' /\ writes' = writes
           /\ ~InBatch =>
                /\ dirty' = dirty
                /\ writes' # <<>> /\ writes'[Len(writes')].list = list
                /\ \A i \in DOMAIN writes' :
                     \/ i \in DOMAIN writes /\ writes'[i] = writes[i]
                     \/ writes'[i] = [for |-> e, list |-> list]
      BY <2>1, <2>6, SaveWrites DEF IInv
    <2>16. ShapeInv'
      BY <1>2, <2>6, <2>10, <2>14, <2>15 DEF IInv, ShapeInv, settingsVars
    <2>17. FlushInv'
      <3>1. \A f \in Flushes : Sends(flush[f], fate')
        <4> SUFFICES ASSUME NEW f \in Flushes PROVE Sends(flush[f], fate')
          OBVIOUS
        <4>1. \A i \in DOMAIN flush[f].todo : flush[f].todo[i] \in Entry
          BY DEF IInv, ShapeInv, FlushRecords
        <4>2. \A i \in DOMAIN flush[f].todo : flush[f].todo[i].id \in Deliveries
          BY <4>1 DEF Entry
        <4> QED BY <2>10, <4>2 DEF IInv, FlushInv, Sends
      <3> QED BY <1>2, <3>1 DEF IInv, FlushInv, Sends, FlushAt, Distinct
    <2>18. WritersInv'
      <3>1. e \notin Flushes
        BY WebhookAssumption
      <3>2. \A i \in DOMAIN writes' : writes'[i].for \in Flushes =>
              i \in DOMAIN writes /\ writes'[i] = writes[i]
        BY <2>15, <3>1
      <3> QED BY <1>2, <3>2 DEF IInv, WritersInv, FlushAt
    <2>19. DurableInv'
      <3>1. InBatch' <=> InBatch
        BY <1>2 DEF InBatch, FlushAt
      <3>2. CASE InBatch
        BY <2>15, <3>1, <3>2 DEF DurableInv
      <3>3. CASE ~InBatch
        <4>1. Latest' = list
          BY <2>15, <3>3 DEF Latest
        <4>2. ~dirty'
          BY <2>15, <3>3 DEF IInv, DurableInv
        <4>3. Ids(Latest)' = Ids(entries)'
          BY <2>15, <4>1 DEF Ids
        <4> QED BY <4>2, <4>3 DEF DurableInv
      <3> QED BY <3>2, <3>3
    <2> QED BY <2>13, <2>14, <2>16, <2>17, <2>18, <2>19 DEF IInv
  <1> QED BY <1>3, <1>4

-----------------------------------------------------------------------------
(* WebhookDispatcher.flushDue() *)

(* A flush goes on without touching the outbox: it begins, reads the settings,
   takes its snapshot, or decides to send (webhookDispatcher.node.ts). *)
LEMMA FlushGoesOn ==
  ASSUME IInv, NEW f \in Flushes, NEW new \in FlushRecords,
         flush' = [flush EXCEPT ![f] = new],
         \A g \in Flushes \ {f} : flush[g].step = "idle" /\ flush[g].todo = <<>>,
         ~FlushAt(f, "save"), flush[f].step \in Batch => new.step \in Batch,
         Sends(new, fate), settings' \in Settings,
         UNCHANGED <<outboxVars, chosen, user, changes, file, emit, fate,
                     crashes, scenario>>
  PROVE  IInv'
  <1>1. /\ flush' \in [Flushes -> FlushRecords]
        /\ FlushInv' /\ (InBatch' <=> new.step \in Batch)
    BY OneFlushMoves DEF IInv, Sends
  <1>2. ShapeInv'
    BY <1>1 DEF IInv, ShapeInv, outboxVars
  <1>3. ListsInv' /\ EmitInv'
    BY ListsStay, EmitStays DEF IInv, outboxVars
  <1>4. WritersInv'
    BY WritersKeep DEF IInv, outboxVars
  <1>5. DurableInv'
    <2>1. InBatch => InBatch'
      BY <1>1 DEF InBatch, Batch
    <2>2. Latest' = Latest /\ Ids(Latest)' = Ids(Latest) /\ Ids(entries)' = Ids(entries)
      BY DEF Latest, Ids, outboxVars
    <2> QED BY <2>1, <2>2 DEF IInv, DurableInv, outboxVars
  <1> QED BY <1>1, <1>2, <1>3, <1>4, <1>5 DEF IInv

(* The same for a step of the flush that is in progress, or of the one that
   starts when none is (webhookDispatcher.node.ts). *)
LEMMA FlushReadsInv ==
  ASSUME IInv, NEW f \in Flushes, scenario' = scenario,
         \/ FlushStarts(f) \/ FlushEnabled(f) \/ FlushEndpoints(f)
         \/ FlushReads(f) \/ FlushWrites(f)
  PROVE  IInv'
  <1>1. flush[f] \in FlushRecords /\ Sends(flush[f], fate)
    BY DEF IInv, ShapeInv, FlushInv
  <1>2. \A g \in Flushes \ {f} : flush[g].step = "idle" /\ flush[g].todo = <<>>
    <2>1. CASE FlushStarts(f)
      BY <2>1 DEF FlushStarts, FlushAt, IInv, FlushInv, Sends
    <2>2. CASE ~FlushAt(f, "idle")
      BY <2>2, OthersIdle DEF IInv
    <2>3. ~FlushStarts(f) => ~FlushAt(f, "idle")
      BY DEF FlushEnabled, FlushEndpoints, FlushReads, FlushWrites, FlushAt
    <2> QED BY <2>1, <2>2, <2>3
  <1>3. /\ UNCHANGED <<outboxVars, chosen, user, changes, file, emit, fate, crashes>>
        /\ ~FlushAt(f, "save") /\ settings' \in Settings
    <2>1. settings \in Settings /\ flush[f].read \in Settings
      BY <1>1 DEF IInv, ShapeInv, FlushRecords
    <2> QED BY <2>1 DEF FlushStarts, FlushEnabled, FlushEndpoints, FlushReads,
                        FlushWrites, FlushAt, settingsVars
  <1>4. \E new \in FlushRecords :
          /\ flush' = [flush EXCEPT ![f] = new]
          /\ flush[f].step \in Batch => new.step \in Batch
          /\ Sends(new, fate)
    <2>1. CASE FlushStarts(f) \/ FlushEnabled(f)
      <3>1. PICK step \in {"enabled", "endpoints", "idle"} :
              /\ flush' = [flush EXCEPT ![f].step = step]
              /\ flush[f].step \in {"idle", "enabled"}
        BY <2>1 DEF FlushStarts, FlushEnabled, FlushGoes, FlushAt
      <3> DEFINE new == [flush[f] EXCEPT !.step = step]
      <3>2. new \in FlushRecords /\ new.step = step /\ new.todo = flush[f].todo
        BY <1>1 DEF FlushRecords
      <3>3. flush' = [flush EXCEPT ![f] = new]
        BY <3>1
      <3> HIDE DEF new
      <3>4. Sends(new, fate)
        BY <1>1, <3>1, <3>2 DEF Sends, Distinct
      <3>5. flush[f].step \notin Batch
        BY <3>1 DEF Batch
      <3> QED BY <3>2, <3>3, <3>4, <3>5
    <2>2. CASE FlushEndpoints(f)
      <3> DEFINE I == {i \in DOMAIN entries : entries[i].due}
                 due == ElementsAt(entries, I)
                 new == [flush[f] EXCEPT !.step = "next",
                                         !.subscribed = settings.subscribed,
                                         !.todo = due]
      <3>1. /\ due \in Seq(Entry) /\ Distinct(due)
            /\ \A i \in DOMAIN due : \E k \in DOMAIN entries : due[i] = entries[k]
        <4>1. entries \in Seq(Entry) /\ Distinct(entries)
          BY DEF IInv, ShapeInv, ListsInv, Stored
        <4>2. I \in SUBSET DOMAIN entries
          OBVIOUS
        <4> HIDE DEF I
        <4> QED BY <4>1, <4>2, DueEntries
      <3>2. \A k \in DOMAIN entries : /\ entries[k].id \in Deliveries
                                      /\ fate[entries[k].id] = "queued"
        <4>1. \A k \in DOMAIN entries : entries[k] \in Entry
          BY DEF IInv, ShapeInv
        <4>2. \A k \in DOMAIN entries : entries[k].id \in Deliveries
          BY <4>1 DEF Entry
        <4> QED BY <4>2 DEF IInv, ListsInv, Holds
      <3>3. settings.subscribed \in SUBSET Endpoints
        BY DEF IInv, ShapeInv, Settings
      <3>4. flush' = [flush EXCEPT ![f] = new]
        BY <2>2 DEF FlushEndpoints
      <3> HIDE DEF due
      <3>5. new \in FlushRecords /\ new.step = "next" /\ new.todo = due
        BY <1>1, <3>1, <3>3 DEF FlushRecords, Batch
      <3> HIDE DEF new
      <3>6. Sends(new, fate)
        BY <3>1, <3>2, <3>5 DEF Sends
      <3>7. new.step \in Batch
        BY <3>5 DEF Batch
      <3> QED BY <3>4, <3>5, <3>6, <3>7
    <2>3. CASE FlushReads(f)
      <3> DEFINE new == [flush[f] EXCEPT !.step = "write", !.read = settings]
      <3>1. settings \in Settings
        BY DEF IInv, ShapeInv
      <3>2. /\ new \in FlushRecords /\ new.step = "write"
            /\ new.todo = flush[f].todo
        BY <1>1, <3>1 DEF FlushRecords, Batch
      <3>3. flush' = [flush EXCEPT ![f] = new]
        BY <2>3 DEF FlushReads
      <3> HIDE DEF new
      <3>4. Sends(new, fate) /\ new.step \in Batch
        BY <1>1, <3>2 DEF Sends, Distinct, Batch
      <3> QED BY <3>2, <3>3, <3>4
    <2>4. CASE FlushWrites(f)
      <3> DEFINE new == [flush[f] EXCEPT !.step = "next", !.read = IdleFlush.read]
      <3>1. IdleFlush.read \in Settings
        BY DEF IdleFlush, Settings
      <3>2. /\ new \in FlushRecords /\ new.step = "next"
            /\ new.todo = flush[f].todo
        BY <1>1, <3>1 DEF FlushRecords, Batch
      <3>3. flush' = [flush EXCEPT ![f] = new]
        BY <2>4 DEF FlushWrites
      <3> HIDE DEF new
      <3>4. Sends(new, fate) /\ new.step \in Batch
        BY <1>1, <3>2 DEF Sends, Distinct, Batch
      <3> QED BY <3>2, <3>3, <3>4
    <2> QED BY <2>1, <2>2, <2>3, <2>4
  <1> QED BY <1>2, <1>3, <1>4, FlushGoesOn

(* The end of a batch saves what the batch has changed
   (webhookOutbox.std.ts, webhookDispatcher.node.ts:86). *)
LEMMA FlushEndsInv ==
  ASSUME IInv, NEW f \in Flushes, FlushEnds(f), scenario' = scenario
  PROVE  IInv'
  <1>1. /\ flush[f] \in FlushRecords /\ Sends(flush[f], fate)
        /\ flush[f].step = "next" /\ flush[f].todo = <<>>
    BY DEF IInv, ShapeInv, FlushInv, FlushEnds, FlushAt
  <1>2. /\ \A g \in Flushes \ {f} : flush[g].step = "idle" /\ flush[g].todo = <<>>
        /\ InBatch
    BY <1>1, OthersIdle DEF IInv, FlushAt, Batch
  <1>3. /\ UNCHANGED <<entries, settingsVars, file, emit, fate, crashes>>
        /\ dirty' = FALSE
    BY DEF FlushEnds
  <1>4. ASSUME NEW new \in FlushRecords, flush' = [flush EXCEPT ![f] = new],
               new.todo = <<>>, new.step \in {"save", "idle"}
        PROVE  /\ flush' \in [Flushes -> FlushRecords] /\ FlushInv'
               /\ flush'[f].step = new.step
               /\ \A g \in Flushes \ {f} : flush'[g] = flush[g]
    <2>1. Sends(new, fate')
      BY <1>4 DEF Sends, Distinct
    <2>2. flush' \in [Flushes -> FlushRecords] /\ FlushInv'
      BY <1>2, <1>4, <2>1, OneFlushMoves DEF IInv
    <2> QED BY <1>4, <2>2 DEF IInv, ShapeInv
  <1>5. \A i \in DOMAIN writes : writes[i].for # f
    BY <1>1 DEF IInv, WritersInv, FlushAt
  <1>6. CASE dirty
    <2> DEFINE last == [for |-> f, list |-> entries]
               new == [flush[f] EXCEPT !.step = "save"]
    <2>1. writes' = Append(writes, last) /\ flush' = [flush EXCEPT ![f] = new]
      BY <1>6 DEF FlushEnds, FlushGoes
    <2>2. new \in FlushRecords /\ new.todo = <<>> /\ new.step = "save"
      BY <1>1 DEF FlushRecords
    <2>3. last \in Writes /\ last.for = f /\ last.list = entries
      BY DEF Writes, IInv, ShapeInv
    <2>4. writes \in Seq(Writes)
      BY DEF IInv, ShapeInv
    <2> HIDE DEF last, new
    <2>5. /\ flush' \in [Flushes -> FlushRecords] /\ FlushInv'
          /\ flush'[f].step = "save"
          /\ \A g \in Flushes \ {f} : flush'[g] = flush[g]
      BY <1>4, <2>1, <2>2
    <2>6. /\ writes' \in Seq(Writes) /\ writes' # <<>>
          /\ writes'[Len(writes')] = last
          /\ \A i \in DOMAIN writes' :
               \/ i \in DOMAIN writes /\ writes'[i] = writes[i]
               \/ i = Len(writes) + 1 /\ writes'[i] = last
      BY <2>1, <2>3, <2>4
    <2>7. ShapeInv'
      BY <1>3, <2>5, <2>6 DEF IInv, ShapeInv, settingsVars
    <2>8. ListsInv'
      <3>1. \A i \in DOMAIN writes' : Stored(writes'[i].list, fate)
        BY <2>3, <2>6 DEF IInv, ListsInv
      <3> QED BY <1>3, <3>1 DEF IInv, ListsInv, Stored, Holds, Fits, Distinct, Known
    <2>9. WritersInv'
      <3>1. \A i \in DOMAIN writes' :
              writes'[i].for \in Flushes => flush'[writes'[i].for].step = "save"
        BY <1>5, <2>3, <2>5, <2>6 DEF IInv, WritersInv, FlushAt
      <3>2. \A i, j \in DOMAIN writes' :
              writes'[i].for \in Flushes /\ writes'[i].for = writes'[j].for => i = j
        BY <1>5, <2>3, <2>6 DEF IInv, WritersInv
      <3> QED BY <3>1, <3>2 DEF WritersInv, FlushAt
    <2>10. DurableInv'
      <3>1. Latest' = entries'
        BY <1>3, <2>3, <2>6 DEF Latest
      <3> QED BY <1>3, <3>1 DEF DurableInv, Ids
    <2>11. EmitInv'
      BY <1>3, EmitStays DEF IInv
    <2> QED BY <2>5, <2>7, <2>8, <2>9, <2>10, <2>11 DEF IInv
  <1>7. CASE ~dirty
    <2>1. writes' = writes /\ flush' = [flush EXCEPT ![f] = IdleFlush]
      BY <1>7 DEF FlushEnds
    <2>2. /\ IdleFlush \in FlushRecords /\ IdleFlush.todo = <<>>
          /\ IdleFlush.step = "idle"
      BY DEF IdleFlush, FlushRecords, Settings
    <2>3. flush' \in [Flushes -> FlushRecords] /\ FlushInv'
      BY <1>4, <2>1, <2>2
    <2>4. ShapeInv'
      BY <1>3, <2>1, <2>3 DEF IInv, ShapeInv, settingsVars
    <2>5. ListsInv' /\ EmitInv'
      BY <1>3, <2>1, ListsStay, EmitStays DEF IInv
    <2>6. WritersInv'
      BY <1>1, <2>1, WritersKeep DEF IInv, FlushAt
    <2>7. DurableInv'
      <3>1. Latest' = Latest /\ Ids(Latest)' = Ids(Latest) /\ Ids(entries)' = Ids(entries)
        BY <1>3, <2>1 DEF Latest, Ids
      <3> QED BY <1>3, <1>7, <3>1 DEF IInv, DurableInv
    <2> QED BY <2>3, <2>4, <2>5, <2>6, <2>7 DEF IInv
  <1> QED BY <1>6, <1>7, <1>1 DEF IInv, ShapeInv

(* A delivery has an outcome and leaves the outbox, or stays to be retried
   (webhookOutbox.std.ts:58-74). *)
LEMMA OutcomeLists ==
  ASSUME ShapeInv, ListsInv, NEW f \in Flushes, NEW entry \in Entry,
         NEW outcome \in {"accepted", "dropped"}, InBatch,
         UNCHANGED <<file, scenario>>,
         IF entry.id \in Ids(entries)
         THEN Save(f, Removed(entries, entry.id)) ELSE UNCHANGED outboxVars,
         \/ fate' = [fate EXCEPT ![entry.id] = outcome]
         \/ fate' = [fate EXCEPT ![entry.id] =
                        IF @ = "queued" THEN outcome ELSE @]
  PROVE  /\ ListsInv' /\ fate' \in [Deliveries -> Fates]
         /\ entries' \in Seq(Entry) /\ writes' = writes /\ dirty' \in BOOLEAN
         /\ ~dirty' => UNCHANGED <<entries, dirty>>
  <1> DEFINE id == entry.id
  <1>1. /\ id \in Deliveries /\ entries \in Seq(Entry) /\ dirty \in BOOLEAN
        /\ fate \in [Deliveries -> Fates] /\ scenario \in Scenarios
    BY DEF ShapeInv, Entry
  <1>2. /\ Stored(entries, fate) /\ Distinct(entries) /\ Fits(entries)
        /\ \A d \in Deliveries : fate[d] = "queued" <=> d \in Ids(entries)
    BY DEF ListsInv, Stored, Holds, Ids
  <1> HIDE DEF id
  <1>3. /\ fate' \in [Deliveries -> Fates]
        /\ \A d \in Deliveries \ {id} : fate'[d] = fate[d]
        /\ fate'[id] # "queued"
        /\ fate[id] # "none" => fate'[id] # "none"
    BY <1>1 DEF Fates, id
  <1>4. Grow(fate, fate')
    BY <1>3 DEF Grow
  <1>5. CASE id \in Ids(entries)
    <2> DEFINE rest == Removed(entries, id)
    <2>1. Save(f, rest)
      BY <1>5 DEF id
    <2>2. /\ rest \in Seq(Entry) /\ Fits(rest) /\ Distinct(rest)
          /\ \A i \in DOMAIN rest : \E k \in DOMAIN entries :
               entries[k].id # id /\ rest[i] = entries[k]
          /\ \A k \in DOMAIN entries : entries[k].id # id =>
               \E i \in DOMAIN rest : rest[i] = entries[k]
      <3>1. rest = Removed(entries, id)
        OBVIOUS
      <3>2. /\ entries \in Seq(Entry) /\ Distinct(entries) /\ Fits(entries)
            /\ scenario \in Scenarios
        BY <1>1, <1>2
      <3> HIDE DEF rest
      <3> QED BY ONLY <3>1, <3>2, RemovedKeepsOthers
    <2> HIDE DEF rest
    <2>3. Ids(rest) = Ids(entries) \ {id}
      BY <2>2 DEF Ids
    <2>4. \A i \in DOMAIN rest : rest[i].id \in Deliveries /\ rest[i].id \in Ids(rest)
      <3>1. \A i \in DOMAIN rest : rest[i] \in Entry
        BY <2>2
      <3> QED BY <3>1 DEF Entry, Ids
    <2>5. Holds(rest, fate')
      BY <1>2, <1>3, <2>3 DEF Holds, Ids
    <2>6. Stored(rest, fate')
      BY <2>2, <2>4, <2>5 DEF Stored, Known, Holds
    <2>7. ListsInv'
      BY <1>4, <2>1, <2>2, <2>5, <2>6, SaveLists
    <2>8. entries' = rest /\ dirty' = TRUE /\ writes' = writes
      BY <2>1 DEF Save
    <2> QED BY <1>3, <2>2, <2>7, <2>8
  <1>6. CASE id \notin Ids(entries)
    <2>1. UNCHANGED outboxVars
      BY <1>6 DEF id
    <2>2. \A d \in Deliveries : fate'[d] = "queued" <=> d \in Ids(entries)
      BY <1>2, <1>3, <1>6
    <2>3. Holds(entries, fate')
      BY <2>2 DEF Holds, Ids
    <2>4. /\ Stored(entries, fate') /\ Stored(file, fate')
          /\ \A i \in DOMAIN writes : Stored(writes[i].list, fate')
      BY <1>1, <1>2, <1>4, StoredGrows, ListsGrow
    <2>5. ListsInv'
      BY <2>1, <2>3, <2>4
      DEF ListsInv, Stored, Holds, Fits, Distinct, Known, outboxVars
    <2> QED BY <1>1, <1>3, <2>1, <2>5 DEF outboxVars
  <1> QED BY <1>5, <1>6

(* What a batch has still to send does not change when it is done with the
   first of it (webhookDispatcher.node.ts:100-113). *)
LEMMA TailSends ==
  ASSUME NEW run \in FlushRecords, Sends(run, fate), run.todo # <<>>,
         NEW step \in Batch \ {"send"}, NEW new,
         new = [run EXCEPT !.step = step, !.todo = Tail(@)],
         \A d \in Deliveries \ {Head(run.todo).id} : fate'[d] = fate[d]
  PROVE  new \in FlushRecords /\ new.step = step /\ Sends(new, fate')
  <1> DEFINE todo == run.todo
  <1>1. todo \in Seq(Entry) /\ todo # <<>>
    BY DEF FlushRecords
  <1>2. /\ Head(todo) = todo[1] /\ 1 \in DOMAIN todo
        /\ Tail(todo) \in Seq(Entry)
        /\ \A i \in DOMAIN Tail(todo) :
             /\ Tail(todo)[i] = todo[i + 1] /\ i + 1 \in DOMAIN todo
             /\ i + 1 # 1 /\ todo[i + 1] \in Entry
        /\ \A i, j \in DOMAIN Tail(todo) : i + 1 = j + 1 => i = j
    BY <1>1
  <1>3. /\ new \in FlushRecords /\ new.step = step /\ new.todo = Tail(todo)
    BY <1>2 DEF FlushRecords, Batch
  <1>4. /\ \A i, j \in DOMAIN todo : todo[i].id = todo[j].id => i = j
        /\ \A i \in DOMAIN todo : fate[todo[i].id] \notin {"none", "accepted"}
    BY DEF Sends, Distinct
  <1>5. \A k \in DOMAIN Tail(todo) : todo[k + 1].id \in Deliveries
    BY <1>2 DEF Entry
  <1> HIDE DEF todo
  <1>6. \A i \in DOMAIN Tail(todo) :
          fate'[Tail(todo)[i].id] \notin {"none", "accepted"}
    <2> TAKE i \in DOMAIN Tail(todo)
    <2>1. todo[i + 1].id # Head(todo).id
      BY <1>2, <1>4
    <2>2. fate'[todo[i + 1].id] = fate[todo[i + 1].id]
      BY <1>5, <2>1 DEF todo
    <2> QED BY <1>2, <1>4, <2>2
  <1>7. \A i, j \in DOMAIN Tail(todo) : Tail(todo)[i].id = Tail(todo)[j].id => i = j
    <2> SUFFICES ASSUME NEW i \in DOMAIN Tail(todo), NEW j \in DOMAIN Tail(todo),
                        Tail(todo)[i].id = Tail(todo)[j].id
                 PROVE  i = j
      OBVIOUS
    <2>1. /\ Tail(todo)[i] = todo[i + 1] /\ Tail(todo)[j] = todo[j + 1]
          /\ i + 1 \in DOMAIN todo /\ j + 1 \in DOMAIN todo
      BY <1>2
    <2>2. todo[i + 1].id = todo[j + 1].id
      BY <2>1
    <2>3. i + 1 = j + 1
      BY <1>4, <2>1, <2>2
    <2>4. i \in Nat /\ j \in Nat
      BY <1>2
    <2> QED BY <2>3, <2>4
  <1>8. new.step \notin {"idle", "enabled", "endpoints", "save", "send"}
    <2>1. step \notin {"idle", "enabled", "endpoints", "save", "send"}
      BY DEF Batch
    <2>2. new.step = step
      BY <1>3
    <2> QED BY <2>1, <2>2
  <1>9. PICK tail : tail = Tail(todo)
    OBVIOUS
  <1>10. Sends(new, fate')
    <2>1. /\ new.todo = tail
          /\ \A i, j \in DOMAIN tail : tail[i].id = tail[j].id => i = j
          /\ \A i \in DOMAIN tail : fate'[tail[i].id] \notin {"none", "accepted"}
      BY <1>3, <1>6, <1>7, <1>9
    <2> QED BY ONLY <2>1, <1>8 DEF Sends, Distinct
  <1> QED BY <1>3, <1>10

(* The first of a batch that has not been sent is settled: its endpoint no
   longer wants it, has accepted it or has refused it. *)
LEMMA FlushSettles ==
  ASSUME IInv, NEW f \in Flushes, flush[f].step \in {"next", "send"},
         flush[f].todo # <<>>, NEW step \in Batch \ {"send"}, FlushDone(f, step),
         ListsInv', fate' \in [Deliveries -> Fates],
         \A d \in Deliveries \ {Current(f).id} : fate'[d] = fate[d],
         fate[Current(f).id] # "none" => fate'[Current(f).id] # "none",
         entries' \in Seq(Entry), writes' = writes, dirty' \in BOOLEAN,
         ~dirty' => dirty' = dirty /\ Ids(entries)' = Ids(entries),
         UNCHANGED <<settingsVars, file, emit, crashes, scenario>>
  PROVE  IInv'
  <1> DEFINE new == [flush[f] EXCEPT !.step = step, !.todo = Tail(@)]
  <1>1. flush[f] \in FlushRecords /\ Sends(flush[f], fate)
    BY DEF IInv, ShapeInv, FlushInv
  <1>2. /\ \A g \in Flushes \ {f} : flush[g].step = "idle" /\ flush[g].todo = <<>>
        /\ InBatch
    BY OthersIdle DEF IInv, FlushAt, Batch
  <1>3. flush' = [flush EXCEPT ![f] = new]
    BY DEF FlushDone
  <1>4. Current(f) = Head(flush[f].todo)
    BY DEF Current
  <1>5. new \in FlushRecords /\ new.step = step /\ Sends(new, fate')
    <2>1. PICK run : run = flush[f]
      OBVIOUS
    <2>2. \A d \in Deliveries \ {Head(run.todo).id} : fate'[d] = fate[d]
      BY <1>4, <2>1
    <2>3. new = [run EXCEPT !.step = step, !.todo = Tail(@)]
      BY <2>1
    <2>4. run \in FlushRecords /\ Sends(run, fate) /\ run.todo # <<>>
      BY <1>1, <2>1
    <2> HIDE DEF new
    <2> QED BY ONLY <2>2, <2>3, <2>4, step \in Batch \ {"send"}, TailSends
  <1> HIDE DEF new
  <1>6. /\ flush' \in [Flushes -> FlushRecords] /\ FlushInv'
        /\ (InBatch' <=> new.step \in Batch)
    BY <1>2, <1>3, <1>5, OneFlushMoves DEF IInv
  <1>7. Current(f).id \in Deliveries /\ fate[Current(f).id] # "none"
    <2>1. 1 \in DOMAIN flush[f].todo /\ Head(flush[f].todo) = flush[f].todo[1]
          /\ flush[f].todo[1] \in Entry
      BY <1>1 DEF FlushRecords
    <2> QED BY <1>1, <1>4, <2>1 DEF Sends, Entry
  <1>8. EmitInv'
    <2>1. ASSUME NEW e \in Events PROVE Unheard(e, emit[e], fate')
      <3>1. Unheard(e, emit[e], fate)
        BY DEF IInv, EmitInv
      <3>2. \A p \in Endpoints : fate[<<e, p>>] = "none" => fate'[<<e, p>>] = "none"
        BY <1>7 DEF Deliveries
      <3>3. \A i \in DOMAIN emit[e].todo : emit[e].todo[i] \in Endpoints
        BY DEF IInv, ShapeInv, EmitRecords
      <3> QED BY <3>1, <3>2, <3>3 DEF Unheard
    <2> QED BY <2>1 DEF EmitInv, Unheard
  <1>9. ShapeInv'
    BY <1>6 DEF IInv, ShapeInv, settingsVars
  <1>10. WritersInv'
    BY <1>3, WritersKeep DEF IInv, FlushAt
  <1>11. DurableInv'
    <2>1. InBatch'
      BY <1>5, <1>6
    <2>2. Latest' = Latest /\ Ids(Latest)' = Ids(Latest)
      BY DEF Latest, Ids
    <2> QED BY <2>1, <2>2 DEF IInv, DurableInv
  <1> QED BY <1>6, <1>8, <1>9, <1>10, <1>11 DEF IInv

(* A delivery that is not sent, accepted or refused
   (webhookDispatcher.node.ts:92-140). *)
LEMMA FlushSendsInv ==
  ASSUME IInv, NEW f \in Flushes, FlushNext(f) \/ Accepted(f) \/ Refused(f),
         scenario' = scenario
  PROVE  IInv'
  <1>1. /\ flush[f] \in FlushRecords /\ Sends(flush[f], fate)
        /\ flush[f].step \in {"next", "send"} /\ flush[f].todo # <<>>
        /\ FlushAt(f, flush[f].step) /\ ~FlushAt(f, "idle") /\ ~FlushAt(f, "save")
    BY DEF IInv, ShapeInv, FlushInv, Sends, FlushNext, Accepted, Refused, FlushAt
  <1>2. InBatch /\ \A g \in Flushes \ {f} : flush[g].step = "idle" /\ flush[g].todo = <<>>
    BY <1>1, OthersIdle DEF IInv, Batch
  <1>3. Current(f) \in Entry /\ Current(f).id \in Deliveries
    <2>1. Current(f) \in Entry
      BY <1>1 DEF Current, FlushRecords
    <2> QED BY <2>1 DEF Entry
  <1>4. fate \in [Deliveries -> Fates]
    BY DEF IInv, ShapeInv
  <1>5. UNCHANGED <<settingsVars, file, emit, crashes>>
    BY DEF FlushNext, Accepted, Refused
  <1>6. CASE FlushNext(f) /\ Current(f).id[2] \in flush[f].subscribed
    <2> DEFINE new == [flush[f] EXCEPT !.step = "send"]
    <2>1. /\ UNCHANGED <<outboxVars, fate>>
          /\ flush' = [flush EXCEPT ![f] = new]
      BY <1>6 DEF FlushNext, FlushGoes
    <2>2. new \in FlushRecords /\ new.step = "send" /\ new.todo = flush[f].todo
      BY <1>1 DEF FlushRecords, Batch
    <2> HIDE DEF new
    <2>3. Sends(new, fate) /\ new.step \in Batch
      BY <1>1, <2>2 DEF Sends, Distinct, Batch
    <2>4. settings' \in Settings
      BY <1>5 DEF IInv, ShapeInv, settingsVars
    <2> QED BY <1>1, <1>2, <1>5, <2>1, <2>2, <2>3, <2>4, FlushGoesOn DEF settingsVars
  <1>7. ASSUME NEW outcome \in {"accepted", "dropped"},
               NEW step \in Batch \ {"send"}, FlushDone(f, step),
               IF Current(f).id \in Ids(entries)
               THEN Save(f, Removed(entries, Current(f).id))
               ELSE UNCHANGED outboxVars,
               \/ fate' = [fate EXCEPT ![Current(f).id] = outcome]
               \/ fate' = [fate EXCEPT ![Current(f).id] =
                              IF @ = "queued" THEN outcome ELSE @]
        PROVE  IInv'
    <2>1. /\ ListsInv' /\ fate' \in [Deliveries -> Fates]
          /\ entries' \in Seq(Entry) /\ writes' = writes /\ dirty' \in BOOLEAN
          /\ ~dirty' => UNCHANGED <<entries, dirty>>
      BY <1>2, <1>3, <1>5, <1>7, OutcomeLists DEF IInv
    <2>2. /\ \A d \in Deliveries \ {Current(f).id} : fate'[d] = fate[d]
          /\ fate[Current(f).id] # "none" => fate'[Current(f).id] # "none"
      BY <1>3, <1>4, <1>7
    <2>3. ~dirty' => dirty' = dirty /\ Ids(entries)' = Ids(entries)
      BY <2>1 DEF Ids
    <2> QED BY <1>1, <1>5, <1>7, <2>1, <2>2, <2>3, FlushSettles
  <1>8. CASE FlushNext(f) /\ Current(f).id[2] \notin flush[f].subscribed
    <2>1. /\ FlushDone(f, "next")
          /\ IF Current(f).id \in Ids(entries)
             THEN Save(f, Removed(entries, Current(f).id))
             ELSE UNCHANGED outboxVars
          /\ fate' = [fate EXCEPT ![Current(f).id] =
                         IF @ = "queued" THEN "dropped" ELSE @]
      BY <1>8 DEF FlushNext, Fate
    <2>2. "next" \in Batch \ {"send"}
      BY DEF Batch
    <2> QED BY <1>7, <2>1, <2>2
  <1>9. CASE Accepted(f)
    <2>1. "read" \in Batch \ {"send"}
      BY DEF Batch
    <2> QED BY <1>7, <1>9, <2>1 DEF Accepted
  <1>10. CASE Refused(f)
    <2> DEFINE entry == [Current(f) EXCEPT !.due = FALSE]
               list == Updated(entries, entry)
    <2>1. FlushDone(f, "read") /\ fate' = fate
      BY <1>10 DEF Refused
    <2>2. entry \in Entry /\ entry.id = Current(f).id
      BY <1>3 DEF Entry
    <2>3. entries \in Seq(Entry) /\ scenario \in Scenarios
      BY DEF IInv, ShapeInv
    <2>4. CASE Current(f).id \in Ids(entries)
      <3>1. Save(f, list)
        BY <1>10, <2>4 DEF Refused
      <3> HIDE DEF entry
      <3>2. /\ list \in Seq(Entry) /\ Len(list) = Len(entries)
            /\ DOMAIN list = DOMAIN entries
            /\ \A i \in DOMAIN entries : list[i].id = entries[i].id
        BY <2>2, <2>3, UpdatedKeepsIds
      <3> HIDE DEF list
      <3>3. Stored(list, fate') /\ Holds(list, fate') /\ Ids(list) = Ids(entries)
        BY <2>1, <3>2
        DEF IInv, ListsInv, Stored, Holds, Fits, Distinct, Known, Ids
      <3>4. Grow(fate, fate')
        BY <2>1 DEF Grow
      <3>5. ListsInv'
        BY <1>5, <3>1, <3>2, <3>3, <3>4, SaveLists DEF IInv
      <3>6. entries' = list /\ dirty' = TRUE /\ writes' = writes
        BY <1>2, <3>1 DEF Save
      <3>7. "read" \in Batch \ {"send"}
        BY DEF Batch
      <3> QED BY <1>1, <1>4, <1>5, <2>1, <3>2, <3>5, <3>6, <3>7, FlushSettles
    <2>5. CASE Current(f).id \notin Ids(entries)
      <3>1. UNCHANGED outboxVars
        BY <1>10, <2>5 DEF Refused
      <3>2. ListsInv'
        BY <1>5, <2>1, <3>1, ListsStay DEF IInv, outboxVars
      <3>3. "read" \in Batch \ {"send"}
        BY DEF Batch
      <3>4. dirty' \in BOOLEAN /\ dirty' = dirty /\ Ids(entries)' = Ids(entries)
            /\ writes' = writes /\ entries' \in Seq(Entry)
        BY <2>3, <3>1 DEF IInv, ShapeInv, outboxVars, Ids
      <3> QED BY <1>1, <1>4, <1>5, <2>1, <3>2, <3>3, <3>4, FlushSettles
    <2> QED BY <2>4, <2>5
  <1> QED BY <1>6, <1>8, <1>9, <1>10

-----------------------------------------------------------------------------
(* The writes, the user, the clock and the crashes. *)

(* A write that ends, well or not, is over for its caller
   (webhookOutbox.std.ts, #save()). *)
LEMMA WriteEndsInv ==
  ASSUME IInv, NEW i \in DOMAIN writes, WriteEnds(i), scenario' = scenario
  PROVE  IInv'
  <1> DEFINE who == writes[i].for
             n == Len(writes)
  <1>1. /\ writes \in Seq(Writes) /\ n \in Nat /\ i \in 1 .. n
        /\ \A k \in DOMAIN writes : writes[k] \in Writes
    BY DEF IInv, ShapeInv
  <1>2. who \in Events \cup Flushes /\ writes[i].list \in Seq(Entry)
    BY <1>1 DEF Writes
  <1>3. /\ UNCHANGED <<entries, dirty, settingsVars, fate, crashes>>
        /\ writes' = RemoveAt(writes, i)
        /\ flush' = IF who \in Flushes THEN [flush EXCEPT ![who] = IdleFlush]
                                       ELSE flush
    BY DEF WriteEnds
  <1>4. file' \in {file, writes[i].list}
    BY DEF WriteEnds
  <1>5. /\ writes' \in Seq(Writes) /\ Len(writes') = n - 1
        /\ DOMAIN writes' = 1 .. (n - 1)
        /\ \A k \in 1 .. (n - 1) : writes'[k] = writes[IF k < i THEN k ELSE k + 1]
    BY <1>1, <1>3, RemoveAtElements
  <1> HIDE DEF n
  <1>6. \A k \in 1 .. (n - 1) :
          /\ (IF k < i THEN k ELSE k + 1) \in DOMAIN writes
          /\ (IF k < i THEN k ELSE k + 1) # i
    BY <1>1 DEF n
  <1>7. emit' \in [Events -> EmitRecords] /\ EmitInv'
    <2>1. CASE who \in Events
      <3>1. PICK step \in {"add", "done"} :
              emit' = [emit EXCEPT ![who].step = step]
        BY <2>1 DEF WriteEnds
      <3>2. emit[who] \in EmitRecords /\ Unheard(who, emit[who], fate)
        BY <2>1 DEF IInv, ShapeInv, EmitInv
      <3> DEFINE new == [emit[who] EXCEPT !.step = step]
      <3>3. new \in EmitRecords /\ new.step = step /\ new.todo = emit[who].todo
        BY <3>2 DEF EmitRecords
      <3>4. emit' = [emit EXCEPT ![who] = new]
        BY <3>1
      <3> HIDE DEF new
      <3>5. Unheard(who, new, fate')
        BY <1>3, <3>2, <3>3 DEF Unheard
      <3>6. \A d \in Deliveries : d[1] # who /\ fate[d] = "none" => fate'[d] = "none"
        BY <1>3
      <3> HIDE DEF who
      <3> QED BY <2>1, <3>3, <3>4, <3>5, <3>6, EmitMoves DEF IInv
    <2>2. CASE who \notin Events
      <3>1. emit' = emit
        BY <2>2 DEF WriteEnds
      <3> QED BY <1>3, <3>1, EmitStays DEF IInv, ShapeInv
    <2> QED BY <2>1, <2>2
  <1>8. /\ flush' \in [Flushes -> FlushRecords] /\ FlushInv'
        /\ InBatch' <=> InBatch
        /\ \A g \in Flushes : g # who => flush'[g] = flush[g]
    <2>1. CASE who \in Flushes
      <3>1. FlushAt(who, "save")
        BY <2>1 DEF IInv, WritersInv
      <3>2. /\ \A g \in Flushes \ {who} :
                 flush[g].step = "idle" /\ flush[g].todo = <<>>
            /\ ~InBatch
        BY <2>1, <3>1, OthersIdle DEF IInv, FlushAt, Batch
      <3>3. /\ IdleFlush \in FlushRecords /\ IdleFlush.step = "idle"
            /\ Sends(IdleFlush, fate')
        BY DEF IdleFlush, FlushRecords, Settings, Sends, Distinct
      <3>4. flush' = [flush EXCEPT ![who] = IdleFlush]
        BY <1>3, <2>1
      <3> HIDE DEF who
      <3>5. /\ flush' \in [Flushes -> FlushRecords] /\ FlushInv'
            /\ InBatch' <=> IdleFlush.step \in Batch
        BY <2>1, <3>2, <3>3, <3>4, OneFlushMoves DEF IInv
      <3>6. \A g \in Flushes : g # who => flush'[g] = flush[g]
        BY <3>4 DEF IInv, ShapeInv
      <3> QED BY <3>2, <3>3, <3>5, <3>6 DEF Batch
    <2>2. CASE who \notin Flushes
      <3>1. flush' = flush
        BY <1>3, <2>2
      <3>2. flush \in [Flushes -> FlushRecords]
        BY DEF IInv, ShapeInv
      <3>3. FlushInv' /\ (InBatch' <=> InBatch)
        BY <1>3, <3>1, FlushStays DEF IInv, InBatch, FlushAt
      <3> QED BY <3>1, <3>2, <3>3
    <2> QED BY <2>1, <2>2
  <1>9. ShapeInv'
    <2>1. file' \in Seq(Entry)
      BY <1>2, <1>4 DEF IInv, ShapeInv
    <2> QED BY <1>3, <1>5, <1>7, <1>8, <2>1 DEF IInv, ShapeInv, settingsVars
  <1>10. ListsInv'
    <2>1. \A k \in DOMAIN writes : Stored(writes[k].list, fate)
      BY DEF IInv, ListsInv
    <2>2. \A k \in DOMAIN writes' : Stored(writes'[k].list, fate)
      BY <1>5, <1>6, <2>1
    <2>3. Stored(file', fate)
      BY <1>4, <2>1 DEF IInv, ListsInv
    <2>4. Stored(entries, fate) /\ Holds(entries, fate)
      BY DEF IInv, ListsInv
    <2> QED BY <1>3, <2>2, <2>3, <2>4
            DEF ListsInv, Stored, Holds, Fits, Distinct, Known
  <1>11. WritersInv'
    <2>1. /\ \A k \in DOMAIN writes : writes[k].for \in Flushes =>
               flush[writes[k].for].step = "save"
          /\ \A k, l \in DOMAIN writes :
               writes[k].for \in Flushes /\ writes[k].for = writes[l].for => k = l
      BY DEF IInv, WritersInv, FlushAt
    <2>2. \A k \in 1 .. (n - 1) : writes'[k].for \in Flushes =>
            flush'[writes'[k].for].step = "save"
      <3> TAKE k \in 1 .. (n - 1)
      <3> HAVE writes'[k].for \in Flushes
      <3>1. PICK l \in DOMAIN writes : l # i /\ writes'[k] = writes[l]
        BY <1>5, <1>6
      <3>2. writes[l].for # who
        BY <2>1, <3>1
      <3> QED BY <1>8, <2>1, <3>1, <3>2
    <2>3. \A k, l \in 1 .. (n - 1) :
            (IF k < i THEN k ELSE k + 1) = (IF l < i THEN l ELSE l + 1) => k = l
      BY <1>1
    <2>4. \A k, l \in 1 .. (n - 1) :
            writes'[k].for \in Flushes /\ writes'[k].for = writes'[l].for => k = l
      <3> SUFFICES ASSUME NEW k \in 1 .. (n - 1), NEW l \in 1 .. (n - 1),
                          writes'[k].for \in Flushes,
                          writes'[k].for = writes'[l].for
                   PROVE  k = l
        OBVIOUS
      <3>1. PICK a \in DOMAIN writes :
              a = (IF k < i THEN k ELSE k + 1) /\ writes'[k] = writes[a]
        BY <1>5, <1>6
      <3>2. PICK b \in DOMAIN writes :
              b = (IF l < i THEN l ELSE l + 1) /\ writes'[l] = writes[b]
        BY <1>5, <1>6
      <3>3. a = b
        BY <2>1, <3>1, <3>2
      <3> QED BY <2>3, <3>1, <3>2, <3>3
    <2> QED BY <1>5, <2>2, <2>4 DEF WritersInv, FlushAt
  <1>12. DurableInv'
    <2>1. dirty' => InBatch'
      BY <1>3, <1>8 DEF IInv, DurableInv
    <2>2. scenario.faults = {} => Latest' = Latest
      <3> HAVE scenario.faults = {}
      <3>1. i = 1 /\ file' = writes[1].list
        BY DEF WriteEnds
      <3>2. writes # <<>>
        BY <1>1 DEF n
      <3>3. CASE n = 1
        <4>1. writes' = <<>>
          BY <1>5, <3>3
        <4> QED BY <3>1, <3>2, <3>3, <4>1 DEF Latest, n
      <3>4. CASE n # 1
        <4>1. n - 1 \in 1 .. (n - 1) /\ ~(n - 1 < 1) /\ n - 1 + 1 = n
          BY <1>1, <3>4
        <4>2. writes' # <<>> /\ writes'[n - 1] = writes[n]
          BY <1>5, <3>1, <4>1
        <4> QED BY <1>5, <3>2, <4>2 DEF Latest, n
      <3> QED BY <3>3, <3>4
    <2>3. scenario.faults = {} => Ids(Latest)' = Ids(Latest)
      BY <2>2 DEF Ids
    <2>4. Ids(entries)' = Ids(entries)
      BY <1>3 DEF Ids
    <2> QED BY <1>3, <2>1, <2>3, <2>4 DEF IInv, DurableInv
  <1> QED BY <1>7, <1>8, <1>9, <1>10, <1>11, <1>12 DEF IInv

(* The delay of a retry changes no id. *)
LEMMA ElapseInv ==
  ASSUME IInv, NEW d \in Deliveries, Elapse(d)
  PROVE  IInv'
  <1>1. PICK i \in DOMAIN entries : entries' = [entries EXCEPT ![i].due = TRUE]
    BY DEF Elapse
  <1>2. entries \in Seq(Entry) /\ entries[i] \in Entry
    BY DEF IInv, ShapeInv
  <1> DEFINE new == [entries[i] EXCEPT !.due = TRUE]
  <1>3. entries' = [entries EXCEPT ![i] = new]
    BY <1>1
  <1>4. new \in Entry /\ new.id = entries[i].id
    BY <1>2 DEF Entry
  <1> HIDE DEF new
  <1>5. /\ entries' \in Seq(Entry) /\ Len(entries') = Len(entries)
        /\ DOMAIN entries' = DOMAIN entries
        /\ \A k \in DOMAIN entries : entries'[k].id = entries[k].id
    BY <1>2, <1>3, <1>4
  <1>6. UNCHANGED <<dirty, writes, settingsVars, file, emit, flush, fate, crashes,
                    scenario>>
    BY DEF Elapse
  <1>7. ShapeInv'
    BY <1>5, <1>6 DEF IInv, ShapeInv, settingsVars
  <1>8. ListsInv'
    BY <1>5, <1>6 DEF IInv, ListsInv, Stored, Holds, Fits, Distinct, Known
  <1>9. EmitInv' /\ FlushInv' /\ WritersInv'
    BY <1>6, EmitStays, FlushStays, WritersStay DEF IInv
  <1>10. DurableInv'
    <2>1. Latest' = Latest /\ Ids(Latest)' = Ids(Latest)
      BY <1>6 DEF Latest, Ids
    <2>2. Ids(entries)' = Ids(entries) /\ (InBatch' <=> InBatch)
      BY <1>5, <1>6 DEF Ids, InBatch, FlushAt
    <2> QED BY <1>6, <2>1, <2>2 DEF IInv, DurableInv
  <1> QED BY <1>7, <1>8, <1>9, <1>10 DEF IInv

(* The user changes the settings, not the outbox. *)
LEMMA UserInv ==
  ASSUME IInv, UserReads \/ UserWrites
  PROVE  IInv'
  <1>1. UNCHANGED <<outboxVars, file, emit, flush, fate, crashes, scenario>>
    BY DEF UserReads, UserWrites
  <1>2. /\ settings' \in Settings /\ chosen' \in Settings
        /\ user' \in [step : {"idle", "write"}, read : Settings]
        /\ changes' \in 0 .. MaxChanges
    <2>1. /\ settings \in Settings /\ chosen \in Settings
          /\ user \in [step : {"idle", "write"}, read : Settings]
          /\ changes \in 0 .. MaxChanges
      BY DEF IInv, ShapeInv
    <2>2. CASE UserReads
      <3>1. changes' \in 0 .. MaxChanges
        BY <2>1, <2>2, WebhookAssumption DEF UserReads
      <3> QED BY <2>1, <2>2, <3>1 DEF UserReads
    <2>3. CASE UserWrites
      <3>1. settings' \in Settings
        <4>1. user.read \in Settings
          BY <2>1
        <4>2. CASE settings' = [user.read EXCEPT !.enabled = ~@]
          <5>1. (~user.read.enabled) \in BOOLEAN
            OBVIOUS
          <5> QED BY ONLY <4>1, <4>2, <5>1 DEF Settings
        <4>3. CASE \E p \in Endpoints :
                     settings' = [user.read EXCEPT !.subscribed =
                                    IF p \in @ THEN @ \ {p} ELSE @ \cup {p}]
          <5>1. PICK S \in SUBSET Endpoints :
                  settings' = [user.read EXCEPT !.subscribed = S]
            BY <4>1, <4>3 DEF Settings
          <5> QED BY ONLY <4>1, <5>1, S \in SUBSET Endpoints DEF Settings
        <4> QED BY <2>3, <4>2, <4>3 DEF UserWrites
      <3>2. IdleUser \in [step : {"idle", "write"}, read : Settings]
        BY DEF IdleUser, Settings
      <3> QED BY <2>1, <2>3, <3>1, <3>2 DEF UserWrites
    <2> QED BY <2>2, <2>3
  <1>3. ShapeInv'
    BY <1>1, <1>2 DEF IInv, ShapeInv, outboxVars
  <1>4. ListsInv' /\ EmitInv' /\ FlushInv' /\ WritersInv' /\ DurableInv'
    BY <1>1, ListsStay, EmitStays, FlushStays, WritersStay, DurableStays
    DEF IInv, outboxVars
  <1> QED BY <1>3, <1>4 DEF IInv

(* After a restart the outbox is what the file holds, and no event that has
   begun goes on (webhookOutbox.std.ts, #load()). *)
LEMMA CrashInv ==
  ASSUME IInv, Crash, scenario' = scenario
  PROVE  IInv'
  <1>1. /\ entries' = file /\ file' = file /\ dirty' = FALSE /\ writes' = <<>>
        /\ emit' = [e \in Events |-> IF EmitAt(e, "none") THEN emit[e]
                                     ELSE [step |-> "done", todo |-> <<>>]]
        /\ flush' = [f \in Flushes |-> IdleFlush]
        /\ user' = IdleUser /\ crashes' = crashes + 1 /\ crashes < MaxCrashes
        /\ fate' = [d \in Deliveries |-> IF d \in Ids(file) THEN "queued"
                                         ELSE IF fate[d] = "queued" THEN "dropped"
                                         ELSE fate[d]]
        /\ UNCHANGED <<settings, chosen, changes>>
    BY DEF Crash
  <1>2. /\ file \in Seq(Entry) /\ fate \in [Deliveries -> Fates]
        /\ Stored(file, fate) /\ emit \in [Events -> EmitRecords]
    BY DEF IInv, ShapeInv, ListsInv
  <1>3. \A k \in DOMAIN file : /\ file[k].id \in Deliveries
                               /\ file[k].id \in Ids(file)
                               /\ fate[file[k].id] # "none"
    <2>1. \A k \in DOMAIN file : file[k] \in Entry
      BY <1>2
    <2> QED BY <1>2, <2>1 DEF Entry, Ids, Stored, Known
  <1>4. /\ fate' \in [Deliveries -> Fates]
        /\ \A d \in Deliveries : fate'[d] = "queued" <=> d \in Ids(file)
    BY <1>1, <1>2 DEF Fates
  <1>5. \A d \in Deliveries : fate[d] = "none" => fate'[d] = "none"
    <2>1. \A d \in Deliveries : fate[d] = "none" => d \notin Ids(file)
      BY <1>3 DEF Ids
    <2> QED BY <1>1, <2>1
  <1>6. ShapeInv'
    <2>1. emit' \in [Events -> EmitRecords]
      <3>1. [step |-> "done", todo |-> <<>>] \in EmitRecords
        BY DEF EmitRecords
      <3> QED BY <1>1, <1>2, <3>1
    <2>2. /\ IdleFlush \in FlushRecords
          /\ IdleUser \in [step : {"idle", "write"}, read : Settings]
      BY DEF IdleFlush, IdleUser, FlushRecords, Settings
    <2>3. crashes' \in 0 .. MaxCrashes
      BY <1>1, WebhookAssumption DEF IInv, ShapeInv
    <2>4. flush' \in [Flushes -> FlushRecords]
      BY <1>1, <2>2
    <2>5. writes' \in Seq(Writes)
      BY <1>1
    <2>6. /\ settings' \in Settings /\ chosen' \in Settings
          /\ changes' \in 0 .. MaxChanges /\ scenario' \in Scenarios
      BY <1>1 DEF IInv, ShapeInv
    <2> QED BY <1>1, <1>2, <1>4, <2>1, <2>2, <2>3, <2>4, <2>5, <2>6 DEF ShapeInv
  <1>7. ListsInv'
    <2>1. Stored(file, fate')
      BY <1>2, <1>3, <1>4 DEF Stored, Known
    <2>2. Holds(file, fate')
      BY <1>4 DEF Holds, Ids
    <2> QED BY <1>1, <2>1, <2>2
            DEF ListsInv, Stored, Holds, Fits, Distinct, Known
  <1>8. EmitInv'
    <2>1. ASSUME NEW e \in Events PROVE Unheard(e, emit'[e], fate')
      <3>1. CASE EmitAt(e, "none")
        <4>1. emit'[e] = emit[e] /\ emit[e] \in EmitRecords
          BY <1>1, <1>2, <3>1
        <4>2. Unheard(e, emit[e], fate)
          BY DEF IInv, EmitInv
        <4>3. \A p \in Endpoints : fate[<<e, p>>] = "none" => fate'[<<e, p>>] = "none"
          BY <1>5 DEF Deliveries
        <4>4. \A k \in DOMAIN emit[e].todo : emit[e].todo[k] \in Endpoints
          BY <4>1 DEF EmitRecords
        <4> QED BY <4>1, <4>2, <4>3, <4>4 DEF Unheard
      <3>2. CASE ~EmitAt(e, "none")
        <4>1. emit'[e] = [step |-> "done", todo |-> <<>>]
          BY <1>1, <3>2
        <4> QED BY <4>1 DEF Unheard
      <3> QED BY <3>1, <3>2
    <2> QED BY <2>1 DEF EmitInv, Unheard
  <1>9. FlushInv'
    <2>1. \A f \in Flushes : flush'[f].step = "idle" /\ flush'[f].todo = <<>>
      BY <1>1 DEF IdleFlush
    <2> QED BY <2>1 DEF FlushInv, FlushAt, Sends, Distinct
  <1>10. WritersInv'
    BY <1>1 DEF WritersInv
  <1>11. DurableInv'
    <2>1. Latest' = file
      BY <1>1 DEF Latest
    <2>2. Ids(Latest)' = Ids(file) /\ Ids(entries)' = Ids(file)
      BY <1>1, <2>1 DEF Ids
    <2> QED BY <1>1, <2>2 DEF DurableInv
  <1> QED BY <1>6, <1>7, <1>8, <1>9, <1>10, <1>11 DEF IInv

-----------------------------------------------------------------------------
(* The theorems. *)

(* Every step preserves the invariant. *)
LEMMA NextInv ==
  IInv /\ [Next]_vars => IInv'
  <1> SUFFICES ASSUME IInv, [Next]_vars PROVE IInv'
    OBVIOUS
  <1>1. CASE UNCHANGED vars
    <2>1. UNCHANGED <<entries, dirty, writes, settings, user, chosen, changes,
                      file, emit, flush, fate, crashes, scenario>>
      BY <1>1 DEF vars, outboxVars, settingsVars
    <2>2. ShapeInv'
      BY <2>1 DEF IInv, ShapeInv
    <2> QED BY <2>1, <2>2, ListsStay, EmitStays, FlushStays, WritersStay,
               DurableStays DEF IInv
  <1>2. CASE Next
    <2>1. scenario' = scenario /\ Step
      BY <1>2 DEF Next
    <2>2. CASE \E e \in Events : Emit(e) \/ EmitProceeds(e)
      BY <2>1, <2>2, EmitReads, EmitAddsInv DEF EmitProceeds
    <2>3. CASE \E f \in Flushes : FlushStarts(f) \/ FlushProceeds(f)
      BY <2>1, <2>3, FlushReadsInv, FlushSendsInv, FlushEndsInv DEF FlushProceeds
    <2>4. CASE \E i \in DOMAIN writes : WriteEnds(i)
      BY <2>1, <2>4, WriteEndsInv
    <2>5. CASE \E d \in Deliveries : Elapse(d)
      BY <2>5, ElapseInv
    <2>6. CASE UserReads \/ UserWrites
      BY <2>6, UserInv
    <2>7. CASE Crash
      BY <2>1, <2>7, CrashInv
    <2> QED BY <2>1, <2>2, <2>3, <2>4, <2>5, <2>6, <2>7 DEF Step
  <1> QED BY <1>1, <1>2

(* The outbox, its file, the lists on their way to it and the work of the
   dispatcher fit together in every reachable state
   (webhookOutbox.std.ts, webhookDispatcher.node.ts). *)
THEOREM DeliveryInvariant == Spec => []IInv
  <1>1. Init => IInv
    BY InitInv
  <1>2. IInv /\ [Next]_vars => IInv'
    BY NextInv
  <1> QED BY <1>1, <1>2, PTL DEF Spec

(* The types, as TypeOK states them. *)
LEMMA InvTypes ==
  IInv => TypeOK
  <1> SUFFICES ASSUME IInv PROVE TypeOK
    OBVIOUS
  <1>1. ShapeInv /\ ListsInv
    BY DEF IInv
  <1>2. /\ entries \in Seq(Entry) /\ Len(entries) <= scenario.maxEntries
        /\ file \in Seq(Entry) /\ Len(file) <= scenario.maxEntries
        /\ dirty \in BOOLEAN
    BY <1>1 DEF ShapeInv, ListsInv, Stored, Fits
  <1>3. \A i \in DOMAIN writes : /\ writes[i].for \in Events \cup Flushes
                                 /\ writes[i].list \in Seq(Entry)
    <2>1. \A i \in DOMAIN writes : writes[i] \in Writes
      BY <1>1 DEF ShapeInv
    <2> QED BY <2>1 DEF Writes
  <1>4. emit \in [Events -> [step : {"none", "enabled", "endpoints", "add",
                                     "saved", "done"},
                             todo : Seq(Endpoints)]]
    BY <1>1 DEF ShapeInv, EmitRecords
  <1>5. \A f \in Flushes :
          /\ flush[f].step \in {"idle", "enabled", "endpoints", "next", "send",
                                "read", "write", "save"}
          /\ flush[f].subscribed \subseteq Endpoints
          /\ flush[f].todo \in Seq(Entry)
          /\ flush[f].read \in Settings
    <2>1. \A f \in Flushes : flush[f] \in FlushRecords
      BY <1>1 DEF ShapeInv
    <2> QED BY <2>1 DEF FlushRecords, Batch
  <1>6. user.step \in {"idle", "write"} /\ user.read \in Settings
    BY <1>1 DEF ShapeInv
  <1>7. /\ settings \in Settings /\ chosen \in Settings
        /\ fate \in [Deliveries -> {"none", "queued", "accepted", "dropped"}]
        /\ changes \in 0..MaxChanges /\ crashes \in 0..MaxCrashes
        /\ scenario \in Scenarios
    BY <1>1 DEF ShapeInv, Fates
  <1> QED BY <1>2, <1>3, <1>4, <1>5, <1>6, <1>7 DEF TypeOK

(* The outbox holds every delivery whose fate is open and no other, each of
   them once and within its limit; no flush sends what an endpoint has accepted
   (webhookOutbox.std.ts:47-74, webhookDispatcher.node.ts:100-113). *)
THEOREM OutboxAlwaysHolds == Spec => []OutboxInv
  <1>1. IInv => OutboxInv
    <2> SUFFICES ASSUME IInv PROVE OutboxInv
      OBVIOUS
    <2>1. TypeOK
      BY InvTypes
    <2>2. OutboxHoldsQueued
      <3>1. /\ Holds(entries, fate) /\ Distinct(entries)
            /\ \A i \in DOMAIN entries : entries[i].id \in Deliveries
        <4>1. \A i \in DOMAIN entries : entries[i] \in Entry
          BY DEF IInv, ShapeInv
        <4> QED BY <4>1 DEF IInv, ListsInv, Stored, Entry
      <3>2. Ids(entries) = {d \in Deliveries : fate[d] = "queued"}
        BY <3>1 DEF Holds, Ids
      <3>3. IsInjective([i \in DOMAIN entries |-> entries[i].id])
        BY <3>1 DEF Distinct, IsInjective
      <3> QED BY <3>2, <3>3 DEF OutboxHoldsQueued
    <2>3. AcceptedOnce
      <3> SUFFICES ASSUME NEW f \in Flushes, FlushAt(f, "send")
                   PROVE  fate[Current(f).id] # "accepted"
        BY DEF AcceptedOnce
      <3>1. flush[f] \in FlushRecords /\ Sends(flush[f], fate)
        BY DEF IInv, ShapeInv, FlushInv
      <3>2. flush[f].todo \in Seq(Entry) /\ flush[f].todo # <<>>
        BY <3>1 DEF FlushRecords, Sends, FlushAt
      <3>3. 1 \in DOMAIN flush[f].todo /\ Head(flush[f].todo) = flush[f].todo[1]
        BY <3>2
      <3> QED BY <3>1, <3>3 DEF Sends, Current
    <2> QED BY <2>1, <2>2, <2>3 DEF OutboxInv
  <1> QED BY <1>1, DeliveryInvariant, PTL

(* What a restart would find when nothing is being written is what the outbox
   holds (webhookDispatcher.node.ts:86). *)
THEOREM SettledIsAlwaysDurable == Spec => []SettledIsDurable
  <1>1. IInv => SettledIsDurable
    BY DEF IInv, DurableInv, Latest, SettledIsDurable
  <1> QED BY <1>1, DeliveryInvariant, PTL
===============================================================================
