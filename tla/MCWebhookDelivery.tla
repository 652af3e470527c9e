--------------------------- MODULE MCWebhookDelivery ---------------------------
(* Small instances of the webhook delivery for TLC: an outbox that overflows
   while everything goes wrong, and one with room for both deliveries. *)
EXTENDS WebhookDelivery

NoFaults == {[maxEntries |-> 2, faults |-> {}]}
Overflowing == {[maxEntries |-> 1, faults |-> AllFaults]}
MCScenarios == NoFaults \cup Overflowing
===============================================================================
