-------------------------- MODULE MCAutomationRuntime --------------------------
(* Settings handlers, announcements and requests around the restarts of the
   server, with results of deliveries that are written into the same file; failures; a port in use; and jobs of a client whose server is
   stopped, more of them than places and than are retained. *)
EXTENDS AutomationRuntime

CONSTANTS p1, p2, r1, r2, w1

Quiet == [calls |-> 3, requests |-> {}, writers |-> {}, ports |-> {p1}, faults |-> {},
          taken |-> {}, overlap |-> FALSE, quits |-> FALSE, jobs |-> 0]

RuntimeScenarios ==
    {[Quiet EXCEPT !.overlap = TRUE, !.quits = TRUE],
     [Quiet EXCEPT !.writers = {w1}],
     [Quiet EXCEPT !.requests = {r1}],
     [Quiet EXCEPT !.calls = 2, !.requests = {r1, r2}, !.quits = TRUE],
     [Quiet EXCEPT !.ports = {p1, p2}, !.faults = ServerFaults, !.taken = {p2}],
     [Quiet EXCEPT !.calls = 1, !.requests = {r1}, !.jobs = 4]}
===============================================================================
