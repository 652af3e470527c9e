------------------------- MODULE MCAutomationRequests --------------------------
(* Small instances of the automation requests for TLC: retries of one key in
   one page with two contents, two keys in a cache of one that expire and are
   lost with their page, and calls that fail too late or queue nothing. *)
EXTENDS AutomationRequests

CONSTANTS k1, k2, m1, m2

MCScenarios ==
    {[messages |-> [key : {k1, NoKey}, content : {m1, m2}],
      faults |-> {"fail"}, reloads |-> 0],
     [messages |-> [key : {k1, k2}, content : {m1}],
      faults |-> {"fail", "expire"}, reloads |-> MaxReloads],
     [messages |-> [key : {k1}, content : {m1}],
      faults |-> SendFaults \ {"expire"}, reloads |-> MaxReloads]}
===============================================================================
