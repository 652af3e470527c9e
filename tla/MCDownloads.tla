------------------------------ MODULE MCDownloads ------------------------------
(* The local model: two installations of one model with two summaries; cancelled,
   failing and overlapping ones; two models, with failing prompts, and with models
   and contexts that cannot be had; a change of the settings between two summaries;
   files that stay and peers that stall.  The update: two downloads with every
   failure and two restarts on both platforms; and the faults its check does not
   cover.  Both beside each other. *)
EXTENDS Downloads

CONSTANTS m1, m2, d1, d2, c1, c2

\* A scenario in which nothing happens.
Nothing ==
    [installs |-> 0, generations |-> 0, saves |-> 0, cancels |-> FALSE,
     models |-> {},
     downloads |-> {}, platform |-> "win32", legacy |-> NoTransfer,
     reloads |-> 0, restarts |-> 0, faults |-> {}]

ModelScenarios ==
    LET One == [Nothing EXCEPT !.installs = 1, !.generations = 1, !.models = {m1}]
        Two == [One EXCEPT !.installs = 2]
    IN  {[Two EXCEPT !.generations = 2],
         [Two EXCEPT !.generations = 0, !.cancels = TRUE,
                     !.faults = {"runtime", "network", "write"}],
         [Two EXCEPT !.generations = 0, !.cancels = TRUE,
                     !.faults = {"network", "reopen"}],
         [Two EXCEPT !.models = {m1, m2}, !.faults = {"dispose", "model"}],
         [One EXCEPT !.generations = 2, !.faults = {"model"}],
         [One EXCEPT !.generations = 2, !.faults = {"context"}],
         [Two EXCEPT !.generations = 0, !.cancels = TRUE,
                     !.faults = {"network", "unlink"}],
         [One EXCEPT !.cancels = TRUE, !.faults = {"stall"}],
         [One EXCEPT !.generations = 2, !.saves = 1]}

UpdateScenarios ==
    LET Two == [Nothing EXCEPT !.downloads = {d1, d2}, !.restarts = 2,
                               !.faults = {"network", "write", "launch"}]
    IN  {Two,
         [Two EXCEPT !.platform = "darwin", !.legacy = 1,
                     !.faults = @ \cup {"unlink"}],
         [Two EXCEPT !.legacy = 1, !.restarts = 0, !.faults = {"mkdir", "network"}],
         [Two EXCEPT !.downloads = {d1}, !.restarts = 0, !.faults = {"stall"}],
         [Two EXCEPT !.legacy = 1, !.restarts = 0, !.faults = {"withdrawn"}],
         [Two EXCEPT !.legacy = 1, !.restarts = 0, !.reloads = 1,
                     !.faults = {"network", "reload", "lost"}]}

BothScenarios ==
    {[Nothing EXCEPT !.installs = 1, !.generations = 1, !.models = {m1},
                     !.downloads = {d1}, !.restarts = 1]}

DownloadsScenarios == ModelScenarios \cup UpdateScenarios \cup BothScenarios
===============================================================================
