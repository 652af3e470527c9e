---------------------------- MODULE MCRecordingFiles ----------------------------
(* Small instances of the recording files for TLC: one audio recording and one
   video with several combinations of faults, two audio recordings and an
   audio recording beside a video without a failing disk. *)
EXTENDS RecordingFiles

CONSTANTS r1, r2, v1

MCScenarios ==
    [recordings : {{r1}},
     faults : {{"disk", "undo", "window", "eager"}, {"window", "eager", "old"},
               {"disk", "old"}, {"disk"}, {"undo", "window"}}]
    \cup [recordings : {{r1, r2}, {r1, v1}}, faults : {{}}]
    \cup [recordings : {{v1}},
          faults : {{"disk", "undo", "window", "announce"}, {"disk", "window"},
                    {"disk", "old", "announce"}}]
===============================================================================
