-------------------------------- MODULE MCJob --------------------------------
(* JobController for TLC: the specs users write in each run. *)
EXTENDS JobController

Of(pause, trigger) == [paused |-> pause, triggerBuild |-> trigger]

TriggerOrPause == {Of(FALSE, TRUE), Of(TRUE, FALSE), Of(TRUE, TRUE)}
=============================================================================
