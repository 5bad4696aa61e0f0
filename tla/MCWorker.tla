------------------------------ MODULE MCWorker ------------------------------
(* WorkerController for TLC: the desired states users write. *)
EXTENDS WorkerController

AllFound == Found
AllDesired == DesiredStates
=============================================================================
