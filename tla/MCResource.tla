----------------------------- MODULE MCResource -----------------------------
(* ResourceController for TLC: the intervals users write. *)
EXTENDS ResourceController

AllFound == Found
NoneZeroOrThree == {{}, {0}, {3}}
=============================================================================
