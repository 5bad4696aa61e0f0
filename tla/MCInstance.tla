----------------------------- MODULE MCInstance -----------------------------
(* InstanceController for TLC: what users and administrators do in each run. *)
EXTENDS InstanceController

UrlAndDeletion == {"url", "delete"}
AllButUrl == AllUserSteps \ {"url"}
=============================================================================
