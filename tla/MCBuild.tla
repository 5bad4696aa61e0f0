------------------------------- MODULE MCBuild -------------------------------
(* BuildController for TLC: the specs users write and the states of the chain. *)
EXTENDS BuildController

Plain == [jobRef |-> TRUE, abort |-> FALSE]
Abort == [jobRef |-> TRUE, abort |-> TRUE]
NoJobRef == [jobRef |-> FALSE, abort |-> FALSE]

PlainOnly == {Plain}
PlainOrAbort == {Plain, Abort}
PlainOrNoJobRef == {Plain, NoJobRef}
AllChains == Chains
ReadyOrNot == {"notReady", "ready"}
AlwaysReady == {"ready"}
OneOutcome == {"succeeded"}
=============================================================================
