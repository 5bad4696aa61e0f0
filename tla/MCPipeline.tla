----------------------------- MODULE MCPipeline -----------------------------
(* PipelineController for TLC: the specs users write in each run. *)
EXTENDS PipelineController

CONSTANTS n1, n2, c1, c2, c3

Of(name, config, flags) == [name |-> name, config |-> config, flags |-> flags]

Inline == {Of(n1, c1, {}), Of(n1, c2, {"paused"}), Of(n1, c3, {})}
InlineOrRef == {Of(n1, c1, {}), Of(n2, c2, {"paused"}), Of(n1, Ref, {"exposed"})}
=============================================================================
