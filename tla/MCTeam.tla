------------------------------- MODULE MCTeam -------------------------------
(* TeamController for TLC: the specs users write. *)
EXTENDS TeamController

CONSTANTS n1, n2, u1, u2

Bind(role, members) == [role |-> role, members |-> members]
Of(name, roles) == [name |-> name, roles |-> roles]

(* One role bound twice, another binding, and another name. *)
TeamSpecs == {Of(n1, {Bind("owner", {u1}), Bind("owner", {u2})}), Of(n1, {Bind("member", {u1})}),
              Of(n2, {Bind("viewer", {u1})})}
=============================================================================
