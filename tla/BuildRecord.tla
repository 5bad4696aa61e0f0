----------------------------- MODULE BuildRecord -----------------------------
(***************************************************************************)
(* What the status of a Build promises to whoever reads it, without a word *)
(* about queues, informers, resource versions or retries.                  *)
(*                                                                         *)
(* Concourse has runs.  The record of a Build starts empty, adopts a run   *)
(* that was started for this very incarnation of the Build, follows it     *)
(* without ever going back, and once it says how the run ended it stays.   *)
(***************************************************************************)
EXTENDS Naturals, Sequences

CONSTANTS Builds, Running, Terminal, Rank(_), None

VARIABLES
  runs,  \* the runs Concourse was asked for, each with the Build it is for
  born,  \* how many incarnations each name has had
  rec    \* the record of each Build that exists, or None

vars == <<runs, born, rec>>

Init == runs = <<>> /\ born = [b \in Builds |-> 0] /\ rec = [b \in Builds |-> None]

(* A Build is created with an empty record: an incarnation no run knows. *)
Submit(b) ==
  /\ rec[b] = None
  /\ born' = [born EXCEPT ![b] = @ + 1]
  /\ rec' = [rec EXCEPT ![b] = [id |-> 0, phase |-> "none"]]
  /\ UNCHANGED runs

Withdraw(b) ==
  /\ rec[b] # None
  /\ rec' = [rec EXCEPT ![b] = None]
  /\ UNCHANGED <<runs, born>>

(* A run is started for a Build, which may have gone in the meantime. *)
Start(b) ==
  /\ \E uid \in 1..born[b] :
       runs' = Append(runs, [name |-> b, uid |-> uid, status |-> "pending"])
  /\ UNCHANGED <<born, rec>>

Advance(i) ==
  /\ runs[i].status \in Running
  /\ \E s \in Running \cup Terminal :
       /\ Rank(s) > Rank(runs[i].status)
       /\ runs' = [runs EXCEPT ![i].status = s]
  /\ UNCHANGED <<born, rec>>

(* The record adopts a run, or says more about the one it has. *)
Follow(b) ==
  /\ rec[b] # None
  /\ rec[b].phase \notin Terminal
  /\ \E i \in 1..Len(runs), p \in {"none"} \cup Running \cup Terminal :
       /\ runs[i].name = b /\ runs[i].uid = born[b]
       /\ rec[b].id \in {0, i}
       /\ Rank(rec[b].phase) <= Rank(p) /\ Rank(p) <= Rank(runs[i].status)
       /\ p \in Terminal => p = runs[i].status
       /\ rec' = [rec EXCEPT ![b] = [id |-> i, phase |-> p]]
  /\ UNCHANGED <<runs, born>>

Next == \/ \E b \in Builds : Submit(b) \/ Withdraw(b) \/ Start(b) \/ Follow(b)
        \/ \E i \in 1..Len(runs) : Advance(i)

Spec == Init /\ [][Next]_vars
=============================================================================
