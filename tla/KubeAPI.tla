------------------------------- MODULE KubeAPI -------------------------------
(***************************************************************************)
(* What the controllers rely on outside this repository: the Kubernetes    *)
(* API server and controller-runtime's work queue.  External: modelled     *)
(* from the way src/internal/controller uses them.                         *)
(*                                                                         *)
(* An object is a record with at least a "state" ("live", "deleting" once  *)
(* its deletionTimestamp is set, "gone" when there is no such object) and  *)
(* an "rv", its resourceVersion.  The versions of one name are numbered on *)
(* across deletion and creation.                                           *)
(***************************************************************************)
EXTENDS Naturals, Sequences

States == {"live", "deleting", "gone"}

Exists(obj) == obj.state # "gone"

Live(obj) == obj.state = "live"

(* An update is refused as a conflict unless it carries the resourceVersion
   of the current object. *)
Accepts(cur, obj) == Exists(cur) /\ obj.rv = cur.rv

(* A change gives the object its next resourceVersion; the API server makes
   no new version of an update that changes nothing. *)
NextVersion(obj) == [obj EXCEPT !.rv = @ + 1]

Written(cur, obj) == IF obj = cur THEN cur ELSE NextVersion(obj)

(* What a watch delivers when cur is replaced by new: nothing if nothing
   changed, else the new version after the ones still on their way. *)
Published(stream, cur, new) == IF new = cur THEN stream ELSE Append(stream, new)

(***************************************************************************)
(* The work queue has at most one item per key.  "waiting": a delayed item *)
(* (RequeueAfter, or the rate limiter after an error); "ready": an item a  *)
(* worker may take.  An item added while its key is being reconciled       *)
(* becomes available when that reconcile ends.                             *)
(***************************************************************************)
QueueStates == {"none", "waiting", "ready"}

AddAfter(item) == IF item = "ready" THEN "ready" ELSE "waiting"
=============================================================================
