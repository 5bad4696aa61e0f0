----------------------------- MODULE Reconciler -----------------------------
(***************************************************************************)
(* The frame of a controller with one resource and one worker: the         *)
(* resource, its informer, the work queue, and the ways in which the       *)
(* reconcilers of src/internal/controller begin, write and end.  A         *)
(* controller's module takes it in with INSTANCE and adds its own calls.   *)
(*                                                                         *)
(* One resource is enough: resources of one kind share nothing but the     *)
(* worker, which has one of them at a time.                                *)
(***************************************************************************)
EXTENDS KubeAPI

CONSTANTS
  NoObject,    \* the resource when there is none of its name
  MaxEdits,    \* bound: steps of users and of others
  MaxFaults,   \* bound: failed calls
  MaxCrashes   \* bound: crashes

VARIABLES
  api, stream, store,      \* the resource: as it is, on its way, in the informer
  wq, pc, rc,              \* the worker: queue, next call, copy of the resource
  edits, faults, crashes

kube == <<api, stream, store>>
worker == <<wq, pc, rc>>
bounds == <<edits, faults, crashes>>

FrameOK(Version, Steps) ==
  /\ api \in Version /\ stream \in Seq(Version) /\ store \in Version
  /\ wq \in QueueStates /\ pc \in Steps \cup {"idle"} /\ rc \in Version
  /\ edits \in 0..MaxEdits /\ faults \in 0..MaxFaults /\ crashes \in 0..MaxCrashes

FrameInit ==
  /\ api = NoObject /\ store = NoObject /\ stream = <<>>
  /\ wq = "none" /\ pc = "idle" /\ rc = NoObject
  /\ edits = 0 /\ faults = 0 /\ crashes = 0
-----------------------------------------------------------------------------
(* Users, others, and the informer. *)

Edit == edits < MaxEdits /\ edits' = edits + 1 /\ UNCHANGED <<faults, crashes>>

Fault == faults < MaxFaults /\ faults' = faults + 1

Replace(obj) == api' = obj /\ stream' = Published(stream, api, obj)

(* A user writes the resource. *)
Submit(obj) == Edit /\ Replace(obj) /\ UNCHANGED <<store, worker>>

Respecified(spec) == NextVersion([api EXCEPT !.gen = @ + 1, !.spec = spec])

(* A write of labels or annotations: a new version of the same generation. *)
Annotate == Exists(api) /\ Submit(NextVersion(api))

(* Something else changes, of which the controller gets no event. *)
Elsewhere == Edit /\ UNCHANGED <<kube, worker>>

Receive ==
  /\ stream # <<>>
  /\ store' = Head(stream) /\ stream' = Tail(stream) /\ wq' = "ready"
  /\ UNCHANGED <<api, pc, rc, bounds>>

Expire ==
  /\ wq = "waiting"
  /\ wq' = "ready"
  /\ UNCHANGED <<kube, pc, rc, bounds>>
-----------------------------------------------------------------------------
(* Reconcile: its beginning, the ways it ends, and its writes. *)

(* The worker takes the key and reads the resource from the informer; first is
   the first call it makes, with copy, or "idle" if it returns at once. *)
Take(first, copy) ==
  /\ pc = "idle" /\ wq = "ready"
  /\ wq' = "none" /\ pc' = first
  /\ rc' = IF first = "idle" THEN NoObject ELSE copy
  /\ UNCHANGED <<kube, bounds>>

(* A call that leaves resource and queue alone, and the call after it. *)
Call(step, next) == pc = step /\ pc' = next /\ UNCHANGED <<kube, wq, edits, crashes>>

Idle == pc' = "idle" /\ rc' = NoObject

Done == Idle /\ UNCHANGED wq

(* Mutant: Result{} is returned instead of Result{RequeueAfter}. *)
NoRequeue == Done

RequeueAfter == Idle /\ wq' = AddAfter(wq)

(* Mutant: the error is logged and the reconcile ends as if it had succeeded. *)
ErrorSwallowed == Done

ReturnError == Idle /\ wq' = AddAfter(wq)

(* Mutant: a write replaces whatever version is there. *)
AnyVersionAccepted == Exists(api)

Accepted == Accepts(api, rc)

(* An update of the resource to obj.  If the call fails, it may have been
   carried out all the same. *)
Write(obj) == Accepted /\ Replace(obj)

WriteFails ==
  \/ ~Accepted /\ ReturnError /\ UNCHANGED <<api, stream, faults>>
  \/ Fault /\ ReturnError /\ UNCHANGED <<api, stream>>

(* Update without the finalizer, and the deletion completes. *)
Unfinalize ==
  /\ pc = "unfinalize"
  /\ \/ /\ Write(NextVersion([rc EXCEPT !.finalizer = FALSE, !.state = "gone"]))
        /\ \/ Done /\ UNCHANGED faults
           \/ Fault /\ ReturnError
     \/ WriteFails
  /\ UNCHANGED <<store, edits, crashes>>

(* Update with the finalizer; the answer brings the new resourceVersion. *)
Finalize(next) ==
  LET obj == NextVersion([rc EXCEPT !.finalizer = TRUE])
  IN  /\ pc = "finalize"
      /\ \/ /\ Write(obj)
            /\ \/ rc' = obj /\ pc' = next /\ UNCHANGED <<wq, faults>>
               \/ Fault /\ ReturnError
         \/ WriteFails
      /\ UNCHANGED <<store, edits, crashes>>

(* Status().Update at the end of a reconcile; its error is returned. *)
WriteStatus ==
  /\ pc = "update"
  /\ \/ /\ Write(Written(api, rc))
        /\ \/ RequeueAfter /\ UNCHANGED faults
           \/ Fault /\ ReturnError
     \/ WriteFails
  /\ UNCHANGED <<store, edits, crashes>>

(* Status().Update with Ready=False; its error is only logged. *)
ReportNotReady ==
  /\ pc = "report"
  /\ \/ Write(Written(api, rc)) /\ UNCHANGED faults
     \/ ~Accepted /\ UNCHANGED <<api, stream, faults>>
     \/ Fault /\ UNCHANGED <<api, stream>>
  /\ RequeueAfter
  /\ UNCHANGED <<store, edits, crashes>>

(* The process stops, and the next one lists what there is. *)
Restart ==
  /\ crashes < MaxCrashes /\ crashes' = crashes + 1
  /\ Idle
  /\ store' = api /\ stream' = <<>>
  /\ wq' = IF Exists(api) THEN "ready" ELSE "none"
  /\ UNCHANGED <<api, edits, faults>>
=============================================================================
