----------------------- MODULE WorkerController_proofs -----------------------
(* Theorems about WorkerController, for any desired states and any budget of  *)
(* edits, faults and crashes.                                                 *)
EXTENDS WorkerController, KubeAPI_proofs

(* The Worker that was never created is a well-formed version. *)
LEMMA NoWorkerType == NoWorker \in Version
<1>1. (CHOOSE s \in Specs : TRUE) \in Specs
  BY SpecsAssumption
<1> QED BY <1>1 DEF NoWorker, NewWorker, Version, States

(* A write gives a well-formed object its next resourceVersion. *)
LEMMA NextVersionType ==
  ASSUME NEW v \in Version
  PROVE  NextVersion(v) \in Version /\ NextVersion(v).rv = v.rv + 1 /\ v.rv \in Nat
BY DEF NextVersion, Version

(* A status write replaces the Worker by a well-formed version, the next one if
   anything has changed. *)
LEMMA WrittenType ==
  ASSUME NEW v \in Version, NEW w \in Version, Accepts(v, w)
  PROVE  /\ Written(v, w) \in Version
         /\ Written(v, w) = v \/ Written(v, w).rv = v.rv + 1
BY NextVersionType DEF Written, Accepts

(* What users write. *)
LEMMA UserType ==
  ASSUME TypeOK, CreateWorker \/ EditWorker \/ AnnotateWorker \/ DeleteWorker
  PROVE  /\ api' \in Version /\ api'.rv = api.rv + 1 /\ Replace(api')
         /\ UNCHANGED <<store, wq, pc, rc, instance, atc>>
<1>0. api \in Version /\ api.rv + 1 \in Nat /\ api.gen + 1 \in Nat
  BY DEF TypeOK, FrameOK, Version
<1>1. CASE CreateWorker
  <2>1. PICK spec \in Specs : Submit(NewWorker(api.rv + 1, spec))
    BY <1>1 DEF CreateWorker
  <2> DEFINE obj == NewWorker(api.rv + 1, spec)
  <2>2. obj \in Version /\ obj.rv = api.rv + 1
    BY <1>0 DEF NewWorker, Version, States
  <2>3. Submit(obj)
    BY <2>1
  <2> HIDE DEF obj
  <2> QED BY <1>1, <2>2, <2>3 DEF CreateWorker, Submit, Replace, worker
<1>2. CASE EditWorker
  <2>1. PICK spec \in Specs : Submit(Respecified(spec))
    BY <1>2 DEF EditWorker
  <2> DEFINE obj == [api EXCEPT !.gen = @ + 1, !.spec = spec]
  <2>2. obj \in Version /\ obj.rv = api.rv
    BY <1>0 DEF Version
  <2>3. Submit(NextVersion(obj))
    BY <2>1 DEF Respecified
  <2> HIDE DEF obj
  <2> QED BY <1>2, <2>2, <2>3, NextVersionType DEF EditWorker, Submit, Replace, worker
<1>3. CASE DeleteWorker
  <2>1. PICK state \in {"deleting", "gone"} : Submit(NextVersion([api EXCEPT !.state = state]))
    BY <1>3 DEF DeleteWorker
  <2> DEFINE obj == [api EXCEPT !.state = state]
  <2>2. obj \in Version /\ obj.rv = api.rv
    BY <1>0 DEF Version, States
  <2>3. Submit(NextVersion(obj))
    BY <2>1
  <2> HIDE DEF obj
  <2> QED BY <1>3, <2>2, <2>3, NextVersionType DEF DeleteWorker, Submit, Replace, worker
<1>4. CASE AnnotateWorker
  BY <1>0, <1>4, NextVersionType DEF AnnotateWorker, Annotate, Submit, Replace, worker
<1> QED BY <1>1, <1>2, <1>3, <1>4

(* What a status write leaves behind. *)
LEMMA StatusType ==
  ASSUME TypeOK, UpdateStatus \/ Report
  PROVE  /\ pc' = "idle" /\ rc' = NoWorker /\ wq' \in QueueStates /\ UNCHANGED <<store, instance, atc>>
         /\ \/ UNCHANGED <<api, stream>>
            \/ api' \in Version /\ (api' = api \/ api'.rv = api.rv + 1) /\ Replace(api')
<1>0. api \in Version /\ rc \in Version /\ AddAfter(wq) \in QueueStates
  BY QueueType DEF TypeOK, FrameOK
<1>1. ASSUME Write(Written(api, rc))
      PROVE  api' \in Version /\ (api' = api \/ api'.rv = api.rv + 1) /\ Replace(api')
  BY <1>0, <1>1, WrittenType DEF Write, Accepted, Replace
<1> QED BY <1>0, <1>1 DEF UpdateStatus, WriteStatus, Report, ReportNotReady, WriteFails, RequeueAfter, ReturnError, Idle

(* The copy a reconcile begins with. *)
LEMMA BeginType ==
  ASSUME TypeOK, Begin
  PROVE  /\ UNCHANGED <<api, stream, store, instance, atc>> /\ wq' \in QueueStates
         /\ pc' \in {"idle", "report", "transition", "list"} /\ rc' \in Version
<1>0. store \in Version /\ instance \in Found
  BY InstanceAssumption DEF TypeOK, FrameOK
<1>1. FirstCall(store) # "idle" /\ instance # "ready" => [store EXCEPT !.ready = instance] \in Version
  BY <1>0 DEF FirstCall, Found, Version
<1>2. FirstCall(store) \in {"idle", "report", "transition", "list"}
  BY DEF FirstCall
<1> QED BY <1>0, <1>1, <1>2, NoWorkerType DEF Begin, Take, QueueStates, kube

(* The status that List computes is well-formed: an unlisted worker is no state
   to show. *)
LEMMA ListType ==
  ASSUME TypeOK, List
  PROVE  pc' = "update" /\ rc' \in Version /\ UNCHANGED <<api, stream, store, wq, instance, atc>>
<1>0. rc \in Version
  BY DEF TypeOK, FrameOK
<1>1. ASSUME NEW v \in Version PROVE Reconciled(v) \in Version
  BY DEF Reconciled, Version
<1>2. ASSUME atc \in Listed PROVE Shown(rc, atc) \in Version
  BY <1>0, <1>2 DEF Shown, Version
<1>3. rc' \in Version
  BY <1>0, <1>1, <1>2 DEF List
<1> QED BY <1>3 DEF List, Call, kube

(* Landing and pruning leave the worker in a state Concourse knows. *)
LEMMA TransitionType ==
  ASSUME TypeOK, Transition
  PROVE  pc' = "list" /\ atc' \in Listed \cup {"unlisted"} /\ UNCHANGED <<api, stream, store, wq, rc, instance>>
<1>1. atc \in Listed \cup {"unlisted"} /\ Transitioned(rc.spec, atc) \in Listed \cup {"unlisted"}
  BY DEF TypeOK, Transitioned, LandWorker, PruneWorker, Listed
<1> QED BY <1>1 DEF Transition, Call, kube

(* What users, the informer and the worker do to the Worker, as a step of the API
   server and the informer. *)
LEMMA ApiStep ==
  ASSUME TypeOK, [Next]_vars
  PROVE  api' \in Version /\ KubeStep(api, stream, store, api', stream', store')
<1> DEFINE Goal == api' \in Version /\ KubeStep(api, stream, store, api', stream', store')
<1>0. api \in Version
  BY DEF TypeOK, FrameOK
<1>1. ASSUME UNCHANGED <<api, stream, store>> PROVE Goal
  BY <1>0, <1>1 DEF KubeStep, Published
<1>2. ASSUME api' \in Version, api' = api \/ api'.rv = api.rv + 1, Replace(api'), UNCHANGED store PROVE Goal
  BY <1>2 DEF Replace, KubeStep
<1>3. CASE CreateWorker \/ EditWorker \/ AnnotateWorker \/ DeleteWorker
  BY <1>2, <1>3, UserType
<1>4. CASE InstanceChanges \/ WorkerMoves \/ DelayExpires \/ UNCHANGED vars
  BY <1>1, <1>4 DEF InstanceChanges, WorkerMoves, Elsewhere, DelayExpires, Expire, kube, vars
<1>5. CASE InformerReceives
  BY <1>0, <1>5 DEF InformerReceives, Receive, KubeStep
<1>6. CASE Begin \/ List \/ Transition
  BY <1>1, <1>6, BeginType, ListType, TransitionType
<1>7. CASE UpdateStatus \/ Report
  BY <1>1, <1>2, <1>7, StatusType
<1>8. CASE CrashRestart
  BY <1>0, <1>8 DEF CrashRestart, Restart, KubeStep
<1> QED BY <1>3, <1>4, <1>5, <1>6, <1>7, <1>8 DEF Next, User, Working

(* The named bounds hold for edits, faults and crashes. *)
LEMMA CountersType ==
  ASSUME TypeOK, [Next]_vars
  PROVE  edits' \in 0..MaxEdits /\ faults' \in 0..MaxFaults /\ crashes' \in 0..MaxCrashes
<1> DEFINE Goal == edits' \in 0..MaxEdits /\ faults' \in 0..MaxFaults /\ crashes' \in 0..MaxCrashes
<1>0. edits \in 0..MaxEdits /\ faults \in 0..MaxFaults /\ crashes \in 0..MaxCrashes
  BY DEF TypeOK, FrameOK
<1>1. (Edit => edits' \in 0..MaxEdits) /\ (Fault => faults' \in 0..MaxFaults)
  BY <1>0, BoundsAssumption DEF Edit, Fault
<1> USE DEF bounds
<1>2. CASE CreateWorker \/ EditWorker \/ AnnotateWorker \/ DeleteWorker
  BY <1>0, <1>1, <1>2 DEF CreateWorker, EditWorker, AnnotateWorker, Annotate, DeleteWorker, Submit, Edit
<1>3. CASE InstanceChanges \/ WorkerMoves
  BY <1>0, <1>1, <1>3 DEF InstanceChanges, WorkerMoves, Elsewhere, Edit
<1>4. CASE InformerReceives \/ DelayExpires \/ Begin
  BY <1>0, <1>4 DEF InformerReceives, Receive, DelayExpires, Expire, Begin, Take
<1>5. CASE Transition \/ List
  BY <1>0, <1>1, <1>5 DEF Transition, List, Call
<1>6. CASE UpdateStatus \/ Report
  BY <1>0, <1>1, <1>6 DEF UpdateStatus, WriteStatus, WriteFails, Report, ReportNotReady
<1>7. CASE CrashRestart
  BY <1>0, <1>7, BoundsAssumption DEF CrashRestart, Restart
<1>8. CASE UNCHANGED vars
  BY <1>0, <1>8 DEF vars
<1> QED BY <1>2, <1>3, <1>4, <1>5, <1>6, <1>7, <1>8 DEF Next, User, Working

(* A manager that has just started, with no Worker yet, is in a well-typed
   state. *)
LEMMA TypeInit == Init => TypeOK
<1> SUFFICES ASSUME Init PROVE TypeOK
  OBVIOUS
<1>1. FrameOK(Version, {"report", "transition", "list", "update"})
  BY NoWorkerType, BoundsAssumption DEF Init, FrameInit, FrameOK, QueueStates
<1> QED BY <1>1 DEF Init, TypeOK, Listed

(* Every step of users, Concourse and the reconciler keeps the types. *)
LEMMA TypeNext == TypeOK /\ [Next]_vars => TypeOK'
<1> SUFFICES ASSUME TypeOK, [Next]_vars PROVE TypeOK'
  OBVIOUS
<1> DEFINE Steps == {"report", "transition", "list", "update"}
           Queue == wq' \in QueueStates /\ pc' \in Steps \cup {"idle"} /\ rc' \in Version
           Rest == instance' \in InstanceStates /\ atc' \in Listed \cup {"unlisted"}
<1>0. api' \in Version /\ stream' \in Seq(Version) /\ store' \in Version
  BY ApiStep, KubeStepType DEF TypeOK, FrameOK
<1>1. Queue /\ Rest => TypeOK'
  BY <1>0, CountersType DEF TypeOK, FrameOK
<1>2. /\ wq \in QueueStates /\ pc \in Steps \cup {"idle"} /\ rc \in Version
      /\ instance \in InstanceStates /\ atc \in Listed \cup {"unlisted"}
  BY DEF TypeOK, FrameOK
<1>3. CASE CreateWorker \/ EditWorker \/ AnnotateWorker \/ DeleteWorker
  BY <1>1, <1>2, <1>3, UserType
<1>4. CASE InstanceChanges
  BY <1>1, <1>2, <1>4 DEF InstanceChanges, Elsewhere, worker
<1>5. CASE WorkerMoves
  BY <1>1, <1>2, <1>5 DEF WorkerMoves, Elsewhere, worker, Listed
<1>6. CASE InformerReceives \/ DelayExpires
  BY <1>1, <1>2, <1>6 DEF InformerReceives, Receive, DelayExpires, Expire, QueueStates
<1>7. CASE Begin
  BY <1>1, <1>2, <1>7, BeginType
<1>8. CASE List
  BY <1>1, <1>2, <1>8, ListType
<1>9. CASE Transition
  BY <1>1, <1>2, <1>9, TransitionType
<1>10. CASE UpdateStatus \/ Report
  BY <1>1, <1>2, <1>10, StatusType, NoWorkerType
<1>11. CASE CrashRestart
  BY <1>1, <1>2, <1>11, NoWorkerType DEF CrashRestart, Restart, Idle, QueueStates
<1>12. CASE UNCHANGED vars
  BY <1>1, <1>2, <1>12 DEF vars
<1> QED BY <1>3, <1>4, <1>5, <1>6, <1>7, <1>8, <1>9, <1>10, <1>11, <1>12 DEF Next, User, Working

(* Every state WorkerReconciler can be in is well-formed; in particular its
   status never shows a state that ListWorkers does not report. *)
THEOREM TypeCorrect == Spec => []TypeOK
BY TypeInit, TypeNext, PTL DEF Spec
=============================================================================
