------------------------- MODULE JobController_proofs -------------------------
(* Theorems about JobController, for any specs, any results of builds and any *)
(* budget of edits, faults, crashes and stale reads.                          *)
EXTENDS JobController, KubeAPI_proofs, FiniteSetTheorems

(* Type correctness. *)

(* The Job that was never created is a well-formed version. *)
LEMMA NoJobType == NoJob \in Version
<1>1. (CHOOSE s \in Specs : TRUE) \in Specs
  BY SpecsAssumption
<1> QED BY <1>1 DEF NoJob, NewJob, Version, States

(* kubectl create yields a well-formed version, of which nothing is observed. *)
LEMMA NewJobType ==
  ASSUME NEW rv \in Nat, NEW uid \in Nat, NEW spec \in Specs
  PROVE  /\ NewJob(rv, uid, spec) \in Version
         /\ NewJob(rv, uid, spec).rv = rv /\ NewJob(rv, uid, spec).uid = uid
         /\ NewJob(rv, uid, spec).gen = 1 /\ NewJob(rv, uid, spec).observed = 0
BY DEF NewJob, Version, States

(* The fields of a version, so that proofs need not expand it. *)
LEMMA VersionFields ==
  ASSUME NEW v \in Version
  PROVE  /\ v.state \in States /\ v.rv \in Nat /\ v.uid \in Nat /\ v.gen \in Nat
         /\ v.spec \in Specs /\ v.observed \in Nat
         /\ v.spec.triggerBuild \in BOOLEAN /\ v.spec.paused \in BOOLEAN
         /\ Change(v) \in [uid: Nat, gen: Nat]
         /\ Change(v).uid = v.uid /\ Change(v).gen = v.gen
<1>1. v.spec \in [paused: BOOLEAN, triggerBuild: BOOLEAN]
  BY SpecsAssumption DEF Version
<1> QED BY <1>1 DEF Version, Change

(* A new resourceVersion is all that a write adds to the object written. *)
LEMMA NextVersionFields ==
  ASSUME NEW v \in Version
  PROVE  /\ NextVersion(v) \in Version /\ NextVersion(v).rv = v.rv + 1
         /\ NextVersion(v).state = v.state /\ NextVersion(v).uid = v.uid
         /\ NextVersion(v).gen = v.gen /\ NextVersion(v).spec = v.spec
         /\ NextVersion(v).observed = v.observed
BY DEF NextVersion, Version

(* An edit of the spec is a new generation of the same Job. *)
LEMMA RespecifiedFields ==
  ASSUME TypeOK, NEW spec \in Specs
  PROVE  /\ Respecified(spec) \in Version /\ Respecified(spec).rv = api.rv + 1
         /\ Respecified(spec).uid = api.uid /\ Respecified(spec).gen = api.gen + 1
         /\ Respecified(spec).observed = api.observed
<1>1. api \in Version /\ api.gen + 1 \in Nat
  BY VersionFields DEF TypeOK, FrameOK
<1>2. [api EXCEPT !.gen = @ + 1, !.spec = spec] \in Version
  BY <1>1 DEF Version
<1> QED BY <1>1, <1>2, NextVersionFields DEF Respecified, Version

(* A deletion changes the state of the Job alone. *)
LEMMA DeletedFields ==
  ASSUME TypeOK, NEW state \in States
  PROVE  LET obj == NextVersion([api EXCEPT !.state = state])
         IN  /\ obj \in Version /\ obj.rv = api.rv + 1 /\ obj.state = state
             /\ obj.uid = api.uid /\ obj.gen = api.gen /\ obj.spec = api.spec
             /\ obj.observed = api.observed
<1>1. api \in Version
  BY DEF TypeOK, FrameOK
<1>2. [api EXCEPT !.state = state] \in Version
  BY <1>1 DEF Version
<1> QED BY <1>1, <1>2, NextVersionFields DEF Version

(* What a reconcile starts from is a version of the Job, but for a condition. *)
LEMMA CopyFields ==
  ASSUME NEW v \in Version
  PROVE  /\ Copy(v) \in Version /\ Copy(v).rv = v.rv /\ Copy(v).state = v.state
         /\ Copy(v).uid = v.uid /\ Copy(v).gen = v.gen /\ Copy(v).spec = v.spec
         /\ Copy(v).observed = v.observed
BY DEF Copy, Version

(* What the users, the informer and the worker do to the Job, as a step of the
   API server and the informer. *)
LEMMA ApiStep ==
  ASSUME TypeOK, [Next]_vars
  PROVE  api' \in Version /\ KubeStep(api, stream, store, api', stream', store')
<1> DEFINE Goal == api' \in Version /\ KubeStep(api, stream, store, api', stream', store')
<1>0. api \in Version /\ rc \in Version
  BY DEF TypeOK, FrameOK
<1>1. ASSUME UNCHANGED kube PROVE Goal
  BY <1>0, <1>1 DEF kube, KubeStep, Published
<1>2. ASSUME NEW obj \in Version, obj = api \/ obj.rv = api.rv + 1, Replace(obj), UNCHANGED store
      PROVE  Goal
  BY <1>2 DEF Replace, KubeStep
<1>3. ASSUME Write(Written(api, rc)), UNCHANGED store PROVE Goal
  <2>1. Written(api, rc) \in Version /\ (Written(api, rc) = api \/ Written(api, rc).rv = api.rv + 1)
    BY <1>0, <1>3, NextVersionFields DEF Write, Accepted, Accepts, Written
  <2> QED BY <1>2, <1>3, <2>1 DEF Write
<1>4. CASE CreateJob
  <2>1. PICK spec \in Specs : Submit(NewJob(api.rv + 1, api.uid + 1, spec))
    BY <1>4 DEF CreateJob
  <2>2. api.rv + 1 \in Nat /\ api.uid + 1 \in Nat
    BY <1>0, VersionFields
  <2> QED BY <1>2, <2>1, <2>2, NewJobType DEF Submit
<1>5. CASE EditJob
  <2>1. PICK spec \in Specs : Submit(Respecified(spec))
    BY <1>5 DEF EditJob
  <2> QED BY <1>2, <2>1, RespecifiedFields DEF Submit
<1>6. CASE DeleteJob
  <2>1. PICK state \in States : Submit(NextVersion([api EXCEPT !.state = state]))
    BY <1>6 DEF DeleteJob, States
  <2> QED BY <1>2, <2>1, DeletedFields DEF Submit
<1>7. CASE ChainChanges \/ PipelineReset \/ BuildFinishes
  BY <1>1, <1>7 DEF ChainChanges, PipelineReset, BuildFinishes, Elsewhere
<1>8. CASE InformerReceives
  BY <1>0, <1>8 DEF InformerReceives, Receive, KubeStep
<1>9. CASE OwnedBuildChanges \/ DelayExpires
  BY <1>1, <1>9 DEF OwnedBuildChanges, DelayExpires, Expire, kube
<1>10. CASE Begin
  BY <1>1, <1>10 DEF Begin, Take
<1>11. CASE Report
  BY <1>1, <1>3, <1>11 DEF Report, ReportNotReady, kube
<1>12. CASE Pause \/ Trigger \/ Fetch
  BY <1>1, <1>12 DEF Pause, Trigger, Fetch, Call
<1>13. CASE UpdateStatus
  BY <1>1, <1>3, <1>13 DEF UpdateStatus, WriteStatus, WriteFails, kube
<1>14. CASE CrashRestart
  BY <1>0, <1>14 DEF CrashRestart, Restart, KubeStep
<1>15. CASE UNCHANGED vars
  BY <1>1, <1>15 DEF vars, kube
<1>16. CASE AnnotateJob
  BY <1>0, <1>2, <1>16, NextVersionFields DEF AnnotateJob, Annotate, Submit
<1> QED
  BY <1>4, <1>5, <1>6, <1>7, <1>8, <1>9, <1>10, <1>11, <1>12, <1>13, <1>14, <1>15, <1>16
     DEF Next, User, Working

(* What an idle worker and a queue hold after a reconcile returns. *)
LEMMA ReturnType ==
  ASSUME TypeOK, RequeueAfter \/ Done \/ ReturnError
  PROVE  pc' = "idle" /\ rc' = NoJob /\ wq' \in QueueStates
BY QueueType DEF TypeOK, FrameOK, RequeueAfter, Done, ReturnError, Idle

(* The named bounds hold for edits, faults, crashes and stale reads. *)
LEMMA CountersType ==
  ASSUME TypeOK
  PROVE  /\ Edit => edits' \in 0..MaxEdits
         /\ Fault => faults' \in 0..MaxFaults
         /\ crashes < MaxCrashes => crashes + 1 \in 0..MaxCrashes
         /\ stale < MaxStale => stale + 1 \in 0..MaxStale
BY BoundsAssumption DEF TypeOK, FrameOK, Edit, Fault

(* The manager that has just started, with no Job yet, is in a well-typed state. *)
LEMMA TypeInit == Init => TypeOK
<1> SUFFICES ASSUME Init PROVE TypeOK
  OBVIOUS
<1>1. FrameOK(Version, {"report", "pause", "trigger", "fetch", "update"})
  BY NoJobType, BoundsAssumption DEF Init, FrameInit, FrameOK, QueueStates
<1>2. builds \in Seq([uid: Nat, gen: Nat]) /\ refused \subseteq [uid: Nat, gen: Nat]
  BY DEF Init
<1>3. stale \in 0..MaxStale
  BY BoundsAssumption DEF Init
<1> QED BY <1>1, <1>2, <1>3 DEF Init, TypeOK

(* Every step of users, Concourse and the reconciler keeps the types. *)
LEMMA TypeNext == TypeOK /\ [Next]_vars => TypeOK'
<1> SUFFICES ASSUME TypeOK, [Next]_vars PROVE TypeOK'
  OBVIOUS
<1> USE DEF worker, world, bounds
<1>0. api' \in Version /\ stream' \in Seq(Version) /\ store' \in Version
  BY ApiStep, KubeStepType DEF TypeOK, FrameOK
<1>1. CASE CreateJob \/ EditJob \/ DeleteJob
  BY <1>0, <1>1, CountersType DEF CreateJob, EditJob, DeleteJob, Submit, Edit, TypeOK, FrameOK
<1>2. CASE ChainChanges
  BY <1>0, <1>2, CountersType DEF ChainChanges, Elsewhere, Edit, TypeOK, FrameOK
<1>3. CASE BuildFinishes
  BY <1>0, <1>3, CountersType DEF BuildFinishes, Elsewhere, Edit, TypeOK, FrameOK
<1>4. CASE InformerReceives
  BY <1>0, <1>4 DEF InformerReceives, Receive, TypeOK, FrameOK, QueueStates
<1>5. CASE OwnedBuildChanges
  BY <1>0, <1>5 DEF OwnedBuildChanges, TypeOK, FrameOK, QueueStates
<1>6. CASE DelayExpires
  BY <1>0, <1>6 DEF DelayExpires, Expire, TypeOK, FrameOK, QueueStates
<1>7. CASE Begin
  <2>1. rc' \in Version /\ pc' \in {"report", "pause", "idle"} /\ wq' \in QueueStates
    BY <1>7, NoJobType, CopyFields DEF Begin, Take, FirstCall, TypeOK, FrameOK, QueueStates
  <2>2. stale' \in 0..MaxStale
    BY <1>7, CountersType DEF Begin, Reads, TypeOK
  <2> QED BY <1>0, <1>7, <2>1, <2>2 DEF Begin, Take, TypeOK, FrameOK
<1>8. CASE Report
  <2>1. pc' = "idle" /\ rc' = NoJob /\ wq' \in QueueStates
    BY <1>8, ReturnType DEF Report, ReportNotReady
  <2>2. faults' \in 0..MaxFaults
    BY <1>8, CountersType DEF Report, ReportNotReady, TypeOK, FrameOK
  <2> QED BY <1>0, <1>8, <2>1, <2>2, NoJobType DEF Report, ReportNotReady, TypeOK, FrameOK
<1>9. CASE Pause
  <2>1. rc.spec.paused \in BOOLEAN
    BY VersionFields DEF TypeOK, FrameOK
  <2>2. rc' \in Version /\ paused' \in BOOLEAN
    BY <1>9, <2>1 DEF Pause, TypeOK, FrameOK, Version
  <2>3. faults' \in 0..MaxFaults /\ pc' \in {"trigger", "fetch"}
    BY <1>9, CountersType DEF Pause, Call, TypeOK, FrameOK
  <2> QED BY <1>0, <1>9, <2>2, <2>3 DEF Pause, Call, TypeOK, FrameOK
<1>10. CASE Trigger
  <2>1. Change(rc) \in [uid: Nat, gen: Nat]
    BY VersionFields DEF TypeOK, FrameOK
  <2>2. builds' \in Seq([uid: Nat, gen: Nat]) /\ refused' \subseteq [uid: Nat, gen: Nat]
    <3>1. Append(builds, Change(rc)) \in Seq([uid: Nat, gen: Nat])
      BY <2>1 DEF TypeOK
    <3> QED BY <1>10, <2>1, <3>1 DEF Trigger, TypeOK
  <2>3. faults' \in 0..MaxFaults
    BY <1>10, CountersType DEF Trigger, TypeOK, FrameOK
  <2> QED BY <1>0, <1>10, <2>2, <2>3 DEF Trigger, Call, TypeOK, FrameOK
<1>11. CASE Fetch
  <2>1. PICK last \in {LastBuild, "FetchFailed"} :
          /\ IF last = LastBuild THEN UNCHANGED faults ELSE Fault
          /\ rc' = [rc EXCEPT !.observed = rc.gen, !.ready = "Ready", !.lastBuild = last]
    BY <1>11 DEF Fetch
  <2>2. rc' \in Version
    BY <2>1 DEF TypeOK, FrameOK, Version, LastBuild
  <2>3. faults' \in 0..MaxFaults
    BY <2>1, CountersType DEF TypeOK, FrameOK
  <2> QED BY <1>0, <1>11, <2>2, <2>3 DEF Fetch, Call, TypeOK, FrameOK
<1>12. CASE UpdateStatus
  <2>1. pc' = "idle" /\ rc' = NoJob /\ wq' \in QueueStates
    BY <1>12, ReturnType DEF UpdateStatus, WriteStatus, WriteFails
  <2>2. faults' \in 0..MaxFaults
    BY <1>12, CountersType DEF UpdateStatus, WriteStatus, WriteFails, TypeOK, FrameOK
  <2> QED BY <1>0, <1>12, <2>1, <2>2, NoJobType DEF UpdateStatus, WriteStatus, TypeOK, FrameOK
<1>13. CASE CrashRestart
  BY <1>0, <1>13, NoJobType, CountersType DEF CrashRestart, Restart, Idle, TypeOK, FrameOK, QueueStates
<1>14. CASE UNCHANGED vars
  BY <1>14 DEF vars, TypeOK, FrameOK
<1>15. CASE AnnotateJob
  <2>1. touches' \in Nat
    BY <1>15 DEF AnnotateJob, TypeOK
  <2> QED BY <1>0, <1>15, <2>1, CountersType DEF AnnotateJob, Annotate, Submit, Edit, TypeOK, FrameOK
<1>16. CASE PipelineReset
  <2>1. known' \in BOOLEAN /\ paused' \in BOOLEAN
    BY <1>16 DEF PipelineReset, TypeOK
  <2> QED BY <1>0, <1>16, <2>1, CountersType DEF PipelineReset, Elsewhere, Edit, TypeOK, FrameOK
<1> QED
  BY <1>1, <1>2, <1>3, <1>4, <1>5, <1>6, <1>7, <1>8, <1>9, <1>10, <1>11, <1>12, <1>13, <1>14, <1>15, <1>16
     DEF Next, User, Working

(* Every state JobReconciler can be in is well-formed. *)
THEOREM TypeCorrect == Spec => []TypeOK
BY TypeInit, TypeNext, PTL DEF Spec
-----------------------------------------------------------------------------
(* The status never claims a change for which no Build was attempted. *)

OrderInv == Ordered(api, stream, store)

(* A Build was created for the change c, or its creation failed. *)
Attempted(bs, rf, c) == (\E i \in 1..Len(bs) : bs[i] = c) \/ c \in rf

(* A version does not claim a generation its spec has not reached, nor one whose
   Build was not attempted. *)
Honest(x, bs, rf) ==
  /\ x.observed <= x.gen
  /\ x.spec.triggerBuild /\ x.observed = x.gen => Attempted(bs, rf, Change(x))

(* Every version that may still be read is honest, and so is what a reconcile
   will write: past the trigger, the Build has been attempted. *)
HonestInv ==
  /\ \A x \in Seen(api, stream, store) : Honest(x, builds, refused)
  /\ Honest(rc, builds, refused)
  /\ pc \in {"fetch", "update"} /\ rc.spec.triggerBuild => Attempted(builds, refused, Change(rc))

(* The informer follows the API server in order from the start. *)
LEMMA OrderInit == Init => OrderInv
BY DEF Init, FrameInit, OrderInv, Ordered

(* No step of the system upsets that order. *)
LEMMA OrderNext == TypeOK /\ OrderInv /\ [Next]_vars => OrderInv'
<1> SUFFICES ASSUME TypeOK, OrderInv, [Next]_vars PROVE OrderInv'
  OBVIOUS
<1>1. \A v \in Version : v.rv \in Nat
  BY VersionFields
<1>2. api \in Version /\ stream \in Seq(Version) /\ store \in Version
  BY DEF TypeOK, FrameOK
<1> QED BY <1>1, <1>2, ApiStep, OrderedStep DEF OrderInv

(* What a step may do to the current Job: nothing, a user's creation, edit,
   deletion or annotation, or the status write that ends a reconcile of its current version. *)
LEMMA ApiEffect ==
  ASSUME TypeOK, [Next]_vars, api' # api
  PROVE  \/ /\ User /\ UNCHANGED <<pc, rc, builds, refused, faults, crashes, stale>>
            /\ api'.rv = api.rv + 1
            /\ \/ api'.uid = api.uid + 1 /\ api'.gen = 1 /\ api'.observed = 0
               \/ api'.uid = api.uid /\ api'.gen = api.gen + 1 /\ api'.observed = api.observed
               \/ /\ api'.uid = api.uid /\ api'.gen = api.gen /\ api'.observed = api.observed
                  /\ api'.spec = api.spec /\ (~Live(api') \/ AnnotateJob)
         \/ /\ Report \/ UpdateStatus
            /\ Exists(api) /\ rc.rv = api.rv /\ api' = NextVersion(rc)
<1>0. api \in Version /\ rc \in Version
  BY DEF TypeOK, FrameOK
<1>1. CASE CreateJob
  <2>1. PICK spec \in Specs : Submit(NewJob(api.rv + 1, api.uid + 1, spec))
    BY <1>1 DEF CreateJob
  <2>2. api.rv + 1 \in Nat /\ api.uid + 1 \in Nat
    BY <1>0, VersionFields
  <2>3. api'.rv = api.rv + 1 /\ api'.uid = api.uid + 1 /\ api'.gen = 1 /\ api'.observed = 0
    BY <2>1, <2>2, NewJobType DEF Submit, Replace
  <2> QED BY <1>1, <2>3 DEF CreateJob, Submit, Edit, User, worker, world
<1>2. CASE EditJob
  <2>1. PICK spec \in Specs : Submit(Respecified(spec))
    BY <1>2 DEF EditJob
  <2>2. /\ api'.rv = api.rv + 1 /\ api'.uid = api.uid /\ api'.gen = api.gen + 1
        /\ api'.observed = api.observed
    BY <2>1, RespecifiedFields DEF Submit, Replace
  <2> QED BY <1>2, <2>2 DEF EditJob, Submit, Edit, User, worker, world
<1>3. CASE DeleteJob
  <2>1. PICK state \in {"deleting", "gone"} : Submit(NextVersion([api EXCEPT !.state = state]))
    BY <1>3 DEF DeleteJob
  <2>2. /\ api'.rv = api.rv + 1 /\ api'.uid = api.uid /\ api'.gen = api.gen
        /\ api'.observed = api.observed /\ api'.spec = api.spec /\ api'.state = state
    BY <2>1, DeletedFields DEF Submit, Replace, States
  <2> QED BY <1>3, <2>2 DEF DeleteJob, Submit, Edit, User, worker, world, Live
<1>4. CASE Report
  BY <1>4 DEF Report, ReportNotReady, Write, Written, Replace, Accepted, Accepts
<1>5. CASE UpdateStatus
  BY <1>5 DEF UpdateStatus, WriteStatus, WriteFails, Write, Written, Replace, Accepted, Accepts
<1>6. ASSUME \/ ChainChanges \/ PipelineReset \/ BuildFinishes
             \/ InformerReceives \/ OwnedBuildChanges \/ DelayExpires
      PROVE  api' = api
  BY <1>6 DEF ChainChanges, PipelineReset, BuildFinishes, InformerReceives, OwnedBuildChanges, DelayExpires,
              Elsewhere, Receive, Expire, kube
<1>7. ASSUME Begin \/ Pause \/ Trigger \/ Fetch \/ CrashRestart \/ UNCHANGED vars PROVE api' = api
  BY <1>7 DEF Begin, Take, Pause, Trigger, Fetch, CrashRestart, Call, Restart, kube, vars
<1>8. CASE AnnotateJob
  <2>1. /\ api'.rv = api.rv + 1 /\ api'.uid = api.uid /\ api'.gen = api.gen
        /\ api'.observed = api.observed /\ api'.spec = api.spec
    BY <1>0, <1>8, NextVersionFields DEF AnnotateJob, Annotate, Submit, Replace
  <2>2. UNCHANGED <<pc, rc, builds, refused, faults, crashes, stale>>
    BY <1>8 DEF AnnotateJob, Annotate, Submit, Edit, worker
  <2> QED BY <1>8, <2>1, <2>2 DEF User
<1> QED BY <1>1, <1>2, <1>3, <1>4, <1>5, <1>6, <1>7, <1>8 DEF Next, User, Working

(* What was attempted stays attempted. *)
LEMMA AttemptedGrows ==
  ASSUME TypeOK, [Next]_vars, NEW c, Attempted(builds, refused, c)
  PROVE  Attempted(builds', refused', c)
<1>1. CASE UNCHANGED <<builds, refused>>
  BY <1>1
<1>2. CASE Trigger
  <2>1. CASE builds' = Append(builds, Change(rc)) /\ UNCHANGED refused
    <3>1. /\ Len(builds') = Len(builds) + 1 /\ Len(builds) \in Nat
          /\ \A i \in 1..Len(builds) : builds'[i] = builds[i]
      BY <2>1 DEF TypeOK
    <3> QED BY <2>1, <3>1 DEF Attempted
  <2>2. CASE UNCHANGED builds /\ refused \subseteq refused'
    BY <2>2 DEF Attempted
  <2> QED BY <1>2, <2>1, <2>2 DEF Trigger
<1>3. ASSUME ~Trigger PROVE UNCHANGED <<builds, refused>>
  BY <1>3 DEF Next, User, Working, CreateJob, EditJob, AnnotateJob, DeleteJob, ChainChanges, PipelineReset, BuildFinishes,
              InformerReceives, OwnedBuildChanges, DelayExpires, Begin, Report, Pause, Fetch,
              UpdateStatus, CrashRestart, world, vars
<1> QED BY <1>1, <1>2, <1>3

(* The Job that was never created claims nothing. *)
LEMMA NoJobHonest == ASSUME NEW bs, NEW rf PROVE Honest(NoJob, bs, rf)
<1>1. NoJob.observed = 0 /\ NoJob.gen = 1
  BY DEF NoJob, NewJob
<1> QED BY <1>1 DEF Honest

(* At the start there is no Job and no Build. *)
LEMMA HonestInit == Init => HonestInv
BY NoJobHonest DEF Init, FrameInit, HonestInv, Seen

(* A reconcile claims a change only once its Build was attempted, and the API
   server hands on what was written. *)
LEMMA HonestNext == TypeOK /\ HonestInv /\ [Next]_vars => HonestInv'
<1> SUFFICES ASSUME TypeOK, HonestInv, [Next]_vars PROVE HonestInv'
  OBVIOUS
<1>0. /\ api \in Version /\ rc \in Version /\ store \in Version /\ stream \in Seq(Version)
      /\ api' \in Version
  BY ApiStep DEF TypeOK, FrameOK
<1>1. ASSUME NEW x, Honest(x, builds, refused) PROVE Honest(x, builds', refused')
  BY <1>1, AttemptedGrows DEF Honest
<1>2. Honest(api', builds', refused')
  <2>1. Honest(api, builds, refused)
    BY DEF HonestInv, Seen
  <2>2. CASE api' = api
    BY <1>1, <2>1, <2>2
  <2>3. ASSUME api'.gen # api'.observed, api'.observed <= api'.gen PROVE Honest(api', builds', refused')
    BY <2>3 DEF Honest
  <2>4. CASE api'.uid = api.uid + 1 /\ api'.gen = 1 /\ api'.observed = 0
    BY <2>3, <2>4
  <2>5. CASE api'.uid = api.uid /\ api'.gen = api.gen + 1 /\ api'.observed = api.observed
    <3>1. api.observed <= api.gen /\ api.gen \in Nat /\ api.observed \in Nat
      BY <1>0, <2>1, VersionFields DEF Honest
    <3> QED BY <2>3, <2>5, <3>1
  <2>6. CASE /\ api'.uid = api.uid /\ api'.gen = api.gen /\ api'.observed = api.observed
             /\ api'.spec = api.spec
    BY <1>1, <2>1, <2>6 DEF Honest, Change
  <2>7. CASE api' = NextVersion(rc)
    <3>1. Honest(rc, builds, refused)
      BY DEF HonestInv
    <3> QED BY <1>0, <1>1, <2>7, <3>1, NextVersionFields DEF Honest, Change
  <2> QED BY <2>2, <2>4, <2>5, <2>6, <2>7, ApiEffect
<1>3. \A x \in Seen(api', stream', store') : Honest(x, builds', refused')
  <2>1. Seen(api', stream', store') \subseteq Seen(api, stream, store) \cup {api'}
    BY <1>0, ApiStep, SeenStep
  <2> QED BY <1>1, <1>2, <2>1 DEF HonestInv
<1> DEFINE Goal == /\ Honest(rc', builds', refused')
                   /\ pc' \in {"fetch", "update"} /\ rc'.spec.triggerBuild =>
                        Attempted(builds', refused', Change(rc'))
<1>4. CASE User \/ InformerReceives \/ OwnedBuildChanges \/ DelayExpires \/ UNCHANGED vars
  <2>1. UNCHANGED <<pc, rc, builds, refused>>
    BY <1>4 DEF User, CreateJob, EditJob, AnnotateJob, Annotate, DeleteJob, Submit,
                ChainChanges, PipelineReset, BuildFinishes, Elsewhere,
                InformerReceives, Receive, OwnedBuildChanges, DelayExpires, Expire, worker, world, vars
  <2>2. Goal
    BY <2>1 DEF HonestInv
  <2> QED BY <1>3, <2>2 DEF HonestInv
<1>5. CASE Begin
  <2>1. pc' \in {"idle", "pause", "report"} /\ rc' \in {NoJob, Copy(store)}
    BY <1>5 DEF Begin, Take, FirstCall
  <2>2. Honest(Copy(store), builds', refused')
    <3>1. Honest(store, builds, refused)
      BY DEF HonestInv, Seen
    <3> QED BY <1>0, <1>1, <3>1, CopyFields DEF Honest, Change
  <2> QED BY <1>3, <2>1, <2>2, NoJobHonest DEF HonestInv
<1>6. CASE Pause
  <2>1. /\ rc'.spec = rc.spec /\ Change(rc') = Change(rc) /\ rc'.observed = rc.observed /\ rc'.gen = rc.gen
        /\ UNCHANGED <<builds, refused>>
    BY <1>0, <1>6 DEF Pause, Version, Change
  <2>2. Honest(rc', builds', refused')
    BY <2>1 DEF HonestInv, Honest
  <2>3. pc' = "fetch" /\ rc.spec.triggerBuild => Attempted(builds, refused, Change(rc))
    BY <1>6 DEF Pause, Call, Due, HonestInv, Honest
  <2>4. pc' # "update"
    BY <1>6 DEF Pause, Call
  <2> QED BY <1>3, <2>1, <2>2, <2>3, <2>4 DEF HonestInv
<1>7. CASE Trigger
  <2>1. UNCHANGED rc
    BY <1>7 DEF Trigger
  <2>2. Attempted(builds', refused', Change(rc))
    <3>1. CASE builds' = Append(builds, Change(rc))
      <4>1. Len(builds') \in 1..Len(builds') /\ builds'[Len(builds')] = Change(rc)
        BY <3>1 DEF TypeOK
      <4> QED BY <4>1 DEF Attempted
    <3>2. CASE refused' = refused \cup {Change(rc)}
      BY <3>2 DEF Attempted
    <3> QED BY <1>7, <3>1, <3>2 DEF Trigger
  <2> QED BY <1>1, <1>3, <2>1, <2>2 DEF HonestInv
<1>8. CASE Fetch
  <2>1. /\ rc'.spec = rc.spec /\ Change(rc') = Change(rc) /\ rc'.gen = rc.gen /\ rc'.observed = rc.gen
        /\ UNCHANGED <<builds, refused>> /\ pc = "fetch"
    BY <1>0, <1>8 DEF Fetch, Call, Version, Change, world
  <2>2. rc.spec.triggerBuild => Attempted(builds, refused, Change(rc))
    BY <2>1 DEF HonestInv
  <2>3. Honest(rc', builds', refused')
    BY <1>0, <2>1, <2>2, VersionFields DEF Honest
  <2> QED BY <1>3, <2>1, <2>2, <2>3 DEF HonestInv
<1>9. CASE Report \/ UpdateStatus \/ CrashRestart
  <2>1. pc' = "idle" /\ rc' = NoJob
    BY <1>9, ReturnType DEF Report, ReportNotReady, UpdateStatus, WriteStatus, WriteFails,
                             CrashRestart, Restart, Idle
  <2> QED BY <1>3, <2>1, NoJobHonest DEF HonestInv
<1> QED BY <1>4, <1>5, <1>6, <1>7, <1>8, <1>9 DEF Next, Working

(* Whatever conflicts, stale reads, crashes and times of an unready chain lie in
   between: an observed change that asks for a build has had one attempted. *)
THEOREM AttemptedCorrect == Spec => []ObservedMeansAttempted
<1>1. HonestInv => ObservedMeansAttempted
  BY DEF HonestInv, Seen, Honest, Attempted, ObservedMeansAttempted, Observed, HasBuild
<1> QED BY <1>1, TypeInit, TypeNext, HonestInit, HonestNext, PTL DEF Spec
-----------------------------------------------------------------------------
(* A second Build for a change has a cause. *)

(* The change c came no later than the change d. *)
NoLater(c, d) == c.uid < d.uid \/ (c.uid = d.uid /\ c.gen <= d.gen)

(* Nothing is known of a change before users make it. *)
ChangesInv ==
  /\ \A x \in Seen(api, stream, store) : NoLater(Change(x), Change(api))
  /\ pc # "idle" => NoLater(Change(rc), Change(api))
  /\ \A i \in 1..Len(builds) : NoLater(builds[i], Change(api))

(* The copy a reconcile works on is the current Job if it has its
   resourceVersion, apart from the status the reconcile has computed. *)
CopyInv ==
  pc # "idle" =>
    /\ rc.rv <= api.rv
    /\ rc.rv = api.rv => /\ rc.state = api.state /\ rc.spec = api.spec /\ Change(rc) = Change(api)
                         /\ pc \in {"report", "pause", "trigger"} => rc.observed = api.observed
    /\ pc = "update" => rc.observed = rc.gen
    /\ pc = "trigger" => Due(rc)

(* The number of Build resources among bs that are for the change c. *)
Repeats(bs, c) == Cardinality({k \in 1..Len(bs) : bs[k] = c})

Causes == faults + crashes + stale + touches

(* The current change is still to be triggered, as far as its status says. *)
Open == Live(api) /\ api.observed # api.gen

(* The reconcile in progress is past the trigger and can still write its status. *)
Closing == pc \in {"fetch", "update"} /\ rc.rv = api.rv

(* The reconcile in progress will create a Build. *)
Triggering == pc \in {"pause", "trigger"} /\ Due(rc)

(* The Builds of a change, counted against the causes of repeats: one more than
   the causes, but not one more while another may follow, and one less when the
   one that follows comes from an outdated copy. *)
CountInv ==
  /\ \A i \in 1..Len(builds) : Repeats(builds, builds[i]) <= 1 + Causes
  /\ Open /\ ~Closing => Repeats(builds, Change(api)) <= Causes
  /\ Triggering => Repeats(builds, Change(rc)) <= Causes
  /\ Triggering /\ Open /\ Change(rc) = Change(api) /\ rc.rv # api.rv =>
       Repeats(builds, Change(rc)) + 1 <= Causes

(* Before the first event there is neither change nor Build. *)
LEMMA ChangesInit == Init => ChangesInv /\ CopyInv
<1> SUFFICES ASSUME Init PROVE ChangesInv /\ CopyInv
  OBVIOUS
<1>1. api = NoJob /\ store = NoJob /\ stream = <<>> /\ pc = "idle" /\ builds = <<>>
  BY DEF Init, FrameInit
<1>2. NoLater(Change(NoJob), Change(NoJob))
  BY NoJobType, VersionFields DEF NoLater
<1>3. Seen(api, stream, store) = {NoJob} /\ Len(builds) = 0
  BY <1>1 DEF Seen
<1> QED BY <1>1, <1>2, <1>3 DEF ChangesInv, CopyInv

(* A user's step makes the current change the latest; the reconciler makes none. *)
LEMMA ChangesNext == TypeOK /\ CopyInv /\ ChangesInv /\ [Next]_vars => ChangesInv'
<1> SUFFICES ASSUME TypeOK, CopyInv, ChangesInv, [Next]_vars PROVE ChangesInv'
  OBVIOUS
<1>0. /\ api \in Version /\ rc \in Version /\ store \in Version /\ stream \in Seq(Version)
      /\ api' \in Version
  BY ApiStep DEF TypeOK, FrameOK
<1>1. NoLater(Change(api), Change(api'))
  <2>1. api.uid \in Nat /\ api.gen \in Nat
    BY <1>0, VersionFields
  <2>2. CASE api' = api
    BY <2>1, <2>2 DEF NoLater, Change
  <2>3. CASE \/ api'.uid = api.uid + 1
             \/ api'.uid = api.uid /\ api'.gen \in {api.gen, api.gen + 1}
    BY <2>1, <2>3 DEF NoLater, Change
  <2>4. CASE (Report \/ UpdateStatus) /\ rc.rv = api.rv /\ api' = NextVersion(rc)
    <3>1. Change(rc) = Change(api) /\ Change(api') = Change(rc)
      BY <1>0, <2>4, NextVersionFields DEF Report, ReportNotReady, UpdateStatus, WriteStatus, CopyInv, Change
    <3> QED BY <2>1, <3>1 DEF NoLater, Change
  <2> QED BY <2>2, <2>3, <2>4, ApiEffect
<1>2. ASSUME NEW c \in [uid: Nat, gen: Nat], NoLater(c, Change(api)) PROVE NoLater(c, Change(api'))
  <2>1. Change(api) \in [uid: Nat, gen: Nat] /\ Change(api') \in [uid: Nat, gen: Nat]
    BY <1>0, VersionFields
  <2> QED BY <1>1, <1>2, <2>1 DEF NoLater
<1>3. \A x \in Seen(api', stream', store') : NoLater(Change(x), Change(api'))
  <2>1. Seen(api', stream', store') \subseteq Seen(api, stream, store) \cup {api'}
    BY <1>0, ApiStep, SeenStep
  <2>2. ASSUME NEW x \in Seen(api, stream, store) PROVE NoLater(Change(x), Change(api'))
    <3>1. Change(x) \in [uid: Nat, gen: Nat]
      BY <1>0, SeenType, VersionFields
    <3> QED BY <1>2, <3>1 DEF ChangesInv
  <2>3. NoLater(Change(api'), Change(api'))
    BY <1>0, VersionFields DEF NoLater
  <2> QED BY <2>1, <2>2, <2>3
<1>4. pc # "idle" => NoLater(Change(rc), Change(api'))
  BY <1>0, <1>2, VersionFields DEF ChangesInv
<1>5. \A i \in 1..Len(builds) : NoLater(builds[i], Change(api'))
  <2>1. \A i \in 1..Len(builds) : builds[i] \in [uid: Nat, gen: Nat]
    BY ElementOfSeq DEF TypeOK
  <2> QED BY <1>2, <2>1 DEF ChangesInv
<1>6. CASE User \/ InformerReceives \/ OwnedBuildChanges \/ DelayExpires \/ UNCHANGED vars
  <2>1. UNCHANGED <<pc, rc, builds>>
    BY <1>6 DEF User, CreateJob, EditJob, AnnotateJob, Annotate, DeleteJob, Submit,
                ChainChanges, PipelineReset, BuildFinishes, Elsewhere,
                InformerReceives, Receive, OwnedBuildChanges, DelayExpires, Expire, worker, world, vars
  <2> QED BY <1>3, <1>4, <1>5, <2>1 DEF ChangesInv
<1>7. CASE Begin
  <2>1. UNCHANGED <<api, builds>> /\ (pc' # "idle" => rc' = Copy(store))
    BY <1>7 DEF Begin, Take, kube, world
  <2>2. NoLater(Change(Copy(store)), Change(api))
    BY <1>0, CopyFields DEF ChangesInv, Seen, Change
  <2> QED BY <1>3, <1>5, <2>1, <2>2 DEF ChangesInv
<1>8. CASE Pause \/ Fetch
  <2>1. Change(rc') = Change(rc) /\ pc # "idle" /\ UNCHANGED builds
    BY <1>0, <1>8 DEF Pause, Fetch, Call, Version, Change, world
  <2> QED BY <1>3, <1>4, <1>5, <2>1 DEF ChangesInv
<1>9. CASE Trigger
  <2>1. UNCHANGED rc /\ pc # "idle" /\ (builds' = builds \/ builds' = Append(builds, Change(rc)))
    BY <1>9 DEF Trigger, Call
  <2>2. \A i \in 1..Len(builds') : builds'[i] = Change(rc) \/ (i \in 1..Len(builds) /\ builds'[i] = builds[i])
    <3>1. CASE builds' = Append(builds, Change(rc))
      <4>1. /\ Len(builds') = Len(builds) + 1 /\ Len(builds) \in Nat
            /\ builds'[Len(builds) + 1] = Change(rc) /\ \A i \in 1..Len(builds) : builds'[i] = builds[i]
        BY <3>1 DEF TypeOK
      <4> QED BY <4>1
    <3> QED BY <2>1, <3>1
  <2> QED BY <1>3, <1>4, <1>5, <2>1, <2>2 DEF ChangesInv
<1>10. CASE Report \/ UpdateStatus \/ CrashRestart
  <2>1. pc' = "idle" /\ UNCHANGED builds
    BY <1>10, ReturnType DEF Report, ReportNotReady, UpdateStatus, WriteStatus, WriteFails,
                             CrashRestart, Restart, Idle, world
  <2> QED BY <1>3, <1>5, <2>1 DEF ChangesInv
<1> QED BY <1>6, <1>7, <1>8, <1>9, <1>10 DEF Next, Working

(* A copy read from a store that is up to date stays the current Job until
   something is written. *)
LEMMA CopyNext == TypeOK /\ OrderInv /\ CopyInv /\ [Next]_vars => CopyInv'
<1> SUFFICES ASSUME TypeOK, OrderInv, CopyInv, [Next]_vars PROVE CopyInv'
  OBVIOUS
<1>0. /\ api \in Version /\ rc \in Version /\ store \in Version /\ stream \in Seq(Version)
      /\ \A v \in Version : v.rv \in Nat
  BY VersionFields DEF TypeOK, FrameOK
<1>1. CASE User \/ InformerReceives \/ OwnedBuildChanges \/ DelayExpires \/ UNCHANGED vars
  <2>1. UNCHANGED <<pc, rc>>
    BY <1>1 DEF User, CreateJob, EditJob, AnnotateJob, Annotate, DeleteJob, Submit,
                ChainChanges, PipelineReset, BuildFinishes, Elsewhere,
                InformerReceives, Receive, OwnedBuildChanges, DelayExpires, Expire, worker, vars
  <2>2. CASE api' = api
    BY <2>1, <2>2 DEF CopyInv, Due
  <2>3. CASE api'.rv = api.rv + 1
    BY <1>0, <2>1, <2>3 DEF CopyInv, Due
  <2>4. ~(Report \/ UpdateStatus) \/ pc' = "idle"
    BY ReturnType DEF Report, ReportNotReady, UpdateStatus, WriteStatus, WriteFails
  <2>5. pc' = "idle" => CopyInv'
    BY DEF CopyInv
  <2> QED BY <2>2, <2>3, <2>4, <2>5, ApiEffect
<1>2. CASE Begin
  <2>1. UNCHANGED api /\ (pc' # "idle" => rc' = Copy(store) /\ pc' \in {"report", "pause"})
    BY <1>2 DEF Begin, Take, FirstCall, kube
  <2>2. store.rv <= api.rv /\ (store.rv = api.rv => store = api)
    BY <1>0, OrderedSeen DEF OrderInv, Seen
  <2> QED BY <1>0, <2>1, <2>2, CopyFields DEF CopyInv, Change
<1>3. CASE Pause
  <2>1. /\ UNCHANGED api /\ pc = "pause" /\ pc' \in {"trigger", "fetch"} /\ (pc' = "trigger" => Due(rc))
        /\ rc'.rv = rc.rv /\ rc'.state = rc.state /\ rc'.spec = rc.spec /\ Change(rc') = Change(rc)
        /\ rc'.observed = rc.observed /\ rc'.gen = rc.gen
    BY <1>0, <1>3 DEF Pause, Call, Version, Change, kube
  <2> QED BY <2>1 DEF CopyInv, Due
<1>4. CASE Trigger
  BY <1>4 DEF Trigger, Call, CopyInv, kube
<1>5. CASE Fetch
  <2>1. /\ UNCHANGED api /\ pc = "fetch" /\ pc' = "update"
        /\ rc'.rv = rc.rv /\ rc'.state = rc.state /\ rc'.spec = rc.spec /\ Change(rc') = Change(rc)
        /\ rc'.observed = rc.gen /\ rc'.gen = rc.gen
    BY <1>0, <1>5 DEF Fetch, Call, Version, Change, kube
  <2> QED BY <2>1 DEF CopyInv
<1>6. CASE Report \/ UpdateStatus \/ CrashRestart
  <2>1. pc' = "idle"
    BY <1>6, ReturnType DEF Report, ReportNotReady, UpdateStatus, WriteStatus, WriteFails,
                            CrashRestart, Restart, Idle
  <2> QED BY <2>1 DEF CopyInv
<1> QED BY <1>1, <1>2, <1>3, <1>4, <1>5, <1>6 DEF Next, Working

(* How the number of Builds of a change grows. *)
LEMMA RepeatsFacts ==
  ASSUME NEW S, NEW bs \in Seq(S), NEW c \in S
  PROVE  /\ Repeats(bs, c) \in Nat
         /\ (\A i \in 1..Len(bs) : bs[i] # c) => Repeats(bs, c) = 0
         /\ Repeats(Append(bs, c), c) = Repeats(bs, c) + 1
         /\ \A d \in S : d # c => Repeats(Append(bs, c), d) = Repeats(bs, d)
<1> DEFINE at(d) == {k \in 1..Len(bs) : bs[k] = d}
           bc == Append(bs, c)
<1>0. Len(bs) \in Nat
  OBVIOUS
<1>1. IsFiniteSet(at(c))
  <2>1. IsFiniteSet(1..Len(bs))
    BY <1>0, FS_Interval
  <2>2. at(c) \in SUBSET (1..Len(bs))
    OBVIOUS
  <2> QED BY <2>1, <2>2, FS_Subset
<1>2. Len(bc) = Len(bs) + 1 /\ bc[Len(bs) + 1] = c /\ \A i \in 1..Len(bs) : bc[i] = bs[i]
  OBVIOUS
<1>3. 1..Len(bc) = (1..Len(bs)) \cup {Len(bs) + 1}
  BY <1>0, <1>2
<1>4. {k \in 1..Len(bc) : bc[k] = c} = at(c) \cup {Len(bs) + 1}
  BY <1>0, <1>2, <1>3
<1>5. Len(bs) + 1 \notin at(c)
  BY <1>0
<1>6. ASSUME NEW d \in S, d # c PROVE {k \in 1..Len(bc) : bc[k] = d} = at(d)
  BY <1>0, <1>2, <1>3, <1>6
<1>7. Repeats(bs, c) \in Nat
  BY <1>1, FS_CardinalityType DEF Repeats
<1>8. (\A i \in 1..Len(bs) : bs[i] # c) => at(c) = {}
  OBVIOUS
<1>9. (\A i \in 1..Len(bs) : bs[i] # c) => Repeats(bs, c) = 0
  BY <1>8, FS_EmptySet DEF Repeats
<1>10. Repeats(bc, c) = Repeats(bs, c) + 1
  BY <1>1, <1>4, <1>5, FS_AddElement DEF Repeats
<1> QED BY <1>6, <1>7, <1>9, <1>10 DEF Repeats

(* Faults, crashes, stale reads and writes meanwhile are counted and never forgotten. *)
LEMMA CausesGrow ==
  ASSUME TypeOK, [Next]_vars
  PROVE  Causes \in Nat /\ Causes' \in Nat /\ Causes <= Causes'
<1>0. faults \in Nat /\ crashes \in Nat /\ stale \in Nat /\ touches \in Nat
  BY BoundsAssumption DEF TypeOK, FrameOK
<1>1. ASSUME faults' \in {faults, faults + 1}, crashes' \in {crashes, crashes + 1},
             stale' \in {stale, stale + 1}, touches' \in {touches, touches + 1}
      PROVE  Causes \in Nat /\ Causes' \in Nat /\ Causes <= Causes'
  <2>1. /\ faults' \in Nat /\ faults <= faults' /\ crashes' \in Nat /\ crashes <= crashes'
        /\ stale' \in Nat /\ stale <= stale' /\ touches' \in Nat /\ touches <= touches'
    BY <1>0, <1>1
  <2>2. PICK f, k, t, w : f = faults' /\ k = crashes' /\ t = stale' /\ w = touches'
    OBVIOUS
  <2>3. Causes = faults + crashes + stale + touches /\ Causes' = f + k + t + w
    BY <2>2, Zenon DEF Causes
  <2>4. /\ f \in Nat /\ faults <= f /\ k \in Nat /\ crashes <= k /\ t \in Nat /\ stale <= t
        /\ w \in Nat /\ touches <= w
    BY <2>1, <2>2
  <2>5. Causes \in Nat /\ f + k + t + w \in Nat /\ Causes <= f + k + t + w
    BY <1>0, <2>3, <2>4
  <2> QED BY <2>3, <2>5
<1> USE DEF bounds, world
<1>2. CASE User
  BY <1>1, <1>2 DEF User, CreateJob, EditJob, AnnotateJob, Annotate, DeleteJob, Submit,
                    ChainChanges, PipelineReset, BuildFinishes, Elsewhere, Edit
<1>3. CASE InformerReceives \/ OwnedBuildChanges \/ DelayExpires \/ UNCHANGED vars
  BY <1>1, <1>3 DEF InformerReceives, Receive, OwnedBuildChanges, DelayExpires, Expire, vars
<1>4. CASE Begin
  BY <1>1, <1>4 DEF Begin, Take, Reads
<1>5. CASE Report
  BY <1>1, <1>5 DEF Report, ReportNotReady, Fault
<1>6. CASE Pause \/ Trigger
  BY <1>1, <1>6 DEF Pause, Trigger, Call, Fault
<1>7. CASE Fetch
  BY <1>1, <1>7 DEF Fetch, Call, Fault
<1>8. CASE UpdateStatus
  BY <1>1, <1>8 DEF UpdateStatus, WriteStatus, WriteFails, Fault
<1>9. CASE CrashRestart
  BY <1>1, <1>9 DEF CrashRestart, Restart
<1> QED BY <1>2, <1>3, <1>4, <1>5, <1>6, <1>7, <1>8, <1>9 DEF Next, Working

(* Before the first event no Build has been created. *)
LEMMA CountInit == Init => CountInv
<1> SUFFICES ASSUME Init PROVE CountInv
  OBVIOUS
<1>1. Len(builds) = 0 /\ ~Live(api) /\ pc = "idle"
  BY DEF Init, FrameInit, Live, NoJob, NewJob
<1> QED BY <1>1 DEF CountInv, Open, Triggering

(* A Build beyond the first of its change is paid for by a cause. *)
LEMMA CountNext ==
  TypeOK /\ OrderInv /\ ChangesInv /\ CopyInv /\ CountInv /\ [Next]_vars => CountInv'
<1> SUFFICES ASSUME TypeOK, OrderInv, ChangesInv, CopyInv, CountInv, [Next]_vars PROVE CountInv'
  OBVIOUS
<1> DEFINE C == [uid: Nat, gen: Nat]
<1>0. /\ api \in Version /\ rc \in Version /\ store \in Version /\ stream \in Seq(Version)
      /\ api' \in Version /\ builds \in Seq(C)
  BY ApiStep DEF TypeOK, FrameOK
<1>1. Change(api) \in C /\ Change(rc) \in C /\ Change(api') \in C
  BY <1>0, VersionFields
<1> HIDE DEF C
<1>2. Causes \in Nat /\ Causes' \in Nat /\ Causes <= Causes'
  BY CausesGrow
<1>3. ASSUME NEW c \in C PROVE Repeats(builds, c) \in Nat /\ Repeats(builds, c) <= 1 + Causes
  <2>1. CASE \E i \in 1..Len(builds) : builds[i] = c
    BY <1>0, <2>1, RepeatsFacts DEF CountInv
  <2>2. CASE \A i \in 1..Len(builds) : builds[i] # c
    <3>1. Repeats(builds, c) = 0
      BY <1>0, <2>2, RepeatsFacts
    <3> QED BY <1>2, <3>1
  <2> QED BY <2>1, <2>2
<1>4. ASSUME NEW i \in 1..Len(builds) PROVE Repeats(builds, builds[i]) <= 1 + Causes'
  <2>1. builds[i] \in C
    BY <1>0, ElementOfSeq
  <2> QED BY <1>2, <1>3, <2>1
<1>5. ASSUME UNCHANGED builds, ~Triggering',
             Open' /\ ~Closing' => Repeats(builds, Change(api')) <= Causes'
      PROVE  CountInv'
  BY <1>5, <1>4 DEF CountInv
<1>6. CASE UNCHANGED <<api, pc, rc, builds, faults, crashes, stale, touches>>
  BY <1>6 DEF CountInv, Causes, Open, Closing, Triggering, Due
<1>7. CASE User /\ ~AnnotateJob /\ api' # api /\ UNCHANGED <<pc, rc, builds, faults, crashes, stale, touches>>
  <2>0. Causes' = Causes /\ (Triggering' <=> Triggering)
    BY <1>7 DEF Causes, Triggering, Due
  <2>1. Open' => Repeats(builds, Change(api')) <= Causes /\ (pc # "idle" => Change(rc) # Change(api'))
    <3>1. ASSUME ~NoLater(Change(api'), Change(api))
          PROVE  Repeats(builds, Change(api')) <= Causes /\ (pc # "idle" => Change(rc) # Change(api'))
      <4>1. \A i \in 1..Len(builds) : builds[i] # Change(api')
        BY <3>1 DEF ChangesInv
      <4>2. Repeats(builds, Change(api')) = 0
        BY <1>0, <1>1, <4>1, RepeatsFacts
      <4> QED BY <1>2, <3>1, <4>2 DEF ChangesInv
    <3>2. api.uid \in Nat /\ api.gen \in Nat
      BY <1>0, VersionFields
    <3>3. CASE api'.uid = api.uid + 1
      BY <3>1, <3>2, <3>3 DEF NoLater, Change
    <3>4. CASE api'.uid = api.uid /\ api'.gen = api.gen + 1
      BY <3>1, <3>2, <3>4 DEF NoLater, Change
    <3>5. CASE ~Live(api')
      BY <3>5 DEF Open
    <3>6. ~(Report \/ UpdateStatus) \/ pc' = "idle"
      BY ReturnType DEF Report, ReportNotReady, UpdateStatus, WriteStatus, WriteFails
    <3>7. ~(Report \/ UpdateStatus)
      BY <1>7, <3>6 DEF Report, ReportNotReady, UpdateStatus, WriteStatus
    <3> QED BY <1>7, <3>3, <3>4, <3>5, <3>7, ApiEffect
  <2>2. Triggering => pc # "idle"
    BY DEF Triggering
  <2> QED BY <1>7, <2>0, <2>1, <2>2 DEF CountInv
<1>8. CASE \/ User /\ ~AnnotateJob
           \/ InformerReceives \/ OwnedBuildChanges \/ DelayExpires \/ UNCHANGED vars
  <2>1. /\ UNCHANGED <<pc, rc, builds, faults, crashes, stale, touches>>
        /\ (User /\ ~AnnotateJob) \/ api' = api
    BY <1>8 DEF User, CreateJob, EditJob, DeleteJob, Submit,
                ChainChanges, PipelineReset, BuildFinishes, Elsewhere, Edit,
                InformerReceives, Receive, OwnedBuildChanges, DelayExpires, Expire,
                worker, world, kube, bounds, vars
  <2> QED BY <1>6, <1>7, <2>1
<1>9. CASE Begin
  <2>1. /\ UNCHANGED <<api, builds>> /\ pc = "idle" /\ pc' \in {"idle", "report", "pause"}
        /\ pc' = "pause" => rc' = Copy(store) /\ Live(store)
    BY <1>9 DEF Begin, Take, FirstCall, kube, world
  <2>2. ~Closing /\ ~Closing'
    BY <2>1 DEF Closing
  <2>3. Open => Repeats(builds, Change(api)) <= Causes
    BY <2>2 DEF CountInv
  <2>4. Open' <=> Open
    BY <2>1 DEF Open
  <2>5. CASE ~Triggering'
    BY <1>1, <1>2, <1>3, <1>5, <2>1, <2>3, <2>4, <2>5
  <2>6. CASE Triggering'
    <3>1. rc' = Copy(store) /\ Live(store) /\ Due(rc') /\ pc' = "pause"
      BY <2>1, <2>6 DEF Triggering, Due
    <3>2. Change(rc') = Change(store) /\ rc'.rv = store.rv /\ store.observed # store.gen
      BY <1>0, <3>1, CopyFields DEF Due, Change
    <3>3. Change(rc') \in C
      BY <1>0, <3>2, VersionFields DEF C
    <3>4. \A i \in 1..Len(builds) : Repeats(builds, builds[i]) <= 1 + Causes'
      BY <1>4
    <3>5. CASE stream = <<>>
      <4>1. store = api
        BY <3>5 DEF OrderInv, Ordered
      <4>2. Open /\ Change(rc') = Change(api) /\ rc'.rv = api.rv
        BY <3>1, <3>2, <4>1 DEF Open
      <4> QED BY <1>1, <1>2, <1>3, <2>1, <2>3, <3>4, <4>2 DEF CountInv
    <3>6. CASE stream # <<>>
      <4>1. Causes' = Causes + 1
        <5>1. stale' = stale + 1 /\ UNCHANGED <<faults, crashes, touches>>
          BY <1>9, <3>6 DEF Begin, Reads, Take, bounds, world
        <5>2. faults \in Nat /\ crashes \in Nat /\ stale \in Nat /\ touches \in Nat
          BY BoundsAssumption DEF TypeOK, FrameOK
        <5> QED BY <5>1, <5>2 DEF Causes
      <4>2. Repeats(builds, Change(rc')) <= Causes'
        BY <1>2, <1>3, <3>3, <4>1
      <4>3. Open => Repeats(builds, Change(api)) + 1 <= Causes'
        BY <1>1, <1>2, <1>3, <2>3, <4>1
      <4>4. Open => Repeats(builds, Change(api)) <= Causes'
        BY <1>1, <1>2, <1>3, <4>3
      <4> QED BY <2>1, <2>4, <3>4, <4>2, <4>3, <4>4 DEF CountInv
    <3> QED BY <3>5, <3>6
  <2> QED BY <2>5, <2>6
<1>10. CASE Pause
  <2>1. /\ UNCHANGED <<api, builds>> /\ pc = "pause" /\ (pc' = "trigger" => Due(rc)) /\ pc' \in {"trigger", "fetch"}
        /\ rc'.rv = rc.rv /\ rc'.spec = rc.spec /\ Change(rc') = Change(rc)
        /\ rc'.observed = rc.observed /\ rc'.gen = rc.gen
    BY <1>0, <1>10 DEF Pause, Call, Version, Change, kube
  <2>2. (Triggering' => Triggering) /\ ~Closing /\ (Open' <=> Open)
    BY <2>1 DEF Triggering, Due, Closing, Open
  <2>3. Open => Repeats(builds, Change(api)) <= Causes'
    BY <1>1, <1>2, <1>3, <2>2 DEF CountInv
  <2>4. \A i \in 1..Len(builds) : Repeats(builds, builds[i]) <= 1 + Causes'
    BY <1>4
  <2>5. Triggering' => Repeats(builds, Change(rc)) <= Causes'
    BY <1>1, <1>2, <1>3, <2>2 DEF CountInv
  <2>6. Triggering' /\ Open /\ Change(rc) = Change(api) /\ rc.rv # api.rv => Repeats(builds, Change(rc)) + 1 <= Causes'
    BY <1>1, <1>2, <1>3, <2>2 DEF CountInv
  <2> QED BY <2>1, <2>2, <2>3, <2>4, <2>5, <2>6 DEF CountInv
<1>11. CASE Trigger
  <2>1. UNCHANGED <<api, rc>> /\ pc = "trigger" /\ pc' = "fetch"
    BY <1>11 DEF Trigger, Call, kube
  <2>2. Triggering /\ ~Triggering' /\ ~Closing /\ (Open' <=> Open) /\ (Closing' <=> rc.rv = api.rv)
    BY <2>1 DEF Triggering, CopyInv, Closing, Open
  <2>3. Open => Repeats(builds, Change(api)) <= Causes
    BY <2>2 DEF CountInv
  <2>4. CASE UNCHANGED builds
    BY <1>1, <1>2, <1>3, <1>5, <2>1, <2>2, <2>3, <2>4
  <2>5. CASE builds' = Append(builds, Change(rc))
    <3>1. Repeats(builds', Change(rc)) = Repeats(builds, Change(rc)) + 1
      BY <1>0, <1>1, <2>5, RepeatsFacts
    <3>2. ASSUME NEW d \in C, d # Change(rc) PROVE Repeats(builds', d) = Repeats(builds, d)
      BY <1>0, <1>1, <2>5, <3>2, RepeatsFacts
    <3>3. Repeats(builds, Change(rc)) <= Causes
      BY <2>2 DEF CountInv
    <3>4. builds' \in Seq(C)
      BY <1>0, <1>1, <2>5
    <3>5. ASSUME NEW d \in C PROVE Repeats(builds', d) <= 1 + Causes'
      BY <1>1, <1>2, <1>3, <3>1, <3>2, <3>3
    <3>6. Open /\ rc.rv # api.rv => Repeats(builds', Change(api)) <= Causes'
      <4>1. CASE Change(rc) = Change(api)
        BY <1>1, <1>2, <1>3, <2>2, <3>1, <4>1 DEF CountInv
      <4>2. CASE Change(rc) # Change(api)
        BY <1>1, <1>2, <1>3, <2>3, <3>2, <4>2
      <4> QED BY <4>1, <4>2
    <3>7. ASSUME NEW i \in 1..Len(builds') PROVE Repeats(builds', builds'[i]) <= 1 + Causes'
      <4>1. builds'[i] \in C
        BY <3>4, ElementOfSeq
      <4> QED BY <3>5, <4>1
    <3> QED BY <2>1, <2>2, <3>6, <3>7 DEF CountInv
  <2> QED BY <1>11, <2>4, <2>5 DEF Trigger
<1>12. CASE Fetch
  <2>1. UNCHANGED <<api, builds>> /\ pc = "fetch" /\ pc' = "update" /\ rc'.rv = rc.rv
    BY <1>0, <1>12 DEF Fetch, Call, Version, kube, world
  <2>2. ~Triggering' /\ (Closing' <=> Closing) /\ (Open' <=> Open)
    BY <2>1 DEF Triggering, Closing, Open
  <2> QED BY <1>1, <1>2, <1>3, <1>5, <2>1, <2>2 DEF CountInv
<1>13. CASE UpdateStatus
  <2>1. pc = "update" /\ pc' = "idle" /\ UNCHANGED <<builds, crashes, stale, touches>> /\ ~Triggering'
    BY <1>13, ReturnType DEF UpdateStatus, WriteStatus, WriteFails, world, Triggering
  <2>2. rc.observed = rc.gen
    BY <2>1 DEF CopyInv
  <2>3. CASE Accepted /\ api' = Written(api, rc)
    <3>1. api'.observed = api'.gen
      BY <1>0, <2>2, <2>3, NextVersionFields DEF Written
    <3> QED BY <1>5, <2>1, <3>1 DEF Open
  <2>4. CASE ~Accepted /\ api' = api
    <3>1. Open => ~Closing
      BY <2>4 DEF Open, Closing, Accepted, Accepts, Live, Exists
    <3> QED BY <1>1, <1>2, <1>3, <1>5, <2>1, <2>4, <3>1 DEF CountInv, Open
  <2>5. CASE Fault /\ api' = api
    <3>1. Causes' = Causes + 1
      <4>1. faults \in Nat /\ crashes \in Nat /\ stale \in Nat /\ touches \in Nat
        BY BoundsAssumption DEF TypeOK, FrameOK
      <4> QED BY <2>1, <2>5, <4>1 DEF Fault, Causes
    <3> QED BY <1>1, <1>2, <1>3, <1>5, <2>1, <2>5, <3>1
  <2> QED BY <1>13, <2>3, <2>4, <2>5 DEF UpdateStatus, WriteStatus, WriteFails, Write, Replace
<1>14. CASE Report
  <2>1. pc = "report" /\ pc' = "idle" /\ UNCHANGED builds /\ ~Triggering' /\ ~Closing
    BY <1>14, ReturnType DEF Report, ReportNotReady, world, Triggering, Closing
  <2>2. Change(api') = Change(api) /\ (Open' <=> Open)
    <3>1. CASE api' = api
      BY <3>1 DEF Open
    <3>2. CASE rc.rv = api.rv /\ api' = NextVersion(rc)
      <4>1. rc.state = api.state /\ Change(rc) = Change(api) /\ rc.observed = api.observed
        BY <2>1, <3>2 DEF CopyInv
      <4> QED BY <1>0, <3>2, <4>1, VersionFields, NextVersionFields DEF Open, Live, Change
    <3> QED BY <1>14, <3>1, <3>2 DEF Report, ReportNotReady, Write, Written, Replace, Accepted, Accepts
  <2> QED BY <1>1, <1>2, <1>3, <1>5, <2>1, <2>2 DEF CountInv
<1>15. CASE CrashRestart
  <2>1. UNCHANGED <<api, builds, faults, stale, touches>> /\ crashes' = crashes + 1 /\ ~Triggering'
    BY <1>15 DEF CrashRestart, Restart, Idle, world, Triggering
  <2>2. Causes' = Causes + 1
    <3>1. faults \in Nat /\ crashes \in Nat /\ stale \in Nat /\ touches \in Nat
      BY BoundsAssumption DEF TypeOK, FrameOK
    <3> QED BY <2>1, <3>1 DEF Causes
  <2> QED BY <1>1, <1>2, <1>3, <1>5, <2>1, <2>2
<1>16. CASE AnnotateJob
  <2>1. UNCHANGED <<pc, rc, builds, faults, crashes, stale>> /\ api' = NextVersion(api)
    BY <1>16 DEF AnnotateJob, Annotate, Submit, Replace, Edit, worker
  <2>2. Change(api') = Change(api) /\ (Open' <=> Open) /\ (Triggering' <=> Triggering)
    BY <1>0, <2>1, NextVersionFields DEF Change, Open, Live, Triggering, Due
  <2>3. CASE pc = "idle"
    <3>1. UNCHANGED touches /\ ~Triggering /\ ~Closing
      BY <1>16, <2>3 DEF AnnotateJob, Triggering, Closing
    <3>2. Causes' = Causes
      BY <2>1, <3>1 DEF Causes
    <3> QED BY <1>5, <2>1, <2>2, <3>1, <3>2 DEF CountInv
  <2>4. CASE pc # "idle"
    <3>1. Causes' = Causes + 1
      <4>1. faults \in Nat /\ crashes \in Nat /\ stale \in Nat /\ touches \in Nat
        BY BoundsAssumption DEF TypeOK, FrameOK
      <4>2. touches' = touches + 1
        BY <1>16, <2>4 DEF AnnotateJob
      <4> QED BY <2>1, <4>1, <4>2 DEF Causes
    <3>2. Repeats(builds, Change(api')) <= Causes'
      BY <1>1, <1>2, <1>3, <2>2, <3>1
    <3>3. Triggering => Repeats(builds, Change(rc)) <= Causes' /\ Repeats(builds, Change(rc)) + 1 <= Causes'
      BY <1>1, <1>2, <1>3, <3>1 DEF CountInv
    <3>4. \A i \in 1..Len(builds) : Repeats(builds, builds[i]) <= 1 + Causes'
      BY <1>4
    <3> QED BY <2>1, <2>2, <3>2, <3>3, <3>4 DEF CountInv
  <2> QED BY <2>3, <2>4
<1> QED BY <1>8, <1>9, <1>10, <1>11, <1>12, <1>13, <1>14, <1>15, <1>16 DEF Next, Working

(* Neither the poll nor the events of the Build itself bring a second Build about:
   each one beyond the first has a lost answer, a stop, a stale copy or a write of
   labels during the reconcile to it. *)
THEOREM RepeatsCorrect == Spec => []RepeatsHaveACause
<1>1. TypeOK /\ CountInv => RepeatsHaveACause
  <2> SUFFICES ASSUME TypeOK, CountInv PROVE RepeatsHaveACause
    OBVIOUS
  <2>1. 1 + Causes = 1 + faults + crashes + stale + touches
    BY BoundsAssumption DEF TypeOK, FrameOK, Causes
  <2> QED BY <2>1 DEF CountInv, RepeatsHaveACause, Repeats
<1>2. Init => TypeOK /\ OrderInv /\ ChangesInv /\ CopyInv /\ CountInv
  BY TypeInit, OrderInit, ChangesInit, CountInit
<1>3. TypeOK /\ OrderInv /\ ChangesInv /\ CopyInv /\ CountInv /\ [Next]_vars =>
        (TypeOK /\ OrderInv /\ ChangesInv /\ CopyInv /\ CountInv)'
  BY TypeNext, OrderNext, ChangesNext, CopyNext, CountNext
<1> QED BY <1>1, <1>2, <1>3, PTL DEF Spec
=============================================================================
