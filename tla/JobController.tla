---------------------------- MODULE JobController ----------------------------
(***************************************************************************)
(* JobReconciler (src/internal/controller/job_controller.go): a Job        *)
(* resource pauses and unpauses a job of Concourse, creates a Build        *)
(* resource for a change of its spec, and reports the job's last build.    *)
(*                                                                         *)
(* Build resources are watched as well (Owns): each of their events        *)
(* enqueues the Job, possibly before the informer of Jobs has seen the     *)
(* status the same reconcile wrote.                                        *)
(***************************************************************************)
EXTENDS Naturals, Sequences, FiniteSets

CONSTANTS
  Specs,         \* the specs users write: [paused, triggerBuild]
  ChainStates,   \* whether the Pipeline and its chain may be ready
  Results,       \* how builds of the job end
  MaxEdits, MaxFaults, MaxCrashes,
  MaxStale       \* bound: reconciles begun from an informer that lags behind

ASSUME SpecsAssumption == Specs # {} /\ Specs \subseteq [paused: BOOLEAN, triggerBuild: BOOLEAN]
ASSUME ChainAssumption == ChainStates # {} /\ ChainStates \subseteq BOOLEAN
ASSUME ResultsAssumption == Results \subseteq {"succeeded", "failed", "errored", "aborted"}
ASSUME BoundsAssumption ==
  MaxEdits \in Nat /\ MaxFaults \in Nat /\ MaxCrashes \in Nat /\ MaxStale \in Nat

VARIABLES
  api, stream, store, wq, pc, rc, edits, faults, crashes,  \* see Reconciler
  builds,              \* the Build resources created, each with the change it is for
  refused,             \* history: the changes whose Build could not be created
  touches,             \* history: writes of labels or annotations during a reconcile
  chain,               \* whether resolveClientForJob succeeds
  known,               \* Concourse: the pipeline has the job
  paused, finished,    \* Concourse: the job is paused, how its last build ended
  stale

(* lastBuild is the reason of the condition LastBuildSucceeded. *)
NewJob(rv, uid, spec) ==
  [state |-> "live", rv |-> rv, uid |-> uid, gen |-> 1, spec |-> spec, observed |-> 0,
   paused |-> FALSE, ready |-> "none", lastBuild |-> "none"]

NoJob == [NewJob(0, 0, CHOOSE s \in Specs : TRUE) EXCEPT !.state = "gone"]

INSTANCE Reconciler WITH NoObject <- NoJob

world == <<builds, refused, touches, chain, known, paused, finished>>
vars == <<api, stream, store, wq, pc, rc, edits, faults, crashes,
          builds, refused, touches, chain, known, paused, finished, stale>>
-----------------------------------------------------------------------------
Version ==
  [state: States, rv: Nat, uid: Nat, gen: Nat, spec: Specs, observed: Nat, paused: BOOLEAN,
   ready: {"none", "PipelineNotReady", "Ready"},
   lastBuild: {"none", "FetchFailed", "NoBuild"} \cup Results]

(* A change of the spec: an incarnation of the Job and a generation of it. *)
Change(obj) == [uid |-> obj.uid, gen |-> obj.gen]

TypeOK ==
  /\ FrameOK(Version, {"report", "pause", "trigger", "fetch", "update"})
  /\ builds \in Seq([uid: Nat, gen: Nat]) /\ refused \subseteq [uid: Nat, gen: Nat]
  /\ touches \in Nat /\ chain \in ChainStates
  /\ known \in BOOLEAN /\ paused \in BOOLEAN /\ finished \in {"NoBuild"} \cup Results
  /\ stale \in 0..MaxStale

Init ==
  /\ FrameInit
  /\ builds = <<>> /\ refused = {} /\ touches = 0 /\ chain \in ChainStates
  /\ known \in BOOLEAN /\ paused = FALSE /\ finished = "NoBuild" /\ stale = 0
-----------------------------------------------------------------------------
(* Users, Concourse, and the informers. *)

CreateJob ==
  /\ ~Exists(api)
  /\ \E spec \in Specs : Submit(NewJob(api.rv + 1, api.uid + 1, spec))
  /\ UNCHANGED <<world, stale>>

EditJob ==
  /\ Live(api)
  /\ \E spec \in Specs \ {api.spec} : Submit(Respecified(spec))
  /\ UNCHANGED <<world, stale>>

(* A write of labels or annotations, which is no change of the spec. *)
AnnotateJob ==
  /\ Annotate
  /\ touches' = IF pc = "idle" THEN touches ELSE touches + 1
  /\ UNCHANGED <<builds, refused, chain, known, paused, finished, stale>>

(* A Job has no finalizer of this operator; others may hold it. *)
DeleteJob ==
  /\ Exists(api)
  /\ \E state \in {"deleting", "gone"} \ {api.state} : Submit(NextVersion([api EXCEPT !.state = state]))
  /\ UNCHANGED <<world, stale>>

ChainChanges ==
  /\ Elsewhere
  /\ \E c \in ChainStates \ {chain} : chain' = c
  /\ UNCHANGED <<builds, refused, touches, known, paused, finished, stale>>

(* A new configuration of the pipeline drops the job, or brings it, paused as it
   was or not. *)
PipelineReset ==
  /\ Elsewhere
  /\ known' = ~known
  /\ paused' \in IF known THEN {paused} ELSE {paused, FALSE}
  /\ UNCHANGED <<builds, refused, touches, chain, finished, stale>>

BuildFinishes ==
  /\ Elsewhere
  /\ \E r \in Results \ {finished} : finished' = r
  /\ UNCHANGED <<builds, refused, touches, chain, known, paused, stale>>

InformerReceives == Receive /\ UNCHANGED <<world, stale>>

(* An event of a Build the Job owns. *)
OwnedBuildChanges ==
  /\ builds # <<>> /\ wq # "ready"
  /\ wq' = "ready"
  /\ UNCHANGED <<api, stream, store, pc, rc, edits, faults, crashes, world, stale>>

DelayExpires == Expire /\ UNCHANGED <<world, stale>>
-----------------------------------------------------------------------------
(* Reconcile, call by call. *)

(* The informer is up to date, or its lag counts. *)
Reads == \/ stream = <<>> /\ UNCHANGED stale
         \/ stream # <<>> /\ stale < MaxStale /\ stale' = stale + 1

FirstCall(obj) == IF ~Live(obj) THEN "idle" ELSE IF chain THEN "pause" ELSE "report"

(* Mutant: a Job whose chain is not ready counts as observed. *)
CopyObserved(obj) == IF chain THEN obj ELSE [obj EXCEPT !.ready = "PipelineNotReady", !.observed = obj.gen]

Copy(obj) == IF chain THEN obj ELSE [obj EXCEPT !.ready = "PipelineNotReady"]

(* The reads: the Job, and what resolveClientForJob reads. *)
Begin == Reads /\ Take(FirstCall(store), Copy(store)) /\ UNCHANGED world

(* Mutant: the generation is not compared. *)
DueAlways(obj) == obj.spec.triggerBuild

Due(obj) == obj.spec.triggerBuild /\ obj.observed # obj.gen

(* PauseJob or UnpauseJob.  An error is logged and leaves the status alone; the
   answer that there is no such job is taken for a success. *)
Pause ==
  LET result == IF known THEN rc.spec.paused ELSE paused
  IN  /\ Call("pause", IF Due(rc) THEN "trigger" ELSE "fetch")
      /\ \/ paused' = result /\ rc' = [rc EXCEPT !.paused = rc.spec.paused] /\ UNCHANGED faults
         \/ Fault /\ paused' \in {paused, result} /\ UNCHANGED rc
      /\ UNCHANGED <<builds, refused, touches, chain, known, finished, stale>>

(* Create of a Build; an error is only logged.  A creation whose answer is lost
   leaves the same state as one that succeeds. *)
Trigger ==
  /\ Call("trigger", "fetch")
  /\ \/ builds' = Append(builds, Change(rc)) /\ UNCHANGED <<refused, faults>>
     \/ Fault /\ refused' = refused \cup {Change(rc)} /\ UNCHANGED builds
  /\ UNCHANGED <<rc, touches, chain, known, paused, finished, stale>>

(* Mutant: the next build is reported in place of the last one. *)
FetchNextBuild ==
  /\ Call("fetch", "update")
  /\ rc' = [rc EXCEPT !.observed = rc.gen, !.ready = "Ready", !.lastBuild = "started"]
  /\ UNCHANGED <<faults, world, stale>>

(* What Concourse says of the last build; an unknown job has none. *)
LastBuild == IF known THEN finished ELSE "NoBuild"

(* The last build, and the rest of the status. *)
Fetch ==
  /\ Call("fetch", "update")
  /\ \E last \in {LastBuild, "FetchFailed"} :
       /\ IF last = LastBuild THEN UNCHANGED faults ELSE Fault
       /\ rc' = [rc EXCEPT !.observed = rc.gen, !.ready = "Ready", !.lastBuild = last]
  /\ UNCHANGED <<world, stale>>

UpdateStatus == WriteStatus /\ UNCHANGED <<world, stale>>

Report == ReportNotReady /\ UNCHANGED <<world, stale>>

CrashRestart == Restart /\ UNCHANGED <<world, stale>>
-----------------------------------------------------------------------------
User == \/ CreateJob \/ EditJob \/ AnnotateJob \/ DeleteJob
        \/ ChainChanges \/ PipelineReset \/ BuildFinishes

Working == Report \/ Pause \/ Trigger \/ Fetch \/ UpdateStatus

Next == \/ User \/ InformerReceives \/ OwnedBuildChanges \/ DelayExpires
        \/ Begin \/ Working \/ CrashRestart

Spec == Init /\ [][Next]_vars

(* The process runs; nothing is assumed of users or of the builds. *)
Fairness == /\ WF_vars(InformerReceives) /\ WF_vars(DelayExpires)
            /\ WF_vars(Begin) /\ WF_vars(Working)

FairSpec == Spec /\ Fairness
-----------------------------------------------------------------------------
(* Correctness. *)

(* A change of the current generation that asks for a build and counts as
   observed. *)
Observed == Exists(api) /\ api.spec.triggerBuild /\ api.observed = api.gen

HasBuild == \E i \in 1..Len(builds) : builds[i] = Change(api)

(* The status never claims a change for which no Build was attempted: a change
   that asks for a build has one by the time observedGeneration covers it,
   unless its creation failed, whatever conflicts, stale reads, crashes and
   times of an unready chain lie in between. *)
ObservedMeansAttempted == Observed => HasBuild \/ Change(api) \in refused

(* A change gets a second Build only through a lost answer, a stop between the
   creation and the status write, a copy of the Job that is not up to date, or a
   write of labels or annotations during the reconcile, with which the status
   write conflicts: neither the poll nor the events of the Build itself bring
   one about. *)
RepeatsHaveACause ==
  \A i \in 1..Len(builds) :
    Cardinality({k \in 1..Len(builds) : builds[k] = builds[i]})
      <= 1 + faults + crashes + stale + touches

(* Once the chain stays ready, the Job is followed, although no event announces
   what happens in Concourse: the status has the pause of the spec, the change
   and the result of the last build, and Concourse has the pause if it has the
   job.  If not, the status has a pause that is nowhere: "Paused reflects the
   actual pause state in Concourse" (job_types.go:50) fails, and the Job is
   Ready all the same. *)
EventuallyTracked ==
  <>[](Live(api) /\ chain) =>
    <>[](/\ api.paused = api.spec.paused /\ (known => paused = api.paused)
         /\ api.observed = api.gen /\ api.ready = "Ready" /\ api.lastBuild = LastBuild)
=============================================================================
