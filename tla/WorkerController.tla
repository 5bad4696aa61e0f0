-------------------------- MODULE WorkerController --------------------------
(***************************************************************************)
(* WorkerReconciler (src/internal/controller/worker_controller.go): a      *)
(* Worker resource lands or prunes a worker of Concourse and shows its     *)
(* state.  Land and prune are called by every reconcile, whatever state    *)
(* the worker is in.                                                       *)
(***************************************************************************)
EXTENDS Naturals, Sequences

CONSTANTS
  Specs,           \* the desired states users write
  InstanceStates,  \* what the controller may find its Instance to be
  MaxEdits, MaxFaults, MaxCrashes

DesiredStates == {"active", "land", "retire", "prune"}

(* "missing": there is no such Instance.  The others but "ready" are the reasons
   the controller reports. *)
Found == {"missing", "InstanceNotReady", "ClientFailed", "ready"}

(* The states of a worker in Concourse; "unlisted" says ListWorkers omits it. *)
Listed == {"running", "stalled", "landing", "landed"}

ASSUME SpecsAssumption == Specs # {} /\ Specs \subseteq DesiredStates
ASSUME InstanceAssumption == InstanceStates # {} /\ InstanceStates \subseteq Found
ASSUME BoundsAssumption == MaxEdits \in Nat /\ MaxFaults \in Nat /\ MaxCrashes \in Nat

VARIABLES
  api, stream, store, wq, pc, rc, edits, faults, crashes,  \* see Reconciler
  instance,   \* the Instance as the informers have it
  atc         \* the worker in Concourse

(* actual is actualState; the other fields are the reasons of the conditions
   Stalled, StateTransitioning and Ready. *)
NewWorker(rv, spec) ==
  [state |-> "live", rv |-> rv, gen |-> 1, spec |-> spec, observed |-> 0,
   actual |-> "none", stalled |-> "none", transitioning |-> "none", ready |-> "none"]

NoWorker == [NewWorker(0, CHOOSE s \in Specs : TRUE) EXCEPT !.state = "gone"]

INSTANCE Reconciler WITH NoObject <- NoWorker

vars == <<api, stream, store, wq, pc, rc, edits, faults, crashes, instance, atc>>
-----------------------------------------------------------------------------
Version ==
  [state: States, rv: Nat, gen: Nat, spec: Specs, observed: Nat,
   actual: Listed \cup {"none"}, stalled: {"none", "Stalled", "NotStalled"},
   transitioning: {"none", "TransitionPending", "Converged"},
   ready: {"none", "InstanceNotReady", "ClientFailed", "Ready"}]

TypeOK ==
  /\ FrameOK(Version, {"report", "transition", "list", "update"})
  /\ instance \in InstanceStates /\ atc \in Listed \cup {"unlisted"}

Init == FrameInit /\ instance \in InstanceStates /\ atc \in {"unlisted", "running"}
-----------------------------------------------------------------------------
(* Users, Concourse, and the informer. *)

CreateWorker ==
  /\ ~Exists(api)
  /\ \E spec \in Specs : Submit(NewWorker(api.rv + 1, spec))
  /\ UNCHANGED <<instance, atc>>

EditWorker ==
  /\ Live(api)
  /\ \E spec \in Specs \ {api.spec} : Submit(Respecified(spec))
  /\ UNCHANGED <<instance, atc>>

AnnotateWorker == Annotate /\ UNCHANGED <<instance, atc>>

(* A Worker has no finalizer of this operator; others may hold it. *)
DeleteWorker ==
  /\ Exists(api)
  /\ \E state \in {"deleting", "gone"} \ {api.state} : Submit(NextVersion([api EXCEPT !.state = state]))
  /\ UNCHANGED <<instance, atc>>

(* The controller does not watch Instances. *)
InstanceChanges ==
  /\ Elsewhere
  /\ \E i \in InstanceStates \ {instance} : instance' = i
  /\ UNCHANGED atc

(* What a worker does by itself: it registers, misses heartbeats and sends them
   again, ends its landing, and comes back after a restart. *)
WorkerMoves ==
  /\ Elsewhere
  /\ \E move \in {<<"unlisted", "running">>, <<"running", "stalled">>, <<"stalled", "running">>,
                  <<"landing", "landed">>, <<"landed", "running">>} :
       atc = move[1] /\ atc' = move[2]
  /\ UNCHANGED instance

InformerReceives == Receive /\ UNCHANGED <<instance, atc>>

DelayExpires == Expire /\ UNCHANGED <<instance, atc>>
-----------------------------------------------------------------------------
(* Reconcile, call by call. *)

FirstCall(obj) ==
  IF ~Live(obj) \/ instance = "missing" THEN "idle"
  ELSE IF instance # "ready" THEN "report"
  ELSE IF obj.spec = "active" THEN "list" ELSE "transition"

(* Mutant: a Worker that is not found is an error, which is retried. *)
BeginReturnsNotFound ==
  /\ IF Exists(store)
     THEN Take(FirstCall(store), IF instance = "ready" THEN store ELSE [store EXCEPT !.ready = instance])
     ELSE pc = "idle" /\ wq = "ready" /\ ReturnError
          /\ UNCHANGED <<api, stream, store, edits, faults, crashes>>
  /\ UNCHANGED <<instance, atc>>

(* The reads: the Worker, its Instance, and the client of the latter. *)
Begin ==
  /\ Take(FirstCall(store), IF instance = "ready" THEN store ELSE [store EXCEPT !.ready = instance])
  /\ UNCHANGED <<instance, atc>>

(* What Concourse does: landing is refused for a worker it does not know,
   pruning for one that is running. *)
LandWorker(s) == IF s \in {"unlisted", "landed"} THEN s ELSE "landing"
PruneWorker(s) == IF s = "running" THEN s ELSE "unlisted"

(* Mutant: a worker that is not wanted any more is only landed. *)
LandInAnyCase(desired, s) == LandWorker(s)

(* Land and retire both land the worker. *)
Transitioned(desired, s) == IF desired = "prune" THEN PruneWorker(s) ELSE LandWorker(s)

(* Mutant: the transition is made once per generation. *)
TransitionOnce ==
  /\ Call("transition", "list")
  /\ atc' = IF rc.observed = rc.gen THEN atc ELSE Transitioned(rc.spec, atc)
  /\ UNCHANGED <<rc, faults, instance>>

(* LandWorker or PruneWorker; an error is logged. *)
Transition ==
  /\ Call("transition", "list")
  /\ \/ atc' = Transitioned(rc.spec, atc) /\ UNCHANGED faults
     \/ Fault /\ atc' \in {atc, Transitioned(rc.spec, atc)}
  /\ UNCHANGED <<rc, instance>>

(* The status of a worker found in state s. *)
Shown(obj, s) ==
  [obj EXCEPT !.actual = s,
              !.stalled = IF s = "stalled" THEN "Stalled" ELSE "NotStalled",
              !.transitioning = IF s # obj.spec THEN "TransitionPending" ELSE "Converged"]

Reconciled(obj) == [obj EXCEPT !.observed = obj.gen, !.ready = "Ready"]

(* Mutant: a worker that is missing from the list is shown as such. *)
ListShowsUnlisted ==
  /\ Call("list", "update")
  /\ rc' = Reconciled(Shown(rc, atc))
  /\ UNCHANGED <<faults, instance, atc>>

(* ListWorkers, and the rest of the status.  If the call fails, which is logged,
   or does not list the worker, what the status said before is kept. *)
List ==
  /\ Call("list", "update")
  /\ \/ rc' = Reconciled(IF atc \in Listed THEN Shown(rc, atc) ELSE rc) /\ UNCHANGED faults
     \/ Fault /\ rc' = Reconciled(rc)
  /\ UNCHANGED <<instance, atc>>

UpdateStatus == WriteStatus /\ UNCHANGED <<instance, atc>>

Report == ReportNotReady /\ UNCHANGED <<instance, atc>>

CrashRestart == Restart /\ UNCHANGED <<instance, atc>>
-----------------------------------------------------------------------------
User == CreateWorker \/ EditWorker \/ AnnotateWorker \/ DeleteWorker \/ InstanceChanges \/ WorkerMoves

Working == Report \/ Transition \/ List \/ UpdateStatus

Next == User \/ InformerReceives \/ DelayExpires \/ Begin \/ Working \/ CrashRestart

Spec == Init /\ [][Next]_vars

(* The process runs; nothing is assumed of users or of the worker. *)
Fairness == /\ WF_vars(InformerReceives) /\ WF_vars(DelayExpires)
            /\ WF_vars(Begin) /\ WF_vars(Working)

FairSpec == Spec /\ Fairness
-----------------------------------------------------------------------------
(* Correctness.  A Worker whose Instance is missing when it is reconciled is
   dropped, hence the first condition of the three properties that follow. *)

Followed == [](instance # "missing") /\ <>[](Live(api) /\ instance = "ready")

(* "land: gracefully drain and land the worker": a worker that is to be landed
   does not stay in service, although the call may fail, the process may stop,
   and the worker may come back after it has landed once. *)
EventuallyLanded ==
  Followed /\ <>[](api.spec \in {"land", "retire"} /\ atc # "unlisted")
    => <>[](atc \in {"landing", "landed"})

(* "prune: forcibly remove the worker": a worker that is to be pruned and has
   stopped running is removed, also if it was running when it was asked for. *)
EventuallyPruned ==
  Followed /\ <>[](api.spec = "prune" /\ atc # "running") => <>[](atc = "unlisted")

(* The status follows the worker as long as Concourse lists it; no event
   announces its changes. *)
EventuallyShown ==
  Followed /\ <>[](atc # "unlisted") =>
    <>[](/\ api.actual = atc /\ (api.stalled = "Stalled" <=> atc = "stalled")
         /\ api.observed = api.gen /\ api.ready = "Ready")

(* A Worker that is gone is left alone: polling ends. *)
PollingEnds == <>[](~Exists(api)) => <>[](pc = "idle" /\ wq = "none")
=============================================================================
