------------------------- MODULE ResourceController -------------------------
(***************************************************************************)
(* ResourceReconciler (src/internal/controller/resource_controller.go): a  *)
(* Resource has a resource of Concourse checked at an interval, and shows  *)
(* the time of the last check and the latest version.                      *)
(*                                                                         *)
(* This module has a clock, and delays that expire by it: what counts here *)
(* is when checks happen.  Informer and worker are prompt, the clock does  *)
(* not move while either has something to do; within a tick their steps,   *)
(* those of users and faults still come in any order.                      *)
(***************************************************************************)
EXTENDS Naturals, Sequences

CONSTANTS
  Specs,       \* the values of checkInterval users write
  Pipelines,   \* what the controller may find its Pipeline to be
  Poll,        \* RequeueAfter without checkInterval (5 minutes)
  Retry,       \* RequeueAfter while the chain is not ready (30 seconds)
  Sec,         \* ticks in a second
  MaxEdits, MaxFaults, MaxCrashes,
  MaxTime      \* bound: the clock

(* A value that may be missing, as behind a Go pointer, is a set of at most one
   element.  0 stands for every interval that is not positive. *)
Optional(S) == {{}} \cup {{x} : x \in S}

(* "missing": there is no such Pipeline.  The others but "ready" are the reasons
   the controller reports. *)
Found == {"missing", "PipelineNotReady", "ChainNotReady", "ready"}

ASSUME SpecsAssumption ==
  Specs # {} /\ \A s \in Specs : s \subseteq Nat /\ \A i, j \in s : i = j
ASSUME PipelinesAssumption == Pipelines # {} /\ Pipelines \subseteq Found
ASSUME DelaysAssumption == Poll \in Nat \ {0} /\ Retry \in Nat \ {0} /\ Sec \in Nat \ {0}
ASSUME BoundsAssumption ==
  MaxEdits \in Nat /\ MaxFaults \in Nat /\ MaxCrashes \in Nat /\ MaxTime \in Nat

VARIABLES
  api, stream, store, wq, pc, rc, edits, faults, crashes,  \* see Reconciler
  pipeline,     \* the Pipeline and its chain as the informers have them
  known,        \* Concourse: the pipeline has the resource
  latest,       \* Concourse: its latest version, 0 if there is none
  now, due,     \* the clock, and when a waiting key is due
  asked,        \* history: when Concourse was last asked for a check
  started,      \* history: when Concourse last started one
  since,        \* history: the last step of users, of others, or of a fault
  dropped       \* history: the last reconcile found no Pipeline

(* health and ready are the reasons of the conditions CheckHealthy and Ready. *)
NewResource(rv, interval) ==
  [state |-> "live", rv |-> rv, gen |-> 1, spec |-> interval, observed |-> 0,
   lastChecked |-> {}, latest |-> 0, health |-> "none", ready |-> "none"]

NoResource == [NewResource(0, CHOOSE s \in Specs : TRUE) EXCEPT !.state = "gone"]

INSTANCE Reconciler WITH NoObject <- NoResource

concourse == <<known, latest, asked, started>>
vars == <<api, stream, store, wq, pc, rc, edits, faults, crashes,
          pipeline, known, latest, now, due, asked, started, since, dropped>>
-----------------------------------------------------------------------------
Time == 0..MaxTime

Version ==
  [state: States, rv: Nat, gen: Nat, spec: Specs, observed: Nat,
   lastChecked: Optional(Time), latest: Nat,
   health: {"none", "CheckFailed", "CheckSucceeded", "CheckPending"},
   ready: {"none", "PipelineNotReady", "ChainNotReady", "Ready"}]

TypeOK ==
  /\ FrameOK(Version, {"report", "check", "fetch", "update"})
  /\ pipeline \in Pipelines /\ known \in BOOLEAN /\ latest \in Nat
  /\ now \in Time /\ due \in Nat /\ asked \in Optional(Time) /\ started \in Optional(Time)
  /\ since \in Time /\ dropped \in BOOLEAN

Init ==
  /\ FrameInit
  /\ pipeline \in Pipelines /\ known \in BOOLEAN /\ latest = 0 /\ now = 0 /\ due = 0
  /\ asked = {} /\ started = {} /\ since = 0 /\ dropped = FALSE
-----------------------------------------------------------------------------
(* Users, others, the informer and the clock. *)

Disturb == since' = now

CreateResource ==
  /\ ~Exists(api) /\ Disturb
  /\ \E interval \in Specs : Submit(NewResource(api.rv + 1, interval))
  /\ UNCHANGED <<pipeline, concourse, now, due, dropped>>

EditResource ==
  /\ Live(api) /\ Disturb
  /\ \E interval \in Specs \ {api.spec} : Submit(Respecified(interval))
  /\ UNCHANGED <<pipeline, concourse, now, due, dropped>>

(* A write of labels or annotations, which is no change of the spec. *)
AnnotateResource ==
  /\ Annotate /\ Disturb
  /\ UNCHANGED <<pipeline, concourse, now, due, dropped>>

(* A Resource has no finalizer of this operator; others may hold it. *)
DeleteResource ==
  /\ Exists(api) /\ Disturb
  /\ \E state \in {"deleting", "gone"} \ {api.state} : Submit(NextVersion([api EXCEPT !.state = state]))
  /\ UNCHANGED <<pipeline, concourse, now, due, dropped>>

(* The controller does not watch Pipelines. *)
PipelineChanges ==
  /\ Elsewhere /\ Disturb
  /\ \E p \in Pipelines \ {pipeline} : pipeline' = p
  /\ UNCHANGED <<concourse, now, due, dropped>>

(* A new configuration of the pipeline drops the resource, or brings it. *)
PipelineReset ==
  /\ Elsewhere /\ Disturb
  /\ known' = ~known
  /\ UNCHANGED <<pipeline, latest, asked, started, now, due, dropped>>

VersionAppears ==
  /\ Elsewhere /\ Disturb
  /\ latest' = latest + 1
  /\ UNCHANGED <<pipeline, known, asked, started, now, due, dropped>>

InformerReceives ==
  /\ Receive /\ due' = 0
  /\ UNCHANGED <<pipeline, concourse, now, since, dropped>>

DelayExpires ==
  /\ due <= now
  /\ Expire /\ due' = 0
  /\ UNCHANGED <<pipeline, concourse, now, since, dropped>>

Tick ==
  /\ now < MaxTime /\ now' = now + 1
  /\ pc = "idle" /\ stream = <<>> /\ (wq = "none" \/ (wq = "waiting" /\ now < due))
  /\ UNCHANGED <<api, stream, store, wq, pc, rc, edits, faults, crashes, pipeline, concourse,
                 due, since, dropped>>
-----------------------------------------------------------------------------
(* Reconcile, call by call. *)

(* A result with the delay d; one that is not positive is no requeue. *)
RequeueIn(d) ==
  /\ Idle
  /\ IF d > 0 THEN wq' = AddAfter(wq) /\ due' = (IF wq = "ready" THEN 0 ELSE now + d)
     ELSE UNCHANGED <<wq, due>>

(* An error: the first delays of the rate limiter are far below a tick. *)
Fails == ReturnError /\ due' = 0

(* Mutant: a check is due when the interval is over, off by one. *)
CheckIsOverdue(obj) == \E i \in obj.spec : \A t \in obj.lastChecked : now - t > i

(* Mutant: the time of the last check is not looked at. *)
AlwaysCheck(obj) == obj.spec # {}

shouldCheck(obj) == \E i \in obj.spec : \A t \in obj.lastChecked : now - t >= i

FirstCall(obj) ==
  IF ~Live(obj) \/ pipeline = "missing" THEN "idle"
  ELSE IF pipeline # "ready" THEN "report"
  ELSE IF shouldCheck(obj) THEN "check" ELSE "fetch"

(* Mutant: the condition is set before it is known to be false. *)
CopyNotReady(obj) == [obj EXCEPT !.ready = pipeline]

(* The copy, with the condition that the reads decide. *)
Copy(obj) ==
  IF pipeline # "ready" THEN [obj EXCEPT !.ready = pipeline]
  ELSE IF ~shouldCheck(obj) /\ obj.lastChecked = {} THEN [obj EXCEPT !.health = "CheckPending"]
  ELSE obj

Begin ==
  /\ Take(FirstCall(store), Copy(store))
  /\ dropped' = (Live(store) /\ pipeline = "missing")
  /\ UNCHANGED <<pipeline, concourse, now, due, since>>

(* A time in the status, as metav1.Time is written: in whole seconds. *)
Truncated(t) == t - (t % Sec)

(* CheckResource arrives.  Concourse starts a check if it has the resource. *)
Ask == asked' = {now} /\ started' = IF known THEN {now} ELSE started

(* CheckResource.  The answer that there is no such resource is taken for a check
   that was made.  A failed call may have been carried out. *)
Check ==
  /\ Call("check", "fetch")
  /\ \/ /\ rc' = [rc EXCEPT !.lastChecked = {Truncated(now)}, !.health = "CheckSucceeded"]
        /\ Ask /\ UNCHANGED <<faults, since>>
     \/ /\ rc' = [rc EXCEPT !.health = "CheckFailed"]
        /\ Fault /\ Disturb /\ (Ask \/ UNCHANGED <<asked, started>>)
  /\ UNCHANGED <<pipeline, known, latest, now, due, dropped>>

(* What Concourse says of the latest version: nothing of an unknown resource. *)
LatestFound == IF known THEN latest ELSE 0

(* found is 0 if there is no version. *)
fetchLatestVersion(obj, found) == [obj EXCEPT !.latest = IF found = 0 THEN @ ELSE found]

(* fetchLatestVersion, whose error is logged, and the rest of the status. *)
Fetch ==
  /\ Call("fetch", "update")
  /\ \E found \in {LatestFound, 0} :
       /\ IF found = LatestFound THEN UNCHANGED <<faults, since>> ELSE Fault /\ Disturb
       /\ rc' = [fetchLatestVersion(rc, found) EXCEPT !.observed = rc.gen, !.ready = "Ready"]
  /\ UNCHANGED <<pipeline, concourse, now, due, dropped>>

(* Mutant: the interval is left out of the delay. *)
PollOnly(spec) == Poll

requeueAfter(spec) == IF spec = {} THEN Poll ELSE CHOOSE i \in spec : TRUE

UpdateStatus ==
  /\ pc = "update"
  /\ \/ /\ Write(Written(api, rc))
        /\ \/ RequeueIn(requeueAfter(rc.spec)) /\ UNCHANGED <<faults, since>>
           \/ Fault /\ Disturb /\ Fails
     \/ ~Accepted /\ Fails /\ UNCHANGED <<api, stream, faults, since>>
     \/ Fault /\ Disturb /\ Fails /\ UNCHANGED <<api, stream>>
  /\ UNCHANGED <<store, edits, crashes, pipeline, concourse, now, dropped>>

(* Ready=False is written; an error of the write is ignored. *)
Report ==
  /\ pc = "report"
  /\ \/ Write(Written(api, rc)) /\ UNCHANGED <<faults, since>>
     \/ ~Accepted /\ UNCHANGED <<api, stream, faults, since>>
     \/ Fault /\ Disturb /\ UNCHANGED <<api, stream>>
  /\ RequeueIn(Retry)
  /\ UNCHANGED <<store, edits, crashes, pipeline, concourse, now, dropped>>

CrashRestart ==
  /\ Restart /\ Disturb /\ due' = 0
  /\ UNCHANGED <<pipeline, concourse, now, dropped>>
-----------------------------------------------------------------------------
User == \/ CreateResource \/ EditResource \/ AnnotateResource \/ DeleteResource
        \/ PipelineChanges \/ PipelineReset \/ VersionAppears

Working == Report \/ Check \/ Fetch \/ UpdateStatus

Next == User \/ InformerReceives \/ DelayExpires \/ Tick \/ Begin \/ Working \/ CrashRestart

Spec == Init /\ [][Next]_vars
-----------------------------------------------------------------------------
(* Correctness. *)

(* The Resource is live, its chain ready, and it has not been dropped for want
   of its Pipeline: then, though "the child controller requeues with an
   exponential backoff" (docs/architecture/dependency-chain.md:38), no event would
   bring it back. *)
Followed == Live(api) /\ pipeline = "ready" /\ ~dropped

(* "CheckInterval triggers a Concourse resource check at this interval": while
   nothing else happens Concourse starts a check every interval; after a change or
   a fault, one interval and the delay of a retry later.  An interval that is not
   positive promises nothing: the code does not requeue.  Nor is there a check of
   a resource that Concourse does not have, although the status goes on to say
   CheckSucceeded with "the timestamp of the last resource check"
   (resource_types.go:52). *)
CheckedInTime ==
  Followed /\ known => \A i \in api.spec \ {0} :
    (\E t \in started : now - t <= i) \/ now - since <= i + Retry

(* Nor is there a call before the interval is over, although the record of a check
   wakes the controller again: a call too many has a change, a lost answer, a
   failed check or a restart after the one before.  The record has whole seconds,
   so the interval may be short by less than one: an interval below a second
   promises nothing. *)
NotTooOften ==
  pc = "check" => \A t \in asked, i \in rc.spec : now - t + Sec > i \/ since >= t

(* Without checks or with them, status and latest version are up to date one
   polling period after the last change or fault; of a resource that Concourse
   does not have, the version last seen stays. *)
CurrentInTime ==
  Followed /\ api.spec # {0} =>
    \/ (known => api.latest = latest) /\ api.observed = api.gen /\ api.ready = "Ready"
    \/ \E d \in {Retry} \cup (IF api.spec = {} THEN {Poll} ELSE api.spec) : now - since <= d

(* No write takes back the record of a later check or generation. *)
StatusNeverGoesBack ==
  [][Exists(api) /\ Exists(api)' =>
       /\ api'.observed >= api.observed
       /\ \A t \in api.lastChecked : \E u \in api'.lastChecked : u >= t]_vars
=============================================================================
