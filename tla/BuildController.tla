--------------------------- MODULE BuildController ---------------------------
(***************************************************************************)
(* BuildReconciler (src/internal/controller/build_controller.go): a Build  *)
(* custom resource triggers one Concourse build, follows it, aborts it on  *)
(* request and records its outcome.                                        *)
(*                                                                         *)
(* One reconcile is a sequence of calls, each of them a step here, because *)
(* between any two of them users edit the resource, the informer moves on, *)
(* watcher goroutines run, Concourse makes progress and the process may    *)
(* crash.  The controller has one worker (MaxConcurrentReconciles is 1).   *)
(***************************************************************************)
EXTENDS KubeAPI, FiniteSets

CONSTANTS
  Builds,       \* names of Build resources
  Specs,        \* the specs users write: whether jobRef is set, whether abort is
  ChainStates,  \* what the Job and its ancestors may look like to the resolver
  Outcomes,     \* the terminal phases Concourse may report
  ChanCap,      \* capacity of eventCh (64 in the code)
  MaxEdits,     \* bound: steps of users on Builds and on the chain
  MaxFaults,    \* bound: failed calls and crashes
  MaxStale      \* bound: reconciles begun from an informer that lags behind

Terminal == {"succeeded", "failed", "errored", "aborted"}

Chains == {"noJob", "notReady", "ready"}

ASSUME BuildsAssumption == Builds # {}
ASSUME SpecsAssumption == Specs \subseteq [jobRef: BOOLEAN, abort: BOOLEAN]
ASSUME ChainAssumption == ChainStates \subseteq Chains /\ ChainStates # {}
ASSUME OutcomesAssumption == Outcomes \subseteq Terminal
ASSUME ChanCapAssumption == ChanCap \in Nat \ {0}
ASSUME BoundsAssumption == MaxEdits \in Nat /\ MaxFaults \in Nat /\ MaxStale \in Nat

VARIABLES
  api,        \* API server: each Build as it is
  stream,     \* API server: the versions on their way to the informer
  store,      \* informer: each Build as its store holds it
  chain,      \* what r.Get and resolveClientForJob find
  atc,        \* Concourse: the builds it was asked to run; the ID is the index
  abortSent,  \* Concourse: the IDs AbortBuild was called for
  wq,         \* the controller's work queue
  pc,         \* the worker: the call it makes next
  rc,         \* the worker: its request and its copy of the Build
  watchers,   \* the keys of the sync.Map r.watchers
  gor,        \* the goroutines running watchBuildEvents
  eventCh,    \* r.eventCh
  dropped,    \* history: the Builds whose last reconcile found no Job
  edits, faults, stale

kube == <<api, stream, chain, edits>>
concourse == <<atc, abortSent>>
reads == <<stale, dropped>>
worker == <<pc, rc, reads>>
watching == <<watchers, gor>>
vars == <<api, stream, store, chain, atc, abortSent, wq, pc, rc, watchers,
          gor, eventCh, dropped, edits, faults, stale>>
-----------------------------------------------------------------------------
(* Data. *)

Running == {"pending", "started"}
Phases == {"none"} \cup Running \cup Terminal

isTerminal(phase) == phase \in Terminal

(* How far a phase is along the life of a Concourse build. *)
Rank(phase) == CASE phase = "none" -> 0
                 [] phase = "pending" -> 1
                 [] phase = "started" -> 2
                 [] OTHER -> 3

(* A version of a Build: uid tells incarnations of one name apart, gen is
   metadata.generation, ready and complete the reasons of the two conditions. *)
Version ==
  [state: States, rv: Nat, uid: Nat, gen: Nat, spec: [jobRef: BOOLEAN, abort: BOOLEAN],
   observed: Nat, buildID: Nat, phase: Phases,
   ready: {"none", "NoJobRef", "ChainNotReady", "TriggerFailed", "Tracked"},
   complete: {"none", "Pending", "InProgress"} \cup Terminal]

NewBuild(rv, uid, spec) ==
  [state |-> "live", rv |-> rv, uid |-> uid, gen |-> 1, spec |-> spec, observed |-> 0,
   buildID |-> 0, phase |-> "none", ready |-> "none", complete |-> "none"]

(* A build of Concourse; name and uid say on whose behalf it was triggered. *)
Run == [name: Builds, uid: Nat, status: Running \cup Terminal]

NoBuild == [NewBuild(0, 0, [jobRef |-> FALSE, abort |-> FALSE]) EXCEPT !.state = "gone"]

NoRequest == [name |-> CHOOSE b \in Builds : TRUE, obj |-> NoBuild, again |-> FALSE]

Request == [name: Builds, obj: Version, again: BOOLEAN]

Watcher == [name: Builds, id: Nat, at: {"open", "stream", "send", "exit"}]

Steps == {"idle", "report", "trigger", "abort", "refresh", "update", "watch"}

TypeOK ==
  /\ api \in [Builds -> Version]
  /\ stream \in [Builds -> Seq(Version)]
  /\ store \in [Builds -> Version]
  /\ chain \in ChainStates
  /\ atc \in Seq(Run)
  /\ abortSent \subseteq Nat
  /\ wq \in [Builds -> QueueStates]
  /\ pc \in Steps
  /\ rc \in Request
  /\ watchers \subseteq Builds
  /\ gor \subseteq Watcher
  /\ eventCh \in Seq(Builds) /\ Len(eventCh) <= ChanCap
  /\ dropped \subseteq Builds
  /\ edits \in 0..MaxEdits /\ faults \in 0..MaxFaults /\ stale \in 0..MaxStale

Init ==
  /\ api = [b \in Builds |-> NoBuild]
  /\ stream = [b \in Builds |-> <<>>]
  /\ store = [b \in Builds |-> NoBuild]
  /\ chain \in ChainStates
  /\ atc = <<>> /\ abortSent = {}
  /\ wq = [b \in Builds |-> "none"]
  /\ pc = "idle" /\ rc = NoRequest
  /\ watchers = {} /\ gor = {} /\ eventCh = <<>>
  /\ dropped = {} /\ edits = 0 /\ faults = 0 /\ stale = 0
-----------------------------------------------------------------------------
(* Users, the API server and the informer. *)

Edit == edits < MaxEdits /\ edits' = edits + 1

Fault == faults < MaxFaults /\ faults' = faults + 1

Replace(b, obj) ==
  /\ api' = [api EXCEPT ![b] = obj]
  /\ stream' = [stream EXCEPT ![b] = Published(@, api[b], obj)]

CreateBuild(b) ==
  /\ Edit /\ ~Exists(api[b])
  /\ \E spec \in Specs : Replace(b, NewBuild(api[b].rv + 1, api[b].uid + 1, spec))
  /\ UNCHANGED <<chain, store, concourse, wq, worker, watching, eventCh, faults>>

(* Any change of the spec: jobRef set or dropped, abort set or reset. *)
EditBuild(b) ==
  /\ Edit /\ Live(api[b])
  /\ \E spec \in Specs \ {api[b].spec} :
       Replace(b, NextVersion([api[b] EXCEPT !.gen = @ + 1, !.spec = spec]))
  /\ UNCHANGED <<chain, store, concourse, wq, worker, watching, eventCh, faults>>

(* A write of labels or annotations: a new version of the same generation. *)
AnnotateBuild(b) ==
  /\ Edit /\ Exists(api[b])
  /\ Replace(b, NextVersion(api[b]))
  /\ UNCHANGED <<chain, store, concourse, wq, worker, watching, eventCh, faults>>

(* A Build has no finalizer of this operator: a deletion removes it at once,
   or leaves it "deleting" while a finalizer of somebody else holds it. *)
DeleteBuild(b) ==
  /\ Edit /\ Exists(api[b])
  /\ \E state \in {"deleting", "gone"} \ {api[b].state} :
       Replace(b, NextVersion([api[b] EXCEPT !.state = state]))
  /\ UNCHANGED <<chain, store, concourse, wq, worker, watching, eventCh, faults>>

ChainChanges ==
  /\ Edit
  /\ \E c \in ChainStates \ {chain} : chain' = c
  /\ UNCHANGED <<api, stream, store, concourse, wq, worker, watching, eventCh, faults>>

(* The informer takes the next version into its store and enqueues the key. *)
InformerReceives(b) ==
  /\ stream[b] # <<>>
  /\ store' = [store EXCEPT ![b] = Head(stream[b])]
  /\ stream' = [stream EXCEPT ![b] = Tail(@)]
  /\ wq' = [wq EXCEPT ![b] = "ready"]
  /\ UNCHANGED <<api, chain, edits, concourse, worker, watching, eventCh, faults>>

(* The informer's periodic resync (every ten hours unless configured, which
   main.go does not do) enqueues what the store holds. *)
Resync(b) ==
  /\ Exists(store[b]) /\ wq[b] # "ready"
  /\ wq' = [wq EXCEPT ![b] = "ready"]
  /\ UNCHANGED <<kube, store, concourse, worker, watching, eventCh, faults>>

DelayExpires(b) ==
  /\ wq[b] = "waiting"
  /\ wq' = [wq EXCEPT ![b] = "ready"]
  /\ UNCHANGED <<kube, store, concourse, worker, watching, eventCh, faults>>

(* source.Channel takes an event off eventCh and enqueues its object. *)
ChannelSource ==
  /\ eventCh # <<>>
  /\ wq' = [wq EXCEPT ![Head(eventCh)] = "ready"]
  /\ eventCh' = Tail(eventCh)
  /\ UNCHANGED <<kube, store, concourse, worker, watching, faults>>
-----------------------------------------------------------------------------
(* The end of a reconcile. *)

Idle == pc' = "idle" /\ rc' = NoRequest

Done == Idle /\ UNCHANGED wq

RequeueAfter == Idle /\ wq' = [wq EXCEPT ![rc.name] = AddAfter(@)]

(* Mutant: the error is logged and the reconcile ends as if it had succeeded. *)
ErrorSwallowed == Done

(* A returned error: the rate limiter delays the item as RequeueAfter does. *)
ReturnError == RequeueAfter
-----------------------------------------------------------------------------
(* Reconcile, call by call. *)

(* Mutant: abort is looked at only in the reconcile that triggers the build. *)
AbortOnlyWhenTriggering(obj) ==
  IF obj.state # "live" \/ isTerminal(obj.phase) THEN "idle"
  ELSE IF ~obj.spec.jobRef THEN "report"
  ELSE IF chain = "noJob" THEN "idle"
  ELSE IF chain = "notReady" THEN "report"
  ELSE IF obj.buildID = 0 THEN "trigger" ELSE "refresh"

(* Which call follows the reads of the Build, the Job and the chain; "idle"
   is an early return with neither an error nor a requeue. *)
FirstCall(obj) ==
  IF obj.state # "live" \/ isTerminal(obj.phase) THEN "idle"
  ELSE IF ~obj.spec.jobRef THEN "report"
  ELSE IF chain = "noJob" THEN "idle"
  ELSE IF chain = "notReady" THEN "report"
  ELSE IF obj.buildID = 0 THEN "trigger" ELSE "abort"

(* The return for a missing Job: no error, no requeue, and Jobs are not watched. *)
JobMissing(obj) == Live(obj) /\ ~isTerminal(obj.phase) /\ obj.spec.jobRef /\ chain = "noJob"

NotReadyReason(obj) == IF obj.spec.jobRef THEN "ChainNotReady" ELSE "NoJobRef"

(* The worker takes the key and reads the Build and the chain from the
   informers' stores.  A missing Build ends the reconcile as well. *)
Begin(b) ==
  /\ pc = "idle" /\ wq[b] = "ready"
  /\ \/ stream[b] = <<>> /\ UNCHANGED stale
     \/ stream[b] # <<>> /\ stale < MaxStale /\ stale' = stale + 1
  /\ dropped' = IF JobMissing(store[b]) THEN dropped \cup {b} ELSE dropped \ {b}
  /\ wq' = [wq EXCEPT ![b] = "none"]
  /\ LET obj == store[b]
         call == FirstCall(obj)
     IN  /\ pc' = call
         /\ rc' = IF call = "idle" THEN NoRequest
                  ELSE [name |-> b, again |-> obj.spec.jobRef,
                        obj |-> IF call = "report" THEN [obj EXCEPT !.ready = NotReadyReason(obj)]
                                                   ELSE obj]
  /\ UNCHANGED <<kube, store, concourse, watching, eventCh, faults>>

(* Mutant: a write that ignores the resourceVersion. *)
AnyVersionAccepted == Exists(api[rc.name])

(* Status().Update with the worker's copy of the Build: accepted or refused. *)
Accepted == Accepts(api[rc.name], rc.obj)

WriteStatus == Replace(rc.name, Written(api[rc.name], rc.obj))

(* The write of a Ready=False condition: its error, if any, is dropped. *)
Report ==
  /\ pc = "report"
  /\ \/ Accepted /\ WriteStatus /\ UNCHANGED faults
     \/ ~Accepted /\ UNCHANGED <<api, stream, faults>>
     \/ Fault /\ UNCHANGED <<api, stream>>
  /\ IF rc.again THEN RequeueAfter ELSE Done
  /\ UNCHANGED <<chain, edits, store, concourse, reads, watching, eventCh>>

(* CreateJobBuild.  A failed call may have started the build all the same. *)
Trigger ==
  LET run == [name |-> rc.name, uid |-> rc.obj.uid, status |-> "pending"]
  IN  /\ pc = "trigger"
      /\ \/ /\ atc' = Append(atc, run)
            /\ rc' = [rc EXCEPT !.obj.buildID = Len(atc) + 1]
            /\ pc' = "abort"
            /\ UNCHANGED faults
         \/ /\ Fault
            /\ atc' \in {atc, Append(atc, run)}
            /\ rc' = [rc EXCEPT !.obj.ready = "TriggerFailed"]
            /\ pc' = "report"
      /\ UNCHANGED <<kube, store, abortSent, wq, reads, watching, eventCh>>

(* AbortBuild, on request; its error is only logged. *)
AbortBuild ==
  /\ pc = "abort"
  /\ \/ rc.obj.spec.abort /\ abortSent' = abortSent \cup {rc.obj.buildID} /\ UNCHANGED faults
     \/ rc.obj.spec.abort /\ Fault /\ UNCHANGED abortSent
     \/ ~rc.obj.spec.abort /\ UNCHANGED <<abortSent, faults>>
  /\ pc' = "refresh"
  /\ UNCHANGED <<kube, store, atc, wq, rc, reads, watching, eventCh>>

CompleteReason(phase, id) ==
  IF isTerminal(phase) THEN phase ELSE IF id # 0 THEN "InProgress" ELSE "Pending"

(* cl.Build, and the status it leads to.  On an error, or when Concourse does
   not find the build, the phase stays as it was read. *)
Refresh ==
  /\ pc = "refresh"
  /\ \E phase \in {atc[rc.obj.buildID].status, rc.obj.phase} :
       /\ \/ phase = atc[rc.obj.buildID].status /\ UNCHANGED faults
          \/ phase = rc.obj.phase /\ Fault
       /\ rc' = [rc EXCEPT !.obj.phase = phase,
                           !.obj.complete = CompleteReason(phase, rc.obj.buildID),
                           !.obj.observed = rc.obj.gen,
                           !.obj.ready = "Tracked"]
  /\ pc' = "update"
  /\ UNCHANGED <<kube, store, concourse, wq, reads, watching, eventCh>>

(* Status().Update.  A conflict and a failed call return an error; a failed
   call may have written the status all the same. *)
UpdateStatus ==
  /\ pc = "update"
  /\ \/ /\ Accepted /\ WriteStatus
        /\ \/ /\ IF isTerminal(rc.obj.phase) THEN Done
                 ELSE pc' = "watch" /\ UNCHANGED <<rc, wq>>
              /\ UNCHANGED faults
           \/ Fault /\ ReturnError
     \/ ~Accepted /\ ReturnError /\ UNCHANGED <<api, stream, faults>>
     \/ Fault /\ ReturnError /\ UNCHANGED <<api, stream>>
  /\ UNCHANGED <<chain, edits, store, concourse, reads, watching, eventCh>>

(* Mutant: the event stream is trusted to end the wait, there is no poll. *)
WatcherInsteadOfPoll ==
  /\ pc = "watch"
  /\ watchers' = watchers \cup {rc.name}
  /\ gor' = IF rc.name \in watchers THEN gor
            ELSE gor \cup {[name |-> rc.name, id |-> rc.obj.buildID, at |-> "open"]}
  /\ Done
  /\ UNCHANGED <<kube, store, concourse, reads, eventCh, faults>>

(* LoadOrStore of the sentinel, and a goroutine if it was not there. *)
StartWatcher ==
  /\ pc = "watch"
  /\ watchers' = watchers \cup {rc.name}
  /\ gor' = IF rc.name \in watchers THEN gor
            ELSE gor \cup {[name |-> rc.name, id |-> rc.obj.buildID, at |-> "open"]}
  /\ RequeueAfter
  /\ UNCHANGED <<kube, store, concourse, reads, eventCh, faults>>
-----------------------------------------------------------------------------
(* watchBuildEvents, one goroutine. *)

Move(w, step) == gor' = (gor \ {w}) \cup {[w EXCEPT !.at = step]}

OpenStream(w) ==
  /\ w.at = "open"
  /\ \/ Move(w, "stream") /\ UNCHANGED faults
     \/ Move(w, "send") /\ Fault
  /\ UNCHANGED <<kube, store, concourse, wq, worker, watchers, eventCh>>

(* NextEvent ends the loop on a terminal status event, and on EOF or an
   error, which the network may produce at any time. *)
StreamEnds(w) ==
  /\ w.at = "stream"
  /\ Move(w, "send")
  /\ UNCHANGED <<kube, store, concourse, wq, worker, watchers, eventCh, faults>>

(* Mutant: a send that does not wait for room in the channel. *)
EnqueueWithoutBlocking(w) ==
  /\ w.at = "send"
  /\ eventCh' = Append(eventCh, w.name)
  /\ Move(w, "exit")
  /\ UNCHANGED <<kube, store, concourse, wq, worker, watchers, faults>>

(* enqueue: the send blocks while the channel is full. *)
Enqueue(w) ==
  /\ w.at = "send" /\ Len(eventCh) < ChanCap
  /\ eventCh' = Append(eventCh, w.name)
  /\ Move(w, "exit")
  /\ UNCHANGED <<kube, store, concourse, wq, worker, watchers, faults>>

(* Mutant: the sentinel is left behind. *)
SentinelLeaks(w) ==
  /\ w.at = "exit"
  /\ gor' = gor \ {w}
  /\ UNCHANGED <<watchers, kube, store, concourse, wq, worker, eventCh, faults>>

(* The deferred Delete of the sentinel. *)
WatcherExits(w) ==
  /\ w.at = "exit"
  /\ gor' = gor \ {w}
  /\ watchers' = watchers \ {w.name}
  /\ UNCHANGED <<kube, store, concourse, wq, worker, eventCh, faults>>
-----------------------------------------------------------------------------
(* Concourse, and the process as a whole. *)

Finished(id) == id \in 1..Len(atc) /\ isTerminal(atc[id].status)

BuildProgresses(id) ==
  /\ \/ atc[id].status = "pending" /\ atc' = [atc EXCEPT ![id].status = "started"]
     \/ /\ ~Finished(id)
        /\ \E o \in Outcomes : atc' = [atc EXCEPT ![id].status = o]
  /\ UNCHANGED <<kube, store, abortSent, wq, worker, watching, eventCh, faults>>

(* The process dies and starts again, or another replica takes the lease: all
   of its memory is lost, and the new informers list and enqueue what exists. *)
CrashRestart ==
  /\ Fault
  /\ Idle
  /\ watchers' = {} /\ gor' = {} /\ eventCh' = <<>>
  /\ store' = api /\ stream' = [b \in Builds |-> <<>>]
  /\ wq' = [b \in Builds |-> IF Exists(api[b]) THEN "ready" ELSE "none"]
  /\ UNCHANGED <<api, chain, edits, concourse, reads>>
-----------------------------------------------------------------------------
User == \/ \E b \in Builds : CreateBuild(b) \/ EditBuild(b) \/ AnnotateBuild(b) \/ DeleteBuild(b)
        \/ ChainChanges

Queueing == \/ \E b \in Builds : InformerReceives(b) \/ Resync(b) \/ DelayExpires(b)
            \/ ChannelSource

Reconcile == \/ \E b \in Builds : Begin(b)
             \/ Report \/ Trigger \/ AbortBuild \/ Refresh \/ UpdateStatus \/ StartWatcher

Watch == \E w \in gor : OpenStream(w) \/ StreamEnds(w) \/ Enqueue(w) \/ WatcherExits(w)

Progress == \E id \in 1..Len(atc) : BuildProgresses(id)

Next == User \/ Queueing \/ Reconcile \/ Watch \/ Progress \/ CrashRestart

Spec == Init /\ [][Next]_vars
-----------------------------------------------------------------------------
(* Fairness.  The worker, the store, the delays, the channel source and the
   goroutines run as long as the process does, and goroutine sends are served
   in turn; the work queue is first in, first out, so a ready item is taken in
   spite of the others (SF).  An event stream ends once the build has ended.
   Nothing is assumed of users, of faults, of the resync, or of how long
   Concourse takes. *)
Fairness ==
  /\ \A b \in Builds :
       /\ WF_vars(InformerReceives(b)) /\ WF_vars(DelayExpires(b))
       /\ SF_vars(Begin(b))
       /\ WF_vars(\E w \in gor : w.name = b /\ (OpenStream(w) \/ WatcherExits(w)))
       /\ WF_vars(\E w \in gor : w.name = b /\ Finished(w.id) /\ StreamEnds(w))
       /\ SF_vars(\E w \in gor : w.name = b /\ Enqueue(w))
  /\ WF_vars(ChannelSource)
  /\ WF_vars(Report \/ Trigger \/ AbortBuild \/ Refresh \/ UpdateStatus \/ StartWatcher)

FairSpec == Spec /\ Fairness
-----------------------------------------------------------------------------
(* Correctness. *)

(* The Build is live, wants a job's build and its outcome is not yet recorded. *)
Wanted(b) == /\ Live(api[b])
             /\ api[b].spec.jobRef
             /\ ~isTerminal(api[b].phase)

(* A later reconcile of the Build is certain: it is queued, or an event of it
   is on its way to the queue. *)
Pending(b) == wq[b] # "none" \/ stream[b] # <<>>

(* A Build that still has something to be done is forgotten in one case only:
   its last reconcile found no Job, and returned with neither an error nor a
   requeue, where docs/architecture/dependency-chain.md:38 has a controller
   that misses an ancestor come back.  Whatever other return of Reconcile,
   conflict, lost answer or crash lies behind it, it is being reconciled or
   will be, without waiting for the resync: Reconcile returns Result{} in six
   places, and relies on an event in the five others. *)
NeverForgotten ==
  \A b \in Builds :
    Wanted(b) => Pending(b) \/ (pc # "idle" /\ rc.name = b) \/ b \in dropped

(* "The caller must ensure this runs at most once per Build CR": never two
   watchBuildEvents goroutines of one Build, and a goroutine for every sentinel
   in r.watchers, since a sentinel without one keeps the Build from ever being
   watched again. *)
OneWatcherPerBuild ==
  /\ \A v, w \in gor : v.name = w.name => v = w
  /\ watchers = {w.name : w \in gor}

(* The refinement mapping to BuildRecord. *)
NoRecord == [id |-> 0, phase |-> "absent"]

RecordOf(obj) == IF Exists(obj) THEN [id |-> obj.buildID, phase |-> obj.phase] ELSE NoRecord

Record == INSTANCE BuildRecord
            WITH runs <- atc, born <- [b \in Builds |-> api[b].uid],
                 rec <- [b \in Builds |-> RecordOf(api[b])], None <- NoRecord

(* The status of every Build is a record in the sense of BuildRecord: the run
   it names was triggered for this incarnation, it is never exchanged for
   another, the phase never goes back, and a terminal phase is the outcome of
   the run and final. *)
TruthfulRecord == Record!Spec

(* The invariant behind TruthfulRecord and NeverForgotten.  Every version of a
   Build, wherever it is kept, tells the truth about a run of its own
   incarnation; versions elsewhere are behind the current one or are it; and
   a reconcile that may still write works on the current version, apart from
   what it has found out itself. *)
Truthful(v, b, runs) ==
  /\ v.state # "gone" => v.uid > 0
  /\ v.buildID = 0 => v.phase = "none"
  /\ v.buildID # 0 =>
       /\ v.buildID \in 1..Len(runs)
       /\ runs[v.buildID].name = b /\ runs[v.buildID].uid = v.uid
       /\ Rank(v.phase) <= Rank(runs[v.buildID].status)
       /\ isTerminal(v.phase) => v.phase = runs[v.buildID].status

Behind(v, cur) == v.rv <= cur.rv /\ v.uid <= cur.uid /\ (v.rv = cur.rv => v = cur)

VersionInv ==
  \A b \in Builds :
    /\ Truthful(api[b], b, atc)
    /\ Truthful(store[b], b, atc) /\ Behind(store[b], api[b])
    /\ \A i \in 1..Len(stream[b]) :
         Truthful(stream[b][i], b, atc) /\ Behind(stream[b][i], api[b])
    /\ IF stream[b] = <<>> THEN store[b] = api[b] ELSE stream[b][Len(stream[b])] = api[b]

Agrees(obj, cur) ==
  /\ Live(cur) /\ cur.uid = obj.uid /\ cur.spec = obj.spec
  /\ ~isTerminal(cur.phase)
  /\ cur.buildID \in {0, obj.buildID}
  /\ Rank(cur.phase) <= Rank(obj.phase)

RequestInv ==
  pc # "idle" =>
    /\ Live(rc.obj) /\ Truthful(rc.obj, rc.name, atc)
    /\ rc.obj.rv <= api[rc.name].rv /\ rc.obj.uid <= api[rc.name].uid
    /\ rc.again = rc.obj.spec.jobRef
    /\ pc = "trigger" => rc.obj.buildID = 0
    /\ pc \in {"abort", "refresh", "update", "watch"} => rc.obj.buildID # 0
    /\ pc \in {"report", "trigger", "abort", "refresh"} => ~isTerminal(rc.obj.phase)
    /\ pc # "watch" /\ rc.obj.rv = api[rc.name].rv => Agrees(rc.obj, api[rc.name])

RecordInv == VersionInv /\ RequestInv

(* The operator's turn: the run is still to be started, or its end recorded. *)
Due(b) == Wanted(b) /\ (api[b].buildID = 0 \/ Finished(api[b].buildID))

(* Once the chain stays ready, no Build waits for the operator forever: the run
   it wants is started, and its end is recorded, whether the event stream told
   the operator of it or the 30 second poll did.  A Build dropped for want of
   its Job may wait until something else reconciles it. *)
EventuallyServed ==
  <>[](chain = "ready") => \A b \in Builds : Due(b) ~> ~Due(b) \/ b \in dropped

(* An abort request that stays in the spec is delivered, unless the build ends
   first or the Build is dropped for want of its Job. *)
EventuallyAborted ==
  \A b \in Builds :
    <>[](chain = "ready" /\ Wanted(b) /\ api[b].spec.abort /\ b \notin dropped) =>
      <>(api[b].buildID \in abortSent)

(* "Trigger build if not yet started": no Build starts two runs. *)
AtMostOneTrigger ==
  \A i, j \in 1..Len(atc) :
    atc[i].name = atc[j].name /\ atc[i].uid = atc[j].uid => i = j
=============================================================================
