---------------------- MODULE ResourceController_proofs ----------------------
(* Theorems about ResourceController, for any intervals, any delays and any   *)
(* budget of edits, faults, crashes and time.                                 *)
EXTENDS ResourceController, KubeAPI_proofs

(* Type correctness. *)

(* What may be missing has at most one value. *)
LEMMA OptionalFields ==
  ASSUME NEW S, NEW o \in Optional(S)
  PROVE  o \subseteq S /\ (o = {} \/ \E x \in S : o = {x}) /\ \A x, y \in o : x = y
BY DEF Optional

(* A time that is there is one of the clock's. *)
LEMMA OptionalTime == {} \in Optional(Time) /\ \A t \in Time : {t} \in Optional(Time)
BY DEF Optional

(* The clock shows natural numbers. *)
LEMMA TimeNat == Time \subseteq Nat /\ 0 \in Time
BY BoundsAssumption DEF Time

(* A time in whole seconds lies less than a second before the time itself. *)
LEMMA TruncatedFields ==
  ASSUME NEW t \in Nat
  PROVE  /\ Truncated(t) \in Nat /\ Truncated(t) <= t /\ t < Truncated(t) + Sec
         /\ \A u \in Nat : t <= u => Truncated(t) <= Truncated(u)
         /\ t \in Time => Truncated(t) \in Time
<1>1. Truncated(t) \in Nat /\ Truncated(t) <= t /\ t < Truncated(t) + Sec
  BY DelaysAssumption DEF Truncated
<1>2. \A u \in Nat : t <= u => Truncated(t) <= Truncated(u)
  BY DelaysAssumption DEF Truncated
<1> QED BY <1>1, <1>2, BoundsAssumption DEF Time

(* The Resource that was never created is a well-formed version. *)
LEMMA NoResourceType ==
  /\ NoResource \in Version /\ ~Exists(NoResource) /\ ~Live(NoResource)
  /\ NoResource.observed = 0 /\ NoResource.gen = 1 /\ NoResource.latest = 0 /\ NoResource.lastChecked = {}
<1>1. (CHOOSE s \in Specs : TRUE) \in Specs
  BY SpecsAssumption
<1>2. NoResource \in Version
  BY <1>1, OptionalTime DEF NoResource, NewResource, Version, States
<1> QED BY <1>2 DEF NoResource, NewResource, Exists, Live

(* The fields of a version, so that proofs need not expand it. *)
LEMMA VersionFields ==
  ASSUME NEW v \in Version
  PROVE  /\ v.state \in States /\ v.rv \in Nat /\ v.gen \in Nat /\ v.observed \in Nat /\ v.latest \in Nat
         /\ v.spec \in Specs /\ v.spec \subseteq Nat /\ \A i, j \in v.spec : i = j
         /\ v.lastChecked \in Optional(Time) /\ v.lastChecked \subseteq Time
         /\ \A t, u \in v.lastChecked : t = u
<1>1. v.spec \in Specs /\ v.lastChecked \in Optional(Time)
  BY DEF Version
<1> QED BY <1>1, OptionalFields, SpecsAssumption DEF Version

(* x says all that y says but the resourceVersion. *)
SameStatus(x, y) ==
  /\ x.spec = y.spec /\ x.gen = y.gen /\ x.observed = y.observed
  /\ x.lastChecked = y.lastChecked /\ x.latest = y.latest

(* A new resourceVersion is all that a write adds to the object written. *)
LEMMA NextVersionFields ==
  ASSUME NEW v \in Version
  PROVE  LET w == NextVersion(v)
         IN  /\ w \in Version /\ w.rv = v.rv + 1 /\ w.state = v.state /\ w.ready = v.ready
             /\ SameStatus(w, v)
BY DEF NextVersion, Version, SameStatus

(* The delay after a successful reconcile. *)
LEMMA DelayFields ==
  ASSUME NEW spec \in Specs
  PROVE  /\ requeueAfter(spec) \in Nat /\ (spec = {} => requeueAfter(spec) = Poll)
         /\ \A i \in spec : requeueAfter(spec) = i
         /\ requeueAfter(spec) = 0 => spec = {0}
<1>1. spec \subseteq Nat /\ \A i, j \in spec : i = j
  BY SpecsAssumption
<1>2. CASE spec = {}
  BY <1>2, DelaysAssumption DEF requeueAfter
<1>3. ASSUME NEW i \in spec PROVE requeueAfter(spec) = i /\ i \in Nat /\ spec = {i}
  BY <1>1, <1>3 DEF requeueAfter
<1> QED BY <1>2, <1>3

(* What users and others leave alone. *)
Reconciling == <<store, wq, pc, rc, asked, started, now, due, dropped>>

(* What a user's creation of a Resource brings about. *)
LEMMA CreateFields ==
  ASSUME TypeOK, CreateResource
  PROVE  /\ ~Exists(api) /\ api' \in Version /\ api'.rv = api.rv + 1 /\ Live(api')
         /\ api'.observed = 0 /\ api'.gen = 1 /\ api'.lastChecked = {} /\ api'.latest = 0
         /\ Replace(api') /\ since' = now /\ UNCHANGED <<Reconciling, pipeline, known, latest>>
<1>1. PICK interval \in Specs : Submit(NewResource(api.rv + 1, interval))
  BY DEF CreateResource
<1> DEFINE obj == NewResource(api.rv + 1, interval)
<1>2. api.rv + 1 \in Nat
  BY VersionFields DEF TypeOK, FrameOK
<1>3. /\ obj \in Version /\ obj.rv = api.rv + 1 /\ obj.state = "live"
      /\ obj.observed = 0 /\ obj.gen = 1 /\ obj.lastChecked = {} /\ obj.latest = 0
  BY <1>2, OptionalTime DEF NewResource, Version, States
<1>4. Submit(obj)
  BY <1>1
<1> HIDE DEF obj
<1> QED BY <1>3, <1>4 DEF CreateResource, Submit, Replace, Live, worker, concourse, Disturb, Reconciling

(* What an edit of the spec brings about. *)
LEMMA EditFields ==
  ASSUME TypeOK, EditResource
  PROVE  /\ Live(api) /\ api' \in Version /\ api'.rv = api.rv + 1 /\ api'.state = api.state
         /\ api'.gen = api.gen + 1 /\ api'.observed = api.observed
         /\ api'.lastChecked = api.lastChecked /\ api'.latest = api.latest
         /\ Replace(api') /\ since' = now /\ UNCHANGED <<Reconciling, pipeline, known, latest>>
<1>0. api \in Version /\ api.gen + 1 \in Nat
  BY VersionFields DEF TypeOK, FrameOK
<1>1. PICK interval \in Specs : Submit(Respecified(interval))
  BY DEF EditResource
<1> DEFINE obj == [api EXCEPT !.gen = @ + 1, !.spec = interval]
<1>2. /\ obj \in Version /\ obj.gen = api.gen + 1 /\ obj.observed = api.observed /\ obj.rv = api.rv
      /\ obj.lastChecked = api.lastChecked /\ obj.latest = api.latest /\ obj.state = api.state
  BY <1>0 DEF Version
<1>3. Submit(NextVersion(obj))
  BY <1>1 DEF Respecified
<1> HIDE DEF obj
<1>4. api' = NextVersion(obj)
  BY <1>3 DEF Submit, Replace
<1>5. /\ api' \in Version /\ api'.rv = api.rv + 1 /\ api'.state = api.state
      /\ api'.gen = api.gen + 1 /\ api'.observed = api.observed
      /\ api'.lastChecked = api.lastChecked /\ api'.latest = api.latest
  BY <1>2, <1>4, NextVersionFields DEF SameStatus
<1> QED BY <1>3, <1>4, <1>5 DEF EditResource, Submit, worker, concourse, Disturb, Reconciling

(* What a deletion brings about. *)
LEMMA DeleteFields ==
  ASSUME TypeOK, DeleteResource
  PROVE  /\ Exists(api) /\ api' \in Version /\ api'.rv = api.rv + 1 /\ ~Live(api') /\ SameStatus(api', api)
         /\ Replace(api') /\ since' = now /\ UNCHANGED <<Reconciling, pipeline, known, latest>>
<1>0. api \in Version
  BY DEF TypeOK, FrameOK
<1>1. PICK state \in {"deleting", "gone"} : Submit(NextVersion([api EXCEPT !.state = state]))
  BY DEF DeleteResource
<1> DEFINE obj == [api EXCEPT !.state = state]
<1>2. obj \in Version /\ obj.rv = api.rv /\ obj.state = state /\ SameStatus(obj, api)
  BY <1>0 DEF Version, States, SameStatus
<1>3. Submit(NextVersion(obj))
  BY <1>1
<1> HIDE DEF obj
<1>4. api' = NextVersion(obj)
  BY <1>3 DEF Submit, Replace
<1>5. api' \in Version /\ api'.rv = api.rv + 1 /\ ~Live(api') /\ SameStatus(api', api)
  BY <1>2, <1>4, NextVersionFields DEF SameStatus, Live
<1> QED BY <1>3, <1>4, <1>5 DEF DeleteResource, Submit, worker, concourse, Disturb, Reconciling

(* What a write of labels or annotations brings about. *)
LEMMA AnnotateFields ==
  ASSUME TypeOK, AnnotateResource
  PROVE  /\ Exists(api) /\ api' \in Version /\ api'.rv = api.rv + 1 /\ SameStatus(api', api)
         /\ Replace(api') /\ since' = now /\ UNCHANGED <<Reconciling, pipeline, known, latest>>
<1>0. api \in Version
  BY DEF TypeOK, FrameOK
<1>1. Submit(NextVersion(api)) /\ Exists(api)
  BY DEF AnnotateResource, Annotate
<1>2. api' = NextVersion(api)
  BY <1>1 DEF Submit, Replace
<1>3. api' \in Version /\ api'.rv = api.rv + 1 /\ SameStatus(api', api)
  BY <1>0, <1>2, NextVersionFields
<1> QED BY <1>1, <1>2, <1>3 DEF AnnotateResource, Submit, worker, concourse, Disturb, Reconciling

(* What others bring about: a change of the Pipeline or of its configuration, or
   a new version. *)
LEMMA ElsewhereFields ==
  ASSUME TypeOK, PipelineChanges \/ PipelineReset \/ VersionAppears
  PROVE  /\ UNCHANGED <<api, stream, Reconciling>> /\ since' = now
         /\ pipeline' \in Pipelines /\ known' \in BOOLEAN /\ latest' \in Nat /\ latest <= latest'
<1> USE DEF TypeOK, Elsewhere, Disturb, kube, worker, concourse, Reconciling
<1>1. CASE PipelineChanges
  BY <1>1 DEF PipelineChanges
<1>2. CASE PipelineReset
  BY <1>2 DEF PipelineReset
<1>3. CASE VersionAppears
  BY <1>3 DEF VersionAppears
<1> QED BY <1>1, <1>2, <1>3

(* What the receipt of an event brings about. *)
LEMMA ReceiveFields ==
  ASSUME InformerReceives
  PROVE  /\ stream # <<>> /\ store' = Head(stream) /\ stream' = Tail(stream) /\ wq' = "ready" /\ due' = 0
         /\ UNCHANGED <<api, pc, rc, pipeline, known, latest, asked, started, now, since, dropped>>
BY DEF InformerReceives, Receive, concourse

(* What the end of a delay brings about. *)
LEMMA ExpireFields ==
  ASSUME DelayExpires
  PROVE  /\ due <= now /\ wq = "waiting" /\ wq' = "ready" /\ due' = 0
         /\ UNCHANGED <<api, stream, store, pc, rc, pipeline, known, latest, asked, started, now, since, dropped>>
BY DEF DelayExpires, Expire, kube, concourse

(* What the passing of time brings about. *)
LEMMA TickFields ==
  ASSUME Tick
  PROVE  /\ now < MaxTime /\ now' = now + 1 /\ pc = "idle" /\ stream = <<>>
         /\ wq = "none" \/ (wq = "waiting" /\ now < due)
         /\ UNCHANGED <<api, stream, store, wq, pc, rc, pipeline, known, latest, asked, started, due, since, dropped>>
BY DEF Tick, concourse

(* What taking a key from the queue brings about. *)
LEMMA BeginFields ==
  ASSUME TypeOK, Begin
  PROVE  /\ pc = "idle" /\ wq = "ready" /\ wq' = "none"
         /\ UNCHANGED <<api, stream, store, pipeline, known, latest, asked, started, now, due, since>>
         /\ \/ pc' = "idle" /\ rc' = NoResource /\ ~Live(store) /\ ~dropped'
            \/ pc' = "idle" /\ rc' = NoResource /\ Live(store) /\ pipeline = "missing" /\ dropped'
            \/ /\ pc' \in {"report", "check", "fetch"} /\ ~dropped' /\ Live(store) /\ Live(rc')
               /\ rc' \in Version /\ rc'.rv = store.rv /\ rc'.state = store.state /\ SameStatus(rc', store)
               /\ pc' = "report" => pipeline # "ready"
               /\ pc' = "check" => pipeline = "ready" /\ shouldCheck(store)
               /\ pc' = "fetch" => pipeline = "ready" /\ ~shouldCheck(store)
<1>0. store \in Version /\ pipeline \in Pipelines /\ Pipelines \subseteq Found
  BY PipelinesAssumption DEF TypeOK, FrameOK
<1>1. /\ Copy(store).rv = store.rv /\ Copy(store).state = store.state /\ SameStatus(Copy(store), store)
      /\ pipeline # "missing" => Copy(store) \in Version
  <2>1. CASE pipeline # "ready"
    BY <1>0, <2>1 DEF Copy, Version, SameStatus, Found
  <2>2. CASE pipeline = "ready"
    BY <1>0, <2>2 DEF Copy, Version, SameStatus
  <2> QED BY <2>1, <2>2
<1>2. /\ pc = "idle" /\ wq = "ready" /\ wq' = "none" /\ pc' = FirstCall(store)
      /\ rc' = IF FirstCall(store) = "idle" THEN NoResource ELSE Copy(store)
      /\ UNCHANGED <<api, stream, store, pipeline, known, latest, asked, started, now, due, since>>
      /\ dropped' = (Live(store) /\ pipeline = "missing")
  BY DEF Begin, Take, kube, concourse
<1>3. CASE ~Live(store)
  BY <1>2, <1>3 DEF FirstCall
<1>4. CASE Live(store) /\ pipeline = "missing"
  BY <1>2, <1>4 DEF FirstCall
<1>5. CASE Live(store) /\ pipeline # "missing"
  <2>1. rc' = Copy(store) /\ ~dropped'
    BY <1>2, <1>5 DEF FirstCall
  <2>2. /\ pc' \in {"report", "check", "fetch"}
        /\ pc' = "report" => pipeline # "ready"
        /\ pc' = "check" => pipeline = "ready" /\ shouldCheck(store)
        /\ pc' = "fetch" => pipeline = "ready" /\ ~shouldCheck(store)
    BY <1>2, <1>5 DEF FirstCall
  <2> QED BY <1>1, <1>2, <1>5, <2>1, <2>2 DEF Live
<1> QED BY <1>3, <1>4, <1>5

(* What CheckResource brings about. *)
LEMMA CheckFields ==
  ASSUME TypeOK, Check
  PROVE  /\ pc = "check" /\ pc' = "fetch"
         /\ UNCHANGED <<api, stream, store, wq, pipeline, known, latest, now, due, dropped>>
         /\ rc' \in Version /\ rc'.rv = rc.rv /\ rc'.state = rc.state /\ rc'.spec = rc.spec
         /\ rc'.gen = rc.gen /\ rc'.observed = rc.observed /\ rc'.latest = rc.latest
         /\ \/ rc'.lastChecked = {Truncated(now)} /\ asked' = {now} /\ since' = since
            \/ rc'.lastChecked = rc.lastChecked /\ asked' \in {asked, {now}} /\ since' = now
         /\ started' \in {started, {now}} /\ (known /\ since' = since => started' = {now} \/ since = now)
<1>0. rc \in Version /\ {Truncated(now)} \in Optional(Time)
  BY OptionalTime, TimeNat, TruncatedFields DEF TypeOK, FrameOK
<1>1. /\ pc = "check" /\ pc' = "fetch"
      /\ UNCHANGED <<api, stream, store, wq, pipeline, known, latest, now, due, dropped>>
  BY DEF Check, Call, kube
<1>2. Ask => asked' = {now} /\ started' \in {started, {now}} /\ (known => started' = {now})
  BY DEF Ask
<1>3. CASE /\ rc' = [rc EXCEPT !.lastChecked = {Truncated(now)}, !.health = "CheckSucceeded"]
           /\ Ask /\ UNCHANGED <<faults, since>>
  <2>1. /\ rc' \in Version /\ rc'.rv = rc.rv /\ rc'.state = rc.state /\ rc'.spec = rc.spec
        /\ rc'.gen = rc.gen /\ rc'.observed = rc.observed /\ rc'.latest = rc.latest
        /\ rc'.lastChecked = {Truncated(now)}
    BY <1>0, <1>3 DEF Version
  <2> QED BY <1>1, <1>2, <1>3, <2>1
<1>4. CASE /\ rc' = [rc EXCEPT !.health = "CheckFailed"]
           /\ Fault /\ Disturb /\ (Ask \/ UNCHANGED <<asked, started>>)
  <2>1. /\ rc' \in Version /\ rc'.rv = rc.rv /\ rc'.state = rc.state /\ rc'.spec = rc.spec
        /\ rc'.gen = rc.gen /\ rc'.observed = rc.observed /\ rc'.latest = rc.latest
        /\ rc'.lastChecked = rc.lastChecked
    BY <1>0, <1>4 DEF Version
  <2> QED BY <1>1, <1>2, <1>4, <2>1 DEF Disturb
<1> QED BY <1>3, <1>4 DEF Check

(* What looking for the latest version brings about. *)
LEMMA FetchFields ==
  ASSUME TypeOK, Fetch
  PROVE  /\ pc = "fetch" /\ pc' = "update"
         /\ UNCHANGED <<api, stream, store, wq, pipeline, known, latest, asked, started, now, due, dropped>>
         /\ rc' \in Version /\ rc'.rv = rc.rv /\ rc'.state = rc.state /\ rc'.spec = rc.spec
         /\ rc'.gen = rc.gen /\ rc'.observed = rc.gen /\ rc'.lastChecked = rc.lastChecked
         /\ rc'.ready = "Ready" /\ rc'.latest \in {latest, rc.latest}
         /\ \/ since' = since /\ (known => rc'.latest = latest \/ latest = 0)
            \/ since' = now
<1>0. rc \in Version /\ latest \in Nat /\ rc.gen \in Nat /\ rc.latest \in Nat
  BY VersionFields DEF TypeOK, FrameOK
<1>1. /\ pc = "fetch" /\ pc' = "update"
      /\ UNCHANGED <<api, stream, store, wq, pipeline, known, latest, asked, started, now, due, dropped>>
  BY DEF Fetch, Call, kube, concourse
<1>2. PICK found \in {LatestFound, 0} :
        /\ IF found = LatestFound THEN UNCHANGED <<faults, since>> ELSE Fault /\ Disturb
        /\ rc' = [fetchLatestVersion(rc, found) EXCEPT !.observed = rc.gen, !.ready = "Ready"]
  BY DEF Fetch
<1>3. found \in Nat
  BY <1>0, <1>2 DEF LatestFound
<1>4. /\ rc' \in Version /\ rc'.rv = rc.rv /\ rc'.state = rc.state /\ rc'.spec = rc.spec
      /\ rc'.gen = rc.gen /\ rc'.observed = rc.gen /\ rc'.lastChecked = rc.lastChecked
      /\ rc'.ready = "Ready" /\ rc'.latest = IF found = 0 THEN rc.latest ELSE found
  BY <1>0, <1>2, <1>3 DEF fetchLatestVersion, Version
<1>5. /\ \/ since' = since /\ (known => rc'.latest = latest \/ latest = 0)
         \/ since' = now
      /\ rc'.latest \in {latest, rc.latest}
  BY <1>0, <1>2, <1>4 DEF Disturb, LatestFound
<1> QED BY <1>1, <1>4, <1>5

(* How a reconcile ends with a requeue after d, or with an error. *)
Requeued(d) ==
  IF d = 0 THEN UNCHANGED <<wq, due>>
  ELSE wq' = AddAfter(wq) /\ due' = (IF wq = "ready" THEN 0 ELSE now + d)

Failed == wq' = AddAfter(wq) /\ due' = 0

(* The status of the copy becomes the status of the Resource. *)
StatusWritten ==
  /\ Exists(api) /\ rc.rv = api.rv /\ Replace(api') /\ (api' = api => rc = api)
  /\ api' \in Version /\ (api' = api \/ api'.rv = api.rv + 1)
  /\ api'.state = rc.state /\ api'.ready = rc.ready /\ SameStatus(api', rc)

(* A write that is accepted writes the copy. *)
LEMMA WriteFields == ASSUME TypeOK, Write(Written(api, rc)) PROVE StatusWritten
<1>0. api \in Version /\ rc \in Version
  BY DEF TypeOK, FrameOK
<1>1. Exists(api) /\ rc.rv = api.rv /\ Replace(api') /\ api' = Written(api, rc)
  BY DEF Write, Accepted, Accepts, Replace
<1>2. CASE rc = api
  BY <1>0, <1>1, <1>2 DEF Written, StatusWritten, SameStatus
<1>3. CASE rc # api
  <2>1. api' = NextVersion(rc)
    BY <1>1, <1>3 DEF Written
  <2>2. api'.rv = api.rv + 1 /\ api.rv \in Nat
    BY <1>0, <1>1, <2>1, NextVersionFields, VersionFields
  <2> QED BY <1>0, <1>1, <2>1, <2>2, NextVersionFields DEF StatusWritten
<1> QED BY <1>2, <1>3

(* What the status write at the end of a reconcile brings about. *)
LEMMA UpdateFields ==
  ASSUME TypeOK, UpdateStatus
  PROVE  /\ pc = "update" /\ pc' = "idle" /\ rc' = NoResource
         /\ UNCHANGED <<store, pipeline, known, latest, asked, started, now, dropped>>
         /\ \/ StatusWritten /\ Requeued(requeueAfter(rc.spec)) /\ since' = since
            \/ StatusWritten /\ Failed /\ since' = now
            \/ UNCHANGED <<api, stream>> /\ ~(Exists(api) /\ rc.rv = api.rv) /\ Failed /\ since' = since
            \/ UNCHANGED <<api, stream>> /\ Failed /\ since' = now
<1>0. requeueAfter(rc.spec) \in Nat
  BY VersionFields, DelayFields DEF TypeOK, FrameOK
<1>1. RequeueIn(requeueAfter(rc.spec)) => Idle /\ Requeued(requeueAfter(rc.spec))
  BY <1>0 DEF RequeueIn, Requeued
<1>2. Fails => Idle /\ Failed
  BY DEF Fails, ReturnError, Failed
<1>3. Accepted <=> Exists(api) /\ rc.rv = api.rv
  BY DEF Accepted, Accepts
<1> QED BY <1>1, <1>2, <1>3, WriteFields DEF UpdateStatus, Idle, Disturb, concourse

(* What the write of Ready=False brings about. *)
LEMMA ReportFields ==
  ASSUME TypeOK, Report
  PROVE  /\ pc = "report" /\ pc' = "idle" /\ rc' = NoResource
         /\ UNCHANGED <<store, pipeline, known, latest, asked, started, now, dropped>>
         /\ \/ StatusWritten /\ since' = since
            \/ UNCHANGED <<api, stream>> /\ ~(Exists(api) /\ rc.rv = api.rv) /\ since' = since
            \/ UNCHANGED <<api, stream>> /\ since' = now
         /\ Requeued(Retry)
<1>1. RequeueIn(Retry) => Idle /\ Requeued(Retry)
  BY DelaysAssumption DEF RequeueIn, Requeued
<1>2. Accepted <=> Exists(api) /\ rc.rv = api.rv
  BY DEF Accepted, Accepts
<1> QED BY <1>1, <1>2, WriteFields DEF Report, Idle, Disturb, concourse

(* What a restart brings about. *)
LEMMA RestartFields ==
  ASSUME TypeOK, CrashRestart
  PROVE  /\ pc' = "idle" /\ rc' = NoResource /\ wq' = (IF Exists(api) THEN "ready" ELSE "none") /\ due' = 0
         /\ store' = api /\ stream' = <<>> /\ since' = now
         /\ UNCHANGED <<api, pipeline, known, latest, asked, started, now, dropped>>
BY DEF CrashRestart, Restart, Idle, Disturb, concourse

(* What users, the informer and the worker do to the Resource, as a step of the
   API server and the informer. *)
LEMMA ApiStep ==
  ASSUME TypeOK, [Next]_vars
  PROVE  api' \in Version /\ KubeStep(api, stream, store, api', stream', store')
<1> DEFINE Goal == api' \in Version /\ KubeStep(api, stream, store, api', stream', store')
<1>0. api \in Version
  BY DEF TypeOK, FrameOK
<1>1. ASSUME UNCHANGED <<api, stream, store>> PROVE Goal
  BY <1>0, <1>1 DEF KubeStep, Published
<1>2. ASSUME api' \in Version, api' = api \/ api'.rv = api.rv + 1, Replace(api'), UNCHANGED store PROVE Goal
  BY <1>2 DEF Replace, KubeStep
<1>3. CASE CreateResource \/ EditResource \/ AnnotateResource \/ DeleteResource
  BY <1>2, <1>3, CreateFields, EditFields, AnnotateFields, DeleteFields DEF Reconciling
<1>4. CASE PipelineChanges \/ PipelineReset \/ VersionAppears
  BY <1>1, <1>4, ElsewhereFields DEF Reconciling
<1>5. CASE InformerReceives
  BY <1>0, <1>5, ReceiveFields DEF KubeStep
<1>6. CASE DelayExpires \/ Tick \/ Begin \/ Check \/ Fetch
  BY <1>1, <1>6, ExpireFields, TickFields, BeginFields, CheckFields, FetchFields
<1>7. CASE UpdateStatus \/ Report
  BY <1>1, <1>2, <1>7, UpdateFields, ReportFields DEF StatusWritten
<1>8. CASE CrashRestart
  BY <1>0, <1>8, RestartFields DEF KubeStep
<1>9. CASE UNCHANGED vars
  BY <1>1, <1>9 DEF vars
<1> QED BY <1>3, <1>4, <1>5, <1>6, <1>7, <1>8, <1>9 DEF Next, User, Working

(* The named bounds hold for edits, faults and crashes. *)
LEMMA CountersType ==
  ASSUME TypeOK, [Next]_vars
  PROVE  edits' \in 0..MaxEdits /\ faults' \in 0..MaxFaults /\ crashes' \in 0..MaxCrashes
<1> DEFINE Goal == edits' \in 0..MaxEdits /\ faults' \in 0..MaxFaults /\ crashes' \in 0..MaxCrashes
<1>0. edits \in 0..MaxEdits /\ faults \in 0..MaxFaults /\ crashes \in 0..MaxCrashes
  BY DEF TypeOK, FrameOK
<1>1. (Edit => edits' \in 0..MaxEdits) /\ (Fault => faults' \in 0..MaxFaults)
  BY <1>0, BoundsAssumption DEF Edit, Fault
<1> USE DEF bounds
<1>2. CASE CreateResource \/ EditResource \/ AnnotateResource \/ DeleteResource
  BY <1>0, <1>1, <1>2 DEF CreateResource, EditResource, AnnotateResource, Annotate, DeleteResource, Submit, Edit
<1>3. CASE PipelineChanges \/ PipelineReset \/ VersionAppears
  BY <1>0, <1>1, <1>3 DEF PipelineChanges, PipelineReset, VersionAppears, Elsewhere, Edit
<1>4. CASE InformerReceives \/ DelayExpires \/ Tick \/ Begin
  BY <1>0, <1>4 DEF InformerReceives, Receive, DelayExpires, Expire, Tick, Begin, Take
<1>5. CASE Check \/ Fetch
  BY <1>0, <1>1, <1>5 DEF Check, Fetch, Call
<1>6. CASE UpdateStatus \/ Report
  BY <1>0, <1>1, <1>6 DEF UpdateStatus, Report
<1>7. CASE CrashRestart
  BY <1>0, <1>7, BoundsAssumption DEF CrashRestart, Restart
<1>8. CASE UNCHANGED vars
  BY <1>0, <1>8 DEF vars
<1> QED BY <1>2, <1>3, <1>4, <1>5, <1>6, <1>7, <1>8 DEF Next, User, Working

(* A manager that has just started, with no Resource yet, is in a well-typed
   state. *)
LEMMA TypeInit == Init => TypeOK
<1> SUFFICES ASSUME Init PROVE TypeOK
  OBVIOUS
<1>1. FrameOK(Version, {"report", "check", "fetch", "update"})
  BY NoResourceType, BoundsAssumption DEF Init, FrameInit, FrameOK, QueueStates
<1> QED BY <1>1, TimeNat, OptionalTime DEF Init, TypeOK

(* Every step of users, the clock and the reconciler keeps the types. *)
LEMMA TypeNext == TypeOK /\ [Next]_vars => TypeOK'
<1> SUFFICES ASSUME TypeOK, [Next]_vars PROVE TypeOK'
  OBVIOUS
<1> DEFINE Steps == {"report", "check", "fetch", "update"}
           Queue == wq' \in QueueStates /\ pc' \in Steps \cup {"idle"} /\ rc' \in Version
           Rest == /\ pipeline' \in Pipelines /\ known' \in BOOLEAN /\ latest' \in Nat
                   /\ now' \in Time /\ due' \in Nat /\ asked' \in Optional(Time)
                   /\ started' \in Optional(Time) /\ since' \in Time
<1>0. api' \in Version /\ stream' \in Seq(Version) /\ store' \in Version
  BY ApiStep, KubeStepType DEF TypeOK, FrameOK
<1>1. Queue /\ Rest /\ dropped' \in BOOLEAN => TypeOK'
  BY <1>0, CountersType DEF TypeOK, FrameOK
<1>2. wq \in QueueStates /\ pc \in Steps \cup {"idle"} /\ rc \in Version /\ AddAfter(wq) \in QueueStates
  BY QueueType DEF TypeOK, FrameOK
<1>3. /\ pipeline \in Pipelines /\ known \in BOOLEAN /\ latest \in Nat /\ dropped \in BOOLEAN
      /\ now \in Time /\ due \in Nat /\ asked \in Optional(Time) /\ started \in Optional(Time)
      /\ since \in Time /\ now \in Nat
  BY TimeNat DEF TypeOK
<1>4. CASE CreateResource \/ EditResource \/ AnnotateResource \/ DeleteResource
  BY <1>1, <1>2, <1>3, <1>4, CreateFields, EditFields, AnnotateFields, DeleteFields DEF Reconciling
<1>5. CASE PipelineChanges \/ PipelineReset \/ VersionAppears
  BY <1>1, <1>2, <1>3, <1>5, ElsewhereFields DEF Reconciling
<1>6. CASE InformerReceives \/ DelayExpires
  BY <1>1, <1>2, <1>3, <1>6, ReceiveFields, ExpireFields DEF QueueStates
<1>7. CASE Tick
  <2>1. now' \in Time
    BY <1>3, <1>7, TickFields, BoundsAssumption DEF Time
  <2> QED BY <1>1, <1>2, <1>3, <1>7, <2>1, TickFields
<1>8. CASE Begin
  <2>1. dropped' \in BOOLEAN
    BY <1>8 DEF Begin
  <2> QED BY <1>1, <1>3, <1>8, <2>1, BeginFields, NoResourceType DEF QueueStates
<1>9. CASE Check
  <2>1. asked' \in Optional(Time) /\ started' \in Optional(Time) /\ since' \in Time
    BY <1>3, <1>9, CheckFields, OptionalTime
  <2> QED BY <1>1, <1>2, <1>3, <1>9, <2>1, CheckFields
<1>10. CASE Fetch
  BY <1>1, <1>2, <1>3, <1>10, FetchFields
<1>11. CASE UpdateStatus \/ Report
  <2>1. requeueAfter(rc.spec) \in Nat /\ Retry \in Nat
    BY <1>2, VersionFields, DelayFields, DelaysAssumption
  <2>2. ASSUME NEW d \in Nat, Requeued(d) PROVE wq' \in QueueStates /\ due' \in Nat
    BY <1>2, <1>3, <2>2 DEF Requeued
  <2>3. Failed => wq' \in QueueStates /\ due' \in Nat
    BY <1>2 DEF Failed
  <2>4. wq' \in QueueStates /\ due' \in Nat
    BY <1>11, <2>1, <2>2, <2>3, UpdateFields, ReportFields
  <2> QED BY <1>1, <1>2, <1>3, <1>11, <2>4, UpdateFields, ReportFields, NoResourceType
<1>12. CASE CrashRestart
  BY <1>1, <1>3, <1>12, RestartFields, NoResourceType DEF QueueStates
<1>13. CASE UNCHANGED vars
  BY <1>1, <1>2, <1>3, <1>13 DEF vars
<1> QED
  BY <1>4, <1>5, <1>6, <1>7, <1>8, <1>9, <1>10, <1>11, <1>12, <1>13 DEF Next, User, Working

(* Every state ResourceReconciler can be in is well-formed. *)
THEOREM TypeCorrect == Spec => []TypeOK
BY TypeInit, TypeNext, PTL DEF Spec
-----------------------------------------------------------------------------
(* The informer, what is recorded, and the copy a reconcile works on. *)

(* The informer follows the API server in order. *)
OrderInv == Ordered(api, stream, store)

(* It does so from the start. *)
LEMMA OrderInit == Init => OrderInv
BY DEF Init, FrameInit, OrderInv, Ordered

(* No step of the system upsets that order. *)
LEMMA OrderNext ==
  ASSUME TypeOK, OrderInv, [Next]_vars
  PROVE  OrderInv' /\ Seen(api', stream', store') \subseteq Seen(api, stream, store) \cup {api'}
<1>1. \A v \in Version : v.rv \in Nat
  BY VersionFields
<1>2. api \in Version /\ stream \in Seq(Version) /\ store \in Version /\ api' \in Version
      /\ KubeStep(api, stream, store, api', stream', store')
  BY ApiStep DEF TypeOK, FrameOK
<1>3. OrderInv'
  BY <1>1, <1>2, OrderedStep DEF OrderInv
<1> QED BY <1>2, <1>3, SeenStep

(* The store is never ahead of the Resource, and with its resourceVersion it is
   the Resource; so it is when nothing is on its way. *)
LEMMA UpToDate ==
  ASSUME TypeOK, OrderInv
  PROVE  /\ store.rv <= api.rv /\ (store.rv = api.rv => store = api)
         /\ stream = <<>> => store = api
<1>1. \A v \in Version : v.rv \in Nat
  BY VersionFields
<1>2. api \in Version /\ stream \in Seq(Version) /\ store \in Version
  BY DEF TypeOK, FrameOK
<1>3. \A x \in Seen(api, stream, store) : x.rv <= api.rv /\ (x.rv = api.rv => x = api)
  BY <1>1, <1>2, OrderedSeen DEF OrderInv
<1>4. store \in Seen(api, stream, store)
  BY DEF Seen
<1> QED BY <1>3, <1>4 DEF OrderInv, Ordered

(* What x records lies in the past: a generation there has been, a version there
   has been (l is the latest), and a check no later than the last one, at. *)
Past(x, l, at) ==
  x.observed <= x.gen /\ x.latest <= l /\ \A t \in x.lastChecked : \E u \in at : t <= Truncated(u)

(* Nothing that has been recorded or has happened is still to come. *)
PastInv ==
  /\ since <= now /\ \A u \in asked : u <= now
  /\ \A x \in Seen(api, stream, store) \cup {rc} : Past(x, latest, asked)

(* At the start nothing has happened. *)
LEMMA PastInit == Init => PastInv
<1> SUFFICES ASSUME Init PROVE PastInv
  OBVIOUS
<1>1. Seen(api, stream, store) \cup {rc} = {NoResource}
  BY DEF Init, FrameInit, Seen
<1>2. Past(NoResource, latest, asked)
  BY NoResourceType DEF Init, Past
<1> QED BY <1>1, <1>2 DEF Init, PastInv

(* What lies in the past stays there: versions, checks and the clock only go up. *)
LEMMA PastNext == TypeOK /\ OrderInv /\ PastInv /\ [Next]_vars => PastInv'
<1> SUFFICES ASSUME TypeOK, OrderInv, PastInv, [Next]_vars PROVE PastInv'
  OBVIOUS
<1> DEFINE Clock == /\ latest <= latest' /\ since' <= now' /\ \A u \in asked' : u <= now'
                    /\ \A u \in asked : \E w \in asked' : u <= w
           New == Past(api', latest', asked') /\ Past(rc', latest', asked')
<1>0. /\ api \in Version /\ rc \in Version /\ api' \in Version /\ latest \in Nat /\ latest' \in Nat
      /\ Seen(api, stream, store) \subseteq Version /\ asked \subseteq Nat /\ asked' \subseteq Nat
      /\ now \in Nat /\ since \in Nat /\ now' \in Nat
  <2>1. /\ api \in Version /\ rc \in Version /\ latest \in Nat /\ now \in Time /\ since \in Time
        /\ stream \in Seq(Version) /\ store \in Version /\ asked \in Optional(Time)
    BY DEF TypeOK, FrameOK
  <2>2. api' \in Version /\ latest' \in Nat /\ asked' \in Optional(Time) /\ now' \in Time
    BY TypeNext DEF TypeOK, FrameOK
  <2>3. asked \subseteq Time /\ asked' \subseteq Time
    BY <2>1, <2>2, OptionalFields
  <2>4. Seen(api, stream, store) \subseteq Version
    BY <2>1, SeenType
  <2> QED BY <2>1, <2>2, <2>3, <2>4, TimeNat
<1>1. ASSUME NEW x \in Version, Past(x, latest, asked), Clock PROVE Past(x, latest', asked')
  <2>1. x.latest \in Nat /\ x.lastChecked \subseteq Nat
    BY VersionFields, TimeNat
  <2>2. ASSUME NEW t \in x.lastChecked PROVE \E w \in asked' : t <= Truncated(w)
    <3>1. PICK u \in asked : t <= Truncated(u)
      BY <1>1 DEF Past
    <3>2. PICK w \in asked' : u <= w
      BY <1>1
    <3>3. Truncated(u) <= Truncated(w) /\ Truncated(u) \in Nat /\ Truncated(w) \in Nat
      BY <1>0, <3>2, TruncatedFields
    <3> QED BY <2>1, <3>1, <3>2, <3>3
  <2> QED BY <1>0, <1>1, <2>1, <2>2 DEF Past
<1>2. ASSUME Clock, New PROVE PastInv'
  <2>1. Seen(api', stream', store') \subseteq Seen(api, stream, store) \cup {api'}
    BY OrderNext
  <2>2. ASSUME NEW x \in Seen(api, stream, store) PROVE Past(x, latest', asked')
    BY <1>0, <1>1, <1>2 DEF PastInv
  <2> QED BY <1>2, <2>1, <2>2 DEF PastInv
<1>3. Past(rc, latest, asked) /\ Past(api, latest, asked) /\ Past(store, latest, asked)
  BY DEF PastInv, Seen
<1>4. ASSUME Clock, UNCHANGED <<api, rc>> PROVE PastInv'
  BY <1>0, <1>1, <1>2, <1>3, <1>4
<1>5. ASSUME Clock, UNCHANGED api, rc' = NoResource PROVE PastInv'
  <2>1. Past(rc', latest', asked')
    BY <1>0, <1>5, NoResourceType DEF Past
  <2> QED BY <1>0, <1>1, <1>2, <1>3, <1>5, <2>1
<1>6. since <= now /\ \A u \in asked : u <= now
  BY DEF PastInv
<1>7. ASSUME UNCHANGED <<latest, asked>>, since' <= now', now' >= now PROVE Clock
  BY <1>0, <1>6, <1>7
<1>8. now <= now
  BY <1>0
<1>9. CASE CreateResource \/ EditResource \/ AnnotateResource \/ DeleteResource
  <2>1. since' = now /\ UNCHANGED <<rc, asked, latest, now>>
    BY <1>9, CreateFields, EditFields, AnnotateFields, DeleteFields DEF Reconciling
  <2>2. Clock
    BY <1>7, <1>8, <2>1
  <2>3. CASE CreateResource
    BY <1>0, <1>1, <1>2, <1>3, <2>1, <2>2, <2>3, CreateFields DEF Past
  <2>4. CASE EditResource
    <3>1. Past(api', latest, asked)
      <4>1. /\ api'.gen = api.gen + 1 /\ api'.observed = api.observed
            /\ api'.lastChecked = api.lastChecked /\ api'.latest = api.latest
        BY <2>4, EditFields
      <4>2. api.gen \in Nat /\ api.observed \in Nat
        BY <1>0, VersionFields
      <4> QED BY <1>3, <4>1, <4>2 DEF Past
    <3> QED BY <1>0, <1>1, <1>2, <1>3, <2>1, <2>2, <3>1
  <2>5. CASE DeleteResource
    BY <1>0, <1>1, <1>2, <1>3, <2>1, <2>2, <2>5, DeleteFields DEF Past, SameStatus
  <2>6. CASE AnnotateResource
    BY <1>0, <1>1, <1>2, <1>3, <2>1, <2>2, <2>6, AnnotateFields DEF Past, SameStatus
  <2> QED BY <1>9, <2>3, <2>4, <2>5, <2>6
<1>10. CASE PipelineChanges \/ PipelineReset \/ VersionAppears
  <2>1. /\ UNCHANGED <<api, rc, asked, now>> /\ since' = now /\ latest <= latest'
    BY <1>10, ElsewhereFields DEF Reconciling
  <2>2. Clock
    BY <1>0, <1>6, <2>1
  <2> QED BY <1>4, <2>1, <2>2
<1>11. CASE InformerReceives \/ DelayExpires \/ UNCHANGED vars
  <2>1. UNCHANGED <<api, rc, latest, asked, now, since>>
    BY <1>11, ReceiveFields, ExpireFields DEF vars
  <2> QED BY <1>4, <1>6, <1>7, <1>8, <2>1
<1>12. CASE Tick
  BY <1>0, <1>4, <1>6, <1>7, <1>12, TickFields
<1>13. CASE Begin
  <2>1. Clock /\ UNCHANGED <<api, latest, asked>>
    BY <1>6, <1>7, <1>8, <1>13, BeginFields
  <2>2. CASE rc' = NoResource
    BY <1>5, <2>1, <2>2
  <2>3. CASE SameStatus(rc', store)
    <3>1. Past(rc', latest', asked')
      BY <1>3, <2>1, <2>3 DEF Past, SameStatus
    <3> QED BY <1>0, <1>1, <1>2, <1>3, <2>1, <3>1
  <2> QED BY <1>13, <2>2, <2>3, BeginFields
<1>14. CASE Check
  <2>1. UNCHANGED <<api, latest, now>>
    BY <1>14, CheckFields
  <2>2. CASE rc'.lastChecked = {Truncated(now)} /\ asked' = {now} /\ since' = since
    <3>1. Clock
      BY <1>0, <1>6, <2>1, <2>2
    <3>2. Past(rc', latest', asked')
      <4>1. Truncated(now) \in Nat
        BY <1>0, TruncatedFields
      <4> QED BY <1>0, <1>3, <1>14, <2>1, <2>2, <4>1, CheckFields DEF Past
    <3> QED BY <1>0, <1>1, <1>2, <1>3, <2>1, <3>1, <3>2
  <2>3. CASE rc'.lastChecked = rc.lastChecked /\ asked' \in {asked, {now}} /\ since' = now
    <3>1. Clock
      BY <1>0, <1>6, <2>1, <2>3
    <3>2. rc' \in Version /\ Past(rc', latest, asked)
      BY <1>3, <1>14, <2>3, CheckFields DEF Past
    <3> QED BY <1>0, <1>1, <1>2, <1>3, <2>1, <3>1, <3>2
  <2> QED BY <1>14, <2>2, <2>3, CheckFields
<1>15. CASE Fetch
  <2>1. UNCHANGED <<api, latest, asked, now>> /\ since' \in {since, now}
    BY <1>15, FetchFields
  <2>2. Clock
    BY <1>0, <1>6, <2>1
  <2>3. Past(rc', latest', asked')
    BY <1>0, <1>3, <1>15, <2>1, FetchFields, VersionFields DEF Past
  <2> QED BY <1>0, <1>1, <1>2, <1>3, <2>1, <2>2, <2>3
<1>16. CASE UpdateStatus \/ Report
  <2>1. /\ rc' = NoResource /\ UNCHANGED <<latest, asked, now>> /\ since' \in {since, now}
        /\ UNCHANGED api \/ SameStatus(api', rc)
    BY <1>16, UpdateFields, ReportFields DEF StatusWritten
  <2>2. Clock
    BY <1>0, <1>6, <2>1
  <2>3. CASE SameStatus(api', rc)
    <3>1. Past(api', latest', asked')
      BY <1>3, <2>1, <2>3 DEF Past, SameStatus
    <3>2. Past(rc', latest', asked')
      BY <1>0, <2>1, NoResourceType DEF Past
    <3> QED BY <1>2, <2>2, <3>1, <3>2
  <2> QED BY <1>5, <2>1, <2>2, <2>3
<1>17. CASE CrashRestart
  BY <1>0, <1>5, <1>6, <1>7, <1>17, RestartFields
<1> QED
  BY <1>9, <1>10, <1>11, <1>12, <1>13, <1>14, <1>15, <1>16, <1>17 DEF Next, User, Working

(* What the status says when the last check asked for is on record. *)
Recorded == {Truncated(u) : u \in asked}

(* The copy a reconcile works on is live; if it has the resourceVersion of the
   current Resource, it is that Resource with a later status. *)
CopyInv ==
  pc # "idle" =>
    /\ Live(rc) /\ rc.rv <= api.rv
    /\ rc.rv = api.rv =>
         /\ rc.state = api.state /\ rc.spec = api.spec /\ rc.gen = api.gen /\ rc.observed >= api.observed
         /\ rc.lastChecked \in {api.lastChecked, Recorded}
         /\ pc \in {"check", "report"} => rc.lastChecked = api.lastChecked

(* It stays so until something else is written. *)
LEMMA CopyNext == TypeOK /\ OrderInv /\ PastInv /\ CopyInv /\ [Next]_vars => CopyInv'
<1> SUFFICES ASSUME TypeOK, OrderInv, PastInv, CopyInv, [Next]_vars PROVE CopyInv'
  OBVIOUS
<1>0. /\ api \in Version /\ rc \in Version /\ store \in Version
      /\ \A v \in Version : v.rv \in Nat /\ v.observed \in Nat /\ v.gen \in Nat
  BY VersionFields DEF TypeOK, FrameOK
<1>1. ASSUME pc' = "idle" PROVE CopyInv'
  BY <1>1 DEF CopyInv
<1>2. ASSUME UNCHANGED <<pc, rc, asked>>, api' = api \/ api'.rv = api.rv + 1 PROVE CopyInv'
  BY <1>0, <1>2 DEF CopyInv, Live, Recorded
<1>3. CASE CreateResource \/ EditResource \/ AnnotateResource \/ DeleteResource
  BY <1>2, <1>3, CreateFields, EditFields, AnnotateFields, DeleteFields DEF Reconciling
<1>4. CASE PipelineChanges \/ PipelineReset \/ VersionAppears
  BY <1>2, <1>4, ElsewhereFields DEF Reconciling
<1>5. CASE InformerReceives \/ DelayExpires \/ Tick \/ UNCHANGED vars
  BY <1>2, <1>5, ReceiveFields, ExpireFields, TickFields DEF vars
<1>6. CASE Begin
  <2>1. store.rv <= api.rv /\ (store.rv = api.rv => store = api)
    BY UpToDate
  <2>2. ASSUME pc' # "idle" PROVE CopyInv'
    <3>1. /\ Live(rc') /\ rc' \in Version /\ rc'.rv = store.rv /\ rc'.state = store.state
          /\ SameStatus(rc', store) /\ UNCHANGED api
      BY <1>6, <2>2, BeginFields
    <3> QED BY <1>0, <2>1, <3>1 DEF CopyInv, SameStatus
  <2> QED BY <1>1, <2>2
<1>7. CASE Check
  <2>1. /\ UNCHANGED api /\ pc = "check" /\ pc' = "fetch" /\ rc'.rv = rc.rv /\ rc'.state = rc.state
        /\ rc'.spec = rc.spec /\ rc'.gen = rc.gen /\ rc'.observed = rc.observed
        /\ rc'.lastChecked = Recorded' \/ rc'.lastChecked = rc.lastChecked
    BY <1>7, CheckFields DEF Recorded
  <2> QED BY <2>1 DEF CopyInv, Live
<1>8. CASE Fetch
  <2>1. rc.observed <= rc.gen
    BY DEF PastInv, Past
  <2> QED BY <1>0, <1>8, <2>1, FetchFields DEF CopyInv, Live, Recorded
<1>9. CASE UpdateStatus \/ Report \/ CrashRestart
  BY <1>1, <1>9, UpdateFields, ReportFields, RestartFields
<1> QED BY <1>3, <1>4, <1>5, <1>6, <1>7, <1>8, <1>9 DEF Next, User, Working

(* What a status write may do and may not do. *)
Forward == Exists(api) /\ Exists(api)' =>
             /\ api'.observed >= api.observed
             /\ \A t \in api.lastChecked : \E u \in api'.lastChecked : u >= t

(* No step takes back the record of a generation or of a check. *)
LEMMA ForwardNext == TypeOK /\ PastInv /\ CopyInv /\ [Next]_vars => Forward
<1> SUFFICES ASSUME TypeOK, PastInv, CopyInv, [Next]_vars PROVE Forward
  OBVIOUS
<1>0. /\ api \in Version /\ api.observed \in Nat /\ api.lastChecked \subseteq Nat /\ asked \subseteq Nat
      /\ Past(api, latest, asked)
  <2>1. api \in Version /\ asked \in Optional(Time) /\ Past(api, latest, asked)
    BY DEF TypeOK, FrameOK, PastInv, Seen
  <2> QED BY <2>1, VersionFields, OptionalFields, TimeNat
<1>1. ASSUME api'.observed = api.observed, api'.lastChecked = api.lastChecked PROVE Forward
  BY <1>0, <1>1 DEF Forward
<1>2. ASSUME ~Exists(api) PROVE Forward
  BY <1>2 DEF Forward
<1>3. CASE UNCHANGED api
  BY <1>1, <1>3
<1>4. CASE CreateResource \/ EditResource \/ AnnotateResource \/ DeleteResource
  BY <1>1, <1>2, <1>4, CreateFields, EditFields, AnnotateFields, DeleteFields DEF SameStatus
<1>5. CASE \/ PipelineChanges \/ PipelineReset \/ VersionAppears
           \/ InformerReceives \/ DelayExpires \/ Tick \/ UNCHANGED vars
  BY <1>3, <1>5, ElsewhereFields, ReceiveFields, ExpireFields, TickFields DEF vars
<1>6. CASE Begin \/ Check \/ Fetch \/ CrashRestart
  BY <1>3, <1>6, BeginFields, CheckFields, FetchFields, RestartFields
<1>7. CASE UpdateStatus \/ Report
  <2>1. UNCHANGED api \/ (pc # "idle" /\ rc.rv = api.rv /\ SameStatus(api', rc))
    BY <1>7, UpdateFields, ReportFields DEF StatusWritten
  <2>2. CASE pc # "idle" /\ rc.rv = api.rv /\ SameStatus(api', rc)
    <3>1. api'.observed >= api.observed /\ api'.lastChecked \in {api.lastChecked, Recorded}
      BY <2>2 DEF CopyInv, SameStatus
    <3>2. ASSUME NEW t \in api.lastChecked PROVE \E u \in api'.lastChecked : u >= t
      <4>1. PICK u \in asked : t <= Truncated(u)
        BY <1>0 DEF Past
      <4>2. Truncated(u) \in Nat /\ Truncated(u) >= t
        BY <1>0, <4>1, TruncatedFields
      <4> QED BY <1>0, <3>1, <4>2 DEF Recorded
    <3> QED BY <3>1, <3>2 DEF Forward
  <2> QED BY <1>3, <2>1, <2>2
<1> QED BY <1>4, <1>5, <1>6, <1>7 DEF Next, User, Working

(* The informer's order, the past and the copy, together. *)
Base == TypeOK /\ OrderInv /\ PastInv /\ CopyInv

(* They hold at the start ... *)
LEMMA BaseInit == Init => Base
<1>1. Init => CopyInv
  BY DEF Init, FrameInit, CopyInv
<1> QED BY <1>1, TypeInit, OrderInit, PastInit DEF Base

(* ... and every step keeps them. *)
LEMMA BaseNext == Base /\ [Next]_vars => Base'
BY TypeNext, OrderNext, PastNext, CopyNext DEF Base

(* No write of ResourceReconciler, whatever users, faults and restarts do
   meanwhile, takes back the record of a later check or of a later generation. *)
THEOREM StatusCorrect == Spec => StatusNeverGoesBack
<1>1. Base /\ [Next]_vars => [Forward]_vars
  BY ForwardNext DEF Base
<1>2. [][Forward]_vars => StatusNeverGoesBack
  BY PTL DEF Forward, StatusNeverGoesBack
<1> QED BY <1>1, <1>2, BaseInit, BaseNext, PTL DEF Spec
-----------------------------------------------------------------------------
(* A quiet tick, and what the queue holds. *)

(* Unless something has happened in this tick, a reconcile holds the current
   Resource, and the only event that may be on its way is that of its own last
   write. *)
CalmInv ==
  \/ since = now
  \/ /\ pc # "idle" => rc.rv = api.rv /\ stream = <<>> /\ wq = "none"
     /\ stream # <<>> => Len(stream) = 1 /\ wq # "ready" /\ (wq = "waiting" => now < due)

(* How a reconcile ends in a quiet tick: its write is accepted, and nothing but
   its own event and its own delay is left. *)
LEMMA QuietEnd ==
  ASSUME Base, CalmInv, UpdateStatus \/ Report, since' # now
  PROVE  /\ since' = since /\ StatusWritten /\ stream = <<>> /\ wq = "none"
         /\ Live(api) /\ Live(api') /\ api'.spec = api.spec /\ requeueAfter(api.spec) \in Nat
         /\ (api' = api /\ stream' = <<>>) \/ stream' = <<api'>>
         /\ pc = "update" =>
              \/ api.spec = {0} /\ wq' = "none"
              \/ requeueAfter(api.spec) > 0 /\ wq' = "waiting" /\ due' = now + requeueAfter(api.spec)
         /\ pc = "report" => wq' = "waiting" /\ due' = now + Retry
<1>0. requeueAfter(api.spec) \in Nat /\ (requeueAfter(api.spec) = 0 => api.spec = {0})
  BY DelayFields, VersionFields DEF Base, TypeOK, FrameOK
<1>1. pc # "idle" /\ since # now /\ since' = since
  BY UpdateFields, ReportFields DEF Base
<1>2. /\ rc.rv = api.rv /\ stream = <<>> /\ wq = "none"
      /\ Live(rc) /\ rc.state = api.state /\ rc.spec = api.spec
  BY <1>1 DEF CalmInv, Base, CopyInv
<1>3. Exists(api) /\ Live(api)
  BY <1>2 DEF Exists, Live
<1>4. StatusWritten
  BY <1>1, <1>2, <1>3, UpdateFields, ReportFields DEF Base
<1>5. Live(api') /\ api'.spec = api.spec
  BY <1>2, <1>4 DEF StatusWritten, Live, SameStatus
<1>6. (api' = api /\ stream' = <<>>) \/ stream' = <<api'>>
  BY <1>2, <1>4 DEF StatusWritten, Replace, Published
<1>7. AddAfter(wq) = "waiting" /\ wq # "ready"
  BY <1>2 DEF AddAfter
<1>8. ASSUME pc = "update"
      PROVE  \/ api.spec = {0} /\ wq' = "none"
             \/ requeueAfter(api.spec) > 0 /\ wq' = "waiting" /\ due' = now + requeueAfter(api.spec)
  <2>1. UpdateStatus
    BY <1>8, ReportFields DEF Base
  <2>2. Requeued(requeueAfter(api.spec))
    BY <1>1, <1>2, <1>3, <2>1, UpdateFields DEF Base
  <2> QED BY <1>0, <1>2, <1>7, <2>2 DEF Requeued
<1>9. ASSUME pc = "report" PROVE wq' = "waiting" /\ due' = now + Retry
  <2>1. Requeued(Retry)
    BY <1>9, UpdateFields, ReportFields DEF Base
  <2> QED BY <1>7, <2>1, DelaysAssumption DEF Requeued
<1> QED BY <1>0, <1>1, <1>2, <1>3, <1>4, <1>5, <1>6, <1>8, <1>9

(* A tick is quiet until something happens. *)
LEMMA CalmNext == Base /\ CalmInv /\ [Next]_vars => CalmInv'
<1> SUFFICES ASSUME Base, CalmInv, [Next]_vars PROVE CalmInv'
  OBVIOUS
<1>0. now \in Nat /\ stream \in Seq(Version) /\ TypeOK
  BY TimeNat DEF Base, TypeOK, FrameOK
<1>1. ASSUME since' = now' PROVE CalmInv'
  BY <1>1 DEF CalmInv
<1>2. CASE User \/ CrashRestart
  BY <1>0, <1>1, <1>2, CreateFields, EditFields, AnnotateFields, DeleteFields, ElsewhereFields, RestartFields
     DEF User, Reconciling
<1>3. CASE InformerReceives
  <2>1. Len(stream) = 1 => stream' = <<>>
    BY <1>0, <1>3, ReceiveFields
  <2> QED BY <1>3, <2>1, ReceiveFields DEF CalmInv
<1>4. CASE DelayExpires
  BY <1>0, <1>4, ExpireFields DEF CalmInv, TypeOK
<1>5. CASE Tick
  BY <1>5, TickFields DEF CalmInv
<1>6. CASE Begin
  <2>1. stream = <<>> => store = api
    BY UpToDate DEF Base
  <2>2. since = now \/ (stream = <<>> /\ wq' = "none" /\ (pc' # "idle" => rc'.rv = api.rv))
    BY <1>0, <1>6, <2>1, BeginFields DEF CalmInv
  <2> QED BY <1>0, <1>6, <2>2, BeginFields DEF CalmInv
<1>7. CASE Check \/ Fetch
  BY <1>0, <1>7, CheckFields, FetchFields DEF CalmInv
<1>8. CASE UpdateStatus \/ Report
  <2>1. pc' = "idle" /\ now' = now
    BY <1>0, <1>8, UpdateFields, ReportFields
  <2>2. CASE since' # now
    <3>1. pc \in {"update", "report"}
      BY <1>0, <1>8, UpdateFields, ReportFields
    <3>2. (wq' = "none" \/ wq' = "waiting") /\ (wq' = "waiting" => now' < due')
      BY <1>0, <1>8, <2>1, <2>2, <3>1, QuietEnd, DelaysAssumption
    <3>3. stream' = <<>> \/ Len(stream') = 1
      BY <1>8, <2>2, QuietEnd
    <3> QED BY <2>1, <3>2, <3>3 DEF CalmInv
  <2> QED BY <1>1, <2>1, <2>2
<1>9. CASE UNCHANGED vars
  BY <1>9 DEF vars, CalmInv
<1> QED BY <1>2, <1>3, <1>4, <1>5, <1>6, <1>7, <1>8, <1>9 DEF Next, User, Working

(* What the queue holds: a delayed key comes after its reconcile and is not
   overdue; a key that was dropped comes back only with an event. *)
QueueInv ==
  /\ wq = "waiting" => pc = "idle" /\ (now <= due \/ since = now)
  /\ dropped => pc = "idle" /\ wq # "waiting" /\ (wq = "ready" \/ stream # <<>> => since = now)
  /\ Live(api) /\ pc = "idle" /\ stream = <<>> /\ wq = "none" => dropped \/ api.spec = {0}

(* A user's write is published to the informer. *)
LEMMA UserWrites ==
  ASSUME TypeOK, CreateResource \/ EditResource \/ AnnotateResource \/ DeleteResource
  PROVE  stream' # <<>> /\ since' = now /\ UNCHANGED <<Reconciling, pipeline, known, latest>>
<1>1. api.rv \in Nat /\ stream \in Seq(Version)
  BY VersionFields DEF TypeOK, FrameOK
<1>2. api' # api /\ Replace(api') /\ since' = now /\ UNCHANGED <<Reconciling, pipeline, known, latest>>
  BY <1>1, CreateFields, EditFields, AnnotateFields, DeleteFields
<1>3. stream' = Append(stream, api')
  BY <1>2 DEF Replace, Published
<1> QED BY <1>1, <1>2, <1>3

(* How a reconcile ends in a tick in which something has happened. *)
LEMMA DisturbedEnd ==
  ASSUME TypeOK, UpdateStatus \/ Report, since' = now, wq # "waiting"
  PROVE  wq' = "waiting" =>
           \/ due' \in {0, now + Retry}
           \/ StatusWritten /\ requeueAfter(rc.spec) > 0 /\ due' = now + requeueAfter(rc.spec)
<1> SUFFICES ASSUME wq' = "waiting"
             PROVE  \/ due' \in {0, now + Retry}
                    \/ StatusWritten /\ requeueAfter(rc.spec) > 0 /\ due' = now + requeueAfter(rc.spec)
  OBVIOUS
<1>1. CASE Failed
  BY <1>1 DEF Failed
<1>2. ASSUME NEW d \in Nat, Requeued(d) PROVE d > 0 /\ due' = now + d
  BY <1>2 DEF Requeued, AddAfter
<1>3. requeueAfter(rc.spec) \in Nat /\ Retry \in Nat
  BY DelayFields, VersionFields, DelaysAssumption DEF TypeOK, FrameOK
<1> QED BY <1>1, <1>2, <1>3, UpdateFields, ReportFields

(* Whatever the key of a live Resource is waiting for, it is not lost. *)
LEMMA QueueNext == Base /\ CalmInv /\ QueueInv /\ [Next]_vars => QueueInv'
<1> SUFFICES ASSUME Base, CalmInv, QueueInv, [Next]_vars PROVE QueueInv'
  OBVIOUS
<1>0. TypeOK /\ now \in Nat /\ due \in Nat /\ wq \in QueueStates
  BY TimeNat DEF Base, TypeOK, FrameOK
<1>1. CASE CreateResource \/ EditResource \/ AnnotateResource \/ DeleteResource
  BY <1>0, <1>1, UserWrites DEF QueueInv, Reconciling
<1>2. CASE PipelineChanges \/ PipelineReset \/ VersionAppears
  BY <1>0, <1>2, ElsewhereFields DEF QueueInv, Reconciling
<1>3. CASE InformerReceives
  BY <1>3, ReceiveFields DEF QueueInv
<1>4. CASE DelayExpires
  BY <1>4, ExpireFields DEF QueueInv
<1>5. CASE Tick
  BY <1>0, <1>5, TickFields DEF QueueInv
<1>6. CASE Begin
  <2>1. stream = <<>> => store = api
    BY UpToDate DEF Base
  <2>2. stream = <<>> \/ since = now
    BY <1>0, <1>6, BeginFields DEF CalmInv
  <2> QED BY <1>0, <1>6, <2>1, <2>2, BeginFields DEF QueueInv
<1>7. CASE Check \/ Fetch
  BY <1>0, <1>7, CheckFields, FetchFields DEF QueueInv
<1>8. CASE UpdateStatus \/ Report
  <2>1. /\ pc # "idle" /\ pc \in {"update", "report"} /\ pc' = "idle" /\ now' = now /\ wq # "waiting" /\ ~dropped'
    BY <1>0, <1>8, UpdateFields, ReportFields DEF QueueInv
  <2>2. CASE since' # now
    <3>1. wq' = "waiting" => now <= due'
      BY <1>0, <1>8, <2>1, <2>2, QuietEnd, DelaysAssumption
    <3>2. wq' = "none" => api'.spec = {0}
      BY <1>8, <2>1, <2>2, QuietEnd
    <3> QED BY <2>1, <3>1, <3>2 DEF QueueInv
  <2>3. CASE since' = now
    <3>1. wq' = "none" => api'.spec = {0}
      <4> SUFFICES ASSUME wq' = "none" PROVE api'.spec = {0}
        OBVIOUS
      <4>1. AddAfter(wq) # "none"
        BY DEF AddAfter
      <4>2. ~Failed /\ ~Requeued(Retry)
        BY <4>1, DelaysAssumption DEF Failed, Requeued
      <4>3. StatusWritten /\ Requeued(requeueAfter(rc.spec))
        BY <1>0, <1>8, <4>2, UpdateFields, ReportFields
      <4>4. requeueAfter(rc.spec) = 0
        BY <4>1, <4>3 DEF Requeued
      <4>5. rc.spec = {0}
        BY <1>0, <4>4, DelayFields, VersionFields DEF TypeOK, FrameOK
      <4> QED BY <4>3, <4>5 DEF StatusWritten, SameStatus
    <3> QED BY <2>1, <2>3, <3>1 DEF QueueInv
  <2> QED BY <2>2, <2>3
<1>9. CASE CrashRestart
  BY <1>0, <1>9, RestartFields DEF QueueInv, Exists, Live
<1>10. CASE UNCHANGED vars
  BY <1>10 DEF vars, QueueInv
<1> QED BY <1>1, <1>2, <1>3, <1>4, <1>5, <1>6, <1>7, <1>8, <1>9, <1>10 DEF Next, User, Working

(* A check that was asked for is in the record, or about to get there, unless
   something has happened since. *)
RecordInv ==
  /\ \A u \in asked :
       \/ since >= u \/ api.lastChecked = {Truncated(u)}
       \/ pc \in {"fetch", "update"} /\ rc.lastChecked = {Truncated(u)}
  /\ NotTooOften

(* A check is on record before the next one can be due. *)
LEMMA RecordNext == Base /\ CalmInv /\ RecordInv /\ [Next]_vars => RecordInv'
<1> SUFFICES ASSUME Base, CalmInv, RecordInv, [Next]_vars PROVE RecordInv'
  OBVIOUS
<1>0. /\ TypeOK /\ now \in Nat /\ since \in Nat /\ asked \subseteq Nat /\ \A u, w \in asked : u = w
      /\ \A u \in asked : u <= now
      /\ api \in Version /\ rc \in Version /\ store \in Version
  <2>1. TypeOK /\ now \in Nat /\ since \in Nat /\ asked \in Optional(Time)
        /\ api \in Version /\ rc \in Version /\ store \in Version
    BY TimeNat DEF Base, TypeOK, FrameOK
  <2>2. asked \subseteq Nat /\ \A u, w \in asked : u = w
    BY <2>1, OptionalFields, TimeNat
  <2> QED BY <2>1, <2>2 DEF Base, PastInv
<1>1. ASSUME since' = now', UNCHANGED now PROVE RecordInv'
  <2>1. \A u \in asked' : u <= now'
    BY BaseNext DEF Base, PastInv
  <2>2. asked' \in Optional(Time)
    BY BaseNext DEF Base, TypeOK
  <2>3. asked' \subseteq Nat
    BY <2>2, OptionalFields, TimeNat
  <2> QED BY <1>0, <1>1, <2>1, <2>3 DEF RecordInv, NotTooOften
<1>2. CASE User \/ CrashRestart
  BY <1>0, <1>1, <1>2, CreateFields, EditFields, AnnotateFields, DeleteFields, ElsewhereFields, RestartFields
     DEF User, Reconciling
<1>3. CASE InformerReceives \/ DelayExpires \/ UNCHANGED vars
  BY <1>3, ReceiveFields, ExpireFields DEF RecordInv, NotTooOften, vars
<1>4. CASE Tick
  BY <1>4, TickFields DEF RecordInv, NotTooOften
<1>5. CASE Begin
  <2>1. stream = <<>> => store = api
    BY UpToDate DEF Base
  <2>2. UNCHANGED <<api, now, since, asked>> /\ pc = "idle"
    BY <1>0, <1>5, BeginFields
  <2>3. \A u \in asked : since >= u \/ api.lastChecked = {Truncated(u)}
    BY <2>2 DEF RecordInv
  <2>4. ASSUME pc' = "check", since # now, NEW t \in asked, NEW i \in rc'.spec
        PROVE  now - t + Sec > i \/ since >= t
    <3>1. store = api /\ shouldCheck(store) /\ rc'.spec = store.spec
      BY <1>0, <1>5, <2>1, <2>4, BeginFields DEF CalmInv, SameStatus
    <3>2. PICK j \in store.spec : \A w \in store.lastChecked : now - w >= j
      BY <3>1 DEF shouldCheck
    <3>3. i = j
      BY <1>0, <2>4, <3>1, <3>2, VersionFields
    <3>4. CASE api.lastChecked = {Truncated(t)}
      <4>1. /\ Truncated(t) \in Nat /\ t \in Nat /\ t < Truncated(t) + Sec /\ i \in Nat
        BY <1>0, <2>4, <3>1, TruncatedFields, VersionFields
      <4>2. now - Truncated(t) >= i
        BY <3>1, <3>2, <3>3, <3>4
      <4> QED BY <1>0, <4>1, <4>2, DelaysAssumption
    <3> QED BY <2>3, <3>4
  <2>5. CASE since # now
    BY <2>2, <2>3, <2>4, <2>5 DEF RecordInv, NotTooOften
  <2> QED BY <1>1, <2>2, <2>5
<1>6. CASE Check
  <2>1. CASE rc'.lastChecked = {Truncated(now)} /\ asked' = {now} /\ since' = since
    BY <1>0, <1>6, <2>1, CheckFields DEF RecordInv, NotTooOften
  <2> QED BY <1>0, <1>1, <1>6, <2>1, CheckFields
<1>7. CASE Fetch
  <2>1. CASE since' = since
    BY <1>0, <1>7, <2>1, FetchFields DEF RecordInv, NotTooOften
  <2> QED BY <1>0, <1>1, <1>7, <2>1, FetchFields
<1>8. CASE UpdateStatus \/ Report
  <2>1. /\ pc # "idle" /\ pc \in {"update", "report"} /\ pc' = "idle" /\ UNCHANGED <<now, asked>>
    BY <1>0, <1>8, UpdateFields, ReportFields
  <2>2. CASE since' # now
    <3>1. since' = since /\ api'.lastChecked = rc.lastChecked /\ rc.rv = api.rv
      BY <1>8, <2>2, QuietEnd DEF StatusWritten, SameStatus
    <3>2. rc.lastChecked \in {api.lastChecked, Recorded}
      BY <2>1, <3>1 DEF Base, CopyInv
    <3>3. ASSUME NEW u \in asked PROVE since' >= u \/ api'.lastChecked = {Truncated(u)}
      <4>1. Recorded = {Truncated(u)}
        BY <1>0 DEF Recorded
      <4> QED BY <3>1, <3>2, <4>1 DEF RecordInv
    <3> QED BY <2>1, <3>3 DEF RecordInv, NotTooOften
  <2> QED BY <1>1, <2>1, <2>2
<1> QED BY <1>2, <1>3, <1>4, <1>5, <1>6, <1>7, <1>8 DEF Next, User, Working

(* What holds of the queue and of the record in every state. *)
Queued == Base /\ CalmInv /\ QueueInv /\ RecordInv

(* It holds at the start ... *)
LEMMA QueuedInit == Init => Queued
<1> SUFFICES ASSUME Init PROVE Queued
  OBVIOUS
<1>1. CalmInv /\ RecordInv
  BY DEF Init, FrameInit, CalmInv, RecordInv, NotTooOften
<1>2. QueueInv
  BY NoResourceType DEF Init, FrameInit, QueueInv
<1> QED BY <1>1, <1>2, BaseInit DEF Queued

(* ... and every step keeps it. *)
LEMMA QueuedNext == Queued /\ [Next]_vars => Queued'
BY BaseNext, CalmNext, QueueNext, RecordNext DEF Queued

(* ResourceReconciler does not ask for a check again before the interval is over,
   but for the part of a second that the record does not show, unless something
   has happened since the last one: a change, a lost answer, a failed check or a
   restart. *)
THEOREM NotTooOftenCorrect == Spec => []NotTooOften
<1>1. Queued => NotTooOften
  BY DEF Queued, RecordInv
<1> QED BY <1>1, QueuedInit, QueuedNext, PTL DEF Spec
-----------------------------------------------------------------------------
(* Checks in time. *)

(* What a reconcile at this moment makes up for: something has happened within
   the last Retry, or the Resource has no interval to be checked at. *)
Excused == now <= since + Retry \/ ~Live(api) \/ api.spec \subseteq {0}

(* When a delayed key is due, for the interval i. *)
DueFor(i) ==
  \/ due <= since + Retry
  \/ pipeline # "ready" /\ due <= now + Retry
  \/ /\ \A t \in api.lastChecked : t + i <= due
     /\ due <= since + i + Retry \/ \E u \in asked : due <= u + i

(* Whenever the controller is going to look at the Resource, it is because of
   something that happened, of a check it has just made, or because a check is
   due. *)
WakeInv ==
  /\ stream # <<>> => Excused \/ pipeline # "ready" \/ asked = {now}
  /\ wq = "ready" =>
       Excused \/ pipeline # "ready" \/ asked = {now} \/ \A i \in api.spec, t \in api.lastChecked : t + i <= now
  /\ pc \in {"fetch", "update"} => Excused \/ asked = {now}
  /\ pc = "report" => pipeline # "ready" \/ since = now

(* A delayed key is due in time for every interval. *)
DueInv == wq = "waiting" /\ stream = <<>> /\ Live(api) => \A i \in api.spec \ {0} : DueFor(i)

(* The types and the past, as the arithmetic of the proofs below needs them. *)
LEMMA Times ==
  ASSUME Base
  PROVE  /\ TypeOK /\ now \in Nat /\ since \in Nat /\ since <= now /\ due \in Nat
         /\ Retry \in Nat \ {0} /\ Poll \in Nat \ {0}
         /\ asked \subseteq Nat /\ \A u \in asked : u <= now
         /\ api \in Version /\ api.spec \in Specs /\ api.spec \subseteq Nat /\ \A i, j \in api.spec : i = j
         /\ api.lastChecked \subseteq Nat /\ \A t \in api.lastChecked : t <= now
<1>1. TypeOK /\ now \in Time /\ since \in Time /\ due \in Nat /\ asked \in Optional(Time) /\ api \in Version
  BY DEF Base, TypeOK, FrameOK
<1>2. now \in Nat /\ since \in Nat /\ asked \subseteq Nat
  BY <1>1, OptionalFields, TimeNat
<1>3. since <= now /\ (\A u \in asked : u <= now) /\ Past(api, latest, asked)
  BY DEF Base, PastInv, Seen
<1>4. /\ api.spec \in Specs /\ api.spec \subseteq Nat /\ \A i, j \in api.spec : i = j
      /\ api.lastChecked \subseteq Nat
  BY <1>1, VersionFields, TimeNat
<1>5. ASSUME NEW t \in api.lastChecked PROVE t <= now
  <2>1. PICK u \in asked : t <= Truncated(u)
    BY <1>3 DEF Past
  <2>2. Truncated(u) \in Nat /\ Truncated(u) <= u
    BY <1>2, <2>1, TruncatedFields
  <2> QED BY <1>2, <1>3, <1>4, <2>1, <2>2
<1> QED BY <1>1, <1>2, <1>3, <1>4, <1>5, DelaysAssumption

(* The reasons to look at the Resource, step by step. *)
LEMMA WakeNext == Queued /\ WakeInv /\ DueInv /\ [Next]_vars => WakeInv'
<1> SUFFICES ASSUME Queued, WakeInv, DueInv, [Next]_vars PROVE WakeInv'
  OBVIOUS
<1>0. Base /\ CalmInv /\ QueueInv
  BY DEF Queued
<1>1. TypeOK /\ now \in Nat /\ since \in Nat /\ since <= now /\ Retry \in Nat
  BY <1>0, Times
<1>2. ASSUME since' = now, now' = now PROVE WakeInv'
  BY <1>1, <1>2 DEF WakeInv, Excused
<1>3. CASE User \/ CrashRestart
  BY <1>1, <1>2, <1>3, CreateFields, EditFields, AnnotateFields, DeleteFields, ElsewhereFields, RestartFields
     DEF User, Reconciling
<1>4. CASE InformerReceives
  BY <1>4, ReceiveFields DEF WakeInv, Excused
<1>5. CASE DelayExpires
  <2>1. /\ due <= now /\ wq = "waiting" /\ wq' = "ready"
        /\ UNCHANGED <<api, stream, pc, pipeline, asked, now, since>>
    BY <1>5, ExpireFields
  <2>2. CASE stream # <<>>
    BY <2>1, <2>2 DEF WakeInv, Excused
  <2>3. CASE stream = <<>> /\ since # now /\ ~Excused
    <3>1. due = now
      BY <1>0, <2>1, <2>3, Times DEF QueueInv
    <3>2. PICK i \in api.spec \ {0} : TRUE
      BY <2>3 DEF Excused
    <3>3. Live(api) /\ DueFor(i) /\ now > since + Retry
      BY <1>1, <2>1, <2>3, <3>2 DEF DueInv, Excused
    <3>4. pipeline # "ready" \/ \A t \in api.lastChecked : t + i <= now
      BY <1>1, <3>1, <3>3 DEF DueFor
    <3>5. \A j \in api.spec : j = i
      BY <1>0, <3>2, Times
    <3> QED BY <2>1, <2>3, <3>4, <3>5 DEF WakeInv
  <2>4. CASE stream = <<>> /\ Excused
    BY <2>1, <2>4 DEF WakeInv, Excused
  <2> QED BY <1>2, <2>1, <2>2, <2>3, <2>4
<1>6. CASE Tick
  BY <1>6, TickFields DEF WakeInv
<1>7. CASE Begin
  <2>1. wq = "ready" /\ wq' = "none" /\ UNCHANGED <<api, stream, pipeline, asked, now, since>>
    BY <1>1, <1>7, BeginFields
  <2>2. stream = <<>> => store = api
    BY <1>0, UpToDate DEF Base
  <2>3. ASSUME pc' = "fetch", since # now PROVE Excused \/ asked = {now}
    <3>1. store = api /\ ~shouldCheck(api) /\ pipeline = "ready"
      BY <1>0, <1>1, <1>7, <2>1, <2>2, <2>3, BeginFields DEF CalmInv
    <3>2. ASSUME ~Excused, \A i \in api.spec, t \in api.lastChecked : t + i <= now PROVE FALSE
      <4>1. PICK i \in api.spec \ {0} : TRUE
        BY <3>2 DEF Excused
      <4>2. PICK t \in api.lastChecked : ~(now - t >= i)
        BY <3>1, <4>1 DEF shouldCheck
      <4>3. t \in Nat /\ i \in Nat /\ t <= now
        BY <1>0, <4>1, <4>2, Times
      <4> QED BY <1>1, <3>2, <4>1, <4>2, <4>3
    <3> QED BY <2>1, <3>1, <3>2 DEF WakeInv
  <2>4. CASE since # now
    <3>1. pc' \in {"idle", "report", "check", "fetch"} /\ (pc' = "report" => pipeline # "ready")
      BY <1>1, <1>7, BeginFields
    <3> QED BY <2>1, <2>3, <2>4, <3>1 DEF WakeInv, Excused
  <2> QED BY <1>2, <2>1, <2>4
<1>8. CASE Check
  <2>1. CASE asked' = {now} /\ since' = since
    BY <1>1, <1>8, <2>1, CheckFields DEF WakeInv
  <2> QED BY <1>1, <1>2, <1>8, <2>1, CheckFields
<1>9. CASE Fetch
  <2>1. CASE since' = since
    BY <1>1, <1>9, <2>1, FetchFields DEF WakeInv, Excused
  <2> QED BY <1>1, <1>2, <1>9, <2>1, FetchFields
<1>10. CASE UpdateStatus \/ Report
  <2>1. pc \in {"update", "report"} /\ pc' = "idle" /\ UNCHANGED <<pipeline, asked, now>>
    BY <1>1, <1>10, UpdateFields, ReportFields
  <2>2. CASE since' # now
    <3>1. since' = since /\ Live(api) /\ Live(api') /\ api'.spec = api.spec /\ wq' # "ready"
      BY <1>0, <1>10, <2>1, <2>2, QuietEnd
    <3>2. Excused \/ pipeline # "ready" \/ asked = {now}
      BY <2>1, <2>2, <3>1 DEF WakeInv
    <3> QED BY <2>1, <3>1, <3>2 DEF WakeInv, Excused
  <2> QED BY <1>2, <2>1, <2>2
<1>11. CASE UNCHANGED vars
  BY <1>11 DEF vars, WakeInv, Excused
<1> QED BY <1>3, <1>4, <1>5, <1>6, <1>7, <1>8, <1>9, <1>10, <1>11 DEF Next, User, Working

(* After every reconcile the key comes back in time for the next check. *)
LEMMA DueNext == Queued /\ WakeInv /\ DueInv /\ [Next]_vars => DueInv'
<1> SUFFICES ASSUME Queued, WakeInv, DueInv, [Next]_vars, wq' = "waiting", stream' = <<>>, Live(api'),
                    NEW i \in api'.spec \ {0}
             PROVE  DueFor(i)'
  BY DEF DueInv
<1>0. Base /\ CalmInv /\ QueueInv
  BY DEF Queued
<1>1. /\ TypeOK /\ now \in Nat /\ since \in Nat /\ since <= now /\ due \in Nat /\ Retry \in Nat
      /\ asked \subseteq Nat /\ \A u \in asked : u <= now
  BY <1>0, Times
<1>2. i \in Nat /\ api' \in Version /\ (\A t \in api'.lastChecked : t \in Nat /\ t <= now') /\ Base'
  <2>1. Base'
    BY <1>0, BaseNext
  <2>2. api' \in Version
    BY <2>1 DEF Base, TypeOK, FrameOK
  <2>3. Past(api', latest', asked') /\ (\A u \in asked' : u <= now') /\ now' \in Time
        /\ asked' \in Optional(Time)
    BY <2>1 DEF Base, PastInv, Seen, TypeOK
  <2>4. api'.lastChecked \subseteq Nat /\ asked' \subseteq Nat /\ now' \in Nat /\ api'.spec \subseteq Nat
    BY <2>2, <2>3, VersionFields, OptionalFields, TimeNat
  <2>5. ASSUME NEW t \in api'.lastChecked PROVE t <= now'
    <3>1. PICK u \in asked' : t <= Truncated(u)
      BY <2>3 DEF Past
    <3>2. Truncated(u) \in Nat /\ Truncated(u) <= u
      BY <2>4, <3>1, TruncatedFields
    <3> QED BY <2>3, <2>4, <3>1, <3>2
  <2> QED BY <2>1, <2>2, <2>4, <2>5
<1>3. CASE CreateResource \/ EditResource \/ AnnotateResource \/ DeleteResource
  BY <1>1, <1>3, UserWrites
<1>4. CASE PipelineChanges \/ PipelineReset \/ VersionAppears
  <2>1. UNCHANGED <<api, stream, wq, due, asked, now>> /\ since' = now
    BY <1>1, <1>4, ElsewhereFields DEF Reconciling
  <2>2. DueFor(i)
    BY <2>1 DEF DueInv
  <2>3. due <= now + Retry \/ due <= now + i + Retry \/ \E u \in asked : due <= u + i
    BY <1>1, <1>2, <2>2 DEF DueFor
  <2> QED BY <1>1, <1>2, <2>1, <2>2, <2>3 DEF DueFor
<1>5. CASE InformerReceives \/ DelayExpires \/ Begin \/ CrashRestart
  BY <1>1, <1>5, ReceiveFields, ExpireFields, BeginFields, RestartFields
<1>6. CASE Tick
  <2>1. UNCHANGED <<api, stream, wq, due, asked, since, pipeline>> /\ now' = now + 1
    BY <1>6, TickFields
  <2>2. DueFor(i)
    BY <2>1 DEF DueInv
  <2> QED BY <1>1, <2>1, <2>2 DEF DueFor
<1>7. CASE Check \/ Fetch
  BY <1>0, <1>1, <1>7, CheckFields, FetchFields DEF QueueInv
<1>8. CASE UpdateStatus \/ Report
  <2>1. /\ pc \in {"update", "report"} /\ pc # "idle" /\ wq # "waiting"
        /\ UNCHANGED <<pipeline, asked, now>>
    BY <1>0, <1>1, <1>8, UpdateFields, ReportFields DEF QueueInv
  <2>2. CASE since' # now /\ pc = "update"
    <3>1. since' = since /\ since # now /\ Live(api) /\ api'.spec = api.spec
          /\ due' = now + requeueAfter(api.spec)
      BY <1>0, <1>8, <2>2, QuietEnd
    <3>2. requeueAfter(api.spec) = i
      BY <1>0, <3>1, DelayFields, Times
    <3>3. now <= since + Retry \/ asked = {now}
      BY <2>2, <3>1 DEF WakeInv, Excused
    <3> QED BY <1>1, <1>2, <2>1, <3>1, <3>2, <3>3 DEF DueFor
  <2>3. CASE since' # now /\ pc = "report"
    <3>1. since' = since /\ due' = now + Retry
      BY <1>0, <1>8, <2>3, QuietEnd
    <3>2. pipeline # "ready"
      BY <2>3, <3>1 DEF WakeInv
    <3> QED BY <1>1, <2>1, <3>1, <3>2 DEF DueFor
  <2>4. CASE since' = now
    <3>1. CASE due' \in {0, now + Retry}
      BY <1>1, <2>1, <2>4, <3>1 DEF DueFor
    <3>2. CASE StatusWritten /\ due' = now + requeueAfter(rc.spec)
      <4>1. api'.spec = rc.spec
        BY <3>2 DEF StatusWritten, SameStatus
      <4>2. requeueAfter(rc.spec) = i
        BY <1>2, <4>1, DelayFields, VersionFields
      <4> QED BY <1>1, <1>2, <2>1, <2>4, <3>2, <4>2 DEF DueFor
    <3> QED BY <1>1, <1>8, <2>1, <2>4, <3>1, <3>2, DisturbedEnd
  <2> QED BY <2>1, <2>2, <2>3, <2>4
<1>9. CASE UNCHANGED vars
  BY <1>9 DEF vars, DueInv, DueFor
<1> QED BY <1>3, <1>4, <1>5, <1>6, <1>7, <1>8, <1>9 DEF Next, User, Working

(* While nothing else happens Concourse is asked for a check every interval. *)
AskedInTime ==
  Followed => \A i \in api.spec \ {0} :
    (\E t \in asked : now - t <= i) \/ now - since <= i + Retry

(* Concourse is never asked too late. *)
LEMMA CheckedNext == Queued /\ WakeInv /\ DueInv /\ AskedInTime /\ [Next]_vars => AskedInTime'
<1> SUFFICES ASSUME Queued, WakeInv, DueInv, AskedInTime, [Next]_vars, Followed', NEW i \in api'.spec \ {0}
             PROVE  (\E t \in asked' : now' - t <= i) \/ now' - since' <= i + Retry
  BY DEF AskedInTime
<1> DEFINE Goal == (\E t \in asked' : now' - t <= i) \/ now' - since' <= i + Retry
<1>0. Base /\ CalmInv /\ QueueInv
  BY DEF Queued
<1>1. /\ TypeOK /\ now \in Nat /\ since \in Nat /\ since <= now /\ due \in Nat /\ Retry \in Nat
      /\ asked \subseteq Nat /\ \A u \in asked : u <= now
  BY <1>0, Times
<1>2. i \in Nat
  <2>1. api' \in Version
    BY <1>1, TypeNext DEF TypeOK, FrameOK
  <2> QED BY <2>1, VersionFields
<1>3. ASSUME since' = now, now' = now PROVE Goal
  BY <1>1, <1>2, <1>3
<1>4. ASSUME Followed, api'.spec = api.spec, UNCHANGED <<asked, now, since>> PROVE Goal
  BY <1>4 DEF AskedInTime
<1>5. CASE User \/ CrashRestart
  BY <1>1, <1>3, <1>5, CreateFields, EditFields, AnnotateFields, DeleteFields, ElsewhereFields, RestartFields
     DEF User, Reconciling
<1>6. CASE InformerReceives \/ DelayExpires \/ UNCHANGED vars
  <2>1. UNCHANGED <<api, pipeline, dropped, asked, now, since>>
    BY <1>6, ReceiveFields, ExpireFields DEF vars
  <2> QED BY <1>4, <2>1 DEF Followed
<1>7. CASE Tick
  <2>1. /\ now' = now + 1 /\ pc = "idle" /\ stream = <<>> /\ (wq = "none" \/ (wq = "waiting" /\ now < due))
        /\ UNCHANGED <<api, pipeline, dropped, asked, since>>
    BY <1>7, TickFields
  <2>2. Live(api) /\ pipeline = "ready" /\ ~dropped /\ i \in api.spec \ {0}
    BY <2>1 DEF Followed
  <2>3. wq = "waiting" /\ now' <= due /\ DueFor(i)
    BY <1>0, <1>1, <2>1, <2>2 DEF QueueInv, DueInv
  <2>4. due <= since + Retry \/ due <= since + i + Retry \/ \E u \in asked : due <= u + i
    BY <2>2, <2>3 DEF DueFor
  <2> QED BY <1>1, <1>2, <2>1, <2>3, <2>4
<1>8. CASE Begin
  <2>1. wq = "ready" /\ UNCHANGED <<api, pipeline, asked, now, since>>
    BY <1>1, <1>8, BeginFields
  <2>2. CASE dropped
    BY <1>0, <1>3, <2>1, <2>2 DEF QueueInv
  <2>3. CASE ~dropped
    BY <1>4, <2>1, <2>3 DEF Followed
  <2> QED BY <2>2, <2>3
<1>9. CASE Check
  <2>1. CASE asked' = {now} /\ since' = since
    BY <1>1, <1>2, <1>9, <2>1, CheckFields
  <2> QED BY <1>1, <1>3, <1>9, <2>1, CheckFields
<1>10. CASE Fetch
  <2>1. CASE since' = since
    BY <1>1, <1>4, <1>10, <2>1, FetchFields DEF Followed
  <2> QED BY <1>1, <1>3, <1>10, <2>1, FetchFields
<1>11. CASE UpdateStatus \/ Report
  <2>1. UNCHANGED <<pipeline, dropped, asked, now>>
    BY <1>1, <1>11, UpdateFields, ReportFields
  <2>2. CASE since' # now
    BY <1>0, <1>4, <1>11, <2>1, <2>2, QuietEnd DEF Followed
  <2> QED BY <1>3, <2>1, <2>2
<1> QED BY <1>5, <1>6, <1>7, <1>8, <1>9, <1>10, <1>11 DEF Next, User, Working

(* All that keeps the checks in time. *)
Timely == Queued /\ WakeInv /\ DueInv /\ AskedInTime

(* It holds at the start, when nothing is followed ... *)
LEMMA TimelyInit == Init => Timely
<1> SUFFICES ASSUME Init PROVE Timely
  OBVIOUS
<1>1. WakeInv /\ DueInv
  BY DEF Init, FrameInit, WakeInv, DueInv
<1>2. AskedInTime
  BY NoResourceType DEF Init, FrameInit, AskedInTime, Followed
<1> QED BY <1>1, <1>2, QueuedInit DEF Timely

(* ... and every step keeps it. *)
LEMMA TimelyNext == Timely /\ [Next]_vars => Timely'
BY QueuedNext, WakeNext, DueNext, CheckedNext DEF Timely

(* If Concourse has the resource, it started the check it was last asked for,
   unless something has happened since. *)
StartedInv == known => started = asked \/ \A u \in asked : since >= u

(* What Concourse is asked for is started, or a change or a fault is to blame. *)
LEMMA StartedNext == Base /\ StartedInv /\ [Next]_vars => StartedInv'
<1> SUFFICES ASSUME Base, StartedInv, [Next]_vars PROVE StartedInv'
  OBVIOUS
<1>1. TypeOK
  BY Times
<1>2. ASSUME since' = now, now' = now PROVE StartedInv'
  <2>1. \A u \in asked' : u <= now'
    BY BaseNext DEF Base, PastInv
  <2>2. asked' \in Optional(Time) /\ now' \in Time
    BY BaseNext DEF Base, TypeOK
  <2>3. asked' \subseteq Nat /\ now' \in Nat
    BY <2>2, OptionalFields, TimeNat
  <2> QED BY <1>2, <2>1, <2>3 DEF StartedInv
<1>3. ASSUME UNCHANGED <<known, asked, started, since>> PROVE StartedInv'
  BY <1>3 DEF StartedInv
<1>4. CASE User \/ CrashRestart
  BY <1>1, <1>2, <1>4, CreateFields, EditFields, AnnotateFields, DeleteFields, ElsewhereFields, RestartFields
     DEF User, Reconciling
<1>5. CASE InformerReceives \/ DelayExpires \/ Tick \/ Begin \/ UNCHANGED vars
  BY <1>1, <1>3, <1>5, ReceiveFields, ExpireFields, TickFields, BeginFields DEF vars
<1>6. CASE Check
  <2>1. CASE since' = since /\ since # now
    BY <1>1, <1>6, <2>1, CheckFields DEF StartedInv
  <2> QED BY <1>1, <1>2, <1>6, <2>1, CheckFields
<1>7. CASE Fetch \/ UpdateStatus \/ Report
  BY <1>1, <1>2, <1>3, <1>7, FetchFields, UpdateFields, ReportFields
<1> QED BY <1>4, <1>5, <1>6, <1>7 DEF Next, Working

(* While its chain is ready and nothing happens, Concourse checks the resource of
   a live Resource every interval, and one interval and one Retry after something
   has happened; provided that it has the resource. *)
THEOREM CheckedCorrect == Spec => []CheckedInTime
<1>1. Timely /\ StartedInv => CheckedInTime
  <2> SUFFICES ASSUME Timely, StartedInv, Followed, known, NEW i \in api.spec \ {0}
               PROVE  (\E t \in started : now - t <= i) \/ now - since <= i + Retry
    BY DEF CheckedInTime
  <2>1. /\ now \in Nat /\ since \in Nat /\ since <= now /\ Retry \in Nat
        /\ asked \subseteq Nat /\ api.spec \subseteq Nat
    BY Times DEF Timely, Queued
  <2>2. (\E t \in asked : now - t <= i) \/ now - since <= i + Retry
    BY DEF Timely, AskedInTime
  <2>3. ASSUME NEW t \in asked, now - t <= i, since >= t PROVE now - since <= i + Retry
    BY <2>1, <2>3
  <2> QED BY <2>2, <2>3 DEF StartedInv
<1>2. Timely => Base
  BY DEF Timely, Queued
<1>3. Init => StartedInv
  BY DEF Init, StartedInv
<1> QED BY <1>1, <1>2, <1>3, TimelyInit, TimelyNext, StartedNext, PTL DEF Spec
-----------------------------------------------------------------------------
(* The status in time. *)

(* The status of x says what there is to say: the latest version l if Concourse
   has one (k), the current generation, Ready. *)
Current(x, k, l) == (k => x.latest = l) /\ x.observed = x.gen /\ x.ready = "Ready"

(* The delays after which the controller looks at a Resource again. *)
Delays(spec) == {Retry} \cup (IF spec = {} THEN {Poll} ELSE spec)

(* A reconcile that nothing has disturbed is about to write a current status. *)
CopyCurrent == pc = "update" => since = now \/ Current(rc, known, latest)

(* A delayed key is due one of the Resource's delays from now; if the status is
   not current, one such delay after what made it so. *)
LookInv ==
  wq = "waiting" /\ stream = <<>> /\ Live(api) /\ api.spec # {0} =>
    /\ \E d \in Delays(api.spec) : due <= now + d
    /\ \/ Current(api, known, latest)
       \/ pipeline # "ready" /\ due <= now + Retry
       \/ \E d \in Delays(api.spec) : due <= since + d

(* A delay is a natural number, and Retry and the delay of a reconcile are delays. *)
LEMMA DelaysFields ==
  ASSUME NEW spec \in Specs
  PROVE  Delays(spec) \subseteq Nat /\ Retry \in Delays(spec) /\ requeueAfter(spec) \in Delays(spec)
<1>1. spec \subseteq Nat
  BY SpecsAssumption
<1>2. CASE spec = {}
  BY <1>2, DelaysAssumption, DelayFields DEF Delays
<1>3. ASSUME NEW i \in spec PROVE requeueAfter(spec) \in Delays(spec) /\ Delays(spec) = {Retry} \cup spec
  BY <1>3, DelayFields DEF Delays
<1> QED BY <1>1, <1>2, <1>3, DelaysAssumption DEF Delays

(* The latest version is fetched before the status is written. *)
LEMMA CopyCurrentNext == Base /\ CopyCurrent /\ [Next]_vars => CopyCurrent'
<1> SUFFICES ASSUME Base, CopyCurrent, [Next]_vars, pc' = "update"
             PROVE  since' = now' \/ Current(rc', known', latest')
  BY DEF CopyCurrent, Current
<1>0. TypeOK /\ now \in Nat
  BY Times
<1>1. CASE User \/ CrashRestart
  BY <1>0, <1>1, CreateFields, EditFields, AnnotateFields, DeleteFields, ElsewhereFields, RestartFields
     DEF User, Reconciling
<1>2. CASE InformerReceives \/ DelayExpires \/ UNCHANGED vars
  BY <1>2, ReceiveFields, ExpireFields DEF CopyCurrent, Current, vars
<1>3. CASE Tick \/ Begin \/ Check \/ UpdateStatus \/ Report
  BY <1>0, <1>3, TickFields, BeginFields, CheckFields, UpdateFields, ReportFields
<1>4. CASE Fetch
  <2>1. rc.latest \in Nat /\ latest \in Nat /\ rc.latest <= latest
    BY <1>0, VersionFields DEF TypeOK, FrameOK, Base, PastInv, Past
  <2>2. CASE since' = since /\ (known => rc'.latest = latest \/ latest = 0)
    <3>1. known => rc'.latest = latest
      BY <1>0, <1>4, <2>1, <2>2, FetchFields
    <3> QED BY <1>0, <1>4, <3>1, FetchFields DEF Current
  <2> QED BY <1>0, <1>4, <2>2, FetchFields
<1> QED BY <1>1, <1>2, <1>3, <1>4 DEF Next, User, Working

(* A reconcile leaves a current status behind, or comes back in time to make up
   for it. *)
LEMMA LookNext == Timely /\ CopyCurrent /\ LookInv /\ [Next]_vars => LookInv'
<1> SUFFICES ASSUME Timely, CopyCurrent, LookInv, [Next]_vars,
                    wq' = "waiting", stream' = <<>>, Live(api'), api'.spec # {0}
             PROVE  /\ \E d \in Delays(api'.spec) : due' <= now' + d
                    /\ \/ Current(api', known', latest')
                       \/ pipeline' # "ready" /\ due' <= now' + Retry
                       \/ \E d \in Delays(api'.spec) : due' <= since' + d
  BY DEF LookInv, Current, Delays
<1> DEFINE Goal == /\ \E d \in Delays(api'.spec) : due' <= now' + d
                   /\ \/ Current(api', known', latest')
                      \/ pipeline' # "ready" /\ due' <= now' + Retry
                      \/ \E d \in Delays(api'.spec) : due' <= since' + d
<1>0. Base /\ CalmInv /\ QueueInv /\ WakeInv
  BY DEF Timely, Queued
<1>1. /\ TypeOK /\ now \in Nat /\ since \in Nat /\ since <= now /\ due \in Nat /\ Retry \in Nat
  BY <1>0, Times
<1>2. /\ Delays(api'.spec) \subseteq Nat /\ Retry \in Delays(api'.spec)
      /\ requeueAfter(api'.spec) \in Delays(api'.spec)
  <2>1. api' \in Version
    BY <1>1, TypeNext DEF TypeOK, FrameOK
  <2> QED BY <2>1, VersionFields, DelaysFields
<1>3. ASSUME since' = now, now' = now, NEW d \in Delays(api'.spec), due' <= now + d PROVE Goal
  BY <1>3
<1>4. CASE CreateResource \/ EditResource \/ AnnotateResource \/ DeleteResource
  BY <1>1, <1>4, UserWrites
<1>5. CASE PipelineChanges \/ PipelineReset \/ VersionAppears
  <2>1. UNCHANGED <<api, stream, wq, due, now>> /\ since' = now
    BY <1>1, <1>5, ElsewhereFields DEF Reconciling
  <2>2. PICK d \in Delays(api.spec) : due <= now + d
    BY <2>1 DEF LookInv
  <2> QED BY <1>3, <2>1, <2>2
<1>6. CASE InformerReceives \/ DelayExpires \/ Begin \/ CrashRestart
  BY <1>1, <1>6, ReceiveFields, ExpireFields, BeginFields, RestartFields
<1>7. CASE Tick
  <2>1. UNCHANGED <<api, stream, wq, due, since, pipeline, known, latest>> /\ now' = now + 1
    BY <1>7, TickFields
  <2>2. /\ \E d \in Delays(api.spec) : due <= now + d
        /\ \/ Current(api, known, latest)
           \/ pipeline # "ready" /\ due <= now + Retry
           \/ \E d \in Delays(api.spec) : due <= since + d
    BY <2>1 DEF LookInv
  <2>3. \E d \in Delays(api.spec) : due <= now' + d
    BY <1>1, <1>2, <2>1, <2>2
  <2>4. due <= now + Retry => due <= now' + Retry
    BY <1>1, <2>1
  <2> QED BY <2>1, <2>2, <2>3, <2>4
<1>8. CASE Check \/ Fetch
  BY <1>0, <1>1, <1>8, CheckFields, FetchFields DEF QueueInv
<1>9. CASE UpdateStatus \/ Report
  <2>1. /\ pc \in {"update", "report"} /\ pc # "idle" /\ wq # "waiting"
        /\ UNCHANGED <<pipeline, known, latest, now>>
    BY <1>0, <1>1, <1>9, UpdateFields, ReportFields DEF QueueInv
  <2>2. CASE since' # now /\ pc = "update"
    <3>1. since' = since /\ since # now /\ StatusWritten /\ due' = now + requeueAfter(api'.spec)
      BY <1>0, <1>9, <2>2, QuietEnd
    <3>2. Current(api', known', latest')
      BY <2>1, <2>2, <3>1 DEF CopyCurrent, Current, StatusWritten, SameStatus
    <3> QED BY <1>1, <1>2, <2>1, <3>1, <3>2
  <2>3. CASE since' # now /\ pc = "report"
    <3>1. since' = since /\ due' = now + Retry
      BY <1>0, <1>9, <2>3, QuietEnd
    <3>2. pipeline # "ready"
      BY <1>0, <2>3, <3>1 DEF WakeInv
    <3> QED BY <1>1, <1>2, <2>1, <3>1, <3>2
  <2>4. CASE since' = now
    <3>1. CASE due' \in {0, now + Retry}
      <4>1. due' <= now + Retry
        BY <1>1, <3>1
      <4> QED BY <1>2, <1>3, <2>1, <2>4, <4>1
    <3>2. CASE StatusWritten /\ due' = now + requeueAfter(rc.spec)
      <4>1. due' <= now + requeueAfter(api'.spec)
        BY <1>1, <1>2, <3>2 DEF StatusWritten, SameStatus
      <4> QED BY <1>2, <1>3, <2>1, <2>4, <4>1
    <3> QED BY <1>1, <1>9, <2>1, <2>4, <3>1, <3>2, DisturbedEnd
  <2> QED BY <2>1, <2>2, <2>3, <2>4
<1>10. CASE UNCHANGED vars
  BY <1>10 DEF vars, LookInv
<1> QED BY <1>4, <1>5, <1>6, <1>7, <1>8, <1>9, <1>10 DEF Next, User, Working

(* CurrentInTime, in the words of this section. *)
LEMMA CurrentAgain ==
  CurrentInTime <=>
    (Followed /\ api.spec # {0} => Current(api, known, latest) \/ \E d \in Delays(api.spec) : now - since <= d)
BY DEF CurrentInTime, Current, Delays

(* The status is current in time. *)
LEMMA CurrentNext ==
  Timely /\ CopyCurrent /\ LookInv /\ CurrentInTime /\ [Next]_vars => CurrentInTime'
<1> SUFFICES ASSUME Timely, CopyCurrent, LookInv, CurrentInTime, [Next]_vars, Followed', api'.spec # {0}
             PROVE  Current(api', known', latest') \/ \E d \in Delays(api'.spec) : now' - since' <= d
  BY DEF CurrentInTime, Current, Delays
<1> DEFINE Goal == Current(api', known', latest') \/ \E d \in Delays(api'.spec) : now' - since' <= d
<1>0. Base /\ CalmInv /\ QueueInv /\ WakeInv
  BY DEF Timely, Queued
<1>1. /\ TypeOK /\ now \in Nat /\ since \in Nat /\ since <= now /\ due \in Nat /\ Retry \in Nat
  BY <1>0, Times
<1>2. Delays(api'.spec) \subseteq Nat /\ Retry \in Delays(api'.spec)
  <2>1. api' \in Version
    BY <1>1, TypeNext DEF TypeOK, FrameOK
  <2> QED BY <2>1, VersionFields, DelaysFields
<1>3. ASSUME since' = now, now' = now PROVE Goal
  BY <1>1, <1>2, <1>3
<1>4. ASSUME Followed, UNCHANGED <<api, known, latest, now, since>> PROVE Goal
  BY <1>4, CurrentAgain
<1>5. CASE User \/ CrashRestart
  BY <1>1, <1>3, <1>5, CreateFields, EditFields, AnnotateFields, DeleteFields, ElsewhereFields, RestartFields
     DEF User, Reconciling
<1>6. CASE InformerReceives \/ DelayExpires \/ UNCHANGED vars
  <2>1. UNCHANGED <<api, pipeline, dropped, known, latest, now, since>>
    BY <1>6, ReceiveFields, ExpireFields DEF vars
  <2> QED BY <1>4, <2>1 DEF Followed
<1>7. CASE Tick
  <2>1. /\ now' = now + 1 /\ pc = "idle" /\ stream = <<>> /\ (wq = "none" \/ (wq = "waiting" /\ now < due))
        /\ UNCHANGED <<api, pipeline, dropped, known, latest, since>>
    BY <1>7, TickFields
  <2>2. Live(api) /\ pipeline = "ready" /\ ~dropped /\ api.spec # {0}
    BY <2>1 DEF Followed
  <2>3. wq = "waiting" /\ now' <= due
    BY <1>0, <1>1, <2>1, <2>2 DEF QueueInv
  <2>4. Current(api, known, latest) \/ \E d \in Delays(api.spec) : due <= since + d
    BY <2>1, <2>2, <2>3 DEF LookInv
  <2>5. ASSUME NEW d \in Delays(api.spec), due <= since + d PROVE now' - since' <= d
    BY <1>1, <1>2, <2>1, <2>3, <2>5
  <2> QED BY <2>1, <2>4, <2>5
<1>8. CASE Begin
  <2>1. wq = "ready" /\ UNCHANGED <<api, pipeline, known, latest, now, since>>
    BY <1>1, <1>8, BeginFields
  <2>2. CASE dropped
    BY <1>0, <1>3, <2>1, <2>2 DEF QueueInv
  <2>3. CASE ~dropped
    BY <1>4, <2>1, <2>3 DEF Followed
  <2> QED BY <2>2, <2>3
<1>9. CASE Check \/ Fetch
  <2>1. CASE since' = since
    BY <1>1, <1>4, <1>9, <2>1, CheckFields, FetchFields DEF Followed
  <2> QED BY <1>1, <1>3, <1>9, <2>1, CheckFields, FetchFields
<1>10. CASE UpdateStatus \/ Report
  <2>1. pc \in {"update", "report"} /\ UNCHANGED <<pipeline, dropped, known, latest, now>>
    BY <1>1, <1>10, UpdateFields, ReportFields
  <2>2. CASE since' # now /\ pc = "update"
    <3>1. since' = since /\ StatusWritten
      BY <1>0, <1>10, <2>2, QuietEnd
    <3> QED BY <2>1, <2>2, <3>1 DEF CopyCurrent, Current, StatusWritten, SameStatus
  <2>3. CASE since' # now /\ pc = "report"
    <3>1. since' = since
      BY <1>0, <1>10, <2>3, QuietEnd
    <3> QED BY <1>0, <2>1, <2>3, <3>1 DEF WakeInv, Followed
  <2> QED BY <1>3, <2>1, <2>2, <2>3
<1> QED BY <1>5, <1>6, <1>7, <1>8, <1>9, <1>10 DEF Next, User, Working

(* One delay after the last change or fault, the status of a live Resource whose
   chain is ready shows its generation and the latest version. *)
THEOREM CurrentCorrect == Spec => []CurrentInTime
<1> DEFINE Fresh == Timely /\ CopyCurrent /\ LookInv /\ CurrentInTime
<1>1. Init => Fresh
  <2> SUFFICES ASSUME Init PROVE Fresh
    OBVIOUS
  <2>1. CopyCurrent /\ LookInv
    BY DEF Init, FrameInit, CopyCurrent, LookInv
  <2>2. CurrentInTime
    BY NoResourceType DEF Init, FrameInit, CurrentInTime, Followed
  <2> QED BY <2>1, <2>2, TimelyInit
<1>2. Fresh /\ [Next]_vars => Fresh'
  <2>1. Timely => Base
    BY DEF Timely, Queued
  <2> QED BY <2>1, TimelyNext, CopyCurrentNext, LookNext, CurrentNext
<1> QED BY <1>1, <1>2, PTL DEF Spec
=============================================================================
