----------------------- MODULE InstanceController_proofs -----------------------
(* Theorems about InstanceController and the client cache, for any Instances,   *)
(* resolvers, URLs and credentials, and any budget of edits and faults.         *)
EXTENDS InstanceController, KubeAPI_proofs, FiniteSetTheorems

(* Type correctness. *)

(* Every Instance is stored under its name. *)
NameInv == \A i \in Instances : api[i].name = i

(* How far the client of a GetOrBuild is: there is none before it is built or
   found, one to be stored has a credential, and it is for the URL of the version
   the caller read. *)
CallInv ==
  \A p \in Procs :
    LET c == call[p]
    IN  /\ c.at \in {"get", "build"} => c.cl = NoClient
        /\ c.at = "set" => c.cl # NoClient
        /\ c.at \in {"set", "done"} /\ c.cl # NoClient => c.cl.url = c.obj.url

(* The Instance that was never created is a well-formed version. *)
LEMMA NoInstanceType ==
  ASSUME NEW i \in Instances
  PROVE  NoInstance(i) \in Version /\ NoInstance(i).name = i
<1>1. (CHOOSE u \in Urls : TRUE) \in Urls
  BY UrlsAssumption
<1> QED BY <1>1 DEF NoInstance, NewInstance, Version, States

(* So are the request and the call of one that has nothing to do; and a client
   that has been built has a credential. *)
LEMMA NothingType ==
  /\ NoRequest \in Version /\ NoCall.obj \in Version /\ NoCall.at = "idle" /\ NoCall.cl = NoClient
  /\ NoCall = [at |-> "idle", obj |-> NoRequest, cl |-> NoClient]
  /\ NoClient \notin Client
<1>1. SomeInstance \in Instances
  BY InstancesAssumption DEF SomeInstance
<1>2. NoClient.cred = NoSecret
  BY DEF NoClient
<1>3. NoClient \notin Client
  BY <1>2, UrlsAssumption DEF Client, NoSecret
<1> QED BY <1>1, <1>3, NoInstanceType DEF NoCall, NoRequest

(* The fields of a version, so that proofs need not expand it. *)
LEMMA VersionFields ==
  ASSUME NEW v \in Version
  PROVE  /\ v.name \in Instances /\ v.state \in States /\ v.rv \in Nat /\ v.gen \in Nat
         /\ v.finalizer \in BOOLEAN /\ v.url \in Urls /\ v.observed \in Nat
BY DEF Version

(* A new resourceVersion is all that a write adds to the object written. *)
LEMMA NextVersionFields ==
  ASSUME NEW v \in Version
  PROVE  LET w == NextVersion(v)
         IN  w \in Version /\ w.rv = v.rv + 1 /\ w.name = v.name
BY DEF NextVersion, Version

(* A step of the API server and the informer on every Instance. *)
ApiStep ==
  /\ api' \in [Instances -> Version] /\ stream' \in [Instances -> Seq(Version)]
  /\ store' \in [Instances -> Version]
  /\ \A i \in Instances :
       api'[i].name = i /\ KubeStep(api[i], stream[i], store[i], api'[i], stream'[i], store'[i])

(* A write of one Instance is such a step, *)
LEMMA ReplaceStep ==
  ASSUME TypeOK, NameInv, NEW i \in Instances, NEW obj \in Version, obj.name = i,
         obj = api[i] \/ obj.rv = api[i].rv + 1, Replace(i, obj), UNCHANGED store
  PROVE  ApiStep
<1>0. api \in [Instances -> Version] /\ stream \in [Instances -> Seq(Version)] /\ store \in [Instances -> Version]
  BY DEF TypeOK
<1>1. api' = [api EXCEPT ![i] = obj] /\ stream' = [stream EXCEPT ![i] = Published(stream[i], api[i], obj)]
  BY DEF Replace
<1>2. Published(stream[i], api[i], obj) \in Seq(Version)
  BY <1>0, PublishedType
<1>3. api' \in [Instances -> Version] /\ stream' \in [Instances -> Seq(Version)] /\ store' \in [Instances -> Version]
  BY <1>0, <1>1, <1>2
<1>4. ASSUME NEW j \in Instances
      PROVE  api'[j].name = j /\ KubeStep(api[j], stream[j], store[j], api'[j], stream'[j], store'[j])
  <2>1. CASE j = i
    BY <1>0, <1>1, <2>1 DEF KubeStep
  <2>2. CASE j # i
    BY <1>0, <1>1, <2>2 DEF KubeStep, Published, NameInv
  <2> QED BY <2>1, <2>2
<1> QED BY <1>3, <1>4 DEF ApiStep

(* and so is no write at all. *)
LEMMA NoWriteStep ==
  ASSUME TypeOK, NameInv, UNCHANGED kube
  PROVE  ApiStep
BY DEF TypeOK, NameInv, kube, ApiStep, KubeStep, Published

(* The named bounds hold. *)
LEMMA EditType == TypeOK => (Edit => edits' \in 0..MaxEdits) /\ (Fault => faults' \in 0..MaxFaults)
BY BoundsAssumption DEF TypeOK, Edit, Fault

(* What users bring about: another version of one Instance. *)
LEMMA UserFields ==
  ASSUME TypeOK, NameInv, NEW i \in Instances,
         CreateInstance(i) \/ ChangeUrl(i) \/ Annotate(i) \/ DeleteInstance(i)
  PROVE  ApiStep /\ UNCHANGED <<secret, secretStore, accepted, stalled, cache, call, wq, pc, rc, faults>>
         /\ edits' \in 0..MaxEdits /\ renewed' \in BOOLEAN
<1>0. api[i] \in Version /\ api[i].name = i /\ api[i].rv + 1 \in Nat /\ api[i].gen + 1 \in Nat
      /\ api[i].finalizer \in BOOLEAN /\ api[i].rv \in Nat
  BY VersionFields DEF TypeOK, NameInv
<1>1. edits' \in 0..MaxEdits /\ renewed' \in BOOLEAN /\ UNCHANGED store
      /\ UNCHANGED <<secret, secretStore, accepted, stalled, cache, call, wq, pc, rc, faults>>
  <2>1. Edit /\ UNCHANGED store
        /\ UNCHANGED <<secret, secretStore, accepted, stalled, cache, call, wq, pc, rc, faults>>
    BY DEF CreateInstance, ChangeUrl, Annotate, DeleteInstance, secrets, atc
  <2>2. edits' \in 0..MaxEdits
    BY <2>1, EditType
  <2>3. renewed' = renewed \/ renewed' = (secret = accepted /\ secretStore = secret)
    BY DEF CreateInstance, ChangeUrl, Annotate, DeleteInstance, secrets
  <2>4. renewed' \in BOOLEAN
    BY <2>3, Zenon DEF TypeOK
  <2> QED BY <2>1, <2>2, <2>4
<1>2. CASE CreateInstance(i)
  <2>1. PICK url \in Urls : Replace(i, NewInstance(i, api[i].rv + 1, url))
    BY <1>2 DEF CreateInstance
  <2>2. NewInstance(i, api[i].rv + 1, url) \in Version /\ NewInstance(i, api[i].rv + 1, url).name = i
        /\ NewInstance(i, api[i].rv + 1, url).rv = api[i].rv + 1
    BY <1>0 DEF NewInstance, Version, States
  <2> QED BY <1>1, <2>1, <2>2, ReplaceStep
<1>3. ASSUME NEW obj \in Version, obj.name = i, obj.rv = api[i].rv, Replace(i, NextVersion(obj)) PROVE ApiStep
  BY <1>1, <1>3, NextVersionFields, ReplaceStep
<1>4. CASE ChangeUrl(i)
  <2>1. PICK url \in Urls : Replace(i, NextVersion([api[i] EXCEPT !.gen = @ + 1, !.url = url]))
    BY <1>4 DEF ChangeUrl
  <2> DEFINE obj == [api[i] EXCEPT !.gen = @ + 1, !.url = url]
  <2>2. obj \in Version /\ obj.name = i /\ obj.rv = api[i].rv
    BY <1>0 DEF Version
  <2> HIDE DEF obj
  <2>3. Replace(i, NextVersion(obj))
    BY <2>1 DEF obj
  <2> QED BY <1>1, <1>3, <2>2, <2>3
<1>5. CASE Annotate(i)
  BY <1>0, <1>1, <1>3, <1>5 DEF Annotate
<1>6. CASE DeleteInstance(i)
  <2> DEFINE state == IF api[i].finalizer THEN "deleting" ELSE "gone"
             obj == [api[i] EXCEPT !.state = state]
  <2>1. obj \in Version /\ obj.name = i /\ obj.rv = api[i].rv
    BY <1>0 DEF Version, States
  <2>2. Replace(i, NextVersion(obj))
    BY <1>6 DEF DeleteInstance
  <2> HIDE DEF obj
  <2> QED BY <1>1, <1>3, <2>1, <2>2
<1> QED BY <1>2, <1>4, <1>5, <1>6

(* What the administrator, the informer of Secrets and the delays bring about. *)
LEMMA OtherFields ==
  ASSUME TypeOK, \/ ChangeSecret \/ AcceptOther \/ WorkerStalls \/ SecretInformerReceives \/ UNCHANGED vars
                 \/ \E i \in Instances : DelayExpires(i)
  PROVE  /\ UNCHANGED <<api, stream, store, cache, call, pc, rc, faults>>
         /\ wq' \in [Instances -> QueueStates] /\ edits' \in 0..MaxEdits /\ renewed' \in BOOLEAN
         /\ secret' \in Creds \cup {NoSecret} /\ secretStore' \in Creds \cup {NoSecret}
         /\ accepted' \in Creds /\ stalled' \in BOOLEAN
<1> USE DEF TypeOK, kube, secrets, atc
<1>1. CASE ChangeSecret
  <2>1. renewed' \in BOOLEAN
    BY <1>1, Zenon DEF ChangeSecret
  <2> QED BY <1>1, <2>1, EditType DEF ChangeSecret
<1>2. CASE AcceptOther
  <2>1. renewed' \in BOOLEAN
    BY <1>2, Zenon DEF AcceptOther
  <2> QED BY <1>2, <2>1, EditType DEF AcceptOther
<1>3. CASE WorkerStalls
  BY <1>3, EditType DEF WorkerStalls
<1>4. CASE SecretInformerReceives
  BY <1>4 DEF SecretInformerReceives
<1>5. CASE UNCHANGED vars
  BY <1>5 DEF vars
<1>6. CASE \E i \in Instances : DelayExpires(i)
  BY <1>6 DEF DelayExpires, QueueStates
<1> QED BY <1>1, <1>2, <1>3, <1>4, <1>5, <1>6

(* What the informer of Instances brings about. *)
LEMMA ReceiveFields ==
  ASSUME TypeOK, NameInv, NEW i \in Instances, InformerReceives(i)
  PROVE  /\ ApiStep /\ wq' \in [Instances -> QueueStates]
         /\ UNCHANGED <<secret, secretStore, renewed, accepted, stalled, cache, call, pc, rc, edits, faults>>
<1>0. api \in [Instances -> Version] /\ stream \in [Instances -> Seq(Version)] /\ store \in [Instances -> Version]
      /\ wq \in [Instances -> QueueStates]
  BY DEF TypeOK
<1>1. /\ stream[i] # <<>> /\ store' = [store EXCEPT ![i] = Head(stream[i])]
      /\ stream' = [stream EXCEPT ![i] = Tail(stream[i])] /\ api' = api
      /\ wq' = [wq EXCEPT ![i] = "ready"]
      /\ UNCHANGED <<secret, secretStore, renewed, accepted, stalled, cache, call, pc, rc, edits, faults>>
  BY DEF InformerReceives, secrets, atc
<1>2. Head(stream[i]) \in Version /\ Tail(stream[i]) \in Seq(Version)
  BY <1>0, <1>1
<1>3. stream' \in [Instances -> Seq(Version)] /\ store' \in [Instances -> Version] /\ wq' \in [Instances -> QueueStates]
  BY <1>0, <1>1, <1>2 DEF QueueStates
<1>4. ASSUME NEW j \in Instances
      PROVE  api'[j].name = j /\ KubeStep(api[j], stream[j], store[j], api'[j], stream'[j], store'[j])
  <2>1. CASE j = i
    BY <1>0, <1>1, <2>1 DEF KubeStep, NameInv
  <2>2. CASE j # i
    BY <1>0, <1>1, <2>2 DEF KubeStep, Published, NameInv
  <2> QED BY <2>1, <2>2
<1> QED BY <1>0, <1>1, <1>3, <1>4 DEF ApiStep

(* The state of a GetOrBuild, and an entry of the cache. *)
CallState == [at: {"idle", "get", "build", "set", "done"}, obj: Version, cl: Client \cup {NoClient}]
Entry == [name: Instances, rv: Nat, cl: Client]

(* What asking for a client brings about. *)
LEMMA AsksFields ==
  ASSUME TypeOK, NEW p \in Procs, NEW obj \in Version, Asks(p, obj)
  PROVE  /\ call' \in [Procs -> CallState]
         /\ call'[p].at = "get" /\ call'[p].obj = obj /\ call'[p].cl = NoClient
         /\ \A q \in Procs : q # p => call'[q] = call[q]
<1>1. call \in [Procs -> CallState]
  BY DEF TypeOK, CallState
<1> DEFINE asked == [NoCall EXCEPT !.at = "get", !.obj = obj]
<1>2. asked.at = "get" /\ asked.obj = obj /\ asked.cl = NoClient /\ asked \in CallState
  BY NothingType DEF CallState
<1>3. call' = [call EXCEPT ![p] = asked]
  BY DEF Asks
<1> HIDE DEF asked
<1> QED BY <1>1, <1>2, <1>3

(* What the end of a GetOrBuild brings about. *)
LEMMA EndFields ==
  ASSUME TypeOK, NEW p \in Procs, call' = [call EXCEPT ![p] = NoCall]
  PROVE  /\ call' \in [Procs -> CallState]
         /\ call'[p].at = "idle" /\ \A q \in Procs : q # p => call'[q] = call[q]
<1>1. NoCall \in CallState /\ NoCall.at = "idle"
  BY NothingType DEF CallState
<1>2. call \in [Procs -> CallState]
  BY DEF TypeOK, CallState
<1> QED BY <1>1, <1>2

(* What a step of GetOrBuild brings about: a client found under the key of the
   version read, one built for its URL, or one stored. *)
LEMMA BuildFields ==
  ASSUME TypeOK, CallInv, NEW p \in Procs, GetOrBuild(p)
  PROVE  /\ UNCHANGED <<api, stream, store, secret, secretStore, renewed, accepted, stalled,
                        wq, pc, rc, edits, faults>>
         /\ call' \in [Procs -> CallState] /\ cache' \subseteq Entry
         /\ call[p].at # "idle" /\ call'[p].obj = call[p].obj
         /\ \A q \in Procs : q # p => call'[q] = call[q]
         /\ \/ cache' = cache
            \/ /\ cache' = Set(cache, call[p].obj, call[p].cl)
               /\ call[p].cl \in Client /\ call[p].cl.url = call[p].obj.url
         /\ \/ /\ call'[p].at = "done"
               /\ \E e \in cache : /\ e.name = call[p].obj.name /\ e.rv = call[p].obj.rv
                                   /\ call'[p].cl = e.cl
            \/ call'[p].at \in {"build", "done"} /\ call'[p].cl = NoClient
            \/ /\ call'[p].at \in {"set", "done"} /\ call'[p].cl # NoClient
               /\ call'[p].cl.url = call[p].obj.url
<1>0. /\ call \in [Procs -> CallState] /\ call[p] \in CallState /\ call[p].obj \in Version
      /\ cache \subseteq Entry /\ secretStore \in Creds \cup {NoSecret}
      /\ call[p].obj.url \in Urls /\ call[p].obj.name \in Instances /\ call[p].obj.rv \in Nat
  BY VersionFields DEF TypeOK, CallState, Entry
<1>1. UNCHANGED <<api, stream, store, secret, secretStore, renewed, accepted, stalled, wq, pc, rc, edits, faults>>
  BY DEF GetOrBuild, GetFromCache, BuildClient, SetInCache, kube, secrets, atc
<1>2. CASE GetFromCache(p)
  <2>1. call[p].at = "get" /\ call[p].cl = NoClient /\ cache' = cache
    BY <1>2 DEF GetFromCache, CallInv
  <2>2. CASE Hit(cache, call[p].obj)
    <3>1. PICK e \in cache : cacheKey(e) = cacheKey(call[p].obj) /\ Get(cache, call[p].obj) = e.cl
      BY <2>2 DEF Hit, Get
    <3>2. e.name = call[p].obj.name /\ e.rv = call[p].obj.rv
      BY <3>1 DEF cacheKey
    <3>3. call' = [call EXCEPT ![p].at = "done", ![p].cl = e.cl]
      BY <1>2, <2>2, <3>1 DEF GetFromCache
    <3>4. e.cl \in Client
      BY <1>0 DEF Entry
    <3>5. call'[p] = [call[p] EXCEPT !.at = "done", !.cl = e.cl]
      BY <1>0, <3>3
    <3>6. call'[p] \in CallState /\ call'[p].at = "done" /\ call'[p].cl = e.cl /\ call'[p].obj = call[p].obj
      BY <1>0, <3>4, <3>5 DEF CallState
    <3>7. call' \in [Procs -> CallState] /\ \A q \in Procs : q # p => call'[q] = call[q]
      BY <1>0, <3>3, <3>6
    <3> QED BY <1>0, <1>1, <2>1, <3>2, <3>6, <3>7
  <2>3. CASE ~Hit(cache, call[p].obj)
    <3>1. call' = [call EXCEPT ![p].at = "build"]
      BY <1>2, <2>3 DEF GetFromCache
    <3>2. call'[p] = [call[p] EXCEPT !.at = "build"]
      BY <1>0, <3>1
    <3>3. call'[p] \in CallState /\ call'[p].at = "build" /\ call'[p].cl = NoClient /\ call'[p].obj = call[p].obj
      BY <1>0, <2>1, <3>2 DEF CallState
    <3>4. call' \in [Procs -> CallState] /\ \A q \in Procs : q # p => call'[q] = call[q]
      BY <1>0, <3>1, <3>3
    <3> QED BY <1>0, <1>1, <2>1, <3>3, <3>4
  <2> QED BY <2>2, <2>3
<1>3. CASE BuildClient(p)
  <2>1. call[p].at = "build" /\ call[p].cl = NoClient /\ cache' = cache
    BY <1>3 DEF BuildClient, CallInv
  <2>2. CASE secretStore = NoSecret
    <3>1. call' = [call EXCEPT ![p].at = "done"]
      BY <1>3, <2>2 DEF BuildClient
    <3>2. call'[p] = [call[p] EXCEPT !.at = "done"]
      BY <1>0, <3>1
    <3>3. call'[p] \in CallState /\ call'[p].at = "done" /\ call'[p].cl = NoClient /\ call'[p].obj = call[p].obj
      BY <1>0, <2>1, <3>2 DEF CallState
    <3>4. call' \in [Procs -> CallState] /\ \A q \in Procs : q # p => call'[q] = call[q]
      BY <1>0, <3>1, <3>3
    <3> QED BY <1>0, <1>1, <2>1, <3>3, <3>4
  <2>3. CASE secretStore # NoSecret
    <3> DEFINE new == [url |-> call[p].obj.url, cred |-> secretStore]
    <3>1. new \in Client /\ new.url = call[p].obj.url
      BY <1>0, <2>3 DEF Client
    <3>2. call' = [call EXCEPT ![p].at = "set", ![p].cl = new]
      BY <1>3, <2>3 DEF BuildClient
    <3> HIDE DEF new
    <3>3. call'[p] = [call[p] EXCEPT !.at = "set", !.cl = new]
      BY <1>0, <3>2
    <3>4. call'[p] \in CallState /\ call'[p].at = "set" /\ call'[p].cl = new /\ call'[p].obj = call[p].obj
      BY <1>0, <3>1, <3>3 DEF CallState
    <3>5. call' \in [Procs -> CallState] /\ \A q \in Procs : q # p => call'[q] = call[q]
      BY <1>0, <3>2, <3>4
    <3> QED BY <1>0, <1>1, <2>1, <3>1, <3>4, <3>5, NothingType
  <2> QED BY <2>2, <2>3
<1>4. CASE SetInCache(p)
  <2>1. call[p].at = "set" /\ call[p].cl # NoClient /\ call[p].cl.url = call[p].obj.url
    BY <1>4 DEF SetInCache, CallInv
  <2>2. call[p].cl \in Client
    BY <1>0, <2>1 DEF CallState
  <2>3. cache' = Set(cache, call[p].obj, call[p].cl) /\ call' = [call EXCEPT ![p].at = "done"]
    BY <1>4 DEF SetInCache
  <2>4. cache' \subseteq Entry
    BY <1>0, <2>2, <2>3 DEF Set, Evict, Entry
  <2>5. call'[p] = [call[p] EXCEPT !.at = "done"]
    BY <1>0, <2>3
  <2>6. call'[p] \in CallState /\ call'[p].at = "done" /\ call'[p].cl = call[p].cl /\ call'[p].obj = call[p].obj
    BY <1>0, <2>5 DEF CallState
  <2>7. call' \in [Procs -> CallState] /\ \A q \in Procs : q # p => call'[q] = call[q]
    BY <1>0, <2>3, <2>6
  <2> QED BY <1>1, <2>1, <2>2, <2>3, <2>4, <2>6, <2>7
<1> QED BY <1>2, <1>3, <1>4 DEF GetOrBuild

(* What another reconciler does when it resolves an Instance, or is done. *)
LEMMA ResolverFields ==
  ASSUME TypeOK, NEW p \in Procs, Return(p) \/ \E i \in Instances : Resolve(p, i)
  PROVE  /\ UNCHANGED <<api, stream, store, secret, secretStore, renewed, accepted, stalled,
                        cache, wq, pc, rc, edits, faults>>
         /\ call' \in [Procs -> CallState] /\ \A q \in Procs : q # p => call'[q] = call[q]
         /\ \/ call'[p].at = "idle"
            \/ /\ call'[p].at = "get" /\ call'[p].cl = NoClient
               /\ \E i \in Instances : call'[p].obj = store[i]
<1>1. UNCHANGED <<api, stream, store, secret, secretStore, renewed, accepted, stalled,
                  cache, wq, pc, rc, edits, faults>>
  BY DEF Return, Resolve, kube, secrets, atc
<1>2. CASE Return(p)
  BY <1>1, <1>2, EndFields DEF Return
<1>3. CASE \E i \in Instances : Resolve(p, i)
  <2>1. PICK i \in Instances : Asks(p, store[i])
    BY <1>3 DEF Resolve
  <2>2. store[i] \in Version
    BY DEF TypeOK
  <2> QED BY <1>1, <2>1, <2>2, AsksFields
<1> QED BY <1>2, <1>3

(* What taking a key from the queue brings about. *)
LEMMA BeginFields ==
  ASSUME TypeOK, NEW i \in Instances, Begin(i)
  PROVE  /\ UNCHANGED <<api, stream, store, secret, secretStore, renewed, accepted, stalled,
                        cache, edits, faults>>
         /\ wq' \in [Instances -> QueueStates] /\ pc' \in Steps /\ rc' \in Version
         /\ call' \in [Procs -> CallState] /\ \A q \in Procs : q # Worker => call'[q] = call[q]
         /\ \/ call' = call
            \/ call'[Worker].at = "get" /\ call'[Worker].cl = NoClient /\ call'[Worker].obj = store[i]
<1>0. Worker \in Procs /\ store[i] \in Version /\ NoRequest \in Version
      /\ wq \in [Instances -> QueueStates] /\ call \in [Procs -> CallState]
  BY NothingType DEF TypeOK, Procs, CallState
<1>1. /\ UNCHANGED <<api, stream, store, secret, secretStore, renewed, accepted, stalled, cache, edits, faults>>
      /\ wq' = [wq EXCEPT ![i] = "none"] /\ pc' = FirstCall(store[i])
      /\ rc' = NoRequest \/ rc' = store[i]
      /\ call' = call \/ Asks(Worker, store[i])
  BY DEF Begin, kube, secrets, atc
<1>2. wq' \in [Instances -> QueueStates] /\ pc' \in Steps
  BY <1>0, <1>1 DEF QueueStates, FirstCall, Steps
<1>3. CASE call' = call
  BY <1>0, <1>1, <1>2, <1>3
<1>4. CASE Asks(Worker, store[i])
  BY <1>0, <1>1, <1>2, <1>4, AsksFields
<1> QED BY <1>1, <1>3, <1>4

(* What the steps of the worker that write the Instance bring about. *)
LEMMA WriteFields ==
  ASSUME TypeOK, NameInv, RemoveFinalizer \/ AddFinalizer \/ UpdateStatus \/ Report
  PROVE  /\ ApiStep
         /\ UNCHANGED <<secret, secretStore, renewed, accepted, stalled, cache, edits>>
         /\ wq' \in [Instances -> QueueStates] /\ pc' \in Steps /\ rc' \in Version
         /\ faults' \in 0..MaxFaults
         /\ call' \in [Procs -> CallState] /\ \A q \in Procs : q # Worker => call'[q] = call[q]
         /\ \/ call' = call
            \/ call'[Worker].at = "idle"
            \/ /\ call'[Worker].at = "get" /\ call'[Worker].cl = NoClient
               /\ \E i \in Instances : call'[Worker].obj = api'[i]
<1>0. /\ rc \in Version /\ Key \in Instances /\ rc.name = Key /\ NoRequest \in Version /\ Worker \in Procs
      /\ api[Key] \in Version /\ api[Key].name = Key /\ api[Key].rv \in Nat
      /\ api \in [Instances -> Version]
      /\ call \in [Procs -> CallState] /\ faults \in 0..MaxFaults
  BY NothingType, VersionFields DEF TypeOK, NameInv, Key, Procs, CallState
<1>1. UNCHANGED <<store, secret, secretStore, renewed, accepted, stalled, cache, edits>>
  BY DEF RemoveFinalizer, AddFinalizer, UpdateStatus, Report, secrets, atc
<1>2. /\ wq \in [Instances -> QueueStates]
      /\ wq' = [wq EXCEPT ![Key] = AddAfter(wq[Key])] => wq' \in [Instances -> QueueStates]
  <2>1. wq \in [Instances -> QueueStates] /\ wq[Key] \in QueueStates
    BY <1>0 DEF TypeOK
  <2>2. AddAfter(wq[Key]) \in QueueStates
    BY <2>1, QueueType
  <2> QED BY <1>0, <2>1, <2>2
<1>3. (Fault => faults' \in 0..MaxFaults) /\ (UNCHANGED faults => faults' \in 0..MaxFaults)
  BY <1>0, EditType
<1>4. ASSUME Done \/ RequeueAfter \/ ReturnError
      PROVE  wq' \in [Instances -> QueueStates] /\ pc' \in Steps /\ rc' \in Version
  BY <1>0, <1>2, <1>4 DEF Done, RequeueAfter, ReturnError, Idle, Steps
<1>5. ASSUME UNCHANGED <<api, stream>> PROVE ApiStep
  BY <1>1, <1>5, NoWriteStep DEF kube
<1>6. ASSUME EndCall
      PROVE  /\ call' \in [Procs -> CallState] /\ \A q \in Procs : q # Worker => call'[q] = call[q]
             /\ call'[Worker].at = "idle"
  BY <1>0, <1>6, EndFields DEF EndCall
<1>7. ASSUME Accepted, Replace(Key, Written(api[Key], rc)) PROVE ApiStep
  <2>1. rc.rv = api[Key].rv
    BY <1>7 DEF Accepted, Accepts
  <2>2. CASE rc = api[Key]
    BY <1>0, <1>1, <1>7, <2>2, ReplaceStep DEF Written
  <2>3. CASE rc # api[Key]
    <3>1. Replace(Key, NextVersion(rc))
      BY <1>7, <2>3 DEF Written
    <3> QED BY <1>0, <1>1, <2>1, <3>1, NextVersionFields, ReplaceStep
  <2> QED BY <2>2, <2>3
<1>8. CASE RemoveFinalizer
  <2> DEFINE obj == [rc EXCEPT !.finalizer = FALSE, !.state = "gone"]
  <2>1. obj \in Version /\ obj.name = Key /\ obj.rv = rc.rv
    BY <1>0 DEF Version, States
  <2>2. ASSUME Accepted, Replace(Key, NextVersion(obj)) PROVE ApiStep
    <3> HIDE DEF obj
    <3>1. rc.rv = api[Key].rv
      BY <2>2 DEF Accepted, Accepts
    <3> QED BY <1>0, <1>1, <2>1, <2>2, <3>1, NextVersionFields, ReplaceStep
  <2>3. ApiStep
    BY <1>5, <1>8, <2>2 DEF RemoveFinalizer
  <2>4. (Done \/ ReturnError) /\ (Fault \/ UNCHANGED faults) /\ call' = call
    BY <1>8 DEF RemoveFinalizer
  <2> HIDE DEF obj
  <2> QED BY <1>0, <1>1, <1>3, <1>4, <2>3, <2>4
<1>9. CASE AddFinalizer
  <2> DEFINE fin == [rc EXCEPT !.finalizer = TRUE]
             obj == NextVersion(fin)
  <2>1. fin \in Version /\ fin.name = Key /\ fin.rv = rc.rv
    BY <1>0 DEF Version
  <2>2. obj \in Version /\ obj.name = Key /\ obj.rv = rc.rv + 1
    <3> HIDE DEF fin
    <3> QED BY <2>1, NextVersionFields
  <2>3. \/ /\ Accepted /\ Replace(Key, obj)
           /\ \/ rc' = obj /\ pc' = "client" /\ Asks(Worker, obj) /\ UNCHANGED <<wq, faults>>
              \/ Fault /\ ReturnError /\ UNCHANGED call
        \/ (Fault \/ UNCHANGED faults) /\ ReturnError /\ UNCHANGED <<api, stream, call>>
    BY <1>9 DEF AddFinalizer
  <2> HIDE DEF obj, fin
  <2>4. ASSUME Accepted, Replace(Key, obj) PROVE ApiStep /\ api'[Key] = obj
    <3>1. rc.rv = api[Key].rv /\ api'[Key] = obj
      BY <1>0, <2>4 DEF Accepted, Accepts, Replace
    <3> QED BY <1>0, <1>1, <2>2, <2>4, <3>1, ReplaceStep
  <2>5. CASE Accepted /\ Replace(Key, obj) /\ rc' = obj /\ pc' = "client" /\ Asks(Worker, obj)
             /\ UNCHANGED <<wq, faults>>
    BY <1>0, <1>1, <1>2, <2>2, <2>4, <2>5, AsksFields DEF Steps
  <2>6. CASE Accepted /\ Replace(Key, obj) /\ Fault /\ ReturnError /\ UNCHANGED call
    BY <1>0, <1>1, <1>3, <1>4, <2>4, <2>6
  <2>7. CASE (Fault \/ UNCHANGED faults) /\ ReturnError /\ UNCHANGED <<api, stream, call>>
    BY <1>0, <1>1, <1>3, <1>4, <1>5, <2>7
  <2> QED BY <2>3, <2>5, <2>6, <2>7
<1>10. CASE UpdateStatus \/ Report
  <2>1. /\ RequeueAfter \/ ReturnError
        /\ Fault \/ UNCHANGED faults
        /\ EndCall
        /\ (Accepted /\ Replace(Key, Written(api[Key], rc))) \/ UNCHANGED <<api, stream>>
    BY <1>10 DEF UpdateStatus, Report
  <2> QED BY <1>1, <1>3, <1>4, <1>5, <1>6, <1>7, <2>1
<1> QED BY <1>8, <1>9, <1>10

(* What the other steps of the worker bring about. *)
LEMMA WorkFields ==
  ASSUME TypeOK, EvictClient \/ ClientOrError \/ GetInfo \/ ListWorkers
  PROVE  /\ UNCHANGED <<api, stream, store, secret, secretStore, renewed, accepted, stalled, call, wq, edits>>
         /\ pc' \in Steps /\ rc' \in Version /\ faults' \in 0..MaxFaults
         /\ cache' \subseteq cache
<1>0. rc \in Version /\ rc.gen \in Nat
  BY VersionFields DEF TypeOK
<1>1. UNCHANGED <<api, stream, store, secret, secretStore, renewed, accepted, stalled, call, wq, edits>>
      /\ cache' \subseteq cache
  BY DEF EvictClient, Evict, ClientOrError, GetInfo, ListWorkers, kube, secrets, atc
<1>2. faults' \in 0..MaxFaults
  BY EditType DEF EvictClient, ClientOrError, GetInfo, ListWorkers, TypeOK
<1>3. pc' \in Steps
  BY DEF EvictClient, ClientOrError, GetInfo, ListWorkers, Steps
<1>4. ASSUME EvictClient PROVE rc' \in Version
  BY <1>0, <1>4 DEF EvictClient
<1>5. ASSUME ClientOrError PROVE rc' \in Version
  BY <1>0, <1>5 DEF ClientOrError, Version
<1>6. ASSUME GetInfo PROVE rc' \in Version
  BY <1>0, <1>6 DEF GetInfo, Version
<1>7. ASSUME ListWorkers PROVE rc' \in Version
  <2>1. PICK h \in {"WorkersStalled", "AllRunning"} :
          rc' = [rc EXCEPT !.observed = rc.gen, !.ready = "Ready", !.healthy = h]
    BY <1>7 DEF ListWorkers
  <2> QED BY <1>0, <2>1 DEF Version
<1>8. rc' \in Version
  BY <1>4, <1>5, <1>6, <1>7
<1> QED BY <1>1, <1>2, <1>3, <1>8

(* What a restart brings about: everything in memory is gone. *)
LEMMA RestartFields ==
  ASSUME TypeOK, NameInv, CrashRestart
  PROVE  /\ ApiStep /\ cache' = {} /\ call' \in [Procs -> CallState]
         /\ \A p \in Procs : call'[p].at = "idle"
         /\ UNCHANGED <<api, secret, renewed, accepted, stalled, edits>> /\ secretStore' = secret
         /\ wq' \in [Instances -> QueueStates] /\ pc' \in Steps /\ rc' \in Version
         /\ faults' \in 0..MaxFaults
<1>0. api \in [Instances -> Version] /\ NoCall \in CallState /\ NoCall.at = "idle" /\ NoRequest \in Version
  BY NothingType DEF TypeOK, CallState
<1>1. /\ cache' = {} /\ call' = [p \in Procs |-> NoCall] /\ store' = api
      /\ stream' = [i \in Instances |-> <<>>] /\ api' = api
      /\ wq' = [i \in Instances |-> IF Exists(api[i]) THEN "ready" ELSE "none"]
      /\ UNCHANGED <<secret, renewed, accepted, stalled, edits>> /\ secretStore' = secret
      /\ pc' = "idle" /\ rc' = NoRequest /\ Fault
  BY DEF CrashRestart, Idle, atc
<1>2. ApiStep
  BY <1>0, <1>1 DEF ApiStep, KubeStep, NameInv
<1>3. call' \in [Procs -> CallState] /\ \A p \in Procs : call'[p].at = "idle"
  BY <1>0, <1>1
<1>4. wq' \in [Instances -> QueueStates] /\ pc' \in Steps
  BY <1>1 DEF QueueStates, Steps
<1>5. faults' \in 0..MaxFaults
  BY <1>1, EditType
<1> QED BY <1>0, <1>1, <1>2, <1>3, <1>4, <1>5

(* The manager that has just started is in a well-typed state. *)
LEMMA TypeInit == Init => TypeOK /\ NameInv /\ CallInv
<1> SUFFICES ASSUME Init PROVE TypeOK /\ NameInv /\ CallInv
  OBVIOUS
<1>1. api \in [Instances -> Version] /\ store \in [Instances -> Version] /\ NameInv
  BY NoInstanceType DEF Init, NameInv
<1>2. stream \in [Instances -> Seq(Version)] /\ wq \in [Instances -> QueueStates] /\ pc \in Steps
  BY DEF Init, QueueStates, Steps
<1>3. call \in [Procs -> CallState] /\ \A p \in Procs : call[p].at = "idle"
  BY NothingType DEF Init, CallState
<1>4. secret \in Creds \cup {NoSecret} /\ secretStore \in Creds \cup {NoSecret} /\ accepted \in Creds
  BY DEF Init
<1>5. stalled \in BOOLEAN /\ renewed \in BOOLEAN
  BY Zenon DEF Init
<1>6. edits \in 0..MaxEdits /\ faults \in 0..MaxFaults /\ cache = {} /\ rc \in Version
  BY BoundsAssumption, NothingType DEF Init
<1>7. TypeOK
  BY <1>1, <1>2, <1>3, <1>4, <1>5, <1>6 DEF TypeOK, CallState
<1> QED BY <1>1, <1>3, <1>7 DEF CallInv

(* Every step of users, resolvers and the worker keeps the types, and the writes
   are steps of the API server and the informer. *)
LEMMA TypeNext ==
  ASSUME TypeOK, NameInv, CallInv, [Next]_vars
  PROVE  TypeOK' /\ NameInv' /\ ApiStep
<1> DEFINE Rest == /\ secret' \in Creds \cup {NoSecret} /\ secretStore' \in Creds \cup {NoSecret}
                   /\ accepted' \in Creds /\ stalled' \in BOOLEAN /\ cache' \subseteq Entry
                   /\ call' \in [Procs -> CallState] /\ wq' \in [Instances -> QueueStates]
                   /\ pc' \in Steps /\ rc' \in Version /\ renewed' \in BOOLEAN
                   /\ edits' \in 0..MaxEdits /\ faults' \in 0..MaxFaults
<1>1. ASSUME ApiStep, Rest PROVE TypeOK' /\ NameInv' /\ ApiStep
  BY <1>1 DEF TypeOK, NameInv, ApiStep, CallState, Entry
<1>2. /\ secret \in Creds \cup {NoSecret} /\ secretStore \in Creds \cup {NoSecret}
      /\ accepted \in Creds /\ stalled \in BOOLEAN /\ cache \subseteq Entry
      /\ call \in [Procs -> CallState] /\ wq \in [Instances -> QueueStates]
      /\ pc \in Steps /\ rc \in Version /\ renewed \in BOOLEAN
      /\ edits \in 0..MaxEdits /\ faults \in 0..MaxFaults
  BY DEF TypeOK, CallState, Entry
<1>3. UNCHANGED kube => ApiStep
  BY NoWriteStep
<1> HIDE DEF Rest
<1>4. ASSUME NEW i \in Instances, CreateInstance(i) \/ ChangeUrl(i) \/ Annotate(i) \/ DeleteInstance(i)
      PROVE  ApiStep /\ Rest
  BY <1>2, <1>4, UserFields DEF Rest
<1>5. ASSUME \/ ChangeSecret \/ AcceptOther \/ WorkerStalls \/ SecretInformerReceives \/ UNCHANGED vars
             \/ \E i \in Instances : DelayExpires(i)
      PROVE  ApiStep /\ Rest
  BY <1>2, <1>3, <1>5, OtherFields DEF Rest, kube
<1>6. ASSUME NEW i \in Instances, InformerReceives(i) PROVE ApiStep /\ Rest
  BY <1>2, <1>6, ReceiveFields DEF Rest
<1>7. ASSUME NEW p \in Procs, GetOrBuild(p) PROVE ApiStep /\ Rest
  BY <1>2, <1>3, <1>7, BuildFields DEF Rest, kube
<1>8. ASSUME NEW p \in Procs, Return(p) \/ \E i \in Instances : Resolve(p, i) PROVE ApiStep /\ Rest
  BY <1>2, <1>3, <1>8, ResolverFields DEF Rest, kube
<1>9. ASSUME NEW i \in Instances, Begin(i) PROVE ApiStep /\ Rest
  BY <1>2, <1>3, <1>9, BeginFields DEF Rest, kube
<1>10. ASSUME RemoveFinalizer \/ AddFinalizer \/ UpdateStatus \/ Report PROVE ApiStep /\ Rest
  BY <1>2, <1>10, WriteFields DEF Rest
<1>11. ASSUME EvictClient \/ ClientOrError \/ GetInfo \/ ListWorkers PROVE ApiStep /\ Rest
  BY <1>2, <1>3, <1>11, WorkFields DEF Rest, kube
<1>12. ASSUME CrashRestart PROVE ApiStep /\ Rest
  BY <1>2, <1>12, RestartFields DEF Rest
<1>13. Worker \in Procs /\ Resolvers \subseteq Procs
  BY DEF Procs
<1>14. ApiStep /\ Rest
  BY <1>4, <1>5, <1>6, <1>7, <1>8, <1>9, <1>10, <1>11, <1>12, <1>13
     DEF Next, User, Queueing, Resolving, Working
<1> QED BY <1>1, <1>14
-----------------------------------------------------------------------------
(* The clients. *)

(* Which spec a version is of, as far as a client depends on it. *)
Ident(obj) == [name |-> obj.name, rv |-> obj.rv, url |-> obj.url]

(* The specs that versions which can be read, callers of GetOrBuild and entries of
   the cache stand for. *)
IdsOf(objs) == {Ident(x) : x \in objs}
ReadIds(a, s, t) == UNION {IdsOf(Seen(a[i], s[i], t[i])) : i \in Instances}
CallIds(calls) == {Ident(calls[p].obj) : p \in {q \in Procs : calls[q].at # "idle"}}
EntryIds(entries) == {[name |-> e.name, rv |-> e.rv, url |-> e.cl.url] : e \in entries}

KnownOf(a, s, t, calls, entries) == ReadIds(a, s, t) \cup CallIds(calls) \cup EntryIds(entries)

Known == KnownOf(api, stream, store, call, cache)

(* A name and a resourceVersion belong to one spec, however old, even across the
   deletion and the creation of Instances of the same name. *)
KnownInv ==
  /\ \A k \in Known : k.name \in Instances /\ k.rv \in Nat /\ k.rv <= api[k.name].rv
  /\ \A k, l \in Known : k.name = l.name /\ k.rv = l.rv => k.url = l.url

(* There is one entry for a name. *)
CacheInv == \A e, f \in cache : e.name = f.name => e = f

(* The three ways to be known. *)
LEMMA KnownMember ==
  ASSUME NEW a, NEW s, NEW t, NEW calls, NEW entries, NEW k
  PROVE  k \in KnownOf(a, s, t, calls, entries)
           <=> \/ \E i \in Instances : \E x \in Seen(a[i], s[i], t[i]) : k = Ident(x)
               \/ \E p \in Procs : calls[p].at # "idle" /\ k = Ident(calls[p].obj)
               \/ \E e \in entries : k = [name |-> e.name, rv |-> e.rv, url |-> e.cl.url]
<1>1. k \in ReadIds(a, s, t) <=> \E i \in Instances : k \in IdsOf(Seen(a[i], s[i], t[i]))
  BY DEF ReadIds
<1>2. \A i \in Instances :
        k \in IdsOf(Seen(a[i], s[i], t[i])) <=> \E x \in Seen(a[i], s[i], t[i]) : k = Ident(x)
  BY Zenon DEF IdsOf
<1>3. k \in CallIds(calls) <=> \E p \in Procs : calls[p].at # "idle" /\ k = Ident(calls[p].obj)
  BY Zenon DEF CallIds
<1>4. k \in EntryIds(entries) <=> \E e \in entries : k = [name |-> e.name, rv |-> e.rv, url |-> e.cl.url]
  BY Zenon DEF EntryIds
<1>5. k \in KnownOf(a, s, t, calls, entries)
        <=> k \in ReadIds(a, s, t) \/ k \in CallIds(calls) \/ k \in EntryIds(entries)
  BY DEF KnownOf
<1> QED BY <1>1, <1>2, <1>3, <1>4, <1>5, Zenon

(* What is known: a caller's spec, an entry's, and those of the informer and the
   API server. *)
LEMMA KnownMembers ==
  /\ \A p \in Procs : call[p].at # "idle" => Ident(call[p].obj) \in Known
  /\ \A e \in cache : [name |-> e.name, rv |-> e.rv, url |-> e.cl.url] \in Known
  /\ \A i \in Instances : Ident(store[i]) \in Known /\ Ident(api[i]) \in Known
<1>1. \A i \in Instances : api[i] \in Seen(api[i], stream[i], store[i])
                           /\ store[i] \in Seen(api[i], stream[i], store[i])
  BY DEF Seen
<1> QED BY <1>1, KnownMember, Zenon DEF Known

(* At the start there are the Instances never created, and no client. *)
LEMMA KnownInit == Init => KnownInv /\ CacheInv
<1> SUFFICES ASSUME Init PROVE KnownInv /\ CacheInv
  OBVIOUS
<1>1. cache = {} /\ \A p \in Procs : call[p].at = "idle"
  BY NothingType DEF Init
<1>2. ASSUME NEW i \in Instances
      PROVE  Seen(api[i], stream[i], store[i]) = {NoInstance(i)} /\ api[i] = NoInstance(i)
  BY DEF Init, Seen
<1>3. ASSUME NEW k \in Known
      PROVE  \E i \in Instances : k = Ident(api[i]) /\ k.name = i /\ k.rv = api[i].rv /\ k.rv \in Nat
  <2>1. PICK i \in Instances : k = Ident(api[i])
    <3>1. \/ \E i \in Instances : \E x \in Seen(api[i], stream[i], store[i]) : k = Ident(x)
          \/ \E p \in Procs : call[p].at # "idle" /\ k = Ident(call[p].obj)
          \/ \E e \in cache : k = [name |-> e.name, rv |-> e.rv, url |-> e.cl.url]
      BY <1>3, KnownMember DEF Known
    <3>2. \E i \in Instances : \E x \in Seen(api[i], stream[i], store[i]) : k = Ident(x)
      BY <1>1, <3>1
    <3>3. \A i \in Instances : \A x \in Seen(api[i], stream[i], store[i]) : x = api[i]
      BY <1>2
    <3> QED BY <3>2, <3>3
  <2> QED BY <1>2, <2>1, NoInstanceType, VersionFields DEF Ident
<1>4. \A k \in Known : k.name \in Instances /\ k.rv \in Nat /\ k.rv <= api[k.name].rv
  BY <1>3
<1>5. \A k, l \in Known : k.name = l.name /\ k.rv = l.rv => k.url = l.url
  BY <1>3
<1> QED BY <1>1, <1>4, <1>5 DEF KnownInv, CacheInv

(* What is known after a step was known before, or is a current Instance. *)
LEMMA KnownStep ==
  ASSUME TypeOK, NameInv, CallInv, [Next]_vars
  PROVE  Known' \subseteq Known \cup {Ident(api'[i]) : i \in Instances}
<1> DEFINE Cur == {Ident(api'[i]) : i \in Instances}
           Calls == \A p \in Procs : call'[p].at # "idle" => Ident(call'[p].obj) \in Known \cup Cur
           Entries == \A e \in cache' : [name |-> e.name, rv |-> e.rv, url |-> e.cl.url] \in Known
<1>1. ASSUME NEW i \in Instances, NEW x \in Seen(api'[i], stream'[i], store'[i])
      PROVE  Ident(x) \in Known \cup Cur
  <2>1. /\ api[i] \in Version /\ stream[i] \in Seq(Version) /\ store[i] \in Version /\ api'[i] \in Version
        /\ KubeStep(api[i], stream[i], store[i], api'[i], stream'[i], store'[i])
    BY TypeNext DEF TypeOK, ApiStep
  <2>2. x \in Seen(api[i], stream[i], store[i]) \cup {api'[i]}
    BY <1>1, <2>1, SeenStep
  <2>3. CASE x = api'[i]
    BY <2>3
  <2>4. CASE x \in Seen(api[i], stream[i], store[i])
    BY <2>4, KnownMember, Zenon DEF Known
  <2> QED BY <2>2, <2>3, <2>4
<1>2. ASSUME Calls, Entries PROVE Known' \subseteq Known \cup Cur
  <2> HIDE DEF Cur
  <2> SUFFICES ASSUME NEW k \in Known' PROVE k \in Known \cup Cur
    OBVIOUS
  <2>1. k \in KnownOf(api', stream', store', call', cache')
    BY DEF Known
  <2>2. CASE \E i \in Instances : \E x \in Seen(api'[i], stream'[i], store'[i]) : k = Ident(x)
    BY <1>1, <2>2
  <2>3. CASE \E p \in Procs : call'[p].at # "idle" /\ k = Ident(call'[p].obj)
    BY <1>2, <2>3
  <2>4. CASE \E e \in cache' : k = [name |-> e.name, rv |-> e.rv, url |-> e.cl.url]
    BY <1>2, <2>4
  <2>5. \/ \E i \in Instances : \E x \in Seen(api'[i], stream'[i], store'[i]) : k = Ident(x)
        \/ \E p \in Procs : call'[p].at # "idle" /\ k = Ident(call'[p].obj)
        \/ \E e \in cache' : k = [name |-> e.name, rv |-> e.rv, url |-> e.cl.url]
    BY <2>1, KnownMember
  <2> QED BY <2>2, <2>3, <2>4, <2>5
<1>3. /\ \A p \in Procs : call[p].at # "idle" => Ident(call[p].obj) \in Known
      /\ \A e \in cache : [name |-> e.name, rv |-> e.rv, url |-> e.cl.url] \in Known
      /\ \A i \in Instances : Ident(store[i]) \in Known /\ Ident(api[i]) \in Known
  BY KnownMembers
<1>4. (UNCHANGED call => Calls) /\ (cache' \subseteq cache => Entries)
  BY <1>3
<1>5. CASE \E i \in Instances : CreateInstance(i) \/ ChangeUrl(i) \/ Annotate(i) \/ DeleteInstance(i)
  BY <1>2, <1>4, <1>5, UserFields
<1>6. CASE \/ ChangeSecret \/ AcceptOther \/ WorkerStalls \/ SecretInformerReceives \/ UNCHANGED vars
           \/ \E i \in Instances : DelayExpires(i)
  BY <1>2, <1>4, <1>6, OtherFields
<1>7. CASE \E i \in Instances : InformerReceives(i)
  BY <1>2, <1>4, <1>7, ReceiveFields
<1>8. ASSUME NEW p \in Procs, GetOrBuild(p) PROVE Known' \subseteq Known \cup Cur
  <2>1. Calls
    BY <1>3, <1>8, BuildFields
  <2>2. ASSUME NEW e \in cache' PROVE [name |-> e.name, rv |-> e.rv, url |-> e.cl.url] \in Known
    <3>1. CASE e \in cache
      BY <1>3, <3>1
    <3>2. CASE e \notin cache
      <4>1. e = [name |-> call[p].obj.name, rv |-> call[p].obj.rv, cl |-> call[p].cl]
            /\ call[p].cl.url = call[p].obj.url
        BY <1>8, <2>2, <3>2, BuildFields DEF Set, Evict
      <4>2. Ident(call[p].obj) \in Known
        BY <1>3, <1>8, BuildFields
      <4> QED BY <4>1, <4>2 DEF Ident
    <3> QED BY <3>1, <3>2
  <2> QED BY <1>2, <2>1, <2>2
<1>9. ASSUME NEW p \in Procs, Return(p) \/ \E i \in Instances : Resolve(p, i)
      PROVE  Known' \subseteq Known \cup Cur
  <2>1. Calls
    BY <1>3, <1>9, ResolverFields
  <2> QED BY <1>2, <1>4, <1>9, <2>1, ResolverFields
<1>10. CASE \E i \in Instances : Begin(i)
  <2>1. Calls
    BY <1>3, <1>10, BeginFields
  <2> QED BY <1>2, <1>4, <1>10, <2>1, BeginFields
<1>11. CASE RemoveFinalizer \/ AddFinalizer \/ UpdateStatus \/ Report
  <2>1. Calls
    BY <1>3, <1>11, WriteFields
  <2> QED BY <1>2, <1>4, <1>11, <2>1, WriteFields
<1>12. CASE EvictClient \/ ClientOrError \/ GetInfo \/ ListWorkers
  BY <1>2, <1>4, <1>12, WorkFields
<1>13. CASE CrashRestart
  BY <1>2, <1>13, RestartFields
<1>14. Worker \in Procs /\ Resolvers \subseteq Procs
  BY DEF Procs
<1> QED
  BY <1>5, <1>6, <1>7, <1>8, <1>9, <1>10, <1>11, <1>12, <1>13, <1>14
     DEF Next, User, Queueing, Resolving, Working

(* A spec that becomes known has a resourceVersion of its own. *)
LEMMA KnownNext ==
  ASSUME TypeOK, NameInv, CallInv, KnownInv, [Next]_vars
  PROVE  KnownInv'
<1>0. Known' \subseteq Known \cup {Ident(api'[i]) : i \in Instances}
  BY KnownStep
<1>1. ASSUME NEW i \in Instances
      PROVE  /\ Ident(api'[i]).name = i /\ Ident(api'[i]).rv = api'[i].rv /\ api'[i].rv \in Nat
             /\ api[i].rv \in Nat /\ api[i].rv <= api'[i].rv
             /\ Ident(api'[i]) \in Known \/ api'[i].rv = api[i].rv + 1
  <2>1. /\ api'[i] \in Version /\ api'[i].name = i /\ api[i] \in Version
        /\ KubeStep(api[i], stream[i], store[i], api'[i], stream'[i], store'[i])
    BY TypeNext DEF TypeOK, ApiStep
  <2>2. api'[i] = api[i] \/ api'[i].rv = api[i].rv + 1
    BY <2>1 DEF KubeStep
  <2>3. Ident(api[i]) \in Known
    BY KnownMembers
  <2>4. api[i].rv \in Nat /\ api'[i].rv \in Nat
    BY <2>1, VersionFields
  <2>5. Ident(api'[i]).name = i /\ Ident(api'[i]).rv = api'[i].rv
    BY <2>1 DEF Ident
  <2> QED BY <2>2, <2>3, <2>4, <2>5
<1>2. ASSUME NEW k \in Known' PROVE k \in Known \/ (k.name \in Instances /\ k = Ident(api'[k.name]) /\ k.rv = api[k.name].rv + 1)
  BY <1>0, <1>1, <1>2
<1>3. \A k \in Known' : k.name \in Instances /\ k.rv \in Nat /\ k.rv <= api'[k.name].rv
  BY <1>0, <1>1 DEF KnownInv
<1>4. ASSUME NEW k \in Known', NEW l \in Known', k.name = l.name, k.rv = l.rv PROVE k.url = l.url
  <2>1. CASE k \in Known /\ l \in Known
    BY <1>4, <2>1 DEF KnownInv
  <2>2. CASE k \in Known /\ l \notin Known
    BY <1>1, <1>2, <1>4, <2>2 DEF KnownInv
  <2>3. CASE k \notin Known /\ l \in Known
    BY <1>1, <1>2, <1>4, <2>3 DEF KnownInv
  <2>4. CASE k \notin Known /\ l \notin Known
    BY <1>2, <1>4, <2>4
  <2> QED BY <2>1, <2>2, <2>3, <2>4
<1> QED BY <1>3, <1>4 DEF KnownInv

(* A client found in the cache is for the spec read: its key says so. *)
LEMMA CallNext ==
  ASSUME TypeOK, NameInv, CallInv, KnownInv, [Next]_vars
  PROVE  CallInv'
<1> DEFINE Good(c) == /\ c.at \in {"get", "build"} => c.cl = NoClient
                      /\ c.at = "set" => c.cl # NoClient
                      /\ c.at \in {"set", "done"} /\ c.cl # NoClient => c.cl.url = c.obj.url
<1>1. \A p \in Procs : Good(call[p])
  BY DEF CallInv
<1>2. (\A p \in Procs : Good(call'[p])) => CallInv'
  BY DEF CallInv
<1>3. CASE UNCHANGED call
  BY <1>1, <1>2, <1>3
<1>4. ASSUME NEW p \in Procs, GetOrBuild(p) PROVE CallInv'
  <2>1. ASSUME NEW e \in cache, e.name = call[p].obj.name, e.rv = call[p].obj.rv
        PROVE  e.cl.url = call[p].obj.url
    <3>1. [name |-> e.name, rv |-> e.rv, url |-> e.cl.url] \in Known /\ Ident(call[p].obj) \in Known
      BY <1>4, BuildFields, KnownMembers
    <3>2. \A k, l \in Known : k.name = l.name /\ k.rv = l.rv => k.url = l.url
      BY DEF KnownInv
    <3> QED BY <2>1, <3>1, <3>2 DEF Ident
  <2>2. Good(call'[p])
    BY <1>4, <2>1, BuildFields
  <2>3. \A q \in Procs : q # p => call'[q] = call[q]
    BY <1>4, BuildFields
  <2> QED BY <1>1, <1>2, <2>2, <2>3
<1>5. ASSUME NEW p \in Procs, Return(p) \/ \E i \in Instances : Resolve(p, i) PROVE CallInv'
  <2>1. Good(call'[p])
    BY <1>5, ResolverFields
  <2>2. \A q \in Procs : q # p => call'[q] = call[q]
    BY <1>5, ResolverFields
  <2> QED BY <1>1, <1>2, <2>1, <2>2
<1>6. ASSUME NEW i \in Instances, Begin(i) PROVE CallInv'
  <2>1. Good(call'[Worker]) \/ call' = call
    BY <1>6, BeginFields
  <2>2. \A q \in Procs : q # Worker => call'[q] = call[q]
    BY <1>6, BeginFields
  <2> QED BY <1>1, <1>2, <1>3, <2>1, <2>2
<1>7. CASE RemoveFinalizer \/ AddFinalizer \/ UpdateStatus \/ Report
  <2>1. Good(call'[Worker]) \/ call' = call
    BY <1>7, WriteFields
  <2>2. \A q \in Procs : q # Worker => call'[q] = call[q]
    BY <1>7, WriteFields
  <2> QED BY <1>1, <1>2, <1>3, <2>1, <2>2
<1>8. CASE CrashRestart
  BY <1>2, <1>8, RestartFields
<1>9. CASE \E i \in Instances : CreateInstance(i) \/ ChangeUrl(i) \/ Annotate(i) \/ DeleteInstance(i)
  BY <1>3, <1>9, UserFields
<1>10. CASE \/ ChangeSecret \/ AcceptOther \/ WorkerStalls \/ SecretInformerReceives \/ UNCHANGED vars
            \/ \E i \in Instances : DelayExpires(i)
  BY <1>3, <1>10, OtherFields
<1>11. CASE \E i \in Instances : InformerReceives(i)
  BY <1>3, <1>11, ReceiveFields
<1>12. CASE EvictClient \/ ClientOrError \/ GetInfo \/ ListWorkers
  BY <1>3, <1>12, WorkFields
<1>13. Worker \in Procs /\ Resolvers \subseteq Procs
  BY DEF Procs
<1> QED
  BY <1>4, <1>5, <1>6, <1>7, <1>8, <1>9, <1>10, <1>11, <1>12, <1>13
     DEF Next, User, Queueing, Resolving, Working

(* A client is stored in place of the others of its name. *)
LEMMA CacheNext ==
  ASSUME TypeOK, NameInv, CallInv, CacheInv, [Next]_vars
  PROVE  CacheInv'
<1>1. ASSUME cache' \subseteq cache PROVE CacheInv'
  BY <1>1 DEF CacheInv
<1>2. ASSUME NEW p \in Procs, GetOrBuild(p) PROVE CacheInv'
  <2>1. CASE cache' = cache
    BY <1>1, <2>1
  <2>2. CASE cache' = Set(cache, call[p].obj, call[p].cl)
    BY <2>2 DEF CacheInv, Set, Evict, EntriesOf
  <2> QED BY <1>2, <2>1, <2>2, BuildFields
<1>3. CASE \E i \in Instances : CreateInstance(i) \/ ChangeUrl(i) \/ Annotate(i) \/ DeleteInstance(i)
  BY <1>1, <1>3, UserFields
<1>4. CASE \/ ChangeSecret \/ AcceptOther \/ WorkerStalls \/ SecretInformerReceives \/ UNCHANGED vars
           \/ \E i \in Instances : DelayExpires(i)
  BY <1>1, <1>4, OtherFields
<1>5. CASE \E i \in Instances : InformerReceives(i) \/ Begin(i)
  BY <1>1, <1>5, ReceiveFields, BeginFields
<1>6. ASSUME NEW p \in Procs, Return(p) \/ \E i \in Instances : Resolve(p, i) PROVE CacheInv'
  BY <1>1, <1>6, ResolverFields
<1>7. CASE RemoveFinalizer \/ AddFinalizer \/ UpdateStatus \/ Report
  BY <1>1, <1>7, WriteFields
<1>8. CASE EvictClient \/ ClientOrError \/ GetInfo \/ ListWorkers
  BY <1>1, <1>8, WorkFields
<1>9. CASE CrashRestart
  BY <1>1, <1>9, RestartFields
<1>10. Worker \in Procs /\ Resolvers \subseteq Procs
  BY DEF Procs
<1> QED
  BY <1>2, <1>3, <1>4, <1>5, <1>6, <1>7, <1>8, <1>9, <1>10
     DEF Next, User, Queueing, Resolving, Working

(* The inductive invariant of the three theorems. *)
IInv == TypeOK /\ NameInv /\ CallInv /\ KnownInv /\ CacheInv

(* It holds in every state of InstanceReconciler and the cache. *)
LEMMA Inductive == Spec => []IInv
<1>1. Init => IInv
  BY TypeInit, KnownInit DEF IInv
<1>2. IInv /\ [Next]_vars => IInv'
  BY TypeNext, KnownNext, CallNext, CacheNext DEF IInv
<1> QED BY <1>1, <1>2, PTL DEF Spec

(* Every state InstanceReconciler and the client cache can be in is well-formed;
   in particular no client without a credential is ever stored. *)
THEOREM TypeCorrect == Spec => []TypeOK
<1>1. IInv => TypeOK
  BY DEF IInv
<1> QED BY <1>1, Inductive, PTL

(* GetOrBuild gives its caller a client for the URL the caller read, for any
   number of resolvers that look up, build and store at the same time: the
   resourceVersion in the key tells all specs apart. *)
THEOREM ClientCorrect == Spec => []ClientOfTheSpecRead
<1>1. IInv => ClientOfTheSpecRead
  BY DEF IInv, CallInv, ClientOfTheSpecRead
<1> QED BY <1>1, Inductive, PTL

(* "Cache stores one Concourse client per Instance", whatever the order in which
   clients of different versions are stored. *)
THEOREM OneClientCorrect == Spec => []OneClientPerInstance
<1>1. ASSUME CacheInv PROVE OneClientPerInstance
  <2> SUFFICES ASSUME NEW i \in Instances PROVE Cardinality(EntriesOf(cache, i)) <= 1
    BY DEF OneClientPerInstance
  <2>1. CASE EntriesOf(cache, i) = {}
    BY <2>1, FS_EmptySet
  <2>2. ASSUME NEW e \in EntriesOf(cache, i) PROVE Cardinality(EntriesOf(cache, i)) <= 1
    <3>1. EntriesOf(cache, i) = {e}
      BY <1>1, <2>2 DEF CacheInv, EntriesOf
    <3>2. Cardinality({e}) = 1
      BY FS_Singleton
    <3> QED BY <3>1, <3>2
  <2> QED BY <2>1, <2>2
<1>2. IInv => OneClientPerInstance
  BY <1>1 DEF IInv
<1> QED BY <1>2, Inductive, PTL
=============================================================================
