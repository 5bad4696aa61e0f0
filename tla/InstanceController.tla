------------------------- MODULE InstanceController -------------------------
(***************************************************************************)
(* InstanceReconciler (src/internal/controller/instance_controller.go)     *)
(* together with the client cache it shares with every other reconciler    *)
(* (src/internal/concourse/client_cache.go, auth.go, and                   *)
(* resolveInstanceForTeam in src/internal/controller/resolver.go).         *)
(*                                                                         *)
(* GetOrBuild holds the mutex only while it reads or writes the map: the   *)
(* client is built in between, from a Secret the informer may hold in an   *)
(* older version.                                                          *)
(***************************************************************************)
EXTENDS KubeAPI, ClientCache, FiniteSets

CONSTANTS
  Instances,   \* names of Instance resources
  Resolvers,   \* reconcilers of other kinds that resolve an Instance
  Worker,      \* the worker of the Instance controller
  Urls,        \* values of spec.url
  Creds,       \* credentials
  UserSteps,   \* what users do besides creating Instances
  MaxEdits,    \* bound: steps of users and administrators
  MaxFaults    \* bound: failed calls and crashes

NoSecret == "no secret"
AllUserSteps == {"url", "annotate", "delete", "secret", "accept", "stall"}

ASSUME InstancesAssumption == Instances # {}
ASSUME WorkerAssumption == Worker \notin Resolvers
ASSUME UrlsAssumption == Urls # {} /\ NoSecret \notin Creds /\ Creds # {}
ASSUME UserStepsAssumption == UserSteps \subseteq AllUserSteps
ASSUME BoundsAssumption == MaxEdits \in Nat /\ MaxFaults \in Nat

VARIABLES
  api, stream, store,  \* each Instance: as it is, on its way, in the informer
  secret, secretStore, \* the Secret the Instances refer to: as it is, in the informer
  accepted,            \* the credential Concourse accepts
  stalled,             \* whether Concourse has a stalled worker
  cache,               \* Cache.store
  call,                \* the GetOrBuild of each goroutine
  wq, pc, rc,          \* the Instance controller: queue, next call, request
  renewed,             \* history: the credential was renewed as documented
  edits, faults

kube == <<api, stream, store>>
secrets == <<secret, secretStore, renewed>>
atc == <<accepted, stalled>>
vars == <<api, stream, store, secret, secretStore, accepted, stalled, cache, call,
          wq, pc, rc, renewed, edits, faults>>
-----------------------------------------------------------------------------
(* Data. *)

(* A version of an Instance; ready is the reason of the conditions Ready and
   Authenticated, healthy the reason of WorkersHealthy. *)
Version ==
  [name: Instances, state: States, rv: Nat, finalizer: BOOLEAN, gen: Nat, url: Urls,
   observed: Nat, ready: {"none", "AuthFailed", "InfoFailed", "Ready"},
   healthy: {"none", "AllRunning", "WorkersStalled"}]

NewInstance(i, rv, url) ==
  [name |-> i, state |-> "live", rv |-> rv, finalizer |-> FALSE, gen |-> 1, url |-> url,
   observed |-> 0, ready |-> "none", healthy |-> "none"]

NoInstance(i) == [NewInstance(i, 0, CHOOSE u \in Urls : TRUE) EXCEPT !.state = "gone"]

(* A Concourse client is as good as the URL and the credential in it. *)
Client == [url: Urls, cred: Creds]
NoClient == [url |-> CHOOSE u \in Urls : TRUE, cred |-> NoSecret]

Procs == Resolvers \cup {Worker}

SomeInstance == CHOOSE i \in Instances : TRUE
NoCall == [at |-> "idle", obj |-> NoInstance(SomeInstance), cl |-> NoClient]
NoRequest == NoInstance(SomeInstance)

Steps == {"idle", "evict", "unfinalize", "finalize", "client", "info", "workers",
          "update", "report"}

TypeOK ==
  /\ api \in [Instances -> Version] /\ store \in [Instances -> Version]
  /\ stream \in [Instances -> Seq(Version)]
  /\ secret \in Creds \cup {NoSecret} /\ secretStore \in Creds \cup {NoSecret}
  /\ accepted \in Creds /\ stalled \in BOOLEAN
  /\ cache \subseteq [name: Instances, rv: Nat, cl: Client]
  /\ call \in [Procs -> [at: {"idle", "get", "build", "set", "done"}, obj: Version,
                         cl: Client \cup {NoClient}]]
  /\ wq \in [Instances -> QueueStates]
  /\ pc \in Steps
  /\ rc \in Version
  /\ renewed \in BOOLEAN
  /\ edits \in 0..MaxEdits /\ faults \in 0..MaxFaults

Init ==
  /\ api = [i \in Instances |-> NoInstance(i)] /\ store = api
  /\ stream = [i \in Instances |-> <<>>]
  /\ accepted \in Creds /\ secret \in {NoSecret, accepted} /\ secretStore = secret
  /\ stalled = FALSE
  /\ cache = {} /\ call = [p \in Procs |-> NoCall]
  /\ wq = [i \in Instances |-> "none"] /\ pc = "idle" /\ rc = NoRequest
  /\ renewed = FALSE /\ edits = 0 /\ faults = 0
-----------------------------------------------------------------------------
(* Users, the administrator of Concourse, and the informers. *)

Edit == edits < MaxEdits /\ edits' = edits + 1

Fault == faults < MaxFaults /\ faults' = faults + 1

Replace(i, obj) ==
  /\ api' = [api EXCEPT ![i] = obj]
  /\ stream' = [stream EXCEPT ![i] = Published(@, api[i], obj)]

CreateInstance(i) ==
  /\ Edit /\ ~Exists(api[i])
  /\ \E url \in Urls : Replace(i, NewInstance(i, api[i].rv + 1, url))
  /\ UNCHANGED <<store, secrets, atc, cache, call, wq, pc, rc, faults>>

ChangeUrl(i) ==
  /\ "url" \in UserSteps /\ Edit /\ Live(api[i])
  /\ \E url \in Urls \ {api[i].url} :
       Replace(i, NextVersion([api[i] EXCEPT !.gen = @ + 1, !.url = url]))
  /\ UNCHANGED <<store, secrets, atc, cache, call, wq, pc, rc, faults>>

(* A new annotation: a new version and nothing else.  It renews the credential
   as documented if the Secret, as the informer has it, is the accepted one. *)
Annotate(i) ==
  /\ "annotate" \in UserSteps /\ Edit /\ Live(api[i])
  /\ Replace(i, NextVersion(api[i]))
  /\ renewed' = (secret = accepted /\ secretStore = secret)
  /\ UNCHANGED <<store, secret, secretStore, atc, cache, call, wq, pc, rc, faults>>

(* The deletion of an Instance waits for the finalizer, if it has it. *)
DeleteInstance(i) ==
  /\ "delete" \in UserSteps /\ Edit /\ Live(api[i])
  /\ Replace(i, NextVersion([api[i] EXCEPT !.state = IF api[i].finalizer THEN "deleting" ELSE "gone"]))
  /\ UNCHANGED <<store, secrets, atc, cache, call, wq, pc, rc, faults>>

ChangeSecret ==
  /\ "secret" \in UserSteps /\ Edit
  /\ \E c \in Creds \ {secret} : secret' = c
  /\ renewed' = FALSE
  /\ UNCHANGED <<kube, secretStore, atc, cache, call, wq, pc, rc, faults>>

AcceptOther ==
  /\ "accept" \in UserSteps /\ Edit
  /\ \E c \in Creds \ {accepted} : accepted' = c
  /\ renewed' = FALSE
  /\ UNCHANGED <<kube, secret, secretStore, stalled, cache, call, wq, pc, rc, faults>>

WorkerStalls ==
  /\ "stall" \in UserSteps /\ Edit
  /\ stalled' = ~stalled
  /\ UNCHANGED <<kube, secrets, accepted, cache, call, wq, pc, rc, faults>>

InformerReceives(i) ==
  /\ stream[i] # <<>>
  /\ store' = [store EXCEPT ![i] = Head(stream[i])]
  /\ stream' = [stream EXCEPT ![i] = Tail(@)]
  /\ wq' = [wq EXCEPT ![i] = "ready"]
  /\ UNCHANGED <<api, secrets, atc, cache, call, pc, rc, edits, faults>>

(* Nothing is enqueued: no controller watches Secrets. *)
SecretInformerReceives ==
  /\ secretStore # secret
  /\ secretStore' = secret
  /\ UNCHANGED <<kube, secret, renewed, atc, cache, call, wq, pc, rc, edits, faults>>

DelayExpires(i) ==
  /\ wq[i] = "waiting"
  /\ wq' = [wq EXCEPT ![i] = "ready"]
  /\ UNCHANGED <<kube, secrets, atc, cache, call, pc, rc, edits, faults>>
-----------------------------------------------------------------------------
(* GetOrBuild of one goroutine. *)

Asks(p, obj) == call' = [call EXCEPT ![p] = [NoCall EXCEPT !.at = "get", !.obj = obj]]

GetFromCache(p) ==
  /\ call[p].at = "get"
  /\ call' = IF Hit(cache, call[p].obj)
             THEN [call EXCEPT ![p].at = "done", ![p].cl = Get(cache, call[p].obj)]
             ELSE [call EXCEPT ![p].at = "build"]
  /\ UNCHANGED <<kube, secrets, atc, cache, wq, pc, rc, edits, faults>>

(* Mutant: the error of the missing Secret is ignored. *)
BuildWithoutSecret(p) ==
  /\ call[p].at = "build"
  /\ call' = [call EXCEPT ![p].at = "set",
                          ![p].cl = [url |-> call[p].obj.url, cred |-> secretStore]]
  /\ UNCHANGED <<kube, secrets, atc, cache, wq, pc, rc, edits, faults>>

(* BuildHTTPClient: a missing Secret is an error. *)
BuildClient(p) ==
  /\ call[p].at = "build"
  /\ call' = IF secretStore = NoSecret THEN [call EXCEPT ![p].at = "done"]
             ELSE [call EXCEPT ![p].at = "set",
                               ![p].cl = [url |-> call[p].obj.url, cred |-> secretStore]]
  /\ UNCHANGED <<kube, secrets, atc, cache, wq, pc, rc, edits, faults>>

SetInCache(p) ==
  /\ call[p].at = "set"
  /\ cache' = Set(cache, call[p].obj, call[p].cl)
  /\ call' = [call EXCEPT ![p].at = "done"]
  /\ UNCHANGED <<kube, secrets, atc, wq, pc, rc, edits, faults>>

(* resolveInstanceForTeam: another reconciler asks for the client of an
   Instance that is Ready in the informer, deleting or not. *)
Resolve(p, i) ==
  /\ call[p].at = "idle"
  /\ Exists(store[i]) /\ store[i].ready = "Ready"
  /\ Asks(p, store[i])
  /\ UNCHANGED <<kube, secrets, atc, cache, wq, pc, rc, edits, faults>>

Return(p) ==
  /\ call[p].at = "done"
  /\ call' = [call EXCEPT ![p] = NoCall]
  /\ UNCHANGED <<kube, secrets, atc, cache, wq, pc, rc, edits, faults>>
-----------------------------------------------------------------------------
(* Reconcile, call by call. *)

Key == rc.name

Idle == pc' = "idle" /\ rc' = NoRequest

Done == Idle /\ UNCHANGED wq

(* Mutant: Result{} is returned instead of Result{RequeueAfter}. *)
NoRequeue == Done

RequeueAfter == Idle /\ wq' = [wq EXCEPT ![Key] = AddAfter(@)]

(* Mutant: the error is logged and the reconcile ends as if it had succeeded. *)
ErrorSwallowed == Done

ReturnError == RequeueAfter

FirstCall(obj) ==
  IF ~Exists(obj) \/ (~Live(obj) /\ ~obj.finalizer) THEN "idle"
  ELSE IF ~Live(obj) THEN "evict"
  ELSE IF obj.finalizer THEN "client" ELSE "finalize"

Begin(i) ==
  /\ pc = "idle" /\ wq[i] = "ready"
  /\ wq' = [wq EXCEPT ![i] = "none"]
  /\ pc' = FirstCall(store[i])
  /\ rc' = IF pc' = "idle" THEN NoRequest ELSE store[i]
  /\ IF pc' = "client" THEN Asks(Worker, store[i]) ELSE UNCHANGED call
  /\ UNCHANGED <<kube, secrets, atc, cache, edits, faults>>

EvictClient ==
  /\ pc = "evict"
  /\ cache' = Evict(cache, Key)
  /\ pc' = "unfinalize"
  /\ UNCHANGED <<kube, secrets, atc, call, wq, rc, edits, faults>>

Accepted == Accepts(api[Key], rc)

(* Update without the finalizer, and the deletion completes.  A call that fails
   may have been carried out all the same, here and in the other writes. *)
RemoveFinalizer ==
  /\ pc = "unfinalize"
  /\ \/ /\ Accepted
        /\ Replace(Key, NextVersion([rc EXCEPT !.finalizer = FALSE, !.state = "gone"]))
        /\ \/ Done /\ UNCHANGED faults
           \/ Fault /\ ReturnError
     \/ ~Accepted /\ ReturnError /\ UNCHANGED <<api, stream, faults>>
     \/ Fault /\ ReturnError /\ UNCHANGED <<api, stream>>
  /\ UNCHANGED <<store, secrets, atc, cache, call, edits>>

(* Update with the finalizer; the answer brings the new resourceVersion. *)
AddFinalizer ==
  LET obj == NextVersion([rc EXCEPT !.finalizer = TRUE])
  IN  /\ pc = "finalize"
      /\ \/ /\ Accepted
            /\ Replace(Key, obj)
            /\ \/ /\ rc' = obj /\ pc' = "client" /\ Asks(Worker, obj)
                  /\ UNCHANGED <<wq, faults>>
               \/ Fault /\ ReturnError /\ UNCHANGED call
         \/ ~Accepted /\ ReturnError /\ UNCHANGED <<api, stream, call, faults>>
         \/ Fault /\ ReturnError /\ UNCHANGED <<api, stream, call>>
      /\ UNCHANGED <<store, secrets, atc, cache, edits>>

(* GetOrBuild returned a client or an error. *)
ClientOrError ==
  /\ pc = "client" /\ call[Worker].at = "done"
  /\ IF call[Worker].cl = NoClient
     THEN pc' = "report" /\ rc' = [rc EXCEPT !.ready = "AuthFailed"]
     ELSE pc' = "info" /\ UNCHANGED rc
  /\ UNCHANGED <<kube, secrets, atc, cache, call, wq, edits, faults>>

(* GetInfo.  It succeeds with the credential Concourse accepts.  Anything else
   counts as a fault: an outage, or an old token that has not expired yet. *)
GetInfo ==
  /\ pc = "info"
  /\ \E ok \in BOOLEAN :
       /\ IF ok = (call[Worker].cl.cred = accepted) THEN UNCHANGED faults ELSE Fault
       /\ IF ok THEN pc' = "workers" /\ UNCHANGED rc
          ELSE pc' = "report" /\ rc' = [rc EXCEPT !.ready = "InfoFailed"]
  /\ UNCHANGED <<kube, secrets, atc, cache, call, wq, edits>>

(* ListWorkers: an error is logged and leaves the list empty.  Then the status
   the reconcile is going to write. *)
ListWorkers ==
  /\ pc = "workers"
  /\ \E list \in {"unknown", IF stalled THEN "stalled" ELSE "running"} :
       /\ IF list = "unknown" THEN Fault ELSE UNCHANGED faults
       /\ rc' = [rc EXCEPT !.observed = rc.gen, !.ready = "Ready",
                           !.healthy = IF list = "stalled" THEN "WorkersStalled" ELSE "AllRunning"]
  /\ pc' = "update"
  /\ UNCHANGED <<kube, secrets, atc, cache, call, wq, edits>>

EndCall == call' = [call EXCEPT ![Worker] = NoCall]

UpdateStatus ==
  /\ pc = "update"
  /\ \/ /\ Accepted /\ Replace(Key, Written(api[Key], rc))
        /\ \/ RequeueAfter /\ UNCHANGED faults
           \/ Fault /\ ReturnError
     \/ ~Accepted /\ ReturnError /\ UNCHANGED <<api, stream, faults>>
     \/ Fault /\ ReturnError /\ UNCHANGED <<api, stream>>
  /\ EndCall
  /\ UNCHANGED <<store, secrets, atc, cache, edits>>

(* Ready=False is written; an error of the write is only logged. *)
Report ==
  /\ pc = "report"
  /\ \/ Accepted /\ Replace(Key, Written(api[Key], rc)) /\ UNCHANGED faults
     \/ ~Accepted /\ UNCHANGED <<api, stream, faults>>
     \/ Fault /\ UNCHANGED <<api, stream>>
  /\ RequeueAfter
  /\ EndCall
  /\ UNCHANGED <<store, secrets, atc, cache, edits>>

CrashRestart ==
  /\ Fault
  /\ Idle
  /\ cache' = {} /\ call' = [p \in Procs |-> NoCall]
  /\ store' = api /\ stream' = [i \in Instances |-> <<>>] /\ secretStore' = secret
  /\ wq' = [i \in Instances |-> IF Exists(api[i]) THEN "ready" ELSE "none"]
  /\ UNCHANGED <<api, secret, renewed, atc, edits>>
-----------------------------------------------------------------------------
User == \/ \E i \in Instances :
             CreateInstance(i) \/ ChangeUrl(i) \/ Annotate(i) \/ DeleteInstance(i)
        \/ ChangeSecret \/ AcceptOther \/ WorkerStalls

Queueing == \/ \E i \in Instances : InformerReceives(i) \/ DelayExpires(i)
            \/ SecretInformerReceives

GetOrBuild(p) == GetFromCache(p) \/ BuildClient(p) \/ SetInCache(p)

Resolving == \E p \in Resolvers :
               GetOrBuild(p) \/ Return(p) \/ \E i \in Instances : Resolve(p, i)

Working == \/ EvictClient \/ RemoveFinalizer \/ AddFinalizer \/ GetOrBuild(Worker)
           \/ ClientOrError \/ GetInfo \/ ListWorkers \/ UpdateStatus \/ Report

Next == User \/ Queueing \/ Resolving \/ Working \/ CrashRestart
        \/ \E i \in Instances : Begin(i)

Spec == Init /\ [][Next]_vars

(* The process runs: informers, delays, the worker and the resolvers.  Nothing
   is assumed of users, of administrators, or of when a resolver starts. *)
Fairness ==
  /\ \A i \in Instances : /\ WF_vars(InformerReceives(i)) /\ WF_vars(DelayExpires(i))
                          /\ SF_vars(Begin(i))
  /\ WF_vars(SecretInformerReceives)
  /\ WF_vars(Working)
  /\ \A p \in Resolvers : WF_vars(GetOrBuild(p) \/ Return(p))

FairSpec == Spec /\ Fairness
-----------------------------------------------------------------------------
(* Correctness. *)

(* Whatever the interleaving of lookups, builds and stores, every GetOrBuild
   returns a client for the URL of the very version of the Instance its caller
   read, never one of an earlier URL or of a deleted Instance of that name. *)
ClientOfTheSpecRead ==
  \A p \in Procs :
    call[p].at = "done" /\ call[p].cl # NoClient => call[p].cl.url = call[p].obj.url

(* "Cache stores one Concourse client per Instance". *)
OneClientPerInstance ==
  \A i \in Instances : Cardinality(EntriesOf(cache, i)) <= 1

(* A deletion is not held up by the finalizer, whatever conflicts and failures
   the removal of the finalizer meets. *)
DeletionCompletes ==
  \A i \in Instances : (api[i].state = "deleting") ~> ~Exists(api[i])

IsReady(i) == api[i].ready = "Ready"

(* The documented renewal of a credential (change the Secret, then touch the
   Instance) leads to a Ready Instance, if the Secret had reached the informer
   when the Instance was touched. *)
RenewalHeals ==
  \A i \in Instances :
    <>[](renewed /\ Live(api[i])) => <>[](IsReady(i))

(* A worker that stays stalled shows in an Instance that stays Ready, and is not
   forgotten again when its list of workers cannot be read once. *)
StallIsReported ==
  \A i \in Instances :
    <>[](stalled /\ IsReady(i) /\ Live(api[i])) => <>[](api[i].healthy = "WorkersStalled")

(* "removes the client from the cache before allowing the deletion to
   complete": no client of a deleted Instance is left in the cache. *)
NoClientAfterDeletion ==
  \A i \in Instances : ~Exists(api[i]) => EntriesOf(cache, i) = {}
=============================================================================
