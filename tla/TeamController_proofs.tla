------------------------ MODULE TeamController_proofs ------------------------
(* Theorems about TeamController, for any names, members and specs, and any  *)
(* budget of edits, faults, crashes and time.                                *)
EXTENDS TeamController, KubeAPI_proofs

(* Type correctness. *)

(* The Team that was never created is a well-formed version. *)
LEMMA NoTeamType == NoTeam \in Version /\ ~Exists(NoTeam) /\ NoTeam.observed <= NoTeam.gen
<1>1. (CHOOSE s \in Specs : TRUE) \in Specs
  BY SpecsAssumption
<1>2. NoTeam \in Version
  BY <1>1 DEF NoTeam, NewTeam, Version, States
<1>3. NoTeam.state = "gone" /\ NoTeam.observed = 0 /\ NoTeam.gen = 1
  BY DEF NoTeam, NewTeam
<1> QED BY <1>2, <1>3 DEF Exists

(* The fields of a version, so that proofs need not expand it. *)
LEMMA VersionFields ==
  ASSUME NEW v \in Version
  PROVE  /\ v.state \in States /\ v.rv \in Nat /\ v.gen \in Nat /\ v.observed \in Nat
         /\ v.finalizer \in BOOLEAN /\ v.spec \in Specs
         /\ v.spec.name \in Names /\ v.spec.roles \subseteq TeamRole
<1>1. v.spec \in [name: Names, roles: SUBSET TeamRole]
  BY SpecsAssumption DEF Version
<1> QED BY <1>1 DEF Version

(* A new resourceVersion is all that a write adds to the object written. *)
LEMMA NextVersionFields ==
  ASSUME NEW v \in Version
  PROVE  LET w == NextVersion(v)
         IN  /\ w \in Version /\ w.rv = v.rv + 1 /\ w.state = v.state /\ w.finalizer = v.finalizer
             /\ w.gen = v.gen /\ w.spec = v.spec /\ w.observed = v.observed /\ w.ready = v.ready
BY DEF NextVersion, Version

(* What a user's creation of a Team brings about. *)
LEMMA CreateFields ==
  ASSUME TypeOK, CreateTeam
  PROVE  /\ ~Exists(api) /\ api' \in Version /\ api'.rv = api.rv + 1 /\ Live(api') /\ ~api'.finalizer
         /\ api'.observed = 0 /\ api'.gen = 1 /\ api'.ready = "none"
         /\ Replace(api') /\ UNCHANGED <<store, wq, pc, rc, atc, nextID, abandoned, tampered>>
<1>1. PICK spec \in Specs : Submit(NewTeam(api.rv + 1, spec))
  BY DEF CreateTeam
<1>2. api.rv + 1 \in Nat
  BY VersionFields DEF TypeOK, FrameOK
<1>3. /\ NewTeam(api.rv + 1, spec) \in Version /\ NewTeam(api.rv + 1, spec).rv = api.rv + 1
      /\ NewTeam(api.rv + 1, spec).state = "live" /\ ~NewTeam(api.rv + 1, spec).finalizer
      /\ NewTeam(api.rv + 1, spec).observed = 0 /\ NewTeam(api.rv + 1, spec).gen = 1
      /\ NewTeam(api.rv + 1, spec).ready = "none"
  BY <1>2 DEF NewTeam, Version, States
<1> QED BY <1>1, <1>3 DEF CreateTeam, Submit, Replace, Live, worker, concourse, hist

(* What an edit of the spec brings about: a new generation, and a team given up
   if the Team gets another name. *)
LEMMA EditFields ==
  ASSUME TypeOK, EditTeam
  PROVE  /\ Live(api) /\ api' \in Version /\ api'.rv = api.rv + 1 /\ api'.state = api.state
         /\ api'.finalizer = api.finalizer /\ api'.gen = api.gen + 1 /\ api'.observed = api.observed
         /\ Replace(api') /\ UNCHANGED <<store, wq, pc, rc, atc, nextID, tampered>>
         /\ abandoned \subseteq abandoned' /\ abandoned' \subseteq Names
         /\ api'.spec.name = api.spec.name \/ api.spec.name \in abandoned'
<1>0. api \in Version /\ api.gen + 1 \in Nat /\ api.spec.name \in Names
  BY VersionFields DEF TypeOK, FrameOK
<1>1. PICK spec \in Specs :
        /\ Submit(Respecified(spec))
        /\ abandoned' = IF spec.name = api.spec.name THEN abandoned ELSE abandoned \cup {api.spec.name}
  BY DEF EditTeam
<1>2. [api EXCEPT !.gen = @ + 1, !.spec = spec] \in Version
  BY <1>0 DEF Version
<1>3. /\ Respecified(spec) \in Version /\ Respecified(spec).rv = api.rv + 1
      /\ Respecified(spec).state = api.state /\ Respecified(spec).finalizer = api.finalizer
      /\ Respecified(spec).gen = api.gen + 1 /\ Respecified(spec).observed = api.observed
      /\ Respecified(spec).spec = spec
  BY <1>0, <1>2, NextVersionFields DEF Respecified, Version
<1>4. api' = Respecified(spec)
  BY <1>1 DEF Submit, Replace
<1>5. /\ abandoned \subseteq abandoned' /\ abandoned' \subseteq Names
      /\ api'.spec.name = api.spec.name \/ api.spec.name \in abandoned'
  BY <1>0, <1>1, <1>3, <1>4 DEF TypeOK
<1> QED BY <1>1, <1>3, <1>4, <1>5 DEF EditTeam, Submit, Replace, worker, concourse

(* What a write of labels or annotations brings about. *)
LEMMA AnnotateFields ==
  ASSUME TypeOK, AnnotateTeam
  PROVE  /\ Exists(api) /\ api' \in Version /\ api'.rv = api.rv + 1 /\ api'.state = api.state
         /\ api'.finalizer = api.finalizer /\ api'.spec = api.spec /\ api'.gen = api.gen
         /\ api'.observed = api.observed /\ api'.ready = api.ready
         /\ Replace(api') /\ UNCHANGED <<store, wq, pc, rc, atc, nextID, abandoned, tampered>>
<1>1. api \in Version /\ api' = NextVersion(api)
  BY DEF TypeOK, FrameOK, AnnotateTeam, Annotate, Submit, Replace
<1> QED BY <1>1, NextVersionFields DEF AnnotateTeam, Annotate, Submit, worker, concourse, hist

(* What a user's deletion brings about: the end, or the wait for the finalizer. *)
LEMMA DeleteFields ==
  ASSUME TypeOK, DeleteTeamResource
  PROVE  /\ Live(api) /\ api' \in Version /\ api'.rv = api.rv + 1 /\ ~Live(api')
         /\ Exists(api') <=> api.finalizer
         /\ api'.finalizer = api.finalizer /\ api'.spec = api.spec /\ api'.gen = api.gen
         /\ api'.observed = api.observed
         /\ Replace(api') /\ UNCHANGED <<store, wq, pc, rc, atc, nextID, abandoned, tampered>>
<1> DEFINE state == IF api.finalizer THEN "deleting" ELSE "gone"
           obj == [api EXCEPT !.state = state]
<1>0. api \in Version /\ api.finalizer \in BOOLEAN
  BY VersionFields DEF TypeOK, FrameOK
<1>1. /\ obj \in Version /\ obj.rv = api.rv /\ obj.state = state /\ obj.finalizer = api.finalizer
      /\ obj.spec = api.spec /\ obj.gen = api.gen /\ obj.observed = api.observed
  BY <1>0 DEF Version, States
<1>2. Replace(NextVersion(obj)) /\ api' = NextVersion(obj)
  BY DEF DeleteTeamResource, Submit, Replace
<1> HIDE DEF obj
<1>3. /\ api' \in Version /\ api'.rv = api.rv + 1 /\ api'.finalizer = api.finalizer
      /\ api'.spec = api.spec /\ api'.gen = api.gen /\ api'.observed = api.observed /\ api'.state = state
  BY <1>1, <1>2, NextVersionFields
<1>4. ~Live(api') /\ (Exists(api') <=> api.finalizer)
  BY <1>0, <1>3 DEF Live, Exists
<1> QED BY <1>2, <1>3, <1>4 DEF DeleteTeamResource, Submit, worker, concourse, hist

(* What the update with the finalizer brings about. *)
LEMMA FinalizeFields ==
  ASSUME TypeOK, AddFinalizer
  PROVE  /\ pc = "finalize" /\ UNCHANGED <<store, atc, nextID, abandoned, tampered>>
         /\ \/ /\ Exists(api) /\ rc.rv = api.rv /\ Replace(api')
               /\ api' \in Version /\ api'.rv = api.rv + 1 /\ api'.state = rc.state /\ api'.finalizer
               /\ api'.spec = rc.spec /\ api'.gen = rc.gen /\ api'.observed = rc.observed
               /\ api'.ready = rc.ready
               /\ \/ rc' = api' /\ pc' = "resolve"
                  \/ pc' = "idle" /\ rc' = NoTeam
            \/ UNCHANGED <<api, stream>> /\ pc' = "idle" /\ rc' = NoTeam
         /\ wq' \in QueueStates
<1> DEFINE fin == [rc EXCEPT !.finalizer = TRUE]
           obj == NextVersion(fin)
<1>0. rc \in Version /\ wq \in QueueStates /\ AddAfter(wq) \in QueueStates
  BY QueueType DEF TypeOK, FrameOK
<1>1. /\ fin \in Version /\ fin.rv = rc.rv /\ fin.state = rc.state /\ fin.finalizer /\ fin.spec = rc.spec
      /\ fin.gen = rc.gen /\ fin.observed = rc.observed /\ fin.ready = rc.ready
  BY <1>0 DEF Version
<1>2. /\ obj \in Version /\ obj.rv = rc.rv + 1 /\ obj.state = rc.state /\ obj.finalizer
      /\ obj.spec = rc.spec /\ obj.gen = rc.gen /\ obj.observed = rc.observed /\ obj.ready = rc.ready
  BY <1>1, NextVersionFields
<1> HIDE DEF obj, fin
<1>3. CASE /\ Write(obj)
           /\ \/ rc' = obj /\ pc' = "resolve" /\ UNCHANGED <<wq, faults>>
              \/ Fault /\ ReturnError
  <2>1. Exists(api) /\ rc.rv = api.rv /\ Replace(obj) /\ api' = obj
    BY <1>3 DEF Write, Accepted, Accepts, Replace
  <2> QED BY <1>0, <1>2, <1>3, <2>1 DEF AddFinalizer, Finalize, ReturnError, Idle, concourse, hist
<1>4. CASE WriteFails
  BY <1>0, <1>4 DEF AddFinalizer, Finalize, WriteFails, ReturnError, Idle, concourse, hist
<1> QED BY <1>3, <1>4 DEF AddFinalizer, Finalize, obj, fin

(* What the update without the finalizer brings about. *)
LEMMA UnfinalizeFields ==
  ASSUME TypeOK, RemoveFinalizer
  PROVE  /\ pc = "unfinalize" /\ UNCHANGED <<store, atc, nextID, abandoned, tampered>>
         /\ pc' = "idle" /\ rc' = NoTeam /\ wq' \in QueueStates
         /\ \/ /\ Exists(api) /\ rc.rv = api.rv /\ Replace(api')
               /\ api' \in Version /\ api'.rv = api.rv + 1 /\ ~Exists(api')
               /\ api'.observed = rc.observed /\ api'.gen = rc.gen
            \/ UNCHANGED <<api, stream>>
<1> DEFINE fin == [rc EXCEPT !.finalizer = FALSE, !.state = "gone"]
           obj == NextVersion(fin)
<1>0. rc \in Version /\ wq \in QueueStates /\ AddAfter(wq) \in QueueStates
  BY QueueType DEF TypeOK, FrameOK
<1>1. /\ fin \in Version /\ fin.rv = rc.rv /\ fin.state = "gone"
      /\ fin.gen = rc.gen /\ fin.observed = rc.observed
  BY <1>0 DEF Version, States
<1>2. /\ obj \in Version /\ obj.rv = rc.rv + 1 /\ ~Exists(obj)
      /\ obj.gen = rc.gen /\ obj.observed = rc.observed
  BY <1>1, NextVersionFields DEF Exists
<1> HIDE DEF obj, fin
<1>3. CASE Write(obj) /\ ((Done /\ UNCHANGED faults) \/ (Fault /\ ReturnError))
  <2>1. Exists(api) /\ rc.rv = api.rv /\ Replace(obj) /\ api' = obj
    BY <1>3 DEF Write, Accepted, Accepts, Replace
  <2> QED BY <1>0, <1>2, <1>3, <2>1 DEF RemoveFinalizer, Unfinalize, ReturnError, Done, Idle, concourse, hist
<1>4. CASE WriteFails
  BY <1>0, <1>4 DEF RemoveFinalizer, Unfinalize, WriteFails, ReturnError, Idle, concourse, hist
<1> QED BY <1>3, <1>4 DEF RemoveFinalizer, Unfinalize, obj, fin

(* What a status write brings about. *)
LEMMA StatusFields ==
  ASSUME TypeOK, UpdateStatus \/ Report
  PROVE  /\ (UpdateStatus /\ pc = "update") \/ (Report /\ pc = "report")
         /\ UNCHANGED <<store, atc, nextID, abandoned, tampered>>
         /\ pc' = "idle" /\ rc' = NoTeam /\ wq' \in QueueStates
         /\ \/ /\ Exists(api) /\ rc.rv = api.rv /\ Replace(api') /\ (api' = api => rc = api)
               /\ api' \in Version /\ (api' = api \/ api'.rv = api.rv + 1)
               /\ api'.state = rc.state /\ api'.finalizer = rc.finalizer /\ api'.spec = rc.spec
               /\ api'.gen = rc.gen /\ api'.observed = rc.observed /\ api'.ready = rc.ready
            \/ UNCHANGED <<api, stream>>
<1>0. api \in Version /\ rc \in Version /\ wq \in QueueStates /\ AddAfter(wq) \in QueueStates
  BY QueueType DEF TypeOK, FrameOK
<1>1. ASSUME Write(Written(api, rc))
      PROVE  /\ Exists(api) /\ rc.rv = api.rv /\ Replace(api') /\ (api' = api => rc = api)
             /\ api' \in Version /\ (api' = api \/ api'.rv = api.rv + 1)
             /\ api'.state = rc.state /\ api'.finalizer = rc.finalizer /\ api'.spec = rc.spec
             /\ api'.gen = rc.gen /\ api'.observed = rc.observed /\ api'.ready = rc.ready
  <2>1. Exists(api) /\ rc.rv = api.rv /\ Replace(api') /\ api' = Written(api, rc)
    BY <1>1 DEF Write, Accepted, Accepts, Replace
  <2>2. CASE rc = api
    BY <1>0, <2>1, <2>2 DEF Written
  <2>3. CASE rc # api
    <3>1. api' = NextVersion(rc)
      BY <2>1, <2>3 DEF Written
    <3>2. api'.rv = api.rv + 1 /\ api.rv \in Nat
      BY <1>0, <2>1, <3>1, NextVersionFields, VersionFields
    <3> QED BY <1>0, <2>1, <3>1, <3>2, NextVersionFields
  <2> QED BY <2>2, <2>3
<1>2. CASE UpdateStatus
  BY <1>0, <1>1, <1>2 DEF UpdateStatus, WriteStatus, WriteFails, RequeueAfter, ReturnError, Idle, concourse, hist
<1>3. CASE Report
  BY <1>0, <1>1, <1>3 DEF Report, ReportNotReady, RequeueAfter, Idle, concourse, hist
<1> QED BY <1>2, <1>3

(* Concourse forgets no team and gives no ID twice: the teams after a step. *)
LEMMA SetTeamFields ==
  ASSUME TypeOK, NEW n \in Names, NEW auth \in Grants, SetTeam(n, auth)
  PROVE  /\ atc' \in [Names -> [id: Nat, auth: Grants]] /\ nextID' \in Nat /\ nextID <= nextID'
         /\ atc'[n].auth = auth
         /\ \A m \in Names : m # n => atc'[m] = atc[m]
         /\ atc[n] = NoAtcTeam => atc'[n].id = nextID
         /\ atc[n] # NoAtcTeam => atc'[n].id = atc[n].id
         /\ tampered' = tampered \ {n}
<1>0. atc \in [Names -> [id: Nat, auth: Grants]] /\ nextID \in Nat
  BY DEF TypeOK
<1>1. CASE atc[n] = NoAtcTeam
  <2>1. atc' = [atc EXCEPT ![n] = [id |-> nextID, auth |-> auth]] /\ nextID' = nextID + 1
    BY <1>1 DEF SetTeam
  <2> QED BY <1>0, <1>1, <2>1 DEF SetTeam
<1>2. CASE atc[n] # NoAtcTeam
  <2>1. atc' = [atc EXCEPT ![n].auth = auth] /\ UNCHANGED nextID
    BY <1>2 DEF SetTeam
  <2>2. atc'[n] = [atc[n] EXCEPT !.auth = auth] /\ atc[n] \in [id: Nat, auth: Grants]
    BY <1>0, <2>1
  <2>3. atc'[n] \in [id: Nat, auth: Grants] /\ atc'[n].auth = auth /\ atc'[n].id = atc[n].id
    BY <2>2
  <2> QED BY <1>0, <1>2, <2>1, <2>3 DEF SetTeam
<1> QED BY <1>1, <1>2

(* buildTeamAuth gives a member a role exactly if a binding of the role names it. *)
LEMMA AuthFields ==
  ASSUME NEW roles \in SUBSET TeamRole
  PROVE  /\ buildTeamAuth(roles) \in Grants
         /\ \A r \in Roles, m \in Members :
              <<r, m>> \in buildTeamAuth(roles) <=> \E b \in roles : b.role = r /\ m \in b.members
<1>1. \A b \in roles : b.role \in Roles /\ b.members \subseteq Members
  BY DEF TeamRole
<1>2. ASSUME NEW p \in buildTeamAuth(roles) PROVE p \in Roles \X Members
  BY <1>1, <1>2 DEF buildTeamAuth
<1>3. ASSUME NEW r \in Roles, NEW m \in Members
      PROVE  <<r, m>> \in buildTeamAuth(roles) <=> \E b \in roles : b.role = r /\ m \in b.members
  BY DEF buildTeamAuth
<1> QED BY <1>2, <1>3 DEF Grants

(* What the call of CreateOrUpdate brings about: the team is set, or the call
   failed and it may have been set. *)
LEMMA ApplyFields ==
  ASSUME TypeOK, Apply
  PROVE  /\ pc = "apply" /\ UNCHANGED <<api, stream, store, wq, abandoned>>
         /\ teamName \in Names /\ buildTeamAuth(rc.spec.roles) \in Grants
         /\ rc' \in Version /\ rc'.rv = rc.rv /\ rc'.state = rc.state /\ rc'.finalizer = rc.finalizer
         /\ rc'.spec = rc.spec /\ rc'.gen = rc.gen
         /\ \/ SetTeam(teamName, buildTeamAuth(rc.spec.roles))
            \/ pc' = "report" /\ UNCHANGED <<atc, nextID, tampered>>
         /\ \/ pc' = "update" /\ rc'.observed = rc.gen
            \/ pc' = "report" /\ rc'.observed = rc.observed /\ rc'.ready # "Ready"
<1>0. /\ rc \in Version /\ teamName \in Names /\ buildTeamAuth(rc.spec.roles) \in Grants
      /\ now \in Nat
  BY VersionFields, AuthFields, BoundsAssumption DEF TypeOK, FrameOK, teamName
<1>1. CASE /\ Call("apply", "update") /\ SetTeam(teamName, buildTeamAuth(rc.spec.roles))
           /\ rc' = Applied /\ UNCHANGED faults
  <2>1. atc'[teamName].id \in Nat
    BY <1>0, <1>1, SetTeamFields
  <2>2. /\ rc' \in Version /\ rc'.rv = rc.rv /\ rc'.state = rc.state /\ rc'.finalizer = rc.finalizer
        /\ rc'.spec = rc.spec /\ rc'.gen = rc.gen /\ rc'.observed = rc.gen
    BY <1>0, <1>1, <2>1 DEF Applied, Version
  <2> QED BY <1>0, <1>1, <2>2 DEF Apply, Call, kube
<1>2. CASE /\ Call("apply", "report") /\ Fault
           /\ SetTeam(teamName, buildTeamAuth(rc.spec.roles)) \/ UNCHANGED <<concourse, tampered>>
           /\ rc' = [rc EXCEPT !.ready = "CreateOrUpdateFailed"]
  <2>1. /\ rc' \in Version /\ rc'.rv = rc.rv /\ rc'.state = rc.state /\ rc'.finalizer = rc.finalizer
        /\ rc'.spec = rc.spec /\ rc'.gen = rc.gen /\ rc'.observed = rc.observed
        /\ rc'.ready = "CreateOrUpdateFailed"
    BY <1>0, <1>2 DEF Version
  <2> QED BY <1>0, <1>2, <2>1 DEF Apply, Call, kube, concourse
<1> QED BY <1>1, <1>2 DEF Apply

(* What looking up the Instance brings about. *)
LEMMA ResolveFields ==
  ASSUME TypeOK, Resolve
  PROVE  /\ pc = "resolve" /\ UNCHANGED <<api, stream, store, wq, atc, nextID, abandoned, tampered>>
         /\ rc' \in Version /\ rc'.rv = rc.rv /\ rc'.state = rc.state /\ rc'.finalizer = rc.finalizer
         /\ rc'.spec = rc.spec /\ rc'.gen = rc.gen /\ rc'.observed = rc.observed
         /\ \/ pc' = "apply"
            \/ pc' = "report" /\ rc'.ready # "Ready"
<1>0. rc \in Version
  BY DEF TypeOK, FrameOK
<1> QED BY <1>0 DEF Resolve, Call, Version, kube, concourse, hist

(* What the deletion in Concourse brings about: the team is destroyed, or it is
   given up. *)
LEMMA DestroyFields ==
  ASSUME TypeOK, DeleteTeam
  PROVE  /\ pc = "destroy" /\ pc' = "unfinalize" /\ teamName \in Names
         /\ UNCHANGED <<api, stream, store, wq, rc, nextID, tampered>>
         /\ atc' \in [Names -> [id: Nat, auth: Grants]]
         /\ \A n \in Names : atc'[n] = atc[n] \/ atc'[n] = NoAtcTeam
         /\ abandoned \subseteq abandoned' /\ abandoned' \subseteq Names
         /\ atc'[teamName] = NoAtcTeam \/ teamName \in abandoned'
<1>0. teamName \in Names /\ atc \in [Names -> [id: Nat, auth: Grants]] /\ abandoned \subseteq Names
  BY VersionFields DEF TypeOK, FrameOK, teamName
<1>1. NoAtcTeam \in [id: Nat, auth: Grants]
  BY DEF NoAtcTeam, Grants
<1>2. ASSUME DestroyTeam(teamName)
      PROVE  /\ atc' \in [Names -> [id: Nat, auth: Grants]] /\ atc'[teamName] = NoAtcTeam
             /\ \A n \in Names : atc'[n] = atc[n] \/ atc'[n] = NoAtcTeam
  BY <1>0, <1>1, <1>2 DEF DestroyTeam
<1>3. pc = "destroy" /\ pc' = "unfinalize" /\ UNCHANGED <<api, stream, store, wq, rc, nextID, tampered>>
  BY DEF DeleteTeam, Call, kube
<1>4. CASE DestroyTeam(teamName)
  BY <1>0, <1>2, <1>3, <1>4 DEF DeleteTeam
<1>5. CASE UNCHANGED atc
  BY <1>0, <1>3, <1>5 DEF DeleteTeam, DestroyTeam
<1> QED BY <1>4, <1>5 DEF DeleteTeam

(* What the steps of everyone else bring about, and what they leave alone. *)
LEMMA ElsewhereFields ==
  ASSUME TypeOK, InstanceChanges \/ Tick \/ InformerReceives \/ DelayExpires \/ UNCHANGED vars
  PROVE  UNCHANGED <<api, pc, rc, atc, nextID, abandoned, tampered>>
BY DEF InstanceChanges, Elsewhere, Tick, InformerReceives, Receive, DelayExpires, Expire,
       kube, worker, concourse, hist, frame, vars

(* What fly does to a team behind the operator's back. *)
LEMMA FlyFields ==
  ASSUME TypeOK, NEW n \in Names, FlyChanges(n)
  PROVE  /\ UNCHANGED <<api, stream, store, wq, pc, rc, nextID, abandoned>>
         /\ atc[n] # NoAtcTeam /\ atc' \in [Names -> [id: Nat, auth: Grants]]
         /\ atc'[n] = NoAtcTeam \/ atc'[n].id = atc[n].id
         /\ \A m \in Names : m # n => atc'[m] = atc[m]
         /\ tampered' = tampered \cup {n}
<1>0. atc \in [Names -> [id: Nat, auth: Grants]] /\ Roles \X Members \in Grants
      /\ NoAtcTeam \in [id: Nat, auth: Grants]
  BY DEF TypeOK, Grants, NoAtcTeam
<1>1. CASE atc' = [atc EXCEPT ![n].auth = Roles \X Members]
  <2>1. atc'[n] = [atc[n] EXCEPT !.auth = Roles \X Members] /\ atc[n] \in [id: Nat, auth: Grants]
    BY <1>0, <1>1
  <2>2. atc'[n] \in [id: Nat, auth: Grants] /\ atc'[n].id = atc[n].id
    BY <1>0, <2>1
  <2> QED BY <1>0, <1>1, <2>2 DEF FlyChanges, Elsewhere, kube, worker
<1>2. CASE atc' = [atc EXCEPT ![n] = NoAtcTeam]
  BY <1>0, <1>2 DEF FlyChanges, Elsewhere, kube, worker
<1> QED BY <1>1, <1>2 DEF FlyChanges

(* What taking a key from the queue brings about. *)
LEMMA BeginFields ==
  ASSUME TypeOK, Begin
  PROVE  /\ pc = "idle" /\ UNCHANGED <<api, stream, store, atc, nextID, abandoned, tampered>>
         /\ wq' \in QueueStates
         /\ \/ pc' = "idle" /\ rc' = NoTeam
            \/ pc' = "destroy" /\ rc' = store /\ Exists(store) /\ ~Live(store)
            \/ pc' = "resolve" /\ rc' = store /\ Live(store) /\ store.finalizer
            \/ pc' = "finalize" /\ rc' = store /\ Live(store) /\ ~store.finalizer
<1>0. store.finalizer \in BOOLEAN
  BY VersionFields DEF TypeOK, FrameOK
<1> QED BY <1>0 DEF Begin, Take, FirstCall, QueueStates, kube, concourse, hist

(* What a restart brings about. *)
LEMMA RestartFields ==
  ASSUME TypeOK, CrashRestart
  PROVE  /\ pc' = "idle" /\ rc' = NoTeam /\ wq' \in QueueStates
         /\ UNCHANGED <<api, atc, nextID, abandoned, tampered>> /\ store' = api /\ stream' = <<>>
BY DEF CrashRestart, Restart, Idle, QueueStates, concourse, hist

(* What users, the informer and the worker do to the Team, as a step of the API
   server and the informer. *)
LEMMA ApiStep ==
  ASSUME TypeOK, [Next]_vars
  PROVE  api' \in Version /\ KubeStep(api, stream, store, api', stream', store')
<1> DEFINE Goal == api' \in Version /\ KubeStep(api, stream, store, api', stream', store')
<1>0. api \in Version
  BY DEF TypeOK, FrameOK
<1>1. ASSUME UNCHANGED <<api, stream, store>> PROVE Goal
  BY <1>0, <1>1 DEF KubeStep, Published
<1>2. ASSUME api' \in Version, api' = api \/ api'.rv = api.rv + 1, Replace(api'), UNCHANGED store PROVE Goal
  BY <1>2 DEF Replace, KubeStep
<1>3. CASE CreateTeam \/ EditTeam \/ AnnotateTeam \/ DeleteTeamResource
  BY <1>2, <1>3, CreateFields, EditFields, AnnotateFields, DeleteFields
<1>4. CASE InstanceChanges \/ Tick \/ DelayExpires \/ UNCHANGED vars
  BY <1>1, <1>4 DEF InstanceChanges, Elsewhere, Tick, DelayExpires, Expire, kube, frame, vars
<1>5. CASE \E n \in Names : FlyChanges(n)
  BY <1>1, <1>5, FlyFields
<1>6. CASE InformerReceives
  BY <1>0, <1>6 DEF InformerReceives, Receive, KubeStep
<1>7. CASE Begin \/ DeleteTeam \/ Resolve \/ Apply
  BY <1>1, <1>7, BeginFields, DestroyFields, ResolveFields, ApplyFields
<1>8. CASE AddFinalizer
  BY <1>1, <1>2, <1>8, FinalizeFields
<1>9. CASE RemoveFinalizer
  BY <1>1, <1>2, <1>9, UnfinalizeFields
<1>10. CASE UpdateStatus \/ Report
  BY <1>1, <1>2, <1>10, StatusFields
<1>11. CASE CrashRestart
  BY <1>0, <1>11, RestartFields DEF KubeStep
<1> QED BY <1>3, <1>4, <1>5, <1>6, <1>7, <1>8, <1>9, <1>10, <1>11 DEF Next, User, Working

(* The named bounds hold for edits, faults and crashes. *)
LEMMA CountersType ==
  ASSUME TypeOK, [Next]_vars
  PROVE  /\ edits' \in 0..MaxEdits /\ faults' \in 0..MaxFaults /\ crashes' \in 0..MaxCrashes
         /\ now' \in 1..MaxTime /\ instance' \in BOOLEAN
<1> DEFINE Goal == /\ edits' \in 0..MaxEdits /\ faults' \in 0..MaxFaults /\ crashes' \in 0..MaxCrashes
                   /\ now' \in 1..MaxTime /\ instance' \in BOOLEAN
<1>0. /\ edits \in 0..MaxEdits /\ faults \in 0..MaxFaults /\ crashes \in 0..MaxCrashes
      /\ now \in 1..MaxTime /\ instance \in BOOLEAN
  BY DEF TypeOK, FrameOK
<1>1. (Edit => edits' \in 0..MaxEdits) /\ (Fault => faults' \in 0..MaxFaults)
  BY <1>0, BoundsAssumption DEF Edit, Fault
<1> USE DEF bounds
<1>2. CASE CreateTeam \/ EditTeam \/ AnnotateTeam \/ DeleteTeamResource
  BY <1>0, <1>1, <1>2 DEF CreateTeam, EditTeam, AnnotateTeam, Annotate, DeleteTeamResource,
                              Submit, Edit
<1>3. CASE InstanceChanges
  BY <1>0, <1>1, <1>3 DEF InstanceChanges, Elsewhere, Edit
<1>4. CASE \E n \in Names : FlyChanges(n)
  BY <1>0, <1>1, <1>4 DEF FlyChanges, Elsewhere, Edit
<1>5. CASE Tick
  BY <1>0, <1>5, BoundsAssumption DEF Tick, frame
<1>6. CASE InformerReceives \/ DelayExpires \/ Begin
  BY <1>0, <1>6 DEF InformerReceives, Receive, DelayExpires, Expire, Begin, Take
<1>7. CASE DeleteTeam \/ Resolve \/ Apply
  BY <1>0, <1>1, <1>7 DEF DeleteTeam, Resolve, Apply, Call
<1>8. CASE RemoveFinalizer \/ AddFinalizer
  BY <1>0, <1>1, <1>8 DEF RemoveFinalizer, Unfinalize, AddFinalizer, Finalize, WriteFails
<1>9. CASE UpdateStatus \/ Report
  BY <1>0, <1>1, <1>9 DEF UpdateStatus, WriteStatus, WriteFails, Report, ReportNotReady
<1>10. CASE CrashRestart
  BY <1>0, <1>10, BoundsAssumption DEF CrashRestart, Restart
<1>11. CASE UNCHANGED vars
  BY <1>0, <1>11 DEF vars, frame
<1> QED BY <1>2, <1>3, <1>4, <1>5, <1>6, <1>7, <1>8, <1>9, <1>10, <1>11 DEF Next, User, Working

(* The manager that has just started, with no Team yet, is in a well-typed state. *)
LEMMA TypeInit == Init => TypeOK
<1> SUFFICES ASSUME Init PROVE TypeOK
  OBVIOUS
<1>1. FrameOK(Version, Steps)
  BY NoTeamType, BoundsAssumption DEF Init, FrameInit, FrameOK, QueueStates
<1>2. atc \in [Names -> [id: Nat, auth: Grants]]
  BY DEF Init, NoAtcTeam, Grants
<1>3. now \in 1..MaxTime
  BY BoundsAssumption DEF Init
<1> QED BY <1>1, <1>2, <1>3 DEF Init, TypeOK

(* Every step of users, fly and the reconciler keeps the types. *)
LEMMA TypeNext == TypeOK /\ [Next]_vars => TypeOK'
<1> SUFFICES ASSUME TypeOK, [Next]_vars PROVE TypeOK'
  OBVIOUS
<1> DEFINE Rest == /\ wq' \in QueueStates /\ pc' \in Steps \cup {"idle"} /\ rc' \in Version
                   /\ atc' \in [Names -> [id: Nat, auth: Grants]] /\ nextID' \in Nat
                   /\ abandoned' \subseteq Names /\ tampered' \subseteq Names
<1>0. api' \in Version /\ stream' \in Seq(Version) /\ store' \in Version
  BY ApiStep, KubeStepType DEF TypeOK, FrameOK
<1>1. Rest => TypeOK'
  BY <1>0, CountersType DEF TypeOK, FrameOK
<1>2. /\ wq \in QueueStates /\ pc \in Steps \cup {"idle"} /\ rc \in Version /\ store \in Version
      /\ atc \in [Names -> [id: Nat, auth: Grants]] /\ nextID \in Nat
      /\ abandoned \subseteq Names /\ tampered \subseteq Names
  BY DEF TypeOK, FrameOK
<1>3. CASE CreateTeam \/ EditTeam \/ AnnotateTeam \/ DeleteTeamResource
  BY <1>1, <1>2, <1>3, CreateFields, EditFields, AnnotateFields, DeleteFields
<1>4. CASE InstanceChanges \/ Tick \/ InformerReceives \/ DelayExpires \/ UNCHANGED vars
  <2>1. wq' \in QueueStates
    BY <1>2, <1>4 DEF InstanceChanges, Elsewhere, Tick, InformerReceives, Receive, DelayExpires, Expire,
                      worker, frame, vars, QueueStates
  <2> QED BY <1>1, <1>2, <1>4, <2>1, ElsewhereFields
<1>5. ASSUME NEW n \in Names, FlyChanges(n) PROVE TypeOK'
  BY <1>1, <1>2, <1>5, FlyFields
<1>6. CASE Begin
  BY <1>1, <1>2, <1>6, BeginFields, NoTeamType DEF Steps
<1>7. CASE DeleteTeam
  BY <1>1, <1>2, <1>7, DestroyFields DEF Steps
<1>8. CASE Resolve
  BY <1>1, <1>2, <1>8, ResolveFields DEF Steps
<1>9. CASE Apply
  <2>1. /\ atc' \in [Names -> [id: Nat, auth: Grants]] /\ nextID' \in Nat /\ tampered' \subseteq Names
    BY <1>2, <1>9, ApplyFields, SetTeamFields
  <2> QED BY <1>1, <1>2, <1>9, <2>1, ApplyFields DEF Steps
<1>10. CASE AddFinalizer
  BY <1>0, <1>1, <1>2, <1>10, FinalizeFields, NoTeamType DEF Steps
<1>11. CASE RemoveFinalizer
  BY <1>1, <1>2, <1>11, UnfinalizeFields, NoTeamType DEF Steps
<1>12. CASE UpdateStatus \/ Report
  BY <1>1, <1>2, <1>12, StatusFields, NoTeamType DEF Steps
<1>13. CASE CrashRestart
  BY <1>1, <1>2, <1>13, RestartFields, NoTeamType DEF Steps
<1> QED
  BY <1>3, <1>4, <1>5, <1>6, <1>7, <1>8, <1>9, <1>10, <1>11, <1>12, <1>13 DEF Next, User, Working

(* Every state TeamReconciler can be in is well-formed. *)
THEOREM TypeCorrect == Spec => []TypeOK
BY TypeInit, TypeNext, PTL DEF Spec
-----------------------------------------------------------------------------
(* The informer, and the copy a reconcile works on. *)

OrderInv == Ordered(api, stream, store)

WayIn == {"resolve", "apply", "update", "report"}
WayOut == {"destroy", "unfinalize"}

(* The copy a reconcile works on is the current Team if it has its
   resourceVersion, apart from the status the reconcile has computed; and it is
   one to apply or one to remove, as the step says. *)
CopyInv ==
  pc # "idle" =>
    /\ rc.rv <= api.rv
    /\ rc.rv = api.rv =>
         rc.state = api.state /\ rc.spec = api.spec /\ rc.gen = api.gen /\ rc.finalizer = api.finalizer
    /\ pc \in WayIn => Live(rc) /\ rc.finalizer
    /\ pc = "finalize" => Live(rc) /\ ~rc.finalizer
    /\ pc \in WayOut => ~Live(rc) /\ rc.rv <= store.rv

(* The informer follows the API server in order from the start. *)
LEMMA OrderInit == Init => OrderInv /\ CopyInv
BY DEF Init, FrameInit, OrderInv, Ordered, CopyInv

(* No step of the system upsets that order, and the informer's store never goes
   back. *)
LEMMA OrderNext ==
  ASSUME TypeOK, OrderInv, [Next]_vars
  PROVE  /\ OrderInv' /\ (store'.rv >= store.rv)
         /\ Seen(api', stream', store') \subseteq Seen(api, stream, store) \cup {api'}
<1>1. \A v \in Version : v.rv \in Nat
  BY VersionFields
<1>2. api \in Version /\ stream \in Seq(Version) /\ store \in Version /\ api' \in Version
      /\ KubeStep(api, stream, store, api', stream', store')
  BY ApiStep DEF TypeOK, FrameOK
<1>3. OrderInv'
  BY <1>1, <1>2, OrderedStep DEF OrderInv
<1>4. Seen(api', stream', store') \subseteq Seen(api, stream, store) \cup {api'}
  BY <1>2, SeenStep
<1>5. store' \in Version /\ (store' = store \/ store' \in Seen(api, stream, store))
  <2>1. store' \in Seen(api', stream', store') /\ api \in Seen(api, stream, store)
    BY DEF Seen
  <2>2. store' = store \/ api' = api
    BY <1>2 DEF KubeStep
  <2> QED BY <1>2, <1>4, <2>1, <2>2, KubeStepType
<1>6. store'.rv >= store.rv
  <2>1. \A x \in Seen(api, stream, store) : store.rv <= x.rv
    BY <1>1, <1>2, OrderedSeen DEF OrderInv
  <2> QED BY <1>1, <1>2, <1>5, <2>1
<1> QED BY <1>3, <1>4, <1>6

(* A store that has the current resourceVersion is all that can be read. *)
LEMMA UpToDate ==
  ASSUME TypeOK, OrderInv
  PROVE  /\ store.rv <= api.rv
         /\ store.rv = api.rv => store = api /\ Seen(api, stream, store) = {api}
<1>1. \A v \in Version : v.rv \in Nat
  BY VersionFields
<1>2. api \in Version /\ stream \in Seq(Version) /\ store \in Version
  BY DEF TypeOK, FrameOK
<1>3. \A x \in Seen(api, stream, store) : x.rv <= api.rv /\ (x.rv = api.rv => x = api) /\ store.rv <= x.rv
  BY <1>1, <1>2, OrderedSeen DEF OrderInv
<1>4. store \in Seen(api, stream, store) /\ api \in Seen(api, stream, store)
      /\ Seen(api, stream, store) \subseteq Version
  BY <1>2, SeenType DEF Seen
<1>5. ASSUME store.rv = api.rv, NEW x \in Seen(api, stream, store) PROVE x = api
  BY <1>1, <1>2, <1>3, <1>4, <1>5
<1> QED BY <1>3, <1>4, <1>5

(* The copy stays the current Team until something else is written. *)
LEMMA CopyNext == TypeOK /\ OrderInv /\ CopyInv /\ [Next]_vars => CopyInv'
<1> SUFFICES ASSUME TypeOK, OrderInv, CopyInv, [Next]_vars PROVE CopyInv'
  OBVIOUS
<1>0. api \in Version /\ rc \in Version /\ store \in Version /\ store' \in Version
      /\ \A v \in Version : v.rv \in Nat
  BY TypeNext, VersionFields DEF TypeOK, FrameOK
<1>1. store'.rv >= store.rv
  BY OrderNext
<1>2. ASSUME pc' = "idle" PROVE CopyInv'
  BY <1>2 DEF CopyInv
<1>3. ASSUME UNCHANGED <<pc, rc>>, api' = api \/ api'.rv = api.rv + 1 PROVE CopyInv'
  BY <1>0, <1>1, <1>3 DEF CopyInv, Live
<1>4. CASE CreateTeam \/ EditTeam \/ AnnotateTeam \/ DeleteTeamResource
  BY <1>3, <1>4, CreateFields, EditFields, AnnotateFields, DeleteFields
<1>5. CASE InstanceChanges \/ Tick \/ InformerReceives \/ DelayExpires \/ UNCHANGED vars
  BY <1>3, <1>5, ElsewhereFields
<1>6. CASE \E n \in Names : FlyChanges(n)
  BY <1>3, <1>6, FlyFields
<1>7. CASE Begin
  <2>1. store.rv <= api.rv /\ (store.rv = api.rv => store = api)
    BY UpToDate
  <2> QED BY <1>0, <1>7, <2>1, BeginFields DEF CopyInv, WayIn, WayOut, Live
<1>8. CASE DeleteTeam
  BY <1>8, DestroyFields DEF CopyInv, WayIn, WayOut, Live
<1>9. CASE Resolve
  BY <1>9, ResolveFields DEF CopyInv, WayIn, WayOut, Live
<1>10. CASE Apply
  BY <1>10, ApplyFields DEF CopyInv, WayIn, WayOut, Live
<1>11. CASE AddFinalizer
  <2>1. CASE rc' = api' /\ pc' = "resolve" /\ api'.state = rc.state /\ api'.finalizer /\ pc = "finalize"
    <3>1. api' \in Version /\ api'.rv <= api'.rv
      BY <1>0, ApiStep
    <3> QED BY <2>1, <3>1 DEF CopyInv, WayIn, WayOut, Live
  <2> QED BY <1>2, <1>11, <2>1, FinalizeFields
<1>12. CASE RemoveFinalizer \/ UpdateStatus \/ Report \/ CrashRestart
  BY <1>2, <1>12, UnfinalizeFields, StatusFields, RestartFields
<1> QED BY <1>4, <1>5, <1>6, <1>7, <1>8, <1>9, <1>10, <1>11, <1>12 DEF Next, User, Working
-----------------------------------------------------------------------------
(* Nothing is left behind. *)

(* The team n is one that the Team a answers for, or one of those given up. *)
Kept(a, given, n) == n \in given \/ (Exists(a) /\ a.finalizer /\ a.spec.name = n)

(* A version that has the controller create a team. *)
Armed(x) == Live(x) /\ x.finalizer

(* Every team there is, and every team that a version still on its way to the
   controller or a reconcile in progress can bring about, is kept: so there is
   none but those given up once the finalizer may be removed. *)
KeptInv ==
  /\ \A x \in Seen(api, stream, store) : Armed(x) => Kept(api, abandoned, x.spec.name)
  /\ pc \in WayIn => Kept(api, abandoned, rc.spec.name)
  /\ \A n \in Names : atc[n] # NoAtcTeam => Kept(api, abandoned, n)
  /\ pc = "unfinalize" /\ rc.rv = api.rv => \A n \in Names : atc[n] = NoAtcTeam \/ n \in abandoned

(* At the start there is neither Team nor team. *)
LEMMA KeptInit == Init => KeptInv
<1> SUFFICES ASSUME Init PROVE KeptInv
  OBVIOUS
<1>1. Seen(api, stream, store) = {NoTeam} /\ ~Live(NoTeam)
  BY NoTeamType DEF Init, FrameInit, Seen, Live, Exists
<1>2. pc = "idle" /\ \A n \in Names : atc[n] = NoAtcTeam
  BY DEF Init, FrameInit
<1> QED BY <1>1, <1>2 DEF KeptInv, Armed, WayIn

(* A team is kept from before it is created until it is destroyed or given up. *)
LEMMA KeptNext == TypeOK /\ OrderInv /\ CopyInv /\ KeptInv /\ [Next]_vars => KeptInv'
<1> SUFFICES ASSUME TypeOK, OrderInv, CopyInv, KeptInv, [Next]_vars PROVE KeptInv'
  OBVIOUS
<1>0. /\ api \in Version /\ rc \in Version /\ \A v \in Version : v.rv \in Nat
      /\ Seen(api', stream', store') \subseteq Seen(api, stream, store) \cup {api'}
      /\ api \in Seen(api, stream, store)
  BY OrderNext, VersionFields DEF TypeOK, FrameOK, Seen
<1>1. ASSUME \A n \in Names : Kept(api, abandoned, n) => Kept(api', abandoned', n),
             Armed(api') => Kept(api', abandoned', api'.spec.name)
      PROVE  /\ \A x \in Seen(api', stream', store') : Armed(x) => Kept(api', abandoned', x.spec.name)
             /\ pc \in WayIn => Kept(api', abandoned', rc.spec.name)
             /\ \A n \in Names : atc[n] # NoAtcTeam => Kept(api', abandoned', n)
  <2>1. \A x \in Seen(api, stream, store) : x.spec.name \in Names
    BY SeenType, VersionFields DEF TypeOK, FrameOK
  <2>2. rc.spec.name \in Names
    BY <1>0, VersionFields
  <2> QED BY <1>0, <1>1, <2>1, <2>2 DEF KeptInv
<1>2. ASSUME UNCHANGED <<api, abandoned>>
      PROVE  /\ \A x \in Seen(api', stream', store') : Armed(x) => Kept(api', abandoned', x.spec.name)
             /\ pc \in WayIn => Kept(api', abandoned', rc.spec.name)
             /\ \A n \in Names : atc[n] # NoAtcTeam => Kept(api', abandoned', n)
  BY <1>0, <1>1, <1>2 DEF KeptInv
<1>3. CASE CreateTeam
  <2>1. \A n \in Names : Kept(api, abandoned, n) => Kept(api', abandoned', n)
    BY <1>3, CreateFields DEF Kept
  <2>2. ~Armed(api') /\ (pc # "idle" => rc.rv # api'.rv)
    BY <1>0, <1>3, CreateFields DEF Armed, CopyInv
  <2> QED BY <1>1, <1>3, <2>1, <2>2, CreateFields DEF KeptInv
<1>4. CASE EditTeam
  <2>1. \A n \in Names : Kept(api, abandoned, n) => Kept(api', abandoned', n)
    BY <1>4, EditFields DEF Kept, Exists, Live
  <2>2. Armed(api') => Kept(api', abandoned', api'.spec.name)
    BY DEF Armed, Kept, Live, Exists
  <2>3. pc # "idle" => rc.rv # api'.rv
    BY <1>0, <1>4, EditFields DEF CopyInv
  <2> QED BY <1>1, <1>4, <2>1, <2>2, <2>3, EditFields DEF KeptInv
<1>4a. CASE AnnotateTeam
  <2>1. \A n \in Names : Kept(api, abandoned, n) => Kept(api', abandoned', n)
    BY <1>4a, AnnotateFields DEF Kept, Exists
  <2>2. Armed(api') => Kept(api', abandoned', api'.spec.name)
    BY DEF Armed, Kept, Live, Exists
  <2>3. pc # "idle" => rc.rv # api'.rv
    BY <1>0, <1>4a, AnnotateFields DEF CopyInv
  <2> QED BY <1>1, <1>4a, <2>1, <2>2, <2>3, AnnotateFields DEF KeptInv
<1>5. CASE DeleteTeamResource
  <2>1. \A n \in Names : Kept(api, abandoned, n) => Kept(api', abandoned', n)
    BY <1>5, DeleteFields DEF Kept
  <2>2. ~Armed(api') /\ (pc # "idle" => rc.rv # api'.rv)
    BY <1>0, <1>5, DeleteFields DEF Armed, CopyInv
  <2> QED BY <1>1, <1>5, <2>1, <2>2, DeleteFields DEF KeptInv
<1>6. CASE InstanceChanges \/ Tick \/ InformerReceives \/ DelayExpires \/ UNCHANGED vars
  BY <1>2, <1>6, ElsewhereFields DEF KeptInv
<1>7. ASSUME NEW n \in Names, FlyChanges(n) PROVE KeptInv'
  <2>1. \A m \in Names : atc'[m] # NoAtcTeam => atc[m] # NoAtcTeam
    BY <1>7, FlyFields
  <2> QED BY <1>2, <1>7, <2>1, FlyFields DEF KeptInv
<1>8. CASE Begin
  <2>1. pc' \in WayIn => Kept(api, abandoned, rc'.spec.name)
    BY <1>8, BeginFields DEF KeptInv, Seen, Armed, WayIn
  <2> QED BY <1>2, <1>8, <2>1, BeginFields DEF KeptInv
<1>9. CASE DeleteTeam
  <2>1. \A n \in Names : Kept(api, abandoned, n) => Kept(api', abandoned', n)
    BY <1>9, DestroyFields DEF Kept
  <2>2. Armed(api') => Kept(api', abandoned', api'.spec.name)
    BY DEF Armed, Kept, Live, Exists
  <2>3. \A n \in Names : atc'[n] # NoAtcTeam => atc[n] # NoAtcTeam
    BY <1>9, DestroyFields
  <2>4. ASSUME rc.rv = api.rv, NEW n \in Names PROVE atc'[n] = NoAtcTeam \/ n \in abandoned'
    <3>1. rc.spec = api.spec
      BY <1>9, <2>4, DestroyFields DEF CopyInv
    <3>2. atc'[n] # NoAtcTeam => n \in abandoned' \/ n = teamName
      BY <1>9, <2>3, <3>1, DestroyFields DEF KeptInv, Kept, teamName
    <3> QED BY <1>9, <3>2, DestroyFields
  <2> QED BY <1>1, <1>9, <2>1, <2>2, <2>3, <2>4, DestroyFields DEF KeptInv, WayIn
<1>10. CASE Resolve
  BY <1>2, <1>10, ResolveFields DEF KeptInv, WayIn
<1>11. CASE Apply
  <2>1. Kept(api, abandoned, teamName)
    BY <1>11, ApplyFields DEF KeptInv, WayIn, teamName
  <2>2. \A n \in Names : atc'[n] # NoAtcTeam => atc[n] # NoAtcTeam \/ n = teamName
    BY <1>11, ApplyFields, SetTeamFields
  <2>3. \A n \in Names : atc'[n] # NoAtcTeam => Kept(api, abandoned, n)
    BY <2>1, <2>2 DEF KeptInv
  <2> QED BY <1>2, <1>11, <2>1, <2>3, ApplyFields DEF KeptInv, WayIn, teamName
<1>12. CASE AddFinalizer
  <2>1. CASE UNCHANGED api /\ pc' = "idle"
    BY <1>2, <1>12, <2>1, FinalizeFields DEF KeptInv, WayIn
  <2>2. CASE /\ Exists(api) /\ rc.rv = api.rv /\ api'.state = rc.state /\ api'.finalizer
             /\ api'.spec = rc.spec
    <3>1. rc.state = api.state /\ rc.spec = api.spec /\ Exists(api')
      BY <1>12, <2>2, FinalizeFields DEF CopyInv, Exists
    <3>2. \A n \in Names : Kept(api, abandoned, n) => Kept(api', abandoned', n)
      BY <1>12, <2>2, <3>1, FinalizeFields DEF Kept
    <3>3. Kept(api', abandoned', api'.spec.name)
      BY <2>2, <3>1 DEF Kept
    <3>4. pc' \in WayIn => rc' = api'
      BY <1>12, FinalizeFields DEF WayIn
    <3> QED BY <1>1, <1>12, <3>2, <3>3, <3>4, FinalizeFields DEF KeptInv
  <2> QED BY <1>12, <2>1, <2>2, FinalizeFields
<1>13. CASE RemoveFinalizer
  <2>1. CASE UNCHANGED api
    BY <1>2, <1>13, <2>1, UnfinalizeFields DEF KeptInv, WayIn
  <2>2. CASE rc.rv = api.rv /\ ~Exists(api')
    <3>1. \A n \in Names : atc[n] = NoAtcTeam \/ n \in abandoned
      BY <1>13, <2>2, UnfinalizeFields DEF KeptInv
    <3>2. ~Live(rc) /\ rc.state = api.state /\ rc.rv <= store.rv
      BY <1>13, <2>2, UnfinalizeFields DEF CopyInv, WayOut
    <3>3. store.rv = api.rv
      BY <1>0, <2>2, <3>2, UpToDate, VersionFields DEF TypeOK, FrameOK
    <3>4. Seen(api, stream, store) = {api}
      BY <3>3, UpToDate
    <3>5. \A x \in Seen(api', stream', store') : ~Armed(x)
      BY <1>0, <2>2, <3>2, <3>4 DEF Armed, Live, Exists
    <3> QED BY <1>13, <3>1, <3>5, UnfinalizeFields DEF KeptInv, Kept, WayIn
  <2> QED BY <1>13, <2>1, <2>2, UnfinalizeFields
<1>14. CASE UpdateStatus \/ Report
  <2>1. CASE UNCHANGED api
    BY <1>2, <1>14, <2>1, StatusFields DEF KeptInv, WayIn
  <2>2. CASE /\ Exists(api) /\ rc.rv = api.rv /\ api'.state = rc.state /\ api'.finalizer = rc.finalizer
             /\ api'.spec = rc.spec
    <3>1. api'.state = api.state /\ api'.spec = api.spec /\ api'.finalizer = api.finalizer
      BY <1>14, <2>2, StatusFields DEF CopyInv
    <3>2. \A n \in Names : Kept(api, abandoned, n) => Kept(api', abandoned', n)
      BY <1>14, <3>1, StatusFields DEF Kept, Exists
    <3>3. Armed(api') => Kept(api', abandoned', api'.spec.name)
      BY DEF Armed, Kept, Live, Exists
    <3> QED BY <1>1, <1>14, <3>2, <3>3, StatusFields DEF KeptInv, WayIn
  <2> QED BY <1>14, <2>1, <2>2, StatusFields
<1>15. CASE CrashRestart
  BY <1>2, <1>15, RestartFields DEF KeptInv, WayIn
<1> QED
  BY <1>3, <1>4, <1>4a, <1>5, <1>6, <1>7, <1>8, <1>9, <1>10, <1>11, <1>12, <1>13, <1>14, <1>15
     DEF Next, User, Working

(* The finalizer is there before a team is created, and nothing creates it again
   once the finalizer is removed: no team outlives its Team but those given up. *)
THEOREM NothingLeftCorrect == Spec => []NothingElseLeftBehind
<1> DEFINE Inv == TypeOK /\ OrderInv /\ CopyInv /\ KeptInv
<1>1. Inv => NothingElseLeftBehind
  BY DEF KeptInv, Kept, NothingElseLeftBehind
<1>2. Init => Inv
  BY TypeInit, OrderInit, KeptInit
<1>3. Inv /\ [Next]_vars => Inv'
  BY TypeNext, OrderNext, CopyNext, KeptNext
<1> QED BY <1>1, <1>2, <1>3, PTL DEF Spec
-----------------------------------------------------------------------------
(* A Team that is Ready at its current generation has its roles in Concourse. *)

(* The status says that the current spec is in Concourse. *)
Fresh(x) == Live(x) /\ x.ready = "Ready" /\ x.observed = x.gen

(* A reconcile of x would apply the same team as one of a. *)
Same(x, a) == Live(x) /\ x.spec = a.spec

(* No version claims a generation that is still to come; while the current
   version counts as applied, and while a reconcile holds the current version,
   every version that can be read would apply the same team. *)
ReadInv ==
  /\ \A x \in Seen(api, stream, store) : x.observed <= x.gen
  /\ rc.observed <= rc.gen
  /\ pc = "report" => rc.ready # "Ready"
  /\ pc = "finalize" /\ rc.rv = api.rv => rc = api
  /\ Fresh(api) => \A x \in Seen(api, stream, store) : Same(x, api)
  /\ Fresh(api) /\ pc # "idle" => Same(rc, api)
  /\ pc \in WayIn \cup {"finalize"} /\ rc.rv = api.rv => \A x \in Seen(api, stream, store) : Same(x, api)

(* Among the teams of Concourse, the one spec names grants what its bindings say. *)
GrantsOf(teams, spec) ==
  /\ teams[spec.name] # NoAtcTeam
  /\ \A r \in Roles, m \in Members :
       <<r, m>> \in teams[spec.name].auth <=> \E b \in spec.roles : b.role = r /\ m \in b.members

(* What is to be reported as applied is in Concourse, and so is what has been
   reported; teams of Concourse have IDs, so none that is set counts as missing. *)
GrantInv ==
  /\ nextID > 0 /\ \A n \in Names : atc[n] = NoAtcTeam \/ atc[n].id > 0
  /\ Fresh(api) /\ api.spec.name \notin tampered => GrantsOf(atc, api.spec)
  /\ pc = "update" /\ rc.spec.name \notin tampered => GrantsOf(atc, rc.spec)

(* At the start nothing is claimed and there is nothing to claim. *)
LEMMA ReadInit == Init => ReadInv /\ GrantInv
<1> SUFFICES ASSUME Init PROVE ReadInv /\ GrantInv
  OBVIOUS
<1>1. Seen(api, stream, store) = {NoTeam} /\ ~Live(NoTeam) /\ api = NoTeam /\ rc = NoTeam /\ pc = "idle"
  BY NoTeamType DEF Init, FrameInit, Seen, Live, Exists
<1>2. nextID > 0 /\ \A n \in Names : atc[n] = NoAtcTeam
  BY DEF Init
<1> QED BY <1>1, <1>2, NoTeamType DEF ReadInv, GrantInv, Fresh, WayIn

(* Edits end a claim before versions with another spec can be read. *)
LEMMA ReadNext == TypeOK /\ OrderInv /\ CopyInv /\ ReadInv /\ [Next]_vars => ReadInv'
<1> SUFFICES ASSUME TypeOK, OrderInv, CopyInv, ReadInv, [Next]_vars PROVE ReadInv'
  OBVIOUS
<1>0. /\ api \in Version /\ rc \in Version /\ \A v \in Version : v.rv \in Nat /\ v.gen \in Nat /\ v.observed \in Nat
      /\ Seen(api', stream', store') \subseteq Seen(api, stream, store) \cup {api'}
      /\ api \in Seen(api, stream, store) /\ store \in Seen(api, stream, store)
  BY OrderNext, VersionFields DEF TypeOK, FrameOK, Seen
<1>1. ASSUME api'.observed <= api'.gen, ~Fresh(api'), api'.rv = api.rv + 1, UNCHANGED <<pc, rc>>
      PROVE  ReadInv'
  <2>1. pc # "idle" => rc.rv # api'.rv
    BY <1>0, <1>1 DEF CopyInv
  <2>2. \A x \in Seen(api', stream', store') : x.observed <= x.gen
    BY <1>0, <1>1 DEF ReadInv
  <2> QED BY <1>1, <2>1, <2>2 DEF ReadInv, WayIn
<1>2. ASSUME UNCHANGED api
      PROVE  Seen(api', stream', store') \subseteq Seen(api, stream, store)
  BY <1>0, <1>2
<1>3. api.observed <= api.gen /\ NoTeam.observed <= NoTeam.gen
  BY <1>0, NoTeamType DEF ReadInv
<1>4. CASE CreateTeam
  BY <1>1, <1>4, CreateFields DEF Fresh
<1>5. CASE EditTeam
  <2>1. api'.observed < api'.gen
    BY <1>0, <1>3, <1>5, EditFields
  <2> QED BY <1>0, <1>1, <1>5, <2>1, EditFields DEF Fresh
<1>5a. CASE AnnotateTeam
  <2>1. (Fresh(api') <=> Fresh(api)) /\ \A x : Same(x, api) => Same(x, api')
    BY <1>5a, AnnotateFields DEF Fresh, Same, Live
  <2>2. pc # "idle" => rc.rv # api'.rv
    BY <1>0, <1>5a, AnnotateFields DEF CopyInv
  <2>3. api'.observed <= api'.gen /\ (Fresh(api') => Same(api', api'))
    BY <1>3, <1>5a, AnnotateFields DEF Fresh, Same
  <2> QED BY <1>0, <1>5a, <2>1, <2>2, <2>3, AnnotateFields DEF ReadInv, WayIn
<1>6. CASE DeleteTeamResource
  BY <1>1, <1>3, <1>6, DeleteFields DEF Fresh
<1>7. CASE InstanceChanges \/ Tick \/ InformerReceives \/ DelayExpires \/ UNCHANGED vars
  BY <1>2, <1>7, ElsewhereFields DEF ReadInv, Fresh, Same
<1>8. ASSUME NEW n \in Names, FlyChanges(n) PROVE ReadInv'
  BY <1>2, <1>8, FlyFields DEF ReadInv, Fresh, Same
<1>9. CASE Begin
  <2>1. CASE pc' = "idle" /\ rc' = NoTeam
    BY <1>2, <1>3, <1>9, <2>1, BeginFields DEF ReadInv, Fresh, Same, WayIn
  <2>2. CASE rc' = store /\ pc' \in {"destroy", "resolve", "finalize"} /\ (pc' # "destroy" => Live(store))
    <3>1. pc' # "destroy" /\ store.rv = api.rv => rc' = api /\ \A x \in Seen(api, stream, store) : Same(x, api)
      BY <2>2, UpToDate DEF Same
    <3> QED BY <1>0, <1>2, <1>9, <2>2, <3>1, BeginFields DEF ReadInv, Fresh, Same, WayIn
  <2> QED BY <1>9, <2>1, <2>2, BeginFields
<1>10. CASE DeleteTeam
  BY <1>2, <1>10, DestroyFields DEF ReadInv, Fresh, Same, WayIn
<1>11. CASE Resolve
  BY <1>2, <1>11, ResolveFields DEF ReadInv, Fresh, Same, Live, WayIn
<1>12. CASE Apply
  <2>1. rc'.observed <= rc'.gen
    BY <1>0, <1>12, ApplyFields DEF ReadInv
  <2> QED BY <1>2, <1>12, <2>1, ApplyFields DEF ReadInv, Fresh, Same, Live, WayIn
<1>13. CASE AddFinalizer
  <2>1. CASE UNCHANGED api /\ pc' = "idle" /\ rc' = NoTeam
    BY <1>2, <1>3, <2>1 DEF ReadInv, Fresh, Same, WayIn
  <2>2. CASE /\ rc.rv = api.rv /\ api'.state = rc.state /\ api'.spec = rc.spec
             /\ api'.gen = rc.gen /\ api'.observed = rc.observed
             /\ (rc' = api' /\ pc' = "resolve") \/ (pc' = "idle" /\ rc' = NoTeam)
    <3>1. rc = api /\ \A x \in Seen(api, stream, store) : Same(x, api)
      BY <1>13, <2>2, FinalizeFields DEF ReadInv
    <3>2. \A x \in Seen(api', stream', store') : Same(x, api') /\ x.observed <= x.gen
      BY <1>0, <2>2, <3>1 DEF ReadInv, Same, Live
    <3>3. Same(api', api') /\ api'.observed <= api'.gen
      BY <1>0, <2>2, <3>1 DEF ReadInv, Same, Live
    <3> QED BY <1>3, <2>2, <3>2, <3>3 DEF ReadInv, WayIn
  <2> QED BY <1>13, <2>1, <2>2, FinalizeFields
<1>14. CASE RemoveFinalizer
  <2>1. CASE UNCHANGED api
    BY <1>2, <1>3, <1>14, <2>1, UnfinalizeFields DEF ReadInv, Fresh, Same, WayIn
  <2>2. CASE ~Exists(api') /\ api'.observed = rc.observed /\ api'.gen = rc.gen
    <3>1. ~Fresh(api')
      BY <2>2 DEF Fresh, Live, Exists
    <3>2. \A x \in Seen(api', stream', store') : x.observed <= x.gen
      BY <1>0, <2>2 DEF ReadInv
    <3> QED BY <1>3, <1>14, <3>1, <3>2, UnfinalizeFields DEF ReadInv, WayIn
  <2> QED BY <1>14, <2>1, <2>2, UnfinalizeFields
<1>15. CASE UpdateStatus \/ Report
  <2>1. CASE UNCHANGED api
    BY <1>2, <1>3, <1>15, <2>1, StatusFields DEF ReadInv, Fresh, Same, WayIn
  <2>2. CASE /\ rc.rv = api.rv /\ api'.state = rc.state /\ api'.spec = rc.spec
             /\ api'.gen = rc.gen /\ api'.observed = rc.observed
    <3>1. /\ rc.state = api.state /\ rc.spec = api.spec
          /\ \A x \in Seen(api, stream, store) : Same(x, api)
      BY <1>15, <2>2, StatusFields DEF ReadInv, CopyInv, WayIn
    <3>2. \A x \in Seen(api', stream', store') : Same(x, api') /\ x.observed <= x.gen
      BY <1>0, <2>2, <3>1 DEF ReadInv, Same, Live
    <3> QED BY <1>3, <1>15, <3>2, StatusFields DEF ReadInv, WayIn
  <2> QED BY <1>15, <2>1, <2>2, StatusFields
<1>16. CASE CrashRestart
  BY <1>2, <1>3, <1>16, RestartFields DEF ReadInv, Fresh, Same, WayIn
<1> QED
  BY <1>4, <1>5, <1>5a, <1>6, <1>7, <1>8, <1>9, <1>10, <1>11, <1>12, <1>13, <1>14, <1>15, <1>16
     DEF Next, User, Working

(* Setting a team makes it grant what the bindings say. *)
LEMMA SetGrants ==
  ASSUME TypeOK, GrantInv, SetTeam(teamName, buildTeamAuth(rc.spec.roles))
  PROVE  /\ GrantsOf(atc', rc.spec)
         /\ nextID' > 0 /\ \A n \in Names : atc'[n] = NoAtcTeam \/ atc'[n].id > 0
<1>1. rc.spec.roles \in SUBSET TeamRole /\ teamName \in Names /\ nextID \in Nat
  BY VersionFields DEF TypeOK, FrameOK, teamName
<1>2. buildTeamAuth(rc.spec.roles) \in Grants
  BY <1>1, AuthFields
<1>3. atc'[teamName].auth = buildTeamAuth(rc.spec.roles) /\ atc'[teamName].id > 0
  BY <1>1, <1>2, SetTeamFields DEF GrantInv
<1>4. atc'[teamName] # NoAtcTeam
  BY <1>3 DEF NoAtcTeam
<1>5. nextID' > 0 /\ \A n \in Names : atc'[n] = NoAtcTeam \/ atc'[n].id > 0
  BY <1>1, <1>2, <1>3, SetTeamFields DEF GrantInv
<1>6. \A r \in Roles, m \in Members :
        <<r, m>> \in buildTeamAuth(rc.spec.roles) <=> \E b \in rc.spec.roles : b.role = r /\ m \in b.members
  BY <1>1, AuthFields
<1> QED BY <1>3, <1>4, <1>5, <1>6 DEF GrantsOf, teamName

(* A reconcile reports what it has applied, and no reconcile of an older spec
   undoes what has been reported. *)
LEMMA GrantNext == TypeOK /\ CopyInv /\ ReadInv /\ GrantInv /\ [Next]_vars => GrantInv'
<1> SUFFICES ASSUME TypeOK, CopyInv, ReadInv, GrantInv, [Next]_vars PROVE GrantInv'
  OBVIOUS
<1>0. api \in Version /\ rc \in Version /\ api.gen \in Nat /\ api.observed \in Nat /\ api.observed <= api.gen
  BY VersionFields DEF TypeOK, FrameOK, ReadInv, Seen
<1>1. ASSUME UNCHANGED <<atc, nextID, tampered>>, pc' # "update",
             ~Fresh(api') \/ UNCHANGED api
      PROVE  GrantInv'
  BY <1>1 DEF GrantInv
<1>2. ASSUME UNCHANGED <<atc, nextID, tampered, pc, rc>>, ~Fresh(api') \/ UNCHANGED api
      PROVE  GrantInv'
  BY <1>2 DEF GrantInv
<1>3. CASE CreateTeam
  BY <1>2, <1>3, CreateFields DEF Fresh
<1>4. CASE EditTeam
  <2>1. api'.observed # api'.gen
    BY <1>0, <1>4, EditFields
  <2> QED BY <1>2, <1>4, <2>1, EditFields DEF Fresh
<1>4a. CASE AnnotateTeam
  BY <1>4a, AnnotateFields DEF GrantInv, Fresh, Live
<1>5. CASE DeleteTeamResource
  BY <1>2, <1>5, DeleteFields DEF Fresh
<1>6. CASE InstanceChanges \/ Tick \/ InformerReceives \/ DelayExpires \/ UNCHANGED vars
  BY <1>2, <1>6, ElsewhereFields
<1>7. ASSUME NEW n \in Names, FlyChanges(n) PROVE GrantInv'
  <2>1. \A m \in Names : atc'[m] = NoAtcTeam \/ atc'[m].id > 0
    BY <1>7, FlyFields DEF GrantInv
  <2>2. ASSUME NEW spec, spec.name \in Names, spec.name # n, GrantsOf(atc, spec) PROVE GrantsOf(atc', spec)
    BY <1>7, <2>2, FlyFields DEF GrantsOf
  <2>3. api.spec.name \in Names /\ rc.spec.name \in Names
    BY <1>0, VersionFields
  <2> QED BY <1>7, <2>1, <2>2, <2>3, FlyFields DEF GrantInv
<1>8. CASE Begin
  BY <1>1, <1>8, BeginFields
<1>9. CASE DeleteTeam
  <2>1. ~Fresh(api)
    BY <1>9, DestroyFields DEF CopyInv, ReadInv, Same, WayOut
  <2>2. \A n \in Names : atc'[n] = NoAtcTeam \/ atc'[n].id > 0
    BY <1>9, DestroyFields DEF GrantInv
  <2> QED BY <1>9, <2>1, <2>2, DestroyFields DEF GrantInv
<1>10. CASE Resolve
  BY <1>1, <1>10, ResolveFields
<1>11. CASE Apply
  <2>1. CASE SetTeam(teamName, buildTeamAuth(rc.spec.roles))
    <3>1. Fresh(api) => rc.spec = api.spec
      BY <1>11, ApplyFields DEF ReadInv, Same
    <3> QED BY <1>11, <2>1, <3>1, SetGrants, ApplyFields DEF GrantInv
  <2>2. CASE pc' = "report" /\ UNCHANGED <<atc, nextID, tampered>>
    BY <1>1, <1>11, <2>2, ApplyFields
  <2> QED BY <1>11, <2>1, <2>2, ApplyFields
<1>12. CASE AddFinalizer
  <2>1. CASE UNCHANGED api /\ pc' = "idle"
    BY <1>1, <1>12, <2>1, FinalizeFields
  <2>2. CASE /\ rc.rv = api.rv /\ api'.state = rc.state /\ api'.spec = rc.spec
             /\ api'.gen = rc.gen /\ api'.observed = rc.observed /\ api'.ready = rc.ready
             /\ pc' # "update"
    <3>1. rc = api
      BY <1>12, <2>2, FinalizeFields DEF ReadInv
    <3>2. Fresh(api') => Fresh(api)
      BY <2>2, <3>1 DEF Fresh, Live
    <3> QED BY <1>12, <2>2, <3>1, <3>2, FinalizeFields DEF GrantInv
  <2> QED BY <1>12, <2>1, <2>2, FinalizeFields
<1>13. CASE RemoveFinalizer
  <2>1. ~Fresh(api') \/ UNCHANGED api
    BY <1>13, UnfinalizeFields DEF Fresh, Live, Exists
  <2> QED BY <1>1, <1>13, <2>1, UnfinalizeFields
<1>14. CASE Report
  <2>1. ~Fresh(api') \/ UNCHANGED api
    BY <1>14, StatusFields DEF Fresh, ReadInv, Report, ReportNotReady
  <2> QED BY <1>1, <1>14, <2>1, StatusFields
<1>15. CASE UpdateStatus
  <2>1. CASE UNCHANGED api
    BY <1>1, <1>15, <2>1, StatusFields
  <2>2. CASE api'.spec = rc.spec
    <3>1. pc = "update"
      BY <1>15 DEF UpdateStatus, WriteStatus
    <3> QED BY <1>15, <2>2, <3>1, StatusFields DEF GrantInv
  <2> QED BY <1>15, <2>1, <2>2, StatusFields
<1>16. CASE CrashRestart
  BY <1>1, <1>16, RestartFields
<1> QED
  BY <1>3, <1>4, <1>4a, <1>5, <1>6, <1>7, <1>8, <1>9, <1>10, <1>11, <1>12, <1>13, <1>14, <1>15, <1>16
     DEF Next, User, Working

(* "Ready: Reconciliation succeeded; resource is in sync with Concourse" is true of
   the roles of a Team, through edits, reverted edits, renames, conflicts, lost
   answers and stale reads, until others change the team. *)
THEOREM GrantedCorrect == Spec => []GrantedWhenReady
<1> DEFINE Inv == TypeOK /\ OrderInv /\ CopyInv /\ ReadInv /\ GrantInv
<1>1. Inv => GrantedWhenReady
  BY DEF GrantInv, Fresh, GrantsOf, GrantedWhenReady, GrantsRoles
<1>2. Init => Inv
  BY TypeInit, OrderInit, ReadInit
<1>3. Inv /\ [Next]_vars => Inv'
  BY TypeNext, OrderNext, CopyNext, ReadNext, GrantNext
<1> QED BY <1>1, <1>2, <1>3, PTL DEF Spec
=============================================================================
