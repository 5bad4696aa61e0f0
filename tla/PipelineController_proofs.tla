---------------------- MODULE PipelineController_proofs ----------------------
(* Theorems about PipelineController, for any names, configurations and specs, *)
(* and any budget of edits, faults and crashes.                              *)
EXTENDS PipelineController, KubeAPI_proofs

(* Type correctness. *)

(* The Pipeline that was never created is a well-formed version. *)
LEMMA NoPipelineType ==
  NoPipeline \in Version /\ ~Exists(NoPipeline) /\ NoPipeline.observed <= NoPipeline.gen
  /\ NoPipeline.hash = NoConfig
<1>1. (CHOOSE s \in Specs : TRUE) \in Specs
  BY SpecsAssumption
<1>2. NoPipeline \in Version
  BY <1>1 DEF NoPipeline, NewPipeline, Version, States
<1>3. /\ NoPipeline.state = "gone" /\ NoPipeline.observed = 0 /\ NoPipeline.gen = 1
      /\ NoPipeline.hash = NoConfig
  BY DEF NoPipeline, NewPipeline
<1> QED BY <1>2, <1>3 DEF Exists

(* The fields of a version, so that proofs need not expand it. *)
LEMMA VersionFields ==
  ASSUME NEW v \in Version
  PROVE  /\ v.state \in States /\ v.rv \in Nat /\ v.gen \in Nat /\ v.observed \in Nat
         /\ v.finalizer \in BOOLEAN /\ v.spec \in Specs /\ v.hash \in Configs \cup {NoConfig}
         /\ v.id \in Nat /\ v.flags \in SUBSET Flags
         /\ v.spec.name \in Names /\ v.spec.config \in Configs \cup {Ref}
<1>1. v.spec \in [name: Names, config: Configs \cup {Ref}, flags: SUBSET Flags]
  BY SpecsAssumption DEF Version
<1> QED BY <1>1 DEF Version

(* A new resourceVersion is all that a write adds to the object written. *)
LEMMA NextVersionFields ==
  ASSUME NEW v \in Version
  PROVE  LET w == NextVersion(v)
         IN  /\ w \in Version /\ w.rv = v.rv + 1 /\ w.state = v.state /\ w.finalizer = v.finalizer
             /\ w.gen = v.gen /\ w.spec = v.spec /\ w.observed = v.observed /\ w.ready = v.ready
             /\ w.hash = v.hash
BY DEF NextVersion, Version

(* What a user's creation of a Pipeline brings about. *)
LEMMA CreateFields ==
  ASSUME TypeOK, CreatePipeline
  PROVE  /\ ~Exists(api) /\ api' \in Version /\ api'.rv = api.rv + 1 /\ Live(api') /\ ~api'.finalizer
         /\ api'.observed = 0 /\ api'.gen = 1 /\ api'.ready = "none" /\ api'.hash = NoConfig
         /\ Replace(api') /\ UNCHANGED <<store, wq, pc, rc, configMap, chain, atc, nextID, newHash,
                                         abandoned, tampered>>
         /\ used' = used \cup {api'.spec.config}
<1>1. PICK spec \in Specs : Submit(NewPipeline(api.rv + 1, spec)) /\ Uses(spec.config)
  BY DEF CreatePipeline
<1>2. api.rv + 1 \in Nat
  BY VersionFields DEF TypeOK, FrameOK
<1> DEFINE obj == NewPipeline(api.rv + 1, spec)
<1>3. /\ obj \in Version /\ obj.rv = api.rv + 1 /\ obj.state = "live" /\ ~obj.finalizer
      /\ obj.observed = 0 /\ obj.gen = 1 /\ obj.ready = "none" /\ obj.hash = NoConfig /\ obj.spec = spec
  BY <1>2 DEF NewPipeline, Version, States
<1>4. api' = obj
  BY <1>1 DEF Submit, Replace
<1> HIDE DEF obj
<1>5. Replace(obj) /\ UNCHANGED <<store, wq, pc, rc>> /\ used' = used \cup {spec.config}
  BY <1>1 DEF Submit, worker, Uses, obj
<1> QED BY <1>3, <1>4, <1>5 DEF CreatePipeline, Live, deps, concourse

(* What an edit of the spec brings about: a new generation, a configuration that
   comes into use unless it stays the same, and a pipeline given up if the
   Pipeline gets another name. *)
LEMMA EditFields ==
  ASSUME TypeOK, EditPipeline
  PROVE  /\ Live(api) /\ api' \in Version /\ api'.rv = api.rv + 1 /\ api'.state = api.state
         /\ api'.finalizer = api.finalizer /\ api'.gen = api.gen + 1 /\ api'.observed = api.observed
         /\ api'.hash = api.hash
         /\ Replace(api') /\ UNCHANGED <<store, wq, pc, rc, configMap, chain, atc, nextID, newHash, tampered>>
         /\ \/ api'.spec.config = api.spec.config /\ used' = used
            \/ Uses(api'.spec.config)
         /\ abandoned \subseteq abandoned' /\ abandoned' \subseteq Names
         /\ api'.spec.name = api.spec.name \/ api.spec.name \in abandoned'
<1>0. api \in Version /\ api.gen + 1 \in Nat /\ api.spec.name \in Names
  BY VersionFields DEF TypeOK, FrameOK
<1>1. PICK spec \in Specs :
        /\ Submit(Respecified(spec))
        /\ IF spec.config = api.spec.config THEN UNCHANGED used ELSE Uses(spec.config)
        /\ abandoned' = IF spec.name = api.spec.name THEN abandoned ELSE abandoned \cup {api.spec.name}
  BY DEF EditPipeline
<1> DEFINE edited == [api EXCEPT !.gen = @ + 1, !.spec = spec]
<1>2. /\ edited \in Version /\ edited.rv = api.rv /\ edited.state = api.state
      /\ edited.finalizer = api.finalizer /\ edited.gen = api.gen + 1 /\ edited.observed = api.observed
      /\ edited.hash = api.hash /\ edited.spec = spec
  BY <1>0 DEF Version
<1>3. api' = NextVersion(edited)
  BY <1>1 DEF Submit, Replace, Respecified
<1> HIDE DEF edited
<1>4. /\ api' \in Version /\ api'.rv = api.rv + 1 /\ api'.state = api.state
      /\ api'.finalizer = api.finalizer /\ api'.gen = api.gen + 1 /\ api'.observed = api.observed
      /\ api'.hash = api.hash /\ api'.spec = spec
  BY <1>2, <1>3, NextVersionFields
<1>5. /\ abandoned \subseteq abandoned' /\ abandoned' \subseteq Names
      /\ api'.spec.name = api.spec.name \/ api.spec.name \in abandoned'
  BY <1>0, <1>1, <1>4 DEF TypeOK
<1>6. Replace(api') /\ UNCHANGED <<store, wq, pc, rc>>
  BY <1>1 DEF Submit, Replace, worker
<1>7. (api'.spec.config = api.spec.config /\ used' = used) \/ Uses(api'.spec.config)
  BY <1>1, <1>4
<1> QED BY <1>4, <1>5, <1>6, <1>7 DEF EditPipeline, deps, concourse

(* What a write of labels or annotations brings about. *)
LEMMA AnnotateFields ==
  ASSUME TypeOK, AnnotatePipeline
  PROVE  /\ Exists(api) /\ api' \in Version /\ api'.rv = api.rv + 1 /\ api'.state = api.state
         /\ api'.finalizer = api.finalizer /\ api'.spec = api.spec /\ api'.gen = api.gen
         /\ api'.observed = api.observed /\ api'.hash = api.hash /\ api'.ready = api.ready
         /\ Replace(api') /\ UNCHANGED <<store, wq, pc, rc, configMap, chain, atc, nextID, newHash,
                                         used, abandoned, tampered>>
<1>1. api \in Version /\ api' = NextVersion(api)
  BY DEF TypeOK, FrameOK, AnnotatePipeline, Annotate, Submit, Replace
<1> QED BY <1>1, NextVersionFields
        DEF AnnotatePipeline, Annotate, Submit, worker, deps, concourse, hist

(* What a user's deletion brings about: the end, or the wait for the finalizer. *)
LEMMA DeleteFields ==
  ASSUME TypeOK, DeletePipelineResource
  PROVE  /\ Live(api) /\ api' \in Version /\ api'.rv = api.rv + 1 /\ ~Live(api')
         /\ Exists(api') <=> api.finalizer
         /\ api'.finalizer = api.finalizer /\ api'.spec = api.spec /\ api'.gen = api.gen
         /\ api'.observed = api.observed /\ api'.hash = api.hash
         /\ Replace(api') /\ UNCHANGED <<store, wq, pc, rc, configMap, chain, atc, nextID, newHash,
                                         used, abandoned, tampered>>
<1> DEFINE state == IF api.finalizer THEN "deleting" ELSE "gone"
           obj == [api EXCEPT !.state = state]
<1>0. api \in Version /\ api.finalizer \in BOOLEAN
  BY VersionFields DEF TypeOK, FrameOK
<1>1. /\ obj \in Version /\ obj.rv = api.rv /\ obj.state = state /\ obj.finalizer = api.finalizer
      /\ obj.spec = api.spec /\ obj.gen = api.gen /\ obj.observed = api.observed /\ obj.hash = api.hash
  BY <1>0 DEF Version, States
<1>2. Replace(NextVersion(obj)) /\ api' = NextVersion(obj)
  BY DEF DeletePipelineResource, Submit, Replace
<1> HIDE DEF obj
<1>3. /\ api' \in Version /\ api'.rv = api.rv + 1 /\ api'.finalizer = api.finalizer
      /\ api'.spec = api.spec /\ api'.gen = api.gen /\ api'.observed = api.observed /\ api'.state = state
      /\ api'.hash = api.hash
  BY <1>1, <1>2, NextVersionFields
<1>4. ~Live(api') /\ (Exists(api') <=> api.finalizer)
  BY <1>0, <1>3 DEF Live, Exists
<1> QED BY <1>2, <1>3, <1>4 DEF DeletePipelineResource, Submit, worker, deps, concourse, hist

(* What the update with the finalizer brings about. *)
LEMMA FinalizeFields ==
  ASSUME TypeOK, AddFinalizer
  PROVE  /\ pc = "finalize"
         /\ UNCHANGED <<store, configMap, chain, atc, nextID, newHash, used, abandoned, tampered>>
         /\ \/ /\ Exists(api) /\ rc.rv = api.rv /\ Replace(api')
               /\ api' \in Version /\ api'.rv = api.rv + 1 /\ api'.state = rc.state /\ api'.finalizer
               /\ api'.spec = rc.spec /\ api'.gen = rc.gen /\ api'.observed = rc.observed
               /\ api'.ready = rc.ready /\ api'.hash = rc.hash
               /\ \/ rc' = api' /\ pc' = "resolve"
                  \/ pc' = "idle" /\ rc' = NoPipeline
            \/ UNCHANGED <<api, stream>> /\ pc' = "idle" /\ rc' = NoPipeline
         /\ wq' \in QueueStates
<1> DEFINE fin == [rc EXCEPT !.finalizer = TRUE]
           obj == NextVersion(fin)
<1>0. rc \in Version /\ wq \in QueueStates /\ AddAfter(wq) \in QueueStates
  BY QueueType DEF TypeOK, FrameOK
<1>1. /\ fin \in Version /\ fin.rv = rc.rv /\ fin.state = rc.state /\ fin.finalizer /\ fin.spec = rc.spec
      /\ fin.gen = rc.gen /\ fin.observed = rc.observed /\ fin.ready = rc.ready /\ fin.hash = rc.hash
  BY <1>0 DEF Version
<1>2. /\ obj \in Version /\ obj.rv = rc.rv + 1 /\ obj.state = rc.state /\ obj.finalizer
      /\ obj.spec = rc.spec /\ obj.gen = rc.gen /\ obj.observed = rc.observed /\ obj.ready = rc.ready
      /\ obj.hash = rc.hash
  BY <1>1, NextVersionFields
<1> HIDE DEF obj, fin
<1> USE DEF deps, concourse, hist
<1>3. CASE /\ Write(obj)
           /\ \/ rc' = obj /\ pc' = "resolve" /\ UNCHANGED <<wq, faults>>
              \/ Fault /\ ReturnError
  <2>1. Exists(api) /\ rc.rv = api.rv /\ Replace(obj) /\ api' = obj
    BY <1>3 DEF Write, Accepted, Accepts, Replace
  <2> QED BY <1>0, <1>2, <1>3, <2>1 DEF AddFinalizer, Finalize, ReturnError, Idle
<1>4. CASE WriteFails
  BY <1>0, <1>4 DEF AddFinalizer, Finalize, WriteFails, ReturnError, Idle
<1> QED BY <1>3, <1>4 DEF AddFinalizer, Finalize, obj, fin

(* What the update without the finalizer brings about. *)
LEMMA UnfinalizeFields ==
  ASSUME TypeOK, RemoveFinalizer
  PROVE  /\ pc = "unfinalize"
         /\ UNCHANGED <<store, configMap, chain, atc, nextID, newHash, used, abandoned, tampered>>
         /\ pc' = "idle" /\ rc' = NoPipeline /\ wq' \in QueueStates
         /\ \/ /\ Exists(api) /\ rc.rv = api.rv /\ Replace(api')
               /\ api' \in Version /\ api'.rv = api.rv + 1 /\ ~Exists(api')
               /\ api'.observed = rc.observed /\ api'.gen = rc.gen /\ api'.hash = rc.hash
            \/ UNCHANGED <<api, stream>>
<1> DEFINE fin == [rc EXCEPT !.finalizer = FALSE, !.state = "gone"]
           obj == NextVersion(fin)
<1>0. rc \in Version /\ wq \in QueueStates /\ AddAfter(wq) \in QueueStates
  BY QueueType DEF TypeOK, FrameOK
<1>1. /\ fin \in Version /\ fin.rv = rc.rv /\ fin.state = "gone"
      /\ fin.gen = rc.gen /\ fin.observed = rc.observed /\ fin.hash = rc.hash
  BY <1>0 DEF Version, States
<1>2. /\ obj \in Version /\ obj.rv = rc.rv + 1 /\ ~Exists(obj)
      /\ obj.gen = rc.gen /\ obj.observed = rc.observed /\ obj.hash = rc.hash
  BY <1>1, NextVersionFields DEF Exists
<1> HIDE DEF obj, fin
<1> USE DEF deps, concourse, hist
<1>3. CASE Write(obj) /\ ((Done /\ UNCHANGED faults) \/ (Fault /\ ReturnError))
  <2>1. Exists(api) /\ rc.rv = api.rv /\ Replace(obj) /\ api' = obj
    BY <1>3 DEF Write, Accepted, Accepts, Replace
  <2> QED BY <1>0, <1>2, <1>3, <2>1 DEF RemoveFinalizer, Unfinalize, ReturnError, Done, Idle
<1>4. CASE WriteFails
  BY <1>0, <1>4 DEF RemoveFinalizer, Unfinalize, WriteFails, ReturnError, Idle
<1> QED BY <1>3, <1>4 DEF RemoveFinalizer, Unfinalize, obj, fin

(* What a status write brings about. *)
LEMMA StatusFields ==
  ASSUME TypeOK, UpdateStatus \/ Report
  PROVE  /\ (UpdateStatus /\ pc = "update") \/ (Report /\ pc = "report")
         /\ UNCHANGED <<store, configMap, chain, atc, nextID, newHash, used, abandoned, tampered>>
         /\ pc' = "idle" /\ rc' = NoPipeline /\ wq' \in QueueStates
         /\ \/ /\ Exists(api) /\ rc.rv = api.rv /\ Replace(api')
               /\ api' \in Version /\ (api' = api \/ api'.rv = api.rv + 1)
               /\ api'.state = rc.state /\ api'.finalizer = rc.finalizer /\ api'.spec = rc.spec
               /\ api'.gen = rc.gen /\ api'.observed = rc.observed /\ api'.ready = rc.ready
               /\ api'.hash = rc.hash
            \/ UNCHANGED <<api, stream>>
<1>0. api \in Version /\ rc \in Version /\ wq \in QueueStates /\ AddAfter(wq) \in QueueStates
  BY QueueType DEF TypeOK, FrameOK
<1>1. ASSUME Write(Written(api, rc))
      PROVE  /\ Exists(api) /\ rc.rv = api.rv /\ Replace(api')
             /\ api' \in Version /\ (api' = api \/ api'.rv = api.rv + 1)
             /\ api'.state = rc.state /\ api'.finalizer = rc.finalizer /\ api'.spec = rc.spec
             /\ api'.gen = rc.gen /\ api'.observed = rc.observed /\ api'.ready = rc.ready
             /\ api'.hash = rc.hash
  <2>1. Exists(api) /\ rc.rv = api.rv /\ Replace(api') /\ api' = Written(api, rc)
    BY <1>1 DEF Write, Accepted, Accepts, Replace
  <2>2. CASE rc = api
    BY <1>0, <2>1, <2>2 DEF Written
  <2>3. CASE rc # api
    <3>1. api' = NextVersion(rc)
      BY <2>1, <2>3 DEF Written
    <3> QED BY <1>0, <2>1, <3>1, NextVersionFields
  <2> QED BY <2>2, <2>3
<1> USE DEF deps, concourse, hist
<1>2. CASE UpdateStatus
  BY <1>0, <1>1, <1>2 DEF UpdateStatus, WriteStatus, WriteFails, RequeueAfter, ReturnError, Idle
<1>3. CASE Report
  BY <1>0, <1>1, <1>3 DEF Report, ReportNotReady, RequeueAfter, Idle
<1> QED BY <1>2, <1>3

(* What Concourse does when it is given a configuration. *)
LEMMA SetConfigFields ==
  ASSUME TypeOK, NEW n \in Names, NEW config \in Configs \cup {NoConfig}, SetConfig(n, config)
  PROVE  /\ atc' \in [Names -> Run] /\ nextID' \in Nat
         /\ atc'[n].config = config
         /\ \A m \in Names : m # n => atc'[m] = atc[m]
         /\ tampered' = tampered \ {n}
<1>0. atc \in [Names -> Run] /\ nextID \in Nat
  BY DEF TypeOK
<1>1. CASE atc[n] = NoRun
  <2> DEFINE run == [id |-> nextID, config |-> config, flags |-> {"paused"}]
  <2>1. atc' = [atc EXCEPT ![n] = run] /\ nextID' = nextID + 1
    BY <1>1 DEF SetConfig
  <2>2. run \in Run /\ run.config = config
    BY <1>0 DEF Run, Flags
  <2> HIDE DEF run
  <2> QED BY <1>0, <2>1, <2>2 DEF SetConfig
<1>2. CASE atc[n] # NoRun
  <2>1. atc' = [atc EXCEPT ![n].config = config] /\ UNCHANGED nextID
    BY <1>2 DEF SetConfig
  <2>2. atc'[n] = [atc[n] EXCEPT !.config = config] /\ atc[n] \in Run
    BY <1>0, <2>1
  <2>3. atc'[n] \in Run /\ atc'[n].config = config
    BY <2>2 DEF Run
  <2> QED BY <1>0, <2>1, <2>3 DEF SetConfig
<1> QED BY <1>1, <1>2

(* What looking up the chain and the configuration brings about.  The step goes
   on to the flags only if the configuration is the recorded one. *)
LEMMA ResolveFields ==
  ASSUME TypeOK, Resolve
  PROVE  /\ pc = "resolve"
         /\ UNCHANGED <<api, stream, store, wq, configMap, chain, atc, nextID, used, abandoned, tampered>>
         /\ rc' \in Version /\ rc'.rv = rc.rv /\ rc'.state = rc.state /\ rc'.finalizer = rc.finalizer
         /\ rc'.spec = rc.spec /\ rc'.gen = rc.gen /\ rc'.observed = rc.observed /\ rc'.hash = rc.hash
         /\ \/ pc' = "report" /\ rc'.ready # "Ready" /\ newHash' = newHash
            \/ pc' = "apply" /\ newHash' = loadPipelineConfig(rc.spec) /\ newHash' \in Configs
            \/ pc' = "paused" /\ rc.hash = loadPipelineConfig(rc.spec) /\ newHash' = newHash
<1>0. rc \in Version
  BY DEF TypeOK, FrameOK
<1>1. pc = "resolve" /\ UNCHANGED <<api, stream, store, wq, configMap, chain, atc, nextID, used, abandoned, tampered>>
  BY DEF Resolve, Call, kube, deps, concourse, hist
<1>2. loadPipelineConfig(rc.spec) \in Configs \cup {NoConfig, Ref} /\ loadPipelineConfig(rc.spec) # Ref
  BY <1>0, VersionFields, ConfigsAssumption DEF loadPipelineConfig, TypeOK, NoConfig, Ref
<1>3. CASE UNCHANGED rc /\ pc' = "apply" /\ newHash' = loadPipelineConfig(rc.spec)
           /\ loadPipelineConfig(rc.spec) # NoConfig
  BY <1>0, <1>1, <1>2, <1>3
<1>4. CASE UNCHANGED <<rc, newHash>> /\ pc' = "paused" /\ rc.hash = loadPipelineConfig(rc.spec)
  BY <1>0, <1>1, <1>4
<1>5. ASSUME NEW reason \in {"TeamNotReady", "ConfigLoadFailed"},
             rc' = [rc EXCEPT !.ready = reason], pc' = "report", UNCHANGED newHash
      PROVE  /\ rc' \in Version /\ rc'.rv = rc.rv /\ rc'.state = rc.state /\ rc'.finalizer = rc.finalizer
             /\ rc'.spec = rc.spec /\ rc'.gen = rc.gen /\ rc'.observed = rc.observed /\ rc'.hash = rc.hash
             /\ rc'.ready # "Ready"
  BY <1>0, <1>5 DEF Version
<1> QED BY <1>1, <1>3, <1>4, <1>5 DEF Resolve, Call

(* What the call of CreateOrUpdatePipelineConfig brings about: the configuration
   is set, or the call failed and it may have been set. *)
LEMMA ApplyFields ==
  ASSUME TypeOK, Apply
  PROVE  /\ pc = "apply" /\ newHash' = NoConfig
         /\ UNCHANGED <<api, stream, store, wq, configMap, chain, used, abandoned>>
         /\ pipelineName \in Names
         /\ rc' \in Version /\ rc'.rv = rc.rv /\ rc'.state = rc.state /\ rc'.finalizer = rc.finalizer
         /\ rc'.spec = rc.spec /\ rc'.gen = rc.gen /\ rc'.observed = rc.observed
         /\ \/ SetConfig(pipelineName, newHash)
            \/ pc' = "report" /\ UNCHANGED <<atc, nextID, tampered>>
         /\ \/ pc' = "paused" /\ rc'.hash = newHash
            \/ pc' = "report" /\ rc'.hash = rc.hash /\ rc'.ready # "Ready"
<1>0. rc \in Version /\ pipelineName \in Names /\ newHash \in Configs \cup {NoConfig}
  BY VersionFields DEF TypeOK, FrameOK, pipelineName
<1>1. CASE /\ Call("apply", "paused") /\ SetConfig(pipelineName, newHash)
           /\ rc' = [rc EXCEPT !.synced = "Synced", !.hash = newHash]
  <2>1. /\ rc' \in Version /\ rc'.rv = rc.rv /\ rc'.state = rc.state /\ rc'.finalizer = rc.finalizer
        /\ rc'.spec = rc.spec /\ rc'.gen = rc.gen /\ rc'.observed = rc.observed /\ rc'.hash = newHash
    BY <1>0, <1>1 DEF Version
  <2> QED BY <1>0, <1>1, <2>1 DEF Apply, Call, kube, deps
<1>2. CASE /\ Call("apply", "report")
           /\ SetConfig(pipelineName, newHash) \/ UNCHANGED <<concourse, tampered>>
           /\ rc' = [rc EXCEPT !.synced = "SetPipelineFailed", !.ready = "SetPipelineFailed"]
  <2>1. /\ rc' \in Version /\ rc'.rv = rc.rv /\ rc'.state = rc.state /\ rc'.finalizer = rc.finalizer
        /\ rc'.spec = rc.spec /\ rc'.gen = rc.gen /\ rc'.observed = rc.observed /\ rc'.hash = rc.hash
        /\ rc'.ready # "Ready"
    BY <1>0, <1>2 DEF Version
  <2> QED BY <1>0, <1>2, <2>1 DEF Apply, Call, kube, deps, concourse
<1> QED BY <1>1, <1>2 DEF Apply

(* What the calls for a flag bring about: configurations stay as they are. *)
LEMMA FlagFields ==
  ASSUME TypeOK, NEW f \in Flags, NEW next, SyncFlag(f, next)
  PROVE  /\ pc = f /\ pc' = next
         /\ UNCHANGED <<api, stream, store, wq, configMap, chain, nextID, newHash, used, abandoned, tampered>>
         /\ rc' \in Version /\ rc'.rv = rc.rv /\ rc'.state = rc.state /\ rc'.finalizer = rc.finalizer
         /\ rc'.spec = rc.spec /\ rc'.gen = rc.gen /\ rc'.observed = rc.observed /\ rc'.hash = rc.hash
         /\ atc' \in [Names -> Run]
         /\ \A n \in Names : atc'[n].config = atc[n].config /\ (atc'[n] # NoRun => atc[n] # NoRun)
<1>0. rc \in Version /\ pipelineName \in Names /\ atc \in [Names -> Run]
  BY VersionFields DEF TypeOK, FrameOK, pipelineName
<1>1. \A flags \in SUBSET Flags : Synced(f, flags) \in SUBSET Flags
  BY DEF Synced
<1>2. rc' = rc \/ rc' = [rc EXCEPT !.flags = Synced(f, @)]
  BY DEF SyncFlag
<1>3. /\ rc' \in Version /\ rc'.rv = rc.rv /\ rc'.state = rc.state /\ rc'.finalizer = rc.finalizer
      /\ rc'.spec = rc.spec /\ rc'.gen = rc.gen /\ rc'.observed = rc.observed /\ rc'.hash = rc.hash
  <2> DEFINE flags == Synced(f, rc.flags)
  <2>1. flags \in SUBSET Flags
    BY <1>0, <1>1, VersionFields
  <2>2. rc' = rc \/ rc' = [rc EXCEPT !.flags = flags]
    BY <1>2
  <2> HIDE DEF flags
  <2> QED BY <1>0, <2>1, <2>2 DEF Version
<1>4. /\ atc' \in [Names -> Run]
      /\ \A n \in Names : atc'[n].config = atc[n].config /\ (atc'[n] # NoRun => atc[n] # NoRun)
  <2>1. CASE atc' = atc
    BY <1>0, <2>1
  <2>2. CASE atc[pipelineName] # NoRun /\ atc' = [atc EXCEPT ![pipelineName].flags = Synced(f, @)]
    <3> DEFINE flags == Synced(f, atc[pipelineName].flags)
    <3>1. flags \in SUBSET Flags
      BY <1>0, <1>1 DEF Run
    <3>2. atc' = [atc EXCEPT ![pipelineName].flags = flags]
      BY <2>2
    <3> HIDE DEF flags
    <3>3. atc'[pipelineName] = [atc[pipelineName] EXCEPT !.flags = flags] /\ atc[pipelineName] \in Run
      BY <1>0, <3>2
    <3>4. atc'[pipelineName] \in Run /\ atc'[pipelineName].config = atc[pipelineName].config
      BY <3>1, <3>3 DEF Run
    <3> QED BY <1>0, <2>2, <3>2, <3>4
  <2> QED BY <2>1, <2>2 DEF SyncFlag, SetFlag
<1> QED BY <1>3, <1>4 DEF SyncFlag, Call, kube, deps, hist

(* What the lookup of the ID, which completes the status, brings about. *)
LEMMA FetchFields ==
  ASSUME TypeOK, Fetch
  PROVE  /\ pc = "fetch" /\ pc' = "update"
         /\ UNCHANGED <<api, stream, store, wq, configMap, chain, atc, nextID, newHash, used, abandoned, tampered>>
         /\ rc' \in Version /\ rc'.rv = rc.rv /\ rc'.state = rc.state /\ rc'.finalizer = rc.finalizer
         /\ rc'.spec = rc.spec /\ rc'.gen = rc.gen /\ rc'.observed = rc.gen /\ rc'.hash = rc.hash
<1>0. rc \in Version /\ atc[pipelineName].id \in Nat
  BY VersionFields DEF TypeOK, FrameOK, pipelineName, Run
<1>1. PICK i \in {atc[pipelineName].id, 0} :
        rc' = [rc EXCEPT !.id = IF i = 0 THEN @ ELSE i, !.observed = rc.gen, !.ready = "Ready"]
  BY DEF Fetch
<1>2. /\ rc' \in Version /\ rc'.rv = rc.rv /\ rc'.state = rc.state /\ rc'.finalizer = rc.finalizer
      /\ rc'.spec = rc.spec /\ rc'.gen = rc.gen /\ rc'.observed = rc.gen /\ rc'.hash = rc.hash
  BY <1>0, <1>1 DEF Version
<1> QED BY <1>2 DEF Fetch, Call, kube, deps, concourse, hist

(* What the deletion in Concourse brings about: the pipeline is destroyed, or it
   is given up. *)
LEMMA DestroyFields ==
  ASSUME TypeOK, Destroy
  PROVE  /\ pc = "destroy" /\ pc' = "unfinalize" /\ pipelineName \in Names
         /\ UNCHANGED <<api, stream, store, wq, rc, configMap, chain, nextID, newHash, used, tampered>>
         /\ atc' \in [Names -> Run]
         /\ \A n \in Names : atc'[n] = atc[n] \/ atc'[n] = NoRun
         /\ abandoned \subseteq abandoned' /\ abandoned' \subseteq Names
         /\ atc'[pipelineName] = NoRun \/ pipelineName \in abandoned'
<1>0. pipelineName \in Names /\ atc \in [Names -> Run] /\ abandoned \subseteq Names
  BY VersionFields DEF TypeOK, FrameOK, pipelineName
<1>1. NoRun \in Run
  BY DEF NoRun, Run
<1>2. ASSUME DeletePipeline(pipelineName)
      PROVE  /\ atc' \in [Names -> Run] /\ atc'[pipelineName] = NoRun
             /\ \A n \in Names : atc'[n] = atc[n] \/ atc'[n] = NoRun
  BY <1>0, <1>1, <1>2 DEF DeletePipeline
<1>3. /\ pc = "destroy" /\ pc' = "unfinalize"
      /\ UNCHANGED <<api, stream, store, wq, rc, configMap, chain, nextID, newHash, used, tampered>>
  BY DEF Destroy, Call, kube, deps
<1>4. abandoned \subseteq abandoned' /\ abandoned' \subseteq Names
  BY <1>0 DEF Destroy
<1>5. CASE DeletePipeline(pipelineName)
  BY <1>0, <1>2, <1>3, <1>4, <1>5
<1>6. CASE UNCHANGED atc /\ pipelineName \in abandoned'
  BY <1>0, <1>3, <1>4, <1>6
<1> QED BY <1>5, <1>6 DEF Destroy

(* What the steps of everyone else leave alone. *)
LEMMA ElsewhereFields ==
  ASSUME TypeOK, ConfigMapChanges \/ ChainChanges \/ InformerReceives \/ DelayExpires \/ UNCHANGED vars
  PROVE  /\ UNCHANGED <<api, pc, rc, atc, nextID, newHash, abandoned, tampered>>
         /\ \/ UNCHANGED <<configMap, used>>
            \/ configMap' \in Configs /\ used' = used \cup {configMap'}
<1>1. CASE ConfigMapChanges
  BY <1>1 DEF ConfigMapChanges, Elsewhere, Uses, kube, worker, concourse
<1>2. CASE ChainChanges \/ InformerReceives \/ DelayExpires \/ UNCHANGED vars
  BY <1>2 DEF ChainChanges, Elsewhere, InformerReceives, Receive, DelayExpires, Expire,
              kube, worker, concourse, hist, deps, vars
<1> QED BY <1>1, <1>2

(* What fly does to a pipeline behind the operator's back. *)
LEMMA FlyFields ==
  ASSUME TypeOK, NEW n \in Names, FlyDestroys(n)
  PROVE  /\ UNCHANGED <<api, stream, store, wq, pc, rc, configMap, chain, nextID, newHash, used, abandoned>>
         /\ atc' \in [Names -> Run] /\ atc'[n] = NoRun
         /\ \A m \in Names : m # n => atc'[m] = atc[m]
         /\ tampered' = tampered \cup {n}
<1>0. atc \in [Names -> Run] /\ NoRun \in Run
  BY DEF TypeOK, NoRun, Run
<1> QED BY <1>0 DEF FlyDestroys, Elsewhere, kube, worker, deps

(* What taking a key from the queue brings about. *)
LEMMA BeginFields ==
  ASSUME TypeOK, Begin
  PROVE  /\ pc = "idle"
         /\ UNCHANGED <<api, stream, store, configMap, chain, atc, nextID, newHash, used, abandoned, tampered>>
         /\ wq' \in QueueStates
         /\ \/ pc' = "idle" /\ rc' = NoPipeline
            \/ pc' = "destroy" /\ rc' = store /\ Exists(store) /\ ~Live(store)
            \/ pc' = "resolve" /\ rc' = store /\ Live(store) /\ store.finalizer
            \/ pc' = "finalize" /\ rc' = store /\ Live(store) /\ ~store.finalizer
<1>0. store.finalizer \in BOOLEAN
  BY VersionFields DEF TypeOK, FrameOK
<1> QED BY <1>0 DEF Begin, Take, FirstCall, QueueStates, kube, deps, concourse, hist

(* What a restart brings about. *)
LEMMA RestartFields ==
  ASSUME TypeOK, CrashRestart
  PROVE  /\ pc' = "idle" /\ rc' = NoPipeline /\ wq' \in QueueStates /\ newHash' = NoConfig
         /\ UNCHANGED <<api, configMap, chain, atc, nextID, used, abandoned, tampered>>
         /\ store' = api /\ stream' = <<>>
BY DEF CrashRestart, Restart, Idle, QueueStates, deps, concourse, hist

(* Both flags, as one kind of step. *)
SyncFlags == SyncFlag("paused", "exposed") \/ SyncFlag("exposed", "fetch")

(* What the calls for the two flags bring about. *)
LEMMA FlagsFields ==
  ASSUME TypeOK, SyncFlags
  PROVE  /\ pc \in {"paused", "exposed"} /\ pc' \in {"exposed", "fetch"}
         /\ UNCHANGED <<api, stream, store, wq, configMap, chain, nextID, newHash, used, abandoned, tampered>>
         /\ rc' \in Version /\ rc'.rv = rc.rv /\ rc'.state = rc.state /\ rc'.finalizer = rc.finalizer
         /\ rc'.spec = rc.spec /\ rc'.gen = rc.gen /\ rc'.observed = rc.observed /\ rc'.hash = rc.hash
         /\ atc' \in [Names -> Run]
         /\ \A n \in Names : atc'[n].config = atc[n].config /\ (atc'[n] # NoRun => atc[n] # NoRun)
<1>1. CASE SyncFlag("paused", "exposed")
  BY <1>1, FlagFields DEF Flags
<1>2. CASE SyncFlag("exposed", "fetch")
  BY <1>2, FlagFields DEF Flags
<1> QED BY <1>1, <1>2 DEF SyncFlags

(* What users, the informer and the worker do to the Pipeline, as a step of the
   API server and the informer. *)
LEMMA ApiStep ==
  ASSUME TypeOK, [Next]_vars
  PROVE  api' \in Version /\ KubeStep(api, stream, store, api', stream', store')
<1> DEFINE Goal == api' \in Version /\ KubeStep(api, stream, store, api', stream', store')
<1>0. api \in Version
  BY DEF TypeOK, FrameOK
<1>1. ASSUME UNCHANGED <<api, stream, store>> PROVE Goal
  BY <1>0, <1>1 DEF KubeStep, Published
<1>2. ASSUME api' \in Version, api' = api \/ api'.rv = api.rv + 1, Replace(api'), UNCHANGED store PROVE Goal
  BY <1>2 DEF Replace, KubeStep
<1>3. CASE CreatePipeline \/ EditPipeline \/ AnnotatePipeline \/ DeletePipelineResource
  BY <1>2, <1>3, CreateFields, EditFields, AnnotateFields, DeleteFields
<1>4. CASE ConfigMapChanges \/ ChainChanges \/ DelayExpires \/ UNCHANGED vars
  BY <1>1, <1>4 DEF ConfigMapChanges, ChainChanges, Elsewhere, DelayExpires, Expire, kube, vars
<1>5. CASE \E n \in Names : FlyDestroys(n)
  BY <1>1, <1>5, FlyFields
<1>6. CASE InformerReceives
  BY <1>0, <1>6 DEF InformerReceives, Receive, KubeStep
<1>7. CASE Begin \/ Destroy \/ Resolve \/ Apply \/ SyncFlags \/ Fetch
  BY <1>1, <1>7, BeginFields, DestroyFields, ResolveFields, ApplyFields, FlagsFields, FetchFields
<1>8. CASE AddFinalizer
  BY <1>1, <1>2, <1>8, FinalizeFields
<1>9. CASE RemoveFinalizer
  BY <1>1, <1>2, <1>9, UnfinalizeFields
<1>10. CASE UpdateStatus \/ Report
  BY <1>1, <1>2, <1>10, StatusFields
<1>11. CASE CrashRestart
  BY <1>0, <1>11, RestartFields DEF KubeStep
<1> QED BY <1>3, <1>4, <1>5, <1>6, <1>7, <1>8, <1>9, <1>10, <1>11 DEF Next, User, Working, SyncFlags

(* The named bounds hold for edits, faults and crashes. *)
LEMMA CountersType ==
  ASSUME TypeOK, [Next]_vars
  PROVE  /\ edits' \in 0..MaxEdits /\ faults' \in 0..MaxFaults /\ crashes' \in 0..MaxCrashes
         /\ chain' \in ChainStates
<1> DEFINE Goal == /\ edits' \in 0..MaxEdits /\ faults' \in 0..MaxFaults /\ crashes' \in 0..MaxCrashes
                   /\ chain' \in ChainStates
<1>0. /\ edits \in 0..MaxEdits /\ faults \in 0..MaxFaults /\ crashes \in 0..MaxCrashes
      /\ chain \in ChainStates
  BY DEF TypeOK, FrameOK
<1>1. (Edit => edits' \in 0..MaxEdits) /\ (Fault => faults' \in 0..MaxFaults)
  BY <1>0, BoundsAssumption DEF Edit, Fault
<1> USE DEF bounds, deps
<1>2. CASE CreatePipeline \/ EditPipeline \/ AnnotatePipeline \/ DeletePipelineResource
  BY <1>0, <1>1, <1>2 DEF CreatePipeline, EditPipeline, AnnotatePipeline, Annotate,
                              DeletePipelineResource, Submit, Edit
<1>3. CASE ConfigMapChanges \/ ChainChanges
  BY <1>0, <1>1, <1>3 DEF ConfigMapChanges, ChainChanges, Elsewhere, Edit
<1>4. CASE \E n \in Names : FlyDestroys(n)
  BY <1>0, <1>1, <1>4 DEF FlyDestroys, Elsewhere, Edit
<1>5. CASE InformerReceives \/ DelayExpires \/ Begin
  BY <1>0, <1>5 DEF InformerReceives, Receive, DelayExpires, Expire, Begin, Take
<1>6. CASE Destroy \/ Resolve \/ Apply
  BY <1>0, <1>1, <1>6 DEF Destroy, Resolve, Apply, Call
<1>7. CASE SyncFlags \/ Fetch
  BY <1>0, <1>1, <1>7 DEF SyncFlags, SyncFlag, Fetch, Call
<1>8. CASE RemoveFinalizer \/ AddFinalizer
  BY <1>0, <1>1, <1>8 DEF RemoveFinalizer, Unfinalize, AddFinalizer, Finalize, WriteFails
<1>9. CASE UpdateStatus \/ Report
  BY <1>0, <1>1, <1>9 DEF UpdateStatus, WriteStatus, WriteFails, Report, ReportNotReady
<1>10. CASE CrashRestart
  BY <1>0, <1>10, BoundsAssumption DEF CrashRestart, Restart
<1>11. CASE UNCHANGED vars
  BY <1>0, <1>11 DEF vars
<1> QED BY <1>2, <1>3, <1>4, <1>5, <1>6, <1>7, <1>8, <1>9, <1>10, <1>11 DEF Next, User, Working, SyncFlags

(* The manager that has just started, with no Pipeline yet, is in a well-typed
   state. *)
LEMMA TypeInit == Init => TypeOK
<1> SUFFICES ASSUME Init PROVE TypeOK
  OBVIOUS
<1>1. FrameOK(Version, Steps)
  BY NoPipelineType, BoundsAssumption DEF Init, FrameInit, FrameOK, QueueStates
<1>2. atc \in [Names -> Run]
  BY DEF Init, NoRun, Run
<1> QED BY <1>1, <1>2 DEF Init, TypeOK

(* Every step of users, fly and the reconciler keeps the types. *)
LEMMA TypeNext == TypeOK /\ [Next]_vars => TypeOK'
<1> SUFFICES ASSUME TypeOK, [Next]_vars PROVE TypeOK'
  OBVIOUS
<1> DEFINE Rest == /\ wq' \in QueueStates /\ pc' \in Steps \cup {"idle"} /\ rc' \in Version
                   /\ configMap' \in Configs \cup {NoConfig} /\ newHash' \in Configs \cup {NoConfig}
                   /\ atc' \in [Names -> Run] /\ nextID' \in Nat /\ used' \subseteq Configs \cup {Ref}
                   /\ abandoned' \subseteq Names /\ tampered' \subseteq Names
<1>0. api' \in Version /\ stream' \in Seq(Version) /\ store' \in Version
  BY ApiStep, KubeStepType DEF TypeOK, FrameOK
<1>1. Rest => TypeOK'
  BY <1>0, CountersType DEF TypeOK, FrameOK
<1>2. /\ wq \in QueueStates /\ pc \in Steps \cup {"idle"} /\ rc \in Version /\ store \in Version
      /\ configMap \in Configs \cup {NoConfig} /\ newHash \in Configs \cup {NoConfig}
      /\ atc \in [Names -> Run] /\ nextID \in Nat /\ used \subseteq Configs \cup {Ref}
      /\ abandoned \subseteq Names /\ tampered \subseteq Names
  BY DEF TypeOK, FrameOK
<1>3. CASE CreatePipeline \/ EditPipeline \/ AnnotatePipeline \/ DeletePipelineResource
  <2>1. used' \subseteq Configs \cup {Ref}
    <3>1. api'.spec.config \in Configs \cup {Ref}
      BY <1>0, VersionFields
    <3> QED BY <1>2, <1>3, <3>1, CreateFields, EditFields, AnnotateFields, DeleteFields DEF Uses
  <2> QED BY <1>1, <1>2, <1>3, <2>1, CreateFields, EditFields, AnnotateFields, DeleteFields
<1>4. CASE ConfigMapChanges \/ ChainChanges \/ InformerReceives \/ DelayExpires \/ UNCHANGED vars
  <2>1. wq' \in QueueStates
    BY <1>2, <1>4 DEF ConfigMapChanges, ChainChanges, Elsewhere, InformerReceives, Receive, DelayExpires,
                      Expire, worker, vars, QueueStates
  <2> QED BY <1>1, <1>2, <1>4, <2>1, ElsewhereFields
<1>5. ASSUME NEW n \in Names, FlyDestroys(n) PROVE TypeOK'
  BY <1>1, <1>2, <1>5, FlyFields
<1>6. CASE Begin
  BY <1>1, <1>2, <1>6, BeginFields, NoPipelineType DEF Steps
<1>7. CASE Destroy
  BY <1>1, <1>2, <1>7, DestroyFields DEF Steps
<1>8. CASE Resolve
  BY <1>1, <1>2, <1>8, ResolveFields DEF Steps
<1>9. CASE Apply
  <2>1. atc' \in [Names -> Run] /\ nextID' \in Nat /\ tampered' \subseteq Names
    BY <1>2, <1>9, ApplyFields, SetConfigFields
  <2> QED BY <1>1, <1>2, <1>9, <2>1, ApplyFields DEF Steps
<1>10. CASE SyncFlags
  BY <1>1, <1>2, <1>10, FlagsFields DEF Steps
<1>11. CASE Fetch
  BY <1>1, <1>2, <1>11, FetchFields DEF Steps
<1>12. CASE AddFinalizer
  BY <1>0, <1>1, <1>2, <1>12, FinalizeFields, NoPipelineType DEF Steps
<1>13. CASE RemoveFinalizer
  BY <1>1, <1>2, <1>13, UnfinalizeFields, NoPipelineType DEF Steps
<1>14. CASE UpdateStatus \/ Report
  BY <1>1, <1>2, <1>14, StatusFields, NoPipelineType DEF Steps
<1>15. CASE CrashRestart
  BY <1>1, <1>2, <1>15, RestartFields, NoPipelineType DEF Steps
<1> QED
  BY <1>3, <1>4, <1>5, <1>6, <1>7, <1>8, <1>9, <1>10, <1>11, <1>12, <1>13, <1>14, <1>15
     DEF Next, User, Working, SyncFlags

(* Every state PipelineReconciler can be in is well-formed. *)
THEOREM TypeCorrect == Spec => []TypeOK
BY TypeInit, TypeNext, PTL DEF Spec
-----------------------------------------------------------------------------
(* The informer, and the copy a reconcile works on. *)

OrderInv == Ordered(api, stream, store)

WayIn == {"resolve", "apply", "paused", "exposed", "fetch", "update", "report"}
WayOut == {"destroy", "unfinalize"}

(* The copy a reconcile works on is the current Pipeline if it has its
   resourceVersion, apart from the status the reconcile has computed; and it is
   one to apply or one to remove, as the step says. *)
CopyInv ==
  pc # "idle" =>
    /\ rc.rv <= api.rv
    /\ rc.rv = api.rv =>
         rc.state = api.state /\ rc.spec = api.spec /\ rc.gen = api.gen /\ rc.finalizer = api.finalizer
    /\ pc \in WayIn => Live(rc) /\ rc.finalizer
    /\ pc = "finalize" => Live(rc) /\ ~rc.finalizer
    /\ pc \in WayOut => ~Live(rc) /\ rc.rv <= store.rv

(* The informer follows the API server in order from the start. *)
LEMMA OrderInit == Init => OrderInv /\ CopyInv
BY DEF Init, FrameInit, OrderInv, Ordered, CopyInv

(* No step of the system upsets that order, and the informer's store never goes
   back. *)
LEMMA OrderNext ==
  ASSUME TypeOK, OrderInv, [Next]_vars
  PROVE  /\ OrderInv' /\ (store'.rv >= store.rv)
         /\ Seen(api', stream', store') \subseteq Seen(api, stream, store) \cup {api'}
<1>1. \A v \in Version : v.rv \in Nat
  BY VersionFields
<1>2. api \in Version /\ stream \in Seq(Version) /\ store \in Version /\ api' \in Version
      /\ KubeStep(api, stream, store, api', stream', store')
  BY ApiStep DEF TypeOK, FrameOK
<1>3. OrderInv'
  BY <1>1, <1>2, OrderedStep DEF OrderInv
<1>4. Seen(api', stream', store') \subseteq Seen(api, stream, store) \cup {api'}
  BY <1>2, SeenStep
<1>5. store' \in Version /\ (store' = store \/ store' \in Seen(api, stream, store))
  <2>1. store' \in Seen(api', stream', store') /\ api \in Seen(api, stream, store)
    BY DEF Seen
  <2>2. store' = store \/ api' = api
    BY <1>2 DEF KubeStep
  <2> QED BY <1>2, <1>4, <2>1, <2>2, KubeStepType
<1>6. store'.rv >= store.rv
  <2>1. \A x \in Seen(api, stream, store) : store.rv <= x.rv
    BY <1>1, <1>2, OrderedSeen DEF OrderInv
  <2> QED BY <1>1, <1>2, <1>5, <2>1
<1> QED BY <1>3, <1>4, <1>6

(* A store that has the current resourceVersion is all that can be read. *)
LEMMA UpToDate ==
  ASSUME TypeOK, OrderInv
  PROVE  /\ store.rv <= api.rv
         /\ store.rv = api.rv => store = api /\ Seen(api, stream, store) = {api}
<1>1. \A v \in Version : v.rv \in Nat
  BY VersionFields
<1>2. api \in Version /\ stream \in Seq(Version) /\ store \in Version
  BY DEF TypeOK, FrameOK
<1>3. \A x \in Seen(api, stream, store) : x.rv <= api.rv /\ (x.rv = api.rv => x = api) /\ store.rv <= x.rv
  BY <1>1, <1>2, OrderedSeen DEF OrderInv
<1>4. store \in Seen(api, stream, store) /\ api \in Seen(api, stream, store)
      /\ Seen(api, stream, store) \subseteq Version
  BY <1>2, SeenType DEF Seen
<1>5. ASSUME store.rv = api.rv, NEW x \in Seen(api, stream, store) PROVE x = api
  BY <1>1, <1>2, <1>3, <1>4, <1>5
<1> QED BY <1>3, <1>4, <1>5

(* The copy stays the current Pipeline until something else is written. *)
LEMMA CopyNext == TypeOK /\ OrderInv /\ CopyInv /\ [Next]_vars => CopyInv'
<1> SUFFICES ASSUME TypeOK, OrderInv, CopyInv, [Next]_vars PROVE CopyInv'
  OBVIOUS
<1>0. api \in Version /\ rc \in Version /\ store \in Version /\ store' \in Version
      /\ \A v \in Version : v.rv \in Nat
  BY TypeNext, VersionFields DEF TypeOK, FrameOK
<1>1. store'.rv >= store.rv
  BY OrderNext
<1>2. ASSUME pc' = "idle" PROVE CopyInv'
  BY <1>2 DEF CopyInv
<1>3. ASSUME UNCHANGED <<pc, rc>>, api' = api \/ api'.rv = api.rv + 1 PROVE CopyInv'
  BY <1>0, <1>1, <1>3 DEF CopyInv, Live
<1>4. CASE CreatePipeline \/ EditPipeline \/ AnnotatePipeline \/ DeletePipelineResource
  BY <1>3, <1>4, CreateFields, EditFields, AnnotateFields, DeleteFields
<1>5. CASE ConfigMapChanges \/ ChainChanges \/ InformerReceives \/ DelayExpires \/ UNCHANGED vars
  BY <1>3, <1>5, ElsewhereFields
<1>6. CASE \E n \in Names : FlyDestroys(n)
  BY <1>3, <1>6, FlyFields
<1>7. CASE Begin
  <2>1. store.rv <= api.rv /\ (store.rv = api.rv => store = api)
    BY UpToDate
  <2> QED BY <1>0, <1>7, <2>1, BeginFields DEF CopyInv, WayIn, WayOut, Live
<1>8. CASE Destroy
  BY <1>8, DestroyFields DEF CopyInv, WayIn, WayOut, Live
<1>9. CASE Resolve
  BY <1>9, ResolveFields DEF CopyInv, WayIn, WayOut, Live
<1>10. CASE Apply
  BY <1>10, ApplyFields DEF CopyInv, WayIn, WayOut, Live
<1>11. CASE SyncFlags \/ Fetch
  BY <1>11, FlagsFields, FetchFields DEF CopyInv, WayIn, WayOut, Live
<1>12. CASE AddFinalizer
  <2>1. CASE rc' = api' /\ pc' = "resolve" /\ api'.state = rc.state /\ api'.finalizer /\ pc = "finalize"
    <3>1. api' \in Version /\ api'.rv <= api'.rv
      BY <1>0, ApiStep
    <3> QED BY <2>1, <3>1 DEF CopyInv, WayIn, WayOut, Live
  <2> QED BY <1>2, <1>12, <2>1, FinalizeFields
<1>13. CASE RemoveFinalizer \/ UpdateStatus \/ Report \/ CrashRestart
  BY <1>2, <1>13, UnfinalizeFields, StatusFields, RestartFields
<1> QED BY <1>4, <1>5, <1>6, <1>7, <1>8, <1>9, <1>10, <1>11, <1>12, <1>13 DEF Next, User, Working, SyncFlags
-----------------------------------------------------------------------------
(* Nothing is left behind. *)

(* The pipeline n is one that the Pipeline a answers for, or one of those given up. *)
Kept(a, given, n) == n \in given \/ (Exists(a) /\ a.finalizer /\ a.spec.name = n)

(* A version that has the controller create a pipeline. *)
Armed(x) == Live(x) /\ x.finalizer

(* Every pipeline there is, and every pipeline that a version still on its way to the
   controller or a reconcile in progress can bring about, is kept: so there is
   none but those given up once the finalizer may be removed. *)
KeptInv ==
  /\ \A x \in Seen(api, stream, store) : Armed(x) => Kept(api, abandoned, x.spec.name)
  /\ pc \in WayIn => Kept(api, abandoned, rc.spec.name)
  /\ \A n \in Names : atc[n] # NoRun => Kept(api, abandoned, n)
  /\ pc = "unfinalize" /\ rc.rv = api.rv => \A n \in Names : atc[n] = NoRun \/ n \in abandoned

(* At the start there is neither Pipeline nor pipeline. *)
LEMMA KeptInit == Init => KeptInv
<1> SUFFICES ASSUME Init PROVE KeptInv
  OBVIOUS
<1>1. Seen(api, stream, store) = {NoPipeline} /\ ~Live(NoPipeline)
  BY NoPipelineType DEF Init, FrameInit, Seen, Live, Exists
<1>2. pc = "idle" /\ \A n \in Names : atc[n] = NoRun
  BY DEF Init, FrameInit
<1> QED BY <1>1, <1>2 DEF KeptInv, Armed, WayIn

(* A pipeline is kept from before it is created until it is destroyed or given up. *)
LEMMA KeptNext == TypeOK /\ OrderInv /\ CopyInv /\ KeptInv /\ [Next]_vars => KeptInv'
<1> SUFFICES ASSUME TypeOK, OrderInv, CopyInv, KeptInv, [Next]_vars PROVE KeptInv'
  OBVIOUS
<1>0. /\ api \in Version /\ rc \in Version /\ \A v \in Version : v.rv \in Nat
      /\ Seen(api', stream', store') \subseteq Seen(api, stream, store) \cup {api'}
      /\ api \in Seen(api, stream, store)
  BY OrderNext, VersionFields DEF TypeOK, FrameOK, Seen
<1>1. ASSUME \A n \in Names : Kept(api, abandoned, n) => Kept(api', abandoned', n),
             Armed(api') => Kept(api', abandoned', api'.spec.name)
      PROVE  /\ \A x \in Seen(api', stream', store') : Armed(x) => Kept(api', abandoned', x.spec.name)
             /\ pc \in WayIn => Kept(api', abandoned', rc.spec.name)
             /\ \A n \in Names : atc[n] # NoRun => Kept(api', abandoned', n)
  <2>1. \A x \in Seen(api, stream, store) : x.spec.name \in Names
    BY SeenType, VersionFields DEF TypeOK, FrameOK
  <2>2. rc.spec.name \in Names
    BY <1>0, VersionFields
  <2> QED BY <1>0, <1>1, <2>1, <2>2 DEF KeptInv
<1>2. ASSUME UNCHANGED <<api, abandoned>>
      PROVE  /\ \A x \in Seen(api', stream', store') : Armed(x) => Kept(api', abandoned', x.spec.name)
             /\ pc \in WayIn => Kept(api', abandoned', rc.spec.name)
             /\ \A n \in Names : atc[n] # NoRun => Kept(api', abandoned', n)
  BY <1>0, <1>1, <1>2 DEF KeptInv
<1>3. CASE CreatePipeline
  <2>1. \A n \in Names : Kept(api, abandoned, n) => Kept(api', abandoned', n)
    BY <1>3, CreateFields DEF Kept
  <2>2. ~Armed(api') /\ (pc # "idle" => rc.rv # api'.rv)
    BY <1>0, <1>3, CreateFields DEF Armed, CopyInv
  <2> QED BY <1>1, <1>3, <2>1, <2>2, CreateFields DEF KeptInv
<1>4. CASE EditPipeline
  <2>1. \A n \in Names : Kept(api, abandoned, n) => Kept(api', abandoned', n)
    BY <1>4, EditFields DEF Kept, Exists, Live
  <2>2. Armed(api') => Kept(api', abandoned', api'.spec.name)
    BY DEF Armed, Kept, Live, Exists
  <2>3. pc # "idle" => rc.rv # api'.rv
    BY <1>0, <1>4, EditFields DEF CopyInv
  <2> QED BY <1>1, <1>4, <2>1, <2>2, <2>3, EditFields DEF KeptInv
<1>4a. CASE AnnotatePipeline
  <2>1. \A n \in Names : Kept(api, abandoned, n) => Kept(api', abandoned', n)
    BY <1>4a, AnnotateFields DEF Kept, Exists
  <2>2. Armed(api') => Kept(api', abandoned', api'.spec.name)
    BY DEF Armed, Kept, Live, Exists
  <2>3. pc # "idle" => rc.rv # api'.rv
    BY <1>0, <1>4a, AnnotateFields DEF CopyInv
  <2> QED BY <1>1, <1>4a, <2>1, <2>2, <2>3, AnnotateFields DEF KeptInv
<1>5. CASE DeletePipelineResource
  <2>1. \A n \in Names : Kept(api, abandoned, n) => Kept(api', abandoned', n)
    BY <1>5, DeleteFields DEF Kept
  <2>2. ~Armed(api') /\ (pc # "idle" => rc.rv # api'.rv)
    BY <1>0, <1>5, DeleteFields DEF Armed, CopyInv
  <2> QED BY <1>1, <1>5, <2>1, <2>2, DeleteFields DEF KeptInv
<1>6. CASE ConfigMapChanges \/ ChainChanges \/ InformerReceives \/ DelayExpires \/ UNCHANGED vars
  BY <1>2, <1>6, ElsewhereFields DEF KeptInv
<1>7. ASSUME NEW n \in Names, FlyDestroys(n) PROVE KeptInv'
  <2>1. \A m \in Names : atc'[m] # NoRun => atc[m] # NoRun
    BY <1>7, FlyFields
  <2> QED BY <1>2, <1>7, <2>1, FlyFields DEF KeptInv
<1>8. CASE Begin
  <2>1. pc' \in WayIn => Kept(api, abandoned, rc'.spec.name)
    BY <1>8, BeginFields DEF KeptInv, Seen, Armed, WayIn
  <2> QED BY <1>2, <1>8, <2>1, BeginFields DEF KeptInv
<1>9. CASE Destroy
  <2>1. \A n \in Names : Kept(api, abandoned, n) => Kept(api', abandoned', n)
    BY <1>9, DestroyFields DEF Kept
  <2>2. Armed(api') => Kept(api', abandoned', api'.spec.name)
    BY DEF Armed, Kept, Live, Exists
  <2>3. \A n \in Names : atc'[n] # NoRun => atc[n] # NoRun
    BY <1>9, DestroyFields
  <2>4. ASSUME rc.rv = api.rv, NEW n \in Names PROVE atc'[n] = NoRun \/ n \in abandoned'
    <3>1. rc.spec = api.spec
      BY <1>9, <2>4, DestroyFields DEF CopyInv
    <3>2. atc'[n] # NoRun => n \in abandoned' \/ n = pipelineName
      BY <1>9, <2>3, <3>1, DestroyFields DEF KeptInv, Kept, pipelineName
    <3> QED BY <1>9, <3>2, DestroyFields
  <2> QED BY <1>1, <1>9, <2>1, <2>2, <2>3, <2>4, DestroyFields DEF KeptInv, WayIn
<1>10. CASE Resolve
  BY <1>2, <1>10, ResolveFields DEF KeptInv, WayIn
<1>11. CASE Apply
  <2>1. Kept(api, abandoned, pipelineName)
    BY <1>11, ApplyFields DEF KeptInv, WayIn, pipelineName
  <2>2. \A n \in Names : atc'[n] # NoRun => atc[n] # NoRun \/ n = pipelineName
    <3>1. newHash \in Configs \cup {NoConfig}
      BY DEF TypeOK
    <3> QED BY <1>11, <3>1, ApplyFields, SetConfigFields
  <2>3. \A n \in Names : atc'[n] # NoRun => Kept(api, abandoned, n)
    BY <2>1, <2>2 DEF KeptInv
  <2> QED BY <1>2, <1>11, <2>1, <2>3, ApplyFields DEF KeptInv, WayIn, pipelineName
<1>12. CASE AddFinalizer
  <2>1. CASE UNCHANGED api /\ pc' = "idle"
    BY <1>2, <1>12, <2>1, FinalizeFields DEF KeptInv, WayIn
  <2>2. CASE /\ Exists(api) /\ rc.rv = api.rv /\ api'.state = rc.state /\ api'.finalizer
             /\ api'.spec = rc.spec
    <3>1. rc.state = api.state /\ rc.spec = api.spec /\ Exists(api')
      BY <1>12, <2>2, FinalizeFields DEF CopyInv, Exists
    <3>2. \A n \in Names : Kept(api, abandoned, n) => Kept(api', abandoned', n)
      BY <1>12, <2>2, <3>1, FinalizeFields DEF Kept
    <3>3. Kept(api', abandoned', api'.spec.name)
      BY <2>2, <3>1 DEF Kept
    <3>4. pc' \in WayIn => rc' = api'
      BY <1>12, FinalizeFields DEF WayIn
    <3> QED BY <1>1, <1>12, <3>2, <3>3, <3>4, FinalizeFields DEF KeptInv
  <2> QED BY <1>12, <2>1, <2>2, FinalizeFields
<1>13. CASE RemoveFinalizer
  <2>1. CASE UNCHANGED api
    BY <1>2, <1>13, <2>1, UnfinalizeFields DEF KeptInv, WayIn
  <2>2. CASE rc.rv = api.rv /\ ~Exists(api')
    <3>1. \A n \in Names : atc[n] = NoRun \/ n \in abandoned
      BY <1>13, <2>2, UnfinalizeFields DEF KeptInv
    <3>2. ~Live(rc) /\ rc.state = api.state /\ rc.rv <= store.rv
      BY <1>13, <2>2, UnfinalizeFields DEF CopyInv, WayOut
    <3>3. store.rv = api.rv
      BY <1>0, <2>2, <3>2, UpToDate, VersionFields DEF TypeOK, FrameOK
    <3>4. Seen(api, stream, store) = {api}
      BY <3>3, UpToDate
    <3>5. \A x \in Seen(api', stream', store') : ~Armed(x)
      BY <1>0, <2>2, <3>2, <3>4 DEF Armed, Live, Exists
    <3> QED BY <1>13, <3>1, <3>5, UnfinalizeFields DEF KeptInv, Kept, WayIn
  <2> QED BY <1>13, <2>1, <2>2, UnfinalizeFields
<1>14. CASE UpdateStatus \/ Report
  <2>1. CASE UNCHANGED api
    BY <1>2, <1>14, <2>1, StatusFields DEF KeptInv, WayIn
  <2>2. CASE /\ Exists(api) /\ rc.rv = api.rv /\ api'.state = rc.state /\ api'.finalizer = rc.finalizer
             /\ api'.spec = rc.spec
    <3>1. api'.state = api.state /\ api'.spec = api.spec /\ api'.finalizer = api.finalizer
      BY <1>14, <2>2, StatusFields DEF CopyInv
    <3>2. \A n \in Names : Kept(api, abandoned, n) => Kept(api', abandoned', n)
      BY <1>14, <3>1, StatusFields DEF Kept, Exists
    <3>3. Armed(api') => Kept(api', abandoned', api'.spec.name)
      BY DEF Armed, Kept, Live, Exists
    <3> QED BY <1>1, <1>14, <3>2, <3>3, StatusFields DEF KeptInv, WayIn
  <2> QED BY <1>14, <2>1, <2>2, StatusFields
<1>15. CASE CrashRestart
  BY <1>2, <1>15, RestartFields DEF KeptInv, WayIn
<1>16. CASE SyncFlags \/ Fetch
  BY <1>2, <1>16, FlagsFields, FetchFields DEF KeptInv, WayIn
<1> QED
  BY <1>3, <1>4, <1>4a, <1>5, <1>6, <1>7, <1>8, <1>9, <1>10, <1>11, <1>12, <1>13, <1>14, <1>15, <1>16
     DEF Next, User, Working, SyncFlags

(* The finalizer is there before a pipeline is created, and nothing creates it again
   once the finalizer is removed: no pipeline outlives its Pipeline but those given up. *)
THEOREM NothingLeftCorrect == Spec => []NothingElseLeftBehind
<1> DEFINE Inv == TypeOK /\ OrderInv /\ CopyInv /\ KeptInv
<1>1. Inv => NothingElseLeftBehind
  BY DEF KeptInv, Kept, NothingElseLeftBehind
<1>2. Init => Inv
  BY TypeInit, OrderInit, KeptInit
<1>3. Inv /\ [Next]_vars => Inv'
  BY TypeNext, OrderNext, CopyNext, KeptNext
<1> QED BY <1>1, <1>2, <1>3, PTL DEF Spec
-----------------------------------------------------------------------------
(* A Pipeline that is Ready at its current generation has its configuration in
   Concourse. *)

(* What the theorem needs of the users: they do not go back to a configuration
   they had before, and a Pipeline that is renamed gets another configuration. *)
ForwardOnly ==
  /\ ~Reverts
  /\ \A s, t \in Specs : s.config = t.config /\ s.config # Ref => s.name = t.name

(* A reconcile of x would apply what one of a would. *)
Same(x, a) == Live(x) /\ x.spec = a.spec

(* Whatever has been recorded or is about to be, and whatever a version that can
   be read asks for, is in use: a configuration that comes into use is new to
   all of them. *)
UsedInv ==
  /\ \A x \in Seen(api, stream, store) :
       x.hash \in used \cup {NoConfig} /\ (Exists(x) => x.spec.config \in used)
  /\ rc.hash \in used \cup {NoConfig} /\ newHash \in used \cup {NoConfig}
  /\ configMap \in used \cup {NoConfig}
  /\ pc # "idle" => rc.spec.config \in used

(* No version claims a generation that is still to come; a reconcile past the
   application has recorded the configuration of its spec; and while it holds the
   current version, every version that can be read would apply the same. *)
ReadInv ==
  /\ \A x \in Seen(api, stream, store) : x.observed <= x.gen
  /\ rc.observed <= rc.gen
  /\ pc = "report" => rc.ready # "Ready"
  /\ pc = "finalize" /\ rc.rv = api.rv => rc = api
  /\ pc = "apply" /\ rc.spec.config # Ref => newHash = rc.spec.config
  /\ pc \in {"paused", "exposed", "fetch", "update"} /\ rc.spec.config # Ref => rc.hash = rc.spec.config
  /\ pc \in WayIn \cup {"finalize"} /\ rc.rv = api.rv => \A x \in Seen(api, stream, store) : Same(x, api)

(* The recorded hash is that of the configuration x has inline. *)
Settled(x) == Live(x) /\ x.spec.config # Ref /\ x.hash = x.spec.config

(* The status says that the current spec is in Concourse. *)
Fresh(x) == Live(x) /\ x.ready = "Ready" /\ x.observed = x.gen

(* Among the pipelines of Concourse, the one spec names has its configuration,
   unless others have destroyed it. *)
Has(runs, gone, spec) == spec.name \in gone \/ runs[spec.name].config = spec.config

(* A reconcile of x sets the configuration that a has. *)
Agrees(x, a) == Live(x) /\ x.spec.config = a.spec.config

(* A hash is recorded for the configuration it is recorded with only once the
   configuration is in Concourse, and then nothing that can still be read, and no
   reconcile in progress, sets another one. *)
SyncInv ==
  /\ Settled(api) => /\ \A x \in Seen(api, stream, store) : Agrees(x, api)
                     /\ pc # "idle" => Agrees(rc, api)
                     /\ Has(atc, tampered, api.spec)
  /\ pc \in WayIn \cup {"finalize"} /\ rc.rv = api.rv /\ Settled(rc) => Has(atc, tampered, rc.spec)
  /\ Fresh(api) /\ api.spec.config # Ref => Settled(api)

(* At the start nothing is recorded. *)
LEMMA SyncInit == Init => UsedInv /\ ReadInv /\ SyncInv
<1> SUFFICES ASSUME Init PROVE UsedInv /\ ReadInv /\ SyncInv
  OBVIOUS
<1>1. Seen(api, stream, store) = {NoPipeline} /\ ~Live(NoPipeline) /\ api = NoPipeline /\ rc = NoPipeline
      /\ pc = "idle" /\ newHash = NoConfig /\ configMap = NoConfig
  BY NoPipelineType DEF Init, FrameInit, Seen, Live, Exists
<1>2. UsedInv
  BY <1>1, NoPipelineType DEF UsedInv
<1>3. ReadInv
  BY <1>1, NoPipelineType DEF ReadInv, WayIn
<1> QED BY <1>1, <1>2, <1>3 DEF SyncInv, Settled, Fresh, WayIn

(* What is recorded was in use. *)
LEMMA UsedNext == TypeOK /\ OrderInv /\ UsedInv /\ [Next]_vars => UsedInv'
<1> SUFFICES ASSUME TypeOK, OrderInv, UsedInv, [Next]_vars PROVE UsedInv'
  OBVIOUS
<1>0. /\ Seen(api', stream', store') \subseteq Seen(api, stream, store) \cup {api'}
      /\ api \in Seen(api, stream, store) /\ store \in Seen(api, stream, store)
      /\ store.hash \in used \cup {NoConfig} /\ (Exists(store) => store.spec.config \in used)
      /\ api.hash \in used \cup {NoConfig} /\ (Exists(api) => api.spec.config \in used)
  BY OrderNext DEF Seen, UsedInv
<1>1. ASSUME used \subseteq used', api' = api \/ (api'.hash \in used' \cup {NoConfig} /\ (Exists(api') => api'.spec.config \in used'))
      PROVE  \A x \in Seen(api', stream', store') :
               x.hash \in used' \cup {NoConfig} /\ (Exists(x) => x.spec.config \in used')
  BY <1>0, <1>1 DEF UsedInv
<1>2. CASE CreatePipeline
  BY <1>1, <1>2, CreateFields DEF UsedInv
<1>3. CASE EditPipeline
  <2>1. used \subseteq used' /\ api'.hash \in used' \cup {NoConfig} /\ api'.spec.config \in used'
    BY <1>0, <1>3, EditFields DEF Uses, Live, Exists
  <2> QED BY <1>1, <1>3, <2>1, EditFields DEF UsedInv
<1>3a. CASE AnnotatePipeline
  <2>1. used \subseteq used' /\ api'.hash \in used' \cup {NoConfig} /\ api'.spec.config \in used'
    BY <1>0, <1>3a, AnnotateFields
  <2> QED BY <1>1, <1>3a, <2>1, AnnotateFields DEF UsedInv
<1>4. CASE DeletePipelineResource
  <2>1. used \subseteq used' /\ api'.hash \in used' \cup {NoConfig} /\ api'.spec.config \in used'
    BY <1>0, <1>4, DeleteFields DEF Live, Exists
  <2> QED BY <1>1, <1>4, <2>1, DeleteFields DEF UsedInv
<1>5. CASE ConfigMapChanges \/ ChainChanges \/ InformerReceives \/ DelayExpires \/ UNCHANGED vars
  <2>1. used \subseteq used' /\ configMap' \in used' \cup {NoConfig}
    BY <1>5, ElsewhereFields DEF UsedInv
  <2> QED BY <1>1, <1>5, <2>1, ElsewhereFields DEF UsedInv
<1>6. ASSUME NEW n \in Names, FlyDestroys(n) PROVE UsedInv'
  BY <1>1, <1>6, FlyFields DEF UsedInv
<1>7. CASE Begin
  BY <1>0, <1>1, <1>7, BeginFields, NoPipelineType DEF UsedInv, Live, Exists
<1>8. CASE Destroy
  BY <1>1, <1>8, DestroyFields DEF UsedInv
<1>9. CASE Resolve
  <2>1. loadPipelineConfig(rc.spec) \in used \cup {NoConfig}
    BY <1>9, ResolveFields DEF UsedInv, loadPipelineConfig
  <2> QED BY <1>1, <1>9, <2>1, ResolveFields DEF UsedInv
<1>10. CASE Apply
  BY <1>1, <1>10, ApplyFields DEF UsedInv
<1>11. CASE SyncFlags \/ Fetch
  BY <1>1, <1>11, FlagsFields, FetchFields DEF UsedInv
<1>12. CASE AddFinalizer
  BY <1>1, <1>12, FinalizeFields, NoPipelineType DEF UsedInv
<1>13. CASE RemoveFinalizer
  BY <1>1, <1>13, UnfinalizeFields, NoPipelineType DEF UsedInv
<1>14. CASE UpdateStatus \/ Report
  BY <1>1, <1>14, StatusFields, NoPipelineType DEF UsedInv
<1>15. CASE CrashRestart
  BY <1>1, <1>15, RestartFields, NoPipelineType DEF UsedInv
<1> QED
  BY <1>2, <1>3, <1>3a, <1>4, <1>5, <1>6, <1>7, <1>8, <1>9, <1>10, <1>11, <1>12, <1>13, <1>14, <1>15
     DEF Next, User, Working, SyncFlags

(* Edits end the reconcile's hold on the current version. *)
LEMMA ReadNext == TypeOK /\ OrderInv /\ CopyInv /\ ReadInv /\ [Next]_vars => ReadInv'
<1> SUFFICES ASSUME TypeOK, OrderInv, CopyInv, ReadInv, [Next]_vars PROVE ReadInv'
  OBVIOUS
<1>0. /\ api \in Version /\ rc \in Version /\ \A v \in Version : v.rv \in Nat /\ v.gen \in Nat /\ v.observed \in Nat
      /\ Seen(api', stream', store') \subseteq Seen(api, stream, store) \cup {api'}
      /\ api \in Seen(api, stream, store) /\ store \in Seen(api, stream, store)
  BY OrderNext, VersionFields DEF TypeOK, FrameOK, Seen
<1>1. ASSUME api'.observed <= api'.gen, api'.rv = api.rv + 1, UNCHANGED <<pc, rc, newHash>>
      PROVE  ReadInv'
  <2>1. pc # "idle" => rc.rv # api'.rv
    BY <1>0, <1>1 DEF CopyInv
  <2>2. \A x \in Seen(api', stream', store') : x.observed <= x.gen
    BY <1>0, <1>1 DEF ReadInv
  <2> QED BY <1>1, <2>1, <2>2 DEF ReadInv, WayIn
<1>2. ASSUME UNCHANGED api
      PROVE  Seen(api', stream', store') \subseteq Seen(api, stream, store)
  BY <1>0, <1>2
<1>3. api.observed <= api.gen /\ NoPipeline.observed <= NoPipeline.gen
  BY <1>0, NoPipelineType DEF ReadInv
<1>4. CASE CreatePipeline
  BY <1>1, <1>4, CreateFields
<1>5. CASE EditPipeline
  <2>1. api'.observed <= api'.gen
    BY <1>0, <1>3, <1>5, EditFields
  <2> QED BY <1>1, <1>5, <2>1, EditFields
<1>6. CASE AnnotatePipeline \/ DeletePipelineResource
  BY <1>1, <1>3, <1>6, AnnotateFields, DeleteFields
<1>7. CASE ConfigMapChanges \/ ChainChanges \/ InformerReceives \/ DelayExpires \/ UNCHANGED vars
  BY <1>2, <1>7, ElsewhereFields DEF ReadInv
<1>8. ASSUME NEW n \in Names, FlyDestroys(n) PROVE ReadInv'
  BY <1>2, <1>8, FlyFields DEF ReadInv
<1>9. CASE Begin
  <2>1. CASE pc' = "idle" /\ rc' = NoPipeline
    BY <1>2, <1>3, <1>9, <2>1, BeginFields DEF ReadInv, WayIn
  <2>2. CASE rc' = store /\ pc' \in {"destroy", "resolve", "finalize"} /\ (pc' # "destroy" => Live(store))
    <3>1. pc' # "destroy" /\ store.rv = api.rv => rc' = api /\ \A x \in Seen(api, stream, store) : Same(x, api)
      BY <2>2, UpToDate DEF Same
    <3> QED BY <1>0, <1>2, <1>9, <2>2, <3>1, BeginFields DEF ReadInv, WayIn
  <2> QED BY <1>9, <2>1, <2>2, BeginFields
<1>10. CASE Destroy
  BY <1>2, <1>10, DestroyFields DEF ReadInv, WayIn
<1>11. CASE Resolve
  <2>1. rc.spec.config # Ref => loadPipelineConfig(rc.spec) = rc.spec.config
    BY DEF loadPipelineConfig
  <2> QED BY <1>2, <1>11, <2>1, ResolveFields DEF ReadInv, WayIn
<1>12. CASE Apply
  BY <1>2, <1>12, ApplyFields DEF ReadInv, WayIn
<1>13. CASE SyncFlags
  BY <1>2, <1>13, FlagsFields DEF ReadInv, WayIn
<1>14. CASE Fetch
  <2>1. rc'.observed <= rc'.gen
    BY <1>0, <1>14, FetchFields
  <2> QED BY <1>2, <1>14, <2>1, FetchFields DEF ReadInv, WayIn
<1>15. CASE AddFinalizer
  <2>1. CASE UNCHANGED api /\ pc' = "idle" /\ rc' = NoPipeline
    BY <1>2, <1>3, <2>1 DEF ReadInv, WayIn
  <2>2. CASE /\ rc.rv = api.rv /\ api'.state = rc.state /\ api'.spec = rc.spec
             /\ api'.gen = rc.gen /\ api'.observed = rc.observed
             /\ (rc' = api' /\ pc' = "resolve") \/ (pc' = "idle" /\ rc' = NoPipeline)
    <3>1. rc = api /\ \A x \in Seen(api, stream, store) : Same(x, api)
      BY <1>15, <2>2, FinalizeFields DEF ReadInv
    <3>2. \A x \in Seen(api', stream', store') : Same(x, api') /\ x.observed <= x.gen
      BY <1>0, <2>2, <3>1 DEF ReadInv, Same, Live
    <3>3. api'.observed <= api'.gen
      BY <1>3, <2>2, <3>1
    <3> QED BY <1>3, <2>2, <3>2, <3>3 DEF ReadInv, WayIn
  <2> QED BY <1>15, <2>1, <2>2, FinalizeFields
<1>16. CASE RemoveFinalizer
  <2>1. CASE UNCHANGED api
    BY <1>2, <1>3, <1>16, <2>1, UnfinalizeFields DEF ReadInv, WayIn
  <2>2. CASE api'.observed = rc.observed /\ api'.gen = rc.gen
    <3>1. \A x \in Seen(api', stream', store') : x.observed <= x.gen
      BY <1>0, <2>2 DEF ReadInv
    <3> QED BY <1>3, <1>16, <3>1, UnfinalizeFields DEF ReadInv, WayIn
  <2> QED BY <1>16, <2>1, <2>2, UnfinalizeFields
<1>17. CASE UpdateStatus \/ Report
  <2>1. CASE UNCHANGED api
    BY <1>2, <1>3, <1>17, <2>1, StatusFields DEF ReadInv, WayIn
  <2>2. CASE api'.gen = rc.gen /\ api'.observed = rc.observed
    <3>1. \A x \in Seen(api', stream', store') : x.observed <= x.gen
      BY <1>0, <2>2 DEF ReadInv
    <3> QED BY <1>3, <1>17, <3>1, StatusFields DEF ReadInv, WayIn
  <2> QED BY <1>17, <2>1, <2>2, StatusFields
<1>18. CASE CrashRestart
  BY <1>2, <1>3, <1>18, RestartFields DEF ReadInv, WayIn
<1> QED
  BY <1>4, <1>5, <1>6, <1>7, <1>8, <1>9, <1>10, <1>11, <1>12, <1>13, <1>14, <1>15, <1>16, <1>17, <1>18
     DEF Next, User, Working, SyncFlags

(* A configuration that comes into use settles nothing: no hash of it has been
   recorded. *)
LEMMA NewIsUnsettled ==
  ASSUME TypeOK, UsedInv, ~Reverts, NEW x \in Version, x.hash = api.hash, Uses(x.spec.config)
  PROVE  ~Settled(x)
<1>1. x.spec.config \notin used /\ api.hash \in used \cup {NoConfig}
  BY DEF Uses, UsedInv, Seen
<1>2. x.spec.config # NoConfig
  BY VersionFields, ConfigsAssumption DEF NoConfig, Ref
<1> QED BY <1>1, <1>2 DEF Settled

(* Once a configuration is recorded as applied, it stays in Concourse until the
   spec changes. *)
LEMMA SyncNext ==
  ASSUME ForwardOnly
  PROVE  TypeOK /\ OrderInv /\ CopyInv /\ UsedInv /\ ReadInv /\ SyncInv /\ [Next]_vars => SyncInv'
<1> SUFFICES ASSUME TypeOK, OrderInv, CopyInv, UsedInv, ReadInv, SyncInv, [Next]_vars PROVE SyncInv'
  OBVIOUS
<1>0. /\ api \in Version /\ rc \in Version /\ \A v \in Version : v.rv \in Nat /\ v.gen \in Nat /\ v.observed \in Nat
      /\ Seen(api', stream', store') \subseteq Seen(api, stream, store) \cup {api'}
      /\ api \in Seen(api, stream, store) /\ store \in Seen(api, stream, store)
      /\ api.spec.name \in Names /\ rc.spec.name \in Names
  BY OrderNext, VersionFields DEF TypeOK, FrameOK, Seen
<1>1. ASSUME ~Settled(api'), ~Fresh(api') \/ api'.spec.config = Ref,
             api'.rv = api.rv + 1, UNCHANGED <<pc, rc>>
      PROVE  SyncInv'
  <2>1. pc # "idle" => rc.rv # api'.rv
    BY <1>0, <1>1 DEF CopyInv
  <2> QED BY <1>1, <2>1 DEF SyncInv, WayIn
<1>2. ASSUME UNCHANGED <<api, atc, tampered>>, pc' = "idle" PROVE SyncInv'
  BY <1>0, <1>2 DEF SyncInv, WayIn
<1>3. ASSUME UNCHANGED <<api, pc, rc, atc, tampered>> PROVE SyncInv'
  BY <1>0, <1>3 DEF SyncInv
<1>4. api.observed <= api.gen
  BY <1>0 DEF ReadInv
<1>5. CASE CreatePipeline
  <2>1. api' \in Version /\ api'.spec.config # NoConfig
    BY <1>5, CreateFields, VersionFields, ConfigsAssumption DEF NoConfig, Ref
  <2> QED BY <1>1, <1>5, <2>1, CreateFields DEF Settled, Fresh
<1>6. CASE EditPipeline
  <2>1. ~Fresh(api')
    BY <1>0, <1>4, <1>6, EditFields DEF Fresh
  <2>2. CASE Uses(api'.spec.config)
    <3>1. ~Settled(api')
      BY <1>6, <2>2, EditFields, NewIsUnsettled DEF ForwardOnly
    <3> QED BY <1>1, <1>6, <2>1, <3>1, EditFields
  <2>3. CASE api'.spec.config = api.spec.config
    <3>1. Settled(api') => Settled(api) /\ api'.spec.name = api.spec.name
      <4>1. api'.spec \in Specs /\ api.spec \in Specs
        BY <1>0, <1>6, EditFields, VersionFields
      <4> QED BY <1>6, <2>3, <4>1, EditFields DEF Settled, Live, ForwardOnly
    <3>2. pc # "idle" => rc.rv # api'.rv
      BY <1>0, <1>6, EditFields DEF CopyInv
    <3>3. Agrees(api', api')
      BY <1>6, EditFields DEF Agrees, Live
    <3>4. \A x : Agrees(x, api) => Agrees(x, api')
      BY <2>3 DEF Agrees
    <3>5. Settled(api') => Has(atc, tampered, api'.spec)
      BY <2>3, <3>1 DEF SyncInv, Has
    <3> QED BY <1>0, <1>6, <2>1, <3>1, <3>2, <3>3, <3>4, <3>5, EditFields DEF SyncInv, WayIn
  <2> QED BY <1>6, <2>2, <2>3, EditFields
<1>6a. CASE AnnotatePipeline
  <2>1. (Settled(api') <=> Settled(api)) /\ (Fresh(api') <=> Fresh(api))
    BY <1>6a, AnnotateFields DEF Settled, Fresh, Live
  <2>2. \A x : Agrees(x, api) => Agrees(x, api')
    BY <1>6a, AnnotateFields DEF Agrees
  <2>3. Settled(api') => Agrees(api', api')
    BY DEF Settled, Agrees
  <2>4. pc # "idle" => rc.rv # api'.rv
    BY <1>0, <1>6a, AnnotateFields DEF CopyInv
  <2> QED BY <1>0, <1>6a, <2>1, <2>2, <2>3, <2>4, AnnotateFields DEF SyncInv, WayIn
<1>7. CASE DeletePipelineResource
  BY <1>1, <1>7, DeleteFields DEF Settled, Fresh
<1>8. CASE ConfigMapChanges \/ ChainChanges \/ InformerReceives \/ DelayExpires \/ UNCHANGED vars
  BY <1>3, <1>8, ElsewhereFields
<1>9. ASSUME NEW n \in Names, FlyDestroys(n) PROVE SyncInv'
  <2>1. \A spec : spec.name \in Names /\ Has(atc, tampered, spec) => Has(atc', tampered', spec)
    BY <1>9, FlyFields DEF Has
  <2> QED BY <1>0, <1>9, <2>1, FlyFields DEF SyncInv
<1>10. CASE Begin
  <2>1. CASE pc' = "idle"
    BY <1>2, <1>10, <2>1, BeginFields
  <2>2. CASE rc' = store
    <3>1. store.rv = api.rv => store = api
      BY UpToDate
    <3> QED BY <1>0, <1>10, <2>2, <3>1, BeginFields DEF SyncInv, WayIn
  <2> QED BY <1>10, <2>1, <2>2, BeginFields
<1>11. CASE Destroy
  <2>1. ~Settled(api)
    BY <1>11, DestroyFields DEF CopyInv, SyncInv, Agrees, WayOut
  <2> QED BY <1>11, <2>1, DestroyFields DEF SyncInv, WayIn
<1>12. CASE Resolve
  <2>1. (Settled(rc') => Settled(rc)) /\ (Agrees(rc, api) => Agrees(rc', api))
    BY <1>12, ResolveFields DEF Settled, Agrees, Live
  <2> QED BY <1>0, <1>12, <2>1, ResolveFields DEF SyncInv, WayIn
<1>13. CASE Apply
  <2>0. newHash \in Configs \cup {NoConfig} /\ Live(rc)
    BY <1>13, ApplyFields DEF TypeOK, CopyInv, WayIn
  <2>1. Agrees(rc, api) => Agrees(rc', api)
    BY <1>13, ApplyFields DEF Agrees, Live
  <2>2. CASE SetConfig(pipelineName, newHash)
    <3>1. rc.spec.config # Ref => Has(atc', tampered', rc.spec)
      BY <1>13, <2>0, <2>2, ApplyFields, SetConfigFields DEF ReadInv, Has, pipelineName
    <3>2. Settled(api) => Has(atc', tampered', api.spec)
      <4>1. Settled(api) => rc.spec.config = api.spec.config /\ rc.spec.config # Ref
        BY <1>13, ApplyFields DEF SyncInv, Agrees, Settled
      <4>2. Settled(api) => rc.spec.name = api.spec.name
        BY <1>0, <4>1, VersionFields DEF ForwardOnly
      <4> QED BY <3>1, <4>1, <4>2 DEF Has
    <3> QED BY <1>0, <1>13, <2>1, <3>1, <3>2, ApplyFields DEF SyncInv, WayIn, Settled
  <2>3. CASE pc' = "report" /\ UNCHANGED <<atc, nextID, tampered>>
    <3>1. Settled(rc') => Settled(rc)
      BY <1>13, <2>3, ApplyFields DEF Settled, Live
    <3> QED BY <1>0, <1>13, <2>1, <2>3, <3>1, ApplyFields DEF SyncInv, WayIn
  <2> QED BY <1>13, <2>2, <2>3, ApplyFields
<1>14. CASE SyncFlags \/ Fetch
  <2>1. \A spec : spec.name \in Names /\ Has(atc, tampered, spec) => Has(atc', tampered', spec)
    BY <1>14, FlagsFields, FetchFields DEF Has
  <2>2. (Settled(rc') => Settled(rc)) /\ (Agrees(rc, api) => Agrees(rc', api))
    BY <1>14, FlagsFields, FetchFields DEF Settled, Agrees, Live
  <2> QED BY <1>0, <1>14, <2>1, <2>2, FlagsFields, FetchFields DEF SyncInv, WayIn
<1>15. CASE AddFinalizer
  <2>1. CASE UNCHANGED api /\ pc' = "idle"
    BY <1>2, <1>15, <2>1, FinalizeFields
  <2>2. CASE /\ rc.rv = api.rv /\ api'.state = rc.state /\ api'.spec = rc.spec /\ api'.hash = rc.hash
             /\ api'.gen = rc.gen /\ api'.observed = rc.observed /\ api'.ready = rc.ready
             /\ (rc' = api' /\ pc' = "resolve") \/ (pc' = "idle" /\ rc' = NoPipeline)
    <3>1. rc = api
      BY <1>15, <2>2, FinalizeFields DEF ReadInv
    <3>2. (Settled(api') <=> Settled(api)) /\ (Fresh(api') <=> Fresh(api)) /\ api'.spec = api.spec
      BY <2>2, <3>1 DEF Settled, Fresh, Live
    <3>3. Settled(api') => Agrees(api', api')
      BY DEF Settled, Agrees
    <3>4. \A x : Agrees(x, api) => Agrees(x, api')
      BY <3>2 DEF Agrees
    <3> QED BY <1>0, <1>15, <2>2, <3>2, <3>3, <3>4, FinalizeFields DEF SyncInv, WayIn
  <2> QED BY <1>15, <2>1, <2>2, FinalizeFields
<1>16. CASE RemoveFinalizer
  <2>1. CASE UNCHANGED api
    BY <1>2, <1>16, <2>1, UnfinalizeFields
  <2>2. CASE ~Exists(api')
    BY <1>16, <2>2, UnfinalizeFields DEF SyncInv, WayIn, Settled, Fresh, Live, Exists
  <2> QED BY <1>16, <2>1, <2>2, UnfinalizeFields
<1>17. CASE UpdateStatus \/ Report
  <2>1. CASE UNCHANGED api
    BY <1>2, <1>17, <2>1, StatusFields
  <2>2. CASE /\ rc.rv = api.rv /\ api'.state = rc.state /\ api'.spec = rc.spec /\ api'.hash = rc.hash
             /\ api'.ready = rc.ready
    <3>1. rc.spec = api.spec /\ pc \in {"update", "report"} /\ \A x \in Seen(api, stream, store) : Same(x, api)
      BY <1>17, <2>2, StatusFields DEF ReadInv, CopyInv, WayIn
    <3>2. (Settled(api') <=> Settled(rc)) /\ Live(api')
      BY <1>17, <2>2, StatusFields DEF Settled, CopyInv, WayIn, Live
    <3>3. \A x \in Seen(api', stream', store') : Agrees(x, api')
      BY <1>0, <2>2, <3>1, <3>2 DEF Same, Agrees
    <3>4. Settled(api') => Has(atc', tampered', api'.spec)
      BY <1>17, <2>2, <3>1, <3>2, StatusFields DEF SyncInv, WayIn
    <3>5. Fresh(api') /\ api'.spec.config # Ref => Settled(api')
      BY <1>17, <2>2, <3>2, StatusFields DEF ReadInv, Fresh, Settled
    <3> QED BY <1>17, <3>3, <3>4, <3>5, StatusFields DEF SyncInv, WayIn
  <2> QED BY <1>17, <2>1, <2>2, StatusFields
<1>18. CASE CrashRestart
  BY <1>2, <1>18, RestartFields
<1> QED
  BY <1>5, <1>6, <1>6a, <1>7, <1>8, <1>9, <1>10, <1>11, <1>12, <1>13, <1>14, <1>15, <1>16, <1>17, <1>18
     DEF Next, User, Working, SyncFlags

(* "Ready: Reconciliation succeeded; resource is in sync with Concourse" is true of
   a Pipeline with its configuration inline, through conflicts, lost answers, stale
   reads and crashes, for users who never go back to a configuration and do not
   rename without changing it: what the recorded hash is compared with is enough
   for them. *)
THEOREM InSyncCorrect ==
  ASSUME ForwardOnly
  PROVE  Spec => []InSyncWhenReady
<1> DEFINE Inv == TypeOK /\ OrderInv /\ CopyInv /\ UsedInv /\ ReadInv /\ SyncInv
<1>1. Inv => InSyncWhenReady
  BY DEF SyncInv, Fresh, Has, InSyncWhenReady
<1>2. Init => Inv
  BY TypeInit, OrderInit, SyncInit
<1>3. Inv /\ [Next]_vars => Inv'
  BY TypeNext, OrderNext, CopyNext, UsedNext, ReadNext, SyncNext
<1> QED BY <1>1, <1>2, <1>3, PTL DEF Spec
=============================================================================
