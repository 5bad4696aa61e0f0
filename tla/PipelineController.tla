------------------------- MODULE PipelineController -------------------------
(***************************************************************************)
(* PipelineReconciler (src/internal/controller/pipeline_controller.go): a  *)
(* Pipeline resource sets the configuration of a pipeline of Concourse and *)
(* its flags, and destroys the pipeline when the resource is deleted.      *)
(*                                                                         *)
(* A configuration stands for its SHA-256 hash as well.  What reads of     *)
(* informers find besides the Pipeline (the ConfigMap, the Team and its    *)
(* Instance) is modelled as the informers have it.                         *)
(***************************************************************************)
EXTENDS Naturals, Sequences

CONSTANTS
  Names,       \* names of pipelines in Concourse
  Configs,     \* pipeline configurations
  Specs,       \* the specs users write
  ChainStates, \* whether the Team and the Instance may be ready (subset of BOOLEAN)
  Reverts,     \* whether users go back to a configuration they had before
  MaxEdits, MaxFaults, MaxCrashes

NoConfig == "no config"
Ref == "configMapRef"
Flags == {"paused", "exposed"}

ASSUME ConfigsAssumption == NoConfig \notin Configs /\ Ref \notin Configs
ASSUME SpecsAssumption ==
  Specs # {} /\ Specs \subseteq [name: Names, config: Configs \cup {Ref}, flags: SUBSET Flags]
ASSUME ChainAssumption == ChainStates # {} /\ ChainStates \subseteq BOOLEAN
ASSUME RevertsAssumption == Reverts \in BOOLEAN
ASSUME BoundsAssumption == MaxEdits \in Nat /\ MaxFaults \in Nat /\ MaxCrashes \in Nat

VARIABLES
  api, stream, store, wq, pc, rc, edits, faults, crashes,  \* see Reconciler
  configMap, chain,    \* the other resources the Pipeline depends on
  atc, nextID,         \* Concourse: its pipelines by name, the next ID
  newHash,             \* hash of what loadPipelineConfig returned to the worker
  used,                \* history: configurations, and the reference, in use so far
  abandoned,           \* history: pipelines not to be destroyed any more
  tampered             \* history: pipelines destroyed by others since they were set

(* hash, id and flags are of the status; ready and synced are the reasons of
   the conditions Ready and ConfigSynced. *)
NewPipeline(rv, spec) ==
  [state |-> "live", rv |-> rv, finalizer |-> FALSE, gen |-> 1, spec |-> spec,
   observed |-> 0, hash |-> NoConfig, id |-> 0, flags |-> {}, ready |-> "none",
   synced |-> "none"]

NoPipeline == [NewPipeline(0, CHOOSE s \in Specs : TRUE) EXCEPT !.state = "gone"]

INSTANCE Reconciler WITH NoObject <- NoPipeline

deps == <<configMap, chain>>
hist == <<used, abandoned, tampered>>
concourse == <<atc, nextID>>
vars == <<api, stream, store, wq, pc, rc, edits, faults, crashes,
          configMap, chain, atc, nextID, newHash, used, abandoned, tampered>>
-----------------------------------------------------------------------------
Version ==
  [state: States, rv: Nat, finalizer: BOOLEAN, gen: Nat, spec: Specs, observed: Nat,
   hash: Configs \cup {NoConfig}, id: Nat, flags: SUBSET Flags,
   ready: {"none", "TeamNotReady", "ConfigLoadFailed", "SetPipelineFailed", "Ready"},
   synced: {"none", "SetPipelineFailed", "Synced"}]

(* A pipeline of Concourse; ID 0 says there is none of that name. *)
Run == [id: Nat, config: Configs \cup {NoConfig}, flags: SUBSET Flags]
NoRun == [id |-> 0, config |-> NoConfig, flags |-> {}]

Steps == {"destroy", "unfinalize", "finalize", "resolve", "apply", "paused", "exposed",
          "fetch", "update", "report"}

TypeOK ==
  /\ FrameOK(Version, Steps)
  /\ configMap \in Configs \cup {NoConfig} /\ chain \in ChainStates
  /\ atc \in [Names -> Run] /\ nextID \in Nat /\ newHash \in Configs \cup {NoConfig}
  /\ used \subseteq Configs \cup {Ref} /\ abandoned \subseteq Names /\ tampered \subseteq Names

Init ==
  /\ FrameInit
  /\ configMap = NoConfig /\ chain \in ChainStates
  /\ atc = [n \in Names |-> NoRun] /\ nextID = 1 /\ newHash = NoConfig
  /\ used = {} /\ abandoned = {} /\ tampered = {}
-----------------------------------------------------------------------------
(* Users, others, and the informer. *)

(* The configuration, or the reference, c comes into use. *)
Uses(c) == /\ Reverts \/ c \notin used
           /\ used' = used \cup {c}

CreatePipeline ==
  /\ ~Exists(api)
  /\ \E spec \in Specs : Submit(NewPipeline(api.rv + 1, spec)) /\ Uses(spec.config)
  /\ UNCHANGED <<deps, concourse, newHash, abandoned, tampered>>

EditPipeline ==
  /\ Live(api)
  /\ \E spec \in Specs \ {api.spec} :
       /\ Submit(Respecified(spec))
       /\ IF spec.config = api.spec.config THEN UNCHANGED used ELSE Uses(spec.config)
       /\ abandoned' = IF spec.name = api.spec.name THEN abandoned ELSE abandoned \cup {api.spec.name}
  /\ UNCHANGED <<deps, concourse, newHash, tampered>>

AnnotatePipeline == Annotate /\ UNCHANGED <<deps, concourse, newHash, hist>>

DeletePipelineResource ==
  /\ Live(api)
  /\ Submit(NextVersion([api EXCEPT !.state = IF api.finalizer THEN "deleting" ELSE "gone"]))
  /\ UNCHANGED <<deps, concourse, newHash, hist>>

(* Nothing is enqueued: the controller does not watch ConfigMaps, Teams or
   Instances. *)
ConfigMapChanges ==
  /\ Elsewhere
  /\ \E s \in Specs : s.config = Ref
  /\ \E c \in Configs \ {configMap} : configMap' = c /\ Uses(c)
  /\ UNCHANGED <<chain, concourse, newHash, abandoned, tampered>>

ChainChanges ==
  /\ Elsewhere
  /\ \E c \in ChainStates \ {chain} : chain' = c
  /\ UNCHANGED <<configMap, hist, concourse, newHash>>

FlyDestroys(n) ==
  /\ Elsewhere /\ atc[n] # NoRun
  /\ atc' = [atc EXCEPT ![n] = NoRun] /\ tampered' = tampered \cup {n}
  /\ UNCHANGED <<deps, nextID, newHash, used, abandoned>>

InformerReceives == Receive /\ UNCHANGED <<deps, concourse, newHash, hist>>

DelayExpires == Expire /\ UNCHANGED <<deps, concourse, newHash, hist>>
-----------------------------------------------------------------------------
(* Reconcile, call by call. *)

FirstCall(obj) ==
  IF ~Exists(obj) \/ (~Live(obj) /\ ~obj.finalizer) THEN "idle"
  ELSE IF ~Live(obj) THEN "destroy"
  ELSE IF obj.finalizer THEN "resolve" ELSE "finalize"

Begin == Take(FirstCall(store), store) /\ UNCHANGED <<deps, concourse, newHash, hist>>

pipelineName == rc.spec.name

(* Mutant: only a pipeline whose ID is known is destroyed. *)
DestroyIfRecorded ==
  /\ Call("destroy", "unfinalize")
  /\ atc' = IF chain /\ rc.id # 0 THEN [atc EXCEPT ![pipelineName] = NoRun] ELSE atc
  /\ UNCHANGED <<rc, faults, deps, nextID, newHash, hist>>

DeletePipeline(n) == atc' = [atc EXCEPT ![n] = NoRun]

(* deletePipeline.  A chain that is not ready and a failed call, which may have
   been carried out, are logged and do not keep the finalizer. *)
Destroy ==
  /\ Call("destroy", "unfinalize")
  /\ \/ chain /\ DeletePipeline(pipelineName) /\ UNCHANGED <<faults, abandoned>>
     \/ /\ \/ ~chain /\ UNCHANGED <<faults, atc>>
           \/ chain /\ Fault /\ (DeletePipeline(pipelineName) \/ UNCHANGED atc)
        /\ abandoned' = abandoned \cup {pipelineName}
  /\ UNCHANGED <<rc, deps, nextID, newHash, used, tampered>>

RemoveFinalizer == Unfinalize /\ UNCHANGED <<deps, concourse, newHash, hist>>

AddFinalizer == Finalize("resolve") /\ UNCHANGED <<deps, concourse, newHash, hist>>

(* Mutant: a reference to a ConfigMap is not followed. *)
LoadReferenceItself(spec) == spec.config

loadPipelineConfig(spec) == IF spec.config = Ref THEN configMap ELSE spec.config

(* The chain and the configuration are looked up; unless the configuration is
   the recorded one, it is applied next. *)
Resolve ==
  LET config == loadPipelineConfig(rc.spec)
  IN  /\ \/ /\ ~chain /\ Call("resolve", "report")
            /\ rc' = [rc EXCEPT !.ready = "TeamNotReady"] /\ UNCHANGED newHash
         \/ /\ chain /\ config = NoConfig /\ Call("resolve", "report")
            /\ rc' = [rc EXCEPT !.ready = "ConfigLoadFailed"] /\ UNCHANGED newHash
         \/ /\ chain /\ config # NoConfig /\ (rc.hash # config \/ rc.id = 0)
            /\ Call("resolve", "apply") /\ newHash' = config /\ UNCHANGED rc
         \/ /\ chain /\ config # NoConfig /\ rc.hash = config /\ rc.id # 0
            /\ Call("resolve", "paused") /\ UNCHANGED <<rc, newHash>>
      /\ UNCHANGED <<faults, deps, concourse, hist>>

(* What Concourse does: a pipeline is created paused. *)
SetConfig(n, config) ==
  /\ IF atc[n] = NoRun
     THEN /\ atc' = [atc EXCEPT ![n] = [id |-> nextID, config |-> config, flags |-> {"paused"}]]
          /\ nextID' = nextID + 1
     ELSE atc' = [atc EXCEPT ![n].config = config] /\ UNCHANGED nextID
  /\ tampered' = tampered \ {n}

(* Mutant: the hash is recorded although the call failed. *)
ApplyRecordsTheAttempt ==
  /\ \/ /\ Call("apply", "paused") /\ SetConfig(pipelineName, newHash)
        /\ rc' = [rc EXCEPT !.synced = "Synced", !.hash = newHash]
        /\ UNCHANGED faults
     \/ /\ Call("apply", "report") /\ Fault /\ UNCHANGED <<concourse, tampered>>
        /\ rc' = [rc EXCEPT !.synced = "SetPipelineFailed", !.hash = newHash,
                            !.ready = "SetPipelineFailed"]
  /\ newHash' = NoConfig /\ UNCHANGED <<deps, used, abandoned>>

(* CreateOrUpdatePipelineConfig.  A failed call may have been carried out. *)
Apply ==
  /\ \/ /\ Call("apply", "paused") /\ SetConfig(pipelineName, newHash)
        /\ rc' = [rc EXCEPT !.synced = "Synced", !.hash = newHash]
        /\ UNCHANGED faults
     \/ /\ Call("apply", "report") /\ Fault
        /\ SetConfig(pipelineName, newHash) \/ UNCHANGED <<concourse, tampered>>
        /\ rc' = [rc EXCEPT !.synced = "SetPipelineFailed", !.ready = "SetPipelineFailed"]
  /\ newHash' = NoConfig /\ UNCHANGED <<deps, used, abandoned>>

(* The flag f as the spec has it, else as it is in flags. *)
Synced(f, flags) == IF f \in rc.spec.flags THEN flags \cup {f} ELSE flags \ {f}

SetFlag(f) == atc' = IF atc[pipelineName] = NoRun THEN atc ELSE [atc EXCEPT ![pipelineName].flags = Synced(f, @)]

(* Pause or unpause, then expose or hide.  An error is logged; a pipeline that
   does not exist is not an error. *)
SyncFlag(f, next) ==
  /\ Call(f, next)
  /\ \/ SetFlag(f) /\ rc' = [rc EXCEPT !.flags = Synced(f, @)] /\ UNCHANGED faults
     \/ Fault /\ (SetFlag(f) \/ UNCHANGED atc) /\ UNCHANGED rc
  /\ UNCHANGED <<deps, nextID, newHash, hist>>

(* The ID of the pipeline, if it is found, and the rest of the status. *)
Fetch ==
  /\ Call("fetch", "update")
  /\ \E id \in {atc[pipelineName].id, 0} :
       /\ IF id = atc[pipelineName].id THEN UNCHANGED faults ELSE Fault
       /\ rc' = [rc EXCEPT !.id = IF id = 0 THEN @ ELSE id, !.observed = rc.gen, !.ready = "Ready"]
  /\ UNCHANGED <<deps, concourse, newHash, hist>>

UpdateStatus == WriteStatus /\ UNCHANGED <<deps, concourse, newHash, hist>>

Report == ReportNotReady /\ UNCHANGED <<deps, concourse, newHash, hist>>

CrashRestart == Restart /\ newHash' = NoConfig /\ UNCHANGED <<deps, concourse, hist>>
-----------------------------------------------------------------------------
User == \/ CreatePipeline \/ EditPipeline \/ AnnotatePipeline \/ DeletePipelineResource
        \/ ConfigMapChanges \/ ChainChanges \/ \E n \in Names : FlyDestroys(n)

Working == \/ Destroy \/ RemoveFinalizer \/ AddFinalizer \/ Resolve \/ Apply
           \/ SyncFlag("paused", "exposed") \/ SyncFlag("exposed", "fetch")
           \/ Fetch \/ UpdateStatus \/ Report

Next == User \/ InformerReceives \/ DelayExpires \/ Begin \/ Working \/ CrashRestart

Spec == Init /\ [][Next]_vars

(* The process runs; nothing is assumed of users. *)
Fairness == /\ WF_vars(InformerReceives) /\ WF_vars(DelayExpires)
            /\ WF_vars(Begin) /\ WF_vars(Working)

FairSpec == Spec /\ Fairness
-----------------------------------------------------------------------------
(* Correctness. *)

(* "Ready: Reconciliation succeeded; resource is in sync with Concourse", and
   "observedGeneration [distinguishes] stale observations from current ones":
   a Pipeline that is Ready at its current generation has its configuration in
   Concourse, unless others have destroyed the pipeline.  One that refers to a
   ConfigMap follows with a delay. *)
InSyncWhenReady ==
  (Live(api) /\ api.ready = "Ready" /\ api.observed = api.gen)
    => \/ api.spec.config = Ref \/ api.spec.name \in tampered
       \/ atc[api.spec.name].config = api.spec.config

(* Once the Pipeline is gone no pipeline is left in Concourse, whatever
   reconciles its deletion overtakes, except those the code gives up: the
   destruction failed or the chain was not ready, which is logged, or the
   Pipeline was renamed.  The finalizer is there before anything is created,
   and nothing is created once it is removed.  The documentation says the
   opposite: "deleting them removes the Kubernetes object but does not delete the
   corresponding resource from Concourse"
   (docs/getting-started/installation.md:105). *)
NothingElseLeftBehind ==
  ~Exists(api) => \A n \in Names : atc[n] = NoRun \/ n \in abandoned

InSync == LET run == atc[api.spec.name] IN
  /\ run # NoRun /\ run.config = loadPipelineConfig(api.spec)
  /\ run.flags = api.spec.flags /\ api.flags = api.spec.flags
  /\ api.hash = run.config /\ api.id = run.id /\ api.ready = "Ready"

(* Failed calls, lost answers, conflicts and crashes notwithstanding, Concourse
   ends up with the configuration and the flags of the Pipeline, and the status
   says so; for a changed ConfigMap as well, which no event announces.  Only a
   pipeline destroyed by others is not set again before its next change. *)
EventuallyInSync ==
  <>[](/\ Live(api) /\ chain /\ loadPipelineConfig(api.spec) # NoConfig
       /\ api.spec.name \notin tampered)
    => <>[]InSync

(* A deletion is not held up by the finalizer. *)
DeletionCompletes == (api.state = "deleting") ~> ~Exists(api)
=============================================================================
