----------------------- MODULE BuildController_proofs -----------------------
(* Theorems about BuildController, for any number of Builds, any budget of  *)
(* edits, faults and stale reads, and any channel capacity.                 *)
EXTENDS BuildController, SequenceTheorems, TLAPS

(* Type correctness, action by action. *)

(* The Build that was never created is a well-formed version. *)
LEMMA NoBuildType == NoBuild \in Version
BY DEF NoBuild, NewBuild, Version, States, Phases

(* The worker between two reconciles holds a well-formed request. *)
LEMMA NoRequestType == NoRequest \in Request
<1>1. (CHOOSE b \in Builds : TRUE) \in Builds
  BY BuildsAssumption
<1> QED BY <1>1, NoBuildType DEF NoRequest, Request

(* kubectl create yields a well-formed version. *)
LEMMA NewBuildType ==
  ASSUME NEW rv \in Nat, NEW uid \in Nat, NEW spec \in [jobRef: BOOLEAN, abort: BOOLEAN]
  PROVE  NewBuild(rv, uid, spec) \in Version
BY DEF NewBuild, Version, States, Phases

(* The API server's next version differs in nothing but its resourceVersion. *)
LEMMA NextVersionType ==
  ASSUME NEW v \in Version
  PROVE  /\ NextVersion(v) \in Version
         /\ NextVersion(v).rv = v.rv + 1
         /\ NextVersion(v) = [v EXCEPT !.rv = v.rv + 1]
BY DEF NextVersion, Version

(* A status write leaves a well-formed version, the no-op write included. *)
LEMMA WrittenType ==
  ASSUME NEW cur \in Version, NEW obj \in Version
  PROVE  Written(cur, obj) \in Version
BY NextVersionType DEF Written

(* Publishing a version to the watch stream keeps the stream one of versions. *)
LEMMA PublishedType ==
  ASSUME NEW s \in Seq(Version), NEW cur \in Version, NEW new \in Version
  PROVE  Published(s, cur, new) \in Seq(Version)
BY DEF Published

(* Every write to the API server keeps the types of what it changes. *)
LEMMA ReplaceType ==
  ASSUME TypeOK, NEW b \in Builds, NEW obj \in Version, Replace(b, obj)
  PROVE  api' \in [Builds -> Version] /\ stream' \in [Builds -> Seq(Version)]
<1>1. Published(stream[b], api[b], obj) \in Seq(Version)
  BY PublishedType DEF TypeOK
<1> QED BY <1>1 DEF TypeOK, Replace

(* A reconcile that returns leaves the worker well-formed. *)
LEMMA IdleType == ASSUME Idle PROVE pc' \in Steps /\ rc' \in Request
BY NoRequestType DEF Idle, Steps

(* Every way Reconcile returns leaves worker and work queue well-formed. *)
LEMMA RequeueType ==
  ASSUME TypeOK, RequeueAfter \/ Done \/ ReturnError
  PROVE  pc' \in Steps /\ rc' \in Request /\ wq' \in [Builds -> QueueStates]
BY IdleType DEF TypeOK, RequeueAfter, Done, ReturnError, QueueStates, AddAfter

(* The freshly started manager, with no Build yet, is in a well-typed state. *)
THEOREM TypeInit == Init => TypeOK
BY NoBuildType, NoRequestType, ChanCapAssumption, BoundsAssumption
   DEF Init, TypeOK, QueueStates, Steps

(* The fields of a version, so that proofs need not expand it. *)
LEMMA VersionFields ==
  ASSUME NEW v \in Version
  PROVE  /\ v.state \in States /\ v.rv \in Nat /\ v.uid \in Nat /\ v.gen \in Nat
         /\ v.spec \in [jobRef: BOOLEAN, abort: BOOLEAN] /\ v.spec.jobRef \in BOOLEAN
         /\ v.buildID \in Nat /\ v.phase \in Phases
BY DEF Version

(* The edits of a spec, a deletion and a condition set by the reconcile keep a
   version well-formed. *)
LEMMA VersionChanges ==
  ASSUME NEW v \in Version
  PROVE  /\ \A spec \in Specs : [v EXCEPT !.gen = v.gen + 1, !.spec = spec] \in Version
         /\ \A state \in States : [v EXCEPT !.state = state] \in Version
         /\ [v EXCEPT !.ready = NotReadyReason(v)] \in Version
<1>1. ASSUME NEW spec \in Specs PROVE [v EXCEPT !.gen = v.gen + 1, !.spec = spec] \in Version
  <2>1. spec \in [jobRef: BOOLEAN, abort: BOOLEAN]
    BY SpecsAssumption
  <2>2. v.gen + 1 \in Nat
    BY VersionFields
  <2> QED BY <2>1, <2>2 DEF Version
<1>2. \A state \in States : [v EXCEPT !.state = state] \in Version
  BY DEF Version
<1>3. [v EXCEPT !.ready = NotReadyReason(v)] \in Version
  BY DEF Version, NotReadyReason
<1> QED BY <1>1, <1>2, <1>3

(* The fields of the worker's request, so that proofs need not expand it. *)
LEMMA RequestFields ==
  ASSUME NEW r \in Request
  PROVE  r.name \in Builds /\ r.obj \in Version /\ r.again \in BOOLEAN
BY DEF Request

(* The named bounds hold for edits, faults and stale reads. *)
LEMMA CountersType ==
  ASSUME TypeOK
  PROVE  /\ Edit => edits' \in 0..MaxEdits
         /\ Fault => faults' \in 0..MaxFaults
         /\ stale < MaxStale => stale + 1 \in 0..MaxStale
BY BoundsAssumption DEF TypeOK, Edit, Fault

(* Every step keeps the types.  That Refresh finds the run it asks cl.Build for
   is part of RequestInv. *)
LEMMA TypeNext == TypeOK /\ RequestInv /\ [Next]_vars => TypeOK'
<1> SUFFICES ASSUME TypeOK, RequestInv, [Next]_vars PROVE TypeOK'
  OBVIOUS
<1> USE DEF kube, concourse, reads, worker, watching
<1>1. ASSUME NEW b \in Builds, CreateBuild(b) PROVE TypeOK'
  <2>1. PICK spec \in Specs : Replace(b, NewBuild(api[b].rv + 1, api[b].uid + 1, spec))
    BY <1>1 DEF CreateBuild
  <2>2. NewBuild(api[b].rv + 1, api[b].uid + 1, spec) \in Version
    <3>1. api[b] \in Version
      BY DEF TypeOK
    <3>2. api[b].rv + 1 \in Nat /\ api[b].uid + 1 \in Nat
      BY <3>1, VersionFields
    <3>3. spec \in [jobRef: BOOLEAN, abort: BOOLEAN]
      BY SpecsAssumption
    <3> QED BY <3>2, <3>3, NewBuildType
  <2>3. api' \in [Builds -> Version] /\ stream' \in [Builds -> Seq(Version)]
    BY <2>1, <2>2, ReplaceType
  <2> QED BY <1>1, <2>3, CountersType DEF CreateBuild, TypeOK
<1>2. ASSUME NEW b \in Builds, EditBuild(b) PROVE TypeOK'
  <2>1. PICK spec \in Specs : Replace(b, NextVersion([api[b] EXCEPT !.gen = api[b].gen + 1, !.spec = spec]))
    BY <1>2 DEF EditBuild
  <2>2. NextVersion([api[b] EXCEPT !.gen = api[b].gen + 1, !.spec = spec]) \in Version
    <3>1. api[b] \in Version
      BY DEF TypeOK
    <3> QED BY <3>1, VersionChanges, NextVersionType
  <2>3. api' \in [Builds -> Version] /\ stream' \in [Builds -> Seq(Version)]
    BY <2>1, <2>2, ReplaceType
  <2> QED BY <1>2, <2>3, CountersType DEF EditBuild, TypeOK
<1>3. ASSUME NEW b \in Builds, DeleteBuild(b) PROVE TypeOK'
  <2>1. PICK state \in {"deleting", "gone"} : Replace(b, NextVersion([api[b] EXCEPT !.state = state]))
    BY <1>3 DEF DeleteBuild
  <2>2. NextVersion([api[b] EXCEPT !.state = state]) \in Version
    <3>1. api[b] \in Version /\ state \in States
      BY DEF TypeOK, States
    <3> QED BY <3>1, VersionChanges, NextVersionType
  <2>3. api' \in [Builds -> Version] /\ stream' \in [Builds -> Seq(Version)]
    BY <2>1, <2>2, ReplaceType
  <2> QED BY <1>3, <2>3, CountersType DEF DeleteBuild, TypeOK
<1>3a. ASSUME NEW b \in Builds, AnnotateBuild(b) PROVE TypeOK'
  <2>1. NextVersion(api[b]) \in Version
    BY NextVersionType DEF TypeOK
  <2>2. api' \in [Builds -> Version] /\ stream' \in [Builds -> Seq(Version)]
    BY <1>3a, <2>1, ReplaceType DEF AnnotateBuild
  <2> QED BY <1>3a, <2>2, CountersType DEF AnnotateBuild, TypeOK
<1>4. CASE ChainChanges
  BY <1>4, CountersType DEF ChainChanges, TypeOK
<1>5. ASSUME NEW b \in Builds, InformerReceives(b) PROVE TypeOK'
  <2>1. Head(stream[b]) \in Version /\ Tail(stream[b]) \in Seq(Version)
    BY <1>5 DEF InformerReceives, TypeOK
  <2> QED BY <1>5, <2>1 DEF InformerReceives, QueueStates, TypeOK
<1>6. ASSUME NEW b \in Builds, Resync(b) \/ DelayExpires(b) PROVE TypeOK'
  BY <1>6 DEF Resync, DelayExpires, QueueStates, TypeOK
<1>7. CASE ChannelSource
  <2>1. Tail(eventCh) \in Seq(Builds) /\ Len(Tail(eventCh)) <= ChanCap
    BY <1>7, ChanCapAssumption DEF ChannelSource, TypeOK
  <2> QED BY <1>7, <2>1 DEF ChannelSource, QueueStates, TypeOK
<1>8. ASSUME NEW b \in Builds, Begin(b) PROVE TypeOK'
  <2>0. store[b] \in Version
    BY DEF TypeOK
  <2>1. pc' \in Steps
    BY <1>8 DEF Begin, FirstCall, Steps
  <2>2. rc' \in Request
    BY <1>8, <2>0, VersionFields, VersionChanges, NoRequestType DEF Begin, Request
  <2>3. wq' \in [Builds -> QueueStates] /\ stale' \in 0..MaxStale /\ dropped' \subseteq Builds
    BY <1>8, CountersType DEF Begin, QueueStates, TypeOK
  <2> QED BY <1>8, <2>1, <2>2, <2>3 DEF Begin, TypeOK
<1>9. ASSUME WriteStatus
      PROVE  api' \in [Builds -> Version] /\ stream' \in [Builds -> Seq(Version)]
  <2>1. rc.name \in Builds /\ rc.obj \in Version /\ api[rc.name] \in Version
    BY RequestFields DEF TypeOK
  <2> QED BY <1>9, <2>1, WrittenType, ReplaceType DEF WriteStatus
<1>10. CASE Report
  <2>1. pc' \in Steps /\ rc' \in Request /\ wq' \in [Builds -> QueueStates]
    BY <1>10, RequeueType DEF Report
  <2>2. api' \in [Builds -> Version] /\ stream' \in [Builds -> Seq(Version)]
    BY <1>9, <1>10 DEF Report, TypeOK
  <2> QED BY <1>10, <2>1, <2>2, CountersType DEF Report, TypeOK
<1>11. CASE Trigger
  <2>0. rc.name \in Builds /\ rc.obj \in Version
    BY RequestFields DEF TypeOK
  <2> DEFINE run == [name |-> rc.name, uid |-> rc.obj.uid, status |-> "pending"]
  <2>1. run \in Run
    BY <2>0, VersionFields DEF Run, Running
  <2>2. atc \in Seq(Run) /\ Append(atc, run) \in Seq(Run) /\ Len(atc) + 1 \in Nat
    BY <2>1 DEF TypeOK
  <2>3. atc' = atc \/ atc' = Append(atc, run)
    BY <1>11 DEF Trigger
  <2>4. ASSUME NEW id \in Nat, rc' = [rc EXCEPT !.obj.buildID = id] PROVE rc' \in Request
    BY <2>0, <2>4 DEF TypeOK, Request, Version
  <2>5. ASSUME rc' = [rc EXCEPT !.obj.ready = "TriggerFailed"] PROVE rc' \in Request
    BY <2>0, <2>5 DEF TypeOK, Request, Version
  <2>6. rc' \in Request
    BY <1>11, <2>2, <2>4, <2>5 DEF Trigger
  <2> QED BY <1>11, <2>2, <2>3, <2>6, CountersType DEF Trigger, Steps, TypeOK
<1>12. CASE AbortBuild
  <2>1. rc.obj.buildID \in Nat
    BY RequestFields, VersionFields DEF TypeOK
  <2> QED BY <1>12, <2>1, CountersType DEF AbortBuild, Steps, TypeOK
<1>13. CASE Refresh
  <2>0. rc.name \in Builds /\ rc.obj \in Version
    BY RequestFields DEF TypeOK
  <2>1. rc.obj.buildID \in 1..Len(atc)
    <3>1. pc = "refresh"
      BY <1>13 DEF Refresh
    <3>2. Truthful(rc.obj, rc.name, atc) /\ rc.obj.buildID # 0
      BY <3>1 DEF RequestInv
    <3> QED BY <3>2 DEF Truthful
  <2>2. atc[rc.obj.buildID].status \in Running \cup Terminal
    <3>1. atc[rc.obj.buildID] \in Run
      BY <2>1 DEF TypeOK
    <3> QED BY <3>1 DEF Run
  <2>3. PICK phase \in Phases :
          rc' = [rc EXCEPT !.obj.phase = phase,
                           !.obj.complete = CompleteReason(phase, rc.obj.buildID),
                           !.obj.observed = rc.obj.gen,
                           !.obj.ready = "Tracked"]
    BY <1>13, <2>0, <2>2, VersionFields DEF Refresh, Phases
  <2>4. CompleteReason(phase, rc.obj.buildID) \in {"none", "Pending", "InProgress"} \cup Terminal
    BY DEF CompleteReason, isTerminal
  <2>5. rc' \in Request
    BY <2>0, <2>3, <2>4 DEF TypeOK, Request, Version
  <2> QED BY <1>13, <2>5, CountersType DEF Refresh, Steps, TypeOK
<1>14. CASE UpdateStatus
  <2>1. pc' \in Steps /\ rc' \in Request /\ wq' \in [Builds -> QueueStates]
    BY <1>14, RequeueType DEF UpdateStatus, Steps, TypeOK
  <2>2. api' \in [Builds -> Version] /\ stream' \in [Builds -> Seq(Version)]
    BY <1>9, <1>14 DEF UpdateStatus, TypeOK
  <2> QED BY <1>14, <2>1, <2>2, CountersType DEF UpdateStatus, TypeOK
<1>15. CASE StartWatcher
  <2>0. rc.name \in Builds /\ rc.obj \in Version /\ rc.obj.buildID \in Nat
    BY RequestFields, VersionFields DEF TypeOK
  <2>1. pc' \in Steps /\ rc' \in Request /\ wq' \in [Builds -> QueueStates]
    BY <1>15, RequeueType DEF StartWatcher
  <2>2. watchers' \subseteq Builds /\ gor' \subseteq Watcher
    BY <1>15, <2>0 DEF StartWatcher, TypeOK, Watcher
  <2> QED BY <1>15, <2>1, <2>2 DEF StartWatcher, TypeOK
<1>16. ASSUME NEW w \in gor, OpenStream(w) \/ StreamEnds(w) \/ Enqueue(w) \/ WatcherExits(w)
       PROVE  TypeOK'
  <2>0. w \in Watcher /\ w.name \in Builds
    BY DEF TypeOK, Watcher
  <2>1. ASSUME NEW step \in {"stream", "send", "exit"}, Move(w, step) PROVE gor' \subseteq Watcher
    BY <2>0, <2>1 DEF Move, TypeOK, Watcher
  <2>2. CASE OpenStream(w) \/ StreamEnds(w)
    BY <2>1, <2>2, CountersType DEF OpenStream, StreamEnds, TypeOK
  <2>3. CASE Enqueue(w)
    <3>1. eventCh' \in Seq(Builds) /\ Len(eventCh') <= ChanCap
      BY <2>0, <2>3, ChanCapAssumption DEF Enqueue, TypeOK
    <3> QED BY <2>1, <2>3, <3>1 DEF Enqueue, TypeOK
  <2>4. CASE WatcherExits(w)
    BY <2>4 DEF WatcherExits, TypeOK
  <2> QED BY <1>16, <2>2, <2>3, <2>4
<1>17. ASSUME NEW id \in 1..Len(atc), BuildProgresses(id) PROVE TypeOK'
  <2>1. PICK s \in Running \cup Terminal : atc' = [atc EXCEPT ![id].status = s]
    BY <1>17, OutcomesAssumption DEF BuildProgresses, Running
  <2>2. atc \in Seq(Run) /\ atc[id] \in Run
    BY DEF TypeOK
  <2>3. [atc[id] EXCEPT !.status = s] \in Run
    BY <2>2 DEF Run
  <2>4. atc' \in Seq(Run)
    BY <2>1, <2>2, <2>3
  <2> QED BY <1>17, <2>4 DEF BuildProgresses, TypeOK
<1>18. CASE CrashRestart
  BY <1>18, IdleType, CountersType, ChanCapAssumption DEF CrashRestart, TypeOK, QueueStates
<1>19. CASE UNCHANGED vars
  BY <1>19 DEF vars, TypeOK
<1> QED
  BY <1>1, <1>2, <1>3, <1>4, <1>5, <1>6, <1>7, <1>8, <1>10, <1>11, <1>12, <1>13, <1>14,
     <1>15, <1>16, <1>17, <1>18, <1>19, <1>3a
     DEF Next, User, Queueing, Reconcile, Watch, Progress
-----------------------------------------------------------------------------
(* The versions of a Build tell the truth and stay in order. *)

(* What may happen to the runs of Concourse in a step. *)
Grow(old, new) ==
  /\ Len(old) <= Len(new)
  /\ \A i \in 1..Len(old) :
       /\ new[i].name = old[i].name /\ new[i].uid = old[i].uid
       /\ Rank(old[i].status) <= Rank(new[i].status)
       /\ isTerminal(old[i].status) => new[i].status = old[i].status

(* The phases of a Concourse build in their order. *)
LEMMA RankValues ==
  /\ Rank("none") = 0 /\ Rank("pending") = 1 /\ Rank("started") = 2
  /\ \A p \in Terminal : Rank(p) = 3
  /\ \A p \in Phases : Rank(p) \in 0..3
BY DEF Rank, Terminal, Phases, Running

(* Concourse forgets no build, gives none to another Build, and never takes back
   a progress or an outcome. *)
LEMMA RunsGrow ==
  ASSUME TypeOK, [Next]_vars
  PROVE  Grow(atc, atc')
<1>0. atc \in Seq(Run) /\ Len(atc) \in Nat /\ \A i \in 1..Len(atc) : atc[i] \in Run
  BY DEF TypeOK
<1>1. \A i \in 1..Len(atc) : Rank(atc[i].status) \in 0..3
  BY <1>0, RankValues DEF Run, Phases
<1>2. CASE UNCHANGED atc
  BY <1>0, <1>1, <1>2 DEF Grow
<1>3. CASE Trigger
  <2>1. PICK run : atc' = atc \/ atc' = Append(atc, run)
    BY <1>3 DEF Trigger
  <2>2. CASE atc' = Append(atc, run)
    <3>1. Len(atc') = Len(atc) + 1 /\ \A i \in 1..Len(atc) : atc'[i] = atc[i]
      BY <1>0, <2>2
    <3> QED BY <1>0, <1>1, <3>1 DEF Grow
  <2> QED BY <1>2, <2>1, <2>2
<1>4. ASSUME NEW id \in 1..Len(atc), BuildProgresses(id) PROVE Grow(atc, atc')
  <2>1. PICK s \in {"started"} \cup Outcomes :
          /\ atc' = [atc EXCEPT ![id].status = s]
          /\ \/ atc[id].status = "pending" /\ s = "started"
             \/ ~isTerminal(atc[id].status) /\ s \in Terminal
    BY <1>4, OutcomesAssumption DEF BuildProgresses, Finished
  <2>2. ~isTerminal(atc[id].status) /\ Rank(atc[id].status) <= Rank(s)
    BY <1>1, <2>1, RankValues DEF isTerminal, Terminal
  <2>3. Len(atc') = Len(atc) /\ atc'[id] = [atc[id] EXCEPT !.status = s]
        /\ \A i \in 1..Len(atc) : i # id => atc'[i] = atc[i]
    BY <1>0, <2>1
  <2>4. atc'[id].name = atc[id].name /\ atc'[id].uid = atc[id].uid /\ atc'[id].status = s
    BY <1>0, <2>3 DEF Run
  <2>5. ASSUME NEW i \in 1..Len(atc), i # id
        PROVE  /\ atc'[i].name = atc[i].name /\ atc'[i].uid = atc[i].uid
               /\ Rank(atc[i].status) <= Rank(atc'[i].status)
               /\ isTerminal(atc[i].status) => atc'[i].status = atc[i].status
    BY <1>1, <2>3, <2>5
  <2>6. Len(atc) <= Len(atc')
    BY <1>0, <2>3
  <2> QED BY <2>2, <2>4, <2>5, <2>6 DEF Grow
<1> QED
  BY <1>2, <1>3, <1>4 DEF Next, User, CreateBuild, EditBuild, AnnotateBuild, DeleteBuild, ChainChanges,
     Queueing, InformerReceives, Resync, DelayExpires, ChannelSource, Reconcile, Begin,
     Report, AbortBuild, Refresh, UpdateStatus, StartWatcher, Watch, OpenStream, StreamEnds,
     Enqueue, WatcherExits, Progress, CrashRestart, vars, concourse

(* What a version says of its run stays true while Concourse moves on. *)
LEMMA TruthStays ==
  ASSUME NEW v \in Version, NEW b \in Builds, NEW old \in Seq(Run), NEW new \in Seq(Run),
         Grow(old, new), Truthful(v, b, old)
  PROVE  Truthful(v, b, new)
<1>1. CASE v.buildID = 0
  BY <1>1 DEF Truthful
<1>2. CASE v.buildID # 0
  <2> DEFINE i == v.buildID
  <2>1. i \in 1..Len(old) /\ Len(old) \in Nat /\ Len(new) \in Nat /\ Len(old) <= Len(new)
    BY <1>2 DEF Truthful, Grow
  <2>2. i \in 1..Len(new) /\ new[i].name = b /\ new[i].uid = v.uid
    BY <1>2, <2>1 DEF Truthful, Grow
  <2>3. Rank(v.phase) <= Rank(new[i].status)
    <3>1. old[i] \in Run /\ new[i] \in Run
      BY <2>1, <2>2
    <3>2. Rank(v.phase) \in 0..3 /\ Rank(old[i].status) \in 0..3 /\ Rank(new[i].status) \in 0..3
      BY <3>1, VersionFields, RankValues DEF Run, Phases
    <3>3. Rank(v.phase) <= Rank(old[i].status) /\ Rank(old[i].status) <= Rank(new[i].status)
      BY <1>2, <2>1 DEF Truthful, Grow
    <3> QED BY <3>2, <3>3
  <2>4. isTerminal(v.phase) => v.phase = new[i].status
    BY <1>2, <2>1 DEF Truthful, Grow
  <2> QED BY <1>2, <2>2, <2>3, <2>4 DEF Truthful
<1> QED BY <1>1, <1>2

(* A version that may follow the current one. *)
Follows(new, cur) == new = cur \/ (new.rv = cur.rv + 1 /\ new.uid >= cur.uid)

(* Steps that write no Build keep every version truthful. *)
LEMMA VersionsUntouched ==
  ASSUME TypeOK, TypeOK', VersionInv, Grow(atc, atc'), UNCHANGED <<api, stream, store>>
  PROVE  VersionInv'
<1>1. \A b \in Builds : api[b] \in Version /\ store[b] \in Version /\ stream[b] \in Seq(Version)
  BY DEF TypeOK
<1>2. atc \in Seq(Run) /\ atc' \in Seq(Run)
  BY DEF TypeOK
<1> SUFFICES ASSUME NEW b \in Builds
             PROVE  /\ Truthful(api[b], b, atc')
                    /\ Truthful(store[b], b, atc')
                    /\ \A i \in 1..Len(stream[b]) : Truthful(stream[b][i], b, atc')
  BY DEF VersionInv
<1>3. Truthful(api[b], b, atc') /\ Truthful(store[b], b, atc')
  BY <1>1, <1>2, TruthStays DEF VersionInv
<1>4. ASSUME NEW i \in 1..Len(stream[b]) PROVE Truthful(stream[b][i], b, atc')
  BY <1>1, <1>2, TruthStays DEF VersionInv
<1> QED BY <1>3, <1>4

(* A write of a truthful next version keeps all versions truthful and ordered. *)
LEMMA ReplaceKeepsVersions ==
  ASSUME TypeOK, VersionInv, UNCHANGED <<store, atc>>,
         NEW c \in Builds, NEW obj \in Version, Replace(c, obj),
         Truthful(obj, c, atc), Follows(obj, api[c])
  PROVE  VersionInv'
<1>1. api[c] \in Version /\ store[c] \in Version /\ stream[c] \in Seq(Version)
  BY DEF TypeOK
<1>2. \A b \in Builds : b # c => api'[b] = api[b] /\ stream'[b] = stream[b] /\ store'[b] = store[b]
  BY DEF Replace, TypeOK
<1>3. api'[c] = obj /\ stream'[c] = Published(stream[c], api[c], obj) /\ store'[c] = store[c]
  BY DEF Replace, TypeOK
<1>4. CASE obj = api[c]
  <2>1. \A b \in Builds : api'[b] = api[b] /\ stream'[b] = stream[b] /\ store'[b] = store[b]
    BY <1>2, <1>3, <1>4 DEF Published
  <2> QED BY <2>1 DEF VersionInv
<1>5. CASE obj # api[c] /\ obj.rv = api[c].rv + 1 /\ obj.uid >= api[c].uid
  <2>1. stream'[c] = Append(stream[c], obj)
    BY <1>3, <1>5 DEF Published
  <2>2. ASSUME NEW v \in Version, Behind(v, api[c]) PROVE Behind(v, obj)
    BY <1>1, <1>5, <2>2, VersionFields DEF Behind
  <2>3. Behind(obj, obj)
    BY VersionFields DEF Behind
  <2>4. /\ stream'[c] # <<>> /\ Len(stream'[c]) = Len(stream[c]) + 1
        /\ stream'[c][Len(stream'[c])] = obj
        /\ \A i \in 1..Len(stream[c]) : stream'[c][i] = stream[c][i] /\ stream[c][i] \in Version
    BY <1>1, <2>1
  <2>5. ASSUME NEW i \in 1..Len(stream'[c])
        PROVE  Truthful(stream'[c][i], c, atc) /\ Behind(stream'[c][i], obj)
    <3>1. CASE i = Len(stream'[c])
      BY <2>3, <2>4, <3>1
    <3>2. CASE i # Len(stream'[c])
      <4>1. i \in 1..Len(stream[c])
        BY <1>1, <2>4, <3>2
      <4> QED BY <2>2, <2>4, <4>1 DEF VersionInv
    <3> QED BY <3>1, <3>2
  <2>6. Truthful(store[c], c, atc) /\ Behind(store[c], obj)
    BY <1>1, <2>2 DEF VersionInv
  <2> QED BY <1>2, <1>3, <2>4, <2>5, <2>6 DEF VersionInv
<1> QED BY <1>4, <1>5 DEF Follows

(* What users do to a version keeps it truthful. *)
LEMMA EditsAreTruthful ==
  ASSUME TypeOK, VersionInv, NEW b \in Builds
  PROVE  /\ \A spec \in Specs :
              LET new == NewBuild(api[b].rv + 1, api[b].uid + 1, spec)
              IN  new \in Version /\ Truthful(new, b, atc) /\ Follows(new, api[b])
         /\ Live(api[b]) => \A spec \in Specs :
              LET new == NextVersion([api[b] EXCEPT !.gen = @ + 1, !.spec = spec])
              IN  new \in Version /\ Truthful(new, b, atc) /\ Follows(new, api[b])
         /\ LET new == NextVersion(api[b])
            IN  new \in Version /\ Truthful(new, b, atc) /\ Follows(new, api[b])
         /\ Exists(api[b]) => \A state \in {"deleting", "gone"} :
              LET new == NextVersion([api[b] EXCEPT !.state = state])
              IN  new \in Version /\ Truthful(new, b, atc) /\ Follows(new, api[b])
<1>1. api[b] \in Version /\ Truthful(api[b], b, atc)
  BY DEF TypeOK, VersionInv
<1>2. api[b].rv \in Nat /\ api[b].uid \in Nat /\ api[b].rv + 1 \in Nat /\ api[b].uid + 1 \in Nat
  BY <1>1, VersionFields
<1>3. ASSUME NEW spec \in Specs
      PROVE  LET new == NewBuild(api[b].rv + 1, api[b].uid + 1, spec)
             IN  new \in Version /\ Truthful(new, b, atc) /\ Follows(new, api[b])
  <2>1. NewBuild(api[b].rv + 1, api[b].uid + 1, spec) \in Version
    BY <1>2, NewBuildType, SpecsAssumption
  <2> QED BY <1>2, <2>1 DEF NewBuild, Truthful, Follows
<1>4. ASSUME NEW new \in Version, new.rv = api[b].rv + 1, new.uid = api[b].uid,
             Exists(new) => Exists(api[b]),
             new.buildID = api[b].buildID, new.phase = api[b].phase
      PROVE  Truthful(new, b, atc) /\ Follows(new, api[b])
  BY <1>1, <1>2, <1>4 DEF Truthful, Follows, Exists
<1>5. ASSUME NEW spec \in Specs, Live(api[b])
      PROVE  LET new == NextVersion([api[b] EXCEPT !.gen = @ + 1, !.spec = spec])
             IN  new \in Version /\ Truthful(new, b, atc) /\ Follows(new, api[b])
  <2> DEFINE mid == [api[b] EXCEPT !.gen = api[b].gen + 1, !.spec = spec]
             new == NextVersion(mid)
  <2>1. mid \in Version /\ new \in Version
    BY <1>1, VersionChanges, NextVersionType
  <2>2. mid.rv = api[b].rv /\ mid.uid = api[b].uid /\ mid.buildID = api[b].buildID
        /\ mid.phase = api[b].phase /\ mid.state = api[b].state
    BY <1>1 DEF Version
  <2>3. new.rv = mid.rv + 1 /\ new.uid = mid.uid /\ new.buildID = mid.buildID
        /\ new.phase = mid.phase /\ new.state = mid.state
    BY <2>1 DEF NextVersion, Version
  <2> HIDE DEF mid, new
  <2>4. Truthful(new, b, atc) /\ Follows(new, api[b])
    BY <1>4, <1>5, <2>1, <2>2, <2>3 DEF Exists, Live
  <2> QED BY <2>1, <2>4 DEF mid, new
<1>6. ASSUME NEW state \in {"deleting", "gone"}, Exists(api[b])
      PROVE  LET new == NextVersion([api[b] EXCEPT !.state = state])
             IN  new \in Version /\ Truthful(new, b, atc) /\ Follows(new, api[b])
  <2> DEFINE mid == [api[b] EXCEPT !.state = state]
             new == NextVersion(mid)
  <2>1. mid \in Version /\ new \in Version
    BY <1>1, VersionChanges, NextVersionType DEF States
  <2>2. mid.rv = api[b].rv /\ mid.uid = api[b].uid /\ mid.buildID = api[b].buildID
        /\ mid.phase = api[b].phase
    BY <1>1 DEF Version
  <2>3. new.rv = mid.rv + 1 /\ new.uid = mid.uid /\ new.buildID = mid.buildID
        /\ new.phase = mid.phase
    BY <2>1 DEF NextVersion, Version
  <2> HIDE DEF mid, new
  <2>4. Truthful(new, b, atc) /\ Follows(new, api[b])
    BY <1>4, <1>6, <2>1, <2>2, <2>3
  <2> QED BY <2>1, <2>4 DEF mid, new
<1>7. LET new == NextVersion(api[b])
      IN  new \in Version /\ Truthful(new, b, atc) /\ Follows(new, api[b])
  <2> DEFINE new == NextVersion(api[b])
  <2>1. new \in Version
    BY <1>1, NextVersionType
  <2>2. new.rv = api[b].rv + 1 /\ new.uid = api[b].uid /\ new.buildID = api[b].buildID
        /\ new.phase = api[b].phase /\ new.state = api[b].state
    BY <1>1 DEF NextVersion, Version
  <2> HIDE DEF new
  <2>3. Truthful(new, b, atc) /\ Follows(new, api[b])
    BY <1>4, <2>1, <2>2 DEF Exists
  <2> QED BY <2>1, <2>3 DEF new
<1> QED BY <1>3, <1>5, <1>6, <1>7

(* What an accepted status write leaves behind. *)
LEMMA StatusWrites ==
  ASSUME TypeOK, RecordInv, pc \in {"report", "update"}, Accepted
  PROVE  LET new == Written(api[rc.name], rc.obj)
         IN  /\ rc.name \in Builds /\ new \in Version
             /\ Truthful(new, rc.name, atc) /\ Follows(new, api[rc.name])
             /\ new.state = "live" /\ new.uid = api[rc.name].uid /\ new.spec = rc.obj.spec
             /\ new.buildID = rc.obj.buildID /\ new.phase = rc.obj.phase
             /\ Agrees(rc.obj, api[rc.name])
             /\ rc.obj.rv <= new.rv
             /\ new.rv # rc.obj.rv => new # api[rc.name]
<1> DEFINE cur == api[rc.name]
           new == Written(cur, rc.obj)
<1>1. rc.name \in Builds /\ rc.obj \in Version /\ cur \in Version
  BY RequestFields DEF TypeOK
<1>2. rc.obj.rv = cur.rv /\ cur.rv \in Nat /\ cur.uid \in Nat
  BY <1>1, VersionFields DEF Accepted, Accepts
<1>3. Live(rc.obj) /\ Truthful(rc.obj, rc.name, atc) /\ Agrees(rc.obj, cur)
  BY <1>2 DEF RecordInv, RequestInv
<1>4. CASE rc.obj = cur
  <2>1. new = cur
    BY <1>4 DEF Written
  <2> QED BY <1>1, <1>2, <1>3, <1>4, <2>1 DEF Follows, Live
<1>5. CASE rc.obj # cur
  <2>1. new = NextVersion(rc.obj)
    BY <1>5 DEF Written
  <2>2. /\ new \in Version /\ new.rv = rc.obj.rv + 1 /\ new.state = rc.obj.state
        /\ new.uid = rc.obj.uid /\ new.spec = rc.obj.spec
        /\ new.buildID = rc.obj.buildID /\ new.phase = rc.obj.phase
    BY <1>1, <2>1 DEF NextVersion, Version
  <2> HIDE DEF new
  <2>3. Truthful(new, rc.name, atc)
    BY <1>3, <2>2 DEF Truthful
  <2>4. new.uid = cur.uid /\ new.rv = cur.rv + 1
    BY <1>2, <1>3, <2>2 DEF Agrees
  <2>5. Follows(new, cur) /\ new # cur /\ rc.obj.rv <= new.rv
    BY <1>1, <1>2, <2>2, <2>4 DEF Follows
  <2> QED BY <1>1, <1>2, <1>3, <2>2, <2>3, <2>4, <2>5 DEF Live, new
<1> QED BY <1>4, <1>5

(* Taking the head off a sequence leaves its last element the last. *)
LEMMA LastOfTail ==
  ASSUME NEW S, NEW s \in Seq(S), s # <<>>
  PROVE  IF Tail(s) = <<>> THEN s[1] = s[Len(s)] ELSE Tail(s)[Len(Tail(s))] = s[Len(s)]
<1>1. Len(s) \in Nat /\ Len(s) > 0
  <2>1. Len(s) \in Nat \ {0}
    BY EmptySeq, Zenon
  <2> QED BY <2>1
<1>2. Len(Tail(s)) = Len(s) - 1 /\ \A i \in 1..(Len(s) - 1) : Tail(s)[i] = s[i + 1]
  OBVIOUS
<1>3. CASE Len(s) = 1
  <2>0. Tail(s) \in Seq(S) /\ Len(Tail(s)) = 0
    BY <1>1, <1>2, <1>3
  <2>1. Tail(s) = <<>>
    <3>1. Tail(s) # <<>> => Len(Tail(s)) \in Nat \ {0}
      BY <2>0, EmptySeq, Zenon
    <3> QED BY <2>0, <3>1
  <2> QED BY <1>3, <2>1
<1>4. CASE Len(s) > 1
  <2>1. Tail(s) # <<>>
    <3>1. Len(Tail(s)) # 0
      BY <1>1, <1>2, <1>4
    <3>2. Len(<<>>) = 0
      BY EmptySeq
    <3> QED BY <3>1, <3>2, Zenon
  <2>2. Tail(s)[Len(s) - 1] = s[Len(s)]
    BY <1>1, <1>2, <1>4
  <2> QED BY <1>2, <2>1, <2>2
<1> QED BY <1>1, <1>3, <1>4

(* Every step keeps all versions truthful and in the order of their
   resourceVersions. *)
LEMMA VersionNext == TypeOK /\ TypeOK' /\ RecordInv /\ [Next]_vars => VersionInv'
<1> SUFFICES ASSUME TypeOK, TypeOK', RecordInv, [Next]_vars PROVE VersionInv'
  OBVIOUS
<1> USE DEF kube, concourse, reads, worker, watching
<1>0. VersionInv /\ Grow(atc, atc')
  BY RunsGrow DEF RecordInv
<1>1. ASSUME NEW b \in Builds, CreateBuild(b) \/ EditBuild(b) \/ AnnotateBuild(b) \/ DeleteBuild(b) PROVE VersionInv'
  <2>1. PICK obj \in Version : Replace(b, obj) /\ Truthful(obj, b, atc) /\ Follows(obj, api[b])
    BY <1>0, <1>1, EditsAreTruthful DEF CreateBuild, EditBuild, AnnotateBuild, DeleteBuild
  <2>2. UNCHANGED <<store, atc>>
    BY <1>1 DEF CreateBuild, EditBuild, AnnotateBuild, DeleteBuild
  <2> QED BY <1>0, <2>1, <2>2, ReplaceKeepsVersions
<1>2. ASSUME NEW c \in Builds, InformerReceives(c) PROVE VersionInv'
  <2>1. stream[c] \in Seq(Version) /\ stream[c] # <<>>
    BY <1>2 DEF InformerReceives, TypeOK
  <2>2. UNCHANGED <<api, atc>>
    BY <1>2 DEF InformerReceives
  <2>3. \A b \in Builds : b # c => stream'[b] = stream[b] /\ store'[b] = store[b]
    BY <1>2 DEF InformerReceives, TypeOK
  <2>4. store'[c] = stream[c][1] /\ stream'[c] = Tail(stream[c])
    BY <1>2, <2>1 DEF InformerReceives, TypeOK
  <2>5. Truthful(store'[c], c, atc) /\ Behind(store'[c], api[c])
    BY <1>0, <2>1, <2>4 DEF VersionInv
  <2>6. ASSUME NEW i \in 1..Len(stream'[c])
        PROVE  Truthful(stream'[c][i], c, atc) /\ Behind(stream'[c][i], api[c])
    <3>1. i + 1 \in 1..Len(stream[c]) /\ stream'[c][i] = stream[c][i + 1]
      BY <2>1, <2>4
    <3> QED BY <1>0, <3>1 DEF VersionInv
  <2>7. IF stream'[c] = <<>> THEN store'[c] = api[c] ELSE stream'[c][Len(stream'[c])] = api[c]
    <3>1. stream[c][Len(stream[c])] = api[c]
      BY <1>0, <2>1 DEF VersionInv
    <3> QED BY <2>1, <2>4, <3>1, LastOfTail
  <2> QED BY <1>0, <2>2, <2>3, <2>5, <2>6, <2>7 DEF VersionInv
<1>3. ASSUME pc \in {"report", "update"}, Accepted, WriteStatus, UNCHANGED <<store, atc>>
      PROVE  VersionInv'
  BY <1>0, <1>3, StatusWrites, ReplaceKeepsVersions DEF WriteStatus
<1>4. CASE Report
  BY <1>0, <1>3, <1>4, VersionsUntouched DEF Report
<1>5. CASE UpdateStatus
  BY <1>0, <1>3, <1>5, VersionsUntouched DEF UpdateStatus
<1>6. CASE CrashRestart
  <2>1. store' = api /\ api' = api /\ atc' = atc /\ \A b \in Builds : stream'[b] = <<>>
    BY <1>6 DEF CrashRestart
  <2>2. \A b \in Builds : Behind(api[b], api[b])
    BY VersionFields DEF Behind, TypeOK
  <2> QED BY <1>0, <2>1, <2>2 DEF VersionInv
<1>7. CASE UNCHANGED <<api, stream, store>>
  BY <1>0, <1>7, VersionsUntouched
<1> QED
  BY <1>1, <1>2, <1>4, <1>5, <1>6, <1>7
     DEF Next, User, ChainChanges, Queueing, Resync, DelayExpires, ChannelSource, Reconcile,
         Begin, Trigger, AbortBuild, Refresh, StartWatcher, Watch, OpenStream, StreamEnds,
         Enqueue, WatcherExits, Progress, BuildProgresses, vars
-----------------------------------------------------------------------------
(* The copy the worker holds stays a copy of the current version, or is     *)
(* recognised as outdated by its resourceVersion.                           *)

(* A step leaves a Build as it is or replaces it by its next version; an
   incarnation never comes back. *)
LEMMA ApiFollows ==
  ASSUME TypeOK, RecordInv, [Next]_vars
  PROVE  \A b \in Builds : Follows(api'[b], api[b])
<1> USE DEF kube, concourse, reads, worker, watching
<1>1. ASSUME NEW c \in Builds, NEW obj, Replace(c, obj), Follows(obj, api[c])
      PROVE  \A b \in Builds : Follows(api'[b], api[b])
  BY <1>1 DEF Replace, TypeOK, Follows
<1>2. ASSUME NEW c \in Builds, CreateBuild(c) \/ EditBuild(c) \/ AnnotateBuild(c) \/ DeleteBuild(c)
      PROVE  \A b \in Builds : Follows(api'[b], api[b])
  <2>1. PICK obj \in Version : Replace(c, obj) /\ Follows(obj, api[c])
    BY <1>2, EditsAreTruthful DEF CreateBuild, EditBuild, AnnotateBuild, DeleteBuild, RecordInv
  <2> QED BY <1>1, <2>1
<1>3. CASE UNCHANGED api
  BY <1>3 DEF Follows
<1>4. CASE Report \/ UpdateStatus
  <2>1. pc \in {"report", "update"} /\ (UNCHANGED api \/ (Accepted /\ WriteStatus))
    BY <1>4 DEF Report, UpdateStatus
  <2>2. CASE Accepted /\ WriteStatus
    BY <1>1, <2>1, <2>2, StatusWrites DEF WriteStatus
  <2> QED BY <1>3, <2>1, <2>2
<1> QED
  BY <1>2, <1>3, <1>4
     DEF Next, User, ChainChanges, Queueing, InformerReceives, Resync, DelayExpires,
         ChannelSource, Reconcile, Begin, Trigger, AbortBuild, Refresh, StartWatcher, Watch,
         OpenStream, StreamEnds, Enqueue, WatcherExits, Progress, BuildProgresses,
         CrashRestart, vars

(* A copy is at most as far as the current version stays so. *)
LEMMA CopyStays ==
  ASSUME NEW obj \in Version, NEW cur \in Version, NEW new \in Version, Follows(new, cur),
         obj.rv <= cur.rv, obj.uid <= cur.uid, obj.rv = cur.rv => Agrees(obj, cur)
  PROVE  obj.rv <= new.rv /\ obj.uid <= new.uid /\ (obj.rv = new.rv => Agrees(obj, new))
BY VersionFields DEF Follows

(* What others do while the worker is between two calls keeps its copy either
   current or recognisably outdated. *)
LEMMA RequestUntouched ==
  ASSUME TypeOK, TypeOK', RequestInv, Grow(atc, atc'),
         \A b \in Builds : Follows(api'[b], api[b]), UNCHANGED <<pc, rc>>
  PROVE  RequestInv'
<1> SUFFICES ASSUME pc # "idle" PROVE RequestInv'
  BY DEF RequestInv
<1>1. rc.name \in Builds /\ rc.obj \in Version
  BY RequestFields DEF TypeOK
<1>2. api[rc.name] \in Version /\ api'[rc.name] \in Version /\ atc \in Seq(Run) /\ atc' \in Seq(Run)
  BY <1>1 DEF TypeOK
<1>3. Truthful(rc.obj, rc.name, atc')
  BY <1>1, <1>2, TruthStays DEF RequestInv
<1>4. rc.obj.rv <= api'[rc.name].rv /\ rc.obj.uid <= api'[rc.name].uid
  <2>1. rc.obj.rv <= api[rc.name].rv /\ rc.obj.uid <= api[rc.name].uid
    BY DEF RequestInv
  <2>2. Follows(api'[rc.name], api[rc.name])
    BY <1>1
  <2> QED BY <1>1, <1>2, <2>1, <2>2, VersionFields DEF Follows
<1>5. pc # "watch" /\ rc.obj.rv = api'[rc.name].rv => Agrees(rc.obj, api'[rc.name])
  BY <1>1, <1>2, CopyStays DEF RequestInv
<1> QED BY <1>3, <1>4, <1>5 DEF RequestInv

(* Every call of Reconcile keeps its copy truthful, and in agreement with the
   version a status write of it would replace. *)
LEMMA RequestNext == TypeOK /\ TypeOK' /\ RecordInv /\ [Next]_vars => RequestInv'
<1> SUFFICES ASSUME TypeOK, TypeOK', RecordInv, [Next]_vars PROVE RequestInv'
  OBVIOUS
<1> USE DEF kube, concourse, reads, worker, watching
<1>0. VersionInv /\ RequestInv /\ Grow(atc, atc') /\ \A b \in Builds : Follows(api'[b], api[b])
  BY RunsGrow, ApiFollows DEF RecordInv
<1>1. rc.name \in Builds /\ rc.obj \in Version /\ api[rc.name] \in Version
  BY RequestFields DEF TypeOK
<1>2. CASE UNCHANGED <<pc, rc>>
  BY <1>0, <1>2, RequestUntouched
<1>3. CASE pc' = "idle"
  BY <1>3 DEF RequestInv
<1>4. ASSUME NEW b \in Builds, Begin(b) PROVE RequestInv'
  <2> DEFINE obj == store[b]
             call == FirstCall(obj)
  <2>1. CASE call = "idle"
    BY <1>3, <1>4, <2>1 DEF Begin
  <2>2. CASE call # "idle"
    <3>1. /\ pc' = call /\ rc'.name = b /\ rc'.again = obj.spec.jobRef
          /\ rc'.obj = IF call = "report" THEN [obj EXCEPT !.ready = NotReadyReason(obj)] ELSE obj
          /\ UNCHANGED <<api, atc>>
      BY <1>4, <2>2 DEF Begin
    <3>2. /\ Live(obj) /\ ~isTerminal(obj.phase) /\ call \in {"report", "trigger", "abort"}
          /\ call = "trigger" => obj.buildID = 0
          /\ call = "abort" => obj.buildID # 0
      BY <2>2 DEF FirstCall, Live
    <3>3. obj \in Version /\ api[b] \in Version /\ Truthful(obj, b, atc) /\ Behind(obj, api[b])
      BY <1>0 DEF VersionInv, TypeOK
    <3>4. /\ rc'.obj \in Version /\ rc'.obj.state = obj.state /\ rc'.obj.rv = obj.rv
          /\ rc'.obj.uid = obj.uid /\ rc'.obj.spec = obj.spec
          /\ rc'.obj.buildID = obj.buildID /\ rc'.obj.phase = obj.phase
      BY <3>1, <3>3 DEF NotReadyReason, Version
    <3> HIDE DEF obj, call
    <3>5. Truthful(rc'.obj, b, atc)
      BY <3>3, <3>4 DEF Truthful
    <3>6. rc'.obj.rv = api[b].rv => Agrees(rc'.obj, api[b])
      <4>1. Rank(obj.phase) \in 0..3
        BY <3>3, VersionFields, RankValues
      <4> QED BY <3>2, <3>3, <3>4, <4>1 DEF Behind, Agrees, Live
    <3>7. rc'.obj.rv <= api[b].rv /\ rc'.obj.uid <= api[b].uid
      BY <3>3, <3>4 DEF Behind
    <3> QED BY <3>1, <3>2, <3>4, <3>5, <3>6, <3>7 DEF RequestInv, Live
  <2> QED BY <2>1, <2>2
<1>5. CASE Trigger
  <2>0. /\ pc = "trigger" /\ UNCHANGED api
        /\ Live(rc.obj) /\ Truthful(rc.obj, rc.name, atc)
        /\ rc.obj.rv <= api[rc.name].rv /\ rc.obj.uid <= api[rc.name].uid
        /\ rc.again = rc.obj.spec.jobRef /\ rc.obj.buildID = 0
        /\ ~isTerminal(rc.obj.phase)
        /\ rc.obj.rv = api[rc.name].rv => Agrees(rc.obj, api[rc.name])
    BY <1>0, <1>5 DEF Trigger, RequestInv
  <2>1. rc.obj.phase = "none"
    BY <2>0 DEF Truthful
  <2>2. CASE rc' = [rc EXCEPT !.obj.ready = "TriggerFailed"] /\ pc' = "report"
    <3>1. /\ rc'.name = rc.name /\ rc'.again = rc.again
          /\ rc'.obj.state = rc.obj.state /\ rc'.obj.rv = rc.obj.rv
          /\ rc'.obj.uid = rc.obj.uid /\ rc'.obj.spec = rc.obj.spec
          /\ rc'.obj.buildID = rc.obj.buildID /\ rc'.obj.phase = rc.obj.phase
      BY <1>1, <2>2 DEF TypeOK, Request, Version
    <3>2. Truthful(rc'.obj, rc'.name, atc')
      BY <2>0, <2>1, <3>1 DEF Truthful, Live
    <3>3. rc'.obj.rv = api[rc.name].rv => Agrees(rc'.obj, api[rc.name])
      BY <2>0, <3>1 DEF Agrees
    <3> QED BY <2>0, <2>2, <3>1, <3>2, <3>3 DEF RequestInv, Live
  <2>3. CASE /\ rc' = [rc EXCEPT !.obj.buildID = Len(atc) + 1] /\ pc' = "abort"
             /\ atc' = Append(atc, [name |-> rc.name, uid |-> rc.obj.uid, status |-> "pending"])
    <3>0. atc \in Seq(Run) /\ Len(atc) \in Nat
      BY DEF TypeOK
    <3>1. /\ rc'.name = rc.name /\ rc'.again = rc.again
          /\ rc'.obj.state = rc.obj.state /\ rc'.obj.rv = rc.obj.rv
          /\ rc'.obj.uid = rc.obj.uid /\ rc'.obj.spec = rc.obj.spec
          /\ rc'.obj.buildID = Len(atc) + 1 /\ rc'.obj.phase = rc.obj.phase
      BY <1>1, <2>3 DEF TypeOK, Request, Version
    <3>2. /\ Len(atc') = Len(atc) + 1
          /\ atc'[Len(atc) + 1] = [name |-> rc.name, uid |-> rc.obj.uid, status |-> "pending"]
      BY <2>3, <3>0
    <3>3. Truthful(rc'.obj, rc'.name, atc')
      BY <2>0, <2>1, <3>0, <3>1, <3>2, RankValues DEF Truthful, Live, isTerminal, Terminal
    <3>4. rc'.obj.rv = api[rc.name].rv => Agrees(rc'.obj, api[rc.name])
      BY <2>0, <3>1 DEF Agrees
    <3> QED BY <2>0, <2>3, <3>0, <3>1, <3>3, <3>4 DEF RequestInv, Live
  <2> QED BY <1>5, <2>2, <2>3 DEF Trigger
<1>6. CASE AbortBuild
  <2>1. pc = "abort" /\ pc' = "refresh" /\ UNCHANGED <<rc, api, atc>>
    BY <1>6 DEF AbortBuild
  <2> QED BY <1>0, <2>1 DEF RequestInv
<1>7. CASE Refresh
  <2>0. /\ pc = "refresh" /\ pc' = "update" /\ UNCHANGED <<api, atc>>
        /\ Live(rc.obj) /\ Truthful(rc.obj, rc.name, atc)
        /\ rc.obj.rv <= api[rc.name].rv /\ rc.obj.uid <= api[rc.name].uid
        /\ rc.again = rc.obj.spec.jobRef /\ rc.obj.buildID # 0
        /\ rc.obj.rv = api[rc.name].rv => Agrees(rc.obj, api[rc.name])
    BY <1>0, <1>7 DEF Refresh, RequestInv
  <2> DEFINE status == atc[rc.obj.buildID].status
  <2>1. PICK phase \in {status, rc.obj.phase} :
          rc' = [rc EXCEPT !.obj.phase = phase,
                           !.obj.complete = CompleteReason(phase, rc.obj.buildID),
                           !.obj.observed = rc.obj.gen,
                           !.obj.ready = "Tracked"]
    BY <1>7 DEF Refresh
  <2>2. /\ rc'.name = rc.name /\ rc'.again = rc.again
        /\ rc'.obj.state = rc.obj.state /\ rc'.obj.rv = rc.obj.rv
        /\ rc'.obj.uid = rc.obj.uid /\ rc'.obj.spec = rc.obj.spec
        /\ rc'.obj.buildID = rc.obj.buildID /\ rc'.obj.phase = phase
    BY <1>1, <2>1 DEF TypeOK, Request, Version
  <2>3. /\ Rank(status) \in 0..3 /\ Rank(rc.obj.phase) \in 0..3 /\ Rank(api[rc.name].phase) \in 0..3
        /\ Rank(rc.obj.phase) <= Rank(status)
    <3>1. rc.obj.buildID \in 1..Len(atc)
      BY <2>0 DEF Truthful
    <3>2. atc[rc.obj.buildID] \in Run
      BY <3>1 DEF TypeOK
    <3>3. status \in Phases
      BY <3>2 DEF Run, Phases
    <3> QED BY <1>1, <2>0, <3>3, VersionFields, RankValues DEF Truthful
  <2>4. Truthful(rc'.obj, rc'.name, atc)
    BY <2>0, <2>1, <2>2, <2>3 DEF Truthful
  <2>5. rc'.obj.rv = api[rc.name].rv => Agrees(rc'.obj, api[rc.name])
    BY <2>0, <2>1, <2>2, <2>3 DEF Agrees
  <2> QED BY <2>0, <2>2, <2>4, <2>5 DEF RequestInv, Live
<1>8. CASE UpdateStatus
  <2>1. pc = "update" /\ UNCHANGED atc
    BY <1>8 DEF UpdateStatus
  <2>2. CASE pc' = "watch" /\ rc' = rc
    <3>1. rc.obj.rv <= api'[rc.name].rv /\ rc.obj.uid <= api'[rc.name].uid
      <4>1. rc.obj.rv <= api[rc.name].rv /\ rc.obj.uid <= api[rc.name].uid
        BY <1>0, <2>1 DEF RequestInv
      <4>2. Follows(api'[rc.name], api[rc.name]) /\ api'[rc.name] \in Version
        BY <1>0, <1>1 DEF TypeOK
      <4> QED BY <1>1, <4>1, <4>2, VersionFields DEF Follows
    <3> QED BY <1>0, <2>1, <2>2, <3>1 DEF RequestInv
  <2> QED
    BY <1>3, <1>8, <2>2 DEF UpdateStatus, Done, ReturnError, RequeueAfter, Idle
<1>9. CASE Report \/ StartWatcher \/ CrashRestart
  BY <1>3, <1>9 DEF Report, StartWatcher, CrashRestart, Done, RequeueAfter, Idle
<1> QED
  BY <1>2, <1>4, <1>5, <1>6, <1>7, <1>8, <1>9
     DEF Next, User, CreateBuild, EditBuild, AnnotateBuild, DeleteBuild, ChainChanges, Queueing,
         InformerReceives, Resync, DelayExpires, ChannelSource, Reconcile, Watch,
         OpenStream, StreamEnds, Enqueue, WatcherExits, Progress, BuildProgresses, vars

(* The freshly started manager satisfies the inductive invariant. *)
LEMMA RecordInit == Init => RecordInv
<1> SUFFICES ASSUME Init PROVE RecordInv
  OBVIOUS
<1>1. \A b \in Builds : Truthful(NoBuild, b, atc) /\ Behind(NoBuild, NoBuild)
  BY DEF NoBuild, NewBuild, Truthful, Behind
<1>2. VersionInv
  BY <1>1 DEF Init, VersionInv
<1>3. RequestInv
  BY DEF Init, RequestInv
<1> QED BY <1>2, <1>3 DEF RecordInv

(* Every version of every Build tells the truth about a run of its own
   incarnation, and a reconcile that may still write holds the current one. *)
THEOREM RecordsInvariant == Spec => [](TypeOK /\ RecordInv)
<1>1. Init => TypeOK /\ RecordInv
  BY TypeInit, RecordInit
<1>2. TypeOK /\ RecordInv /\ [Next]_vars => TypeOK' /\ RecordInv'
  <2> SUFFICES ASSUME TypeOK, RecordInv, [Next]_vars PROVE TypeOK' /\ RecordInv'
    OBVIOUS
  <2>1. TypeOK'
    BY TypeNext DEF RecordInv
  <2>2. VersionInv' /\ RequestInv'
    BY <2>1, VersionNext, RequestNext
  <2> QED BY <2>1, <2>2 DEF RecordInv
<1> QED BY <1>1, <1>2, PTL DEF Spec

(* Type correctness: the channel keeps its capacity, the queue, the worker and
   the goroutines their values, and Refresh always finds the run it asks for. *)
THEOREM TypeCorrect == Spec => []TypeOK
BY RecordsInvariant, PTL
-----------------------------------------------------------------------------
(* Watchers. *)

(* A goroutine that goes on in watchBuildEvents keeps its sentinel and its name. *)
LEMMA WatcherMoves ==
  ASSUME TypeOK, OneWatcherPerBuild, NEW w \in gor,
         NEW step \in {"stream", "send", "exit"}, Move(w, step), UNCHANGED watchers
  PROVE  OneWatcherPerBuild'
<1> DEFINE new == [w EXCEPT !.at = step]
<1>1. w \in Watcher /\ new.name = w.name
  BY DEF TypeOK, Watcher
<1>2. gor' = (gor \ {w}) \cup {new}
  BY DEF Move
<1> HIDE DEF new
<1>3. ASSUME NEW u \in gor', NEW v \in gor', u.name = v.name PROVE u = v
  BY <1>1, <1>2, <1>3 DEF OneWatcherPerBuild
<1>4. watchers' = {v.name : v \in gor'}
  BY <1>1, <1>2 DEF OneWatcherPerBuild
<1> QED BY <1>3, <1>4 DEF OneWatcherPerBuild

(* There are never two watchBuildEvents goroutines of one Build, and there is
   a goroutine for every sentinel, through every crash and for every order of
   reconciles, stream ends and sends. *)
THEOREM OneWatcher == Spec => []OneWatcherPerBuild
<1>1. Init => OneWatcherPerBuild
  BY DEF Init, OneWatcherPerBuild
<1>2. TypeOK /\ OneWatcherPerBuild /\ [Next]_vars => OneWatcherPerBuild'
  <2> SUFFICES ASSUME TypeOK, OneWatcherPerBuild, [Next]_vars PROVE OneWatcherPerBuild'
    OBVIOUS
  <2> USE DEF kube, concourse, reads, worker, watching
  <2>1. CASE UNCHANGED <<watchers, gor>>
    BY <2>1 DEF OneWatcherPerBuild
  <2>2. CASE StartWatcher
    <3>1. CASE rc.name \in watchers
      BY <2>2, <3>1 DEF StartWatcher, OneWatcherPerBuild
    <3>2. CASE rc.name \notin watchers
      <4> DEFINE new == [name |-> rc.name, id |-> rc.obj.buildID, at |-> "open"]
      <4>1. gor' = gor \cup {new} /\ watchers' = watchers \cup {rc.name}
        BY <2>2, <3>2 DEF StartWatcher
      <4>2. new.name = rc.name
        OBVIOUS
      <4> HIDE DEF new
      <4>3. \A v \in gor : v.name # new.name
        BY <3>2, <4>2 DEF OneWatcherPerBuild
      <4> QED BY <4>1, <4>2, <4>3 DEF OneWatcherPerBuild
    <3> QED BY <3>1, <3>2
  <2>3. ASSUME NEW w \in gor, OpenStream(w) \/ StreamEnds(w) \/ Enqueue(w) PROVE OneWatcherPerBuild'
    BY <2>3, WatcherMoves DEF OpenStream, StreamEnds, Enqueue
  <2>4. ASSUME NEW w \in gor, WatcherExits(w) PROVE OneWatcherPerBuild'
    <3>1. gor' = gor \ {w} /\ watchers' = watchers \ {w.name}
      BY <2>4 DEF WatcherExits
    <3>2. \A v \in gor : v.name = w.name => v = w
      BY DEF OneWatcherPerBuild
    <3> QED BY <3>1, <3>2 DEF OneWatcherPerBuild
  <2>5. CASE CrashRestart
    BY <2>5 DEF CrashRestart, OneWatcherPerBuild
  <2> QED
    BY <2>1, <2>2, <2>3, <2>4, <2>5
       DEF Next, User, CreateBuild, EditBuild, AnnotateBuild, DeleteBuild, ChainChanges, Queueing,
           InformerReceives, Resync, DelayExpires, ChannelSource, Reconcile, Begin, Report,
           Trigger, AbortBuild, Refresh, UpdateStatus, Watch, Progress, BuildProgresses, vars
<1> QED BY <1>1, <1>2, TypeCorrect, PTL DEF Spec
-----------------------------------------------------------------------------
(* No Build is forgotten. *)

(* A reconcile of an outdated copy will be followed by another one. *)
OutdatedIsPending == pc # "idle" /\ rc.obj.rv < api[rc.name].rv => Pending(rc.name)

(* What a step owes to a Build it does not finish with. *)
KeepsPending(b) ==
  /\ Pending(b) => Pending(b)'
  /\ api'[b] = api[b] \/ Pending(b)'

(* A write that changes a Build leaves an event of it on the way. *)
LEMMA ReplacePublishes ==
  ASSUME TypeOK, NEW c \in Builds, NEW obj \in Version, Replace(c, obj), UNCHANGED wq
  PROVE  \A b \in Builds : KeepsPending(b)
<1>1. ASSUME NEW b \in Builds PROVE KeepsPending(b)
  <2>1. CASE b # c
    BY <2>1 DEF Replace, TypeOK, KeepsPending, Pending
  <2>2. CASE b = c /\ obj = api[c]
    BY <2>2 DEF Replace, TypeOK, KeepsPending, Pending, Published
  <2>3. CASE b = c /\ obj # api[c]
    <3>1. stream'[c] = Append(stream[c], obj) /\ stream[c] \in Seq(Version)
      BY <2>3 DEF Replace, TypeOK, Published
    <3>2. stream'[c] # <<>>
      BY <3>1
    <3> QED BY <2>3, <3>2 DEF KeepsPending, Pending
  <2> QED BY <2>1, <2>2, <2>3
<1> QED BY <1>1

(* Steps that neither begin nor end a reconcile. *)
LEMMA KeepsGoing ==
  ASSUME TypeOK, NeverForgotten, OutdatedIsPending, \A b \in Builds : KeepsPending(b),
         pc' = "idle" <=> pc = "idle", rc'.name = rc.name, rc'.obj.rv = rc.obj.rv,
         UNCHANGED dropped
  PROVE  NeverForgotten' /\ OutdatedIsPending'
<1>1. ASSUME NEW b \in Builds, Wanted(b)'
      PROVE  Pending(b)' \/ (pc' # "idle" /\ rc'.name = b) \/ b \in dropped'
  <2>1. CASE Pending(b)'
    BY <2>1
  <2>2. CASE ~Pending(b)'
    <3>1. api'[b] = api[b] /\ ~Pending(b)
      BY <2>2 DEF KeepsPending
    <3>2. Wanted(b)
      BY <1>1, <3>1 DEF Wanted
    <3> QED BY <3>1, <3>2 DEF NeverForgotten
  <2> QED BY <2>1, <2>2
<1>2. OutdatedIsPending'
  <2>1. rc.name \in Builds
    BY RequestFields DEF TypeOK
  <2> QED BY <2>1 DEF OutdatedIsPending, KeepsPending
<1> QED BY <1>1, <1>2 DEF NeverForgotten

(* Steps that end the reconcile. *)
LEMMA EndsWell ==
  ASSUME NeverForgotten, pc # "idle", pc' = "idle", UNCHANGED dropped, NEW c \in Builds, c = rc.name,
         \A b \in Builds : b # c => KeepsPending(b),
         Wanted(c)' => Pending(c)'
  PROVE  NeverForgotten' /\ OutdatedIsPending'
<1>1. ASSUME NEW b \in Builds, Wanted(b)' PROVE Pending(b)' \/ b \in dropped'
  <2>1. CASE b = c
    BY <1>1, <2>1
  <2>2. CASE b # c
    <3>1. CASE api'[b] = api[b]
      <4>1. Wanted(b)
        BY <1>1, <3>1 DEF Wanted
      <4> QED BY <2>2, <4>1 DEF NeverForgotten, KeepsPending
    <3> QED BY <2>2, <3>1 DEF KeepsPending
  <2> QED BY <2>1, <2>2
<1> QED BY <1>1 DEF NeverForgotten, OutdatedIsPending

(* Every step that ends the work on a Build with work left leaves a queue entry
   or an event behind, unless it has found no Job. *)
LEMMA ForgottenNext ==
  ASSUME TypeOK, TypeOK', RecordInv, [Next]_vars,
         NeverForgotten, OutdatedIsPending
  PROVE  NeverForgotten' /\ OutdatedIsPending'
<1> USE DEF kube, concourse, reads, worker, watching
<1>1. rc.name \in Builds /\ rc.obj \in Version /\ api[rc.name] \in Version
  BY RequestFields DEF TypeOK
<1>2. CASE UNCHANGED <<api, stream, wq, pc, rc, dropped>>
  BY <1>2, KeepsGoing DEF KeepsPending, Pending
<1>3. ASSUME NEW c \in Builds, CreateBuild(c) \/ EditBuild(c) \/ AnnotateBuild(c) \/ DeleteBuild(c)
      PROVE  NeverForgotten' /\ OutdatedIsPending'
  <2>1. PICK obj \in Version : Replace(c, obj)
    BY <1>3, EditsAreTruthful DEF CreateBuild, EditBuild, AnnotateBuild, DeleteBuild, RecordInv
  <2>2. UNCHANGED <<wq, pc, rc, dropped>>
    BY <1>3 DEF CreateBuild, EditBuild, AnnotateBuild, DeleteBuild
  <2> QED BY <2>1, <2>2, ReplacePublishes, KeepsGoing
<1>4. ASSUME NEW c \in Builds, InformerReceives(c) \/ Resync(c) \/ DelayExpires(c)
      PROVE  NeverForgotten' /\ OutdatedIsPending'
  <2>1. /\ wq'[c] = "ready" /\ UNCHANGED <<api, pc, rc, dropped>>
        /\ \A b \in Builds : b # c => wq'[b] = wq[b] /\ stream'[b] = stream[b]
    BY <1>4 DEF InformerReceives, Resync, DelayExpires, TypeOK
  <2>2. \A b \in Builds : KeepsPending(b)
    BY <2>1 DEF KeepsPending, Pending
  <2> QED BY <2>1, <2>2, KeepsGoing
<1>5. CASE ChannelSource
  <2>1. /\ UNCHANGED <<api, stream, pc, rc, dropped>>
        /\ \A b \in Builds : wq'[b] = wq[b] \/ wq'[b] = "ready"
    BY <1>5 DEF ChannelSource, TypeOK
  <2>2. \A b \in Builds : KeepsPending(b)
    BY <2>1 DEF KeepsPending, Pending
  <2> QED BY <2>1, <2>2, KeepsGoing
<1>6. CASE Trigger \/ AbortBuild \/ Refresh
  <2>1. UNCHANGED <<api, stream, wq, dropped>> /\ pc # "idle" /\ pc' # "idle"
    BY <1>6 DEF Trigger, AbortBuild, Refresh
  <2>2. rc'.name = rc.name /\ rc'.obj.rv = rc.obj.rv
    <3>1. CASE Trigger
      <4>1. \/ rc' = [rc EXCEPT !.obj.buildID = Len(atc) + 1]
            \/ rc' = [rc EXCEPT !.obj.ready = "TriggerFailed"]
        BY <3>1 DEF Trigger
      <4>2. CASE rc' = [rc EXCEPT !.obj.buildID = Len(atc) + 1]
        BY <1>1, <4>2 DEF TypeOK, Request, Version
      <4>3. CASE rc' = [rc EXCEPT !.obj.ready = "TriggerFailed"]
        BY <1>1, <4>3 DEF TypeOK, Request, Version
      <4> QED BY <4>1, <4>2, <4>3
    <3>2. CASE AbortBuild
      BY <3>2 DEF AbortBuild
    <3>3. CASE Refresh
      <4>1. PICK phase : rc' = [rc EXCEPT !.obj.phase = phase,
                                          !.obj.complete = CompleteReason(phase, rc.obj.buildID),
                                          !.obj.observed = rc.obj.gen,
                                          !.obj.ready = "Tracked"]
        BY <3>3 DEF Refresh
      <4> QED BY <1>1, <4>1 DEF TypeOK, Request, Version
    <3> QED BY <1>6, <3>1, <3>2, <3>3
  <2>3. \A b \in Builds : KeepsPending(b)
    BY <2>1 DEF KeepsPending, Pending
  <2> QED BY <2>1, <2>2, <2>3, KeepsGoing
<1>7. ASSUME NEW c \in Builds, Begin(c) PROVE NeverForgotten' /\ OutdatedIsPending'
  <2>1. /\ pc = "idle" /\ UNCHANGED <<api, stream>>
        /\ \A b \in Builds : b # c => wq'[b] = wq[b] /\ (b \in dropped => b \in dropped')
    BY <1>7 DEF Begin, TypeOK
  <2>2. stream[c] = <<>> => store[c] = api[c]
    BY DEF RecordInv, VersionInv
  <2>3. ASSUME NEW b \in Builds, Wanted(b)'
        PROVE  Pending(b)' \/ (pc' # "idle" /\ rc'.name = b) \/ b \in dropped'
    <3>0. Wanted(b)
      BY <2>1, <2>3 DEF Wanted
    <3>1. CASE b # c
      BY <2>1, <3>0, <3>1 DEF NeverForgotten, Pending
    <3>2. CASE b = c /\ stream[c] # <<>>
      BY <2>1, <3>2 DEF Pending
    <3>3. CASE b = c /\ stream[c] = <<>>
      <4>1. Live(store[c]) /\ ~isTerminal(store[c].phase) /\ store[c].spec.jobRef
        BY <2>2, <3>0, <3>3 DEF Wanted
      <4>2. CASE chain = "noJob"
        BY <1>7, <3>3, <4>1, <4>2 DEF Begin, JobMissing
      <4>3. CASE chain # "noJob"
        <5>1. FirstCall(store[c]) # "idle"
          BY <4>1, <4>3 DEF FirstCall, Live
        <5> QED BY <1>7, <3>3, <5>1 DEF Begin
      <4> QED BY <4>2, <4>3
    <3> QED BY <3>1, <3>2, <3>3
  <2>4. OutdatedIsPending'
    <3> SUFFICES ASSUME pc' # "idle", rc'.obj.rv < api[rc'.name].rv PROVE stream[c] # <<>> /\ rc'.name = c
      BY <2>1 DEF OutdatedIsPending, Pending
    <3>1. store[c] \in Version
      BY DEF TypeOK
    <3>2. rc'.name = c /\ rc'.obj.rv = store[c].rv
      BY <1>7, <3>1 DEF Begin, NotReadyReason, Version
    <3>3. store[c] # api[c]
      BY <3>1, <3>2, VersionFields
    <3> QED BY <2>2, <3>2, <3>3
  <2> QED BY <2>3, <2>4 DEF NeverForgotten
<1>8. ASSUME Accepted, WriteStatus, UNCHANGED wq, pc \in {"report", "update"}
      PROVE  \A b \in Builds : KeepsPending(b)
  BY <1>8, StatusWrites, ReplacePublishes DEF WriteStatus
<1>9. ASSUME RequeueAfter, UNCHANGED dropped, NEW c \in Builds, c = rc.name, pc # "idle",
             \A b \in Builds : b # c => api'[b] = api[b] /\ stream'[b] = stream[b]
      PROVE  NeverForgotten' /\ OutdatedIsPending'
  <2>1. pc' = "idle" /\ wq'[c] # "none" /\ \A b \in Builds : b # c => wq'[b] = wq[b]
    BY <1>9 DEF RequeueAfter, Idle, AddAfter, TypeOK
  <2>2. Pending(c)' /\ \A b \in Builds : b # c => KeepsPending(b)
    BY <1>9, <2>1 DEF Pending, KeepsPending
  <2> QED BY <1>9, <2>1, <2>2, EndsWell
<1>10. \A b \in Builds : b # rc.name /\ (WriteStatus \/ UNCHANGED <<api, stream>>)
                         => api'[b] = api[b] /\ stream'[b] = stream[b]
  BY <1>1 DEF WriteStatus, Replace, TypeOK
<1>11. CASE Report
  <2>0. pc = "report" /\ (WriteStatus \/ UNCHANGED <<api, stream>>)
    BY <1>11 DEF Report
  <2>1. CASE rc.again
    BY <1>1, <1>9, <1>10, <1>11, <2>0, <2>1 DEF Report
  <2>2. CASE ~rc.again
    <3>1. pc' = "idle" /\ UNCHANGED <<wq, dropped>> /\ ~rc.obj.spec.jobRef
      BY <1>11, <2>0, <2>2 DEF Report, Done, Idle, RecordInv, RequestInv
    <3>2. PICK c \in Builds : c = rc.name
      BY <1>1
    <3>3. Wanted(c)' => Pending(c)'
      <4>1. CASE Accepted /\ WriteStatus
        <5>1. api'[c].spec = rc.obj.spec
          BY <2>0, <3>2, <4>1, StatusWrites DEF WriteStatus, Replace, TypeOK
        <5> QED BY <3>1, <5>1 DEF Wanted
      <4>2. CASE UNCHANGED <<api, stream>> /\ rc.obj.rv = api[c].rv
        <5>1. Agrees(rc.obj, api[c])
          BY <2>0, <3>2, <4>2 DEF RecordInv, RequestInv
        <5> QED BY <3>1, <4>2, <5>1 DEF Agrees, Wanted
      <4>3. CASE UNCHANGED <<api, stream>> /\ rc.obj.rv # api[c].rv
        <5>1. rc.obj.rv < api[c].rv
          BY <1>1, <2>0, <3>2, <4>3, VersionFields DEF RecordInv, RequestInv
        <5> QED BY <2>0, <3>1, <3>2, <4>3, <5>1 DEF OutdatedIsPending, Pending
      <4> QED BY <1>11, <4>1, <4>2, <4>3 DEF Report
    <3>4. \A b \in Builds : b # c => KeepsPending(b)
      BY <1>10, <2>0, <3>1, <3>2 DEF KeepsPending, Pending
    <3> QED BY <2>0, <3>1, <3>2, <3>3, <3>4, EndsWell
  <2> QED BY <2>1, <2>2
<1>12. CASE UpdateStatus
  <2>0. pc = "update" /\ (WriteStatus \/ UNCHANGED <<api, stream>>)
    BY <1>12 DEF UpdateStatus
  <2>1. CASE ReturnError
    BY <1>1, <1>9, <1>10, <1>12, <2>0, <2>1 DEF ReturnError, UpdateStatus
  <2>2. CASE Accepted /\ WriteStatus /\ pc' = "watch" /\ UNCHANGED <<rc, wq>>
    BY <1>8, <1>12, <2>0, <2>2, KeepsGoing DEF UpdateStatus
  <2>3. CASE Accepted /\ WriteStatus /\ isTerminal(rc.obj.phase) /\ Done
    <3>1. pc' = "idle" /\ UNCHANGED <<wq, dropped>>
      BY <1>12, <2>3 DEF Done, Idle, UpdateStatus
    <3>2. PICK c \in Builds : c = rc.name
      BY <1>1
    <3>3. api'[c].phase = rc.obj.phase
      BY <2>0, <2>3, <3>2, StatusWrites DEF WriteStatus, Replace, TypeOK
    <3>4. \A b \in Builds : KeepsPending(b)
      BY <1>8, <2>0, <2>3, <3>1
    <3> QED BY <2>0, <2>3, <3>1, <3>2, <3>3, <3>4, EndsWell DEF Wanted
  <2> QED BY <1>12, <2>1, <2>2, <2>3 DEF UpdateStatus
<1>13. CASE StartWatcher
  BY <1>1, <1>9, <1>13 DEF StartWatcher
<1>14. CASE CrashRestart
  BY <1>14 DEF CrashRestart, Idle, NeverForgotten, OutdatedIsPending, Wanted, Pending, Live, Exists
<1> QED
  BY <1>2, <1>3, <1>4, <1>5, <1>6, <1>7, <1>11, <1>12, <1>13, <1>14
     DEF Next, User, ChainChanges, Queueing, Reconcile, Watch, OpenStream, StreamEnds, Enqueue,
         WatcherExits, Progress, BuildProgresses, vars

(* A Build with work left is forgotten only if its last reconcile found no Job:
   else it is being reconciled, or queued, or an event of it is on its way. *)
THEOREM NothingForgotten == Spec => []NeverForgotten
<1>1. Init => NeverForgotten /\ OutdatedIsPending
  BY DEF Init, NeverForgotten, OutdatedIsPending, Wanted, Live, NoBuild, NewBuild
<1>2. /\ TypeOK /\ TypeOK' /\ RecordInv /\ [Next]_vars /\ NeverForgotten /\ OutdatedIsPending
      => NeverForgotten' /\ OutdatedIsPending'
  BY ForgottenNext
<1> QED BY <1>1, <1>2, RecordsInvariant, PTL DEF Spec
-----------------------------------------------------------------------------
(* BuildController implements BuildRecord. *)

(* Steps after which every Build reads as before. *)
LEMMA SameRecords ==
  ASSUME UNCHANGED atc, \A b \in Builds : api'[b].uid = api[b].uid /\ RecordOf(api'[b]) = RecordOf(api[b])
  PROVE  UNCHANGED Record!vars
BY DEF Record!vars

(* A step that changes one Build, in terms of the records. *)
LEMMA OneRecord ==
  ASSUME TypeOK, NEW c \in Builds, NEW obj \in Version, Replace(c, obj)
  PROVE  /\ api'[c] = obj /\ \A b \in Builds : b # c => api'[b] = api[b]
         /\ [b \in Builds |-> api[b].uid]' = [[b \in Builds |-> api[b].uid] EXCEPT ![c] = obj.uid]
         /\ [b \in Builds |-> RecordOf(api[b])]'
              = [[b \in Builds |-> RecordOf(api[b])] EXCEPT ![c] = RecordOf(obj)]
<1>1. api'[c] = obj /\ \A b \in Builds : b # c => api'[b] = api[b]
  BY DEF Replace, TypeOK
<1> QED BY <1>1

(* Every step of the controller is a step of BuildRecord, or changes nothing
   that BuildRecord sees. *)
LEMMA RecordStep == TypeOK /\ RecordInv /\ [Next]_vars => [Record!Next]_Record!vars
<1> SUFFICES ASSUME TypeOK, RecordInv, [Next]_vars PROVE Record!Next \/ UNCHANGED Record!vars
  OBVIOUS
<1> USE DEF kube, concourse, reads, worker, watching
<1>0. rc.name \in Builds /\ rc.obj \in Version /\ api[rc.name] \in Version
  BY RequestFields DEF TypeOK
<1>1. CASE UNCHANGED <<api, atc>>
  BY <1>1, SameRecords
<1>2. ASSUME NEW c \in Builds, CreateBuild(c) PROVE Record!Next
  <2>1. PICK spec \in Specs : Replace(c, NewBuild(api[c].rv + 1, api[c].uid + 1, spec))
    BY <1>2 DEF CreateBuild
  <2> DEFINE obj == NewBuild(api[c].rv + 1, api[c].uid + 1, spec)
  <2>2. obj \in Version
    BY EditsAreTruthful DEF RecordInv
  <2>3. obj.uid = api[c].uid + 1 /\ RecordOf(obj) = [id |-> 0, phase |-> "none"]
    BY DEF NewBuild, RecordOf, Exists
  <2>4. RecordOf(api[c]) = NoRecord /\ UNCHANGED atc
    BY <1>2 DEF CreateBuild, RecordOf
  <2> HIDE DEF obj
  <2>5. Record!Submit(c)
    BY <2>1, <2>2, <2>3, <2>4, OneRecord DEF Record!Submit, obj
  <2> QED BY <2>5 DEF Record!Next
<1>3. ASSUME NEW c \in Builds, EditBuild(c) PROVE UNCHANGED Record!vars
  <2>1. PICK spec \in Specs : Replace(c, NextVersion([api[c] EXCEPT !.gen = @ + 1, !.spec = spec]))
    BY <1>3 DEF EditBuild
  <2> DEFINE obj == NextVersion([api[c] EXCEPT !.gen = @ + 1, !.spec = spec])
  <2>2. obj \in Version /\ api[c] \in Version
    BY <1>3, EditsAreTruthful DEF RecordInv, EditBuild, TypeOK
  <2>3. obj.uid = api[c].uid /\ obj.buildID = api[c].buildID /\ obj.phase = api[c].phase
        /\ obj.state = api[c].state
    BY <2>2 DEF NextVersion, Version
  <2>4. api'[c] = obj /\ \A b \in Builds : b # c => api'[b] = api[b]
    BY <2>1, <2>2, OneRecord
  <2> HIDE DEF obj
  <2>5. UNCHANGED atc
    BY <1>3 DEF EditBuild
  <2> QED BY <2>3, <2>4, <2>5, SameRecords DEF RecordOf, Exists
<1>3a. ASSUME NEW c \in Builds, AnnotateBuild(c) PROVE UNCHANGED Record!vars
  <2> DEFINE obj == NextVersion(api[c])
  <2>1. obj \in Version /\ api[c] \in Version
    BY EditsAreTruthful DEF RecordInv, TypeOK
  <2>2. obj.uid = api[c].uid /\ obj.buildID = api[c].buildID /\ obj.phase = api[c].phase
        /\ obj.state = api[c].state
    BY <2>1 DEF NextVersion, Version
  <2>3. api'[c] = obj /\ (\A b \in Builds : b # c => api'[b] = api[b]) /\ UNCHANGED atc
    BY <1>3a, <2>1, OneRecord DEF AnnotateBuild
  <2> HIDE DEF obj
  <2> QED BY <2>2, <2>3, SameRecords DEF RecordOf, Exists
<1>4. ASSUME NEW c \in Builds, DeleteBuild(c) PROVE Record!Next \/ UNCHANGED Record!vars
  <2>1. PICK state \in {"deleting", "gone"} : Replace(c, NextVersion([api[c] EXCEPT !.state = state]))
    BY <1>4 DEF DeleteBuild
  <2> DEFINE obj == NextVersion([api[c] EXCEPT !.state = state])
  <2>2. obj \in Version /\ api[c] \in Version
    BY <1>4, EditsAreTruthful DEF RecordInv, DeleteBuild, TypeOK
  <2>3. obj.uid = api[c].uid /\ obj.buildID = api[c].buildID /\ obj.phase = api[c].phase
        /\ obj.state = state
    BY <2>2 DEF NextVersion, Version
  <2>4. api'[c] = obj /\ \A b \in Builds : b # c => api'[b] = api[b]
    BY <2>1, <2>2, OneRecord
  <2>5. UNCHANGED atc /\ Exists(api[c])
    BY <1>4 DEF DeleteBuild
  <2> HIDE DEF obj
  <2>6. CASE state = "deleting"
    BY <2>3, <2>4, <2>5, <2>6, SameRecords DEF RecordOf, Exists
  <2>7. CASE state = "gone"
    <3>1. RecordOf(obj) = NoRecord /\ RecordOf(api[c]) # NoRecord
      <4>1. api[c].phase # "absent"
        BY <2>2, VersionFields DEF Phases, Running, Terminal
      <4> QED BY <2>3, <2>5, <2>7, <4>1 DEF RecordOf, NoRecord, Exists
    <3>2. Record!Withdraw(c)
      BY <2>3, <2>4, <2>5, <3>1 DEF Record!Withdraw
    <3> QED BY <3>2 DEF Record!Next
  <2> QED BY <2>6, <2>7
<1>5. CASE Trigger
  <2>1. CASE atc' = Append(atc, [name |-> rc.name, uid |-> rc.obj.uid, status |-> "pending"])
    <3>1. rc.obj.uid \in 1..api[rc.name].uid
      <4>1. /\ rc.obj.uid <= api[rc.name].uid /\ Truthful(rc.obj, rc.name, atc)
            /\ rc.obj.state = "live"
        BY <1>5 DEF Trigger, RecordInv, RequestInv, Live
      <4> QED BY <1>0, <4>1, VersionFields DEF Truthful
    <3>2. UNCHANGED api
      BY <1>5 DEF Trigger
    <3>3. Record!Start(rc.name)
      BY <1>0, <2>1, <3>1, <3>2 DEF Record!Start
    <3> QED BY <1>0, <3>3 DEF Record!Next
  <2> QED BY <1>1, <1>5, <2>1 DEF Trigger
<1>6. ASSUME NEW id \in 1..Len(atc), BuildProgresses(id) PROVE Record!Next
  <2>1. PICK s \in {"started"} \cup Outcomes :
          /\ atc' = [atc EXCEPT ![id].status = s]
          /\ \/ atc[id].status = "pending" /\ s = "started"
             \/ ~isTerminal(atc[id].status) /\ s \in Terminal
    BY <1>6, OutcomesAssumption DEF BuildProgresses, Finished
  <2>2. atc[id].status \in Running \cup Terminal
    <3>1. atc[id] \in Run
      BY DEF TypeOK
    <3> QED BY <3>1 DEF Run
  <2>3. s \in Running \cup Terminal /\ atc[id].status \in Running /\ Rank(s) > Rank(atc[id].status)
    BY <2>1, <2>2, RankValues DEF Running, isTerminal, Terminal
  <2>4. UNCHANGED api
    BY <1>6 DEF BuildProgresses
  <2>5. Record!Advance(id)
    BY <2>1, <2>3, <2>4 DEF Record!Advance
  <2> QED BY <2>5 DEF Record!Next
<1>7. ASSUME Accepted, WriteStatus, UNCHANGED atc, pc \in {"report", "update"}
      PROVE  Record!Next \/ UNCHANGED Record!vars
  <2>0. PICK c \in Builds : c = rc.name
    BY <1>0
  <2> DEFINE cur == api[c]
             obj == Written(cur, rc.obj)
  <2>1. /\ obj \in Version /\ obj.state = "live" /\ obj.uid = cur.uid
        /\ obj.buildID = rc.obj.buildID /\ obj.phase = rc.obj.phase
        /\ Agrees(rc.obj, cur) /\ Replace(c, obj)
    BY <1>7, <2>0, StatusWrites DEF WriteStatus
  <2>2. Truthful(rc.obj, c, atc) /\ Truthful(cur, c, atc)
    BY <1>7, <2>0 DEF RecordInv, RequestInv, VersionInv
  <2>3. /\ RecordOf(cur) = [id |-> cur.buildID, phase |-> cur.phase]
        /\ RecordOf(obj) = [id |-> rc.obj.buildID, phase |-> rc.obj.phase]
    BY <2>1 DEF RecordOf, Exists, Agrees, Live
  <2>4. CASE rc.obj.buildID = 0
    <3>1. RecordOf(obj) = RecordOf(cur)
      BY <2>1, <2>2, <2>3, <2>4 DEF Agrees, Truthful
    <3>2. \A b \in Builds : api'[b].uid = api[b].uid /\ RecordOf(api'[b]) = RecordOf(api[b])
      BY <2>1, <3>1, OneRecord
    <3> QED BY <1>7, <3>2, SameRecords
  <2>5. CASE rc.obj.buildID # 0
    <3> DEFINE i == rc.obj.buildID
               p == rc.obj.phase
    <3>1. /\ i \in 1..Len(atc) /\ atc[i].name = c /\ atc[i].uid = cur.uid
          /\ Rank(p) <= Rank(atc[i].status) /\ (p \in Terminal => p = atc[i].status)
      BY <2>1, <2>2, <2>5 DEF Truthful, Agrees, isTerminal
    <3>2. /\ cur.phase \notin Terminal /\ cur.buildID \in {0, i} /\ Rank(cur.phase) <= Rank(p)
          /\ p \in {"none"} \cup Running \cup Terminal
      BY <1>0, <2>0, <2>1, VersionFields DEF Agrees, isTerminal, Phases
    <3>3. RecordOf(cur) # NoRecord
      <4>1. cur.phase # "absent"
        BY <1>0, <2>0, VersionFields DEF Phases, Running, Terminal
      <4> QED BY <2>3, <4>1 DEF NoRecord
    <3> DEFINE rec == [b \in Builds |-> RecordOf(api[b])]
    <3>4. /\ api'[c] = obj /\ \A b \in Builds : b # c => api'[b] = api[b]
          /\ [b \in Builds |-> RecordOf(api[b])]' = [rec EXCEPT ![c] = RecordOf(obj)]
      BY <2>1, OneRecord
    <3>5. [b \in Builds |-> api[b].uid]' = [b \in Builds |-> api[b].uid]
      BY <2>1, <3>4
    <3>6. rec[c] = RecordOf(cur) /\ rec[c].phase = cur.phase /\ rec[c].id = cur.buildID
      BY <2>3
    <3>7. RecordOf(obj) = [id |-> i, phase |-> p]
      BY <2>3
    <3>8. UNCHANGED atc
      BY <1>7
    <3> HIDE DEF i, p, obj, cur
    <3>9. /\ rec[c] # NoRecord /\ rec[c].phase \notin Terminal
          /\ atc[i].name = c /\ atc[i].uid = [b \in Builds |-> api[b].uid][c]
          /\ rec[c].id \in {0, i} /\ Rank(rec[c].phase) <= Rank(p)
      BY <3>1, <3>2, <3>3, <3>6 DEF cur
    <3> HIDE DEF rec
    <3>10. Record!Follow(c)
      <4>1. [b \in Builds |-> RecordOf(api[b])]' = [rec EXCEPT ![c] = [id |-> i, phase |-> p]]
        BY <3>4, <3>7
      <4>2. \E j \in 1..Len(atc), q \in {"none"} \cup Running \cup Terminal :
              /\ atc[j].name = c /\ atc[j].uid = [b \in Builds |-> api[b].uid][c]
              /\ rec[c].id \in {0, j}
              /\ Rank(rec[c].phase) <= Rank(q) /\ Rank(q) <= Rank(atc[j].status)
              /\ q \in Terminal => q = atc[j].status
              /\ [b \in Builds |-> RecordOf(api[b])]' = [rec EXCEPT ![c] = [id |-> j, phase |-> q]]
        <5> USE <3>1, <3>2
        <5> WITNESS i \in 1..Len(atc), p \in {"none"} \cup Running \cup Terminal
        <5> QED BY <3>1, <3>2, <3>9, <4>1
      <4> QED BY <3>5, <3>8, <3>9, <4>2, Zenon DEF Record!Follow, rec
    <3> QED BY <3>10 DEF Record!Next
  <2> QED BY <2>4, <2>5
<1>8. CASE Report \/ UpdateStatus
  BY <1>1, <1>7, <1>8 DEF Report, UpdateStatus
<1> QED
  BY <1>1, <1>2, <1>3, <1>4, <1>5, <1>6, <1>8, <1>3a
     DEF Next, User, ChainChanges, Queueing, InformerReceives, Resync, DelayExpires,
         ChannelSource, Reconcile, Begin, AbortBuild, Refresh, StartWatcher, Watch,
         OpenStream, StreamEnds, Enqueue, WatcherExits, Progress, CrashRestart, vars

(* The status of every Build is a record in the sense of BuildRecord, whatever
   conflicts, stale reads, lost answers and crashes its reconciles meet. *)
THEOREM RecordRefinement == Spec => TruthfulRecord
<1>1. Init => Record!Init
  BY DEF Init, Record!Init, RecordOf, NoRecord, NoBuild, NewBuild, Exists
<1> QED BY <1>1, RecordStep, RecordsInvariant, PTL DEF Spec, TruthfulRecord, Record!Spec
=============================================================================
