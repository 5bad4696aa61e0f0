--------------------------- MODULE TeamController ---------------------------
(***************************************************************************)
(* TeamReconciler (src/internal/controller/team_controller.go): a Team     *)
(* resource creates a team of Concourse, gives it the members of its       *)
(* roles, and destroys it when the resource is deleted.                    *)
(*                                                                         *)
(* Unlike a Pipeline, a Team is applied by every reconcile, and every      *)
(* reconcile that succeeds records when: its status write is a new version *)
(* whose event wakes the controller again, once per tick of the clock.     *)
(***************************************************************************)
EXTENDS Naturals, Sequences

CONSTANTS
  Names,       \* names of teams in Concourse
  Specs,       \* the specs users write: [name, roles]
  Members,     \* users and groups
  MaxEdits, MaxFaults, MaxCrashes,
  MaxTime      \* bound: the clock, in units of LastApplied

Roles == {"owner", "member", "pipeline-operator", "viewer"}
TeamRole == [role: Roles, members: SUBSET Members]

ASSUME SpecsAssumption == Specs # {} /\ Specs \subseteq [name: Names, roles: SUBSET TeamRole]
ASSUME BoundsAssumption ==
  MaxEdits \in Nat /\ MaxFaults \in Nat /\ MaxCrashes \in Nat /\ MaxTime \in Nat \ {0}

VARIABLES
  api, stream, store, wq, pc, rc, edits, faults, crashes,  \* see Reconciler
  instance,      \* whether resolveInstanceForTeam succeeds
  atc, nextID,   \* Concourse: its teams by name, the next ID
  now,           \* the clock
  abandoned,     \* history: teams not to be destroyed any more
  tampered       \* history: teams changed by others since they were applied

(* id and applied are teamID and lastApplied, ready the reason of Ready. *)
NewTeam(rv, spec) ==
  [state |-> "live", rv |-> rv, finalizer |-> FALSE, gen |-> 1, spec |-> spec,
   observed |-> 0, id |-> 0, applied |-> 0, ready |-> "none"]

NoTeam == [NewTeam(0, CHOOSE s \in Specs : TRUE) EXCEPT !.state = "gone"]

INSTANCE Reconciler WITH NoObject <- NoTeam

frame == <<api, stream, store, wq, pc, rc, edits, faults, crashes>>
concourse == <<atc, nextID>>
hist == <<abandoned, tampered>>
vars == <<frame, instance, atc, nextID, now, abandoned, tampered>>
-----------------------------------------------------------------------------
Version ==
  [state: States, rv: Nat, finalizer: BOOLEAN, gen: Nat, spec: Specs, observed: Nat,
   id: Nat, applied: Nat,
   ready: {"none", "InstanceNotReady", "CreateOrUpdateFailed", "Ready"}]

(* What a team of Concourse grants: a set of <<role, member>>. *)
Grants == SUBSET (Roles \X Members)
NoAtcTeam == [id |-> 0, auth |-> {}]

Steps == {"destroy", "unfinalize", "finalize", "resolve", "apply", "update", "report"}

TypeOK ==
  /\ FrameOK(Version, Steps)
  /\ instance \in BOOLEAN /\ atc \in [Names -> [id: Nat, auth: Grants]] /\ nextID \in Nat
  /\ now \in 1..MaxTime /\ abandoned \subseteq Names /\ tampered \subseteq Names

Init ==
  /\ FrameInit
  /\ instance \in BOOLEAN /\ atc = [n \in Names |-> NoAtcTeam] /\ nextID = 1
  /\ now = 1 /\ abandoned = {} /\ tampered = {}
-----------------------------------------------------------------------------
(* Users and others. *)

CreateTeam ==
  /\ ~Exists(api)
  /\ \E spec \in Specs : Submit(NewTeam(api.rv + 1, spec))
  /\ UNCHANGED <<instance, concourse, now, hist>>

EditTeam ==
  /\ Live(api)
  /\ \E spec \in Specs \ {api.spec} :
       /\ Submit(Respecified(spec))
       /\ abandoned' = IF spec.name = api.spec.name THEN abandoned ELSE abandoned \cup {api.spec.name}
  /\ UNCHANGED <<instance, concourse, now, tampered>>

AnnotateTeam == Annotate /\ UNCHANGED <<instance, concourse, now, hist>>

DeleteTeamResource ==
  /\ Live(api)
  /\ Submit(NextVersion([api EXCEPT !.state = IF api.finalizer THEN "deleting" ELSE "gone"]))
  /\ UNCHANGED <<instance, concourse, now, hist>>

(* The controller does not watch Instances. *)
InstanceChanges ==
  /\ Elsewhere
  /\ instance' = ~instance
  /\ UNCHANGED <<concourse, now, hist>>

(* Behind the operator's back, fly set-team gives everyone every role, or fly
   destroy-team destroys the team. *)
FlyChanges(n) ==
  /\ Elsewhere /\ atc[n] # NoAtcTeam
  /\ atc' \in {[atc EXCEPT ![n].auth = Roles \X Members], [atc EXCEPT ![n] = NoAtcTeam]} \ {atc}
  /\ tampered' = tampered \cup {n}
  /\ UNCHANGED <<instance, nextID, now, abandoned>>

Tick ==
  /\ now < MaxTime /\ now' = now + 1
  /\ UNCHANGED <<frame, instance, concourse, hist>>

InformerReceives == Receive /\ UNCHANGED <<instance, concourse, now, hist>>

DelayExpires == Expire /\ UNCHANGED <<instance, concourse, now, hist>>
-----------------------------------------------------------------------------
(* Reconcile, call by call. *)

FirstCall(obj) ==
  IF ~Exists(obj) \/ (~Live(obj) /\ ~obj.finalizer) THEN "idle"
  ELSE IF ~Live(obj) THEN "destroy"
  ELSE IF obj.finalizer THEN "resolve" ELSE "finalize"

Begin == Take(FirstCall(store), store) /\ UNCHANGED <<instance, concourse, now, hist>>

teamName == rc.spec.name

(* Mutant: only a team whose ID is known is destroyed. *)
DeleteIfRecorded ==
  /\ Call("destroy", "unfinalize")
  /\ atc' = IF instance /\ rc.id # 0 THEN [atc EXCEPT ![teamName] = NoAtcTeam] ELSE atc
  /\ UNCHANGED <<rc, faults, instance, nextID, now, hist>>

DestroyTeam(n) == atc' = [atc EXCEPT ![n] = NoAtcTeam]

(* deleteTeam.  An Instance that is not ready and a failed call, which may have
   been carried out, are logged and do not keep the finalizer. *)
DeleteTeam ==
  /\ Call("destroy", "unfinalize")
  /\ \/ instance /\ DestroyTeam(teamName) /\ UNCHANGED <<faults, abandoned>>
     \/ /\ \/ ~instance /\ UNCHANGED <<faults, atc>>
           \/ instance /\ Fault /\ (DestroyTeam(teamName) \/ UNCHANGED atc)
        /\ abandoned' = abandoned \cup {teamName}
  /\ UNCHANGED <<rc, instance, nextID, now, tampered>>

RemoveFinalizer == Unfinalize /\ UNCHANGED <<instance, concourse, now, hist>>

AddFinalizer == Finalize("resolve") /\ UNCHANGED <<instance, concourse, now, hist>>

Resolve ==
  /\ Call("resolve", IF instance THEN "apply" ELSE "report")
  /\ rc' = IF instance THEN rc ELSE [rc EXCEPT !.ready = "InstanceNotReady"]
  /\ UNCHANGED <<faults, instance, concourse, now, hist>>

(* Mutant: of two bindings of a role the last one is kept. *)
LastBindingCounts(roles) ==
  UNION {{b.role} \X (CHOOSE c \in roles : c.role = b.role).members : b \in roles}

(* Mutant: users are taken for the keys of the map, and roles for the values. *)
RolesByMember(roles) == UNION {b.members \X {b.role} : b \in roles}

(* The bindings of a role are added up. *)
buildTeamAuth(roles) == UNION {{b.role} \X b.members : b \in roles}

(* What Concourse does with a team that is set. *)
SetTeam(n, auth) ==
  /\ IF atc[n] = NoAtcTeam
     THEN atc' = [atc EXCEPT ![n] = [id |-> nextID, auth |-> auth]] /\ nextID' = nextID + 1
     ELSE atc' = [atc EXCEPT ![n].auth = auth] /\ UNCHANGED nextID
  /\ tampered' = tampered \ {n}

Applied == [rc EXCEPT !.id = atc'[teamName].id, !.applied = now, !.observed = rc.gen, !.ready = "Ready"]

(* Mutant: a generation that was observed is not applied again. *)
ApplyOnce ==
  /\ Call("apply", "update")
  /\ IF rc.observed = rc.gen THEN UNCHANGED <<concourse, tampered>> ELSE SetTeam(teamName, buildTeamAuth(rc.spec.roles))
  /\ rc' = Applied
  /\ UNCHANGED <<faults, instance, now, abandoned>>

(* CreateOrUpdate.  A failed call may have been carried out. *)
Apply ==
  /\ \/ Call("apply", "update") /\ SetTeam(teamName, buildTeamAuth(rc.spec.roles))
        /\ rc' = Applied /\ UNCHANGED faults
     \/ /\ Call("apply", "report") /\ Fault
        /\ SetTeam(teamName, buildTeamAuth(rc.spec.roles)) \/ UNCHANGED <<concourse, tampered>>
        /\ rc' = [rc EXCEPT !.ready = "CreateOrUpdateFailed"]
  /\ UNCHANGED <<instance, now, abandoned>>

UpdateStatus == WriteStatus /\ UNCHANGED <<instance, concourse, now, hist>>

Report == ReportNotReady /\ UNCHANGED <<instance, concourse, now, hist>>

CrashRestart == Restart /\ UNCHANGED <<instance, concourse, now, hist>>
-----------------------------------------------------------------------------
User == \/ CreateTeam \/ EditTeam \/ AnnotateTeam \/ DeleteTeamResource \/ InstanceChanges
        \/ \E n \in Names : FlyChanges(n)

Working == \/ DeleteTeam \/ RemoveFinalizer \/ AddFinalizer \/ Resolve \/ Apply
           \/ UpdateStatus \/ Report

Next == \/ User \/ Tick \/ InformerReceives \/ DelayExpires \/ Begin \/ Working
        \/ CrashRestart

Spec == Init /\ [][Next]_vars

(* The process runs; nothing is assumed of users, nor of the clock. *)
Fairness == /\ WF_vars(InformerReceives) /\ WF_vars(DelayExpires)
            /\ WF_vars(Begin) /\ WF_vars(Working)

FairSpec == Spec /\ Fairness
-----------------------------------------------------------------------------
(* Correctness. *)

(* The team named by the resource grants what its bindings say, no more and no
   less: every member of every binding has the role, also when a role is bound
   twice. *)
GrantsRoles ==
  /\ atc[api.spec.name] # NoAtcTeam
  /\ \A r \in Roles, m \in Members :
       <<r, m>> \in atc[api.spec.name].auth
         <=> \E b \in api.spec.roles : b.role = r /\ m \in b.members

(* "Ready: Reconciliation succeeded; resource is in sync with Concourse": a
   Team that is Ready at its current generation has its roles in Concourse,
   through edits, reverted edits, renames, conflicts, lost answers and stale
   reads, unless others have changed the team since.  (A Pipeline breaks this
   promise when an edit is reverted, and when it is renamed.) *)
GrantedWhenReady ==
  Live(api) /\ api.ready = "Ready" /\ api.observed = api.gen /\ api.spec.name \notin tampered
    => GrantsRoles

(* Once the Team is gone no team is left in Concourse, except those the code
   gives up: the destruction failed, which is logged, or the Team was renamed.
   The finalizer is there before a team is created, and nothing creates it
   again once the finalizer is removed.  The documentation says the opposite:
   "deleting them removes the Kubernetes object but does not delete the
   corresponding resource from Concourse"
   (docs/getting-started/installation.md:105). *)
NothingElseLeftBehind ==
  ~Exists(api) => \A n \in Names : atc[n] = NoAtcTeam \/ n \in abandoned

(* Members changed by others are put back and a team destroyed by others is
   created again, and the status has its ID, although no event announces it;
   the wake-ups by the controller's own status writes do not keep it from
   reading the latest spec. *)
EventuallyGranted ==
  <>[](Live(api) /\ instance) =>
    <>[](/\ GrantsRoles /\ api.id = atc[api.spec.name].id
         /\ api.observed = api.gen /\ api.ready = "Ready")

(* A deletion is not held up by the finalizer, nor by the controller waking
   itself. *)
DeletionCompletes == (api.state = "deleting") ~> ~Exists(api)
=============================================================================
