------------------------------- MODULE Admission -------------------------------
(***************************************************************************)
(* How RollingUpgradeReconciler.Reconcile admits a RollingUpgrade: the     *)
(* look-up of the resource, the ReconcileMap and AdmissionMap checks, the  *)
(* recovery of running resources after a restart, and the deferred Update  *)
(* of the status and the label.  The work of RotateNodes is one step here; *)
(* module Rotation gives its detail.                                       *)
(*                                                                         *)
(* controller-runtime never runs two reconciles of one key at a time, so   *)
(* the reconcile of resource c is one process with control state pc[c];    *)
(* at most MaxParallel of them run at once (MaxConcurrentReconciles).      *)
(* Every read or write of a shared map is a step of its own.               *)
(***************************************************************************)
EXTENDS Integers, FiniteSets

CONSTANTS
  CRs,           \* names of RollingUpgrade resources
  ASGs,          \* names of scaling groups
  NoASG,         \* "no entry" in the AdmissionMap
  InitialASG,    \* the scaling group each resource is submitted with
  MaxParallel,   \* r.maxParallel
  Disruptions,   \* what may happen: failing API calls ("api"), restarts of the
                 \* controller ("crash"), resources created, deleted ("user") and
                 \* edited ("edit")
  MaxDisruptions \* bound on their number

ASSUME ConstantsAssumption ==
  /\ IsFiniteSet(CRs)
  /\ NoASG \notin ASGs
  /\ MaxParallel \in Nat \ {0}
  /\ InitialASG \in [CRs -> ASGs]
  /\ Disruptions \subseteq {"api", "crash", "user", "edit"}
  /\ MaxDisruptions \in Nat

VARIABLES
  live,          \* the resources that exist in the API server
  asgName,       \* spec.asgName
  valid,         \* the resources whose spec passes Validate
  status,        \* status.currentStatus, as stored
  label,         \* the current-status label, as stored
  AdmissionMap,  \* resource -> scaling group, or NoASG
  ReconcileMap,  \* resources with an entry in the ReconcileMap
  pc,            \* where the reconcile of each resource is
  ru,            \* the in-memory copy a reconcile works on
  listed,        \* running resources a recovery has still to store
  queue,         \* the keys due for a reconcile, those being reconciled included
  disruptions    \* the number of disruptions so far

apiVars == <<live, asgName, valid, status, label>>
mapVars == <<AdmissionMap, ReconcileMap>>
vars == <<apiVars, mapVars, pc, ru, listed, queue, disruptions>>

None      == "none"
Init_     == "init"
Running   == "running"
Completed == "completed"
Error     == "error"

Statuses     == {None, Init_, Running, Completed, Error}
\* Mutant: the final status is misspelt.
FiniteStatesMisspelt == {"complete", Error}

FiniteStates == {Completed, Error}

PCs == {"idle", "size", "list", "store", "range", "limit", "load", "admit",
        "populate", "rotate", "update", "patch"}

Admitted == {c \in CRs : AdmissionMap[c] # NoASG}
Active   == {c \in CRs : pc[c] # "idle"}

\* The worker pool: a reconcile needs a worker to run on.
WorkerFree == Cardinality(Active) < MaxParallel

Copies == [asg : ASGs \cup {NoASG}, status : Statuses, fresh : BOOLEAN]

NoRU == [asg |-> NoASG, status |-> None, fresh |-> FALSE]

Goto(c, from, to) ==
  /\ pc[c] = from
  /\ pc' = [pc EXCEPT ![c] = to]

\* A reconcile that returns drops its copy of the resource.
Return(c, from) ==
  /\ Goto(c, from, "idle")
  /\ ru' = [ru EXCEPT ![c] = NoRU]

Disrupt(kind) ==
  /\ kind \in Disruptions /\ disruptions < MaxDisruptions
  /\ disruptions' = disruptions + 1

Init ==
  /\ live \in SUBSET CRs
  /\ asgName = InitialASG
  /\ valid = CRs
  /\ status = [c \in CRs |-> None]
  /\ label = [c \in CRs |-> None]
  /\ AdmissionMap = [c \in CRs |-> NoASG]
  /\ ReconcileMap = {}
  /\ pc = [c \in CRs |-> "idle"]
  /\ ru = [c \in CRs |-> NoRU]
  /\ listed = [c \in CRs |-> {}]
  /\ queue = live
  /\ disruptions = 0

(***************************************************************************)
(* Reconcile, up to the ReconcileMap.  A resource that is gone or finished *)
(* leaves the AdmissionMap.  A spec that does not validate ends the        *)
(* reconcile and changes nothing, not even through the deferred Update.    *)
(*                                                                         *)
(* Events of a resource put its key on the queue.  The two releases take   *)
(* it off; every other return asks for another reconcile, so a key that is *)
(* started simply stays there.                                             *)
(***************************************************************************)
ReleaseDeleted(c) ==
  /\ pc[c] = "idle" /\ WorkerFree
  /\ c \in queue \ live
  /\ queue' = queue \ {c}
  /\ AdmissionMap' = [AdmissionMap EXCEPT ![c] = NoASG]
  /\ UNCHANGED <<apiVars, ReconcileMap, pc, ru, listed, disruptions>>

ReleaseFinished(c) ==
  /\ pc[c] = "idle" /\ WorkerFree
  /\ c \in queue \cap live
  /\ status[c] \in FiniteStates
  /\ queue' = queue \ {c}
  /\ AdmissionMap' = [AdmissionMap EXCEPT ![c] = NoASG]
  /\ UNCHANGED <<apiVars, ReconcileMap, pc, ru, listed, disruptions>>

\* Mutant: finite states are not checked.
StartAgain(c) ==
  /\ c \in queue \cap live \cap valid
  /\ WorkerFree
  /\ ru' = [ru EXCEPT ![c] =
              [asg    |-> asgName[c],
               status |-> IF status[c] = None THEN Init_ ELSE status[c],
               fresh  |-> TRUE]]
  /\ Goto(c, "idle", IF c \in ReconcileMap THEN "update" ELSE "size")
  /\ ReconcileMap' = ReconcileMap \cup {c}
  /\ UNCHANGED <<apiVars, AdmissionMap, listed, queue, disruptions>>

Start(c) ==
  /\ c \in queue \cap live \cap valid
  /\ status[c] \notin FiniteStates
  /\ WorkerFree
  /\ ru' = [ru EXCEPT ![c] =
              [asg    |-> asgName[c],
               status |-> IF status[c] = None THEN Init_ ELSE status[c],
               fresh  |-> TRUE]]
  /\ Goto(c, "idle", IF c \in ReconcileMap THEN "update" ELSE "size")
  /\ ReconcileMap' = ReconcileMap \cup {c}
  /\ UNCHANGED <<apiVars, AdmissionMap, listed, queue, disruptions>>

(***************************************************************************)
(* An empty AdmissionMap may mean that the controller was restarted: the   *)
(* resources that are labelled running and are running are stored again,   *)
(* one Store at a time.                                                    *)
(***************************************************************************)
CheckEmpty(c) ==
  /\ Goto(c, "size", IF Admitted = {} THEN "list" ELSE "range")
  /\ UNCHANGED <<apiVars, mapVars, ru, listed, queue, disruptions>>

RunningCRs == {d \in live : label[d] = Running /\ status[d] = Running}

ListRunning(c) ==
  /\ Goto(c, "list", IF RunningCRs = {} THEN "range" ELSE "store")
  /\ listed' = [listed EXCEPT ![c] = {<<d, asgName[d]>> : d \in RunningCRs}]
  /\ UNCHANGED <<apiVars, mapVars, ru, queue, disruptions>>

ListFails(c) ==
  /\ Goto(c, "list", "update")
  /\ Disrupt("api")
  /\ UNCHANGED <<apiVars, mapVars, ru, listed, queue>>

\* Mutant: the recovered entries replace the map.
StoreRecoveredAnew(c) ==
  \E item \in listed[c] :
    /\ Goto(c, "store", IF listed[c] = {item} THEN "range" ELSE "store")
    /\ AdmissionMap' = [d \in CRs |-> IF d = item[1] THEN item[2] ELSE NoASG]
    /\ listed' = [listed EXCEPT ![c] = @ \ {item}]
    /\ UNCHANGED <<apiVars, ReconcileMap, ru, queue, disruptions>>

StoreRecovered(c) ==
  \E item \in listed[c] :
    /\ Goto(c, "store", IF listed[c] = {item} THEN "range" ELSE "store")
    /\ AdmissionMap' = [AdmissionMap EXCEPT ![item[1]] = item[2]]
    /\ listed' = [listed EXCEPT ![c] = @ \ {item}]
    /\ UNCHANGED <<apiVars, ReconcileMap, ru, queue, disruptions>>

(***************************************************************************)
(* The looks at the AdmissionMap: is another resource working on this      *)
(* scaling group, is there room for one more or an entry already, and the  *)
(* entry itself.                                                           *)
(***************************************************************************)
ASGTaken(c) == \E d \in CRs \ {c} : AdmissionMap[d] = ru[c].asg

CheckASG(c) ==
  /\ Goto(c, "range", IF ASGTaken(c) THEN "update" ELSE "limit")
  /\ UNCHANGED <<apiVars, mapVars, ru, listed, queue, disruptions>>

CheckLimit(c) ==
  /\ Goto(c, "limit", IF Cardinality(Admitted) >= MaxParallel THEN "load" ELSE "admit")
  /\ UNCHANGED <<apiVars, mapVars, ru, listed, queue, disruptions>>

\* Mutant: the limit holds for the admitted ones too.
TurnAway(c) ==
  /\ Goto(c, "load", "update")
  /\ UNCHANGED <<apiVars, mapVars, ru, listed, queue, disruptions>>

\* At the limit only a resource with an entry goes on.
CheckAdmitted(c) ==
  /\ Goto(c, "load", IF c \in Admitted THEN "admit" ELSE "update")
  /\ UNCHANGED <<apiVars, mapVars, ru, listed, queue, disruptions>>

Admit(c) ==
  /\ Goto(c, "admit", "populate")
  /\ AdmissionMap' = [AdmissionMap EXCEPT ![c] = IF @ = NoASG THEN ru[c].asg ELSE @]
  /\ UNCHANGED <<apiVars, ReconcileMap, ru, listed, queue, disruptions>>

(***************************************************************************)
(* ensureClusterNodesMapPopulated, and RotateNodes as one step with its    *)
(* three results: more to do, all rotated, failed.                         *)
(***************************************************************************)
Populate(c) ==
  /\ Goto(c, "populate", "rotate")
  /\ ru' = [ru EXCEPT ![c].status = Running]
  /\ UNCHANGED <<apiVars, mapVars, listed, queue, disruptions>>

PopulateFails(c) ==
  /\ Goto(c, "populate", "update")
  /\ Disrupt("api")
  /\ UNCHANGED <<apiVars, mapVars, ru, listed, queue>>

RotateMore(c) ==
  /\ Goto(c, "rotate", "update")
  /\ UNCHANGED <<apiVars, mapVars, ru, listed, queue, disruptions>>

RotateEnds(c) ==
  /\ Goto(c, "rotate", "update")
  /\ \E s \in FiniteStates : ru' = [ru EXCEPT ![c].status = s]
  /\ UNCHANGED <<apiVars, mapVars, listed, queue, disruptions>>

(***************************************************************************)
(* The deferred Update: the ReconcileMap entry goes first, then the status *)
(* is written (refused when the object changed since it was read), then    *)
(* the label is patched (by name, so it reaches a re-created object too).  *)
(***************************************************************************)
UpdateStatus(c) ==
  /\ c \in live /\ ru[c].fresh
  /\ Goto(c, "update", "patch")
  /\ ReconcileMap' = ReconcileMap \ {c}
  /\ status' = [status EXCEPT ![c] = ru[c].status]
  /\ UNCHANGED <<live, asgName, valid, label, AdmissionMap, ru, listed, queue, disruptions>>

UpdateConflicts(c) ==
  /\ ~(c \in live /\ ru[c].fresh)
  /\ Return(c, "update")
  /\ ReconcileMap' = ReconcileMap \ {c}
  /\ UNCHANGED <<apiVars, AdmissionMap, listed, queue, disruptions>>

\* Mutant: the ReconcileMap entry is deleted after a successful update only.
UpdateFailsKeeps(c) ==
  /\ Return(c, "update")
  /\ Disrupt("api")
  /\ UNCHANGED <<apiVars, mapVars, listed, queue>>

UpdateFails(c) ==
  /\ Return(c, "update")
  /\ Disrupt("api")
  /\ ReconcileMap' = ReconcileMap \ {c}
  /\ UNCHANGED <<apiVars, AdmissionMap, listed, queue>>

PatchLabel(c) ==
  /\ Return(c, "patch")
  /\ label' = IF c \in live THEN [label EXCEPT ![c] = ru[c].status] ELSE label
  /\ UNCHANGED <<live, asgName, valid, status, mapVars, listed, queue, disruptions>>

PatchFails(c) ==
  /\ Return(c, "patch")
  /\ Disrupt("api")
  /\ UNCHANGED <<apiVars, mapVars, listed, queue>>

(***************************************************************************)
(* The environment: users, and the controller process dying.               *)
(***************************************************************************)
Create(c) ==
  /\ c \notin live
  /\ Disrupt("user")
  /\ live' = live \cup {c}
  /\ asgName' = [asgName EXCEPT ![c] = InitialASG[c]]
  /\ valid' = valid \cup {c}
  /\ status' = [status EXCEPT ![c] = None]
  /\ label' = [label EXCEPT ![c] = None]
  /\ queue' = queue \cup {c}
  /\ UNCHANGED <<mapVars, pc, ru, listed>>

Delete(c) ==
  /\ c \in live
  /\ Disrupt("user")
  /\ live' = live \ {c}
  /\ queue' = queue \cup {c}
  /\ ru' = [ru EXCEPT ![c].fresh = FALSE]
  /\ UNCHANGED <<asgName, valid, status, label, mapVars, pc, listed>>

Edit(c, g) ==
  /\ c \in live
  /\ Disrupt("edit")
  /\ asgName' = [asgName EXCEPT ![c] = g]
  /\ valid' \in {valid \cup {c}, valid \ {c}}
  /\ ru' = [ru EXCEPT ![c].fresh = FALSE]
  /\ queue' = queue \cup {c}
  /\ UNCHANGED <<live, status, label, mapVars, pc, listed>>

Crash ==
  /\ Disrupt("crash")
  /\ AdmissionMap' = [c \in CRs |-> NoASG]
  /\ ReconcileMap' = {}
  /\ pc' = [c \in CRs |-> "idle"]
  /\ listed' = [c \in CRs |-> {}]
  /\ queue' = live
  /\ ru' = [c \in CRs |-> NoRU]
  /\ UNCHANGED apiVars

Enter(c) == ReleaseDeleted(c) \/ ReleaseFinished(c) \/ Start(c)

Reconcile(c) ==
  \/ Enter(c)
  \/ CheckEmpty(c) \/ ListRunning(c) \/ ListFails(c) \/ StoreRecovered(c)
  \/ CheckASG(c) \/ CheckLimit(c) \/ CheckAdmitted(c) \/ Admit(c)
  \/ Populate(c) \/ PopulateFails(c) \/ RotateMore(c) \/ RotateEnds(c)
  \/ UpdateStatus(c) \/ UpdateConflicts(c) \/ UpdateFails(c)
  \/ PatchLabel(c) \/ PatchFails(c)

User(c) ==
  \/ Create(c) \/ Delete(c)
  \/ \E g \in ASGs : Edit(c, g)

Next ==
  \/ \E c \in CRs : Reconcile(c) \/ User(c)
  \/ Crash

Spec == Init /\ [][Next]_vars

(***************************************************************************)
(* Fairness.  A reconcile that runs keeps running.  The work queue is      *)
(* first-in first-out, so a key that is due gets a worker in the end (SF:  *)
(* others take the workers in between).  That a rotation which runs again  *)
(* and again ends is what module Rotation shows.                           *)
(***************************************************************************)
Step(c) ==
  \/ CheckEmpty(c) \/ ListRunning(c) \/ StoreRecovered(c)
  \/ CheckASG(c) \/ CheckLimit(c) \/ CheckAdmitted(c) \/ Admit(c)
  \/ Populate(c) \/ RotateMore(c) \/ RotateEnds(c)
  \/ UpdateStatus(c) \/ UpdateConflicts(c) \/ PatchLabel(c)

Fairness ==
  \A c \in CRs :
    /\ WF_vars(Step(c))
    /\ SF_vars(Enter(c))
    /\ SF_vars(RotateEnds(c))

FairSpec == Spec /\ Fairness

--------------------------------------------------------------------------------
\* The types of the variables.
TypeOK ==
  /\ live \subseteq CRs
  /\ asgName \in [CRs -> ASGs]
  /\ valid \subseteq CRs
  /\ status \in [CRs -> Statuses]
  /\ label \in [CRs -> Statuses]
  /\ AdmissionMap \in [CRs -> ASGs \cup {NoASG}]
  /\ ReconcileMap \subseteq CRs
  /\ pc \in [CRs -> PCs]
  /\ ru \in [CRs -> Copies]
  /\ listed \in [CRs -> SUBSET (CRs \X ASGs)]
  /\ queue \subseteq CRs
  /\ disruptions \in 0..MaxDisruptions

\* A reconcile that reached RotateNodes holds an entry of the AdmissionMap:
\* no other reconcile, recovery or release takes it away while it works.
RotatingIsAdmitted ==
  \A c \in CRs : pc[c] \in {"populate", "rotate"} => c \in Admitted

\* The ReconcileMap holds exactly the reconciles between its LoadOrStore and
\* the deferred Update.  A reconcile that starts therefore never finds its
\* own entry: the check at its entry turns nobody away.
ReconcileMapIsExact ==
  \A c \in CRs : c \in ReconcileMap <=> pc[c] \notin {"idle", "patch"}

\* While a resource exists its status only moves forward, from none over
\* init and running to one of the two final states, and stays there.
Rank == [s \in Statuses |-> CASE s = None -> 0 [] s = Init_ -> 1 [] s = Running -> 2
                               [] s \in FiniteStates -> 3]
StatusOnlyAdvances ==
  [][\A c \in live \cap live' :
       \/ status'[c] = status[c]
       \/ Rank[status[c]] < Rank[status'[c]]]_vars

\* rollingupgrade_controller.go:129 "at any given point in time, there should
\* be only one reconcile operation running per ASG".
OneReconcilePerASG ==
  \A c, d \in CRs :
    pc[c] = "rotate" /\ pc[d] = "rotate" /\ ru[c].asg = ru[d].asg => c = d

\* What turns a resource away: an entry of another one for its scaling group, or a
\* full map without an entry of its own.
HeldUp(c) ==
  \/ \E d \in CRs \ {c} : AdmissionMap[d] = asgName[c]
  \/ c \notin Admitted /\ Cardinality(Admitted) >= MaxParallel

\* A resource that exists and is valid is completed or fails in the end, whatever
\* restarts, API failures, edits and other resources come in between, unless the
\* entries of others hold it up for ever.  (They can: see the property below.  But
\* nothing else can, no key lost by the queue, no entry of the ReconcileMap and no
\* entry of its own that a recovery or an earlier resource of its name left.)
EndsUnlessHeldUp ==
  \A c \in CRs :
    \/ <>[]HeldUp(c)
    \/ c \in live ~> (c \notin live \cap valid \/ status[c] \in FiniteStates)

\* rollingupgrade_controller.go:164 "requeue any resources which are already
\* being processed by a different resource, until the resource is completed/
\* deleted": a resource that holds a scaling group against another one works
\* on it, or lets it go, in the end.
TurnedAwayForAWorkingResource ==
  \A c, d \in CRs :
    c # d /\ pc[c] = "range" /\ AdmissionMap[d] = ru[c].asg
      ~> (pc[d] = "rotate" \/ AdmissionMap[d] = NoASG)
================================================================================
