-------------------------------- MODULE Rotation --------------------------------
(***************************************************************************)
(* RollingUpgradeContext.RotateNodes: how admitted upgrades replace the    *)
(* instances of their scaling groups.  Each upgrade c owns one group, the  *)
(* instances i with Group[i] = c.  A reconcile discovers the group, picks  *)
(* a batch, tags it, (eager mode) moves it to standby and waits for the    *)
(* replacements, starts one drain goroutine per node when none of an       *)
(* earlier reconcile is left, and waits five seconds for an error or for   *)
(* the last goroutine before it terminates the batch.  The goroutines, the *)
(* tags and the scaling group outlive the reconcile.                       *)
(*                                                                         *)
(* Batches are sets: the order the AWS calls list instances in is theirs.  *)
(***************************************************************************)
EXTENDS Integers, FiniteSets

CONSTANTS
  CRs, Instances,
  Group,                 \* the upgrade that owns an instance's scaling group
  Initial,               \* the instances that run at the start
  Desired,               \* desired capacity of every group
  MaxUnavailable,        \* strategy.maxUnavailable, as a number of nodes
  Mode,                  \* strategy.mode
  ForceRefresh,          \* spec.forceRefresh
  IgnoreDrainFailures,
  Intervals,             \* which of the two configured delays are not zero
  MaxReplacementNodes,   \* --max-replacement-nodes, 0 for no limit
  Disruptions,           \* the kinds of disruption that happen
  MaxDisruptions         \* how many of them may happen

ASSUME ConstantsAssumption ==
  /\ IsFiniteSet(Instances)
  /\ Group \in [Instances -> CRs]
  /\ Initial \subseteq Instances
  /\ Desired \in Nat
  /\ MaxUnavailable \in Nat
  /\ Mode \in {"lazy", "eager"}
  /\ ForceRefresh \in BOOLEAN /\ IgnoreDrainFailures \in BOOLEAN
  /\ Intervals \subseteq {"termination", "drain"}
  /\ MaxReplacementNodes \in Nat
  /\ Disruptions \subseteq {"aws", "script", "drain", "update", "crash", "template", "resubmit"}
  /\ MaxDisruptions \in Nat

VARIABLES
  life,              \* lifecycle state of an instance in its group
  old,               \* instances that differ from the group's template
  tag,               \* EC2 tag upgrademgr.keikoproj.io/state
  nodes,             \* instances whose node has joined the cluster, ready
  ClusterNodesMap,   \* instances whose node object the controller has cached
  status,            \* status.currentStatus, as stored
  waiting,           \* delays since the stored drain and termination times
  drain,             \* the drain goroutine of an instance
  drained,           \* instances whose node has been drained
  ReplacementNodes,  \* the counter shared by all upgrades
  pc, ctx,           \* the reconcile of each upgrade, and its local state
  disruptions

cloudVars == <<life, old, tag, nodes>>
drainVars == <<drain, drained>>
crVars    == <<status, waiting>>
vars == <<cloudVars, ClusterNodesMap, crVars, drainVars, ReplacementNodes, pc, ctx, disruptions>>

NoTag       == "none"
InProgress  == "in-progress"
FailedDrain == "failed-drain"
Tags == {NoTag, InProgress, FailedDrain}

Serving   == {"Pending", "InService", "Standby"}
Lifecycle == Serving \cup {"NotLaunched", "Terminating", "Terminated"}

FiniteStates == {"completed", "error"}
Statuses == FiniteStates \cup {"init", "running"}

PCs == {"idle", "discover", "select", "replace", "balloon", "standby",
        "launch", "wait", "terminate", "decrement", "update"}

\* A goroutine that has an error to report blocks on DrainErrors.
Reporting == {"preErr", "drainErr", "postErr", "waitErr"}
DrainPCs  == Reporting \cup {"none", "predrain", "cordon", "drain", "postdrain", "postwait"}

GroupOf(c) == {i \in Instances : Group[i] = c}

\* What DrainGroup counts, and what DrainErrors is offered.
DrainGroup(c)  == {i \in GroupOf(c) : drain[i] # "none"}
DrainErrors(c) == {i \in GroupOf(c) : drain[i] \in Reporting}

NoCtx ==
  [nodes |-> {}, failed |-> {}, old |-> {}, inprog |-> {}, batch |-> {}, todo |-> {},
   life |-> [i \in Instances |-> "NotLaunched"], status |-> "init", waits |-> {}, count |-> 0,
   started |-> FALSE]

Goto(c, from, to) ==
  /\ pc[c] = from
  /\ pc' = [pc EXCEPT ![c] = to]

\* RotateNodes returned an error: Reconcile sets the status.
FailWith(c, from) ==
  /\ Goto(c, from, "update")
  /\ ctx' = [ctx EXCEPT ![c].status = "error"]

Disrupt(kind) ==
  /\ kind \in Disruptions /\ disruptions < MaxDisruptions
  /\ disruptions' = disruptions + 1

SetTag(S, value) == [i \in Instances |-> IF i \in S THEN value ELSE tag[i]]

\* Untagging names the value: a tag with another value stays.
Untag(S) == SetTag({i \in S : tag[i] = InProgress}, NoTag)

Init ==
  /\ life = [i \in Instances |-> IF i \in Initial THEN "InService" ELSE "NotLaunched"]
  /\ old = Initial
  /\ tag = [i \in Instances |-> NoTag]
  /\ nodes = Initial
  /\ ClusterNodesMap = {}
  /\ status = [c \in CRs |-> "init"]
  /\ waiting = [c \in CRs |-> {}]
  /\ drain = [i \in Instances |-> "none"]
  /\ drained = {}
  /\ ReplacementNodes = 0
  /\ pc = [c \in CRs |-> "idle"]
  /\ ctx = [c \in CRs |-> NoCtx]
  /\ disruptions = 0

--------------------------------------------------------------------------------
(***************************************************************************)
(* Context and discovery.  An empty ClusterNodesMap is filled from the API *)
(* before it is copied; a failed look-up of failed drains is only logged.  *)
(***************************************************************************)
Tagged(value) == {i \in Instances : tag[i] = value /\ life[i] # "Terminated"}

Begin(c, failed) ==
  LET cached == IF ClusterNodesMap = {} THEN nodes ELSE ClusterNodesMap IN
  /\ status[c] \notin FiniteStates
  /\ Goto(c, "idle", "discover")
  /\ ClusterNodesMap' = cached
  /\ ctx' = [ctx EXCEPT ![c] = [NoCtx EXCEPT !.nodes = cached, !.failed = failed,
                                             !.status = "running"]]
  /\ UNCHANGED <<cloudVars, crVars, drainVars, ReplacementNodes>>

BeginReconcile(c) == Begin(c, Tagged(FailedDrain)) /\ UNCHANGED disruptions

BeginUnaware(c) == Tagged(FailedDrain) # {} /\ Begin(c, {}) /\ Disrupt("aws")

\* IsInstanceDrifted, on the group as it was described (l, o).
IsInstanceDrifted(c, i, l, o) ==
  /\ l[i] \in Serving
  /\ i \in o
  /\ ForceRefresh => i \in ctx[c].nodes

\* Mutant: one drifted instance is not counted.
IsScalingGroupDriftedByMore(c) ==
  Cardinality({i \in GroupOf(c) : IsInstanceDrifted(c, i, life, old)}) > 1

IsScalingGroupDrifted(c) == \E i \in GroupOf(c) : IsInstanceDrifted(c, i, life, old)

Discover(c) ==
  /\ Goto(c, "discover", IF IsScalingGroupDrifted(c) THEN "select" ELSE "update")
  /\ ctx' = [ctx EXCEPT ![c] = [@ EXCEPT
                !.life = life, !.old = old, !.inprog = Tagged(InProgress),
                !.status = IF IsScalingGroupDrifted(c) THEN "running" ELSE "completed"]]
  /\ UNCHANGED <<cloudVars, ClusterNodesMap, crVars, drainVars, ReplacementNodes, disruptions>>

DiscoverFails(c) ==
  /\ FailWith(c, "discover")
  /\ Disrupt("aws")
  /\ UNCHANGED <<cloudVars, ClusterNodesMap, crVars, drainVars, ReplacementNodes>>

(***************************************************************************)
(* SelectTargets: instances in progress first, then drifted ones, up to    *)
(* the batch size.  An in-progress tag without a cached node, or on an     *)
(* instance outside this group, is an orphan and is removed.               *)
(***************************************************************************)
CalculateMaxUnavailable ==
  LET capped == IF MaxUnavailable > Desired THEN Desired ELSE MaxUnavailable IN
  IF capped = 0 THEN 1 ELSE capped

\* Mutant: instances in progress are not picked up again.
InprogressTargetsForgotten(c) == {}

InprogressTargets(c) ==
  {i \in ctx[c].inprog : Group[i] = c /\ ctx[c].life[i] \in Serving /\ i \in ctx[c].nodes}

Orphans(c) ==
  {i \in ctx[c].inprog :
     \/ Group[i] # c \/ ctx[c].life[i] \notin Serving \cup {"Terminating"}
     \/ ctx[c].life[i] \in Serving /\ i \notin ctx[c].nodes}

UnprocessedTargets(c, tags, excluded) ==
  {i \in GroupOf(c) \ excluded :
     tags[i] # InProgress /\ IsInstanceDrifted(c, i, ctx[c].life, ctx[c].old)}

Targets(c, tags, excluded) ==
  LET inprogress == InprogressTargets(c)
      all == inprogress \cup UnprocessedTargets(c, tags, excluded)
      size == IF CalculateMaxUnavailable > Cardinality(all) THEN Cardinality(all)
              ELSE CalculateMaxUnavailable
  IN {B \in SUBSET all : Cardinality(B) = size /\ (inprogress \subseteq B \/ B \subseteq inprogress)}

\* RotateNodes turns to the failed drains when there is nothing else.
Selection(c, tags) ==
  IF ctx[c].failed # {} /\ Targets(c, tags, ctx[c].failed) = {{}}
  THEN Targets(c, tags, {}) ELSE Targets(c, tags, ctx[c].failed)

Select(c, tags, batches) ==
  /\ Goto(c, "select", "replace")
  /\ tag' = tags
  /\ \E B \in batches : ctx' = [ctx EXCEPT ![c].batch = B]
  /\ UNCHANGED <<life, old, nodes, ClusterNodesMap, crVars, drainVars, ReplacementNodes>>

SelectTargets(c) ==
  Select(c, Untag(Orphans(c)), Selection(c, Untag(Orphans(c)))) /\ UNCHANGED disruptions

SelectUntagFails(c) ==
  Orphans(c) # {} /\ Select(c, tag, Selection(c, tag)) /\ Disrupt("aws")

SelectDescribeFails(c) ==
  /\ Select(c, Untag(Orphans(c)),
            {{}} \cup IF ctx[c].failed = {} THEN {} ELSE Targets(c, Untag(Orphans(c)), {}))
  /\ Disrupt("aws")

(***************************************************************************)
(* ReplaceNodeBatch, before the drain.  Both modes end with the check of   *)
(* the termination and drain delays.                                       *)
(***************************************************************************)
InService(c) == {i \in ctx[c].batch : ctx[c].life[i] = "InService"}

AfterDelays(c) == IF waiting[c] = {} THEN "launch" ELSE "update"

TagLazy(c) ==
  /\ Mode = "lazy"
  /\ Goto(c, "replace", AfterDelays(c))
  /\ tag' = SetTag(InService(c), InProgress)
  /\ UNCHANGED <<life, old, nodes, ClusterNodesMap, crVars, drainVars, ReplacementNodes, ctx, disruptions>>

\* EC2 may refuse to tag an empty list of instances.
TagLazyFails(c) ==
  /\ Mode = "lazy"
  /\ FailWith(c, "replace")
  /\ Disrupt("aws") \/ (InService(c) = {} /\ UNCHANGED disruptions)
  /\ UNCHANGED <<cloudVars, ClusterNodesMap, crVars, drainVars, ReplacementNodes>>

\* Eager mode.  ClusterBallooning loads the shared counter and stores it back
\* in two steps; an upgrade that may replace nothing waits for its next turn.
LoadReplacements(c) ==
  /\ Mode = "eager" /\ InService(c) # {}
  /\ Goto(c, "replace", "balloon")
  /\ ctx' = [ctx EXCEPT ![c].count = ReplacementNodes]
  /\ UNCHANGED <<cloudVars, ClusterNodesMap, crVars, drainVars, ReplacementNodes, disruptions>>

ClusterBallooning(count, batchSize) ==
  CASE MaxReplacementNodes = 0 \/ count + batchSize <= MaxReplacementNodes -> batchSize
    [] MaxReplacementNodes > 0 /\ count < MaxReplacementNodes /\ count + batchSize > MaxReplacementNodes
         -> MaxReplacementNodes - count
    [] OTHER -> 0

AllowedBatch(c) == ClusterBallooning(ctx[c].count, Cardinality(InService(c)))

StoreReplacements(c) ==
  ReplacementNodes' = IF MaxReplacementNodes = 0 THEN ReplacementNodes
                      ELSE ctx[c].count + AllowedBatch(c)

Ballooned(c) ==
  /\ AllowedBatch(c) = 0
  /\ Goto(c, "balloon", "update")
  /\ UNCHANGED <<cloudVars, ClusterNodesMap, crVars, drainVars, ReplacementNodes, ctx, disruptions>>

TagEager(c) ==
  /\ AllowedBatch(c) > 0
  /\ Goto(c, "balloon", "standby")
  /\ StoreReplacements(c)
  /\ \E S \in SUBSET InService(c) :
       /\ Cardinality(S) = AllowedBatch(c)
       /\ tag' = SetTag(S, InProgress)
       /\ ctx' = [ctx EXCEPT ![c].todo = S]
  /\ UNCHANGED <<life, old, nodes, ClusterNodesMap, crVars, drainVars, disruptions>>

TagEagerFails(c) ==
  /\ AllowedBatch(c) > 0
  /\ FailWith(c, "balloon")
  /\ StoreReplacements(c)
  /\ Disrupt("aws")
  /\ UNCHANGED <<cloudVars, ClusterNodesMap, crVars, drainVars>>

SetBatchStandBy(c) ==
  /\ Goto(c, "standby", "update")
  /\ life' = [i \in Instances |-> IF i \in ctx[c].todo THEN "Standby" ELSE life[i]]
  /\ UNCHANGED <<old, tag, nodes, ClusterNodesMap, crVars, drainVars, ReplacementNodes, ctx, disruptions>>

StandByFails(c) ==
  /\ Goto(c, "standby", "update")
  /\ Disrupt("aws")
  /\ UNCHANGED <<cloudVars, ClusterNodesMap, crVars, drainVars, ReplacementNodes, ctx>>

\* Mutant: instances in service are enough, their nodes are not awaited.
DesiredInstancesReady(c, list) ==
  Cardinality({i \in GroupOf(c) : ctx[c].life[i] = "InService"}) = Desired

\* Enough instances were in service, and enough of their nodes are ready in
\* the list of nodes (fresh, or the cached one when listing fails).
DesiredNodesReady(c, list) ==
  LET inService == {i \in GroupOf(c) : ctx[c].life[i] = "InService"} IN
  Cardinality(inService) = Desired /\ Cardinality(inService \cap list) = Desired

AwaitDesired(c, list) ==
  /\ Mode = "eager" /\ InService(c) = {}
  /\ Goto(c, "replace", IF DesiredNodesReady(c, list) THEN AfterDelays(c) ELSE "update")
  /\ UNCHANGED <<cloudVars, ClusterNodesMap, crVars, drainVars, ReplacementNodes, ctx>>

AwaitDesiredNodes(c) == AwaitDesired(c, nodes) /\ UNCHANGED disruptions

AwaitCachedNodes(c) == AwaitDesired(c, ctx[c].nodes) /\ Disrupt("aws")

(***************************************************************************)
(* The drain.  Goroutines start only when the WaitGroup is at zero.        *)
(***************************************************************************)
\* Mutant: drains are started although earlier ones still run.
LaunchDrainsAnyway(c) ==
  /\ Goto(c, "launch", "wait")
  /\ ctx' = [ctx EXCEPT ![c].started = (DrainGroup(c) = {})]
  /\ drain' = [i \in Instances |-> IF i \in ctx[c].batch \cap ctx[c].nodes
                                   THEN "predrain" ELSE drain[i]]
  /\ UNCHANGED <<cloudVars, ClusterNodesMap, crVars, drained, ReplacementNodes, disruptions>>

LaunchDrains(c) ==
  /\ Goto(c, "launch", "wait")
  /\ ctx' = [ctx EXCEPT ![c].started = (DrainGroup(c) = {})]
  /\ drain' = [i \in Instances |-> IF DrainGroup(c) = {} /\ i \in ctx[c].batch \cap ctx[c].nodes
                                   THEN "predrain" ELSE drain[i]]
  /\ UNCHANGED <<cloudVars, ClusterNodesMap, crVars, drained, ReplacementNodes, disruptions>>

DrainGoto(i, from, to) ==
  /\ drain[i] = from
  /\ drain' = [drain EXCEPT ![i] = to]
  /\ UNCHANGED <<life, old, nodes, ClusterNodesMap, crVars, ReplacementNodes, pc, ctx>>

\* A script that succeeds, or is not configured, and one that fails.
Script(i, from, to) == DrainGoto(i, from, to) /\ UNCHANGED <<tag, drained, disruptions>>

ScriptFails(i, from, to) == DrainGoto(i, from, to) /\ Disrupt("script") /\ UNCHANGED <<tag, drained>>

PreDrain(i) == Script(i, "predrain", "cordon")

PreDrainFails(i) == ScriptFails(i, "predrain", "preErr")

PostDrain(i) == Script(i, "postdrain", "postwait")

PostDrainFails(i) == ScriptFails(i, "postdrain", "postErr")

PostWait(i) == Script(i, "postwait", "none")

PostWaitFails(i) == ScriptFails(i, "postwait", "waitErr")

\* DrainNode cordons the node first.  Like every change of a node that is a node
\* event, now or later (NodeEvent); a node cordoned already is not patched.
CordonNode(i) ==
  /\ drain[i] = "cordon"
  /\ drain' = [drain EXCEPT ![i] = "drain"]
  /\ ClusterNodesMap' \in {ClusterNodesMap, ClusterNodesMap \ {i}}
  /\ UNCHANGED <<cloudVars, crVars, drained, ReplacementNodes, pc, ctx, disruptions>>

DrainNode(i) ==
  /\ DrainGoto(i, "drain", "postdrain")
  /\ drained' = drained \cup {i}
  /\ UNCHANGED <<tag, disruptions>>

\* An ignored failure counts as drained: the instance may be terminated.
DrainIgnored(i) ==
  /\ IgnoreDrainFailures
  /\ \E from \in {"cordon", "drain"} : DrainGoto(i, from, "postdrain")
  /\ Disrupt("drain")
  /\ drained' = drained \cup {i}
  /\ UNCHANGED tag

\* Mutant: a failed drain is always ignored.
DrainFailsIgnored(i) ==
  /\ \E from \in {"cordon", "drain"} : DrainGoto(i, from, "postdrain")
  /\ Disrupt("drain")
  /\ UNCHANGED <<tag, drained>>

\* The failed-drain tag replaces the in-progress one; if tagging fails too,
\* that is only logged.
DrainFails(i) ==
  /\ ~IgnoreDrainFailures
  /\ \E from \in {"cordon", "drain"} : DrainGoto(i, from, "drainErr")
  /\ Disrupt("drain")
  /\ tag' \in {SetTag({i}, FailedDrain), tag}
  /\ UNCHANGED drained

\* Where a goroutine goes on once its error has been received.
AfterReport == [e \in Reporting |-> CASE e = "preErr" -> "cordon" [] e = "postErr" -> "postwait"
                                      [] OTHER -> "none"]

ReceiveError(c) ==
  /\ FailWith(c, "wait")
  /\ \E i \in DrainErrors(c) : drain' = [drain EXCEPT ![i] = AfterReport[@]]
  /\ UNCHANGED <<cloudVars, ClusterNodesMap, crVars, drained, ReplacementNodes, disruptions>>

\* Mutant: a wait that times out goes on to terminate.
WaitTimesOutAndTerminates(c) ==
  /\ DrainGroup(c) # {} /\ DrainErrors(c) = {}
  /\ Goto(c, "wait", "terminate")
  /\ UNCHANGED <<cloudVars, ClusterNodesMap, crVars, drainVars, ReplacementNodes, ctx, disruptions>>

WaitTimesOut(c) ==
  /\ DrainGroup(c) # {} /\ DrainErrors(c) = {}
  /\ Goto(c, "wait", "update")
  /\ UNCHANGED <<cloudVars, ClusterNodesMap, crVars, drainVars, ReplacementNodes, ctx, disruptions>>

DrainsDone(c) ==
  /\ DrainGroup(c) = {}
  /\ Goto(c, "wait", "terminate")
  /\ ctx' = [ctx EXCEPT ![c].todo = ctx[c].batch \cap ctx[c].nodes,
                        ![c].waits = {"drain"} \cap Intervals]
  /\ UNCHANGED <<cloudVars, ClusterNodesMap, crVars, drainVars, ReplacementNodes, disruptions>>

(***************************************************************************)
(* Termination.  A failed call leaves the rest of the batch to the next    *)
(* reconcile; the shared counter is loaded and stored back in two steps.   *)
(***************************************************************************)
Terminate(c) ==
  /\ Goto(c, "terminate", "decrement")
  /\ \E i \in ctx[c].todo :
       /\ life' = [life EXCEPT ![i] = "Terminating"]
       /\ \/ tag' = Untag({i}) /\ UNCHANGED disruptions
          \/ UNCHANGED tag /\ Disrupt("aws")
       /\ ctx' = [ctx EXCEPT ![c] = [@ EXCEPT
                     !.todo = ctx[c].todo \ {i}, !.count = ReplacementNodes,
                     !.waits = ctx[c].waits \cup ({"termination"} \cap Intervals)]]
  /\ UNCHANGED <<old, nodes, ClusterNodesMap, crVars, drainVars, ReplacementNodes>>

TerminateFails(c) ==
  /\ ctx[c].todo # {}
  /\ Goto(c, "terminate", "update")
  /\ Disrupt("aws")
  /\ UNCHANGED <<cloudVars, ClusterNodesMap, crVars, drainVars, ReplacementNodes, ctx>>

BatchTerminated(c) ==
  /\ ctx[c].todo = {}
  /\ Goto(c, "terminate", "update")
  /\ UNCHANGED <<cloudVars, ClusterNodesMap, crVars, drainVars, ReplacementNodes, ctx, disruptions>>

\* Mutant: the counter is decremented below zero.
DecrementBelowZero(c) == ReplacementNodes' = ctx[c].count - 1

DecrementReplacements(c) ==
  ReplacementNodes' = IF ctx[c].count > 0 THEN ctx[c].count - 1 ELSE ReplacementNodes

PostTerminate(c) ==
  /\ Goto(c, "decrement", "terminate")
  /\ DecrementReplacements(c)
  /\ UNCHANGED <<cloudVars, ClusterNodesMap, crVars, drainVars, ctx, disruptions>>

PostTerminateFails(c) ==
  /\ FailWith(c, "decrement")
  /\ DecrementReplacements(c)
  /\ Disrupt("script")
  /\ UNCHANGED <<cloudVars, ClusterNodesMap, crVars, drainVars>>

\* The deferred status update; what a failed one would have stored is lost.
Return(c) ==
  /\ Goto(c, "update", "idle")
  /\ ctx' = [ctx EXCEPT ![c] = NoCtx]
  /\ UNCHANGED <<cloudVars, ClusterNodesMap, drainVars, ReplacementNodes>>

Update(c) ==
  /\ Return(c)
  /\ status' = [status EXCEPT ![c] = ctx[c].status]
  /\ waiting' = [waiting EXCEPT ![c] = @ \cup ctx[c].waits]
  /\ UNCHANGED disruptions

UpdateFails(c) == Return(c) /\ Disrupt("update") /\ UNCHANGED crVars

--------------------------------------------------------------------------------
(***************************************************************************)
(* The environment: a restart of the controller, the scaling groups, the   *)
(* nodes and their events, the delays and the users.                       *)
(***************************************************************************)
Crash ==
  /\ Disrupt("crash")
  /\ ClusterNodesMap' = {}
  /\ drain' = [i \in Instances |-> "none"]
  /\ ReplacementNodes' = 0
  /\ pc' = [c \in CRs |-> "idle"]
  /\ ctx' = [c \in CRs |-> NoCtx]
  /\ UNCHANGED <<cloudVars, crVars, drained>>

\* The scaling group keeps Desired instances pending or in service.
LaunchInstance(i) ==
  /\ life[i] = "NotLaunched"
  /\ Cardinality({j \in GroupOf(Group[i]) : life[j] \in {"Pending", "InService"}}) < Desired
  /\ life' = [life EXCEPT ![i] = "Pending"]
  /\ UNCHANGED <<old, tag, nodes, ClusterNodesMap, crVars, drainVars, ReplacementNodes, pc, ctx, disruptions>>

EnterService(i) ==
  /\ life[i] = "Pending"
  /\ life' = [life EXCEPT ![i] = "InService"]
  /\ UNCHANGED <<old, tag, nodes, ClusterNodesMap, crVars, drainVars, ReplacementNodes, pc, ctx, disruptions>>

\* The watch runs the create, update and delete handlers on every event, in
\* this order: whatever the event, the node ends outside ClusterNodesMap.
NodeEventsHandler(i) == ClusterNodesMap' = ClusterNodesMap \ {i}

JoinCluster(i) ==
  /\ life[i] \in {"Pending", "InService"} /\ i \notin nodes
  /\ nodes' = nodes \cup {i}
  /\ NodeEventsHandler(i)
  /\ UNCHANGED <<life, old, tag, crVars, drainVars, ReplacementNodes, pc, ctx, disruptions>>

Terminated(i) ==
  /\ life[i] = "Terminating"
  /\ life' = [life EXCEPT ![i] = "Terminated"]
  /\ nodes' = nodes \ {i}
  /\ NodeEventsHandler(i)
  /\ UNCHANGED <<old, tag, crVars, drainVars, ReplacementNodes, pc, ctx, disruptions>>

\* Any other change of a node, of its conditions by its kubelet for one.
NodeEvent(i) ==
  /\ i \in ClusterNodesMap
  /\ NodeEventsHandler(i)
  /\ UNCHANGED <<cloudVars, crVars, drainVars, ReplacementNodes, pc, ctx, disruptions>>

DelaysElapse(c) ==
  /\ waiting[c] # {}
  /\ waiting' = [waiting EXCEPT ![c] = {}]
  /\ UNCHANGED <<cloudVars, ClusterNodesMap, status, drainVars, ReplacementNodes, pc, ctx, disruptions>>

InstancesServing(c) == {i \in GroupOf(c) : life[i] \in Serving}

NewTemplate(c) ==
  /\ Disrupt("template")
  /\ old' = old \cup InstancesServing(c)
  /\ UNCHANGED <<life, tag, nodes, ClusterNodesMap, crVars, drainVars, ReplacementNodes, pc, ctx>>

\* A finished upgrade is deleted and one with the same name is created.  With
\* forceRefresh every node is older than the new upgrade.
Resubmit(c) ==
  /\ pc[c] = "idle" /\ status[c] \in FiniteStates
  /\ Disrupt("resubmit")
  /\ status' = [status EXCEPT ![c] = "init"]
  /\ waiting' = [waiting EXCEPT ![c] = {}]
  /\ old' = IF ForceRefresh THEN old \cup InstancesServing(c) ELSE old
  /\ UNCHANGED <<life, tag, nodes, ClusterNodesMap, drainVars, ReplacementNodes, pc, ctx>>

Discovery(c) == BeginReconcile(c) \/ BeginUnaware(c) \/ Discover(c) \/ DiscoverFails(c)
Choice(c) == SelectTargets(c) \/ SelectUntagFails(c) \/ SelectDescribeFails(c)
Lazy(c) == TagLazy(c) \/ TagLazyFails(c)
Eager(c) ==
  \/ LoadReplacements(c) \/ Ballooned(c) \/ TagEager(c) \/ TagEagerFails(c)
  \/ SetBatchStandBy(c) \/ StandByFails(c) \/ AwaitDesiredNodes(c) \/ AwaitCachedNodes(c)
AwaitDrains(c) == LaunchDrains(c) \/ ReceiveError(c) \/ WaitTimesOut(c) \/ DrainsDone(c)
Termination(c) ==
  \/ Terminate(c) \/ TerminateFails(c) \/ BatchTerminated(c)
  \/ PostTerminate(c) \/ PostTerminateFails(c)
Reconcile(c) ==
  \/ Discovery(c) \/ Choice(c) \/ Lazy(c) \/ Eager(c) \/ AwaitDrains(c) \/ Termination(c)
  \/ Update(c) \/ UpdateFails(c)

Goroutine(i) ==
  \/ PreDrain(i) \/ PreDrainFails(i) \/ CordonNode(i) \/ DrainNode(i) \/ DrainIgnored(i) \/ DrainFails(i)
  \/ PostDrain(i) \/ PostDrainFails(i) \/ PostWait(i) \/ PostWaitFails(i)

Cloud(i) == LaunchInstance(i) \/ EnterService(i) \/ JoinCluster(i) \/ Terminated(i)

Next ==
  \/ \E c \in CRs : Reconcile(c) \/ DelaysElapse(c) \/ NewTemplate(c) \/ Resubmit(c)
  \/ \E i \in Instances : Goroutine(i) \/ Cloud(i) \/ NodeEvent(i)
  \/ Crash

Spec == Init /\ [][Next]_vars

\* Unfinished upgrades are requeued, goroutines run, the scaling group
\* replaces what is missing, kubelets report the condition of their nodes every
\* few minutes, and time passes.
Fairness ==
  /\ \A c \in CRs : WF_vars(Reconcile(c)) /\ WF_vars(DelaysElapse(c))
  /\ \A i \in Instances : WF_vars(Goroutine(i)) /\ WF_vars(Cloud(i)) /\ WF_vars(NodeEvent(i))

FairSpec == Spec /\ Fairness

\* In the end the drains of a batch fit in the five seconds of a wait.
TimelySpec == FairSpec /\ \A c \in CRs : <>[][~WaitTimesOut(c)]_vars

--------------------------------------------------------------------------------
(***************************************************************************)
(* Properties.                                                             *)
(***************************************************************************)

Contexts ==
  [nodes : SUBSET Instances, failed : SUBSET Instances, old : SUBSET Instances,
   inprog : SUBSET Instances, batch : SUBSET Instances, todo : SUBSET Instances,
   life : [Instances -> Lifecycle], status : Statuses,
   waits : SUBSET Intervals, count : Nat, started : BOOLEAN]

\* The types of the variables.
TypeOK ==
  /\ life \in [Instances -> Lifecycle]
  /\ old \in SUBSET Instances
  /\ tag \in [Instances -> Tags]
  /\ nodes \in SUBSET Instances
  /\ ClusterNodesMap \in SUBSET Instances
  /\ status \in [CRs -> Statuses]
  /\ waiting \in [CRs -> SUBSET Intervals]
  /\ drain \in [Instances -> DrainPCs]
  /\ drained \in SUBSET Instances
  /\ ReplacementNodes \in Nat
  /\ pc \in [CRs -> PCs]
  /\ ctx \in [CRs -> Contexts]
  /\ disruptions \in 0..MaxDisruptions

\* ReplaceNodeBatch terminates a batch only after DrainGroup.Wait returned:
\* while it terminates, no drain goroutine of the upgrade is left, whichever
\* reconcile (or earlier upgrade of that name) started it.
NoTerminateWhileDraining ==
  \A c \in CRs : pc[c] \in {"terminate", "decrement"} => DrainGroup(c) = {}

\* However many reconciles time out, fail or repeat a batch, no more than
\* CalculateMaxUnavailable drain goroutines of a group exist.
DrainsBounded == \A c \in CRs : Cardinality(DrainGroup(c)) <= CalculateMaxUnavailable

\* "instances drained successfully, terminating": what is terminated has been
\* drained (or its failure to drain was ignored).
DrainedBeforeTerminated ==
  \A i \in Instances : life[i] \in {"Terminating", "Terminated"} => i \in drained

\* A reconcile that started the drains of its batch itself terminates an instance
\* only when its drain has succeeded (or its failure was ignored), whatever events,
\* errors and time-outs come in between.  One that found drains of an earlier
\* reconcile under way has no such guarantee: see DrainedBeforeTerminated.
OwnBatchIsDrained ==
  \A c \in CRs :
    pc[c] \in {"terminate", "decrement"} /\ ctx[c].started => ctx[c].todo \subseteq drained

\* A completed upgrade leaves no instance of its group out of date.
CompletedMeansRotated ==
  \A c \in CRs : status[c] = "completed" => InstancesServing(c) \cap old = {}

Available(c) ==
  {i \in GroupOf(c) : life[i] \in {"InService", "Standby"} /\ i \in nodes /\ i \notin drained}

\* Eager mode adds the replacements first: a group never has fewer than its
\* desired number of joined nodes that are not drained.
EagerKeepsCapacity == \A c \in CRs : Cardinality(Available(c)) >= Desired

\* maxUnavailable, "the number of nodes that can be unavailable during rolling
\* upgrade".
AtMostMaxUnavailable ==
  \A c \in CRs : Desired - Cardinality(Available(c)) <= CalculateMaxUnavailable

\* "Instance is not in the scaling group anymore so we clean up its tag": the
\* in-progress tag of an instance that serves is only removed by a step of the
\* upgrade of its own group.
TagKeptByOthers ==
  [][\A i \in Instances :
       tag[i] = InProgress /\ tag'[i] = NoTag /\ life[i] \in Serving
         => pc'[Group[i]] # pc[Group[i]]]_vars

\* Whatever call or script fails once, an upgrade ends: every drifted instance
\* is drained and terminated, or an error is stored.
UpgradeEnds == \A c \in CRs : <>(status[c] \in FiniteStates)

\* "goroutines completed, terminate and requeue": an instance whose drain
\* goroutine has completed is terminated, unless its upgrade fails.
CompletedDrainIsTerminated ==
  \A i \in Instances : (i \in drained /\ drain[i] = "none") ~>
      (life[i] \notin Serving \/ status[Group[i]] \in FiniteStates)

\* --max-replacement-nodes, "The max number of replacement nodes allowed in a
\* cluster": the groups have no more nodes beyond their desired capacity than that.
ReplacementNodesAllowed ==
  MaxReplacementNodes > 0 =>
    Cardinality({i \in nodes : life[i] \in Serving})
      <= Cardinality(CRs) * Desired + MaxReplacementNodes

\* ClusterBallooning: however loads and stores of the counter interleave, the
\* counter never passes --max-replacement-nodes.
ReplacementsWithinLimit ==
  MaxReplacementNodes > 0 => ReplacementNodes <= MaxReplacementNodes

--------------------------------------------------------------------------------
(***************************************************************************)
(* Rotation implements DrainGate: the wait group of an upgrade separates   *)
(* its drains from its terminations, whatever fails, times out or restarts.*)
(***************************************************************************)
InTermination == {c \in CRs : pc[c] \in {"terminate", "decrement"}}

Gone == {i \in Instances : life[i] \in {"Terminating", "Terminated"}}

AllowedBatches == {B \in SUBSET Instances : Cardinality(B) <= CalculateMaxUnavailable}

Gate == INSTANCE DrainGate WITH
  Upgrades    <- CRs,
  Batches     <- AllowedBatches,
  running     <- [c \in CRs |-> DrainGroup(c)],
  terminating <- InTermination,
  gone        <- Gone

\* Draining and terminating take turns: every step of Rotation is a step of the
\* drain manager's abstract specification, or leaves its state alone.
ImplementsDrainGate == Gate!Spec
================================================================================
