# Upgrade-manager in TLA+

Upgrade-manager is a Kubernetes controller. A `RollingUpgrade` resource names an
AWS scaling group; the controller replaces the instances of that group that
differ from the group's template, batch by batch: tag, (eager mode) standby and
wait for replacements, drain, terminate. This directory models the control of
that program, checks it with TLC on small instances and proves its central
safety properties with TLAPS for every instance.

## 1. The system

| Part | State | Operations | Modelled in |
|---|---|---|---|
| Reconcile, admission | `AdmissionMap`, `ReconcileMap`, status and label of a resource | look-up and release, recovery after a restart, same-ASG check, `maxParallel` check, `LoadOrStore`, deferred `Update` | `Admission` |
| RotateNodes, discovery | per-reconcile context | failed-drain look-up, `Discover`, drift check, completion | `Rotation` |
| SelectTargets | EC2 tags | orphaned tags, in-progress targets, drifted targets; order over the zones, batch size | `Rotation`; `TargetSelection` |
| Drift check | scaling group, launch templates, node objects | launch configuration, template or policy against the instance, forced refresh | `Drift` |
| ReplaceNodeBatch | tags, lifecycle states, `ReplacementNodes`, stored drain and termination times | lazy and eager preparation, delays, wait, terminate, PostTerminate | `Rotation` |
| Drain manager | a `WaitGroup` and an unbuffered error channel per resource name | goroutine per node: PreDrain, cordon, drain, PostDrain, PostWait | `Rotation`, abstractly `DrainGate` |
| Node cache | `ClusterNodesMap` | `NodeEventsHandler`, `ensureClusterNodesMapPopulated` | `Rotation` (presence of nodes), `EarlyCordon` (cordon, annotation), `Drift` (age) |
| Early cordon | node objects and their annotations | cordon and annotate, retry, roll back, clean up | `EarlyCordon` |
| Step statistics | `nodeInProcessing`, `statistics` of the status | steps of a node, sums, their way into the status | `StepMetrics` |
| `Validate`, `CalculateMaxUnavailable` | `spec.strategy` | acceptance, defaults, batch size | `TargetSelection` |
| Events, logging, Prometheus, deep copies | none the upgrade depends on | | not modelled |

What makes it hard: up to `maxParallel` reconciles run at once over shared maps
without a common lock; drain goroutines, tags and the counter outlive the
reconcile that made them; a reconcile works on copies (of the resource, the
node cache, the scaling group) that age while it runs; every cloud or API call
may fail; the process may die between any two steps, losing the maps and
goroutines and keeping tags and statuses. `PROJECT.json` lists the hazards with
the line of code each is about.

## 2. Modules

### Admission

One process per resource: controller-runtime never reconciles one key twice at
a time, so `pc[c]` is the place of the reconcile of `c`, and `WorkerFree` is
`MaxConcurrentReconciles`. Each access to a shared map and each API call is one
step, in the order of the code:

| Action | `rollingupgrade_controller.go` |
|---|---|
| `ReleaseDeleted`, `ReleaseFinished` | not found / being deleted / finite state: entry deleted (84-107) |
| `Start` | copy of the resource, `init`, `ReconcileMap.LoadOrStore` (101-133) |
| `CheckEmpty`, `ListRunning`, `ListFails`, `StoreRecovered` | recovery, one `Store` at a time (135-149) |
| `CheckASG`, `CheckLimit`, `CheckAdmitted`, `Admit` | `Range`, length, `Load`, `LoadOrStore` (151-189) |
| `Populate`, `PopulateFails`, `RotateMore`, `RotateEnds` | the call of `RotateNodes` and its results (194-239) |
| `UpdateStatus`, `UpdateConflicts`, `UpdateFails`, `PatchLabel`, `PatchFails` | `Update` (310-322) |
| `Create`, `Delete`, `Edit`, `Crash` | users; the process dies |

`ru[c]` is the in-memory copy; `fresh` says whether the API server would still
accept a status update made from it. `queue` has the keys that are due for a
reconcile: every event of a resource puts its key there, a restart all of them.
The two releases take it off, since they return without a requeue; every other
return asks for another reconcile, so a key that is started stays. (The resync
of the informers every ten hours is left out: it would heal some stray entries
of the AdmissionMap late.)

### Rotation

Each upgrade `c` owns a scaling group, the instances `i` with `Group[i] = c`.
`ctx[c]` is the `RollingUpgradeContext` of the running reconcile: the cached
nodes, the failed drains, the group as discovered, the batch, what is left to
terminate, the counter as loaded, whether it started drains itself, and the
status and times to be stored.
`drain[i]` is the goroutine of an instance, `DrainGroup(c)` what the WaitGroup
counts, `DrainErrors(c)` the goroutines blocked on the unbuffered channel.

| Actions | Code |
|---|---|
| `BeginReconcile`, `BeginUnaware` | node cache filled and copied, failed-drain look-up that succeeds or fails (controller 190-223, 332-391; upgrade.go 72-86) |
| `Discover`, `DiscoverFails` | upgrade.go 88-132, cloud.go 51-72 |
| `SelectTargets`, `SelectUntagFails`, `SelectDescribeFails` | upgrade.go 134-140, 473-582 |
| `TagLazy`, `TagLazyFails` | 255-277 and the delays 279-295 |
| `LoadReplacements`, `Ballooned`, `TagEager`, `TagEagerFails`, `SetBatchStandBy`, `StandByFails`, `AwaitDesiredNodes`, `AwaitCachedNodes` | 182-253, 702-743, 803-841 |
| `LaunchDrains` | 297-380 |
| `PreDrain`, `CordonNode`, `DrainNode`, `DrainIgnored`, `DrainFails`, `PostDrain`, `PostWait` and the failing scripts | the goroutine, 333-378; nodes.go 42-78 |
| `ReceiveError`, `WaitTimesOut`, `DrainsDone` | the `select`, 382-469 |
| `Terminate`, `TerminateFails`, `PostTerminate`, `PostTerminateFails`, `BatchTerminated` | 395-460 |
| `Update`, `UpdateFails` | controller 310-322 |
| `Crash`, `LaunchInstance`, `EnterService`, `JoinCluster`, `Terminated`, `NodeEvent`, `DelaysElapse`, `NewTemplate`, `Resubmit` | environment |

`drained` is a history variable: the instances whose drain succeeded or whose
failure was ignored.

Every event of a node, whatever its kind, ends with `ClusterNodesMap.Delete`
(controller 252-293), and the map is filled again only when it is empty. A
change of a node by the controller is such an event too: `CordonNode`, the first
thing a drain does, may evict its node at once or later. `NodeEvent` is any
other one, the status reports of a kubelet for instance; it may come at any time
and is in no budget.

`Admission` and `Rotation` meet in `RotateMore`/`RotateEnds`: `Admission` sees
one rotation as one step with three results, `Rotation` gives its steps and
assumes that its upgrades are admitted.

### DrainGate

What the drain manager promises, in three variables: the drain goroutines of
each upgrade, the upgrades that terminate, the instances that were told to go.
`Start` needs an upgrade without goroutines that does not terminate, `Open` one
without goroutines, `Terminate` one that terminates. `Rotation` implements it
under the mapping `Gate`: `running` is the `DrainGroup` of each upgrade,
`terminating` the upgrades in the loop at upgrade.go 399-459, `gone` the
instances whose lifecycle state is one of the terminating ones. A batch here is
a set of at most `CalculateMaxUnavailable` instances.

### EarlyCordon

One upgrade, the nodes of its group and others. For a node there are two
truths, the API server's (`unschedulable`, `annotated`) and the cached object's
(`cachedUnschedulable`, `cachedAnnotated`): a cordon sets the flag of the cached
object too, an annotation does not reach it, and only a refill of an empty
`ClusterNodesMap` renews it. `foreign` are the nodes others cordoned.

| Actions | Code |
|---|---|
| `BeginRotation` | controller 332-391 |
| `DiscoverDrifted`, `DiscoverRotated`, `DiscoveryFails` | which call of `CordonUncordonAllNodes` follows (upgrade.go 88-132, 149-179; controller 225-237) |
| `PickNode`, `EndPass` | its loop and its result (849-933) |
| `CordonNode`, `CordonNodeFails`, `Annotate`, `AnnotateRetried`, `AnnotateFails`, `GetNodeFails` | `cordonAndAnnotateNode` (935-985) |
| `Unannotate`, `UnannotateRetried`, `UnannotateFails`, `UncordonNode`, `UncordonNodeFails` | `uncordonAndRemoveAnnotation` (987-1034), of a clean-up or a rollback |
| `RotateBatch`, `RequeueBatch` | what the rest of `ReplaceNodeBatch` does to nodes |
| `ControllerRestarts`, `NodeEvicted`, `TemplateChanges`, `UserCordons`, `UpgradeResubmitted` | environment |

A failing call may have taken effect or not. A Get and the Update of what it
returned are one step, because a change in between makes the Update a conflict.
Users cordon nodes at any time. `unseen` are those of them of which the
controller held an older object (`Held`: in the map, or in the copy of the
running reconcile): the code takes such a node for its own to cordon. Node
events come at any time. A batch may contain nodes with an in-progress tag that
have not drifted, and a drain may fail in its cordon.

### StepMetrics

`inProcessingNodes` and `nodeSteps` are the maps of the running reconcile,
`attached` says whether the first is also that of the status: it is when the
status had one, or after `UpdateMetricsStatus`. `goroutine` are the drain
goroutines by the step they take next; `orphaned` those of earlier reconciles,
whose writes end in maps nobody stores. The actions follow `ReplaceNodeBatch` (upgrade.go 165-471) from
one call of `NodeStep` or `UpdateMetricsStatus` to the next; `StoreStatus` is
the deferred update. Steps are numbered in the order of
`NodeRotationStepOrders`; of the statistics only the counts are kept.

### TargetSelection

`Validate` (types.go 351-394), `CalculateMaxUnavailable` (upgrade.go 745-768)
and the order of the targets (489-581). A round over `targetsByAZMap` visits the
zones in any order, one `Visit` each. A target is told apart by its zone only,
and whether it is in progress; which instances are targets is `Rotation`'s.
External, from how the code uses it: `GetValueFromIntOrPercent` takes every `%`
out of a string that has one, at either end, and rounds up.

### Drift

`IsInstanceDrifted` (upgrade.go 584-677) for one instance. `launches` is what the
group is told to launch, `launchedWith` what the instance was launched with,
`latest` and `listed` the versions of the templates now and as last described.
External, from how the code uses it: an instance carries the number of its
template's version, never `$Latest` or `$Default`, and an override of a
mixed-instances policy may name a template of its own. The code resolves
`$Latest` only and does not look at overrides.

`MCNodeUpkeep` runs these last four modules together; they share no variable,
so a behaviour is one of one of them. `MCEarlyCordon` runs the first alone.

Each property has an operator marked *Mutant* near the definition it distorts:
a plausible slip in that code that makes the property fail.

### Abstractions

- Batches are sets. `SelectTargets` may list an instance twice when its tag
  changes from in-progress to failed-drain between two AWS calls of one
  reconcile; the goroutine that changed it is then blocked with its error,
  which this reconcile receives, so such a batch is never terminated.
- In `Rotation`, `randomUpdate` and `uniformAcrossAzUpdate` are both some choice
  among the drifted instances, in-progress ones first; `TargetSelection` tells
  them apart.
- The three AWS calls of `Discover` are one step; tags and groups are read
  fresh (the 60 s cache of the scaling groups is not modelled, an old list of
  launch templates is, in `Drift`). A scaling group that does not exist is left
  out.
- A node is in the cluster only when it is ready and passes its gates; its
  object goes when the instance has terminated. Between the `Store` and the
  `Delete` that one node event causes, the node is not seen.
- A deletion with a finalizer is merged with "not found"; a spec that fails
  `Validate` leaves the state alone.
- Reads of resources are not delayed by an informer cache.
- Nobody else scales the group in, takes instances out of standby, deletes the
  group or removes tags.
- Log lines and events are left out. `Rotation` leaves statistics and early
  cordon to their own modules: neither changes a tag, a lifecycle state, a
  status or the drain manager, except that an early cordon that fails on every
  node ends the upgrade in error, as a failing call does.
- The mode is `lazy` or `eager`. `Validate` also lets `Lazy` through, for which
  the `switch` of `ReplaceNodeBatch` has no case.

## 3. Runs

| Run | Instance | Result |
|---|---|---|
| `admission` | 2 resources, 2 groups (an edit makes them one), 2 workers, limit 2, any 2 restarts, failing calls, deletions, creations or edits | holds: `TypeOK`, `RotatingIsAdmitted`, `ReconcileMapIsExact`, `StatusOnlyAdvances`, `EndsUnlessHeldUp` (250 000 states) |
| `admission_race` | 2 resources, one group, 2 workers, nothing goes wrong | violated: `OneReconcilePerASG` |
| `admission_blocked` | 2 resources, one group, 1 worker, 3 restarts or failures | violated: `TurnedAwayForAWorkingResource` |
| `rotation_eager` | 1 group of 2, 1 replacement, limit of 1, eager, any 3 disruptions | holds: `TypeOK`, `NoTerminateWhileDraining`, `OwnBatchIsDrained`, `EagerKeepsCapacity`, `ImplementsDrainGate` (640 000 states) |
| `rotation_liveness` | 1 group of 2, 1 replacement, lazy, drain failures ignored, any 1 failing call, script, drain or update | holds: `DrainsBounded`, `OwnBatchIsDrained`, `CompletedMeansRotated`, `UpgradeEnds` (670 000 states) |
| `rotation_redrain` | lazy, nothing fails, slow drains | violated: `CompletedDrainIsTerminated` |
| `rotation_undrained` | lazy, nothing fails, a slow drain | violated: `DrainedBeforeTerminated` |
| `rotation_unavailable` | lazy, nothing fails | violated: `AtMostMaxUnavailable` |
| `rotation_two_groups` | two groups of one instance, lazy | violated: `TagKeptByOthers` |
| `rotation_balloons` | two groups of one instance, eager, limit of 1 | violated: `ReplacementNodesAllowed` |
| `early_cordon` | 2 nodes of the group and 1 other, no API call fails | violated: `AllUncordonedInTheEnd` |
| `node_upkeep`, early cordon | 2 nodes of the group and 1 other, any 3 conflicts, failing calls or restarts, any 1 template change, user's cordon or resubmission | holds: `CordonTypeOK`, `AnnotatedIsCordoned`, `ForeignCordonKept`, `CleanUpComplete` |
| `node_upkeep`, statistics | 2 nodes, batches of 1 and 2, 1 failure | holds: `CountedOnce`, `StepsRunInOrder`, `GoroutineFindsItsEntry`, `TerminatedIsCounted` |
| `node_upkeep`, selection | 3 zones of up to 2 targets and 1 in progress each, capacity 0 to 3, every form of strategy | holds: `UniformAcrossZones`, `AcceptedSelects`, `ShareReached` |
| `node_upkeep`, drift | 2 templates of up to 2 versions, every form of configuration | holds: `DriftedIffDifferent` (3.6 M states in all) |

In the `Rotation` runs node events come at any time and count as no disruption.

The violated properties are what a comment, a log line or the README of the
repository says of the program; `findings` in `PROJECT.json` quotes each and
tells how the code departs from it.

- *Race* (`rollingupgrade_controller.go:129`): the ReconcileMap is keyed by
  resource and turns nobody away (`ReconcileMapIsExact` says so); the AdmissionMap
  is looked at and written in two steps.
- *Blocked* (`:164`): a restart between status and label admits two resources of
  a group one after the other; the recovery after the next restart stores both
  and each turns the other away.
- *Redrain* (`upgrade.go:396`): drains that take more than 5 s but less than the
  30 s to the next reconcile are repeated and never followed by a termination.
- *Undrained* (`upgrade.go:398`): the batch that is terminated is selected anew
  by each reconcile and need not be the one whose goroutines were awaited. The
  cordon of a drain evicts its own node from the cache, so any drain that
  outlasts the 5 s lets the next reconcile take another batch.
- *Unavailable* (`README.md:29`): `maxUnavailable` bounds a batch, not the
  number of missing nodes.
- *Two groups* (`upgrade.go:505`): in-progress tags of other groups' instances
  are taken for orphans.
- *Balloons* (`main.go:108`, `upgrade.go:815`): the counter keeps to the limit
  (`LimitIsKept`), the replacement nodes do not: two upgrades load the same value
  and both count up from it. A restart, which sets the counter to zero under the
  replacements that exist, does the same.
- *Early cordon* (`upgrade.go:851`): the clean-up goes by cached objects, which do
  not show an annotation made since the cache was filled, so an upgrade that
  fails in the reconcile that cordoned its nodes leaves them cordoned.

### What the passing runs leave open

These behaviours are worth knowing. Each is a named exception of a property
that holds otherwise:

- *Stray entries.* A worker that found the AdmissionMap empty lists the running
  resources and stores them later. One that has ended and been released in
  between gets its entry again, and nobody takes it out before the resource's
  next event or the next restart. Two workers suffice, without any disruption.
  The entry turns away every resource of its group, and takes a place: with
  three resources two such entries fill a limit of two. `EndsUnlessHeldUp` says
  that nothing else keeps an upgrade from ending; `HeldUp` is the exception.
- *Users' cordons.* "Only uncordon nodes that we cordoned" (`upgrade.go:891`) holds
  of cordons the controller could see (`ForeignCordonKept`). One that is made
  while an older object of the node is cached is lost: the controller cordons
  the node again, annotates it and uncordons it at the end.
- *Cordons of drains.* A drain cordons without annotating; an upgrade that fails
  leaves the nodes of its last batch cordoned. `CleanUpComplete` says what a
  clean-up does achieve.
- *Zones.* `uniformAcrossAzUpdate` "picks same number of nodes [...] from each AZ"
  (`README.md:28`): `UniformAcrossZones` holds of what a batch adds. Targets in
  progress come first and are not counted in the balance.
- *Versions.* A group on `$Default`, or without a version, and instances from the
  template of an override always count as drifted: their upgrade does not
  complete (`DriftedIffDifferent` names both).
- *Replacement limit.* In eager mode a limit below the batch size can stop an
  upgrade for good: one instance of a batch of two goes to standby, the next
  batch holds it and one that is in service, `ClusterBallooning` (upgrade.go
  203-207) finds no place for the second, and the reconcile returns before it
  drains the first, whose termination would free the place. To see it, set
  `Mode = "eager"`, `MaxUnavailable = 2`, `MaxReplacementNodes = 1` and
  `MaxDisruptions = 0` in `MCRotationLiveness.cfg`: `UpgradeEnds` fails. The counter
  may also stay too high for ever, when tagging fails after it was counted up
  (215) or a decrement is lost to a concurrent store.
- *Capitals.* `Validate` compares type and mode in any capitals, the code after
  it exactly. A type `RandomUpdate` is accepted and selects no target
  (`AcceptedSelects` excludes it); a mode `Lazy` is accepted and its batches are
  neither tagged nor kicked off, so drain goroutines insert into
  `inProcessingNodes` without the lock (the mutant of
  `GoroutineFindsItsEntry` is this case).

### Bounds

Two instances and one replacement make one batch follow another and a batch be
taken up again; a batch size of one with two instances is enough for a batch to
differ from the one before. The violated runs of one group have a second
replacement where the trace needs it. Three disruptions of any kinds reach the
pairs that matter (a failed drain and a restart, a lost update and a new
template) and one more; the two instances that run at the start are symmetric
there. The liveness run has one disruption and no symmetry, which would be unsound with
temporal properties. Disruptions share one budget, `MaxDisruptions`, because a
budget for each kind multiplies the states without new pairs. In `Admission` the
budget of two matters for `EndsUnlessHeldUp` only: the other properties are
proved for any number. Two resources suffice for every check that compares a
resource with another, and an edit gives them the same group.

Three failures are one exhausted retry loop, an annotation's or that of a
clean-up, or parts of both; with them one event from outside, for two take more
than the minutes a run should, and the proofs have any number. Three zones of
two targets cut a round at its start, in its middle and at its end; the
percentages 1, 2, 34, 100 and the values around 0 and 100 are where rounding and
`Validate` change their answer. The proofs of section 5 have none of these
bounds.

Deadlock is not checked: a system whose upgrades have all ended, or whose batch
is selected, stops. The nodes of early cordon and of the statistics are
symmetric; zones and template names are not declared so.

## 4. Fairness

- A reconcile that runs goes on (WF of its steps), and a goroutine too: nothing
  in them waits except the channel send, which is not a step.
- A key that is due is reconciled (`Enter`). It needs a free worker, which comes
  and goes: SF, justified by the first-in first-out work queue. A key that has
  left the queue is not reconciled again before an event, so no fairness brings
  back a release that the code does not repeat.
- `SF(RotateEnds)`: a rotation that is called again and again ends. This is what
  `UpgradeEnds` of `Rotation` shows.
- The scaling group launches what is missing, and time passes.
- A kubelet reports the state of its node every few minutes, and each report is an
  event: WF of `NodeEvent`. Without it a cache that has lost some nodes of a group
  and keeps another one is never filled again, and the upgrade waits for nodes it
  does not see.
- No failure, restart, user operation or disruption of any kind is fair.
- `TimelySpec` adds that from some time on the five-second wait does not run
  out. Without it `UpgradeEnds` is false; `rotation_redrain` shows why.

## 5. Proofs

The proofs hold for any number of resources, instances, nodes, zones, workers,
restarts and failures, from the named assumptions about the constants of each
module; two theorems about `Rotation` state further hypotheses, explained
below.

**Admission.** `AdmissionInv` adds to the types two facts. `CopyIsLoaded`: a
reconcile under way has a scaling group in its copy, so `Admit` really stores
an entry. `FreshCopyIsAhead`: a copy the API server would accept belongs to a
resource that exists, has not ended, and is not behind the stored status; this
is what makes `StatusOnlyAdvances` follow for the step `UpdateStatus`.
`RotatingIsAdmitted` is preserved because entries are only removed by a
reconcile of the same resource while it is idle, or by a restart.
Theorems: `TypeCorrect`, `AdmissionInvariant`, `RotatingStaysAdmitted`,
`ReconcileMapCorrect`, `StatusAdvances`.

**Rotation.** `RotationInv` adds `BatchFits`: the batch of a reconcile lies in its
group and has at most `CalculateMaxUnavailable` members. `LaunchDrains` starts
goroutines only when none is left, for a part of the batch, so the number of
goroutines stays bounded; goroutines only end otherwise. Termination is entered
from `DrainsDone`, with no goroutine left, and none is started from there,
because the reconcile that would start it is the one that terminates.
`LimitInv` says of the counter that it is within the limit, and of every count a
reconcile has loaded and not yet stored that it is within the limit too: with
the load and the store of concurrent upgrades apart, the value stored is some
old one plus what `ClusterBallooning` allows on it. This is a fact about the
counter only: counts get lost, and the replacement nodes pass the limit
(`rotation_balloons`).
Theorems: `TypeCorrect`, `RotationInvariant`, `TerminatesAfterDrains`,
`DrainsStayBounded`, `LimitIsKept`.

**Draining** (`RotationDrainProofs`). `RotationImplementsGate`: the initial
state maps to an initial one, and each action to one of `DrainGate` or to a
stutter (`GateSimulates`, one step per action). `LaunchDrains` is `Start`, by
`BatchFits`; the ends of goroutines and received errors are `Finish`;
`DrainsDone` is `Open`; `Terminate` is `Terminate`; leaving the loop is `Close`;
`Crash` is `Restart`. `RotationInv` is what makes the guards hold;
`GateInv` adds that an instance a reconcile found in service has not been told
to terminate before the reconcile puts it to standby, so that no standby brings
an instance back.

The gate says that no goroutine is left when a batch is terminated, not that
each instance of the batch had one. `OwnBatchesAreDrained` says so of a reconcile
that started the drains itself, with every disruption and node event.
`DrainedInv` has three parts: a goroutine past its drain has drained its node
(`PastDrain`); while such a reconcile waits, every instance of its batch with a
node has a goroutine or is drained (`BatchAttended`); and the property. A
goroutine that ends without having drained does so by an error that is received
in a wait, and that reception ends the wait (`AttendedStays`); so when the wait
group is at zero and the reconcile still waits, all of its batch is drained. The
hypothesis is needed: for a reconcile that finds drains of an earlier one under
way the conclusion is false, `rotation_undrained`.

**Completion and capacity** (`RotationCapacityProofs`).
`CompletedGroupsAreRotated`: `Discover` finds the group rotated some steps before
the status is stored; `RotatedInv` carries that from the one to the other and
says that nothing out of date is launched or put back to standby meanwhile.
Assumed: no forced refresh (it rotates by the age of nodes, not by the template)
and no new template, which makes a completed group out of date at once.

`EagerGroupsKeepCapacity`: any number of groups, every disruption. `CapacityInv`
says that the instances a reconcile found in service when it decided to replace
its batch (`Ready`) are `Desired` in number, are still in service and joined,
and are not in the batch, which is in standby; that nothing in service is
draining or drained; and that the scaling group never counts more than `Desired`
instances. `NodesKnown` adds that a node in the cache, or in a reconcile's copy of
it, has joined, unless its instance is in standby or on its way out: the wait
for the desired nodes may count on the copy, when listing the nodes fails. What
remains of the group therefore contains `Ready`. Assumed: eager mode, and that
each group starts with its desired number of instances.

**Early cordon** (`EarlyCordonProofs`). `CordonInv` says that a node somebody else
cordoned while no object of it was held is never annotated and that its cached
object, where there is one, shows the cordon, so no pass takes it up; that an
annotated node is cordoned in the cache as well; and where the node at hand is in
its treatment: cordoned and not yet annotated before its annotation, no more
annotated before it is uncordoned. From it `AnnotationTellsTheTruth` and
`ForeignCordonSurvives`. `CleanUpInv` says that of the nodes cached as annotated a
clean-up without an error has still to do, has at hand or has uncordoned each
one; it gives `CleanUpsAreComplete`. `CordonTypesKept` needs that a pass has a node
at hand whenever it treats one.

**Statistics** (`StepMetricsProofs`). `EntryInv`: a goroutine of the running
reconcile and a node of its batch have an entry, a terminated node is not
drained any more, and the reconcile's entries are not behind the stored ones; it
gives `GoroutinesFindTheirEntries` and `StoredStepsAdvance`. `CountInv`: the
stored count of a step is at most the number of nodes that have left the step
and whose leaving this reconcile has neither recorded nor still to record
(`Counted`); adding what was recorded gives at most the nodes that have left it,
hence `NodesCountedOnce`. `TotalInv` is the same with equality for the total,
without a failure: `TerminationsAreCounted`.

**Drift** (`DriftProofs`). `DriftIsExact`: `IsInstanceDrifted` compares names and,
for templates, versions; `DriftInv` adds to the types that launch configurations
have no version, in the group and in the instance, which is why nothing is missed
there. The exceptions are part of `DriftedIffDifferent`: default versions and
overrides, which always count as drifted, an old list of templates for a group on
`$Latest`, a forced refresh without a node object.

**Selection** (`TargetSelectionProofs`). `RoundsDone` says that there is a number
`k` of finished rounds such that a zone visited in this round has given
`k + 1` targets, another one `k`, and a zone with fewer all it had; that gives
the balance at any point where the batch is cut, of what it adds to the targets in
progress: `SelectionIsUniform`. `SizeInv` relates the batch to strategy and
capacity: `AcceptedStrategiesSelect`, `PercentagesAreReached` (by `BatchSizes`, the
rounding of `CalculateMaxUnavailable` for every value and capacity); the first is
about the types as the code spells them. That a sum over the zones is a natural
number would need induction; it is the named assumption
`CountAssumption` on the constants, true of every finite set of zones, and TLC
evaluates it.

Every safety property of a passing run is proved, `CompletedMeansRotated` and
`EagerKeepsCapacity` under the assumptions named above. Only model-checked: the
liveness properties `EndsUnlessHeldUp` and `UpgradeEnds` (fairness is out of the
prover's reach). TLC also checked the inductive invariants `AdmissionInv`,
`RotationInv`, `GateInv`, `DrainedInv`, `RotatedInv`, `LimitInv`, `NodesKnown`,
`CapacityInv`, `CordonInv`, `CleanUpInv`, `EntryInv`, `CountInv` and `TotalInv`, on
instances of the size of the runs or a little smaller.

## 6. Running

    tlc -config MCAdmission.cfg MCAdmission
    tlc -config MCRotationEager.cfg MCRotation
    tlc -config MCNodeUpkeep.cfg MCNodeUpkeep
    tlapm AdmissionProofs.tla
    tlapm RotationProofs.tla
    tlapm RotationDrainProofs.tla
    tlapm RotationCapacityProofs.tla
    tlapm EarlyCordonProofs.tla
    tlapm StepMetricsProofs.tla
    tlapm DriftProofs.tla
    tlapm TargetSelectionProofs.tla

Many leaves name `Zenon`: they need no arithmetic, and in modules this large the
translation for the SMT solver is what takes the time.

## 7. Not modelled

- The 60 s cache of described scaling groups: what the library that keeps it
  flushes, and when, is not in this repository.
- Batches above the 19-instance limit of the standby call, and pagination: loops
  over chunks, each call of which may fail as the one call modelled does.
- The informer cache, leader election, client set-up and flags.
- What kubectl's drain does inside.
- Durations of the statistics, Prometheus metrics, events and log lines: output
  that nothing reads back.
- Readiness gates and taints of nodes, beyond ready or not.
- The early return for a scaling group that does not exist.

## 8. What could come next

1. `EarlyCordon` composed with `Rotation`, so that a drained node is the one
   early cordon has cordoned.
2. Two upgrades in the passing runs of `Rotation`; with node events at any time
   the state space of two groups is beyond a run of minutes, and the safety
   properties are proved instead.
3. An abstract admission, and a bound on how far `AtMostMaxUnavailable` is missed.
