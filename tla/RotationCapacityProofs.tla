------------------------- MODULE RotationCapacityProofs -------------------------
(***************************************************************************)
(* Two promises of Rotation that need more than RotationInv: a completed   *)
(* upgrade has rotated its group, and eager mode keeps the capacity of a   *)
(* group, for any groups, batch size and number of disruptions.            *)
(***************************************************************************)
EXTENDS RotationProofs

--------------------------------------------------------------------------------
(***************************************************************************)
(* Completed upgrades.  Discover finds a group rotated before the status   *)
(* says so, in a later step: until then, and ever after, no instance out   *)
(* of date may come back to service.                                       *)
(***************************************************************************)

RotatedInv ==
  /\ \A i \in old : life[i] # "NotLaunched"
  /\ \A c \in CRs : status[c] = "completed" => pc[c] = "idle"
  /\ \A c \in CRs : ctx[c].status = "completed" => pc[c] = "update" /\ InstancesServing(c) \cap old = {}
  /\ \A c \in CRs : pc[c] = "standby" => ctx[c].todo \subseteq GroupOf(c)
  /\ CompletedMeansRotated

\* What standby moves is part of the group.
LEMMA StandbyInGroup ==
  ASSUME TypeOK, BatchFits, RotatedInv, NEW c \in CRs, Reconcile(c), pc'[c] = "standby"
  PROVE  ctx'[c].todo \subseteq GroupOf(c)
<1> USE DEF Goto, FailWith
<1>0. pc \in [CRs -> PCs] /\ ctx \in [CRs -> Contexts]
  BY Zenon DEF TypeOK
<1>1. ~Discovery(c) /\ ~Choice(c) /\ ~Lazy(c)
  BY <1>0, Zenon DEF Discovery, Choice, Lazy, BeginReconcile, BeginUnaware, Begin, Discover, DiscoverFails,
    SelectTargets, SelectUntagFails, SelectDescribeFails, Select, TagLazy, TagLazyFails, AfterDelays
<1>2. ~AwaitDrains(c) /\ ~Termination(c) /\ ~Update(c) /\ ~UpdateFails(c)
  BY <1>0, Zenon DEF AwaitDrains, LaunchDrains, ReceiveError, WaitTimesOut, DrainsDone, Termination,
    Terminate,
    TerminateFails, BatchTerminated, PostTerminate, PostTerminateFails, Update, UpdateFails, Return
<1>3. Eager(c) => TagEager(c)
  BY <1>0, Zenon DEF Eager, LoadReplacements, Ballooned, TagEagerFails, SetBatchStandBy,
      StandByFails, AwaitDesiredNodes, AwaitCachedNodes, AwaitDesired, AfterDelays
<1>4. TagEager(c)
  BY <1>1, <1>2, <1>3, Zenon DEF Reconcile
<1>5. PICK S \in SUBSET InService(c) : ctx' = [ctx EXCEPT ![c].todo = S]
  BY <1>4, Zenon DEF TagEager
<1>6. ctx'[c].todo = S
  BY <1>0, <1>5, Zenon DEF Contexts
<1> QED BY <1>5, <1>6, Zenon DEF InService, BatchFits

\* Only Discover finds an upgrade completed.
LEMMA OnlyDiscoverCompletes ==
  ASSUME TypeOK, NEW c \in CRs, Reconcile(c), ctx[c].status # "completed", ctx'[c].status = "completed"
  PROVE  Discover(c)
<1> SUFFICES ASSUME ~Discover(c) PROVE FALSE
  BY Zenon
<1> USE DEF Goto, FailWith, Contexts
<1>0. pc \in [CRs -> PCs] /\ ctx \in [CRs -> Contexts] /\ NoCtx \in Contexts /\ NoCtx.status = "init"
  BY NoContext, Zenon DEF TypeOK, NoCtx
<1>1. CASE Discovery(c)
  <2>1. CASE BeginReconcile(c) \/ BeginUnaware(c)
    <3>1. PICK S, T : ctx' = [ctx EXCEPT ![c] = [NoCtx EXCEPT !.nodes = S, !.failed = T, !.status = "running"]]
      BY <2>1, Zenon DEF BeginReconcile, BeginUnaware, Begin
    <3> QED BY <1>0, <3>1, Zenon
  <2>2. CASE DiscoverFails(c)
    BY <1>0, <2>2, Zenon DEF DiscoverFails
  <2> QED BY <1>1, <2>1, <2>2, Zenon DEF Discovery
<1>2. CASE Choice(c)
  BY <1>0, <1>2 DEF Choice, SelectTargets, SelectUntagFails, SelectDescribeFails, Select
<1>3. CASE Lazy(c)
  BY <1>0, <1>3 DEF Lazy, TagLazy, TagLazyFails
<1>4. CASE Eager(c)
  BY <1>0, <1>4 DEF Eager, LoadReplacements, Ballooned, TagEager, TagEagerFails, SetBatchStandBy,
      StandByFails, AwaitDesiredNodes, AwaitCachedNodes, AwaitDesired
<1>5. CASE AwaitDrains(c)
  BY <1>0, <1>5 DEF AwaitDrains, LaunchDrains, ReceiveError, WaitTimesOut, DrainsDone
<1>6. CASE Termination(c)
  <2>1. CASE Terminate(c)
    <3>1. PICK i \in ctx[c].todo :
            ctx' = [ctx EXCEPT ![c] = [ctx[c] EXCEPT
                      !.todo = ctx[c].todo \ {i}, !.count = ReplacementNodes,
                      !.waits = ctx[c].waits \cup ({"termination"} \cap Intervals)]]
      BY <2>1, Zenon DEF Terminate
    <3> QED BY <1>0, <3>1, Zenon
  <2>2. CASE TerminateFails(c) \/ BatchTerminated(c) \/ PostTerminate(c)
    BY <2>2, Zenon DEF TerminateFails, BatchTerminated, PostTerminate
  <2>3. CASE PostTerminateFails(c)
    BY <1>0, <2>3, Zenon DEF PostTerminateFails
  <2> QED BY <1>6, <2>1, <2>2, <2>3, Zenon DEF Termination
<1>7. CASE Update(c) \/ UpdateFails(c)
  BY <1>0, <1>7, Zenon DEF Update, UpdateFails, Return
<1> QED
  BY <1>1, <1>2, <1>3, <1>4, <1>5, <1>6, <1>7, Zenon DEF Reconcile


\* IsScalingGroupDrifted and the status: without forceRefresh and as long as no
\* template changes, an upgrade that is stored as completed leaves no instance of
\* its group out of date, whatever calls, drains and updates failed before, and
\* across restarts and resubmissions.
THEOREM CompletedGroupsAreRotated ==
  ASSUME ForceRefresh = FALSE, "template" \notin Disruptions
  PROVE  Spec => []CompletedMeansRotated
<1>1. Init => RotatedInv
  BY ConstantsAssumption DEF Init, RotatedInv, NoCtx, CompletedMeansRotated
<1>2. ASSUME RotationInv, RotatedInv, [Next]_vars PROVE RotatedInv'
  <2>0. TypeOK /\ BatchFits /\ pc \in [CRs -> PCs] /\ ctx \in [CRs -> Contexts] /\ status \in [CRs -> Statuses]
        /\ life \in [Instances -> Lifecycle] /\ old \subseteq Instances
    BY <1>2, Zenon DEF RotationInv, TypeOK
  <2> DEFINE Rotated(c) == InstancesServing(c) \cap old = {}
  <2>1. old' = old
    <3>1. ASSUME NEW c \in CRs, Reconcile(c) PROVE old' = old
      BY <2>0, <3>1, ReconcileFrame, Zenon
    <3>2. ASSUME NEW i \in Instances, Goroutine(i) PROVE old' = old
      BY <3>2, Zenon DEF Goroutine, DrainGoto, Script, ScriptFails, PreDrain, PreDrainFails, CordonNode, DrainNode,
        DrainIgnored, DrainFails, PostDrain, PostDrainFails, PostWait, PostWaitFails, cloudVars
    <3>3. ASSUME NEW i \in Instances, Cloud(i) \/ NodeEvent(i) PROVE old' = old
      BY <3>3, Zenon DEF Cloud, LaunchInstance, EnterService, JoinCluster, Terminated, NodeEvent, cloudVars
    <3>4. ASSUME NEW c \in CRs, DelaysElapse(c) \/ NewTemplate(c) \/ Resubmit(c) PROVE old' = old
      BY <3>4, Zenon DEF DelaysElapse, NewTemplate, Resubmit, Disrupt, cloudVars
    <3> QED BY <1>2, <3>1, <3>2, <3>3, <3>4, Zenon DEF Next, Crash, vars, cloudVars
  <2> DEFINE Back(i) == life'[i] \in Serving /\ life[i] \notin Serving
             Moves == \A i \in Instances :
                        /\ life'[i] = "NotLaunched" => life[i] = "NotLaunched"
                        /\ Back(i) => life[i] = "NotLaunched" \/ \E d \in CRs : pc[d] = "standby" /\ i \in ctx[d].todo
  <2>2. Moves
    <3>0. life' = life => Moves
      BY Zenon
    <3>1. ASSUME NEW c \in CRs, SetBatchStandBy(c) PROVE Moves
      BY <2>0, <3>1, Zenon DEF SetBatchStandBy, Goto
    <3>2. ASSUME NEW c \in CRs, Terminate(c) PROVE Moves
      BY <2>0, <3>2, Zenon DEF Terminate, Serving
    <3>3. ASSUME NEW c \in CRs, Reconcile(c) PROVE Moves
      BY <2>0, <3>0, <3>1, <3>2, <3>3, ReconcileFrame, Zenon
    <3>4. ASSUME NEW i \in Instances, Goroutine(i) PROVE Moves
      BY <3>0, <3>4, Zenon DEF Goroutine, DrainGoto, Script, ScriptFails, PreDrain, PreDrainFails, CordonNode, DrainNode,
        DrainIgnored, DrainFails, PostDrain, PostDrainFails, PostWait, PostWaitFails, cloudVars
    <3>5. ASSUME NEW i \in Instances, Cloud(i) PROVE Moves
      BY <2>0, <3>5, Zenon DEF Cloud, LaunchInstance, EnterService, JoinCluster, Terminated, Serving
    <3>6. ASSUME NEW c \in CRs, DelaysElapse(c) \/ NewTemplate(c) \/ Resubmit(c) PROVE Moves
      BY <3>0, <3>6, Zenon DEF DelaysElapse, NewTemplate, Resubmit, cloudVars
    <3>7. ASSUME NEW i \in Instances, NodeEvent(i) PROVE Moves
      BY <3>0, <3>7, Zenon DEF NodeEvent, cloudVars
    <3>8. CASE Crash \/ UNCHANGED vars
      BY <3>0, <3>8, Zenon DEF Crash, vars, cloudVars
    <3> HIDE DEF Moves
    <3> QED BY <1>2, <3>3, <3>4, <3>5, <3>6, <3>7, <3>8, Zenon DEF Next
  <2>3. ASSUME NEW c \in CRs, Rotated(c), pc[c] # "standby" PROVE Rotated(c)'
    BY <1>2, <2>0, <2>1, <2>2, <2>3 DEF RotatedInv, InstancesServing, GroupOf
  <2> DEFINE Mine(c) == /\ status[c] = "completed" => pc[c] = "idle" /\ Rotated(c)
                        /\ ctx[c].status = "completed" => pc[c] = "update" /\ Rotated(c)
                        /\ pc[c] = "standby" => ctx[c].todo \subseteq GroupOf(c)
  <2>4. \A c \in CRs : Mine(c)
    BY <1>2, Zenon DEF RotatedInv, CompletedMeansRotated
  <2>5. ASSUME NEW c \in CRs, Reconcile(c) PROVE \A d \in CRs : Mine(d)'
    <3>1. ASSUME NEW d \in CRs \ {c} PROVE Mine(d)'
      <4>1. pc'[d] = pc[d] /\ ctx'[d] = ctx[d] /\ status'[d] = status[d]
        BY <2>0, <2>5, ReconcileFrame, Zenon DEF Update
      <4> HIDE DEF Rotated
      <4> QED BY <2>3, <2>4, <4>1, Zenon DEF GroupOf
    <3>2. ASSUME status'[c] = "completed" PROVE pc'[c] = "idle" /\ Rotated(c)'
      <4>1. CASE Update(c)
        <5>1. ctx[c].status = "completed" /\ pc[c] = "update" /\ pc'[c] = "idle"
          BY <2>0, <2>4, <3>2, <4>1, Zenon DEF Update, Return, Goto
        <5> QED BY <2>3, <2>4, <5>1, Zenon
      <4>2. CASE ~Update(c)
        <5>1. pc[c] = "idle" /\ status[c] = "completed"
          BY <2>0, <2>4, <2>5, <3>2, <4>2, ReconcileFrame, Zenon
        <5>2. ~Discovery(c) /\ ~Choice(c) /\ ~Lazy(c) /\ ~Eager(c)
          BY <5>1, Zenon DEF Discovery, Choice, Lazy, Eager, BeginReconcile, BeginUnaware, Begin,
            Discover, DiscoverFails,
            SelectTargets, SelectUntagFails, SelectDescribeFails, Select, TagLazy, TagLazyFails,
            LoadReplacements, Ballooned, TagEager, TagEagerFails, SetBatchStandBy, StandByFails,
            AwaitDesiredNodes, AwaitCachedNodes, AwaitDesired, Goto, FailWith, FiniteStates
        <5>3. ~AwaitDrains(c) /\ ~Termination(c) /\ ~UpdateFails(c)
          BY <5>1, Zenon DEF AwaitDrains, LaunchDrains, ReceiveError, WaitTimesOut, DrainsDone,
            Termination, Terminate,
            TerminateFails, BatchTerminated, PostTerminate, PostTerminateFails, UpdateFails, Return,
            Goto, FailWith
        <5> QED BY <2>5, <4>2, <5>2, <5>3, Zenon DEF Reconcile
      <4> QED BY <4>1, <4>2, Zenon
    <3>3. ASSUME ctx'[c].status = "completed" PROVE pc'[c] = "update" /\ Rotated(c)'
      <4>1. ctx[c].status # "completed"
        <5> SUFFICES ASSUME pc[c] = "update" PROVE FALSE
          BY <2>4, Zenon
        <5>1. ~Discovery(c) /\ ~Choice(c) /\ ~Lazy(c) /\ ~Eager(c)
          BY Zenon DEF Discovery, Choice, Lazy, Eager, BeginReconcile, BeginUnaware, Begin, Discover,
            DiscoverFails,
            SelectTargets, SelectUntagFails, SelectDescribeFails, Select, TagLazy, TagLazyFails,
            LoadReplacements, Ballooned, TagEager, TagEagerFails, SetBatchStandBy, StandByFails,
            AwaitDesiredNodes, AwaitCachedNodes, AwaitDesired, Goto, FailWith
        <5>2. ~AwaitDrains(c) /\ ~Termination(c)
          BY Zenon DEF AwaitDrains, LaunchDrains, ReceiveError, WaitTimesOut, DrainsDone, Termination,
            Terminate,
            TerminateFails, BatchTerminated, PostTerminate, PostTerminateFails, Goto, FailWith
        <5>3. ctx'[c] = NoCtx
          BY <2>0, <2>5, <5>1, <5>2, Zenon DEF Reconcile, Update, UpdateFails, Return
        <5> QED BY <3>3, <5>3 DEF NoCtx
      <4>2. Discover(c)
        BY <2>0, <2>5, <3>3, <4>1, OnlyDiscoverCompletes, Zenon
      <4>3. ctx' = [ctx EXCEPT ![c] = [ctx[c] EXCEPT !.life = life, !.old = old, !.inprog = Tagged(InProgress),
                      !.status = IF IsScalingGroupDrifted(c) THEN "running" ELSE "completed"]]
        BY <4>2, Zenon DEF Discover
      <4>4. ~IsScalingGroupDrifted(c)
        BY <2>0, <3>3, <4>3, Zenon DEF Contexts
      <4>5. Rotated(c)
        BY <4>4, Zenon DEF IsScalingGroupDrifted, IsInstanceDrifted, InstancesServing
      <4>6. pc[c] = "discover" /\ pc'[c] = "update"
        BY <2>0, <4>2, <4>4, Zenon DEF Discover, Goto
      <4> QED BY <2>3, <4>5, <4>6, Zenon
    <3>4. pc'[c] = "standby" => ctx'[c].todo \subseteq GroupOf(c)
      BY <1>2, <2>0, <2>5, StandbyInGroup, Zenon
    <3> QED BY <3>1, <3>2, <3>3, <3>4, Zenon DEF GroupOf
  <2> DEFINE Quiet == pc' = pc /\ ctx' = ctx /\ \A d \in CRs : status'[d] = "completed" => status[d] = "completed"
  <2>6. Quiet => \A d \in CRs : Mine(d)'
    <3> HIDE DEF Rotated
    <3> QED BY <2>3, <2>4, Zenon DEF GroupOf
  <2>7. ASSUME NEW c \in CRs, DelaysElapse(c) \/ NewTemplate(c) \/ Resubmit(c) PROVE Quiet
    BY <2>0, <2>7, Zenon DEF DelaysElapse, NewTemplate, Resubmit, crVars
  <2>8. ASSUME NEW i \in Instances, Goroutine(i) \/ Cloud(i) \/ NodeEvent(i) PROVE Quiet
    BY <2>8, Zenon DEF Goroutine, DrainGoto, Script, ScriptFails, PreDrain, PreDrainFails, CordonNode, DrainNode,
      DrainIgnored, DrainFails, PostDrain, PostDrainFails, PostWait, PostWaitFails,
      Cloud, LaunchInstance, EnterService, JoinCluster, Terminated, NodeEvent, crVars
  <2>9. ASSUME Crash PROVE \A d \in CRs : Mine(d)'
    <3>1. \A d \in CRs : pc'[d] = "idle" /\ ctx'[d].status = "init" /\ status'[d] = status[d]
      BY <2>9, Zenon DEF Crash, NoCtx, crVars
    <3> HIDE DEF Rotated
    <3> QED BY <2>3, <2>4, <3>1, Zenon
  <2>10. \A d \in CRs : Mine(d)'
    <3>1. ASSUME UNCHANGED vars PROVE Quiet
      BY <3>1, Zenon DEF vars, crVars
    <3> HIDE DEF Mine, Quiet
    <3> QED BY <1>2, <2>5, <2>6, <2>7, <2>8, <2>9, <3>1, Zenon DEF Next
  <2>11. \A i \in old' : life'[i] # "NotLaunched"
    BY <1>2, <2>0, <2>1, <2>2, Zenon DEF RotatedInv
  <2> QED BY <2>10, <2>11, Zenon DEF RotatedInv, CompletedMeansRotated
<1>3. RotatedInv => CompletedMeansRotated
  BY Zenon DEF RotatedInv
<1> QED BY <1>1, <1>2, <1>3, RotationInvariant, PTL DEF Spec

--------------------------------------------------------------------------------
(***************************************************************************)
(* Capacity in eager mode.  A reconcile decides on the group as Discover   *)
(* described it.  When it goes on to replace its batch, the instances that *)
(* were in service then are Desired in number, still in service, joined,   *)
(* and disjoint from the batch: they are the capacity that remains.        *)
(***************************************************************************)
OutOfService == {"Standby", "Terminating", "Terminated"}

\* What ClusterNodesMap and its copies hold are nodes, or were until they left the
\* group.
Known(i)   == i \in nodes \/ life[i] \in OutOfService
NodesKnown == /\ \A i \in ClusterNodesMap : Known(i)
              /\ \A c \in CRs : \A i \in ctx[c].nodes : Known(i)

\* A node leaves with its instance, which does not come back; a map and its copies
\* are filled from the nodes.
LEMMA NodesKnownNext == TypeOK /\ NodesKnown /\ [Next]_vars => NodesKnown'
<1> SUFFICES ASSUME TypeOK, NodesKnown, [Next]_vars PROVE NodesKnown'
  BY Zenon
<1> DEFINE Stays   == \A i \in Instances : Known(i) => Known(i)'
           Sources == /\ ClusterNodesMap' \subseteq ClusterNodesMap \cup nodes
                      /\ \A d \in CRs : ctx'[d].nodes \subseteq ctx[d].nodes \cup ClusterNodesMap \cup nodes
<1>0. /\ pc \in [CRs -> PCs] /\ ctx \in [CRs -> Contexts] /\ life \in [Instances -> Lifecycle]
      /\ nodes \subseteq Instances /\ ClusterNodesMap \subseteq Instances
      /\ \A d \in CRs : ctx[d].nodes \subseteq Instances
  BY Zenon DEF TypeOK, Contexts
<1> USE DEF cloudVars, crVars, drainVars
<1>1. Stays /\ Sources => NodesKnown'
  <2> SUFFICES ASSUME Stays, Sources PROVE NodesKnown'
    BY Zenon
  <2>1. \A i \in nodes : Known(i)
    BY Zenon DEF Known
  <2>2. \A i \in ClusterNodesMap \cup nodes : Known(i)'
    BY <1>0, <2>1, Zenon DEF NodesKnown
  <2>3. \A d \in CRs : \A i \in ctx[d].nodes : Known(i)'
    BY <1>0, Zenon DEF NodesKnown
  <2> QED BY <2>2, <2>3, Zenon DEF NodesKnown
<1>2. UNCHANGED <<life, nodes>> => Stays
  BY Zenon DEF Known
<1>3. UNCHANGED ctx /\ ClusterNodesMap' \subseteq ClusterNodesMap => Sources
  BY Zenon
<1>4. ASSUME NEW c \in CRs, Reconcile(c) PROVE Stays /\ Sources
  <2>1. /\ \A d \in CRs \ {c} : ctx'[d] = ctx[d]
        /\ UNCHANGED nodes
        /\ UNCHANGED life \/ SetBatchStandBy(c) \/ Terminate(c)
    BY <1>4, ReconcileFrame, Zenon
  <2>2. Stays
    <3>1. CASE SetBatchStandBy(c)
      BY <2>1, <3>1, Zenon DEF SetBatchStandBy, Known, OutOfService
    <3>2. CASE Terminate(c)
      <4>1. PICK t \in ctx[c].todo : life' = [life EXCEPT ![t] = "Terminating"]
        BY <3>2, Zenon DEF Terminate
      <4> QED BY <1>0, <2>1, <4>1, Zenon DEF Known, OutOfService
    <3> QED BY <1>2, <2>1, <3>1, <3>2, Zenon
  <2> DEFINE Same == UNCHANGED ClusterNodesMap /\ ctx'[c].nodes \in {ctx[c].nodes, {}}
  <2>3. Same => Sources
    BY <2>1, Zenon
  <2> USE DEF Goto, FailWith, Contexts
  <2>4. CASE Discovery(c)
    <3>1. CASE BeginReconcile(c) \/ BeginUnaware(c)
      <4>1. PICK F : Begin(c, F)
        BY <3>1, Zenon DEF BeginReconcile, BeginUnaware
      <4> DEFINE cached == IF ClusterNodesMap = {} THEN nodes ELSE ClusterNodesMap
      <4>2. /\ ClusterNodesMap' = cached
            /\ ctx' = [ctx EXCEPT ![c] = [NoCtx EXCEPT !.nodes = cached, !.failed = F, !.status = "running"]]
        BY <4>1, Zenon DEF Begin
      <4>3. ctx'[c].nodes = cached
        BY <1>0, <4>2, Zenon DEF NoCtx
      <4>4. cached \subseteq ClusterNodesMap \cup nodes
        BY Zenon
      <4> HIDE DEF cached
      <4> QED BY <2>1, <2>2, <4>2, <4>3, <4>4, Zenon
    <3>2. CASE Discover(c)
      BY <1>0, <2>2, <2>3, <3>2, Zenon DEF Discover
    <3>3. CASE DiscoverFails(c)
      BY <1>0, <2>2, <2>3, <3>3, Zenon DEF DiscoverFails
    <3> QED BY <2>2, <2>4, <3>1, <3>2, <3>3, Zenon DEF Discovery
  <2>5. CASE Choice(c)
    <3>1. UNCHANGED ClusterNodesMap /\ \E B : ctx' = [ctx EXCEPT ![c].batch = B]
      BY <2>5, Zenon DEF Choice, SelectTargets, SelectUntagFails, SelectDescribeFails, Select
    <3> QED BY <1>0, <2>2, <2>3, <3>1, Zenon
  <2>6. CASE Lazy(c)
    <3>1. CASE TagLazy(c)
      BY <2>2, <2>3, <3>1, Zenon DEF TagLazy
    <3>2. CASE TagLazyFails(c)
      BY <1>0, <2>2, <2>3, <3>2, Zenon DEF TagLazyFails
    <3> QED BY <2>6, <3>1, <3>2, Zenon DEF Lazy
  <2>7. CASE Eager(c)
    <3>1. CASE LoadReplacements(c)
      BY <1>0, <2>2, <2>3, <3>1, Zenon DEF LoadReplacements
    <3>2. CASE TagEager(c)
      <4>1. UNCHANGED ClusterNodesMap /\ \E S : ctx' = [ctx EXCEPT ![c].todo = S]
        BY <3>2, Zenon DEF TagEager
      <4> QED BY <1>0, <2>2, <2>3, <4>1, Zenon
    <3>3. CASE TagEagerFails(c)
      BY <1>0, <2>2, <2>3, <3>3, Zenon DEF TagEagerFails
    <3>4. CASE UNCHANGED <<ClusterNodesMap, ctx>>
      BY <2>2, <2>3, <3>4, Zenon
    <3> QED BY <2>7, <3>1, <3>2, <3>3, <3>4, Zenon DEF Eager, Ballooned, SetBatchStandBy, StandByFails,
      AwaitDesiredNodes, AwaitCachedNodes, AwaitDesired
  <2>8. CASE AwaitDrains(c)
    <3>1. CASE LaunchDrains(c)
      BY <1>0, <2>2, <2>3, <3>1, Zenon DEF LaunchDrains
    <3>2. CASE ReceiveError(c)
      <4>1. UNCHANGED ClusterNodesMap /\ ctx' = [ctx EXCEPT ![c].status = "error"]
        BY <3>2, Zenon DEF ReceiveError
      <4> QED BY <1>0, <2>2, <2>3, <4>1, Zenon
    <3>3. CASE WaitTimesOut(c)
      BY <2>2, <2>3, <3>3, Zenon DEF WaitTimesOut
    <3>4. CASE DrainsDone(c)
      BY <1>0, <2>2, <2>3, <3>4, Zenon DEF DrainsDone
    <3> QED BY <2>8, <3>1, <3>2, <3>3, <3>4, Zenon DEF AwaitDrains
  <2>9. CASE Termination(c)
    <3>1. CASE Terminate(c)
      <4>1. PICK i \in ctx[c].todo :
              ctx' = [ctx EXCEPT ![c] = [ctx[c] EXCEPT
                        !.todo = ctx[c].todo \ {i}, !.count = ReplacementNodes,
                        !.waits = ctx[c].waits \cup ({"termination"} \cap Intervals)]]
        BY <3>1, Zenon DEF Terminate
      <4>2. UNCHANGED ClusterNodesMap
        BY <3>1, Zenon DEF Terminate
      <4> QED BY <1>0, <2>2, <2>3, <4>1, <4>2, Zenon
    <3>2. CASE PostTerminateFails(c)
      BY <1>0, <2>2, <2>3, <3>2, Zenon DEF PostTerminateFails
    <3>3. CASE UNCHANGED <<ClusterNodesMap, ctx>>
      BY <2>2, <2>3, <3>3, Zenon
    <3> QED BY <2>9, <3>1, <3>2, <3>3, Zenon DEF Termination, TerminateFails, BatchTerminated, PostTerminate
  <2>10. CASE Update(c) \/ UpdateFails(c)
    <3>1. UNCHANGED ClusterNodesMap /\ ctx' = [ctx EXCEPT ![c] = NoCtx]
      BY <2>10, Zenon DEF Update, UpdateFails, Return
    <3> QED BY <1>0, <2>2, <2>3, <3>1, Zenon DEF NoCtx
  <2> QED BY <1>4, <2>4, <2>5, <2>6, <2>7, <2>8, <2>9, <2>10, Zenon DEF Reconcile
<1>5. ASSUME NEW i \in Instances, Goroutine(i) \/ NodeEvent(i) PROVE Stays /\ Sources
  <2>1. UNCHANGED <<life, nodes, ctx>> /\ ClusterNodesMap' \subseteq ClusterNodesMap
    BY <1>5, Zenon DEF Goroutine, DrainGoto, Script, ScriptFails, PreDrain, PreDrainFails, CordonNode, DrainNode,
      DrainIgnored, DrainFails, PostDrain, PostDrainFails, PostWait, PostWaitFails, NodeEvent, NodeEventsHandler
  <2> QED BY <1>2, <1>3, <2>1, Zenon
<1>6. ASSUME NEW i \in Instances, Cloud(i) PROVE Stays /\ Sources
  <2>1. UNCHANGED ctx /\ ClusterNodesMap' \subseteq ClusterNodesMap
    BY <1>6, Zenon DEF Cloud, LaunchInstance, EnterService, JoinCluster, Terminated, NodeEventsHandler
  <2>2. Stays
    BY <1>0, <1>6, Zenon DEF Cloud, LaunchInstance, EnterService, JoinCluster, Terminated, Known, OutOfService
  <2> QED BY <1>3, <2>1, <2>2, Zenon
<1>7. ASSUME NEW c \in CRs, DelaysElapse(c) \/ NewTemplate(c) \/ Resubmit(c) PROVE Stays /\ Sources
  <2>1. UNCHANGED <<life, nodes, ctx, ClusterNodesMap>>
    BY <1>7, Zenon DEF DelaysElapse, NewTemplate, Resubmit
  <2> QED BY <1>2, <1>3, <2>1, Zenon
<1>8. CASE Crash
  BY <1>1, <1>2, <1>8, Zenon DEF Crash, NoCtx
<1>9. CASE UNCHANGED vars
  BY <1>1, <1>2, <1>3, <1>9, Zenon DEF vars
<1> HIDE DEF Stays, Sources
<1> QED BY <1>1, <1>4, <1>5, <1>6, <1>7, <1>8, <1>9, Zenon DEF Next

Deciding(c)  == pc[c] \in {"select", "replace", "balloon", "standby"}
Replacing(c) == pc[c] \in {"launch", "wait", "terminate", "decrement"}

\* What the scaling group counts, now and as described.
Filling(c)     == {i \in GroupOf(c) : life[i] \in {"Pending", "InService"}}
WereFilling(c) == {i \in GroupOf(c) : ctx[c].life[i] \in {"Pending", "InService"}}

Ready(c) == {i \in GroupOf(c) : ctx[c].life[i] = "InService"}
Safe(c)  == Available(c) \ DrainGroup(c)

DecisionInv(c) ==
  Deciding(c) \/ Replacing(c) =>
    /\ Cardinality(WereFilling(c)) <= Desired
    /\ \A i \in Ready(c) : life[i] = "InService"
    /\ pc[c] # "select" => \A i \in ctx[c].batch : ctx[c].life[i] \in Serving
    /\ pc[c] \notin {"terminate", "decrement"} =>
         \A i \in GroupOf(c) : ctx[c].life[i] = "Standby" => life[i] = "Standby"

ReplacementInv(c) ==
  /\ Replacing(c) => /\ Cardinality(Ready(c)) = Desired
                     /\ Ready(c) \subseteq nodes
                     /\ \A i \in ctx[c].batch : ctx[c].life[i] = "Standby"
  /\ pc[c] \in {"standby", "terminate", "decrement"} => ctx[c].todo \subseteq ctx[c].batch

CapacityInv ==
  /\ \A c \in CRs : Cardinality(Filling(c)) <= Desired
  /\ \A c \in CRs : DecisionInv(c) /\ ReplacementInv(c)
  /\ \A i \in Instances : drain[i] # "none" \/ i \in drained => life[i] \in OutOfService
  /\ \A c \in CRs : Cardinality(Safe(c)) >= Desired

\* SelectTargets picks instances that were part of the group.
LEMMA BatchesServe ==
  ASSUME TypeOK, NEW c \in CRs, Choice(c)
  PROVE  /\ \A i \in ctx'[c].batch : ctx[c].life[i] \in Serving
         /\ ctx'[c].life = ctx[c].life
         /\ pc'[c] = "replace" /\ life' = life /\ nodes' = nodes
<1>0. pc \in [CRs -> PCs] /\ ctx \in [CRs -> Contexts]
  BY Zenon DEF TypeOK
<1> DEFINE Serves(B) == \A i \in B : ctx[c].life[i] \in Serving
<1>1. ASSUME NEW tags, NEW excluded, NEW B \in Targets(c, tags, excluded) PROVE Serves(B)
  BY Zenon DEF Targets, InprogressTargets, UnprocessedTargets, IsInstanceDrifted
<1>2. ASSUME NEW tags, NEW B \in Selection(c, tags) PROVE Serves(B)
  BY <1>1, Zenon DEF Selection
<1>3. PICK tags, batches : Select(c, tags, batches) /\ \A B \in batches : Serves(B)
  <2>1. CASE SelectTargets(c)
    BY <1>2, <2>1, Zenon DEF SelectTargets
  <2>2. CASE SelectUntagFails(c)
    BY <1>2, <2>2, Zenon DEF SelectUntagFails
  <2>3. CASE SelectDescribeFails(c)
    BY <1>1, <2>3 DEF SelectDescribeFails
  <2> QED BY <2>1, <2>2, <2>3, Zenon DEF Choice
<1>4. PICK B \in batches : ctx' = [ctx EXCEPT ![c].batch = B]
  BY <1>3, Zenon DEF Select
<1>5. ctx'[c].batch = B /\ ctx'[c].life = ctx[c].life
  BY <1>0, <1>4, Zenon DEF Contexts
<1> QED BY <1>0, <1>3, <1>4, <1>5, Zenon DEF Select, Goto

\* A step of a reconcile keeps what it knows of its own group.
LEMMA ReconcileKeepsCapacity ==
  ASSUME Mode = "eager", RotationInv, NodesKnown, CapacityInv, NEW c \in CRs, Reconcile(c)
  PROVE  DecisionInv(c)' /\ ReplacementInv(c)'
<1>0. TypeOK /\ pc \in [CRs -> PCs] /\ ctx \in [CRs -> Contexts]
      /\ life \in [Instances -> Lifecycle] /\ Desired \in Nat
  BY ConstantsAssumption, Zenon DEF RotationInv, TypeOK
<1> USE DEF Goto, FailWith
<1> DEFINE Goal == DecisionInv(c)' /\ ReplacementInv(c)'
<1>1. pc'[c] \in {"idle", "discover", "update"} => Goal
  BY Zenon DEF DecisionInv, ReplacementInv, Deciding, Replacing
<1>2. CASE Discover(c)
  <2>1. CASE pc'[c] = "select"
    <3>1. ctx' = [ctx EXCEPT ![c] = [ctx[c] EXCEPT !.life = life, !.old = old, !.inprog = Tagged(InProgress),
                    !.status = IF IsScalingGroupDrifted(c) THEN "running" ELSE "completed"]]
      BY <1>2, Zenon DEF Discover
    <3>2. ctx'[c].life = life /\ life' = life
      BY <1>0, <1>2, <3>1 DEF Contexts, Discover, cloudVars
    <3>3. WereFilling(c)' = Filling(c)
      BY <3>2, Zenon DEF WereFilling, Filling, GroupOf
    <3>4. Cardinality(Filling(c)) <= Desired
      BY Zenon DEF CapacityInv
    <3>5. \A i \in Ready(c)' : life'[i] = "InService"
      BY <3>2, Zenon DEF Ready
    <3> QED BY <2>1, <3>2, <3>3, <3>4, <3>5, Zenon DEF DecisionInv, ReplacementInv, Replacing
  <2> QED BY <1>0, <1>1, <1>2, <2>1, Zenon DEF Discover
<1>3. CASE Choice(c)
  <2>1. /\ \A i \in ctx'[c].batch : ctx[c].life[i] \in Serving
        /\ ctx'[c].life = ctx[c].life
        /\ pc'[c] = "replace" /\ life' = life
    BY <1>0, <1>3, BatchesServe, Zenon
  <2>2. pc[c] = "select"
    BY <1>3, Zenon DEF Choice, SelectTargets, SelectUntagFails, SelectDescribeFails, Select
  <2>3. WereFilling(c)' = WereFilling(c) /\ Ready(c)' = Ready(c)
    BY <2>1, Zenon DEF WereFilling, Ready, GroupOf
  <2>4. DecisionInv(c)
    BY Zenon DEF CapacityInv
  <2> QED BY <2>1, <2>2, <2>3, <2>4, Zenon DEF DecisionInv, ReplacementInv, Deciding, Replacing, GroupOf
<1>4. ASSUME Deciding(c) \/ Replacing(c), pc[c] # "select",
             ctx'[c].life = ctx[c].life, ctx'[c].batch = ctx[c].batch,
             \A i \in Ready(c) : life'[i] = "InService",
             pc'[c] \notin {"terminate", "decrement"} => pc[c] \notin {"terminate", "decrement"} /\ life' = life
      PROVE  DecisionInv(c)'
  <2>1. WereFilling(c)' = WereFilling(c) /\ Ready(c)' = Ready(c)
    BY <1>4, Zenon DEF WereFilling, Ready, GroupOf
  <2>2. DecisionInv(c)
    BY Zenon DEF CapacityInv
  <2> QED BY <1>4, <2>1, <2>2, Zenon DEF DecisionInv, GroupOf
<1>5. DecisionInv(c) /\ ReplacementInv(c)
  BY Zenon DEF CapacityInv
<1>6. CASE LoadReplacements(c) \/ TagEager(c)
  <2>1. /\ pc[c] \in {"replace", "balloon"} /\ pc'[c] \in {"balloon", "standby"}
        /\ life' = life
    BY <1>0, <1>6, Zenon DEF LoadReplacements, TagEager, cloudVars
  <2>2. /\ ctx'[c].life = ctx[c].life /\ ctx'[c].batch = ctx[c].batch
        /\ TagEager(c) => ctx'[c].todo \subseteq InService(c)
    <3>1. CASE LoadReplacements(c)
      BY <1>0, <3>1, Zenon DEF LoadReplacements, TagEager, Contexts
    <3>2. CASE TagEager(c)
      <4>1. PICK S \in SUBSET InService(c) : ctx' = [ctx EXCEPT ![c].todo = S]
        BY <3>2, Zenon DEF TagEager
      <4> QED BY <1>0, <4>1, Zenon DEF Contexts
    <3> QED BY <1>6, <3>1, <3>2, Zenon
  <2>3. pc'[c] = "standby" => TagEager(c)
    BY <1>0, <1>6, Zenon DEF LoadReplacements
  <2>4. DecisionInv(c)'
    BY <1>4, <1>5, <2>1, <2>2, Zenon DEF DecisionInv, Deciding
  <2> QED BY <2>1, <2>2, <2>3, <2>4, Zenon DEF ReplacementInv, Replacing, InService
<1>7. ASSUME NEW list, \A i \in list : Known(i), AwaitDesired(c, list), pc'[c] = "launch" PROVE Goal
  <2>1. /\ pc[c] = "replace" /\ ctx' = ctx /\ life' = life /\ nodes' = nodes
        /\ InService(c) = {} /\ DesiredNodesReady(c, list)
    BY <1>0, <1>7, Zenon DEF AwaitDesired, cloudVars
  <2>2. Cardinality(Ready(c)) = Desired /\ Cardinality(Ready(c) \cap list) = Desired
    BY <2>1, Zenon DEF DesiredNodesReady, Ready
  <2>3. /\ IsFiniteSet(Ready(c)) /\ IsFiniteSet(WereFilling(c))
        /\ Cardinality(Ready(c)) <= Cardinality(WereFilling(c))
        /\ Cardinality(WereFilling(c)) \in Nat
    <3>1. WereFilling(c) \subseteq Instances /\ Ready(c) \subseteq WereFilling(c) /\ Ready(c) \subseteq Instances
      BY Zenon DEF WereFilling, Ready, GroupOf
    <3> QED BY <3>1, InstanceSets, Zenon
  <2>4. Ready(c) \subseteq list
    BY <2>2, <2>3, FS_Subset, Zenon
  <2>5. Cardinality(WereFilling(c)) <= Desired
        /\ (\A i \in ctx[c].batch : ctx[c].life[i] \in Serving) /\ (\A i \in Ready(c) : life[i] = "InService")
    BY <1>5, <2>1, Zenon DEF DecisionInv, Deciding
  <2>6. WereFilling(c) = Ready(c)
    <3>1. Cardinality(WereFilling(c)) = Cardinality(Ready(c))
      BY <1>0, <2>2, <2>3, <2>5
    <3>2. Ready(c) \in SUBSET WereFilling(c)
      BY Zenon DEF WereFilling, Ready
    <3> QED BY <2>3, <3>1, <3>2, FS_Subset, Zenon
  <2>7. \A i \in ctx[c].batch : ctx[c].life[i] = "Standby"
    BY <2>1, <2>5, <2>6, Zenon DEF RotationInv, BatchFits, WereFilling, Ready, InService, Serving
  <2>8. DecisionInv(c)'
    BY <1>4, <1>7, <2>1, <2>5, Zenon DEF Deciding
  <2>9. Ready(c)' = Ready(c)
    BY <2>1, Zenon DEF Ready, GroupOf
  <2>10. Ready(c) \subseteq nodes
    BY <1>7, <2>4, <2>5, Zenon DEF Known, OutOfService
  <2> QED BY <1>7, <2>1, <2>2, <2>7, <2>8, <2>9, <2>10, Zenon DEF ReplacementInv
<1>8. CASE Eager(c)
  <2>1. CASE AwaitDesiredNodes(c) \/ AwaitCachedNodes(c)
    <3>0. (\A i \in nodes : Known(i)) /\ (\A i \in ctx[c].nodes : Known(i))
      BY Zenon DEF NodesKnown, Known
    <3>1. PICK list \in {nodes, ctx[c].nodes} : AwaitDesired(c, list) /\ \A i \in list : Known(i)
      BY <2>1, <3>0, Zenon DEF AwaitDesiredNodes, AwaitCachedNodes
    <3>2. pc'[c] \in {"launch", "update"}
      BY <1>0, <3>1, Zenon DEF AwaitDesired, AfterDelays
    <3> QED BY <1>1, <1>7, <3>1, <3>2, Zenon
  <2>2. CASE Ballooned(c) \/ TagEagerFails(c) \/ SetBatchStandBy(c) \/ StandByFails(c)
    BY <1>0, <1>1, <2>2, Zenon DEF Ballooned, TagEagerFails, SetBatchStandBy, StandByFails
  <2> QED BY <1>6, <1>8, <2>1, <2>2, Zenon DEF Eager
<1>9. ASSUME Replacing(c), Replacing(c)',
             ctx'[c].life = ctx[c].life, ctx'[c].batch = ctx[c].batch, nodes' = nodes,
             pc'[c] \in {"standby", "terminate", "decrement"} => ctx'[c].todo \subseteq ctx[c].batch
      PROVE  ReplacementInv(c)'
  <2>1. Ready(c)' = Ready(c)
    BY <1>9, Zenon DEF Ready, GroupOf
  <2> QED BY <1>5, <1>9, <2>1, Zenon DEF ReplacementInv
<1>10. Replacing(c) => \A i \in Ready(c) : life[i] = "InService"
  BY <1>5, Zenon DEF DecisionInv
<1>11. CASE AwaitDrains(c)
  <2>1. CASE ReceiveError(c) \/ WaitTimesOut(c)
    BY <1>0, <1>1, <2>1, Zenon DEF ReceiveError, WaitTimesOut
  <2>2. CASE LaunchDrains(c)
    <3>1. pc[c] = "launch" /\ pc'[c] = "wait" /\ life' = life /\ nodes' = nodes
      BY <1>0, <2>2, Zenon DEF LaunchDrains, cloudVars
    <3>2. ctx'[c].life = ctx[c].life /\ ctx'[c].batch = ctx[c].batch
      BY <1>0, <2>2, Zenon DEF LaunchDrains, Contexts
    <3> QED BY <1>4, <1>9, <1>10, <3>1, <3>2, Zenon DEF Replacing
  <2>3. CASE DrainsDone(c)
    <3>1. pc[c] = "wait" /\ pc'[c] = "terminate" /\ life' = life /\ nodes' = nodes
      BY <1>0, <2>3, Zenon DEF DrainsDone, cloudVars
    <3>2. ctx'[c].life = ctx[c].life /\ ctx'[c].batch = ctx[c].batch /\ ctx'[c].todo \subseteq ctx[c].batch
      BY <1>0, <2>3, Zenon DEF DrainsDone, Contexts
    <3> QED BY <1>4, <1>9, <1>10, <3>1, <3>2, Zenon DEF Replacing
  <2> QED BY <1>11, <2>1, <2>2, <2>3, Zenon DEF AwaitDrains
<1>12. CASE Termination(c)
  <2>1. CASE TerminateFails(c) \/ BatchTerminated(c) \/ PostTerminateFails(c)
    BY <1>0, <1>1, <2>1, Zenon DEF TerminateFails, BatchTerminated, PostTerminateFails
  <2>2. CASE Terminate(c)
    <3>1. PICK i \in ctx[c].todo :
            /\ life' = [life EXCEPT ![i] = "Terminating"]
            /\ ctx' = [ctx EXCEPT ![c] = [ctx[c] EXCEPT
                         !.todo = ctx[c].todo \ {i}, !.count = ReplacementNodes,
                         !.waits = ctx[c].waits \cup ({"termination"} \cap Intervals)]]
      BY <2>2, Zenon DEF Terminate
    <3>2. pc[c] = "terminate" /\ pc'[c] = "decrement" /\ nodes' = nodes
      BY <1>0, <2>2, Zenon DEF Terminate
    <3>3. ctx'[c].life = ctx[c].life /\ ctx'[c].batch = ctx[c].batch /\ ctx'[c].todo \subseteq ctx[c].todo
      BY <1>0, <3>1, Zenon DEF Contexts
    <3>4. i \notin Ready(c) /\ ctx[c].todo \subseteq ctx[c].batch
      BY <1>5, <3>1, <3>2, Zenon DEF ReplacementInv, Replacing, Ready
    <3>5. \A j \in Ready(c) : life'[j] = "InService"
      BY <1>0, <1>10, <3>1, <3>2, <3>4, Zenon DEF Replacing, Ready, GroupOf
    <3> QED BY <1>4, <1>9, <3>2, <3>3, <3>4, <3>5, Zenon DEF Replacing
  <2>3. CASE PostTerminate(c)
    <3>1. pc[c] = "decrement" /\ pc'[c] = "terminate" /\ ctx' = ctx /\ life' = life /\ nodes' = nodes
      BY <1>0, <2>3, Zenon DEF PostTerminate, cloudVars
    <3>2. ctx[c].todo \subseteq ctx[c].batch
      BY <1>5, <3>1, Zenon DEF ReplacementInv
    <3> QED BY <1>4, <1>9, <1>10, <3>1, <3>2, Zenon DEF Replacing
  <2> QED BY <1>12, <2>1, <2>2, <2>3, Zenon DEF Termination
<1>13. CASE BeginReconcile(c) \/ BeginUnaware(c) \/ DiscoverFails(c) \/ Update(c) \/ UpdateFails(c)
  BY <1>0, <1>1, <1>13, Zenon DEF BeginReconcile, BeginUnaware, Begin, DiscoverFails, Update,
    UpdateFails, Return
<1>14. ~Lazy(c)
  BY Zenon DEF Lazy, TagLazy, TagLazyFails
<1> QED
  BY <1>2, <1>3, <1>8, <1>11, <1>12, <1>13, <1>14, Zenon DEF Reconcile, Discovery

\* What was ready when a batch is replaced remains: joined, not drained.
LEMMA ReadyIsSafe ==
  ASSUME CapacityInv, TypeOK, NEW c \in CRs, Replacing(c)
  PROVE  \A i \in Ready(c) : /\ life[i] = "InService" /\ i \in nodes
                             /\ drain[i] = "none" /\ i \notin drained
                             /\ i \notin ctx[c].batch
<1>1. /\ \A i \in Ready(c) : life[i] = "InService" /\ i \in nodes /\ i \in Instances
      /\ \A i \in ctx[c].batch : ctx[c].life[i] = "Standby"
  BY Zenon DEF CapacityInv, DecisionInv, ReplacementInv, Ready, GroupOf
<1> QED BY <1>1, Zenon DEF CapacityInv, Ready, OutOfService

\* RotateNodes in eager mode: a group that starts with its desired number of
\* joined nodes never has fewer that are not drained, for any group size, batch
\* size and number of replacements, whatever calls, scripts, drains and updates
\* fail, and across restarts, new templates and resubmissions.
THEOREM EagerGroupsKeepCapacity ==
  ASSUME Mode = "eager", \A c \in CRs : Cardinality(Initial \cap GroupOf(c)) = Desired
  PROVE  Spec => []EagerKeepsCapacity
<1>1. Init => CapacityInv
  <2> SUFFICES ASSUME Init PROVE CapacityInv
    BY Zenon
  <2> USE ConstantsAssumption DEF Init
  <2>1. \A c \in CRs : Filling(c) = Initial \cap GroupOf(c)
    BY Zenon DEF Filling, GroupOf
  <2>2. \A c \in CRs : Safe(c) = Initial \cap GroupOf(c)
    BY Zenon DEF Safe, Available, DrainGroup, GroupOf
  <2>3. \A c \in CRs : DecisionInv(c) /\ ReplacementInv(c)
    BY Zenon DEF DecisionInv, ReplacementInv, Deciding, Replacing
  <2> QED BY <2>1, <2>2, <2>3 DEF CapacityInv
<1>2. ASSUME RotationInv, NodesKnown, CapacityInv, [Next]_vars PROVE CapacityInv'
  <2>0. /\ TypeOK /\ BatchFits /\ pc \in [CRs -> PCs] /\ ctx \in [CRs -> Contexts]
        /\ life \in [Instances -> Lifecycle] /\ drain \in [Instances -> DrainPCs]
        /\ Group \in [Instances -> CRs] /\ Desired \in Nat
    BY <1>2, ConstantsAssumption, Zenon DEF RotationInv, TypeOK
  <2> USE DEF OutOfService
  <2> DEFINE Room == \A c \in CRs : Filling(c)' \subseteq Filling(c) \/ Cardinality(Filling(c)') <= Desired
             OutOfUse == \A i \in Instances : drain'[i] # "none" \/ i \in drained' => life'[i] \in OutOfService
             Kept == \A c \in CRs : Safe(c) \subseteq Safe(c)' \/ (Replacing(c) /\ Ready(c) \subseteq Safe(c)')
             Steady(c) == /\ pc'[c] = pc[c] /\ ctx'[c] = ctx[c]
                          /\ \A i \in GroupOf(c) : life[i] \in {"InService", "Standby"} =>
                               life'[i] = life[i] /\ (i \in nodes => i \in nodes')
             Choices == \A c \in CRs : DecisionInv(c)' /\ ReplacementInv(c)'
             Good == Room /\ OutOfUse /\ Kept /\ Choices
  <2>1. ASSUME NEW c \in CRs, Steady(c) PROVE DecisionInv(c)' /\ ReplacementInv(c)'
    <3>1. DecisionInv(c) /\ ReplacementInv(c)
      BY <1>2, Zenon DEF CapacityInv
    <3>2. WereFilling(c)' = WereFilling(c) /\ Ready(c)' = Ready(c)
      BY <2>1, Zenon DEF WereFilling, Ready, GroupOf
    <3>3. DecisionInv(c)'
      BY <2>1, <3>1, <3>2, Zenon DEF DecisionInv, Deciding, Replacing, Ready, GroupOf
    <3>4. ReplacementInv(c)'
      BY <2>1, <3>1, <3>2, Zenon DEF ReplacementInv, DecisionInv, Replacing, Ready, GroupOf
    <3> QED BY <3>3, <3>4, Zenon
  <2>2. ASSUME UNCHANGED <<life, nodes, drain, drained>> PROVE Room /\ OutOfUse /\ Kept
    <3>1. \A c \in CRs : Filling(c)' = Filling(c) /\ Safe(c)' = Safe(c)
      BY <2>2, Zenon DEF Filling, Safe, Available, DrainGroup, GroupOf
    <3> QED BY <1>2, <2>2, <3>1, Zenon DEF CapacityInv
  <2>3. ASSUME NEW c \in CRs, SetBatchStandBy(c)
        PROVE  Room /\ OutOfUse /\ Kept /\ \A d \in CRs \ {c} : \A i \in GroupOf(d) : life'[i] = life[i]
    <3>1. /\ UNCHANGED <<nodes, drain, drained>> /\ pc[c] = "standby"
          /\ life' = [i \in Instances |-> IF i \in ctx[c].todo THEN "Standby" ELSE life[i]]
      BY <2>3, Zenon DEF SetBatchStandBy, Goto, drainVars
    <3>2. ctx[c].todo \subseteq GroupOf(c)
      BY <1>2, <2>0, <3>1, Zenon DEF CapacityInv, ReplacementInv, BatchFits
    <3>3. Room
      BY <3>1, Zenon DEF Filling, GroupOf
    <3>4. OutOfUse
      BY <1>2, <3>1, Zenon DEF CapacityInv
    <3>5. Kept
      BY <3>1, Zenon DEF Safe, Available, DrainGroup, GroupOf
    <3> QED BY <3>1, <3>2, <3>3, <3>4, <3>5, Zenon DEF GroupOf
  <2>4. ASSUME NEW c \in CRs, Terminate(c)
        PROVE  Room /\ OutOfUse /\ Kept /\ \A d \in CRs \ {c} : \A i \in GroupOf(d) : life'[i] = life[i]
    <3>1. UNCHANGED <<nodes, drain, drained>> /\ pc[c] = "terminate"
      BY <2>4, Zenon DEF Terminate, Goto, drainVars
    <3>2. PICK i \in ctx[c].todo : life' = [life EXCEPT ![i] = "Terminating"]
      BY <2>4, Zenon DEF Terminate
    <3>3. i \in ctx[c].batch /\ i \in GroupOf(c)
      BY <1>2, <2>0, <3>1, <3>2, Zenon DEF CapacityInv, ReplacementInv, BatchFits
    <3>4. Room
      BY <2>0, <3>2, Zenon DEF Filling, GroupOf
    <3>5. OutOfUse
      BY <1>2, <2>0, <3>1, <3>2, Zenon DEF CapacityInv
    <3>6. \A d \in CRs \ {c} : Safe(d) \subseteq Safe(d)'
      BY <2>0, <3>1, <3>2, <3>3, Zenon DEF Safe, Available, DrainGroup, GroupOf
    <3>7. Replacing(c) /\ Ready(c) \subseteq Safe(c)'
      <4>1. Replacing(c)
        BY <3>1, Zenon DEF Replacing
      <4>2. \A j \in Ready(c) : /\ j \in GroupOf(c) /\ life'[j] = "InService" /\ j \in nodes
                                /\ drain[j] = "none" /\ j \notin drained
        BY <1>2, <2>0, <3>2, <3>3, <4>1, ReadyIsSafe, Zenon DEF Ready, GroupOf
      <4> QED BY <3>1, <4>1, <4>2, Zenon DEF Safe, Available, DrainGroup, GroupOf
    <3>8. Kept
      BY <3>6, <3>7, Zenon
    <3> QED BY <2>0, <3>2, <3>3, <3>4, <3>5, <3>8, Zenon DEF GroupOf
  <2>5. ASSUME NEW c \in CRs, LaunchDrains(c) \/ ReceiveError(c) PROVE Room /\ OutOfUse /\ Kept
    <3>1. UNCHANGED <<life, nodes, drained>> /\ pc[c] \in {"launch", "wait"}
      BY <2>5, Zenon DEF LaunchDrains, ReceiveError, FailWith, Goto, cloudVars
    <3>2. Room
      BY <3>1, Zenon DEF Filling, GroupOf
    <3>3. ASSUME \A i \in Instances : drain'[i] # "none" => drain[i] # "none" PROVE OutOfUse /\ Kept
      BY <1>2, <3>1, <3>3, Zenon DEF CapacityInv, Safe, Available, DrainGroup, GroupOf
    <3>4. CASE ReceiveError(c)
      BY <2>0, <3>2, <3>3, <3>4, Zenon DEF ReceiveError, DrainErrors, Reporting, GroupOf
    <3>5. CASE LaunchDrains(c)
      <4>1. drain' = [i \in Instances |-> IF DrainGroup(c) = {} /\ i \in ctx[c].batch \cap ctx[c].nodes
                                         THEN "predrain" ELSE drain[i]]
            /\ pc[c] = "launch"
        BY <3>5, Zenon DEF LaunchDrains, Goto
      <4>2. /\ \A i \in ctx[c].batch : life[i] = "Standby"
            /\ ctx[c].batch \subseteq GroupOf(c)
        BY <1>2, <2>0, <4>1, Zenon DEF CapacityInv, DecisionInv, ReplacementInv, Replacing, BatchFits
      <4>3. OutOfUse
        BY <1>2, <3>1, <4>1, <4>2, Zenon DEF CapacityInv
      <4>4. \A d \in CRs \ {c} : Safe(d) \subseteq Safe(d)'
        BY <3>1, <4>1, <4>2, Zenon DEF Safe, Available, DrainGroup, GroupOf
      <4>5. Replacing(c)
        BY <4>1, Zenon DEF Replacing
      <4>6. Ready(c) \subseteq Safe(c)'
        <5>1. \A j \in Ready(c) : /\ j \in GroupOf(c) /\ life[j] = "InService" /\ j \in nodes
                                  /\ drain[j] = "none" /\ j \notin drained /\ j \notin ctx[c].batch
          BY <1>2, <2>0, <4>5, ReadyIsSafe, Zenon DEF Ready
        <5> QED BY <3>1, <4>1, <5>1, Zenon DEF Safe, Available, DrainGroup, GroupOf
      <4> QED BY <3>2, <4>3, <4>4, <4>5, <4>6, Zenon
    <3> QED BY <2>5, <3>4, <3>5, Zenon
  <2>6. ASSUME NEW c \in CRs, Reconcile(c) PROVE Good
    <3>1. /\ \A d \in CRs \ {c} : pc'[d] = pc[d] /\ ctx'[d] = ctx[d]
          /\ UNCHANGED <<nodes, drained>>
          /\ UNCHANGED life \/ SetBatchStandBy(c) \/ Terminate(c)
          /\ UNCHANGED drain \/ LaunchDrains(c) \/ ReceiveError(c)
      BY <2>0, <2>6, ReconcileFrame, Zenon
    <3>2. Room /\ OutOfUse /\ Kept
      <4> HIDE DEF Room, OutOfUse, Kept
      <4> QED BY <2>2, <2>3, <2>4, <2>5, <3>1, Zenon
    <3>3. \A d \in CRs \ {c} : Steady(d)
      <4>1. \A d \in CRs \ {c} : \A i \in GroupOf(d) : life'[i] = life[i]
        <5> HIDE DEF Room, OutOfUse, Kept
        <5> QED BY <2>3, <2>4, <3>1, Zenon
      <4> QED BY <3>1, <4>1, Zenon
    <3>4. Choices
      <4> HIDE DEF Steady
      <4>1. \A d \in CRs \ {c} : DecisionInv(d)' /\ ReplacementInv(d)'
        BY <2>1, <3>3, Zenon
      <4>2. DecisionInv(c)' /\ ReplacementInv(c)'
        BY <1>2, <2>6, ReconcileKeepsCapacity, Zenon
      <4> QED BY <4>1, <4>2, Zenon
    <3> QED BY <3>2, <3>4, Zenon
  <2>7. ASSUME NEW i \in Instances, Goroutine(i) PROVE Good
    <3>1. /\ UNCHANGED <<life, nodes, pc, ctx>> /\ drain[i] # "none"
          /\ \A j \in Instances : drain'[j] # "none" => drain[j] # "none"
          /\ drained' \subseteq drained \cup {i} /\ drained \subseteq drained'
      BY <2>0, <2>7, Zenon DEF Goroutine, DrainGoto, Script, ScriptFails, PreDrain, PreDrainFails, CordonNode, DrainNode,
        DrainIgnored, DrainFails, PostDrain, PostDrainFails, PostWait, PostWaitFails, cloudVars
    <3>2. Room
      BY <3>1, Zenon DEF Filling, GroupOf
    <3>3. OutOfUse
      BY <1>2, <3>1, Zenon DEF CapacityInv
    <3>4. Kept
      BY <3>1, Zenon DEF Safe, Available, DrainGroup, GroupOf
    <3>5. Choices
      BY <2>1, <3>1, Zenon
    <3> QED BY <3>2, <3>3, <3>4, <3>5, Zenon
  <2>8. ASSUME NEW i \in Instances, Cloud(i) PROVE Good
    <3>1. UNCHANGED <<drain, drained, pc, ctx>>
      BY <2>8, Zenon DEF Cloud, LaunchInstance, EnterService, JoinCluster, Terminated, drainVars
    <3>2. \A j \in Instances : /\ life[j] \in {"InService", "Standby"} => life'[j] = life[j]
                                                                         /\ (j \in nodes => j \in nodes')
                               /\ life[j] \in OutOfService => life'[j] \in OutOfService
      BY <2>0, <2>8, Zenon DEF Cloud, LaunchInstance, EnterService, JoinCluster, Terminated
    <3>3. Choices
      BY <2>1, <3>1, <3>2, Zenon DEF GroupOf
    <3>4. OutOfUse
      BY <1>2, <3>1, <3>2, Zenon DEF CapacityInv
    <3>5. Kept
      BY <3>1, <3>2, Zenon DEF Safe, Available, DrainGroup, GroupOf
    <3>6. Room
      <4>1. CASE EnterService(i) \/ JoinCluster(i) \/ Terminated(i)
        BY <2>0, <4>1, Zenon DEF EnterService, JoinCluster, Terminated, Filling, GroupOf
      <4>2. CASE LaunchInstance(i)
        <5>1. Cardinality(Filling(Group[i])) < Desired /\ life' = [life EXCEPT ![i] = "Pending"]
          BY <4>2, Zenon DEF LaunchInstance, Filling
        <5>2. \A c \in CRs \ {Group[i]} : Filling(c)' \subseteq Filling(c)
          BY <2>0, <5>1, Zenon DEF Filling, GroupOf
        <5>3. Filling(Group[i])' = Filling(Group[i]) \cup {i}
          BY <2>0, <5>1, Zenon DEF Filling, GroupOf
        <5>4. IsFiniteSet(Filling(Group[i])) /\ Cardinality(Filling(Group[i])) \in Nat
          BY InstanceSets, Zenon DEF Filling, GroupOf
        <5>5. Cardinality(Filling(Group[i])') \in {Cardinality(Filling(Group[i])), Cardinality(Filling(Group[i])) + 1}
          <6>1. Cardinality(Filling(Group[i]) \cup {i})
                  = IF i \in Filling(Group[i]) THEN Cardinality(Filling(Group[i])) ELSE Cardinality(Filling(Group[i])) + 1
            BY <5>4, FS_AddElement, Zenon
          <6> QED BY <5>3, <6>1, Zenon
        <5>6. Cardinality(Filling(Group[i])') \in Nat
          BY InstanceSets, Zenon DEF Filling, GroupOf
        <5>7. Cardinality(Filling(Group[i])') <= Desired
          BY <2>0, <5>1, <5>4, <5>5, <5>6
        <5> QED BY <5>2, <5>7, Zenon
      <4> QED BY <2>8, <4>1, <4>2, Zenon DEF Cloud
    <3> QED BY <3>3, <3>4, <3>5, <3>6, Zenon
  <2>9. ASSUME Crash PROVE Good
    <3>1. /\ UNCHANGED <<life, nodes, drained>>
          /\ \A i \in Instances : drain'[i] = "none"
          /\ \A c \in CRs : pc'[c] = "idle"
      BY <2>9, Zenon DEF Crash, cloudVars
    <3>2. Room
      BY <3>1, Zenon DEF Filling, GroupOf
    <3>3. OutOfUse
      BY <1>2, <3>1, Zenon DEF CapacityInv
    <3>4. Kept
      BY <3>1, Zenon DEF Safe, Available, DrainGroup, GroupOf
    <3>5. Choices
      BY <3>1, Zenon DEF DecisionInv, ReplacementInv, Deciding, Replacing
    <3> QED BY <3>2, <3>3, <3>4, <3>5, Zenon
  <2>10. ASSUME UNCHANGED <<life, nodes, drain, drained, pc, ctx>> PROVE Good
    <3>1. Choices
      BY <2>1, <2>10, Zenon
    <3> QED BY <2>2, <2>10, <3>1, Zenon
  <2>11. Good
    <3>1. ASSUME NEW c \in CRs, DelaysElapse(c) \/ NewTemplate(c) \/ Resubmit(c)
          PROVE  UNCHANGED <<life, nodes, drain, drained, pc, ctx>>
      BY <3>1, Zenon DEF DelaysElapse, NewTemplate, Resubmit, cloudVars, drainVars
    <3>2. ASSUME NEW i \in Instances, NodeEvent(i) PROVE UNCHANGED <<life, nodes, drain, drained, pc, ctx>>
      BY <3>2, Zenon DEF NodeEvent, cloudVars, drainVars
    <3>3. ASSUME UNCHANGED vars PROVE UNCHANGED <<life, nodes, drain, drained, pc, ctx>>
      BY <3>3, Zenon DEF vars, cloudVars, drainVars
    <3> HIDE DEF Good
    <3> QED BY <1>2, <2>6, <2>7, <2>8, <2>9, <2>10, <3>1, <3>2, <3>3, Zenon DEF Next
  <2>12. \A c \in CRs : Cardinality(Filling(c)') <= Desired
    <3> SUFFICES ASSUME NEW c \in CRs, Filling(c)' \subseteq Filling(c) PROVE Cardinality(Filling(c)') <= Desired
      BY <2>11, Zenon
    <3>1. Filling(c) \subseteq Instances
      BY Zenon DEF Filling, GroupOf
    <3>2. Cardinality(Filling(c)') <= Cardinality(Filling(c))
          /\ Cardinality(Filling(c)') \in Nat /\ Cardinality(Filling(c)) \in Nat
      BY <3>1, InstanceSets, Zenon
    <3>3. Cardinality(Filling(c)) <= Desired
      BY <1>2, Zenon DEF CapacityInv
    <3> QED BY <2>0, <3>2, <3>3
  <2>13. \A c \in CRs : Cardinality(Safe(c)') >= Desired
    <3> SUFFICES ASSUME NEW c \in CRs PROVE Cardinality(Safe(c)') >= Desired
      BY Zenon
    <3>1. Safe(c)' \subseteq Instances
      BY Zenon DEF Safe, Available, GroupOf
    <3>2. PICK S \in {Safe(c), Ready(c)} : S \subseteq Safe(c)' /\ Cardinality(S) >= Desired
      <4>1. CASE Safe(c) \subseteq Safe(c)'
        BY <1>2, <4>1, Zenon DEF CapacityInv
      <4>2. CASE Replacing(c) /\ Ready(c) \subseteq Safe(c)'
        BY <1>2, <2>0, <4>2 DEF CapacityInv, ReplacementInv
      <4> QED BY <2>11, <4>1, <4>2, Zenon
    <3>3. Cardinality(S) <= Cardinality(Safe(c)') /\ Cardinality(S) \in Nat /\ Cardinality(Safe(c)') \in Nat
      BY <3>1, <3>2, InstanceSets, Zenon
    <3> QED BY <2>0, <3>2, <3>3
  <2> QED BY <2>11, <2>12, <2>13, Zenon DEF CapacityInv
<1>3. CapacityInv /\ RotationInv => EagerKeepsCapacity
  <2> SUFFICES ASSUME CapacityInv, NEW c \in CRs PROVE Cardinality(Available(c)) >= Desired
    BY Zenon DEF EagerKeepsCapacity
  <2>1. Available(c) \subseteq Instances /\ Safe(c) \subseteq Available(c)
    BY Zenon DEF Available, Safe, GroupOf
  <2>2. Cardinality(Safe(c)) <= Cardinality(Available(c)) /\ Cardinality(Safe(c)) \in Nat /\ Cardinality(Available(c)) \in Nat
    BY <2>1, InstanceSets, Zenon
  <2>3. Cardinality(Safe(c)) >= Desired
    BY Zenon DEF CapacityInv
  <2> QED BY <2>2, <2>3, ConstantsAssumption
<1>4. Init => NodesKnown
  BY DEF Init, NodesKnown, NoCtx
<1>5. RotationInv => TypeOK
  BY Zenon DEF RotationInv
<1> QED BY <1>1, <1>2, <1>3, <1>4, <1>5, NodesKnownNext, RotationInvariant, PTL DEF Spec
=============================================================================
