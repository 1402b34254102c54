----------------------------- MODULE RotationProofs -----------------------------
(***************************************************************************)
(* What module Rotation promises for any groups, batch size and number of  *)
(* disruptions, in both modes.                                             *)
(***************************************************************************)
EXTENDS Rotation, FiniteSetTheorems, TLAPS

--------------------------------------------------------------------------------
(***************************************************************************)
(* Facts about the operators.                                              *)
(***************************************************************************)

\* A set of instances is finite and no larger than a set that contains it.
LEMMA InstanceSets ==
  ASSUME NEW S \in SUBSET Instances, NEW T \in SUBSET S
  PROVE  /\ IsFiniteSet(S) /\ Cardinality(S) \in Nat
         /\ Cardinality(T) \in Nat /\ Cardinality(T) <= Cardinality(S)
  BY ConstantsAssumption, FS_Subset, FS_CardinalityType, Zenon

\* The batch size is at least one.
LEMMA BatchSize == CalculateMaxUnavailable \in Nat /\ CalculateMaxUnavailable >= 1
  BY ConstantsAssumption DEF CalculateMaxUnavailable

\* The outcome of a reconcile is set.
LEMMA ContextStatus ==
  ASSUME NEW f \in [CRs -> Contexts], NEW c \in CRs, NEW s \in Statuses
  PROVE  [f EXCEPT ![c].status = s] \in [CRs -> Contexts]
  BY DEF Contexts

\* What Discover stores.
LEMMA ContextDiscovered ==
  ASSUME NEW r \in Contexts, NEW l \in [Instances -> Lifecycle],
         NEW S \in SUBSET Instances, NEW T \in SUBSET Instances, NEW s \in Statuses
  PROVE  [r EXCEPT !.life = l, !.old = S, !.inprog = T, !.status = s] \in Contexts
  BY Zenon DEF Contexts

\* The drains are started, or not.
LEMMA ContextStarted ==
  ASSUME NEW f \in [CRs -> Contexts], NEW c \in CRs, NEW b \in BOOLEAN
  PROVE  [f EXCEPT ![c].started = b] \in [CRs -> Contexts]
  BY DEF Contexts

\* A batch is selected.
LEMMA ContextBatch ==
  ASSUME NEW f \in [CRs -> Contexts], NEW c \in CRs, NEW S \in SUBSET Instances
  PROVE  [f EXCEPT ![c].batch = S] \in [CRs -> Contexts]
  BY DEF Contexts

\* The instances to move to standby.
LEMMA ContextTodo ==
  ASSUME NEW f \in [CRs -> Contexts], NEW c \in CRs, NEW S \in SUBSET Instances
  PROVE  [f EXCEPT ![c].todo = S] \in [CRs -> Contexts]
  BY DEF Contexts

\* The counter is loaded.
LEMMA ContextCount ==
  ASSUME NEW f \in [CRs -> Contexts], NEW c \in CRs, NEW n \in Nat
  PROVE  [f EXCEPT ![c].count = n] \in [CRs -> Contexts]
  BY Zenon DEF Contexts

\* The drains are done.
LEMMA ContextDone ==
  ASSUME NEW f \in [CRs -> Contexts], NEW c \in CRs, NEW S \in SUBSET Instances, NEW w \in SUBSET Intervals
  PROVE  [f EXCEPT ![c].todo = S, ![c].waits = w] \in [CRs -> Contexts]
<1>1. [f[c] EXCEPT !.todo = S, !.waits = w] \in Contexts
  BY Zenon DEF Contexts
<1>2. [f EXCEPT ![c].todo = S, ![c].waits = w] = [f EXCEPT ![c] = [f[c] EXCEPT !.todo = S, !.waits = w]]
  BY Zenon
<1> QED BY <1>1, <1>2, Zenon

\* An instance is terminated.
LEMMA ContextTerminated ==
  ASSUME NEW r \in Contexts, NEW S \in SUBSET Instances, NEW n \in Nat, NEW w \in SUBSET Intervals
  PROVE  [r EXCEPT !.todo = S, !.count = n, !.waits = w] \in Contexts
  BY Zenon DEF Contexts

\* The context a reconcile begins with.
LEMMA ContextBegun ==
  ASSUME NEW S \in SUBSET Instances, NEW T \in SUBSET Instances
  PROVE  [NoCtx EXCEPT !.nodes = S, !.failed = T, !.status = "running"] \in Contexts
  BY Zenon DEF NoCtx, Contexts, Lifecycle, Statuses

\* A reconcile that does not run has the empty context.
LEMMA NoContext == NoCtx \in Contexts
  BY Zenon DEF NoCtx, Contexts, Lifecycle, Statuses

\* What the fields of a context are.
LEMMA ContextFields ==
  ASSUME NEW f \in [CRs -> Contexts], NEW c \in CRs
  PROVE  /\ f[c] \in Contexts
         /\ f[c].nodes \subseteq Instances /\ f[c].inprog \subseteq Instances
         /\ f[c].batch \subseteq Instances /\ f[c].todo \subseteq Instances
         /\ f[c].waits \subseteq Intervals
         /\ f[c].count \in Nat /\ f[c].status \in Statuses
         /\ \A r \in Contexts : [f EXCEPT ![c] = r] \in [CRs -> Contexts]
  BY Zenon DEF Contexts

\* A batch is a set of instances of the group, no larger than the batch size.
LEMMA TargetsInGroup ==
  ASSUME TypeOK, NEW c \in CRs, NEW tags \in [Instances -> Tags],
         NEW excluded, NEW B \in Targets(c, tags, excluded)
  PROVE  B \subseteq GroupOf(c) /\ Cardinality(B) <= CalculateMaxUnavailable
<1> DEFINE all == InprogressTargets(c) \cup UnprocessedTargets(c, tags, excluded)
<1>1. all \subseteq GroupOf(c)
  BY ContextFields, Zenon DEF TypeOK, InprogressTargets, UnprocessedTargets, GroupOf
<1>2. Cardinality(all) \in Nat
  BY <1>1, InstanceSets, Zenon DEF GroupOf
<1>3. B \subseteq all /\ Cardinality(B) \in {Cardinality(all), CalculateMaxUnavailable}
                      /\ (Cardinality(B) = Cardinality(all) => ~(CalculateMaxUnavailable < Cardinality(B)))
  BY <1>2, BatchSize DEF Targets
<1>4. QED
  BY <1>1, <1>2, <1>3, BatchSize

\* The same for what RotateNodes selects.
LEMMA SelectionInGroup ==
  ASSUME TypeOK, NEW c \in CRs, NEW tags \in [Instances -> Tags], NEW B \in Selection(c, tags)
  PROVE  B \subseteq GroupOf(c) /\ Cardinality(B) <= CalculateMaxUnavailable
  BY TargetsInGroup, Zenon DEF Selection

\* An empty batch, for a failed look-up.
LEMMA EmptyBatch == {} \subseteq Instances /\ Cardinality({}) <= CalculateMaxUnavailable
  BY FS_EmptySet, BatchSize

\* Setting and removing tags.
LEMMA TagUpdates ==
  ASSUME TypeOK, NEW S, NEW v \in Tags
  PROVE  SetTag(S, v) \in [Instances -> Tags] /\ Untag(S) \in [Instances -> Tags]
  BY Zenon DEF TypeOK, SetTag, Untag, Tags

\* ClusterBallooning allows a number of replacements.
LEMMA BatchAllowed ==
  ASSUME TypeOK, NEW c \in CRs
  PROVE  AllowedBatch(c) \in Nat
<1>1. Cardinality(InService(c)) \in Nat
  BY ContextFields, InstanceSets, Zenon DEF TypeOK, InService
<1>2. ctx[c].count \in Nat
  BY ContextFields, Zenon DEF TypeOK
<1>3. QED
  BY <1>1, <1>2, ConstantsAssumption DEF AllowedBatch, ClusterBallooning

--------------------------------------------------------------------------------
(***************************************************************************)
(* Types.                                                                  *)
(***************************************************************************)

\* The variables start with their types.
LEMMA TypeInit == Init => TypeOK
  BY ConstantsAssumption DEF Init, TypeOK, NoCtx, Contexts, Statuses, FiniteStates, PCs, DrainPCs,
     Lifecycle, Serving, Tags, NoTag

\* Every action keeps the types of the variables.
LEMMA TypeNext == TypeOK /\ [Next]_vars => TypeOK'
<1> SUFFICES ASSUME TypeOK, [Next]_vars PROVE TypeOK'
  BY Zenon
<1> USE ConstantsAssumption DEF TypeOK, cloudVars, drainVars, crVars, Goto, FailWith, Disrupt
<1>1. ASSUME NEW c \in CRs, Discovery(c) PROVE TypeOK'
  <2>1. CASE BeginReconcile(c)
    <3>1. ctx' \in [CRs -> Contexts]
      <4>1. Tagged(FailedDrain) \subseteq Instances /\ "running" \in Statuses
        BY Zenon DEF Tagged, Statuses
      <4>2. QED
        BY <2>1, <4>1, ContextBegun, ContextFields, Zenon DEF BeginReconcile, Begin
    <3>2. QED
      BY <2>1, <3>1, Zenon DEF BeginReconcile, Begin, PCs
  <2>2. CASE BeginUnaware(c)
    <3>1. ctx' \in [CRs -> Contexts]
      <4>1. "running" \in Statuses
        BY Zenon DEF Statuses
      <4>2. QED
        BY <2>2, <4>1, ContextBegun, ContextFields, Zenon DEF BeginUnaware, Begin
    <3>2. QED
      BY <2>2, <3>1 DEF BeginUnaware, Begin, PCs
  <2>3. CASE Discover(c)
    <3>1. ctx' \in [CRs -> Contexts]
      <4>1. Tagged(InProgress) \in SUBSET Instances /\ {"running", "completed"} \subseteq Statuses
        BY Zenon DEF Tagged, Statuses, FiniteStates
      <4>2. QED
        BY <2>3, <4>1, ContextDiscovered, ContextFields, Zenon DEF Discover
    <3>2. QED
      BY <2>3, <3>1, Zenon DEF Discover, PCs
  <2>4. CASE DiscoverFails(c)
    <3>1. ctx' \in [CRs -> Contexts]
      <4>1. "error" \in Statuses
        BY Zenon DEF Statuses, FiniteStates
      <4>2. QED
        BY <2>4, <4>1, ContextStatus, ContextFields, Zenon DEF DiscoverFails
    <3>2. QED
      BY <2>4, <3>1 DEF DiscoverFails, PCs
  <2>5. QED
    BY <1>1, <2>1, <2>2, <2>3, <2>4, Zenon DEF Discovery
<1>2. ASSUME NEW c \in CRs, Choice(c) PROVE TypeOK'
  <2>1. CASE SelectTargets(c)
    <3>1. ctx' \in [CRs -> Contexts]
      <4>1. PICK B \in Selection(c, Untag(Orphans(c))) : ctx' = [ctx EXCEPT ![c].batch = B]
        BY <2>1, Zenon DEF SelectTargets, Select
      <4>2. B \subseteq Instances
        BY <4>1, TagUpdates, SelectionInGroup, Zenon DEF GroupOf, Tags, NoTag
      <4>3. QED
        BY <4>1, <4>2, ContextBatch, ContextFields, Zenon
    <3>2. QED
      BY <2>1, <3>1, TagUpdates, Zenon DEF SelectTargets, Select, PCs, Tags
  <2>2. CASE SelectUntagFails(c)
    <3>1. ctx' \in [CRs -> Contexts]
      <4>1. PICK B \in Selection(c, tag) : ctx' = [ctx EXCEPT ![c].batch = B]
        BY <2>2, Zenon DEF SelectUntagFails, Select
      <4>2. B \subseteq Instances
        BY <4>1, SelectionInGroup, Zenon DEF GroupOf, Tags, NoTag
      <4>3. QED
        BY <4>1, <4>2, ContextBatch, ContextFields, Zenon
    <3>2. QED
      BY <2>2, <3>1 DEF SelectUntagFails, Select, PCs
  <2>3. CASE SelectDescribeFails(c)
    <3>1. ctx' \in [CRs -> Contexts]
      <4>1. PICK B \in {{}} \cup Targets(c, Untag(Orphans(c)), {}) : ctx' = [ctx EXCEPT ![c].batch = B]
        BY <2>3, Zenon DEF SelectDescribeFails, Select
      <4>2. B \subseteq Instances
        BY <4>1, TagUpdates, TargetsInGroup, Zenon DEF GroupOf, Tags, NoTag
      <4>3. QED
        BY <4>1, <4>2, ContextBatch, ContextFields, Zenon
    <3>2. QED
      BY <2>3, <3>1, TagUpdates DEF SelectDescribeFails, Select, PCs, Tags
  <2>4. QED
    BY <1>2, <2>1, <2>2, <2>3, Zenon DEF Choice
<1>3. ASSUME NEW c \in CRs, Lazy(c) PROVE TypeOK'
  <2>1. CASE TagLazy(c)
    BY <2>1, Zenon DEF TagLazy, PCs, AfterDelays, SetTag, Tags, InProgress
  <2>2. CASE TagLazyFails(c)
    <3>1. ctx' \in [CRs -> Contexts]
      <4>1. "error" \in Statuses
        BY Zenon DEF Statuses, FiniteStates
      <4>2. QED
        BY <2>2, <4>1, ContextStatus, ContextFields, Zenon DEF TagLazyFails
    <3>2. QED
      BY <2>2, <3>1 DEF TagLazyFails, PCs
  <2>3. QED
    BY <1>3, <2>1, <2>2, Zenon DEF Lazy
<1>4. ASSUME NEW c \in CRs, Eager(c) PROVE TypeOK'
  <2>1. CASE LoadReplacements(c)
    <3>1. ctx' \in [CRs -> Contexts]
      BY <2>1, ContextCount, ContextFields, Zenon DEF LoadReplacements
    <3>2. QED
      BY <2>1, <3>1, Zenon DEF LoadReplacements, PCs
  <2>2. CASE Ballooned(c)
    BY <2>2, Zenon DEF Ballooned, PCs
  <2>3. CASE TagEager(c)
    <3>1. ctx' \in [CRs -> Contexts]
      <4>1. PICK S \in SUBSET InService(c) : ctx' = [ctx EXCEPT ![c].todo = S]
        BY <2>3, Zenon DEF TagEager
      <4>2. S \subseteq Instances
        BY <4>1, ContextFields, Zenon DEF InService
      <4>3. QED
        BY <4>1, <4>2, ContextTodo, ContextFields, Zenon
    <3>2. QED
      BY <2>3, <3>1, BatchAllowed, ContextFields, TagUpdates DEF TagEager, PCs, StoreReplacements, Tags,
        InProgress
  <2>4. CASE TagEagerFails(c)
    <3>1. ctx' \in [CRs -> Contexts]
      <4>1. "error" \in Statuses
        BY Zenon DEF Statuses, FiniteStates
      <4>2. QED
        BY <2>4, <4>1, ContextStatus, ContextFields, Zenon DEF TagEagerFails
    <3>2. QED
      BY <2>4, <3>1, BatchAllowed, ContextFields DEF TagEagerFails, PCs, StoreReplacements
  <2>5. CASE SetBatchStandBy(c)
    BY <2>5, Zenon DEF SetBatchStandBy, PCs, Lifecycle, Serving, Contexts
  <2>6. CASE StandByFails(c)
    BY <2>6 DEF StandByFails, PCs
  <2>7. CASE AwaitDesiredNodes(c)
    BY <2>7, Zenon DEF AwaitDesiredNodes, AwaitDesired, AfterDelays, PCs
  <2>8. CASE AwaitCachedNodes(c)
    BY <2>8 DEF AwaitCachedNodes, AwaitDesired, AfterDelays, PCs
  <2>9. QED
    BY <1>4, <2>1, <2>2, <2>3, <2>4, <2>5, <2>6, <2>7, <2>8, Zenon DEF Eager
<1>5. ASSUME NEW c \in CRs, AwaitDrains(c) PROVE TypeOK'
  <2>1. CASE LaunchDrains(c)
    <3>1. ctx' \in [CRs -> Contexts]
      BY <2>1, ContextStarted, ContextFields, Zenon DEF LaunchDrains
    <3>2. QED
      BY <2>1, <3>1, Zenon DEF LaunchDrains, PCs, DrainPCs, Reporting
  <2>2. CASE ReceiveError(c)
    <3>1. ctx' \in [CRs -> Contexts]
      <4>1. "error" \in Statuses
        BY Zenon DEF Statuses, FiniteStates
      <4>2. QED
        BY <2>2, <4>1, ContextStatus, ContextFields, Zenon DEF ReceiveError
    <3>2. QED
      BY <2>2, <3>1, Zenon DEF ReceiveError, PCs, DrainErrors, AfterReport, DrainPCs, Reporting, GroupOf
  <2>3. CASE WaitTimesOut(c)
    BY <2>3, Zenon DEF WaitTimesOut, PCs
  <2>4. CASE DrainsDone(c)
    <3>1. ctx' \in [CRs -> Contexts]
      <4>1. ctx[c].batch \cap ctx[c].nodes \subseteq Instances /\ {"drain"} \cap Intervals \subseteq Intervals
        BY ContextFields, Zenon
      <4>2. QED
        BY <2>4, <4>1, ContextDone, ContextFields, Zenon DEF DrainsDone
    <3>2. QED
      BY <2>4, <3>1, Zenon DEF DrainsDone, PCs
  <2>5. QED
    BY <1>5, <2>1, <2>2, <2>3, <2>4, Zenon DEF AwaitDrains
<1>6. ASSUME NEW c \in CRs, Termination(c) PROVE TypeOK'
  <2>1. CASE Terminate(c)
    <3>1. ctx' \in [CRs -> Contexts]
      <4>1. PICK i \in ctx[c].todo :
              ctx' = [ctx EXCEPT ![c] = [ctx[c] EXCEPT
                        !.todo = ctx[c].todo \ {i}, !.count = ReplacementNodes,
                        !.waits = ctx[c].waits \cup ({"termination"} \cap Intervals)]]
        BY <2>1, Zenon DEF Terminate
      <4>2. /\ ctx[c].todo \ {i} \in SUBSET Instances
            /\ ctx[c].waits \cup ({"termination"} \cap Intervals) \in SUBSET Intervals
        BY ContextFields, Zenon
      <4>3. QED
        BY <4>1, <4>2, ContextTerminated, ContextFields, Zenon
    <3>2. QED
      BY <2>1, <3>1, TagUpdates, ContextFields DEF Terminate, PCs, Lifecycle, Tags, NoTag
  <2>2. CASE TerminateFails(c)
    BY <2>2 DEF TerminateFails, PCs
  <2>3. CASE BatchTerminated(c)
    BY <2>3, Zenon DEF BatchTerminated, PCs
  <2>4. CASE PostTerminate(c)
    BY <2>4 DEF PostTerminate, PCs, DecrementReplacements, Contexts
  <2>5. CASE PostTerminateFails(c)
    <3>1. ctx' \in [CRs -> Contexts]
      <4>1. "error" \in Statuses
        BY Zenon DEF Statuses, FiniteStates
      <4>2. QED
        BY <2>5, <4>1, ContextStatus, ContextFields, Zenon DEF PostTerminateFails
    <3>2. ctx[c].count \in Nat
      BY Zenon DEF Contexts
    <3>3. ReplacementNodes' \in Nat
      BY <2>5, <3>2 DEF PostTerminateFails, DecrementReplacements
    <3>4. pc' \in [CRs -> PCs] /\ disruptions' \in 0..MaxDisruptions
      BY <2>5 DEF PostTerminateFails, PCs
    <3>5. QED
      BY <2>5, <3>1, <3>3, <3>4, Zenon DEF PostTerminateFails
  <2>6. QED
    BY <1>6, <2>1, <2>2, <2>3, <2>4, <2>5, Zenon DEF Termination
<1>7. ASSUME NEW c \in CRs, Update(c) PROVE TypeOK'
  BY <1>7, Zenon DEF Update, Return, NoCtx, Contexts, PCs, Statuses, FiniteStates, Lifecycle
<1>8. ASSUME NEW c \in CRs, UpdateFails(c) PROVE TypeOK'
  BY <1>8 DEF UpdateFails, Return, NoCtx, Contexts, PCs, Statuses, FiniteStates, Lifecycle
<1>9. ASSUME NEW i \in Instances, Goroutine(i) PROVE TypeOK'
  <2> USE DEF DrainGoto, DrainPCs, Reporting
  <2>1. CASE PreDrain(i)
    BY <2>1, Zenon DEF PreDrain, Script
  <2>2. CASE PreDrainFails(i)
    BY <2>2 DEF PreDrainFails, ScriptFails
  <2>3. CASE DrainNode(i)
    BY <2>3, Zenon DEF DrainNode
  <2>4. CASE DrainIgnored(i)
    BY <2>4 DEF DrainIgnored
  <2>5. CASE DrainFails(i)
    BY <2>5 DEF DrainFails, SetTag, Tags, FailedDrain
  <2>6. CASE PostDrain(i)
    BY <2>6, Zenon DEF PostDrain, Script
  <2>7. CASE PostDrainFails(i)
    BY <2>7 DEF PostDrainFails, ScriptFails
  <2>8. CASE PostWait(i)
    BY <2>8, Zenon DEF PostWait, Script
  <2>9. CASE PostWaitFails(i)
    BY <2>9 DEF PostWaitFails, ScriptFails
  <2>10. CASE CordonNode(i)
    BY <2>10, Zenon DEF CordonNode
  <2>11. QED
    BY <1>9, <2>1, <2>2, <2>3, <2>4, <2>5, <2>6, <2>7, <2>8, <2>9, <2>10, Zenon DEF Goroutine
<1>10. ASSUME NEW i \in Instances, Cloud(i) \/ NodeEvent(i) PROVE TypeOK'
  BY <1>10 DEF Cloud, LaunchInstance, EnterService, JoinCluster, Terminated, NodeEvent,
    NodeEventsHandler, Lifecycle, Serving
<1>11. ASSUME NEW c \in CRs, DelaysElapse(c) \/ NewTemplate(c) \/ Resubmit(c) PROVE TypeOK'
  BY <1>11 DEF DelaysElapse, NewTemplate, Resubmit, InstancesServing, GroupOf, Statuses
<1>12. CASE Crash
  BY <1>12 DEF Crash, NoCtx, Contexts, PCs, DrainPCs, Statuses, FiniteStates, Lifecycle
<1>13. CASE UNCHANGED vars
  BY <1>13, Zenon DEF vars
<1>14. QED
  BY <1>1, <1>2, <1>3, <1>4, <1>5, <1>6, <1>7, <1>8, <1>9, <1>10, <1>11, <1>12, <1>13, Zenon
    DEF Next, Reconcile

\* The types hold in every reachable state, for all constants.
THEOREM TypeCorrect == Spec => []TypeOK
  BY TypeInit, TypeNext, PTL DEF Spec

--------------------------------------------------------------------------------
(***************************************************************************)
(* Batches and drains.  DrainGroup(c) only grows in LaunchDrains, from empty  *)
(* to a part of the batch; and a reconcile only enters the termination     *)
(* loop when DrainGroup(c) is empty.  What is missing for an invariant is  *)
(* that a batch is of the upgrade's own group and no larger than allowed.  *)
(***************************************************************************)

\* The batch of a reconcile is part of its group and fits the batch size.
BatchFits ==
  \A c \in CRs : /\ ctx[c].batch \subseteq GroupOf(c)
                 /\ Cardinality(ctx[c].batch) <= CalculateMaxUnavailable

RotationInv == TypeOK /\ BatchFits /\ NoTerminateWhileDraining /\ DrainsBounded

\* Only SelectTargets gives a reconcile a batch.
LEMMA BatchNext == TypeOK /\ BatchFits /\ [Next]_vars => BatchFits'
<1> SUFFICES ASSUME TypeOK, BatchFits, [Next]_vars PROVE BatchFits'
  BY Zenon
<1> DEFINE Fits(B, c) == B \subseteq GroupOf(c) /\ Cardinality(B) <= CalculateMaxUnavailable
           Kept(c) == ctx'[c].batch \in {ctx[c].batch, {}}
<1>0. \A c \in CRs : Fits({}, c)
  BY EmptyBatch, Zenon
<1>1. SUFFICES ASSUME NEW d \in CRs PROVE Kept(d) \/ Fits(ctx'[d].batch, d)
  BY <1>0, Zenon DEF BatchFits, GroupOf
<1> USE DEF TypeOK, Contexts, Goto, FailWith, NoCtx
<1>2. ASSUME NEW c \in CRs, Discovery(c) PROVE Kept(d)
  <2>1. CASE BeginReconcile(c)
    BY <2>1, Zenon DEF BeginReconcile, Begin
  <2>2. CASE BeginUnaware(c)
    BY <2>2, Zenon DEF BeginUnaware, Begin
  <2>3. CASE Discover(c)
    BY <2>3, Zenon DEF Discover
  <2>4. CASE DiscoverFails(c)
    BY <2>4, Zenon DEF DiscoverFails
  <2>5. QED
    BY <1>2, <2>1, <2>2, <2>3, <2>4, Zenon DEF Discovery
<1>3. ASSUME NEW c \in CRs, Choice(c) PROVE Kept(d) \/ Fits(ctx'[d].batch, d)
  <2>1. ASSUME NEW B, Fits(B, c), ctx' = [ctx EXCEPT ![c].batch = B]
        PROVE  Kept(d) \/ Fits(ctx'[d].batch, d)
    BY <2>1, Zenon
  <2>2. Untag(Orphans(c)) \in [Instances -> Tags]
    BY TagUpdates, Zenon DEF Tags
  <2>3. CASE SelectTargets(c)
    <3>1. PICK B \in Selection(c, Untag(Orphans(c))) : ctx' = [ctx EXCEPT ![c].batch = B]
      BY <2>3, Zenon DEF SelectTargets, Select
    <3>2. Fits(B, c)
      BY <2>2, <3>1, SelectionInGroup, Zenon
    <3>3. QED
      BY <2>1, <3>1, <3>2, Zenon
  <2>4. CASE SelectUntagFails(c)
    <3>1. PICK B \in Selection(c, tag) : ctx' = [ctx EXCEPT ![c].batch = B]
      BY <2>4, Zenon DEF SelectUntagFails, Select
    <3>2. Fits(B, c)
      BY <3>1, SelectionInGroup, Zenon
    <3>3. QED
      BY <2>1, <3>1, <3>2, Zenon
  <2>5. CASE SelectDescribeFails(c)
    <3>1. PICK B \in {{}} \cup Targets(c, Untag(Orphans(c)), {}) :
            ctx' = [ctx EXCEPT ![c].batch = B]
      BY <2>5, Zenon DEF SelectDescribeFails, Select
    <3>2. Fits(B, c)
      BY <1>0, <2>2, <3>1, TargetsInGroup, Zenon
    <3>3. QED
      BY <2>1, <3>1, <3>2, Zenon
  <2>6. QED
    BY <1>3, <2>3, <2>4, <2>5, Zenon DEF Choice
<1>4. ASSUME NEW c \in CRs, Lazy(c) PROVE Kept(d)
  <2>1. CASE TagLazy(c)
    BY <2>1, Zenon DEF TagLazy
  <2>2. CASE TagLazyFails(c)
    BY <2>2, Zenon DEF TagLazyFails
  <2>3. QED
    BY <1>4, <2>1, <2>2, Zenon DEF Lazy
<1>5. ASSUME NEW c \in CRs, Eager(c) PROVE Kept(d)
  <2>1. CASE LoadReplacements(c)
    BY <2>1, Zenon DEF LoadReplacements
  <2>2. CASE Ballooned(c)
    BY <2>2, Zenon DEF Ballooned
  <2>3. CASE TagEager(c)
    BY <2>3 DEF TagEager
  <2>4. CASE TagEagerFails(c)
    BY <2>4, Zenon DEF TagEagerFails
  <2>5. CASE SetBatchStandBy(c)
    BY <2>5, Zenon DEF SetBatchStandBy
  <2>6. CASE StandByFails(c)
    BY <2>6, Zenon DEF StandByFails
  <2>7. CASE AwaitDesiredNodes(c)
    BY <2>7, Zenon DEF AwaitDesiredNodes, AwaitDesired
  <2>8. CASE AwaitCachedNodes(c)
    BY <2>8, Zenon DEF AwaitCachedNodes, AwaitDesired
  <2>9. QED
    BY <1>5, <2>1, <2>2, <2>3, <2>4, <2>5, <2>6, <2>7, <2>8, Zenon DEF Eager
<1>6. ASSUME NEW c \in CRs, AwaitDrains(c) PROVE Kept(d)
  <2>1. CASE LaunchDrains(c)
    BY <2>1, Zenon DEF LaunchDrains
  <2>2. CASE ReceiveError(c)
    BY <2>2 DEF ReceiveError
  <2>3. CASE WaitTimesOut(c)
    BY <2>3, Zenon DEF WaitTimesOut
  <2>4. CASE DrainsDone(c)
    BY <2>4, Zenon DEF DrainsDone
  <2>5. QED
    BY <1>6, <2>1, <2>2, <2>3, <2>4, Zenon DEF AwaitDrains
<1>7. ASSUME NEW c \in CRs, Termination(c) PROVE Kept(d)
  <2>1. CASE Terminate(c)
    BY <2>1 DEF Terminate
  <2>2. CASE TerminateFails(c)
    BY <2>2, Zenon DEF TerminateFails
  <2>3. CASE BatchTerminated(c)
    BY <2>3, Zenon DEF BatchTerminated
  <2>4. CASE PostTerminate(c)
    BY <2>4, Zenon DEF PostTerminate
  <2>5. CASE PostTerminateFails(c)
    BY <2>5, Zenon DEF PostTerminateFails
  <2>6. QED
    BY <1>7, <2>1, <2>2, <2>3, <2>4, <2>5, Zenon DEF Termination
<1>8. ASSUME NEW c \in CRs, Update(c) \/ UpdateFails(c) PROVE Kept(d)
  <2>1. ctx' = [ctx EXCEPT ![c] = NoCtx]
    BY <1>8, Zenon DEF Update, UpdateFails, Return
  <2>2. QED
    BY <2>1, Zenon
<1>9. ASSUME NEW i \in Instances, Goroutine(i) PROVE Kept(d)
  BY <1>9, Zenon DEF Goroutine, DrainGoto, Script, ScriptFails, PreDrain, PreDrainFails, CordonNode, DrainNode,
    DrainIgnored, DrainFails, PostDrain, PostDrainFails, PostWait, PostWaitFails
<1>10. ASSUME NEW i \in Instances, Cloud(i) \/ NodeEvent(i) PROVE Kept(d)
  BY <1>10, Zenon DEF Cloud, LaunchInstance, EnterService, JoinCluster, Terminated, NodeEvent
<1>11. ASSUME NEW c \in CRs, DelaysElapse(c) \/ NewTemplate(c) \/ Resubmit(c) PROVE Kept(d)
  BY <1>11, Zenon DEF DelaysElapse, NewTemplate, Resubmit
<1>12. CASE Crash
  BY <1>12, Zenon DEF Crash
<1>13. CASE UNCHANGED vars
  BY <1>13, Zenon DEF vars
<1>14. QED
  BY <1>2, <1>3, <1>4, <1>5, <1>6, <1>7, <1>8, <1>9, <1>10, <1>11, <1>12, <1>13, Zenon
    DEF Next, Reconcile

\* No step but LaunchDrains adds a goroutine to a group.
LEMMA DrainsShrink ==
  ASSUME TypeOK, [Next]_vars, \A c \in CRs : ~LaunchDrains(c), NEW d \in CRs
  PROVE  DrainGroup(d)' \subseteq DrainGroup(d)
<1> USE DEF TypeOK, DrainGroup, GroupOf, drainVars
<1>1. SUFFICES ASSUME drain' # drain PROVE DrainGroup(d)' \subseteq DrainGroup(d)
  BY Zenon
<1>2. ASSUME NEW c \in CRs, Reconcile(c) PROVE ReceiveError(c)
  <2>1. ~Discovery(c) /\ ~Choice(c) /\ ~Lazy(c)
    BY <1>1, Zenon DEF Discovery, Choice, Lazy, BeginReconcile, BeginUnaware, Begin, Discover,
      DiscoverFails, SelectTargets, SelectUntagFails, SelectDescribeFails, Select,
      TagLazy, TagLazyFails
  <2>2. ~Eager(c)
    BY <1>1, Zenon DEF Eager, LoadReplacements, Ballooned, TagEager, TagEagerFails, SetBatchStandBy,
      StandByFails, AwaitDesiredNodes, AwaitCachedNodes, AwaitDesired
  <2>3. ~Termination(c) /\ ~Update(c) /\ ~UpdateFails(c)
    BY <1>1, Zenon DEF Termination, Terminate, TerminateFails, BatchTerminated, PostTerminate,
      PostTerminateFails, Update, UpdateFails, Return
  <2>4. AwaitDrains(c) => ReceiveError(c)
    BY <1>1, Zenon DEF AwaitDrains, WaitTimesOut, DrainsDone
  <2>5. QED
    BY <1>2, <2>1, <2>2, <2>3, <2>4, Zenon DEF Reconcile
<1>3. ASSUME NEW c \in CRs, ReceiveError(c) PROVE DrainGroup(d)' \subseteq DrainGroup(d)
  BY <1>3, Zenon DEF ReceiveError, DrainErrors, Reporting
<1>4. ASSUME NEW i \in Instances, Goroutine(i) PROVE DrainGroup(d)' \subseteq DrainGroup(d)
  <2>1. drain[i] # "none" /\ \A j \in Instances \ {i} : drain'[j] = drain[j]
    BY <1>4, Zenon DEF Goroutine, DrainGoto, Script, ScriptFails, PreDrain, PreDrainFails, CordonNode, DrainNode,
      DrainIgnored, DrainFails, PostDrain, PostDrainFails, PostWait, PostWaitFails
  <2>2. QED
    BY <2>1, Zenon
<1>5. ASSUME NEW i \in Instances PROVE ~Cloud(i) /\ ~NodeEvent(i)
  BY <1>1, Zenon DEF Cloud, LaunchInstance, EnterService, JoinCluster, Terminated, NodeEvent
<1>6. ASSUME NEW c \in CRs PROVE ~DelaysElapse(c) /\ ~NewTemplate(c) /\ ~Resubmit(c)
  BY <1>1, Zenon DEF DelaysElapse, NewTemplate, Resubmit
<1>7. CASE Crash
  BY <1>7, Zenon DEF Crash
<1>8. ~UNCHANGED vars
  BY <1>1, Zenon DEF vars
<1>9. QED
  BY <1>2, <1>3, <1>4, <1>5, <1>6, <1>7, <1>8, Zenon DEF Next

\* LaunchDrains leaves the other groups alone, and its own group as it was
\* unless that is empty.
LEMMA DrainsLaunched ==
  ASSUME TypeOK, BatchFits, NEW c \in CRs, LaunchDrains(c), NEW d \in CRs
  PROVE  \/ DrainGroup(d)' \subseteq DrainGroup(d)
         \/ d = c /\ DrainGroup(d)' \subseteq ctx[d].batch
  BY DEF TypeOK, BatchFits, LaunchDrains, DrainGroup, GroupOf

\* A reconcile starts to terminate when DrainGroup.Wait has returned.
LEMMA TerminationEntered ==
  ASSUME TypeOK, [Next]_vars, NEW d \in CRs,
         pc'[d] \in {"terminate", "decrement"}, pc[d] \notin {"terminate", "decrement"}
  PROVE  DrainsDone(d)
<1> USE DEF TypeOK, Goto, FailWith
<1>1. ASSUME NEW c \in CRs, Reconcile(c) PROVE DrainsDone(d)
  <2>1. ~Discovery(c) /\ ~Choice(c) /\ ~Lazy(c)
    BY Zenon DEF Discovery, Choice, Lazy, BeginReconcile, BeginUnaware, Begin, Discover,
      DiscoverFails, SelectTargets, SelectUntagFails, SelectDescribeFails, Select,
      TagLazy, TagLazyFails, AfterDelays
  <2>2. ~Eager(c)
    BY Zenon DEF Eager, LoadReplacements, Ballooned, TagEager, TagEagerFails, SetBatchStandBy,
      StandByFails, AwaitDesiredNodes, AwaitCachedNodes, AwaitDesired, AfterDelays
  <2>3. ~Termination(c) /\ ~Update(c) /\ ~UpdateFails(c)
    BY Zenon DEF Termination, Terminate, TerminateFails, BatchTerminated, PostTerminate,
      PostTerminateFails, Update, UpdateFails, Return
  <2>4. AwaitDrains(c) => c = d /\ DrainsDone(c)
    BY Zenon DEF AwaitDrains, LaunchDrains, ReceiveError, WaitTimesOut, DrainsDone
  <2>5. QED
    BY <1>1, <2>1, <2>2, <2>3, <2>4, Zenon DEF Reconcile
<1>2. ASSUME NEW i \in Instances PROVE ~Goroutine(i) /\ ~Cloud(i) /\ ~NodeEvent(i)
  BY Zenon DEF Goroutine, DrainGoto, Script, ScriptFails, PreDrain, PreDrainFails, CordonNode, DrainNode,
      DrainIgnored, DrainFails, PostDrain, PostDrainFails, PostWait, PostWaitFails,
      Cloud, LaunchInstance, EnterService, JoinCluster, Terminated, NodeEvent
<1>3. ASSUME NEW c \in CRs PROVE ~DelaysElapse(c) /\ ~NewTemplate(c) /\ ~Resubmit(c)
  BY Zenon DEF DelaysElapse, NewTemplate, Resubmit
<1>4. ~Crash /\ ~UNCHANGED vars
  BY Zenon DEF Crash, vars
<1>5. QED
  BY <1>1, <1>2, <1>3, <1>4, Zenon DEF Next

\* The invariant holds before the first reconcile.
LEMMA RotationInit == Init => RotationInv
<1> SUFFICES ASSUME Init PROVE RotationInv
  BY Zenon
<1>1. TypeOK
  BY TypeInit, Zenon
<1>2. BatchFits
  BY EmptyBatch, Zenon DEF Init, BatchFits, NoCtx
<1>3. NoTerminateWhileDraining
  BY Zenon DEF Init, NoTerminateWhileDraining
<1>4. DrainsBounded
  <2>1. \A c \in CRs : DrainGroup(c) = {}
    BY Zenon DEF Init, DrainGroup, GroupOf
  <2>2. QED
    BY <2>1, EmptyBatch, Zenon DEF DrainsBounded
<1>5. QED
  BY <1>1, <1>2, <1>3, <1>4, Zenon DEF RotationInv

\* Every action keeps the invariant.
LEMMA RotationNext == RotationInv /\ [Next]_vars => RotationInv'
<1> SUFFICES ASSUME RotationInv, [Next]_vars PROVE RotationInv'
  BY Zenon
<1> USE DEF RotationInv
<1>1. TypeOK' /\ BatchFits'
  BY TypeNext, BatchNext, Zenon
<1>2. ASSUME NEW d \in CRs
      PROVE  \/ DrainGroup(d)' \subseteq DrainGroup(d)
             \/ LaunchDrains(d) /\ DrainGroup(d)' \subseteq ctx[d].batch
  <2>1. CASE \A c \in CRs : ~LaunchDrains(c)
    BY <2>1, DrainsShrink, Zenon
  <2>2. ASSUME NEW c \in CRs, LaunchDrains(c)
        PROVE  \/ DrainGroup(d)' \subseteq DrainGroup(d)
               \/ LaunchDrains(d) /\ DrainGroup(d)' \subseteq ctx[d].batch
    BY <2>2, DrainsLaunched, Zenon
  <2>3. QED
    BY <2>1, <2>2, Zenon
<1>3. NoTerminateWhileDraining'
  <2>1. SUFFICES ASSUME NEW d \in CRs, pc'[d] \in {"terminate", "decrement"}
                 PROVE  DrainGroup(d)' = {}
    BY Zenon DEF NoTerminateWhileDraining
  <2>2. DrainGroup(d) = {}
    BY <2>1, TerminationEntered, Zenon DEF NoTerminateWhileDraining, DrainsDone
  <2>3. ~LaunchDrains(d)
    BY <2>1, Zenon DEF LaunchDrains, Goto, TypeOK
  <2>4. QED
    BY <1>2, <2>2, <2>3, Zenon
<1>4. DrainsBounded'
  <2>1. SUFFICES ASSUME NEW d \in CRs
                 PROVE  Cardinality(DrainGroup(d)') <= CalculateMaxUnavailable
    BY Zenon DEF DrainsBounded
  <2>2. DrainGroup(d) \in SUBSET Instances /\ ctx[d].batch \in SUBSET Instances
    BY Zenon DEF DrainGroup, GroupOf, BatchFits
  <2>3. PICK S \in {DrainGroup(d), ctx[d].batch} : DrainGroup(d)' \subseteq S
    BY <1>2, Zenon
  <2>4. Cardinality(S) <= CalculateMaxUnavailable
    BY <2>3, Zenon DEF DrainsBounded, BatchFits
  <2>5. /\ Cardinality(S) \in Nat /\ Cardinality(DrainGroup(d)') \in Nat
        /\ Cardinality(DrainGroup(d)') <= Cardinality(S)
    BY <2>2, <2>3, InstanceSets, Zenon
  <2>6. QED
    BY <2>4, <2>5, BatchSize
<1>5. QED
  BY <1>1, <1>3, <1>4, Zenon

\* The invariant holds in every reachable state.
THEOREM RotationInvariant == Spec => []RotationInv
  BY RotationInit, RotationNext, PTL DEF Spec

\* No instance of a group is terminated while a drain goroutine of the group
\* is left, across timeouts, errors, restarts and resubmissions.
THEOREM TerminatesAfterDrains == Spec => []NoTerminateWhileDraining
<1>1. RotationInv => NoTerminateWhileDraining
  BY Zenon DEF RotationInv
<1>2. QED
  BY RotationInvariant, <1>1, PTL

\* At most CalculateMaxUnavailable drain goroutines of a group exist at a time.
THEOREM DrainsStayBounded == Spec => []DrainsBounded
<1>1. RotationInv => DrainsBounded
  BY Zenon DEF RotationInv
<1>2. QED
  BY RotationInvariant, <1>1, PTL

--------------------------------------------------------------------------------
(***************************************************************************)
(* The limit on replacement nodes.  A count that an upgrade has loaded may *)
(* be stale when it is stored back; neither ever passes the limit.         *)
(***************************************************************************)
LimitInv ==
  MaxReplacementNodes > 0 =>
    /\ ReplacementNodes <= MaxReplacementNodes
    /\ \A c \in CRs : ctx[c].count <= MaxReplacementNodes

\* A step loads the counter, stores a count within the limit, or lets both be.
LEMMA LimitNext == TypeOK /\ LimitInv /\ [Next]_vars => LimitInv'
<1> SUFFICES ASSUME TypeOK, LimitInv, [Next]_vars, MaxReplacementNodes > 0
             PROVE  /\ ReplacementNodes' <= MaxReplacementNodes
                    /\ \A d \in CRs : ctx'[d].count <= MaxReplacementNodes
  BY Zenon DEF LimitInv
<1> DEFINE CountsKept == \A d \in CRs : ctx'[d].count \in {ctx[d].count, 0}
           Loaded == \A d \in CRs : ctx'[d].count \in {ctx[d].count, ReplacementNodes}
           Stored == \/ ReplacementNodes' \in {ReplacementNodes, 0}
                     \/ \E c \in CRs : ReplacementNodes' = ctx[c].count + AllowedBatch(c)
                     \/ \E c \in CRs : ReplacementNodes' = ctx[c].count - 1
           Good == Stored /\ (CountsKept \/ Loaded)
<1>0. NoCtx.count = 0
  BY Zenon DEF NoCtx
<1>1. /\ ReplacementNodes \in Nat /\ ReplacementNodes <= MaxReplacementNodes /\ MaxReplacementNodes \in Nat
      /\ \A c \in CRs : ctx[c].count \in Nat /\ ctx[c].count <= MaxReplacementNodes
  BY ContextFields, ConstantsAssumption, Zenon DEF TypeOK, LimitInv
<1>2. \A c \in CRs : ctx[c].count + AllowedBatch(c) <= MaxReplacementNodes
  <2> SUFFICES ASSUME NEW c \in CRs
               PROVE  ctx[c].count + AllowedBatch(c) <= MaxReplacementNodes
    BY Zenon
  <2>1. Cardinality(InService(c)) \in Nat
    BY ContextFields, InstanceSets, Zenon DEF TypeOK, InService
  <2> QED BY <1>1, <2>1 DEF AllowedBatch, ClusterBallooning
<1>3. ASSUME Good
      PROVE  ReplacementNodes' <= MaxReplacementNodes /\ \A d \in CRs : ctx'[d].count <= MaxReplacementNodes
  <2>1. ReplacementNodes' <= MaxReplacementNodes
    BY <1>1, <1>2, <1>3
  <2>2. \A d \in CRs : ctx'[d].count <= MaxReplacementNodes
    BY <1>1, <1>3
  <2> QED BY <2>1, <2>2, Zenon
<1>4. ASSUME NEW c \in CRs, Discovery(c) PROVE Good
  <2>1. CASE BeginReconcile(c) \/ BeginUnaware(c)
    BY <2>1, Zenon DEF BeginReconcile, BeginUnaware, Begin, NoCtx, TypeOK
  <2>2. CASE Discover(c)
    BY <2>2 DEF Discover, TypeOK, Contexts
  <2>3. CASE DiscoverFails(c)
    BY <2>3, Zenon DEF DiscoverFails, FailWith, TypeOK, Contexts
  <2> QED BY <1>4, <2>1, <2>2, <2>3, Zenon DEF Discovery
<1>5. ASSUME NEW c \in CRs, Choice(c) PROVE Good
  <2>1. ReplacementNodes' = ReplacementNodes /\ \E B : ctx' = [ctx EXCEPT ![c].batch = B]
    BY <1>5, Zenon DEF Choice, SelectTargets, SelectUntagFails, SelectDescribeFails, Select
  <2> QED BY <2>1 DEF TypeOK, Contexts
<1>6. ASSUME NEW c \in CRs, Lazy(c) PROVE Good
  <2>1. CASE TagLazy(c)
    BY <2>1, Zenon DEF TagLazy
  <2>2. CASE TagLazyFails(c)
    BY <2>2, Zenon DEF TagLazyFails, FailWith, TypeOK, Contexts
  <2> QED BY <1>6, <2>1, <2>2, Zenon DEF Lazy
<1>7. ASSUME NEW c \in CRs, Eager(c) PROVE Good
  <2>1. CASE LoadReplacements(c)
    BY <2>1, Zenon DEF LoadReplacements, TypeOK, Contexts
  <2>2. CASE TagEager(c)
    <3>1. ReplacementNodes' = ctx[c].count + AllowedBatch(c)
      BY <1>1, <2>2 DEF TagEager, StoreReplacements
    <3>2. PICK S \in SUBSET InService(c) : ctx' = [ctx EXCEPT ![c].todo = S]
      BY <2>2, Zenon DEF TagEager
    <3> QED BY <3>1, <3>2, Zenon DEF TypeOK, Contexts
  <2>3. CASE TagEagerFails(c)
    <3>1. ReplacementNodes' = ctx[c].count + AllowedBatch(c) /\ ctx' = [ctx EXCEPT ![c].status = "error"]
      BY <1>1, <2>3 DEF TagEagerFails, StoreReplacements, FailWith
    <3> QED BY <3>1, Zenon DEF TypeOK, Contexts
  <2>4. CASE Ballooned(c) \/ SetBatchStandBy(c) \/ StandByFails(c) \/ AwaitDesiredNodes(c) \/ AwaitCachedNodes(c)
    BY <2>4, Zenon DEF Ballooned, SetBatchStandBy, StandByFails, AwaitDesiredNodes, AwaitCachedNodes,
      AwaitDesired
  <2> QED BY <1>7, <2>1, <2>2, <2>3, <2>4, Zenon DEF Eager
<1>8. ASSUME NEW c \in CRs, AwaitDrains(c) PROVE Good
  <2>1. CASE WaitTimesOut(c)
    BY <2>1, Zenon DEF WaitTimesOut
  <2>4. CASE LaunchDrains(c)
    BY <2>4, Zenon DEF LaunchDrains, TypeOK, Contexts
  <2>2. CASE ReceiveError(c)
    BY <2>2 DEF ReceiveError, FailWith, TypeOK, Contexts
  <2>3. CASE DrainsDone(c)
    BY <2>3, Zenon DEF DrainsDone, TypeOK, Contexts
  <2> QED BY <1>8, <2>1, <2>2, <2>3, <2>4, Zenon DEF AwaitDrains
<1>9. ASSUME NEW c \in CRs, Termination(c) PROVE Good
  <2>1. CASE Terminate(c)
    BY <2>1 DEF Terminate, TypeOK, Contexts
  <2>2. CASE TerminateFails(c) \/ BatchTerminated(c)
    BY <2>2, Zenon DEF TerminateFails, BatchTerminated
  <2>3. CASE PostTerminate(c) \/ PostTerminateFails(c)
    <3>1. ReplacementNodes' \in {ReplacementNodes, ctx[c].count - 1}
      BY <2>3, Zenon DEF PostTerminate, PostTerminateFails, DecrementReplacements
    <3>2. CountsKept
      <4>1. CASE PostTerminate(c)
        BY <4>1, Zenon DEF PostTerminate
      <4>2. CASE PostTerminateFails(c)
        BY <4>2, Zenon DEF PostTerminateFails, FailWith, TypeOK, Contexts
      <4> QED BY <2>3, <4>1, <4>2, Zenon
    <3> QED BY <3>1, <3>2, Zenon
  <2> QED BY <1>9, <2>1, <2>2, <2>3, Zenon DEF Termination
<1>10. ASSUME NEW c \in CRs, Update(c) \/ UpdateFails(c) PROVE Good
  BY <1>10, <1>0, Zenon DEF Update, UpdateFails, Return, TypeOK
<1>11. ASSUME NEW i \in Instances, Goroutine(i) \/ Cloud(i) \/ NodeEvent(i) PROVE Good
  BY <1>11, Zenon DEF Goroutine, DrainGoto, Script, ScriptFails, PreDrain, PreDrainFails, CordonNode, DrainNode,
    DrainIgnored, DrainFails, PostDrain, PostDrainFails, PostWait, PostWaitFails,
    Cloud, LaunchInstance, EnterService, JoinCluster, Terminated, NodeEvent
<1>12. ASSUME NEW c \in CRs, DelaysElapse(c) \/ NewTemplate(c) \/ Resubmit(c) PROVE Good
  BY <1>12, Zenon DEF DelaysElapse, NewTemplate, Resubmit
<1>13. CASE Crash
  <2>1. ReplacementNodes' = 0 /\ ctx' = [c \in CRs |-> NoCtx]
    BY <1>13, Zenon DEF Crash
  <2>2. \A d \in CRs : ctx'[d].count = 0
    BY <1>0, <2>1, Zenon
  <2> QED BY <1>1, <2>1, <2>2
<1>14. CASE UNCHANGED vars
  BY <1>1, <1>14, Zenon DEF vars
<1> QED BY <1>3, <1>4, <1>5, <1>6, <1>7, <1>8, <1>9, <1>10, <1>11, <1>12, <1>13, <1>14, Zenon DEF Next,
  Reconcile

\* ClusterBallooning keeps the counter within --max-replacement-nodes, for any number of
\* upgrades whose loads and stores of the counter interleave, fail or are cut off.
THEOREM LimitIsKept == Spec => []ReplacementsWithinLimit
<1>0. NoCtx.count = 0
  BY Zenon DEF NoCtx
<1>1. Init => LimitInv
  BY <1>0, ConstantsAssumption DEF Init, LimitInv
<1>2. LimitInv => ReplacementsWithinLimit
  BY Zenon DEF LimitInv, ReplacementsWithinLimit
<1> QED BY <1>1, <1>2, LimitNext, TypeCorrect, PTL DEF Spec

--------------------------------------------------------------------------------
(***************************************************************************)
(* What the steps leave alone.                                             *)
(***************************************************************************)

\* A reconcile does not touch the context of another upgrade, the nodes or the
\* templates; only standby and termination change the group, and only the start
\* of the drains and the receipt of an error change the goroutines.
LEMMA ReconcileFrame ==
  ASSUME TypeOK, NEW c \in CRs, Reconcile(c)
  PROVE  /\ \A d \in CRs \ {c} : pc'[d] = pc[d] /\ ctx'[d] = ctx[d]
         /\ UNCHANGED <<old, nodes, drained>>
         /\ UNCHANGED life \/ SetBatchStandBy(c) \/ Terminate(c)
         /\ UNCHANGED drain \/ LaunchDrains(c) \/ ReceiveError(c)
         /\ UNCHANGED status \/ Update(c)
<1> DEFINE Others == \A d \in CRs \ {c} : pc'[d] = pc[d] /\ ctx'[d] = ctx[d]
           Rest   == /\ UNCHANGED <<old, nodes, drained>>
                     /\ UNCHANGED life \/ SetBatchStandBy(c) \/ Terminate(c)
                     /\ UNCHANGED drain \/ LaunchDrains(c) \/ ReceiveError(c)
                     /\ UNCHANGED status \/ Update(c)
<1> USE DEF cloudVars, drainVars, crVars, Goto, FailWith
<1>0. pc \in [CRs -> PCs] /\ ctx \in [CRs -> Contexts]
  BY Zenon DEF TypeOK
<1>1. CASE Discovery(c)
  <2>1. Others
    BY <1>0, <1>1, Zenon DEF Discovery, BeginReconcile, BeginUnaware, Begin, Discover, DiscoverFails
  <2>2. Rest
    BY <1>1, Zenon DEF Discovery, BeginReconcile, BeginUnaware, Begin, Discover, DiscoverFails
  <2> QED BY <2>1, <2>2, Zenon
<1>2. CASE Choice(c)
  <2>1. Others
    BY <1>0, <1>2, Zenon DEF Choice, SelectTargets, SelectUntagFails, SelectDescribeFails, Select
  <2>2. Rest
    BY <1>2, Zenon DEF Choice, SelectTargets, SelectUntagFails, SelectDescribeFails, Select
  <2> QED BY <2>1, <2>2, Zenon
<1>3. CASE Lazy(c)
  <2>1. Others
    BY <1>0, <1>3, Zenon DEF Lazy, TagLazy, TagLazyFails
  <2>2. Rest
    BY <1>3, Zenon DEF Lazy, TagLazy, TagLazyFails
  <2> QED BY <2>1, <2>2, Zenon
<1>4. CASE Eager(c)
  <2>1. Others
    BY <1>0, <1>4, Zenon DEF Eager, LoadReplacements, Ballooned, TagEager, TagEagerFails, SetBatchStandBy,
      StandByFails, AwaitDesiredNodes, AwaitCachedNodes, AwaitDesired
  <2>2. Rest
    BY <1>4, Zenon DEF Eager, LoadReplacements, Ballooned, TagEager, TagEagerFails, SetBatchStandBy,
      StandByFails, AwaitDesiredNodes, AwaitCachedNodes, AwaitDesired
  <2> QED BY <2>1, <2>2, Zenon
<1>5. CASE AwaitDrains(c)
  <2>1. Others
    BY <1>0, <1>5, Zenon DEF AwaitDrains, LaunchDrains, ReceiveError, WaitTimesOut, DrainsDone
  <2>2. Rest
    BY <1>5, Zenon DEF AwaitDrains, LaunchDrains, ReceiveError, WaitTimesOut, DrainsDone
  <2> QED BY <2>1, <2>2, Zenon
<1>6. CASE Termination(c)
  <2>1. Others
    BY <1>0, <1>6, Zenon DEF Termination, Terminate, TerminateFails, BatchTerminated, PostTerminate,
      PostTerminateFails
  <2>2. Rest
    BY <1>6, Zenon DEF Termination, Terminate, TerminateFails, BatchTerminated, PostTerminate,
      PostTerminateFails
  <2> QED BY <2>1, <2>2, Zenon
<1>7. CASE Update(c) \/ UpdateFails(c)
  BY <1>0, <1>7, Zenon DEF Update, UpdateFails, Return
<1> QED
  BY <1>1, <1>2, <1>3, <1>4, <1>5, <1>6, <1>7, Zenon DEF Reconcile

\* Between two reconciles and before its last step a reconcile has one way to go.
LEMMA ReconcileFrom ==
  ASSUME NEW c \in CRs, Reconcile(c)
  PROVE  /\ pc[c] = "idle" => status[c] \notin FiniteStates /\ (BeginReconcile(c) \/ BeginUnaware(c))
         /\ pc[c] = "update" => Update(c) \/ UpdateFails(c)
<1> USE DEF Goto, FailWith
<1>1. Discovery(c) => pc[c] = "discover" \/ (pc[c] = "idle" /\ status[c] \notin FiniteStates /\ (BeginReconcile(c) \/ BeginUnaware(c)))
  BY Zenon DEF Discovery, BeginReconcile, BeginUnaware, Begin, Discover, DiscoverFails
<1>2. Choice(c) \/ Lazy(c) \/ Eager(c) => pc[c] \in {"select", "replace", "balloon", "standby"}
  BY Zenon DEF Choice, Lazy, Eager, SelectTargets, SelectUntagFails, SelectDescribeFails, Select,
    TagLazy, TagLazyFails,
     LoadReplacements, Ballooned, TagEager, TagEagerFails, SetBatchStandBy, StandByFails,
     AwaitDesiredNodes, AwaitCachedNodes, AwaitDesired
<1>3. AwaitDrains(c) \/ Termination(c) => pc[c] \in {"launch", "wait", "terminate", "decrement"}
  BY Zenon DEF AwaitDrains, LaunchDrains, ReceiveError, WaitTimesOut, DrainsDone, Termination, Terminate,
     TerminateFails, BatchTerminated, PostTerminate, PostTerminateFails
<1>4. Update(c) \/ UpdateFails(c) => pc[c] = "update"
  BY Zenon DEF Update, UpdateFails, Return
<1> QED BY <1>1, <1>2, <1>3, <1>4, Zenon DEF Reconcile
================================================================================
