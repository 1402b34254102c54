--------------------------- MODULE RotationDrainProofs ---------------------------
(***************************************************************************)
(* What the drain manager promises to the termination of a batch: Rotation *)
(* implements DrainGate, and a reconcile that started the drains of its    *)
(* batch terminates what was drained.                                      *)
(***************************************************************************)
EXTENDS RotationProofs

--------------------------------------------------------------------------------
(***************************************************************************)
(* Rotation implements DrainGate, for any groups, batch size and number of *)
(* disruptions.  The one thing RotationInv does not give is that standby   *)
(* never brings back an instance that was told to terminate: what a        *)
(* reconcile took for in service when it discovered the group has not been *)
(* terminated since, because only the same reconcile could have done so.   *)
(***************************************************************************)

BeforeStandby == {"select", "replace", "balloon", "standby"}

InServiceKept ==
  \A c \in CRs : pc[c] \in BeforeStandby =>
    \A i \in GroupOf(c) : ctx[c].life[i] = "InService" => i \notin Gone

StandbyInService ==
  \A c \in CRs : pc[c] = "standby" => ctx[c].todo \subseteq InService(c)

TodoInGroup ==
  \A c \in CRs : pc[c] \in {"terminate", "decrement"} => ctx[c].todo \subseteq GroupOf(c)

GateInv == RotationInv /\ InServiceKept /\ StandbyInService /\ TodoInGroup

\* Only the upgrade of its group tells an instance to terminate.
LEMMA GoneByOwnUpgrade ==
  ASSUME GateInv, [Next]_vars, NEW i \in Instances, i \in Gone', i \notin Gone
  PROVE  Terminate(Group[i]) /\ pc'[Group[i]] = "decrement"
<1> USE DEF GateInv, RotationInv, TypeOK, Gone
<1>1. life' # life
  BY Zenon
<1>2. ASSUME NEW c \in CRs, Reconcile(c) PROVE Terminate(c) /\ Group[i] = c /\ pc'[c] = "decrement"
  <2>1. ~Discovery(c) /\ ~Choice(c) /\ ~Lazy(c)
    BY <1>1, Zenon DEF Discovery, Choice, Lazy, BeginReconcile, BeginUnaware, Begin, Discover,
      DiscoverFails, SelectTargets, SelectUntagFails, SelectDescribeFails, Select,
      TagLazy, TagLazyFails, cloudVars
  <2>2. ~Eager(c)
    BY <1>1, Zenon DEF Eager, LoadReplacements, Ballooned, TagEager, TagEagerFails, SetBatchStandBy,
      StandByFails, AwaitDesiredNodes, AwaitCachedNodes, AwaitDesired, cloudVars
  <2>3. ~AwaitDrains(c) /\ ~Update(c) /\ ~UpdateFails(c)
    BY <1>1, Zenon DEF AwaitDrains, LaunchDrains, ReceiveError, WaitTimesOut, DrainsDone,
      Update, UpdateFails, Return, cloudVars
  <2>4. Terminate(c)
    BY <1>1, <1>2, <2>1, <2>2, <2>3, Zenon DEF Reconcile, Termination, TerminateFails, BatchTerminated,
      PostTerminate, PostTerminateFails, cloudVars
  <2>5. PICK j \in ctx[c].todo : life' = [life EXCEPT ![j] = "Terminating"]
    BY <2>4, Zenon DEF Terminate
  <2>6. j = i
    BY <2>5, Zenon
  <2>7. pc[c] = "terminate" /\ pc'[c] = "decrement"
    BY <2>4, Zenon DEF Terminate, Goto
  <2>8. i \in GroupOf(c)
    BY <2>5, <2>6, <2>7, Zenon DEF TodoInGroup
  <2>9. QED
    BY <2>4, <2>7, <2>8, Zenon DEF GroupOf
<1>3. ASSUME NEW j \in Instances PROVE ~Goroutine(j) /\ ~Cloud(j) /\ ~NodeEvent(j)
  BY <1>1, Zenon DEF Goroutine, DrainGoto, Script, ScriptFails, PreDrain, PreDrainFails, CordonNode, DrainNode,
      DrainIgnored, DrainFails, PostDrain, PostDrainFails, PostWait, PostWaitFails,
      Cloud, LaunchInstance, EnterService, JoinCluster, Terminated, NodeEvent, cloudVars
<1>4. ASSUME NEW c \in CRs PROVE ~DelaysElapse(c) /\ ~NewTemplate(c) /\ ~Resubmit(c)
  BY <1>1, Zenon DEF DelaysElapse, NewTemplate, Resubmit, cloudVars
<1>5. ~Crash /\ ~UNCHANGED vars
  BY <1>1, Zenon DEF Crash, vars, cloudVars
<1>6. QED
  BY <1>2, <1>3, <1>4, <1>5, Zenon DEF Next

\* How a reconcile reaches the steps where it relies on its context: by an own
\* step that sets the context, or from such a step, with the context kept.
LEMMA ContextNext ==
  ASSUME TypeOK, [Next]_vars, NEW d \in CRs
  PROVE  /\ pc'[d] \in BeforeStandby =>
              Discover(d) \/ (pc[d] \in BeforeStandby /\ ctx'[d].life = ctx[d].life)
         /\ pc'[d] = "standby" => TagEager(d) \/ (pc[d] = "standby" /\ ctx'[d] = ctx[d])
         /\ pc'[d] \in {"terminate", "decrement"} =>
              \/ DrainsDone(d)
              \/ /\ pc[d] \in {"terminate", "decrement"}
                 /\ ctx'[d].todo \subseteq ctx[d].todo /\ ctx'[d].started = ctx[d].started
         /\ pc'[d] = "wait" => LaunchDrains(d) \/ (pc[d] = "wait" /\ ctx'[d] = ctx[d])
<1> DEFINE Kept == pc'[d] = pc[d] /\ ctx'[d] = ctx[d]
           Ended == pc'[d] \in {"idle", "discover", "launch", "update"}
           Followed == /\ pc[d] \in BeforeStandby \ {"standby"} /\ pc'[d] \in BeforeStandby \ {"standby"}
                       /\ ctx'[d].life = ctx[d].life
           Terminates == /\ pc[d] \in {"terminate", "decrement"} /\ pc'[d] \in {"terminate", "decrement"}
                         /\ ctx'[d].todo \subseteq ctx[d].todo /\ ctx'[d].started = ctx[d].started
           Good == \/ Kept \/ Ended \/ Followed \/ Terminates
                   \/ Discover(d) \/ TagEager(d) \/ LaunchDrains(d) \/ DrainsDone(d)
<1>1. ASSUME NEW c \in CRs, Discovery(c) PROVE Good
  <2>1. CASE BeginReconcile(c) \/ BeginUnaware(c)
    BY <2>1, Zenon DEF BeginReconcile, BeginUnaware, Begin, Goto, TypeOK
  <2>2. CASE Discover(c)
    BY <2>2, Zenon DEF Discover, Goto, TypeOK
  <2>3. CASE DiscoverFails(c)
    BY <2>3, Zenon DEF DiscoverFails, FailWith, Goto, TypeOK
  <2>4. QED
    BY <1>1, <2>1, <2>2, <2>3, Zenon DEF Discovery
<1>2. ASSUME NEW c \in CRs, Choice(c) PROVE Good
  <2>1. Goto(c, "select", "replace") /\ \E B : ctx' = [ctx EXCEPT ![c].batch = B]
    BY <1>2, Zenon DEF Choice, SelectTargets, SelectUntagFails, SelectDescribeFails, Select
  <2>2. QED
    BY <2>1 DEF Goto, TypeOK, Contexts, BeforeStandby
<1>3. ASSUME NEW c \in CRs, Lazy(c) PROVE Good
  BY <1>3, Zenon DEF Lazy, TagLazy, TagLazyFails, FailWith, Goto, AfterDelays, TypeOK
<1>4. ASSUME NEW c \in CRs, Eager(c) PROVE Good
  <2>1. CASE LoadReplacements(c)
    BY <2>1 DEF LoadReplacements, Goto, TypeOK, Contexts, BeforeStandby
  <2>2. CASE TagEager(c)
    BY <2>2, Zenon DEF TagEager, Goto, TypeOK
  <2>3. CASE Ballooned(c) \/ SetBatchStandBy(c) \/ StandByFails(c)
    BY <2>3, Zenon DEF Ballooned, SetBatchStandBy, StandByFails, Goto, TypeOK
  <2>4. CASE TagEagerFails(c)
    BY <2>4, Zenon DEF TagEagerFails, FailWith, Goto, TypeOK
  <2>5. CASE AwaitDesiredNodes(c) \/ AwaitCachedNodes(c)
    BY <2>5, Zenon DEF AwaitDesiredNodes, AwaitCachedNodes, AwaitDesired, AfterDelays, Goto, TypeOK
  <2>6. QED
    BY <1>4, <2>1, <2>2, <2>3, <2>4, <2>5, Zenon DEF Eager
<1>5. ASSUME NEW c \in CRs, AwaitDrains(c) PROVE Good
  <2>1. CASE LaunchDrains(c) \/ WaitTimesOut(c)
    <3>1. CASE c = d /\ WaitTimesOut(c)
      BY <3>1, Zenon DEF WaitTimesOut, Goto, TypeOK
    <3>2. CASE c # d
      BY <2>1, <3>2, Zenon DEF LaunchDrains, WaitTimesOut, Goto, TypeOK
    <3> QED BY <2>1, <3>1, <3>2, Zenon
  <2>2. CASE ReceiveError(c)
    BY <2>2, Zenon DEF ReceiveError, FailWith, Goto, TypeOK
  <2>3. CASE DrainsDone(c)
    BY <2>3, Zenon DEF DrainsDone, Goto, TypeOK
  <2>4. QED
    BY <1>5, <2>1, <2>2, <2>3, Zenon DEF AwaitDrains
<1>6. ASSUME NEW c \in CRs, Termination(c) PROVE Good
  <2>1. CASE Terminate(c)
    <3>0. pc \in [CRs -> PCs] /\ ctx \in [CRs -> Contexts]
      BY Zenon DEF TypeOK
    <3>1. PICK i \in ctx[c].todo :
            ctx' = [ctx EXCEPT ![c] = [ctx[c] EXCEPT
                      !.todo = ctx[c].todo \ {i}, !.count = ReplacementNodes,
                      !.waits = ctx[c].waits \cup ({"termination"} \cap Intervals)]]
      BY <2>1, Zenon DEF Terminate
    <3>2. /\ ctx'[c].todo \subseteq ctx[c].todo /\ ctx'[c].started = ctx[c].started
          /\ \A e \in CRs \ {c} : ctx'[e] = ctx[e]
      BY <3>0, <3>1, Zenon DEF Contexts
    <3> QED BY <2>1, <3>0, <3>2, Zenon DEF Terminate, Goto
  <2>2. CASE TerminateFails(c) \/ BatchTerminated(c) \/ PostTerminate(c)
    BY <2>2, Zenon DEF TerminateFails, BatchTerminated, PostTerminate, Goto, TypeOK
  <2>3. CASE PostTerminateFails(c)
    BY <2>3, Zenon DEF PostTerminateFails, FailWith, Goto, TypeOK
  <2>4. QED
    BY <1>6, <2>1, <2>2, <2>3, Zenon DEF Termination
<1>7. ASSUME NEW c \in CRs, Update(c) \/ UpdateFails(c) PROVE Good
  BY <1>7, Zenon DEF Update, UpdateFails, Return, Goto, TypeOK
<1>8. ASSUME NEW i \in Instances, Goroutine(i) \/ Cloud(i) \/ NodeEvent(i) PROVE Good
  BY <1>8, Zenon DEF Goroutine, DrainGoto, Script, ScriptFails, PreDrain, PreDrainFails, CordonNode, DrainNode,
    DrainIgnored, DrainFails, PostDrain, PostDrainFails, PostWait, PostWaitFails,
    Cloud, LaunchInstance, EnterService, JoinCluster, Terminated, NodeEvent
<1>9. ASSUME NEW c \in CRs, DelaysElapse(c) \/ NewTemplate(c) \/ Resubmit(c) PROVE Good
  BY <1>9, Zenon DEF DelaysElapse, NewTemplate, Resubmit
<1>10. ASSUME Crash PROVE Good
  BY <1>10, Zenon DEF Crash
<1>11. ASSUME UNCHANGED vars PROVE Good
  BY <1>11, Zenon DEF vars
<1>12. Good
  BY <1>1, <1>2, <1>3, <1>4, <1>5, <1>6, <1>7, <1>8, <1>9, <1>10, <1>11, Zenon DEF Next, Reconcile
<1>13. /\ TagEager(d) => pc[d] \in BeforeStandby /\ ctx'[d].life = ctx[d].life /\ pc'[d] = "standby"
       /\ LaunchDrains(d) => pc'[d] = "wait"
       /\ DrainsDone(d) => pc'[d] = "terminate"
       /\ Discover(d) => pc'[d] \in {"select", "update"}
  BY DEF TagEager, LaunchDrains, DrainsDone, Discover, Goto, TypeOK, Contexts, BeforeStandby
<1>14. QED
  BY <1>12, <1>13, Zenon DEF BeforeStandby

\* The invariant holds before the first reconcile.
LEMMA GateInvInit == Init => GateInv
<1> SUFFICES ASSUME Init PROVE GateInv
  BY Zenon
<1>1. \A c \in CRs : pc[c] = "idle"
  BY Zenon DEF Init
<1>2. QED
  BY <1>1, RotationInit, Zenon DEF GateInv, InServiceKept, StandbyInService, TodoInGroup, BeforeStandby

\* Every action keeps the invariant.
LEMMA GateInvNext == GateInv /\ [Next]_vars => GateInv'
<1> SUFFICES ASSUME GateInv, [Next]_vars PROVE GateInv'
  BY Zenon
<1>1. RotationInv' /\ TypeOK /\ TypeOK'
  BY RotationNext, Zenon DEF GateInv, RotationInv
<1>2. InServiceKept'
  <2>1. SUFFICES ASSUME NEW d \in CRs, pc'[d] \in BeforeStandby, NEW i \in GroupOf(d),
                        ctx'[d].life[i] = "InService", i \in Gone'
                 PROVE  FALSE
    BY Zenon DEF InServiceKept, GroupOf
  <2>2. i \in Instances /\ Group[i] = d
    BY <2>1, Zenon DEF GroupOf
  <2>3. i \in Gone
    BY <2>1, <2>2, GoneByOwnUpgrade, Zenon DEF BeforeStandby
  <2>4. CASE Discover(d)
    <3>1. ctx'[d].life = life
      BY <1>1, <2>4 DEF Discover, TypeOK, Contexts
    <3>2. QED
      BY <2>1, <2>2, <2>3, <3>1, Zenon DEF Gone
  <2>5. CASE pc[d] \in BeforeStandby /\ ctx'[d].life = ctx[d].life
    BY <2>1, <2>3, <2>5, Zenon DEF GateInv, InServiceKept
  <2>6. QED
    BY <1>1, <2>1, <2>4, <2>5, ContextNext, Zenon
<1>3. StandbyInService'
  <2>1. SUFFICES ASSUME NEW d \in CRs, pc'[d] = "standby" PROVE ctx'[d].todo \subseteq InService(d)'
    BY Zenon DEF StandbyInService
  <2>2. CASE TagEager(d)
    BY <1>1, <2>2 DEF TagEager, InService, TypeOK, Contexts
  <2>3. CASE pc[d] = "standby" /\ ctx'[d] = ctx[d]
    BY <2>3, Zenon DEF GateInv, StandbyInService, InService
  <2>4. QED
    BY <1>1, <2>1, <2>2, <2>3, ContextNext, Zenon
<1>4. TodoInGroup'
  <2>1. SUFFICES ASSUME NEW d \in CRs, pc'[d] \in {"terminate", "decrement"}
                 PROVE  ctx'[d].todo \subseteq GroupOf(d)
    BY Zenon DEF TodoInGroup, GroupOf
  <2>2. CASE DrainsDone(d)
    <3>1. ctx'[d].todo \subseteq ctx[d].batch
      BY <1>1, <2>2 DEF DrainsDone, TypeOK, Contexts
    <3>2. QED
      BY <3>1, Zenon DEF GateInv, RotationInv, BatchFits
  <2>3. CASE pc[d] \in {"terminate", "decrement"} /\ ctx'[d].todo \subseteq ctx[d].todo
    BY <2>3, Zenon DEF GateInv, TodoInGroup
  <2>4. QED
    BY <1>1, <2>1, <2>2, <2>3, ContextNext, Zenon
<1>5. QED
  BY <1>1, <1>2, <1>3, <1>4, Zenon DEF GateInv

--------------------------------------------------------------------------------
(***************************************************************************)
(* The step simulation: every action, or a stutter of DrainGate.           *)
(***************************************************************************)

\* A step that leaves goroutines, lifecycles and the termination loop alone.
LEMMA GateStutters ==
  ASSUME TypeOK, drain' = drain, InTermination' = InTermination, Gone' = Gone
  PROVE  UNCHANGED Gate!vars
  BY Zenon DEF Gate!vars, DrainGroup, GroupOf

\* The goroutine of one instance makes a step.
LEMMA GoroutineSteps ==
  ASSUME TypeOK, NEW i \in Instances, drain[i] # "none", NEW p, drain' = [drain EXCEPT ![i] = p],
         InTermination' = InTermination, Gone' = Gone
  PROVE  [Gate!Next]_(Gate!vars)
<1> DEFINE r == [c \in CRs |-> DrainGroup(c)]
           s == [c \in CRs |-> DrainGroup(c)']
           u == Group[i]
<1>1. u \in CRs /\ i \in r[u]
  BY ConstantsAssumption, Zenon DEF DrainGroup, GroupOf
<1>2. CASE p = "none"
  <2>1. s = [r EXCEPT ![u] = @ \ {i}]
    <3>1. \A c \in CRs : s[c] = IF c = u THEN r[c] \ {i} ELSE r[c]
      BY <1>2, ConstantsAssumption, Zenon DEF DrainGroup, GroupOf, TypeOK
    <3>2. QED
      BY <3>1, Zenon
  <2>2. Gate!Finish(u)
    BY <1>1, <2>1, Zenon DEF Gate!Finish
  <2>3. QED
    BY <1>1, <2>2, Zenon DEF Gate!Next
<1>3. CASE p # "none"
  <2>1. \A c \in CRs : DrainGroup(c)' = DrainGroup(c)
    BY <1>3, Zenon DEF DrainGroup, GroupOf, TypeOK
  <2>2. QED
    BY <2>1, Zenon DEF Gate!vars
<1>4. QED
  BY <1>2, <1>3, Zenon

\* Every step of Rotation is a step of DrainGate or leaves its state alone.
LEMMA GateSimulates == GateInv /\ GateInv' /\ [Next]_vars => [Gate!Next]_(Gate!vars)
<1> SUFFICES ASSUME GateInv, GateInv', [Next]_vars PROVE [Gate!Next]_(Gate!vars)
  BY Zenon
<1>0. TypeOK /\ TypeOK' /\ DrainsBounded'
  BY Zenon DEF GateInv, RotationInv
<1>1. ASSUME NEW c \in CRs, Discovery(c) \/ Choice(c) \/ Lazy(c) \/ Update(c) \/ UpdateFails(c)
      PROVE  UNCHANGED Gate!vars
  <2>1. drain' = drain /\ life' = life
    BY <1>1, Zenon DEF Discovery, Choice, Lazy, BeginReconcile, BeginUnaware, Begin, Discover, DiscoverFails,
      SelectTargets, SelectUntagFails, SelectDescribeFails, Select, TagLazy, TagLazyFails,
      Update, UpdateFails, Return, cloudVars, drainVars
  <2>2. \E from, to : /\ Goto(c, from, to)
                      /\ {from, to} \cap {"terminate", "decrement"} = {}
    BY <1>1 DEF Discovery, Choice, Lazy, BeginReconcile, BeginUnaware, Begin, Discover, DiscoverFails,
      SelectTargets, SelectUntagFails, SelectDescribeFails, Select, TagLazy, TagLazyFails,
      Update, UpdateFails, Return, FailWith, AfterDelays
  <2>3. QED
    BY <1>0, <2>1, <2>2, GateStutters, Zenon DEF Goto, InTermination, Gone, TypeOK
<1>2. ASSUME NEW c \in CRs, Eager(c) PROVE UNCHANGED Gate!vars
  <2>1. drain' = drain
    BY <1>2, Zenon DEF Eager, LoadReplacements, Ballooned, TagEager, TagEagerFails, SetBatchStandBy,
      StandByFails, AwaitDesiredNodes, AwaitCachedNodes, AwaitDesired, drainVars
  <2>2. \E from, to : /\ Goto(c, from, to)
                      /\ {from, to} \cap {"terminate", "decrement"} = {}
    BY <1>2 DEF Eager, LoadReplacements, Ballooned, TagEager, TagEagerFails, SetBatchStandBy,
      StandByFails, AwaitDesiredNodes, AwaitCachedNodes, AwaitDesired, FailWith, AfterDelays
  <2>3. Gone' = Gone
    <3>1. CASE SetBatchStandBy(c)
      <4>1. ctx[c].todo \cap Gone = {}
        BY <3>1, Zenon DEF SetBatchStandBy, Goto, GateInv, RotationInv, BatchFits, StandbyInService,
          InService, InServiceKept, BeforeStandby
      <4>2. QED
        BY <3>1, <4>1, Zenon DEF SetBatchStandBy, Gone
    <3>2. CASE ~SetBatchStandBy(c)
      <4>1. life' = life
        BY <1>2, <3>2, Zenon DEF Eager, LoadReplacements, Ballooned, TagEager, TagEagerFails,
          StandByFails, AwaitDesiredNodes, AwaitCachedNodes, AwaitDesired, cloudVars
      <4>2. QED
        BY <4>1, Zenon DEF Gone
    <3>3. QED
      BY <3>1, <3>2, Zenon
  <2>4. QED
    BY <1>0, <2>1, <2>2, <2>3, GateStutters, Zenon DEF Goto, InTermination, TypeOK
<1>3. ASSUME NEW c \in CRs, LaunchDrains(c) PROVE [Gate!Next]_(Gate!vars)
  <2> DEFINE r == [d \in CRs |-> DrainGroup(d)]
             s == [d \in CRs |-> DrainGroup(d)']
  <2>1. InTermination' = InTermination /\ Gone' = Gone /\ c \notin InTermination
    BY <1>0, <1>3, Zenon DEF LaunchDrains, Goto, InTermination, Gone, cloudVars, TypeOK
  <2>2. CASE DrainGroup(c) = {}
    <3>1. s = [r EXCEPT ![c] = DrainGroup(c)']
      <4>1. \A d \in CRs : s[d] = IF d = c THEN DrainGroup(c)' ELSE r[d]
        BY <1>0, <1>3 DEF LaunchDrains, DrainGroup, GroupOf, GateInv, RotationInv, BatchFits, TypeOK
      <4>2. QED
        BY <4>1, Zenon
    <3>2. DrainGroup(c)' \in AllowedBatches /\ \A i \in DrainGroup(c)' : Group[i] = c
      BY <1>0, Zenon DEF AllowedBatches, DrainsBounded, DrainGroup, GroupOf
    <3>3. \E B \in AllowedBatches : (\A i \in B : Group[i] = c) /\ s = [r EXCEPT ![c] = B]
      <4> HIDE DEF r, s
      <4>1. QED
        BY <3>1, <3>2, Zenon
    <3>4. r[c] = {}
      BY <2>2, Zenon
    <3>5. Gate!Start(c)
      BY <2>1, <3>3, <3>4, Zenon DEF Gate!Start
    <3>6. QED
      BY <3>5, Zenon DEF Gate!Next
  <2>3. CASE DrainGroup(c) # {}
    <3>1. drain' = drain
      BY <1>0, <1>3, <2>3, Zenon DEF LaunchDrains, TypeOK
    <3>2. QED
      BY <1>0, <2>1, <3>1, GateStutters, Zenon
  <2>4. QED
    BY <2>2, <2>3, Zenon
<1>4. ASSUME NEW c \in CRs, ReceiveError(c) PROVE [Gate!Next]_(Gate!vars)
  <2>1. InTermination' = InTermination /\ Gone' = Gone
    BY <1>0, <1>4, Zenon DEF ReceiveError, FailWith, Goto, InTermination, Gone, cloudVars, TypeOK
  <2>2. PICK i \in DrainErrors(c) : drain' = [drain EXCEPT ![i] = AfterReport[drain[i]]]
    BY <1>4, Zenon DEF ReceiveError
  <2>3. i \in Instances /\ drain[i] # "none"
    BY <2>2, Zenon DEF DrainErrors, GroupOf, Reporting
  <2>4. QED
    BY <1>0, <2>1, <2>2, <2>3, GoroutineSteps, Zenon
<1>5. ASSUME NEW c \in CRs, WaitTimesOut(c) PROVE UNCHANGED Gate!vars
  BY <1>0, <1>5, GateStutters, Zenon DEF WaitTimesOut, Goto, InTermination, Gone, cloudVars, drainVars, TypeOK
<1>6. ASSUME NEW c \in CRs, DrainsDone(c) PROVE Gate!Open(c)
  <2>1. \A d \in CRs : DrainGroup(d)' = DrainGroup(d)
    BY <1>6, Zenon DEF DrainsDone, drainVars, DrainGroup, GroupOf
  <2>2. InTermination' = InTermination \cup {c} /\ Gone' = Gone
    BY <1>0, <1>6, Zenon DEF DrainsDone, Goto, InTermination, Gone, cloudVars, TypeOK
  <2>3. QED
    BY <1>6, <2>1, <2>2, Zenon DEF Gate!Open, DrainsDone
<1>7. ASSUME NEW c \in CRs, Terminate(c) PROVE Gate!Terminate(c)
  <2>1. \A d \in CRs : DrainGroup(d)' = DrainGroup(d)
    BY <1>7, Zenon DEF Terminate, drainVars, DrainGroup, GroupOf
  <2>2. InTermination' = InTermination /\ c \in InTermination
    BY <1>0, <1>7, Zenon DEF Terminate, Goto, InTermination, TypeOK
  <2>3. PICK i \in ctx[c].todo : life' = [life EXCEPT ![i] = "Terminating"]
    BY <1>7, Zenon DEF Terminate
  <2>4. i \in Instances /\ Group[i] = c
    BY <1>7, <2>3, Zenon DEF Terminate, Goto, GateInv, TodoInGroup, GroupOf
  <2>5. Gone' = Gone \cup {i}
    BY <1>0, <2>3, <2>4, Zenon DEF Gone, TypeOK
  <2>6. QED
    BY <2>1, <2>2, <2>4, <2>5, Zenon DEF Gate!Terminate
<1>8. ASSUME NEW c \in CRs, TerminateFails(c) \/ BatchTerminated(c) \/ PostTerminateFails(c)
      PROVE  Gate!Close(c)
  <2>1. \A d \in CRs : DrainGroup(d)' = DrainGroup(d)
    BY <1>8, Zenon DEF TerminateFails, BatchTerminated, PostTerminateFails, drainVars, DrainGroup, GroupOf
  <2>2. InTermination' = InTermination \ {c} /\ Gone' = Gone
    BY <1>0, <1>8, Zenon DEF TerminateFails, BatchTerminated, PostTerminateFails, FailWith, Goto,
      InTermination, Gone, cloudVars, TypeOK
  <2>3. QED
    BY <2>1, <2>2, Zenon DEF Gate!Close
<1>9. ASSUME NEW c \in CRs, PostTerminate(c) PROVE UNCHANGED Gate!vars
  BY <1>0, <1>9, GateStutters, Zenon DEF PostTerminate, Goto, InTermination, Gone, cloudVars, drainVars,
    TypeOK
<1>10. ASSUME NEW i \in Instances, Goroutine(i) PROVE [Gate!Next]_(Gate!vars)
  <2>1. InTermination' = InTermination /\ Gone' = Gone
    BY <1>10, Zenon DEF Goroutine, DrainGoto, Script, ScriptFails, PreDrain, PreDrainFails, CordonNode, DrainNode,
      DrainIgnored, DrainFails, PostDrain, PostDrainFails, PostWait, PostWaitFails,
      InTermination, Gone, cloudVars
  <2>2. drain[i] # "none" /\ \E p : drain' = [drain EXCEPT ![i] = p]
    BY <1>10, Zenon DEF Goroutine, DrainGoto, Script, ScriptFails, PreDrain, PreDrainFails, CordonNode, DrainNode,
      DrainIgnored, DrainFails, PostDrain, PostDrainFails, PostWait, PostWaitFails
  <2>3. QED
    BY <1>0, <2>1, <2>2, GoroutineSteps, Zenon
<1>11. ASSUME NEW i \in Instances, Cloud(i) \/ NodeEvent(i) PROVE UNCHANGED Gate!vars
  <2>1. drain' = drain /\ pc' = pc
    BY <1>11, Zenon DEF Cloud, LaunchInstance, EnterService, JoinCluster, Terminated, NodeEvent, drainVars
  <2>2. Gone' = Gone
    BY <1>0, <1>11, Zenon DEF Cloud, LaunchInstance, EnterService, JoinCluster, Terminated, NodeEvent,
      cloudVars, Gone, TypeOK
  <2>3. QED
    BY <1>0, <2>1, <2>2, GateStutters, Zenon DEF InTermination
<1>12. ASSUME NEW c \in CRs, DelaysElapse(c) \/ NewTemplate(c) \/ Resubmit(c) PROVE UNCHANGED Gate!vars
  BY <1>0, <1>12, GateStutters, Zenon
    DEF DelaysElapse, NewTemplate, Resubmit, cloudVars, drainVars, InTermination, Gone
<1>13. ASSUME Crash PROVE Gate!Restart
  <2>1. \A d \in CRs : DrainGroup(d)' = {}
    BY <1>13, Zenon DEF Crash, DrainGroup, GroupOf
  <2>2. InTermination' = {} /\ Gone' = Gone
    BY <1>13, Zenon DEF Crash, InTermination, Gone, cloudVars
  <2>3. QED
    BY <2>1, <2>2, Zenon DEF Gate!Restart
<1>14. ASSUME UNCHANGED vars PROVE UNCHANGED Gate!vars
  BY <1>0, <1>14, GateStutters, Zenon DEF vars, cloudVars, drainVars, InTermination, Gone
<1>15. QED
  BY <1>1, <1>2, <1>3, <1>4, <1>5, <1>6, <1>7, <1>8, <1>9, <1>10, <1>11, <1>12, <1>13, <1>14, Zenon
    DEF Next, Reconcile, AwaitDrains, Termination, Gate!Next

\* Rotation implements the drain manager's abstract specification, for all
\* constants.
THEOREM RotationImplementsGate == Spec => ImplementsDrainGate
<1>1. Init => Gate!Init
  BY DEF Init, Gate!Init, DrainGroup, GroupOf, InTermination, Gone
<1>2. QED
  BY <1>1, GateInvInit, GateInvNext, GateSimulates, PTL DEF Spec, ImplementsDrainGate, Gate!Spec

--------------------------------------------------------------------------------
(***************************************************************************)
(* A reconcile terminates what it drained.  DrainsDone only says that no   *)
(* goroutine is left.  The reconcile that started them knows that each     *)
(* instance of its batch with a node had one, which ended after its drain, *)
(* or with an error; and to receive an error ends the wait.                *)
(***************************************************************************)

\* A goroutine past its drain has drained its node.
PastDrain ==
  \A i \in Instances : drain[i] \in {"postdrain", "postwait", "postErr", "waitErr"} => i \in drained

\* What is to be terminated has a goroutine, or had one that drained it.
Attended(i) == drain[i] # "none" \/ i \in drained

BatchAttended ==
  \A c \in CRs : pc[c] = "wait" /\ ctx[c].started =>
    \A i \in ctx[c].batch \cap ctx[c].nodes : Attended(i)

DrainedInv == PastDrain /\ BatchAttended /\ OwnBatchIsDrained

\* A goroutine ends drained, or with an error that ends the wait of its upgrade.
LEMMA AttendedStays ==
  ASSUME TypeOK, PastDrain, [Next]_vars
  PROVE  /\ PastDrain' /\ drained \subseteq drained'
         /\ \A i \in Instances : Attended(i) /\ pc'[Group[i]] = "wait" => Attended(i)'
<1> DEFINE Stays == \A i \in Instances : Attended(i) /\ pc'[Group[i]] = "wait" => Attended(i)'
           Goal == PastDrain' /\ drained \subseteq drained' /\ Stays
<1>0. pc \in [CRs -> PCs] /\ drain \in [Instances -> DrainPCs] /\ Group \in [Instances -> CRs]
  BY ConstantsAssumption, Zenon DEF TypeOK
<1>1. ASSUME UNCHANGED <<drain, drained>> PROVE Goal
  BY <1>1, Zenon DEF PastDrain, Attended
<1>2. ASSUME NEW c \in CRs, LaunchDrains(c) PROVE Goal
  <2>1. UNCHANGED drained /\ \A i \in Instances : drain'[i] \in {"predrain", drain[i]}
    BY <1>2, Zenon DEF LaunchDrains
  <2> QED BY <2>1, Zenon DEF PastDrain, Attended
<1>3. ASSUME NEW c \in CRs, ReceiveError(c) PROVE Goal
  <2>1. PICK e \in DrainErrors(c) : drain' = [drain EXCEPT ![e] = AfterReport[drain[e]]]
    BY <1>3, Zenon DEF ReceiveError
  <2>2. e \in Instances /\ Group[e] = c /\ drain[e] \in Reporting /\ UNCHANGED drained
    BY <1>3, <2>1, Zenon DEF DrainErrors, GroupOf, ReceiveError
  <2>3. \/ AfterReport[drain[e]] \in {"cordon", "none"}
        \/ drain[e] = "postErr" /\ AfterReport[drain[e]] = "postwait"
    BY <2>2, Zenon DEF AfterReport, Reporting
  <2>4. \A i \in Instances : drain'[i] = IF i = e THEN AfterReport[drain[e]] ELSE drain[i]
    BY <1>0, <2>1, <2>2, Zenon
  <2>5. pc'[c] = "update"
    BY <1>0, <1>3, Zenon DEF ReceiveError, FailWith, Goto
  <2>6. PastDrain'
    BY <2>2, <2>3, <2>4, Zenon DEF PastDrain
  <2>7. Stays
    BY <2>2, <2>4, <2>5, Zenon DEF Attended
  <2> QED BY <2>2, <2>6, <2>7, Zenon
<1>4. ASSUME NEW c \in CRs, Reconcile(c) PROVE Goal
  <2> HIDE DEF Goal
  <2> QED BY <1>1, <1>2, <1>3, <1>4, ReconcileFrame, Zenon
<1>5. ASSUME NEW i \in Instances, Goroutine(i) PROVE Goal
  <2>1. /\ drained \subseteq drained'
        /\ \A j \in Instances \ {i} : drain'[j] = drain[j]
        /\ drain[i] # "none"
        /\ drain'[i] \in {"postdrain", "postwait", "postErr", "waitErr"} =>
             i \in drained' \/ drain[i] \in {"postdrain", "postwait"}
        /\ drain'[i] = "none" => drain[i] = "postwait"
    BY <1>0, <1>5, Zenon DEF Goroutine, DrainGoto, Script, ScriptFails, PreDrain, PreDrainFails, CordonNode, DrainNode,
      DrainIgnored, DrainFails, PostDrain, PostDrainFails, PostWait, PostWaitFails
  <2>2. PastDrain'
    BY <2>1, Zenon DEF PastDrain
  <2>3. Stays
    BY <2>1, Zenon DEF PastDrain, Attended
  <2> QED BY <2>1, <2>2, <2>3, Zenon
<1>6. ASSUME NEW i \in Instances, Cloud(i) \/ NodeEvent(i) PROVE Goal
  <2>1. UNCHANGED <<drain, drained>>
    BY <1>6, Zenon DEF Cloud, LaunchInstance, EnterService, JoinCluster, Terminated, NodeEvent, drainVars
  <2> QED BY <1>1, <2>1, Zenon
<1>7. ASSUME NEW c \in CRs, DelaysElapse(c) \/ NewTemplate(c) \/ Resubmit(c) PROVE Goal
  <2>1. UNCHANGED <<drain, drained>>
    BY <1>7, Zenon DEF DelaysElapse, NewTemplate, Resubmit, drainVars
  <2> QED BY <1>1, <2>1, Zenon
<1>8. ASSUME Crash PROVE Goal
  <2>1. /\ UNCHANGED drained
        /\ \A i \in Instances : drain'[i] = "none"
        /\ \A i \in Instances : pc'[Group[i]] = "idle"
    BY <1>0, <1>8, Zenon DEF Crash
  <2> QED BY <2>1, Zenon DEF PastDrain
<1>9. ASSUME UNCHANGED vars PROVE Goal
  <2>1. UNCHANGED <<drain, drained>>
    BY <1>9, Zenon DEF vars, drainVars
  <2> QED BY <1>1, <2>1, Zenon
<1> HIDE DEF Goal
<1>10. Goal
  BY <1>4, <1>5, <1>6, <1>7, <1>8, <1>9, Zenon DEF Next
<1> QED BY <1>10, Zenon DEF Goal

\* ReplaceNodeBatch: a reconcile that started the drains of its batch terminates
\* an instance only when its drain has succeeded or its failure was ignored, for
\* any groups, batch size and upgrades at work, and whatever fails, times out,
\* restarts or evicts nodes from the cache in between.
THEOREM OwnBatchesAreDrained == Spec => []OwnBatchIsDrained
<1>1. Init => DrainedInv
  <2> SUFFICES ASSUME Init PROVE DrainedInv
    BY Zenon
  <2>1. (\A c \in CRs : pc[c] = "idle") /\ (\A i \in Instances : drain[i] = "none")
    BY Zenon DEF Init
  <2> QED BY <2>1, Zenon DEF DrainedInv, PastDrain, BatchAttended, OwnBatchIsDrained
<1>2. ASSUME RotationInv, DrainedInv, [Next]_vars PROVE DrainedInv'
  <2>0. /\ TypeOK /\ BatchFits /\ pc \in [CRs -> PCs] /\ ctx \in [CRs -> Contexts]
        /\ PastDrain /\ BatchAttended /\ OwnBatchIsDrained
    BY <1>2, Zenon DEF RotationInv, DrainedInv, TypeOK
  <2>1. /\ PastDrain' /\ drained \subseteq drained'
        /\ \A i \in Instances : Attended(i) /\ pc'[Group[i]] = "wait" => Attended(i)'
    BY <1>2, <2>0, AttendedStays, Zenon
  <2>2. ASSUME NEW c \in CRs, pc'[c] = "wait", ctx'[c].started,
               NEW i \in ctx'[c].batch \cap ctx'[c].nodes
        PROVE  Attended(i)'
    <3>1. CASE LaunchDrains(c)
      <4>1. /\ ctx'[c].started = (DrainGroup(c) = {})
            /\ ctx'[c].batch = ctx[c].batch /\ ctx'[c].nodes = ctx[c].nodes
        BY <2>0, <3>1, Zenon DEF LaunchDrains, Contexts
      <4>2. i \in Instances
        BY <2>0, <2>2, <4>1, Zenon DEF BatchFits, GroupOf
      <4>3. drain'[i] = "predrain"
        BY <2>2, <3>1, <4>1, <4>2, Zenon DEF LaunchDrains
      <4> QED BY <4>3, Zenon DEF Attended
    <3>2. CASE pc[c] = "wait" /\ ctx'[c] = ctx[c]
      <4>1. i \in Instances /\ Group[i] = c /\ Attended(i)
        BY <2>0, <2>2, <3>2, Zenon DEF BatchFits, GroupOf, BatchAttended
      <4> QED BY <2>1, <2>2, <4>1, Zenon
    <3> QED BY <1>2, <2>0, <2>2, <3>1, <3>2, ContextNext, Zenon
  <2>3. ASSUME NEW c \in CRs, pc'[c] \in {"terminate", "decrement"}, ctx'[c].started
        PROVE  ctx'[c].todo \subseteq drained'
    <3>1. CASE DrainsDone(c)
      <4>1. /\ ctx'[c].started = ctx[c].started /\ ctx'[c].todo = ctx[c].batch \cap ctx[c].nodes
            /\ pc[c] = "wait" /\ DrainGroup(c) = {}
        BY <2>0, <3>1, Zenon DEF DrainsDone, Goto, Contexts
      <4>2. \A i \in ctx[c].batch : i \in GroupOf(c) /\ drain[i] = "none"
        BY <2>0, <4>1, Zenon DEF BatchFits, DrainGroup
      <4> QED BY <2>0, <2>1, <2>3, <4>1, <4>2, Zenon DEF BatchAttended, Attended
    <3>2. CASE /\ pc[c] \in {"terminate", "decrement"}
               /\ ctx'[c].todo \subseteq ctx[c].todo /\ ctx'[c].started = ctx[c].started
      BY <2>0, <2>1, <2>3, <3>2, Zenon DEF OwnBatchIsDrained
    <3> QED BY <1>2, <2>0, <2>3, <3>1, <3>2, ContextNext, Zenon
  <2> QED BY <2>1, <2>2, <2>3, Zenon DEF DrainedInv, BatchAttended, OwnBatchIsDrained
<1>3. DrainedInv => OwnBatchIsDrained
  BY Zenon DEF DrainedInv
<1> QED BY <1>1, <1>2, <1>3, RotationInvariant, PTL DEF Spec
================================================================================
