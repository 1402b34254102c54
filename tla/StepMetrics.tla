------------------------------- MODULE StepMetrics -------------------------------
(***************************************************************************)
(* The rotation steps an upgrade reports: status.nodeInProcessing has the  *)
(* step of every node under way, status.statistics how many nodes have     *)
(* left each step.  A reconcile works on a map of its own, which is the    *)
(* one of the status only if that was not empty, and collects durations    *)
(* in nodeSteps, which reach the status where UpdateMetricsStatus is       *)
(* called.  Drain goroutines write to the maps of the reconcile that       *)
(* started them, also when that has long returned.  The mode is lazy or    *)
(* eager: one in other capitals, which Validate lets through, would not    *)
(* kick its batch off.                                                     *)
(***************************************************************************)
EXTENDS Naturals, FiniteSets

CONSTANTS
  Rotated,         \* the nodes of the group
  Nobody,          \* no node at hand
  MaxMishaps       \* how many calls, scripts, drains, updates or restarts fail

ASSUME StepMetricsAssumption == IsFiniteSet(Rotated) /\ Nobody \notin Rotated /\ MaxMishaps \in Nat

\* NodeRotationStepOrders, by rank; 0 stands for no entry.
Kickoff == 1
DesiredNodeReady == 2
PredrainScript == 3
PostWait == 6          \* after Drain and PostdrainScript
Terminate == 7
PostTerminate == 8
Terminated == 9
Steps == Kickoff..Terminated
Total == 10

VARIABLES
  NodeInProcessing, Statistics,   \* the status, as stored
  inProcessingNodes, nodeSteps,   \* the maps of the running reconcile
  summed, attached,               \* its status: the statistics, and whether
                                  \* nodeInProcessing is the reconcile's map
  goroutine,                      \* the step a drain goroutine is about to take
  orphaned,                       \* goroutines of earlier reconciles
  rotating, batch, current,       \* where the reconcile is, its batch, its node
  terminated,                     \* instances that were terminated
  mishaps

statusVars == <<NodeInProcessing, Statistics>>
localVars  == <<inProcessingNodes, nodeSteps, summed, attached>>
stepVars   == <<statusVars, localVars, goroutine, orphaned, rotating, batch, current, terminated, mishaps>>

None == 0
NoEntries == [n \in Rotated |-> None]
NoSteps == [n \in Rotated |-> {}]

StepInit ==
  /\ NodeInProcessing = NoEntries /\ Statistics = [s \in Steps \cup {Total} |-> 0]
  /\ inProcessingNodes = NoEntries /\ nodeSteps = NoSteps
  /\ summed = Statistics /\ attached = FALSE
  /\ goroutine = NoEntries /\ orphaned = {}
  /\ rotating = "idle" /\ batch = {} /\ current = Nobody /\ terminated = {}
  /\ mishaps = 0

Mishap == mishaps < MaxMishaps /\ mishaps' = mishaps + 1

--------------------------------------------------------------------------------
(***************************************************************************)
(* The metrics of a context.                                               *)
(***************************************************************************)

\* Mutant: a step that is not later is taken too.
DoNodeStepAnyOrder(S, step) ==
  /\ inProcessingNodes' = [n \in Rotated |-> IF n \in S THEN step ELSE inProcessingNodes[n]]
  /\ nodeSteps' = [n \in Rotated |-> IF n \in S /\ inProcessingNodes[n] \notin {None, step}
                                     THEN nodeSteps[n] \cup {inProcessingNodes[n]} ELSE nodeSteps[n]]

\* DoNodeStep, for every node of S: a node without an entry gets one; a later
\* step records the one before it.
DoNodeStep(S, step) ==
  LET moves(n) == n \in S /\ inProcessingNodes[n] < step IN
  /\ inProcessingNodes' = [n \in Rotated |-> IF moves(n) THEN step ELSE inProcessingNodes[n]]
  /\ nodeSteps' = [n \in Rotated |-> IF moves(n) /\ inProcessingNodes[n] # None
                                     THEN nodeSteps[n] \cup {inProcessingNodes[n]} ELSE nodeSteps[n]]

\* Terminated, then Completed: the last two steps and the total are recorded,
\* and the entry goes.
DoNodeCompleted(n) ==
  /\ inProcessingNodes' = [inProcessingNodes EXCEPT ![n] = None]
  /\ nodeSteps' = [nodeSteps EXCEPT ![n] = @ \cup {inProcessingNodes[n], Terminated, Total}]

\* Mutant: the entries of the nodes are not put into the status.
UpdateStatisticsOnly ==
  /\ UNCHANGED attached
  /\ summed' = [s \in Steps \cup {Total} |->
                  summed[s] + Cardinality({n \in Rotated : s \in nodeSteps[n]})]

\* UpdateMetricsStatus
UpdateMetricsStatus ==
  /\ attached' = TRUE
  /\ summed' = [s \in Steps \cup {Total} |->
                  summed[s] + Cardinality({n \in Rotated : s \in nodeSteps[n]})]

--------------------------------------------------------------------------------
(***************************************************************************)
(* ReplaceNodeBatch.  Returning leads to the deferred status update.       *)
(***************************************************************************)
Pass(from, to) == rotating = from /\ rotating' = to

\* Mutant: the batch is not kicked off.
StartBatchWithoutKickoff ==
  /\ Pass("idle", "batch")
  /\ \E B \in SUBSET (Rotated \ terminated) \ {{}} : batch' = B
  /\ inProcessingNodes' = NodeInProcessing
  /\ nodeSteps' = NoSteps /\ summed' = Statistics
  /\ attached' = (NodeInProcessing # NoEntries)
  /\ UNCHANGED <<statusVars, goroutine, orphaned, current, terminated, mishaps>>

\* A batch is kicked off; an empty map is not that of the status.
StartBatch ==
  /\ Pass("idle", "batch")
  /\ \E B \in SUBSET (Rotated \ terminated) \ {{}} :
       /\ batch' = B
       /\ inProcessingNodes' = [n \in Rotated |->
            IF n \in B /\ NodeInProcessing[n] = None THEN Kickoff ELSE NodeInProcessing[n]]
  /\ nodeSteps' = NoSteps /\ summed' = Statistics
  /\ attached' = (NodeInProcessing # NoEntries)
  /\ UNCHANGED <<statusVars, goroutine, orphaned, current, terminated, mishaps>>

\* Returns without UpdateMetricsStatus (a delay, no replacement allowed) and
\* with it (instances put to standby).
RequeueEarly ==
  /\ Pass("batch", "return") \/ Pass("batch", "metrics")
  /\ UNCHANGED <<statusVars, localVars, goroutine, orphaned, batch, current, terminated, mishaps>>

\* Eager mode waits for the desired nodes, then for the delays, whose return leaves
\* out UpdateMetricsStatus; lazy mode goes on.
AwaitReady ==
  /\ DoNodeStep(batch, DesiredNodeReady)
  /\ Pass("batch", "launch") \/ Pass("batch", "metrics") \/ Pass("batch", "return")
  /\ UNCHANGED <<statusVars, summed, attached, goroutine, orphaned, batch, current, terminated, mishaps>>

SkipReady ==
  /\ Pass("batch", "launch")
  /\ UNCHANGED <<statusVars, localVars, goroutine, orphaned, batch, current, terminated, mishaps>>

LaunchGoroutines ==
  /\ Pass("launch", "wait")
  /\ goroutine' = IF goroutine = NoEntries
                  THEN [n \in Rotated |-> IF n \in batch THEN PredrainScript ELSE None]
                  ELSE goroutine
  /\ UNCHANGED <<statusVars, localVars, orphaned, batch, current, terminated, mishaps>>

\* A goroutine turns onto its next step, in the maps of its own reconcile.
GoroutineStep(n) ==
  /\ goroutine[n] # None
  /\ goroutine' = [goroutine EXCEPT ![n] = IF @ = PostWait THEN None ELSE @ + 1]
  /\ IF n \in orphaned THEN UNCHANGED <<inProcessingNodes, nodeSteps>> ELSE DoNodeStep({n}, goroutine[n])
  /\ orphaned' = IF goroutine[n] = PostWait THEN orphaned \ {n} ELSE orphaned
  /\ UNCHANGED <<statusVars, summed, attached, rotating, batch, current, terminated, mishaps>>

\* A failed drain ends its goroutine, a failed script does not.
ReceiveDrainError ==
  /\ Pass("wait", "metrics")
  /\ Mishap
  /\ \E n \in {m \in Rotated : goroutine[m] # None} :
       \/ UNCHANGED <<goroutine, orphaned>>
       \/ goroutine' = [goroutine EXCEPT ![n] = None] /\ orphaned' = orphaned \ {n}
  /\ UNCHANGED <<statusVars, localVars, batch, current, terminated>>

WaitEnds ==
  /\ IF goroutine = NoEntries THEN Pass("wait", "terminate") ELSE Pass("wait", "metrics")
  /\ UNCHANGED <<statusVars, localVars, goroutine, orphaned, batch, current, terminated, mishaps>>

TerminateInstance ==
  /\ \E n \in batch :
       /\ DoNodeStep({n}, Terminate)
       /\ \/ /\ Pass("terminate", "post")
             /\ current' = n /\ batch' = batch \ {n} /\ terminated' = terminated \cup {n}
             /\ UNCHANGED mishaps
          \/ Pass("terminate", "metrics") /\ Mishap /\ UNCHANGED <<current, batch, terminated>>
  /\ UNCHANGED <<statusVars, summed, attached, goroutine, orphaned>>

RunPostTerminate ==
  /\ DoNodeStep({current}, PostTerminate)
  /\ \/ Pass("post", "complete") /\ UNCHANGED mishaps
     \/ Pass("post", "return") /\ Mishap
  /\ UNCHANGED <<statusVars, summed, attached, goroutine, orphaned, batch, current, terminated>>

CompleteNode ==
  /\ Pass("complete", "terminate")
  /\ DoNodeCompleted(current)
  /\ current' = Nobody
  /\ UNCHANGED <<statusVars, summed, attached, goroutine, orphaned, batch, terminated, mishaps>>

\* Mutant: the end of a batch is not reported.
BatchDoneUnreported ==
  /\ batch = {}
  /\ Pass("terminate", "return")
  /\ UNCHANGED <<statusVars, localVars, goroutine, orphaned, batch, current, terminated, mishaps>>

BatchDone ==
  /\ batch = {}
  /\ Pass("terminate", "metrics")
  /\ UNCHANGED <<statusVars, localVars, goroutine, orphaned, batch, current, terminated, mishaps>>

\* The range over nodeSteps takes no lock: goroutines may be running.
ReportMetrics ==
  /\ Pass("metrics", "return")
  /\ UpdateMetricsStatus
  /\ UNCHANGED <<statusVars, inProcessingNodes, nodeSteps, goroutine, orphaned, batch, current, terminated, mishaps>>

\* The deferred update stores what the maps hold by then.
Leave ==
  /\ inProcessingNodes' = NoEntries /\ nodeSteps' = NoSteps
  /\ summed' = Statistics' /\ attached' = FALSE
  /\ batch' = {} /\ current' = Nobody
  /\ UNCHANGED terminated

StoreStatus ==
  /\ Pass("return", "idle")
  /\ NodeInProcessing' = IF attached THEN inProcessingNodes ELSE NodeInProcessing
  /\ Statistics' = summed
  /\ orphaned' = {n \in Rotated : goroutine[n] # None}
  /\ Leave
  /\ UNCHANGED <<goroutine, mishaps>>

StoreStatusFails ==
  /\ Pass("return", "idle")
  /\ Mishap
  /\ UNCHANGED <<statusVars, goroutine>>
  /\ orphaned' = {n \in Rotated : goroutine[n] # None}
  /\ Leave

ProcessDies ==
  /\ Mishap
  /\ rotating' = "idle" /\ goroutine' = NoEntries /\ orphaned' = {}
  /\ UNCHANGED statusVars
  /\ Leave

StepNext ==
  \/ StartBatch \/ RequeueEarly \/ AwaitReady \/ SkipReady \/ LaunchGoroutines
  \/ ReceiveDrainError \/ WaitEnds \/ TerminateInstance \/ RunPostTerminate
  \/ CompleteNode \/ BatchDone \/ ReportMetrics \/ StoreStatus \/ StoreStatusFails \/ ProcessDies
  \/ \E n \in Rotated : GoroutineStep(n)

StepSpec == StepInit /\ [][StepNext]_stepVars

--------------------------------------------------------------------------------
(***************************************************************************)
(* Properties.                                                             *)
(***************************************************************************)

\* AddNodeStepDuration: however often a batch is drained again, times out or
\* loses its status, no node is counted twice in a step, nor before it has left
\* the step; and only terminated nodes are in the total.
CountedOnce ==
  /\ \A s \in Steps : Statistics[s] <=
       Cardinality({n \in Rotated : NodeInProcessing[n] > s \/ n \in terminated})
  /\ Statistics[Total] <= Cardinality(terminated)

\* "Make sure the steps running in order": across reconciles, the stored step of
\* a node never goes back.
StepsRunInOrder ==
  [][\A n \in Rotated : NodeInProcessing'[n] # None => NodeInProcessing'[n] >= NodeInProcessing[n]]_stepVars

\* DoNodeStep inserts without the lock: a goroutine never has to, because its
\* node was kicked off in the same map, in lazy and in eager mode, and leaves it
\* only after the wait.
GoroutineFindsItsEntry ==
  \A n \in Rotated \ orphaned : goroutine[n] # None => inProcessingNodes[n] # None

\* Without a failure, every terminated node is in the total and has no entry
\* left when its reconcile returns, whatever reconciles timed out before.
TerminatedIsCounted ==
  rotating = "idle" /\ mishaps = 0 =>
    /\ Statistics[Total] = Cardinality(terminated)
    /\ \A n \in terminated : NodeInProcessing[n] = None
================================================================================
