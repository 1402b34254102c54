--------------------------- MODULE StepMetricsProofs ---------------------------
(***************************************************************************)
(* What the reported steps and statistics keep to, for any group of nodes  *)
(* and any number of failures.                                             *)
(*                                                                         *)
(* EntryInv says where a node has an entry and who may move it: the drain  *)
(* goroutines of this reconcile and its batch only move entries that are   *)
(* there, and never one of a terminated node.  CountInv says which nodes   *)
(* the stored statistics stand for: of those that have left a step, the    *)
(* ones whose leaving this reconcile has not recorded and will not record. *)
(***************************************************************************)
EXTENDS StepMetrics, FiniteSetTheorems, TLAPS

Counts == Steps \cup {Total}

StepTypeOK ==
  /\ NodeInProcessing \in [Rotated -> 0..PostTerminate]
  /\ inProcessingNodes \in [Rotated -> 0..PostTerminate]
  /\ nodeSteps \in [Rotated -> SUBSET Counts]
  /\ Statistics \in [Counts -> Nat] /\ summed \in [Counts -> Nat]
  /\ attached \in BOOLEAN
  /\ goroutine \in [Rotated -> {None} \cup PredrainScript..PostWait]
  /\ orphaned \in SUBSET Rotated
  /\ rotating \in {"idle", "batch", "launch", "wait", "terminate", "post", "complete", "metrics", "return"}
  /\ terminated \in SUBSET Rotated
  /\ batch \in SUBSET (Rotated \ terminated)
  /\ current \in Rotated \cup {Nobody}
  /\ mishaps \in Nat

\* The goroutines that write to the maps of the running reconcile.
Own(n) == goroutine[n] # None /\ n \notin orphaned

EntryInv ==
  /\ \A n \in orphaned : goroutine[n] # None
  /\ rotating \in {"idle", "batch", "launch"} => \A n \in Rotated : ~Own(n)
  /\ rotating \in {"terminate", "post", "complete"} => \A n \in Rotated : goroutine[n] = None
  /\ \A n \in Rotated : Own(n) => inProcessingNodes[n] # None /\ n \notin terminated
  /\ \A n \in batch : inProcessingNodes[n] # None
  /\ current # Nobody => rotating \in {"post", "complete", "return"}
  /\ rotating \in {"post", "complete"} => current \in terminated
  /\ rotating = "post" => inProcessingNodes[current] >= Terminate
  /\ rotating = "complete" => inProcessingNodes[current] = PostTerminate
  /\ rotating # "idle" => \A n \in Rotated :
       \/ inProcessingNodes[n] >= NodeInProcessing[n]
       \/ inProcessingNodes[n] = None /\ n \in terminated

\* The nodes that have left step s, by the stored entries and by the reconcile's.
Left(s)      == {n \in Rotated : NodeInProcessing[n] > s \/ n \in terminated}
LeftLocal(s) == {n \in Rotated : inProcessingNodes[n] > s \/ n \in terminated}

Recorded(s) == {n \in Rotated : s \in nodeSteps[n]}

\* The nodes the stored statistics of step s may stand for: the node at hand
\* has been terminated but its last steps are still to be recorded.
Counted(s) == {n \in Left(s) : s \notin nodeSteps[n] /\ ~(n = current /\ inProcessingNodes[n] <= s)}

CountInv ==
  /\ \A n \in Rotated : \A s \in nodeSteps[n] : inProcessingNodes[n] > s \/ n \in terminated
  /\ \A s \in Counts : Statistics[s] <= Cardinality(Left(s))
  /\ rotating \notin {"idle", "return"} =>
       /\ summed = Statistics
       /\ \A s \in Counts : Statistics[s] <= Cardinality(Counted(s))
  /\ rotating = "return" =>
       \/ summed = Statistics
       \/ attached /\ \A s \in Counts : summed[s] <= Cardinality(LeftLocal(s))

\* Without a failure the total is exact.
TotalInv ==
  mishaps = 0 =>
    /\ \A n \in terminated : NodeInProcessing[n] = None \/ Total \in nodeSteps[n] \/ n = current
    /\ rotating # "idle" => \A n \in terminated : inProcessingNodes[n] = None \/ n = current
    /\ rotating \in {"idle", "batch", "launch", "wait"} => Recorded(Total) = {}
    /\ rotating = "idle" => Statistics[Total] = Cardinality(terminated)
    /\ rotating \notin {"idle", "return"} => Statistics[Total] = Cardinality(Counted(Total))
    /\ rotating = "return" =>
         /\ current = Nobody
         /\ \/ summed = Statistics /\ Recorded(Total) = {}
            \/ attached
         /\ summed[Total] = Cardinality(terminated)

--------------------------------------------------------------------------------
(***************************************************************************)
(* Entries.                                                                *)
(***************************************************************************)

\* DoNodeStep only moves entries of the nodes it is called for, forward, and
\* records the step that a node with an entry leaves.
LEMMA EntriesMove ==
  ASSUME StepTypeOK, NEW S \in SUBSET Rotated, NEW step \in Kickoff..PostTerminate, DoNodeStep(S, step)
  PROVE  /\ inProcessingNodes' \in [Rotated -> 0..PostTerminate]
         /\ nodeSteps' \in [Rotated -> SUBSET Counts]
         /\ \A n \in Rotated : inProcessingNodes'[n] >= inProcessingNodes[n]
         /\ \A n \in Rotated \ S : inProcessingNodes'[n] = inProcessingNodes[n] /\ nodeSteps'[n] = nodeSteps[n]
         /\ \A n \in S : inProcessingNodes'[n] = IF inProcessingNodes[n] < step THEN step ELSE inProcessingNodes[n]
         /\ \A n \in Rotated : nodeSteps[n] \subseteq nodeSteps'[n]
         /\ \A n \in Rotated : \A s \in nodeSteps'[n] \ nodeSteps[n] :
              n \in S /\ s = inProcessingNodes[n] /\ inProcessingNodes'[n] > s
<1> USE DEF StepTypeOK, DoNodeStep, Counts, Steps, Kickoff, Terminated, PostTerminate, Total, None
<1>1. inProcessingNodes' \in [Rotated -> 0..PostTerminate] /\ nodeSteps' \in [Rotated -> SUBSET Counts]
  OBVIOUS
<1>2. \A n \in Rotated : inProcessingNodes[n] \in 0..PostTerminate
  BY Zenon
<1>3. ASSUME NEW n \in Rotated
      PROVE  /\ inProcessingNodes'[n] = IF n \in S /\ inProcessingNodes[n] < step THEN step ELSE inProcessingNodes[n]
             /\ nodeSteps'[n] = IF n \in S /\ inProcessingNodes[n] < step /\ inProcessingNodes[n] # None
                                THEN nodeSteps[n] \cup {inProcessingNodes[n]} ELSE nodeSteps[n]
  BY Zenon
<1>4. QED
  BY <1>1, <1>2, <1>3

\* Every step keeps the types and EntryInv.
LEMMA EntryInvNext == StepTypeOK /\ EntryInv /\ [StepNext]_stepVars => StepTypeOK' /\ EntryInv'
<1> SUFFICES ASSUME StepTypeOK, EntryInv, [StepNext]_stepVars PROVE StepTypeOK' /\ EntryInv'
  BY Zenon
<1> USE StepMetricsAssumption
    DEF StepTypeOK, EntryInv, Own, Pass, statusVars, localVars, stepVars, Mishap, None,
        Kickoff, DesiredNodeReady, PredrainScript, PostWait, Terminate, PostTerminate
<1>0. /\ NoEntries \in [Rotated -> {None}] /\ \A n \in Rotated : NoEntries[n] = None
      /\ NoSteps \in [Rotated -> SUBSET Counts]
  BY Zenon DEF NoEntries, NoSteps
<1>1. CASE StartBatch
  BY <1>1 DEF StartBatch, NoSteps, NoEntries
<1>2. CASE RequeueEarly
  BY <1>2, Zenon DEF RequeueEarly
<1>3. CASE AwaitReady
  BY <1>3, EntriesMove DEF AwaitReady
<1>4. CASE SkipReady
  BY <1>4, Zenon DEF SkipReady
<1>5. CASE LaunchGoroutines
  BY <1>5 DEF LaunchGoroutines, NoEntries
<1>6. CASE ReceiveDrainError
  BY <1>6 DEF ReceiveDrainError
<1>7. CASE WaitEnds
  BY <1>7, Zenon DEF WaitEnds, NoEntries
<1>8. CASE TerminateInstance
  BY <1>8, EntriesMove DEF TerminateInstance
<1>9. CASE RunPostTerminate
  BY <1>9, EntriesMove DEF RunPostTerminate
<1>10. CASE CompleteNode
  BY <1>10 DEF CompleteNode, DoNodeCompleted, Counts, Steps, Terminated, Total
<1>11. CASE BatchDone
  BY <1>11, Zenon DEF BatchDone
<1>12. CASE ReportMetrics
  <2>1. \A s \in Counts : Cardinality({n \in Rotated : s \in nodeSteps[n]}) \in Nat
    BY FS_Subset, FS_CardinalityType, Zenon
  <2>2. summed' \in [Counts -> Nat]
    BY <1>12, <2>1 DEF ReportMetrics, UpdateMetricsStatus, Counts
  <2> QED BY <1>12, <2>2, Zenon DEF ReportMetrics, UpdateMetricsStatus
<1>13. CASE StoreStatus
  <2>1. summed' \in [Counts -> Nat] /\ attached' \in BOOLEAN
    BY <1>13, Zenon DEF StoreStatus, Leave
  <2>2. StepTypeOK'
    BY <1>0, <1>13, <2>1 DEF StoreStatus, Leave
  <2>3. EntryInv'
    BY <1>0, <1>13, Zenon DEF StoreStatus, Leave
  <2> QED BY <2>2, <2>3, Zenon
<1>14. CASE StoreStatusFails
  <2>1. summed' \in [Counts -> Nat] /\ attached' \in BOOLEAN
    BY <1>14, Zenon DEF StoreStatusFails, Leave
  <2>2. StepTypeOK'
    BY <1>0, <1>14, <2>1 DEF StoreStatusFails, Leave
  <2>3. EntryInv'
    BY <1>0, <1>14, Zenon DEF StoreStatusFails, Leave
  <2> QED BY <2>2, <2>3, Zenon
<1>15. CASE ProcessDies
  <2>1. summed' \in [Counts -> Nat] /\ attached' \in BOOLEAN
    BY <1>15, Zenon DEF ProcessDies, Leave
  <2>2. StepTypeOK'
    BY <1>0, <1>15, <2>1 DEF ProcessDies, Leave
  <2>3. EntryInv'
    BY <1>0, <1>15, Zenon DEF ProcessDies, Leave
  <2> QED BY <2>2, <2>3, Zenon
<1>16. ASSUME NEW n \in Rotated, GoroutineStep(n) PROVE StepTypeOK' /\ EntryInv'
  BY <1>16, EntriesMove DEF GoroutineStep
<1>17. CASE UNCHANGED stepVars
  BY <1>17, Zenon
<1> QED
  BY <1>1, <1>2, <1>3, <1>4, <1>5, <1>6, <1>7, <1>8, <1>9, <1>10, <1>11, <1>12, <1>13, <1>14,
     <1>15, <1>16, <1>17, Zenon DEF StepNext

--------------------------------------------------------------------------------
(***************************************************************************)
(* Counts.                                                                 *)
(***************************************************************************)

\* The sets of nodes that are compared are finite.
LEMMA NodeSets ==
  ASSUME NEW S \in SUBSET Rotated, NEW T \in SUBSET S
  PROVE  /\ IsFiniteSet(S) /\ Cardinality(S) \in Nat
         /\ Cardinality(T) \in Nat /\ Cardinality(T) <= Cardinality(S)
  BY StepMetricsAssumption, FS_Subset, FS_CardinalityType, Zenon

\* Nodes of which none is in both sets are counted once.
LEMMA DisjointSets ==
  ASSUME NEW S \in SUBSET Rotated, NEW T \in SUBSET Rotated, T \cap S = {}
  PROVE  Cardinality(S \cup T) = Cardinality(S) + Cardinality(T)
<1>1. IsFiniteSet(S) /\ IsFiniteSet(T) /\ Cardinality(S) \in Nat /\ Cardinality(T) \in Nat
  BY NodeSets, Zenon
<1>2. Cardinality(S \cup T) = Cardinality(S) + Cardinality(T) - Cardinality(S \cap T)
  BY <1>1, FS_Union, Zenon
<1>3. S \cap T = {}
  BY Zenon
<1>4. Cardinality(S \cap T) = 0
  BY <1>3, FS_EmptySet, Zenon
<1> QED BY <1>1, <1>2, <1>4

\* A step between the start of a reconcile and its return that changes neither
\* statistics keeps CountInv if what it records has left its step and if no node
\* that is counted stops to be.
LEMMA CountsKept ==
  ASSUME StepTypeOK, CountInv, StepTypeOK', UNCHANGED <<Statistics, summed>>,
         rotating \notin {"idle", "return"}, rotating' # "idle",
         \A n \in Rotated : \A s \in nodeSteps'[n] : inProcessingNodes'[n] > s \/ n \in terminated',
         \A s \in Counts : Counted(s) \subseteq Counted(s)' /\ Left(s) \subseteq Left(s)'
  PROVE  CountInv'
<1>1. ASSUME NEW s \in Counts
      PROVE  Statistics'[s] <= Cardinality(Left(s)') /\ Statistics'[s] <= Cardinality(Counted(s)')
  <2>1. Left(s) \in SUBSET Rotated /\ Left(s)' \in SUBSET Rotated
        /\ Counted(s) \in SUBSET Rotated /\ Counted(s)' \in SUBSET Rotated
    BY Zenon DEF Left, Counted
  <2>2. /\ Cardinality(Left(s)) \in Nat /\ Cardinality(Left(s)') \in Nat
        /\ Cardinality(Left(s)) <= Cardinality(Left(s)')
        /\ Cardinality(Counted(s)) \in Nat /\ Cardinality(Counted(s)') \in Nat
        /\ Cardinality(Counted(s)) <= Cardinality(Counted(s)')
    BY <2>1, NodeSets, Zenon
  <2>3. /\ Statistics'[s] = Statistics[s] /\ Statistics[s] \in Nat
        /\ Statistics[s] <= Cardinality(Left(s)) /\ Statistics[s] <= Cardinality(Counted(s))
    BY Zenon DEF StepTypeOK, CountInv
  <2> QED BY <2>2, <2>3
<1>2. summed' = Statistics'
  BY Zenon DEF CountInv
<1> QED BY <1>1, <1>2, Zenon DEF CountInv


\* Every step keeps CountInv.
LEMMA CountInvNext ==
  ASSUME StepTypeOK, EntryInv, CountInv, [StepNext]_stepVars, StepTypeOK', EntryInv'
  PROVE  CountInv'
<1> USE DEF Pass, statusVars, localVars, stepVars, Mishap
<1> DEFINE RecordedHasLeft == \A n \in Rotated : \A s \in nodeSteps[n] : inProcessingNodes[n] > s \/ n \in terminated
<1>0. ASSUME NEW S \in SUBSET Rotated, NEW step \in Kickoff..PostTerminate, DoNodeStep(S, step),
             rotating # "idle", UNCHANGED NodeInProcessing, terminated \subseteq terminated',
             \A n \in S : n \notin terminated \/ n = current,
             current' = current \/ current' \notin terminated
      PROVE  /\ RecordedHasLeft'
             /\ \A s \in Counts : /\ Counted(s) \subseteq Counted(s)' /\ Left(s) \subseteq Left(s)'
                                  /\ LeftLocal(s) \subseteq LeftLocal(s)'
  <2>1. /\ \A n \in Rotated : inProcessingNodes[n] \in 0..PostTerminate /\ inProcessingNodes'[n] \in 0..PostTerminate
        /\ \A n \in Rotated : NodeInProcessing[n] \in 0..PostTerminate
        /\ \A n \in Rotated : nodeSteps'[n] \subseteq Counts
    BY Zenon DEF StepTypeOK
  <2>2. /\ \A n \in Rotated : inProcessingNodes'[n] >= inProcessingNodes[n]
        /\ \A n \in Rotated : \A s \in nodeSteps'[n] \ nodeSteps[n] :
              n \in S /\ s = inProcessingNodes[n] /\ inProcessingNodes'[n] > s
    BY <1>0, EntriesMove, Zenon
  <2>3. RecordedHasLeft'
    BY <1>0, <2>1, <2>2 DEF CountInv, Counts, Steps, Kickoff, Terminated, Total, PostTerminate
  <2>4. ASSUME NEW s \in Counts
        PROVE  Left(s) \subseteq Left(s)' /\ LeftLocal(s) \subseteq LeftLocal(s)'
    BY <1>0, <2>1, <2>2 DEF Left, LeftLocal, Counts, Steps, Kickoff, Terminated, Total, PostTerminate
  <2>5. ASSUME NEW s \in Counts, NEW n \in Counted(s) PROVE n \in Counted(s)'
    <3>1. n \in Rotated /\ n \in Left(s) /\ n \in Left(s)' /\ s \notin nodeSteps[n]
          /\ ~(n = current /\ inProcessingNodes[n] <= s)
      BY <2>4, <2>5, Zenon DEF Counted, Left
    <3>2. s \in Nat /\ s > 0
      BY DEF Counts, Steps, Kickoff, Terminated, Total
    <3>3. n \in terminated \/ inProcessingNodes[n] > s
      BY <1>0, <2>1, <3>1, <3>2 DEF EntryInv, Left, None, PostTerminate
    <3>4. s \notin nodeSteps'[n]
      BY <1>0, <2>1, <2>2, <3>1, <3>2, <3>3 DEF PostTerminate
    <3>5. ~(n = current' /\ inProcessingNodes'[n] <= s)
      BY <1>0, <2>1, <2>2, <3>1, <3>2, <3>3 DEF PostTerminate
    <3> QED BY <3>1, <3>4, <3>5, Zenon DEF Counted
  <2> QED BY <2>3, <2>4, <2>5, Zenon
<1>1. CASE RequeueEarly \/ SkipReady \/ LaunchGoroutines \/ ReceiveDrainError \/ WaitEnds \/ BatchDone
  <2>1. rotating \notin {"idle", "return"} /\ rotating' # "idle"
    BY <1>1, Zenon DEF RequeueEarly, SkipReady, LaunchGoroutines, ReceiveDrainError, WaitEnds, BatchDone
  <2>2. /\ UNCHANGED <<NodeInProcessing, Statistics, inProcessingNodes, nodeSteps, summed>>
        /\ UNCHANGED <<current, terminated>>
    BY <1>1, Zenon DEF RequeueEarly, SkipReady, LaunchGoroutines, ReceiveDrainError, WaitEnds, BatchDone
  <2>3. \A s \in Counts : Counted(s)' = Counted(s) /\ Left(s)' = Left(s)
    BY <2>2, Zenon DEF Counted, Left
  <2>4. RecordedHasLeft'
    BY <2>2, Zenon DEF CountInv
  <2> QED BY <2>1, <2>2, <2>3, <2>4, CountsKept, Zenon
<1>2. CASE AwaitReady
  <2>1. /\ rotating \notin {"idle", "return"} /\ rotating' # "idle" /\ DoNodeStep(batch, DesiredNodeReady)
        /\ UNCHANGED <<NodeInProcessing, Statistics, summed, current, terminated>>
    BY <1>2, Zenon DEF AwaitReady
  <2>2. /\ batch \in SUBSET Rotated /\ \A n \in batch : n \notin terminated
        /\ DesiredNodeReady \in Kickoff..PostTerminate
    BY DEF StepTypeOK, DesiredNodeReady, Kickoff, PostTerminate
  <2>3. RecordedHasLeft' /\ \A s \in Counts : Counted(s) \subseteq Counted(s)' /\ Left(s) \subseteq Left(s)'
    BY <1>0, <2>1, <2>2, Zenon
  <2> QED BY <2>1, <2>3, CountsKept, Zenon
<1>3. CASE TerminateInstance
  <2>1. PICK n \in batch : DoNodeStep({n}, Terminate) /\ (current' = n \/ current' = current)
                           /\ (terminated' = terminated \/ terminated' = terminated \cup {n})
    BY <1>3, Zenon DEF TerminateInstance
  <2>2. /\ rotating \notin {"idle", "return"} /\ rotating' # "idle"
        /\ UNCHANGED <<NodeInProcessing, Statistics, summed>>
    BY <1>3, Zenon DEF TerminateInstance
  <2>3. {n} \in SUBSET Rotated /\ n \notin terminated /\ Terminate \in Kickoff..PostTerminate
    BY DEF StepTypeOK, Terminate, Kickoff, PostTerminate
  <2>4. RecordedHasLeft' /\ \A s \in Counts : Counted(s) \subseteq Counted(s)' /\ Left(s) \subseteq Left(s)'
    BY <1>0, <2>1, <2>2, <2>3, Zenon
  <2> QED BY <2>2, <2>4, CountsKept, Zenon
<1>4. CASE RunPostTerminate
  <2>1. /\ rotating \notin {"idle", "return"} /\ rotating' # "idle" /\ DoNodeStep({current}, PostTerminate)
        /\ UNCHANGED <<NodeInProcessing, Statistics, summed, current, terminated>>
    BY <1>4, Zenon DEF RunPostTerminate
  <2>2. {current} \in SUBSET Rotated /\ PostTerminate \in Kickoff..PostTerminate
    BY <1>4 DEF RunPostTerminate, StepTypeOK, EntryInv, Kickoff, PostTerminate
  <2>3. RecordedHasLeft' /\ \A s \in Counts : Counted(s) \subseteq Counted(s)' /\ Left(s) \subseteq Left(s)'
    BY <1>0, <2>1, <2>2, Zenon
  <2> QED BY <2>1, <2>3, CountsKept, Zenon
<1>5. CASE CompleteNode
  <2>1. /\ rotating \notin {"idle", "return"} /\ rotating' # "idle" /\ current' = Nobody
        /\ UNCHANGED <<NodeInProcessing, Statistics, summed, terminated>>
    BY <1>5, Zenon DEF CompleteNode
  <2>2. /\ current \in terminated /\ inProcessingNodes[current] = PostTerminate
        /\ \A n \in Rotated \ {current} : inProcessingNodes'[n] = inProcessingNodes[n] /\ nodeSteps'[n] = nodeSteps[n]
        /\ nodeSteps'[current] = nodeSteps[current] \cup {PostTerminate, Terminated, Total}
    BY <1>5, Zenon DEF CompleteNode, DoNodeCompleted, StepTypeOK, EntryInv
  <2>3. RecordedHasLeft'
    BY <2>1, <2>2, Zenon DEF CountInv
  <2>4. ASSUME NEW s \in Counts PROVE Counted(s) \subseteq Counted(s)' /\ Left(s) \subseteq Left(s)'
    <3>1. Left(s)' = Left(s)
      BY <2>1, Zenon DEF Left
    <3>2. s \in Kickoff..Total
      BY DEF Counts, Steps, Kickoff, Terminated, Total
    <3>3. \A n \in Counted(s) : n \in Rotated /\ n # Nobody /\ s \notin nodeSteps'[n]
      BY <2>2, <3>2, StepMetricsAssumption DEF Counted, Left, PostTerminate, Kickoff, Terminated, Total
    <3> QED BY <2>1, <3>1, <3>3, Zenon DEF Counted
  <2> QED BY <2>1, <2>3, <2>4, CountsKept, Zenon
<1>6. ASSUME UNCHANGED <<NodeInProcessing, Statistics, inProcessingNodes, nodeSteps, summed, attached>>,
             UNCHANGED <<rotating, current, terminated>>
      PROVE  CountInv'
  BY <1>6, Zenon DEF CountInv, Counted, Left, LeftLocal
<1>7. ASSUME NEW n \in Rotated, GoroutineStep(n) PROVE CountInv'
  <2>1. UNCHANGED <<NodeInProcessing, Statistics, summed, attached, rotating, current, terminated>>
    BY <1>7, Zenon DEF GoroutineStep
  <2>2. CASE n \in orphaned
    BY <1>6, <1>7, <2>1, <2>2, Zenon DEF GoroutineStep
  <2>3. CASE n \notin orphaned
    <3>1. /\ rotating # "idle" /\ {n} \in SUBSET Rotated /\ n \notin terminated
          /\ goroutine[n] \in Kickoff..PostTerminate /\ DoNodeStep({n}, goroutine[n])
      BY <1>7, <2>3 DEF GoroutineStep, StepTypeOK, EntryInv, Own, None, PredrainScript, PostWait,
        Kickoff, PostTerminate
    <3>2. /\ RecordedHasLeft'
          /\ \A s \in Counts : /\ Counted(s) \subseteq Counted(s)' /\ Left(s) \subseteq Left(s)'
                               /\ LeftLocal(s) \subseteq LeftLocal(s)'
      BY <1>0, <2>1, <3>1, Zenon
    <3>3. CASE rotating # "return"
      BY <2>1, <3>1, <3>2, <3>3, CountsKept, Zenon
    <3>4. CASE rotating = "return"
      <4>1. ASSUME NEW s \in Counts
            PROVE  /\ Statistics'[s] <= Cardinality(Left(s)')
                   /\ summed[s] <= Cardinality(LeftLocal(s)) => summed'[s] <= Cardinality(LeftLocal(s)')
        <5>1. /\ Left(s)' \in SUBSET Rotated /\ Left(s) \in SUBSET Left(s)'
              /\ LeftLocal(s)' \in SUBSET Rotated /\ LeftLocal(s) \in SUBSET LeftLocal(s)'
          BY <3>2, Zenon DEF Left, LeftLocal
        <5>2. /\ Cardinality(Left(s)) \in Nat /\ Cardinality(Left(s)') \in Nat
              /\ Cardinality(Left(s)) <= Cardinality(Left(s)')
              /\ Cardinality(LeftLocal(s)) \in Nat /\ Cardinality(LeftLocal(s)') \in Nat
              /\ Cardinality(LeftLocal(s)) <= Cardinality(LeftLocal(s)')
          BY <5>1, NodeSets, Zenon
        <5>3. Statistics[s] \in Nat /\ summed[s] \in Nat /\ Statistics[s] <= Cardinality(Left(s))
          BY Zenon DEF StepTypeOK, CountInv
        <5> QED BY <2>1, <5>2, <5>3
      <4> QED BY <2>1, <3>2, <3>4, <4>1, Zenon DEF CountInv
    <3> QED BY <3>3, <3>4, Zenon
  <2> QED BY <2>2, <2>3, Zenon
<1>8. CASE StartBatch
  <2>1. /\ UNCHANGED <<NodeInProcessing, Statistics, current, terminated>> /\ nodeSteps' = NoSteps
        /\ summed' = Statistics' /\ rotating' = "batch" /\ current = Nobody
    BY <1>8, Zenon DEF StartBatch, EntryInv
  <2>2. \A n \in Rotated : nodeSteps'[n] = {} /\ n # current'
    BY <2>1, StepMetricsAssumption, Zenon DEF NoSteps
  <2>3. \A s \in Counts : Left(s)' = Left(s) /\ Counted(s)' = Left(s)
    BY <2>1, <2>2, Zenon DEF Left, Counted
  <2> QED BY <2>1, <2>2, <2>3, Zenon DEF CountInv
<1>9. CASE ReportMetrics
  <2>1. /\ UNCHANGED <<NodeInProcessing, Statistics, inProcessingNodes, nodeSteps, current, terminated>>
        /\ rotating = "metrics" /\ rotating' = "return" /\ attached'
        /\ \A s \in Counts : summed'[s] = summed[s] + Cardinality(Recorded(s))
    BY <1>9, Zenon DEF ReportMetrics, UpdateMetricsStatus, Recorded, Counts
  <2>2. ASSUME NEW s \in Counts PROVE summed'[s] <= Cardinality(LeftLocal(s))
    <3>1. /\ Recorded(s) \in SUBSET LeftLocal(s) /\ LeftLocal(s) \in SUBSET Rotated
          /\ Recorded(s) \cap Counted(s) = {}
      BY Zenon DEF CountInv, Recorded, LeftLocal, Counted
    <3>2. Counted(s) \in SUBSET LeftLocal(s)
      <4>1. \A n \in Rotated : NodeInProcessing[n] \in Nat /\ inProcessingNodes[n] \in Nat
        BY DEF StepTypeOK, PostTerminate
      <4>2. s \in Nat
        BY DEF Counts, Steps, Kickoff, Terminated, Total
      <4>3. ASSUME NEW n \in Counted(s) PROVE n \in LeftLocal(s)
        BY <2>1, <4>1, <4>2, <4>3 DEF EntryInv, Counted, Left, LeftLocal
      <4> QED BY <4>3, Zenon
    <3>3. Cardinality(Counted(s) \cup Recorded(s)) = Cardinality(Counted(s)) + Cardinality(Recorded(s))
      BY <3>1, <3>2, DisjointSets, Zenon
    <3>4. Cardinality(Counted(s) \cup Recorded(s)) <= Cardinality(LeftLocal(s))
          /\ Cardinality(LeftLocal(s)) \in Nat
          /\ Cardinality(Counted(s)) \in Nat /\ Cardinality(Recorded(s)) \in Nat
      BY <3>1, <3>2, NodeSets, Zenon
    <3>5. summed[s] = Statistics[s] /\ Statistics[s] \in Nat /\ Statistics[s] <= Cardinality(Counted(s))
      BY <2>1, Zenon DEF CountInv, StepTypeOK
    <3> QED BY <2>1, <3>3, <3>4, <3>5
  <2>3. \A s \in Counts : Left(s)' = Left(s) /\ LeftLocal(s)' = LeftLocal(s)
    BY <2>1, Zenon DEF Left, LeftLocal
  <2> QED BY <2>1, <2>2, <2>3, Zenon DEF CountInv
<1>10. CASE StoreStatus \/ StoreStatusFails \/ ProcessDies
  <2>1. rotating' = "idle" /\ nodeSteps' = NoSteps /\ UNCHANGED terminated
    BY <1>10, Zenon DEF StoreStatus, StoreStatusFails, ProcessDies, Leave
  <2>2. RecordedHasLeft'
    BY <2>1, Zenon DEF NoSteps
  <2>3. ASSUME NEW s \in Counts PROVE Statistics'[s] <= Cardinality(Left(s)')
    <3>1. CASE UNCHANGED statusVars
      BY <2>1, <3>1, Zenon DEF CountInv, Left
    <3>2. CASE StoreStatus /\ NodeInProcessing' = inProcessingNodes
      <4>1. Left(s)' = LeftLocal(s)
        BY <2>1, <3>2, Zenon DEF Left, LeftLocal
      <4>2. Left(s) \in SUBSET LeftLocal(s) /\ LeftLocal(s) \in SUBSET Rotated
        <5>1. \A n \in Rotated : NodeInProcessing[n] \in Nat /\ inProcessingNodes[n] \in Nat
          BY DEF StepTypeOK, PostTerminate
        <5>2. s \in Nat
          BY DEF Counts, Steps, Kickoff, Terminated, Total
        <5> QED BY <3>2, <5>1, <5>2 DEF StoreStatus, EntryInv, Left, LeftLocal
      <4>3. Cardinality(Left(s)) <= Cardinality(LeftLocal(s))
            /\ Cardinality(Left(s)) \in Nat /\ Cardinality(LeftLocal(s)) \in Nat
        BY <4>2, NodeSets, Zenon
      <4>4. /\ Statistics'[s] \in {Statistics[s], summed[s]} /\ Statistics[s] \in Nat /\ summed[s] \in Nat
            /\ Statistics[s] <= Cardinality(Left(s))
            /\ Statistics'[s] # Statistics[s] => summed[s] <= Cardinality(LeftLocal(s))
        BY <3>2, Zenon DEF StoreStatus, CountInv, StepTypeOK
      <4> QED BY <4>1, <4>3, <4>4
    <3>3. CASE StoreStatus /\ ~attached
      <4>1. UNCHANGED NodeInProcessing /\ Statistics' = Statistics
        BY <3>3, Zenon DEF StoreStatus, CountInv
      <4> QED BY <2>1, <4>1, Zenon DEF CountInv, Left
    <3> QED BY <1>10, <3>1, <3>2, <3>3, Zenon DEF StoreStatus, StoreStatusFails, ProcessDies
  <2> QED BY <2>1, <2>2, <2>3, Zenon DEF CountInv
<1>11. CASE UNCHANGED stepVars
  BY <1>6, <1>11, Zenon
<1> QED
  BY <1>1, <1>2, <1>3, <1>4, <1>5, <1>6, <1>7, <1>8, <1>9, <1>10, <1>11, Zenon DEF StepNext


\* Every step keeps TotalInv.
LEMMA TotalInvNext ==
  ASSUME StepTypeOK, EntryInv, CountInv, TotalInv, [StepNext]_stepVars, StepTypeOK', EntryInv', CountInv'
  PROVE  TotalInv'
<1> SUFFICES ASSUME mishaps' = 0 PROVE TotalInv'
  BY Zenon DEF TotalInv
<1> USE DEF Pass, statusVars, localVars, stepVars
<1> DEFINE Rest == {n \in terminated : Total \notin nodeSteps[n] /\ n # current}
<1>0. Counted(Total) = Rest /\ Counted(Total)' = Rest'
  <2>1. /\ \A n \in Rotated : NodeInProcessing[n] \in 0..PostTerminate /\ inProcessingNodes[n] \in 0..PostTerminate
        /\ terminated \subseteq Rotated
    BY Zenon DEF StepTypeOK
  <2>2. /\ \A n \in Rotated : NodeInProcessing'[n] \in 0..PostTerminate /\ inProcessingNodes'[n] \in 0..PostTerminate
        /\ terminated' \subseteq Rotated
    BY Zenon DEF StepTypeOK
  <2>3. Counted(Total) = Rest
    BY <2>1 DEF Counted, Left, PostTerminate, Total
  <2>4. Counted(Total)' = Rest'
    BY <2>2 DEF Counted, Left, PostTerminate, Total
  <2> QED BY <2>3, <2>4, Zenon
<1> DEFINE Entered == /\ \A n \in terminated : NodeInProcessing[n] = None \/ Total \in nodeSteps[n] \/ n = current
                      /\ rotating # "idle" => \A n \in terminated : inProcessingNodes[n] = None \/ n = current
                      /\ rotating \in {"idle", "batch", "launch", "wait"} => Recorded(Total) = {}
<1>1. ASSUME mishaps = 0, rotating \notin {"idle", "return"}, rotating' \notin {"idle", "return"},
             UNCHANGED Statistics, Rest' = Rest, Entered'
      PROVE  TotalInv'
  BY <1>0, <1>1, Zenon DEF TotalInv
<1>2. ASSUME UNCHANGED <<NodeInProcessing, Statistics, inProcessingNodes, nodeSteps, summed, attached>>,
             UNCHANGED <<rotating, current, terminated, mishaps>>
      PROVE  TotalInv'
  BY <1>2, Zenon DEF TotalInv, Counted, Left, Recorded
<1>3. CASE RequeueEarly \/ SkipReady \/ LaunchGoroutines \/ WaitEnds \/ BatchDone
  <2>1. /\ UNCHANGED <<NodeInProcessing, Statistics, inProcessingNodes, nodeSteps, summed, attached>>
        /\ UNCHANGED <<current, terminated, mishaps>>
    BY <1>3, Zenon DEF RequeueEarly, SkipReady, LaunchGoroutines, WaitEnds, BatchDone
  <2>2. /\ rotating \notin {"idle", "return"} /\ rotating' # "idle"
        /\ rotating' \in {"batch", "launch", "wait"} => rotating \in {"batch", "launch"}
        /\ rotating' = "return" => rotating = "batch"
    BY <1>3, Zenon DEF RequeueEarly, SkipReady, LaunchGoroutines, WaitEnds, BatchDone
  <2>3. Rest' = Rest /\ Entered'
    BY <2>1, <2>2, Zenon DEF TotalInv, Recorded
  <2>4. CASE rotating' # "return"
    BY <1>1, <2>1, <2>2, <2>3, <2>4, Zenon
  <2>5. CASE rotating' = "return"
    <3>1. current = Nobody /\ Recorded(Total) = {} /\ summed = Statistics
          /\ Statistics[Total] = Cardinality(Rest)
      BY <1>0, <2>1, <2>2, <2>5, Zenon DEF TotalInv, EntryInv, CountInv
    <3>2. Rest = terminated
      BY <3>1, StepMetricsAssumption, Zenon DEF Recorded, StepTypeOK
    <3>3. Recorded(Total)' = {}
      BY <2>1, <3>1, Zenon DEF Recorded
    <3> QED BY <2>1, <2>3, <2>5, <3>1, <3>2, <3>3, Zenon DEF TotalInv
  <2> QED BY <2>4, <2>5, Zenon
<1>4. ASSUME NEW S \in SUBSET Rotated, NEW step \in Kickoff..PostTerminate, DoNodeStep(S, step),
             rotating # "idle", rotating' # "idle", mishaps = 0, UNCHANGED NodeInProcessing,
             \A n \in S : n \notin terminated \/ n = current,
             \/ UNCHANGED <<current, terminated>>
             \/ /\ current = Nobody /\ current' \in Rotated \ terminated
                /\ terminated' = terminated \cup {current'},
             rotating' \in {"batch", "launch", "wait"} => rotating \in {"batch", "launch", "wait"}
      PROVE  Rest' = Rest /\ Entered' /\ Recorded(Total)' = Recorded(Total)
  <2>1. \A n \in Rotated : inProcessingNodes[n] \in 0..PostTerminate
    BY Zenon DEF StepTypeOK
  <2>2. /\ \A n \in Rotated \ S : inProcessingNodes'[n] = inProcessingNodes[n]
        /\ \A n \in Rotated : nodeSteps[n] \subseteq nodeSteps'[n]
        /\ \A n \in Rotated : \A s \in nodeSteps'[n] \ nodeSteps[n] : s = inProcessingNodes[n]
    BY <1>4, EntriesMove, Zenon
  <2>3. \A n \in Rotated : Total \in nodeSteps'[n] <=> Total \in nodeSteps[n]
    BY <2>1, <2>2 DEF Total, PostTerminate
  <2>4. Recorded(Total)' = Recorded(Total)
    BY <2>3, Zenon DEF Recorded
  <2>5. terminated \subseteq Rotated /\ Nobody \notin Rotated
    BY StepMetricsAssumption, Zenon DEF StepTypeOK
  <2>6. Rest' = Rest
    BY <1>4, <2>3, <2>5, Zenon
  <2>7. Entered'
    BY <1>4, <2>2, <2>3, <2>4, <2>5, Zenon DEF TotalInv
  <2> QED BY <2>4, <2>6, <2>7, Zenon
<1>5. CASE AwaitReady
  <2>1. /\ DoNodeStep(batch, DesiredNodeReady) /\ DesiredNodeReady \in Kickoff..PostTerminate
        /\ rotating = "batch" /\ rotating' \in {"launch", "metrics", "return"}
        /\ batch \in SUBSET Rotated /\ \A n \in batch : n \notin terminated
    BY <1>5 DEF AwaitReady, StepTypeOK, Kickoff, DesiredNodeReady, PostTerminate
  <2>2. UNCHANGED <<NodeInProcessing, Statistics, summed, current, terminated, mishaps>>
    BY <1>5, Zenon DEF AwaitReady
  <2>3. Rest' = Rest /\ Entered' /\ Recorded(Total)' = Recorded(Total)
    BY <1>4, <2>1, <2>2, Zenon
  <2>4. CASE rotating' # "return"
    BY <1>1, <2>1, <2>2, <2>3, <2>4, Zenon
  <2>5. CASE rotating' = "return"
    <3>1. current = Nobody /\ Recorded(Total) = {} /\ summed = Statistics
          /\ Statistics[Total] = Cardinality(Rest)
      BY <1>0, <2>1, <2>2, Zenon DEF TotalInv, EntryInv, CountInv
    <3>2. Rest = terminated
      BY <3>1, StepMetricsAssumption, Zenon DEF Recorded, StepTypeOK
    <3> QED BY <2>2, <2>3, <2>5, <3>1, <3>2, Zenon DEF TotalInv
  <2> QED BY <2>4, <2>5, Zenon
<1>6. CASE TerminateInstance
  <2>0. ~Mishap
    BY DEF Mishap, StepTypeOK
  <2>1. PICK n \in batch : /\ DoNodeStep({n}, Terminate) /\ rotating = "terminate" /\ rotating' = "post"
                           /\ current' = n /\ terminated' = terminated \cup {n} /\ mishaps' = mishaps
    BY <1>6, <2>0, Zenon DEF TerminateInstance
  <2>2. /\ {n} \in SUBSET Rotated /\ n \in Rotated \ terminated /\ current = Nobody
        /\ Terminate \in Kickoff..PostTerminate
    BY <2>1 DEF StepTypeOK, EntryInv, Terminate, Kickoff, PostTerminate
  <2>3. UNCHANGED <<NodeInProcessing, Statistics>>
    BY <1>6, Zenon DEF TerminateInstance
  <2> QED BY <1>1, <1>4, <2>1, <2>2, <2>3, Zenon
<1>7. CASE RunPostTerminate
  <2>1. /\ DoNodeStep({current}, PostTerminate) /\ rotating = "post" /\ rotating' = "complete"
        /\ UNCHANGED <<NodeInProcessing, Statistics, current, terminated, mishaps>>
    BY <1>7 DEF RunPostTerminate, Mishap, StepTypeOK
  <2>2. {current} \in SUBSET Rotated /\ PostTerminate \in Kickoff..PostTerminate
    BY <2>1 DEF StepTypeOK, EntryInv, Kickoff, PostTerminate
  <2> QED BY <1>1, <1>4, <2>1, <2>2, Zenon
<1>8. CASE CompleteNode
  <2>1. /\ rotating = "complete" /\ rotating' = "terminate" /\ current' = Nobody
        /\ UNCHANGED <<NodeInProcessing, Statistics, terminated, mishaps>>
    BY <1>8, Zenon DEF CompleteNode
  <2>2. /\ current \in terminated /\ inProcessingNodes'[current] = None
        /\ \A n \in Rotated \ {current} : inProcessingNodes'[n] = inProcessingNodes[n] /\ nodeSteps'[n] = nodeSteps[n]
        /\ Total \in nodeSteps'[current]
    BY <1>8, Zenon DEF CompleteNode, DoNodeCompleted, StepTypeOK, EntryInv
  <2>3. terminated \subseteq Rotated /\ Nobody \notin Rotated
    BY StepMetricsAssumption, Zenon DEF StepTypeOK
  <2>4. Rest' = Rest
    BY <2>1, <2>2, <2>3, Zenon
  <2>5. Entered'
    BY <2>1, <2>2, <2>3, Zenon DEF TotalInv
  <2> QED BY <1>1, <2>1, <2>4, <2>5, Zenon
<1>9. ASSUME NEW n \in Rotated, GoroutineStep(n) PROVE TotalInv'
  <2>1. UNCHANGED <<NodeInProcessing, Statistics, summed, attached, rotating, current, terminated, mishaps>>
    BY <1>9, Zenon DEF GoroutineStep
  <2>2. CASE n \in orphaned
    BY <1>2, <1>9, <2>1, <2>2, Zenon DEF GoroutineStep
  <2>3. CASE n \notin orphaned
    <3>1. /\ rotating # "idle" /\ {n} \in SUBSET Rotated /\ n \notin terminated
          /\ goroutine[n] \in Kickoff..PostTerminate /\ DoNodeStep({n}, goroutine[n])
      BY <1>9, <2>3 DEF GoroutineStep, StepTypeOK, EntryInv, Own, None, PredrainScript, PostWait,
        Kickoff, PostTerminate
    <3>2. Rest' = Rest /\ Entered' /\ Recorded(Total)' = Recorded(Total)
      BY <1>4, <2>1, <3>1, Zenon
    <3>3. CASE rotating # "return"
      BY <1>1, <2>1, <3>1, <3>2, <3>3, Zenon
    <3>4. CASE rotating = "return"
      BY <2>1, <3>2, <3>4, Zenon DEF TotalInv
    <3> QED BY <3>3, <3>4, Zenon
  <2> QED BY <2>2, <2>3, Zenon
<1>10. CASE StartBatch
  <2>1. /\ UNCHANGED <<NodeInProcessing, Statistics, current, terminated, mishaps>> /\ nodeSteps' = NoSteps
        /\ rotating = "idle" /\ rotating' = "batch" /\ current = Nobody
    BY <1>10, Zenon DEF StartBatch, EntryInv
  <2>2. terminated \subseteq Rotated /\ Nobody \notin Rotated /\ \A n \in Rotated : nodeSteps'[n] = {}
    BY <2>1, StepMetricsAssumption, Zenon DEF StepTypeOK, NoSteps
  <2>3. \A n \in terminated : NodeInProcessing[n] = None /\ inProcessingNodes'[n] = None
    BY <1>10, <2>1, <2>2, Zenon DEF TotalInv, Recorded, StartBatch
  <2>4. Rest' = terminated /\ Recorded(Total)' = {}
    BY <2>1, <2>2, Zenon DEF Recorded
  <2> QED BY <1>0, <2>1, <2>3, <2>4, Zenon DEF TotalInv
<1>11. CASE ReportMetrics
  <2>1. /\ UNCHANGED <<NodeInProcessing, inProcessingNodes, nodeSteps, current, terminated, mishaps>>
        /\ rotating = "metrics" /\ rotating' = "return" /\ attached' /\ current = Nobody
        /\ summed'[Total] = summed[Total] + Cardinality(Recorded(Total)) /\ summed = Statistics
    BY <1>11, Zenon DEF ReportMetrics, UpdateMetricsStatus, Recorded, EntryInv, CountInv
  <2>2. Recorded(Total) \subseteq terminated /\ terminated \subseteq Rotated /\ Nobody \notin Rotated
    <3>1. \A n \in Rotated : inProcessingNodes[n] \in 0..PostTerminate
      BY Zenon DEF StepTypeOK
    <3> QED BY <3>1, StepMetricsAssumption DEF CountInv, Recorded, StepTypeOK, Total, PostTerminate
  <2>3. Rest \cup Recorded(Total) = terminated /\ Recorded(Total) \cap Rest = {}
    BY <2>1, <2>2, Zenon DEF Recorded
  <2>4. Cardinality(terminated) = Cardinality(Rest) + Cardinality(Recorded(Total))
    <3>1. Rest \in SUBSET Rotated /\ Recorded(Total) \in SUBSET Rotated
      BY <2>2, Zenon
    <3> HIDE DEF Rest
    <3> QED BY <2>3, <3>1, DisjointSets, Zenon
  <2>5. Statistics[Total] = Cardinality(Rest)
    BY <1>0, <2>1, Zenon DEF TotalInv
  <2>6. Entered'
    BY <2>1, Zenon DEF TotalInv, Recorded
  <2> QED BY <2>1, <2>4, <2>5, <2>6, Zenon DEF TotalInv
<1>12. CASE StoreStatus
  <2>1. /\ rotating = "return" /\ rotating' = "idle" /\ nodeSteps' = NoSteps /\ Statistics' = summed
        /\ UNCHANGED <<terminated, mishaps>>
    BY <1>12, Zenon DEF StoreStatus, Leave
  <2>2. Recorded(Total)' = {}
    BY <2>1, Zenon DEF Recorded, NoSteps
  <2>3. /\ current = Nobody /\ summed[Total] = Cardinality(terminated)
        /\ attached \/ Recorded(Total) = {}
    BY <2>1, Zenon DEF TotalInv
  <2>4. \A n \in terminated : NodeInProcessing'[n] = None
    <3>1. terminated \subseteq Rotated /\ Nobody \notin Rotated
      BY StepMetricsAssumption, Zenon DEF StepTypeOK
    <3>2. CASE attached
      BY <1>12, <2>1, <2>3, <3>1, <3>2, Zenon DEF StoreStatus, TotalInv
    <3>3. CASE ~attached
      BY <1>12, <2>1, <2>3, <3>1, <3>3, Zenon DEF StoreStatus, TotalInv, Recorded
    <3> QED BY <3>2, <3>3, Zenon
  <2> QED BY <2>1, <2>2, <2>3, <2>4, Zenon DEF TotalInv
<1>13. CASE ReceiveDrainError \/ StoreStatusFails \/ ProcessDies
  BY <1>13 DEF ReceiveDrainError, StoreStatusFails, ProcessDies, Mishap, StepTypeOK
<1>14. CASE UNCHANGED stepVars
  BY <1>2, <1>14, Zenon
<1> QED
  BY <1>3, <1>5, <1>6, <1>7, <1>8, <1>9, <1>10, <1>11, <1>12, <1>13, <1>14, Zenon DEF StepNext

--------------------------------------------------------------------------------
\* The invariants hold in every reachable state.
LEMMA StepInvariant == StepSpec => [](StepTypeOK /\ EntryInv /\ CountInv /\ TotalInv)
<1>1. StepInit => StepTypeOK /\ EntryInv /\ CountInv /\ TotalInv
  <2> SUFFICES ASSUME StepInit PROVE StepTypeOK /\ EntryInv /\ CountInv /\ TotalInv
    BY Zenon
  <2>1. StepTypeOK /\ EntryInv
    <3>1. /\ NodeInProcessing \in [Rotated -> 0..PostTerminate] /\ inProcessingNodes \in [Rotated -> 0..PostTerminate]
          /\ goroutine \in [Rotated -> {None}]
      BY DEF StepInit, NoEntries, None, PostTerminate
    <3>2. nodeSteps \in [Rotated -> SUBSET Counts]
      BY Zenon DEF StepInit, NoSteps
    <3>3. Statistics \in [Counts -> Nat] /\ summed \in [Counts -> Nat] /\ attached \in BOOLEAN
      BY Zenon DEF StepInit, Counts
    <3>4. StepTypeOK
      BY <3>1, <3>2, <3>3, Zenon DEF StepInit, StepTypeOK
    <3> QED BY <3>1, <3>4, Zenon DEF StepInit, EntryInv, Own
  <2>2. \A s \in Counts : Left(s) \in SUBSET Rotated /\ Statistics[s] = 0 /\ Cardinality(Left(s)) \in Nat
    BY NodeSets, Zenon DEF StepInit, Counts, Left
  <2>3. CountInv
    BY <2>2 DEF StepInit, CountInv, NoSteps
  <2>4. TotalInv
    BY FS_EmptySet, Zenon DEF StepInit, TotalInv, Recorded, NoSteps, Steps, Total
  <2> QED BY <2>1, <2>3, <2>4, Zenon
<1>2. StepTypeOK /\ EntryInv /\ CountInv /\ TotalInv /\ [StepNext]_stepVars
        => (StepTypeOK /\ EntryInv /\ CountInv /\ TotalInv)'
  BY EntryInvNext, CountInvNext, TotalInvNext, Zenon
<1> QED BY <1>1, <1>2, PTL DEF StepSpec

\* DoNodeStep never has to insert an entry from a drain goroutine: its node was
\* kicked off in the same map, and no reconcile drops an entry while one of its
\* goroutines is left.
THEOREM GoroutinesFindTheirEntries == StepSpec => []GoroutineFindsItsEntry
<1>1. StepTypeOK /\ EntryInv => GoroutineFindsItsEntry
  BY Zenon DEF StepTypeOK, EntryInv, Own, GoroutineFindsItsEntry
<1> QED BY <1>1, StepInvariant, PTL

\* DoNodeStep and the deferred status update: across reconciles that time out,
\* fail or lose their status, the stored step of a node never goes back.
THEOREM StoredStepsAdvance == StepSpec => StepsRunInOrder
<1>1. StepTypeOK /\ EntryInv /\ [StepNext]_stepVars
        => [\A n \in Rotated : NodeInProcessing'[n] # None => NodeInProcessing'[n] >= NodeInProcessing[n]]_stepVars
  <2> SUFFICES ASSUME StepTypeOK, EntryInv, StepNext,
                      NEW n \in Rotated, NodeInProcessing'[n] # None
               PROVE  NodeInProcessing'[n] >= NodeInProcessing[n]
    BY Zenon
  <2>1. NodeInProcessing[n] \in Nat /\ inProcessingNodes[n] \in Nat
    BY DEF StepTypeOK, PostTerminate
  <2>2. CASE NodeInProcessing' = NodeInProcessing
    BY <2>1, <2>2
  <2>3. CASE NodeInProcessing' # NodeInProcessing
    <3>1. StoreStatus
      BY <2>3, Zenon DEF StepNext, statusVars, StartBatch, RequeueEarly, AwaitReady, SkipReady,
        LaunchGoroutines,
        ReceiveDrainError, WaitEnds, TerminateInstance, RunPostTerminate, CompleteNode, BatchDone,
        ReportMetrics, StoreStatusFails, ProcessDies, GoroutineStep
    <3>2. rotating = "return" /\ NodeInProcessing'[n] = inProcessingNodes[n]
      BY <2>3, <3>1, Zenon DEF StoreStatus, Pass
    <3> QED BY <2>1, <3>2, Zenon DEF EntryInv
  <2> QED BY <2>2, <2>3, Zenon
<1> QED BY <1>1, StepInvariant, PTL DEF StepSpec, StepsRunInOrder

\* AddNodeStepDuration and UpdateMetricsStatus: for any number of nodes, batches,
\* timeouts and lost updates, a step counts no node twice and none that is
\* still in it, and the total counts terminated nodes only.
THEOREM NodesCountedOnce == StepSpec => []CountedOnce
<1>1. StepTypeOK /\ CountInv => CountedOnce
  <2> SUFFICES ASSUME StepTypeOK, CountInv PROVE CountedOnce
    BY Zenon
  <2>1. \A s \in Steps : Statistics[s] <= Cardinality(Left(s))
    BY Zenon DEF CountInv, Counts
  <2>2. Left(Total) = terminated
    <3>1. terminated \subseteq Rotated /\ \A n \in Rotated : NodeInProcessing[n] \in 0..PostTerminate
      BY Zenon DEF StepTypeOK
    <3> QED BY <3>1 DEF Left, Total, PostTerminate
  <2>3. Statistics[Total] <= Cardinality(terminated)
    BY <2>2, Zenon DEF CountInv, Counts
  <2> QED BY <2>1, <2>3, Zenon DEF CountedOnce, Left
<1> QED BY <1>1, StepInvariant, PTL

\* As long as nothing fails, whatever timed out before, the total is the number
\* of terminated nodes and no entry of one is left behind.
THEOREM TerminationsAreCounted == StepSpec => []TerminatedIsCounted
<1>1. StepTypeOK /\ EntryInv /\ TotalInv => TerminatedIsCounted
  BY StepMetricsAssumption, Zenon DEF StepTypeOK, EntryInv, TotalInv, TerminatedIsCounted, Recorded
<1> QED BY <1>1, StepInvariant, PTL
=============================================================================
