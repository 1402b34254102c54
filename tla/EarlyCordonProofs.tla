---------------------------- MODULE EarlyCordonProofs ----------------------------
(***************************************************************************)
(* What early cordoning keeps to, for any cluster, any number of failures  *)
(* and any number of events.                                               *)
(*                                                                         *)
(* CordonInv strengthens AnnotatedIsCordoned and ForeignCordonKept: the    *)
(* node objects a reconcile goes by may be stale, but in one direction     *)
(* only.  A node that carries the annotation is cached as cordoned, and so *)
(* is one that somebody else cordoned unless an older object of it was     *)
(* held; it is never cached as annotated.                                  *)
(* CleanUpInv strengthens CleanUpComplete: of the nodes cached as          *)
(* annotated, a clean-up without an error has still to do, has at hand or  *)
(* has uncordoned each one.                                                *)
(***************************************************************************)
EXTENDS EarlyCordon, TLAPS

Handling == at \in {"cordon", "annotate", "unannotate", "uncordon"}
InPass   == at = "pass" \/ Handling

SeenCordoned(n) == n \in cachedUnschedulable /\ n \notin cachedAnnotated

Seen == foreign \ unseen

CordonInv ==
  /\ pass \in {"cordon", "uncordon"}
  /\ AnnotatedIsCordoned
  /\ ForeignCordonKept
  /\ \A n \in Seen : n \notin annotated
  /\ at # "idle" \/ ClusterNodes # {} => annotated \subseteq cachedUnschedulable
  /\ \A n \in Seen : n \in ClusterNodes => SeenCordoned(n)
  /\ at # "idle" => \A n \in Seen : n \in mine => SeenCordoned(n)
  /\ InPass => todo \subseteq mine /\ \A n \in todo : n \notin Seen
  /\ InPass /\ pass = "cordon" => \A n \in todo : n \notin cachedUnschedulable
  /\ Handling => node \in mine /\ node \notin Seen /\ node \notin todo
  /\ at = "cordon" => pass = "cordon" /\ node \notin cachedUnschedulable
  /\ at = "annotate" => pass = "cordon" /\ node \in unschedulable /\ node \in cachedUnschedulable
                        /\ node \notin annotated
  /\ at = "uncordon" => node \notin annotated

Uncordoned(n) == n \notin annotated /\ (n \in unschedulable => n \in foreign)

CleanUpInv ==
  InPass /\ pass = "uncordon" =>
    /\ at \in {"pass", "unannotate", "uncordon"}
    /\ at = "uncordon" => /\ final \in {"unschedulable", "schedulable"}
                          /\ final = "schedulable" /\ node \in unschedulable => node \in foreign
    /\ ~errors => \A n \in serving \cap mine \cap cachedAnnotated :
                    n \in todo \/ (Handling /\ n = node) \/ Uncordoned(n)

\* Every step of a reconcile, of its environment or of a failure keeps CordonInv.
LEMMA CordonInvNext == CordonInv /\ [CordonNext]_cordonVars => CordonInv'
<1> SUFFICES ASSUME CordonInv, [CordonNext]_cordonVars
             PROVE  CordonInv'
  OBVIOUS
<1> USE DEF CordonInv, AnnotatedIsCordoned, ForeignCordonKept, InPass, Handling, SeenCordoned, Seen,
           cordonVars, serverVars, cacheVars, groupVars, passVars, nodeVars, userVars, bounds, rotationVars
<1>1. CASE BeginRotation
  BY <1>1 DEF BeginRotation, Joined
<1>2. CASE DiscoverDrifted
  BY <1>2 DEF DiscoverDrifted, StartPass, Candidates
<1>3. CASE DiscoverRotated
  BY <1>3 DEF DiscoverRotated, StartPass, Candidates
<1>4. CASE DiscoveryFails
  BY <1>4 DEF DiscoveryFails, StartPass, Candidates, Fault
<1>5. CASE EndPass
  <2>1. CASE pass = "cordon" /\ errors /\ ~processed
    BY <1>5, <2>1 DEF EndPass, RotationFails, StartPass, Candidates
  <2>2. CASE pass = "cordon" /\ ~(errors /\ ~processed)
    BY <1>5, <2>2 DEF EndPass
  <2>3. CASE pass = "uncordon" /\ again
    BY <1>5, <2>3 DEF EndPass, StartPass, Candidates
  <2>4. CASE pass = "uncordon" /\ ~again
    BY <1>5, <2>4 DEF EndPass
  <2> QED BY <2>1, <2>2, <2>3, <2>4
<1>6. CASE RotateBatch
  <2>1. CASE RotationFails
    BY <1>6, <2>1 DEF RotateBatch, RotationFails, StartPass, Candidates
  <2>2. CASE at' = "idle"
    BY <1>6, <2>2 DEF RotateBatch, RotationFails, StartPass
  <2> QED BY <1>6, <2>1, <2>2 DEF RotateBatch
<1>7. CASE RequeueBatch
  BY <1>7 DEF RequeueBatch
<1>8. CASE PickNode
  BY <1>8 DEF PickNode
<1>9. CASE CordonNode
  BY <1>9 DEF CordonNode, Goto, RunCordon
<1>10. CASE CordonNodeFails
  BY <1>10 DEF CordonNodeFails, NodeDone, RunCordon, Fault
<1>11. CASE Annotate
  BY <1>11 DEF Annotate, NodeDone
<1>12. CASE AnnotateRetried
  BY <1>12 DEF AnnotateRetried, Goto, Fault
<1>13. CASE AnnotateFails
  BY <1>13 DEF AnnotateFails, Goto, Fault
<1>14. CASE GetNodeFails
  BY <1>14 DEF GetNodeFails, Goto, Fault
<1>15. CASE Unannotate
  BY <1>15 DEF Unannotate, Goto
<1>16. CASE UnannotateRetried
  BY <1>16 DEF UnannotateRetried, Goto, Fault
<1>17. CASE UnannotateFails
  BY <1>17 DEF UnannotateFails, NodeDone, Fault
<1>18. CASE UncordonNode
  BY <1>18 DEF UncordonNode, NodeDone, RunUncordon, Patched
<1>19. CASE UncordonNodeFails
  BY <1>19 DEF UncordonNodeFails, NodeDone, RunUncordon, Fault
<1>20. CASE ControllerRestarts
  BY <1>20 DEF ControllerRestarts, Fault
<1>21. CASE NodeEvicted
  BY <1>21 DEF NodeEvicted
<1>22. CASE TemplateChanges
  BY <1>22 DEF TemplateChanges, Event
<1>23. CASE UserCordons
  BY <1>23 DEF UserCordons, Held, Event
<1>24. CASE UpgradeResubmitted
  BY <1>24 DEF UpgradeResubmitted, Event
<1>25. CASE UNCHANGED cordonVars
  BY <1>25
<1> QED BY <1>1, <1>2, <1>3, <1>4, <1>5, <1>6, <1>7, <1>8, <1>9, <1>10, <1>11, <1>12, <1>13, <1>14,
  <1>15, <1>16, <1>17, <1>18, <1>19, <1>20, <1>21, <1>22, <1>23, <1>24, <1>25, Zenon DEF CordonNext

\* And CleanUpInv.
LEMMA CleanUpInvNext == CordonInv /\ CleanUpInv /\ [CordonNext]_cordonVars => CleanUpInv'
<1> SUFFICES ASSUME CordonInv, CleanUpInv, [CordonNext]_cordonVars
             PROVE  CleanUpInv'
  OBVIOUS
<1> USE DEF CordonInv, CleanUpInv, Uncordoned, AnnotatedIsCordoned, InPass, Handling,
           cordonVars, serverVars, cacheVars, groupVars, passVars, nodeVars, userVars, bounds, rotationVars
<1>1. CASE BeginRotation
  BY <1>1 DEF BeginRotation, Joined
<1>2. CASE DiscoverDrifted
  BY <1>2 DEF DiscoverDrifted, StartPass, Candidates
<1>3. CASE DiscoverRotated
  BY <1>3 DEF DiscoverRotated, StartPass, Candidates
<1>4. CASE DiscoveryFails
  BY <1>4 DEF DiscoveryFails, StartPass, Candidates, Fault
<1>5. CASE EndPass
  <2>1. CASE pass = "cordon" /\ errors /\ ~processed
    BY <1>5, <2>1 DEF EndPass, RotationFails, StartPass, Candidates
  <2>2. CASE pass = "cordon" /\ ~(errors /\ ~processed)
    BY <1>5, <2>2 DEF EndPass
  <2>3. CASE pass = "uncordon" /\ again
    BY <1>5, <2>3 DEF EndPass, StartPass, Candidates
  <2>4. CASE pass = "uncordon" /\ ~again
    BY <1>5, <2>4 DEF EndPass
  <2> QED BY <2>1, <2>2, <2>3, <2>4
<1>6. CASE RotateBatch
  <2>1. CASE RotationFails
    BY <1>6, <2>1 DEF RotateBatch, RotationFails, StartPass, Candidates
  <2>2. CASE at' = "idle"
    BY <1>6, <2>2 DEF RotateBatch, RotationFails, StartPass
  <2> QED BY <1>6, <2>1, <2>2 DEF RotateBatch
<1>7. CASE RequeueBatch
  BY <1>7 DEF RequeueBatch
<1>8. CASE PickNode
  BY <1>8 DEF PickNode
<1>9. CASE CordonNode
  BY <1>9 DEF CordonNode, Goto, RunCordon
<1>10. CASE CordonNodeFails
  BY <1>10 DEF CordonNodeFails, NodeDone, RunCordon, Fault
<1>11. CASE Annotate
  BY <1>11 DEF Annotate, NodeDone
<1>12. CASE AnnotateRetried
  BY <1>12 DEF AnnotateRetried, Goto, Fault
<1>13. CASE AnnotateFails
  BY <1>13 DEF AnnotateFails, Goto, Fault
<1>14. CASE GetNodeFails
  BY <1>14 DEF GetNodeFails, Goto, Fault
<1>15. CASE Unannotate
  BY <1>15 DEF Unannotate, Goto
<1>16. CASE UnannotateRetried
  BY <1>16 DEF UnannotateRetried, Goto, Fault
<1>17. CASE UnannotateFails
  BY <1>17 DEF UnannotateFails, NodeDone, Fault
<1>18. CASE UncordonNode
  BY <1>18 DEF UncordonNode, NodeDone, RunUncordon, Patched
<1>19. CASE UncordonNodeFails
  BY <1>19 DEF UncordonNodeFails, NodeDone, RunUncordon, Fault
<1>20. CASE ControllerRestarts
  BY <1>20 DEF ControllerRestarts, Fault
<1>21. CASE NodeEvicted
  BY <1>21 DEF NodeEvicted
<1>22. CASE TemplateChanges
  BY <1>22 DEF TemplateChanges, Event
<1>23. CASE UserCordons
  BY <1>23 DEF UserCordons, Held, Event
<1>24. CASE UpgradeResubmitted
  BY <1>24 DEF UpgradeResubmitted, Event
<1>25. CASE UNCHANGED cordonVars
  BY <1>25
<1> QED BY <1>1, <1>2, <1>3, <1>4, <1>5, <1>6, <1>7, <1>8, <1>9, <1>10, <1>11, <1>12, <1>13, <1>14,
  <1>15, <1>16, <1>17, <1>18, <1>19, <1>20, <1>21, <1>22, <1>23, <1>24, <1>25 DEF CordonNext

\* Both hold in every reachable state.
LEMMA CordonInvHolds == CordonSpec => [](CordonInv /\ CleanUpInv)
<1>1. CordonInit => CordonInv /\ CleanUpInv
  BY DEF CordonInit, CordonInv, CleanUpInv, AnnotatedIsCordoned, ForeignCordonKept, InPass, Handling,
    SeenCordoned, Seen
<1> QED BY <1>1, CordonInvNext, CleanUpInvNext, PTL DEF CordonSpec

\* cordonAndAnnotateNode and uncordonAndRemoveAnnotation: in whatever step a call
\* fails, conflicts or is cut off, an annotated node is a cordoned one.
THEOREM AnnotationTellsTheTruth == CordonSpec => []AnnotatedIsCordoned
<1>1. CordonInv => AnnotatedIsCordoned
  BY DEF CordonInv
<1> QED BY <1>1, CordonInvHolds, PTL

\* CordonUncordonAllNodes: however stale the node objects are, a node that somebody
\* else cordoned while the controller held no object of it is not uncordoned.  One
\* that is cordoned behind an object the controller holds may be.
THEOREM ForeignCordonSurvives == CordonSpec => []ForeignCordonKept
<1>1. CordonInv => ForeignCordonKept
  BY DEF CordonInv
<1> QED BY <1>1, CordonInvHolds, PTL

\* uncordonAndRemoveAnnotation, over the nodes of a group: for any cluster, and any
\* number of conflicts, failures and events, a clean-up without an error has taken
\* annotation and cordon off every node whose object showed the annotation.
THEOREM CleanUpsAreComplete == CordonSpec => []CleanUpComplete
<1>1. CleanUpInv => CleanUpComplete
  BY DEF CleanUpInv, CleanUpComplete, InPass, Handling, Uncordoned
<1> QED BY <1>1, CordonInvHolds, PTL

\* The types hold in every reachable state, for all constants: what is cordoned,
\* annotated or uncordoned is always a node of the cluster.
THEOREM CordonTypesKept == CordonSpec => []CordonTypeOK
<1> DEFINE NodeAtHand == Handling => node \in Nodes
           TypeInv == CordonTypeOK /\ NodeAtHand
<1>1. CordonInit => TypeInv
  <2> SUFFICES ASSUME CordonInit PROVE TypeInv
    OBVIOUS
  <2>1. attempt \in 1..maxRetries /\ failures \in 0..MaxFailures /\ events \in 0..MaxEvents
    BY EarlyCordonAssumption DEF CordonInit, maxRetries
  <2> QED BY <2>1, EarlyCordonAssumption, Zenon DEF CordonInit, CordonTypeOK, Handling
<1>2. TypeInv /\ [CordonNext]_cordonVars => TypeInv'
  <2> SUFFICES ASSUME TypeInv, [CordonNext]_cordonVars
               PROVE  TypeInv'
    OBVIOUS
  <2> USE EarlyCordonAssumption DEF CordonTypeOK, Handling, maxRetries,
             cordonVars, serverVars, cacheVars, groupVars, passVars, nodeVars, userVars, bounds, rotationVars
  <2>0. Fault => failures' \in 0..MaxFailures /\ events' \in 0..MaxEvents
    BY DEF Fault
  <2>1. CASE BeginRotation
    BY <2>1 DEF BeginRotation, Joined
  <2>2. CASE DiscoverDrifted
    BY <2>2, Zenon DEF DiscoverDrifted, StartPass, Candidates
  <2>3. CASE DiscoverRotated
    BY <2>3, Zenon DEF DiscoverRotated, StartPass, Candidates
  <2>4. CASE DiscoveryFails
    BY <2>0, <2>4, Zenon DEF DiscoveryFails, StartPass, Candidates
  <2>5. CASE EndPass
    <3>1. CASE pass = "cordon" /\ errors /\ ~processed
      BY <2>5, <3>1, Zenon DEF EndPass, RotationFails, StartPass, Candidates
    <3>2. CASE pass = "cordon" /\ ~(errors /\ ~processed)
      BY <2>5, <3>2 DEF EndPass
    <3>3. CASE pass = "uncordon" /\ again
      BY <2>5, <3>3, Zenon DEF EndPass, StartPass, Candidates
    <3>4. CASE pass = "uncordon" /\ ~again
      BY <2>5, <3>4 DEF EndPass
    <3> QED BY <3>1, <3>2, <3>3, <3>4
  <2>6. CASE RotateBatch
    <3>1. CASE RotationFails
      BY <2>6, <3>1, Zenon DEF RotateBatch, RotationFails, StartPass, Candidates
    <3>2. CASE at' = "idle"
      BY <2>6, <3>2 DEF RotateBatch, RotationFails, StartPass
    <3> QED BY <2>6, <3>1, <3>2 DEF RotateBatch
  <2>7. CASE RequeueBatch
    BY <2>7 DEF RequeueBatch
  <2>8. CASE PickNode
    BY <2>8 DEF PickNode
  <2>9. CASE CordonNode
    BY <2>9 DEF CordonNode, Goto, RunCordon
  <2>10. CASE CordonNodeFails
    BY <2>10 DEF CordonNodeFails, NodeDone, RunCordon, Fault
  <2>11. CASE Annotate
    BY <2>11 DEF Annotate, NodeDone
  <2>12. CASE AnnotateRetried
    BY <2>0, <2>12 DEF AnnotateRetried, Goto
  <2>13. CASE AnnotateFails
    BY <2>0, <2>13 DEF AnnotateFails, Goto
  <2>14. CASE GetNodeFails
    BY <2>14 DEF GetNodeFails, Goto, Fault
  <2>15. CASE Unannotate
    BY <2>15 DEF Unannotate, Goto
  <2>16. CASE UnannotateRetried
    BY <2>16 DEF UnannotateRetried, Goto, Fault
  <2>17. CASE UnannotateFails
    BY <2>17 DEF UnannotateFails, NodeDone, Fault
  <2>18. CASE UncordonNode
    BY <2>18 DEF UncordonNode, NodeDone, RunUncordon, Patched
  <2>19. CASE UncordonNodeFails
    BY <2>19 DEF UncordonNodeFails, NodeDone, RunUncordon, Fault
  <2>20. CASE ControllerRestarts
    <3>1. attempt' \in 1..maxRetries /\ at' = "idle"
      BY <2>20 DEF ControllerRestarts
    <3> QED BY <2>0, <2>20, <3>1, Zenon DEF ControllerRestarts
  <2>21. CASE NodeEvicted
    BY <2>21 DEF NodeEvicted
  <2>22. CASE TemplateChanges
    BY <2>22 DEF TemplateChanges, Event
  <2>23. CASE UserCordons
    BY <2>23 DEF UserCordons, Held, Event
  <2>24. CASE UpgradeResubmitted
    BY <2>24 DEF UpgradeResubmitted, Event
  <2>25. CASE UNCHANGED cordonVars
    BY <2>25
  <2> QED BY <2>1, <2>2, <2>3, <2>4, <2>5, <2>6, <2>7, <2>8, <2>9, <2>10, <2>11, <2>12, <2>13, <2>14,
    <2>15, <2>16, <2>17, <2>18, <2>19, <2>20, <2>21, <2>22, <2>23, <2>24, <2>25, Zenon DEF CordonNext
<1> QED BY <1>1, <1>2, PTL DEF CordonSpec
================================================================================
