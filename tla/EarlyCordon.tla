------------------------------- MODULE EarlyCordon -------------------------------
(***************************************************************************)
(* --early-cordon-nodes: a reconcile cordons and annotates every drifted   *)
(* node of its scaling group before it rotates a batch; when the upgrade   *)
(* completes or fails, the nodes that carry the annotation are uncordoned. *)
(* What a reconcile knows of a node is the object in ClusterNodesMap: it   *)
(* is the same object for every reconcile until an event evicts it, a      *)
(* cordon sets its flag, and only a refill of the empty map renews it.     *)
(* Every change of a node and every heartbeat of its kubelet is an event.  *)
(*                                                                         *)
(* One upgrade, the nodes of its group and the other nodes of the cluster. *)
(***************************************************************************)
EXTENDS Naturals

CONSTANTS
  Nodes,             \* the nodes of the cluster
  NoNode,            \* no node at hand
  GroupNodes,        \* those of the upgrade's scaling group
  EarlyCordonNodes,  \* --early-cordon-nodes
  MaxFailures,       \* how many calls conflict, fail or are cut off
  MaxEvents          \* how many template changes, users' cordons and resubmissions

ASSUME EarlyCordonAssumption ==
  /\ GroupNodes \subseteq Nodes /\ NoNode \notin Nodes
  /\ EarlyCordonNodes \in BOOLEAN
  /\ MaxFailures \in Nat /\ MaxEvents \in Nat

VARIABLES
  unschedulable, annotated,   \* the nodes, as the API server has them
  cachedUnschedulable, cachedAnnotated,  \* the controller's node objects
  ClusterNodes,               \* the nodes in ClusterNodesMap
  mine,                       \* the nodes the reconcile was given
  serving, drifted,           \* the scaling group
  tagged,                     \* its nodes with the in-progress tag
  phase,                      \* status.currentStatus
  at,                         \* where the reconcile is
  pass, again,                \* this call of CordonUncordonAllNodes, and one more
  todo, node, attempt, final, \* its loop over the nodes, and the node at hand
  processed, errors,          \* processedCount > 0 and errorCount > 0
  failures, events,
  foreign, unseen             \* for the properties: nodes that somebody else cordoned, and
                              \* those of them of which the controller held an older object

serverVars == <<unschedulable, annotated>>
cacheVars  == <<cachedUnschedulable, cachedAnnotated>>
groupVars  == <<serving, drifted, tagged>>
passVars   == <<pass, again, todo, processed, errors>>
nodeVars   == <<node, attempt, final>>
userVars   == <<foreign, unseen>>
bounds     == <<failures, events>>
cordonVars == <<serverVars, cacheVars, ClusterNodes, mine, groupVars, phase, at,
                passVars, nodeVars, userVars, bounds>>

maxRetries == 3

\* Some nodes may have been cordoned by hand before the upgrade.
CordonInit ==
  /\ unschedulable \in SUBSET GroupNodes /\ foreign = unschedulable /\ unseen = {}
  /\ annotated = {} /\ cachedUnschedulable = {} /\ cachedAnnotated = {}
  /\ ClusterNodes = {} /\ mine = {}
  /\ serving = GroupNodes /\ drifted = GroupNodes /\ tagged = {}
  /\ phase = "running" /\ at = "idle"
  /\ pass = "cordon" /\ again = FALSE /\ todo = {} /\ processed = FALSE /\ errors = FALSE
  /\ node = NoNode /\ attempt = 1 /\ final = "cached"
  /\ failures = 0 /\ events = 0

\* A call that meets a conflict, fails, or whose answer is lost; something that
\* happens beside the controller.
Fault ==
  /\ failures < MaxFailures
  /\ failures' = failures + 1
  /\ UNCHANGED events

Event ==
  /\ events < MaxEvents
  /\ events' = events + 1
  /\ UNCHANGED failures

--------------------------------------------------------------------------------
(***************************************************************************)
(* Reconcile and RotateNodes, around the calls of CordonUncordonAllNodes.  *)
(***************************************************************************)
Joined == (Nodes \ GroupNodes) \cup serving

BeginRotation ==
  LET refill == ClusterNodes = {} IN
  /\ at = "idle" /\ phase = "running"
  /\ at' = "discover"
  /\ ClusterNodes' = IF refill THEN Joined ELSE ClusterNodes
  /\ cachedUnschedulable' = IF refill THEN unschedulable ELSE cachedUnschedulable
  /\ cachedAnnotated' = IF refill THEN annotated ELSE cachedAnnotated
  /\ mine' = IF refill THEN Joined ELSE ClusterNodes
  /\ UNCHANGED <<serverVars, groupVars, phase, passVars, nodeVars, userVars, bounds>>

\* Mutant: whoever cordoned a node, it is uncordoned.
EveryCordonedNode(cordon) ==
  {n \in serving \cap mine :
     IF cordon THEN n \in drifted /\ n \notin cachedUnschedulable ELSE n \in cachedUnschedulable}

\* The nodes CordonUncordonAllNodes does not skip, by the cached objects.
Candidates(cordon) ==
  {n \in serving \cap mine :
     IF cordon THEN n \in drifted /\ n \notin cachedUnschedulable ELSE n \in cachedAnnotated}

StartPass(cordon, repeat) ==
  /\ at' = "pass"
  /\ pass' = IF cordon THEN "cordon" ELSE "uncordon"
  /\ again' = repeat
  /\ todo' = Candidates(cordon)
  /\ processed' = FALSE /\ errors' = FALSE

\* RotateNodes returned an error: "try to uncordon all the cordoned nodes."
RotationFails == phase' = "error" /\ StartPass(FALSE, FALSE)

DiscoverDrifted ==
  /\ at = "discover" /\ serving \cap drifted # {}
  /\ IF EarlyCordonNodes THEN StartPass(TRUE, FALSE) ELSE at' = "batch" /\ UNCHANGED passVars
  /\ UNCHANGED <<serverVars, cacheVars, ClusterNodes, mine, groupVars, phase, nodeVars, userVars, bounds>>

DiscoverRotated ==
  /\ at = "discover" /\ serving \cap drifted = {}
  /\ phase' = "completed"
  /\ IF EarlyCordonNodes THEN StartPass(FALSE, FALSE) ELSE at' = "idle" /\ UNCHANGED passVars
  /\ UNCHANGED <<serverVars, cacheVars, ClusterNodes, mine, groupVars, nodeVars, userVars, bounds>>

\* A failed discovery is cleaned up by RotateNodes and by Reconcile.  Without
\* the scaling groups neither has a node to go through.
DiscoveryFails ==
  /\ at = "discover"
  /\ phase' = "error"
  /\ StartPass(FALSE, EarlyCordonNodes) \/ (at' = "idle" /\ UNCHANGED passVars)
  /\ Fault
  /\ UNCHANGED <<serverVars, cacheVars, ClusterNodes, mine, groupVars, nodeVars, userVars>>

\* The end of a call: it failed if it only met errors.
EndPass ==
  /\ at = "pass" /\ todo = {}
  /\ CASE pass = "cordon" /\ errors /\ ~processed -> RotationFails
       [] pass = "cordon" /\ ~(errors /\ ~processed) -> at' = "batch" /\ UNCHANGED <<phase, passVars>>
       [] pass = "uncordon" /\ again -> StartPass(FALSE, FALSE) /\ UNCHANGED phase
       [] pass = "uncordon" /\ ~again -> at' = "idle" /\ UNCHANGED <<phase, passVars>>
  /\ UNCHANGED <<serverVars, cacheVars, ClusterNodes, mine, groupVars, nodeVars, userVars, bounds>>

\* RunCordonOrUncordon(true) on the cached object of n: nothing if the object
\* is unschedulable already.
RunCordon(n) ==
  /\ unschedulable' = IF n \in cachedUnschedulable THEN unschedulable ELSE unschedulable \cup {n}
  /\ cachedUnschedulable' = cachedUnschedulable \cup {n}
  /\ UNCHANGED <<annotated, cachedAnnotated>>

\* The rest of ReplaceNodeBatch, for a batch of drifted nodes and of nodes tagged
\* before, drifted or not: it drains them, terminates some, or fails, be it in the
\* cordon of a drain.  A tag without a node is removed.
RotateBatch ==
  /\ at = "batch"
  /\ \E B \in SUBSET (serving \cap mine \cap (drifted \cup tagged)) \ {{}} :
       /\ tagged' = (tagged \cap mine) \cup B
       /\ cachedUnschedulable' = cachedUnschedulable \cup B
       /\ \/ /\ unschedulable' = unschedulable \cup (B \ cachedUnschedulable)
             /\ \E gone \in SUBSET B : serving' = serving \ gone
             /\ at' = "idle" /\ UNCHANGED <<phase, passVars>>
          \/ /\ \E sent \in SUBSET (B \ cachedUnschedulable) : unschedulable' = unschedulable \cup sent
             /\ RotationFails /\ UNCHANGED serving
  /\ UNCHANGED <<annotated, cachedAnnotated, ClusterNodes, mine, drifted, nodeVars, userVars, bounds>>

RequeueBatch ==
  /\ at = "batch"
  /\ at' = "idle"
  /\ UNCHANGED <<serverVars, cacheVars, ClusterNodes, mine, groupVars, phase, passVars, nodeVars, userVars, bounds>>

--------------------------------------------------------------------------------
(***************************************************************************)
(* One node.  A Get and the Update of what it returned are one step: had   *)
(* the node changed in between, the Update would meet a conflict.          *)
(***************************************************************************)
Goto(from, to) ==
  /\ at = from /\ at' = to
  /\ UNCHANGED <<pass, again, todo, processed, errors>>

PickNode ==
  /\ at = "pass"
  /\ \E n \in todo : node' = n /\ todo' = todo \ {n}
  /\ at' = IF pass = "cordon" THEN "cordon" ELSE "unannotate"
  /\ UNCHANGED <<serverVars, cacheVars, ClusterNodes, mine, groupVars, phase, pass, again,
                 processed, errors, attempt, final, userVars, bounds>>

NodeDone(from, ok) ==
  /\ at = from /\ at' = "pass"
  /\ processed' = (processed \/ ok) /\ errors' = (errors \/ ~ok)
  /\ node' = NoNode /\ attempt' = 1 /\ final' = "cached"
  /\ UNCHANGED <<pass, again, todo>>

rotationVars == <<ClusterNodes, mine, groupVars, phase, userVars>>

\* cordonAndAnnotateNode
CordonNode ==
  /\ Goto("cordon", "annotate")
  /\ RunCordon(node)
  /\ UNCHANGED <<rotationVars, nodeVars, bounds>>

\* The flag of the cached object is set even if the patch fails.
CordonNodeFails ==
  /\ NodeDone("cordon", FALSE)
  /\ RunCordon(node) \/ (cachedUnschedulable' = cachedUnschedulable \cup {node}
                         /\ UNCHANGED <<serverVars, cachedAnnotated>>)
  /\ Fault
  /\ UNCHANGED rotationVars

Annotate ==
  /\ NodeDone("annotate", TRUE)
  /\ annotated' = annotated \cup {node}
  /\ UNCHANGED <<unschedulable, cacheVars, rotationVars, bounds>>

\* Mutant: one attempt too many.
AnnotateRetriedOnceMore ==
  /\ attempt <= maxRetries
  /\ Goto("annotate", "annotate")
  /\ attempt' = attempt + 1
  /\ Fault
  /\ UNCHANGED <<serverVars, cacheVars, rotationVars, node, final>>

AnnotateRetried ==
  /\ attempt < maxRetries
  /\ Goto("annotate", "annotate")
  /\ attempt' = attempt + 1
  /\ Fault
  /\ UNCHANGED <<serverVars, cacheVars, rotationVars, node, final>>

\* Mutant: the rollback uncordons the node but leaves an annotation behind.
AnnotateFailsKeepingIt ==
  /\ Goto("annotate", "uncordon")
  /\ annotated' \in {annotated, annotated \cup {node}}
  /\ Fault
  /\ UNCHANGED <<unschedulable, cacheVars, rotationVars, nodeVars>>

\* The rollback works on the object that was to be stored, with its annotation.
AnnotateFails ==
  /\ Goto("annotate", "unannotate")
  /\ attempt' = 1
  /\ annotated' \in {annotated, annotated \cup {node}}
  /\ Fault
  /\ UNCHANGED <<unschedulable, cacheVars, rotationVars, node, final>>

\* Without a node to annotate, the rollback works on the cached object.
GetNodeFails ==
  /\ attempt = maxRetries
  /\ Goto("annotate", IF node \in cachedAnnotated THEN "unannotate" ELSE "uncordon")
  /\ attempt' = 1
  /\ Fault
  /\ UNCHANGED <<serverVars, cacheVars, rotationVars, node, final>>

\* uncordonAndRemoveAnnotation, of a clean-up or of a rollback: the second
\* leaves an error in any case.
Unannotate ==
  /\ Goto("unannotate", "uncordon")
  /\ annotated' = annotated \ {node}
  /\ final' = IF node \in unschedulable THEN "unschedulable" ELSE "schedulable"
  /\ UNCHANGED <<unschedulable, cacheVars, rotationVars, node, attempt, bounds>>

UnannotateRetried ==
  /\ attempt < maxRetries
  /\ Goto("unannotate", "unannotate")
  /\ attempt' = attempt + 1
  /\ Fault
  /\ UNCHANGED <<serverVars, cacheVars, rotationVars, node, final>>

\* Mutant: the failure is not counted.
UnannotateFailsUnnoticed ==
  /\ NodeDone("unannotate", TRUE)
  /\ annotated' \in {annotated, annotated \ {node}}
  /\ Fault
  /\ UNCHANGED <<unschedulable, cacheVars, rotationVars>>

UnannotateFails ==
  /\ NodeDone("unannotate", FALSE)
  /\ annotated' \in {annotated, annotated \ {node}}
  /\ Fault
  /\ UNCHANGED <<unschedulable, cacheVars, rotationVars>>

\* RunCordonOrUncordon(false), on the object that Update returned or the cached one.
Patched == final = "unschedulable" \/ (final = "cached" /\ node \in cachedUnschedulable)

RunUncordon(sent) ==
  /\ unschedulable' = IF sent THEN unschedulable \ {node} ELSE unschedulable
  /\ cachedUnschedulable' = IF final = "cached" THEN cachedUnschedulable \ {node} ELSE cachedUnschedulable
  /\ UNCHANGED <<annotated, cachedAnnotated>>

UncordonNode ==
  /\ NodeDone("uncordon", pass = "uncordon")
  /\ RunUncordon(Patched)
  /\ UNCHANGED <<rotationVars, bounds>>

UncordonNodeFails ==
  /\ Patched
  /\ NodeDone("uncordon", FALSE)
  /\ \E sent \in BOOLEAN : RunUncordon(sent)
  /\ Fault
  /\ UNCHANGED rotationVars

--------------------------------------------------------------------------------
(***************************************************************************)
(* Beside the reconcile: a restart, node events, other templates, users.   *)
(***************************************************************************)
ControllerRestarts ==
  /\ Fault
  /\ at' = "idle" /\ ClusterNodes' = {} /\ mine' = {} /\ cachedUnschedulable' = {} /\ cachedAnnotated' = {}
  /\ pass' = "cordon" /\ again' = FALSE /\ todo' = {} /\ processed' = FALSE /\ errors' = FALSE
  /\ node' = NoNode /\ attempt' = 1 /\ final' = "cached"
  /\ UNCHANGED <<serverVars, groupVars, phase, userVars>>

\* A node event: the map loses the node, the reconcile keeps the object.  Events come
\* at any time, be it for the controller's own patches and updates or for a heartbeat.
NodeEvicted ==
  /\ \E n \in ClusterNodes : ClusterNodes' = ClusterNodes \ {n}
  /\ UNCHANGED <<serverVars, cacheVars, mine, groupVars, phase, at, passVars, nodeVars, userVars, bounds>>

\* A reconcile goes by what it discovered: a change beside it is one after it.
TemplateChanges ==
  /\ Event
  /\ at = "idle"
  /\ drifted' \in SUBSET GroupNodes
  /\ UNCHANGED <<serverVars, cacheVars, ClusterNodes, mine, serving, tagged, phase, at, passVars, nodeVars, userVars>>

\* The nodes the controller holds an object of.
Held == ClusterNodes \cup (IF at = "idle" THEN {} ELSE mine)

\* Somebody cordons a node, at any time.
UserCordons ==
  /\ Event
  /\ \E n \in serving \ unschedulable :
       /\ unschedulable' = unschedulable \cup {n}
       /\ foreign' = foreign \cup {n}
       /\ unseen' = IF n \in Held THEN unseen \cup {n} ELSE unseen \ {n}
  /\ UNCHANGED <<annotated, cacheVars, ClusterNodes, mine, groupVars, phase, at, passVars, nodeVars>>

\* The upgrade is submitted again.
UpgradeResubmitted ==
  /\ Event
  /\ at = "idle" /\ phase # "running"
  /\ phase' = "running"
  /\ UNCHANGED <<serverVars, cacheVars, ClusterNodes, mine, groupVars, at, passVars, nodeVars, userVars>>

CordonNext ==
  \/ BeginRotation \/ DiscoverDrifted \/ DiscoverRotated \/ DiscoveryFails
  \/ EndPass \/ RotateBatch \/ RequeueBatch
  \/ PickNode \/ CordonNode \/ CordonNodeFails
  \/ Annotate \/ AnnotateRetried \/ AnnotateFails \/ GetNodeFails
  \/ Unannotate \/ UnannotateRetried \/ UnannotateFails \/ UncordonNode \/ UncordonNodeFails
  \/ ControllerRestarts \/ NodeEvicted \/ TemplateChanges \/ UserCordons \/ UpgradeResubmitted

CordonSpec == CordonInit /\ [][CordonNext]_cordonVars

--------------------------------------------------------------------------------
(***************************************************************************)
(* Properties.                                                             *)
(***************************************************************************)

\* The types of the variables.
CordonTypeOK ==
  /\ unschedulable \in SUBSET Nodes /\ annotated \in SUBSET Nodes
  /\ cachedUnschedulable \in SUBSET Nodes /\ cachedAnnotated \in SUBSET Nodes
  /\ ClusterNodes \in SUBSET Nodes /\ mine \in SUBSET Nodes
  /\ serving \in SUBSET GroupNodes /\ drifted \in SUBSET GroupNodes
  /\ phase \in {"running", "completed", "error"}
  /\ at \in {"idle", "discover", "batch", "pass", "cordon", "annotate", "unannotate", "uncordon"}
  /\ pass \in {"cordon", "uncordon"} /\ again \in BOOLEAN
  /\ todo \in SUBSET Nodes /\ processed \in BOOLEAN /\ errors \in BOOLEAN
  /\ node \in Nodes \cup {NoNode} /\ attempt \in 1..maxRetries
  /\ final \in {"cached", "unschedulable", "schedulable"}
  /\ tagged \in SUBSET GroupNodes /\ foreign \in SUBSET Nodes /\ unseen \in SUBSET foreign
  /\ failures \in 0..MaxFailures /\ events \in 0..MaxEvents

\* The annotation tells the truth: whatever calls fail, conflict or lose their
\* answer, and wherever the process dies, an annotated node is cordoned.
AnnotatedIsCordoned == annotated \subseteq unschedulable

\* "Only uncordon nodes that we cordoned (have our annotation)": a node that
\* somebody else cordoned while the controller held no object of it is not uncordoned
\* by a clean-up or a rollback.  A cordon that is not in the object the controller
\* holds is lost: the node is cordoned again, annotated and later uncordoned.
ForeignCordonKept == foreign \ unseen \subseteq unschedulable

\* "uncordon operation completed": a clean-up that counted no error leaves no node
\* whose object has the annotation annotated or cordoned, unless somebody else has
\* cordoned it, whatever conflicts, retries and evictions it went through.
CleanUpComplete ==
  at = "pass" /\ pass = "uncordon" /\ todo = {} /\ ~errors =>
    \A n \in serving \cap mine \cap cachedAnnotated :
      n \notin annotated /\ (n \in unschedulable => n \in foreign)

\* "When cordonNode is false we uncordon all nodes that were previously cordoned by
\* upgrade-manager": when an upgrade has ended, no node of its group is cordoned
\* except by somebody else.
AllUncordonedInTheEnd ==
  at = "idle" /\ phase # "running" => serving \cap unschedulable \subseteq foreign
================================================================================
