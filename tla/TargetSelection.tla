----------------------------- MODULE TargetSelection -----------------------------
(***************************************************************************)
(* From an upgrade's strategy to one batch: Validate accepts the strategy  *)
(* and fills in its defaults, CalculateMaxUnavailable turns maxUnavailable *)
(* into a number of nodes, and SelectTargets puts the targets in order,    *)
(* in-progress ones first, and cuts the batch off.                         *)
(*                                                                         *)
(* A target is told apart by its zone only.                                *)
(***************************************************************************)
EXTENDS Integers, Functions

CONSTANTS
  Zones,         \* the availability zones of the group
  Strategies,    \* spec.strategy, as submitted
  Unset,         \* a field that is not given
  MaxCapacity,   \* how large desiredCapacity may be
  MaxTargets,    \* how many unprocessed targets a zone may have
  MaxInProgress  \* how many targets of a zone may be in progress

Types == {"randomUpdate", "uniformAcrossAzUpdate"}
Modes == {"lazy", "eager"}

\* A value Validate knows in other capitals, and one it does not know.
Spelled == {"otherCase", "unknown"}

\* maxUnavailable: an integer, "50%" or "%50", or "50".  GetValueFromIntOrPercent
\* takes out every "%", Validate those at the ends.
Forms == {"int", "percent", "digits"}

ASSUME SelectionAssumption ==
  MaxCapacity \in Nat /\ MaxTargets \in Nat /\ MaxInProgress \in Nat

ASSUME StrategiesAssumption ==
  Strategies \subseteq
    [type : Types \cup Spelled \cup {""}, mode : Modes \cup Spelled \cup {""},
     form : Forms, value : Int, drainTimeout : Int \cup {Unset}]

\* Targets are counted: true of every finite set of zones.
ASSUME CountAssumption ==
  /\ \A f \in [Zones -> 0..MaxTargets] : SumFunction(f) \in Nat
  /\ \A f \in [Zones -> 0..MaxInProgress] : SumFunction(f) \in Nat

VARIABLES
  strategy,        \* spec.strategy
  totalNodes,      \* the group's desiredCapacity
  targets,         \* the unprocessed targets of each zone
  inprogress,      \* the targets of each zone that are in progress
  stage,           \* "submitted", "rejected", "accepted", "ordering", "selected"
  unavailableInt,  \* the size of a batch
  popped, visited, \* targets taken from each zone, zones visited in this round
  ordered,         \* len(uniformAZTargets)
  chosen,          \* the unprocessed targets of each zone in the batch, if uniform
  batchLen         \* the length of the batch

inputVars  == <<totalNodes, targets, inprogress>>
orderVars  == <<popped, visited, ordered, chosen>>
selectVars == <<strategy, inputVars, stage, unavailableInt, orderVars, batchLen>>

SelectInit ==
  /\ strategy \in Strategies
  /\ totalNodes \in 0..MaxCapacity
  /\ targets \in [Zones -> 0..MaxTargets]
  /\ inprogress \in [Zones -> 0..MaxInProgress]
  /\ stage = "submitted" /\ unavailableInt = 0
  /\ popped = [z \in Zones |-> 0] /\ visited = {} /\ ordered = 0
  /\ chosen = [z \in Zones |-> 0] /\ batchLen = 0

--------------------------------------------------------------------------------
(***************************************************************************)
(* Validate                                                                *)
(***************************************************************************)
Accepted(s) ==
  /\ s.type # "unknown" /\ s.mode # "unknown"
  /\ IF s.form = "int" THEN s.value >= 0 ELSE s.value \in 1..100
  /\ s.drainTimeout # Unset => s.drainTimeout >= -1

Defaulted(s) ==
  [s EXCEPT !.type = IF @ = "" THEN "randomUpdate" ELSE @,
            !.mode = IF @ = "" THEN "lazy" ELSE @,
            !.value = IF s.form = "int" /\ @ = 0 THEN 1 ELSE @,
            !.drainTimeout = IF @ = 0 THEN -1 ELSE @]

Validate ==
  /\ stage = "submitted"
  /\ IF Accepted(strategy)
     THEN stage' = "accepted" /\ strategy' = Defaulted(strategy)
     ELSE stage' = "rejected" /\ UNCHANGED strategy
  /\ UNCHANGED <<inputVars, unavailableInt, orderVars, batchLen>>

--------------------------------------------------------------------------------
(***************************************************************************)
(* SelectTargets                                                           *)
(***************************************************************************)
Least(a, b) == IF a < b THEN a ELSE b

\* Mutant: a percentage is rounded down.
CalculateRoundedDown(s, total) ==
  LET asked == CASE s.form \in {"int", "digits"} -> s.value
                 [] s.form = "percent" -> (s.value * total) \div 100
      atMost == Least(asked, total)
  IN  IF atMost = 0 THEN 1 ELSE atMost

\* Mutant: a batch may be of no node.
CalculateMaybeNone(s, total) ==
  LET asked == CASE s.form \in {"int", "digits"} -> s.value
                 [] s.form = "percent" -> (s.value * total + 99) \div 100
  IN  Least(asked, total)

\* A percentage is rounded up.
CalculateMaxUnavailable(s, total) ==
  LET asked == CASE s.form \in {"int", "digits"} -> s.value
                 [] s.form = "percent" -> (s.value * total + 99) \div 100
      atMost == Least(asked, total)
  IN  IF atMost = 0 THEN 1 ELSE atMost

BatchOf(size, final) ==
  /\ stage' = "selected"
  /\ batchLen' = Least(size, final)

Unprocessed == SumFunction(targets)

Underway == SumFunction(inprogress)

\* A type in other capitals matches neither strategy: no target is final.
SelectTargets ==
  /\ stage = "accepted"
  /\ unavailableInt' = CalculateMaxUnavailable(strategy, totalNodes)
  /\ CASE strategy.type = "randomUpdate" -> BatchOf(unavailableInt', Underway + Unprocessed)
       [] strategy.type = "uniformAcrossAzUpdate" -> stage' = "ordering" /\ UNCHANGED batchLen
       [] strategy.type \notin Types -> BatchOf(unavailableInt', 0)
  /\ UNCHANGED <<strategy, inputVars, orderVars>>

\* Mutant: a zone may come twice in a round.
VisitAgain(z) ==
  /\ stage = "ordering"
  /\ visited # {} \/ ordered # Unprocessed
  /\ visited' = visited \cup {z}
  /\ IF popped[z] < targets[z]
     THEN /\ popped' = [popped EXCEPT ![z] = @ + 1]
          /\ ordered' = ordered + 1
          /\ chosen' = IF Underway + ordered < unavailableInt THEN popped' ELSE chosen
     ELSE UNCHANGED <<popped, ordered, chosen>>
  /\ UNCHANGED <<strategy, inputVars, stage, unavailableInt, batchLen>>

\* One zone of a round over targetsByAZMap, in any order: its last target, if it
\* has one, comes next.  The targets in progress come first, whatever their zones;
\* the batch is what comes before its end.
Visit(z) ==
  /\ stage = "ordering" /\ z \notin visited
  /\ visited # {} \/ ordered # Unprocessed
  /\ visited' = visited \cup {z}
  /\ IF popped[z] < targets[z]
     THEN /\ popped' = [popped EXCEPT ![z] = @ + 1]
          /\ ordered' = ordered + 1
          /\ chosen' = IF Underway + ordered < unavailableInt THEN popped' ELSE chosen
     ELSE UNCHANGED <<popped, ordered, chosen>>
  /\ UNCHANGED <<strategy, inputVars, stage, unavailableInt, batchLen>>

NextRound ==
  /\ stage = "ordering" /\ visited = Zones /\ Zones # {}
  /\ visited' = {}
  /\ UNCHANGED <<strategy, inputVars, stage, unavailableInt, popped, ordered, chosen, batchLen>>

CutBatch ==
  /\ stage = "ordering" /\ visited = {} /\ ordered = Unprocessed
  /\ BatchOf(unavailableInt, Underway + ordered)
  /\ UNCHANGED <<strategy, inputVars, unavailableInt, orderVars>>

SelectNext == Validate \/ SelectTargets \/ (\E z \in Zones : Visit(z)) \/ NextRound \/ CutBatch

SelectSpec == SelectInit /\ [][SelectNext]_selectVars

--------------------------------------------------------------------------------
(***************************************************************************)
(* Properties.                                                             *)
(***************************************************************************)

\* "round-robin across the AZs with targets uniformly first and then best effort
\* with remaining": wherever the batch is cut off and in whatever order the zones
\* were visited, of the targets the batch adds to those in progress no zone gives two
\* more than a zone that has some left.  The targets in progress are not balanced:
\* with one of zone a, a batch of two may be of a twice while b has a target left.
UniformAcrossZones ==
  \A y, z \in Zones : chosen[y] < targets[y] => chosen[z] <= chosen[y] + 1

\* Strategies Validate accepts lead to a batch as long as there are targets, and to
\* one no larger than the group, whatever the capacity, form and value are.  A type
\* in other capitals is accepted too and selects nothing.
AcceptedSelects ==
  stage = "selected" /\ strategy.type \in Types =>
    /\ batchLen <= unavailableInt
    /\ Underway + Unprocessed > 0 => batchLen \in 1..(IF totalNodes = 0 THEN 1 ELSE totalNodes)

\* "batch size should be atleast 1": a percentage of the group is the least number
\* of nodes that reaches it, and never none.
ShareReached ==
  stage = "selected" /\ strategy.form = "percent" =>
    \A k \in 1..(unavailableInt + 1) :
      (k >= unavailableInt) <=> (100 * k >= strategy.value * totalNodes)
================================================================================
