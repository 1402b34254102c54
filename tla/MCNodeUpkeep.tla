------------------------------ MODULE MCNodeUpkeep ------------------------------
(***************************************************************************)
(* The parts that share no state with each other: a behaviour is one of    *)
(* EarlyCordon, of StepMetrics, of TargetSelection or of Drift.            *)
(***************************************************************************)
EXTENDS EarlyCordon, StepMetrics, TargetSelection, Drift, TLC

CONSTANTS n1, n2, n3

AllNodes == {n1, n2, n3}
TwoNodes == {n1, n2}

\* Both types with every form and values about the boundaries of Validate and of the
\* capacity; other types, the mode and the drain timeout with one of them.
MCStrategies ==
  [type : Types, mode : {"lazy"}, form : Forms, value : {-1, 0, 1, 2, 34, 100, 101},
   drainTimeout : {Unset}]
  \cup [type : Types \cup Spelled \cup {""}, mode : {"lazy"}, form : {"int"}, value : {1},
        drainTimeout : {Unset}]
  \cup [type : {"randomUpdate"}, mode : Modes \cup Spelled \cup {""}, form : {"int"}, value : {1},
        drainTimeout : {Unset, -2, -1, 0, 1}]

VARIABLE part  \* the part a behaviour is about

upkeepVars == <<part, cordonVars, stepVars, selectVars, driftVars>>

\* The other parts stay in one of their initial states.
UpkeepInit ==
  /\ part \in {"cordon", "steps", "selection", "drift"}
  /\ CordonInit /\ (part # "cordon" => unschedulable = {})
  /\ StepInit
  /\ SelectInit
  /\ part # "selection" =>
       /\ strategy = CHOOSE s \in Strategies : TRUE
       /\ totalNodes = 0 /\ inprogress = [z \in Zones |-> 0] /\ targets = [z \in Zones |-> 0]
  /\ DriftInit
  /\ part # "drift" =>
       /\ latest = [t \in Names |-> NoVersion] /\ ~forceRefresh
       /\ launches = CHOOSE g \in GroupConfigs(latest) : TRUE

UpkeepNext ==
  \/ part = "cordon" /\ CordonNext /\ UNCHANGED <<part, stepVars, selectVars, driftVars>>
  \/ part = "steps" /\ StepNext /\ UNCHANGED <<part, cordonVars, selectVars, driftVars>>
  \/ part = "selection" /\ SelectNext /\ UNCHANGED <<part, cordonVars, stepVars, driftVars>>
  \/ part = "drift" /\ DriftNext /\ UNCHANGED <<part, cordonVars, stepVars, selectVars>>

UpkeepSpec == UpkeepInit /\ [][UpkeepNext]_upkeepVars

Alike == Permutations(TwoNodes)
================================================================================
