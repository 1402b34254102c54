-------------------------------- MODULE DrainGate --------------------------------
(***************************************************************************)
(* What the drain manager of an upgrade promises, without tags, nodes,     *)
(* contexts or clocks: draining and terminating take turns.  The drain     *)
(* goroutines of an upgrade start together, only when none is left and not *)
(* while it terminates; they are a batch of its own group; they end one by *)
(* one; and an instance leaves its group only while its own upgrade        *)
(* terminates, that is with no drain of the group under way.               *)
(***************************************************************************)
CONSTANTS
  Upgrades, Instances,
  Group,    \* the upgrade that owns an instance's scaling group
  Batches   \* the sets of instances that may be drained together

VARIABLES
  running,      \* the drain goroutines of each upgrade
  terminating,  \* the upgrades that are in their termination loop
  gone          \* the instances that have been told to terminate

vars == <<running, terminating, gone>>

Init ==
  /\ running = [u \in Upgrades |-> {}]
  /\ terminating = {}
  /\ gone = {}

Start(u) ==
  /\ u \notin terminating /\ running[u] = {}
  /\ \E B \in Batches :
       /\ \A i \in B : Group[i] = u
       /\ running' = [running EXCEPT ![u] = B]
  /\ UNCHANGED <<terminating, gone>>

Finish(u) ==
  /\ \E i \in running[u] : running' = [running EXCEPT ![u] = @ \ {i}]
  /\ UNCHANGED <<terminating, gone>>

Open(u) ==
  /\ running[u] = {}
  /\ terminating' = terminating \cup {u}
  /\ UNCHANGED <<running, gone>>

Terminate(u) ==
  /\ u \in terminating
  /\ \E i \in Instances : Group[i] = u /\ gone' = gone \cup {i}
  /\ UNCHANGED <<running, terminating>>

Close(u) ==
  /\ terminating' = terminating \ {u}
  /\ UNCHANGED <<running, gone>>

\* The process dies with its goroutines; the instances do not come back.
Restart ==
  /\ running' = [u \in Upgrades |-> {}]
  /\ terminating' = {}
  /\ UNCHANGED gone

Next ==
  \/ \E u \in Upgrades : Start(u) \/ Finish(u) \/ Open(u) \/ Terminate(u) \/ Close(u)
  \/ Restart

Spec == Init /\ [][Next]_vars
================================================================================
