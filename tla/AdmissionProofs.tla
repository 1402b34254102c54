---------------------------- MODULE AdmissionProofs ----------------------------
(***************************************************************************)
(* What module Admission promises for any number of resources, scaling     *)
(* groups and workers, and any number of restarts, failures and edits.     *)
(***************************************************************************)
EXTENDS Admission, TLAPS

\* The copy a reconcile works on names a scaling group.
CopyIsLoaded == \A c \in CRs : pc[c] # "idle" => ru[c].asg \in ASGs

\* A copy that the API server still accepts is of a resource that exists and
\* has not ended, and it is not behind the stored status.
FreshCopyIsAhead ==
  \A c \in CRs : pc[c] \notin {"idle", "patch"} /\ ru[c].fresh =>
    /\ c \in live
    /\ status[c] \notin FiniteStates
    /\ Rank[status[c]] <= Rank[ru[c].status]

AdmissionInv ==
  /\ TypeOK
  /\ CopyIsLoaded
  /\ RotatingIsAdmitted
  /\ ReconcileMapIsExact
  /\ FreshCopyIsAhead

--------------------------------------------------------------------------------
(***************************************************************************)
(* Types.                                                                  *)
(***************************************************************************)

\* The variables start with their types.
LEMMA TypeInit == Init => TypeOK
  BY ConstantsAssumption DEF Init, TypeOK, NoRU, Copies, Statuses, PCs, None

\* Edits and deletions leave a running reconcile with a copy that is stale.
LEMMA StaleCopy ==
  ASSUME NEW f \in [CRs -> Copies], NEW c \in CRs
  PROVE  [f EXCEPT ![c].fresh = FALSE] \in [CRs -> Copies]
<1>1. f[c] \in Copies
  OBVIOUS
<1>2. [f[c] EXCEPT !.fresh = FALSE] \in Copies
  BY <1>1, Zenon DEF Copies
<1>3. QED
  BY <1>2

\* The status of a copy is set.
LEMMA CopyWithStatus ==
  ASSUME NEW f \in [CRs -> Copies], NEW c \in CRs, NEW s \in Statuses
  PROVE  [f EXCEPT ![c].status = s] \in [CRs -> Copies]
<1>1. f[c] \in Copies
  OBVIOUS
<1>2. [f[c] EXCEPT !.status = s] \in Copies
  BY <1>1, Zenon DEF Copies
<1>3. QED
  BY <1>2

\* Every action keeps the types of the variables.
LEMMA TypeNext == TypeOK /\ [Next]_vars => TypeOK'
<1> SUFFICES ASSUME TypeOK, [Next]_vars PROVE TypeOK'
  OBVIOUS
<1> USE ConstantsAssumption DEF TypeOK, apiVars, mapVars, Statuses, PCs,
      None, Init_, Running, Completed, Error
<1>1. ASSUME NEW c \in CRs, Reconcile(c) PROVE TypeOK'
  <2>1. CASE ReleaseDeleted(c)
    BY <2>1 DEF ReleaseDeleted
  <2>2. CASE ReleaseFinished(c)
    BY <2>2 DEF ReleaseFinished
  <2>3. CASE Start(c)
    BY <2>3 DEF Start, Copies, Goto
  <2>4. CASE CheckEmpty(c)
    BY <2>4 DEF CheckEmpty, Goto
  <2>5. CASE ListRunning(c)
    BY <2>5 DEF ListRunning, Goto, RunningCRs
  <2>6. CASE ListFails(c)
    BY <2>6 DEF ListFails, Goto, Disrupt
  <2>7. CASE StoreRecovered(c)
    BY <2>7 DEF StoreRecovered, Goto
  <2>8. CASE CheckASG(c)
    BY <2>8 DEF CheckASG, Goto
  <2>9. CASE CheckLimit(c) \/ CheckAdmitted(c)
    BY <2>9 DEF CheckLimit, CheckAdmitted, Goto
  <2>10. CASE Admit(c)
    BY <2>10 DEF Admit, Goto, Copies
  <2>11. CASE Populate(c)
    <3>1. ru' \in [CRs -> Copies]
      BY <2>11, CopyWithStatus, Zenon DEF Populate
    <3>2. QED
      BY <2>11, <3>1 DEF Populate, Goto
  <2>12. CASE PopulateFails(c)
    BY <2>12 DEF PopulateFails, Goto, Disrupt
  <2>13. CASE RotateMore(c)
    BY <2>13 DEF RotateMore, Goto
  <2>14. CASE RotateEnds(c)
    <3>1. ru' \in [CRs -> Copies]
      <4>1. PICK s \in FiniteStates : ru' = [ru EXCEPT ![c].status = s]
        BY <2>14, Zenon DEF RotateEnds
      <4>2. s \in Statuses
        BY <4>1 DEF FiniteStates
      <4>3. QED
        BY <4>1, <4>2, CopyWithStatus, Zenon
    <3>2. QED
      BY <2>14, <3>1 DEF RotateEnds, Goto
  <2>15. CASE UpdateStatus(c)
    BY <2>15 DEF UpdateStatus, Goto, Copies
  <2>16. CASE UpdateConflicts(c)
    BY <2>16 DEF UpdateConflicts, Return, Goto, NoRU, Copies
  <2>17. CASE UpdateFails(c)
    BY <2>17 DEF UpdateFails, Return, Goto, NoRU, Copies, Disrupt
  <2>18. CASE PatchLabel(c)
    BY <2>18 DEF PatchLabel, Return, Goto, NoRU, Copies
  <2>19. CASE PatchFails(c)
    BY <2>19 DEF PatchFails, Return, Goto, NoRU, Copies, Disrupt
  <2>20. QED
    BY <1>1, <2>1, <2>2, <2>3, <2>4, <2>5, <2>6, <2>7, <2>8, <2>9, <2>10, <2>11, <2>12, <2>13, <2>14,
      <2>15, <2>16, <2>17, <2>18, <2>19 DEF Reconcile, Enter
<1>2. ASSUME NEW c \in CRs, User(c) PROVE TypeOK'
  <2>1. CASE Create(c)
    BY <2>1 DEF Create, Disrupt
  <2>2. CASE Delete(c)
    <3>1. ru' \in [CRs -> Copies]
      BY <2>2, StaleCopy DEF Delete
    <3>2. QED
      BY <2>2, <3>1 DEF Delete, Disrupt
  <2>3. ASSUME NEW g \in ASGs, Edit(c, g) PROVE TypeOK'
    <3>1. ru' \in [CRs -> Copies]
      BY <2>3, StaleCopy DEF Edit
    <3>2. QED
      BY <2>3, <3>1 DEF Edit, Disrupt
  <2>4. QED
    BY <1>2, <2>1, <2>2, <2>3 DEF User
<1>3. CASE Crash
  BY <1>3 DEF Crash, NoRU, Copies, Disrupt
<1>4. CASE UNCHANGED vars
  BY <1>4 DEF vars
<1>5. QED
  BY <1>1, <1>2, <1>3, <1>4 DEF Next

\* The types hold in every reachable state, for all constants.
THEOREM TypeCorrect == Spec => []TypeOK
  BY TypeInit, TypeNext, PTL DEF Spec
--------------------------------------------------------------------------------
(***************************************************************************)
(* The inductive invariant.  That a working reconcile stays admitted needs *)
(* CopyIsLoaded (what Admit stores is an entry); that the status only      *)
(* advances needs FreshCopyIsAhead (what UpdateStatus stores is not older  *)
(* than what it replaces).                                                 *)
(***************************************************************************)

\* The order of the statuses.
LEMMA RankValues ==
  /\ Rank[None] = 0 /\ Rank[Init_] = 1 /\ Rank[Running] = 2
  /\ \A s \in FiniteStates : Rank[s] = 3
  /\ \A s \in Statuses \ FiniteStates : s \in {None, Init_, Running}
  /\ FiniteStates \subseteq Statuses /\ {None, Init_, Running} \cap FiniteStates = {}
  BY DEF Rank, Statuses, FiniteStates, None, Init_, Running, Completed, Error

\* The invariant holds before the first reconcile.
LEMMA AdmissionInit == Init => AdmissionInv
  BY TypeInit, ConstantsAssumption DEF Init, AdmissionInv, CopyIsLoaded,
     RotatingIsAdmitted, ReconcileMapIsExact, FreshCopyIsAhead

\* Every action keeps the invariant.
LEMMA AdmissionNext == AdmissionInv /\ [Next]_vars => AdmissionInv'
<1> SUFFICES ASSUME AdmissionInv, [Next]_vars PROVE AdmissionInv'
  OBVIOUS
<1> DEFINE Rest == CopyIsLoaded /\ RotatingIsAdmitted /\ ReconcileMapIsExact /\ FreshCopyIsAhead
<1>0. TypeOK'
  BY TypeNext DEF AdmissionInv
<1> USE ConstantsAssumption DEF AdmissionInv, TypeOK, Copies, CopyIsLoaded, RotatingIsAdmitted,
      Admitted, ReconcileMapIsExact, FreshCopyIsAhead, apiVars, mapVars
<1>1. ASSUME NEW c \in CRs, Reconcile(c) PROVE Rest'
  <2>1. CASE ReleaseDeleted(c)
    BY <2>1 DEF ReleaseDeleted
  <2>2. CASE ReleaseFinished(c)
    BY <2>2 DEF ReleaseFinished
  <2>3. CASE Start(c)
    BY <2>3, RankValues DEF Start, Goto
  <2>4. CASE CheckEmpty(c)
    BY <2>4 DEF CheckEmpty, Goto
  <2>5. CASE ListRunning(c)
    BY <2>5 DEF ListRunning, Goto
  <2>6. CASE ListFails(c)
    BY <2>6 DEF ListFails, Goto
  <2>7. CASE StoreRecovered(c)
    BY <2>7 DEF StoreRecovered, Goto
  <2>8. CASE CheckASG(c)
    BY <2>8 DEF CheckASG, Goto
  <2>9. CASE CheckLimit(c) \/ CheckAdmitted(c)
    BY <2>9 DEF CheckLimit, CheckAdmitted, Goto
  <2>10. CASE Admit(c)
    BY <2>10 DEF Admit, Goto
  <2>11. CASE Populate(c)
    BY <2>11, RankValues DEF Populate, Goto
  <2>12. CASE PopulateFails(c)
    BY <2>12 DEF PopulateFails, Goto
  <2>13. CASE RotateMore(c)
    BY <2>13 DEF RotateMore, Goto
  <2>14. CASE RotateEnds(c)
    BY <2>14, RankValues DEF RotateEnds, Goto
  <2>15. CASE UpdateStatus(c)
    BY <2>15 DEF UpdateStatus, Goto
  <2>16. CASE UpdateConflicts(c)
    BY <2>16 DEF UpdateConflicts, Return, Goto, NoRU
  <2>17. CASE UpdateFails(c)
    BY <2>17 DEF UpdateFails, Return, Goto, NoRU
  <2>18. CASE PatchLabel(c)
    BY <2>18 DEF PatchLabel, Return, Goto, NoRU
  <2>19. CASE PatchFails(c)
    BY <2>19 DEF PatchFails, Return, Goto, NoRU
  <2>20. QED
    BY <1>1, <2>1, <2>2, <2>3, <2>4, <2>5, <2>6, <2>7, <2>8, <2>9, <2>10, <2>11, <2>12, <2>13, <2>14,
      <2>15, <2>16, <2>17, <2>18, <2>19, Zenon DEF Reconcile, Enter
<1>2. ASSUME NEW c \in CRs, User(c) PROVE Rest'
  <2>1. CASE Create(c)
    BY <2>1 DEF Create
  <2>2. CASE Delete(c)
    BY <2>2 DEF Delete
  <2>3. ASSUME NEW g \in ASGs, Edit(c, g) PROVE Rest'
    BY <2>3 DEF Edit
  <2>4. QED
    BY <1>2, <2>1, <2>2, <2>3 DEF User
<1>3. ASSUME Crash PROVE Rest'
  BY <1>3 DEF Crash, NoRU
<1>4. ASSUME UNCHANGED vars PROVE Rest'
  BY <1>4 DEF vars
<1>5. QED
  BY <1>0, <1>1, <1>2, <1>3, <1>4 DEF Next

\* The invariant holds in every reachable state.
THEOREM AdmissionInvariant == Spec => []AdmissionInv
  BY AdmissionInit, AdmissionNext, PTL DEF Spec

\* While a reconcile is in RotateNodes its resource keeps its entry of the
\* AdmissionMap, and with it the claim on a scaling group.
THEOREM RotatingStaysAdmitted == Spec => []RotatingIsAdmitted
<1>1. AdmissionInv => RotatingIsAdmitted
  BY DEF AdmissionInv
<1>2. QED
  BY AdmissionInvariant, <1>1, PTL

\* No reconcile finds its own entry in the ReconcileMap when it starts, so the
\* requeue at rollingupgrade_controller.go:130 is never taken.
THEOREM ReconcileMapCorrect == Spec => []ReconcileMapIsExact
<1>1. AdmissionInv => ReconcileMapIsExact
  BY DEF AdmissionInv
<1>2. QED
  BY AdmissionInvariant, <1>1, PTL

--------------------------------------------------------------------------------
\* No step, stale copies, restarts and re-created resources included, moves
\* the stored status of a resource backwards or out of a final state.
THEOREM StatusAdvances == Spec => StatusOnlyAdvances
<1> DEFINE Forward == \A c \in live \cap live' :
             \/ status'[c] = status[c]
             \/ Rank[status[c]] < Rank[status'[c]]
<1>1. ASSUME AdmissionInv, [Next]_vars PROVE [Forward]_vars
  <2>1. ASSUME NEW c \in CRs, UpdateStatus(c) PROVE Forward
    <3> USE DEF AdmissionInv, TypeOK, Copies
    <3>1. /\ status' = [status EXCEPT ![c] = ru[c].status]
          /\ status[c] \notin FiniteStates
          /\ Rank[status[c]] <= Rank[ru[c].status]
      BY <1>1, <2>1 DEF UpdateStatus, Goto, FreshCopyIsAhead
    <3>2. ru[c].status = status[c] \/ Rank[status[c]] < Rank[ru[c].status]
      BY <1>1, <3>1, RankValues
    <3>3. QED
      BY <1>1, <3>1, <3>2
  <2>2. ASSUME NEW c \in CRs, Create(c) PROVE Forward
    BY <1>1, <2>2 DEF Create, AdmissionInv, TypeOK
  <2>3. ASSUME NEW c \in CRs, Reconcile(c), ~UpdateStatus(c) PROVE UNCHANGED status
    BY <2>3 DEF Reconcile, Enter, apiVars, ReleaseDeleted, ReleaseFinished, Start, CheckEmpty,
      ListRunning, ListFails, StoreRecovered, CheckASG, CheckLimit, CheckAdmitted, Admit, Populate,
      PopulateFails, RotateMore, RotateEnds, UpdateConflicts, UpdateFails, PatchLabel, PatchFails
  <2>4. ASSUME NEW c \in CRs, User(c), ~Create(c) PROVE UNCHANGED status
    BY <2>4 DEF User, Delete, Edit
  <2>5. CASE Crash
    BY <2>5 DEF Crash, apiVars
  <2>6. QED
    BY <1>1, <2>1, <2>2, <2>3, <2>4, <2>5 DEF Next
<1>2. QED
  BY AdmissionInvariant, <1>1, PTL DEF Spec, StatusOnlyAdvances
================================================================================
