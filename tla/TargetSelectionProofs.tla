-------------------------- MODULE TargetSelectionProofs --------------------------
(***************************************************************************)
(* What a uniform strategy adds to the targets in progress is spread over  *)
(* the zones, for every set of zones, every number of targets and every    *)
(* order of the rounds.                                                    *)
(*                                                                         *)
(* UniformAcrossZones speaks of the batch; it follows from a fact about    *)
(* every moment of the round robin: there is a number of full rounds such  *)
(* that each zone with targets left has given one per full round, and one  *)
(* more if the current round has visited it; no zone has given more.       *)
(***************************************************************************)
EXTENDS TargetSelection, TLAPS

Turn(z) == IF z \in visited THEN 1 ELSE 0

RoundsDone(r) ==
  \A z \in Zones :
    /\ popped[z] <= r + Turn(z)
    /\ popped[z] < targets[z] => popped[z] = r + Turn(z)

SelectionInv ==
  /\ targets \in [Zones -> Nat] /\ popped \in [Zones -> Nat] /\ chosen \in [Zones -> Nat]
  /\ visited \subseteq Zones
  /\ \E r \in Nat : RoundsDone(r)
  /\ UniformAcrossZones

\* A visit keeps the count of full rounds, and what it may copy into the batch is
\* spread over the zones.
LEMMA VisitKeepsRounds ==
  ASSUME SelectionInv, NEW z \in Zones, Visit(z)
  PROVE  SelectionInv'
<1> USE DEF Visit, inputVars
<1>1. /\ targets' = targets /\ targets \in [Zones -> Nat] /\ popped \in [Zones -> Nat] /\ chosen \in [Zones -> Nat]
      /\ z \notin visited /\ visited' = visited \cup {z} /\ visited \subseteq Zones
  BY DEF SelectionInv
<1>2. popped' \in [Zones -> Nat] /\ chosen' \in [Zones -> Nat]
  BY <1>1
<1>3. PICK r \in Nat : RoundsDone(r)
  BY DEF SelectionInv
<1>4. RoundsDone(r)'
  <2> SUFFICES ASSUME NEW y \in Zones
               PROVE  /\ popped'[y] <= r + Turn(y)'
                      /\ popped'[y] < targets[y] => popped'[y] = r + Turn(y)'
    BY <1>1 DEF RoundsDone
  <2>1. popped[y] <= r + Turn(y) /\ (popped[y] < targets[y] => popped[y] = r + Turn(y))
    BY <1>3 DEF RoundsDone
  <2>2. popped[y] \in Nat /\ targets[y] \in Nat
    BY <1>1
  <2>3. CASE y = z
    <3>1. Turn(y) = 0 /\ Turn(y)' = 1
      BY <1>1, <2>3 DEF Turn
    <3> QED BY <1>1, <2>1, <2>2, <2>3, <3>1
  <2>4. CASE y # z
    <3>1. Turn(y)' = Turn(y) /\ popped'[y] = popped[y]
      BY <1>1, <2>4 DEF Turn
    <3> QED BY <2>1, <3>1
  <2> QED BY <2>3, <2>4
<1>5. UniformAcrossZones'
  <2>1. CASE chosen' = chosen
    BY <1>1, <2>1 DEF SelectionInv, UniformAcrossZones
  <2>2. CASE chosen' = popped'
    <3> SUFFICES ASSUME NEW x \in Zones, NEW y \in Zones, popped'[x] < targets[x]
                 PROVE  popped'[y] <= popped'[x] + 1
      BY <1>1, <2>2 DEF UniformAcrossZones
    <3>1. popped'[x] = r + Turn(x)' /\ popped'[y] <= r + Turn(y)'
      BY <1>1, <1>4 DEF RoundsDone
    <3>2. Turn(x)' \in {0, 1} /\ Turn(y)' \in {0, 1}
      BY DEF Turn
    <3> QED BY <1>2, <3>1, <3>2
  <2> QED BY <2>1, <2>2
<1> QED BY <1>1, <1>2, <1>4, <1>5 DEF SelectionInv

\* Every visit of a zone keeps the invariant of the selection.
LEMMA SelectionInvNext == SelectionInv /\ [SelectNext]_selectVars => SelectionInv'
<1> SUFFICES ASSUME SelectionInv, [SelectNext]_selectVars
             PROVE  SelectionInv'
  OBVIOUS
<1>1. ASSUME UNCHANGED <<targets, popped, visited, chosen>>
      PROVE  SelectionInv'
  BY <1>1 DEF SelectionInv, RoundsDone, Turn, UniformAcrossZones
<1>2. CASE Validate
  BY <1>1, <1>2 DEF Validate, inputVars, orderVars
<1>3. CASE SelectTargets
  BY <1>1, <1>3 DEF SelectTargets, inputVars, orderVars
<1>4. ASSUME NEW z \in Zones, Visit(z)
      PROVE  SelectionInv'
  BY <1>4, VisitKeepsRounds
<1>5. CASE NextRound
  <2>1. visited = Zones /\ visited' = {} /\ UNCHANGED <<targets, popped, chosen>>
    BY <1>5 DEF NextRound, inputVars
  <2>2. PICK r \in Nat : RoundsDone(r)
    BY DEF SelectionInv
  <2>3. RoundsDone(r + 1)'
    <3> SUFFICES ASSUME NEW z \in Zones
                 PROVE  /\ popped[z] <= (r + 1) + Turn(z)'
                        /\ popped[z] < targets[z] => popped[z] = (r + 1) + Turn(z)'
      BY <2>1 DEF RoundsDone
    <3>1. Turn(z) = 1 /\ Turn(z)' = 0
      BY <2>1 DEF Turn
    <3> QED BY <2>2, <3>1 DEF RoundsDone
  <2> QED BY <2>1, <2>3 DEF SelectionInv, UniformAcrossZones
<1>6. CASE CutBatch
  BY <1>1, <1>6 DEF CutBatch, inputVars, orderVars
<1>7. CASE UNCHANGED selectVars
  BY <1>1, <1>7 DEF selectVars, inputVars, orderVars
<1> QED BY <1>2, <1>3, <1>4, <1>5, <1>6, <1>7 DEF SelectNext

\* A uniform strategy spreads over the zones what a batch takes of the unprocessed
\* targets: SelectTargets' round robin takes no zone's second target of a round
\* before it went through the others.  Targets in progress come on top of that.
THEOREM SelectionIsUniform == SelectSpec => []UniformAcrossZones
<1>1. SelectInit => SelectionInv
  <2> SUFFICES ASSUME SelectInit PROVE SelectionInv
    OBVIOUS
  <2>1. /\ targets \in [Zones -> Nat] /\ visited = {}
        /\ popped = [z \in Zones |-> 0] /\ chosen = [z \in Zones |-> 0]
    <3>1. 0..MaxTargets \subseteq Nat
      BY SelectionAssumption
    <3> QED BY <3>1 DEF SelectInit
  <2>2. RoundsDone(0)
    BY <2>1 DEF RoundsDone, Turn
  <2> QED BY <2>1, <2>2 DEF SelectionInv, UniformAcrossZones
<1>2. SelectionInv => UniformAcrossZones
  BY DEF SelectionInv
<1> QED BY <1>1, <1>2, SelectionInvNext, PTL DEF SelectSpec

--------------------------------------------------------------------------------
(***************************************************************************)
(* The size of a batch, for every capacity, form and value that Validate   *)
(* accepts.                                                                *)
(***************************************************************************)
AtLeastOne(n) == IF n = 0 THEN 1 ELSE n

\* Whatever the strategy asks for, a batch is of one node at least and of the whole
\* group at most; a percentage is the least number of nodes that reaches it.
LEMMA BatchSizes ==
  ASSUME NEW s, NEW T \in Nat, s.form \in Forms, s.value \in Nat
  PROVE  /\ CalculateMaxUnavailable(s, T) \in 1..AtLeastOne(T)
         /\ s.form = "percent" /\ s.value <= 100 =>
              \A k \in Nat \ {0} : k >= CalculateMaxUnavailable(s, T) <=> 100 * k >= s.value * T
<1> DEFINE asked == CASE s.form \in {"int", "digits"} -> s.value
                      [] s.form = "percent" -> (s.value * T + 99) \div 100
           u == CalculateMaxUnavailable(s, T)
           share == (s.value * T + 99) \div 100
<1>1. s.value * T \in Nat
  OBVIOUS
<1>2. share \in Nat /\ 100 * share <= s.value * T + 99 /\ s.value * T < 100 * share + 1
  <2> HIDE DEF u, asked
  <2>1. ASSUME NEW p \in Nat PROVE LET q == (p + 99) \div 100 IN q \in Nat /\ 100 * q <= p + 99 /\ p < 100 * q + 1
    OBVIOUS
  <2> QED BY <1>1, <2>1
<1>3. asked \in Nat
  BY <1>2 DEF Forms
<1>4. u = AtLeastOne(Least(asked, T))
  BY DEF CalculateMaxUnavailable, AtLeastOne
<1>5. u \in 1..AtLeastOne(T)
  <2> HIDE DEF asked, u
  <2> QED BY <1>3, <1>4 DEF AtLeastOne, Least
<1>6. ASSUME s.form = "percent", s.value <= 100, NEW k \in Nat \ {0}
      PROVE  k >= u <=> 100 * k >= s.value * T
  <2>1. asked = share
    BY <1>6
  <2>2. s.value * T <= 100 * T
    BY <1>6
  <2>3. share <= T
    <3> HIDE DEF share
    <3> QED BY <1>1, <1>2, <2>2
  <2>4. u = AtLeastOne(share)
    <3> HIDE DEF share, asked, u
    <3> QED BY <1>2, <1>4, <2>1, <2>3 DEF Least, AtLeastOne
  <2> HIDE DEF share, asked, u
  <2> QED BY <1>1, <1>2, <1>6, <2>4 DEF AtLeastOne
<1> QED BY <1>5, <1>6

Strategy ==
  [type : Types \cup Spelled \cup {""}, mode : Modes \cup Spelled \cup {""},
   form : Forms, value : Int, drainTimeout : Int \cup {Unset}]

SizeInv ==
  /\ totalNodes \in Nat /\ inprogress \in [Zones -> 0..MaxInProgress] /\ targets \in [Zones -> 0..MaxTargets]
  /\ strategy \in Strategy
  /\ stage \in {"accepted", "ordering", "selected"} =>
       strategy.value \in Nat /\ (strategy.form = "percent" => strategy.value <= 100)
  /\ stage \in {"ordering", "selected"} =>
       unavailableInt = CalculateMaxUnavailable(strategy, totalNodes)
  /\ stage = "selected" /\ strategy.type \in Types =>
       batchLen = Least(unavailableInt, Underway + Unprocessed)

\* Validate establishes what CalculateMaxUnavailable relies on, and SelectTargets cuts
\* the batch off at its result.
LEMMA SizeInvariant == SelectSpec => []SizeInv
<1>1. SelectInit => SizeInv
  <2> SUFFICES ASSUME SelectInit PROVE SizeInv
    OBVIOUS
  <2>1. totalNodes \in Nat
    BY SelectionAssumption DEF SelectInit
  <2> QED BY <2>1, StrategiesAssumption, Zenon DEF SelectInit, SizeInv, Strategy
<1>2. SizeInv /\ [SelectNext]_selectVars => SizeInv'
  <2> SUFFICES ASSUME SizeInv, [SelectNext]_selectVars PROVE SizeInv'
    OBVIOUS
  <2> USE DEF inputVars, orderVars
  <2>1. CASE Validate
    <3>1. CASE Accepted(strategy)
      <4>1. strategy' = Defaulted(strategy) /\ stage' = "accepted" /\ UNCHANGED inputVars
        BY <2>1, <3>1 DEF Validate
      <4>2. strategy.value \in Int /\ strategy.form \in Forms
        BY Zenon DEF SizeInv, Strategy
      <4>3. strategy.value >= 0 /\ (strategy.form = "percent" => strategy.value <= 100)
        BY <3>1, <4>2 DEF Accepted
      <4>4. ASSUME NEW s \in Strategy PROVE Defaulted(s) \in Strategy
        <5> DEFINE type == IF s.type = "" THEN "randomUpdate" ELSE s.type
                   mode == IF s.mode = "" THEN "lazy" ELSE s.mode
                   value == IF s.form = "int" /\ s.value = 0 THEN 1 ELSE s.value
                   drainTimeout == IF s.drainTimeout = 0 THEN -1 ELSE s.drainTimeout
        <5>1. type \in Types \cup Spelled \cup {""} /\ mode \in Modes \cup Spelled \cup {""}
          BY Zenon DEF Strategy, Types, Modes
        <5>2. value \in Int /\ drainTimeout \in Int \cup {Unset}
          <6>1. s.value \in Int
            BY Zenon DEF Strategy
          <6>2. s.drainTimeout \in Int \cup {Unset}
            BY Zenon DEF Strategy
          <6>3. 1 \in Int /\ -1 \in Int
            OBVIOUS
          <6> QED BY <6>1, <6>2, <6>3, Zenon
        <5>3. Defaulted(s) = [s EXCEPT !.type = type, !.mode = mode, !.value = value, !.drainTimeout = drainTimeout]
          BY Zenon DEF Defaulted
        <5> HIDE DEF type, mode, value, drainTimeout
        <5> QED BY <5>1, <5>2, <5>3, Zenon DEF Strategy
      <4>5. ASSUME NEW s \in Strategy
            PROVE  Defaulted(s).form = s.form /\ Defaulted(s).value \in {s.value, 1}
        BY Zenon DEF Defaulted, Strategy
      <4>6. strategy' \in Strategy /\ strategy'.form = strategy.form /\ strategy'.value \in {strategy.value, 1}
        BY <4>1, <4>4, <4>5 DEF SizeInv
      <4> QED BY <4>1, <4>2, <4>3, <4>6 DEF SizeInv
    <3>2. CASE ~Accepted(strategy)
      BY <2>1, <3>2 DEF Validate, SizeInv
    <3> QED BY <3>1, <3>2
  <2>2. CASE SelectTargets
    <3>1. /\ stage = "accepted" /\ UNCHANGED <<strategy, totalNodes, targets, inprogress>>
          /\ unavailableInt' = CalculateMaxUnavailable(strategy, totalNodes)
      BY <2>2 DEF SelectTargets
    <3>2. CASE strategy.type = "randomUpdate"
      BY <2>2, <3>1, <3>2 DEF SelectTargets, SizeInv, BatchOf, Unprocessed, Underway
    <3>3. CASE strategy.type = "uniformAcrossAzUpdate"
      BY <2>2, <3>1, <3>3 DEF SelectTargets, SizeInv
    <3>4. CASE strategy.type \notin Types
      BY <2>2, <3>1, <3>4 DEF SelectTargets, SizeInv, BatchOf, Types
    <3> QED BY <3>2, <3>3, <3>4 DEF Types
  <2>3. ASSUME NEW z \in Zones, Visit(z) PROVE SizeInv'
    BY <2>3 DEF Visit, SizeInv
  <2>4. CASE NextRound
    BY <2>4 DEF NextRound, SizeInv
  <2>5. CASE CutBatch
    BY <2>5 DEF CutBatch, BatchOf, SizeInv, Unprocessed, Underway
  <2>6. CASE UNCHANGED selectVars
    BY <2>6 DEF selectVars, SizeInv, Unprocessed, Underway
  <2> QED BY <2>1, <2>2, <2>3, <2>4, <2>5, <2>6 DEF SelectNext
<1> QED BY <1>1, <1>2, PTL DEF SelectSpec

\* Validate and SelectTargets: for every capacity, every form and value of
\* maxUnavailable and any targets, an accepted strategy of a known type selects a
\* batch as long as there are targets, and one that the group has room for.
THEOREM AcceptedStrategiesSelect == SelectSpec => []AcceptedSelects
<1>1. SizeInv => AcceptedSelects
  <2> SUFFICES ASSUME SizeInv, stage = "selected", strategy.type \in Types
               PROVE  /\ batchLen <= unavailableInt
                      /\ Underway + Unprocessed > 0 => batchLen \in 1..AtLeastOne(totalNodes)
    BY DEF AcceptedSelects, AtLeastOne
  <2>0. strategy.form \in Forms /\ strategy.value \in Nat /\ totalNodes \in Nat
    BY Zenon DEF SizeInv, Strategy
  <2>1. unavailableInt \in 1..AtLeastOne(totalNodes) /\ AtLeastOne(totalNodes) \in Nat
    BY <2>0, BatchSizes DEF SizeInv, AtLeastOne
  <2>2. Unprocessed \in Nat /\ Underway \in Nat
    BY CountAssumption DEF SizeInv, Unprocessed, Underway
  <2>3. batchLen = Least(unavailableInt, Underway + Unprocessed)
    BY DEF SizeInv
  <2> QED BY <2>1, <2>2, <2>3 DEF Least
<1> QED BY <1>1, SizeInvariant, PTL

\* CalculateMaxUnavailable: every percentage of every capacity is rounded up to the
\* least number of nodes that reaches it, and to one node at least.
THEOREM PercentagesAreReached == SelectSpec => []ShareReached
<1>1. SizeInv => ShareReached
  <2> SUFFICES ASSUME SizeInv, stage = "selected", strategy.form = "percent", NEW k \in 1..(unavailableInt + 1)
               PROVE  (k >= unavailableInt) <=> (100 * k >= strategy.value * totalNodes)
    BY DEF ShareReached
  <2>0. strategy.form \in Forms /\ strategy.value \in Nat /\ strategy.value <= 100 /\ totalNodes \in Nat
    BY Zenon DEF SizeInv, Strategy
  <2>1. unavailableInt = CalculateMaxUnavailable(strategy, totalNodes)
    BY DEF SizeInv
  <2>2. unavailableInt \in 1..AtLeastOne(totalNodes)
    BY <2>0, <2>1, BatchSizes
  <2>3. k \in Nat \ {0}
    BY <2>0, <2>2 DEF AtLeastOne
  <2> QED BY <2>0, <2>1, <2>3, BatchSizes
<1> QED BY <1>1, SizeInvariant, PTL
================================================================================
