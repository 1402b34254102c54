-------------------------------- MODULE DriftProofs --------------------------------
(***************************************************************************)
(* What module Drift promises for any names and any number of versions.    *)
(***************************************************************************)
EXTENDS Drift, TLAPS

Versions == 0..MaxVersion

Configs ==
  [by : {"config", "template", "mixed"}, name : Names,
   version : {VersionLatest, VersionDefault} \cup Versions, override : Names]

Launched == [by : {"config", "template"}, name : Names, version : Versions]

\* IsInstanceDrifted does not compare versions of launch configurations: they
\* have none, in the group and in the instance.
DriftInv ==
  /\ latest \in [Names -> Versions] /\ listed \in [Names -> Versions]
  /\ launches \in Configs /\ launchedWith \in Launched
  /\ launches.by = "config" => launches.version = NoVersion
  /\ launchedWith.by = "config" => launchedWith.version = NoVersion
  /\ nodeObject \in {"missing", "older", "younger"} /\ forceRefresh \in BOOLEAN

\* A group configuration and the instances it launches have their types.
LEMMA ConfigsLaunch ==
  ASSUME NEW versions \in [Names -> Versions], NEW g \in GroupConfigs(versions) \cup Configs,
         g.by = "config" => g.version = NoVersion
  PROVE  /\ g \in Configs
         /\ \A l \in LaunchesOf(g, versions) : l \in Launched /\ (l.by = "config" => l.version = NoVersion)
<1> USE DriftAssumption
<1>1. g \in Configs
  <2>1. ASSUME g \in GroupConfigs(versions), g.by # "config" PROVE g \in Configs
    BY <2>1 DEF GroupConfigs, Configs, Versions, NoVersion, VersionLatest, VersionDefault
  <2>2. ASSUME NEW n \in Names
        PROVE  [by |-> "config", name |-> n, version |-> NoVersion, override |-> n] \in Configs
    BY DEF Configs, Versions, NoVersion
  <2> QED BY <2>1, <2>2 DEF GroupConfigs
<1>2. ASSUME NEW n \in Names
      PROVE  /\ LaunchOf(g, n, versions) \in Launched
             /\ LaunchOf(g, n, versions).by = "config" => LaunchOf(g, n, versions).version = NoVersion
  <2> DEFINE v == CASE g.version = VersionLatest -> versions[n]
                    [] g.version = VersionDefault -> 1
                    [] OTHER -> g.version
  <2>1. v \in Versions /\ (g.by = "config" => v = NoVersion)
    BY <1>1 DEF Configs, Versions, NoVersion, VersionLatest, VersionDefault
  <2>2. LaunchOf(g, n, versions) = [by |-> IF g.by = "config" THEN "config" ELSE "template", name |-> n, version |-> v]
    BY DEF LaunchOf
  <2> HIDE DEF v
  <2> QED BY <2>1, <2>2 DEF Launched
<1>3. g.name \in Names /\ g.override \in Names
  BY <1>1 DEF Configs
<1> QED BY <1>1, <1>2, <1>3 DEF LaunchesOf

\* IsInstanceDrifted, for all names, versions and interleavings of publishing,
\* describing, reconfiguring and relaunching: with a list of templates that is not
\* old for the group the check is exact, except that a group on its default version
\* and an instance from an override's template always count as drifted.
THEOREM DriftIsExact == DriftSpec => []DriftedIffDifferent
<1> USE DriftAssumption
<1>1. DriftInit => DriftInv
  <2> SUFFICES ASSUME DriftInit PROVE DriftInv
    OBVIOUS
  <2>1. latest \in [Names -> Versions] /\ listed = latest
    BY DEF DriftInit, Versions, NoVersion
  <2>2. launches \in GroupConfigs(latest) /\ (launches.by = "config" => launches.version = NoVersion)
    BY DEF DriftInit, GroupConfigs
  <2>3. launchedWith \in LaunchesOf(launches, latest)
    BY DEF DriftInit
  <2> QED BY <2>1, <2>2, <2>3, ConfigsLaunch DEF DriftInit, DriftInv
<1>2. DriftInv /\ [DriftNext]_driftVars => DriftInv'
  <2> SUFFICES ASSUME DriftInv, [DriftNext]_driftVars PROVE DriftInv'
    OBVIOUS
  <2> USE DEF DriftInv
  <2>1. ASSUME NEW t \in Names, PublishVersion(t) PROVE DriftInv'
    BY <2>1 DEF PublishVersion, Versions
  <2>2. CASE ReconfigureGroup
    <3>1. launches' \in GroupConfigs(latest) /\ (launches'.by = "config" => launches'.version = NoVersion)
      BY <2>2 DEF ReconfigureGroup, GroupConfigs
    <3> QED BY <2>2, <3>1, ConfigsLaunch DEF ReconfigureGroup
  <2>3. CASE DescribeLaunchTemplates
    BY <2>3 DEF DescribeLaunchTemplates
  <2>4. CASE Relaunch
    BY <2>4, ConfigsLaunch DEF Relaunch
  <2>5. CASE NodeObjectCached \/ NodeObjectEvicted
    BY <2>5 DEF NodeObjectCached, NodeObjectEvicted
  <2>6. CASE UpgradeCreated
    BY <2>6 DEF UpgradeCreated
  <2>7. CASE UNCHANGED driftVars
    BY <2>7 DEF driftVars
  <2> QED BY <2>1, <2>2, <2>3, <2>4, <2>5, <2>6, <2>7 DEF DriftNext
<1>3. DriftInv => DriftedIffDifferent
  <2> SUFFICES ASSUME DriftInv PROVE DriftedIffDifferent
    OBVIOUS
  <2> DEFINE v == TemplateVersion(launches, listed)
             listIsOld == launches.version = VersionLatest /\ listed[launches.name] # latest[launches.name]
             literal == launches.version = VersionDefault
             overridden == launchedWith.name # launches.name
             base == LaunchOf(launches, launches.name, latest)
  <2>1. launches \in Configs /\ launches.by \in {"config", "template", "mixed"} /\ launchedWith \in Launched
    BY DEF DriftInv, Configs
  <2>2. Differs(launchedWith, launches, listed) \in BOOLEAN
    BY <2>1, Zenon DEF Differs
  <2>3. IsInstanceDriftedBy(listed)
          = IF forceRefresh /\ nodeObject = "missing" THEN FALSE
            ELSE IF forceRefresh /\ nodeObject = "older" THEN TRUE
            ELSE Differs(launchedWith, launches, listed)
    BY Zenon DEF IsInstanceDriftedBy
  <2>4. CASE overridden
    <3>1. Differs(launchedWith, launches, listed)
      BY <2>1, <2>4, Zenon DEF Differs
    <3> QED BY <2>2, <2>3, <2>4, <3>1, Zenon DEF DriftedIffDifferent
  <2>5. CASE literal
    <3>1. launches.by \in {"template", "mixed"} /\ v = VersionDefault
      BY <2>1, <2>5 DEF DriftInv, TemplateVersion, VersionLatest, VersionDefault, NoVersion
    <3>2. launchedWith.version # VersionDefault
      BY <2>1 DEF Launched, Versions, VersionDefault
    <3>3. Differs(launchedWith, launches, listed)
      BY <3>1, <3>2, Zenon DEF Differs
    <3> QED BY <2>2, <2>3, <2>5, <3>3, Zenon DEF DriftedIffDifferent
  <2>6. CASE ~overridden /\ ~literal
    <3>1. launchedWith \in LaunchesOf(launches, latest) <=> launchedWith = base
      <4>1. launchedWith \in LaunchesOf(launches, latest)
              <=> launchedWith = base \/ launchedWith = LaunchOf(launches, launches.override, latest)
        BY Zenon DEF LaunchesOf
      <4>2. LaunchOf(launches, launches.override, latest).name = launches.override
        BY DEF LaunchOf
      <4> QED BY <2>6, <4>1, <4>2, Zenon
    <3>2. ASSUME ~listIsOld
          PROVE  launchedWith # base <=> Differs(launchedWith, launches, listed)
      <4>1. base = [by |-> IF launches.by = "config" THEN "config" ELSE "template", name |-> launches.name, version |-> v]
        BY <2>6, <3>2 DEF DriftInv, LaunchOf, TemplateVersion, GetTemplateLatestVersion
      <4>2. CASE launches.by = "config"
        <5>1. v = NoVersion
          BY <4>2 DEF DriftInv, TemplateVersion, NoVersion, VersionLatest
        <5> HIDE DEF base, v
        <5>2. launchedWith # base <=> launchedWith.by # "config" \/ launchedWith.name # launches.name
          BY <2>1, <4>1, <4>2, <5>1 DEF DriftInv, Launched
        <5> QED BY <4>2, <5>2, Zenon DEF Differs
      <4>3. CASE launches.by \in {"template", "mixed"}
        <5>1. Differs(launchedWith, launches, listed)
                <=> launchedWith.by # "template" \/ launchedWith.name # launches.name \/ launchedWith.version # v
          BY <4>3, Zenon DEF Differs
        <5> HIDE DEF base, v
        <5>2. launchedWith # base
                <=> launchedWith.by # "template" \/ launchedWith.name # launches.name \/ launchedWith.version # v
          BY <2>1, <4>1, <4>3 DEF Launched
        <5> QED BY <5>1, <5>2
      <4> QED BY <2>1, <4>2, <4>3
    <3> HIDE DEF base
    <3> QED BY <2>2, <2>3, <2>6, <3>1, <3>2, Zenon DEF DriftedIffDifferent
  <2> QED BY <2>4, <2>5, <2>6
<1> QED BY <1>1, <1>2, <1>3, PTL DEF DriftSpec
=====================================================================================
