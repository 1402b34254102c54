---------------------------------- MODULE Drift ----------------------------------
(***************************************************************************)
(* Whether an instance must be rotated: IsInstanceDrifted compares how the *)
(* instance was launched with what the scaling group is told to launch, a  *)
(* launch configuration or a launch template with a version, directly or   *)
(* in a mixed-instances policy.  "$Latest" is looked up in the list of     *)
(* launch templates, whose description may be older than the group's; any  *)
(* other version is compared as it stands, "$Default" too, and the         *)
(* overrides of a policy are not looked at.                                *)
(* One instance of one group, which comes with the group's description and *)
(* is not terminating; Rotation's variable old stands for the result.      *)
(***************************************************************************)
EXTENDS Integers

CONSTANTS
  Names,        \* of launch templates and launch configurations
  MaxVersion,   \* how many versions a template may get
  ForceRefreshes \* whether spec.forceRefresh may be set

ASSUME DriftAssumption == MaxVersion \in Nat \ {0} /\ ForceRefreshes \subseteq BOOLEAN

VersionLatest == -1
VersionDefault == -2  \* "$Default", or a version that is not given
NoVersion == 0    \* of a launch configuration, and of a template that is not there

VARIABLES
  launches,     \* what the group launches: [by, name, version, override]
  latest,       \* the latest version of each template
  listed,       \* the latest versions as last described
  launchedWith, \* how the instance was launched: [by, name, version]
  nodeObject,   \* its node: "missing" from the cache, "older" or "younger" than the upgrade
  forceRefresh

driftVars == <<launches, latest, listed, launchedWith, nodeObject, forceRefresh>>

\* What a group may be told to launch: a version of a template that exists.  An
\* override of a policy may name a template of its own; without one it is the
\* policy's.
GroupConfigs(versions) ==
  {[by |-> "config", name |-> n, version |-> NoVersion, override |-> n] : n \in Names}
  \cup {g \in [by : {"template", "mixed"}, name : Names,
              version : {VersionLatest, VersionDefault} \cup 1..MaxVersion, override : Names] :
          /\ g.by = "template" => g.override = g.name
          /\ \A n \in {g.name, g.override} : versions[n] # NoVersion /\ g.version <= versions[n]}

\* The launch of an instance from template n: versions are numbers, and a policy
\* launches from a template.  The default version is the first one.
LaunchOf(g, n, versions) ==
  [by      |-> IF g.by = "config" THEN "config" ELSE "template",
   name    |-> n,
   version |-> CASE g.version = VersionLatest -> versions[n]
                 [] g.version = VersionDefault -> 1
                 [] OTHER -> g.version]

LaunchesOf(g, versions) == {LaunchOf(g, n, versions) : n \in {g.name, g.override}}

DriftInit ==
  /\ latest \in [Names -> {NoVersion, 1}]
  /\ launches \in GroupConfigs(latest)
  /\ listed = latest
  /\ launchedWith \in LaunchesOf(launches, latest)
  /\ nodeObject = "younger"
  /\ forceRefresh \in ForceRefreshes

--------------------------------------------------------------------------------
\* "0" for a template that is not in the list.
GetTemplateLatestVersion(templates, name) == templates[name]

\* The version an instance should have, by the templates that were described:
\* only "$Latest" is replaced by a number.
TemplateVersion(g, templates) ==
  IF g.version = VersionLatest THEN GetTemplateLatestVersion(templates, g.name) ELSE g.version

\* Mutant: only the versions of templates are compared.
DiffersByVersion(instance, g, templates) ==
  CASE g.by = "config" -> instance.by # "config" \/ instance.name # g.name
    [] g.by \in {"template", "mixed"} ->
         instance.by # "template" \/ instance.version # TemplateVersion(g, templates)

Differs(instance, g, templates) ==
  CASE g.by = "config" -> instance.by # "config" \/ instance.name # g.name
    [] g.by \in {"template", "mixed"} ->
         \/ instance.by # "template"
         \/ instance.name # g.name
         \/ instance.version # TemplateVersion(g, templates)

IsInstanceDriftedBy(templates) ==
  CASE forceRefresh /\ nodeObject = "missing" -> FALSE
    [] forceRefresh /\ nodeObject = "older" -> TRUE
    [] OTHER -> Differs(launchedWith, launches, templates)

--------------------------------------------------------------------------------
(***************************************************************************)
(* What happens around the check.                                          *)
(***************************************************************************)
\* The first version creates the template.
PublishVersion(t) ==
  /\ latest[t] < MaxVersion
  /\ latest' = [latest EXCEPT ![t] = @ + 1]
  /\ UNCHANGED <<launches, listed, launchedWith, nodeObject, forceRefresh>>

ReconfigureGroup ==
  /\ launches' \in GroupConfigs(latest)
  /\ UNCHANGED <<latest, listed, launchedWith, nodeObject, forceRefresh>>

\* The answer of DescribeLaunchTemplates is kept for 60 s.
DescribeLaunchTemplates ==
  /\ listed' = latest
  /\ UNCHANGED <<launches, latest, launchedWith, nodeObject, forceRefresh>>

\* A drifted instance is rotated: another one takes its place.
Relaunch ==
  /\ IsInstanceDriftedBy(listed)
  /\ launchedWith' \in LaunchesOf(launches, latest)
  /\ nodeObject' = "missing"
  /\ UNCHANGED <<launches, latest, listed, forceRefresh>>

\* Node events; every node is older than an upgrade that is submitted later.
NodeObjectCached ==
  /\ nodeObject = "missing" /\ nodeObject' = "younger"
  /\ UNCHANGED <<launches, latest, listed, launchedWith, forceRefresh>>

NodeObjectEvicted ==
  /\ nodeObject' = "missing"
  /\ UNCHANGED <<launches, latest, listed, launchedWith, forceRefresh>>

UpgradeCreated ==
  /\ forceRefresh' \in ForceRefreshes
  /\ nodeObject' = IF nodeObject = "missing" THEN "missing" ELSE "older"
  /\ UNCHANGED <<launches, latest, listed, launchedWith>>

DriftNext ==
  \/ (\E t \in Names : PublishVersion(t)) \/ ReconfigureGroup \/ DescribeLaunchTemplates
  \/ Relaunch \/ NodeObjectCached \/ NodeObjectEvicted \/ UpgradeCreated

DriftSpec == DriftInit /\ [][DriftNext]_driftVars

--------------------------------------------------------------------------------
\* An instance counts as drifted exactly when the group would not launch it now, or
\* when a forced refresh finds its node older than the upgrade, with two exceptions
\* in which it always counts as drifted: the group gives "$Default" or no version,
\* which is compared with a number, or the instance comes from the template of an
\* override.  An old list of launch templates misleads the check only for a group
\* that follows "$Latest" of a template that has got a version since, and a missing
\* node object only a forced refresh (IsInstanceDrifted).
DriftedIffDifferent ==
  LET listIsOld  == launches.version = VersionLatest /\ listed[launches.name] # latest[launches.name]
      skipped    == forceRefresh /\ nodeObject = "missing"
      literal    == launches.version = VersionDefault
      overridden == launchedWith.name # launches.name
  IN  listIsOld \/ skipped
      \/ IsInstanceDriftedBy(listed)
           = \/ launchedWith \notin LaunchesOf(launches, latest)
             \/ literal \/ overridden
             \/ forceRefresh /\ nodeObject = "older"
================================================================================
