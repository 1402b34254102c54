------------------------------- MODULE MCRotation -------------------------------
(* Small groups for Rotation. *)
EXTENDS Rotation, TLC

CONSTANTS c1, c2, i1, i2, i3, i4

\* One group of two instances, and room for their replacements.
OneGroup == [i \in Instances |-> c1]
Both == {i1, i2}

\* Two groups of one instance each.
TwoGroups == (i1 :> c1) @@ (i2 :> c2) @@ (i3 :> c1) @@ (i4 :> c2)

\* A step that fails, of any kind, and the rest of what may happen.
Failures == {"aws", "script", "drain", "update"}
Everything == Failures \cup {"crash", "template", "resubmit"}

\* The instances that run at the start are alike.
Alike == Permutations(Both)
================================================================================
