---------------------------- MODULE MCAwsCleanup ----------------------------
(* An account with two clusters.  c1 runs; of c2 there are leftovers, and an *)
(* instance of c2 may appear at any time (a cluster of the same name comes   *)
(* back or is created while the run is at work).                             *)
EXTENDS AwsCleanup

CONSTANTS i1, i2, v1, v2, v0, vd, b1, b2, b3, c1, c2

MCInstances == {i1, i2}
MCVpcs == {v1, v2, v0, vd}
MCBuckets == {b1, b2, b3}
MCClusters == {c1, c2}
T(l, c) == [label |-> l, cluster |-> c]
MCTagsOf == [r \in Resources |->
    CASE r = i1 -> {T("osd", c1)}
      [] r = i2 -> {T("osd", c2), T("other", NoTag)}
      [] r = v1 -> {T("osd", c1), T("rhmi", c2)}  \* names two clusters
      [] r = v2 -> {T("osd", c2)}
      [] r = v0 -> {}
      [] r = vd -> {}
      [] r = b1 -> {T("velero", c2)}
      [] r = b2 -> {T("velero", NoTag)}
      [] r = b3 -> {T("rhmi", c2)}]
MCDefaultVpcs == {vd}
MCVeleroBuckets == {b1, b2}
MCVpcOf == [i \in MCInstances |-> IF i = i1 THEN v1 ELSE v2]
MCLive0 == Resources \ {i2}
MCComing == {i2}
MCGoing == {i1, b1}
MCPages == [b \in MCBuckets |-> IF b = b1 THEN 2 ELSE 1]
=============================================================================
