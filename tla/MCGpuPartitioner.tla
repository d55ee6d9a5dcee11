--------------------------- MODULE MCGpuPartitioner ---------------------------
(* Small instances of GpuPartitioner. *)
EXTENDS GpuPartitioner

Geometry(f) == [p \in MigProfiles |-> IF p \in DOMAIN f THEN f[p] ELSE 0]

\* A GPU of two slices: a big device, or two small ones.
BigOrSmall == <<Geometry("big" :> 1), Geometry("small" :> 2)>>

\* The geometries of an A30 (known_configs.go) that have a 2g device.
With2g == <<Geometry("1g" :> 2 @@ "2g" :> 1), Geometry("2g" :> 2)>>

\* No Pod of a DaemonSet, and one that occupies the first node.
NoneIsPinned == <<>>
LastIsPinned == [p \in {Max(Pods)} |-> "n1"]

\* A big Pod of high priority and a small one of low priority; a third one is big.
BigAndSmall == [p \in Pods |-> IF p = 2 THEN Geometry("small" :> 1) ELSE Geometry("big" :> 1)]

\* Pod 2 asks for a 2g device, the others for a 1g device too.
BothAnd2g == [p \in Pods |-> IF p = 2 THEN Geometry("2g" :> 1) ELSE Geometry("1g" :> 1 @@ "2g" :> 1)]

\* Pod 1 has a high priority.
FirstIsHigh == [p \in Pods |-> IF p = 1 THEN 1 ELSE 0]
AgeIsNumber == [p \in Pods |-> p]
=============================================================================
