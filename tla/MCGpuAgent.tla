------------------------------ MODULE MCGpuAgent ------------------------------
(* A small instance of GpuAgent. *)
EXTENDS GpuAgent

Slice(i, g, p) == [id |-> i, gpu |-> g, profile |-> p]

\* Two GPUs: the first has two slices of 5 GB or one of 10 GB, the second one of 10 GB.
TwoGpus == {Slice(1, 0, "5gb"), Slice(2, 0, "5gb"), Slice(3, 0, "10gb"), Slice(4, 1, "10gb")}

SmallOrBig == {{s \in TwoGpus : s.id \in {1, 2, 4}}, {s \in TwoGpus : s.id \in {3, 4}}}
=============================================================================
