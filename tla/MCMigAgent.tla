------------------------------ MODULE MCMigAgent ------------------------------
(* Small instances of MigAgent. *)
EXTENDS MigAgentContract

\* A GPU of two slices: two small devices, or a big one.
TwoSlices == {[p \in Profiles |-> IF p = "small" THEN 2 ELSE 0],
              [p \in Profiles |-> IF p = "big" THEN 1 ELSE 0]}

\* The same quantity q of a profile on every GPU.
Everywhere(p, q) == [k \in Keys |-> IF k[2] = p THEN q ELSE 0]

SmallOrBig == {Everywhere("small", 1), Everywhere("small", 2), Everywhere("big", 1)}

FullGpus == {Everywhere("small", 2), Everywhere("big", 1)}
=============================================================================
