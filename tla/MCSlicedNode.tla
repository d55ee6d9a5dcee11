----------------------------- MODULE MCSlicedNode -----------------------------
(***************************************************************************)
(* Two GPUs of 4 GB with slices of 1, 2 and 3 GB, and requests for up to   *)
(* two slices of up to two sizes.                                          *)
(***************************************************************************)
EXTENDS SlicedNode

MCRequests ==
    UNION {[D -> 1..2] : D \in {E \in SUBSET Profiles : Cardinality(E) \in 1..2}}
=============================================================================
