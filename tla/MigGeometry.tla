----------------------------- MODULE MigGeometry -----------------------------
(***************************************************************************)
(* The geometry of a MIG GPU and of a node: pkg/gpu/mig/gpu.go, node.go.   *)
(*                                                                         *)
(* A geometry is a function from profiles to quantities, 0 standing for a  *)
(* profile that is not a key of the map: ValidateConfigs admits only       *)
(* quantities of at least 1, and the status annotations have no others.    *)
(* A GPU is a record [index, used, free] with two such functions, the      *)
(* status annotations of a Node are a function from the indexes of its     *)
(* GPUs to records [used, free], and Node.GPUs is a sequence of GPUs.      *)
(***************************************************************************)
EXTENDS Integers, Sequences, FiniteSetsExt, SequencesExt

CONSTANTS MigProfiles,  \* the names of the MIG profiles
          Allowed,      \* the allowed geometries of the GPU model, in their order
          Sensitive,    \* the geometries that are tried on idle GPUs only
          GpuCount      \* the GPUs of a node, by its label

ASSUME GeometryAssumption ==
    /\ IsFiniteSet(MigProfiles)
    /\ Allowed \in Seq([MigProfiles -> Nat])
    /\ GpuCount \in Nat

Quantities == [MigProfiles -> Nat]

Indexes == 0 .. GpuCount - 1

GPU == [index : Indexes, used : Quantities, free : Quantities]

NoDevices == [p \in MigProfiles |-> 0]

GetGeometry(g) == [p \in MigProfiles |-> g.used[p] + g.free[p]]

AllowsGeometry(geometry) == \E i \in DOMAIN Allowed : Allowed[i] = geometry

\* Faulty variant: used devices are not looked at.
CanApplyIgnoringUsed(g, geometry) == AllowsGeometry(geometry)

CanApplyGeometry(g, geometry) ==
    /\ AllowsGeometry(geometry)
    /\ \A p \in MigProfiles : geometry[p] >= g.used[p]

\* Faulty variant: the free devices that the new geometry does not name stay.
ApplyGeometryKeepingFree(g, geometry) ==
    [g EXCEPT !.free = [p \in MigProfiles |->
        IF geometry[p] > 0 THEN geometry[p] - g.used[p] ELSE g.free[p]]]

\* The free devices become what the used ones leave of the geometry.
ApplyGeometry(g, geometry) ==
    [g EXCEPT !.free = [p \in MigProfiles |->
        IF geometry[p] > 0 THEN geometry[p] - g.used[p] ELSE 0]]

isIdle(g) == GetGeometry(g) = NoDevices

Lower(a, b) == IF a < b THEN a ELSE b

\* Faulty variant: free devices do not count towards what is required.
ProvidedIgnoringFree(g, geometry, required) ==
    SumFunction([p \in MigProfiles |->
        IF geometry[p] > GetGeometry(g)[p]
        THEN Lower(geometry[p] - GetGeometry(g)[p], required[p])
        ELSE 0])

\* How many of the devices that are required and not free a geometry would add.
Provided(g, geometry, required) ==
    SumFunction([p \in MigProfiles |->
        IF required[p] > g.free[p] /\ geometry[p] > GetGeometry(g)[p]
        THEN Lower(geometry[p] - GetGeometry(g)[p], required[p] - g.free[p])
        ELSE 0])

\* The positions of the geometries that UpdateGeometryFor compares.
Candidates(g, required) ==
    {i \in DOMAIN Allowed : /\ Allowed[i] \in Sensitive => isIdle(g)
                            /\ CanApplyGeometry(g, Allowed[i])
                            /\ Provided(g, Allowed[i], required) > 0}

\* The first of those that provide most.
Best(g, required) ==
    CHOOSE i \in Candidates(g, required) :
        \A j \in Candidates(g, required) :
            LET pi == Provided(g, Allowed[i], required)
                pj == Provided(g, Allowed[j], required)
            IN  pi > pj \/ (pi = pj /\ i <= j)

CanUpdate(g, required) == Candidates(g, required) # {}

\* GPU.UpdateGeometryFor.  A candidate is never the current geometry, of which it
\* has more of some profile.
UpdateGeometryFor(g, required) ==
    IF CanUpdate(g, required) THEN ApplyGeometry(g, Allowed[Best(g, required)]) ELSE g

NumSlices(geometry) == Cardinality({p \in MigProfiles : geometry[p] > 0})

\* The first geometry with the lowest number of different profiles.
GetFewestSlicesGeometry ==
    Allowed[CHOOSE i \in DOMAIN Allowed :
                \A j \in DOMAIN Allowed :
                    \/ NumSlices(Allowed[i]) < NumSlices(Allowed[j])
                    \/ (NumSlices(Allowed[i]) = NumSlices(Allowed[j]) /\ i <= j)]

-----------------------------------------------------------------------------
(***************************************************************************)
(* The GPUs of a node                                                      *)
(***************************************************************************)
HasDevices(s) == s # [used |-> NoDevices, free |-> NoDevices]

\* The GPUs that status annotations name.
Annotated(status) == {i \in DOMAIN status : HasDevices(status[i])}

\* Faulty variant: one GPU too few.
extractGPUsButOne(status) ==
    {[k \in 1..(Cardinality(DOMAIN status) - 1) |->
        IF k <= Len(order)
        THEN [index |-> order[k], used |-> status[order[k]].used, free |-> status[order[k]].free]
        ELSE [index |-> k - 1, used |-> NoDevices, free |-> NoDevices]] :
     order \in SetToSeqs(Annotated(status))}

\* The annotated GPUs, in the order of a Go map, and then GPUs without devices until
\* there are as many as the label says.
extractGPUs(status) ==
    {[k \in 1..Cardinality(DOMAIN status) |->
        IF k <= Len(order)
        THEN [index |-> order[k], used |-> status[order[k]].used, free |-> status[order[k]].free]
        ELSE [index |-> k - 1, used |-> NoDevices, free |-> NoDevices]] :
     order \in SetToSeqs(Annotated(status))}

\* Node.Geometry and Node.FreeGeometry
NodeGeometry(gpus) ==
    [p \in MigProfiles |-> MapThenSumSet(LAMBDA k : GetGeometry(gpus[k])[p], DOMAIN gpus)]

FreeGeometry(gpus) ==
    [p \in MigProfiles |-> MapThenSumSet(LAMBDA k : gpus[k].free[p], DOMAIN gpus)]

\* The requested devices that a GPU does not have free.
StillRequired(required, g) ==
    [p \in MigProfiles |-> IF required[p] > g.free[p] THEN required[p] - g.free[p] ELSE 0]

\* One turn of the loop of Node.UpdateGeometryFor.
VisitGpu(acc, g) ==
    LET h == UpdateGeometryFor(g, acc.required)
    IN  [gpus |-> Append(acc.gpus, h), required |-> StillRequired(acc.required, h),
         updated |-> acc.updated \/ CanUpdate(g, acc.required)]

NotVisited(required) == [gpus |-> <<>>, required |-> required, updated |-> FALSE]

\* Node.UpdateGeometryFor
UpdateNode(gpus, required) == FoldLeft(VisitGpu, NotVisited(required), gpus)

providesRequestedProfiles(gpus, asked) ==
    \A p \in MigProfiles : NodeGeometry(gpus)[p] >= asked[p]

hasFreeCapacityFor(gpus, asked) ==
    \A p \in MigProfiles : FreeGeometry(gpus)[p] >= asked[p]

\* The test of canRepartition, updateNodeGeometry and findVictims.
Repartitionable(gpus, asked) ==
    LET u == UpdateNode(gpus, asked)
    IN  u.updated /\ providesRequestedProfiles(u.gpus, asked)

\* Faulty variant: only the free devices are written.
FreePartitioning(gpus, indexes) ==
    [i \in indexes |-> [p \in MigProfiles |->
        LET ks == {k \in DOMAIN gpus : gpus[k].index = i /\ gpus[k].free[p] > 0}
        IN  IF ks = {} THEN 0 ELSE gpus[Max(ks)].free[p]]]

\* BuildNodePartitioning and getGPUSpecAnnotationList: one annotation per index and
\* profile; if two GPUs have the same index the last one is written.
BuildNodePartitioning(gpus, indexes) ==
    [i \in indexes |-> [p \in MigProfiles |->
        LET ks == {k \in DOMAIN gpus : gpus[k].index = i /\ GetGeometry(gpus[k])[p] > 0}
        IN  IF ks = {} THEN 0 ELSE GetGeometry(gpus[Max(ks)])[p]]]

UsedOn(gpus, K, p) == SumFunctionOnSet([k \in DOMAIN gpus |-> gpus[k].used[p]], K)

\* Faulty variant: every GPU gives up as if it were the first.
ReleasedOnEach(gpus, Q, profiles) ==
    [k \in DOMAIN gpus |->
        LET Freed(p) == IF p \in Q THEN Lower(gpus[k].used[p], profiles[p]) ELSE 0
        IN  [gpus[k] EXCEPT !.used = [p \in MigProfiles |-> @[p] - Freed(p)],
                            !.free = [p \in MigProfiles |-> @[p] + Freed(p)]]]

\* GPU.ReleaseProfiles on one GPU after the other, for the profiles of Q: each gives up
\* what it has in use of what those before it have left to release.
Released(gpus, Q, profiles) ==
    [k \in DOMAIN gpus |->
        LET Left(p) == profiles[p] - Lower(profiles[p], UsedOn(gpus, 1..(k - 1), p))
            Freed(p) == IF p \in Q THEN Lower(gpus[k].used[p], Left(p)) ELSE 0
        IN  [gpus[k] EXCEPT !.used = [p \in MigProfiles |-> @[p] - Freed(p)],
                            !.free = [p \in MigProfiles |-> @[p] + Freed(p)]]]

\* Node.ReleaseProfiles: the profiles come in the order of a Go map, and the first of
\* which too few are used ends it, with those before it, and what there was of itself,
\* released.
ReleaseProfiles(gpus, profiles) ==
    LET Asked == {p \in MigProfiles : profiles[p] > 0}
        Short == {p \in Asked : UsedOn(gpus, DOMAIN gpus, p) < profiles[p]}
    IN  IF Short = {} THEN {[ok |-> TRUE, gpus |-> Released(gpus, Asked, profiles)]}
        ELSE {[ok |-> FALSE, gpus |-> Released(gpus, Q, profiles)] :
                 Q \in {R \in SUBSET Asked : \E p \in Short : R \cap Short = {p}}}
=============================================================================
