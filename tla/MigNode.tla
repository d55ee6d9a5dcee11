------------------------------- MODULE MigNode -------------------------------
(***************************************************************************)
(* How the GPU partitioner decides on the partitioning of one node:        *)
(*   - NewNode rebuilds the GPUs from the status annotations;              *)
(*   - updateNodeGeometry of the Pod controller changes the geometry of    *)
(*     one GPU after the other for the profiles that Pods ask for, and     *)
(*     writes the spec if the node then provides them;                     *)
(*   - InitNodePartitioning of the node controller gives every GPU without *)
(*     devices an initial geometry, and writes the spec.                   *)
(* Both work on a copy of the Node, so that a round has no other actor.    *)
(***************************************************************************)
EXTENDS MigGeometry

CONSTANTS Requests,   \* the profiles that Pods may ask for
          Gaps        \* can a GPU without devices come before one with devices?

ASSUME NodeAssumption ==
    /\ Requests \subseteq [MigProfiles -> Nat]
    /\ Gaps \in BOOLEAN

VARIABLES
    reported,  \* the status annotations of the Node: used and free devices per GPU
    gpus,      \* Node.GPUs
    asked,     \* the requested profiles
    required,  \* those that the GPUs visited so far do not provide
    pos,       \* the position of the next GPU to visit
    updated,   \* the geometry of a GPU was changed
    spec,      \* the spec annotations that are written
    stage

nodeVars == <<reported, gpus, asked, required, pos, updated, spec, stage>>

-----------------------------------------------------------------------------
NodeTypeOK ==
    /\ reported \in [Indexes -> [used : Quantities, free : Quantities]]
    /\ gpus \in Seq(GPU)
    /\ asked \in Requests /\ required \in Quantities
    /\ pos \in Nat /\ updated \in BOOLEAN
    /\ spec \in [Indexes -> Quantities]
    /\ stage \in {"new", "update", "init", "written", "initialized", "refused"}

-----------------------------------------------------------------------------
\* What the agent can report of a GPU: some of the devices of an allowed geometry.
Reportable ==
    LET Parts(geometry) == {f \in [MigProfiles -> 0..SumFunction(geometry)] :
                                \A p \in MigProfiles : f[p] <= geometry[p]}
        Split(f) == {[used |-> u, free |-> [p \in MigProfiles |-> f[p] - u[p]]] : u \in Parts(f)}
    IN  UNION {UNION {Split(f) : f \in Parts(Allowed[i])} : i \in DOMAIN Allowed}

NodeInit ==
    /\ reported \in [Indexes -> Reportable]
    /\ Gaps \/ \A i, j \in Indexes : i < j /\ HasDevices(reported[j]) => HasDevices(reported[i])
    /\ asked \in Requests
    /\ required = asked
    /\ gpus = <<>> /\ pos = 1 /\ updated = FALSE
    /\ spec = [i \in Indexes |-> NoDevices]
    /\ stage = "new"

\* NewNode, called by the Pod controller or by the initializer.
NewNode ==
    /\ stage = "new"
    /\ gpus' \in extractGPUs(reported)
    /\ stage' \in {"update", "init"}
    /\ UNCHANGED <<reported, asked, required, pos, updated, spec>>

-----------------------------------------------------------------------------
\* Node.UpdateGeometryFor visits the next GPU.
UpdateGpu ==
    /\ stage = "update" /\ pos <= Len(gpus)
    /\ LET visit == VisitGpu([NotVisited(required) EXCEPT !.updated = updated], gpus[pos])
       IN  /\ gpus' = [gpus EXCEPT ![pos] = visit.gpus[1]]
           /\ required' = visit.required
           /\ updated' = visit.updated
    /\ pos' = pos + 1
    /\ UNCHANGED <<reported, asked, spec, stage>>

\* updateNodeGeometry writes the partitioning, or leaves the node as it is.
FinishUpdate ==
    /\ stage = "update" /\ pos > Len(gpus)
    /\ IF updated /\ providesRequestedProfiles(gpus, asked)
       THEN spec' = BuildNodePartitioning(gpus, Indexes) /\ stage' = "written"
       ELSE stage' = "refused" /\ UNCHANGED spec
    /\ UNCHANGED <<reported, gpus, asked, required, pos, updated>>

-----------------------------------------------------------------------------
\* InitNodePartitioning visits the next GPU.  On one without devices every allowed
\* geometry can be applied, so that InitGeometry returns no error.
InitGpu ==
    /\ stage = "init" /\ pos <= Len(gpus)
    /\ IF isIdle(gpus[pos])
       THEN /\ gpus' = [gpus EXCEPT ![pos] = ApplyGeometry(@, GetFewestSlicesGeometry)]
            /\ updated' = TRUE
       ELSE UNCHANGED <<gpus, updated>>
    /\ pos' = pos + 1
    /\ UNCHANGED <<reported, asked, required, spec, stage>>

FinishInit ==
    /\ stage = "init" /\ pos > Len(gpus)
    /\ IF updated
       THEN spec' = BuildNodePartitioning(gpus, Indexes) /\ stage' = "initialized"
       ELSE stage' = "refused" /\ UNCHANGED spec
    /\ UNCHANGED <<reported, gpus, asked, required, pos, updated>>

NodeNext == NewNode \/ UpdateGpu \/ FinishUpdate \/ InitGpu \/ FinishInit

NodeSpec == NodeInit /\ [][NodeNext]_nodeVars

-----------------------------------------------------------------------------
(***************************************************************************)
(* Properties                                                              *)
(***************************************************************************)
Decided == stage \in {"written", "initialized"}

\* The spec keeps every device that a Pod uses on its GPU: otherwise the agent's plan
\* would name used devices and clear the whole spec (CanApplyGeometry).
SpecKeepsUsed ==
    Decided => \A i \in Indexes, p \in MigProfiles : spec[i][p] >= reported[i].used[p]

\* The spec of every GPU is an allowed geometry, or what the GPU already has: anything
\* else NVML may refuse to create (ApplyGeometry).
SpecIsAllowed ==
    Decided => \A i \in Indexes : AllowsGeometry(spec[i]) \/ spec[i] = GetGeometry(reported[i])

\* InitNodePartitioning leaves no GPU without devices, without which isNodeInitialized
\* would have the node initialized again at every event.
InitCoversEveryGpu ==
    stage = "initialized" => \A i \in Indexes : spec[i] # NoDevices

\* The geometries that keep the used devices of a GPU and may be tried on it.
Applicable(g) ==
    {geometry \in {Allowed[i] : i \in DOMAIN Allowed} :
        /\ \A p \in MigProfiles : geometry[p] >= g.used[p]
        /\ geometry \notin Sensitive \/ \A p \in MigProfiles : g.used[p] + g.free[p] = 0}

\* A GPU is changed exactly if some geometry that can be applied has more of a profile
\* of which too few are free, and then more of such a profile are free afterwards
\* (GPU.UpdateGeometryFor).
Lacks(g, p) == required[p] > g.free[p]

UpdatesIffUseful ==
    [][\A k \in DOMAIN gpus : stage = "update" /\ pos = k =>
        /\ (\E geometry \in Applicable(gpus[k]) : \E p \in MigProfiles :
                Lacks(gpus[k], p) /\ geometry[p] > gpus[k].used[p] + gpus[k].free[p])
              <=> gpus' # gpus
        /\ gpus' # gpus =>
                \E p \in MigProfiles : Lacks(gpus[k], p) /\ gpus'[k].free[p] > gpus[k].free[p]]_nodeVars

\* Releasing the devices of a Pod that asks for those profiles, to find out if it has to
\* be evicted, leaves every GPU its geometry; it frees exactly what the Pod asks for, or
\* fails and frees no more than that, although GPUs were changed before it was found that
\* the devices are not all in use (Node.ReleaseProfiles, with whose result findVictims
\* goes on).
ReleasesNoMore ==
    stage = "update" /\ pos = 1 => \A r \in ReleaseProfiles(gpus, asked) :
        /\ \A k \in DOMAIN gpus : GetGeometry(r.gpus[k]) = GetGeometry(gpus[k])
        /\ \A p \in MigProfiles :
            LET freed == UsedOn(gpus, DOMAIN gpus, p) - UsedOn(r.gpus, DOMAIN gpus, p)
            IN  freed \in 0..asked[p] /\ (r.ok => freed = asked[p])

\* "Add missing GPUs not included in node annotations": Node.GPUs has every GPU.
EveryGpuIncluded ==
    stage # "new" => {gpus[k].index : k \in DOMAIN gpus} = Indexes
=============================================================================
