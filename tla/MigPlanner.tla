----------------------------- MODULE MigPlanner -----------------------------
(***************************************************************************)
(* One run of the planner on any device list and any spec, with the        *)
(* properties of the plan that Actuator.apply relies on.                   *)
(***************************************************************************)
EXTENDS MigPlan

CONSTANTS Ids,         \* the ids of the devices
          MaxQuantity  \* bound: the largest quantity of a spec annotation

ASSUME PlannerAssumption ==
    /\ IsFiniteSet(Ids) /\ Ids \subseteq Nat
    /\ MaxQuantity \in Nat

VARIABLES state,   \* the devices of the node: no two have the same id
          spec,    \* the spec annotations
          plan     \* <<>>, or the plan in a sequence

vars == <<state, spec, plan>>

Device == [id : Ids, gpu : GPUs, profile : Profiles, used : BOOLEAN]

\* NewMigState groups a list in which an id occurs once.
NewMigState ==
    UNION {{{[id |-> i, gpu |-> f[i][1], profile |-> f[i][2], used |-> f[i][3]] : i \in T} :
               f \in [T -> GPUs \X Profiles \X BOOLEAN]} : T \in SUBSET Ids}

Init ==
    /\ state \in NewMigState
    /\ spec \in [Keys -> 0..MaxQuantity]
    /\ plan = <<>>

MakePlan ==
    /\ plan = <<>>
    /\ plan' = <<NewMigConfigPlan(state, spec)>>
    /\ UNCHANGED <<state, spec>>

Spec == Init /\ [][MakePlan]_vars

-----------------------------------------------------------------------------
Planned(P(_)) == plan # <<>> => P(plan[1])

\* What the delete operations of a plan leave.
Remaining(p) == state \ ToDelete(p)

\* A plan whose every operation succeeds turns the devices into what the spec says,
\* the devices it deletes only to create them again included (NewMigConfigPlan).
Reaches(p) == \A k \in Keys : Counts(Remaining(p))[k] + ToCreate(p)[k] = spec[k]

PlanReachesSpec == Planned(Reaches)

\* No two delete operations name the same device, and all of them name existing
\* ones: otherwise DeleteMigDevice returns NotFound and a good plan counts as failed.
Disjoint(p) ==
    /\ ToDelete(p) \subseteq state
    /\ \A D, E \in p.delete : D # E => D \cap E = {}

DeletesOnce == Planned(Disjoint)

\* The plan names used devices, which makes apply reset the spec, only where the spec
\* leaves less than the used ones, and then as few as possible.
Sparing(p) ==
    \A k \in Keys :
        LET used    == {d \in OfKey(state, k) : d.used}
            deleted == used \cap ToDelete(p)
        IN  Cardinality(used) <= spec[k] + Cardinality(deleted)
              /\ (deleted # {} => Cardinality(used) = spec[k] + Cardinality(deleted))

UsedOnlyIfForced == Planned(Sparing)

\* A GPU that already is as the spec says is left alone, whatever happens on the others.
SettledGpus == {g \in GPUs : \A p \in Profiles : Counts(state)[<<g, p>>] = spec[<<g, p>>]}

LeavesAlone(p) ==
    \A g \in SettledGpus :
        /\ \A d \in ToDelete(p) : d.gpu # g
        /\ \A m \in Profiles : ToCreate(p)[<<g, m>>] = 0

SettledGpuUntouched == Planned(LeavesAlone)

\* Before anything is created on a GPU all its free devices go, so that only used
\* ones constrain the order in which NVML can place the new ones.
Clears(p) ==
    \A d \in Remaining(p) : d.used \/ \A m \in Profiles : ToCreate(p)[<<d.gpu, m>>] = 0

ClearsBeforeCreate == Planned(Clears)

\* The plan is empty exactly when MigState.Matches, which Actuator.plan asks first.
Exact(p) == IsEmpty(p) <=> Matches(state, spec)

EmptyIffMatches == Planned(Exact)
=============================================================================
