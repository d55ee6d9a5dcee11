------------------------------- MODULE MigPlan -------------------------------
(***************************************************************************)
(* The planner of the MIG agent: internal/controllers/migagent/plan/.      *)
(*                                                                         *)
(* A device list is a set of records [id, gpu, profile, used]: DeviceId is *)
(* the sort key (SortByDeviceId), so ids are numbers.  A list of spec      *)
(* annotations is a function from (GPU, profile) pairs to quantities, 0    *)
(* standing for "no annotation": BuildNodePartitioning never writes a      *)
(* quantity of 0 and the API server holds one annotation per key.          *)
(***************************************************************************)
EXTENDS Naturals, FiniteSets

CONSTANTS GPUs,      \* the indexes of the MIG-enabled GPUs of the node
          Profiles   \* the names of the MIG profiles

\* mig.Profile: a profile name together with the index of the GPU it is on.
Keys == GPUs \X Profiles

Key(d) == <<d.gpu, d.profile>>

NoProfiles == [k \in Keys |-> 0]

(***************************************************************************)
(* mig_state.go                                                            *)
(***************************************************************************)

\* GroupDevicesByMigProfile(devices)[k]
OfKey(devices, k) == {d \in devices : Key(d) = k}

\* The quantities per GPU and profile of a device list.
Counts(devices) == [k \in Keys |-> Cardinality(OfKey(devices, k))]

\* MigState.Matches: the quantities of the state are those of the spec.
Matches(state, spec) == Counts(state) = spec

(***************************************************************************)
(* plan.go                                                                 *)
(***************************************************************************)

\* Faulty variant: one device too many.
FirstOffByOne(devices, n) ==
    {d \in devices : Cardinality({e \in devices : e.id < d.id}) <= n}

\* The n devices of a list that come first in the order of their ids.
First(devices, n) ==
    {d \in devices : Cardinality({e \in devices : e.id < d.id}) < n}

\* Free devices in the order of their ids; used ones only if those are too few.
extractCandidatesForDeletion(devices, n) ==
    LET free == {d \in devices : ~d.used}
        used == devices \ free
    IN  First(free, n)
          \cup First(used, IF n > Cardinality(free) THEN n - Cardinality(free) ELSE 0)

\* Faulty variant: a profile that the spec mentions on another GPU is kept.
NotIncludedOnAnyGpu(state, spec) ==
    {d \in state : \A g \in GPUs : spec[<<g, d.profile>>] = 0}

getResourcesNotIncludedInSpec(state, spec) ==
    {d \in state : spec[Key(d)] = 0}

\* One delete operation per profile that the spec does not mention.
DeleteNotInSpec(state, spec) ==
    {OfKey(getResourcesNotIncludedInSpec(state, spec), k) : k \in Keys} \ {{}}

\* One delete operation per profile that the spec mentions with fewer devices.
DeleteExcess(state, spec) ==
    {extractCandidatesForDeletion(OfKey(state, k), Counts(state)[k] - spec[k]) :
        k \in {j \in Keys : spec[j] > 0 /\ Counts(state)[j] > spec[j]}}

\* Faulty variant: the sign of the difference is not looked at.
CreateDifference(state, spec) == [k \in Keys |-> spec[k] - Counts(state)[k]]

\* The create operations: the devices that the spec mentions and the state lacks.
CreateMissing(state, spec) ==
    [k \in Keys |-> IF spec[k] > Counts(state)[k] THEN spec[k] - Counts(state)[k] ELSE 0]

\* Faulty variants: nCreateOp is not reset from one GPU to the next; it is compared
\* with the wrong number.
GpusAfterCreateOp(state, spec) ==
    {g \in GPUs : \E k \in Keys : CreateMissing(state, spec)[k] > 0}

GpusWithTwoCreateOps(state, spec) ==
    {g \in GPUs : \A p \in Profiles : CreateMissing(state, spec)[<<g, p>>] > 0}

GpusWithCreateOp(state, spec) ==
    {g \in GPUs : \E p \in Profiles : CreateMissing(state, spec)[<<g, p>>] > 0}

\* Faulty variants: used devices are recreated as well; the devices that other
\* operations delete are not left out.
RecreateUsedToo(state, spec, g) ==
    {d \in state : /\ d.gpu = g
                   /\ d \notin UNION (DeleteNotInSpec(state, spec) \cup DeleteExcess(state, spec))}

RecreateAllFree(state, spec, g) == {d \in state : d.gpu = g /\ ~d.used}

\* The free devices of a GPU that no other delete operation removes.
extractResourcesToRecreate(state, spec, g) ==
    {d \in state : /\ d.gpu = g
                   /\ ~d.used
                   /\ d \notin UNION (DeleteNotInSpec(state, spec) \cup DeleteExcess(state, spec))}

\* The devices deleted only to be created again, GPU by GPU.
Recreated(state, spec) ==
    UNION {extractResourcesToRecreate(state, spec, g) : g \in GpusWithCreateOp(state, spec)}

DeleteForRecreate(state, spec) ==
    {extractResourcesToRecreate(state, spec, g) : g \in GpusWithCreateOp(state, spec)} \ {{}}

(***************************************************************************)
(* The plan.  "delete" is the list of delete operations, each a list of    *)
(* devices; "create" and "recreate" are the quantities of the two kinds of *)
(* create operation.  MigConfigPlan.Equal compares both lists regardless   *)
(* of order, which is equality of these records.                           *)
(***************************************************************************)
NewMigConfigPlan(state, spec) ==
    [delete   |-> DeleteNotInSpec(state, spec) \cup DeleteExcess(state, spec)
                    \cup DeleteForRecreate(state, spec),
     create   |-> CreateMissing(state, spec),
     recreate |-> Counts(Recreated(state, spec))]

EmptyPlan == [delete |-> {}, create |-> NoProfiles, recreate |-> NoProfiles]

IsEmpty(plan) == plan = EmptyPlan

\* CreateOperationList.Flatten, as quantities.
ToCreate(plan) == [k \in Keys |-> plan.create[k] + plan.recreate[k]]

\* getResourcesToDelete
ToDelete(plan) == UNION plan.delete

\* actuator.go: does any delete operation name a device that a Pod uses?
containsUsedResources(plan) == \E d \in ToDelete(plan) : d.used
=============================================================================
