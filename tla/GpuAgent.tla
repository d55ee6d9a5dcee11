------------------------------- MODULE GpuAgent -------------------------------
(***************************************************************************)
(* The GPU agent of a node whose GPUs are shared by slices of memory: its  *)
(* Reporter (internal/controllers/gpuagent/reporter.go) asks the kubelet   *)
(* for the used and then for the allocatable slices, and shows them in the *)
(* status annotations of the Node.  It makes no change to the slices; the  *)
(* device plugin does, and the kubelet gives them to Pods meanwhile.       *)
(***************************************************************************)
EXTENDS Naturals, FiniteSets

CONSTANTS
    Slices,       \* the slices there may be: records [id, gpu, profile]
    Sharings,     \* the sets of slices that the device plugin can be configured with
    MaxChanges,   \* bound: new configurations of the device plugin
    MaxPods,      \* bound: allocations of a slice to a Pod
    MaxFaults,    \* bound: calls to the API server, the kubelet or NVML that fail
    MaxRestarts   \* bound: restarts of the agent process

ASSUME SlicesAssumption ==
    /\ IsFiniteSet(Slices) /\ Sharings \subseteq SUBSET Slices
    /\ \A sharing \in Sharings : \A s, t \in sharing : s.id = t.id => s = t
    /\ MaxChanges \in Nat /\ MaxPods \in Nat /\ MaxFaults \in Nat /\ MaxRestarts \in Nat

VARIABLES
    advertised,   \* the slices the kubelet can allocate
    allocated,    \* those that Pods have
    node,         \* the Node: status annotations, capacity and allocatable quantities
    cache,        \* the copy of it in the informer cache
    pc,           \* where Reconcile is
    view,         \* the Node that it has read
    used,         \* the used slices that it has listed
    shown,        \* the status annotations it has computed
    queued,       \* the work queue holds the node
    later,        \* the node will be added to the queue after refreshInterval
    changes, pods, faults, restarts

local  == <<pc, view, used, shown>>
bounds == <<changes, pods, faults, restarts>>
vars   == <<advertised, allocated, node, cache, local, queued, later, bounds>>

-----------------------------------------------------------------------------
Keys == {<<s.gpu, s.profile>> : s \in Slices}

Counts(S) == [k \in Keys |-> Cardinality({s \in S : <<s.gpu, s.profile>> = k})]

Quantities == [Keys -> Nat]

Status == [used : Quantities, free : Quantities]

Node == [status : Status, capacity : Quantities, allocatable : Quantities]

NoStatus == [used |-> Counts({}), free |-> Counts({})]

NoNode == [status |-> NoStatus, capacity |-> Counts({}), allocatable |-> Counts({})]

\* The types of the variables.
TypeOK ==
    /\ advertised \subseteq Slices /\ allocated \subseteq Slices
    /\ node \in Node /\ cache \in Node
    /\ pc \in {"idle", "used", "patch"}
    /\ view \in Node /\ used \subseteq Slices /\ shown \in Status
    /\ queued \in BOOLEAN /\ later \in BOOLEAN
    /\ changes \in 0..MaxChanges /\ pods \in 0..MaxPods
    /\ faults \in 0..MaxFaults /\ restarts \in 0..MaxRestarts

Init ==
    /\ advertised \in Sharings /\ allocated = {}
    /\ node = NoNode /\ cache = NoNode
    /\ pc = "idle" /\ view = NoNode /\ used = {} /\ shown = NoStatus
    /\ queued = TRUE /\ later = FALSE
    /\ changes = 0 /\ pods = 0 /\ faults = 0 /\ restarts = 0

-----------------------------------------------------------------------------
(***************************************************************************)
(* Reporter.Reconcile                                                      *)
(***************************************************************************)
Idle == pc' = "idle" /\ view' = NoNode /\ used' = {} /\ shown' = NoStatus

\* Faulty variant: a report that goes well is not followed by another one.
RequeueNever == later' = FALSE

\* The result of a reconciliation without error: RequeueAfter the refresh interval.
Requeue == later' = TRUE

\* It reads the Node from the cache and lists the used slices ...
ListUsed ==
    /\ pc = "idle" /\ queued
    /\ pc' = "used" /\ view' = cache /\ used' = allocated /\ queued' = FALSE
    /\ UNCHANGED <<advertised, allocated, node, cache, shown, later, bounds>>

\* Faulty variant: all the allocatable slices are free.
AllAreFree(inUse, allocatable) == allocatable

\* ComputeFreeDevicesAndUpdateStatus
ComputeFree(inUse, allocatable) ==
    {s \in allocatable : s.id \notin {u.id : u \in inUse}}

AsStatusAnnotation(inUse, allocatable) ==
    [used |-> Counts(inUse), free |-> Counts(ComputeFree(inUse, allocatable))]

\* ... then the allocatable ones, and compares: there is nothing to do ...
ReportUnchanged ==
    /\ pc = "used"
    /\ AsStatusAnnotation(used, advertised) = view.status
    /\ Idle /\ Requeue
    /\ UNCHANGED <<advertised, allocated, node, cache, queued, bounds>>

\* ... or there is a new status to write.
ListAllocatable ==
    /\ pc = "used"
    /\ shown' = AsStatusAnnotation(used, advertised)
    /\ shown' # view.status
    /\ pc' = "patch"
    /\ UNCHANGED <<advertised, allocated, node, cache, view, used, queued, later, bounds>>

\* A merge patch: the annotations that differ from those of the Node that was read.
Patched(current, old, new) ==
    [k \in Keys |-> IF new[k] # old[k] THEN new[k] ELSE current[k]]

PatchNode ==
    /\ pc = "patch"
    /\ node' = [node EXCEPT !.status =
                  [used |-> Patched(@.used, view.status.used, shown.used),
                   free |-> Patched(@.free, view.status.free, shown.free)]]
    /\ Idle /\ Requeue
    /\ UNCHANGED <<advertised, allocated, cache, queued, bounds>>

\* A call fails, or NVML does not know the GPU of a slice: the node is queued again.
ReconcileFails ==
    /\ pc # "idle"
    /\ faults < MaxFaults /\ faults' = faults + 1
    /\ queued' = TRUE /\ Idle
    /\ UNCHANGED <<advertised, allocated, node, cache, later, changes, pods, restarts>>

-----------------------------------------------------------------------------
(***************************************************************************)
(* The work queue and the informer                                         *)
(***************************************************************************)
RefreshInterval ==
    /\ later
    /\ later' = FALSE /\ queued' = TRUE
    /\ UNCHANGED <<advertised, allocated, node, cache, local, bounds>>

\* NodeResourcesChanged: an update that changes the allocatable quantities is dropped.
NodeResourcesChanged(old, new) ==
    new.allocatable = old.allocatable /\ new.capacity # old.capacity

CacheSync ==
    /\ cache # node
    /\ cache' = node
    /\ queued' = (queued \/ NodeResourcesChanged(cache, node))
    /\ UNCHANGED <<advertised, allocated, node, local, later, bounds>>

\* The process is restarted: its cache is filled and the node queued.
Restart ==
    /\ restarts < MaxRestarts /\ restarts' = restarts + 1
    /\ cache' = node /\ Idle /\ queued' = TRUE /\ later' = FALSE
    /\ UNCHANGED <<advertised, allocated, node, changes, pods, faults>>

-----------------------------------------------------------------------------
(***************************************************************************)
(* The environment                                                         *)
(***************************************************************************)

\* The device plugin registers other slices; Pods keep those they have.
Reconfigure(sharing) ==
    /\ changes < MaxChanges /\ changes' = changes + 1
    /\ sharing # advertised /\ advertised' = sharing
    /\ UNCHANGED <<allocated, node, cache, local, queued, later, pods, faults, restarts>>

\* The kubelet shows them in the Node, those that are not healthy in its capacity only.
ShowCapacity ==
    /\ node.capacity # Counts(advertised)
    /\ \E quantities \in {node.allocatable, Counts(advertised)} :
        node' = [node EXCEPT !.capacity = Counts(advertised), !.allocatable = quantities]
    /\ UNCHANGED <<advertised, allocated, cache, local, queued, later, bounds>>

Allocate(s) ==
    /\ pods < MaxPods /\ pods' = pods + 1
    /\ s.id \notin {u.id : u \in allocated}
    /\ allocated' = allocated \cup {s}
    /\ UNCHANGED <<advertised, node, cache, local, queued, later, changes, faults, restarts>>

Release(s) ==
    /\ allocated' = allocated \ {s}
    /\ UNCHANGED <<advertised, node, cache, local, queued, later, bounds>>

-----------------------------------------------------------------------------
Reconcile ==
    ListUsed \/ ReportUnchanged \/ ListAllocatable \/ PatchNode \/ ReconcileFails

Next ==
    \/ Reconcile \/ RefreshInterval \/ CacheSync \/ Restart
    \/ (\E sharing \in Sharings : Reconfigure(sharing)) \/ ShowCapacity
    \/ (\E s \in advertised : Allocate(s)) \/ (\E s \in allocated : Release(s))

Spec == Init /\ [][Next]_vars

\* controller-runtime serves its queue and adds the node again when the interval is
\* over, which is 10 s by default; the informer delivers.
FairSpec == Spec /\ WF_vars(Reconcile) /\ WF_vars(RefreshInterval) /\ WF_vars(CacheSync)

-----------------------------------------------------------------------------
(***************************************************************************)
(* Properties                                                              *)
(***************************************************************************)

\* Once the slices and the Pods that use them no longer change, the annotations come to
\* show them and stay so: although both lists and the cached Node may be out of date
\* in any round, although the patch contains differences only, and although the change
\* of the allocatable quantities itself starts no round.
ShowsSlices == <>[](node.status = AsStatusAnnotation(allocated, advertised))

Total(status, g) ==
    [p \in {k[2] : k \in Keys} |->
        IF <<g, p>> \in Keys THEN status.used[<<g, p>>] + status.free[<<g, p>>] ELSE 0]

\* However Pods take and return slices between the two lists, no slice is counted as
\* used and as free: as long as the device plugin keeps its configuration, a round
\* computes as many slices of each size as there are (GetDevices).
CountsOnce ==
    pc = "patch" /\ changes = 0 =>
        \A s \in Slices : Total(shown, s.gpu) = Total([used |-> Counts({}), free |-> Counts(advertised)], s.gpu)
=============================================================================
