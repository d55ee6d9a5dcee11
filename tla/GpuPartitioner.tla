---------------------------- MODULE GpuPartitioner ----------------------------
(***************************************************************************)
(* The GPU partitioner: the Pod controller (mig_controller.go), which      *)
(* writes a spec for the Pods that cannot be scheduled and evicts Pods of  *)
(* lower priority for the first of them, and the node controller           *)
(* (node_controller.go), which gives a GPU without devices its first       *)
(* geometry.  Both read Nodes and Pods from informer caches and write      *)
(* Nodes with merge patches.                                               *)
(*                                                                         *)
(* The scheduler and the kubelet, which bind, run and end Pods, and the    *)
(* agents of the nodes, which MigAgent describes in detail, are            *)
(* environment: an agent changes the devices of its node to those of the   *)
(* spec in one step, and reports them in another.                          *)
(***************************************************************************)
EXTENDS MigGeometry

CONSTANTS
    Nodes,        \* the nodes with MIG partitioning
    Pods,         \* the Pods that request MIG devices
    Request,      \* their profiles
    Priority,     \* their priorities
    Created,      \* their creation timestamps, no two the same
    Jobs,         \* those that come to an end by themselves
    Pinned,       \* the node of every Pod that belongs to a DaemonSet or to a Node
    Preemption,   \* is preemption enabled?
    MaxFaults     \* bound: calls to the API server that fail

ASSUME PodsAssumption ==
    /\ IsFiniteSet(Pods) /\ DOMAIN Pinned \subseteq Pods /\ Jobs \subseteq Pods /\ 0 \notin Pods
    /\ Request \in [Pods -> Quantities \ {NoDevices}]
    /\ Priority \in [Pods -> Int]
    /\ Created \in [Pods -> Nat] /\ \A p, q \in Pods : Created[p] = Created[q] => p = q

ASSUME NodesAssumption ==
    /\ IsFiniteSet(Nodes) /\ Nodes # {} /\ "nowhere" \notin Nodes
    /\ DOMAIN Allowed # {}
    /\ \A p \in DOMAIN Pinned : Pinned[p] \in Nodes
    /\ GpuCount # 0 /\ MaxFaults \in Nat /\ Preemption \in BOOLEAN

VARIABLES
    node,      \* the Nodes at the API server: spec annotations and repartitioning taint
    cache,     \* the copy of them in the partitioner's informer cache
    status,    \* the status annotations in that cache
    pod,       \* the Pods at the API server: phase, node and devices
    podCache,  \* what it makes of the copy of them in the informer cache
    devices,   \* the MIG devices of every GPU of every node
    pc,        \* where the Pod controller is
    view,      \* the Nodes it has listed, with their status
    todo,      \* those it has still to go through, in any order, as it has listed them
    current,   \* the one from which it evicts Pods
    target,    \* the first of the pending Pods it has listed, if any
    requested, \* the profiles it plans for
    victims,   \* the Pods it has still to evict
    lifted,    \* history: the agent has removed the taint behind which it evicts
    faults

ctrlVars == <<pc, view, todo, current, target, requested, victims>>
vars == <<node, cache, status, pod, podCache, devices, ctrlVars, lifted, faults>>

-----------------------------------------------------------------------------
NoSpec == [i \in Indexes |-> NoDevices]

NoStatus == [i \in Indexes |-> [used |-> NoDevices, free |-> NoDevices]]

Node == [spec : [Indexes -> Quantities], taint : BOOLEAN]

Status == [Indexes -> [used : Quantities, free : Quantities]]

Phases == {"unknown", "unschedulable", "running", "finished", "terminating", "gone"}

NoView == [node |-> [n \in Nodes |-> [spec |-> NoSpec, taint |-> FALSE]],
           status |-> [n \in Nodes |-> NoStatus]]

Places == Nodes \cup {"nowhere"}

\* The types of the variables.
TypeOK ==
    /\ node \in [Nodes -> Node] /\ cache \in [Nodes -> Node]
    /\ status \in [Nodes -> Status]
    /\ pod \in [Pods -> [phase : Phases, at : Places, devices : [Indexes -> Quantities]]]
    /\ podCache \in [Pods -> [phase : Phases, at : Places]]
    /\ devices \in [Nodes -> [Indexes -> Quantities]]
    /\ pc \in {"idle", "cleanAll", "clean", "repartition", "preempt", "evict", "untaint"}
    /\ view \in [node : [Nodes -> Node], status : [Nodes -> Status]]
    /\ todo \in SUBSET Nodes /\ current \in Places /\ target \in Pods \cup {0}
    /\ requested \in Quantities /\ victims \in Seq(Pods)
    /\ lifted \in BOOLEAN /\ faults \in 0..MaxFaults

\* The Pods of DaemonSets run, on the first GPUs of their nodes, which have a geometry with
\* room for them.  The other GPUs have no devices.  No other Pod can be scheduled, which the
\* partitioner does not know yet.
Init ==
    LET On(n) == {p \in DOMAIN Pinned : Pinned[p] = n}
        Given(p) == [i \in Indexes |-> IF i = 0 THEN Request[p] ELSE NoDevices]
        Used(n) == [i \in Indexes |-> [m \in MigProfiles |->
                        SumFunctionOnSet([p \in Pods |-> Given(p)[i][m]], On(n))]]
    IN  /\ \E g \in [Nodes -> DOMAIN Allowed] :
              devices = [n \in Nodes |-> [i \in Indexes |->
                            IF i = 0 /\ On(n) # {} THEN Allowed[g[n]] ELSE NoDevices]]
        /\ \A n \in Nodes : \A i \in Indexes : \A m \in MigProfiles : Used(n)[i][m] <= devices[n][i][m]
        /\ node = [n \in Nodes |-> [spec |-> devices[n], taint |-> FALSE]] /\ cache = node
        /\ status = [n \in Nodes |-> [i \in Indexes |->
                       [used |-> Used(n)[i],
                        free |-> [m \in MigProfiles |-> devices[n][i][m] - Used(n)[i][m]]]]]
        /\ pod = [p \in Pods |->
                    IF p \in DOMAIN Pinned
                    THEN [phase |-> "running", at |-> Pinned[p], devices |-> Given(p)]
                    ELSE [phase |-> "unschedulable", at |-> "nowhere", devices |-> NoSpec]]
        /\ podCache = [p \in Pods |->
                         IF p \in DOMAIN Pinned THEN [phase |-> "running", at |-> Pinned[p]]
                         ELSE [phase |-> "unknown", at |-> "nowhere"]]
        /\ pc = "idle" /\ view = NoView /\ todo = {} /\ current = "nowhere" /\ target = 0
        /\ requested = NoDevices /\ victims = <<>>
        /\ lifted = FALSE /\ faults = 0

Fault == faults < MaxFaults /\ faults' = faults + 1

-----------------------------------------------------------------------------
(***************************************************************************)
(* The decisions of the Pod controller                                     *)
(***************************************************************************)

\* sortPodsByPriorityAndAge
Before(p, q) ==
    Priority[p] > Priority[q] \/ (Priority[p] = Priority[q] /\ Created[p] < Created[q])

Sorted(S) == CHOOSE s \in SetToSeqs(S) : \A i, j \in DOMAIN s : i < j => Before(s[i], s[j])

\* The result of listPendingMigPods, sorted.
PendingPods == Sorted({p \in Pods : podCache[p].phase = "unschedulable"})

\* addPodRequestedProfiles, for the first m Pods.
RequestOf(pods, m) ==
    [p \in MigProfiles |-> SumFunction([i \in 1..m |-> Request[pods[i]][p]])]

\* profileAlreadyPresent: the profiles may be free on different nodes.
profileAlreadyPresent(reported, asked) ==
    \A p \in MigProfiles :
        asked[p] > 0 =>
            \E n \in Nodes : \E gpus \in extractGPUs(reported[n]) :
                FreeGeometry(gpus)[p] >= asked[p]

\* canRepartition for some order of the GPUs, and whatever their order.
MayRepartition(reported, asked) ==
    \E n \in Nodes : \E gpus \in extractGPUs(reported[n]) : Repartitionable(gpus, asked)

MustRepartition(reported, asked) ==
    \E n \in Nodes : \A gpus \in extractGPUs(reported[n]) : Repartitionable(gpus, asked)

\* buildRequestedProfilesPlan: how many of the pending Pods, the first ones, the plan
\* is for.
PlannedPods(reported, pods) ==
    {m \in 0..Len(pods) :
        /\ \A i \in 1..m : profileAlreadyPresent(reported, RequestOf(pods, i))
                             \/ MayRepartition(reported, RequestOf(pods, i))
        /\ m < Len(pods) => ~profileAlreadyPresent(reported, RequestOf(pods, m + 1))
                             /\ ~MustRepartition(reported, RequestOf(pods, m + 1))}

\* Faulty variant: the Pods of higher priority are candidates.
listHigherPriority(n) ==
    Reverse(Sorted({p \in Pods \ DOMAIN Pinned :
                       /\ podCache[p].at = n /\ podCache[p].phase = "running"
                       /\ Priority[target] < Priority[p]}))

\* listCandidateVictims: lower priorities first, and the younger first.  A Pod that has
\* finished is still on its node.
listCandidateVictims(n) ==
    Reverse(Sorted({p \in Pods \ DOMAIN Pinned :
                       /\ podCache[p].at = n /\ podCache[p].phase = "running"
                       /\ Priority[p] < Priority[target]}))

\* The devices that the target asks for are free, or a new geometry has them.
Satisfiable(gpus) ==
    hasFreeCapacityFor(gpus, Request[target]) \/ Repartitionable(gpus, Request[target])

\* One turn of the loop of findVictims over the candidates, from every state that the
\* turns before it can have led to.
ConsiderVictim(states, p) ==
    UNION {IF s.found THEN {s}
           ELSE {IF r.ok
                 THEN [gpus |-> r.gpus, victims |-> Append(s.victims, p),
                       found |-> Satisfiable(r.gpus)]
                 ELSE [s EXCEPT !.gpus = r.gpus] :
                   r \in ReleaseProfiles(s.gpus, Request[p])} : s \in states}

\* findVictims: the lists of victims it can return, <<>> if there is nothing to evict
\* or not enough.
findVictims(n) ==
    UNION {IF Satisfiable(gpus) THEN {<<>>}
           ELSE {IF s.found THEN s.victims ELSE <<>> :
                    s \in FoldLeft(ConsiderVictim,
                                   {[gpus |-> gpus, victims |-> <<>>, found |-> FALSE]},
                                   listCandidateVictims(n))} :
           gpus \in extractGPUs(view.status[n])}

-----------------------------------------------------------------------------
(***************************************************************************)
(* The Pod controller: one reconciliation at a time, for whichever Pod;    *)
(* it is always queued again.                                              *)
(***************************************************************************)
NoVictims == victims' = <<>> /\ current' = "nowhere" /\ lifted' = FALSE

Done ==
    /\ pc' = "idle" /\ view' = NoView /\ todo' = {} /\ target' = 0 /\ requested' = NoDevices
    /\ NoVictims

\* The loop over the nodes goes on after node n, or ends the reconciliation.
NextNode(n, stage) ==
    IF todo = {n} THEN Done
    ELSE /\ pc' = stage /\ todo' = todo \ {n} /\ NoVictims
         /\ UNCHANGED <<view, target, requested>>

Listing == [node |-> cache, status |-> status]

Specless(v) == [v EXCEPT !.node = [n \in Nodes |-> [@[n] EXCEPT !.spec = NoSpec]]]

\* Nothing was planned without preemption, for which the old spec does not matter.
Preempt ==
    /\ pc' = "preempt" /\ view' = Specless(view) /\ todo' = Nodes /\ requested' = NoDevices
    /\ NoVictims
    /\ UNCHANGED target

\* The nodes of cleanupRepartitioningTaints.
Tainted == {n \in Nodes : cache[n].taint}

\* Reconcile lists the Nodes and the Pods: without pending Pods all that is left to do
\* is to remove taints.
ReconcileNoPods ==
    /\ pc = "idle" /\ PendingPods = <<>> /\ Tainted # {}
    /\ pc' = "cleanAll" /\ todo' = Tainted
    /\ UNCHANGED <<node, cache, status, pod, podCache, devices, view, current, target, requested, victims, lifted,
                   faults>>

\* Otherwise it makes a plan for the first m Pods: for none, the first one is in need of
\* preemption; if what they request is there already, taints are removed first.
ReconcilePods ==
    /\ pc = "idle" /\ PendingPods # <<>>
    /\ target' = Head(PendingPods)
    /\ \E m \in PlannedPods(status, PendingPods) :
        LET Present == profileAlreadyPresent(status, RequestOf(PendingPods, m))
        IN  \/ /\ m > 0 /\ ~Present
               /\ pc' = "repartition" /\ todo' = Nodes /\ requested' = RequestOf(PendingPods, m)
               /\ view' = Listing
            \/ /\ m > 0 /\ Present /\ Tainted # {}
               /\ pc' = "clean" /\ todo' = Tainted /\ view' = Specless(Listing)
               /\ UNCHANGED requested
            \/ /\ m = 0 \/ (Present /\ Tainted = {})
               /\ pc' = "preempt" /\ todo' = Nodes /\ view' = Specless(Listing)
               /\ UNCHANGED requested
    /\ UNCHANGED <<node, cache, status, pod, podCache, devices, current, victims, lifted, faults>>

\* Faulty variant: the patch has the taints that the Node had.
removeNoTaint(n) == UNCHANGED node

\* removeRepartitioningTaint reads the Node once more, from the cache; the patch sets
\* the list of taints.
removeRepartitioningTaint(n) == node' = [node EXCEPT ![n].taint = @ /\ ~cache[n].taint]

\* cleanupRepartitioningTaints; an error ends the reconciliation.
CleanupTaint ==
    /\ pc \in {"clean", "cleanAll"}
    /\ \/ /\ \E n \in todo : /\ removeRepartitioningTaint(n)
                            /\ IF pc = "clean" /\ todo = {n} THEN Preempt ELSE NextNode(n, pc)
          /\ UNCHANGED faults
       \/ Fault /\ Done /\ UNCHANGED node
    /\ UNCHANGED <<cache, status, pod, podCache, devices>>

\* ApplyPartitioning: a merge patch of the spec annotations that differ from the Node
\* that was read.
SpecPatched(n, old, new) ==
    [node EXCEPT ![n].spec = [i \in Indexes |-> [p \in MigProfiles |->
        IF new[i][p] # old[i][p] THEN new[i][p] ELSE @[i][p]]]]

\* updateNodeGeometry for the next node: its spec is written and the reconciliation is
\* over, or the next one is tried.
UpdateNodeGeometry ==
    /\ pc = "repartition"
    /\ \E n \in todo :
       LET Continue == IF todo = {n} THEN Preempt ELSE NextNode(n, pc)
       IN  \E gpus \in extractGPUs(view.status[n]) :
             \/ /\ Repartitionable(gpus, requested)
                /\ node' = SpecPatched(n, view.node[n].spec,
                               BuildNodePartitioning(UpdateNode(gpus, requested).gpus, Indexes))
                /\ Done /\ UNCHANGED faults
             \/ Repartitionable(gpus, requested) /\ Fault /\ Continue /\ UNCHANGED node
             \/ ~Repartitionable(gpus, requested) /\ Continue /\ UNCHANGED <<node, faults>>
    /\ UNCHANGED <<cache, status, pod, podCache, devices>>

\* Faulty variant: the node is not tainted before the evictions.
TryPreemptionUntainted ==
    /\ pc = "preempt" /\ Preemption
    /\ \E n \in todo : \E found \in findVictims(n) :
          \/ /\ found # <<>>
             /\ pc' = "evict" /\ current' = n /\ victims' = found
             /\ UNCHANGED <<node, view, todo, target, requested, lifted, faults>>
          \/ found = <<>> /\ NextNode(n, pc) /\ UNCHANGED <<node, faults>>
    /\ UNCHANGED <<cache, status, pod, podCache, devices>>

\* tryPreemption for the next node: if there are victims the node is tainted, unless it
\* was when it was listed.  If preemption is not enabled the reconciliation is over.
TryPreemption ==
    /\ pc = "preempt"
    /\ IF ~Preemption THEN Done /\ UNCHANGED <<node, faults>>
       ELSE \E n \in todo : \E found \in findVictims(n) :
              \/ /\ found # <<>>
                 /\ node' = [node EXCEPT ![n].taint = @ \/ ~view.node[n].taint]
                 /\ pc' = "evict" /\ current' = n /\ victims' = found
                 /\ UNCHANGED <<view, todo, target, requested, lifted, faults>>
              \/ /\ found # <<>> /\ ~view.node[n].taint
                 /\ Fault /\ NextNode(n, pc) /\ UNCHANGED node
              \/ found = <<>> /\ NextNode(n, pc) /\ UNCHANGED <<node, faults>>
    /\ UNCHANGED <<cache, status, pod, podCache, devices>>

\* evictPodsUsingAPI: the API server marks the Pod for deletion, and deletes one that has
\* finished.  The last one ends the reconciliation.
Evict ==
    /\ pc = "evict"
    /\ LET p == Head(victims)
       IN  /\ pod[p].phase # "gone"
           /\ pod' = [pod EXCEPT ![p].phase = IF @ = "finished" THEN "gone" ELSE "terminating"]
    /\ IF Len(victims) = 1 THEN Done
       ELSE victims' = Tail(victims) /\ UNCHANGED <<pc, view, todo, current, target, requested, lifted>>
    /\ UNCHANGED <<node, cache, status, podCache, devices, faults>>

\* The eviction is refused, or the Pod is gone: the taint is removed (an error of that
\* is ignored) and the next node is tried.
EvictFails ==
    /\ pc = "evict"
    /\ \/ Fault
       \/ pod[Head(victims)].phase = "gone" /\ UNCHANGED faults
    /\ pc' = "untaint"
    /\ UNCHANGED <<node, cache, status, pod, podCache, devices, view, todo, current, target, requested,
                   victims, lifted>>

Untaint ==
    /\ pc = "untaint"
    /\ \/ removeRepartitioningTaint(current) /\ UNCHANGED faults
       \/ cache[current].taint /\ Fault /\ UNCHANGED node
    /\ NextNode(current, "preempt")
    /\ UNCHANGED <<cache, status, pod, podCache, devices>>

-----------------------------------------------------------------------------
(***************************************************************************)
(* The node controller                                                     *)
(***************************************************************************)

\* As many GPUs have a spec as the label says.
isNodeInitialized(n) == Cardinality({i \in Indexes : cache[n].spec[i] # NoDevices}) = GpuCount

\* Reconcile: for a Node that is not initialized, InitNodePartitioning writes a spec that
\* gives its GPUs without devices the initial geometry.
InitNodePartitioning(n) ==
    /\ ~isNodeInitialized(n)
    /\ \E gpus \in extractGPUs(status[n]) :
        /\ \E k \in DOMAIN gpus : isIdle(gpus[k])
        /\ LET new == [k \in DOMAIN gpus |->
                          IF isIdle(gpus[k]) THEN ApplyGeometry(gpus[k], GetFewestSlicesGeometry)
                          ELSE gpus[k]]
           IN  node' = SpecPatched(n, cache[n].spec, BuildNodePartitioning(new, Indexes))
    /\ UNCHANGED <<cache, status, pod, podCache, devices, ctrlVars, lifted, faults>>

-----------------------------------------------------------------------------
(***************************************************************************)
(* The environment                                                         *)
(***************************************************************************)
SyncNode(n) ==
    /\ cache[n] # node[n]
    /\ cache' = [cache EXCEPT ![n] = node[n]]
    /\ UNCHANGED <<node, status, pod, podCache, devices, ctrlVars, lifted, faults>>

\* What the controller makes of a Pod: it does not ask whether one on a node has finished,
\* and passes over those that are being deleted.
Listed(p) ==
    CASE pod[p].phase \in {"running", "finished"} -> [phase |-> "running", at |-> pod[p].at]
      [] pod[p].phase = "unschedulable" -> [phase |-> "unschedulable", at |-> "nowhere"]
      [] OTHER -> [phase |-> "unknown", at |-> "nowhere"]

SyncPod(p) ==
    /\ podCache[p] # Listed(p)
    /\ podCache' = [podCache EXCEPT ![p] = Listed(p)]
    /\ UNCHANGED <<node, cache, status, pod, devices, ctrlVars, lifted, faults>>

\* The devices of a GPU that Pods hold.
Held(n, i) ==
    [m \in MigProfiles |->
        SumFunctionOnSet([p \in Pods |-> pod[p].devices[i][m]], {p \in Pods : pod[p].at = n})]

Free(n, i) == [m \in MigProfiles |-> devices[n][i][m] - Held(n, i)[m]]

\* The ways to give a Pod the devices it asks for on node n.
Allocations(p, n) ==
    {f \in [Indexes -> [MigProfiles -> 0..Max({Request[p][m] : m \in MigProfiles})]] :
        \A m \in MigProfiles :
            /\ MapThenSumSet(LAMBDA i : f[i][m], Indexes) = Request[p][m]
            /\ \A i \in Indexes : f[i][m] <= Free(n, i)[m]}

PodOnly == UNCHANGED <<node, cache, status, podCache, devices, ctrlVars, lifted, faults>>

\* The scheduler binds a Pod to a node that is not tainted, where the kubelet gives it
\* its devices.
Bind(p, n) ==
    /\ pod[p].phase = "unschedulable" /\ ~node[n].taint
    /\ \E f \in Allocations(p, n) :
        pod' = [pod EXCEPT ![p] = [phase |-> "running", at |-> n, devices |-> f]]
    /\ PodOnly

\* A Pod that is not a service comes to its end: its devices are free again, and it
\* stays until it is evicted.
Finish(p) ==
    /\ p \in Jobs /\ pod[p].phase = "running"
    /\ pod' = [pod EXCEPT ![p].phase = "finished", ![p].devices = NoSpec]
    /\ PodOnly

\* Another one may be deleted while it waits.
Withdraw(p) ==
    /\ p \notin Jobs /\ pod[p].phase = "unschedulable"
    /\ pod' = [pod EXCEPT ![p].phase = "gone"]
    /\ PodOnly

\* The containers of an evicted Pod have stopped.
Terminate(p) ==
    /\ pod[p].phase = "terminating"
    /\ pod' = [pod EXCEPT ![p] = [phase |-> "gone", at |-> "nowhere", devices |-> NoSpec]]
    /\ PodOnly

\* A geometry that NVML can realise, if only in part.
Realizable(quantities) ==
    \E k \in DOMAIN Allowed : \A p \in MigProfiles : quantities[p] <= Allowed[k][p]

\* The agent of node n applies the spec; it clears one that would delete used devices,
\* and removes the taint if the devices cannot be created.
AgentApply(n) ==
    LET spec == node[n].spec
        Keeps == \A i \in Indexes : \A p \in MigProfiles : spec[i][p] >= Held(n, i)[p]
    IN  /\ spec # devices[n]
        /\ \/ Keeps /\ (\A i \in Indexes : Realizable(spec[i]))
              /\ devices' = [devices EXCEPT ![n] = spec] /\ UNCHANGED <<node, lifted>>
           \/ Keeps /\ (\E i \in Indexes : ~Realizable(spec[i]))
              /\ node' = [node EXCEPT ![n].taint = FALSE] /\ UNCHANGED devices
              /\ lifted' = (lifted \/ (pc = "evict" /\ n = current /\ node[n].taint))
           \/ ~Keeps /\ node' = [node EXCEPT ![n].spec = NoSpec] /\ UNCHANGED <<devices, lifted>>
        /\ UNCHANGED <<cache, status, pod, podCache, ctrlVars, faults>>

StatusOf(n) == [i \in Indexes |-> [used |-> Held(n, i), free |-> Free(n, i)]]

\* It reports the devices, and the informer delivers the report.
AgentReport(n) ==
    /\ LET now == StatusOf(n)
       IN  status[n] # now /\ status' = [status EXCEPT ![n] = now]
    /\ UNCHANGED <<node, cache, pod, podCache, devices, ctrlVars, lifted, faults>>

-----------------------------------------------------------------------------
PodController ==
    \/ ReconcileNoPods \/ ReconcilePods \/ CleanupTaint \/ UpdateNodeGeometry
    \/ TryPreemption \/ Evict \/ EvictFails \/ Untaint

Agent(n) == AgentApply(n) \/ AgentReport(n)

Scheduler(p) == \E n \in Nodes : Bind(p, n)

Next ==
    \/ PodController
    \/ \E n \in Nodes : InitNodePartitioning(n) \/ SyncNode(n) \/ Agent(n)
    \/ \E p \in Pods : SyncPod(p) \/ Scheduler(p) \/ Finish(p) \/ Withdraw(p)
                        \/ Terminate(p)

Spec == Init /\ [][Next]_vars

(***************************************************************************)
(* Fairness.  The Pod controller is queued again after every round, at the *)
(* latest after requeueInterval; informers deliver; the agents apply and   *)
(* report at every refresh interval; the scheduler tries a pending Pod     *)
(* again and again, and the kubelet stops the Pods that are evicted.       *)
(* Nothing is assumed of faults, of Pods that finish, or of the node       *)
(* controller: the Pod controller does not wait for it.                    *)
(***************************************************************************)
Due == pc # "idle" \/ PendingPods # <<>> \/ Tainted # {}

\* Weak fairness of PodController, which is enabled exactly if it is Due, and whose steps
\* are those that change its variables.
ControllerRuns == []<>(~Due) \/ []<><<TRUE>>_ctrlVars

\* Weak fairness of SyncNode, SyncPod, AgentReport and Terminate: each of them ends what
\* enables it, so that it is taken whenever it stays enabled exactly if it is disabled
\* again and again.
Delivered ==
    /\ \A n \in Nodes : []<>(cache[n] = node[n]) /\ []<>(status[n] = StatusOf(n))
    /\ \A p \in Pods \ DOMAIN Pinned :
            []<>(podCache[p] = Listed(p)) /\ []<>(pod[p].phase # "terminating")

Fairness ==
    /\ ControllerRuns /\ Delivered
    /\ \A n \in Nodes : WF_vars(AgentApply(n))
    /\ \A p \in Pods \ DOMAIN Pinned : WF_vars(Scheduler(p))

FairSpec == Spec /\ Fairness

-----------------------------------------------------------------------------
(***************************************************************************)
(* Properties                                                              *)
(***************************************************************************)
Unserved(p) == pod[p].phase = "unschedulable"

\* Pod p is the first of those that wait.
First(p) == Unserved(p) /\ \A q \in Pods : Unserved(q) => q = p \/ Before(p, q)

\* The devices of GPU i that have to stay whatever is done for Pod p.
Kept(p, n, i) ==
    [m \in MigProfiles |-> MapThenSumSet(LAMBDA q : pod[q].devices[i][m],
        {q \in Pods : /\ pod[q].at = n
                      /\ ~(Preemption /\ q \notin DOMAIN Pinned /\ Priority[q] < Priority[p])})]

\* Geometries of the GPUs of some node have room for Pod p beside those devices.
Possible(p) ==
    \E n \in Nodes : \E f \in [Indexes -> DOMAIN Allowed] : \A m \in MigProfiles :
        /\ \A i \in Indexes : Allowed[f[i]][m] >= Kept(p, n, i)[m]
        /\ MapThenSumSet(LAMBDA i : Allowed[f[i]][m] - Kept(p, n, i)[m], Indexes) >= Request[p][m]

\* The profiles of Pod p are free, though on different nodes, so that no geometry is planned
\* for it (mig_controller.go:257, 412); and nobody is evicted from a node whose geometry
\* could be changed for it (476).
Overlooked(p) ==
    /\ profileAlreadyPresent(status, Request[p])
    /\ \A n \in Nodes : \A gpus \in extractGPUs(status[n]) : ~hasFreeCapacityFor(gpus, Request[p])
    /\ MayRepartition(status, Request[p])

\* The first of the waiting Pods does not wait for ever if there is a way to give it its
\* devices, by a new geometry or by evicting Pods of lower priority, except if it is
\* overlooked.
FirstIsServed == <>[](\A p \in Pods : First(p) => ~Possible(p) \/ Overlooked(p))

\* A node stays tainted only as long as a Pod waits that cannot be served.
TaintsGo == <>[](\A n \in Nodes : node[n].taint => \E p \in Pods : Unserved(p) /\ ~Possible(p))

\* A Pod is evicted from a node only while its taint keeps the scheduler from giving
\* the devices to another Pod, except if the taint that was seen when the nodes were
\* listed is gone, or if the agent has met a spec that it cannot apply since the
\* evictions began.
EvictsBehindTaint ==
    [][\A p \in Pods : pod[p].phase = "running" /\ pod'[p].phase = "terminating" =>
          node[pod[p].at].taint \/ view.node[pod[p].at].taint \/ lifted]_vars

\* "eviction-based preemption when repartitioning cannot satisfy highest-priority pending
\* pods": a Pod is evicted only if no node that was listed has, or can be given, the
\* devices of the first waiting Pod.
EvictsOnlyIfNeeded ==
    [][\A p \in Pods : pod[p].phase = "running" /\ pod'[p].phase = "terminating" =>
          \A n \in Nodes : \A gpus \in extractGPUs(view.status[n]) : ~Satisfiable(gpus)]_vars
=============================================================================
