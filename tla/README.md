# walkai-nos: a TLA+ verification project

The repository partitions NVIDIA GPUs of a Kubernetes cluster into MIG devices on demand. A *GPU
partitioner* decides, from pending Pods, which MIG devices a node should have and writes that as
annotations of the Node; a *MIG agent* on every node turns the annotations into devices and reports
what exists in other annotations; a *GPU agent* reports the memory slices of nodes that share their GPUs
without MIG. This directory models all three, the NVML client below the MIG agent, the geometry of GPUs,
and the batcher.

## 1. The system

| component | state | operations | talks to |
|---|---|---|---|
| MIG agent, planner (`internal/controllers/migagent/plan`) | none | `NewMigConfigPlan`: delete and create operations from the devices and the spec | called by the Actuator |
| MIG agent, Actuator (`actuator.go`, `shared.go`) | `lastAppliedPlan`, `lastAppliedStatus`, `SharedState` | `Reconcile`, `apply`, `resetNodeSpec`, `clearRepartitioningTaint` | Node (cache, merge patch), NVML, device plugin Pod |
| MIG agent, Reporter (`reporter.go`, `shared.go`) | `SharedState` | `Reconcile`, at every refresh interval | Node, kubelet, NVML |
| MIG agent, start (`cmd/migagent`) | none | cleanup of unused devices, start of both controllers | kubelet, NVML |
| NVML client (`pkg/gpu/nvml`) | the instances in the driver | create, delete, delete all except | driver |
| device plugin client (`pkg/gpu/client.go`) | the plugin Pod | `Restart`, wait | API server |
| kubelet client (`pkg/resource`, `pkg/gpu/mig/client.go`) | the kubelet's lists | used and allocatable devices | kubelet |
| geometry of GPUs and nodes (`pkg/gpu/mig/gpu.go`, `node.go`) | used/free quantities per GPU | `UpdateGeometryFor`, `ApplyGeometry`, `AddPod`, `ReleaseProfiles` | called by the partitioner |
| GPU partitioner, Pod controller (`gpupartitioner/mig_controller.go`) | none of its own; Nodes and Pods through a cache | planning, preemption, tainting, writing the spec | Node, Pods, MIG agent (through annotations) |
| GPU partitioner, node controller and initializer | none | first partitioning of a node | Node |
| GPU agent and slicing (`gpuagent`, `pkg/gpu/slicing`) | used/free slices | report, geometry | Node, kubelet |
| batcher (`pkg/util/batcher.go`) | batch, two timers, channel | `Add`, `Start`, `Ready`, `Reset` | |
| cluster info, metrics exporters, API types, configuration | | aggregation and I/O | |

What is hard about it: two controllers of one process share a mutex and a one-place channel, and the
channel is read before the mutex is taken; the Node is read from an informer cache and written with
merge patches computed from that cache; whether a device is used is known to the kubelet, whether it
exists to the driver, and the two views agree only after the device plugin was restarted; a plan is
a sequence of calls each of which can fail; the process can die between any two of them. `PROJECT.json`
lists these hazards line by line with the properties that watch them.

What makes the parts correct:

* planner: a plan that succeeds leads to the spec, no device is deleted twice, used devices are
  named only if the spec leaves no choice, GPUs that need nothing are left alone;
* Actuator and Reporter: no plan without a report of the previous one, no report of a plan half
  applied, used devices are not destroyed, the devices come to match the spec and the status comes to
  match the devices;
* geometry: the geometry of a GPU is always an allowed one, used devices are never taken away, what
  is asked for is provided if any allowed geometry provides it;
* Pod controller: the first waiting Pod is served if there is a way to serve it - except that the code overlooks it if its
  profiles are free on different nodes -, evictions happen behind a taint, no taint is left behind;
* NVML client: a creation is all or nothing, a deletion that succeeds complete - except that the cleanup at the start of the
  agent ignores one error of the driver and leaves what it concerns -, and neither touches other instances;
* sliced GPUs: the slices fit the memory, and a failed search for room changes nothing;
* GPU agent: no slice is counted twice, and the annotations come to show the slices;
* batcher: items come in order and once, no batch waits longer than the timeout, and one without items is sent only if a tick
  was on its way while its timer was being stopped.

## 2. Modules

| module | contents |
|---|---|
| `MigPlan` | the planner as operators: `plan.go`, `mig_state.go`, `operation.go` |
| `MigPlanner`, `MigPlannerProofs` | one run of the planner on any device list and spec, with what its callers rely on; theorems about every plan |
| `MigAgent`, `MCMigAgent` | Actuator, Reporter and process start between Node, cache, driver, kubelet and plugin; small instances |
| `AgentContract` | what the agent promises: who may change which part of the Node and of the GPUs, and in which turn |
| `MigAgentContract` | the refinement mapping from `MigAgent` to `AgentContract` |
| `MigAgentProofs` | theorems about `MigAgent`: types, the shared state, the report, the used devices, and that it implements `AgentContract` |
| `MigGeometry` | the geometry of a GPU and of a node as operators: `pkg/gpu/mig/gpu.go`, `node.go` |
| `MigNode`, `MCMigNode` | one round of the partitioner on one node: `NewNode`, then `updateNodeGeometry` or `InitNodePartitioning`; geometries of `known_configs.go` |
| `GpuPartitioner`, `MCGpuPartitioner` | the Pod controller and the node controller on several nodes, composed with `MigGeometry`, between scheduler, kubelet and agents |
| `PartitionerProofs` | theorems about `MigGeometry`, `MigNode` and `GpuPartitioner`, for any geometries, GPUs, nodes and Pods |
| `NvmlClient`, `MCNvmlClient`, `NvmlClientProofs` | `CreateMigDevices`, `DeleteMigDevice`, `DeleteAllMigDevicesExcept` on one GPU, one step per call of the driver, and `IterPermutations`; the A30 with its entry of `knownMigGeometries` (`known_configs.go:40`); theorems for any GPU |
| `SlicedNode`, `MCSlicedNode`, `SlicedNodeProofs` | `AddPod` and `UpdateGeometryFor` of a node with sliced GPUs; theorems for any sizes |
| `GpuAgent`, `MCGpuAgent`, `GpuAgentProofs` | the Reporter of the GPU agent; that it counts each slice once |
| `Batcher`, `BatcherProofs` | the batcher with its timers and channels; theorems for any number of items |
| `SumTheorems` | induction over numbers and finite sets, and sums over finite sets, for the proofs of the other modules |

Modules that TLC uses also hold *faulty variants* of some definitions, right before the
definition they vary, commented as such and used by none of them: a dropped guard or reset for each
property, with which TLC finds the property violated.

### How the state corresponds to the code

`MigAgent`:

* `node` is the Node at the API server, `cache` the informer's copy. `CacheSync` may be delayed as long
  as fairness allows, so reading the cache is one step together with what follows it. Annotations are
  quantities per GPU and profile: an absent one is 0, and `BuildNodePartitioning` writes no 0. A plan id
  is a number, `""` is 0.
* `hw` is the driver: GPU instances with (`ci`) or without compute instance. `advertised` and
  `allocated` are the kubelet's lists. `advertised` changes only when the plugin (re)starts.
* `mutex`, `token`, `lastParsed` are `SharedState`. `aPc` and `rPc` say where the two goroutines are; they
  interleave at every call to the outside: one step per deleted device, per GPU on which devices are
  created, for the plugin, for each patch. `apply` holds the local variables of `apply`.
* `aQueued` is the work queue of the Actuator: filled by annotation changes that the informer delivers,
  by errors and by the one-second requeue of the gate (which is the `Gate` step remaining to be taken).
  The Reporter needs no queue, since every return of its `Reconcile` schedules the next one.
* `reported`, `fresh`, `before` are history variables: no action reads them in a guard.

`GpuPartitioner`: `node`, `cache`, `status`, `pod`, `podCache` are what the API server and the informer caches
hold; `view`, `todo`, `current`, `target`, `requested`, `victims` are the local variables of a reconciliation, which is
interleaved with everything else at each of its patches and evictions. `podCache` has what the controller makes of a cached Pod
(`Listed`): waiting, on a node (it does not ask whether it has finished), or passed over. `todo` is a set, since the order in which the
cache lists the nodes is not defined; `current` is the node from which Pods are evicted. `lifted` is a history variable: the agent has
removed the taint of that node since. There is one worker for Pods, and any
Pod's event runs the same `Reconcile`, so one process stands for it. The node controller runs beside it; it
reads and patches in one step, which loses nothing because the cache it reads may be stale. Where the code's result
depends on the order of a Go map (the GPUs of a node, the profiles of a release), the operators return the
set of all results. The scheduler respects the taint, the kubelet hands out any devices that fit, and an
agent is what `AgentContract` leaves of it: it applies the spec it finds, clears one that would take used
devices away, removes the taint if it cannot create the devices, and reports.

`NvmlClient`: `gpu` is the set of GPU instances by the memory slice they start at, `call` the local variables
of the call that runs. The driver puts an instance wherever its profile fits, so a property that holds does not rely on
a placement policy. `call.ignored` has the places where the cleanup met ERROR_INVALID_ARGUMENT and went on (`DestroyIgnored`);
`call.leak` says that the driver failed to answer or to destroy. The code takes the UUID in the info of an instance for that of its MIG device, and so does
the model; this is an assumption about NVML.

`SlicedNode`: the maps `UsedProfiles` and `FreeProfiles` keep their keys (a key with 0 is not an absent one, since
`UpdateGeometryFor` iterates over the keys). `Batcher`: a timer is armed or not, has ticks that it has fired and the runtime has not
delivered (`fired`), and a tick or none in its channel (`ticked`); with the timers of Go 1.18 (`go.mod`) and 1.19
(Dockerfiles) these are three different things, and `Stop` returns false for a timer whose tick is still on its way. `StopTimer` is one
step, because a tick that is delivered between `Stop` and the drain might as well have been delivered before them. `empties`
and `overtaken` are history variables: batches finished without items, and calls of `StopTimer` that took the `default`
branch while a tick was on its way. The channels are sequences. `GpuAgent`: the used and the allocatable slices are listed in two
steps; capacity and allocatable quantities of the Node are there because `NodeResourcesChanged` looks at them.

### Choices and abstractions

* `GetMigDevices` never returns NotFound (`extractMigDevices` skips what NVML does not find), so the
  plugin restart in `Actuator.plan` for that case cannot happen and is no action.
* A failing list at process start ends the process: the model stays in `boot`.
* A call that fails is a fault, bounded by `MaxFaults`; each action that models a failure covers the
  places where it can happen, the ones that leave something behind included.
* NVML refuses to destroy an instance on which a process runs. A device that was handed to a Pod
  may or may not have one yet, so both outcomes are possible for it.
* A device that NVML created gets an id that is not in use; ids of deleted devices may come back.
* `MigAgent` says that `CreateMigDevices` succeeds if the result fits an allowed geometry (`Fits`), and that a
  failure may leave something behind (`Leftovers`). `NvmlClient` is where this comes from: `KnownGeometriesFit`
  and `CreatesAllOrNothing` for the A30.
* The plugin restart succeeds when the new Pod is Running. With `PluginLag` the devices are registered
  later; without, at once.
* For `MigAgent` the partitioner is environment: it writes a whole spec with a new plan id, with or without taint.
* In `MigNode` a round starts from any status that the agent can report. `Gaps` says whether a GPU without
  devices may precede one with devices; such a status arises when the agent restarts and removes the unused devices
  of the first GPU.
* A quantity of 0 stands for an absent key of a MIG geometry, which is exact because `ValidateConfigs`
  admits no 0 and no status annotation has one.

### Bounds

Every counter has a named bound: `MaxPlans`, `MaxPods`, `MaxFaults`, `MaxCrashes`, `MaxCalls`, `MaxAsked`,
`MaxChanges`, `MaxRestarts`, `MaxItems`, `MaxStarts`. A MIG GPU of the runs has two slices: two `small` devices or a `big`
one, the smallest in which conversion, a full GPU, a partial spec and recreation of free devices all occur.
Two plans let the second one meet the leftovers of the first; one Pod is enough to take a device at any time, in `status` a second one may follow; one
fault or crash reaches every failing step once. The partitioner has two nodes of one A30, of which the geometries with a 2g
device are allowed, a Pod of high priority that asks for 1g and 2g, one of low priority that asks for 2g and may complete, and one of
a DaemonSet that leaves a 1g device free on the first node. So the first Pod has to be served by repartitioning the second node or
by evicting from it, and one of its devices may be free on each node, which is the least with which it can be overlooked.
In `evicts` the GPUs have two slices and the Pods one device each. A batcher gets three items and is started twice, unbuffered or with room for
two: enough for a late tick of one batch to meet the next, across a restart too. The A30 of `NvmlClient` is complete
(four memory slices, all profiles, lists of up to four profiles). A sliced GPU has 4 GB and slices of 1, 2 and
3 GB, enough for slices that do not fit side by side.

## 3. Runs

| run | shows |
|---|---|
| `planner` | all properties of a plan, on 59 049 device lists and specs over two GPUs |
| `races` | `SharedStateInv`, `ReportIsConsistent`, `UsedWhenListedSurvives` and the contract with two plans, a Pod and a call that fails at any step, the patch that clears the spec included |
| `status` | `StatusConverges`, `QueuedIsServed` with a plan, two Pods, a fault and a plugin that registers late |
| `applies` | `StatusConverges`, `AppliesSpecOnce`, `FailedApplyRestores` with two plans, a Pod and a crash |
| `geometry` | `SpecKeepsUsed`, `SpecIsAllowed`, `InitCoversEveryGpu`, `ReleasesNoMore`, `UpdatesIffUseful` for every status of two GPUs and every request of one or two devices, one of the geometries being reserved to idle GPUs |
| `partitioner` | `FirstIsServed`, `TaintsGo`, `EvictsBehindTaint` with two nodes, three Pods, two of which ask for devices of both sizes, a failing call and stale caches |
| `nvml` | `CreatesAllOrNothing`, `KnownGeometriesFit`, `SparesOthers`, `DeletesCompletely`, `EveryCallReturns` for three calls and two failures of the driver |
| `slicing` | `MemoryRespected`, `UnchangedUnlessUpdated`, `AddPodKeepsGeometry`, `NewSizesStay` for two calls on every node of two GPUs |
| `batcher` | `TimersGuardBatch`, `EmptyOnlyIfOvertaken`, `InOrderOnce`, `BatchIsFinished` with ticks that are delivered late, stop and restart |
| `gpuagent` | `CountsOnce`, `ShowsSlices` with a new configuration, a Pod, a fault and a restart |

and two runs that TLC refutes, each with a sentence of the documentation or of a comment that the code
does not keep (`findings` in `PROJECT.json`):

| run | counterexample |
|---|---|
| `missing` | devices on GPU 1 only: the node is rebuilt with GPU 1 twice, and what is written for GPU 1 mixes two geometries |
| `evicts` | the device of the first waiting Pod is free on `n2` but the scheduler has not bound it yet; preemption, which runs whenever nothing was repartitioned, evicts a Pod from `n1` for it |

Types are checked in `races` (`TypeOK`) and `geometry` (`NodeTypeOK`), and proved of every module that has variables and
is the subject of theorems, except that `MigPlanner` and `NvmlClient` have them as part of a larger invariant.

Deadlock is checked in all runs of `MigAgent` and `GpuAgent` (a Reporter always has a next step); a run of
the planner, the bounded items and starts of `Batcher`, a round of `MigNode` and the bounded calls of `NvmlClient` and `SlicedNode` end, and the
partitioner has nothing to do once no Pod waits.

### What the models show beside the runs

* A plan that failed is recorded as applied (`actuator.go:125`) and skipped as long as the status stays the same (`:132`):
  after a deletion that failed because a Pod held the device, the spec is not applied once the Pod is gone.
  `docs/en/docs/dynamic-gpu-partitioning/configuration.md:57` promises a try "every time". `AppliesSpecOnce` says exactly
  how far the code goes.
* A device that a Pod gets between list and deletion is deleted (`actuator.go:261`), though `configuration.md:63`
  says "never". `UsedWhenListedSurvives` is what holds.
* The rollback does not remove what was created: a GPU that has its new devices keeps them when another GPU
  fails (`actuator.go:324`, `configuration.md:66`). `FailedApplyRestores` is what holds: old or new, or both where
  the GPU has room for both, never less.
* `resetNodeSpec` leaves the spec annotations that the cached Node did not have; a plugin restart that fails after
  a deletion is never repeated; after a plugin restart that timed out the retry creates the devices a second
  time. After a crash, a plugin that is late again and again makes the agent create and delete the same devices for ever,
  so that `StatusConverges` fails there; with a late plugin `AppliesSpecOnce` fails, since an
  apply may miss the devices of the previous one, and `FailedApplyRestores` fails if an id is reused meanwhile for a
  device of another kind, which a UUID is not (`UuidsIdentify`).
* `UpdateGeometryFor` may drop a free device of one required profile to add one of another;
  `providesRequestedProfiles` counts used devices (`mig_controller.go:370`), so a node may be repartitioned for a request
  that it cannot serve, against the comment at `:59`.
* The first waiting Pod may wait for ever although a new geometry would serve it: if its profiles are free, but on different nodes,
  `profileAlreadyPresent` (`mig_controller.go:257`) finds them, and nothing is planned (`:412`); preemption then finds no
  victims on a node that could be repartitioned for the Pod (`:476`), and returns. `docs/en/docs/dynamic-gpu-partitioning/configuration.md:8`
  says that the partitioner "evaluates whether a different partitioning would make them schedulable". For example, a Pod asks for 1g and
  2g, a 1g device is free on one node and two 2g devices on another. `Overlooked` describes these states; without it as
  an exception TLC finds `FirstIsServed` violated in the instance of `partitioner`, with it there is no other way to wait for ever. Used
  devices count as provided there too (`:370`): the node with the 2g devices may be in use by a Pod of low priority, which is not evicted.
* `StopTimer` does not always drain the timer, as its comment says (`timer.go:43`). If the timer has fired and its tick is not in the
  channel yet, the `default` branch (`:48`) is taken, and the tick comes later: the next turn of the loop sends a batch without
  items, or cuts the next batch short. This begins with the first `Start`, whose timers fire at once. `EmptyOnlyIfOvertaken` says that nothing
  else makes an empty batch, and each such tick at most one; order, uniqueness and the timeout do not depend on it. With
  the timers of Go 1.23 it cannot happen. In the repository only tests call the batcher.
* `DeleteAllMigDevicesExcept` "deletes all the MIG resources (Compute Instances and GPU Instances) except the ones" of the
  devices to keep, says its comment (`nvml/client.go:383`), but it goes on after ERROR_INVALID_ARGUMENT from the destruction of an instance or of its compute instance (`:430`, `:445`) and
  returns nil with the instance left. `DeletesCompletely` has this exception and no other.
* The merge patches of the node controller and of the Pod controller, computed from different cached Nodes, can mix two
  geometries in one spec; the agent cannot create it and clears the taint in the middle of an
  eviction. Another way to evict without taint is a listed Node that still shows a taint already removed. `EvictsBehindTaint`
  names both exceptions.
* A Pod that has completed remains a candidate for eviction; evicting one that is gone returns NotFound, which
  removes the taint and goes on with the next node.
* `UpdateGeometryFor` of a sliced GPU may return true with the slices unchanged: it creates slices of a missing profile in the
  room of free slices of the same profile.
* The GPU agent's predicate drops the very updates that change the allocatable quantities; only the refresh interval
  brings them to light. With an interval of 0 (no configuration file) nothing would.

### Fairness

`MigAgent`: the process start proceeds (the kubelet restarts the container); a queued node is
taken by its worker (`Gate`); a running `apply` goes on; the Reporter is requeued after every return; the
informer delivers; the daemonset recreates the plugin Pod. These are weak fairness. `Reconcile` waits for
the mutex, which the Reporter takes again and again; strong fairness for it is what Go's mutex
guarantees (a waiter of more than 1 ms is served next). `GpuPartitioner`: the Pod controller is requeued after
`requeueInterval`, stated on its variables (`ControllerRuns`) since it is enabled exactly if it is `Due`; informers, agents,
scheduler and the termination of evicted Pods are weakly fair (where a step disables itself, this is stated on the state it leads to, `Delivered`); the node controller, which the
properties do not need, is not. `GpuAgent`: reconciliation, refresh interval
and informer. `NvmlClient`: a call that has begun goes on. `Batcher`: the timeout timer fires and its tick is delivered, and the loop takes an
item or a timeout that is ready; nothing is assumed of the idle timer. Nothing is assumed anywhere of plans, Pods,
faults and crashes, so "eventually" means: once they stop.

## 4. Proofs

For all values of the constants that satisfy the named assumptions (finite sets, ids that are numbers,
bounds that are naturals; no assumption on the number of GPUs, Pods, faults or crashes):

* `TypeCorrect`: `Spec => []TypeOK` of `MigAgent`. `TypeOK` is inductive on its own; the work is in the planner (the
  quantities of a plan are naturals, its operations are sets of devices) and in `GetMigDevices`.
* `SharedStateCorrect`: `Spec => []SharedStateInv`. The invariant is inductive: "the mutex belongs to
  whoever is in its critical section", "the Reporter is idle until the controllers run", and "an element
  in the channel, or an Actuator that took one, implies a report since the last apply". The middle part is
  needed because a crash resets both goroutines. `ApplyFollowsReportCorrect` is one of its conjuncts.
* `ReportIsConsistentCorrect`: every action that changes `hw` or `lastParsed` needs the mutex or a process
  that has not started, both of which exclude a report under way.
* `UsedWhenListedSurvivesCorrect`: the inductive part, `UsedInv`, says that a device still to be deleted,
  or not to be kept at start, is either not allocated or was allocated since the list. It needs that
  free devices of a plan come from a list that excludes the allocated ones.
* `MigAgentKeepsContract`: `Spec => KeepsContract`, the refinement. The turn of the contract is a function of where
  the controllers are and of `reported` (`Turn`). The invariants it rests on are `TypeOK`, `SharedStateInv` (an apply
  starts in the turn "ready"; no report during an apply) and `ContractInv` (nothing is reported while the
  process starts; plan ids that were read were issued), proved in `ContractInvCorrect`. One lemma per group of actions shows
  which step of the contract each action is.
* `MigAgentRestores`: `Spec /\ []UuidsIdentify => FailedApplyRestores`. The hypothesis is about the driver: a UUID always names
  a device of the same GPU and profile, in the kubelet's lists too; in the model an id that is free may
  come back as anything. The plugin may be late and the process may crash. The invariant `RestoreInv` says that instances have
  different ids and fit their GPUs, and where each GPU is in an apply: either nothing was created on it and what is gone was counted
  as deleted (`Left`), or all that the plan has for it was created (`Made`). The rollback of a GPU of the first kind succeeds
  since the deleted devices themselves are a set that can be created (`LeftCanReturn`); on one of the second kind it need not.
* `MigPlannerProofs`: the plan is the planner's result on the current state and spec (`PlanInv`). `DeletesOnceCorrect`,
  `SettledGpuUntouchedCorrect` and `ClearsBeforeCreateCorrect` follow because the three kinds of delete operation are
  disjoint. `PlanReachesSpecCorrect`, `UsedOnlyIfForcedCorrect` and `EmptyIffMatchesCorrect` also need what the
  quantities of a plan come to: the devices that are taken from a set to delete are as many as were asked for, free
  ones before used ones, for sets of any size.
* `PartitionerProofs`, of `MigNode`: `MigNodeTypes` (no quantity turns negative when a geometry is applied) and `MigNodeUpdates` (a GPU
  changes exactly if an applicable geometry has more of a profile that is missing). The second rests on the existence of a
  best candidate among finitely many geometries and on sums over profiles: if no summand is larger in the new
  geometry, neither is the sum. `MigNodeKeepsUsed`, `MigNodeAllowed` and `MigNodeInitialized` have the hypothesis `~Gaps`: the run
  `missing` shows that they fail for a node on which a GPU without devices precedes one with devices.
  `MigNodeInitialized` also assumes that no allowed geometry is empty, which `ValidateConfigs` does not check.
  The invariant says that GPU k of the rebuilt node is GPU k of the status, and that a round changes the GPUs before `pos` only.
  `MigNodeReleases` is about `ReleaseProfiles`, which goes on over profiles and GPUs after it found too little: what a profile has freed
  after each GPU is the smaller of what was asked and what was in use so far (`FreedUpTo`, by a least counterexample over the
  GPUs). So it frees what was asked for, or fails and frees no more.
* `PartitionerProofs`, of `GpuPartitioner`: the inductive invariant `Inv` consists of the types; where Pods are and what the cache may
  say of it (`PodsPlaced`: a Pod that the cache shows on a node is there or has stopped); the evictions (`Evicting`: behind a taint with the named
  exceptions, victims of lower priority than the target, of no DaemonSet, and on the current node unless they have stopped);
  `NoOvercommit` (Pods hold no more than there is, without which a reported quantity of free devices could be negative and `TypeOK`
  would not be inductive); the target (`Targeted`); and why Pods are evicted (`ForRoom`). The caches are arbitrary
  older copies, and every action of the two controllers, the agents, the scheduler and the kubelet is in the proof. Its parts
  give `PartitionerTypes`, `PartitionerNoOvercommit`, `PartitionerSparesPinned`, `PartitionerEvictsBehindTaint` (the property of the run
  `partitioner`), `PartitionerEvictsLowerPriority` and `PartitionerEvictsForRoom`. The last says that a node from which Pods are evicted
  could not serve the target as it was listed, and could once its GPUs had given up used devices; that another node could serve it
  without evictions is what the run `evicts` shows. The loops of `findVictims` and `UpdateNodeGeometry` are folds; a fold is followed
  through the table of its intermediate results (`LoopExists`). The sorted list of Pods exists because priority and age order them
  totally (`ListExists`).
* `SlicedNodeProofs`: the inductive invariant `NodeInv` says that maps are functions to naturals on valid sizes, that the
  slices of each GPU fit its memory, and how the local variables of a search (what is left to create, what was there
  originally) relate to the GPU. `SlicedMemory` and `SlicedAddPod` are among its parts; `SlicedNewSizes` follows
  step by step; `SlicedUnchanged` needs a second invariant, `Searched`: what a search has deleted is still
  in its copy of the original slices, and once these are restored they fit again.
* `NvmlClientProofs`: the inductive invariant `ClientInv` says that instances start at different places, that the lists
  of created instances name new instances only and all of them as long as cleanup has not failed (`OwnInv`), that an attempt has
  made instances of the profiles of the permutation, in its order (`AttemptInv`), and that a deletion leaves as they
  were the instances it does not visit or has not visited yet (`DestroyInv`). That the quantities are right when all are made
  (`NvmlCreates`) is a bijection between instances and positions of the list, through the permutation. Placements, sizes, lists
  and failures are arbitrary; the theorems need only that an instance takes at least one memory slice.
* `GpuAgentProofs`: `GpuAgentTypes`, and `GpuAgentCounts`: every list of used slices is a subset of what the plugin
  advertises while the configuration stays the same, so used and free are a partition of it. That ids identify slices is
  an assumption on what a plugin may advertise (`SlicesAssumption`).
* `BatcherProofs`: while the batch of a running batcher is empty no timer is armed, and while it has items each timer is armed, has a
  tick on its way or has one in its channel (`BatcherTimers`). This is inductive together with the types, in which `ticked` is 0 or 1.
  `BatcherEmpty`: an empty batch needs a tick, and the invariant (`TicksAccounted`) counts them: the empty batches so far and the ticks
  that may still come are at most two for timers that are new or guard a batch with items, none otherwise, plus one for each call of
  `StopTimer` that met a tick on its way. A batch finished with items takes one tick and stops the other timer; one finished without takes one.
  `BatcherInOrder`: the items that were read, that wait and that are being collected increase,
  within a batch and from each batch to the next, and the next item to be added is larger than all of them.

Where a proof needs induction, over the devices of a list, the GPUs of a node or the profiles of a geometry, it chooses a
least counterexample (`LeastNumber`, `SetInduction` and `SubsetInduction` of `SumTheorems`).

Only model-checked:

* the liveness properties (`StatusConverges`, `QueuedIsServed`, `FirstIsServed`, `TaintsGo`, `EveryCallReturns`,
  `BatchIsFinished`, `ShowsSlices`): fairness is beyond the provers;
* `KnownGeometriesFit`: a statement about the table of the A30, which `nvml` checks completely;
* `AppliesSpecOnce`, a liveness property too, which moreover holds only for a plugin that registers at once.

## 5. Not modelled

* Cluster info and metrics exporters: stateless aggregation and HTTP.
* API types, generated code, configuration, Helm charts and demos: declarations and set-up.
* The text format of annotations and resource names, and its parse errors.
* The tables of `known_configs.go` for other models than the A30: they are data, and the placements that would be their
  reference are not in the repository.
* The composition of `GpuPartitioner` with the whole of `MigAgent` for each node: the product is out of TLC's reach.
  `AgentContract` is the interface between them; the agent of `GpuPartitioner` makes one step of each apply and of each report.
* Nothing of `findVictims` is left out, but the Pods that the runs of `GpuPartitioner` may evict have one device each, of which nothing is
  released in part. Partial releases are checked in `geometry` (`ReleasesNoMore`) and covered by `MigNodeReleases` and
  `PartitionerEvictsForRoom`.
