------------------------------- MODULE MigAgent -------------------------------
(***************************************************************************)
(* The MIG agent of one node: the Actuator and the Reporter, two           *)
(* controller-runtime controllers of the same process that share a mutex,  *)
(* a one-place channel and the id of the last parsed plan                  *)
(* (internal/controllers/migagent), between                                *)
(*   - the Node object at the API server, read through the informer cache  *)
(*     and written with merge patches;                                     *)
(*   - the GPU driver (NVML), in which MIG devices really exist;           *)
(*   - the kubelet, which advertises the devices its device plugin found   *)
(*     when it last started and allocates them to Pods.                    *)
(* The GPU partitioner, the Pods and the device plugin are environment.    *)
(***************************************************************************)
EXTENDS MigPlan, Sequences

CONSTANTS
    Ids,          \* the UUIDs of MIG devices: numbers, since devices are sorted by them
    Geometries,   \* what a GPU can hold: the maximal quantities of each profile
    Specs,        \* the desired partitionings the GPU partitioner may write
    MaxPlans,     \* bound: plans written by the partitioner
    MaxPods,      \* bound: allocations of a device to a Pod
    MaxFaults,    \* bound: calls to the API server, the kubelet or NVML that fail
    MaxCrashes,   \* bound: restarts of the agent process
    PluginLag     \* can a device plugin Pod that is Running be yet to register its devices?

ASSUME DomainsAssumption ==
    /\ IsFiniteSet(GPUs) /\ GPUs # {}
    /\ IsFiniteSet(Profiles)
    /\ IsFiniteSet(Ids) /\ Ids \subseteq Nat
    /\ Geometries \subseteq [Profiles -> Nat]
    /\ Specs \subseteq [Keys -> Nat]

ASSUME BoundsAssumption ==
    /\ MaxPlans \in Nat
    /\ MaxPods \in Nat
    /\ MaxFaults \in Nat
    /\ MaxCrashes \in Nat
    /\ PluginLag \in BOOLEAN

VARIABLES
    node,         \* the Node object at the API server
    cache,        \* the copy of it in the agent's informer cache
    hw,           \* the GPU instances that exist, with or without compute instance
    advertised,   \* the devices the kubelet believes it can allocate
    allocated,    \* the devices the kubelet has allocated to Pods
    pluginStarting, \* the device plugin Pod was deleted and its successor has not registered yet
    mutex,        \* SharedState.Mutex: who holds it
    token,        \* SharedState.reportsChan holds an element
    lastParsed,   \* SharedState.lastParsedPlanId, 0 for ""
    aPc,          \* where the Actuator (or the start of the process) is
    aQueued,      \* the Actuator's work queue holds the node
    keep,         \* at start: the device ids that the cleanup keeps
    lastApplied,  \* lastAppliedPlan and lastAppliedStatus: <<>> or one record
    apply,        \* the local variables of MigActuator.apply
    rPc,          \* where the Reporter is
    rView,        \* the Node the Reporter has read
    rStatus,      \* the status annotations it has computed
    reported,     \* history: the Reporter has run since the last apply
    fresh,        \* history: the devices allocated since the agent listed the used ones
    before,       \* history: the instances that existed when apply began
    plans, pods, faults, crashes   \* how much of each bound is used up

nodeVars  == <<node, cache>>
hostVars  == <<hw, advertised, allocated, pluginStarting>>
shared    == <<mutex, token, lastParsed, reported>>
actVars   == <<aPc, aQueued, keep, lastApplied, apply>>
repVars   == <<rPc, rView, rStatus>>
history   == <<fresh, before>>
bounds    == <<plans, pods, faults, crashes>>
vars      == <<nodeVars, hostVars, shared, actVars, repVars, history, bounds>>

-----------------------------------------------------------------------------
(***************************************************************************)
(* Types                                                                   *)
(***************************************************************************)
Quantities == [Keys -> Nat]

Device   == [id : Ids, gpu : GPUs, profile : Profiles, used : BOOLEAN]
Instance == [id : Ids, gpu : GPUs, profile : Profiles, ci : BOOLEAN]
Resource == [id : Ids, profile : Profiles]

Plan   == [delete : SUBSET SUBSET Device, create : Quantities, recreate : Quantities]
Status == [used : Quantities, free : Quantities]

\* spec-gpu-*, spec-partitioning-plan, status-gpu-*, status-partitioning-plan
\* annotations, and the repartitioning taint.
Node == [spec : Quantities, plan : Nat, status : Status, ack : Nat, taint : BOOLEAN]

Apply == [plan : Plan, status : Status, todo : SUBSET Device, deleted : Quantities,
          gpus : SUBSET GPUs, made : BOOLEAN, failed : BOOLEAN,
          restart : BOOLEAN, err : BOOLEAN]

NoStatus == [used |-> NoProfiles, free |-> NoProfiles]

NoApply == [plan |-> EmptyPlan, status |-> NoStatus, todo |-> {}, deleted |-> NoProfiles,
            gpus |-> {}, made |-> FALSE, failed |-> FALSE, restart |-> FALSE, err |-> FALSE]

NoNode == [spec |-> NoProfiles, plan |-> 0, status |-> NoStatus, ack |-> 0, taint |-> FALSE]

Starting == {"boot", "cleanup"}
Applying == {"reset", "delete", "create", "rollback", "restart", "taint"}

TypeOK ==
    /\ node \in Node /\ cache \in Node
    /\ hw \subseteq Instance
    /\ advertised \subseteq Resource /\ allocated \subseteq Resource
    /\ pluginStarting \in BOOLEAN
    /\ mutex \in {"free", "actuator", "reporter"}
    /\ token \in BOOLEAN /\ reported \in BOOLEAN
    /\ lastParsed \in Nat
    /\ aPc \in Starting \cup {"idle", "gated"} \cup Applying
    /\ aQueued \in BOOLEAN
    /\ keep \subseteq Ids
    /\ lastApplied \in Seq([plan : Plan, status : Status])
    /\ apply \in Apply
    /\ rPc \in {"idle", "patch"}
    /\ rView \in Node /\ rStatus \in Status
    /\ fresh \subseteq Ids /\ before \subseteq Instance
    /\ plans \in 0..MaxPlans /\ pods \in 0..MaxPods
    /\ faults \in 0..MaxFaults /\ crashes \in 0..MaxCrashes

-----------------------------------------------------------------------------
(***************************************************************************)
(* What the agent reads                                                    *)
(***************************************************************************)
IdsOf(S) == {x.id : x \in S}

\* extractMigDevices: the devices of a kubelet answer that NVML knows, with
\* their GPU; the ones it does not find are skipped.
extractMigDevices(resources, used) ==
    UNION {{[id |-> r.id, gpu |-> i.gpu, profile |-> r.profile, used |-> used] :
                i \in {j \in hw : j.ci /\ j.id = r.id}} : r \in resources}

\* Faulty variant: the allocatable devices count as free, the used ones included.
GetAllocatableAsFree ==
    extractMigDevices(allocated, TRUE) \cup extractMigDevices(advertised, FALSE)

\* GetMigDevices: the used devices, and the allocatable ones that are not used.
GetMigDevices ==
    extractMigDevices(allocated, TRUE)
      \cup extractMigDevices({r \in advertised : r.id \notin IdsOf(allocated)}, FALSE)

AsStatusAnnotation(devices) ==
    [used |-> Counts({d \in devices : d.used}), free |-> Counts({d \in devices : ~d.used})]

SpecMatchesStatus(n) ==
    n.spec = [k \in Keys |-> n.status.used[k] + n.status.free[k]]

\* Actuator.plan: empty when the devices already match the spec.
PlanFor(spec) ==
    IF Matches(GetMigDevices, spec) THEN EmptyPlan ELSE NewMigConfigPlan(GetMigDevices, spec)

(***************************************************************************)
(* What NVML can do                                                        *)
(***************************************************************************)
Held(S, g) == [p \in Profiles |-> Cardinality({i \in S : i.gpu = g /\ i.profile = p})]

Fits(S, g) == \E geo \in Geometries : \A p \in Profiles : Held(S, g)[p] <= geo[p]

\* The sets of instances that calls may create on GPU g, with ids not in use.
Batches(g, cis) ==
    UNION {{{[id |-> i, gpu |-> g, profile |-> f[i][1], ci |-> f[i][2]] : i \in T} :
                f \in [T -> Profiles \X cis]} : T \in SUBSET (Ids \ IdsOf(hw))}

\* The call succeeds: all that was asked for now exists.
Created(g, quantities) ==
    {S \in Batches(g, {TRUE}) :
        /\ Fits(hw \cup S, g)
        /\ \A p \in Profiles : Held(S, g)[p] = quantities[<<g, p>>]}

\* The call fails and its cleanup fails too, or it returns without one: some of
\* what was asked for is left behind, possibly without compute instances.
Leftovers(g, quantities) ==
    {S \in Batches(g, BOOLEAN) \ Created(g, quantities) :
        /\ Fits(hw \cup S, g)
        /\ \A p \in Profiles : Held(S, g)[p] <= quantities[<<g, p>>]}

GpusOf(quantities) == {g \in GPUs : \E p \in Profiles : quantities[<<g, p>>] > 0}

\* A call to the API server, the kubelet or NVML fails.
Fault == faults < MaxFaults /\ faults' = faults + 1

-----------------------------------------------------------------------------
(***************************************************************************)
(* The start of the process: cmd/migagent/migagent.go.  Nothing of what    *)
(* the process had in memory survives; the Node, the devices and the       *)
(* kubelet's allocations do.                                               *)
(***************************************************************************)
Init ==
    /\ node = NoNode /\ cache = NoNode
    /\ hw = {} /\ advertised = {} /\ allocated = {} /\ pluginStarting = FALSE
    /\ mutex = "free" /\ token = FALSE /\ lastParsed = 0 /\ reported = FALSE
    /\ aPc = "boot" /\ aQueued = FALSE /\ keep = {}
    /\ lastApplied = <<>> /\ apply = NoApply
    /\ rPc = "idle" /\ rView = NoNode /\ rStatus = NoStatus
    /\ fresh = {} /\ before = {}
    /\ plans = 0 /\ pods = 0 /\ faults = 0 /\ crashes = 0

\* The process dies, wherever it is, and is started again.
Crash ==
    /\ aPc \notin Starting
    /\ crashes < MaxCrashes /\ crashes' = crashes + 1
    /\ mutex' = "free" /\ token' = FALSE /\ lastParsed' = 0 /\ reported' = FALSE
    /\ aPc' = "boot" /\ aQueued' = FALSE
    /\ lastApplied' = <<>> /\ apply' = NoApply
    /\ rPc' = "idle" /\ rView' = NoNode /\ rStatus' = NoStatus
    /\ cache' = NoNode /\ before' = {}
    /\ UNCHANGED <<node, hostVars, keep, fresh, plans, pods, faults>>

\* cleanupUnusedMigResources asks the kubelet which devices are used ...
ReadUsed ==
    /\ aPc = "boot"
    /\ aPc' = "cleanup"
    /\ keep' = IdsOf({d \in GetMigDevices : d.used}) /\ fresh' = {}
    /\ UNCHANGED <<nodeVars, hostVars, shared, aQueued, lastApplied, apply, repVars, before, bounds>>

\* ... and then deletes every other instance, after which the controllers start:
\* their caches are filled and the node is queued.  The device plugin is not
\* restarted.
DeleteAllExcept ==
    /\ aPc = "cleanup"
    /\ hw' = {i \in hw : i.ci /\ i.id \in keep}
    /\ aPc' = "idle" /\ aQueued' = TRUE /\ keep' = {}
    /\ cache' = node
    /\ UNCHANGED <<node, advertised, allocated, pluginStarting, shared, lastApplied, apply,
                   repVars, history, bounds>>

\* An instance cannot be deleted, because a Pod got hold of it in the meantime (and
\* runs on its compute instance) or because the call fails, perhaps after its compute
\* instance is gone: the process exits, having deleted some of the others.
DeleteAllExceptFails ==
    /\ aPc = "cleanup"
    /\ \E i \in hw, D \in SUBSET hw :
        /\ i \notin D
        /\ \A j \in D \cup {i} : ~(j.ci /\ j.id \in keep)
        /\ \/ i.ci /\ i.id \in IdsOf(allocated) /\ hw' = hw \ D /\ UNCHANGED faults
           \/ Fault /\ hw' = hw \ D
           \/ Fault /\ hw' = (hw \ (D \cup {i})) \cup {[i EXCEPT !.ci = FALSE]}
    /\ aPc' = "boot" /\ keep' = {}
    /\ UNCHANGED <<nodeVars, advertised, allocated, pluginStarting, shared, aQueued, lastApplied,
                   apply, repVars, history, plans, pods, crashes>>

-----------------------------------------------------------------------------
(***************************************************************************)
(* The Actuator: actuator.go                                               *)
(***************************************************************************)

\* Faulty variant: without an element in the channel the node is not queued again.
GateOnce ==
    /\ aPc = "idle" /\ aQueued
    /\ token' = FALSE /\ aQueued' = FALSE /\ aPc' = IF token THEN "gated" ELSE "idle"
    /\ UNCHANGED <<nodeVars, hostVars, mutex, lastParsed, reported, keep, lastApplied, apply,
                   repVars, history, bounds>>

\* AtLeastOneReportSinceLastApply consumes the element of the channel, before the
\* mutex is taken.  Without one, the node is queued again.
Gate ==
    /\ aPc = "idle" /\ aQueued /\ token
    /\ token' = FALSE /\ aQueued' = FALSE /\ aPc' = "gated"
    /\ UNCHANGED <<nodeVars, hostVars, mutex, lastParsed, reported, keep, lastApplied, apply,
                   repVars, history, bounds>>

\* The reconciliation ends with the mutex free again, without having applied
\* anything; an error queues the node once more.
EndReconcile(err) ==
    /\ aPc' = "idle"
    /\ aQueued' = (aQueued \/ err)
    /\ UNCHANGED <<nodeVars, hostVars, mutex, token, reported, keep, apply, repVars,
                   history, plans, pods, crashes>>

\* The node cannot be read, or the devices cannot be listed: the second failure
\* comes after the plan id was recorded.
ReconcileFails ==
    /\ aPc = "gated" /\ mutex = "free"
    /\ Fault
    /\ lastParsed' \in {lastParsed, cache.plan}
    /\ EndReconcile(TRUE)
    /\ UNCHANGED lastApplied

\* The status that the Reporter wrote already matches the spec.
ReconcileMatched ==
    /\ aPc = "gated" /\ mutex = "free"
    /\ SpecMatchesStatus(cache)
    /\ lastParsed' = cache.plan
    /\ EndReconcile(FALSE)
    /\ UNCHANGED <<lastApplied, faults>>

updateLastApplied(plan, status) == lastApplied' = <<[plan |-> plan, status |-> status]>>

AlreadyApplied(plan, status) == lastApplied = <<[plan |-> plan, status |-> status]>>

\* The plan is empty, or the same as the last one with the status unchanged.
ReconcileSkipped ==
    /\ aPc = "gated" /\ mutex = "free"
    /\ ~SpecMatchesStatus(cache)
    /\ LET plan == PlanFor(cache.spec)
       IN  /\ IsEmpty(plan) \/ AlreadyApplied(plan, cache.status)
           /\ updateLastApplied(plan, cache.status)
    /\ lastParsed' = cache.plan
    /\ EndReconcile(FALSE)
    /\ UNCHANGED faults

\* apply begins: the mutex stays locked until it is done.
ReconcileApplies ==
    /\ aPc = "gated" /\ mutex = "free"
    /\ ~SpecMatchesStatus(cache)
    /\ LET plan == PlanFor(cache.spec)
       IN  /\ ~IsEmpty(plan)
           /\ ~AlreadyApplied(plan, cache.status)
           /\ apply' = [NoApply EXCEPT !.plan = plan, !.status = cache.status,
                                       !.todo = {d \in ToDelete(plan) : ~d.used},
                                       !.gpus = GpusOf(ToCreate(plan))]
           /\ aPc' = IF containsUsedResources(plan) THEN "reset"
                     ELSE IF ToDelete(plan) = {} THEN "create" ELSE "delete"
    /\ mutex' = "actuator"
    /\ lastParsed' = cache.plan
    /\ fresh' = {} /\ before' = hw
    /\ UNCHANGED <<nodeVars, hostVars, token, reported, aQueued, keep, lastApplied, repVars, bounds>>

\* Faulty variant: the channel is not emptied.
FinishApplyUndrained(err) ==
    /\ reported' = FALSE
    /\ updateLastApplied(apply.plan, apply.status)
    /\ mutex' = "free" /\ apply' = NoApply /\ before' = {}
    /\ aPc' = "idle"
    /\ aQueued' = (aQueued \/ err)
    /\ UNCHANGED <<token, cache, hw, allocated, lastParsed, keep, repVars, fresh, plans, pods, crashes>>

\* apply returns: OnApplyDone empties the channel, the deferred calls record the
\* plan, whatever became of it, and unlock; an error queues the node again.
FinishApply(err) ==
    /\ token' = FALSE /\ reported' = FALSE
    /\ updateLastApplied(apply.plan, apply.status)
    /\ mutex' = "free" /\ apply' = NoApply /\ before' = {}
    /\ aPc' = "idle"
    /\ aQueued' = (aQueued \/ err)
    /\ UNCHANGED <<cache, hw, allocated, lastParsed, keep, repVars, fresh, plans, pods, crashes>>

\* The plan deletes used devices: clear the spec instead, with a merge patch that
\* names the annotations of the cached Node.
resetNodeSpec ==
    /\ aPc = "reset"
    /\ node' = [node EXCEPT !.spec = [k \in Keys |-> IF cache.spec[k] > 0 THEN 0 ELSE node.spec[k]],
                            !.plan = IF cache.plan > 0 THEN 0 ELSE node.plan]
    /\ FinishApply(FALSE)
    /\ UNCHANGED <<advertised, pluginStarting, faults>>

resetNodeSpecFails ==
    /\ aPc = "reset"
    /\ Fault
    /\ FinishApply(TRUE)
    /\ UNCHANGED <<node, advertised, pluginStarting>>

\* One call of DeleteMigDevice has returned.
DeleteReturned(d, changed) ==
    /\ apply' = [changed EXCEPT !.todo = @ \ {d}]
    /\ aPc' = IF apply.todo = {d} THEN "create" ELSE "delete"
    /\ UNCHANGED <<nodeVars, advertised, allocated, pluginStarting, shared, aQueued, keep, lastApplied,
                   repVars, history, plans, pods, crashes>>

\* The device is gone, whether or not a Pod has been given it since the plan was
\* computed: NVML only refuses while a process runs on it.
DeleteMigDevice(d) ==
    /\ aPc = "delete" /\ d \in apply.todo
    /\ \E i \in hw :
        /\ i.ci /\ i.id = d.id
        /\ hw' = hw \ {i}
    /\ DeleteReturned(d, [apply EXCEPT !.deleted[Key(d)] = @ + 1, !.restart = TRUE])
    /\ UNCHANGED faults

\* The device is in use, or the call fails: before it changed anything, between the
\* deletion of the compute instance and that of the GPU instance, or with NotFound,
\* which makes a restart of the device plugin necessary.
DeleteMigDeviceFails(d) ==
    /\ aPc = "delete" /\ d \in apply.todo
    /\ \/ /\ d.id \in IdsOf(allocated)
          /\ DeleteReturned(d, [apply EXCEPT !.err = TRUE])
          /\ UNCHANGED <<hw, faults>>
       \/ /\ Fault
          /\ \E notFound \in BOOLEAN :
                DeleteReturned(d, [apply EXCEPT !.err = TRUE, !.restart = @ \/ notFound])
          /\ UNCHANGED hw
       \/ /\ Fault
          /\ DeleteReturned(d, [apply EXCEPT !.err = TRUE])
          /\ \E i \in hw : /\ i.ci /\ i.id = d.id
                           /\ hw' = (hw \ {i}) \cup {[i EXCEPT !.ci = FALSE]}

\* CreateMigDevices asks NVML for the devices of one GPU after the other.
CreateOn(g) ==
    /\ aPc = "create" /\ g \in apply.gpus
    /\ \/ /\ \E S \in Created(g, ToCreate(apply.plan)) : hw' = hw \cup S
          /\ apply' = [apply EXCEPT !.gpus = @ \ {g}, !.made = TRUE]
          /\ UNCHANGED faults
       \/ /\ Created(g, ToCreate(apply.plan)) = {}
          /\ apply' = [apply EXCEPT !.gpus = @ \ {g}, !.failed = TRUE]
          /\ UNCHANGED <<hw, faults>>
       \/ /\ Fault
          /\ \E S \in Leftovers(g, ToCreate(apply.plan)) : hw' = hw \cup S
          /\ apply' = [apply EXCEPT !.gpus = @ \ {g}, !.failed = TRUE]
    /\ UNCHANGED <<nodeVars, advertised, allocated, pluginStarting, shared, aPc, aQueued, keep,
                   lastApplied, repVars, history, plans, pods, crashes>>

\* Faulty variant: nothing is rolled back.
CreateDoneForGood ==
    /\ aPc = "create" /\ apply.gpus = {}
    /\ apply' = [apply EXCEPT !.err = @ \/ apply.failed,
                              !.restart = @ \/ apply.made \/ ~apply.failed]
    /\ aPc' = "restart"
    /\ UNCHANGED <<nodeVars, hostVars, shared, aQueued, keep, lastApplied, repVars, history, bounds>>

\* applyCreateOps returns.  With no error the plugin has to be restarted, even if
\* there was nothing to create; with one, what was deleted is created again.
CreateDone ==
    /\ aPc = "create" /\ apply.gpus = {}
    /\ apply' = [apply EXCEPT !.err = @ \/ apply.failed,
                              !.restart = @ \/ apply.made \/ ~apply.failed,
                              !.gpus = IF apply.failed THEN GpusOf(apply.deleted) ELSE {}]
    /\ aPc' = IF apply.failed /\ GpusOf(apply.deleted) # {} THEN "rollback" ELSE "restart"
    /\ UNCHANGED <<nodeVars, hostVars, shared, aQueued, keep, lastApplied, repVars, history, bounds>>

\* rollbackDeletedResources, GPU by GPU; its errors are only logged.
RollbackOn(g) ==
    /\ aPc = "rollback" /\ g \in apply.gpus
    /\ \/ /\ \E S \in Created(g, apply.deleted) : hw' = hw \cup S
          /\ UNCHANGED faults
       \/ /\ Created(g, apply.deleted) = {}
          /\ UNCHANGED <<hw, faults>>
       \/ /\ Fault
          /\ \E S \in Leftovers(g, apply.deleted) : hw' = hw \cup S
    /\ apply' = [apply EXCEPT !.gpus = @ \ {g}]
    /\ aPc' = IF apply.gpus = {g} THEN "restart" ELSE "rollback"
    /\ UNCHANGED <<nodeVars, advertised, allocated, pluginStarting, shared, aQueued, keep, lastApplied,
                   repVars, history, plans, pods, crashes>>

\* The plugin Pod comes up and finds the devices that exist now.
Discovered == {[id |-> i.id, profile |-> i.profile] : i \in {j \in hw : j.ci}}

\* Restart returns once the new Pod is Running.
PluginRestarted ==
    \/ advertised' = Discovered /\ pluginStarting' = FALSE
    \/ PluginLag /\ advertised' \in {advertised, {}} /\ pluginStarting' = TRUE

\* The plugin is restarted if need be, and apply returns if there was no error.
RestartPlugin ==
    /\ aPc = "restart"
    /\ IF apply.restart THEN PluginRestarted ELSE UNCHANGED <<advertised, pluginStarting>>
    /\ IF apply.err
       THEN /\ aPc' = "taint"
            /\ UNCHANGED <<cache, hw, allocated, shared, aQueued, keep, lastApplied, apply, repVars,
                           history, plans, pods, crashes>>
       ELSE FinishApply(FALSE)
    /\ UNCHANGED <<node, faults>>

\* The plugin Pod cannot be deleted, or it is not back within the timeout.
RestartPluginFails ==
    /\ aPc = "restart" /\ apply.restart
    /\ Fault
    /\ \/ UNCHANGED <<advertised, pluginStarting>>
       \/ advertised' \in {advertised, {}} /\ pluginStarting' = TRUE
    /\ aPc' = "taint"
    /\ UNCHANGED <<nodeVars, hw, allocated, shared, aQueued, keep, lastApplied, apply,
                   repVars, history, plans, pods, crashes>>

\* clearRepartitioningTaint: nothing to do if the cached Node has no taint; its
\* errors are only logged.  apply then returns an error.
clearRepartitioningTaint ==
    /\ aPc = "taint"
    /\ \/ node' = [node EXCEPT !.taint = @ /\ ~cache.taint] /\ UNCHANGED faults
       \/ cache.taint /\ Fault /\ UNCHANGED node
    /\ FinishApply(TRUE)
    /\ UNCHANGED <<advertised, pluginStarting>>

-----------------------------------------------------------------------------
(***************************************************************************)
(* The Reporter: reporter.go.  It runs at every refresh interval; whatever *)
(* the outcome, OnReportDone fills the channel before the mutex is freed.  *)
(***************************************************************************)
Running == aPc \notin Starting

OnReportDone == token' = TRUE /\ reported' = TRUE

\* The Node cannot be read or the devices cannot be listed.
ReportFails ==
    /\ Running /\ rPc = "idle" /\ mutex = "free"
    /\ Fault
    /\ OnReportDone
    /\ UNCHANGED <<nodeVars, hostVars, mutex, lastParsed, actVars, repVars, history, plans, pods, crashes>>

\* Faulty variant: only the plan id is compared.
ReportUpToDateById == cache.ack = lastParsed

ReportUpToDate == cache.status = AsStatusAnnotation(GetMigDevices) /\ cache.ack = lastParsed

\* Faulty variant: OnReportDone is only called when the Node is patched.
ReportUnchangedSilently ==
    /\ Running /\ rPc = "idle" /\ mutex = "free"
    /\ ReportUpToDate
    /\ UNCHANGED vars

ReportUnchanged ==
    /\ Running /\ rPc = "idle" /\ mutex = "free"
    /\ ReportUpToDate
    /\ OnReportDone
    /\ UNCHANGED <<nodeVars, hostVars, mutex, lastParsed, actVars, repVars, history, bounds>>

\* Faulty variant: the mutex is not held while the Node is patched.
ReportBeginsUnlocked ==
    /\ Running /\ rPc = "idle" /\ mutex = "free"
    /\ ~ReportUpToDate
    /\ rPc' = "patch"
    /\ rView' = cache /\ rStatus' = AsStatusAnnotation(GetMigDevices)
    /\ UNCHANGED <<nodeVars, hostVars, shared, actVars, history, bounds>>

ReportBegins ==
    /\ Running /\ rPc = "idle" /\ mutex = "free"
    /\ ~ReportUpToDate
    /\ mutex' = "reporter" /\ rPc' = "patch"
    /\ rView' = cache /\ rStatus' = AsStatusAnnotation(GetMigDevices)
    /\ UNCHANGED <<nodeVars, hostVars, token, reported, lastParsed, actVars, history, bounds>>

\* A merge patch: what differs from the Node that was read is written.
Patched(current, old, new) ==
    [k \in Keys |-> IF new[k] # old[k] THEN new[k] ELSE current[k]]

ReportPatch ==
    /\ rPc = "patch"
    /\ \/ /\ node' = [node EXCEPT
                !.status = [used |-> Patched(node.status.used, rView.status.used, rStatus.used),
                            free |-> Patched(node.status.free, rView.status.free, rStatus.free)],
                !.ack = IF lastParsed # rView.ack THEN lastParsed ELSE @]
          /\ UNCHANGED faults
       \/ Fault /\ UNCHANGED node
    /\ OnReportDone
    /\ mutex' = "free" /\ rPc' = "idle" /\ rView' = NoNode /\ rStatus' = NoStatus
    /\ UNCHANGED <<cache, hostVars, lastParsed, actVars, history, plans, pods, crashes>>

-----------------------------------------------------------------------------
(***************************************************************************)
(* The environment                                                         *)
(***************************************************************************)

\* The partitioner writes a new spec with a new plan id; if it preempts Pods to
\* make room for it, it has tainted the node.
ApplyPartitioning(spec, taint) ==
    /\ plans < MaxPlans /\ plans' = plans + 1
    /\ node' = [node EXCEPT !.spec = spec, !.plan = plans + 1, !.taint = @ \/ taint]
    /\ UNCHANGED <<cache, hostVars, shared, actVars, repVars, history, pods, faults, crashes>>

Annotations(n) == <<n.spec, n.plan, n.status, n.ack>>

\* The informer delivers the Node; AnnotationsChangedPredicate decides whether that
\* queues the node for the Actuator.
CacheSync ==
    /\ Running /\ cache # node
    /\ cache' = node
    /\ aQueued' = (aQueued \/ Annotations(node) # Annotations(cache))
    /\ UNCHANGED <<node, hostVars, shared, aPc, keep, lastApplied, apply, repVars, history, bounds>>

\* The kubelet allocates a device it believes to be free, or gets one back.
Allocate(r) ==
    /\ pods < MaxPods /\ pods' = pods + 1
    /\ r \in advertised /\ r.id \notin IdsOf(allocated)
    /\ allocated' = allocated \cup {r} /\ fresh' = fresh \cup {r.id}
    /\ UNCHANGED <<nodeVars, hw, advertised, pluginStarting, shared, actVars, repVars, before, plans,
                   faults, crashes>>

Release(r) ==
    /\ r \in allocated
    /\ allocated' = allocated \ {r}
    /\ UNCHANGED <<nodeVars, hw, advertised, pluginStarting, shared, actVars, repVars, history, bounds>>

\* The new plugin Pod registers with the kubelet.
PluginUp ==
    /\ pluginStarting
    /\ pluginStarting' = FALSE /\ advertised' = Discovered
    /\ UNCHANGED <<nodeVars, hw, allocated, shared, actVars, repVars, history, bounds>>

-----------------------------------------------------------------------------
Boot == ReadUsed \/ DeleteAllExcept \/ DeleteAllExceptFails

Reconcile == ReconcileFails \/ ReconcileMatched \/ ReconcileSkipped \/ ReconcileApplies

ApplyStep ==
    \/ resetNodeSpec \/ resetNodeSpecFails
    \/ \E d \in apply.todo : DeleteMigDevice(d) \/ DeleteMigDeviceFails(d)
    \/ \E g \in apply.gpus : CreateOn(g) \/ RollbackOn(g)
    \/ CreateDone
    \/ RestartPlugin \/ RestartPluginFails
    \/ clearRepartitioningTaint

Report == ReportFails \/ ReportUnchanged \/ ReportBegins \/ ReportPatch

Environment ==
    \/ \E spec \in Specs, taint \in BOOLEAN : ApplyPartitioning(spec, taint)
    \/ CacheSync
    \/ \E r \in advertised : Allocate(r)
    \/ \E r \in allocated : Release(r)
    \/ PluginUp
    \/ Crash

Next == Boot \/ Gate \/ Reconcile \/ ApplyStep \/ Report \/ Environment

Spec == Init /\ [][Next]_vars

(***************************************************************************)
(* Fairness.  The kubelet restarts the agent's container; controller-      *)
(* runtime runs a queued reconciliation and runs the Reporter again at     *)
(* every refresh interval; a blocked sync.Mutex.Lock is served before the  *)
(* same goroutine's later ones (starvation mode), which is strong fairness *)
(* of the Actuator's first step under the mutex; the informer delivers;    *)
(* the plugin's daemonset recreates its Pod.  Nothing is assumed of the    *)
(* partitioner, of Pods, of faults or of crashes.                          *)
(***************************************************************************)
Fairness ==
    /\ WF_vars(Boot) /\ WF_vars(Gate) /\ SF_vars(Reconcile) /\ WF_vars(ApplyStep)
    /\ WF_vars(Report) /\ WF_vars(CacheSync) /\ WF_vars(PluginUp)

FairSpec == Spec /\ Fairness

-----------------------------------------------------------------------------
(***************************************************************************)
(* Properties                                                              *)
(***************************************************************************)

\* No plan is applied unless the Reporter has run since the previous one was:
\* the channel never holds an element that dates from before the last apply,
\* although the Actuator takes it before it has the mutex and the Reporter may
\* put in another one in between (shared.go).
ApplyFollowsReport == aPc \in Applying => reported

\* How the mutex and the channel go together: the mutex is held exactly while a plan
\* is applied or a report is being written, neither happens before the controllers
\* start, and whoever took the element of the channel, or could take it, does so after
\* a report that followed the last apply.
SharedStateInv ==
    /\ mutex = "actuator" <=> aPc \in Applying
    /\ mutex = "reporter" <=> rPc = "patch"
    /\ aPc \in Starting => rPc = "idle"
    /\ token => reported
    /\ aPc \in Applying \cup {"gated"} => reported

\* While the Reporter is between listing the devices and writing what it found,
\* neither the devices nor the plan id that it reports along with them change: a
\* report never shows a plan half applied, nor the id of a plan whose apply was
\* not over (the mutex of SharedState).
ReportIsConsistent ==
    [][rPc = "patch" /\ rPc' = "patch" => UNCHANGED <<hw, lastParsed>>]_vars

\* The only devices in use that the agent can destroy are those that were handed
\* to a Pod after it listed the used ones, for its plan or for the cleanup at its
\* start; a device used at that time survives whatever the plan.
UsedWhenListedSurvives ==
    [][\A i \in hw \ hw' : i.ci /\ i.id \in IdsOf(allocated) => i.id \in fresh]_vars

\* A node that is queued for the Actuator is eventually reconciled: the Reporter
\* always refills the channel, and the mutex is always freed.
QueuedIsServed == aPc = "idle" /\ aQueued ~> aPc \in {"gated", "boot"}

\* Once plans, Pods, faults and crashes are over, the status annotations come to
\* show the devices and stay so, although the Reporter compares with a cached Node
\* and patches only the differences.
StatusConverges == <>[](node.status = AsStatusAnnotation(GetMigDevices))

\* A Pod uses a device that the spec does not provide for.
Blocked ==
    \E k \in Keys : Counts({d \in GetMigDevices : d.used})[k] > node.spec[k]

\* The plan that is missing was tried before, against the status that is still reported.
Remembered == AlreadyApplied(PlanFor(node.spec), node.status)

\* The devices come to match the spec and stay so, crashes and stale caches
\* notwithstanding, unless a Pod's device is in the way, or one was, and the plan that
\* it made fail is not tried again.
AppliesSpecOnce ==
    <>[](Matches(GetMigDevices, node.spec) \/ Blocked \/ (pods > 0 /\ Remembered))

InstalledOn(S, g) == Held({i \in S : i.ci}, g)

\* What an apply that failed to create devices may leave on GPU g: what there was when it
\* began, what the plan made of it, or, if there is room, what was there and what was made.
Outcomes(g) ==
    LET old  == InstalledOn(before, g)
        made == [p \in Profiles |-> old[p] + ToCreate(apply.plan)[<<g, p>>]]
    IN  {old, made, [p \in Profiles |-> made[p] - apply.deleted[<<g, p>>]]}

\* A plan that cannot be carried out costs no GPU its devices: if devices cannot be created
\* for lack of room, and no call has failed by itself, each GPU ends up with what it had
\* when apply began, with what the plan makes of it, or with both, never with less
\* (applyCreateOps, rollbackDeletedResources).
FailedApplyRestores ==
    [][aPc = "taint" /\ aPc' = "idle" /\ apply.failed /\ faults = 0 =>
          \A g \in GPUs : InstalledOn(hw, g) \in Outcomes(g)]_vars
=============================================================================
