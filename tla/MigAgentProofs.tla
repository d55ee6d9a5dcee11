--------------------------- MODULE MigAgentProofs ---------------------------
(***************************************************************************)
(* Theorems about MigAgent, for any number of GPUs, profiles, devices,     *)
(* plans, Pods, faults and crashes: its types, the shared state of the two *)
(* controllers, the report, the used devices, that it implements           *)
(* AgentContract, and that an apply which fails restores the devices.      *)
(***************************************************************************)
EXTENDS MigAgentContract, FiniteSetTheorems, TLAPS

-----------------------------------------------------------------------------
(***************************************************************************)
(* Devices and quantities                                                  *)
(***************************************************************************)

\* There are finitely many devices, since ids, GPUs and profiles are finitely many.
LEMMA DeviceFinite == IsFiniteSet(Device)
<1> DEFINE T == (Ids \X GPUs) \X (Profiles \X {0, 1})
           f == [d \in Device |-> <<<<d.id, d.gpu>>, <<d.profile, IF d.used THEN 1 ELSE 0>>>>]
<1>1. IsFiniteSet(T)
    <2>1. IsFiniteSet({0, 1})
        <3>1. IsFiniteSet({0}) /\ {0, 1} = {0} \cup {1}
            BY FS_Singleton
        <3> QED BY <3>1, FS_AddElement
    <2>2. IsFiniteSet(Ids \X GPUs) /\ IsFiniteSet(Profiles \X {0, 1})
        BY <2>1, FS_Product, DomainsAssumption
    <2> QED BY <2>2, FS_Product
<1>2. f \in [Device -> T]
    BY DEF Device
<1>3. ASSUME NEW d \in Device, NEW e \in Device, f[d] = f[e]
      PROVE  d = e
    <2>1. d.id = e.id /\ d.gpu = e.gpu /\ d.profile = e.profile
        BY <1>3
    <2>2. (IF d.used THEN 1 ELSE 0) = (IF e.used THEN 1 ELSE 0)
        BY <1>3
    <2>3. d.used = e.used
        BY <2>2 DEF Device
    <2>4. /\ d = [id |-> d.id, gpu |-> d.gpu, profile |-> d.profile, used |-> d.used]
          /\ e = [id |-> e.id, gpu |-> e.gpu, profile |-> e.profile, used |-> e.used]
        BY DEF Device
    <2> QED BY <2>1, <2>3, <2>4, Zenon
<1>4. f \in Injection(Device, T)
    <2> HIDE DEF f, T
    <2> QED BY <1>2, <1>3 DEF Injection, IsInjective
<1> QED BY <1>1, <1>4, FS_Injection

\* The quantities of a device list are numbers.
LEMMA CountsType ==
    ASSUME NEW S, S \subseteq Device
    PROVE  Counts(S) \in Quantities
<1>1. ASSUME NEW k \in Keys
      PROVE  Cardinality(OfKey(S, k)) \in Nat
    <2>1. IsFiniteSet(OfKey(S, k))
        BY DeviceFinite, FS_Subset DEF OfKey
    <2> QED BY <2>1, FS_CardinalityType
<1> QED BY <1>1 DEF Counts, Quantities

\* NewMigConfigPlan makes a plan out of any device list and any spec.
LEMMA PlanType ==
    ASSUME NEW state, state \subseteq Device, NEW spec \in Quantities
    PROVE  NewMigConfigPlan(state, spec) \in Plan
<1>1. DeleteNotInSpec(state, spec) \in SUBSET SUBSET Device
    BY DEF DeleteNotInSpec, OfKey, getResourcesNotIncludedInSpec
<1>2. DeleteExcess(state, spec) \in SUBSET SUBSET Device
    BY DEF DeleteExcess, extractCandidatesForDeletion, First, OfKey
<1>3. DeleteForRecreate(state, spec) \in SUBSET SUBSET Device
    BY DEF DeleteForRecreate, extractResourcesToRecreate
<1>4. CreateMissing(state, spec) \in Quantities
    <2>1. Counts(state) \in [Keys -> Nat]
        BY CountsType DEF Quantities
    <2>2. \A k \in Keys : spec[k] \in Nat /\ Counts(state)[k] \in Nat
        BY <2>1 DEF Quantities
    <2>3. \A k \in Keys : (IF spec[k] > Counts(state)[k] THEN spec[k] - Counts(state)[k] ELSE 0) \in Nat
        BY <2>2
    <2> QED BY <2>3 DEF CreateMissing, Quantities
<1>5. Counts(Recreated(state, spec)) \in Quantities
    <2>1. Recreated(state, spec) \subseteq Device
        BY DEF Recreated, extractResourcesToRecreate
    <2> QED BY <2>1, CountsType
<1> QED BY <1>1, <1>2, <1>3, <1>4, <1>5 DEF NewMigConfigPlan, Plan

\* The values before anything has happened.
LEMMA EmptyTypes ==
    /\ NoProfiles \in Quantities
    /\ NoStatus \in Status
    /\ EmptyPlan \in Plan
    /\ NoApply \in Apply
    /\ NoNode \in Node
<1>1. NoProfiles \in Quantities
    BY DEF NoProfiles, Quantities
<1>2. NoStatus \in Status
    BY <1>1 DEF NoStatus, Status
<1>3. EmptyPlan \in Plan
    BY <1>1 DEF EmptyPlan, Plan
<1> QED BY <1>1, <1>2, <1>3 DEF NoApply, Apply, NoNode, Node

\* What the agent lists are devices.
LEMMA DevicesType ==
    ASSUME hw \subseteq Instance, advertised \subseteq Resource, allocated \subseteq Resource
    PROVE  GetMigDevices \subseteq Device
<1>1. ASSUME NEW R, R \subseteq Resource, NEW u \in BOOLEAN
      PROVE  extractMigDevices(R, u) \subseteq Device
    <2> SUFFICES ASSUME NEW r \in R, NEW i \in hw
                 PROVE  [id |-> r.id, gpu |-> i.gpu, profile |-> r.profile, used |-> u] \in Device
        BY DEF extractMigDevices
    <2> QED BY <1>1 DEF Device, Instance, Resource
<1> DEFINE Unused == {r \in advertised : r.id \notin IdsOf(allocated)}
<1>2. Unused \subseteq Resource
    OBVIOUS
<1>3. extractMigDevices(allocated, TRUE) \subseteq Device /\ extractMigDevices(Unused, FALSE) \subseteq Device
    BY <1>1, <1>2
<1> QED BY <1>3 DEF GetMigDevices

\* What the Reporter computes from them is a status.
LEMMA StatusType ==
    ASSUME NEW S, S \subseteq Device
    PROVE  AsStatusAnnotation(S) \in Status
<1>1. {d \in S : d.used} \subseteq Device /\ {d \in S : ~d.used} \subseteq Device
    OBVIOUS
<1>2. Counts({d \in S : d.used}) \in Quantities /\ Counts({d \in S : ~d.used}) \in Quantities
    BY <1>1, CountsType
<1> QED BY <1>2 DEF AsStatusAnnotation, Status

\* Whatever a call of CreateMigDevices leaves behind are instances.
LEMMA CreatedType ==
    ASSUME NEW g \in GPUs, NEW q, NEW S \in Created(g, q) \cup Leftovers(g, q)
    PROVE  S \subseteq Instance
<1>1. ASSUME NEW cis \in SUBSET BOOLEAN, NEW B \in Batches(g, cis)
      PROVE  B \subseteq Instance
    <2>1. PICK T \in SUBSET (Ids \ IdsOf(hw)) : \E f \in [T -> Profiles \X cis] :
             B = {[id |-> i, gpu |-> g, profile |-> f[i][1], ci |-> f[i][2]] : i \in T}
        BY DEF Batches
    <2>2. PICK f \in [T -> Profiles \X cis] :
             B = {[id |-> i, gpu |-> g, profile |-> f[i][1], ci |-> f[i][2]] : i \in T}
        BY <2>1
    <2>3. \A i \in T : f[i][1] \in Profiles /\ f[i][2] \in BOOLEAN
        OBVIOUS
    <2> QED BY <2>2, <2>3 DEF Instance
<1>2. S \in Batches(g, {TRUE}) \cup Batches(g, BOOLEAN)
    BY DEF Created, Leftovers
<1> QED BY <1>1, <1>2

-----------------------------------------------------------------------------
(***************************************************************************)
(* The steps                                                               *)
(***************************************************************************)

\* The devices the agent lists, in any well-typed state.
LEMMA ListedType == TypeOK => GetMigDevices \subseteq Device
    BY DevicesType DEF TypeOK

\* Actuator.plan returns a plan.
LEMMA PlanForType == TypeOK => PlanFor(cache.spec) \in Plan
<1> SUFFICES ASSUME TypeOK
             PROVE  PlanFor(cache.spec) \in Plan
    OBVIOUS
<1>1. cache.spec \in Quantities
    BY DEF TypeOK, Node
<1>2. NewMigConfigPlan(GetMigDevices, cache.spec) \in Plan
    BY <1>1, ListedType, PlanType
<1> QED BY <1>2, EmptyTypes DEF PlanFor

\* The start of the process, the cleanup included (migagent.go).
LEMMA BootType == TypeOK /\ Boot => TypeOK'
<1> SUFFICES ASSUME TypeOK, Boot
             PROVE  TypeOK'
    OBVIOUS
<1> USE DEF TypeOK, Starting, Applying
<1>1. CASE ReadUsed
    <2>1. keep' \subseteq Ids
        BY <1>1, ListedType DEF ReadUsed, IdsOf, Device
    <2> QED BY <1>1, <2>1 DEF ReadUsed, nodeVars, hostVars, shared, repVars, bounds
<1>2. CASE DeleteAllExcept
    BY <1>2 DEF DeleteAllExcept, shared, repVars, history, bounds
<1>3. CASE DeleteAllExceptFails
    <2>1. hw' \subseteq Instance
        <3>1. \A i \in hw : [i EXCEPT !.ci = FALSE] \in Instance
            BY DEF Instance
        <3> QED BY <1>3, <3>1 DEF DeleteAllExceptFails
    <2>2. faults' \in 0..MaxFaults
        BY <1>3, BoundsAssumption DEF DeleteAllExceptFails, Fault
    <2> QED BY <1>3, <2>1, <2>2 DEF DeleteAllExceptFails, nodeVars, shared, repVars, history
<1> QED BY <1>1, <1>2, <1>3 DEF Boot

\* Actuator.Reconcile up to the point where it applies a plan.
LEMMA ReconcileType == TypeOK /\ (Gate \/ Reconcile) => TypeOK'
<1> SUFFICES ASSUME TypeOK, Gate \/ Reconcile
             PROVE  TypeOK'
    OBVIOUS
<1>1. cache.plan \in Nat /\ cache.status \in Status
    BY DEF TypeOK, Node
<1> USE DEF TypeOK, Starting, Applying
<1>2. CASE Gate
    BY <1>2 DEF Gate, nodeVars, hostVars, repVars, history, bounds
<1>3. CASE ReconcileFails
    BY <1>1, <1>3, BoundsAssumption DEF ReconcileFails, EndReconcile, Fault, nodeVars, hostVars, repVars, history
<1>4. CASE ReconcileMatched
    BY <1>1, <1>4 DEF ReconcileMatched, EndReconcile, nodeVars, hostVars, repVars, history
<1>5. CASE ReconcileSkipped
    <2>1. lastApplied' \in Seq([plan : Plan, status : Status])
        BY <1>1, <1>5, PlanForType DEF ReconcileSkipped, updateLastApplied
    <2> QED BY <1>1, <1>5, <2>1 DEF ReconcileSkipped, EndReconcile, nodeVars, hostVars, repVars, history
<1>6. CASE ReconcileApplies
    <2> DEFINE plan == PlanFor(cache.spec)
    <2>1. plan \in Plan
        BY PlanForType
    <2>2. ToDelete(plan) \subseteq Device /\ GpusOf(ToCreate(plan)) \subseteq GPUs
        BY <2>1 DEF Plan, ToDelete, GpusOf
    <2>3. apply' = [NoApply EXCEPT !.plan = plan, !.status = cache.status,
                                   !.todo = {d \in ToDelete(plan) : ~d.used},
                                   !.gpus = GpusOf(ToCreate(plan))]
          /\ aPc' \in {"reset", "create", "delete"}
        BY <1>6 DEF ReconcileApplies
    <2> HIDE DEF plan
    <2>4. apply' \in Apply
        BY <1>1, <2>1, <2>2, <2>3, EmptyTypes DEF Apply
    <2> QED BY <1>1, <1>6, <2>3, <2>4
            DEF ReconcileApplies, nodeVars, hostVars, repVars, bounds
<1> QED BY <1>2, <1>3, <1>4, <1>5, <1>6 DEF Reconcile

\* The end of Actuator.apply.
LEMMA FinishApplyType ==
    ASSUME TypeOK, NEW err \in BOOLEAN, FinishApply(err),
           node' \in Node, advertised' \subseteq Resource, pluginStarting' \in BOOLEAN,
           faults' \in 0..MaxFaults
    PROVE  TypeOK'
<1>1. lastApplied' \in Seq([plan : Plan, status : Status])
    <2>1. [plan |-> apply.plan, status |-> apply.status] \in [plan : Plan, status : Status]
        BY DEF TypeOK, Apply
    <2> QED BY <2>1 DEF FinishApply, updateLastApplied
<1> QED BY <1>1, EmptyTypes DEF TypeOK, FinishApply, repVars, Starting, Applying

\* Actuator.apply, step by step.
LEMMA ApplyType == TypeOK /\ ApplyStep => TypeOK'
<1> SUFFICES ASSUME TypeOK, ApplyStep
             PROVE  TypeOK'
    OBVIOUS
<1> USE BoundsAssumption
<1>0. Fault => faults' \in 0..MaxFaults
    BY DEF TypeOK, Fault
<1>1. CASE resetNodeSpec
    <2>1. node' \in Node
        <3>1. [k \in Keys |-> IF cache.spec[k] > 0 THEN 0 ELSE node.spec[k]] \in Quantities
            BY DEF TypeOK, Node, Quantities
        <3> QED BY <1>1, <3>1 DEF resetNodeSpec, TypeOK, Node
    <2> QED BY <1>1, <2>1, FinishApplyType DEF resetNodeSpec, TypeOK
<1>2. CASE resetNodeSpecFails
    BY <1>0, <1>2, FinishApplyType DEF resetNodeSpecFails, TypeOK
<1>3. ASSUME NEW d \in apply.todo, DeleteMigDevice(d)
      PROVE  TypeOK'
    <2>1. d \in Device /\ Key(d) \in Keys
        BY DEF TypeOK, Apply, Device, Key, Keys
    <2>2. apply' \in Apply
        <3>1. [apply.deleted EXCEPT ![Key(d)] = @ + 1] \in Quantities
            BY <2>1 DEF TypeOK, Apply, Quantities
        <3>2. apply' = [apply EXCEPT !.deleted = [apply.deleted EXCEPT ![Key(d)] = @ + 1],
                                     !.restart = TRUE, !.todo = apply.todo \ {d}]
            BY <1>3 DEF DeleteMigDevice, DeleteReturned, TypeOK, Apply
        <3> QED BY <3>1, <3>2 DEF TypeOK, Apply
    <2> QED BY <1>3, <2>2 DEF DeleteMigDevice, DeleteReturned, TypeOK, nodeVars, shared, repVars,
                              history, Starting, Applying
<1>4. ASSUME NEW d \in apply.todo, DeleteMigDeviceFails(d)
      PROVE  TypeOK'
    <2>1. apply' \in Apply
        BY ZenonT(60), <1>4 DEF DeleteMigDeviceFails, DeleteReturned, TypeOK, Apply
    <2>2. hw' \subseteq Instance
        <3>1. \A i \in hw : [i EXCEPT !.ci = FALSE] \in Instance
            BY DEF TypeOK, Instance
        <3> QED BY <1>4, <3>1 DEF DeleteMigDeviceFails, DeleteReturned, TypeOK
    <2>3. faults' \in 0..MaxFaults
        BY <1>0, <1>4 DEF DeleteMigDeviceFails, TypeOK
    <2>4. aPc' \in {"create", "delete"}
          /\ UNCHANGED <<nodeVars, advertised, allocated, pluginStarting, shared, aQueued, keep,
                         lastApplied, repVars, history, plans, pods, crashes>>
        BY <1>4 DEF DeleteMigDeviceFails, DeleteReturned
    <2> QED BY <2>1, <2>2, <2>3, <2>4
            DEF TypeOK, nodeVars, shared, repVars, history, Starting, Applying
<1>5. ASSUME NEW g \in apply.gpus, CreateOn(g)
      PROVE  TypeOK'
    <2>1. g \in GPUs
        BY DEF TypeOK, Apply
    <2>2. hw' \subseteq Instance
        BY <1>5, <2>1, CreatedType DEF CreateOn, TypeOK
    <2>3. apply' \in Apply
        <3>1. \/ apply' = [apply EXCEPT !.gpus = @ \ {g}, !.made = TRUE]
              \/ apply' = [apply EXCEPT !.gpus = @ \ {g}, !.failed = TRUE]
            BY <1>5 DEF CreateOn
        <3>2. apply \in Apply
            BY DEF TypeOK
        <3>3. [apply EXCEPT !.gpus = @ \ {g}, !.made = TRUE] \in Apply
            BY <3>2 DEF Apply
        <3>4. [apply EXCEPT !.gpus = @ \ {g}, !.failed = TRUE] \in Apply
            BY <3>2 DEF Apply
        <3> QED BY <3>1, <3>3, <3>4
    <2>4. faults' \in 0..MaxFaults
        BY <1>0, <1>5 DEF CreateOn, TypeOK
    <2> QED BY <1>5, <2>2, <2>3, <2>4 DEF CreateOn, TypeOK, nodeVars, shared, repVars, history
<1>6. ASSUME NEW g \in apply.gpus, RollbackOn(g)
      PROVE  TypeOK'
    <2>1. g \in GPUs
        BY DEF TypeOK, Apply
    <2>2. hw' \subseteq Instance
        BY <1>6, <2>1, CreatedType DEF RollbackOn, TypeOK
    <2>3. apply' \in Apply
        BY <1>6 DEF RollbackOn, TypeOK, Apply
    <2>4. faults' \in 0..MaxFaults
        BY <1>0, <1>6 DEF RollbackOn, TypeOK
    <2> QED BY <1>6, <2>2, <2>3, <2>4 DEF RollbackOn, TypeOK, nodeVars, shared, repVars, history,
                                          Starting, Applying
<1>7. CASE CreateDone
    <2>1. apply' \in Apply
        <3>1. GpusOf(apply.deleted) \subseteq GPUs
            BY DEF GpusOf
        <3> QED BY <1>7, <3>1 DEF CreateDone, TypeOK, Apply
    <2> QED BY <1>7, <2>1 DEF CreateDone, TypeOK, nodeVars, hostVars, shared, repVars, history,
                              bounds, Starting, Applying
<1>8. CASE RestartPlugin
    <2>1. Discovered \subseteq Resource
        BY DEF Discovered, TypeOK, Instance, Resource
    <2>2. advertised' \subseteq Resource /\ pluginStarting' \in BOOLEAN
        BY <1>8, <2>1 DEF RestartPlugin, PluginRestarted, TypeOK
    <2>3. CASE apply.err
        BY <1>8, <2>2, <2>3 DEF RestartPlugin, TypeOK, shared, repVars, history, Starting, Applying
    <2>4. CASE ~apply.err
        BY <1>8, <2>2, <2>4, FinishApplyType DEF RestartPlugin, TypeOK
    <2> QED BY <2>3, <2>4
<1>9. CASE RestartPluginFails
    BY <1>0, <1>9 DEF RestartPluginFails, TypeOK, nodeVars, shared, repVars, history, Starting, Applying
<1>10. CASE clearRepartitioningTaint
    <2>1. node' \in Node
        BY <1>10 DEF clearRepartitioningTaint, TypeOK, Node
    <2> QED BY <1>0, <1>10, <2>1, FinishApplyType DEF clearRepartitioningTaint, TypeOK
<1> QED BY <1>1, <1>2, <1>3, <1>4, <1>5, <1>6, <1>7, <1>8, <1>9, <1>10 DEF ApplyStep

\* The Reporter: what it patches into the Node are quantities again.
LEMMA ReportType == TypeOK /\ Report => TypeOK'
<1> SUFFICES ASSUME TypeOK, Report
             PROVE  TypeOK'
    OBVIOUS
<1> USE BoundsAssumption
<1>0. Fault => faults' \in 0..MaxFaults
    BY DEF TypeOK, Fault
<1>1. CASE ReportFails
    BY <1>0, <1>1 DEF ReportFails, OnReportDone, TypeOK, nodeVars, hostVars, actVars, repVars, history
<1>2. CASE ReportUnchanged
    BY <1>2 DEF ReportUnchanged, OnReportDone, TypeOK, nodeVars, hostVars, actVars, repVars, history, bounds
<1>3. CASE ReportBegins
    <2>1. rStatus' \in Status
        BY <1>3, ListedType, StatusType DEF ReportBegins
    <2> QED BY <1>3, <2>1 DEF ReportBegins, TypeOK, nodeVars, hostVars, actVars, history, bounds
<1>4. CASE ReportPatch
    <2>1. \A a, b, c \in Quantities : Patched(a, b, c) \in Quantities
        BY DEF Patched, Quantities
    <2>2. /\ Patched(node.status.used, rView.status.used, rStatus.used) \in Quantities
          /\ Patched(node.status.free, rView.status.free, rStatus.free) \in Quantities
        BY <2>1 DEF TypeOK, Node, Status
    <2>3. node' \in Node
        <3>1. \A st \in Status, ack \in Nat : [node EXCEPT !.status = st, !.ack = ack] \in Node
            BY DEF TypeOK, Node
        <3>2. lastParsed \in Nat /\ node.ack \in Nat
            BY DEF TypeOK, Node
        <3>3. [used |-> Patched(node.status.used, rView.status.used, rStatus.used),
               free |-> Patched(node.status.free, rView.status.free, rStatus.free)] \in Status
            BY <2>2 DEF Status
        <3> QED BY <1>4, <3>1, <3>2, <3>3 DEF ReportPatch, TypeOK
    <2>4. faults' \in 0..MaxFaults
        BY <1>0, <1>4 DEF ReportPatch, TypeOK
    <2> QED BY <1>4, <2>3, <2>4, EmptyTypes
            DEF ReportPatch, OnReportDone, TypeOK, hostVars, actVars, history
<1> QED BY <1>1, <1>2, <1>3, <1>4 DEF Report

\* The partitioner, the informer, the kubelet, the device plugin and crashes.
LEMMA EnvironmentType == TypeOK /\ Environment => TypeOK'
<1> SUFFICES ASSUME TypeOK, Environment
             PROVE  TypeOK'
    OBVIOUS
<1> USE BoundsAssumption
<1>1. ASSUME NEW spec \in Specs, NEW taint \in BOOLEAN, ApplyPartitioning(spec, taint)
      PROVE  TypeOK'
    <2>1. spec \in Quantities /\ plans' \in 0..MaxPlans
        BY <1>1, DomainsAssumption DEF Quantities, ApplyPartitioning, TypeOK
    <2>2. node' \in Node
        <3>1. plans + 1 \in Nat /\ (node.taint \/ taint) \in BOOLEAN
            BY DEF TypeOK, Node
        <3>2. \A n \in Nat, t \in BOOLEAN : [node EXCEPT !.spec = spec, !.plan = n, !.taint = t] \in Node
            BY <2>1 DEF TypeOK, Node
        <3>3. node' = [node EXCEPT !.spec = spec, !.plan = plans + 1, !.taint = node.taint \/ taint]
            BY <1>1 DEF ApplyPartitioning, TypeOK, Node
        <3> QED BY <3>1, <3>2, <3>3
    <2> QED BY <1>1, <2>1, <2>2 DEF ApplyPartitioning, TypeOK, hostVars, shared, actVars, repVars, history
<1>2. CASE CacheSync
    BY <1>2 DEF CacheSync, TypeOK, hostVars, shared, repVars, history, bounds
<1>3. ASSUME NEW r \in advertised, Allocate(r)
      PROVE  TypeOK'
    <2>1. r.id \in Ids
        BY DEF TypeOK, Resource
    <2> QED BY <1>3, <2>1 DEF Allocate, TypeOK, nodeVars, shared, actVars, repVars
<1>4. ASSUME NEW r \in allocated, Release(r)
      PROVE  TypeOK'
    BY <1>4 DEF Release, TypeOK, nodeVars, shared, actVars, repVars, history, bounds
<1>5. CASE PluginUp
    <2>1. Discovered \subseteq Resource
        BY DEF Discovered, TypeOK, Instance, Resource
    <2> QED BY <1>5, <2>1 DEF PluginUp, TypeOK, nodeVars, shared, actVars, repVars, history, bounds
<1>6. CASE Crash
    <2>1. lastApplied' \in Seq([plan : Plan, status : Status])
        BY <1>6 DEF Crash
    <2>2. cache' \in Node /\ apply' \in Apply /\ rView' \in Node /\ rStatus' \in Status
        BY <1>6, EmptyTypes DEF Crash
    <2>3. crashes' \in 0..MaxCrashes
        BY <1>6 DEF Crash, TypeOK
    <2> QED BY <1>6, <2>1, <2>2, <2>3 DEF Crash, TypeOK, hostVars, Starting, Applying
<1> QED BY <1>1, <1>2, <1>3, <1>4, <1>5, <1>6 DEF Environment

\* Every reachable state is well typed: no plan, patch or cleanup ever leaves a negative
\* quantity, a device without a GPU or a counter beyond its bound.
THEOREM TypeCorrect == Spec => []TypeOK
<1>1. Init => TypeOK
    <2> SUFFICES ASSUME Init
                 PROVE  TypeOK
        OBVIOUS
    <2>1. lastApplied \in Seq([plan : Plan, status : Status])
        BY DEF Init
    <2>2. node \in Node /\ cache \in Node /\ apply \in Apply /\ rView \in Node /\ rStatus \in Status
        BY EmptyTypes DEF Init
    <2>3. plans \in 0..MaxPlans /\ pods \in 0..MaxPods /\ faults \in 0..MaxFaults /\ crashes \in 0..MaxCrashes
        BY BoundsAssumption DEF Init
    <2> QED BY <2>1, <2>2, <2>3 DEF Init, TypeOK, Starting, Applying
<1>2. TypeOK /\ [Next]_vars => TypeOK'
    <2>1. TypeOK /\ UNCHANGED vars => TypeOK'
        BY DEF TypeOK, vars, nodeVars, hostVars, shared, actVars, repVars, history, bounds
    <2> QED BY <2>1, BootType, ReconcileType, ApplyType, ReportType, EnvironmentType DEF Next
<1> QED BY <1>1, <1>2, PTL DEF Spec

-----------------------------------------------------------------------------
(***************************************************************************)
(* The mutex and the channel of SharedState                                *)
(***************************************************************************)

\* No step of the Actuator, the Reporter or the environment breaks the locking
\* discipline of SharedState (shared.go, Reconcile of actuator.go and reporter.go).
LEMMA SharedStateStep == SharedStateInv /\ [Next]_vars => SharedStateInv'
<1> SUFFICES ASSUME SharedStateInv, [Next]_vars
             PROVE  SharedStateInv'
    OBVIOUS
<1> USE DEF SharedStateInv, Starting, Applying
<1>1. CASE Boot
    BY <1>1 DEF Boot, ReadUsed, DeleteAllExcept, DeleteAllExceptFails, shared, repVars
<1>2. CASE Gate
    BY <1>2 DEF Gate, repVars
<1>3. CASE Reconcile
    BY <1>3 DEF Reconcile, ReconcileFails, ReconcileMatched, ReconcileSkipped,
                ReconcileApplies, EndReconcile, repVars
<1>4. CASE ApplyStep
    <2>1. CASE resetNodeSpec \/ resetNodeSpecFails
        BY <2>1 DEF resetNodeSpec, resetNodeSpecFails, FinishApply, repVars
    <2>2. ASSUME NEW d \in apply.todo, DeleteMigDevice(d) \/ DeleteMigDeviceFails(d)
          PROVE  SharedStateInv'
        <3>1. aPc = "delete" /\ aPc' \in {"create", "delete"} /\ UNCHANGED <<shared, repVars>>
            BY <2>2 DEF DeleteMigDevice, DeleteMigDeviceFails, DeleteReturned
        <3> QED BY <3>1 DEF shared, repVars
    <2>3. ASSUME NEW g \in apply.gpus, CreateOn(g)
          PROVE  SharedStateInv'
        <3>1. UNCHANGED <<aPc, shared, repVars>>
            BY <2>3 DEF CreateOn
        <3> QED BY <3>1 DEF shared, repVars
    <2>4. ASSUME NEW g \in apply.gpus, RollbackOn(g)
          PROVE  SharedStateInv'
        <3>1. aPc = "rollback" /\ aPc' \in {"restart", "rollback"} /\ UNCHANGED <<shared, repVars>>
            BY <2>4 DEF RollbackOn
        <3> QED BY <3>1 DEF shared, repVars
    <2>5. CASE CreateDone
        BY <2>5 DEF CreateDone, shared, repVars
    <2>6. CASE RestartPlugin
        BY <2>6 DEF RestartPlugin, FinishApply, shared, repVars
    <2>7. CASE RestartPluginFails
        BY <2>7 DEF RestartPluginFails, shared, repVars
    <2>8. CASE clearRepartitioningTaint
        BY <2>8 DEF clearRepartitioningTaint, FinishApply, repVars
    <2> QED BY <1>4, <2>1, <2>2, <2>3, <2>4, <2>5, <2>6, <2>7, <2>8 DEF ApplyStep
<1>5. CASE Report
    BY <1>5 DEF Report, ReportFails, ReportUnchanged, ReportBegins, ReportPatch, OnReportDone,
                Running, actVars, repVars
<1>6. CASE Environment
    <2>1. CASE Crash
        BY <2>1 DEF Crash
    <2>2. CASE ~Crash
        <3>1. UNCHANGED <<aPc, shared, repVars>>
            BY <1>6, <2>2 DEF Environment, ApplyPartitioning, CacheSync, Allocate, Release,
                              PluginUp, actVars
        <3> QED BY <3>1 DEF shared, repVars
    <2> QED BY <2>1, <2>2
<1>7. CASE UNCHANGED vars
    BY <1>7 DEF vars, shared, actVars, repVars
<1> QED BY <1>1, <1>2, <1>3, <1>4, <1>5, <1>6, <1>7 DEF Next

\* The locking discipline holds in every reachable state.
THEOREM SharedStateCorrect == Spec => []SharedStateInv
<1>1. Init => SharedStateInv
    BY DEF Init, SharedStateInv, Starting, Applying
<1> QED BY <1>1, SharedStateStep, PTL DEF Spec

\* No plan is applied unless the Reporter has run since the previous one was: the
\* gate of Actuator.Reconcile (AtLeastOneReportSinceLastApply, OnApplyDone).
THEOREM ApplyFollowsReportCorrect == Spec => []ApplyFollowsReport
<1>1. SharedStateInv => ApplyFollowsReport
    BY DEF SharedStateInv, ApplyFollowsReport
<1> QED BY <1>1, SharedStateCorrect, PTL

\* While the Reporter is between listing the devices and writing what it found, neither
\* the devices nor the id of the last parsed plan change (the mutex of SharedState).
THEOREM ReportIsConsistentCorrect == Spec => ReportIsConsistent
<1> DEFINE Consistent == rPc = "patch" /\ rPc' = "patch" => UNCHANGED <<hw, lastParsed>>
<1>1. SharedStateInv /\ [Next]_vars => [Consistent]_vars
    <2> SUFFICES ASSUME SharedStateInv, Next, rPc = "patch", rPc' = "patch"
                 PROVE  UNCHANGED <<hw, lastParsed>>
        OBVIOUS
    <2>1. mutex = "reporter" /\ aPc \notin Applying /\ aPc \notin Starting
        BY DEF SharedStateInv
    <2>2. ~Boot /\ ~Reconcile
        BY <2>1 DEF Boot, ReadUsed, DeleteAllExcept, DeleteAllExceptFails, Starting, Reconcile,
                    ReconcileFails, ReconcileMatched, ReconcileSkipped, ReconcileApplies
    <2>3. ~ApplyStep
        BY <2>1 DEF ApplyStep, resetNodeSpec, resetNodeSpecFails, DeleteMigDevice,
                    DeleteMigDeviceFails, CreateOn, RollbackOn, CreateDone, RestartPlugin,
                    RestartPluginFails, clearRepartitioningTaint, Applying
    <2>4. CASE Gate
        BY <2>4 DEF Gate, hostVars
    <2>5. CASE Report
        BY <2>1, <2>5 DEF Report, ReportFails, ReportUnchanged, ReportBegins, ReportPatch
    <2>6. CASE Environment
        BY <2>6 DEF Environment, ApplyPartitioning, CacheSync, Allocate, Release, PluginUp,
                    Crash, shared, hostVars
    <2> QED BY <2>2, <2>3, <2>4, <2>5, <2>6 DEF Next
<1> QED BY <1>1, SharedStateCorrect, PTL DEF Spec, ReportIsConsistent

-----------------------------------------------------------------------------
(***************************************************************************)
(* Devices in use                                                          *)
(***************************************************************************)

\* A device that GetMigDevices lists as free is not allocated.
LEMMA FreeIsNotAllocated ==
    ASSUME NEW d \in GetMigDevices, ~d.used
    PROVE  d.id \notin IdsOf(allocated)
<1>1. d \in extractMigDevices({r \in advertised : r.id \notin IdsOf(allocated)}, FALSE)
    BY DEF GetMigDevices, extractMigDevices
<1> QED BY <1>1 DEF extractMigDevices

\* An allocated device that exists is listed as used.
LEMMA AllocatedIsUsed ==
    ASSUME NEW i \in hw, i.ci, i.id \in IdsOf(allocated)
    PROVE  i.id \in IdsOf({d \in GetMigDevices : d.used})
<1>1. PICK r \in allocated : r.id = i.id
    BY DEF IdsOf
<1> DEFINE d == [id |-> r.id, gpu |-> i.gpu, profile |-> r.profile, used |-> TRUE]
<1>2. d \in extractMigDevices(allocated, TRUE)
    <2> DEFINE Of(x) == {[id |-> x.id, gpu |-> j.gpu, profile |-> x.profile, used |-> TRUE] :
                            j \in {k \in hw : k.ci /\ k.id = x.id}}
    <2>1. d \in Of(r)
        BY <1>1
    <2>2. Of(r) \in {Of(x) : x \in allocated}
        OBVIOUS
    <2>3. extractMigDevices(allocated, TRUE) = UNION {Of(x) : x \in allocated}
        BY DEF extractMigDevices
    <2> HIDE DEF Of
    <2> QED BY <2>1, <2>2, <2>3
<1>3. d \in GetMigDevices /\ d.used /\ d.id = i.id
    BY <1>1, <1>2 DEF GetMigDevices
<1> QED BY <1>3 DEF IdsOf

\* The delete operations of a plan name devices of the list it was computed from.
LEMMA PlanDeletesListed ==
    ASSUME NEW state, NEW spec
    PROVE  ToDelete(NewMigConfigPlan(state, spec)) \subseteq state
<1>1. \A D \in DeleteNotInSpec(state, spec) : D \subseteq state
    BY DEF DeleteNotInSpec, OfKey, getResourcesNotIncludedInSpec
<1>2. \A D \in DeleteExcess(state, spec) : D \subseteq state
    BY DEF DeleteExcess, extractCandidatesForDeletion, First, OfKey
<1>3. \A D \in DeleteForRecreate(state, spec) : D \subseteq state
    BY DEF DeleteForRecreate, extractResourcesToRecreate
<1> QED BY <1>1, <1>2, <1>3 DEF ToDelete, NewMigConfigPlan

\* What is yet to be deleted, by a plan or by the cleanup, was free when the agent
\* listed the devices: the ones now in use have been allocated since.
UsedInv ==
    /\ \A d \in apply.todo : d.id \in IdsOf(allocated) => d.id \in fresh
    /\ aPc \in Starting => apply.todo = {}
    /\ aPc = "cleanup" =>
         \A i \in hw : i.ci /\ i.id \in IdsOf(allocated) => i.id \in keep \cup fresh

\* A step of apply adds nothing to what is to be deleted.
LEMMA TodoShrinks ==
    ASSUME TypeOK, ApplyStep
    PROVE  /\ apply'.todo \subseteq apply.todo
           /\ aPc' \notin Starting
           /\ UNCHANGED <<allocated, fresh>>
<1>1. apply \in Apply /\ NoApply.todo = {}
    BY DEF TypeOK, NoApply
<1>2. ASSUME NEW err, FinishApply(err)
      PROVE  apply'.todo = {} /\ aPc' = "idle" /\ UNCHANGED <<allocated, fresh>>
    BY <1>1, <1>2 DEF FinishApply
<1>3. CASE resetNodeSpec \/ resetNodeSpecFails \/ clearRepartitioningTaint
    BY <1>2, <1>3 DEF resetNodeSpec, resetNodeSpecFails, clearRepartitioningTaint, Starting
<1>4. ASSUME NEW d \in apply.todo, DeleteMigDevice(d) \/ DeleteMigDeviceFails(d)
      PROVE  apply'.todo \subseteq apply.todo /\ aPc' \in {"create", "delete"}
             /\ UNCHANGED <<allocated, fresh>>
    <2>1. ASSUME NEW changed \in Apply, changed.todo = apply.todo, DeleteReturned(d, changed)
          PROVE  apply'.todo \subseteq apply.todo /\ aPc' \in {"create", "delete"}
                 /\ UNCHANGED <<allocated, fresh>>
        BY <2>1 DEF DeleteReturned, Apply, history
    <2>2. CASE DeleteMigDevice(d)
        <3> DEFINE c == [apply EXCEPT !.deleted[Key(d)] = @ + 1, !.restart = TRUE]
        <3>1. Key(d) \in Keys
            BY <1>1 DEF Apply, Device, Key, Keys
        <3>2. [apply.deleted EXCEPT ![Key(d)] = @ + 1] \in Quantities
            BY <1>1, <3>1 DEF Apply, Quantities
        <3>3. c \in Apply /\ c.todo = apply.todo
            BY <1>1, <3>2 DEF Apply
        <3> QED BY <2>1, <2>2, <3>3 DEF DeleteMigDevice
    <2>3. CASE DeleteMigDeviceFails(d)
        <3>1. \A b \in BOOLEAN :
                LET c == [apply EXCEPT !.err = TRUE, !.restart = @ \/ b]
                IN  c \in Apply /\ c.todo = apply.todo
            BY <1>1 DEF Apply
        <3>2. LET c == [apply EXCEPT !.err = TRUE]
              IN  c \in Apply /\ c.todo = apply.todo
            BY <1>1 DEF Apply
        <3> QED BY <2>1, <2>3, <3>1, <3>2 DEF DeleteMigDeviceFails
    <2> QED BY <1>4, <2>2, <2>3
<1>5. ASSUME NEW g \in apply.gpus, CreateOn(g) \/ RollbackOn(g)
      PROVE  apply'.todo = apply.todo /\ aPc' \in {"create", "rollback", "restart"}
             /\ UNCHANGED <<allocated, fresh>>
    BY <1>1, <1>5 DEF CreateOn, RollbackOn, Apply, history
<1>6. CASE CreateDone
    BY <1>1, <1>6 DEF CreateDone, Apply, Starting, hostVars, history
<1>7. CASE RestartPlugin
    BY <1>2, <1>7 DEF RestartPlugin, Starting, history
<1>8. CASE RestartPluginFails
    BY <1>8 DEF RestartPluginFails, Starting, history
<1> QED BY <1>3, <1>4, <1>5, <1>6, <1>7, <1>8 DEF ApplyStep, Starting

\* When apply begins, nothing it will delete is in use.
LEMMA TodoIsFree ==
    ASSUME TypeOK, ReconcileApplies
    PROVE  \A d \in apply'.todo : d.id \notin IdsOf(allocated)
<1> DEFINE plan == PlanFor(cache.spec)
<1>1. ToDelete(plan) \subseteq GetMigDevices
    <2>1. CASE plan = EmptyPlan
        BY <2>1 DEF EmptyPlan, ToDelete
    <2>2. CASE plan = NewMigConfigPlan(GetMigDevices, cache.spec)
        BY <2>2, PlanDeletesListed
    <2> QED BY <2>1, <2>2 DEF PlanFor
<1>2. apply'.todo = {d \in ToDelete(plan) : ~d.used}
    BY DEF ReconcileApplies, NoApply
<1> HIDE DEF plan
<1> QED BY <1>1, <1>2, FreeIsNotAllocated

\* What the agent may still delete stays what was free when it listed the devices.
LEMMA UsedInvStep == TypeOK /\ UsedInv /\ [Next]_vars => UsedInv'
<1> SUFFICES ASSUME TypeOK, UsedInv, [Next]_vars
             PROVE  UsedInv'
    OBVIOUS
<1>1. CASE ReadUsed
    <2>1. UNCHANGED <<hw, allocated, apply>> /\ apply.todo = {} /\ aPc' = "cleanup"
          /\ keep' = IdsOf({d \in GetMigDevices : d.used})
        BY <1>1 DEF ReadUsed, UsedInv, Starting, hostVars
    <2> QED BY <2>1, AllocatedIsUsed DEF UsedInv, IdsOf
<1>2. CASE DeleteAllExcept \/ DeleteAllExceptFails
    BY <1>2 DEF DeleteAllExcept, DeleteAllExceptFails, UsedInv, Starting, IdsOf, history
<1>3. CASE Gate
    BY <1>3 DEF Gate, UsedInv, Starting, IdsOf, hostVars, history
<1>4. CASE ReconcileFails \/ ReconcileMatched \/ ReconcileSkipped
    <2>1. aPc' = "idle" /\ UNCHANGED <<allocated, apply, fresh>>
        BY <1>4 DEF ReconcileFails, ReconcileMatched, ReconcileSkipped, EndReconcile, hostVars, history
    <2> QED BY <2>1 DEF UsedInv, Starting, IdsOf
<1>5. CASE ReconcileApplies
    <2>1. aPc' \in {"reset", "create", "delete"} /\ UNCHANGED allocated
        BY <1>5 DEF ReconcileApplies, hostVars
    <2> QED BY <1>5, <2>1, TodoIsFree DEF UsedInv, Starting, IdsOf
<1>6. CASE ApplyStep
    BY <1>6, TodoShrinks DEF UsedInv, Starting, IdsOf
<1>7. CASE Report
    <2>1. UNCHANGED <<aPc, hw, allocated, keep, apply, fresh>>
        BY <1>7 DEF Report, ReportFails, ReportUnchanged, ReportBegins, ReportPatch, hostVars,
                    actVars, history
    <2> QED BY <2>1 DEF UsedInv, IdsOf
<1>8. CASE Environment
    <2>1. ASSUME NEW r \in advertised, Allocate(r)
          PROVE  UsedInv'
        <3>1. IdsOf(allocated)' = IdsOf(allocated) \cup {r.id} /\ fresh' = fresh \cup {r.id}
              /\ UNCHANGED <<aPc, hw, keep, apply>>
            BY <2>1 DEF Allocate, IdsOf, actVars
        <3> QED BY <3>1 DEF UsedInv
    <2>2. ASSUME NEW r \in allocated, Release(r)
          PROVE  UsedInv'
        <3>1. IdsOf(allocated)' \subseteq IdsOf(allocated) /\ UNCHANGED <<aPc, hw, keep, apply, fresh>>
            BY <2>2 DEF Release, IdsOf, actVars, history
        <3> QED BY <3>1 DEF UsedInv
    <2>3. CASE Crash
        BY <2>3 DEF Crash, UsedInv, NoApply, Starting
    <2>4. CASE \/ \E spec \in Specs, taint \in BOOLEAN : ApplyPartitioning(spec, taint)
               \/ CacheSync
               \/ PluginUp
        <3>1. UNCHANGED <<aPc, hw, allocated, keep, apply, fresh>>
            BY <2>4 DEF ApplyPartitioning, CacheSync, PluginUp, hostVars, actVars, history
        <3> QED BY <3>1 DEF UsedInv, IdsOf
    <2> QED BY <1>8, <2>1, <2>2, <2>3, <2>4 DEF Environment
<1>9. CASE UNCHANGED vars
    BY <1>9 DEF vars, hostVars, actVars, history, UsedInv, IdsOf
<1> QED BY <1>1, <1>2, <1>3, <1>4, <1>5, <1>6, <1>7, <1>8, <1>9 DEF Next, Boot, Reconcile

\* A device that a Pod used when the agent listed the used ones, for its plan or for the
\* cleanup at its start, is never destroyed (applyDeleteOp, cleanupUnusedMigResources).
THEOREM UsedWhenListedSurvivesCorrect == Spec => UsedWhenListedSurvives
<1> DEFINE Survives == \A i \in hw \ hw' : i.ci /\ i.id \in IdsOf(allocated) => i.id \in fresh
<1>1. Init => UsedInv
    BY DEF Init, UsedInv, NoApply, Starting
<1>2. TypeOK /\ UsedInv /\ [Next]_vars => [Survives]_vars
    <2> SUFFICES ASSUME TypeOK, UsedInv, Next
                 PROVE  Survives
        OBVIOUS
    <2>1. CASE DeleteAllExcept \/ DeleteAllExceptFails
        BY <2>1 DEF DeleteAllExcept, DeleteAllExceptFails, UsedInv
    <2>2. ASSUME NEW d \in apply.todo, DeleteMigDevice(d) \/ DeleteMigDeviceFails(d)
          PROVE  Survives
        <3>1. CASE DeleteMigDevice(d)
            BY <3>1 DEF DeleteMigDevice, UsedInv
        <3>2. CASE DeleteMigDeviceFails(d)
            <4>1. \/ hw' = hw
                  \/ \E i \in hw : i.id = d.id /\ hw' = (hw \ {i}) \cup {[i EXCEPT !.ci = FALSE]}
                BY <3>2 DEF DeleteMigDeviceFails
            <4>2. \A i \in hw \ hw' : i.id = d.id
                BY <4>1
            <4> QED BY <4>2 DEF UsedInv
        <3> QED BY <2>2, <3>1, <3>2
    <2>3. ASSUME NEW g \in apply.gpus, CreateOn(g) \/ RollbackOn(g)
          PROVE  Survives
        <3>1. hw \subseteq hw'
            BY <2>3 DEF CreateOn, RollbackOn
        <3> QED BY <3>1
    <2>4. CASE \/ ReadUsed \/ Gate \/ Reconcile \/ Report \/ Environment
               \/ resetNodeSpec \/ resetNodeSpecFails \/ CreateDone \/ RestartPlugin
               \/ RestartPluginFails \/ clearRepartitioningTaint
        <3>1. CASE ReadUsed \/ Gate \/ Reconcile
            BY <3>1 DEF ReadUsed, Gate, Reconcile, ReconcileFails, ReconcileMatched,
                        ReconcileSkipped, ReconcileApplies, EndReconcile, hostVars
        <3>2. CASE Report
            BY <3>2 DEF Report, ReportFails, ReportUnchanged, ReportBegins, ReportPatch, hostVars
        <3>3. CASE Environment
            BY <3>3 DEF Environment, ApplyPartitioning, CacheSync, Allocate, Release, PluginUp,
                        Crash, hostVars
        <3>4. CASE \/ resetNodeSpec \/ resetNodeSpecFails \/ CreateDone \/ RestartPlugin
                   \/ RestartPluginFails \/ clearRepartitioningTaint
            BY <3>4 DEF resetNodeSpec, resetNodeSpecFails, CreateDone, RestartPlugin,
                        RestartPluginFails, clearRepartitioningTaint, FinishApply, hostVars
        <3> QED BY <2>4, <3>1, <3>2, <3>3, <3>4
    <2> QED BY <2>1, <2>2, <2>3, <2>4 DEF Next, Boot, ApplyStep
<1> QED BY <1>1, <1>2, UsedInvStep, TypeCorrect, PTL DEF Spec, UsedWhenListedSurvives

-----------------------------------------------------------------------------
(***************************************************************************)
(* Plan ids and reports                                                    *)
(***************************************************************************)

\* No step breaks ContractInv: plan ids only come from ApplyPartitioning, and pass
\* through the cache, lastParsedPlanId and the status-partitioning-plan annotation.
LEMMA ContractInvStep == TypeOK /\ SharedStateInv /\ ContractInv /\ [Next]_vars => ContractInv'
<1> SUFFICES ASSUME TypeOK, SharedStateInv, ContractInv, [Next]_vars
             PROVE  ContractInv'
    OBVIOUS
<1>0. /\ plans \in Nat /\ node.plan \in Nat /\ node.ack \in Nat /\ cache.plan \in Nat
      /\ lastParsed \in Nat /\ node \in Node
    BY BoundsAssumption DEF TypeOK, Node
<1> USE <1>0 DEF ContractInv, Starting, Applying
<1>1. CASE Boot
    BY <1>1 DEF Boot, ReadUsed, DeleteAllExcept, DeleteAllExceptFails, shared, nodeVars, bounds
<1>2. CASE Gate
    BY <1>2 DEF Gate, nodeVars, bounds
<1>3. CASE Reconcile
    BY <1>3 DEF Reconcile, ReconcileFails, ReconcileMatched, ReconcileSkipped,
                ReconcileApplies, EndReconcile, nodeVars, bounds
<1>4. CASE ApplyStep
    <2>1. CASE resetNodeSpec
        <3>1. node'.plan \in {0, node.plan} /\ node'.ack = node.ack
            BY <2>1 DEF resetNodeSpec, Node
        <3> QED BY <2>1, <3>1 DEF resetNodeSpec, FinishApply
    <2>2. CASE clearRepartitioningTaint
        <3>1. node'.plan = node.plan /\ node'.ack = node.ack
            BY <2>2 DEF clearRepartitioningTaint, Node
        <3> QED BY <2>2, <3>1 DEF clearRepartitioningTaint, FinishApply
    <2>3. CASE resetNodeSpecFails
        BY <2>3 DEF resetNodeSpecFails, FinishApply
    <2>4. CASE RestartPlugin
        BY <2>4 DEF RestartPlugin, FinishApply, shared
    <2>5. ASSUME NEW d \in apply.todo, DeleteMigDevice(d) \/ DeleteMigDeviceFails(d)
          PROVE  ContractInv'
        <3>1. aPc' \in {"create", "delete"} /\ UNCHANGED <<nodeVars, shared, plans>>
            BY <2>5 DEF DeleteMigDevice, DeleteMigDeviceFails, DeleteReturned
        <3> QED BY <3>1 DEF nodeVars, shared
    <2>6. ASSUME NEW g \in apply.gpus, CreateOn(g) \/ RollbackOn(g)
          PROVE  ContractInv'
        <3>1. aPc' \in {"create", "restart", "rollback"} /\ UNCHANGED <<nodeVars, shared, plans>>
            BY <2>6 DEF CreateOn, RollbackOn
        <3> QED BY <3>1 DEF nodeVars, shared
    <2>7. CASE CreateDone \/ RestartPluginFails
        BY <2>7 DEF CreateDone, RestartPluginFails, nodeVars, shared, bounds
    <2> QED BY <1>4, <2>1, <2>2, <2>3, <2>4, <2>5, <2>6, <2>7 DEF ApplyStep
<1>5. CASE Report
    <2>1. CASE ReportPatch
        <3>1. node'.plan = node.plan /\ node'.ack \in {node.ack, lastParsed}
            BY <2>1 DEF ReportPatch, Node
        <3>2. aPc' \notin Starting
            BY <2>1 DEF SharedStateInv, ReportPatch, actVars
        <3> QED BY <2>1, <3>1, <3>2 DEF ReportPatch
    <2>2. CASE ReportFails \/ ReportUnchanged \/ ReportBegins
        BY <2>2 DEF ReportFails, ReportUnchanged, ReportBegins, OnReportDone, Running, actVars,
                    nodeVars, bounds
    <2> QED BY <1>5, <2>1, <2>2 DEF Report
<1>6. CASE Environment
    <2>1. ASSUME NEW sp \in Specs, NEW t \in BOOLEAN, ApplyPartitioning(sp, t)
          PROVE  ContractInv'
        <3>1. node'.plan = plans + 1 /\ node'.ack = node.ack
            BY <2>1 DEF ApplyPartitioning, Node
        <3> QED BY <2>1, <3>1 DEF ApplyPartitioning, shared, actVars
    <2>2. CASE CacheSync \/ PluginUp
        BY <2>2 DEF CacheSync, PluginUp, nodeVars, shared, actVars, bounds
    <2>3. CASE (\E r \in advertised : Allocate(r)) \/ (\E r \in allocated : Release(r))
        BY <2>3 DEF Allocate, Release, nodeVars, shared, actVars, bounds
    <2>4. CASE Crash
        BY <2>4 DEF Crash, NoNode
    <2> QED BY <1>6, <2>1, <2>2, <2>3, <2>4 DEF Environment
<1>7. CASE UNCHANGED vars
    BY <1>7 DEF vars, nodeVars, shared, actVars, bounds
<1> QED BY <1>1, <1>2, <1>3, <1>4, <1>5, <1>6, <1>7 DEF Next

\* The agent acknowledges no plan that was not written, and no report survives a start
\* of the process (lastParsedPlanId of SharedState, statusPartitioningPlan of reporter.go).
THEOREM ContractInvCorrect == Spec => []ContractInv
<1>1. Init => ContractInv
    BY DEF Init, ContractInv, NoNode
<1> QED BY <1>1, ContractInvStep, SharedStateCorrect, TypeCorrect, PTL DEF Spec

-----------------------------------------------------------------------------
(***************************************************************************)
(* The refinement                                                          *)
(***************************************************************************)

\* A step that leaves the Node, the devices, the issued plans and the turn as they
\* are is a step of which the contract sees nothing.
LEMMA Stutter ==
    UNCHANGED <<hw, node, plans, Turn>> => UNCHANGED C!contractVars
    BY DEF C!contractVars

\* The start of the process (migagent.go) cleans.
LEMMA BootImplements ==
    TypeOK /\ ContractInv /\ Boot => [C!Next]_(C!contractVars)
<1> SUFFICES ASSUME TypeOK, ContractInv, Boot
             PROVE  C!Clean \/ UNCHANGED C!contractVars
    BY DEF C!Next
<1>0. ~reported /\ Turn = "boot"
    BY DEF Boot, ReadUsed, DeleteAllExcept, DeleteAllExceptFails, ContractInv, Starting, Applying, Turn
<1>1. CASE ReadUsed
    <2>1. UNCHANGED <<hw, node, plans>> /\ Turn' = "boot"
        BY <1>1 DEF ReadUsed, nodeVars, hostVars, bounds, Turn, Starting, Applying
    <2> QED BY <1>0, <2>1, Stutter
<1>2. CASE DeleteAllExcept
    <2>1. hw' \subseteq hw /\ UNCHANGED <<node, plans>> /\ Turn' = "wait"
        BY <1>0, <1>2 DEF DeleteAllExcept, shared, bounds, Turn, Starting, Applying
    <2> QED BY <1>0, <2>1 DEF C!Clean
<1>3. CASE DeleteAllExceptFails
    <2>1. UNCHANGED <<node, plans>> /\ Turn' = "boot"
        BY <1>3 DEF DeleteAllExceptFails, nodeVars, Turn, Starting, Applying
    <2>2. \A j \in hw' \ hw : \E i \in hw : j = [i EXCEPT !.ci = FALSE]
        BY <1>3 DEF DeleteAllExceptFails
    <2> QED BY <1>0, <2>1, <2>2 DEF C!Clean
<1> QED BY <1>1, <1>2, <1>3 DEF Boot

\* Actuator.Reconcile up to apply: the contract only sees that a change begins.
LEMMA ReconcileImplements ==
    SharedStateInv /\ (Gate \/ Reconcile) => [C!Next]_(C!contractVars)
<1> SUFFICES ASSUME SharedStateInv, Gate \/ Reconcile
             PROVE  C!Begin \/ UNCHANGED C!contractVars
    BY DEF C!Next
<1> USE DEF Starting, Applying
<1>1. CASE Gate
    <2>1. reported /\ UNCHANGED <<hw, node, plans, reported>> /\ aPc = "idle" /\ aPc' = "gated"
        BY <1>1 DEF Gate, SharedStateInv, nodeVars, hostVars, bounds
    <2> QED BY <2>1, Stutter DEF Turn
<1>2. CASE ReconcileFails \/ ReconcileMatched \/ ReconcileSkipped
    <2>1. UNCHANGED <<hw, node, plans, reported>> /\ aPc = "gated" /\ aPc' = "idle"
        BY <1>2 DEF ReconcileFails, ReconcileMatched, ReconcileSkipped, EndReconcile, nodeVars, hostVars
    <2> QED BY <2>1, Stutter DEF Turn
<1>3. CASE ReconcileApplies
    <2>1. /\ reported /\ aPc = "gated" /\ aPc' \in {"reset", "create", "delete"}
          /\ UNCHANGED <<hw, node, plans>>
        BY <1>3 DEF ReconcileApplies, SharedStateInv, nodeVars, hostVars, bounds
    <2> QED BY <2>1 DEF Turn, C!Begin
<1> QED BY <1>1, <1>2, <1>3 DEF Reconcile

\* apply changes devices, and then finishes.
LEMMA ApplyImplements ==
    TypeOK /\ ApplyStep => [C!Next]_(C!contractVars)
<1> SUFFICES ASSUME TypeOK, ApplyStep
             PROVE  C!Change \/ C!Finish \/ UNCHANGED C!contractVars
    BY DEF C!Next
<1> USE DEF Starting, Applying
<1>0. node \in Node
    BY DEF TypeOK
<1>1. ASSUME NEW err, FinishApply(err)
      PROVE  Turn' = "wait" /\ UNCHANGED <<hw, plans>>
    BY <1>1 DEF FinishApply, Turn
<1>2. CASE resetNodeSpec
    <2>1. Turn = "apply" /\ Turn' = "wait" /\ UNCHANGED <<hw, plans>>
        BY <1>1, <1>2 DEF resetNodeSpec, Turn
    <2>2. /\ node'.plan \in {0, node.plan} /\ node'.taint = node.taint
          /\ node'.status = node.status /\ node'.ack = node.ack
        BY <1>0, <1>2 DEF resetNodeSpec, Node
    <2> QED BY <2>1, <2>2 DEF C!Finish
<1>3. CASE resetNodeSpecFails
    <2>1. Turn = "apply" /\ Turn' = "wait" /\ UNCHANGED <<hw, plans, node>>
        BY <1>1, <1>3 DEF resetNodeSpecFails, Turn
    <2> QED BY <2>1 DEF C!Finish
<1>4. CASE clearRepartitioningTaint
    <2>1. Turn = "apply" /\ Turn' = "wait" /\ UNCHANGED <<hw, plans>>
        BY <1>1, <1>4 DEF clearRepartitioningTaint, Turn
    <2>2. /\ node'.taint \in {FALSE, node.taint} /\ node'.spec = node.spec /\ node'.plan = node.plan
          /\ node'.status = node.status /\ node'.ack = node.ack
        BY <1>0, <1>4 DEF clearRepartitioningTaint, Node
    <2> QED BY <2>1, <2>2 DEF C!Finish
<1>5. CASE RestartPlugin
    <2>1. CASE apply.err
        BY <1>5, <2>1, Stutter DEF RestartPlugin, Turn
    <2>2. CASE ~apply.err
        <3>1. Turn = "apply" /\ Turn' = "wait" /\ UNCHANGED <<hw, plans, node>>
            BY <1>1, <1>5, <2>2 DEF RestartPlugin, Turn
        <3> QED BY <3>1 DEF C!Finish
    <2> QED BY <2>1, <2>2
<1>6. CASE CreateDone \/ RestartPluginFails
    <2>1. Turn = "apply" /\ Turn' = "apply" /\ UNCHANGED <<hw, plans, node>>
        BY <1>6 DEF CreateDone, RestartPluginFails, Turn, nodeVars, hostVars, bounds
    <2> QED BY <2>1, Stutter
<1>7. ASSUME NEW d \in apply.todo, DeleteMigDevice(d) \/ DeleteMigDeviceFails(d)
      PROVE  C!Change
    <2>1. Turn = "apply" /\ Turn' = "apply" /\ UNCHANGED <<plans, node>>
        BY <1>7 DEF DeleteMigDevice, DeleteMigDeviceFails, DeleteReturned, Turn, nodeVars
    <2>2. \/ hw' = hw
          \/ \E i \in hw : hw' \in {hw \ {i}, (hw \ {i}) \cup {[i EXCEPT !.ci = FALSE]}}
        BY <1>7 DEF DeleteMigDevice, DeleteMigDeviceFails
    <2> QED BY <2>1, <2>2 DEF C!Change
<1>8. ASSUME NEW g \in apply.gpus, CreateOn(g) \/ RollbackOn(g)
      PROVE  C!Change
    <2>1. Turn = "apply" /\ Turn' = "apply" /\ UNCHANGED <<plans, node>>
        BY <1>8 DEF CreateOn, RollbackOn, Turn, nodeVars
    <2>2. hw \subseteq hw'
        BY <1>8 DEF CreateOn, RollbackOn
    <2> QED BY <2>1, <2>2 DEF C!Change
<1> QED BY <1>2, <1>3, <1>4, <1>5, <1>6, <1>7, <1>8 DEF ApplyStep

\* The Reporter reports, never during an apply, and acknowledges an issued plan.
LEMMA ReportImplements ==
    TypeOK /\ SharedStateInv /\ ContractInv /\ Report => [C!Next]_(C!contractVars)
<1> SUFFICES ASSUME TypeOK, SharedStateInv, ContractInv, Report
             PROVE  C!Report \/ UNCHANGED C!contractVars
    BY DEF C!Next
<1>0. /\ node \in Node /\ plans \in Nat
      /\ node.ack \in 0..plans /\ lastParsed \in 0..plans
    BY BoundsAssumption DEF TypeOK, Node, ContractInv
<1>1. aPc \notin Starting /\ aPc \notin Applying /\ UNCHANGED <<aPc, hw, plans>>
    BY DEF SharedStateInv, Report, ReportFails, ReportUnchanged, ReportBegins, ReportPatch,
           Running, actVars, hostVars, bounds
<1>2. Turn \in {"wait", "ready"}
    BY <1>1 DEF Turn
<1>3. CASE ReportBegins
    <2>1. UNCHANGED <<node, reported>>
        BY <1>3 DEF ReportBegins, nodeVars
    <2> QED BY <1>1, <2>1, Stutter DEF Turn
<1>4. CASE ReportFails \/ ReportUnchanged \/ ReportPatch
    <2>1. reported'
        BY <1>4 DEF ReportFails, ReportUnchanged, ReportPatch, OnReportDone
    <2>2. Turn' = "ready"
        BY <1>1, <2>1 DEF Turn
    <2>3. /\ node'.ack \in {node.ack, lastParsed} /\ node'.spec = node.spec
          /\ node'.plan = node.plan /\ node'.taint = node.taint
        BY <1>0, <1>4 DEF ReportFails, ReportUnchanged, ReportPatch, nodeVars, Node
    <2> QED BY <1>0, <1>1, <1>2, <2>2, <2>3 DEF C!Report
<1> QED BY <1>3, <1>4 DEF Report

\* The partitioner asks, the process is restarted; the rest is not seen.
LEMMA EnvironmentImplements ==
    TypeOK /\ Environment => [C!Next]_(C!contractVars)
<1> SUFFICES ASSUME TypeOK, Environment
             PROVE  C!Ask \/ C!Restart \/ UNCHANGED C!contractVars
    BY DEF C!Next
<1>1. ASSUME NEW sp \in Specs, NEW t \in BOOLEAN, ApplyPartitioning(sp, t)
      PROVE  C!Ask
    <2>1. plans' = plans + 1 /\ UNCHANGED <<hw, aPc, reported>>
        BY <1>1 DEF ApplyPartitioning, hostVars, actVars, shared
    <2>2. UNCHANGED Turn
        BY <2>1 DEF Turn
    <2>3. /\ node'.plan = plans + 1 /\ (node.taint => node'.taint)
          /\ node'.status = node.status /\ node'.ack = node.ack
        BY <1>1 DEF ApplyPartitioning, TypeOK, Node
    <2> QED BY <2>1, <2>2, <2>3 DEF C!Ask
<1>2. CASE Crash
    <2>1. Turn' = "boot" /\ UNCHANGED <<hw, node, plans>>
        BY <1>2 DEF Crash, Turn, Starting, Applying, hostVars
    <2> QED BY <2>1 DEF C!Restart
<1>3. CASE \/ CacheSync \/ PluginUp
           \/ (\E r \in advertised : Allocate(r)) \/ (\E r \in allocated : Release(r))
    <2>1. UNCHANGED <<hw, node, plans, aPc, reported>>
        BY <1>3 DEF CacheSync, PluginUp, Allocate, Release, nodeVars, hostVars, actVars, shared, bounds
    <2> QED BY <2>1, Stutter DEF Turn
<1> QED BY <1>1, <1>2, <1>3 DEF Environment

\* Every behaviour of the agent, under any interleaving of the Actuator, the Reporter,
\* crashes and faults, is one that the contract allows.
THEOREM MigAgentKeepsContract == Spec => KeepsContract
<1>1. Init => C!Init
    BY DEF Init, C!Init, NoNode, Turn, Starting, Applying
<1>2. TypeOK /\ SharedStateInv /\ ContractInv /\ [Next]_vars => [C!Next]_(C!contractVars)
    <2>1. UNCHANGED vars => UNCHANGED C!contractVars
        <3>1. UNCHANGED vars => UNCHANGED <<hw, node, plans, aPc, reported>>
            BY DEF vars, nodeVars, hostVars, shared, actVars, bounds
        <3> QED BY <3>1, Stutter DEF Turn
    <2> QED BY <2>1, BootImplements, ReconcileImplements, ApplyImplements, ReportImplements,
               EnvironmentImplements DEF Next
<1> QED BY <1>1, <1>2, TypeCorrect, SharedStateCorrect, ContractInvCorrect, PTL
        DEF Spec, KeepsContract, C!Contract


-----------------------------------------------------------------------------
(***************************************************************************)
(* A failed apply                                                          *)
(***************************************************************************)

\* The UUID of a MIG device names its GPU and its profile: the kubelet's lists agree with
\* the driver about the profile, and an id that comes back is on the GPU where it was.
UuidsIdentify ==
    /\ \A r \in advertised \cup allocated, i \in hw : r.id = i.id => r.profile = i.profile
    /\ \A i \in hw, j \in before : i.id = j.id => i.gpu = j.gpu

\* Instances have different ids and fit their GPUs.
Sound(S) ==
    /\ \A i, j \in S : i.id = j.id => i = j
    /\ \A i \in S : Fits(S, i.gpu)

On(S, g, p) == {i \in S : i.gpu = g /\ i.profile = p}

Working(S) == {i \in S : i.ci}

\* Nothing was created on GPU g, and what is gone was deleted and counted.
Left(g) ==
    /\ \A i \in hw : i.gpu = g => i \in before
    /\ \A i \in before \ hw : i.gpu = g => i.ci
    /\ \A p \in Profiles : Cardinality(On(before \ hw, g, p)) = apply.deleted[<<g, p>>]

\* What the plan has for GPU g was created.
Made(g) ==
    \A p \in Profiles :
        InstalledOn(hw, g)[p] + apply.deleted[<<g, p>>] =
            InstalledOn(before, g)[p] + ToCreate(apply.plan)[<<g, p>>]

\* A device to delete exists.
Exists(d) == \E i \in hw : i.ci /\ i.id = d.id /\ i.gpu = d.gpu /\ i.profile = d.profile

SoundInv == Sound(hw) /\ Sound(before)

\* How far each GPU is, as long as no call has failed by itself.
PhaseInv ==
    /\ aPc = "delete" =>
        /\ \A g \in GPUs : Left(g)
        /\ \A d \in apply.todo : Exists(d)
        /\ \A d, e \in apply.todo : d.id = e.id => d = e
    /\ aPc = "create" => \A g \in GPUs : Left(g) \/ (g \notin apply.gpus /\ Made(g))
    /\ aPc = "rollback" =>
        \A g \in GPUs : IF g \in apply.gpus THEN Left(g) \/ Made(g)
                        ELSE InstalledOn(hw, g) \in Outcomes(g)
    /\ aPc \in {"restart", "taint"} /\ apply.failed =>
        \A g \in GPUs : InstalledOn(hw, g) \in Outcomes(g)

RestoreInv == SoundInv /\ (faults = 0 => PhaseInv)

\* There are finitely many instances, for the same reason as there are finitely many devices.
LEMMA InstanceFinite == IsFiniteSet(Instance)
<1> DEFINE f == [i \in Instance |-> [id |-> i.id, gpu |-> i.gpu, profile |-> i.profile, used |-> i.ci]]
<1>1. f \in [Instance -> Device]
    BY DEF Instance, Device
<1>2. ASSUME NEW i \in Instance, NEW j \in Instance, f[i] = f[j]
      PROVE  i = j
    <2>1. i.id = j.id /\ i.gpu = j.gpu /\ i.profile = j.profile /\ i.ci = j.ci
        <3>1. /\ f[i].id = i.id /\ f[i].gpu = i.gpu /\ f[i].profile = i.profile /\ f[i].used = i.ci
              /\ f[j].id = j.id /\ f[j].gpu = j.gpu /\ f[j].profile = j.profile /\ f[j].used = j.ci
            OBVIOUS
        <3> HIDE DEF f
        <3> QED BY <1>2, <3>1, Zenon
    <2>2. /\ i = [id |-> i.id, gpu |-> i.gpu, profile |-> i.profile, ci |-> i.ci]
          /\ j = [id |-> j.id, gpu |-> j.gpu, profile |-> j.profile, ci |-> j.ci]
        BY DEF Instance
    <2> QED BY <2>1, <2>2, Zenon
<1>3. f \in Injection(Instance, Device)
    <2> HIDE DEF f
    <2> QED BY <1>1, <1>2 DEF Injection, IsInjective
<1> QED BY <1>3, DeviceFinite, FS_Injection

\* The instances of one GPU and profile can be counted.
LEMMA OnFinite ==
    ASSUME NEW S, S \subseteq Instance, NEW g, NEW p
    PROVE  /\ IsFiniteSet(On(S, g, p)) /\ Cardinality(On(S, g, p)) \in Nat
           /\ IsFiniteSet(On(Working(S), g, p)) /\ Cardinality(On(Working(S), g, p)) \in Nat
<1>1. On(S, g, p) \in SUBSET Instance /\ On(Working(S), g, p) \in SUBSET Instance
    BY DEF On, Working
<1>2. IsFiniteSet(On(S, g, p)) /\ IsFiniteSet(On(Working(S), g, p))
    BY <1>1, InstanceFinite, FS_Subset
<1> QED BY <1>2, FS_CardinalityType

\* What the driver counts.
LEMMA HeldIs ==
    ASSUME NEW S, NEW g, NEW p \in Profiles
    PROVE  /\ Held(S, g)[p] = Cardinality(On(S, g, p))
           /\ InstalledOn(S, g)[p] = Cardinality(On(Working(S), g, p))
<1>1. \A R : Held(R, g)[p] = Cardinality(On(R, g, p))
    BY DEF Held, On
<1>2. InstalledOn(S, g) = Held(Working(S), g)
    BY DEF InstalledOn, Working
<1> QED BY <1>1, <1>2


\* A GPU fits what it holds if it fitted more before.
LEMMA FewerFit ==
    ASSUME NEW S, S \subseteq Instance, NEW T, T \subseteq Instance, NEW g, Fits(S, g),
           \A p \in Profiles : Cardinality(On(T, g, p)) <= Cardinality(On(S, g, p))
    PROVE  Fits(T, g)
<1>1. PICK geo \in Geometries : \A p \in Profiles : Held(S, g)[p] <= geo[p]
    BY DEF Fits
<1>2. ASSUME NEW p \in Profiles
      PROVE  Held(T, g)[p] <= geo[p]
    <2>1. geo[p] \in Nat
        BY DomainsAssumption
    <2>2. Cardinality(On(T, g, p)) \in Nat /\ Cardinality(On(S, g, p)) \in Nat
        BY OnFinite
    <2> QED BY <1>1, <2>1, <2>2, HeldIs
<1> QED BY <1>2 DEF Fits

\* Fewer instances are sound.
LEMMA FewerSound ==
    ASSUME NEW S, S \subseteq Instance, Sound(S), NEW T, T \subseteq S
    PROVE  Sound(T)
<1>1. ASSUME NEW i \in T
      PROVE  Fits(T, i.gpu)
    <2>1. ASSUME NEW p \in Profiles
          PROVE  Cardinality(On(T, i.gpu, p)) <= Cardinality(On(S, i.gpu, p))
        <3>1. On(T, i.gpu, p) \in SUBSET On(S, i.gpu, p)
            BY DEF On
        <3> QED BY <3>1, OnFinite, FS_Subset
    <2>2. Fits(S, i.gpu)
        BY DEF Sound
    <2> QED BY <2>1, <2>2, FewerFit
<1> QED BY <1>1 DEF Sound

\* An instance that loses its compute instance still takes its place.
LEMMA ClearedSound ==
    ASSUME NEW S, S \subseteq Instance, Sound(S), NEW i \in S, NEW T, T \subseteq S \ {i}
    PROVE  Sound(T \cup {[i EXCEPT !.ci = FALSE]})
<1> DEFINE c == [i EXCEPT !.ci = FALSE]
           R == T \cup {c}
<1>1. c \in Instance /\ c.id = i.id /\ c.gpu = i.gpu /\ c.profile = i.profile
    BY DEF Instance
<1> HIDE DEF c
<1>2. \A j, k \in R : j.id = k.id => j = k
    BY <1>1 DEF Sound
<1>3. ASSUME NEW j \in R
      PROVE  Fits(R, j.gpu)
    <2>1. Fits(S, j.gpu)
        BY <1>1 DEF Sound
    <2>2. ASSUME NEW p \in Profiles
          PROVE  Cardinality(On(R, j.gpu, p)) <= Cardinality(On(S, j.gpu, p))
        <3>1. IsFiniteSet(On(S, j.gpu, p)) /\ Cardinality(On(S, j.gpu, p)) \in Nat
            BY OnFinite
        <3>2. CASE c \in On(R, j.gpu, p)
            <4>1. i \in On(S, j.gpu, p)
                BY <1>1, <3>2 DEF On
            <4> DEFINE Rest == On(S, j.gpu, p) \ {i}
            <4>2. IsFiniteSet(Rest) /\ Cardinality(Rest) = Cardinality(On(S, j.gpu, p)) - 1
                BY <3>1, <4>1, FS_RemoveElement
            <4>3. On(R, j.gpu, p) \in SUBSET (Rest \cup {c})
                BY DEF On
            <4>4. IsFiniteSet(Rest \cup {c}) /\ Cardinality(Rest \cup {c}) <= Cardinality(Rest) + 1
                <5>1. Cardinality(Rest) \in Nat
                    BY <4>2, FS_CardinalityType
                <5> HIDE DEF Rest
                <5>2. IsFiniteSet(Rest \cup {c})
                      /\ Cardinality(Rest \cup {c}) =
                            IF c \in Rest THEN Cardinality(Rest) ELSE Cardinality(Rest) + 1
                    BY <4>2, FS_AddElement, Zenon
                <5> QED BY <5>1, <5>2
            <4>5. Cardinality(On(R, j.gpu, p)) <= Cardinality(Rest \cup {c})
                BY <4>3, <4>4, FS_Subset
            <4>6. Cardinality(On(R, j.gpu, p)) \in Nat /\ Cardinality(Rest \cup {c}) \in Nat
                BY <4>3, <4>4, FS_Subset, FS_CardinalityType
            <4> HIDE DEF Rest
            <4> QED BY <3>1, <4>2, <4>4, <4>5, <4>6
        <3>3. CASE c \notin On(R, j.gpu, p)
            <4>1. On(R, j.gpu, p) \in SUBSET On(S, j.gpu, p)
                BY <3>3 DEF On
            <4> QED BY <3>1, <4>1, FS_Subset
        <3> QED BY <3>2, <3>3
    <2>3. R \subseteq Instance
        BY <1>1
    <2> HIDE DEF R
    <2> QED BY <2>1, <2>2, <2>3, FewerFit
<1> QED BY <1>2, <1>3 DEF Sound, c

\* The instances of a batch are on one GPU and have new, different ids.
LEMMA BatchIs ==
    ASSUME NEW g \in GPUs, NEW cis \in SUBSET BOOLEAN, NEW S \in Batches(g, cis)
    PROVE  /\ S \subseteq Instance
           /\ \A i \in S : i.gpu = g /\ i.ci \in cis /\ i.id \notin IdsOf(hw)
           /\ \A i, j \in S : i.id = j.id => i = j
<1>1. PICK T \in SUBSET (Ids \ IdsOf(hw)) : \E f \in [T -> Profiles \X cis] :
         S = {[id |-> i, gpu |-> g, profile |-> f[i][1], ci |-> f[i][2]] : i \in T}
    BY DEF Batches
<1>2. PICK f \in [T -> Profiles \X cis] :
         S = {[id |-> i, gpu |-> g, profile |-> f[i][1], ci |-> f[i][2]] : i \in T}
    BY <1>1
<1>3. \A i \in T : f[i][1] \in Profiles /\ f[i][2] \in cis
    OBVIOUS
<1> QED BY <1>2, <1>3 DEF Instance

\* What a call creates, completely or not, keeps the instances sound.
LEMMA CreatedSound ==
    ASSUME hw \subseteq Instance, Sound(hw), NEW g \in GPUs, NEW q,
           NEW S \in Created(g, q) \cup Leftovers(g, q)
    PROVE  Sound(hw \cup S)
<1>1. \E cis \in SUBSET BOOLEAN : S \in Batches(g, cis)
    BY DEF Created, Leftovers
<1>2. /\ S \subseteq Instance
      /\ \A i \in S : i.gpu = g /\ i.id \notin IdsOf(hw)
      /\ \A i, j \in S : i.id = j.id => i = j
    BY <1>1, BatchIs
<1>3. Fits(hw \cup S, g)
    BY DEF Created, Leftovers
<1>4. \A i, j \in hw \cup S : i.id = j.id => i = j
    BY <1>2 DEF Sound, IdsOf
<1>5. ASSUME NEW i \in hw \cup S, i.gpu # g
      PROVE  Fits(hw \cup S, i.gpu)
    <2>1. i \in hw
        BY <1>2, <1>5
    <2>2. \A p : On(hw \cup S, i.gpu, p) = On(hw, i.gpu, p)
        BY <1>2, <1>5 DEF On
    <2>3. \A p \in Profiles : Cardinality(On(hw, i.gpu, p)) \in Nat
        BY OnFinite
    <2>4. \A p \in Profiles : Cardinality(On(hw \cup S, i.gpu, p)) <= Cardinality(On(hw, i.gpu, p))
        BY <2>2, <2>3
    <2>5. Fits(hw, i.gpu) /\ hw \cup S \subseteq Instance
        BY <1>2, <2>1 DEF Sound
    <2> QED BY <2>4, <2>5, FewerFit
<1> QED BY <1>3, <1>4, <1>5 DEF Sound


\* What a complete call adds to each GPU.
LEMMA CreatedAdds ==
    ASSUME hw \subseteq Instance, NEW g \in GPUs, NEW q, NEW S \in Created(g, q)
    PROVE  /\ \A i \in S : i.gpu = g
           /\ \A p \in Profiles : InstalledOn(hw \cup S, g)[p] = InstalledOn(hw, g)[p] + q[<<g, p>>]
<1>1. /\ S \subseteq Instance
      /\ \A i \in S : i.gpu = g /\ i.ci /\ i.id \notin IdsOf(hw)
      /\ \A p \in Profiles : Held(S, g)[p] = q[<<g, p>>]
    <2>1. S \in Batches(g, {TRUE}) /\ {TRUE} \in SUBSET BOOLEAN
        BY DEF Created
    <2>2. S \subseteq Instance /\ \A i \in S : i.gpu = g /\ i.ci \in {TRUE} /\ i.id \notin IdsOf(hw)
        BY <2>1, BatchIs
    <2>3. \A i \in S : i.ci
        BY <2>2
    <2>4. \A p \in Profiles : Held(S, g)[p] = q[<<g, p>>]
        BY DEF Created
    <2> QED BY <2>2, <2>3, <2>4, Zenon
<1>2. ASSUME NEW p \in Profiles
      PROVE  InstalledOn(hw \cup S, g)[p] = InstalledOn(hw, g)[p] + q[<<g, p>>]
    <2> DEFINE A == On(Working(hw), g, p)
               B == On(S, g, p)
    <2>1. On(Working(hw \cup S), g, p) = A \cup B /\ A \cap B = {}
        BY <1>1 DEF On, Working, IdsOf
    <2>2. IsFiniteSet(A) /\ IsFiniteSet(B) /\ Cardinality(A) \in Nat /\ Cardinality(B) \in Nat
        BY <1>1, OnFinite
    <2>3. Cardinality(B) = q[<<g, p>>]
        BY <1>1, HeldIs
    <2>4. Cardinality(A \cup B) = Cardinality(A) + Cardinality(B) - Cardinality(A \cap B)
        <3> HIDE DEF A, B
        <3> QED BY <2>2, FS_Union
    <2>5. Cardinality(A \cap B) = 0
        <3> HIDE DEF A, B
        <3> QED BY <2>1, FS_EmptySet
    <2>6. Cardinality(A \cup B) = Cardinality(A) + Cardinality(B)
        <3> HIDE DEF A, B
        <3> QED BY <2>2, <2>4, <2>5
    <2>7. /\ InstalledOn(hw, g)[p] = Cardinality(A)
          /\ InstalledOn(hw \cup S, g)[p] = Cardinality(A \cup B)
        <3>1. /\ InstalledOn(hw, g)[p] = Cardinality(A)
              /\ InstalledOn(hw \cup S, g)[p] = Cardinality(On(Working(hw \cup S), g, p))
            BY HeldIs
        <3> HIDE DEF A, B
        <3> QED BY <3>1, <2>1
    <2> QED BY <2>3, <2>6, <2>7
<1> QED BY <1>1, <1>2

\* On a GPU on which nothing was created, the devices that remain and those that were
\* deleted are those that apply found.
LEMMA LeftCounts ==
    ASSUME hw \subseteq Instance, before \subseteq Instance, NEW g \in GPUs, Left(g),
           NEW p \in Profiles
    PROVE  InstalledOn(before, g)[p] = InstalledOn(hw, g)[p] + apply.deleted[<<g, p>>]
<1> DEFINE A == On(Working(hw), g, p)
           B == On(before \ hw, g, p)
<1>1. On(Working(before), g, p) = A \cup B /\ A \cap B = {}
    BY DEF On, Working, Left
<1>2. IsFiniteSet(A) /\ IsFiniteSet(B) /\ Cardinality(A) \in Nat /\ Cardinality(B) \in Nat
    BY OnFinite
<1>3. Cardinality(A \cup B) = Cardinality(A) + Cardinality(B) - Cardinality(A \cap B)
    <2> HIDE DEF A, B
    <2> QED BY <1>2, FS_Union
<1>4. Cardinality(A \cap B) = 0
    <2> HIDE DEF A, B
    <2> QED BY <1>1, FS_EmptySet
<1>5. Cardinality(A \cup B) = Cardinality(A) + Cardinality(B)
    <2> HIDE DEF A, B
    <2> QED BY <1>2, <1>3, <1>4
<1>6. /\ InstalledOn(hw, g)[p] = Cardinality(A)
      /\ InstalledOn(before, g)[p] = Cardinality(A \cup B)
    <2>1. /\ InstalledOn(hw, g)[p] = Cardinality(A)
          /\ InstalledOn(before, g)[p] = Cardinality(On(Working(before), g, p))
        BY HeldIs
    <2> HIDE DEF A, B
    <2> QED BY <2>1, <1>1
<1> QED BY <1>5, <1>6 DEF Left

\* What was deleted on such a GPU can be created again: the devices that are gone are
\* themselves such a creation.
LEMMA LeftCanReturn ==
    ASSUME hw \subseteq Instance, before \subseteq Instance, Sound(before), UuidsIdentify,
           NEW g \in GPUs, Left(g), \E p \in Profiles : apply.deleted[<<g, p>>] # 0
    PROVE  Created(g, apply.deleted) # {}
<1> DEFINE S == {i \in before \ hw : i.gpu = g}
           T == IdsOf(S)
           f == [n \in T |-> <<(CHOOSE i \in S : i.id = n).profile, TRUE>>]
<1>0. S \subseteq Instance /\ \A i \in S : i.ci /\ i.gpu = g
    BY DEF Left
<1>1. \A i \in S : (CHOOSE j \in S : j.id = i.id) = i
    <2>1. \A i, j \in S : j.id = i.id => j = i
        BY DEF Sound
    <2> HIDE DEF S
    <2> QED BY <2>1
<1>2. T \in SUBSET (Ids \ IdsOf(hw))
    <2>1. T \subseteq Ids
        BY <1>0 DEF IdsOf, Instance
    <2>2. ASSUME NEW i \in S, NEW j \in hw, i.id = j.id
          PROVE  FALSE
        <3>1. j.gpu = g
            BY <2>2 DEF UuidsIdentify
        <3>2. j \in before
            BY <3>1 DEF Left
        <3> QED BY <2>2, <3>2 DEF Sound
    <2> QED BY <2>1, <2>2 DEF IdsOf
<1>3. S \in Batches(g, {TRUE})
    <2>1. f \in [T -> Profiles \X {TRUE}]
        <3>1. \A n \in T : (CHOOSE i \in S : i.id = n).profile \in Profiles
            BY <1>0, <1>1 DEF IdsOf, Instance
        <3> HIDE DEF T, S
        <3> QED BY <3>1
    <2>2. S = {[id |-> n, gpu |-> g, profile |-> f[n][1], ci |-> f[n][2]] : n \in T}
        <3>1. ASSUME NEW i \in S
              PROVE  i = [id |-> i.id, gpu |-> g, profile |-> f[i.id][1], ci |-> f[i.id][2]]
            <4>1. i.id \in T
                BY DEF IdsOf
            <4>2. f[i.id][1] = i.profile /\ f[i.id][2] = TRUE
                <5> HIDE DEF S, T
                <5> QED BY <1>1, <4>1
            <4>3. i = [id |-> i.id, gpu |-> i.gpu, profile |-> i.profile, ci |-> i.ci] /\ i.ci = TRUE
                BY <1>0 DEF Instance
            <4> HIDE DEF f, S, T
            <4> QED BY <1>0, <4>2, <4>3
        <3> DEFINE R(n) == [id |-> n, gpu |-> g, profile |-> f[n][1], ci |-> f[n][2]]
        <3>2. \A i \in S : i = R(i.id)
            BY <3>1
        <3>3. \A n \in T : \E i \in S : n = i.id
            BY DEF IdsOf
        <3>4. \A i \in S : i.id \in T
            BY DEF IdsOf
        <3> HIDE DEF R, S, T
        <3>5. S = {R(n) : n \in T}
            BY <3>2, <3>3, <3>4
        <3> QED BY <3>5 DEF R
    <2> DEFINE Batch(U, h) == {[id |-> n, gpu |-> g, profile |-> h[n][1], ci |-> h[n][2]] : n \in U}
               Of(U) == {Batch(U, h) : h \in [U -> Profiles \X {TRUE}]}
    <2>3. S = Batch(T, f)
        BY <2>2
    <2>4. Batches(g, {TRUE}) = UNION {Of(U) : U \in SUBSET (Ids \ IdsOf(hw))}
        BY DEF Batches
    <2> HIDE DEF S, T, f, Batch
    <2>5. S \in Of(T)
        BY <2>1, <2>3
    <2> HIDE DEF Of
    <2> QED BY <1>2, <2>4, <2>5
<1>4. Fits(hw \cup S, g)
    <2>1. PICK p \in Profiles : apply.deleted[<<g, p>>] # 0
        OBVIOUS
    <2>2. On(before \ hw, g, p) # {}
        BY <2>1, FS_EmptySet DEF Left
    <2>3. Fits(before, g)
        BY <2>2 DEF On, Sound
    <2>4. ASSUME NEW r \in Profiles
          PROVE  Cardinality(On(hw \cup S, g, r)) <= Cardinality(On(before, g, r))
        <3>1. On(hw \cup S, g, r) \in SUBSET On(before, g, r)
            BY DEF On, Left
        <3> QED BY <3>1, OnFinite, FS_Subset
    <2>5. hw \cup S \subseteq Instance
        BY <1>0
    <2> HIDE DEF S
    <2> QED BY <2>3, <2>4, <2>5, FewerFit
<1>5. ASSUME NEW p \in Profiles
      PROVE  Held(S, g)[p] = apply.deleted[<<g, p>>]
    <2>1. On(S, g, p) = On(before \ hw, g, p)
        BY DEF On
    <2> HIDE DEF S
    <2> QED BY <2>1, HeldIs DEF Left
<1> HIDE DEF S
<1>6. S \in Created(g, apply.deleted)
    BY <1>3, <1>4, <1>5 DEF Created
<1> QED BY <1>6


\* No step gives two instances one id or a GPU more than it can hold: what the cleanup
\* and apply delete leaves room, and what NVML creates has new ids and fits.
LEMMA SoundInvStep == TypeOK /\ SoundInv /\ [Next]_vars => SoundInv'
<1> SUFFICES ASSUME TypeOK, SoundInv, [Next]_vars
             PROVE  SoundInv'
    OBVIOUS
<1>0. hw \subseteq Instance /\ before \subseteq Instance /\ Sound(hw) /\ Sound(before)
    BY DEF TypeOK, SoundInv
<1>1. Sound({})
    BY DEF Sound
<1>2. ASSUME hw' \subseteq hw
      PROVE  Sound(hw')
    BY <1>0, <1>2, FewerSound
<1>3. ASSUME NEW i \in hw, NEW T, T \subseteq hw \ {i}, hw' = T \cup {[i EXCEPT !.ci = FALSE]}
      PROVE  Sound(hw')
    BY <1>0, <1>3, ClearedSound
<1>4. ASSUME NEW g \in GPUs, NEW q, NEW S \in Created(g, q) \cup Leftovers(g, q), hw' = hw \cup S
      PROVE  Sound(hw')
    BY <1>0, <1>4, CreatedSound
<1>5. ASSUME Sound(hw'), before' \in {before, hw, {}}
      PROVE  SoundInv'
    <2>1. Sound(before')
        BY <1>0, <1>1, <1>5
    <2> QED BY <1>5, <2>1 DEF SoundInv, Sound, Fits, Held
<1>6. CASE DeleteAllExceptFails
    <2>1. PICK i \in hw, D \in SUBSET hw :
             /\ i \notin D
             /\ \/ hw' = hw \ D
                \/ hw' = (hw \ (D \cup {i})) \cup {[i EXCEPT !.ci = FALSE]}
        BY <1>6 DEF DeleteAllExceptFails
    <2>2. hw \ D \subseteq hw /\ hw \ (D \cup {i}) \subseteq hw \ {i}
        OBVIOUS
    <2>3. Sound(hw')
        BY <1>2, <1>3, <2>1, <2>2
    <2> QED BY <1>5, <1>6, <2>3 DEF DeleteAllExceptFails, history
<1>7. CASE ReadUsed \/ DeleteAllExcept \/ Gate \/ Reconcile
    <2>1. hw' \subseteq hw /\ before' \in {before, hw}
        BY <1>7 DEF ReadUsed, DeleteAllExcept, Gate, Reconcile, ReconcileFails, ReconcileMatched,
                    ReconcileSkipped, ReconcileApplies, EndReconcile, hostVars, history
    <2> QED BY <1>2, <1>5, <2>1
<1>8. CASE ApplyStep
    <2>1. ASSUME NEW d \in apply.todo, DeleteMigDevice(d) \/ DeleteMigDeviceFails(d)
          PROVE  SoundInv'
        <3>1. \/ hw' \subseteq hw
              \/ \E i \in hw : hw' = (hw \ {i}) \cup {[i EXCEPT !.ci = FALSE]}
            BY <2>1 DEF DeleteMigDevice, DeleteMigDeviceFails
        <3>2. Sound(hw')
            BY <1>2, <1>3, <3>1
        <3>3. before' = before
            BY <2>1 DEF DeleteMigDevice, DeleteMigDeviceFails, DeleteReturned, history
        <3> QED BY <1>5, <3>2, <3>3
    <2>2. ASSUME NEW g \in apply.gpus, CreateOn(g) \/ RollbackOn(g)
          PROVE  SoundInv'
        <3>1. g \in GPUs /\ before' = before
            BY <2>2 DEF CreateOn, RollbackOn, history, TypeOK, Apply
        <3>2. \/ hw' = hw
              \/ \E q : \E S \in Created(g, q) \cup Leftovers(g, q) : hw' = hw \cup S
            BY <2>2 DEF CreateOn, RollbackOn
        <3>3. Sound(hw')
            BY <1>0, <1>4, <3>1, <3>2
        <3> QED BY <1>5, <3>1, <3>3
    <2>3. CASE \/ resetNodeSpec \/ resetNodeSpecFails \/ CreateDone \/ RestartPlugin
               \/ RestartPluginFails \/ clearRepartitioningTaint
        <3>1. hw' = hw /\ before' \in {before, {}}
            BY <2>3 DEF resetNodeSpec, resetNodeSpecFails, CreateDone, RestartPlugin,
                        RestartPluginFails, clearRepartitioningTaint, FinishApply, hostVars, history
        <3> QED BY <1>0, <1>5, <3>1
    <2> QED BY <1>8, <2>1, <2>2, <2>3 DEF ApplyStep
<1>9. CASE Report \/ Environment \/ UNCHANGED vars
    <2>1. hw' = hw /\ before' \in {before, {}}
        BY <1>9 DEF Report, ReportFails, ReportUnchanged, ReportBegins, ReportPatch, Environment,
                    ApplyPartitioning, CacheSync, Allocate, Release, PluginUp, Crash, vars,
                    hostVars, history
    <2> QED BY <1>0, <1>5, <2>1
<1> QED BY <1>6, <1>7, <1>8, <1>9 DEF Next, Boot

\* The ways in which a GPU ends well.
LEMMA OutcomeIs ==
    ASSUME TypeOK, NEW g \in GPUs, NEW S, S \subseteq Instance,
           \/ \A p \in Profiles : InstalledOn(S, g)[p] = InstalledOn(before, g)[p]
           \/ \A p \in Profiles :
                 InstalledOn(S, g)[p] = InstalledOn(before, g)[p] + ToCreate(apply.plan)[<<g, p>>]
           \/ \A p \in Profiles :
                 InstalledOn(S, g)[p] + apply.deleted[<<g, p>>] =
                    InstalledOn(before, g)[p] + ToCreate(apply.plan)[<<g, p>>]
    PROVE  InstalledOn(S, g) \in Outcomes(g)
<1> DEFINE old  == InstalledOn(before, g)
           made == [p \in Profiles |-> old[p] + ToCreate(apply.plan)[<<g, p>>]]
           both == [p \in Profiles |-> made[p] - apply.deleted[<<g, p>>]]
           now  == InstalledOn(S, g)
<1>1. /\ now = [p \in Profiles |-> now[p]]
      /\ old = [p \in Profiles |-> old[p]]
    BY DEF InstalledOn, Held
<1>2. \A p \in Profiles : now[p] \in Nat /\ old[p] \in Nat
    <2>1. before \subseteq Instance
        BY DEF TypeOK
    <2> QED BY <2>1, OnFinite, HeldIs
<1>3. \A p \in Profiles : ToCreate(apply.plan)[<<g, p>>] \in Nat /\ apply.deleted[<<g, p>>] \in Nat
    <2>1. apply.plan \in Plan /\ apply.deleted \in Quantities
        BY DEF TypeOK, Apply
    <2>2. \A p \in Profiles : <<g, p>> \in Keys
        BY DEF Keys
    <2> QED BY <2>1, <2>2 DEF Plan, Quantities, ToCreate
<1> SUFFICES now \in {old, made, both}
    BY DEF Outcomes
<1> HIDE DEF old, now
<1>4. CASE \A p \in Profiles : now[p] = old[p]
    BY <1>1, <1>4
<1>5. CASE \A p \in Profiles : now[p] = made[p]
    BY <1>1, <1>5
<1>6. CASE \A p \in Profiles : now[p] + apply.deleted[<<g, p>>] = made[p]
    <2>1. \A p \in Profiles : made[p] \in Nat
        BY <1>2, <1>3
    <2>2. \A p \in Profiles : now[p] = both[p]
        <3> HIDE DEF made
        <3> QED BY <1>2, <1>3, <1>6, <2>1
    <2> HIDE DEF both, made
    <2>3. both = [p \in Profiles |-> both[p]]
        BY DEF both
    <2> QED BY <1>1, <2>2, <2>3
<1> QED BY <1>4, <1>5, <1>6 DEF old, now


\* A step that does not touch a GPU, nor what apply knows of it, leaves it where it was.
LEMMA Untouched ==
    ASSUME NEW h \in GPUs, before' = before, apply'.plan = apply.plan,
           \A p \in Profiles : apply'.deleted[<<h, p>>] = apply.deleted[<<h, p>>],
           \A i : i.gpu = h => (i \in hw' <=> i \in hw)
    PROVE  /\ Left(h) => Left(h)'
           /\ Made(h) => Made(h)'
           /\ InstalledOn(hw, h) \in Outcomes(h) => (InstalledOn(hw, h) \in Outcomes(h))'
<1>1. \A p : {i \in before' \ hw' : i.gpu = h /\ i.profile = p} = {i \in before \ hw : i.gpu = h /\ i.profile = p}
    OBVIOUS
<1>2. \A p : {i \in {j \in hw' : j.ci} : i.gpu = h /\ i.profile = p} = {i \in {j \in hw : j.ci} : i.gpu = h /\ i.profile = p}
    OBVIOUS
<1>3. InstalledOn(hw, h)' = InstalledOn(hw, h) /\ InstalledOn(before, h)' = InstalledOn(before, h)
    BY <1>2 DEF InstalledOn, Held
<1>4. ToCreate(apply.plan)' = ToCreate(apply.plan)
    BY DEF ToCreate
<1>5. Outcomes(h)' = Outcomes(h)
    BY <1>3, <1>4 DEF Outcomes
<1>6. Left(h) => Left(h)'
    BY <1>1 DEF Left, On
<1>7. Made(h) => Made(h)'
    BY <1>3, <1>4 DEF Made
<1> QED BY <1>3, <1>5, <1>6, <1>7


\* apply begins: nothing is changed yet, and the devices to delete exist, each of them once.
LEMMA BeginsPhase ==
    ASSUME TypeOK, UuidsIdentify, SoundInv, ReconcileApplies
    PROVE  PhaseInv'
<1> DEFINE plan == PlanFor(cache.spec)
<1>1. /\ aPc' \in {"reset", "create", "delete"} /\ hw' = hw /\ before' = hw
      /\ apply'.deleted = NoProfiles
      /\ apply'.todo = {d \in ToDelete(plan) : ~d.used}
    BY DEF ReconcileApplies, NoApply, hostVars
<1>2. ASSUME NEW g \in GPUs
      PROVE  Left(g)'
    <2>1. \A p \in Profiles : {i \in before' \ hw' : i.gpu = g /\ i.profile = p} = {}
        BY <1>1
    <2>2. \A p \in Profiles : apply'.deleted[<<g, p>>] = 0
        BY <1>1 DEF NoProfiles, Keys
    <2> QED BY <1>1, <2>1, <2>2, FS_EmptySet DEF Left, On
<1>3. ASSUME NEW d \in apply'.todo
      PROVE  d \in Device /\ Exists(d) /\ ~d.used
    <2>1. d \in GetMigDevices /\ ~d.used
        <3>1. CASE plan = EmptyPlan
            BY <1>1, <1>3, <3>1 DEF EmptyPlan, ToDelete
        <3>2. CASE plan = NewMigConfigPlan(GetMigDevices, cache.spec)
            BY <1>1, <1>3, <3>2, PlanDeletesListed
        <3> QED BY <3>1, <3>2 DEF PlanFor
    <2>2. PICK r \in advertised, i \in hw :
             /\ i.ci /\ i.id = r.id
             /\ d = [id |-> r.id, gpu |-> i.gpu, profile |-> r.profile, used |-> FALSE]
        BY <2>1 DEF GetMigDevices, extractMigDevices
    <2>3. r.profile = i.profile
        BY <2>2 DEF UuidsIdentify
    <2> QED BY <2>1, <2>2, <2>3, ListedType DEF Exists
<1>4. ASSUME NEW d \in apply'.todo, NEW e \in apply'.todo, d.id = e.id
      PROVE  d = e
    <2>1. d.gpu = e.gpu /\ d.profile = e.profile
        BY <1>3, <1>4 DEF Exists, SoundInv, Sound
    <2>2. d.used = FALSE /\ e.used = FALSE
        BY <1>3 DEF Device
    <2>3. /\ d = [id |-> d.id, gpu |-> d.gpu, profile |-> d.profile, used |-> d.used]
          /\ e = [id |-> e.id, gpu |-> e.gpu, profile |-> e.profile, used |-> e.used]
        BY <1>3 DEF Device
    <2> QED BY <1>4, <2>1, <2>2, <2>3, Zenon
<1>5. \A d \in apply'.todo : Exists(d)'
    BY <1>1, <1>3 DEF Exists
<1> QED BY <1>1, <1>2, <1>4, <1>5 DEF PhaseInv

\* A deletion removes one instance, counts it, and leaves the other devices to delete.
LEMMA DeletePhase ==
    ASSUME TypeOK, SoundInv, PhaseInv, NEW d \in apply.todo, DeleteMigDevice(d)
    PROVE  PhaseInv'
<1>1. PICK i \in hw : i.ci /\ i.id = d.id /\ hw' = hw \ {i}
    BY DEF DeleteMigDevice
<1>2. i.gpu = d.gpu /\ i.profile = d.profile /\ Key(d) = <<i.gpu, i.profile>>
    <2>1. Exists(d)
        BY DEF PhaseInv, DeleteMigDevice
    <2> QED BY <1>1, <2>1 DEF Exists, SoundInv, Sound, Key
<1>3. apply \in Apply /\ i \in Instance /\ hw \subseteq Instance /\ before \subseteq Instance
    BY DEF TypeOK
<1>4. /\ apply'.deleted = [apply.deleted EXCEPT ![Key(d)] = @ + 1]
      /\ apply'.todo = apply.todo \ {d} /\ apply'.plan = apply.plan
      /\ aPc' \in {"create", "delete"} /\ before' = before
    BY <1>3 DEF DeleteMigDevice, DeleteReturned, Apply, history
<1>5. ASSUME NEW g \in GPUs
      PROVE  Left(g)'
    <2>0. Left(g) /\ apply.deleted \in [Keys -> Nat]
        BY <1>3 DEF PhaseInv, DeleteMigDevice, Apply, Quantities
    <2>1. CASE g # i.gpu
        <3>1. \A p \in Profiles : apply'.deleted[<<g, p>>] = apply.deleted[<<g, p>>]
            BY <1>2, <1>4, <2>0, <2>1 DEF Keys
        <3>2. \A j : j.gpu = g => (j \in hw' <=> j \in hw)
            BY <1>1, <2>1
        <3> QED BY <1>4, <2>0, <3>1, <3>2, Untouched
    <2>2. CASE g = i.gpu
        <3>1. i \in before
            BY <2>0, <2>2 DEF Left
        <3>2. ASSUME NEW p \in Profiles
              PROVE  Cardinality(On(before' \ hw', g, p)) = apply'.deleted[<<g, p>>]
            <4> DEFINE G == On(before \ hw, g, p)
            <4>1. IsFiniteSet(G) /\ Cardinality(G) = apply.deleted[<<g, p>>] /\ Cardinality(G) \in Nat
                BY <1>3, <2>0, OnFinite DEF Left
            <4>2. CASE p = i.profile
                <5>1. On(before' \ hw', g, p) = G \cup {i} /\ i \notin G
                    BY <1>1, <1>4, <2>2, <3>1, <4>2 DEF On
                <5>2. apply'.deleted[<<g, p>>] = apply.deleted[<<g, p>>] + 1
                    BY <1>2, <1>4, <2>0, <2>2, <4>2 DEF Keys
                <5> HIDE DEF G
                <5>3. Cardinality(G \cup {i}) = Cardinality(G) + 1
                    BY <4>1, <5>1, FS_AddElement
                <5> QED BY <4>1, <5>1, <5>2, <5>3
            <4>3. CASE p # i.profile
                <5>1. On(before' \ hw', g, p) = G
                    BY <1>1, <1>4, <4>3 DEF On
                <5>2. apply'.deleted[<<g, p>>] = apply.deleted[<<g, p>>]
                    BY <1>2, <1>4, <2>0, <4>3 DEF Keys
                <5> HIDE DEF G
                <5> QED BY <4>1, <5>1, <5>2
            <4> QED BY <4>2, <4>3
        <3>3. \A p \in Profiles : Cardinality(On(before \ hw, g, p))' = apply'.deleted[<<g, p>>]
            BY <3>2 DEF On
        <3> QED BY <1>1, <1>4, <2>0, <3>3 DEF Left
    <2> QED BY <2>1, <2>2
<1>6. \A e \in apply'.todo : Exists(e)'
    <2>1. \A e \in apply'.todo : Exists(e) /\ e.id # i.id
        BY <1>1, <1>4 DEF PhaseInv, DeleteMigDevice
    <2> QED BY <1>1, <2>1 DEF Exists
<1>7. \A e, f \in apply'.todo : e.id = f.id => e = f
    BY <1>4 DEF PhaseInv, DeleteMigDevice
<1> QED BY <1>4, <1>5, <1>6, <1>7 DEF PhaseInv


\* A device that a Pod holds by now is left alone.
LEMMA RefusePhase ==
    ASSUME TypeOK, PhaseInv, NEW d \in apply.todo, DeleteMigDeviceFails(d), faults' = faults
    PROVE  PhaseInv'
<1>1. apply \in Apply /\ faults \in Nat
    BY BoundsAssumption DEF TypeOK
<1>2. /\ hw' = hw /\ before' = before /\ aPc' \in {"create", "delete"}
      /\ apply'.deleted = apply.deleted /\ apply'.plan = apply.plan
      /\ apply'.todo = apply.todo \ {d}
    <2>1. DeleteReturned(d, [apply EXCEPT !.err = TRUE]) /\ UNCHANGED hw
        <3>1. ~Fault
            BY <1>1 DEF Fault
        <3> QED BY <3>1, Zenon DEF DeleteMigDeviceFails
    <2> QED BY <1>1, <2>1 DEF DeleteReturned, Apply, history
<1>3. \A g \in GPUs : Left(g)'
    BY <1>2, Untouched DEF PhaseInv, DeleteMigDeviceFails
<1>4. \A e \in apply'.todo : Exists(e)'
    BY <1>2 DEF PhaseInv, DeleteMigDeviceFails, Exists
<1>5. \A e, f \in apply'.todo : e.id = f.id => e = f
    BY <1>2 DEF PhaseInv, DeleteMigDeviceFails
<1> QED BY <1>2, <1>3, <1>4, <1>5 DEF PhaseInv

\* The plan's devices are created on a GPU, all or none; the other GPUs are not touched.
LEMMA CreatePhase ==
    ASSUME TypeOK, PhaseInv, NEW g \in apply.gpus, CreateOn(g), faults' = faults
    PROVE  PhaseInv'
<1>1. /\ apply \in Apply /\ faults \in Nat /\ g \in GPUs
      /\ hw \subseteq Instance /\ before \subseteq Instance
    BY BoundsAssumption DEF TypeOK, Apply
<1>2. /\ before' = before /\ aPc = "create" /\ aPc' = "create"
      /\ apply'.deleted = apply.deleted /\ apply'.plan = apply.plan
      /\ apply'.gpus = apply.gpus \ {g}
    BY <1>1 DEF CreateOn, Apply, history
<1>3. Left(g)
    BY <1>1, <1>2 DEF PhaseInv
<1>4. CASE hw' = hw
    BY <1>2, <1>4, Untouched DEF PhaseInv
<1>5. ASSUME NEW S \in Created(g, ToCreate(apply.plan)), hw' = hw \cup S
      PROVE  PhaseInv'
    <2>1. /\ \A i \in S : i.gpu = g
          /\ \A p \in Profiles : InstalledOn(hw', g)[p] =
                                    InstalledOn(hw, g)[p] + ToCreate(apply.plan)[<<g, p>>]
        <3> DEFINE q == ToCreate(apply.plan)
        <3>1. S \in Created(g, q)
            BY <1>5
        <3> HIDE DEF q
        <3>2. hw \subseteq Instance /\ g \in GPUs
            BY <1>1
        <3>3. \A i \in S : i.gpu = g
            BY <3>1, <3>2, CreatedAdds
        <3>4. \A p \in Profiles : InstalledOn(hw \cup S, g)[p] = InstalledOn(hw, g)[p] + q[<<g, p>>]
            BY <3>1, <3>2, CreatedAdds
        <3> QED BY <1>5, <3>3, <3>4 DEF q
    <2>2. Made(g)'
        <3>1. ASSUME NEW p \in Profiles
              PROVE  InstalledOn(hw', g)[p] + apply.deleted[<<g, p>>] =
                        InstalledOn(before, g)[p] + ToCreate(apply.plan)[<<g, p>>]
            <4>1. InstalledOn(before, g)[p] = InstalledOn(hw, g)[p] + apply.deleted[<<g, p>>]
                BY <1>1, <1>3, LeftCounts
            <4>2. InstalledOn(hw, g)[p] \in Nat
                BY <1>1, OnFinite, HeldIs
            <4>3. apply.deleted[<<g, p>>] \in Nat /\ ToCreate(apply.plan)[<<g, p>>] \in Nat
                BY <1>1 DEF Apply, Plan, Quantities, Keys, ToCreate
            <4> QED BY <2>1, <4>1, <4>2, <4>3
        <3>2. InstalledOn(hw', g) = InstalledOn(hw, g)' /\ InstalledOn(before, g)' = InstalledOn(before, g)
            BY <1>2 DEF InstalledOn, Held
        <3>3. ToCreate(apply.plan)' = ToCreate(apply.plan)
            BY <1>2 DEF ToCreate
        <3> QED BY <1>2, <3>1, <3>2, <3>3 DEF Made
    <2>3. ASSUME NEW h \in GPUs, h # g
          PROVE  (Left(h) => Left(h)') /\ (Made(h) => Made(h)')
        <3>1. \A i : i.gpu = h => (i \in hw' <=> i \in hw)
            BY <1>5, <2>1, <2>3
        <3> QED BY <1>2, <3>1, Untouched
    <2> QED BY <1>2, <2>2, <2>3 DEF PhaseInv
<1> QED BY <1>1, <1>4, <1>5 DEF CreateOn, Fault

\* When the creation has failed, GPUs from which nothing was deleted are done.
LEMMA CreatedPhase ==
    ASSUME TypeOK, PhaseInv, CreateDone
    PROVE  PhaseInv'
<1>1. /\ apply \in Apply /\ hw \subseteq Instance /\ before \subseteq Instance
    BY DEF TypeOK
<1>2. /\ hw' = hw /\ before' = before /\ apply.gpus = {} /\ aPc = "create"
      /\ aPc' = IF apply.failed /\ GpusOf(apply.deleted) # {} THEN "rollback" ELSE "restart"
      /\ apply'.deleted = apply.deleted /\ apply'.plan = apply.plan
      /\ apply'.failed = apply.failed
      /\ apply'.gpus = IF apply.failed THEN GpusOf(apply.deleted) ELSE {}
    BY <1>1 DEF CreateDone, Apply, hostVars, history
<1>3. ASSUME NEW g \in GPUs
      PROVE  /\ Left(g)' \/ Made(g)'
             /\ g \notin GpusOf(apply.deleted) => (InstalledOn(hw, g) \in Outcomes(g))'
    <2>1. Left(g) \/ Made(g)
        BY <1>2 DEF PhaseInv
    <2>2. ASSUME g \notin GpusOf(apply.deleted)
          PROVE  InstalledOn(hw, g) \in Outcomes(g)
        <3>1. \A p \in Profiles : apply.deleted[<<g, p>>] = 0
            <4>1. \A p \in Profiles : apply.deleted[<<g, p>>] \in Nat
                BY <1>1 DEF Apply, Quantities, Keys
            <4> QED BY <2>2, <4>1 DEF GpusOf
        <3>2. \A p \in Profiles : InstalledOn(hw, g)[p] \in Nat
            BY <1>1, OnFinite, HeldIs
        <3>3. CASE Left(g)
            <4>1. ASSUME NEW p \in Profiles
                  PROVE  InstalledOn(hw, g)[p] = InstalledOn(before, g)[p]
                <5>1. InstalledOn(before, g)[p] = InstalledOn(hw, g)[p] + apply.deleted[<<g, p>>]
                    BY <1>1, <3>3, LeftCounts
                <5> QED BY <3>1, <3>2, <5>1
            <4> QED BY <1>1, <4>1, OutcomeIs
        <3>4. CASE Made(g)
            BY <1>1, <3>4, OutcomeIs DEF Made
        <3> QED BY <2>1, <3>3, <3>4
    <2> QED BY <1>2, <2>1, <2>2, Untouched
<1> QED BY <1>2, <1>3 DEF PhaseInv


\* The rollback brings a GPU back: what was deleted from it can be created again if
\* nothing else was created on it, and may be if the plan's devices were.
LEMMA RollbackPhase ==
    ASSUME TypeOK, UuidsIdentify, SoundInv, PhaseInv, NEW g \in apply.gpus, RollbackOn(g),
           faults' = faults
    PROVE  PhaseInv'
<1>1. /\ apply \in Apply /\ faults \in Nat /\ g \in GPUs
      /\ hw \subseteq Instance /\ before \subseteq Instance
    BY BoundsAssumption DEF TypeOK, Apply
<1>2. /\ before' = before /\ aPc = "rollback"
      /\ aPc' = IF apply.gpus = {g} THEN "restart" ELSE "rollback"
      /\ apply'.deleted = apply.deleted /\ apply'.plan = apply.plan
      /\ apply'.gpus = apply.gpus \ {g}
    BY <1>1 DEF RollbackOn, Apply, history
<1>3. Left(g) \/ Made(g)
    BY <1>1, <1>2 DEF PhaseInv
<1>4. \A p \in Profiles : /\ InstalledOn(hw, g)[p] \in Nat
                          /\ InstalledOn(before, g)[p] \in Nat
                          /\ apply.deleted[<<g, p>>] \in Nat
    <2>1. \A p \in Profiles : apply.deleted[<<g, p>>] \in Nat
        BY <1>1 DEF Apply, Quantities, Keys
    <2> QED BY <1>1, <2>1, OnFinite, HeldIs
<1>5. InstalledOn(hw', g) \in Outcomes(g) /\ hw \subseteq hw' /\ \A i \in hw' \ hw : i.gpu = g
    <2>1. CASE hw' = hw /\ Created(g, apply.deleted) = {}
        <3>1. CASE Left(g)
            <4>1. \A p \in Profiles : apply.deleted[<<g, p>>] = 0
                BY <1>1, <2>1, <3>1, LeftCanReturn DEF SoundInv
            <4>2. ASSUME NEW p \in Profiles
                  PROVE  InstalledOn(hw, g)[p] = InstalledOn(before, g)[p]
                <5>1. InstalledOn(before, g)[p] = InstalledOn(hw, g)[p] + apply.deleted[<<g, p>>]
                    BY <1>1, <3>1, LeftCounts
                <5> QED BY <1>4, <4>1, <5>1
            <4> QED BY <1>1, <2>1, <4>2, OutcomeIs
        <3>2. CASE Made(g)
            BY <1>1, <2>1, <3>2, OutcomeIs DEF Made
        <3> QED BY <1>3, <3>1, <3>2
    <2>2. ASSUME NEW S \in Created(g, apply.deleted), hw' = hw \cup S
          PROVE  InstalledOn(hw', g) \in Outcomes(g) /\ \A i \in S : i.gpu = g
        <3> DEFINE q == apply.deleted
        <3>1. S \in Created(g, q) /\ hw \subseteq Instance
            BY <1>1
        <3> HIDE DEF q
        <3>2. \A i \in S : i.gpu = g
            BY ZenonT(60), <1>1, <3>1, CreatedAdds
        <3>3. \A p \in Profiles : InstalledOn(hw \cup S, g)[p] = InstalledOn(hw, g)[p] + q[<<g, p>>]
            BY <1>1, <3>1, CreatedAdds
        <3>4. hw \cup S \subseteq Instance
            <4>1. S \in Created(g, q) \cup Leftovers(g, q)
                BY <3>1
            <4> QED BY <1>1, <4>1, CreatedType
        <3>5. CASE Left(g)
            <4>1. ASSUME NEW p \in Profiles
                  PROVE  InstalledOn(hw \cup S, g)[p] = InstalledOn(before, g)[p]
                <5>1. InstalledOn(before, g)[p] = InstalledOn(hw, g)[p] + apply.deleted[<<g, p>>]
                    BY <1>1, <3>5, LeftCounts
                <5> QED BY <3>3, <5>1 DEF q
            <4> QED BY <1>1, <2>2, <3>2, <3>4, <4>1, OutcomeIs
        <3>6. CASE Made(g)
            <4>1. \A p \in Profiles : InstalledOn(hw \cup S, g)[p] =
                                         InstalledOn(before, g)[p] + ToCreate(apply.plan)[<<g, p>>]
                BY <3>3, <3>6 DEF q, Made
            <4> QED BY <1>1, <2>2, <3>2, <3>4, <4>1, OutcomeIs
        <3> QED BY <1>3, <3>5, <3>6
    <2>3. ~Fault
        BY <1>1 DEF Fault
    <2>4. \/ hw' = hw /\ Created(g, apply.deleted) = {}
          \/ \E S \in Created(g, apply.deleted) : hw' = hw \cup S
        BY <2>3 DEF RollbackOn
    <2> QED BY <2>1, <2>2, <2>4
<1>6. (InstalledOn(hw, g) \in Outcomes(g))'
    <2>1. InstalledOn(hw, g)' = InstalledOn(hw', g) /\ InstalledOn(before, g)' = InstalledOn(before, g)
        BY <1>2 DEF InstalledOn, Held
    <2>2. ToCreate(apply.plan)' = ToCreate(apply.plan)
        BY <1>2 DEF ToCreate
    <2>3. Outcomes(g)' = Outcomes(g)
        BY <1>2, <2>1, <2>2 DEF Outcomes
    <2> QED BY <1>5, <2>1, <2>3
<1>7. ASSUME NEW h \in GPUs, h # g
      PROVE  /\ (Left(h) => Left(h)') /\ (Made(h) => Made(h)')
             /\ InstalledOn(hw, h) \in Outcomes(h) => (InstalledOn(hw, h) \in Outcomes(h))'
    <2>1. \A i : i.gpu = h => (i \in hw' <=> i \in hw)
        BY <1>5, <1>7
    <2> QED BY <1>2, <2>1, Untouched
<1> QED BY <1>2, <1>6, <1>7 DEF PhaseInv

\* No step of the agent or of its environment loses the way back.
LEMMA RestoreInvStep == TypeOK /\ UuidsIdentify /\ RestoreInv /\ [Next]_vars => RestoreInv'
<1> SUFFICES ASSUME TypeOK, UuidsIdentify, RestoreInv, [Next]_vars, faults' = 0
             PROVE  PhaseInv'
    BY SoundInvStep DEF RestoreInv
<1>0. faults = 0 /\ faults' = faults /\ ~Fault /\ PhaseInv /\ SoundInv
    <2>1. faults \in Nat
        BY SMTT(40), BoundsAssumption DEF TypeOK
    <2>2. faults' \in {faults, faults + 1}
        BY DEF Next, Boot, ReadUsed, DeleteAllExcept, DeleteAllExceptFails, Gate, Reconcile,
               ReconcileFails, ReconcileMatched, ReconcileSkipped, ReconcileApplies, EndReconcile,
               ApplyStep, resetNodeSpec, resetNodeSpecFails, DeleteMigDevice, DeleteMigDeviceFails,
               CreateOn, RollbackOn, CreateDone, RestartPlugin, RestartPluginFails,
               clearRepartitioningTaint, Report, ReportFails, ReportUnchanged, ReportBegins,
               ReportPatch, Environment, ApplyPartitioning, CacheSync, Allocate, Release, PluginUp,
               Crash, Fault, bounds, vars
    <2>3. faults = 0
        BY <2>1, <2>2
    <2> QED BY <2>3 DEF Fault, RestoreInv
<1>1. ASSUME aPc' \notin {"delete", "create", "rollback", "restart", "taint"}
      PROVE  PhaseInv'
    BY <1>1 DEF PhaseInv
<1>2. ASSUME UNCHANGED <<hw, before, apply, aPc>>
      PROVE  PhaseInv'
    <2>1. \A g \in GPUs : /\ Left(g) => Left(g)'
                          /\ Made(g) => Made(g)'
                          /\ InstalledOn(hw, g) \in Outcomes(g) => (InstalledOn(hw, g) \in Outcomes(g))'
        BY <1>2, Untouched
    <2>2. \A d : Exists(d) => Exists(d)'
        BY <1>2 DEF Exists
    <2> QED BY <1>0, <1>2, <2>1, <2>2 DEF PhaseInv
<1>3. CASE Boot \/ Gate \/ ReconcileFails \/ ReconcileMatched \/ ReconcileSkipped
    BY <1>1, <1>3 DEF Boot, ReadUsed, DeleteAllExcept, DeleteAllExceptFails, Gate, ReconcileFails,
                      ReconcileMatched, ReconcileSkipped, EndReconcile
<1>4. CASE ReconcileApplies
    BY <1>0, <1>4, BeginsPhase
<1>5. CASE ApplyStep
    <2>1. ASSUME NEW d \in apply.todo, DeleteMigDevice(d) \/ DeleteMigDeviceFails(d)
          PROVE  PhaseInv'
        BY <1>0, <2>1, DeletePhase, RefusePhase
    <2>2. ASSUME NEW g \in apply.gpus, CreateOn(g) \/ RollbackOn(g)
          PROVE  PhaseInv'
        BY <1>0, <2>2, CreatePhase, RollbackPhase
    <2>3. CASE CreateDone
        BY <1>0, <2>3, CreatedPhase
    <2>4. ASSUME NEW err, FinishApply(err)
          PROVE  PhaseInv'
        BY <1>1, <2>4 DEF FinishApply
    <2>5. CASE resetNodeSpec \/ resetNodeSpecFails \/ clearRepartitioningTaint
        BY <2>4, <2>5 DEF resetNodeSpec, resetNodeSpecFails, clearRepartitioningTaint
    <2>6. CASE RestartPlugin \/ RestartPluginFails
        <3>1. CASE apply.err /\ RestartPlugin
            <4>1. aPc = "restart" /\ aPc' = "taint" /\ UNCHANGED <<hw, before, apply>>
                BY <3>1 DEF RestartPlugin, history
            <4>2. \A g \in GPUs :
                     InstalledOn(hw, g) \in Outcomes(g) => (InstalledOn(hw, g) \in Outcomes(g))'
                BY <4>1, Untouched
            <4> QED BY <1>0, <4>1, <4>2 DEF PhaseInv
        <3>2. CASE ~apply.err /\ RestartPlugin
            BY <2>4, <3>2 DEF RestartPlugin
        <3> QED BY <1>0, <2>6, <3>1, <3>2 DEF RestartPluginFails
    <2> QED BY <1>5, <2>1, <2>2, <2>3, <2>5, <2>6 DEF ApplyStep
<1>6. CASE Report \/ UNCHANGED vars
    BY <1>2, <1>6 DEF Report, ReportFails, ReportUnchanged, ReportBegins, ReportPatch, vars,
                      hostVars, actVars, history
<1>7. CASE Environment
    <2>1. CASE Crash
        BY <1>1, <2>1 DEF Crash
    <2>2. CASE ~Crash
        BY <1>2, <1>7, <2>2 DEF Environment, ApplyPartitioning, CacheSync, Allocate, Release,
                                PluginUp, hostVars, actVars, history
    <2> QED BY <2>1, <2>2
<1> QED BY <1>3, <1>4, <1>5, <1>6, <1>7 DEF Next, Reconcile

\* As long as MIG UUIDs identify devices and no call fails by itself, a plan whose creation
\* fails leaves each GPU with what it had or what the plan makes of it, never with less
\* (applyCreateOps, rollbackDeletedResources), whatever Pods, crashes and late caches do.
THEOREM MigAgentRestores == Spec /\ []UuidsIdentify => FailedApplyRestores
<1> DEFINE Restores ==
        aPc = "taint" /\ aPc' = "idle" /\ apply.failed /\ faults = 0 =>
            \A g \in GPUs : InstalledOn(hw, g) \in Outcomes(g)
<1>1. Init => RestoreInv
    <2>1. Sound({})
        BY DEF Sound
    <2> QED BY <2>1 DEF Init, RestoreInv, SoundInv, PhaseInv
<1>2. RestoreInv /\ [Next]_vars => [Restores]_vars
    BY DEF RestoreInv, PhaseInv
<1> QED BY <1>1, <1>2, RestoreInvStep, TypeCorrect, PTL DEF Spec, FailedApplyRestores
=============================================================================
