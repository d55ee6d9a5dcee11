---------------------------- MODULE GpuAgentProofs ----------------------------
(***************************************************************************)
(* Theorems about GpuAgent, for any slices, any configurations of the      *)
(* device plugin and any bounds.                                           *)
(***************************************************************************)
EXTENDS GpuAgent, FiniteSetTheorems, TLAPS

\* The slices of one size on one GPU.
OfKey(S, k) == {s \in S : <<s.gpu, s.profile>> = k}

LEMMA CountsType ==
    ASSUME NEW S \in SUBSET Slices
    PROVE  /\ Counts(S) \in Quantities
           /\ \A k \in Keys : /\ Counts(S)[k] = Cardinality(OfKey(S, k))
                              /\ IsFiniteSet(OfKey(S, k)) /\ Counts(S)[k] \in Nat
<1>1. \A k \in Keys : IsFiniteSet(OfKey(S, k)) /\ Cardinality(OfKey(S, k)) \in Nat
    <2> TAKE k \in Keys
    <2>1. OfKey(S, k) \in SUBSET Slices
        BY DEF OfKey
    <2> QED BY <2>1, SlicesAssumption, FS_Subset, FS_CardinalityType
<1>2. Counts(S) = [k \in Keys |-> Cardinality(OfKey(S, k))]
    BY DEF Counts, OfKey
<1> QED BY <1>1, <1>2 DEF Quantities

LEMMA StatusType ==
    ASSUME NEW U \in SUBSET Slices, NEW A \in SUBSET Slices
    PROVE  AsStatusAnnotation(U, A) \in Status
<1>1. ComputeFree(U, A) \in SUBSET Slices
    BY DEF ComputeFree
<1> QED BY <1>1, CountsType DEF AsStatusAnnotation, Status

LEMMA EmptyTypes == NoStatus \in Status /\ NoNode \in Node
<1>1. Counts({}) \in Quantities
    BY CountsType
<1> QED BY <1>1 DEF NoStatus, NoNode, Status, Node

LEMMA BoundsType ==
    MaxChanges \in Nat /\ MaxPods \in Nat /\ MaxFaults \in Nat /\ MaxRestarts \in Nat
BY SlicesAssumption

\* The types, and what a round that began under the present configuration knows of it.
AgentInv ==
    /\ TypeOK
    /\ advertised \in Sharings
    /\ changes = 0 => /\ allocated \subseteq advertised /\ used \subseteq advertised
                      /\ pc = "patch" => shown = AsStatusAnnotation(used, advertised)

LEMMA AgentInit == Init => AgentInv
<1> SUFFICES ASSUME Init PROVE AgentInv
    OBVIOUS
<1>1. advertised \subseteq Slices
    BY SlicesAssumption DEF Init
<1>2. /\ changes \in 0..MaxChanges /\ pods \in 0..MaxPods
      /\ faults \in 0..MaxFaults /\ restarts \in 0..MaxRestarts
    BY BoundsType DEF Init
<1>3. queued \in BOOLEAN /\ later \in BOOLEAN
    BY Zenon DEF Init
<1>4. /\ allocated \subseteq Slices /\ used \subseteq Slices /\ pc \in {"idle", "used", "patch"}
      /\ node \in Node /\ cache \in Node /\ view \in Node /\ shown \in Status
    BY EmptyTypes, Zenon DEF Init
<1>5. TypeOK
    BY <1>1, <1>2, <1>3, <1>4, Zenon DEF TypeOK
<1> QED BY <1>5 DEF Init, AgentInv

LEMMA ReconcileStep ==
    ASSUME AgentInv, Reconcile
    PROVE  AgentInv'
<1>1. CASE ListUsed
    BY <1>1 DEF ListUsed, AgentInv, TypeOK, bounds
<1>2. CASE ReportUnchanged
    BY <1>2, EmptyTypes DEF ReportUnchanged, Idle, Requeue, AgentInv, TypeOK, bounds
<1>3. CASE ListAllocatable
    <2>1. AsStatusAnnotation(used, advertised) \in Status
        BY StatusType DEF AgentInv, TypeOK
    <2>2. /\ shown' = AsStatusAnnotation(used, advertised) /\ pc' = "patch"
          /\ UNCHANGED <<advertised, allocated, node, cache, view, used, queued, later, bounds>>
        BY <1>3 DEF ListAllocatable
    <2>3. TypeOK'
        BY <2>1, <2>2 DEF AgentInv, TypeOK, bounds
    <2>4. AsStatusAnnotation(used, advertised)' = AsStatusAnnotation(used, advertised)
        BY <2>2 DEF AsStatusAnnotation, ComputeFree, Counts
    <2> QED BY <2>2, <2>3, <2>4 DEF AgentInv, bounds
<1>4. CASE PatchNode
    <2> DEFINE u == Patched(node.status.used, view.status.used, shown.used)
               f == Patched(node.status.free, view.status.free, shown.free)
    <2>1. /\ node \in Node /\ node.status.used \in Quantities /\ node.status.free \in Quantities
          /\ shown.used \in Quantities /\ shown.free \in Quantities
        BY DEF AgentInv, TypeOK, Node, Status
    <2>2. u \in Quantities /\ f \in Quantities
        BY <2>1 DEF Patched, Quantities
    <2>3. node' = [node EXCEPT !.status = [used |-> u, free |-> f]]
        BY <1>4 DEF PatchNode
    <2> HIDE DEF u, f
    <2>4. [used |-> u, free |-> f] \in Status
        BY <2>2 DEF Status
    <2>5. node' \in Node
        BY <2>1, <2>3, <2>4 DEF Node
    <2>6. Idle /\ Requeue /\ UNCHANGED <<advertised, allocated, cache, queued, bounds>>
        BY <1>4 DEF PatchNode
    <2>7. TypeOK'
        BY <2>5, <2>6, EmptyTypes DEF Idle, Requeue, AgentInv, TypeOK, bounds
    <2> QED BY <2>6, <2>7 DEF AgentInv, Idle, bounds
<1>5. CASE ReconcileFails
    <2>1. TypeOK'
        BY <1>5, EmptyTypes, BoundsType DEF ReconcileFails, Idle, AgentInv, TypeOK
    <2> QED BY <1>5, <2>1 DEF ReconcileFails, Idle, AgentInv
<1> QED BY <1>1, <1>2, <1>3, <1>4, <1>5 DEF Reconcile

\* A step that leaves the round in progress, the slices and the configuration alone.
LEMMA RoundUntouched ==
    ASSUME AgentInv, TypeOK', UNCHANGED <<advertised, allocated, used, shown, pc, changes>>
    PROVE  AgentInv'
BY DEF AgentInv, AsStatusAnnotation, ComputeFree, Counts

LEMMA EnvironmentStep ==
    ASSUME AgentInv,
           \/ (\E sharing \in Sharings : Reconfigure(sharing)) \/ ShowCapacity
           \/ (\E s \in advertised : Allocate(s)) \/ (\E s \in allocated : Release(s))
    PROVE  AgentInv'
<1>1. CASE \E sharing \in Sharings : Reconfigure(sharing)
    <2>1. PICK sharing \in Sharings : Reconfigure(sharing)
        BY <1>1
    <2>2. sharing \subseteq Slices
        BY SlicesAssumption
    <2>3. changes' \in 0..MaxChanges /\ changes' # 0
        BY <2>1, BoundsType DEF Reconfigure, AgentInv, TypeOK
    <2>4. advertised' = sharing /\ UNCHANGED <<allocated, node, cache, local, queued, later, pods, faults, restarts>>
        BY <2>1 DEF Reconfigure
    <2>5. TypeOK'
        BY <2>2, <2>3, <2>4 DEF AgentInv, TypeOK, local
    <2> QED BY <2>3, <2>4, <2>5 DEF AgentInv
<1>2. CASE ShowCapacity
    <2>1. PICK quantities \in {node.allocatable, Counts(advertised)} :
             node' = [node EXCEPT !.capacity = Counts(advertised), !.allocatable = quantities]
        BY <1>2 DEF ShowCapacity
    <2>2. /\ Counts(advertised) \in Quantities /\ node \in Node /\ node.allocatable \in Quantities
        BY CountsType DEF AgentInv, TypeOK, Node
    <2>3. node' \in Node
        BY <2>1, <2>2 DEF Node
    <2>4. UNCHANGED <<advertised, allocated, cache, local, queued, later, bounds>>
        BY <1>2 DEF ShowCapacity
    <2>5. TypeOK'
        BY <2>3, <2>4 DEF AgentInv, TypeOK, local, bounds
    <2> QED BY <2>4, <2>5, RoundUntouched DEF local, bounds
<1>3. CASE \E s \in advertised : Allocate(s)
    <2>1. PICK s \in advertised : Allocate(s)
        BY <1>3
    <2>2. pods' \in 0..MaxPods
        BY <2>1, BoundsType DEF Allocate, AgentInv, TypeOK
    <2>3. TypeOK'
        BY <2>1, <2>2 DEF Allocate, AgentInv, TypeOK, local
    <2>4. /\ allocated' = allocated \cup {s}
          /\ UNCHANGED <<advertised, used, shown, pc, changes>>
        BY <2>1 DEF Allocate, local
    <2>5. AsStatusAnnotation(used, advertised)' = AsStatusAnnotation(used, advertised)
        BY <2>4 DEF AsStatusAnnotation, ComputeFree, Counts
    <2> QED BY <2>3, <2>4, <2>5 DEF AgentInv
<1>4. CASE \E s \in allocated : Release(s)
    <2>1. PICK s \in allocated : Release(s)
        BY <1>4
    <2>2. TypeOK'
        BY <2>1 DEF Release, AgentInv, TypeOK, local, bounds
    <2>3. /\ allocated' = allocated \ {s}
          /\ UNCHANGED <<advertised, used, shown, pc, changes>>
        BY <2>1 DEF Release, local, bounds
    <2>4. AsStatusAnnotation(used, advertised)' = AsStatusAnnotation(used, advertised)
        BY <2>3 DEF AsStatusAnnotation, ComputeFree, Counts
    <2> QED BY <2>2, <2>3, <2>4 DEF AgentInv
<1> QED BY <1>1, <1>2, <1>3, <1>4

LEMMA AgentStep == AgentInv /\ [Next]_vars => AgentInv'
<1> SUFFICES ASSUME AgentInv, [Next]_vars PROVE AgentInv'
    OBVIOUS
<1>1. CASE Reconcile
    BY <1>1, ReconcileStep
<1>2. CASE RefreshInterval \/ CacheSync
    <2>1. TypeOK'
        BY <1>2 DEF RefreshInterval, CacheSync, NodeResourcesChanged, AgentInv, TypeOK, local, bounds
    <2> QED BY <1>2, <2>1, RoundUntouched DEF RefreshInterval, CacheSync, local, bounds
<1>3. CASE Restart
    <2>1. restarts' \in 0..MaxRestarts
        BY <1>3, BoundsType DEF Restart, AgentInv, TypeOK
    <2>2. /\ UNCHANGED <<advertised, allocated, node, changes, pods, faults>>
          /\ cache' = node /\ queued' = TRUE /\ later' = FALSE
          /\ pc' = "idle" /\ view' = NoNode /\ used' = {} /\ shown' = NoStatus
        BY <1>3 DEF Restart, Idle
    <2>3. queued' \in BOOLEAN /\ later' \in BOOLEAN
        BY <2>2, Zenon
    <2>4. /\ node' \in Node /\ cache' \in Node /\ view' \in Node /\ shown' \in Status
          /\ used' \subseteq Slices /\ pc' \in {"idle", "used", "patch"}
        BY <2>2, EmptyTypes, Zenon DEF AgentInv, TypeOK
    <2>5. TypeOK'
        BY <2>1, <2>2, <2>3, <2>4 DEF AgentInv, TypeOK
    <2> QED BY <2>2, <2>5 DEF AgentInv
<1>4. CASE \/ (\E sharing \in Sharings : Reconfigure(sharing)) \/ ShowCapacity
           \/ (\E s \in advertised : Allocate(s)) \/ (\E s \in allocated : Release(s))
    BY <1>4, EnvironmentStep
<1>5. CASE UNCHANGED vars
    <2>1. TypeOK'
        BY <1>5 DEF vars, AgentInv, TypeOK, local, bounds
    <2> QED BY <1>5, <2>1, RoundUntouched DEF vars, local, bounds
<1> QED BY <1>1, <1>2, <1>3, <1>4, <1>5 DEF Next

\* The types of the state of the agent and of its environment.
THEOREM GpuAgentTypes == Spec => []TypeOK
<1>1. AgentInv => TypeOK
    BY DEF AgentInv
<1> QED BY <1>1, AgentInit, AgentStep, PTL DEF Spec

\* Used and free slices of a list without duplicates add up to the list.
LEMMA UsedAndFree ==
    ASSUME NEW A \in Sharings, NEW U \in SUBSET A, NEW k \in Keys
    PROVE  Counts(U)[k] + Counts(ComputeFree(U, A))[k] = Counts({})[k] + Counts(A)[k]
<1> DEFINE F == ComputeFree(U, A)
<1>1. A \subseteq Slices /\ \A s, t \in A : s.id = t.id => s = t
    BY SlicesAssumption
<1>2. F = A \ U
    BY <1>1 DEF ComputeFree
<1> HIDE DEF F
<1>3. OfKey(A, k) = OfKey(U, k) \cup OfKey(F, k) /\ OfKey(U, k) \cap OfKey(F, k) = {}
    BY <1>2 DEF OfKey
<1>4. /\ Counts(U)[k] = Cardinality(OfKey(U, k)) /\ IsFiniteSet(OfKey(U, k)) /\ Counts(U)[k] \in Nat
      /\ Counts(F)[k] = Cardinality(OfKey(F, k)) /\ IsFiniteSet(OfKey(F, k)) /\ Counts(F)[k] \in Nat
      /\ Counts(A)[k] = Cardinality(OfKey(A, k)) /\ Counts({})[k] = Cardinality(OfKey({}, k))
    <2>1. U \in SUBSET Slices /\ F \in SUBSET Slices /\ A \in SUBSET Slices /\ {} \in SUBSET Slices
        BY <1>1, <1>2
    <2> QED BY <2>1, CountsType
<1>5. Cardinality(OfKey(A, k)) =
        Cardinality(OfKey(U, k)) + Cardinality(OfKey(F, k)) - Cardinality(OfKey(U, k) \cap OfKey(F, k))
    BY <1>3, <1>4, FS_Union
<1>6. Cardinality({}) = 0 /\ OfKey({}, k) = {}
    BY FS_EmptySet DEF OfKey
<1>7. Counts(A)[k] = Counts(U)[k] + Counts(F)[k] - 0 /\ Counts({})[k] = 0
    BY <1>3, <1>4, <1>5, <1>6, Zenon
<1>8. Counts(U)[k] + Counts(F)[k] = Counts({})[k] + Counts(A)[k]
    BY <1>4, <1>7
<1> QED BY <1>8 DEF F

\* However Pods take and return slices between the two lists of the Reporter, no slice is
\* counted as used and as free, nor left out.
THEOREM GpuAgentCounts == Spec => []CountsOnce
<1>1. AgentInv => CountsOnce
    <2> SUFFICES ASSUME AgentInv, pc = "patch", changes = 0, NEW s \in Slices
                 PROVE  Total(shown, s.gpu)
                          = Total([used |-> Counts({}), free |-> Counts(advertised)], s.gpu)
        BY DEF CountsOnce
    <2> DEFINE given == [used |-> Counts({}), free |-> Counts(advertised)]
    <2>1. /\ advertised \in Sharings /\ used \in SUBSET advertised
          /\ shown = AsStatusAnnotation(used, advertised)
        BY DEF AgentInv
    <2>2. /\ shown.used = Counts(used) /\ shown.free = Counts(ComputeFree(used, advertised))
          /\ given.used = Counts({}) /\ given.free = Counts(advertised)
        BY <2>1 DEF AsStatusAnnotation
    <2>3. \A k \in Keys : shown.used[k] + shown.free[k] = given.used[k] + given.free[k]
        BY <2>1, <2>2, UsedAndFree
    <2> HIDE DEF given
    <2>4. Total(shown, s.gpu) = Total(given, s.gpu)
        BY <2>3 DEF Total
    <2> QED BY <2>4 DEF given
<1> QED BY <1>1, AgentInit, AgentStep, PTL DEF Spec
=============================================================================
