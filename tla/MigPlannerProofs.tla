-------------------------- MODULE MigPlannerProofs --------------------------
(***************************************************************************)
(* Theorems about the planner, for any device list and any spec.           *)
(***************************************************************************)
EXTENDS MigPlanner, SumTheorems

DistinctIds(S) == \A d, e \in S : d.id = e.id => d = e

\* What the planner is given, and that the plan is the one it computes.
PlanInv ==
    /\ state \subseteq Device /\ IsFiniteSet(state) /\ DistinctIds(state)
    /\ spec \in [Keys -> Nat]
    /\ plan = <<>> \/ plan = <<NewMigConfigPlan(state, spec)>>

\* A device list in which an id occurs once is finite.
LEMMA NewMigStateType ==
    ASSUME NEW S \in NewMigState
    PROVE  S \subseteq Device /\ IsFiniteSet(S) /\ DistinctIds(S)
<1>1. PICK T \in SUBSET Ids : \E f \in [T -> GPUs \X Profiles \X BOOLEAN] :
         S = {[id |-> i, gpu |-> f[i][1], profile |-> f[i][2], used |-> f[i][3]] : i \in T}
    BY DEF NewMigState
<1>2. PICK f \in [T -> GPUs \X Profiles \X BOOLEAN] :
         S = {[id |-> i, gpu |-> f[i][1], profile |-> f[i][2], used |-> f[i][3]] : i \in T}
    BY <1>1
<1>3. \A i \in T : f[i][1] \in GPUs /\ f[i][2] \in Profiles /\ f[i][3] \in BOOLEAN
    OBVIOUS
<1>4. S \subseteq Device
    BY <1>2, <1>3 DEF Device
<1>5. IsFiniteSet(S)
    <2> DEFINE h == [d \in S |-> d.id]
    <2>1. h \in [S -> Ids]
        BY <1>4 DEF Device
    <2>2. \A d, e \in S : h[d] = h[e] => d = e
        BY <1>2
    <2>3. h \in Injection(S, Ids)
        <3> HIDE DEF h
        <3> QED BY <2>1, <2>2 DEF Injection, IsInjective
    <2> QED BY <2>3, FS_Injection, PlannerAssumption
<1>6. DistinctIds(S)
    BY <1>2 DEF DistinctIds
<1> QED BY <1>4, <1>5, <1>6

\* The planner works on such a list and on quantities (NewMigConfigPlan).
THEOREM PlanInvCorrect == Spec => []PlanInv
<1>1. Init => PlanInv
    <2> SUFFICES ASSUME Init
                 PROVE  PlanInv
        OBVIOUS
    <2>1. spec \in [Keys -> Nat]
        BY PlannerAssumption DEF Init
    <2> QED BY <2>1, NewMigStateType DEF Init, PlanInv
<1>2. PlanInv /\ [MakePlan]_vars => PlanInv'
    BY DEF PlanInv, MakePlan, vars
<1> QED BY <1>1, <1>2, PTL DEF Spec

\* The delete operations that are not for recreation: each is about one profile of one
\* GPU, which the spec either does not mention or mentions with fewer devices.
LEMMA InSpecOrNot ==
    ASSUME NEW S, NEW q
    PROVE  /\ \A D \in DeleteNotInSpec(S, q) : \E k \in Keys : q[k] = 0 /\ D \subseteq OfKey(S, k)
           /\ \A D \in DeleteExcess(S, q) : \E k \in Keys :
                /\ q[k] > 0 /\ Counts(S)[k] > q[k]
                /\ D \subseteq OfKey(S, k)
<1>1. \A k \in Keys : OfKey(getResourcesNotIncludedInSpec(S, q), k) # {} => q[k] = 0
    BY DEF OfKey, getResourcesNotIncludedInSpec
<1>2. \A k \in Keys : OfKey(getResourcesNotIncludedInSpec(S, q), k) \subseteq OfKey(S, k)
    BY DEF OfKey, getResourcesNotIncludedInSpec
<1>3. \A R, n : extractCandidatesForDeletion(R, n) \subseteq R
    BY DEF extractCandidatesForDeletion, First
<1> QED BY <1>1, <1>2, <1>3 DEF DeleteNotInSpec, DeleteExcess

\* Different delete operations of a plan name different devices.
LEMMA OperationsDisjoint ==
    ASSUME NEW S, NEW q \in [Keys -> Nat],
           NEW D \in NewMigConfigPlan(S, q).delete, NEW E \in NewMigConfigPlan(S, q).delete,
           D # E
    PROVE  D \cap E = {}
<1> DEFINE N == DeleteNotInSpec(S, q)
           X == DeleteExcess(S, q)
           R == DeleteForRecreate(S, q)
<1>1. D \in N \cup X \cup R /\ E \in N \cup X \cup R
    BY DEF NewMigConfigPlan
<1>2. \A j, k \in Keys : j # k => OfKey(S, j) \cap OfKey(S, k) = {}
    BY DEF OfKey
<1>3. ASSUME NEW A \in N, NEW B \in N, A # B
      PROVE  A \cap B = {}
    <2>1. PICK j \in Keys : A = OfKey(getResourcesNotIncludedInSpec(S, q), j)
        BY DEF DeleteNotInSpec
    <2>2. PICK k \in Keys : B = OfKey(getResourcesNotIncludedInSpec(S, q), k)
        BY DEF DeleteNotInSpec
    <2> QED BY <1>3, <2>1, <2>2 DEF OfKey
<1>4. ASSUME NEW A \in X, NEW B \in X, A # B
      PROVE  A \cap B = {}
    <2>1. PICK j \in Keys : A = extractCandidatesForDeletion(OfKey(S, j), Counts(S)[j] - q[j])
        BY DEF DeleteExcess
    <2>2. PICK k \in Keys : B = extractCandidatesForDeletion(OfKey(S, k), Counts(S)[k] - q[k])
        BY DEF DeleteExcess
    <2>3. j # k
        BY <1>4, <2>1, <2>2
    <2>4. A \subseteq OfKey(S, j) /\ B \subseteq OfKey(S, k)
        BY <2>1, <2>2 DEF extractCandidatesForDeletion, First
    <2> QED BY <1>2, <2>3, <2>4
<1>5. ASSUME NEW A \in N, NEW B \in X
      PROVE  A \cap B = {}
    <2>1. PICK j \in Keys : q[j] = 0 /\ A \subseteq OfKey(S, j)
        BY InSpecOrNot
    <2>2. PICK k \in Keys : q[k] > 0 /\ B \subseteq OfKey(S, k)
        BY InSpecOrNot
    <2> QED BY <1>2, <2>1, <2>2
<1>6. ASSUME NEW A \in R, NEW B \in N \cup X
      PROVE  A \cap B = {}
    BY DEF DeleteForRecreate, extractResourcesToRecreate
<1>7. ASSUME NEW A \in R, NEW B \in R, A # B
      PROVE  A \cap B = {}
    BY ZenonT(60), <1>7 DEF DeleteForRecreate, extractResourcesToRecreate
<1> HIDE DEF N, X, R
<1> QED BY <1>1, <1>3, <1>4, <1>5, <1>6, <1>7

\* No device is named by two delete operations, and every device named exists, whatever
\* the devices and the spec are: a plan does not make DeleteMigDevice return NotFound.
THEOREM DeletesOnceCorrect == Spec => []DeletesOnce
<1>1. PlanInv => DeletesOnce
    <2> SUFFICES ASSUME PlanInv, plan # <<>>
                 PROVE  Disjoint(plan[1])
        BY DEF DeletesOnce, Planned
    <2>1. plan[1] = NewMigConfigPlan(state, spec)
        BY DEF PlanInv
    <2>2. ToDelete(NewMigConfigPlan(state, spec)) \subseteq state
        <3>1. \A k \in Keys : OfKey(state, k) \subseteq state
            BY DEF OfKey
        <3>2. \A D \in DeleteNotInSpec(state, spec) \cup DeleteExcess(state, spec) : D \subseteq state
            BY <3>1, InSpecOrNot
        <3>3. \A D \in DeleteForRecreate(state, spec) : D \subseteq state
            BY DEF DeleteForRecreate, extractResourcesToRecreate
        <3> QED BY <3>2, <3>3 DEF ToDelete, NewMigConfigPlan
    <2>3. \A D, E \in NewMigConfigPlan(state, spec).delete : D # E => D \cap E = {}
        BY OperationsDisjoint DEF PlanInv
    <2> QED BY <2>1, <2>2, <2>3 DEF Disjoint
<1> QED BY <1>1, PlanInvCorrect, PTL

\* On a GPU without create operation nothing is recreated.
LEMMA NothingRecreated ==
    ASSUME NEW S, NEW q, NEW g \in GPUs, g \notin GpusWithCreateOp(S, q), NEW m \in Profiles
    PROVE  ToCreate(NewMigConfigPlan(S, q))[<<g, m>>] = CreateMissing(S, q)[<<g, m>>] + 0
<1>1. <<g, m>> \in Keys
    BY DEF Keys
<1>2. OfKey(Recreated(S, q), <<g, m>>) = {}
    BY DEF OfKey, Key, Recreated, extractResourcesToRecreate
<1>3. Counts(Recreated(S, q))[<<g, m>>] = 0
    BY <1>1, <1>2, FS_EmptySet DEF Counts
<1> QED BY <1>1, <1>3 DEF ToCreate, NewMigConfigPlan

\* The quantities of a finite device list are numbers, and 0 only where there is none.
LEMMA CountsOf ==
    ASSUME NEW S, IsFiniteSet(S), NEW k \in Keys
    PROVE  Counts(S)[k] \in Nat /\ (Counts(S)[k] = 0 <=> OfKey(S, k) = {})
<1>1. IsFiniteSet(OfKey(S, k))
    BY FS_Subset DEF OfKey
<1> QED BY <1>1, FS_CardinalityType, FS_EmptySet DEF Counts

\* A GPU that already is as the spec says keeps all its devices and gets none.
THEOREM SettledGpuUntouchedCorrect == Spec => []SettledGpuUntouched
<1>1. PlanInv => SettledGpuUntouched
    <2> SUFFICES ASSUME PlanInv, plan # <<>>, NEW g \in SettledGpus
                 PROVE  /\ \A d \in ToDelete(plan[1]) : d.gpu # g
                        /\ \A m \in Profiles : ToCreate(plan[1])[<<g, m>>] = 0
        BY DEF SettledGpuUntouched, Planned, LeavesAlone
    <2>1. plan[1] = NewMigConfigPlan(state, spec) /\ IsFiniteSet(state) /\ state \subseteq Device
        BY DEF PlanInv
    <2>2. g \in GPUs /\ \A p \in Profiles : <<g, p>> \in Keys /\ Counts(state)[<<g, p>>] = spec[<<g, p>>]
        BY DEF SettledGpus, Keys
    <2>3. \A p \in Profiles : CreateMissing(state, spec)[<<g, p>>] = 0
        <3> TAKE p \in Profiles
        <3>1. Counts(state)[<<g, p>>] = spec[<<g, p>>] /\ spec[<<g, p>>] \in Nat /\ <<g, p>> \in Keys
            BY <2>2 DEF PlanInv
        <3> QED BY <3>1 DEF CreateMissing
    <2>4. g \notin GpusWithCreateOp(state, spec)
        <3>1. ASSUME NEW p \in Profiles
              PROVE  ~(CreateMissing(state, spec)[<<g, p>>] > 0)
            <4>1. CreateMissing(state, spec)[<<g, p>>] = 0
                BY <2>3
            <4> QED BY <4>1
        <3> QED BY <3>1, Zenon DEF GpusWithCreateOp
    <2>5. \A D \in DeleteNotInSpec(state, spec) \cup DeleteExcess(state, spec) :
             \A d \in D : d.gpu # g
        <3> SUFFICES ASSUME NEW D \in DeleteNotInSpec(state, spec) \cup DeleteExcess(state, spec),
                            NEW d \in D, d.gpu = g
                     PROVE  FALSE
            OBVIOUS
        <3>1. PICK k \in Keys : /\ d \in OfKey(state, k)
                                /\ spec[k] = 0 \/ Counts(state)[k] > spec[k]
            BY InSpecOrNot
        <3>2. d \in Device /\ k = <<g, d.profile>> /\ d.profile \in Profiles
            BY <2>1, <3>1 DEF OfKey, Key, Device
        <3>3. Counts(state)[k] = spec[k] /\ Counts(state)[k] \in Nat /\ spec[k] \in Nat
            BY <2>1, <2>2, <3>2, CountsOf DEF PlanInv
        <3>4. Counts(state)[k] # 0
            BY <2>1, <3>1, CountsOf
        <3> QED BY <3>1, <3>3, <3>4
    <2>6. \A D \in DeleteForRecreate(state, spec) : \A d \in D : d.gpu # g
        BY <2>4 DEF DeleteForRecreate, extractResourcesToRecreate
    <2>7. \A d \in ToDelete(plan[1]) : d.gpu # g
        BY <2>1, <2>5, <2>6 DEF ToDelete, NewMigConfigPlan
    <2>8. \A m \in Profiles : ToCreate(plan[1])[<<g, m>>] = 0
        <3> TAKE m \in Profiles
        <3>1. ToCreate(plan[1])[<<g, m>>] = CreateMissing(state, spec)[<<g, m>>] + 0
            BY <2>1, <2>2, <2>4, NothingRecreated
        <3>2. CreateMissing(state, spec)[<<g, m>>] = 0
            BY <2>3
        <3> QED BY <3>1, <3>2
    <2> QED BY <2>7, <2>8
<1> QED BY <1>1, PlanInvCorrect, PTL

\* On a GPU on which the plan creates devices it deletes all the free ones.
THEOREM ClearsBeforeCreateCorrect == Spec => []ClearsBeforeCreate
<1>1. PlanInv => ClearsBeforeCreate
    <2> SUFFICES ASSUME PlanInv, plan # <<>>, NEW d \in state, ~d.used,
                        NEW m \in Profiles, ToCreate(plan[1])[<<d.gpu, m>>] # 0
                 PROVE  d \in ToDelete(plan[1])
        BY DEF ClearsBeforeCreate, Planned, Clears, Remaining
    <2>1. plan[1] = NewMigConfigPlan(state, spec) /\ d.gpu \in GPUs
        BY DEF PlanInv, Device
    <2>2. d.gpu \in GpusWithCreateOp(state, spec)
        <3> SUFFICES ASSUME d.gpu \notin GpusWithCreateOp(state, spec)
                     PROVE  FALSE
            OBVIOUS
        <3>1. <<d.gpu, m>> \in Keys
            BY <2>1 DEF Keys
        <3>2. Counts(state)[<<d.gpu, m>>] \in Nat /\ spec[<<d.gpu, m>>] \in Nat
            BY <3>1, CountsOf DEF PlanInv
        <3>3. CreateMissing(state, spec)[<<d.gpu, m>>] \in Nat
            BY <3>1, <3>2 DEF CreateMissing
        <3>4. CreateMissing(state, spec)[<<d.gpu, m>>] = 0
            BY <2>1, <3>3 DEF GpusWithCreateOp
        <3> QED BY <2>1, <3>4, NothingRecreated
    <2> DEFINE Others == DeleteNotInSpec(state, spec) \cup DeleteExcess(state, spec)
    <2>3. CASE d \in UNION Others
        BY <2>1, <2>3 DEF ToDelete, NewMigConfigPlan
    <2>4. CASE d \notin UNION Others
        <3>1. d \in extractResourcesToRecreate(state, spec, d.gpu)
            BY <2>4 DEF extractResourcesToRecreate
        <3>2. extractResourcesToRecreate(state, spec, d.gpu) \in DeleteForRecreate(state, spec)
            BY <2>2, <3>1 DEF DeleteForRecreate
        <3> QED BY <2>1, <3>1, <3>2 DEF ToDelete, NewMigConfigPlan
    <2> QED BY <2>3, <2>4
<1> QED BY <1>1, PlanInvCorrect, PTL
-----------------------------------------------------------------------------
(***************************************************************************)
(* How many devices an operation names                                     *)
(***************************************************************************)
Below(S, d) == {e \in S : e.id < d.id}

\* The order of the ids is the order of how many devices are below.
LEMMA BelowOrder ==
    ASSUME NEW S, IsFiniteSet(S), \A d \in S : d.id \in Nat, NEW d \in S, NEW e \in S
    PROVE  /\ Cardinality(Below(S, d)) \in Nat
           /\ d.id <= e.id => Cardinality(Below(S, d)) <= Cardinality(Below(S, e))
           /\ d.id < e.id => Cardinality(Below(S, d)) < Cardinality(Below(S, e))
<1>1. \A x \in S : IsFiniteSet(Below(S, x)) /\ Cardinality(Below(S, x)) \in Nat
    BY FS_Subset, FS_CardinalityType DEF Below
<1>2. d.id <= e.id => Below(S, d) \subseteq Below(S, e)
    BY DEF Below
<1>3. d.id <= e.id => Cardinality(Below(S, d)) <= Cardinality(Below(S, e))
    BY <1>1, <1>2, FS_Subset
<1>4. ASSUME d.id < e.id
      PROVE  Cardinality(Below(S, d)) < Cardinality(Below(S, e))
    <2>1. d \in Below(S, e) /\ d \notin Below(S, d)
        BY <1>4 DEF Below
    <2>2. Below(S, d) \subseteq Below(S, e) /\ Below(S, d) # Below(S, e)
        BY <1>2, <1>4, <2>1
    <2>3. /\ Cardinality(Below(S, d)) <= Cardinality(Below(S, e))
          /\ Cardinality(Below(S, e)) # Cardinality(Below(S, d))
        BY <1>1, <2>2, FS_Subset
    <2> QED BY <1>1, <2>3
<1> QED BY <1>1, <1>3, <1>4

\* The next device in the order of the ids.
LEMMA NextOfOrder ==
    ASSUME NEW S, IsFiniteSet(S), \A d \in S : d.id \in Nat, DistinctIds(S),
           NEW n \in Nat, Cardinality(First(S, n)) = n, n < Cardinality(S)
    PROVE  Cardinality(First(S, n + 1)) = n + 1
<1>1. First(S, n) \subseteq S /\ IsFiniteSet(First(S, n))
    BY FS_Subset DEF First
<1>2. S \ First(S, n) # {}
    BY <1>1
<1> DEFINE T == {d.id : d \in S \ First(S, n)}
<1>3. PICK i \in T : \A j \in T : i <= j
    <2>1. T \in SUBSET Nat /\ T # {}
        BY <1>2
    <2> QED BY <2>1, LeastNumber
<1>4. PICK d \in S : d \notin First(S, n) /\ \A e \in S \ First(S, n) : d.id <= e.id
    BY <1>3
<1>5. \A x \in S : x \in First(S, n) <=> Cardinality(Below(S, x)) < n
    BY DEF First, Below
<1>6. \A x \in S : Cardinality(Below(S, x)) \in Nat
    BY BelowOrder
<1>7. Below(S, d) = First(S, n)
    <2>1. ASSUME NEW e \in S, e.id < d.id
          PROVE  e \in First(S, n)
        <3>1. ~(d.id <= e.id)
            BY <2>1
        <3> QED BY <1>4, <3>1
    <2>2. ASSUME NEW e \in First(S, n)
          PROVE  e.id < d.id
        <3>1. e \in S /\ Cardinality(Below(S, e)) < Cardinality(Below(S, d))
            BY <1>1, <1>4, <1>5, <1>6
        <3>2. ~(d.id <= e.id)
            BY <1>6, <3>1, BelowOrder
        <3> QED BY <3>1, <3>2
    <2> QED BY <1>1, <2>1, <2>2 DEF Below
<1>8. Cardinality(Below(S, d)) = n
    BY <1>7
<1>9. \A e \in S : Cardinality(Below(S, e)) = n => e = d
    <2> SUFFICES ASSUME NEW e \in S, Cardinality(Below(S, e)) = n
                 PROVE  e.id = d.id
        BY DEF DistinctIds
    <2>1. ~(e.id < d.id) /\ ~(d.id < e.id)
        BY <1>8, BelowOrder
    <2> QED BY <2>1
<1>10. First(S, n + 1) = First(S, n) \cup {d}
    <2>1. \A x \in S : x \in First(S, n + 1) <=> Cardinality(Below(S, x)) < n + 1
        BY DEF First, Below
    <2>2. \A x \in S : x \in First(S, n + 1) <=> x \in First(S, n) \/ x = d
        BY <1>5, <1>6, <1>8, <1>9, <2>1
    <2>3. First(S, n + 1) \subseteq S
        BY DEF First
    <2> QED BY <1>1, <2>2, <2>3
<1> QED BY <1>1, <1>4, <1>10, FS_AddElement

\* The first n devices of a list of at least n are n.
LEMMA FirstCount ==
    ASSUME NEW S, IsFiniteSet(S), \A d \in S : d.id \in Nat, DistinctIds(S),
           NEW m \in Nat, m <= Cardinality(S)
    PROVE  First(S, m) \subseteq S /\ Cardinality(First(S, m)) = m
<1> DEFINE T == {n \in Nat : n <= Cardinality(S) => Cardinality(First(S, n)) = n}
<1>0. Cardinality(S) \in Nat
    BY FS_CardinalityType
<1>1. 0 \in T
    <2>1. \A d \in S : ~(Cardinality(Below(S, d)) < 0)
        BY BelowOrder
    <2>2. First(S, 0) = {}
        BY <2>1 DEF First, Below
    <2> QED BY <2>2, FS_EmptySet
<1>2. \A n \in Nat : n \in T => n + 1 \in T
    BY <1>0, NextOfOrder
<1>3. m \in T
    <2> HIDE DEF T
    <2> QED BY <1>1, <1>2, SetInduction
<1> QED BY <1>3 DEF First

\* A list of at most n devices is its first n.
LEMMA FirstAll ==
    ASSUME NEW S, IsFiniteSet(S), \A d \in S : d.id \in Nat,
           NEW n \in Nat, n >= Cardinality(S)
    PROVE  First(S, n) = S
<1> SUFFICES ASSUME NEW d \in S
             PROVE  Cardinality(Below(S, d)) < n
    BY DEF First, Below
<1>1. Below(S, d) \subseteq S \ {d}
    BY DEF Below
<1>2. IsFiniteSet(S \ {d}) /\ Cardinality(S \ {d}) = Cardinality(S) - 1
    BY FS_RemoveElement
<1>3. Cardinality(Below(S, d)) <= Cardinality(S \ {d}) /\ Cardinality(Below(S, d)) \in Nat
    BY <1>1, <1>2, FS_Subset, BelowOrder
<1> QED BY <1>2, <1>3, FS_CardinalityType

UsedOf(S) == {d \in S : d.used}
FreeOf(S) == {d \in S : ~d.used}

\* Used and free devices together are all.
LEMMA UsedAndFree ==
    ASSUME NEW S, IsFiniteSet(S)
    PROVE  /\ IsFiniteSet(UsedOf(S)) /\ IsFiniteSet(FreeOf(S))
           /\ Cardinality(UsedOf(S)) \in Nat /\ Cardinality(FreeOf(S)) \in Nat
           /\ Cardinality(S) = Cardinality(UsedOf(S)) + Cardinality(FreeOf(S))
<1>1. IsFiniteSet(UsedOf(S)) /\ IsFiniteSet(FreeOf(S))
    BY FS_Subset DEF UsedOf, FreeOf
<1>2. UsedOf(S) \cup FreeOf(S) = S /\ UsedOf(S) \cap FreeOf(S) = {}
    BY DEF UsedOf, FreeOf
<1>3. Cardinality(UsedOf(S) \cup FreeOf(S)) =
          Cardinality(UsedOf(S)) + Cardinality(FreeOf(S)) - Cardinality(UsedOf(S) \cap FreeOf(S))
    BY <1>1, FS_Union
<1>4. Cardinality(UsedOf(S)) \in Nat /\ Cardinality(FreeOf(S)) \in Nat
    BY <1>1, FS_CardinalityType
<1>5. Cardinality(UsedOf(S) \cap FreeOf(S)) = 0
    BY <1>2, FS_EmptySet
<1>6. Cardinality(S) = Cardinality(UsedOf(S)) + Cardinality(FreeOf(S))
    BY <1>2, <1>3, <1>4, <1>5
<1> QED BY <1>1, <1>4, <1>6

\* extractCandidatesForDeletion names as many devices as it is asked for, and used ones
\* only for what the free ones do not make up.
LEMMA CandidatesCount ==
    ASSUME NEW S, IsFiniteSet(S), \A d \in S : d.id \in Nat, DistinctIds(S),
           NEW n \in Nat, n <= Cardinality(S)
    PROVE  LET C == extractCandidatesForDeletion(S, n)
               f == Cardinality(FreeOf(S))
           IN  /\ C \subseteq S
               /\ Cardinality(C) = n
               /\ Cardinality(UsedOf(C)) = IF n > f THEN n - f ELSE 0
<1> DEFINE C == extractCandidatesForDeletion(S, n)
           f == Cardinality(FreeOf(S))
           m == IF n > f THEN n - f ELSE 0
           F == First(FreeOf(S), n)
           U == First(UsedOf(S), m)
<1>1. f \in Nat /\ m \in Nat /\ m <= Cardinality(UsedOf(S))
    BY UsedAndFree, FS_CardinalityType
<1>2. /\ FreeOf(S) \subseteq S /\ UsedOf(S) \subseteq S
      /\ IsFiniteSet(FreeOf(S)) /\ IsFiniteSet(UsedOf(S))
      /\ DistinctIds(FreeOf(S)) /\ DistinctIds(UsedOf(S))
    BY UsedAndFree DEF FreeOf, UsedOf, DistinctIds
<1>3. C = F \cup U
    <2>1. S \ FreeOf(S) = UsedOf(S)
        BY DEF FreeOf, UsedOf
    <2>2. extractCandidatesForDeletion(S, n) = First(FreeOf(S), n) \cup First(S \ FreeOf(S), m)
        BY DEF extractCandidatesForDeletion, FreeOf
    <2> QED BY <2>1, <2>2
<1>4. U \subseteq UsedOf(S) /\ Cardinality(U) = m
    BY <1>1, <1>2, FirstCount
<1>5. F \subseteq FreeOf(S) /\ Cardinality(F) = n - m
    <2>1. CASE n > f
        <3>1. F = FreeOf(S)
            BY <1>1, <1>2, <2>1, FirstAll
        <3> QED BY <1>1, <2>1, <3>1
    <2>2. CASE ~(n > f)
        <3>1. n <= Cardinality(FreeOf(S))
            BY <1>1, <2>2
        <3>2. F \subseteq FreeOf(S) /\ Cardinality(F) = n
            BY <1>2, <3>1, FirstCount
        <3> QED BY <2>2, <3>2
    <2> QED BY <2>1, <2>2
<1>6. UsedOf(F \cup U) = U /\ FreeOf(F \cup U) = F
    BY <1>4, <1>5 DEF UsedOf, FreeOf
<1>7. F \cup U \subseteq S /\ IsFiniteSet(F \cup U)
    BY <1>2, <1>4, <1>5, FS_Subset
<1>8. Cardinality(F \cup U) = Cardinality(U) + Cardinality(F)
    BY <1>6, <1>7, UsedAndFree
<1> HIDE DEF F, U, m, f
<1>9. Cardinality(F \cup U) = n
    BY <1>1, <1>4, <1>5, <1>8
<1> QED BY <1>3, <1>4, <1>6, <1>7, <1>9 DEF m, f
-----------------------------------------------------------------------------
(***************************************************************************)
(* What the plan does about one profile of one GPU                         *)
(***************************************************************************)
\* The devices that are deleted because the spec mentions fewer of them, or none.
Dropped(S, q, k) ==
    IF q[k] = 0 THEN OfKey(S, k)
    ELSE IF Counts(S)[k] > q[k] THEN extractCandidatesForDeletion(OfKey(S, k), Counts(S)[k] - q[k])
    ELSE {}

\* Of a profile with more devices than the spec mentions the difference is deleted, with
\* used devices among them only if there are more of those than the spec mentions.
LEMMA DroppedCount ==
    ASSUME NEW S, IsFiniteSet(S), \A d \in S : d.id \in Nat, DistinctIds(S),
           NEW q \in [Keys -> Nat], NEW k \in Keys
    PROVE  LET c == Counts(S)[k]
               u == Cardinality(UsedOf(OfKey(S, k)))
           IN  /\ Dropped(S, q, k) \subseteq OfKey(S, k)
               /\ Cardinality(Dropped(S, q, k)) = IF c > q[k] THEN c - q[k] ELSE 0
               /\ Cardinality(UsedOf(Dropped(S, q, k))) = IF u > q[k] THEN u - q[k] ELSE 0
<1> DEFINE R == OfKey(S, k)
           c == Counts(S)[k]
           u == Cardinality(UsedOf(OfKey(S, k)))
<1>1. R \subseteq S /\ IsFiniteSet(R) /\ DistinctIds(R) /\ (\A d \in R : d.id \in Nat)
    <2>1. R \subseteq S
        BY DEF OfKey
    <2> QED BY <2>1, FS_Subset DEF DistinctIds
<1>2. c = Cardinality(R) /\ c \in Nat /\ q[k] \in Nat
    BY CountsOf DEF Counts
<1>3. /\ u \in Nat /\ Cardinality(FreeOf(R)) \in Nat
      /\ c = u + Cardinality(FreeOf(R))
    BY <1>1, <1>2, UsedAndFree
<1>4. CASE q[k] = 0
    <2>1. Dropped(S, q, k) = R
        BY <1>4 DEF Dropped
    <2>2. /\ c = IF c > q[k] THEN c - q[k] ELSE 0
          /\ u = IF u > q[k] THEN u - q[k] ELSE 0
        <3> HIDE DEF c, u
        <3> QED BY <1>2, <1>3, <1>4
    <2> QED BY <1>2, <2>1, <2>2
<1>5. CASE q[k] # 0 /\ c > q[k]
    <2> DEFINE n == c - q[k]
    <2>1. Dropped(S, q, k) = extractCandidatesForDeletion(R, n)
        BY <1>5 DEF Dropped
    <2>2. n \in Nat /\ n <= Cardinality(R)
        BY <1>2, <1>5
    <2> HIDE DEF n, R
    <2>3. /\ extractCandidatesForDeletion(R, n) \subseteq R
          /\ Cardinality(extractCandidatesForDeletion(R, n)) = n
          /\ Cardinality(UsedOf(extractCandidatesForDeletion(R, n))) =
                IF n > Cardinality(FreeOf(R)) THEN n - Cardinality(FreeOf(R)) ELSE 0
        BY <1>1, <2>2, CandidatesCount
    <2>4. (IF n > Cardinality(FreeOf(R)) THEN n - Cardinality(FreeOf(R)) ELSE 0)
            = IF u > q[k] THEN u - q[k] ELSE 0
        <3> HIDE DEF c, u
        <3> QED BY <1>2, <1>3 DEF n
    <2> QED BY <1>5, <2>1, <2>3, <2>4 DEF n, R
<1>6. CASE q[k] # 0 /\ ~(c > q[k])
    <2>1. Dropped(S, q, k) = {} /\ UsedOf({}) = {}
        BY <1>6 DEF Dropped, UsedOf
    <2>2. ~(u > q[k])
        BY <1>2, <1>3, <1>6
    <2> QED BY <1>6, <2>1, <2>2, FS_EmptySet
<1> QED BY <1>4, <1>5, <1>6

\* Those are the devices of the profile in the first two kinds of delete operation.
LEMMA DroppedOfKey ==
    ASSUME NEW S, NEW q \in [Keys -> Nat], NEW k \in Keys
    PROVE  OfKey(UNION (DeleteNotInSpec(S, q) \cup DeleteExcess(S, q)), k) = Dropped(S, q, k)
<1> DEFINE O == UNION (DeleteNotInSpec(S, q) \cup DeleteExcess(S, q))
           X(j) == extractCandidatesForDeletion(OfKey(S, j), Counts(S)[j] - q[j])
<1>1. \A j \in Keys : X(j) \subseteq OfKey(S, j)
    BY DEF extractCandidatesForDeletion, First
<1>2. OfKey(getResourcesNotIncludedInSpec(S, q), k) = IF q[k] = 0 THEN OfKey(S, k) ELSE {}
    BY DEF OfKey, getResourcesNotIncludedInSpec
<1>3. ASSUME NEW d \in OfKey(O, k)
      PROVE  d \in Dropped(S, q, k)
    <2>1. Key(d) = k /\ d \in O
        BY DEF OfKey
    <2>2. CASE d \in UNION DeleteNotInSpec(S, q)
        <3>1. PICK j \in Keys : d \in OfKey(getResourcesNotIncludedInSpec(S, q), j)
            BY <2>2 DEF DeleteNotInSpec
        <3>2. j = k
            BY <2>1, <3>1 DEF OfKey
        <3> QED BY <1>2, <3>1, <3>2 DEF Dropped
    <2>3. CASE d \in UNION DeleteExcess(S, q)
        <3>1. PICK j \in Keys : q[j] > 0 /\ Counts(S)[j] > q[j] /\ d \in X(j)
            BY <2>3 DEF DeleteExcess
        <3>2. j = k
            BY <1>1, <2>1, <3>1 DEF OfKey
        <3>3. q[k] # 0
            BY <3>1, <3>2
        <3> QED BY <3>1, <3>2, <3>3 DEF Dropped
    <2> QED BY <2>1, <2>2, <2>3
<1>4. ASSUME NEW d \in Dropped(S, q, k)
      PROVE  d \in OfKey(O, k)
    <2>1. CASE q[k] = 0
        <3>1. d \in OfKey(getResourcesNotIncludedInSpec(S, q), k) /\ Key(d) = k
            BY <1>2, <1>4, <2>1 DEF Dropped, OfKey
        <3>2. OfKey(getResourcesNotIncludedInSpec(S, q), k) \in DeleteNotInSpec(S, q)
            BY <3>1 DEF DeleteNotInSpec
        <3> QED BY <3>1, <3>2 DEF OfKey
    <2>2. CASE q[k] # 0
        <3>1. Counts(S)[k] > q[k] /\ d \in X(k) /\ q[k] > 0
            BY <1>4, <2>2 DEF Dropped
        <3>2. X(k) \in DeleteExcess(S, q)
            BY <3>1 DEF DeleteExcess
        <3>3. Key(d) = k
            BY <1>1, <3>1 DEF OfKey
        <3> QED BY <3>1, <3>2, <3>3 DEF OfKey
    <2> QED BY <2>1, <2>2
<1> QED BY <1>3, <1>4

\* A plan deletes those and the ones it creates again, which are other ones and free.
LEMMA DeletedOfKey ==
    ASSUME NEW S, NEW q \in [Keys -> Nat], NEW k \in Keys
    PROVE  LET del == OfKey(ToDelete(NewMigConfigPlan(S, q)), k)
               rec == OfKey(Recreated(S, q), k)
           IN  /\ del = Dropped(S, q, k) \cup rec
               /\ Dropped(S, q, k) \cap rec = {}
               /\ rec \subseteq FreeOf(OfKey(S, k))
<1> DEFINE O == UNION (DeleteNotInSpec(S, q) \cup DeleteExcess(S, q))
<1>1. ToDelete(NewMigConfigPlan(S, q)) = O \cup Recreated(S, q)
    BY DEF ToDelete, NewMigConfigPlan, Recreated, DeleteForRecreate
<1>2. \A d \in Recreated(S, q) : d \in S /\ ~d.used /\ d \notin O
    BY DEF Recreated, extractResourcesToRecreate
<1>3. OfKey(O, k) = Dropped(S, q, k)
    BY DroppedOfKey
<1> HIDE DEF O
<1>4. OfKey(O \cup Recreated(S, q), k) = OfKey(O, k) \cup OfKey(Recreated(S, q), k)
    BY DEF OfKey
<1>5. OfKey(O, k) \cap OfKey(Recreated(S, q), k) = {}
    BY <1>2 DEF OfKey
<1>6. OfKey(Recreated(S, q), k) \subseteq FreeOf(OfKey(S, k))
    BY <1>2 DEF OfKey, FreeOf
<1> QED BY <1>1, <1>3, <1>4, <1>5, <1>6

\* What the planner is given, as the lemmas need it.
LEMMA PlanFacts ==
    ASSUME PlanInv, plan # <<>>
    PROVE  /\ plan[1] = NewMigConfigPlan(state, spec)
           /\ IsFiniteSet(state) /\ DistinctIds(state)
           /\ \A d \in state : d.id \in Nat
           /\ spec \in [Keys -> Nat]
<1>1. \A d \in state : d.id \in Nat
    <2>1. \A d \in state : d.id \in Ids
        BY DEF PlanInv, Device
    <2> QED BY <2>1, PlannerAssumption
<1> QED BY <1>1 DEF PlanInv

\* Carried out, a plan gives every profile of every GPU the quantity of the spec.
LEMMA ReachesSpec ==
    ASSUME PlanInv, plan # <<>>, NEW k \in Keys
    PROVE  /\ Counts(Remaining(plan[1]))[k] \in Nat /\ ToCreate(plan[1])[k] \in Nat
           /\ Counts(Remaining(plan[1]))[k] + ToCreate(plan[1])[k] = spec[k]
<1> DEFINE S == OfKey(state, k)
           drop == Dropped(state, spec, k)
           rec == OfKey(Recreated(state, spec), k)
           del == OfKey(ToDelete(plan[1]), k)
           c == Cardinality(S)
<1>0. PlanInv /\ plan[1] = NewMigConfigPlan(state, spec) /\ IsFiniteSet(state) /\ spec[k] \in Nat
    BY PlanFacts
<1>1. IsFiniteSet(S) /\ c \in Nat /\ Counts(state)[k] = c
    BY <1>0, FS_Subset, CountsOf DEF OfKey, Counts
<1>2. del = drop \cup rec /\ drop \cap rec = {} /\ rec \subseteq S
    BY <1>0, PlanFacts, DeletedOfKey DEF FreeOf
<1>3. drop \subseteq S /\ Cardinality(drop) = IF c > spec[k] THEN c - spec[k] ELSE 0
    BY <1>1, PlanFacts, DroppedCount
<1>4. IsFiniteSet(drop) /\ IsFiniteSet(rec) /\ Cardinality(rec) \in Nat
    BY <1>1, <1>2, <1>3, FS_Subset, FS_CardinalityType
<1>5. Cardinality(del) = Cardinality(drop) + Cardinality(rec)
    <2> HIDE DEF drop, rec, del
    <2>1. Cardinality(drop \cup rec) = Cardinality(drop) + Cardinality(rec) - Cardinality(drop \cap rec)
        BY <1>4, FS_Union
    <2>2. Cardinality(drop \cap rec) = 0
        BY <1>2, FS_EmptySet
    <2>3. Cardinality(drop) \in Nat
        BY <1>4, FS_CardinalityType
    <2> QED BY <1>2, <1>4, <2>1, <2>2, <2>3
<1>6. Counts(Remaining(plan[1]))[k] = c - Cardinality(del)
    <2>1. OfKey(Remaining(plan[1]), k) = S \ del
        BY DEF OfKey, Remaining
    <2>2. S \cap del = del
        BY <1>2, <1>3
    <2>3. Cardinality(S \ del) = Cardinality(S) - Cardinality(S \cap del)
        BY <1>1, FS_Difference
    <2> QED BY <2>1, <2>2, <2>3 DEF Counts
<1>7. ToCreate(plan[1])[k] = (IF spec[k] > c THEN spec[k] - c ELSE 0) + Cardinality(rec)
    BY <1>0, <1>1 DEF ToCreate, NewMigConfigPlan, CreateMissing, Counts
<1>8. IsFiniteSet(Remaining(plan[1]))
    BY <1>0, FS_Subset DEF Remaining
<1>9. Counts(Remaining(plan[1]))[k] \in Nat
    BY <1>8, CountsOf
<1> HIDE DEF c, rec, drop, del
<1> QED BY <1>0, <1>1, <1>3, <1>4, <1>5, <1>6, <1>7, <1>9

\* A plan whose every operation succeeds turns any devices into what any spec says.
THEOREM PlanReachesSpecCorrect == Spec => []PlanReachesSpec
<1>1. PlanInv => PlanReachesSpec
    BY ReachesSpec DEF PlanReachesSpec, Planned, Reaches
<1> QED BY <1>1, PlanInvCorrect, PTL

\* A plan deletes used devices only where the spec leaves less than there are used ones,
\* and then as few as possible.
THEOREM UsedOnlyIfForcedCorrect == Spec => []UsedOnlyIfForced
<1>1. PlanInv => UsedOnlyIfForced
    <2> SUFFICES ASSUME PlanInv, plan # <<>>, NEW k \in Keys
                 PROVE  LET used    == {d \in OfKey(state, k) : d.used}
                            deleted == used \cap ToDelete(plan[1])
                        IN  Cardinality(used) <= spec[k] + Cardinality(deleted)
                              /\ (deleted # {} => Cardinality(used) = spec[k] + Cardinality(deleted))
        BY DEF UsedOnlyIfForced, Planned, Sparing
    <2> DEFINE used == UsedOf(OfKey(state, k))
               drop == UsedOf(Dropped(state, spec, k))
    <2>1. plan[1] = NewMigConfigPlan(state, spec) /\ spec[k] \in Nat
        BY PlanFacts
    <2>2. /\ Dropped(state, spec, k) \subseteq OfKey(state, k)
          /\ Cardinality(drop) =
                IF Cardinality(used) > spec[k] THEN Cardinality(used) - spec[k] ELSE 0
        BY PlanFacts, DroppedCount
    <2>3. used \cap ToDelete(plan[1]) = drop
        <3>1. LET rec == OfKey(Recreated(state, spec), k)
              IN  /\ OfKey(ToDelete(plan[1]), k) = Dropped(state, spec, k) \cup rec
                  /\ rec \subseteq FreeOf(OfKey(state, k))
            BY <2>1, PlanFacts, DeletedOfKey
        <3>2. used \cap ToDelete(plan[1]) = used \cap OfKey(ToDelete(plan[1]), k)
            BY DEF UsedOf, OfKey
        <3>3. used \cap FreeOf(OfKey(state, k)) = {}
            BY DEF UsedOf, FreeOf
        <3>4. used \cap Dropped(state, spec, k) = drop
            BY <2>2 DEF UsedOf
        <3> QED BY <3>1, <3>2, <3>3, <3>4
    <2>4. IsFiniteSet(OfKey(state, k))
        BY PlanFacts, FS_Subset DEF OfKey
    <2>5. Cardinality(used) \in Nat /\ IsFiniteSet(drop)
        <3>1. drop \subseteq used
            BY <2>2 DEF UsedOf
        <3> QED BY <2>4, <3>1, UsedAndFree, FS_Subset
    <2>6. drop # {} => Cardinality(drop) # 0
        BY <2>5, FS_EmptySet
    <2>7. {d \in OfKey(state, k) : d.used} = used
        BY DEF UsedOf
    <2> HIDE DEF used, drop
    <2>8. /\ Cardinality(used) <= spec[k] + Cardinality(drop)
          /\ drop # {} => Cardinality(used) = spec[k] + Cardinality(drop)
        BY <2>1, <2>2, <2>5, <2>6
    <2> QED BY <2>3, <2>7, <2>8
<1> QED BY <1>1, PlanInvCorrect, PTL

\* The plan is empty exactly if the quantities are those of the spec.
THEOREM EmptyIffMatchesCorrect == Spec => []EmptyIffMatches
<1>1. PlanInv => EmptyIffMatches
    <2> SUFFICES ASSUME PlanInv, plan # <<>>
                 PROVE  IsEmpty(plan[1]) <=> Matches(state, spec)
        BY DEF EmptyIffMatches, Planned, Exact
    <2>1. plan[1] = NewMigConfigPlan(state, spec) /\ spec \in [Keys -> Nat] /\ IsFiniteSet(state)
        BY PlanFacts
    <2>2. ASSUME IsEmpty(plan[1])
          PROVE  Counts(state) = spec
        <3>1. Remaining(plan[1]) = state
            BY <2>2 DEF IsEmpty, EmptyPlan, Remaining, ToDelete
        <3>2. ASSUME NEW k \in Keys
              PROVE  Counts(state)[k] = spec[k]
            <4>1. ToCreate(plan[1])[k] = 0
                BY <2>2 DEF IsEmpty, EmptyPlan, ToCreate, NoProfiles
            <4> QED BY <3>1, <4>1, ReachesSpec
        <3> QED BY <2>1, <3>2 DEF Counts
    <2>3. ASSUME Counts(state) = spec
          PROVE  plan[1] = EmptyPlan
        <3>1. CreateMissing(state, spec) = NoProfiles
            <4>1. \A k \in Keys : ~(spec[k] > Counts(state)[k])
                BY <2>1, <2>3
            <4> QED BY <4>1 DEF CreateMissing, NoProfiles
        <3>2. GpusWithCreateOp(state, spec) = {}
            <4>1. \A g \in GPUs, p \in Profiles : ~(CreateMissing(state, spec)[<<g, p>>] > 0)
                BY <3>1 DEF NoProfiles, Keys
            <4> QED BY <4>1, Zenon DEF GpusWithCreateOp
        <3>3. DeleteForRecreate(state, spec) = {} /\ Recreated(state, spec) = {}
            BY <3>2 DEF DeleteForRecreate, Recreated
        <3>4. Counts({}) = NoProfiles
            <4>1. \A k \in Keys : OfKey({}, k) = {}
                BY DEF OfKey
            <4> QED BY <4>1, FS_EmptySet DEF Counts, NoProfiles
        <3>5. DeleteNotInSpec(state, spec) = {}
            <4>1. \A k \in Keys : spec[k] = 0 => OfKey(state, k) = {}
                BY <2>1, <2>3, CountsOf
            <4>2. \A D \in DeleteNotInSpec(state, spec) : D = {}
                BY <4>1, InSpecOrNot
            <4> QED BY <4>2 DEF DeleteNotInSpec
        <3>6. DeleteExcess(state, spec) = {}
            <4>1. \A k \in Keys : ~(Counts(state)[k] > spec[k])
                BY <2>1, <2>3
            <4> QED BY <4>1, InSpecOrNot
        <3> QED BY <2>1, <3>1, <3>3, <3>4, <3>5, <3>6 DEF NewMigConfigPlan, EmptyPlan
    <2> QED BY <2>2, <2>3 DEF IsEmpty, Matches
<1> QED BY <1>1, PlanInvCorrect, PTL
=============================================================================
