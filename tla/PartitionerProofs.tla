-------------------------- MODULE PartitionerProofs --------------------------
(***************************************************************************)
(* Theorems about the GPU partitioner: MigNode, which decides on the       *)
(* partitioning of one node, and GpuPartitioner, its two controllers.      *)
(* They hold for any GPU model, any nodes and any Pods.                    *)
(***************************************************************************)
EXTENDS MigNode, GpuPartitioner, SumTheorems

-----------------------------------------------------------------------------
(***************************************************************************)
(* Geometries                                                              *)
(***************************************************************************)
\* What the proofs use of a GPU.
Counted(g) == g.used \in Quantities /\ g.free \in Quantities

LEMMA GeometryType ==
    ASSUME NEW g, Counted(g)
    PROVE  /\ GetGeometry(g) \in Quantities
           /\ \A p \in MigProfiles : /\ g.used[p] \in Nat /\ g.free[p] \in Nat
                                     /\ GetGeometry(g)[p] = g.used[p] + g.free[p]
<1>1. \A p \in MigProfiles : g.used[p] \in Nat /\ g.free[p] \in Nat
    BY DEF Counted, Quantities
<1>2. GetGeometry(g) = [p \in MigProfiles |-> g.used[p] + g.free[p]]
    BY DEF GetGeometry
<1>3. \A p \in MigProfiles : g.used[p] + g.free[p] \in Nat
    BY <1>1
<1> QED BY <1>1, <1>2, <1>3 DEF Quantities

LEMMA AllowedType == \A i \in DOMAIN Allowed : Allowed[i] \in Quantities
BY GeometryAssumption DEF Quantities

LEMMA IdleIff ==
    ASSUME NEW g, Counted(g)
    PROVE  isIdle(g) <=> \A p \in MigProfiles : g.used[p] + g.free[p] = 0
<1>1. GetGeometry(g) = [p \in MigProfiles |-> g.used[p] + g.free[p]]
    BY DEF GetGeometry
<1> QED BY <1>1 DEF isIdle, NoDevices

\* A geometry that keeps the used devices is what the GPU has once it is applied.
LEMMA Applied ==
    ASSUME NEW g \in GPU, NEW geometry \in Quantities,
           \A p \in MigProfiles : geometry[p] >= g.used[p]
    PROVE  LET h == ApplyGeometry(g, geometry)
           IN  /\ h \in GPU /\ h.index = g.index /\ h.used = g.used
               /\ GetGeometry(h) = geometry
               /\ \A p \in MigProfiles : h.free[p] = geometry[p] - g.used[p]
<1> DEFINE f == [p \in MigProfiles |-> IF geometry[p] > 0 THEN geometry[p] - g.used[p] ELSE 0]
           h == ApplyGeometry(g, geometry)
<1>1. \A p \in MigProfiles : geometry[p] \in Nat /\ g.used[p] \in Nat
    BY DEF Quantities, GPU
<1>2. \A p \in MigProfiles : f[p] = geometry[p] - g.used[p] /\ f[p] \in Nat
    BY <1>1
<1>3. f \in Quantities
    <2>1. f = [p \in MigProfiles |-> f[p]]
        OBVIOUS
    <2> HIDE DEF f
    <2> QED BY <1>2, <2>1 DEF Quantities
<1>4. h = [g EXCEPT !.free = f]
    BY DEF ApplyGeometry
<1> HIDE DEF f, h
<1>5. h \in GPU /\ h.index = g.index /\ h.used = g.used /\ h.free = f
    BY <1>3, <1>4 DEF GPU
<1>6. GetGeometry(h) = geometry
    <2>1. GetGeometry(h) = [p \in MigProfiles |-> g.used[p] + f[p]]
        BY <1>5 DEF GetGeometry
    <2>2. \A p \in MigProfiles : g.used[p] + f[p] = geometry[p]
        BY <1>1, <1>2
    <2>3. geometry = [p \in MigProfiles |-> geometry[p]]
        BY DEF Quantities
    <2> QED BY <2>1, <2>2, <2>3
<1> QED BY <1>2, <1>5, <1>6 DEF h

\* What a geometry would provide: a number below what is required, and more than none
\* if it has more of a profile of which too few are free.
LEMMA ProvidedNumber ==
    ASSUME NEW g, Counted(g), NEW geometry \in Quantities, NEW req \in Quantities
    PROVE  /\ Provided(g, geometry, req) \in 0..SumFunctionOnSet(req, MigProfiles)
           /\ SumFunctionOnSet(req, MigProfiles) \in Nat
           /\ Provided(g, geometry, req) > 0 <=>
                \E p \in MigProfiles : req[p] > g.free[p] /\ geometry[p] > g.used[p] + g.free[p]
<1> DEFINE has(p) == req[p] > g.free[p] /\ geometry[p] > GetGeometry(g)[p]
           F == [p \in MigProfiles |->
                    IF req[p] > g.free[p] /\ geometry[p] > GetGeometry(g)[p]
                    THEN Lower(geometry[p] - GetGeometry(g)[p], req[p] - g.free[p])
                    ELSE 0]
<1>1. IsFiniteSet(MigProfiles)
    BY GeometryAssumption
<1>2. \A p \in MigProfiles : /\ geometry[p] \in Nat /\ req[p] \in Nat /\ g.free[p] \in Nat
                              /\ GetGeometry(g)[p] \in Nat
                              /\ GetGeometry(g)[p] = g.used[p] + g.free[p]
    BY GeometryType DEF Quantities
<1>3. \A p \in MigProfiles : F[p] \in Nat /\ F[p] <= req[p] /\ (F[p] > 0 <=> has(p))
    BY <1>2 DEF Lower
<1>4. Provided(g, geometry, req) = SumFunctionOnSet(F, MigProfiles)
    <2>1. Provided(g, geometry, req) = SumFunction(F)
        BY DEF Provided
    <2>2. DOMAIN F = MigProfiles
        OBVIOUS
    <2> HIDE DEF F
    <2> QED BY <2>1, <2>2 DEF SumFunction
<1> HIDE DEF F
<1>5. Numbers(F, MigProfiles) /\ Numbers(req, MigProfiles)
    BY <1>2, <1>3 DEF Numbers
<1>6. SumFunctionOnSet(F, MigProfiles) \in Nat /\ SumFunctionOnSet(req, MigProfiles) \in Nat
    BY <1>1, <1>5, SumProperties
<1>7. SumFunctionOnSet(F, MigProfiles) <= SumFunctionOnSet(req, MigProfiles)
    BY <1>1, <1>3, <1>5, SumMonotone
<1>8. SumFunctionOnSet(F, MigProfiles) > 0 <=> \E p \in MigProfiles : F[p] > 0
    BY <1>1, <1>5, SumPositive
<1>9. (\E p \in MigProfiles : F[p] > 0) <=>
         \E p \in MigProfiles : req[p] > g.free[p] /\ geometry[p] > g.used[p] + g.free[p]
    BY <1>2, <1>3
<1> QED BY <1>4, <1>6, <1>7, <1>8, <1>9

\* If there are candidates, one of them is the first of the best.
LEMMA BestIsCandidate ==
    ASSUME NEW g, Counted(g), NEW req \in Quantities, CanUpdate(g, req)
    PROVE  Best(g, req) \in Candidates(g, req)
<1> DEFINE C == Candidates(g, req)
           V(i) == Provided(g, Allowed[i], req)
           T == {V(i) : i \in C}
           bound == SumFunctionOnSet(req, MigProfiles)
<1>1. C # {} /\ C \subseteq DOMAIN Allowed
    BY DEF CanUpdate, Candidates
<1>2. DOMAIN Allowed \subseteq Nat
    BY GeometryAssumption
<1>3. \A i \in C : V(i) \in 0..bound
    BY <1>1, AllowedType, ProvidedNumber
<1>4. bound \in Nat
    BY <1>1, AllowedType, ProvidedNumber
<1> HIDE DEF bound, C
<1>5. T \subseteq 0..bound /\ T # {}
    BY <1>1, <1>3
<1>6. PICK best \in T : \A v \in T : best >= v
    <2> HIDE DEF T
    <2> QED BY <1>4, <1>5, GreatestNumber
<1> DEFINE D == {i \in C : V(i) = best}
<1>7. D \in SUBSET Nat /\ D # {}
    BY <1>1, <1>2, <1>6
<1>8. PICK i \in D : \A j \in D : i <= j
    <2> HIDE DEF D
    <2> QED BY <1>7, LeastNumber
<1>9. \A j \in C : V(i) > V(j) \/ (V(i) = V(j) /\ i <= j)
    <2> TAKE j \in C
    <2>1. V(i) = best /\ V(j) <= best /\ best \in Nat /\ V(j) \in Nat
        BY <1>3, <1>4, <1>5, <1>6, <1>8
    <2>2. CASE V(j) = best
        BY <1>8, <2>1, <2>2
    <2>3. CASE V(j) # best
        <3> HIDE DEF V
        <3> QED BY <2>1, <2>3
    <2> QED BY <2>2, <2>3
<1>10. \E k \in Candidates(g, req) : \A j \in Candidates(g, req) :
          LET pi == Provided(g, Allowed[k], req)
              pj == Provided(g, Allowed[j], req)
          IN  pi > pj \/ (pi = pj /\ k <= j)
    BY <1>8, <1>9 DEF C
<1> QED BY <1>10 DEF Best

\* GPU.UpdateGeometryFor applies an allowed geometry that has more of a required profile,
\* or leaves the GPU as it is.
LEMMA GpuUpdated ==
    ASSUME NEW g \in GPU, NEW req \in Quantities
    PROVE  LET h == UpdateGeometryFor(g, req)
           IN  /\ h \in GPU /\ h.index = g.index /\ h.used = g.used
               /\ ~CanUpdate(g, req) => h = g
               /\ CanUpdate(g, req) =>
                    /\ AllowsGeometry(GetGeometry(h))
                    /\ \E p \in MigProfiles : req[p] > g.free[p] /\ h.free[p] > g.free[p]
<1>1. CASE ~CanUpdate(g, req)
    BY <1>1 DEF UpdateGeometryFor
<1>2. CASE CanUpdate(g, req)
    <2> DEFINE a == Allowed[Best(g, req)]
               h == ApplyGeometry(g, a)
    <2>1. Counted(g)
        BY DEF Counted, GPU
    <2>2. Best(g, req) \in Candidates(g, req)
        BY <1>2, <2>1, BestIsCandidate
    <2>3. /\ Best(g, req) \in DOMAIN Allowed /\ AllowsGeometry(a)
          /\ \A p \in MigProfiles : a[p] >= g.used[p]
          /\ Provided(g, a, req) > 0
        BY <2>2 DEF Candidates, CanApplyGeometry
    <2>4. a \in Quantities
        BY <2>3, AllowedType
    <2>5. UpdateGeometryFor(g, req) = h
        BY <1>2 DEF UpdateGeometryFor
    <2> HIDE DEF a
    <2>6. /\ h \in GPU /\ h.index = g.index /\ h.used = g.used /\ GetGeometry(h) = a
          /\ \A p \in MigProfiles : h.free[p] = a[p] - g.used[p]
        BY <2>3, <2>4, Applied
    <2>7. PICK p \in MigProfiles : req[p] > g.free[p] /\ a[p] > g.used[p] + g.free[p]
        BY <2>1, <2>3, <2>4, ProvidedNumber
    <2> HIDE DEF h
    <2>8. h.free[p] > g.free[p]
        <3>1. a[p] \in Nat /\ g.used[p] \in Nat /\ g.free[p] \in Nat
            BY <2>1, <2>4, GeometryType DEF Quantities
        <3> QED BY <2>6, <2>7, <3>1
    <2> QED BY <1>2, <2>3, <2>5, <2>6, <2>7, <2>8
<1> QED BY <1>1, <1>2

\* There is a candidate if some geometry is applicable and useful.
LEMMA CanUpdateIff ==
    ASSUME NEW g, Counted(g), NEW req \in Quantities
    PROVE  CanUpdate(g, req) <=>
             \E geometry \in Applicable(g) : \E p \in MigProfiles :
                req[p] > g.free[p] /\ geometry[p] > g.used[p] + g.free[p]
<1>1. \A i \in DOMAIN Allowed :
         Provided(g, Allowed[i], req) > 0 <=>
            \E p \in MigProfiles : req[p] > g.free[p] /\ Allowed[i][p] > g.used[p] + g.free[p]
    BY AllowedType, ProvidedNumber
<1>2. \A i \in DOMAIN Allowed :
         (/\ Allowed[i] \in Sensitive => isIdle(g)
          /\ CanApplyGeometry(g, Allowed[i])) <=> Allowed[i] \in Applicable(g)
    <2> TAKE i \in DOMAIN Allowed
    <2>1. CanApplyGeometry(g, Allowed[i]) <=> \A p \in MigProfiles : Allowed[i][p] >= g.used[p]
        BY DEF CanApplyGeometry, AllowsGeometry
    <2>2. (Allowed[i] \in Sensitive => isIdle(g)) <=>
            Allowed[i] \notin Sensitive \/ \A p \in MigProfiles : g.used[p] + g.free[p] = 0
        BY IdleIff
    <2> QED BY <2>1, <2>2, Zenon DEF Applicable
<1>3. Applicable(g) \subseteq {Allowed[i] : i \in DOMAIN Allowed}
    BY DEF Applicable
<1>4. CanUpdate(g, req) <=>
         \E i \in DOMAIN Allowed :
            /\ Allowed[i] \in Sensitive => isIdle(g)
            /\ CanApplyGeometry(g, Allowed[i])
            /\ Provided(g, Allowed[i], req) > 0
    BY DEF CanUpdate, Candidates
<1>5. CanUpdate(g, req) <=>
         \E i \in DOMAIN Allowed :
            Allowed[i] \in Applicable(g) /\ Provided(g, Allowed[i], req) > 0
    BY <1>2, <1>4, Zenon
<1> QED BY <1>1, <1>3, <1>5, Zenon

-----------------------------------------------------------------------------
(***************************************************************************)
(* NewNode                                                                 *)
(***************************************************************************)
Reports == [used : Quantities, free : Quantities]

LEMMA ReportableType == Reportable \subseteq Reports
<1> DEFINE Parts(geometry) == {f \in [MigProfiles -> 0..SumFunction(geometry)] :
                                  \A p \in MigProfiles : f[p] <= geometry[p]}
<1>1. ASSUME NEW geometry \in Quantities, NEW f \in Parts(geometry)
      PROVE  f \in Quantities
    <2>1. DOMAIN geometry = MigProfiles /\ Numbers(geometry, MigProfiles)
        BY DEF Quantities, Numbers
    <2>2. SumFunction(geometry) \in Nat
        BY <2>1, GeometryAssumption, SumProperties DEF SumFunction
    <2> QED BY <2>2 DEF Quantities
<1>2. ASSUME NEW f \in Quantities, NEW u \in Parts(f)
      PROVE  [used |-> u, free |-> [p \in MigProfiles |-> f[p] - u[p]]] \in Reports
    <2>1. u \in Quantities
        BY <1>1, <1>2
    <2>2. \A p \in MigProfiles : u[p] \in Nat /\ f[p] \in Nat /\ u[p] <= f[p]
        BY <2>1 DEF Quantities
    <2>3. \A p \in MigProfiles : f[p] - u[p] \in Nat
        BY <2>2
    <2>4. [p \in MigProfiles |-> f[p] - u[p]] \in Quantities
        BY <2>3 DEF Quantities
    <2> QED BY <2>1, <2>4 DEF Reports
<1>3. ASSUME NEW s \in Reportable
      PROVE  s \in Reports
    <2>1. PICK i \in DOMAIN Allowed : \E f \in Parts(Allowed[i]) : \E u \in Parts(f) :
             s = [used |-> u, free |-> [p \in MigProfiles |-> f[p] - u[p]]]
        BY <1>3 DEF Reportable
    <2>2. PICK f \in Parts(Allowed[i]) : \E u \in Parts(f) :
             s = [used |-> u, free |-> [p \in MigProfiles |-> f[p] - u[p]]]
        BY <2>1
    <2>3. Allowed[i] \in Quantities
        BY AllowedType
    <2>4. f \in Quantities
        BY <1>1, <2>3
    <2> HIDE DEF Parts
    <2> QED BY <1>2, <2>2, <2>4
<1> QED BY <1>3

\* Node.GPUs has GpuCount GPUs, of the right type.
LEMMA ExtractedType ==
    ASSUME NEW st \in [Indexes -> Reports], NEW gs \in extractGPUs(st)
    PROVE  /\ gs \in [1..GpuCount -> GPU]
           /\ \E order \in SetToSeqs(Annotated(st)) :
                /\ Len(order) = Cardinality(Annotated(st)) /\ Cardinality(Annotated(st)) \in Nat
                /\ \A k \in 1..GpuCount :
                     gs[k] = IF k <= Cardinality(Annotated(st))
                             THEN [index |-> order[k], used |-> st[order[k]].used,
                                   free |-> st[order[k]].free]
                             ELSE [index |-> k - 1, used |-> NoDevices, free |-> NoDevices]
<1>1. DOMAIN st = Indexes /\ IsFiniteSet(Indexes) /\ Cardinality(Indexes) = GpuCount /\ GpuCount \in Nat
    <2>1. GpuCount \in Nat
        BY GeometryAssumption
    <2>2. IsFiniteSet(0..(GpuCount - 1)) /\ Cardinality(0..(GpuCount - 1)) = GpuCount
        BY <2>1, FS_Interval
    <2> QED BY <2>1, <2>2 DEF Indexes
<1>2. PICK order \in SetToSeqs(Annotated(st)) :
         gs = [k \in 1..GpuCount |->
                 IF k <= Len(order)
                 THEN [index |-> order[k], used |-> st[order[k]].used, free |-> st[order[k]].free]
                 ELSE [index |-> k - 1, used |-> NoDevices, free |-> NoDevices]]
    BY <1>1 DEF extractGPUs
<1> DEFINE A == Annotated(st)
           n == Cardinality(A)
<1>3. A \subseteq Indexes /\ n \in Nat
    BY <1>1, FS_Subset, FS_CardinalityType DEF Annotated
<1> HIDE DEF n
<1>4. order \in [1..n -> A] /\ Len(order) = n
    <2>1. order \in [1..n -> A]
        BY DEF SetToSeqs, n
    <2> QED BY <1>3, <2>1
<1>5. ASSUME NEW k \in 1..GpuCount
      PROVE  gs[k] \in GPU
    <2>1. CASE k <= n
        <3>1. order[k] \in Indexes
            BY <1>3, <1>4, <2>1
        <3>2. st[order[k]].used \in Quantities /\ st[order[k]].free \in Quantities
            BY <3>1 DEF Reports
        <3> QED BY <1>2, <1>4, <2>1, <3>1, <3>2 DEF GPU
    <2>2. CASE ~(k <= n)
        <3>1. k - 1 \in Indexes
            BY <1>1 DEF Indexes
        <3>2. NoDevices \in Quantities
            BY DEF NoDevices, Quantities
        <3> QED BY <1>2, <1>4, <2>2, <3>1, <3>2 DEF GPU
    <2> QED BY <2>1, <2>2
<1>6. gs \in [1..GpuCount -> GPU]
    BY <1>2, <1>5
<1> QED BY <1>2, <1>3, <1>4, <1>6 DEF n

\* Without gaps, the GPUs with annotations are the first ones.
LEMMA FirstOnes ==
    ASSUME NEW st \in [Indexes -> Reports],
           \A i, j \in Indexes : i < j /\ HasDevices(st[j]) => HasDevices(st[i])
    PROVE  Annotated(st) = {i \in Indexes : i < Cardinality(Annotated(st))}
<1> DEFINE A == Annotated(st)
<1>1. A \subseteq Indexes /\ \A i \in Indexes : i \in A <=> HasDevices(st[i])
    BY DEF Annotated
<1>2. GpuCount \in Nat /\ Indexes = 0..(GpuCount - 1)
    BY GeometryAssumption DEF Indexes
<1>3. CASE A = {}
    <2>1. Cardinality(A) = 0
        BY <1>3, FS_EmptySet
    <2> HIDE DEF A
    <2>2. A = {i \in Indexes : i < Cardinality(A)}
        BY <1>2, <1>3, <2>1
    <2> QED BY <2>2 DEF A
<1>4. CASE A # {}
    <2>1. A \subseteq 0..GpuCount
        BY <1>1, <1>2
    <2> HIDE DEF A
    <2>2. PICK m \in A : \A k \in A : m >= k
        BY <1>2, <1>4, <2>1, GreatestNumber
    <2>3. m \in Nat /\ m \in Indexes
        BY <1>1, <1>2, <2>2
    <2>4. \A k \in A : k \in 0..m
        BY <1>1, <1>2, <2>2, <2>3
    <2>5. \A k \in 0..m : k \in A
        <3> TAKE k \in 0..m
        <3>1. k \in Indexes
            BY <1>2, <2>3
        <3>2. k = m \/ k < m
            BY <2>3
        <3>3. HasDevices(st[m])
            BY <1>1, <2>2
        <3> QED BY <1>1, <2>2, <2>3, <3>1, <3>2, <3>3
    <2>6. A = 0..m
        BY <2>4, <2>5
    <2>7. Cardinality(A) = m + 1
        BY <2>3, <2>6, FS_Interval
    <2>8. A = {i \in Indexes : i < Cardinality(A)}
        <3>1. \A i \in Indexes : i \in 0..m <=> i < m + 1
            BY <1>2, <2>3
        <3> QED BY <1>1, <2>6, <2>7, <3>1
    <2> QED BY <2>8 DEF A
<1> QED BY <1>3, <1>4

\* gs has every GPU of the node, and none twice.
OneEach(gs) ==
    /\ \A i \in Indexes : \E k \in 1..GpuCount : gs[k].index = i
    /\ \A k, l \in 1..GpuCount : gs[k].index = gs[l].index => k = l

LEMMA ExtractedOnce ==
    ASSUME NEW st \in [Indexes -> Reports], NEW gs \in extractGPUs(st),
           \A i, j \in Indexes : i < j /\ HasDevices(st[j]) => HasDevices(st[i])
    PROVE  /\ OneEach(gs)
           /\ \A k \in 1..GpuCount : /\ gs[k].used = st[gs[k].index].used
                                     /\ gs[k].free = st[gs[k].index].free
<1> DEFINE A == Annotated(st)
           n == Cardinality(A)
<1>1. PICK order \in SetToSeqs(A) :
        /\ Len(order) = n /\ n \in Nat
        /\ \A k \in 1..GpuCount :
             gs[k] = IF k <= n
                     THEN [index |-> order[k], used |-> st[order[k]].used, free |-> st[order[k]].free]
                     ELSE [index |-> k - 1, used |-> NoDevices, free |-> NoDevices]
    BY ExtractedType
<1>2. A = {i \in Indexes : i < n}
    BY FirstOnes
<1>3. order \in [1..n -> A] /\ \A i, j \in 1..n : i # j => order[i] # order[j]
    BY DEF SetToSeqs
<1>4. GpuCount \in Nat /\ Indexes = 0..(GpuCount - 1) /\ IsFiniteSet(A)
    <2>1. GpuCount \in Nat /\ Indexes = 0..(GpuCount - 1)
        BY GeometryAssumption DEF Indexes
    <2>2. IsFiniteSet(Indexes) /\ A \in SUBSET Indexes
        BY <2>1, FS_Interval DEF Annotated
    <2> QED BY <2>1, <2>2, FS_Subset
<1>5. \A i \in Indexes : i \notin A => st[i].used = NoDevices /\ st[i].free = NoDevices
    <2>1. \A i \in Indexes : i \notin A => st[i] = [used |-> NoDevices, free |-> NoDevices]
        BY DEF Annotated, HasDevices
    <2> QED BY <2>1
<1>6. \A i \in A : \E k \in 1..n : order[k] = i
    <2>1. order \in Injection(1..n, A)
        BY <1>3 DEF Injection, IsInjective
    <2>2. Cardinality(1..n) = n
        BY <1>1, FS_Interval
    <2>3. order \in Surjection(1..n, A)
        BY <1>4, <2>1, <2>2, FS_Injection DEF n
    <2> QED BY <2>3 DEF Surjection
<1> HIDE DEF n, A
<1>7. ASSUME NEW k \in 1..GpuCount, k <= n
      PROVE  /\ gs[k].index = order[k] /\ gs[k].index \in A
             /\ gs[k].used = st[order[k]].used /\ gs[k].free = st[order[k]].free
    <2>1. k \in 1..n
        BY <1>1, <1>4, <1>7
    <2>2. order[k] \in A
        BY <1>3, <2>1
    <2>3. gs[k] = [index |-> order[k], used |-> st[order[k]].used, free |-> st[order[k]].free]
        BY <1>1, <1>7
    <2> QED BY <2>2, <2>3
<1>8. ASSUME NEW k \in 1..GpuCount, ~(k <= n)
      PROVE  /\ gs[k].index = k - 1 /\ gs[k].index \in Indexes \ A
             /\ gs[k].used = st[k - 1].used /\ gs[k].free = st[k - 1].free
    <2>1. k - 1 \in Indexes /\ k - 1 \notin A
        BY <1>1, <1>2, <1>4, <1>8
    <2>2. gs[k] = [index |-> k - 1, used |-> NoDevices, free |-> NoDevices]
        BY <1>1, <1>8
    <2> QED BY <1>5, <2>1, <2>2
<1>9. \A i \in Indexes : \E k \in 1..GpuCount : gs[k].index = i
    <2> TAKE i \in Indexes
    <2>1. CASE i \in A
        <3>1. PICK k \in 1..n : order[k] = i
            BY <1>6, <2>1
        <3>2. n <= GpuCount
            <4>1. Cardinality(A) <= Cardinality(Indexes)
                <5>1. IsFiniteSet(Indexes) /\ A \in SUBSET Indexes
                    BY <1>2, <1>4, FS_Interval
                <5> QED BY <5>1, FS_Subset
            <4>2. Cardinality(Indexes) = GpuCount
                BY <1>4, FS_Interval
            <4> QED BY <4>1, <4>2 DEF n
        <3>3. k \in 1..GpuCount /\ k <= n
            BY <1>1, <1>4, <3>2
        <3> QED BY <1>7, <3>1, <3>3
    <2>2. CASE i \notin A
        <3>1. i + 1 \in 1..GpuCount /\ ~(i + 1 <= n) /\ (i + 1) - 1 = i
            BY <1>1, <1>2, <1>4, <2>2
        <3> QED BY <1>8, <3>1
    <2> QED BY <2>1, <2>2
<1>10. \A k, l \in 1..GpuCount : gs[k].index = gs[l].index => k = l
    <2> SUFFICES ASSUME NEW k \in 1..GpuCount, NEW l \in 1..GpuCount, gs[k].index = gs[l].index
                 PROVE  k = l
        OBVIOUS
    <2>1. CASE k <= n /\ l <= n
        <3>1. order[k] = order[l] /\ k \in 1..n /\ l \in 1..n
            BY <1>1, <1>4, <1>7, <2>1
        <3> QED BY <1>3, <3>1
    <2>2. CASE ~(k <= n) /\ ~(l <= n)
        BY <1>4, <1>8, <2>2
    <2>3. CASE k <= n /\ ~(l <= n)
        BY <1>7, <1>8, <2>3
    <2>4. CASE ~(k <= n) /\ l <= n
        BY <1>7, <1>8, <2>4
    <2> QED BY <2>1, <2>2, <2>3, <2>4
<1>11. \A k \in 1..GpuCount : gs[k].used = st[gs[k].index].used /\ gs[k].free = st[gs[k].index].free
    BY <1>7, <1>8
<1> QED BY <1>9, <1>10, <1>11 DEF OneEach

-----------------------------------------------------------------------------
(***************************************************************************)
(* The inductive invariant                                                 *)
(***************************************************************************)
\* A GPU keeps the devices that its status annotations call used, and its geometry is an
\* allowed one or still the one that they report.
Faithful(g) ==
    /\ g.used = reported[g.index].used
    /\ AllowsGeometry(GetGeometry(g)) \/ g.free = reported[g.index].free

\* No GPU without devices comes before one with devices.
NoGap == \A i, j \in Indexes : i < j /\ HasDevices(reported[j]) => HasDevices(reported[i])

\* ValidateConfigs asks for quantities of at least 1, but not for profiles.
NonEmptyGeometries == \A i \in DOMAIN Allowed : Allowed[i] # NoDevices

TypeInv ==
    /\ NodeTypeOK
    /\ stage # "new" => gpus \in [1..GpuCount -> GPU]
    /\ pos > 0 /\ (stage = "new" => pos = 1)
    /\ Indexes # {} => DOMAIN Allowed # {}

FaithfulInv ==
    /\ NoGap
    /\ stage # "new" => OneEach(gpus) /\ \A k \in 1..GpuCount : Faithful(gpus[k])

\* What InitNodePartitioning has visited has devices.
InitialInv ==
    /\ stage = "init" => \A k \in 1..GpuCount : k < pos => ~isIdle(gpus[k])
    /\ stage = "initialized" => \A k \in 1..GpuCount : ~isIdle(gpus[k])

Written == Decided => spec = BuildNodePartitioning(gpus, Indexes)

LEMMA StateFacts ==
    ASSUME TypeInv
    PROVE  /\ reported \in [Indexes -> Reports] /\ required \in Quantities /\ pos \in Nat
           /\ GpuCount \in Nat
           /\ stage # "new" => Len(gpus) = GpuCount /\ DOMAIN gpus = 1..GpuCount
                             /\ gpus \in [1..GpuCount -> GPU]
BY GeometryAssumption DEF TypeInv, NodeTypeOK, Reports

\* The annotations that are written are counts.
LEMMA BuiltType ==
    ASSUME NEW n \in Nat, NEW gs \in [1..n -> GPU]
    PROVE  BuildNodePartitioning(gs, Indexes) \in [Indexes -> Quantities]
<1> DEFINE ks(i, p) == {k \in DOMAIN gs : gs[k].index = i /\ GetGeometry(gs[k])[p] > 0}
           v(i, p) == IF ks(i, p) = {} THEN 0 ELSE GetGeometry(gs[Max(ks(i, p))])[p]
<1>1. ASSUME NEW i \in Indexes, NEW p \in MigProfiles
      PROVE  v(i, p) \in Nat
    <2> DEFINE K == ks(i, p)
    <2>1. CASE K = {}
        BY <2>1
    <2>2. CASE K # {}
        <3>1. K \subseteq 0..n /\ K \subseteq 1..n
            OBVIOUS
        <3> HIDE DEF K
        <3>2. \E m \in K : \A k \in K : m >= k
            BY <2>2, <3>1, GreatestNumber
        <3>3. Max(K) \in K
            BY <3>2 DEF Max
        <3>4. gs[Max(K)] \in GPU
            BY <3>1, <3>3
        <3>5. GetGeometry(gs[Max(K)])[p] \in Nat
            BY <3>4, GeometryType DEF Counted, GPU, Quantities
        <3> QED BY <2>2, <3>5 DEF K
    <2> QED BY <2>1, <2>2
<1>2. BuildNodePartitioning(gs, Indexes) = [i \in Indexes |-> [p \in MigProfiles |-> v(i, p)]]
    BY DEF BuildNodePartitioning
<1> HIDE DEF v
<1>3. \A i \in Indexes : [p \in MigProfiles |-> v(i, p)] \in Quantities
    BY <1>1 DEF Quantities
<1> QED BY <1>2, <1>3

\* If no two GPUs have the same index, those of a GPU are its geometry.
LEMMA BuiltGeometry ==
    ASSUME NEW gs \in [1..GpuCount -> GPU], OneEach(gs), NEW k \in 1..GpuCount
    PROVE  BuildNodePartitioning(gs, Indexes)[gs[k].index] = GetGeometry(gs[k])
<1> DEFINE i == gs[k].index
           ks(p) == {l \in DOMAIN gs : gs[l].index = i /\ GetGeometry(gs[l])[p] > 0}
           v(p) == IF ks(p) = {} THEN 0 ELSE GetGeometry(gs[Max(ks(p))])[p]
<1>1. GetGeometry(gs[k]) \in Quantities /\ i \in Indexes
    BY GeometryType DEF Counted, GPU
<1>2. ASSUME NEW p \in MigProfiles
      PROVE  v(p) = GetGeometry(gs[k])[p]
    <2> DEFINE K == ks(p)
    <2>1. GetGeometry(gs[k])[p] \in Nat
        BY <1>1 DEF Quantities
    <2>2. \A l \in K : l = k
        BY DEF OneEach
    <2>3. CASE GetGeometry(gs[k])[p] > 0
        <3>1. K = {k}
            BY <2>2, <2>3
        <3>2. k >= k
            BY GeometryAssumption
        <3>3. Max({k}) = k
            BY <3>2 DEF Max
        <3> HIDE DEF K
        <3> QED BY <3>1, <3>3 DEF K
    <2>4. CASE ~(GetGeometry(gs[k])[p] > 0)
        <3>1. K = {}
            BY SMTT(40), <2>2, <2>4
        <3> QED BY <2>1, <2>4, <3>1
    <2> QED BY <2>3, <2>4
<1>3. BuildNodePartitioning(gs, Indexes)[i] = [p \in MigProfiles |-> v(p)]
    BY <1>1 DEF BuildNodePartitioning
<1> HIDE DEF v, i
<1>4. GetGeometry(gs[k]) = [p \in MigProfiles |-> GetGeometry(gs[k])[p]]
    BY <1>1 DEF Quantities
<1>5. [p \in MigProfiles |-> v(p)] = [p \in MigProfiles |-> GetGeometry(gs[k])[p]]
    BY <1>2
<1> QED BY <1>3, <1>4, <1>5 DEF i

LEMMA FewestSlices ==
    ASSUME DOMAIN Allowed # {}
    PROVE  \E i \in DOMAIN Allowed : GetFewestSlicesGeometry = Allowed[i]
<1> DEFINE V(i) == NumSlices(Allowed[i])
           T == {V(i) : i \in DOMAIN Allowed}
<1>1. DOMAIN Allowed \subseteq Nat /\ DOMAIN Allowed # {}
    BY GeometryAssumption
<1>2. \A i \in DOMAIN Allowed : V(i) \in Nat
    <2> TAKE i \in DOMAIN Allowed
    <2>1. {p \in MigProfiles : Allowed[i][p] > 0} \in SUBSET MigProfiles
        OBVIOUS
    <2>2. IsFiniteSet({p \in MigProfiles : Allowed[i][p] > 0})
        BY <2>1, GeometryAssumption, FS_Subset
    <2> QED BY <2>2, FS_CardinalityType DEF NumSlices
<1>3. T \in SUBSET Nat /\ T # {}
    BY <1>1, <1>2
<1>4. PICK least \in T : \A v \in T : least <= v
    <2> HIDE DEF T
    <2> QED BY <1>3, LeastNumber
<1> DEFINE D == {i \in DOMAIN Allowed : V(i) = least}
<1>5. D \in SUBSET Nat /\ D # {}
    BY <1>1, <1>4
<1>6. PICK i \in D : \A j \in D : i <= j
    <2> HIDE DEF D
    <2> QED BY <1>5, LeastNumber
<1>7. \A j \in DOMAIN Allowed : V(i) < V(j) \/ (V(i) = V(j) /\ i <= j)
    <2> TAKE j \in DOMAIN Allowed
    <2>1. V(i) = least /\ least <= V(j) /\ least \in Nat /\ V(j) \in Nat
        BY <1>2, <1>3, <1>4, <1>6
    <2>2. CASE V(j) = least
        BY <1>6, <2>1, <2>2
    <2>3. CASE V(j) # least
        <3> HIDE DEF V
        <3> QED BY <2>1, <2>3
    <2> QED BY <2>2, <2>3
<1>8. \E k \in DOMAIN Allowed : \A j \in DOMAIN Allowed :
         \/ NumSlices(Allowed[k]) < NumSlices(Allowed[j])
         \/ (NumSlices(Allowed[k]) = NumSlices(Allowed[j]) /\ k <= j)
    BY <1>6, <1>7
<1> QED BY <1>8 DEF GetFewestSlicesGeometry

\* InitGeometry gives a GPU without devices an allowed geometry.
LEMMA GpuInitialized ==
    ASSUME NEW g \in GPU, isIdle(g), DOMAIN Allowed # {}
    PROVE  LET h == ApplyGeometry(g, GetFewestSlicesGeometry)
           IN  /\ h \in GPU /\ h.index = g.index /\ h.used = g.used
               /\ AllowsGeometry(GetGeometry(h))
               /\ NonEmptyGeometries => ~isIdle(h)
<1>1. PICK i \in DOMAIN Allowed : GetFewestSlicesGeometry = Allowed[i]
    BY FewestSlices
<1>2. Counted(g) /\ Allowed[i] \in Quantities
    BY AllowedType DEF Counted, GPU
<1>3. \A p \in MigProfiles : Allowed[i][p] >= g.used[p]
    <2>1. \A p \in MigProfiles : /\ Allowed[i][p] \in Nat /\ g.used[p] \in Nat /\ g.free[p] \in Nat
                                 /\ g.used[p] + g.free[p] = 0
        BY <1>2, GeometryType, IdleIff DEF Quantities
    <2> QED BY <2>1
<1> DEFINE h == ApplyGeometry(g, Allowed[i])
<1>4. h \in GPU /\ h.index = g.index /\ h.used = g.used /\ GetGeometry(h) = Allowed[i]
    BY <1>2, <1>3, Applied
<1> HIDE DEF h
<1>5. AllowsGeometry(GetGeometry(h)) /\ (NonEmptyGeometries => ~isIdle(h))
    BY <1>4 DEF AllowsGeometry, NonEmptyGeometries, isIdle
<1> QED BY <1>1, <1>4, <1>5 DEF h

-----------------------------------------------------------------------------
(***************************************************************************)
(* Every step keeps the invariants                                         *)
(***************************************************************************)
\* One GPU gets another geometry.
LEMMA OneChanged ==
    ASSUME TypeInv, stage # "new", pos \in 1..GpuCount, NEW h \in GPU,
           h.index = gpus[pos].index, gpus' = [gpus EXCEPT ![pos] = h]
    PROVE  /\ gpus' \in [1..GpuCount -> GPU] /\ gpus' \in Seq(GPU) /\ gpus'[pos] = h
           /\ \A k \in 1..GpuCount : k # pos => gpus'[k] = gpus[k]
           /\ OneEach(gpus) => OneEach(gpus')
<1>1. gpus \in [1..GpuCount -> GPU] /\ GpuCount \in Nat
    BY StateFacts
<1>2. /\ gpus' \in [1..GpuCount -> GPU] /\ gpus'[pos] = h
      /\ \A k \in 1..GpuCount : k # pos => gpus'[k] = gpus[k]
    BY <1>1
<1>3. gpus' \in Seq(GPU)
    BY <1>1, <1>2
<1>4. \A k \in 1..GpuCount : gpus'[k].index = gpus[k].index
    BY <1>2
<1>5. OneEach(gpus) => OneEach(gpus')
    BY <1>4 DEF OneEach
<1> QED BY <1>2, <1>3, <1>5

\* Its geometry is an allowed one, if it is another.
LEMMA FaithfulKept ==
    ASSUME TypeInv, FaithfulInv, stage # "new", pos \in 1..GpuCount, NEW h \in GPU,
           h.index = gpus[pos].index, h.used = gpus[pos].used,
           AllowsGeometry(GetGeometry(h)) \/ h = gpus[pos],
           gpus' = [gpus EXCEPT ![pos] = h], reported' = reported
    PROVE  FaithfulInv'
<1>1. /\ gpus'[pos] = h /\ \A k \in 1..GpuCount : k # pos => gpus'[k] = gpus[k]
      /\ OneEach(gpus) => OneEach(gpus')
    BY OneChanged
<1>2. NoGap'
    BY DEF FaithfulInv, NoGap
<1>3. \A k \in 1..GpuCount : Faithful(gpus[k])
    BY DEF FaithfulInv
<1>4. Faithful(h)'
    BY <1>3 DEF Faithful, AllowsGeometry
<1>5. \A k \in 1..GpuCount : Faithful(gpus[k])'
    BY <1>1, <1>3, <1>4 DEF Faithful, AllowsGeometry
<1>6. OneEach(gpus')
    BY <1>1 DEF FaithfulInv
<1> QED BY <1>2, <1>5, <1>6 DEF FaithfulInv, OneEach

\* Node.UpdateGeometryFor visits one GPU.
LEMMA Visited ==
    ASSUME TypeInv, UpdateGpu
    PROVE  LET h == UpdateGeometryFor(gpus[pos], required)
           IN  /\ gpus' = [gpus EXCEPT ![pos] = h] /\ required' = StillRequired(required, h)
               /\ updated' \in BOOLEAN /\ pos \in 1..GpuCount /\ gpus[pos] \in GPU
               /\ h \in GPU /\ required' \in Quantities
<1> DEFINE acc == [NotVisited(required) EXCEPT !.updated = updated]
           h == UpdateGeometryFor(gpus[pos], required)
           visit == VisitGpu(acc, gpus[pos])
<1>1. acc.gpus = <<>> /\ acc.required = required /\ acc.updated = updated
    BY DEF NotVisited
<1> HIDE DEF acc
<1>2. visit = [gpus |-> Append(<<>>, h), required |-> StillRequired(required, h),
               updated |-> updated \/ CanUpdate(gpus[pos], required)]
    BY <1>1 DEF VisitGpu
<1>3. /\ gpus' = [gpus EXCEPT ![pos] = visit.gpus[1]]
      /\ required' = visit.required /\ updated' = visit.updated
    BY DEF UpdateGpu, acc
<1>4. pos \in 1..GpuCount /\ gpus[pos] \in GPU /\ required \in Quantities
    <2>1. pos \in Nat /\ pos <= Len(gpus) /\ stage # "new" /\ pos # 0
        BY DEF UpdateGpu, TypeInv, NodeTypeOK
    <2> QED BY <2>1, StateFacts
<1>5. h \in GPU
    BY <1>4, GpuUpdated
<1> HIDE DEF h, visit
<1>6. Append(<<>>, h)[1] = h
    OBVIOUS
<1>7. /\ visit.gpus[1] = h /\ visit.required = StillRequired(required, h)
      /\ visit.updated = (updated \/ CanUpdate(gpus[pos], required))
    BY <1>2, <1>6
<1>8. StillRequired(required, h) \in Quantities
    <2>1. \A p \in MigProfiles : required[p] \in Nat /\ h.free[p] \in Nat
        BY <1>4, <1>5 DEF GPU, Quantities
    <2>2. \A p \in MigProfiles : (IF required[p] > h.free[p] THEN required[p] - h.free[p] ELSE 0) \in Nat
        BY <2>1
    <2> QED BY <2>2 DEF StillRequired, Quantities
<1>9. updated' \in BOOLEAN
    BY <1>3, <1>7
<1> QED BY <1>3, <1>4, <1>5, <1>7, <1>8, <1>9 DEF h

\* InitNodePartitioning visits one GPU.
LEMMA VisitedInit ==
    ASSUME TypeInv, InitGpu
    PROVE  LET h == IF isIdle(gpus[pos]) THEN ApplyGeometry(gpus[pos], GetFewestSlicesGeometry)
                    ELSE gpus[pos]
           IN  /\ gpus' = [gpus EXCEPT ![pos] = h]
               /\ updated' \in BOOLEAN /\ pos \in 1..GpuCount /\ gpus[pos] \in GPU
               /\ h \in GPU /\ h.index = gpus[pos].index /\ h.used = gpus[pos].used
               /\ AllowsGeometry(GetGeometry(h)) \/ h = gpus[pos]
               /\ NonEmptyGeometries => ~isIdle(h)
<1>1. pos \in 1..GpuCount /\ gpus[pos] \in GPU /\ gpus \in [1..GpuCount -> GPU] /\ DOMAIN Allowed # {}
    <2>1. pos \in Nat /\ pos <= Len(gpus) /\ stage # "new" /\ pos # 0
        BY DEF InitGpu, TypeInv, NodeTypeOK
    <2>2. pos \in 1..GpuCount /\ gpus \in [1..GpuCount -> GPU] /\ GpuCount \in Nat
        BY <2>1, StateFacts
    <2>3. pos - 1 \in Indexes
        BY <2>2 DEF Indexes
    <2> QED BY <2>2, <2>3 DEF TypeInv
<1>2. CASE isIdle(gpus[pos])
    BY <1>1, <1>2, GpuInitialized DEF InitGpu
<1>3. CASE ~isIdle(gpus[pos])
    <2>1. gpus' = gpus /\ updated' = updated
        BY <1>3 DEF InitGpu
    <2>2. gpus = [gpus EXCEPT ![pos] = gpus[pos]]
        BY <1>1
    <2>3. updated \in BOOLEAN
        BY DEF TypeInv, NodeTypeOK
    <2> QED BY <1>1, <1>3, <2>1, <2>2, <2>3
<1> QED BY <1>2, <1>3

LEMMA TypeInit == NodeInit => TypeInv
<1> SUFFICES ASSUME NodeInit PROVE TypeInv
    OBVIOUS
<1>1. reported \in [Indexes -> Reports]
    BY ReportableType DEF NodeInit
<1>2. required \in Quantities /\ asked \in Requests
    BY NodeAssumption DEF NodeInit, Quantities
<1>3. spec \in [Indexes -> Quantities]
    BY DEF NodeInit, Quantities, NoDevices
<1>4. Indexes # {} => DOMAIN Allowed # {}
    <2>1. \A i \in Indexes : reported[i] \in Reportable
        BY DEF NodeInit
    <2> QED BY <2>1 DEF Reportable
<1>5. gpus \in Seq(GPU)
    BY DEF NodeInit
<1>6. pos = 1 /\ updated = FALSE /\ stage = "new"
    BY DEF NodeInit
<1>7. NodeTypeOK
    BY <1>1, <1>2, <1>3, <1>5, <1>6 DEF NodeTypeOK, Reports
<1> QED BY <1>4, <1>6, <1>7 DEF TypeInv

LEMMA TypeStep == TypeInv /\ [NodeNext]_nodeVars => TypeInv'
<1> SUFFICES ASSUME TypeInv, [NodeNext]_nodeVars PROVE TypeInv'
    OBVIOUS
<1>1. CASE NewNode
    <2>1. gpus' \in [1..GpuCount -> GPU] /\ GpuCount \in Nat
        BY <1>1, StateFacts, ExtractedType DEF NewNode
    <2>2. gpus' \in Seq(GPU)
        BY <2>1
    <2> QED BY <1>1, <2>1, <2>2 DEF NewNode, TypeInv, NodeTypeOK
<1>2. CASE UpdateGpu
    <2> DEFINE h == UpdateGeometryFor(gpus[pos], required)
    <2>1. /\ gpus' = [gpus EXCEPT ![pos] = h] /\ updated' \in BOOLEAN /\ pos \in 1..GpuCount
          /\ h \in GPU /\ gpus[pos] \in GPU /\ required' \in Quantities /\ stage = "update"
        BY <1>2, Visited DEF UpdateGpu
    <2>2. h.index = gpus[pos].index
        BY <2>1, StateFacts, GpuUpdated
    <2> HIDE DEF h
    <2>3. gpus' \in [1..GpuCount -> GPU] /\ gpus' \in Seq(GPU)
        BY <2>1, <2>2, OneChanged
    <2>4. pos' \in Nat /\ pos' > 0
        BY <1>2, StateFacts DEF UpdateGpu, TypeInv
    <2> QED BY <1>2, <2>1, <2>3, <2>4 DEF UpdateGpu, TypeInv, NodeTypeOK
<1>3. CASE InitGpu
    <2>1. PICK h \in GPU :
             /\ gpus' = [gpus EXCEPT ![pos] = h] /\ h.index = gpus[pos].index
             /\ updated' \in BOOLEAN /\ pos \in 1..GpuCount
        BY <1>3, VisitedInit
    <2>2. gpus' \in [1..GpuCount -> GPU] /\ gpus' \in Seq(GPU)
        BY <1>3, <2>1, OneChanged DEF InitGpu
    <2>3. pos' \in Nat /\ pos' > 0
        BY <1>3, StateFacts DEF InitGpu, TypeInv
    <2> QED BY <1>3, <2>1, <2>2, <2>3 DEF InitGpu, TypeInv, NodeTypeOK
<1>4. CASE FinishUpdate \/ FinishInit
    <2>1. gpus \in [1..GpuCount -> GPU]
        BY <1>4, StateFacts DEF FinishUpdate, FinishInit
    <2>2. BuildNodePartitioning(gpus, Indexes) \in [Indexes -> Quantities]
        BY <2>1, GeometryAssumption, BuiltType
    <2>3. spec' \in [Indexes -> Quantities] /\ stage' \in {"written", "initialized", "refused"}
        BY <1>4, <2>2 DEF FinishUpdate, FinishInit, TypeInv, NodeTypeOK
    <2> QED BY <1>4, <2>1, <2>3 DEF FinishUpdate, FinishInit, TypeInv, NodeTypeOK
<1>5. CASE UNCHANGED nodeVars
    BY <1>5 DEF nodeVars, TypeInv, NodeTypeOK
<1> QED BY <1>1, <1>2, <1>3, <1>4, <1>5 DEF NodeNext

LEMMA FaithfulStep == TypeInv /\ FaithfulInv /\ [NodeNext]_nodeVars => FaithfulInv'
<1> SUFFICES ASSUME TypeInv, FaithfulInv, [NodeNext]_nodeVars PROVE FaithfulInv'
    OBVIOUS
<1>1. CASE NewNode
    <2>1. reported \in [Indexes -> Reports] /\ reported' = reported /\ gpus' \in extractGPUs(reported)
        BY <1>1, StateFacts DEF NewNode
    <2>2. /\ OneEach(gpus')
          /\ \A k \in 1..GpuCount : /\ gpus'[k].used = reported[gpus'[k].index].used
                                    /\ gpus'[k].free = reported[gpus'[k].index].free
        BY <2>1, ExtractedOnce DEF FaithfulInv, NoGap
    <2>3. \A k \in 1..GpuCount : Faithful(gpus[k])'
        BY <2>1, <2>2 DEF Faithful
    <2>4. OneEach(gpus)' /\ NoGap'
        BY <2>1, <2>2 DEF OneEach, FaithfulInv, NoGap
    <2> QED BY <2>3, <2>4 DEF FaithfulInv
<1>2. CASE UpdateGpu
    <2> DEFINE h == UpdateGeometryFor(gpus[pos], required)
    <2>1. /\ gpus' = [gpus EXCEPT ![pos] = h] /\ pos \in 1..GpuCount
          /\ h \in GPU /\ gpus[pos] \in GPU /\ stage = "update" /\ reported' = reported
        BY <1>2, Visited DEF UpdateGpu
    <2>2. /\ h.index = gpus[pos].index /\ h.used = gpus[pos].used
          /\ AllowsGeometry(GetGeometry(h)) \/ h = gpus[pos]
        BY <2>1, StateFacts, GpuUpdated
    <2> HIDE DEF h
    <2> QED BY <2>1, <2>2, FaithfulKept
<1>3. CASE InitGpu
    <2>1. PICK h \in GPU :
             /\ gpus' = [gpus EXCEPT ![pos] = h] /\ h.index = gpus[pos].index
             /\ h.used = gpus[pos].used /\ pos \in 1..GpuCount
             /\ AllowsGeometry(GetGeometry(h)) \/ h = gpus[pos]
        BY <1>3, VisitedInit
    <2> QED BY <1>3, <2>1, FaithfulKept DEF InitGpu
<1>4. CASE FinishUpdate \/ FinishInit \/ UNCHANGED nodeVars
    <2>1. gpus' = gpus /\ reported' = reported /\ (stage' # "new" => stage # "new")
        BY <1>4 DEF FinishUpdate, FinishInit, nodeVars
    <2>2. \A k \in 1..GpuCount : Faithful(gpus[k]) => Faithful(gpus[k])'
        BY <2>1 DEF Faithful, AllowsGeometry
    <2>3. OneEach(gpus) => OneEach(gpus)'
        BY <2>1 DEF OneEach
    <2> QED BY <2>1, <2>2, <2>3 DEF FaithfulInv, NoGap
<1> QED BY <1>1, <1>2, <1>3, <1>4 DEF NodeNext

LEMMA WrittenStep == TypeInv /\ Written /\ [NodeNext]_nodeVars => Written'
<1> SUFFICES ASSUME Written, [NodeNext]_nodeVars PROVE Written'
    OBVIOUS
<1>1. CASE NewNode \/ UpdateGpu \/ InitGpu
    BY <1>1 DEF NewNode, UpdateGpu, InitGpu, Written, Decided
<1>2. CASE FinishUpdate \/ FinishInit
    <2>1. gpus' = gpus /\ (stage' \in {"written", "initialized"} => spec' = BuildNodePartitioning(gpus, Indexes))
        BY <1>2 DEF FinishUpdate, FinishInit
    <2>2. spec' = BuildNodePartitioning(gpus, Indexes) => spec' = BuildNodePartitioning(gpus', Indexes)
        BY <2>1
    <2> QED BY <2>1, <2>2 DEF Written, Decided, BuildNodePartitioning
<1>3. CASE UNCHANGED nodeVars
    <2>1. gpus' = gpus /\ spec' = spec /\ stage' = stage
        BY <1>3 DEF nodeVars
    <2> QED BY <2>1 DEF Written, Decided, BuildNodePartitioning
<1> QED BY <1>1, <1>2, <1>3 DEF NodeNext

LEMMA InitialStep ==
    ASSUME NonEmptyGeometries, TypeInv, InitialInv, [NodeNext]_nodeVars
    PROVE  InitialInv'
<1>1. CASE NewNode
    <2>1. stage' \in {"update", "init"} /\ pos' = pos /\ stage = "new"
        BY <1>1 DEF NewNode
    <2>2. pos = 1
        BY <2>1 DEF TypeInv
    <2>3. \A k \in 1..GpuCount : ~(k < 1)
        BY GeometryAssumption
    <2> QED BY <2>1, <2>2, <2>3 DEF InitialInv
<1>2. CASE UpdateGpu
    BY <1>2 DEF UpdateGpu, InitialInv
<1>3. CASE InitGpu
    <2>1. PICK h \in GPU :
             /\ gpus' = [gpus EXCEPT ![pos] = h] /\ h.index = gpus[pos].index
             /\ pos \in 1..GpuCount /\ ~isIdle(h)
        BY <1>3, VisitedInit
    <2>2. gpus'[pos] = h /\ \A k \in 1..GpuCount : k # pos => gpus'[k] = gpus[k]
        BY <1>3, <2>1, OneChanged DEF InitGpu
    <2>3. stage = "init" /\ stage' = "init" /\ pos' = pos + 1
        BY <1>3 DEF InitGpu
    <2>4. \A k \in 1..GpuCount : k < pos' => k = pos \/ k < pos
        BY <2>1, <2>3, GeometryAssumption
    <2>5. \A k \in 1..GpuCount : k < pos => ~isIdle(gpus[k])
        BY <2>3 DEF InitialInv
    <2>6. \A k \in 1..GpuCount : k < pos' => ~isIdle(gpus'[k])
        BY <2>1, <2>2, <2>4, <2>5
    <2> QED BY <2>3, <2>6 DEF InitialInv, isIdle, GetGeometry
<1>4. CASE FinishUpdate
    BY <1>4 DEF FinishUpdate, InitialInv
<1>5. CASE FinishInit
    <2>1. stage = "init" /\ pos > Len(gpus) /\ gpus' = gpus /\ stage' \in {"initialized", "refused"}
        BY <1>5 DEF FinishInit
    <2>2. \A k \in 1..GpuCount : k < pos
        BY <2>1, StateFacts
    <2>3. \A k \in 1..GpuCount : ~isIdle(gpus[k])
        BY <2>1, <2>2 DEF InitialInv
    <2> QED BY <2>1, <2>3 DEF InitialInv, isIdle, GetGeometry
<1>6. CASE UNCHANGED nodeVars
    BY <1>6 DEF nodeVars, InitialInv, isIdle, GetGeometry
<1> QED BY <1>1, <1>2, <1>3, <1>4, <1>5, <1>6 DEF NodeNext

\* The spec of a GPU is the geometry that Node.GPUs gives it.
LEMMA SpecOfGpu ==
    ASSUME TypeInv, FaithfulInv, Written, Decided, NEW i \in Indexes
    PROVE  \E k \in 1..GpuCount : gpus[k].index = i /\ spec[i] = GetGeometry(gpus[k])
<1>1. gpus \in [1..GpuCount -> GPU] /\ OneEach(gpus)
    BY StateFacts DEF Decided, FaithfulInv
<1>2. PICK k \in 1..GpuCount : gpus[k].index = i
    BY <1>1 DEF OneEach
<1>3. BuildNodePartitioning(gpus, Indexes)[gpus[k].index] = GetGeometry(gpus[k])
    BY <1>1, BuiltGeometry
<1> QED BY <1>2, <1>3 DEF Written

-----------------------------------------------------------------------------
(***************************************************************************)
(* The theorems                                                            *)
(***************************************************************************)
\* The types of the state, in particular that ApplyGeometry never leaves a negative
\* count of free devices.
THEOREM MigNodeTypes == NodeSpec => []NodeTypeOK
<1>1. TypeInv => NodeTypeOK
    BY DEF TypeInv
<1> QED BY <1>1, TypeInit, TypeStep, PTL DEF NodeSpec

\* GPU.UpdateGeometryFor changes a GPU exactly if some allowed geometry that keeps its
\* used devices would help, and then more devices that are asked for are free.
THEOREM MigNodeUpdates == NodeSpec => UpdatesIffUseful
<1> DEFINE Useful ==
        \A k \in DOMAIN gpus : stage = "update" /\ pos = k =>
            /\ (\E geometry \in Applicable(gpus[k]) : \E p \in MigProfiles :
                    Lacks(gpus[k], p) /\ geometry[p] > gpus[k].used[p] + gpus[k].free[p])
                  <=> gpus' # gpus
            /\ gpus' # gpus =>
                    \E p \in MigProfiles : Lacks(gpus[k], p) /\ gpus'[k].free[p] > gpus[k].free[p]
<1>1. TypeInv /\ [NodeNext]_nodeVars => [Useful]_nodeVars
    <2> SUFFICES ASSUME TypeInv, NodeNext, stage = "update", pos \in DOMAIN gpus
                 PROVE  /\ (\E geometry \in Applicable(gpus[pos]) : \E p \in MigProfiles :
                                Lacks(gpus[pos], p)
                                /\ geometry[p] > gpus[pos].used[p] + gpus[pos].free[p])
                              <=> gpus' # gpus
                        /\ gpus' # gpus =>
                              \E p \in MigProfiles :
                                 Lacks(gpus[pos], p) /\ gpus'[pos].free[p] > gpus[pos].free[p]
        OBVIOUS
    <2>1. UpdateGpu
        <3>1. pos <= Len(gpus) /\ Len(gpus) \in Nat /\ pos \in Nat
            BY StateFacts
        <3>2. ~FinishUpdate
            BY <3>1 DEF FinishUpdate
        <3> QED BY <3>2 DEF NodeNext, NewNode, InitGpu, FinishInit
    <2> DEFINE g == gpus[pos]
               h == UpdateGeometryFor(g, required)
    <2>2. /\ gpus' = [gpus EXCEPT ![pos] = h] /\ pos \in 1..GpuCount
          /\ g \in GPU /\ h \in GPU /\ required \in Quantities /\ gpus \in [1..GpuCount -> GPU]
        BY <2>1, Visited, StateFacts
    <2>3. Counted(g)
        BY <2>2 DEF Counted, GPU
    <2>4. CanUpdate(g, required) <=>
             \E geometry \in Applicable(g) : \E p \in MigProfiles :
                Lacks(g, p) /\ geometry[p] > g.used[p] + g.free[p]
        <3> HIDE DEF g
        <3> QED BY <2>2, <2>3, CanUpdateIff DEF Lacks
    <2>5. gpus'[pos] = h
        BY <2>2
    <2>6. /\ ~CanUpdate(g, required) => h = g
          /\ CanUpdate(g, required) =>
                \E p \in MigProfiles : required[p] > g.free[p] /\ h.free[p] > g.free[p]
        <3> HIDE DEF g
        <3> QED BY <2>2, GpuUpdated
    <2>7. CASE ~CanUpdate(g, required)
        <3>1. gpus' = gpus
            BY <2>2, <2>6, <2>7
        <3> QED BY <2>4, <2>7, <3>1
    <2>8. CASE CanUpdate(g, required)
        <3>1. PICK p \in MigProfiles : required[p] > g.free[p] /\ h.free[p] > g.free[p]
            BY <2>6, <2>8
        <3>2. h # g
            <4>1. g.free[p] \in Nat
                BY <2>3 DEF Counted, Quantities
            <4>2. ~(g.free[p] > g.free[p])
                BY <4>1
            <4> HIDE DEF g, h
            <4> QED BY <3>1, <4>2
        <3>3. gpus' # gpus
            BY <2>5, <3>2
        <3>4. Lacks(g, p) /\ gpus'[pos].free[p] > g.free[p]
            BY <2>5, <3>1 DEF Lacks
        <3> QED BY <2>4, <2>8, <3>3, <3>4
    <2> QED BY <2>7, <2>8
<1> QED BY <1>1, TypeInit, TypeStep, PTL DEF NodeSpec, UpdatesIffUseful

LEMMA FaithfulAlways ==
    ASSUME ~Gaps
    PROVE  NodeSpec => [](TypeInv /\ FaithfulInv /\ Written)
<1>1. NodeInit => TypeInv /\ FaithfulInv /\ Written
    BY TypeInit DEF NodeInit, FaithfulInv, NoGap, Written, Decided
<1>2. TypeInv /\ FaithfulInv /\ Written /\ [NodeNext]_nodeVars => (TypeInv /\ FaithfulInv /\ Written)'
    BY TypeStep, FaithfulStep, WrittenStep
<1> QED BY <1>1, <1>2, PTL DEF NodeSpec

\* As long as no GPU without devices comes before one with devices (see the run missing),
\* the spec keeps every device that a Pod uses, so that the agent can carry it out.
THEOREM MigNodeKeepsUsed ==
    ASSUME ~Gaps
    PROVE  NodeSpec => []SpecKeepsUsed
<1>1. TypeInv /\ FaithfulInv /\ Written => SpecKeepsUsed
    <2> SUFFICES ASSUME TypeInv, FaithfulInv, Written, Decided,
                        NEW i \in Indexes, NEW p \in MigProfiles
                 PROVE  spec[i][p] >= reported[i].used[p]
        BY DEF SpecKeepsUsed
    <2>1. PICK k \in 1..GpuCount : gpus[k].index = i /\ spec[i] = GetGeometry(gpus[k])
        BY SpecOfGpu
    <2>2. gpus[k] \in GPU /\ gpus[k].used = reported[i].used
        BY <2>1, StateFacts DEF Decided, FaithfulInv, Faithful
    <2>3. /\ GetGeometry(gpus[k])[p] = gpus[k].used[p] + gpus[k].free[p]
          /\ gpus[k].used[p] \in Nat /\ gpus[k].free[p] \in Nat
        BY <2>2, GeometryType DEF Counted, GPU
    <2> QED BY <2>1, <2>2, <2>3
<1> QED BY <1>1, FaithfulAlways, PTL

\* Under the same condition every GPU's spec is an allowed geometry or the one it has.
THEOREM MigNodeAllowed ==
    ASSUME ~Gaps
    PROVE  NodeSpec => []SpecIsAllowed
<1>1. TypeInv /\ FaithfulInv /\ Written => SpecIsAllowed
    <2> SUFFICES ASSUME TypeInv, FaithfulInv, Written, Decided, NEW i \in Indexes
                 PROVE  AllowsGeometry(spec[i]) \/ spec[i] = GetGeometry(reported[i])
        BY DEF SpecIsAllowed
    <2>1. PICK k \in 1..GpuCount : gpus[k].index = i /\ spec[i] = GetGeometry(gpus[k])
        BY SpecOfGpu
    <2>2. Faithful(gpus[k])
        BY DEF Decided, FaithfulInv
    <2> QED BY <2>1, <2>2 DEF Faithful, GetGeometry
<1> QED BY <1>1, FaithfulAlways, PTL

\* Under the same condition, and if no allowed geometry is empty, InitNodePartitioning
\* leaves no GPU without devices.
THEOREM MigNodeInitialized ==
    ASSUME ~Gaps, NonEmptyGeometries
    PROVE  NodeSpec => []InitCoversEveryGpu
<1>1. NodeInit => InitialInv
    BY DEF NodeInit, InitialInv
<1>2. TypeInv /\ InitialInv /\ [NodeNext]_nodeVars => InitialInv'
    BY InitialStep
<1>3. TypeInv /\ FaithfulInv /\ Written /\ InitialInv => InitCoversEveryGpu
    <2> SUFFICES ASSUME TypeInv, FaithfulInv, Written, InitialInv, stage = "initialized",
                        NEW i \in Indexes
                 PROVE  spec[i] # NoDevices
        BY DEF InitCoversEveryGpu
    <2>1. PICK k \in 1..GpuCount : gpus[k].index = i /\ spec[i] = GetGeometry(gpus[k])
        BY SpecOfGpu DEF Decided
    <2> QED BY <2>1 DEF InitialInv, isIdle
<1> QED BY <1>1, <1>2, <1>3, FaithfulAlways, PTL DEF NodeSpec

-----------------------------------------------------------------------------
(***************************************************************************)
(* The order of the Pods                                                   *)
(***************************************************************************)
\* s lists the Pods of S in their order.
Lists(s, S) ==
    /\ s \in [1..Cardinality(S) -> S]
    /\ \A i, j \in 1..Cardinality(S) : i < j => Before(s[i], s[j])

\* The order by priority and age is a strict total one.
LEMMA BeforeOrders ==
    /\ \A p, q \in Pods : p # q => Before(p, q) \/ Before(q, p)
    /\ \A p \in Pods : ~Before(p, p)
    /\ \A p, q, r \in Pods : Before(p, q) /\ Before(q, r) => Before(p, r)
<1>1. \A p \in Pods : Priority[p] \in Int /\ Created[p] \in Nat
    BY PodsAssumption
<1>2. \A p, q \in Pods : Created[p] = Created[q] => p = q
    BY PodsAssumption
<1> QED BY <1>1, <1>2 DEF Before

\* A set of Pods that is not empty has a last one.
LEMMA LastPod ==
    ASSUME NEW S \in SUBSET Pods, S # {}
    PROVE  \E p \in S : \A q \in S \ {p} : Before(q, p)
<1> DEFINE T == {R \in SUBSET S : R # {} => \E p \in R : \A q \in R \ {p} : Before(q, p)}
<1>1. ASSUME NEW R \in SUBSET S, R # {}, \A x \in R : R \ {x} \in T
      PROVE  R \in T
    <2>1. PICK x \in R : TRUE
        BY <1>1
    <2>2. CASE R \ {x} = {}
        BY <2>2
    <2>3. CASE R \ {x} # {}
        <3>1. PICK p \in R \ {x} : \A q \in (R \ {x}) \ {p} : Before(q, p)
            BY <1>1, <2>3
        <3>2. p \in Pods /\ x \in Pods /\ p # x
            OBVIOUS
        <3>3. CASE Before(x, p)
            <4>1. \A q \in R \ {p} : Before(q, p)
                BY <3>1, <3>3
            <4> QED BY <4>1
        <3>4. CASE Before(p, x)
            <4>1. ASSUME NEW q \in R \ {x}
                  PROVE  Before(q, x)
                <5>1. q = p \/ Before(q, p)
                    BY <3>1
                <5>2. q \in Pods
                    OBVIOUS
                <5> QED BY <3>2, <3>4, <5>1, <5>2, BeforeOrders
            <4> QED BY <4>1
        <3> QED BY <3>2, <3>3, <3>4, BeforeOrders
    <2> QED BY <2>2, <2>3
<1>2. IsFiniteSet(S)
    BY PodsAssumption, FS_Subset
<1>3. S \in T
    <2> HIDE DEF T
    <2>1. {} \in T
        BY DEF T
    <2> QED BY <1>1, <1>2, <2>1, SubsetInduction
<1> QED BY <1>3

\* There is a list of the Pods of every set.
LEMMA ListExists ==
    ASSUME NEW S \in SUBSET Pods
    PROVE  \E s : Lists(s, S)
<1> DEFINE T == {R \in SUBSET S : \E s : Lists(s, R)}
<1>0. IsFiniteSet(S)
    BY PodsAssumption, FS_Subset
<1>1. {} \in T
    <2>1. Cardinality({}) = 0
        BY FS_EmptySet
    <2>2. Lists(<<>>, {})
        BY <2>1 DEF Lists
    <2> QED BY <2>2
<1>2. ASSUME NEW R \in SUBSET S, R # {}, \A x \in R : R \ {x} \in T
      PROVE  R \in T
    <2>1. PICK p \in R : \A q \in R \ {p} : Before(q, p)
        BY <1>2, LastPod
    <2>2. PICK s : Lists(s, R \ {p})
        BY <1>2
    <2> DEFINE n == Cardinality(R \ {p})
               u == [i \in 1..(n + 1) |-> IF i = n + 1 THEN p ELSE s[i]]
    <2>3. n \in Nat /\ Cardinality(R) = n + 1
        <3>1. IsFiniteSet(R)
            BY <1>0, FS_Subset
        <3>2. Cardinality(R \ {p}) = Cardinality(R) - 1 /\ IsFiniteSet(R \ {p})
            BY <3>1, FS_RemoveElement
        <3>3. Cardinality(R) \in Nat /\ Cardinality(R \ {p}) \in Nat
            BY <3>1, <3>2, FS_CardinalityType
        <3> QED BY <3>2, <3>3
    <2> HIDE DEF n
    <2>4. s \in [1..n -> R \ {p}] /\ \A i, j \in 1..n : i < j => Before(s[i], s[j])
        BY <2>2 DEF Lists, n
    <2>5. u \in [1..(n + 1) -> R]
        BY <2>3, <2>4
    <2>6. ASSUME NEW i \in 1..(n + 1), NEW j \in 1..(n + 1), i < j
          PROVE  Before(u[i], u[j])
        <3>1. i \in 1..n /\ u[i] = s[i] /\ s[i] \in R \ {p}
            BY <2>3, <2>4, <2>6
        <3>2. CASE j = n + 1
            BY <2>1, <3>1, <3>2
        <3>3. CASE j # n + 1
            BY <2>3, <2>4, <2>6, <3>1, <3>3
        <3> QED BY <3>2, <3>3
    <2> HIDE DEF u
    <2>7. Lists(u, R)
        BY <2>3, <2>5, <2>6 DEF Lists
    <2> QED BY <2>7
<1>3. S \in T
    <2> HIDE DEF T
    <2> QED BY <1>0, <1>1, <1>2, SubsetInduction
<1> QED BY <1>3

\* sortPodsByPriorityAndAge returns the Pods that it is given.
LEMMA SortedType ==
    ASSUME NEW S \in SUBSET Pods
    PROVE  /\ Sorted(S) \in [1..Cardinality(S) -> S] /\ Cardinality(S) \in Nat
           /\ Lists(Sorted(S), S)
           /\ Sorted(S) \in Seq(S) /\ Len(Sorted(S)) = Cardinality(S)
<1>0. Cardinality(S) \in Nat
    BY PodsAssumption, FS_Subset, FS_CardinalityType
<1>1. PICK s : Lists(s, S)
    BY ListExists
<1>2. s \in SetToSeqs(S)
    <2>1. s \in [1..Cardinality(S) -> S] /\ \A i \in 1..Cardinality(S) : s[i] \in Pods
        BY <1>1 DEF Lists
    <2>2. ASSUME NEW i \in 1..Cardinality(S), NEW j \in 1..Cardinality(S), i # j
          PROVE  s[i] # s[j]
        <3>1. i < j \/ j < i
            BY <1>0, <2>2
        <3>2. Before(s[i], s[j]) \/ Before(s[j], s[i])
            BY <1>1, <3>1 DEF Lists
        <3> QED BY <2>1, <3>2, BeforeOrders
    <2> QED BY <2>1, <2>2 DEF SetToSeqs
<1>3. \A i, j \in DOMAIN s : i < j => Before(s[i], s[j])
    BY <1>1 DEF Lists
<1> DEFINE u == Sorted(S)
<1>4. u \in SetToSeqs(S) /\ \A i, j \in DOMAIN u : i < j => Before(u[i], u[j])
    BY <1>2, <1>3 DEF Sorted
<1>5. u \in [1..Cardinality(S) -> S]
    BY <1>4 DEF SetToSeqs
<1> HIDE DEF u
<1>6. u \in Seq(S) /\ Len(u) = Cardinality(S)
    BY <1>0, <1>5
<1>7. Lists(u, S)
    BY <1>4, <1>5 DEF Lists
<1> QED BY <1>0, <1>5, <1>6, <1>7 DEF u

-----------------------------------------------------------------------------
(***************************************************************************)
(* Loops over a sequence                                                   *)
(***************************************************************************)
\* The last of some positions.
LEMMA MaxOf ==
    ASSUME NEW n \in Nat, NEW R \in SUBSET (1..n), R # {}
    PROVE  Max(R) \in R /\ \A k \in R : k <= Max(R)
<1>1. R \subseteq 0..n
    OBVIOUS
<1>2. PICK m \in R : \A k \in R : m >= k
    BY <1>1, GreatestNumber
<1>3. Max(R) \in R /\ \A k \in R : Max(R) >= k
    BY <1>2 DEF Max
<1>4. \A k \in R : k \in Nat
    OBVIOUS
<1> QED BY <1>3, <1>4

\* g is the table of the results of a loop over the elements of s with indexes in R, for
\* all the sets R of D: G is one turn of the loop.
Loops(g, base, G, s, D) ==
    g = [R \in D |-> IF R = {} THEN base ELSE G[g[R \ {Max(R)}]][s[Max(R)]]]

\* A turn of the loop, for an element of E, leads from A to A.
Loopable(A, E, base, G, s, I) ==
    /\ G \in [A -> [E -> A]] /\ base \in A /\ s \in [I -> E]
    /\ IsFiniteSet(I) /\ \A R \in SUBSET I : R # {} => Max(R) \in R

\* There is such a table.
LEMMA LoopExists ==
    ASSUME NEW A, NEW E, NEW base, NEW G, NEW s, NEW I, Loopable(A, E, base, G, s, I)
    PROVE  \E g : g \in [SUBSET I -> A] /\ Loops(g, base, G, s, SUBSET I)
<1> USE DEF Loopable
<1> DEFINE D(m) == {R \in SUBSET I : Cardinality(R) <= m}
           N == {m \in Nat : \E g \in [D(m) -> A] : Loops(g, base, G, s, D(m))}
<1>1. \A R \in SUBSET I : /\ IsFiniteSet(R) /\ Cardinality(R) \in Nat
                          /\ Cardinality(R) <= Cardinality(I)
    BY FS_Subset, FS_CardinalityType
<1>2. 0 \in N
    <2> DEFINE g == [R \in D(0) |-> base]
    <2>1. \A R \in D(0) : R = {}
        BY <1>1, FS_EmptySet
    <2>2. g \in [D(0) -> A] /\ Loops(g, base, G, s, D(0))
        BY <2>1 DEF Loops
    <2> QED BY <2>2
<1>3. ASSUME NEW m \in Nat, m \in N
      PROVE  m + 1 \in N
    <2>1. PICK g \in [D(m) -> A] : Loops(g, base, G, s, D(m))
        BY <1>3
    <2> DEFINE h == [R \in D(m + 1) |->
                        IF R = {} THEN base ELSE G[g[R \ {Max(R)}]][s[Max(R)]]]
    <2>2. ASSUME NEW R \in D(m + 1), R # {}
          PROVE  R \ {Max(R)} \in D(m) /\ Max(R) \in I
        <3>1. Max(R) \in R
            BY <2>2
        <3>2. Cardinality(R \ {Max(R)}) = Cardinality(R) - 1
            BY <1>1, <3>1, FS_RemoveElement
        <3> QED BY <1>1, <3>1, <3>2
    <2>3. D(m) \subseteq D(m + 1)
        BY <1>1
    <2>4. h \in [D(m + 1) -> A]
        <3>1. ASSUME NEW R \in D(m + 1), R # {}
              PROVE  G[g[R \ {Max(R)}]][s[Max(R)]] \in A
            <4>1. g[R \ {Max(R)}] \in A /\ s[Max(R)] \in E
                BY <2>2, <3>1
            <4>2. \A a \in A : \A e \in E : G[a][e] \in A
                OBVIOUS
            <4> QED BY <4>1, <4>2
        <3> QED BY <3>1
    <2>5. \A R \in D(m) : h[R] = g[R]
        <3>1. \A R \in D(m) : g[R] = IF R = {} THEN base ELSE G[g[R \ {Max(R)}]][s[Max(R)]]
            BY <2>1 DEF Loops
        <3> HIDE DEF D
        <3> QED BY <2>3, <3>1
    <2>6. ASSUME NEW R \in D(m + 1)
          PROVE  h[R] = IF R = {} THEN base ELSE G[h[R \ {Max(R)}]][s[Max(R)]]
        <3>1. CASE R = {}
            BY <3>1
        <3>2. CASE R # {}
            <4>1. R \ {Max(R)} \in D(m)
                BY <2>2, <3>2
            <4>2. h[R \ {Max(R)}] = g[R \ {Max(R)}]
                BY <2>5, <4>1
            <4>3. h[R] = G[g[R \ {Max(R)}]][s[Max(R)]]
                BY <3>2
            <4> QED BY <3>2, <4>2, <4>3
        <3> QED BY <3>1, <3>2
    <2> HIDE DEF h, D
    <2>7. Loops(h, base, G, s, D(m + 1))
        BY <2>4, <2>6 DEF Loops
    <2>8. \E u \in [D(m + 1) -> A] : Loops(u, base, G, s, D(m + 1))
        BY <2>4, <2>7
    <2> QED BY <2>8
<1>4. Nat \subseteq N
    <2> HIDE DEF N
    <2> QED BY <1>2, <1>3, SetInduction
<1>5. Cardinality(I) \in N
    BY <1>4, FS_CardinalityType
<1>6. D(Cardinality(I)) = SUBSET I
    BY <1>1
<1>7. \E g : g \in [D(Cardinality(I)) -> A] /\ Loops(g, base, G, s, D(Cardinality(I)))
    BY <1>5
<1> HIDE DEF D
<1> QED BY <1>6, <1>7

-----------------------------------------------------------------------------
(***************************************************************************)
(* Node.ReleaseProfiles                                                    *)
(***************************************************************************)
\* Node.GPUs.
GPUs == [1..GpuCount -> GPU]

\* A GPU has as many devices of every profile as it had, and no more of them in use.
GivesUp(g, h) ==
    /\ h.index = g.index /\ GetGeometry(h) = GetGeometry(g)
    /\ \A p \in MigProfiles : h.used[p] <= g.used[p]

\* The devices in use on some of the GPUs are counted.
LEMMA UsedNumber ==
    ASSUME NEW n \in Nat, NEW gs \in [1..n -> GPU], NEW K \in SUBSET (1..n), NEW p \in MigProfiles
    PROVE  /\ UsedOn(gs, K, p) \in Nat
           /\ Numbers([k \in 1..n |-> gs[k].used[p]], K) /\ IsFiniteSet(K)
           /\ UsedOn(gs, K, p) = SumFunctionOnSet([k \in 1..n |-> gs[k].used[p]], K)
<1> DEFINE F == [k \in 1..n |-> gs[k].used[p]]
<1>1. UsedOn(gs, K, p) = SumFunctionOnSet(F, K)
    <2>1. DOMAIN gs = 1..n
        OBVIOUS
    <2> QED BY <2>1 DEF UsedOn
<1>2. IsFiniteSet(K)
    <2>1. IsFiniteSet(1..n)
        BY FS_Interval
    <2> QED BY <2>1, FS_Subset
<1>3. Numbers(F, K)
    <2>1. \A k \in 1..n : gs[k].used[p] \in Nat
        BY DEF GPU, Quantities
    <2> QED BY <2>1 DEF Numbers
<1> HIDE DEF F
<1> QED BY <1>1, <1>2, <1>3, SumProperties DEF F

\* GPU.ReleaseProfiles never leaves a negative count.
LEMMA ReleasedType ==
    ASSUME NEW n \in Nat, NEW gs \in [1..n -> GPU], NEW Q, NEW profiles \in Quantities
    PROVE  /\ Released(gs, Q, profiles) \in [1..n -> GPU]
           /\ \A k \in 1..n : GivesUp(gs[k], Released(gs, Q, profiles)[k])
<1> DEFINE Left(k, p) == profiles[p] - Lower(profiles[p], UsedOn(gs, 1..(k - 1), p))
           Freed(k, p) == IF p \in Q THEN Lower(gs[k].used[p], Left(k, p)) ELSE 0
           u(k) == [p \in MigProfiles |-> gs[k].used[p] - Freed(k, p)]
           f(k) == [p \in MigProfiles |-> gs[k].free[p] + Freed(k, p)]
           h(k) == [gs[k] EXCEPT !.used = u(k), !.free = f(k)]
<1>1. \A k \in 1..n : gs[k] \in GPU
    OBVIOUS
<1>2. Released(gs, Q, profiles) = [k \in 1..n |-> h(k)]
    <2>1. DOMAIN gs = 1..n
        OBVIOUS
    <2>2. Released(gs, Q, profiles) =
            [k \in 1..n |->
                [gs[k] EXCEPT !.used = [p \in MigProfiles |-> @[p] - Freed(k, p)],
                              !.free = [p \in MigProfiles |-> @[p] + Freed(k, p)]]]
        BY <2>1 DEF Released
    <2> QED BY <1>1, <2>2 DEF GPU
<1>3. ASSUME NEW k \in 1..n
      PROVE  h(k) \in GPU /\ GivesUp(gs[k], h(k))
    <2>1. ASSUME NEW p \in MigProfiles
          PROVE  /\ gs[k].used[p] - Freed(k, p) \in Nat /\ gs[k].free[p] + Freed(k, p) \in Nat
                 /\ gs[k].used[p] \in Nat /\ gs[k].free[p] \in Nat /\ Freed(k, p) \in Nat
        <3>1. UsedOn(gs, 1..(k - 1), p) \in Nat
            <4>1. 1..(k - 1) \in SUBSET (1..n)
                OBVIOUS
            <4> QED BY <4>1, UsedNumber
        <3>2. profiles[p] \in Nat /\ gs[k].used[p] \in Nat /\ gs[k].free[p] \in Nat
            BY <1>1 DEF GPU, Quantities
        <3>3. Left(k, p) \in Nat
            BY <3>1, <3>2 DEF Lower
        <3> HIDE DEF Left
        <3>4. Freed(k, p) \in Nat /\ Freed(k, p) <= gs[k].used[p]
            BY <3>2, <3>3 DEF Lower
        <3> HIDE DEF Freed
        <3> QED BY SMTT(40), <3>2, <3>4
    <2> HIDE DEF Freed
    <2>2. u(k) \in Quantities /\ f(k) \in Quantities
        BY <2>1 DEF Quantities
    <2>3. h(k) \in GPU /\ h(k).index = gs[k].index /\ h(k).used = u(k) /\ h(k).free = f(k)
        <3> HIDE DEF u, f
        <3> QED BY <1>1, <2>2 DEF GPU
    <2>4. \A p \in MigProfiles : /\ h(k).used[p] + h(k).free[p] = gs[k].used[p] + gs[k].free[p]
                                 /\ h(k).used[p] <= gs[k].used[p]
        <3>1. \A p \in MigProfiles : /\ h(k).used[p] = gs[k].used[p] - Freed(k, p)
                                     /\ h(k).free[p] = gs[k].free[p] + Freed(k, p)
            BY <2>3
        <3> HIDE DEF h
        <3> QED BY SMTT(40), <2>1, <3>1
    <2> HIDE DEF h
    <2>5. GetGeometry(h(k)) = GetGeometry(gs[k])
        BY <2>4 DEF GetGeometry
    <2> QED BY <2>3, <2>4, <2>5 DEF GivesUp
<1> HIDE DEF h
<1> QED BY <1>2, <1>3

\* What ReleaseProfiles leaves of the GPUs of a node, whether the Pod's devices were all
\* in use or not: every GPU keeps its geometry.
LEMMA ReleaseType ==
    ASSUME NEW n \in Nat, NEW gs \in [1..n -> GPU], NEW profiles \in Quantities, NEW r \in ReleaseProfiles(gs, profiles)
    PROVE  /\ r.ok \in BOOLEAN /\ r.gpus \in [1..n -> GPU]
           /\ \A k \in 1..n : GivesUp(gs[k], r.gpus[k])
<1>1. PICK Q : (r = [ok |-> TRUE, gpus |-> Released(gs, Q, profiles)]
                  \/ r = [ok |-> FALSE, gpus |-> Released(gs, Q, profiles)])
    <2> DEFINE Asked == {p \in MigProfiles : profiles[p] > 0}
               Short == {p \in Asked : UsedOn(gs, DOMAIN gs, p) < profiles[p]}
    <2>1. CASE Short = {}
        <3>1. r = [ok |-> TRUE, gpus |-> Released(gs, Asked, profiles)]
            BY <2>1 DEF ReleaseProfiles
        <3> QED BY <3>1
    <2>2. CASE Short # {}
        <3>1. \E Q \in SUBSET Asked : r = [ok |-> FALSE, gpus |-> Released(gs, Q, profiles)]
            BY <2>2 DEF ReleaseProfiles
        <3> QED BY <3>1
    <2> QED BY <2>1, <2>2
<1> DEFINE R == Released(gs, Q, profiles)
<1> HIDE DEF R
<1>2. r.gpus = R /\ r.ok \in BOOLEAN
    <2>1. CASE r = [ok |-> TRUE, gpus |-> R]
        BY <2>1
    <2>2. CASE r = [ok |-> FALSE, gpus |-> R]
        BY <2>2
    <2> QED BY <1>1, <2>1, <2>2 DEF R
<1> QED BY <1>2, ReleasedType DEF R

\* The devices in use on one GPU more.
LEMMA UsedNext ==
    ASSUME NEW n \in Nat, NEW gs \in [1..n -> GPU], NEW p \in MigProfiles,
           NEW j \in Nat, NEW k \in 1..n, k = j + 1
    PROVE  /\ UsedOn(gs, 1..k, p) = gs[k].used[p] + UsedOn(gs, 1..j, p)
           /\ UsedOn(gs, 1..k, p) \in Nat /\ UsedOn(gs, 1..j, p) \in Nat
           /\ gs[k].used[p] \in Nat
<1> DEFINE F == [i \in 1..n |-> gs[i].used[p]]
           K == 1..k
           J == 1..j
<1>1. K \in SUBSET (1..n) /\ k \in K /\ K \ {k} = J /\ J \in SUBSET (1..n)
    OBVIOUS
<1>2. F[k] = gs[k].used[p]
    OBVIOUS
<1> HIDE DEF K, J
<1>3. /\ UsedOn(gs, K, p) = SumFunctionOnSet(F, K) /\ IsFiniteSet(K) /\ Numbers(F, K)
      /\ UsedOn(gs, K, p) \in Nat
    BY <1>1, UsedNumber
<1>4. UsedOn(gs, J, p) = SumFunctionOnSet(F, J) /\ UsedOn(gs, J, p) \in Nat
    BY <1>1, UsedNumber
<1> HIDE DEF F
<1>5. SumFunctionOnSet(F, K) = F[k] + SumFunctionOnSet(F, K \ {k}) /\ F[k] \in Nat
    BY <1>1, <1>3, SumProperties
<1> QED BY <1>1, <1>2, <1>3, <1>4, <1>5 DEF K, J

\* If the first j GPUs have given up what they can, so have they and the next one.
LEMMA FreedNext ==
    ASSUME NEW n \in Nat, NEW gs \in [1..n -> GPU], NEW Q, NEW profiles \in Quantities,
           NEW p \in MigProfiles, NEW j \in Nat, NEW k \in 1..n, k = j + 1,
           UsedOn(Released(gs, Q, profiles), 1..j, p) =
              UsedOn(gs, 1..j, p) - IF p \in Q THEN Lower(profiles[p], UsedOn(gs, 1..j, p)) ELSE 0
    PROVE  UsedOn(Released(gs, Q, profiles), 1..k, p) =
              UsedOn(gs, 1..k, p) - IF p \in Q THEN Lower(profiles[p], UsedOn(gs, 1..k, p)) ELSE 0
<1>1. \A g \in [1..n -> GPU] : /\ UsedOn(g, 1..k, p) = g[k].used[p] + UsedOn(g, 1..j, p)
                               /\ UsedOn(g, 1..j, p) \in Nat /\ g[k].used[p] \in Nat
    BY SMTT(40), UsedNext
<1>2. Released(gs, Q, profiles)[k].used[p] =
         gs[k].used[p] - IF p \in Q
                         THEN Lower(gs[k].used[p],
                                    profiles[p] - Lower(profiles[p], UsedOn(gs, 1..j, p)))
                         ELSE 0
    <2> DEFINE Left(m) == profiles[m] - Lower(profiles[m], UsedOn(gs, 1..(k - 1), m))
               Freed(m) == IF m \in Q THEN Lower(gs[k].used[m], Left(m)) ELSE 0
               u == [m \in MigProfiles |-> gs[k].used[m] - Freed(m)]
               f == [m \in MigProfiles |-> gs[k].free[m] + Freed(m)]
    <2>1. gs[k] \in GPU /\ k \in DOMAIN gs
        OBVIOUS
    <2>2. Released(gs, Q, profiles)[k] = [gs[k] EXCEPT !.used = u, !.free = f]
        BY <2>1 DEF Released, GPU
    <2>3. [gs[k] EXCEPT !.used = u, !.free = f].used = u
        <3> HIDE DEF u, f
        <3> QED BY <2>1 DEF GPU
    <2>4. k - 1 = j
        OBVIOUS
    <2> QED BY <2>2, <2>3, <2>4
<1>3. Released(gs, Q, profiles) \in [1..n -> GPU]
    BY ReleasedType
<1> DEFINE h == Released(gs, Q, profiles)
           U == UsedOn(gs, 1..j, p)
           P == profiles[p]
           u == gs[k].used[p]
<1>4. UsedOn(gs, 1..k, p) = u + U /\ U \in Nat /\ u \in Nat /\ P \in Nat
    BY <1>1 DEF Quantities
<1>5. /\ UsedOn(h, 1..j, p) = U - IF p \in Q THEN Lower(P, U) ELSE 0
      /\ UsedOn(h, 1..k, p) = h[k].used[p] + UsedOn(h, 1..j, p)
      /\ h[k].used[p] = u - IF p \in Q THEN Lower(u, P - Lower(P, U)) ELSE 0
    <2>1. UsedOn(h, 1..k, p) = h[k].used[p] + UsedOn(h, 1..j, p)
        <3> HIDE DEF h
        <3> QED BY <1>1, <1>3 DEF h
    <2> QED BY <1>2, <2>1
<1> HIDE DEF h
<1> HIDE DEF U, P, u
<1>6. UsedOn(h, 1..k, p) = UsedOn(gs, 1..k, p) - IF p \in Q THEN Lower(P, u + U) ELSE 0
    <2>1. CASE p \in Q
        BY <1>4, <1>5, <2>1 DEF Lower
    <2>2. CASE p \notin Q
        BY <1>4, <1>5, <2>2
    <2> QED BY <2>1, <2>2
<1> QED BY <1>4, <1>6 DEF h, P

\* The first k GPUs together give up what is to be released, or all that they have in use.
LEMMA FreedUpTo ==
    ASSUME NEW n \in Nat, NEW gs \in [1..n -> GPU], NEW Q, NEW profiles \in Quantities,
           NEW p \in MigProfiles, NEW k \in 0..n
    PROVE  UsedOn(Released(gs, Q, profiles), 1..k, p) =
              UsedOn(gs, 1..k, p) - IF p \in Q THEN Lower(profiles[p], UsedOn(gs, 1..k, p)) ELSE 0
<1> DEFINE h == Released(gs, Q, profiles)
           Freed(j) == IF p \in Q THEN Lower(profiles[p], UsedOn(gs, 1..j, p)) ELSE 0
           T == {j \in Nat : j <= n => UsedOn(h, 1..j, p) = UsedOn(gs, 1..j, p) - Freed(j)}
<1>0. h \in [1..n -> GPU] /\ profiles[p] \in Nat
    BY ReleasedType DEF Quantities
<1>1. 0 \in T
    <2>1. \A x \in [1..n -> GPU] : UsedOn(x, {}, p) = 0
        <3> TAKE x \in [1..n -> GPU]
        <3> DEFINE F == [j \in 1..n |-> x[j].used[p]]
        <3>1. {} \in SUBSET (1..n)
            OBVIOUS
        <3>2. UsedOn(x, {}, p) = SumFunctionOnSet(F, {}) /\ IsFiniteSet({}) /\ Numbers(F, {})
            BY <3>1, UsedNumber
        <3> HIDE DEF F
        <3> QED BY <3>2, SumProperties
    <2>2. 1..0 = {}
        OBVIOUS
    <2> HIDE DEF h
    <2>3. UsedOn(h, 1..0, p) = 0 /\ UsedOn(gs, 1..0, p) = 0
        BY <1>0, <2>1, <2>2
    <2>4. Freed(0) = 0
        BY <1>0, <2>3 DEF Lower
    <2> HIDE DEF Freed
    <2> QED BY <2>3, <2>4
<1>2. ASSUME NEW j \in Nat, j \in T
      PROVE  j + 1 \in T
    <2>1. CASE j + 1 <= n
        <3>1. j + 1 \in 1..n /\ j <= n
            BY <2>1
        <3>2. UsedOn(h, 1..j, p) = UsedOn(gs, 1..j, p) - Freed(j)
            BY <1>2, <3>1
        <3>3. UsedOn(h, 1..(j + 1), p) = UsedOn(gs, 1..(j + 1), p) - Freed(j + 1)
            BY <3>1, <3>2, FreedNext
        <3> QED BY <3>3
    <2>2. CASE ~(j + 1 <= n)
        BY <2>2
    <2> QED BY <2>1, <2>2
<1> HIDE DEF h, Freed
<1>3. Nat \subseteq T
    <2> HIDE DEF T
    <2> QED BY <1>1, <1>2, SetInduction
<1> QED BY <1>3 DEF h, Freed

\* ReleaseProfiles frees what the Pod asks for, or fails and frees no more than that.
LEMMA ReleaseCount ==
    ASSUME NEW n \in Nat, NEW gs \in [1..n -> GPU], NEW profiles \in Quantities,
           NEW r \in ReleaseProfiles(gs, profiles), NEW p \in MigProfiles
    PROVE  LET freed == UsedOn(gs, 1..n, p) - UsedOn(r.gpus, 1..n, p)
           IN  freed \in 0..profiles[p] /\ (r.ok => freed = profiles[p])
<1> DEFINE Asked == {m \in MigProfiles : profiles[m] > 0}
           Short == {m \in Asked : UsedOn(gs, DOMAIN gs, m) < profiles[m]}
           U == UsedOn(gs, 1..n, p)
           P == profiles[p]
<1>1. DOMAIN gs = 1..n /\ 1..n \in SUBSET (1..n) /\ n \in 0..n /\ P \in Nat
    BY DEF Quantities
<1>2. U \in Nat
    BY <1>1, UsedNumber
<1>3. \A Q : UsedOn(Released(gs, Q, profiles), 1..n, p) = U - IF p \in Q THEN Lower(P, U) ELSE 0
    BY <1>1, FreedUpTo
<1>4. CASE Short = {}
    <2>1. r.ok /\ r.gpus = Released(gs, Asked, profiles)
        BY <1>4 DEF ReleaseProfiles
    <2>2. P <= U \/ (p \notin Asked /\ P = 0)
        BY <1>1, <1>2, <1>4
    <2>3. UsedOn(r.gpus, 1..n, p) = U - IF p \in Asked THEN Lower(P, U) ELSE 0
        BY <1>3, <2>1
    <2>4. p \in Asked \/ P = 0
        BY <1>1
    <2> HIDE DEF U, P, Asked
    <2>5. U - UsedOn(r.gpus, 1..n, p) = P
        BY <1>1, <1>2, <2>2, <2>3, <2>4 DEF Lower
    <2> QED BY <1>1, <2>5 DEF U, P
<1>5. CASE Short # {}
    <2>1. PICK Q : r = [ok |-> FALSE, gpus |-> Released(gs, Q, profiles)]
        BY <1>5 DEF ReleaseProfiles
    <2>2. ~r.ok /\ UsedOn(r.gpus, 1..n, p) = U - IF p \in Q THEN Lower(P, U) ELSE 0
        BY <1>3, <2>1
    <2> HIDE DEF U, P
    <2>3. U - UsedOn(r.gpus, 1..n, p) \in 0..P
        BY <1>1, <1>2, <2>2 DEF Lower
    <2> QED BY <2>2, <2>3 DEF U, P
<1> QED BY <1>4, <1>5

\* The GPUs that NewNode has built keep their geometry, and no more devices are free on
\* them than a Pod may have had in use, when ReleaseProfiles releases its devices: also
\* if it fails half-way.
THEOREM MigNodeReleases == NodeSpec => []ReleasesNoMore
<1>1. TypeInv => ReleasesNoMore
    <2> SUFFICES ASSUME TypeInv, stage = "update", NEW r \in ReleaseProfiles(gpus, asked)
                 PROVE  /\ \A k \in DOMAIN gpus : GetGeometry(r.gpus[k]) = GetGeometry(gpus[k])
                        /\ \A p \in MigProfiles :
                              LET freed == UsedOn(gpus, DOMAIN gpus, p) - UsedOn(r.gpus, DOMAIN gpus, p)
                              IN  freed \in 0..asked[p] /\ (r.ok => freed = asked[p])
        BY DEF ReleasesNoMore
    <2>1. /\ GpuCount \in Nat /\ gpus \in [1..GpuCount -> GPU] /\ DOMAIN gpus = 1..GpuCount
          /\ asked \in Quantities
        BY GeometryAssumption, NodeAssumption DEF TypeInv, NodeTypeOK, Quantities
    <2>2. \A k \in 1..GpuCount : GetGeometry(r.gpus[k]) = GetGeometry(gpus[k])
        BY <2>1, ReleaseType DEF GivesUp
    <2>3. \A p \in MigProfiles :
             LET freed == UsedOn(gpus, 1..GpuCount, p) - UsedOn(r.gpus, 1..GpuCount, p)
             IN  freed \in 0..asked[p] /\ (r.ok => freed = asked[p])
        BY <2>1, ReleaseCount
    <2> QED BY <2>1, <2>2, <2>3
<1> QED BY <1>1, TypeInit, TypeStep, PTL DEF NodeSpec

-----------------------------------------------------------------------------
(***************************************************************************)
(* findVictims                                                             *)
(***************************************************************************)
\* The GPUs have given up devices, with no change of their geometries.
GiveUp(gs, hs) == \A k \in 1..GpuCount : GivesUp(gs[k], hs[k])

\* The states of its loop over the Pods of C, from the GPUs gs: it ends as soon as the
\* devices that the target asks for are free, or a new geometry has them.
Searches(C, gs) ==
    {s \in [gpus : GPUs, victims : Seq(C), found : BOOLEAN] :
        GiveUp(gs, s.gpus) /\ (s.found => Satisfiable(s.gpus))}

\* GPUs give up devices step by step.
LEMMA GiveUpOrders ==
    ASSUME NEW gs \in GPUs
    PROVE  /\ GiveUp(gs, gs)
           /\ \A hs, is \in GPUs : GiveUp(gs, hs) /\ GiveUp(hs, is) => GiveUp(gs, is)
<1>1. \A hs \in GPUs : \A k \in 1..GpuCount : \A p \in MigProfiles : hs[k].used[p] \in Nat
    BY DEF GPUs, GPU, Quantities
<1>2. GiveUp(gs, gs)
    BY <1>1 DEF GiveUp, GivesUp
<1>3. ASSUME NEW hs \in GPUs, NEW is \in GPUs, GiveUp(gs, hs), GiveUp(hs, is), NEW k \in 1..GpuCount
      PROVE  GivesUp(gs[k], is[k])
    <2>1. GivesUp(gs[k], hs[k]) /\ GivesUp(hs[k], is[k])
        BY <1>3 DEF GiveUp
    <2>2. ASSUME NEW p \in MigProfiles
          PROVE  is[k].used[p] <= gs[k].used[p]
        <3>1. is[k].used[p] <= hs[k].used[p] /\ hs[k].used[p] <= gs[k].used[p]
            BY <2>1 DEF GivesUp
        <3>2. gs[k].used[p] \in Nat /\ hs[k].used[p] \in Nat /\ is[k].used[p] \in Nat
            BY <1>1
        <3> QED BY <3>1, <3>2
    <2> QED BY <2>1, <2>2 DEF GivesUp
<1> QED BY <1>2, <1>3 DEF GiveUp

\* One turn of the loop.
LEMMA Considered ==
    ASSUME NEW C \in SUBSET Pods, NEW gs \in GPUs, NEW states \in SUBSET Searches(C, gs), NEW p \in C
    PROVE  ConsiderVictim(states, p) \in SUBSET Searches(C, gs)
<1>1. ASSUME NEW s \in Searches(C, gs), NEW r \in ReleaseProfiles(s.gpus, Request[p])
      PROVE  /\ [gpus |-> r.gpus, victims |-> Append(s.victims, p),
                 found |-> Satisfiable(r.gpus)] \in Searches(C, gs)
             /\ ~s.found => [s EXCEPT !.gpus = r.gpus] \in Searches(C, gs)
    <2>1. /\ s \in [gpus : GPUs, victims : Seq(C), found : BOOLEAN]
          /\ s.gpus \in GPUs /\ s.victims \in Seq(C) /\ s.found \in BOOLEAN /\ GiveUp(gs, s.gpus)
        BY DEF Searches
    <2>2. Request[p] \in Quantities
        BY PodsAssumption
    <2>3. r.gpus \in GPUs /\ GiveUp(s.gpus, r.gpus)
        BY <2>1, <2>2, GeometryAssumption, ReleaseType DEF GPUs, GiveUp
    <2>4. GiveUp(gs, r.gpus)
        BY <2>1, <2>3, GiveUpOrders
    <2>5. Append(s.victims, p) \in Seq(C)
        BY <2>1
    <2>6. Satisfiable(r.gpus) \in BOOLEAN
        BY DEF Satisfiable, hasFreeCapacityFor, Repartitionable
    <2>7. [gpus |-> r.gpus, victims |-> Append(s.victims, p), found |-> Satisfiable(r.gpus)]
             \in Searches(C, gs)
        BY <2>3, <2>4, <2>5, <2>6 DEF Searches
    <2>8. ~s.found => [s EXCEPT !.gpus = r.gpus] \in Searches(C, gs)
        <3> DEFINE t == [s EXCEPT !.gpus = r.gpus]
        <3>1. t.gpus = r.gpus /\ t.found = s.found /\ t \in [gpus : GPUs, victims : Seq(C), found : BOOLEAN]
            BY <2>1, <2>3
        <3> HIDE DEF t
        <3>2. ~s.found => t \in Searches(C, gs)
            BY <2>4, <3>1 DEF Searches
        <3> QED BY <3>2 DEF t
    <2> QED BY <2>7, <2>8
<1> DEFINE Next1(s) == IF s.found THEN {s}
                       ELSE {IF r.ok
                             THEN [gpus |-> r.gpus, victims |-> Append(s.victims, p),
                                   found |-> Satisfiable(r.gpus)]
                             ELSE [s EXCEPT !.gpus = r.gpus] :
                               r \in ReleaseProfiles(s.gpus, Request[p])}
<1>2. \A s \in Searches(C, gs) : Next1(s) \subseteq Searches(C, gs)
    BY <1>1
<1>3. ConsiderVictim(states, p) = UNION {Next1(s) : s \in states}
    BY DEF ConsiderVictim
<1> HIDE DEF Next1
<1> QED BY <1>2, <1>3

\* So the whole loop.
LEMMA SearchResult ==
    ASSUME NEW C \in SUBSET Pods, NEW gs \in GPUs, NEW n \in Nat, NEW seq \in [1..n -> C]
    PROVE  FoldLeft(ConsiderVictim, {[gpus |-> gs, victims |-> <<>>, found |-> FALSE]}, seq)
              \subseteq Searches(C, gs)
<1> DEFINE A == SUBSET Searches(C, gs)
           base == {[gpus |-> gs, victims |-> <<>>, found |-> FALSE]}
           G == [states \in A |-> [p \in C |-> ConsiderVictim(states, p)]]
           I == 1..n
           Iter(g) == g = [R \in SUBSET I |->
                            IF R = {} THEN base ELSE ConsiderVictim(g[R \ {Max(R)}], seq[Max(R)])]
           iter == CHOOSE g : Iter(g)
<1>1. base \in A
    BY GiveUpOrders DEF Searches
<1>2. G \in [A -> [C -> A]] /\ \A a \in A : \A p \in C : G[a][p] = ConsiderVictim(a, p)
    <2>1. \A a \in A : [p \in C |-> ConsiderVictim(a, p)] \in [C -> A]
        BY Considered
    <2> QED BY <2>1
<1>3. FoldLeft(ConsiderVictim, base, seq) = iter[I]
    <2>1. DOMAIN seq = I
        OBVIOUS
    <2> HIDE DEF base, I
    <2> QED BY <2>1 DEF FoldLeft, MapThenFoldSet
<1>4. \A R \in SUBSET I : R # {} => Max(R) \in R
    BY MaxOf
<1>5. IsFiniteSet(I) /\ seq \in [I -> C] /\ I \in SUBSET I
    BY FS_Interval
<1> HIDE DEF A, base, G, I
<1>6. \A g : g \in [SUBSET I -> A] => (Iter(g) <=> Loops(g, base, G, seq, SUBSET I))
    <2> TAKE g
    <2> HAVE g \in [SUBSET I -> A]
    <2>1. ASSUME NEW R \in SUBSET I, R # {}
          PROVE  ConsiderVictim(g[R \ {Max(R)}], seq[Max(R)]) = G[g[R \ {Max(R)}]][seq[Max(R)]]
        <3>1. Max(R) \in R /\ R \ {Max(R)} \in SUBSET I
            BY <1>4, <2>1
        <3>2. g[R \ {Max(R)}] \in A /\ seq[Max(R)] \in C
            BY <1>5, <3>1
        <3> QED BY <1>2, <3>2
    <2> QED BY <2>1 DEF Loops
<1>7. \E g : Iter(g)
    <2>1. PICK g : g \in [SUBSET I -> A] /\ Loops(g, base, G, seq, SUBSET I)
        <3>1. Loopable(A, C, base, G, seq, I)
            BY <1>1, <1>2, <1>4, <1>5 DEF Loopable
        <3> QED BY <3>1, LoopExists
    <2> QED BY <1>6, <2>1
<1>8. Iter(iter)
    <2> HIDE DEF Iter
    <2> QED BY <1>7
<1> HIDE DEF iter
<1> DEFINE T == {R \in SUBSET I : iter[R] \in A}
<1>9. \A R \in SUBSET I : iter[R] = IF R = {} THEN base
                                   ELSE ConsiderVictim(iter[R \ {Max(R)}], seq[Max(R)])
    BY <1>8
<1>10. {} \in T
    BY <1>1, <1>9
<1>11. ASSUME NEW R \in SUBSET I, R # {}, \A x \in R : R \ {x} \in T
       PROVE  R \in T
    <2>1. Max(R) \in R /\ iter[R \ {Max(R)}] \in A /\ seq[Max(R)] \in C
        BY <1>4, <1>5, <1>11
    <2>2. ConsiderVictim(iter[R \ {Max(R)}], seq[Max(R)]) \in A
        BY <2>1, Considered DEF A
    <2> QED BY <1>9, <1>11, <2>2
<1>12. \A R \in SUBSET I : R \in T
    <2> HIDE DEF T
    <2> QED BY <1>5, <1>10, <1>11, SubsetInduction
<1>13. iter[I] \in A
    BY <1>5, <1>12
<1> QED BY <1>3, <1>13 DEF A, base

\* The Pods that tryPreemption may evict from node n.
Evictable(n) ==
    {p \in Pods \ DOMAIN Pinned :
        /\ podCache[p].at = n /\ podCache[p].phase = "running"
        /\ Priority[p] < Priority[target]}

\* The node could not serve the target as it was listed, but it could if GPUs gave up
\* devices that are in use.
MakesRoom(n) ==
    \E gs \in extractGPUs(view.status[n]) :
        /\ ~Satisfiable(gs)
        /\ \E hs \in GPUs : GiveUp(gs, hs) /\ Satisfiable(hs)

\* What findVictims returns are such Pods, and there are any only to make room.
LEMMA VictimsFound ==
    ASSUME NEW n \in Nodes, view.status[n] \in [Indexes -> Reports], NEW found \in findVictims(n)
    PROVE  found \in Seq(Evictable(n)) /\ (found # <<>> => MakesRoom(n))
<1> DEFINE C == Evictable(n)
<1>1. C \in SUBSET Pods /\ <<>> \in Seq(C)
    BY DEF Evictable
<1> DEFINE seq == listCandidateVictims(n)
           base(gs) == {[gpus |-> gs, victims |-> <<>>, found |-> FALSE]}
           m == Cardinality(C)
<1>2. m \in Nat /\ seq \in [1..m -> C]
    <2>1. Sorted(C) \in [1..m -> C] /\ m \in Nat /\ Len(Sorted(C)) = m
        BY <1>1, SortedType
    <2>2. seq = Reverse(Sorted(C))
        BY DEF listCandidateVictims, Evictable
    <2> HIDE DEF seq, m, C
    <2>3. seq = [i \in 1..m |-> Sorted(C)[(m - i) + 1]]
        BY <2>1, <2>2 DEF Reverse
    <2>4. \A i \in 1..m : (m - i) + 1 \in 1..m
        BY <2>1
    <2> QED BY <2>1, <2>3, <2>4
<1> HIDE DEF seq, m, C
<1>3. ASSUME NEW gs \in extractGPUs(view.status[n]), NEW s \in FoldLeft(ConsiderVictim, base(gs), seq)
      PROVE  /\ s.victims \in Seq(C) /\ s.gpus \in GPUs
             /\ GiveUp(gs, s.gpus) /\ (s.found => Satisfiable(s.gpus))
    <2>1. gs \in GPUs
        BY ExtractedType DEF GPUs
    <2>2. s \in Searches(C, gs)
        BY <1>1, <1>2, <1>3, <2>1, SearchResult
    <2> QED BY <2>2 DEF Searches
<1>4. PICK gs \in extractGPUs(view.status[n]) :
         found \in (IF Satisfiable(gs) THEN {<<>>}
                    ELSE {IF s.found THEN s.victims ELSE <<>> :
                             s \in FoldLeft(ConsiderVictim, base(gs), seq)})
    BY DEF findVictims, seq
<1>5. ASSUME Satisfiable(gs)
      PROVE  found = <<>>
    BY <1>4, <1>5
<1>6. ASSUME ~Satisfiable(gs)
      PROVE  found \in Seq(C) /\ (found # <<>> => MakesRoom(n))
    <2>1. PICK s \in FoldLeft(ConsiderVictim, base(gs), seq) :
             found = IF s.found THEN s.victims ELSE <<>>
        BY <1>4, <1>6
    <2>2. /\ s.victims \in Seq(C) /\ s.gpus \in GPUs
          /\ GiveUp(gs, s.gpus) /\ (s.found => Satisfiable(s.gpus))
        BY <1>3, <2>1
    <2>3. found \in Seq(C)
        BY <1>1, <2>1, <2>2
    <2>4. ASSUME found # <<>>
          PROVE  MakesRoom(n)
        <3>1. s.found
            BY <2>1, <2>4
        <3> QED BY <1>6, <2>2, <3>1 DEF MakesRoom
    <2> QED BY <2>3, <2>4
<1> QED BY <1>1, <1>5, <1>6 DEF C

-----------------------------------------------------------------------------
(***************************************************************************)
(* Node.UpdateGeometryFor and the Pods that are planned for                *)
(***************************************************************************)
Updates == [gpus : Seq(GPU), required : Quantities, updated : BOOLEAN]

\* One turn of Node.UpdateGeometryFor, and the whole of it.
LEMMA VisitedType ==
    ASSUME NEW acc \in Updates, NEW g \in GPU
    PROVE  VisitGpu(acc, g) \in Updates
<1> DEFINE h == UpdateGeometryFor(g, acc.required)
<1>1. acc.gpus \in Seq(GPU) /\ acc.required \in Quantities /\ acc.updated \in BOOLEAN
    BY DEF Updates
<1>2. h \in GPU
    BY <1>1, GpuUpdated
<1>3. (acc.updated \/ CanUpdate(g, acc.required)) \in BOOLEAN
    BY <1>1
<1>4. VisitGpu(acc, g) = [gpus |-> Append(acc.gpus, h), required |-> StillRequired(acc.required, h),
                          updated |-> acc.updated \/ CanUpdate(g, acc.required)]
    BY DEF VisitGpu
<1> HIDE DEF h
<1>5. StillRequired(acc.required, h) \in Quantities
    <2>1. \A p \in MigProfiles : acc.required[p] \in Nat /\ h.free[p] \in Nat
        BY <1>1, <1>2 DEF GPU, Quantities
    <2>2. \A p \in MigProfiles :
             (IF acc.required[p] > h.free[p] THEN acc.required[p] - h.free[p] ELSE 0) \in Nat
        BY <2>1
    <2> QED BY <2>2 DEF StillRequired, Quantities
<1>6. Append(acc.gpus, h) \in Seq(GPU)
    BY <1>1, <1>2
<1> QED BY <1>3, <1>4, <1>5, <1>6 DEF Updates

LEMMA UpdatedType ==
    ASSUME NEW gs \in GPUs, NEW asks \in Quantities
    PROVE  UpdateNode(gs, asks) \in Updates
<1> DEFINE A == Updates
           base == NotVisited(asks)
           G == [acc \in A |-> [g \in GPU |-> VisitGpu(acc, g)]]
           I == 1..GpuCount
           Iter(g) == g = [R \in SUBSET I |->
                            IF R = {} THEN base ELSE VisitGpu(g[R \ {Max(R)}], gs[Max(R)])]
           iter == CHOOSE g : Iter(g)
<1>1. base \in A
    BY DEF Updates, NotVisited
<1>2. G \in [A -> [GPU -> A]] /\ \A a \in A : \A g \in GPU : G[a][g] = VisitGpu(a, g)
    <2>1. \A a \in A : [g \in GPU |-> VisitGpu(a, g)] \in [GPU -> A]
        BY VisitedType
    <2> QED BY <2>1
<1>3. UpdateNode(gs, asks) = iter[I]
    <2>1. DOMAIN gs = I
        BY DEF GPUs
    <2> HIDE DEF base, I
    <2>2. FoldLeft(VisitGpu, base, gs) = iter[I]
        BY <2>1 DEF FoldLeft, MapThenFoldSet
    <2> QED BY <2>2 DEF UpdateNode, base
<1>4. \A R \in SUBSET I : R # {} => Max(R) \in R
    BY GeometryAssumption, MaxOf
<1>5. IsFiniteSet(I) /\ gs \in [I -> GPU] /\ I \in SUBSET I
    BY GeometryAssumption, FS_Interval DEF GPUs
<1> HIDE DEF A, base, G, I
<1>6. \A g : g \in [SUBSET I -> A] => (Iter(g) <=> Loops(g, base, G, gs, SUBSET I))
    <2> TAKE g
    <2> HAVE g \in [SUBSET I -> A]
    <2>1. ASSUME NEW R \in SUBSET I, R # {}
          PROVE  VisitGpu(g[R \ {Max(R)}], gs[Max(R)]) = G[g[R \ {Max(R)}]][gs[Max(R)]]
        <3>1. Max(R) \in R /\ R \ {Max(R)} \in SUBSET I
            BY <1>4, <2>1
        <3>2. g[R \ {Max(R)}] \in A /\ gs[Max(R)] \in GPU
            BY <1>5, <3>1
        <3> QED BY <1>2, <3>2
    <2> QED BY <2>1 DEF Loops
<1>7. \E g : Iter(g)
    <2>1. PICK g : g \in [SUBSET I -> A] /\ Loops(g, base, G, gs, SUBSET I)
        <3>1. Loopable(A, GPU, base, G, gs, I)
            BY <1>1, <1>2, <1>4, <1>5 DEF Loopable
        <3> QED BY <3>1, LoopExists
    <2> QED BY <1>6, <2>1
<1>8. Iter(iter)
    <2> HIDE DEF Iter
    <2> QED BY <1>7
<1> HIDE DEF iter
<1> DEFINE T == {R \in SUBSET I : iter[R] \in A}
<1>9. \A R \in SUBSET I : iter[R] = IF R = {} THEN base
                                   ELSE VisitGpu(iter[R \ {Max(R)}], gs[Max(R)])
    BY <1>8
<1>10. {} \in T
    BY <1>1, <1>9
<1>11. ASSUME NEW R \in SUBSET I, R # {}, \A x \in R : R \ {x} \in T
       PROVE  R \in T
    <2>1. Max(R) \in R /\ iter[R \ {Max(R)}] \in A /\ gs[Max(R)] \in GPU
        BY <1>4, <1>5, <1>11
    <2>2. VisitGpu(iter[R \ {Max(R)}], gs[Max(R)]) \in A
        BY <2>1, VisitedType DEF A
    <2> QED BY <1>9, <1>11, <2>2
<1>12. \A R \in SUBSET I : R \in T
    <2> HIDE DEF T
    <2> QED BY <1>5, <1>10, <1>11, SubsetInduction
<1>13. iter[I] \in A
    BY <1>5, <1>12
<1> QED BY <1>3, <1>13 DEF A

\* The spec that updateNodeGeometry writes.
LEMMA RepartitionType ==
    ASSUME NEW st \in [Indexes -> Reports], NEW gs \in extractGPUs(st), NEW asks \in Quantities
    PROVE  BuildNodePartitioning(UpdateNode(gs, asks).gpus, Indexes) \in [Indexes -> Quantities]
<1>1. gs \in GPUs
    BY ExtractedType DEF GPUs
<1> DEFINE us == UpdateNode(gs, asks).gpus
<1>2. us \in Seq(GPU)
    BY <1>1, UpdatedType DEF Updates
<1> HIDE DEF us
<1>3. PICK n \in Nat : us \in [1..n -> GPU]
    BY <1>2
<1> QED BY <1>3, BuiltType DEF us

\* The spec that InitNodePartitioning writes.
LEMMA InitialType ==
    ASSUME NEW st \in [Indexes -> Reports], NEW gs \in extractGPUs(st)
    PROVE  BuildNodePartitioning(
               [k \in DOMAIN gs |-> IF isIdle(gs[k]) THEN ApplyGeometry(gs[k], GetFewestSlicesGeometry)
                                    ELSE gs[k]], Indexes) \in [Indexes -> Quantities]
<1>1. gs \in [1..GpuCount -> GPU]
    BY ExtractedType
<1>0. DOMAIN Allowed # {}
    BY NodesAssumption
<1> DEFINE h(k) == IF isIdle(gs[k]) THEN ApplyGeometry(gs[k], GetFewestSlicesGeometry) ELSE gs[k]
<1>2. \A k \in 1..GpuCount : h(k) \in GPU
    BY <1>0, <1>1, GpuInitialized
<1>3. DOMAIN gs = 1..GpuCount
    BY <1>1
<1> HIDE DEF h
<1>4. [k \in DOMAIN gs |-> h(k)] \in [1..GpuCount -> GPU]
    BY <1>2, <1>3
<1>5. BuildNodePartitioning([k \in DOMAIN gs |-> h(k)], Indexes) \in [Indexes -> Quantities]
    BY <1>4, GeometryAssumption, BuiltType
<1> QED BY <1>5 DEF h

\* addPodRequestedProfiles
LEMMA RequestType ==
    ASSUME NEW pods \in Seq(Pods), NEW m \in 0..Len(pods)
    PROVE  RequestOf(pods, m) \in Quantities
<1>1. ASSUME NEW p \in MigProfiles
      PROVE  SumFunction([i \in 1..m |-> Request[pods[i]][p]]) \in Nat
    <2> DEFINE F == [i \in 1..m |-> Request[pods[i]][p]]
    <2>1. \A i \in 1..m : pods[i] \in Pods
        OBVIOUS
    <2>2. \A i \in 1..m : Request[pods[i]] \in Quantities
        BY <2>1, PodsAssumption
    <2>3. Numbers(F, 1..m)
        BY <2>2 DEF Numbers, Quantities
    <2>4. IsFiniteSet(1..m) /\ DOMAIN F = 1..m
        BY FS_Interval
    <2> HIDE DEF F
    <2>5. SumFunctionOnSet(F, 1..m) \in Nat
        BY <2>3, <2>4, SumProperties
    <2> QED BY <2>4, <2>5 DEF SumFunction, F
<1> DEFINE v(p) == SumFunction([i \in 1..m |-> Request[pods[i]][p]])
<1>2. RequestOf(pods, m) = [p \in MigProfiles |-> v(p)]
    BY DEF RequestOf
<1>3. \A p \in MigProfiles : v(p) \in Nat
    BY <1>1
<1> HIDE DEF v
<1> QED BY <1>2, <1>3 DEF Quantities

\* What listPendingMigPods returns.
LEMMA PendingType == PendingPods \in Seq(Pods)
<1> DEFINE S == {p \in Pods : podCache[p].phase = "unschedulable"}
<1>1. S \in SUBSET Pods
    OBVIOUS
<1>2. PendingPods = Sorted(S)
    BY DEF PendingPods
<1> HIDE DEF S
<1>3. Sorted(S) \in Seq(S)
    BY <1>1, SortedType
<1> QED BY <1>1, <1>2, <1>3

-----------------------------------------------------------------------------
(***************************************************************************)
(* The inductive invariant of the two controllers                          *)
(***************************************************************************)
Views == [node : [Nodes -> Node], status : [Nodes -> Status]]

\* The types, in three parts: the Nodes and their devices, the Pods, the Pod controller.
NodesType ==
    /\ node \in [Nodes -> Node] /\ cache \in [Nodes -> Node]
    /\ status \in [Nodes -> Status]
    /\ devices \in [Nodes -> [Indexes -> Quantities]]

PodsType ==
    /\ pod \in [Pods -> [phase : Phases, at : Places, devices : [Indexes -> Quantities]]]
    /\ podCache \in [Pods -> [phase : Phases, at : Places]]

ControllerType ==
    /\ pc \in {"idle", "cleanAll", "clean", "repartition", "preempt", "evict", "untaint"}
    /\ view \in Views
    /\ todo \in SUBSET Nodes /\ current \in Places /\ target \in Pods \cup {0}
    /\ requested \in Quantities /\ victims \in Seq(Pods) /\ lifted \in BOOLEAN

\* Together they are TypeOK.
LEMMA TypeParts ==
    TypeOK <=> NodesType /\ PodsType /\ ControllerType /\ faults \in 0..MaxFaults
BY Zenon DEF TypeOK, NodesType, PodsType, ControllerType, Views

\* Where Pods are: a Pod is bound once, and then it stays on its node until its
\* containers have stopped, after which it is nowhere; what the informer cache says of
\* its node may be late, but never names another one.  No Pod of a DaemonSet is evicted.
Placed(p) ==
    /\ pod[p].phase # "unknown"
    /\ pod[p].phase = "unschedulable" => pod[p].at = "nowhere"
    /\ pod[p].phase \in {"running", "finished", "terminating"} => pod[p].at \in Nodes
    /\ podCache[p].at \in Nodes =>
          pod[p].phase # "unschedulable" /\ pod[p].at \in {podCache[p].at, "nowhere"}
    /\ p \in DOMAIN Pinned => pod[p].phase \in {"running", "finished"}

PodsPlaced == \A p \in Pods : Placed(p)

\* A Pod that may be evicted from the current node.
Victim(p) ==
    /\ p \notin DOMAIN Pinned /\ Priority[p] < Priority[target]
    /\ pod[p].phase # "unschedulable" /\ pod[p].at \in {current, "nowhere"}

\* The evictions go on behind a taint.
Evicting ==
    /\ pc \in {"evict", "untaint"} => current \in Nodes /\ victims # <<>>
    /\ pc = "evict" =>
        /\ node[current].taint \/ view.node[current].taint \/ lifted
        /\ \A i \in DOMAIN victims : Victim(victims[i])

\* Pods never hold more devices of a GPU than it has.
NoOvercommit ==
    \A n \in Nodes : \A i \in Indexes : \A m \in MigProfiles : Held(n, i)[m] <= devices[n][i][m]

-----------------------------------------------------------------------------
(***************************************************************************)
(* The devices that Pods hold                                              *)
(***************************************************************************)
HeldOf(i, m) == [p \in Pods |-> pod[p].devices[i][m]]

On(n) == {p \in Pods : pod[p].at = n}

\* The devices of a GPU that Pods hold are counted.
LEMMA HeldNumber ==
    ASSUME PodsType, NEW n, NEW i \in Indexes, NEW m \in MigProfiles
    PROVE  /\ Held(n, i)[m] = SumFunctionOnSet(HeldOf(i, m), On(n))
           /\ Held(n, i)[m] \in Nat
           /\ IsFiniteSet(Pods) /\ Numbers(HeldOf(i, m), Pods)
           /\ IsFiniteSet(On(n)) /\ Numbers(HeldOf(i, m), On(n))
<1>1. Held(n, i)[m] = SumFunctionOnSet(HeldOf(i, m), On(n))
    BY DEF Held, HeldOf, On
<1>2. IsFiniteSet(Pods) /\ IsFiniteSet(On(n))
    BY PodsAssumption, FS_Subset DEF On
<1>3. Numbers(HeldOf(i, m), Pods)
    <2>1. \A p \in Pods : pod[p].devices[i][m] \in Nat
        BY DEF PodsType, Quantities
    <2> QED BY <2>1 DEF Numbers, HeldOf
<1>4. Numbers(HeldOf(i, m), On(n))
    BY <1>3 DEF Numbers, On
<1> QED BY <1>1, <1>2, <1>3, <1>4, SumProperties

\* The same after a step.
LEMMA HeldAfter ==
    ASSUME PodsType', NEW n, NEW i \in Indexes, NEW m \in MigProfiles
    PROVE  /\ Held(n, i)'[m] = SumFunctionOnSet(HeldOf(i, m)', On(n)') /\ Held(n, i)'[m] \in Nat
           /\ IsFiniteSet(On(n)') /\ Numbers(HeldOf(i, m)', On(n)')
<1> DEFINE F == [p \in Pods |-> pod'[p].devices[i][m]]
           S == {p \in Pods : pod'[p].at = n}
<1>1. Held(n, i)'[m] = SumFunctionOnSet(F, S)
    BY DEF Held
<1>2. IsFiniteSet(S)
    BY PodsAssumption, FS_Subset
<1>3. Numbers(F, S)
    <2>1. \A p \in Pods : pod'[p].devices[i][m] \in Nat
        BY DEF PodsType, Quantities
    <2> QED BY <2>1 DEF Numbers
<1>4. SumFunctionOnSet(F, S) \in Nat
    <2> HIDE DEF F, S
    <2> QED BY <1>2, <1>3, SumProperties
<1>5. F = HeldOf(i, m)' /\ S = On(n)'
    BY DEF HeldOf, On
<1> QED BY <1>1, <1>2, <1>3, <1>4, <1>5

\* Where no Pod is added, and none gets more, Pods do not hold more.
LEMMA HeldLess ==
    ASSUME PodsType, PodsType', NEW n, NEW i \in Indexes, NEW m \in MigProfiles,
           \A p \in Pods : pod'[p].at = n =>
              pod[p].at = n /\ pod'[p].devices[i][m] <= pod[p].devices[i][m]
    PROVE  Held(n, i)'[m] <= Held(n, i)[m]
<1>1. /\ Held(n, i)[m] = SumFunctionOnSet(HeldOf(i, m), On(n)) /\ Held(n, i)[m] \in Nat
      /\ IsFiniteSet(On(n)) /\ Numbers(HeldOf(i, m), On(n))
    BY HeldNumber
<1>2. /\ Held(n, i)'[m] = SumFunctionOnSet(HeldOf(i, m)', On(n)') /\ Held(n, i)'[m] \in Nat
      /\ IsFiniteSet(On(n)') /\ Numbers(HeldOf(i, m)', On(n)')
    BY HeldAfter
<1> DEFINE F == HeldOf(i, m)
           F1 == HeldOf(i, m)'
           S == On(n)
           S1 == On(n)'
<1>3. S1 \in SUBSET S /\ \A p \in S1 : F1[p] <= F[p]
    BY DEF On, HeldOf
<1> HIDE DEF F, F1, S, S1
<1>4. Numbers(F, S1) /\ IsFiniteSet(S1)
    BY <1>1, <1>2, <1>3 DEF Numbers, F, S, S1
<1>5. SumFunctionOnSet(F1, S1) <= SumFunctionOnSet(F, S1)
    BY <1>2, <1>3, <1>4, SumMonotone DEF F1, S1
<1>6. SumFunctionOnSet(F, S1) <= SumFunctionOnSet(F, S)
    BY <1>1, <1>3, SumSubset DEF F, S
<1>7. SumFunctionOnSet(F, S1) \in Nat
    BY <1>4, SumProperties
<1>8. Held(n, i)[m] = SumFunctionOnSet(F, S) /\ Held(n, i)'[m] = SumFunctionOnSet(F1, S1)
    BY <1>1, <1>2 DEF F, F1, S, S1
<1> QED BY <1>1, <1>2, <1>5, <1>6, <1>7, <1>8

\* Where one Pod is added, it is its devices that Pods hold more.
LEMMA HeldMore ==
    ASSUME PodsType, PodsType', NEW n, NEW i \in Indexes, NEW m \in MigProfiles,
           NEW q \in Pods, pod[q].at # n, pod'[q].at = n,
           \A p \in Pods \ {q} : pod'[p] = pod[p]
    PROVE  Held(n, i)'[m] = Held(n, i)[m] + pod'[q].devices[i][m]
<1> DEFINE F == HeldOf(i, m)
           S == On(n)
           F1 == [p \in Pods |-> pod'[p].devices[i][m]]
           S1 == {p \in Pods : pod'[p].at = n}
<1>1. /\ Held(n, i)[m] = SumFunctionOnSet(F, S) /\ Held(n, i)[m] \in Nat
      /\ IsFiniteSet(S) /\ Numbers(F, S)
    BY HeldNumber
<1>2. Held(n, i)'[m] = SumFunctionOnSet(F1, S1)
    BY DEF Held
<1>3. IsFiniteSet(S1) /\ Numbers(F1, S1) /\ F1[q] = pod'[q].devices[i][m]
    <2>1. \A p \in Pods : pod'[p].devices[i][m] \in Nat
        BY DEF PodsType, Quantities
    <2>2. IsFiniteSet(S1)
        BY PodsAssumption, FS_Subset
    <2> QED BY <2>1, <2>2 DEF Numbers
<1>4. q \in S1 /\ S1 \ {q} = S /\ \A p \in S : F1[p] = F[p]
    BY DEF On, HeldOf
<1> HIDE DEF F, F1, S, S1
<1>5. SumFunctionOnSet(F1, S1) = F1[q] + SumFunctionOnSet(F1, S)
    BY <1>3, <1>4, SumProperties
<1>6. SumFunctionOnSet(F1, S) = SumFunctionOnSet(F, S)
    BY <1>1, <1>4, SumEqual
<1>7. F1[q] \in Nat
    BY <1>3, <1>4 DEF Numbers
<1> QED BY <1>1, <1>2, <1>3, <1>5, <1>6, <1>7

\* What the agent reports are counts.
LEMMA StatusType ==
    ASSUME PodsType, NodesType, NoOvercommit, NEW n \in Nodes
    PROVE  StatusOf(n) \in Status
<1>1. ASSUME NEW i \in Indexes
      PROVE  Held(n, i) \in Quantities /\ Free(n, i) \in Quantities
    <2>1. \A m \in MigProfiles : /\ Held(n, i)[m] \in Nat /\ devices[n][i][m] \in Nat
                                 /\ Held(n, i)[m] <= devices[n][i][m]
        BY HeldNumber DEF NodesType, Quantities, NoOvercommit
    <2>2. Held(n, i) = [m \in MigProfiles |-> Held(n, i)[m]]
        BY DEF Held
    <2>3. \A m \in MigProfiles : devices[n][i][m] - Held(n, i)[m] \in Nat
        BY <2>1
    <2> QED BY <2>1, <2>2, <2>3 DEF Free, Quantities
<1> QED BY <1>1 DEF StatusOf, Status

-----------------------------------------------------------------------------
(***************************************************************************)
(* The initial state                                                       *)
(***************************************************************************)
LEMMA PlainTypes ==
    /\ NoDevices \in Quantities /\ NoSpec \in [Indexes -> Quantities] /\ NoStatus \in Status
    /\ NoView \in Views
    /\ \A i \in Indexes : \A m \in MigProfiles : NoSpec[i][m] = 0
<1>1. NoDevices \in Quantities /\ \A m \in MigProfiles : NoDevices[m] = 0
    BY DEF NoDevices, Quantities
<1> USE DEF Node, Views
<1> QED BY <1>1 DEF NoSpec, NoStatus, Status, NoView

\* The invariant holds initially: where Pods are,
LEMMA PlacedInit == Init => PodsPlaced /\ Evicting
<1> SUFFICES ASSUME Init PROVE PodsPlaced /\ Evicting
    OBVIOUS
<1>1. \A p \in Pods :
         IF p \in DOMAIN Pinned
         THEN pod[p].phase = "running" /\ pod[p].at = Pinned[p] /\ podCache[p].at = Pinned[p]
         ELSE pod[p].phase = "unschedulable" /\ pod[p].at = "nowhere" /\ podCache[p].at = "nowhere"
    BY DEF Init
<1>2. \A p \in DOMAIN Pinned : Pinned[p] \in Nodes
    BY NodesAssumption
<1>3. "nowhere" \notin Nodes
    BY NodesAssumption
<1>4. PodsPlaced
    BY <1>1, <1>2, <1>3 DEF PodsPlaced, Placed
<1>5. Evicting
    BY DEF Init, Evicting
<1> QED BY <1>4, <1>5

\* and the types and counts.
LEMMA TypesInit == Init => TypeOK /\ NoOvercommit
<1> SUFFICES ASSUME Init PROVE TypeOK /\ NoOvercommit
    OBVIOUS
<1> DEFINE On0(n) == {p \in DOMAIN Pinned : Pinned[p] = n}
           Given(p) == [i \in Indexes |-> IF i = 0 THEN Request[p] ELSE NoDevices]
           F(i, m) == [p \in Pods |-> Given(p)[i][m]]
           Used(n) == [i \in Indexes |-> [m \in MigProfiles |-> SumFunctionOnSet(F(i, m), On0(n))]]
<1>1. \A p \in Pods : Given(p) \in [Indexes -> Quantities]
    BY PodsAssumption, PlainTypes
<1>2. ASSUME NEW n \in Nodes, NEW i \in Indexes, NEW m \in MigProfiles
      PROVE  /\ Numbers(F(i, m), On0(n)) /\ IsFiniteSet(On0(n))
             /\ SumFunctionOnSet(F(i, m), On0(n)) \in Nat
    <2>1. IsFiniteSet(On0(n)) /\ On0(n) \subseteq Pods
        BY PodsAssumption, FS_Subset
    <2>2. \A p \in Pods : Given(p)[i][m] \in Nat
        BY <1>1 DEF Quantities
    <2> HIDE DEF Given, On0
    <2>3. Numbers(F(i, m), On0(n))
        BY <2>1, <2>2 DEF Numbers
    <2> HIDE DEF F
    <2> QED BY <2>1, <2>3, SumProperties
<1>3. ASSUME NEW n \in Nodes, NEW i \in Indexes, NEW m \in MigProfiles
       PROVE  /\ Used(n)[i][m] = SumFunctionOnSet(F(i, m), On0(n))
              /\ Used(n)[i][m] \in Nat
    <2>1. SumFunctionOnSet(F(i, m), On0(n)) \in Nat
        BY <1>2
    <2> HIDE DEF F, On0
    <2> QED BY <2>1
<1>4. /\ node = [n \in Nodes |-> [spec |-> devices[n], taint |-> FALSE]] /\ cache = node
      /\ \A n \in Nodes : \A i \in Indexes : \A m \in MigProfiles : Used(n)[i][m] <= devices[n][i][m]
    BY ZenonT(60) DEF Init
<1>5. status = [n \in Nodes |-> [i \in Indexes |->
                     [used |-> Used(n)[i],
                      free |-> [m \in MigProfiles |-> devices[n][i][m] - Used(n)[i][m]]]]]
    BY ZenonT(60) DEF Init
<1>6. devices \in [Nodes -> [Indexes -> Quantities]]
    <2>1. PICK g \in [Nodes -> DOMAIN Allowed] :
             devices = [n \in Nodes |-> [i \in Indexes |->
                           IF i = 0 /\ On0(n) # {} THEN Allowed[g[n]] ELSE NoDevices]]
        BY DEF Init
    <2> HIDE DEF On0
    <2> QED BY <2>1, AllowedType, PlainTypes
<1>7. pod = [p \in Pods |->
                IF p \in DOMAIN Pinned
                THEN [phase |-> "running", at |-> Pinned[p], devices |-> Given(p)]
                ELSE [phase |-> "unschedulable", at |-> "nowhere", devices |-> NoSpec]]
    BY DEF Init
<1>8. podCache = [p \in Pods |->
                     IF p \in DOMAIN Pinned THEN [phase |-> "running", at |-> Pinned[p]]
                     ELSE [phase |-> "unknown", at |-> "nowhere"]]
    BY DEF Init
<1>9. NodesType
    <2>1. \A n \in Nodes : Used(n) \in [Indexes -> Quantities]
        <3> HIDE DEF F, On0
        <3> QED BY <1>2 DEF Quantities
    <2>2. ASSUME NEW n \in Nodes, NEW i \in Indexes
          PROVE  [m \in MigProfiles |-> devices[n][i][m] - Used(n)[i][m]] \in Quantities
        <3> HIDE DEF Used, F, On0
        <3>1. ASSUME NEW m \in MigProfiles
              PROVE  devices[n][i][m] - Used(n)[i][m] \in Nat
            <4>1. devices[n][i][m] \in Nat
                BY <1>6 DEF Quantities
            <4>2. Used(n)[i][m] \in Nat /\ Used(n)[i][m] <= devices[n][i][m]
                BY <1>4, <1>3
            <4> QED BY <4>1, <4>2
        <3> QED BY <3>1 DEF Quantities
    <2> HIDE DEF Used, F, On0
    <2>3. status \in [Nodes -> Status]
        BY <1>5, <2>1, <2>2 DEF Status
    <2> QED BY <1>4, <1>6, <2>3 DEF NodesType, Node
<1>10. PodsType
    <2>1. \A p \in DOMAIN Pinned : Pinned[p] \in Nodes
        BY NodesAssumption
    <2> HIDE DEF Given
    <2> QED BY <1>1, <1>7, <1>8, <2>1, PlainTypes DEF PodsType, Phases, Places
<1>11. ControllerType /\ faults \in 0..MaxFaults
    <2>1. /\ pc = "idle" /\ view = NoView /\ todo = {} /\ current = "nowhere" /\ target = 0
          /\ requested = NoDevices /\ victims = <<>> /\ lifted = FALSE /\ faults = 0
        BY DEF Init
    <2>2. ControllerType
        <3>1. target \in Pods \cup {0} /\ current \in Places /\ lifted \in BOOLEAN
            BY <2>1 DEF Places
        <3>2. victims \in Seq(Pods) /\ todo \in SUBSET Nodes
            BY <2>1
        <3>3. view \in Views /\ requested \in Quantities
            BY <2>1, PlainTypes
        <3> QED BY <2>1, <3>1, <3>2, <3>3 DEF ControllerType
    <2>3. 0 \in 0..MaxFaults
        BY NodesAssumption
    <2> QED BY <2>1, <2>2, <2>3
<1>12. ASSUME NEW n \in Nodes, NEW i \in Indexes, NEW m \in MigProfiles
       PROVE  Held(n, i)[m] <= devices[n][i][m]
    <2>1. Held(n, i)[m] = SumFunctionOnSet(HeldOf(i, m), On(n))
        BY <1>10, HeldNumber
    <2>2. On(n) = On0(n)
        <3>1. \A p \in Pods : pod[p].at = IF p \in DOMAIN Pinned THEN Pinned[p] ELSE "nowhere"
            BY <1>7
        <3>2. "nowhere" # n /\ DOMAIN Pinned \subseteq Pods
            BY NodesAssumption, PodsAssumption
        <3> QED BY <3>1, <3>2 DEF On
    <2>3. \A p \in On0(n) : HeldOf(i, m)[p] = F(i, m)[p]
        <3>1. \A p \in DOMAIN Pinned : p \in Pods /\ pod[p].devices = Given(p)
            BY <1>7, PodsAssumption
        <3> QED BY <3>1 DEF HeldOf
    <2>4. SumFunctionOnSet(F(i, m), On0(n)) <= devices[n][i][m]
        <3> HIDE DEF Used, F, On0
        <3> QED BY <1>4, <1>3
    <2> HIDE DEF Used, F, On0
    <2>5. SumFunctionOnSet(F(i, m), On0(n)) = SumFunctionOnSet(HeldOf(i, m), On0(n))
        BY <1>2, <2>3, SumEqual
    <2> QED BY <1>2, <2>1, <2>2, <2>4, <2>5
<1> QED BY <1>9, <1>10, <1>11, <1>12, TypeParts DEF NoOvercommit

-----------------------------------------------------------------------------
(***************************************************************************)
(* The types of the Nodes and their devices                                *)
(***************************************************************************)
LEMMA NodeFields ==
    ASSUME NodesType, NEW n \in Nodes
    PROVE  /\ node[n].spec \in [Indexes -> Quantities] /\ node[n].taint \in BOOLEAN
           /\ cache[n].spec \in [Indexes -> Quantities] /\ cache[n].taint \in BOOLEAN
           /\ status[n] \in [Indexes -> Reports]
BY DEF NodesType, Node, Status, Reports

\* A taint is set or removed.
LEMMA Retainted ==
    ASSUME NodesType, NEW n \in Nodes, NEW b \in BOOLEAN, node' = [node EXCEPT ![n].taint = b]
    PROVE  /\ node' \in [Nodes -> Node] /\ node'[n].taint = b
           /\ \A x \in Nodes : node'[x].spec = node[x].spec
           /\ \A x \in Nodes \ {n} : node'[x] = node[x]
<1> DEFINE new == [node[n] EXCEPT !.taint = b]
<1>1. node \in [Nodes -> Node]
    BY DEF NodesType
<1>2. new \in Node /\ new.taint = b /\ new.spec = node[n].spec
    BY <1>1 DEF Node
<1>3. node' = [node EXCEPT ![n] = new]
    OBVIOUS
<1> HIDE DEF new
<1> QED BY <1>1, <1>2, <1>3

\* So does removeRepartitioningTaint.
LEMMA TaintRemoved ==
    ASSUME NodesType, NEW n \in Nodes, removeRepartitioningTaint(n)
    PROVE  /\ node' \in [Nodes -> Node]
           /\ \A x \in Nodes \ {n} : node'[x] = node[x]
<1> DEFINE b == node[n].taint /\ ~cache[n].taint
<1>1. b \in BOOLEAN
    BY NodeFields
<1>2. node' = [node EXCEPT ![n].taint = b]
    BY DEF removeRepartitioningTaint
<1> HIDE DEF b
<1> QED BY <1>1, <1>2, Retainted

\* The patch of a spec leaves the taints alone.
LEMMA Respecified ==
    ASSUME NodesType, NEW n \in Nodes, NEW old, NEW new \in [Indexes -> Quantities],
           node' = SpecPatched(n, old, new)
    PROVE  /\ node' \in [Nodes -> Node]
           /\ \A x \in Nodes : node'[x].taint = node[x].taint
<1> DEFINE s == [i \in Indexes |-> [p \in MigProfiles |->
                    IF new[i][p] # old[i][p] THEN new[i][p] ELSE node[n].spec[i][p]]]
           a == [node[n] EXCEPT !.spec = s]
<1>1. node \in [Nodes -> Node] /\ node[n].spec \in [Indexes -> Quantities]
    BY NodeFields DEF NodesType
<1>2. s \in [Indexes -> Quantities]
    BY <1>1 DEF Quantities
<1>3. node' = [node EXCEPT ![n].spec = s]
    BY <1>1 DEF SpecPatched
<1> HIDE DEF s
<1>4. a \in Node /\ a.taint = node[n].taint
    BY <1>1, <1>2 DEF Node
<1>5. node' = [node EXCEPT ![n] = a]
    BY <1>3
<1> HIDE DEF a
<1> QED BY <1>1, <1>4, <1>5

\* The types of the Nodes are kept by every step.
LEMMA NodesStep ==
    ASSUME TypeOK, Evicting, NoOvercommit, [Next]_vars
    PROVE  NodesType'
<1>0. /\ NodesType /\ PodsType /\ todo \subseteq Nodes /\ requested \in Quantities
      /\ \A n \in Nodes : view.status[n] \in [Indexes -> Reports]
      /\ pc = "untaint" => current \in Nodes
    BY TypeParts DEF ControllerType, Views, Status, Reports, Evicting
<1>1. CASE UNCHANGED <<node, cache, status, devices>>
    BY <1>0, <1>1 DEF NodesType
<1>2. ASSUME node' \in [Nodes -> Node], UNCHANGED <<cache, status, devices>>
      PROVE  NodesType'
    BY <1>0, <1>2 DEF NodesType
<1>3. CASE ReconcileNoPods \/ ReconcilePods \/ Evict \/ EvictFails
    BY <1>1, <1>3 DEF ReconcileNoPods, ReconcilePods, Evict, EvictFails
<1>4. CASE CleanupTaint
    <2>1. UNCHANGED <<cache, status, devices>>
        BY <1>4 DEF CleanupTaint
    <2>2. CASE UNCHANGED node
        BY <1>1, <2>1, <2>2
    <2>3. CASE \E n \in todo : removeRepartitioningTaint(n)
        <3>1. node' \in [Nodes -> Node]
            BY <1>0, <2>3, TaintRemoved
        <3> QED BY <1>2, <2>1, <3>1
    <2> QED BY <1>4, <2>2, <2>3 DEF CleanupTaint
<1>5. CASE UpdateNodeGeometry
    <2>1. UNCHANGED <<cache, status, devices>>
        BY <1>5 DEF UpdateNodeGeometry
    <2>2. CASE UNCHANGED node
        BY <1>1, <2>1, <2>2
    <2>3. ASSUME NEW n \in todo, NEW gs \in extractGPUs(view.status[n]),
                 node' = SpecPatched(n, view.node[n].spec,
                             BuildNodePartitioning(UpdateNode(gs, requested).gpus, Indexes))
          PROVE  NodesType'
        <3>1. n \in Nodes
            BY <1>0
        <3>2. BuildNodePartitioning(UpdateNode(gs, requested).gpus, Indexes) \in [Indexes -> Quantities]
            BY <1>0, <3>1, RepartitionType
        <3>3. node' \in [Nodes -> Node]
            BY <1>0, <2>3, <3>1, <3>2, Respecified
        <3> QED BY <1>2, <2>1, <3>3
    <2> QED BY <1>5, <2>2, <2>3 DEF UpdateNodeGeometry
<1>6. CASE TryPreemption
    <2>1. UNCHANGED <<cache, status, devices>>
        BY <1>6 DEF TryPreemption
    <2>2. CASE UNCHANGED node
        BY <1>1, <2>1, <2>2
    <2>3. ASSUME NEW n \in todo, node' = [node EXCEPT ![n].taint = @ \/ ~view.node[n].taint]
          PROVE  NodesType'
        <3> DEFINE b == node[n].taint \/ ~view.node[n].taint
        <3>1. n \in Nodes
            BY <1>0
        <3>2. b \in BOOLEAN
            BY <1>0, <3>1, NodeFields
        <3>3. node' = [node EXCEPT ![n].taint = b]
            BY <2>3
        <3> HIDE DEF b
        <3>4. node' \in [Nodes -> Node]
            BY <1>0, <3>1, <3>2, <3>3, Retainted
        <3> QED BY <1>2, <2>1, <3>4
    <2> QED BY <1>6, <2>2, <2>3 DEF TryPreemption
<1>7. CASE Untaint
    <2>1. UNCHANGED <<cache, status, devices>> /\ current \in Nodes
        BY <1>0, <1>7 DEF Untaint
    <2>2. CASE UNCHANGED node
        BY <1>1, <2>1, <2>2
    <2>3. CASE removeRepartitioningTaint(current)
        <3>1. node' \in [Nodes -> Node]
            BY <1>0, <2>1, <2>3, TaintRemoved
        <3> QED BY <1>2, <2>1, <3>1
    <2> QED BY <1>7, <2>2, <2>3 DEF Untaint
<1>8. ASSUME NEW n \in Nodes, InitNodePartitioning(n)
      PROVE  NodesType'
    <2> DEFINE new(gs) == BuildNodePartitioning(
               [k \in DOMAIN gs |-> IF isIdle(gs[k]) THEN ApplyGeometry(gs[k], GetFewestSlicesGeometry)
                                    ELSE gs[k]], Indexes)
    <2>1. PICK gs \in extractGPUs(status[n]) : node' = SpecPatched(n, cache[n].spec, new(gs))
        BY <1>8 DEF InitNodePartitioning
    <2>2. new(gs) \in [Indexes -> Quantities]
        BY <1>0, NodeFields, InitialType
    <2> HIDE DEF new
    <2>3. node' \in [Nodes -> Node]
        BY <1>0, <2>1, <2>2, Respecified
    <2> QED BY <1>2, <1>8, <2>3 DEF InitNodePartitioning
<1>9. ASSUME NEW n \in Nodes, SyncNode(n)
      PROVE  NodesType'
    BY <1>0, <1>9 DEF SyncNode, NodesType
<1>10. ASSUME NEW n \in Nodes, AgentApply(n)
       PROVE  NodesType'
    <2>1. UNCHANGED <<cache, status>>
        BY <1>10 DEF AgentApply
    <2>2. CASE devices' = [devices EXCEPT ![n] = node[n].spec] /\ UNCHANGED node
        <3>1. devices' \in [Nodes -> [Indexes -> Quantities]]
            BY <1>0, <2>2, NodeFields DEF NodesType
        <3> QED BY <1>0, <2>1, <2>2, <3>1 DEF NodesType
    <2>3. CASE node' = [node EXCEPT ![n].taint = FALSE] /\ UNCHANGED devices
        <3>1. node' \in [Nodes -> Node]
            BY <1>0, <2>3, Retainted
        <3> QED BY <1>2, <2>1, <2>3, <3>1
    <2>4. CASE node' = [node EXCEPT ![n].spec = NoSpec] /\ UNCHANGED devices
        <3>1. node' \in [Nodes -> Node]
            BY ZenonT(60), <1>0, <2>4, PlainTypes DEF NodesType, Node
        <3> QED BY <1>2, <2>1, <2>4, <3>1
    <2> QED BY <1>10, <2>2, <2>3, <2>4 DEF AgentApply
<1>11. ASSUME NEW n \in Nodes, AgentReport(n)
       PROVE  NodesType'
    <2>1. status' = [status EXCEPT ![n] = StatusOf(n)] /\ UNCHANGED <<node, cache, devices>>
        BY <1>11 DEF AgentReport
    <2>2. StatusOf(n) \in Status
        BY <1>0, StatusType
    <2> QED BY <1>0, <2>1, <2>2 DEF NodesType
<1>12. ASSUME NEW p \in Pods, SyncPod(p) \/ Scheduler(p) \/ Finish(p) \/ Withdraw(p) \/ Terminate(p)
       PROVE  NodesType'
    <2>1. UNCHANGED <<node, cache, status, devices>>
        BY <1>12 DEF SyncPod, Scheduler, Bind, Finish, Withdraw, Terminate, PodOnly
    <2> QED BY <1>1, <2>1
<1>13. CASE UNCHANGED vars
    BY <1>1, <1>13 DEF vars
<1> QED BY <1>3, <1>4, <1>5, <1>6, <1>7, <1>8, <1>9, <1>10, <1>11, <1>12, <1>13
        DEF Next, PodController, Agent

-----------------------------------------------------------------------------
(***************************************************************************)
(* The types of the Pods and of the Pod controller                         *)
(***************************************************************************)
LEMMA AllocatedType ==
    ASSUME NEW p \in Pods, NEW n \in Nodes, NEW f \in Allocations(p, n)
    PROVE  /\ f \in [Indexes -> Quantities]
           /\ \A i \in Indexes : \A m \in MigProfiles : f[i][m] <= Free(n, i)[m]
<1>1. f \in [Indexes -> [MigProfiles -> 0..Max({Request[p][m] : m \in MigProfiles})]]
    BY DEF Allocations
<1>2. \A k \in 0..Max({Request[p][m] : m \in MigProfiles}) : k \in Nat
    OBVIOUS
<1>3. f \in [Indexes -> Quantities]
    BY <1>1, <1>2 DEF Quantities
<1> QED BY <1>3 DEF Allocations

\* The types of the Pods are kept by every step.
LEMMA PodsStep ==
    ASSUME TypeOK, Evicting, [Next]_vars
    PROVE  PodsType'
<1>0. PodsType /\ ControllerType
    BY TypeParts
<1> DEFINE Pod == [phase : Phases, at : Places, devices : [Indexes -> Quantities]]
<1>1. CASE UNCHANGED <<pod, podCache>>
    BY <1>0, <1>1 DEF PodsType
<1>2. ASSUME NEW p \in Pods, NEW q \in Pod, pod' = [pod EXCEPT ![p] = q], podCache' = podCache
      PROVE  PodsType'
    BY <1>0, <1>2 DEF PodsType
<1>3. CASE Evict
    <2> DEFINE p == Head(victims)
               q == [pod[p] EXCEPT !.phase = IF @ = "finished" THEN "gone" ELSE "terminating"]
    <2>1. p \in Pods
        BY <1>0, <1>3 DEF Evict, Evicting, ControllerType
    <2>2. q \in Pod
        BY <1>0, <2>1 DEF PodsType, Phases
    <2>3. pod' = [pod EXCEPT ![p] = q] /\ podCache' = podCache
        BY <1>3 DEF Evict
    <2> HIDE DEF p, q
    <2> QED BY <1>2, <2>1, <2>2, <2>3
<1>4. ASSUME NEW p \in Pods, SyncPod(p)
      PROVE  PodsType'
    <2>1. Listed(p) \in [phase : Phases, at : Places]
        BY <1>0 DEF Listed, PodsType, Phases, Places
    <2> QED BY <1>0, <1>4, <2>1 DEF SyncPod, PodsType
<1>5. ASSUME NEW p \in Pods, NEW n \in Nodes, Bind(p, n)
      PROVE  PodsType'
    <2>1. PICK f \in Allocations(p, n) :
             pod' = [pod EXCEPT ![p] = [phase |-> "running", at |-> n, devices |-> f]]
        BY <1>5 DEF Bind
    <2>2. [phase |-> "running", at |-> n, devices |-> f] \in Pod
        BY AllocatedType DEF Phases, Places
    <2> QED BY <1>2, <1>5, <2>1, <2>2 DEF Bind, PodOnly
<1>6. ASSUME NEW p \in Pods, Finish(p)
      PROVE  PodsType'
    <2> DEFINE q == [pod[p] EXCEPT !.phase = "finished", !.devices = NoSpec]
    <2>1. q \in Pod
        BY ZenonT(60), <1>0, PlainTypes DEF PodsType, Phases
    <2>2. pod' = [pod EXCEPT ![p] = q] /\ podCache' = podCache
        BY <1>0, <1>6 DEF Finish, PodOnly, PodsType
    <2> HIDE DEF q
    <2> QED BY <1>2, <2>1, <2>2
<1>7. ASSUME NEW p \in Pods, Withdraw(p)
      PROVE  PodsType'
    <2> DEFINE q == [pod[p] EXCEPT !.phase = "gone"]
    <2>1. q \in Pod
        BY <1>0 DEF PodsType, Phases
    <2>2. pod' = [pod EXCEPT ![p] = q] /\ podCache' = podCache
        BY <1>7 DEF Withdraw, PodOnly
    <2> HIDE DEF q
    <2> QED BY <1>2, <2>1, <2>2
<1>8. ASSUME NEW p \in Pods, Terminate(p)
      PROVE  PodsType'
    <2>1. [phase |-> "gone", at |-> "nowhere", devices |-> NoSpec] \in Pod
        BY PlainTypes DEF Phases, Places
    <2> QED BY <1>2, <1>8, <2>1 DEF Terminate, PodOnly
<1>9. CASE ReconcileNoPods \/ ReconcilePods \/ CleanupTaint \/ UpdateNodeGeometry
             \/ TryPreemption \/ EvictFails \/ Untaint
    <2>1. UNCHANGED <<pod, podCache>>
        BY <1>9 DEF ReconcileNoPods, ReconcilePods, CleanupTaint, UpdateNodeGeometry,
                    TryPreemption, EvictFails, Untaint
    <2> QED BY <1>1, <2>1
<1>10. ASSUME NEW n \in Nodes, InitNodePartitioning(n) \/ SyncNode(n) \/ Agent(n)
       PROVE  PodsType'
    <2>1. UNCHANGED <<pod, podCache>>
        BY <1>10 DEF InitNodePartitioning, SyncNode, Agent, AgentApply, AgentReport
    <2> QED BY <1>1, <2>1
<1>11. CASE UNCHANGED vars
    BY <1>1, <1>11 DEF vars
<1> QED BY <1>3, <1>4, <1>5, <1>6, <1>7, <1>8, <1>9, <1>10, <1>11
        DEF Next, PodController, Scheduler

\* The end of a reconciliation, the next node, and the way to preemption.
LEMMA DoneType ==
    ASSUME Done
    PROVE  ControllerType'
<1>1. victims' = <<>> /\ lifted' = FALSE /\ current' = "nowhere" /\ target' = 0 /\ todo' = {}
      /\ pc' = "idle" /\ view' = NoView /\ requested' = NoDevices
    BY DEF Done, NoVictims
<1>2. view' \in Views /\ requested' \in Quantities
    BY <1>1, PlainTypes
<1>3. victims' \in Seq(Pods) /\ todo' \in SUBSET Nodes
    BY <1>1
<1>4. current' \in Places /\ target' \in Pods \cup {0} /\ lifted' \in BOOLEAN
    BY <1>1 DEF Places
<1> QED BY <1>1, <1>2, <1>3, <1>4 DEF ControllerType, Views

LEMMA NextNodeType ==
    ASSUME ControllerType, NEW n, NEW s \in {"cleanAll", "clean", "repartition", "preempt"},
           NextNode(n, s)
    PROVE  ControllerType'
<1>1. CASE todo = {n}
    BY <1>1, DoneType DEF NextNode
<1>2. CASE todo # {n}
    <2>1. pc' = s /\ todo' = todo \ {n} /\ victims' = <<>> /\ lifted' = FALSE
          /\ current' = "nowhere" /\ UNCHANGED <<view, target, requested>>
        BY <1>2 DEF NextNode, NoVictims
    <2>2. lifted' \in BOOLEAN /\ current' \in Places
        BY <2>1 DEF Places
    <2>3. todo' \in SUBSET Nodes
        BY <2>1 DEF ControllerType
    <2>4. victims' \in Seq(Pods)
        BY <2>1
    <2> QED BY <2>1, <2>2, <2>3, <2>4 DEF ControllerType, Views
<1> QED BY <1>1, <1>2

\* The nodes as they are looked at without their spec.
LEMMA SpeclessType ==
    ASSUME NEW v \in Views
    PROVE  Specless(v) \in Views
<1>1. [n \in Nodes |-> [v.node[n] EXCEPT !.spec = NoSpec]] \in [Nodes -> Node]
    BY PlainTypes DEF Views, Node
<1>2. Specless(v) = [v EXCEPT !.node = [n \in Nodes |-> [v.node[n] EXCEPT !.spec = NoSpec]]]
    BY DEF Specless, Views
<1> QED BY <1>1, <1>2 DEF Views

LEMMA PreemptType ==
    ASSUME ControllerType, Preempt
    PROVE  ControllerType'
<1>1. pc' = "preempt" /\ view' = Specless(view) /\ todo' = Nodes /\ requested' = NoDevices
      /\ victims' = <<>> /\ lifted' = FALSE /\ current' = "nowhere" /\ target' = target
    BY DEF Preempt, NoVictims
<1>2. view' \in Views /\ requested' \in Quantities
    BY <1>1, SpeclessType, PlainTypes DEF ControllerType
<1>3. lifted' \in BOOLEAN /\ current' \in Places /\ todo' \in SUBSET Nodes
    BY <1>1 DEF Places
<1>4. victims' \in Seq(Pods)
    BY <1>1
<1> QED BY <1>1, <1>2, <1>3, <1>4 DEF ControllerType, Views

\* The types of the Pod controller are kept by every step.
LEMMA ControllerStep ==
    ASSUME TypeOK, Evicting, [Next]_vars
    PROVE  ControllerType'
<1>0. NodesType /\ ControllerType
    BY TypeParts
<1>1. CASE UNCHANGED <<ctrlVars, lifted>>
    BY <1>0, <1>1 DEF ctrlVars, ControllerType, Views
<1>2. CASE ReconcileNoPods
    <2>1. todo' \in SUBSET Nodes
        BY <1>2 DEF ReconcileNoPods, Tainted
    <2> QED BY <1>0, <1>2, <2>1 DEF ReconcileNoPods, ControllerType, Views
<1>3. CASE ReconcilePods
    <2>1. target' \in Pods
        <3>1. PendingPods # <<>> /\ target' = Head(PendingPods)
            BY <1>3 DEF ReconcilePods
        <3> QED BY <3>1, PendingType
    <2>2. Listing \in Views /\ Specless(Listing) \in Views
        <3>1. Listing \in Views
            BY <1>0 DEF Listing, NodesType, Views
        <3> QED BY <3>1, SpeclessType
    <2>3. /\ pc' \in {"repartition", "clean", "preempt"}
          /\ todo' \in SUBSET Nodes /\ view' \in Views
        BY <1>3, <2>2 DEF ReconcilePods, Tainted
    <2>4. requested' \in Quantities
        <3>1. PICK m \in PlannedPods(status, PendingPods) :
                 requested' = RequestOf(PendingPods, m) \/ requested' = requested
            BY <1>3 DEF ReconcilePods
        <3>2. m \in 0..Len(PendingPods)
            BY DEF PlannedPods
        <3>3. RequestOf(PendingPods, m) \in Quantities
            BY <3>2, PendingType, RequestType
        <3> QED BY <1>0, <3>1, <3>3 DEF ControllerType
    <2>5. UNCHANGED <<current, victims, lifted>>
        BY <1>3 DEF ReconcilePods
    <2> QED BY <1>0, <2>1, <2>3, <2>4, <2>5 DEF ControllerType, Views
<1>4. CASE CleanupTaint
    <2>1. CASE Done
        BY <2>1, DoneType
    <2>2. CASE Preempt
        BY <1>0, <2>2, PreemptType
    <2>3. CASE \E n \in todo : NextNode(n, pc)
        BY <1>0, <1>4, <2>3, NextNodeType DEF CleanupTaint
    <2> QED BY <1>4, <2>1, <2>2, <2>3 DEF CleanupTaint
<1>5. CASE UpdateNodeGeometry
    <2>1. CASE Done
        BY <2>1, DoneType
    <2>2. CASE Preempt
        BY <1>0, <2>2, PreemptType
    <2>3. CASE \E n \in todo : NextNode(n, pc)
        BY <1>0, <1>5, <2>3, NextNodeType DEF UpdateNodeGeometry
    <2> QED BY <1>5, <2>1, <2>2, <2>3 DEF UpdateNodeGeometry
<1>6. CASE TryPreemption
    <2>1. CASE Done
        BY <2>1, DoneType
    <2>2. CASE \E n \in todo : NextNode(n, pc)
        BY <1>0, <1>6, <2>2, NextNodeType DEF TryPreemption
    <2>3. ASSUME NEW n \in todo, NEW found \in findVictims(n),
                 pc' = "evict" /\ current' = n /\ victims' = found
                 /\ UNCHANGED <<view, todo, target, requested, lifted, faults>>
          PROVE  ControllerType'
        <3>1. n \in Nodes /\ view.status[n] \in [Indexes -> Reports]
            BY <1>0 DEF ControllerType, Views, Status, Reports
        <3>2. found \in Seq(Evictable(n)) /\ Evictable(n) \subseteq Pods
            BY <3>1, VictimsFound DEF Evictable
        <3>3. victims' \in Seq(Pods) /\ current' \in Places
            BY <2>3, <3>1, <3>2 DEF Places
        <3> QED BY <1>0, <2>3, <3>3 DEF ControllerType, Views
    <2> QED BY <1>6, <2>1, <2>2, <2>3 DEF TryPreemption
<1>7. CASE Evict
    <2>1. CASE Done
        BY <2>1, DoneType
    <2>2. CASE victims' = Tail(victims) /\ UNCHANGED <<pc, view, todo, current, target, requested, lifted>>
        <3>1. Tail(victims) \in Seq(Pods)
            BY <1>0, <1>7 DEF Evict, Evicting, ControllerType
        <3> QED BY <1>0, <2>2, <3>1 DEF ControllerType, Views
    <2> QED BY <1>7, <2>1, <2>2 DEF Evict
<1>8. CASE EvictFails
    BY <1>0, <1>8 DEF EvictFails, ControllerType, Views
<1>9. CASE Untaint
    BY <1>0, <1>9, NextNodeType DEF Untaint
<1>10. ASSUME NEW n \in Nodes, InitNodePartitioning(n) \/ SyncNode(n) \/ AgentReport(n)
       PROVE  ControllerType'
    <2>1. UNCHANGED <<ctrlVars, lifted>>
        BY <1>10 DEF InitNodePartitioning, SyncNode, AgentReport
    <2> QED BY <1>1, <2>1
<1>11. ASSUME NEW n \in Nodes, AgentApply(n)
       PROVE  ControllerType'
    <2>1. UNCHANGED ctrlVars
        BY <1>11 DEF AgentApply
    <2>2. lifted' \in BOOLEAN
        BY <1>0, <1>11 DEF AgentApply, ControllerType
    <2> QED BY <1>0, <2>1, <2>2 DEF ctrlVars, ControllerType, Views
<1>12. ASSUME NEW p \in Pods, SyncPod(p) \/ Scheduler(p) \/ Finish(p) \/ Withdraw(p) \/ Terminate(p)
       PROVE  ControllerType'
    <2>1. UNCHANGED <<ctrlVars, lifted>>
        BY <1>12 DEF SyncPod, Scheduler, Bind, Finish, Withdraw, Terminate, PodOnly
    <2> QED BY <1>1, <2>1
<1>13. CASE UNCHANGED vars
    BY <1>1, <1>13 DEF vars
<1> QED BY <1>2, <1>3, <1>4, <1>5, <1>6, <1>7, <1>8, <1>9, <1>10, <1>11, <1>12, <1>13
        DEF Next, PodController, Agent

\* The bound on faults is kept.
LEMMA FaultsStep ==
    ASSUME faults \in 0..MaxFaults, [Next]_vars
    PROVE  faults' \in 0..MaxFaults
<1>1. CASE UNCHANGED faults
    BY <1>1
<1>2. CASE Fault
    BY <1>2, NodesAssumption DEF Fault
<1>3. ASSUME NEW n \in Nodes, InitNodePartitioning(n) \/ SyncNode(n) \/ Agent(n)
      PROVE  UNCHANGED faults
    BY <1>3 DEF InitNodePartitioning, SyncNode, Agent, AgentApply, AgentReport
<1>4. ASSUME NEW p \in Pods, SyncPod(p) \/ Scheduler(p) \/ Finish(p) \/ Withdraw(p) \/ Terminate(p)
      PROVE  UNCHANGED faults
    BY <1>4 DEF SyncPod, Scheduler, Bind, Finish, Withdraw, Terminate, PodOnly
<1>5. CASE PodController
    BY <1>1, <1>2, <1>5 DEF PodController, ReconcileNoPods, ReconcilePods, CleanupTaint,
           UpdateNodeGeometry, TryPreemption, Evict, EvictFails, Untaint
<1>6. CASE UNCHANGED vars
    BY <1>1, <1>6 DEF vars
<1> QED BY <1>1, <1>3, <1>4, <1>5, <1>6 DEF Next

-----------------------------------------------------------------------------
(***************************************************************************)
(* Every step keeps the invariant                                          *)
(***************************************************************************)
\* One Pod changes.
OnlyPod(p, q) == pod' = [pod EXCEPT ![p] = q] /\ podCache' = podCache

\* The actions that change Pods.
LEMMA PodChanges ==
    ASSUME TypeOK, Evicting, [Next]_vars
    PROVE  \/ UNCHANGED <<pod, podCache>>
           \/ \E p \in Pods : podCache' = [podCache EXCEPT ![p] = Listed(p)] /\ pod' = pod
           \/ \E p \in Pods :
                \/ /\ pc = "evict" /\ p = Head(victims) /\ pod[p].phase # "gone"
                   /\ OnlyPod(p, [pod[p] EXCEPT !.phase = IF @ = "finished" THEN "gone" ELSE "terminating"])
                \/ /\ pod[p].phase = "unschedulable"
                   /\ \E n \in Nodes : \E f \in Allocations(p, n) :
                        OnlyPod(p, [phase |-> "running", at |-> n, devices |-> f])
                \/ /\ pod[p].phase = "running"
                   /\ OnlyPod(p, [pod[p] EXCEPT !.phase = "finished", !.devices = NoSpec])
                \/ /\ pod[p].phase = "unschedulable"
                   /\ OnlyPod(p, [pod[p] EXCEPT !.phase = "gone"])
                \/ /\ pod[p].phase = "terminating"
                   /\ OnlyPod(p, [phase |-> "gone", at |-> "nowhere", devices |-> NoSpec])
<1>0. PodsType /\ ControllerType
    BY TypeParts
<1>1. CASE Evict
    <2> DEFINE p == Head(victims)
    <2>1. p \in Pods
        BY <1>0, <1>1 DEF Evict, Evicting, ControllerType
    <2>2. /\ pc = "evict" /\ pod[p].phase # "gone"
          /\ OnlyPod(p, [pod[p] EXCEPT !.phase = IF @ = "finished" THEN "gone" ELSE "terminating"])
        BY <1>1 DEF Evict, OnlyPod
    <2> QED BY <2>1, <2>2
<1>2. ASSUME NEW p \in Pods, SyncPod(p)
      PROVE  podCache' = [podCache EXCEPT ![p] = Listed(p)] /\ pod' = pod
    BY <1>2 DEF SyncPod
<1>3. ASSUME NEW p \in Pods, Scheduler(p)
      PROVE  /\ pod[p].phase = "unschedulable"
             /\ \E n \in Nodes : \E f \in Allocations(p, n) :
                   OnlyPod(p, [phase |-> "running", at |-> n, devices |-> f])
    BY <1>3 DEF Scheduler, Bind, PodOnly, OnlyPod
<1>4. ASSUME NEW p \in Pods, Finish(p)
      PROVE  /\ pod[p].phase = "running"
             /\ OnlyPod(p, [pod[p] EXCEPT !.phase = "finished", !.devices = NoSpec])
    BY <1>0, <1>4 DEF Finish, PodOnly, OnlyPod, PodsType
<1>5. ASSUME NEW p \in Pods, Withdraw(p)
      PROVE  pod[p].phase = "unschedulable" /\ OnlyPod(p, [pod[p] EXCEPT !.phase = "gone"])
    BY <1>5 DEF Withdraw, PodOnly, OnlyPod
<1>6. ASSUME NEW p \in Pods, Terminate(p)
      PROVE  /\ pod[p].phase = "terminating"
             /\ OnlyPod(p, [phase |-> "gone", at |-> "nowhere", devices |-> NoSpec])
    BY <1>6 DEF Terminate, PodOnly, OnlyPod
<1>7. CASE ReconcileNoPods \/ ReconcilePods \/ CleanupTaint \/ UpdateNodeGeometry
             \/ TryPreemption \/ EvictFails \/ Untaint
    BY <1>7 DEF ReconcileNoPods, ReconcilePods, CleanupTaint, UpdateNodeGeometry,
                TryPreemption, EvictFails, Untaint
<1>8. ASSUME NEW n \in Nodes, InitNodePartitioning(n) \/ SyncNode(n) \/ Agent(n)
      PROVE  UNCHANGED <<pod, podCache>>
    BY <1>8 DEF InitNodePartitioning, SyncNode, Agent, AgentApply, AgentReport
<1>9. CASE UNCHANGED vars
    BY <1>9 DEF vars
<1> QED BY <1>1, <1>2, <1>3, <1>4, <1>5, <1>6, <1>7, <1>8, <1>9 DEF Next, PodController

\* What is left as it is when one Pod changes.
LEMMA PodChanged ==
    ASSUME PodsType, NEW p \in Pods, NEW q, OnlyPod(p, q)
    PROVE  pod'[p] = q /\ (\A r \in Pods \ {p} : pod'[r] = pod[r]) /\ podCache' = podCache
BY DEF OnlyPod, PodsType

\* A Pod that finishes stays on its node.
LEMMA Finished ==
    ASSUME PodsType, NEW p \in Pods, OnlyPod(p, [pod[p] EXCEPT !.phase = "finished", !.devices = NoSpec])
    PROVE  /\ pod'[p].phase = "finished" /\ pod'[p].at = pod[p].at /\ pod'[p].devices = NoSpec
           /\ podCache' = podCache
<1> DEFINE q == [pod[p] EXCEPT !.phase = "finished", !.devices = NoSpec]
<1>1. pod[p] \in [phase : Phases, at : Places, devices : [Indexes -> Quantities]]
    BY DEF PodsType
<1>2. q.phase = "finished" /\ q.at = pod[p].at /\ q.devices = NoSpec
    BY <1>1
<1> HIDE DEF q
<1>3. pod'[p] = q /\ podCache' = podCache
    BY PodChanged DEF q
<1> QED BY <1>2, <1>3

\* Every step leaves every Pod where it may be.
LEMMA PlacedStep ==
    ASSUME TypeOK, PodsPlaced, Evicting, [Next]_vars
    PROVE  PodsPlaced'
<1>0. PodsType /\ ControllerType /\ \A p \in Pods : Placed(p)
    BY TypeParts DEF PodsPlaced
<1>1. ASSUME NEW p \in Pods, NEW q, OnlyPod(p, q), Placed(p)'
      PROVE  PodsPlaced'
    <2>1. (\A r \in Pods \ {p} : pod'[r] = pod[r]) /\ podCache' = podCache
        BY <1>0, <1>1, PodChanged
    <2> QED BY <1>0, <1>1, <2>1 DEF PodsPlaced, Placed
<1>2. CASE UNCHANGED <<pod, podCache>>
    BY <1>0, <1>2 DEF PodsPlaced, Placed
<1>3. ASSUME NEW p \in Pods, podCache' = [podCache EXCEPT ![p] = Listed(p)], pod' = pod
      PROVE  PodsPlaced'
    <2>1. /\ \A r \in Pods \ {p} : podCache'[r] = podCache[r]
          /\ podCache'[p].at \in {pod[p].at, "nowhere"}
          /\ podCache'[p].at # "nowhere" => pod[p].phase \in {"running", "finished"}
        BY <1>0, <1>3 DEF PodsType, Listed
    <2>2. Placed(p)'
        BY <1>0, <1>3, <2>1, NodesAssumption DEF Placed
    <2> QED BY <1>0, <1>3, <2>1, <2>2 DEF PodsPlaced, Placed
<1> USE DEF Placed
<1>4. ASSUME NEW p \in Pods, pc = "evict", p = Head(victims), pod[p].phase # "gone",
             OnlyPod(p, [pod[p] EXCEPT !.phase = IF @ = "finished" THEN "gone" ELSE "terminating"])
      PROVE  PodsPlaced'
    <2>1. Victim(p)
        BY <1>0, <1>4 DEF Evicting, ControllerType
    <2>2. /\ pod'[p].phase = (IF pod[p].phase = "finished" THEN "gone" ELSE "terminating")
          /\ pod'[p].at = pod[p].at /\ podCache' = podCache
        BY <1>0, <1>4, PodChanged DEF PodsType
    <2>3. pod[p].phase \in {"running", "finished", "terminating"}
        BY <1>0, <1>4, <2>1 DEF PodsType, Phases, Victim
    <2>4. Placed(p)'
        BY <1>0, <2>1, <2>2, <2>3 DEF Victim
    <2> QED BY <1>1, <1>4, <2>4
<1>5. ASSUME NEW p \in Pods, pod[p].phase = "unschedulable", NEW n \in Nodes, NEW f,
             OnlyPod(p, [phase |-> "running", at |-> n, devices |-> f])
      PROVE  PodsPlaced'
    <2>1. pod'[p].phase = "running" /\ pod'[p].at = n /\ podCache' = podCache
        BY <1>0, <1>5, PodChanged
    <2>2. Placed(p)'
        BY <1>0, <1>5, <2>1
    <2> QED BY <1>1, <1>5, <2>2
<1>6. ASSUME NEW p \in Pods, pod[p].phase = "running",
             OnlyPod(p, [pod[p] EXCEPT !.phase = "finished", !.devices = NoSpec])
      PROVE  PodsPlaced'
    <2>1. pod'[p].phase = "finished" /\ pod'[p].at = pod[p].at /\ podCache' = podCache
        BY <1>0, <1>6, Finished
    <2>2. Placed(p)'
        BY <1>0, <1>6, <2>1
    <2> QED BY <1>1, <1>6, <2>2
<1>7. ASSUME NEW p \in Pods, pod[p].phase = "unschedulable",
             OnlyPod(p, [pod[p] EXCEPT !.phase = "gone"])
      PROVE  PodsPlaced'
    <2>1. pod'[p].phase = "gone" /\ pod'[p].at = pod[p].at /\ podCache' = podCache
        BY <1>0, <1>7, PodChanged DEF PodsType
    <2>2. Placed(p)'
        BY <1>0, <1>7, <2>1
    <2> QED BY <1>1, <1>7, <2>2
<1>8. ASSUME NEW p \in Pods, pod[p].phase = "terminating",
             OnlyPod(p, [phase |-> "gone", at |-> "nowhere", devices |-> NoSpec])
      PROVE  PodsPlaced'
    <2>1. pod'[p].phase = "gone" /\ pod'[p].at = "nowhere" /\ podCache' = podCache
        BY <1>0, <1>8, PodChanged
    <2>2. Placed(p)'
        BY <1>0, <1>8, <2>1
    <2> QED BY <1>1, <1>8, <2>2
<1> QED BY <1>2, <1>3, <1>4, <1>5, <1>6, <1>7, <1>8, PodChanges

\* A Pod that has been bound is never bound again.
LEMMA PodMoves ==
    ASSUME TypeOK, PodsPlaced, Evicting, [Next]_vars, NEW p \in Pods, pod[p].phase # "unschedulable"
    PROVE  pod'[p].phase # "unschedulable" /\ pod'[p].at \in {pod[p].at, "nowhere"}
<1>0. PodsType
    BY TypeParts
<1>1. CASE pod'[p] = pod[p]
    BY <1>1
<1>2. CASE pod'[p] # pod[p]
    <2>1. \/ OnlyPod(p, [pod[p] EXCEPT !.phase = IF @ = "finished" THEN "gone" ELSE "terminating"])
          \/ OnlyPod(p, [pod[p] EXCEPT !.phase = "finished", !.devices = NoSpec])
          \/ OnlyPod(p, [phase |-> "gone", at |-> "nowhere", devices |-> NoSpec])
        <3>1. \A r \in Pods : \A q : OnlyPod(r, q) => r = p
            BY <1>0, <1>2, PodChanged
        <3> QED BY <1>2, <3>1, PodChanges
    <2>2. CASE OnlyPod(p, [pod[p] EXCEPT !.phase = IF @ = "finished" THEN "gone" ELSE "terminating"])
        BY <1>0, <2>2, PodChanged DEF PodsType
    <2>3. CASE OnlyPod(p, [pod[p] EXCEPT !.phase = "finished", !.devices = NoSpec])
        BY <1>0, <2>3, Finished
    <2>4. CASE OnlyPod(p, [phase |-> "gone", at |-> "nowhere", devices |-> NoSpec])
        BY <1>0, <2>4, PodChanged
    <2> QED BY <2>1, <2>2, <2>3, <2>4
<1> QED BY <1>1, <1>2

\* A victim stays one, as long as the controller evicts from the same node.
LEMMA VictimKept ==
    ASSUME TypeOK, PodsPlaced, Evicting, [Next]_vars, NEW p \in Pods, Victim(p),
           UNCHANGED <<current, target>>
    PROVE  Victim(p)'
<1>1. pod'[p].phase # "unschedulable" /\ pod'[p].at \in {pod[p].at, "nowhere"}
    BY PodMoves DEF Victim
<1> QED BY <1>1 DEF Victim

\* So the evictions go on if their node keeps its taint.
LEMMA EvictingKept ==
    ASSUME TypeOK, PodsPlaced, Evicting, [Next]_vars,
           UNCHANGED <<pc, current, target, victims, view>>,
           current \in Nodes => node'[current].taint = node[current].taint \/ lifted',
           lifted => lifted'
    PROVE  Evicting'
<1>1. pc \in {"evict", "untaint"} => current \in Nodes /\ victims # <<>>
    BY DEF Evicting
<1>2. ASSUME pc = "evict"
      PROVE  /\ node'[current].taint \/ view.node[current].taint \/ lifted'
             /\ \A i \in DOMAIN victims : Victim(victims[i])'
    <2>1. \A i \in DOMAIN victims : victims[i] \in Pods /\ Victim(victims[i])
        BY <1>2, TypeParts DEF ControllerType, Evicting
    <2>2. \A i \in DOMAIN victims : Victim(victims[i])'
        BY <2>1, VictimKept DEF Victim
    <2>3. node'[current].taint \/ view.node[current].taint \/ lifted'
        BY <1>1, <1>2 DEF Evicting
    <2> QED BY <2>2, <2>3
<1> QED BY <1>1, <1>2 DEF Evicting, Victim

\* What is left of a list without its first element.
LEMMA Shortened ==
    ASSUME NEW T, NEW s \in Seq(T), s # <<>>, Len(s) # 1
    PROVE  Tail(s) # <<>> /\ \A i \in DOMAIN Tail(s) : \E k \in DOMAIN s : Tail(s)[i] = s[k]
<1>1. Len(s) \in Nat /\ Len(s) # 0 /\ DOMAIN s = 1..Len(s)
    OBVIOUS
<1>2. Tail(s) \in Seq(T) /\ Len(Tail(s)) = Len(s) - 1 /\ DOMAIN Tail(s) = 1..(Len(s) - 1)
    BY <1>1
<1>3. Tail(s) # <<>>
    <2>1. Len(Tail(s)) # 0
        BY <1>1, <1>2
    <2>2. Len(<<>>) = 0
        OBVIOUS
    <2> QED BY <2>1, <2>2
<1>4. ASSUME NEW i \in DOMAIN Tail(s)
      PROVE  \E k \in DOMAIN s : Tail(s)[i] = s[k]
    <2>1. i + 1 \in DOMAIN s
        BY <1>1, <1>2
    <2>2. Tail(s)[i] = s[i + 1]
        BY <1>1, <1>2
    <2> QED BY <2>1, <2>2
<1> QED BY <1>3, <1>4

\* Nor does one victim less end them.
LEMMA EvictingNext ==
    ASSUME TypeOK, PodsPlaced, Evicting, [Next]_vars, pc = "evict", Len(victims) # 1,
           victims' = Tail(victims), UNCHANGED <<pc, view, current, target, lifted, node>>
    PROVE  Evicting'
<1>1. current \in Nodes /\ victims # <<>> /\ victims \in Seq(Pods)
    BY TypeParts DEF Evicting, ControllerType
<1>2. victims' # <<>> /\ \A i \in DOMAIN victims' : \E k \in DOMAIN victims : victims'[i] = victims[k]
    BY <1>1, Shortened
<1>3. \A k \in DOMAIN victims : victims[k] \in Pods /\ Victim(victims[k])
    BY <1>1 DEF Evicting
<1>4. ASSUME NEW p \in Pods, Victim(p)
      PROVE  Victim(p)'
    BY <1>4, VictimKept
<1>5. \A i \in DOMAIN victims' : Victim(victims[i])'
    <2>1. SUFFICES ASSUME NEW i \in DOMAIN victims'
                   PROVE  Victim(victims[i])'
        OBVIOUS
    <2>2. PICK k \in DOMAIN victims : victims'[i] = victims[k]
        BY <1>2
    <2>3. PICK p \in Pods : p = victims[k]
        BY <1>3
    <2>4. Victim(p)'
        BY <1>3, <1>4, <2>3
    <2> QED BY <2>2, <2>3, <2>4 DEF Victim
<1>6. node'[current'].taint \/ view'.node[current'].taint \/ lifted'
    BY DEF Evicting
<1> QED BY <1>1, <1>2, <1>5, <1>6 DEF Evicting

\* Every step leaves the evictions behind their taint.
LEMMA EvictingStep ==
    ASSUME TypeOK, PodsPlaced, Evicting, [Next]_vars
    PROVE  Evicting'
<1>0. NodesType /\ ControllerType /\ \A p \in Pods : Placed(p)
    BY TypeParts DEF PodsPlaced
<1>1. CASE UNCHANGED <<pc, current, target, victims, view, node, lifted>>
    BY <1>1, EvictingKept
<1>2. ASSUME pc' \notin {"evict", "untaint"}
      PROVE  Evicting'
    BY <1>2 DEF Evicting
<1>3. ASSUME Done \/ Preempt \/ \E n, s : s \notin {"evict", "untaint"} /\ NextNode(n, s)
      PROVE  Evicting'
    <2>1. pc' \notin {"evict", "untaint"}
        BY <1>3 DEF Done, Preempt, NextNode
    <2> QED BY <1>2, <2>1
<1>4. CASE ReconcileNoPods \/ ReconcilePods
    <2>1. pc' \notin {"evict", "untaint"}
        BY <1>4 DEF ReconcileNoPods, ReconcilePods
    <2> QED BY <1>2, <2>1
<1>5. CASE CleanupTaint
    <2>1. pc \notin {"evict", "untaint"}
        BY <1>5 DEF CleanupTaint
    <2> QED BY <1>3, <1>5, <2>1 DEF CleanupTaint
<1>6. CASE UpdateNodeGeometry
    <2>1. pc \notin {"evict", "untaint"}
        BY <1>6 DEF UpdateNodeGeometry
    <2> QED BY <1>3, <1>6, <2>1 DEF UpdateNodeGeometry
<1>7. CASE TryPreemption
    <2>1. pc = "preempt"
        BY <1>7 DEF TryPreemption
    <2>2. CASE Done \/ \E n : NextNode(n, pc)
        BY <1>3, <2>1, <2>2
    <2>3. ASSUME NEW n \in todo, NEW found \in findVictims(n), found # <<>>,
                 node' = [node EXCEPT ![n].taint = @ \/ ~view.node[n].taint],
                 pc' = "evict" /\ current' = n /\ victims' = found,
                 UNCHANGED <<view, todo, target, requested, lifted, faults>>
          PROVE  Evicting'
        <3>1. n \in Nodes /\ view.status[n] \in [Indexes -> Reports] /\ view.node[n].taint \in BOOLEAN
            BY <1>0 DEF ControllerType, Views, Status, Reports, Node
        <3>2. found \in Seq(Evictable(n))
            BY <3>1, VictimsFound
        <3>3. ASSUME NEW i \in DOMAIN found
              PROVE  Victim(found[i])'
            <4> DEFINE p == found[i]
            <4>1. p \in Pods /\ p \notin DOMAIN Pinned /\ podCache[p].at = n /\ Priority[p] < Priority[target]
                BY <3>2 DEF Evictable
            <4>2. pod[p].phase # "unschedulable" /\ pod[p].at \in {n, "nowhere"}
                BY <1>0, <3>1, <4>1 DEF Placed
            <4>3. pod' = pod
                BY <1>7 DEF TryPreemption
            <4> HIDE DEF p
            <4>4. Victim(p)'
                BY <2>3, <4>1, <4>2, <4>3 DEF Victim
            <4> QED BY <4>4 DEF p
        <3>4. node'[n].taint = (node[n].taint \/ ~view.node[n].taint)
            <4> DEFINE b == node[n].taint \/ ~view.node[n].taint
            <4>1. b \in BOOLEAN
                BY <1>0, <3>1, NodeFields
            <4>2. node' = [node EXCEPT ![n].taint = b]
                BY <2>3
            <4> HIDE DEF b
            <4>3. node'[n].taint = b
                BY <1>0, <3>1, <4>1, <4>2, Retainted
            <4> QED BY <4>3 DEF b
        <3>5. node'[n].taint \/ view.node[n].taint
            BY <3>1, <3>4
        <3> QED BY <2>3, <3>1, <3>3, <3>5 DEF Evicting
    <2> QED BY <1>7, <2>1, <2>2, <2>3 DEF TryPreemption
<1>8. CASE Evict
    <2>1. CASE Done
        BY <1>3, <2>1
    <2>2. CASE Len(victims) # 1 /\ victims' = Tail(victims)
                 /\ UNCHANGED <<pc, view, todo, current, target, requested, lifted>>
        <3>1. pc = "evict" /\ node' = node
            BY <1>8 DEF Evict
        <3> QED BY <2>2, <3>1, EvictingNext
    <2> QED BY <1>8, <2>1, <2>2 DEF Evict
<1>9. CASE EvictFails
    <2>1. pc = "evict" /\ pc' = "untaint" /\ UNCHANGED <<current, victims>>
        BY <1>9 DEF EvictFails
    <2> QED BY <2>1 DEF Evicting
<1>10. CASE Untaint
    BY <1>3, <1>10 DEF Untaint
<1>11. ASSUME NEW n \in Nodes, InitNodePartitioning(n)
       PROVE  Evicting'
    <2> DEFINE new(gs) == BuildNodePartitioning(
               [k \in DOMAIN gs |-> IF isIdle(gs[k]) THEN ApplyGeometry(gs[k], GetFewestSlicesGeometry)
                                    ELSE gs[k]], Indexes)
    <2>1. PICK gs \in extractGPUs(status[n]) : node' = SpecPatched(n, cache[n].spec, new(gs))
        BY <1>11 DEF InitNodePartitioning
    <2>2. new(gs) \in [Indexes -> Quantities]
        BY <1>0, NodeFields, InitialType
    <2> HIDE DEF new
    <2>3. \A x \in Nodes : node'[x].taint = node[x].taint
        BY <1>0, <2>1, <2>2, Respecified
    <2>4. UNCHANGED <<pc, current, target, victims, view, lifted>>
        BY <1>11 DEF InitNodePartitioning, ctrlVars
    <2> QED BY <2>3, <2>4, EvictingKept
<1>12. ASSUME NEW n \in Nodes, SyncNode(n) \/ AgentReport(n)
       PROVE  Evicting'
    <2>1. UNCHANGED <<pc, current, target, victims, view, node, lifted>>
        BY <1>12 DEF SyncNode, AgentReport, ctrlVars
    <2> QED BY <1>1, <2>1
<1>13. ASSUME NEW n \in Nodes, AgentApply(n)
       PROVE  Evicting'
    <2>1. UNCHANGED <<pc, current, target, victims, view>>
        BY <1>13 DEF AgentApply, ctrlVars
    <2>2. CASE UNCHANGED <<node, lifted>>
        BY <1>1, <2>1, <2>2
    <2>3. CASE node' = [node EXCEPT ![n].taint = FALSE]
                 /\ lifted' = (lifted \/ (pc = "evict" /\ n = current /\ node[n].taint))
        <3>1. \A x \in Nodes \ {n} : node'[x] = node[x]
            BY <1>0, <2>3, Retainted
        <3>2. node'[n].taint = FALSE
            BY <1>0, <2>3, Retainted
        <3>3. CASE pc # "evict"
            BY <2>1, <3>3 DEF Evicting
        <3>4. CASE pc = "evict"
            <4>1. lifted \in BOOLEAN /\ node[n].taint \in BOOLEAN
                BY <1>0, NodeFields DEF ControllerType
            <4>2. current \in Nodes => node'[current].taint = node[current].taint \/ lifted'
                BY <2>3, <3>1, <3>2, <3>4, <4>1
            <4>3. lifted => lifted'
                BY <2>3
            <4> QED BY <2>1, <4>2, <4>3, EvictingKept
        <3> QED BY <3>3, <3>4
    <2>4. CASE node' = [node EXCEPT ![n].spec = NoSpec] /\ UNCHANGED lifted
        <3>1. \A x \in Nodes : node'[x].taint = node[x].taint
            BY <1>0, <2>4 DEF NodesType, Node
        <3> QED BY <2>1, <2>4, <3>1, EvictingKept
    <2> QED BY <1>13, <2>2, <2>3, <2>4 DEF AgentApply
<1>14. ASSUME NEW p \in Pods, SyncPod(p) \/ Scheduler(p) \/ Finish(p) \/ Withdraw(p) \/ Terminate(p)
       PROVE  Evicting'
    <2>1. UNCHANGED <<pc, current, target, victims, view, node, lifted>>
        BY <1>14 DEF SyncPod, Scheduler, Bind, Finish, Withdraw, Terminate, PodOnly, ctrlVars
    <2> QED BY <1>1, <2>1
<1>15. CASE UNCHANGED vars
    BY <1>1, <1>15 DEF vars, ctrlVars
<1> QED BY <1>4, <1>5, <1>6, <1>7, <1>8, <1>9, <1>10, <1>11, <1>12, <1>13, <1>14, <1>15
        DEF Next, PodController, Agent

\* The devices of a node change when its agent applies a spec that keeps those in use.
LEMMA DevicesChange ==
    ASSUME [Next]_vars
    PROVE  \/ UNCHANGED devices
           \/ \E n \in Nodes :
                /\ \A i \in Indexes : \A m \in MigProfiles : node[n].spec[i][m] >= Held(n, i)[m]
                /\ devices' = [devices EXCEPT ![n] = node[n].spec]
                /\ UNCHANGED pod
<1>1. CASE PodController
    BY <1>1 DEF PodController, ReconcileNoPods, ReconcilePods, CleanupTaint, UpdateNodeGeometry,
                TryPreemption, Evict, EvictFails, Untaint
<1>2. ASSUME NEW n \in Nodes, InitNodePartitioning(n) \/ SyncNode(n) \/ AgentReport(n)
      PROVE  UNCHANGED devices
    BY <1>2 DEF InitNodePartitioning, SyncNode, AgentReport
<1>3. ASSUME NEW n \in Nodes, AgentApply(n)
      PROVE  \/ UNCHANGED devices
             \/ /\ \A i \in Indexes : \A m \in MigProfiles : node[n].spec[i][m] >= Held(n, i)[m]
                /\ devices' = [devices EXCEPT ![n] = node[n].spec]
                /\ UNCHANGED pod
    BY <1>3 DEF AgentApply
<1>4. ASSUME NEW p \in Pods, SyncPod(p) \/ Scheduler(p) \/ Finish(p) \/ Withdraw(p) \/ Terminate(p)
      PROVE  UNCHANGED devices
    BY <1>4 DEF SyncPod, Scheduler, Bind, Finish, Withdraw, Terminate, PodOnly
<1>5. CASE UNCHANGED vars
    BY <1>5 DEF vars
<1> QED BY <1>1, <1>2, <1>3, <1>4, <1>5 DEF Next, Agent

\* No step lets Pods hold more devices than there are: a Pod gets free ones, and an agent
\* keeps what is held.
LEMMA OvercommitStep ==
    ASSUME TypeOK, PodsPlaced, Evicting, NoOvercommit, PodsType', [Next]_vars
    PROVE  NoOvercommit'
<1>0. PodsType /\ NodesType /\ \A p \in Pods : Placed(p)
    BY TypeParts DEF PodsPlaced
<1>1. SUFFICES ASSUME NEW n \in Nodes, NEW i \in Indexes, NEW m \in MigProfiles
               PROVE  Held(n, i)'[m] <= devices'[n][i][m]
    BY DEF NoOvercommit
<1>2. Held(n, i)[m] \in Nat /\ Held(n, i)'[m] \in Nat /\ devices[n][i][m] \in Nat
    <2>1. Held(n, i)[m] \in Nat
        BY <1>0, HeldNumber
    <2>2. Held(n, i)'[m] \in Nat
        BY HeldAfter
    <2> QED BY <1>0, <2>1, <2>2 DEF NodesType, Quantities
<1>3. Held(n, i)[m] <= devices[n][i][m]
    BY DEF NoOvercommit
<1>4. ASSUME pod' = pod
      PROVE  Held(n, i)'[m] = Held(n, i)[m]
    BY <1>4 DEF Held
<1>5. CASE UNCHANGED devices
    <2>1. ASSUME \A p \in Pods : pod'[p].at = n =>
                    pod[p].at = n /\ pod'[p].devices[i][m] <= pod[p].devices[i][m]
          PROVE  Held(n, i)'[m] <= devices'[n][i][m]
        <3>1. Held(n, i)'[m] <= Held(n, i)[m]
            BY <1>0, <2>1, HeldLess
        <3> QED BY <1>2, <1>3, <1>5, <3>1
    <2>2. ASSUME NEW p \in Pods, NEW q, OnlyPod(p, q), q.at \in {pod[p].at, "nowhere"},
                 q.devices = pod[p].devices \/ q.devices = NoSpec
          PROVE  Held(n, i)'[m] <= devices'[n][i][m]
        <3>1. pod'[p] = q /\ \A r \in Pods \ {p} : pod'[r] = pod[r]
            BY <1>0, <2>2, PodChanged
        <3>2. \A r \in Pods : pod[r].devices[i][m] \in Nat
            BY <1>0 DEF PodsType, Quantities
        <3>3. NoSpec[i][m] = 0 /\ n # "nowhere"
            BY PlainTypes, NodesAssumption
        <3>4. pod'[p].devices[i][m] <= pod[p].devices[i][m]
            BY <2>2, <3>1, <3>2, <3>3
        <3>5. pod'[p].at = n => pod[p].at = n
            BY <2>2, <3>1, <3>3
        <3>6. \A r \in Pods \ {p} : pod'[r].devices[i][m] <= pod[r].devices[i][m]
            BY <3>1, <3>2
        <3> QED BY <2>1, <3>1, <3>4, <3>5, <3>6
    <2>3. CASE pod' = pod
        BY <1>2, <1>3, <1>4, <1>5, <2>3
    <2>4. ASSUME NEW p \in Pods,
                 OnlyPod(p, [pod[p] EXCEPT !.phase = IF @ = "finished" THEN "gone" ELSE "terminating"])
          PROVE  Held(n, i)'[m] <= devices'[n][i][m]
        <3> DEFINE q == [pod[p] EXCEPT !.phase = IF @ = "finished" THEN "gone" ELSE "terminating"]
        <3>1. q.at = pod[p].at /\ q.devices = pod[p].devices
            BY <1>0 DEF PodsType
        <3> HIDE DEF q
        <3>2. OnlyPod(p, q)
            BY <2>4 DEF q
        <3> QED BY <2>2, <3>1, <3>2
    <2>5. ASSUME NEW p \in Pods, pod[p].phase = "unschedulable", NEW x \in Nodes,
                 NEW f \in Allocations(p, x),
                 OnlyPod(p, [phase |-> "running", at |-> x, devices |-> f])
          PROVE  Held(n, i)'[m] <= devices'[n][i][m]
        <3>1. /\ pod'[p].at = x /\ pod'[p].devices = f
              /\ \A r \in Pods \ {p} : pod'[r] = pod[r]
            BY <1>0, <2>5, PodChanged
        <3>2. f[i][m] \in Nat /\ f[i][m] <= Free(x, i)[m]
            BY <2>5, AllocatedType DEF Quantities
        <3>3. CASE x = n
            <4>1. Held(n, i)'[m] = Held(n, i)[m] + f[i][m]
                <5>1. pod[p].at # n
                    BY <1>0, <2>5, NodesAssumption DEF Placed
                <5> QED BY <1>0, <3>1, <3>3, <5>1, HeldMore
            <4>2. Free(n, i)[m] = devices[n][i][m] - Held(n, i)[m]
                BY DEF Free
            <4> QED BY <1>2, <1>5, <3>2, <3>3, <4>1, <4>2
        <3>4. CASE x # n
            <4>1. \A r \in Pods \ {p} : pod'[r].devices[i][m] <= pod[r].devices[i][m]
                BY <1>0, <3>1 DEF PodsType, Quantities
            <4> QED BY <2>1, <3>1, <3>4, <4>1
        <3> QED BY <3>3, <3>4
    <2>6. ASSUME NEW p \in Pods, pod[p].phase = "running",
                 OnlyPod(p, [pod[p] EXCEPT !.phase = "finished", !.devices = NoSpec])
          PROVE  Held(n, i)'[m] <= devices'[n][i][m]
        <3> DEFINE q == [pod[p] EXCEPT !.phase = "finished", !.devices = NoSpec]
        <3>1. q.at = pod[p].at /\ q.devices = NoSpec
            BY <1>0 DEF PodsType
        <3> HIDE DEF q
        <3>2. OnlyPod(p, q)
            BY <2>6 DEF q
        <3> QED BY <2>2, <3>1, <3>2
    <2>7. ASSUME NEW p \in Pods, OnlyPod(p, [pod[p] EXCEPT !.phase = "gone"])
          PROVE  Held(n, i)'[m] <= devices'[n][i][m]
        <3> DEFINE q == [pod[p] EXCEPT !.phase = "gone"]
        <3>1. q.at = pod[p].at /\ q.devices = pod[p].devices
            BY <1>0 DEF PodsType
        <3> HIDE DEF q
        <3>2. OnlyPod(p, q)
            BY <2>7 DEF q
        <3> QED BY <2>2, <3>1, <3>2
    <2>8. ASSUME NEW p \in Pods, OnlyPod(p, [phase |-> "gone", at |-> "nowhere", devices |-> NoSpec])
          PROVE  Held(n, i)'[m] <= devices'[n][i][m]
        BY <2>2, <2>8
    <2> QED BY <2>3, <2>4, <2>5, <2>6, <2>7, <2>8, PodChanges
<1>6. ASSUME NEW x \in Nodes, pod' = pod, devices' = [devices EXCEPT ![x] = node[x].spec],
             \A k \in Indexes : \A p \in MigProfiles : node[x].spec[k][p] >= Held(x, k)[p]
      PROVE  Held(n, i)'[m] <= devices'[n][i][m]
    <2>1. CASE x = n
        <3>1. devices'[n][i][m] = node[n].spec[i][m] /\ node[n].spec[i][m] \in Nat
            BY <1>0, <1>6, <2>1, NodeFields DEF NodesType, Quantities
        <3> QED BY <1>2, <1>4, <1>6, <2>1, <3>1
    <2>2. CASE x # n
        BY <1>0, <1>2, <1>3, <1>4, <1>6, <2>2 DEF NodesType
    <2> QED BY <2>1, <2>2
<1> QED BY <1>5, <1>6, DevicesChange

\* The controller acts for a Pod that it has listed.
Targeted == pc \notin {"idle", "cleanAll"} => target \in Pods

\* Every step keeps this.
LEMMA TargetedStep ==
    ASSUME Targeted, [Next]_vars
    PROVE  Targeted'
<1>1. CASE UNCHANGED <<pc, target>>
    BY <1>1 DEF Targeted
<1>2. ASSUME NEW n, NEW s, NextNode(n, s), s = "cleanAll" \/ target \in Pods
      PROVE  Targeted'
    BY <1>2 DEF NextNode, Done, Targeted
<1>3. CASE ReconcileNoPods
    BY <1>3 DEF ReconcileNoPods, Targeted
<1>4. CASE ReconcilePods
    <2>1. Head(PendingPods) \in Pods
        BY <1>4, PendingType DEF ReconcilePods
    <2> QED BY <1>4, <2>1 DEF ReconcilePods, Targeted
<1>5. CASE CleanupTaint
    BY <1>2, <1>5 DEF CleanupTaint, Preempt, Done, Targeted
<1>6. CASE UpdateNodeGeometry
    BY <1>2, <1>6 DEF UpdateNodeGeometry, Preempt, Done, Targeted
<1>7. CASE TryPreemption
    BY <1>2, <1>7 DEF TryPreemption, Done, Targeted
<1>8. CASE Evict \/ EvictFails
    BY <1>8 DEF Evict, EvictFails, Done, Targeted
<1>9. CASE Untaint
    BY <1>2, <1>9 DEF Untaint, Targeted
<1>10. ASSUME NEW n \in Nodes, InitNodePartitioning(n) \/ SyncNode(n) \/ Agent(n)
       PROVE  UNCHANGED <<pc, target>>
    BY <1>10 DEF InitNodePartitioning, SyncNode, Agent, AgentApply, AgentReport, ctrlVars
<1>11. ASSUME NEW p \in Pods, SyncPod(p) \/ Scheduler(p) \/ Finish(p) \/ Withdraw(p) \/ Terminate(p)
       PROVE  UNCHANGED <<pc, target>>
    BY <1>11 DEF SyncPod, Scheduler, Bind, Finish, Withdraw, Terminate, PodOnly, ctrlVars
<1>12. CASE UNCHANGED vars
    BY <1>12 DEF vars, ctrlVars, Targeted
<1> QED BY <1>1, <1>3, <1>4, <1>5, <1>6, <1>7, <1>8, <1>9, <1>10, <1>11, <1>12
        DEF Next, PodController

\* Pods are evicted to make room for the target.
ForRoom == pc = "evict" => MakesRoom(current)

\* Every step keeps this: the listed Nodes stay as they are until the evictions are over.
LEMMA ForRoomStep ==
    ASSUME TypeOK, ForRoom, [Next]_vars
    PROVE  ForRoom'
<1>0. ControllerType
    BY TypeParts
<1>1. CASE UNCHANGED <<pc, target, current, view>>
    BY <1>1 DEF ForRoom, MakesRoom, Satisfiable
<1>2. ASSUME pc' # "evict"
      PROVE  ForRoom'
    BY <1>2 DEF ForRoom
<1>3. ASSUME Done \/ Preempt \/ \E n, s : s # "evict" /\ NextNode(n, s)
      PROVE  ForRoom'
    <2>1. pc' # "evict"
        BY <1>3 DEF Done, Preempt, NextNode
    <2> QED BY <1>2, <2>1
<1>4. CASE ReconcileNoPods \/ ReconcilePods \/ EvictFails
    <2>1. pc' # "evict"
        BY <1>4 DEF ReconcileNoPods, ReconcilePods, EvictFails
    <2> QED BY <1>2, <2>1
<1>5. CASE CleanupTaint
    BY <1>3, <1>5 DEF CleanupTaint
<1>6. CASE UpdateNodeGeometry
    BY <1>3, <1>6 DEF UpdateNodeGeometry
<1>7. CASE TryPreemption
    <2>1. CASE Done \/ \E n : NextNode(n, pc)
        BY <1>3, <1>7, <2>1 DEF TryPreemption
    <2>2. ASSUME NEW n \in todo, NEW found \in findVictims(n), found # <<>>,
                 current' = n, UNCHANGED <<view, target>>
          PROVE  ForRoom'
        <3>1. n \in Nodes /\ view.status[n] \in [Indexes -> Reports]
            BY <1>0 DEF ControllerType, Views, Status, Reports
        <3>2. MakesRoom(n)
            BY <2>2, <3>1, VictimsFound
        <3> QED BY <2>2, <3>2 DEF ForRoom, MakesRoom, Satisfiable
    <2> QED BY <1>7, <2>1, <2>2 DEF TryPreemption
<1>8. CASE Evict
    <2>1. CASE Done
        BY <1>3, <2>1
    <2>2. CASE UNCHANGED <<pc, target, current, view>>
        BY <1>1, <2>2
    <2> QED BY <1>8, <2>1, <2>2 DEF Evict
<1>9. CASE Untaint
    BY <1>3, <1>9 DEF Untaint
<1>10. ASSUME NEW n \in Nodes, InitNodePartitioning(n) \/ SyncNode(n) \/ Agent(n)
       PROVE  UNCHANGED <<pc, target, current, view>>
    BY <1>10 DEF InitNodePartitioning, SyncNode, Agent, AgentApply, AgentReport, ctrlVars
<1>11. ASSUME NEW p \in Pods, SyncPod(p) \/ Scheduler(p) \/ Finish(p) \/ Withdraw(p) \/ Terminate(p)
       PROVE  UNCHANGED <<pc, target, current, view>>
    BY <1>11 DEF SyncPod, Scheduler, Bind, Finish, Withdraw, Terminate, PodOnly, ctrlVars
<1>12. CASE UNCHANGED vars
    BY <1>1, <1>12 DEF vars, ctrlVars
<1> QED BY <1>1, <1>4, <1>5, <1>6, <1>7, <1>8, <1>9, <1>10, <1>11, <1>12
        DEF Next, PodController

-----------------------------------------------------------------------------
(***************************************************************************)
(* The theorems about the two controllers                                  *)
(***************************************************************************)
Inv == TypeOK /\ PodsPlaced /\ Evicting /\ NoOvercommit /\ Targeted /\ ForRoom

\* The invariant is inductive.
LEMMA InvStep == Inv /\ [Next]_vars => Inv'
<1> SUFFICES ASSUME Inv, [Next]_vars PROVE Inv'
    OBVIOUS
<1>1. /\ TypeOK /\ PodsPlaced /\ Evicting /\ NoOvercommit /\ Targeted /\ ForRoom
      /\ faults \in 0..MaxFaults
    BY TypeParts DEF Inv
<1>2. NodesType' /\ PodsType' /\ ControllerType' /\ faults' \in 0..MaxFaults
    BY <1>1, NodesStep, PodsStep, ControllerStep, FaultsStep
<1>3. TypeOK'
    BY <1>2, Zenon DEF TypeOK, NodesType, PodsType, ControllerType, Views
<1>4. PodsPlaced' /\ Evicting'
    BY <1>1, PlacedStep, EvictingStep
<1>5. NoOvercommit'
    BY <1>1, <1>2, OvercommitStep
<1>6. Targeted' /\ ForRoom'
    BY <1>1, TargetedStep, ForRoomStep
<1> QED BY <1>3, <1>4, <1>5, <1>6 DEF Inv

\* The inductive invariant holds for any nodes, Pods and GPU model, with the faults and
\* the stale caches of the two controllers.
THEOREM PartitionerInvariant == Spec => []Inv
<1>1. Init => Inv
    <2>1. Init => Targeted /\ ForRoom
        BY DEF Init, Targeted, ForRoom
    <2> QED BY <2>1, TypesInit, PlacedInit DEF Inv
<1> QED BY <1>1, InvStep, PTL DEF Spec

\* The types of the state.
THEOREM PartitionerTypes == Spec => []TypeOK
<1>1. Inv => TypeOK
    BY DEF Inv
<1> QED BY <1>1, PartitionerInvariant, PTL

\* Pods never hold more devices of a GPU than it has: although the partitioner writes
\* specs from stale caches, AgentApply clears one that would take devices that are held.
THEOREM PartitionerNoOvercommit == Spec => []NoOvercommit
<1>1. Inv => NoOvercommit
    BY DEF Inv
<1> QED BY <1>1, PartitionerInvariant, PTL

\* No Pod of a DaemonSet or of a Node is evicted (listCandidateVictims), whatever the
\* informer cache says of it.
SparesPinned == \A p \in DOMAIN Pinned : pod[p].phase \in {"running", "finished"}

\* No step of the controllers, of the scheduler or of the kubelet ends such a Pod.
THEOREM PartitionerSparesPinned == Spec => []SparesPinned
<1>1. Inv => SparesPinned
    BY PodsAssumption DEF Inv, PodsPlaced, Placed, SparesPinned
<1> QED BY <1>1, PartitionerInvariant, PTL

\* Only a victim of the controller begins to terminate.
LEMMA EvictedVictim ==
    ASSUME Inv, [Next]_vars, NEW p \in Pods, pod[p].phase = "running", pod'[p].phase = "terminating"
    PROVE  pc = "evict" /\ Victim(p) /\ pod[p].at = current
<1>0. PodsType /\ Evicting /\ ControllerType /\ Placed(p)
    BY TypeParts DEF Inv, PodsPlaced
<1>1. pc = "evict" /\ p = Head(victims)
    <2>1. \A r \in Pods : \A q : OnlyPod(r, q) => r = p /\ pod'[p] = q
        BY <1>0, PodChanged
    <2>2. ~OnlyPod(p, [pod[p] EXCEPT !.phase = "finished", !.devices = NoSpec])
        BY <1>0, Finished
    <2> QED BY <2>1, <2>2, PodChanges DEF Inv
<1>2. Victim(p)
    BY <1>0, <1>1 DEF Evicting, ControllerType
<1>3. pod[p].at = current
    BY <1>0, <1>2, NodesAssumption DEF Victim, Placed
<1> QED BY <1>1, <1>2, <1>3

\* tryPreemption evicts a Pod only while its node is tainted, unless the taint that was
\* seen when the nodes were listed is gone, or the agent has lifted it.
THEOREM PartitionerEvictsBehindTaint == Spec => EvictsBehindTaint
<1>1. ASSUME Inv, [Next]_vars
      PROVE  \A p \in Pods : pod[p].phase = "running" /\ pod'[p].phase = "terminating" =>
                node[pod[p].at].taint \/ view.node[pod[p].at].taint \/ lifted
    BY <1>1, EvictedVictim DEF Inv, Evicting
<1> QED BY <1>1, PartitionerInvariant, PTL DEF Spec, EvictsBehindTaint

\* A Pod is evicted only for a Pod of higher priority, and none of a DaemonSet or of a
\* Node (listCandidateVictims).
EvictsLowerPriority ==
    [][\A p \in Pods : pod[p].phase = "running" /\ pod'[p].phase = "terminating" =>
          p \notin DOMAIN Pinned /\ target \in Pods /\ Priority[p] < Priority[target]]_vars

\* Where the Pods are may be known from a stale cache; their priorities do not change.
THEOREM PartitionerEvictsLowerPriority == Spec => EvictsLowerPriority
<1>1. ASSUME Inv, [Next]_vars
      PROVE  \A p \in Pods : pod[p].phase = "running" /\ pod'[p].phase = "terminating" =>
                p \notin DOMAIN Pinned /\ target \in Pods /\ Priority[p] < Priority[target]
    BY <1>1, EvictedVictim DEF Inv, Victim, Targeted
<1> QED BY <1>1, PartitionerInvariant, PTL DEF Spec, EvictsLowerPriority

\* Pods are evicted from a node only to make room on it: as it was listed it could not
\* serve the target, for some order in which its GPUs are tried; and it could if GPUs gave
\* up devices in use without a change of their geometries (findVictims).  That another
\* node could do without evictions is not excluded (EvictsOnlyIfNeeded).
EvictsForRoom ==
    [][\A p \in Pods : pod[p].phase = "running" /\ pod'[p].phase = "terminating" =>
          MakesRoom(pod[p].at)]_vars

\* The listed Nodes and the target do not change while tryPreemption evicts.
THEOREM PartitionerEvictsForRoom == Spec => EvictsForRoom
<1>1. ASSUME Inv, [Next]_vars
      PROVE  \A p \in Pods : pod[p].phase = "running" /\ pod'[p].phase = "terminating" =>
                MakesRoom(pod[p].at)
    BY <1>1, EvictedVictim DEF Inv, ForRoom
<1> QED BY <1>1, PartitionerInvariant, PTL DEF Spec, EvictsForRoom
=============================================================================
