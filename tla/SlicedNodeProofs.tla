--------------------------- MODULE SlicedNodeProofs ---------------------------
(***************************************************************************)
(* Theorems about SlicedNode, for any sizes of slices, any memory, any     *)
(* number of GPUs and any requests.                                        *)
(***************************************************************************)
EXTENDS SlicedNode, SumTheorems

-----------------------------------------------------------------------------
(***************************************************************************)
(* Maps and the memory of their slices                                     *)
(***************************************************************************)
\* What a map is, and what it returns.
LEMMA MapType ==
    ASSUME NEW m \in Maps
    PROVE  /\ DOMAIN m \subseteq Profiles /\ m \in [DOMAIN m -> Nat]
           /\ \A p : Get(m, p) \in Nat
<1>1. PICK D \in SUBSET Profiles : m \in [D -> Nat]
    BY DEF Maps
<1>2. DOMAIN m \subseteq Profiles /\ m \in [DOMAIN m -> Nat]
    BY <1>1
<1> QED BY <1>2 DEF Get

LEMMA IsMap ==
    ASSUME NEW D \in SUBSET Profiles, NEW m \in [D -> Nat]
    PROVE  m \in Maps
BY DEF Maps

LEMMA NoSlicesType == NoSlices \in Maps
<1>1. NoSlices \in [{} -> Nat] /\ {} \in SUBSET Profiles
    BY DEF NoSlices
<1> QED BY <1>1, IsMap

LEMMA PutMap ==
    ASSUME NEW m \in Maps, NEW p \in Profiles, NEW q \in Nat
    PROVE  Put(m, p, q) \in Maps
<1>1. Put(m, p, q) \in [DOMAIN m \cup {p} -> Nat] /\ DOMAIN m \cup {p} \in SUBSET Profiles
    BY MapType DEF Put
<1> QED BY <1>1, IsMap

LEMMA DeleteMap ==
    ASSUME NEW m \in Maps, NEW ks
    PROVE  /\ Delete(m, ks) \in Maps
           /\ DOMAIN Delete(m, ks) = DOMAIN m \ ks
           /\ \A r : Get(Delete(m, ks), r) = IF r \in ks THEN 0 ELSE Get(m, r)
<1>1. Delete(m, ks) \in [DOMAIN m \ ks -> Nat] /\ DOMAIN m \ ks \in SUBSET Profiles
    BY MapType DEF Delete
<1>2. Delete(m, ks) \in Maps
    BY <1>1, IsMap
<1> QED BY <1>2 DEF Delete, Get

\* The memory of the slices of each size, of all sizes.
PerSize(m) == [p \in Profiles |-> p * Get(m, p)]

LEMMA PerSizeNumbers ==
    ASSUME NEW m \in Maps
    PROVE  /\ IsFiniteSet(Profiles) /\ Numbers(PerSize(m), Profiles)
           /\ \A p \in Profiles : PerSize(m)[p] = p * Get(m, p)
<1>1. \A p \in Profiles : p \in Nat /\ Get(m, p) \in Nat
    BY MapType, SizesAssumption
<1>2. \A p \in Profiles : p * Get(m, p) \in Nat
    BY <1>1
<1> QED BY <1>2, SizesAssumption DEF Numbers, PerSize

\* Sizes without a key have no slices.
LEMMA MemoryOf ==
    ASSUME NEW m \in Maps
    PROVE  Memory(m) = SumFunctionOnSet(PerSize(m), Profiles) /\ Memory(m) \in Nat
<1> DEFINE D == DOMAIN m
           F == [p \in D |-> p * m[p]]
           G == PerSize(m)
<1>1. D \in SUBSET Profiles /\ m \in [D -> Nat]
    BY MapType
<1>2. IsFiniteSet(Profiles) /\ Numbers(G, Profiles) /\ \A p \in Profiles : G[p] = p * Get(m, p)
    BY PerSizeNumbers
<1>3. Memory(m) = SumFunctionOnSet(F, D)
    <2>1. DOMAIN F = D
        OBVIOUS
    <2> QED BY <2>1 DEF Memory, SumFunction
<1>4. IsFiniteSet(D) /\ Numbers(G, D)
    BY <1>1, <1>2, FS_Subset DEF Numbers
<1>5. \A p \in D : F[p] = G[p]
    BY <1>1, <1>2 DEF Get
<1>6. \A p \in Profiles \ D : G[p] = 0
    <2>1. \A p \in Profiles \ D : p * 0 = 0
        BY SizesAssumption
    <2> QED BY <1>2, <2>1 DEF Get
<1> HIDE DEF F, G, D
<1>7. SumFunctionOnSet(G, D) = SumFunctionOnSet(F, D)
    BY <1>4, <1>5, SumEqual
<1>8. SumFunctionOnSet(G, Profiles) = SumFunctionOnSet(G, D)
    BY <1>1, <1>2, <1>6, SumExtend
<1>9. SumFunctionOnSet(G, Profiles) \in Nat
    BY <1>2, SumProperties
<1> QED BY <1>3, <1>7, <1>8, <1>9 DEF G

\* More slices of one size.
LEMMA MemoryPut ==
    ASSUME NEW m \in Maps, NEW p \in Profiles, NEW n \in Nat
    PROVE  /\ Put(m, p, Get(m, p) + n) \in Maps
           /\ Memory(Put(m, p, Get(m, p) + n)) = Memory(m) + p * n
<1> DEFINE k == Put(m, p, Get(m, p) + n)
<1>2. k \in Maps /\ \A r : Get(k, r) = IF r = p THEN Get(m, p) + n ELSE Get(m, r)
    <2> DEFINE q == Get(m, p) + n
    <2>1. q \in Nat
        BY MapType
    <2> HIDE DEF q
    <2>2. Put(m, p, q) \in Maps
        BY <2>1, PutMap
    <2>3. \A r : Get(Put(m, p, q), r) = IF r = p THEN q ELSE Get(m, r)
        BY DEF Put, Get
    <2> QED BY <2>2, <2>3 DEF q
<1>3. p \in Nat /\ p * n \in Nat
    BY SizesAssumption
<1>4. p * (Get(m, p) + n) = p * Get(m, p) + p * n
    BY <1>3, MapType
<1> HIDE DEF k
<1>5. \A r \in Profiles :
         PerSize(k)[r] = IF r = p THEN PerSize(m)[r] + p * n ELSE PerSize(m)[r]
    BY <1>2, <1>4, PerSizeNumbers
<1>6. SumFunctionOnSet(PerSize(k), Profiles) = SumFunctionOnSet(PerSize(m), Profiles) + p * n
    BY ZenonT(60), <1>3, <1>5, PerSizeNumbers, SumIncrease
<1>7. Memory(k) = Memory(m) + p * n
    BY <1>2, <1>6, MemoryOf
<1> QED BY <1>2, <1>7 DEF k

\* Fewer slices of every size.
LEMMA MemoryFewer ==
    ASSUME NEW m \in Maps, NEW k \in Maps, \A p \in Profiles : Get(k, p) <= Get(m, p)
    PROVE  Memory(k) <= Memory(m)
<1>1. \A p \in Profiles : PerSize(k)[p] <= PerSize(m)[p]
    <2> TAKE p \in Profiles
    <2>1. p \in Nat /\ Get(k, p) \in Nat /\ Get(m, p) \in Nat /\ Get(k, p) <= Get(m, p)
        BY MapType, SizesAssumption
    <2>2. p * Get(k, p) <= p * Get(m, p)
        BY <2>1
    <2> QED BY <2>2, PerSizeNumbers
<1>2. SumFunctionOnSet(PerSize(k), Profiles) <= SumFunctionOnSet(PerSize(m), Profiles)
    BY <1>1, PerSizeNumbers, SumMonotone
<1> QED BY <1>2, MemoryOf

\* Slices that go from one map to another.
LEMMA MemoryMoved ==
    ASSUME NEW u \in Maps, NEW f \in Maps, NEW v \in Maps, NEW g \in Maps,
           \A p \in Profiles : Get(u, p) + Get(f, p) = Get(v, p) + Get(g, p)
    PROVE  Memory(u) + Memory(f) = Memory(v) + Memory(g)
<1> DEFINE H == [p \in Profiles |-> p * (Get(u, p) + Get(f, p))]
<1>1. \A p \in Profiles : p \in Nat /\ Get(u, p) \in Nat /\ Get(f, p) \in Nat
                            /\ Get(v, p) \in Nat /\ Get(g, p) \in Nat
    BY MapType, SizesAssumption
<1>2. \A p \in Profiles : H[p] = p * Get(u, p) + p * Get(f, p)
    BY <1>1
<1>3. \A p \in Profiles : H[p] = p * Get(v, p) + p * Get(g, p)
    <2> TAKE p \in Profiles
    <2>1. H[p] = p * (Get(v, p) + Get(g, p))
        OBVIOUS
    <2>2. p * (Get(v, p) + Get(g, p)) = p * Get(v, p) + p * Get(g, p)
        BY <1>1
    <2> QED BY <2>1, <2>2
<1> HIDE DEF H
<1>4. /\ \A p \in Profiles : H[p] = PerSize(u)[p] + PerSize(f)[p]
      /\ \A p \in Profiles : H[p] = PerSize(v)[p] + PerSize(g)[p]
    BY <1>2, <1>3, PerSizeNumbers
<1>5. SumFunctionOnSet(H, Profiles)
        = SumFunctionOnSet(PerSize(u), Profiles) + SumFunctionOnSet(PerSize(f), Profiles)
    BY <1>4, PerSizeNumbers, SumPlus
<1>6. SumFunctionOnSet(H, Profiles)
        = SumFunctionOnSet(PerSize(v), Profiles) + SumFunctionOnSet(PerSize(g), Profiles)
    BY <1>4, PerSizeNumbers, SumPlus
<1> QED BY <1>5, <1>6, MemoryOf
-----------------------------------------------------------------------------
(***************************************************************************)
(* One GPU                                                                 *)
(***************************************************************************)
LEMMA GpuType ==
    ASSUME NEW g \in GPU
    PROVE  /\ g.used \in Maps /\ g.free \in Maps
           /\ getTotSlicesMemory(g) = Memory(g.used) + Memory(g.free)
           /\ getTotSlicesMemory(g) \in Nat /\ SpareMemory(g) \in Nat
           /\ Validate(g) => SpareMemory(g) = MemoryGB - getTotSlicesMemory(g)
<1>1. g.used \in Maps /\ g.free \in Maps
    BY DEF GPU
<1>2. Memory(g.used) \in Nat /\ Memory(g.free) \in Nat
    BY <1>1, MemoryOf
<1>3. getTotSlicesMemory(g) = Memory(g.used) + Memory(g.free) /\ getTotSlicesMemory(g) \in Nat
    BY <1>2 DEF getTotSlicesMemory
<1>4. MemoryGB \in Nat
    BY SizesAssumption
<1>5. SpareMemory(g) \in Nat /\ (Validate(g) => SpareMemory(g) = MemoryGB - getTotSlicesMemory(g))
    BY <1>3, <1>4 DEF SpareMemory, Validate
<1> QED BY <1>1, <1>3, <1>5

\* h is g with possibly more free slices, within the memory.
Grown(g, h) ==
    /\ h \in GPU /\ Validate(h) /\ h.used = g.used
    /\ \A r : Get(h.free, r) >= Get(g.free, r)

\* createSlices adds the slices or does nothing, within the memory.
LEMMA CreatedSlices ==
    ASSUME NEW g \in GPU, Validate(g), NEW p \in Profiles, NEW num \in Nat
    PROVE  LET h == createSlices(g, p, num)
           IN  /\ Grown(g, h)
               /\ DOMAIN h.free \subseteq DOMAIN g.free \cup {p}
               /\ \A r : r # p => Get(h.free, r) = Get(g.free, r)
               /\ getTotSlicesMemory(g) + p * num <= MemoryGB
                    => Get(h.free, p) = Get(g.free, p) + num
<1> DEFINE f == Put(g.free, p, Get(g.free, p) + num)
           k == [g EXCEPT !.free = f]
           h == createSlices(g, p, num)
<1>1. g.used \in Maps /\ g.free \in Maps /\ Get(g.free, p) \in Nat /\ MemoryGB \in Nat
    BY GpuType, MapType, SizesAssumption
<1>2. f \in Maps /\ Memory(f) = Memory(g.free) + p * num
    BY <1>1, MemoryPut
<1>3. DOMAIN f = DOMAIN g.free \cup {p}
    BY DEF Put
<1>4. \A r : Get(f, r) = IF r = p THEN Get(g.free, p) + num ELSE Get(g.free, r)
    BY DEF Put, Get
<1>5. \A r : Get(g.free, r) \in Nat
    BY <1>1, MapType
<1> HIDE DEF f
<1>6. k \in GPU /\ k.used = g.used /\ k.free = f
    BY <1>2 DEF GPU
<1>7. p \in Nat /\ p * num \in Nat
    BY SizesAssumption
<1>8. CASE SpareMemory(g) < p * num
    <2>1. h = g
        BY <1>8 DEF createSlices
    <2>2. ~(getTotSlicesMemory(g) + p * num <= MemoryGB)
        BY <1>1, <1>7, <1>8, GpuType
    <2>3. \A r : Get(g.free, r) >= Get(g.free, r)
        BY <1>5
    <2> QED BY <2>1, <2>2, <2>3 DEF Grown
<1>9. CASE ~(SpareMemory(g) < p * num)
    <2>1. h = k
        BY <1>9 DEF createSlices, f
    <2>2. Validate(k)
        <3>1. getTotSlicesMemory(k) = Memory(g.used) + Memory(f)
            BY <1>6, GpuType
        <3>2. Memory(g.used) \in Nat /\ Memory(g.free) \in Nat
            BY <1>1, MemoryOf
        <3>3. p * num <= MemoryGB - getTotSlicesMemory(g)
            BY <1>1, <1>7, <1>9, GpuType
        <3>4. getTotSlicesMemory(g) = Memory(g.used) + Memory(g.free)
            BY GpuType
        <3> QED BY <1>1, <1>2, <1>7, <3>1, <3>2, <3>3, <3>4 DEF Validate
    <2>3. \A r : Get(f, r) >= Get(g.free, r)
        BY <1>4, <1>5
    <2>4. Get(f, p) = Get(g.free, p) + num /\ \A r : r # p => Get(f, r) = Get(g.free, r)
        BY <1>4
    <2> HIDE DEF k
    <2>5. k.free = f /\ k.used = g.used /\ k \in GPU
        BY <1>6
    <2> QED BY <1>3, <2>1, <2>2, <2>3, <2>4, <2>5 DEF Grown
<1> QED BY <1>8, <1>9

\* So does the loop that creates them one at a time.
LEMMA CreatedEach ==
    ASSUME NEW g \in GPU, Validate(g), NEW p \in Profiles, NEW num \in Nat
    PROVE  Grown(g, CreateEach(g, p, num))
<1>1. \A r : Get(g.free, r) \in Nat
    BY GpuType, MapType
<1>2. CASE num = 0
    <2>1. \A r : Get(g.free, r) >= Get(g.free, r)
        BY <1>1
    <2> QED BY <1>2, <2>1 DEF CreateEach, Grown
<1>3. CASE num # 0
    <2>1. CreateEach(g, p, num) = createSlices(g, p, num)
        BY <1>3 DEF CreateEach
    <2> QED BY <2>1, CreatedSlices
<1> QED BY <1>2, <1>3

LEMMA CreatableNumber ==
    ASSUME NEW g \in GPU, NEW p \in Profiles, NEW num \in Nat
    PROVE  Creatable(g, p, num) \in 0..num
<1> DEFINE T == {n \in 0..num : p * n <= SpareMemory(g)}
<1>1. 0 \in T
    <2>1. p * 0 = 0
        BY SizesAssumption
    <2>2. SpareMemory(g) \in Nat
        BY GpuType
    <2> QED BY <2>1, <2>2
<1>2. Max(T) \in T
    <2>1. T \subseteq 0..num /\ T # {}
        BY <1>1
    <2> HIDE DEF T
    <2>2. \E m \in T : \A k \in T : m >= k
        BY <2>1, GreatestNumber
    <2> QED BY <2>2 DEF Max
<1>3. Max(T) \in 0..num
    <2>1. T \subseteq 0..num
        OBVIOUS
    <2> QED BY <1>2, <2>1
<1> QED BY <1>3 DEF Creatable
-----------------------------------------------------------------------------
(***************************************************************************)
(* The node                                                                *)
(***************************************************************************)
\* The GPUs fit into their memory, also those of the history; a call has not touched the
\* GPUs it has not come to, and knows the free slices of the one it is searching.
NodeInv ==
    /\ TypeOK
    /\ \A i \in 1..GpuCount : Validate(gpus[i]) /\ Validate(before[i])
    /\ call.pc \in {"gpu", "create", "restore"} => call.kind = "geometry"
    /\ call.pc = "pod" => call.kind = "pod" /\ ~call.ok
    /\ call.pc # "idle" => \A i \in 1..GpuCount : i > call.at => gpus[i] = before[i]
    /\ call.pc \in {"pod", "gpu"} => gpus[call.at] = before[call.at]
    /\ call.pc \in {"create", "restore"} => /\ call.original = before[call.at].free
                                            /\ gpus[call.at].used = before[call.at].used
    /\ call.pc = "create" => call.missing # NoSlices
    /\ call.pc # "restore" => call.left = {}

\* What the proofs of the actions use.
LEMMA NodeFacts ==
    ASSUME TypeOK
    PROVE  /\ call.at \in 1..GpuCount /\ GpuCount \in Nat /\ Here \in GPU
           /\ call.required \in Maps /\ call.missing \in Maps /\ call.original \in Maps
           /\ gpus \in [1..GpuCount -> GPU] /\ before \in [1..GpuCount -> GPU]
           /\ call \in Call
BY SizesAssumption DEF TypeOK, Call, Here

LEMMA RequestType == \A r \in Requests : r \in Maps
<1> TAKE r \in Requests
<1>1. DOMAIN r \in SUBSET Profiles /\ r \in [DOMAIN r -> Nat]
    BY SizesAssumption
<1> QED BY <1>1, IsMap

\* A map without keys.
LEMMA WithoutKeys == \A m \in Maps : DOMAIN m = {} => m = NoSlices
<1> SUFFICES ASSUME NEW m \in Maps, DOMAIN m = {}
             PROVE  m = NoSlices
    OBVIOUS
<1>1. m \in [DOMAIN m -> Nat]
    BY MapType
<1> QED BY <1>1 DEF NoSlices

LEMMA StillRequiredType ==
    ASSUME NEW required \in Maps, NEW g \in GPU
    PROVE  StillRequired(required, g) \in Maps /\ getMissingSlices(g, required) \in Maps
<1>1. /\ DOMAIN required \subseteq Profiles /\ required \in [DOMAIN required -> Nat]
      /\ g.free \in [DOMAIN g.free -> Nat]
    BY GpuType, MapType
<1> DEFINE left == {p \in DOMAIN required : p \notin DOMAIN g.free \/ required[p] > g.free[p]}
           missing == {p \in DOMAIN required : required[p] > Get(g.free, p)}
<1>2. \A p \in left : required[p] - Get(g.free, p) \in Nat
    BY <1>1 DEF Get
<1>3. \A p \in missing : required[p] - Get(g.free, p) \in Nat
    BY <1>1 DEF Get
<1>4. /\ [p \in left |-> required[p] - Get(g.free, p)] \in [left -> Nat]
      /\ [p \in missing |-> required[p] - Get(g.free, p)] \in [missing -> Nat]
    BY <1>2, <1>3
<1>5. left \in SUBSET Profiles /\ missing \in SUBSET Profiles
    BY <1>1
<1>6. /\ StillRequired(required, g) = [p \in left |-> required[p] - Get(g.free, p)]
      /\ getMissingSlices(g, required) = [p \in missing |-> required[p] - Get(g.free, p)]
    BY DEF StillRequired, getMissingSlices
<1> HIDE DEF left, missing
<1> QED BY <1>4, <1>5, <1>6, IsMap

\* The next GPU, or the end of the call.
LEMMA OnwardCall ==
    ASSUME TypeOK
    PROVE  LET c == Onward(call)
           IN  /\ c \in Call /\ c.left = call.left /\ c.original = call.original
               /\ c.kind = call.kind /\ c.updated = call.updated
               /\ \/ call.at = GpuCount /\ c.pc = "idle" /\ c.at = call.at
                  \/ c.pc = "gpu" /\ c.at = call.at + 1 /\ c.at \in 1..GpuCount
<1>1. call \in Call /\ call.at \in 1..GpuCount /\ GpuCount \in Nat
    BY NodeFacts
<1>2. StillRequired(call.required, Here) \in Maps
    BY NodeFacts, StillRequiredType
<1>3. CASE call.at = GpuCount
    <2>1. Onward(call) = [call EXCEPT !.pc = "idle"]
        BY <1>3 DEF Onward
    <2> QED BY <1>1, <1>3, <2>1 DEF Call
<1>4. CASE call.at # GpuCount
    <2>1. Onward(call) = [call EXCEPT !.pc = "gpu", !.at = call.at + 1,
                                      !.required = StillRequired(call.required, Here)]
        BY <1>4 DEF Onward
    <2>2. call.at + 1 \in 1..GpuCount
        BY <1>1, <1>4
    <2> QED BY <1>1, <1>2, <2>1, <2>2 DEF Call
<1> QED BY <1>3, <1>4

\* One GPU of the node changes.
LEMMA GpuChanged ==
    ASSUME TypeOK, NEW h \in GPU, gpus' = [gpus EXCEPT ![call.at] = h]
    PROVE  /\ gpus' \in [1..GpuCount -> GPU] /\ gpus'[call.at] = h
           /\ \A i \in 1..GpuCount : i # call.at => gpus'[i] = gpus[i]
BY NodeFacts

\* AddPod of one GPU moves free slices to the used ones.
LEMMA TakenSlices ==
    ASSUME TypeOK, NEW g \in GPU, Validate(g), NEW ps \in SUBSET Fitting(g)
    PROVE  LET h == Take(g, ps)
           IN  /\ h \in GPU /\ Validate(h)
               /\ \A p : Get(h.used, p) = Get(g.used, p) + (IF p \in ps THEN call.required[p] ELSE 0)
               /\ \A p : Get(h.used, p) + Get(h.free, p) = Get(g.used, p) + Get(g.free, p)
<1> DEFINE r == call.required
           u == [p \in DOMAIN g.used \cup ps |-> Get(g.used, p) + (IF p \in ps THEN r[p] ELSE 0)]
           f == [p \in DOMAIN g.free \cup ps |-> IF p \in ps THEN Get(g.free, p) - r[p] ELSE g.free[p]]
<1>1. /\ g.used \in Maps /\ g.free \in Maps
      /\ DOMAIN g.used \subseteq Profiles /\ DOMAIN g.free \subseteq Profiles
      /\ g.used \in [DOMAIN g.used -> Nat] /\ g.free \in [DOMAIN g.free -> Nat]
    BY GpuType, MapType
<1>2. \A p : Get(g.used, p) \in Nat /\ Get(g.free, p) \in Nat
    BY <1>1, MapType
<1>3. \A p \in ps : p \in DOMAIN r /\ r[p] <= Get(g.free, p)
    BY DEF Fitting
<1>4. DOMAIN r \subseteq Profiles /\ r \in [DOMAIN r -> Nat]
    BY NodeFacts, MapType
<1>5. u \in Maps
    <2>1. \A p \in DOMAIN g.used \cup ps : Get(g.used, p) + (IF p \in ps THEN r[p] ELSE 0) \in Nat
        BY <1>2, <1>3, <1>4
    <2>2. u \in [DOMAIN g.used \cup ps -> Nat] /\ DOMAIN g.used \cup ps \in SUBSET Profiles
        BY <1>1, <1>3, <1>4, <2>1
    <2> HIDE DEF u
    <2> QED BY <2>2, IsMap
<1>6. f \in Maps
    <2>1. \A p \in DOMAIN g.free \cup ps :
             (IF p \in ps THEN Get(g.free, p) - r[p] ELSE g.free[p]) \in Nat
        BY <1>1, <1>2, <1>3, <1>4
    <2>2. f \in [DOMAIN g.free \cup ps -> Nat] /\ DOMAIN g.free \cup ps \in SUBSET Profiles
        BY <1>1, <1>3, <1>4, <2>1
    <2> HIDE DEF f
    <2> QED BY <2>2, IsMap
<1>7. \A p : Get(u, p) = Get(g.used, p) + (IF p \in ps THEN r[p] ELSE 0)
    <2> TAKE p
    <2>1. CASE p \in DOMAIN g.used \cup ps
        BY <2>1 DEF Get
    <2>2. CASE p \notin DOMAIN g.used \cup ps
        BY <2>2 DEF Get
    <2> QED BY <2>1, <2>2
<1>8. \A p : Get(f, p) = Get(g.free, p) - (IF p \in ps THEN r[p] ELSE 0)
    <2> TAKE p
    <2>1. CASE p \in ps
        BY <2>1 DEF Get
    <2>2. CASE p \notin ps
        <3>1. Get(f, p) = Get(g.free, p)
            BY <2>2 DEF Get
        <3>2. Get(g.free, p) \in Nat
            BY <1>2
        <3> QED BY <2>2, <3>1, <3>2
    <2> QED BY <2>1, <2>2
<1>9. Take(g, ps) = [used |-> u, free |-> f]
    BY DEF Take
<1> HIDE DEF u, f
<1>10. Take(g, ps) \in GPU /\ Take(g, ps).used = u /\ Take(g, ps).free = f
    BY <1>5, <1>6, <1>9 DEF GPU
<1>11. \A p : Get(u, p) + Get(f, p) = Get(g.used, p) + Get(g.free, p)
    <2> TAKE p
    <2> DEFINE n == IF p \in ps THEN r[p] ELSE 0
    <2>1. n \in Nat
        BY <1>3, <1>4
    <2>2. Get(u, p) = Get(g.used, p) + n /\ Get(f, p) = Get(g.free, p) - n
        BY <1>7, <1>8
    <2> HIDE DEF n
    <2> QED BY <1>2, <2>1, <2>2
<1>12. Validate(Take(g, ps))
    <2>1. Memory(u) + Memory(f) = Memory(g.used) + Memory(g.free)
        BY <1>1, <1>5, <1>6, <1>11, MemoryMoved
    <2>2. /\ getTotSlicesMemory(Take(g, ps)) = Memory(u) + Memory(f)
          /\ getTotSlicesMemory(g) = Memory(g.used) + Memory(g.free)
        BY <1>10, GpuType
    <2> QED BY <2>1, <2>2 DEF Validate
<1> QED BY <1>7, <1>10, <1>11, <1>12

LEMMA PodStep ==
    ASSUME NodeInv, PodFits \/ PodDoesNotFit
    PROVE  NodeInv'
<1>1. TypeOK /\ Validate(Here) /\ call.pc = "pod" /\ call.kind = "pod" /\ call.at \in 1..GpuCount
    BY NodeFacts DEF NodeInv, PodFits, PodDoesNotFit, Here
<1>2. PICK ps \in SUBSET Fitting(Here) : gpus' = [gpus EXCEPT ![call.at] = Take(Here, ps)]
    <2>1. CASE PodFits
        BY <2>1 DEF PodFits, Here
    <2>2. CASE PodDoesNotFit
        BY <2>2 DEF PodDoesNotFit, Here
    <2> QED BY <2>1, <2>2
<1>3. Take(Here, ps) \in GPU /\ Validate(Take(Here, ps))
    BY <1>1, NodeFacts, TakenSlices
<1>4. /\ gpus' \in [1..GpuCount -> GPU] /\ gpus'[call.at] = Take(Here, ps)
      /\ \A i \in 1..GpuCount : i # call.at => gpus'[i] = gpus[i]
    BY <1>1, <1>2, <1>3, GpuChanged
<1>5. /\ call' \in Call /\ call'.left = call.left /\ call'.original = call.original
      /\ call'.kind = call.kind /\ call'.required = call.required
      /\ \/ call'.pc = "idle"
         \/ call'.pc = "pod" /\ call'.at = call.at + 1 /\ call'.at \in 1..GpuCount /\ ~call'.ok
    <2>1. call \in Call /\ GpuCount \in Nat /\ ~call.ok
        BY <1>1, NodeFacts DEF NodeInv
    <2>2. CASE call' = [call EXCEPT !.pc = "idle", !.ok = TRUE] \/ call' = [call EXCEPT !.pc = "idle"]
        BY <2>1, <2>2 DEF Call
    <2>3. CASE call.at # GpuCount /\ call' = [call EXCEPT !.at = @ + 1]
        <3>1. call.at + 1 \in 1..GpuCount
            BY <1>1, <2>1, <2>3
        <3> QED BY <1>1, <2>1, <2>3, <3>1 DEF Call
    <2> QED BY <2>2, <2>3 DEF PodFits, PodDoesNotFit
<1>6. UNCHANGED <<before, calls>>
    BY DEF PodFits, PodDoesNotFit
<1>7. TypeOK'
    BY <1>1, <1>4, <1>5, <1>6 DEF TypeOK
<1>8. \A i \in 1..GpuCount : Validate(gpus'[i]) /\ Validate(before'[i])
    BY <1>1, <1>3, <1>4, <1>6 DEF NodeInv
<1>9. call'.left = {}
    BY <1>1, <1>5 DEF NodeInv
<1>10. CASE call'.pc = "idle"
    BY <1>7, <1>8, <1>9, <1>10 DEF NodeInv
<1>11. CASE call'.pc = "pod" /\ call'.at = call.at + 1 /\ call'.at \in 1..GpuCount /\ ~call'.ok
    <2>1. call'.at > call.at /\ \A i \in 1..GpuCount : i > call'.at => i > call.at
        BY <1>1, <1>11
    <2>2. \A i \in 1..GpuCount : i > call.at => gpus[i] = before[i] /\ i # call.at
        BY <1>1 DEF NodeInv
    <2>3. \A i \in 1..GpuCount : i > call.at => gpus'[i] = before'[i]
        BY <1>4, <1>6, <2>2
    <2> QED BY <1>1, <1>5, <1>7, <1>8, <1>9, <1>11, <2>1, <2>3 DEF NodeInv
<1> QED BY <1>5, <1>10, <1>11

\* A call begins with the first GPU.
LEMMA CalledStep ==
    ASSUME NodeInv, AddPod \/ UpdateGeometryFor
    PROVE  /\ NodeInv' /\ before' = gpus /\ gpus' = gpus /\ ~call'.ok
<1>1. PICK r \in Requests : Called("pod", "pod", r) \/ Called("geometry", "gpu", r)
    BY DEF AddPod, UpdateGeometryFor
<1>2. /\ calls < MaxCalls /\ calls' = calls + 1 /\ before' = gpus /\ gpus' = gpus
      /\ \/ call' = [NoCall EXCEPT !.kind = "pod", !.pc = "pod", !.required = r]
         \/ call' = [NoCall EXCEPT !.kind = "geometry", !.pc = "gpu", !.required = r]
    BY <1>1 DEF Called
<1>3. r \in Maps /\ NoSlices \in Maps /\ 1 \in 1..GpuCount
    BY RequestType, NoSlicesType, SizesAssumption
<1>4. /\ call' \in Call /\ call'.at = 1 /\ call'.left = {} /\ ~call'.ok
      /\ (call'.kind = "pod" /\ call'.pc = "pod") \/ (call'.kind = "geometry" /\ call'.pc = "gpu")
    BY <1>2, <1>3 DEF NoCall, Call
<1>5. TypeOK'
    <2>1. calls' \in 0..MaxCalls
        BY <1>2, SizesAssumption DEF NodeInv, TypeOK
    <2> QED BY <1>2, <1>4, <2>1 DEF NodeInv, TypeOK
<1> QED BY <1>2, <1>4, <1>5 DEF NodeInv

\* The search goes on to the next GPU or ends.
LEMMA OnwardStep ==
    ASSUME NodeInv, call.pc \in {"gpu", "restore"}, call.left = {}, call' = Onward(call),
           UNCHANGED <<gpus, before, calls>>
    PROVE  NodeInv' /\ call'.kind = "geometry"
<1>1. TypeOK /\ call.at \in 1..GpuCount /\ call.kind = "geometry" /\ GpuCount \in Nat
    BY NodeFacts DEF NodeInv
<1>2. /\ call' \in Call /\ call'.left = call.left /\ call'.original = call.original
      /\ call'.kind = call.kind
      /\ \/ call.at = GpuCount /\ call'.pc = "idle" /\ call'.at = call.at
         \/ call'.pc = "gpu" /\ call'.at = call.at + 1 /\ call'.at \in 1..GpuCount
    BY <1>1, OnwardCall
<1>3. TypeOK'
    BY <1>1, <1>2 DEF TypeOK
<1>4. CASE call'.pc = "idle"
    BY <1>1, <1>2, <1>3, <1>4 DEF NodeInv
<1>5. CASE call'.pc = "gpu" /\ call'.at = call.at + 1 /\ call'.at \in 1..GpuCount
    <2>1. call'.at > call.at /\ \A i \in 1..GpuCount : i > call'.at => i > call.at
        BY <1>1, <1>5
    <2>2. \A i \in 1..GpuCount : i > call.at => gpus[i] = before[i]
        BY DEF NodeInv
    <2> QED BY <1>1, <1>2, <1>3, <1>5, <2>1, <2>2 DEF NodeInv
<1> QED BY <1>1, <1>2, <1>4, <1>5

LEMMA VisitStep ==
    ASSUME NodeInv, VisitGpu
    PROVE  NodeInv'
<1> DEFINE missing == getMissingSlices(Here, call.required)
<1>1. TypeOK /\ call.pc = "gpu" /\ call.kind = "geometry" /\ UNCHANGED <<gpus, before, calls>>
    BY DEF NodeInv, VisitGpu
<1>2. CASE missing = NoSlices
    BY <1>1, <1>2, OnwardStep DEF VisitGpu, NodeInv
<1>3. CASE missing # NoSlices
    <2>1. call' = [call EXCEPT !.pc = "create", !.missing = missing, !.original = Here.free]
        BY <1>3 DEF VisitGpu
    <2>2. missing \in Maps /\ Here.free \in Maps /\ call \in Call
        BY <1>1, NodeFacts, StillRequiredType, GpuType
    <2> HIDE DEF missing
    <2>3. /\ call' \in Call /\ call'.pc = "create" /\ call'.kind = call.kind /\ call'.at = call.at
          /\ call'.missing = missing /\ call'.original = Here.free /\ call'.left = call.left
        BY <2>1, <2>2 DEF Call
    <2>4. call.left = {}
        BY <1>1, <2>1 DEF NodeInv
    <2>5. TypeOK'
        BY <1>1, <2>3, <2>4 DEF TypeOK
    <2> QED BY <1>1, <1>3, <2>3, <2>5 DEF NodeInv, Here
<1> QED BY <1>2, <1>3

\* One GPU changes, within its memory, and the search stays at it.
LEMMA SearchStep ==
    ASSUME NodeInv, NEW h \in GPU, Validate(h), h.used = Here.used,
           gpus' = [gpus EXCEPT ![call.at] = h], UNCHANGED <<before, calls>>,
           call.pc \in {"create", "restore"}, call' \in Call, call'.pc = "restore",
           call'.at = call.at, call'.kind = call.kind, call'.original = call.original,
           call'.left \subseteq DOMAIN call.original
    PROVE  NodeInv'
<1>1. TypeOK /\ call.at \in 1..GpuCount /\ h \in GPU /\ Validate(h) /\ GpuCount \in Nat
    BY NodeFacts DEF NodeInv
<1>2. /\ gpus' \in [1..GpuCount -> GPU] /\ gpus'[call.at] = h
      /\ \A i \in 1..GpuCount : i # call.at => gpus'[i] = gpus[i]
    BY <1>1, GpuChanged
<1>3. TypeOK'
    BY <1>1, <1>2 DEF TypeOK
<1>4. \A i \in 1..GpuCount : Validate(gpus'[i]) /\ Validate(before'[i])
    BY <1>1, <1>2 DEF NodeInv
<1>5. \A i \in 1..GpuCount : i > call.at => gpus'[i] = before'[i]
    BY <1>1, <1>2 DEF NodeInv
<1> QED BY <1>1, <1>2, <1>3, <1>4, <1>5 DEF NodeInv, Here

LEMMA RestoreStep ==
    ASSUME NodeInv, Restore
    PROVE  /\ NodeInv' /\ call'.updated = call.updated /\ call'.kind = "geometry"
           /\ \E p \in call.left :
                /\ gpus' = [gpus EXCEPT ![call.at] = createSlices(Here, p, call.original[p])]
                /\ call' = [call EXCEPT !.left = @ \ {p}]
                /\ p \in Profiles /\ call.original[p] \in Nat
                /\ Grown(Here, createSlices(Here, p, call.original[p]))
<1>1. PICK p \in call.left :
        /\ gpus' = [gpus EXCEPT ![call.at] = createSlices(Here, p, call.original[p])]
        /\ call' = [call EXCEPT !.left = @ \ {p}]
    BY DEF Restore, Here
<1>2. /\ TypeOK /\ call.pc = "restore" /\ call.kind = "geometry"
      /\ Validate(Here) /\ UNCHANGED <<before, calls>>
    BY NodeFacts DEF NodeInv, Restore, Here
<1>3. call.original \in [DOMAIN call.original -> Nat] /\ DOMAIN call.original \subseteq Profiles
    BY <1>2, NodeFacts, MapType
<1>4. p \in Profiles /\ call.original[p] \in Nat
    BY <1>2, <1>3 DEF TypeOK
<1> DEFINE h == createSlices(Here, p, call.original[p])
<1>5. Grown(Here, h)
    BY <1>2, <1>4, NodeFacts, CreatedSlices
<1>6. /\ call' \in Call /\ call'.pc = "restore" /\ call'.at = call.at /\ call'.kind = call.kind
      /\ call'.original = call.original /\ call'.left \subseteq DOMAIN call.original
      /\ call'.updated = call.updated
    BY <1>1, <1>2 DEF TypeOK, Call
<1> HIDE DEF h
<1>7. NodeInv'
    BY <1>1, <1>2, <1>5, <1>6, SearchStep DEF h, Grown
<1> QED BY <1>1, <1>2, <1>4, <1>5, <1>6, <1>7 DEF h

LEMMA RestoredStep ==
    ASSUME NodeInv, Restored
    PROVE  NodeInv'
<1>1. /\ TypeOK /\ call.pc = "restore" /\ call.left = {} /\ call.kind = "geometry"
      /\ UNCHANGED <<gpus, before, calls>> /\ call \in Call
    BY NodeFacts DEF NodeInv, Restored
<1>2. CASE call.missing = NoSlices
    BY <1>1, <1>2, OnwardStep DEF Restored
<1>3. CASE call.missing # NoSlices
    <2>1. call' = [call EXCEPT !.pc = "create"]
        BY <1>3 DEF Restored
    <2>2. /\ call' \in Call /\ call'.pc = "create" /\ call'.kind = call.kind /\ call'.at = call.at
          /\ call'.missing = call.missing /\ call'.original = call.original /\ call'.left = {}
        BY <1>1, <2>1 DEF Call
    <2>3. TypeOK'
        BY <1>1, <2>2 DEF TypeOK
    <2> QED BY <1>1, <1>3, <2>2, <2>3 DEF NodeInv
<1> QED BY <1>2, <1>3

\* The free slices of h, of the sizes that are not original ones, are at least g's.
Kept(g, h, original) ==
    /\ h \in GPU /\ Validate(h) /\ h.used = g.used
    /\ \A r : r \notin DOMAIN original => Get(h.free, r) >= Get(g.free, r)

\* What CreateMissing does with the GPU.
LEMMA CreatedMissing ==
    ASSUME NEW g \in GPU, Validate(g), NEW p \in Profiles, NEW num \in Nat, NEW original
    PROVE  LET spare  == Creatable(g, p, num)
               fuller == CreateEach(g, p, spare)
               bare   == [fuller EXCEPT !.free = Delete(@, DOMAIN original)]
               more   == Creatable(bare, p, num - spare)
               h      == CreateEach(bare, p, more)
           IN  /\ Kept(g, h, original) /\ spare + more \in Nat
               /\ ~(spare + more > 0) => h = [g EXCEPT !.free = Delete(g.free, DOMAIN original)]
<1> DEFINE spare  == Creatable(g, p, num)
           fuller == CreateEach(g, p, spare)
           f      == Delete(fuller.free, DOMAIN original)
           bare   == [fuller EXCEPT !.free = f]
           more   == Creatable(bare, p, num - spare)
           h      == CreateEach(bare, p, more)
<1>1. spare \in Nat /\ num - spare \in Nat
    <2>1. spare \in 0..num
        BY CreatableNumber
    <2> HIDE DEF spare
    <2> QED BY <2>1
<1>2. Grown(g, fuller)
    <2> HIDE DEF spare
    <2> QED BY <1>1, CreatedEach
<1>3. spare = 0 => fuller = g
    BY DEF CreateEach
<1>10. fuller \in GPU /\ Validate(fuller) /\ fuller.used = g.used /\ fuller.free \in Maps
    BY <1>2, GpuType DEF Grown
<1> HIDE DEF spare, fuller
<1>4. /\ f \in Maps /\ \A r : Get(f, r) = IF r \in DOMAIN original THEN 0 ELSE Get(fuller.free, r)
    BY ZenonT(60), <1>10, DeleteMap
<1> HIDE DEF f
<1>5. bare \in GPU /\ bare.used = g.used /\ bare.free = f
    BY <1>4, <1>10 DEF GPU
<1>6. Validate(bare)
    <2>1. \A r \in Profiles : Get(f, r) <= Get(fuller.free, r)
        <3>1. \A r : Get(fuller.free, r) \in Nat
            BY <1>10, MapType
        <3> QED BY <1>4, <3>1
    <2>2. Memory(f) <= Memory(fuller.free)
        BY <1>4, <1>10, <2>1, MemoryFewer
    <2>3. getTotSlicesMemory(bare) = Memory(g.used) + Memory(f)
        BY <1>5, GpuType
    <2>4. getTotSlicesMemory(fuller) = Memory(g.used) + Memory(fuller.free)
        BY <1>10, GpuType
    <2>5. Memory(g.used) \in Nat /\ Memory(f) \in Nat /\ Memory(fuller.free) \in Nat /\ MemoryGB \in Nat
        BY <1>4, <1>10, GpuType, MemoryOf, SizesAssumption
    <2> QED BY <1>10, <2>2, <2>3, <2>4, <2>5 DEF Validate
<1> HIDE DEF bare
<1>7. more \in Nat
    <2>1. more \in 0..(num - spare)
        BY <1>1, <1>5, CreatableNumber
    <2> HIDE DEF more
    <2> QED BY <1>1, <2>1
<1>8. more = 0 => h = bare
    BY DEF CreateEach
<1>9. Grown(bare, h)
    <2> HIDE DEF more
    <2> QED BY <1>5, <1>6, <1>7, CreatedEach
<1> HIDE DEF more, h
<1>11. Kept(g, h, original)
    <2>1. h \in GPU /\ Validate(h) /\ h.used = g.used
        BY <1>5, <1>9 DEF Grown
    <2>2. ASSUME NEW r, r \notin DOMAIN original
          PROVE  Get(h.free, r) >= Get(g.free, r)
        <3>1. Get(h.free, r) >= Get(f, r)
            BY <1>5, <1>9 DEF Grown
        <3>2. Get(f, r) = Get(fuller.free, r)
            BY <1>4, <2>2
        <3>3. Get(fuller.free, r) >= Get(g.free, r)
            BY <1>2 DEF Grown
        <3>4. Get(h.free, r) \in Nat /\ Get(f, r) \in Nat /\ Get(g.free, r) \in Nat
            BY <1>4, <2>1, GpuType, MapType
        <3> QED BY <3>1, <3>2, <3>3, <3>4
    <2> QED BY <2>1, <2>2 DEF Kept
<1>12. ~(spare + more > 0) => spare = 0 /\ more = 0
    BY <1>1, <1>7
<1>13. ~(spare + more > 0) => h = [g EXCEPT !.free = Delete(g.free, DOMAIN original)]
    BY <1>3, <1>8, <1>12 DEF bare, f
<1>14. spare + more \in Nat
    BY <1>1, <1>7
<1> QED BY <1>11, <1>13, <1>14 DEF h, more, bare, f, fuller, spare

LEMMA CreateStep ==
    ASSUME NodeInv, CreateMissing
    PROVE  /\ NodeInv' /\ call.pc = "create" /\ call'.pc = "restore" /\ call'.at = call.at
           /\ call'.original = call.original /\ call'.left = DOMAIN call.original
           /\ \E h : /\ gpus' = [gpus EXCEPT ![call.at] = h]
                     /\ Kept(Here, h, call.original)
                     /\ call'.updated
                        \/ h = [Here EXCEPT !.free = Delete(Here.free, DOMAIN call.original)]
                     /\ ~call'.updated => ~call.updated
<1> DEFINE p      == Min(DOMAIN call.missing)
           num    == call.missing[p]
           spare  == Creatable(Here, p, num)
           fuller == CreateEach(Here, p, spare)
           bare   == [fuller EXCEPT !.free = Delete(@, DOMAIN call.original)]
           more   == Creatable(bare, p, num - spare)
           h      == CreateEach(bare, p, more)
<1>1. /\ gpus' = [gpus EXCEPT ![call.at] = h]
      /\ call' = [call EXCEPT !.pc = "restore", !.left = DOMAIN call.original,
                              !.missing = Delete(@, {p}), !.updated = @ \/ spare + more > 0]
      /\ UNCHANGED <<before, calls>> /\ call.pc = "create"
    BY DEF CreateMissing, Create
<1>2. TypeOK /\ Validate(Here) /\ Here \in GPU /\ call.missing # NoSlices /\ call \in Call
    BY <1>1, NodeFacts DEF NodeInv, Here
<1>3. /\ call.missing \in Maps /\ DOMAIN call.missing \subseteq Profiles
      /\ call.missing \in [DOMAIN call.missing -> Nat]
      /\ call.original \in Maps /\ DOMAIN call.original \subseteq Profiles
    BY <1>2, NodeFacts, MapType
<1>4. p \in DOMAIN call.missing
    <2>1. DOMAIN call.missing # {}
        BY <1>2, <1>3, WithoutKeys
    <2>2. DOMAIN call.missing \in SUBSET Nat
        BY <1>3, SizesAssumption
    <2>3. \E x \in DOMAIN call.missing : \A y \in DOMAIN call.missing : x <= y
        BY <2>1, <2>2, LeastNumber
    <2> QED BY <2>3 DEF Min
<1> HIDE DEF p
<1>5. p \in Profiles /\ num \in Nat
    BY <1>3, <1>4
<1>6. /\ Kept(Here, h, call.original) /\ spare + more \in Nat
      /\ ~(spare + more > 0) => h = [Here EXCEPT !.free = Delete(Here.free, DOMAIN call.original)]
    <2> HIDE DEF num
    <2> QED BY <1>2, <1>5, CreatedMissing
<1> DEFINE some == spare + more > 0
           left == Delete(call.missing, {p})
<1>7. some \in BOOLEAN
    BY <1>6
<1>8. call' = [call EXCEPT !.pc = "restore", !.left = DOMAIN call.original,
                           !.missing = left, !.updated = call.updated \/ some]
    BY <1>1
<1>9. left \in Maps
    BY <1>3, DeleteMap
<1> HIDE DEF h, some, left
<1>10. /\ call' \in Call /\ call'.pc = "restore" /\ call'.at = call.at /\ call'.kind = call.kind
       /\ call'.original = call.original /\ call'.left = DOMAIN call.original
       /\ call'.updated = (call.updated \/ some)
    BY <1>2, <1>3, <1>7, <1>8, <1>9 DEF Call
<1>11. NodeInv'
    BY <1>1, <1>6, <1>10, SearchStep DEF Kept
<1>12. some \/ h = [Here EXCEPT !.free = Delete(Here.free, DOMAIN call.original)]
    BY <1>6 DEF some
<1>13. call.updated \in BOOLEAN
    BY <1>2 DEF Call
<1>14. /\ gpus' = [gpus EXCEPT ![call.at] = h] /\ Kept(Here, h, call.original)
       /\ call'.updated \/ h = [Here EXCEPT !.free = Delete(Here.free, DOMAIN call.original)]
       /\ ~call'.updated => ~call.updated
    BY <1>1, <1>6, <1>10, <1>12, <1>13
<1> QED BY <1>1, <1>10, <1>11, <1>14

-----------------------------------------------------------------------------
(***************************************************************************)
(* The theorems                                                            *)
(***************************************************************************)
LEMMA NodeInit == Init => NodeInv
<1> SUFFICES ASSUME Init PROVE NodeInv
    OBVIOUS
<1>1. Reported \subseteq GPU /\ \A g \in Reported : Validate(g)
    <2>1. UNION {[D -> 1..MemoryGB] : D \in SUBSET Profiles} \subseteq Maps
        <3>1. ASSUME NEW D \in SUBSET Profiles, NEW m \in [D -> 1..MemoryGB]
              PROVE  m \in Maps
            <4>1. m \in [D -> Nat]
                BY SizesAssumption
            <4> QED BY <4>1, IsMap
        <3> QED BY <3>1
    <2> QED BY <2>1 DEF Reported, GPU
<1>2. gpus \in [1..GpuCount -> GPU] /\ \A i \in 1..GpuCount : Validate(gpus[i])
    BY <1>1 DEF Init
<1>3. call \in Call /\ call.left = {} /\ call.pc = "idle"
    <2>1. NoSlices \in Maps /\ 1 \in 1..GpuCount
        BY NoSlicesType, SizesAssumption
    <2> QED BY <2>1 DEF Init, NoCall, Call
<1>4. TypeOK
    BY <1>2, <1>3, SizesAssumption DEF Init, TypeOK
<1> QED BY <1>2, <1>3, <1>4 DEF Init, NodeInv

LEMMA NodeStep == NodeInv /\ [Next]_vars => NodeInv'
<1> SUFFICES ASSUME NodeInv, [Next]_vars PROVE NodeInv'
    OBVIOUS
<1>1. CASE AddPod \/ UpdateGeometryFor
    BY <1>1, CalledStep
<1>2. CASE PodFits \/ PodDoesNotFit
    BY <1>2, PodStep
<1>3. CASE VisitGpu
    BY <1>3, VisitStep
<1>4. CASE CreateMissing
    BY <1>4, CreateStep
<1>5. CASE Restore
    BY <1>5, RestoreStep
<1>6. CASE Restored
    BY <1>6, RestoredStep
<1>7. CASE UNCHANGED vars
    BY <1>7 DEF vars, NodeInv, TypeOK
<1> QED BY <1>1, <1>2, <1>3, <1>4, <1>5, <1>6, <1>7 DEF Next

\* The inductive invariant of the node.
THEOREM NodeInvariant == Spec => []NodeInv
BY NodeInit, NodeStep, PTL DEF Spec

\* The types of the state, in particular that no count of slices ever becomes negative.
THEOREM SlicedTypes == Spec => []TypeOK
<1>1. NodeInv => TypeOK
    BY DEF NodeInv
<1> QED BY <1>1, NodeInvariant, PTL

\* createSlices, AddPod and the search of UpdateGeometryFor never make the slices of a
\* GPU exceed its memory.
THEOREM SlicedMemory == Spec => []MemoryRespected
<1>1. NodeInv => MemoryRespected
    BY DEF NodeInv, MemoryRespected
<1> QED BY <1>1, NodeInvariant, PTL

\* UpdateGeometryFor never takes away again what it has created of a size that the GPU
\* had no free slices of: it deletes the original free slices only.
THEOREM SlicedNewSizes == Spec => NewSizesStay
<1> DEFINE Stay == \A i \in 1..GpuCount, p \in Profiles :
                      call.kind = "geometry" /\ call.pc # "idle" /\ p \notin DOMAIN before[i].free =>
                         Get(gpus'[i].free, p) >= Get(gpus[i].free, p)
<1>1. NodeInv /\ [Next]_vars => [Stay]_vars
    <2> SUFFICES ASSUME NodeInv, Next, NEW i \in 1..GpuCount, NEW p \in Profiles,
                        call.kind = "geometry", call.pc # "idle", p \notin DOMAIN before[i].free
                 PROVE  Get(gpus'[i].free, p) >= Get(gpus[i].free, p)
        OBVIOUS
    <2>1. gpus[i] \in GPU /\ call.at \in 1..GpuCount /\ TypeOK /\ Here \in GPU
        BY NodeFacts DEF NodeInv
    <2>2. Get(gpus[i].free, p) \in Nat
        BY <2>1, GpuType, MapType
    <2>3. CASE gpus' = gpus
        BY <2>2, <2>3
    <2>4. ASSUME NEW h, gpus' = [gpus EXCEPT ![call.at] = h], h \in GPU,
                 i = call.at => Get(h.free, p) >= Get(Here.free, p)
          PROVE  Get(gpus'[i].free, p) >= Get(gpus[i].free, p)
        <3>1. gpus'[call.at] = h /\ (i # call.at => gpus'[i] = gpus[i])
            BY <2>1, <2>4, GpuChanged
        <3> QED BY <2>2, <2>4, <3>1 DEF Here
    <2>5. CASE CreateMissing
        <3>1. PICK h : gpus' = [gpus EXCEPT ![call.at] = h] /\ Kept(Here, h, call.original)
            BY <2>5, CreateStep
        <3>2. call.original = before[call.at].free
            BY <2>5 DEF NodeInv, CreateMissing, Create
        <3> QED BY <2>4, <3>1, <3>2 DEF Kept
    <2>6. CASE Restore
        <3>1. PICK h : gpus' = [gpus EXCEPT ![call.at] = h] /\ Grown(Here, h)
            BY <2>6, RestoreStep
        <3> QED BY <2>4, <3>1 DEF Grown
    <2>7. ~PodFits /\ ~PodDoesNotFit
        BY DEF NodeInv, PodFits, PodDoesNotFit
    <2>8. CASE AddPod \/ UpdateGeometryFor \/ VisitGpu \/ Restored
        BY <2>3, <2>8, CalledStep DEF VisitGpu, Restored
    <2> QED BY <2>5, <2>6, <2>7, <2>8 DEF Next
<1> QED BY <1>1, NodeInvariant, PTL DEF Spec, NewSizesStay

LEMMA GeometryOf ==
    ASSUME NEW g \in GPU, NEW p
    PROVE  Get(GetGeometry(g), p) = Get(g.used, p) + Get(g.free, p)
<1>1. CASE p \in DOMAIN g.used \cup DOMAIN g.free
    BY <1>1 DEF GetGeometry, Get
<1>2. CASE p \notin DOMAIN g.used \cup DOMAIN g.free
    BY <1>2 DEF GetGeometry, Get
<1> QED BY <1>1, <1>2

\* AddPod only ever turns free slices into used ones, on the GPU that lends them all and
\* on those that it gives up on half-way.
THEOREM SlicedAddPod == Spec => []AddPodKeepsGeometry
<1> DEFINE Inv == NodeInv /\ AddPodKeepsGeometry
<1>1. Init => Inv
    BY NodeInit DEF Init, NoCall, AddPodKeepsGeometry
<1>2. Inv /\ [Next]_vars => Inv'
    <2> SUFFICES ASSUME NodeInv, AddPodKeepsGeometry, [Next]_vars
                 PROVE  AddPodKeepsGeometry'
        BY NodeStep
    <2>1. CASE call'.kind # "pod"
        BY <2>1 DEF AddPodKeepsGeometry
    <2>2. CASE AddPod \/ UpdateGeometryFor
        <3>1. before' = gpus /\ gpus' = gpus /\ ~call'.ok
            BY <2>2, CalledStep
        <3> QED BY <3>1 DEF AddPodKeepsGeometry
    <2>3. CASE PodFits \/ PodDoesNotFit
        <3>1. /\ TypeOK /\ Here \in GPU /\ Validate(Here) /\ call.pc = "pod" /\ call.kind = "pod"
              /\ ~call.ok /\ call.at \in 1..GpuCount /\ Here = before[call.at]
              /\ before' = before /\ gpus \in [1..GpuCount -> GPU]
            BY <2>3, NodeFacts DEF NodeInv, PodFits, PodDoesNotFit, Here
        <3>2. PICK ps \in SUBSET Fitting(Here) :
                /\ gpus' = [gpus EXCEPT ![call.at] = Take(Here, ps)]
                /\ call'.ok => ps = DOMAIN call.required
                /\ call'.required = call.required
            <4>1. call \in Call
                BY <3>1, NodeFacts
            <4>2. CASE PodFits
                BY <4>1, <4>2 DEF PodFits, Here, Call
            <4>3. CASE PodDoesNotFit
                BY <3>1, <4>1, <4>3 DEF PodDoesNotFit, Here, Call
            <4> QED BY <2>3, <4>2, <4>3
        <3> DEFINE h == Take(Here, ps)
        <3>3. /\ h \in GPU
              /\ \A p : Get(h.used, p)
                          = Get(Here.used, p) + (IF p \in ps THEN call.required[p] ELSE 0)
              /\ \A p : Get(h.used, p) + Get(h.free, p) = Get(Here.used, p) + Get(Here.free, p)
            <4>1. TypeOK /\ Here \in GPU /\ Validate(Here)
                BY <3>1
            <4>2. ps \in SUBSET Fitting(Here)
                BY <3>2
            <4> QED BY ZenonT(60), <4>1, <4>2, TakenSlices
        <3> HIDE DEF h
        <3>4. /\ gpus'[call.at] = h /\ \A i \in 1..GpuCount : i # call.at => gpus'[i] = gpus[i]
            BY <3>1, <3>2, <3>3, GpuChanged DEF h
        <3>5. \A p : Get(GetGeometry(h), p) = Get(GetGeometry(Here), p)
            BY <3>1, <3>3, GeometryOf
        <3>6. \A i \in 1..GpuCount, p \in Profiles :
                 Get(GetGeometry(gpus'[i]), p) = Get(GetGeometry(before'[i]), p)
            BY <3>1, <3>4, <3>5 DEF AddPodKeepsGeometry, Here
        <3>7. call'.ok => \A p \in DOMAIN call'.required :
                 Get(gpus'[call.at].used, p) = Get(before'[call.at].used, p) + call'.required[p]
            BY <3>1, <3>2, <3>3, <3>4
        <3> QED BY <3>1, <3>6, <3>7 DEF AddPodKeepsGeometry
    <2>4. CASE VisitGpu \/ CreateMissing \/ Restore \/ Restored
        <3>1. call.kind = "geometry" /\ call \in Call
            BY <2>4, NodeFacts DEF NodeInv, VisitGpu, CreateMissing, Create, Restore, Restored
        <3>2. call'.kind = "geometry"
            <4>1. CASE VisitGpu \/ Restored
                <5>1. Onward(call).kind = call.kind
                    BY OnwardCall DEF NodeInv
                <5> QED BY <3>1, <4>1, <5>1 DEF VisitGpu, Restored, Call
            <4>2. CASE CreateMissing
                BY <3>1, <4>2, CreateStep DEF NodeInv
            <4>3. CASE Restore
                BY <4>3, RestoreStep
            <4> QED BY <2>4, <4>1, <4>2, <4>3
        <3> QED BY <2>1, <3>2
    <2>5. CASE UNCHANGED vars
        BY <2>5 DEF vars, AddPodKeepsGeometry
    <2> QED BY <2>2, <2>3, <2>4, <2>5 DEF Next
<1>3. Inv => AddPodKeepsGeometry
    OBVIOUS
<1> QED BY <1>1, <1>2, <1>3, PTL DEF Spec

-----------------------------------------------------------------------------
(***************************************************************************)
(* UpdateGeometryFor that finds nothing to create                          *)
(***************************************************************************)
\* As long as nothing has been created, the GPUs are as they were, but for the free slices
\* of the one at hand that are still to be restored.
Searched ==
    call.kind = "geometry" /\ ~call.updated =>
        /\ \A i \in 1..GpuCount : i # call.at => SameSlices(gpus[i], before[i])
        /\ call.pc # "restore" => SameSlices(Here, before[call.at])
        /\ call.pc \in {"create", "restore"} => DOMAIN Here.free \subseteq DOMAIN call.original
        /\ call.pc = "restore" => \A p \in Profiles :
            Get(Here.free, p) = IF p \in call.left THEN 0 ELSE Get(call.original, p)

LEMMA CreateSearched ==
    ASSUME NodeInv, Searched, CreateMissing
    PROVE  Searched'
<1> SUFFICES ASSUME call'.kind = "geometry", ~call'.updated PROVE Searched'
    BY DEF Searched
<1>1. /\ TypeOK /\ call.pc = "create" /\ call'.pc = "restore" /\ call'.at = call.at /\ call.kind = "geometry"
      /\ call'.original = call.original /\ call'.left = DOMAIN call.original
      /\ call.at \in 1..GpuCount /\ Here \in GPU /\ before' = before
    BY CreateStep, NodeFacts DEF NodeInv, CreateMissing, Create
<1>2. PICK h : /\ gpus' = [gpus EXCEPT ![call.at] = h] /\ h \in GPU
               /\ h = [Here EXCEPT !.free = Delete(Here.free, DOMAIN call.original)]
               /\ ~call.updated
    BY CreateStep DEF Kept
<1>3. /\ gpus'[call.at] = h /\ \A i \in 1..GpuCount : i # call.at => gpus'[i] = gpus[i]
    BY <1>1, <1>2, GpuChanged
<1>4. h.free = Delete(Here.free, DOMAIN call.original)
    BY <1>1, <1>2 DEF GPU
<1>5. DOMAIN Here.free \subseteq DOMAIN call.original
    BY <1>1, <1>2 DEF Searched
<1>6. DOMAIN h.free = {}
    BY <1>4, <1>5 DEF Delete
<1>7. \A p : Get(h.free, p) = 0
    BY <1>6 DEF Get
<1>8. \A p : p \notin DOMAIN call.original => Get(call.original, p) = 0
    BY DEF Get
<1>9. \A i \in 1..GpuCount : i # call.at => SameSlices(gpus[i], before[i])
    BY <1>1, <1>2 DEF Searched
<1>10. Here' = h
    BY <1>1, <1>3 DEF Here
<1>11. \A i \in 1..GpuCount : i # call.at => SameSlices(gpus[i], before[i])'
    BY <1>1, <1>3, <1>9 DEF SameSlices
<1> QED BY <1>1, <1>6, <1>7, <1>8, <1>10, <1>11 DEF Searched

\* The slices of a size that is still to be restored fit: the GPU held them before, beside
\* at least those that it holds now.
LEMMA RestoreFits ==
    ASSUME NEW g \in GPU, NEW b \in GPU, Validate(b), g.used = b.used, NEW p \in DOMAIN b.free,
           Get(g.free, p) = 0, \A r \in Profiles : Get(g.free, r) <= Get(b.free, r)
    PROVE  getTotSlicesMemory(g) + p * b.free[p] <= MemoryGB
<1> DEFINE n == b.free[p]
           k == Put(g.free, p, Get(g.free, p) + n)
<1>1. /\ g.free \in Maps /\ b.free \in Maps /\ p \in Profiles /\ n \in Nat /\ Get(b.free, p) = n
    <2>1. g.free \in Maps /\ b.free \in Maps
        BY GpuType
    <2> QED BY <2>1, MapType DEF Get
<1> HIDE DEF n
<1>2. k \in Maps /\ Memory(k) = Memory(g.free) + p * n
    BY <1>1, MemoryPut
<1>3. \A r \in Profiles : Get(k, r) <= Get(b.free, r)
    <2>1. Get(k, p) = n
        BY <1>1 DEF Put, Get
    <2>2. \A r \in Profiles : r # p => Get(k, r) = Get(g.free, r)
        BY DEF Put, Get
    <2> HIDE DEF k
    <2> QED BY <1>1, <2>1, <2>2
<1> HIDE DEF k
<1>4. Memory(k) <= Memory(b.free)
    BY <1>1, <1>2, <1>3, MemoryFewer
<1>5. /\ Memory(g.used) \in Nat /\ Memory(g.free) \in Nat /\ Memory(b.free) \in Nat /\ Memory(k) \in Nat
      /\ MemoryGB \in Nat /\ p * n \in Nat
    BY <1>1, <1>2, GpuType, MemoryOf, SizesAssumption
<1>6. /\ getTotSlicesMemory(g) = Memory(g.used) + Memory(g.free)
      /\ getTotSlicesMemory(b) = Memory(g.used) + Memory(b.free)
    BY GpuType
<1>7. getTotSlicesMemory(b) <= MemoryGB
    BY DEF Validate
<1>8. getTotSlicesMemory(g) + p * n <= MemoryGB
    BY <1>2, <1>4, <1>5, <1>6, <1>7
<1> QED BY <1>8 DEF n

LEMMA RestoreSearched ==
    ASSUME NodeInv, Searched, Restore
    PROVE  Searched'
<1> SUFFICES ASSUME call'.kind = "geometry", ~call'.updated PROVE Searched'
    BY DEF Searched
<1> DEFINE b == before[call.at]
<1>1. PICK p \in call.left :
        /\ gpus' = [gpus EXCEPT ![call.at] = createSlices(Here, p, call.original[p])]
        /\ call' = [call EXCEPT !.left = @ \ {p}]
        /\ p \in Profiles /\ call.original[p] \in Nat
        /\ Grown(Here, createSlices(Here, p, call.original[p]))
    BY RestoreStep
<1>2. /\ TypeOK /\ call.pc = "restore" /\ call.kind = "geometry" /\ call \in Call /\ before' = before
      /\ call.at \in 1..GpuCount /\ Here \in GPU /\ b \in GPU /\ Validate(Here) /\ Validate(b)
      /\ call.original = b.free /\ Here.used = b.used /\ call.left \subseteq DOMAIN call.original
    BY NodeFacts DEF NodeInv, Restore, Here, TypeOK
<1>3. /\ call'.pc = "restore" /\ call'.at = call.at /\ call'.original = call.original
      /\ call'.left = call.left \ {p} /\ call'.updated = call.updated
    BY <1>1, <1>2 DEF Call
<1>4. /\ \A i \in 1..GpuCount : i # call.at => SameSlices(gpus[i], before[i])
      /\ DOMAIN Here.free \subseteq DOMAIN call.original
      /\ \A r \in Profiles : Get(Here.free, r) = IF r \in call.left THEN 0 ELSE Get(call.original, r)
    BY <1>2, <1>3 DEF Searched
<1> DEFINE h == createSlices(Here, p, call.original[p])
<1>5. /\ h \in GPU /\ DOMAIN h.free \subseteq DOMAIN Here.free \cup {p}
      /\ \A r : r # p => Get(h.free, r) = Get(Here.free, r)
      /\ getTotSlicesMemory(Here) + p * call.original[p] <= MemoryGB
            => Get(h.free, p) = Get(Here.free, p) + call.original[p]
    <2> DEFINE num == call.original[p]
    <2>1. Here \in GPU /\ Validate(Here) /\ p \in Profiles /\ num \in Nat
        BY <1>1, <1>2
    <2> HIDE DEF num
    <2>2. /\ Grown(Here, createSlices(Here, p, num))
          /\ DOMAIN createSlices(Here, p, num).free \subseteq DOMAIN Here.free \cup {p}
          /\ \A r : r # p => Get(createSlices(Here, p, num).free, r) = Get(Here.free, r)
          /\ getTotSlicesMemory(Here) + p * num <= MemoryGB
                => Get(createSlices(Here, p, num).free, p) = Get(Here.free, p) + num
        BY <2>1, CreatedSlices, Zenon
    <2> QED BY <2>2, Zenon DEF Grown, num
<1>6. getTotSlicesMemory(Here) + p * call.original[p] <= MemoryGB
    <2>1. \A r : Get(b.free, r) \in Nat
        BY <1>2, GpuType, MapType
    <2>2. Get(Here.free, p) = 0 /\ \A r \in Profiles : Get(Here.free, r) <= Get(b.free, r)
        BY <1>1, <1>2, <1>4, <2>1
    <2>3. p \in DOMAIN b.free
        BY <1>2
    <2> HIDE DEF b
    <2>4. getTotSlicesMemory(Here) + p * b.free[p] <= MemoryGB
        BY <1>2, <2>2, <2>3, RestoreFits
    <2> QED BY <1>2, <2>4
<1>7. Get(h.free, p) = Get(call.original, p)
    <2>1. Get(Here.free, p) = 0
        BY <1>1, <1>4
    <2>2. Get(call.original, p) = call.original[p]
        BY SMTT(40), <1>2 DEF Get
    <2> QED BY <1>1, <1>5, <1>6, <2>1, <2>2
<1>8. /\ gpus'[call.at] = h /\ \A i \in 1..GpuCount : i # call.at => gpus'[i] = gpus[i]
    BY <1>1, <1>2, <1>5, GpuChanged
<1> HIDE DEF h
<1>9. Here' = h
    BY <1>3, <1>8 DEF Here
<1>10. \A r \in Profiles : Get(h.free, r) = IF r \in call.left \ {p} THEN 0 ELSE Get(call.original, r)
    BY <1>4, <1>5, <1>7
<1>11. DOMAIN h.free \subseteq DOMAIN call.original
    BY <1>2, <1>4, <1>5
<1>12. \A i \in 1..GpuCount : i # call.at => SameSlices(gpus[i], before[i])'
    BY <1>2, <1>4, <1>8 DEF SameSlices
<1> QED BY <1>3, <1>9, <1>10, <1>11, <1>12 DEF Searched

LEMMA RestoredSearched ==
    ASSUME NodeInv, Searched, VisitGpu \/ Restored
    PROVE  Searched'
<1> SUFFICES ASSUME call'.kind = "geometry", ~call'.updated PROVE Searched'
    BY DEF Searched
<1>1. /\ TypeOK /\ call.pc \in {"gpu", "restore"} /\ call.kind = "geometry" /\ call \in Call
      /\ gpus' = gpus /\ before' = before /\ call.at \in 1..GpuCount /\ Here \in GPU
      /\ call.pc = "restore" => call.original = before[call.at].free /\ Here.used = before[call.at].used
                                  /\ call.left = {}
      /\ \A i \in 1..GpuCount : i > call.at => gpus[i] = before[i]
    BY NodeFacts DEF NodeInv, VisitGpu, Restored, Here
<1>2. /\ call'.updated = call.updated /\ call'.pc # "restore" /\ call'.at \in 1..GpuCount
      /\ call'.pc = "create" =>
            /\ call'.at = call.at
            /\ \/ call.pc = "gpu" /\ call'.original = Here.free
               \/ call.pc = "restore" /\ call'.original = call.original
    <2>1. CASE call' = Onward(call)
        BY <1>1, <2>1, OnwardCall
    <2>2. CASE call' # Onward(call)
        BY <1>1, <2>2 DEF VisitGpu, Restored, Call
    <2> QED BY <2>1, <2>2
<1>3. /\ \A i \in 1..GpuCount : i # call.at => SameSlices(gpus[i], before[i])
      /\ call.pc # "restore" => SameSlices(Here, before[call.at])
      /\ call.pc = "restore" => DOMAIN Here.free \subseteq DOMAIN call.original
      /\ call.pc = "restore" => \A p \in Profiles : Get(Here.free, p) = Get(call.original, p)
    BY <1>1, <1>2 DEF Searched
<1>4. SameSlices(Here, before[call.at])
    BY <1>1, <1>3 DEF SameSlices
<1>5. \A i \in 1..GpuCount : SameSlices(gpus[i], before[i])
    BY <1>3, <1>4 DEF Here
<1>6. \A i \in 1..GpuCount : SameSlices(gpus[i], before[i])'
    BY <1>1, <1>5 DEF SameSlices
<1>7. SameSlices(Here, before[call.at])'
    BY <1>2, <1>6 DEF Here
<1>8. call'.pc = "create" => DOMAIN Here'.free \subseteq DOMAIN call'.original
    BY <1>1, <1>2, <1>3 DEF Here
<1> QED BY <1>2, <1>6, <1>7, <1>8 DEF Searched

\* If UpdateGeometryFor returns false, it has put back every free slice that it deleted in
\* its search: the slices of a GPU that could create nothing always fit again, whatever
\* the order in which they are restored.
THEOREM SlicedUnchanged == Spec => []UnchangedUnlessUpdated
<1> DEFINE Inv == NodeInv /\ Searched
<1>1. Init => Inv
    BY NodeInit DEF Init, NoCall, Searched
<1>2. Inv /\ [Next]_vars => Inv'
    <2> SUFFICES ASSUME NodeInv, Searched, [Next]_vars
                 PROVE  Searched'
        BY NodeStep
    <2>1. CASE AddPod \/ UpdateGeometryFor
        <3>1. NodeInv' /\ before' = gpus /\ gpus' = gpus /\ call'.pc \in {"pod", "gpu"}
            BY <2>1, CalledStep DEF AddPod, UpdateGeometryFor, Called, NoCall
        <3>2. call'.at \in 1..GpuCount
            BY <3>1 DEF NodeInv, TypeOK, Call
        <3>3. \A i \in 1..GpuCount : SameSlices(gpus[i], before[i])'
            BY <3>1 DEF SameSlices
        <3> QED BY <3>1, <3>2, <3>3 DEF Searched, Here
    <2>2. CASE PodFits \/ PodDoesNotFit
        <3>1. call'.kind = "pod"
            BY <2>2, NodeFacts DEF NodeInv, PodFits, PodDoesNotFit, Call
        <3> QED BY <3>1 DEF Searched
    <2>3. CASE VisitGpu \/ Restored
        BY <2>3, RestoredSearched
    <2>4. CASE CreateMissing
        BY <2>4, CreateSearched
    <2>5. CASE Restore
        BY <2>5, RestoreSearched
    <2>6. CASE UNCHANGED vars
        BY <2>6 DEF vars, Searched, SameSlices, Here
    <2> QED BY <2>1, <2>2, <2>3, <2>4, <2>5, <2>6 DEF Next
<1>3. Inv => UnchangedUnlessUpdated
    BY NodeFacts DEF NodeInv, Searched, UnchangedUnlessUpdated, Returned, Here
<1> QED BY <1>1, <1>2, <1>3, PTL DEF Spec

=============================================================================
