------------------------------ MODULE SlicedNode ------------------------------
(***************************************************************************)
(* A node with GPUs that are shared in slices of their memory              *)
(* (pkg/gpu/slicing/gpu.go, node.go).  A profile is the size of its slices *)
(* in GB.  The maps UsedProfiles and FreeProfiles are functions from the   *)
(* profiles they have a key for; Go's order of their keys is any order.    *)
(***************************************************************************)
EXTENDS Naturals, FiniteSets, FiniteSetsExt

CONSTANTS
    Profiles,     \* the sizes of slices, in GB
    MemoryGB,     \* the memory of a GPU
    GpuCount,     \* the GPUs of the node
    Requests,     \* the slices a Pod may request, or a plan require
    MaxCalls      \* bound: calls of AddPod and UpdateGeometryFor

MinSliceMemoryGB == 1

ASSUME SizesAssumption ==
    /\ IsFiniteSet(Profiles) /\ \A p \in Profiles : p \in Nat /\ p >= MinSliceMemoryGB
    /\ MemoryGB \in Nat /\ GpuCount \in Nat \ {0} /\ MaxCalls \in Nat
    /\ \A r \in Requests : DOMAIN r \subseteq Profiles /\ r \in [DOMAIN r -> Nat \ {0}]

VARIABLES
    gpus,     \* Node.GPUs
    call,     \* the method that runs, or the last one: its local variables
    before,   \* history: the GPUs when it began
    calls     \* how much of the bound is used up

vars == <<gpus, call, before, calls>>

-----------------------------------------------------------------------------
(***************************************************************************)
(* Maps and memory                                                         *)
(***************************************************************************)
Maps == UNION {[D -> Nat] : D \in SUBSET Profiles}

NoSlices == [p \in {} |-> 0]

\* m[p], 0 without a key.
Get(m, p) == IF p \in DOMAIN m THEN m[p] ELSE 0

Put(m, p, q)  == [r \in DOMAIN m \cup {p} |-> IF r = p THEN q ELSE m[r]]
Delete(m, ks) == [p \in DOMAIN m \ ks |-> m[p]]

Memory(m) == SumFunction([p \in DOMAIN m |-> p * m[p]])

getTotSlicesMemory(g) == Memory(g.used) + Memory(g.free)

\* What is left, 0 if the slices exceed the memory.
SpareMemory(g) ==
    IF getTotSlicesMemory(g) > MemoryGB THEN 0 ELSE MemoryGB - getTotSlicesMemory(g)

canCreateMoreSlices(g) == SpareMemory(g) >= MinSliceMemoryGB

\* Faulty variants of createSlices: one slice more than there is room for; one
\* less.
createSlicesOneTooMany(g, p, num) ==
    IF SpareMemory(g) + p < p * num THEN g
    ELSE [g EXCEPT !.free = Put(@, p, Get(@, p) + num)]

createSlicesOneLess(g, p, num) ==
    IF SpareMemory(g) <= p * num THEN g
    ELSE [g EXCEPT !.free = Put(@, p, Get(@, p) + num)]

\* All of them or, if they do not fit, none.
createSlices(g, p, num) ==
    IF SpareMemory(g) < p * num THEN g
    ELSE [g EXCEPT !.free = Put(@, p, Get(@, p) + num)]

\* The loop that creates num slices one at a time until one does not fit.
Creatable(g, p, num) == IF ~canCreateMoreSlices(g) THEN 0
                        ELSE Max({n \in 0..num : p * n <= SpareMemory(g)})

CreateEach(g, p, num) == IF num = 0 THEN g ELSE createSlices(g, p, num)

Validate(g) == getTotSlicesMemory(g) <= MemoryGB

GetGeometry(g) == [p \in DOMAIN g.used \cup DOMAIN g.free |-> Get(g.used, p) + Get(g.free, p)]

getMissingSlices(g, required) ==
    LET missing == {p \in DOMAIN required : required[p] > Get(g.free, p)}
    IN  [p \in missing |-> required[p] - Get(g.free, p)]

\* What UpdateGeometryFor of the node leaves for the next GPU.
StillRequired(required, g) ==
    LET left == {p \in DOMAIN required :
                    p \notin DOMAIN g.free \/ required[p] > g.free[p]}
    IN  [p \in left |-> required[p] - Get(g.free, p)]

-----------------------------------------------------------------------------
(***************************************************************************)
(* State                                                                   *)
(***************************************************************************)
NoCall == [kind |-> "none", pc |-> "idle", at |-> 1, required |-> NoSlices,
           missing |-> NoSlices, original |-> NoSlices, left |-> {},
           updated |-> FALSE, ok |-> FALSE]

\* extractGPUs: an annotation counts at least one slice, and a node whose
\* annotations exceed the memory of a GPU is refused.
Reported ==
    LET Annotations == UNION {[D -> 1..MemoryGB] : D \in SUBSET Profiles}
    IN  {g \in [used : Annotations, free : Annotations] : Validate(g)}

Init ==
    /\ gpus \in [1..GpuCount -> Reported]
    /\ before = gpus
    /\ call = NoCall
    /\ calls = 0

GPU == [used : Maps, free : Maps]

Call == [kind : {"none", "pod", "geometry"}, pc : {"idle", "pod", "gpu", "create", "restore"},
         at : 1..GpuCount, required : Maps, missing : Maps, original : Maps,
         left : SUBSET Profiles, updated : BOOLEAN, ok : BOOLEAN]

\* The types of the variables.
TypeOK ==
    /\ gpus \in [1..GpuCount -> GPU] /\ before \in [1..GpuCount -> GPU]
    /\ call \in Call /\ call.left \subseteq DOMAIN call.original
    /\ calls \in 0..MaxCalls

Called(kind, pc, required) ==
    /\ call.pc = "idle"
    /\ calls < MaxCalls /\ calls' = calls + 1
    /\ call' = [NoCall EXCEPT !.kind = kind, !.pc = pc, !.required = required]
    /\ before' = gpus
    /\ UNCHANGED gpus

\* The GPU the loop over n.GPUs is at.
Here == gpus[call.at]

-----------------------------------------------------------------------------
(***************************************************************************)
(* AddPod                                                                  *)
(***************************************************************************)
AddPod == \E request \in Requests : Called("pod", "pod", request)

Take(g, ps) ==
    [used |-> [p \in DOMAIN g.used \cup ps |->
                Get(g.used, p) + (IF p \in ps THEN call.required[p] ELSE 0)],
     free |-> [p \in DOMAIN g.free \cup ps |->
                IF p \in ps THEN Get(g.free, p) - call.required[p] ELSE g.free[p]]]

Fitting(g) == {p \in DOMAIN call.required : call.required[p] <= Get(g.free, p)}

\* Faulty variant: the slices are taken without looking.
PodForced ==
    /\ call.pc = "pod"
    /\ gpus' = [gpus EXCEPT ![call.at].used = Take(Here, DOMAIN call.required).used]
    /\ call' = [call EXCEPT !.pc = "idle", !.ok = TRUE]
    /\ UNCHANGED <<before, calls>>

\* GPU.AddPod finds enough slices of every profile.
PodFits ==
    /\ call.pc = "pod"
    /\ Fitting(Here) = DOMAIN call.required
    /\ gpus' = [gpus EXCEPT ![call.at] = Take(@, DOMAIN call.required)]
    /\ call' = [call EXCEPT !.pc = "idle", !.ok = TRUE]
    /\ UNCHANGED <<before, calls>>

\* It does not, and returns an error at the first profile that lacks slices:
\* the ones it has come across before are taken.
PodDoesNotFit ==
    /\ call.pc = "pod"
    /\ Fitting(Here) # DOMAIN call.required
    /\ \E ps \in SUBSET Fitting(Here) : gpus' = [gpus EXCEPT ![call.at] = Take(@, ps)]
    /\ call' = IF call.at = GpuCount THEN [call EXCEPT !.pc = "idle"]
               ELSE [call EXCEPT !.at = @ + 1]
    /\ UNCHANGED <<before, calls>>

-----------------------------------------------------------------------------
(***************************************************************************)
(* UpdateGeometryFor                                                       *)
(***************************************************************************)
UpdateGeometryFor == \E required \in Requests : Called("geometry", "gpu", required)

\* To the next GPU, with what c's GPU does not provide, or back to the caller.
Onward(c) ==
    IF c.at = GpuCount THEN [c EXCEPT !.pc = "idle"]
    ELSE [c EXCEPT !.pc = "gpu", !.at = @ + 1, !.required = StillRequired(@, Here)]

VisitGpu ==
    /\ call.pc = "gpu"
    /\ LET missing == getMissingSlices(Here, call.required)
       IN  call' = IF missing = NoSlices THEN Onward(call)
                   ELSE [call EXCEPT !.pc = "create", !.missing = missing,
                                     !.original = Here.free]
    /\ UNCHANGED <<gpus, before, calls>>

\* The smallest profile of which slices are missing: first from spare memory,
\* then from what the original free slices take.
Create(deleted) ==
    /\ call.pc = "create"
    /\ LET p      == Min(DOMAIN call.missing)
           spare  == Creatable(Here, p, call.missing[p])
           fuller == CreateEach(Here, p, spare)
           bare   == [fuller EXCEPT !.free = Delete(@, deleted)]
           more   == Creatable(bare, p, call.missing[p] - spare)
       IN  /\ gpus' = [gpus EXCEPT ![call.at] = CreateEach(bare, p, more)]
           /\ call' = [call EXCEPT !.pc = "restore", !.left = DOMAIN call.original,
                                   !.missing = Delete(@, {p}),
                                   !.updated = @ \/ spare + more > 0]
    /\ UNCHANGED <<before, calls>>

\* Faulty variant: all free slices are deleted, the new ones too.
CreateDeletingAll == Create(Profiles)

CreateMissing == Create(DOMAIN call.original)

\* Each original profile gets its slices back, if all of them fit.
Restore ==
    /\ call.pc = "restore"
    /\ \E p \in call.left :
        /\ gpus' = [gpus EXCEPT ![call.at] = createSlices(@, p, call.original[p])]
        /\ call' = [call EXCEPT !.left = @ \ {p}]
    /\ UNCHANGED <<before, calls>>

Restored ==
    /\ call.pc = "restore" /\ call.left = {}
    /\ call' = IF call.missing = NoSlices THEN Onward(call) ELSE [call EXCEPT !.pc = "create"]
    /\ UNCHANGED <<gpus, before, calls>>

-----------------------------------------------------------------------------
Next ==
    \/ AddPod \/ PodFits \/ PodDoesNotFit
    \/ UpdateGeometryFor \/ VisitGpu \/ CreateMissing \/ Restore \/ Restored

Spec == Init /\ [][Next]_vars

-----------------------------------------------------------------------------
(***************************************************************************)
(* Properties                                                              *)
(***************************************************************************)
Returned(kind) == call.kind = kind /\ call.pc = "idle"

SameSlices(g, h) == \A p \in Profiles : /\ Get(g.used, p) = Get(h.used, p)
                                       /\ Get(g.free, p) = Get(h.free, p)

\* However often slices are created, deleted, restored and used, those of a GPU
\* never exceed its memory.
MemoryRespected == \A i \in 1..GpuCount : Validate(gpus[i])

\* If UpdateGeometryFor returns false, it has put back every free slice that it
\* deleted in its search, in whatever order it went over them.
UnchangedUnlessUpdated ==
    Returned("geometry") /\ ~call.updated =>
        \A i \in 1..GpuCount : SameSlices(gpus[i], before[i])

\* UpdateGeometryFor creates a slice of a size that the GPU had no free slice of
\* for good: neither the restoration of the original slices nor the search for
\* room for a larger profile takes it away again.
NewSizesStay ==
    [][\A i \in 1..GpuCount, p \in Profiles :
        call.kind = "geometry" /\ call.pc # "idle" /\ p \notin DOMAIN before[i].free =>
            Get(gpus'[i].free, p) >= Get(gpus[i].free, p)]_vars

\* AddPod turns free slices into used ones and never changes how many of a size
\* a GPU has, also when it gives up half-way; if it succeeds, one GPU has lent
\* everything the Pod requests.
AddPodKeepsGeometry ==
    call.kind = "pod" =>
        /\ \A i \in 1..GpuCount, p \in Profiles :
            Get(GetGeometry(gpus[i]), p) = Get(GetGeometry(before[i]), p)
        /\ call.ok => \E i \in 1..GpuCount : \A p \in DOMAIN call.required :
            Get(gpus[i].used, p) = Get(before[i].used, p) + call.required[p]
=============================================================================
