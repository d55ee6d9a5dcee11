------------------------------ MODULE NvmlClient ------------------------------
(***************************************************************************)
(* The NVML client on one GPU (pkg/gpu/nvml/client.go): a MIG device is a  *)
(* GPU instance with a compute instance in it, and each is created and     *)
(* destroyed by a call of its own that can fail.  The driver decides where *)
(* on the GPU an instance goes; since the instances that exist can leave   *)
(* no room for the next one, CreateMigDevices tries the permutations of    *)
(* the profiles (pkg/util/stat.go) and undoes each one that fails.         *)
(* A call runs alone: every caller holds the agent's mutex or runs before  *)
(* the controllers start.                                                  *)
(***************************************************************************)
EXTENDS Naturals, FiniteSets, SequencesExt

CONSTANTS
    Placements,          \* where an instance of each profile may start
    Size,                \* how many memory slices it takes
    GetKnownGeometries,  \* the geometries that the partitioner knows for the GPU
    MaxAsked,    \* bound: profiles in a call of CreateMigDevices
    MaxCalls,    \* bound: calls of the client
    MaxFaults    \* bound: calls of the driver that fail for a reason of their own

Profiles == DOMAIN Placements

ASSUME PlacementsAssumption ==
    \A p \in Profiles : Placements[p] \subseteq Nat /\ Size[p] \in Nat \ {0}

ASSUME BoundsAssumption == MaxAsked \in Nat /\ MaxCalls \in Nat /\ MaxFaults \in Nat

VARIABLES
    gpu,     \* the GPU instances that exist
    call,    \* the call that runs, or the last one: its arguments and local variables
    before,  \* history: the GPU instances that existed when it began
    calls, faults   \* how much of each bound is used up

vars == <<gpu, call, before, calls, faults>>

-----------------------------------------------------------------------------
(***************************************************************************)
(* The driver                                                              *)
(***************************************************************************)
Instances == UNION {[start : Placements[p], profile : {p}, ci : BOOLEAN] : p \in Profiles}

Slices(start, p) == start..(start + Size[p] - 1)

\* The places that are left for an instance of profile p.
Room(p) == {s \in Placements[p] :
                \A i \in gpu : Slices(i.start, i.profile) \cap Slices(s, p) = {}}

At(s) == CHOOSE i \in gpu : i.start = s

WithoutCi(s) == (gpu \ {At(s)}) \cup {[At(s) EXCEPT !.ci = FALSE]}
WithCi(s)    == (gpu \ {At(s)}) \cup {[At(s) EXCEPT !.ci = TRUE]}
Without(s)   == gpu \ {At(s)}

-----------------------------------------------------------------------------
(***************************************************************************)
(* The iteration over permutations                                         *)
(***************************************************************************)
Orders == UNION {{f \in [1..n -> 1..n] : IsInjective(f)} : n \in 0..MaxAsked}

Earlier(f, g) == \E k \in DOMAIN f : f[k] < g[k] /\ \A j \in 1..(k - 1) : f[j] = g[j]

\* Faulty variants: the generator yields one permutation; the generator
\* starts over.
NoOrdersAfter(f) == {}
AllOrders(f) == {g \in Orders : Len(g) = Len(f)}

\* The permutation that the generator yields first, and the ones it yields
\* after f.
FirstOrder(n) == [k \in 1..n |-> k]
OrdersAfter(f) == {g \in Orders : Len(g) = Len(f) /\ Earlier(f, g)}
IsNext(g, f) == /\ g \in OrdersAfter(f)
                /\ \A h \in OrdersAfter(f) : g = h \/ Earlier(g, h)

-----------------------------------------------------------------------------
(***************************************************************************)
(* State                                                                   *)
(***************************************************************************)
\* What the profiles of a list come to.
Quantity(profiles, p) == Cardinality({k \in DOMAIN profiles : profiles[k] = p})
Geometry(profiles)    == [p \in Range(profiles) |-> Quantity(profiles, p)]

Within(a, b) == \A p \in DOMAIN a : p \in DOMAIN b /\ a[p] <= b[p]

\* The lists of profiles that a plan for a known geometry creates: those of one
\* operation after those of another.
AsksOf(n) ==
    {asked \in [1..n -> Profiles] :
        /\ \E g \in GetKnownGeometries : Within(Geometry(asked), g)
        /\ \A j, k \in 1..n : asked[j] = asked[k] => \A l \in j..k : asked[l] = asked[j]}

Asks == UNION {AsksOf(n) : n \in 1..MaxAsked}

\* CreateMigDevices: asked, order, pos, gis, cis, dirty (anyErrorCleaningUp);
\* DeleteMigDevice: todo holds the instance; DeleteAllMigDevicesExcept:
\* keep, and todo holds the instances to visit; at is the one it is at, and ignored those of
\* which the driver refused to destroy something and the call went on.  leak: a call of the
\* driver failed in a way after which the client leaves instances behind; result: what it
\* returned.
NoCall == [kind |-> "none", asked |-> <<>>, order |-> <<>>, pos |-> 1, gis |-> <<>>,
           cis |-> <<>>, dirty |-> FALSE, keep |-> {}, todo |-> {}, at |-> 0, ignored |-> {},
           pc |-> "idle", fault |-> FALSE, leak |-> FALSE, result |-> "none"]

Init ==
    /\ gpu = {} /\ before = {}
    /\ call = NoCall
    /\ calls = 0 /\ faults = 0

Places == UNION {Placements[p] : p \in Profiles}

Calls ==
    [kind : {"none", "create", "delete", "cleanup"}, asked : Seq(Profiles), order : Orders,
     pos : Nat, gis : Seq(Places), cis : Seq(Places), dirty : BOOLEAN, keep : SUBSET Places,
     todo : SUBSET Places, at : Nat, ignored : SUBSET Places, fault : BOOLEAN, leak : BOOLEAN,
     pc : {"idle", "gi", "ci", "clean", "destroyCi", "destroyGi"},
     result : {"none", "ok", "failed"}]

\* The types of the variables.
TypeOK ==
    /\ gpu \subseteq Instances /\ before \subseteq Instances
    /\ call \in Calls
    /\ calls \in 0..MaxCalls /\ faults \in 0..MaxFaults

Goto(pc)       == call' = [call EXCEPT !.pc = pc]
Return(result) == call' = [call EXCEPT !.pc = "idle", !.result = result]

\* A call of the driver fails; afterwards the client may leave something behind.
FailsWith(c, leaks) ==
    /\ faults < MaxFaults
    /\ faults' = faults + 1
    /\ call' = [c EXCEPT !.fault = TRUE, !.leak = @ \/ leaks]

Called(c) ==
    /\ call.pc = "idle"
    /\ calls < MaxCalls /\ calls' = calls + 1
    /\ call' = c
    /\ before' = gpu
    /\ UNCHANGED <<gpu, faults>>

-----------------------------------------------------------------------------
(***************************************************************************)
(* CreateMigDevices                                                        *)
(***************************************************************************)
CreateMigDevices ==
    \E asked \in Asks :
        Called([NoCall EXCEPT !.kind = "create", !.asked = asked,
                              !.order = FirstOrder(Len(asked)), !.pc = "gi"])

\* The profile the loop is at.
Profile == call.asked[call.order[call.pos]]

\* A creation fails with the profile info of the instance: the function returns
\* and what it has created stays.
NoProfileInfo ==
    /\ call.pc \in {"gi", "ci"}
    /\ FailsWith([call EXCEPT !.pc = "idle", !.result = "failed"], TRUE)
    /\ UNCHANGED <<gpu, before, calls>>

CreateGpuInstance ==
    /\ call.pc = "gi"
    /\ \E s \in Room(Profile) :
        /\ gpu' = gpu \cup {[start |-> s, profile |-> Profile, ci |-> FALSE]}
        /\ call' = [call EXCEPT !.gis = Append(@, s), !.pc = "ci"]
    /\ UNCHANGED <<before, calls, faults>>

\* There is no room, or the driver fails.
NoGpuInstance ==
    /\ call.pc = "gi"
    /\ \/ Room(Profile) = {} /\ Goto("clean") /\ UNCHANGED faults
       \/ FailsWith([call EXCEPT !.pc = "clean"], FALSE)
    /\ UNCHANGED <<gpu, before, calls>>

CreateComputeInstance ==
    /\ call.pc = "ci"
    /\ gpu' = WithCi(Last(call.gis))
    /\ call' = [call EXCEPT !.cis = Append(@, Last(call.gis)), !.pos = @ + 1,
                            !.pc = IF call.pos = Len(call.asked) THEN "idle" ELSE "gi",
                            !.result = IF call.pos = Len(call.asked) THEN "ok" ELSE @]
    /\ UNCHANGED <<before, calls, faults>>

NoComputeInstance ==
    /\ call.pc = "ci"
    /\ FailsWith([call EXCEPT !.pc = "clean"], FALSE)
    /\ UNCHANGED <<gpu, before, calls>>

\* cleanup, first loop.
CleanupCi ==
    /\ call.pc = "clean" /\ call.cis # <<>>
    /\ \/ /\ gpu' = WithoutCi(Head(call.cis))
          /\ call' = [call EXCEPT !.cis = Tail(@)]
          /\ UNCHANGED faults
       \/ /\ FailsWith([call EXCEPT !.cis = Tail(@), !.dirty = TRUE], TRUE)
          /\ UNCHANGED gpu
    /\ UNCHANGED <<before, calls>>

\* cleanup, second loop: the driver refuses to destroy an instance that still
\* has a compute instance.
CleanupGi ==
    /\ call.pc = "clean" /\ call.cis = <<>> /\ call.gis # <<>>
    /\ \/ /\ ~At(Head(call.gis)).ci
          /\ gpu' = Without(Head(call.gis))
          /\ call' = [call EXCEPT !.gis = Tail(@)]
          /\ UNCHANGED faults
       \/ /\ At(Head(call.gis)).ci
          /\ call' = [call EXCEPT !.gis = Tail(@), !.dirty = TRUE]
          /\ UNCHANGED <<gpu, faults>>
       \/ /\ FailsWith([call EXCEPT !.gis = Tail(@), !.dirty = TRUE], TRUE)
          /\ UNCHANGED gpu
    /\ UNCHANGED <<before, calls>>

\* Faulty variant: an error of cleanup does not end the iteration.
PermuteDirty ==
    /\ call.pc = "clean" /\ call.cis = <<>> /\ call.gis = <<>>
    /\ \/ \E next \in OrdersAfter(call.order) :
            /\ IsNext(next, call.order)
            /\ call' = [call EXCEPT !.order = next, !.pos = 1, !.pc = "gi"]
       \/ /\ OrdersAfter(call.order) = {}
          /\ Return("failed")
    /\ UNCHANGED <<gpu, before, calls, faults>>

\* The end of the attempt: an error of cleanup ends the iteration, and so does
\* the last permutation.
Permute ==
    /\ call.pc = "clean" /\ call.cis = <<>> /\ call.gis = <<>>
    /\ \/ /\ ~call.dirty
          /\ \E next \in OrdersAfter(call.order) :
                /\ IsNext(next, call.order)
                /\ call' = [call EXCEPT !.order = next, !.pos = 1, !.pc = "gi"]
       \/ /\ call.dirty \/ OrdersAfter(call.order) = {}
          /\ Return("failed")
    /\ UNCHANGED <<gpu, before, calls, faults>>

-----------------------------------------------------------------------------
(***************************************************************************)
(* DeleteMigDevice and DeleteAllMigDevicesExcept                           *)
(***************************************************************************)
\* A device is found by its UUID, which it has as long as it has a compute
\* instance; the other identifiers return NotFound and change nothing.
DeleteMigDevice ==
    \E i \in {j \in gpu : j.ci} :
        Called([NoCall EXCEPT !.kind = "delete", !.todo = {i.start}, !.pc = "destroyCi"])

\* Faulty variant: the instances are found by the UUIDs of their devices.
DeleteAllMigDevicesListed ==
    \E keep \in SUBSET {i.start : i \in {j \in gpu : j.ci}} :
        Called([NoCall EXCEPT !.kind = "cleanup", !.keep = keep,
                    !.todo = {i.start : i \in {j \in gpu : j.ci}} \ keep, !.pc = "destroyCi"])

\* Faulty variant: no device is kept.
DeleteAllMigDevices ==
    \E keep \in SUBSET {i.start : i \in {j \in gpu : j.ci}} :
        Called([NoCall EXCEPT !.kind = "cleanup", !.keep = keep,
                    !.todo = {i.start : i \in gpu}, !.pc = "destroyCi"])

\* visitGpuInstances goes over the instances by profile.
DeleteAllMigDevicesExcept ==
    \E keep \in SUBSET {i.start : i \in {j \in gpu : j.ci}} :
        Called([NoCall EXCEPT !.kind = "cleanup", !.keep = keep,
                    !.todo = {i.start : i \in gpu} \ keep, !.pc = "destroyCi"])

AllVisited ==
    /\ call.pc = "destroyCi" /\ call.todo = {}
    /\ Return("ok")
    /\ UNCHANGED <<gpu, before, calls, faults>>

\* visitComputeInstances, which finds none in an instance that is half made.
DestroyCi ==
    /\ call.pc = "destroyCi"
    /\ \E s \in call.todo :
        /\ gpu' = WithoutCi(s)
        /\ call' = [call EXCEPT !.todo = @ \ {s}, !.at = s, !.pc = "destroyGi"]
    /\ UNCHANGED <<before, calls, faults>>

\* Destroy of the GPU instance.
DestroyGi ==
    /\ call.pc = "destroyGi" /\ ~At(call.at).ci
    /\ gpu' = Without(call.at)
    /\ Goto("destroyCi")
    /\ UNCHANGED <<before, calls, faults>>

\* Either call fails, for instance because a process uses the device or because
\* the compute instance is still there: the function returns.
DestroyFails ==
    /\ \/ /\ call.pc = "destroyGi" \/ (call.pc = "destroyCi" /\ call.todo # {})
          /\ FailsWith([call EXCEPT !.pc = "idle", !.result = "failed"], TRUE)
       \/ /\ call.pc = "destroyGi" /\ At(call.at).ci
          /\ Return("failed") /\ UNCHANGED faults
    /\ UNCHANGED <<gpu, before, calls>>

\* DeleteAllMigDevicesExcept takes ERROR_INVALID_ARGUMENT for success, of either Destroy.
DestroyIgnored ==
    /\ call.kind = "cleanup"
    /\ \/ /\ call.pc = "destroyCi"
          /\ \E s \in {t \in call.todo : At(t).ci} :
                FailsWith([call EXCEPT !.todo = @ \ {s}, !.at = s, !.ignored = @ \cup {s},
                                       !.pc = "destroyGi"], TRUE)
       \/ /\ call.pc = "destroyGi"
          /\ FailsWith([call EXCEPT !.ignored = @ \cup {call.at}, !.pc = "destroyCi"], TRUE)
    /\ UNCHANGED <<gpu, before, calls>>

-----------------------------------------------------------------------------
Step ==
    \/ NoProfileInfo \/ CreateGpuInstance \/ NoGpuInstance
    \/ CreateComputeInstance \/ NoComputeInstance
    \/ CleanupCi \/ CleanupGi \/ Permute
    \/ AllVisited \/ DestroyCi \/ DestroyGi \/ DestroyFails \/ DestroyIgnored

Next == CreateMigDevices \/ DeleteMigDevice \/ DeleteAllMigDevicesExcept \/ Step

\* A call that has begun runs to its end.
Spec == Init /\ [][Next]_vars /\ WF_vars(Step)

-----------------------------------------------------------------------------
(***************************************************************************)
(* Properties                                                              *)
(***************************************************************************)
Returned(kind, result) == call.pc = "idle" /\ call.kind = kind /\ call.result = result

\* If CreateMigDevices returns nil, the GPU has one complete device for every
\* profile of the list beside the instances it had, whatever failed on the
\* way; if it returns an error, the GPU is as it was, unless the driver failed
\* to answer or to destroy.
CreatesAllOrNothing ==
    /\ Returned("create", "ok") =>
        /\ before \subseteq gpu
        /\ \A i \in gpu \ before : i.ci
        /\ \A p \in Profiles :
            Cardinality({i \in gpu \ before : i.profile = p}) = Quantity(call.asked, p)
    /\ Returned("create", "failed") /\ ~call.leak => gpu = before

\* A geometry that the partitioner knows can be created on an empty GPU in
\* some order, wherever the driver puts the instances.
KnownGeometriesFit ==
    Returned("create", "failed") /\ before = {} /\ ~call.fault =>
        Geometry(call.asked) \notin GetKnownGeometries

\* No call touches an instance that is not its own: creation and its cleanup
\* leave what was there, deletion the other devices, and the cleanup at the
\* start of the agent the devices to keep.
SparesOthers ==
    \A i \in before :
        \/ i \in gpu
        \/ call.kind = "delete" /\ ~\E j \in before : j # i /\ j \notin gpu
        \/ call.kind = "cleanup" /\ i.start \notin call.keep

\* A DeleteMigDevice that returns nil has removed one GPU instance and not only its compute
\* instance, whatever failed: it takes no failure for success.  When the cleanup at the
\* start of the agent returns nil, the devices to keep are as they were and all else is gone,
\* also the instances that are no device because a previous call left them half made, with
\* one exception: what the driver answered with ERROR_INVALID_ARGUMENT stays (client.go:430
\* and :445), of which the comment of the function (:383) says nothing.
DeletesCompletely ==
    /\ Returned("delete", "ok") => Cardinality(gpu) = Cardinality(before) - 1
    /\ Returned("cleanup", "ok") =>
        /\ {i \in before : i.start \in call.keep} \subseteq gpu
        /\ \A i \in gpu : \/ i \in before /\ i.start \in call.keep
                         \/ i.start \in call.ignored

\* Every call returns: the permutations are tried once each, and every created
\* instance is cleaned up once.
EveryCallReturns == call.pc # "idle" ~> call.pc = "idle"
=============================================================================
