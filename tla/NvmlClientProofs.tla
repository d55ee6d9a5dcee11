--------------------------- MODULE NvmlClientProofs ---------------------------
(***************************************************************************)
(* For any GPU, any requests and any failures of the driver: creation is   *)
(* all or nothing, no call touches instances that are not its own, and a   *)
(* deletion that succeeds leaves nothing but what the driver refused.      *)
(***************************************************************************)
EXTENDS NvmlClient, SumTheorems

Starts(S)   == {i.start : i \in S}
Distinct(S) == \A i, j \in S : i.start = j.start => i = j

\* The places of the instances that have come up since the call began.
IsNew(s) == s \in Starts(gpu) \ Starts(before)

InstancesInv ==
    /\ IsFiniteSet(gpu) /\ Distinct(gpu)
    /\ IsFiniteSet(before) /\ Distinct(before)

IdleInv == call.kind = "none" => call.pc = "idle" /\ before = {}

\* A permutation is being tried: gis and cis list what the attempt has created so far,
\* in the order of the permutation.
AttemptInv ==
    call.pc \in {"gi", "ci"} =>
        /\ ~call.leak /\ ~call.dirty
        /\ call.pos \in 1..Len(call.asked)
        /\ Len(call.cis) = call.pos - 1
        /\ Len(call.gis) = IF call.pc = "gi" THEN call.pos - 1 ELSE call.pos
        /\ \A k \in 1..Len(call.cis) : call.cis[k] = call.gis[k]
        /\ \A k \in 1..Len(call.gis) : \A i \in gpu :
            i.start = call.gis[k] =>
                /\ i.profile = call.asked[call.order[k]]
                /\ k <= Len(call.cis) => i.ci

\* gis and cis name new instances only, and all of them as long as cleanup has not failed.
OwnInv ==
    /\ IsInjective(call.gis) /\ IsInjective(call.cis)
    /\ \A s \in Range(call.gis) \cup Range(call.cis) : IsNew(s)
    /\ ~call.leak => \A i \in gpu : IsNew(i.start) =>
            /\ i.start \in Range(call.gis)
            /\ i.ci => i.start \in Range(call.cis)

CreateInv ==
    call.kind = "create" =>
        /\ call.pc \in {"idle", "gi", "ci", "clean"}
        /\ Len(call.order) = Len(call.asked)
        /\ before \subseteq gpu
        /\ call.pc = "idle" => CreatesAllOrNothing
        /\ call.pc # "idle" => OwnInv
        /\ call.pc = "clean" /\ call.leak => call.dirty
        /\ AttemptInv

\* A call that destroys the instances whose places are not in K: those in K and those
\* that it has yet to visit are as they were.
DestroyInv(K) ==
    /\ call.pc \in {"idle", "destroyCi", "destroyGi"}
    /\ call.todo \subseteq Starts(before) /\ K \cap call.todo = {}
    /\ \A i \in before : i.start \in K \cup call.todo => i \in gpu
    /\ call.pc = "destroyGi" => call.at \in Starts(gpu) \ (K \cup call.todo)
    /\ call.pc = "idle" /\ call.result = "ok" => call.todo = {}
    /\ (call.pc = "idle" => call.result = "ok") =>
        \A i \in gpu : \/ call.pc = "destroyGi" /\ i.start = call.at
                       \/ i \in before /\ i.start \in K \cup call.todo
                       \/ i.start \in call.ignored

DeleteInv ==
    call.kind = "delete" =>
        call.ignored = {} /\ \E t \in before : DestroyInv(Starts(before) \ {t.start})

CleanupInv == call.kind = "cleanup" => DestroyInv(call.keep)

ClientInv ==
    /\ TypeOK /\ InstancesInv /\ IdleInv
    /\ CreateInv /\ DeleteInv /\ CleanupInv

-----------------------------------------------------------------------------
(***************************************************************************)
(* Sequences and instances                                                 *)
(***************************************************************************)
\* Append adds one element to a list without duplicates.
LEMMA AppendDistinct ==
    ASSUME NEW S, NEW s \in Seq(S), NEW x \in S, IsInjective(s), x \notin Range(s)
    PROVE  /\ IsInjective(Append(s, x))
           /\ Range(Append(s, x)) = Range(s) \cup {x}
<1>1. /\ Append(s, x) \in Seq(S) /\ DOMAIN Append(s, x) = 1..(Len(s) + 1)
      /\ DOMAIN s = 1..Len(s)
      /\ \A k \in 1..Len(s) : Append(s, x)[k] = s[k]
      /\ Append(s, x)[Len(s) + 1] = x
      /\ Len(s) \in Nat
    OBVIOUS
<1>2. \A k \in 1..Len(s) : s[k] # x
    BY <1>1 DEF Range
<1>3. \A k \in 1..(Len(s) + 1) : k \in 1..Len(s) \/ k = Len(s) + 1
    BY <1>1
<1> DEFINE t == Append(s, x)
<1>4. IsInjective(t)
    <2> SUFFICES ASSUME NEW j \in 1..(Len(s) + 1), NEW k \in 1..(Len(s) + 1), t[j] = t[k]
                 PROVE  j = k
        BY <1>1 DEF IsInjective
    <2> QED BY <1>1, <1>2, <1>3 DEF IsInjective
<1>5. Range(t) = Range(s) \cup {x}
    <2> HIDE DEF t
    <2>1. DOMAIN t = 1..(Len(s) + 1) /\ t[Len(s) + 1] = x /\ \A k \in 1..Len(s) : t[k] = s[k]
        BY <1>1 DEF t
    <2>2. Range(t) \subseteq Range(s) \cup {x}
        BY <1>1, <1>3, <2>1 DEF Range
    <2>3. \A k \in 1..Len(s) : k \in 1..(Len(s) + 1)
        BY <1>1
    <2>4. Len(s) + 1 \in 1..(Len(s) + 1)
        BY <1>1
    <2>5. Range(s) \cup {x} \subseteq Range(t)
        BY <1>1, <2>1, <2>3, <2>4 DEF Range
    <2> QED BY <2>2, <2>5
<1> QED BY <1>4, <1>5

\* Tail removes the first element from a list without duplicates.
LEMMA TailDistinct ==
    ASSUME NEW S, NEW s \in Seq(S), s # <<>>, IsInjective(s)
    PROVE  /\ Tail(s) \in Seq(S) /\ IsInjective(Tail(s))
           /\ Head(s) \in Range(s)
           /\ Range(Tail(s)) = Range(s) \ {Head(s)}
<1>1. /\ Tail(s) \in Seq(S) /\ DOMAIN Tail(s) = 1..(Len(s) - 1)
      /\ DOMAIN s = 1..Len(s) /\ Len(s) \in Nat \ {0}
      /\ \A k \in 1..(Len(s) - 1) : Tail(s)[k] = s[k + 1]
      /\ Head(s) = s[1]
    OBVIOUS
<1>2. \A j, k \in 1..Len(s) : s[j] = s[k] => j = k
    BY <1>1 DEF IsInjective
<1>3. \A k \in 1..(Len(s) - 1) : k + 1 \in 1..Len(s) /\ k + 1 # 1
    BY <1>1
<1>4. \A k \in 1..Len(s) : k # 1 => k - 1 \in 1..(Len(s) - 1) /\ (k - 1) + 1 = k
    BY <1>1
<1>5. 1 \in 1..Len(s)
    BY <1>1
<1>6. Head(s) \in Range(s)
    BY <1>1, <1>5 DEF Range
<1> DEFINE t == Tail(s)
<1>7. IsInjective(t)
    <2> SUFFICES ASSUME NEW j \in 1..(Len(s) - 1), NEW k \in 1..(Len(s) - 1), t[j] = t[k]
                 PROVE  j = k
        BY <1>1 DEF IsInjective
    <2>1. s[j + 1] = s[k + 1]
        BY <1>1
    <2>2. j + 1 = k + 1
        BY <1>2, <1>3, <2>1
    <2> QED BY <2>2
<1>8. Range(t) = Range(s) \ {Head(s)}
    <2>0. DOMAIN t = 1..(Len(s) - 1) /\ \A k \in 1..(Len(s) - 1) : t[k] = s[k + 1]
        BY <1>1
    <2> HIDE DEF t
    <2>1. ASSUME NEW x \in Range(t)
          PROVE  x \in Range(s) \ {Head(s)}
        <3>1. PICK k \in 1..(Len(s) - 1) : x = s[k + 1]
            BY <2>0 DEF Range
        <3>2. k + 1 \in 1..Len(s) /\ k + 1 # 1
            BY <1>3
        <3>3. s[k + 1] # s[1]
            BY <1>2, <1>5, <3>2
        <3> QED BY <1>1, <3>1, <3>2, <3>3 DEF Range
    <2>2. ASSUME NEW x \in Range(s) \ {Head(s)}
          PROVE  x \in Range(t)
        <3>1. PICK k \in 1..Len(s) : x = s[k]
            BY <1>1 DEF Range
        <3>2. k # 1
            BY <1>1, <3>1
        <3>3. t[k - 1] = x /\ k - 1 \in DOMAIN t
            BY <1>4, <2>0, <3>1, <3>2
        <3> QED BY <3>3 DEF Range
    <2> QED BY <2>1, <2>2
<1> QED BY <1>1, <1>6, <1>7, <1>8

\* The fields of an instance.
LEMMA InstanceFields ==
    ASSUME NEW i \in Instances
    PROVE  /\ i.profile \in Profiles /\ i.start \in Placements[i.profile] /\ i.ci \in BOOLEAN
           /\ i.start \in Places /\ i.start \in Nat
           /\ i = [start |-> i.start, profile |-> i.profile, ci |-> i.ci]
           /\ \A b \in BOOLEAN : /\ [i EXCEPT !.ci = b] \in Instances
                                 /\ [i EXCEPT !.ci = b].start = i.start
                                 /\ [i EXCEPT !.ci = b].profile = i.profile
                                 /\ [i EXCEPT !.ci = b].ci = b
<1>1. PICK p \in Profiles : i \in [start : Placements[p], profile : {p}, ci : BOOLEAN]
    BY DEF Instances
<1>2. i.profile = p /\ i.start \in Placements[p] /\ i.ci \in BOOLEAN
    BY <1>1
<1>3. i.start \in Places /\ i.start \in Nat
    BY <1>2, PlacementsAssumption DEF Places
<1>4. ASSUME NEW b \in BOOLEAN
      PROVE  /\ [i EXCEPT !.ci = b] \in [start : Placements[p], profile : {p}, ci : BOOLEAN]
             /\ [i EXCEPT !.ci = b].start = i.start
             /\ [i EXCEPT !.ci = b].profile = i.profile
             /\ [i EXCEPT !.ci = b].ci = b
    BY <1>1
<1>5. i = [start |-> i.start, profile |-> i.profile, ci |-> i.ci]
    BY <1>1
<1> QED BY <1>2, <1>3, <1>4, <1>5 DEF Instances

\* At finds the instance at a place.
LEMMA AtFinds ==
    ASSUME NEW s \in Starts(gpu)
    PROVE  At(s) \in gpu /\ At(s).start = s
<1>1. \E i \in gpu : i.start = s
    BY DEF Starts
<1> QED BY <1>1 DEF At

\* What becomes of the GPU when the compute instance at s is created or destroyed.
Recast(X, s, b) ==
    /\ X \subseteq Instances /\ IsFiniteSet(X) /\ Distinct(X)
    /\ Starts(X) = Starts(gpu)
    /\ \A i \in gpu : i.start # s => i \in X
    /\ \A i \in X : i.start # s => i \in gpu
    /\ \A i \in X : i.start = s => /\ i.ci = b
                                   /\ \E j \in gpu : j.start = s /\ j.profile = i.profile

LEMMA ComputeInstanceSet ==
    ASSUME gpu \subseteq Instances, IsFiniteSet(gpu), Distinct(gpu),
           NEW s \in Starts(gpu), NEW b \in BOOLEAN
    PROVE  Recast((gpu \ {At(s)}) \cup {[At(s) EXCEPT !.ci = b]}, s, b)
<1> DEFINE a == At(s)
           c == [a EXCEPT !.ci = b]
           X == (gpu \ {a}) \cup {c}
<1>1. a \in gpu /\ a.start = s
    BY AtFinds
<1>2. a \in Instances
    BY <1>1
<1>3. c \in Instances /\ c.start = s /\ c.profile = a.profile /\ c.ci = b
    BY <1>1, <1>2, InstanceFields
<1> HIDE DEF a, c
<1>4. \A i \in gpu : i.start = s => i = a
    BY <1>1 DEF Distinct
<1>5. X \subseteq Instances
    BY <1>3
<1>6. IsFiniteSet(X)
    <2>1. IsFiniteSet(gpu \ {a})
        BY FS_RemoveElement
    <2> QED BY <2>1, FS_AddElement
<1>7. Distinct(X)
    BY <1>3, <1>4 DEF Distinct
<1>8. Starts(X) = Starts(gpu)
    BY <1>1, <1>3 DEF Starts
<1>9. \A i \in gpu : i.start # s => i \in X
    BY <1>1
<1>10. \A i \in X : i.start # s => i \in gpu
    BY <1>3
<1>11. \A i \in X : i.start = s => i = c
    BY <1>4
<1>12. Recast(X, s, b)
    BY <1>1, <1>3, <1>5, <1>6, <1>7, <1>8, <1>9, <1>10, <1>11 DEF Recast
<1> QED BY <1>12 DEF a, c

\* The GPU without the instance at s.
LEMMA InstanceDestroyed ==
    ASSUME gpu \subseteq Instances, IsFiniteSet(gpu), Distinct(gpu), NEW s \in Starts(gpu)
    PROVE  /\ Without(s) = {i \in gpu : i.start # s}
           /\ IsFiniteSet(Without(s)) /\ Distinct(Without(s))
           /\ Starts(Without(s)) = Starts(gpu) \ {s}
<1>1. At(s) \in gpu /\ At(s).start = s
    BY AtFinds
<1>2. Without(s) = {i \in gpu : i.start # s}
    BY <1>1 DEF Without, Distinct
<1>3. IsFiniteSet(Without(s))
    BY FS_RemoveElement DEF Without
<1> QED BY <1>2, <1>3 DEF Distinct, Starts

\* Where there is room there is no instance, and the GPU may have one there.
LEMMA RoomIsFree ==
    ASSUME gpu \subseteq Instances, IsFiniteSet(gpu), Distinct(gpu),
           NEW p \in Profiles, NEW s \in Room(p)
    PROVE  LET X == gpu \cup {[start |-> s, profile |-> p, ci |-> FALSE]}
           IN  /\ s \in Places /\ s \notin Starts(gpu)
               /\ X \subseteq Instances /\ IsFiniteSet(X) /\ Distinct(X)
               /\ Starts(X) = Starts(gpu) \cup {s}
<1>1. s \in Placements[p] /\ s \in Places /\ s \in Nat /\ Size[p] \in Nat \ {0}
    BY PlacementsAssumption DEF Room, Places
<1>2. s \in Slices(s, p)
    BY <1>1 DEF Slices
<1>3. ASSUME NEW i \in gpu
      PROVE  i.start # s
    <2>1. i.start \in Nat /\ Size[i.profile] \in Nat \ {0}
        BY PlacementsAssumption, InstanceFields
    <2>2. i.start \in Slices(i.start, i.profile)
        BY <2>1 DEF Slices
    <2>3. Slices(i.start, i.profile) \cap Slices(s, p) = {}
        BY DEF Room
    <2> QED BY <1>2, <2>2, <2>3
<1> DEFINE n == [start |-> s, profile |-> p, ci |-> FALSE]
           X == gpu \cup {n}
<1>4. n \in Instances /\ n.start = s
    BY <1>1 DEF Instances
<1> HIDE DEF n
<1>5. X \subseteq Instances /\ IsFiniteSet(X)
    BY <1>4, FS_AddElement
<1>6. Distinct(X) /\ Starts(X) = Starts(gpu) \cup {s}
    BY <1>3, <1>4 DEF Distinct, Starts
<1>7. s \notin Starts(gpu)
    BY <1>3 DEF Starts
<1> QED BY <1>1, <1>5, <1>6, <1>7 DEF n

-----------------------------------------------------------------------------
(***************************************************************************)
(* The invariant holds initially, and a call that begins keeps it          *)
(***************************************************************************)
\* Which call runs can be told from where it is.
LEMMA KindOfPc ==
    ASSUME ClientInv
    PROVE  /\ call.pc \in {"gi", "ci", "clean"} => call.kind = "create"
           /\ call.pc \in {"destroyCi", "destroyGi"} => call.kind \in {"delete", "cleanup"}
<1>1. call.kind \in {"none", "create", "delete", "cleanup"}
    BY DEF ClientInv, TypeOK, Calls
<1>2. call.kind = "none" => call.pc = "idle"
    BY DEF ClientInv, IdleInv
<1>3. call.kind = "create" => call.pc \in {"idle", "gi", "ci", "clean"}
    BY DEF ClientInv, CreateInv
<1>4. call.kind \in {"delete", "cleanup"} => call.pc \in {"idle", "destroyCi", "destroyGi"}
    BY DEF ClientInv, DeleteInv, CleanupInv, DestroyInv
<1> QED BY <1>1, <1>2, <1>3, <1>4

LEMMA NoCallType == NoCall \in Calls
<1>1. <<>> \in Orders
    <2>1. <<>> \in [1..0 -> 1..0] /\ IsInjective(<<>>)
        BY DEF IsInjective
    <2>2. 0 \in 0..MaxAsked
        BY BoundsAssumption
    <2> QED BY <2>1, <2>2 DEF Orders
<1> QED BY <1>1 DEF NoCall, Calls

LEMMA ClientInit == ASSUME Init PROVE ClientInv
<1>1. TypeOK
    BY NoCallType, BoundsAssumption DEF Init, TypeOK
<1>2. InstancesInv
    BY FS_EmptySet DEF Init, InstancesInv, Distinct
<1>3. call.kind = "none" /\ call.pc = "idle" /\ before = {}
    BY DEF Init, NoCall
<1> QED BY <1>1, <1>2, <1>3 DEF ClientInv, IdleInv, CreateInv, DeleteInv, CleanupInv

\* The first permutation.
LEMMA FirstOrderType ==
    ASSUME NEW n \in 0..MaxAsked
    PROVE  FirstOrder(n) \in Orders /\ Len(FirstOrder(n)) = n
<1>1. n \in Nat
    BY BoundsAssumption
<1>2. FirstOrder(n) \in [1..n -> 1..n] /\ DOMAIN FirstOrder(n) = 1..n
    BY DEF FirstOrder
<1>3. IsInjective(FirstOrder(n))
    BY DEF FirstOrder, IsInjective
<1>4. FirstOrder(n) \in Orders
    BY <1>2, <1>3 DEF Orders
<1>5. Len(FirstOrder(n)) = n
    BY <1>1, <1>2
<1> QED BY <1>4, <1>5

\* A call begins with the instances that there are.
LEMMA CalledKeeps ==
    ASSUME ClientInv, NEW c \in Calls, Called(c)
    PROVE  TypeOK' /\ InstancesInv' /\ call' = c /\ before' = gpu /\ gpu' = gpu
<1>1. calls' \in 0..MaxCalls
    BY BoundsAssumption DEF ClientInv, TypeOK, Called
<1> QED BY <1>1 DEF ClientInv, TypeOK, InstancesInv, Called, Distinct

LEMMA CreateBegins == ASSUME ClientInv, CreateMigDevices PROVE ClientInv'
<1>1. PICK asked \in Asks :
        Called([NoCall EXCEPT !.kind = "create", !.asked = asked,
                              !.order = FirstOrder(Len(asked)), !.pc = "gi"])
    BY DEF CreateMigDevices
<1> DEFINE c == [NoCall EXCEPT !.kind = "create", !.asked = asked,
                               !.order = FirstOrder(Len(asked)), !.pc = "gi"]
<1>2. PICK n \in 1..MaxAsked : asked \in [1..n -> Profiles]
    BY DEF Asks, AsksOf
<1>3. n \in Nat /\ n \in 0..MaxAsked
    BY BoundsAssumption
<1>4. asked \in Seq(Profiles) /\ Len(asked) = n
    BY <1>2, <1>3
<1>5. FirstOrder(n) \in Orders /\ Len(FirstOrder(n)) = n
    BY <1>3, FirstOrderType
<1>6. c \in Calls
    BY <1>4, <1>5, NoCallType DEF Calls
<1>7. /\ c.kind = "create" /\ c.asked = asked /\ c.order = FirstOrder(n) /\ c.pc = "gi"
      /\ c.pos = 1 /\ c.gis = <<>> /\ c.cis = <<>> /\ ~c.dirty /\ ~c.leak
    BY <1>4 DEF NoCall
<1>8. Called(c)
    BY <1>1
<1> HIDE DEF c
<1>9. TypeOK' /\ InstancesInv' /\ call' = c /\ before' = gpu /\ gpu' = gpu
    BY <1>6, <1>8, CalledKeeps
<1>10. OwnInv'
    <2>1. IsInjective(<<>>) /\ Range(<<>>) = {}
        BY DEF IsInjective, Range
    <2> QED BY <1>7, <1>9, <2>1 DEF OwnInv, IsNew
<1>11. AttemptInv'
    BY <1>3, <1>4, <1>7, <1>9 DEF AttemptInv
<1>12. CreateInv'
    BY <1>4, <1>5, <1>7, <1>9, <1>10, <1>11 DEF CreateInv
<1> QED BY <1>7, <1>9, <1>12 DEF ClientInv, IdleInv, DeleteInv, CleanupInv

\* A call that is to destroy the instances at the places of T.
LEMMA DestroyBegins ==
    ASSUME ClientInv, NEW c \in Calls, Called(c), NEW K,
           c.pc = "destroyCi", c.todo \subseteq Starts(gpu), K \cap c.todo = {},
           Starts(gpu) \subseteq K \cup c.todo
    PROVE  DestroyInv(K)'
<1>1. call' = c /\ before' = gpu /\ gpu' = gpu
    BY CalledKeeps
<1>2. \A i \in gpu : i.start \in K \cup c.todo
    BY DEF Starts
<1> QED BY <1>1, <1>2 DEF DestroyInv, Starts

LEMMA DeleteBegins == ASSUME ClientInv, DeleteMigDevice PROVE ClientInv'
<1>1. PICK i \in gpu :
        Called([NoCall EXCEPT !.kind = "delete", !.todo = {i.start}, !.pc = "destroyCi"])
    BY DEF DeleteMigDevice
<1> DEFINE c == [NoCall EXCEPT !.kind = "delete", !.todo = {i.start}, !.pc = "destroyCi"]
<1>2. i.start \in Places
    BY InstanceFields DEF ClientInv, TypeOK
<1>3. c \in Calls
    BY <1>2, NoCallType DEF Calls
<1>4. c.kind = "delete" /\ c.todo = {i.start} /\ c.ignored = {} /\ c.pc = "destroyCi"
    BY DEF NoCall
<1>5. Called(c)
    BY <1>1
<1> HIDE DEF c
<1>6. TypeOK' /\ InstancesInv' /\ call' = c /\ before' = gpu /\ gpu' = gpu
    BY <1>3, <1>5, CalledKeeps
<1>7. PICK K : K = Starts(gpu) \ {i.start}
    OBVIOUS
<1>8. c.todo \subseteq Starts(gpu) /\ K \cap c.todo = {} /\ Starts(gpu) \subseteq K \cup c.todo
    BY <1>4, <1>7 DEF Starts
<1>9. DestroyInv(K)'
    BY <1>3, <1>4, <1>5, <1>8, DestroyBegins
<1>10. DeleteInv'
    BY <1>4, <1>6, <1>7, <1>9 DEF DeleteInv, DestroyInv, Starts
<1> QED BY <1>4, <1>6, <1>10 DEF ClientInv, IdleInv, CreateInv, CleanupInv

LEMMA CleanupBegins == ASSUME ClientInv, DeleteAllMigDevicesExcept PROVE ClientInv'
<1>1. PICK keep \in SUBSET {i.start : i \in {j \in gpu : j.ci}} :
        Called([NoCall EXCEPT !.kind = "cleanup", !.keep = keep,
                    !.todo = {i.start : i \in gpu} \ keep, !.pc = "destroyCi"])
    BY DEF DeleteAllMigDevicesExcept
<1> DEFINE c == [NoCall EXCEPT !.kind = "cleanup", !.keep = keep,
                    !.todo = Starts(gpu) \ keep, !.pc = "destroyCi"]
<1>2. Starts(gpu) \subseteq Places /\ keep \subseteq Starts(gpu)
    BY InstanceFields DEF ClientInv, TypeOK, Starts
<1>3. c \in Calls
    BY <1>2, NoCallType DEF Calls
<1>4. c.kind = "cleanup" /\ c.todo = Starts(gpu) \ keep /\ c.keep = keep /\ c.pc = "destroyCi"
    BY DEF NoCall
<1>5. Called(c)
    BY <1>1 DEF Starts
<1> HIDE DEF c
<1>6. TypeOK' /\ InstancesInv' /\ call' = c /\ before' = gpu /\ gpu' = gpu
    BY <1>3, <1>5, CalledKeeps
<1>7. c.todo \subseteq Starts(gpu) /\ keep \cap c.todo = {} /\ Starts(gpu) \subseteq keep \cup c.todo
    BY <1>4
<1>8. DestroyInv(keep)'
    BY <1>3, <1>4, <1>5, <1>7, DestroyBegins
<1>9. CleanupInv'
    BY <1>4, <1>6, <1>8 DEF CleanupInv, DestroyInv
<1> QED BY <1>4, <1>6, <1>9 DEF ClientInv, IdleInv, CreateInv, DeleteInv

-----------------------------------------------------------------------------
(***************************************************************************)
(* The steps of CreateMigDevices                                           *)
(***************************************************************************)
\* A permutation of the list puts each of its elements in one place.
LEMMA OrderPermutes ==
    ASSUME NEW f \in Orders
    PROVE  /\ Len(f) \in Nat /\ f \in [1..Len(f) -> 1..Len(f)]
           /\ \A j, k \in 1..Len(f) : f[j] = f[k] => j = k
<1>1. PICK n \in 0..MaxAsked : f \in [1..n -> 1..n] /\ IsInjective(f)
    BY DEF Orders
<1>2. n \in Nat
    BY BoundsAssumption
<1>3. Len(f) = n
    BY <1>1, <1>2
<1> QED BY <1>1, <1>2, <1>3 DEF IsInjective

\* What is known when a creation is under way.
LEMMA CreateRuns ==
    ASSUME ClientInv, call.pc \in {"gi", "ci", "clean"}
    PROVE  /\ call.kind = "create" /\ call \in Calls
           /\ OwnInv /\ AttemptInv /\ before \subseteq gpu
           /\ Len(call.order) = Len(call.asked)
           /\ call.pc = "clean" /\ call.leak => call.dirty
           /\ gpu \subseteq Instances /\ IsFiniteSet(gpu) /\ Distinct(gpu)
           /\ Starts(before) \subseteq Starts(gpu)
<1>1. call.kind = "create"
    BY KindOfPc
<1>2. call.pc # "idle"
    OBVIOUS
<1> QED BY <1>1, <1>2 DEF ClientInv, CreateInv, TypeOK, InstancesInv, Starts

LEMMA ProfileType ==
    ASSUME ClientInv, call.pc = "gi"
    PROVE  Profile \in Profiles
<1>1. /\ call.order \in Orders /\ call.asked \in Seq(Profiles)
      /\ Len(call.order) = Len(call.asked) /\ call.pos \in 1..Len(call.asked)
    BY CreateRuns DEF Calls, AttemptInv
<1>2. call.order[call.pos] \in 1..Len(call.asked)
    BY <1>1, OrderPermutes
<1> QED BY <1>1, <1>2 DEF Profile

\* A step of a creation keeps the whole invariant if it keeps the parts about creation.
LEMMA CreateSuffices ==
    ASSUME ClientInv, UNCHANGED <<before, calls>>,
           call' \in Calls, call'.kind = "create", faults' \in 0..MaxFaults,
           gpu' \subseteq Instances, IsFiniteSet(gpu'), Distinct(gpu'), CreateInv'
    PROVE  ClientInv'
<1>1. TypeOK'
    BY DEF ClientInv, TypeOK
<1>2. InstancesInv'
    BY DEF ClientInv, InstancesInv, Distinct
<1> QED BY <1>1, <1>2 DEF ClientInv, IdleInv, DeleteInv, CleanupInv

LEMMA NoProfileInfoKeeps == ASSUME ClientInv, NoProfileInfo PROVE ClientInv'
<1>1. /\ call.kind = "create" /\ call \in Calls
      /\ Len(call.order) = Len(call.asked) /\ before \subseteq gpu
      /\ gpu \subseteq Instances /\ IsFiniteSet(gpu) /\ Distinct(gpu)
    BY CreateRuns DEF NoProfileInfo
<1>2. /\ call' \in Calls /\ call'.kind = "create" /\ call'.pc = "idle"
      /\ call'.result = "failed" /\ call'.leak
      /\ call'.order = call.order /\ call'.asked = call.asked
    BY <1>1 DEF NoProfileInfo, FailsWith, Calls
<1>3. faults' \in 0..MaxFaults /\ UNCHANGED <<gpu, before, calls>>
    BY BoundsAssumption DEF NoProfileInfo, FailsWith, ClientInv, TypeOK
<1>4. CreateInv'
    BY <1>1, <1>2, <1>3 DEF CreateInv, CreatesAllOrNothing, Returned, AttemptInv
<1> QED BY <1>1, <1>2, <1>3, <1>4, CreateSuffices DEF Distinct

LEMMA CreateGpuInstanceKeeps == ASSUME ClientInv, CreateGpuInstance PROVE ClientInv'
<1>1. call.pc = "gi"
    BY DEF CreateGpuInstance
<1>2. /\ call.kind = "create" /\ call \in Calls
      /\ OwnInv /\ AttemptInv /\ before \subseteq gpu
      /\ Len(call.order) = Len(call.asked)
      /\ gpu \subseteq Instances /\ IsFiniteSet(gpu) /\ Distinct(gpu)
      /\ Starts(before) \subseteq Starts(gpu)
    BY <1>1, CreateRuns
<1>3. Profile \in Profiles
    BY <1>1, ProfileType
<1>4. PICK s \in Room(Profile) :
        /\ gpu' = gpu \cup {[start |-> s, profile |-> Profile, ci |-> FALSE]}
        /\ call' = [call EXCEPT !.gis = Append(@, s), !.pc = "ci"]
    BY DEF CreateGpuInstance
<1>5. PICK n : n = [start |-> s, profile |-> Profile, ci |-> FALSE]
    OBVIOUS
<1>6. n.start = s /\ n.profile = Profile /\ n.ci = FALSE
    BY <1>5
<1>7. /\ s \in Places /\ s \notin Starts(gpu) /\ gpu' = gpu \cup {n}
      /\ gpu' \subseteq Instances /\ IsFiniteSet(gpu') /\ Distinct(gpu')
      /\ Starts(gpu') = Starts(gpu) \cup {s}
    BY <1>2, <1>3, <1>4, <1>5, RoomIsFree
<1>8. UNCHANGED <<before, calls, faults>>
    BY DEF CreateGpuInstance
<1>9. call.gis \in Seq(Places) /\ call.cis \in Seq(Places)
    BY <1>2 DEF Calls
<1>10. /\ call' \in Calls /\ call'.kind = "create" /\ call'.pc = "ci"
       /\ call'.gis = Append(call.gis, s) /\ call'.cis = call.cis /\ call'.pos = call.pos
       /\ call'.order = call.order /\ call'.asked = call.asked
       /\ call'.leak = call.leak /\ call'.dirty = call.dirty
    <2>1. PICK g \in Seq(Places) : g = Append(call.gis, s)
        <3>1. s \in Places
            BY <1>7
        <3>2. Append(call.gis, s) \in Seq(Places)
            BY <1>9, <3>1
        <3> QED BY <3>2
    <2>2. call' = [call EXCEPT !.gis = g, !.pc = "ci"]
        BY <1>4, <2>1
    <2>3. /\ call' \in Calls /\ call'.kind = "create" /\ call'.pc = "ci"
          /\ call'.gis = g /\ call'.cis = call.cis /\ call'.pos = call.pos
          /\ call'.order = call.order /\ call'.asked = call.asked
          /\ call'.leak = call.leak /\ call'.dirty = call.dirty
        BY <1>2, <2>2 DEF Calls
    <2> QED BY <2>1, <2>3
<1>11. s \notin Range(call.gis)
    BY <1>2, <1>7 DEF OwnInv, IsNew
<1>12. IsInjective(Append(call.gis, s)) /\ Range(Append(call.gis, s)) = Range(call.gis) \cup {s}
    BY <1>2, <1>7, <1>9, <1>11, AppendDistinct DEF OwnInv
<1>13. ~call.leak /\ ~call.dirty
    BY <1>1, <1>2 DEF AttemptInv
<1>14. OwnInv'
    <2>1. IsInjective(call'.gis) /\ IsInjective(call'.cis)
        BY <1>2, <1>10, <1>12 DEF OwnInv
    <2>2. ASSUME NEW r \in Range(call'.gis) \cup Range(call'.cis)
          PROVE  r \in Starts(gpu') \ Starts(before')
        BY <1>2, <1>7, <1>8, <1>10, <1>12 DEF OwnInv, IsNew
    <2>3. ASSUME NEW i \in gpu', i.start \notin Starts(before)
          PROVE  i.start \in Range(call'.gis) /\ (i.ci => i.start \in Range(call'.cis))
        <3>1. CASE i = n
            BY <1>6, <1>10, <1>12, <3>1
        <3>2. CASE i \in gpu
            <4>1. i.start \in Starts(gpu) \ Starts(before)
                BY <2>3, <3>2 DEF Starts
            <4> QED BY <1>2, <1>10, <1>12, <1>13, <3>2, <4>1 DEF OwnInv, IsNew
        <3> QED BY <1>7, <3>1, <3>2
    <2> QED BY <1>8, <2>1, <2>2, <2>3 DEF OwnInv, IsNew
<1>15. AttemptInv'
    <2>1. /\ call.pos \in 1..Len(call.asked)
          /\ Len(call.cis) = call.pos - 1 /\ Len(call.gis) = call.pos - 1
          /\ \A k \in 1..Len(call.cis) : call.cis[k] = call.gis[k]
          /\ \A k \in 1..Len(call.gis) : \A i \in gpu :
                i.start = call.gis[k] =>
                    i.profile = call.asked[call.order[k]] /\ (k <= Len(call.cis) => i.ci)
        BY <1>1, <1>2 DEF AttemptInv
    <2>2. call.pos \in Nat /\ Len(call.asked) \in Nat
        BY <1>2 DEF Calls
    <2>3. /\ Len(call'.gis) = call.pos
          /\ call'.gis[call.pos] = s
          /\ \A k \in 1..(call.pos - 1) : call'.gis[k] = call.gis[k]
        BY <1>10, <1>9, <2>1, <2>2
    <2>4. \A k \in 1..(call.pos - 1) : call.gis[k] \in Range(call.gis)
        BY <1>9, <2>1 DEF Range
    <2>5. ASSUME NEW k \in 1..call.pos, NEW i \in gpu', i.start = call'.gis[k]
          PROVE  i.profile = call.asked[call.order[k]] /\ (k <= Len(call.cis) => i.ci)
        <3>1. CASE k = call.pos
            <4>1. i = n
                <5>1. i \notin gpu
                    BY <1>7, <2>3, <2>5, <3>1 DEF Starts
                <5> QED BY <1>7, <5>1
            <4>2. ~(k <= Len(call.cis))
                BY <2>1, <2>2, <3>1
            <4> QED BY <1>6, <3>1, <4>1, <4>2 DEF Profile
        <3>2. CASE k # call.pos
            <4>1. k \in 1..(call.pos - 1)
                BY <2>2, <3>2
            <4>2. i.start = call.gis[k] /\ i.start \in Range(call.gis)
                BY <2>3, <2>4, <2>5, <4>1
            <4>3. i \in gpu
                BY <1>6, <1>7, <1>11, <4>2
            <4> QED BY <2>1, <4>1, <4>2, <4>3
        <3> QED BY <3>1, <3>2
    <2> QED BY <1>10, <1>13, <2>1, <2>2, <2>3, <2>5 DEF AttemptInv
<1>16. CreateInv'
    BY <1>2, <1>7, <1>8, <1>10, <1>14, <1>15 DEF CreateInv
<1>17. faults' \in 0..MaxFaults
    BY <1>8 DEF ClientInv, TypeOK
<1> QED BY <1>7, <1>8, <1>10, <1>16, <1>17, CreateSuffices

\* An attempt has failed: what it has created is to be cleaned up.
LEMMA AttemptFails ==
    ASSUME ClientInv, call.pc \in {"gi", "ci"}, UNCHANGED <<gpu, before, calls>>,
           faults' \in 0..MaxFaults, call' \in Calls, call'.pc = "clean", call'.leak = call.leak,
           call'.kind = call.kind, call'.asked = call.asked, call'.order = call.order,
           call'.gis = call.gis, call'.cis = call.cis
    PROVE  ClientInv'
<1>1. /\ call.kind = "create" /\ OwnInv /\ AttemptInv /\ before \subseteq gpu
      /\ Len(call.order) = Len(call.asked)
      /\ gpu \subseteq Instances /\ IsFiniteSet(gpu) /\ Distinct(gpu)
    BY CreateRuns
<1>2. OwnInv'
    BY <1>1 DEF OwnInv, IsNew, Starts
<1>3. CreateInv'
    BY <1>1, <1>2 DEF CreateInv, AttemptInv
<1> QED BY <1>1, <1>3, CreateSuffices DEF Distinct

LEMMA NoGpuInstanceKeeps == ASSUME ClientInv, NoGpuInstance PROVE ClientInv'
<1>1. call.pc = "gi" /\ UNCHANGED <<gpu, before, calls>>
    BY DEF NoGpuInstance
<1>2. call \in Calls /\ faults \in 0..MaxFaults
    BY DEF ClientInv, TypeOK
<1>3. faults' \in 0..MaxFaults
    BY <1>2, BoundsAssumption DEF NoGpuInstance, FailsWith
<1>4. /\ call' \in Calls /\ call'.pc = "clean" /\ call'.leak = call.leak
      /\ call'.kind = call.kind /\ call'.asked = call.asked /\ call'.order = call.order
      /\ call'.gis = call.gis /\ call'.cis = call.cis
    BY ZenonT(60), <1>2 DEF NoGpuInstance, FailsWith, Goto, Calls
<1> QED BY <1>1, <1>3, <1>4, AttemptFails

LEMMA NoComputeInstanceKeeps == ASSUME ClientInv, NoComputeInstance PROVE ClientInv'
<1>1. call.pc = "ci" /\ UNCHANGED <<gpu, before, calls>>
    BY DEF NoComputeInstance
<1>2. call \in Calls /\ faults \in 0..MaxFaults
    BY DEF ClientInv, TypeOK
<1>3. faults' \in 0..MaxFaults
    BY <1>2, BoundsAssumption DEF NoComputeInstance, FailsWith
<1>4. /\ call' \in Calls /\ call'.pc = "clean" /\ call'.leak = call.leak
      /\ call'.kind = call.kind /\ call'.asked = call.asked /\ call'.order = call.order
      /\ call'.gis = call.gis /\ call'.cis = call.cis
    BY <1>2 DEF NoComputeInstance, FailsWith, Calls
<1> QED BY <1>1, <1>3, <1>4, AttemptFails

OfProfile(N, p) == {i \in N : i.profile = p}

\* Each of the instances N is the one of a position in the permuted list.
Realizes(N, gis, f, asked) ==
    /\ IsFiniteSet(N) /\ Distinct(N)
    /\ \A i \in N : i.start \in Range(gis)
    /\ \A k \in 1..Len(gis) : \E i \in N : i.start = gis[k]
    /\ \A k \in 1..Len(gis) : \A i \in N : i.start = gis[k] => i.profile = asked[f[k]]

\* Then there are as many of each profile as the list asks for.
LEMMA AllCreated ==
    ASSUME NEW f \in Orders, NEW asked \in Seq(Profiles), Len(f) = Len(asked),
           NEW gis \in Seq(Places), Len(gis) = Len(asked), IsInjective(gis),
           NEW N, Realizes(N, gis, f, asked), NEW p
    PROVE  Cardinality(OfProfile(N, p)) = Quantity(asked, p)
<1> DEFINE D == 1..Len(asked)
           T == {i \in N : i.profile = p}
           A == {k \in D : asked[k] = p}
           idx(i) == CHOOSE k \in D : gis[k] = i.start
           g == [i \in T |-> f[idx(i)]]
<1>0. /\ IsFiniteSet(N) /\ Distinct(N)
      /\ \A i \in N : i.start \in Range(gis)
      /\ \A k \in 1..Len(gis) : \E i \in N : i.start = gis[k]
      /\ \A k \in 1..Len(gis) : \A i \in N : i.start = gis[k] => i.profile = asked[f[k]]
    BY DEF Realizes
<1>1. /\ Len(asked) \in Nat /\ DOMAIN asked = D /\ DOMAIN gis = D
      /\ f \in [D -> D] /\ \A j, k \in D : f[j] = f[k] => j = k
    BY OrderPermutes
<1>2. \A j, k \in D : gis[j] = gis[k] => j = k
    BY <1>1 DEF IsInjective
<1>3. \A i \in N : idx(i) \in D /\ gis[idx(i)] = i.start
    <2> SUFFICES ASSUME NEW i \in N
                 PROVE  \E k \in D : gis[k] = i.start
        OBVIOUS
    <2> QED BY <1>0, <1>1 DEF Range
<1>4. \A k \in D : \E j \in D : f[j] = k
    <2>1. IsFiniteSet(D)
        BY <1>1, FS_Interval
    <2>2. f \in Injection(D, D)
        BY <1>1 DEF Injection, IsInjective
    <2>3. f \in Surjection(D, D)
        <3> HIDE DEF D
        <3> QED BY <2>1, <2>2, FS_Injection
    <2> QED BY <2>3 DEF Surjection
<1>5. \A i \in T : idx(i) \in D /\ f[idx(i)] \in A
    BY <1>0, <1>1, <1>3
<1> HIDE DEF idx, D
<1>6. g \in [T -> A]
    BY <1>5
<1>7. ASSUME NEW i \in T, NEW j \in T, g[i] = g[j]
      PROVE  i = j
    <2>1. f[idx(i)] = f[idx(j)]
        BY <1>7
    <2>2. idx(i) = idx(j)
        BY <1>1, <1>3, <2>1
    <2>3. i.start = j.start
        BY <1>3, <2>2
    <2> QED BY <1>0, <2>3 DEF Distinct
<1>8. ASSUME NEW k \in A
      PROVE  \E i \in T : g[i] = k
    <2>1. PICK j \in D : f[j] = k
        BY <1>4
    <2>2. PICK i \in N : i.start = gis[j]
        BY <1>0, <2>1 DEF D
    <2>3. i.profile = p
        BY <1>0, <1>1, <2>1, <2>2 DEF D
    <2>4. idx(i) = j
        BY <1>2, <1>3, <2>1, <2>2
    <2> QED BY <2>1, <2>3, <2>4
<1>9. g \in Bijection(T, A)
    <2> HIDE DEF g, T, A
    <2> QED BY <1>6, <1>7, <1>8 DEF Bijection, Injection, Surjection, IsInjective
<1>10. IsFiniteSet(T)
    BY <1>0, FS_Subset
<1>11. Cardinality(A) = Cardinality(T)
    <2> HIDE DEF T, A
    <2>1. ExistsBijection(T, A)
        BY <1>9 DEF ExistsBijection
    <2> QED BY <1>10, <2>1, FS_Bijection
<1>12. A = {k \in DOMAIN asked : asked[k] = p}
    BY <1>1
<1> QED BY <1>11, <1>12 DEF Quantity, OfProfile

LEMMA CreateComputeInstanceKeeps == ASSUME ClientInv, CreateComputeInstance PROVE ClientInv'
<1> DEFINE s == Last(call.gis)
           done == call.pos = Len(call.asked)
<1>1. call.pc = "ci" /\ UNCHANGED <<before, calls, faults>>
    BY DEF CreateComputeInstance
<1>2. /\ call.kind = "create" /\ call \in Calls
      /\ OwnInv /\ AttemptInv /\ before \subseteq gpu
      /\ Len(call.order) = Len(call.asked)
      /\ gpu \subseteq Instances /\ IsFiniteSet(gpu) /\ Distinct(gpu)
    BY <1>1, CreateRuns
<1>3. /\ ~call.leak /\ ~call.dirty
      /\ call.pos \in 1..Len(call.asked)
      /\ Len(call.cis) = call.pos - 1 /\ Len(call.gis) = call.pos
      /\ \A k \in 1..Len(call.cis) : call.cis[k] = call.gis[k]
      /\ \A k \in 1..Len(call.gis) : \A i \in gpu :
            i.start = call.gis[k] =>
                i.profile = call.asked[call.order[k]] /\ (k <= Len(call.cis) => i.ci)
    BY <1>1, <1>2 DEF AttemptInv
<1>4. /\ call.gis \in Seq(Places) /\ call.cis \in Seq(Places) /\ call.asked \in Seq(Profiles)
      /\ call.order \in Orders /\ call.pos \in Nat /\ Len(call.asked) \in Nat
    BY <1>2 DEF Calls
<1>5. /\ s = call.gis[call.pos] /\ s \in Range(call.gis) /\ s \in Places
      /\ DOMAIN call.gis = 1..call.pos /\ call.pos \in DOMAIN call.gis
    BY <1>3, <1>4 DEF Last, Range
<1> HIDE DEF s
<1>6. \A k \in 1..call.pos : call.gis[k] = s => k = call.pos
    BY <1>2, <1>3, <1>4, <1>5 DEF OwnInv, IsInjective
<1>7. s \notin Range(call.cis)
    <2> SUFFICES ASSUME NEW k \in DOMAIN call.cis
                 PROVE  call.cis[k] # s
        BY DEF Range
    <2>1. k \in 1..(call.pos - 1)
        BY <1>3, <1>4
    <2>2. call.cis[k] = call.gis[k] /\ k \in 1..call.pos /\ k # call.pos
        BY <1>3, <1>4, <2>1
    <2> QED BY <1>6, <2>2
<1>8. PICK c \in Seq(Places) : c = Append(call.cis, s)
    <2>1. Append(call.cis, s) \in Seq(Places)
        BY <1>4, <1>5
    <2> QED BY <2>1
<1>9. IsInjective(c) /\ Range(c) = Range(call.cis) \cup {s}
    BY <1>2, <1>4, <1>5, <1>7, <1>8, AppendDistinct DEF OwnInv
<1>10. /\ Len(c) = call.pos /\ DOMAIN c = 1..call.pos
       /\ \A k \in 1..call.pos : c[k] = call.gis[k]
    <2>1. Len(c) = call.pos /\ DOMAIN c = 1..call.pos
        BY <1>3, <1>4, <1>8
    <2>2. ASSUME NEW k \in 1..call.pos
          PROVE  c[k] = call.gis[k]
        <3>1. CASE k = call.pos
            BY <1>3, <1>4, <1>5, <1>8, <3>1
        <3>2. CASE k # call.pos
            <4>1. k \in 1..Len(call.cis)
                BY <1>3, <1>4, <3>2
            <4>2. c[k] = call.cis[k]
                BY <1>4, <1>8, <4>1
            <4> QED BY <1>3, <4>1, <4>2
        <3> QED BY <3>1, <3>2
    <2> QED BY <2>1, <2>2
<1>11. call' = [call EXCEPT !.cis = c, !.pos = call.pos + 1,
                            !.pc = IF done THEN "idle" ELSE "gi",
                            !.result = IF done THEN "ok" ELSE call.result]
    BY <1>8 DEF CreateComputeInstance, s
<1>12. /\ call' \in Calls /\ call'.kind = "create"
       /\ call'.pc = IF done THEN "idle" ELSE "gi"
       /\ call'.result = IF done THEN "ok" ELSE call.result
       /\ call'.gis = call.gis /\ call'.cis = c /\ call'.pos = call.pos + 1
       /\ call'.order = call.order /\ call'.asked = call.asked
       /\ call'.leak = call.leak /\ call'.dirty = call.dirty
    <2>1. PICK pc \in {"idle", "gi"} : pc = IF done THEN "idle" ELSE "gi"
        OBVIOUS
    <2>2. PICK result \in {"none", "ok", "failed"} : result = IF done THEN "ok" ELSE call.result
        BY <1>2 DEF Calls
    <2>3. PICK pos \in Nat : pos = call.pos + 1
        BY <1>4
    <2>4. call' = [call EXCEPT !.cis = c, !.pos = pos, !.pc = pc, !.result = result]
        BY <1>11, <2>1, <2>2, <2>3
    <2>5. /\ call' \in Calls /\ call'.kind = "create" /\ call'.pc = pc /\ call'.result = result
          /\ call'.gis = call.gis /\ call'.cis = c /\ call'.pos = pos
          /\ call'.order = call.order /\ call'.asked = call.asked
          /\ call'.leak = call.leak /\ call'.dirty = call.dirty
        BY <1>2, <2>4 DEF Calls
    <2> QED BY <2>1, <2>2, <2>3, <2>5
<1>13. s \in Starts(gpu) /\ s \notin Starts(before)
    BY <1>2, <1>5 DEF OwnInv, IsNew
<1>14. Recast(gpu', s, TRUE)
    BY <1>2, <1>13, ComputeInstanceSet DEF CreateComputeInstance, WithCi, s
<1>15. before \subseteq gpu'
    BY <1>2, <1>13, <1>14 DEF Recast, Starts
<1>16. ASSUME NEW k \in 1..call.pos, NEW i \in gpu', i.start = call.gis[k]
       PROVE  i.profile = call.asked[call.order[k]] /\ i.ci
    <2>1. CASE k = call.pos
        <3>1. i.ci = TRUE /\ \E j \in gpu : j.start = s /\ j.profile = i.profile
            BY <1>5, <1>14, <1>16, <2>1 DEF Recast
        <3> QED BY <1>3, <1>5, <2>1, <3>1
    <2>2. CASE k # call.pos
        <3>1. i \in gpu
            BY <1>6, <1>14, <1>16, <2>2 DEF Recast
        <3>2. k <= Len(call.cis)
            BY <1>3, <1>4, <2>2
        <3> QED BY <1>3, <1>16, <3>1, <3>2
    <2> QED BY <2>1, <2>2
<1>17. ASSUME NEW i \in gpu', i.start \notin Starts(before)
       PROVE  i.start \in Range(call.gis) /\ i.ci
    <2>1. i.start \in Starts(gpu)
        BY <1>14 DEF Recast, Starts
    <2>2. i.start \in Range(call.gis)
        <3>1. PICK j \in gpu : j.start = i.start
            BY <2>1 DEF Starts
        <3> QED BY <1>2, <1>3, <1>17, <2>1, <3>1 DEF OwnInv, IsNew
    <2>3. PICK k \in 1..call.pos : call.gis[k] = i.start
        BY <1>5, <2>2 DEF Range
    <2> QED BY <1>16, <2>2, <2>3
<1>18. OwnInv'
    <2>1. \A r \in Range(call'.gis) \cup Range(call'.cis) : r \in Starts(gpu') \ Starts(before')
        BY <1>1, <1>2, <1>9, <1>12, <1>13, <1>14 DEF OwnInv, IsNew, Recast
    <2>2. \A r \in Range(call.gis) : r \in Range(c)
        BY <1>5, <1>10 DEF Range
    <2> QED BY <1>1, <1>2, <1>9, <1>12, <1>17, <2>1, <2>2 DEF OwnInv, IsNew
<1>19. AttemptInv'
    <2>1. CASE done
        BY <1>12, <2>1 DEF AttemptInv
    <2>2. CASE ~done
        <3>1. call.pos + 1 \in 1..Len(call.asked) /\ (call.pos + 1) - 1 = call.pos
            BY <1>3, <1>4, <2>2
        <3> QED BY <1>3, <1>4, <1>10, <1>12, <1>16, <2>2, <3>1 DEF AttemptInv
    <2> QED BY <2>1, <2>2
<1>20. ASSUME done
       PROVE  CreatesAllOrNothing'
    <2> DEFINE N == gpu' \ before
    <2>1. \A i \in N : i \in gpu' /\ i.start \notin Starts(before)
        BY <1>14, <1>15 DEF Recast, Distinct, Starts
    <2>2. \A i \in N : i.start \in Range(call.gis) /\ i.ci
        BY <1>17, <2>1
    <2>3. Distinct(N)
        BY <1>14 DEF Recast, Distinct
    <2>4. \A k \in 1..Len(call.gis) : \E i \in N : i.start = call.gis[k]
        <3> SUFFICES ASSUME NEW k \in 1..Len(call.gis)
                     PROVE  \E i \in N : i.start = call.gis[k]
            OBVIOUS
        <3>1. call.gis[k] \in Range(call.gis)
            BY <1>4 DEF Range
        <3>2. call.gis[k] \in Starts(gpu') \ Starts(before)
            BY <1>2, <1>14, <3>1 DEF OwnInv, IsNew, Recast
        <3> QED BY <3>2 DEF Starts
    <2>5. \A k \in 1..Len(call.gis) : \A i \in N :
            i.start = call.gis[k] => i.profile = call.asked[call.order[k]]
        BY <1>3, <1>16
    <2>6. IsFiniteSet(N)
        BY <1>14, FS_Subset DEF Recast
    <2>7. Len(call.gis) = Len(call.asked) /\ IsInjective(call.gis)
        BY <1>2, <1>3, <1>20 DEF OwnInv
    <2> HIDE DEF N
    <2>8. \A p \in Profiles : Cardinality(OfProfile(N, p)) = Quantity(call.asked, p)
        <3> TAKE p \in Profiles
        <3>1. Realizes(N, call.gis, call.order, call.asked)
            BY <2>2, <2>3, <2>4, <2>5, <2>6 DEF Realizes
        <3> QED BY <1>2, <1>4, <2>7, <3>1, AllCreated
    <2>9. call'.result = "ok" /\ call'.asked = call.asked /\ before' = before
        BY <1>1, <1>12, <1>20
    <2>10. \A p : Quantity(call'.asked, p) = Quantity(call.asked, p)
        BY <2>9
    <2> QED BY <1>15, <2>2, <2>8, <2>9, <2>10 DEF CreatesAllOrNothing, Returned, OfProfile, N
<1>21. CreateInv'
    BY <1>1, <1>2, <1>12, <1>15, <1>18, <1>19, <1>20 DEF CreateInv
<1>22. /\ faults' \in 0..MaxFaults
       /\ gpu' \subseteq Instances /\ IsFiniteSet(gpu') /\ Distinct(gpu')
    BY <1>1, <1>14 DEF ClientInv, TypeOK, Recast
<1> QED BY <1>1, <1>12, <1>21, <1>22, CreateSuffices

\* A step of cleanup.
LEMMA CleanupSuffices ==
    ASSUME ClientInv, call.pc = "clean", UNCHANGED <<before, calls>>, faults' \in 0..MaxFaults,
           call' \in Calls, call'.kind = call.kind, call'.pc = "clean",
           call'.asked = call.asked, call'.order = call.order, call'.leak => call'.dirty,
           gpu' \subseteq Instances, IsFiniteSet(gpu'), Distinct(gpu'), before \subseteq gpu', OwnInv'
    PROVE  ClientInv'
<1>1. call.kind = "create" /\ Len(call.order) = Len(call.asked)
    BY CreateRuns
<1>2. CreateInv'
    BY <1>1 DEF CreateInv, AttemptInv
<1> QED BY <1>1, <1>2, CreateSuffices

LEMMA CleanupCiKeeps == ASSUME ClientInv, CleanupCi PROVE ClientInv'
<1> DEFINE s == Head(call.cis)
<1>1. call.pc = "clean" /\ call.cis # <<>> /\ UNCHANGED <<before, calls>>
    BY DEF CleanupCi
<1>2. /\ call \in Calls /\ OwnInv /\ before \subseteq gpu /\ (call.leak => call.dirty)
      /\ gpu \subseteq Instances /\ IsFiniteSet(gpu) /\ Distinct(gpu)
    BY <1>1, CreateRuns
<1>3. call.cis \in Seq(Places) /\ IsInjective(call.cis)
    BY <1>2 DEF Calls, OwnInv
<1>4. PICK t \in Seq(Places) : t = Tail(call.cis)
    BY <1>1, <1>3, TailDistinct
<1>5. s \in Range(call.cis) /\ IsInjective(t) /\ Range(t) = Range(call.cis) \ {s}
    BY <1>1, <1>3, <1>4, TailDistinct
<1> HIDE DEF s
<1>6. s \in Starts(gpu) /\ s \notin Starts(before)
    BY <1>2, <1>5 DEF OwnInv, IsNew
<1>7. CASE gpu' = WithoutCi(s) /\ call' = [call EXCEPT !.cis = Tail(@)] /\ UNCHANGED faults
    <2>1. Recast(gpu', s, FALSE)
        BY <1>2, <1>6, <1>7, ComputeInstanceSet DEF WithoutCi
    <2>2. call' = [call EXCEPT !.cis = t]
        BY <1>4, <1>7
    <2>3. /\ call' \in Calls /\ call'.kind = call.kind /\ call'.pc = "clean"
          /\ call'.asked = call.asked /\ call'.order = call.order
          /\ call'.gis = call.gis /\ call'.cis = t
          /\ call'.leak = call.leak /\ call'.dirty = call.dirty
        BY <1>1, <1>2, <2>2 DEF Calls
    <2>4. before \subseteq gpu'
        BY <1>2, <1>6, <2>1 DEF Recast, Starts
    <2>5. \A r \in Range(call'.gis) \cup Range(call'.cis) : r \in Starts(gpu') \ Starts(before')
        BY <1>1, <1>2, <1>5, <2>1, <2>3 DEF OwnInv, IsNew, Recast
    <2>6. ASSUME ~call.leak, NEW i \in gpu', i.start \notin Starts(before)
          PROVE  i.start \in Range(call.gis) /\ (i.ci => i.start \in Range(t))
        <3>1. CASE i.start = s
            <4>1. i.ci = FALSE
                BY <2>1, <3>1 DEF Recast
            <4>2. PICK j \in gpu : j.start = s
                BY <1>6 DEF Starts
            <4>3. j.start \in Range(call.gis)
                BY <1>2, <1>6, <2>6, <4>2 DEF OwnInv, IsNew
            <4> QED BY <3>1, <4>1, <4>2, <4>3
        <3>2. CASE i.start # s
            <4>1. i \in gpu
                BY <2>1, <3>2 DEF Recast
            <4>2. i.start \in Starts(gpu)
                BY <4>1 DEF Starts
            <4> QED BY <1>2, <1>5, <2>6, <3>2, <4>1, <4>2 DEF OwnInv, IsNew
        <3> QED BY <3>1, <3>2
    <2>7. OwnInv'
        BY <1>1, <1>2, <1>5, <2>3, <2>5, <2>6 DEF OwnInv, IsNew
    <2>8. /\ faults' \in 0..MaxFaults
          /\ gpu' \subseteq Instances /\ IsFiniteSet(gpu') /\ Distinct(gpu')
        BY <1>7, <2>1 DEF ClientInv, TypeOK, Recast
    <2> QED BY <1>1, <1>2, <2>3, <2>4, <2>7, <2>8, CleanupSuffices
<1>8. CASE FailsWith([call EXCEPT !.cis = Tail(@), !.dirty = TRUE], TRUE) /\ UNCHANGED gpu
    <2>1. call' = [[call EXCEPT !.cis = t, !.dirty = TRUE] EXCEPT !.fault = TRUE, !.leak = TRUE]
        BY <1>2, <1>4, <1>8 DEF FailsWith, Calls
    <2>2. /\ call' \in Calls /\ call'.kind = call.kind /\ call'.pc = "clean"
          /\ call'.asked = call.asked /\ call'.order = call.order
          /\ call'.gis = call.gis /\ call'.cis = t /\ call'.leak /\ call'.dirty
        BY <1>1, <1>2, <2>1 DEF Calls
    <2>3. OwnInv'
        BY <1>1, <1>2, <1>5, <1>8, <2>2 DEF OwnInv, IsNew
    <2>4. faults' \in 0..MaxFaults
        BY <1>8, BoundsAssumption DEF FailsWith, ClientInv, TypeOK
    <2> QED BY <1>1, <1>2, <1>8, <2>2, <2>3, <2>4, CleanupSuffices DEF Distinct
<1> QED BY <1>7, <1>8 DEF CleanupCi, s

LEMMA CleanupGiKeeps == ASSUME ClientInv, CleanupGi PROVE ClientInv'
<1> DEFINE s == Head(call.gis)
<1>1. /\ call.pc = "clean" /\ call.cis = <<>> /\ call.gis # <<>>
      /\ UNCHANGED <<before, calls>>
    BY DEF CleanupGi
<1>2. /\ call \in Calls /\ OwnInv /\ before \subseteq gpu /\ (call.leak => call.dirty)
      /\ gpu \subseteq Instances /\ IsFiniteSet(gpu) /\ Distinct(gpu)
    BY <1>1, CreateRuns
<1>3. call.gis \in Seq(Places) /\ IsInjective(call.gis) /\ Range(call.cis) = {}
    BY <1>1, <1>2 DEF Calls, OwnInv, Range
<1>4. PICK t \in Seq(Places) : t = Tail(call.gis)
    BY <1>1, <1>3, TailDistinct
<1>5. s \in Range(call.gis) /\ IsInjective(t) /\ Range(t) = Range(call.gis) \ {s}
    BY <1>1, <1>3, <1>4, TailDistinct
<1> HIDE DEF s
<1>6. s \in Starts(gpu) /\ s \notin Starts(before)
    BY <1>2, <1>5 DEF OwnInv, IsNew
<1>7. CASE gpu' = Without(s) /\ call' = [call EXCEPT !.gis = Tail(@)] /\ UNCHANGED faults
    <2>1. /\ gpu' = {i \in gpu : i.start # s} /\ IsFiniteSet(gpu') /\ Distinct(gpu')
          /\ Starts(gpu') = Starts(gpu) \ {s}
        BY <1>2, <1>6, <1>7, InstanceDestroyed
    <2>2. call' = [call EXCEPT !.gis = t]
        BY <1>4, <1>7
    <2>3. /\ call' \in Calls /\ call'.kind = call.kind /\ call'.pc = "clean"
          /\ call'.asked = call.asked /\ call'.order = call.order
          /\ call'.gis = t /\ call'.cis = call.cis
          /\ call'.leak = call.leak /\ call'.dirty = call.dirty
        BY <1>1, <1>2, <2>2 DEF Calls
    <2>4. before \subseteq gpu'
        BY <1>2, <1>6, <2>1 DEF Starts
    <2>5. OwnInv'
        <3>1. \A r \in Range(call'.gis) \cup Range(call'.cis) : r \in Starts(gpu') \ Starts(before')
            BY <1>1, <1>2, <1>3, <1>5, <2>1, <2>3 DEF OwnInv, IsNew
        <3>2. ASSUME ~call.leak, NEW i \in gpu', i.start \notin Starts(before)
              PROVE  i.start \in Range(t) /\ (i.ci => i.start \in Range(call.cis))
            <4>1. i \in gpu /\ i.start # s
                BY <2>1
            <4>2. i.start \in Starts(gpu)
                BY <4>1 DEF Starts
            <4> QED BY <1>2, <1>5, <3>2, <4>1, <4>2 DEF OwnInv, IsNew
        <3> QED BY <1>1, <1>2, <1>5, <2>3, <3>1, <3>2 DEF OwnInv, IsNew
    <2>6. faults' \in 0..MaxFaults /\ gpu' \subseteq Instances
        BY <1>2, <1>7, <2>1 DEF ClientInv, TypeOK
    <2> QED BY <1>1, <1>2, <2>1, <2>3, <2>4, <2>5, <2>6, CleanupSuffices
<1>8. CASE At(s).ci /\ call' = [call EXCEPT !.gis = Tail(@), !.dirty = TRUE] /\ UNCHANGED <<gpu, faults>>
    <2>1. call' = [call EXCEPT !.gis = t, !.dirty = TRUE]
        BY <1>4, <1>8
    <2>2. /\ call' \in Calls /\ call'.kind = call.kind /\ call'.pc = "clean"
          /\ call'.asked = call.asked /\ call'.order = call.order
          /\ call'.gis = t /\ call'.cis = call.cis /\ call'.leak = call.leak /\ call'.dirty
        BY <1>1, <1>2, <2>1 DEF Calls
    <2>3. call.leak
        <3>1. At(s) \in gpu /\ At(s).start = s
            BY <1>6, AtFinds
        <3> QED BY <1>2, <1>3, <1>6, <1>8, <3>1 DEF OwnInv, IsNew
    <2>4. OwnInv'
        BY <1>1, <1>2, <1>5, <1>8, <2>2, <2>3 DEF OwnInv, IsNew
    <2>5. faults' \in 0..MaxFaults
        BY <1>8 DEF ClientInv, TypeOK
    <2> QED BY <1>1, <1>2, <1>8, <2>2, <2>4, <2>5, CleanupSuffices DEF Distinct
<1>9. CASE FailsWith([call EXCEPT !.gis = Tail(@), !.dirty = TRUE], TRUE) /\ UNCHANGED gpu
    <2>1. call' = [[call EXCEPT !.gis = t, !.dirty = TRUE] EXCEPT !.fault = TRUE, !.leak = TRUE]
        BY <1>2, <1>4, <1>9 DEF FailsWith, Calls
    <2>2. /\ call' \in Calls /\ call'.kind = call.kind /\ call'.pc = "clean"
          /\ call'.asked = call.asked /\ call'.order = call.order
          /\ call'.gis = t /\ call'.cis = call.cis /\ call'.leak /\ call'.dirty
        BY <1>1, <1>2, <2>1 DEF Calls
    <2>3. OwnInv'
        BY <1>1, <1>2, <1>5, <1>9, <2>2 DEF OwnInv, IsNew
    <2>4. faults' \in 0..MaxFaults
        BY <1>9, BoundsAssumption DEF FailsWith, ClientInv, TypeOK
    <2> QED BY <1>1, <1>2, <1>9, <2>2, <2>3, <2>4, CleanupSuffices DEF Distinct
<1> QED BY <1>7, <1>8, <1>9 DEF CleanupGi, s

LEMMA PermuteKeeps == ASSUME ClientInv, Permute PROVE ClientInv'
<1>1. /\ call.pc = "clean" /\ call.cis = <<>> /\ call.gis = <<>>
      /\ UNCHANGED <<gpu, before, calls, faults>>
    BY DEF Permute
<1>2. /\ call.kind = "create" /\ call \in Calls /\ OwnInv /\ before \subseteq gpu
      /\ (call.leak => call.dirty) /\ Len(call.order) = Len(call.asked)
      /\ gpu \subseteq Instances /\ IsFiniteSet(gpu) /\ Distinct(gpu)
    BY <1>1, CreateRuns
<1>3. faults' \in 0..MaxFaults
    BY <1>1 DEF ClientInv, TypeOK
<1>4. ASSUME ~call.dirty, NEW next \in OrdersAfter(call.order),
             call' = [call EXCEPT !.order = next, !.pos = 1, !.pc = "gi"]
      PROVE  ClientInv'
    <2>1. next \in Orders /\ Len(next) = Len(call.order)
        BY <1>4 DEF OrdersAfter
    <2>2. /\ call' \in Calls /\ call'.kind = "create" /\ call'.pc = "gi" /\ call'.pos = 1
          /\ call'.asked = call.asked /\ call'.order = next
          /\ call'.gis = <<>> /\ call'.cis = <<>> /\ ~call'.leak /\ ~call'.dirty
        BY <1>1, <1>2, <1>4, <2>1 DEF Calls
    <2>3. Len(call.asked) \in Nat \ {0}
        <3>1. call.order \in Orders /\ call.asked \in Seq(Profiles)
            BY <1>2 DEF Calls
        <3>2. PICK k \in DOMAIN call.order : TRUE
            BY <1>4 DEF OrdersAfter, Earlier
        <3>3. k \in 1..Len(call.order) /\ Len(call.order) \in Nat
            BY <3>1, <3>2, OrderPermutes
        <3> QED BY <1>2, <3>3
    <2>4. OwnInv'
        BY <1>1, <1>2, <1>4, <2>2 DEF OwnInv, IsNew
    <2>5. AttemptInv'
        BY <2>2, <2>3 DEF AttemptInv
    <2>6. CreateInv'
        BY <1>1, <1>2, <2>1, <2>2, <2>4, <2>5 DEF CreateInv
    <2> QED BY <1>1, <1>2, <1>3, <2>2, <2>6, CreateSuffices DEF Distinct
<1>5. ASSUME Return("failed")
      PROVE  ClientInv'
    <2>1. /\ call' \in Calls /\ call'.kind = "create" /\ call'.pc = "idle"
          /\ call'.result = "failed" /\ call'.leak = call.leak
          /\ call'.asked = call.asked /\ call'.order = call.order
        BY <1>2, <1>5 DEF Return, Calls
    <2>2. ~call.leak => gpu = before
        <3> SUFFICES ASSUME ~call.leak, NEW i \in gpu
                     PROVE  i \in before
            BY <1>2
        <3>1. i.start \in Starts(gpu) /\ i.start \notin Range(call.gis)
            BY <1>1 DEF Starts, Range
        <3>2. i.start \in Starts(before)
            BY <1>2, <3>1 DEF OwnInv, IsNew
        <3> QED BY <1>2, <3>2 DEF Starts, Distinct
    <2>3. CreateInv'
        BY <1>1, <1>2, <2>1, <2>2 DEF CreateInv, CreatesAllOrNothing, Returned, AttemptInv
    <2> QED BY <1>1, <1>2, <1>3, <2>1, <2>3, CreateSuffices DEF Distinct
<1> QED BY <1>4, <1>5 DEF Permute

-----------------------------------------------------------------------------
(***************************************************************************)
(* The steps of DeleteMigDevice and DeleteAllMigDevicesExcept              *)
(***************************************************************************)
LEMMA DestroySuffices ==
    ASSUME ClientInv, UNCHANGED <<before, calls>>, faults' \in 0..MaxFaults,
           call' \in Calls, call'.kind = call.kind, call.kind \in {"delete", "cleanup"},
           call'.keep = call.keep,
           call.kind = "delete" /\ call.ignored = {} => call'.ignored = {},
           gpu' \subseteq Instances, IsFiniteSet(gpu'), Distinct(gpu'),
           \A K : DestroyInv(K) => DestroyInv(K)'
    PROVE  ClientInv'
<1>1. TypeOK'
    BY DEF ClientInv, TypeOK
<1>2. InstancesInv'
    BY DEF ClientInv, InstancesInv, Distinct
<1>3. DeleteInv'
    <2> SUFFICES ASSUME call.kind = "delete"
                 PROVE  /\ call'.ignored = {}
                        /\ \E t \in before' : DestroyInv(Starts(before) \ {t.start})'
        BY DEF DeleteInv
    <2>0. call.ignored = {} /\ call'.ignored = {}
        BY DEF ClientInv, DeleteInv
    <2>1. PICK t \in before : DestroyInv(Starts(before) \ {t.start})
        BY DEF ClientInv, DeleteInv
    <2>2. PICK K : K = Starts(before) \ {t.start}
        OBVIOUS
    <2>3. DestroyInv(K)
        BY <2>1, <2>2
    <2>4. DestroyInv(K)'
        BY <2>3
    <2>5. DestroyInv(Starts(before) \ {t.start})'
        BY <2>2, <2>4 DEF DestroyInv, Starts
    <2> QED BY <2>0, <2>5
<1>4. CleanupInv'
    <2> SUFFICES ASSUME call.kind = "cleanup"
                 PROVE  DestroyInv(call.keep)'
        BY DEF CleanupInv
    <2>1. PICK K : K = call.keep
        OBVIOUS
    <2>2. DestroyInv(K)
        BY <2>1 DEF ClientInv, CleanupInv
    <2>3. DestroyInv(K)'
        BY <2>2
    <2> QED BY <2>1, <2>3 DEF DestroyInv
<1> QED BY <1>1, <1>2, <1>3, <1>4 DEF ClientInv, IdleInv, CreateInv

\* What is known when a deletion is under way.
LEMMA DestroyRuns ==
    ASSUME ClientInv, call.pc \in {"destroyCi", "destroyGi"}
    PROVE  /\ call.kind \in {"delete", "cleanup"} /\ call \in Calls
           /\ gpu \subseteq Instances /\ IsFiniteSet(gpu) /\ Distinct(gpu)
           /\ faults \in 0..MaxFaults
           /\ \A s \in call.todo : s \in Starts(gpu)
           /\ call.pc = "destroyGi" => call.at \in Starts(gpu)
<1>1. call.kind \in {"delete", "cleanup"}
    BY KindOfPc
<1>2. \E K : DestroyInv(K)
    BY <1>1 DEF ClientInv, DeleteInv, CleanupInv
<1>3. PICK K : DestroyInv(K)
    BY <1>2
<1>4. \A s \in call.todo : s \in Starts(gpu)
    BY <1>3 DEF DestroyInv, Starts
<1>5. call.pc = "destroyGi" => call.at \in Starts(gpu)
    BY <1>3 DEF DestroyInv
<1> QED BY <1>1, <1>4, <1>5 DEF ClientInv, TypeOK, InstancesInv

LEMMA AllVisitedKeeps == ASSUME ClientInv, AllVisited PROVE ClientInv'
<1>1. /\ call.pc = "destroyCi" /\ call.todo = {}
      /\ UNCHANGED <<gpu, before, calls, faults>>
    BY DEF AllVisited
<1>2. /\ call.kind \in {"delete", "cleanup"} /\ call \in Calls /\ faults \in 0..MaxFaults
      /\ gpu \subseteq Instances /\ IsFiniteSet(gpu) /\ Distinct(gpu)
    BY <1>1, DestroyRuns
<1>3. /\ call' \in Calls /\ call'.kind = call.kind /\ call'.keep = call.keep
      /\ call'.pc = "idle" /\ call'.result = "ok" /\ call'.todo = call.todo
      /\ call'.ignored = call.ignored
    BY <1>2 DEF AllVisited, Return, Calls
<1>4. ASSUME NEW K, DestroyInv(K)
      PROVE  DestroyInv(K)'
    BY <1>1, <1>3, <1>4 DEF DestroyInv, Starts
<1> QED BY <1>1, <1>2, <1>3, <1>4, DestroySuffices DEF Distinct

LEMMA DestroyCiKeeps == ASSUME ClientInv, DestroyCi PROVE ClientInv'
<1>1. call.pc = "destroyCi" /\ UNCHANGED <<before, calls, faults>>
    BY DEF DestroyCi
<1>2. /\ call.kind \in {"delete", "cleanup"} /\ call \in Calls /\ faults \in 0..MaxFaults
      /\ gpu \subseteq Instances /\ IsFiniteSet(gpu) /\ Distinct(gpu)
      /\ \A s \in call.todo : s \in Starts(gpu)
    BY <1>1, DestroyRuns
<1>3. PICK s \in call.todo :
        /\ gpu' = WithoutCi(s)
        /\ call' = [call EXCEPT !.todo = @ \ {s}, !.at = s, !.pc = "destroyGi"]
    BY DEF DestroyCi
<1>4. s \in Starts(gpu) /\ s \in Nat /\ call.todo \ {s} \in SUBSET Places
    BY <1>2, InstanceFields DEF Starts, Calls
<1>5. Recast(gpu', s, FALSE)
    BY <1>2, <1>3, <1>4, ComputeInstanceSet DEF WithoutCi
<1>6. /\ call' \in Calls /\ call'.kind = call.kind /\ call'.keep = call.keep
      /\ call'.pc = "destroyGi" /\ call'.at = s /\ call'.todo = call.todo \ {s}
      /\ call'.ignored = call.ignored
    BY <1>2, <1>3, <1>4 DEF Calls
<1>7. ASSUME NEW K, DestroyInv(K)
      PROVE  DestroyInv(K)'
    <2>1. /\ call.todo \subseteq Starts(before) /\ K \cap call.todo = {}
          /\ \A i \in before : i.start \in K \cup call.todo => i \in gpu
          /\ \A i \in gpu : \/ i \in before /\ i.start \in K \cup call.todo
                           \/ i.start \in call.ignored
        BY <1>1, <1>7 DEF DestroyInv
    <2>2. s \notin K /\ s \notin call'.todo
        BY <1>6, <2>1
    <2>3. \A i \in before : i.start \in K \cup call'.todo => i \in gpu'
        BY <1>5, <1>6, <2>1, <2>2 DEF Recast
    <2>4. s \in Starts(gpu')
        BY <1>4, <1>5 DEF Recast
    <2>5. \A i \in gpu' : \/ i.start = s \/ (i \in before /\ i.start \in K \cup call'.todo)
                         \/ i.start \in call.ignored
        BY <1>5, <1>6, <2>1 DEF Recast
    <2>6. call'.todo \subseteq Starts(before) /\ K \cap call'.todo = {}
        BY <1>6, <2>1
    <2>7. before' = before /\ Starts(before)' = Starts(before) /\ Starts(gpu)' = Starts(gpu')
        BY <1>1 DEF Starts
    <2> QED BY <1>6, <2>2, <2>3, <2>4, <2>5, <2>6, <2>7 DEF DestroyInv
<1>8. gpu' \subseteq Instances /\ IsFiniteSet(gpu') /\ Distinct(gpu')
    BY <1>5 DEF Recast
<1> QED BY <1>1, <1>2, <1>6, <1>7, <1>8, DestroySuffices

LEMMA DestroyGiKeeps == ASSUME ClientInv, DestroyGi PROVE ClientInv'
<1>1. /\ call.pc = "destroyGi" /\ gpu' = Without(call.at)
      /\ UNCHANGED <<before, calls, faults>>
    BY DEF DestroyGi
<1>2. /\ call.kind \in {"delete", "cleanup"} /\ call \in Calls /\ faults \in 0..MaxFaults
      /\ gpu \subseteq Instances /\ IsFiniteSet(gpu) /\ Distinct(gpu)
      /\ call.at \in Starts(gpu)
    BY <1>1, DestroyRuns
<1>3. gpu' = {i \in gpu : i.start # call.at} /\ IsFiniteSet(gpu') /\ Distinct(gpu')
    BY <1>1, <1>2, InstanceDestroyed
<1>4. /\ call' \in Calls /\ call'.kind = call.kind /\ call'.keep = call.keep
      /\ call'.pc = "destroyCi" /\ call'.todo = call.todo /\ call'.ignored = call.ignored
    BY <1>2 DEF DestroyGi, Goto, Calls
<1>5. ASSUME NEW K, DestroyInv(K)
      PROVE  DestroyInv(K)'
    <2>1. \A i \in before : i.start \in K \cup call.todo => i \in gpu'
        BY <1>1, <1>3, <1>5 DEF DestroyInv
    <2>2. \A i \in gpu' : \/ i \in before /\ i.start \in K \cup call.todo
                         \/ i.start \in call.ignored
        BY <1>1, <1>3, <1>5 DEF DestroyInv
    <2> QED BY <1>1, <1>4, <1>5, <2>1, <2>2 DEF DestroyInv, Starts
<1>6. gpu' \subseteq Instances
    BY <1>2, <1>3
<1> QED BY <1>1, <1>2, <1>3, <1>4, <1>5, <1>6, DestroySuffices

LEMMA DestroyFailsKeeps == ASSUME ClientInv, DestroyFails PROVE ClientInv'
<1>1. call.pc \in {"destroyCi", "destroyGi"} /\ UNCHANGED <<gpu, before, calls>>
    BY DEF DestroyFails
<1>2. /\ call.kind \in {"delete", "cleanup"} /\ call \in Calls /\ faults \in 0..MaxFaults
      /\ gpu \subseteq Instances /\ IsFiniteSet(gpu) /\ Distinct(gpu)
    BY <1>1, DestroyRuns
<1>3. faults' \in 0..MaxFaults
    BY <1>2, BoundsAssumption DEF DestroyFails, FailsWith
<1>4. /\ call' \in Calls /\ call'.kind = call.kind /\ call'.keep = call.keep
      /\ call'.pc = "idle" /\ call'.result = "failed" /\ call'.todo = call.todo
      /\ call'.ignored = call.ignored
    BY ZenonT(60), <1>2 DEF DestroyFails, FailsWith, Return, Calls
<1>5. ASSUME NEW K, DestroyInv(K)
      PROVE  DestroyInv(K)'
    BY <1>1, <1>4, <1>5 DEF DestroyInv, Starts
<1> QED BY <1>1, <1>2, <1>3, <1>4, <1>5, DestroySuffices DEF Distinct

LEMMA DestroyIgnoredKeeps == ASSUME ClientInv, DestroyIgnored PROVE ClientInv'
<1>1. /\ call.pc \in {"destroyCi", "destroyGi"} /\ UNCHANGED <<gpu, before, calls>>
      /\ call.kind = "cleanup"
    BY DEF DestroyIgnored
<1>2. /\ call \in Calls /\ faults \in 0..MaxFaults
      /\ gpu \subseteq Instances /\ IsFiniteSet(gpu) /\ Distinct(gpu)
      /\ \A s \in call.todo : s \in Starts(gpu)
      /\ call.pc = "destroyGi" => call.at \in Starts(gpu)
    BY <1>1, DestroyRuns
<1>3. faults' \in 0..MaxFaults
    <2>1. faults < MaxFaults /\ faults' = faults + 1
        BY DEF DestroyIgnored, FailsWith
    <2> QED BY <1>2, <2>1, BoundsAssumption
<1>4. ASSUME call.pc = "destroyCi", NEW s \in call.todo,
             FailsWith([call EXCEPT !.todo = @ \ {s}, !.at = s, !.ignored = @ \cup {s},
                                    !.pc = "destroyGi"], TRUE)
      PROVE  ClientInv'
    <2>1. s \in Starts(gpu) /\ s \in Nat /\ s \in Places /\ call.todo \ {s} \in SUBSET Places
        BY <1>2, <1>4, InstanceFields DEF Starts, Calls
    <2>2. /\ call' \in Calls /\ call'.kind = call.kind /\ call'.keep = call.keep
          /\ call'.pc = "destroyGi" /\ call'.at = s /\ call'.todo = call.todo \ {s}
          /\ call'.ignored = call.ignored \cup {s}
        <3>1. call.ignored \cup {s} \in SUBSET Places
            BY <1>2, <2>1 DEF Calls
        <3> QED BY <1>2, <1>4, <2>1, <3>1 DEF FailsWith, Calls
    <2>3. ASSUME NEW K, DestroyInv(K)
          PROVE  DestroyInv(K)'
        <3>1. s \in Starts(gpu) \ (K \cup call'.todo)
            BY <1>4, <2>1, <2>2, <2>3 DEF DestroyInv
        <3> QED BY <1>1, <1>4, <2>2, <2>3, <3>1 DEF DestroyInv, Starts
    <2> QED BY <1>1, <1>2, <1>3, <2>2, <2>3, DestroySuffices DEF Distinct
<1>5. ASSUME call.pc = "destroyGi",
             FailsWith([call EXCEPT !.ignored = @ \cup {call.at}, !.pc = "destroyCi"], TRUE)
      PROVE  ClientInv'
    <2>1. /\ call' \in Calls /\ call'.kind = call.kind /\ call'.keep = call.keep
          /\ call'.pc = "destroyCi" /\ call'.todo = call.todo
          /\ call'.ignored = call.ignored \cup {call.at}
        <3>1. call.at \in Places
            BY <1>2, <1>5, InstanceFields DEF Starts
        <3>2. call.ignored \cup {call.at} \in SUBSET Places
            BY <1>2, <3>1 DEF Calls
        <3> QED BY <1>2, <1>5, <3>2 DEF FailsWith, Calls
    <2>2. ASSUME NEW K, DestroyInv(K)
          PROVE  DestroyInv(K)'
        BY <1>1, <1>5, <2>1, <2>2 DEF DestroyInv, Starts
    <2> QED BY <1>1, <1>2, <1>3, <2>1, <2>2, DestroySuffices DEF Distinct
<1> QED BY <1>4, <1>5 DEF DestroyIgnored

-----------------------------------------------------------------------------
(***************************************************************************)
(* The theorems                                                            *)
(***************************************************************************)
LEMMA ClientStep == ASSUME ClientInv, [Next]_vars PROVE ClientInv'
<1>1. CASE UNCHANGED vars
    BY <1>1 DEF vars, ClientInv, TypeOK, InstancesInv, IdleInv, CreateInv, DeleteInv, CleanupInv,
                DestroyInv, OwnInv, AttemptInv, IsNew, Starts, Distinct, CreatesAllOrNothing,
                Returned
<1>2. CASE Next
    BY <1>2, CreateBegins, DeleteBegins, CleanupBegins, NoProfileInfoKeeps,
       CreateGpuInstanceKeeps, NoGpuInstanceKeeps, CreateComputeInstanceKeeps,
       NoComputeInstanceKeeps, CleanupCiKeeps, CleanupGiKeeps, PermuteKeeps, AllVisitedKeeps,
       DestroyCiKeeps, DestroyGiKeeps, DestroyFailsKeeps, DestroyIgnoredKeeps DEF Next, Step
<1> QED BY <1>1, <1>2

\* The inductive invariant: the lists of a creation name what it has created and nothing
\* else, and a deletion leaves what it does not visit.
THEOREM ClientInvariant == Spec => []ClientInv
<1>1. Init => ClientInv
    BY ClientInit
<1>2. ClientInv /\ [Next]_vars => ClientInv'
    BY ClientStep
<1> QED BY <1>1, <1>2, PTL DEF Spec

\* For any GPU and any failures of the driver, CreateMigDevices creates one complete
\* device for every profile that was asked for, or, unless it leaves something behind that it
\* could not destroy, none.
THEOREM NvmlCreates == Spec => []CreatesAllOrNothing
<1>1. ClientInv => CreatesAllOrNothing
    BY DEF ClientInv, CreateInv, CreatesAllOrNothing, Returned
<1> QED BY <1>1, ClientInvariant, PTL

\* No call touches an instance that is not its own.
THEOREM NvmlSpares == Spec => []SparesOthers
<1>1. ASSUME ClientInv
      PROVE  SparesOthers
    <2> SUFFICES ASSUME NEW i \in before, i \notin gpu
                 PROVE  \/ call.kind = "delete" /\ ~\E j \in before : j # i /\ j \notin gpu
                        \/ call.kind = "cleanup" /\ i.start \notin call.keep
        BY DEF SparesOthers
    <2>1. call.kind \in {"none", "create", "delete", "cleanup"} /\ Distinct(before)
        BY <1>1 DEF ClientInv, TypeOK, Calls, InstancesInv
    <2>2. call.kind # "none" /\ call.kind # "create"
        BY <1>1 DEF ClientInv, IdleInv, CreateInv
    <2>3. CASE call.kind = "delete"
        <3>1. PICK t \in before : DestroyInv(Starts(before) \ {t.start})
            BY <1>1, <2>3 DEF ClientInv, DeleteInv
        <3>2. \A j \in before : j.start # t.start => j \in gpu
            BY <3>1 DEF DestroyInv, Starts
        <3> QED BY <2>1, <2>3, <3>2 DEF Distinct
    <2>4. CASE call.kind = "cleanup"
        BY <1>1, <2>4 DEF ClientInv, CleanupInv, DestroyInv
    <2> QED BY <2>1, <2>2, <2>3, <2>4
<1> QED BY <1>1, ClientInvariant, PTL

\* A DeleteMigDevice that returns nil has removed the instance.  When the cleanup at the
\* start of the agent returns nil, the devices to keep are as they were, and of the rest
\* only what the driver answered with ERROR_INVALID_ARGUMENT is left.
THEOREM NvmlDeletes == Spec => []DeletesCompletely
<1>1. ASSUME ClientInv
      PROVE  DeletesCompletely
    <2>1. IsFiniteSet(before) /\ Distinct(before)
        BY <1>1 DEF ClientInv, InstancesInv
    <2>2. ASSUME Returned("delete", "ok")
          PROVE  Cardinality(gpu) = Cardinality(before) - 1
        <3>0. call.ignored = {}
            BY <1>1, <2>2 DEF ClientInv, DeleteInv, Returned
        <3>1. PICK t \in before : DestroyInv(Starts(before) \ {t.start})
            BY <1>1, <2>2 DEF ClientInv, DeleteInv, Returned
        <3>2. gpu = {i \in before : i.start # t.start}
            BY <2>2, <3>0, <3>1 DEF DestroyInv, Returned, Starts
        <3>3. gpu = before \ {t}
            BY <2>1, <3>2 DEF Distinct
        <3> QED BY <2>1, <3>3, FS_RemoveElement
    <2>3. ASSUME Returned("cleanup", "ok")
          PROVE  /\ {i \in before : i.start \in call.keep} \subseteq gpu
                 /\ \A i \in gpu : \/ i \in before /\ i.start \in call.keep
                                  \/ i.start \in call.ignored
        BY <1>1, <2>3 DEF ClientInv, CleanupInv, DestroyInv, Returned
    <2> QED BY <2>2, <2>3 DEF DeletesCompletely
<1> QED BY <1>1, ClientInvariant, PTL
=============================================================================
