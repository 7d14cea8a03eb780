--------------------------- MODULE ProviderProofs ---------------------------
(***************************************************************************)
(* Proofs about Provider for every set of names, incarnations, tenants and *)
(* capsules: the type invariant, and that the orphan sweep spares the      *)
(* capsules of living pods.                                                *)
(***************************************************************************)
EXTENDS Provider, WellFoundedInduction, TLAPS

(* The empty values have the types of the values they stand in for.        *)
LEMMA EmptyTypes ==
    /\ NoPod \in Pod
    /\ Untracked \in Tracked
    /\ Unmade \in Capsule
    /\ NotListed \in Listing
    /\ Idle \in CallState
    /\ IdleSync \in SyncState
    /\ IdleSweep \in SweepState
<1>1. NoPod \in Pod /\ Untracked \in Tracked /\ Unmade \in Capsule /\ NotListed \in Listing
    BY ProviderAssumption
    DEF NoPod, Pod, Phase, Untracked, Tracked, Unmade, Capsule, Status, NotListed, Listing
<1>2. Idle \in CallState
    BY <1>1 DEF Idle, CallState
<1>3. IdleSync \in SyncState
    BY <1>1 DEF IdleSync, SyncState
<1>4. IdleSweep \in SweepState
    BY DEF IdleSweep, SweepState
<1> QED BY <1>1, <1>2, <1>3, <1>4

LEMMA InitType == Init => TypeOK
<1> SUFFICES ASSUME Init PROVE TypeOK
    OBVIOUS
<1>1. api \in [Key -> Pod] /\ cache \in [Key -> Pod] /\ pods \in [Key -> Tracked]
    BY EmptyTypes DEF Init
<1>2. zun \in [CapsuleId -> Capsule] /\ worker \in [Key -> CallState]
    BY EmptyTypes DEF Init
<1>3. made \in 0..MaxCapsules /\ faults \in 0..MaxFaults
    BY ProviderAssumption DEF Init
<1> QED BY <1>1, <1>2, <1>3, EmptyTypes DEF Init, TypeOK

(* Publishing a tracked entry keeps the API server's pods well formed.     *)
LEMMA NotifyType ==
    ASSUME TypeOK, NEW k \in Key, NEW e \in Tracked, notify(k, e)
    PROVE  api' \in [Key -> Pod]
<1>1. api \in [Key -> Pod] /\ api[k] \in Pod
    BY DEF TypeOK
<1>2. [api[k] EXCEPT !.phase = e.phase, !.addr = e.addr] \in Pod
    BY <1>1 DEF Pod, Tracked
<1>3. CASE api' = api
    BY <1>1, <1>3
<1>4. CASE api' = [api EXCEPT ![k].phase = e.phase, ![k].addr = e.addr]
    BY <1>1, <1>4 DEF Pod, Tracked
<1> QED BY <1>3, <1>4 DEF notify

(* A capsule made takes the next place in the order of creation.           *)
LEMMA ZunCreateType ==
    ASSUME TypeOK, NEW u \in UID \cup {NoUID}, ZunCreate(u)
    PROVE  /\ zun' \in [CapsuleId -> Capsule]
           /\ made' \in 0..MaxCapsules
           /\ made + 1 \in CapsuleId
<1>1. made \in Nat /\ made < MaxCapsules /\ MaxCapsules \in Nat
    BY ProviderAssumption DEF TypeOK, ZunCreate
<1>2. made + 1 \in CapsuleId /\ made' \in 0..MaxCapsules
    BY <1>1 DEF CapsuleId, ZunCreate
<1>3. [uid |-> u, status |-> "Creating", age |-> "hidden"] \in Capsule
    BY DEF Capsule, Status
<1> QED BY <1>2, <1>3 DEF TypeOK, ZunCreate

LEMMA CreateType ==
    ASSUME TypeOK, NEW k \in Key, Create(k)
    PROVE  TypeOK'
<1> USE ProviderAssumption, EmptyTypes DEF TypeOK, outside
<1>1. CASE CallCreatePod(k)
    BY <1>1 DEF CallCreatePod, Call, CallState
<1>2. CASE CallUpdatePod(k)
    BY <1>2 DEF CallUpdatePod, Call, CallState
<1>3. CASE CreateAdopts(k)
    <2>1. worker[k].pod \in Pod
        BY DEF CallState
    <2>2. pods' \in [Key -> Tracked]
        <3> DEFINE pod == worker[k].pod
                   entry(a) == [uid |-> pod.uid,
                                phase |-> IF pod.phase = "" THEN "Pending" ELSE pod.phase,
                                addr |-> pod.addr, age |-> a]
        <3>1. PICK a \in {"settled", "fresh"} : pods' = [pods EXCEPT ![k] = entry(a)]
            BY <1>3, Zenon DEF CreateAdopts, adoptPod
        <3>2. entry(a) \in Tracked
            BY <2>1 DEF Tracked, Pod, Phase
        <3> HIDE DEF entry
        <3> QED BY <3>1, <3>2
    <2> QED BY <1>3, <2>2 DEF CreateAdopts, adoptPod, Return
<1>4. CASE CreateProceeds(k)
    BY <1>4 DEF CreateProceeds, Goto, CallState
<1>5. CASE CreateListFails(k)
    BY <1>5 DEF CreateListFails, Goto, Fault, CallState
<1>6. CASE CreateRefused(k)
    BY <1>6 DEF CreateRefused, Return, Requeue
<1>7. CASE CreateCapsule(k)
    <2>1. worker[k].pod.uid \in UID \cup {NoUID}
        BY DEF CallState, Pod
    <2> QED BY <1>7, <2>1, ZunCreateType DEF CreateCapsule, Goto, CallState
<1>8. CASE CreateAnswerLost(k)
    <2>1. worker[k].pod.uid \in UID \cup {NoUID}
        BY DEF CallState, Pod
    <2> QED BY <1>8, <2>1, ZunCreateType DEF CreateAnswerLost, Return, Requeue, Fault
<1>9. CASE trackPod(k)
    <2> DEFINE e == [uid |-> worker[k].pod.uid, phase |-> "Pending",
                     addr |-> worker[k].pod.addr, age |-> "fresh"]
    <2>1. e \in Tracked
        BY DEF CallState, Pod, Tracked, Phase
    <2>2. notify(k, e) /\ pods' = [pods EXCEPT ![k] = e]
        BY <1>9 DEF trackPod
    <2>3. api' \in [Key -> Pod]
        BY <2>1, <2>2, NotifyType
    <2>4. /\ deleted' = [deleted EXCEPT ![k] = NoUID]
          /\ worker' = [worker EXCEPT ![k] = Idle]
          /\ UNCHANGED <<outside, queue, zun, made, sync, sweep, faults>>
        BY <1>9 DEF trackPod, Return
    <2> HIDE DEF e
    <2> QED BY <2>1, <2>2, <2>3, <2>4
<1> QED BY <1>1, <1>2, <1>3, <1>4, <1>5, <1>6, <1>7, <1>8, <1>9 DEF Create

LEMMA ZunDeleteType ==
    ASSUME TypeOK, NEW cs, ZunDelete(cs)
    PROVE  zun' \in [CapsuleId -> Capsule]
<1>1. \A c \in CapsuleId : [zun[c] EXCEPT !.status = "Deleting"] \in Capsule
    BY DEF TypeOK, Capsule, Status
<1> QED BY <1>1 DEF TypeOK, ZunDelete

LEMMA DeleteType ==
    ASSUME TypeOK, NEW k \in Key, Delete(k)
    PROVE  TypeOK'
<1> USE ProviderAssumption, EmptyTypes DEF TypeOK, outside
<1>1. CASE CallDeletePod(k)
    <2>1. [NoPod EXCEPT !.uid = pods[k].uid, !.phase = pods[k].phase,
                        !.addr = pods[k].addr] \in Pod
        BY DEF NoPod, Pod, Tracked
    <2>2. \A pod \in Pod : [op |-> "delete", pod |-> pod] \in CallState
        BY DEF CallState
    <2>3. PICK pod \in Pod : Call(k, "delete", pod)
        BY <1>1, <2>1 DEF CallDeletePod
    <2>4. worker' \in [Key -> CallState] /\ queue' \subseteq Key
        BY <2>2, <2>3 DEF Call
    <2> QED BY <1>1, <2>4 DEF CallDeletePod
<1>2. CASE CallNothing(k)
    BY <1>2 DEF CallNothing
<1>3. CASE DeleteUnserved(k)
    BY <1>3 DEF DeleteUnserved, Return
<1>4. CASE DeleteFails(k)
    BY <1>4 DEF DeleteFails, Return, Requeue
<1>5. CASE DeleteCapsule(k)
    <2>1. zun' \in [CapsuleId -> Capsule]
        BY <1>5, ZunDeleteType DEF DeleteCapsule
    <2> QED BY <1>5, <2>1 DEF DeleteCapsule, Goto, CallState
<1>6. CASE MarkDeleted(k)
    <2> DEFINE pod == worker[k].pod
               tracked == IF pods[k].uid # NoUID THEN pods[k]
                          ELSE [uid |-> pod.uid, phase |-> pod.phase, addr |-> pod.addr,
                                age |-> "settled"]
               terminated == [tracked EXCEPT !.phase = "Succeeded", !.age = "settled"]
    <2>1. tracked \in Tracked
        BY DEF CallState, Pod, Tracked
    <2>2. terminated \in Tracked /\ terminated.uid \in UID \cup {NoUID}
        BY <2>1 DEF Tracked, Phase
    <2>3. /\ notify(k, terminated)
          /\ pods' = [pods EXCEPT ![k] = terminated]
          /\ deleted' = [deleted EXCEPT ![k] = terminated.uid]
          /\ worker' = [worker EXCEPT ![k] = Idle]
          /\ UNCHANGED <<outside, queue, zun, made, sync, sweep, faults>>
        BY <1>6 DEF MarkDeleted, Return
    <2>4. api' \in [Key -> Pod]
        BY <2>2, <2>3, NotifyType
    <2> HIDE DEF terminated
    <2> QED BY <2>2, <2>3, <2>4
<1> QED BY <1>1, <1>2, <1>3, <1>4, <1>5, <1>6 DEF Delete

(* The state of a cycle that ends when nothing is left to do.              *)
LEMMA EndIfDoneType ==
    ASSUME NEW s \in SyncState PROVE EndIfDone(s) \in SyncState
BY EmptyTypes DEF EndIfDone

(* A set of capsules that is not empty has a newest member.                *)
LEMMA NewestExists ==
    ASSUME NEW N \in Nat, NEW T \in SUBSET (1..N), T # {}
    PROVE  \E x \in T : \A y \in T : y <= x
<1> DEFINE M == {N - c : c \in T}
           R == OpToRel(<, Nat)
<1>1. M \subseteq Nat /\ M # {}
    <2>1. \A c \in T : N - c \in Nat
        OBVIOUS
    <2>2. PICK c \in T : TRUE
        OBVIOUS
    <2>3. N - c \in M
        BY <2>2
    <2> QED BY <2>1, <2>3
<1>2. IsWellFoundedOn(R, Nat)
    BY NatLessThanWellFounded
<1>3. PICK m \in M : \A n \in M : ~ (<<n, m>> \in R)
    <2> HIDE DEF M, R
    <2> QED BY <1>1, <1>2, WFMin
<1>4. \A n \in M : ~ (n < m)
    BY <1>1, <1>3 DEF OpToRel
<1>5. PICK x \in T : m = N - x
    OBVIOUS
<1>6. \A y \in T : ~ (N - y < N - x)
    BY <1>4, <1>5
<1> QED BY <1>6

LEMMA ListManagedType ==
    ASSUME TypeOK, NEW k \in Key PROVE ListManaged(k) \in Listing
<1> DEFINE all == ListManagedAll(k)
           newest == CHOOSE c \in all : \A d \in all : d <= c
<1>1. CASE all = {}
    BY <1>1, EmptyTypes DEF ListManaged
<1>2. CASE all # {}
    <2>1. ListManaged(k) = [id |-> newest, status |-> zun[newest].status]
        BY <1>2 DEF ListManaged
    <2>2. all \in SUBSET (1..MaxCapsules) /\ MaxCapsules \in Nat
        BY ProviderAssumption DEF ListManagedAll, CapsuleId
    <2>3. newest \in all
        <3> HIDE DEF all
        <3> QED BY <1>2, <2>2, NewestExists
    <2>4. newest \in CapsuleId
        BY <2>2, <2>3 DEF CapsuleId
    <2>5. newest \in 0..MaxCapsules /\ zun[newest].status \in Status
        <3> HIDE DEF newest
        <3> QED BY <2>4, ProviderAssumption DEF TypeOK, Capsule, CapsuleId
    <2> HIDE DEF newest
    <2> QED BY <2>1, <2>5 DEF Listing
<1> QED BY <1>1, <1>2

LEMMA PhaseOfType == \A status : PhaseOf(status) \in Phase
BY DEF PhaseOf, Phase

LEMMA UpdateStatusType ==
    ASSUME TypeOK, NEW k \in Key, NEW phase \in Phase, NEW addr \in 0..MaxCapsules,
           updateStatus(k, phase, addr)
    PROVE  api' \in [Key -> Pod] /\ pods' \in [Key -> Tracked]
<1> DEFINE current == pods[k]
           age == IF Terminal(phase) /\ isTerminal(current) THEN current.age
                  ELSE IF Terminal(phase) \/ current.age = "expired" THEN "settled"
                  ELSE current.age
           updated == [current EXCEPT !.phase = phase, !.addr = addr, !.age = age]
<1>1. current \in Tracked
    BY DEF TypeOK
<1>2. age \in {"fresh", "settled", "expired"}
    BY <1>1 DEF Tracked
<1>3. updated \in Tracked
    <2> HIDE DEF age, current
    <2> QED BY <1>1, <1>2 DEF Tracked
<1>4. \/ UNCHANGED <<pods, api>>
      \/ pods' = [pods EXCEPT ![k] = updated] /\ notify(k, updated)
    BY DEF updateStatus
<1> HIDE DEF updated
<1>5. CASE UNCHANGED <<pods, api>>
    BY <1>5 DEF TypeOK
<1>6. CASE pods' = [pods EXCEPT ![k] = updated] /\ notify(k, updated)
    BY <1>3, <1>6, NotifyType DEF TypeOK
<1> QED BY <1>4, <1>5, <1>6

LEMMA JudgedType ==
    ASSUME TypeOK, NEW k \in Key, Judged(k)
    PROVE  sync' \in SyncState
<1>1. [sync EXCEPT !.snap[k] = Untracked, !.managed[k] = NotListed] \in SyncState
    BY EmptyTypes DEF TypeOK, SyncState
<1> QED BY <1>1, EndIfDoneType DEF Judged

LEMMA JudgeType ==
    ASSUME TypeOK, NEW k \in Key, Judge(k)
    PROVE  TypeOK'
<1> USE DEF outside
<1>1. sync' \in SyncState
    BY JudgedType
    DEF Judge, JudgeSkips, reclaimFinished, JudgeDrops, JudgeMissing, JudgeReports
<1>2. pods[k].addr \in 0..MaxCapsules /\ sync.managed[k].id \in 0..MaxCapsules
    BY DEF TypeOK, Tracked, SyncState, Listing
<1>3. "Failed" \in Phase
    BY DEF Phase
<1>4. CASE JudgeSkips(k)
    BY <1>1, <1>4 DEF JudgeSkips, TypeOK
<1>5. CASE reclaimFinished(k)
    <2>1. zun' \in [CapsuleId -> Capsule]
        BY <1>5, ZunDeleteType DEF reclaimFinished, TypeOK
    <2> QED BY <1>1, <1>5, <2>1 DEF reclaimFinished, TypeOK
<1>6. CASE JudgeDrops(k)
    BY <1>1, <1>6, EmptyTypes DEF JudgeDrops, TypeOK
<1>7. CASE JudgeMissing(k)
    <2>1. api' \in [Key -> Pod] /\ pods' \in [Key -> Tracked]
        BY <1>2, <1>3, <1>7, UpdateStatusType DEF JudgeMissing, TypeOK
    <2> QED BY <1>1, <1>7, <2>1 DEF JudgeMissing, TypeOK
<1>8. CASE JudgeReports(k)
    <2>1. PICK phase \in Phase, addr \in 0..MaxCapsules : updateStatus(k, phase, addr)
        BY <1>2, <1>3, <1>8, PhaseOfType DEF JudgeReports
    <2>2. api' \in [Key -> Pod] /\ pods' \in [Key -> Tracked]
        BY <2>1, UpdateStatusType
    <2> QED BY <1>1, <1>8, <2>2 DEF JudgeReports, TypeOK
<1> QED BY <1>4, <1>5, <1>6, <1>7, <1>8 DEF Judge

LEMMA SyncType ==
    ASSUME TypeOK, Sync
    PROVE  TypeOK'
<1> USE DEF outside
<1>1. CASE SyncSnapshot
    <2>1. [IdleSync EXCEPT !.todo = served, !.snap = pods] \in SyncState
        BY EmptyTypes DEF TypeOK, SyncState
    <2> QED BY <1>1, <2>1 DEF SyncSnapshot, TypeOK
<1>2. ASSUME NEW t \in Tenant, SyncListTenant(t) PROVE TypeOK'
    <2> DEFINE managed == [k \in Key |-> IF TenantOf[k] = t /\ k \in Snapped
                                         THEN ListManaged(k) ELSE sync.managed[k]]
               s == [sync EXCEPT !.todo = @ \ {t}, !.covered = @ \cup {t},
                                 !.managed = managed]
    <2>1. managed \in [Key -> Listing]
        BY ListManagedType DEF TypeOK, SyncState
    <2>2. s \in SyncState
        <3> HIDE DEF managed
        <3> QED BY <2>1 DEF TypeOK, SyncState
    <2>3. sync' = EndIfDone(s)
        BY <1>2 DEF SyncListTenant
    <2>4. sync' \in SyncState
        <3> HIDE DEF s
        <3> QED BY <2>2, <2>3, EndIfDoneType
    <2> QED BY <1>2, <2>4 DEF SyncListTenant, TypeOK
<1>3. ASSUME NEW t \in Tenant, SyncSkipTenant(t) PROVE TypeOK'
    <2>1. [sync EXCEPT !.todo = @ \ {t}] \in SyncState
        BY DEF TypeOK, SyncState
    <2>2. sync' \in SyncState
        BY <1>3, <2>1, EndIfDoneType DEF SyncSkipTenant
    <2> QED BY <1>3, <2>2 DEF SyncSkipTenant, TypeOK
<1>4. ASSUME NEW t \in Tenant, SyncListFails(t) PROVE TypeOK'
    BY <1>4, EmptyTypes DEF SyncListFails, TypeOK
<1>5. ASSUME NEW k \in Key, Judge(k) PROVE TypeOK'
    BY <1>5, JudgeType
<1> QED BY <1>1, <1>2, <1>3, <1>4, <1>5 DEF Sync

LEMMA SweepType ==
    ASSUME TypeOK, Sweeping
    PROVE  TypeOK'
<1> USE DEF outside
<1>1. ASSUME NEW t \in Tenant, SweepList(t) PROVE TypeOK'
    <2>1. sweep' \in SweepState
        BY <1>1 DEF SweepList, ListManagedAll, TypeOK, SweepState
    <2> QED BY <1>1, <2>1 DEF SweepList, TypeOK
<1>2. ASSUME NEW k \in Key, SweepJudge(k) PROVE TypeOK'
    <2>1. sweep' \in SweepState
        BY <1>2 DEF SweepJudge, orphansAmong, TypeOK, SweepState
    <2> QED BY <1>2, <2>1 DEF SweepJudge, TypeOK
<1>3. ASSUME NEW c \in CapsuleId, SweepDelete(c) PROVE TypeOK'
    <2>1. zun' \in [CapsuleId -> Capsule]
        BY <1>3, ZunDeleteType DEF SweepDelete, TypeOK
    <2>2. sweep' \in SweepState
        BY <1>3 DEF SweepDelete, TypeOK, SweepState
    <2> QED BY <1>3, <2>1, <2>2 DEF SweepDelete, TypeOK
<1> QED BY <1>1, <1>2, <1>3 DEF Sweeping

LEMMA ViewType == ASSUME TypeOK, NEW k \in Key PROVE View(k) \in Pod
BY EmptyTypes DEF View, TypeOK

LEMMA SetCapsuleType ==
    ASSUME TypeOK, NEW c \in CapsuleId, NEW status \in Status,
           NEW age \in {"hidden", "young", "old", "stuck"}, SetCapsule(c, status, age)
    PROVE  TypeOK'
<1>1. zun' \in [CapsuleId -> Capsule]
    BY DEF SetCapsule, TypeOK, Capsule
<1> QED BY <1>1 DEF SetCapsule, TypeOK, outside

LEMMA EnvironmentType ==
    ASSUME TypeOK, Environment
    PROVE  TypeOK'
<1> USE ProviderAssumption DEF outside
<1>1. ASSUME NEW u \in UID, AddPod(u) PROVE TypeOK'
    <2>1. [NoPod EXCEPT !.uid = u] \in Pod
        BY EmptyTypes DEF Pod
    <2>2. api' = [api EXCEPT ![PodKey[u]] = [NoPod EXCEPT !.uid = u]]
        BY <1>1 DEF AddPod
    <2>3. api' \in [Key -> Pod]
        BY <2>1, <2>2 DEF TypeOK
    <2> QED BY <1>1, <2>3 DEF AddPod, TypeOK
<1>2. ASSUME NEW u \in UID, CreateElsewhere(u) PROVE TypeOK'
    BY <1>2, ZunCreateType DEF CreateElsewhere, TypeOK
<1>3. ASSUME NEW k \in Key, RequestDeletion(k) PROVE TypeOK'
    <2>1. api' \in [Key -> Pod]
        <3> DEFINE pod == api[k]
        <3>a. pod \in Pod
            BY DEF TypeOK
        <3>b. TRUE \in BOOLEAN
            OBVIOUS
        <3>1. [pod EXCEPT !.deleting = TRUE] \in Pod
            <4> HIDE DEF pod
            <4> QED BY <3>a, <3>b, Zenon DEF Pod
        <3>2. api' = [api EXCEPT ![k] = [api[k] EXCEPT !.deleting = TRUE]]
            BY <1>3 DEF RequestDeletion
        <3> QED BY <3>1, <3>2 DEF TypeOK
    <2> QED BY <1>3, <2>1 DEF RequestDeletion, TypeOK
<1>4. ASSUME NEW k \in Key, RemoveByForce(k) \/ RemoveFinished(k) PROVE TypeOK'
    BY <1>4, EmptyTypes DEF RemoveByForce, RemoveFinished, TypeOK
<1>5. ASSUME NEW k \in Key, CacheUpdate(k) PROVE TypeOK'
    BY <1>5, ViewType DEF CacheUpdate, TypeOK
<1>6. ASSUME NEW k \in Key, AgePod(k) PROVE TypeOK'
    <2>1. pods' \in [Key -> Tracked]
        <3>1. /\ pods[k] \in Tracked
              /\ [pods[k] EXCEPT !.age = "settled"] \in Tracked
              /\ [pods[k] EXCEPT !.age = "expired"] \in Tracked
            <4>1. pods[k] \in Tracked
                BY DEF TypeOK
            <4> QED BY <4>1 DEF Tracked
        <3>2. \/ pods' = [pods EXCEPT ![k] = [pods[k] EXCEPT !.age = "settled"]]
              \/ pods' = [pods EXCEPT ![k] = [pods[k] EXCEPT !.age = "expired"]]
            BY <1>6 DEF AgePod
        <3> QED BY <3>1, <3>2 DEF TypeOK
    <2> QED BY <1>6, <2>1 DEF AgePod, TypeOK
<1>7. ASSUME NEW t \in Tenant, StopServing(t) PROVE TypeOK'
    BY <1>7 DEF StopServing, TypeOK
<1>8. ASSUME NEW c \in CapsuleId,
             ZunBuilds(c) \/ ZunReports(c) \/ ZunRemoves(c) \/ ZunLoses(c) \/ AgeCapsule(c)
      PROVE  TypeOK'
    <2>1. zun[c].status \in Status /\ zun[c].age \in {"hidden", "young", "old", "stuck"}
        BY DEF TypeOK, Capsule
    <2>2. Reported \subseteq Status /\ "Gone" \in Status
        BY DEF Status
    <2>3. Older(zun[c].age) \in {"hidden", "young", "old", "stuck"}
        BY <2>1 DEF Older
    <2>4. PICK status \in Status, age \in {"hidden", "young", "old", "stuck"} :
             SetCapsule(c, status, age)
        BY <1>8, <2>1, <2>2, <2>3
        DEF ZunBuilds, ZunReports, ZunRemoves, ZunLoses, AgeCapsule
    <2> QED BY <2>4, SetCapsuleType
<1>9. CASE CacheList
    BY <1>9, ViewType DEF CacheList, TypeOK
<1>10. CASE Crash
    <2>1. faults' \in 0..MaxFaults
        BY <1>10 DEF Crash, Fault, TypeOK
    <2> QED BY <1>10, <2>1, EmptyTypes DEF Crash, TypeOK
<1> QED BY <1>1, <1>2, <1>3, <1>4, <1>5, <1>6, <1>7, <1>8, <1>9, <1>10 DEF Environment

LEMMA NextType == TypeOK /\ [Next]_vars => TypeOK'
<1> SUFFICES ASSUME TypeOK, [Next]_vars PROVE TypeOK'
    OBVIOUS
<1>1. CASE UNCHANGED vars
    BY <1>1 DEF vars, outside, TypeOK
<1>2. CASE Next
    BY <1>2, CreateType, DeleteType, SyncType, SweepType, EnvironmentType DEF Next
<1> QED BY <1>1, <1>2

(* Every variable keeps its type in every behaviour of the provider, for   *)
(* any set of names, incarnations, tenants and capsules.                   *)
THEOREM TypeCorrect == Spec => []TypeOK
BY InitType, NextType, PTL DEF Spec

-----------------------------------------------------------------------------
(* Why the sweep spares the living. SweepSparesTheLiving is not inductive: *)
(* it says nothing of what the sweep will conclude from the cache. What    *)
(* makes its conclusion right is that the cache knows every pod that has a *)
(* capsule: a capsule is made for a pod the worker read from the cache,    *)
(* and the cache, once synced, only ever moves towards the API server.     *)

(* Capsules are made in order, each for an incarnation that has existed.   *)
CapsulesInOrder ==
    \A c \in CapsuleId : IF c <= made THEN zun[c].uid \in used
                         ELSE zun[c] = Unmade

(* A pod is found under its own name, and only once it has existed.        *)
PodsInPlace ==
    \A k \in Key :
        /\ api[k].uid # NoUID => api[k].uid \in used /\ PodKey[api[k].uid] = k
        /\ cache[k].uid # NoUID => /\ cache[k].uid \in used \ Elsewhere
                                   /\ PodKey[cache[k].uid] = k

(* Until the cache has synced neither the worker nor the sweep runs.       *)
WaitsForCache ==
    ~ synced => sweep = IdleSweep /\ \A k \in Key : worker[k] = Idle

(* A pod being given a capsule is one the cache has shown: if it is still  *)
(* in the API server, the cache still shows it.                            *)
WorkerKnown ==
    \A k \in Key :
        LET u == worker[k].pod.uid IN
        worker[k].op \in {"check", "build", "track"} =>
            /\ u \in used \ Elsewhere /\ PodKey[u] = k
            /\ api[k].uid = u => cache[k].uid = u

(* So is a pod that has a capsule on this node.                            *)
CapsuleKnown ==
    \A c \in CapsuleId :
        LET u == zun[c].uid IN
        /\ synced /\ c <= made /\ u \notin Elsewhere
        /\ api[PodKey[u]].uid = u
        => cache[PodKey[u]].uid = u

SweepListsMade == sweep.listed \cup sweep.doomed \subseteq 1..made

SweepInv == /\ TypeOK /\ CapsulesInOrder /\ PodsInPlace /\ WaitsForCache
            /\ WorkerKnown /\ CapsuleKnown /\ SweepListsMade
            /\ SweepSparesTheLiving

Creating == {"check", "build", "track"}

(* A step that leaves the identities alone: of pods, of capsules, and of   *)
(* the pods that calls in progress are creating, except that a call may    *)
(* begin with the pod that the cache shows.                                *)
QuietStep ==
    /\ \A k \in Key : api'[k].uid = api[k].uid
    /\ UNCHANGED <<used, cache, synced, made, sweep>>
    /\ \A c \in CapsuleId : zun'[c].uid = zun[c].uid /\ (c > made => zun'[c] = zun[c])
    /\ \A k \in Key :
         \/ worker'[k] = worker[k]
         \/ worker'[k] = Idle
         \/ /\ worker[k].op # "idle" /\ worker'[k].pod = worker[k].pod
            /\ worker'[k].op \in Creating => worker[k].op \in Creating
         \/ /\ synced
            /\ worker'[k].op \in Creating =>
                 worker'[k].pod = cache[k] /\ cache[k].uid # NoUID

LEMMA InitSweepInv == Init => SweepInv
<1> SUFFICES ASSUME Init PROVE SweepInv
    OBVIOUS
<1>1. TypeOK
    BY InitType
<1>2. CapsulesInOrder
    <2>1. \A c \in CapsuleId : ~ (c <= 0)
        BY DEF CapsuleId
    <2> QED BY <2>1 DEF Init, CapsulesInOrder
<1>3. PodsInPlace
    BY DEF Init, PodsInPlace, NoPod
<1>4. WaitsForCache /\ WorkerKnown /\ CapsuleKnown
    BY DEF Init, WaitsForCache, WorkerKnown, CapsuleKnown, Idle
<1>5. SweepListsMade /\ SweepSparesTheLiving
    BY DEF Init, SweepListsMade, SweepSparesTheLiving, IdleSweep
<1> QED BY <1>1, <1>2, <1>3, <1>4, <1>5 DEF SweepInv

LEMMA QuietPreserves ==
    ASSUME SweepInv, TypeOK', QuietStep
    PROVE  SweepInv'
<1> USE DEF SweepInv
<1>1. CapsulesInOrder'
    <2> SUFFICES ASSUME NEW c \in CapsuleId
                 PROVE  IF c <= made THEN zun'[c].uid \in used ELSE zun'[c] = Unmade
        BY DEF QuietStep, CapsulesInOrder
    <2>1. c \in Int /\ made \in Int
        BY ProviderAssumption DEF CapsuleId, TypeOK
    <2> QED BY <2>1 DEF QuietStep, CapsulesInOrder
<1>2. PodsInPlace'
    BY DEF QuietStep, PodsInPlace
<1>3. WaitsForCache'
    BY DEF QuietStep, WaitsForCache, Idle
<1>4. WorkerKnown'
    <2> SUFFICES ASSUME NEW k \in Key, worker'[k].op \in Creating
                 PROVE  LET u == worker'[k].pod.uid IN
                        /\ u \in used \ Elsewhere /\ PodKey[u] = k
                        /\ api[k].uid = u => cache[k].uid = u
        BY DEF QuietStep, WorkerKnown, Creating
    <2>1. worker'[k] # Idle
        BY DEF Idle, Creating
    <2>2. CASE worker[k].op \in Creating /\ worker'[k].pod = worker[k].pod
        BY <2>2 DEF WorkerKnown, Creating
    <2>3. CASE worker'[k].pod = cache[k] /\ cache[k].uid # NoUID
        BY <2>3 DEF PodsInPlace
    <2> QED BY <2>1, <2>2, <2>3 DEF QuietStep
<1>5. CapsuleKnown'
    <2> SUFFICES ASSUME NEW c \in CapsuleId, synced, c <= made, zun[c].uid \notin Elsewhere,
                        api[PodKey[zun[c].uid]].uid = zun[c].uid
                 PROVE  cache[PodKey[zun[c].uid]].uid = zun[c].uid
        <3>1. \A c \in CapsuleId : c <= made => PodKey[zun[c].uid] \in Key
            BY ProviderAssumption DEF CapsulesInOrder, TypeOK
        <3> QED BY <3>1 DEF QuietStep, CapsuleKnown
    <2> QED BY DEF CapsuleKnown
<1>6. SweepListsMade'
    BY DEF QuietStep, SweepListsMade
<1>7. SweepSparesTheLiving'
    <2>1. \A c \in sweep.doomed : c \in CapsuleId /\ PodKey[zun[c].uid] \in Key
        <3>1. sweep.doomed \subseteq CapsuleId
            BY DEF TypeOK, SweepState
        <3>2. \A c \in sweep.doomed : c <= made
            BY DEF SweepListsMade, TypeOK
        <3> QED BY <3>1, <3>2, ProviderAssumption DEF CapsulesInOrder, TypeOK
    <2> QED BY <2>1 DEF QuietStep, SweepSparesTheLiving
<1> QED BY <1>1, <1>2, <1>3, <1>4, <1>5, <1>6, <1>7

(* The shapes of quiet steps: of the status, of the capsules, of a call.   *)

LEMMA NotifyQuiet ==
    ASSUME TypeOK, NEW k \in Key, NEW e, notify(k, e)
    PROVE  \A j \in Key : api'[j].uid = api[j].uid
BY DEF notify, TypeOK, Pod

LEMMA UpdateStatusQuiet ==
    ASSUME TypeOK, NEW k \in Key, NEW phase, NEW addr, updateStatus(k, phase, addr)
    PROVE  \A j \in Key : api'[j].uid = api[j].uid
BY NotifyQuiet DEF updateStatus

QuietZun ==
    \A c \in CapsuleId : zun'[c].uid = zun[c].uid /\ (c > made => zun'[c] = zun[c])

LEMMA ZunDeleteQuiet ==
    ASSUME SweepInv, NEW cs, ZunDelete(cs)
    PROVE  QuietZun
<1> SUFFICES ASSUME NEW c \in CapsuleId
             PROVE  zun'[c].uid = zun[c].uid /\ (c > made => zun'[c] = zun[c])
    BY DEF QuietZun
<1>1. zun[c] \in Capsule /\ (c > made => zun[c] = Unmade)
    <2>1. zun[c] \in Capsule /\ made \in Int /\ c \in Int
        BY ProviderAssumption DEF SweepInv, TypeOK, CapsuleId
    <2>2. IF c <= made THEN zun[c].uid \in used ELSE zun[c] = Unmade
        BY DEF SweepInv, CapsulesInOrder
    <2> QED BY <2>1, <2>2
<1>2. CASE c \in cs /\ Alive(c)
    <2>1. zun'[c] = [zun[c] EXCEPT !.status = "Deleting"]
        BY <1>2 DEF ZunDelete
    <2>2. zun[c] # Unmade
        BY <1>2 DEF Alive, Unmade
    <2> QED BY <1>1, <2>1, <2>2 DEF Capsule
<1>3. CASE ~ (c \in cs /\ Alive(c))
    BY <1>3 DEF ZunDelete
<1> QED BY <1>2, <1>3

LEMMA SetCapsuleQuiet ==
    ASSUME SweepInv, NEW c \in CapsuleId, zun[c].status # "Unmade", NEW status, NEW age,
           SetCapsule(c, status, age)
    PROVE  QuietStep
<1>1. zun[c] \in Capsule /\ ~ (c > made)
    BY ProviderAssumption DEF SweepInv, TypeOK, CapsulesInOrder, CapsuleId, Unmade
<1>2. zun' = [zun EXCEPT ![c].status = status, ![c].age = age] /\ zun \in [CapsuleId -> Capsule]
    BY DEF SetCapsule, SweepInv, TypeOK
<1>3. \A d \in CapsuleId : zun'[d].uid = zun[d].uid /\ (d # c => zun'[d] = zun[d])
    BY <1>2 DEF Capsule
<1> QED BY <1>1, <1>3 DEF SetCapsule, QuietStep, outside

LEMMA CreateQuiet ==
    ASSUME SweepInv, NEW k \in Key, Create(k)
    PROVE  \/ QuietStep
           \/ CreateCapsule(k)
           \/ CreateAnswerLost(k)
<1> USE DEF SweepInv, outside, Creating
<1>0. worker \in [Key -> CallState] /\ worker[k] \in CallState
    BY DEF TypeOK
<1>1. CASE CallCreatePod(k) \/ CallUpdatePod(k)
    <2>1. \/ UNCHANGED worker
          \/ /\ worker' = [worker EXCEPT ![k] = [op |-> "check", pod |-> cache[k]]]
             /\ synced /\ cache[k].uid # NoUID
        BY <1>1 DEF CallCreatePod, CallUpdatePod, CanWork, Wanted, Call
    <2>2. UNCHANGED <<outside, api, zun, made, sweep>>
        BY <1>1 DEF CallCreatePod, CallUpdatePod
    <2> QED BY <1>0, <2>1, <2>2 DEF QuietStep
<1>2. CASE CreateAdopts(k)
    BY <1>0, <1>2 DEF CreateAdopts, Return, QuietStep
<1>3. CASE CreateProceeds(k) \/ CreateListFails(k)
    <2>1. worker' = [worker EXCEPT ![k].op = "build"] /\ worker[k].op = "check"
        BY <1>3 DEF CreateProceeds, CreateListFails, Goto
    <2>2. \A j \in Key : worker'[j].pod = worker[j].pod /\ (j # k => worker'[j] = worker[j])
        BY <1>0, <2>1 DEF CallState
    <2>3. UNCHANGED <<outside, api, zun, made, sweep>>
        BY <1>3 DEF CreateProceeds, CreateListFails
    <2> QED BY <2>1, <2>2, <2>3 DEF QuietStep
<1>4. CASE CreateRefused(k)
    BY <1>0, <1>4 DEF CreateRefused, Return, QuietStep
<1>5. CASE trackPod(k)
    <2>1. \A j \in Key : api'[j].uid = api[j].uid
        BY <1>5, NotifyQuiet DEF trackPod
    <2>2. worker' = [worker EXCEPT ![k] = Idle] /\ UNCHANGED <<outside, zun, made, sweep>>
        BY <1>5 DEF trackPod, Return
    <2> QED BY <1>0, <2>1, <2>2 DEF QuietStep
<1> QED BY <1>1, <1>2, <1>3, <1>4, <1>5 DEF Create

LEMMA DeleteQuiet ==
    ASSUME SweepInv, NEW k \in Key, Delete(k)
    PROVE  QuietStep
<1> USE DEF SweepInv, outside, Creating
<1>0. worker \in [Key -> CallState] /\ worker[k] \in CallState
    BY DEF TypeOK
<1>1. CASE CallDeletePod(k)
    <2>1. PICK pod : worker' = [worker EXCEPT ![k] = [op |-> "delete", pod |-> pod]]
        BY <1>1 DEF CallDeletePod, Call
    <2>2. synced /\ UNCHANGED <<outside, api, zun, made, sweep>>
        BY <1>1 DEF CallDeletePod, CanWork
    <2> QED BY <1>0, <2>1, <2>2 DEF QuietStep
<1>2. CASE CallNothing(k)
    BY <1>2 DEF CallNothing, QuietStep
<1>3. CASE DeleteUnserved(k) \/ DeleteFails(k)
    BY <1>0, <1>3 DEF DeleteUnserved, DeleteFails, Return, QuietStep
<1>4. CASE DeleteCapsule(k)
    <2>1. QuietZun
        BY <1>4, ZunDeleteQuiet DEF DeleteCapsule, QuietZun
    <2>2. worker' = [worker EXCEPT ![k].op = "mark"] /\ worker[k].op = "delete"
        BY <1>4 DEF DeleteCapsule, Goto
    <2>3. \A j \in Key : /\ worker'[j].pod = worker[j].pod
                         /\ worker'[k].op = "mark"
                         /\ j # k => worker'[j] = worker[j]
        BY <1>0, <2>2 DEF CallState
    <2>4. UNCHANGED <<outside, api, made, sweep>>
        BY <1>4 DEF DeleteCapsule
    <2> QED BY <2>1, <2>2, <2>3, <2>4 DEF QuietStep, QuietZun
<1>5. CASE MarkDeleted(k)
    <2>1. \A j \in Key : api'[j].uid = api[j].uid
        BY <1>5, NotifyQuiet DEF MarkDeleted
    <2>2. worker' = [worker EXCEPT ![k] = Idle] /\ UNCHANGED <<outside, zun, made, sweep>>
        BY <1>5 DEF MarkDeleted, Return
    <2> QED BY <1>0, <2>1, <2>2 DEF QuietStep
<1> QED BY <1>1, <1>2, <1>3, <1>4, <1>5 DEF Delete

LEMMA SyncQuiet ==
    ASSUME SweepInv, Sync
    PROVE  QuietStep
<1> USE DEF SweepInv, outside
<1>1. CASE SyncSnapshot
    BY <1>1 DEF SyncSnapshot, QuietStep
<1>2. ASSUME NEW t \in Tenant, SyncListTenant(t) \/ SyncSkipTenant(t) \/ SyncListFails(t)
      PROVE  QuietStep
    BY <1>2 DEF SyncListTenant, SyncSkipTenant, SyncListFails, QuietStep
<1>3. ASSUME NEW k \in Key, Judge(k) PROVE QuietStep
    <2>1. UNCHANGED <<outside, made, worker, sweep>>
        BY <1>3 DEF Judge, JudgeSkips, reclaimFinished, JudgeDrops, JudgeMissing, JudgeReports
    <2>2. QuietZun
        BY <1>3, ZunDeleteQuiet
        DEF Judge, JudgeSkips, reclaimFinished, JudgeDrops, JudgeMissing, JudgeReports, QuietZun
    <2>3. UNCHANGED api \/ \E phase, addr : updateStatus(k, phase, addr)
        BY <1>3
        DEF Judge, JudgeSkips, reclaimFinished, JudgeDrops, JudgeMissing, JudgeReports
    <2>4. \A j \in Key : api'[j].uid = api[j].uid
        BY <2>3, UpdateStatusQuiet
    <2> QED BY <2>1, <2>2, <2>4 DEF QuietStep, QuietZun
<1> QED BY <1>1, <1>2, <1>3 DEF Sync

(* What a capsule in the order says of its pod.                            *)
LEMMA CapsuleFacts ==
    ASSUME SweepInv
    PROVE  /\ made \in Nat
           /\ CapsuleId \subseteq Nat
           /\ \A c \in CapsuleId : c <= made => zun[c].uid \in used /\ zun[c].uid \in UID
           /\ \A c \in CapsuleId : c <= made => PodKey[zun[c].uid] \in Key
           /\ sweep.listed \subseteq CapsuleId /\ sweep.doomed \subseteq CapsuleId
           /\ \A c \in sweep.listed \cup sweep.doomed : c <= made
BY ProviderAssumption
DEF SweepInv, TypeOK, CapsulesInOrder, SweepListsMade, SweepState, CapsuleId

(* A new capsule: for a pod the cache knows, or for another node's.        *)
LEMMA ZunCreatePreserves ==
    ASSUME SweepInv, TypeOK', NEW u \in used, ZunCreate(u),
           UNCHANGED <<outside, api, sweep>>,
           u \in Elsewhere \/ (api[PodKey[u]].uid = u => cache[PodKey[u]].uid = u),
           \A k \in Key : \/ worker'[k] = worker[k]
                          \/ worker'[k] = Idle
                          \/ /\ worker'[k].pod = worker[k].pod
                             /\ worker[k].op \in Creating
    PROVE  SweepInv'
<1> USE DEF SweepInv, outside
<1>0. /\ made + 1 \in CapsuleId /\ made' = made + 1 /\ made \in Nat
      /\ CapsuleId \subseteq Nat
      /\ zun' = [zun EXCEPT ![made + 1] =
                   [uid |-> u, status |-> "Creating", age |-> "hidden"]]
    BY ZunCreateType, CapsuleFacts DEF ZunCreate, TypeOK
<1>1. \A c \in CapsuleId : c # made + 1 => zun'[c] = zun[c]
    BY <1>0 DEF TypeOK
<1>2. zun'[made + 1].uid = u
    BY <1>0 DEF TypeOK
<1>3. CapsulesInOrder'
    <2>1. ASSUME NEW c \in CapsuleId, c # made + 1
          PROVE  IF c <= made + 1 THEN zun'[c].uid \in used ELSE zun'[c] = Unmade
        <3>1. c \in Nat
            BY <1>0
        <3> QED BY <1>0, <1>1, <2>1, <3>1 DEF CapsulesInOrder
    <2> QED BY <1>0, <1>2, <2>1 DEF CapsulesInOrder
<1>4. PodsInPlace'
    BY DEF PodsInPlace
<1>5. WaitsForCache'
    BY DEF WaitsForCache, Idle, Creating
<1>6. WorkerKnown'
    BY DEF WorkerKnown, Idle, Creating
<1>7. CapsuleKnown'
    <2> SUFFICES ASSUME NEW c \in CapsuleId, synced, c <= made + 1, zun'[c].uid \notin Elsewhere,
                        api[PodKey[zun'[c].uid]].uid = zun'[c].uid
                 PROVE  cache[PodKey[zun'[c].uid]].uid = zun'[c].uid
        BY <1>0 DEF CapsuleKnown
    <2>1. CASE c = made + 1
        BY <1>2, <2>1
    <2>2. CASE c # made + 1
        BY <1>0, <1>1, <2>2 DEF CapsuleKnown
    <2> QED BY <2>1, <2>2
<1>8. SweepListsMade'
    BY <1>0 DEF SweepListsMade
<1>9. SweepSparesTheLiving'
    <2>1. \A c \in sweep.doomed : c \in CapsuleId /\ c # made + 1
        BY <1>0, CapsuleFacts
    <2>2. \A d \in CapsuleId : \A c \in sweep.doomed :
             zun[d].uid = zun[c].uid => d # made + 1
        <3>1. zun[made + 1].uid = NoUID
            BY <1>0 DEF CapsulesInOrder, Unmade
        <3>2. \A c \in sweep.doomed : zun[c].uid \in UID
            BY CapsuleFacts
        <3> QED BY <3>1, <3>2, ProviderAssumption
    <2> QED BY <1>1, <2>1, <2>2 DEF SweepSparesTheLiving
<1> QED BY <1>3, <1>4, <1>5, <1>6, <1>7, <1>8, <1>9

LEMMA CreatePreserves ==
    ASSUME SweepInv, TypeOK', NEW k \in Key, CreateCapsule(k) \/ CreateAnswerLost(k)
    PROVE  SweepInv'
<1> DEFINE u == worker[k].pod.uid
<1>1. worker[k].op = "build" /\ ZunCreate(u) /\ UNCHANGED <<outside, api, sweep>>
    BY DEF CreateCapsule, CreateAnswerLost
<1>2. u \in used /\ PodKey[u] = k /\ (api[k].uid = u => cache[k].uid = u)
    BY <1>1 DEF SweepInv, WorkerKnown
<1>3. worker \in [Key -> CallState]
    BY DEF SweepInv, TypeOK
<1>4. \A j \in Key : \/ worker'[j] = worker[j]
                     \/ worker'[j] = Idle
                     \/ /\ worker'[j].pod = worker[j].pod
                        /\ worker[j].op \in Creating
    <2>1. CASE worker' = [worker EXCEPT ![k].op = "track"]
        BY <1>1, <1>3, <2>1 DEF CallState, Creating
    <2>2. CASE worker' = [worker EXCEPT ![k] = Idle]
        BY <1>3, <2>2
    <2> QED BY <2>1, <2>2 DEF CreateCapsule, CreateAnswerLost, Goto, Return
<1> HIDE DEF u
<1> QED BY <1>1, <1>2, <1>4, ZunCreatePreserves

(* The sweep itself: what it condemns, the cache does not show, or shows   *)
(* with a newer capsule.                                                   *)
LEMMA SweepPreserves ==
    ASSUME SweepInv, TypeOK', Sweeping
    PROVE  SweepInv'
<1> USE DEF SweepInv, outside
<1>1. ASSUME NEW t \in Tenant, SweepList(t) PROVE SweepInv'
    <2>1. /\ UNCHANGED <<outside, api, zun, made, worker>> /\ synced
          /\ sweep'.doomed = {}
          /\ sweep'.listed \subseteq {c \in CapsuleId : Listable(c)}
        <3> DEFINE found == UNION {ListManagedAll(k) : k \in {j \in Key : TenantOf[j] = t}}
        <3>1. found \subseteq {c \in CapsuleId : Listable(c)}
            BY DEF ListManagedAll
        <3>2. sweep = IdleSweep /\ sweep' = [sweep EXCEPT !.listed = found]
            BY <1>1 DEF SweepList, SweepIdle
        <3>3. UNCHANGED <<outside, api, zun, made, worker>> /\ synced
            BY <1>1 DEF SweepList
        <3> HIDE DEF found
        <3>4. sweep'.doomed = {} /\ sweep'.listed = found
            BY <3>2 DEF IdleSweep
        <3> QED BY <3>1, <3>3, <3>4
    <2>2. \A c \in CapsuleId : Listable(c) => c <= made
        BY CapsuleFacts DEF Listable, Alive, CapsulesInOrder, Unmade
    <2>3. SweepListsMade'
        BY <2>1, <2>2, CapsuleFacts DEF SweepListsMade, CapsuleId
    <2>4. WaitsForCache'
        BY <2>1 DEF WaitsForCache
    <2>5. SweepSparesTheLiving'
        BY <2>1 DEF SweepSparesTheLiving
    <2> QED BY <2>1, <2>3, <2>4, <2>5
            DEF CapsulesInOrder, PodsInPlace, WorkerKnown, CapsuleKnown
<1>2. ASSUME NEW k \in Key, SweepJudge(k) PROVE SweepInv'
    <2> DEFINE capsules == {c \in sweep.listed : PodKey[zun[c].uid] = k}
    <2>1. /\ UNCHANGED <<outside, api, zun, made, worker>>
          /\ sweep'.listed \subseteq sweep.listed
          /\ sweep'.doomed = orphansAmong(k, capsules)
          /\ capsules # {}
        BY <1>2 DEF SweepJudge
    <2>2. synced
        BY <2>1 DEF WaitsForCache, IdleSweep
    <2>3. sweep'.doomed \subseteq capsules
        BY <2>1 DEF orphansAmong
    <2>4. SweepListsMade'
        BY <2>1, <2>3 DEF SweepListsMade
    <2>5. WaitsForCache'
        BY <2>1, <2>2 DEF WaitsForCache
    <2>6. ASSUME NEW c \in sweep'.doomed
          PROVE  /\ zun[c].uid \notin Elsewhere
                 /\ api[PodKey[zun[c].uid]].uid = zun[c].uid =>
                      \E d \in CapsuleId : d > c /\ zun[d].uid = zun[c].uid
        <3>1. c \in sweep.listed /\ PodKey[zun[c].uid] = k
            BY <2>3
        <3>2. zun[c].uid \notin Elsewhere
            BY <2>1 DEF orphansAmong
        <3>3. ASSUME api[k].uid = zun[c].uid
              PROVE  \E d \in CapsuleId : d > c /\ zun[d].uid = zun[c].uid
            <4>1. c \in CapsuleId /\ c <= made
                BY <3>1, CapsuleFacts
            <4>2. cache[k].uid = zun[c].uid
                BY <2>2, <3>1, <3>2, <3>3, <4>1 DEF CapsuleKnown
            <4>3. PICK d \in capsules : zun[d].uid = cache[k].uid /\ ~ (d <= c)
                BY <2>1, <3>1, <3>2, <4>2 DEF orphansAmong
            <4>4. d \in CapsuleId /\ d > c
                BY <4>1, <4>3, CapsuleFacts
            <4> QED BY <4>2, <4>3, <4>4
        <3> QED BY <3>1, <3>2, <3>3
    <2>7. SweepSparesTheLiving'
        BY <2>1, <2>6 DEF SweepSparesTheLiving
    <2> QED BY <2>1, <2>4, <2>5, <2>7
            DEF CapsulesInOrder, PodsInPlace, WorkerKnown, CapsuleKnown
<1>3. ASSUME NEW c \in CapsuleId, SweepDelete(c) PROVE SweepInv'
    <2>1. /\ UNCHANGED <<outside, api, made, worker>>
          /\ sweep'.listed = sweep.listed /\ sweep'.doomed \subseteq sweep.doomed
          /\ c \in sweep.doomed
        BY <1>3 DEF SweepDelete, TypeOK, SweepState
    <2>2. QuietZun
        BY <1>3, ZunDeleteQuiet DEF SweepDelete, QuietZun
    <2>3. CapsulesInOrder'
        BY <2>1, <2>2, CapsuleFacts DEF CapsulesInOrder, QuietZun
    <2>4. synced
        BY <2>1 DEF WaitsForCache, IdleSweep
    <2>5. CapsuleKnown'
        BY <2>1, <2>2, CapsuleFacts DEF CapsuleKnown, QuietZun
    <2>6. SweepSparesTheLiving'
        BY <2>1, <2>2, CapsuleFacts DEF SweepSparesTheLiving, QuietZun
    <2> QED BY <2>1, <2>3, <2>4, <2>5, <2>6
            DEF PodsInPlace, WaitsForCache, WorkerKnown, SweepListsMade
<1> QED BY <1>1, <1>2, <1>3 DEF Sweeping

(* The environment: pods come and go, the cache follows, the process dies. *)
LEMMA EnvironmentPreserves ==
    ASSUME SweepInv, TypeOK', Environment
    PROVE  SweepInv'
<1> USE ProviderAssumption DEF SweepInv, outside
<1>1. ASSUME NEW u \in UID, AddPod(u) PROVE SweepInv'
    <2>1. /\ u \notin used /\ used' = used \cup {u}
          /\ UNCHANGED <<cache, synced, zun, made, worker, sweep>>
          /\ api' = [api EXCEPT ![PodKey[u]] = [NoPod EXCEPT !.uid = u]]
        BY <1>1 DEF AddPod
    <2>2. \A k \in Key : IF k = PodKey[u] THEN api'[k].uid = u ELSE api'[k] = api[k]
        BY <2>1 DEF TypeOK, NoPod
    <2>3. CapsulesInOrder'
        BY <2>1 DEF CapsulesInOrder
    <2>4. PodsInPlace'
        BY <2>1, <2>2 DEF PodsInPlace
    <2>5. WaitsForCache'
        BY <2>1 DEF WaitsForCache
    <2>6. WorkerKnown'
        BY <2>1, <2>2 DEF WorkerKnown
    <2>7. CapsuleKnown'
        BY <2>1, <2>2, CapsuleFacts DEF CapsuleKnown
    <2>8. SweepSparesTheLiving'
        BY <2>1, <2>2, CapsuleFacts DEF SweepSparesTheLiving
    <2> QED BY <2>1, <2>3, <2>4, <2>5, <2>6, <2>7, <2>8 DEF SweepListsMade
<1>2. ASSUME NEW u \in UID, CreateElsewhere(u) PROVE SweepInv'
    <2>1. /\ u \in used /\ u \in Elsewhere /\ ZunCreate(u)
          /\ UNCHANGED <<outside, api, sweep, worker>>
        BY <1>2 DEF CreateElsewhere
    <2> QED BY <2>1, ZunCreatePreserves
<1>3. ASSUME NEW k \in Key, RequestDeletion(k) PROVE SweepInv'
    <2>1. \A j \in Key : api'[j].uid = api[j].uid
        BY <1>3 DEF RequestDeletion, TypeOK, Pod
    <2>2. QuietStep
        BY <1>3, <2>1 DEF RequestDeletion, QuietStep
    <2> QED BY <2>2, QuietPreserves
<1>4. ASSUME NEW k \in Key, RemoveByForce(k) \/ RemoveFinished(k) PROVE SweepInv'
    <2>1. /\ api' = [api EXCEPT ![k] = NoPod]
          /\ UNCHANGED <<used, cache, synced, zun, made, worker, sweep>>
        BY <1>4 DEF RemoveByForce, RemoveFinished
    <2>2. \A j \in Key : IF j = k THEN api'[j].uid = NoUID ELSE api'[j] = api[j]
        BY <2>1 DEF TypeOK, NoPod
    <2>3. PodsInPlace'
        BY <2>1, <2>2 DEF PodsInPlace
    <2>4. WorkerKnown'
        <3>1. ASSUME NEW j \in Key, worker[j].op \in Creating
              PROVE  worker[j].pod.uid # NoUID
            BY <3>1 DEF WorkerKnown, Creating, TypeOK
        <3> QED BY <2>1, <2>2, <3>1 DEF WorkerKnown, Creating
    <2>5. CapsuleKnown'
        BY <2>1, <2>2, CapsuleFacts DEF CapsuleKnown
    <2>6. SweepSparesTheLiving'
        BY <2>1, <2>2, CapsuleFacts DEF SweepSparesTheLiving
    <2> QED BY <2>1, <2>3, <2>4, <2>5, <2>6
            DEF CapsulesInOrder, WaitsForCache, SweepListsMade
<1>5. ASSUME NEW k \in Key, CacheUpdate(k) PROVE SweepInv'
    <2>1. /\ cache' = [cache EXCEPT ![k] = View(k)] /\ synced
          /\ UNCHANGED <<used, synced, api, zun, made, worker, sweep>>
        BY <1>5 DEF CacheUpdate
    <2>2. \A j \in Key : IF j = k THEN cache'[j] = View(j) ELSE cache'[j] = cache[j]
        BY <2>1 DEF TypeOK
    <2>3. PodsInPlace'
        <3>1. View(k).uid = NoUID \/ (View(k).uid = api[k].uid /\ api[k].uid \notin Elsewhere)
            BY DEF View, NoPod
        <3>2. ASSUME NEW j \in Key, cache'[j].uid # NoUID
              PROVE  cache'[j].uid \in used \ Elsewhere /\ PodKey[cache'[j].uid] = j
            <4>1. CASE j = k
                BY <2>2, <3>1, <3>2, <4>1 DEF PodsInPlace
            <4>2. CASE j # k
                BY <2>2, <3>2, <4>2 DEF PodsInPlace
            <4> QED BY <4>1, <4>2
        <3> QED BY <2>1, <3>2 DEF PodsInPlace
    <2>4. WorkerKnown'
        BY <2>1, <2>2 DEF WorkerKnown, View
    <2>5. CapsuleKnown'
        BY <2>1, <2>2, CapsuleFacts DEF CapsuleKnown, View
    <2> QED BY <2>1, <2>3, <2>4, <2>5
            DEF CapsulesInOrder, WaitsForCache, SweepListsMade, SweepSparesTheLiving
<1>6. ASSUME NEW k \in Key, AgePod(k) PROVE SweepInv'
    BY <1>6, QuietPreserves DEF AgePod, QuietStep
<1>7. ASSUME NEW t \in Tenant, StopServing(t) PROVE SweepInv'
    BY <1>7, QuietPreserves DEF StopServing, QuietStep
<1>8. ASSUME NEW c \in CapsuleId,
             ZunBuilds(c) \/ ZunReports(c) \/ ZunRemoves(c) \/ ZunLoses(c) \/ AgeCapsule(c)
      PROVE  SweepInv'
    <2>1. zun[c].status # "Unmade" /\ \E status, age : SetCapsule(c, status, age)
        BY <1>8 DEF ZunBuilds, ZunReports, ZunRemoves, ZunLoses, AgeCapsule, Alive
    <2> QED BY <2>1, SetCapsuleQuiet, QuietPreserves
<1>9. CASE CacheList
    <2>1. /\ cache' = [k \in Key |-> View(k)] /\ synced' = TRUE /\ ~ synced
          /\ UNCHANGED <<used, api, zun, made, worker, sweep>>
        BY <1>9 DEF CacheList
    <2>2. PodsInPlace'
        BY <2>1 DEF PodsInPlace, View, NoPod
    <2>3. WorkerKnown'
        BY <2>1 DEF WorkerKnown, WaitsForCache, Idle
    <2>4. CapsuleKnown'
        BY <2>1, CapsuleFacts DEF CapsuleKnown, View
    <2>5. WaitsForCache'
        BY <2>1 DEF WaitsForCache
    <2> QED BY <2>1, <2>2, <2>3, <2>4, <2>5
            DEF CapsulesInOrder, SweepListsMade, SweepSparesTheLiving
<1>10. CASE Crash
    <2>1. /\ cache' = [k \in Key |-> NoPod] /\ synced' = FALSE /\ sweep' = IdleSweep
          /\ worker' = [k \in Key |-> Idle]
          /\ UNCHANGED <<used, api, zun, made>>
        BY <1>10 DEF Crash
    <2>2. PodsInPlace'
        BY <2>1 DEF PodsInPlace, NoPod
    <2>3. WorkerKnown' /\ CapsuleKnown' /\ WaitsForCache'
        BY <2>1 DEF WorkerKnown, CapsuleKnown, WaitsForCache, Idle
    <2>4. SweepListsMade' /\ SweepSparesTheLiving'
        BY <2>1 DEF SweepListsMade, SweepSparesTheLiving, IdleSweep
    <2> QED BY <2>1, <2>2, <2>3, <2>4 DEF CapsulesInOrder
<1> QED BY <1>1, <1>2, <1>3, <1>4, <1>5, <1>6, <1>7, <1>8, <1>9, <1>10 DEF Environment

LEMMA NextSweepInv == SweepInv /\ [Next]_vars => SweepInv'
<1> SUFFICES ASSUME SweepInv, [Next]_vars PROVE SweepInv'
    OBVIOUS
<1>1. TypeOK'
    BY NextType DEF SweepInv
<1>2. CASE UNCHANGED vars
    BY <1>1, <1>2, QuietPreserves DEF vars, outside, QuietStep
<1>3. ASSUME NEW k \in Key, Create(k) PROVE SweepInv'
    BY <1>1, <1>3, CreateQuiet, QuietPreserves, CreatePreserves
<1>4. ASSUME NEW k \in Key, Delete(k) PROVE SweepInv'
    BY <1>1, <1>4, DeleteQuiet, QuietPreserves
<1>5. CASE Sync
    BY <1>1, <1>5, SyncQuiet, QuietPreserves
<1>6. CASE Sweeping
    BY <1>1, <1>6, SweepPreserves
<1>7. CASE Environment
    BY <1>1, <1>7, EnvironmentPreserves
<1> QED BY <1>2, <1>3, <1>4, <1>5, <1>6, <1>7 DEF Next

(* The orphan sweep never condemns the newest capsule of a pod that exists *)
(* nor a capsule of another node, whatever crashes, whatever names are     *)
(* reused, and however the sweep interleaves with the worker.              *)
THEOREM SweepIsSafe == Spec => []SweepSparesTheLiving
<1>1. SweepInv => SweepSparesTheLiving
    BY DEF SweepInv
<1> QED BY <1>1, InitSweepInv, NextSweepInv, PTL DEF Spec
=============================================================================
