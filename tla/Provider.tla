------------------------------ MODULE Provider ------------------------------
(***************************************************************************)
(* One virtual node's provider (pkg/provider): the pods it tracks, the     *)
(* capsules it keeps for them in Zun, and the three things that change     *)
(* them concurrently:                                                      *)
(*                                                                         *)
(*   - the node controller's worker, one at a time per pod name, calling   *)
(*     CreatePod, UpdatePod and DeletePod (provider.go);                   *)
(*   - the status sync, which snapshots the tracked pods, lists every      *)
(*     tenant's capsules, and then judges pod after pod (sync.go);         *)
(*   - the orphan sweep, which lists capsules and deletes the ones no pod  *)
(*     of this node's cache owns (orphans.go).                             *)
(*                                                                         *)
(* Every step below is the code between two points where another goroutine *)
(* can run: an HTTP call to Zun, or a critical section under p.mu (with    *)
(* the status callback that follows it). The process may die between any   *)
(* two of them. The Kubernetes API server, the node controller's queue and *)
(* Zun are external: they are modelled as the provider uses them.          *)
(***************************************************************************)
EXTENDS Integers, FiniteSets

CONSTANTS
    Key,          \* pod names (namespace/name)
    UID,          \* pod incarnations
    NoUID,        \* "no pod"
    Tenant,       \* tenants served by this process
    PodKey,       \* the name each incarnation bears
    TenantOf,     \* the tenant of each name's namespace
    Elsewhere,    \* incarnations bound to another virtual node of the tenant
    MayUnserve,   \* tenants whose namespaces may stop being served
    MayVanish,    \* incarnations whose capsules may die behind the provider's back
    Reported,     \* statuses Zun may give a capsule that has been built
    SlowWalk,     \* may a sync cycle outlast capsuleAppearGrace?
    Loops,        \* bound: the background loops that run, of "sync" and "sweep"
    Ages,         \* bound: the ages that capsules and tracked pods may reach
    MaxCapsules,  \* bound: capsules ever made
    MaxFaults,    \* bound: crashes, lost answers and failed listings
    MaxEvents     \* bound: those, and pods added, together

ASSUME ProviderAssumption ==
    /\ NoUID \notin UID
    /\ PodKey \in [UID -> Key]
    /\ TenantOf \in [Key -> Tenant]
    /\ Elsewhere \subseteq UID
    /\ MayUnserve \subseteq Tenant
    /\ MayVanish \subseteq UID
    /\ Reported \subseteq {"Running", "Stopped", "Error", "Unknown"}
    /\ SlowWalk \in BOOLEAN
    /\ Loops \subseteq {"sync", "sweep"}
    /\ Ages \subseteq {"young", "old", "stuck", "settled", "expired"}
    /\ MaxCapsules \in Nat
    /\ MaxFaults \in Nat
    /\ MaxEvents \in Nat

VARIABLES
    api,      \* the API server's pod under each name, with its published status
    used,     \* incarnations that have existed
    cache,    \* the node's pod informer: what the controller and podLister read
    synced,   \* the informer has completed its first list (podsSynced)
    queue,    \* names queued for the node controller's worker
    served,   \* tenants whose namespaces this node serves
    zun,      \* every capsule ever made, in order of CreatedAt
    made,     \* how many there are
    pods,     \* p.pods
    deleted,  \* p.deleted
    worker,   \* the controller call in progress for each name
    sync,     \* the status sync cycle in progress
    sweep,    \* the orphan sweep in progress
    faults    \* crashes, lost answers and failed listings so far

(* What only the environment changes.                                        *)
outside == <<used, cache, synced, served>>

vars == <<outside, api, queue, zun, made, pods, deleted, worker, sync, sweep,
          faults>>

-----------------------------------------------------------------------------
(* The data. A status carries its phase and its address; an address is the  *)
(* capsule whose Neutron port it is, 0 when there is none.                  *)

CapsuleId == 1..MaxCapsules

Phase == {"", "Pending", "Running", "Succeeded", "Failed", "Unknown"}

Terminal(phase) == phase \in {"Succeeded", "Failed"}

Pod == [uid: UID \cup {NoUID}, phase: Phase, addr: 0..MaxCapsules,
        deleting: BOOLEAN]

NoPod == [uid |-> NoUID, phase |-> "", addr |-> 0, deleting |-> FALSE]

(* age: "fresh" within capsuleAppearGrace of StartTime; "expired" once a     *)
(* finished pod is past terminalCapsuleGrace; "settled" otherwise.           *)
Tracked == [uid: UID \cup {NoUID}, phase: Phase, addr: 0..MaxCapsules,
            age: {"fresh", "settled", "expired"}]

Untracked == [uid |-> NoUID, phase |-> "", addr |-> 0, age |-> "settled"]

(* age: "hidden" until Zun can list it, "old" past orphanGrace, "stuck" past *)
(* capsuleCreateTimeout.                                                     *)
Status == {"Unmade", "Creating", "Running", "Stopped", "Error", "Unknown",
           "Deleting", "Gone"}

Capsule == [uid: UID \cup {NoUID}, status: Status,
            age: {"hidden", "young", "old", "stuck"}]

Unmade == [uid |-> NoUID, status |-> "Unmade", age |-> "hidden"]

(* One entry of a ListManaged result: the capsule and the status listed.     *)
Listing == [id: 0..MaxCapsules, status: Status]

NotListed == [id |-> 0, status |-> "Unmade"]

CallState == [op: {"idle", "check", "build", "track", "delete", "mark"}, pod: Pod]

Idle == [op |-> "idle", pod |-> NoPod]

SyncState == [todo: SUBSET Tenant, covered: SUBSET Tenant,
              snap: [Key -> Tracked], managed: [Key -> Listing]]

IdleSync == [todo |-> {}, covered |-> {}, snap |-> [k \in Key |-> Untracked],
             managed |-> [k \in Key |-> NotListed]]

SweepState == [listed: SUBSET CapsuleId, doomed: SUBSET CapsuleId]

IdleSweep == [listed |-> {}, doomed |-> {}]

-----------------------------------------------------------------------------
(* Zun.                                                                      *)

Alive(c) == zun[c].status \notin {"Unmade", "Gone"}

Listable(c) == Alive(c) /\ zun[c].age # "hidden"

(* ListManagedAll: the capsules labelled for a pod name.                     *)
ListManagedAll(k) == {c \in CapsuleId : Listable(c) /\ PodKey[zun[c].uid] = k}

(* ListManaged: the newest of them.                                          *)
ListManaged(k) ==
    LET all == ListManagedAll(k) IN
    IF all = {} THEN NotListed
    ELSE LET newest == CHOOSE c \in all : \A d \in all : d <= c
         IN  [id |-> newest, status |-> zun[newest].status]

(* Mutant: the capsule's status is passed on as the pod's phase.             *)
PhaseVerbatim(status) == status

PhaseOf(status) ==
    CASE status = "Running" -> "Running"
      [] status = "Stopped" -> "Succeeded"
      [] status = "Error"   -> "Failed"
      [] status = "Unknown" -> "Unknown"
      [] OTHER              -> "Pending"

(* An asynchronous delete: the record stays listed as Deleting for a while.  *)
ZunDelete(cs) ==
    zun' = [c \in CapsuleId |->
              IF c \in cs /\ Alive(c) THEN [zun[c] EXCEPT !.status = "Deleting"]
              ELSE zun[c]]

-----------------------------------------------------------------------------
(* What the provider's handlers share.                                       *)

authorize(k) == TenantOf[k] \in served

isTerminal(e) == Terminal(e.phase)

(* GetPod hides a deleted pod, so that its successor under the name is not   *)
(* compared with it.                                                         *)
GetPod(k) == IF authorize(k) /\ pods[k].uid # deleted[k] THEN pods[k].uid ELSE NoUID

(* notify: the node controller publishes the status on the pod it is about,  *)
(* unless that pod is already terminal.                                      *)
notify(k, e) ==
    api' = IF e.uid # NoUID /\ api[k].uid = e.uid /\ ~ Terminal(api[k].phase)
           THEN [api EXCEPT ![k].phase = e.phase, ![k].addr = e.addr]
           ELSE api

Requeue(k) == queue' = queue \cup {k}

Return(k) == worker' = [worker EXCEPT ![k] = Idle]

Goto(k, op) == worker' = [worker EXCEPT ![k].op = op]

Spare == faults + Cardinality(used) < MaxEvents

Fault == faults < MaxFaults /\ Spare /\ faults' = faults + 1

-----------------------------------------------------------------------------
(* The node controller's worker: CreatePod and UpdatePod.                    *)

CanWork(k) == synced /\ k \in queue /\ worker[k].op = "idle"

Call(k, op, pod) ==
    /\ worker' = [worker EXCEPT ![k] = [op |-> op, pod |-> pod]]
    /\ queue' = queue \ {k}

Wanted(pod) == pod.uid # NoUID /\ ~ pod.deleting /\ ~ Terminal(pod.phase)

CallCreatePod(k) ==
    /\ CanWork(k) /\ Wanted(cache[k]) /\ GetPod(k) = NoUID
    /\ Call(k, "check", cache[k])
    /\ UNCHANGED <<outside, api, zun, made, pods, deleted, sync, sweep,
                   faults>>

(* Mutant: UpdatePod does nothing at all.                                    *)
UpdateNothing(k) ==
    /\ CanWork(k) /\ Wanted(cache[k]) /\ GetPod(k) # NoUID
    /\ queue' = queue \ {k}
    /\ UNCHANGED <<outside, api, zun, made, pods, deleted, worker, sync, sweep,
                   faults>>

(* UpdatePod does nothing for the pod already tracked, and creates a capsule *)
(* for a different pod that reused the name.                                 *)
CallUpdatePod(k) ==
    /\ CanWork(k) /\ Wanted(cache[k]) /\ GetPod(k) # NoUID
    /\ IF GetPod(k) = cache[k].uid
       THEN queue' = queue \ {k} /\ UNCHANGED worker
       ELSE Call(k, "check", cache[k])
    /\ UNCHANGED <<outside, api, zun, made, pods, deleted, sync, sweep,
                   faults>>

(* CreatePod, first call: ListManaged, to adopt a capsule an earlier attempt *)
(* left. A listing that fails is ignored and the capsule is created.         *)
CapsuleOf(k) == LET c == ListManaged(k) IN c.id # 0 /\ zun[c.id].uid = worker[k].pod.uid

(* adoptPod keeps the status the API server holds, StartTime included.       *)
adoptPod(k) ==
    LET pod == worker[k].pod IN
    /\ \E age \in {"settled"} \cup (IF pod.phase = "" THEN {} ELSE {"fresh"}) :
         pods' = [pods EXCEPT ![k] =
                    [uid |-> pod.uid,
                     phase |-> IF pod.phase = "" THEN "Pending" ELSE pod.phase,
                     addr |-> pod.addr, age |-> age]]
    /\ deleted' = [deleted EXCEPT ![k] = NoUID]

CreateAdopts(k) ==
    /\ worker[k].op = "check" /\ authorize(k) /\ CapsuleOf(k)
    /\ adoptPod(k)
    /\ Return(k)
    /\ UNCHANGED <<outside, api, queue, zun, made, sync, sweep, faults>>

CreateProceeds(k) ==
    /\ worker[k].op = "check" /\ authorize(k) /\ ~ CapsuleOf(k)
    /\ Goto(k, "build")
    /\ UNCHANGED <<outside, api, queue, zun, made, pods, deleted, sync,
                   sweep, faults>>

CreateListFails(k) ==
    /\ worker[k].op = "check" /\ authorize(k) /\ Fault
    /\ Goto(k, "build")
    /\ UNCHANGED <<outside, api, queue, zun, made, pods, deleted, sync, sweep>>

(* Every refusal of CreatePod: the namespace is not served, no credential,   *)
(* files, claims, network or security groups not resolved, template refused, *)
(* Zun refuses. The controller retries.                                      *)
CreateRefused(k) ==
    /\ worker[k].op \in {"check", "build"}
    /\ Return(k) /\ Requeue(k)
    /\ UNCHANGED <<outside, api, zun, made, pods, deleted, sync, sweep,
                   faults>>

ZunCreate(uid) ==
    /\ made < MaxCapsules
    /\ made' = made + 1
    /\ zun' = [zun EXCEPT ![made + 1] =
                 [uid |-> uid, status |-> "Creating", age |-> "hidden"]]

CreateCapsule(k) ==
    /\ worker[k].op = "build"
    /\ ZunCreate(worker[k].pod.uid)
    /\ Goto(k, "track")
    /\ UNCHANGED <<outside, api, queue, pods, deleted, sync, sweep, faults>>

(* Zun made the capsule and the answer was lost: CreatePod returns an error. *)
CreateAnswerLost(k) ==
    /\ worker[k].op = "build" /\ Fault
    /\ ZunCreate(worker[k].pod.uid)
    /\ Return(k) /\ Requeue(k)
    /\ UNCHANGED <<outside, api, pods, deleted, sync, sweep>>

trackPod(k) ==
    LET pod == worker[k].pod
        e == [uid |-> pod.uid, phase |-> "Pending", addr |-> pod.addr,
              age |-> "fresh"]
    IN  /\ worker[k].op = "track"
        /\ pods' = [pods EXCEPT ![k] = e]
        /\ deleted' = [deleted EXCEPT ![k] = NoUID]
        /\ notify(k, e)
        /\ Return(k)
        /\ UNCHANGED <<outside, queue, zun, made, sync, sweep, faults>>

-----------------------------------------------------------------------------
(* The node controller's worker: DeletePod.                                  *)

(* The pod to delete is the one the cache shows terminating, or the one the  *)
(* provider still has when the cache shows none.                             *)
CallDeletePod(k) ==
    /\ CanWork(k)
    /\ \/ /\ cache[k].uid # NoUID /\ cache[k].deleting
          /\ ~ Terminal(cache[k].phase)
          /\ Call(k, "delete", cache[k])
       \/ /\ cache[k].uid = NoUID /\ GetPod(k) # NoUID
          /\ Call(k, "delete", [NoPod EXCEPT !.uid = pods[k].uid,
                                !.phase = pods[k].phase, !.addr = pods[k].addr])
    /\ UNCHANGED <<outside, api, zun, made, pods, deleted, sync, sweep,
                   faults>>

(* Nothing to do: a terminal pod, or a pod gone that was never tracked.      *)
CallNothing(k) ==
    /\ CanWork(k)
    /\ IF cache[k].uid = NoUID THEN GetPod(k) = NoUID ELSE Terminal(cache[k].phase)
    /\ queue' = queue \ {k}
    /\ UNCHANGED <<outside, api, zun, made, pods, deleted, worker, sync,
                   sweep, faults>>

(* Not found for a namespace no longer served: the controller drops it.      *)
DeleteUnserved(k) ==
    /\ worker[k].op = "delete" /\ ~ authorize(k)
    /\ Return(k)
    /\ UNCHANGED <<outside, api, queue, zun, made, pods, deleted, sync,
                   sweep, faults>>

DeleteFails(k) ==
    /\ worker[k].op = "delete" /\ authorize(k)
    /\ Return(k) /\ Requeue(k)
    /\ UNCHANGED <<outside, api, zun, made, pods, deleted, sync, sweep,
                   faults>>

(* Delete by name. Not found counts as deleted; of several capsules bearing  *)
(* the name one goes (or Zun refuses: DeleteFails).                          *)
DeleteCapsule(k) ==
    LET named == {c \in CapsuleId : Listable(c) /\ zun[c].uid = worker[k].pod.uid} IN
    /\ worker[k].op = "delete" /\ authorize(k)
    /\ \/ named = {} /\ UNCHANGED zun
       \/ \E c \in named : ZunDelete({c})
    /\ Goto(k, "mark")
    /\ UNCHANGED <<outside, api, queue, made, pods, deleted, sync, sweep,
                   faults>>

(* Mutant: a pod this process never tracked is not reported terminated.      *)
MarkTracked(k) ==
    LET terminated == [pods[k] EXCEPT !.phase = "Succeeded", !.age = "settled"]
    IN  /\ worker[k].op = "mark"
        /\ IF pods[k].uid = NoUID THEN UNCHANGED <<pods, deleted, api>>
           ELSE /\ pods' = [pods EXCEPT ![k] = terminated]
                /\ deleted' = [deleted EXCEPT ![k] = terminated.uid]
                /\ notify(k, terminated)
        /\ Return(k)
        /\ UNCHANGED <<outside, queue, zun, made, sync, sweep, faults>>

MarkDeleted(k) ==
    LET pod == worker[k].pod
        tracked == IF pods[k].uid # NoUID THEN pods[k]
                   ELSE [uid |-> pod.uid, phase |-> pod.phase, addr |-> pod.addr,
                         age |-> "settled"]
        terminated == [tracked EXCEPT !.phase = "Succeeded", !.age = "settled"]
    IN  /\ worker[k].op = "mark"
        /\ pods' = [pods EXCEPT ![k] = terminated]
        /\ deleted' = [deleted EXCEPT ![k] = terminated.uid]
        /\ notify(k, terminated)
        /\ Return(k)
        /\ UNCHANGED <<outside, queue, zun, made, sync, sweep, faults>>

-----------------------------------------------------------------------------
(* syncOnce: snapshot the tracked pods, list each tenant, judge each pod.    *)

Snapped == {k \in Key : sync.snap[k].uid # NoUID}

SyncIdle == sync.todo = {} /\ Snapped = {}

EndIfDone(s) ==
    IF s.todo = {} /\ \A k \in Key : s.snap[k].uid = NoUID THEN IdleSync ELSE s

SyncSnapshot ==
    /\ "sync" \in Loops /\ SyncIdle
    /\ sync' = [IdleSync EXCEPT !.todo = served, !.snap = pods]
    /\ UNCHANGED <<outside, api, queue, zun, made, pods, deleted, worker,
                   sweep, faults>>

(* Only the entries some snapped pod will look up are kept of a listing.     *)
SyncListTenant(t) ==
    /\ t \in sync.todo
    /\ sync' = EndIfDone(
         [sync EXCEPT !.todo = @ \ {t}, !.covered = @ \cup {t},
            !.managed = [k \in Key |-> IF TenantOf[k] = t /\ k \in Snapped
                                       THEN ListManaged(k) ELSE @[k]]])
    /\ UNCHANGED <<outside, api, queue, zun, made, pods, deleted, worker,
                   sweep, faults>>

(* Each skips a tenant without a usable credential.                          *)
SyncSkipTenant(t) ==
    /\ t \in sync.todo
    /\ sync' = EndIfDone([sync EXCEPT !.todo = @ \ {t}])
    /\ UNCHANGED <<outside, api, queue, zun, made, pods, deleted, worker,
                   sweep, faults>>

(* A listing that fails ends the whole cycle.                                *)
SyncListFails(t) ==
    /\ t \in sync.todo
    /\ sync' = IdleSync
    /\ UNCHANGED <<outside, api, queue, zun, made, pods, deleted, worker,
                   sweep, faults>>

Judging(k) == sync.todo = {} /\ k \in Snapped

Judged(k) == sync' = EndIfDone([sync EXCEPT !.snap[k] = Untracked,
                                            !.managed[k] = NotListed])

Covered(k) == authorize(k) /\ TenantOf[k] \in sync.covered

(* Mutant: whatever capsule bears the pod's name is taken for its own.       *)
FoundByName(k) == sync.managed[k].id # 0

(* A capsule of another pod of the same name is not this pod's.              *)
Found(k) == /\ sync.managed[k].id # 0
            /\ zun[sync.managed[k].id].uid = sync.snap[k].uid

(* Mutant: no grace for a capsule that Zun does not list yet.                *)
NeverFresh(k) == FALSE

(* time.Since(StartTime) is read when the pod is judged, not when listed.    *)
Fresh(k) == /\ sync.snap[k].age = "fresh"
            /\ pods[k].uid = sync.snap[k].uid => pods[k].age = "fresh"

(* Mutant: only a pod that ends is news.                                     *)
updateOnEnd(k, phase, addr) ==
    LET updated == [pods[k] EXCEPT !.phase = phase, !.addr = addr] IN
    IF pods[k].uid = NoUID \/ ~ Terminal(phase) THEN UNCHANGED <<pods, api>>
    ELSE pods' = [pods EXCEPT ![k] = updated] /\ notify(k, updated)

(* updateStatus looks the pod up again, by name, and changes what it finds.  *)
updateStatus(k, phase, addr) ==
    LET current == pods[k]
        updated == [current EXCEPT !.phase = phase, !.addr = addr,
                      !.age = IF Terminal(phase) /\ isTerminal(current) THEN @
                              ELSE IF Terminal(phase) \/ @ = "expired" THEN "settled" ELSE @]
    IN  IF current.uid = NoUID \/ updated = current
        THEN UNCHANGED <<pods, api>>
        ELSE pods' = [pods EXCEPT ![k] = updated] /\ notify(k, updated)

(* The pod's tenant was not covered: no judgement.                           *)
JudgeSkips(k) ==
    /\ Judging(k) /\ ~ Covered(k)
    /\ Judged(k)
    /\ UNCHANGED <<outside, api, queue, zun, made, pods, deleted, worker,
                   sweep, faults>>

(* reclaimFinished: the capsule of a finished pod goes after the grace; the  *)
(* delete may fail.                                                          *)
reclaimFinished(k) ==
    /\ Judging(k) /\ Covered(k) /\ Found(k) /\ isTerminal(sync.snap[k])
    /\ \/ UNCHANGED zun
       \/ sync.snap[k].age = "expired" /\ ZunDelete({sync.managed[k].id})
    /\ Judged(k)
    /\ UNCHANGED <<outside, api, queue, made, pods, deleted, worker, sweep,
                   faults>>

JudgeDrops(k) ==
    /\ Judging(k) /\ Covered(k) /\ ~ Found(k) /\ isTerminal(sync.snap[k])
    /\ pods' = [pods EXCEPT ![k] = Untracked]
    /\ deleted' = [deleted EXCEPT ![k] = NoUID]
    /\ Judged(k)
    /\ UNCHANGED <<outside, api, queue, zun, made, worker, sweep, faults>>

(* Mutant: a capsule lost before it ran is not noticed.                      *)
JudgeRunningMissing(k) ==
    /\ Judging(k) /\ Covered(k) /\ ~ Found(k) /\ ~ isTerminal(sync.snap[k])
    /\ IF ~ Fresh(k) /\ sync.snap[k].phase = "Running"
       THEN updateStatus(k, "Failed", pods[k].addr)
       ELSE UNCHANGED <<pods, api>>
    /\ Judged(k)
    /\ UNCHANGED <<outside, queue, zun, made, deleted, worker, sweep, faults>>

(* No capsule for a pod expected to run: failed, once past the grace.        *)
JudgeMissing(k) ==
    /\ Judging(k) /\ Covered(k) /\ ~ Found(k) /\ ~ isTerminal(sync.snap[k])
    /\ IF ~ Fresh(k) /\ sync.snap[k].phase \in {"Pending", "Running"}
       THEN updateStatus(k, "Failed", pods[k].addr)
       ELSE UNCHANGED <<pods, api>>
    /\ Judged(k)
    /\ UNCHANGED <<outside, queue, zun, made, deleted, worker, sweep, faults>>

(* The capsule speaks for the pod, unless it never left Creating.            *)
JudgeReports(k) ==
    LET cap == sync.managed[k]
        stuck == cap.status = "Creating" /\ zun[cap.id].age = "stuck"
        addr == IF cap.status = "Creating" THEN pods[k].addr ELSE cap.id
    IN  /\ Judging(k) /\ Covered(k) /\ Found(k) /\ ~ isTerminal(sync.snap[k])
        /\ IF stuck THEN updateStatus(k, "Failed", pods[k].addr)
           ELSE updateStatus(k, PhaseOf(cap.status), addr)
        /\ Judged(k)
        /\ UNCHANGED <<outside, queue, zun, made, deleted, worker, sweep,
                       faults>>

-----------------------------------------------------------------------------
(* sweepOrphans: list a tenant, judge name after name against the cache.     *)

SweepIdle == sweep = IdleSweep

SweepList(t) ==
    /\ "sweep" \in Loops /\ SweepIdle /\ synced /\ t \in served
    /\ sweep' = [sweep EXCEPT !.listed =
                   UNION {ListManagedAll(k) : k \in {j \in Key : TenantOf[j] = t}}]
    /\ UNCHANGED <<outside, api, queue, zun, made, pods, deleted, worker,
                   sync, faults>>

(* Mutants: judged against the tracked pods rather than the cache; without   *)
(* regard to the node label; and sparing every capsule of a live pod.        *)
orphansUntracked(k, capsules) ==
    LET mine == {c \in capsules : zun[c].uid \notin Elsewhere}
        own == {c \in mine : zun[c].uid = pods[k].uid}
        keep == {c \in own : \A d \in own : d <= c}
    IN  IF authorize(k) THEN {c \in mine \ keep : zun[c].age \in {"old", "stuck"}}
        ELSE {}

orphansOfAnyNode(k, capsules) ==
    LET own == {c \in capsules : zun[c].uid = cache[k].uid}
        keep == {c \in own : \A d \in own : d <= c}
    IN  IF authorize(k) THEN {c \in capsules \ keep : zun[c].age \in {"old", "stuck"}}
        ELSE {}

orphansOfNoPod(k, capsules) ==
    IF authorize(k) /\ cache[k].uid = NoUID
    THEN {c \in capsules : zun[c].uid \notin Elsewhere /\ zun[c].age \in {"old", "stuck"}}
    ELSE {}

(* orphansAmong: of this node's capsules under a name, all but the newest of *)
(* the pod the cache shows, once they are old enough to judge.               *)
orphansAmong(k, capsules) ==
    LET mine == {c \in capsules : zun[c].uid \notin Elsewhere}
        own == {c \in mine : zun[c].uid = cache[k].uid}
        keep == {c \in own : \A d \in own : d <= c}
    IN  IF authorize(k) THEN {c \in mine \ keep : zun[c].age \in {"old", "stuck"}}
        ELSE {}

SweepJudge(k) ==
    LET capsules == {c \in sweep.listed : PodKey[zun[c].uid] = k} IN
    /\ sweep.doomed = {} /\ capsules # {}
    /\ sweep' = [listed |-> sweep.listed \ capsules,
                 doomed |-> orphansAmong(k, capsules)]
    /\ UNCHANGED <<outside, api, queue, zun, made, pods, deleted, worker,
                   sync, faults>>

(* A delete that fails is left to the next sweep.                            *)
SweepDelete(c) ==
    /\ c \in sweep.doomed
    /\ sweep' = [sweep EXCEPT !.doomed = @ \ {c}]
    /\ ZunDelete({c}) \/ UNCHANGED zun
    /\ UNCHANGED <<outside, api, queue, made, pods, deleted, worker, sync,
                   faults>>

-----------------------------------------------------------------------------
(* The environment: the API server, its informer, Zun, time and crashes.     *)

(* This node's informer sees the pods bound to this node only.               *)
View(k) == IF api[k].uid \in Elsewhere THEN NoPod ELSE api[k]

AddPod(u) ==
    /\ u \notin used /\ api[PodKey[u]] = NoPod /\ Spare
    /\ api' = [api EXCEPT ![PodKey[u]] = [NoPod EXCEPT !.uid = u]]
    /\ used' = used \cup {u}
    /\ UNCHANGED <<cache, synced, served, queue, zun, made, pods, deleted,
                   worker, sync, sweep, faults>>

RequestDeletion(k) ==
    /\ api[k].uid # NoUID /\ ~ api[k].deleting
    /\ api' = [api EXCEPT ![k].deleting = TRUE]
    /\ UNCHANGED <<outside, queue, zun, made, pods, deleted, worker, sync,
                   sweep, faults>>

(* Removed without this node's consent: a forced deletion, or a pod of       *)
(* another node.                                                             *)
RemoveByForce(k) ==
    /\ api[k].uid # NoUID
    /\ api' = [api EXCEPT ![k] = NoPod]
    /\ UNCHANGED <<outside, queue, zun, made, pods, deleted, worker, sync,
                   sweep, faults>>

(* The node controller removes a terminating pod whose status is terminal.   *)
RemoveFinished(k) ==
    /\ api[k].uid # NoUID /\ api[k].deleting /\ Terminal(api[k].phase)
    /\ api' = [api EXCEPT ![k] = NoPod]
    /\ UNCHANGED <<outside, queue, zun, made, pods, deleted, worker, sync,
                   sweep, faults>>

(* The informer's first list, which queues every pod it finds.               *)
CacheList ==
    /\ ~ synced
    /\ synced' = TRUE
    /\ cache' = [k \in Key |-> View(k)]
    /\ queue' = {k \in Key : View(k).uid # NoUID}
    /\ UNCHANGED <<used, served, api, zun, made, pods, deleted, worker, sync,
                   sweep, faults>>

(* A watch event. A change of status alone does not queue the pod.           *)
CacheUpdate(k) ==
    /\ synced /\ cache[k] # View(k)
    /\ cache' = [cache EXCEPT ![k] = View(k)]
    /\ queue' = IF <<cache[k].uid, cache[k].deleting>> = <<View(k).uid, View(k).deleting>>
                THEN queue ELSE queue \cup {k}
    /\ UNCHANGED <<used, synced, served, api, zun, made, pods, deleted, worker,
                   sync, sweep, faults>>

StopServing(t) ==
    /\ t \in MayUnserve \cap served
    /\ served' = served \ {t}
    /\ UNCHANGED <<used, cache, synced, api, queue, zun, made, pods, deleted,
                   worker, sync, sweep, faults>>

(* The process dies and a new one starts with nothing but the API server and *)
(* Zun to learn from.                                                        *)
Crash ==
    /\ Fault
    /\ synced' = FALSE
    /\ cache' = [k \in Key |-> NoPod]
    /\ queue' = {}
    /\ pods' = [k \in Key |-> Untracked]
    /\ deleted' = [k \in Key |-> NoUID]
    /\ worker' = [k \in Key |-> Idle]
    /\ sync' = IdleSync
    /\ sweep' = IdleSweep
    /\ UNCHANGED <<used, served, api, zun, made>>

(* Another virtual node makes the capsule of a pod bound to it.              *)
CreateElsewhere(u) ==
    /\ u \in Elsewhere /\ u \in used
    /\ \A c \in CapsuleId : zun[c].uid # u
    /\ ZunCreate(u)
    /\ UNCHANGED <<outside, api, queue, pods, deleted, worker, sync, sweep,
                   faults>>

SetCapsule(c, status, age) ==
    /\ zun' = [zun EXCEPT ![c].status = status, ![c].age = age]
    /\ UNCHANGED <<outside, api, queue, made, pods, deleted, worker, sync,
                   sweep, faults>>

ZunBuilds(c) ==
    /\ zun[c].status = "Creating"
    /\ \E status \in Reported : SetCapsule(c, status, zun[c].age)

ZunReports(c) ==
    /\ zun[c].status \in {"Running", "Unknown"}
    /\ \E status \in Reported \ {zun[c].status} : SetCapsule(c, status, zun[c].age)

ZunRemoves(c) == zun[c].status = "Deleting" /\ SetCapsule(c, "Gone", zun[c].age)

(* A capsule lost with its host.                                             *)
ZunLoses(c) == Alive(c) /\ zun[c].uid \in MayVanish /\ SetCapsule(c, "Gone", zun[c].age)

Older(age) == CASE age = "hidden" -> "young"
                [] age = "young"  -> "old"
                [] age = "old"    -> "stuck"
                [] OTHER          -> age

Rank(age) == CASE age = "hidden" -> 0 [] age = "young" -> 1
               [] age = "old" -> 2 [] OTHER -> 3

(* Capsules age in the order in which they were made. Only one still being   *)
(* created can get stuck.                                                    *)
AgeCapsule(c) ==
    /\ Alive(c) /\ zun[c].age # "stuck" /\ Older(zun[c].age) \in Ages
    /\ zun[c].age = "old" => zun[c].status = "Creating"
    /\ \A d \in 1..(c - 1) : Alive(d) =>
         zun[d].age = "old" \/ Rank(Older(zun[c].age)) <= Rank(zun[d].age)
    /\ SetCapsule(c, zun[c].status, Older(zun[c].age))

(* Zun lists a capsule before capsuleAppearGrace has passed; whether a sync  *)
(* cycle also ends within it is SlowWalk.                                    *)
AgePod(k) ==
    /\ \/ /\ pods[k].age = "fresh" /\ "settled" \in Ages
          /\ \A c \in CapsuleId : Alive(c) /\ zun[c].uid = pods[k].uid => zun[c].age # "hidden"
          /\ SlowWalk \/ SyncIdle
          /\ pods' = [pods EXCEPT ![k].age = "settled"]
       \/ /\ isTerminal(pods[k]) /\ pods[k].age = "settled" /\ "expired" \in Ages
          /\ pods' = [pods EXCEPT ![k].age = "expired"]
    /\ UNCHANGED <<outside, api, queue, zun, made, deleted, worker, sync,
                   sweep, faults>>

-----------------------------------------------------------------------------
Init ==
    /\ api = [k \in Key |-> NoPod]
    /\ used = {}
    /\ cache = [k \in Key |-> NoPod]
    /\ synced = FALSE
    /\ queue = {}
    /\ served = Tenant
    /\ zun = [c \in CapsuleId |-> Unmade]
    /\ made = 0
    /\ pods = [k \in Key |-> Untracked]
    /\ deleted = [k \in Key |-> NoUID]
    /\ worker = [k \in Key |-> Idle]
    /\ sync = IdleSync
    /\ sweep = IdleSweep
    /\ faults = 0

Create(k) == \/ CallCreatePod(k) \/ CallUpdatePod(k) \/ CreateAdopts(k)
             \/ CreateProceeds(k) \/ CreateListFails(k) \/ CreateRefused(k)
             \/ CreateCapsule(k) \/ CreateAnswerLost(k) \/ trackPod(k)

Delete(k) == \/ CallDeletePod(k) \/ CallNothing(k) \/ DeleteUnserved(k)
             \/ DeleteFails(k) \/ DeleteCapsule(k) \/ MarkDeleted(k)

Judge(k) == \/ JudgeSkips(k) \/ reclaimFinished(k) \/ JudgeDrops(k)
            \/ JudgeMissing(k) \/ JudgeReports(k)

Sync == \/ SyncSnapshot
        \/ \E t \in Tenant : SyncListTenant(t) \/ SyncSkipTenant(t) \/ SyncListFails(t)
        \/ \E k \in Key : Judge(k)

Sweeping == \/ \E t \in Tenant : SweepList(t)
            \/ \E k \in Key : SweepJudge(k)
            \/ \E c \in CapsuleId : SweepDelete(c)

Environment ==
    \/ \E u \in UID : AddPod(u) \/ CreateElsewhere(u)
    \/ \E k \in Key : \/ RequestDeletion(k) \/ RemoveByForce(k) \/ RemoveFinished(k)
                      \/ CacheUpdate(k) \/ AgePod(k)
    \/ \E t \in Tenant : StopServing(t)
    \/ \E c \in CapsuleId : \/ ZunBuilds(c) \/ ZunReports(c) \/ ZunRemoves(c)
                            \/ ZunLoses(c) \/ AgeCapsule(c)
    \/ CacheList
    \/ Crash

Next == \/ \E k \in Key : Create(k) \/ Delete(k)
        \/ Sync \/ Sweeping \/ Environment

Spec == Init /\ [][Next]_vars

-----------------------------------------------------------------------------
(* Fairness. The loops run on tickers, the informer delivers, time passes,   *)
(* and the node controller works its queue: weak fairness. A call to Zun may *)
(* fail any number of times, but each is retried for as long as it is needed *)
(* and one that is tried for ever succeeds at last: strong fairness of the   *)
(* outcomes that succeed. (A pod ages between two sync cycles, if not during *)
(* one: strong fairness too.) Nothing obliges Zun to build a capsule, a capsule  *)
(* to end, or a user to do anything.                                         *)
Working(k) ==
    \/ CallCreatePod(k) \/ CallUpdatePod(k) \/ CallDeletePod(k) \/ CallNothing(k)
    \/ trackPod(k) \/ MarkDeleted(k) \/ DeleteUnserved(k)
    \/ CreateRefused(k) \/ DeleteFails(k)

Fairness ==
    /\ \A k \in Key :
         /\ WF_vars(Working(k))
         /\ SF_vars(CreateAdopts(k) \/ CreateProceeds(k))
         /\ SF_vars(CreateCapsule(k))
         /\ SF_vars(DeleteCapsule(k))
         /\ SF_vars(reclaimFinished(k) /\ zun' # zun)
         /\ WF_vars(CacheUpdate(k) \/ CacheList)
         /\ WF_vars(RemoveFinished(k))
         /\ SF_vars(AgePod(k))
    /\ \A t \in Tenant : SF_vars(SyncListTenant(t))
    /\ WF_vars(SyncSnapshot \/ \E k \in Key : Judge(k))
    /\ WF_vars(Sweeping)
    /\ \A c \in CapsuleId :
         /\ SF_vars(SweepDelete(c) /\ zun' # zun)
         /\ WF_vars(ZunRemoves(c) \/ AgeCapsule(c))

FairSpec == Spec /\ Fairness

-----------------------------------------------------------------------------
(* Properties.                                                               *)

(* Every variable of the model has its type.                                 *)
TypeOK ==
    /\ api \in [Key -> Pod]
    /\ used \subseteq UID
    /\ cache \in [Key -> Pod]
    /\ synced \in BOOLEAN
    /\ queue \subseteq Key
    /\ served \subseteq Tenant
    /\ zun \in [CapsuleId -> Capsule]
    /\ made \in 0..MaxCapsules
    /\ pods \in [Key -> Tracked]
    /\ deleted \in [Key -> UID \cup {NoUID}]
    /\ worker \in [Key -> CallState]
    /\ sync \in SyncState
    /\ sweep \in SweepState
    /\ faults \in 0..MaxFaults

(* The orphan sweep never condemns a workload in use ("deleting a capsule    *)
(* that is still in use destroys a running workload"): a capsule it is about *)
(* to delete belongs to no pod in the API server, or is not the newest made  *)
(* for its pod; and it never condemns a capsule of another virtual node.     *)
SweepSparesTheLiving ==
    \A c \in sweep.doomed :
        LET u == zun[c].uid IN
        /\ u \notin Elsewhere
        /\ api[PodKey[u]].uid = u =>
             \E d \in CapsuleId : d > c /\ zun[d].uid = u

(* The address published for a pod is that of a capsule made for that pod:   *)
(* "sending traffic somewhere this pod never ran" does not happen.           *)
PublishedAddressIsOwn ==
    \A k \in Key : api[k].addr # 0 => zun[api[k].addr].uid = api[k].uid

(* The first pod of a name is published as Failed only when some capsule of  *)
(* it has failed, has gone, or was still Creating after capsuleCreateTimeout:*)
(* neither a skipped tenant, nor a capsule not yet listed, nor a restart     *)
(* fails it. (A later pod of the name can be given its predecessor's status: *)
(* see PublishedAddressIsOwn.)                                               *)
FailedWithCause ==
    \A k \in Key :
        api[k].phase = "Failed" /\ {u \in used : PodKey[u] = k} = {api[k].uid} =>
        \E c \in CapsuleId :
            /\ zun[c].uid = api[k].uid
            /\ zun[c].status \in {"Error", "Deleting", "Gone"} \/ zun[c].age = "stuck"

(* No actor -- DeletePod, the reclaim of finished pods, the sweep -- deletes *)
(* the newest capsule of a pod that is neither terminating nor finished.     *)
LiveCapsuleKept ==
    [][\A c \in CapsuleId :
         LET u == zun[c].uid IN
         /\ zun[c].status # "Deleting" /\ zun'[c].status = "Deleting"
         /\ api[PodKey[u]].uid = u /\ Wanted(api[PodKey[u]])
         => \E d \in CapsuleId : d > c /\ zun[d].uid = u]_vars

(* A pod accepted by the API server eventually gets a capsule, whatever      *)
(* crashed or failed on the way, unless it goes away first.                  *)
PodGetsCapsule ==
    \A u \in UID \ Elsewhere :
        LET k == PodKey[u] IN
        Wanted(api[k]) /\ api[k].uid = u
          ~> \/ \E c \in CapsuleId : zun[c].uid = u
             \/ api[k].uid # u \/ ~ Wanted(api[k]) \/ ~ authorize(k)

(* A pod being deleted is eventually reported terminal and so removed, also  *)
(* when the process restarted with the pod already terminating -- unless the *)
(* entry DeletePod finds under the name is still its predecessor's, which is *)
(* then the one it reports.                                                  *)
DeletionCompletes ==
    \A u \in UID \ Elsewhere :
        LET k == PodKey[u] IN
        api[k].uid = u /\ api[k].deleting
          ~> api[k].uid # u \/ ~ authorize(k) \/ pods[k].uid \notin {NoUID, u}

(* A pod's newest capsule, once it runs, is eventually reported on the pod.  *)
RunningReported ==
    \A u \in UID \ Elsewhere : \A c \in CapsuleId :
        LET k == PodKey[u]
            Runs == /\ zun[c].uid = u /\ zun[c].status = "Running"
                    /\ \A d \in CapsuleId : d > c => zun[d].uid # u
                    /\ api[k].uid = u /\ Wanted(api[k]) /\ authorize(k)
        IN  Runs ~> ~ Runs \/ api[k].phase = "Running"

(* A pod whose capsules have all gone is eventually reported terminal, or    *)
(* given another.                                                            *)
LossReported ==
    \A u \in UID \ Elsewhere :
        LET k == PodKey[u]
            mine == {c \in CapsuleId : zun[c].uid = u}
        IN  api[k].uid = u /\ Wanted(api[k]) /\ mine # {} /\ (\A c \in mine : ~ Alive(c))
              ~> \/ \E c \in mine : Alive(c)
                 \/ api[k].uid # u \/ ~ Wanted(api[k]) \/ ~ authorize(k)

(* A capsule nothing needs -- its pod is gone, or a newer one was made for   *)
(* the same pod -- is eventually deleted, also when it was left behind by a  *)
(* process that died.                                                        *)
OrphansCollected ==
    \A c \in CapsuleId :
        LET Unneeded ==
              /\ Alive(c) /\ zun[c].uid \notin Elsewhere
              /\ \/ api[PodKey[zun[c].uid]].uid # zun[c].uid
                 \/ \E d \in CapsuleId : d > c /\ zun[d].uid = zun[c].uid /\ Alive(d)
        IN  Unneeded ~> zun[c].status \in {"Deleting", "Gone"} \/ ~ Unneeded
                        \/ ~ authorize(PodKey[zun[c].uid])

-----------------------------------------------------------------------------
(* The abstract specification: pods and capsules as Custody sees them.       *)
CapsuleState(status) ==
    CASE status = "Unmade"   -> "none"
      [] status = "Deleting" -> "going"
      [] status = "Gone"     -> "gone"
      [] OTHER               -> "kept"

Kept == INSTANCE Custody WITH
    Name <- Key, Identity <- UID, Nobody <- NoUID, NameOf <- PodKey,
    Slot <- CapsuleId,
    pod <- [k \in Key |-> [who |-> api[k].uid, runs |-> Wanted(api[k])]],
    past <- used,
    capsule <- [c \in CapsuleId |-> [of |-> zun[c].uid,
                                     state |-> CapsuleState(zun[c].status)]]

(* The provider, with its workers, sync, sweep, lagging cache and crashes,   *)
(* implements Custody: whichever of DeletePod, reclaimFinished and the sweep *)
(* takes a capsule away, it is one its pod no longer needs, and CreatePod    *)
(* makes none for a pod that never was.                                      *)
CustodyKept == Kept!Promise
=============================================================================
