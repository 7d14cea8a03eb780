--------------------------- MODULE FailureProofs ---------------------------
(***************************************************************************)
(* Why the first pod of a name is failed only for a cause, for every set of*)
(* names, incarnations, tenants and capsules, with both loops running,     *)
(* calls failing and the process dying at any point.                       *)
(***************************************************************************)
EXTENDS CustodyProofs

(* The judgement of a sync cycle rests on three moments: the snapshot, the *)
(* listing and the judgement itself.  FailedWithCause says nothing of the  *)
(* first two.  What makes the judgement right is that an entry past its    *)
(* grace had a capsule that Zun could list, that the entry does not pass   *)
(* its grace between the snapshot and the judgement, and that nothing is   *)
(* made of the pod anew meanwhile.                                         *)

(* No two pods have borne the name k.                                      *)
Alone(k) == \A u, v \in used : PodKey[u] = k /\ PodKey[v] = k => u = v

Bad == {"Error", "Deleting", "Gone"}

(* What a pod's capsules have come to: one was made, one could be listed,  *)
(* one has gone, one is a cause to fail the pod.                           *)
HasCapsule(u) == \E c \in CapsuleId : zun[c].uid = u
Shown(u)      == \E c \in CapsuleId : zun[c].uid = u /\ (zun[c].age # "hidden" \/ zun[c].status = "Gone")
Lost(u)       == \E c \in CapsuleId : zun[c].uid = u /\ zun[c].status = "Gone"
Cause(u)      == \E c \in CapsuleId : zun[c].uid = u /\ (zun[c].status \in Bad \/ zun[c].age = "stuck")

(* CreatePod tracks a pod once its capsule is made.                        *)
TracksMade == \A k \in Key : worker[k].op = "track" => HasCapsule(worker[k].pod.uid)

(* A mark of deletion is on the entry of the name.                         *)
MarksOwn == \A k \in Key : deleted[k] = NoUID \/ deleted[k] = pods[k].uid

(* The API server has been told of an entry that has ended.                *)
EndsTold ==
    \A k \in Key :
        pods[k].uid # NoUID /\ isTerminal(pods[k]) /\ api[k].uid = pods[k].uid
            => Terminal(api[k].phase)

(* A pod being deleted, or marked so, is terminating or gone, and the      *)
(* cache has it so: it is not created again.                               *)
Ending(k) ==
    /\ api[k].uid # NoUID => api[k].deleting
    /\ cache[k].uid # NoUID => cache[k].deleting

DeletesEnding ==
    \A k \in Key : Alone(k) /\ (worker[k].op \in Removing \/ deleted[k] # NoUID) => Ending(k)

(* A pod that CreatePod is at work on, and still may be, is not tracked.   *)
CreatesUntracked ==
    \A k \in Key :
        Alone(k) /\ worker[k].op \in Creating /\ authorize(k) => pods[k].uid = NoUID

(* A pod tracked as to run has a capsule, and past its grace one that      *)
(* could be listed.                                                        *)
EntriesMade ==
    \A k \in Key :
        Alone(k) /\ pods[k].uid # NoUID /\ ~ isTerminal(pods[k]) =>
            /\ HasCapsule(pods[k].uid)
            /\ pods[k].age # "fresh" => Shown(pods[k].uid)

(* What was listed was made, was not hidden, and has not recovered.        *)
ListedIsReal ==
    \A k \in Key :
        LET m == sync.managed[k] IN
        m.id # 0 => /\ zun[m.id].uid # NoUID /\ zun[m.id].age # "hidden"
                    /\ m.status = "Error" => zun[m.id].status \in Bad

(* From the snapshot on, an entry stays, and stays within its grace; one   *)
(* past it had a capsule, which the listing found or which has gone.       *)
SnapsHold ==
    \A k \in Key :
        LET s == sync.snap[k] IN
        Alone(k) /\ s.uid # NoUID =>
            /\ pods[k].uid # NoUID
            /\ s.age = "fresh" => pods[k].age = "fresh" \/ isTerminal(pods[k])
            /\ s.age # "fresh" /\ ~ isTerminal(s) =>
                 /\ Shown(s.uid)
                 /\ TenantOf[k] \in sync.covered => Found(k) \/ Lost(s.uid)

CauseKnown ==
    \A k \in Key :
        Alone(k) /\ api[k].uid # NoUID /\ api[k].phase = "Failed" => Cause(api[k].uid)

(* A capsule that was made has a status.                                   *)
MadeReal == \A c \in CapsuleId : zun[c].uid # NoUID => zun[c].status # "Unmade"

FailInv == /\ MadeReal /\ TracksMade /\ MarksOwn /\ EndsTold /\ DeletesEnding /\ CreatesUntracked
           /\ EntriesMade /\ ListedIsReal /\ SnapsHold /\ CauseKnown

-----------------------------------------------------------------------------
(* Capsules go forward.                                                    *)

CapsuleMoves(c) ==
    /\ zun[c].uid # NoUID =>
         /\ zun'[c].uid = zun[c].uid
         /\ zun[c].age # "hidden" => zun'[c].age # "hidden"
         /\ zun[c].age = "stuck" => zun'[c].age = "stuck"
         /\ zun[c].status \in Bad => zun'[c].status \in Bad
         /\ zun[c].status = "Gone" => zun'[c].status = "Gone"
    /\ zun'[c].uid # NoUID /\ zun'[c].status = "Unmade" =>
         zun[c].uid # NoUID /\ zun[c].status = "Unmade"

LEMMA DeleteForward ==
    ASSUME TypeOK, NEW cs, ZunDelete(cs), NEW c \in CapsuleId
    PROVE  CapsuleMoves(c)
<1>1. zun[c] \in Capsule
    BY DEF TypeOK
<1>2. zun'[c] = IF c \in cs /\ Alive(c) THEN [zun[c] EXCEPT !.status = "Deleting"] ELSE zun[c]
    BY DEF ZunDelete
<1>3. CASE c \in cs /\ Alive(c)
    <2>1. zun'[c] = [zun[c] EXCEPT !.status = "Deleting"] /\ zun[c].status # "Gone"
        BY <1>2, <1>3 DEF Alive
    <2> QED BY <1>1, <2>1 DEF Capsule, CapsuleMoves, Bad
<1>4. CASE ~ (c \in cs /\ Alive(c))
    BY <1>2, <1>4 DEF CapsuleMoves
<1> QED BY <1>3, <1>4

LEMMA CreateForward ==
    ASSUME SweepInv, NEW u, ZunCreate(u), NEW c \in CapsuleId
    PROVE  CapsuleMoves(c)
<1>1. /\ zun \in [CapsuleId -> Capsule] /\ made \in Nat /\ c \in Nat /\ made < MaxCapsules
      /\ zun' = [zun EXCEPT ![made + 1] = [uid |-> u, status |-> "Creating", age |-> "hidden"]]
    BY CapsuleFacts DEF SweepInv, TypeOK, ZunCreate, CapsuleId
<1>2. CASE c = made + 1
    <2>1. zun[c] = Unmade
        BY <1>1, <1>2 DEF SweepInv, CapsulesInOrder
    <2>2. zun'[c].status = "Creating"
        BY <1>1, <1>2
    <2> QED BY <2>1, <2>2 DEF CapsuleMoves, Unmade
<1>3. CASE c # made + 1
    BY <1>1, <1>3 DEF CapsuleMoves
<1> QED BY <1>2, <1>3

LEMMA SetForward ==
    ASSUME TypeOK, NEW e \in CapsuleId, NEW status, NEW age, SetCapsule(e, status, age),
           zun[e].age # "hidden" => age # "hidden", zun[e].age = "stuck" => age = "stuck",
           zun[e].status \in Bad => status \in Bad, zun[e].status = "Gone" => status = "Gone",
           status = "Unmade" => zun[e].status = "Unmade",
           NEW c \in CapsuleId
    PROVE  CapsuleMoves(c)
<1>1. zun \in [CapsuleId -> Capsule] /\ zun' = [zun EXCEPT ![e].status = status, ![e].age = age]
    BY DEF TypeOK, SetCapsule
<1>2. CASE c = e
    <2>1. zun[c] \in Capsule /\ zun'[c] = [zun[c] EXCEPT !.status = status, !.age = age]
        BY <1>1, <1>2
    <2>2. zun'[c].uid = zun[c].uid /\ zun'[c].status = status /\ zun'[c].age = age
        BY <2>1 DEF Capsule
    <2> QED BY <1>2, <2>2 DEF CapsuleMoves
<1>3. CASE c # e
    BY <1>1, <1>3 DEF CapsuleMoves
<1> QED BY <1>2, <1>3

LEMMA NextForward ==
    ASSUME CustodyInv, Next
    PROVE  \A c \in CapsuleId : CapsuleMoves(c)
<1> USE DEF CustodyInv, SweepInv
<1>1. ASSUME UNCHANGED zun PROVE \A c \in CapsuleId : CapsuleMoves(c)
    BY <1>1 DEF CapsuleMoves
<1>2. ASSUME NEW k \in Key, Create(k) PROVE \A c \in CapsuleId : CapsuleMoves(c)
    <2>1. UNCHANGED zun \/ \E v : ZunCreate(v)
        BY <1>2 DEF Create, CallCreatePod, CallUpdatePod, CreateAdopts, CreateProceeds,
                    CreateListFails, CreateRefused, CreateCapsule, CreateAnswerLost, trackPod
    <2> QED BY <1>1, <2>1, CreateForward
<1>3. ASSUME NEW k \in Key, Delete(k) PROVE \A c \in CapsuleId : CapsuleMoves(c)
    <2>1. UNCHANGED zun \/ \E cs : ZunDelete(cs)
        BY <1>3 DEF Delete, CallDeletePod, CallNothing, DeleteUnserved, DeleteFails,
                    DeleteCapsule, MarkDeleted
    <2> QED BY <1>1, <2>1, DeleteForward
<1>4. ASSUME Sync PROVE \A c \in CapsuleId : CapsuleMoves(c)
    <2>1. UNCHANGED zun \/ \E cs : ZunDelete(cs)
        BY <1>4 DEF Sync, SyncSnapshot, SyncListTenant, SyncSkipTenant, SyncListFails,
                    Judge, JudgeSkips, reclaimFinished, JudgeDrops, JudgeMissing, JudgeReports
    <2> QED BY <1>1, <2>1, DeleteForward
<1>5. ASSUME Sweeping PROVE \A c \in CapsuleId : CapsuleMoves(c)
    <2>1. UNCHANGED zun \/ \E cs : ZunDelete(cs)
        BY <1>5 DEF Sweeping, SweepList, SweepJudge, SweepDelete
    <2> QED BY <1>1, <2>1, DeleteForward
<1>6. ASSUME NEW e \in CapsuleId,
             ZunBuilds(e) \/ ZunReports(e) \/ ZunRemoves(e) \/ ZunLoses(e) \/ AgeCapsule(e)
      PROVE  \A c \in CapsuleId : CapsuleMoves(c)
    <2>0. zun[e] \in Capsule
        BY DEF TypeOK
    <2>1. CASE ZunBuilds(e) \/ ZunReports(e)
        BY <2>1, SetForward, ProviderAssumption DEF ZunBuilds, ZunReports, Bad
    <2>2. CASE ZunRemoves(e) \/ ZunLoses(e)
        BY <2>2, SetForward DEF ZunRemoves, ZunLoses, Bad
    <2>3. CASE AgeCapsule(e)
        <3>1. zun[e].age # "stuck" /\ SetCapsule(e, zun[e].status, Older(zun[e].age))
            BY <2>3 DEF AgeCapsule
        <3>2. Older(zun[e].age) # "hidden"
            BY <2>0 DEF Older, Capsule
        <3> QED BY <3>1, <3>2, SetForward
    <2> QED BY <1>6, <2>1, <2>2, <2>3
<1>7. ASSUME Environment PROVE \A c \in CapsuleId : CapsuleMoves(c)
    <2>1. \/ UNCHANGED zun
          \/ \E v : ZunCreate(v)
          \/ \E e \in CapsuleId : \/ ZunBuilds(e) \/ ZunReports(e) \/ ZunRemoves(e)
                                  \/ ZunLoses(e) \/ AgeCapsule(e)
        BY <1>7 DEF Environment, AddPod, CreateElsewhere, RequestDeletion, RemoveByForce,
                    RemoveFinished, CacheUpdate, AgePod, StopServing, CacheList, Crash
    <2> QED BY <1>1, <1>6, <2>1, CreateForward
<1> QED BY <1>2, <1>3, <1>4, <1>5, <1>7 DEF Next

(* What a pod's capsules have come to stays so.                            *)
LEMMA OutcomesStay ==
    ASSUME \A c \in CapsuleId : CapsuleMoves(c), NEW u, u # NoUID
    PROVE  /\ HasCapsule(u) => HasCapsule(u)'
           /\ Shown(u) => Shown(u)'
           /\ Lost(u) => Lost(u)'
           /\ Cause(u) => Cause(u)'
BY DEF CapsuleMoves, HasCapsule, Shown, Lost, Cause

-----------------------------------------------------------------------------
(* How one step may move what FailInv is about.                            *)

(* The sync judges that the pod under k has failed.                        *)
JudgesFailed(k) ==
    /\ sync.snap[k].uid # NoUID /\ api[k].uid # NoUID /\ pods[k].uid = api[k].uid
    /\ ~ Terminal(api[k].phase)
    /\ UNCHANGED zun
    /\ \/ /\ Found(k)
          /\ sync.managed[k].status = "Error" \/ zun[sync.managed[k].id].age = "stuck"
       \/ /\ ~ Found(k) /\ TenantOf[k] \in sync.covered
          /\ ~ Fresh(k) /\ ~ isTerminal(sync.snap[k])

ApiStep(k) ==
    \/ /\ api'[k].uid = api[k].uid
       /\ api[k].deleting => api'[k].deleting
       /\ Terminal(api[k].phase) => api'[k].phase = api[k].phase
       /\ api'[k].phase = "Failed" => api[k].phase = "Failed" \/ JudgesFailed(k)
    \/ api'[k].uid \notin used /\ api'[k].phase = ""

(* The API server is told of the end of the entry.                         *)
Told(k) == api'[k].uid = pods'[k].uid => Terminal(api'[k].phase)

EntryKept(k) == pods'[k] = pods[k] /\ deleted'[k] = deleted[k]

EntryBegins(k) ==
    /\ pods'[k].uid = worker[k].pod.uid /\ ~ isTerminal(pods'[k])
    /\ deleted'[k] = NoUID /\ worker'[k].op = "idle"
    /\ \/ worker[k].op = "check" /\ authorize(k) /\ Shown(worker[k].pod.uid)
       \/ worker[k].op = "track" /\ pods'[k].age = "fresh"

EntryEnds(k) ==
    /\ worker[k].op = "mark" /\ worker'[k].op = "idle"
    /\ pods'[k].uid # NoUID /\ isTerminal(pods'[k]) /\ Told(k)
    /\ deleted'[k] = pods'[k].uid

EntryDropped(k) == pods'[k] = Untracked /\ deleted'[k] = NoUID /\ sync'.snap[k].uid = NoUID

EntryJudged(k) ==
    /\ sync.snap[k].uid # NoUID /\ sync'.snap[k].uid = NoUID
    /\ pods'[k].uid = pods[k].uid /\ deleted'[k] = deleted[k]
    /\ IF isTerminal(pods'[k]) THEN Told(k) ELSE Found(k)

EntryAges(k) ==
    /\ pods'[k].uid = pods[k].uid /\ pods'[k].phase = pods[k].phase
    /\ deleted'[k] = deleted[k] /\ UNCHANGED zun
    /\ \/ isTerminal(pods[k])
       \/ /\ sync.snap[k].uid = NoUID /\ sync'.snap[k].uid = NoUID
          /\ \A c \in CapsuleId : Alive(c) /\ zun[c].uid = pods[k].uid => zun[c].age # "hidden"

EntryStep(k) == \/ EntryKept(k) \/ EntryBegins(k) \/ EntryEnds(k)
                \/ EntryDropped(k) \/ EntryJudged(k) \/ EntryAges(k)

CallGoesOn(k) ==
    /\ worker'[k].pod = worker[k].pod
    /\ worker'[k].op \in Removing => worker[k].op \in Removing
    /\ worker'[k].op \in Creating => worker[k].op \in Creating
    /\ worker'[k].op = "track" => worker[k].op = "track" \/ HasCapsule(worker[k].pod.uid)'

CallBegins(k) ==
    /\ UNCHANGED <<api, cache, pods, deleted>>
    /\ \/ /\ worker'[k].op = "check" /\ Wanted(cache[k])
          /\ GetPod(k) = NoUID \/ GetPod(k) # cache[k].uid
       \/ /\ worker'[k].op = "delete"
          /\ IF cache[k].uid = NoUID THEN pods[k].uid # NoUID ELSE cache[k].deleting

CallStep(k) == worker'[k].op = "idle" \/ CallGoesOn(k) \/ CallBegins(k)

SyncStep(k) ==
    \/ sync'.snap[k] = Untracked /\ sync'.managed[k] = NotListed
    \/ /\ sync'.snap[k] = pods[k] /\ sync'.managed[k] = NotListed /\ sync'.covered = {}
       /\ UNCHANGED <<pods, zun>>
    \/ /\ sync'.snap[k] = sync.snap[k] /\ sync'.managed[k] = sync.managed[k]
       /\ sync.snap[k].uid # NoUID /\ TenantOf[k] \in sync'.covered => TenantOf[k] \in sync.covered
    \/ /\ sync'.snap[k] = sync.snap[k] /\ sync'.managed[k] = ListManaged(k)
       /\ UNCHANGED <<pods, zun>>

Steps ==
    /\ used \subseteq used' /\ served' \subseteq served
    /\ \A k \in Key : ApiStep(k) /\ CacheMoves(k) /\ EntryStep(k) /\ CallStep(k) /\ SyncStep(k)

-----------------------------------------------------------------------------
(* Such a step preserves FailInv.                                          *)

LEMMA AloneBefore ==
    ASSUME NEW k, used \subseteq used', Alone(k)'
    PROVE  Alone(k)
BY DEF Alone

(* A pod that is alone under its name keeps the name for itself.           *)
LEMMA NameStays ==
    ASSUME PodsInPlace', NEW k \in Key, NEW v \in used, PodKey[v] = k, used \subseteq used',
           Alone(k)', ApiStep(k), api'[k].uid # NoUID
    PROVE  api'[k].uid = v /\ api[k].uid = v /\ (api[k].deleting => api'[k].deleting)
<1>1. api'[k].uid \in used' /\ PodKey[api'[k].uid] = k
    BY DEF PodsInPlace
<1>2. api'[k].uid = v
    BY <1>1 DEF Alone
<1> QED BY <1>2 DEF ApiStep

(* What a listing returns.                                                 *)
LEMMA ListManagedIs ==
    ASSUME NEW k
    PROVE  LET m == ListManaged(k) IN
           IF ListManagedAll(k) = {} THEN m.id = 0
           ELSE m.id \in ListManagedAll(k) /\ m.status = zun[m.id].status
<1> DEFINE all == ListManagedAll(k)
           newest == CHOOSE c \in all : \A d \in all : d <= c
<1>1. CASE all = {}
    BY <1>1 DEF ListManaged, NotListed
<1>2. CASE all # {}
    <2>1. ListManaged(k) = [id |-> newest, status |-> zun[newest].status]
        BY <1>2 DEF ListManaged
    <2>2. all \in SUBSET (1..MaxCapsules) /\ MaxCapsules \in Nat
        BY ProviderAssumption DEF ListManagedAll, CapsuleId
    <2>3. newest \in all
        <3> HIDE DEF all
        <3> QED BY <1>2, <2>2, NewestExists
    <2> HIDE DEF newest
    <2> QED BY <1>2, <2>1, <2>3
<1> QED BY <1>1, <1>2

LEMMA SeenUsed ==
    ASSUME CustodyInv, NEW k \in Key
    PROVE  /\ worker[k].op # "idle" => worker[k].pod.uid \in used /\ PodKey[worker[k].pod.uid] = k
           /\ pods[k].uid # NoUID => pods[k].uid \in used /\ PodKey[pods[k].uid] = k
           /\ sync.snap[k].uid # NoUID => sync.snap[k].uid \in used /\ PodKey[sync.snap[k].uid] = k
           /\ NoUID \notin used
BY ProviderAssumption DEF CustodyInv, CallsSeen, EntriesSeen, SnapsSeen, Seen, SweepInv, TypeOK

LEMMA StepsDeletesEnding ==
    ASSUME CustodyInv, CustodyInv', FailInv, Steps
    PROVE  DeletesEnding'
<1> SUFFICES ASSUME NEW k \in Key, Alone(k)', worker'[k].op \in Removing \/ deleted'[k] # NoUID
             PROVE  Ending(k)'
    BY DEF DeletesEnding
<1>0. /\ used \subseteq used' /\ Alone(k) /\ PodsInPlace' /\ PodsInPlace
      /\ ApiStep(k) /\ CacheMoves(k) /\ EntryStep(k) /\ CallStep(k)
    BY AloneBefore DEF Steps, CustodyInv, SweepInv
<1>1. CASE worker[k].op \in Removing \/ deleted[k] # NoUID
    <2>1. Ending(k)
        BY <1>0, <1>1 DEF FailInv, DeletesEnding
    <2>2. PICK v \in used : PodKey[v] = k
        BY <1>1, SeenUsed DEF FailInv, MarksOwn, Removing
    <2>3. ASSUME api'[k].uid # NoUID PROVE api'[k].deleting
        <3>1. api[k].uid = v /\ (api[k].deleting => api'[k].deleting)
            BY <1>0, <2>2, <2>3, NameStays
        <3>2. v # NoUID
            BY SeenUsed
        <3> QED BY <2>1, <3>1, <3>2 DEF Ending
    <2>4. ASSUME cache'[k].uid # NoUID PROVE cache'[k].deleting
        <3>1. cache'[k] = cache[k] \/ cache'[k] = api[k]
            BY <1>0, <2>4, EmptyFacts DEF CacheMoves, View
        <3> QED BY <2>1, <2>4, <3>1 DEF Ending
    <2> QED BY <2>3, <2>4 DEF Ending
<1>2. CASE ~ (worker[k].op \in Removing \/ deleted[k] # NoUID)
    <2>1. deleted'[k] = NoUID
        BY <1>0, <1>2 DEF EntryStep, EntryKept, EntryBegins, EntryEnds, EntryDropped,
                          EntryJudged, EntryAges, Removing
    <2>2. worker'[k].op \in Removing
        BY <2>1
    <2>3. CallBegins(k)
        BY <1>0, <1>2, <2>2 DEF CallStep, CallGoesOn, Removing
    <2>4. /\ UNCHANGED <<api, cache>>
          /\ IF cache[k].uid = NoUID THEN pods[k].uid # NoUID ELSE cache[k].deleting
        BY <2>2, <2>3 DEF CallBegins, Removing
    <2>5. api[k].uid # NoUID => api[k].uid \in used /\ PodKey[api[k].uid] = k
        BY <1>0 DEF PodsInPlace
    <2>6. CASE cache[k].uid = NoUID
        <3>1. pods[k].uid # NoUID /\ pods[k].uid \in used /\ PodKey[pods[k].uid] = k
            BY <2>4, <2>6, SeenUsed
        <3>2. api[k].uid = pods[k].uid => cache[k].uid = pods[k].uid
            BY <3>1 DEF CustodyInv, EntriesSeen, Seen
        <3>3. api[k].uid = NoUID
            BY <1>0, <2>5, <2>6, <3>1, <3>2 DEF Alone
        <3> QED BY <2>4, <2>6, <3>3 DEF Ending
    <2>7. CASE cache[k].uid # NoUID
        <3>1. cache[k].deleting /\ cache[k].uid \in used /\ PodKey[cache[k].uid] = k
            BY <1>0, <2>4, <2>7 DEF PodsInPlace
        <3>2. api[k].uid # NoUID => api[k].uid = cache[k].uid
            BY <1>0, <2>5, <3>1 DEF Alone
        <3>3. api[k].uid # NoUID => api[k].deleting
            BY <2>7, <3>1, <3>2 DEF CustodyInv, CacheBehind
        <3> QED BY <2>4, <3>1, <3>3 DEF Ending
    <2> QED BY <2>6, <2>7
<1> QED BY <1>1, <1>2

LEMMA StepsCreatesUntracked ==
    ASSUME CustodyInv, FailInv, Steps
    PROVE  CreatesUntracked'
<1> SUFFICES ASSUME NEW k \in Key, Alone(k)', worker'[k].op \in Creating, authorize(k)'
             PROVE  pods'[k].uid = NoUID
    BY DEF CreatesUntracked
<1>0. Alone(k) /\ authorize(k) /\ EntryStep(k) /\ CallStep(k) /\ worker'[k].op # "idle"
    BY AloneBefore DEF Steps, authorize, Creating
<1>1. CASE CallBegins(k)
    <2>1. /\ UNCHANGED pods /\ Wanted(cache[k])
          /\ GetPod(k) = NoUID \/ GetPod(k) # cache[k].uid
        BY <1>1 DEF CallBegins, Creating
    <2> SUFFICES ASSUME pods[k].uid # NoUID PROVE FALSE
        BY <2>1
    <2>2. pods[k].uid = cache[k].uid
        <3>1. cache[k].uid # NoUID /\ cache[k].uid \in used /\ PodKey[cache[k].uid] = k
            BY <2>1 DEF Wanted, CustodyInv, SweepInv, PodsInPlace
        <3> QED BY <1>0, <3>1, SeenUsed DEF Alone
    <2>3. deleted[k] # NoUID
        BY <1>0, <2>1, <2>2 DEF GetPod
    <2>4. Ending(k)
        BY <1>0, <2>3 DEF FailInv, DeletesEnding
    <2> QED BY <2>1, <2>4 DEF Ending, Wanted
<1>2. CASE CallGoesOn(k)
    <2>1. worker[k].op \in Creating /\ pods[k].uid = NoUID
        BY <1>0, <1>2 DEF CallGoesOn, FailInv, CreatesUntracked
    <2> QED BY <1>0, <2>1, EmptyFacts
            DEF EntryStep, EntryKept, EntryBegins, EntryEnds, EntryDropped, EntryJudged, EntryAges
<1> QED BY <1>0, <1>1, <1>2 DEF CallStep

LEMMA StepsTold ==
    ASSUME CustodyInv, FailInv, Steps
    PROVE  EndsTold' /\ MarksOwn'
<1>1. ASSUME NEW k \in Key PROVE deleted'[k] = NoUID \/ deleted'[k] = pods'[k].uid
    BY DEF Steps, FailInv, MarksOwn, EntryStep, EntryKept, EntryBegins, EntryEnds,
           EntryDropped, EntryJudged, EntryAges
<1>2. ASSUME NEW k \in Key, pods'[k].uid # NoUID, isTerminal(pods'[k]),
             api'[k].uid = pods'[k].uid
      PROVE  Terminal(api'[k].phase)
    <2>0. ApiStep(k) /\ EntryStep(k)
        BY DEF Steps
    <2>1. CASE Told(k)
        BY <1>2, <2>1 DEF Told
    <2>2. CASE EntryKept(k) \/ EntryAges(k)
        <3>1. pods[k].uid = pods'[k].uid /\ isTerminal(pods[k])
            BY <1>2, <2>2 DEF EntryKept, EntryAges, isTerminal
        <3>2. pods[k].uid \in used
            BY <1>2, <3>1, SeenUsed
        <3>3. api[k].uid = pods[k].uid /\ (Terminal(api[k].phase) => api'[k].phase = api[k].phase)
            BY <1>2, <2>0, <3>1, <3>2 DEF ApiStep
        <3> QED BY <1>2, <3>1, <3>3 DEF FailInv, EndsTold
    <2> QED BY <1>2, <2>0, <2>1, <2>2, EmptyFacts
            DEF EntryStep, EntryBegins, EntryEnds, EntryDropped, EntryJudged
<1> QED BY <1>1, <1>2 DEF EndsTold, MarksOwn

LEMMA StepsEntriesMade ==
    ASSUME CustodyInv, FailInv, Steps, \A c \in CapsuleId : CapsuleMoves(c)
    PROVE  EntriesMade' /\ TracksMade'
<1>1. ASSUME NEW k \in Key, worker'[k].op = "track" PROVE HasCapsule(worker[k].pod.uid)'
    <2>1. CallGoesOn(k)
        BY <1>1 DEF Steps, CallStep, CallBegins
    <2>2. CASE worker[k].op = "track"
        <3>1. HasCapsule(worker[k].pod.uid) /\ worker[k].pod.uid # NoUID
            BY <2>2, SeenUsed DEF FailInv, TracksMade
        <3>2. worker'[k].pod.uid = worker[k].pod.uid
            BY <2>1 DEF CallGoesOn
        <3> QED BY <3>1, <3>2, OutcomesStay DEF HasCapsule
    <2> QED BY <1>1, <2>1, <2>2 DEF CallGoesOn, HasCapsule
<1>2. ASSUME NEW k \in Key, Alone(k)', pods'[k].uid # NoUID, ~ isTerminal(pods'[k])
      PROVE  HasCapsule(pods[k].uid)' /\ (pods'[k].age # "fresh" => Shown(pods[k].uid)')
    <2> DEFINE u == pods'[k].uid
    <2>0. Alone(k) /\ EntryStep(k) /\ (Shown(u) => HasCapsule(u))
        BY <1>2, AloneBefore DEF Steps, Shown, HasCapsule
    <2>1. HasCapsule(u) /\ (pods'[k].age # "fresh" => Shown(u))
        <3>1. CASE EntryKept(k)
            BY <1>2, <2>0, <3>1 DEF EntryKept, FailInv, EntriesMade
        <3>2. CASE EntryBegins(k)
            BY <2>0, <3>2 DEF EntryBegins, FailInv, TracksMade
        <3>3. CASE EntryJudged(k)
            <4>1. Found(k) /\ sync.snap[k].uid # NoUID /\ pods[k].uid = u
                BY <1>2, <3>3 DEF EntryJudged
            <4>2. sync.snap[k].uid = u
                BY <1>2, <2>0, <4>1, SeenUsed DEF Alone
            <4>3. sync.managed[k].id \in CapsuleId
                BY <4>1, ProviderAssumption
                DEF Found, CustodyInv, SweepInv, TypeOK, SyncState, Listing, CapsuleId
            <4>4. zun[sync.managed[k].id].uid = u /\ zun[sync.managed[k].id].age # "hidden"
                BY <4>1, <4>2 DEF Found, FailInv, ListedIsReal
            <4> QED BY <2>0, <4>3, <4>4 DEF Shown
        <3>4. CASE EntryAges(k)
            <4>1. pods[k].uid = u /\ ~ isTerminal(pods[k])
                BY <1>2, <3>4 DEF EntryAges, isTerminal
            <4>2. PICK c \in CapsuleId : zun[c].uid = u
                BY <1>2, <2>0, <4>1 DEF FailInv, EntriesMade, HasCapsule
            <4>3. Alive(c) \/ zun[c].status = "Gone"
                BY <1>2, <4>2 DEF Alive, FailInv, MadeReal
            <4>4. Shown(u)
                BY <3>4, <4>1, <4>2, <4>3 DEF EntryAges, Shown
            <4> QED BY <2>0, <4>4
        <3> QED BY <1>2, <2>0, <3>1, <3>2, <3>3, <3>4, EmptyFacts
                DEF EntryStep, EntryEnds, EntryDropped
    <2> QED BY <1>2, <2>1, OutcomesStay DEF HasCapsule, Shown
<1> QED BY <1>1, <1>2 DEF EntriesMade, TracksMade

(* A capsule that can be listed under a name was made for a pod of it.     *)
LEMMA ListedMade ==
    ASSUME CustodyInv, NEW k, NEW c \in ListManagedAll(k)
    PROVE  /\ c \in CapsuleId /\ c # 0 /\ zun[c].age # "hidden"
           /\ zun[c].uid # NoUID /\ zun[c].uid \in used /\ PodKey[zun[c].uid] = k
<1>1. c \in CapsuleId /\ Listable(c) /\ PodKey[zun[c].uid] = k
    BY DEF ListManagedAll
<1>2. zun[c] # Unmade /\ zun[c].age # "hidden"
    BY <1>1 DEF Listable, Alive, Unmade
<1>3. zun[c].uid \in used
    BY <1>1, <1>2 DEF CustodyInv, SweepInv, CapsulesInOrder
<1>4. NoUID \notin used /\ c # 0
    BY <1>1, ProviderAssumption DEF CustodyInv, SweepInv, TypeOK, CapsuleId
<1> QED BY <1>1, <1>2, <1>3, <1>4

LEMMA StepsListed ==
    ASSUME CustodyInv, FailInv, Steps, \A c \in CapsuleId : CapsuleMoves(c)
    PROVE  ListedIsReal' /\ MadeReal'
<1>1. MadeReal'
    BY DEF FailInv, MadeReal, CapsuleMoves
<1>2. ASSUME NEW k \in Key, sync'.managed[k].id # 0
      PROVE  LET m == sync'.managed[k] IN
             /\ zun'[m.id].uid # NoUID /\ zun'[m.id].age # "hidden"
             /\ m.status = "Error" => zun'[m.id].status \in Bad
    <2> DEFINE m == sync'.managed[k]
    <2>1. /\ m.id \in CapsuleId /\ zun[m.id].uid # NoUID /\ zun[m.id].age # "hidden"
          /\ m.status = "Error" => zun[m.id].status \in Bad
        <3>1. CASE m = sync.managed[k]
            <4>1. m.id \in CapsuleId
                BY <1>2, <3>1, ProviderAssumption
                DEF CustodyInv, SweepInv, TypeOK, SyncState, Listing, CapsuleId
            <4> QED BY <1>2, <3>1, <4>1 DEF FailInv, ListedIsReal
        <3>2. CASE m = ListManaged(k)
            <4>1. m.id \in ListManagedAll(k) /\ m.status = zun[m.id].status
                BY <1>2, <3>2, ListManagedIs
            <4> QED BY <4>1, ListedMade DEF Bad
        <3>3. CASE m = NotListed
            BY <1>2, <3>3 DEF NotListed
        <3> QED BY <3>1, <3>2, <3>3 DEF Steps, SyncStep
    <2> HIDE DEF m
    <2>2. CapsuleMoves(m.id)
        BY <2>1
    <2> QED BY <2>1, <2>2 DEF CapsuleMoves, m
<1> QED BY <1>1, <1>2 DEF ListedIsReal

LEMMA StepsSnapsHold ==
    ASSUME CustodyInv, FailInv, Steps, \A c \in CapsuleId : CapsuleMoves(c)
    PROVE  SnapsHold'
<1> SUFFICES ASSUME NEW k \in Key, Alone(k)', sync'.snap[k].uid # NoUID
             PROVE  LET s == sync'.snap[k] IN
                    /\ pods'[k].uid # NoUID
                    /\ s.age = "fresh" => pods'[k].age = "fresh" \/ isTerminal(pods'[k])
                    /\ s.age # "fresh" /\ ~ isTerminal(s) =>
                         /\ Shown(sync.snap[k].uid)'
                         /\ TenantOf[k] \in sync'.covered => Found(k)' \/ Lost(sync.snap[k].uid)'
    BY DEF SnapsHold
<1> DEFINE s == sync'.snap[k]
<1>0. Alone(k) /\ EntryStep(k) /\ SyncStep(k)
    BY AloneBefore DEF Steps
<1>1. CASE /\ s = pods[k] /\ sync'.covered = {} /\ UNCHANGED <<pods, zun>>
    <2>1. s.age # "fresh" /\ ~ isTerminal(s) => Shown(s.uid)
        BY <1>0, <1>1 DEF FailInv, EntriesMade
    <2>2. Shown(s.uid) => Shown(sync.snap[k].uid)'
        BY <1>1, OutcomesStay DEF Shown
    <2> QED BY <1>1, <2>1, <2>2
<1>2. CASE s = sync.snap[k]
    <2>1. /\ pods[k].uid # NoUID
          /\ s.age = "fresh" => pods[k].age = "fresh" \/ isTerminal(pods[k])
          /\ s.age # "fresh" /\ ~ isTerminal(s) =>
               /\ Shown(s.uid)
               /\ TenantOf[k] \in sync.covered => Found(k) \/ Lost(s.uid)
        BY <1>0, <1>2 DEF FailInv, SnapsHold
    <2>2. /\ pods'[k].uid # NoUID
          /\ s.age = "fresh" => pods'[k].age = "fresh" \/ isTerminal(pods'[k])
        <3>1. CASE EntryKept(k)
            BY <2>1, <3>1 DEF EntryKept
        <3>2. CASE EntryBegins(k)
            <4>1. worker[k].op # "idle" /\ pods'[k].uid # NoUID
                BY <3>2, SeenUsed DEF EntryBegins
            <4>2. ~ (worker[k].op = "check" /\ authorize(k))
                BY <1>0, <2>1 DEF FailInv, CreatesUntracked, Creating
            <4> QED BY <3>2, <4>1, <4>2 DEF EntryBegins
        <3>3. CASE EntryEnds(k)
            BY <3>3 DEF EntryEnds
        <3>4. CASE EntryAges(k)
            BY <1>2, <2>1, <3>4 DEF EntryAges, isTerminal
        <3> QED BY <1>0, <3>1, <3>2, <3>3, <3>4 DEF EntryStep, EntryDropped, EntryJudged
    <2>3. ASSUME s.age # "fresh", ~ isTerminal(s)
          PROVE  /\ Shown(sync.snap[k].uid)'
                 /\ TenantOf[k] \in sync'.covered => Found(k)' \/ Lost(sync.snap[k].uid)'
        <3>1. Shown(sync.snap[k].uid)'
            BY <2>1, <2>3, OutcomesStay DEF Shown
        <3>2. Lost(s.uid) => Lost(sync.snap[k].uid)'
            BY OutcomesStay DEF Lost
        <3>3. ASSUME sync'.managed[k] = sync.managed[k], Found(k) PROVE Found(k)'
            <4> DEFINE i == sync.managed[k].id
            <4>1. i # 0 /\ zun[i].uid = s.uid
                BY <1>2, <3>3 DEF Found
            <4>2. i \in CapsuleId
                BY <4>1, ProviderAssumption
                DEF CustodyInv, SweepInv, TypeOK, SyncState, Listing, CapsuleId
            <4>3. zun'[i].uid = s.uid
                BY <4>1, <4>2 DEF CapsuleMoves
            <4> QED BY <3>3, <4>1, <4>3 DEF Found
        <3>4. ASSUME sync'.managed[k] = ListManaged(k), UNCHANGED zun PROVE Found(k)' \/ Lost(s.uid)
            <4>1. PICK c \in CapsuleId :
                    zun[c].uid = s.uid /\ (zun[c].age # "hidden" \/ zun[c].status = "Gone")
                BY <2>1, <2>3 DEF Shown
            <4>2. CASE zun[c].status = "Gone"
                BY <4>1, <4>2 DEF Lost
            <4>3. CASE zun[c].status # "Gone"
                <5>1. Listable(c)
                    BY <4>1, <4>3 DEF Listable, Alive, FailInv, MadeReal
                <5>2. s.uid \in used /\ PodKey[s.uid] = k
                    BY <1>2, SeenUsed
                <5>3. c \in ListManagedAll(k)
                    BY <4>1, <5>1, <5>2 DEF ListManagedAll
                <5>4. ListManaged(k).id \in ListManagedAll(k)
                    BY <5>3, ListManagedIs
                <5>5. ListManaged(k).id # 0 /\ zun[ListManaged(k).id].uid = s.uid
                    BY <1>0, <5>2, <5>4, ListedMade DEF Alone
                <5> QED BY <3>4, <5>5 DEF Found
            <4> QED BY <4>2, <4>3
        <3>5. CASE sync'.managed[k] = ListManaged(k) /\ UNCHANGED zun
            BY <3>1, <3>2, <3>4, <3>5
        <3>6. CASE /\ sync'.managed[k] = sync.managed[k]
                   /\ sync.snap[k].uid # NoUID /\ TenantOf[k] \in sync'.covered
                        => TenantOf[k] \in sync.covered
            BY <1>2, <2>1, <2>3, <3>1, <3>2, <3>3, <3>6
        <3>7. CASE s = Untracked
            BY <3>7, EmptyFacts
        <3>8. CASE sync'.covered = {}
            BY <3>1, <3>8
        <3> QED BY <1>0, <3>5, <3>6, <3>7, <3>8 DEF SyncStep
    <2> QED BY <2>2, <2>3
<1>3. CASE s = Untracked
    BY <1>3, EmptyFacts
<1> QED BY <1>0, <1>1, <1>2, <1>3 DEF SyncStep

(* The sync has a cause to fail the first pod of a name.                   *)
LEMMA JudgementIsRight ==
    ASSUME CustodyInv, FailInv, NEW k \in Key, Alone(k), JudgesFailed(k)
    PROVE  Cause(api[k].uid)
<1> DEFINE u == api[k].uid
<1>0. /\ sync.snap[k].uid # NoUID /\ u # NoUID /\ pods[k].uid = u
      /\ ~ Terminal(api[k].phase)
    BY DEF JudgesFailed
<1>1. sync.snap[k].uid = u
    BY <1>0, SeenUsed DEF Alone
<1>2. CASE Found(k) /\ (sync.managed[k].status = "Error" \/ zun[sync.managed[k].id].age = "stuck")
    <2>1. sync.managed[k].id \in CapsuleId
        BY <1>2, ProviderAssumption
        DEF Found, CustodyInv, SweepInv, TypeOK, SyncState, Listing, CapsuleId
    <2> QED BY <1>1, <1>2, <2>1 DEF Found, Cause, FailInv, ListedIsReal
<1>3. CASE /\ ~ Found(k) /\ TenantOf[k] \in sync.covered
           /\ ~ Fresh(k) /\ ~ isTerminal(sync.snap[k])
    <2>1. ~ isTerminal(pods[k])
        BY <1>0 DEF FailInv, EndsTold
    <2>2. sync.snap[k].age # "fresh"
        BY <1>0, <1>1, <1>3, <2>1 DEF Fresh, FailInv, SnapsHold
    <2>3. Lost(u)
        BY <1>0, <1>1, <1>3, <2>2 DEF FailInv, SnapsHold
    <2> QED BY <2>3 DEF Lost, Cause, Bad
<1> QED BY <1>2, <1>3 DEF JudgesFailed

LEMMA StepsPreserve ==
    ASSUME CustodyInv, CustodyInv', FailInv, Steps, \A c \in CapsuleId : CapsuleMoves(c)
    PROVE  FailInv'
<1>1. ASSUME NEW k \in Key, Alone(k)', api'[k].uid # NoUID, api'[k].phase = "Failed"
      PROVE  Cause(api[k].uid)'
    <2>1. /\ api'[k].uid = api[k].uid /\ Alone(k)
          /\ api[k].phase = "Failed" \/ JudgesFailed(k)
        BY <1>1, AloneBefore DEF Steps, ApiStep
    <2>2. Cause(api[k].uid)
        BY <1>1, <2>1, JudgementIsRight DEF FailInv, CauseKnown
    <2> QED BY <1>1, <2>1, <2>2, OutcomesStay DEF Cause
<1>2. CauseKnown'
    BY <1>1 DEF CauseKnown
<1> QED BY <1>2, StepsDeletesEnding, StepsCreatesUntracked, StepsTold, StepsEntriesMade,
           StepsListed, StepsSnapsHold DEF FailInv

-----------------------------------------------------------------------------
(* Every step but a crash moves so.                                        *)

LEMMA ApiKept == ASSUME UNCHANGED api PROVE \A k \in Key : ApiStep(k)
BY DEF ApiStep

LEMMA SyncKept == ASSUME UNCHANGED sync PROVE \A k \in Key : SyncStep(k)
BY DEF SyncStep

LEMMA CallsKept == ASSUME UNCHANGED worker PROVE \A k \in Key : CallStep(k)
BY DEF CallStep, CallGoesOn

(* What a status published for name k does, when it does not fail a pod.   *)
LEMMA NotifyStep ==
    ASSUME TypeOK, NEW k \in Key, NEW e, notify(k, e)
    PROVE  /\ \A j \in Key : j # k => ApiStep(j)
           /\ e.phase # "Failed" => ApiStep(k)
           /\ (e.uid # NoUID /\ e.uid = api[k].uid /\ ~ Terminal(api[k].phase) => JudgesFailed(k))
                => ApiStep(k)
           /\ e.uid # NoUID /\ Terminal(e.phase) /\ api'[k].uid = e.uid => Terminal(api'[k].phase)
<1>1. api \in [Key -> Pod] /\ api[k] \in Pod
    BY DEF TypeOK
<1>2. CASE e.uid # NoUID /\ api[k].uid = e.uid /\ ~ Terminal(api[k].phase)
    <2>1. api' = [api EXCEPT ![k] = [api[k] EXCEPT !.phase = e.phase, !.addr = e.addr]]
        BY <1>2 DEF notify
    <2>2. /\ api'[k].uid = api[k].uid /\ api'[k].deleting = api[k].deleting
          /\ api'[k].phase = e.phase
          /\ \A j \in Key : j # k => api'[j] = api[j]
        BY <1>1, <2>1 DEF Pod
    <2>3. \A j \in Key : j # k => ApiStep(j)
        BY <2>2 DEF ApiStep
    <2>4. e.phase # "Failed" \/ JudgesFailed(k) => ApiStep(k)
        BY <1>2, <2>2 DEF ApiStep
    <2> QED BY <1>2, <2>2, <2>3, <2>4
<1>3. CASE ~ (e.uid # NoUID /\ api[k].uid = e.uid /\ ~ Terminal(api[k].phase))
    <2>1. api' = api
        BY <1>3 DEF notify
    <2> QED BY <1>3, <2>1, ApiKept
<1> QED BY <1>2, <1>3

(* A step of the worker of name k.                                         *)
LEMMA OwnSteps ==
    ASSUME NEW k \in Key, UNCHANGED <<used, cache, served, sync>>,
           \A j \in Key : ApiStep(j),
           \A j \in Key : j # k => /\ worker'[j] = worker[j] /\ pods'[j] = pods[j]
                                   /\ deleted'[j] = deleted[j],
           EntryStep(k), CallStep(k)
    PROVE  Steps
<1>1. \A j \in Key : CacheMoves(j) /\ SyncStep(j)
    BY SyncKept DEF CacheMoves
<1>2. \A j \in Key : EntryStep(j) /\ CallStep(j)
    BY DEF EntryStep, EntryKept, CallStep, CallGoesOn
<1> QED BY <1>1, <1>2 DEF Steps

LEMMA CreateSteps ==
    ASSUME CustodyInv, NEW k \in Key, Create(k)
    PROVE  Steps
<1> USE DEF outside
<1>0. /\ TypeOK /\ worker \in [Key -> CallState] /\ pods \in [Key -> Tracked]
      /\ deleted \in [Key -> UID \cup {NoUID}] /\ worker[k] \in CallState
    BY DEF CustodyInv, SweepInv, TypeOK
<1>1. CASE CallCreatePod(k) \/ CallUpdatePod(k)
    <2>1. UNCHANGED <<used, cache, served, sync, api, pods, deleted>>
        BY <1>1 DEF CallCreatePod, CallUpdatePod
    <2>2. /\ Wanted(cache[k])
          /\ \/ UNCHANGED worker
             \/ /\ worker' = [worker EXCEPT ![k] = [op |-> "check", pod |-> cache[k]]]
                /\ GetPod(k) = NoUID \/ GetPod(k) # cache[k].uid
        BY <1>1 DEF CallCreatePod, CallUpdatePod, Call
    <2>3. CallStep(k) /\ \A j \in Key : j # k => worker'[j] = worker[j]
        <3>1. CASE UNCHANGED worker
            BY <3>1, CallsKept
        <3>2. CASE /\ worker' = [worker EXCEPT ![k] = [op |-> "check", pod |-> cache[k]]]
                   /\ GetPod(k) = NoUID \/ GetPod(k) # cache[k].uid
            <4>1. worker'[k].op = "check" /\ \A j \in Key : j # k => worker'[j] = worker[j]
                BY <1>0, <3>2
            <4> QED BY <2>1, <2>2, <3>2, <4>1 DEF CallStep, CallBegins
        <3> QED BY <2>2, <3>1, <3>2
    <2>4. EntryStep(k)
        BY <2>1 DEF EntryStep, EntryKept
    <2> QED BY <2>1, <2>3, <2>4, ApiKept, OwnSteps
<1>2. CASE CreateAdopts(k)
    <2> DEFINE pod == worker[k].pod
               e(a) == [uid |-> pod.uid,
                        phase |-> IF pod.phase = "" THEN "Pending" ELSE pod.phase,
                        addr |-> pod.addr, age |-> a]
    <2>1. PICK a : pods' = [pods EXCEPT ![k] = e(a)]
        BY <1>2, Zenon DEF CreateAdopts, adoptPod
    <2>2. pods'[k] = e(a) /\ \A j \in Key : j # k => pods'[j] = pods[j]
        BY <1>0, <2>1
    <2>3. /\ worker[k].op = "check" /\ authorize(k) /\ CapsuleOf(k)
          /\ UNCHANGED <<used, cache, served, api, sync>>
          /\ worker' = [worker EXCEPT ![k] = Idle]
          /\ deleted' = [deleted EXCEPT ![k] = NoUID]
        BY <1>2 DEF CreateAdopts, adoptPod, Return
    <2>4. e(a).uid = pod.uid /\ ~ isTerminal(e(a))
        <3>1. ~ Terminal(pod.phase)
            BY <2>3 DEF CustodyInv, CreationDue
        <3> HIDE DEF pod
        <3> QED BY <3>1 DEF isTerminal, Terminal
    <2>5. Shown(pod.uid)
        <3>1. ListManaged(k).id # 0 /\ zun[ListManaged(k).id].uid = pod.uid
            BY <2>3 DEF CapsuleOf
        <3>2. ListManaged(k).id \in ListManagedAll(k)
            BY <3>1, ListManagedIs
        <3> QED BY <3>1, <3>2, ListedMade DEF Shown
    <2> HIDE DEF e
    <2>6. /\ worker'[k].op = "idle" /\ deleted'[k] = NoUID
          /\ \A j \in Key : j # k => worker'[j] = worker[j] /\ deleted'[j] = deleted[j]
        BY <1>0, <2>3 DEF Idle
    <2>7. EntryStep(k) /\ CallStep(k)
        BY <2>2, <2>3, <2>4, <2>5, <2>6 DEF EntryStep, EntryBegins, CallStep
    <2> QED BY <2>2, <2>3, <2>6, <2>7, ApiKept, OwnSteps
<1>3. CASE CreateProceeds(k) \/ CreateListFails(k) \/ CreateCapsule(k)
    <2>1. PICK op \in {"build", "track"} : worker' = [worker EXCEPT ![k].op = op]
        BY <1>3 DEF CreateProceeds, CreateListFails, CreateCapsule, Goto
    <2>2. /\ worker[k].op \in Creating
          /\ UNCHANGED <<used, cache, served, api, pods, deleted, sync>>
        BY <1>3 DEF CreateProceeds, CreateListFails, CreateCapsule, Creating
    <2>3. /\ worker'[k].pod = worker[k].pod /\ worker'[k].op = op
          /\ \A j \in Key : j # k => worker'[j] = worker[j]
        BY <1>0, <2>1 DEF CallState
    <2>4. op = "track" => HasCapsule(worker[k].pod.uid)'
        <3> SUFFICES ASSUME op = "track" PROVE HasCapsule(worker[k].pod.uid)'
            OBVIOUS
        <3>1. worker'[k].op = "track"
            BY <2>3
        <3>2. CASE CreateCapsule(k)
            <4>1. /\ made < MaxCapsules
                  /\ zun' = [zun EXCEPT ![made + 1] = [uid |-> worker[k].pod.uid,
                                          status |-> "Creating", age |-> "hidden"]]
                BY <3>2 DEF CreateCapsule, ZunCreate
            <4>2. made + 1 \in CapsuleId /\ zun \in [CapsuleId -> Capsule]
                BY <1>0, <4>1, ProviderAssumption DEF TypeOK, CapsuleId
            <4>3. zun'[made + 1].uid = worker[k].pod.uid
                BY <4>1, <4>2
            <4> QED BY <2>3, <4>2, <4>3 DEF HasCapsule
        <3>3. CASE CreateProceeds(k) \/ CreateListFails(k)
            <4>1. worker' = [worker EXCEPT ![k].op = "build"]
                BY <3>3 DEF CreateProceeds, CreateListFails, Goto
            <4>2. worker'[k].op = "build"
                BY <1>0, <4>1 DEF CallState
            <4> QED BY <3>1, <4>2
        <3> QED BY <1>3, <3>2, <3>3
    <2>5. CallStep(k) /\ EntryStep(k)
        BY <2>2, <2>3, <2>4 DEF CallStep, CallGoesOn, EntryStep, EntryKept, Removing
    <2> QED BY <2>2, <2>3, <2>5, ApiKept, OwnSteps
<1>4. CASE CreateRefused(k) \/ CreateAnswerLost(k)
    <2>1. /\ worker' = [worker EXCEPT ![k] = Idle]
          /\ UNCHANGED <<used, cache, served, api, pods, deleted, sync>>
        BY <1>4 DEF CreateRefused, CreateAnswerLost, Return
    <2>2. worker'[k].op = "idle" /\ \A j \in Key : j # k => worker'[j] = worker[j]
        BY <1>0, <2>1 DEF Idle
    <2> QED BY <2>1, <2>2, ApiKept, OwnSteps DEF EntryStep, EntryKept, CallStep
<1>5. CASE trackPod(k)
    <2> DEFINE e == [uid |-> worker[k].pod.uid, phase |-> "Pending",
                     addr |-> worker[k].pod.addr, age |-> "fresh"]
    <2>1. /\ notify(k, e) /\ pods' = [pods EXCEPT ![k] = e] /\ worker[k].op = "track"
          /\ worker' = [worker EXCEPT ![k] = Idle] /\ deleted' = [deleted EXCEPT ![k] = NoUID]
          /\ UNCHANGED <<used, cache, served, sync>>
        BY <1>5 DEF trackPod, Return
    <2>2. e.uid = worker[k].pod.uid /\ ~ isTerminal(e) /\ e.phase = "Pending" /\ e.age = "fresh"
        BY DEF isTerminal, Terminal
    <2> HIDE DEF e
    <2>3. \A j \in Key : ApiStep(j)
        BY <1>0, <2>1, <2>2, NotifyStep
    <2>4. /\ worker'[k].op = "idle" /\ deleted'[k] = NoUID /\ pods'[k] = e
          /\ \A j \in Key : j # k => /\ worker'[j] = worker[j] /\ deleted'[j] = deleted[j]
                                     /\ pods'[j] = pods[j]
        BY <1>0, <2>1 DEF Idle
    <2>5. EntryStep(k) /\ CallStep(k)
        BY <2>1, <2>2, <2>4 DEF EntryStep, EntryBegins, CallStep
    <2> QED BY <2>1, <2>3, <2>4, <2>5, OwnSteps
<1> QED BY <1>1, <1>2, <1>3, <1>4, <1>5 DEF Create

LEMMA DeleteSteps ==
    ASSUME CustodyInv, NEW k \in Key, Delete(k)
    PROVE  Steps
<1> USE DEF outside
<1>0. /\ TypeOK /\ worker \in [Key -> CallState] /\ pods \in [Key -> Tracked]
      /\ deleted \in [Key -> UID \cup {NoUID}] /\ worker[k] \in CallState
    BY DEF CustodyInv, SweepInv, TypeOK
<1>1. CASE CallDeletePod(k)
    <2>1. UNCHANGED <<used, cache, served, sync, api, pods, deleted>>
        BY <1>1 DEF CallDeletePod
    <2>2. PICK pod : /\ worker' = [worker EXCEPT ![k] = [op |-> "delete", pod |-> pod]]
                     /\ IF cache[k].uid = NoUID THEN pods[k].uid # NoUID ELSE cache[k].deleting
        <3>1. GetPod(k) # NoUID => pods[k].uid # NoUID
            BY DEF GetPod
        <3> QED BY <1>1, <3>1, Zenon DEF CallDeletePod, Call
    <2>3. worker'[k].op = "delete" /\ \A j \in Key : j # k => worker'[j] = worker[j]
        BY <1>0, <2>2
    <2>4. EntryStep(k) /\ CallStep(k)
        BY <2>1, <2>2, <2>3 DEF EntryStep, EntryKept, CallStep, CallBegins
    <2> QED BY <2>1, <2>3, <2>4, ApiKept, OwnSteps
<1>2. CASE CallNothing(k)
    <2>1. UNCHANGED <<used, cache, served, sync, api, pods, deleted, worker>>
        BY <1>2 DEF CallNothing
    <2> QED BY <2>1, ApiKept, CallsKept, OwnSteps DEF EntryStep, EntryKept
<1>3. CASE DeleteUnserved(k) \/ DeleteFails(k)
    <2>1. /\ worker' = [worker EXCEPT ![k] = Idle]
          /\ UNCHANGED <<used, cache, served, api, pods, deleted, sync>>
        BY <1>3 DEF DeleteUnserved, DeleteFails, Return
    <2>2. worker'[k].op = "idle" /\ \A j \in Key : j # k => worker'[j] = worker[j]
        BY <1>0, <2>1 DEF Idle
    <2> QED BY <2>1, <2>2, ApiKept, OwnSteps DEF EntryStep, EntryKept, CallStep
<1>4. CASE DeleteCapsule(k)
    <2>1. /\ worker' = [worker EXCEPT ![k].op = "mark"] /\ worker[k].op = "delete"
          /\ UNCHANGED <<used, cache, served, api, pods, deleted, sync>>
        BY <1>4 DEF DeleteCapsule, Goto
    <2>2. /\ worker'[k].pod = worker[k].pod /\ worker'[k].op = "mark"
          /\ \A j \in Key : j # k => worker'[j] = worker[j]
        BY <1>0, <2>1 DEF CallState
    <2>3. CallStep(k) /\ EntryStep(k)
        BY <2>1, <2>2 DEF CallStep, CallGoesOn, EntryStep, EntryKept, Removing, Creating
    <2> QED BY <2>1, <2>2, <2>3, ApiKept, OwnSteps
<1>5. CASE MarkDeleted(k)
    <2> DEFINE pod == worker[k].pod
               tracked == IF pods[k].uid # NoUID THEN pods[k]
                          ELSE [uid |-> pod.uid, phase |-> pod.phase, addr |-> pod.addr,
                                age |-> "settled"]
               e == [tracked EXCEPT !.phase = "Succeeded", !.age = "settled"]
    <2>1. /\ notify(k, e) /\ pods' = [pods EXCEPT ![k] = e] /\ worker[k].op = "mark"
          /\ worker' = [worker EXCEPT ![k] = Idle] /\ deleted' = [deleted EXCEPT ![k] = e.uid]
          /\ UNCHANGED <<used, cache, served, sync>>
        BY <1>5 DEF MarkDeleted, Return
    <2>2. tracked \in Tracked /\ tracked.uid # NoUID
        <3>1. pod.uid # NoUID
            BY <2>1, SeenUsed
        <3> QED BY <1>0, <3>1 DEF CallState, Pod, Tracked
    <2>3. e.uid # NoUID /\ e.phase = "Succeeded"
        <3> HIDE DEF tracked
        <3> QED BY <2>2 DEF Tracked
    <2> HIDE DEF e
    <2>4. /\ worker'[k].op = "idle" /\ deleted'[k] = e.uid /\ pods'[k] = e
          /\ \A j \in Key : j # k => /\ worker'[j] = worker[j] /\ deleted'[j] = deleted[j]
                                     /\ pods'[j] = pods[j]
        BY <1>0, <2>1 DEF Idle
    <2>5. Terminal(e.phase)
        BY <2>3 DEF Terminal
    <2>6. (\A j \in Key : ApiStep(j)) /\ Told(k)
        BY <1>0, <2>1, <2>3, <2>4, <2>5, NotifyStep DEF Told
    <2>7. EntryStep(k) /\ CallStep(k)
        BY <2>1, <2>3, <2>4, <2>5, <2>6 DEF EntryStep, EntryEnds, CallStep, isTerminal
    <2> QED BY <2>1, <2>4, <2>6, <2>7, OwnSteps
<1> QED BY <1>1, <1>2, <1>3, <1>4, <1>5 DEF Delete

(* What the end of a cycle leaves of a name.                               *)
LEMMA EndIfDoneStep ==
    ASSUME NEW s, NEW k \in Key
    PROVE  \/ EndIfDone(s) = s
           \/ EndIfDone(s).snap[k] = Untracked /\ EndIfDone(s).managed[k] = NotListed
BY DEF EndIfDone, IdleSync

LEMMA JudgedSteps ==
    ASSUME TypeOK, NEW k \in Key, Judged(k)
    PROVE  sync'.snap[k].uid = NoUID /\ \A j \in Key : SyncStep(j)
<1> DEFINE s == [sync EXCEPT !.snap[k] = Untracked, !.managed[k] = NotListed]
<1>1. sync' = EndIfDone(s) /\ sync \in SyncState
    BY DEF Judged, TypeOK
<1>2. /\ s.snap[k] = Untracked /\ s.managed[k] = NotListed /\ s.covered = sync.covered
      /\ \A j \in Key : j # k => s.snap[j] = sync.snap[j] /\ s.managed[j] = sync.managed[j]
    BY <1>1 DEF SyncState
<1> HIDE DEF s
<1>3. sync'.snap[k].uid = NoUID
    BY <1>1, <1>2, EndIfDoneStep, EmptyFacts
<1>4. ASSUME NEW j \in Key PROVE SyncStep(j)
    <2>1. CASE sync' = s
        BY <1>2, <2>1 DEF SyncStep
    <2>2. CASE sync'.snap[j] = Untracked /\ sync'.managed[j] = NotListed
        BY <2>2 DEF SyncStep
    <2> QED BY <1>1, <2>1, <2>2, EndIfDoneStep
<1> QED BY <1>3, <1>4

LEMMA UpdateStatusStep ==
    ASSUME TypeOK, NEW k \in Key, NEW phase, NEW addr, updateStatus(k, phase, addr),
           UNCHANGED deleted, sync.snap[k].uid # NoUID, sync'.snap[k].uid = NoUID,
           Terminal(phase) \/ Found(k),
           /\ phase = "Failed" /\ api[k].uid # NoUID /\ pods[k].uid = api[k].uid
           /\ ~ Terminal(api[k].phase)
           => JudgesFailed(k)
    PROVE  \A j \in Key : ApiStep(j) /\ EntryStep(j)
<1>1. CASE UNCHANGED <<pods, api>>
    BY <1>1, ApiKept DEF EntryStep, EntryKept
<1>2. CASE ~ UNCHANGED <<pods, api>>
    <2> DEFINE age == IF Terminal(phase) /\ isTerminal(pods[k]) THEN pods[k].age
                      ELSE IF Terminal(phase) \/ pods[k].age = "expired" THEN "settled"
                      ELSE pods[k].age
               e == [pods[k] EXCEPT !.phase = phase, !.addr = addr, !.age = age]
    <2>1. pods' = [pods EXCEPT ![k] = e] /\ notify(k, e) /\ pods[k].uid # NoUID
        BY <1>2 DEF updateStatus
    <2>2. pods \in [Key -> Tracked] /\ pods[k] \in Tracked
        BY DEF TypeOK
    <2>3. e.uid = pods[k].uid /\ e.phase = phase
        <3> HIDE DEF age
        <3> QED BY <2>2 DEF Tracked
    <2> HIDE DEF e
    <2>4. pods'[k] = e /\ \A j \in Key : j # k => pods'[j] = pods[j]
        BY <2>1, <2>2
    <2>5. \A j \in Key : ApiStep(j)
        <3>1. ApiStep(k)
            <4>1. CASE phase # "Failed"
                BY <2>1, <2>3, <4>1, NotifyStep
            <4>2. CASE phase = "Failed"
                <5>1. e.uid # NoUID /\ e.uid = api[k].uid /\ ~ Terminal(api[k].phase)
                        => JudgesFailed(k)
                    BY <2>3, <4>2
                <5> QED BY <2>1, <5>1, NotifyStep
            <4> QED BY <4>1, <4>2
        <3> QED BY <2>1, <3>1, NotifyStep
    <2>6. isTerminal(pods'[k]) => Told(k)
        BY <2>1, <2>3, <2>4, NotifyStep DEF Told, isTerminal
    <2>7. EntryJudged(k)
        BY <2>3, <2>4, <2>6 DEF EntryJudged, isTerminal
    <2> QED BY <2>4, <2>5, <2>7 DEF EntryStep, EntryKept
<1> QED BY <1>1, <1>2

LEMMA JudgeSteps ==
    ASSUME CustodyInv, NEW k \in Key, Judge(k)
    PROVE  Steps
<1> USE DEF outside
<1>0. TypeOK
    BY DEF CustodyInv, SweepInv
<1>1. /\ Judged(k) /\ Judging(k) /\ UNCHANGED <<used, cache, served, worker>>
    BY DEF Judge, JudgeSkips, reclaimFinished, JudgeDrops, JudgeMissing, JudgeReports
<1>2. /\ sync'.snap[k].uid = NoUID /\ sync.snap[k].uid # NoUID
      /\ \A j \in Key : SyncStep(j)
    BY <1>0, <1>1, JudgedSteps DEF Judging, Snapped
<1>3. \A j \in Key : CacheMoves(j) /\ CallStep(j)
    BY <1>1, CallsKept DEF CacheMoves
<1>4. \A j \in Key : ApiStep(j) /\ EntryStep(j)
    <2>1. CASE JudgeSkips(k) \/ reclaimFinished(k)
        <3>1. UNCHANGED <<api, pods, deleted>>
            BY <2>1 DEF JudgeSkips, reclaimFinished
        <3> QED BY <3>1, ApiKept DEF EntryStep, EntryKept
    <2>2. CASE JudgeDrops(k)
        <3>1. /\ UNCHANGED api /\ pods' = [pods EXCEPT ![k] = Untracked]
              /\ deleted' = [deleted EXCEPT ![k] = NoUID]
            BY <2>2 DEF JudgeDrops
        <3>2. /\ pods'[k] = Untracked /\ deleted'[k] = NoUID
              /\ \A j \in Key : j # k => pods'[j] = pods[j] /\ deleted'[j] = deleted[j]
            BY <1>0, <3>1 DEF TypeOK
        <3> QED BY <1>2, <3>1, <3>2, ApiKept DEF EntryStep, EntryDropped, EntryKept
    <2>3. CASE JudgeMissing(k)
        <3>1. /\ ~ Found(k) /\ TenantOf[k] \in sync.covered /\ ~ isTerminal(sync.snap[k])
              /\ UNCHANGED <<deleted, zun>>
              /\ \/ ~ Fresh(k) /\ updateStatus(k, "Failed", pods[k].addr)
                 \/ UNCHANGED <<pods, api>>
            BY <2>3 DEF JudgeMissing, Covered
        <3>2. CASE ~ Fresh(k) /\ updateStatus(k, "Failed", pods[k].addr)
            <4>1. /\ api[k].uid # NoUID /\ pods[k].uid = api[k].uid /\ ~ Terminal(api[k].phase)
                  => JudgesFailed(k)
                BY <1>2, <3>1, <3>2 DEF JudgesFailed
            <4>2. Terminal("Failed")
                BY DEF Terminal
            <4> QED BY <1>0, <1>2, <3>1, <3>2, <4>1, <4>2, UpdateStatusStep
        <3>3. CASE UNCHANGED <<pods, api>>
            BY <3>1, <3>3, ApiKept DEF EntryStep, EntryKept
        <3> QED BY <3>1, <3>2, <3>3
    <2>4. CASE JudgeReports(k)
        <3>1. /\ Found(k) /\ UNCHANGED <<deleted, zun>>
              /\ \/ /\ zun[sync.managed[k].id].age = "stuck"
                    /\ updateStatus(k, "Failed", pods[k].addr)
                 \/ \E addr : updateStatus(k, PhaseOf(sync.managed[k].status), addr)
            BY <2>4, Zenon DEF JudgeReports
        <3>2. PhaseOf(sync.managed[k].status) = "Failed" => sync.managed[k].status = "Error"
            BY DEF PhaseOf
        <3>3. CASE /\ zun[sync.managed[k].id].age = "stuck"
                   /\ updateStatus(k, "Failed", pods[k].addr)
            <4>1. /\ api[k].uid # NoUID /\ pods[k].uid = api[k].uid /\ ~ Terminal(api[k].phase)
                  => JudgesFailed(k)
                BY <1>2, <3>1, <3>3 DEF JudgesFailed
            <4> QED BY <1>0, <1>2, <3>1, <3>3, <4>1, UpdateStatusStep
        <3>4. ASSUME NEW addr, updateStatus(k, PhaseOf(sync.managed[k].status), addr)
              PROVE  \A j \in Key : ApiStep(j) /\ EntryStep(j)
            <4>1. /\ PhaseOf(sync.managed[k].status) = "Failed"
                  /\ api[k].uid # NoUID /\ pods[k].uid = api[k].uid /\ ~ Terminal(api[k].phase)
                  => JudgesFailed(k)
                BY <1>2, <3>1, <3>2 DEF JudgesFailed
            <4> QED BY <1>0, <1>2, <3>1, <3>4, <4>1, UpdateStatusStep
        <3> QED BY <3>1, <3>3, <3>4
    <2> QED BY <2>1, <2>2, <2>3, <2>4 DEF Judge
<1> QED BY <1>1, <1>2, <1>3, <1>4 DEF Steps

LEMMA ListingSteps ==
    ASSUME TypeOK, NEW t \in Tenant,
           SyncListTenant(t) \/ SyncSkipTenant(t) \/ SyncListFails(t), NEW k \in Key
    PROVE  SyncStep(k)
<1>0. sync \in SyncState
    BY DEF TypeOK
<1>1. CASE SyncListTenant(t)
    <2> DEFINE managed == [j \in Key |-> IF TenantOf[j] = t /\ j \in Snapped
                                         THEN ListManaged(j) ELSE sync.managed[j]]
               s == [sync EXCEPT !.todo = @ \ {t}, !.covered = @ \cup {t}, !.managed = managed]
    <2>1. sync' = EndIfDone(s) /\ UNCHANGED <<pods, zun>>
        BY <1>1 DEF SyncListTenant
    <2>2. s.snap = sync.snap /\ s.covered = sync.covered \cup {t} /\ s.managed = managed
        <3> HIDE DEF managed
        <3> QED BY <1>0 DEF SyncState
    <2>3. managed[k] = IF TenantOf[k] = t /\ k \in Snapped THEN ListManaged(k) ELSE sync.managed[k]
        OBVIOUS
    <2> HIDE DEF s, managed
    <2>4. CASE sync' = s
        <3>1. CASE TenantOf[k] = t /\ k \in Snapped
            BY <2>1, <2>2, <2>3, <2>4, <3>1 DEF SyncStep
        <3>2. CASE ~ (TenantOf[k] = t /\ k \in Snapped)
            BY <2>2, <2>3, <2>4, <3>2 DEF SyncStep, Snapped
        <3> QED BY <3>1, <3>2
    <2> QED BY <2>1, <2>4, EndIfDoneStep DEF SyncStep
<1>2. CASE SyncSkipTenant(t)
    <2> DEFINE s == [sync EXCEPT !.todo = @ \ {t}]
    <2>1. sync' = EndIfDone(s)
        BY <1>2 DEF SyncSkipTenant
    <2>2. s.snap = sync.snap /\ s.covered = sync.covered /\ s.managed = sync.managed
        BY <1>0 DEF SyncState
    <2> HIDE DEF s
    <2> QED BY <2>1, <2>2, EndIfDoneStep DEF SyncStep
<1>3. CASE SyncListFails(t)
    BY <1>3 DEF SyncListFails, SyncStep, IdleSync
<1> QED BY <1>1, <1>2, <1>3

LEMMA SyncSteps ==
    ASSUME CustodyInv, Sync
    PROVE  Steps
<1> USE DEF outside
<1>0. TypeOK
    BY DEF CustodyInv, SweepInv
<1>1. CASE SyncSnapshot
    <2>1. UNCHANGED <<used, cache, served, worker, api, pods, deleted, zun>>
        BY <1>1 DEF SyncSnapshot
    <2>2. /\ sync'.snap = pods /\ sync'.covered = {}
          /\ sync'.managed = [k \in Key |-> NotListed]
        BY <1>1 DEF SyncSnapshot, IdleSync
    <2>3. \A k \in Key : SyncStep(k)
        BY <2>1, <2>2 DEF SyncStep
    <2> QED BY <2>1, <2>3, ApiKept, CallsKept DEF Steps, CacheMoves, EntryStep, EntryKept
<1>2. ASSUME NEW t \in Tenant, SyncListTenant(t) \/ SyncSkipTenant(t) \/ SyncListFails(t)
      PROVE  Steps
    <2>1. UNCHANGED <<used, cache, served, worker, api, pods, deleted>>
        BY <1>2 DEF SyncListTenant, SyncSkipTenant, SyncListFails
    <2>2. \A k \in Key : SyncStep(k)
        BY <1>0, <1>2, ListingSteps
    <2> QED BY <2>1, <2>2, ApiKept, CallsKept DEF Steps, CacheMoves, EntryStep, EntryKept
<1> QED BY <1>1, <1>2, JudgeSteps DEF Sync

LEMMA SweepSteps ==
    ASSUME Sweeping
    PROVE  Steps
<1>1. UNCHANGED <<used, cache, served, worker, api, pods, deleted, sync>>
    BY DEF Sweeping, SweepList, SweepJudge, SweepDelete, outside
<1> QED BY <1>1, ApiKept, CallsKept, SyncKept DEF Steps, CacheMoves, EntryStep, EntryKept

LEMMA EnvironmentSteps ==
    ASSUME CustodyInv, SlowWalk = FALSE, Environment
    PROVE  Steps \/ Crash
<1> USE DEF outside
<1>0. TypeOK
    BY DEF CustodyInv, SweepInv
<1>1. ASSUME UNCHANGED <<worker, pods, deleted, sync>>, used \subseteq used', served' \subseteq served,
             \A k \in Key : ApiStep(k) /\ CacheMoves(k)
      PROVE  Steps
    BY <1>1, CallsKept, SyncKept DEF Steps, EntryStep, EntryKept
<1>2. ASSUME NEW u \in UID, AddPod(u) PROVE Steps
    <2>1. \A k \in Key : ApiStep(k)
        BY <1>0, <1>2, ProviderAssumption DEF AddPod, ApiStep, TypeOK, NoPod
    <2>2. /\ UNCHANGED <<worker, pods, deleted, sync, cache, served>> /\ used \subseteq used'
        BY <1>2 DEF AddPod
    <2> QED BY <1>1, <2>1, <2>2 DEF CacheMoves
<1>3. ASSUME NEW k \in Key, RequestDeletion(k) \/ RemoveByForce(k) \/ RemoveFinished(k)
      PROVE  Steps
    <2>1. \A j \in Key : ApiStep(j)
        <3>1. api \in [Key -> Pod] /\ api[k] \in Pod
            BY <1>0 DEF TypeOK
        <3>2. NoUID \notin used
            BY <1>0, ProviderAssumption DEF TypeOK
        <3>3. CASE RequestDeletion(k)
            <4>1. api' = [api EXCEPT ![k] = [api[k] EXCEPT !.deleting = TRUE]]
                BY <3>3 DEF RequestDeletion
            <4>2. /\ api'[k].uid = api[k].uid /\ api'[k].deleting /\ api'[k].phase = api[k].phase
                  /\ \A j \in Key : j # k => api'[j] = api[j]
                BY <3>1, <4>1, Zenon DEF Pod
            <4> QED BY <4>2 DEF ApiStep
        <3>4. CASE RemoveByForce(k) \/ RemoveFinished(k)
            <4>1. api'[k] = NoPod /\ \A j \in Key : j # k => api'[j] = api[j]
                BY <3>1, <3>4 DEF RemoveByForce, RemoveFinished
            <4>2. NoPod.uid = NoUID /\ NoPod.phase = ""
                BY DEF NoPod
            <4> QED BY <3>2, <4>1, <4>2 DEF ApiStep
        <3> QED BY <1>3, <3>3, <3>4
    <2>2. UNCHANGED <<used, cache, served, worker, pods, deleted, sync>>
        BY <1>3 DEF RequestDeletion, RemoveByForce, RemoveFinished
    <2> QED BY <1>1, <2>1, <2>2 DEF CacheMoves
<1>4. ASSUME NEW k \in Key, CacheUpdate(k) PROVE Steps
    <2>1. \A j \in Key : CacheMoves(j)
        BY <1>0, <1>4 DEF CacheUpdate, CacheMoves, TypeOK
    <2>2. UNCHANGED <<used, served, worker, pods, deleted, sync, api>>
        BY <1>4 DEF CacheUpdate
    <2> QED BY <1>1, <2>1, <2>2, ApiKept
<1>5. ASSUME NEW k \in Key, AgePod(k) PROVE Steps
    <2>1. UNCHANGED <<used, cache, served, worker, deleted, sync, api, zun>>
        BY <1>5 DEF AgePod
    <2>2. PICK age : pods' = [pods EXCEPT ![k] = [pods[k] EXCEPT !.age = age]]
        BY <1>5 DEF AgePod
    <2>3. /\ pods'[k].uid = pods[k].uid /\ pods'[k].phase = pods[k].phase
          /\ \A j \in Key : j # k => pods'[j] = pods[j]
        BY <1>0, <2>2 DEF TypeOK, Tracked
    <2>4. \/ isTerminal(pods[k])
          \/ /\ sync.snap[k].uid = NoUID
             /\ \A c \in CapsuleId : Alive(c) /\ zun[c].uid = pods[k].uid => zun[c].age # "hidden"
        BY <1>5 DEF AgePod, SyncIdle, Snapped
    <2>5. EntryAges(k)
        BY <2>1, <2>3, <2>4 DEF EntryAges
    <2>6. \A j \in Key : EntryStep(j)
        BY <2>1, <2>3, <2>5 DEF EntryStep, EntryKept
    <2> QED BY <2>1, <2>6, ApiKept, CallsKept, SyncKept DEF Steps, CacheMoves
<1>6. CASE \E u \in UID : CreateElsewhere(u)
    BY <1>1, <1>6, ApiKept DEF CreateElsewhere, CacheMoves
<1>7. CASE \E t \in Tenant : StopServing(t)
    BY <1>1, <1>7, ApiKept DEF StopServing, CacheMoves
<1>8. CASE \E c \in CapsuleId :
             ZunBuilds(c) \/ ZunReports(c) \/ ZunRemoves(c) \/ ZunLoses(c) \/ AgeCapsule(c)
    <2>1. \E c, status, age : SetCapsule(c, status, age)
        BY <1>8 DEF ZunBuilds, ZunReports, ZunRemoves, ZunLoses, AgeCapsule
    <2> QED BY <1>1, <2>1, ApiKept DEF SetCapsule, CacheMoves
<1>9. CASE CacheList
    BY <1>1, <1>9, ApiKept DEF CacheList, CacheMoves
<1> QED BY <1>2, <1>3, <1>4, <1>5, <1>6, <1>7, <1>8, <1>9 DEF Environment

-----------------------------------------------------------------------------
(* The theorem.                                                            *)

LEMMA InitFail == Init => FailInv
<1> SUFFICES ASSUME Init PROVE FailInv
    OBVIOUS
<1>1. MadeReal /\ CauseKnown
    BY DEF Init, MadeReal, CauseKnown, Unmade, NoPod
<1>2. TracksMade /\ DeletesEnding /\ CreatesUntracked
    BY DEF Init, TracksMade, DeletesEnding, CreatesUntracked, Ending, Idle, NoPod, Creating, Removing
<1>3. MarksOwn /\ EndsTold /\ EntriesMade
    BY EmptyFacts DEF Init, MarksOwn, EndsTold, EntriesMade
<1>4. ListedIsReal /\ SnapsHold
    BY EmptyFacts DEF Init, ListedIsReal, SnapsHold, IdleSync, NotListed
<1> QED BY <1>1, <1>2, <1>3, <1>4 DEF FailInv

(* A crash leaves the API server and Zun, and nothing to be wrong about.   *)
LEMMA CrashFail == ASSUME FailInv, Crash PROVE FailInv'
<1>1. /\ worker' = [k \in Key |-> Idle] /\ pods' = [k \in Key |-> Untracked]
      /\ sync' = IdleSync /\ deleted' = [k \in Key |-> NoUID]
      /\ UNCHANGED <<used, api, zun>>
    BY DEF Crash
<1>2. MadeReal' /\ CauseKnown'
    BY <1>1 DEF FailInv, MadeReal, CauseKnown, Alone, Cause
<1>3. TracksMade' /\ DeletesEnding' /\ CreatesUntracked'
    BY <1>1 DEF TracksMade, DeletesEnding, CreatesUntracked, Idle, Creating, Removing
<1>4. MarksOwn' /\ EndsTold' /\ EntriesMade'
    BY <1>1, EmptyFacts DEF MarksOwn, EndsTold, EntriesMade
<1>5. ListedIsReal' /\ SnapsHold'
    BY <1>1, EmptyFacts DEF ListedIsReal, SnapsHold, IdleSync, NotListed
<1> QED BY <1>2, <1>3, <1>4, <1>5 DEF FailInv

LEMMA NextFail ==
    ASSUME SlowWalk = FALSE
    PROVE  CustodyInv /\ FailInv /\ [Next]_vars => FailInv'
<1> SUFFICES ASSUME CustodyInv, FailInv, [Next]_vars PROVE FailInv'
    OBVIOUS
<1>1. CustodyInv'
    BY NextCustody
<1>2. CASE UNCHANGED vars
    <2>1. /\ UNCHANGED <<used, cache, served, worker, api, pods, deleted, sync, zun>>
        BY <1>2 DEF vars, outside
    <2>2. Steps
        BY <2>1, ApiKept, CallsKept, SyncKept DEF Steps, CacheMoves, EntryStep, EntryKept
    <2>3. \A c \in CapsuleId : CapsuleMoves(c)
        BY <2>1 DEF CapsuleMoves
    <2> QED BY <1>1, <2>2, <2>3, StepsPreserve
<1>3. CASE Next
    <2>1. Steps \/ Crash
        BY <1>3, CreateSteps, DeleteSteps, SyncSteps, SweepSteps, EnvironmentSteps DEF Next
    <2> QED BY <1>1, <1>3, <2>1, NextForward, StepsPreserve, CrashFail
<1> QED BY <1>2, <1>3

(* The first pod of a name is published as Failed only when one of its     *)
(* capsules has failed, has gone or never left Creating (syncOnce,         *)
(* updateStatus): no skipped tenant, no capsule that Zun does not list yet,*)
(* no retry and no restart fails it, provided a sync cycle is shorter than *)
(* capsuleAppearGrace, as the grace is measured when the pod is judged and *)
(* not when its capsules are listed.                                       *)
THEOREM FailuresHaveCauses ==
    ASSUME SlowWalk = FALSE PROVE Spec => []FailedWithCause
<1>1. CustodyInv /\ FailInv => FailedWithCause
    <2> SUFFICES ASSUME CustodyInv, FailInv, NEW k \in Key, api[k].phase = "Failed",
                        {u \in used : PodKey[u] = k} = {api[k].uid}
                 PROVE  \E c \in CapsuleId :
                          /\ zun[c].uid = api[k].uid
                          /\ zun[c].status \in {"Error", "Deleting", "Gone"} \/ zun[c].age = "stuck"
        BY DEF FailedWithCause
    <2>1. Alone(k) /\ api[k].uid # NoUID
        BY SeenUsed DEF Alone
    <2> QED BY <2>1 DEF FailInv, CauseKnown, Cause, Bad
<1>2. CustodyInv /\ FailInv /\ [Next]_vars => (CustodyInv /\ FailInv)'
    BY NextFail, NextCustody
<1> QED BY <1>1, <1>2, InitFail, InitCustody, PTL DEF Spec

============================================================================
