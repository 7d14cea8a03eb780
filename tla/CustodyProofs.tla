--------------------------- MODULE CustodyProofs ---------------------------
(***************************************************************************)
(* Provider implements Custody, for every set of names, incarnations,      *)
(* tenants and capsules, with both loops running, calls failing and the    *)
(* process dying at any point.                                             *)
(***************************************************************************)
EXTENDS ProviderProofs

(* Why whatever deletes a capsule may. The sweep is right by SweepInv. The *)
(* other two act on what they read some steps before: DeletePod on a pod   *)
(* that the cache showed terminating or had lost, reclaimFinished on an    *)
(* entry that was terminal when the cycle began. What they read stays true *)
(* because a pod that has left never returns, and neither a deletion nor a *)
(* terminal phase is ever taken back.                                      *)

(* The pod is still there and to run.                                      *)
Running(k, u) == api[k].uid = u /\ Wanted(api[k])

(* A pod this node has seen under name k: if it is still in the API server,*)
(* the cache still shows it.                                               *)
Seen(k, u) == /\ u \in used \ Elsewhere /\ PodKey[u] = k
              /\ api[k].uid = u => cache[k].uid = u

(* Calls and tracked entries are about pods the cache has shown.           *)
CallsSeen == \A k \in Key : worker[k].op # "idle" => Seen(k, worker[k].pod.uid)

EntriesSeen == \A k \in Key : pods[k].uid # NoUID => synced /\ Seen(k, pods[k].uid)

SnapsSeen == \A k \in Key : sync.snap[k].uid # NoUID => Seen(k, sync.snap[k].uid)

(* The cache never shows a deletion that was not asked for.                *)
CacheBehind ==
    \A k \in Key : cache[k].uid # NoUID /\ cache[k].uid = api[k].uid /\ cache[k].deleting
                     => api[k].deleting

(* DeletePod is called for a pod that is not to run any more.              *)
DeletionDue ==
    \A k \in Key : worker[k].op \in {"delete", "mark"} => ~ Running(k, worker[k].pod.uid)

(* CreatePod is called for a pod that has not ended.                       *)
CreationDue ==
    \A k \in Key : worker[k].op = "check" => ~ Terminal(worker[k].pod.phase)

(* An entry that has ended is of a pod that was told so.                   *)
EndsPublished ==
    \A k \in Key : /\ isTerminal(pods[k]) => ~ Running(k, pods[k].uid)
                   /\ isTerminal(sync.snap[k]) => ~ Running(k, sync.snap[k].uid)

CustodyInv == /\ SweepInv /\ CallsSeen /\ EntriesSeen /\ SnapsSeen /\ CacheBehind
              /\ DeletionDue /\ CreationDue /\ EndsPublished

-----------------------------------------------------------------------------
(* How one step may move what the invariant is about.                      *)

(* A pod goes forward, leaves, or gives its place to one never seen.       *)
ApiMoves(k) ==
    \/ /\ api'[k].uid = api[k].uid
       /\ Wanted(api'[k]) => Wanted(api[k])
       /\ api[k].deleting => api'[k].deleting
    \/ api'[k].uid \notin used

CacheMoves(k) == cache'[k] = cache[k] \/ cache'[k] = View(k)

(* An entry stays, goes, or is made for the pod it had or the pod called   *)
(* for; when it has ended, its pod has been told.                          *)
EntryMoves(k) ==
    \/ pods'[k] = pods[k]
    \/ pods'[k] = Untracked
    \/ /\ \/ pods'[k].uid = pods[k].uid
          \/ worker[k].op # "idle" /\ pods'[k].uid = worker[k].pod.uid
       /\ isTerminal(pods'[k]) => ~ (api'[k].uid = pods'[k].uid /\ Wanted(api'[k]))

Removing == {"delete", "mark"}

CallMoves(k) ==
    \/ worker'[k] = worker[k]
    \/ worker'[k] = Idle
    \/ /\ worker[k].op # "idle" /\ worker'[k].pod = worker[k].pod
       /\ worker'[k].op \in Removing => worker[k].op \in Removing
       /\ worker'[k].op # "check"
    \/ /\ worker'[k].pod = cache[k] /\ cache[k].uid # NoUID
       /\ worker'[k].op \in Removing => cache[k].deleting
       /\ worker'[k].op = "check" => ~ Terminal(cache[k].phase)
    \/ /\ cache[k].uid = NoUID /\ pods[k].uid # NoUID
       /\ worker'[k].pod.uid = pods[k].uid /\ worker'[k].op # "check"

SnapMoves(k) ==
    \/ sync'.snap[k] = sync.snap[k]
    \/ sync'.snap[k] = pods[k]
    \/ sync'.snap[k] = Untracked

Moves ==
    /\ used \subseteq used' /\ (synced => synced')
    /\ \A k \in Key : ApiMoves(k) /\ CacheMoves(k) /\ EntryMoves(k) /\ CallMoves(k)
                        /\ SnapMoves(k)

LEMMA EmptyFacts ==
    NoPod.uid = NoUID /\ Untracked.uid = NoUID /\ ~ isTerminal(Untracked)
<1>1. Untracked.uid = NoUID /\ Untracked.phase = ""
    BY DEF Untracked
<1> QED BY <1>1 DEF NoPod, isTerminal, Terminal

(* A pod that left does not return, and one that ends does not run again.  *)
LEMMA PodsGoForward ==
    ASSUME NEW k \in Key, NEW u \in used, ApiMoves(k), api'[k].uid = u
    PROVE  /\ api[k].uid = u
           /\ Wanted(api'[k]) => Wanted(api[k])
           /\ api[k].deleting => api'[k].deleting
BY DEF ApiMoves

LEMMA SeenStays ==
    ASSUME NEW k \in Key, NEW u, Seen(k, u), ApiMoves(k), CacheMoves(k), used \subseteq used'
    PROVE  /\ u \in used' \ Elsewhere /\ PodKey[u] = k
           /\ api'[k].uid = u => cache'[k].uid = u
<1>1. u \in used \ Elsewhere /\ PodKey[u] = k /\ u \in used'
    BY DEF Seen
<1>2. ASSUME api'[k].uid = u PROVE cache'[k].uid = u
    <2>1. api[k].uid = u /\ cache[k].uid = u
        BY <1>1, <1>2, PodsGoForward DEF Seen
    <2>2. View(k).uid = u
        BY <1>1, <2>1 DEF View
    <2> QED BY <2>1, <2>2 DEF CacheMoves
<1> QED BY <1>1, <1>2

LEMMA RunningBefore ==
    ASSUME NEW k \in Key, NEW u \in used, ApiMoves(k), api'[k].uid = u, Wanted(api'[k])
    PROVE  Running(k, u)
BY PodsGoForward DEF Running

LEMMA MovesPreserve ==
    ASSUME CustodyInv, SweepInv', Moves
    PROVE  CustodyInv'
<1> USE DEF CustodyInv
<1>0. ASSUME NEW k \in Key
      PROVE  /\ ApiMoves(k) /\ CacheMoves(k) /\ EntryMoves(k) /\ CallMoves(k) /\ SnapMoves(k)
             /\ used \subseteq used' /\ (synced => synced')
    BY DEF Moves
<1>1. ASSUME NEW k \in Key, NEW u, Seen(k, u) PROVE Seen(k, u)'
    BY <1>0, <1>1, SeenStays DEF Seen
<1>2. ASSUME NEW k \in Key, NEW u, Seen(k, u), Running(k, u)' PROVE Running(k, u)
    <2>1. u \in used /\ api'[k].uid = u /\ Wanted(api'[k])
        BY <1>2 DEF Seen, Running
    <2> QED BY <1>0, <2>1, RunningBefore
<1>3. ASSUME NEW k \in Key, cache[k].uid # NoUID PROVE Seen(k, cache[k].uid)
    BY <1>3 DEF SweepInv, PodsInPlace, Seen
<1>4. ASSUME NEW k \in Key, worker'[k].op # "idle"
      PROVE  /\ Seen(k, worker'[k].pod.uid)
             /\ worker'[k].op \in Removing => ~ Running(k, worker'[k].pod.uid)
    <2>1. CASE worker'[k] = worker[k]
        BY <1>4, <2>1 DEF CallsSeen, DeletionDue, Removing
    <2>2. CASE worker'[k] = Idle
        BY <1>4, <2>2 DEF Idle
    <2>3. CASE /\ worker[k].op # "idle" /\ worker'[k].pod = worker[k].pod
               /\ worker'[k].op \in Removing => worker[k].op \in Removing
        BY <2>3 DEF CallsSeen, DeletionDue, Removing
    <2>4. CASE /\ worker'[k].pod = cache[k] /\ cache[k].uid # NoUID
               /\ worker'[k].op \in Removing => cache[k].deleting
        <3>1. ASSUME cache[k].deleting PROVE ~ Running(k, cache[k].uid)
            BY <2>4, <3>1 DEF CacheBehind, Running, Wanted
        <3> QED BY <1>3, <2>4, <3>1
    <2>5. CASE /\ cache[k].uid = NoUID /\ pods[k].uid # NoUID
               /\ worker'[k].pod.uid = pods[k].uid
        BY <2>5 DEF EntriesSeen, Seen, Running
    <2> QED BY <1>0, <2>1, <2>2, <2>3, <2>4, <2>5 DEF CallMoves
<1>5. CallsSeen'
    BY <1>1, <1>4 DEF CallsSeen
<1>6. DeletionDue'
    <2> SUFFICES ASSUME NEW k \in Key, worker'[k].op \in Removing,
                        Running(k, worker[k].pod.uid)'
                 PROVE  FALSE
        BY DEF DeletionDue, Removing
    <2>1. worker'[k].op # "idle"
        BY DEF Removing
    <2>2. Seen(k, worker'[k].pod.uid) /\ ~ Running(k, worker'[k].pod.uid)
        BY <1>4, <2>1
    <2>3. api'[k].uid = worker'[k].pod.uid /\ Wanted(api'[k]) /\ worker'[k].pod.uid \in used
        BY <2>2 DEF Running, Seen
    <2> QED BY <1>0, <2>2, <2>3, RunningBefore
<1>7. ASSUME NEW k \in Key, pods'[k].uid # NoUID
      PROVE  synced /\ Seen(k, pods'[k].uid)
    <2>1. CASE pods'[k].uid = pods[k].uid
        BY <1>7, <2>1 DEF EntriesSeen
    <2>2. CASE worker[k].op # "idle" /\ pods'[k].uid = worker[k].pod.uid
        BY <2>2 DEF CallsSeen, SweepInv, WaitsForCache, Idle
    <2>3. CASE pods'[k] = Untracked
        BY <1>7, <2>3, EmptyFacts
    <2> QED BY <1>0, <2>1, <2>2, <2>3 DEF EntryMoves
<1>8. EntriesSeen'
    BY <1>0, <1>1, <1>7 DEF EntriesSeen
<1>9. SnapsSeen'
    <2> SUFFICES ASSUME NEW k \in Key, sync'.snap[k].uid # NoUID
                 PROVE  Seen(k, sync'.snap[k].uid)
        BY <1>1 DEF SnapsSeen
    <2> QED BY <1>0, EmptyFacts DEF SnapMoves, SnapsSeen, EntriesSeen
<1>10. CacheBehind'
    <2> SUFFICES ASSUME NEW k \in Key, cache'[k].uid # NoUID, cache'[k].uid = api'[k].uid,
                        cache'[k].deleting
                 PROVE  api'[k].deleting
        BY DEF CacheBehind
    <2>1. CASE cache'[k] = cache[k]
        <3>1. cache[k].uid \in used
            BY <1>3, <2>1 DEF Seen
        <3>2. api[k].uid = cache[k].uid /\ (api[k].deleting => api'[k].deleting)
            BY <1>0, <2>1, <3>1, PodsGoForward
        <3> QED BY <2>1, <3>2 DEF CacheBehind
    <2>2. CASE cache'[k] = View(k)
        <3>1. cache'[k] = api[k] /\ api[k].uid \in used
            BY <2>2, EmptyFacts DEF View, SweepInv, PodsInPlace
        <3> QED BY <1>0, <3>1, PodsGoForward
    <2> QED BY <1>0, <2>1, <2>2 DEF CacheMoves
<1>11. EndsPublished'
    <2>1. ASSUME NEW k \in Key, isTerminal(pods'[k]), Running(k, pods[k].uid)'
          PROVE  FALSE
        <3>1. api'[k].uid = pods'[k].uid /\ Wanted(api'[k]) /\ pods'[k].uid # NoUID
            BY <2>1 DEF Running, Wanted
        <3>2. Running(k, pods'[k].uid)
            BY <1>0, <1>7, <3>1, RunningBefore DEF Seen
        <3> QED BY <1>0, <2>1, <3>1, <3>2, EmptyFacts DEF EntryMoves, EndsPublished
    <2>2. ASSUME NEW k \in Key, isTerminal(sync'.snap[k]), Running(k, sync.snap[k].uid)'
          PROVE  FALSE
        <3>1. api'[k].uid = sync'.snap[k].uid /\ Wanted(api'[k]) /\ sync'.snap[k].uid # NoUID
            BY <2>2 DEF Running, Wanted
        <3>2. /\ sync'.snap[k] = sync.snap[k] \/ sync'.snap[k] = pods[k]
              /\ Seen(k, sync'.snap[k].uid)
            BY <1>0, <3>1, EmptyFacts DEF SnapMoves, SnapsSeen, EntriesSeen
        <3>3. Running(k, sync'.snap[k].uid)
            BY <1>0, <3>1, <3>2, RunningBefore DEF Seen
        <3> QED BY <2>2, <3>2, <3>3 DEF EndsPublished
    <2> QED BY <2>1, <2>2 DEF EndsPublished
<1>12. CreationDue'
    <2>1. Idle.op # "check"
        BY DEF Idle
    <2> QED BY <1>0, <2>1 DEF CreationDue, CallMoves
<1> QED BY <1>5, <1>6, <1>8, <1>9, <1>10, <1>11, <1>12

-----------------------------------------------------------------------------
(* Every step but a crash moves so.                                        *)

LEMMA ApiStill == ASSUME UNCHANGED api PROVE \A k \in Key : ApiMoves(k)
BY DEF ApiMoves

LEMMA NotifyMoves ==
    ASSUME TypeOK, NEW k \in Key, NEW e, notify(k, e)
    PROVE  /\ \A j \in Key : ApiMoves(j)
           /\ Terminal(e.phase) => ~ (api'[k].uid = e.uid /\ Wanted(api'[k]))
<1>1. api \in [Key -> Pod] /\ api[k] \in Pod
    BY DEF TypeOK
<1>2. CASE e.uid # NoUID /\ api[k].uid = e.uid /\ ~ Terminal(api[k].phase)
    <2>1. api' = [api EXCEPT ![k] = [api[k] EXCEPT !.phase = e.phase, !.addr = e.addr]]
        BY <1>2 DEF notify
    <2>2. /\ api'[k].uid = api[k].uid /\ api'[k].deleting = api[k].deleting
          /\ api'[k].phase = e.phase
          /\ \A j \in Key : j # k => api'[j] = api[j]
        BY <1>1, <2>1 DEF Pod
    <2>3. Wanted(api'[k]) => Wanted(api[k]) /\ ~ Terminal(e.phase)
        BY <1>2, <2>2 DEF Wanted
    <2> QED BY <2>2, <2>3 DEF ApiMoves
<1>3. CASE ~ (e.uid # NoUID /\ api[k].uid = e.uid /\ ~ Terminal(api[k].phase))
    <2>1. api' = api
        BY <1>3 DEF notify
    <2>2. Wanted(api[k]) => api[k].uid # e.uid
        BY <1>3 DEF Wanted
    <2> QED BY <2>1, <2>2, ApiStill
<1> QED BY <1>2, <1>3

LEMMA UpdateStatusMoves ==
    ASSUME TypeOK, NEW k \in Key, NEW phase, NEW addr, updateStatus(k, phase, addr)
    PROVE  \A j \in Key : ApiMoves(j) /\ EntryMoves(j)
<1>1. CASE UNCHANGED <<pods, api>>
    BY <1>1, ApiStill DEF EntryMoves
<1>2. CASE ~ UNCHANGED <<pods, api>>
    <2> DEFINE age == IF Terminal(phase) /\ isTerminal(pods[k]) THEN pods[k].age
                      ELSE IF Terminal(phase) \/ pods[k].age = "expired" THEN "settled"
                      ELSE pods[k].age
               e == [pods[k] EXCEPT !.phase = phase, !.addr = addr, !.age = age]
    <2>1. pods' = [pods EXCEPT ![k] = e] /\ notify(k, e)
        BY <1>2 DEF updateStatus
    <2>2. pods \in [Key -> Tracked] /\ pods[k] \in Tracked
        BY DEF TypeOK
    <2>3. e.uid = pods[k].uid
        <3> HIDE DEF age
        <3> QED BY <2>2 DEF Tracked
    <2> HIDE DEF e
    <2>4. pods'[k] = e /\ \A j \in Key : j # k => pods'[j] = pods[j]
        BY <2>1, <2>2
    <2>5. EntryMoves(k)
        BY <2>1, <2>3, <2>4, NotifyMoves DEF EntryMoves, isTerminal
    <2> QED BY <2>1, <2>4, <2>5, NotifyMoves DEF EntryMoves
<1> QED BY <1>1, <1>2

(* A step of one worker: only the entry and the call of its own name move. *)
LEMMA OwnMoves ==
    ASSUME TypeOK, NEW k \in Key, UNCHANGED <<used, synced, cache, sync>>,
           \A j \in Key : ApiMoves(j),
           \A j \in Key : j # k => pods'[j] = pods[j] /\ worker'[j] = worker[j],
           EntryMoves(k), CallMoves(k)
    PROVE  Moves
BY DEF Moves, CacheMoves, SnapMoves, EntryMoves, CallMoves

LEMMA CreateMoves ==
    ASSUME CustodyInv, NEW k \in Key, Create(k)
    PROVE  Moves
<1> USE DEF outside
<1>0. /\ TypeOK /\ worker \in [Key -> CallState] /\ pods \in [Key -> Tracked]
      /\ worker[k] \in CallState
    BY DEF CustodyInv, SweepInv, TypeOK
<1>1. CASE CallCreatePod(k) \/ CallUpdatePod(k)
    <2>1. \/ UNCHANGED worker
          \/ /\ worker' = [worker EXCEPT ![k] = [op |-> "check", pod |-> cache[k]]]
             /\ cache[k].uid # NoUID /\ ~ Terminal(cache[k].phase)
        BY <1>1 DEF CallCreatePod, CallUpdatePod, CanWork, Wanted, Call
    <2>2. UNCHANGED <<outside, api, pods, sync>>
        BY <1>1 DEF CallCreatePod, CallUpdatePod
    <2>3. CallMoves(k) /\ \A j \in Key : j # k => worker'[j] = worker[j]
        BY <1>0, <2>1 DEF CallMoves, Removing
    <2> QED BY <1>0, <2>2, <2>3, ApiStill, OwnMoves DEF EntryMoves
<1>2. CASE CreateAdopts(k)
    <2> DEFINE pod == worker[k].pod
               e(a) == [uid |-> pod.uid,
                        phase |-> IF pod.phase = "" THEN "Pending" ELSE pod.phase,
                        addr |-> pod.addr, age |-> a]
    <2>1. PICK a : pods' = [pods EXCEPT ![k] = e(a)]
        BY <1>2, Zenon DEF CreateAdopts, adoptPod
    <2>2. pods'[k] = e(a) /\ \A j \in Key : j # k => pods'[j] = pods[j]
        BY <1>0, <2>1
    <2>3. worker[k].op = "check" /\ UNCHANGED <<outside, api, sync>>
          /\ worker' = [worker EXCEPT ![k] = Idle]
        BY <1>2 DEF CreateAdopts, Return
    <2>4. e(a).uid = pod.uid /\ ~ isTerminal(e(a))
        <3>1. ~ Terminal(pod.phase)
            BY <2>3 DEF CustodyInv, CreationDue
        <3> HIDE DEF pod
        <3> QED BY <3>1 DEF isTerminal, Terminal
    <2> HIDE DEF e
    <2>5. EntryMoves(k) /\ CallMoves(k) /\ \A j \in Key : j # k => worker'[j] = worker[j]
        BY <1>0, <2>2, <2>3, <2>4 DEF EntryMoves, CallMoves
    <2> QED BY <1>0, <2>2, <2>3, <2>5, ApiStill, OwnMoves
<1>3. CASE CreateProceeds(k) \/ CreateListFails(k) \/ CreateCapsule(k)
    <2>1. PICK op \in {"build", "track"} : worker' = [worker EXCEPT ![k].op = op]
        BY <1>3 DEF CreateProceeds, CreateListFails, CreateCapsule, Goto
    <2>2. worker[k].op # "idle" /\ UNCHANGED <<outside, api, pods, sync>>
        BY <1>3 DEF CreateProceeds, CreateListFails, CreateCapsule
    <2>3. CallMoves(k) /\ \A j \in Key : j # k => worker'[j] = worker[j]
        BY <1>0, <2>1, <2>2 DEF CallMoves, CallState, Removing
    <2> QED BY <1>0, <2>2, <2>3, ApiStill, OwnMoves DEF EntryMoves
<1>4. CASE CreateRefused(k) \/ CreateAnswerLost(k)
    <2>1. worker' = [worker EXCEPT ![k] = Idle] /\ UNCHANGED <<outside, api, pods, sync>>
        BY <1>4 DEF CreateRefused, CreateAnswerLost, Return
    <2> QED BY <1>0, <2>1, ApiStill, OwnMoves DEF EntryMoves, CallMoves
<1>5. CASE trackPod(k)
    <2> DEFINE e == [uid |-> worker[k].pod.uid, phase |-> "Pending",
                     addr |-> worker[k].pod.addr, age |-> "fresh"]
    <2>1. /\ notify(k, e) /\ pods' = [pods EXCEPT ![k] = e] /\ worker[k].op = "track"
          /\ worker' = [worker EXCEPT ![k] = Idle] /\ UNCHANGED <<outside, sync>>
        BY <1>5 DEF trackPod, Return
    <2>2. e.uid = worker[k].pod.uid /\ ~ isTerminal(e)
        BY DEF isTerminal, Terminal
    <2> HIDE DEF e
    <2>3. \A j \in Key : ApiMoves(j)
        BY <1>0, <2>1, NotifyMoves
    <2>4. EntryMoves(k) /\ CallMoves(k)
        BY <1>0, <2>1, <2>2 DEF EntryMoves, CallMoves
    <2> QED BY <1>0, <2>1, <2>3, <2>4, OwnMoves
<1> QED BY <1>1, <1>2, <1>3, <1>4, <1>5 DEF Create

LEMMA DeleteMoves ==
    ASSUME CustodyInv, NEW k \in Key, Delete(k)
    PROVE  Moves
<1> USE DEF outside
<1>0. /\ TypeOK /\ worker \in [Key -> CallState] /\ pods \in [Key -> Tracked]
      /\ worker[k] \in CallState
    BY DEF CustodyInv, SweepInv, TypeOK
<1>1. CASE CallDeletePod(k)
    <2>1. PICK pod : /\ worker' = [worker EXCEPT ![k] = [op |-> "delete", pod |-> pod]]
                     /\ \/ pod = cache[k] /\ cache[k].uid # NoUID /\ cache[k].deleting
                        \/ cache[k].uid = NoUID /\ pods[k].uid # NoUID /\ pod.uid = pods[k].uid
        <3> DEFINE gone == [NoPod EXCEPT !.uid = pods[k].uid, !.phase = pods[k].phase,
                                         !.addr = pods[k].addr]
        <3>1. gone.uid = pods[k].uid
            BY DEF NoPod
        <3>2. GetPod(k) # NoUID => pods[k].uid # NoUID
            BY DEF GetPod
        <3>3. CASE /\ cache[k].uid # NoUID /\ cache[k].deleting
                   /\ Call(k, "delete", cache[k])
            BY <3>3 DEF Call
        <3>4. CASE cache[k].uid = NoUID /\ GetPod(k) # NoUID /\ Call(k, "delete", gone)
            <4> HIDE DEF gone
            <4> QED BY <3>1, <3>2, <3>4 DEF Call
        <3> QED BY <1>1, <3>3, <3>4 DEF CallDeletePod
    <2>2. UNCHANGED <<outside, api, pods, sync>>
        BY <1>1 DEF CallDeletePod
    <2>3. CallMoves(k) /\ \A j \in Key : j # k => worker'[j] = worker[j]
        BY <1>0, <2>1 DEF CallMoves
    <2> QED BY <1>0, <2>2, <2>3, ApiStill, OwnMoves DEF EntryMoves
<1>2. CASE CallNothing(k)
    BY <1>0, <1>2, ApiStill, OwnMoves DEF CallNothing, EntryMoves, CallMoves
<1>3. CASE DeleteUnserved(k) \/ DeleteFails(k)
    <2>1. worker' = [worker EXCEPT ![k] = Idle] /\ UNCHANGED <<outside, api, pods, sync>>
        BY <1>3 DEF DeleteUnserved, DeleteFails, Return
    <2> QED BY <1>0, <2>1, ApiStill, OwnMoves DEF EntryMoves, CallMoves
<1>4. CASE DeleteCapsule(k)
    <2>1. /\ worker' = [worker EXCEPT ![k].op = "mark"] /\ worker[k].op = "delete"
          /\ UNCHANGED <<outside, api, pods, sync>>
        BY <1>4 DEF DeleteCapsule, Goto
    <2>2. CallMoves(k) /\ \A j \in Key : j # k => worker'[j] = worker[j]
        BY <1>0, <2>1 DEF CallMoves, CallState, Removing
    <2> QED BY <1>0, <2>1, <2>2, ApiStill, OwnMoves DEF EntryMoves
<1>5. CASE MarkDeleted(k)
    <2> DEFINE pod == worker[k].pod
               tracked == IF pods[k].uid # NoUID THEN pods[k]
                          ELSE [uid |-> pod.uid, phase |-> pod.phase, addr |-> pod.addr,
                                age |-> "settled"]
               e == [tracked EXCEPT !.phase = "Succeeded", !.age = "settled"]
    <2>1. /\ notify(k, e) /\ pods' = [pods EXCEPT ![k] = e] /\ worker[k].op = "mark"
          /\ worker' = [worker EXCEPT ![k] = Idle] /\ UNCHANGED <<outside, sync>>
        BY <1>5 DEF MarkDeleted, Return
    <2>2. tracked \in Tracked /\ (tracked.uid = pods[k].uid \/ tracked.uid = worker[k].pod.uid)
        BY <1>0 DEF CallState, Pod, Tracked
    <2>3. e.uid = pods[k].uid \/ e.uid = worker[k].pod.uid
        <3> HIDE DEF tracked
        <3> QED BY <2>2 DEF Tracked
    <2> HIDE DEF e
    <2>4. /\ \A j \in Key : ApiMoves(j)
          /\ isTerminal(e) => ~ (api'[k].uid = e.uid /\ Wanted(api'[k]))
        BY <1>0, <2>1, NotifyMoves DEF isTerminal
    <2>5. EntryMoves(k) /\ CallMoves(k)
        BY <1>0, <2>1, <2>3, <2>4 DEF EntryMoves, CallMoves
    <2> QED BY <1>0, <2>1, <2>4, <2>5, OwnMoves
<1> QED BY <1>1, <1>2, <1>3, <1>4, <1>5 DEF Delete

(* What the end of a cycle leaves of its snapshot.                         *)
LEMMA EndIfDoneSnap ==
    ASSUME NEW s \in SyncState, NEW k \in Key
    PROVE  EndIfDone(s).snap[k] = s.snap[k] \/ EndIfDone(s).snap[k] = Untracked
BY DEF EndIfDone, IdleSync

LEMMA SyncMoves ==
    ASSUME CustodyInv, Sync
    PROVE  Moves
<1> USE DEF outside
<1>0. TypeOK /\ sync \in SyncState
    BY DEF CustodyInv, SweepInv, TypeOK
<1>1. CASE SyncSnapshot
    <2>1. sync'.snap = pods
        BY <1>1 DEF SyncSnapshot, IdleSync
    <2> QED BY <1>1, <2>1, ApiStill
            DEF SyncSnapshot, Moves, CacheMoves, EntryMoves, CallMoves, SnapMoves
<1>2. ASSUME NEW t \in Tenant, SyncListTenant(t) \/ SyncSkipTenant(t) \/ SyncListFails(t)
      PROVE  Moves
    <2>1. ASSUME NEW k \in Key PROVE SnapMoves(k)
        <3>1. CASE SyncListTenant(t)
            <4> DEFINE managed == [j \in Key |-> IF TenantOf[j] = t /\ j \in Snapped
                                                 THEN ListManaged(j) ELSE sync.managed[j]]
                       s == [sync EXCEPT !.todo = @ \ {t}, !.covered = @ \cup {t},
                                         !.managed = managed]
            <4>1. managed \in [Key -> Listing]
                BY <1>0, ListManagedType DEF SyncState
            <4>2. sync' = EndIfDone(s)
                BY <3>1 DEF SyncListTenant
            <4>3. s \in SyncState /\ s.snap = sync.snap
                <5> HIDE DEF managed
                <5> QED BY <1>0, <4>1 DEF SyncState
            <4> HIDE DEF s
            <4> QED BY <4>2, <4>3, EndIfDoneSnap DEF SnapMoves
        <3>2. CASE SyncSkipTenant(t)
            <4> DEFINE s == [sync EXCEPT !.todo = @ \ {t}]
            <4>1. s \in SyncState /\ s.snap = sync.snap
                BY <1>0 DEF SyncState
            <4>2. sync' = EndIfDone(s)
                BY <3>2 DEF SyncSkipTenant
            <4> HIDE DEF s
            <4> QED BY <4>1, <4>2, EndIfDoneSnap DEF SnapMoves
        <3>3. CASE SyncListFails(t)
            BY <3>3 DEF SyncListFails, SnapMoves, IdleSync
        <3> QED BY <1>2, <3>1, <3>2, <3>3
    <2>2. UNCHANGED <<outside, api, pods, worker>>
        BY <1>2 DEF SyncListTenant, SyncSkipTenant, SyncListFails
    <2> QED BY <2>1, <2>2, ApiStill DEF Moves, CacheMoves, EntryMoves, CallMoves
<1>3. ASSUME NEW k \in Key, Judge(k) PROVE Moves
    <2> USE DEF Judge, JudgeSkips, reclaimFinished, JudgeDrops, JudgeMissing, JudgeReports
    <2>1. UNCHANGED <<outside, worker>>
        BY <1>3
    <2>2. ASSUME NEW j \in Key PROVE SnapMoves(j)
        <3> DEFINE s == [sync EXCEPT !.snap[k] = Untracked, !.managed[k] = NotListed]
        <3>1. sync' = EndIfDone(s)
            BY <1>3 DEF Judged
        <3>2. s \in SyncState /\ (s.snap[j] = sync.snap[j] \/ s.snap[j] = Untracked)
            BY <1>0, EmptyTypes DEF SyncState
        <3> HIDE DEF s
        <3> QED BY <3>1, <3>2, EndIfDoneSnap DEF SnapMoves
    <2>3. \/ UNCHANGED <<pods, api>>
          \/ UNCHANGED api /\ pods' = [pods EXCEPT ![k] = Untracked]
          \/ \E phase, addr : updateStatus(k, phase, addr)
        BY <1>3
    <2>4. \A j \in Key : ApiMoves(j) /\ EntryMoves(j)
        BY <1>0, <2>3, UpdateStatusMoves, ApiStill DEF EntryMoves, TypeOK
    <2> QED BY <2>1, <2>2, <2>4 DEF Moves, CacheMoves, CallMoves
<1> QED BY <1>1, <1>2, <1>3 DEF Sync

LEMMA SweepMoves ==
    ASSUME CustodyInv, Sweeping
    PROVE  Moves
<1>1. UNCHANGED <<outside, api, pods, worker, sync>>
    BY DEF Sweeping, SweepList, SweepJudge, SweepDelete
<1> QED BY <1>1, ApiStill
        DEF outside, Moves, CacheMoves, EntryMoves, CallMoves, SnapMoves

LEMMA EnvironmentMoves ==
    ASSUME CustodyInv, Environment
    PROVE  Moves \/ Crash
<1> USE DEF outside
<1>0. TypeOK
    BY DEF CustodyInv, SweepInv
<1>1. ASSUME NEW u \in UID, AddPod(u) PROVE Moves
    <2>1. \A k \in Key : ApiMoves(k)
        BY <1>0, <1>1, ProviderAssumption DEF AddPod, ApiMoves, TypeOK, NoPod
    <2> QED BY <1>1, <2>1
            DEF AddPod, Moves, CacheMoves, EntryMoves, CallMoves, SnapMoves
<1>2. ASSUME NEW u \in UID, CreateElsewhere(u) PROVE Moves
    BY <1>2, ApiStill
    DEF CreateElsewhere, Moves, CacheMoves, EntryMoves, CallMoves, SnapMoves
<1>3. ASSUME NEW k \in Key, RequestDeletion(k) \/ RemoveByForce(k) \/ RemoveFinished(k)
      PROVE  Moves
    <2>1. \A j \in Key : ApiMoves(j)
        <3>1. api \in [Key -> Pod] /\ api[k] \in Pod
            BY <1>0 DEF TypeOK
        <3>2. NoUID \notin used
            BY <1>0, ProviderAssumption DEF TypeOK
        <3>3. CASE RequestDeletion(k)
            <4>1. api' = [api EXCEPT ![k] = [api[k] EXCEPT !.deleting = TRUE]]
                BY <3>3 DEF RequestDeletion
            <4>2. /\ api'[k].uid = api[k].uid /\ api'[k].deleting
                  /\ \A j \in Key : j # k => api'[j] = api[j]
                BY <3>1, <4>1, Zenon DEF Pod
            <4> QED BY <4>2 DEF ApiMoves, Wanted
        <3>4. CASE RemoveByForce(k) \/ RemoveFinished(k)
            <4>1. api'[k] = NoPod /\ \A j \in Key : j # k => api'[j] = api[j]
                BY <3>1, <3>4 DEF RemoveByForce, RemoveFinished
            <4> QED BY <3>2, <4>1, EmptyFacts DEF ApiMoves
        <3> QED BY <1>3, <3>3, <3>4
    <2>2. UNCHANGED <<outside, pods, worker, sync>>
        BY <1>3 DEF RequestDeletion, RemoveByForce, RemoveFinished
    <2> QED BY <2>1, <2>2 DEF Moves, CacheMoves, EntryMoves, CallMoves, SnapMoves
<1>4. ASSUME NEW k \in Key, CacheUpdate(k) PROVE Moves
    <2>1. \A j \in Key : CacheMoves(j)
        BY <1>0, <1>4 DEF CacheUpdate, CacheMoves, TypeOK
    <2> QED BY <1>4, <2>1, ApiStill
            DEF CacheUpdate, Moves, EntryMoves, CallMoves, SnapMoves
<1>5. ASSUME NEW k \in Key, AgePod(k) PROVE Moves
    <2>1. PICK age : pods' = [pods EXCEPT ![k] = [pods[k] EXCEPT !.age = age]]
        BY <1>5 DEF AgePod
    <2>2. UNCHANGED <<outside, api, worker, sync>>
        BY <1>5 DEF AgePod
    <2>3. pods \in [Key -> Tracked] /\ pods[k] \in Tracked
        BY <1>0 DEF TypeOK
    <2>4. /\ pods'[k].uid = pods[k].uid /\ isTerminal(pods'[k]) = isTerminal(pods[k])
          /\ \A j \in Key : j # k => pods'[j] = pods[j]
        BY <2>1, <2>3 DEF Tracked, isTerminal
    <2>5. EntryMoves(k)
        BY <2>2, <2>4 DEF EntryMoves, CustodyInv, EndsPublished, Running
    <2> QED BY <2>2, <2>4, <2>5, ApiStill
            DEF Moves, CacheMoves, CallMoves, SnapMoves, EntryMoves
<1>6. ASSUME NEW t \in Tenant, StopServing(t) PROVE Moves
    BY <1>6, ApiStill DEF StopServing, Moves, CacheMoves, EntryMoves, CallMoves, SnapMoves
<1>7. ASSUME NEW c \in CapsuleId,
             ZunBuilds(c) \/ ZunReports(c) \/ ZunRemoves(c) \/ ZunLoses(c) \/ AgeCapsule(c)
      PROVE  Moves
    <2>1. \E status, age : SetCapsule(c, status, age)
        BY <1>7 DEF ZunBuilds, ZunReports, ZunRemoves, ZunLoses, AgeCapsule
    <2> QED BY <2>1, ApiStill
            DEF SetCapsule, Moves, CacheMoves, EntryMoves, CallMoves, SnapMoves
<1>8. CASE CacheList
    BY <1>8, ApiStill DEF CacheList, Moves, CacheMoves, EntryMoves, CallMoves, SnapMoves
<1> QED BY <1>1, <1>2, <1>3, <1>4, <1>5, <1>6, <1>7, <1>8 DEF Environment

LEMMA InitCustody == Init => CustodyInv
<1> SUFFICES ASSUME Init PROVE CustodyInv
    OBVIOUS
<1>1. SweepInv
    BY InitSweepInv
<1>2. CallsSeen /\ DeletionDue /\ CreationDue
    BY DEF Init, CallsSeen, DeletionDue, CreationDue, Idle
<1>3. EntriesSeen /\ SnapsSeen /\ CacheBehind /\ EndsPublished
    BY EmptyFacts DEF Init, EntriesSeen, SnapsSeen, CacheBehind, EndsPublished, IdleSync
<1> QED BY <1>1, <1>2, <1>3 DEF CustodyInv

LEMMA CrashCustody == ASSUME CustodyInv, SweepInv', Crash PROVE CustodyInv'
<1>1. /\ worker' = [k \in Key |-> Idle] /\ pods' = [k \in Key |-> Untracked]
      /\ sync' = IdleSync /\ cache' = [k \in Key |-> NoPod]
    BY DEF Crash
<1>2. CallsSeen' /\ DeletionDue' /\ CreationDue'
    BY <1>1 DEF CallsSeen, DeletionDue, CreationDue, Idle
<1>3. EntriesSeen' /\ SnapsSeen' /\ CacheBehind' /\ EndsPublished'
    BY <1>1, EmptyFacts DEF EntriesSeen, SnapsSeen, CacheBehind, EndsPublished, IdleSync
<1> QED BY <1>2, <1>3 DEF CustodyInv

LEMMA NextCustody == CustodyInv /\ [Next]_vars => CustodyInv'
<1> SUFFICES ASSUME CustodyInv, [Next]_vars PROVE CustodyInv'
    OBVIOUS
<1>1. SweepInv'
    BY NextSweepInv DEF CustodyInv
<1>2. CASE UNCHANGED vars
    <2>1. Moves
        BY <1>2, ApiStill
        DEF vars, outside, Moves, CacheMoves, EntryMoves, CallMoves, SnapMoves
    <2> QED BY <1>1, <2>1, MovesPreserve
<1>3. CASE Next
    <2>1. Moves \/ Crash
        BY <1>3, CreateMoves, DeleteMoves, SyncMoves, SweepMoves, EnvironmentMoves DEF Next
    <2> QED BY <1>1, <2>1, MovesPreserve, CrashCustody
<1> QED BY <1>2, <1>3

LEMMA CustodyInvariant == Spec => []CustodyInv
BY InitCustody, NextCustody, PTL DEF Spec

-----------------------------------------------------------------------------
(* Whatever is taken away was not needed.                                  *)

(* Only DeletePod, the reclaim of finished pods and the sweep take a       *)
(* capsule away: one that has a successor, or whose pod is not to run.     *)
LEMMA TakenIsSpare ==
    ASSUME CustodyInv, Next, NEW c \in CapsuleId,
           zun[c].status # "Deleting", zun'[c].status = "Deleting"
    PROVE  LET u == zun[c].uid IN
           \/ ~ Running(PodKey[u], u)
           \/ \E d \in CapsuleId : d > c /\ zun[d].uid = u
<1> DEFINE u == zun[c].uid
<1> USE DEF CustodyInv
<1>0. TypeOK /\ zun \in [CapsuleId -> Capsule] /\ CapsuleId \subseteq Nat
    BY CapsuleFacts DEF SweepInv, TypeOK
<1>1. ASSUME NEW cs, ZunDelete(cs) PROVE c \in cs
    BY <1>0, <1>1 DEF ZunDelete
<1>2. ASSUME NEW v, ZunCreate(v) PROVE FALSE
    <2>1. zun' = [zun EXCEPT ![made + 1] = [uid |-> v, status |-> "Creating", age |-> "hidden"]]
        BY <1>2 DEF ZunCreate
    <2> QED BY <1>0, <2>1
<1>3. ASSUME NEW k \in Key, Create(k) PROVE FALSE
    <2>1. UNCHANGED zun \/ \E v : ZunCreate(v)
        BY <1>3 DEF Create, CallCreatePod, CallUpdatePod, CreateAdopts, CreateProceeds,
                    CreateListFails, CreateRefused, CreateCapsule, CreateAnswerLost, trackPod
    <2> QED BY <1>2, <2>1
<1>4. ASSUME NEW k \in Key, Delete(k) PROVE ~ Running(PodKey[u], u)
    <2>1. UNCHANGED zun \/ DeleteCapsule(k)
        BY <1>4 DEF Delete, CallDeletePod, CallNothing, DeleteUnserved, DeleteFails, MarkDeleted
    <2>2. DeleteCapsule(k)
        BY <2>1
    <2>3. worker[k].op = "delete" /\ u = worker[k].pod.uid
        BY <1>1, <2>2 DEF DeleteCapsule
    <2>4. PodKey[u] = k /\ ~ Running(k, u)
        BY <2>3 DEF CallsSeen, Seen, DeletionDue
    <2> QED BY <2>4
<1>5. ASSUME Sync PROVE ~ Running(PodKey[u], u)
    <2>1. UNCHANGED zun \/ \E k \in Key : reclaimFinished(k)
        BY <1>5 DEF Sync, SyncSnapshot, SyncListTenant, SyncSkipTenant, SyncListFails,
                    Judge, JudgeSkips, JudgeDrops, JudgeMissing, JudgeReports
    <2>2. PICK k \in Key : reclaimFinished(k)
        BY <2>1
    <2>3. Found(k) /\ k \in Snapped /\ isTerminal(sync.snap[k]) /\ ZunDelete({sync.managed[k].id})
        BY <2>2 DEF reclaimFinished, Judging
    <2>4. u = sync.snap[k].uid /\ u # NoUID
        BY <1>1, <2>3 DEF Found, Snapped
    <2>5. PodKey[u] = k /\ ~ Running(k, u)
        BY <2>3, <2>4 DEF SnapsSeen, Seen, EndsPublished
    <2> QED BY <2>5
<1>6. ASSUME Sweeping PROVE \/ ~ Running(PodKey[u], u)
                            \/ \E d \in CapsuleId : d > c /\ zun[d].uid = u
    <2>1. UNCHANGED zun \/ \E e \in CapsuleId : SweepDelete(e)
        BY <1>6 DEF Sweeping, SweepList, SweepJudge
    <2>2. PICK e \in CapsuleId : SweepDelete(e)
        BY <2>1
    <2>3. e \in sweep.doomed /\ (ZunDelete({e}) \/ UNCHANGED zun)
        BY <2>2 DEF SweepDelete
    <2>4. c \in sweep.doomed
        BY <1>1, <2>3
    <2> QED BY <2>4 DEF SweepInv, SweepSparesTheLiving, Running
<1>7. ASSUME Environment PROVE FALSE
    <2>1. \/ UNCHANGED zun
          \/ \E v : ZunCreate(v)
          \/ \E e \in CapsuleId : \E age :
               \/ \E status \in Reported \cup {"Gone"} : SetCapsule(e, status, age)
               \/ SetCapsule(e, zun[e].status, age)
        BY <1>7 DEF Environment, AddPod, CreateElsewhere, RequestDeletion, RemoveByForce,
                    RemoveFinished, CacheUpdate, AgePod, StopServing, ZunBuilds, ZunReports,
                    ZunRemoves, ZunLoses, AgeCapsule, CacheList, Crash
    <2>2. ASSUME NEW e \in CapsuleId, NEW status, NEW age, SetCapsule(e, status, age),
                 status # "Deleting" \/ status = zun[e].status
          PROVE  FALSE
        <3>1. zun' = [zun EXCEPT ![e].status = status, ![e].age = age]
            BY <2>2 DEF SetCapsule
        <3>2. zun'[c].status = IF c = e THEN status ELSE zun[c].status
            BY <1>0, <3>1 DEF Capsule
        <3> QED BY <2>2, <3>2
    <2>3. "Deleting" \notin Reported \cup {"Gone"}
        BY ProviderAssumption
    <2> QED BY <1>2, <2>1, <2>2, <2>3
<1> QED BY <1>3, <1>4, <1>5, <1>6, <1>7 DEF Next

(* No actor deletes the newest capsule of a pod that is neither terminating*)
(* nor finished: not DeletePod with a pod read from a lagging cache, not   *)
(* the sync with an old snapshot, and not the sweep.                       *)
THEOREM LiveCapsuleIsKept == Spec => LiveCapsuleKept
<1> DEFINE Kept1 == \A c \in CapsuleId :
                       LET u == zun[c].uid IN
                       /\ zun[c].status # "Deleting" /\ zun'[c].status = "Deleting"
                       /\ api[PodKey[u]].uid = u /\ Wanted(api[PodKey[u]])
                       => \E d \in CapsuleId : d > c /\ zun[d].uid = u
<1>1. CustodyInv /\ [Next]_vars => [Kept1]_vars
    <2> SUFFICES ASSUME CustodyInv, Next PROVE Kept1
        OBVIOUS
    <2> QED BY TakenIsSpare DEF Running
<1> QED BY <1>1, CustodyInvariant, PTL DEF Spec, LiveCapsuleKept

-----------------------------------------------------------------------------
(* The refinement.                                                         *)

podBar == [k \in Key |-> [who |-> api[k].uid, runs |-> Wanted(api[k])]]

capsuleBar == [c \in CapsuleId |-> [of |-> zun[c].uid,
                                    state |-> CapsuleState(zun[c].status)]]

LEMMA BarFacts ==
    /\ \A k \in Key : podBar[k] = [who |-> api[k].uid, runs |-> Wanted(api[k])]
    /\ \A c \in CapsuleId :
          capsuleBar[c] = [of |-> zun[c].uid, state |-> CapsuleState(zun[c].status)]
BY DEF podBar, capsuleBar

LEMMA InitRefines == Init => Kept!Begin
<1> SUFFICES ASSUME Init PROVE Kept!Begin
    OBVIOUS
<1>1. podBar = [n \in Key |-> Kept!Absent]
    BY EmptyFacts DEF Init, podBar, Kept!Absent, Wanted
<1>2. capsuleBar = [c \in CapsuleId |-> Kept!Empty]
    BY DEF Init, capsuleBar, Kept!Empty, Unmade, CapsuleState
<1> QED BY <1>1, <1>2 DEF Init, Kept!Begin, podBar, capsuleBar

LEMMA WantedBoolean == \A p : Wanted(p) \in BOOLEAN
BY DEF Wanted

(* A pod that goes forward is the same pod, or finishes.                   *)
LEMMA PodForward ==
    ASSUME NEW k \in Key, UNCHANGED <<used, zun>>,
           \A j \in Key : j # k => api'[j] = api[j],
           api'[k].uid = api[k].uid, Wanted(api'[k]) => Wanted(api[k])
    PROVE  UNCHANGED podBar \/ Kept!Finish(k)
<1>1. CASE Wanted(api'[k]) <=> Wanted(api[k])
    <2>1. \A j \in Key : api'[j].uid = api[j].uid /\ (Wanted(api'[j]) <=> Wanted(api[j]))
        BY <1>1
    <2>2. \A j \in Key : [who |-> api'[j].uid, runs |-> Wanted(api'[j])] =
                         [who |-> api[j].uid, runs |-> Wanted(api[j])]
        <3>1. \A j \in Key : Wanted(api'[j]) = Wanted(api[j])
            BY <2>1, WantedBoolean
        <3> QED BY <2>1, <3>1
    <2> QED BY <2>2 DEF podBar
<1>2. CASE Wanted(api[k]) /\ ~ Wanted(api'[k])
    <2>1. podBar[k].runs
        BY <1>2 DEF podBar
    <2>2. podBar' = [podBar EXCEPT ![k].runs = FALSE]
        <3>1. Wanted(api'[k]) = FALSE
            BY <1>2, WantedBoolean
        <3>2. podBar' = [podBar EXCEPT ![k] = [podBar[k] EXCEPT !.runs = FALSE]]
            BY <3>1 DEF podBar
        <3> QED BY <3>2 DEF podBar
    <2> QED BY <2>1, <2>2 DEF Kept!Finish, podBar
<1> QED BY <1>1, <1>2

LEMMA AddRefines ==
    ASSUME CustodyInv, NEW u \in UID, AddPod(u)
    PROVE  Kept!Arrive(u)
<1> DEFINE k == PodKey[u]
<1>0. api \in [Key -> Pod] /\ k \in Key /\ u # NoUID
    BY ProviderAssumption DEF CustodyInv, SweepInv, TypeOK
<1>1. /\ u \notin used /\ api[k] = NoPod /\ used' = used \cup {u}
      /\ api' = [api EXCEPT ![k] = [NoPod EXCEPT !.uid = u]]
      /\ UNCHANGED zun
    BY DEF AddPod
<1>2. api'[k].uid = u /\ Wanted(api'[k])
    BY <1>0, <1>1 DEF NoPod, Wanted, Terminal
<1>3. \A j \in Key : j # k => api'[j] = api[j]
    BY <1>0, <1>1
<1>4. podBar[k].who = NoUID
    BY <1>0, <1>1, EmptyFacts DEF podBar
<1>5. podBar' = [podBar EXCEPT ![k] = [who |-> u, runs |-> TRUE]]
    <2>1. Wanted(api'[k]) = TRUE
        BY <1>2, WantedBoolean
    <2> HIDE DEF k
    <2> QED BY <1>0, <1>2, <1>3, <2>1 DEF podBar
<1> QED BY <1>1, <1>4, <1>5 DEF Kept!Arrive, podBar

LEMMA RemoveRefines ==
    ASSUME CustodyInv, NEW k \in Key, RemoveByForce(k) \/ RemoveFinished(k)
    PROVE  Kept!Leave(k)
<1>0. api \in [Key -> Pod]
    BY DEF CustodyInv, SweepInv, TypeOK
<1>1. api[k].uid # NoUID /\ api' = [api EXCEPT ![k] = NoPod] /\ UNCHANGED <<used, zun>>
    BY DEF RemoveByForce, RemoveFinished, outside
<1>2. podBar[k].who # NoUID
    BY <1>1 DEF podBar
<1>3. podBar' = [podBar EXCEPT ![k] = Kept!Absent]
    <2>1. ~ Wanted(NoPod) /\ NoPod.uid = NoUID
        BY EmptyFacts DEF Wanted
    <2>2. Wanted(NoPod) = FALSE
        BY <2>1, WantedBoolean
    <2>3. api'[k] = NoPod /\ \A j \in Key : j # k => api'[j] = api[j]
        BY <1>0, <1>1
    <2> QED BY <2>1, <2>2, <2>3 DEF podBar, Kept!Absent
<1> QED BY <1>1, <1>2, <1>3 DEF Kept!Leave, podBar

LEMMA CreateRefines ==
    ASSUME CustodyInv, NEW u \in used, ZunCreate(u), UNCHANGED <<used, api>>
    PROVE  Kept!Make(made + 1, u) /\ made + 1 \in CapsuleId
<1> DEFINE c == made + 1
           new == [uid |-> u, status |-> "Creating", age |-> "hidden"]
<1>0. /\ SweepInv /\ TypeOK /\ zun \in [CapsuleId -> Capsule] /\ NoUID \notin UID
      /\ made \in Nat /\ CapsuleId \subseteq Nat
    BY CapsuleFacts, ProviderAssumption DEF CustodyInv, SweepInv, TypeOK
<1>1. c \in CapsuleId /\ zun' = [zun EXCEPT ![c] = new]
    BY <1>0, ZunCreateType DEF ZunCreate, TypeOK
<1>2. zun[c] = Unmade
    BY <1>0, <1>1 DEF SweepInv, CapsulesInOrder
<1>3. capsuleBar[c] = Kept!Empty
    BY <1>1, <1>2 DEF capsuleBar, Kept!Empty, Unmade, CapsuleState
<1>4. ASSUME NEW d \in CapsuleId, d < c PROVE capsuleBar[d] # Kept!Empty
    <2>1. d <= made
        BY <1>0, <1>4
    <2>2. zun[d].uid # NoUID
        BY <1>0, <2>1, CapsuleFacts
    <2> QED BY <2>2 DEF capsuleBar, Kept!Empty
<1>5. capsuleBar' = [capsuleBar EXCEPT ![c] = [of |-> u, state |-> "kept"]]
    <2>1. zun'[c].uid = u /\ CapsuleState(zun'[c].status) = "kept"
        BY <1>0, <1>1 DEF CapsuleState
    <2>2. \A d \in CapsuleId : d # c => zun'[d] = zun[d]
        BY <1>0, <1>1
    <2> HIDE DEF c
    <2> QED BY <1>1, <2>1, <2>2 DEF capsuleBar
<1> HIDE DEF c
<1>6. Kept!Make(c, u)
    BY <1>3, <1>4, <1>5 DEF Kept!Make, capsuleBar
<1> QED BY <1>1, <1>6 DEF c

(* A capsule whose owner and condition stay is the same to Custody.        *)
LEMMA CapsuleSame ==
    ASSUME \A c \in CapsuleId : /\ zun'[c].uid = zun[c].uid
                                /\ CapsuleState(zun'[c].status) = CapsuleState(zun[c].status)
    PROVE  UNCHANGED capsuleBar
BY DEF capsuleBar

LEMMA CapsuleTurns ==
    ASSUME NEW c \in CapsuleId, NEW state, zun'[c].uid = zun[c].uid,
           CapsuleState(zun'[c].status) = state,
           \A d \in CapsuleId : d # c => zun'[d] = zun[d]
    PROVE  capsuleBar' = [capsuleBar EXCEPT ![c].state = state]
<1>1. capsuleBar' = [capsuleBar EXCEPT ![c] = [capsuleBar[c] EXCEPT !.state = state]]
    BY DEF capsuleBar
<1> QED BY <1>1 DEF capsuleBar

(* A capsule taken away is one that its pod does not need.                 *)
LEMMA TakeRefines ==
    ASSUME CustodyInv, Next, NEW c \in CapsuleId, ZunDelete({c}), UNCHANGED <<used, api>>
    PROVE  UNCHANGED capsuleBar \/ Kept!Take(c)
<1>0. SweepInv /\ zun \in [CapsuleId -> Capsule] /\ zun[c] \in Capsule
    BY DEF CustodyInv, SweepInv, TypeOK
<1>1. \A d \in CapsuleId : zun'[d].uid = zun[d].uid /\ (d # c => zun'[d] = zun[d])
    BY <1>0, ZunDeleteQuiet DEF QuietZun, ZunDelete
<1>2. CASE ~ Alive(c) \/ zun[c].status = "Deleting"
    <2>1. zun'[c].status = zun[c].status
        BY <1>0, <1>2 DEF ZunDelete, Alive, Capsule
    <2> QED BY <1>1, <2>1, CapsuleSame
<1>3. CASE Alive(c) /\ zun[c].status # "Deleting"
    <2> DEFINE u == zun[c].uid
    <2>1. zun'[c].status = "Deleting"
        BY <1>0, <1>3 DEF ZunDelete, Capsule
    <2>2. \/ ~ Running(PodKey[u], u)
          \/ \E d \in CapsuleId : d > c /\ zun[d].uid = u
        BY <1>3, <2>1, TakenIsSpare
    <2>3. capsuleBar[c].state = "kept" /\ capsuleBar[c].of = u
        BY <1>3 DEF capsuleBar, CapsuleState, Alive
    <2>4. capsuleBar' = [capsuleBar EXCEPT ![c].state = "going"]
        <3>1. CapsuleState(zun'[c].status) = "going"
            BY <2>1 DEF CapsuleState
        <3> QED BY <1>1, <3>1, CapsuleTurns
    <2>5. PodKey[u] \in Key
        <3>1. c <= made
            BY <1>0, <1>3, CapsuleFacts DEF SweepInv, CapsulesInOrder, Alive, Unmade
        <3> QED BY <1>0, <3>1, CapsuleFacts
    <2>6. ~ Kept!Needed(c)
        <3>1. ASSUME ~ Running(PodKey[u], u)
              PROVE  podBar[PodKey[u]] # [who |-> u, runs |-> TRUE]
            BY <2>5, <3>1 DEF podBar, Running
        <3>2. \A d \in CapsuleId : capsuleBar[d].of = zun[d].uid
            BY DEF capsuleBar
        <3> QED BY <2>2, <2>3, <3>1, <3>2 DEF Kept!Needed, podBar, capsuleBar
    <2> QED BY <2>3, <2>4, <2>6 DEF Kept!Take, podBar, capsuleBar
<1> QED BY <1>2, <1>3

LEMMA ZunRefines ==
    ASSUME CustodyInv, NEW c \in CapsuleId,
           ZunBuilds(c) \/ ZunReports(c) \/ ZunRemoves(c) \/ ZunLoses(c) \/ AgeCapsule(c)
    PROVE  UNCHANGED <<used, api>> /\ (UNCHANGED capsuleBar \/ Kept!Vanish(c))
<1>0. zun \in [CapsuleId -> Capsule] /\ zun[c] \in Capsule
    BY DEF CustodyInv, SweepInv, TypeOK
<1>1. ASSUME NEW status, NEW age, SetCapsule(c, status, age)
      PROVE  /\ zun'[c].status = status /\ UNCHANGED <<used, api>>
             /\ \A d \in CapsuleId : zun'[d].uid = zun[d].uid /\ (d # c => zun'[d] = zun[d])
    <2>1. /\ zun' = [zun EXCEPT ![c].status = status, ![c].age = age]
          /\ UNCHANGED <<used, api>>
        BY <1>1 DEF SetCapsule, outside
    <2> QED BY <1>0, <2>1 DEF Capsule
<1>2. CASE ZunBuilds(c) \/ ZunReports(c) \/ AgeCapsule(c)
    <2>1. PICK status, age : /\ SetCapsule(c, status, age)
                             /\ \/ status = zun[c].status
                                \/ /\ status \in Reported
                                   /\ zun[c].status \in {"Creating", "Running", "Unknown"}
        BY <1>2 DEF ZunBuilds, ZunReports, AgeCapsule
    <2>2. CapsuleState(status) = CapsuleState(zun[c].status)
        <3>1. \A st \in {"Creating", "Running", "Stopped", "Error", "Unknown"} :
                 CapsuleState(st) = "kept"
            BY DEF CapsuleState
        <3> QED BY <2>1, <3>1, ProviderAssumption
    <2>3. \A d \in CapsuleId : /\ zun'[d].uid = zun[d].uid
                               /\ CapsuleState(zun'[d].status) = CapsuleState(zun[d].status)
        BY <1>1, <2>1, <2>2
    <2> QED BY <1>1, <2>1, <2>3, CapsuleSame
<1>3. CASE ZunRemoves(c) \/ ZunLoses(c)
    <2>1. PICK age : SetCapsule(c, "Gone", age) /\ Alive(c)
        BY <1>3 DEF ZunRemoves, ZunLoses, Alive
    <2>2. CapsuleState(zun'[c].status) = "gone"
        BY <1>1, <2>1 DEF CapsuleState
    <2>3. capsuleBar' = [capsuleBar EXCEPT ![c].state = "gone"]
        BY <1>1, <2>1, <2>2, CapsuleTurns
    <2>4. capsuleBar[c].state \in {"kept", "going"}
        BY <2>1 DEF capsuleBar, CapsuleState, Alive
    <2>5. Kept!Vanish(c)
        <3>1. UNCHANGED <<podBar, used>>
            BY <1>1, <2>1 DEF podBar
        <3> QED BY <2>3, <2>4, <3>1 DEF Kept!Vanish, podBar, capsuleBar
    <2> QED BY <1>1, <2>1, <2>5
<1> QED BY <1>2, <1>3

(* A publication, seen from Custody.                                       *)
LEMMA NotifyRefines ==
    ASSUME TypeOK, NEW k \in Key, NEW e, notify(k, e), UNCHANGED <<used, zun>>
    PROVE  UNCHANGED podBar \/ Kept!Finish(k)
<1>1. \A j \in Key : api'[j].uid = api[j].uid /\ (j # k => api'[j] = api[j])
    BY NotifyQuiet DEF notify, TypeOK
<1>2. Wanted(api'[k]) => Wanted(api[k])
    <2>1. CASE ~ Terminal(api[k].phase) /\ e.uid # NoUID /\ api[k].uid = e.uid
        <3>1. api' = [api EXCEPT ![k] = [api[k] EXCEPT !.phase = e.phase, !.addr = e.addr]]
            BY <2>1 DEF notify
        <3>2. api'[k].deleting = api[k].deleting
            BY <3>1 DEF TypeOK, Pod
        <3> QED BY <1>1, <2>1, <3>2 DEF Wanted
    <2>2. CASE ~ (~ Terminal(api[k].phase) /\ e.uid # NoUID /\ api[k].uid = e.uid)
        BY <2>2 DEF notify
    <2> QED BY <2>1, <2>2
<1> QED BY <1>1, <1>2, PodForward

LEMMA StepRefines ==
    ASSUME CustodyInv, Next
    PROVE  Kept!Step \/ UNCHANGED Kept!custodyVars
<1> DEFINE Same == UNCHANGED <<podBar, used, capsuleBar>>
           Goal == Kept!Step \/ UNCHANGED Kept!custodyVars
<1> USE DEF outside
<1>0. TypeOK /\ SweepInv
    BY DEF CustodyInv, SweepInv
<1>s. ASSUME Same PROVE Goal
    BY <1>s DEF Kept!custodyVars, podBar, capsuleBar
<1>a. ASSUME UNCHANGED api PROVE UNCHANGED podBar
    BY <1>a DEF podBar
<1>z. ASSUME UNCHANGED zun PROVE UNCHANGED capsuleBar
    BY <1>z DEF capsuleBar
<1>f. ASSUME UNCHANGED <<used, zun>>, NEW k \in Key, UNCHANGED podBar \/ Kept!Finish(k)
      PROVE  Goal
    <2>1. CASE UNCHANGED podBar
        BY <1>f, <1>s, <1>z, <2>1
    <2>2. CASE Kept!Finish(k)
        BY <2>2 DEF Kept!Step
    <2> QED BY <1>f, <2>1, <2>2
<1>m. ASSUME NEW u \in used, ZunCreate(u), UNCHANGED <<used, api>> PROVE Goal
    <2>1. Kept!Make(made + 1, u) /\ made + 1 \in CapsuleId /\ u \in UID
        BY <1>0, <1>m, CreateRefines DEF TypeOK
    <2> QED BY <2>1 DEF Kept!Step
<1>t. ASSUME NEW c \in CapsuleId, ZunDelete({c}), UNCHANGED <<used, api>> PROVE Goal
    <2>1. UNCHANGED capsuleBar \/ Kept!Take(c)
        BY <1>t, TakeRefines
    <2>2. CASE UNCHANGED capsuleBar
        BY <1>a, <1>s, <1>t, <2>2
    <2>3. CASE Kept!Take(c)
        BY <2>3 DEF Kept!Step
    <2> QED BY <2>1, <2>2, <2>3
<1> HIDE DEF Goal
<1>1. ASSUME NEW k \in Key, Create(k) PROVE Goal
    <2>1. CASE trackPod(k)
        <3>1. (\E e : notify(k, e)) /\ UNCHANGED <<used, zun>>
            BY <2>1 DEF trackPod
        <3> QED BY <1>0, <1>f, <3>1, NotifyRefines
    <2>2. CASE CreateCapsule(k) \/ CreateAnswerLost(k)
        <3>1. /\ ZunCreate(worker[k].pod.uid) /\ UNCHANGED <<used, api>>
              /\ worker[k].op = "build"
            BY <2>2 DEF CreateCapsule, CreateAnswerLost
        <3>2. worker[k].pod.uid \in used
            BY <3>1 DEF CustodyInv, CallsSeen, Seen
        <3> QED BY <1>m, <3>1, <3>2
    <2>3. CASE \/ CallCreatePod(k) \/ CallUpdatePod(k) \/ CreateAdopts(k)
               \/ CreateProceeds(k) \/ CreateListFails(k) \/ CreateRefused(k)
        <3>1. UNCHANGED <<used, api, zun>>
            BY <2>3 DEF CallCreatePod, CallUpdatePod, CreateAdopts, CreateProceeds,
                        CreateListFails, CreateRefused
        <3> QED BY <1>a, <1>s, <1>z, <3>1
    <2> QED BY <1>1, <2>1, <2>2, <2>3 DEF Create
<1>2. ASSUME NEW k \in Key, Delete(k) PROVE Goal
    <2>1. CASE MarkDeleted(k)
        <3>1. (\E e : notify(k, e)) /\ UNCHANGED <<used, zun>>
            BY <2>1 DEF MarkDeleted
        <3> QED BY <1>0, <1>f, <3>1, NotifyRefines
    <2>2. CASE DeleteCapsule(k)
        <3>1. /\ UNCHANGED <<used, api>>
              /\ UNCHANGED zun \/ \E c \in CapsuleId : ZunDelete({c})
            BY <2>2 DEF DeleteCapsule
        <3> QED BY <1>a, <1>s, <1>t, <1>z, <3>1
    <2>3. CASE CallDeletePod(k) \/ CallNothing(k) \/ DeleteUnserved(k) \/ DeleteFails(k)
        <3>1. UNCHANGED <<used, api, zun>>
            BY <2>3 DEF CallDeletePod, CallNothing, DeleteUnserved, DeleteFails
        <3> QED BY <1>a, <1>s, <1>z, <3>1
    <2> QED BY <1>2, <2>1, <2>2, <2>3 DEF Delete
<1>3. ASSUME Sync PROVE Goal
    <2>1. \/ UNCHANGED <<used, api, zun>>
          \/ \E k \in Key : reclaimFinished(k) \/ JudgeMissing(k) \/ JudgeReports(k)
        BY <1>3 DEF Sync, SyncSnapshot, SyncListTenant, SyncSkipTenant, SyncListFails,
                    Judge, JudgeSkips, JudgeDrops
    <2>2. ASSUME NEW k \in Key, reclaimFinished(k) PROVE Goal
        <3>1. /\ UNCHANGED <<used, api>> /\ sync.managed[k].id # 0
              /\ UNCHANGED zun \/ ZunDelete({sync.managed[k].id})
            BY <2>2 DEF reclaimFinished, Found
        <3>2. sync.managed[k].id \in CapsuleId
            BY <1>0, <3>1, ProviderAssumption DEF TypeOK, SyncState, Listing, CapsuleId
        <3> QED BY <1>a, <1>s, <1>t, <1>z, <3>1, <3>2
    <2>3. ASSUME NEW k \in Key, JudgeMissing(k) \/ JudgeReports(k) PROVE Goal
        <3>1. /\ UNCHANGED <<used, zun>>
              /\ UNCHANGED api \/ \E e : notify(k, e)
            BY <2>3 DEF JudgeMissing, JudgeReports, updateStatus
        <3> QED BY <1>0, <1>a, <1>f, <1>s, <1>z, <3>1, NotifyRefines
    <2> QED BY <1>a, <1>s, <1>z, <2>1, <2>2, <2>3
<1>4. ASSUME Sweeping PROVE Goal
    <2>1. /\ UNCHANGED <<used, api>>
          /\ UNCHANGED zun \/ \E c \in CapsuleId : ZunDelete({c})
        BY <1>4 DEF Sweeping, SweepList, SweepJudge, SweepDelete
    <2> QED BY <1>a, <1>s, <1>t, <1>z, <2>1
<1>5. ASSUME Environment PROVE Goal
    <2>1. ASSUME NEW u \in UID, AddPod(u) PROVE Goal
        BY <2>1, AddRefines DEF Goal, Kept!Step
    <2>2. ASSUME NEW u \in UID, CreateElsewhere(u) PROVE Goal
        BY <1>m, <2>2 DEF CreateElsewhere
    <2>3. ASSUME NEW k \in Key, RemoveByForce(k) \/ RemoveFinished(k) PROVE Goal
        BY <2>3, RemoveRefines DEF Goal, Kept!Step
    <2>4. ASSUME NEW k \in Key, RequestDeletion(k) PROVE Goal
        <3>1. api' = [api EXCEPT ![k] = [api[k] EXCEPT !.deleting = TRUE]]
              /\ UNCHANGED <<used, zun>>
            BY <2>4 DEF RequestDeletion
        <3>2. /\ api'[k].uid = api[k].uid /\ api'[k].deleting
              /\ \A j \in Key : j # k => api'[j] = api[j]
            BY <1>0, <3>1, Zenon DEF TypeOK, Pod
        <3>3. Wanted(api'[k]) => Wanted(api[k])
            BY <3>2 DEF Wanted
        <3> QED BY <1>f, <3>1, <3>2, <3>3, PodForward
    <2>5. ASSUME NEW c \in CapsuleId,
                 ZunBuilds(c) \/ ZunReports(c) \/ ZunRemoves(c) \/ ZunLoses(c) \/ AgeCapsule(c)
          PROVE  Goal
        <3>1. UNCHANGED <<used, api>> /\ (UNCHANGED capsuleBar \/ Kept!Vanish(c))
            BY <2>5, ZunRefines
        <3>2. CASE UNCHANGED capsuleBar
            BY <1>a, <1>s, <3>1, <3>2
        <3>3. CASE Kept!Vanish(c)
            BY <3>3 DEF Goal, Kept!Step
        <3> QED BY <3>1, <3>2, <3>3
    <2>6. CASE \/ \E k \in Key : CacheUpdate(k) \/ AgePod(k)
               \/ \E t \in Tenant : StopServing(t)
               \/ CacheList \/ Crash
        <3>1. UNCHANGED <<used, api, zun>>
            BY <2>6 DEF CacheUpdate, AgePod, StopServing, CacheList, Crash
        <3> QED BY <1>a, <1>s, <1>z, <3>1
    <2> QED BY <1>5, <2>1, <2>2, <2>3, <2>4, <2>5, <2>6 DEF Environment
<1> QED BY <1>1, <1>2, <1>3, <1>4, <1>5 DEF Next, Goal

(* The provider implements Custody: what its workers, the sync and the     *)
(* sweep do to pods and capsules, through caches that lag and crashes, is  *)
(* what Custody allows, and no capsule goes that a pod still needs.        *)
THEOREM ProviderKeepsCustody == Spec => CustodyKept
<1>1. CustodyInv /\ [Next]_vars => [Kept!Step]_(Kept!custodyVars)
    <2>1. ASSUME UNCHANGED vars PROVE UNCHANGED Kept!custodyVars
        BY <2>1 DEF vars, outside, Kept!custodyVars
    <2> QED BY <2>1, StepRefines
<1> QED BY <1>1, InitRefines, CustodyInvariant, PTL DEF Spec, CustodyKept, Kept!Promise
=============================================================================
