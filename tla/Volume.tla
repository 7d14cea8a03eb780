------------------------------- MODULE Volume -------------------------------
(***************************************************************************)
(* Persistent storage (pkg/volume): one claim name of a tenant, the claims *)
(* that bear it in turn, the PersistentVolumes and the Cinder volumes (or  *)
(* Manila shares) made for them, and the two goroutines that change them:  *)
(* the controller's worker (Reconcile: provision, then expand) and the     *)
(* sweep of released volumes. Both read informer caches that lag the API   *)
(* server; every call to the API server, Cinder or Zun is a step, and the  *)
(* process may die between any two.                                        *)
(*                                                                         *)
(* Requests are in half GiB, storage in GiB: a request is rounded up.      *)
(***************************************************************************)
EXTENDS Integers, FiniteSets

CONSTANTS
    UID,        \* claim incarnations
    NoUID,      \* "no claim"
    Requests,   \* the sizes a claim may ask for, in half GiB
    Block,      \* does the class name Cinder (TRUE) or Manila (FALSE)?
    WaitFor,    \* does the class wait for the first consumer?
    Retain,     \* claims annotated with the reclaim policy Retain
    Flaky,      \* may calls fail, and Cinder refuse or fail to extend?
    Timeout,    \* may an extension outlast extendSettle?
    Resync,     \* does the claim informer resync (it does not when scoped)?
    MaxStore,   \* bound: storage that exists or is still named at one time
    MaxFaults   \* bound: crashes, lost answers and failed removals

ASSUME VolumeAssumption ==
    /\ NoUID \notin UID
    /\ Requests \subseteq Nat \ {0}
    /\ \E top \in Requests : \A r \in Requests : r <= top
    /\ {Block, WaitFor, Flaky, Timeout, Resync} \subseteq BOOLEAN
    /\ Retain \subseteq UID
    /\ MaxStore \in Nat /\ MaxFaults \in Nat

VARIABLES
    claim,     \* the API server's claim, with its status
    used,      \* incarnations that have existed
    cached,    \* the claim informer
    pv,        \* the API server's PersistentVolume of each incarnation (pvName)
    pvCached,  \* the volume informer
    store,     \* Cinder's volumes
    queue,     \* the claim's name is queued
    work,      \* the reconcile in progress
    sweep,     \* what the sweep in progress still has to remove
    faults

objects == <<claim, used, pv>>
caches == <<cached, pvCached>>
vars == <<objects, caches, store, queue, work, sweep, faults>>

-----------------------------------------------------------------------------
Larger(a, b) == IF a < b THEN b ELSE a

StoreId == 1..MaxStore

(* Whole GiB, rounded up.                                                    *)
Gib(size) == (size + 1) \div 2

Sizes == 0..CHOOSE n \in {2 * Gib(r) : r \in Requests} :
              \A r \in Requests : 2 * Gib(r) <= n

(* state: the entry of allocatedResourceStatuses, "" when there is none.     *)
Claim == [uid: UID \cup {NoUID}, want: Sizes, have: Sizes, alloc: Sizes,
          state: {"", "inProgress", "infeasible", "nodeInProgress"},
          bound: BOOLEAN, node: BOOLEAN]

NoClaim == [uid |-> NoUID, want |-> 0, have |-> 0, alloc |-> 0, state |-> "",
            bound |-> FALSE, node |-> FALSE]

PV == [store: 0..MaxStore, size: Sizes, phase: {"", "Available", "Bound", "Released"}]

NoPV == [store |-> 0, size |-> 0, phase |-> ""]

Store == [size: Sizes, target: Sizes,
          status: {"available", "extending", "error", "gone"}]

Ops == {"idle", "create", "publish", "undo", "undoRetry", "allocate", "extend",
        "await", "infeasible", "volume", "node", "grow", "claim"}

(* The claim and the volume as the reconcile found them in the caches.       *)
Work == [op: Ops, claim: Claim, pv: PV, store: 0..MaxStore, got: Sizes]

Idle == [op |-> "idle", claim |-> NoClaim, pv |-> NoPV, store |-> 0, got |-> 0]

Exists(u) == pv[u].phase # ""

-----------------------------------------------------------------------------
(* Reconcile: what the cached claim calls for.                               *)

Take == work.op = "idle" /\ queue

Bound == cached.uid # NoUID /\ cached.bound

(* Mutant: a size already undertaken is not asked for again.                 *)
GrowsOnce == Bound /\ cached.want > Larger(cached.have, cached.alloc)

Grows == Bound /\ cached.want > cached.have

(* Mutant: the scheduler's choice is never seen.                             *)
waitingForEver == WaitFor

waitingForConsumer == WaitFor /\ ~ cached.node

(* settleAllocation's conditions, all read in the cache.                     *)
Settles ==
    /\ Bound /\ ~ Grows
    /\ cached.alloc > cached.want
    /\ cached.state = ""
    /\ cached.have <= cached.want

Provisions ==
    /\ cached.uid # NoUID /\ ~ cached.bound
    /\ ~ waitingForConsumer
    /\ pvCached[cached.uid].phase = ""

Expands == Grows /\ pvCached[cached.uid].phase # ""

ReconcileNothing ==
    /\ Take /\ ~ Settles /\ ~ Provisions /\ ~ Expands
    /\ queue' = FALSE
    /\ UNCHANGED <<objects, caches, store, work, sweep, faults>>

Begin(op) ==
    /\ Take
    /\ queue' = FALSE
    /\ work' = [Idle EXCEPT !.op = op, !.claim = cached, !.pv = pvCached[cached.uid],
                            !.store = pvCached[cached.uid].store]
    /\ UNCHANGED <<objects, caches, store, sweep, faults>>

ReconcileProvisions == Provisions /\ Begin("create")

ReconcileExpands == Expands /\ Begin("allocate")

(* The process ends and another starts, with fresh caches.                   *)
Restart ==
    /\ work' = Idle /\ sweep' = {}
    /\ cached' = claim /\ pvCached' = pv /\ queue' = (claim.uid # NoUID)
    /\ UNCHANGED <<objects, store>>

(* settleAllocation: the fresh claim, found by name, is written. One without *)
(* an allocation is another claim of that name: the write into its nil map   *)
(* panics.                                                                   *)
ReconcileSettles ==
    /\ Take /\ Settles
    /\ IF claim.uid # NoUID /\ claim.alloc = 0 THEN Restart
       ELSE /\ IF claim.uid = NoUID THEN UNCHANGED <<claim, queue>>
               ELSE queue' = FALSE /\ claim' = [claim EXCEPT !.alloc = cached.want]
            /\ UNCHANGED <<used, pv, caches, store, work, sweep>>
    /\ UNCHANGED faults

Goto(op) == work' = [work EXCEPT !.op = op]

Done == work' = Idle

Retry == Done /\ queue' = TRUE

Fault == faults < MaxFaults /\ faults' = faults + 1

(* A call to the API server, Cinder or Zun that fails before it has had an   *)
(* effect: the error is returned, and the controller retries. (A failed call *)
(* of Expand is recorded first: ExpandRefused, awaitBlockSize.)              *)
CallFails ==
    /\ work.op \in {"create", "allocate", "volume", "node", "grow", "claim"}
    /\ Flaky
    /\ Retry
    /\ UNCHANGED <<objects, caches, store, sweep, faults>>

-----------------------------------------------------------------------------
(* provision: storage first, then the volume that names it.                  *)

(* A slot of the model that holds no storage and that nothing names.         *)
Free(s) ==
    /\ store[s].status = "gone" /\ work.store # s
    /\ \A u \in UID : pv[u].store # s /\ pvCached[u].store # s /\ <<u, s>> \notin sweep

NewStore(s, gib) ==
    /\ Free(s) /\ \A t \in 1..(s - 1) : ~ Free(t)
    /\ store' = [store EXCEPT ![s] = [size |-> gib, target |-> gib, status |-> "available"]]

provision ==
    /\ work.op = "create"
    /\ \E s \in StoreId : /\ NewStore(s, Gib(work.claim.want))
                          /\ work' = [work EXCEPT !.op = "publish", !.store = s]
    /\ UNCHANGED <<objects, caches, queue, sweep, faults>>

ProvisionAnswerLost ==
    /\ work.op = "create" /\ Fault
    /\ \E s \in StoreId : NewStore(s, Gib(work.claim.want))
    /\ Retry
    /\ UNCHANGED <<objects, caches, sweep>>

(* The volume is created under a name derived from the claim's UID; when it  *)
(* is there already, or cannot be made, the new storage is given back.       *)
PublishVolume ==
    LET u == work.claim.uid IN
    /\ work.op = "publish"
    /\ IF Exists(u) THEN Goto("undo") /\ UNCHANGED pv
       ELSE /\ pv' = [pv EXCEPT ![u] = [store |-> work.store, phase |-> "Available",
                                        size |-> store[work.store].size]]
            /\ Done
    /\ UNCHANGED <<claim, used, caches, store, queue, sweep, faults>>

PublishFails ==
    /\ work.op = "publish" /\ Flaky
    /\ Goto("undoRetry")
    /\ UNCHANGED <<objects, caches, store, queue, sweep, faults>>

(* After a lost race the winner's volume is read, which may fail too.        *)
EndUndo ==
    /\ Done
    /\ \/ work.op = "undo" /\ UNCHANGED queue
       \/ (work.op = "undoRetry" \/ Flaky) /\ queue' = TRUE

Remove(s) == store' = [store EXCEPT ![s].status = "gone"]

(* Mutant: the storage of the lost race is left.                             *)
UndoNothing ==
    /\ work.op \in {"undo", "undoRetry"}
    /\ EndUndo
    /\ UNCHANGED <<objects, caches, store, sweep, faults>>

(* Mutant: the storage of the volume that exists is removed.                 *)
UndoWinner ==
    /\ work.op \in {"undo", "undoRetry"}
    /\ \E s \in StoreId : s \in {work.store, pv[work.claim.uid].store} /\ Remove(s)
    /\ EndUndo
    /\ UNCHANGED <<objects, caches, sweep, faults>>

UndoProvision ==
    /\ work.op \in {"undo", "undoRetry"}
    /\ Remove(work.store)
    /\ EndUndo
    /\ UNCHANGED <<objects, caches, sweep, faults>>

UndoFails ==
    /\ work.op \in {"undo", "undoRetry"} /\ Fault
    /\ EndUndo
    /\ UNCHANGED <<objects, caches, store, sweep>>

-----------------------------------------------------------------------------
(* expandIfAsked: say what will be reached, extend, then record what was.    *)

(* Mutants: only the state is recorded; sizes add up.                        *)
recordState(size, state) == claim' = [claim EXCEPT !.state = state]

recordSum(size, state) == claim' = [claim EXCEPT !.alloc = @ + size, !.state = state]

recordAllocation(size, state) ==
    claim' =
      IF \/ claim.alloc >= size /\ claim.state = state
         \/ claim.alloc = size /\ claim.state = "infeasible" /\ state = "inProgress"
      THEN claim
      ELSE [claim EXCEPT !.alloc = Larger(@, size), !.state = state]

RecordStep(op, state, next) ==
    /\ work.op = op
    /\ IF claim.uid = NoUID THEN Retry /\ UNCHANGED claim
       ELSE /\ recordAllocation(work.claim.want, state)
            /\ Goto(next) /\ UNCHANGED queue
    /\ UNCHANGED <<used, pv, caches, store, sweep, faults>>

RecordInProgress == RecordStep("allocate", "inProgress", "extend")

RecordNodeInProgress == RecordStep("node", "nodeInProgress", "grow")

Behind == store[work.store]

Short == Behind.size < Gib(work.claim.want)

Reached == work' = [work EXCEPT !.op = "volume", !.got = Behind.size]

(* Expand: already large enough, or extended. Cinder extends a volume that   *)
(* is neither extending nor in error, and does it after it has answered.     *)
Expand ==
    /\ work.op = "extend" /\ Behind.status # "gone"
    /\ \/ /\ ~ Short
          /\ Reached /\ UNCHANGED store
       \/ /\ Short /\ Behind.status = "available"
          /\ store' = [store EXCEPT ![work.store].status = "extending",
                                    ![work.store].target = Gib(work.claim.want)]
          /\ Goto("await")
    /\ UNCHANGED <<objects, caches, queue, sweep, faults>>

ExpandRefused ==
    /\ work.op = "extend"
    /\ Flaky \/ Behind.status = "gone" \/ (Short /\ Behind.status # "available")
    /\ Goto("infeasible")
    /\ UNCHANGED <<objects, caches, store, queue, sweep, faults>>

(* Mutant: an accepted extension is taken for done.                          *)
awaitNothing ==
    /\ work.op = "await"
    /\ work' = [work EXCEPT !.op = "volume", !.got = Gib(work.claim.want)]
    /\ UNCHANGED <<objects, caches, store, queue, sweep, faults>>

(* It gives up at extendSettle, on a failed read, and on what ended short.   *)
awaitBlockSize ==
    /\ work.op = "await"
    /\ \/ Behind.status = "available" /\ ~ Short /\ Reached
       \/ /\ \/ Flaky
             \/ Timeout /\ Behind.status = "extending"
             \/ Short /\ Behind.status # "extending"
             \/ Behind.status \in {"error", "gone"}
          /\ Goto("infeasible")
    /\ UNCHANGED <<objects, caches, store, queue, sweep, faults>>

(* An error on the way here is only logged.                                  *)
RecordInfeasible ==
    /\ work.op = "infeasible"
    /\ \/ claim.uid # NoUID /\ recordAllocation(work.claim.want, "infeasible")
       \/ (claim.uid = NoUID \/ Flaky) /\ UNCHANGED claim
    /\ Retry
    /\ UNCHANGED <<used, pv, caches, store, sweep, faults>>

(* recordVolumeSize writes the cached volume back: refused when it is stale. *)
recordVolumeSize ==
    LET u == work.claim.uid
        next == Goto(IF Block THEN "node" ELSE "claim") /\ UNCHANGED queue
    IN  /\ work.op = "volume"
        /\ IF work.pv.size = work.got THEN next /\ UNCHANGED pv
           ELSE IF work.pv = pv[u]
           THEN next /\ pv' = [pv EXCEPT ![u].size = work.got]
           ELSE Retry /\ UNCHANGED pv
        /\ UNCHANGED <<claim, used, caches, store, sweep, faults>>

(* Every pod that uses the claim, if there is one, is told to grow the       *)
(* filesystem; a failure is a CallFails.                                     *)
growFilesystems ==
    /\ work.op = "grow"
    /\ Goto("claim")
    /\ UNCHANGED <<objects, caches, store, queue, sweep, faults>>

recordClaimSize ==
    LET size == 2 * work.got IN
    /\ work.op = "claim"
    /\ IF claim.uid = NoUID THEN Retry /\ UNCHANGED claim
       ELSE /\ claim' = [claim EXCEPT !.have = size, !.state = "",
                           !.alloc = IF @ > claim.want /\ size <= claim.want
                                     THEN claim.want ELSE @]
            /\ Done /\ UNCHANGED queue
    /\ UNCHANGED <<used, pv, caches, store, sweep, faults>>

-----------------------------------------------------------------------------
(* SweepReleased: the storage first, then the volume that names it.          *)

SweepReleased ==
    /\ sweep = {}
    /\ sweep' = {<<u, pvCached[u].store>> :
                   u \in {v \in UID \ Retain : pvCached[v].phase = "Released"}}
    /\ sweep' # {}
    /\ UNCHANGED <<objects, caches, store, queue, work, faults>>

(* Mutant: the storage is removed and the volume stays.                      *)
SweepStorage(u, s) ==
    /\ <<u, s>> \in sweep
    /\ Remove(s)
    /\ sweep' = sweep \ {<<u, s>>}
    /\ UNCHANGED <<objects, caches, queue, work, faults>>

(* A volume already swept names storage that is gone, which is no error.     *)
SweepVolume(u, s) ==
    /\ <<u, s>> \in sweep
    /\ Remove(s)
    /\ \/ pv' = [pv EXCEPT ![u] = NoPV] /\ UNCHANGED faults
       \/ Fault /\ UNCHANGED pv
    /\ sweep' = sweep \ {<<u, s>>}
    /\ UNCHANGED <<claim, used, caches, queue, work>>

SweepFails(u, s) ==
    /\ <<u, s>> \in sweep /\ Flaky
    /\ sweep' = sweep \ {<<u, s>>}
    /\ UNCHANGED <<objects, caches, store, queue, work, faults>>

-----------------------------------------------------------------------------
(* The environment.                                                          *)

AddClaim(u) ==
    /\ u \notin used /\ claim = NoClaim
    /\ \E want \in Requests :
         claim' = [NoClaim EXCEPT !.uid = u, !.want = want]
    /\ used' = used \cup {u}
    /\ UNCHANGED <<pv, caches, store, queue, work, sweep, faults>>

SchedulerSelects ==
    /\ WaitFor /\ claim.uid # NoUID /\ ~ claim.node
    /\ claim' = [claim EXCEPT !.node = TRUE]
    /\ UNCHANGED <<used, pv, caches, store, queue, work, sweep, faults>>

(* A bound claim's request may grow, and shrink down to what it has.         *)
Resize(want) ==
    /\ claim.bound /\ want # claim.want /\ want >= claim.have
    /\ claim' = [claim EXCEPT !.want = want]
    /\ UNCHANGED <<used, pv, caches, store, queue, work, sweep, faults>>

RemoveClaim ==
    /\ claim.uid # NoUID
    /\ claim' = NoClaim
    /\ UNCHANGED <<used, pv, caches, store, queue, work, sweep, faults>>

(* The cluster's volume controller binds by claimRef, and releases.          *)
BindClaim(u) ==
    /\ claim.uid = u /\ ~ claim.bound /\ pv[u].phase = "Available"
    /\ claim' = [claim EXCEPT !.bound = TRUE, !.have = 2 * pv[u].size]
    /\ pv' = [pv EXCEPT ![u].phase = "Bound"]
    /\ UNCHANGED <<used, caches, store, queue, work, sweep, faults>>

Release(u) ==
    /\ claim.uid # u /\ pv[u].phase \in {"Available", "Bound"}
    /\ pv' = [pv EXCEPT ![u].phase = "Released"]
    /\ UNCHANGED <<claim, used, caches, store, queue, work, sweep, faults>>

CacheClaim ==
    /\ cached # claim
    /\ cached' = claim
    /\ queue' = (queue \/ claim.uid # NoUID)
    /\ UNCHANGED <<objects, pvCached, store, work, sweep, faults>>

(* A resync delivers the cached claim again as an update.                    *)
ResyncClaim ==
    /\ Resync /\ cached.uid # NoUID /\ ~ queue
    /\ queue' = TRUE
    /\ UNCHANGED <<objects, caches, store, work, sweep, faults>>

CachePV(u) ==
    /\ pvCached[u] # pv[u]
    /\ pvCached' = [pvCached EXCEPT ![u] = pv[u]]
    /\ UNCHANGED <<objects, cached, store, queue, work, sweep, faults>>

StoreExtends(s) ==
    /\ store[s].status = "extending"
    /\ \/ store' = [store EXCEPT ![s].status = "available", ![s].size = store[s].target]
       \/ Flaky /\ store' = [store EXCEPT ![s].status = "error"]
    /\ UNCHANGED <<objects, caches, queue, work, sweep, faults>>

(* An operator resets a volume left in error.                                *)
StoreReset(s) ==
    /\ store[s].status = "error"
    /\ store' = [store EXCEPT ![s].status = "available"]
    /\ UNCHANGED <<objects, caches, queue, work, sweep, faults>>

Crash == Fault /\ Restart

-----------------------------------------------------------------------------
Init ==
    /\ claim = NoClaim /\ used = {} /\ cached = NoClaim
    /\ pv = [u \in UID |-> NoPV] /\ pvCached = [u \in UID |-> NoPV]
    /\ store = [s \in StoreId |-> [size |-> 0, target |-> 0, status |-> "gone"]]
    /\ queue = FALSE /\ work = Idle /\ sweep = {} /\ faults = 0

Reconcile == \/ ReconcileNothing \/ ReconcileProvisions \/ ReconcileExpands
             \/ ReconcileSettles

Provisioning == \/ provision \/ ProvisionAnswerLost \/ PublishVolume \/ PublishFails
                \/ UndoProvision \/ UndoFails

expandIfAsked == \/ RecordInProgress \/ Expand \/ ExpandRefused \/ awaitBlockSize
                 \/ RecordInfeasible \/ recordVolumeSize \/ RecordNodeInProgress
                 \/ growFilesystems \/ recordClaimSize

Environment ==
    \/ \E u \in UID : AddClaim(u) \/ BindClaim(u) \/ Release(u) \/ CachePV(u)
    \/ \E want \in Requests : Resize(want)
    \/ SchedulerSelects \/ RemoveClaim \/ CacheClaim \/ ResyncClaim
    \/ Crash
    \/ \E s \in StoreId : StoreExtends(s) \/ StoreReset(s)

Next == \/ Reconcile \/ CallFails \/ Provisioning \/ expandIfAsked
        \/ SweepReleased \/ (\E u \in UID, s \in StoreId : SweepVolume(u, s) \/ SweepFails(u, s))
        \/ Environment

Spec == Init /\ [][Next]_vars

-----------------------------------------------------------------------------
(* Fairness: the worker, the sweep's ticker, the informers and the cluster's *)
(* volume controller run; what is retried for ever succeeds at last; and     *)
(* Cinder ends what it has accepted to extend.                               *)
Fairness ==
    /\ WF_vars(Reconcile \/ Provisioning \/ expandIfAsked)
    /\ SF_vars(provision) /\ SF_vars(PublishVolume) /\ SF_vars(Expand)
    /\ WF_vars(SweepReleased)
    /\ \A u \in UID : /\ SF_vars(\E s \in StoreId : SweepVolume(u, s))
                       /\ WF_vars(BindClaim(u)) /\ WF_vars(Release(u))
                       /\ WF_vars(CachePV(u))
    /\ WF_vars(CacheClaim) /\ WF_vars(ResyncClaim)
    /\ \A s \in StoreId : WF_vars(StoreExtends(s))

FairSpec == Spec /\ Fairness

-----------------------------------------------------------------------------
(* Properties.                                                               *)

(* Every variable of the model has its type.                                 *)
TypeOK ==
    /\ claim \in Claim /\ cached \in Claim
    /\ used \subseteq UID
    /\ pv \in [UID -> PV] /\ pvCached \in [UID -> PV]
    /\ store \in [StoreId -> Store]
    /\ queue \in BOOLEAN
    /\ work \in Work
    /\ sweep \subseteq UID \X StoreId
    /\ faults \in 0..MaxFaults

(* Storage that exists backs a volume or is in the hands of the attempt that *)
(* made it; a crash, a lost answer or a failed removal leaks at most one     *)
(* each ("losing the race must pay its own bill on the way out").            *)
LeaksCounted ==
    LET Leaked(s) == /\ store[s].status # "gone"
                     /\ \A u \in UID : pv[u].store # s
                     /\ ~ (work.op \in {"publish", "undo", "undoRetry"} /\ work.store = s)
    IN  Cardinality({s \in StoreId : Leaked(s)}) <= faults

(* Neither a lost race nor the sweep removes the storage of a claim that     *)
(* still exists.                                                             *)
BoundStorageKept ==
    [][\A s \in StoreId : store[s].status # "gone" /\ store'[s].status = "gone" =>
         claim.uid = NoUID \/ pv[claim.uid].store # s]_vars

(* An extension is announced before it starts: the claim it is for, if it    *)
(* still exists, is by then charged for the size being made ("said before    *)
(* the work, not after").                                                    *)
ExtensionIsCharged ==
    [][\A s \in StoreId :
         /\ store[s].status # "extending" /\ store'[s].status = "extending"
         /\ claim.uid # NoUID /\ pv[claim.uid].store = s
         => store'[s].target <= Gib(Larger(claim.want, claim.alloc))]_vars

(* The capacity a claim reports is there: its volume has at least that size. *)
CapacityIsReal ==
    claim.bound => claim.have <= 2 * store[pv[claim.uid].store].size

(* A claim gets its storage, whatever fails or restarts on the way.          *)
ClaimBinds ==
    \A u \in UID :
        claim.uid = u /\ (WaitFor => claim.node) ~> claim.uid # u \/ claim.bound

(* A request that grows is granted, or changed again.                        *)
GrowthCompletes ==
    \A u \in UID : \A want \in Requests :
        claim.uid = u /\ claim.bound /\ claim.want = want
          ~> claim.uid # u \/ claim.want # want \/ claim.have >= want

(* What no claim needs is removed, and the volume that named it.             *)
ReleasedIsRemoved ==
    \A u \in UID \ Retain :
        pv[u].phase # "" /\ claim.uid # u ~> pv[u].phase = "" \/ claim.uid = u

(* "A claim whose request was raised, failed, and then lowered again is left *)
(* with an allocation naming the size that was never reached": it does not   *)
(* stay above what the claim asks for, when the storage is no larger.        *)
AllocationSettles ==
    LET Excess(u) == /\ claim.uid = u /\ claim.bound
                     /\ claim.want = claim.have /\ claim.alloc > claim.want
                     /\ 2 * store[pv[u].store].target <= claim.want
    IN  \A u \in UID : Excess(u) ~> ~ Excess(u)

=============================================================================
