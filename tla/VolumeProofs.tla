---------------------------- MODULE VolumeProofs ----------------------------
(***************************************************************************)
(* Proofs about Volume: its types, and that the sizes a claim reports, the *)
(* storage it is given and what it is charged for are its own, for any     *)
(* number of claims, any sizes and any number of faults.                   *)
(***************************************************************************)
EXTENDS Volume, FiniteSetTheorems, TLAPS

-----------------------------------------------------------------------------
(* Sizes.                                                                    *)

(* The sizes of storage, in GiB, that some request is rounded up to or less. *)
Half == {n \in Nat : 2 * n \in Sizes}

(* A size rounded up to GiB is no smaller, stays within the model's sizes,   *)
(* and rounding respects the order.                                          *)
LEMMA SizesRound ==
    /\ 0 \in Sizes /\ Requests \subseteq Sizes /\ Sizes \subseteq Nat
    /\ 0 \in Half /\ Half \subseteq Sizes
    /\ \A n \in Sizes : Gib(n) \in Half /\ n <= 2 * Gib(n)
    /\ \A m, n \in Sizes : m <= n => Gib(m) <= Gib(n)
<1> DEFINE Bounds == {2 * Gib(r) : r \in Requests}
           IsTop(n) == \A r \in Requests : 2 * Gib(r) <= n
           Top == CHOOSE n \in Bounds : IsTop(n)
<1>1. PICK most \in Requests : \A r \in Requests : r <= most
  BY VolumeAssumption
<1>2. \A a, b \in Nat : a <= b => (a + 1) \div 2 <= (b + 1) \div 2 /\ (a + 1) \div 2 \in Nat
                                    /\ (b + 1) \div 2 \in Nat
  BY SMT
<1>3. 2 * Gib(most) \in Bounds /\ IsTop(2 * Gib(most))
  <2>1. most \in Nat /\ Requests \subseteq Nat
    BY VolumeAssumption
  <2>2. \A r \in Requests : Gib(r) <= Gib(most) /\ Gib(r) \in Nat /\ Gib(most) \in Nat
    BY <1>1, <1>2, <2>1 DEF Gib
  <2> HIDE DEF Gib
  <2> QED BY <2>1, <2>2
<1>4. Top \in Bounds /\ IsTop(Top)
  <2> HIDE DEF Bounds, IsTop
  <2> QED BY <1>3, Zenon
<1>5. PICK r0 \in Requests : Top = 2 * Gib(r0)
  BY <1>4
<1>6. Gib(r0) \in Nat /\ Top \in Nat
  <2> HIDE DEF Bounds, IsTop, Top
  <2>1. r0 \in Nat
    BY VolumeAssumption
  <2>2. Gib(r0) \in Nat
    BY <2>1 DEF Gib
  <2> QED BY <1>5, <2>2
<1>7. Sizes = 0..Top
  BY DEF Sizes
<1> HIDE DEF Bounds, IsTop, Top
<1>8. \A n \in 0..Top : Gib(n) \in Nat /\ 2 * Gib(n) \in 0..Top /\ n <= 2 * Gib(n)
  BY <1>5, <1>6 DEF Gib
<1>9. \A r \in Requests : r \in 0..Top
  <2>1. \A r \in Requests : 2 * Gib(r) <= Top
    BY <1>4 DEF IsTop
  <2>2. \A r \in Nat : r <= 2 * Gib(r) /\ 2 * Gib(r) \in Nat
    BY DEF Gib
  <2> QED BY <2>1, <2>2, <1>6, VolumeAssumption
<1> QED
  BY <1>2, <1>6, <1>7, <1>8, <1>9 DEF Half, Gib

-----------------------------------------------------------------------------
(* The inductive invariant.                                                  *)

(* Where the reconcile holds storage that no volume names yet, and where it  *)
(* works on the storage of a volume.                                         *)
Making == {"publish", "undo", "undoRetry"}

Expanding == {"allocate", "extend", "await", "infeasible", "volume", "node",
              "grow", "claim"}

(* A volume that exists names storage, one that does not names none.         *)
WellMade(p) == p.size \in Half /\ (p.phase = "" <=> p.store = 0)

(* What the types leave out: sizes of storage are within reach of a request, *)
(* and an operation has the claim and the storage that it is about.          *)
Shapes ==
    /\ \A u \in UID : WellMade(pv[u]) /\ WellMade(pvCached[u])
    /\ WellMade(work.pv) /\ work.got \in Half
    /\ \A s \in StoreId : store[s].size \in Half /\ store[s].target \in Half
    /\ claim.bound => claim.uid \in UID
    /\ work.op # "idle" => work.claim.uid \in UID
    /\ work.op \in Making \cup Expanding => work.store \in StoreId
    /\ work.op \in Expanding => work.store = work.pv.store

(* Storage s is named as the storage of incarnation u: by its volume, by a   *)
(* copy of it in a cache, by a sweep or by an expansion.                     *)
Names(u, s) ==
    \/ pv[u].store = s
    \/ pvCached[u].store = s
    \/ <<u, s>> \in sweep
    \/ work.op \in Expanding /\ work.claim.uid = u /\ work.store = s

(* No storage is named for two incarnations, and what an attempt has just    *)
(* made is named for none.                                                   *)
OneName ==
    /\ \A s \in StoreId : \A u, v \in UID : Names(u, s) /\ Names(v, s) => u = v
    /\ work.op \in Making => \A u \in UID : ~ Names(u, work.store)

(* Only incarnations that have existed are spoken of.                        *)
OnlyUsed ==
    /\ {claim.uid, cached.uid} \subseteq used \cup {NoUID}
    /\ work.op # "idle" => work.claim.uid \in used
    /\ \A u \in UID \ used : \A s \in StoreId : ~ Names(u, s)

(* While a claim exists its storage is not released, in no copy, and every   *)
(* name of its storage is the current one; and nothing is made for it before *)
(* the cache has it, nor while the worker is busy with its predecessor.      *)
LiveStays ==
    \A u \in UID : claim.uid = u =>
        /\ pv[u].phase # "Released" /\ pvCached[u].phase # "Released"
        /\ \A s \in StoreId : <<u, s>> \notin sweep /\ (Names(u, s) => pv[u].store = s)
        /\ cached.uid # u => /\ pv[u].store = 0
                             /\ work.op # "idle" => work.claim.uid # u
        /\ work.op # "idle" /\ work.claim.uid # u => pv[u].store = 0

(* Storage is as large as any record of it says.                             *)
Sized ==
    /\ \A s \in StoreId : store[s].size <= store[s].target
    /\ \A u \in UID : pv[u].store # 0 => pv[u].size <= store[pv[u].store].size
    /\ work.op \in {"volume", "node", "grow", "claim"} =>
         work.got <= store[work.store].size
    /\ claim.bound => /\ pv[claim.uid].store # 0
                      /\ claim.have <= 2 * store[pv[claim.uid].store].size

(* From the first record on, the claim an expansion is for is charged.       *)
Charged ==
    work.op = "extend" /\ claim.uid = work.claim.uid => work.claim.want <= claim.alloc

-----------------------------------------------------------------------------
(* Types.                                                                    *)

TypeInv == TypeOK /\ Shapes

LEMMA Bounds == MaxStore \in Nat /\ MaxFaults \in Nat
  BY VolumeAssumption

LEMMA Slots == 0 \in 0..MaxStore /\ StoreId = (0..MaxStore) \ {0}
  BY Bounds DEF StoreId

(* The empty records.                                                        *)
LEMMA Blanks ==
    /\ NoClaim \in Claim /\ NoClaim.uid = NoUID /\ NoClaim.bound = FALSE
    /\ NoPV \in PV /\ WellMade(NoPV) /\ NoPV.store = 0 /\ NoPV.phase = ""
    /\ Idle \in Work /\ Idle.op = "idle" /\ Idle.pv = NoPV /\ Idle.got = 0
<1>1. NoClaim \in Claim /\ NoClaim.uid = NoUID /\ NoClaim.bound = FALSE
  BY SizesRound DEF NoClaim, Claim
<1>2. NoPV \in PV /\ WellMade(NoPV) /\ NoPV.store = 0 /\ NoPV.phase = ""
  BY SizesRound, Bounds DEF NoPV, PV, WellMade
<1>3. Idle \in Work /\ Idle.op = "idle" /\ Idle.pv = NoPV /\ Idle.got = 0
  <2>1. NoClaim \in Claim /\ NoPV \in PV /\ 0 \in Sizes /\ 0 \in 0..MaxStore
    BY <1>1, <1>2, SizesRound, Slots, Zenon
  <2> QED BY <2>1 DEF Idle, Work, Ops
<1> QED BY <1>1, <1>2, <1>3

LEMMA InitTypes == Init => TypeInv
<1> SUFFICES ASSUME Init PROVE TypeInv
  OBVIOUS
<1>1. [size |-> 0, target |-> 0, status |-> "gone"] \in Store
  BY SizesRound DEF Store
<1>2. TypeOK
  <2>1. faults \in 0..MaxFaults
    BY Bounds DEF Init
  <2>2. NoClaim \in Claim /\ NoPV \in PV /\ Idle \in Work
    BY Blanks
  <2>3. claim \in Claim /\ cached \in Claim /\ work \in Work
    BY <2>2 DEF Init
  <2>4. pv \in [UID -> PV] /\ pvCached \in [UID -> PV] /\ store \in [StoreId -> Store]
    BY <1>1, <2>2 DEF Init
  <2> QED BY <2>1, <2>3, <2>4 DEF Init, TypeOK
<1>3. Shapes
  BY <1>2, Blanks, SizesRound, Bounds DEF Init, Shapes, Making, Expanding
<1> QED BY <1>2, <1>3 DEF TypeInv

(* The reconcile begins with what the caches hold.                           *)
LEMMA RestartTypes == TypeInv /\ Restart /\ faults' \in 0..MaxFaults => TypeInv'
<1> SUFFICES ASSUME TypeInv, Restart, faults' \in 0..MaxFaults PROVE TypeInv'
  OBVIOUS
<1>1. TypeOK'
  BY Blanks DEF Restart, TypeInv, TypeOK, objects
<1>2. Shapes'
  BY Blanks, SizesRound DEF Restart, TypeInv, TypeOK, Shapes, objects, Making, Expanding
<1> QED BY <1>1, <1>2 DEF TypeInv

LEMMA BeginTypes ==
    ASSUME TypeInv, NEW op \in {"create", "allocate"}, Begin(op), cached.uid \in UID,
           op = "allocate" => pvCached[cached.uid].phase # ""
    PROVE  TypeInv'
<1> DEFINE u == cached.uid
<1>1. u \in UID /\ cached \in Claim /\ pvCached[u] \in PV /\ WellMade(pvCached[u])
  BY DEF TypeInv, TypeOK, Shapes
<1>2. pvCached[u].store \in 0..MaxStore /\ (op = "allocate" => pvCached[u].store \in StoreId)
  <2>1. pvCached[u].store \in 0..MaxStore
    BY <1>1 DEF PV
  <2>2. op = "allocate" => pvCached[u].store # 0
    BY <1>1 DEF WellMade
  <2> QED BY <2>1, <2>2, Slots, Zenon
<1>3. /\ work'.op = op /\ work'.claim = cached /\ work'.pv = pvCached[u]
      /\ work'.store = pvCached[u].store /\ work'.got = 0
      /\ work' \in Work
  BY <1>1, <1>2, Blanks DEF Begin, Idle, Work, Ops
<1>4. TypeOK'
  BY <1>3 DEF Begin, TypeInv, TypeOK, objects, caches
<1>5. Shapes'
  BY <1>1, <1>2, <1>3, SizesRound DEF Begin, TypeInv, Shapes, objects, caches, Making, Expanding
<1> QED BY <1>4, <1>5 DEF TypeInv

LEMMA ReconcileTypes ==
    ASSUME TypeInv, Reconcile PROVE TypeInv'
<1>1. CASE ReconcileNothing
  BY <1>1 DEF ReconcileNothing, TypeInv, TypeOK, Shapes, objects, caches
<1>2. CASE ReconcileProvisions
  BY <1>2, BeginTypes DEF ReconcileProvisions, Provisions, TypeInv, TypeOK, Claim
<1>3. CASE ReconcileExpands
  BY <1>3, BeginTypes DEF ReconcileExpands, Expands, Grows, Bound, TypeInv, TypeOK, Claim
<1>4. CASE ReconcileSettles
  <2>1. CASE Restart
    BY <1>4, <2>1, RestartTypes DEF ReconcileSettles, TypeInv, TypeOK
  <2>2. CASE ~ Restart
    <3>1. claim' \in Claim /\ claim'.uid = claim.uid /\ claim'.bound = claim.bound
      BY <1>4, <2>2 DEF ReconcileSettles, TypeInv, TypeOK, Claim
    <3>2. queue' \in BOOLEAN /\ UNCHANGED <<used, pv, caches, store, work, sweep, faults>>
      BY <1>4, <2>2 DEF ReconcileSettles, TypeInv, TypeOK
    <3> QED BY <3>1, <3>2 DEF TypeInv, TypeOK, Shapes, caches
  <2> QED BY <2>1, <2>2
<1> QED BY <1>1, <1>2, <1>3, <1>4 DEF Reconcile

(* An attempt moves on, or ends.                                             *)
LEMMA GotoTypes ==
    ASSUME TypeInv, NEW op \in Ops, work.op # "idle", Goto(op),
           op \in Making \cup Expanding => work.op \in Making \cup Expanding,
           op \in Expanding => work.op \in Expanding
    PROVE  /\ work' \in Work /\ WellMade(work'.pv) /\ work'.got \in Half
           /\ work'.claim.uid \in UID
           /\ work'.op \in Making \cup Expanding => work'.store \in StoreId
           /\ work'.op \in Expanding => work'.store = work'.pv.store
<1>1. work \in Work
  BY DEF TypeInv, TypeOK
<1>2. /\ work' \in Work /\ work'.op = op /\ work'.pv = work.pv /\ work'.got = work.got
      /\ work'.claim = work.claim /\ work'.store = work.store
  BY <1>1 DEF Goto, Work
<1> QED BY <1>2 DEF TypeInv, Shapes

LEMMA DoneTypes ==
    ASSUME Done
    PROVE  /\ work' \in Work /\ WellMade(work'.pv) /\ work'.got \in Half
           /\ work'.op = "idle"
  BY Blanks, SizesRound DEF Done

(* What an attempt's step does to the rest, when the storage stays.          *)
LEMMA CallFailsTypes == ASSUME TypeInv, CallFails PROVE TypeInv'
  BY DoneTypes DEF CallFails, Retry, TypeInv, TypeOK, Shapes, objects, caches, Making, Expanding

LEMMA NewStoreTypes ==
    ASSUME TypeInv, NEW s \in StoreId, NEW gib \in Half, NewStore(s, gib)
    PROVE  /\ store' \in [StoreId -> Store]
           /\ \A t \in StoreId : store'[t].size \in Half /\ store'[t].target \in Half
  BY SizesRound DEF NewStore, TypeInv, TypeOK, Shapes, Store

LEMMA RemoveTypes ==
    ASSUME TypeInv, NEW s, Remove(s)
    PROVE  /\ store' \in [StoreId -> Store]
           /\ \A t \in StoreId : store'[t].size = store[t].size /\ store'[t].target = store[t].target
  BY DEF Remove, TypeInv, TypeOK, Store

LEMMA ProvisioningTypes == ASSUME TypeInv, Provisioning PROVE TypeInv'
<1> USE DEF TypeInv, TypeOK, Shapes, objects, caches, Making, Expanding
<1>1. Gib(work.claim.want) \in Half
  BY SizesRound DEF Work, Claim
<1>2. CASE provision
  <2>1. PICK s \in StoreId : /\ NewStore(s, Gib(work.claim.want))
                             /\ work' = [work EXCEPT !.op = "publish", !.store = s]
    BY <1>2 DEF provision
  <2>2. s \in 0..MaxStore
    BY Slots, Zenon
  <2>3. /\ work' \in Work /\ work'.op = "publish" /\ work'.store = s /\ work'.claim = work.claim
        /\ work'.pv = work.pv /\ work'.got = work.got
    BY <2>1, <2>2 DEF Work, Ops
  <2>4. work.op = "create"
    BY <1>2 DEF provision
  <2> QED BY <1>1, <1>2, <2>1, <2>3, <2>4, NewStoreTypes DEF provision
<1>3. CASE ProvisionAnswerLost
  <2>1. PICK s \in StoreId : NewStore(s, Gib(work.claim.want))
    BY <1>3 DEF ProvisionAnswerLost
  <2>2. faults' \in 0..MaxFaults
    BY <1>3, Bounds DEF ProvisionAnswerLost, Fault
  <2> QED BY <1>1, <1>3, <2>1, <2>2, NewStoreTypes, DoneTypes DEF ProvisionAnswerLost, Retry
<1>4. CASE PublishVolume
  <2> DEFINE u == work.claim.uid
             new == [store |-> work.store, phase |-> "Available", size |-> store[work.store].size]
  <2>1. CASE Exists(u)
    BY <1>4, <2>1, GotoTypes DEF PublishVolume, Ops
  <2>2. CASE ~ Exists(u)
    <3>1. work.store \in StoreId /\ u \in UID /\ store[work.store].size \in Half
      BY <1>4 DEF PublishVolume
    <3>2. new \in PV /\ WellMade(new)
      BY <3>1, Slots, SizesRound DEF PV, WellMade
    <3>3. pv' = [pv EXCEPT ![u] = new] /\ Done
      BY <1>4, <2>2 DEF PublishVolume
    <3>4. pv' \in [UID -> PV] /\ \A v \in UID : WellMade(pv'[v])
      <4> HIDE DEF new
      <4> QED BY <3>1, <3>2, <3>3
    <3> QED BY <1>4, <3>3, <3>4, DoneTypes DEF PublishVolume
  <2> QED BY <2>1, <2>2
<1>5. CASE PublishFails
  BY <1>5, GotoTypes DEF PublishFails, Ops
<1>6. CASE UndoProvision
  <2>1. queue' \in BOOLEAN
    BY <1>6 DEF UndoProvision, EndUndo
  <2> QED BY <1>6, <2>1, RemoveTypes, DoneTypes DEF UndoProvision, EndUndo
<1>7. CASE UndoFails
  <2>1. queue' \in BOOLEAN
    BY <1>7 DEF UndoFails, EndUndo
  <2>2. faults' \in 0..MaxFaults
    BY <1>7, Bounds DEF UndoFails, Fault
  <2> QED BY <1>7, <2>1, <2>2, DoneTypes DEF UndoFails, EndUndo
<1> QED BY <1>2, <1>3, <1>4, <1>5, <1>6, <1>7 DEF Provisioning

(* A record on the claim keeps its identity and its capacity, and charges    *)
(* for at least the size it names.                                           *)
LEMMA RecordsAllocation ==
    ASSUME TypeInv, NEW size \in Sizes, NEW state \in {"inProgress", "infeasible", "nodeInProgress"},
           recordAllocation(size, state)
    PROVE  /\ claim' \in Claim
           /\ claim'.uid = claim.uid /\ claim'.bound = claim.bound /\ claim'.have = claim.have
           /\ size <= claim'.alloc /\ claim.alloc <= claim'.alloc
<1>1. claim \in Claim /\ claim.alloc \in Nat /\ size \in Nat
  BY SizesRound DEF TypeInv, TypeOK, Claim
<1>2. CASE claim' = claim /\ size <= claim.alloc
  BY <1>1, <1>2
<1>3. CASE claim' = [claim EXCEPT !.alloc = Larger(claim.alloc, size), !.state = state]
  <2>1. Larger(claim.alloc, size) \in Sizes
    BY <1>1 DEF Larger, Claim
  <2>2. size <= Larger(claim.alloc, size) /\ claim.alloc <= Larger(claim.alloc, size)
    BY <1>1 DEF Larger
  <2> QED BY <1>1, <1>3, <2>1, <2>2 DEF Claim
<1> QED BY <1>1, <1>2, <1>3 DEF recordAllocation

LEMMA RecordStepTypes ==
    ASSUME TypeInv, NEW op, NEW state \in {"inProgress", "nodeInProgress"}, NEW next \in Ops,
           op \in Expanding, next \in Expanding, RecordStep(op, state, next)
    PROVE  TypeInv'
<1> USE DEF TypeInv, TypeOK, Shapes, objects, caches, Making, Expanding
<1>1. CASE claim.uid = NoUID
  BY <1>1, DoneTypes DEF RecordStep, Retry
<1>2. CASE claim.uid # NoUID
  <2>1. work.claim.want \in Sizes
    BY DEF Work, Claim
  <2>2. claim' \in Claim /\ claim'.uid = claim.uid /\ claim'.bound = claim.bound
    BY <1>2, <2>1, RecordsAllocation DEF RecordStep
  <2> QED BY <1>2, <2>2, GotoTypes DEF RecordStep
<1> QED BY <1>1, <1>2

(* The size found behind the volume is the size to record.                   *)
LEMMA ReachedTypes ==
    ASSUME TypeInv, work.op \in {"extend", "await"}, Reached
    PROVE  /\ work' \in Work /\ work'.op = "volume" /\ work'.got = store[work.store].size
           /\ work'.claim = work.claim /\ work'.pv = work.pv /\ work'.store = work.store
           /\ work.store \in StoreId /\ work'.got \in Half
<1>1. work.store \in StoreId /\ store[work.store].size \in Half /\ work \in Work
  BY DEF TypeInv, TypeOK, Shapes, Making, Expanding
<1>2. store[work.store].size \in Sizes
  BY <1>1, SizesRound
<1> QED BY <1>1, <1>2 DEF Reached, Behind, Work, Ops

LEMMA ExpandTypes == ASSUME TypeInv, expandIfAsked PROVE TypeInv'
<1> USE DEF TypeInv, TypeOK, Shapes, objects, caches, Making, Expanding
<1>a. work.claim.want \in Sizes /\ Gib(work.claim.want) \in Half
  BY SizesRound DEF Work, Claim
<1>1. CASE RecordInProgress
  BY <1>1, RecordStepTypes DEF RecordInProgress, Ops
<1>2. CASE RecordNodeInProgress
  BY <1>2, RecordStepTypes DEF RecordNodeInProgress, Ops
<1>3. CASE Expand
  <2>1. CASE Reached /\ UNCHANGED store
    BY <1>3, <2>1, ReachedTypes DEF Expand
  <2>2. CASE Goto("await") /\ store' = [store EXCEPT ![work.store].status = "extending",
                                                   ![work.store].target = Gib(work.claim.want)]
    <3>1. /\ store' \in [StoreId -> Store]
          /\ \A s \in StoreId : store'[s].size \in Half /\ store'[s].target \in Half
      BY <1>a, <2>2, SizesRound DEF Store
    <3> QED BY <1>3, <2>2, <3>1, GotoTypes DEF Expand, Ops
  <2> QED BY <1>3, <2>1, <2>2 DEF Expand
<1>4. CASE ExpandRefused
  BY <1>4, GotoTypes DEF ExpandRefused, Ops
<1>5. CASE awaitBlockSize
  <2>1. CASE Reached
    BY <1>5, <2>1, ReachedTypes DEF awaitBlockSize
  <2>2. CASE Goto("infeasible")
    BY <1>5, <2>2, GotoTypes DEF awaitBlockSize, Ops
  <2> QED BY <1>5, <2>1, <2>2 DEF awaitBlockSize
<1>6. CASE RecordInfeasible
  <2>1. claim' \in Claim /\ claim'.uid = claim.uid /\ claim'.bound = claim.bound
    BY <1>6, <1>a, RecordsAllocation DEF RecordInfeasible
  <2> QED BY <1>6, <2>1, DoneTypes DEF RecordInfeasible, Retry
<1>7. CASE recordVolumeSize
  <2>1. work.claim.uid \in UID /\ work.got \in Half /\ work.got \in Sizes
    BY <1>7, SizesRound DEF recordVolumeSize
  <2>2. pv' \in [UID -> PV] /\ \A u \in UID : WellMade(pv'[u])
    <3>1. \/ UNCHANGED pv
          \/ pv' = [pv EXCEPT ![work.claim.uid].size = work.got]
      BY <1>7 DEF recordVolumeSize
    <3>2. CASE pv' = [pv EXCEPT ![work.claim.uid].size = work.got]
      <4> DEFINE new == [pv[work.claim.uid] EXCEPT !.size = work.got]
      <4>1. pv[work.claim.uid] \in PV /\ WellMade(pv[work.claim.uid])
        BY <2>1
      <4>2. new \in PV /\ WellMade(new)
        BY <2>1, <4>1 DEF PV, WellMade
      <4>3. pv' = [pv EXCEPT ![work.claim.uid] = new]
        BY <3>2
      <4> HIDE DEF new
      <4> QED BY <2>1, <4>2, <4>3
    <3> QED BY <3>1, <3>2
  <2>3. CASE Goto(IF Block THEN "node" ELSE "claim") /\ UNCHANGED queue
    <3>1. (IF Block THEN "node" ELSE "claim") \in {"node", "claim"}
      OBVIOUS
    <3> QED BY <1>7, <2>2, <2>3, <3>1, GotoTypes DEF recordVolumeSize, Ops
  <2>4. CASE Retry
    BY <1>7, <2>2, <2>4, DoneTypes DEF recordVolumeSize, Retry
  <2> QED BY <1>7, <2>3, <2>4 DEF recordVolumeSize
<1>8. CASE growFilesystems
  BY <1>8, GotoTypes DEF growFilesystems, Ops
<1>9. CASE recordClaimSize
  <2>1. 2 * work.got \in Sizes
    BY DEF Half
  <2>2. claim' \in Claim /\ claim'.uid = claim.uid /\ claim'.bound = claim.bound
    BY <1>9, <2>1 DEF recordClaimSize, Claim
  <2>3. Done /\ queue' \in BOOLEAN
    BY <1>9 DEF recordClaimSize, Retry
  <2> QED BY <1>9, <2>2, <2>3, DoneTypes DEF recordClaimSize
<1> QED BY <1>1, <1>2, <1>3, <1>4, <1>5, <1>6, <1>7, <1>8, <1>9 DEF expandIfAsked

Sweeping == SweepReleased \/ \E u \in UID, s \in StoreId : SweepVolume(u, s) \/ SweepFails(u, s)

LEMMA SweepTypes == ASSUME TypeInv, Sweeping PROVE TypeInv'
<1> USE DEF TypeInv, TypeOK, Shapes, objects, caches, Making, Expanding
<1>1. CASE SweepReleased
  <2>1. \A u \in UID : pvCached[u].phase = "Released" => pvCached[u].store \in StoreId
    BY Slots DEF PV, WellMade
  <2>2. sweep' \subseteq UID \X StoreId
    BY <1>1, <2>1 DEF SweepReleased
  <2> QED BY <1>1, <2>2 DEF SweepReleased
<1>2. CASE \E u \in UID, s \in StoreId : SweepVolume(u, s) \/ SweepFails(u, s)
  <2>1. PICK u \in UID, s \in StoreId : SweepVolume(u, s) \/ SweepFails(u, s)
    BY <1>2
  <2>2. CASE SweepVolume(u, s)
    <3>1. pv' \in [UID -> PV] /\ \A v \in UID : WellMade(pv'[v])
      BY <2>2, Blanks DEF SweepVolume
    <3>2. faults' \in 0..MaxFaults
      BY <2>2, Bounds DEF SweepVolume, Fault
    <3> QED BY <2>2, <3>1, <3>2, RemoveTypes DEF SweepVolume
  <2>3. CASE SweepFails(u, s)
    BY <2>3 DEF SweepFails
  <2> QED BY <2>1, <2>2, <2>3
<1> QED BY <1>1, <1>2 DEF Sweeping

LEMMA EnvironmentTypes == ASSUME TypeInv, Environment PROVE TypeInv'
<1> USE DEF TypeInv, TypeOK, Shapes, objects, caches, Making, Expanding
<1>1. ASSUME NEW u \in UID, AddClaim(u) PROVE TypeInv'
  <2>1. PICK want \in Requests : claim' = [NoClaim EXCEPT !.uid = u, !.want = want]
    BY <1>1 DEF AddClaim
  <2>2. claim' \in Claim /\ claim'.uid = u
    BY <2>1, Blanks, SizesRound DEF Claim
  <2> QED BY <1>1, <2>2 DEF AddClaim
<1>2. ASSUME NEW u \in UID, BindClaim(u) PROVE TypeInv'
  <2>1. pv[u] \in PV /\ WellMade(pv[u]) /\ pv[u].phase = "Available" /\ 2 * pv[u].size \in Sizes
    BY <1>2 DEF BindClaim, WellMade, Half
  <2>2. claim' \in Claim /\ claim'.uid = u
    BY <1>2, <2>1 DEF BindClaim, Claim
  <2> DEFINE new == [pv[u] EXCEPT !.phase = "Bound"]
  <2>3. new \in PV /\ WellMade(new)
    BY <2>1 DEF PV, WellMade
  <2>4. pv' = [pv EXCEPT ![u] = new]
    BY <1>2 DEF BindClaim
  <2>5. pv' \in [UID -> PV] /\ \A v \in UID : WellMade(pv'[v])
    <3> HIDE DEF new
    <3> QED BY <2>3, <2>4
  <2> QED BY <1>2, <2>2, <2>5 DEF BindClaim
<1>3. ASSUME NEW u \in UID, Release(u) PROVE TypeInv'
  <2> DEFINE new == [pv[u] EXCEPT !.phase = "Released"]
  <2>1. pv[u] \in PV /\ WellMade(pv[u]) /\ pv[u].phase # ""
    BY <1>3 DEF Release
  <2>2. new \in PV /\ WellMade(new)
    BY <2>1 DEF PV, WellMade
  <2>3. pv' = [pv EXCEPT ![u] = new]
    BY <1>3 DEF Release
  <2>4. pv' \in [UID -> PV] /\ \A v \in UID : WellMade(pv'[v])
    <3> HIDE DEF new
    <3> QED BY <2>2, <2>3
  <2> QED BY <1>3, <2>4 DEF Release
<1>4. ASSUME NEW u \in UID, CachePV(u) PROVE TypeInv'
  BY <1>4 DEF CachePV
<1>5. ASSUME NEW want \in Requests, Resize(want) PROVE TypeInv'
  <2>1. claim' \in Claim /\ claim'.uid = claim.uid
    BY <1>5, SizesRound DEF Resize, Claim
  <2>2. claim.bound
    BY <1>5 DEF Resize
  <2> QED BY <1>5, <2>1, <2>2 DEF Resize
<1>6. CASE SchedulerSelects
  <2>1. claim' \in Claim /\ claim'.uid = claim.uid /\ claim.uid # NoUID
    BY <1>6 DEF SchedulerSelects, Claim
  <2>2. claim.uid \in UID
    BY <2>1 DEF Claim
  <2> QED BY <1>6, <2>1, <2>2 DEF SchedulerSelects
<1>7. CASE RemoveClaim
  BY <1>7, Blanks DEF RemoveClaim
<1>8. CASE CacheClaim
  BY <1>8 DEF CacheClaim
<1>9. CASE ResyncClaim
  BY <1>9 DEF ResyncClaim
<1>10. CASE Crash
  <2>1. faults' \in 0..MaxFaults
    BY <1>10, Bounds DEF Crash, Fault
  <2> QED BY <1>10, <2>1, RestartTypes DEF Crash
<1>11. ASSUME NEW s \in StoreId, StoreExtends(s) \/ StoreReset(s) PROVE TypeInv'
  <2>1. /\ store' \in [StoreId -> Store]
        /\ \A t \in StoreId : store'[t].size \in Half /\ store'[t].target \in Half
    BY <1>11 DEF StoreExtends, StoreReset, Store
  <2> QED BY <1>11, <2>1 DEF StoreExtends, StoreReset
<1> QED BY <1>1, <1>2, <1>3, <1>4, <1>5, <1>6, <1>7, <1>8, <1>9, <1>10, <1>11 DEF Environment

LEMMA NextTypes == TypeInv /\ [Next]_vars => TypeInv'
<1> SUFFICES ASSUME TypeInv, [Next]_vars PROVE TypeInv'
  OBVIOUS
<1>1. CASE UNCHANGED vars
  BY <1>1 DEF vars, objects, caches, TypeInv, TypeOK, Shapes
<1> QED
  BY <1>1, ReconcileTypes, CallFailsTypes, ProvisioningTypes, ExpandTypes, SweepTypes,
     EnvironmentTypes DEF Next, Sweeping

(* Every variable keeps its type: the claims, volumes, storage, sizes and    *)
(* the operation under way of pkg/volume's reconciler are well formed in     *)
(* every state, whatever fails or restarts.                                  *)
THEOREM TypeCorrect == Spec => []TypeOK
<1>1. Spec => []TypeInv
  BY InitTypes, NextTypes, PTL DEF Spec
<1>2. TypeInv => TypeOK
  BY DEF TypeInv
<1> QED BY <1>1, <1>2, PTL

-----------------------------------------------------------------------------
(* Names.                                                                    *)

(* The step in which the worker's new volume of incarnation u takes s.       *)
Publishes(u, s) ==
    /\ work.op = "publish" /\ work'.op = "idle"
    /\ work.claim.uid = u /\ work.store = s

(* What any step may do to who names what: a claim goes, or comes under a    *)
(* new incarnation; the cache follows it; the worker goes on, or begins with *)
(* what is cached; a volume is swept, or published; and a name is a copy of  *)
(* an older one.                                                             *)
Moves ==
    /\ \/ claim'.uid \in {claim.uid, NoUID} /\ used' = used
       \/ /\ claim'.uid \in UID \ used /\ used' = used \cup {claim'.uid}
          /\ UNCHANGED <<pv, pvCached, cached, work, sweep>>
    /\ cached'.uid = cached.uid \/ (cached'.uid = claim.uid /\ claim'.uid = claim.uid)
    /\ \/ work'.op = "idle"
       \/ work.op # "idle" /\ work'.claim = work.claim
       \/ work'.claim = cached
    /\ work'.op \in Making =>
         \/ work.op \in Making /\ work'.store = work.store
         \/ \A u \in UID : ~ Names(u, work'.store)
    /\ \A u \in UID :
         /\ \/ pv'[u].store = pv[u].store
            \/ pv'[u].store = 0 /\ \E s \in StoreId : <<u, s>> \in sweep
            \/ pv[u].store = 0 /\ Publishes(u, pv'[u].store)
         /\ pv'[u].phase = "Released" => pv[u].phase = "Released" \/ claim.uid # u
         /\ pvCached'[u].phase = "Released" => "Released" \in {pv[u].phase, pvCached[u].phase}
         /\ \A s \in StoreId :
              /\ <<u, s>> \in sweep' => <<u, s>> \in sweep \/ pvCached[u].phase = "Released"
              /\ Names(u, s)' => Names(u, s) \/ (Publishes(u, s) /\ pv'[u].store = s)

NamesInv == OneName /\ OnlyUsed /\ LiveStays

LEMMA MovesKeepNames ==
    ASSUME TypeInv, NamesInv, Moves, TypeInv' PROVE NamesInv'
<1> USE DEF NamesInv
<1>1. /\ \A u \in UID : pv[u].store \in StoreId \cup {0} /\ pv'[u].store \in StoreId \cup {0}
      /\ work.op \in Making => work.store \in StoreId
      /\ work'.op \in Making => work'.store \in StoreId
      /\ work.op # "idle" => work.claim.uid \in UID
      /\ work'.op # "idle" => work'.claim.uid \in UID
      /\ claim.uid \in UID \cup {NoUID}
  BY Slots DEF TypeInv, TypeOK, Shapes, Claim, PV
<1>2. OneName'
  <2>1. ASSUME NEW s \in StoreId, NEW u \in UID, NEW v \in UID, Names(u, s)', Names(v, s)'
        PROVE  u = v
    <3>1. \A x \in UID : Names(x, s)' => Names(x, s) \/ Publishes(x, s)
      BY DEF Moves
    <3> QED BY <2>1, <3>1 DEF OneName, Publishes, Making
  <2>2. ASSUME work'.op \in Making, NEW u \in UID, NEW s \in StoreId, s = work'.store
        PROVE  ~ Names(u, s)'
    <3>1. ~ Publishes(u, s)
      BY <2>2 DEF Publishes, Making
    <3>2. ~ Names(u, s)
      BY <2>2 DEF Moves, OneName
    <3> QED BY <2>2, <3>1, <3>2 DEF Moves
  <2>3. work'.op \in Making => \A u \in UID : ~ Names(u, work.store)'
    BY <1>1, <2>2 DEF Names
  <2> QED BY <2>1, <2>3 DEF OneName
<1>3. OnlyUsed'
  <2>1. used \subseteq used'
    BY DEF Moves
  <2>2. {claim'.uid, cached'.uid} \subseteq used' \cup {NoUID}
    BY <2>1 DEF Moves, OnlyUsed
  <2>3. work'.op # "idle" => work'.claim.uid \in used'
    <3>1. ASSUME work'.op # "idle", work'.claim = cached PROVE work'.claim.uid \in used'
      <4>1. work'.claim.uid \in UID /\ cached.uid \in used \cup {NoUID}
        BY <1>1, <3>1 DEF OnlyUsed
      <4> QED BY <2>1, <3>1, <4>1, VolumeAssumption, Zenon
    <3> QED BY <2>1, <3>1 DEF Moves, OnlyUsed
  <2>4. ASSUME NEW u \in UID \ used', NEW s \in StoreId, Names(u, s)' PROVE FALSE
    <3>1. Names(u, s) \/ Publishes(u, s)
      BY <2>4 DEF Moves
    <3>2. u \notin used
      BY <2>1
    <3> QED BY <3>1, <3>2 DEF OnlyUsed, Publishes
  <2> QED BY <2>2, <2>3, <2>4 DEF OnlyUsed
<1>4. LiveStays'
  <2> SUFFICES ASSUME NEW u \in UID, claim'.uid = u
               PROVE  /\ pv'[u].phase # "Released" /\ pvCached'[u].phase # "Released"
                      /\ \A s \in StoreId : <<u, s>> \notin sweep' /\ (Names(u, s)' => pv'[u].store = s)
                      /\ cached'.uid # u => /\ pv'[u].store = 0
                                            /\ work'.op # "idle" => work'.claim.uid # u
                      /\ work'.op # "idle" /\ work'.claim.uid # u => pv'[u].store = 0
    BY DEF LiveStays
  <2>1. u # NoUID
    BY VolumeAssumption
  <2>2. CASE claim.uid = u
    <3>1. /\ pv[u].phase # "Released" /\ pvCached[u].phase # "Released"
          /\ \A s \in StoreId : <<u, s>> \notin sweep /\ (Names(u, s) => pv[u].store = s)
          /\ cached.uid # u => /\ pv[u].store = 0
                               /\ work.op # "idle" => work.claim.uid # u
          /\ work.op # "idle" /\ work.claim.uid # u => pv[u].store = 0
      BY <2>2 DEF LiveStays
    <3>2. /\ pv'[u].store = pv[u].store \/ (pv[u].store = 0 /\ Publishes(u, pv'[u].store))
          /\ pv'[u].phase # "Released" /\ pvCached'[u].phase # "Released"
          /\ \A s \in StoreId : <<u, s>> \notin sweep'
      BY <2>2, <3>1 DEF Moves
    <3>3. ASSUME NEW s \in StoreId, Names(u, s)' PROVE pv'[u].store = s
      <4>1. Names(u, s) \/ (Publishes(u, s) /\ pv'[u].store = s)
        BY <3>3 DEF Moves
      <4>2. CASE Names(u, s)
        <5>1. pv[u].store = s /\ s # 0
          BY <3>1, <4>2, Slots
        <5> QED BY <3>2, <5>1
      <4> QED BY <4>1, <4>2
    <3>4. cached'.uid # u => cached.uid # u
      BY <2>2 DEF Moves
    <3>5. ASSUME cached.uid # u PROVE pv'[u].store = 0 /\ (work'.op # "idle" => work'.claim.uid # u)
      <4>1. pv[u].store = 0 /\ (work.op # "idle" => work.claim.uid # u)
        BY <3>1, <3>5
      <4> QED BY <3>2, <3>5, <4>1 DEF Publishes, Moves
    <3>6. ASSUME work'.op # "idle", work'.claim.uid # u PROVE pv'[u].store = 0
      BY <3>1, <3>2, <3>5, <3>6 DEF Publishes, Moves
    <3> QED BY <3>2, <3>3, <3>4, <3>5, <3>6
  <2>3. CASE claim.uid # u
    <3>1. u \notin used /\ UNCHANGED <<pv, pvCached, cached, work, sweep>>
      BY <2>1, <2>3 DEF Moves
    <3>2. \A s \in StoreId : ~ Names(u, s)
      BY <3>1 DEF OnlyUsed
    <3>3. pv[u].store = 0 /\ pvCached[u].store = 0
      BY <3>2, <1>1, Slots DEF Names, TypeInv, TypeOK, PV
    <3>4. pv[u].phase = "" /\ pvCached[u].phase = ""
      BY <3>3 DEF TypeInv, Shapes, WellMade
    <3>5. work.op # "idle" => work.claim.uid # u
      BY <3>1 DEF OnlyUsed
    <3>6. \A s \in StoreId : <<u, s>> \notin sweep
      BY <3>2 DEF Names
    <3>7. \A s \in StoreId : ~ Names(u, s)'
      BY <3>1, <3>2 DEF Names
    <3> QED BY <3>1, <3>3, <3>4, <3>5, <3>6, <3>7
  <2> QED BY <2>2, <2>3
<1> QED BY <1>2, <1>3, <1>4

(* A step that leaves every name where it is, or drops the worker's.         *)
Follows ==
    \/ work' = work
    \/ work'.op = "idle"
    \/ /\ work.op # "idle" /\ work'.claim = work.claim /\ work'.store = work.store
       /\ work'.op \in Expanding => work.op \in Expanding
       /\ work'.op \in Making => work.op \in Making

LEMMA QuietMoves ==
    ASSUME claim'.uid \in {claim.uid, NoUID}, UNCHANGED <<used, pv, pvCached, sweep>>, Follows,
           cached'.uid = cached.uid \/ (cached'.uid = claim.uid /\ claim'.uid = claim.uid)
    PROVE  Moves
<1>1. \A u, s : Names(u, s)' => Names(u, s)
  BY DEF Names, Follows, Expanding
<1>2. work'.op \in Making => work.op \in Making /\ work'.store = work.store
  BY DEF Follows, Making
<1>3. work'.op = "idle" \/ (work.op # "idle" /\ work'.claim = work.claim)
  BY DEF Follows
<1> QED BY <1>1, <1>2, <1>3 DEF Moves

LEMMA GotoFollows ==
    ASSUME TypeInv, NEW op \in Ops, work.op # "idle", Goto(op),
           op \in Expanding => work.op \in Expanding, op \in Making => work.op \in Making
    PROVE  Follows
<1>1. work'.op = op /\ work'.claim = work.claim /\ work'.store = work.store
  BY DEF Goto, TypeInv, TypeOK, Work
<1> QED BY <1>1 DEF Follows

LEMMA DoneFollows == Done => Follows
  BY Blanks DEF Done, Follows

LEMMA RestartMoves == ASSUME TypeInv, Restart PROVE Moves
<1>1. work'.op = "idle"
  BY Blanks DEF Restart
<1>2. \A u, s : Names(u, s)' => Names(u, s)
  BY <1>1 DEF Names, Restart, Expanding, objects
<1> QED BY <1>1, <1>2 DEF Moves, Restart, objects, Making

LEMMA ReconcileMoves == ASSUME TypeInv, Reconcile PROVE Moves
<1>1. CASE ReconcileNothing
  BY <1>1, QuietMoves DEF ReconcileNothing, objects, caches, Follows
<1>2. ASSUME NEW op \in {"create", "allocate"}, Begin(op), cached.uid \in UID PROVE Moves
  <2>1. work'.op = op /\ work'.claim = cached /\ work'.store = pvCached[cached.uid].store
    BY <1>2 DEF Begin, Idle
  <2>2. UNCHANGED <<claim, used, pv, cached, pvCached, sweep>> /\ work.op = "idle"
    BY <1>2 DEF Begin, Take, objects, caches
  <2>3. \A u, s : Names(u, s)' => Names(u, s)
    BY <2>1, <2>2 DEF Names
  <2> QED BY <2>1, <2>2, <2>3 DEF Moves, Making
<1>3. CASE ReconcileProvisions
  BY <1>3, <1>2 DEF ReconcileProvisions, Provisions, TypeInv, TypeOK, Claim
<1>4. CASE ReconcileExpands
  BY <1>4, <1>2 DEF ReconcileExpands, Expands, Grows, Bound, TypeInv, TypeOK, Claim
<1>5. CASE ReconcileSettles
  <2>1. CASE Restart
    BY <2>1, RestartMoves
  <2>2. CASE ~ Restart
    <3>1. claim'.uid = claim.uid /\ UNCHANGED <<used, pv, cached, pvCached, work, sweep>>
      BY <1>5, <2>2 DEF ReconcileSettles, caches, TypeInv, TypeOK, Claim
    <3> QED BY <3>1, QuietMoves DEF Follows
  <2> QED BY <2>1, <2>2
<1> QED BY <1>1, <1>3, <1>4, <1>5 DEF Reconcile

LEMMA ProvisioningMoves == ASSUME TypeInv, Provisioning PROVE Moves
<1> USE DEF objects, caches
<1>1. CASE provision
  <2>1. PICK s \in StoreId : /\ NewStore(s, Gib(work.claim.want))
                             /\ work' = [work EXCEPT !.op = "publish", !.store = s]
    BY <1>1 DEF provision
  <2>2. work.op = "create" /\ UNCHANGED <<claim, used, pv, cached, pvCached, sweep>>
    BY <1>1 DEF provision
  <2>3. work'.op = "publish" /\ work'.store = s /\ work'.claim = work.claim
    BY <2>1 DEF TypeInv, TypeOK, Work
  <2>4. \A u \in UID : ~ Names(u, s)
    BY <2>1 DEF NewStore, Free, Names
  <2>5. \A u, x : Names(u, x)' => Names(u, x)
    BY <2>2, <2>3 DEF Names, Expanding
  <2> QED BY <2>2, <2>3, <2>4, <2>5 DEF Moves
<1>2. CASE ProvisionAnswerLost
  BY <1>2, QuietMoves, DoneFollows DEF ProvisionAnswerLost, Retry
<1>3. CASE PublishVolume
  <2> DEFINE u == work.claim.uid
             new == [store |-> work.store, phase |-> "Available", size |-> store[work.store].size]
  <2>1. CASE Exists(u)
    BY <1>3, <2>1, QuietMoves, GotoFollows DEF PublishVolume, Ops, Making, Expanding
  <2>2. CASE ~ Exists(u)
    <3>1. pv' = [pv EXCEPT ![u] = new] /\ Done /\ work.op = "publish" /\ u \in UID
      BY <1>3, <2>2 DEF PublishVolume, TypeInv, Shapes
    <3>2. work'.op = "idle" /\ UNCHANGED <<claim, used, cached, pvCached, sweep>>
      BY <1>3, <3>1, Blanks DEF PublishVolume, Done
    <3>3. pv'[u].store = work.store /\ pv'[u].phase = "Available"
      BY <3>1 DEF TypeInv, TypeOK
    <3>4. \A v \in UID : v # u => pv'[v] = pv[v]
      BY <3>1 DEF TypeInv, TypeOK
    <3>5. pv[u].store = 0
      BY <2>2, <3>1 DEF Exists, TypeInv, Shapes, WellMade
    <3>6. \A v \in UID : \A s \in StoreId :
            Names(v, s)' => Names(v, s) \/ (Publishes(v, s) /\ pv'[v].store = s)
      BY <3>1, <3>2, <3>3, <3>4 DEF Names, Publishes, Expanding
    <3>7. Publishes(u, pv'[u].store)
      BY <3>1, <3>2, <3>3 DEF Publishes
    <3>8. \A v \in UID : /\ pv'[v].store = pv[v].store
                            \/ (pv[v].store = 0 /\ Publishes(v, pv'[v].store))
                         /\ pv'[v].phase = "Released" => pv[v].phase = "Released"
      BY <3>3, <3>4, <3>5, <3>7
    <3> QED BY <3>2, <3>6, <3>8 DEF Moves, Making
  <2> QED BY <2>1, <2>2
<1>4. CASE PublishFails
  BY <1>4, QuietMoves, GotoFollows DEF PublishFails, Ops, Making, Expanding
<1>5. CASE UndoProvision
  BY <1>5, QuietMoves, DoneFollows DEF UndoProvision, EndUndo
<1>6. CASE UndoFails
  BY <1>6, QuietMoves, DoneFollows DEF UndoFails, EndUndo
<1> QED BY <1>1, <1>2, <1>3, <1>4, <1>5, <1>6 DEF Provisioning

(* An expansion changes sizes only: no name, and no claim's identity.        *)
LEMMA ExpandMoves == ASSUME TypeInv, expandIfAsked PROVE Moves
<1> USE DEF objects, caches
<1>a. work.claim.want \in Sizes
  BY DEF TypeInv, TypeOK, Work, Claim
<1>b. ASSUME NEW op, NEW state \in {"inProgress", "nodeInProgress"}, NEW next \in Ops,
             op \in Expanding, next \in Expanding, RecordStep(op, state, next)
      PROVE  Moves
  <2>1. claim'.uid = claim.uid
    BY <1>a, <1>b, RecordsAllocation DEF RecordStep
  <2>2. Follows
    BY <1>b, GotoFollows, DoneFollows DEF RecordStep, Retry, Expanding, Making
  <2> QED BY <1>b, <2>1, <2>2, QuietMoves DEF RecordStep
<1>1. CASE RecordInProgress
  BY <1>1, <1>b DEF RecordInProgress, Ops, Expanding
<1>2. CASE RecordNodeInProgress
  BY <1>2, <1>b DEF RecordNodeInProgress, Ops, Expanding
<1>3. ASSUME work.op \in {"extend", "await"}, Reached \/ Goto("await") \/ Goto("infeasible")
      PROVE  Follows
  <2>1. CASE Reached
    BY <1>3, <2>1, ReachedTypes DEF Follows, Expanding, Making
  <2>2. CASE Goto("await") \/ Goto("infeasible")
    BY <1>3, <2>2, GotoFollows DEF Expanding, Making, Ops
  <2> QED BY <1>3, <2>1, <2>2
<1>4. CASE Expand
  BY <1>3, <1>4, QuietMoves DEF Expand
<1>5. CASE ExpandRefused
  BY <1>3, <1>5, QuietMoves DEF ExpandRefused
<1>6. CASE awaitBlockSize
  BY <1>3, <1>6, QuietMoves DEF awaitBlockSize
<1>7. CASE RecordInfeasible
  <2>1. claim'.uid = claim.uid
    BY <1>a, <1>7, RecordsAllocation DEF RecordInfeasible
  <2> QED BY <1>7, <2>1, DoneFollows, QuietMoves DEF RecordInfeasible, Retry
<1>8. CASE recordVolumeSize
  <2>1. Follows
    <3>1. CASE Retry
      BY <3>1, DoneFollows DEF Retry
    <3>2. CASE Goto(IF Block THEN "node" ELSE "claim")
      <4>1. (IF Block THEN "node" ELSE "claim") \in {"node", "claim"}
        OBVIOUS
      <4> QED BY <1>8, <3>2, <4>1, GotoFollows DEF recordVolumeSize, Ops, Expanding, Making
    <3> QED BY <1>8, <3>1, <3>2 DEF recordVolumeSize
  <2>2. pv' = pv \/ pv' = [pv EXCEPT ![work.claim.uid].size = work.got]
    BY <1>8 DEF recordVolumeSize
  <2>3. \A u \in UID : pv'[u].store = pv[u].store /\ pv'[u].phase = pv[u].phase
    <3>1. CASE pv' = [pv EXCEPT ![work.claim.uid].size = work.got]
      <4>1. pv' = [pv EXCEPT ![work.claim.uid] = [pv[work.claim.uid] EXCEPT !.size = work.got]]
        BY <3>1
      <4>2. \A u \in UID : pv[u] \in PV
        BY DEF TypeInv, TypeOK
      <4>3. \A u \in UID :
              pv'[u] = IF u = work.claim.uid THEN [pv[u] EXCEPT !.size = work.got] ELSE pv[u]
        BY <4>1 DEF TypeInv, TypeOK
      <4> QED BY <4>2, <4>3 DEF PV
    <3> QED BY <2>2, <3>1
  <2>4. UNCHANGED <<claim, used, cached, pvCached, sweep>>
    BY <1>8 DEF recordVolumeSize
  <2>5. \A u \in UID : \A s : Names(u, s)' => Names(u, s)
    BY <2>1, <2>3, <2>4 DEF Names, Follows, Expanding
  <2>6. work'.op \in Making => work.op \in Making /\ work'.store = work.store
    BY <2>1 DEF Follows, Making
  <2>7. work'.op = "idle" \/ (work.op # "idle" /\ work'.claim = work.claim)
    BY <2>1 DEF Follows
  <2> QED BY <2>3, <2>4, <2>5, <2>6, <2>7 DEF Moves
<1>9. CASE growFilesystems
  BY <1>9, GotoFollows, QuietMoves DEF growFilesystems, Ops, Expanding, Making
<1>10. CASE recordClaimSize
  <2>1. claim'.uid = claim.uid
    BY <1>10 DEF recordClaimSize, TypeInv, TypeOK, Claim
  <2>2. Done
    BY <1>10 DEF recordClaimSize, Retry
  <2> QED BY <1>10, <2>1, <2>2, DoneFollows, QuietMoves DEF recordClaimSize
<1> QED BY <1>1, <1>2, <1>4, <1>5, <1>6, <1>7, <1>8, <1>9, <1>10 DEF expandIfAsked

LEMMA SweepMoves == ASSUME TypeInv, Sweeping PROVE Moves
<1> USE DEF objects, caches
<1>1. CASE SweepReleased
  <2>1. \A u, s : <<u, s>> \in sweep' => pvCached[u].phase = "Released" /\ pvCached[u].store = s
    BY <1>1 DEF SweepReleased
  <2>2. UNCHANGED <<claim, used, pv, cached, pvCached, work>>
    BY <1>1 DEF SweepReleased
  <2>3. \A u, s : Names(u, s)' => Names(u, s)
    BY <2>1, <2>2 DEF Names
  <2> QED BY <2>1, <2>2, <2>3 DEF Moves
<1>2. ASSUME NEW u \in UID, NEW s \in StoreId, SweepVolume(u, s) \/ SweepFails(u, s)
      PROVE  Moves
  <2>1. /\ <<u, s>> \in sweep /\ sweep' \subseteq sweep
        /\ UNCHANGED <<claim, used, cached, pvCached, work>>
        /\ pv' = pv \/ pv' = [pv EXCEPT ![u] = NoPV]
    BY <1>2 DEF SweepVolume, SweepFails
  <2>2. \A v \in UID : pv'[v] = pv[v] \/ (v = u /\ pv'[v].store = 0 /\ pv'[v].phase = "")
    BY <2>1, Blanks DEF TypeInv, TypeOK
  <2>3. \A v \in UID : \A x \in StoreId : Names(v, x)' => Names(v, x)
    BY <2>1, <2>2, Slots DEF Names
  <2> QED BY <2>1, <2>2, <2>3 DEF Moves
<1> QED BY <1>1, <1>2 DEF Sweeping

LEMMA EnvironmentMoves == ASSUME TypeInv, Environment PROVE Moves
<1> USE DEF objects, caches
<1>1. ASSUME NEW u \in UID, AddClaim(u) PROVE Moves
  <2>1. claim'.uid = u /\ used' = used \cup {u} /\ u \in UID \ used
    BY <1>1 DEF AddClaim, NoClaim
  <2>2. UNCHANGED <<pv, pvCached, cached, work, sweep>>
    BY <1>1 DEF AddClaim
  <2>3. \A v, s : Names(v, s)' => Names(v, s)
    BY <2>2 DEF Names
  <2>4. work'.op \in Making => work.op \in Making /\ work'.store = work.store
    BY <2>2 DEF Making
  <2> QED BY <2>1, <2>2, <2>3, <2>4 DEF Moves
<1>2. ASSUME NEW u \in UID, BindClaim(u) \/ Release(u) PROVE Moves
  <2>1. PICK phase \in {"Bound", "Released"} :
          /\ pv' = [pv EXCEPT ![u] = [pv[u] EXCEPT !.phase = phase]]
          /\ phase = "Released" => claim.uid # u
    BY <1>2 DEF BindClaim, Release
  <2>2. claim'.uid = claim.uid /\ UNCHANGED <<used, pvCached, cached, work, sweep>>
    BY <1>2 DEF BindClaim, Release, TypeInv, TypeOK, Claim
  <2>3. \A v \in UID : /\ pv'[v].store = pv[v].store
                       /\ pv'[v].phase = "Released" => pv[v].phase = "Released" \/ claim.uid # v
    BY <2>1 DEF TypeInv, TypeOK, PV
  <2>4. \A v \in UID : \A s : Names(v, s)' => Names(v, s)
    BY <2>2, <2>3 DEF Names
  <2> QED BY <2>2, <2>3, <2>4 DEF Moves
<1>3. ASSUME NEW u \in UID, CachePV(u) PROVE Moves
  <2>1. UNCHANGED <<claim, used, pv, cached, work, sweep>>
    BY <1>3 DEF CachePV
  <2>2. \A v \in UID : pvCached'[v] = pvCached[v] \/ pvCached'[v] = pv[v]
    BY <1>3 DEF CachePV, TypeInv, TypeOK
  <2>3. \A v \in UID : \A s : Names(v, s)' => Names(v, s)
    BY <2>1, <2>2 DEF Names
  <2> QED BY <2>1, <2>2, <2>3 DEF Moves
<1>4. ASSUME \/ \E want \in Requests : Resize(want)
             \/ SchedulerSelects \/ RemoveClaim \/ CacheClaim \/ ResyncClaim
             \/ \E s \in StoreId : StoreExtends(s) \/ StoreReset(s)
      PROVE  Moves
  <2>1. UNCHANGED <<used, pv, pvCached, work, sweep>>
    BY <1>4 DEF Resize, SchedulerSelects, RemoveClaim, CacheClaim, ResyncClaim, StoreExtends, StoreReset
  <2>2. claim'.uid \in {claim.uid, NoUID}
    BY <1>4, Blanks DEF Resize, SchedulerSelects, RemoveClaim, CacheClaim, ResyncClaim, StoreExtends,
       StoreReset, TypeInv, TypeOK, Claim
  <2>3. cached' = cached \/ (cached' = claim /\ claim' = claim)
    BY <1>4 DEF Resize, SchedulerSelects, RemoveClaim, CacheClaim, ResyncClaim, StoreExtends, StoreReset
  <2> QED BY <2>1, <2>2, <2>3, QuietMoves DEF Follows
<1>5. CASE Crash
  BY <1>5, RestartMoves DEF Crash
<1> QED BY <1>1, <1>2, <1>3, <1>4, <1>5 DEF Environment

LEMMA NextMoves == ASSUME TypeInv, [Next]_vars PROVE Moves
<1>1. CASE UNCHANGED vars
  BY <1>1, QuietMoves DEF vars, objects, caches, Follows
<1>2. CASE CallFails
  BY <1>2, QuietMoves, DoneFollows DEF CallFails, Retry, objects, caches
<1> QED
  BY <1>1, <1>2, ReconcileMoves, ProvisioningMoves, ExpandMoves, SweepMoves, EnvironmentMoves
     DEF Next, Sweeping

LEMMA InitNames == Init => NamesInv
<1> SUFFICES ASSUME Init PROVE NamesInv
  OBVIOUS
<1>1. \A u \in UID : \A s \in StoreId : ~ Names(u, s)
  BY Blanks, Slots DEF Init, Names, Expanding
<1>2. work.op = "idle" /\ claim.uid = NoUID /\ cached.uid = NoUID
  BY Blanks DEF Init
<1>3. NoUID \notin UID
  BY VolumeAssumption
<1> QED BY <1>1, <1>2, <1>3 DEF NamesInv, OneName, OnlyUsed, LiveStays, Making

LEMMA NextNames == TypeInv /\ NamesInv /\ [Next]_vars => NamesInv'
  BY NextMoves, NextTypes, MovesKeepNames

-----------------------------------------------------------------------------
(* Storage.                                                                  *)

(* What a step may do to one piece of storage: nothing; make it, where       *)
(* nothing names it; remove it, by the attempt that made it or by the sweep; *)
(* begin to extend it, for the claim at hand; end that; or change its status *)
(* alone.                                                                    *)
StorageMoves(s) ==
    \/ store'[s] = store[s]
    \/ Free(s) /\ store'[s].size = store'[s].target /\ store'[s].status = "available"
    \/ /\ store'[s].size = store[s].size /\ store'[s].target = store[s].target
       /\ \/ store'[s].status \in {"available", "error"}
          \/ store'[s].status = "gone" /\ work.op \in Making /\ s = work.store
          \/ store'[s].status = "gone" /\ \E u \in UID : <<u, s>> \in sweep
    \/ /\ work.op = "extend" /\ s = work.store /\ Short
       /\ store'[s].size = store[s].size /\ store'[s].target = Gib(work.claim.want)
       /\ store'[s].status = "extending"
    \/ /\ store'[s].size = store[s].target /\ store'[s].target = store[s].target
       /\ store'[s].status = "available"

LEMMA NextStorage ==
    ASSUME TypeInv, [Next]_vars PROVE \A s \in StoreId : StorageMoves(s)
<1>a. \A s \in StoreId : store[s] \in Store
  BY DEF TypeInv, TypeOK
<1>1. CASE store' = store
  BY <1>1 DEF StorageMoves
<1>2. ASSUME NEW s \in StoreId, NewStore(s, Gib(work.claim.want))
      PROVE  \A t \in StoreId : StorageMoves(t)
  BY <1>2 DEF NewStore, StorageMoves, TypeInv, TypeOK
<1>3. ASSUME NEW s \in StoreId, Remove(s),
             \/ work.op \in Making /\ s = work.store
             \/ \E u \in UID : <<u, s>> \in sweep
      PROVE  \A t \in StoreId : StorageMoves(t)
  <2>1. store' = [store EXCEPT ![s] = [store[s] EXCEPT !.status = "gone"]]
    BY <1>3 DEF Remove
  <2> QED BY <1>3, <1>a, <2>1 DEF StorageMoves, TypeInv, TypeOK, Store
<1>4. CASE Expand
  <2> DEFINE s == work.store
             new == [store[s] EXCEPT !.status = "extending", !.target = Gib(work.claim.want)]
  <2>1. CASE /\ Short /\ store' = [store EXCEPT ![s].status = "extending",
                                               ![s].target = Gib(work.claim.want)]
    <3>1. s \in StoreId /\ work.op = "extend"
      BY <1>4 DEF Expand, TypeInv, Shapes, Making, Expanding
    <3>2. store' = [store EXCEPT ![s] = new]
      BY <2>1, <3>1, <1>a DEF Store, TypeInv, TypeOK
    <3>3. new.size = store[s].size /\ new.target = Gib(work.claim.want) /\ new.status = "extending"
      BY <1>a, <3>1 DEF Store
    <3> HIDE DEF new
    <3>4. store'[s] = new /\ \A t \in StoreId : t # s => store'[t] = store[t]
      BY <3>1, <3>2 DEF TypeInv, TypeOK
    <3> QED BY <2>1, <3>1, <3>3, <3>4 DEF StorageMoves
  <2> QED BY <1>1, <1>4, <2>1 DEF Expand
<1>5. ASSUME NEW s \in StoreId, StoreExtends(s) \/ StoreReset(s)
      PROVE  \A t \in StoreId : StorageMoves(t)
  <2>1. PICK new \in Store :
          /\ store' = [store EXCEPT ![s] = new] /\ new.target = store[s].target
          /\ \/ new.size = store[s].target /\ new.status = "available"
             \/ new.size = store[s].size /\ new.status \in {"available", "error"}
    <3>1. CASE store' = [store EXCEPT ![s].status = "available", ![s].size = store[s].target]
      <4> DEFINE new == [store[s] EXCEPT !.status = "available", !.size = store[s].target]
      <4>1. store' = [store EXCEPT ![s] = new]
        BY <3>1, <1>a DEF Store, TypeInv, TypeOK
      <4>2. /\ new \in Store /\ new.target = store[s].target
            /\ new.size = store[s].target /\ new.status = "available"
        BY <1>a DEF Store
      <4> HIDE DEF new
      <4> QED BY <4>1, <4>2
    <3>2. ASSUME NEW st \in {"available", "error"}, store' = [store EXCEPT ![s].status = st]
          PROVE  \E new \in Store :
                   /\ store' = [store EXCEPT ![s] = new] /\ new.target = store[s].target
                   /\ new.size = store[s].size /\ new.status \in {"available", "error"}
      <4> DEFINE new == [store[s] EXCEPT !.status = st]
      <4>1. store' = [store EXCEPT ![s] = new]
        BY <3>2
      <4>2. /\ new \in Store /\ new.target = store[s].target
            /\ new.size = store[s].size /\ new.status \in {"available", "error"}
        BY <1>a DEF Store
      <4> HIDE DEF new
      <4> QED BY <4>1, <4>2
    <3> QED BY <1>5, <3>1, <3>2 DEF StoreExtends, StoreReset
  <2> QED BY <2>1 DEF StorageMoves, TypeInv, TypeOK
<1>6. CASE Provisioning
  <2>1. CASE provision \/ ProvisionAnswerLost
    BY <1>2, <2>1 DEF provision, ProvisionAnswerLost
  <2>2. CASE UndoProvision
    BY <1>3, <2>2 DEF UndoProvision, TypeInv, Shapes, Making
  <2>3. CASE PublishVolume \/ PublishFails \/ UndoFails
    BY <1>1, <2>3 DEF PublishVolume, PublishFails, UndoFails
  <2> QED BY <1>6, <2>1, <2>2, <2>3 DEF Provisioning
<1>7. CASE expandIfAsked
  <2>1. Expand \/ store' = store
    BY <1>7 DEF expandIfAsked, RecordInProgress, RecordNodeInProgress, RecordStep, ExpandRefused,
       awaitBlockSize, RecordInfeasible, recordVolumeSize, growFilesystems, recordClaimSize
  <2> QED BY <1>1, <1>4, <2>1
<1>8. CASE Sweeping
  BY <1>1, <1>3, <1>8 DEF Sweeping, SweepReleased, SweepVolume, SweepFails
<1>9. CASE Environment
  <2>1. (\E s \in StoreId : StoreExtends(s) \/ StoreReset(s)) \/ store' = store
    BY <1>9 DEF Environment, AddClaim, BindClaim, Release, CachePV, Resize, SchedulerSelects,
       RemoveClaim, CacheClaim, ResyncClaim, Crash, Restart
  <2> QED BY <1>1, <1>5, <2>1
<1>10. CASE Reconcile \/ CallFails \/ UNCHANGED vars
  <2>1. store' = store
    BY <1>10 DEF Reconcile, ReconcileNothing, ReconcileProvisions, ReconcileExpands, Begin,
       ReconcileSettles, Restart, CallFails, vars
  <2> QED BY <1>1, <2>1
<1> QED BY <1>6, <1>7, <1>8, <1>9, <1>10 DEF Next, Sweeping

(* The storage of a claim that exists is not removed: what a step removes is *)
(* unnamed, or named by the sweep for an incarnation that is gone.           *)
LEMMA StepKeepsStorage ==
    ASSUME TypeInv, NamesInv, [Next]_vars,
           NEW s \in StoreId, store[s].status # "gone", store'[s].status = "gone"
    PROVE  claim.uid = NoUID \/ pv[claim.uid].store # s
<1> SUFFICES ASSUME claim.uid # NoUID, pv[claim.uid].store = s PROVE FALSE
  OBVIOUS
<1>1. claim.uid \in UID /\ Names(claim.uid, s)
  BY DEF TypeInv, TypeOK, Claim, Names
<1>2. \/ work.op \in Making /\ s = work.store
      \/ \E u \in UID : <<u, s>> \in sweep
  BY NextStorage DEF StorageMoves
<1>3. CASE work.op \in Making /\ s = work.store
  BY <1>1, <1>3 DEF NamesInv, OneName
<1>4. ASSUME NEW u \in UID, <<u, s>> \in sweep PROVE FALSE
  <2>1. Names(u, s)
    BY <1>4 DEF Names
  <2>2. u = claim.uid
    BY <1>1, <2>1 DEF NamesInv, OneName
  <2> QED BY <1>1, <1>4, <2>2 DEF NamesInv, LiveStays
<1> QED BY <1>2, <1>3, <1>4

LEMMA NamesInvariant == Spec => [](TypeInv /\ NamesInv)
  BY InitTypes, NextTypes, InitNames, NextNames, PTL DEF Spec

(* Neither the undoing of a lost race (provision) nor SweepReleased removes  *)
(* the storage of a claim that still exists, however far the caches lag and  *)
(* wherever the process dies.                                                *)
THEOREM StorageIsKept == Spec => BoundStorageKept
<1>1. TypeInv /\ NamesInv /\ [Next]_vars =>
        [\A s \in StoreId : store[s].status # "gone" /\ store'[s].status = "gone" =>
           claim.uid = NoUID \/ pv[claim.uid].store # s]_vars
  BY StepKeepsStorage
<1> QED BY <1>1, NamesInvariant, PTL DEF Spec, BoundStorageKept

-----------------------------------------------------------------------------
(* Sizes of what is recorded.                                                *)

Recording == {"volume", "node", "grow", "claim"}

(* Where the size a step records comes from: a volume's from the storage     *)
(* just made or from what the expansion read; what the expansion reads, from *)
(* the storage; a claim's from its volume when it is bound, and from the     *)
(* expansion afterwards.                                                     *)
SizesMove ==
    /\ \A u \in UID :
         \/ pv'[u].store = 0
         \/ pv'[u].store = pv[u].store /\ pv'[u].size = pv[u].size
         \/ /\ work.op = "publish" /\ pv'[u].store = work.store
            /\ pv'[u].size = store[work.store].size
         \/ /\ work.op \in Recording /\ pv'[u].store = work.store
            /\ pv'[u].size = work.got
    /\ work'.op \in Recording =>
         /\ work'.store = work.store
         /\ \/ work.op \in Recording /\ work'.got = work.got
            \/ work.op \in {"extend", "await"} /\ work'.got = store[work.store].size
    /\ claim'.bound =>
         /\ claim'.uid = claim.uid
         /\ \/ claim.bound /\ claim'.have = claim.have
            \/ pv[claim.uid].store # 0 /\ claim'.have = 2 * pv[claim.uid].size
            \/ claim.bound /\ work.op = "claim" /\ claim'.have = 2 * work.got

LEMMA QuietSizes ==
    ASSUME UNCHANGED pv, claim'.uid = claim.uid, claim'.bound = claim.bound, claim'.have = claim.have,
           \/ work' = work
           \/ work'.op \notin Recording
           \/ work.op \in Recording /\ work'.store = work.store /\ work'.got = work.got
    PROVE  SizesMove
  BY DEF SizesMove

LEMMA GotoSizes ==
    ASSUME TypeInv, NEW op \in Ops, Goto(op), op \in Recording => work.op \in Recording
    PROVE  \/ work'.op \notin Recording
           \/ work.op \in Recording /\ work'.store = work.store /\ work'.got = work.got
  BY DEF Goto, TypeInv, TypeOK, Work

LEMMA DoneSizes == Done => work'.op \notin Recording
  BY Blanks DEF Done, Recording

LEMMA NextSizes == ASSUME TypeInv, [Next]_vars PROVE SizesMove
<1> USE DEF objects, caches
<1>a. work.claim.want \in Sizes
  BY DEF TypeInv, TypeOK, Work, Claim
<1>1. CASE UNCHANGED vars
  BY <1>1, QuietSizes DEF vars
<1>2. CASE Reconcile
  <2>1. work' = work \/ work'.op \notin Recording
    BY <1>2, Blanks DEF Reconcile, ReconcileNothing, ReconcileProvisions, ReconcileExpands, Begin,
       ReconcileSettles, Restart, Recording, Idle
  <2>2. claim' = claim \/ claim' = [claim EXCEPT !.alloc = cached.want]
    BY <1>2 DEF Reconcile, ReconcileNothing, ReconcileProvisions, ReconcileExpands, Begin,
       ReconcileSettles, Restart
  <2>3. claim'.uid = claim.uid /\ claim'.bound = claim.bound /\ claim'.have = claim.have
    BY <2>2 DEF TypeInv, TypeOK, Claim
  <2>4. UNCHANGED pv
    BY <1>2 DEF Reconcile, ReconcileNothing, ReconcileProvisions, ReconcileExpands, Begin,
       ReconcileSettles, Restart
  <2> QED BY <2>1, <2>3, <2>4, QuietSizes
<1>3. CASE CallFails
  BY <1>3, QuietSizes, DoneSizes DEF CallFails, Retry
<1>4. CASE PublishVolume
  <2>1. work'.op \notin Recording /\ claim' = claim
    BY <1>4, DoneSizes, GotoSizes DEF PublishVolume, Ops, Recording
  <2>2. \A u \in UID :
          \/ pv'[u] = pv[u]
          \/ pv'[u].store = work.store /\ pv'[u].size = store[work.store].size
    BY <1>4 DEF PublishVolume, TypeInv, TypeOK
  <2> QED BY <1>4, <2>1, <2>2 DEF SizesMove, PublishVolume
<1>5. CASE Provisioning /\ ~ PublishVolume
  <2>1. work'.op \notin Recording
    <3>1. CASE provision
      BY <3>1 DEF provision, Recording, TypeInv, TypeOK, Work
    <3>2. CASE PublishFails
      BY <3>2, GotoSizes DEF PublishFails, Ops, Recording
    <3> QED BY <1>5, <3>1, <3>2, DoneSizes DEF Provisioning, ProvisionAnswerLost, Retry,
               UndoProvision, UndoFails, EndUndo
  <2>2. UNCHANGED <<pv, claim>>
    BY <1>5 DEF Provisioning, provision, ProvisionAnswerLost, PublishFails, UndoProvision, UndoFails
  <2> QED BY <2>1, <2>2, QuietSizes
<1>6. CASE RecordInProgress \/ RecordNodeInProgress
  <2>1. PICK op \in {"allocate", "node"}, state \in {"inProgress", "nodeInProgress"},
             next \in {"extend", "grow"} :
          RecordStep(op, state, next) /\ (next = "grow" => op = "node")
    BY <1>6 DEF RecordInProgress, RecordNodeInProgress
  <2>2. claim'.uid = claim.uid /\ claim'.bound = claim.bound /\ claim'.have = claim.have
    BY <1>a, <2>1, RecordsAllocation DEF RecordStep
  <2>3. \/ work'.op \notin Recording
        \/ work.op \in Recording /\ work'.store = work.store /\ work'.got = work.got
    BY <2>1, GotoSizes, DoneSizes DEF RecordStep, Retry, Ops, Recording
  <2> QED BY <2>1, <2>2, <2>3, QuietSizes DEF RecordStep
<1>7. CASE Expand \/ ExpandRefused \/ awaitBlockSize
  <2>1. UNCHANGED <<claim, pv>> /\ work.op \in {"extend", "await"}
    BY <1>7 DEF Expand, ExpandRefused, awaitBlockSize
  <2>2. CASE Reached
    BY <2>1, <2>2, ReachedTypes DEF SizesMove
  <2>3. CASE Goto("await") \/ Goto("infeasible")
    BY <2>1, <2>3, GotoSizes, QuietSizes DEF Ops, Recording
  <2> QED BY <1>7, <2>2, <2>3 DEF Expand, ExpandRefused, awaitBlockSize
<1>8. CASE RecordInfeasible
  <2>1. claim'.uid = claim.uid /\ claim'.bound = claim.bound /\ claim'.have = claim.have
    BY <1>a, <1>8, RecordsAllocation DEF RecordInfeasible
  <2> QED BY <1>8, <2>1, DoneSizes, QuietSizes DEF RecordInfeasible, Retry
<1>9. CASE recordVolumeSize
  <2>1. /\ work.op = "volume" /\ UNCHANGED claim
        /\ work.claim.uid \in UID /\ work.store = work.pv.store
    BY <1>9 DEF recordVolumeSize, TypeInv, Shapes, Expanding
  <2>2. \/ work'.op \notin Recording
        \/ work.op \in Recording /\ work'.store = work.store /\ work'.got = work.got
    <3>1. CASE Retry
      BY <3>1, DoneSizes DEF Retry
    <3>2. CASE Goto(IF Block THEN "node" ELSE "claim")
      <4>1. (IF Block THEN "node" ELSE "claim") \in {"node", "claim"}
        OBVIOUS
      <4> QED BY <2>1, <3>2, <4>1, GotoSizes DEF Ops, Recording
    <3> QED BY <1>9, <3>1, <3>2 DEF recordVolumeSize
  <2>3. CASE UNCHANGED pv
    BY <2>1, <2>2, <2>3, QuietSizes
  <2>4. CASE work.pv = pv[work.claim.uid] /\ pv' = [pv EXCEPT ![work.claim.uid].size = work.got]
    <3> DEFINE u == work.claim.uid
               new == [pv[u] EXCEPT !.size = work.got]
    <3>1. pv' = [pv EXCEPT ![u] = new]
      BY <2>4
    <3>2. pv[u] \in PV
      BY <2>1 DEF TypeInv, TypeOK
    <3>3. new.store = work.store /\ new.size = work.got
      BY <2>1, <2>4, <3>2 DEF PV
    <3> HIDE DEF new
    <3>4. \A v \in UID : pv'[v] = pv[v] \/ (pv'[v].store = work.store /\ pv'[v].size = work.got)
      BY <2>1, <3>1, <3>3 DEF TypeInv, TypeOK
    <3> QED BY <2>1, <2>2, <3>4 DEF SizesMove, Recording
  <2> QED BY <1>9, <2>3, <2>4 DEF recordVolumeSize
<1>10. CASE growFilesystems
  BY <1>10, GotoSizes, QuietSizes DEF growFilesystems, Ops, Recording
<1>11. CASE recordClaimSize
  <2>1. Done /\ work.op = "claim" /\ UNCHANGED pv
    BY <1>11 DEF recordClaimSize, Retry
  <2>2. \/ claim' = claim
        \/ claim'.uid = claim.uid /\ claim'.bound = claim.bound /\ claim'.have = 2 * work.got
    BY <1>11 DEF recordClaimSize, TypeInv, TypeOK, Claim
  <2> QED BY <2>1, <2>2, DoneSizes DEF SizesMove
<1>12. CASE Sweeping
  <2>1. UNCHANGED <<claim, work>>
    BY <1>12 DEF Sweeping, SweepReleased, SweepVolume, SweepFails
  <2>2. \A u \in UID : pv'[u] = pv[u] \/ pv'[u].store = 0
    BY <1>12, Blanks DEF Sweeping, SweepReleased, SweepVolume, SweepFails, TypeInv, TypeOK
  <2> QED BY <2>1, <2>2 DEF SizesMove
<1>13. ASSUME NEW u \in UID, AddClaim(u) \/ CachePV(u) PROVE SizesMove
  <2>1. UNCHANGED <<pv, work>> /\ (claim' = claim \/ ~ claim'.bound)
    BY <1>13 DEF AddClaim, CachePV, NoClaim
  <2> QED BY <2>1 DEF SizesMove
<1>14. ASSUME NEW u \in UID, BindClaim(u) \/ Release(u) PROVE SizesMove
  <2>1. PICK phase : pv' = [pv EXCEPT ![u] = [pv[u] EXCEPT !.phase = phase]]
    BY <1>14 DEF BindClaim, Release
  <2>2. UNCHANGED work
    BY <1>14 DEF BindClaim, Release
  <2>3. \A v \in UID : pv'[v].store = pv[v].store /\ pv'[v].size = pv[v].size
    BY <2>1 DEF TypeInv, TypeOK, PV
  <2>4. CASE BindClaim(u)
    <3>1. pv[u].phase = "Available"
      BY <2>4 DEF BindClaim
    <3>2. pv[u].store # 0
      BY <3>1 DEF TypeInv, Shapes, WellMade
    <3>3. claim.uid = u /\ claim'.uid = u /\ claim'.have = 2 * pv[u].size
      BY <2>4 DEF BindClaim, TypeInv, TypeOK, Claim
    <3> QED BY <2>2, <2>3, <3>2, <3>3 DEF SizesMove
  <2>5. CASE Release(u)
    BY <2>2, <2>3, <2>5 DEF SizesMove, Release
  <2> QED BY <1>14, <2>4, <2>5
<1>15. ASSUME \/ \E want \in Requests : Resize(want)
              \/ SchedulerSelects \/ RemoveClaim \/ CacheClaim \/ ResyncClaim
              \/ \E s \in StoreId : StoreExtends(s) \/ StoreReset(s)
       PROVE  SizesMove
  <2>1. UNCHANGED <<pv, work>>
    BY <1>15 DEF Resize, SchedulerSelects, RemoveClaim, CacheClaim, ResyncClaim, StoreExtends, StoreReset
  <2>2. \/ claim'.uid = claim.uid /\ claim'.bound = claim.bound /\ claim'.have = claim.have
        \/ claim' = NoClaim
    BY <1>15 DEF Resize, SchedulerSelects, RemoveClaim, CacheClaim, ResyncClaim, StoreExtends,
       StoreReset, TypeInv, TypeOK, Claim
  <2> QED BY <2>1, <2>2, Blanks DEF SizesMove
<1>16. CASE Crash
  BY <1>16, Blanks, QuietSizes DEF Crash, Restart, Recording
<1> QED BY <1>1, <1>2, <1>3, <1>4, <1>5, <1>6, <1>7, <1>8, <1>9, <1>10, <1>11, <1>12, <1>13, <1>14,
           <1>15, <1>16 DEF Next, Provisioning, expandIfAsked, Environment, Sweeping

(* Storage that something names does not shrink.                             *)
LEMMA StorageGrows ==
    ASSUME TypeInv, Sized, [Next]_vars, NEW s \in StoreId
    PROVE  /\ store'[s].size <= store'[s].target
           /\ ~ Free(s) => store[s].size <= store'[s].size
<1>1. /\ store[s].size \in Nat /\ store[s].target \in Nat
      /\ store'[s].size \in Nat /\ store'[s].target \in Nat
  <2>1. TypeInv'
    BY NextTypes
  <2> QED BY <2>1 DEF TypeInv, Shapes, Half
<1>2. store[s].size <= store[s].target
  BY DEF Sized
<1>3. Gib(work.claim.want) \in Nat
  BY SizesRound DEF TypeInv, TypeOK, Work, Claim, Half
<1>4. StorageMoves(s)
  BY NextStorage
<1>5. CASE work.op = "extend" /\ s = work.store /\ Short /\ store'[s].target = Gib(work.claim.want)
           /\ store'[s].size = store[s].size
  BY <1>1, <1>3, <1>5 DEF Short, Behind
<1> QED BY <1>1, <1>2, <1>4, <1>5 DEF StorageMoves

LEMMA NextSized ==
    ASSUME TypeInv, NamesInv, Sized, [Next]_vars PROVE Sized'
<1>1. TypeInv' /\ Moves /\ SizesMove
  BY NextTypes, NextMoves, NextSizes
<1>2. \A s \in StoreId : /\ store'[s].size <= store'[s].target
                         /\ ~ Free(s) => store[s].size <= store'[s].size
                         /\ store[s].size \in Nat /\ store'[s].size \in Nat
  BY <1>1, StorageGrows DEF TypeInv, Shapes, Half
<1>3. /\ \A u \in UID : pv[u].store \in StoreId \cup {0} /\ pv'[u].store \in StoreId \cup {0}
      /\ work.op \in Making \cup Expanding => work.store \in StoreId
  BY <1>1, Slots DEF TypeInv, TypeOK, Shapes, PV
<1>4. \A u \in UID : pv[u].store # 0 => ~ Free(pv[u].store)
  BY DEF Free
<1>5. ~ Free(work.store)
  BY DEF Free
<1>6. work.op \in Recording => work.got <= store[work.store].size
  BY DEF Sized, Recording
<1>7. /\ work.got \in Nat /\ work'.got \in Nat /\ claim.have \in Nat /\ claim'.have \in Nat
      /\ \A u \in UID : pv[u].size \in Nat /\ pv'[u].size \in Nat
  BY <1>1, SizesRound DEF TypeInv, TypeOK, Shapes, WellMade, Half, Claim
<1>8. ASSUME NEW u \in UID, pv'[u].store # 0
      PROVE  pv'[u].size <= store'[pv'[u].store].size
  <2>1. pv'[u].store \in StoreId
    BY <1>3, <1>8
  <2>2. CASE pv'[u].store = pv[u].store /\ pv'[u].size = pv[u].size
    BY <1>2, <1>4, <1>7, <1>8, <2>1, <2>2 DEF Sized
  <2>3. CASE work.op = "publish" /\ pv'[u].store = work.store /\ pv'[u].size = store[work.store].size
    BY <1>2, <1>5, <2>1, <2>3
  <2>4. CASE work.op \in Recording /\ pv'[u].store = work.store /\ pv'[u].size = work.got
    BY <1>2, <1>5, <1>6, <1>7, <2>1, <2>4
  <2> QED BY <1>1, <1>8, <2>2, <2>3, <2>4 DEF SizesMove
<1>9. ASSUME work'.op \in Recording PROVE work'.got <= store'[work'.store].size
  <2>1. /\ work'.store = work.store
        /\ \/ work.op \in Recording /\ work'.got = work.got
           \/ work.op \in {"extend", "await"} /\ work'.got = store[work.store].size
    BY <1>1, <1>9 DEF SizesMove
  <2>2. work.store \in StoreId
    BY <1>3, <2>1 DEF Recording, Expanding
  <2> QED BY <1>2, <1>5, <1>6, <1>7, <2>1, <2>2
<1>10. ASSUME claim'.bound
       PROVE  pv'[claim'.uid].store # 0 /\ claim'.have <= 2 * store'[pv'[claim'.uid].store].size
  <2> DEFINE u == claim.uid
  <2>1. claim'.uid = u /\ u \in UID
    BY <1>1, <1>10 DEF SizesMove, TypeInv, Shapes
  <2>2. /\ \/ claim.bound /\ claim'.have = claim.have
           \/ pv[u].store # 0 /\ claim'.have = 2 * pv[u].size
           \/ claim.bound /\ work.op = "claim" /\ claim'.have = 2 * work.got
        /\ claim.bound => pv[u].store # 0 /\ claim.have <= 2 * store[pv[u].store].size
    BY <1>1, <1>10 DEF SizesMove, Sized
  <2> HIDE DEF u
  <2>3. pv[u].store # 0 /\ pv[u].store \in StoreId
    BY <1>3, <2>1, <2>2
  <2>4. \A s \in StoreId : <<u, s>> \notin sweep /\ (Names(u, s) => pv[u].store = s)
    BY <2>1 DEF NamesInv, LiveStays, u
  <2>5. pv'[u].store = pv[u].store
    BY <1>1, <2>1, <2>3, <2>4 DEF Moves
  <2>6. store[pv[u].store].size <= store'[pv[u].store].size
    BY <1>2, <1>4, <2>1, <2>3
  <2>7. pv[u].size <= store[pv[u].store].size
    BY <2>1, <2>3 DEF Sized
  <2>8. work.op = "claim" => work.store = pv[u].store
    <3> SUFFICES ASSUME work.op = "claim" PROVE work.store = pv[u].store
      OBVIOUS
    <3>1. work.claim.uid = u
      BY <2>1, <2>3 DEF NamesInv, LiveStays, u
    <3>2. work.store \in StoreId /\ Names(u, work.store)
      BY <1>3, <3>1 DEF Names, Expanding
    <3> QED BY <2>4, <3>2
  <2>9. /\ store[pv[u].store].size \in Nat /\ store'[pv[u].store].size \in Nat
        /\ pv[u].size \in Nat
    BY <1>2, <1>7, <2>1, <2>3
  <2>10. claim'.have <= 2 * store[pv[u].store].size
    BY <1>6, <1>7, <2>2, <2>7, <2>8, <2>9 DEF Recording
  <2> QED BY <1>7, <2>1, <2>3, <2>5, <2>6, <2>9, <2>10
<1> QED BY <1>2, <1>8, <1>9, <1>10 DEF Sized, Recording

LEMMA InitSized == Init => Sized
<1> SUFFICES ASSUME Init PROVE Sized
  OBVIOUS
<1>1. \A u \in UID : pv[u].store = 0
  BY Blanks DEF Init
<1>2. work.op = "idle" /\ ~ claim.bound
  BY Blanks DEF Init
<1>3. \A s \in StoreId : store[s].size <= store[s].target
  BY DEF Init
<1> QED BY <1>1, <1>2, <1>3 DEF Sized

(* The capacity on a bound claim is there: recordClaimSize, which finds the  *)
(* claim by name at the end of an expansion that may have lasted minutes,    *)
(* never gives it a size that its own volume does not have.                  *)
THEOREM CapacityCorrect == Spec => []CapacityIsReal
<1>1. TypeInv /\ NamesInv /\ Sized /\ [Next]_vars => Sized'
  BY NextSized
<1>2. Spec => []Sized
  BY <1>1, InitSized, NamesInvariant, PTL DEF Spec
<1>3. Sized => CapacityIsReal
  BY DEF Sized, CapacityIsReal
<1> QED BY <1>2, <1>3, PTL

-----------------------------------------------------------------------------
(* Charges.                                                                  *)

(* Where an expansion stands before its call: it has just recorded the size, *)
(* or nothing has lowered what was recorded.                                 *)
LEMMA NextCharges ==
    ASSUME TypeInv, [Next]_vars, work'.op = "extend"
    PROVE  /\ work'.claim = work.claim /\ work.op # "idle"
           /\ \/ work.claim.want <= claim'.alloc
              \/ work.op = "extend" /\ claim'.uid = claim.uid /\ claim'.alloc = claim.alloc
              \/ claim'.uid = NoUID
              \/ claim'.uid \notin used
<1> USE DEF objects, caches
<1>a. work \in Work /\ claim \in Claim /\ work.claim.want \in Sizes
  BY DEF TypeInv, TypeOK, Work, Claim
<1>b. ~ Done
  BY Blanks DEF Done
<1>c. \A op \in Ops : Goto(op) => op = "extend"
  BY <1>a DEF Goto, Work
<1>d. ~ Reached
  BY <1>a DEF Reached, Work
<1>1. CASE UNCHANGED vars
  BY <1>1 DEF vars
<1>2. CASE Reconcile
  <2>1. work.op = "idle"
    BY <1>2 DEF Reconcile, ReconcileNothing, ReconcileProvisions, ReconcileExpands, Begin, Take,
       ReconcileSettles
  <2>2. work' = work \/ work' = Idle \/ work'.op \in {"create", "allocate"}
    BY <1>2 DEF Reconcile, ReconcileNothing, ReconcileProvisions, ReconcileExpands, Begin,
       ReconcileSettles, Restart, Idle
  <2> QED BY <2>1, <2>2, Blanks
<1>3. CASE Provisioning
  <2>1. ~ provision
    BY <1>a DEF provision, Work
  <2> QED BY <1>3, <1>b, <1>c, <2>1 DEF Provisioning, ProvisionAnswerLost, Retry, PublishVolume,
             PublishFails, UndoProvision, UndoFails, EndUndo, Ops
<1>4. CASE RecordInProgress
  <2>1. claim.uid # NoUID /\ Goto("extend") /\ recordAllocation(work.claim.want, "inProgress")
    BY <1>4, <1>b DEF RecordInProgress, RecordStep, Retry
  <2>2. work.claim.want <= claim'.alloc
    BY <1>a, <2>1, RecordsAllocation
  <2>3. work'.claim = work.claim
    BY <1>a, <2>1 DEF Goto, Work
  <2> QED BY <1>4, <2>2, <2>3 DEF RecordInProgress, RecordStep
<1>5. CASE expandIfAsked /\ ~ RecordInProgress
  <2>1. ~ recordVolumeSize
    <3>1. (IF Block THEN "node" ELSE "claim") \in {"node", "claim"}
      OBVIOUS
    <3> QED BY <1>b, <1>c, <3>1 DEF recordVolumeSize, Retry, Ops
  <2> QED BY <1>5, <1>b, <1>c, <1>d, <2>1 DEF expandIfAsked, Expand, ExpandRefused, awaitBlockSize,
             RecordInfeasible, RecordNodeInProgress, RecordStep, Retry, growFilesystems,
             recordClaimSize, Ops
<1>6. CASE Sweeping
  BY <1>6 DEF Sweeping, SweepReleased, SweepVolume, SweepFails
<1>7. CASE Environment
  <2>1. work' = work
    BY <1>7, <1>b DEF Environment, AddClaim, BindClaim, Release, CachePV, Resize, SchedulerSelects,
       RemoveClaim, CacheClaim, ResyncClaim, Crash, Restart, Done, StoreExtends, StoreReset
  <2>2. ASSUME NEW u \in UID, AddClaim(u) PROVE claim'.uid \notin used
    BY <2>2 DEF AddClaim, NoClaim
  <2>3. ASSUME NEW u \in UID, BindClaim(u) PROVE claim'.uid = claim.uid /\ claim'.alloc = claim.alloc
    BY <1>a, <2>3 DEF BindClaim, Claim
  <2>4. ASSUME NEW want \in Requests, Resize(want)
        PROVE  claim'.uid = claim.uid /\ claim'.alloc = claim.alloc
    BY <1>a, <2>4 DEF Resize, Claim
  <2>5. CASE SchedulerSelects
    BY <1>a, <2>1, <2>5 DEF SchedulerSelects, Claim
  <2>6. CASE RemoveClaim
    BY <2>1, <2>6, Blanks DEF RemoveClaim
  <2>7. CASE claim' = claim
    BY <2>1, <2>7
  <2>8. \/ claim' = claim \/ SchedulerSelects \/ RemoveClaim
        \/ \E u \in UID : AddClaim(u) \/ BindClaim(u)
        \/ \E want \in Requests : Resize(want)
    BY <1>7 DEF Environment, Release, CachePV, CacheClaim, ResyncClaim, Crash, Restart,
       StoreExtends, StoreReset
  <2> QED BY <2>1, <2>2, <2>3, <2>4, <2>5, <2>6, <2>7, <2>8
<1>8. CASE CallFails
  BY <1>8, <1>b DEF CallFails, Retry
<1> QED BY <1>1, <1>2, <1>3, <1>4, <1>5, <1>6, <1>7, <1>8 DEF Next, Sweeping

LEMMA NextCharged == TypeInv /\ NamesInv /\ Charged /\ [Next]_vars => Charged'
<1> SUFFICES ASSUME TypeInv, NamesInv, Charged, [Next]_vars,
                    work'.op = "extend", claim'.uid = work'.claim.uid
             PROVE  work'.claim.want <= claim'.alloc
  BY DEF Charged
<1>1. /\ work'.claim = work.claim /\ work.op # "idle"
      /\ \/ work.claim.want <= claim'.alloc
         \/ work.op = "extend" /\ claim'.uid = claim.uid /\ claim'.alloc = claim.alloc
         \/ claim'.uid = NoUID
         \/ claim'.uid \notin used
  BY NextCharges
<1>2. work.claim.uid \in used /\ work.claim.uid # NoUID
  BY <1>1, VolumeAssumption DEF NamesInv, OnlyUsed, TypeInv, Shapes
<1> QED BY <1>1, <1>2 DEF Charged

LEMMA ExtensionStep ==
    ASSUME TypeInv, NamesInv, Charged, [Next]_vars,
           NEW s \in StoreId, store[s].status # "extending", store'[s].status = "extending",
           claim.uid # NoUID, pv[claim.uid].store = s
    PROVE  store'[s].target <= Gib(Larger(claim.want, claim.alloc))
<1>1. /\ work.op = "extend" /\ s = work.store /\ store'[s].target = Gib(work.claim.want)
  BY NextStorage DEF StorageMoves
<1>2. claim.uid \in UID /\ work.claim.uid \in UID
  BY <1>1 DEF TypeInv, TypeOK, Shapes, Claim
<1>3. Names(claim.uid, s) /\ Names(work.claim.uid, s)
  BY <1>1 DEF Names, Expanding
<1>4. claim.uid = work.claim.uid
  BY <1>2, <1>3 DEF NamesInv, OneName
<1>5. work.claim.want <= claim.alloc
  BY <1>1, <1>4 DEF Charged
<1>6. work.claim.want \in Sizes /\ claim.alloc \in Sizes /\ claim.want \in Sizes
  BY DEF TypeInv, TypeOK, Work, Claim
<1>7. /\ Larger(claim.want, claim.alloc) \in Sizes
      /\ work.claim.want <= Larger(claim.want, claim.alloc)
  <2>1. work.claim.want \in Nat /\ claim.alloc \in Nat /\ claim.want \in Nat
    BY <1>6, SizesRound
  <2> QED BY <1>5, <1>6, <2>1 DEF Larger
<1> QED BY <1>1, <1>6, <1>7, SizesRound

(* expandIfAsked charges before it extends: when Cinder is asked for a size, *)
(* the claim it is for, if it still exists, carries at least that size as    *)
(* its request or its allocation, after every retry and every restart.       *)
THEOREM ExtensionsAreCharged == Spec => ExtensionIsCharged
<1>1. Init => Charged
  BY Blanks DEF Init, Charged
<1>2. Spec => []Charged
  BY <1>1, NextCharged, NamesInvariant, PTL DEF Spec
<1>3. TypeInv /\ NamesInv /\ Charged /\ [Next]_vars =>
        [\A s \in StoreId :
           /\ store[s].status # "extending" /\ store'[s].status = "extending"
           /\ claim.uid # NoUID /\ pv[claim.uid].store = s
           => store'[s].target <= Gib(Larger(claim.want, claim.alloc))]_vars
  BY ExtensionStep
<1> QED BY <1>2, <1>3, NamesInvariant, PTL DEF Spec, ExtensionIsCharged

-----------------------------------------------------------------------------
(* Leaks.                                                                    *)

Leaks == {s \in StoreId : /\ store[s].status # "gone"
                          /\ \A u \in UID : pv[u].store # s
                          /\ ~ (work.op \in Making /\ work.store = s)}

(* Where no volume is swept, a step leaks nothing, or one piece of storage   *)
(* and is a fault.                                                           *)
LEMMA NextLeaks ==
    ASSUME TypeInv, sweep = {}, [Next]_vars
    PROVE  \/ Leaks' \subseteq Leaks /\ faults' \in {faults, faults + 1}
           \/ faults' = faults + 1 /\ \E s : Leaks' \subseteq Leaks \cup {s}
<1> USE DEF objects, caches
<1>a. \A s \in StoreId : store[s] \in Store
  BY DEF TypeInv, TypeOK
<1>b. \A op \in Ops : Goto(op) => work'.op = op /\ work'.store = work.store
  BY DEF Goto, TypeInv, TypeOK, Work
<1>c. Done => work'.op \notin Making
  BY Blanks DEF Done, Making
<1>1. ASSUME UNCHANGED pv, faults' \in {faults, faults + 1},
             \A s \in StoreId : store'[s].status # "gone" => store[s].status # "gone",
             work.op \in Making => work'.op \in Making /\ work'.store = work.store
      PROVE  Leaks' \subseteq Leaks
  BY <1>1 DEF Leaks
<1>2. CASE Reconcile \/ CallFails \/ UNCHANGED vars
  <2>1. UNCHANGED <<pv, store, faults>>
    BY <1>2 DEF Reconcile, ReconcileNothing, ReconcileProvisions, ReconcileExpands, Begin,
       ReconcileSettles, Restart, CallFails, vars
  <2>2. work' = work \/ work.op \notin Making
    BY <1>2 DEF Reconcile, ReconcileNothing, ReconcileProvisions, ReconcileExpands, Begin, Take,
       ReconcileSettles, Restart, CallFails, vars, Making
  <2> QED BY <1>1, <2>1, <2>2
<1>3. ASSUME NEW s \in StoreId, NewStore(s, Gib(work.claim.want)), UNCHANGED pv, work.op = "create",
             \/ work'.op \notin Making /\ faults' = faults + 1
             \/ work'.op \in Making /\ work'.store = s /\ faults' = faults
      PROVE  Leaks' \subseteq Leaks \cup (IF faults' = faults + 1 THEN {s} ELSE {})
  <2>1. \A t \in StoreId : t # s => store'[t] = store[t]
    BY <1>3 DEF NewStore, TypeInv, TypeOK
  <2>2. work.op \notin Making
    BY <1>3 DEF Making
  <2>3. faults \in Nat
    BY Bounds DEF TypeInv, TypeOK
  <2> QED BY <1>3, <2>1, <2>2, <2>3 DEF Leaks
<1>4. CASE provision
  <2>1. PICK s \in StoreId : /\ NewStore(s, Gib(work.claim.want))
                             /\ work' = [work EXCEPT !.op = "publish", !.store = s]
    BY <1>4 DEF provision
  <2>2. work'.op = "publish" /\ work'.store = s
    BY <2>1 DEF TypeInv, TypeOK, Work
  <2>3. faults' = faults /\ faults' # faults + 1
    BY <1>4, Bounds DEF provision, TypeInv, TypeOK
  <2> QED BY <1>3, <1>4, <2>1, <2>2, <2>3 DEF provision, Making
<1>5. CASE ProvisionAnswerLost
  BY <1>3, <1>5, <1>c DEF ProvisionAnswerLost, Fault, Retry
<1>6. CASE PublishVolume
  <2> DEFINE u == work.claim.uid
  <2>1. CASE Exists(u)
    BY <1>1, <1>6, <1>b, <2>1 DEF PublishVolume, Ops, Making
  <2>2. CASE ~ Exists(u)
    <3>1. pv' = [pv EXCEPT ![u] = [store |-> work.store, phase |-> "Available",
                                   size |-> store[work.store].size]]
      BY <1>6, <2>2 DEF PublishVolume
    <3>2. u \in UID /\ pv[u].store = 0 /\ UNCHANGED <<store, faults>>
      BY <1>6, <2>2 DEF PublishVolume, Exists, TypeInv, Shapes, WellMade
    <3>3. pv'[u].store = work.store /\ \A v \in UID : v # u => pv'[v] = pv[v]
      BY <3>1, <3>2 DEF TypeInv, TypeOK
    <3>4. Leaks' \subseteq Leaks
      BY <3>2, <3>3, Slots DEF Leaks
    <3> QED BY <3>2, <3>4
  <2> QED BY <2>1, <2>2
<1>7. CASE PublishFails
  BY <1>1, <1>7, <1>b DEF PublishFails, Ops, Making
<1>8. CASE UndoProvision
  <2>1. Remove(work.store) /\ UNCHANGED <<pv, faults>>
    BY <1>8 DEF UndoProvision
  <2>2. store'[work.store].status = "gone" /\ \A t \in StoreId : t # work.store => store'[t] = store[t]
    <3>1. work.store \in StoreId
      BY <1>8 DEF UndoProvision, TypeInv, Shapes, Making
    <3>2. store' = [store EXCEPT ![work.store] = [store[work.store] EXCEPT !.status = "gone"]]
      BY <2>1 DEF Remove
    <3> QED BY <1>a, <3>1, <3>2 DEF TypeInv, TypeOK, Store
  <2>3. Leaks' \subseteq Leaks
    BY <2>1, <2>2 DEF Leaks
  <2> QED BY <2>1, <2>3
<1>9. CASE UndoFails \/ Crash
  <2>1. faults' = faults + 1 /\ UNCHANGED <<pv, store>>
    BY <1>9 DEF UndoFails, Crash, Fault, Restart
  <2>2. Leaks' \subseteq Leaks \cup {work.store}
    BY <2>1 DEF Leaks
  <2> QED BY <2>1, <2>2
<1>10. CASE expandIfAsked
  <2>1. work.op \notin Making /\ UNCHANGED faults
    BY <1>10 DEF expandIfAsked, RecordInProgress, RecordNodeInProgress, RecordStep, Expand,
       ExpandRefused, awaitBlockSize, RecordInfeasible, recordVolumeSize, growFilesystems,
       recordClaimSize, Making
  <2>2. \A s \in StoreId : store'[s].status # "gone" => store[s].status # "gone"
    <3>1. CASE Expand
      <4>1. /\ Behind.status # "gone" /\ work.store \in StoreId
            /\ \/ store' = store
               \/ store' = [store EXCEPT ![work.store].status = "extending",
                                         ![work.store].target = Gib(work.claim.want)]
        BY <3>1 DEF Expand, TypeInv, Shapes, Expanding
      <4> QED BY <1>a, <4>1 DEF Behind, TypeInv, TypeOK
    <3>2. CASE store' = store
      BY <3>2
    <3> QED BY <1>10, <3>1, <3>2 DEF expandIfAsked, RecordInProgress, RecordNodeInProgress, RecordStep,
               ExpandRefused, awaitBlockSize, RecordInfeasible, recordVolumeSize, growFilesystems,
               recordClaimSize
  <2>3. \A u \in UID : pv'[u].store = pv[u].store
    <3>1. \A u \in UID : <<u, 0>> \notin sweep /\ \A s \in StoreId : <<u, s>> \notin sweep
      OBVIOUS
    <3>2. \A u \in UID : ~ Publishes(u, pv'[u].store)
      BY <2>1 DEF Publishes, Making
    <3> QED BY <1>10, <3>1, <3>2, ExpandMoves DEF Moves
  <2> QED BY <2>1, <2>2, <2>3 DEF Leaks
<1>11. CASE Sweeping
  BY <1>1, <1>11 DEF Sweeping, SweepReleased, SweepVolume, SweepFails
<1>12. CASE Environment /\ ~ Crash
  <2>1. UNCHANGED <<work, faults>>
    BY <1>12 DEF Environment, AddClaim, BindClaim, Release, CachePV, Resize, SchedulerSelects,
       RemoveClaim, CacheClaim, ResyncClaim, StoreExtends, StoreReset
  <2>2. \A s \in StoreId : store'[s].status # "gone" => store[s].status # "gone"
    BY <1>12 DEF Environment, AddClaim, BindClaim, Release, CachePV, Resize, SchedulerSelects,
       RemoveClaim, CacheClaim, ResyncClaim, StoreExtends, StoreReset, TypeInv, TypeOK
  <2>3. \A u \in UID : pv'[u].store = pv[u].store
    <3>1. \A u \in UID : \A s \in StoreId : <<u, s>> \notin sweep
      OBVIOUS
    <3>2. \A u \in UID : ~ Publishes(u, pv'[u].store)
      BY <2>1 DEF Publishes
    <3> QED BY <1>12, <3>1, <3>2, EnvironmentMoves DEF Moves
  <2> QED BY <2>1, <2>2, <2>3 DEF Leaks
<1> QED BY <1>2, <1>4, <1>5, <1>6, <1>7, <1>8, <1>9, <1>10, <1>11, <1>12
        DEF Next, Provisioning, Sweeping

LEMMA LeaksGrowWithFaults ==
    ASSUME TypeInv, sweep = {}, Cardinality(Leaks) <= faults, [Next]_vars
    PROVE  Cardinality(Leaks') <= faults'
<1>1. IsFiniteSet(Leaks) /\ IsFiniteSet(Leaks')
  <2>1. IsFiniteSet(StoreId)
    BY Bounds, FS_Interval DEF StoreId
  <2>2. Leaks \in SUBSET StoreId /\ Leaks' \in SUBSET StoreId
    BY DEF Leaks
  <2> QED BY <2>1, <2>2, FS_Subset
<1>2. Cardinality(Leaks) \in Nat /\ Cardinality(Leaks') \in Nat /\ faults \in Nat
  BY <1>1, FS_CardinalityType, Bounds DEF TypeInv, TypeOK
<1>3. CASE Leaks' \subseteq Leaks /\ faults' \in {faults, faults + 1}
  <2>1. Cardinality(Leaks') <= Cardinality(Leaks)
    BY <1>1, <1>3, FS_Subset
  <2> QED BY <1>2, <1>3, <2>1
<1>4. ASSUME faults' = faults + 1, NEW s, Leaks' \subseteq Leaks \cup {s}
      PROVE  Cardinality(Leaks') <= faults'
  <2> DEFINE more == Leaks \cup {s}
  <2>1. /\ IsFiniteSet(more)
        /\ Cardinality(more) = IF s \in Leaks THEN Cardinality(Leaks) ELSE Cardinality(Leaks) + 1
    BY <1>1, FS_AddElement
  <2>2. Leaks' \in SUBSET more
    BY <1>4
  <2> HIDE DEF more
  <2>3. Cardinality(Leaks') <= Cardinality(more)
    BY <2>1, <2>2, FS_Subset
  <2> QED BY <1>2, <1>4, <2>1, <2>3
<1> QED BY <1>3, <1>4, NextLeaks

(* Where every claim is retained, so that nothing is swept, storage that     *)
(* nothing names is only what a crash, a lost answer or a failed removal has *)
(* left, one piece each: a lost race (provision) pays its own bill.          *)
THEOREM LeaksAreFaults ==
    ASSUME Retain = UID PROVE Spec => []LeaksCounted
<1> DEFINE Counted == sweep = {} /\ Cardinality(Leaks) <= faults
<1>1. Init => Counted
  <2> SUFFICES ASSUME Init PROVE Counted
    OBVIOUS
  <2>1. Leaks = {}
    BY DEF Init, Leaks
  <2> QED BY <2>1, FS_EmptySet DEF Init
<1>2. TypeInv /\ Counted /\ [Next]_vars => Counted'
  <2> SUFFICES ASSUME TypeInv, Counted, [Next]_vars PROVE Counted'
    OBVIOUS
  <2>1. ~ SweepReleased
    BY DEF SweepReleased
  <2>2. sweep' = {}
    <3>1. \A u \in UID : \A s \in StoreId : <<u, s>> \notin sweep
      OBVIOUS
    <3>2. ~ Sweeping
      BY <2>1, <3>1 DEF Sweeping, SweepVolume, SweepFails
    <3>3. UNCHANGED sweep \/ sweep' = {}
      BY <3>2 DEF Next, Reconcile, ReconcileNothing, ReconcileProvisions, ReconcileExpands, Begin,
         ReconcileSettles, Restart, CallFails, vars, Provisioning, provision, ProvisionAnswerLost,
         PublishVolume, PublishFails, UndoProvision, UndoFails, expandIfAsked, RecordInProgress,
         RecordNodeInProgress, RecordStep, Expand, ExpandRefused, awaitBlockSize, RecordInfeasible,
         recordVolumeSize, growFilesystems, recordClaimSize, Sweeping, Environment, AddClaim,
         BindClaim, Release, CachePV, Resize, SchedulerSelects, RemoveClaim, CacheClaim, ResyncClaim,
         Crash, StoreExtends, StoreReset
    <3> QED BY <3>3
  <2> QED BY <2>2, LeaksGrowWithFaults
<1>3. Counted => LeaksCounted
  BY DEF Leaks, LeaksCounted, Making
<1>4. Spec => []TypeInv
  BY InitTypes, NextTypes, PTL DEF Spec
<1> HIDE DEF Counted
<1> QED BY <1>1, <1>2, <1>3, <1>4, PTL DEF Spec

=============================================================================
