---------------------------- MODULE ServiceProofs ----------------------------
(***************************************************************************)
(* Proofs about Service: its types, that a Service has one load balancer,  *)
(* and that neither the worker nor the sweep deletes one that a standing   *)
(* Service records, for any number of Services, pods, ports and faults.    *)
(***************************************************************************)
EXTENDS Service, FiniteSetTheorems, TLAPS

-----------------------------------------------------------------------------
(* The inductive invariant.                                                *)

(* Where the worker builds, where it tears down, and where it has a load   *)
(* balancer in hand.                                                       *)
Building == {"ensure", "byName", "publish", "status", "wait", "record", "port",
             "members", "address"}
Deleting == {"lookup", "release", "delete"}
Holding  == WorkerPC \ {"idle", "ensure", "byName", "lookup"}

(* What the types leave out: a step has the Service and the load balancer  *)
(* it is about, and what follows a wait is not a wait.                     *)
Shapes ==
    /\ w.pc # "idle" => w.s \in Service
    /\ w.pc \in Holding => w.lb \in LB
    /\ w.pc = "wait" => w.next \in {"record", "port", "address"}
    /\ w.pc \in {"publish", "status"} => w.next \in {"wait", "idle"}
    /\ g.pc # "idle" => g.id \in LB
    /\ \A i \in LB : Alive(i) => lbs[i].name \in Service
    /\ \A i \in LB : ~ Alive(i) => lbs[i].name = NoName
    /\ known => served = labelled

(* Load balancer i was made for Service s, and may be gone.                *)
MadeFor(i, s) == lbs[i].st # "unused" /\ (lbs[i].name = s \/ lbs[i].st = "gone")

(* Every record of a load balancer, in whatever copy of a Service or in    *)
(* the worker's hands, is of one made for that Service.                    *)
Traced(rec, s) ==
    \A i \in LB : rec.lbId = i \/ rec.addr = <<"vip", i>> => MadeFor(i, s)

Records ==
    /\ \A s \in Service : Traced(svc[s], s) /\ Traced(cache[s], s)
    /\ w.pc # "idle" => Traced(w.snap, w.s)
    /\ w.pc \in Holding => MadeFor(w.lb, w.s)
    /\ w.pc = "publish" => \A i \in LB : w.addr = <<"vip", i>> => MadeFor(i, w.s)

(* No two load balancers that exist bear one Service's name.               *)
OneNamed == \A s \in Service : \A i, j \in Named(s) : i = j

(* A copy that is the last version is the Service as it is, and the worker *)
(* builds only for a copy that stands.                                     *)
Standing(rec) == rec.kind # "absent" /\ ~ rec.deleting

Copies ==
    /\ \A s \in Service : fresh[s] => cache[s] = svc[s]
    /\ w.pc # "idle" /\ w.fresh => fresh[w.s] /\ w.snap = svc[w.s]
    /\ w.pc \in Building => Standing(w.snap)

(* A standing Service that records a load balancer is one the lister has   *)
(* as standing, and not one the worker is tearing down.                    *)
Recorded(s) ==
    /\ Standing(svc[s])
    /\ svc[s].lbId # 0 \/ svc[s].addr # None

Seen ==
    \A s \in Service : Recorded(s) => /\ Standing(cache[s])
                                      /\ ~ (w.s = s /\ w.pc \in Deleting)

(* What the sweep condemned stays condemned until the lister learns of it. *)
Judged ==
    g.pc # "idle" =>
        /\ lbs[g.id].st # "unused"
        /\ ~ relisted /\ Alive(g.id) => \/ lbs[g.id].name \notin labelled
                                        \/ cache[lbs[g.id].name].kind = "absent"

-----------------------------------------------------------------------------
(* Types.                                                                  *)

TypeInv == TypeOK /\ Shapes

WorkerRec == [pc: WorkerPC, s: Service \cup {NoName}, snap: SvcRec,
              fresh: BOOLEAN, copy: BOOLEAN, lb: LB \cup {0}, addr: Address,
              n: Ports, next: WorkerPC]

(* What a step of the worker keeps: its part of TypeInv.                   *)
WorkerOK ==
    /\ w \in WorkerRec
    /\ w.pc # "idle" => w.s \in Service
    /\ w.pc \in Holding => w.lb \in LB
    /\ w.pc = "wait" => w.next \in {"record", "port", "address"}
    /\ w.pc \in {"publish", "status"} => w.next \in {"wait", "idle"}

(* The load balancers' part.                                               *)
BalancersOK ==
    /\ lbs \in [LB -> LBRec] /\ fips \in 0..MaxFIPs
    /\ \A i \in LB : Alive(i) => lbs[i].name \in Service
    /\ \A i \in LB : ~ Alive(i) => lbs[i].name = NoName

(* The API server's and the lister's.                                      *)
StoredOK ==
    /\ svc \in [Service -> SvcRec] /\ cache \in [Service -> SvcRec]
    /\ fresh \in [Service -> BOOLEAN]

(* And the rest.                                                           *)
RestOK ==
    /\ labelled \subseteq Service /\ served \subseteq labelled
    /\ known \in BOOLEAN /\ queue \subseteq Service
    /\ known => served = labelled
    /\ pod \in [Pod -> Addr \cup {NoAddr}] /\ eps \in [Pod -> Addr \cup {NoAddr}]
    /\ subnets \in [Pod -> Subnet \cup {NoSubnet}]
    /\ g \in [pc: {"idle", "release", "delete"}, id: LB \cup {0}]
    /\ g.pc # "idle" => g.id \in LB
    /\ relisted \in BOOLEAN
    /\ events \in 0..MaxEvents

LEMMA TypeParts == TypeInv <=> WorkerOK /\ BalancersOK /\ StoredOK /\ RestOK
  BY DEF TypeInv, TypeOK, Shapes, WorkerOK, BalancersOK, StoredOK, RestOK, WorkerRec

LEMMA TypePartsNext == WorkerOK' /\ BalancersOK' /\ StoredOK' /\ RestOK' => TypeInv'
  BY DEF TypeInv, TypeOK, Shapes, WorkerOK, BalancersOK, StoredOK, RestOK, WorkerRec

LEMMA Numbers == MaxLBs \in Nat /\ MaxFIPs \in Nat /\ MaxEvents \in Nat /\ NPorts \in Nat /\ NPorts # 0
  BY ServiceConstants

LEMMA Names == /\ NoName \notin Service /\ NoAddr \notin Addr /\ NoSubnet \notin Subnet
               /\ Kinds \subseteq Kind /\ SubnetOf \in [Addr -> Subnet]
  BY ServiceConstants

LEMMA Addresses ==
    /\ None \in Address
    /\ \A i \in LB : <<"vip", i>> \in Address /\ <<"vip", i>> # None
    /\ \A n \in 1..MaxFIPs : <<"fip", n>> \in Address
    /\ 0 \notin LB /\ 1 \in Ports
    /\ \A n \in Ports : n # NPorts /\ n < NPorts => n + 1 \in Ports
  BY Numbers DEF Address, None, LB, Ports

LEMMA Blanks ==
    /\ Absent \in SvcRec /\ Absent.kind = "absent" /\ Absent.lbId = 0 /\ Absent.addr = None
    /\ Idle \in WorkerRec /\ Idle.pc = "idle" /\ Idle.s = NoName
    /\ Resting \in [pc: {"idle", "release", "delete"}, id: LB \cup {0}] /\ Resting.pc = "idle"
    /\ \A st \in {"unused", "pending", "gone"} :
         LBBlank(st) \in LBRec /\ LBBlank(st).st = st /\ LBBlank(st).name = NoName
<1>1. Absent \in SvcRec /\ Absent.kind = "absent" /\ Absent.lbId = 0 /\ Absent.addr = None
  BY Addresses DEF Absent, SvcRec
<1>2. Idle \in WorkerRec /\ Idle.pc = "idle" /\ Idle.s = NoName
  BY <1>1, Addresses DEF Idle, WorkerRec, WorkerPC
<1>3. Resting \in [pc: {"idle", "release", "delete"}, id: LB \cup {0}] /\ Resting.pc = "idle"
  BY DEF Resting
<1>4. ASSUME NEW st \in {"unused", "pending", "gone"}
      PROVE  LBBlank(st) \in LBRec /\ LBBlank(st).st = st /\ LBBlank(st).name = NoName
  <2>1. [n \in Ports |-> 0] \in [Ports -> 0..3] /\ [n \in Ports |-> {}] \in [Ports -> SUBSET Member]
    OBVIOUS
  <2>2. 0 \in 0..MaxFIPs
    BY Numbers
  <2> QED BY <2>1, <2>2 DEF LBBlank, LBRec
<1> QED BY <1>1, <1>2, <1>3, <1>4

LEMMA InitTypes == Init => TypeInv
<1> SUFFICES ASSUME Init PROVE WorkerOK /\ BalancersOK /\ StoredOK /\ RestOK
  BY TypeParts
<1>1. WorkerOK
  BY Blanks DEF Init, WorkerOK, Holding
<1>2. BalancersOK
  BY Blanks, Numbers DEF Init, BalancersOK, Alive
<1>3. StoredOK
  BY Blanks DEF Init, StoredOK
<1>4. RestOK
  <2>1. events \in 0..MaxEvents
    BY Numbers DEF Init
  <2>2. /\ pod \in [Pod -> Addr \cup {NoAddr}] /\ eps \in [Pod -> Addr \cup {NoAddr}]
        /\ subnets \in [Pod -> Subnet \cup {NoSubnet}]
    BY DEF Init
  <2>3. g \in [pc: {"idle", "release", "delete"}, id: LB \cup {0}] /\ g.pc = "idle"
    BY Blanks DEF Init
  <2> QED BY <2>1, <2>2, <2>3 DEF Init, RestOK
<1> QED BY <1>1, <1>2, <1>3, <1>4

(* Ends of a step of the worker.                                           *)
LEMMA SpendOK == ASSUME RestOK, Spend PROVE events' \in 0..MaxEvents
  BY Numbers DEF RestOK, Spend

LEMMA IdleOK == ASSUME w' = Idle PROVE WorkerOK'
  BY Blanks DEF WorkerOK, Holding

(* What the worker may leave behind: the next state new, or nothing.       *)
QueueOK == queue' \subseteq Service /\ events' \in 0..MaxEvents

LEMMA AnsweredOK ==
    ASSUME RestOK, w.s \in Service, NEW new, Answered(new)
    PROVE  QueueOK /\ (w' = new \/ w' = Idle)
  BY SpendOK DEF Answered, Goto, Fault, QueueOK, RestOK

LEMMA EndOK ==
    ASSUME RestOK, w.s \in Service, Succeed \/ Fail
    PROVE  QueueOK /\ w' = Idle
  BY DEF Succeed, Fail, QueueOK, RestOK

LEMMA GotoOK ==
    ASSUME RestOK, NEW new, Goto(new) PROVE QueueOK /\ w' = new
  BY DEF Goto, QueueOK, RestOK

(* The worker touches neither the sweep nor the namespaces nor the pods.   *)
LEMMA FrameOK ==
    ASSUME RestOK, QueueOK, WorkerFrame, subnets' \in [Pod -> Subnet \cup {NoSubnet}]
    PROVE  RestOK'
  BY DEF RestOK, QueueOK, WorkerFrame

(* A write of the worker's own copy.                                       *)
LEMMA UpdateOK ==
    ASSUME StoredOK, UNCHANGED cache, NEW new \in SvcRec, UpdateOwn(new) PROVE StoredOK'
  BY DEF StoredOK, UpdateOwn

(* A change of one load balancer that keeps its name and its life.         *)
LEMMA BalancerOK ==
    ASSUME BalancersOK, fips' \in 0..MaxFIPs, NEW i \in LB, NEW new \in LBRec,
           lbs' = [lbs EXCEPT ![i] = new],
           \/ new.name = lbs[i].name /\ (new.st \in {"unused", "gone"} <=> ~ Alive(i))
           \/ new.st \in {"unused", "gone"} /\ new.name = NoName
           \/ new.st \notin {"unused", "gone"} /\ new.name \in Service
    PROVE  BalancersOK'
<1>1. lbs' \in [LB -> LBRec]
  BY DEF BalancersOK
<1>2. \A j \in LB : lbs'[j] = IF j = i THEN new ELSE lbs[j]
  BY DEF BalancersOK
<1>3. \A j \in LB : /\ Alive(j)' <=> lbs'[j].st \notin {"unused", "gone"}
                    /\ Alive(j) <=> lbs[j].st \notin {"unused", "gone"}
  BY DEF Alive
<1> HIDE DEF Alive
<1> QED BY <1>1, <1>2, <1>3 DEF BalancersOK

LEMMA ReleaseOK ==
    ASSUME BalancersOK, NEW i \in LB, ReleaseFloatingIP(i), UNCHANGED fips PROVE BalancersOK'
<1> DEFINE new == [lbs[i] EXCEPT !.fip = 0]
<1>1. lbs[i] \in LBRec
  BY DEF BalancersOK
<1>2. new \in LBRec /\ new.name = lbs[i].name /\ new.st = lbs[i].st
  BY <1>1, Numbers DEF LBRec
<1>3. lbs' = [lbs EXCEPT ![i] = new] /\ fips' \in 0..MaxFIPs
  BY DEF ReleaseFloatingIP, BalancersOK
<1> HIDE DEF new
<1> QED BY <1>2, <1>3, BalancerOK DEF Alive

LEMMA StatusOK ==
    ASSUME BalancersOK, NEW i \in LB, NEW st \in {"pending", "active", "error", "deleting"}, Alive(i),
           lbs' = [lbs EXCEPT ![i].st = st], UNCHANGED fips
    PROVE  BalancersOK'
<1> DEFINE new == [lbs[i] EXCEPT !.st = st]
<1>1. lbs[i] \in LBRec
  BY DEF BalancersOK
<1>2. new \in LBRec /\ new.name = lbs[i].name /\ new.st = st
  BY <1>1 DEF LBRec
<1>3. lbs' = [lbs EXCEPT ![i] = new] /\ fips' \in 0..MaxFIPs
  BY DEF BalancersOK
<1> HIDE DEF new
<1> QED BY <1>2, <1>3, BalancerOK

LEMMA DeleteOK ==
    ASSUME BalancersOK, NEW i \in LB, DeleteLoadBalancer(i), UNCHANGED fips PROVE BalancersOK'
<1>1. CASE Deletable(i)
  BY <1>1, StatusOK DEF DeleteLoadBalancer, Deletable, Alive
<1>2. CASE ~ Deletable(i)
  BY <1>2 DEF DeleteLoadBalancer, BalancersOK, Alive
<1> QED BY <1>1, <1>2

LEMMA GoneOK ==
    ASSUME BalancersOK, NEW i \in LB, Gone(i), UNCHANGED fips PROVE BalancersOK'
  BY Blanks, BalancerOK DEF Gone, BalancersOK

(* A change that Octavia accepts leaves the load balancer provisioning.    *)
LEMMA ChangeOK ==
    ASSUME BalancersOK, RestOK, w.s \in Service, w.lb \in LB, UNCHANGED fips,
           NEW new \in LBRec, new.name = lbs[w.lb].name, NEW then, Change(new, then)
    PROVE  BalancersOK' /\ QueueOK /\ (w' = then \/ w' = Idle)
<1>1. CASE Fail /\ UNCHANGED lbs
  BY <1>1, EndOK DEF BalancersOK, Alive
<1>2. CASE /\ lbs[w.lb].st = "active" /\ Answered(then)
           /\ lbs' = [lbs EXCEPT ![w.lb] = [new EXCEPT !.st = "pending"]]
  <2> DEFINE put == [new EXCEPT !.st = "pending"]
  <2>1. put \in LBRec /\ put.name = lbs[w.lb].name /\ put.st = "pending"
    BY DEF LBRec
  <2>2. lbs' = [lbs EXCEPT ![w.lb] = put] /\ fips' \in 0..MaxFIPs
    BY <1>2 DEF BalancersOK
  <2> HIDE DEF put
  <2>3. Alive(w.lb)
    BY <1>2 DEF Alive
  <2> QED BY <1>2, <2>1, <2>2, <2>3, AnsweredOK, BalancerOK
<1> QED BY <1>1, <1>2 DEF Change

LEMMA AfterEarlyOK ==
    ASSUME WorkerOK, w.pc \in {"publish", "status"}
    PROVE  /\ (w' = AfterEarly => WorkerOK')
           /\ (w' = [AfterEarly EXCEPT !.fresh = FALSE] => WorkerOK')
<1>1. /\ AfterEarly \in WorkerRec /\ AfterEarly.s = w.s /\ AfterEarly.lb = w.lb
      /\ AfterEarly.pc = "wait" /\ AfterEarly.next = "record"
  BY Addresses DEF WorkerOK, WorkerRec, WorkerPC, AfterEarly
<1>2. /\ [AfterEarly EXCEPT !.fresh = FALSE] \in WorkerRec
      /\ [AfterEarly EXCEPT !.fresh = FALSE].s = w.s
      /\ [AfterEarly EXCEPT !.fresh = FALSE].lb = w.lb
      /\ [AfterEarly EXCEPT !.fresh = FALSE].pc = "wait"
      /\ [AfterEarly EXCEPT !.fresh = FALSE].next = "record"
  <2> HIDE DEF AfterEarly
  <2> QED BY <1>1 DEF WorkerRec
<1>3. w.s \in Service /\ w.lb \in LB
  BY DEF WorkerOK, Holding, WorkerPC
<1> QED BY <1>1, <1>2, <1>3 DEF WorkerOK

(* The worker reads the lister, or a call fails.                           *)
LEMMA TakeOK == ASSUME TypeInv, NEW s \in Service, Take(s) PROVE TypeInv'
<1> DEFINE new == [Idle EXCEPT !.s = s, !.snap = cache[s], !.fresh = fresh[s]]
<1>1. WorkerOK /\ BalancersOK /\ StoredOK /\ RestOK
  BY TypeParts
<1>2. new \in WorkerRec /\ new.s = s /\ new.pc = "idle"
  BY <1>1, Blanks DEF StoredOK, WorkerRec
<1>3. w' = Idle \/ \E pc \in {"lookup", "ensure"} : w' = [new EXCEPT !.pc = pc]
  BY DEF Take, Begin
<1> HIDE DEF new
<1>4. WorkerOK'
  <2>1. ASSUME NEW pc \in {"lookup", "ensure"}, w' = [new EXCEPT !.pc = pc] PROVE WorkerOK'
    <3>1. w' \in WorkerRec /\ w'.s = s /\ w'.pc = pc
      BY <1>2, <2>1 DEF WorkerRec, WorkerPC
    <3> QED BY <3>1 DEF WorkerOK, Holding
  <2> QED BY <1>3, <2>1, IdleOK
<1>5. BalancersOK' /\ StoredOK'
  BY <1>1 DEF Take, WorkerFrame, cloud, BalancersOK, StoredOK, Alive
<1>6. RestOK'
  BY <1>1, FrameOK DEF Take, QueueOK, RestOK
<1> QED BY <1>4, <1>5, <1>6, TypePartsNext

LEMMA CallFailsOK == ASSUME TypeInv, CallFails \/ Timeout PROVE TypeInv'
<1>1. WorkerOK /\ BalancersOK /\ StoredOK /\ RestOK
  BY TypeParts
<1>2. w.s \in Service
  BY <1>1 DEF CallFails, Timeout, WorkerOK
<1>3. WorkerOK'
  BY <1>1, AfterEarlyOK, IdleOK DEF CallFails, Timeout, EarlyPublish
<1>4. BalancersOK' /\ StoredOK'
  BY <1>1 DEF CallFails, Timeout, WorkerFrame, cloud, BalancersOK, StoredOK, Alive
<1>5. QueueOK
  BY <1>1, <1>2, SpendOK DEF CallFails, Timeout, Fault, QueueOK, RestOK
<1>6. RestOK'
  BY <1>1, <1>5, FrameOK DEF CallFails, Timeout, RestOK
<1> QED BY <1>3, <1>4, <1>6, TypePartsNext

LEMMA EnsureOK == ASSUME TypeInv, EnsureByID \/ EnsureByName PROVE TypeInv'
<1>1. WorkerOK /\ BalancersOK /\ StoredOK /\ RestOK
  BY TypeParts
<1>2. w.s \in Service /\ w \in WorkerRec /\ w.snap \in SvcRec
  BY <1>1 DEF EnsureByID, EnsureByName, WorkerOK, WorkerRec
<1>3. ASSUME NEW id \in LB, NEW next \in {"record", "port"},
             w' = [w EXCEPT !.pc = "wait", !.lb = id, !.next = next]
      PROVE  WorkerOK'
  <2>1. w' \in WorkerRec /\ w'.s = w.s /\ w'.pc = "wait" /\ w'.lb = id /\ w'.next = next
    BY <1>2, <1>3 DEF WorkerRec, WorkerPC
  <2> QED BY <1>2, <2>1 DEF WorkerOK
<1>4. ASSUME NEW id \in LB, w' = [w EXCEPT !.pc = "publish", !.lb = id, !.addr = <<"vip", id>>,
                                           !.next = "wait"]
      PROVE  WorkerOK'
  <2>1. w' \in WorkerRec /\ w'.s = w.s /\ w'.pc = "publish" /\ w'.lb = id /\ w'.next = "wait"
    BY <1>2, <1>4, Addresses DEF WorkerRec, WorkerPC
  <2> QED BY <1>2, <2>1 DEF WorkerOK
<1>5. subnets' = subnets /\ WorkerFrame /\ StoredOK'
  BY <1>1 DEF EnsureByID, EnsureByName, WorkerFrame, StoredOK
<1>6. CASE EnsureByID
  <2> DEFINE id == w.snap.lbId
  <2>1. WorkerOK'
    <3>1. id \in LB \cup {0}
      BY <1>2 DEF SvcRec
    <3>2. CASE id # 0 /\ Alive(id)
      BY <1>3, <1>6, <3>1, <3>2 DEF EnsureByID, Goto
    <3>3. CASE ~ (id # 0 /\ Alive(id))
      <4>1. w' = [w EXCEPT !.pc = "byName"]
        BY <1>6, <3>3 DEF EnsureByID, Goto
      <4>2. w' \in WorkerRec /\ w'.s = w.s /\ w'.pc = "byName"
        BY <1>2, <4>1 DEF WorkerRec, WorkerPC
      <4> QED BY <1>2, <4>2 DEF WorkerOK, Holding
    <3> QED BY <3>2, <3>3
  <2>2. QueueOK /\ BalancersOK'
    BY <1>1, <1>6 DEF EnsureByID, Goto, QueueOK, RestOK, cloud, BalancersOK, Alive
  <2> QED BY <1>1, <1>5, <2>1, <2>2, FrameOK, TypePartsNext DEF RestOK
<1>7. CASE EnsureByName
  <2>1. CASE UNCHANGED lbs /\ \E id \in Named(w.s) :
               Goto([w EXCEPT !.pc = "wait", !.lb = id, !.next = "record"])
    <3>1. WorkerOK' /\ QueueOK
      BY <1>1, <1>3, <2>1, GotoOK DEF Named
    <3>2. BalancersOK'
      BY <1>1, <1>7, <2>1 DEF EnsureByName, BalancersOK, Alive
    <3> QED BY <1>1, <1>5, <3>1, <3>2, FrameOK, TypePartsNext DEF RestOK
  <2>2. CASE UNCHANGED lbs /\ Fail
    <3>1. WorkerOK' /\ QueueOK
      BY <1>1, <1>2, <2>2, EndOK, IdleOK
    <3>2. BalancersOK'
      BY <1>1, <1>7, <2>2 DEF EnsureByName, BalancersOK, Alive
    <3> QED BY <1>1, <1>5, <3>1, <3>2, FrameOK, TypePartsNext DEF RestOK
  <2>3. ASSUME NEW id \in LB, lbs[id].st = "unused", CreateLB(id),
               Answered([w EXCEPT !.pc = "publish", !.lb = id, !.addr = <<"vip", id>>, !.next = "wait"])
        PROVE  TypeInv'
    <3>1. WorkerOK' /\ QueueOK
      BY <1>1, <1>2, <1>4, <2>3, AnsweredOK, IdleOK
    <3> DEFINE new == [LBBlank("pending") EXCEPT !.name = w.s]
    <3>2. new \in LBRec /\ new.name = w.s /\ new.st = "pending"
      <4>1. LBBlank("pending") \in LBRec /\ LBBlank("pending").st = "pending"
        BY Blanks
      <4> QED BY <1>2, <4>1 DEF LBRec
    <3>3. lbs' = [lbs EXCEPT ![id] = new] /\ fips' \in 0..MaxFIPs
      BY <1>1, <1>7, <2>3 DEF CreateLB, EnsureByName, BalancersOK
    <3> HIDE DEF new
    <3>4. BalancersOK'
      BY <1>1, <1>2, <3>2, <3>3, BalancerOK
    <3> QED BY <1>1, <1>5, <3>1, <3>4, FrameOK, TypePartsNext DEF RestOK
  <2> QED BY <1>7, <2>1, <2>2, <2>3 DEF EnsureByName, GetLoadBalancerByName
<1> QED BY <1>6, <1>7

(* A step of the worker that only moves its program counter.               *)
LEMMA MoveOK ==
    ASSUME WorkerOK, w.pc # "idle", NEW pc \in WorkerPC, w' = [w EXCEPT !.pc = pc],
           pc \in Holding => w.pc \in Holding,
           pc \notin {"wait", "publish", "status"} \/ (pc = "status" /\ w.pc = "publish")
    PROVE  WorkerOK'
<1>1. /\ w' \in WorkerRec /\ w'.pc = pc /\ w'.s = w.s /\ w'.lb = w.lb /\ w'.next = w.next
  BY DEF WorkerOK, WorkerRec
<1> QED BY <1>1 DEF WorkerOK

LEMMA WaitOK == ASSUME TypeInv, WaitActive PROVE TypeInv'
<1>1. WorkerOK /\ BalancersOK /\ StoredOK /\ RestOK
  BY TypeParts
<1>2. w.pc = "wait" /\ w.s \in Service /\ w.next \in {"record", "port", "address"}
  BY <1>1 DEF WaitActive, WorkerOK
<1>3. Goto([w EXCEPT !.pc = w.next]) \/ Fail
  BY DEF WaitActive
<1>4. WorkerOK' /\ QueueOK
  BY <1>1, <1>2, <1>3, MoveOK, GotoOK, EndOK, IdleOK DEF WorkerPC, Holding
<1>5. BalancersOK' /\ StoredOK'
  BY <1>1 DEF WaitActive, WorkerFrame, cloud, BalancersOK, StoredOK, Alive
<1> QED BY <1>1, <1>4, <1>5, FrameOK, TypePartsNext DEF WaitActive, RestOK

LEMMA RecordOK == ASSUME TypeInv, RecordLoadBalancerID PROVE TypeInv'
<1>1. WorkerOK /\ BalancersOK /\ StoredOK /\ RestOK
  BY TypeParts
<1>2. w.pc = "record" /\ w.s \in Service /\ w.lb \in LB /\ w \in WorkerRec /\ w.snap \in SvcRec
  BY <1>1 DEF RecordLoadBalancerID, WorkerOK, WorkerRec, WorkerPC, Holding
<1>3. CASE Goto([w EXCEPT !.pc = "port"]) /\ UNCHANGED <<svc, fresh>>
  <2>1. WorkerOK' /\ QueueOK
    BY <1>1, <1>2, <1>3, MoveOK, GotoOK DEF WorkerPC, Holding
  <2> QED BY <1>1, <1>3, <2>1, FrameOK, TypePartsNext DEF RecordLoadBalancerID, WorkerFrame, cloud,
             BalancersOK, StoredOK, Alive, RestOK
<1>4. CASE Fail /\ UNCHANGED <<svc, fresh>>
  <2>1. WorkerOK' /\ QueueOK
    BY <1>1, <1>2, <1>4, EndOK, IdleOK
  <2> QED BY <1>1, <1>4, <2>1, FrameOK, TypePartsNext DEF RecordLoadBalancerID, WorkerFrame, cloud,
             BalancersOK, StoredOK, Alive, RestOK
<1>5. CASE /\ UpdateOwn([w.snap EXCEPT !.lbId = w.lb])
           /\ Answered([w EXCEPT !.pc = "port", !.fresh = FALSE])
  <2>1. [w.snap EXCEPT !.lbId = w.lb] \in SvcRec
    BY <1>2 DEF SvcRec
  <2>2. StoredOK'
    BY <1>1, <1>5, <2>1, UpdateOK DEF RecordLoadBalancerID, WorkerFrame
  <2>3. w' = [w EXCEPT !.pc = "port", !.fresh = FALSE] => WorkerOK'
    <3> SUFFICES ASSUME w' = [w EXCEPT !.pc = "port", !.fresh = FALSE] PROVE WorkerOK'
      OBVIOUS
    <3>1. w' \in WorkerRec /\ w'.pc = "port" /\ w'.s = w.s /\ w'.lb = w.lb
      BY <1>2 DEF WorkerRec, WorkerPC
    <3> QED BY <1>2, <3>1 DEF WorkerOK
  <2>4. WorkerOK' /\ QueueOK
    BY <1>1, <1>2, <1>5, <2>3, AnsweredOK, IdleOK
  <2> QED BY <1>1, <2>2, <2>4, FrameOK, TypePartsNext DEF RecordLoadBalancerID, cloud,
             BalancersOK, Alive, RestOK
<1> QED BY <1>3, <1>4, <1>5 DEF RecordLoadBalancerID

LEMMA EnsurePortOK == ASSUME TypeInv, EnsurePort PROVE TypeInv'
<1>1. WorkerOK /\ BalancersOK /\ StoredOK /\ RestOK
  BY TypeParts
<1>2. w.pc = "port" /\ w.s \in Service /\ w.lb \in LB /\ w \in WorkerRec /\ w.n \in Ports
  BY <1>1 DEF EnsurePort, WorkerOK, WorkerRec, WorkerPC, Holding
<1>3. StoredOK' /\ WorkerFrame /\ subnets' = subnets /\ fips' = fips
  BY <1>1 DEF EnsurePort, WorkerFrame, StoredOK
<1>4. CASE lbs[w.lb].built[w.n] < 3
  <2> DEFINE new == [lbs[w.lb] EXCEPT !.built[w.n] = @ + 1]
             then == [w EXCEPT !.pc = "wait", !.next = "port"]
  <2>1. lbs[w.lb] \in LBRec
    BY <1>1, <1>2 DEF BalancersOK
  <2>2. new \in LBRec /\ new.name = lbs[w.lb].name
    <3>1. lbs[w.lb].built \in [Ports -> 0..3] /\ lbs[w.lb].built[w.n] + 1 \in 0..3
      BY <1>2, <1>4, <2>1 DEF LBRec
    <3>2. [lbs[w.lb].built EXCEPT ![w.n] = lbs[w.lb].built[w.n] + 1] \in [Ports -> 0..3]
      BY <1>2, <3>1
    <3>3. new = [lbs[w.lb] EXCEPT !.built = [lbs[w.lb].built EXCEPT ![w.n] = lbs[w.lb].built[w.n] + 1]]
      OBVIOUS
    <3> HIDE DEF new
    <3> QED BY <2>1, <3>2, <3>3 DEF LBRec
  <2>3. Change(new, then)
    BY <1>4 DEF EnsurePort
  <2>4. then \in WorkerRec /\ then.s = w.s /\ then.lb = w.lb /\ then.pc = "wait" /\ then.next = "port"
    BY <1>2 DEF WorkerRec, WorkerPC
  <2> HIDE DEF new, then
  <2>5. BalancersOK' /\ QueueOK /\ (w' = then \/ w' = Idle)
    BY <1>1, <1>2, <1>3, <2>2, <2>3, ChangeOK
  <2>6. WorkerOK'
    BY <1>2, <2>4, <2>5, IdleOK DEF WorkerOK
  <2> QED BY <1>1, <1>3, <2>5, <2>6, FrameOK, TypePartsNext DEF RestOK
<1>5. CASE ~ (lbs[w.lb].built[w.n] < 3)
  <2>1. Goto([w EXCEPT !.pc = "members"]) /\ UNCHANGED lbs
    BY <1>5 DEF EnsurePort
  <2>2. WorkerOK' /\ QueueOK
    BY <1>1, <1>2, <2>1, MoveOK, GotoOK DEF WorkerPC, Holding
  <2> QED BY <1>1, <1>3, <2>1, <2>2, FrameOK, TypePartsNext DEF BalancersOK, Alive, RestOK
<1> QED BY <1>4, <1>5

LEMMA AfterPortOK ==
    ASSUME WorkerOK, w.pc = "members"
    PROVE  /\ AfterPort \in WorkerRec /\ AfterPort.s = w.s /\ AfterPort.lb = w.lb
           /\ AfterPort.pc \in {"port", "address"}
           /\ AfterPut \in WorkerRec /\ AfterPut.s = w.s /\ AfterPut.lb = w.lb
           /\ AfterPut.pc = "wait" /\ AfterPut.next \in {"port", "address"}
<1>1. w \in WorkerRec /\ w.n \in Ports
  BY DEF WorkerOK, WorkerRec
<1>2. (IF w.n < NPorts THEN w.n + 1 ELSE w.n) \in Ports
  BY <1>1, Numbers DEF Ports
<1>3. (IF w.n < NPorts THEN "port" ELSE "address") \in {"port", "address"}
  OBVIOUS
<1>4. /\ AfterPort \in WorkerRec /\ AfterPort.s = w.s /\ AfterPort.lb = w.lb
      /\ AfterPort.pc \in {"port", "address"}
  BY <1>1, <1>2, <1>3 DEF AfterPort, WorkerRec, WorkerPC
<1>5. /\ AfterPut \in WorkerRec /\ AfterPut.s = w.s /\ AfterPut.lb = w.lb
      /\ AfterPut.pc = "wait" /\ AfterPut.next \in {"port", "address"}
  BY <1>4 DEF AfterPut, WorkerRec, WorkerPC
<1> QED BY <1>4, <1>5

(* What is looked up for a pod is a subnet, or none; a member has one.     *)
LEMMA SubnetsOK ==
    ASSUME RestOK
    PROVE  /\ \A p \in Pod : SubnetFor(p) \in Subnet \cup {NoSubnet}
           /\ \A P : Remember(P) => subnets' \in [Pod -> Subnet \cup {NoSubnet}]
           /\ (\A p \in Endpoints : SubnetFor(p) # NoSubnet) => BuildMembers \subseteq Member
<1>1. \A p \in Pod : SubnetFor(p) \in Subnet \cup {NoSubnet}
  BY Names DEF RestOK, SubnetFor
<1>2. \A P : Remember(P) => subnets' \in [Pod -> Subnet \cup {NoSubnet}]
  <2> HIDE DEF SubnetFor
  <2> QED BY <1>1 DEF Remember, RestOK
<1>3. ASSUME \A p \in Endpoints : SubnetFor(p) # NoSubnet PROVE BuildMembers \subseteq Member
  <2>1. \A p \in Endpoints : p \in Pod /\ eps[p] \in Addr /\ SubnetFor(p) \in Subnet
    BY <1>1, <1>3 DEF Endpoints, RestOK
  <2> HIDE DEF SubnetFor, Endpoints
  <2> QED BY <2>1 DEF BuildMembers, Member
<1> QED BY <1>1, <1>2, <1>3

LEMMA SetMembersOK == ASSUME TypeInv, SetMembers PROVE TypeInv'
<1>1. WorkerOK /\ BalancersOK /\ StoredOK /\ RestOK
  BY TypeParts
<1>2. w.pc = "members" /\ w.s \in Service /\ w.lb \in LB /\ w \in WorkerRec /\ w.n \in Ports
  BY <1>1 DEF SetMembers, WorkerOK, WorkerRec, WorkerPC, Holding
<1>3. StoredOK' /\ WorkerFrame /\ fips' = fips
  BY <1>1 DEF SetMembers, WorkerFrame, StoredOK
<1>4. subnets' \in [Pod -> Subnet \cup {NoSubnet}]
  BY <1>1, SubnetsOK DEF SetMembers
<1>5. /\ (w' = AfterPort => WorkerOK') /\ (w' = AfterPut => WorkerOK')
  BY <1>1, <1>2, AfterPortOK DEF WorkerOK
<1>6. CASE Fail /\ UNCHANGED lbs
  BY <1>1, <1>2, <1>3, <1>4, <1>6, EndOK, IdleOK, FrameOK, TypePartsNext DEF BalancersOK, Alive
<1>7. CASE Goto(AfterPort) /\ UNCHANGED lbs
  BY <1>1, <1>3, <1>4, <1>5, <1>7, GotoOK, FrameOK, TypePartsNext DEF BalancersOK, Alive
<1>8. CASE /\ \A p \in Endpoints : SubnetFor(p) # NoSubnet
           /\ Change([lbs[w.lb] EXCEPT !.members[w.n] = BuildMembers], AfterPut)
  <2> DEFINE new == [lbs[w.lb] EXCEPT !.members[w.n] = BuildMembers]
  <2>1. lbs[w.lb] \in LBRec /\ BuildMembers \subseteq Member
    BY <1>1, <1>2, <1>8, SubnetsOK DEF BalancersOK
  <2>2. new \in LBRec /\ new.name = lbs[w.lb].name
    <3>1. lbs[w.lb].members \in [Ports -> SUBSET Member]
      BY <2>1 DEF LBRec
    <3> HIDE DEF BuildMembers
    <3>2. [lbs[w.lb].members EXCEPT ![w.n] = BuildMembers] \in [Ports -> SUBSET Member]
      BY <1>2, <2>1, <3>1
    <3>3. new = [lbs[w.lb] EXCEPT !.members = [lbs[w.lb].members EXCEPT ![w.n] = BuildMembers]]
      OBVIOUS
    <3> HIDE DEF new
    <3> QED BY <2>1, <3>2, <3>3 DEF LBRec
  <2> HIDE DEF new
  <2>3. BalancersOK' /\ QueueOK /\ (w' = AfterPut \/ w' = Idle)
    BY <1>1, <1>2, <1>3, <1>8, <2>2, ChangeOK DEF new
  <2> QED BY <1>1, <1>3, <1>4, <1>5, <2>3, IdleOK, FrameOK, TypePartsNext
<1> QED BY <1>6, <1>7, <1>8 DEF SetMembers

LEMMA EnsureAddressOK == ASSUME TypeInv, EnsureAddress PROVE TypeInv'
<1>1. WorkerOK /\ BalancersOK /\ StoredOK /\ RestOK
  BY TypeParts
<1>2. w.pc = "address" /\ w.s \in Service /\ w.lb \in LB /\ w \in WorkerRec /\ lbs[w.lb] \in LBRec
  BY <1>1 DEF EnsureAddress, WorkerOK, WorkerRec, WorkerPC, Holding, BalancersOK
<1>3. StoredOK' /\ WorkerFrame /\ subnets' \in [Pod -> Subnet \cup {NoSubnet}]
  BY <1>1 DEF EnsureAddress, WorkerFrame, StoredOK, RestOK
<1>4. ASSUME NEW a \in Address, w' = [w EXCEPT !.pc = "publish", !.addr = a, !.next = "idle"]
      PROVE  WorkerOK'
  <2>1. w' \in WorkerRec /\ w'.s = w.s /\ w'.lb = w.lb /\ w'.pc = "publish" /\ w'.next = "idle"
    BY <1>2, <1>4 DEF WorkerRec, WorkerPC
  <2> QED BY <1>2, <2>1 DEF WorkerOK
<1>5. ASSUME lbs[w.lb].fip # 0,
             Goto([w EXCEPT !.pc = "publish", !.addr = <<"fip", lbs[w.lb].fip>>, !.next = "idle"]),
             UNCHANGED <<lbs, fips>>
      PROVE  TypeInv'
  <2>1. lbs[w.lb].fip \in 1..MaxFIPs
    BY <1>2, <1>5, Numbers DEF LBRec
  <2>2. <<"fip", lbs[w.lb].fip>> \in Address
    BY <2>1, Addresses
  <2>3. WorkerOK' /\ QueueOK
    BY <1>1, <1>4, <1>5, <2>2, GotoOK
  <2> QED BY <1>1, <1>3, <1>5, <2>3, FrameOK, TypePartsNext DEF BalancersOK, Alive
<1>6. ASSUME Fail, UNCHANGED <<lbs, fips>> PROVE TypeInv'
  BY <1>1, <1>2, <1>3, <1>6, EndOK, IdleOK, FrameOK, TypePartsNext DEF BalancersOK, Alive
<1>7. ASSUME NEW f \in 0..MaxFIPs, NEW a \in Address, lbs' = [lbs EXCEPT ![w.lb].fip = f],
             fips' \in 0..MaxFIPs,
             Answered([w EXCEPT !.pc = "publish", !.addr = a, !.next = "idle"])
      PROVE  TypeInv'
  <2> DEFINE new == [lbs[w.lb] EXCEPT !.fip = f]
  <2>1. new \in LBRec /\ new.name = lbs[w.lb].name /\ new.st = lbs[w.lb].st
    BY <1>2 DEF LBRec
  <2>2. lbs' = [lbs EXCEPT ![w.lb] = new]
    BY <1>7
  <2> HIDE DEF new
  <2>3. BalancersOK'
    BY <1>1, <1>2, <1>7, <2>1, <2>2, BalancerOK DEF Alive
  <2>4. WorkerOK' /\ QueueOK
    BY <1>1, <1>2, <1>4, <1>7, AnsweredOK, IdleOK
  <2> QED BY <1>1, <1>3, <2>3, <2>4, FrameOK, TypePartsNext
<1>8. fips < MaxFIPs => fips + 1 \in 0..MaxFIPs /\ <<"fip", fips + 1>> \in Address
  <2> SUFFICES ASSUME fips < MaxFIPs
               PROVE  fips + 1 \in 0..MaxFIPs /\ <<"fip", fips + 1>> \in Address
    OBVIOUS
  <2>1. fips + 1 \in 1..MaxFIPs
    BY <1>1, Numbers DEF BalancersOK
  <2> QED BY <2>1, Addresses, Numbers
<1>9. 0 \in 0..MaxFIPs /\ <<"vip", w.lb>> \in Address /\ fips \in 0..MaxFIPs
  BY <1>1, <1>2, Addresses, Numbers DEF BalancersOK
<1> QED BY <1>5, <1>6, <1>7, <1>8, <1>9 DEF EnsureAddress

LEMMA PublishOK == ASSUME TypeInv, PublishAnnotation \/ PublishStatus PROVE TypeInv'
<1>1. WorkerOK /\ BalancersOK /\ StoredOK /\ RestOK
  BY TypeParts
<1>2. /\ w.pc \in {"publish", "status"} /\ w.s \in Service /\ w.lb \in LB /\ w \in WorkerRec
      /\ w.snap \in SvcRec /\ w.addr \in Address /\ w.next \in {"wait", "idle"}
  BY <1>1 DEF PublishAnnotation, PublishStatus, WorkerOK, WorkerRec, WorkerPC, Holding
<1>3. /\ BalancersOK' /\ WorkerFrame /\ UNCHANGED cache
      /\ subnets' \in [Pod -> Subnet \cup {NoSubnet}]
  BY <1>1 DEF PublishAnnotation, PublishStatus, WorkerFrame, cloud, BalancersOK, Alive, RestOK
<1>4. Published \/ Refused => WorkerOK' /\ QueueOK
  BY <1>1, <1>2, AfterEarlyOK, GotoOK, EndOK, IdleOK DEF Published, Refused
<1>5. StoredOK'
  <2>1. CASE UNCHANGED <<svc, fresh>>
    BY <1>1, <1>3, <2>1 DEF StoredOK
  <2>2. CASE UpdateOwn([w.snap EXCEPT !.addr = w.addr])
    <3>1. [w.snap EXCEPT !.addr = w.addr] \in SvcRec
      BY <1>2 DEF SvcRec
    <3> QED BY <1>1, <1>3, <2>2, <3>1, UpdateOK
  <2>3. CASE UpdateOwn([svc[w.s] EXCEPT !.status = w.addr])
    <3>1. [svc[w.s] EXCEPT !.status = w.addr] \in SvcRec
      BY <1>1, <1>2 DEF SvcRec, StoredOK
    <3> QED BY <1>1, <1>3, <2>3, <3>1, UpdateOK
  <2> QED BY <2>1, <2>2, <2>3 DEF PublishAnnotation, PublishStatus
<1>6. ASSUME NEW new \in WorkerRec, new.pc = "status", new.s = w.s, new.lb = w.lb, new.next = w.next
      PROVE  Goto(new) \/ Lost(new) => WorkerOK' /\ QueueOK
  <2>1. w' = new => WorkerOK'
    BY <1>2, <1>6 DEF WorkerOK
  <2>2. Fault => events' \in 0..MaxEvents
    BY <1>1, SpendOK DEF Fault
  <2>3. Lost(new) /\ ~ Goto(new) => QueueOK
    BY <1>1, <1>2, <2>2 DEF Lost, QueueOK, RestOK
  <2>4. Lost(new) => Goto(new) \/ w' \in {[AfterEarly EXCEPT !.fresh = FALSE], Idle}
    BY DEF Lost
  <2> QED BY <1>1, <1>2, <2>1, <2>3, <2>4, GotoOK, AfterEarlyOK, IdleOK
<1>7. CASE PublishAnnotation
  <2> DEFINE same == [w EXCEPT !.pc = "status", !.copy = w.fresh]
             put  == [w EXCEPT !.pc = "status", !.fresh = FALSE, !.copy = TRUE]
  <2>1. same \in WorkerRec /\ same.pc = "status" /\ same.s = w.s /\ same.lb = w.lb /\ same.next = w.next
    BY <1>2 DEF WorkerRec, WorkerPC
  <2>2. put \in WorkerRec /\ put.pc = "status" /\ put.s = w.s /\ put.lb = w.lb /\ put.next = w.next
    BY <1>2 DEF WorkerRec, WorkerPC
  <2>3. Goto(same) \/ Refused \/ Lost(put)
    BY <1>7 DEF PublishAnnotation
  <2> HIDE DEF same, put
  <2>4. WorkerOK' /\ QueueOK
    BY <1>4, <1>6, <2>1, <2>2, <2>3
  <2> QED BY <1>1, <1>3, <1>5, <2>4, FrameOK, TypePartsNext
<1>8. CASE PublishStatus
  <2>1. \/ Published \/ Refused \/ Goto([AfterEarly EXCEPT !.fresh = FALSE]) \/ Answered(Idle)
    BY <1>8 DEF PublishStatus
  <2>2. WorkerOK' /\ QueueOK
    BY <1>1, <1>2, <1>4, <2>1, GotoOK, AnsweredOK, AfterEarlyOK, IdleOK
  <2> QED BY <1>1, <1>3, <1>5, <2>2, FrameOK, TypePartsNext
<1> QED BY <1>7, <1>8

LEMMA TearDownOK ==
    ASSUME TypeInv, LookupForDeletion \/ WorkerRelease \/ WorkerDelete PROVE TypeInv'
<1>1. WorkerOK /\ BalancersOK /\ StoredOK /\ RestOK
  BY TypeParts
<1>2. w.pc \in {"lookup", "release", "delete"} /\ w.s \in Service /\ w \in WorkerRec
  BY <1>1 DEF LookupForDeletion, WorkerRelease, WorkerDelete, WorkerOK
<1>3. StoredOK' /\ WorkerFrame /\ subnets' \in [Pod -> Subnet \cup {NoSubnet}] /\ UNCHANGED fips
  BY <1>1 DEF LookupForDeletion, WorkerRelease, WorkerDelete, WorkerFrame, StoredOK, RestOK, cloud
<1>4. CASE LookupForDeletion
  <2>1. BalancersOK'
    BY <1>1, <1>4 DEF LookupForDeletion, cloud, BalancersOK, Alive
  <2>2. \/ Succeed \/ Fail
        \/ \E id \in LB : Goto([w EXCEPT !.pc = "release", !.lb = id])
    <3>1. w.snap.lbId \in LB \cup {0}
      BY <1>2 DEF WorkerRec, SvcRec
    <3> QED BY <1>4, <3>1 DEF LookupForDeletion, GetLoadBalancerByName, Named
  <2>3. ASSUME NEW id \in LB, w' = [w EXCEPT !.pc = "release", !.lb = id] PROVE WorkerOK'
    <3>1. w' \in WorkerRec /\ w'.s = w.s /\ w'.lb = id /\ w'.pc = "release"
      BY <1>2, <2>3 DEF WorkerRec, WorkerPC
    <3> QED BY <1>2, <3>1 DEF WorkerOK
  <2>4. WorkerOK' /\ QueueOK
    BY <1>1, <1>2, <2>2, <2>3, EndOK, GotoOK, IdleOK
  <2> QED BY <1>1, <1>3, <2>1, <2>4, FrameOK, TypePartsNext
<1>5. CASE WorkerRelease
  <2>1. w.lb \in LB
    BY <1>1, <1>5 DEF WorkerRelease, WorkerOK, Holding, WorkerPC
  <2>2. BalancersOK'
    BY <1>1, <1>3, <1>5, <2>1, ReleaseOK DEF WorkerRelease
  <2>3. w' = [w EXCEPT !.pc = "delete"] \/ w' = Idle
    BY <1>1, <1>2, <1>5, AnsweredOK DEF WorkerRelease
  <2>4. w' = [w EXCEPT !.pc = "delete"] => WorkerOK'
    BY <1>1, <1>5, MoveOK DEF WorkerRelease, WorkerPC, Holding
  <2>5. QueueOK
    BY <1>1, <1>2, <1>5, AnsweredOK DEF WorkerRelease
  <2> QED BY <1>1, <1>3, <2>2, <2>3, <2>4, <2>5, IdleOK, FrameOK, TypePartsNext
<1>6. CASE WorkerDelete
  <2>1. w.lb \in LB
    BY <1>1, <1>6 DEF WorkerDelete, WorkerOK, Holding, WorkerPC
  <2>2. BalancersOK'
    BY <1>1, <1>3, <1>6, <2>1, DeleteOK DEF WorkerDelete
  <2>3. Answered(Idle) \/ Fail
    BY <1>6 DEF WorkerDelete
  <2>4. w' = Idle /\ QueueOK
    BY <1>1, <1>2, <2>3, AnsweredOK, EndOK
  <2> QED BY <1>1, <1>3, <2>2, <2>4, IdleOK, FrameOK, TypePartsNext
<1> QED BY <1>4, <1>5, <1>6

LEMMA SweepOK == ASSUME TypeInv, SweepStep \/ SweepFails PROVE TypeInv'
<1>1. WorkerOK /\ BalancersOK /\ StoredOK /\ RestOK
  BY TypeParts
<1>2. WorkerOK' /\ StoredOK'
  <2>1. SweepFrame
    BY DEF SweepStep, Sweep, SweepReleases, SweepDeletes, SweepFails
  <2> QED BY <1>1, <2>1 DEF SweepFrame, k8s, WorkerOK, StoredOK
<1>3. UNCHANGED <<labelled, proc, pods, fips>>
  BY DEF SweepStep, Sweep, SweepReleases, SweepDeletes, SweepFails, SweepFrame, k8s
<1>4. ASSUME g' \in [pc: {"idle", "release", "delete"}, id: LB \cup {0}],
             g'.pc # "idle" => g'.id \in LB,
             relisted' \in BOOLEAN, events' \in 0..MaxEvents
      PROVE  RestOK'
  BY <1>1, <1>3, <1>4 DEF RestOK, proc, pods
<1>5. ASSUME NEW i \in LB, Sweep(i) PROVE TypeInv'
  <2>1. BalancersOK'
    BY <1>1, <1>3, <1>5 DEF Sweep, BalancersOK, Alive
  <2>2. g' = [pc |-> "release", id |-> i] /\ relisted' = FALSE /\ events' = events
    BY <1>5 DEF Sweep
  <2>3. RestOK'
    BY <1>1, <1>4, <2>2 DEF RestOK
  <2> QED BY <1>2, <2>1, <2>3, TypePartsNext
<1>6. CASE SweepReleases
  <2>1. g.id \in LB /\ UNCHANGED <<relisted, events>> /\ g' = [g EXCEPT !.pc = "delete"]
    BY <1>1, <1>6 DEF SweepReleases, RestOK
  <2>2. BalancersOK'
    BY <1>1, <1>3, <1>6, <2>1, ReleaseOK DEF SweepReleases
  <2>3. RestOK'
    BY <1>1, <1>4, <2>1 DEF RestOK
  <2> QED BY <1>2, <2>2, <2>3, TypePartsNext
<1>7. CASE SweepDeletes
  <2>1. g.id \in LB /\ g' = Resting /\ relisted' = FALSE /\ events' = events
    BY <1>1, <1>7 DEF SweepDeletes, RestOK
  <2>2. BalancersOK'
    BY <1>1, <1>3, <1>7, <2>1, DeleteOK DEF SweepDeletes
  <2>3. RestOK'
    BY <1>1, <1>4, <2>1, Blanks DEF RestOK
  <2> QED BY <1>2, <2>2, <2>3, TypePartsNext
<1>8. CASE SweepFails
  <2>1. g' = Resting /\ relisted' = FALSE /\ events' \in 0..MaxEvents
    BY <1>1, <1>8, SpendOK DEF SweepFails, Fault
  <2>2. BalancersOK'
    BY <1>1, <1>3, <1>8 DEF SweepFails, BalancersOK, Alive
  <2>3. RestOK'
    BY <1>1, <1>4, <2>1, Blanks
  <2> QED BY <1>2, <2>2, <2>3, TypePartsNext
<1> QED BY <1>5, <1>6, <1>7, <1>8 DEF SweepStep

(* A write from elsewhere makes the worker's copy stale, and no more.      *)
LEMMA WriteOK ==
    ASSUME WorkerOK, StoredOK, UNCHANGED cache, NEW s \in Service, NEW new \in SvcRec, Write(s, new)
    PROVE  WorkerOK' /\ StoredOK'
<1>1. StoredOK'
  BY DEF StoredOK, Write
<1>2. WorkerOK'
  <2>1. CASE w' = w
    BY <2>1 DEF WorkerOK
  <2>2. CASE w' = [w EXCEPT !.fresh = FALSE, !.copy = FALSE]
    <3>1. /\ w' \in WorkerRec /\ w'.pc = w.pc /\ w'.s = w.s /\ w'.lb = w.lb /\ w'.next = w.next
      BY <2>2 DEF WorkerOK, WorkerRec
    <3> QED BY <3>1 DEF WorkerOK
  <2> QED BY <2>1, <2>2 DEF Write
<1> QED BY <1>1, <1>2

LEMMA TenantOK ==
    ASSUME TypeInv, NEW s \in Service, CreateService(s) \/ EditService(s) \/ DeleteService(s)
    PROVE  TypeInv'
<1>1. WorkerOK /\ BalancersOK /\ StoredOK /\ RestOK
  BY TypeParts
<1>2. \E new \in SvcRec : Write(s, new)
  <2>1. \A k \in Kind : [Absent EXCEPT !.kind = k] \in SvcRec
    BY Blanks DEF SvcRec
  <2>2. svc[s] \in SvcRec
    BY <1>1 DEF StoredOK
  <2>3. (\A k \in Kind : [svc[s] EXCEPT !.kind = k] \in SvcRec) /\ [svc[s] EXCEPT !.deleting = TRUE] \in SvcRec
    BY <2>2 DEF SvcRec
  <2> QED BY <2>1, <2>3, Blanks, Names DEF CreateService, EditService, DeleteService
<1>3. UNCHANGED <<cache, labelled, proc, pods, cloud, g, relisted>>
  BY DEF CreateService, EditService, DeleteService
<1>4. WorkerOK' /\ StoredOK'
  BY <1>1, <1>2, <1>3, WriteOK
<1>5. BalancersOK'
  BY <1>1, <1>3 DEF BalancersOK, Alive, cloud
<1>6. events' \in 0..MaxEvents
  BY <1>1, SpendOK DEF CreateService, EditService, DeleteService, RestOK
<1>7. RestOK'
  BY <1>1, <1>3, <1>6 DEF RestOK, proc, pods
<1> QED BY <1>4, <1>5, <1>7, TypePartsNext

LEMMA WatchesOK ==
    ASSUME TypeInv,
           \/ \E s \in Service : WatchService(s) \/ Unlabel(s)
           \/ \E p \in Pod : MovePod(p) \/ WatchEndpoint(p)
           \/ SyncNamespaces \/ Resync
    PROVE  TypeInv'
<1>1. WorkerOK /\ BalancersOK /\ StoredOK /\ RestOK
  BY TypeParts
<1>2. UNCHANGED <<svc, lbs, fips, w, g>>
  BY DEF WatchService, Unlabel, MovePod, WatchEndpoint, SyncNamespaces, Resync, k8s, cloud
<1>3. WorkerOK' /\ BalancersOK'
  BY <1>1, <1>2 DEF WorkerOK, BalancersOK, Alive
<1>4. ASSUME NEW s \in Service, WatchService(s) PROVE TypeInv'
  <2>1. StoredOK'
    BY <1>1, <1>4 DEF WatchService, StoredOK
  <2>2. RestOK'
    BY <1>1, <1>4 DEF WatchService, RestOK, pods
  <2> QED BY <1>3, <2>1, <2>2, TypePartsNext
<1>5. ASSUME NEW s \in Service, Unlabel(s) PROVE TypeInv'
  <2>1. StoredOK'
    BY <1>1, <1>5 DEF Unlabel, StoredOK
  <2>2. events' \in 0..MaxEvents
    BY <1>1, <1>5, SpendOK DEF Unlabel
  <2>3. RestOK'
    BY <1>1, <1>5, <2>2 DEF Unlabel, RestOK, pods
  <2> QED BY <1>3, <2>1, <2>3, TypePartsNext
<1>6. ASSUME NEW p \in Pod, MovePod(p) PROVE TypeInv'
  <2>1. StoredOK'
    BY <1>1, <1>6 DEF MovePod, StoredOK, k8s
  <2>2. events' \in 0..MaxEvents
    BY <1>1, <1>6, SpendOK DEF MovePod
  <2>3. RestOK'
    BY <1>1, <1>6, <2>2 DEF MovePod, RestOK, proc, k8s
  <2> QED BY <1>3, <2>1, <2>3, TypePartsNext
<1>7. ASSUME NEW p \in Pod, WatchEndpoint(p) PROVE TypeInv'
  <2>1. StoredOK'
    BY <1>1, <1>7 DEF WatchEndpoint, StoredOK, k8s
  <2>2. RestOK'
    BY <1>1, <1>7 DEF WatchEndpoint, RestOK, k8s
  <2> QED BY <1>3, <2>1, <2>2, TypePartsNext
<1>8. CASE SyncNamespaces
  <2>1. StoredOK'
    BY <1>1, <1>8 DEF SyncNamespaces, StoredOK, k8s
  <2>2. RestOK'
    BY <1>1, <1>8 DEF SyncNamespaces, RestOK, k8s, pods
  <2> QED BY <1>3, <2>1, <2>2, TypePartsNext
<1>9. CASE Resync
  <2>1. StoredOK'
    BY <1>1, <1>9 DEF Resync, StoredOK, k8s
  <2>2. RestOK'
    BY <1>1, <1>9 DEF Resync, RestOK, k8s, pods
  <2> QED BY <1>3, <2>1, <2>2, TypePartsNext
<1> QED BY <1>4, <1>5, <1>6, <1>7, <1>8, <1>9

LEMMA CloudOK ==
    ASSUME TypeInv, NEW i \in LB, Settle(i) \/ Remove(i) \/ Vanish(i) PROVE TypeInv'
<1>1. WorkerOK /\ BalancersOK /\ StoredOK /\ RestOK
  BY TypeParts
<1>2. UNCHANGED <<k8s, proc, pods, fips, w, g, relisted>>
  BY DEF Settle, Remove, Vanish, CloudFrame
<1>3. events' \in 0..MaxEvents
  BY <1>1, SpendOK DEF Settle, Remove, Vanish, CloudFrame, Fault, RestOK
<1>4. WorkerOK' /\ StoredOK'
  BY <1>1, <1>2 DEF WorkerOK, StoredOK, k8s
<1>5. RestOK'
  BY <1>1, <1>2, <1>3 DEF RestOK, k8s, proc, pods
<1>6. BalancersOK'
  <2>1. CASE Settle(i)
    <3>1. PICK st \in {"active", "error"} : lbs' = [lbs EXCEPT ![i].st = st]
      BY <2>1 DEF Settle
    <3>2. Alive(i)
      BY <2>1 DEF Settle, Alive
    <3> QED BY <1>1, <1>2, <3>1, <3>2, StatusOK
  <2>2. CASE Remove(i) \/ Vanish(i)
    BY <1>1, <1>2, <2>2, GoneOK DEF Remove, Vanish
  <2> QED BY <2>1, <2>2
<1> QED BY <1>4, <1>5, <1>6, TypePartsNext

LEMMA RestartOK == ASSUME TypeInv, Restart PROVE TypeInv'
<1>1. WorkerOK /\ BalancersOK /\ StoredOK /\ RestOK
  BY TypeParts
<1>2. WorkerOK'
  BY IdleOK DEF Restart
<1>3. BalancersOK' /\ StoredOK'
  BY <1>1 DEF Restart, cloud, BalancersOK, StoredOK, Alive
<1>4. events' \in 0..MaxEvents
  BY <1>1, SpendOK DEF Restart, Fault
<1>5. subnets' \in [Pod -> Subnet \cup {NoSubnet}] /\ g' = Resting /\ relisted' = FALSE
  BY DEF Restart
<1>6. RestOK'
  BY <1>1, <1>4, <1>5, Blanks DEF Restart, RestOK
<1> QED BY <1>2, <1>3, <1>6, TypePartsNext

LEMMA NextTypes == TypeInv /\ [Next]_vars => TypeInv'
<1> SUFFICES ASSUME TypeInv, [Next]_vars PROVE TypeInv'
  OBVIOUS
<1>1. CASE UNCHANGED vars
  BY <1>1 DEF vars, k8s, proc, pods, cloud, TypeInv, TypeOK, Shapes, Alive
<1>2. CASE WorkerStep
  BY <1>2, EnsureOK, WaitOK, RecordOK, EnsurePortOK, SetMembersOK, EnsureAddressOK, PublishOK,
     TearDownOK DEF WorkerStep
<1> QED
  BY <1>1, <1>2, TakeOK, CallFailsOK, SweepOK, TenantOK, WatchesOK, CloudOK, RestartOK DEF Next

(* Every variable keeps its type: the Services, the lister's and the       *)
(* worker's copies, the load balancers and their ports and members are     *)
(* well formed in every state of pkg/service, whatever fails or restarts.  *)
THEOREM TypeCorrect == Spec => []TypeOK
<1>1. Spec => []TypeInv
  BY InitTypes, NextTypes, PTL DEF Spec
<1>2. TypeInv => TypeOK
  BY DEF TypeInv
<1> QED BY <1>1, <1>2, PTL

-----------------------------------------------------------------------------
(* Load balancers.                                                         *)

(* What a step may do to a load balancer: change it without a change of    *)
(* its name or its life, put to deletion the one that the worker or the    *)
(* sweep has come to; make it, for a Service that has none; or end it.     *)
Stays(i) ==
    /\ lbs'[i].name = lbs[i].name
    /\ lbs'[i].st = "unused" <=> lbs[i].st = "unused"
    /\ lbs'[i].st = "gone" <=> lbs[i].st = "gone"
    /\ lbs'[i].st = "deleting" =>
         \/ lbs[i].st = "deleting"
         \/ lbs[i].st \in {"active", "error"} /\ w.pc = "delete" /\ w.lb = i
         \/ lbs[i].st \in {"active", "error"} /\ g.pc = "delete" /\ g.id = i

Made(i) ==
    /\ w.pc = "byName" /\ Named(w.s) = {} /\ lbs[i].st = "unused"
    /\ lbs'[i].name = w.s /\ lbs'[i].st = "pending"
    /\ \A j \in LB : j # i => lbs'[j] = lbs[j]

Ended(i) == lbs'[i].name = NoName /\ lbs'[i].st = "gone" /\ lbs[i].st # "unused"

BalancersMove == \A i \in LB : Stays(i) \/ Made(i) \/ Ended(i)

LEMMA SameBalancers == ASSUME UNCHANGED lbs PROVE BalancersMove
  BY DEF BalancersMove, Stays

(* One load balancer changes, others stay.                                 *)
LEMMA OneBalancer ==
    ASSUME BalancersOK, NEW i \in LB, NEW new, lbs' = [lbs EXCEPT ![i] = new],
           \/ new.name = lbs[i].name /\ (new.st = lbs[i].st \/ (lbs[i].st # "deleting" /\ Alive(i) /\ new.st \in {"pending", "active", "error"}))
           \/ /\ new.name = lbs[i].name /\ new.st = "deleting" /\ lbs[i].st \in {"active", "error"}
              /\ (w.pc = "delete" /\ w.lb = i) \/ (g.pc = "delete" /\ g.id = i)
           \/ new.name = NoName /\ new.st = "gone" /\ lbs[i].st # "unused"
    PROVE  BalancersMove
<1>1. \A j \in LB : lbs'[j] = IF j = i THEN new ELSE lbs[j]
  BY DEF BalancersOK
<1>2. ASSUME NEW j \in LB, j # i PROVE Stays(j)
  BY <1>1, <1>2 DEF Stays
<1>3. Stays(i) \/ Ended(i)
  <2>1. lbs'[i] = new
    BY <1>1
  <2> QED BY <2>1 DEF Stays, Ended, Alive
<1> QED BY <1>2, <1>3 DEF BalancersMove

LEMMA NextBalancers == ASSUME TypeInv, [Next]_vars PROVE BalancersMove
<1>a. WorkerOK /\ BalancersOK /\ StoredOK /\ RestOK
  BY TypeParts
<1>b. \A i \in LB : lbs[i] \in LBRec
  BY <1>a DEF BalancersOK
<1>1. CASE UNCHANGED lbs
  BY <1>1, SameBalancers
<1>2. ASSUME NEW i \in LB, NEW f, lbs' = [lbs EXCEPT ![i].fip = f] PROVE BalancersMove
  <2> DEFINE new == [lbs[i] EXCEPT !.fip = f]
  <2>1. new.name = lbs[i].name /\ new.st = lbs[i].st
    BY <1>b DEF LBRec
  <2>2. lbs' = [lbs EXCEPT ![i] = new]
    BY <1>2
  <2> HIDE DEF new
  <2> QED BY <1>a, <2>1, <2>2, OneBalancer
<1>3. ASSUME NEW i \in LB, DeleteLoadBalancer(i),
             (w.pc = "delete" /\ w.lb = i) \/ (g.pc = "delete" /\ g.id = i)
      PROVE  BalancersMove
  <2>1. CASE Deletable(i)
    <3> DEFINE new == [lbs[i] EXCEPT !.st = "deleting"]
    <3>1. new.name = lbs[i].name /\ new.st = "deleting"
      BY <1>b DEF LBRec
    <3>2. lbs' = [lbs EXCEPT ![i] = new]
      BY <1>3, <2>1 DEF DeleteLoadBalancer
    <3>3. lbs[i].st \in {"active", "error"}
      BY <2>1 DEF Deletable
    <3> HIDE DEF new
    <3> QED BY <1>3, <1>a, <3>1, <3>2, <3>3, OneBalancer
  <2>2. CASE ~ Deletable(i)
    BY <1>1, <1>3, <2>2 DEF DeleteLoadBalancer
  <2> QED BY <2>1, <2>2
<1>4. ASSUME NEW new \in LBRec, new.name = lbs[w.lb].name, w.lb \in LB, NEW then, Change(new, then)
      PROVE  BalancersMove
  <2>1. CASE UNCHANGED lbs
    BY <1>1, <2>1
  <2>2. CASE /\ lbs[w.lb].st = "active"
             /\ lbs' = [lbs EXCEPT ![w.lb] = [new EXCEPT !.st = "pending"]]
    <3> DEFINE put == [new EXCEPT !.st = "pending"]
    <3>1. put.name = lbs[w.lb].name /\ put.st = "pending"
      BY <1>4 DEF LBRec
    <3>2. lbs' = [lbs EXCEPT ![w.lb] = put] /\ Alive(w.lb) /\ lbs[w.lb].st # "deleting"
      BY <2>2 DEF Alive
    <3> HIDE DEF put
    <3> QED BY <1>4, <1>a, <3>1, <3>2, OneBalancer
  <2> QED BY <1>4, <2>1, <2>2 DEF Change
<1>5. CASE EnsureByName
  <2>1. ASSUME NEW id \in LB, lbs[id].st = "unused", Named(w.s) = {}, CreateLB(id) PROVE BalancersMove
    <3> DEFINE new == [LBBlank("pending") EXCEPT !.name = w.s]
    <3>1. lbs' = [lbs EXCEPT ![id] = new]
      BY <2>1 DEF CreateLB
    <3>2. new.name = w.s /\ new.st = "pending"
      BY Blanks DEF LBRec
    <3> HIDE DEF new
    <3>3. lbs'[id] = new /\ \A j \in LB : j # id => lbs'[j] = lbs[j]
      BY <1>a, <2>1, <3>1 DEF BalancersOK
    <3>4. Made(id)
      BY <1>5, <2>1, <3>2, <3>3 DEF Made, EnsureByName
    <3>5. \A j \in LB : j # id => Stays(j)
      BY <3>3 DEF Stays
    <3> QED BY <3>4, <3>5 DEF BalancersMove
  <2> QED BY <1>1, <1>5, <2>1 DEF EnsureByName, GetLoadBalancerByName
<1>6. CASE EnsurePort
  <2>1. w.lb \in LB /\ w.n \in Ports
    BY <1>6, <1>a DEF EnsurePort, WorkerOK, WorkerRec, Holding, WorkerPC
  <2> DEFINE new == [lbs[w.lb] EXCEPT !.built[w.n] = @ + 1]
  <2>2. CASE lbs[w.lb].built[w.n] < 3
    <3>1. new \in LBRec /\ new.name = lbs[w.lb].name
      <4>1. lbs[w.lb].built \in [Ports -> 0..3] /\ lbs[w.lb].built[w.n] + 1 \in 0..3
        BY <1>b, <2>1, <2>2 DEF LBRec
      <4>2. [lbs[w.lb].built EXCEPT ![w.n] = lbs[w.lb].built[w.n] + 1] \in [Ports -> 0..3]
        BY <2>1, <4>1
      <4>3. new = [lbs[w.lb] EXCEPT !.built = [lbs[w.lb].built EXCEPT ![w.n] = lbs[w.lb].built[w.n] + 1]]
        OBVIOUS
      <4> HIDE DEF new
      <4> QED BY <1>b, <2>1, <4>2, <4>3 DEF LBRec
    <3>2. Change(new, [w EXCEPT !.pc = "wait", !.next = "port"])
      BY <1>6, <2>2 DEF EnsurePort
    <3> HIDE DEF new
    <3> QED BY <1>4, <2>1, <3>1, <3>2
  <2> QED BY <1>1, <1>6, <2>2 DEF EnsurePort
<1>7. CASE SetMembers
  <2>1. w.lb \in LB /\ w.n \in Ports
    BY <1>7, <1>a DEF SetMembers, WorkerOK, WorkerRec, Holding, WorkerPC
  <2> DEFINE new == [lbs[w.lb] EXCEPT !.members[w.n] = BuildMembers]
  <2>2. CASE (\A p \in Endpoints : SubnetFor(p) # NoSubnet) /\ Change(new, AfterPut)
    <3>1. BuildMembers \subseteq Member
      BY <1>a, <2>2, SubnetsOK
    <3>2. new \in LBRec /\ new.name = lbs[w.lb].name
      <4>1. lbs[w.lb].members \in [Ports -> SUBSET Member]
        BY <1>b, <2>1 DEF LBRec
      <4> HIDE DEF BuildMembers
      <4>2. [lbs[w.lb].members EXCEPT ![w.n] = BuildMembers] \in [Ports -> SUBSET Member]
        BY <2>1, <3>1, <4>1
      <4>3. new = [lbs[w.lb] EXCEPT !.members = [lbs[w.lb].members EXCEPT ![w.n] = BuildMembers]]
        OBVIOUS
      <4> HIDE DEF new
      <4> QED BY <1>b, <2>1, <4>2, <4>3 DEF LBRec
    <3> HIDE DEF new
    <3> QED BY <1>4, <2>1, <2>2, <3>2
  <2> QED BY <1>1, <1>7, <2>2 DEF SetMembers
<1>8. CASE EnsureAddress
  <2>1. w.lb \in LB
    BY <1>8, <1>a DEF EnsureAddress, WorkerOK, Holding, WorkerPC
  <2>2. UNCHANGED lbs \/ \E f : lbs' = [lbs EXCEPT ![w.lb].fip = f]
    BY <1>8 DEF EnsureAddress
  <2> QED BY <1>1, <1>2, <2>1, <2>2
<1>9. CASE WorkerRelease \/ WorkerDelete
  <2>1. w.lb \in LB
    BY <1>9, <1>a DEF WorkerRelease, WorkerDelete, WorkerOK, Holding, WorkerPC
  <2> QED BY <1>2, <1>3, <1>9, <2>1 DEF WorkerRelease, WorkerDelete, ReleaseFloatingIP
<1>10. CASE SweepStep \/ SweepFails
  <2>1. CASE SweepReleases \/ SweepDeletes
    <3>1. g.id \in LB
      BY <2>1, <1>a DEF SweepReleases, SweepDeletes, RestOK
    <3> QED BY <1>2, <1>3, <2>1, <3>1 DEF SweepReleases, SweepDeletes, ReleaseFloatingIP
  <2> QED BY <1>1, <1>10, <2>1 DEF SweepStep, Sweep, SweepFails
<1>11. ASSUME NEW i \in LB, Settle(i) \/ Remove(i) \/ Vanish(i) PROVE BalancersMove
  <2>1. CASE Settle(i)
    <3>1. PICK st \in {"active", "error"} : lbs' = [lbs EXCEPT ![i].st = st]
      BY <2>1 DEF Settle
    <3> DEFINE new == [lbs[i] EXCEPT !.st = st]
    <3>2. new.name = lbs[i].name /\ new.st = st
      BY <1>b DEF LBRec
    <3>3. lbs' = [lbs EXCEPT ![i] = new] /\ Alive(i) /\ lbs[i].st # "deleting"
      BY <2>1, <3>1 DEF Settle, Alive
    <3> HIDE DEF new
    <3> QED BY <1>a, <3>2, <3>3, OneBalancer
  <2>2. CASE Remove(i) \/ Vanish(i)
    <3>1. lbs' = [lbs EXCEPT ![i] = LBBlank("gone")] /\ lbs[i].st # "unused"
      BY <2>2 DEF Remove, Vanish, Gone
    <3>2. LBBlank("gone").st = "gone" /\ LBBlank("gone").name = NoName
      BY Blanks
    <3> HIDE DEF LBBlank
    <3> QED BY <1>a, <3>1, <3>2, OneBalancer
  <2> QED BY <1>11, <2>1, <2>2
<1>12. CASE \/ \E s \in Service : \/ CreateService(s) \/ EditService(s) \/ DeleteService(s)
                                  \/ WatchService(s) \/ Unlabel(s) \/ Take(s)
            \/ \E p \in Pod : MovePod(p) \/ WatchEndpoint(p)
            \/ SyncNamespaces \/ Resync \/ Restart \/ CallFails \/ Timeout
            \/ EnsureByID \/ WaitActive \/ RecordLoadBalancerID \/ PublishAnnotation \/ PublishStatus
            \/ LookupForDeletion \/ UNCHANGED vars
  <2>1. UNCHANGED lbs
    BY <1>12 DEF CreateService, EditService, DeleteService, WatchService, Unlabel, Take, MovePod,
       WatchEndpoint, SyncNamespaces, Resync, Restart, CallFails, Timeout, EnsureByID, WaitActive,
       RecordLoadBalancerID, PublishAnnotation, PublishStatus, LookupForDeletion, vars, cloud
  <2> QED BY <1>1, <2>1
<1> QED BY <1>5, <1>6, <1>7, <1>8, <1>9, <1>10, <1>11, <1>12 DEF Next, WorkerStep

LEMMA InitNamed == ASSUME Init PROVE OneNamed
<1>1. \A i \in LB : ~ Alive(i)
  BY Blanks DEF Init, Alive
<1> QED BY <1>1 DEF OneNamed, Named

LEMMA NextNamed == ASSUME TypeInv, OneNamed, [Next]_vars PROVE OneNamed'
<1>1. BalancersMove /\ TypeInv'
  BY NextBalancers, NextTypes
<1> SUFFICES ASSUME NEW s \in Service, NEW i \in LB, NEW j \in LB,
                    lbs'[i].name = s, lbs'[j].name = s
             PROVE  i = j
  BY DEF OneNamed, Named
<1>2. NoName # s
  BY Names
<1>3. ASSUME NEW k \in LB, lbs'[k].name = s
      PROVE  k \in Named(s) \/ (Named(s) = {} /\ Made(k))
  <2>1. CASE Stays(k)
    <3>1. lbs[k].name = s
      BY <1>3, <2>1 DEF Stays
    <3>2. Alive(k)
      BY <3>1, <1>2 DEF TypeInv, Shapes
    <3> QED BY <3>1, <3>2 DEF Named
  <2>2. CASE Made(k)
    BY <1>3, <2>2 DEF Made
  <2> QED BY <1>1, <1>2, <1>3, <2>1, <2>2 DEF BalancersMove, Ended
<1>4. CASE i \in Named(s) /\ j \in Named(s)
  BY <1>4 DEF OneNamed
<1>5. CASE Made(i) /\ Made(j)
  <2>1. i = j \/ (lbs'[j] = lbs[j] /\ lbs[j].st = "unused" /\ lbs'[j].st = "pending")
    BY <1>5 DEF Made
  <2> QED BY <2>1
<1> QED BY <1>3, <1>4, <1>5

(* What two members at most being one says of a number.                    *)
LEMMA AtMostOne ==
    ASSUME NEW S \in SUBSET LB, \A i, j \in S : i = j PROVE Cardinality(S) <= 1
<1>1. CASE S = {}
  BY <1>1, FS_EmptySet
<1>2. CASE S # {}
  <2>1. PICK i \in S : TRUE
    BY <1>2
  <2>2. S = {i}
    BY <2>1
  <2> QED BY <2>2, FS_Singleton
<1> QED BY <1>1, <1>2

(* However often ensureLoadBalancer is begun again, after a lost answer, a *)
(* crash before the id was recorded, or a Service made anew under its old  *)
(* name, a Service never has two load balancers: one is made only by a     *)
(* worker that has just found none by the derived name.                    *)
THEOREM OneLoadBalancerEach == Spec => []OneLoadBalancer
<1>1. TypeInv /\ OneNamed /\ [Next]_vars => (TypeInv /\ OneNamed)'
  BY NextTypes, NextNamed
<1>2. Init => TypeInv /\ OneNamed
  BY InitTypes, InitNamed
<1>3. OneNamed => OneLoadBalancer
  <2> SUFFICES ASSUME OneNamed, NEW s \in Service PROVE Cardinality(Named(s)) <= 1
    BY DEF OneLoadBalancer
  <2>1. Named(s) \in SUBSET LB
    BY DEF Named
  <2>2. \A i, j \in Named(s) : i = j
    BY DEF OneNamed
  <2> HIDE DEF Named
  <2> QED BY <2>1, <2>2, AtMostOne
<1> QED BY <1>1, <1>2, <1>3, PTL DEF Spec

-----------------------------------------------------------------------------
(* A load balancer in use is kept.                                         *)

KeptInv == TypeInv /\ Records /\ Copies /\ Seen /\ Judged

(* Load balancer i is, after the step, one that was made for s.            *)
MadeForNext(i, s) == lbs'[i].st # "unused" /\ (lbs'[i].name = s \/ lbs'[i].st = "gone")

(* What a step may do to the copies of a Service: leave them, bring the    *)
(* lister up to date, rewrite the Service without a new record of a load   *)
(* balancer, or record the one the worker built, on its last copy.         *)
SameCopies(s) == svc'[s] = svc[s] /\ cache'[s] = cache[s] /\ fresh'[s] = fresh[s]

Listed(s) == svc'[s] = svc[s] /\ cache'[s] = svc[s]

Rewritten(s) ==
    /\ cache'[s] = cache[s] /\ ~ fresh'[s]
    /\ \/ svc'[s].lbId = 0 /\ svc'[s].addr = None
       \/ /\ svc'[s].lbId = svc[s].lbId /\ svc'[s].addr = svc[s].addr
          /\ Standing(svc'[s]) => Standing(svc[s])

OwnRecord(s) ==
    /\ w.pc \in {"record", "publish"} /\ w.s = s /\ w.fresh
    /\ cache'[s] = cache[s] /\ ~ fresh'[s]
    /\ svc'[s].lbId = w.snap.lbId \/ svc'[s].lbId = w.lb
    /\ svc'[s].addr = w.snap.addr \/ (w.pc = "publish" /\ svc'[s].addr = w.addr)

StoreMoves == \A s \in Service : SameCopies(s) \/ Listed(s) \/ Rewritten(s) \/ OwnRecord(s)

(* What it may do to the worker: leave it idle, begin with the lister's    *)
(* copy, or go on with what it has begun.                                  *)
Began ==
    /\ w.pc = "idle" /\ w'.s \in Service /\ w'.snap = cache[w'.s] /\ w'.fresh = fresh[w'.s]
    /\ UNCHANGED <<svc, cache, fresh>>
    /\ \/ w'.pc = "ensure" /\ Standing(cache[w'.s])
       \/ w'.pc = "lookup" /\ ~ Standing(cache[w'.s])

GoesOn ==
    /\ w.pc # "idle" /\ w'.s = w.s /\ w'.snap = w.snap
    /\ \/ w.pc \in Building /\ w'.pc \in Building
       \/ w.pc \in Deleting /\ w'.pc \in Deleting
    /\ w'.fresh => w.fresh /\ svc'[w.s] = svc[w.s] /\ (fresh[w.s] => fresh'[w.s])
    /\ w'.pc \in Holding => \/ w.pc \in Holding /\ w'.lb = w.lb
                            \/ MadeForNext(w'.lb, w.s)
    /\ w'.pc = "publish" => \/ w.pc = "publish" /\ w'.addr = w.addr
                            \/ \A i \in LB : w'.addr = <<"vip", i>> => i = w'.lb

WorkerMoves == w'.pc = "idle" \/ Began \/ GoesOn

(* And to the sweep: leave it idle, condemn a load balancer, or go on with *)
(* the one it condemned.                                                   *)
Condemns ==
    /\ g'.id \in LB /\ lbs[g'.id].st # "unused" /\ UNCHANGED <<lbs, cache, labelled>>
    /\ lbs[g'.id].name \notin labelled \/ cache[lbs[g'.id].name].kind = "absent"

Pursues ==
    /\ g.pc # "idle" /\ g'.id = g.id /\ labelled' \subseteq labelled
    /\ relisted => relisted'
    /\ \A s \in Service : /\ lbs[g.id].name = s /\ cache'[s] # cache[s]
                          => cache'[s].kind = "absent" \/ relisted'

SweepMoves == g'.pc = "idle" \/ Condemns \/ Pursues

(* What a load balancer was made for does not change.                      *)
LEMMA MadeForGood ==
    ASSUME TypeInv, BalancersMove, NEW i \in LB, NEW s \in Service, MadeFor(i, s)
    PROVE  MadeForNext(i, s)
  BY DEF BalancersMove, Stays, Made, Ended, MadeFor, MadeForNext

LEMMA RecordsStep ==
    ASSUME KeptInv, TypeInv', BalancersMove, StoreMoves, WorkerMoves PROVE Records'
<1> USE DEF KeptInv
<1>1. ASSUME NEW s \in Service, NEW i \in LB, svc'[s].lbId = i \/ svc'[s].addr = <<"vip", i>>
      PROVE  MadeForNext(i, s)
  <2>1. i # 0 /\ <<"vip", i>> # None
    BY Addresses
  <2>2. CASE svc'[s].lbId = svc[s].lbId /\ svc'[s].addr = svc[s].addr
    BY <1>1, <2>2, MadeForGood DEF Records, Traced
  <2>3. CASE OwnRecord(s)
    <3>1. Traced(w.snap, s) /\ MadeFor(w.lb, s) /\ w.lb \in LB
      BY <2>3 DEF OwnRecord, Records, Holding, WorkerPC, TypeInv, Shapes
    <3>2. w.pc = "publish" => (w.addr = <<"vip", i>> => MadeFor(i, s))
      BY <2>3 DEF OwnRecord, Records
    <3>3. MadeFor(i, s)
      BY <1>1, <2>3, <3>1, <3>2 DEF OwnRecord, Traced
    <3> QED BY <3>3, MadeForGood
  <2> QED BY <1>1, <2>1, <2>2, <2>3 DEF StoreMoves, SameCopies, Listed, Rewritten
<1>2. ASSUME NEW s \in Service, NEW i \in LB, cache'[s].lbId = i \/ cache'[s].addr = <<"vip", i>>
      PROVE  MadeForNext(i, s)
  <2>1. cache'[s] = cache[s] \/ cache'[s] = svc[s]
    BY DEF StoreMoves, SameCopies, Listed, Rewritten, OwnRecord
  <2> QED BY <1>2, <2>1, MadeForGood DEF Records, Traced
<1>3. ASSUME w'.pc # "idle", NEW i \in LB, w'.snap.lbId = i \/ w'.snap.addr = <<"vip", i>>
      PROVE  MadeForNext(i, w'.s)
  <2>1. CASE Began
    BY <1>3, <2>1, MadeForGood DEF Began, Records, Traced
  <2>2. CASE GoesOn
    <3>1. w.s \in Service /\ w'.s = w.s
      BY <2>2 DEF GoesOn, TypeInv, Shapes
    <3> QED BY <1>3, <2>2, <3>1, MadeForGood DEF GoesOn, Records, Traced
  <2> QED BY <1>3, <2>1, <2>2 DEF WorkerMoves
<1>4. w'.pc \in Holding => GoesOn /\ w.s \in Service /\ w'.s = w.s
  BY DEF WorkerMoves, Began, GoesOn, Holding, TypeInv, Shapes
<1>5. ASSUME w'.pc \in Holding PROVE MadeForNext(w'.lb, w'.s)
  <2>1. CASE w.pc \in Holding /\ w'.lb = w.lb
    <3>1. MadeFor(w.lb, w.s) /\ w.lb \in LB
      BY <2>1 DEF Records, TypeInv, Shapes
    <3>2. MadeForNext(w.lb, w.s)
      BY <1>4, <1>5, <2>1, <3>1, MadeForGood
    <3> QED BY <1>4, <1>5, <2>1, <3>2
  <2>2. CASE MadeForNext(w'.lb, w.s)
    BY <1>4, <1>5, <2>2
  <2> QED BY <1>4, <1>5, <2>1, <2>2 DEF GoesOn
<1>6. ASSUME w'.pc = "publish", NEW i \in LB, w'.addr = <<"vip", i>> PROVE MadeForNext(i, w'.s)
  <2>1. w'.pc \in Holding
    BY <1>6 DEF Holding, WorkerPC
  <2>2. CASE w.pc = "publish" /\ w'.addr = w.addr
    <3>1. MadeFor(i, w.s)
      BY <1>6, <2>2 DEF Records
    <3> QED BY <1>4, <2>1, <3>1, MadeForGood
  <2>3. CASE i = w'.lb
    BY <1>5, <2>1, <2>3
  <2> QED BY <1>4, <1>6, <2>1, <2>2, <2>3 DEF GoesOn
<1>7. /\ \A s \in Service, i \in LB : svc'[s].lbId = i \/ svc'[s].addr = <<"vip", i>> => MadeForNext(i, s)
      /\ \A s \in Service, i \in LB : cache'[s].lbId = i \/ cache'[s].addr = <<"vip", i>> => MadeForNext(i, s)
  BY <1>1, <1>2
<1>8. /\ w'.pc # "idle" => \A i \in LB : w'.snap.lbId = i \/ w'.snap.addr = <<"vip", i>> => MadeForNext(i, w'.s)
      /\ w'.pc \in Holding => MadeForNext(w'.lb, w'.s)
      /\ w'.pc = "publish" => \A i \in LB : w'.addr = <<"vip", i>> => MadeForNext(i, w'.s)
  BY <1>3, <1>5, <1>6
<1> QED BY <1>7, <1>8 DEF Records, Traced, MadeFor, MadeForNext

LEMMA CopiesStep ==
    ASSUME KeptInv, TypeInv', StoreMoves, WorkerMoves,
           \A s \in Service : fresh'[s] => SameCopies(s) \/ Listed(s)
    PROVE  Copies'
<1> USE DEF KeptInv
<1>1. \A s \in Service : fresh'[s] => cache'[s] = svc'[s]
  BY DEF Copies, SameCopies, Listed
<1>2. ASSUME w'.pc # "idle", w'.fresh PROVE fresh'[w'.s] /\ w'.snap = svc'[w'.s]
  <2>1. CASE Began
    BY <1>2, <2>1 DEF Began, Copies
  <2>2. CASE GoesOn
    BY <1>2, <2>2 DEF GoesOn, Copies
  <2> QED BY <1>2, <2>1, <2>2 DEF WorkerMoves
<1>3. w'.pc \in Building => Standing(w'.snap)
  BY DEF WorkerMoves, Began, GoesOn, Copies, Building, Deleting
<1> QED BY <1>1, <1>2, <1>3 DEF Copies

LEMMA SeenStep ==
    ASSUME KeptInv, TypeInv', StoreMoves, WorkerMoves,
           \A s \in Service : OwnRecord(s) => w'.pc \notin Deleting /\ Standing(w.snap)
    PROVE  Seen'
<1> USE DEF KeptInv
<1> SUFFICES ASSUME NEW s \in Service, Standing(svc'[s]), svc'[s].lbId # 0 \/ svc'[s].addr # None
             PROVE  Standing(cache'[s]) /\ ~ (w'.s = s /\ w'.pc \in Deleting)
  BY DEF Seen, Recorded, Standing
<1>1. CASE OwnRecord(s)
  <2>1. cache[s] = svc[s] /\ w.snap = svc[s]
    BY <1>1 DEF OwnRecord, Copies
  <2> QED BY <1>1, <2>1 DEF OwnRecord
<1>2. CASE ~ OwnRecord(s)
  <2>1. Recorded(s)
    BY <1>2 DEF StoreMoves, SameCopies, Listed, Rewritten, Recorded
  <2>2. Standing(cache[s]) /\ ~ (w.s = s /\ w.pc \in Deleting)
    BY <2>1 DEF Seen
  <2>3. Standing(cache'[s])
    BY <1>2, <2>1, <2>2 DEF StoreMoves, SameCopies, Listed, Rewritten, Recorded
  <2>4. ~ (w'.s = s /\ w'.pc \in Deleting)
    BY <2>2 DEF WorkerMoves, Began, GoesOn, Building, Deleting
  <2> QED BY <2>3, <2>4
<1> QED BY <1>1, <1>2

LEMMA JudgedStep ==
    ASSUME KeptInv, TypeInv', BalancersMove, SweepMoves PROVE Judged'
<1> USE DEF KeptInv
<1> SUFFICES ASSUME g'.pc # "idle"
             PROVE  /\ lbs'[g'.id].st # "unused"
                    /\ ~ relisted' /\ lbs'[g'.id].st \notin {"unused", "gone"} => \/ lbs'[g'.id].name \notin labelled'
                                                       \/ cache'[lbs'[g'.id].name].kind = "absent"
  BY DEF Judged, Alive
<1>1. CASE Condemns
  BY <1>1 DEF Condemns, Alive
<1>2. CASE Pursues
  <2>1. g.id \in LB /\ g'.id = g.id /\ lbs[g.id].st # "unused"
    BY <1>2 DEF Pursues, TypeInv, Shapes, Judged
  <2>2. lbs'[g.id].st # "unused"
    BY <2>1 DEF BalancersMove, Stays, Made, Ended
  <2>3. ASSUME ~ relisted', lbs'[g.id].st \notin {"unused", "gone"}
        PROVE  lbs'[g.id].name \notin labelled' \/ cache'[lbs'[g.id].name].kind = "absent"
    <3>1. Alive(g.id) /\ lbs'[g.id].name = lbs[g.id].name
      BY <2>1, <2>3 DEF BalancersMove, Stays, Made, Ended, Alive
    <3>2. lbs[g.id].name \in Service
      BY <2>1, <3>1 DEF TypeInv, Shapes
    <3>3. lbs[g.id].name \notin labelled \/ cache[lbs[g.id].name].kind = "absent"
      BY <1>2, <2>3, <3>1 DEF Pursues, Judged
    <3> QED BY <1>2, <2>3, <3>1, <3>2, <3>3 DEF Pursues
  <2> QED BY <2>1, <2>2, <2>3
<1> QED BY <1>1, <1>2 DEF SweepMoves

(* How each step moves.  KeptMoves is what the lemmas above ask for.       *)
KeptMoves ==
    /\ StoreMoves /\ WorkerMoves /\ SweepMoves
    /\ \A s \in Service : fresh'[s] => SameCopies(s) \/ Listed(s)
    /\ \A s \in Service : OwnRecord(s) => w'.pc \notin Deleting

(* The sweep goes on, or rests, with the lister as it was.                 *)
LEMMA SweepStays ==
    ASSUME TypeInv, UNCHANGED <<cache, g, relisted>>, labelled' \subseteq labelled
    PROVE  SweepMoves
  BY DEF SweepMoves, Pursues

LEMMA StoreStays ==
    ASSUME UNCHANGED <<svc, cache, fresh>>, WorkerMoves, w'.pc \in Deleting => w.pc \notin Building
    PROVE  /\ StoreMoves
           /\ \A s \in Service : fresh'[s] => SameCopies(s) \/ Listed(s)
           /\ \A s \in Service : OwnRecord(s) => w'.pc \notin Deleting
<1>1. \A s \in Service : SameCopies(s)
  BY DEF SameCopies
<1>2. \A s \in Service : OwnRecord(s) => w.pc \in Building
  BY DEF OwnRecord, Building
<1> QED BY <1>1, <1>2 DEF StoreMoves

(* The worker stays where it is.                                           *)
LEMMA WorkerStays ==
    ASSUME TypeInv, UNCHANGED <<svc, fresh, w>> PROVE WorkerMoves
<1>1. w.pc \in WorkerPC
  BY DEF TypeInv, TypeOK
<1>2. CASE w.pc # "idle"
  <2>1. w.pc \in Building \/ w.pc \in Deleting
    BY <1>1, <1>2 DEF WorkerPC, Building, Deleting
  <2> QED BY <1>2, <2>1 DEF WorkerMoves, GoesOn
<1> QED BY <1>2 DEF WorkerMoves

LEMMA QuietMoves ==
    ASSUME TypeInv, UNCHANGED <<svc, cache, fresh, w, g, relisted>>, labelled' \subseteq labelled
    PROVE  KeptMoves
<1>1. WorkerMoves /\ SweepMoves
  BY WorkerStays, SweepStays
<1>2. w'.pc \in Deleting => w.pc \notin Building
  BY DEF Deleting, Building
<1> QED BY <1>1, <1>2, StoreStays DEF KeptMoves

(* A tenant's write.                                                       *)
LEMMA WriteMoves ==
    ASSUME TypeInv, NEW s \in Service, NEW new \in SvcRec, Write(s, new),
           UNCHANGED <<cache, labelled, g, relisted>>,
           \/ new.lbId = 0 /\ new.addr = None
           \/ /\ new.lbId = svc[s].lbId /\ new.addr = svc[s].addr
              /\ Standing(new) => Standing(svc[s])
    PROVE  KeptMoves
<1>1. /\ svc'[s] = new /\ ~ fresh'[s]
      /\ \A r \in Service : r # s => svc'[r] = svc[r] /\ fresh'[r] = fresh[r]
  BY DEF Write, TypeInv, TypeOK
<1>2. Rewritten(s) /\ \A r \in Service : r # s => SameCopies(r)
  BY <1>1 DEF Rewritten, SameCopies
<1>3. w \in WorkerRec
  BY DEF TypeInv, TypeOK, WorkerRec
<1>4. /\ w'.pc = w.pc /\ w'.s = w.s /\ w'.snap = w.snap /\ w'.lb = w.lb /\ w'.addr = w.addr
      /\ w'.fresh => w.fresh /\ w.s # s
  BY <1>3 DEF Write, WorkerRec
<1>5. WorkerMoves
  <2>1. CASE w.pc # "idle"
    <3>1. w.s \in Service /\ (w.pc \in Building \/ w.pc \in Deleting)
      BY <2>1, <1>3 DEF TypeInv, Shapes, WorkerRec, WorkerPC, Building, Deleting
    <3>2. w'.fresh => w.fresh /\ svc'[w.s] = svc[w.s] /\ fresh'[w.s] = fresh[w.s]
      BY <1>1, <1>4, <3>1
    <3> QED BY <1>4, <2>1, <3>1, <3>2 DEF WorkerMoves, GoesOn
  <2> QED BY <1>4, <2>1 DEF WorkerMoves
<1>6. \A r \in Service : OwnRecord(r) => w'.pc \notin Deleting
  BY <1>4 DEF OwnRecord, Deleting
<1>7. SweepMoves
  BY SweepStays
<1> QED BY <1>1, <1>2, <1>5, <1>6, <1>7 DEF KeptMoves, StoreMoves

LEMMA TenantMoves ==
    ASSUME TypeInv, NEW s \in Service, CreateService(s) \/ EditService(s) \/ DeleteService(s)
    PROVE  KeptMoves
<1>1. svc[s] \in SvcRec /\ Kinds \subseteq Kind
  BY Names DEF TypeInv, TypeOK
<1>2. UNCHANGED <<cache, labelled, g, relisted>>
  BY DEF CreateService, EditService, DeleteService
<1>3. ASSUME NEW k \in Kind, Write(s, [Absent EXCEPT !.kind = k]) PROVE KeptMoves
  <2> DEFINE new == [Absent EXCEPT !.kind = k]
  <2>1. new \in SvcRec /\ new.lbId = 0 /\ new.addr = None
    BY Blanks DEF SvcRec
  <2> HIDE DEF new
  <2> QED BY <1>2, <1>3, <2>1, WriteMoves DEF new
<1>4. ASSUME NEW k \in Kind, Live(s), Write(s, [svc[s] EXCEPT !.kind = k]) PROVE KeptMoves
  <2> DEFINE new == [svc[s] EXCEPT !.kind = k]
  <2>1. /\ new \in SvcRec /\ new.lbId = svc[s].lbId /\ new.addr = svc[s].addr
        /\ Standing(new) => Standing(svc[s])
    BY <1>1, <1>4 DEF SvcRec, Standing, Live
  <2>2. Write(s, new)
    BY <1>4
  <2> HIDE DEF new
  <2> QED BY <1>2, <2>1, <2>2, WriteMoves
<1>5. ASSUME Write(s, Absent) PROVE KeptMoves
  BY <1>2, <1>5, Blanks, WriteMoves
<1>6. ASSUME Write(s, [svc[s] EXCEPT !.deleting = TRUE]) PROVE KeptMoves
  <2> DEFINE new == [svc[s] EXCEPT !.deleting = TRUE]
  <2>1. new \in SvcRec /\ new.lbId = svc[s].lbId /\ new.addr = svc[s].addr /\ ~ Standing(new)
    BY <1>1 DEF SvcRec, Standing
  <2>2. Write(s, new)
    BY <1>6
  <2> HIDE DEF new
  <2> QED BY <1>2, <2>1, <2>2, WriteMoves
<1>7. CASE CreateService(s)
  BY <1>1, <1>3, <1>7 DEF CreateService
<1>8. CASE EditService(s)
  BY <1>1, <1>4, <1>8 DEF EditService
<1>9. CASE DeleteService(s)
  BY <1>5, <1>6, <1>9 DEF DeleteService
<1> QED BY <1>7, <1>8, <1>9

(* The watch, and a restart.                                               *)
LEMMA WatchMoves == ASSUME TypeInv, NEW s \in Service, WatchService(s) PROVE KeptMoves
<1>1. /\ cache'[s] = svc[s] /\ svc' = svc /\ fresh'[s] = TRUE /\ w' = w /\ g' = g /\ labelled' = labelled
      /\ \A r \in Service : r # s => cache'[r] = cache[r] /\ fresh'[r] = fresh[r]
  BY DEF WatchService, TypeInv, TypeOK
<1>2. Listed(s) /\ \A r \in Service : r # s => SameCopies(r)
  BY <1>1 DEF Listed, SameCopies
<1>3. WorkerMoves
  <2>1. w.pc \in WorkerPC /\ (w.pc # "idle" => w.s \in Service)
    BY DEF TypeInv, TypeOK, Shapes
  <2>2. CASE w.pc # "idle"
    <3>1. w.pc \in Building \/ w.pc \in Deleting
      BY <2>1, <2>2 DEF WorkerPC, Building, Deleting
    <3>2. svc'[w.s] = svc[w.s] /\ (fresh[w.s] => fresh'[w.s])
      BY <1>1, <2>1, <2>2
    <3> QED BY <1>1, <2>2, <3>1, <3>2 DEF WorkerMoves, GoesOn
  <2> QED BY <1>1, <2>2 DEF WorkerMoves
<1>4. SweepMoves
  <2>1. CASE g.pc # "idle"
    <3>1. g.id \in LB /\ g.id # 0
      BY <2>1, Addresses DEF TypeInv, Shapes
    <3>2. relisted' = (relisted \/ (g.id # 0 /\ lbs[g.id].name = s /\ Live(s)))
      BY DEF WatchService
    <3>3. lbs[g.id].name = s => cache'[s].kind = "absent" \/ relisted'
      BY <1>1, <3>1, <3>2 DEF Live
    <3> QED BY <1>1, <2>1, <3>2, <3>3 DEF SweepMoves, Pursues
  <2> QED BY <1>1, <2>1 DEF SweepMoves
<1>5. \A r \in Service : OwnRecord(r) => w'.pc \notin Deleting
  BY <1>1 DEF OwnRecord, Deleting
<1> QED BY <1>2, <1>3, <1>4, <1>5 DEF KeptMoves, StoreMoves

LEMMA RestartMoves == ASSUME TypeInv, Restart PROVE KeptMoves
<1>1. \A s \in Service : Listed(s)
  BY DEF Restart, Listed
<1>2. w'.pc = "idle" /\ g'.pc = "idle"
  BY Blanks DEF Restart
<1> QED BY <1>1, <1>2 DEF KeptMoves, StoreMoves, WorkerMoves, SweepMoves, Deleting

(* The worker takes a Service up.                                          *)
LEMMA TakeMoves == ASSUME TypeInv, NEW s \in Service, Take(s) PROVE KeptMoves
<1> DEFINE new == [Idle EXCEPT !.s = s, !.snap = cache[s], !.fresh = fresh[s]]
<1>1. /\ UNCHANGED <<svc, cache, fresh, labelled, g, relisted>> /\ w.pc = "idle"
  BY DEF Take, WorkerFrame
<1>2. new \in WorkerRec /\ new.s = s /\ new.snap = cache[s] /\ new.fresh = fresh[s]
  BY Blanks DEF TypeInv, TypeOK, WorkerRec
<1>3. \/ w' = Idle
      \/ w' = [new EXCEPT !.pc = "lookup"] /\ ~ Standing(cache[s])
      \/ w' = [new EXCEPT !.pc = "ensure"] /\ Standing(cache[s])
  BY DEF Take, Begin, Standing
<1> HIDE DEF new
<1>4. WorkerMoves
  <2>1. ASSUME NEW pc \in {"lookup", "ensure"}, w' = [new EXCEPT !.pc = pc]
        PROVE  w'.pc = pc /\ w'.s = s /\ w'.snap = cache[s] /\ w'.fresh = fresh[s]
    BY <1>2, <2>1 DEF WorkerRec
  <2>2. w' = Idle => w'.pc = "idle"
    BY Blanks
  <2> QED BY <1>1, <1>3, <2>1, <2>2 DEF WorkerMoves, Began
<1>5. SweepMoves
  BY <1>1, SweepStays
<1> QED BY <1>1, <1>4, <1>5, StoreStays DEF KeptMoves, Building

(* The worker goes on without a write to the API server.                   *)
LEMMA WorkMoves ==
    ASSUME KeptInv, w.pc # "idle", WorkerFrame, UNCHANGED <<svc, fresh>>, WorkerMoves
    PROVE  KeptMoves
<1>1. UNCHANGED <<svc, cache, fresh, labelled, g, relisted>>
  BY DEF WorkerFrame
<1>2. w'.pc \in Deleting => w.pc \notin Building
  BY <1>1 DEF WorkerMoves, Began, GoesOn, Building, Deleting
<1>3. SweepMoves
  BY <1>1, SweepStays DEF KeptInv
<1> QED BY <1>1, <1>2, <1>3, StoreStays DEF KeptMoves

(* With another program counter and the rest as it was, or with a load     *)
(* balancer made for the Service in hand.                                  *)
LEMMA WorkerGoes ==
    ASSUME KeptInv, w.pc # "idle", UNCHANGED <<svc, fresh>>, w'.s = w.s, w'.snap = w.snap, w'.fresh = w.fresh,
           \/ w.pc \in Building /\ w'.pc \in Building
           \/ w.pc \in Deleting /\ w'.pc \in Deleting,
           \/ w'.pc \notin Holding
           \/ w.pc \in Holding /\ w'.lb = w.lb
           \/ MadeForNext(w'.lb, w.s),
           w'.pc = "publish" => \A i \in LB : w'.addr = <<"vip", i>> => i = w'.lb
    PROVE  WorkerMoves
  BY DEF WorkerMoves, GoesOn

LEMMA WorkerEnds == ASSUME w' = Idle PROVE WorkerMoves
  BY Blanks DEF WorkerMoves

LEMMA Vips == \A i, j : <<"vip", i>> = <<"vip", j>> => i = j
  OBVIOUS

LEMMA Fips == \A i, j : <<"fip", i>> # <<"vip", j>>
  OBVIOUS

LEMMA EnsureMoves == ASSUME KeptInv, EnsureByID \/ EnsureByName PROVE KeptMoves
<1>1. w \in WorkerRec /\ w.pc # "idle" /\ w.pc \in Building /\ w.s \in Service /\ w.snap \in SvcRec
  BY DEF KeptInv, TypeInv, TypeOK, Shapes, WorkerRec, EnsureByID, EnsureByName, Building
<1>2. WorkerFrame /\ UNCHANGED <<svc, fresh>>
  BY DEF EnsureByID, EnsureByName
<1>3. ASSUME NEW id \in LB, NEW next, MadeFor(id, w.s), UNCHANGED lbs,
             w' = [w EXCEPT !.pc = "wait", !.lb = id, !.next = next]
      PROVE  WorkerMoves
  <2>1. /\ w'.pc = "wait" /\ w'.lb = id /\ w'.s = w.s /\ w'.snap = w.snap /\ w'.fresh = w.fresh
    BY <1>1, <1>3 DEF WorkerRec
  <2>2. MadeForNext(w'.lb, w.s)
    BY <1>3, <2>1 DEF MadeFor, MadeForNext
  <2> QED BY <1>1, <1>2, <2>1, <2>2, WorkerGoes DEF Building
<1>4. CASE EnsureByID
  <2> DEFINE id == w.snap.lbId
  <2>1. CASE id # 0 /\ Alive(id)
    <3>1. id \in LB /\ MadeFor(id, w.s)
      BY <1>1, <2>1 DEF SvcRec, KeptInv, Records, Traced
    <3>2. w' = [w EXCEPT !.pc = "wait", !.lb = id, !.next = "port"] /\ UNCHANGED lbs
      BY <1>4, <2>1 DEF EnsureByID, Goto, cloud
    <3> QED BY <1>1, <1>2, <1>3, <3>1, <3>2, WorkMoves
  <2>2. CASE w' = [w EXCEPT !.pc = "byName"]
    <3>1. w'.pc = "byName" /\ w'.s = w.s /\ w'.snap = w.snap /\ w'.fresh = w.fresh
      BY <1>1, <2>2 DEF WorkerRec
    <3>2. WorkerMoves
      BY <1>1, <1>2, <3>1, WorkerGoes DEF Building, Holding
    <3> QED BY <1>1, <1>2, <3>2, WorkMoves
  <2> QED BY <1>4, <2>1, <2>2 DEF EnsureByID, Goto
<1>5. CASE EnsureByName
  <2>1. ASSUME NEW id \in Named(w.s), UNCHANGED lbs,
               w' = [w EXCEPT !.pc = "wait", !.lb = id, !.next = "record"]
        PROVE  WorkerMoves
    BY <1>3, <2>1 DEF Named, Alive, MadeFor
  <2>2. ASSUME NEW id \in LB, CreateLB(id),
               Answered([w EXCEPT !.pc = "publish", !.lb = id, !.addr = <<"vip", id>>, !.next = "wait"])
        PROVE  WorkerMoves
    <3> DEFINE new == [LBBlank("pending") EXCEPT !.name = w.s]
    <3>1. new.name = w.s /\ new.st = "pending"
      BY Blanks DEF LBRec
    <3>2. lbs' = [lbs EXCEPT ![id] = new]
      BY <2>2 DEF CreateLB
    <3> HIDE DEF new
    <3>3. MadeForNext(id, w.s)
      BY <3>1, <3>2 DEF MadeForNext, KeptInv, TypeInv, TypeOK
    <3>4. CASE w' = [w EXCEPT !.pc = "publish", !.lb = id, !.addr = <<"vip", id>>, !.next = "wait"]
      <4>1. /\ w'.pc = "publish" /\ w'.lb = id /\ w'.s = w.s /\ w'.snap = w.snap /\ w'.fresh = w.fresh
            /\ w'.addr = <<"vip", id>>
        BY <1>1, <3>4 DEF WorkerRec
      <4>2. \A i \in LB : w'.addr = <<"vip", i>> => i = w'.lb
        BY <4>1, Vips
      <4> QED BY <1>1, <1>2, <3>3, <4>1, <4>2, WorkerGoes DEF Building
    <3> QED BY <2>2, <3>4, WorkerEnds DEF Answered, Goto
  <2>3. WorkerMoves
    BY <1>5, <2>1, <2>2, WorkerEnds DEF EnsureByName, GetLoadBalancerByName, Goto, Fail
  <2> QED BY <1>1, <1>2, <2>3, WorkMoves
<1> QED BY <1>4, <1>5

(* What the worker holds at these steps.                                   *)
LEMMA HasBuilt ==
    ASSUME KeptInv, w.pc \in {"publish", "status", "wait", "record", "port", "members", "address"}
    PROVE  /\ w \in WorkerRec /\ w.s \in Service /\ w.pc # "idle" /\ w.pc \in Building
           /\ w.pc \in Holding /\ w.snap \in SvcRec
  BY DEF KeptInv, TypeInv, TypeOK, Shapes, WorkerRec, WorkerPC, Building, Holding

LEMMA BuildMoves ==
    ASSUME KeptInv, WaitActive \/ EnsurePort \/ SetMembers \/ EnsureAddress PROVE KeptMoves
<1>1. /\ w \in WorkerRec /\ w.s \in Service /\ w.pc # "idle" /\ w.pc \in Building
      /\ w.pc \in Holding /\ w.snap \in SvcRec
  BY HasBuilt DEF WaitActive, EnsurePort, SetMembers, EnsureAddress
<1>2. WorkerFrame /\ UNCHANGED <<svc, fresh>>
  BY DEF WaitActive, EnsurePort, SetMembers, EnsureAddress
<1> SUFFICES WorkerMoves
  BY <1>1, <1>2, WorkMoves
<1>3. ASSUME w'.s = w.s, w'.snap = w.snap, w'.fresh = w.fresh, w'.lb = w.lb,
             w'.pc \in {"wait", "record", "port", "members", "address"}
      PROVE  WorkerMoves
  BY <1>1, <1>2, <1>3, WorkerGoes DEF Building
<1>4. CASE WaitActive
  <2>1. w.next \in {"record", "port", "address"}
    BY <1>4 DEF WaitActive, KeptInv, TypeInv, Shapes
  <2>2. CASE w' = [w EXCEPT !.pc = w.next]
    <3>1. w'.s = w.s /\ w'.snap = w.snap /\ w'.fresh = w.fresh /\ w'.lb = w.lb /\ w'.pc = w.next
      BY <1>1, <2>2 DEF WorkerRec
    <3> QED BY <1>3, <2>1, <3>1
  <2> QED BY <1>4, <2>2, WorkerEnds DEF WaitActive, Goto, Fail
<1>5. CASE EnsurePort
  <2>1. \/ w' = Idle \/ w' = [w EXCEPT !.pc = "members"]
        \/ w' = [w EXCEPT !.pc = "wait", !.next = "port"]
    BY <1>5 DEF EnsurePort, Change, Answered, Goto, Fail
  <2>2. w' = Idle \/ /\ w'.s = w.s /\ w'.snap = w.snap /\ w'.fresh = w.fresh /\ w'.lb = w.lb
                     /\ w'.pc \in {"wait", "members"}
    BY <1>1, <2>1 DEF WorkerRec
  <2> QED BY <1>3, <2>2, WorkerEnds
<1>6. CASE SetMembers
  <2>1. w' = Idle \/ w' = AfterPort \/ w' = AfterPut
    BY <1>6 DEF SetMembers, Change, Answered, Goto, Fail
  <2>2. AfterPort \in WorkerRec /\ AfterPort.pc \in {"port", "address"}
    BY <1>6, AfterPortOK, TypeParts DEF KeptInv, SetMembers
  <2>3. /\ AfterPort.s = w.s /\ AfterPort.snap = w.snap /\ AfterPort.fresh = w.fresh
        /\ AfterPort.lb = w.lb
    BY <1>1 DEF AfterPort, WorkerRec
  <2>4. /\ AfterPut.s = w.s /\ AfterPut.snap = w.snap /\ AfterPut.fresh = w.fresh
        /\ AfterPut.lb = w.lb /\ AfterPut.pc = "wait"
    <3> HIDE DEF AfterPort
    <3> QED BY <2>2, <2>3 DEF AfterPut, WorkerRec
  <2> HIDE DEF AfterPort, AfterPut
  <2> QED BY <1>3, <2>1, <2>2, <2>3, <2>4, WorkerEnds
<1>7. CASE EnsureAddress
  <2>1. ASSUME NEW a, w' = [w EXCEPT !.pc = "publish", !.addr = a, !.next = "idle"],
               \A i \in LB : a = <<"vip", i>> => i = w.lb
        PROVE  WorkerMoves
    <3>1. /\ w'.s = w.s /\ w'.snap = w.snap /\ w'.fresh = w.fresh /\ w'.lb = w.lb
          /\ w'.pc = "publish" /\ w'.addr = a
      BY <1>1, <2>1 DEF WorkerRec
    <3> QED BY <1>1, <1>2, <2>1, <3>1, WorkerGoes DEF Building
  <2>2. \/ w' = Idle
        \/ w' = [w EXCEPT !.pc = "publish", !.addr = <<"fip", lbs[w.lb].fip>>, !.next = "idle"]
        \/ w' = [w EXCEPT !.pc = "publish", !.addr = <<"fip", fips + 1>>, !.next = "idle"]
        \/ w' = [w EXCEPT !.pc = "publish", !.addr = <<"vip", w.lb>>, !.next = "idle"]
    BY <1>7 DEF EnsureAddress, Answered, Goto, Fail
  <2>3. ASSUME NEW n, w' = [w EXCEPT !.pc = "publish", !.addr = <<"fip", n>>, !.next = "idle"]
        PROVE  WorkerMoves
    <3>1. \A i \in LB : <<"fip", n>> = <<"vip", i>> => i = w.lb
      BY Fips
    <3> QED BY <2>1, <2>3, <3>1
  <2>4. ASSUME w' = [w EXCEPT !.pc = "publish", !.addr = <<"vip", w.lb>>, !.next = "idle"]
        PROVE  WorkerMoves
    <3>1. \A i \in LB : <<"vip", w.lb>> = <<"vip", i>> => i = w.lb
      BY Vips
    <3> QED BY <2>1, <2>4, <3>1
  <2> QED BY <2>2, <2>3, <2>4, WorkerEnds
<1> QED BY <1>4, <1>5, <1>6, <1>7

LEMMA TearDownMoves ==
    ASSUME KeptInv, LookupForDeletion \/ WorkerRelease \/ WorkerDelete PROVE KeptMoves
<1>1. /\ w \in WorkerRec /\ w.s \in Service /\ w.pc # "idle" /\ w.pc \in Deleting /\ w.snap \in SvcRec
  BY DEF KeptInv, TypeInv, TypeOK, Shapes, WorkerRec, Deleting, LookupForDeletion, WorkerRelease,
         WorkerDelete
<1>2. WorkerFrame /\ UNCHANGED <<svc, fresh>>
  BY DEF LookupForDeletion, WorkerRelease, WorkerDelete
<1> SUFFICES WorkerMoves
  BY <1>1, <1>2, WorkMoves
<1>3. CASE LookupForDeletion
  <2>1. ASSUME NEW id, w' = [w EXCEPT !.pc = "release", !.lb = id],
               id \in Named(w.s) \/ (w.snap.lbId # 0 /\ id = w.snap.lbId)
        PROVE  WorkerMoves
    <3>1. id \in LB /\ MadeFor(id, w.s)
      BY <1>1, <2>1 DEF Named, Alive, MadeFor, SvcRec, KeptInv, Records, Traced
    <3>2. /\ w'.s = w.s /\ w'.snap = w.snap /\ w'.fresh = w.fresh /\ w'.lb = id /\ w'.pc = "release"
      BY <1>1, <2>1 DEF WorkerRec
    <3>3. MadeForNext(w'.lb, w.s)
      BY <1>3, <3>1, <3>2 DEF LookupForDeletion, cloud, MadeFor, MadeForNext
    <3> QED BY <1>1, <1>2, <3>2, <3>3, WorkerGoes DEF Deleting
  <2>2. \/ w' = Idle
        \/ \E id : /\ id \in Named(w.s) \/ (w.snap.lbId # 0 /\ id = w.snap.lbId)
                   /\ w' = [w EXCEPT !.pc = "release", !.lb = id]
    BY <1>3 DEF LookupForDeletion, GetLoadBalancerByName, Goto, Succeed, Fail
  <2> QED BY <2>1, <2>2, WorkerEnds
<1>4. CASE WorkerRelease
  <2>1. w' = Idle \/ w' = [w EXCEPT !.pc = "delete"]
    BY <1>4 DEF WorkerRelease, Answered, Goto
  <2>2. w' = Idle \/ /\ w'.s = w.s /\ w'.snap = w.snap /\ w'.fresh = w.fresh /\ w'.lb = w.lb
                     /\ w'.pc = "delete"
    BY <1>1, <2>1 DEF WorkerRec
  <2>3. w.pc \in Holding
    BY <1>4 DEF WorkerRelease, Holding, WorkerPC
  <2> QED BY <1>1, <1>2, <2>2, <2>3, WorkerEnds, WorkerGoes DEF Deleting
<1>5. CASE WorkerDelete
  BY <1>5, WorkerEnds DEF WorkerDelete, Answered, Goto, Fail
<1> QED BY <1>3, <1>4, <1>5

(* Early publishing that does not come off.                                *)
LEMMA AfterEarlyKeeps ==
    ASSUME KeptInv, w.pc \in {"publish", "status"}
    PROVE  /\ AfterEarly \in WorkerRec /\ AfterEarly.s = w.s /\ AfterEarly.snap = w.snap
           /\ AfterEarly.fresh = w.fresh /\ AfterEarly.lb = w.lb /\ AfterEarly.pc = "wait"
<1>1. w \in WorkerRec
  BY HasBuilt
<1> QED BY <1>1, Addresses DEF AfterEarly, WorkerRec, WorkerPC

LEMMA FailureMoves == ASSUME KeptInv, CallFails \/ Timeout PROVE KeptMoves
<1>1. w.pc # "idle" /\ WorkerFrame /\ UNCHANGED <<svc, fresh>>
  BY DEF CallFails, Timeout
<1>2. w' = Idle \/ (w' = AfterEarly /\ w.pc \in {"publish", "status"})
  BY DEF CallFails, Timeout, EarlyPublish
<1>3. CASE w' = AfterEarly /\ w.pc \in {"publish", "status"}
  <2>1. w.pc \in Building /\ w.pc \in Holding
    BY <1>3, HasBuilt
  <2>2. w'.s = w.s /\ w'.snap = w.snap /\ w'.fresh = w.fresh /\ w'.lb = w.lb /\ w'.pc = "wait"
    BY <1>3, AfterEarlyKeeps
  <2> QED BY <1>1, <2>1, <2>2, WorkerGoes, WorkMoves DEF Building
<1> QED BY <1>1, <1>2, <1>3, WorkerEnds, WorkMoves

(* The worker records what it built, on a copy that is the last version.   *)
LEMMA RecordMoves ==
    ASSUME KeptInv, WorkerFrame, NEW new, UpdateOwn(new), w.s \in Service,
           w.pc \in {"record", "publish", "status"},
           OwnRecord(w.s) \/ Rewritten(w.s),
           \/ w' = Idle
           \/ /\ w'.pc \in {"port", "status", "wait"} /\ ~ w'.fresh
              /\ w'.s = w.s /\ w'.snap = w.snap /\ w'.lb = w.lb
    PROVE  KeptMoves
<1>1. /\ UNCHANGED <<cache, labelled, g, relisted>> /\ ~ fresh'[w.s]
      /\ \A r \in Service : r # w.s => svc'[r] = svc[r] /\ fresh'[r] = fresh[r]
  BY DEF WorkerFrame, UpdateOwn, KeptInv, TypeInv, TypeOK
<1>2. \A r \in Service : r # w.s => SameCopies(r)
  BY <1>1 DEF SameCopies
<1>3. StoreMoves /\ \A r \in Service : fresh'[r] => SameCopies(r) \/ Listed(r)
  BY <1>1, <1>2 DEF StoreMoves
<1>4. w.pc \in Building /\ w.pc \in Holding /\ w.pc # "idle"
  BY HasBuilt
<1>5. WorkerMoves
  BY <1>4, WorkerEnds DEF WorkerMoves, GoesOn, Building
<1>6. w'.pc \notin Deleting
  BY Blanks DEF Deleting
<1> QED BY <1>1, <1>3, <1>5, <1>6, SweepStays DEF KeptMoves, KeptInv

LEMMA RecordsMove == ASSUME KeptInv, RecordLoadBalancerID PROVE KeptMoves
<1>1. /\ w \in WorkerRec /\ w.s \in Service /\ w.pc # "idle" /\ w.pc \in Building
      /\ w.pc \in Holding /\ w.snap \in SvcRec /\ WorkerFrame
  BY HasBuilt DEF RecordLoadBalancerID
<1>2. CASE UNCHANGED <<svc, fresh>> /\ (w' = Idle \/ w' = [w EXCEPT !.pc = "port"])
  <2>1. w' = Idle \/ /\ w'.s = w.s /\ w'.snap = w.snap /\ w'.fresh = w.fresh /\ w'.lb = w.lb
                     /\ w'.pc = "port"
    BY <1>1, <1>2 DEF WorkerRec
  <2>2. WorkerMoves
    BY <1>1, <1>2, <2>1, WorkerEnds, WorkerGoes DEF Building
  <2> QED BY <1>1, <1>2, <2>2, WorkMoves
<1>3. CASE /\ w.fresh /\ UpdateOwn([w.snap EXCEPT !.lbId = w.lb])
           /\ Answered([w EXCEPT !.pc = "port", !.fresh = FALSE])
  <2> DEFINE new == [w.snap EXCEPT !.lbId = w.lb]
  <2>1. new.lbId = w.lb /\ new.addr = w.snap.addr
    BY <1>1 DEF SvcRec
  <2>2. UpdateOwn(new)
    BY <1>3
  <2> HIDE DEF new
  <2>3. svc'[w.s] = new /\ ~ fresh'[w.s] /\ cache' = cache
    BY <1>1, <2>2 DEF UpdateOwn, WorkerFrame, KeptInv, TypeInv, TypeOK
  <2>4. OwnRecord(w.s)
    BY <1>3, <2>1, <2>3 DEF OwnRecord, RecordLoadBalancerID
  <2>5. w' = Idle \/ w' = [w EXCEPT !.pc = "port", !.fresh = FALSE]
    BY <1>3 DEF Answered, Goto
  <2>6. w' = Idle \/ /\ w'.pc = "port" /\ ~ w'.fresh
                     /\ w'.s = w.s /\ w'.snap = w.snap /\ w'.lb = w.lb
    BY <1>1, <2>5 DEF WorkerRec
  <2>7. w.pc = "record"
    BY DEF RecordLoadBalancerID
  <2> QED BY <1>1, <2>2, <2>4, <2>6, <2>7, RecordMoves
<1> QED BY <1>2, <1>3 DEF RecordLoadBalancerID, Goto, Fail

LEMMA PublishMoves == ASSUME KeptInv, PublishAnnotation \/ PublishStatus PROVE KeptMoves
<1>1. /\ w \in WorkerRec /\ w.s \in Service /\ w.pc # "idle" /\ w.pc \in Building
      /\ w.pc \in Holding /\ w.snap \in SvcRec /\ WorkerFrame /\ w.pc \in {"publish", "status"}
  BY HasBuilt DEF PublishAnnotation, PublishStatus
<1>2. /\ AfterEarly \in WorkerRec /\ AfterEarly.s = w.s /\ AfterEarly.snap = w.snap
      /\ AfterEarly.fresh = w.fresh /\ AfterEarly.lb = w.lb /\ AfterEarly.pc = "wait"
  BY <1>1, AfterEarlyKeeps
<1> DEFINE early == [AfterEarly EXCEPT !.fresh = FALSE]
<1>3. early.s = w.s /\ early.snap = w.snap /\ ~ early.fresh /\ early.lb = w.lb /\ early.pc = "wait"
  <2> HIDE DEF AfterEarly
  <2> QED BY <1>2 DEF WorkerRec
<1> HIDE DEF early, AfterEarly
<1>4. CASE /\ UNCHANGED <<svc, fresh>>
           /\ \/ w' = Idle \/ w' = AfterEarly
              \/ w' = [w EXCEPT !.pc = "status", !.copy = w.fresh]
  <2>1. w' = Idle \/ /\ w'.s = w.s /\ w'.snap = w.snap /\ w'.fresh = w.fresh /\ w'.lb = w.lb
                     /\ w'.pc \in {"wait", "status"}
    BY <1>1, <1>2, <1>4 DEF WorkerRec
  <2>2. WorkerMoves
    BY <1>1, <1>4, <2>1, WorkerEnds, WorkerGoes DEF Building
  <2> QED BY <1>1, <1>4, <2>2, WorkMoves
<1>5. CASE /\ w.pc = "publish" /\ w.fresh /\ UpdateOwn([w.snap EXCEPT !.addr = w.addr])
           /\ \/ w' = Idle \/ w' = early
              \/ w' = [w EXCEPT !.pc = "status", !.fresh = FALSE, !.copy = TRUE]
  <2> DEFINE new == [w.snap EXCEPT !.addr = w.addr]
  <2>1. new.lbId = w.snap.lbId /\ new.addr = w.addr
    BY <1>1 DEF SvcRec
  <2>2. UpdateOwn(new)
    BY <1>5
  <2> HIDE DEF new
  <2>3. svc'[w.s] = new /\ ~ fresh'[w.s] /\ cache' = cache
    BY <1>1, <2>2 DEF UpdateOwn, WorkerFrame, KeptInv, TypeInv, TypeOK
  <2>4. OwnRecord(w.s)
    BY <1>5, <2>1, <2>3 DEF OwnRecord
  <2>5. w' = Idle \/ /\ w'.pc \in {"status", "wait"} /\ ~ w'.fresh
                     /\ w'.s = w.s /\ w'.snap = w.snap /\ w'.lb = w.lb
    BY <1>1, <1>3, <1>5 DEF WorkerRec
  <2> QED BY <1>1, <2>2, <2>4, <2>5, RecordMoves
<1>6. CASE UpdateOwn([svc[w.s] EXCEPT !.status = w.addr]) /\ (w' = Idle \/ w' = early)
  <2> DEFINE new == [svc[w.s] EXCEPT !.status = w.addr]
  <2>1. svc[w.s] \in SvcRec
    BY <1>1 DEF KeptInv, TypeInv, TypeOK
  <2>2. /\ new.lbId = svc[w.s].lbId /\ new.addr = svc[w.s].addr
        /\ Standing(new) => Standing(svc[w.s])
    BY <2>1 DEF SvcRec, Standing
  <2>3. UpdateOwn(new)
    BY <1>6
  <2> HIDE DEF new
  <2>4. svc'[w.s] = new /\ ~ fresh'[w.s] /\ cache' = cache
    BY <1>1, <2>3 DEF UpdateOwn, WorkerFrame, KeptInv, TypeInv, TypeOK
  <2>5. Rewritten(w.s)
    BY <2>2, <2>4 DEF Rewritten
  <2> QED BY <1>1, <1>3, <1>6, <2>3, <2>5, RecordMoves
<1>7. CASE PublishAnnotation
  BY <1>4, <1>5, <1>7 DEF PublishAnnotation, Goto, Refused, Fail, Lost, early
<1>8. CASE PublishStatus
  BY <1>4, <1>6, <1>8 DEF PublishStatus, Published, Refused, Goto, Fail, Succeed, Answered, early
<1> QED BY <1>7, <1>8

(* The sweep.                                                              *)
LEMMA SweepsMove == ASSUME KeptInv, SweepStep \/ SweepFails PROVE KeptMoves
<1>1. UNCHANGED <<svc, cache, fresh, labelled, w>>
  BY DEF SweepStep, Sweep, SweepReleases, SweepDeletes, SweepFails, SweepFrame, k8s
<1>2. SweepMoves
  <2>1. CASE g' = Resting
    BY <2>1, Blanks DEF SweepMoves
  <2>2. ASSUME NEW i \in LB, Sweep(i) PROVE SweepMoves
    <3>1. g'.id = i /\ lbs[i].st # "unused" /\ UNCHANGED lbs
      BY <2>2 DEF Sweep, Alive
    <3>2. served = labelled
      BY <2>2 DEF Sweep, SweepBegins, KeptInv, TypeInv, Shapes
    <3> QED BY <1>1, <2>2, <3>1, <3>2 DEF SweepMoves, Condemns, Sweep, Condemned
  <2>3. CASE SweepReleases
    <3>1. g.pc # "idle" /\ g'.id = g.id /\ relisted' = relisted
      BY <2>3 DEF SweepReleases, KeptInv, TypeInv, TypeOK
    <3> QED BY <1>1, <3>1 DEF SweepMoves, Pursues
  <2> QED BY <2>1, <2>2, <2>3 DEF SweepStep, SweepDeletes, SweepFails
<1>3. WorkerMoves /\ (w'.pc \in Deleting => w.pc \notin Building)
  BY <1>1, WorkerStays DEF KeptInv, Deleting, Building
<1> QED BY <1>1, <1>2, <1>3, StoreStays DEF KeptMoves

LEMMA NextMoves == ASSUME KeptInv, [Next]_vars PROVE KeptMoves
<1> USE DEF KeptInv
<1>1. CASE \/ \E s \in Service : Unlabel(s)
           \/ \E p \in Pod : MovePod(p) \/ WatchEndpoint(p)
           \/ \E i \in LB : Settle(i) \/ Remove(i) \/ Vanish(i)
           \/ SyncNamespaces \/ Resync \/ UNCHANGED vars
  <2>1. UNCHANGED <<svc, cache, fresh, w, g, relisted>> /\ labelled' \subseteq labelled
    BY <1>1 DEF Unlabel, MovePod, WatchEndpoint, Settle, Remove, Vanish, SyncNamespaces, Resync,
       CloudFrame, k8s, vars
  <2> QED BY <2>1, QuietMoves
<1>2. ASSUME NEW s \in Service,
             \/ CreateService(s) \/ EditService(s) \/ DeleteService(s)
             \/ WatchService(s) \/ Take(s)
      PROVE  KeptMoves
  BY <1>2, TenantMoves, WatchMoves, TakeMoves
<1>3. CASE WorkerStep \/ CallFails \/ Timeout \/ Restart \/ SweepStep \/ SweepFails
  BY <1>3, EnsureMoves, BuildMoves, TearDownMoves, FailureMoves, RecordsMove, PublishMoves,
     SweepsMove, RestartMoves DEF WorkerStep
<1> QED BY <1>1, <1>2, <1>3 DEF Next

LEMMA NextKept == KeptInv /\ [Next]_vars => KeptInv'
<1> SUFFICES ASSUME KeptInv, [Next]_vars PROVE KeptInv'
  OBVIOUS
<1>1. TypeInv' /\ BalancersMove /\ KeptMoves
  BY NextTypes, NextBalancers, NextMoves DEF KeptInv
<1>2. \A s \in Service : OwnRecord(s) => w'.pc \notin Deleting /\ Standing(w.snap)
  BY <1>1 DEF KeptMoves, OwnRecord, KeptInv, Copies, Building
<1> QED BY <1>1, <1>2, RecordsStep, CopiesStep, SeenStep, JudgedStep DEF KeptMoves, KeptInv

LEMMA InitKept == Init => KeptInv
<1> SUFFICES ASSUME Init PROVE KeptInv
  OBVIOUS
<1>1. TypeInv
  BY InitTypes
<1>2. w.pc = "idle" /\ g.pc = "idle"
  BY Blanks DEF Init
<1>3. /\ \A s \in Service : svc[s] = Absent /\ cache[s] = Absent
      /\ Absent.kind = "absent" /\ Absent.lbId = 0 /\ Absent.addr = None
  BY Blanks DEF Init
<1>4. \A i \in LB : i # 0 /\ <<"vip", i>> # None
  BY Addresses
<1> HIDE DEF Absent
<1>5. Records
  BY <1>2, <1>3, <1>4 DEF Records, Traced, Holding
<1>6. Copies /\ Seen /\ Judged
  BY <1>2, <1>3 DEF Copies, Seen, Judged, Recorded, Standing, Building
<1> QED BY <1>1, <1>5, <1>6 DEF KeptInv

(* No step of the worker or of the sweep puts to deletion a load balancer  *)
(* that a standing Service of this tenant's records, except in the window  *)
(* sweepOne has while the lister learns of that Service: whatever copy the *)
(* worker holds, whatever has failed, and after any restart.               *)
THEOREM BalancerIsKept == Spec => BalancerKept
<1>1. ASSUME KeptInv, [Next]_vars, NEW i \in LB, lbs[i].st # "deleting", lbs'[i].st = "deleting",
             ~ (g.id = i /\ relisted), NEW s \in labelled, Live(s), ~ svc[s].deleting,
             svc[s].lbId = i \/ svc[s].addr = <<"vip", i>>
      PROVE  FALSE
  <2>1. s \in Service
    BY <1>1 DEF KeptInv, TypeInv, TypeOK
  <2>2. Recorded(s)
    BY <1>1, Addresses DEF Recorded, Standing, Live
  <2>3. Stays(i)
    BY <1>1, NextBalancers DEF KeptInv, BalancersMove, Made, Ended
  <2>4. /\ lbs[i].st \in {"active", "error"}
        /\ (w.pc = "delete" /\ w.lb = i) \/ (g.pc = "delete" /\ g.id = i)
    BY <1>1, <2>3 DEF Stays
  <2>5. lbs[i].name = s /\ Alive(i)
    BY <1>1, <2>1, <2>4 DEF KeptInv, Records, Traced, MadeFor, Alive
  <2>6. Standing(cache[s]) /\ ~ (w.s = s /\ w.pc \in Deleting)
    BY <1>1, <2>1, <2>2 DEF KeptInv, Seen
  <2>7. CASE w.pc = "delete" /\ w.lb = i
    <3>1. MadeFor(i, w.s)
      BY <1>1, <2>7 DEF KeptInv, Records, Holding, WorkerPC
    <3> QED BY <2>4, <2>5, <2>6, <2>7, <3>1 DEF MadeFor, Deleting
  <2>8. CASE g.pc = "delete" /\ g.id = i
    BY <1>1, <2>5, <2>6, <2>8 DEF KeptInv, Judged, Standing
  <2> QED BY <2>4, <2>7, <2>8
<1>2. ASSUME KeptInv, [Next]_vars
      PROVE  [\A i \in LB : /\ lbs[i].st # "deleting" /\ lbs'[i].st = "deleting"
                            /\ ~ (g.id = i /\ relisted)
                            => ~ InUse(i)]_vars
  BY <1>1, <1>2 DEF InUse
<1> QED BY <1>2, InitKept, NextKept, PTL DEF Spec, BalancerKept

=============================================================================
