------------------------------ MODULE Service ------------------------------
(***************************************************************************)
(* Load balancers: pkg/service.  Every Service of a served namespace gets  *)
(* an Octavia load balancer on the tenant's network; one worker reconciles *)
(* Services off a queue, and a sweep, on its own goroutine, deletes the    *)
(* load balancers whose Service is gone.                                   *)
(*                                                                         *)
(* A step is one call to the API server, Octavia, Neutron or Zun with the  *)
(* code up to the next call.  Between two steps the other goroutine, the   *)
(* tenant, the watch or OpenStack may move.  A Service stands in a         *)
(* namespace of its own and selects every pod.                             *)
(***************************************************************************)
EXTENDS Naturals, FiniteSets

CONSTANTS
    Service,       \* the Services, by namespace and name
    Pod,           \* the names of the pods they select
    Addr,          \* the addresses a capsule can have
    Subnet,        \* the subnets those addresses are on
    SubnetOf,      \* the subnet of an address
    Kinds,         \* what a tenant writes: see Kind
    NoName,        \* of a load balancer that was never made
    NoAddr,        \* of a pod with no capsule
    NoSubnet,      \* of a pod whose subnet is not cached
    NPorts,        \* ports of a Service
    MayUnlabel,    \* Services whose namespace may lose its label
    MayVanish,     \* whether somebody else may delete a load balancer
    Flaky,         \* whether calls fail and the process dies
    MayError,      \* whether Octavia may put one in ERROR
    MaxLBs,        \* bound: load balancers ever made
    MaxFIPs,       \* bound: public addresses ever allocated
    MaxEvents      \* bound: Services created and edited, pods started and
                   \* ended, labels lost, calls failed or unanswered,
                   \* timeouts, crashes, taken together

(* What a Service asks for: headless, a ClusterIP, or a LoadBalancer that  *)
(* wantsPublicAddress says is private or public.                           *)
Kind == {"headless", "cluster", "private", "public"}

ASSUME ServiceConstants ==
    /\ SubnetOf \in [Addr -> Subnet]
    /\ Kinds \subseteq Kind
    /\ NoAddr \notin Addr
    /\ NoSubnet \notin Subnet
    /\ NoName \notin Service
    /\ MayUnlabel \subseteq Service
    /\ {MayVanish, MayError, Flaky} \subseteq BOOLEAN
    /\ NPorts \in Nat \ {0}
    /\ {MaxLBs, MaxFIPs, MaxEvents} \subseteq Nat

VARIABLES
    svc,        \* the Services in the API server
    cache,      \* the Services as the lister has them
    fresh,      \* whether the lister has the last version of each
    labelled,   \* Services whose namespace carries the tenant's label
    served,     \* Services whose namespace this process knows it serves
    known,      \* whether the set of served namespaces is not empty
    queue,      \* the controller's queue
    pod,        \* each pod's capsule, by its address
    eps,        \* the ready endpoints as the EndpointSlice lister has them
    subnets,    \* CapsuleSubnets.cache
    lbs,        \* Octavia's load balancers
    fips,       \* public addresses ever allocated
    w,          \* the worker
    g,          \* the sweep
    relisted,   \* history: the lister had a Service since the sweep missed it
    events      \* the events so far

k8s   == <<svc, cache, fresh, labelled>>
proc  == <<served, known, queue>>
pods  == <<pod, eps, subnets>>
cloud == <<lbs, fips>>
vars  == <<k8s, proc, pods, cloud, w, g, relisted, events>>

LB     == 1..MaxLBs
Ports  == 1..NPorts
Member == [pod: Pod, addr: Addr, subnet: Subnet]

(* An address a Service can be published under: the load balancer's own,   *)
(* or the public one attached to its port.                                 *)
Address == {<<"none", 0>>} \cup ({"vip"} \X LB) \cup ({"fip"} \X (1..MaxFIPs))
None    == <<"none", 0>>

SvcRec == [kind: Kind \cup {"absent"}, deleting: BOOLEAN,
           lbId: LB \cup {0}, addr: Address, status: Address]
Absent == [kind |-> "absent", deleting |-> FALSE,
           lbId |-> 0, addr |-> None, status |-> None]

(* One load balancer.  built counts, for each port, the objects made of    *)
(* its listener, its pool and its health monitor, in that order.           *)
LBRec   == [name: Service \cup {NoName},
            st: {"unused", "pending", "active", "error", "deleting", "gone"},
            built: [Ports -> 0..3], members: [Ports -> SUBSET Member],
            fip: 0..MaxFIPs]
LBBlank(st) == [name |-> NoName, st |-> st, built |-> [n \in Ports |-> 0],
                members |-> [n \in Ports |-> {}], fip |-> 0]

Alive(i)  == lbs[i].st \notin {"unused", "gone"}
Named(s)  == {i \in LB : Alive(i) /\ lbs[i].name = s}
Live(s)   == svc[s].kind # "absent"

WorkerPC == {"idle", "ensure", "byName", "publish", "status", "wait", "record",
             "port", "members", "address", "lookup", "release", "delete"}
Idle     == [pc |-> "idle", s |-> NoName, snap |-> Absent, fresh |-> FALSE,
             copy |-> FALSE, lb |-> 0, addr |-> None, n |-> 1, next |-> "idle"]
Resting  == [pc |-> "idle", id |-> 0]

Init ==
    /\ svc = [s \in Service |-> Absent]
    /\ cache = svc
    /\ fresh = [s \in Service |-> TRUE]
    /\ labelled = Service
    /\ served = {} /\ known = FALSE /\ queue = {}
    /\ pod = [p \in Pod |-> NoAddr]
    /\ eps = pod
    /\ subnets = [p \in Pod |-> NoSubnet]
    /\ lbs = [i \in LB |-> LBBlank("unused")]
    /\ fips = 0
    /\ w = Idle /\ g = Resting /\ relisted = FALSE
    /\ events = 0

Spend == events < MaxEvents /\ events' = events + 1
Fault == Flaky /\ Spend

-----------------------------------------------------------------------------
(* The tenant and the API server.  A write makes every other copy stale.   *)

(* The store takes a new version of a Service from somebody else.          *)
Write(s, new) ==
    /\ svc' = [svc EXCEPT ![s] = new]
    /\ fresh' = [fresh EXCEPT ![s] = FALSE]
    /\ w' = IF w.s = s THEN [w EXCEPT !.fresh = FALSE, !.copy = FALSE] ELSE w

CreateService(s) ==
    /\ ~ Live(s)
    /\ \E k \in Kinds : Write(s, [Absent EXCEPT !.kind = k])
    /\ Spend
    /\ UNCHANGED <<cache, labelled, proc, pods, cloud, g, relisted>>

(* A type or an annotation is edited; the cluster address is immutable, so *)
(* a Service does not become headless.                                     *)
EditService(s) ==
    /\ Live(s) /\ svc[s].kind # "headless"
    /\ \E k \in Kinds \ {"headless", svc[s].kind} :
          Write(s, [svc[s] EXCEPT !.kind = k])
    /\ Spend
    /\ UNCHANGED <<cache, labelled, proc, pods, cloud, g, relisted>>

(* Deleted at once, or held by somebody's finalizer for a while.           *)
DeleteService(s) ==
    /\ Live(s)
    /\ \/ Write(s, Absent)
       \/ ~ svc[s].deleting /\ Write(s, [svc[s] EXCEPT !.deleting = TRUE])
    /\ UNCHANGED <<cache, labelled, proc, pods, cloud, g, relisted, events>>

(* The watch brings the lister up to date and the handler queues the key.  *)
WatchService(s) ==
    /\ ~ fresh[s]
    /\ cache' = [cache EXCEPT ![s] = svc[s]]
    /\ fresh' = [fresh EXCEPT ![s] = TRUE]
    /\ queue' = queue \cup {s}
    /\ relisted' = (relisted \/ (g.id # 0 /\ lbs[g.id].name = s /\ Live(s)))
    /\ UNCHANGED <<svc, labelled, served, known, pods, cloud, w, g, events>>

(* The informers resync every minute and deliver each object once more.    *)
Resync ==
    /\ queue' = queue \cup {s \in Service : cache[s].kind # "absent"}
    /\ queue' # queue
    /\ UNCHANGED <<k8s, served, known, pods, cloud, w, g, relisted, events>>

(* The namespace watch: the set is empty until it syncs, and a namespace   *)
(* that loses its label leaves it; others stay.                            *)
SyncNamespaces ==
    /\ ~ known
    /\ known' = TRUE /\ served' = labelled
    /\ UNCHANGED <<k8s, queue, pods, cloud, w, g, relisted, events>>

Unlabel(s) ==
    /\ s \in labelled \cap MayUnlabel
    /\ labelled' = labelled \ {s} /\ served' = served \ {s}
    /\ Spend
    /\ UNCHANGED <<svc, cache, fresh, known, queue, pods, cloud, w, g, relisted>>

(* A pod starts with an address of its own, or its capsule ends.           *)
MovePod(p) ==
    /\ \/ /\ pod[p] = NoAddr
          /\ \E a \in Addr \ {pod[q] : q \in Pod} : pod' = [pod EXCEPT ![p] = a]
       \/ pod[p] # NoAddr /\ pod' = [pod EXCEPT ![p] = NoAddr]
    /\ Spend
    /\ UNCHANGED <<k8s, proc, eps, subnets, cloud, w, g, relisted>>

(* An EndpointSlice follows a pod; the handler queues its Service.         *)
WatchEndpoint(p) ==
    /\ eps[p] # pod[p]
    /\ eps' = [eps EXCEPT ![p] = pod[p]]
    /\ queue' = queue \cup {s \in Service : Live(s)}
    /\ UNCHANGED <<k8s, served, known, pod, subnets, cloud, w, g, relisted, events>>

-----------------------------------------------------------------------------
(* The worker.  Reconcile returns nil and the key is forgotten, or it      *)
(* returns an error and the key is queued again with a backoff.            *)

Succeed == w' = Idle /\ UNCHANGED <<queue, events>>
Fail    == w' = Idle /\ queue' = queue \cup {w.s} /\ UNCHANGED events
Goto(new) == w' = new /\ UNCHANGED <<queue, events>>

(* A call that changes something has been carried out; the worker goes on, *)
(* or never learns of it.                                                  *)
Answered(new) ==
    \/ Goto(new)
    \/ Fault /\ w' = Idle /\ queue' = queue \cup {w.s}

WorkerFrame == UNCHANGED <<cache, labelled, served, known, g, relisted, pod, eps>>

(* A call in Reconcile fails before it has an effect.  Publishing early is *)
(* the exception: its failure is logged, and the worker goes on to wait.   *)
EarlyPublish == w.pc \in {"publish", "status"} /\ w.next = "wait"
AfterEarly   == [w EXCEPT !.pc = "wait", !.addr = None, !.copy = FALSE, !.next = "record"]

CallFails ==
    /\ w.pc # "idle" /\ Fault
    /\ IF EarlyPublish THEN w' = AfterEarly /\ UNCHANGED queue
                       ELSE w' = Idle /\ queue' = queue \cup {w.s}
    /\ UNCHANGED <<svc, fresh, subnets, cloud>> /\ WorkerFrame

(* reconcile and the head of Reconcile: an unserved namespace is dropped,  *)
(* and the lister's copy decides what is to be done.                       *)
Begin(s) ==
    LET new == [Idle EXCEPT !.s = s, !.snap = cache[s], !.fresh = fresh[s]]
    IN  IF s \notin served \/ cache[s].kind = "headless" THEN Idle
        ELSE IF cache[s].kind = "absent" \/ cache[s].deleting THEN [new EXCEPT !.pc = "lookup"]
        ELSE [new EXCEPT !.pc = "ensure"]

Take(s) ==
    /\ w.pc = "idle" /\ s \in queue
    /\ queue' = queue \ {s}
    /\ w' = Begin(s)
    /\ UNCHANGED <<svc, fresh, subnets, cloud, events>> /\ WorkerFrame

(* ensureLoadBalancer by the recorded id.                                  *)
EnsureByID ==
    /\ w.pc = "ensure"
    /\ LET id == w.snap.lbId
       IN  IF id # 0 /\ Alive(id)
           THEN Goto([w EXCEPT !.pc = "wait", !.lb = id, !.next = "port"])
           ELSE Goto([w EXCEPT !.pc = "byName"])
    /\ UNCHANGED <<svc, fresh, subnets, cloud>> /\ WorkerFrame

GetLoadBalancerByName(s) == Named(s)

(* By the derived name.  Nobody else makes one of this name, so the lookup *)
(* and the create are one step.                                            *)
CreateLB(id) ==
    lbs' = [lbs EXCEPT ![id] = [LBBlank("pending") EXCEPT !.name = w.s]]

(* Mutant: one is made whenever no id is recorded.                         *)
CreateAlways ==
    /\ w.pc = "byName"
    /\ \E id \in LB :
          /\ lbs[id].st = "unused" /\ \A j \in 1..(id - 1) : lbs[j].st # "unused"
          /\ CreateLB(id)
          /\ Answered([w EXCEPT !.pc = "publish", !.lb = id,
                                !.addr = <<"vip", id>>, !.next = "wait"])
    /\ UNCHANGED <<svc, fresh, subnets, fips>> /\ WorkerFrame

EnsureByName ==
    LET found == GetLoadBalancerByName(w.s) IN
    /\ w.pc = "byName"
    /\ \/ /\ Cardinality(found) = 1
          /\ \E id \in found :
                Goto([w EXCEPT !.pc = "wait", !.lb = id, !.next = "record"])
          /\ UNCHANGED lbs
       \/ Cardinality(found) > 1 /\ Fail /\ UNCHANGED lbs
       \/ /\ found = {}
          /\ \E id \in LB :
                /\ lbs[id].st = "unused" /\ \A j \in 1..(id - 1) : lbs[j].st # "unused"
                /\ CreateLB(id)
                /\ Answered([w EXCEPT !.pc = "publish", !.lb = id,
                                      !.addr = <<"vip", id>>, !.next = "wait"])
    /\ UNCHANGED <<svc, fresh, subnets, fips>> /\ WorkerFrame

(* WaitActive: gone or in ERROR is an error, and so is the deadline.       *)
WaitActive ==
    /\ w.pc = "wait"
    /\ CASE lbs[w.lb].st = "active" -> Goto([w EXCEPT !.pc = w.next])
         [] lbs[w.lb].st \in {"error", "gone"} -> Fail
         [] OTHER -> FALSE
    /\ UNCHANGED <<svc, fresh, subnets, cloud>> /\ WorkerFrame

(* An update of the worker's copy of the Service: refused with a conflict  *)
(* unless that copy is the last version.  Its own write leaves it stale.   *)
UpdateOwn(new) ==
    /\ svc' = [svc EXCEPT ![w.s] = new]
    /\ fresh' = [fresh EXCEPT ![w.s] = FALSE]

RecordLoadBalancerID ==
    /\ w.pc = "record"
    /\ \/ w.snap.lbId = w.lb /\ Goto([w EXCEPT !.pc = "port"]) /\ UNCHANGED <<svc, fresh>>
       \/ w.snap.lbId # w.lb /\ ~ w.fresh /\ Fail /\ UNCHANGED <<svc, fresh>>
       \/ /\ w.snap.lbId # w.lb /\ w.fresh
          /\ UpdateOwn([w.snap EXCEPT !.lbId = w.lb])
          /\ Answered([w EXCEPT !.pc = "port", !.fresh = FALSE])
    /\ UNCHANGED <<subnets, cloud>> /\ WorkerFrame

(* Octavia refuses a change to a load balancer that is not ACTIVE.  An     *)
(* accepted one leaves it provisioning, and the worker waits.              *)
Change(new, then) ==
    \/ lbs[w.lb].st # "active" /\ Fail /\ UNCHANGED lbs
    \/ /\ lbs[w.lb].st = "active"
       /\ lbs' = [lbs EXCEPT ![w.lb] = [new EXCEPT !.st = "pending"]]
       /\ Answered(then)

(* ensurePort: the listener, the pool and the monitor, each made when it   *)
(* is missing.                                                             *)
EnsurePort ==
    /\ w.pc = "port"
    /\ IF lbs[w.lb].built[w.n] < 3
       THEN Change([lbs[w.lb] EXCEPT !.built[w.n] = @ + 1],
                   [w EXCEPT !.pc = "wait", !.next = "port"])
       ELSE Goto([w EXCEPT !.pc = "members"]) /\ UNCHANGED lbs
    /\ UNCHANGED <<svc, fresh, subnets, fips>> /\ WorkerFrame

(* CapsuleSubnets.SubnetFor: the cached subnet of a pod of this name, else *)
(* the one its capsule reports.                                            *)
SubnetFor(p) ==
    IF subnets[p] # NoSubnet THEN subnets[p]
    ELSE IF pod[p] # NoAddr THEN SubnetOf[pod[p]] ELSE NoSubnet

Endpoints == {p \in Pod : eps[p] # NoAddr}
BuildMembers == {[pod |-> p, addr |-> eps[p], subnet |-> SubnetFor(p)] : p \in Endpoints}
Remember(P)  == subnets' = [p \in Pod |-> IF p \in P THEN SubnetFor(p) ELSE subnets[p]]

(* Mutant: the members are written on every reconcile.                     *)
NeverSame == FALSE

(* sameMembers: an unchanged set is not written.                           *)
SameMembers == Alive(w.lb) /\ lbs[w.lb].members[w.n] = BuildMembers

(* Mutant: the loop runs past the last port.                               *)
AfterEveryPort == [w EXCEPT !.pc = IF w.n <= NPorts THEN "port" ELSE "address", !.n = @ + 1]

AfterPort == [w EXCEPT !.pc = IF w.n < NPorts THEN "port" ELSE "address",
                       !.n  = IF w.n < NPorts THEN @ + 1 ELSE @]
AfterPut  == [AfterPort EXCEPT !.pc = "wait", !.next = AfterPort.pc]

(* BuildMembers and SetPoolMembers.  One pod that does not resolve fails   *)
(* the build; the pods resolved before it stay cached.                     *)
SetMembers ==
    /\ w.pc = "members"
    /\ IF \E p \in Endpoints : SubnetFor(p) = NoSubnet
       THEN /\ \E P \in SUBSET {p \in Endpoints : SubnetFor(p) # NoSubnet} : Remember(P)
            /\ Fail /\ UNCHANGED lbs
       ELSE /\ Remember(Endpoints)
            /\ IF SameMembers
               THEN Goto(AfterPort) /\ UNCHANGED lbs
               ELSE Change([lbs[w.lb] EXCEPT !.members[w.n] = BuildMembers], AfterPut)
    /\ UNCHANGED <<svc, fresh, fips>> /\ WorkerFrame

(* ensureFloatingIP or releaseFloatingIP, found by the port.  The port is  *)
(* there as long as the load balancer.                                     *)
EnsureAddress ==
    LET publish(a) == [w EXCEPT !.pc = "publish", !.addr = a, !.next = "idle"]
        lb == lbs[w.lb]
    IN
    /\ w.pc = "address"
    /\ \/ /\ w.snap.kind = "public" /\ lb.fip # 0
          /\ Goto(publish(<<"fip", lb.fip>>)) /\ UNCHANGED <<lbs, fips>>
       \/ w.snap.kind = "public" /\ ~ Alive(w.lb) /\ Fail /\ UNCHANGED <<lbs, fips>>
       \/ /\ w.snap.kind = "public" /\ Alive(w.lb) /\ lb.fip = 0 /\ fips < MaxFIPs
          /\ fips' = fips + 1
          /\ lbs' = [lbs EXCEPT ![w.lb].fip = fips + 1]
          /\ Answered(publish(<<"fip", fips + 1>>))
       \/ /\ w.snap.kind # "public"
          /\ lbs' = [lbs EXCEPT ![w.lb].fip = 0]
          /\ Answered(publish(<<"vip", w.lb>>))
          /\ UNCHANGED fips
    /\ UNCHANGED <<svc, fresh, subnets>> /\ WorkerFrame

(* publishAddress: the annotation, then, of a LoadBalancer, the status.    *)
(* Early, an error only ends the publishing.                               *)
Published == IF w.next = "wait" THEN Goto(AfterEarly) ELSE Succeed
Refused   == IF w.next = "wait" THEN Goto(AfterEarly) ELSE Fail
Lost(new) == \/ Goto(new)
             \/ /\ Fault
                /\ IF w.next = "wait" THEN w' = [AfterEarly EXCEPT !.fresh = FALSE] /\ UNCHANGED queue
                                      ELSE w' = Idle /\ queue' = queue \cup {w.s}

PublishAnnotation ==
    /\ w.pc = "publish"
    /\ \/ /\ w.snap.addr = w.addr
          /\ Goto([w EXCEPT !.pc = "status", !.copy = w.fresh])
          /\ UNCHANGED <<svc, fresh>>
       \/ w.snap.addr # w.addr /\ ~ w.fresh /\ Refused /\ UNCHANGED <<svc, fresh>>
       \/ /\ w.snap.addr # w.addr /\ w.fresh
          /\ UpdateOwn([w.snap EXCEPT !.addr = w.addr])
          /\ Lost([w EXCEPT !.pc = "status", !.fresh = FALSE, !.copy = TRUE])
    /\ UNCHANGED <<subnets, cloud>> /\ WorkerFrame

PublishStatus ==
    /\ w.pc = "status"
    /\ \/ /\ w.snap.kind = "cluster" \/ w.snap.status = w.addr
          /\ Published /\ UNCHANGED <<svc, fresh>>
       \/ /\ w.snap.kind # "cluster" /\ w.snap.status # w.addr
          /\ ~ w.copy /\ Refused /\ UNCHANGED <<svc, fresh>>
       \/ /\ w.snap.kind # "cluster" /\ w.snap.status # w.addr /\ w.copy
          /\ UpdateOwn([svc[w.s] EXCEPT !.status = w.addr])
          /\ IF w.next = "wait" THEN Goto([AfterEarly EXCEPT !.fresh = FALSE])
                                ELSE Answered(Idle)
    /\ UNCHANGED <<subnets, cloud>> /\ WorkerFrame

(* deleteByName, or deleteLoadBalancer of a Service still being deleted.   *)
LookupForDeletion ==
    LET recorded == w.snap.deleting /\ w.snap.lbId # 0
        found    == IF recorded THEN {w.snap.lbId} ELSE GetLoadBalancerByName(w.s)
    IN
    /\ w.pc = "lookup"
    /\ \/ found = {} /\ Succeed
       \/ Cardinality(found) > 1 /\ Fail
       \/ /\ Cardinality(found) = 1
          /\ \E id \in found : Goto([w EXCEPT !.pc = "release", !.lb = id])
    /\ UNCHANGED <<svc, fresh, subnets, cloud>> /\ WorkerFrame

(* tearDown: the public address goes back while its port leads to it.      *)
ReleaseFloatingIP(id) == lbs' = [lbs EXCEPT ![id].fip = 0]

(* DeleteLoadBalancer, with everything under it.  Not found is done, and   *)
(* one that is provisioning or being deleted is refused.                   *)
Deletable(id)          == lbs[id].st \in {"active", "error"}
DeleteLoadBalancer(id) ==
    lbs' = IF Deletable(id) THEN [lbs EXCEPT ![id].st = "deleting"] ELSE lbs

WorkerRelease ==
    /\ w.pc = "release"
    /\ ReleaseFloatingIP(w.lb)
    /\ Answered([w EXCEPT !.pc = "delete"])
    /\ UNCHANGED <<svc, fresh, subnets, fips>> /\ WorkerFrame

WorkerDelete ==
    /\ w.pc = "delete"
    /\ DeleteLoadBalancer(w.lb)
    /\ IF Deletable(w.lb) \/ ~ Alive(w.lb) THEN Answered(Idle) ELSE Fail
    /\ UNCHANGED <<svc, fresh, subnets, fips>> /\ WorkerFrame

Timeout ==
    /\ w.pc = "wait"
    /\ lbs[w.lb].st \in {"pending", "deleting"}
    /\ Fault /\ w' = Idle /\ queue' = queue \cup {w.s}
    /\ UNCHANGED <<svc, fresh, subnets, cloud>> /\ WorkerFrame

WorkerStep ==
    \/ EnsureByID \/ EnsureByName \/ WaitActive \/ RecordLoadBalancerID
    \/ EnsurePort \/ SetMembers \/ EnsureAddress
    \/ PublishAnnotation \/ PublishStatus
    \/ LookupForDeletion \/ WorkerRelease \/ WorkerDelete

-----------------------------------------------------------------------------
(* The sweep: every load balancer of this tenant's is judged by the        *)
(* namespaces served and by the Service lister, and torn down by its id.   *)

SweepFrame == UNCHANGED <<k8s, proc, pods, fips, w>>

(* Mutant: an empty served set is taken for a known one.                   *)
SweepAlways == TRUE

(* Nothing is judged while the served set is not known.                    *)
SweepBegins == known

(* Mutant: the Service lister is not asked.                                *)
CondemnedUnserved(s) == s \notin served

Condemned(s) == s \notin served \/ cache[s].kind = "absent"

(* The list only tells which load balancers there are: one that is spared, *)
(* or gone since, changes nothing, so a step is the judgment of one that   *)
(* is condemned.                                                           *)
Sweep(i) ==
    /\ g.pc = "idle" /\ SweepBegins
    /\ Alive(i) /\ Condemned(lbs[i].name)
    /\ g' = [pc |-> "release", id |-> i]
    /\ relisted' = FALSE
    /\ UNCHANGED <<lbs, events>> /\ SweepFrame

SweepReleases ==
    /\ g.pc = "release"
    /\ ReleaseFloatingIP(g.id)
    /\ g' = [g EXCEPT !.pc = "delete"]
    /\ UNCHANGED <<relisted, events>> /\ SweepFrame

SweepDeletes ==
    /\ g.pc = "delete"
    /\ DeleteLoadBalancer(g.id)
    /\ g' = Resting /\ relisted' = FALSE
    /\ UNCHANGED events /\ SweepFrame

(* A failed call leaves this one for the next sweep.                       *)
SweepFails ==
    /\ g.pc \in {"release", "delete"}
    /\ Fault /\ g' = Resting /\ relisted' = FALSE
    /\ UNCHANGED lbs /\ SweepFrame

SweepStep == (\E i \in LB : Sweep(i)) \/ SweepReleases \/ SweepDeletes

-----------------------------------------------------------------------------
(* Octavia, and the process.                                               *)

CloudFrame == UNCHANGED <<k8s, proc, pods, fips, w, g, relisted, events>>

Settle(i) ==
    /\ lbs[i].st = "pending"
    /\ \E st \in {"active"} \cup (IF MayError THEN {"error"} ELSE {}) :
          lbs' = [lbs EXCEPT ![i].st = st]
    /\ CloudFrame

(* The load balancer goes, and its port with it.                           *)
Gone(i) == lbs' = [lbs EXCEPT ![i] = LBBlank("gone")]

Remove(i) == lbs[i].st = "deleting" /\ Gone(i) /\ CloudFrame

(* Somebody deletes one behind the process's back.                         *)
Vanish(i) ==
    /\ MayVanish /\ lbs[i].st = "active"
    /\ Gone(i) /\ Fault
    /\ UNCHANGED <<k8s, proc, pods, fips, w, g, relisted>>

(* The process dies and starts: what it held is lost, the informers list   *)
(* everything, and the namespaces are not known until their watch syncs.   *)
Restart ==
    /\ Fault
    /\ cache' = svc /\ fresh' = [s \in Service |-> TRUE]
    /\ queue' = {s \in Service : Live(s)}
    /\ served' = {} /\ known' = FALSE
    /\ subnets' = [p \in Pod |-> NoSubnet]
    /\ w' = Idle /\ g' = Resting /\ relisted' = FALSE
    /\ UNCHANGED <<svc, labelled, pod, eps, cloud>>

Next ==
    \/ \E s \in Service : \/ CreateService(s) \/ EditService(s) \/ DeleteService(s)
                          \/ WatchService(s) \/ Unlabel(s) \/ Take(s)
    \/ \E p \in Pod : MovePod(p) \/ WatchEndpoint(p)
    \/ \E i \in LB : Settle(i) \/ Remove(i) \/ Vanish(i)
    \/ SyncNamespaces \/ Resync \/ Restart
    \/ WorkerStep \/ CallFails \/ Timeout
    \/ SweepStep \/ SweepFails

Spec == Init /\ [][Next]_vars

(* The worker and the sweep run, watches deliver, informers resync, and    *)
(* Octavia completes what it accepted.  The queue is first in, first out.  *)
(* Nothing makes a tenant, a fault or a timeout happen.                    *)
Fairness ==
    /\ WF_vars(WorkerStep) /\ WF_vars(SweepStep)
    /\ WF_vars(SyncNamespaces) /\ WF_vars(Resync)
    /\ \A s \in Service : WF_vars(WatchService(s)) /\ SF_vars(Take(s))
    /\ \A p \in Pod : WF_vars(WatchEndpoint(p))
    /\ \A i \in LB : WF_vars(Settle(i)) /\ WF_vars(Remove(i))

FairSpec == Spec /\ Fairness

-----------------------------------------------------------------------------
(* Properties.                                                             *)

(* Types: what is stored, cached, built and under way is well formed.      *)
TypeOK ==
    /\ svc \in [Service -> SvcRec] /\ cache \in [Service -> SvcRec]
    /\ fresh \in [Service -> BOOLEAN]
    /\ labelled \subseteq Service /\ served \subseteq labelled
    /\ known \in BOOLEAN /\ queue \subseteq Service
    /\ pod \in [Pod -> Addr \cup {NoAddr}] /\ eps \in [Pod -> Addr \cup {NoAddr}]
    /\ subnets \in [Pod -> Subnet \cup {NoSubnet}]
    /\ lbs \in [LB -> LBRec] /\ fips \in 0..MaxFIPs
    /\ w \in [pc: WorkerPC, s: Service \cup {NoName}, snap: SvcRec,
              fresh: BOOLEAN, copy: BOOLEAN, lb: LB \cup {0}, addr: Address,
              n: Ports, next: WorkerPC]
    /\ g \in [pc: {"idle", "release", "delete"}, id: LB \cup {0}]
    /\ relisted \in BOOLEAN
    /\ events \in 0..MaxEvents

(* A Service has one load balancer: not two after an answer was lost, the  *)
(* process died before the id was recorded, or the Service was made anew   *)
(* (ensureLoadBalancer: a second one runs and is charged for).             *)
OneLoadBalancer == \A s \in Service : Cardinality(Named(s)) <= 1

(* No actor puts a load balancer to deletion that a standing Service of    *)
(* this tenant's records or is known by: not the worker with an old copy   *)
(* (ensureLoadBalancer: never replaced), and not the sweep after a restart *)
(* or with a lagging lister (sweepOne fails closed).  The one window the   *)
(* sweep has is that the lister learns of the Service while it is at it.   *)
InUse(i) ==
    \E s \in labelled : /\ Live(s) /\ ~ svc[s].deleting
                        /\ svc[s].lbId = i \/ svc[s].addr = <<"vip", i>>

BalancerKept ==
    [][\A i \in LB :
         /\ lbs[i].st # "deleting" /\ lbs'[i].st = "deleting"
         /\ ~ (g.id = i /\ relisted)
         => ~ InUse(i)]_vars

(* What a tenant sees of a Service that works: one load balancer, ACTIVE,  *)
(* recorded, with every port built and the ready pods behind it, and its   *)
(* address, public only if that is asked for, on the Service.              *)
Works(s) ==
    \E i \in Named(s) :
       /\ svc[s].lbId = i /\ lbs[i].st = "active"
       /\ \A n \in Ports : /\ lbs[i].built[n] = 3
                           /\ {<<m.pod, m.addr>> : m \in lbs[i].members[n]}
                                = {<<p, pod[p]>> : p \in {q \in Pod : pod[q] # NoAddr}}
       /\ svc[s].kind = "public" <=> lbs[i].fip # 0
       /\ svc[s].addr = IF svc[s].kind = "public" THEN <<"fip", lbs[i].fip>> ELSE <<"vip", i>>
       /\ svc[s].kind # "cluster" => svc[s].status = svc[s].addr

Wanted(s) ==
    /\ Live(s) /\ svc[s].kind # "headless" /\ ~ svc[s].deleting /\ s \in labelled
    /\ \A i \in Named(s) : lbs[i].st # "error"

(* A Service that stays comes to work and keeps working, whatever conflict,*)
(* failure, restart, teardown of a predecessor or change of its pods came  *)
(* before: every reconcile that fell short is retried (reconcile), and the *)
(* ones that follow change nothing (SetPoolMembers).                       *)
ServiceReachable == \A s \in Service : <>[]Wanted(s) => <>[]Works(s)

(* The load balancer of a Service that is gone, or whose namespace is no   *)
(* longer this tenant's, is deleted in the end, deletions missed while the *)
(* process was down included (RunGC).                                      *)
BalancersCollected ==
    \A s \in Service :
        <>[](~ Live(s) \/ s \notin labelled) => <>[](Named(s) = {})

(* Subnet.go says a pod recreated under its name is resolved afresh: a pod *)
(* that stays up comes to be a member on the subnet its address is on.     *)
MembersOnTheirSubnet ==
    \A p \in Pod, a \in Addr :
        <>[](pod[p] = a) =>
            <>[](\A i \in LB, n \in Ports : \A m \in lbs[i].members[n] :
                   m.pod = p /\ m.addr = a => m.subnet = SubnetOf[a])
=============================================================================
