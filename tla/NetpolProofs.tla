---------------------------- MODULE NetpolProofs ----------------------------
(***************************************************************************)
(* Proofs about Netpol and Policy: the translation of a policy lets nothing*)
(* through that the policy denies; the controller's types; and no port     *)
(* carries a group that is gone or still open, for any number of pods,     *)
(* policies, groups and faults.                                            *)
(***************************************************************************)
EXTENDS Netpol, TLAPS

-----------------------------------------------------------------------------
(* Constants.                                                              *)

LEMMA Numbers == MaxGroups \in Nat /\ MaxEvents \in Nat
  BY NetpolAssumption

LEMMA Names == "baseline" \notin Pol /\ "none" \notin Pol
  BY NetpolAssumption

LEMMA Ids ==
    /\ GroupId \subseteq Nat /\ {1, 2, 3} \subseteq GroupId
    /\ 0 \notin GroupId /\ -1 \notin GroupId
    /\ \A m \in 0..MaxGroups : m < MaxGroups => 4 + m \in GroupId
  BY Numbers DEF GroupId

-----------------------------------------------------------------------------
(* The translation of a policy.                                            *)

(* One security group rule of an expanded rule.                            *)
Written(r, rule) ==
    /\ rule.dir = r.dir
    /\ rule.remote \in r.remotes
    /\ rule.family \in familiesFor(rule.remote)
    /\ rule.port \in (IF r.ports = {} THEN {"all"} ELSE r.ports)

LEMMA Expansion ==
    ASSUME NEW rules, NEW rule \in Expand(rules)
    PROVE  \E r \in rules : /\ Written(r, rule)
                            /\ rule = [dir |-> rule.dir, family |-> rule.family,
                                       remote |-> rule.remote, port |-> rule.port]
  BY DEF Expand, Written

(* What a rule of a policy is translated to.                               *)
LEMMA Translation ==
    ASSUME NEW spec, NEW tr \in Translate(spec)
    PROVE  \E r \in spec.rules :
             /\ tr.dir = r.dir /\ tr.remotes = Remotes(r) /\ tr.ports = Ports(r)
             /\ r.ports # {} => Ports(r) # {}
<1>1. PICK r \in spec.rules : tr \in translateRule(r)
  BY DEF Translate
<1>2. tr = [dir |-> r.dir, remotes |-> Remotes(r), ports |-> Ports(r)] /\ (r.ports # {} => Ports(r) # {})
  BY <1>1 DEF translateRule
<1>3. tr.dir = r.dir /\ tr.remotes = Remotes(r) /\ tr.ports = Ports(r)
  BY <1>2
<1> QED BY <1>2, <1>3

(* A rule that is written comes of one of the policy's own.                *)
LEMMA Origin ==
    ASSUME NEW spec \in PolicySpec, NEW rule \in PolicyRules(spec)
    PROVE  /\ rule.dir \in Isolates(spec)
           /\ rule = [dir |-> rule.dir, family |-> rule.family,
                      remote |-> rule.remote, port |-> rule.port]
           /\ \E r \in spec.rules :
                /\ rule.dir = r.dir /\ rule.remote \in Remotes(r)
                /\ rule.family \in familiesFor(rule.remote)
                /\ rule.port \in (IF r.ports = {} THEN {"all"} ELSE Ports(r))
<1> DEFINE T == {r \in Translate(spec) : r.dir \in Isolates(spec)}
<1>1. PICK tr \in T : /\ Written(tr, rule)
                      /\ rule = [dir |-> rule.dir, family |-> rule.family,
                                 remote |-> rule.remote, port |-> rule.port]
  BY Expansion DEF PolicyRules
<1>2. PICK r \in spec.rules : /\ tr.dir = r.dir /\ tr.remotes = Remotes(r) /\ tr.ports = Ports(r)
                              /\ r.ports # {} => Ports(r) # {}
  BY Translation
<1>3. r.ports = {} => Ports(r) = {}
  BY DEF Ports
<1> QED BY <1>1, <1>2, <1>3 DEF Written

LEMMA RulesTyped ==
    ASSUME NEW spec \in PolicySpec
    PROVE  PolicyRules(spec) \subseteq SGRule /\ PolicyRules(spec) \cap DefaultRules = {}
<1> SUFFICES ASSUME NEW rule \in PolicyRules(spec) PROVE rule \in SGRule /\ rule \notin DefaultRules
  OBVIOUS
<1>1. PICK r \in spec.rules :
                /\ rule.dir = r.dir /\ rule.remote \in Remotes(r)
                /\ rule.family \in familiesFor(rule.remote)
                /\ rule.port \in (IF r.ports = {} THEN {"all"} ELSE Ports(r))
  BY Origin
<1>2. r \in PolicyRule
  BY <1>1 DEF PolicySpec
<1>3. rule.dir \in Dir
  BY <1>1, <1>2 DEF PolicyRule
<1>4. rule.remote \in {"any4", "any6", "block", "pods"}
  BY <1>1 DEF Remotes
<1>5. rule.family \in {4, 6}
  BY <1>1, <1>4 DEF familiesFor
<1>6. rule.port \in {"all", "number", "tcp"}
  BY <1>1 DEF Ports
<1>7. rule = [dir |-> rule.dir, family |-> rule.family, remote |-> rule.remote, port |-> rule.port]
  BY Origin
<1>8. rule \in SGRule
  BY <1>3, <1>4, <1>5, <1>6, <1>7 DEF SGRule, CIDR
<1>9. rule.remote # "null4" /\ rule.remote # "null6"
  BY <1>4
<1> QED BY <1>8, <1>9 DEF DefaultRules

(* The translation never allows more than the policy: whatever a rule      *)
(* written for a policy lets through, with an address group of no other    *)
(* pods than the selected ones, is traffic the policy asks for in a        *)
(* direction it isolates (translateRule leaves out what Neutron cannot     *)
(* express, and never widens it).                                          *)
THEOREM TranslationIsSound ==
    ASSUME NEW spec \in PolicySpec, NEW t \in Traffic, NEW members \in SUBSET Pod,
           NEW rule \in PolicyRules(spec), Lets(rule, t, members)
    PROVE  /\ t.dir \in Isolates(spec)
           /\ Asked(spec, t, LAMBDA p : p \in members)
<1>1. PICK r \in spec.rules :
         /\ rule.dir = r.dir /\ rule.remote \in Remotes(r)
         /\ rule.port \in (IF r.ports = {} THEN {"all"} ELSE Ports(r))
  BY Origin
<1>2. rule.dir \in Isolates(spec) /\ rule.dir = t.dir
  BY Origin DEF Lets
<1>3. t.far \in Far
  BY DEF Traffic
<1>4. \/ r.peers = {}
      \/ "block" \in r.peers /\ t.far.address \in {"inside", "excepted"}
      \/ "pods" \in r.peers /\ t.far.address = "own" /\ t.far.pod \in members
  <2>1. CASE rule.remote = "pods"
    <3>1. r.peers # {} => "pods" \in r.peers
      BY <1>1, <2>1 DEF Remotes
    <3>2. t.far.pod \in Pod
      BY <2>1 DEF Lets
    <3>3. t.far.address = "own"
      BY <1>3, <3>2, PolicyAssumption DEF Far
    <3> QED BY <2>1, <3>1, <3>3 DEF Lets
  <2>2. CASE rule.remote = "block"
    BY <1>1, <2>2 DEF Remotes, Lets
  <2>3. CASE rule.remote \in {"any4", "any6"}
    BY <1>1, <2>3 DEF Remotes
  <2> QED BY <1>1, <2>1, <2>2, <2>3 DEF Remotes
<1>5. \/ r.ports = {}
      \/ "number" \in r.ports /\ t.port = "http"
      \/ "tcp" \in r.ports /\ t.port \in {"http", "tcp"}
  BY <1>1 DEF Ports, Lets
<1>6. r.peers = {} \/ \E k \in r.peers : PeerMatches(k, t.far, LAMBDA p : p \in members)
  BY <1>4 DEF PeerMatches
<1>7. r.ports = {} \/ \E k \in r.ports : PortMatches(k, t.port)
  BY <1>5 DEF PortMatches
<1> QED BY <1>1, <1>2, <1>6, <1>7 DEF Asked

(* A rule of the policy's own, in a direction it isolates, is written for  *)
(* each of its remotes, families and ports.                                *)
LEMMA Writing ==
    ASSUME NEW spec \in PolicySpec, NEW r \in spec.rules, r.dir \in Isolates(spec),
           r.ports # {} => Ports(r) # {},
           NEW m \in Remotes(r), NEW f \in familiesFor(m),
           NEW q \in (IF r.ports = {} THEN {"all"} ELSE Ports(r))
    PROVE  [dir |-> r.dir, family |-> f, remote |-> m, port |-> q] \in PolicyRules(spec)
<1> DEFINE tr == [dir |-> r.dir, remotes |-> Remotes(r), ports |-> Ports(r)]
<1>1. tr \in Translate(spec)
  BY DEF Translate, translateRule
<1>2. tr \in {x \in Translate(spec) : x.dir \in Isolates(spec)}
  BY <1>1
<1>3. q \in (IF tr.ports = {} THEN {"all"} ELSE tr.ports)
  BY DEF Ports
<1>4. ASSUME NEW rules, tr \in rules
      PROVE  [dir |-> tr.dir, family |-> f, remote |-> m, port |-> q] \in Expand(rules)
  <2> HIDE DEF tr
  <2>1. m \in tr.remotes
    BY DEF tr
  <2> DEFINE Q == IF tr.ports = {} THEN {"all"} ELSE tr.ports
             rule == [dir |-> tr.dir, family |-> f, remote |-> m, port |-> q]
             M(n) == {[dir |-> tr.dir, family |-> ff, remote |-> n, port |-> p] :
                        ff \in familiesFor(n), p \in Q}
  <2>2. \E ff \in familiesFor(m), p \in Q :
           rule = [dir |-> tr.dir, family |-> ff, remote |-> m, port |-> p]
    BY <1>3
  <2>3. rule \in M(m)
    <3> HIDE DEF rule, Q
    <3> QED BY <2>2, SMT
  <2>4. rule \in UNION {M(n) : n \in tr.remotes}
    <3> HIDE DEF rule, Q, M
    <3> QED BY <2>1, <2>3, Zenon
  <2>5. UNION {M(n) : n \in tr.remotes} \subseteq Expand(rules)
    <3> HIDE DEF rule
    <3> QED BY <1>4, SMT DEF Expand
  <2> HIDE DEF rule, M
  <2>6. rule \in Expand(rules)
    BY <2>4, <2>5
  <2> QED BY <2>6 DEF rule
<1> QED BY <1>2, <1>4 DEF PolicyRules

(* Nor less, where Neutron can express the policy: with an address group   *)
(* of the selected pods, all that the policy asks for in a direction it    *)
(* isolates is let through by some rule written for it (familiesFor and    *)
(* Expand lose neither a family, nor a remote, nor a port).                *)
THEOREM TranslationIsComplete ==
    ASSUME NEW spec \in PolicySpec, NEW t \in Traffic, NEW members \in SUBSET Pod,
           \A r \in spec.rules : ~ Refused(r), t.dir \in Isolates(spec),
           Asked(spec, t, LAMBDA p : p \in members)
    PROVE  \E rule \in PolicyRules(spec) : Lets(rule, t, members)
<1>1. PICK r \in spec.rules :
         /\ r.dir = t.dir
         /\ r.peers = {} \/ \E k \in r.peers : PeerMatches(k, t.far, LAMBDA p : p \in members)
         /\ r.ports = {} \/ \E k \in r.ports : PortMatches(k, t.port)
  BY DEF Asked
<1>2. /\ r.peers \subseteq {"block", "pods"} /\ r.ports \subseteq {"number", "tcp"}
  <2>1. r \in PolicyRule
    BY DEF PolicySpec
  <2> QED BY <2>1 DEF Refused, PolicyRule, PeerKind, PortKind
<1>3. Ports(r) = r.ports /\ (r.peers # {} => Remotes(r) = r.peers)
  BY <1>2 DEF Ports, Remotes
<1>4. PICK m \in Remotes(r) :
         \/ m = "pods" /\ t.far.pod \in members
         \/ m = "block" /\ t.far.address \in {"inside", "excepted"}
         \/ m = "any4" /\ t.far.address # "other6"
         \/ m = "any6" /\ t.far.address = "other6"
  <2>1. CASE r.peers = {}
    BY <2>1 DEF Remotes
  <2>2. CASE r.peers # {}
    <3>1. PICK k \in r.peers : PeerMatches(k, t.far, LAMBDA p : p \in members)
      BY <1>1, <2>2
    <3>2. \/ k = "pods" /\ t.far.pod \in members
          \/ k = "block" /\ t.far.address \in {"inside", "excepted"}
      BY <1>2, <3>1 DEF PeerMatches
    <3> QED BY <1>3, <2>2, <3>1, <3>2
  <2> QED BY <2>1, <2>2
<1>5. PICK q \in (IF r.ports = {} THEN {"all"} ELSE Ports(r)) :
         \/ q = "all"
         \/ q = "tcp" /\ t.port \in {"http", "tcp"}
         \/ q = "number" /\ t.port = "http"
  <2>1. CASE r.ports # {}
    <3>1. PICK k \in r.ports : PortMatches(k, t.port)
      BY <1>1, <2>1
    <3>2. k = "tcp" \/ k = "number"
      BY <1>2, <3>1
    <3>3. (k = "tcp" => t.port \in {"http", "tcp"}) /\ (k = "number" => t.port = "http")
      BY <3>1, Zenon DEF PortMatches
    <3> QED BY <1>3, <2>1, <3>1, <3>2, <3>3
  <2> QED BY <2>1
<1>6. PICK f \in familiesFor(m) : TRUE
  BY <1>4 DEF familiesFor
<1> DEFINE rule == [dir |-> r.dir, family |-> f, remote |-> m, port |-> q]
<1>7. rule \in PolicyRules(spec)
  BY <1>1, <1>3, Writing
<1>8. Lets(rule, t, members)
  BY <1>1, <1>4, <1>5 DEF Lets
<1> QED BY <1>7, <1>8

-----------------------------------------------------------------------------
(* Types.                                                                  *)

PodRec  == [stage : {"absent", "pending", "creating", "placed", "running"},
            label : Label, plan : SUBSET GroupId]
PodTask == [op : {"idle", "write"}, want : SUBSET GroupId]
PolTask == [op : {"idle", "peers", "read", "write", "group", "rules", "prune"},
            spec : Specs \cup {NoSpec}, ag : BOOLEAN, add : SUBSET Pod, remove : SUBSET Pod,
            group : GroupId \cup {0}, have : SUBSET SGRule]
Sweeping == [op : {"due", "delete", "rest"}, doomed : SUBSET GroupId, referenced : BOOLEAN]

(* The cluster's part of the types, Neutron's, and the process's: with what*)
(* TypeOK leaves out, that a worker at a group's rules has a group.        *)
ClusterOK ==
    /\ policy \in [Pol -> Specs \cup {NoSpec}]
    /\ pod \in [Pod -> PodRec]
    /\ port \in [Pod -> SUBSET GroupId]
    /\ events \in 0..MaxEvents

NeutronOK ==
    /\ groups \in [GroupId -> Group] /\ made \in 0..MaxGroups
    /\ peers \in [exists : BOOLEAN, addrs : SUBSET Pod]

MemoryOK ==
    /\ baseline \in BOOLEAN
    /\ ruleGroups \in [Pol -> GroupId \cup {NoGroup, Unprepared}]
    /\ podQueue \subseteq Pod /\ polQueue \subseteq Pol

TasksOK ==
    /\ podWork \in [Pod -> PodTask]
    /\ polWork \in [Pol -> PolTask]
    /\ \A n \in Pol : polWork[n].op \in {"rules", "prune"} => polWork[n].group \in GroupId
    /\ sweep \in Sweeping

TypeInv == ClusterOK /\ NeutronOK /\ MemoryOK /\ TasksOK

LEMMA TypesFollow == TypeInv => TypeOK
<1> SUFFICES ASSUME TypeInv PROVE TypeOK
  OBVIOUS
<1>1. \A p \in Pod : podWork[p].op \in {"idle", "write"} /\ podWork[p].want \subseteq GroupId
  BY DEF TypeInv, TasksOK, PodTask
<1>2. \A n \in Pol : /\ polWork[n].op \in {"idle", "peers", "read", "write", "group", "rules", "prune"}
                     /\ polWork[n].spec \in Specs \cup {NoSpec}
                     /\ polWork[n].group \in GroupId \cup {0}
                     /\ polWork[n].have \subseteq SGRule
  BY DEF TypeInv, TasksOK, PolTask
<1>3. sweep.op \in {"due", "delete", "rest"} /\ sweep.doomed \subseteq GroupId
  BY DEF TypeInv, TasksOK, Sweeping
<1>4. pod \in [Pod -> [stage : {"absent", "pending", "creating", "placed", "running"},
                       label : Label, plan : SUBSET GroupId]]
  BY DEF TypeInv, ClusterOK, PodRec
<1> QED BY <1>1, <1>2, <1>3, <1>4 DEF TypeInv, TypeOK, ClusterOK, NeutronOK, MemoryOK

LEMMA SpecsTyped == Specs \cup {NoSpec} \subseteq PolicySpec
  BY NetpolAssumption DEF PolicySpec, NoSpec

LEMMA Blanks ==
    /\ PodIdle \in PodTask /\ PodIdle.op = "idle" /\ PodIdle.want = {}
    /\ PolIdle \in PolTask /\ PolIdle.op = "idle"
    /\ SweepIdle \in Sweeping /\ [SweepIdle EXCEPT !.op = "rest"] \in Sweeping
    /\ NoneSuch \in Group /\ NoneSuch.of = "none" /\ NoneSuch.rules = {}
    /\ DefaultRules \subseteq SGRule /\ Anywhere("ingress") \subseteq SGRule
<1>1. PodIdle \in PodTask /\ PodIdle.op = "idle" /\ PodIdle.want = {}
  BY DEF PodIdle, PodTask
<1>2. PolIdle \in PolTask /\ PolIdle.op = "idle"
  BY DEF PolIdle, PolTask
<1>3. SweepIdle \in Sweeping /\ [SweepIdle EXCEPT !.op = "rest"] \in Sweeping
  BY DEF SweepIdle, Sweeping
<1>4. NoneSuch \in Group /\ NoneSuch.of = "none" /\ NoneSuch.rules = {}
  BY DEF NoneSuch, Group
<1>5. DefaultRules \subseteq SGRule
  BY DEF DefaultRules, SGRule, Dir, CIDR
<1>6. Anywhere("ingress") \subseteq SGRule
  <2> SUFFICES ASSUME NEW rule \in Anywhere("ingress") PROVE rule \in SGRule
    OBVIOUS
  <2> DEFINE r == [dir |-> "ingress", remotes |-> {"any4", "any6"}, ports |-> {}]
  <2>0. rule \in Expand({r})
    BY DEF Anywhere
  <2>1. Written(r, rule) /\ rule = [dir |-> rule.dir, family |-> rule.family,
                                    remote |-> rule.remote, port |-> rule.port]
    <3> HIDE DEF r
    <3> QED BY <2>0, Expansion
  <2>2. /\ rule.dir = "ingress" /\ rule.remote \in {"any4", "any6"}
        /\ rule.family \in familiesFor(rule.remote) /\ rule.port = "all"
    BY <2>1 DEF Written
  <2>3. rule.family \in {4, 6}
    BY <2>2 DEF familiesFor
  <2> QED BY <2>1, <2>2, <2>3 DEF SGRule, Dir, CIDR
<1> QED BY <1>1, <1>2, <1>3, <1>4, <1>5, <1>6

LEMMA InitTypes == Init => TypeInv
<1> SUFFICES ASSUME Init PROVE TypeInv
  OBVIOUS
<1>1. ClusterOK
  <2>1. \A p \in Pod : FirstLabel[p] \in Label
    BY NetpolAssumption
  <2>2. \A p \in Pod : pod[p] \in PodRec
    BY <2>1 DEF Init, PodRec
  <2> QED BY <2>2, Numbers DEF Init, ClusterOK
<1>2. NeutronOK
  BY Blanks, Numbers DEF Init, NeutronOK
<1>3. MemoryOK
  BY DEF Init, MemoryOK
<1>4. TasksOK
  BY Blanks DEF Init, TasksOK
<1> QED BY <1>1, <1>2, <1>3, <1>4 DEF TypeInv

LEMMA EventOK == ASSUME ClusterOK, Event PROVE events' \in 0..MaxEvents
  BY Numbers DEF ClusterOK, Event

(* The groups chosen for a pod are groups, and never none.                 *)
LEMMA GroupsForOK ==
    ASSUME MemoryOK, NEW p \in Pod, Pending(p) = {}
    PROVE  /\ GroupsFor(p) \subseteq GroupId /\ GroupsFor(p) # {}
           /\ \A g \in GroupsFor(p) : g \in {1, 2, 3} \/ \E n \in Pol : ruleGroups[n] = g
<1>1. \A g \in policyGroupsFor(p) : g \in GroupId /\ \E n \in Pol : ruleGroups[n] = g
  <2> SUFFICES ASSUME NEW g \in policyGroupsFor(p)
               PROVE  g \in GroupId /\ \E n \in Pol : ruleGroups[n] = g
    OBVIOUS
  <2>1. PICK n \in Selecting(p) : PolicyRules(policy[n]) # {} /\ ruleGroups[n] = g /\ g # NoGroup
    BY DEF policyGroupsFor
  <2>2. n \in Pol /\ ruleGroups[n] # Unprepared
    BY <2>1 DEF Pending, Selecting, Live
  <2> QED BY <2>1, <2>2 DEF MemoryOK
<1>2. {denyAll, allowIngress, allowEgress} \subseteq GroupId /\ {denyAll, allowIngress, allowEgress} = {1, 2, 3}
  BY Ids DEF denyAll, allowIngress, allowEgress
<1>3. \A g \in GroupsFor(p) : g \in {denyAll, allowIngress, allowEgress} \/ g \in policyGroupsFor(p)
  BY DEF GroupsFor
<1>4. denyAll \in GroupsFor(p)
  BY DEF GroupsFor
<1> QED BY <1>1, <1>2, <1>3, <1>4

(* The tenants, and CreatePod.                                             *)
LEMMA PodsOK ==
    ASSUME TypeInv, NEW p \in Pod,
           \/ AddPod(p) \/ RemovePod(p) \/ (\E l \in Label : Relabel(p, l))
           \/ securityGroupsFor(p) \/ CreateCapsule(p) \/ PublishAddress(p)
    PROVE  TypeInv'
<1> USE DEF TypeInv
<1>1. pod[p] \in PodRec
  BY DEF ClusterOK
<1>2. ASSUME NEW new \in PodRec, pod' = [pod EXCEPT ![p] = new]
      PROVE  \E x \in PodRec : pod' = [pod EXCEPT ![p] = x]
  BY <1>2
<1>3. \E new \in PodRec : pod' = [pod EXCEPT ![p] = new]
  <2>1. CASE AddPod(p)
    <3>1. pod' = [pod EXCEPT ![p] = [pod[p] EXCEPT !.stage = "pending"]]
      BY <2>1 DEF AddPod
    <3>2. [pod[p] EXCEPT !.stage = "pending"] \in PodRec
      BY <1>1 DEF PodRec
    <3> QED BY <1>2, <3>1, <3>2
  <2>2. CASE RemovePod(p)
    <3>1. pod' = [pod EXCEPT ![p] = [pod[p] EXCEPT !.stage = "absent", !.plan = {}]]
      BY <2>2 DEF RemovePod
    <3>2. [pod[p] EXCEPT !.stage = "absent", !.plan = {}] \in PodRec
      BY <1>1 DEF PodRec
    <3> QED BY <1>2, <3>1, <3>2
  <2>3. ASSUME NEW l \in Label, Relabel(p, l) PROVE \E new \in PodRec : pod' = [pod EXCEPT ![p] = new]
    <3>1. pod' = [pod EXCEPT ![p] = [pod[p] EXCEPT !.label = l]]
      BY <2>3 DEF Relabel, PodUpdated
    <3>2. [pod[p] EXCEPT !.label = l] \in PodRec
      BY <1>1 DEF PodRec
    <3> QED BY <1>2, <3>1, <3>2
  <2>4. CASE securityGroupsFor(p)
    <3>1. pod' = [pod EXCEPT ![p] = [pod[p] EXCEPT !.stage = "creating", !.plan = GroupsFor(p)]]
      BY <2>4 DEF securityGroupsFor
    <3>2. GroupsFor(p) \in SUBSET GroupId
      BY <2>4, GroupsForOK DEF securityGroupsFor
    <3>3. [pod[p] EXCEPT !.stage = "creating", !.plan = GroupsFor(p)] \in PodRec
      <4> HIDE DEF GroupsFor
      <4> QED BY <1>1, <3>2 DEF PodRec
    <3> HIDE DEF GroupsFor
    <3> QED BY <1>2, <3>1, <3>3
  <2>5. CASE CreateCapsule(p)
    <3>1. PICK stage \in {"pending", "placed"} :
             pod' = [pod EXCEPT ![p] = [pod[p] EXCEPT !.stage = stage, !.plan = {}]]
      BY <2>5 DEF CreateCapsule
    <3>2. [pod[p] EXCEPT !.stage = stage, !.plan = {}] \in PodRec
      BY <1>1 DEF PodRec
    <3> QED BY <1>2, <3>1, <3>2
  <2>6. CASE PublishAddress(p)
    <3>1. pod' = [pod EXCEPT ![p] = [pod[p] EXCEPT !.stage = "running"]]
      BY <2>6 DEF PublishAddress, PodUpdated
    <3>2. [pod[p] EXCEPT !.stage = "running"] \in PodRec
      BY <1>1 DEF PodRec
    <3> QED BY <1>2, <3>1, <3>2
  <2> QED BY <2>1, <2>2, <2>3, <2>4, <2>5, <2>6
<1>4. port' \in [Pod -> SUBSET GroupId]
  <2>1. pod[p].plan \in SUBSET GroupId
    BY DEF ClusterOK, PodRec
  <2>2. port' = port \/ \E ids \in SUBSET GroupId : port' = [port EXCEPT ![p] = ids]
    BY <2>1 DEF AddPod, RemovePod, Relabel, securityGroupsFor, CreateCapsule, PublishAddress
  <2> QED BY <2>2 DEF ClusterOK
<1>5. events' \in 0..MaxEvents
  BY EventOK DEF ClusterOK, AddPod, RemovePod, Relabel, securityGroupsFor, CreateCapsule, PublishAddress
<1>6. /\ UNCHANGED <<policy, neutron, memory, podWork, polWork, sweep>>
      /\ podQueue' \in {podQueue, podQueue \cup {p}} /\ polQueue' \in {polQueue, polQueue \cup Live}
  BY DEF AddPod, RemovePod, Relabel, securityGroupsFor, CreateCapsule, PublishAddress, PodUpdated,
         enqueuePod, enqueuePoliciesNear, queues, neutron, memory
<1>7. ClusterOK'
  BY <1>3, <1>4, <1>5, <1>6 DEF ClusterOK
<1>8. NeutronOK' /\ TasksOK'
  BY <1>6 DEF neutron, NeutronOK, TasksOK
<1>9. MemoryOK'
  BY <1>6 DEF memory, MemoryOK, Live
<1> QED BY <1>7, <1>8, <1>9

LEMMA PoliciesOK ==
    ASSUME TypeInv, NEW n \in Pol, DeletePolicy(n) \/ (\E spec \in Specs : SetPolicy(n, spec))
    PROVE  TypeInv'
<1> USE DEF TypeInv
<1>1. \E spec \in Specs \cup {NoSpec} : policy' = [policy EXCEPT ![n] = spec]
  BY DEF DeletePolicy, SetPolicy
<1>2. /\ UNCHANGED <<pod, port, neutron, memory, podWork, polWork, sweep>>
      /\ podQueue' \subseteq podQueue \cup Pod /\ polQueue' \subseteq polQueue \cup {n}
  BY DEF DeletePolicy, SetPolicy, enqueueNamespaceOf
<1>3. events' \in 0..MaxEvents
  BY EventOK DEF DeletePolicy, SetPolicy
<1>4. ClusterOK'
  BY <1>1, <1>2, <1>3 DEF ClusterOK
<1>5. NeutronOK' /\ TasksOK' /\ MemoryOK'
  BY <1>2 DEF neutron, memory, NeutronOK, TasksOK, MemoryOK
<1> QED BY <1>4, <1>5

(* The process begins, and ends.                                           *)
LEMMA ProcessOK ==
    ASSUME TypeInv, EnsureBaseline \/ Crash \/ resyncPolicies PROVE TypeInv'
<1> USE DEF TypeInv
<1>1. CASE EnsureBaseline
  <2> DEFINE ga == [of |-> "baseline", rules |-> {}, desc |-> "ref"]
             gb == [of |-> "baseline", rules |-> Anywhere("ingress"), desc |-> "ref"]
             gc == [of |-> "baseline", rules |-> DefaultRules, desc |-> "ref"]
  <2>1. ga \in Group /\ gb \in Group /\ gc \in Group
    BY Blanks DEF Group
  <2>2. groups' = [groups EXCEPT ![denyAll] = ga, ![allowIngress] = gb, ![allowEgress] = gc]
    BY <1>1 DEF EnsureBaseline
  <2> HIDE DEF ga, gb, gc
  <2>3. groups' \in [GroupId -> Group]
    BY <2>1, <2>2 DEF NeutronOK
  <2>4. NeutronOK'
    BY <1>1, <2>3 DEF EnsureBaseline, NeutronOK
  <2>5. ClusterOK' /\ MemoryOK' /\ TasksOK'
    BY <1>1 DEF EnsureBaseline, cluster, queues, ClusterOK, MemoryOK, TasksOK
  <2> QED BY <2>4, <2>5
<1>2. CASE Crash
  <2>1. pod' \in [Pod -> PodRec]
    <3>1. \A p \in Pod : pod[p] \in PodRec /\ [pod[p] EXCEPT !.stage = "pending", !.plan = {}] \in PodRec
      BY DEF ClusterOK, PodRec
    <3> QED BY <1>2, <3>1 DEF Crash
  <2>2. ClusterOK'
    BY <1>2, <2>1, EventOK DEF Crash, ClusterOK
  <2>3. NeutronOK' /\ MemoryOK'
    BY <1>2 DEF Crash, neutron, NeutronOK, MemoryOK, Live
  <2>4. TasksOK'
    BY <1>2, Blanks DEF Crash, TasksOK
  <2> QED BY <2>2, <2>3, <2>4
<1>3. CASE resyncPolicies
  <2>1. sweep' \in Sweeping
    BY <1>3, Blanks DEF resyncPolicies, TasksOK
  <2>2. ClusterOK' /\ NeutronOK' /\ MemoryOK'
    BY <1>3 DEF resyncPolicies, cluster, neutron, memory, ClusterOK, NeutronOK, MemoryOK, Live
  <2>3. TasksOK'
    BY <1>3, <2>1 DEF resyncPolicies, TasksOK
  <2> QED BY <2>2, <2>3
<1> QED BY <1>1, <1>2, <1>3

(* The pod workers.                                                        *)
LEMMA ReconcileOK ==
    ASSUME TypeInv, NEW p \in Pod,
           \/ ReconcileNothing(p) \/ ReconcileMisread(p) \/ ReconcilePending(p)
           \/ ReconcileGroups(p) \/ ReconcileWrite(p) \/ ReconcileFails(p)
    PROVE  TypeInv'
<1> USE DEF TypeInv
<1>1. /\ UNCHANGED <<policy, pod, neutron, memory, polWork, sweep>>
      /\ podQueue' \subseteq podQueue \cup {p} /\ polQueue' \subseteq polQueue \cup Pending(p)
  BY DEF ReconcileNothing, ReconcileMisread, ReconcilePending, ReconcileGroups, ReconcileWrite,
         ReconcileFails, enqueuePod, cluster, neutron, memory
<1>2. events' \in 0..MaxEvents
  BY EventOK DEF ClusterOK, ReconcileNothing, ReconcileMisread, ReconcilePending, ReconcileGroups,
                 ReconcileWrite, ReconcileFails
<1>3. port' \in [Pod -> SUBSET GroupId]
  <2>1. podWork[p].want \in SUBSET GroupId
    BY DEF TasksOK, PodTask
  <2>2. port' = port \/ port' = [port EXCEPT ![p] = podWork[p].want]
    BY DEF ReconcileNothing, ReconcileMisread, ReconcilePending, ReconcileGroups, ReconcileWrite,
           ReconcileFails, cluster
  <2> QED BY <2>1, <2>2 DEF ClusterOK
<1>4. podWork' \in [Pod -> PodTask]
  <2>1. CASE ReconcileGroups(p)
    <3> DEFINE new == [op |-> "write", want |-> GroupsFor(p)]
    <3>1. GroupsFor(p) \in SUBSET GroupId
      BY <2>1, GroupsForOK DEF ReconcileGroups
    <3>2. new \in PodTask
      <4> HIDE DEF GroupsFor
      <4> QED BY <3>1 DEF PodTask
    <3>3. podWork' = [podWork EXCEPT ![p] = new]
      BY <2>1 DEF ReconcileGroups
    <3> HIDE DEF new
    <3> QED BY <3>2, <3>3 DEF TasksOK
  <2>2. CASE podWork' = podWork \/ podWork' = [podWork EXCEPT ![p] = PodIdle]
    BY <2>2, Blanks DEF TasksOK
  <2> QED BY <2>1, <2>2 DEF ReconcileNothing, ReconcileMisread, ReconcilePending, ReconcileWrite,
             ReconcileFails
<1>5. ClusterOK'
  BY <1>1, <1>2, <1>3 DEF ClusterOK
<1>6. MemoryOK'
  <2>1. Pending(p) \subseteq Pol
    BY DEF Pending, Selecting, Live
  <2> HIDE DEF Pending
  <2> QED BY <1>1, <2>1 DEF memory, MemoryOK
<1>7. NeutronOK' /\ TasksOK'
  BY <1>1, <1>4 DEF neutron, NeutronOK, TasksOK
<1> QED BY <1>5, <1>6, <1>7

(* The policy workers.                                                     *)
LEMMA TaskOK ==
    ASSUME TasksOK, NEW n \in Pol, NEW new \in PolTask, polWork' = [polWork EXCEPT ![n] = new],
           new.op \in {"rules", "prune"} => new.group \in GroupId, UNCHANGED <<podWork, sweep>>
    PROVE  TasksOK'
<1>1. \A m \in Pol : polWork'[m] = IF m = n THEN new ELSE polWork[m]
  BY DEF TasksOK
<1> QED BY <1>1 DEF TasksOK

LEMMA RulesOK ==
    ASSUME NeutronOK, NEW g \in GroupId, NEW rules \in SUBSET SGRule,
           groups' = [groups EXCEPT ![g].rules = rules], UNCHANGED <<made, peers>>
    PROVE  NeutronOK'
<1> DEFINE new == [groups[g] EXCEPT !.rules = rules]
<1>1. new \in Group
  BY DEF NeutronOK, Group
<1>2. groups' = [groups EXCEPT ![g] = new]
  OBVIOUS
<1> HIDE DEF new
<1> QED BY <1>1, <1>2 DEF NeutronOK

(* What a worker wants written, and what of it Neutron writes.             *)
LEMMA WantedOK ==
    ASSUME TasksOK, NEW n \in Pol
    PROVE  /\ Wanted(n) \subseteq SGRule /\ Wanted(n) \cap DefaultRules = {}
           /\ \A have : Created(Missing(n), have) \subseteq Wanted(n)
<1>1. polWork[n].spec \in PolicySpec
  BY SpecsTyped DEF TasksOK, PolTask
<1>2. Wanted(n) \subseteq SGRule /\ Wanted(n) \cap DefaultRules = {}
  BY <1>1, RulesTyped DEF Wanted
<1>3. \A have : Created(Missing(n), have) \subseteq Wanted(n)
  BY DEF Created, Missing
<1> QED BY <1>2, <1>3

LEMMA SyncOK ==
    ASSUME TypeInv, NEW n \in Pol,
           \/ ForgetPolicy(n) \/ SyncEmpty(n) \/ SyncPolicy(n)
           \/ EnsureAddressGroup(n) \/ SyncRead(n) \/ SyncWrite(n)
    PROVE  TypeInv'
<1> USE DEF TypeInv
<1>1. polWork[n] \in PolTask
  BY DEF TasksOK
<1>2. ClusterOK'
  BY DEF ForgetPolicy, SyncEmpty, SyncPolicy, EnsureAddressGroup, SyncRead, SyncWrite, cluster, ClusterOK
<1>3. CASE ForgetPolicy(n) \/ SyncEmpty(n)
  <2>1. MemoryOK'
    BY <1>3 DEF ForgetPolicy, SyncEmpty, rememberRuleGroup, MemoryOK
  <2>2. NeutronOK' /\ TasksOK'
    BY <1>3 DEF ForgetPolicy, SyncEmpty, neutron, NeutronOK, TasksOK
  <2> QED BY <1>2, <2>1, <2>2
<1>4. CASE SyncPolicy(n)
  <2> DEFINE op == IF NamesPeers(PolicyRules(policy[n])) THEN "peers" ELSE "group"
             new == [PolIdle EXCEPT !.spec = policy[n], !.op = op]
  <2>1. op \in {"peers", "group"}
    OBVIOUS
  <2>2. polWork' = [polWork EXCEPT ![n] = new] /\ UNCHANGED <<podWork, sweep>>
    BY <1>4 DEF SyncPolicy
  <2> HIDE DEF op
  <2>3. new \in PolTask /\ new.op = op
    BY <2>1, Blanks DEF PolTask, ClusterOK
  <2> HIDE DEF new
  <2>4. TasksOK'
    BY <2>1, <2>2, <2>3, TaskOK
  <2>5. NeutronOK' /\ MemoryOK'
    BY <1>4 DEF SyncPolicy, neutron, memory, NeutronOK, MemoryOK
  <2> QED BY <1>2, <2>4, <2>5
<1>5. CASE EnsureAddressGroup(n)
  <2> DEFINE new == [polWork[n] EXCEPT !.op = "read", !.ag = TRUE]
  <2>1. polWork' = [polWork EXCEPT ![n] = new] /\ UNCHANGED <<podWork, sweep>>
    BY <1>5 DEF EnsureAddressGroup
  <2>2. new \in PolTask /\ new.op = "read"
    BY <1>1 DEF PolTask
  <2> HIDE DEF new
  <2>3. TasksOK'
    BY <2>1, <2>2, TaskOK
  <2>4. NeutronOK' /\ MemoryOK'
    BY <1>5 DEF EnsureAddressGroup, memory, queues, NeutronOK, MemoryOK
  <2> QED BY <1>2, <2>3, <2>4
<1>6. CASE SyncRead(n)
  <2> DEFINE add == AddressesFor \ peers.addrs
             remove == peers.addrs \ AddressesFor
             new == [polWork[n] EXCEPT !.op = "write", !.add = add, !.remove = remove]
  <2>1. polWork' = [polWork EXCEPT ![n] = new] /\ UNCHANGED <<podWork, sweep>>
    BY <1>6 DEF SyncRead
  <2>2. add \in SUBSET Pod /\ remove \in SUBSET Pod
    BY DEF AddressesFor, NeutronOK
  <2> HIDE DEF add, remove
  <2>3. new \in PolTask /\ new.op = "write"
    BY <1>1, <2>2 DEF PolTask
  <2> HIDE DEF new
  <2>4. TasksOK'
    BY <2>1, <2>3, TaskOK
  <2>5. NeutronOK' /\ MemoryOK'
    BY <1>6 DEF SyncRead, neutron, memory, queues, NeutronOK, MemoryOK
  <2> QED BY <1>2, <2>4, <2>5
<1>7. CASE SyncWrite(n)
  <2> DEFINE new == [polWork[n] EXCEPT !.op = "group"]
  <2>1. polWork' = [polWork EXCEPT ![n] = new] /\ UNCHANGED <<podWork, sweep>>
    BY <1>7 DEF SyncWrite, Goto
  <2>2. new \in PolTask /\ new.op = "group"
    BY <1>1 DEF PolTask
  <2> HIDE DEF new
  <2>3. TasksOK'
    BY <2>1, <2>2, TaskOK
  <2>4. \E left \in SUBSET Pod : peers' = [peers EXCEPT !.addrs = left]
    <3> DEFINE added == IF polWork[n].add \cap peers.addrs = {} THEN peers.addrs \cup polWork[n].add
                                                                ELSE peers.addrs
               left == IF polWork[n].remove \subseteq added THEN added \ polWork[n].remove ELSE added
    <3>1. peers' = [peers EXCEPT !.addrs = left]
      BY <1>7 DEF SyncWrite
    <3>2. polWork[n].add \subseteq Pod /\ peers.addrs \subseteq Pod
      BY <1>1 DEF PolTask, NeutronOK
    <3>3. added \in SUBSET Pod
      BY <3>2
    <3>4. left \in SUBSET Pod
      <4> HIDE DEF added
      <4> QED BY <3>3
    <3> HIDE DEF left
    <3> QED BY <3>1, <3>4
  <2>5. NeutronOK' /\ MemoryOK'
    BY <1>7, <2>4 DEF SyncWrite, memory, queues, NeutronOK, MemoryOK
  <2> QED BY <1>2, <2>3, <2>5
<1> QED BY <1>3, <1>4, <1>5, <1>6, <1>7

(* ensureGroup finds a group of the policy's, or makes the next one.       *)
LEMMA EnsureShape ==
    ASSUME TypeInv, NEW n \in Pol, ensureGroup(n)
    PROVE  \E g \in GroupId :
             /\ polWork' = [polWork EXCEPT ![n] = [polWork[n] EXCEPT !.op = "rules", !.group = g,
                                                                     !.have = groups'[g].rules]]
             /\ \/ /\ groups[g].of = n /\ UNCHANGED made
                   /\ groups' \in [GroupId -> Group]
                   /\ \A h \in GroupId : \/ groups'[h] = groups[h]
                                         \/ /\ groups[h].of = n /\ groups'[h].desc = "ref"
                                            /\ groups'[h].of = n /\ groups'[h].rules = groups[h].rules
                \/ /\ g = 4 + made /\ made < MaxGroups /\ made' = made + 1
                   /\ groups' = [groups EXCEPT ![g] = [of |-> n, rules |-> DefaultRules, desc |-> "marked"]]
<1> DEFINE mine == {g \in GroupId : groups[g].of = n}
<1>1. CASE mine # {}
  <2> DEFINE g == CHOOSE x \in mine : TRUE
  <2>1. g \in mine
    BY <1>1
  <2>2. \A h \in GroupId :
           /\ groups'[h] = IF h \in mine THEN [groups[h] EXCEPT !.desc = "ref"] ELSE groups[h]
           /\ groups[h] \in Group
    BY <1>1 DEF ensureGroup, TypeInv, NeutronOK
  <2>3. \A h \in GroupId : /\ [groups[h] EXCEPT !.desc = "ref"] \in Group
                           /\ [groups[h] EXCEPT !.desc = "ref"].desc = "ref"
                           /\ [groups[h] EXCEPT !.desc = "ref"].of = groups[h].of
                           /\ [groups[h] EXCEPT !.desc = "ref"].rules = groups[h].rules
    BY <2>2 DEF Group
  <2>4. groups' \in [GroupId -> Group]
    BY <1>1, <2>2, <2>3 DEF ensureGroup
  <2>5. \A h \in GroupId : \/ groups'[h] = groups[h]
                           \/ /\ groups[h].of = n /\ groups'[h].desc = "ref"
                              /\ groups'[h].of = n /\ groups'[h].rules = groups[h].rules
    BY <2>2, <2>3
  <2>6. groups'[g].rules = groups[g].rules
    <3> HIDE DEF g
    <3> QED BY <2>1, <2>5
  <2>7. polWork' = [polWork EXCEPT ![n] = [polWork[n] EXCEPT !.op = "rules", !.group = g,
                                                             !.have = groups[g].rules]]
    BY <1>1 DEF ensureGroup
  <2>8. UNCHANGED made
    BY <1>1 DEF ensureGroup
  <2> HIDE DEF g
  <2>9. g \in GroupId /\ groups[g].of = n
    BY <2>1
  <2> HIDE DEF mine
  <2> QED BY <2>4, <2>5, <2>6, <2>7, <2>8, <2>9
<1>2. CASE mine = {}
  <2> DEFINE new == [of |-> n, rules |-> DefaultRules, desc |-> "marked"]
  <2>1. 4 + made \in GroupId /\ made < MaxGroups /\ made' = made + 1
    BY <1>2, Ids DEF ensureGroup, TypeInv, NeutronOK
  <2>2. groups' = [groups EXCEPT ![4 + made] = new]
    BY <1>2 DEF ensureGroup
  <2>3. new.rules = DefaultRules
    OBVIOUS
  <2>4. groups'[4 + made].rules = DefaultRules
    <3> HIDE DEF new
    <3> QED BY <2>1, <2>2, <2>3 DEF TypeInv, NeutronOK
  <2>5. polWork' = [polWork EXCEPT ![n] = [polWork[n] EXCEPT !.op = "rules", !.group = 4 + made,
                                                             !.have = DefaultRules]]
    BY <1>2 DEF ensureGroup
  <2> QED BY <2>1, <2>2, <2>4, <2>5
<1> QED BY <1>1, <1>2

LEMMA EnsureOK == ASSUME TypeInv, NEW n \in Pol, ensureGroup(n) PROVE TypeInv'
<1>1. PICK g \in GroupId :
             /\ polWork' = [polWork EXCEPT ![n] = [polWork[n] EXCEPT !.op = "rules", !.group = g,
                                                                     !.have = groups'[g].rules]]
             /\ \/ /\ groups[g].of = n /\ UNCHANGED made
                   /\ groups' \in [GroupId -> Group]
                   /\ \A h \in GroupId : \/ groups'[h] = groups[h]
                                         \/ /\ groups[h].of = n /\ groups'[h].desc = "ref"
                                            /\ groups'[h].of = n /\ groups'[h].rules = groups[h].rules
                \/ /\ g = 4 + made /\ made < MaxGroups /\ made' = made + 1
                   /\ groups' = [groups EXCEPT ![g] = [of |-> n, rules |-> DefaultRules, desc |-> "marked"]]
  BY EnsureShape, Zenon
<1> USE DEF TypeInv
<1>2. groups' \in [GroupId -> Group]
  <2> DEFINE new == [of |-> n, rules |-> DefaultRules, desc |-> "marked"]
  <2>1. new \in Group
    BY Blanks DEF Group
  <2> HIDE DEF new
  <2> QED BY <1>1, <2>1 DEF NeutronOK, new
<1>3. made' \in 0..MaxGroups
  BY <1>1, Numbers DEF NeutronOK
<1>4. UNCHANGED <<cluster, peers, memory, queues, podWork, sweep, events>>
  BY DEF ensureGroup
<1>5. NeutronOK' /\ ClusterOK' /\ MemoryOK'
  BY <1>2, <1>3, <1>4 DEF NeutronOK, ClusterOK, MemoryOK, cluster, memory, queues
<1>6. TasksOK'
  <2> DEFINE new == [polWork[n] EXCEPT !.op = "rules", !.group = g, !.have = groups'[g].rules]
  <2>1. groups'[g].rules \in SUBSET SGRule
    BY <1>2 DEF Group
  <2>2. new \in PolTask /\ new.op = "rules" /\ new.group = g
    BY <2>1 DEF TasksOK, PolTask
  <2>3. polWork' = [polWork EXCEPT ![n] = new] /\ UNCHANGED <<podWork, sweep>>
    BY <1>1, <1>4
  <2> HIDE DEF new
  <2> QED BY <2>2, <2>3, TaskOK
<1> QED BY <1>5, <1>6

LEMMA WriteRulesOK ==
    ASSUME TypeInv, NEW n \in Pol, SyncRules(n) \/ SyncPrune(n) \/ SyncFails(n) PROVE TypeInv'
<1> USE DEF TypeInv
<1>1. polWork[n] \in PolTask /\ Wanted(n) \subseteq SGRule
  BY WantedOK DEF TasksOK
<1>a. \A g \in GroupId : groups[g].rules \subseteq SGRule
  BY DEF NeutronOK, Group
<1>2. CASE SyncRules(n)
  <2> DEFINE g == polWork[n].group
             rules == groups[g].rules \cup Created(Missing(n), groups[g].rules)
             new == [polWork[n] EXCEPT !.op = "prune"]
  <2>1. g \in GroupId
    BY <1>2 DEF SyncRules, TasksOK
  <2>2. rules \in SUBSET SGRule
    BY <1>1, <1>a, <2>1, WantedOK
  <2>3. /\ groups' = [groups EXCEPT ![g].rules = rules] /\ polWork' = [polWork EXCEPT ![n] = new]
        /\ UNCHANGED <<cluster, made, peers, memory, queues, podWork, sweep, events>>
    BY <1>2 DEF SyncRules, Goto
  <2>4. new \in PolTask /\ new.group = g
    BY <1>1 DEF PolTask
  <2> HIDE DEF g, rules, new
  <2>5. NeutronOK' /\ TasksOK'
    BY <2>1, <2>2, <2>3, <2>4, RulesOK, TaskOK
  <2>6. ClusterOK' /\ MemoryOK'
    BY <2>3 DEF ClusterOK, MemoryOK, cluster, memory, queues
  <2> QED BY <2>5, <2>6
<1>3. CASE SyncPrune(n)
  <2> DEFINE g == polWork[n].group
             rules == groups[g].rules \ Unwanted(n)
  <2>1. g \in GroupId
    BY <1>3 DEF SyncPrune, TasksOK
  <2>2. rules \in SUBSET SGRule
    BY <1>a, <2>1
  <2>3. /\ groups' = [groups EXCEPT ![g].rules = rules] /\ polWork' = [polWork EXCEPT ![n] = PolIdle]
        /\ ruleGroups' = [ruleGroups EXCEPT ![n] = g]
        /\ UNCHANGED <<cluster, made, peers, baseline, queues, podWork, sweep, events>>
    BY <1>3 DEF SyncPrune, rememberRuleGroup
  <2> HIDE DEF g, rules
  <2>4. NeutronOK' /\ TasksOK'
    BY <2>1, <2>2, <2>3, RulesOK, TaskOK, Blanks
  <2>5. ClusterOK' /\ MemoryOK'
    BY <2>1, <2>3 DEF ClusterOK, MemoryOK, cluster, queues
  <2> QED BY <2>4, <2>5
<1>4. CASE SyncFails(n)
  <2> DEFINE g == polWork[n].group
  <2>1. /\ polWork' = [polWork EXCEPT ![n] = PolIdle] /\ polQueue' = polQueue \cup {n}
        /\ UNCHANGED <<cluster, made, peers, memory, podQueue, podWork, sweep>>
    BY <1>4 DEF SyncFails
  <2>2. events' \in 0..MaxEvents
    BY <1>4, EventOK DEF SyncFails, ClusterOK
  <2>3. NeutronOK'
    <3>1. CASE UNCHANGED groups
      BY <2>1, <3>1 DEF NeutronOK
    <3>2. ASSUME polWork[n].op = "rules",
                 NEW some \in SUBSET Created(Missing(n), groups[g].rules),
                 groups' = [groups EXCEPT ![g].rules = @ \cup some]
          PROVE  NeutronOK'
      <4> DEFINE rules == groups[g].rules \cup some
      <4>1. g \in GroupId
        BY <3>2 DEF TasksOK
      <4>2. rules \in SUBSET SGRule
        BY <1>1, <1>a, <4>1, WantedOK
      <4>3. groups' = [groups EXCEPT ![g].rules = rules]
        BY <3>2
      <4> HIDE DEF rules, g
      <4> QED BY <2>1, <4>1, <4>2, <4>3, RulesOK
    <3> QED BY <1>4, <3>1, <3>2 DEF SyncFails
  <2>4. TasksOK'
    BY <2>1, TaskOK, Blanks
  <2>5. ClusterOK' /\ MemoryOK'
    BY <2>1, <2>2 DEF ClusterOK, MemoryOK, cluster, memory
  <2> QED BY <2>3, <2>4, <2>5
<1> QED BY <1>2, <1>3, <1>4

(* The sweep.                                                              *)
LEMMA SweepOK ==
    ASSUME TypeInv, SweepList \/ SweepPeers \/ (\E g \in GroupId : SweepGroup(g)) PROVE TypeInv'
<1> USE DEF TypeInv
<1>1. UNCHANGED <<cluster, made, memory, queues, podWork, events>>
  BY DEF SweepList, SweepPeers, SweepGroup, neutron
<1>2. ClusterOK' /\ MemoryOK'
  BY <1>1 DEF cluster, memory, queues, ClusterOK, MemoryOK
<1>3. CASE SweepList
  <2> DEFINE doomed == {g \in GroupId : Doomed(g)}
             named == \E g \in {h \in GroupId \ doomed : groups[h].of \in Pol} : NamesPeers(groups[g].rules)
             new == [op |-> "delete", doomed |-> doomed, referenced |-> named]
  <2>1. sweep' = new /\ UNCHANGED <<neutron, podWork, polWork>>
    BY <1>3 DEF SweepList
  <2>2. doomed \in SUBSET GroupId /\ named \in BOOLEAN
    OBVIOUS
  <2> HIDE DEF doomed, named
  <2>3. new \in Sweeping
    BY <2>2 DEF Sweeping
  <2> HIDE DEF new
  <2>4. NeutronOK' /\ TasksOK'
    BY <2>1, <2>3 DEF neutron, NeutronOK, TasksOK
  <2> QED BY <1>2, <2>4
<1>4. ASSUME NEW g \in GroupId, SweepGroup(g) PROVE TypeInv'
  <2> DEFINE new == [sweep EXCEPT !.doomed = @ \ {g}]
  <2>1. new \in Sweeping
    BY DEF TasksOK, Sweeping
  <2>2. sweep' = new /\ UNCHANGED <<made, peers, podWork, polWork>>
    BY <1>4 DEF SweepGroup
  <2> HIDE DEF new
  <2>3. TasksOK'
    BY <2>1, <2>2 DEF TasksOK
  <2>4. groups' = groups \/ groups' = [groups EXCEPT ![g] = NoneSuch]
    BY <1>4 DEF SweepGroup
  <2>5. NeutronOK'
    BY <2>2, <2>4, Blanks DEF NeutronOK
  <2> QED BY <1>2, <2>3, <2>5
<1>5. CASE SweepPeers
  <2>1. sweep' \in Sweeping /\ UNCHANGED <<groups, made, podWork>>
    BY <1>5, Blanks DEF SweepPeers
  <2>2. peers' \in [exists : BOOLEAN, addrs : SUBSET Pod]
    <3>1. peers' = peers \/ peers' = [exists |-> FALSE, addrs |-> {}]
      BY <1>5 DEF SweepPeers
    <3>2. [exists |-> FALSE, addrs |-> {}] \in [exists : BOOLEAN, addrs : SUBSET Pod]
      OBVIOUS
    <3>3. peers \in [exists : BOOLEAN, addrs : SUBSET Pod]
      BY DEF NeutronOK
    <3> QED BY <3>1, <3>2, <3>3, Zenon
  <2>3. CASE UNCHANGED polWork
    BY <1>2, <2>1, <2>2, <2>3 DEF NeutronOK, TasksOK
  <2>4. CASE polWork' = [n \in Pol |-> [polWork[n] EXCEPT !.ag = FALSE]]
    <3>1. \A n \in Pol : /\ [polWork[n] EXCEPT !.ag = FALSE] \in PolTask
                         /\ [polWork[n] EXCEPT !.ag = FALSE].op = polWork[n].op
                         /\ [polWork[n] EXCEPT !.ag = FALSE].group = polWork[n].group
      BY DEF TasksOK, PolTask
    <3>2. /\ polWork' \in [Pol -> PolTask]
          /\ \A n \in Pol : polWork'[n].op = polWork[n].op /\ polWork'[n].group = polWork[n].group
      BY <2>4, <3>1
    <3>3. TasksOK'
      BY <2>1, <3>2 DEF TasksOK
    <3> QED BY <1>2, <2>1, <2>2, <3>3 DEF NeutronOK
  <2> QED BY <1>5, <2>3, <2>4 DEF SweepPeers
<1> QED BY <1>3, <1>4, <1>5

LEMMA NextTypes == TypeInv /\ [Next]_vars => TypeInv'
<1> SUFFICES ASSUME TypeInv, [Next]_vars PROVE TypeInv'
  OBVIOUS
<1>1. CASE UNCHANGED vars
  BY <1>1 DEF vars, TypeInv, ClusterOK, NeutronOK, MemoryOK, TasksOK
<1> QED BY <1>1, PodsOK, PoliciesOK, ProcessOK, ReconcileOK, SyncOK, EnsureOK, WriteRulesOK, SweepOK
        DEF Next

(* Every variable keeps its type: the rules, groups, addresses and tasks   *)
(* of the network policy controller are well formed in every state,        *)
(* whatever fails, restarts or is swept.                                   *)
THEOREM TypeCorrect == Spec => []TypeOK
  BY InitTypes, NextTypes, TypesFollow, PTL DEF Spec

-----------------------------------------------------------------------------
(* Ports.                                                                  *)

(* Groups are numbered in the order they are made, and no number is used   *)
(* twice; the baseline groups are no policy's.                             *)
MadeBefore(g) == g \in GroupId /\ g < 4 + made

Numbered ==
    /\ \A g \in GroupId : g >= 4 + made => groups[g] = NoneSuch
    /\ \A g \in {1, 2, 3} : groups[g].of \notin Pol

(* A group a port may be given: a baseline group, or one that has lost the *)
(* rules Neutron gave it.                                                  *)
Clean(g) == MadeBefore(g) /\ (g > 3 => groups[g].rules \cap DefaultRules = {})

(* Nothing else is on a port, planned for one, about to be written to one, *)
(* or remembered as a policy's; and of a group at work, the worker read    *)
(* every such rule that is still in it.                                    *)
Cleaned ==
    /\ \A p \in Pod : /\ \A g \in port[p] : Clean(g)
                      /\ \A g \in pod[p].plan : Clean(g)
                      /\ \A g \in podWork[p].want : Clean(g)
    /\ \A n \in Pol : ruleGroups[n] \in GroupId => Clean(ruleGroups[n])
    /\ \A n \in Pol : polWork[n].op \in {"rules", "prune"} =>
         /\ polWork[n].group > 3 /\ MadeBefore(polWork[n].group)
         /\ groups[polWork[n].group].rules \cap DefaultRules \subseteq polWork[n].have

(* A port has groups, and they exist.                                      *)
Carried ==
    /\ \A p \in Pod : \A g \in port[p] : Exists(g)
    /\ \A p \in Pod : pod[p].stage = "creating" => pod[p].plan # {}
    /\ \A p \in Pod : podWork[p].op = "write" => podWork[p].want # {}
    /\ \A p \in Pod : Placed(p) => port[p] # {}

PortsInv == TypeInv /\ Numbered /\ Cleaned /\ Carried

(* What a step may do to a group: nothing; add a policy's rules, take some *)
(* away, or correct its description; sweep it, off every port; make it,    *)
(* the next in number; or make it part of the baseline.                    *)
Grows(g) ==
    /\ MadeBefore(g) /\ g > 3
    /\ groups'[g].of = groups[g].of /\ (Exists(g) => groups'[g].desc # "none")
    /\ groups'[g].rules \cap DefaultRules \subseteq groups[g].rules

Swept(g) == groups'[g] = NoneSuch /\ UNCHANGED port /\ \A p \in Pod : g \notin port[p]

Born(g) == g = 4 + made /\ made' = made + 1

Based(g) == g \in {1, 2, 3} /\ groups'[g].of = "baseline" /\ groups'[g].desc = "ref"

GroupsMove ==
    /\ made' \in {made, made + 1}
    /\ \A g \in GroupId : groups'[g] = groups[g] \/ Grows(g) \/ Swept(g) \/ Born(g) \/ Based(g)

LEMMA SameGroups == ASSUME UNCHANGED <<groups, made>> PROVE GroupsMove
  BY DEF GroupsMove

LEMMA NumberedStep == ASSUME PortsInv, TypeInv', GroupsMove PROVE Numbered'
<1> USE DEF PortsInv
<1>0. made' = made \/ made' = made + 1
  BY DEF GroupsMove
<1>a. made \in Nat /\ made' \in Nat
  BY Numbers DEF TypeInv, NeutronOK
<1>1. made \in Nat /\ made' \in Nat /\ made <= made'
  BY <1>0, <1>a
<1>2. ASSUME NEW g \in GroupId, g >= 4 + made' PROVE groups'[g] = NoneSuch
  <2>0. g \in Nat
    BY Ids
  <2>c. g >= 4 + made'
    BY <1>2
  <2>d. g >= 4 + made
    <3>1. CASE made' = made
      BY <2>c, <3>1
    <3>2. CASE made' = made + 1
      BY <1>a, <2>0, <2>c, <3>2
    <3> QED BY <1>0, <3>1, <3>2
  <2>e. ~ (g < 4 + made)
    BY <1>1, <2>0, <2>d
  <2>f. g # 1 /\ g # 2 /\ g # 3
    BY <1>1, <2>0, <2>d
  <2>a. g >= 4 + made /\ ~ (g < 4 + made) /\ g # 1 /\ g # 2 /\ g # 3
    BY <2>d, <2>e, <2>f
  <2>b. made' = made + 1 => g # 4 + made
    BY <1>1, <1>2, <2>0
  <2>1. g >= 4 + made /\ ~ MadeBefore(g) /\ ~ Born(g) /\ ~ Based(g)
    BY <2>a, <2>b DEF MadeBefore, Born, Based
  <2>2. groups[g] = NoneSuch
    BY <2>1 DEF Numbered
  <2> QED BY <2>1, <2>2 DEF GroupsMove, Grows, Swept
<1>3. ASSUME NEW g \in {1, 2, 3} PROVE groups'[g].of \notin Pol
  <2>1. g \in GroupId /\ g < 4 /\ ~ Grows(g) /\ ~ Born(g)
    BY <1>1, Ids DEF Grows, Born
  <2> QED BY <2>1, Names, Blanks DEF GroupsMove, Swept, Based, Numbered
<1> QED BY <1>2, <1>3 DEF Numbered

LEMMA MadeStays == ASSUME TypeInv, GroupsMove, NEW g, MadeBefore(g) PROVE MadeBefore(g)'
<1>1. g \in GroupId /\ g < 4 + made /\ made \in Nat
  BY Numbers DEF TypeInv, NeutronOK, MadeBefore
<1>2. g \in Nat /\ (made' = made \/ made' = made + 1)
  BY <1>1, Ids DEF GroupsMove
<1>3. g < 4 + made'
  BY <1>1, <1>2
<1> QED BY <1>1, <1>3 DEF MadeBefore

(* The rules Neutron gave a group do not come back.                        *)
LEMMA RulesShrink ==
    ASSUME TypeInv, GroupsMove, NEW g, MadeBefore(g), g > 3
    PROVE  groups'[g].rules \cap DefaultRules \subseteq groups[g].rules
<1>1. g \in GroupId /\ g \in Nat /\ made \in Nat /\ g < 4 + made
  BY Ids, Numbers DEF MadeBefore, TypeInv, NeutronOK
<1>2. ~ Born(g) /\ ~ Based(g)
  BY <1>1 DEF Born, Based
<1> QED BY <1>1, <1>2, Blanks DEF GroupsMove, Grows, Swept

LEMMA CleanStays == ASSUME TypeInv, GroupsMove, NEW g, Clean(g) PROVE Clean(g)'
<1>1. MadeBefore(g)'
  BY MadeStays DEF Clean
<1>2. g > 3 => groups'[g].rules \cap DefaultRules = {}
  BY RulesShrink DEF Clean
<1> QED BY <1>1, <1>2 DEF Clean

(* A group on a port is not swept.                                         *)
LEMMA ExistsStays ==
    ASSUME TypeInv, Carried, GroupsMove, NEW p \in Pod, NEW g \in port[p], MadeBefore(g),
           Numbered
    PROVE  groups'[g].desc # "none"
<1>1. g \in GroupId /\ Exists(g) /\ g \in Nat /\ made \in Nat /\ g < 4 + made
  BY Ids, Numbers DEF MadeBefore, TypeInv, NeutronOK, Carried
<1>2. ~ Swept(g) /\ ~ Born(g)
  BY <1>1 DEF Swept, Born
<1> QED BY <1>1, <1>2 DEF GroupsMove, Grows, Based, Exists

(* What it may do to the references to groups.                             *)
RefsMove ==
    /\ \A p \in Pod :
         /\ \/ port'[p] = port[p]
            \/ port'[p] = {} /\ ~ Placed(p)'
            \/ /\ pod[p].stage = "creating" /\ port'[p] = pod[p].plan
               /\ UNCHANGED <<groups, made>> /\ \A g \in pod[p].plan : Exists(g)
            \/ /\ podWork[p].op = "write" /\ port'[p] = podWork[p].want
               /\ UNCHANGED <<groups, made>> /\ \A g \in podWork[p].want : Exists(g)
         /\ Placed(p)' => Placed(p) \/ (pod[p].stage = "creating" /\ port'[p] = pod[p].plan)
         /\ \/ pod'[p].plan = pod[p].plan /\ (pod'[p].stage = "creating" <=> pod[p].stage = "creating")
            \/ pod'[p].plan = {} /\ pod'[p].stage # "creating"
            \/ pod'[p].plan = GroupsFor(p) /\ Pending(p) = {}
         /\ \/ podWork'[p] = podWork[p]
            \/ podWork'[p].want = {} /\ podWork'[p].op = "idle"
            \/ podWork'[p].want = GroupsFor(p) /\ Pending(p) = {}
    /\ \A n \in Pol :
         \/ ruleGroups'[n] = ruleGroups[n]
         \/ ruleGroups'[n] \notin GroupId
         \/ ruleGroups'[n] > 3 /\ MadeBefore(ruleGroups'[n]) /\ groups'[ruleGroups'[n]].rules \cap DefaultRules = {}
    /\ \A n \in Pol :
         \/ polWork'[n].op \notin {"rules", "prune"}
         \/ /\ polWork[n].op \in {"rules", "prune"}
            /\ polWork'[n].group = polWork[n].group /\ polWork'[n].have = polWork[n].have
         \/ /\ polWork'[n].group > 3 /\ polWork'[n].group < 4 + made' /\ polWork'[n].group \in GroupId
            /\ polWork'[n].have = groups'[polWork'[n].group].rules

LEMMA ChosenClean ==
    ASSUME PortsInv, NEW p \in Pod, Pending(p) = {}, NEW g \in GroupsFor(p) PROVE Clean(g)
<1>1. g \in {1, 2, 3} \/ \E n \in Pol : ruleGroups[n] = g /\ g \in GroupId
  BY GroupsForOK DEF PortsInv, TypeInv
<1>2. \A h \in {1, 2, 3} : Clean(h)
  BY Ids, Numbers DEF Clean, MadeBefore, PortsInv, TypeInv, NeutronOK
<1> QED BY <1>1, <1>2 DEF PortsInv, Cleaned

LEMMA CleanedStep == ASSUME PortsInv, TypeInv', GroupsMove, RefsMove PROVE Cleaned'
<1> USE DEF PortsInv
<1>a. \A g : Clean(g) => Clean(g)'
  BY CleanStays
<1>1. ASSUME NEW p \in Pod, NEW g, g \in port'[p] \/ g \in pod'[p].plan \/ g \in podWork'[p].want
      PROVE  Clean(g)'
  <2>1. \/ g \in port[p] \/ g \in pod[p].plan \/ g \in podWork[p].want
        \/ g \in GroupsFor(p) /\ Pending(p) = {}
    BY <1>1 DEF RefsMove
  <2>2. Clean(g)
    BY <2>1, ChosenClean DEF Cleaned
  <2> QED BY <1>a, <2>2
<1>2. ASSUME NEW n \in Pol, NEW g \in GroupId, ruleGroups'[n] = g PROVE Clean(g)'
  <2>1. CASE ruleGroups[n] = g
    BY <1>a, <2>1 DEF Cleaned
  <2>2. CASE MadeBefore(g) /\ groups'[g].rules \cap DefaultRules = {}
    BY <2>2, MadeStays DEF Clean
  <2> QED BY <1>2, <2>1, <2>2 DEF RefsMove
<1>3. ASSUME NEW n \in Pol, polWork'[n].op \in {"rules", "prune"}, NEW g, g = polWork'[n].group
      PROVE  g > 3 /\ MadeBefore(g)' /\ groups'[g].rules \cap DefaultRules \subseteq polWork'[n].have
  <2>1. CASE /\ polWork[n].op \in {"rules", "prune"}
             /\ polWork[n].group = g /\ polWork'[n].have = polWork[n].have
    <3>1. g > 3 /\ MadeBefore(g) /\ groups[g].rules \cap DefaultRules \subseteq polWork[n].have
      BY <2>1 DEF Cleaned
    <3>2. MadeBefore(g)'
      BY <3>1, MadeStays
    <3>3. groups'[g].rules \cap DefaultRules \subseteq groups[g].rules
      BY <3>1, RulesShrink
    <3> QED BY <2>1, <3>1, <3>2, <3>3
  <2>2. CASE g > 3 /\ g < 4 + made' /\ g \in GroupId /\ polWork'[n].have = groups'[g].rules
    BY <2>2 DEF MadeBefore
  <2> QED BY <1>3, <2>1, <2>2 DEF RefsMove
<1> QED BY <1>1, <1>2, <1>3 DEF Cleaned, Clean, MadeBefore

LEMMA CarriedStep == ASSUME PortsInv, TypeInv', GroupsMove, RefsMove PROVE Carried'
<1> USE DEF PortsInv
<1>1. ASSUME NEW p \in Pod, NEW g \in port'[p] PROVE groups'[g].desc # "none"
  <2>1. CASE g \in port[p]
    BY <2>1, ExistsStays DEF Cleaned, Clean
  <2> QED BY <1>1, <2>1 DEF RefsMove, Exists
<1>2. ASSUME NEW p \in Pod, Placed(p)' PROVE port'[p] # {}
  BY <1>2 DEF RefsMove, Carried
<1>3. ASSUME NEW p \in Pod, pod'[p].stage = "creating" PROVE pod'[p].plan # {}
  BY <1>3, GroupsForOK DEF RefsMove, Carried, TypeInv
<1>4. ASSUME NEW p \in Pod, podWork'[p].op = "write" PROVE podWork'[p].want # {}
  BY <1>4, GroupsForOK DEF RefsMove, Carried, TypeInv
<1> QED BY <1>1, <1>2, <1>3, <1>4 DEF Carried, Exists

(* How each step moves.                                                    *)
LEMMA UntouchedRefs ==
    ASSUME TypeInv, UNCHANGED <<pod, port, podWork>>, UNCHANGED <<ruleGroups, polWork>>
    PROVE  RefsMove
  BY DEF RefsMove, Placed

LEMMA PodsMove ==
    ASSUME PortsInv, NEW p \in Pod,
           \/ AddPod(p) \/ RemovePod(p) \/ (\E l \in Label : Relabel(p, l))
           \/ securityGroupsFor(p) \/ CreateCapsule(p) \/ PublishAddress(p)
    PROVE  GroupsMove /\ RefsMove
<1>1. UNCHANGED <<groups, made, ruleGroups, podWork, polWork>>
  BY DEF AddPod, RemovePod, Relabel, securityGroupsFor, CreateCapsule, PublishAddress, neutron, memory
<1>2. \A q \in Pod : pod[q] \in PodRec /\ pod \in [Pod -> PodRec] /\ port \in [Pod -> SUBSET GroupId]
  BY DEF PortsInv, TypeInv, ClusterOK
<1>3. \A q \in Pod : q # p => pod'[q] = pod[q] /\ port'[q] = port[q]
  BY <1>2 DEF AddPod, RemovePod, Relabel, securityGroupsFor, CreateCapsule, PublishAddress, PodUpdated
<1>4. CASE AddPod(p)
  <2>1. pod'[p].stage = "pending" /\ pod'[p].plan = pod[p].plan /\ port' = port /\ pod[p].stage = "absent"
    BY <1>2, <1>4 DEF AddPod, PodRec
  <2> QED BY <1>1, <1>3, <2>1, SameGroups DEF RefsMove, Placed
<1>5. CASE RemovePod(p)
  <2>1. pod'[p].stage = "absent" /\ pod'[p].plan = {} /\ port'[p] = {}
    BY <1>2, <1>5 DEF RemovePod, PodRec
  <2> QED BY <1>1, <1>3, <2>1, SameGroups DEF RefsMove, Placed
<1>6. ASSUME NEW l \in Label, Relabel(p, l) PROVE GroupsMove /\ RefsMove
  <2>1. pod'[p].stage = pod[p].stage /\ pod'[p].plan = pod[p].plan /\ port' = port
    BY <1>2, <1>6 DEF Relabel, PodUpdated, PodRec
  <2> QED BY <1>1, <1>3, <2>1, SameGroups DEF RefsMove, Placed
<1>7. CASE securityGroupsFor(p)
  <2>1. /\ pod'[p].stage = "creating" /\ pod'[p].plan = GroupsFor(p) /\ port' = port
        /\ Pending(p) = {}
    <3> HIDE DEF GroupsFor
    <3> QED BY <1>2, <1>7 DEF securityGroupsFor, PodRec
  <2> QED BY <1>1, <1>3, <2>1, SameGroups DEF RefsMove, Placed
<1>8. CASE CreateCapsule(p)
  <2>0. pod[p].stage = "creating"
    BY <1>8 DEF CreateCapsule
  <2>1. CASE \A g \in pod[p].plan : Exists(g)
    <3>1. pod'[p].stage = "placed" /\ pod'[p].plan = {} /\ port'[p] = pod[p].plan
      BY <1>2, <1>8, <2>1 DEF CreateCapsule, PodRec
    <3> QED BY <1>1, <1>3, <2>0, <2>1, <3>1, SameGroups DEF RefsMove, Placed
  <2>2. CASE ~ \A g \in pod[p].plan : Exists(g)
    <3>1. pod'[p].stage = "pending" /\ pod'[p].plan = {} /\ port' = port
      BY <1>2, <1>8, <2>2 DEF CreateCapsule, PodRec
    <3> QED BY <1>1, <1>3, <2>0, <3>1, SameGroups DEF RefsMove, Placed
  <2> QED BY <2>1, <2>2
<1>9. CASE PublishAddress(p)
  <2>1. pod'[p].stage = "running" /\ pod[p].stage = "placed" /\ pod'[p].plan = pod[p].plan /\ port' = port
    BY <1>2, <1>9 DEF PublishAddress, PodUpdated, PodRec
  <2> QED BY <1>1, <1>3, <2>1, SameGroups DEF RefsMove, Placed
<1> QED BY <1>4, <1>5, <1>6, <1>7, <1>8, <1>9

LEMMA ReconcileMoves ==
    ASSUME PortsInv, NEW p \in Pod,
           \/ ReconcileNothing(p) \/ ReconcileMisread(p) \/ ReconcilePending(p)
           \/ ReconcileGroups(p) \/ ReconcileWrite(p) \/ ReconcileFails(p)
    PROVE  GroupsMove /\ RefsMove
<1>1. UNCHANGED <<groups, made, pod, ruleGroups, polWork>>
  BY DEF ReconcileNothing, ReconcileMisread, ReconcilePending, ReconcileGroups, ReconcileWrite,
         ReconcileFails, cluster, neutron, memory
<1>2. podWork \in [Pod -> PodTask] /\ port \in [Pod -> SUBSET GroupId]
  BY DEF PortsInv, TypeInv, TasksOK, ClusterOK
<1>3. GroupsMove
  BY <1>1, SameGroups
<1>4. CASE UNCHANGED <<port, podWork>>
  BY <1>1, <1>3, <1>4, UntouchedRefs DEF PortsInv
<1>5. CASE ReconcileGroups(p)
  <2> DEFINE new == [op |-> "write", want |-> GroupsFor(p)]
  <2>1. podWork' = [podWork EXCEPT ![p] = new] /\ port' = port /\ Pending(p) = {}
    BY <1>5 DEF ReconcileGroups, cluster
  <2>2. new.want = GroupsFor(p)
    OBVIOUS
  <2> HIDE DEF new
  <2>3. podWork'[p] = new /\ \A q \in Pod : q # p => podWork'[q] = podWork[q]
    BY <1>2, <2>1
  <2> QED BY <1>1, <1>3, <2>1, <2>2, <2>3 DEF RefsMove, Placed
<1>6. CASE podWork[p].op = "write" /\ podWork' = [podWork EXCEPT ![p] = PodIdle]
  <2>1. podWork'[p] = PodIdle /\ \A q \in Pod : q # p => podWork'[q] = podWork[q]
    BY <1>2, <1>6
  <2>2. \/ port' = port
        \/ port' = [port EXCEPT ![p] = podWork[p].want] /\ \A g \in podWork[p].want : Exists(g)
    BY DEF ReconcileNothing, ReconcileMisread, ReconcilePending, ReconcileGroups, ReconcileWrite,
           ReconcileFails, cluster
  <2>3. \A q \in Pod : \/ port'[q] = port[q]
                       \/ q = p /\ port'[q] = podWork[q].want /\ \A g \in podWork[q].want : Exists(g)
    BY <1>2, <2>2
  <2>4. PodIdle.want = {} /\ PodIdle.op = "idle"
    BY Blanks
  <2> QED BY <1>1, <1>3, <1>6, <2>1, <2>3, <2>4 DEF RefsMove, Placed
<1> QED BY <1>4, <1>5, <1>6 DEF ReconcileNothing, ReconcileMisread, ReconcilePending, ReconcileWrite,
           ReconcileFails, cluster

LEMMA ProcessMoves ==
    ASSUME PortsInv, EnsureBaseline \/ Crash \/ resyncPolicies PROVE GroupsMove /\ RefsMove
<1>1. CASE EnsureBaseline
  <2> DEFINE ga == [of |-> "baseline", rules |-> {}, desc |-> "ref"]
             gb == [of |-> "baseline", rules |-> Anywhere("ingress"), desc |-> "ref"]
             gc == [of |-> "baseline", rules |-> DefaultRules, desc |-> "ref"]
  <2>1. \A x \in {ga, gb, gc} : x.of = "baseline" /\ x.desc = "ref"
    OBVIOUS
  <2>2. groups' = [groups EXCEPT ![1] = ga, ![2] = gb, ![3] = gc] /\ made' = made
    BY <1>1 DEF EnsureBaseline, denyAll, allowIngress, allowEgress
  <2> HIDE DEF ga, gb, gc
  <2>3. \A g \in GroupId : groups'[g] = groups[g] \/ (g \in {1, 2, 3} /\ groups'[g] \in {ga, gb, gc})
    BY <2>2 DEF PortsInv, TypeInv, NeutronOK
  <2>4. GroupsMove
    BY <2>1, <2>2, <2>3 DEF GroupsMove, Based
  <2>5. UNCHANGED <<pod, port, podWork, ruleGroups, polWork>>
    BY <1>1 DEF EnsureBaseline, cluster
  <2> QED BY <2>4, <2>5, UntouchedRefs DEF PortsInv
<1>2. CASE Crash
  <2>1. GroupsMove /\ port' = port
    BY <1>2, SameGroups DEF Crash, neutron
  <2>2. \A p \in Pod : \/ pod'[p] = pod[p] /\ pod[p].stage # "creating"
                       \/ pod'[p].stage = "pending" /\ pod'[p].plan = {}
    BY <1>2 DEF Crash, PortsInv, TypeInv, ClusterOK, PodRec
  <2>3. /\ \A p \in Pod : podWork'[p].want = {} /\ podWork'[p].op = "idle"
        /\ \A n \in Pol : polWork'[n].op = "idle" /\ ruleGroups'[n] \notin GroupId
    BY <1>2, Blanks, Ids DEF Crash, Unprepared
  <2> QED BY <2>1, <2>2, <2>3 DEF RefsMove, Placed
<1>3. CASE resyncPolicies
  BY <1>3, SameGroups, UntouchedRefs DEF PortsInv, resyncPolicies, cluster, neutron, memory
<1> QED BY <1>1, <1>2, <1>3

(* The policy workers leave the pods alone.                                *)
LEMMA PolicyRefs ==
    ASSUME PortsInv, NEW n \in Pol, UNCHANGED <<pod, port, podWork, ruleGroups>>, NEW new,
           polWork' = [polWork EXCEPT ![n] = new],
           \/ new.op \notin {"rules", "prune"}
           \/ /\ polWork[n].op \in {"rules", "prune"}
              /\ new.group = polWork[n].group /\ new.have = polWork[n].have
           \/ /\ new.group > 3 /\ new.group < 4 + made' /\ new.group \in GroupId
              /\ new.have = groups'[new.group].rules
    PROVE  RefsMove
<1>1. polWork'[n] = new /\ \A m \in Pol : m # n => polWork'[m] = polWork[m]
  BY DEF PortsInv, TypeInv, TasksOK
<1> QED BY <1>1 DEF RefsMove, Placed

LEMMA SyncMoves ==
    ASSUME PortsInv, NEW n \in Pol,
           \/ ForgetPolicy(n) \/ SyncEmpty(n) \/ SyncPolicy(n)
           \/ EnsureAddressGroup(n) \/ SyncRead(n) \/ SyncWrite(n)
    PROVE  GroupsMove /\ RefsMove
<1>1. UNCHANGED <<groups, made, pod, port, podWork>>
  BY DEF ForgetPolicy, SyncEmpty, SyncPolicy, EnsureAddressGroup, SyncRead, SyncWrite, cluster, neutron
<1>2. GroupsMove
  BY <1>1, SameGroups
<1>3. polWork[n] \in PolTask
  BY DEF PortsInv, TypeInv, TasksOK
<1>4. CASE ForgetPolicy(n) \/ SyncEmpty(n)
  <2>1. polWork' = polWork /\ \A m \in Pol : ruleGroups'[m] = ruleGroups[m] \/ ruleGroups'[m] \notin GroupId
    BY <1>4, Ids DEF ForgetPolicy, SyncEmpty, rememberRuleGroup, Unprepared, NoGroup, PortsInv, TypeInv,
       MemoryOK
  <2> QED BY <1>1, <1>2, <2>1 DEF RefsMove, Placed
<1>5. ASSUME UNCHANGED ruleGroups, NEW new, polWork' = [polWork EXCEPT ![n] = new],
             new.op \notin {"rules", "prune"}
      PROVE  RefsMove
  BY <1>1, <1>5, PolicyRefs
<1>6. CASE SyncPolicy(n)
  <2> DEFINE op == IF NamesPeers(PolicyRules(policy[n])) THEN "peers" ELSE "group"
             new == [PolIdle EXCEPT !.spec = policy[n], !.op = op]
  <2>1. op \in {"peers", "group"}
    OBVIOUS
  <2>2. polWork' = [polWork EXCEPT ![n] = new] /\ ruleGroups' = ruleGroups
    BY <1>6 DEF SyncPolicy, memory
  <2> HIDE DEF op
  <2>3. new.op = op
    BY DEF PolIdle
  <2> HIDE DEF new
  <2> QED BY <1>2, <1>5, <2>1, <2>2, <2>3
<1>7. CASE EnsureAddressGroup(n)
  <2> DEFINE new == [polWork[n] EXCEPT !.op = "read", !.ag = TRUE]
  <2>1. polWork' = [polWork EXCEPT ![n] = new] /\ ruleGroups' = ruleGroups
    BY <1>7 DEF EnsureAddressGroup, memory
  <2>2. new.op = "read"
    BY <1>3 DEF PolTask
  <2> HIDE DEF new
  <2> QED BY <1>2, <1>5, <2>1, <2>2
<1>8. CASE SyncRead(n)
  <2> DEFINE new == [polWork[n] EXCEPT !.op = "write", !.add = AddressesFor \ peers.addrs,
                                       !.remove = peers.addrs \ AddressesFor]
  <2>1. polWork' = [polWork EXCEPT ![n] = new] /\ ruleGroups' = ruleGroups
    BY <1>8 DEF SyncRead, memory
  <2>2. new.op = "write"
    BY <1>3 DEF PolTask
  <2> HIDE DEF new
  <2> QED BY <1>2, <1>5, <2>1, <2>2
<1>9. CASE SyncWrite(n)
  <2> DEFINE new == [polWork[n] EXCEPT !.op = "group"]
  <2>1. polWork' = [polWork EXCEPT ![n] = new] /\ ruleGroups' = ruleGroups
    BY <1>9 DEF SyncWrite, Goto, memory
  <2>2. new.op = "group"
    BY <1>3 DEF PolTask
  <2> HIDE DEF new
  <2> QED BY <1>2, <1>5, <2>1, <2>2
<1> QED BY <1>4, <1>6, <1>7, <1>8, <1>9

LEMMA EnsureMoves == ASSUME PortsInv, NEW n \in Pol, ensureGroup(n) PROVE GroupsMove /\ RefsMove
<1>0. TypeInv
  BY DEF PortsInv
<1>1. PICK g \in GroupId :
             /\ polWork' = [polWork EXCEPT ![n] = [polWork[n] EXCEPT !.op = "rules", !.group = g,
                                                                     !.have = groups'[g].rules]]
             /\ \/ /\ groups[g].of = n /\ UNCHANGED made
                   /\ groups' \in [GroupId -> Group]
                   /\ \A h \in GroupId : \/ groups'[h] = groups[h]
                                         \/ /\ groups[h].of = n /\ groups'[h].desc = "ref"
                                            /\ groups'[h].of = n /\ groups'[h].rules = groups[h].rules
                \/ /\ g = 4 + made /\ made < MaxGroups /\ made' = made + 1
                   /\ groups' = [groups EXCEPT ![g] = [of |-> n, rules |-> DefaultRules, desc |-> "marked"]]
  BY <1>0, EnsureShape, Zenon
<1>2. made \in Nat /\ g \in Nat
  BY <1>0, Ids, Numbers DEF TypeInv, NeutronOK
<1>3. ASSUME NEW h \in GroupId, groups[h].of = n PROVE MadeBefore(h) /\ h > 3
  <2>1. h \in Nat /\ h \notin {1, 2, 3} /\ h # 0
    BY <1>3, Ids DEF PortsInv, Numbered
  <2>2. ~ (h >= 4 + made)
    BY <1>3, Names, Blanks DEF PortsInv, Numbered
  <2>3. h > 3 /\ h < 4 + made
    BY <1>2, <2>1, <2>2
  <2> QED BY <1>3, <2>3 DEF MadeBefore
<1>4. GroupsMove /\ g > 3 /\ g < 4 + made'
  <2>1. CASE /\ groups[g].of = n /\ UNCHANGED made
             /\ \A h \in GroupId : \/ groups'[h] = groups[h]
                                   \/ /\ groups[h].of = n /\ groups'[h].desc = "ref"
                                      /\ groups'[h].of = n /\ groups'[h].rules = groups[h].rules
    <3>1. \A h \in GroupId : groups'[h] = groups[h] \/ Grows(h)
      BY <1>3, <2>1 DEF Grows
    <3>2. MadeBefore(g) /\ g > 3
      BY <1>3, <2>1
    <3> QED BY <2>1, <3>1, <3>2 DEF GroupsMove, MadeBefore
  <2>2. CASE /\ g = 4 + made /\ made' = made + 1
             /\ groups' = [groups EXCEPT ![g] = [of |-> n, rules |-> DefaultRules, desc |-> "marked"]]
    <3>1. \A h \in GroupId : h # g => groups'[h] = groups[h]
      BY <1>0, <2>2 DEF TypeInv, NeutronOK
    <3>2. Born(g)
      BY <2>2 DEF Born
    <3>3. g > 3 /\ g < 4 + made'
      BY <1>2, <2>2
    <3> QED BY <2>2, <3>1, <3>2, <3>3 DEF GroupsMove
  <2> QED BY <1>1, <2>1, <2>2
<1>5. RefsMove
  <2> DEFINE new == [polWork[n] EXCEPT !.op = "rules", !.group = g, !.have = groups'[g].rules]
  <2>1. new.group = g /\ new.have = groups'[g].rules
    BY <1>0 DEF TypeInv, TasksOK, PolTask
  <2>2. polWork' = [polWork EXCEPT ![n] = new] /\ UNCHANGED <<pod, port, podWork, ruleGroups>>
    BY <1>1 DEF ensureGroup, cluster, memory
  <2> HIDE DEF new
  <2> QED BY <1>4, <2>1, <2>2, PolicyRefs
<1> QED BY <1>4, <1>5

(* A change of the rules of a group that adds none of Neutron's own.       *)
LEMMA RulesMove ==
    ASSUME PortsInv, NEW g \in GroupId, MadeBefore(g), g > 3, NEW rules, UNCHANGED made,
           groups' = [groups EXCEPT ![g].rules = rules],
           rules \cap DefaultRules \subseteq groups[g].rules
    PROVE  GroupsMove /\ groups'[g].rules = rules
<1> DEFINE new == [groups[g] EXCEPT !.rules = rules]
<1>1. new.rules = rules /\ new.of = groups[g].of /\ new.desc = groups[g].desc
  BY DEF PortsInv, TypeInv, NeutronOK, Group
<1>2. groups' = [groups EXCEPT ![g] = new]
  OBVIOUS
<1> HIDE DEF new
<1>3. groups'[g] = new /\ \A h \in GroupId : h # g => groups'[h] = groups[h]
  BY <1>2 DEF PortsInv, TypeInv, NeutronOK
<1>4. Grows(g)
  BY <1>1, <1>3 DEF Grows, Exists
<1> QED BY <1>1, <1>3, <1>4 DEF GroupsMove

LEMMA WriteRulesMove ==
    ASSUME PortsInv, NEW n \in Pol, SyncRules(n) \/ SyncPrune(n) \/ SyncFails(n)
    PROVE  GroupsMove /\ RefsMove
<1> DEFINE g == polWork[n].group
<1>1. /\ polWork[n] \in PolTask /\ Wanted(n) \cap DefaultRules = {}
      /\ \A have : Created(Missing(n), have) \subseteq Wanted(n)
  BY WantedOK DEF PortsInv, TypeInv, TasksOK
<1>2. polWork[n].op \in {"rules", "prune"} =>
         /\ g \in GroupId /\ MadeBefore(g) /\ g > 3
         /\ groups[g].rules \cap DefaultRules \subseteq polWork[n].have
  BY DEF PortsInv, Cleaned, MadeBefore
<1>3. CASE SyncRules(n)
  <2> DEFINE rules == groups[g].rules \cup Created(Missing(n), groups[g].rules)
             new == [polWork[n] EXCEPT !.op = "prune"]
  <2>1. /\ groups' = [groups EXCEPT ![g].rules = rules] /\ polWork' = [polWork EXCEPT ![n] = new]
        /\ UNCHANGED <<made, pod, port, podWork, ruleGroups>> /\ polWork[n].op = "rules"
    BY <1>3 DEF SyncRules, Goto, cluster, memory
  <2>2. rules \cap DefaultRules \subseteq groups[g].rules
    BY <1>1
  <2>3. new.group = polWork[n].group /\ new.have = polWork[n].have
    BY <1>1 DEF PolTask
  <2> HIDE DEF rules, new, g
  <2> QED BY <1>2, <2>1, <2>2, <2>3, RulesMove, PolicyRefs
<1>4. CASE SyncPrune(n)
  <2> DEFINE rules == groups[g].rules \ Unwanted(n)
  <2>1. /\ groups' = [groups EXCEPT ![g].rules = rules] /\ polWork' = [polWork EXCEPT ![n] = PolIdle]
        /\ ruleGroups' = [ruleGroups EXCEPT ![n] = g]
        /\ UNCHANGED <<made, pod, port, podWork>> /\ polWork[n].op = "prune"
    BY <1>4 DEF SyncPrune, rememberRuleGroup, cluster
  <2>2. rules \cap DefaultRules = {}
    BY <1>1, <1>2, <2>1 DEF Unwanted
  <2> HIDE DEF rules, g
  <2>3. GroupsMove /\ groups'[g].rules = rules
    BY <1>2, <2>1, <2>2, RulesMove
  <2>4. /\ ruleGroups'[n] = g /\ \A m \in Pol : m # n => ruleGroups'[m] = ruleGroups[m]
        /\ polWork'[n] = PolIdle /\ \A m \in Pol : m # n => polWork'[m] = polWork[m]
    BY <2>1 DEF PortsInv, TypeInv, TasksOK, MemoryOK
  <2>5. RefsMove
    BY <1>2, <2>1, <2>2, <2>3, <2>4, Blanks DEF RefsMove, Placed
  <2> QED BY <2>3, <2>5
<1>5. CASE SyncFails(n)
  <2>1. /\ polWork' = [polWork EXCEPT ![n] = PolIdle]
        /\ UNCHANGED <<made, pod, port, podWork, ruleGroups>>
    BY <1>5 DEF SyncFails, cluster, memory
  <2>2. RefsMove
    BY <2>1, PolicyRefs, Blanks
  <2>3. CASE UNCHANGED groups
    BY <2>1, <2>2, <2>3, SameGroups
  <2>4. ASSUME polWork[n].op = "rules", NEW some \in SUBSET Created(Missing(n), groups[g].rules),
               groups' = [groups EXCEPT ![g].rules = @ \cup some]
        PROVE  GroupsMove
    <3> DEFINE rules == groups[g].rules \cup some
    <3>1. groups' = [groups EXCEPT ![g].rules = rules]
      BY <2>4
    <3>2. rules \cap DefaultRules \subseteq groups[g].rules
      BY <1>1
    <3> HIDE DEF rules, g
    <3> QED BY <1>2, <2>1, <2>4, <3>1, <3>2, RulesMove
  <2> QED BY <1>5, <2>2, <2>3, <2>4 DEF SyncFails
<1> QED BY <1>3, <1>4, <1>5

LEMMA SweepMoves ==
    ASSUME PortsInv, SweepList \/ SweepPeers \/ (\E g \in GroupId : SweepGroup(g))
    PROVE  GroupsMove /\ RefsMove
<1>1. UNCHANGED <<made, pod, port, podWork, ruleGroups>>
  BY DEF SweepList, SweepPeers, SweepGroup, cluster, neutron, memory
<1>2. CASE SweepList
  BY <1>1, <1>2, SameGroups, UntouchedRefs DEF SweepList, neutron, PortsInv
<1>3. ASSUME NEW g \in GroupId, SweepGroup(g) PROVE GroupsMove /\ RefsMove
  <2>1. polWork' = polWork /\ (UNCHANGED groups \/ /\ \A p \in Pod : g \notin port[p]
                                                   /\ groups' = [groups EXCEPT ![g] = NoneSuch])
    BY <1>3 DEF SweepGroup
  <2>2. \A h \in GroupId : groups'[h] = groups[h] \/ Swept(h)
    BY <1>1, <2>1 DEF Swept, PortsInv, TypeInv, NeutronOK
  <2> QED BY <1>1, <2>1, <2>2, UntouchedRefs DEF GroupsMove, PortsInv
<1>4. CASE SweepPeers
  <2>1. UNCHANGED groups
    BY <1>4 DEF SweepPeers
  <2>2. \A n \in Pol : /\ polWork'[n].op = polWork[n].op /\ polWork'[n].group = polWork[n].group
                       /\ polWork'[n].have = polWork[n].have
    <3>1. \A n \in Pol : polWork'[n] = polWork[n] \/ polWork'[n] = [polWork[n] EXCEPT !.ag = FALSE]
      BY <1>4 DEF SweepPeers
    <3> QED BY <3>1 DEF PortsInv, TypeInv, TasksOK, PolTask
  <2>3. RefsMove
    BY <1>1, <2>2 DEF RefsMove, Placed
  <2> QED BY <1>1, <2>1, <2>3, SameGroups
<1> QED BY <1>2, <1>3, <1>4

LEMMA NextPorts == PortsInv /\ [Next]_vars => PortsInv'
<1> SUFFICES ASSUME PortsInv, [Next]_vars PROVE PortsInv'
  OBVIOUS
<1>1. GroupsMove /\ RefsMove
  <2>1. CASE UNCHANGED vars
    BY <2>1, SameGroups, UntouchedRefs DEF vars, PortsInv
  <2>2. ASSUME NEW n \in Pol, DeletePolicy(n) \/ (\E spec \in Specs : SetPolicy(n, spec))
        PROVE  GroupsMove /\ RefsMove
    BY <2>2, SameGroups, UntouchedRefs DEF DeletePolicy, SetPolicy, neutron, memory, PortsInv
  <2> QED BY <2>1, <2>2, PodsMove, ReconcileMoves, ProcessMoves, SyncMoves, EnsureMoves,
             WriteRulesMove, SweepMoves DEF Next
<1>2. TypeInv'
  BY NextTypes DEF PortsInv
<1> QED BY <1>1, <1>2, NumberedStep, CleanedStep, CarriedStep DEF PortsInv

LEMMA InitPorts == Init => PortsInv
<1> SUFFICES ASSUME Init PROVE PortsInv
  OBVIOUS
<1>1. TypeInv
  BY InitTypes
<1>2. Numbered
  BY Ids, Names, Blanks DEF Init, Numbered
<1>3. Cleaned
  BY Ids, Blanks DEF Init, Cleaned, Unprepared
<1>4. Carried
  BY Blanks DEF Init, Carried, Placed
<1> QED BY <1>1, <1>2, <1>3, <1>4 DEF PortsInv

(* Whatever crashes, fails or is swept while groups are built and pods     *)
(* created, a port has groups, all of which exist, and none of a policy's  *)
(* still holds the rules Neutron puts in every new group: SyncPolicyPeers  *)
(* remembers a group only when its unwanted rules are gone, numbers are    *)
(* not used again, and Neutron refuses to delete a group on a port.        *)
THEOREM PortsAreGuarded == Spec => []PortsGuarded
<1>1. PortsInv => PortsGuarded
  <2> SUFFICES ASSUME PortsInv, NEW p \in Pod, Placed(p)
               PROVE  /\ port[p] # {}
                      /\ \A g \in port[p] :
                           Exists(g) /\ (groups[g].of \in Pol => groups[g].rules \cap DefaultRules = {})
    BY DEF PortsGuarded
  <2>1. port[p] # {} /\ \A g \in port[p] : Exists(g) /\ Clean(g)
    BY DEF PortsInv, Carried, Cleaned
  <2>2. ASSUME NEW g \in port[p], groups[g].of \in Pol PROVE g > 3
    <3>1. g \in GroupId /\ g \notin {1, 2, 3}
      BY <2>1, <2>2 DEF Clean, MadeBefore, PortsInv, Numbered
    <3>2. g \in Nat /\ g # 0
      BY <3>1, Ids
    <3> QED BY <3>1, <3>2
  <2> QED BY <2>1, <2>2 DEF Clean
<1> QED BY <1>1, InitPorts, NextPorts, PTL DEF Spec

=============================================================================
