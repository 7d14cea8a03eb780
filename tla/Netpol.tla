------------------------------- MODULE Netpol -------------------------------
(***************************************************************************)
(* The network policy controller of pkg/netpol: one security group per     *)
(* policy, an address group for the pods its rules select, and a port that *)
(* carries the groups of the policies selecting its pod.                   *)
(*                                                                         *)
(* Two queues: pods ("which groups should this port hold") and policies    *)
(* ("what do this policy's groups hold"). A key is worked on by one worker *)
(* at a time, and keys of either queue in parallel, with the sweep of      *)
(* unused groups and with CreatePod, which asks the same GroupsFor. Every  *)
(* call to Neutron is a step of its own where another actor can come       *)
(* between.                                                                *)
(*                                                                         *)
(* Pods and policies are what the informers' stores hold; their handlers   *)
(* run in the step that changes the store. One namespace and one tenant.   *)
(***************************************************************************)
EXTENDS Policy, Integers, FiniteSets

CONSTANTS
    Pol,          \* policy names
    Specs,        \* the specs a policy may be given
    FirstLabel,   \* Pod -> the label it is created with
    Misread,      \* pods whose capsule portOf may fail to read
    MaxGroups,    \* bound: policy groups ever made
    MaxEvents     \* bound: changes of pods and policies, crashes, failed calls

ASSUME NetpolAssumption ==
    /\ Pol \cap {"baseline", "none"} = {}
    /\ Specs \subseteq PolicySpec
    /\ FirstLabel \in [Pod -> Label]
    /\ Misread \subseteq Pod
    /\ MaxGroups \in Nat /\ MaxEvents \in Nat

VARIABLES
    policy,       \* Pol -> its spec
    pod,          \* Pod -> its stage, label and, while it is created, its groups
    port,         \* Pod -> the groups on its port
    groups,       \* Neutron's security groups
    made,         \* policy groups made so far
    peers,        \* the address group of the pods labelled "peer"
    baseline,     \* whether this process has resolved the baseline groups
    ruleGroups,   \* Reconciler.ruleGroups: a policy's group id
    podQueue, polQueue,
    podWork,      \* Pod -> the worker in ReconcilePod
    polWork,      \* Pol -> the worker in SyncPolicyPeers
    sweep,        \* the sweep in progress
    events

vars == <<policy, pod, port, groups, made, peers, baseline, ruleGroups,
          podQueue, polQueue, podWork, polWork, sweep, events>>

neutron == <<groups, made, peers>>
cluster == <<policy, pod, port>>
memory  == <<baseline, ruleGroups>>
queues  == <<podQueue, polQueue>>

-----------------------------------------------------------------------------
NoSpec == [subject |-> {}, types |-> {}, rules |-> {}]

(* The baseline groups, and after them the groups of policies.               *)
denyAll == 1
allowIngress == 2
allowEgress == 3
GroupId == 1..(3 + MaxGroups)

(* ruleGroups: "" for a policy that allows nothing, and no entry yet.        *)
NoGroup == 0
Unprepared == -1

(* desc: "marked" as created, which policyOf cannot read; "ref" once         *)
(* corrected, which it can; "none" when there is no such group.              *)
Group == [of : Pol \cup {"baseline", "none"}, rules : SUBSET SGRule,
          desc : {"none", "marked", "ref"}]

NoneSuch == [of |-> "none", rules |-> {}, desc |-> "none"]

(* Neutron puts these in every group it creates.                             *)
DefaultRules == {[dir |-> "egress", family |-> 4, remote |-> "null4", port |-> "all"],
                 [dir |-> "egress", family |-> 6, remote |-> "null6", port |-> "all"]}

Anywhere(d) == Expand({[dir |-> d, remotes |-> {"any4", "any6"}, ports |-> {}]})

Exists(g) == groups[g].desc # "none"

Placed(p) == pod[p].stage \in {"placed", "running"}

PodIdle == [op |-> "idle", want |-> {}]

(* ag: whether the address group whose id the worker holds still exists.     *)
PolIdle == [op |-> "idle", spec |-> NoSpec, ag |-> FALSE, add |-> {}, remove |-> {},
            group |-> 0, have |-> {}]
SweepIdle == [op |-> "due", doomed |-> {}, referenced |-> FALSE]

TypeOK ==
    /\ policy \in [Pol -> Specs \cup {NoSpec}]
    /\ pod \in [Pod -> [stage : {"absent", "pending", "creating", "placed", "running"},
                        label : Label, plan : SUBSET GroupId]]
    /\ port \in [Pod -> SUBSET GroupId]
    /\ groups \in [GroupId -> Group]
    /\ made \in 0..MaxGroups
    /\ peers \in [exists : BOOLEAN, addrs : SUBSET Pod]
    /\ baseline \in BOOLEAN
    /\ ruleGroups \in [Pol -> GroupId \cup {NoGroup, Unprepared}]
    /\ podQueue \subseteq Pod /\ polQueue \subseteq Pol
    /\ \A p \in Pod : /\ podWork[p].op \in {"idle", "write"}
                      /\ podWork[p].want \subseteq GroupId
    /\ \A n \in Pol : /\ polWork[n].op \in {"idle", "peers", "read", "write",
                                            "group", "rules", "prune"}
                      /\ polWork[n].spec \in Specs \cup {NoSpec}
                      /\ polWork[n].group \in GroupId \cup {0}
                      /\ polWork[n].have \subseteq SGRule
    /\ sweep.op \in {"due", "delete", "rest"}
    /\ sweep.doomed \subseteq GroupId
    /\ events \in 0..MaxEvents

Init ==
    /\ policy = [n \in Pol |-> NoSpec]
    /\ pod = [p \in Pod |-> [stage |-> "absent", label |-> FirstLabel[p], plan |-> {}]]
    /\ port = [p \in Pod |-> {}]
    /\ groups = [g \in GroupId |-> NoneSuch]
    /\ made = 0
    /\ peers = [exists |-> FALSE, addrs |-> {}]
    /\ baseline = FALSE
    /\ ruleGroups = [n \in Pol |-> Unprepared]
    /\ podQueue = {} /\ polQueue = {}
    /\ podWork = [p \in Pod |-> PodIdle]
    /\ polWork = [n \in Pol |-> PolIdle]
    /\ sweep = SweepIdle
    /\ events = 0

Event == events < MaxEvents /\ events' = events + 1

Live == {n \in Pol : policy[n] # NoSpec}

-----------------------------------------------------------------------------
(* The event handlers.                                                       *)

enqueuePod(p) == podQueue' = podQueue \cup {p}

enqueuePoliciesNear == polQueue' = polQueue \cup Live

enqueueNamespaceOf == podQueue' = podQueue \cup {p \in Pod : pod[p].stage # "absent"}

(* Mutant: only labels count.                                                *)
sameLabels(old, new) == old.label = new.label

(* A pod's update counts when its labels or its address changed.             *)
samePolicyInputs(old, new) ==
    old.label = new.label /\ (old.stage = "running") = (new.stage = "running")

PodUpdated(p, new) ==
    /\ pod' = [pod EXCEPT ![p] = new]
    /\ IF samePolicyInputs(pod[p], new) THEN UNCHANGED queues
       ELSE enqueuePod(p) /\ enqueuePoliciesNear

AddPod(p) ==
    /\ Event
    /\ pod[p].stage = "absent"
    /\ pod' = [pod EXCEPT ![p].stage = "pending"]
    /\ enqueuePod(p) /\ enqueuePoliciesNear
    /\ UNCHANGED <<policy, port, neutron, memory, podWork, polWork, sweep>>

Relabel(p, l) ==
    /\ Event
    /\ pod[p].stage # "absent" /\ pod[p].label # l
    /\ PodUpdated(p, [pod[p] EXCEPT !.label = l])
    /\ UNCHANGED <<policy, port, neutron, memory, podWork, polWork, sweep>>

(* The pod and its capsule go, and with the capsule its port.                *)
RemovePod(p) ==
    /\ Event
    /\ pod[p].stage # "absent"
    /\ pod' = [pod EXCEPT ![p].stage = "absent", ![p].plan = {}]
    /\ port' = [port EXCEPT ![p] = {}]
    /\ enqueuePoliciesNear
    /\ UNCHANGED <<policy, neutron, memory, podQueue, podWork, polWork, sweep>>

SetPolicy(n, spec) ==
    /\ Event
    /\ policy[n] # spec
    /\ policy' = [policy EXCEPT ![n] = spec]
    /\ enqueueNamespaceOf
    /\ polQueue' = polQueue \cup {n}
    /\ UNCHANGED <<pod, port, neutron, memory, podWork, polWork, sweep>>

(* A deletion reaches the pods, and the policy's own key not.                *)
DeletePolicy(n) ==
    /\ Event
    /\ n \in Live
    /\ policy' = [policy EXCEPT ![n] = NoSpec]
    /\ enqueueNamespaceOf
    /\ UNCHANGED <<pod, port, neutron, memory, polQueue, podWork, polWork, sweep>>

-----------------------------------------------------------------------------
(* GroupsFor: the groups a pod's port should carry.                          *)

Selecting(p) == {n \in Live : pod[p].label \in policy[n].subject}

IsolationOf(p) == UNION {Isolates(policy[n]) : n \in Selecting(p)}

(* The policies whose group the pod needs and no worker has built yet.       *)
Pending(p) == {n \in Selecting(p) :
                 PolicyRules(policy[n]) # {} /\ ruleGroups[n] = Unprepared}

policyGroupsFor(p) ==
    {ruleGroups[n] : n \in {m \in Selecting(p) : PolicyRules(policy[m]) # {}}} \ {NoGroup}

GroupsFor(p) ==
    {denyAll}
    \cup (IF "ingress" \in IsolationOf(p) THEN {} ELSE {allowIngress})
    \cup (IF "egress" \in IsolationOf(p) THEN {} ELSE {allowEgress})
    \cup policyGroupsFor(p)

-----------------------------------------------------------------------------
(* CreatePod, as far as groups go: decided before the capsule is made, and   *)
(* refused while the baseline is unresolved or a policy unprepared.          *)

securityGroupsFor(p) ==
    /\ pod[p].stage = "pending"
    /\ baseline /\ Pending(p) = {}
    /\ pod' = [pod EXCEPT ![p].stage = "creating", ![p].plan = GroupsFor(p)]
    /\ UNCHANGED <<policy, port, neutron, memory, queues, podWork, polWork,
                   sweep, events>>

(* Zun makes the capsule and its port, or cannot, a group having gone: the   *)
(* node controller then tries again.                                         *)
CreateCapsule(p) ==
    /\ pod[p].stage = "creating"
    /\ IF \A g \in pod[p].plan : Exists(g)
       THEN /\ pod' = [pod EXCEPT ![p].stage = "placed", ![p].plan = {}]
            /\ port' = [port EXCEPT ![p] = pod[p].plan]
       ELSE /\ pod' = [pod EXCEPT ![p].stage = "pending", ![p].plan = {}]
            /\ UNCHANGED port
    /\ UNCHANGED <<policy, neutron, memory, queues, podWork, polWork, sweep,
                   events>>

(* The provider's sync publishes the capsule's address on the pod.           *)
PublishAddress(p) ==
    /\ pod[p].stage = "placed"
    /\ PodUpdated(p, [pod[p] EXCEPT !.stage = "running"])
    /\ UNCHANGED <<policy, port, neutron, memory, podWork, polWork, sweep,
                   events>>

-----------------------------------------------------------------------------
(* The process.                                                              *)

(* EnsureBaseline, before any worker starts. The egress group keeps the      *)
(* rules Neutron gave it: the ones written are their twins, and refused.     *)
EnsureBaseline ==
    /\ ~ baseline
    /\ baseline' = TRUE
    /\ groups' = [groups EXCEPT
                    ![denyAll] = [of |-> "baseline", rules |-> {}, desc |-> "ref"],
                    ![allowIngress] = [of |-> "baseline", rules |-> Anywhere("ingress"),
                                       desc |-> "ref"],
                    ![allowEgress] = [of |-> "baseline", rules |-> DefaultRules,
                                      desc |-> "ref"]]
    /\ UNCHANGED <<cluster, made, peers, ruleGroups, queues, podWork, polWork,
                   sweep, events>>

(* Everything in memory goes; the informers' first lists fill the queues.    *)
Crash ==
    /\ Event
    /\ baseline' = FALSE
    /\ ruleGroups' = [n \in Pol |-> Unprepared]
    /\ pod' = [p \in Pod |-> IF pod[p].stage = "creating"
                             THEN [pod[p] EXCEPT !.stage = "pending", !.plan = {}]
                             ELSE pod[p]]
    /\ podQueue' = {p \in Pod : pod[p].stage # "absent"}
    /\ polQueue' = Live
    /\ podWork' = [p \in Pod |-> PodIdle]
    /\ polWork' = [n \in Pol |-> PolIdle]
    /\ sweep' = SweepIdle
    /\ UNCHANGED <<policy, port, neutron>>

-----------------------------------------------------------------------------
(* The pod workers: ReconcilePod.                                            *)

CanReconcile(p) == baseline /\ p \in podQueue /\ podWork[p].op = "idle"

(* Gone, or without a port yet: nothing to align.                            *)
ReconcileNothing(p) ==
    /\ CanReconcile(p) /\ ~ Placed(p)
    /\ podQueue' = podQueue \ {p}
    /\ UNCHANGED <<cluster, neutron, memory, polQueue, podWork, polWork, sweep,
                   events>>

(* portOf answers a capsule it could not read as it does one without a port. *)
ReconcileMisread(p) ==
    /\ Event
    /\ CanReconcile(p) /\ Placed(p) /\ p \in Misread
    /\ podQueue' = podQueue \ {p}
    /\ UNCHANGED <<cluster, neutron, memory, polQueue, podWork, polWork, sweep>>

(* ErrPolicyPending: the policy worker is nudged and the pod tried again.    *)
ReconcilePending(p) ==
    /\ CanReconcile(p) /\ Placed(p)
    /\ \E n \in Pending(p) : polQueue' = polQueue \cup {n}
    /\ UNCHANGED <<cluster, neutron, memory, podQueue, podWork, polWork, sweep,
                   events>>

ReconcileGroups(p) ==
    /\ CanReconcile(p) /\ Placed(p) /\ Pending(p) = {}
    /\ podQueue' = podQueue \ {p}
    /\ podWork' = [podWork EXCEPT ![p] = [op |-> "write", want |-> GroupsFor(p)]]
    /\ UNCHANGED <<cluster, neutron, memory, polQueue, polWork, sweep, events>>

(* The port is read and, if it differs, given the whole list. A port or a    *)
(* group that has gone is an error, and the pod is tried again.              *)
ReconcileWrite(p) ==
    /\ podWork[p].op = "write"
    /\ podWork' = [podWork EXCEPT ![p] = PodIdle]
    /\ IF Placed(p) /\ \A g \in podWork[p].want : Exists(g)
       THEN port' = [port EXCEPT ![p] = podWork[p].want] /\ UNCHANGED podQueue
       ELSE UNCHANGED port /\ enqueuePod(p)
    /\ UNCHANGED <<policy, pod, neutron, memory, polQueue, polWork, sweep, events>>

ReconcileFails(p) ==
    /\ Event
    /\ podWork[p].op = "write"
    /\ podWork' = [podWork EXCEPT ![p] = PodIdle]
    /\ enqueuePod(p)
    /\ UNCHANGED <<cluster, neutron, memory, polQueue, polWork, sweep>>

-----------------------------------------------------------------------------
(* The policy workers: SyncPolicyPeers.                                      *)

rememberRuleGroup(n, g) == ruleGroups' = [ruleGroups EXCEPT ![n] = g]

Goto(n, op) == polWork' = [polWork EXCEPT ![n].op = op]

CanSync(n) == baseline /\ n \in polQueue /\ polWork[n].op = "idle"

ForgetPolicy(n) ==
    /\ CanSync(n) /\ n \notin Live
    /\ polQueue' = polQueue \ {n}
    /\ rememberRuleGroup(n, Unprepared)
    /\ UNCHANGED <<cluster, neutron, baseline, podQueue, podWork, polWork, sweep,
                   events>>

(* A policy that allows nothing needs no group.                              *)
SyncEmpty(n) ==
    /\ CanSync(n) /\ n \in Live /\ PolicyRules(policy[n]) = {}
    /\ polQueue' = polQueue \ {n}
    /\ rememberRuleGroup(n, NoGroup)
    /\ UNCHANGED <<cluster, neutron, baseline, podQueue, podWork, polWork, sweep,
                   events>>

NamesPeers(rules) == \E r \in rules : r.remote = "pods"

SyncPolicy(n) ==
    /\ CanSync(n) /\ n \in Live /\ PolicyRules(policy[n]) # {}
    /\ polQueue' = polQueue \ {n}
    /\ polWork' = [polWork EXCEPT ![n] =
                     [PolIdle EXCEPT !.spec = policy[n],
                        !.op = IF NamesPeers(PolicyRules(policy[n]))
                               THEN "peers" ELSE "group"]]
    /\ UNCHANGED <<cluster, neutron, memory, podQueue, podWork, sweep, events>>

EnsureAddressGroup(n) ==
    /\ polWork[n].op = "peers"
    /\ peers' = [peers EXCEPT !.exists = TRUE]
    /\ polWork' = [polWork EXCEPT ![n].op = "read", ![n].ag = TRUE]
    /\ UNCHANGED <<cluster, groups, made, memory, queues, podWork, sweep, events>>

AddressesFor == {p \in Pod : pod[p].stage = "running" /\ pod[p].label = "peer"}

(* SyncAddresses reads, then writes the difference.                          *)
SyncRead(n) ==
    /\ polWork[n].op = "read" /\ polWork[n].ag
    /\ polWork' = [polWork EXCEPT ![n].op = "write",
                     ![n].add = AddressesFor \ peers.addrs,
                     ![n].remove = peers.addrs \ AddressesFor]
    /\ UNCHANGED <<cluster, neutron, memory, queues, podWork, sweep, events>>

(* A call that would add an address already there, or remove one that is     *)
(* not, is refused whole, which counts as agreement.                         *)
SyncWrite(n) ==
    LET w == polWork[n]
        added == IF w.add \cap peers.addrs = {} THEN peers.addrs \cup w.add ELSE peers.addrs
        left  == IF w.remove \subseteq added THEN added \ w.remove ELSE added
    IN  /\ w.op = "write" /\ w.ag
        /\ peers' = [peers EXCEPT !.addrs = left]
        /\ Goto(n, "group")
        /\ UNCHANGED <<cluster, groups, made, memory, queues, podWork, sweep, events>>

(* ensureGroup finds the policy's group by its name and corrects its         *)
(* description, or creates it; EnsureRuleSet reads its rules.                *)
ensureGroup(n) ==
    LET mine == {g \in GroupId : groups[g].of = n} IN
    /\ polWork[n].op = "group"
    /\ IF mine # {}
       THEN /\ groups' = [g \in GroupId |->
                            IF g \in mine THEN [groups[g] EXCEPT !.desc = "ref"]
                            ELSE groups[g]]
            /\ polWork' = [polWork EXCEPT ![n].op = "rules",
                             ![n].group = CHOOSE g \in mine : TRUE,
                             ![n].have = groups[CHOOSE g \in mine : TRUE].rules]
            /\ UNCHANGED made
       ELSE /\ made < MaxGroups
            /\ made' = made + 1
            /\ groups' = [groups EXCEPT ![4 + made] =
                            [of |-> n, rules |-> DefaultRules, desc |-> "marked"]]
            /\ polWork' = [polWork EXCEPT ![n].op = "rules", ![n].group = 4 + made,
                             ![n].have = DefaultRules]
    /\ UNCHANGED <<cluster, peers, memory, queues, podWork, sweep, events>>

(* Neutron takes a rule without a prefix for one that names every address:   *)
(* the second is a conflict, which counts as agreement.                      *)
Twin(r) == [r EXCEPT !.remote = IF r.family = 4 THEN "null4" ELSE "null6"]

Created(want, have) ==
    {r \in want : ~ (r.remote \in {"any4", "any6"} /\ Twin(r) \in have)}

Wanted(n) == PolicyRules(polWork[n].spec)

(* By the rules read when the group was found.                               *)
Missing(n)  == Wanted(n) \ polWork[n].have
Unwanted(n) == polWork[n].have \ Wanted(n)

Writable(n) ==
    /\ Exists(polWork[n].group)
    /\ NamesPeers(Wanted(n)) => polWork[n].ag

(* Mutant: the group is remembered before its unwanted rules are gone.       *)
SyncRulesRemembers(n) ==
    /\ polWork[n].op = "rules" /\ Writable(n)
    /\ groups' = [groups EXCEPT ![polWork[n].group].rules =
                    @ \cup Created(Missing(n), @)]
    /\ rememberRuleGroup(n, polWork[n].group)
    /\ Goto(n, "prune")
    /\ UNCHANGED <<cluster, made, peers, baseline, queues, podWork, sweep, events>>

SyncRules(n) ==
    /\ polWork[n].op = "rules" /\ Writable(n)
    /\ groups' = [groups EXCEPT ![polWork[n].group].rules =
                    @ \cup Created(Missing(n), @)]
    /\ Goto(n, "prune")
    /\ UNCHANGED <<cluster, made, peers, memory, queues, podWork, sweep, events>>

(* The rules read earlier and not wanted go, and only then is the group      *)
(* remembered.                                                               *)
SyncPrune(n) ==
    LET w == polWork[n] IN
    /\ w.op = "prune"
    /\ groups' = [groups EXCEPT ![w.group].rules = @ \ Unwanted(n)]
    /\ rememberRuleGroup(n, w.group)
    /\ polWork' = [polWork EXCEPT ![n] = PolIdle]
    /\ UNCHANGED <<cluster, made, peers, baseline, queues, podWork, sweep, events>>

(* A call fails -- the group or the address group it names has gone, or for  *)
(* any other reason -- and the policy is tried again. Of the rules some may  *)
(* have been written.                                                        *)
SyncFails(n) ==
    LET w == polWork[n] IN
    /\ w.op # "idle"
    /\ \/ /\ \/ w.op \in {"read", "write"} /\ ~ w.ag
             \/ w.op = "rules" /\ ~ Writable(n)
          /\ UNCHANGED events
       \/ Event
    /\ IF w.op = "rules" /\ Exists(w.group)
       THEN \E some \in SUBSET Created(Missing(n), groups[w.group].rules) :
              /\ ~ w.ag => ~ NamesPeers(some)
              /\ groups' = [groups EXCEPT ![w.group].rules = @ \cup some]
       ELSE UNCHANGED groups
    /\ polWork' = [polWork EXCEPT ![n] = PolIdle]
    /\ polQueue' = polQueue \cup {n}
    /\ UNCHANGED <<cluster, made, peers, memory, podQueue, podWork, sweep>>

(* Mutant: only the policies not prepared yet.                               *)
resyncUnprepared ==
    /\ baseline
    /\ polQueue = {} /\ \A n \in Pol : polWork[n].op = "idle"
    /\ polQueue' = {n \in Live : ruleGroups[n] = Unprepared}
    /\ sweep' = IF sweep.op = "rest" THEN SweepIdle ELSE sweep
    /\ UNCHANGED <<cluster, neutron, memory, podQueue, podWork, polWork, events>>

(* Every policy again, on a timer far longer than the workers' retries: the  *)
(* policies' queue has drained. The sweep's timer is longer still, and lets  *)
(* a resync pass between two sweeps.                                         *)
resyncPolicies ==
    /\ baseline
    /\ polQueue = {} /\ \A n \in Pol : polWork[n].op = "idle"
    /\ polQueue' = Live
    /\ sweep' = IF sweep.op = "rest" THEN SweepIdle ELSE sweep
    /\ UNCHANGED <<cluster, neutron, memory, podQueue, podWork, polWork, events>>

-----------------------------------------------------------------------------
(* The sweep of unused groups.                                               *)

policyOf(g) == IF groups[g].desc = "ref" /\ groups[g].of \in Pol THEN groups[g].of ELSE "none"

(* Mutant: a group still in the cache is taken for one in use.               *)
DoomedUncached(g) ==
    policyOf(g) # "none" /\ policyOf(g) \notin Live
      /\ \A n \in Pol : ruleGroups[n] # g

(* A group goes when its policy can be read and is not live; the address     *)
(* groups that the rest name stay.                                           *)
Doomed(g) == policyOf(g) # "none" /\ policyOf(g) \notin Live

(* The live policies and the groups are read together: a policy made between *)
(* the two has a group the sweep cannot read, or one it had before.          *)
SweepList ==
    LET doomed == {g \in GroupId : Doomed(g)}
        rest   == {g \in GroupId \ doomed : groups[g].of \in Pol}
    IN  /\ baseline /\ sweep.op = "due"
        /\ sweep' = [op |-> "delete", doomed |-> doomed,
                     referenced |-> \E g \in rest : NamesPeers(groups[g].rules)]
        /\ UNCHANGED <<cluster, neutron, memory, queues, podWork, polWork, events>>

(* Neutron refuses to delete a group on a port; the next sweep tries again.  *)
SweepGroup(g) ==
    /\ sweep.op = "delete" /\ g \in sweep.doomed
    /\ sweep' = [sweep EXCEPT !.doomed = @ \ {g}]
    /\ groups' = IF \E p \in Pod : g \in port[p] THEN groups
                 ELSE [groups EXCEPT ![g] = NoneSuch]
    /\ UNCHANGED <<cluster, made, peers, memory, queues, podWork, polWork, events>>

(* Then the address groups nothing named when the groups were listed, unless *)
(* Neutron finds one in use.                                                 *)
SweepPeers ==
    /\ sweep.op = "delete" /\ sweep.doomed = {}
    /\ sweep' = [SweepIdle EXCEPT !.op = "rest"]
    /\ IF sweep.referenced \/ \E g \in GroupId : NamesPeers(groups[g].rules)
       THEN UNCHANGED <<peers, polWork>>
       ELSE /\ peers' = [exists |-> FALSE, addrs |-> {}]
            /\ polWork' = [n \in Pol |-> [polWork[n] EXCEPT !.ag = FALSE]]
    /\ UNCHANGED <<cluster, groups, made, memory, queues, podWork, events>>

-----------------------------------------------------------------------------
Next ==
    \/ EnsureBaseline \/ Crash \/ resyncPolicies
    \/ SweepList \/ SweepPeers \/ \E g \in GroupId : SweepGroup(g)
    \/ \E p \in Pod :
         \/ AddPod(p) \/ RemovePod(p) \/ \E l \in Label : Relabel(p, l)
         \/ securityGroupsFor(p) \/ CreateCapsule(p) \/ PublishAddress(p)
         \/ ReconcileNothing(p) \/ ReconcileMisread(p) \/ ReconcilePending(p)
         \/ ReconcileGroups(p) \/ ReconcileWrite(p) \/ ReconcileFails(p)
    \/ \E n \in Pol :
         \/ DeletePolicy(n) \/ \E spec \in Specs : SetPolicy(n, spec)
         \/ ForgetPolicy(n) \/ SyncEmpty(n) \/ SyncPolicy(n)
         \/ EnsureAddressGroup(n) \/ SyncRead(n) \/ SyncWrite(n)
         \/ ensureGroup(n) \/ SyncRules(n) \/ SyncPrune(n) \/ SyncFails(n)

Spec == Init /\ [][Next]_vars

(* The workers, the timers, the node controller and Zun keep going.          *)
Reconciles(p) ==
    \/ ReconcileNothing(p) \/ ReconcilePending(p) \/ ReconcileGroups(p)
    \/ ReconcileWrite(p)

Syncs(n) ==
    \/ ForgetPolicy(n) \/ SyncEmpty(n) \/ SyncPolicy(n) \/ EnsureAddressGroup(n)
    \/ SyncRead(n) \/ SyncWrite(n) \/ ensureGroup(n) \/ SyncRules(n) \/ SyncPrune(n)
    \/ SyncFails(n) /\ UNCHANGED events

Sweeps == SweepList \/ SweepPeers \/ \E g \in GroupId : SweepGroup(g)

Fairness ==
    /\ WF_vars(EnsureBaseline) /\ WF_vars(resyncPolicies) /\ WF_vars(Sweeps)
    /\ \A p \in Pod : /\ WF_vars(Reconciles(p))
                      /\ WF_vars(securityGroupsFor(p)) /\ WF_vars(CreateCapsule(p))
                      /\ WF_vars(PublishAddress(p))
    /\ \A n \in Pol : WF_vars(Syncs(n))

FairSpec == Spec /\ Fairness

-----------------------------------------------------------------------------
(* Properties.                                                               *)

isPeer(p) == pod[p].stage = "running" /\ pod[p].label = "peer"

(* What the port of pod p lets through.                                      *)
Through(p, t) == \E g \in port[p] : \E r \in groups[g].rules : Lets(r, t, peers.addrs)

PolicyAllows(p, t) == Permitted({policy[n] : n \in Selecting(p)}, t, isPeer)

(* No port carries a group that is gone, or the group of a policy that still *)
(* holds the rules Neutron puts in every new group, and no port is left      *)
(* without groups, which Neutron reads as its permissive default: whatever   *)
(* crashes, fails or is swept while groups are built and pods created.       *)
PortsGuarded ==
    \A p \in Pod : Placed(p) =>
        /\ port[p] # {}
        /\ \A g \in port[p] :
             Exists(g) /\ (groups[g].of \in Pol => groups[g].rules \cap DefaultRules = {})

(* Once pods and policies stop changing, a pod's port lets through nothing   *)
(* that the policies selecting the pod deny -- also for a pod placed before  *)
(* the policy, or while it was made, and for the parts of a policy that      *)
(* cannot be expressed.                                                      *)
PolicyEnforced ==
    <>[](\A p \in Pod \ Misread : Placed(p) =>
           \A t \in Traffic : Through(p, t) => PolicyAllows(p, t))

Expressible(p) == \A n \in Selecting(p) : \A r \in policy[n].rules : ~ Refused(r)

Honoured(p) == \A t \in Traffic : PolicyAllows(p, t) => Through(p, t)

(* Once pods and policies stop changing, a port that carries the groups its  *)
(* pod should carry lets through all that expressible policies allow: rules  *)
(* and peer sets catch up with pods that came, went or were relabelled.      *)
AllowancesWritten ==
    <>[](\A p \in Pod : Placed(p) /\ Expressible(p) /\ port[p] = GroupsFor(p) => Honoured(p))

(* The group of a policy that is gone is eventually removed, if the sweep    *)
(* can read from it whose it was.                                            *)
GroupsCollected ==
    \A g \in 4..(3 + MaxGroups) : \A n \in Pol :
        groups[g].of = n /\ groups[g].desc = "ref" /\ n \notin Live
          ~> groups[g].of # n \/ n \in Live
=============================================================================
