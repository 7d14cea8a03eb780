------------------------------ MODULE Ingress ------------------------------
(***************************************************************************)
(* Ingress load balancers: pkg/ingress.  One Ingress, made, edited and     *)
(* deleted any number of times under its name, and the Octavia load        *)
(* balancer, the Barbican bundles and the floating IP that serve it.  One  *)
(* worker reconciles it off a queue; a sweep, on a goroutine of its own,   *)
(* tears down the load balancers whose Ingress is gone.                    *)
(*                                                                         *)
(* Everything of an Ingress is found by a name derived from its own, so    *)
(* two Ingresses share nothing but the queue, and one is enough.  A step   *)
(* is one call to the API server, Octavia, Barbican or Neutron with the    *)
(* code up to the next call.                                               *)
(***************************************************************************)
EXTENDS Naturals, FiniteSets, Sequences, SequencesExt

CONSTANTS
    Secret,        \* TLS Secrets
    Backend,       \* backends: a Service and a port of it
    Host,          \* host names
    Path,          \* request paths, which are also the paths rules name
    PathLen,       \* the length of a path
    Under,         \* the paths that begin with a path
    Version,       \* the manifests a tenant applies
    Manifest,      \* what each of them says: see IsManifest
    Broken,        \* backends whose Service or port does not exist
    Installed,     \* the Octavia providers of this deployment
    NoBackend, AnyHost, NoPath, NoSecret,
    Resyncs,       \* whether the informers resync
    Flaky,         \* whether calls fail and the process dies
    MaxLBs,        \* bound: load balancers at a time
    MaxRefs,       \* bound: bundles at a time, and references to lost ones
    MaxFIPs,       \* bound: floating IPs at a time, the tenant's own included
    MaxCerts,      \* bound: contents a Secret has
    MaxEvents      \* bound: Ingresses made, edited and deleted, certificates
                   \* rotated, endpoints moved, labels lost, calls failed,
                   \* crashes, taken together

(* What an Ingress says: its class, the provider it names, the Secrets of  *)
(* spec.tls, its rules in the manifest's order, its default backend, and   *)
(* the annotations for exposure and tuning.                                *)
Rule == [host: Host \cup {AnyHost}, path: Path \cup {NoPath},
         type: {"prefix", "exact", "implementation"}, to: Backend]
IsManifest(s) ==
    /\ s.ours \in BOOLEAN /\ s.provider \in STRING
    /\ s.tls \in Seq(Secret) /\ IsInjective(s.tls)
    /\ s.rules \in Seq(Rule)
    /\ s.default \in Backend \cup {NoBackend}
    /\ s.expose \in {"internal", "own", "keep", "tenant"}
    /\ s.cidrs \in {"any", "some", "malformed"} /\ s.timeout \in Nat

ASSUME IngressConstants ==
    /\ Version # {} /\ \A v \in Version : IsManifest(Manifest[v])
    /\ NoBackend \notin Backend /\ NoPath \notin Path /\ AnyHost \notin Host
    /\ PathLen \in [Path \cup {NoPath} -> Nat]
    /\ Under \in [Path -> SUBSET Path]
    /\ Broken \subseteq Backend
    /\ {Resyncs, Flaky} \subseteq BOOLEAN
    /\ {MaxLBs, MaxRefs, MaxEvents} \subseteq Nat
    /\ {MaxFIPs, MaxCerts} \subseteq Nat \ {0}

VARIABLES
    ing,        \* the Ingress in the API server
    cache,      \* the Ingress as the lister has it
    fresh,      \* whether the lister has its last version
    served,     \* the namespace: "unknown" until its watch syncs, "yes", "no"
    queued,     \* whether the controller's queue holds the Ingress
    cert,       \* the content of each Secret
    eps,        \* the ready endpoints of each backend
    bundles,    \* Barbican's bundles, by reference
    lbs,        \* Octavia's load balancers
    fips,       \* Neutron's floating IPs
    w,          \* the worker
    g,          \* the sweep
    events      \* the events so far

k8s   == <<ing, cache, fresh, cert, eps>>
proc  == <<served, queued>>
cloud == <<bundles, lbs, fips>>
vars  == <<k8s, proc, cloud, w, g, events>>

LB  == 1..MaxLBs
Ref == 1..MaxRefs
FIP == 1..MaxFIPs
TenantFIP == 1

Address == {<<"none", 0>>} \cup ({"vip"} \X LB) \cup ({"fip"} \X FIP)
None    == <<"none", 0>>

Absent == [st |-> "absent", spec |-> CHOOSE v \in Version : TRUE, lbId |-> 0, status |-> None]

NoBundle   == [secret |-> NoSecret, ver |-> 0]
NoPool     == [made |-> 0, members |-> 0]
NoListener == [proto |-> "none", ref |-> 0, sni |-> <<>>, default |-> NoBackend,
               cidrs |-> "any", timeout |-> 0, policies |-> <<>>]
NoLB       == [st |-> "none", provider |-> "", listener |-> NoListener,
               pools |-> [b \in Backend |-> NoPool]]
NoFIP      == [mark |-> "none", port |-> 0]

Asked       == Manifest[w.snap.spec]
Alive(i)    == lbs[i].st # "none"
OnPort(i)   == {f \in FIP : fips[f].mark # "none" /\ fips[f].port = i}
Stored      == {r \in Ref : bundles[r] # NoBundle}

Idle    == [pc |-> "idle", snap |-> Absent, fresh |-> FALSE, lb |-> 0, refs |-> <<>>,
            n |-> 1, addr |-> None, next |-> "idle"]
Resting == [pc |-> "idle", id |-> 0, doomed |-> {}, overtaken |-> FALSE]

(* The process starts with no Ingress, or with one it has not met before.  *)
Init ==
    /\ ing \in {Absent} \cup {[Absent EXCEPT !.st = "here", !.spec = v] : v \in Version}
    /\ cache = ing /\ fresh = TRUE
    /\ served = "unknown" /\ queued = (ing.st = "here")
    /\ cert = [s \in Secret |-> 1]
    /\ eps = [b \in Backend |-> 0]
    /\ bundles = [r \in Ref |-> NoBundle]
    /\ lbs = [i \in LB |-> NoLB]
    /\ fips = [f \in FIP |-> IF f = TenantFIP THEN [mark |-> "tenant", port |-> 0] ELSE NoFIP]
    /\ w = Idle /\ g = Resting
    /\ events = 0

Spend == events < MaxEvents /\ events' = events + 1
Fault == Flaky /\ Spend

-----------------------------------------------------------------------------
(* What the Ingress asks for.                                              *)

(* The positions in order, of which ahead[i] come before i.                *)
InOrder(ahead) ==
    [k \in 1..Cardinality(DOMAIN ahead) |->
        CHOOSE i \in DOMAIN ahead : Cardinality(ahead[i]) = k - 1]

(* collectBackends: the default backend, then each rule's, once each.      *)
collectBackends(s) ==
    LET all    == (IF s.default = NoBackend THEN <<>> ELSE <<s.default>>)
                  \o [k \in DOMAIN s.rules |-> s.rules[k].to]
        firsts == {k \in DOMAIN all : \A j \in 1..(k - 1) : all[j] # all[k]}
        order  == InOrder([k \in firsts |-> {j \in firsts : j < k}])
    IN  [k \in DOMAIN order |-> all[order[k]]]

(* buildDesiredPolicies: longer paths first, otherwise the manifest's      *)
(* order.                                                                  *)
buildDesiredPolicies(s) ==
    LET len(i) == PathLen[s.rules[i].path]
        order  == InOrder([i \in DOMAIN s.rules |->
                             {j \in DOMAIN s.rules : len(j) > len(i) \/ (len(j) = len(i) /\ j < i)}])
    IN  [k \in DOMAIN order |-> s.rules[order[k]]]

(* Mutant: "/", which every path begins with, gets no rule.                *)
rulesForLongPaths(d) ==
    (IF d.host = AnyHost THEN <<>> ELSE <<[on |-> "host", value |-> d.host, how |-> "equal"]>>)
    \o (IF d.path = NoPath \/ PathLen[d.path] = 1 THEN <<>>
        ELSE <<[on |-> "path", value |-> d.path,
                how |-> IF d.type = "exact" THEN "equal" ELSE "starts"]>>)

(* rulesFor: the host and the path of one policy as Octavia's rules.       *)
rulesFor(d) ==
    (IF d.host = AnyHost THEN <<>> ELSE <<[on |-> "host", value |-> d.host, how |-> "equal"]>>)
    \o (IF d.path = NoPath THEN <<>>
        ELSE <<[on |-> "path", value |-> d.path,
                how |-> IF d.type = "exact" THEN "equal" ELSE "starts"]>>)

(* existingSignature: a policy read back from its rules.                   *)
existingSignature(p) ==
    LET on(what) == {r \in ToSet(p.rules) : r.on = what}
        value(what, none) == IF on(what) = {} THEN none ELSE (CHOOSE r \in on(what) : TRUE).value
    IN  [to |-> p.to, host |-> value("host", AnyHost), path |-> value("path", NoPath),
         type |-> IF on("path") = {} THEN ""
                  ELSE IF \E r \in on("path") : r.how = "equal" THEN "exact" ELSE "prefix"]

Matches(desired, policies) ==
    /\ Len(policies) = Len(desired)
    /\ \A k \in DOMAIN policies : existingSignature(policies[k]) = desired[k]

(* Both for every manifest, evaluated once, and for the worker's copy.     *)
BackendsBy    == [v \in Version |-> collectBackends(Manifest[v])]
PoliciesBy    == [v \in Version |-> buildDesiredPolicies(Manifest[v])]
AskedBackends == BackendsBy[w.snap.spec]
AskedPolicies == PoliciesBy[w.snap.spec]

Proto(s) == IF s.tls = <<>> THEN "http" ELSE "https"

(* resolveProvider refuses one that is layer 4 only.                       *)
Resolves(s) == s.provider # "ovn"

(* checkProviderInstalled; Octavia refuses one it does not have as well.   *)
HasProvider(s) == s.provider \in Installed

(* tuningFromAnnotations refuses a whitelist it cannot parse.              *)
Tunable(s) == s.cidrs # "malformed"

(* Ours, and standing.                                                     *)
Wanted(x) == x.st = "here" /\ Manifest[x.spec].ours

-----------------------------------------------------------------------------
(* The tenant and the API server.  A write makes every other copy stale.   *)

Write(new) ==
    /\ ing' = new /\ fresh' = FALSE
    /\ w' = [w EXCEPT !.fresh = FALSE]

CreateIngress ==
    /\ ing.st = "absent"
    /\ \E v \in Version : Write([Absent EXCEPT !.st = "here", !.spec = v])
    /\ Spend
    /\ UNCHANGED <<cache, cert, eps, proc, cloud, g>>

EditIngress ==
    /\ ing.st = "here"
    /\ \E v \in Version \ {ing.spec} : Write([ing EXCEPT !.spec = v])
    /\ Spend
    /\ UNCHANGED <<cache, cert, eps, proc, cloud, g>>

(* Deleted at once, or held by somebody's finalizer for a while.           *)
DeleteIngress ==
    /\ ing.st # "absent"
    /\ \/ Write(Absent)
       \/ ing.st = "here" /\ Write([ing EXCEPT !.st = "deleting"])
    /\ Spend
    /\ UNCHANGED <<cache, cert, eps, proc, cloud, g>>

(* A certificate is renewed in its Secret; nothing watches Secrets.        *)
Rotate(s) ==
    /\ cert[s] < MaxCerts
    /\ cert' = [cert EXCEPT ![s] = @ + 1]
    /\ Spend
    /\ UNCHANGED <<ing, cache, fresh, eps, proc, cloud, w, g>>

WatchIngress ==
    /\ ~ fresh
    /\ cache' = ing /\ fresh' = TRUE /\ queued' = TRUE
    /\ g' = [g EXCEPT !.overtaken = g.pc # "idle" /\ (@ \/ Wanted(ing))]
    /\ UNCHANGED <<ing, cert, eps, served, cloud, w, events>>

Resync ==
    /\ Resyncs /\ cache.st # "absent" /\ ~ queued
    /\ queued' = TRUE
    /\ UNCHANGED <<k8s, served, cloud, w, g, events>>

(* An EndpointSlice of a backend changes: enqueueSlice queues the Ingress  *)
(* that refers to it.                                                      *)
MoveEndpoints(b) ==
    /\ eps' = [eps EXCEPT ![b] = 1 - @]
    /\ queued' = (queued \/ /\ served = "yes" /\ cache.st # "absent" /\ Manifest[cache.spec].ours
                            /\ Contains(collectBackends(Manifest[cache.spec]), b))
    /\ Spend
    /\ UNCHANGED <<ing, cache, fresh, cert, served, cloud, w, g>>

SyncNamespaces ==
    /\ served = "unknown" /\ served' = "yes"
    /\ UNCHANGED <<k8s, queued, cloud, w, g, events>>

(* The namespace loses its label; others keep theirs.                      *)
Unlabel ==
    /\ served = "yes" /\ served' = "no"
    /\ Spend
    /\ UNCHANGED <<k8s, queued, cloud, w, g>>

-----------------------------------------------------------------------------
(* The worker.  Reconcile returns nil and the key is forgotten, or it      *)
(* returns an error and the key is queued again with a backoff.            *)

Goto(new) == w' = new /\ UNCHANGED <<queued, events>>
Succeed   == Goto(Idle)
Fail      == w' = Idle /\ queued' = TRUE /\ UNCHANGED events

(* The cleanup of bundles after a load balancer is best effort: an error   *)
(* there is logged, and the key forgotten.                                 *)
Failed == w' = Idle /\ queued' = (queued \/ w.pc # "bundles")

(* A call that changes something has been carried out; the worker goes on, *)
(* or never learns of it.                                                  *)
Answered(new) == Goto(new) \/ (Fault /\ Failed)

WorkerFrame == UNCHANGED <<cache, cert, eps, served, g>>
ApiFrame    == UNCHANGED <<ing, fresh>>

(* A call fails before it has an effect, or the wait for a load balancer   *)
(* passes its deadline.                                                    *)
CallFails ==
    /\ w.pc # "idle" /\ Fault /\ Failed
    /\ UNCHANGED cloud /\ ApiFrame /\ WorkerFrame

(* Mutant: the bundles no Secret stands for any more go first.             *)
CleanBeforeListener == <<"tls", "pools", "clean", "listener", "members",
                         "policies", "gc", "address", "status">>

(* Mutant: the pools no backend needs go once the needed ones are there.   *)
PoolsBeforePolicies == <<"tls", "pools", "gc", "listener", "clean", "members",
                         "policies", "address", "status">>

(* The order of Reconcile, once it has its load balancer.                  *)
Order == <<"tls", "pools", "listener", "clean", "members",
           "policies", "gc", "address", "status">>
After(pc) == [w EXCEPT !.pc = Order[1 + CHOOSE k \in DOMAIN Order : Order[k] = pc], !.n = 1]

(* Octavia refuses a change to a load balancer that is not ACTIVE.  One it *)
(* accepts leaves the load balancer provisioning, and the worker waits: as *)
(* nothing else can change the load balancer meanwhile, that is one step,  *)
(* unless the answer is lost or the wait cut short.                        *)
Change(new, then) ==
    \/ lbs[w.lb].st # "active" /\ Fail /\ UNCHANGED lbs
    \/ /\ lbs[w.lb].st = "active"
       /\ \/ lbs' = [lbs EXCEPT ![w.lb] = new] /\ Goto(then)
          \/ lbs' = [lbs EXCEPT ![w.lb] = [new EXCEPT !.st = "pending"]] /\ Fault /\ Failed

(* reconcile and the head of Reconcile: an unserved namespace is dropped,  *)
(* an Ingress that is gone, being deleted or of another class torn down,   *)
(* and a provider that cannot serve one refused.                           *)
Take ==
    LET new == [Idle EXCEPT !.snap = cache, !.fresh = fresh] IN
    /\ w.pc = "idle" /\ queued
    /\ \/ served # "yes" /\ w' = Idle /\ queued' = FALSE
       \/ /\ served = "yes" /\ ~ Wanted(cache)
          /\ w' = [new EXCEPT !.pc = "lookup"] /\ queued' = FALSE
       \/ /\ served = "yes" /\ Wanted(cache) /\ Resolves(Manifest[cache.spec])
          /\ w' = [new EXCEPT !.pc = "ensure"] /\ queued' = FALSE
       \/ /\ served = "yes" /\ Wanted(cache) /\ ~ Resolves(Manifest[cache.spec])
          /\ UNCHANGED <<w, queued>>
    /\ UNCHANGED <<cloud, events>> /\ ApiFrame /\ WorkerFrame

(* ensureLoadBalancer by the recorded id; providerMatches refuses one that *)
(* runs on another provider.                                               *)
Found(i, next) ==
    IF lbs[i].provider = Asked.provider
    THEN Goto([w EXCEPT !.pc = "wait", !.lb = i, !.next = next])
    ELSE Fail

EnsureByID ==
    LET id == w.snap.lbId IN
    /\ w.pc = "ensure"
    /\ IF id # 0 /\ Alive(id) THEN Found(id, "tls") ELSE Goto([w EXCEPT !.pc = "byName"])
    /\ UNCHANGED cloud /\ ApiFrame /\ WorkerFrame

(* By the derived name, or a new one on a provider that is installed.  An  *)
(* id is not used again while anything names it.                           *)
NewLB == {i \in LB : /\ ~ Alive(i) /\ OnPort(i) = {} /\ g.id # i
                     /\ \A x \in {ing, cache, w.snap} : x.lbId # i /\ x.status # <<"vip", i>>}

EnsureByName ==
    LET found == {i \in LB : Alive(i)} IN
    /\ w.pc = "byName"
    /\ \/ /\ Cardinality(found) = 1 /\ UNCHANGED lbs
          /\ \E i \in found : Found(i, "record")
       \/ Cardinality(found) > 1 /\ Fail /\ UNCHANGED lbs
       \/ found = {} /\ ~ HasProvider(Asked) /\ Fail /\ UNCHANGED lbs
       \/ /\ found = {} /\ HasProvider(Asked)
          /\ LET i == CHOOSE i \in NewLB : \A j \in NewLB : i <= j IN
             /\ NewLB # {}
             /\ lbs' = [lbs EXCEPT ![i] = [NoLB EXCEPT !.st = "pending",
                                              !.provider = Asked.provider]]
             /\ Answered([w EXCEPT !.pc = "wait", !.lb = i, !.next = "record"])
    /\ UNCHANGED <<bundles, fips>> /\ ApiFrame /\ WorkerFrame

(* WaitActive: a load balancer that is gone is an error.                   *)
WaitActive ==
    /\ w.pc = "wait"
    /\ \/ lbs[w.lb].st = "active" /\ Goto([w EXCEPT !.pc = w.next])
       \/ lbs[w.lb].st = "none" /\ Fail
    /\ UNCHANGED cloud /\ ApiFrame /\ WorkerFrame

(* The id is written on the worker's copy of the Ingress: a conflict       *)
(* unless that is the last version.  The worker goes on with the old copy. *)
RecordID ==
    /\ w.pc = "record"
    /\ \/ w.snap.lbId = w.lb /\ Goto([w EXCEPT !.pc = Order[1]]) /\ ApiFrame
       \/ w.snap.lbId # w.lb /\ ~ w.fresh /\ Fail /\ ApiFrame
       \/ /\ w.snap.lbId # w.lb /\ w.fresh
          /\ ing' = [w.snap EXCEPT !.lbId = w.lb] /\ fresh' = FALSE
          /\ Answered([w EXCEPT !.pc = Order[1], !.fresh = FALSE])
    /\ UNCHANGED cloud /\ WorkerFrame

(* ensureTLS: for each Secret the bundle of its present content, found by  *)
(* a name that holds a hash of it, or made.                                *)
NewRef == {r \in Ref \ Stored : /\ r \notin g.doomed /\ ~ Contains(w.refs, r)
                                /\ \A i \in LB : /\ lbs[i].listener.ref # r
                                                 /\ ~ Contains(lbs[i].listener.sni, r)}

SameBundle(b, s) == b = [secret |-> s, ver |-> cert[s]]

EnsureTLS ==
    LET tls == Asked.tls
        has(r) == [w EXCEPT !.n = @ + 1, !.refs = Append(@, r)]
    IN
    /\ w.pc = "tls"
    /\ IF w.n > Len(tls) THEN Goto(After("tls")) /\ UNCHANGED bundles
       ELSE LET found == {r \in Stored : SameBundle(bundles[r], tls[w.n])} IN
            \/ \E r \in found : Goto(has(r)) /\ UNCHANGED bundles
            \/ LET r == CHOOSE r \in NewRef : \A q \in NewRef : r <= q IN
               /\ found = {} /\ NewRef # {}
               /\ bundles' = [bundles EXCEPT ![r] = [secret |-> tls[w.n], ver |-> cert[tls[w.n]]]]
               /\ Answered(has(r))
    /\ UNCHANGED <<lbs, fips>> /\ ApiFrame /\ WorkerFrame

(* ensureBackendPool: a pool and then its monitor for each backend.        *)
EnsureBackendPool ==
    LET all == AskedBackends IN
    /\ w.pc = "pools"
    /\ IF w.n > Len(all) THEN Goto(After("pools")) /\ UNCHANGED lbs
       ELSE IF lbs[w.lb].pools[all[w.n]].made < 2
       THEN Change([lbs[w.lb] EXCEPT !.pools[all[w.n]].made = @ + 1], w)
       ELSE Goto([w EXCEPT !.n = @ + 1]) /\ UNCHANGED lbs
    /\ UNCHANGED <<bundles, fips>> /\ ApiFrame /\ WorkerFrame

(* What ensureListener writes on a listener that is there: not the         *)
(* certificates after the first, and a timeout only while it is managed.   *)
Tuned(l) ==
    LET s == Asked IN
    [l EXCEPT !.ref = IF w.refs = <<>> THEN @ ELSE w.refs[1],
              !.default = s.default, !.cidrs = s.cidrs,
              !.timeout = IF s.timeout = 0 THEN @ ELSE s.timeout]

(* Mutant: a new listener is given its certificate by the next update.     *)
CreatedBare == [NoListener EXCEPT !.proto = Proto(Asked), !.default = Asked.default,
                                  !.cidrs = Asked.cidrs]

Created == LET l == [NoListener EXCEPT !.proto = Proto(Asked)]
           IN  [Tuned(l) EXCEPT !.sni = IF w.refs = <<>> THEN <<>> ELSE Tail(w.refs)]

(* tuningFromAnnotations and ensureListener: the listener of the other     *)
(* protocol goes, with its policies; this one is made, or brought in line. *)
EnsureListener ==
    LET lb == lbs[w.lb]
        l  == lb.listener
    IN
    /\ w.pc = "listener"
    /\ \/ ~ Tunable(Asked) /\ Fail /\ UNCHANGED lbs
       \/ /\ Tunable(Asked)
          /\ \/ /\ l.proto \notin {"none", Proto(Asked)}
                /\ Change([lb EXCEPT !.listener = NoListener], w)
             \/ /\ l.proto = "none"
                /\ Change([lb EXCEPT !.listener = Created], After("listener"))
             \/ /\ l.proto = Proto(Asked) /\ Tuned(l) # l
                /\ Change([lb EXCEPT !.listener = Tuned(l)], After("listener"))
             \/ /\ l.proto = Proto(Asked) /\ Tuned(l) = l
                /\ Goto(After("listener")) /\ UNCHANGED lbs
    /\ UNCHANGED <<bundles, fips>> /\ ApiFrame /\ WorkerFrame

(* cleanupBarbicanSecrets, one bundle after the other.  Only the worker    *)
(* makes bundles, so the list it took is no older than the bundles.        *)
Delete(r) == bundles' = [bundles EXCEPT ![r] = NoBundle]

Keep == ToSet(w.refs)

CleanStale ==
    /\ w.pc = "clean"
    /\ IF w.refs = <<>> \/ Stored \ Keep = {}
       THEN Goto(After("clean")) /\ UNCHANGED bundles
       ELSE \E r \in Stored \ Keep : Delete(r) /\ Answered(w)
    /\ UNCHANGED <<lbs, fips>> /\ ApiFrame /\ WorkerFrame

(* syncPoolMembers: one backend that does not resolve fails the reconcile; *)
(* an unchanged set is not written.                                        *)
SyncPoolMembers ==
    LET all == AskedBackends
        b   == all[w.n]
        on  == [w EXCEPT !.n = @ + 1]
    IN
    /\ w.pc = "members"
    /\ IF w.n > Len(all) THEN Goto(After("members")) /\ UNCHANGED lbs
       ELSE IF b \in Broken THEN Fail /\ UNCHANGED lbs
       ELSE IF lbs[w.lb].pools[b].members = eps[b] THEN Goto(on) /\ UNCHANGED lbs
       ELSE Change([lbs[w.lb] EXCEPT !.pools[b].members = eps[b]], on)
    /\ UNCHANGED <<bundles, fips>> /\ ApiFrame /\ WorkerFrame

(* syncL7Policies: a set that differs is deleted, and made again in order, *)
(* each policy with one rule after the other.                              *)
Policies == lbs[w.lb].listener.policies
WithPolicies(p) == [lbs[w.lb] EXCEPT !.listener.policies = p]

ComparePolicies ==
    /\ w.pc = "policies"
    /\ Goto(IF Matches(AskedPolicies, Policies) THEN After("policies") ELSE [w EXCEPT !.pc = "drop"])
    /\ UNCHANGED cloud /\ ApiFrame /\ WorkerFrame

DropPolicies ==
    /\ w.pc = "drop"
    /\ IF Policies = <<>> THEN Goto([w EXCEPT !.pc = "make", !.n = 1]) /\ UNCHANGED lbs
       ELSE Change(WithPolicies(Tail(Policies)), w)
    /\ UNCHANGED <<bundles, fips>> /\ ApiFrame /\ WorkerFrame

MakePolicies ==
    LET desired == AskedPolicies
        rules   == rulesFor(desired[w.n])
        made    == Policies[w.n].rules
    IN
    /\ w.pc = "make"
    /\ IF w.n > Len(desired) THEN Goto(After("policies")) /\ UNCHANGED lbs
       ELSE IF Len(Policies) < w.n
       THEN Change(WithPolicies(Append(Policies, [to |-> desired[w.n].to, rules |-> <<>>])), w)
       ELSE IF Len(made) < Len(rules)
       THEN Change(WithPolicies([Policies EXCEPT ![w.n].rules = Append(@, rules[Len(made) + 1])]), w)
       ELSE Goto([w EXCEPT !.n = @ + 1]) /\ UNCHANGED lbs
    /\ UNCHANGED <<bundles, fips>> /\ ApiFrame /\ WorkerFrame

(* gcStalePools: the pools no backend of this Ingress stands for.          *)
GcStalePools ==
    LET stale == {b \in Backend : /\ lbs[w.lb].pools[b].made > 0
                                  /\ ~ Contains(AskedBackends, b)}
    IN
    /\ w.pc = "gc"
    /\ IF stale = {} THEN Goto(After("gc")) /\ UNCHANGED lbs
       ELSE \E b \in stale : Change([lbs[w.lb] EXCEPT !.pools[b] = NoPool], w)
    /\ UNCHANGED <<bundles, fips>> /\ ApiFrame /\ WorkerFrame

(* releaseFIP: of what is on the port, its own is deleted, and one marked  *)
(* to be kept or the tenant's only detached.                               *)
ReleaseFIP(i) ==
    fips' = [f \in FIP |-> IF f \notin OnPort(i) THEN fips[f]
                           ELSE IF fips[f].mark = "own" THEN NoFIP
                           ELSE [fips[f] EXCEPT !.port = 0]]

(* An address that nothing in the model names may stand for a new one: a   *)
(* detached one is never looked up again.                                  *)
NewFIP == {f \in FIP \ {TenantFIP} : /\ fips[f].port = 0 /\ w.addr # <<"fip", f>>
                                     /\ \A x \in {ing, cache, w.snap} : x.status # <<"fip", f>>}

(* The marker a floating IP of its own should bear; the tenant's has none. *)
Marker(mark) == IF mark \in {"own", "keep"} THEN Asked.expose ELSE mark

(* ensureFIP.  Neutron binds one floating IP to a port that is there.      *)
EnsureFIP ==
    LET expose  == Asked.expose
        bound   == OnPort(w.lb)
        with(a) == [After("address") EXCEPT !.addr = a]
        f       == CHOOSE h \in bound : TRUE
        new     == CHOOSE h \in NewFIP : \A k \in NewFIP : h <= k
    IN
    /\ w.pc = "address"
    /\ \/ expose = "internal" /\ ReleaseFIP(w.lb) /\ Answered(with(<<"vip", w.lb>>))
       \/ /\ expose = "tenant" /\ TenantFIP \in bound
          /\ Goto(with(<<"fip", TenantFIP>>)) /\ UNCHANGED fips
       \/ /\ expose = "tenant" /\ TenantFIP \notin bound
          /\ IF Alive(w.lb) /\ bound = {}
             THEN /\ fips' = [fips EXCEPT ![TenantFIP].port = w.lb]
                  /\ Answered(with(<<"fip", TenantFIP>>))
             ELSE Fail /\ UNCHANGED fips
       \/ /\ expose \in {"own", "keep"} /\ bound # {}
          /\ fips' = [fips EXCEPT ![f].mark = Marker(@)]
          /\ IF fips' = fips THEN Goto(with(<<"fip", f>>)) ELSE Answered(with(<<"fip", f>>))
       \/ /\ expose \in {"own", "keep"} /\ bound = {} /\ Alive(w.lb) /\ NewFIP # {}
          /\ fips' = [fips EXCEPT ![new] = [mark |-> expose, port |-> w.lb]]
          /\ Answered(with(<<"fip", new>>))
       \/ expose \in {"own", "keep"} /\ bound = {} /\ ~ Alive(w.lb) /\ Fail /\ UNCHANGED fips
    /\ UNCHANGED <<bundles, lbs>> /\ ApiFrame /\ WorkerFrame

(* publishStatus, a conflict unless the copy is the last version.          *)
PublishStatus ==
    /\ w.pc = "status"
    /\ \/ w.snap.status = w.addr /\ Succeed /\ ApiFrame
       \/ w.snap.status # w.addr /\ ~ w.fresh /\ Fail /\ ApiFrame
       \/ /\ w.snap.status # w.addr /\ w.fresh
          /\ ing' = [ing EXCEPT !.status = w.addr] /\ fresh' = FALSE
          /\ Answered(Idle)
    /\ UNCHANGED cloud /\ WorkerFrame

(* tearDownByName: by the derived name; with no load balancer the bundles  *)
(* are looked for all the same.                                            *)
LookupForTearDown ==
    LET found == {i \in LB : Alive(i)} IN
    /\ w.pc = "lookup"
    /\ \/ found = {} /\ Goto([w EXCEPT !.pc = "bundles"])
       \/ Cardinality(found) > 1 /\ Fail
       \/ Cardinality(found) = 1 /\ \E i \in found : Goto([w EXCEPT !.pc = "release", !.lb = i])
    /\ UNCHANGED cloud /\ ApiFrame /\ WorkerFrame

(* tearDown: the floating IP, the load balancer, the bundles.  Octavia     *)
(* refuses to delete a load balancer that is provisioning or on its way.   *)
Deletable(i)          == lbs[i].st = "active"
DeleteLoadBalancer(i) == lbs' = IF Deletable(i) THEN [lbs EXCEPT ![i].st = "deleting"] ELSE lbs

TearDownReleases ==
    /\ w.pc = "release"
    /\ ReleaseFIP(w.lb)
    /\ Answered([w EXCEPT !.pc = "delete"])
    /\ UNCHANGED <<bundles, lbs>> /\ ApiFrame /\ WorkerFrame

TearDownDeletes ==
    /\ w.pc = "delete"
    /\ DeleteLoadBalancer(w.lb)
    /\ IF Deletable(w.lb) \/ ~ Alive(w.lb) THEN Answered([w EXCEPT !.pc = "bundles"]) ELSE Fail
    /\ UNCHANGED <<bundles, fips>> /\ ApiFrame /\ WorkerFrame

TearDownCleans ==
    /\ w.pc = "bundles"
    /\ IF Stored = {} THEN Succeed /\ UNCHANGED bundles
                      ELSE \E r \in Stored : Delete(r) /\ Answered(w)
    /\ UNCHANGED <<lbs, fips>> /\ ApiFrame /\ WorkerFrame

WorkerStep ==
    \/ EnsureByID \/ EnsureByName \/ WaitActive \/ RecordID \/ EnsureTLS
    \/ EnsureBackendPool \/ EnsureListener \/ CleanStale \/ SyncPoolMembers
    \/ ComparePolicies \/ DropPolicies \/ MakePolicies \/ GcStalePools
    \/ EnsureFIP \/ PublishStatus
    \/ LookupForTearDown \/ TearDownReleases \/ TearDownDeletes \/ TearDownCleans

-----------------------------------------------------------------------------
(* The sweep.  It judges a load balancer by the namespaces served and the  *)
(* lister, and tears it down by its id; the bundles it deletes are those   *)
(* listed when the load balancer was put to deletion.                      *)

SweepFrame == UNCHANGED <<k8s, proc, w>>

(* Mutant: the lister is not asked.                                        *)
CondemnedUnserved == served = "no"

Condemned == served = "no" \/ (served = "yes" /\ ~ Wanted(cache))

Sweep(i) ==
    /\ g.pc = "idle" /\ Alive(i) /\ Condemned
    /\ g' = [Resting EXCEPT !.pc = "release", !.id = i]
    /\ UNCHANGED <<cloud, events>> /\ SweepFrame

SweepReleases ==
    /\ g.pc = "release"
    /\ ReleaseFIP(g.id)
    /\ g' = [g EXCEPT !.pc = "delete"]
    /\ UNCHANGED <<bundles, lbs, events>> /\ SweepFrame

SweepDeletes ==
    /\ g.pc = "delete"
    /\ DeleteLoadBalancer(g.id)
    /\ g' = IF Deletable(g.id) \/ ~ Alive(g.id) THEN [g EXCEPT !.pc = "list"] ELSE Resting
    /\ UNCHANGED <<bundles, fips, events>> /\ SweepFrame

SweepLists ==
    /\ g.pc = "list"
    /\ g' = IF Stored = {} THEN Resting ELSE [g EXCEPT !.pc = "clean", !.doomed = Stored]
    /\ UNCHANGED <<cloud, events>> /\ SweepFrame

SweepCleans ==
    /\ g.pc = "clean"
    /\ \E r \in g.doomed :
          /\ Delete(r)
          /\ g' = IF g.doomed = {r} THEN Resting ELSE [g EXCEPT !.doomed = @ \ {r}]
    /\ UNCHANGED <<lbs, fips, events>> /\ SweepFrame

(* A failed call leaves the rest to the next sweep, which lists load       *)
(* balancers only.                                                         *)
SweepFails ==
    /\ g.pc # "idle" /\ Fault /\ g' = Resting
    /\ UNCHANGED cloud /\ SweepFrame

SweepStep == (\E i \in LB : Sweep(i)) \/ SweepReleases \/ SweepDeletes \/ SweepLists \/ SweepCleans

-----------------------------------------------------------------------------
(* Octavia, and the process.                                               *)

Settle(i) ==
    /\ lbs[i].st = "pending" /\ lbs' = [lbs EXCEPT ![i].st = "active"]
    /\ UNCHANGED <<k8s, proc, bundles, fips, w, g, events>>

(* The load balancer goes, and its port: a floating IP on it stays.        *)
Gone(i) ==
    /\ lbs' = [lbs EXCEPT ![i] = NoLB]
    /\ fips' = [f \in FIP |-> IF f \in OnPort(i) THEN [fips[f] EXCEPT !.port = 0] ELSE fips[f]]

Removed(i) == lbs[i].st = "deleting" /\ Gone(i) /\ UNCHANGED <<k8s, proc, bundles, w, g, events>>

(* Somebody deletes it behind the process's back.                          *)
Vanish(i) == lbs[i].st = "active" /\ Gone(i) /\ Fault /\ UNCHANGED <<k8s, proc, bundles, w, g>>

(* The process dies and starts: the informers list what is there.          *)
Restart ==
    /\ Fault
    /\ cache' = ing /\ fresh' = TRUE /\ queued' = (ing.st # "absent")
    /\ served' = IF served = "no" THEN "no" ELSE "unknown"
    /\ w' = Idle /\ g' = Resting
    /\ UNCHANGED <<ing, cert, eps, cloud>>

Next ==
    \/ CreateIngress \/ EditIngress \/ DeleteIngress
    \/ \E s \in Secret : Rotate(s)
    \/ \E b \in Backend : MoveEndpoints(b)
    \/ WatchIngress \/ Resync \/ SyncNamespaces \/ Unlabel
    \/ Take \/ WorkerStep \/ CallFails
    \/ SweepStep \/ SweepFails
    \/ \E i \in LB : Settle(i) \/ Removed(i) \/ Vanish(i)
    \/ Restart

Spec == Init /\ [][Next]_vars

(* The worker and the sweep run, watches deliver, informers resync where   *)
(* they do, and Octavia completes what it accepted.                        *)
Octavia  == \E i \in LB : Settle(i) \/ Removed(i)
Fairness ==
    /\ WF_vars(Take \/ WorkerStep) /\ WF_vars(SweepStep) /\ WF_vars(Octavia)
    /\ WF_vars(SyncNamespaces) /\ WF_vars(Resync) /\ WF_vars(WatchIngress)

FairSpec == Spec /\ Fairness

-----------------------------------------------------------------------------
(* Properties.                                                             *)

(* Types: what is stored, built and under way is well formed.              *)
IngRec   == [st: {"absent", "here", "deleting"}, spec: Version,
             lbId: LB \cup {0}, status: Address]
WorkerPC == ToSet(Order) \cup {"idle", "ensure", "byName", "wait", "record", "drop",
                               "make", "lookup", "release", "delete", "bundles"}
TypeOK ==
    /\ ing \in IngRec /\ cache \in IngRec /\ fresh \in BOOLEAN
    /\ served \in {"unknown", "yes", "no"} /\ queued \in BOOLEAN
    /\ cert \in [Secret -> 1..MaxCerts] /\ eps \in [Backend -> 0..1]
    /\ bundles \in [Ref -> [secret: Secret, ver: 1..MaxCerts] \cup {NoBundle}]
    /\ \A i \in LB :
          /\ lbs[i].st \in {"none", "pending", "active", "deleting"}
          /\ lbs[i].pools \in [Backend -> [made: 0..2, members: 0..1]]
          /\ lbs[i].listener.proto \in {"none", "http", "https"}
          /\ lbs[i].listener.ref \in Ref \cup {0}
          /\ lbs[i].listener.proto = "https" <=> lbs[i].listener.ref # 0
          /\ lbs[i].listener.cidrs \in {"any", "some"}
    /\ fips \in [FIP -> [mark: {"none", "own", "keep", "tenant"}, port: LB \cup {0}]]
    /\ w.pc \in WorkerPC /\ w.snap \in IngRec /\ w.lb \in LB \cup {0}
    /\ ToSet(w.refs) \subseteq Ref /\ w.addr \in Address
    /\ g.pc \in {"idle", "release", "delete", "list", "clean"}
    /\ g.doomed \subseteq Ref
    /\ events \in 0..MaxEvents

(* Bundle r is deleted while the Ingress stands and is this process's to   *)
(* serve, other than by a sweep that judged before the Ingress was there.  *)
DeletedUnder(r) ==
    /\ r \in Stored /\ bundles'[r] = NoBundle
    /\ Wanted(ing) /\ served # "no" /\ ~ (r \in g.doomed /\ g.overtaken)
InService(i) == lbs[i].st \in {"active", "pending"}

(* No bundle is deleted that a listener in service has for its             *)
(* certificate: not at a rotation, where the listener is pointed elsewhere *)
(* first (Reconcile), and not when a predecessor is torn down, where the   *)
(* load balancer goes first (tearDown).                                    *)
CertificateKept ==
    [][\A r \in Ref : DeletedUnder(r) =>
         \A i \in LB : InService(i) => lbs[i].listener.ref # r]_vars

(* No pool is deleted that the listener's default or one of its policies   *)
(* leads to (gcStalePools: after the policies).                            *)
PoolsInUseKept ==
    [][\A i \in LB, b \in Backend :
         /\ lbs[i].pools[b].made > 0 /\ lbs'[i].st # "none" /\ lbs'[i].pools[b].made = 0
         => /\ lbs[i].listener.default # b
            /\ \A p \in ToSet(lbs[i].listener.policies) : p.to # b]_vars

(* The backend a request gets of a listener: of the first policy all whose *)
(* rules match, which takes one, and else of the default pool.             *)
Holds(rule, h, p) ==
    IF rule.on = "host" THEN rule.value = h
    ELSE IF rule.how = "equal" THEN rule.value = p ELSE p \in Under[rule.value]
Routed(l, h, p) ==
    LET hit == {k \in DOMAIN l.policies :
                  /\ l.policies[k].rules # <<>>
                  /\ \A rule \in ToSet(l.policies[k].rules) : Holds(rule, h, p)}
    IN  IF hit = {} THEN l.default ELSE l.policies[CHOOSE k \in hit : \A j \in hit : k <= j].to

(* The backend the Ingress says: of the longest path that covers the       *)
(* request, and else the default.                                          *)
Covers(rule, h, p) ==
    /\ rule.host \in {AnyHost, h}
    /\ IF rule.type = "exact" THEN rule.path = p ELSE rule.path = NoPath \/ p \in Under[rule.path]
Said(s, h, p) ==
    LET hit == {k \in DOMAIN s.rules : Covers(s.rules[k], h, p)}
        longest == {k \in hit : \A j \in hit : PathLen[s.rules[k].path] >= PathLen[s.rules[j].path]}
    IN  IF hit = {} THEN s.default ELSE s.rules[CHOOSE k \in longest : \A j \in longest : k <= j].to

(* An Ingress is served: one load balancer, recorded, whose listener has   *)
(* the present certificate and whitelist and sends every request where     *)
(* the Ingress says, with the ready endpoints behind it and no pool, no    *)
(* bundle and no public address beside, and the address published.         *)
Serves ==
    LET s == Manifest[ing.spec] IN
    \E i \in LB :
       LET l == lbs[i].listener IN
       /\ ing.lbId = i /\ lbs[i].st = "active" /\ \A j \in LB \ {i} : ~ Alive(j)
       /\ l.proto = Proto(s) /\ l.cidrs = s.cidrs
       /\ s.timeout # 0 => l.timeout = s.timeout
       /\ s.tls # <<>> => /\ bundles[l.ref] = [secret |-> s.tls[1], ver |-> cert[s.tls[1]]]
                          /\ Cardinality(Stored) = Len(s.tls)
       /\ \A h \in Host, p \in Path : Routed(l, h, p) = Said(s, h, p)
       /\ \A b \in Backend :
             lbs[i].pools[b] = IF Contains(collectBackends(s), b)
                               THEN [made |-> 2, members |-> eps[b]] ELSE NoPool
       /\ IF s.expose = "internal" THEN OnPort(i) = {} /\ ing.status = <<"vip", i>>
          ELSE \E f \in OnPort(i) : /\ ing.status = <<"fip", f>>
                                    /\ s.expose = "tenant" => f = TenantFIP
                                    /\ f # TenantFIP => fips[f].mark = s.expose

(* What the code refuses to serve, or Neutron to bind.                     *)
Servable ==
    LET s == Manifest[ing.spec] IN
    /\ Tunable(s) /\ Resolves(s) /\ HasProvider(s)
    /\ \A b \in Broken : ~ Contains(collectBackends(s), b)
    /\ \A i \in LB : Alive(i) => /\ lbs[i].provider = s.provider
                                 /\ s.expose = "tenant" => OnPort(i) \subseteq {TenantFIP}

(* An Ingress that stays comes to be served and stays so, whatever edit,   *)
(* rotation, conflict, failure, restart or teardown of a predecessor came  *)
(* before: a reconcile that fell short is retried (reconcile), the next    *)
(* resync reads the certificate again, and a reconcile with nothing to     *)
(* change changes nothing (syncL7Policies, ensureListener).                *)
IngressServed ==
    <>[](Wanted(ing) /\ served # "no" /\ Servable) => <>[]Serves

(* The load balancer of an Ingress that is gone, of another class, or of a *)
(* namespace no longer served is deleted, and the floating IP on it is off *)
(* its port (tearDown, sweepOne).                                          *)
IngressCollected ==
    <>[](ing.st = "absent" \/ ~ Manifest[ing.spec].ours \/ served = "no") =>
        <>[](\A i \in LB : ~ Alive(i) /\ OnPort(i) = {})
=============================================================================
