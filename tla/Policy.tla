------------------------------- MODULE Policy -------------------------------
(***************************************************************************)
(* Network policies and what Neutron can carry of them: pkg/netpol's       *)
(* translate.go and ruleset.go, next to what Kubernetes means by the same  *)
(* policy.                                                                 *)
(*                                                                         *)
(* Addresses, ports and labels are reduced to the cases the translation    *)
(* tells apart. A far end is a pod, an address inside the one ipBlock, an  *)
(* address in that block's exception, or any other address of either       *)
(* family; the ports are one TCP port with a name, another TCP port, and   *)
(* an SCTP port.                                                           *)
(***************************************************************************)
EXTENDS Naturals

CONSTANT Pod

(* "none" stands for a far end that is no pod.                               *)
ASSUME PolicyAssumption == "none" \notin Pod

Dir == {"ingress", "egress"}

Label == {"app", "peer"}

(* A peer: an ipBlock, an ipBlock with an exception, a selector of the pods  *)
(* labelled "peer", or a peer with nothing in it.                            *)
PeerKind == {"block", "except", "pods", "void"}

(* A port: a number, a name for that number, all of TCP, or SCTP.            *)
PortKind == {"number", "named", "tcp", "sctp"}

(* An empty set of peers or of ports means all of them.                      *)
PolicyRule == [dir : Dir, peers : SUBSET PeerKind, ports : SUBSET PortKind]

PolicySpec == [subject : SUBSET Label, types : SUBSET Dir, rules : SUBSET PolicyRule]

-----------------------------------------------------------------------------
(* What Kubernetes means.                                                    *)

Address == {"inside", "excepted", "other4", "other6"}

Far == [pod : Pod, address : {"own"}] \cup [pod : {"none"}, address : Address]

Traffic == [dir : Dir, far : Far, port : {"http", "tcp", "sctp"}]

(* isPeer(p) says whether pod p is one the selector matches.                 *)
PeerMatches(kind, far, isPeer(_)) ==
    CASE kind = "block"  -> far.address \in {"inside", "excepted"}
      [] kind = "except" -> far.address = "inside"
      [] kind = "pods"   -> far.address = "own" /\ isPeer(far.pod)
      [] kind = "void"   -> FALSE

PortMatches(kind, port) ==
    CASE kind \in {"number", "named"} -> port = "http"
      [] kind = "tcp"                 -> port \in {"http", "tcp"}
      [] kind = "sctp"                -> port = "sctp"

Asked(spec, t, isPeer(_)) ==
    \E r \in spec.rules :
        /\ r.dir = t.dir
        /\ r.peers = {} \/ \E k \in r.peers : PeerMatches(k, t.far, isPeer)
        /\ r.ports = {} \/ \E k \in r.ports : PortMatches(k, t.port)

(* The directions a policy isolates. The API server fills policyTypes in; a  *)
(* policy that comes without them isolates ingress, and egress if it has     *)
(* egress rules.                                                             *)
Isolates(spec) ==
    IF spec.types # {} THEN spec.types
    ELSE {"ingress"} \cup {r.dir : r \in spec.rules}

(* The traffic of a pod that the policies selecting it permit.               *)
Permitted(specs, t, isPeer(_)) ==
    LET isolating == {s \in specs : t.dir \in Isolates(s)}
    IN  isolating = {} \/ \E s \in isolating : Asked(s, t, isPeer)

-----------------------------------------------------------------------------
(* What the translation makes of it.                                         *)

CIDR == {"any4", "any6", "block", "null4", "null6"}

(* A remote is a CIDR or the address group of the selected pods. "null" is a *)
(* rule with no remote prefix, as Neutron writes them.                       *)
SGRule == [dir : Dir, family : {4, 6}, remote : CIDR \cup {"pods"},
           port : {"all", "number", "tcp"}]

Refused(r) == r.peers \cap {"except", "void"} # {} \/ r.ports \cap {"named", "sctp"} # {}

(* translateRule: no peers means every source of either family; what cannot  *)
(* be expressed is left out, and a rule left without peers, or without the   *)
(* ports it asked for, is left out whole.                                    *)
Remotes(r) == IF r.peers = {} THEN {"any4", "any6"} ELSE r.peers \cap {"block", "pods"}

(* Mutant: a port is passed on as it was written.                            *)
PortsVerbatim(r) == r.ports

Ports(r) == r.ports \cap {"number", "tcp"}

translateRule(r) ==
    IF Remotes(r) = {} \/ (r.ports # {} /\ Ports(r) = {}) THEN {}
    ELSE {[dir |-> r.dir, remotes |-> Remotes(r), ports |-> Ports(r)]}

Translate(spec) == UNION {translateRule(r) : r \in spec.rules}

familiesFor(remote) ==
    CASE remote \in {"any4", "null4", "block"} -> {4}
      [] remote \in {"any6", "null6"}          -> {6}
      [] remote = "pods"                       -> {4, 6}

Expand(rules) ==
    UNION {UNION {{[dir |-> r.dir, family |-> f, remote |-> m, port |-> p] :
                     f \in familiesFor(m),
                     p \in IF r.ports = {} THEN {"all"} ELSE r.ports} :
                  m \in r.remotes} :
           r \in rules}

(* A policy's rules count in the directions that policy isolates.            *)
PolicyRules(spec) == Expand({r \in Translate(spec) : r.dir \in Isolates(spec)})

(* What a security group rule lets through (Neutron). An address group       *)
(* matches the addresses in it.                                              *)
Lets(rule, t, members) ==
    /\ rule.dir = t.dir
    /\ \/ rule.remote = "pods" /\ t.far.pod \in members
       \/ rule.remote = "block" /\ t.far.address \in {"inside", "excepted"}
       \/ rule.remote \in {"any4", "null4"} /\ t.far.address # "other6"
       \/ rule.remote \in {"any6", "null6"} /\ t.far.address = "other6"
    /\ \/ rule.port = "all"
       \/ rule.port = "tcp" /\ t.port \in {"http", "tcp"}
       \/ rule.port = "number" /\ t.port = "http"
=============================================================================
