------------------------------ MODULE Custody ------------------------------
(***************************************************************************)
(* What a virtual node promises about the capsules it keeps for pods,      *)
(* without its maps, caches, queues and loops: a capsule is made for a pod *)
(* that has existed and bears that pod's mark for ever; it is taken away   *)
(* only when its pod no longer needs it; and one that is being taken away  *)
(* never comes back. Module Provider implements this specification.        *)
(***************************************************************************)
EXTENDS Naturals

CONSTANTS
    Name,      \* the names pods bear
    Identity,  \* the pods that may ever exist
    Nobody,    \* "no pod"
    NameOf,    \* the name each of them bears
    Slot       \* numbers of the capsules that may be made, in order

VARIABLES
    pod,       \* the pod under each name, and whether it is still to run
    past,      \* the pods that have existed
    capsule    \* the capsule in each slot: whose it is, and its state

custodyVars == <<pod, past, capsule>>

Absent == [who |-> Nobody, runs |-> FALSE]

Empty == [of |-> Nobody, state |-> "none"]

(* The last capsule made for a pod that is to run.                           *)
Needed(c) ==
    /\ capsule[c].of # Nobody
    /\ pod[NameOf[capsule[c].of]] = [who |-> capsule[c].of, runs |-> TRUE]
    /\ \A d \in Slot : d > c => capsule[d].of # capsule[c].of

Begin ==
    /\ pod = [n \in Name |-> Absent]
    /\ past = {}
    /\ capsule = [c \in Slot |-> Empty]

(* A pod comes once and takes a name that is free.                           *)
Arrive(p) ==
    /\ p \notin past /\ pod[NameOf[p]].who = Nobody
    /\ pod' = [pod EXCEPT ![NameOf[p]] = [who |-> p, runs |-> TRUE]]
    /\ past' = past \cup {p}
    /\ UNCHANGED capsule

(* It ends, or is asked to; it does not run again.                           *)
Finish(n) ==
    /\ pod[n].runs
    /\ pod' = [pod EXCEPT ![n].runs = FALSE]
    /\ UNCHANGED <<past, capsule>>

Leave(n) ==
    /\ pod[n].who # Nobody
    /\ pod' = [pod EXCEPT ![n] = Absent]
    /\ UNCHANGED <<past, capsule>>

Make(c, p) ==
    /\ p \in past /\ capsule[c] = Empty
    /\ \A d \in Slot : d < c => capsule[d] # Empty
    /\ capsule' = [capsule EXCEPT ![c] = [of |-> p, state |-> "kept"]]
    /\ UNCHANGED <<pod, past>>

Take(c) ==
    /\ capsule[c].state = "kept" /\ ~ Needed(c)
    /\ capsule' = [capsule EXCEPT ![c].state = "going"]
    /\ UNCHANGED <<pod, past>>

(* Removed for good: taken before, or lost with its host.                    *)
Vanish(c) ==
    /\ capsule[c].state \in {"kept", "going"}
    /\ capsule' = [capsule EXCEPT ![c].state = "gone"]
    /\ UNCHANGED <<pod, past>>

Step ==
    \/ \E p \in Identity : Arrive(p)
    \/ \E n \in Name : Finish(n) \/ Leave(n)
    \/ \E c \in Slot : Take(c) \/ Vanish(c) \/ \E p \in Identity : Make(c, p)

Promise == Begin /\ [][Step]_custodyVars
=============================================================================
