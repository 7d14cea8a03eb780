----------------------------- MODULE MCService -----------------------------
(* Instances of Service for TLC: a Service, a pod, two addresses.          *)
EXTENDS Service

CONSTANTS s1, p1, a1, a2, n1, n2

(* Every address on one subnet, and each on its own.                       *)
OneSubnet  == [a \in {a1, a2} |-> n1]
TwoSubnets == [a \in {a1, a2} |-> IF a = a1 THEN n1 ELSE n2]
=============================================================================
