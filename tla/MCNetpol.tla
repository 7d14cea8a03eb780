------------------------------ MODULE MCNetpol ------------------------------
(* Instances of the network policy controller for TLC.                       *)
EXTENDS Netpol

CONSTANTS p1, p2, n1, n2

Allow(d, ps, qs) == [dir |-> d, peers |-> ps, ports |-> qs]

(* A policy that lets the front end in and opens egress; and one whose       *)
(* ingress rules cannot be expressed, with an egress rule that policyTypes   *)
(* leaves without effect: nothing of it is allowed.                          *)
FrontEnd == [subject |-> {"app"}, types |-> {},
             rules |-> {Allow("ingress", {"pods", "block"}, {"number"}),
                        Allow("egress", {}, {})}]
Shut == [subject |-> {"app"}, types |-> {"ingress"},
         rules |-> {Allow("ingress", {"except"}, {}), Allow("ingress", {}, {"named"}),
                    Allow("egress", {}, {})}]

Labels == [p \in Pod |-> IF p = p1 THEN "app" ELSE "peer"]

TwoSpecs == {FrontEnd, Shut}
=============================================================================
