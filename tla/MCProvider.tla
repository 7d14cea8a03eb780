---------------------------- MODULE MCProvider ----------------------------
(* Instances of Provider: every pod bears the name k1, of tenant t1.       *)
EXTENDS Provider

CONSTANTS u1, u2, u3, k1, t1

SameName == [u \in UID |-> k1]

OneTenant == [k \in Key |-> t1]
===========================================================================
