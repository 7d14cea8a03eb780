----------------------------- MODULE MCVolume -----------------------------
(* Instances of Volume.                                                    *)
EXTENDS Volume

CONSTANTS c1, c2
===========================================================================
