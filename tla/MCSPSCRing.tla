----------------------------- MODULE MCSPSCRing -----------------------------
(* Small instances of SPSCRing for TLC: model values for the producer and   *)
(* the values, so that a queue that mixes values up is told from a right    *)
(* one; more pushes than the ring has slots, so that the indices wrap.      *)
EXTENDS SPSCRing
=============================================================================
