------------------------------ MODULE MCServer ------------------------------
(* Small instances of Server for TLC: n1, n2 are new orders, c is a cancel  *)
(* that may be rescheduled, all of one symbol, so that they compete for the *)
(* two places in the ring of w1 while w2 has nothing to do.  market is an   *)
(* order that is not a limit order, unpriced an order without a price,      *)
(* which is in the second instance only: to the others it makes no          *)
(* difference.                                                              *)
EXTENDS Server

CONSTANTS n1, n2, c, market, unpriced, w1, w2

MCWorkerOf == [m \in Messages |-> w1]
=============================================================================
