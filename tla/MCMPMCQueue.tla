---------------------------- MODULE MCMPMCQueue ----------------------------
(* A small instance of MPMCQueue for TLC: constants are model values.       *)
EXTENDS MPMCQueue
=============================================================================
