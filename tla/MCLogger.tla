------------------------------ MODULE MCLogger ------------------------------
(* Small instances of Logger for TLC: constants are model values.           *)
EXTENDS Logger
=============================================================================
