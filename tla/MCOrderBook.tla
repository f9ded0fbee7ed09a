---------------------------- MODULE MCOrderBook ----------------------------
(* Small instances of OrderBook for TLC.  The owners and client IDs are     *)
(* model values; one owner with two client IDs and three orders can trade   *)
(* with itself and reuse an ID.  Nothing keeps a quantity from being zero.  *)
EXTENDS OrderBook

MCPrices == 1..3
MCQuantities == 0..2
=============================================================================
