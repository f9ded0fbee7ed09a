------------------------- MODULE MCCentralOrderBook -------------------------
(* A small instance of CentralOrderBook: symbols B and A are configured; X  *)
(* is not, so its tasks go to the worker of B.  Its first message may be an *)
(* order, which is rejected, or the cancel, which makes its book.  The      *)
(* cancel is rescheduled until its order comes: in a ring of two tasks it   *)
(* competes for room with three orders, one of them for nothing.  What is   *)
(* sent first bounds the interleavings of arrivals, not of threads.         *)
EXTENDS CentralOrderBook

MCPrices == {1}
MCQuantities == 0..2
MCConfigured == <<"B", "A">>

New(symbol, owner, clientID, side, quantity) ==
    [type |-> "NEW", symbol |-> symbol, owner |-> owner, clientID |-> clientID,
     side |-> side, price |-> 1, quantity |-> quantity]
CancelOf(symbol, owner, clientID, side) ==
    [type |-> "CANCEL", symbol |-> symbol, owner |-> owner, clientID |-> clientID,
     side |-> side]

EmptyBuy == New("X", "alice", "1", "BUY", 0)
Buy == New("X", "alice", "2", "BUY", 2)
Sell == New("X", "bob", "1", "SELL", 1)
CancelBuy == CancelOf("X", "alice", "2", "BUY")
Other == New("A", "bob", "2", "BUY", 1)

MCMessages == {Other, EmptyBuy, Buy, Sell, CancelBuy}

MCSentBefore ==
    {<<Other, EmptyBuy>>, <<Other, CancelBuy>>, <<EmptyBuy, Buy>>, <<Buy, Sell>>}
=============================================================================
