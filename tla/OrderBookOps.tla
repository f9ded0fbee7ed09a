---------------------------- MODULE OrderBookOps ----------------------------
(***************************************************************************)
(* The classes Order (order_matcher/order.{h,cpp}) and OrderBook           *)
(* (order_matcher/order_book.{h,cpp}) as values and operators.             *)
(*                                                                         *)
(* An order book holds two multimaps keyed by price, bids with the         *)
(* greatest price first and asks with the lowest first.  A C++ multimap    *)
(* keeps entries of equal key in the order they were inserted, so a book   *)
(* is a set of orders in which every order carries the number of its       *)
(* insertion ("stamp"), and begin() is the order that comes before all     *)
(* others by price, then stamp.                                            *)
(*                                                                         *)
(* Prices are integers (ticks).  The average executed price, a double in   *)
(* the code, is kept as "value" = average * executed quantity, which is    *)
(* exact as long as the average is a number.  "nan" says that it is none:  *)
(* a division by 0 makes it NaN (or infinite), and no later execution      *)
(* makes a number of it again.  The value then means nothing and is 0.     *)
(***************************************************************************)
EXTENDS Integers, Sequences

CONSTANTS Owners,      \* the clients' sender comp IDs
          ClientIDs,   \* the ClOrdIDs the clients use
          Prices,      \* limit prices
          Quantities   \* order quantities: any long, nothing in the code bounds it

ASSUME PricesAssumption == Prices \subseteq Int
ASSUME QuantitiesAssumption == Quantities \subseteq Int

Sides == {"BUY", "SELL"}

(* An order as it is held in a book and copied into reports. *)
Order == [owner : Owners, clientID : ClientIDs, side : Sides, price : Prices,
          quantity : Quantities, open : Int, executed : Int, cancelled : BOOLEAN,
          value : Int, nan : BOOLEAN, lastPx : Int, lastQty : Int, stamp : Nat]

-----------------------------------------------------------------------------
(* class Order *)

(* The constructor; the stamp is given when the order is inserted. *)
NewOrder(owner, clientID, side, price, quantity, stamp) ==
    [owner |-> owner, clientID |-> clientID, side |-> side, price |-> price,
     quantity |-> quantity, open |-> quantity, executed |-> 0,
     cancelled |-> FALSE, value |-> 0, nan |-> FALSE, lastPx |-> 0,
     lastQty |-> 0, stamp |-> stamp]

(* Variant for mutation: the average starts afresh after a trade of nothing. *)
ExecuteStartsAfresh(o, price, quantity) ==
    LET nan == quantity + o.executed = 0 IN
    [o EXCEPT !.value = IF nan THEN 0 ELSE @ + price * quantity,
              !.nan = nan,
              !.open = @ - quantity,
              !.executed = @ + quantity,
              !.lastPx = price,
              !.lastQty = quantity]

(* Order::execute.  The division is by quantity + executed quantity, 0.0 by *)
(* 0 if nothing has been traded so far.                                     *)
Execute(o, price, quantity) ==
    LET nan == o.nan \/ quantity + o.executed = 0 IN
    [o EXCEPT !.value = IF nan THEN 0 ELSE @ + price * quantity,
              !.nan = nan,
              !.open = @ - quantity,
              !.executed = @ + quantity,
              !.lastPx = price,
              !.lastQty = quantity]

Cancel(o) == [o EXCEPT !.cancelled = TRUE]

IsFilled(o) == o.executed = o.quantity

-----------------------------------------------------------------------------
(* class OrderBook *)

OnSide(book, side) == {o \in book : o.side = side}
Bids(book) == OnSide(book, "BUY")
Asks(book) == OnSide(book, "SELL")

(* Variant for mutation: the latest of equal prices comes first. *)
BeforeLatest(x, y) ==
    \/ x.side = "BUY" /\ x.price > y.price
    \/ x.side = "SELL" /\ x.price < y.price
    \/ x.price = y.price /\ x.stamp > y.stamp

(* x comes before y in the multimap of their side. *)
Before(x, y) ==
    \/ x.side = "BUY" /\ x.price > y.price
    \/ x.side = "SELL" /\ x.price < y.price
    \/ x.price = y.price /\ x.stamp < y.stamp

(* The first order of a set of orders of one side: one order, or none. *)
First(orders) == {o \in orders : \A x \in orders \ {o} : Before(o, x)}

(* Entries find and erase accept: they compare owner and client ID only. *)
Named(book, owner, clientID, side) ==
    {o \in OnSide(book, side) : o.clientID = clientID /\ o.owner = owner}

(* OrderBook::find: the first entry, in map order, of that name. *)
Find(book, owner, clientID, side) == First(Named(book, owner, clientID, side))

(* OrderBook::erase looks the order up again by name on its own side. *)
Erase(book, o) == book \ Find(book, o.owner, o.clientID, o.side)

(* OrderBook::matchTwoOrders: the smaller open quantity, at the ask's price. *)
MatchQuantity(bid, ask) == IF bid.open > ask.open THEN ask.open ELSE bid.open
MatchedBidWhole(bid, ask) == Execute(bid, ask.price, bid.open)   \* for mutation
MatchedBid(bid, ask) == Execute(bid, ask.price, MatchQuantity(bid, ask))
MatchedAsk(bid, ask) == Execute(ask, ask.price, MatchQuantity(bid, ask))

(* The orders of one pass of the loop of processMatching that stay. *)
Unfilled(orders) == {o \in orders : ~IsFilled(o)}

(* Variant for mutation: only a filled ask is erased. *)
AfterMatchKeepsBid(book, bid, ask) ==
    (book \ {bid, ask}) \cup {MatchedBid(bid, ask)} \cup Unfilled({MatchedAsk(bid, ask)})

(* The book after one pass: both orders executed, filled ones erased. *)
AfterMatch(book, bid, ask) ==
    (book \ {bid, ask}) \cup Unfilled({MatchedBid(bid, ask), MatchedAsk(bid, ask)})

(* The loop goes on: both sides have an order and the best ones cross. *)
Crossing(book, bid, ask) ==
    /\ bid \in First(Bids(book))
    /\ ask \in First(Asks(book))
    /\ bid.price >= ask.price

(* Variant for mutation: the loop stops at equal prices. *)
MatchingOverAtTouch(book) ==
    \/ Bids(book) = {}
    \/ Asks(book) = {}
    \/ \E bid \in First(Bids(book)), ask \in First(Asks(book)) :
           bid.price <= ask.price

(* The loop returns: a side is empty, or the best orders do not cross. *)
MatchingOver(book) ==
    \/ Bids(book) = {}
    \/ Asks(book) = {}
    \/ \E bid \in First(Bids(book)), ask \in First(Asks(book)) :
           bid.price < ask.price
=============================================================================
