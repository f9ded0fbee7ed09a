--------------------------- MODULE OrderBookProofs ---------------------------
(***************************************************************************)
(* Proofs about OrderBook, for all owners, client IDs, prices, quantities  *)
(* (zero and negative ones too, unless a theorem says otherwise) and any   *)
(* number of orders.                                                       *)
(***************************************************************************)
EXTENDS OrderBook, SequenceTheorems, TLAPS

-----------------------------------------------------------------------------
(* Facts about one order and about one pass *)

(* The constructor builds an order nothing has traded of. *)
LEMMA NewOrderFacts ==
    ASSUME NEW owner \in Owners, NEW clientID \in ClientIDs, NEW side \in Sides,
           NEW price \in Prices, NEW quantity \in Quantities, NEW stamp \in Nat
    PROVE  LET o == NewOrder(owner, clientID, side, price, quantity, stamp) IN
           /\ o \in Order
           /\ o.side = side /\ o.price = price /\ o.quantity = quantity
           /\ o.open = quantity /\ o.executed = 0 /\ o.stamp = stamp
           /\ ~o.cancelled /\ o.value = 0 /\ ~o.nan
BY QuantitiesAssumption, PricesAssumption DEF NewOrder, Order, Sides

(* Order::execute changes the execution fields and leaves the terms alone. *)
LEMMA ExecuteFacts ==
    ASSUME NEW o \in Order, NEW price \in Int, NEW quantity \in Int
    PROVE  LET e == Execute(o, price, quantity) IN
           /\ e \in Order
           /\ e.owner = o.owner /\ e.clientID = o.clientID /\ e.side = o.side
           /\ e.price = o.price /\ e.quantity = o.quantity /\ e.stamp = o.stamp
           /\ e.cancelled = o.cancelled
           /\ e.open = o.open - quantity
           /\ e.executed = o.executed + quantity
           /\ e.nan <=> o.nan \/ quantity + o.executed = 0
           /\ ~e.nan => e.value = o.value + price * quantity
           /\ e.lastPx = price /\ e.lastQty = quantity
<1> DEFINE pq == price * quantity
           undefined == o.nan \/ quantity + o.executed = 0
           value == IF undefined THEN 0 ELSE o.value + pq
           e == [o EXCEPT !.value = value, !.nan = undefined,
                          !.open = @ - quantity, !.executed = @ + quantity,
                          !.lastPx = price, !.lastQty = quantity]
<1>1. pq \in Int /\ undefined \in BOOLEAN
  OBVIOUS
<1>2. Execute(o, price, quantity) = e
  BY DEF Execute, Order
<1> HIDE DEF pq
<1>3. value \in Int /\ (~undefined => value = o.value + pq)
  BY <1>1 DEF Order
<1> HIDE DEF undefined, value
<1>4. /\ e.owner = o.owner /\ e.clientID = o.clientID /\ e.side = o.side
      /\ e.price = o.price /\ e.quantity = o.quantity /\ e.stamp = o.stamp
      /\ e.cancelled = o.cancelled
      /\ e.open = o.open - quantity
      /\ e.executed = o.executed + quantity
      /\ e.value = value /\ e.nan = undefined
      /\ e.lastPx = price /\ e.lastQty = quantity
  BY DEF Order
<1>5. o.open - quantity \in Int /\ o.executed + quantity \in Int
  BY DEF Order
<1>6. e \in Order
  BY <1>1, <1>3, <1>5 DEF Order
<1> HIDE DEF e
<1> QED
  BY <1>2, <1>3, <1>4, <1>6 DEF pq, undefined

(* The two orders a pass works on, and the two it makes of them. *)
LEMMA CrossingFacts ==
    ASSUME NEW bid, NEW ask, book \in SUBSET Order, Crossing(book, bid, ask)
    PROVE  /\ bid \in book /\ bid \in Order /\ bid.side = "BUY"
           /\ ask \in book /\ ask \in Order /\ ask.side = "SELL"
           /\ bid.price \in Int /\ ask.price \in Int /\ bid.price >= ask.price
           /\ MatchQuantity(bid, ask) \in {bid.open, ask.open}
           /\ MatchQuantity(bid, ask) \in Int
           /\ \A x \in Bids(book) \ {bid} : Before(bid, x)
           /\ \A x \in Asks(book) \ {ask} : Before(ask, x)
<1>1. bid \in book /\ bid.side = "BUY" /\ ask \in book /\ ask.side = "SELL"
      /\ bid.price >= ask.price
  BY DEF Crossing, First, Bids, Asks, OnSide
<1>2. \A x \in Bids(book) \ {bid} : Before(bid, x)
  BY DEF Crossing, First
<1>3. \A x \in Asks(book) \ {ask} : Before(ask, x)
  BY DEF Crossing, First
<1>4. bid \in Order /\ ask \in Order /\ bid.price \in Int /\ ask.price \in Int
      /\ bid.open \in Int /\ ask.open \in Int
  BY <1>1, PricesAssumption DEF Order
<1> QED
  BY <1>1, <1>2, <1>3, <1>4 DEF MatchQuantity

(* What matchTwoOrders makes of the bid and of the ask. *)
LEMMA MatchedFacts ==
    ASSUME NEW bid, NEW ask, book \in SUBSET Order, Crossing(book, bid, ask)
    PROVE  LET q == MatchQuantity(bid, ask)
               b == MatchedBid(bid, ask)
               a == MatchedAsk(bid, ask) IN
           /\ b \in Order /\ b.side = "BUY" /\ b.price = bid.price
           /\ b.stamp = bid.stamp /\ b.quantity = bid.quantity
           /\ b.cancelled = bid.cancelled
           /\ b.open = bid.open - q /\ b.executed = bid.executed + q
           /\ b.nan <=> bid.nan \/ q + bid.executed = 0
           /\ ~b.nan => b.value = bid.value + ask.price * q
           /\ a \in Order /\ a.side = "SELL" /\ a.price = ask.price
           /\ a.stamp = ask.stamp /\ a.quantity = ask.quantity
           /\ a.cancelled = ask.cancelled
           /\ a.open = ask.open - q /\ a.executed = ask.executed + q
           /\ a.nan <=> ask.nan \/ q + ask.executed = 0
           /\ ~a.nan => a.value = ask.value + ask.price * q
           /\ b.lastPx = ask.price /\ a.lastPx = ask.price
           /\ b.lastQty = q /\ a.lastQty = q
<1>1. bid \in Order /\ ask \in Order /\ ask.price \in Int
      /\ MatchQuantity(bid, ask) \in Int /\ bid.side = "BUY" /\ ask.side = "SELL"
  BY CrossingFacts
<1> DEFINE q == MatchQuantity(bid, ask)
<1> HIDE DEF q
<1>2. q \in Int
  BY <1>1 DEF q
<1>3. MatchedBid(bid, ask) = Execute(bid, ask.price, q)
      /\ MatchedAsk(bid, ask) = Execute(ask, ask.price, q)
  BY DEF MatchedBid, MatchedAsk, q
<1> DEFINE b == MatchedBid(bid, ask)
           a == MatchedAsk(bid, ask)
<1> HIDE DEF b, a
<1>4. /\ b \in Order /\ b.side = bid.side /\ b.price = bid.price
      /\ b.quantity = bid.quantity /\ b.stamp = bid.stamp /\ b.cancelled = bid.cancelled
      /\ b.open = bid.open - q /\ b.executed = bid.executed + q
      /\ (b.nan <=> bid.nan \/ q + bid.executed = 0)
      /\ (~b.nan => b.value = bid.value + ask.price * q)
      /\ b.lastPx = ask.price /\ b.lastQty = q
  BY <1>1, <1>2, <1>3, ExecuteFacts DEF b
<1>5. /\ a \in Order /\ a.side = ask.side /\ a.price = ask.price
      /\ a.quantity = ask.quantity /\ a.stamp = ask.stamp /\ a.cancelled = ask.cancelled
      /\ a.open = ask.open - q /\ a.executed = ask.executed + q
      /\ (a.nan <=> ask.nan \/ q + ask.executed = 0)
      /\ (~a.nan => a.value = ask.value + ask.price * q)
      /\ a.lastPx = ask.price /\ a.lastQty = q
  BY <1>1, <1>2, <1>3, ExecuteFacts DEF a
<1> QED
  BY <1>1, <1>4, <1>5 DEF q, a, b

(* Order::cancel only sets the flag. *)
LEMMA CancelFacts ==
    ASSUME NEW o \in Order
    PROVE  LET c == Cancel(o) IN
           /\ c \in Order /\ c.cancelled
           /\ c.owner = o.owner /\ c.clientID = o.clientID /\ c.side = o.side
           /\ c.price = o.price /\ c.quantity = o.quantity /\ c.stamp = o.stamp
           /\ c.open = o.open /\ c.executed = o.executed /\ c.value = o.value
           /\ c.nan = o.nan
BY DEF Cancel, Order

(* Two orders of one side are never each before the other. *)
LEMMA BeforeAsymmetric ==
    ASSUME NEW x \in Order, NEW y \in Order, x.side = y.side, Before(x, y)
    PROVE  ~Before(y, x)
<1>1. x.price \in Int /\ y.price \in Int /\ x.stamp \in Nat /\ y.stamp \in Nat
  BY PricesAssumption DEF Order
<1> QED
  BY <1>1 DEF Before

(* The second lookup, in erase, hits the order the first one, in find, has  *)
(* returned and cancel has marked; so exactly that order leaves the book.   *)
LEMMA EraseTakesFound ==
    ASSUME book \in SUBSET Order, StampsUnique,
           NEW owner, NEW clientID, NEW side,
           NEW found \in Find(book, owner, clientID, side)
    PROVE  /\ found \in book
           /\ Erase((book \ {found}) \cup {Cancel(found)}, Cancel(found)) = book \ {found}
<1> DEFINE c == Cancel(found)
           marked == (book \ {found}) \cup {c}
           named == Named(book, owner, clientID, side)
           named2 == Named(marked, c.owner, c.clientID, c.side)
<1>1. /\ found \in book /\ found \in Order
      /\ found.owner = owner /\ found.clientID = clientID /\ found.side = side
  BY DEF Find, First, Named, OnSide
<1>2. \A x \in named \ {found} : Before(found, x)
  BY DEF Find, First
<1>3. /\ c \in Order /\ c.owner = owner /\ c.clientID = clientID /\ c.side = side
      /\ c.price = found.price /\ c.stamp = found.stamp
  BY <1>1, CancelFacts
<1>4. c \in book => c = found
  BY <1>1, <1>3 DEF StampsUnique
<1> HIDE DEF c
<1>5. named2 = (named \ {found}) \cup {c}
  BY <1>1, <1>3 DEF Named, OnSide
<1>6. c \in First(named2)
  <2>1. \A x : Before(found, x) => Before(c, x)
    BY <1>1, <1>3 DEF Before
  <2>2. \A x \in named2 \ {c} : Before(c, x)
    BY <1>2, <1>5, <2>1
  <2> QED
    BY <1>5, <2>2 DEF First
<1>7. ASSUME NEW x \in First(named2) PROVE x = c
  <2>1. SUFFICES ASSUME x # c PROVE FALSE
    OBVIOUS
  <2>2. Before(x, c) /\ Before(c, x)
    BY <1>5, <1>6, <1>7, <2>1 DEF First
  <2>3. x \in Order /\ x.side = c.side
    BY <1>5, <1>7, <1>3, <2>1 DEF First, Named, OnSide
  <2> QED
    BY <2>2, <2>3, <1>3, BeforeAsymmetric
<1>8. First(named2) = {c}
  BY <1>6, <1>7
<1>9. Erase(marked, c) = marked \ {c}
  BY <1>8 DEF Erase, Find
<1>10. marked \ {c} = book \ {found}
  BY <1>1, <1>4
<1>11. Erase(marked, c) = book \ {found}
  BY <1>9, <1>10
<1> QED
  BY <1>1, <1>11 DEF c

-----------------------------------------------------------------------------
(* Type correctness *)

(* Every step keeps the types. *)
LEMMA TypeStep == TypeOK /\ [Next]_vars => TypeOK'
<1> SUFFICES ASSUME TypeOK, [Next]_vars PROVE TypeOK'
  OBVIOUS
<1> USE DEF TypeOK
<1>1. CASE TaskNewOrder
  <2>1. PICK owner \in Owners, clientID \in ClientIDs, side \in Sides,
             price \in Prices, quantity \in Quantities :
             Insert(NewOrder(owner, clientID, side, price, quantity, inserted))
    BY <1>1 DEF TaskNewOrder
  <2>2. NewOrder(owner, clientID, side, price, quantity, inserted) \in Order
    BY NewOrderFacts
  <2> QED
    BY <2>1, <2>2 DEF Insert
<1>2. CASE MatchTwoOrders
  <2>1. PICK bid, ask \in book :
           /\ Crossing(book, bid, ask)
           /\ book' = AfterMatch(book, bid, ask)
           /\ processed' = processed \o <<MatchedBid(bid, ask), MatchedAsk(bid, ask)>>
    BY <1>2 DEF MatchTwoOrders
  <2>2. MatchedBid(bid, ask) \in Order /\ MatchedAsk(bid, ask) \in Order
    BY <2>1, MatchedFacts
  <2>3. book' \in SUBSET Order
    BY <2>1, <2>2 DEF AfterMatch, Unfilled
  <2>4. processed' \in Seq(Order)
    BY <2>1, <2>2
  <2> QED
    BY <1>2, <2>3, <2>4 DEF MatchTwoOrders
<1>3. CASE MatchingDone
  BY <1>3 DEF MatchingDone
<1>4. CASE ReportProcessed
  <2>1. Head(processed) \in Order /\ Tail(processed) \in Seq(Order)
    BY <1>4 DEF ReportProcessed
  <2>2. ExecutionReport(Head(processed)) \in Report
    BY <2>1 DEF ExecutionReport, Report, ReportTypes
  <2> QED
    BY <1>4, <2>1, <2>2 DEF ReportProcessed
<1>5. CASE TaskNewOrderDone
  BY <1>5 DEF TaskNewOrderDone
<1>6. CASE TaskCancelOrder
  <2>1. PICK owner \in Owners, clientID \in ClientIDs, side \in Sides :
           \/ CancelFound(owner, clientID, side)
           \/ CancelNotFound(owner, clientID, side)
    BY <1>6 DEF TaskCancelOrder
  <2>2. CASE CancelFound(owner, clientID, side)
    <3>1. PICK found \in Find(book, owner, clientID, side) :
             /\ outgoing' = Append(outgoing, [type |-> "CANCELED", order |-> Cancel(found)])
             /\ book' = Erase((book \ {found}) \cup {Cancel(found)}, Cancel(found))
      BY <2>2 DEF CancelFound
    <3>2. found \in Order
      BY DEF Find, First, Named, OnSide
    <3>3. Cancel(found) \in Order
      BY <3>2, CancelFacts
    <3>4. book' \in SUBSET Order
      BY <3>1, <3>3 DEF Erase
    <3>5. [type |-> "CANCELED", order |-> Cancel(found)] \in Report
      BY <3>3 DEF Report, ReportTypes
    <3>6. outgoing' \in Seq(Report)
      BY <3>1, <3>5
    <3> QED
      BY <1>6, <3>4, <3>6 DEF TaskCancelOrder
  <2>3. CASE CancelNotFound(owner, clientID, side)
    BY <1>6, <2>3 DEF TaskCancelOrder, CancelNotFound
  <2> QED
    BY <2>1, <2>2, <2>3
<1>7. CASE UNCHANGED vars
  BY <1>7 DEF vars
<1> QED
  BY <1>1, <1>2, <1>3, <1>4, <1>5, <1>6, <1>7 DEF Next, Work

(* Every variable keeps its type in every behaviour of the worker: the      *)
(* multimaps hold orders, the queue and the reports copies of orders.       *)
THEOREM TypeCorrect == Spec => []TypeOK
<1>1. Init => TypeOK
  BY DEF Init, TypeOK
<1> QED
  BY <1>1, TypeStep, PTL DEF Spec

-----------------------------------------------------------------------------
(* The book's invariant: one lemma per action that changes the book *)

(* Inserting an order keeps everything but the absence of a cross, which is *)
(* not asked for while the loop runs.                                       *)
LEMMA InsertKeepsInv ==
    ASSUME BookInv, TaskNewOrder
    PROVE  StampsUnique' /\ RestingOrdersAreOpen' /\ LevelFillsInTimeOrder' /\ NotCrossedAtRest'
<1>1. PICK owner \in Owners, clientID \in ClientIDs, side \in Sides,
           price \in Prices, quantity \in Quantities :
           Insert(NewOrder(owner, clientID, side, price, quantity, inserted))
  BY DEF TaskNewOrder
<1> DEFINE o == NewOrder(owner, clientID, side, price, quantity, inserted)
<1>2. inserted \in Nat /\ book \in SUBSET Order /\ quantity \in Int
  BY QuantitiesAssumption DEF BookInv, TypeOK
<1>3. /\ o \in Order /\ o.quantity = quantity
      /\ o.open = quantity /\ o.executed = 0 /\ o.stamp = inserted /\ ~o.cancelled
  BY <1>2, NewOrderFacts
<1> HIDE DEF o
<1>4. book' = book \cup {o} /\ inserted' = inserted + 1 /\ pc' = "matching"
  BY <1>1 DEF Insert, o
<1>5. \A x \in book : x.stamp \in Nat /\ x.stamp < inserted
  BY <1>2 DEF BookInv, RestingOrdersAreOpen, Order
<1>6. StampsUnique'
  BY <1>2, <1>3, <1>4, <1>5 DEF BookInv, StampsUnique
<1>7. RestingOrdersAreOpen'
  BY <1>2, <1>3, <1>4, <1>5 DEF BookInv, RestingOrdersAreOpen, IsFilled
<1>8. LevelFillsInTimeOrder'
  BY <1>2, <1>3, <1>4, <1>5 DEF BookInv, LevelFillsInTimeOrder
<1>9. NotCrossedAtRest'
  BY <1>4 DEF NotCrossedAtRest
<1> QED
  BY <1>6, <1>7, <1>8, <1>9

(* A pass executes the first order of each side.  One of the two is filled  *)
(* and leaves; an earlier order of the same price would have come first.    *)
LEMMA MatchKeepsInv ==
    ASSUME BookInv, MatchTwoOrders
    PROVE  /\ StampsUnique' /\ RestingOrdersAreOpen' /\ LevelFillsInTimeOrder' /\ NotCrossedAtRest'
           /\ PassRemovesAnOrder
<1>1. PICK bid, ask \in book :
         /\ Crossing(book, bid, ask)
         /\ book' = AfterMatch(book, bid, ask)
  BY DEF MatchTwoOrders
<1> DEFINE b == MatchedBid(bid, ask)
           a == MatchedAsk(bid, ask)
           q == MatchQuantity(bid, ask)
<1>2. book \in SUBSET Order /\ inserted \in Nat
  BY DEF BookInv, TypeOK
<1>3. /\ bid \in Order /\ bid.side = "BUY" /\ ask \in Order /\ ask.side = "SELL"
      /\ q \in {bid.open, ask.open} /\ q \in Int
      /\ \A x \in Bids(book) \ {bid} : Before(bid, x)
      /\ \A x \in Asks(book) \ {ask} : Before(ask, x)
  BY <1>1, <1>2, CrossingFacts
<1>4. /\ b \in Order /\ b.side = "BUY" /\ b.price = bid.price
      /\ b.stamp = bid.stamp /\ b.quantity = bid.quantity /\ b.cancelled = bid.cancelled
      /\ b.open = bid.open - q /\ b.executed = bid.executed + q
      /\ a \in Order /\ a.side = "SELL" /\ a.price = ask.price
      /\ a.stamp = ask.stamp /\ a.quantity = ask.quantity /\ a.cancelled = ask.cancelled
      /\ a.open = ask.open - q /\ a.executed = ask.executed + q
  BY <1>1, <1>2, MatchedFacts
<1> HIDE DEF a, b, q
<1>5. book' = (book \ {bid, ask}) \cup Unfilled({b, a}) /\ inserted' = inserted /\ pc' = "matching"
  BY <1>1 DEF AfterMatch, MatchTwoOrders, a, b
<1>6. \A x \in book' : x \in book \ {bid, ask} \/ (x = b /\ ~IsFilled(b)) \/ (x = a /\ ~IsFilled(a))
  BY <1>5 DEF Unfilled
<1>7. \A x \in book : /\ x.open \in Int /\ x.executed \in Int /\ x.quantity \in Int
                     /\ x.stamp \in Nat /\ x.price \in Int
  BY <1>2, PricesAssumption, QuantitiesAssumption DEF Order
<1>8. \A x \in book : x.open + x.executed = x.quantity /\ x.stamp < inserted /\ ~x.cancelled
  BY DEF BookInv, RestingOrdersAreOpen
<1>9. b.open + b.executed = b.quantity /\ a.open + a.executed = a.quantity
  BY <1>1, <1>3, <1>4, <1>7, <1>8
<1>10. bid.stamp # ask.stamp
  BY <1>1, <1>3 DEF BookInv, StampsUnique
<1>11. StampsUnique'
  BY <1>1, <1>4, <1>6, <1>10 DEF BookInv, StampsUnique
<1>12. RestingOrdersAreOpen'
  <2>1. \A x \in book' : x.open + x.executed = x.quantity /\ x.stamp < inserted' /\ ~x.cancelled
    BY <1>1, <1>4, <1>5, <1>6, <1>8, <1>9
  <2>2. \A x \in book' : IsFilled(x) => x.quantity = 0
    BY <1>6 DEF BookInv, RestingOrdersAreOpen
  <2> QED
    BY <2>1, <2>2 DEF RestingOrdersAreOpen
<1>13. LevelFillsInTimeOrder'
  <2> SUFFICES ASSUME NEW x \in book', NEW y \in book',
                      x.side = y.side, x.price = y.price, x.stamp < y.stamp
               PROVE  y.executed = 0
    BY DEF LevelFillsInTimeOrder
  <2>1. CASE y = b
    <3>1. x \in Bids(book) \ {bid}
      BY <1>4, <1>6, <1>7, <1>1, <2>1 DEF Bids, OnSide
    <3>2. Before(bid, x)
      BY <1>3, <3>1
    <3>3. x \in book /\ bid \in book
      BY <1>1, <3>1 DEF Bids, OnSide
    <3> QED
      BY <1>3, <1>4, <1>7, <2>1, <3>2, <3>3 DEF Before
  <2>2. CASE y = a
    <3>1. x \in Asks(book) \ {ask}
      BY <1>4, <1>6, <1>7, <1>1, <2>2 DEF Asks, OnSide
    <3>2. Before(ask, x)
      BY <1>3, <3>1
    <3>3. x \in book /\ ask \in book
      BY <1>1, <3>1 DEF Asks, OnSide
    <3> QED
      BY <1>3, <1>4, <1>7, <2>2, <3>2, <3>3 DEF Before
  <2>3. CASE y \in book \ {bid, ask}
    <3>1. \E z \in book : z.side = x.side /\ z.price = x.price /\ z.stamp = x.stamp
      BY <1>1, <1>3, <1>4, <1>6
    <3> QED
      BY <2>3, <3>1 DEF BookInv, LevelFillsInTimeOrder
  <2> QED
    BY <1>6, <2>1, <2>2, <2>3
<1>14. NotCrossedAtRest'
  BY <1>5 DEF NotCrossedAtRest
<1>15. PassRemovesAnOrder
  <2>1. \A o \in book' : \E x \in book : x.stamp = o.stamp
    BY <1>1, <1>4, <1>6
  <2>2. CASE q = bid.open
    <3>1. IsFilled(b)
      BY <1>1, <1>4, <1>7, <1>8, <2>2 DEF IsFilled
    <3>2. \A o \in book' : o.stamp # bid.stamp
      BY <1>1, <1>4, <1>6, <1>10, <3>1 DEF BookInv, StampsUnique
    <3> QED
      BY <1>1, <2>1, <3>2 DEF PassRemovesAnOrder
  <2>3. CASE q = ask.open
    <3>1. IsFilled(a)
      BY <1>1, <1>4, <1>7, <1>8, <2>3 DEF IsFilled
    <3>2. \A o \in book' : o.stamp # ask.stamp
      BY <1>1, <1>4, <1>6, <1>10, <3>1 DEF BookInv, StampsUnique
    <3> QED
      BY <1>1, <2>1, <3>2 DEF PassRemovesAnOrder
  <2> QED
    BY <1>3, <2>2, <2>3
<1> QED
  BY <1>11, <1>12, <1>13, <1>14, <1>15

(* The loop's exit test compares only the best orders, but every other bid  *)
(* is no higher and every other ask no lower, so nothing crosses.           *)
LEMMA MatchingOverNotCrossed ==
    ASSUME book \in SUBSET Order, MatchingOver(book),
           NEW bid \in Bids(book), NEW ask \in Asks(book)
    PROVE  bid.price < ask.price
<1>1. PICK bestBid \in First(Bids(book)), bestAsk \in First(Asks(book)) :
         bestBid.price < bestAsk.price
  BY DEF MatchingOver
<1>2. /\ bestBid \in Order /\ bestBid.side = "BUY" /\ bid \in Order
      /\ bestAsk \in Order /\ bestAsk.side = "SELL" /\ ask \in Order
  BY DEF First, Bids, Asks, OnSide
<1>3. /\ bestBid.price \in Int /\ bid.price \in Int
      /\ bestAsk.price \in Int /\ ask.price \in Int
  BY <1>2, PricesAssumption DEF Order
<1>4. bid = bestBid \/ Before(bestBid, bid)
  BY DEF First
<1>5. ask = bestAsk \/ Before(bestAsk, ask)
  BY DEF First
<1>6. bestBid.price >= bid.price
  BY <1>2, <1>3, <1>4 DEF Before
<1>7. bestAsk.price <= ask.price
  BY <1>2, <1>3, <1>5 DEF Before
<1> QED
  BY <1>1, <1>3, <1>6, <1>7

(* A cancel only takes an order out. *)
LEMMA CancelKeepsInv ==
    ASSUME BookInv, TaskCancelOrder
    PROVE  StampsUnique' /\ RestingOrdersAreOpen' /\ LevelFillsInTimeOrder' /\ NotCrossedAtRest'
<1>1. book' \subseteq book
  <2>1. PICK owner \in Owners, clientID \in ClientIDs, side \in Sides :
           CancelFound(owner, clientID, side) \/ CancelNotFound(owner, clientID, side)
    BY DEF TaskCancelOrder
  <2>2. CASE CancelFound(owner, clientID, side)
    <3>1. PICK found \in Find(book, owner, clientID, side) :
             book' = Erase((book \ {found}) \cup {Cancel(found)}, Cancel(found))
      BY <2>2 DEF CancelFound
    <3> QED
      BY <3>1, EraseTakesFound DEF BookInv, TypeOK
  <2>3. CASE CancelNotFound(owner, clientID, side)
    BY <2>3 DEF CancelNotFound
  <2> QED
    BY <2>1, <2>2, <2>3
<1>2. inserted' = inserted /\ pc' = pc
  BY DEF TaskCancelOrder
<1> QED
  BY <1>1, <1>2 DEF BookInv, StampsUnique, RestingOrdersAreOpen, LevelFillsInTimeOrder,
                    NotCrossedAtRest, Bids, Asks, OnSide

(* The invariant holds in every behaviour: no crossed book at rest, no      *)
(* filled or cancelled order resting, quantities that add up, and price     *)
(* levels that fill in the order of arrival.                                *)
THEOREM BookInvariant == Spec => []BookInv
<1>1. Init => BookInv
  BY DEF Init, BookInv, TypeOK, StampsUnique, RestingOrdersAreOpen,
         LevelFillsInTimeOrder, NotCrossedAtRest, Bids, Asks, OnSide
<1>2. BookInv /\ [Next]_vars => BookInv'
  <2> SUFFICES ASSUME BookInv, [Next]_vars
               PROVE  StampsUnique' /\ RestingOrdersAreOpen' /\ LevelFillsInTimeOrder' /\ NotCrossedAtRest'
    BY TypeStep DEF BookInv
  <2>1. CASE TaskNewOrder
    BY <2>1, InsertKeepsInv
  <2>2. CASE MatchTwoOrders
    BY <2>2, MatchKeepsInv
  <2>3. CASE MatchingDone
    <3>1. NotCrossedAtRest'
      BY <2>3, MatchingOverNotCrossed DEF MatchingDone, NotCrossedAtRest, BookInv, TypeOK
    <3> QED
      BY <2>3, <3>1 DEF MatchingDone, BookInv, StampsUnique, RestingOrdersAreOpen, LevelFillsInTimeOrder
  <2>4. CASE ReportProcessed
    BY <2>4 DEF ReportProcessed, BookInv, StampsUnique, RestingOrdersAreOpen,
                LevelFillsInTimeOrder, NotCrossedAtRest
  <2>5. CASE TaskNewOrderDone
    BY <2>5 DEF TaskNewOrderDone, BookInv, StampsUnique, RestingOrdersAreOpen,
                LevelFillsInTimeOrder, NotCrossedAtRest
  <2>6. CASE TaskCancelOrder
    BY <2>6, CancelKeepsInv
  <2>7. CASE UNCHANGED vars
    BY <2>7 DEF vars, BookInv, StampsUnique, RestingOrdersAreOpen,
                LevelFillsInTimeOrder, NotCrossedAtRest
  <2> QED
    BY <2>1, <2>2, <2>3, <2>4, <2>5, <2>6, <2>7 DEF Next, Work
<1> QED
  BY <1>1, <1>2, PTL DEF Spec

(* Its parts, each for itself: no bid reaches an ask whenever matching is   *)
(* over; no filled or cancelled order rests; levels fill in time order.     *)
THEOREM NeverCrossedAtRest == Spec => []NotCrossedAtRest
<1>1. BookInv => NotCrossedAtRest
  BY DEF BookInv
<1> QED
  BY <1>1, BookInvariant, PTL

(* Whatever rests in the book still has its quantities adding up, is not    *)
(* cancelled and is not filled (zero quantities aside).                     *)
THEOREM OnlyOpenOrdersRest == Spec => []RestingOrdersAreOpen
<1>1. BookInv => RestingOrdersAreOpen
  BY DEF BookInv
<1> QED
  BY <1>1, BookInvariant, PTL

(* At a price an order has not traded while an earlier one still rests.     *)
THEOREM TimePriority == Spec => []LevelFillsInTimeOrder
<1>1. BookInv => LevelFillsInTimeOrder
  BY DEF BookInv
<1> QED
  BY <1>1, BookInvariant, PTL

(* The matching loop has a variant: every pass takes an order out of the    *)
(* book, so no queue of orders keeps the worker in it forever.              *)
THEOREM MatchingShrinksBook == Spec => EachPassRemovesAnOrder
<1>1. BookInv /\ [Next]_vars => [PassRemovesAnOrder]_vars
  BY MatchKeepsInv DEF PassRemovesAnOrder
<1> QED
  BY <1>1, BookInvariant, PTL DEF Spec, EachPassRemovesAnOrder

(* A cancel erases the order it reports and no other, for all histories     *)
(* with reused client IDs.                                                  *)
THEOREM CancelIsExact == Spec => CancelTakesTheReportedOrder
<1> DEFINE Exact == TaskCancelOrder /\ outgoing' # outgoing =>
              LET reported == outgoing'[Len(outgoing')].order IN
              book' = {o \in book : o.stamp # reported.stamp} /\ book' # book
<1>1. BookInv => [Exact]_vars
  <2> SUFFICES ASSUME BookInv, TaskCancelOrder, outgoing' # outgoing PROVE Exact
    OBVIOUS
  <2>1. PICK owner \in Owners, clientID \in ClientIDs, side \in Sides :
           CancelFound(owner, clientID, side)
    BY DEF TaskCancelOrder, CancelNotFound
  <2>2. PICK found \in Find(book, owner, clientID, side) :
           /\ outgoing' = Append(outgoing, [type |-> "CANCELED", order |-> Cancel(found)])
           /\ book' = Erase((book \ {found}) \cup {Cancel(found)}, Cancel(found))
    BY <2>1 DEF CancelFound
  <2>3. found \in book /\ book' = book \ {found}
    BY <2>2, EraseTakesFound DEF BookInv, TypeOK
  <2>4. outgoing'[Len(outgoing')].order = Cancel(found)
    <3>1. outgoing \in Seq(Report)
      BY DEF BookInv, TypeOK
    <3> QED
      BY <2>2, <3>1
  <2>5. Cancel(found).stamp = found.stamp
    BY <2>3, CancelFacts DEF BookInv, TypeOK
  <2>6. book \ {found} = {o \in book : o.stamp # found.stamp}
    BY <2>3 DEF BookInv, StampsUnique
  <2> QED
    BY <2>3, <2>4, <2>5, <2>6
<1> QED
  BY <1>1, BookInvariant, PTL DEF CancelTakesTheReportedOrder

-----------------------------------------------------------------------------
(* Prices of executions *)

(* Buying q more at a price not above the limit keeps the average there. *)
LEMMA ValueBound ==
    ASSUME NEW v \in Int, NEW limit \in Int, NEW x \in Int, NEW price \in Int, NEW q \in Nat,
           v <= limit * x, price <= limit
    PROVE  v + price * q <= limit * (x + q)
<1>1. price * q <= limit * q
  <2>1. (limit - price) * q >= 0
    BY SMT
  <2>2. (limit - price) * q = limit * q - price * q
    BY SMT
  <2>3. limit * q \in Int /\ price * q \in Int
    BY SMT
  <2> QED
    BY <2>1, <2>2, <2>3
<1>2. limit * (x + q) = limit * x + limit * q
  BY SMT
<1>3. limit * q \in Int /\ price * q \in Int /\ limit * x \in Int
  BY SMT
<1> QED
  BY <1>1, <1>2, <1>3

(* Selling q more at the limit keeps the average at the limit. *)
LEMMA ValueExact ==
    ASSUME NEW v \in Int, NEW limit \in Int, NEW x \in Int, NEW q \in Int, v = limit * x
    PROVE  v + limit * q = limit * (x + q)
BY SMT

-----------------------------------------------------------------------------
(* Reports *)

(* What a further report changes: one more index, at the end. *)
LEMMA AppendFacts ==
    ASSUME NEW S, NEW seq \in Seq(S), NEW e \in S
    PROVE  /\ Append(seq, e) \in Seq(S)
           /\ Len(Append(seq, e)) = Len(seq) + 1 /\ Len(seq) \in Nat
           /\ DOMAIN seq = 1..Len(seq) /\ DOMAIN Append(seq, e) = 1..(Len(seq) + 1)
           /\ \A i \in 1..Len(seq) : Append(seq, e)[i] = seq[i]
           /\ Append(seq, e)[Len(seq) + 1] = e
BY AppendProperties

(* A report about a resting order: the order is replaced by what the report *)
(* says of it, or leaves with a last word.                                  *)
LEMMA ReportReconciles ==
    ASSUME NEW reports \in Seq(Report), NEW r \in Report,
           NEW orders, NEW old \in orders, NEW left,
           \A o \in orders : o.stamp = old.stamp => o = old,
           r.order.stamp = old.stamp,
           \/ left = {} /\ r.type \in {"FILLED", "CANCELED"}
           \/ left = {r.order} /\ r.type = "PARTIALLY_FILLED",
           NEW n, Reconciled(n, orders, reports)
    PROVE  Reconciled(n, (orders \ {old}) \cup left, Append(reports, r))
<1> DEFINE longer == Append(reports, r)
           changed == (orders \ {old}) \cup left
           m == Len(reports)
           about == About(reports, n)
           about2 == About(longer, n)
           resting == {o \in orders : o.stamp = n}
           resting2 == {o \in changed : o.stamp = n}
<1>1. /\ m \in Nat /\ DOMAIN reports = 1..m /\ DOMAIN longer = 1..(m + 1)
      /\ \A i \in 1..m : longer[i] = reports[i]
      /\ longer[m + 1] = r
  BY AppendFacts
<1> HIDE DEF longer, m
<1>2. /\ \A i : i \in 1..(m + 1) <=> i \in 1..m \/ i = m + 1
      /\ \A i \in 1..m : i \in Nat /\ i < m + 1
  BY <1>1
<1>3. /\ \A i \in about : i \in 1..m
      /\ \A i : i \in about2 <=> i \in about \/ (i = m + 1 /\ r.order.stamp = n)
  BY <1>1, <1>2, Zenon DEF About
<1>4. /\ \A i \in about \ Latest(about) : reports[i].type = "PARTIALLY_FILLED"
      /\ \A o \in resting : about = {} => o.executed = 0
      /\ \A o \in resting : about # {} => \E i \in Latest(about) :
            reports[i] = [type |-> "PARTIALLY_FILLED", order |-> o]
      /\ resting = {} => \E i \in Latest(about) : reports[i].type \in {"FILLED", "CANCELED"}
  BY Zenon DEF Reconciled
<1>5. \A set : Latest(set) \subseteq set
  BY DEF Latest
<1>6. SUFFICES /\ \A i \in about2 \ Latest(about2) : longer[i].type = "PARTIALLY_FILLED"
               /\ \A o \in resting2 : about2 = {} => o.executed = 0
               /\ \A o \in resting2 : about2 # {} => \E i \in Latest(about2) :
                     longer[i] = [type |-> "PARTIALLY_FILLED", order |-> o]
               /\ resting2 = {} => \E i \in Latest(about2) : longer[i].type \in {"FILLED", "CANCELED"}
  BY Zenon DEF Reconciled, longer
<1>7. CASE n # old.stamp
  <2>1. about2 = about
    BY <1>3, <1>7
  <2>2. resting2 = resting
    BY <1>7
  <2>3. \A i \in about : longer[i] = reports[i]
    BY <1>1, <1>3
  <2> HIDE DEF about, about2, resting, resting2
  <2> QED
    BY <1>4, <1>5, <2>1, <2>2, <2>3
<1>8. CASE n = old.stamp
  <2>1. about2 = about \cup {m + 1}
    BY <1>3, <1>8
  <2>2. Latest(about2) = {m + 1}
    BY <1>1, <1>2, <1>3, <2>1 DEF Latest
  <2>3. resting2 = left /\ old \in resting
    BY <1>8
  <2>4. \A i, j \in Latest(about) : i = j
    BY <1>1, <1>3 DEF Latest
  <2> HIDE DEF about, about2, resting, resting2
  <2>5. \A i \in about : reports[i].type = "PARTIALLY_FILLED"
    <3>1. about # {} => \E i \in Latest(about) :
                           reports[i] = [type |-> "PARTIALLY_FILLED", order |-> old]
      BY <1>4, <2>3, Zenon
    <3>2. about # {} => \E i \in Latest(about) : reports[i].type = "PARTIALLY_FILLED"
      BY <3>1
    <3> QED
      BY <1>4, <2>4, <3>2
  <2>6. \A i \in about2 \ {m + 1} : longer[i].type = "PARTIALLY_FILLED"
    BY <1>1, <1>3, <2>1, <2>5
  <2>7. \A o \in left : longer[m + 1] = [type |-> "PARTIALLY_FILLED", order |-> o]
    BY <1>1 DEF Report
  <2>8. left = {} => longer[m + 1].type \in {"FILLED", "CANCELED"}
    BY <1>1
  <2> QED
    BY <2>1, <2>2, <2>3, <2>6, <2>7, <2>8
<1> QED
  BY <1>7, <1>8

(* A function on 1..n is a sequence of that length. *)
LEMMA FunctionIsSeq ==
    ASSUME NEW S, NEW n \in Nat, NEW f \in [1..n -> S]
    PROVE  f \in Seq(S) /\ Len(f) = n
<1>1. f \in Seq(S)
  BY SeqDef
<1>2. Len(f) \in Nat /\ DOMAIN f = 1..Len(f) /\ DOMAIN f = 1..n
  BY <1>1, LenProperties
<1> QED
  BY <1>1, <1>2

(* The report of an execution names the executed order. *)
LEMMA ExecutionReportFacts ==
    ASSUME NEW o \in Order
    PROVE  LET r == ExecutionReport(o) IN
           /\ r \in Report /\ r.order = o /\ r.type # "CANCELED"
           /\ r.type = IF IsFilled(o) THEN "FILLED" ELSE "PARTIALLY_FILLED"
BY DEF ExecutionReport, Report, ReportTypes

(* What is out comes first, then what is queued. *)
LEMMA JoinedFacts ==
    ASSUME NEW reports \in Seq(Report), NEW copies \in Seq(Order)
    PROVE  LET joined == Joined(reports, copies) IN
           /\ joined \in Seq(Report)
           /\ Len(reports) \in Nat /\ Len(copies) \in Nat
           /\ Len(joined) = Len(reports) + Len(copies)
           /\ \A i \in 1..Len(reports) : joined[i] = reports[i]
           /\ \A i \in 1..Len(copies) : joined[Len(reports) + i] = ExecutionReport(copies[i])
<1> DEFINE out == Len(reports)
           queued == Len(copies)
           joined == Joined(reports, copies)
<1>1. /\ out \in Nat /\ \A i \in 1..out : reports[i] \in Report
      /\ queued \in Nat /\ \A i \in 1..queued : copies[i] \in Order
  BY LenProperties, ElementOfSeq
<1>2. \A i \in 1..queued : ExecutionReport(copies[i]) \in Report
  BY <1>1, ExecutionReportFacts
<1>3. joined = [i \in 1..(out + queued) |->
                   IF i <= out THEN reports[i] ELSE ExecutionReport(copies[i - out])]
  BY DEF Joined
<1> HIDE DEF out, queued, joined
<1>4. \A i \in 1..(out + queued) : i <= out => i \in 1..out /\ joined[i] = reports[i]
  BY <1>1, <1>3
<1>5. \A i \in 1..(out + queued) : ~(i <= out) =>
         i - out \in 1..queued /\ joined[i] = ExecutionReport(copies[i - out])
  BY <1>1, <1>3
<1>6. joined \in [1..(out + queued) -> Report]
  <2>1. \A i \in 1..(out + queued) : joined[i] \in Report
    BY <1>1, <1>2, <1>4, <1>5
  <2> QED
    BY <1>3, <2>1
<1>7. joined \in Seq(Report) /\ Len(joined) = out + queued
  BY <1>1, <1>6, FunctionIsSeq
<1>8. \A i \in 1..out : i \in 1..(out + queued) /\ i <= out
  BY <1>1
<1>9. \A i \in 1..queued : out + i \in 1..(out + queued) /\ ~(out + i <= out) /\ (out + i) - out = i
  BY <1>1
<1>10. \A i \in 1..queued : joined[out + i] = ExecutionReport(copies[i])
  BY <1>5, <1>9
<1> QED
  BY <1>1, <1>4, <1>7, <1>8, <1>10 DEF out, queued, joined

(* With nothing queued every report is out. *)
LEMMA NothingQueued ==
    ASSUME NEW reports \in Seq(Report)
    PROVE  Joined(reports, <<>>) = reports
<1>1. <<>> \in Seq(Order) /\ Len(<<>>) = 0
  BY EmptySeq
<1>2. Len(reports) + 0 = Len(reports)
  BY LenProperties
<1> QED
  BY <1>1, <1>2, JoinedFacts, SeqEqual

(* Taking a copy off the queue and reporting it: nothing new is said. *)
LEMMA ReportingAddsNothing ==
    ASSUME NEW reports \in Seq(Report), NEW copies \in Seq(Order), copies # <<>>
    PROVE  Joined(Append(reports, ExecutionReport(Head(copies))), Tail(copies))
              = Joined(reports, copies)
<1> DEFINE out == Len(reports)
           queued == Len(copies)
           reports2 == Append(reports, ExecutionReport(Head(copies)))
           copies2 == Tail(copies)
           joined == Joined(reports, copies)
           joined2 == Joined(reports2, copies2)
<1>1. /\ queued \in Nat /\ queued # 0 /\ Head(copies) = copies[1]
      /\ Head(copies) \in Order
      /\ copies2 \in Seq(Order) /\ Len(copies2) = queued - 1
      /\ \A i \in 1..(queued - 1) : copies2[i] = copies[i + 1]
  BY HeadTailProperties, EmptySeq
<1>2. /\ out \in Nat /\ reports2 \in Seq(Report) /\ Len(reports2) = out + 1
      /\ \A i \in 1..out : reports2[i] = reports[i]
      /\ reports2[out + 1] = ExecutionReport(copies[1])
  BY <1>1, ExecutionReportFacts, AppendFacts
<1>3. /\ joined \in Seq(Report) /\ Len(joined) = out + queued
      /\ \A i \in 1..out : joined[i] = reports[i]
      /\ \A i \in 1..queued : joined[out + i] = ExecutionReport(copies[i])
  BY JoinedFacts
<1> HIDE DEF reports2, copies2
<1>4. /\ joined2 \in Seq(Report) /\ Len(joined2) = Len(reports2) + Len(copies2)
      /\ \A i \in 1..Len(reports2) : joined2[i] = reports2[i]
      /\ \A i \in 1..Len(copies2) : joined2[Len(reports2) + i] = ExecutionReport(copies2[i])
  BY <1>1, <1>2, JoinedFacts
<1> HIDE DEF out, queued, joined, joined2
<1>5. ASSUME NEW i \in 1..(out + queued) PROVE joined2[i] = joined[i]
  <2>1. CASE i <= out
    <3>1. i \in 1..out /\ i \in 1..(out + 1)
      BY <1>1, <1>2, <2>1
    <3> QED
      BY <1>2, <1>3, <1>4, <3>1
  <2>2. CASE i = out + 1
    <3>1. 1 \in 1..queued /\ i \in 1..(out + 1)
      BY <1>1, <1>2, <2>2
    <3> QED
      BY <1>2, <1>3, <1>4, <2>2, <3>1
  <2>3. CASE i > out + 1
    <3> DEFINE k == i - out - 1
    <3>1. k \in 1..(queued - 1) /\ k + 1 \in 1..queued
          /\ i = out + (k + 1) /\ i = (out + 1) + k
      BY <1>1, <1>2, <2>3
    <3> HIDE DEF k
    <3>2. joined2[i] = ExecutionReport(copies2[k])
      BY <1>1, <1>2, <1>4, <3>1
    <3>3. joined[i] = ExecutionReport(copies[k + 1])
      BY <1>3, <3>1
    <3> QED
      BY <1>1, <3>1, <3>2, <3>3
  <2> QED
    BY <1>1, <1>2, <2>1, <2>2, <2>3
<1>6. Len(joined2) = out + queued
  BY <1>1, <1>2, <1>4
<1>7. joined2 = joined
  BY <1>3, <1>4, <1>5, <1>6, SeqEqual
<1> QED
  BY <1>7 DEF joined, joined2, reports2, copies2

(* Queueing a copy makes one more report. *)
LEMMA QueueingAddsReport ==
    ASSUME NEW reports \in Seq(Report), NEW copies \in Seq(Order), NEW o \in Order
    PROVE  Joined(reports, Append(copies, o)) = Append(Joined(reports, copies), ExecutionReport(o))
<1> DEFINE out == Len(reports)
           queued == Len(copies)
           copies2 == Append(copies, o)
           joined == Joined(reports, copies)
           joined2 == Joined(reports, copies2)
           longer == Append(joined, ExecutionReport(o))
<1>1. /\ queued \in Nat /\ copies2 \in Seq(Order) /\ Len(copies2) = queued + 1
      /\ \A i \in 1..queued : copies2[i] = copies[i]
      /\ copies2[queued + 1] = o
  BY AppendFacts
<1>2. /\ joined \in Seq(Report) /\ Len(joined) = out + queued /\ out \in Nat
      /\ \A i \in 1..out : joined[i] = reports[i]
      /\ \A i \in 1..queued : joined[out + i] = ExecutionReport(copies[i])
  BY JoinedFacts
<1> HIDE DEF copies2
<1>3. /\ joined2 \in Seq(Report) /\ Len(joined2) = out + Len(copies2)
      /\ \A i \in 1..out : joined2[i] = reports[i]
      /\ \A i \in 1..Len(copies2) : joined2[out + i] = ExecutionReport(copies2[i])
  BY <1>1, JoinedFacts
<1> HIDE DEF joined, joined2
<1>4. /\ longer \in Seq(Report) /\ Len(longer) = Len(joined) + 1
      /\ \A i \in 1..Len(joined) : longer[i] = joined[i]
      /\ longer[Len(joined) + 1] = ExecutionReport(o)
  <2>1. ExecutionReport(o) \in Report
    BY ExecutionReportFacts
  <2> QED
    BY <1>2, <2>1, AppendFacts
<1> HIDE DEF longer, out, queued
<1>5. ASSUME NEW i \in 1..(out + queued + 1) PROVE joined2[i] = longer[i]
  <2>1. CASE i <= out
    <3>1. i \in 1..out /\ i \in 1..(out + queued)
      BY <1>1, <1>2, <2>1
    <3> QED
      BY <1>2, <1>3, <1>4, <3>1
  <2>2. CASE i > out
    <3> DEFINE k == i - out
    <3>1. k \in 1..(queued + 1) /\ i = out + k /\ (k = queued + 1 \/ k \in 1..queued)
          /\ (k \in 1..queued => i \in 1..(out + queued))
      BY <1>1, <1>2, <2>2
    <3> HIDE DEF k
    <3>2. joined2[i] = ExecutionReport(copies2[k])
      BY <1>1, <1>3, <3>1
    <3>3. CASE k = queued + 1
      <4>1. i = (out + queued) + 1
        BY <1>1, <1>2, <3>1, <3>3
      <4> QED
        BY <1>1, <1>2, <1>4, <3>2, <3>3, <4>1
    <3>4. CASE k \in 1..queued
      BY <1>1, <1>2, <1>4, <3>1, <3>2, <3>4
    <3> QED
      BY <3>1, <3>3, <3>4
  <2> QED
    BY <1>1, <1>2, <2>1, <2>2
<1>6. Len(joined2) = out + queued + 1 /\ Len(longer) = out + queued + 1
  BY <1>1, <1>2, <1>3, <1>4
<1>7. joined2 = longer
  BY <1>3, <1>4, <1>5, <1>6, SeqEqual
<1> QED
  BY <1>7 DEF joined, joined2, longer, copies2

(* One more report that is not an execution's keeps the pairs together. *)
LEMMA CancelKeepsPairs ==
    ASSUME NEW reports \in Seq(Report), InPairs(reports),
           NEW r \in Report, r.type = "CANCELED"
    PROVE  InPairs(Append(reports, r))
<1> DEFINE longer == Append(reports, r)
           m == Len(reports)
<1>1. /\ m \in Nat /\ DOMAIN reports = 1..m /\ DOMAIN longer = 1..(m + 1)
      /\ \A i \in 1..m : longer[i] = reports[i]
      /\ longer[m + 1] = r
  BY AppendFacts
<1> HIDE DEF longer, m
<1> SUFFICES ASSUME NEW i \in 1..(m + 1), longer[i].type # "CANCELED"
             PROVE  \/ i + 1 \in 1..(m + 1) /\ SameTrade(longer[i], longer[i + 1])
                    \/ i - 1 \in 1..(m + 1) /\ SameTrade(longer[i - 1], longer[i])
  BY <1>1 DEF InPairs, longer
<1>2. i \in 1..m
  BY <1>1
<1>3. \/ i + 1 \in 1..m /\ SameTrade(reports[i], reports[i + 1])
      \/ i - 1 \in 1..m /\ SameTrade(reports[i - 1], reports[i])
  BY <1>1, <1>2 DEF InPairs
<1>4. 1..m \subseteq 1..(m + 1)
  BY <1>1
<1> QED
  BY <1>1, <1>2, <1>3, <1>4

(* Nor does a further pair. *)
LEMMA TradeKeepsPairs ==
    ASSUME NEW reports \in Seq(Report), InPairs(reports),
           NEW bid \in Report, NEW ask \in Report, SameTrade(bid, ask)
    PROVE  InPairs(Append(Append(reports, bid), ask))
<1> DEFINE longer == Append(reports, bid)
           longest == Append(longer, ask)
           m == Len(reports)
<1>1. /\ m \in Nat /\ DOMAIN reports = 1..m
      /\ longer \in Seq(Report) /\ Len(longer) = m + 1
      /\ \A i \in 1..m : longer[i] = reports[i]
      /\ longer[m + 1] = bid
  BY AppendFacts
<1> HIDE DEF longer, m
<1>2. /\ DOMAIN longest = 1..(m + 2)
      /\ \A i \in 1..(m + 1) : longest[i] = longer[i]
      /\ longest[m + 2] = ask
  <2>1. /\ DOMAIN longest = 1..(Len(longer) + 1)
        /\ \A i \in 1..Len(longer) : longest[i] = longer[i]
        /\ longest[Len(longer) + 1] = ask
    BY <1>1, AppendFacts
  <2>2. (m + 1) + 1 = m + 2
    BY <1>1
  <2> QED
    BY <1>1, <2>1, <2>2
<1> HIDE DEF longest
<1>3. /\ \A i \in 1..m : i \in 1..(m + 2) /\ longest[i] = reports[i]
      /\ longest[m + 1] = bid
  BY <1>1, <1>2
<1> SUFFICES ASSUME NEW i \in 1..(m + 2), longest[i].type # "CANCELED"
             PROVE  \/ i + 1 \in 1..(m + 2) /\ SameTrade(longest[i], longest[i + 1])
                    \/ i - 1 \in 1..(m + 2) /\ SameTrade(longest[i - 1], longest[i])
  BY <1>2 DEF InPairs, longest, longer
<1>4. CASE i \in 1..m
  <2>1. \/ i + 1 \in 1..m /\ SameTrade(reports[i], reports[i + 1])
        \/ i - 1 \in 1..m /\ SameTrade(reports[i - 1], reports[i])
    BY <1>1, <1>3, <1>4 DEF InPairs
  <2> QED
    BY <1>3, <1>4, <2>1
<1>5. CASE i = m + 1
  <2>1. i + 1 \in 1..(m + 2) /\ i + 1 = m + 2
    BY <1>1, <1>5
  <2> QED
    BY <1>2, <1>3, <1>5, <2>1
<1>6. CASE i = m + 2
  <2>1. i - 1 \in 1..(m + 2) /\ i - 1 = m + 1
    BY <1>1, <1>6
  <2> QED
    BY <1>2, <1>3, <1>6, <2>1
<1> QED
  BY <1>1, <1>4, <1>5, <1>6

(* Every report's order was inserted: appending keeps it. *)
LEMMA StampsBounded ==
    ASSUME NEW reports \in Seq(Report), NEW r \in Report, NEW bound,
           \A i \in DOMAIN reports : reports[i].order.stamp < bound,
           r.order.stamp < bound
    PROVE  \A i \in DOMAIN Append(reports, r) : Append(reports, r)[i].order.stamp < bound
<1>1. /\ Len(reports) \in Nat /\ DOMAIN reports = 1..Len(reports)
      /\ DOMAIN Append(reports, r) = 1..(Len(reports) + 1)
      /\ \A i \in 1..Len(reports) : Append(reports, r)[i] = reports[i]
      /\ Append(reports, r)[Len(reports) + 1] = r
  BY AppendFacts
<1>2. \A i \in 1..(Len(reports) + 1) : i \in 1..Len(reports) \/ i = Len(reports) + 1
  BY <1>1
<1> QED
  BY <1>1, <1>2, Zenon

(* Inserting an order that has traded nothing leaves the reports right. *)
LEMMA InsertKeepsReports ==
    ASSUME BookInv, ReportInv, TaskNewOrder
    PROVE  ReportInv'
<1>1. PICK owner \in Owners, clientID \in ClientIDs, side \in Sides,
           price \in Prices, quantity \in Quantities :
           Insert(NewOrder(owner, clientID, side, price, quantity, inserted))
  BY DEF TaskNewOrder
<1> DEFINE o == NewOrder(owner, clientID, side, price, quantity, inserted)
<1>2. inserted \in Nat /\ book \in SUBSET Order /\ outgoing \in Seq(Report)
  BY DEF BookInv, TypeOK
<1>3. o.executed = 0 /\ o.stamp = inserted
  BY <1>2, NewOrderFacts
<1> HIDE DEF o
<1>4. /\ book' = book \cup {o} /\ inserted' = inserted + 1 /\ pc' = "matching"
      /\ processed = <<>> /\ processed' = <<>> /\ outgoing' = outgoing
  BY <1>1 DEF Insert, o, ReportInv
<1>5. AllReports = outgoing /\ AllReports' = outgoing
  BY <1>2, <1>4, NothingQueued DEF AllReports
<1>6. \A i \in DOMAIN outgoing : outgoing[i].order.stamp \in Nat /\ outgoing[i].order.stamp < inserted
  <2>1. \A i \in DOMAIN outgoing : outgoing[i] \in Report
    BY <1>2, LenProperties, ElementOfSeq
  <2> QED
    BY <1>5, <2>1 DEF ReportInv, Report, Order
<1>7. ASSUME NEW n \in 0..(inserted' - 1) PROVE Reconciled(n, book', outgoing)
  <2>1. CASE n = inserted
    <3>1. About(outgoing, n) = {}
      BY <1>2, <1>6, <2>1 DEF About
    <3>2. {x \in book' : x.stamp = n} = {o}
      BY <1>2, <1>3, <1>4, <2>1 DEF BookInv, RestingOrdersAreOpen, Order
    <3> QED
      BY <1>3, <3>1, <3>2 DEF Reconciled
  <2>2. CASE n # inserted
    <3>1. n \in 0..(inserted - 1)
      BY <1>2, <1>4, <2>2
    <3>2. {x \in book' : x.stamp = n} = {x \in book : x.stamp = n}
      BY <1>3, <1>4, <2>2
    <3>3. Reconciled(n, book, outgoing)
      BY <1>5, <3>1 DEF ReportInv
    <3> QED
      BY <3>2, <3>3 DEF Reconciled
  <2> QED
    BY <2>1, <2>2
<1>8. \A i \in DOMAIN outgoing : outgoing[i].order.stamp < inserted'
  BY <1>2, <1>4, <1>6
<1> QED
  BY <1>4, <1>5, <1>7, <1>8 DEF ReportInv

(* Two copies queued at once are two copies queued one after the other. *)
LEMMA AppendTwo ==
    ASSUME NEW S, NEW seq \in Seq(S), NEW x \in S, NEW y \in S
    PROVE  seq \o <<x, y>> = Append(Append(seq, x), y)
<1>1. /\ Append(seq, x) \in Seq(S) /\ Append(Append(seq, x), y) \in Seq(S)
      /\ Append(seq, x) = seq \o <<x>>
  BY AppendProperties, AppendIsConcat
<1>2. Append(Append(seq, x), y) = Append(seq, x) \o <<y>>
  BY <1>1, AppendIsConcat
<1>3. <<x>> \in Seq(S) /\ <<y>> \in Seq(S) /\ <<x>> \o <<y>> = <<x, y>>
  <2>1. /\ <<x>> \in Seq(S) /\ Len(<<x>>) = 1 /\ <<x>>[1] = x
        /\ <<y>> \in Seq(S) /\ Len(<<y>>) = 1 /\ <<y>>[1] = y
        /\ <<x, y>> \in Seq(S) /\ Len(<<x, y>>) = 2 /\ <<x, y>>[1] = x /\ <<x, y>>[2] = y
    OBVIOUS
  <2>2. /\ <<x>> \o <<y>> \in Seq(S) /\ Len(<<x>> \o <<y>>) = 2
        /\ \A i \in 1..2 : (<<x>> \o <<y>>)[i] = IF i <= 1 THEN <<x>>[i] ELSE <<y>>[i - 1]
    BY <2>1, ConcatProperties
  <2>3. \A i \in 1..2 : (<<x>> \o <<y>>)[i] = <<x, y>>[i]
    BY <2>1, <2>2
  <2> QED
    BY <2>1, <2>2, <2>3, SeqEqual
<1>4. (seq \o <<x>>) \o <<y>> = seq \o (<<x>> \o <<y>>)
  BY <1>3, ConcatAssociative
<1> QED
  BY <1>1, <1>2, <1>3, <1>4

(* A pass says of both its orders what it leaves of them in the book. *)
LEMMA MatchKeepsReports ==
    ASSUME BookInv, ReportInv, MatchTwoOrders
    PROVE  ReportInv'
<1>1. PICK bid, ask \in book :
         /\ Crossing(book, bid, ask)
         /\ book' = AfterMatch(book, bid, ask)
         /\ processed' = processed \o <<MatchedBid(bid, ask), MatchedAsk(bid, ask)>>
  BY DEF MatchTwoOrders
<1> DEFINE b == MatchedBid(bid, ask)
           a == MatchedAsk(bid, ask)
           rb == ExecutionReport(b)
           ra == ExecutionReport(a)
<1>2. /\ book \in SUBSET Order /\ outgoing \in Seq(Report) /\ processed \in Seq(Order)
      /\ \A x, y \in book : x.stamp = y.stamp => x = y
      /\ bid.stamp < inserted /\ ask.stamp < inserted
  BY <1>1 DEF BookInv, TypeOK, StampsUnique, RestingOrdersAreOpen
<1>3. /\ bid.side = "BUY" /\ ask.side = "SELL"
      /\ b \in Order /\ b.side = "BUY" /\ b.stamp = bid.stamp
      /\ a \in Order /\ a.side = "SELL" /\ a.stamp = ask.stamp
      /\ b.lastPx = a.lastPx /\ b.lastQty = a.lastQty
  BY <1>1, <1>2, CrossingFacts, MatchedFacts
<1>4. /\ book' = (book \ {bid, ask}) \cup Unfilled({b, a})
      /\ processed' = processed \o <<b, a>>
      /\ outgoing' = outgoing /\ inserted' = inserted /\ pc' = "matching"
  BY <1>1 DEF AfterMatch, MatchTwoOrders
<1> HIDE DEF a, b
<1>5. /\ rb \in Report /\ rb.order = b /\ rb.type # "CANCELED"
      /\ rb.type = IF IsFilled(b) THEN "FILLED" ELSE "PARTIALLY_FILLED"
      /\ ra \in Report /\ ra.order = a /\ ra.type # "CANCELED"
      /\ ra.type = IF IsFilled(a) THEN "FILLED" ELSE "PARTIALLY_FILLED"
  BY <1>3, ExecutionReportFacts
<1>6. AllReports \in Seq(Report) /\ Append(AllReports, rb) \in Seq(Report)
  BY <1>2, <1>5, JoinedFacts, AppendFacts DEF AllReports
<1>7. AllReports' = Append(Append(AllReports, rb), ra)
  <2>1. processed' = Append(Append(processed, b), a)
    BY <1>2, <1>3, <1>4, AppendTwo
  <2>2. Append(processed, b) \in Seq(Order)
    BY <1>2, <1>3
  <2>3. Joined(outgoing, Append(processed, b)) = Append(AllReports, rb)
    BY <1>2, <1>3, QueueingAddsReport DEF AllReports
  <2>4. Joined(outgoing, Append(Append(processed, b), a)) = Append(Append(AllReports, rb), ra)
    BY <1>2, <1>3, <2>2, <2>3, QueueingAddsReport
  <2> QED
    BY <1>4, <2>1, <2>4 DEF AllReports
<1> HIDE DEF rb, ra
<1>8. InPairs(AllReports)'
  <2>1. SameTrade(rb, ra)
    BY <1>3, <1>5 DEF SameTrade
  <2>2. InPairs(Append(Append(AllReports, rb), ra))
    BY <1>5, <1>6, <2>1, TradeKeepsPairs DEF ReportInv
  <2> QED
    BY <1>7, <2>2
<1>9. \A i \in DOMAIN AllReports' : (AllReports')[i].order.stamp < inserted'
  <2>1. \A i \in DOMAIN Append(AllReports, rb) : Append(AllReports, rb)[i].order.stamp < inserted
    BY <1>2, <1>3, <1>5, <1>6, StampsBounded DEF ReportInv
  <2> QED
    BY <1>2, <1>3, <1>4, <1>5, <1>6, <1>7, <2>1, StampsBounded
<1>10. ASSUME NEW n \in 0..(inserted' - 1) PROVE Reconciled(n, book', AllReports')
  <2> DEFINE leftBid == Unfilled({b})
             leftAsk == Unfilled({a})
             orders == (book \ {bid}) \cup leftBid
  <2>1. Reconciled(n, book, AllReports)
    BY <1>4 DEF ReportInv
  <2>2. Reconciled(n, orders, Append(AllReports, rb))
    <3>1. \/ leftBid = {} /\ rb.type \in {"FILLED", "CANCELED"}
          \/ leftBid = {rb.order} /\ rb.type = "PARTIALLY_FILLED"
      BY <1>5 DEF Unfilled
    <3>2. rb.order.stamp = bid.stamp
      BY <1>3, <1>5
    <3> HIDE DEF leftBid
    <3> QED
      BY <1>1, <1>2, <1>5, <1>6, <2>1, <3>1, <3>2, ReportReconciles
  <2>3. /\ \A o \in leftBid : o.stamp = bid.stamp
        /\ bid.stamp # ask.stamp
    BY <1>1, <1>2, <1>3 DEF Unfilled
  <2>4. ask \in orders /\ \A o \in orders : o.stamp = ask.stamp => o = ask
    BY <1>1, <1>2, <2>3
  <2>5. Reconciled(n, (orders \ {ask}) \cup leftAsk, Append(Append(AllReports, rb), ra))
    <3>1. \/ leftAsk = {} /\ ra.type \in {"FILLED", "CANCELED"}
          \/ leftAsk = {ra.order} /\ ra.type = "PARTIALLY_FILLED"
      BY <1>5 DEF Unfilled
    <3>2. ra.order.stamp = ask.stamp
      BY <1>3, <1>5
    <3> HIDE DEF leftAsk, orders
    <3> QED
      BY <1>5, <1>6, <2>2, <2>4, <3>1, <3>2, ReportReconciles
  <2>6. (orders \ {ask}) \cup leftAsk = book'
    <3>1. Unfilled({b, a}) = leftBid \cup leftAsk
      BY DEF Unfilled
    <3>2. ask \notin leftBid
      BY <2>3
    <3> HIDE DEF leftBid, leftAsk
    <3> QED
      BY <1>4, <3>1, <3>2
  <2> QED
    BY <1>7, <2>5, <2>6
<1> QED
  BY <1>4, <1>8, <1>9, <1>10 DEF ReportInv

(* A cancel says CANCELED of the order it takes out of the book. *)
LEMMA CancelKeepsReports ==
    ASSUME BookInv, ReportInv, TaskCancelOrder
    PROVE  ReportInv'
<1>1. PICK owner \in Owners, clientID \in ClientIDs, side \in Sides :
         CancelFound(owner, clientID, side) \/ CancelNotFound(owner, clientID, side)
  BY DEF TaskCancelOrder
<1>2. /\ book \in SUBSET Order /\ outgoing \in Seq(Report) /\ processed = <<>>
      /\ processed' = <<>> /\ inserted' = inserted /\ pc' = "idle"
  BY DEF BookInv, TypeOK, ReportInv, TaskCancelOrder
<1>3. AllReports = outgoing
  BY <1>2, NothingQueued DEF AllReports
<1>4. CASE CancelFound(owner, clientID, side)
  <2>1. PICK found \in Find(book, owner, clientID, side) :
           /\ outgoing' = Append(outgoing, [type |-> "CANCELED", order |-> Cancel(found)])
           /\ book' = Erase((book \ {found}) \cup {Cancel(found)}, Cancel(found))
    BY <1>4 DEF CancelFound
  <2> DEFINE r == [type |-> "CANCELED", order |-> Cancel(found)]
  <2>2. found \in book /\ book' = (book \ {found}) \cup {}
    BY <2>1, EraseTakesFound DEF BookInv, TypeOK
  <2>3. r \in Report /\ r.type = "CANCELED" /\ r.order.stamp = found.stamp
    BY <1>2, <2>2, CancelFacts DEF Report, ReportTypes
  <2>4. found.stamp < inserted /\ \A o \in book : o.stamp = found.stamp => o = found
    BY <2>2 DEF BookInv, StampsUnique, RestingOrdersAreOpen
  <2> HIDE DEF r
  <2>5. outgoing' = Append(outgoing, r) /\ outgoing' \in Seq(Report)
    BY <1>2, <2>1, <2>3 DEF r
  <2>6. AllReports' = Append(AllReports, r)
    BY <1>2, <1>3, <2>5, NothingQueued DEF AllReports
  <2>7. InPairs(Append(outgoing, r))
    BY <1>2, <1>3, <2>3, CancelKeepsPairs DEF ReportInv
  <2>8. \A i \in DOMAIN Append(outgoing, r) : Append(outgoing, r)[i].order.stamp < inserted
    BY <1>2, <1>3, <2>3, <2>4, StampsBounded DEF ReportInv
  <2>9. ASSUME NEW n \in 0..(inserted - 1) PROVE Reconciled(n, book', Append(outgoing, r))
    <3>1. Reconciled(n, book, outgoing)
      BY <1>3 DEF ReportInv
    <3>2. Reconciled(n, (book \ {found}) \cup {}, Append(outgoing, r))
      BY <1>2, <2>2, <2>3, <2>4, <3>1, ReportReconciles
    <3> QED
      BY <2>2, <3>2
  <2> QED
    BY <1>2, <1>3, <2>6, <2>7, <2>8, <2>9 DEF ReportInv
<1>5. CASE CancelNotFound(owner, clientID, side)
  <2>1. book' = book /\ outgoing' = outgoing
    BY <1>5 DEF CancelNotFound
  <2>2. AllReports' = AllReports
    BY <1>2, <2>1 DEF AllReports
  <2> QED
    BY <1>2, <2>1, <2>2 DEF ReportInv
<1> QED
  BY <1>1, <1>4, <1>5

(* The reports, those still to be made included, come in pairs and agree    *)
(* with the book after every step of the worker.                            *)
LEMMA ReportInvariant == Spec => []ReportInv
<1>1. Init => ReportInv
  <2> SUFFICES ASSUME Init PROVE ReportInv
    OBVIOUS
  <2>1. inserted = 0 /\ processed = <<>> /\ outgoing = <<>>
    BY DEF Init
  <2>2. AllReports = <<>>
    BY <2>1, EmptySeq, NothingQueued DEF AllReports
  <2>3. DOMAIN AllReports = {}
    BY <2>2
  <2>4. 0..(inserted - 1) = {}
    BY <2>1
  <2> QED
    BY <2>1, <2>3, <2>4 DEF ReportInv, InPairs
<1>2. BookInv /\ ReportInv /\ [Next]_vars => ReportInv'
  <2> SUFFICES ASSUME BookInv, ReportInv, [Next]_vars PROVE ReportInv'
    OBVIOUS
  <2>1. CASE TaskNewOrder
    BY <2>1, InsertKeepsReports
  <2>2. CASE MatchTwoOrders
    BY <2>2, MatchKeepsReports
  <2>3. CASE ReportProcessed
    <3>1. AllReports' = AllReports
      BY <2>3, ReportingAddsNothing DEF ReportProcessed, AllReports, BookInv, TypeOK
    <3> QED
      BY <2>3, <3>1 DEF ReportProcessed, ReportInv
  <2>4. CASE MatchingDone \/ TaskNewOrderDone
    <3>1. AllReports' = AllReports
      BY <2>4 DEF MatchingDone, TaskNewOrderDone, AllReports
    <3> QED
      BY <2>4, <3>1 DEF MatchingDone, TaskNewOrderDone, ReportInv
  <2>5. CASE TaskCancelOrder
    BY <2>5, CancelKeepsReports
  <2>6. CASE UNCHANGED vars
    <3>1. AllReports' = AllReports
      BY <2>6 DEF vars, AllReports
    <3> QED
      BY <2>6, <3>1 DEF vars, ReportInv
  <2> QED
    BY <2>1, <2>2, <2>3, <2>4, <2>5, <2>6 DEF Next, Work
<1> QED
  BY <1>1, <1>2, BookInvariant, PTL DEF Spec

(* taskNewOrder reports every trade to both of its sides, one behind the    *)
(* other, whatever is cancelled between the tasks.                          *)
THEOREM BothSidesReported == Spec => []TradesReportedInPairs
<1>1. BookInv /\ ReportInv => TradesReportedInPairs
  BY NothingQueued DEF BookInv, TypeOK, ReportInv, AllReports, TradesReportedInPairs
<1> QED
  BY <1>1, BookInvariant, ReportInvariant, PTL

(* A client's reports tell it exactly what of its orders rests: the last    *)
(* report of a resting order is a copy of it, the last one of an order that *)
(* is gone says FILLED or CANCELED, and no earlier one does.                *)
THEOREM ReportsReconcile == Spec => []ReportsReconcileWithBook
<1>1. BookInv /\ ReportInv => ReportsReconcileWithBook
  BY NothingQueued DEF BookInv, TypeOK, ReportInv, AllReports, ReportsReconcileWithBook
<1> QED
  BY <1>1, BookInvariant, ReportInvariant, PTL

-----------------------------------------------------------------------------
(* Averages *)

(* A report about a resting order that says of its average what follows     *)
(* from what was said of it before.                                         *)
LEMMA ReportFollows ==
    ASSUME NEW reports \in Seq(Report), NEW r \in Report,
           NEW orders, NEW old \in orders, NEW left \in SUBSET {r.order},
           \A o \in orders : o.stamp = old.stamp => o = old,
           r.order.stamp = old.stamp,
           AveragesFollow(orders, reports),
           r.order.nan <=> old.nan \/ (r.type # "CANCELED" /\ r.order.executed = 0),
           ~r.order.nan => WithinLimit(r.order)
    PROVE  AveragesFollow((orders \ {old}) \cup left, Append(reports, r))
<1> DEFINE longer == Append(reports, r)
           m == Len(reports)
           trades(n) == TradesOf(reports, n)
           trades2(n) == TradesOf(longer, n)
<1>1. /\ m \in Nat /\ DOMAIN reports = 1..m /\ DOMAIN longer = 1..(m + 1)
      /\ \A i \in 1..m : longer[i] = reports[i]
      /\ longer[m + 1] = r
  BY AppendFacts
<1> HIDE DEF longer, m
<1>2. /\ \A i : i \in 1..(m + 1) <=> i \in 1..m \/ i = m + 1
      /\ \A i \in 1..m : i \in Nat /\ i < m + 1 /\ i # m + 1 /\ ~(m + 1 <= i) /\ i <= m + 1
      /\ m + 1 <= m + 1
  BY <1>1
<1>3. ASSUME NEW n
      PROVE  /\ \A i \in trades(n) : i \in 1..m
             /\ \A i : i \in trades2(n) <=>
                   i \in trades(n) \/ (i = m + 1 /\ r.type # "CANCELED" /\ r.order.stamp = n)
  BY <1>1, <1>2, Zenon DEF TradesOf
<1>4. /\ \A o \in orders : AverageFollows(o, reports, trades(o.stamp))
      /\ \A i \in 1..m : AverageFollows(reports[i].order, reports,
                            {j \in trades(reports[i].order.stamp) : j <= i})
  BY <1>1 DEF AveragesFollow
<1> HIDE DEF trades, trades2
<1>5. AverageFollows(r.order, longer, trades2(r.order.stamp))
  <2>1. old.nan <=> \E i \in trades(old.stamp) : reports[i].order.executed = 0
    BY <1>4 DEF AverageFollows
  <2>2. (\E i \in trades2(old.stamp) : longer[i].order.executed = 0) <=>
           \/ \E i \in trades(old.stamp) : reports[i].order.executed = 0
           \/ r.type # "CANCELED" /\ r.order.executed = 0
    BY <1>1, <1>3
  <2> QED
    BY <2>1, <2>2 DEF AverageFollows
<1>6. ASSUME NEW o \in (orders \ {old}) \cup left
      PROVE  AverageFollows(o, longer, trades2(o.stamp))
  <2>1. CASE o \in left
    BY <1>5, <2>1
  <2>2. CASE o \in orders /\ o # old
    <3>1. o.stamp # r.order.stamp
      BY <2>2
    <3>2. AverageFollows(o, reports, trades(o.stamp))
      BY <1>4, <2>2
    <3>3. trades2(o.stamp) = trades(o.stamp)
      BY <1>3, <3>1
    <3> QED
      BY <1>1, <1>3, <3>2, <3>3 DEF AverageFollows
  <2> QED
    BY <2>1, <2>2
<1>7. ASSUME NEW i \in 1..(m + 1)
      PROVE  AverageFollows(longer[i].order, longer,
                            {j \in trades2(longer[i].order.stamp) : j <= i})
  <2>1. CASE i \in 1..m
    <3> DEFINE n == reports[i].order.stamp
    <3>1. longer[i] = reports[i]
      BY <1>1, <2>1
    <3>2. {j \in trades2(n) : j <= i} = {j \in trades(n) : j <= i}
      BY <1>2, <1>3, <2>1
    <3>3. AverageFollows(reports[i].order, reports, {j \in trades(n) : j <= i})
      BY <1>4, <2>1
    <3>4. \A j \in trades(n) : longer[j] = reports[j]
      BY <1>1, <1>3
    <3> QED
      BY <3>1, <3>2, <3>3, <3>4 DEF AverageFollows
  <2>2. CASE i = m + 1
    <3>1. longer[i] = r
      BY <1>1, <2>2
    <3>2. {j \in trades2(r.order.stamp) : j <= i} = trades2(r.order.stamp)
      BY <1>2, <1>3, <2>2
    <3> QED
      BY <1>5, <3>1, <3>2
  <2> QED
    BY <1>2, <2>1, <2>2
<1> QED
  BY <1>1, <1>6, <1>7 DEF AveragesFollow, trades2, longer

(* Without negative quantities an execution never takes more than is open.  *)
AverageInv ==
    /\ AveragesWithinLimits
    /\ \A o \in book : o.open >= 0

(* A pass keeps the average of either side within its limit.                *)
LEMMA MatchKeepsAverages ==
    ASSUME BookInv, AverageInv,
           NEW bid \in book, NEW ask \in book, Crossing(book, bid, ask)
    PROVE  LET b == MatchedBid(bid, ask)
               a == MatchedAsk(bid, ask) IN
           /\ b.nan <=> bid.nan \/ b.executed = 0
           /\ a.nan <=> ask.nan \/ a.executed = 0
           /\ ~b.nan => WithinLimit(b)
           /\ ~a.nan => WithinLimit(a)
           /\ b.open >= 0 /\ a.open >= 0
<1> DEFINE b == MatchedBid(bid, ask)
           a == MatchedAsk(bid, ask)
           q == MatchQuantity(bid, ask)
<1>1. book \in SUBSET Order
  BY DEF BookInv, TypeOK
<1>2. /\ bid \in Order /\ bid.side = "BUY" /\ ask \in Order /\ ask.side = "SELL"
      /\ ask.price \in Int /\ bid.price \in Int /\ ask.price <= bid.price /\ q \in Int
  BY <1>1, CrossingFacts
<1>3. /\ bid.open \in Int /\ ask.open \in Int /\ bid.executed \in Int
      /\ ask.executed \in Int /\ bid.value \in Int /\ ask.value \in Int
  BY <1>2 DEF Order
<1>4. q >= 0 /\ q <= bid.open /\ q <= ask.open
  BY <1>3 DEF MatchQuantity, AverageInv
<1>5. /\ b.side = "BUY" /\ b.price = bid.price /\ b.open = bid.open - q
      /\ b.executed = bid.executed + q
      /\ (b.nan <=> bid.nan \/ q + bid.executed = 0)
      /\ (~b.nan => b.value = bid.value + ask.price * q)
      /\ a.side = "SELL" /\ a.price = ask.price /\ a.open = ask.open - q
      /\ a.executed = ask.executed + q
      /\ (a.nan <=> ask.nan \/ q + ask.executed = 0)
      /\ (~a.nan => a.value = ask.value + ask.price * q)
  BY <1>1, MatchedFacts
<1> HIDE DEF a, b, q
<1>6. /\ (~bid.nan => bid.value <= bid.price * bid.executed)
      /\ (~ask.nan => ask.value = ask.price * ask.executed)
  BY <1>2 DEF AverageInv, AveragesWithinLimits, AveragesFollow, AverageFollows, WithinLimit
<1>7. q \in Nat
  BY <1>2, <1>4
<1>8. ~bid.nan => bid.value + ask.price * q <= bid.price * (bid.executed + q)
  BY <1>2, <1>3, <1>6, <1>7, ValueBound
<1>9. ~ask.nan => ask.value + ask.price * q = ask.price * (ask.executed + q)
  BY <1>2, <1>3, <1>6, ValueExact
<1>10. ~b.nan => WithinLimit(b)
  BY <1>5, <1>8 DEF WithinLimit
<1>11. ~a.nan => WithinLimit(a)
  BY <1>5, <1>9 DEF WithinLimit
<1>12. /\ b.open >= 0 /\ a.open >= 0
       /\ q + bid.executed = b.executed /\ q + ask.executed = a.executed
  BY <1>3, <1>4, <1>5, <1>7
<1> QED
  BY <1>5, <1>10, <1>11, <1>12 DEF a, b

(* An order that is inserted has an average, of nothing; no report is about *)
(* it yet.                                                                  *)
LEMMA InsertKeepsAverages ==
    ASSUME Quantities \subseteq Nat, BookInv, ReportInv, AverageInv, TaskNewOrder
    PROVE  AverageInv'
<1>1. PICK owner \in Owners, clientID \in ClientIDs, side \in Sides,
           price \in Prices, quantity \in Quantities :
           Insert(NewOrder(owner, clientID, side, price, quantity, inserted))
  BY DEF TaskNewOrder
<1> DEFINE o == NewOrder(owner, clientID, side, price, quantity, inserted)
<1>2. inserted \in Nat /\ outgoing \in Seq(Report)
  BY DEF BookInv, TypeOK
<1>3. /\ o.executed = 0 /\ o.stamp = inserted /\ o.value = 0 /\ ~o.nan
      /\ o.price \in Int /\ o.open >= 0
  BY <1>2, PricesAssumption, NewOrderFacts
<1> HIDE DEF o
<1>4. /\ book' = book \cup {o} /\ processed = <<>> /\ processed' = <<>>
      /\ outgoing' = outgoing
  BY <1>1 DEF Insert, o, ReportInv
<1>5. AllReports = outgoing /\ AllReports' = outgoing
  BY <1>2, <1>4, NothingQueued DEF AllReports
<1>6. TradesOf(outgoing, o.stamp) = {}
  <2>1. \A i \in DOMAIN outgoing : outgoing[i].order.stamp < inserted
    BY <1>5 DEF ReportInv
  <2>2. \A i \in DOMAIN outgoing : outgoing[i].order.stamp # inserted
    BY <1>2, <2>1
  <2> QED
    BY <1>3, <2>2 DEF TradesOf
<1>7. WithinLimit(o)
  BY <1>3 DEF WithinLimit
<1>8. AverageFollows(o, outgoing, TradesOf(outgoing, o.stamp))
  BY <1>3, <1>6, <1>7 DEF AverageFollows
<1>9. AveragesFollow(book \cup {o}, outgoing)
  BY <1>5, <1>8 DEF AverageInv, AveragesWithinLimits, AveragesFollow
<1> QED
  BY <1>3, <1>4, <1>5, <1>9 DEF AverageInv, AveragesWithinLimits

(* A pass says of the averages of both its orders what follows.             *)
LEMMA MatchKeepsFollowing ==
    ASSUME BookInv, ReportInv, AverageInv, MatchTwoOrders
    PROVE  AverageInv'
<1>1. PICK bid, ask \in book :
         /\ Crossing(book, bid, ask)
         /\ book' = AfterMatch(book, bid, ask)
         /\ processed' = processed \o <<MatchedBid(bid, ask), MatchedAsk(bid, ask)>>
  BY DEF MatchTwoOrders
<1> DEFINE b == MatchedBid(bid, ask)
           a == MatchedAsk(bid, ask)
           rb == ExecutionReport(b)
           ra == ExecutionReport(a)
           leftBid == Unfilled({b})
           leftAsk == Unfilled({a})
           orders == (book \ {bid}) \cup leftBid
<1>2. /\ book \in SUBSET Order /\ outgoing \in Seq(Report) /\ processed \in Seq(Order)
      /\ \A x, y \in book : x.stamp = y.stamp => x = y
  BY <1>1 DEF BookInv, TypeOK, StampsUnique
<1>3. /\ bid.side = "BUY" /\ ask.side = "SELL"
      /\ b \in Order /\ b.side = "BUY" /\ b.stamp = bid.stamp
      /\ a \in Order /\ a.side = "SELL" /\ a.stamp = ask.stamp
  BY <1>1, <1>2, CrossingFacts, MatchedFacts
<1>4. /\ b.nan <=> bid.nan \/ b.executed = 0
      /\ a.nan <=> ask.nan \/ a.executed = 0
      /\ ~b.nan => WithinLimit(b)
      /\ ~a.nan => WithinLimit(a)
      /\ b.open >= 0 /\ a.open >= 0
  BY <1>1, MatchKeepsAverages
<1>5. /\ book' = (book \ {bid, ask}) \cup Unfilled({b, a})
      /\ processed' = processed \o <<b, a>> /\ outgoing' = outgoing
  BY <1>1 DEF AfterMatch, MatchTwoOrders
<1> HIDE DEF a, b
<1>6. /\ rb \in Report /\ rb.order = b /\ rb.type # "CANCELED"
      /\ ra \in Report /\ ra.order = a /\ ra.type # "CANCELED"
  BY <1>3, ExecutionReportFacts
<1>7. AllReports \in Seq(Report) /\ Append(AllReports, rb) \in Seq(Report)
  BY <1>2, <1>6, JoinedFacts, AppendFacts DEF AllReports
<1>8. AllReports' = Append(Append(AllReports, rb), ra)
  <2>1. processed' = Append(Append(processed, b), a)
    BY <1>2, <1>3, <1>5, AppendTwo
  <2>2. Append(processed, b) \in Seq(Order)
    BY <1>2, <1>3
  <2>3. Joined(outgoing, Append(processed, b)) = Append(AllReports, rb)
    BY <1>2, <1>3, QueueingAddsReport DEF AllReports
  <2>4. Joined(outgoing, Append(Append(processed, b), a)) = Append(Append(AllReports, rb), ra)
    BY <1>2, <1>3, <2>2, <2>3, QueueingAddsReport
  <2> QED
    BY <1>5, <2>1, <2>4 DEF AllReports
<1> HIDE DEF rb, ra
<1>9. AveragesFollow(orders, Append(AllReports, rb))
  <2>1. leftBid \in SUBSET {rb.order}
    BY <1>6 DEF Unfilled
  <2>2. AveragesFollow(book, AllReports)
    BY DEF AverageInv, AveragesWithinLimits
  <2>3. rb.order.stamp = bid.stamp
    BY <1>3, <1>6
  <2> HIDE DEF leftBid
  <2> QED
    BY <1>1, <1>2, <1>4, <1>6, <1>7, <2>1, <2>2, <2>3, ReportFollows
<1>10. /\ \A o \in leftBid : o.stamp = bid.stamp
       /\ bid.stamp # ask.stamp
  BY <1>1, <1>2, <1>3 DEF Unfilled
<1>11. ask \in orders /\ \A o \in orders : o.stamp = ask.stamp => o = ask
  BY <1>1, <1>2, <1>10
<1>12. AveragesFollow((orders \ {ask}) \cup leftAsk, Append(Append(AllReports, rb), ra))
  <2>1. leftAsk \in SUBSET {ra.order} /\ ra.order.stamp = ask.stamp
    BY <1>3, <1>6 DEF Unfilled
  <2> HIDE DEF leftAsk, orders
  <2> QED
    BY <1>4, <1>6, <1>7, <1>9, <1>11, <2>1, ReportFollows
<1>13. (orders \ {ask}) \cup leftAsk = book'
  <2>1. Unfilled({b, a}) = leftBid \cup leftAsk
    BY DEF Unfilled
  <2>2. ask \notin leftBid
    BY <1>10
  <2> HIDE DEF leftBid, leftAsk
  <2> QED
    BY <1>5, <2>1, <2>2
<1>14. \A o \in book' : o.open >= 0
  BY <1>4, <1>5 DEF Unfilled, AverageInv
<1> QED
  BY <1>8, <1>12, <1>13, <1>14 DEF AverageInv, AveragesWithinLimits

(* A cancel reports the average as it is.                                   *)
LEMMA CancelKeepsAverages ==
    ASSUME BookInv, ReportInv, AverageInv, TaskCancelOrder
    PROVE  AverageInv'
<1>1. PICK owner \in Owners, clientID \in ClientIDs, side \in Sides :
         CancelFound(owner, clientID, side) \/ CancelNotFound(owner, clientID, side)
  BY DEF TaskCancelOrder
<1>2. /\ book \in SUBSET Order /\ outgoing \in Seq(Report)
      /\ processed = <<>> /\ processed' = <<>>
  BY DEF BookInv, TypeOK, ReportInv, TaskCancelOrder
<1>3. AllReports = outgoing
  BY <1>2, NothingQueued DEF AllReports
<1>4. CASE CancelFound(owner, clientID, side)
  <2>1. PICK found \in Find(book, owner, clientID, side) :
           /\ outgoing' = Append(outgoing, [type |-> "CANCELED", order |-> Cancel(found)])
           /\ book' = Erase((book \ {found}) \cup {Cancel(found)}, Cancel(found))
    BY <1>4 DEF CancelFound
  <2> DEFINE r == [type |-> "CANCELED", order |-> Cancel(found)]
  <2>2. found \in book /\ book' = (book \ {found}) \cup {}
    BY <2>1, EraseTakesFound DEF BookInv, TypeOK
  <2>3. /\ r \in Report /\ r.type = "CANCELED" /\ r.order.stamp = found.stamp
        /\ r.order.nan = found.nan /\ r.order.value = found.value
        /\ r.order.side = found.side /\ r.order.price = found.price
        /\ r.order.executed = found.executed
    BY <1>2, <2>2, CancelFacts DEF Report, ReportTypes
  <2>4. \A o \in book : o.stamp = found.stamp => o = found
    BY <2>2 DEF BookInv, StampsUnique
  <2> HIDE DEF r
  <2>5. outgoing' = Append(outgoing, r) /\ outgoing' \in Seq(Report)
    BY <1>2, <2>1, <2>3 DEF r
  <2>6. AllReports' = Append(outgoing, r)
    BY <1>2, <2>5, NothingQueued DEF AllReports
  <2>7. AveragesFollow(book, outgoing)
    BY <1>3 DEF AverageInv, AveragesWithinLimits
  <2>8. ~r.order.nan => WithinLimit(r.order)
    BY <2>2, <2>3, <2>7 DEF AveragesFollow, AverageFollows, WithinLimit
  <2>9. AveragesFollow((book \ {found}) \cup {}, Append(outgoing, r))
    BY <1>2, <2>2, <2>3, <2>4, <2>7, <2>8, ReportFollows
  <2> QED
    BY <2>2, <2>6, <2>9 DEF AverageInv, AveragesWithinLimits
<1>5. CASE CancelNotFound(owner, clientID, side)
  <2>1. book' = book /\ outgoing' = outgoing
    BY <1>5 DEF CancelNotFound
  <2>2. AllReports' = AllReports
    BY <1>2, <2>1 DEF AllReports
  <2> QED
    BY <2>1, <2>2 DEF AverageInv, AveragesWithinLimits
<1> QED
  BY <1>1, <1>4, <1>5

(* If no client sends a negative quantity, no buyer pays more than its      *)
(* limit on average and every seller gets exactly its limit, unless the     *)
(* first trade of the order was one of nothing: then, and only then, its    *)
(* average is no number in all its reports from that trade on.              *)
THEOREM AveragesBounded ==
    ASSUME Quantities \subseteq Nat
    PROVE  Spec => []AveragesWithinLimits
<1>1. Init => AverageInv
  <2> SUFFICES ASSUME Init PROVE AverageInv
    OBVIOUS
  <2>1. book = {} /\ processed = <<>> /\ outgoing = <<>>
    BY DEF Init
  <2>2. AllReports = <<>>
    BY <2>1, EmptySeq, NothingQueued DEF AllReports
  <2>3. DOMAIN AllReports = {}
    BY <2>2
  <2> QED
    BY <2>1, <2>3 DEF AverageInv, AveragesWithinLimits, AveragesFollow
<1>2. BookInv /\ ReportInv /\ AverageInv /\ [Next]_vars => AverageInv'
  <2> SUFFICES ASSUME BookInv, ReportInv, AverageInv, [Next]_vars PROVE AverageInv'
    OBVIOUS
  <2>1. CASE TaskNewOrder
    BY <2>1, InsertKeepsAverages
  <2>2. CASE MatchTwoOrders
    BY <2>2, MatchKeepsFollowing
  <2>3. CASE ReportProcessed
    <3>1. AllReports' = AllReports
      BY <2>3, ReportingAddsNothing DEF ReportProcessed, AllReports, BookInv, TypeOK
    <3> QED
      BY <2>3, <3>1 DEF ReportProcessed, AverageInv, AveragesWithinLimits
  <2>4. CASE MatchingDone \/ TaskNewOrderDone
    <3>1. AllReports' = AllReports
      BY <2>4 DEF MatchingDone, TaskNewOrderDone, AllReports
    <3> QED
      BY <2>4, <3>1 DEF MatchingDone, TaskNewOrderDone, AverageInv, AveragesWithinLimits
  <2>5. CASE TaskCancelOrder
    BY <2>5, CancelKeepsAverages
  <2>6. CASE UNCHANGED vars
    <3>1. AllReports' = AllReports
      BY <2>6 DEF vars, AllReports
    <3> QED
      BY <2>6, <3>1 DEF vars, AverageInv, AveragesWithinLimits
  <2> QED
    BY <2>1, <2>2, <2>3, <2>4, <2>5, <2>6 DEF Next, Work
<1>3. AverageInv => AveragesWithinLimits
  BY DEF AverageInv
<1> QED
  BY <1>1, <1>2, <1>3, BookInvariant, ReportInvariant, PTL DEF Spec
=============================================================================
