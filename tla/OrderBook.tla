------------------------------ MODULE OrderBook ------------------------------
(***************************************************************************)
(* One order book and the worker thread that owns it.  The thread pool     *)
(* gives every symbol one worker, so a book is only ever changed by the    *)
(* tasks of its own worker, one after the other: taskNewOrder and          *)
(* taskCancelOrder of order_matcher/central_order_book.cpp.                *)
(*                                                                         *)
(* taskNewOrder is the hard one: it inserts the order and runs the         *)
(* matching loop, where every pass executes the two best orders, queues a  *)
(* copy of both and erases the filled ones; then it turns the queued       *)
(* copies into reports.  Each of those is a step here, because a property  *)
(* of the loop is about its passes.                                        *)
(***************************************************************************)
EXTENDS OrderBookOps

CONSTANT Stamps     \* bound: the stamps that are given; Nat in the code

ASSUME StampsAssumption == Stamps \subseteq Nat

VARIABLES
    book,        \* m_bidOrders and m_askOrders
    inserted,    \* how many orders were ever inserted: the next stamp
    pc,          \* where the worker is: "idle", "matching", "reporting"
    processed,   \* processedOrders of taskNewOrder
    outgoing     \* every report put on m_outgoingMessages, in order

vars == <<book, inserted, pc, processed, outgoing>>

ReportTypes == {"FILLED", "PARTIALLY_FILLED", "CANCELED"}
Report == [type : ReportTypes, order : Order]

TypeOK ==
    /\ book \in SUBSET Order
    /\ inserted \in Nat
    /\ pc \in {"idle", "matching", "reporting"}
    /\ processed \in Seq(Order)
    /\ outgoing \in Seq(Report)

Init ==
    /\ book = {}
    /\ inserted = 0
    /\ pc = "idle"
    /\ processed = <<>>
    /\ outgoing = <<>>

(* taskNewOrder up to the loop: the order enters the book. *)
Insert(order) ==
    /\ pc = "idle"
    /\ inserted \in Stamps
    /\ book' = book \cup {order}
    /\ inserted' = inserted + 1
    /\ pc' = "matching"
    /\ processed' = <<>>
    /\ UNCHANGED outgoing

TaskNewOrder ==
    \E owner \in Owners, clientID \in ClientIDs, side \in Sides,
       price \in Prices, quantity \in Quantities :
        Insert(NewOrder(owner, clientID, side, price, quantity, inserted))

(* Variant for mutation: a pass whose orders have one owner is skipped. *)
MatchTwoOrdersSkipsSelfTrade ==
    /\ pc = "matching"
    /\ \E bid, ask \in book :
        /\ Crossing(book, bid, ask)
        /\ IF bid.owner = ask.owner
           THEN UNCHANGED <<book, processed>>
           ELSE /\ book' = AfterMatch(book, bid, ask)
                /\ processed' = processed \o <<MatchedBid(bid, ask), MatchedAsk(bid, ask)>>
    /\ UNCHANGED <<inserted, pc, outgoing>>

(* One pass of processMatching: the bid's copy is queued before the ask's. *)
MatchTwoOrders ==
    /\ pc = "matching"
    /\ \E bid, ask \in book :
        /\ Crossing(book, bid, ask)
        /\ book' = AfterMatch(book, bid, ask)
        /\ processed' = processed \o <<MatchedBid(bid, ask), MatchedAsk(bid, ask)>>
    /\ UNCHANGED <<inserted, pc, outgoing>>

(* processMatching returns. *)
MatchingDone ==
    /\ pc = "matching"
    /\ MatchingOver(book)
    /\ pc' = "reporting"
    /\ UNCHANGED <<book, inserted, processed, outgoing>>

ExecutionReportMistyped(o) ==      \* for mutation
    [type |-> IF IsFilled(o) THEN "FILLED" ELSE "ACCEPTED", order |-> o]

ExecutionReport(o) ==
    [type |-> IF IsFilled(o) THEN "FILLED" ELSE "PARTIALLY_FILLED", order |-> o]

(* taskNewOrder takes the next processed order and enqueues its report. *)
ReportProcessed ==
    /\ pc = "reporting"
    /\ processed # <<>>
    /\ outgoing' = Append(outgoing, ExecutionReport(Head(processed)))
    /\ processed' = Tail(processed)
    /\ UNCHANGED <<book, inserted, pc>>

TaskNewOrderDone ==
    /\ pc = "reporting"
    /\ processed = <<>>
    /\ pc' = "idle"
    /\ UNCHANGED <<book, inserted, processed, outgoing>>

(* Variants for mutation: no erase; every order of that name is erased. *)
CancelFoundKeeps(owner, clientID, side) ==
    \E found \in Find(book, owner, clientID, side) :
        /\ outgoing' = Append(outgoing, [type |-> "CANCELED", order |-> Cancel(found)])
        /\ book' = (book \ {found}) \cup {Cancel(found)}

CancelFoundAll(owner, clientID, side) ==
    \E found \in Find(book, owner, clientID, side) :
        /\ outgoing' = Append(outgoing, [type |-> "CANCELED", order |-> Cancel(found)])
        /\ book' = book \ Named(book, owner, clientID, side)

(* taskCancelOrder when the order is found: it is marked, reported, erased. *)
CancelFound(owner, clientID, side) ==
    \E found \in Find(book, owner, clientID, side) :
        LET marked == (book \ {found}) \cup {Cancel(found)} IN
        /\ outgoing' = Append(outgoing, [type |-> "CANCELED", order |-> Cancel(found)])
        /\ book' = Erase(marked, Cancel(found))

(* taskCancelOrder when it is not: the task is submitted again (modelled in *)
(* CentralOrderBook), the book and the reports stay as they are.            *)
CancelNotFound(owner, clientID, side) ==
    /\ Find(book, owner, clientID, side) = {}
    /\ UNCHANGED <<book, outgoing>>

TaskCancelOrder ==
    /\ pc = "idle"
    /\ \E owner \in Owners, clientID \in ClientIDs, side \in Sides :
           \/ CancelFound(owner, clientID, side)
           \/ CancelNotFound(owner, clientID, side)
    /\ UNCHANGED <<inserted, pc, processed>>

(* What the worker does inside taskNewOrder without waiting for anyone. *)
Work == MatchTwoOrders \/ MatchingDone \/ ReportProcessed \/ TaskNewOrderDone

Next == TaskNewOrder \/ Work \/ TaskCancelOrder

Spec == Init /\ [][Next]_vars

(* The worker thread is running, so the operating system lets it step. *)
FairSpec == Spec /\ WF_vars(Work)

-----------------------------------------------------------------------------
(* Properties *)

(* Whenever no loop is running, no bid reaches any ask: processMatching     *)
(* leaves nothing that could still trade, although it only compares the     *)
(* two best orders of each pass, and a cancel cannot uncover a cross.       *)
NotCrossedAtRest ==
    pc # "matching" =>
        \A bid \in Bids(book), ask \in Asks(book) : bid.price < ask.price

(* The quantities of a resting order add up and it is still open: filled    *)
(* orders are erased in the pass that fills them, and find and erase, which *)
(* only compare names, never hit an order that another report is about.     *)
RestingOrdersAreOpen ==
    \A o \in book :
        /\ o.open + o.executed = o.quantity
        /\ o.stamp < inserted
        /\ ~o.cancelled
        /\ IsFilled(o) => o.quantity = 0

(* Time priority at a price level: of two resting orders of one side and    *)
(* price, the later one has not traded.  processMatching executes begin(),  *)
(* and the multimap keeps equal keys in the order of insertion.             *)
LevelFillsInTimeOrder ==
    \A x, y \in book :
        x.side = y.side /\ x.price = y.price /\ x.stamp < y.stamp => y.executed = 0

(* The reports that are out and those that taskNewOrder is still to make.   *)
Joined(reports, copies) ==
    [i \in 1..(Len(reports) + Len(copies)) |->
        IF i <= Len(reports) THEN reports[i]
                             ELSE ExecutionReport(copies[i - Len(reports)])]

AllReports == Joined(outgoing, processed)

(* matchTwoOrders trades at the ask's price: a seller's average executed    *)
(* price is exactly its limit, a buyer's is never above its limit (value is *)
(* average * executed), over all of an order's trades.  It is no number, in *)
(* the book and in every report from then on, exactly if a trade has left   *)
(* the order with nothing executed: if its first was against quantity 0.    *)
WithinLimit(o) ==
    IF o.side = "SELL" THEN o.value = o.price * o.executed
                       ELSE o.value <= o.price * o.executed

TradesOf(reports, n) ==
    {i \in DOMAIN reports : reports[i].type # "CANCELED" /\ reports[i].order.stamp = n}

AverageFollows(o, reports, trades) ==
    /\ o.nan <=> \E i \in trades : reports[i].order.executed = 0
    /\ ~o.nan => WithinLimit(o)

AveragesFollow(orders, reports) ==
    /\ \A o \in orders : AverageFollows(o, reports, TradesOf(reports, o.stamp))
    /\ \A i \in DOMAIN reports :
          LET o == reports[i].order IN
          AverageFollows(o, reports, {j \in TradesOf(reports, o.stamp) : j <= i})

AveragesWithinLimits == AveragesFollow(book, AllReports)

(* Every trade is reported to both of its sides: outside taskNewOrder the   *)
(* execution reports come in pairs, a bid's and right behind it the ask's,  *)
(* of one quantity at one price, and no CANCELED gets between the two.      *)
SameTrade(bid, ask) ==
    /\ bid.type # "CANCELED" /\ ask.type # "CANCELED"
    /\ bid.order.side = "BUY" /\ ask.order.side = "SELL"
    /\ bid.order.lastQty = ask.order.lastQty
    /\ bid.order.lastPx = ask.order.lastPx

InPairs(reports) ==
    \A i \in DOMAIN reports :
        \/ reports[i].type = "CANCELED"
        \/ i + 1 \in DOMAIN reports /\ SameTrade(reports[i], reports[i + 1])
        \/ i - 1 \in DOMAIN reports /\ SameTrade(reports[i - 1], reports[i])

TradesReportedInPairs == pc = "idle" => InPairs(outgoing)

(* Two resting orders are never the same insertion. *)
StampsUnique == \A x, y \in book : x.stamp = y.stamp => x = y

(* The inductive invariant of the proofs: the parts above rest on each other *)
(* (a pass keeps the level order because it takes the first order, and      *)
(* erasing by name takes one order because stamps are unique).              *)
BookInv ==
    /\ TypeOK
    /\ StampsUnique
    /\ RestingOrdersAreOpen
    /\ LevelFillsInTimeOrder
    /\ NotCrossedAtRest

About(reports, n) == {i \in DOMAIN reports : reports[i].order.stamp = n}
Latest(indices) == {i \in indices : \A j \in indices : j <= i}

(* What a client can reconstruct from its reports is what the book holds:   *)
(* between tasks an order rests in the book exactly as its last report said *)
(* (untouched if it has none), or it is gone and its last report, and no    *)
(* earlier one, says FILLED or CANCELED.                                    *)
Reconciled(n, orders, reports) ==
    LET about == About(reports, n)
        resting == {o \in orders : o.stamp = n} IN
    /\ \A i \in about \ Latest(about) : reports[i].type = "PARTIALLY_FILLED"
    /\ \A o \in resting :
        IF about = {}
        THEN o.executed = 0
        ELSE \E i \in Latest(about) :
                reports[i] = [type |-> "PARTIALLY_FILLED", order |-> o]
    /\ resting = {} => \E i \in Latest(about) : reports[i].type \in {"FILLED", "CANCELED"}

ReportsReconcileWithBook ==
    pc = "idle" =>
        StampsUnique /\ \A n \in 0..(inserted - 1) : Reconciled(n, book, outgoing)

(* The reports, those still to be made included, are pairs, and agree with  *)
(* the book, after every step: this is what the proofs carry from one task  *)
(* to the next.                                                             *)
ReportInv ==
    /\ pc = "idle" => processed = <<>>
    /\ InPairs(AllReports)
    /\ \A i \in DOMAIN AllReports : AllReports[i].order.stamp < inserted
    /\ \A n \in 0..(inserted - 1) : Reconciled(n, book, AllReports)

(* Every pass of the matching loop takes an order out of the book (and adds *)
(* none), whatever the quantities: the loop cannot run forever.             *)
PassRemovesAnOrder ==
    MatchTwoOrders =>
        /\ \A o \in book' : \E x \in book : x.stamp = o.stamp
        /\ \E x \in book : \A o \in book' : o.stamp # x.stamp
EachPassRemovesAnOrder == [][PassRemovesAnOrder]_vars

(* A cancel takes out of the book the very order its CANCELED report names, *)
(* and no other, although the client may have reused the ClOrdID and erase  *)
(* looks the order up a second time by owner and client ID.                 *)
CancelTakesTheReportedOrder ==
    [][TaskCancelOrder /\ outgoing' # outgoing =>
        LET reported == outgoing'[Len(outgoing')].order IN
        book' = {o \in book : o.stamp # reported.stamp} /\ book' # book]_vars

(* Every new order task ends: the worker gets back to its queue.            *)
TaskNewOrderEnds == pc = "matching" ~> pc = "idle"
=============================================================================
