-------------------------- MODULE CentralOrderBook --------------------------
(***************************************************************************)
(* The order matcher from the FIX sessions to the reports:                 *)
(*                                                                         *)
(*   FIX threads   Server::onMessage pushes messages on the dispatcher's   *)
(*                 queue;                                                  *)
(*   dispatcher    IncomingMessageDispatcher::run takes them in order and  *)
(*                 calls addOrder or cancelOrder, which submit a task to   *)
(*                 the worker of the symbol;                               *)
(*   workers       one per configured symbol, run taskNewOrder and         *)
(*                 taskCancelOrder on the symbol's book and enqueue        *)
(*                 reports;                                                *)
(*   processor     OutgoingMessageProcessor::run sends the reports.        *)
(*                                                                         *)
(* A step is what one thread does between two accesses to something other  *)
(* threads see: the queues and the two dictionaries.  The dispatcher's     *)
(* queue and the queue of reports are FIFOs under a mutex (MPSCQueue and   *)
(* MPMCQueue say so).  A worker's ring is one only while its two producers *)
(* are not inside push together: the rings are those of WorkerRings, with  *)
(* a push in steps, and "overlapped" says when that has happened.  From    *)
(* then on tasks may be lost, or taken again from old slots.  A worker     *)
(* that comes to a slot which never held a task ends the program in the    *)
(* code; here it stays there, and what other threads still do is more than *)
(* the code would.  Both dictionaries are C++ maps accessed with           *)
(* operator[], which inserts a default entry for a missing key.            *)
(***************************************************************************)
EXTENDS OrderBookOps, SequencesExt, FiniteSets

CONSTANTS Configured,      \* the configured symbols, in order
          Messages,        \* what clients may send, each at most once
          SentBefore,      \* pairs of messages that arrive in that order
          RingSize         \* m_workQueueSizePerThread, the slots of a ring

NewMessages == {m \in Messages : m.type = "NEW"}
CancelMessages == {m \in Messages : m.type = "CANCEL"}

Symbols == {m.symbol : m \in Messages} \cup ToSet(Configured)

ASSUME MessagesAssumption ==
    /\ NewMessages \subseteq
          [type : {"NEW"}, symbol : Symbols, owner : Owners, clientID : ClientIDs,
           side : Sides, price : Prices, quantity : Quantities]
    /\ CancelMessages \subseteq
          [type : {"CANCEL"}, symbol : Symbols, owner : Owners, clientID : ClientIDs,
           side : Sides]
    /\ Messages = NewMessages \cup CancelMessages
    \* a client does not reuse a ClOrdID: reports name the order by it
    /\ \A m, n \in NewMessages : m.owner = n.owner /\ m.clientID = n.clientID => m = n

ASSUME ConfiguredAssumption ==
    /\ Configured \in Seq(ToSet(Configured))
    /\ Len(Configured) > 0 /\ IsInjective(Configured)

ASSUME RingSizeAssumption == RingSize \in Nat \ {0}

Workers == 0..(Len(Configured) - 1)
Dispatcher == -1      \* the thread that submits tasks, besides the workers
NoTask == [type |-> "none"]

VARIABLES
    arrived,      \* history: the messages clients have sent, in order
    incoming,     \* the dispatcher's m_queue
    dtask,        \* the task the dispatcher is submitting, or NoTask
    books,        \* m_orderBookDictionary; a symbol may get in late
    queueID,      \* m_queueIDDictionary, likewise
    rings,        \* m_threadQueues of the pool
    push,         \* where dispatcher and workers are in push
    overlapped,   \* history: two of them were inside push of one ring
    wpc,          \* where each worker is
    wtask,        \* the task it runs
    inserted,     \* insertions into each symbol's book
    processed,    \* processedOrders of each worker's taskNewOrder
    outgoing,     \* m_outgoingMessages
    delivered     \* history: the reports sent to the clients, in order

Pool == INSTANCE WorkerRings WITH Pushers <- Workers \cup {Dispatcher}

sessions == <<arrived, incoming>>
dictionaries == <<books, queueID>>
workers == <<wpc, wtask, inserted, processed>>
reports == <<outgoing, delivered>>
pool == <<rings, push, overlapped>>
vars == <<sessions, dtask, dictionaries, pool, workers, reports>>

Report == [type : {"ACCEPTED", "REJECTED", "FILLED", "PARTIALLY_FILLED", "CANCELED"},
           symbol : Symbols, order : Order]

TypeOK ==
    /\ arrived \in Seq(Messages)
    /\ incoming \in Seq(Messages)
    /\ dtask \in Messages \cup {NoTask}
    /\ DOMAIN books \subseteq Symbols
    /\ \A s \in DOMAIN books : books[s] \subseteq Order
    /\ DOMAIN queueID \subseteq Symbols
    /\ \A s \in DOMAIN queueID : queueID[s] \in Workers
    /\ Pool!RingTypes(Messages)
    /\ wpc \in [Workers -> {"idle", "matching", "reporting", "resubmitting"}]
    /\ wtask \in [Workers -> Messages \cup {NoTask}]
    /\ inserted \in [Symbols -> Nat]
    /\ processed \in [Workers -> Seq(Order)]
    /\ outgoing \in Seq(Report)
    /\ delivered \in Seq(Report)

(* CentralOrderBook::initialise: one book and one queue per symbol. *)
Init ==
    /\ arrived = <<>>
    /\ incoming = <<>>
    /\ dtask = NoTask
    /\ books = [s \in ToSet(Configured) |-> {}]
    /\ queueID = [s \in ToSet(Configured) |->
                    (CHOOSE i \in DOMAIN Configured : Configured[i] = s) - 1]
    /\ Pool!RingsInit
    /\ wpc = [w \in Workers |-> "idle"]
    /\ wtask = [w \in Workers |-> NoTask]
    /\ inserted = [s \in Symbols |-> 0]
    /\ processed = [w \in Workers |-> <<>>]
    /\ outgoing = <<>>
    /\ delivered = <<>>

(* operator[] of a map: a missing key gets a default value first. *)
WithEntry(map, key, default) ==
    IF key \in DOMAIN map THEN map
    ELSE [k \in DOMAIN map \cup {key} |-> IF k = key THEN default ELSE map[k]]

OrderOf(m, stamp) ==
    NewOrder(m.owner, m.clientID, m.side, m.price, m.quantity, stamp)

MakeReport(type, symbol, order) == [type |-> type, symbol |-> symbol, order |-> order]

-----------------------------------------------------------------------------
(* FIX session threads: what onMessage hands to m_dispatcher.pushMessage *)

ReceiveFirst(m) ==      \* for mutation: the queue is a stack
    /\ m \notin ToSet(arrived)
    /\ \A n \in Messages : <<n, m>> \in SentBefore => n \in ToSet(arrived)
    /\ arrived' = Append(arrived, m)
    /\ incoming' = <<m>> \o incoming
    /\ UNCHANGED <<dtask, dictionaries, pool, workers, reports>>

Receive(m) ==
    /\ m \notin ToSet(arrived)
    /\ \A n \in Messages : <<n, m>> \in SentBefore => n \in ToSet(arrived)
    /\ arrived' = Append(arrived, m)
    /\ incoming' = Append(incoming, m)
    /\ UNCHANGED <<dtask, dictionaries, pool, workers, reports>>

-----------------------------------------------------------------------------
(* Dispatcher thread.  run() flushes the queue and walks the messages in    *)
(* order; taking them one by one gives the same order.                      *)

NextMessage(type) ==
    /\ dtask = NoTask
    /\ incoming # <<>>
    /\ Head(incoming).type = type
    /\ incoming' = Tail(incoming)

RejectOrderSilently ==      \* for mutation
    /\ NextMessage("NEW")
    /\ Head(incoming).symbol \notin DOMAIN books
    /\ UNCHANGED <<arrived, dtask, dictionaries, pool, workers, reports>>

(* addOrder for a symbol without a book: rejectOrder. *)
RejectOrder ==
    /\ NextMessage("NEW")
    /\ LET m == Head(incoming) IN
        /\ m.symbol \notin DOMAIN books
        /\ outgoing' = Append(outgoing, MakeReport("REJECTED", m.symbol, OrderOf(m, 0)))
    /\ UNCHANGED <<arrived, dtask, dictionaries, pool, workers, delivered>>

(* addOrder: the ACCEPTED report is enqueued before the task is submitted.  *)
AcceptOrder ==
    /\ NextMessage("NEW")
    /\ LET m == Head(incoming) IN
        /\ m.symbol \in DOMAIN books
        /\ outgoing' = Append(outgoing, MakeReport("ACCEPTED", m.symbol, OrderOf(m, 0)))
        /\ queueID' = WithEntry(queueID, m.symbol, 0)
        /\ dtask' = m
    /\ UNCHANGED <<arrived, books, pool, workers, delivered>>

CancelOrderNoQueue ==      \* for mutation: the default is no queue's number
    /\ NextMessage("CANCEL")
    /\ LET m == Head(incoming) IN
        /\ queueID' = WithEntry(queueID, m.symbol, -1)
        /\ dtask' = m
    /\ UNCHANGED <<arrived, books, pool, workers, reports>>

(* cancelOrder does not ask whether the symbol has a book or a queue.       *)
CancelOrder ==
    /\ NextMessage("CANCEL")
    /\ LET m == Head(incoming) IN
        /\ queueID' = WithEntry(queueID, m.symbol, 0)
        /\ dtask' = m
    /\ UNCHANGED <<arrived, books, pool, workers, reports>>

(* Variant for mutation: the worker with least to do gets the task.         *)
RingOfLeastBusy(m) ==
    CHOOSE q \in Workers : \A w \in Workers : Pool!Used(q) <= Pool!Used(w)

(* submitTask pushes on the ring of the symbol's queue ID.                  *)
RingOf(m) == queueID[m.symbol]

(* It spins while that is full.                                             *)
SubmitFindsRoom ==
    /\ dtask # NoTask
    /\ Pool!FindRoom(Dispatcher, RingOf(dtask))
    /\ UNCHANGED <<sessions, dtask, dictionaries, workers, reports>>

SubmitFills ==
    /\ Pool!FillSlot(Dispatcher, dtask)
    /\ UNCHANGED <<sessions, dtask, dictionaries, workers, reports>>

SubmitTask ==
    /\ Pool!StoreWrite(Dispatcher)
    /\ dtask' = NoTask
    /\ UNCHANGED <<sessions, dictionaries, workers, reports>>

-----------------------------------------------------------------------------
(* Worker w *)

Pop(w, type) ==
    /\ wpc[w] = "idle"
    /\ Pool!Front(w).type = type
    /\ Pool!PopFront(w)

BookOf(dictionary, s) == WithEntry(dictionary, s, {})[s]

(* taskNewOrder inserts the order. *)
TaskNewOrder(w) ==
    /\ Pop(w, "NEW")
    /\ LET m == Pool!Front(w)
           s == m.symbol IN
        /\ books' = [WithEntry(books, s, {}) EXCEPT
                        ![s] = @ \cup {OrderOf(m, inserted[s])}]
        /\ inserted' = [inserted EXCEPT ![s] = @ + 1]
    /\ processed' = [processed EXCEPT ![w] = <<>>]
    /\ wpc' = [wpc EXCEPT ![w] = "matching"]
    /\ wtask' = [wtask EXCEPT ![w] = Pool!Front(w)]
    /\ UNCHANGED <<sessions, dtask, queueID, reports>>

(* processMatching, one pass. *)
MatchTwoOrders(w) ==
    /\ wpc[w] = "matching"
    /\ LET s == wtask[w].symbol IN
        \E bid, ask \in books[s] :
            /\ Crossing(books[s], bid, ask)
            /\ books' = [books EXCEPT ![s] = AfterMatch(@, bid, ask)]
            /\ processed' = [processed EXCEPT
                    ![w] = @ \o <<MatchedBid(bid, ask), MatchedAsk(bid, ask)>>]
    /\ UNCHANGED <<sessions, dtask, queueID, pool, wpc, wtask, inserted, reports>>

MatchingDone(w) ==
    /\ wpc[w] = "matching"
    /\ MatchingOver(books[wtask[w].symbol])
    /\ wpc' = [wpc EXCEPT ![w] = "reporting"]
    /\ UNCHANGED <<sessions, dtask, dictionaries, pool, wtask, inserted,
                   processed, reports>>

(* taskNewOrder reports the next processed order. *)
ReportProcessed(w) ==
    /\ wpc[w] = "reporting"
    /\ processed[w] # <<>>
    /\ LET o == Head(processed[w])
           type == IF IsFilled(o) THEN "FILLED" ELSE "PARTIALLY_FILLED" IN
        outgoing' = Append(outgoing, MakeReport(type, wtask[w].symbol, o))
    /\ processed' = [processed EXCEPT ![w] = Tail(@)]
    /\ UNCHANGED <<sessions, dtask, dictionaries, pool, wpc, wtask,
                   inserted, delivered>>

TaskNewOrderDone(w) ==
    /\ wpc[w] = "reporting"
    /\ processed[w] = <<>>
    /\ wpc' = [wpc EXCEPT ![w] = "idle"]
    /\ wtask' = [wtask EXCEPT ![w] = NoTask]
    /\ UNCHANGED <<sessions, dtask, dictionaries, pool, inserted, processed, reports>>

TaskCancelOrderKeeps(w) ==      \* for mutation: reported but not erased
    /\ Pop(w, "CANCEL")
    /\ LET m == Pool!Front(w)
           s == m.symbol
           book == BookOf(books, s) IN
        \E found \in Find(book, m.owner, m.clientID, m.side) :
            /\ outgoing' = Append(outgoing, MakeReport("CANCELED", s, Cancel(found)))
            /\ books' = [books EXCEPT ![s] = (@ \ {found}) \cup {Cancel(found)}]
    /\ UNCHANGED <<sessions, dtask, queueID, workers, delivered>>

(* taskCancelOrder: the order is found, marked, reported and erased. *)
TaskCancelOrder(w) ==
    /\ Pop(w, "CANCEL")
    /\ LET m == Pool!Front(w)
           s == m.symbol
           book == BookOf(books, s) IN
        \E found \in Find(book, m.owner, m.clientID, m.side) :
            /\ outgoing' = Append(outgoing, MakeReport("CANCELED", s, Cancel(found)))
            /\ books' = [books EXCEPT
                    ![s] = Erase((@ \ {found}) \cup {Cancel(found)}, Cancel(found))]
    /\ UNCHANGED <<sessions, dtask, queueID, workers, delivered>>

TaskCancelOrderNotFoundDrops(w) ==      \* for mutation: the cancel is not rescheduled
    /\ Pop(w, "CANCEL")
    /\ LET m == Pool!Front(w) IN
        /\ Find(BookOf(books, m.symbol), m.owner, m.clientID, m.side) = {}
        /\ books' = WithEntry(books, m.symbol, {})
    /\ UNCHANGED <<sessions, dtask, queueID, workers, reports>>

(* taskCancelOrder: the lookup has made a book for a missing symbol, but    *)
(* there is no such order; cancelOrder is called again, from this thread.   *)
TaskCancelOrderNotFound(w) ==
    /\ Pop(w, "CANCEL")
    /\ LET m == Pool!Front(w) IN
        /\ Find(BookOf(books, m.symbol), m.owner, m.clientID, m.side) = {}
        /\ books' = WithEntry(books, m.symbol, {})
        /\ queueID' = WithEntry(queueID, m.symbol, 0)
    /\ wpc' = [wpc EXCEPT ![w] = "resubmitting"]
    /\ wtask' = [wtask EXCEPT ![w] = Pool!Front(w)]
    /\ UNCHANGED <<sessions, dtask, inserted, processed, reports>>

(* It pushes on its own ring, where the dispatcher may be pushing too; on a *)
(* full one it spins for good, for nobody else pops.                        *)
RescheduleFindsRoom(w) ==
    /\ wpc[w] = "resubmitting"
    /\ Pool!FindRoom(w, RingOf(wtask[w]))
    /\ UNCHANGED <<sessions, dtask, dictionaries, workers, reports>>

RescheduleFills(w) ==
    /\ Pool!FillSlot(w, wtask[w])
    /\ UNCHANGED <<sessions, dtask, dictionaries, workers, reports>>

Reschedule(w) ==
    /\ Pool!StoreWrite(w)
    /\ wpc' = [wpc EXCEPT ![w] = "idle"]
    /\ wtask' = [wtask EXCEPT ![w] = NoTask]
    /\ UNCHANGED <<sessions, dtask, dictionaries, inserted, processed, reports>>

-----------------------------------------------------------------------------
(* Outgoing message processor: dequeue and hand to the owner's FIX session *)

Send ==
    /\ outgoing # <<>>
    /\ delivered' = Append(delivered, Head(outgoing))
    /\ outgoing' = Tail(outgoing)
    /\ UNCHANGED <<sessions, dtask, dictionaries, pool, workers>>

-----------------------------------------------------------------------------
Dispatch ==
    \/ RejectOrder
    \/ AcceptOrder
    \/ CancelOrder
    \/ SubmitFindsRoom
    \/ SubmitFills
    \/ SubmitTask

Work(w) ==
    \/ TaskNewOrder(w)
    \/ MatchTwoOrders(w)
    \/ MatchingDone(w)
    \/ ReportProcessed(w)
    \/ TaskNewOrderDone(w)
    \/ TaskCancelOrder(w)
    \/ TaskCancelOrderNotFound(w)
    \/ RescheduleFindsRoom(w)
    \/ RescheduleFills(w)
    \/ Reschedule(w)

Next ==
    \/ \E m \in Messages : Receive(m)
    \/ Dispatch
    \/ \E w \in Workers : Work(w)
    \/ Send

Spec == Init /\ [][Next]_vars

(* Every thread runs; clients need not send anything.                       *)
FairSpec ==
    /\ Spec
    /\ WF_vars(Dispatch)
    /\ \A w \in Workers : WF_vars(Work(w))
    /\ WF_vars(Send)

-----------------------------------------------------------------------------
(* Properties *)

Reports == delivered \o outgoing      \* all reports, in the order of enqueueing
Acknowledged(r) == r.type \in {"ACCEPTED", "REJECTED"}

(* Where in a sequence of messages an order came in, and a message.         *)
Arrivals(messages, o) ==
    {k \in DOMAIN messages :
        messages[k].type = "NEW" /\ messages[k].owner = o.owner
                                 /\ messages[k].clientID = o.clientID}
IndicesOf(messages, m) == {k \in DOMAIN messages : messages[k] = m}
AllBefore(ks, ns) == \A k \in ks, n \in ns : k < n
Earlier(messages, x, y) == AllBefore(Arrivals(messages, x), Arrivals(messages, y))

Answers == {i \in DOMAIN Reports : Acknowledged(Reports[i])}

(* Orders are answered in the order in which they arrived at the server,    *)
(* with no gap, whatever the workers do.  And until a rescheduled cancel    *)
(* meets the dispatcher inside push of one ring, time priority in a book is *)
(* that order too, across the three threads and queues an order goes        *)
(* through and the cancels that are rescheduled between them: of two orders *)
(* of a symbol the one inserted earlier came earlier.                       *)
AnswersInOrder ==
    /\ \A i \in Answers : Arrivals(arrived, Reports[i].order) # {}
    /\ \A i, j \in Answers : i < j => Earlier(arrived, Reports[i].order, Reports[j].order)
    /\ \A i \in Answers : \A k \in Arrivals(arrived, Reports[i].order) : \A n \in 1..k :
           arrived[n].type = "NEW" =>
               \E j \in Answers : j <= i /\ n \in Arrivals(arrived, Reports[j].order)

BooksInOrder ==
    \A s \in DOMAIN books : \A x, y \in books[s] :
        Arrivals(arrived, x) # {} /\ (x.stamp < y.stamp => Earlier(arrived, x, y))

ArrivalOrderKept == AnswersInOrder /\ (overlapped \/ BooksInOrder)

(* The inductive invariant of the proofs, in parts.  A symbol has one       *)
(* worker for good: the dictionary never changes an entry, so every task    *)
(* that was ever in a slot, or is on its way into one, belongs to the       *)
(* worker of that ring, and a worker that is inside a book is the only one  *)
(* that ever is.                                                            *)
AtItsWorker(m, w) == m.symbol \in DOMAIN queueID /\ RingOf(m) = w

WorkerInv(w) ==
    /\ \A i \in Pool!Indices : rings[w].slots[i] # NoTask => AtItsWorker(rings[w].slots[i], w)
    /\ wpc[w] # "idle" => wtask[w] \in Messages /\ AtItsWorker(wtask[w], w)
    /\ wpc[w] \in {"matching", "reporting"} => wtask[w].symbol \in DOMAIN books
    /\ wpc[w] = "resubmitting" => wtask[w].type = "CANCEL"
    /\ push[w] # Pool!Outside => wpc[w] = "resubmitting" /\ push[w].ring = w

MatcherInv ==
    /\ TypeOK
    /\ dtask # NoTask => dtask.symbol \in DOMAIN queueID
    /\ push[Dispatcher] # Pool!Outside =>
          dtask # NoTask /\ push[Dispatcher].ring = RingOf(dtask)
    /\ \A w \in Workers : WorkerInv(w)

(* The rings are FIFOs of tasks until two pushes overlap, and what is in    *)
(* the slot that a push is about to publish is its task.                    *)
Filled(p, m) == push[p].step = "store" => rings[push[p].ring].slots[push[p].tail] = m

FIFOsInv ==
    /\ Pool!RingsInv(Messages)
    /\ Filled(Dispatcher, dtask)
    /\ \A w \in Workers : Filled(w, wtask[w])

tasks == [w \in Workers |-> Pool!Contents(w)]

(* The messages that the dispatcher has taken are the first of the arrived  *)
(* ones; Settled is how many of them are past the dispatcher.  From there   *)
(* orders go through the rings into the books in the order of arrival.      *)
Taken == Len(arrived) - Len(incoming)
Settled == IF dtask = NoTask THEN Taken ELSE Taken - 1

IncomingInv ==
    /\ Len(incoming) <= Len(arrived)
    /\ \A i \in DOMAIN incoming : incoming[i] = arrived[Taken + i]
    /\ \A i, j \in DOMAIN arrived : arrived[i] = arrived[j] => i = j
    /\ dtask # NoTask => Taken >= 1 /\ arrived[Taken] = dtask

AnswerInv ==
    /\ \A i \in Answers : Arrivals(arrived, Reports[i].order) \cap (1..Taken) # {}
    /\ \A i, j \in Answers : i < j => Earlier(arrived, Reports[i].order, Reports[j].order)
    /\ \A n \in 1..Taken : arrived[n].type = "NEW" =>
           \E j \in Answers : n \in Arrivals(arrived, Reports[j].order)

RingInv(w) ==
    \A i \in DOMAIN tasks[w] : tasks[w][i].type = "NEW" =>
        /\ IndicesOf(arrived, tasks[w][i]) \cap (1..Settled) # {}
        /\ \A j \in DOMAIN tasks[w] : i < j /\ tasks[w][j].type = "NEW" =>
               AllBefore(IndicesOf(arrived, tasks[w][i]), IndicesOf(arrived, tasks[w][j]))
        /\ \A s \in DOMAIN books : s = tasks[w][i].symbol =>
               \A x \in books[s] :
                  AllBefore(Arrivals(arrived, x), IndicesOf(arrived, tasks[w][i]))

RestingInv(s) ==
    /\ \A x \in books[s] :
          x.stamp < inserted[s] /\ Arrivals(arrived, x) \cap (1..Settled) # {}
    /\ \A x, y \in books[s] : x.stamp < y.stamp => Earlier(arrived, x, y)

ArrivalInv ==
    /\ IncomingInv
    /\ AnswerInv
    /\ \/ overlapped
       \/ /\ \A w \in Workers : RingInv(w)
          /\ \A s \in DOMAIN books : RestingInv(s)

(* Every symbol's book behaves as OrderBook says, although three kinds of   *)
(* thread are involved and a late symbol shares worker 0: at most one       *)
(* worker is ever inside a book, so its passes and cancels do not mix, and  *)
(* its reports come out in the order the worker made them.                  *)
InBook(s) == {w \in Workers : wpc[w] \in {"matching", "reporting"} /\ wtask[w].symbol = s}

WorkerOf(s) == CHOOSE w \in InBook(s) : TRUE
PcOf(s) == IF InBook(s) = {} THEN "idle" ELSE wpc[WorkerOf(s)]
ProcessedOf(s) == IF InBook(s) = {} THEN <<>> ELSE processed[WorkerOf(s)]

(* The reports of a book, in order: Nth(indices, k) is the k-th of a set of *)
(* indices.                                                                 *)
Nth(indices, k) == CHOOSE i \in indices : Cardinality({j \in indices : j <= i}) = k
BookReport(r) == [type |-> r.type, order |-> r.order]
OfBook(all, s) == {i \in DOMAIN all : all[i].symbol = s /\ ~Acknowledged(all[i])}
BookReports(all, s) ==
    [k \in 1..Cardinality(OfBook(all, s)) |-> BookReport(all[Nth(OfBook(all, s), k)])]

Book(s) == INSTANCE OrderBook WITH
    Stamps <- Nat,
    book <- BookOf(books, s),
    inserted <- inserted[s],
    pc <- PcOf(s),
    processed <- ProcessedOf(s),
    outgoing <- BookReports(Reports, s)

BooksImplementOrderBook ==      \* \A s \in Symbols : Book(s)!Spec, as TLC takes it
    /\ \A s \in Symbols : Book(s)!Init
    /\ [][\A s \in Symbols : Book(s)!Next \/ UNCHANGED Book(s)!vars]_vars

(* What the server sends a client is an order's life as README.md promises  *)
(* it: answered once, before anything else; trades that add up; nothing     *)
(* after FILLED or CANCELED.                                                *)
SameOrder(x, y) == x.owner = y.owner /\ x.clientID = y.clientID
IsAbout(r, m) == SameOrder(r.order, m)
About(all, o) == {i \in DOMAIN all : IsAbout(all[i], o)}
LastOf(indices) == CHOOSE i \in indices : \A j \in indices : j <= i

ToldLast(m) == delivered[LastOf(About(delivered, m))]
StatusOf(m) == IF About(delivered, m) = {} THEN "unknown" ELSE ToldLast(m).type
FilledOf(m) == IF About(delivered, m) = {} THEN 0 ELSE ToldLast(m).order.executed
RequestedOf(m) == m.quantity

Lifecycle == INSTANCE OrderLifecycle WITH
    Requests <- NewMessages,
    QuantityOf <- RequestedOf,
    status <- [m \in NewMessages |-> StatusOf(m)],
    filledQty <- [m \in NewMessages |-> FilledOf(m)]

lifecycleVars == Lifecycle!lifecycleVars

ImplementsLifecycle == Lifecycle!Init /\ [][overlapped' \/ Lifecycle!Next]_lifecycleVars

(* The inductive invariant behind it: every report continues what was told  *)
(* of its order before; and an order that waits for its task, rests in a    *)
(* book or has been copied for a report still to be made is one whose story *)
(* is open, and agrees with the end of that story.                          *)
OpenTypes == {"ACCEPTED", "PARTIALLY_FILLED"}
Executed(all, i) == all[i].order.executed

(* A trade of nothing takes an order for nothing.                           *)
SomeEmpty == \E m \in NewMessages : m.quantity = 0
Advances(x, y) == x <= y /\ (x = y => SomeEmpty)

Continues(all, told, r) ==
    /\ r.order.executed >= 0
    /\ IF Acknowledged(r)
       THEN told = {} /\ r.order.executed = 0
       ELSE \E i \in told : Acknowledged(all[i])
    /\ \A i \in told : all[i].type \in OpenTypes
    /\ r.type \in {"PARTIALLY_FILLED", "FILLED"} =>
          /\ \A i \in told : Advances(Executed(all, i), r.order.executed)
          /\ r.order.executed <= r.order.quantity
          /\ r.type = "FILLED" <=> IsFilled(r.order)
    /\ r.type = "CANCELED" =>
          /\ \A i \in told : Executed(all, i) <= r.order.executed
          /\ \E i \in told : Executed(all, i) = r.order.executed

IsOrderOf(o, s) ==
    \E m \in NewMessages : SameOrder(o, m) /\ o.quantity = m.quantity /\ m.symbol = s

ToldInv(all) ==
    \A j \in DOMAIN all :
        /\ \E s \in Symbols : IsOrderOf(all[j].order, s)
        /\ Continues(all, {i \in About(all, all[j].order) : i < j}, all[j])

StillOpen(all, o) ==
    /\ About(all, o) # {}
    /\ \A i \in About(all, o) : all[i].type \in OpenTypes

CopiesOf(queues, o) ==
    {c \in UNION {ToSet(queues[w]) : w \in Workers} : SameOrder(c, o)}

WaitingInv(m) ==
    dtask = m \/ (\E w \in Workers : m \in ToSet(tasks[w])) =>
        /\ About(Reports, m) # {} /\ CopiesOf(processed, m) = {}
        /\ \A i \in About(Reports, m) : Reports[i].type = "ACCEPTED"

CopyInv(w, i) ==
    LET c == processed[w][i] IN
    /\ IsOrderOf(c, wtask[w].symbol) /\ c.executed <= c.quantity
    /\ StillOpen(Reports, c)
    /\ \A j \in About(Reports, c) : Advances(Executed(Reports, j), c.executed)
    /\ \A j \in DOMAIN processed[w] : i < j /\ SameOrder(processed[w][j], c) =>
          Advances(c.executed, processed[w][j].executed) /\ ~IsFilled(c)

RestsOpen(s, x) ==
    /\ IsOrderOf(x, s) /\ x.executed + x.open = x.quantity
    /\ x.open >= 0 /\ (x.open = 0 => SomeEmpty)
    /\ \A y \in books[s] : SameOrder(x, y) => x = y
    /\ StillOpen(Reports, x)
    /\ \A i \in About(Reports, x) : Executed(Reports, i) <= x.executed
    /\ \A c \in CopiesOf(processed, x) : c.executed <= x.executed /\ ~IsFilled(c)
    /\ \/ \E i \in About(Reports, x) : Executed(Reports, i) = x.executed
       \/ \E c \in CopiesOf(processed, x) : c.executed = x.executed

LifeInv ==
    /\ \A w \in Workers : wpc[w] \in {"idle", "resubmitting"} => processed[w] = <<>>
    /\ ToldInv(Reports)
    /\ \A m \in NewMessages : WaitingInv(m)
    /\ \A w \in Workers : \A i \in DOMAIN processed[w] : CopyInv(w, i)
    /\ \A s \in DOMAIN books : \A x \in books[s] : RestsOpen(s, x)

(* The rescheduling worker is the only one that takes from its ring: when   *)
(* that is full it waits for itself.  The dispatcher may then wait for that *)
(* worker.                                                                  *)
WaitsForItself(w) ==
    wpc[w] = "resubmitting" /\ push[w] = Pool!Outside /\ Pool!IsFull(RingOf(wtask[w]))
DispatcherStuck ==
    /\ dtask # NoTask /\ push[Dispatcher] = Pool!Outside
    /\ Pool!IsFull(RingOf(dtask)) /\ WaitsForItself(RingOf(dtask))

(* Every order a client sends is answered, although the dispatcher also     *)
(* waits for room in the rings of other symbols, unless two pushes overlap  *)
(* or the dispatcher comes to wait for a worker that waits for itself.      *)
(* Each message comes at most once, so "sooner or later all that have       *)
(* arrived are, for good" says as much as a leads-to for each.              *)
HasReport(m, types) ==
    \E i \in DOMAIN delivered : delivered[i].type \in types /\ IsAbout(delivered[i], m)

EveryOrderAnswered ==
    <>[](overlapped \/ DispatcherStuck \/
         \A m \in NewMessages :
            m \in ToSet(arrived) => HasReport(m, {"ACCEPTED", "REJECTED"}))

(* A cancel takes effect even if it overtakes its order (the reason why it  *)
(* is rescheduled), with the same exceptions: when both have arrived, the   *)
(* order does not rest forever.                                             *)
Names(c, m) ==
    c.owner = m.owner /\ c.clientID = m.clientID /\ c.side = m.side /\ c.symbol = m.symbol

EveryCancelTakesEffect ==
    <>[](overlapped \/ DispatcherStuck \/
         \A c \in CancelMessages, m \in NewMessages :
            Names(c, m) /\ {c, m} \subseteq ToSet(arrived)
                => \/ HasReport(m, {"FILLED", "CANCELED", "REJECTED"})
                   \/ \E w \in Workers : WaitsForItself(w) /\ RingOf(c) = w)

(* central_order_book.cpp:59: an order for a symbol without a book is       *)
(* rejected with "Symbol not supported"; accepted orders are for configured *)
(* symbols.                                                                 *)
OnlyConfiguredSymbolsAccepted ==
    \A i \in DOMAIN Reports :
        Reports[i].type = "ACCEPTED" => Reports[i].symbol \in ToSet(Configured)
=============================================================================
