# A TLA+ model of the multithreaded order matching engine

This directory holds TLA+ specifications of the engine under `src/source`, TLC
configurations that check them on small instances, and theorems about them that
the TLA+ proof system checks for every instance. Paths below are relative to
`src/source`; "README" with a line number is the repository's own README.md.

## The system

Clients send FIX messages. Five kinds of thread work on them:

    FIX session threads --QueueMPSC--> dispatcher --RingBufferSPSC--> worker (one per symbol)
            |                             |                              |   ^
            | (rejects)                   | ACCEPTED, REJECTED           |   | rescheduled cancel
            v                             v                              v   |
            +--------------------------QueueMPMC <-----------------------+---+
                                          |
                                          +--> outgoing processor --> FIX sessions

    main thread: starts everything, reads "display" and "quit", joins everything
    logger:      every thread pushes on RingBufferMPMC, the logger thread writes

| Component | State it keeps | Operations | Interacts with |
| --- | --- | --- | --- |
| Order (`order_matcher/order.*`) | open and executed quantity, average price, last execution | constructor, `execute`, `cancel`, `isFilled` | held in books, copied into reports |
| OrderBook (`order_matcher/order_book.*`) | two multimaps by price | `insert`, `find`, `erase`, `processMatching`, `accept` | owned by CentralOrderBook, used by one worker |
| CentralOrderBook (`order_matcher/central_order_book.*`) | symbol to book and symbol to queue dictionaries, outgoing queue, thread pool | `addOrder`, `rejectOrder`, `cancelOrder`, `taskNewOrder`, `taskCancelOrder` | called by the dispatcher, tasks run on workers |
| ThreadPool (`concurrent/thread_pool.*`) | a ring and a thread per symbol, shutdown flag | `initialise`, `submitTask`, `shutdown` | dispatcher and workers submit, main thread shuts down |
| RingBufferSPSCLockFree | two atomic indices, slots | `tryPush`, `push`, `tryPop` | between dispatcher and one worker |
| QueueMPSC | linked list with a dummy node, mutex, condition | `push`, `isEmpty`, `flush` | session threads to dispatcher |
| QueueMPMC | linked list with a dummy node, two mutexes | `enqueue`, `dequeue` | dispatcher, workers and sessions to processor |
| IncomingMessageDispatcher | the flushed list | `pushMessage`, `run` | QueueMPSC to CentralOrderBook |
| OutgoingMessageProcessor | execution ID counter | `run` | QueueMPMC to FIX sessions |
| Server | owns all of the above | constructor, `onMessage`, `run`, destructor | QuickFIX callbacks |
| Logger, RingBufferMPMC | log buffer, two output flags | `log`, `run`, `processLogs` | called by every thread |
| Actor, Thread, Task | finish flag, joined flag | `start`, `shutdown`, `join` | base of dispatcher, processor, logger |
| ConfigFile, SingleInstance, Observer, Visitor, memory and portability helpers | - | - | start-up, logging, display |

What is hard here, and what makes each part correct:

* **Matching.** The loop looks at the two best orders only, executes both, queues
  copies for reporting, and erases what it filled. It must end, leave no cross,
  keep price-time priority, never overcharge, and tell both sides of every trade.
* **Cancels.** `find` returns a pointer, `erase` searches again by name, and names
  can repeat. A cancel that finds nothing is submitted again, from the worker.
* **The ring.** It is correct for one producer. Rescheduling is a second one: two pushes
  may overlap, and a worker may wait for room in a ring that only it empties.
* **Order across threads.** Answers, fills and time priority go through two queues
  and three threads; they must come out in the order of arrival.
* **Missing symbols.** `operator[]` creates dictionary entries.
* **Starting and stopping.** Threads are signalled, joined and their objects destroyed
  one after the other while the others still run. Each may be waiting for one that was
  stopped before it, or using what is destroyed next; any of the starts may fail.
* **The incoming queue.** The dispatcher cuts the list off and walks it without the
  mutex while producers go on linking at the node in front of the cut.

`PROJECT.json` lists each hazard with its line and the properties aimed at it.

## The modules

| Module | Models | State and actions |
| --- | --- | --- |
| `OrderBookOps` | Order and OrderBook as values | A book is a set of orders; the insertion number ("stamp") of an order stands for its place among equal keys of the multimap. `Execute`, `Find`, `Erase`, `AfterMatch`, `MatchingOver` follow the methods. |
| `OrderBook` | one book and its worker's tasks | `book` (both maps), `processed` (the local queue of `taskNewOrder`), `outgoing` (reports). Each pass of the loop and each report is a step. |
| `OrderBookProofs` | theorems about `OrderBook` | |
| `BoundedFIFO` | the abstract queue | what both queues between threads promise; `Sizes` says how long it may get |
| `SPSCRing` | the lock-free ring | a step per access to `m_write`, `m_read` or a slot; `Producers` is a set |
| `SPSCRingProofs` | theorems about `SPSCRing` while no two pushes overlap | |
| `MPMCQueue` | the outgoing queue | a linked list of nodes at addresses that are freed and reused, two mutexes; a step per access to a node |
| `MPMCQueueProofs` | theorems about `MPMCQueue` with any number of threads | |
| `MPSCQueue` | the incoming queue | a linked list behind a dummy, addresses that are freed and reused; a step per critical section and per access to a node outside of one, the consumer's walk included |
| `MPSCQueueProofs` | theorems about `MPSCQueue` with any number of producers | |
| `WorkerRings` | the pool's rings as the dispatcher and the workers push on them | a ring of slots per worker, several producers, a push in three steps; `overlapped` remembers whether two threads were inside push of one ring |
| `Server` | the server object: sessions in `onMessage`, dispatcher, processor, workers, main thread | extends `MPSCQueue`, whose consumer is the dispatcher; the rings are those of `WorkerRings`; `Teardown` is the destruction of the object as a sequence of signals, joins and destructors |
| `ServerProofs` | theorems about `Server` | |
| `ThreadPool` | a worker, the dispatcher and the main thread around one ring | composes `SPSCRing`; the worker is its consumer and, when it reschedules, a producer |
| `ThreadPoolProofs` | theorems about `ThreadPool`; it instantiates `SPSCRingProofs` for the pool's ring | |
| `OrderLifecycle` | the abstract life of an order as its client sees it | answered, traded, filled or cancelled |
| `CentralOrderBook` | sessions, dispatcher, all workers, both dictionaries, outgoing processor | the rings are those of `WorkerRings`, the incoming and the outgoing queue are FIFOs; refines `OrderBook` for every symbol and `OrderLifecycle` for every order |
| `CentralOrderBookProofs` | theorems about `CentralOrderBook` | |
| `RingBufferMPMC` | the log buffer | a step per critical section, a step per notification, waits that may end for no reason |
| `Logger` | the logger thread, the threads that log and the end of `main` | composes `RingBufferMPMC`; the logger is its only consumer |
| `LoggerProofs` | theorems about `Logger` and, inside it, `RingBufferMPMC` | |
| `MC...` | small instances for TLC | |

How data is abstracted. Prices are integers (ticks). The average price is kept as
`value` = average * executed quantity, so no rounding of doubles is modelled and
"average at most the limit" becomes `value <= price * executed`. The division 0.0 / 0 of a
trade that leaves an order with nothing executed makes the average a NaN, and every later
average computed from it: `nan` is set for good, and `value` has no meaning (it is 0) from
then on. Quantities are mathematical integers: `long` overflow needs
quantities near 2^63 and is not modelled. Symbols, owners and client IDs are
members of small sets; target, order type and log lines are left out, because no
decision of the modelled code depends on them.

Operators whose comment says "for mutation" are not part of the model. Each is a
plausible wrong version of the operator after it; `PROJECT.json` ("mutants") pairs
it with the property that TLC finds violated when it is used instead.

Granularity. In `SPSCRing` and `ThreadPool` a step is one access to shared memory;
acquire and release make a slot visible with the index that publishes it, and
`NoSlotRace` states that slots are never accessed by two threads at once, which is
what makes that granularity enough. In `OrderBook` and `CentralOrderBook` a step is
what a thread does between accesses to queues or dictionaries; a pass of the
matching loop is a step of its own because properties speak about passes. In
`MPMCQueue` a step is one access to a node, together with what its thread does to
memory that its mutex or its secrecy protects. An enqueuer writes and a dequeuer reads
`m_next` of the dummy under different mutexes when the queue is empty; the field is a
plain pointer, and the model takes its accesses as indivisible and as making `m_data`,
written before, visible, which is what a build for x86-64 does.
In `MPSCQueue` every access to the list is inside the one mutex, so a critical section
is a step; what needs care is what happens outside of it, and each of those is a step.
In `CentralOrderBook` the actions `RejectOrder`, `AcceptOrder`, `CancelOrder` take one
message of the incoming FIFO at a time. That the real queue, emptied a batch at a time,
is that FIFO is `ImplementsFIFO` of `MPSCQueue`: a message leaves the FIFO when the
dispatcher copies it out of its node.
In `CentralOrderBook` and `Server` a push on a ring is three steps, those that two
producers can tell apart: finding room, filling the slot, storing `m_write`. Loading
`m_write` and comparing it with `m_read` are one, for in between the worker can only make
more room; a spinning `tryPush` is no step. A pop is one step: it frees the slot that it
has copied, and no one else pops. What two overlapping pushes do to each other is thus
what the code does (an overwritten slot, an index that jumps back, an old task taken
again), except that a pop never copies a slot while it is being written: a torn copy of a
Task is undefined behaviour whose outcomes cannot be listed.
An overlap can also publish a slot that was never written. Its Task has no function, its
`execute` throws and the program ends: `ThreadPool` (`WorkerAbort`) and `Server` (in
`WorkerPop`) have that, and `CentralOrderBook` leaves the worker waiting there, which allows
the other threads more than the code would. It takes a ring of four slots; the run
`ThreadPool` has them.
What a worker does with a book is in `OrderBook` and what clients are told in
`CentralOrderBook`. In `Server` the processor is only what ends; its one wait, `dequeue`,
never blocks.

## What is checked

| Run | Instance | Shows |
| --- | --- | --- |
| `OrderBook` | one owner, two client IDs, prices 1..3, quantities 0..2, three orders, any cancels | ten properties of matching, cancelling and reporting, see below |
| `SPSCRing` | one producer, two values, capacity 3, six pushes | the ring implements `BoundedFIFO`, is race free, pushes end, everything is received |
| `ThreadPool` | capacity 4, three new orders with a cancel before the first and one behind it, both of which may be rescheduled, seven pushes | until two pushes overlap no task is lost and each is run in its turn; whatever overlapped, shutdown ends unless the worker waits for itself, and nobody is inside the ring after it |
| `MPMCQueue` | two enqueuers, two dequeuers, two values, three addresses, enqueues until three are linked | the list implements `BoundedFIFO` without a limit, no freed node is touched or freed again, everything is dequeued, nobody blocks |
| `CentralOrderBook` | two workers, rings with two places; an order for one symbol; two buys (one of quantity 0), a sell and a cancel for a symbol that is not configured, the cancel at any point from before its book exists to after the trade | each book implements `OrderBook`, whatever overlaps; until two pushes overlap each order implements `OrderLifecycle`, order of arrival is kept, orders are answered, cancels take effect |
| `Server` | two sessions, three addresses, two orders and a cancel that may be rescheduled for one symbol, all in one ring of two places, an order with an unsupported type; a second worker with nothing to do | the incoming queue implements `BoundedFIFO`; nothing is used after it is freed or destroyed; the dispatcher finishes its batch; quitting ends the program, unless a worker waits for itself or cancels leave the dispatcher no room |
| `Logger` | two threads that log and main, three kinds of entry, a buffer of two, logging until three are pushed | the buffer implements `BoundedFIFO`, everything is written before the program ends, quitting ends it |

Runs that end in a violation. Each checks one sentence of the repository against
the code; `PROJECT.json` ("findings") quotes it.

| Run | What TLC finds |
| --- | --- |
| `ThreadPool_two_producers` | the worker reschedules while the dispatcher pushes, and an accepted order's task is overwritten |
| `ThreadPool_full` | a worker that reschedules into its own full ring waits for itself for ever |
| `Logger_disabled` | with both outputs disabled in the configuration, quitting hangs |
| `Server_unsupported` | an order with an unsupported type ends the program instead of being rejected: the exception is not one that `onMessage` catches, nor one that `fromApp` may throw |
| `CentralOrderBook_unknown_symbol` | a cancel for an unconfigured symbol makes later orders for it acceptable |

Properties of `OrderBook`: `NotCrossedAtRest`, `RestingOrdersAreOpen`,
`LevelFillsInTimeOrder` (price-time priority), `AveragesWithinLimits` (limits are
respected, and an average is a NaN exactly from a trade of nothing on),
`TradesReportedInPairs`, `ReportsReconcileWithBook` (what a client adds up from its
reports is what the book holds), the action properties
`EachPassRemovesAnOrder` and `CancelTakesTheReportedOrder`, and the liveness
property `TaskNewOrderEnds`.

**Bounds.** Three orders with repeatable names are enough for an order to be
filled over two passes, for two orders to queue at a price, for a trade with
oneself and for a client ID in use twice; three prices put a price strictly
between two others; quantities 0..2 give the zero case, exact fills and partial
fills. In `SPSCRing` capacity 3 is the smallest ring that holds more than one element, and six
pushes take the indices round it twice. `Stamps` (the insertion numbers that are given
out, all of `Nat` in the code) and `MaxPushes` bound the histories and are guards that
the code does not have: the theorems hold for every value of them.
Three addresses for three or four nodes in a queue's life make every address be freed
and allocated again, while other threads still hold what they read of it.
In `ThreadPool` the script is cancel, order, cancel, order, order. The worker may reschedule
either cancel into a ring with room, into a full one and while the dispatcher is inside
push, with orders behind it each time; seven pushes are the five of the dispatcher and two
of the worker, which take the indices round four slots almost twice. The two violation runs
take the shortest script, a cancel and an order, and rings of two or three slots.
In `Server` three addresses are the dummy and two more: a batch of two, or a batch of
one while the next node is linked behind the dummy. Two places in the ring for three
messages make the dispatcher wait for the worker, and the worker wait for itself; the cancel
goes round through the ring for as long as it likes. Every member of `arrived` arrives once. `main`
may fail at each of the starts, and quit at any time. An order without a price is only in the
violation run: to the threads it is a message like the others.
In `CentralOrderBook` each message is sent at most once. Four of the five share a ring with two
places, so that it is full, the dispatcher waits, and the rescheduled cancel finds no room.
`SentBefore` fixes which of two messages arrives first where the other order of arrival shows
nothing further (the sell could as well come before the buy): it bounds the interleavings of arrivals, not those of threads.

**Exceptions in properties.** The second producer is in all three modules with workers,
so what these promise has exceptions, each a state of the model that names its cause:

* `overlapped`: two threads were inside push of one ring. From then on tasks may be lost or
  repeated (`ThreadPool_two_producers`), and no property of tasks or orders is asked for.
  Types, `NobodyInsideAfterJoin`, `NoUseAfterDestroy`, `HandedOver`, `BooksImplementOrderBook`
  and the order of the answers hold after it as well.
* `WaitsForItself`: a worker that reschedules finds its ring full (`ThreadPool_full`). Its join
  does not return, and with `DispatcherStuck` the dispatcher waits for it.
* `DispatcherStarves` (`Server`): the dispatcher waits for room in a ring in which there are only
  cancels that are taken out and put back. There is room again and again, but nothing
  in the code lets the dispatcher have it: with an unlucky scheduler it waits for ever, and so
  does the join of the dispatcher. In the instance, which has one cancel, this needs an overlap that
  has copied it; with as many hopeless cancels as places in the ring it needs none.
* `Aborted`, or `main = "aborted"`: the program has ended, for one of the reasons that `QuitEnds` lists.

**Fairness.** Only threads that are running are assumed to make steps: the worker
inside a task or its loop, the dispatcher inside a push or with a message waiting,
the processor, threads inside `enqueue`, the main thread inside a join. Weak fairness per thread is what a
preemptive scheduler gives. It gives a thread that spins (`while (!tryPush(val));`) no
room that comes and goes: hence `DispatcherStarves`. Nothing is assumed of clients, nor that anyone ever quits.
In `Server` the same holds until the program has ended (`ProgramRuns`): sessions inside
`push`, the dispatcher, the processor, each worker and the main thread while it starts,
waits for the sessions or destroys. A worker may reschedule its cancel every time.
Nothing is assumed of clients, of who quits and of failing starts.
In `Logger` nothing is assumed of who quits, of new entries, nor of wake-ups without a
notification.
`CHECK_DEADLOCK FALSE` is used where the system really stops: after the join
(`ThreadPool`, `Logger`), when the program has ended (`Server`) and when all messages are dealt with (`CentralOrderBook`).

## What is proved

In `OrderBookProofs`, for any sets of owners and client IDs, any integer prices and
quantities (negative ones included) and any number of orders:

* `TypeCorrect`: `Spec => []TypeOK`.
* `BookInvariant`: `Spec => []BookInv`. `BookInv` is the inductive invariant. None
  of its parts is inductive alone: `LevelFillsInTimeOrder` survives a pass because
  the pass takes the first order of each side, and a cancel because erasing by name
  takes one order, which needs `StampsUnique`; `StampsUnique` needs every stamp to
  be below `inserted` (in `RestingOrdersAreOpen`); `NotCrossedAtRest` follows from
  `MatchingOver` because the first order is the best one (`MatchingOverNotCrossed`).
  `NeverCrossedAtRest`, `OnlyOpenOrdersRest` and `TimePriority` state its parts.
* `MatchingShrinksBook`: every pass removes an order, so the loop is bounded by the
  size of the book whatever the quantities are.
* `CancelIsExact`: a cancel removes the order it reports and no other.
* `AveragesBounded`: if quantities are not negative, an order's average respects its limit or
  is a NaN, and it is a NaN, in the book and in the reports, exactly from a trade on that left
  the order with nothing executed. The inductive invariant is `AverageInv`. Quantity 0 is
  included. Negative ones are not: nothing in the code refuses them, but with them the
  executed quantity may come back to 0 and limits mean nothing.
* `BothSidesReported`, `ReportsReconcile`: what is reported comes in pairs, and adds up to
  what the book holds. In the middle of a task neither is so of the reports made, hence
  the inductive invariant `ReportInv`: it speaks of `AllReports`, the reports made and
  then those still to be made from the copies in the worker's local queue. A pass adds a
  pair to them and changes the two orders it names; making a report changes nothing.

In `SPSCRingProofs`, for every capacity, set of values and set of threads. All but
`RingTypes`, which needs no condition, as long as no two pushes overlap (`OneProducer`: the class comment's "single producer", asked of the
calls and not of the threads, so that the pool can use the theorems for its two):

* `RingInvariant`: the inductive invariant `RingInv`. What a thread has read of an
  index is still so, or errs on the safe side, when it acts on it.
* `RingTypes`, `SlotsAreRaceFree`.
* `RingImplementsFIFO`: `Spec /\ []OneProducer => FIFO!Spec`, with the published slots as
  the abstract queue: `StoreWrite` is a push, `StoreRead` a pop, all else stutters.
* `OneThreadSuffices`: with one thread that pushes the condition holds by itself.

In `ThreadPoolProofs`, for every script of tasks and every capacity, with the ring's
lemmas taken over through `RingFacts == INSTANCE SPSCRingProofs` (`SameRing` says that it is
the ring of the model):

* `PoolTypes`, `NobodyInside`: need no condition, overlapping pushes are included. `ControlInv`
  says at which places of its loop the worker is inside the ring, and in which order the
  shutdown goes on.
* `PoolInvariant`: `Spec => [](overlapped \/ PoolInv)`. Until two pushes overlap every task whose
  submission has reached the ring is executed, in the worker's hands or in the ring, in one
  of these places and once; and behind the new orders that were submitted before it. Cancels may be
  rescheduled anywhere in the script, so that the ring need not hold tasks in the order
  of the script: `PoolInv` says of each task which orders are ahead of it, no more.
* `TasksKept`, `TasksRunInOrder`: what follows from it. The run `ThreadPool_two_producers`
  shows a loss after an overlap: by `TasksKept` the overlap is the only cause.
* `KeptWithoutRescheduling`: if every cancel finds its order (`Reschedulable = {}`) the worker
  never pushes, so no two pushes overlap and no accepted order is lost, without a condition.

In `LoggerProofs`, for any threads, entries, capacity and any setting of the two outputs:

* `LoggerInvariant`: the inductive invariant `LoggerInv`, of `RingInv` (the places of the buffer
  in use hold entries), `CallersInv` (main and the other threads are inside `push` only
  where their code is), `WrittenInv` (what was pushed is what was written, then the entry in
  the logger's hands, then the buffer) and `FinishInv` (once the logger has seen the finish
  signal with an empty buffer, nothing can be pushed any more).
* `LoggerTypes`, `BufferImplementsFIFO`.
* `NothingLoggedIsLost`: when the program has ended, the file and the standard output
  hold what was logged for them. Termination itself is a liveness property and fails if
  both outputs are disabled, as `Logger_disabled` shows.

In `MPMCQueueProofs`, for any sets of enqueuers, dequeuers, values and addresses:

* `QueueInvariant`: the inductive invariant `QueueInv`. The list from the dummy to the
  last linked node stays linked; linked nodes, nodes not linked yet (`Private`) and
  nodes about to be freed (`Unlinked`) are pairwise different, which is why reusing an
  address harms nobody; `m_tail` is the last node whenever `m_tailMutex` is free
  (`TailHeld`); what the holder of `m_headMutex` has read still holds (`HeadHeld`).
* `QueueTypes`, `FreedNodesUntouched`.
* `QueueImplementsFIFO`: `Spec => FIFO!Spec`: `Link` is a push, `AdvanceHead` a pop,
  all else stutters.

In `MPSCQueueProofs`, for any sets of producers, values and addresses:

* `QueueInvariant`: the inductive invariant `QueueInv`. The list behind the dummy and the
  batch are linked chains (`Chain`); they share no node, neither with each other nor
  with nodes that are not linked yet (`Private`), so an address that is reused is
  nobody's; `m_tail` is the end of the list or the dummy, never a node of the batch.
* `FreedNodesUntouched`: that no producer can write to a node the consumer walks on.
* `FlushNeverWaits`: the wait inside `flush` finds data at once, since nobody else takes;
  this is why a dispatcher cannot sleep through the finish signal.
* `QueueImplementsFIFO`: `QueueSpec => FIFO!Spec`. The abstract queue is what the
  consumer has not read of its batch, then the list: `Push` is a push, `ReadMessage` a
  pop, and cutting the list off (`Flush`) changes nothing.

In `ServerProofs`, for any sets of sessions, workers, messages and addresses and any ring
size, wherever the construction fails and whenever somebody quits (`Teardown` is the
sequence the code fixes, and `TeardownFacts` reads it off):

* `ServerInvariant`: the inductive invariant `ServerInv`. `MainInv` says that the position of
  main in the destruction tells which members exist and which threads have returned;
  `SessionsInv` that nobody pushes once the acceptor has stopped; `QueueInv` of
  `MPSCQueueProofs` holds while the queue exists, and `WalkInv`, its part about the batch,
  also after, because the destructor frees only nodes of the list and the dummy;
  `DispatcherInv` that what was copied and what was submitted differ by the message in the
  dispatcher's hands; `WorkersInv` that a worker about to execute holds a task.
* `ServerTypes`: indices stay inside the rings whatever pushes overlap.
* `NothingUsedAfterDestruction`: threads are joined before what they use is destroyed. It
  needs `NormalStart`: when the processor cannot be started, the dispatcher is not joined.
* `BatchHandedOver`: whatever the dispatcher took from the queue is submitted before it ends.
* `ServerQueueIsFIFO`: with its destructor the incoming queue is still a FIFO. For the queue
  a step of the server is one of its own steps while it exists, then the destruction, then
  at most a walk through a batch taken before (`StepsOfQueue`). The refinement needs
  `QueueInv` for the first and only `ContentsInv` of `MPSCQueueProofs` for the last: a batch
  that is a chain, and linked nodes that hold values and are not in the batch.

In `CentralOrderBookProofs`, for any symbols, owners, client IDs and set of messages, any
configuration of symbols and workers and any size of the rings. There are four
inductive invariants, each resting on those before it:

* `MatcherInvariant`: `MatcherInv`. Types; and every task of a symbol, in a ring or in a
  worker's hands, is at the one worker to which the dictionary sends that symbol. A
  symbol that is missing from the dictionary gets worker 0 by default insertion, at the
  dispatcher or at the worker, and both insert the same. Hence at most one worker is ever
  inside a book. `TypeCorrect` states the first part.
* `RingsAreQueues`: `Spec => [](overlapped \/ FIFOsInv)`. Until two pushes overlap what is in use
  of a ring, `Contents`, is a FIFO: at most one thread is inside push of it, `m_write` is what that
  thread has loaded, the slot it has filled holds its task, and there is room for it.
  A push appends to `Contents`, a pop takes from it, all other steps leave it alone.
* `ArrivalInvariant`: `ArrivalInv`. What is on its way is in the order of arrival at each
  place: the incoming queue is the end of what arrived (`IncomingInv`), answers follow what
  the dispatcher has taken (`AnswerInv`); and, until two pushes overlap, a ring holds new orders in
  order and behind all that rest in their book (`RingInv`), and stamps follow arrivals (`RestingInv`).
  Rescheduled cancels overtake, and are overtaken, freely: the parts speak of orders.
  `OrderOfArrivalKept` follows from it.
* `BooksAreOrderBooks`, `EveryBookIsOrderBook`: the book of every symbol implements
  `OrderBook!Spec` with `Stamps` all of `Nat`. Every action is, for each book, the action of
  `OrderBook` with the same name or a stutter: `BookStep`, with one lemma per action.
  So what is proved of `OrderBook` holds of every book. (The corollaries are not
  written down: `OrderBookProofs` would have to be instantiated once per symbol, and the
  proof system hides the assumptions of an instance that has a parameter.)
* `LifeInvariant`: `LifeInv`, until two pushes overlap. Every report continues what was told of its
  order before (`ToldInv`); an order that waits for its task has only been accepted
  (`WaitingInv`); an order in a local queue or in a book is open in the eyes of its client, and
  what was told of it is what the copies and the book say (`CopyInv`, `RestsOpen`).
* `OrdersLiveAsPromised`: `ImplementsLifecycle`, that every step before an overlap is a step of
  `OrderLifecycle` or none. The processor's `Send` is the only step that changes what a client
  knows, and by `ToldInv` each report it sends is an `Acknowledge`, `Trade` or `Cancel` of its
  order; all other steps stutter.

The last two assume `Quantities \subseteq Nat`. Zero is included, and visible: an order for nothing is
inserted, trades once with quantity 0 and is filled by that, and its counterparty is told
PARTIALLY_FILLED although nothing was added. So `OrderLifecycle` has a trade that adds nothing, if some
order is for nothing (`SomeEmpty` in the invariants). Negative quantities are not refused by the code
either, but with them an executed quantity can shrink, and no sense is left in "adds up".

Two forms in `CentralOrderBook` were chosen so that they can be reasoned about, and
mean what a filter on a sequence would: `BookReports` takes the k-th of the indices of a
book's reports (`Nth`), and `StatusOf` and `FilledOf` look at the last report of an order
(`LastOf`). That the k-th exists, and what appending does to it (`NthExists`), needs induction over
the natural numbers. The library's induction theorems cannot be instantiated here, so
`SetInduction` states induction with a set in the place of the predicate and proves it
from the fact that `<` is well-founded.

Assumptions on constants: capacities and ring sizes are positive, bounds are natural
numbers, "no value" constants are not values, the tasks of a script are all different.

Every safety property that a passing run checks is a theorem. Only model-checked are
the liveness properties `TaskNewOrderEnds`, `PushCompletes`, `EverythingIsReceived`,
`SubmittedOrdersRun`, `ShutdownReturns`, `EveryOrderAnswered`, `EveryCancelTakesEffect`,
`EverythingIsDequeued`, `QuitEnds` and `QuitShutsDown`: liveness and ENABLED are outside what
the proof system can do here. `MatchingShrinksBook` proves what `TaskNewOrderEnds` rests on.

## What is not modelled

* The data races on `std::unordered_map` and `std::multimap` themselves (a late
  insertion during lookups, "display" during matching): their outcomes cannot be
  enumerated. The accesses are serialised; the hazards are listed.
* What a destroyed object does to its users. Where a thread would follow the pointers of
  a destroyed queue the model ends the program (`DispatcherCrashes`). The observer is
  destroyed while workers may still notify it; its destructor is trivial, so nothing
  changes for them.
* Sessions of the FIX library after the acceptor has stopped, the text of rejects, and
  the exits on errors of `main` with their codes.
* Negative quantities in `CentralOrderBook` (`OrderBookProofs` allows them wherever it can), and the
  truncation `(long) orderQty` that makes a quantity 0 of a fraction. Zero itself is in the runs of
  `OrderBook` and `CentralOrderBook`: the report PARTIALLY_FILLED without a trade, which README:52
  ("some trading happened") does not foresee, is in the model and no property forbids it.
* An outdated cancel that circulates until its client reuses the ClOrdID, and then removes
  the new order: `CentralOrderBook` assumes that clients do not reuse a ClOrdID.
* Tasks copied from a slot while it is written, after two pushes have overlapped (see Granularity).
* Configuration, single instance check, memory alignment, thread affinity and
  names, log wording, display: no decision of the matcher depends on them.

* The directories under `src/dependencies` (QuickFIX headers, Boost, Google Test): they are
  libraries and nearly all of the repository's lines. The engine itself is the 4200 lines
  of `src/source`.

## Plan

Done: every component of the engine with concurrent or stateful behaviour has a module.

Every safety property that a passing run checks has a theorem.

Next, in this order:

1. Proofs: the theorems of `OrderBook` for every book of `CentralOrderBook`, stated there, if
   `BookInv` can be carried over without an instance of the proofs.
2. `WorkerRings` shown to implement `BoundedFIFO` for each ring while pushes do not overlap, and
   its steps shown to be those of `SPSCRing` with the accesses in between left out. So far
   `RingsAreQueues` says what `CentralOrderBookProofs` needs of it.
3. `CentralOrderBook` with `MPMCQueue` in the place of its outgoing FIFO, and `MPSCQueue`
   in the place of its incoming one, if instances small enough exist.
