------------------------------- MODULE Server -------------------------------
(***************************************************************************)
(* Server (server/server.cpp) and the threads it owns, from its constructor *)
(* to the end of the program: FIX sessions that call onMessage, the        *)
(* dispatcher, the outgoing processor, the workers of the thread pool, and *)
(* the main thread that starts, stops and destroys all of them.            *)
(*                                                                         *)
(* The queue of incoming messages is MPSCQueue; the rings of the workers   *)
(* are those of WorkerRings, with two producers.  What a book does with a  *)
(* message and the reports about it are in CentralOrderBook.  Symbols are  *)
(* configured ones, so that every message has a worker.                    *)
(***************************************************************************)
EXTENDS MPSCQueue

CONSTANTS Workers,
          RingSize,         \* m_workQueueSizePerThread, the slots of a ring
          WorkerOf,         \* of a message: the worker of its symbol
          Cancels,          \* the messages that are cancel requests, not new orders
          Unsupported,      \* those whose order type or side is not converted
          Unpriced          \* those without a price

Messages == Values

ASSUME MessagesAssumption ==
    /\ WorkerOf \in [Messages -> Workers]
    /\ {Cancels, Unsupported, Unpriced} \subseteq SUBSET Messages
ASSUME RingSizeAssumption == RingSize \in Nat \ {0}
ASSUME WorkersAssumption == Workers \cap {"dispatcher", "processor", "pool"} = {}

VARIABLES
    main,               \* where the main thread is
    step,               \* of its way through Teardown
    alive,              \* the members of Server that are not destroyed yet
    started, ended,     \* the threads that were created, and that returned
    finishing,          \* m_isFinishing of the Actors, m_isShuttingDown
    arrived,            \* the messages that sessions received
    dispatcher,         \* where the dispatcher is with the message it holds
    submitted,          \* history: the messages it has submitted
    rings, push,        \* m_threadQueues of the pool, and who is where in its push
    overlapped,         \* history: two threads were inside push of one ring
    workerpc, task      \* of each worker: where it is, its task

Pool == INSTANCE WorkerRings WITH Pushers <- Workers \cup {"dispatcher"}, NoTask <- Null

mainVars == <<main, step, alive, started, finishing>>
dispatcherVars == <<dispatcher, submitted>>
pool == <<rings, push, overlapped>>
workerVars == <<workerpc, task>>
vars == <<queueVars, mainVars, ended, arrived, dispatcherVars, pool, workerVars>>

Threads == Workers \cup {"dispatcher", "processor"}

(* What leaves the program: the body of the destructor of Server, then its  *)
(* members, last one first.  A destructor of an Actor signals and joins     *)
(* again, in vain after a shutdown; ~CentralOrderBook shuts the pool down.  *)
TeardownPoolFirst ==      \* for mutation: the dispatcher may wait for room in a ring
    << <<"signal", "processor">>, <<"join", "processor">>,
       <<"signal", "pool">>, <<"join", "pool">>,
       <<"signal", "dispatcher">>, <<"join", "dispatcher">>,
       <<"destroy", "queue">>, <<"signal", "dispatcher">>, <<"join", "dispatcher">>,
       <<"destroy", "observer">>, <<"signal", "pool">>, <<"join", "pool">>,
       <<"destroy", "book">> >>

TeardownJoinsLast ==      \* for mutation: the dispatcher is left to its destructor
    << <<"signal", "processor">>, <<"join", "processor">>,
       <<"destroy", "queue">>, <<"signal", "dispatcher">>, <<"join", "dispatcher">>,
       <<"destroy", "observer">>, <<"signal", "pool">>, <<"join", "pool">>,
       <<"destroy", "book">> >>

Teardown ==
    << <<"signal", "processor">>, <<"join", "processor">>,
       <<"signal", "dispatcher">>, <<"join", "dispatcher">>,
       <<"destroy", "queue">>, <<"signal", "dispatcher">>, <<"join", "dispatcher">>,
       <<"signal", "processor">>, <<"join", "processor">>,
       <<"destroy", "observer">>, <<"signal", "pool">>, <<"join", "pool">>,
       <<"destroy", "book">> >>

DestroyMembers == CHOOSE i \in DOMAIN Teardown : Teardown[i] = <<"destroy", "queue">>

Members == {"queue", "observer", "book"}
Constructing == {"initialise", "startDispatcher", "startProcessor"}
Up == Constructing \cup {"startAcceptor", "serving", "stopAcceptor"}

TypeOK ==
    /\ QueueTypeOK
    /\ main \in Up \cup {"teardown", "exited", "aborted"}
    /\ step \in DOMAIN Teardown
    /\ alive \subseteq Members
    /\ started \subseteq Threads
    /\ ended \subseteq started
    /\ finishing \subseteq {"dispatcher", "processor", "pool"}
    /\ arrived \subseteq Messages
    /\ dispatcher \in {"run", "submit", "free"}
    /\ submitted \in Seq(Messages)
    /\ Pool!RingTypes(Messages)
    /\ workerpc \in [Workers -> {"top", "pop", "execute", "reschedule"}]
    /\ task \in [Workers -> Messages \cup {Null}]

Init ==
    /\ QueueInit
    /\ main = "initialise"
    /\ step = 1
    /\ alive = Members
    /\ started = {}
    /\ ended = {}
    /\ finishing = {}
    /\ arrived = {}
    /\ dispatcher = "run"
    /\ submitted = <<>>
    /\ Pool!RingsInit
    /\ workerpc = [w \in Workers |-> "top"]
    /\ task = [w \in Workers |-> Null]

-----------------------------------------------------------------------------
(* FIX sessions: the threads of the acceptor call onMessage. *)

(* The conversion of an order type or side that is not supported throws     *)
(* invalid_argument.  The handler of onMessage is for runtime_error and     *)
(* the exception is not in the specification of fromApp: the program is     *)
(* terminated.  The read of a missing price throws FieldNotFound, which the *)
(* session answers with a reject of its own.                                *)
OnMessage(s, m) ==
    /\ main \in {"serving", "stopAcceptor"}
    /\ m \notin arrived
    /\ pushpc[s] = "outside"
    /\ arrived' = arrived \cup {m}
    /\ IF m \in Unsupported
       THEN main' = "aborted" /\ UNCHANGED queueVars
       ELSE /\ UNCHANGED main
            /\ IF m \in Unpriced THEN UNCHANGED queueVars ELSE MakeNode(s, m)
    /\ UNCHANGED <<step, alive, started, finishing, ended, dispatcherVars, pool, workerVars>>

PushMessage(s) ==
    /\ Push(s)
    /\ UNCHANGED <<mainVars, ended, arrived, dispatcherVars, pool, workerVars>>

-----------------------------------------------------------------------------
(* The threads of Server *)

Running(t) == t \in started \ ended

End(t, signal) ==
    /\ signal \in finishing
    /\ ended' = ended \cup {t}

(* The dispatcher looks at the finish signal between two batches only. *)
DispatcherEnds ==
    /\ Running("dispatcher")
    /\ flushpc = "outside"
    /\ End("dispatcher", "dispatcher")
    /\ UNCHANGED <<queueVars, mainVars, arrived, dispatcherVars, pool, workerVars>>

DispatcherReads ==
    /\ Running("dispatcher")
    /\ flushpc = "outside" => "dispatcher" \notin finishing
    /\ CallFlush \/ IsEmpty \/ Flush \/ ReadMessage
    /\ dispatcher' = IF flushpc = "walk" THEN "submit" ELSE dispatcher
    /\ UNCHANGED <<mainVars, ended, arrived, submitted, pool, workerVars>>

(* addOrder or cancelOrder: the push on the ring waits for room. *)
SubmitFindsRoom ==
    /\ dispatcher = "submit"
    /\ Pool!FindRoom("dispatcher", WorkerOf[value])
    /\ UNCHANGED <<queueVars, mainVars, ended, arrived, dispatcherVars, workerVars>>

SubmitFills ==
    /\ dispatcher = "submit"
    /\ Pool!FillSlot("dispatcher", value)
    /\ UNCHANGED <<queueVars, mainVars, ended, arrived, dispatcherVars, workerVars>>

SubmitTask ==
    /\ dispatcher = "submit"
    /\ Pool!StoreWrite("dispatcher")
    /\ submitted' = Append(submitted, value)
    /\ dispatcher' = "free"
    /\ UNCHANGED <<queueVars, mainVars, ended, arrived, workerVars>>

NextMessageUnlessFinishing ==      \* for mutation: the signal cuts a batch short
    /\ dispatcher = "free"
    /\ IF "dispatcher" \in finishing
       THEN flushpc' = "outside" /\ UNCHANGED <<allocated, next, data, head, tail, linked,
                                                producerVars, node, value, batch, received>>
       ELSE FreeNode
    /\ dispatcher' = "run"
    /\ UNCHANGED <<mainVars, ended, arrived, submitted, pool, workerVars>>

NextMessage ==
    /\ dispatcher = "free"
    /\ FreeNode
    /\ dispatcher' = "run"
    /\ UNCHANGED <<mainVars, ended, arrived, submitted, pool, workerVars>>

(* The queue was destroyed under the dispatcher, which follows m_head.      *)
DispatcherCrashes ==
    /\ Running("dispatcher")
    /\ flushpc \in {"isEmpty", "wait"}
    /\ head = Null
    /\ main' = "aborted"
    /\ UNCHANGED <<queueVars, step, alive, started, finishing, ended, arrived,
                   dispatcherVars, pool, workerVars>>

DispatcherStep ==
    \/ DispatcherEnds
    \/ DispatcherReads
    \/ SubmitFindsRoom
    \/ SubmitFills
    \/ SubmitTask
    \/ NextMessage
    \/ DispatcherCrashes

(* Until the signal, the processor dequeues and sends. *)
ProcessorEnds ==
    /\ Running("processor")
    /\ End("processor", "processor")
    /\ UNCHANGED <<queueVars, mainVars, arrived, dispatcherVars, pool, workerVars>>

WorkerEnds(w) ==
    /\ Running(w)
    /\ workerpc[w] = "top"
    /\ End(w, "pool")
    /\ UNCHANGED <<queueVars, mainVars, arrived, dispatcherVars, pool, workerVars>>

WorkerTop(w) ==
    /\ Running(w)
    /\ workerpc[w] = "top"
    /\ "pool" \notin finishing
    /\ workerpc' = [workerpc EXCEPT ![w] = "pop"]
    /\ UNCHANGED <<queueVars, mainVars, ended, arrived, dispatcherVars, pool, task>>

(* After two pushes have overlapped, m_write can pass a slot to which no    *)
(* task was ever written: its execute throws, and nobody catches that.      *)
WorkerPop(w) ==
    /\ workerpc[w] = "pop"
    /\ IF Pool!IsEmpty(w)
       THEN workerpc' = [workerpc EXCEPT ![w] = "top"] /\ UNCHANGED <<main, pool, task>>
       ELSE IF Pool!Front(w) = Null
       THEN main' = "aborted" /\ UNCHANGED <<pool, workerVars>>
       ELSE /\ workerpc' = [workerpc EXCEPT ![w] = "execute"]
            /\ task' = [task EXCEPT ![w] = Pool!Front(w)]
            /\ Pool!PopFront(w)
            /\ UNCHANGED main
    /\ UNCHANGED <<queueVars, step, alive, started, finishing, ended, arrived,
                   dispatcherVars>>

(* taskNewOrder and taskCancelOrder, in the book that only this worker     *)
(* uses; a cancel that does not find its order is submitted again.          *)
Execute(w) ==
    /\ workerpc[w] = "execute"
    /\ \/ /\ workerpc' = [workerpc EXCEPT ![w] = "top"]
          /\ task' = [task EXCEPT ![w] = Null]
       \/ /\ task[w] \in Cancels
          /\ workerpc' = [workerpc EXCEPT ![w] = "reschedule"]
          /\ UNCHANGED task
    /\ UNCHANGED <<queueVars, mainVars, ended, arrived, dispatcherVars, pool>>

(* It pushes on the ring it alone takes from: when that is full it waits    *)
(* for itself.                                                              *)
RescheduleFindsRoom(w) ==
    /\ workerpc[w] = "reschedule"
    /\ Pool!FindRoom(w, WorkerOf[task[w]])
    /\ UNCHANGED <<queueVars, mainVars, ended, arrived, dispatcherVars, workerVars>>

RescheduleFills(w) ==
    /\ workerpc[w] = "reschedule"
    /\ Pool!FillSlot(w, task[w])
    /\ UNCHANGED <<queueVars, mainVars, ended, arrived, dispatcherVars, workerVars>>

Reschedule(w) ==
    /\ workerpc[w] = "reschedule"
    /\ Pool!StoreWrite(w)
    /\ workerpc' = [workerpc EXCEPT ![w] = "top"]
    /\ task' = [task EXCEPT ![w] = Null]
    /\ UNCHANGED <<queueVars, mainVars, ended, arrived, dispatcherVars>>

WorkerStep(w) ==
    \/ WorkerEnds(w)
    \/ WorkerTop(w)
    \/ WorkerPop(w)
    \/ Execute(w)
    \/ RescheduleFindsRoom(w)
    \/ RescheduleFills(w)
    \/ Reschedule(w)

-----------------------------------------------------------------------------
(* The main thread *)

(* The constructor of Server creates the workers, then the two Actors. *)
Create(at, t, then) ==
    /\ main = at
    /\ started' = started \cup {t}
    /\ main' = then
    /\ UNCHANGED <<queueVars, step, alive, finishing, ended, arrived, dispatcherVars,
                   pool, workerVars>>

StartWorker(w) ==
    /\ w \notin started
    /\ Create("initialise", w,
              IF Workers \subseteq started \cup {w} THEN "startDispatcher" ELSE "initialise")

StartActors ==
    \/ Create("startDispatcher", "dispatcher", "startProcessor")
    \/ Create("startProcessor", "processor", "startAcceptor")

MoveMain(from, to, at) ==
    /\ main \in from
    /\ main' = to
    /\ step' = at
    /\ UNCHANGED <<queueVars, alive, started, finishing, ended, arrived, dispatcherVars,
                   pool, workerVars>>

(* "Thread creation failed" leaves the constructor: the body of the         *)
(* destructor is not run, the destructors of the members are.               *)
StartFails == MoveMain(Constructing, "teardown", DestroyMembers)

(* Server::run; the acceptor throws when it cannot start.  Its stop waits   *)
(* for the sessions that are inside onMessage.                              *)
StartAcceptor == MoveMain({"startAcceptor"}, "serving", step)
AcceptorFails == MoveMain({"startAcceptor"}, "teardown", 1)
Quit == MoveMain({"serving"}, "stopAcceptor", step)
StopAcceptor ==
    /\ \A s \in Producers : pushpc[s] = "outside"
    /\ MoveMain({"stopAcceptor"}, "teardown", 1)

(* The threads that a join waits for; what was not started is not joined.   *)
Joined(object) == (IF object = "pool" THEN Workers ELSE {object}) \cap started

TeardownStep ==
    /\ main = "teardown"
    /\ LET operation == Teardown[step][1]
           object == Teardown[step][2]
       IN  /\ operation = "join" => Joined(object) \subseteq ended
           /\ finishing' = IF operation = "signal" THEN finishing \cup {object} ELSE finishing
           /\ alive' = IF operation = "destroy" THEN alive \ {object} ELSE alive
           /\ IF <<operation, object>> = <<"destroy", "queue">> THEN Destroy
                                                                 ELSE UNCHANGED queueVars
    /\ IF step = Len(Teardown) THEN main' = "exited" /\ UNCHANGED step
                               ELSE step' = step + 1 /\ UNCHANGED main
    /\ UNCHANGED <<started, ended, arrived, dispatcherVars, pool, workerVars>>

MainStep ==
    \/ \E w \in Workers : StartWorker(w)
    \/ StartActors
    \/ StartAcceptor
    \/ StopAcceptor
    \/ TeardownStep

ProgramRuns == main \notin {"exited", "aborted"}

Next ==
    /\ ProgramRuns
    /\ \/ \E s \in Producers : (\E m \in Messages : OnMessage(s, m)) \/ PushMessage(s)
       \/ DispatcherStep
       \/ ProcessorEnds
       \/ \E w \in Workers : WorkerStep(w)
       \/ MainStep
       \/ StartFails
       \/ AcceptorFails
       \/ Quit

Spec == Init /\ [][Next]_vars

(* Threads run, while the program does.  Nothing is assumed of clients, of  *)
(* who quits, nor of failures.                                              *)
FairSpec ==
    /\ Spec
    /\ \A s \in Producers : WF_vars(ProgramRuns /\ PushMessage(s))
    /\ WF_vars(ProgramRuns /\ DispatcherStep)
    /\ WF_vars(ProgramRuns /\ ProcessorEnds)
    /\ \A w \in Workers : WF_vars(ProgramRuns /\ WorkerStep(w))
    /\ WF_vars(ProgramRuns /\ MainStep)

-----------------------------------------------------------------------------
(* Properties *)

(* No thread uses what main destroys: the dispatcher is joined before its   *)
(* queue goes, workers and processor before the central order book with the *)
(* rings and the outgoing queue; the nodes of the queue are accessed only   *)
(* while they exist.  The one exception is a processor that cannot be       *)
(* started, which leaves a running dispatcher to the destructor of Actor,   *)
(* after m_queue is gone.                                                   *)
NormalStart == "dispatcher" \in started => "processor" \in started

NoUseAfterDestroy ==
    NormalStart =>
        /\ Running("dispatcher") => alive = Members
        /\ \A t \in Workers \cup {"processor"} : Running(t) => "book" \in alive
        /\ (\E s \in Producers : pushpc[s] = "push") => "queue" \in alive
        /\ NoUseAfterFree

(* The finish signal may come in the middle of a batch: when the dispatcher *)
(* has ended, all that it took from the queue was submitted and freed.      *)
HandedOver ==
    "dispatcher" \in ended => submitted = received /\ batch = <<>> /\ flushpc = "outside"

(* A rescheduled cancel that finds the ring of its worker full stops that   *)
(* worker for good.                                                         *)
WaitsForItself(w) ==
    /\ workerpc[w] = "reschedule" /\ push[w] = Pool!Outside
    /\ Pool!IsFull(WorkerOf[task[w]])

(* A dispatcher that waits for room may never see it, while cancels that    *)
(* fill the ring of its message are taken from it and put back.             *)
CancelsFill(w) ==
    /\ Pool!Used(w) + (IF task[w] = Null THEN 0 ELSE 1) >= RingSize - 1
    /\ \A i \in 1..Pool!Used(w) : Pool!Contents(w)[i] \in Cancels
    /\ task[w] \in Cancels \cup {Null}

DispatcherStarves ==
    /\ dispatcher = "submit" /\ push["dispatcher"] = Pool!Outside
    /\ CancelsFill(WorkerOf[value])

(* The program ends after "quit", although the dispatcher may wait for room *)
(* in a ring when main signals it and workers are rescheduling cancels: no  *)
(* join lasts for ever, unless a worker waits for itself or cancels leave   *)
(* the dispatcher no room.  Before its end the program is aborted only by   *)
(* an unsupported order, by two pushes on one ring or after a processor     *)
(* that could not be started.                                               *)
QuitEnds ==
    /\ [](main = "aborted" => arrived \cap Unsupported # {} \/ overlapped \/ ~NormalStart)
    /\ <>[](main # "stopAcceptor")
    /\ <>[](main = "teardown" => (\E w \in Workers : WaitsForItself(w)) \/ DispatcherStarves)

(* An order with an unsupported type is rejected (comment in onMessage, and *)
(* README); it does not end the program.                                    *)
UnsupportedOrdersRejected == main = "aborted" => arrived \cap Unsupported = {}

(* The inductive invariant of the proofs.                                   *)
Done(operation, object) == \E i \in 1..(step - 1) : Teardown[i] = <<operation, object>>

(* How far main is with the destruction tells what still exists and which   *)
(* threads have returned.                                                   *)
MainInv ==
    /\ main \in Up => step = 1 /\ alive = Members
    /\ main \in Constructing => "processor" \notin started
    /\ main = "exited" => step = Len(Teardown)
    /\ main # "exited" => \A object \in Members : Done("destroy", object) \/ object \in alive
    /\ NormalStart =>
          \A object \in {"processor", "dispatcher", "pool"} :
              Done("join", object) => Joined(object) \subseteq ended

SessionsInv == \A s \in Producers :
    pushpc[s] = "push" => "queue" \in alive /\ main \in {"serving", "stopAcceptor", "aborted"}

(* What the dispatcher has copied and what it has submitted differ by the   *)
(* message in its hands, at most.                                           *)
DispatcherInv ==
    /\ ~Running("dispatcher") => flushpc = "outside" /\ dispatcher = "run"
    /\ flushpc = "free" <=> dispatcher # "run"
    /\ IF dispatcher = "submit"
       THEN value \in Messages /\ received = Append(submitted, value)
       ELSE received = submitted

WorkersInv == \A w \in Workers : workerpc[w] \in {"execute", "reschedule"} => task[w] \in Messages

ServerInv ==
    /\ TypeOK
    /\ WalkInv
    /\ IF "queue" \in alive THEN QueueInv ELSE head = Null
    /\ MainInv
    /\ SessionsInv
    /\ DispatcherInv
    /\ WorkersInv
=============================================================================
