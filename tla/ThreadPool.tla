----------------------------- MODULE ThreadPool -----------------------------
(***************************************************************************)
(* One worker of ThreadPool (concurrent/thread_pool.{h,cpp}) with the two  *)
(* threads that use it: the incoming message dispatcher, which submits     *)
(* tasks (CentralOrderBook::addOrder, cancelOrder), and the main thread,   *)
(* which shuts the pool down after it has joined the dispatcher            *)
(* (Server::~Server, then ~CentralOrderBook).  Workers share nothing but   *)
(* the shutdown flag, so one stands for all.                               *)
(*                                                                         *)
(* The queue is the ring of SPSCRing, one memory access at a time.  A      *)
(* worker is the consumer of its own ring; when a cancel task does not     *)
(* find its order, taskCancelOrder calls cancelOrder, and the worker       *)
(* submits the task to that same ring: a second producer.  What the pool   *)
(* promises it promises until two pushes have overlapped; from then on the *)
(* ring may lose or repeat tasks, or hand out a slot nobody wrote.         *)
(***************************************************************************)
EXTENDS Integers, Sequences

CONSTANTS Script,        \* the tasks the dispatcher submits, in order, all different
          Reschedulable, \* those that may ask to be submitted again
          Capacity,      \* m_workQueueSizePerThread
          MaxPushes,     \* bound: pushes after which none is begun
          Nothing        \* no task

Tasks == {Script[i] : i \in DOMAIN Script}

ASSUME ScriptAssumption ==
    /\ Script \in Seq(Tasks)
    /\ \A i, j \in DOMAIN Script : Script[i] = Script[j] => i = j
    /\ Reschedulable \subseteq Tasks
ASSUME CapacityAssumption == Capacity \in Nat \ {0}
ASSUME MaxPushesAssumption == MaxPushes \in Nat
ASSUME NothingAssumption == Nothing \notin Tasks

Threads == {"dispatcher", "worker"}

VARIABLES
    write, read, slots, ppc, tail, val, cpc, head, element, sent, received,
    submitted,       \* how much of the script the dispatcher has called submitTask for
    wpc,             \* where the worker thread is
    overlapped,      \* history: two pushes have overlapped (Ring!OneProducer was broken)
    executed,        \* history: tasks that ran to their end, in order
    dispatcherJoined,
    isShuttingDown,  \* m_isShuttingDown
    joined           \* shutdown has returned

ringVars == <<write, read, slots, ppc, tail, val, cpc, head, element, sent, received>>
poolVars == <<submitted, wpc, executed, dispatcherJoined, isShuttingDown, joined>>
vars == <<ringVars, poolVars, overlapped>>

Ring == INSTANCE SPSCRing WITH Producers <- Threads, Values <- Tasks

TypeOK ==
    /\ Ring!TypeOK
    /\ submitted \in 0..Len(Script)
    /\ wpc \in {"top", "popping", "executing", "resubmitting", "exited", "aborted"}
    /\ executed \in Seq(Tasks)
    /\ dispatcherJoined \in BOOLEAN
    /\ isShuttingDown \in BOOLEAN
    /\ joined \in BOOLEAN
    /\ overlapped \in BOOLEAN

Init ==
    /\ Ring!Init
    /\ submitted = 0
    /\ wpc = "top"
    /\ executed = <<>>
    /\ dispatcherJoined = FALSE
    /\ isShuttingDown = FALSE
    /\ joined = FALSE
    /\ overlapped = FALSE

-----------------------------------------------------------------------------
(* The dispatcher thread: submitTask and the steps of push inside it *)

Submit ==
    /\ ~dispatcherJoined
    /\ submitted < Len(Script)
    /\ Ring!StartPush("dispatcher", Script[submitted + 1])
    /\ submitted' = submitted + 1
    /\ UNCHANGED <<wpc, executed, dispatcherJoined, isShuttingDown, joined>>

DispatcherStep ==
    /\ Ring!PushStep("dispatcher")
    /\ UNCHANGED poolVars

-----------------------------------------------------------------------------
(* The worker thread: workerThreadFunction *)

WorkerTopKeepsOn ==                \* for mutation: the flag is not read
    /\ wpc = "top"
    /\ wpc' = "popping"
    /\ UNCHANGED <<ringVars, submitted, executed, dispatcherJoined, isShuttingDown, joined>>

(* The loop's condition, read before every tryPop. *)
WorkerTop ==
    /\ wpc = "top"
    /\ wpc' = IF isShuttingDown THEN "exited" ELSE "popping"
    /\ UNCHANGED <<ringVars, submitted, executed, dispatcherJoined, isShuttingDown, joined>>

WorkerPopGivesUp ==                \* for mutation: an empty ring ends the loop
    /\ wpc = "popping"
    /\ Ring!PopStep
    /\ wpc' = CASE cpc' # "idle" -> "popping"
                [] cpc' = "idle" /\ cpc = "store" -> "executing"
                [] OTHER -> "exited"
    /\ UNCHANGED <<submitted, executed, dispatcherJoined, isShuttingDown, joined>>

(* A step of tryPop: after an empty one the worker yields and goes to the   *)
(* top, after a full one it has a task in element.                          *)
WorkerPop ==
    /\ wpc = "popping"
    /\ Ring!PopStep
    /\ wpc' = CASE cpc' # "idle" -> "popping"
                [] cpc' = "idle" /\ cpc = "store" -> "executing"
                [] OTHER -> "top"
    /\ UNCHANGED <<submitted, executed, dispatcherJoined, isShuttingDown, joined>>

(* A slot that was never written holds a Task without a function: execute   *)
(* throws bad_function_call, which no one catches.                          *)
WorkerAbort ==
    /\ wpc = "executing"
    /\ element = Nothing
    /\ wpc' = "aborted"
    /\ UNCHANGED <<ringVars, submitted, executed, dispatcherJoined, isShuttingDown, joined>>

WorkerExecute ==
    /\ wpc = "executing"
    /\ element \in Tasks
    /\ executed' = Append(executed, element)
    /\ wpc' = "top"
    /\ UNCHANGED <<ringVars, submitted, dispatcherJoined, isShuttingDown, joined>>

(* taskCancelOrder does not find the order and submits itself again. *)
WorkerReschedule ==
    /\ wpc = "executing"
    /\ element \in Reschedulable
    /\ Ring!StartPush("worker", element)
    /\ wpc' = "resubmitting"
    /\ UNCHANGED <<submitted, executed, dispatcherJoined, isShuttingDown, joined>>

WorkerResubmit ==
    /\ wpc = "resubmitting"
    /\ Ring!PushStep("worker")
    /\ wpc' = IF ppc'["worker"] = "idle" THEN "top" ELSE "resubmitting"
    /\ UNCHANGED <<submitted, executed, dispatcherJoined, isShuttingDown, joined>>

WorkerStep ==
    \/ WorkerTop \/ WorkerPop \/ WorkerAbort \/ WorkerExecute
    \/ WorkerReschedule \/ WorkerResubmit

-----------------------------------------------------------------------------
(* The main thread: ~Server joins the dispatcher, which ends when it has    *)
(* worked off the messages it had flushed, with no push under way; then the *)
(* pool's shutdown sets the flag and joins the worker.                      *)

(* Variant for mutation: the worker is not waited for. *)
JoinWithoutWaiting ==
    /\ isShuttingDown
    /\ ~joined
    /\ joined' = TRUE
    /\ UNCHANGED <<ringVars, submitted, wpc, executed, dispatcherJoined, isShuttingDown>>

JoinDispatcher ==
    /\ ~dispatcherJoined
    /\ ppc["dispatcher"] = "idle"
    /\ dispatcherJoined' = TRUE
    /\ UNCHANGED <<ringVars, submitted, wpc, executed, isShuttingDown, joined>>

Shutdown ==
    /\ dispatcherJoined
    /\ ~isShuttingDown
    /\ isShuttingDown' = TRUE
    /\ UNCHANGED <<ringVars, submitted, wpc, executed, dispatcherJoined, joined>>

Join ==
    /\ isShuttingDown
    /\ ~joined
    /\ wpc = "exited"
    /\ joined' = TRUE
    /\ UNCHANGED <<ringVars, submitted, wpc, executed, dispatcherJoined, isShuttingDown>>

(* The uncaught exception ends every thread of the process. *)
Aborted == wpc = "aborted"

CodeStep ==
    \/ Submit
    \/ DispatcherStep
    \/ WorkerStep
    \/ JoinDispatcher
    \/ Shutdown
    \/ Join

Next ==
    /\ ~Aborted
    /\ CodeStep
    /\ overlapped' = (overlapped \/ ~Ring!OneProducer')

Spec == Init /\ [][Next]_vars

(* Both threads are running and the joining thread is woken; that someone   *)
(* quits the server is never assumed.                                       *)
codeVars == <<ringVars, poolVars>>
FairSpec ==
    /\ Spec
    /\ WF_codeVars(~Aborted /\ DispatcherStep)
    /\ WF_codeVars(~Aborted /\ WorkerStep)
    /\ WF_codeVars(~Aborted /\ Join)

-----------------------------------------------------------------------------
(* Properties *)

Elements(seq) == {seq[i] : i \in DOMAIN seq}

(* What the worker holds of the ring's tasks while it runs or resubmits.    *)
Held == IF wpc \in {"executing", "resubmitting"} THEN {element} ELSE {}

Kept(task) == task \in Elements(executed) \cup Elements(Ring!Contents) \cup Held

(* A task whose push has returned stays in the ring, or in the worker's     *)
(* hands, until it has run, until two pushes have overlapped: no slot is    *)
(* overwritten, no index jumps over it, the full ring included.             *)
SubmittedTasksKept == overlapped \/ \A task \in Elements(sent) : Kept(task)

(* README.md:50: an order that was accepted "will be processed".  The tasks *)
(* that are never rescheduled are the new orders.                           *)
AcceptedOrdersKept == \A task \in Elements(sent) \ Reschedulable : Kept(task)

(* The new orders submitted before a task. *)
OrdersBefore(task) ==
    {Script[j] : j \in {i \in DOMAIN Script :
        /\ Script[i] \notin Reschedulable
        /\ \E k \in DOMAIN Script : i < k /\ Script[k] = task}}

Ahead(seq, i) == {seq[h] : h \in 1..(i - 1)}

(* Every task is run to its end once, and after all new orders submitted    *)
(* before it, wherever in between cancels are rescheduled: orders keep      *)
(* their turn, and a client's cancel runs after the order it is for.  Only  *)
(* a rescheduled cancel may fall behind.                                    *)
ExecutedInSubmissionOrder ==
    \/ overlapped
    \/ \A i \in DOMAIN executed :
        /\ executed[i] \notin Ahead(executed, i)
        /\ OrdersBefore(executed[i]) \subseteq Ahead(executed, i)

(* When shutdown has returned and the queues are destroyed, no thread is    *)
(* inside one: not the worker, and not the dispatcher in a blocked push.    *)
NobodyInsideAfterJoin ==
    joined => wpc = "exited" /\ \A t \in Threads : ppc[t] = "idle"

(* ring_buffer_spsc_lockfree.hpp:49: the worker, the only one who pops,     *)
(* waits in push for room in its own full ring.                             *)
WaitsForItself == wpc = "resubmitting" /\ Ring!increment(write) = read

(* A new order that is submitted runs, also while the dispatcher waits for  *)
(* room and cancels compete for it, unless the server is quit first, the    *)
(* worker comes to wait for itself, or pushes overlap.                      *)
SubmittedOrdersRun ==
    \A i \in {k \in DOMAIN Script : Script[k] \notin Reschedulable} :
        submitted = i ~>
            \/ Script[i] \in Elements(executed)
            \/ isShuttingDown \/ WaitsForItself \/ overlapped

(* The shutdown returns, whatever is still queued and whatever pushes have  *)
(* overlapped, unless the worker waits for itself or the program has        *)
(* aborted.                                                                 *)
ShutdownReturns == isShuttingDown ~> joined \/ WaitsForItself \/ Aborted

(* central_order_book.cpp:157: a cancel that does not find its order is     *)
(* "being rescheduled": the worker gets out of submitting it.               *)
RescheduleReturns == wpc = "resubmitting" ~> wpc # "resubmitting"

-----------------------------------------------------------------------------
(* The inductive invariants of the proofs *)

(* Where each thread is: the worker is inside its ring only where its loop  *)
(* calls it, and the shutdown goes one step after the other.                *)
ControlInv ==
    /\ TypeOK
    /\ wpc # "popping" => cpc = "idle"
    /\ wpc # "resubmitting" => ppc["worker"] = "idle"
    /\ wpc = "resubmitting" => element \in Reschedulable /\ val["worker"] = element
    /\ dispatcherJoined => ppc["dispatcher"] = "idle"
    /\ isShuttingDown => dispatcherJoined
    /\ wpc = "exited" => isShuttingDown
    /\ joined => wpc = "exited"

Pushing == IF ppc["dispatcher"] = "idle" THEN 0 ELSE 1

(* The tasks whose submission has reached the ring. *)
Arrived == {Script[k] : k \in 1..(submitted - Pushing)}

(* Until two pushes have overlapped: the tasks that have arrived are those  *)
(* executed, in the worker's hands and in the ring, each in one place and   *)
(* once, and none has overtaken a new order submitted before it.            *)
PoolInv ==
    /\ Ring!OneProducer
    /\ Ring!RingInv
    /\ Pushing = 1 => submitted \in DOMAIN Script /\ val["dispatcher"] = Script[submitted]
    /\ Elements(sent) \subseteq Arrived
    /\ Arrived = Elements(executed) \cup Held \cup Elements(Ring!Contents)
    /\ Held \cap (Elements(executed) \cup Elements(Ring!Contents)) = {}
    /\ Elements(executed) \cap Elements(Ring!Contents) = {}
    /\ \A i \in DOMAIN executed :
        /\ executed[i] \notin Ahead(executed, i)
        /\ OrdersBefore(executed[i]) \subseteq Ahead(executed, i)
    /\ \A task \in Held : OrdersBefore(task) \subseteq Elements(executed)
    /\ \A i \in DOMAIN Ring!Contents :
        /\ Ring!Contents[i] \notin Ahead(Ring!Contents, i)
        /\ OrdersBefore(Ring!Contents[i])
             \subseteq Elements(executed) \cup Held \cup Ahead(Ring!Contents, i)
=============================================================================
