------------------------------ MODULE MPMCQueue ------------------------------
(***************************************************************************)
(* QueueMPMC (concurrent/queue_mpmc.hpp): the queue of outgoing reports,   *)
(* filled by the dispatcher and the workers, emptied by the outgoing       *)
(* message processor.                                                      *)
(*                                                                         *)
(* A singly linked list that starts with a dummy node.  Enqueuers hold     *)
(* m_tailMutex, dequeuers m_headMutex, so an enqueuer and a dequeuer meet  *)
(* in the nodes: when the queue is empty the one writes and the other      *)
(* reads m_next of the same node, and a dequeuer frees the node that       *)
(* m_tail may still point to.  A step is one access to a node, with what   *)
(* its thread does to memory that its mutex or its secrecy protects.       *)
(***************************************************************************)
EXTENDS Integers, Sequences

CONSTANTS Enqueuers, Dequeuers,   \* the threads
          Values,                 \* what is queued
          Nodes,                  \* addresses; a freed one may be allocated again
          Null,                   \* nullptr, no thread, no value
          MaxEnqueues             \* bound: enqueues after which none is begun

ASSUME NullAssumption ==
    /\ Null \notin Values \cup Nodes \cup Enqueuers \cup Dequeuers
    /\ MaxEnqueues \in Nat

VARIABLES
    allocated,            \* the nodes that exist
    next, data,           \* m_next and m_data of each
    head, tail,           \* m_head, m_tail
    headMutex, tailMutex, \* the thread that holds it, or Null
    epc, newNode,         \* where each enqueuer is, its newNode
    dpc, currentHead, newHead, result,    \* the same of dequeuers; *data
    list,                 \* history: the nodes from the dummy to the last linked one
    sent, received        \* history: values in the order of linking and of unlinking

enqueuerVars == <<tail, tailMutex, epc, newNode, sent>>
dequeuerVars == <<head, headMutex, dpc, currentHead, newHead, result, received>>
vars == <<allocated, next, data, list, enqueuerVars, dequeuerVars>>

TypeOK ==
    /\ allocated \in SUBSET Nodes
    /\ next \in [Nodes -> Nodes \cup {Null}]
    /\ data \in [Nodes -> Values \cup {Null}]
    /\ head \in Nodes
    /\ tail \in Nodes
    /\ headMutex \in Dequeuers \cup {Null}
    /\ tailMutex \in Enqueuers \cup {Null}
    /\ epc \in [Enqueuers -> {"idle", "lock", "link", "swing"}]
    /\ newNode \in [Enqueuers -> Nodes \cup {Null}]
    /\ dpc \in [Dequeuers -> {"idle", "next", "data", "advance", "free"}]
    /\ currentHead \in [Dequeuers -> Nodes \cup {Null}]
    /\ newHead \in [Dequeuers -> Nodes \cup {Null}]
    /\ result \in [Dequeuers -> Values \cup {Null}]
    /\ list \in Seq(Nodes)
    /\ sent \in Seq(Values)
    /\ received \in Seq(Values)

(* The constructor: head and tail point to a dummy. *)
Init ==
    /\ \E dummy \in Nodes :
        /\ allocated = {dummy}
        /\ head = dummy
        /\ tail = dummy
        /\ list = <<dummy>>
    /\ next = [n \in Nodes |-> Null]
    /\ data = [n \in Nodes |-> Null]
    /\ headMutex = Null
    /\ tailMutex = Null
    /\ epc = [e \in Enqueuers |-> "idle"]
    /\ newNode = [e \in Enqueuers |-> Null]
    /\ dpc = [d \in Dequeuers |-> "idle"]
    /\ currentHead = [d \in Dequeuers |-> Null]
    /\ newHead = [d \in Dequeuers |-> Null]
    /\ result = [d \in Dequeuers |-> Null]
    /\ sent = <<>>
    /\ received = <<>>

-----------------------------------------------------------------------------
(* enqueue *)

(* The node is made before the mutex is taken; nobody else knows it yet. *)
MakeNode(e, v) ==
    /\ epc[e] = "idle"
    /\ Len(sent) < MaxEnqueues
    /\ \E n \in Nodes \ allocated :
        /\ allocated' = allocated \cup {n}
        /\ next' = [next EXCEPT ![n] = Null]
        /\ data' = [data EXCEPT ![n] = v]
        /\ newNode' = [newNode EXCEPT ![e] = n]
    /\ epc' = [epc EXCEPT ![e] = "lock"]
    /\ UNCHANGED <<tail, tailMutex, list, sent, dequeuerVars>>

LockTail(e) ==
    /\ epc[e] = "lock"
    /\ tailMutex = Null
    /\ tailMutex' = e
    /\ epc' = [epc EXCEPT ![e] = "link"]
    /\ UNCHANGED <<allocated, next, data, tail, newNode, list, sent, dequeuerVars>>

LinkAndUnlock(e) ==      \* for mutation: m_tail is written outside the mutex
    /\ epc[e] = "link"
    /\ next' = [next EXCEPT ![tail] = newNode[e]]
    /\ list' = Append(list, newNode[e])
    /\ sent' = Append(sent, data[newNode[e]])
    /\ tailMutex' = Null
    /\ epc' = [epc EXCEPT ![e] = "swing"]
    /\ UNCHANGED <<allocated, data, tail, newNode, dequeuerVars>>

(* m_tail->m_next = newNode: from here on dequeuers can see it. *)
Link(e) ==
    /\ epc[e] = "link"
    /\ next' = [next EXCEPT ![tail] = newNode[e]]
    /\ list' = Append(list, newNode[e])
    /\ sent' = Append(sent, data[newNode[e]])
    /\ epc' = [epc EXCEPT ![e] = "swing"]
    /\ UNCHANGED <<allocated, data, tail, tailMutex, newNode, dequeuerVars>>

SwingTailForgotten(e) ==      \* for mutation
    /\ epc[e] = "swing"
    /\ tailMutex' = Null
    /\ epc' = [epc EXCEPT ![e] = "idle"]
    /\ UNCHANGED <<allocated, next, data, tail, newNode, list, sent, dequeuerVars>>

(* m_tail = newNode, and the guard unlocks. *)
SwingTail(e) ==
    /\ epc[e] = "swing"
    /\ tail' = newNode[e]
    /\ tailMutex' = Null
    /\ epc' = [epc EXCEPT ![e] = "idle"]
    /\ UNCHANGED <<allocated, next, data, newNode, list, sent, dequeuerVars>>

EnqueueStep(e) == LockTail(e) \/ Link(e) \/ SwingTail(e)

-----------------------------------------------------------------------------
(* dequeue *)

LockHead(d) ==
    /\ dpc[d] = "idle"
    /\ headMutex = Null
    /\ headMutex' = d
    /\ currentHead' = [currentHead EXCEPT ![d] = head]
    /\ dpc' = [dpc EXCEPT ![d] = "next"]
    /\ UNCHANGED <<allocated, next, data, head, newHead, result, list, received, enqueuerVars>>

ReadNextStaysLocked(d) ==      \* for mutation: no unlock before "return false"
    /\ dpc[d] = "next"
    /\ newHead' = [newHead EXCEPT ![d] = next[currentHead[d]]]
    /\ dpc' = [dpc EXCEPT ![d] = IF newHead'[d] = Null THEN "idle" ELSE "data"]
    /\ UNCHANGED <<allocated, next, data, head, headMutex, currentHead, result, list,
                   received, enqueuerVars>>

(* Nothing behind the dummy: unlock and return false. *)
ReadNext(d) ==
    /\ dpc[d] = "next"
    /\ newHead' = [newHead EXCEPT ![d] = next[currentHead[d]]]
    /\ IF newHead'[d] = Null
       THEN dpc' = [dpc EXCEPT ![d] = "idle"] /\ headMutex' = Null
       ELSE dpc' = [dpc EXCEPT ![d] = "data"] /\ UNCHANGED headMutex
    /\ UNCHANGED <<allocated, next, data, head, currentHead, result, list, received,
                   enqueuerVars>>

ReadDummy(d) ==      \* for mutation: the data of the wrong node
    /\ dpc[d] = "data"
    /\ result' = [result EXCEPT ![d] = data[currentHead[d]]]
    /\ dpc' = [dpc EXCEPT ![d] = "advance"]
    /\ UNCHANGED <<allocated, next, data, head, headMutex, currentHead, newHead, list,
                   received, enqueuerVars>>

ReadData(d) ==
    /\ dpc[d] = "data"
    /\ result' = [result EXCEPT ![d] = data[newHead[d]]]
    /\ dpc' = [dpc EXCEPT ![d] = "advance"]
    /\ UNCHANGED <<allocated, next, data, head, headMutex, currentHead, newHead, list,
                   received, enqueuerVars>>

(* m_head = newHead, which becomes the dummy; unlock. *)
AdvanceHead(d) ==
    /\ dpc[d] = "advance"
    /\ head' = newHead[d]
    /\ list' = Tail(list)
    /\ received' = Append(received, result[d])
    /\ headMutex' = Null
    /\ dpc' = [dpc EXCEPT ![d] = "free"]
    /\ UNCHANGED <<allocated, next, data, currentHead, newHead, result, enqueuerVars>>

(* delete(currentHead), after the mutex was released. *)
FreeNode(d) ==
    /\ dpc[d] = "free"
    /\ allocated' = allocated \ {currentHead[d]}
    /\ dpc' = [dpc EXCEPT ![d] = "idle"]
    /\ UNCHANGED <<next, data, head, headMutex, currentHead, newHead, result, list,
                   received, enqueuerVars>>

DequeueStep(d) ==
    LockHead(d) \/ ReadNext(d) \/ ReadData(d) \/ AdvanceHead(d) \/ FreeNode(d)

Next ==
    \/ \E e \in Enqueuers : (\E v \in Values : MakeNode(e, v)) \/ EnqueueStep(e)
    \/ \E d \in Dequeuers : DequeueStep(d)

Spec == Init /\ [][Next]_vars

(* Threads inside enqueue are running, and the processor never stops        *)
(* calling dequeue.                                                         *)
FairSpec ==
    /\ Spec
    /\ \A e \in Enqueuers : WF_vars(EnqueueStep(e))
    /\ \A d \in Dequeuers : WF_vars(DequeueStep(d))

-----------------------------------------------------------------------------
(* Properties *)

(* Whoever follows a pointer finds a node that exists: the enqueuer at      *)
(* m_tail->m_next although dequeuers free nodes without m_tailMutex, the    *)
(* dequeuer in the nodes it reads and in the one it frees, once.            *)
NoUseAfterFree ==
    /\ \A e \in Enqueuers : epc[e] = "link" => tail \in allocated
    /\ \A d \in Dequeuers :
        /\ dpc[d] \in {"next", "free"} => currentHead[d] \in allocated
        /\ dpc[d] = "data" => newHead[d] \in allocated
        /\ dpc[d] = "free" =>
              \A c \in Dequeuers \ {d} : dpc[c] # "idle" => currentHead[c] # currentHead[d]

(* The inductive invariant of the proofs.  The linked nodes, the nodes not  *)
(* linked yet and the nodes about to be freed exist and are all different;  *)
(* the list is linked; m_tail is its end unless an enqueuer is about to     *)
(* move it there.                                                           *)
ListLinked ==
    /\ list # <<>>
    /\ head = list[1]
    /\ next[list[Len(list)]] = Null
    /\ \A i \in 1..Len(list) :
        /\ list[i] \in allocated
        /\ i < Len(list) => next[list[i]] = list[i + 1]
        /\ i > 1 => data[list[i]] \in Values
        /\ \A j \in 1..Len(list) : list[i] = list[j] => i = j

Linked == {list[i] : i \in 1..Len(list)}

Private(e) ==
    epc[e] \in {"lock", "link"} =>
        /\ newNode[e] \in allocated \ Linked
        /\ next[newNode[e]] = Null
        /\ data[newNode[e]] \in Values
        /\ \A f \in Enqueuers \ {e} :
              epc[f] \in {"lock", "link"} => newNode[f] # newNode[e]
        /\ \A d \in Dequeuers : dpc[d] = "free" => currentHead[d] # newNode[e]

TailHeld(e) ==
    /\ epc[e] \in {"link", "swing"} <=> tailMutex = e
    /\ epc[e] = "link" => tail = list[Len(list)]
    /\ epc[e] = "swing" => newNode[e] = list[Len(list)]

HeadHeld(d) ==
    /\ dpc[d] \in {"next", "data", "advance"} <=> headMutex = d
    /\ dpc[d] \in {"next", "data", "advance"} => currentHead[d] = head
    /\ dpc[d] \in {"data", "advance"} => Len(list) > 1 /\ newHead[d] = list[2]
    /\ dpc[d] = "advance" => result[d] = data[list[2]]

Unlinked(d) ==
    dpc[d] = "free" =>
        /\ currentHead[d] \in allocated \ Linked
        /\ \A c \in Dequeuers \ {d} : dpc[c] = "free" => currentHead[c] # currentHead[d]

QueueInv ==
    /\ TypeOK
    /\ ListLinked
    /\ tailMutex = Null => tail = list[Len(list)]
    /\ \A e \in Enqueuers : Private(e) /\ TailHeld(e)
    /\ \A d \in Dequeuers : HeadHeld(d) /\ Unlinked(d)

(* The queue is a FIFO without a limit: an enqueue takes effect when it     *)
(* links the node, a dequeue when it moves m_head.                          *)
Contents == [i \in 1..(Len(list) - 1) |-> data[list[i + 1]]]
FIFO == INSTANCE BoundedFIFO WITH queue <- Contents, Sizes <- Nat
ImplementsFIFO == FIFO!Spec

(* Everything that is enqueued is dequeued.                                 *)
EverythingIsDequeued == []<>(received = sent)
=============================================================================
