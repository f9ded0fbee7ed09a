------------------------------ MODULE MPSCQueue ------------------------------
(***************************************************************************)
(* QueueMPSC (concurrent/queue_mpsc.hpp): the queue of incoming messages,  *)
(* filled by the FIX sessions, emptied by the dispatcher, which takes all  *)
(* of it at once and walks what it took without the mutex.                 *)
(*                                                                         *)
(* A singly linked list behind a dummy node that is never replaced.  A     *)
(* critical section is one step; so is an access to a node outside of one. *)
(***************************************************************************)
EXTENDS Integers, Sequences

CONSTANTS Producers, Values,
          Nodes,          \* addresses; a freed one may be allocated again
          Dummy,          \* the address of the first one
          Null            \* nullptr, no value

ASSUME DummyAssumption == Dummy \in Nodes
ASSUME NullAssumption == Null \notin Values \cup Nodes

VARIABLES
    allocated,          \* the nodes that exist
    next, data,         \* m_next and m_data of each
    head, tail,         \* m_head, m_tail
    pushpc, newNode,    \* where each producer is, its newNode
    flushpc,            \* where the consumer is
    node, value,        \* the node it walks on, its copy of m_data
    linked, batch,      \* history: the nodes behind the dummy, those the consumer took
    sent, received      \* history: values in the order of linking and of copying

producerVars == <<pushpc, newNode, sent>>
consumerVars == <<flushpc, node, value, batch, received>>
queueVars == <<allocated, next, data, head, tail, linked, producerVars, consumerVars>>

QueueTypeOK ==
    /\ allocated \in SUBSET Nodes
    /\ next \in [Nodes -> Nodes \cup {Null}]
    /\ data \in [Nodes -> Values \cup {Null}]
    /\ head \in Nodes \cup {Null}
    /\ tail \in Nodes
    /\ pushpc \in [Producers -> {"outside", "push"}]
    /\ newNode \in [Producers -> Nodes \cup {Null}]
    /\ flushpc \in {"outside", "isEmpty", "wait", "walk", "free"}
    /\ node \in Nodes \cup {Null}
    /\ value \in Values \cup {Null}
    /\ linked \in Seq(Nodes)
    /\ batch \in Seq(Nodes)
    /\ sent \in Seq(Values)
    /\ received \in Seq(Values)

QueueInit ==
    /\ allocated = {Dummy}
    /\ head = Dummy
    /\ tail = Dummy
    /\ next = [n \in Nodes |-> Null]
    /\ data = [n \in Nodes |-> Null]
    /\ pushpc = [p \in Producers |-> "outside"]
    /\ newNode = [p \in Producers |-> Null]
    /\ flushpc = "outside"
    /\ node = Null
    /\ value = Null
    /\ linked = <<>>
    /\ batch = <<>>
    /\ sent = <<>>
    /\ received = <<>>

-----------------------------------------------------------------------------
(* push: the node is made before the mutex is taken. *)

MakeNode(p, v) ==
    /\ pushpc[p] = "outside"
    /\ \E n \in Nodes \ allocated :
        /\ allocated' = allocated \cup {n}
        /\ next' = [next EXCEPT ![n] = Null]
        /\ data' = [data EXCEPT ![n] = v]
        /\ newNode' = [newNode EXCEPT ![p] = n]
    /\ pushpc' = [pushpc EXCEPT ![p] = "push"]
    /\ UNCHANGED <<head, tail, linked, sent, consumerVars>>

PushKeepsTail(p) ==      \* for mutation: m_tail stays, the next node replaces this one
    /\ pushpc[p] = "push"
    /\ next' = [next EXCEPT ![tail] = newNode[p]]
    /\ linked' = Append(linked, newNode[p])
    /\ sent' = Append(sent, data[newNode[p]])
    /\ newNode' = [newNode EXCEPT ![p] = Null]
    /\ pushpc' = [pushpc EXCEPT ![p] = "outside"]
    /\ UNCHANGED <<allocated, data, head, tail, consumerVars>>

(* notify_one wakes nobody: the only waiter found data before it waits. *)
Push(p) ==
    /\ pushpc[p] = "push"
    /\ next' = [next EXCEPT ![tail] = newNode[p]]
    /\ tail' = newNode[p]
    /\ linked' = Append(linked, newNode[p])
    /\ sent' = Append(sent, data[newNode[p]])
    /\ newNode' = [newNode EXCEPT ![p] = Null]
    /\ pushpc' = [pushpc EXCEPT ![p] = "outside"]
    /\ UNCHANGED <<allocated, data, head, consumerVars>>

-----------------------------------------------------------------------------
(* flush, and the walk of its caller through the list it returns *)

CallFlush ==
    /\ flushpc = "outside"
    /\ flushpc' = "isEmpty"
    /\ UNCHANGED <<allocated, next, data, head, tail, linked, producerVars, node, value,
                   batch, received>>

IsEmpty ==
    /\ flushpc = "isEmpty"
    /\ head # Null
    /\ flushpc' = IF next[head] = Null THEN "outside" ELSE "wait"
    /\ UNCHANGED <<allocated, next, data, head, tail, linked, producerVars, node, value,
                   batch, received>>

(* The mutex again; the predicate of the wait must hold to get past it. *)
Flush ==
    /\ flushpc = "wait"
    /\ head # Null
    /\ next[head] # Null
    /\ node' = next[head]
    /\ next' = [next EXCEPT ![head] = Null]
    /\ tail' = head
    /\ batch' = linked
    /\ linked' = <<>>
    /\ flushpc' = "walk"
    /\ UNCHANGED <<allocated, data, head, producerVars, value, received>>

ReadMessage ==
    /\ flushpc = "walk"
    /\ value' = data[node]
    /\ received' = Append(received, data[node])
    /\ flushpc' = "free"
    /\ UNCHANGED <<allocated, next, data, head, tail, linked, producerVars, node, batch>>

(* Step to m_next; the smart pointer deletes the node that was left, whose  *)
(* content is gone.                                                         *)
FreeNode ==
    /\ flushpc = "free"
    /\ node' = next[node]
    /\ allocated' = allocated \ {node}
    /\ next' = [next EXCEPT ![node] = Null]
    /\ data' = [data EXCEPT ![node] = Null]
    /\ value' = Null
    /\ batch' = Tail(batch)
    /\ flushpc' = IF next[node] = Null THEN "outside" ELSE "walk"
    /\ UNCHANGED <<head, tail, linked, producerVars, received>>

ConsumerStep == CallFlush \/ IsEmpty \/ Flush \/ ReadMessage \/ FreeNode

QueueNext ==
    \/ \E p \in Producers : (\E v \in Values : MakeNode(p, v)) \/ Push(p)
    \/ ConsumerStep

QueueSpec == QueueInit /\ [][QueueNext]_queueVars

(* The destructor deletes the dummy and what is linked to it; m_head ends   *)
(* as nullptr, m_tail dangles.  The owner of the queue says when.           *)
Destroy ==
    /\ allocated' = allocated \ ({head} \cup {linked[i] : i \in 1..Len(linked)})
    /\ head' = Null
    /\ UNCHANGED <<next, data, tail, linked, producerVars, consumerVars>>

-----------------------------------------------------------------------------
(* Properties *)

Elements(s) == {s[i] : i \in 1..Len(s)}

(* Push writes to, and the consumer walks on, nodes that exist; and no      *)
(* producer can write to a node of the batch, which the consumer reads and  *)
(* frees without the mutex.                                                 *)
NoUseAfterFree ==
    /\ \A p \in Producers : pushpc[p] = "push" =>
          {tail, newNode[p]} \subseteq allocated \ Elements(batch)
    /\ flushpc \in {"isEmpty", "wait"} => head \in allocated
    /\ flushpc \in {"walk", "free"} => node \in allocated

(* The wait of flush never waits: nobody else takes from the queue between  *)
(* the look at it in isEmpty and the second look under the next lock.       *)
FlushFindsData == flushpc = "wait" => next[head] # Null

(* The inductive invariant of the proofs: the list behind the dummy and the *)
(* batch are linked and share no node, with each other or with the nodes    *)
(* that are not linked yet; m_tail is the end of the list.                  *)
Chain(s) == \A i \in 1..Len(s) :
    /\ s[i] \in allocated
    /\ data[s[i]] \in Values
    /\ next[s[i]] = IF i = Len(s) THEN Null ELSE s[i + 1]
    /\ \A j \in 1..Len(s) : s[i] = s[j] => i = j

ListInv ==
    /\ head \in allocated \ (Elements(linked) \cup Elements(batch))
    /\ next[head] = IF linked = <<>> THEN Null ELSE linked[1]
    /\ tail = IF linked = <<>> THEN head ELSE linked[Len(linked)]
    /\ Chain(linked)
    /\ Chain(batch)
    /\ Elements(linked) \cap Elements(batch) = {}

Private(p) ==
    pushpc[p] = "push" =>
        /\ newNode[p] \in allocated \ ({head} \cup Elements(linked) \cup Elements(batch))
        /\ next[newNode[p]] = Null
        /\ data[newNode[p]] \in Values
        /\ \A q \in Producers \ {p} : pushpc[q] = "push" => newNode[q] # newNode[p]

ConsumerInv ==
    /\ flushpc \in {"walk", "free"} <=> batch # <<>>
    /\ batch # <<>> => node = batch[1]
    /\ flushpc = "wait" => linked # <<>>

(* What the consumer rests on while it walks; it survives the destructor. *)
WalkInv ==
    /\ QueueTypeOK
    /\ Chain(batch)
    /\ ConsumerInv

QueueInv ==
    /\ QueueTypeOK
    /\ ListInv
    /\ \A p \in Producers : Private(p)
    /\ ConsumerInv

(* The queue is a FIFO without a limit; what flush returned is still in it  *)
(* until the consumer has read it, so that emptying the list in one go and  *)
(* linking new nodes to it at once neither lose nor reorder a message.      *)
Unread == IF flushpc = "free" THEN Tail(batch) ELSE batch
Contents == [i \in 1..(Len(Unread) + Len(linked)) |->
                data[IF i <= Len(Unread) THEN Unread[i] ELSE linked[i - Len(Unread)]]]
FIFO == INSTANCE BoundedFIFO WITH queue <- Contents, Sizes <- Nat
ImplementsFIFO == FIFO!Spec
=============================================================================
