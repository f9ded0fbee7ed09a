--------------------------- MODULE MPSCQueueProofs ---------------------------
(***************************************************************************)
(* Theorems about MPSCQueue, for any numbers of producers, nodes and       *)
(* values: QueueInv is inductive, no freed node is touched, flush never    *)
(* waits, and the list with the batch implements a FIFO without a limit.   *)
(***************************************************************************)
EXTENDS MPSCQueue, SequenceTheorems, TLAPS

(* What appending to a sequence gives, for the list behind m_tail. *)
LEMMA AppendFacts ==
    ASSUME NEW S, NEW s \in Seq(S), NEW x \in S
    PROVE  /\ Append(s, x) \in Seq(S)
           /\ Append(s, x) # <<>>
           /\ Len(Append(s, x)) = Len(s) + 1
           /\ \A i \in 1..Len(s) : Append(s, x)[i] = s[i]
           /\ Append(s, x)[Len(s) + 1] = x
  OBVIOUS

(* What is left of a sequence without its head, for the batch. *)
LEMMA TailFacts ==
    ASSUME NEW S, NEW s \in Seq(S), s # <<>>
    PROVE  /\ Tail(s) \in Seq(S)
           /\ Len(Tail(s)) = Len(s) - 1
           /\ \A i \in 1..(Len(s) - 1) : Tail(s)[i] = s[i + 1]
           /\ Tail(s) = <<>> <=> Len(s) = 1
<1>1. /\ Tail(s) \in Seq(S) /\ Len(Tail(s)) = Len(s) - 1
      /\ \A i \in 1..(Len(s) - 1) : Tail(s)[i] = s[i + 1]
  BY HeadTailProperties
<1>2. Tail(s) = <<>> <=> Len(Tail(s)) = 0
  BY <1>1
<1> QED
  BY <1>1, <1>2

(* The length of a sequence and the set of its elements. *)
LEMMA LengthFacts ==
    ASSUME NEW S, NEW s \in Seq(S)
    PROVE  /\ Len(s) \in Nat
           /\ s = <<>> <=> Len(s) = 0
           /\ \A i \in 1..Len(s) : s[i] \in S
  OBVIOUS

(* The constructor establishes the invariant.                               *)
LEMMA InitInv == ASSUME QueueInit PROVE QueueInv
  BY NullAssumption, DummyAssumption
  DEF QueueInit, QueueInv, QueueTypeOK, ListInv, Private, ConsumerInv, Chain, Elements

(* The list and private nodes are only about some of the variables.        *)
LEMMA ListUnchanged ==
    ASSUME QueueInv,
           UNCHANGED <<allocated, next, data, head, tail, linked, batch, pushpc, newNode>>
    PROVE  ListInv' /\ \A p \in Producers : Private(p)'
<1>1. /\ Elements(linked)' = Elements(linked) /\ Elements(batch)' = Elements(batch)
      /\ Chain(linked)' = Chain(linked) /\ Chain(batch)' = Chain(batch)
  BY DEF Elements, Chain
<1>2. ListInv'
  BY <1>1 DEF QueueInv, ListInv
<1>3. ASSUME NEW p \in Producers PROVE Private(p)'
  BY <1>1 DEF QueueInv, Private
<1> QED
  BY <1>2, <1>3

-----------------------------------------------------------------------------
(* Steps of the producers *)

(* The new node is at an address nobody uses.                               *)
LEMMA MakeNodeInv ==
    ASSUME QueueInv, NEW p \in Producers, NEW v \in Values, MakeNode(p, v)
    PROVE  QueueInv'
<1> USE DEF QueueInv
<1>1. PICK n \in Nodes \ allocated :
        /\ allocated' = allocated \cup {n}
        /\ next' = [next EXCEPT ![n] = Null]
        /\ data' = [data EXCEPT ![n] = v]
        /\ newNode' = [newNode EXCEPT ![p] = n]
  BY DEF MakeNode
<1>2. /\ pushpc[p] = "outside" /\ pushpc' = [pushpc EXCEPT ![p] = "push"]
      /\ UNCHANGED <<head, tail, linked, sent, flushpc, node, value, batch, received>>
  BY DEF MakeNode, consumerVars
<1>3. QueueTypeOK'
  BY <1>1, <1>2 DEF QueueTypeOK
<1>4. /\ n \notin {head} \cup Elements(linked) \cup Elements(batch)
      /\ Elements(linked)' = Elements(linked) /\ Elements(batch)' = Elements(batch)
  BY <1>1, <1>2 DEF ListInv, Chain, Elements
<1>5. Chain(linked)' /\ Chain(batch)'
  BY <1>1, <1>2, <1>4 DEF ListInv, Chain, Elements, QueueTypeOK
<1>6. ListInv'
  BY <1>1, <1>2, <1>4, <1>5 DEF ListInv, QueueTypeOK
<1>7. ASSUME NEW q \in Producers PROVE Private(q)'
  BY <1>1, <1>2, <1>4 DEF Private, QueueTypeOK
<1>8. ConsumerInv'
  BY <1>2 DEF ConsumerInv
<1> QED
  BY <1>3, <1>6, <1>7, <1>8

(* m_tail is the end of the list, or the dummy: the write hits a node that  *)
(* exists and that the consumer does not hold.                              *)
LEMMA PushInv ==
    ASSUME QueueInv, NEW p \in Producers, Push(p)
    PROVE  QueueInv'
<1> USE DEF QueueInv
<1> DEFINE n == newNode[p]
<1>1. /\ pushpc[p] = "push" /\ pushpc' = [pushpc EXCEPT ![p] = "outside"]
      /\ newNode' = [newNode EXCEPT ![p] = Null]
      /\ next' = [next EXCEPT ![tail] = n] /\ tail' = n
      /\ linked' = Append(linked, n) /\ sent' = Append(sent, data[n])
      /\ UNCHANGED <<allocated, data, head, flushpc, node, value, batch, received>>
  BY DEF Push, consumerVars
<1>2. /\ n \in allocated \ ({head} \cup Elements(linked) \cup Elements(batch)) /\ n \in Nodes
      /\ next[n] = Null /\ data[n] \in Values
      /\ linked \in Seq(Nodes) /\ batch \in Seq(Nodes)
      /\ Len(linked) \in Nat /\ Len(batch) \in Nat
  BY <1>1 DEF Private, QueueTypeOK
<1>3. /\ linked' \in Seq(Nodes) /\ linked' # <<>> /\ Len(linked') = Len(linked) + 1
      /\ \A i \in 1..Len(linked) : linked'[i] = linked[i]
      /\ linked'[Len(linked) + 1] = n
  BY <1>1, <1>2, AppendFacts
<1>4. QueueTypeOK'
  <2>1. sent' \in Seq(Values)
    BY <1>1, <1>2, AppendFacts DEF QueueTypeOK
  <2> QED
    BY <1>1, <1>2, <1>3, <2>1 DEF QueueTypeOK
<1>5. Elements(linked)' = Elements(linked) \cup {n} /\ Elements(batch)' = Elements(batch)
  BY <1>1, <1>2, <1>3 DEF Elements
<1>6. \A i \in 1..Len(linked) : linked[i] # n /\ linked[i] # head
  BY <1>2 DEF Elements, ListInv
<1>7. tail \in {head} \cup Elements(linked)
  BY <1>2, LengthFacts DEF ListInv, Elements
<1>8. Chain(linked)'
  <2>1. ASSUME NEW i \in 1..Len(linked')
        PROVE  /\ linked'[i] \in allocated
               /\ data[linked'[i]] \in Values
    BY <1>2, <1>3 DEF ListInv, Chain
  <2>2. ASSUME NEW i \in 1..Len(linked'), NEW j \in 1..Len(linked'), linked'[i] = linked'[j]
        PROVE  i = j
    <3>1. CASE i \in 1..Len(linked) /\ j \in 1..Len(linked)
      BY <1>3, <2>2, <3>1 DEF ListInv, Chain
    <3>2. CASE i = Len(linked) + 1 \/ j = Len(linked) + 1
      BY <1>2, <1>3, <1>6, <2>2, <3>2
    <3> QED
      BY <1>2, <1>3, <3>1, <3>2
  <2>3. ASSUME NEW i \in 1..Len(linked')
        PROVE  next'[linked'[i]] = IF i = Len(linked') THEN Null ELSE linked'[i + 1]
    <3>1. CASE i = Len(linked')
      BY <1>1, <1>2, <1>3, <1>7, <3>1 DEF QueueTypeOK
    <3>2. CASE i = Len(linked)
      <4>1. tail = linked[i] /\ i \in 1..Len(linked)
        BY <1>2, <3>2, LengthFacts DEF ListInv
      <4> QED
        BY <1>1, <1>2, <1>3, <3>2, <4>1 DEF QueueTypeOK
    <3>3. CASE i \in 1..(Len(linked) - 1)
      <4>1. tail = linked[Len(linked)] /\ Len(linked) \in 1..Len(linked) /\ i \in 1..Len(linked)
        BY <1>2, <3>3, LengthFacts DEF ListInv
      <4>2. linked[i] # tail
        BY <1>2, <3>3, <4>1 DEF ListInv, Chain
      <4>3. next[linked[i]] = linked[i + 1] /\ i + 1 \in 1..Len(linked)
        BY <1>2, <3>3, <4>1 DEF ListInv, Chain
      <4> QED
        BY <1>1, <1>2, <1>3, <3>3, <4>1, <4>2, <4>3 DEF QueueTypeOK
    <3> QED
      BY <1>2, <1>3, <3>1, <3>2, <3>3
  <2> QED
    BY <1>1, <2>1, <2>2, <2>3 DEF Chain
<1>9. Chain(batch)'
  <2>1. \A i \in 1..Len(batch) : batch[i] # tail
    BY <1>7 DEF ListInv, Elements
  <2> QED
    BY <1>1, <1>2, <2>1 DEF ListInv, Chain, QueueTypeOK
<1>10. ListInv'
  <2>1. next'[head'] = linked'[1]
    <3>1. CASE linked = <<>>
      BY <1>1, <1>2, <1>3, <3>1 DEF ListInv, QueueTypeOK
    <3>2. CASE linked # <<>>
      <4>1. tail \in Elements(linked) /\ 1 \in 1..Len(linked)
        BY <1>2, <3>2, LengthFacts DEF ListInv, Elements
      <4> QED
        BY <1>1, <1>2, <1>3, <3>2, <4>1 DEF ListInv, QueueTypeOK
    <3> QED
      BY <3>1, <3>2
  <2> QED
    BY <1>1, <1>2, <1>3, <1>5, <1>8, <1>9, <2>1 DEF ListInv
<1>11. ASSUME NEW q \in Producers PROVE Private(q)'
  <2>1. SUFFICES ASSUME q # p, pushpc[q] = "push" PROVE Private(q)'
    BY <1>1 DEF Private, QueueTypeOK
  <2>2. newNode[q] # n /\ newNode[q] # tail /\ newNode'[q] = newNode[q]
    BY <1>1, <1>7, <2>1 DEF Private, QueueTypeOK
  <2>3. /\ newNode[q] \in allocated \ ({head} \cup Elements(linked) \cup Elements(batch))
        /\ next[newNode[q]] = Null /\ data[newNode[q]] \in Values /\ newNode[q] \in Nodes
    BY <2>1 DEF Private, QueueTypeOK
  <2>4. \A r \in Producers \ {q} : pushpc'[r] = "push" => newNode'[r] # newNode[q]
    BY <1>1, <2>1 DEF Private, QueueTypeOK
  <2> QED
    BY <1>1, <1>5, <2>2, <2>3, <2>4 DEF Private, QueueTypeOK
<1>12. ConsumerInv'
  BY <1>1, <1>3 DEF ConsumerInv
<1> QED
  BY <1>4, <1>10, <1>11, <1>12

-----------------------------------------------------------------------------
(* Steps of the consumer *)

(* Between two batches the consumer holds no node. *)
LEMMA CallFlushInv == ASSUME QueueInv, CallFlush PROVE QueueInv'
<1> USE DEF QueueInv
<1>1. /\ flushpc = "outside" /\ flushpc' = "isEmpty"
      /\ UNCHANGED <<allocated, next, data, head, tail, linked, pushpc, newNode, sent, node,
                     value, batch, received>>
  BY DEF CallFlush, producerVars
<1>2. QueueTypeOK' /\ ConsumerInv'
  BY <1>1 DEF QueueTypeOK, ConsumerInv
<1>3. ListInv' /\ \A p \in Producers : Private(p)'
  BY <1>1, ListUnchanged
<1> QED
  BY <1>2, <1>3

(* m_head->m_next tells an empty list.                                      *)
LEMMA IsEmptyInv == ASSUME QueueInv, IsEmpty PROVE QueueInv'
<1> USE DEF QueueInv
<1>1. /\ flushpc = "isEmpty"
      /\ flushpc' = IF next[head] = Null THEN "outside" ELSE "wait"
      /\ UNCHANGED <<allocated, next, data, head, tail, linked, pushpc, newNode, sent, node,
                     value, batch, received>>
  BY DEF IsEmpty, producerVars
<1>2. next[head] # Null => linked # <<>>
  BY DEF ListInv
<1>3. QueueTypeOK' /\ ConsumerInv'
  BY <1>1, <1>2 DEF QueueTypeOK, ConsumerInv
<1>4. ListInv' /\ \A p \in Producers : Private(p)'
  BY <1>1, ListUnchanged
<1> QED
  BY <1>3, <1>4

(* The list becomes the batch; the dummy is the end of the new, empty list. *)
LEMMA FlushInv == ASSUME QueueInv, Flush PROVE QueueInv'
<1> USE DEF QueueInv
<1>1. /\ flushpc = "wait" /\ flushpc' = "walk" /\ node' = next[head]
      /\ next' = [next EXCEPT ![head] = Null] /\ tail' = head
      /\ batch' = linked /\ linked' = <<>>
      /\ UNCHANGED <<allocated, data, head, pushpc, newNode, sent, value, received>>
  BY DEF Flush, producerVars
<1>2. /\ batch = <<>> /\ linked # <<>> /\ next[head] = linked[1]
      /\ linked \in Seq(Nodes) /\ Len(linked) \in Nat /\ linked[1] \in Nodes /\ head \in Nodes
  BY <1>1, LengthFacts DEF ConsumerInv, ListInv, QueueTypeOK
<1>3. QueueTypeOK'
  BY <1>1, <1>2 DEF QueueTypeOK
<1>4. Elements(batch)' = Elements(linked) /\ Elements(linked)' = {} /\ Elements(batch) = {}
  BY <1>1, <1>2 DEF Elements
<1>5. Chain(linked)'
  BY <1>1 DEF Chain
<1>6. Chain(batch)'
  <2>1. \A i \in 1..Len(linked) : linked[i] # head
    BY DEF ListInv, Elements
  <2> QED
    BY <1>1, <1>2, <2>1 DEF ListInv, Chain, QueueTypeOK
<1>7. ListInv'
  BY <1>1, <1>2, <1>4, <1>5, <1>6 DEF ListInv, QueueTypeOK
<1>8. ASSUME NEW p \in Producers PROVE Private(p)'
  BY <1>1, <1>4 DEF Private, QueueTypeOK
<1>9. ConsumerInv'
  BY <1>1, <1>2 DEF ConsumerInv
<1> QED
  BY <1>3, <1>7, <1>8, <1>9

(* Reading and freeing the batch needs no more than WalkInv.                *)
LEMMA CallFlushWalk == ASSUME WalkInv, CallFlush PROVE WalkInv'
  BY DEF WalkInv, CallFlush, producerVars, QueueTypeOK, ConsumerInv, Chain

(* The consumer reads only nodes of its batch, each of which holds a value. *)
LEMMA ReadMessageWalk ==
    ASSUME WalkInv, ReadMessage
    PROVE  WalkInv' /\ value' \in Values
<1> USE DEF WalkInv
<1>1. /\ flushpc = "walk" /\ flushpc' = "free"
      /\ value' = data[node] /\ received' = Append(received, data[node])
      /\ UNCHANGED <<allocated, next, data, head, tail, linked, pushpc, newNode, sent, node,
                     batch>>
  BY DEF ReadMessage, producerVars
<1>2. data[node] \in Values
  <2>1. batch # <<>> /\ node = batch[1] /\ 1 \in 1..Len(batch)
    BY <1>1, LengthFacts DEF ConsumerInv, QueueTypeOK
  <2> QED
    BY <2>1 DEF Chain
<1>3. QueueTypeOK'
  <2>1. received' \in Seq(Values)
    BY <1>1, <1>2, AppendFacts DEF QueueTypeOK
  <2> QED
    BY <1>1, <1>2, <2>1 DEF QueueTypeOK
<1>4. ConsumerInv' /\ Chain(batch)'
  BY <1>1 DEF ConsumerInv, Chain
<1> QED
  BY <1>1, <1>2, <1>3, <1>4

(* Reading a node of the batch changes nothing of the list. *)
LEMMA ReadMessageInv == ASSUME QueueInv, ReadMessage PROVE QueueInv'
<1>1. WalkInv'
  BY ReadMessageWalk DEF QueueInv, ListInv, WalkInv
<1>2. UNCHANGED <<allocated, next, data, head, tail, linked, batch, pushpc, newNode>>
  BY DEF ReadMessage, producerVars
<1>3. ListInv' /\ \A p \in Producers : Private(p)'
  BY <1>2, ListUnchanged
<1> QED
  BY <1>1, <1>3 DEF QueueInv, WalkInv

(* The node that is freed was in the batch once.                            *)
LEMMA FreeNodeFacts ==
    ASSUME WalkInv, FreeNode
    PROVE  /\ flushpc = "free" /\ node' = next[node] /\ allocated' = allocated \ {node}
           /\ next' = [next EXCEPT ![node] = Null] /\ data' = [data EXCEPT ![node] = Null]
           /\ value' = Null /\ batch' = Tail(batch)
           /\ flushpc' = IF next[node] = Null THEN "outside" ELSE "walk"
           /\ UNCHANGED <<head, tail, linked, pushpc, newNode, sent, received>>
           /\ batch \in Seq(Nodes) /\ Len(batch) \in Nat /\ 1 \in 1..Len(batch)
           /\ node = batch[1] /\ node \in Nodes /\ node \in Elements(batch)
           /\ batch' \in Seq(Nodes) /\ Len(batch') = Len(batch) - 1
           /\ \A i \in 1..(Len(batch) - 1) : batch'[i] = batch[i + 1]
           /\ batch' = <<>> <=> Len(batch) = 1
           /\ \A i \in 1..Len(batch') : /\ batch'[i] # node /\ batch'[i] = batch[i + 1]
                                         /\ i + 1 \in 1..Len(batch)
<1>1. /\ flushpc = "free" /\ node' = next[node] /\ allocated' = allocated \ {node}
      /\ next' = [next EXCEPT ![node] = Null] /\ data' = [data EXCEPT ![node] = Null]
      /\ value' = Null /\ batch' = Tail(batch)
      /\ flushpc' = IF next[node] = Null THEN "outside" ELSE "walk"
      /\ UNCHANGED <<head, tail, linked, pushpc, newNode, sent, received>>
  BY DEF FreeNode, producerVars
<1>2. /\ batch \in Seq(Nodes) /\ Len(batch) \in Nat /\ 1 \in 1..Len(batch)
      /\ node = batch[1] /\ node \in Nodes /\ node \in Elements(batch)
  BY <1>1, LengthFacts DEF WalkInv, ConsumerInv, QueueTypeOK, Elements
<1>3. /\ batch' \in Seq(Nodes) /\ Len(batch') = Len(batch) - 1
      /\ \A i \in 1..(Len(batch) - 1) : batch'[i] = batch[i + 1]
      /\ batch' = <<>> <=> Len(batch) = 1
  BY <1>1, <1>2, TailFacts
<1>4. \A i \in 1..Len(batch') : batch'[i] # node /\ batch'[i] = batch[i + 1] /\ i + 1 \in 1..Len(batch)
  BY <1>2, <1>3 DEF WalkInv, Chain
<1> QED
  BY <1>1, <1>2, <1>3, <1>4

(* The consumer goes on with the next node of its batch, or ends. *)
LEMMA FreeNodeWalk == ASSUME WalkInv, FreeNode PROVE WalkInv'
<1> USE DEF WalkInv
<1>1. next[node] = IF Len(batch) = 1 THEN Null ELSE batch[2]
  <2>1. next[batch[1]] = IF 1 = Len(batch) THEN Null ELSE batch[1 + 1]
    BY FreeNodeFacts DEF Chain
  <2> QED
    BY <2>1, FreeNodeFacts
<1>2. Len(batch) # 1 => 2 \in 1..Len(batch) /\ batch[2] \in Nodes
  <2>1. \A k \in Nat : 1 \in 1..k /\ k # 1 => 2 \in 1..k
    OBVIOUS
  <2>2. Len(batch) \in Nat /\ 1 \in 1..Len(batch)
    BY FreeNodeFacts
  <2>3. Len(batch) # 1 => 2 \in 1..Len(batch)
    BY ONLY <2>1, <2>2
  <2> QED
    BY <2>3, FreeNodeFacts, LengthFacts
<1>3. QueueTypeOK'
  <2>1. /\ node' = next[node] /\ allocated' = allocated \ {node}
        /\ next' = [next EXCEPT ![node] = Null] /\ data' = [data EXCEPT ![node] = Null]
        /\ value' = Null /\ batch' \in Seq(Nodes) /\ node \in Nodes
        /\ flushpc' = IF next[node] = Null THEN "outside" ELSE "walk"
        /\ UNCHANGED <<head, tail, linked, pushpc, newNode, sent, received>>
    BY FreeNodeFacts
  <2> QED
    BY <2>1 DEF QueueTypeOK
<1>4. Chain(batch)'
  <2>1. ASSUME NEW i \in 1..Len(batch')
        PROVE  /\ batch'[i] \in allocated'
               /\ data'[batch'[i]] \in Values
               /\ \A j \in 1..Len(batch') : batch'[i] = batch'[j] => i = j
    <3>1. /\ batch[i + 1] \in allocated /\ batch[i + 1] # node /\ batch'[i] = batch[i + 1]
          /\ data[batch[i + 1]] \in Values
      BY FreeNodeFacts DEF Chain
    <3>2. batch'[i] \in allocated' /\ data'[batch'[i]] \in Values
      BY <3>1, FreeNodeFacts DEF QueueTypeOK
    <3>3. ASSUME NEW j \in 1..Len(batch'), batch'[i] = batch'[j] PROVE i = j
      <4>1. batch[i + 1] = batch[j + 1] /\ i + 1 \in 1..Len(batch) /\ j + 1 \in 1..Len(batch)
        BY <3>3, FreeNodeFacts
      <4>2. i + 1 = j + 1
        BY <4>1 DEF Chain
      <4>3. i \in Nat /\ j \in Nat
        BY <2>1, <3>3, FreeNodeFacts
      <4> QED
        BY <4>2, <4>3
    <3> QED
      BY <3>2, <3>3
  <2>2. ASSUME NEW i \in 1..Len(batch')
        PROVE  next'[batch'[i]] = IF i = Len(batch') THEN Null ELSE batch'[i + 1]
    <3>1. next'[batch'[i]] = next[batch[i + 1]]
      BY FreeNodeFacts DEF QueueTypeOK
    <3>2. next[batch[i + 1]] = IF i + 1 = Len(batch) THEN Null ELSE batch[i + 1 + 1]
      BY FreeNodeFacts DEF Chain
    <3>3. i # Len(batch') => i + 1 \in 1..Len(batch')
      BY FreeNodeFacts
    <3>4. i # Len(batch') => batch'[i + 1] = batch[i + 1 + 1]
      BY <3>3, FreeNodeFacts
    <3>5. i = Len(batch') <=> i + 1 = Len(batch)
      BY FreeNodeFacts
    <3> QED
      BY <3>1, <3>2, <3>4, <3>5
  <2> QED
    BY <2>1, <2>2 DEF Chain
<1>5. ConsumerInv'
  <2>1. Len(batch) # 1 => batch'[1] = batch[2] /\ batch[2] # Null
    BY <1>2, FreeNodeFacts, NullAssumption
  <2> QED
    BY <1>1, <2>1, FreeNodeFacts DEF ConsumerInv
<1> QED
  BY <1>3, <1>4, <1>5

(* The freed node was in no list, and nobody's new node.                    *)
LEMMA FreeNodeInv == ASSUME QueueInv, FreeNode PROVE QueueInv'
<1> USE DEF QueueInv
<1>1. WalkInv
  BY DEF WalkInv, ListInv
<1>2. WalkInv'
  BY <1>1, FreeNodeWalk
<1>3. linked \in Seq(Nodes) /\ Len(linked) \in Nat
  BY LengthFacts DEF QueueTypeOK
<1>4. /\ Elements(batch)' \subseteq Elements(batch) \ {node}
      /\ Elements(linked)' = Elements(linked) /\ node \notin Elements(linked) /\ node # head
  <2>1. Elements(linked)' = Elements(linked)
    BY <1>1, FreeNodeFacts DEF Elements
  <2>2. Elements(batch)' \subseteq Elements(batch) \ {node}
    BY <1>1, FreeNodeFacts DEF Elements
  <2>3. node \notin Elements(linked) /\ node # head
    BY <1>1, FreeNodeFacts DEF ListInv
  <2> QED
    BY <2>1, <2>2, <2>3
<1>5. \A i \in 1..Len(linked) : linked[i] # node
  BY <1>4 DEF Elements
<1>6. Chain(linked)'
  BY <1>1, <1>3, <1>5, FreeNodeFacts DEF ListInv, Chain, QueueTypeOK
<1>7. ListInv'
  BY <1>1, <1>2, <1>3, <1>4, <1>6, FreeNodeFacts DEF ListInv, WalkInv, QueueTypeOK
<1>8. ASSUME NEW p \in Producers PROVE Private(p)'
  BY <1>1, <1>4, FreeNodeFacts DEF Private, QueueTypeOK
<1> QED
  BY <1>2, <1>7, <1>8 DEF WalkInv

(* Every step of a producer or the consumer keeps the invariant. *)
LEMMA StepInv == QueueInv /\ [QueueNext]_queueVars => QueueInv'
<1> SUFFICES ASSUME QueueInv, [QueueNext]_queueVars PROVE QueueInv'
  OBVIOUS
<1>1. CASE \E p \in Producers : (\E v \in Values : MakeNode(p, v)) \/ Push(p)
  BY <1>1, MakeNodeInv, PushInv
<1>2. CASE ConsumerStep
  BY <1>2, CallFlushInv, IsEmptyInv, FlushInv, ReadMessageInv, FreeNodeInv DEF ConsumerStep
<1>3. CASE UNCHANGED queueVars
  <2>1. QueueTypeOK' /\ ConsumerInv'
    BY <1>3 DEF queueVars, producerVars, consumerVars, QueueInv, QueueTypeOK, ConsumerInv
  <2>2. ListInv' /\ \A p \in Producers : Private(p)'
    BY <1>3, ListUnchanged DEF queueVars, producerVars, consumerVars
  <2> QED
    BY <2>1, <2>2 DEF QueueInv
<1> QED
  BY <1>1, <1>2, <1>3 DEF QueueNext

-----------------------------------------------------------------------------
(* The theorems *)

(* The list behind the dummy and the batch stay linked, share no node with  *)
(* each other nor with the nodes not linked yet, and m_tail is the end.     *)
THEOREM QueueInvariant == QueueSpec => []QueueInv
<1>1. QueueInit => QueueInv
  BY InitInv
<1> QED
  BY <1>1, StepInv, PTL DEF QueueSpec

(* The batch, the list and the nodes in the hands of a producer are apart. *)
LEMMA NoUseOfFreedNodes == QueueInv => NoUseAfterFree
<1> SUFFICES ASSUME QueueInv PROVE NoUseAfterFree
  OBVIOUS
<1>1. tail \in allocated \ Elements(batch)
  <2>1. CASE linked = <<>>
    BY <2>1 DEF QueueInv, ListInv
  <2>2. CASE linked # <<>>
    <3>1. Len(linked) \in 1..Len(linked)
      BY <2>2, LengthFacts DEF QueueInv, QueueTypeOK
    <3>2. tail \in Elements(linked) /\ tail \in allocated
      BY <2>2, <3>1 DEF QueueInv, ListInv, Chain, Elements
    <3> QED
      BY <3>2 DEF QueueInv, ListInv
  <2> QED
    BY <2>1, <2>2
<1>2. ASSUME NEW p \in Producers, pushpc[p] = "push"
      PROVE  {tail, newNode[p]} \subseteq allocated \ Elements(batch)
  BY <1>1, <1>2 DEF QueueInv, Private
<1>3. flushpc \in {"walk", "free"} => node \in allocated
  <2>1. batch # <<>> => 1 \in 1..Len(batch)
    BY LengthFacts DEF QueueInv, QueueTypeOK
  <2> QED
    BY <2>1 DEF QueueInv, ConsumerInv, ListInv, Chain
<1>4. head \in allocated
  BY DEF QueueInv, ListInv
<1> QED
  BY <1>2, <1>3, <1>4 DEF NoUseAfterFree

(* push writes to, and the consumer reads and frees, nodes that exist, and  *)
(* never the same node at once, although the consumer has no mutex then.    *)
THEOREM FreedNodesUntouched == QueueSpec => []NoUseAfterFree
  BY NoUseOfFreedNodes, QueueInvariant, PTL

(* The condition variable of flush is never waited on: what isEmpty saw is  *)
(* still there, as the consumer is the only one who takes.                  *)
THEOREM FlushNeverWaits == QueueSpec => []FlushFindsData
<1>1. QueueInv => FlushFindsData
  <2> SUFFICES ASSUME QueueInv, flushpc = "wait" PROVE next[head] # Null
    BY DEF FlushFindsData
  <2>1. linked # <<>> /\ linked \in Seq(Nodes) /\ next[head] = linked[1]
    BY DEF QueueInv, ConsumerInv, ListInv, QueueTypeOK
  <2>2. linked[1] \in Nodes
    BY <2>1, LengthFacts
  <2> QED
    BY <2>1, <2>2, NullAssumption
<1> QED
  BY <1>1, QueueInvariant, PTL

-----------------------------------------------------------------------------
(* The refinement *)

(* What the queue's contents rest on: the walk, and that the linked nodes   *)
(* hold values and are not those of the batch.  The destructor keeps it.    *)
ContentsInv ==
    /\ WalkInv
    /\ \A i \in 1..Len(linked) :
          data[linked[i]] \in Values /\ linked[i] \notin Elements(batch)

(* While the queue exists this is a part of its invariant. *)
LEMMA QueueHasContents == (QueueInv => ContentsInv) /\ (QueueInv' => ContentsInv')
  BY DEF QueueInv, ListInv, WalkInv, ContentsInv, Chain, Elements

(* What the consumer has not read yet, then what is linked: the queue.      *)
LEMMA ContentsFacts ==
    ASSUME ContentsInv
    PROVE  /\ Unread \in Seq(Nodes) /\ linked \in Seq(Nodes)
           /\ Len(Unread) \in Nat /\ Len(linked) \in Nat
           /\ \A i \in 1..Len(Unread) :
                 Unread[i] \in allocated /\ data[Unread[i]] \in Values
           /\ \A i \in 1..Len(linked) : data[linked[i]] \in Values
           /\ Contents \in Seq(Values)
           /\ Len(Contents) = Len(Unread) + Len(linked)
           /\ \A i \in 1..(Len(Unread) + Len(linked)) : Contents[i] =
                 data[IF i <= Len(Unread) THEN Unread[i] ELSE linked[i - Len(Unread)]]
<1>1. linked \in Seq(Nodes) /\ batch \in Seq(Nodes)
  BY DEF ContentsInv, WalkInv, QueueTypeOK
<1>2. flushpc = "free" => batch # <<>>
  BY DEF ContentsInv, WalkInv, ConsumerInv
<1>3. \A i \in 1..Len(batch) : batch[i] \in allocated /\ data[batch[i]] \in Values
  BY DEF ContentsInv, WalkInv, Chain
<1>4. \A i \in 1..Len(linked) : data[linked[i]] \in Values
  BY DEF ContentsInv
<1>5. /\ Unread \in Seq(Nodes)
      /\ \A i \in 1..Len(Unread) : Unread[i] \in allocated /\ data[Unread[i]] \in Values
  <2>1. CASE flushpc = "free"
    <3>1. /\ Unread = Tail(batch) /\ Unread \in Seq(Nodes) /\ Len(Unread) = Len(batch) - 1
          /\ \A i \in 1..(Len(batch) - 1) : Unread[i] = batch[i + 1]
      BY <1>1, <1>2, <2>1, TailFacts DEF Unread
    <3>2. \A i \in 1..(Len(batch) - 1) : i + 1 \in 1..Len(batch)
      BY <1>1, LengthFacts
    <3> QED
      BY <1>3, <3>1, <3>2
  <2>2. CASE flushpc # "free"
    BY <1>1, <1>3, <2>2 DEF Unread
  <2> QED
    BY <2>1, <2>2
<1>6. Len(Unread) \in Nat /\ Len(linked) \in Nat
  BY <1>1, <1>5, LengthFacts
<1>7. \A i \in 1..(Len(Unread) + Len(linked)) :
         data[IF i <= Len(Unread) THEN Unread[i] ELSE linked[i - Len(Unread)]] \in Values
  BY <1>4, <1>5, <1>6
<1>8. Len(Unread) + Len(linked) \in Nat
  BY <1>6
<1> QED
  BY <1>1, <1>4, <1>5, <1>6, <1>7, <1>8 DEF Contents

(* Linking a node puts its value into the queue.                            *)
LEMMA PushPushes ==
    ASSUME QueueInv, NEW p \in Producers, Push(p)
    PROVE  FIFO!Push
<1>1. /\ newNode[p] \in Nodes /\ data[newNode[p]] \in Values
      /\ linked' = Append(linked, newNode[p]) /\ data' = data
      /\ sent' = Append(sent, data[newNode[p]])
      /\ UNCHANGED <<flushpc, batch, received>>
  BY DEF Push, QueueInv, Private, QueueTypeOK, consumerVars
<1>2. /\ Unread \in Seq(Nodes) /\ linked \in Seq(Nodes)
      /\ Len(Unread) \in Nat /\ Len(linked) \in Nat
      /\ Contents \in Seq(Values)
      /\ Len(Contents) = Len(Unread) + Len(linked)
      /\ \A i \in 1..(Len(Unread) + Len(linked)) : Contents[i] =
            data[IF i <= Len(Unread) THEN Unread[i] ELSE linked[i - Len(Unread)]]
  BY ContentsFacts, QueueHasContents
<1>3. /\ Len(linked') = Len(linked) + 1
      /\ \A i \in 1..Len(linked) : linked'[i] = linked[i]
      /\ linked'[Len(linked) + 1] = newNode[p]
  BY <1>1, <1>2, AppendFacts
<1>4. Unread' = Unread
  BY <1>1 DEF Unread
<1>5. Contents' = [i \in 1..(Len(Unread) + Len(linked) + 1) |->
                     data[IF i <= Len(Unread) THEN Unread[i] ELSE linked'[i - Len(Unread)]]]
  <2>1. Contents' = [i \in 1..(Len(Unread) + Len(linked')) |->
                       data[IF i <= Len(Unread) THEN Unread[i] ELSE linked'[i - Len(Unread)]]]
    BY <1>1, <1>4 DEF Contents
  <2>2. Len(Unread) + Len(linked') = Len(Unread) + Len(linked) + 1
    BY <1>2, <1>3
  <2> QED
    BY <2>1, <2>2
<1>6. Contents' = Append(Contents, data[newNode[p]])
  <2> DEFINE old == Len(Unread) + Len(linked)
  <2>1. ASSUME NEW i \in 1..old PROVE Contents'[i] = Contents[i]
    <3>1. i \in 1..(old + 1) /\ (i > Len(Unread) => i - Len(Unread) \in 1..Len(linked))
      BY <1>2
    <3>2. Contents'[i] = data[IF i <= Len(Unread) THEN Unread[i] ELSE linked'[i - Len(Unread)]]
      BY <1>5, <3>1
    <3> QED
      BY <1>2, <1>3, <3>1, <3>2
  <2>2. Contents'[old + 1] = data[newNode[p]]
    BY <1>2, <1>3, <1>5
  <2>3. Append(Contents, data[newNode[p]]) \in Seq(Values)
    BY <1>1, <1>2, AppendFacts
  <2>4. Contents' \in Seq(Values) /\ Len(Contents') = old + 1
    <3>1. ASSUME NEW i \in 1..(old + 1) PROVE Contents'[i] \in Values
      <4>1. i \in 1..old \/ i = old + 1
        BY <1>2
      <4>2. \A j \in 1..old : Contents[j] \in Values
        BY <1>2
      <4> QED
        BY <1>1, <2>1, <2>2, <4>1, <4>2
    <3>2. old + 1 \in Nat
      BY <1>2
    <3> QED
      BY <1>5, <3>1, <3>2
  <2>5. /\ old \in Nat /\ Len(Append(Contents, data[newNode[p]])) = old + 1
        /\ \A i \in 1..old : Append(Contents, data[newNode[p]])[i] = Contents[i]
        /\ Append(Contents, data[newNode[p]])[old + 1] = data[newNode[p]]
    <3>1. old \in Nat /\ Len(Contents) = old
      BY <1>2
    <3>2. Contents \in Seq(Values) /\ data[newNode[p]] \in Values
      BY <1>1, <1>2
    <3> HIDE DEF old
    <3> QED
      BY <3>1, <3>2, AppendFacts
  <2> HIDE DEF old
  <2>6. \A i \in 1..(old + 1) : Contents'[i] = Append(Contents, data[newNode[p]])[i]
    <3>1. \A i \in 1..(old + 1) : i \in 1..old \/ i = old + 1
      BY <2>5
    <3> QED
      BY <2>1, <2>2, <2>5, <3>1
  <2> QED
    BY <2>3, <2>4, <2>5, <2>6, SeqEqual
<1>7. Len(Contents) + 1 \in Nat
  BY <1>2
<1> QED
  BY <1>1, <1>6, <1>7 DEF FIFO!Push

(* Reading the first node of the batch takes the oldest value out.          *)
LEMMA ReadMessagePops ==
    ASSUME ContentsInv, ReadMessage
    PROVE  FIFO!Pop
<1>1. /\ flushpc = "walk" /\ flushpc' = "free"
      /\ received' = Append(received, data[node])
      /\ UNCHANGED <<batch, linked, data, sent>>
  BY DEF ReadMessage, producerVars
<1>2. batch # <<>> /\ node = batch[1] /\ batch \in Seq(Nodes)
  BY <1>1 DEF ContentsInv, WalkInv, ConsumerInv, QueueTypeOK
<1>3. Unread = batch /\ Unread' = Tail(batch)
  BY <1>1 DEF Unread
<1>4. /\ Len(batch) \in Nat /\ Len(batch) > 0 /\ Len(linked) \in Nat
      /\ Contents \in Seq(Values)
      /\ Len(Contents) = Len(batch) + Len(linked)
      /\ \A i \in 1..(Len(batch) + Len(linked)) : Contents[i] =
            data[IF i <= Len(batch) THEN batch[i] ELSE linked[i - Len(batch)]]
  BY <1>2, <1>3, ContentsFacts, LengthFacts
<1>5. /\ Len(Tail(batch)) = Len(batch) - 1
      /\ \A i \in 1..(Len(batch) - 1) : Tail(batch)[i] = batch[i + 1]
  BY <1>2, TailFacts
<1>6. Contents # <<>> /\ Head(Contents) = data[node]
  <2>1. 1 \in 1..(Len(batch) + Len(linked)) /\ 1 <= Len(batch)
    BY <1>4
  <2>2. Contents[1] = data[batch[1]]
    BY <1>4, <2>1
  <2> QED
    BY <1>2, <1>4, <2>1, <2>2
<1>7. Contents' = Tail(Contents)
  <2> DEFINE size == Len(batch) - 1 + Len(linked)
  <2>1. Contents' = [i \in 1..size |->
            data[IF i <= Len(batch) - 1 THEN Tail(batch)[i] ELSE linked[i - (Len(batch) - 1)]]]
    BY <1>1, <1>3, <1>5 DEF Contents
  <2>2. /\ Tail(Contents) \in Seq(Values) /\ Len(Tail(Contents)) = size
        /\ \A i \in 1..size : Tail(Contents)[i] = Contents[i + 1]
    BY <1>4, <1>6, TailFacts
  <2>3. ASSUME NEW i \in 1..size PROVE Contents'[i] = Contents[i + 1]
    <3>1. /\ i + 1 \in 1..(Len(batch) + Len(linked))
          /\ i <= Len(batch) - 1 <=> i + 1 <= Len(batch)
          /\ i - (Len(batch) - 1) = i + 1 - Len(batch)
          /\ i <= Len(batch) - 1 => i \in 1..(Len(batch) - 1)
      BY <1>4
    <3>2. Contents'[i] =
            data[IF i <= Len(batch) - 1 THEN Tail(batch)[i] ELSE linked[i - (Len(batch) - 1)]]
      BY <2>1
    <3>3. Contents[i + 1] =
            data[IF i + 1 <= Len(batch) THEN batch[i + 1] ELSE linked[i + 1 - Len(batch)]]
      BY <1>4, <3>1
    <3> QED
      BY <1>5, <3>1, <3>2, <3>3
  <2>4. Contents' \in Seq(Values) /\ Len(Contents') = size
    <3>1. \A i \in 1..size : Contents'[i] \in Values
      <4>1. \A i \in 1..size : i + 1 \in 1..Len(Contents)
        BY <1>4
      <4> QED
        BY <1>4, <2>3, <4>1, LengthFacts
    <3>2. size \in Nat
      BY <1>4
    <3> QED
      BY <2>1, <3>1, <3>2
  <2> QED
    BY <2>2, <2>3, <2>4, SeqEqual
<1> QED
  BY <1>1, <1>6, <1>7 DEF FIFO!Pop

(* The contents are the same when the nodes in the queue are, and their data. *)
LEMMA ContentsUnchanged ==
    ASSUME ContentsInv, UNCHANGED <<linked, sent, received>>, Unread' = Unread,
           \A i \in 1..Len(Unread) : data'[Unread[i]] = data[Unread[i]],
           \A i \in 1..Len(linked) : data'[linked[i]] = data[linked[i]]
    PROVE  UNCHANGED <<Contents, sent, received>>
<1>1. /\ \A i \in 1..(Len(Unread) + Len(linked)) :
            i > Len(Unread) => i - Len(Unread) \in 1..Len(linked)
      /\ \A i \in 1..(Len(Unread) + Len(linked)) :
            i <= Len(Unread) => i \in 1..Len(Unread)
      /\ Len(Unread) \in Nat
  BY ContentsFacts
<1>2. Contents' = [i \in 1..(Len(Unread) + Len(linked)) |->
                     data'[IF i <= Len(Unread) THEN Unread[i] ELSE linked[i - Len(Unread)]]]
  BY DEF Contents
<1>3. ASSUME NEW i \in 1..(Len(Unread) + Len(linked))
      PROVE  data'[IF i <= Len(Unread) THEN Unread[i] ELSE linked[i - Len(Unread)]]
           = data[IF i <= Len(Unread) THEN Unread[i] ELSE linked[i - Len(Unread)]]
  BY <1>1
<1> QED
  BY <1>2, <1>3 DEF Contents

(* The node that is freed is the one that was read, and nowhere in the queue. *)
LEMMA FreeNodeStutters ==
    ASSUME ContentsInv, FreeNode
    PROVE  ContentsInv' /\ UNCHANGED <<Contents, sent, received>>
<1>1. /\ flushpc = "free" /\ flushpc' # "free" /\ batch' = Tail(batch)
      /\ data' = [data EXCEPT ![node] = Null]
      /\ UNCHANGED <<linked, sent, received>>
  BY DEF FreeNode, producerVars
<1>2. Unread = Tail(batch) /\ Unread' = Unread
  BY <1>1 DEF Unread
<1>3. /\ batch \in Seq(Nodes) /\ batch # <<>> /\ node = batch[1] /\ 1 \in 1..Len(batch)
      /\ node \in Nodes /\ linked \in Seq(Nodes)
  BY <1>1, LengthFacts DEF ContentsInv, WalkInv, ConsumerInv, QueueTypeOK
<1>4. /\ Len(Unread) = Len(batch) - 1
      /\ \A i \in 1..(Len(batch) - 1) :
            Unread[i] = batch[i + 1] /\ i + 1 \in 1..Len(batch) /\ i + 1 # 1
  BY <1>2, <1>3, TailFacts, LengthFacts
<1>5. \A i \in 1..Len(linked) : linked[i] # node
  BY <1>3 DEF ContentsInv, Elements
<1>6. \A i \in 1..Len(Unread) : Unread[i] # node
  BY <1>3, <1>4 DEF ContentsInv, WalkInv, Chain
<1>7. \A a \in Nodes : a # node => data'[a] = data[a]
  BY <1>1 DEF ContentsInv, WalkInv, QueueTypeOK
<1>8. \A i \in 1..Len(linked) : data'[linked[i]] = data[linked[i]]
  BY <1>3, <1>5, <1>7, LengthFacts
<1>9. UNCHANGED <<Contents, sent, received>>
  BY <1>1, <1>2, <1>6, <1>7, <1>8, ContentsFacts, ContentsUnchanged, LengthFacts
<1>10. Elements(batch)' \subseteq Elements(batch)
  BY <1>1, <1>2, <1>4 DEF Elements
<1>11. WalkInv'
  BY FreeNodeWalk DEF ContentsInv
<1> QED
  BY <1>1, <1>8, <1>9, <1>10, <1>11 DEF ContentsInv

(* Taking the list as the batch moves no value; allocating a node changes   *)
(* only data that is not in the queue.                                      *)
LEMMA OtherStepsStutter ==
    ASSUME QueueInv, [QueueNext]_queueVars, \A p \in Producers : ~Push(p), ~ReadMessage
    PROVE  UNCHANGED <<Contents, sent, received>>
<1> ContentsInv
  BY QueueHasContents
<1>1. /\ Len(Unread) \in Nat /\ Len(linked) \in Nat
      /\ \A i \in 1..Len(Unread) : Unread[i] \in allocated
      /\ \A i \in 1..Len(linked) : linked[i] \in allocated
  BY ContentsFacts DEF QueueInv, ListInv, Chain
<1>2. CASE \E p \in Producers, v \in Values : MakeNode(p, v)
  <2>1. PICK p \in Producers, v \in Values : MakeNode(p, v)
    BY <1>2
  <2>2. PICK n \in Nodes \ allocated : data' = [data EXCEPT ![n] = v]
    BY <2>1 DEF MakeNode
  <2>3. UNCHANGED <<linked, sent, received>> /\ Unread' = Unread
    BY <2>1 DEF MakeNode, consumerVars, Unread
  <2>4. \A a \in allocated : data'[a] = data[a]
    BY <2>2 DEF QueueInv, QueueTypeOK
  <2> QED
    BY <1>1, <2>3, <2>4, ContentsUnchanged
<1>3. CASE CallFlush \/ IsEmpty \/ UNCHANGED queueVars
  <2>1. UNCHANGED <<linked, data, sent, received>> /\ Unread' = Unread
    BY <1>3 DEF CallFlush, IsEmpty, queueVars, producerVars, consumerVars, Unread
  <2> QED
    BY <2>1, ContentsUnchanged
<1>4. CASE Flush
  <2>1. /\ flushpc = "wait" /\ flushpc' = "walk" /\ batch' = linked /\ linked' = <<>>
        /\ UNCHANGED <<data, sent, received>>
    BY <1>4 DEF Flush, producerVars
  <2>2. Unread = <<>> /\ Unread' = linked
    BY <2>1 DEF Unread, QueueInv, ConsumerInv
  <2>3. Contents = [i \in 1..Len(linked) |-> data[linked[i]]]
    <3>1. Contents = [i \in 1..(0 + Len(linked)) |-> data[IF i <= 0 THEN <<>>[i] ELSE linked[i - 0]]]
      BY <2>2 DEF Contents
    <3>2. 0 + Len(linked) = Len(linked) /\ \A i \in 1..Len(linked) : ~(i <= 0) /\ i - 0 = i
      BY <1>1
    <3> QED
      BY <3>1, <3>2
  <2>4. Contents' = [i \in 1..Len(linked) |-> data[linked[i]]]
    <3>1. Contents' = [i \in 1..(Len(linked) + 0) |->
                         data[IF i <= Len(linked) THEN linked[i] ELSE <<>>[i - Len(linked)]]]
      BY <2>1, <2>2 DEF Contents
    <3>2. Len(linked) + 0 = Len(linked) /\ \A i \in 1..Len(linked) : i <= Len(linked)
      BY <1>1
    <3> QED
      BY <3>1, <3>2
  <2> QED
    BY <2>1, <2>3, <2>4
<1>5. CASE FreeNode
  BY <1>5, FreeNodeStutters
<1> QED
  BY <1>2, <1>3, <1>4, <1>5 DEF QueueNext, ConsumerStep

(* Every step of the queue is a push, a pop or nothing of the FIFO. *)
LEMMA QueueStepIsFIFO == QueueInv /\ [QueueNext]_queueVars => [FIFO!Next]_(FIFO!fifoVars)
<1> SUFFICES ASSUME QueueInv, [QueueNext]_queueVars
             PROVE  [FIFO!Next]_(FIFO!fifoVars)
  OBVIOUS
<1>1. CASE \E p \in Producers : Push(p)
  BY <1>1, PushPushes DEF FIFO!Next
<1>2. CASE ReadMessage
  BY <1>2, ReadMessagePops, QueueHasContents DEF FIFO!Next
<1>3. CASE (\A p \in Producers : ~Push(p)) /\ ~ReadMessage
  <2>1. UNCHANGED <<Contents, sent, received>>
    BY <1>3, OtherStepsStutter
  <2> QED
    BY <2>1 DEF FIFO!fifoVars
<1> QED
  BY <1>1, <1>2, <1>3

(* QueueMPSC implements a first in, first out queue without a limit: what   *)
(* the dispatcher reads is what the sessions linked, in that order, once.   *)
THEOREM QueueImplementsFIFO == QueueSpec => ImplementsFIFO
<1>1. QueueInit => FIFO!Init
  BY DEF QueueInit, FIFO!Init, Contents, Unread
<1> QED
  BY <1>1, QueueStepIsFIFO, QueueInvariant, PTL DEF QueueSpec, ImplementsFIFO, FIFO!Spec
=============================================================================
