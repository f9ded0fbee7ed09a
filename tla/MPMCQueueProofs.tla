--------------------------- MODULE MPMCQueueProofs ---------------------------
(***************************************************************************)
(* Theorems about MPMCQueue, for any numbers of enqueuers, dequeuers,      *)
(* nodes and values: QueueInv is inductive, no freed node is touched, and  *)
(* the list implements a FIFO without a limit.                             *)
(***************************************************************************)
EXTENDS MPMCQueue, SequenceTheorems, TLAPS

(* What appending a node and unlinking the dummy make of the list.          *)
LEMMA AppendFacts ==
    ASSUME NEW S, NEW s \in Seq(S), NEW x \in S
    PROVE  /\ Append(s, x) \in Seq(S)
           /\ Append(s, x) # <<>>
           /\ Len(Append(s, x)) = Len(s) + 1
           /\ \A i \in 1..Len(s) : Append(s, x)[i] = s[i]
           /\ Append(s, x)[Len(s) + 1] = x
  OBVIOUS

(* What is left of a sequence of two or more without its head. *)
LEMMA TailFacts ==
    ASSUME NEW S, NEW s \in Seq(S), Len(s) > 1
    PROVE  /\ Tail(s) \in Seq(S)
           /\ Tail(s) # <<>>
           /\ Len(Tail(s)) = Len(s) - 1
           /\ \A i \in 1..(Len(s) - 1) : Tail(s)[i] = s[i + 1]
<1>1. s # <<>>
  OBVIOUS
<1>2. /\ Tail(s) \in Seq(S) /\ Len(Tail(s)) = Len(s) - 1
      /\ \A i \in 1..(Len(s) - 1) : Tail(s)[i] = s[i + 1]
  BY <1>1, HeadTailProperties
<1>3. Tail(s) # <<>>
  <2>1. Len(Tail(s)) # 0
    BY <1>2
  <2>2. Len(<<>>) = 0
    BY EmptySeq
  <2> QED
    BY <2>1, <2>2, Zenon
<1> QED
  BY <1>2, <1>3

(* The constructor establishes the invariant.                               *)
LEMMA InitInv == ASSUME Init PROVE QueueInv
  BY NullAssumption
  DEF Init, QueueInv, TypeOK, ListLinked, Private, TailHeld, HeadHeld, Unlinked

-----------------------------------------------------------------------------
(* The enqueuer's steps *)

(* The new node is at an address nobody uses: not linked, not private to    *)
(* another enqueuer, not waiting to be freed.                               *)
LEMMA MakeNodeInv ==
    ASSUME QueueInv, NEW e \in Enqueuers, NEW v \in Values, MakeNode(e, v)
    PROVE  QueueInv'
<1> USE DEF QueueInv
<1>1. PICK n \in Nodes \ allocated :
        /\ allocated' = allocated \cup {n}
        /\ next' = [next EXCEPT ![n] = Null]
        /\ data' = [data EXCEPT ![n] = v]
        /\ newNode' = [newNode EXCEPT ![e] = n]
  BY DEF MakeNode
<1>2. /\ epc[e] = "idle" /\ epc' = [epc EXCEPT ![e] = "lock"]
      /\ UNCHANGED <<tail, tailMutex, list, head, headMutex, dpc, currentHead, newHead, result>>
  BY DEF MakeNode, dequeuerVars
<1>3. TypeOK'
  BY <1>1 DEF MakeNode, TypeOK, dequeuerVars
<1>4. \A i \in 1..Len(list) : list[i] \in Nodes /\ list[i] # n
  BY DEF ListLinked, TypeOK
<1>5. ListLinked'
  BY <1>1, <1>2, <1>4 DEF ListLinked, TypeOK
<1>6. Linked' = Linked /\ n \notin Linked
  BY <1>2, <1>4 DEF Linked
<1>7. ASSUME NEW f \in Enqueuers PROVE Private(f)' /\ TailHeld(f)'
  BY <1>1, <1>2, <1>6 DEF Private, TailHeld, Unlinked, TypeOK
<1>8. ASSUME NEW d \in Dequeuers PROVE HeadHeld(d)' /\ Unlinked(d)'
  <2>1. Unlinked(d)'
    BY <1>1, <1>2, <1>6 DEF Unlinked
  <2>2. HeadHeld(d)'
    BY <1>1, <1>2, <1>4 DEF HeadHeld, TypeOK
  <2> QED
    BY <2>1, <2>2
<1> QED
  BY <1>2, <1>3, <1>5, <1>7, <1>8

(* Whoever takes the free mutex finds m_tail at the end of the list.        *)
LEMMA LockTailInv ==
    ASSUME QueueInv, NEW e \in Enqueuers, LockTail(e)
    PROVE  QueueInv'
<1> USE DEF QueueInv
<1>1. /\ epc[e] = "lock" /\ tailMutex = Null
      /\ tailMutex' = e /\ epc' = [epc EXCEPT ![e] = "link"]
      /\ UNCHANGED <<allocated, next, data, tail, newNode, list, sent, head, headMutex, dpc,
                     currentHead, newHead, result, received>>
  BY DEF LockTail, dequeuerVars
<1>2. TypeOK'
  BY <1>1 DEF TypeOK
<1>3. ListLinked' /\ Linked' = Linked
  BY <1>1 DEF ListLinked, Linked
<1>4. ASSUME NEW f \in Enqueuers PROVE Private(f)' /\ TailHeld(f)'
  BY <1>1, <1>3, NullAssumption DEF Private, TailHeld, TypeOK
<1>5. ASSUME NEW d \in Dequeuers PROVE HeadHeld(d)' /\ Unlinked(d)'
  BY <1>1, <1>3 DEF HeadHeld, Unlinked
<1> QED
  BY <1>1, <1>2, <1>3, <1>4, <1>5, NullAssumption

(* Linking appends the private node: m_tail is the end of the list, so the  *)
(* write hits a node that exists, and cannot cut the list.                  *)
LEMMA LinkInv ==
    ASSUME QueueInv, NEW e \in Enqueuers, Link(e)
    PROVE  QueueInv'
<1> USE DEF QueueInv
<1> DEFINE n == newNode[e]
<1>1. /\ epc[e] = "link" /\ epc' = [epc EXCEPT ![e] = "swing"]
      /\ next' = [next EXCEPT ![tail] = n] /\ list' = Append(list, n)
      /\ sent' = Append(sent, data[n])
      /\ UNCHANGED <<allocated, data, tail, tailMutex, newNode, head, headMutex, dpc,
                     currentHead, newHead, result, received>>
  BY DEF Link, dequeuerVars
<1>2. /\ n \in allocated \ Linked /\ n \in Nodes /\ next[n] = Null /\ data[n] \in Values
      /\ tail = list[Len(list)] /\ list \in Seq(Nodes) /\ Len(list) \in Nat /\ Len(list) > 0
      /\ tailMutex = e
  BY <1>1 DEF Private, TailHeld, ListLinked, TypeOK
<1>3. /\ list' \in Seq(Nodes) /\ list' # <<>> /\ Len(list') = Len(list) + 1
      /\ \A i \in 1..Len(list) : list'[i] = list[i]
      /\ list'[Len(list) + 1] = n
  BY <1>1, <1>2, AppendFacts
<1>4. TypeOK'
  <2>1. sent' \in Seq(Values)
    BY <1>1, <1>2, AppendFacts DEF TypeOK
  <2> QED
    BY <1>1, <1>2, <1>3, <2>1 DEF TypeOK
<1>5. Linked' = Linked \cup {n}
  BY <1>2, <1>3 DEF Linked
<1>6. \A i \in 1..Len(list) : list[i] # n
  BY <1>2 DEF Linked
<1>7. ListLinked'
  <2>1. head' = list'[1]
    BY <1>1, <1>2, <1>3 DEF ListLinked
  <2>2. next'[list'[Len(list')]] = Null
    BY <1>1, <1>2, <1>3, <1>6 DEF TypeOK
  <2>3. ASSUME NEW i \in 1..Len(list')
        PROVE  /\ list'[i] \in allocated'
               /\ i < Len(list') => next'[list'[i]] = list'[i + 1]
               /\ i > 1 => data'[list'[i]] \in Values
    <3>1. CASE i < Len(list)
      <4>1. /\ i \in 1..Len(list) /\ i + 1 \in 1..Len(list)
            /\ list'[i] = list[i] /\ list'[i + 1] = list[i + 1]
        BY <1>2, <1>3, <3>1
      <4>2. /\ list[i] \in allocated /\ next[list[i]] = list[i + 1]
            /\ i > 1 => data[list[i]] \in Values
        BY <3>1, <4>1 DEF ListLinked
      <4>3. list[i] # tail
        BY <1>2, <3>1, <4>1 DEF ListLinked
      <4> QED
        BY <1>1, <4>1, <4>2, <4>3
    <3>2. CASE i = Len(list)
      <4>1. i \in 1..Len(list) /\ list'[i] = tail /\ list'[i + 1] = n
        BY <1>2, <1>3, <3>2
      <4>2. tail \in allocated /\ (i > 1 => data[tail] \in Values)
        BY <1>2, <3>2, <4>1 DEF ListLinked
      <4>3. tail \in DOMAIN next
        BY <1>2 DEF TypeOK
      <4> QED
        BY <1>1, <4>1, <4>2, <4>3
    <3>3. CASE i = Len(list) + 1
      <4>1. list'[i] = n /\ ~(i < Len(list'))
        BY <1>2, <1>3, <3>3
      <4> QED
        BY <1>1, <1>2, <4>1
    <3>4. i < Len(list) \/ i = Len(list) \/ i = Len(list) + 1
      BY <1>2, <1>3
    <3> QED
      BY <3>1, <3>2, <3>3, <3>4
  <2>4. ASSUME NEW i \in 1..Len(list'), NEW j \in 1..Len(list'), list'[i] = list'[j]
        PROVE  i = j
    BY <1>2, <1>3, <1>6, <2>4 DEF ListLinked
  <2> QED
    BY <1>3, <2>1, <2>2, <2>3, <2>4 DEF ListLinked
<1>8. ASSUME NEW f \in Enqueuers PROVE Private(f)' /\ TailHeld(f)'
  <2>1. TailHeld(f)'
    BY <1>1, <1>2, <1>3 DEF TailHeld, TypeOK
  <2>2. Private(f)'
    <3>1. tail \in Linked
      BY <1>2 DEF Linked
    <3> QED
      BY <1>1, <1>2, <1>5, <3>1 DEF Private, TypeOK
  <2> QED
    BY <2>1, <2>2
<1>9. ASSUME NEW d \in Dequeuers PROVE HeadHeld(d)' /\ Unlinked(d)'
  <2>1. HeadHeld(d)'
    BY <1>1, <1>2, <1>3 DEF HeadHeld
  <2>2. Unlinked(d)'
    BY <1>1, <1>2, <1>5 DEF Unlinked, Private
  <2> QED
    BY <2>1, <2>2
<1> QED
  BY <1>1, <1>2, <1>4, <1>7, <1>8, <1>9, NullAssumption

(* m_tail is at the end of the list again before the mutex is free.         *)
LEMMA SwingTailInv ==
    ASSUME QueueInv, NEW e \in Enqueuers, SwingTail(e)
    PROVE  QueueInv'
<1> USE DEF QueueInv
<1>1. /\ epc[e] = "swing" /\ epc' = [epc EXCEPT ![e] = "idle"]
      /\ tail' = newNode[e] /\ tailMutex' = Null
      /\ UNCHANGED <<allocated, next, data, newNode, list, sent, head, headMutex, dpc,
                     currentHead, newHead, result, received>>
  BY DEF SwingTail, dequeuerVars
<1>2. /\ tailMutex = e /\ newNode[e] = list[Len(list)] /\ newNode[e] \in Nodes
      /\ \A f \in Enqueuers \ {e} : epc[f] \notin {"link", "swing"}
  BY <1>1 DEF TailHeld, ListLinked, TypeOK
<1>3. TypeOK'
  BY <1>1, <1>2 DEF TypeOK
<1>4. ListLinked' /\ Linked' = Linked
  BY <1>1 DEF ListLinked, Linked
<1>5. ASSUME NEW f \in Enqueuers PROVE Private(f)' /\ TailHeld(f)'
  BY <1>1, <1>2, <1>4, NullAssumption DEF Private, TailHeld, TypeOK
<1>6. ASSUME NEW d \in Dequeuers PROVE HeadHeld(d)' /\ Unlinked(d)'
  BY <1>1, <1>4 DEF HeadHeld, Unlinked
<1> QED
  BY <1>1, <1>2, <1>3, <1>4, <1>5, <1>6

-----------------------------------------------------------------------------
(* The dequeuer's steps *)

(* The holder of m_headMutex is the only one who moves m_head.              *)
LEMMA LockHeadInv ==
    ASSUME QueueInv, NEW d \in Dequeuers, LockHead(d)
    PROVE  QueueInv'
<1> USE DEF QueueInv
<1>1. /\ dpc[d] = "idle" /\ headMutex = Null /\ headMutex' = d
      /\ currentHead' = [currentHead EXCEPT ![d] = head]
      /\ dpc' = [dpc EXCEPT ![d] = "next"]
      /\ UNCHANGED <<allocated, next, data, head, newHead, result, list, received, tail,
                     tailMutex, epc, newNode, sent>>
  BY DEF LockHead, enqueuerVars
<1>2. TypeOK'
  BY <1>1 DEF TypeOK
<1>3. ListLinked' /\ Linked' = Linked
  BY <1>1 DEF ListLinked, Linked
<1>4. ASSUME NEW e \in Enqueuers PROVE Private(e)' /\ TailHeld(e)'
  BY <1>1, <1>3 DEF Private, TailHeld, TypeOK
<1>5. ASSUME NEW c \in Dequeuers PROVE HeadHeld(c)' /\ Unlinked(c)'
  BY <1>1, <1>3, NullAssumption DEF HeadHeld, Unlinked, TypeOK
<1> QED
  BY <1>1, <1>2, <1>3, <1>4, <1>5

(* The dummy's m_next is null exactly when nothing is linked behind it.     *)
LEMMA ReadNextInv ==
    ASSUME QueueInv, NEW d \in Dequeuers, ReadNext(d)
    PROVE  QueueInv'
<1> USE DEF QueueInv
<1>1. /\ dpc[d] = "next"
      /\ newHead' = [newHead EXCEPT ![d] = next[currentHead[d]]]
      /\ UNCHANGED <<allocated, next, data, head, currentHead, result, list, received, tail,
                     tailMutex, epc, newNode, sent>>
  BY DEF ReadNext, enqueuerVars
<1>2. headMutex = d /\ currentHead[d] = list[1]
  BY <1>1 DEF HeadHeld, ListLinked
<1>3. ListLinked' /\ Linked' = Linked
  BY <1>1 DEF ListLinked, Linked
<1>4. list \in Seq(Nodes) /\ Len(list) \in Nat /\ Len(list) > 0 /\ list[1] \in Nodes
  BY DEF ListLinked, TypeOK
<1>5. CASE next[currentHead[d]] = Null
  <2>1. dpc' = [dpc EXCEPT ![d] = "idle"] /\ headMutex' = Null
    BY <1>1, <1>5 DEF ReadNext, TypeOK
  <2>2. TypeOK'
    BY <1>1, <1>2, <1>4, <2>1 DEF TypeOK
  <2>3. ASSUME NEW e \in Enqueuers PROVE Private(e)' /\ TailHeld(e)'
    BY <1>1, <1>3, <2>1 DEF Private, TailHeld, TypeOK
  <2>4. ASSUME NEW c \in Dequeuers PROVE HeadHeld(c)' /\ Unlinked(c)'
    BY <1>1, <1>2, <1>3, <2>1, NullAssumption DEF HeadHeld, Unlinked, TypeOK
  <2> QED
    BY <1>1, <1>3, <2>2, <2>3, <2>4
<1>6. CASE next[currentHead[d]] # Null
  <2>1. dpc' = [dpc EXCEPT ![d] = "data"] /\ headMutex' = headMutex
    BY <1>1, <1>6 DEF ReadNext, TypeOK
  <2>2. Len(list) > 1 /\ next[list[1]] = list[2]
    BY <1>2, <1>4, <1>6 DEF ListLinked
  <2>3. TypeOK'
    BY <1>1, <1>2, <1>4, <2>1 DEF TypeOK
  <2>4. ASSUME NEW e \in Enqueuers PROVE Private(e)' /\ TailHeld(e)'
    BY <1>1, <1>3, <2>1 DEF Private, TailHeld, TypeOK
  <2>5. ASSUME NEW c \in Dequeuers PROVE HeadHeld(c)' /\ Unlinked(c)'
    BY <1>1, <1>2, <1>3, <2>1, <2>2 DEF HeadHeld, Unlinked, TypeOK
  <2> QED
    BY <1>1, <1>3, <2>3, <2>4, <2>5
<1> QED
  BY <1>5, <1>6

(* The second node is still where the dummy's m_next said.                  *)
LEMMA ReadDataInv ==
    ASSUME QueueInv, NEW d \in Dequeuers, ReadData(d)
    PROVE  QueueInv'
<1> USE DEF QueueInv
<1>1. /\ dpc[d] = "data" /\ dpc' = [dpc EXCEPT ![d] = "advance"]
      /\ result' = [result EXCEPT ![d] = data[newHead[d]]]
      /\ UNCHANGED <<allocated, next, data, head, headMutex, currentHead, newHead, list,
                     received, tail, tailMutex, epc, newNode, sent>>
  BY DEF ReadData, enqueuerVars
<1>2. newHead[d] = list[2] /\ list[2] \in Nodes
  BY <1>1 DEF HeadHeld, TypeOK
<1>3. TypeOK'
  BY <1>1, <1>2 DEF TypeOK
<1>4. ListLinked' /\ Linked' = Linked
  BY <1>1 DEF ListLinked, Linked
<1>5. ASSUME NEW e \in Enqueuers PROVE Private(e)' /\ TailHeld(e)'
  BY <1>1, <1>4 DEF Private, TailHeld, TypeOK
<1>6. ASSUME NEW c \in Dequeuers PROVE HeadHeld(c)' /\ Unlinked(c)'
  BY <1>1, <1>2, <1>4 DEF HeadHeld, Unlinked, TypeOK
<1> QED
  BY <1>1, <1>3, <1>4, <1>5, <1>6

(* The old dummy leaves the list; its address was in it only once, so       *)
(* nothing that stays linked is freed.                                      *)
LEMMA AdvanceHeadInv ==
    ASSUME QueueInv, NEW d \in Dequeuers, AdvanceHead(d)
    PROVE  QueueInv'
<1> USE DEF QueueInv
<1>1. /\ dpc[d] = "advance" /\ dpc' = [dpc EXCEPT ![d] = "free"]
      /\ head' = newHead[d] /\ list' = Tail(list) /\ headMutex' = Null
      /\ received' = Append(received, result[d])
      /\ UNCHANGED <<allocated, next, data, currentHead, newHead, result, tail, tailMutex,
                     epc, newNode, sent>>
  BY DEF AdvanceHead, enqueuerVars
<1>2. /\ headMutex = d /\ currentHead[d] = list[1] /\ newHead[d] = list[2]
      /\ list \in Seq(Nodes) /\ Len(list) \in Nat /\ Len(list) > 1
      /\ result[d] = data[list[2]] /\ result[d] \in Values
  BY <1>1 DEF HeadHeld, ListLinked, TypeOK
<1>3. /\ list' \in Seq(Nodes) /\ list' # <<>> /\ Len(list') = Len(list) - 1
      /\ \A i \in 1..(Len(list) - 1) : list'[i] = list[i + 1]
  BY <1>1, <1>2, TailFacts
<1>4. TypeOK'
  <2>1. received' \in Seq(Values)
    BY <1>1, <1>2, AppendFacts DEF TypeOK
  <2> QED
    BY <1>1, <1>2, <1>3, <2>1 DEF TypeOK
<1>5. Linked' \subseteq Linked /\ list[1] \in Linked /\ list[1] \notin Linked'
  BY <1>2, <1>3 DEF Linked, ListLinked
<1>6. list'[Len(list')] = list[Len(list)]
  BY <1>2, <1>3
<1>7. ListLinked'
  <2>1. head' = list'[1]
    BY <1>1, <1>2, <1>3
  <2>2. next'[list'[Len(list')]] = Null
    BY <1>1, <1>6 DEF ListLinked
  <2>3. ASSUME NEW i \in 1..Len(list')
        PROVE  /\ list'[i] \in allocated'
               /\ i < Len(list') => next'[list'[i]] = list'[i + 1]
               /\ i > 1 => data'[list'[i]] \in Values
    <3>1. /\ i + 1 \in 1..Len(list) /\ i + 1 > 1 /\ list'[i] = list[i + 1]
          /\ i < Len(list') => i + 1 < Len(list) /\ list'[i + 1] = list[(i + 1) + 1]
      BY <1>2, <1>3
    <3>2. /\ list[i + 1] \in allocated /\ data[list[i + 1]] \in Values
          /\ i + 1 < Len(list) => next[list[i + 1]] = list[(i + 1) + 1]
      BY <3>1 DEF ListLinked
    <3> QED
      BY <1>1, <3>1, <3>2
  <2>4. ASSUME NEW i \in 1..Len(list'), NEW j \in 1..Len(list'), list'[i] = list'[j]
        PROVE  i = j
    <3>1. list[i + 1] = list[j + 1] /\ i + 1 \in 1..Len(list) /\ j + 1 \in 1..Len(list)
      BY <1>2, <1>3, <2>4
    <3> QED
      BY <3>1 DEF ListLinked
  <2> QED
    BY <1>3, <2>1, <2>2, <2>3, <2>4 DEF ListLinked
<1>8. ASSUME NEW e \in Enqueuers PROVE Private(e)' /\ TailHeld(e)'
  <2>1. TailHeld(e)'
    BY <1>1, <1>6 DEF TailHeld
  <2>2. Private(e)'
    BY <1>1, <1>2, <1>5 DEF Private, TypeOK
  <2> QED
    BY <2>1, <2>2
<1>9. ASSUME NEW c \in Dequeuers PROVE HeadHeld(c)' /\ Unlinked(c)'
  <2>1. HeadHeld(c)'
    BY <1>1, <1>2, NullAssumption DEF HeadHeld, TypeOK
  <2>2. Unlinked(c)'
    <3>1. currentHead[d] \in allocated
      BY <1>2 DEF ListLinked
    <3> QED
      BY <1>1, <1>2, <1>5, <3>1 DEF Unlinked, TypeOK
  <2> QED
    BY <2>1, <2>2
<1> QED
  BY <1>1, <1>4, <1>6, <1>7, <1>8, <1>9

(* The freed node is nobody else's.                                         *)
LEMMA FreeNodeInv ==
    ASSUME QueueInv, NEW d \in Dequeuers, FreeNode(d)
    PROVE  QueueInv'
<1> USE DEF QueueInv
<1>1. /\ dpc[d] = "free" /\ dpc' = [dpc EXCEPT ![d] = "idle"]
      /\ allocated' = allocated \ {currentHead[d]}
      /\ UNCHANGED <<next, data, head, headMutex, currentHead, newHead, result, list,
                     received, tail, tailMutex, epc, newNode, sent>>
  BY DEF FreeNode, enqueuerVars
<1>2. currentHead[d] \notin Linked
  BY <1>1 DEF Unlinked
<1>3. TypeOK'
  BY <1>1 DEF TypeOK
<1>4. ListLinked' /\ Linked' = Linked
  BY <1>1, <1>2 DEF ListLinked, Linked
<1>5. ASSUME NEW e \in Enqueuers PROVE Private(e)' /\ TailHeld(e)'
  BY <1>1, <1>4 DEF Private, TailHeld, TypeOK
<1>6. ASSUME NEW c \in Dequeuers PROVE HeadHeld(c)' /\ Unlinked(c)'
  BY <1>1, <1>4 DEF HeadHeld, Unlinked, TypeOK
<1> QED
  BY <1>1, <1>3, <1>4, <1>5, <1>6

(* No step of any thread breaks the invariant.                              *)
LEMMA StepInv == QueueInv /\ [Next]_vars => QueueInv'
<1> SUFFICES ASSUME QueueInv, [Next]_vars PROVE QueueInv'
  OBVIOUS
<1>1. CASE \E e \in Enqueuers : (\E v \in Values : MakeNode(e, v)) \/ EnqueueStep(e)
  BY <1>1, MakeNodeInv, LockTailInv, LinkInv, SwingTailInv DEF EnqueueStep
<1>2. CASE \E d \in Dequeuers : DequeueStep(d)
  BY <1>2, LockHeadInv, ReadNextInv, ReadDataInv, AdvanceHeadInv, FreeNodeInv
  DEF DequeueStep
<1>3. CASE UNCHANGED vars
  BY <1>3
  DEF vars, enqueuerVars, dequeuerVars, QueueInv, TypeOK, ListLinked, Private, TailHeld,
      HeadHeld, Unlinked, Linked
<1> QED
  BY <1>1, <1>2, <1>3 DEF Next

-----------------------------------------------------------------------------
(* The theorems *)

(* The list from the dummy to the last linked node stays linked, the nodes  *)
(* in it, the ones not linked yet and the ones about to be freed are all    *)
(* different, and m_tail is the end whenever m_tailMutex is free.           *)
THEOREM QueueInvariant == Spec => []QueueInv
<1>1. Init => QueueInv
  BY InitInv
<1> QED
  BY <1>1, StepInv, PTL DEF Spec

(* Every variable keeps its type; a dequeue that returns true returns a     *)
(* value that was enqueued, never the dummy's uninitialised data.           *)
THEOREM QueueTypes == Spec => []TypeOK
<1>1. QueueInv => TypeOK
  BY DEF QueueInv
<1> QED
  BY <1>1, QueueInvariant, PTL

(* enqueue and dequeue touch only nodes that exist, although dequeuers free *)
(* nodes without m_tailMutex, and no node is freed twice.                   *)
THEOREM FreedNodesUntouched == Spec => []NoUseAfterFree
<1>1. QueueInv => NoUseAfterFree
  <2> SUFFICES ASSUME QueueInv PROVE NoUseAfterFree
    OBVIOUS
  <2> USE DEF QueueInv
  <2>1. \A i \in 1..Len(list) : list[i] \in allocated /\ list[i] \in Linked
    BY DEF ListLinked, Linked
  <2>2. Len(list) \in Nat /\ Len(list) > 0 /\ head = list[1]
    BY DEF ListLinked, TypeOK
  <2>3. ASSUME NEW e \in Enqueuers, epc[e] = "link" PROVE tail \in allocated
    BY <2>1, <2>2, <2>3 DEF TailHeld
  <2>4. ASSUME NEW d \in Dequeuers
        PROVE  /\ dpc[d] \in {"next", "free"} => currentHead[d] \in allocated
               /\ dpc[d] = "data" => newHead[d] \in allocated
    BY <2>1, <2>2 DEF HeadHeld, Unlinked
  <2>5. ASSUME NEW d \in Dequeuers, dpc[d] = "free", NEW c \in Dequeuers \ {d}, dpc[c] # "idle"
        PROVE  currentHead[c] # currentHead[d]
    <3>1. CASE dpc[c] = "free"
      BY <2>5, <3>1 DEF Unlinked
    <3>2. CASE dpc[c] \in {"next", "data", "advance"}
      BY <2>1, <2>2, <2>5, <3>2 DEF HeadHeld, Unlinked
    <3> QED
      BY <2>5, <3>1, <3>2 DEF TypeOK
  <2> QED
    BY <2>3, <2>4, <2>5 DEF NoUseAfterFree
<1> QED
  BY <1>1, QueueInvariant, PTL

(* The values behind the dummy are the abstract queue.                      *)
LEMMA ContentsFacts ==
    ASSUME QueueInv
    PROVE  /\ Contents \in Seq(Values)
           /\ Len(list) \in Nat /\ Len(list) > 0
           /\ Len(Contents) = Len(list) - 1
           /\ \A i \in 1..(Len(list) - 1) : Contents[i] = data[list[i + 1]]
<1>1. list \in Seq(Nodes) /\ Len(list) \in Nat /\ Len(list) > 0
  BY DEF QueueInv, ListLinked, TypeOK
<1>2. \A i \in 1..(Len(list) - 1) : data[list[i + 1]] \in Values
  BY <1>1 DEF QueueInv, ListLinked
<1> QED
  BY <1>1, <1>2 DEF Contents

(* Linking a node puts its value into the queue.                            *)
LEMMA LinkPushes ==
    ASSUME QueueInv, QueueInv', NEW e \in Enqueuers, Link(e)
    PROVE  FIFO!Push
<1>1. /\ newNode[e] \in Nodes /\ data[newNode[e]] \in Values /\ list \in Seq(Nodes)
      /\ list' = Append(list, newNode[e]) /\ data' = data
      /\ sent' = Append(sent, data[newNode[e]]) /\ received' = received
  BY DEF Link, QueueInv, Private, TypeOK, dequeuerVars
<1>2. /\ Len(list') = Len(list) + 1
      /\ \A i \in 1..Len(list) : list'[i] = list[i]
      /\ list'[Len(list) + 1] = newNode[e]
  BY <1>1, AppendFacts
<1>3. /\ Contents \in Seq(Values) /\ Len(list) \in Nat /\ Len(list) > 0
      /\ Len(Contents) = Len(list) - 1
      /\ \A i \in 1..(Len(list) - 1) : Contents[i] = data[list[i + 1]]
  BY ContentsFacts
<1>4. Contents' = [i \in 1..Len(list) |-> data[list'[i + 1]]]
  BY <1>1, <1>2, <1>3 DEF Contents
<1>5. Contents' = Append(Contents, data[newNode[e]])
  BY <1>1, <1>2, <1>3, <1>4
<1>6. Len(Contents) + 1 \in Nat
  BY <1>3
<1> QED
  BY <1>1, <1>5, <1>6 DEF FIFO!Push

(* Moving m_head takes the oldest value out of the queue.                   *)
LEMMA AdvanceHeadPops ==
    ASSUME QueueInv, NEW d \in Dequeuers, AdvanceHead(d)
    PROVE  FIFO!Pop
<1>1. /\ list \in Seq(Nodes) /\ Len(list) > 1 /\ result[d] = data[list[2]]
      /\ list' = Tail(list) /\ data' = data
      /\ received' = Append(received, result[d]) /\ sent' = sent
  BY DEF AdvanceHead, QueueInv, HeadHeld, TypeOK, enqueuerVars
<1>2. Len(list') = Len(list) - 1 /\ \A i \in 1..(Len(list) - 1) : list'[i] = list[i + 1]
  BY <1>1, TailFacts
<1>3. /\ Contents \in Seq(Values) /\ Len(list) \in Nat
      /\ Len(Contents) = Len(list) - 1
      /\ \A i \in 1..(Len(list) - 1) : Contents[i] = data[list[i + 1]]
  BY ContentsFacts
<1>4. Contents # <<>> /\ Head(Contents) = result[d]
  BY <1>1, <1>3
<1>5. Contents' = [i \in 1..(Len(list) - 2) |-> data[list[i + 2]]]
  BY <1>1, <1>2, <1>3 DEF Contents
<1>6. Contents' = Tail(Contents)
  <2> DEFINE rest == [i \in 1..(Len(list) - 2) |-> data[list[i + 2]]]
  <2>1. /\ Tail(Contents) \in Seq(Values) /\ Len(Tail(Contents)) = Len(list) - 2
        /\ \A i \in 1..(Len(list) - 2) : Tail(Contents)[i] = Contents[i + 1]
    BY <1>1, <1>3, <1>4, HeadTailProperties
  <2>2. \A i \in 1..(Len(list) - 2) : i + 1 \in 1..(Len(list) - 1) /\ i + 1 + 1 = i + 2
    BY <1>3
  <2>3. \A i \in 1..(Len(list) - 2) : Tail(Contents)[i] = data[list[i + 2]]
    BY <1>3, <2>1, <2>2
  <2>4. \A i \in 1..(Len(list) - 1) : Contents[i] \in Values
    BY <1>3
  <2>5. rest \in Seq(Values) /\ Len(rest) = Len(list) - 2
    <3>1. \A i \in 1..(Len(list) - 2) : data[list[i + 2]] \in Values
      BY <1>3, <2>2, <2>4
    <3>2. Len(list) - 2 \in Nat
      BY <1>1, <1>3
    <3> QED
      BY <3>1, <3>2
  <2>6. Tail(Contents) = rest
    BY <2>1, <2>3, <2>5, SeqEqual
  <2> QED
    BY <1>5, <2>6
<1> QED
  BY <1>1, <1>4, <1>6 DEF FIFO!Pop

(* Every other step leaves the queue as it is; a new node's value is not in *)
(* it yet, because the node's address is not in the list.                   *)
LEMMA OtherStepsStutter ==
    ASSUME QueueInv, [Next]_vars,
           \A e \in Enqueuers : ~Link(e), \A d \in Dequeuers : ~AdvanceHead(d)
    PROVE  UNCHANGED <<Contents, sent, received>>
<1>1. CASE \E e \in Enqueuers, v \in Values : MakeNode(e, v)
  <2>1. PICK e \in Enqueuers, v \in Values : MakeNode(e, v)
    BY <1>1
  <2>2. PICK n \in Nodes \ allocated : data' = [data EXCEPT ![n] = v]
    BY <2>1 DEF MakeNode
  <2>3. UNCHANGED <<list, sent, received>>
    BY <2>1 DEF MakeNode, dequeuerVars
  <2>4. Len(list) \in Nat /\ \A i \in 1..(Len(list) - 1) : list[i + 1] \in allocated
    BY DEF QueueInv, ListLinked, TypeOK
  <2>5. \A i \in 1..(Len(list) - 1) : data'[list[i + 1]] = data[list[i + 1]]
    BY <2>2, <2>4 DEF QueueInv, TypeOK
  <2> QED
    BY <2>3, <2>5 DEF Contents
<1>2. CASE UNCHANGED <<data, list, sent, received>>
  BY <1>2 DEF Contents
<1>3. (\E e \in Enqueuers, v \in Values : MakeNode(e, v)) \/ UNCHANGED <<data, list, sent, received>>
  BY DEF Next, EnqueueStep, DequeueStep, LockTail, SwingTail, LockHead, ReadNext, ReadData,
         FreeNode, vars, enqueuerVars, dequeuerVars
<1> QED
  BY <1>1, <1>2, <1>3

(* QueueMPMC implements a first in, first out queue without a limit: values *)
(* leave in the order in which their nodes were linked, each once.          *)
THEOREM QueueImplementsFIFO == Spec => ImplementsFIFO
<1>1. Init => FIFO!Init
  BY DEF Init, FIFO!Init, Contents
<1>2. QueueInv /\ QueueInv' /\ [Next]_vars => [FIFO!Next]_(FIFO!fifoVars)
  <2> SUFFICES ASSUME QueueInv, QueueInv', [Next]_vars
               PROVE  [FIFO!Next]_(FIFO!fifoVars)
    OBVIOUS
  <2>1. CASE \E e \in Enqueuers : Link(e)
    BY <2>1, LinkPushes DEF FIFO!Next
  <2>2. CASE \E d \in Dequeuers : AdvanceHead(d)
    BY <2>2, AdvanceHeadPops DEF FIFO!Next
  <2>3. CASE (\A e \in Enqueuers : ~Link(e)) /\ (\A d \in Dequeuers : ~AdvanceHead(d))
    <3>1. UNCHANGED <<Contents, sent, received>>
      BY <2>3, OtherStepsStutter
    <3> QED
      BY <3>1 DEF FIFO!fifoVars
  <2> QED
    BY <2>1, <2>2, <2>3
<1> QED
  BY <1>1, <1>2, QueueInvariant, PTL DEF Spec, ImplementsFIFO, FIFO!Spec
=============================================================================
