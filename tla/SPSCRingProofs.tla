--------------------------- MODULE SPSCRingProofs ---------------------------
(***************************************************************************)
(* Proofs about SPSCRing for every capacity and set of values.  But for    *)
(* the types, they hold as long as no two pushes overlap: the class's own  *)
(* condition, here on the calls and not on the threads that make them.     *)
(* Without it they are false, as the runs of ThreadPool show.              *)
(***************************************************************************)
EXTENDS SPSCRing, SequenceTheorems, TLAPS

(* The modulus of increment only ever wraps the last index to zero. *)
LEMMA IncrementWraps ==
    ASSUME NEW n \in Indices
    PROVE  /\ increment(n) = IF n + 1 = Capacity THEN 0 ELSE n + 1
           /\ increment(n) \in Indices
<1>1. Capacity \in Nat /\ Capacity > 0 /\ n \in Nat /\ n + 1 <= Capacity
  BY CapacityAssumption DEF Indices
<1>2. CASE n + 1 = Capacity
  <2>1. Capacity % Capacity = 0
    BY <1>1, SMT
  <2> QED
    BY <1>1, <1>2, <2>1 DEF increment, Indices
<1>3. CASE n + 1 < Capacity
  <2>1. (n + 1) % Capacity = n + 1
    BY <1>1, <1>3, SMT
  <2> QED
    BY <1>1, <1>3, <2>1 DEF increment, Indices
<1> QED
  BY <1>1, <1>2, <1>3

(* How many slots are in use, and which: neither overflows the buffer. *)
LEMMA UsedFacts ==
    ASSUME write \in Indices, read \in Indices
    PROVE  /\ Used \in 0..(Capacity - 1)
           /\ Used = 0 <=> read = write
           /\ \A i \in 1..Used : SlotOf(i) \in Indices /\ SlotOf(i) # write
           /\ \A i \in 1..Capacity : SlotOf(i) \in Indices
           /\ SlotOf(Used + 1) = write
           /\ SlotOf(1) = read
           /\ increment(write) # read => Used < Capacity - 1
BY CapacityAssumption, IncrementWraps DEF Used, SlotOf, Indices

-----------------------------------------------------------------------------
(* The invariant *)

(* An empty ring with nobody inside. *)
LEMMA InitInv ==
    ASSUME Init
    PROVE  RingInv
<1>1. TypeOK
  BY CapacityAssumption DEF Init, TypeOK, Indices
<1>2. ASSUME NEW p \in Producers PROVE Settled(p)
  BY DEF Init, Settled, Used
<1> QED
  BY <1>1, <1>2 DEF RingInv

(* The producer's steps keep the invariant: it fills the slot at m_write,   *)
(* which is none of the used ones, and publishes it only then.              *)
LEMMA ProducerSettled ==
    ASSUME NEW p \in Producers, RingInv,
           (\E v \in Values : StartPush(p, v)) \/ PushStep(p)
    PROVE  TypeOK' /\ Settled(p)'
<1> USE DEF RingInv
<1>1. TypeOK /\ Settled(p)
  OBVIOUS
<1>2. write \in Indices /\ read \in Indices
  BY DEF TypeOK
<1>3. CASE \E v \in Values : StartPush(p, v)
  <2>1. PICK v \in Values : StartPush(p, v)
    BY <1>3
  <2>2. TypeOK'
    BY <1>1, <2>1 DEF StartPush, TypeOK, consumerVars
  <2>3. Settled(p)'
    BY <1>1, <2>1 DEF StartPush, Settled, TypeOK, consumerVars, Used, SlotOf, increment
  <2> QED
    BY <2>2, <2>3
<1>4. CASE LoadWrite(p)
  <2>1. TypeOK'
    BY <1>1, <1>4 DEF LoadWrite, TypeOK, consumerVars
  <2>2. Settled(p)'
    BY <1>1, <1>4 DEF LoadWrite, Settled, TypeOK, consumerVars, Used, SlotOf, increment
  <2> QED
    BY <2>1, <2>2
<1>5. CASE CheckRead(p)
  <2>1. TypeOK'
    BY <1>1, <1>5 DEF CheckRead, TypeOK, consumerVars
  <2>2. Settled(p)'
    BY <1>1, <1>5 DEF CheckRead, Settled, TypeOK, consumerVars, Used, SlotOf, increment
  <2> QED
    BY <2>1, <2>2
<1>6. CASE WriteSlot(p)
  <2>1. tail[p] = write /\ val[p] \in Values /\ increment(write) # read /\ ppc[p] = "write"
    BY <1>1, <1>6 DEF WriteSlot, Settled, TypeOK
  <2>2. slots' = [slots EXCEPT ![write] = val[p]]
    BY <1>6, <2>1 DEF WriteSlot
  <2>3. TypeOK'
    BY <1>1, <1>6, <2>1 DEF WriteSlot, TypeOK, consumerVars
  <2>4. \A i \in 1..Used' : slots'[SlotOf(i)'] \in Values
    <3>1. Used' = Used /\ \A i : SlotOf(i)' = SlotOf(i)
      BY <1>6 DEF WriteSlot, Used, SlotOf, consumerVars
    <3>2. \A i \in 1..Used : SlotOf(i) \in Indices /\ SlotOf(i) # write
      BY <1>2, UsedFacts
    <3>3. \A i \in 1..Used : slots[SlotOf(i)] \in Values
      BY <1>1 DEF Settled
    <3> QED
      BY <1>1, <2>2, <3>1, <3>2, <3>3 DEF TypeOK
  <2>5. Settled(p)'
    BY <1>1, <1>2, <1>6, <2>1, <2>2, <2>4 DEF WriteSlot, Settled, TypeOK, consumerVars, increment
  <2> QED
    BY <2>3, <2>5
<1>7. CASE StoreWrite(p)
  <2>1. /\ tail[p] = write /\ val[p] \in Values /\ increment(write) # read
        /\ ppc[p] = "store" /\ slots[write] = val[p]
    BY <1>1, <1>7 DEF StoreWrite, Settled, TypeOK
  <2>2. write' = increment(write) /\ increment(write) \in Indices
    BY <1>2, <1>7, <2>1, IncrementWraps DEF StoreWrite
  <2>3. TypeOK'
    BY <1>1, <1>7, <2>1, <2>2 DEF StoreWrite, TypeOK, consumerVars
  <2>4. Used' = Used + 1 /\ \A i : SlotOf(i)' = SlotOf(i)
    <3>1. read' = read /\ write' = IF write + 1 = Capacity THEN 0 ELSE write + 1
      BY <1>2, <1>7, <2>1, <2>2, IncrementWraps DEF StoreWrite, consumerVars
    <3>2. write' # read
      BY <2>1, <2>2
    <3>3. Used' = Used + 1
      BY <1>2, <3>1, <3>2, CapacityAssumption DEF Used, Indices
    <3>4. \A i : SlotOf(i)' = SlotOf(i)
      BY <3>1 DEF SlotOf
    <3> QED
      BY <3>3, <3>4
  <2>5. \A i \in 1..Used' : slots'[SlotOf(i)'] \in Values
    <3>1. slots[SlotOf(Used + 1)] \in Values
      BY <1>2, <2>1, UsedFacts
    <3>2. \A i \in 1..Used : slots[SlotOf(i)] \in Values
      BY <1>1 DEF Settled
    <3>3. slots' = slots /\ Used \in Nat
      BY <1>2, <1>7, UsedFacts DEF StoreWrite
    <3> QED
      BY <2>4, <3>1, <3>2, <3>3
  <2>6. Settled(p)'
    <3>1. ppc'[p] = "idle" /\ cpc' = cpc /\ read' = read /\ head' = head
          /\ element' = element /\ slots' = slots
      BY <1>1, <1>7 DEF StoreWrite, consumerVars, TypeOK
    <3>2. cpc # "idle" => head = read
      BY <1>1 DEF Settled
    <3>3. cpc \in {"read", "store"} => read # write'
      BY <2>1, <2>2
    <3>4. cpc = "store" => element = slots[read]
      BY <1>1 DEF Settled
    <3> QED
      BY <2>5, <3>1, <3>2, <3>3, <3>4 DEF Settled
  <2> QED
    BY <2>3, <2>6
<1> QED
  BY <1>3, <1>4, <1>5, <1>6, <1>7 DEF PushStep

(* The consumer's steps keep it: it reads the slot at m_read, a used one,   *)
(* and gives it back only then.                                             *)
LEMMA ConsumerSettled ==
    ASSUME NEW p \in Producers, RingInv, PopStep
    PROVE  TypeOK' /\ Settled(p)'
<1> USE DEF RingInv
<1>1. TypeOK /\ Settled(p)
  OBVIOUS
<1>2. write \in Indices /\ read \in Indices
  BY DEF TypeOK
<1>3. CASE LoadRead
  <2>1. TypeOK'
    BY <1>1, <1>3 DEF LoadRead, TypeOK, producerVars
  <2>2. Settled(p)'
    BY <1>1, <1>3 DEF LoadRead, Settled, TypeOK, producerVars, Used, SlotOf, increment
  <2> QED
    BY <2>1, <2>2
<1>4. CASE CheckWrite
  <2>1. TypeOK'
    BY <1>1, <1>4 DEF CheckWrite, TypeOK, producerVars
  <2>2. Settled(p)'
    BY <1>1, <1>4 DEF CheckWrite, Settled, TypeOK, producerVars, Used, SlotOf, increment
  <2> QED
    BY <2>1, <2>2
<1>5. CASE ReadSlot
  <2>1. head = read /\ read # write
    BY <1>1, <1>5 DEF ReadSlot, Settled
  <2>2. slots[read] \in Values
    BY <1>1, <1>2, <2>1, UsedFacts DEF Settled, Indices
  <2>3. TypeOK'
    BY <1>1, <1>5, <2>1, <2>2 DEF ReadSlot, TypeOK, producerVars
  <2>4. Settled(p)'
    BY <1>1, <1>5, <2>1 DEF ReadSlot, Settled, TypeOK, producerVars, Used, SlotOf, increment
  <2> QED
    BY <2>3, <2>4
<1>6. CASE StoreRead
  <2>1. head = read /\ read # write /\ element = slots[read] /\ cpc = "store"
    BY <1>1, <1>6 DEF StoreRead, Settled
  <2>2. element \in Values
    BY <1>1, <1>2, <2>1, UsedFacts DEF Settled, Indices
  <2>3. read' = increment(read) /\ increment(read) \in Indices
    BY <1>2, <1>6, <2>1, IncrementWraps DEF StoreRead
  <2>4. TypeOK'
    BY <1>1, <1>6, <2>2, <2>3 DEF StoreRead, TypeOK, producerVars
  <2>5. Used' = Used - 1 /\ \A i \in 1..Used' : SlotOf(i)' = SlotOf(i + 1)
    <3>1. write' = write /\ read' = IF read + 1 = Capacity THEN 0 ELSE read + 1
      BY <1>2, <1>6, <2>1, <2>3, IncrementWraps DEF StoreRead, producerVars
    <3>2. Used' = Used - 1
      BY <1>2, <2>1, <3>1, CapacityAssumption DEF Used, Indices
    <3>3. \A i \in 1..Used' : SlotOf(i)' = SlotOf(i + 1)
      BY <1>2, <2>1, <3>1, <3>2, CapacityAssumption DEF Used, SlotOf, Indices
    <3> QED
      BY <3>2, <3>3
  <2>6. \A i \in 1..Used' : slots'[SlotOf(i)'] \in Values
    <3>1. \A i \in 1..Used : slots[SlotOf(i)] \in Values
      BY <1>1 DEF Settled
    <3>2. slots' = slots /\ Used \in Nat
      BY <1>2, <1>6, UsedFacts DEF StoreRead
    <3> QED
      BY <2>5, <3>1, <3>2
  <2>7. Settled(p)'
    <3>1. ppc' = ppc /\ val' = val /\ tail' = tail /\ write' = write /\ slots' = slots
          /\ cpc' = "idle"
      BY <1>6 DEF StoreRead, producerVars
    <3>2. increment(write) # increment(read)
      BY <1>2, <2>1, IncrementWraps, CapacityAssumption DEF Indices
    <3>3. increment(write)' = increment(write)
      BY <3>1 DEF increment
    <3>4. /\ ppc[p] # "idle" => val[p] \in Values
          /\ ppc[p] \in {"check", "write", "store"} => tail[p] = write
          /\ ppc[p] = "store" => slots[write] = val[p]
      BY <1>1 DEF Settled, TypeOK
    <3> QED
      BY <2>3, <2>6, <3>1, <3>2, <3>3, <3>4 DEF Settled
  <2> QED
    BY <2>4, <2>7
<1> QED
  BY <1>3, <1>4, <1>5, <1>6 DEF PopStep

(* A step of one producer: only the two that touch a slot or m_write need   *)
(* the other producers out of the way.                                      *)
LEMMA ProducerInv ==
    ASSUME NEW p \in Producers, RingInv, OneProducer,
           (\E v \in Values : StartPush(p, v)) \/ PushStep(p)
    PROVE  RingInv'
<1>1. TypeOK' /\ Settled(p)'
  BY ProducerSettled
<1>2. ASSUME NEW q \in Producers \ {p} PROVE Settled(q)'
  <2>1. TypeOK /\ Settled(q) /\ Settled(p)' /\ q # p
    BY <1>1 DEF RingInv
  <2>2. ppc'[q] = ppc[q] /\ val'[q] = val[q] /\ tail'[q] = tail[q]
    BY <2>1 DEF StartPush, PushStep, LoadWrite, CheckRead, WriteSlot, StoreWrite, TypeOK
  <2>3. CASE WriteSlot(p) \/ StoreWrite(p)
    <3>1. ppc[q] \in {"idle", "load"}
      BY <2>1, <2>3 DEF OneProducer, WriteSlot, StoreWrite
    <3> QED
      BY <2>1, <2>2, <3>1 DEF Settled
  <2>4. CASE (\E v \in Values : StartPush(p, v)) \/ LoadWrite(p) \/ CheckRead(p)
    <3>1. write' = write /\ read' = read /\ slots' = slots
      BY <2>4 DEF StartPush, LoadWrite, CheckRead, consumerVars
    <3> QED
      BY <2>1, <2>2, <3>1 DEF Settled, increment
  <2> QED
    BY <2>3, <2>4 DEF PushStep
<1> QED
  BY <1>1, <1>2 DEF RingInv

(* A step of the consumer never disturbs the invariant. *)
LEMMA ConsumerInv ==
    ASSUME NEW p \in Producers, RingInv, PopStep
    PROVE  RingInv'
BY ConsumerSettled DEF RingInv

(* Every step keeps the invariant while no two pushes overlap. *)
LEMMA RingInvStep ==
    ASSUME NEW r \in Producers
    PROVE  RingInv /\ OneProducer /\ [Next]_vars => RingInv'
<1> SUFFICES ASSUME RingInv, OneProducer, [Next]_vars PROVE RingInv'
  OBVIOUS
<1>1. CASE \E p \in Producers : (\E v \in Values : StartPush(p, v)) \/ PushStep(p)
  BY <1>1, ProducerInv
<1>2. CASE PopStep
  BY <1>2, ConsumerInv
<1>3. CASE UNCHANGED vars
  BY <1>3 DEF vars, RingInv, TypeOK, Settled, Used, SlotOf, increment
<1> QED
  BY <1>1, <1>2, <1>3 DEF Next

(* The invariant holds as long as no two pushes overlap. *)
THEOREM RingInvariant ==
    ASSUME NEW p \in Producers
    PROVE  Spec /\ []OneProducer => []RingInv
<1>1. Init => RingInv
  BY InitInv
<1>2. RingInv /\ OneProducer /\ [Next]_vars => RingInv'
  BY RingInvStep
<1> QED
  BY <1>1, <1>2, PTL DEF Spec

(* The types need nothing of the callers: whoever overlaps whom, indices    *)
(* stay in the buffer and only arguments of push are ever stored.           *)
LEMMA TypeStep == TypeOK /\ [Next]_vars => TypeOK'
<1> SUFFICES ASSUME TypeOK, [Next]_vars PROVE TypeOK'
  OBVIOUS
<1> USE DEF TypeOK
<1>1. \A n \in Indices : increment(n) \in Indices
  BY IncrementWraps
<1>2. ASSUME NEW p \in Producers, NEW v \in Values, StartPush(p, v) PROVE TypeOK'
  BY <1>2 DEF StartPush, consumerVars
<1>3. ASSUME NEW p \in Producers, PushStep(p) PROVE TypeOK'
  <2>1. CASE LoadWrite(p)
    BY <2>1 DEF LoadWrite, consumerVars
  <2>2. CASE CheckRead(p)
    BY <2>2 DEF CheckRead, consumerVars
  <2>3. CASE WriteSlot(p)
    BY <2>3 DEF WriteSlot, consumerVars
  <2>4. CASE StoreWrite(p)
    BY <1>1, <2>4 DEF StoreWrite, consumerVars
  <2> QED
    BY <1>3, <2>1, <2>2, <2>3, <2>4 DEF PushStep
<1>4. CASE LoadRead
  BY <1>4 DEF LoadRead, producerVars
<1>5. CASE CheckWrite
  BY <1>5 DEF CheckWrite, producerVars
<1>6. CASE ReadSlot
  BY <1>6 DEF ReadSlot, producerVars
<1>7. CASE StoreRead
  BY <1>1, <1>7 DEF StoreRead, producerVars
<1>8. CASE UNCHANGED vars
  BY <1>8 DEF vars
<1> QED
  BY <1>2, <1>3, <1>4, <1>5, <1>6, <1>7, <1>8 DEF Next, PopStep

(* Types, as the code's declarations and assertions have them. *)
THEOREM RingTypes == Spec => []TypeOK
<1>1. Init => TypeOK
  BY CapacityAssumption DEF Init, TypeOK, Indices
<1> QED
  BY <1>1, TypeStep, PTL DEF Spec

(* Without overlapping pushes the slot being written is not the one read,   *)
(* for any capacity: the plain memory of the slots is race free.            *)
THEOREM SlotsAreRaceFree ==
    ASSUME NEW p \in Producers
    PROVE  Spec /\ []OneProducer => []NoSlotRace
<1>1. RingInv /\ OneProducer => NoSlotRace
  BY DEF RingInv, NoSlotRace, Settled, OneProducer
<1> QED
  BY <1>1, RingInvariant, PTL

-----------------------------------------------------------------------------
(* Refinement *)

(* The queue a state of the ring stands for is as long as the used slots.   *)
LEMMA ContentsFacts ==
    ASSUME NEW p \in Producers, RingInv
    PROVE  /\ Used \in 0..(Capacity - 1)
           /\ Contents \in Seq(Values) /\ Len(Contents) = Used
           /\ \A i \in 1..Used : Contents[i] = slots[SlotOf(i)]
<1>1. Used \in 0..(Capacity - 1)
  BY UsedFacts DEF RingInv, TypeOK
<1>2. \A i \in 1..Used : slots[SlotOf(i)] \in Values
  BY DEF RingInv, Settled
<1>3. Used \in Nat
  BY <1>1
<1> QED
  BY <1>1, <1>2, <1>3 DEF Contents

(* Storing m_write appends the argument to the queue. *)
LEMMA StoreWritePushes ==
    ASSUME NEW p \in Producers, RingInv, RingInv', StoreWrite(p)
    PROVE  FIFO!Push
<1>1. write \in Indices /\ read \in Indices
  BY DEF RingInv, TypeOK
<1>2. /\ tail[p] = write /\ val[p] \in Values /\ increment(write) # read
      /\ slots[write] = val[p]
  BY DEF RingInv, Settled, StoreWrite, TypeOK
<1>3. /\ read' = read /\ slots' = slots /\ received' = received
      /\ write' = increment(write) /\ sent' = Append(sent, val[p])
  BY <1>2 DEF StoreWrite, consumerVars
<1>4. Used < Capacity - 1
  BY <1>1, <1>2, UsedFacts
<1>5. Used' = Used + 1
  <2>1. write' = IF write + 1 = Capacity THEN 0 ELSE write + 1
    BY <1>1, <1>3, IncrementWraps
  <2>2. write' # read
    BY <1>2, <1>3
  <2> QED
    BY <1>1, <1>3, <2>1, <2>2, CapacityAssumption DEF Used, Indices
<1>6. \A i : SlotOf(i)' = SlotOf(i)
  BY <1>3 DEF SlotOf
<1>7. /\ Contents \in Seq(Values) /\ Len(Contents) = Used /\ Used \in Nat
      /\ \A i \in 1..Used : Contents[i] = slots[SlotOf(i)]
  BY ContentsFacts
<1>8. Contents' = [i \in 1..(Used + 1) |-> slots[SlotOf(i)]]
  BY <1>3, <1>5, <1>6 DEF Contents
<1>9. slots[SlotOf(Used + 1)] = val[p]
  BY <1>1, <1>2, UsedFacts
<1>10. Contents' = Append(Contents, val[p])
  BY <1>2, <1>7, <1>8, <1>9
<1>11. Len(Contents) + 1 \in 0..(Capacity - 1)
  BY <1>4, <1>7, CapacityAssumption
<1> QED
  BY <1>2, <1>3, <1>10, <1>11 DEF FIFO!Push

(* Storing m_read takes the oldest value out of the queue. *)
LEMMA StoreReadPops ==
    ASSUME NEW p \in Producers, RingInv, StoreRead
    PROVE  FIFO!Pop
<1>1. write \in Indices /\ read \in Indices
  BY DEF RingInv, TypeOK
<1>2. head = read /\ read # write /\ element = slots[read]
  BY DEF RingInv, Settled, StoreRead
<1>3. /\ write' = write /\ slots' = slots /\ sent' = sent
      /\ read' = increment(read) /\ received' = Append(received, element)
  BY <1>2 DEF StoreRead, producerVars
<1>4. Used \in Nat /\ Used # 0
  BY <1>1, <1>2, UsedFacts
<1>5. read' = IF read + 1 = Capacity THEN 0 ELSE read + 1
  BY <1>1, <1>3, IncrementWraps
<1>6. Used' = Used - 1
  BY <1>1, <1>2, <1>3, <1>5, CapacityAssumption DEF Used, Indices
<1>7. \A i \in 1..(Used - 1) : SlotOf(i)' = SlotOf(i + 1)
  BY <1>1, <1>2, <1>5, CapacityAssumption DEF Used, SlotOf, Indices
<1>8. /\ Contents \in Seq(Values) /\ Len(Contents) = Used
      /\ \A i \in 1..Used : Contents[i] = slots[SlotOf(i)]
  BY ContentsFacts
<1>9. Contents' = [i \in 1..(Used - 1) |-> slots[SlotOf(i + 1)]]
  BY <1>3, <1>6, <1>7 DEF Contents
<1>10. Contents' = Tail(Contents)
  <2> DEFINE rest == [i \in 1..(Used - 1) |-> slots[SlotOf(i + 1)]]
  <2>1. Contents # <<>>
    BY <1>4, <1>8
  <2>2. /\ Tail(Contents) \in Seq(Values) /\ Len(Tail(Contents)) = Used - 1
        /\ \A i \in 1..(Used - 1) : Tail(Contents)[i] = Contents[i + 1]
    BY <1>8, <2>1, HeadTailProperties
  <2>3. \A i \in 1..(Used - 1) : i + 1 \in 1..Used
    BY <1>4
  <2>4. \A i \in 1..(Used - 1) : Tail(Contents)[i] = slots[SlotOf(i + 1)]
    BY <1>8, <2>2, <2>3
  <2>5. \A i \in 1..Used : Contents[i] \in Values
    BY <1>8
  <2>6. rest \in Seq(Values) /\ Len(rest) = Used - 1
    BY <1>4, <1>8, <2>3, <2>5
  <2>7. Tail(Contents) = rest
    BY <2>2, <2>4, <2>6, SeqEqual
  <2> QED
    BY <1>9, <2>7
<1>11. Head(Contents) = element /\ Contents # <<>>
  BY <1>1, <1>2, <1>4, <1>8, UsedFacts
<1> QED
  BY <1>3, <1>10, <1>11 DEF FIFO!Pop

(* No other step is seen by the queue's users. *)
LEMMA OtherStepsStutter ==
    ASSUME NEW p \in Producers, RingInv,
           \/ \E v \in Values : StartPush(p, v)
           \/ LoadWrite(p) \/ CheckRead(p) \/ WriteSlot(p)
           \/ LoadRead \/ CheckWrite \/ ReadSlot
           \/ UNCHANGED vars
    PROVE  UNCHANGED <<Contents, sent, received>>
<1>1. write' = write /\ read' = read /\ sent' = sent /\ received' = received
  BY DEF StartPush, LoadWrite, CheckRead, WriteSlot, LoadRead, CheckWrite, ReadSlot,
         vars, consumerVars, producerVars
<1>2. Used' = Used /\ \A i : SlotOf(i)' = SlotOf(i)
  BY <1>1 DEF Used, SlotOf
<1>3. \A i \in 1..Used : slots'[SlotOf(i)] = slots[SlotOf(i)]
  <2>1. CASE WriteSlot(p)
    <3>1. tail[p] = write /\ slots' = [slots EXCEPT ![write] = val[p]]
      BY <2>1 DEF WriteSlot, RingInv, Settled
    <3>2. \A i \in 1..Used : SlotOf(i) \in Indices /\ SlotOf(i) # write
      BY UsedFacts DEF RingInv, TypeOK
    <3> QED
      BY <3>1, <3>2 DEF RingInv, TypeOK
  <2>2. CASE ~WriteSlot(p)
    BY <2>2 DEF StartPush, LoadWrite, CheckRead, LoadRead, CheckWrite, ReadSlot, vars
  <2> QED
    BY <2>1, <2>2
<1>4. Contents' = Contents
  BY <1>2, <1>3 DEF Contents
<1> QED
  BY <1>1, <1>4

(* The ring buffer is a FIFO queue of Capacity - 1 places: for every        *)
(* capacity nothing is lost, duplicated or reordered, as long as no two     *)
(* pushes overlap.                                                          *)
THEOREM RingImplementsFIFO ==
    ASSUME NEW p \in Producers
    PROVE  Spec /\ []OneProducer => ImplementsFIFO
<1>1. Init => FIFO!Init
  <2> SUFFICES ASSUME Init PROVE FIFO!Init
    OBVIOUS
  <2>1. Used = 0
    BY DEF Init, Used
  <2>2. Contents = <<>>
    BY <2>1 DEF Contents
  <2> QED
    BY <2>2 DEF Init, FIFO!Init
<1>2. RingInv /\ RingInv' /\ [Next]_vars => [FIFO!Next]_(FIFO!fifoVars)
  <2> SUFFICES ASSUME RingInv, RingInv', [Next]_vars
               PROVE  [FIFO!Next]_(FIFO!fifoVars)
    OBVIOUS
  <2>1. CASE \E q \in Producers : StoreWrite(q)
    BY <2>1, StoreWritePushes DEF FIFO!Next
  <2>2. CASE StoreRead
    BY <2>2, StoreReadPops DEF FIFO!Next
  <2>3. CASE (\A q \in Producers : ~StoreWrite(q)) /\ ~StoreRead
    <3>1. PICK q \in Producers :
            \/ \E v \in Values : StartPush(q, v)
            \/ LoadWrite(q) \/ CheckRead(q) \/ WriteSlot(q)
            \/ LoadRead \/ CheckWrite \/ ReadSlot
            \/ UNCHANGED vars
      BY <2>3 DEF Next, PushStep, PopStep
    <3>2. UNCHANGED <<Contents, sent, received>>
      BY <3>1, OtherStepsStutter
    <3> QED
      BY <3>2 DEF FIFO!fifoVars
  <2> QED
    BY <2>1, <2>2, <2>3
<1> QED
  BY <1>1, <1>2, RingInvariant, PTL DEF Spec, ImplementsFIFO, FIFO!Spec

(* One thread pushes: no two pushes overlap, and the ring is the FIFO that  *)
(* the class comment promises.                                              *)
THEOREM OneThreadSuffices ==
    ASSUME NEW p, Producers = {p}
    PROVE  Spec => []NoSlotRace /\ ImplementsFIFO
<1>1. OneProducer
  BY DEF OneProducer
<1>2. p \in Producers
  OBVIOUS
<1>3. Spec /\ []OneProducer => []NoSlotRace
  BY <1>2, SlotsAreRaceFree
<1>4. Spec /\ []OneProducer => ImplementsFIFO
  BY <1>2, RingImplementsFIFO
<1> QED
  BY <1>1, <1>3, <1>4, PTL
=============================================================================
