---------------------------- MODULE LoggerProofs ----------------------------
(***************************************************************************)
(* Proofs about Logger, and about the buffer RingBufferMPMC as the logger  *)
(* uses it, for any threads, entries and capacity and with any settings.   *)
(***************************************************************************)
EXTENDS Logger, SequenceTheorems, TLAPS

(* The modulus wraps an index at most once. *)
LEMMA ModuloWraps ==
    \A n \in 0..(2 * Capacity - 1) :
        /\ n % Capacity = IF n < Capacity THEN n ELSE n - Capacity
        /\ n % Capacity \in Indices
<1> SUFFICES ASSUME NEW n \in 0..(2 * Capacity - 1)
             PROVE  /\ n % Capacity = IF n < Capacity THEN n ELSE n - Capacity
                    /\ n % Capacity \in Indices
  OBVIOUS
<1>1. Capacity \in Nat /\ Capacity > 0 /\ n \in Nat /\ n < 2 * Capacity
  BY CapacityAssumption
<1>2. CASE n < Capacity
  <2>1. n % Capacity = n
    BY <1>1, <1>2, SMT
  <2> QED
    BY <1>1, <1>2, <2>1 DEF Indices
<1>3. CASE n >= Capacity
  <2>1. n % Capacity = n - Capacity
    BY <1>1, <1>3, SMT
  <2> QED
    BY <1>1, <1>3, <2>1 DEF Indices
<1> QED
  BY <1>1, <1>2, <1>3

(* The modulus of the places wraps the last one to the first. *)
LEMMA PlaceWraps ==
    \A f \in Indices, i \in 1..(Capacity + 1) :
        /\ (f + i - 1) % Capacity = IF f + i - 1 < Capacity THEN f + i - 1
                                                             ELSE f + i - 1 - Capacity
        /\ (f + i - 1) % Capacity \in Indices
<1> SUFFICES ASSUME NEW f \in Indices, NEW i \in 1..(Capacity + 1)
             PROVE  /\ (f + i - 1) % Capacity = IF f + i - 1 < Capacity
                                                 THEN f + i - 1 ELSE f + i - 1 - Capacity
                    /\ (f + i - 1) % Capacity \in Indices
  OBVIOUS
<1>1. Capacity \in Nat /\ Capacity > 0 /\ f \in 0..(Capacity - 1)
  BY CapacityAssumption DEF Indices
<1> DEFINE n == f + i - 1
<1>2. n \in 0..(2 * Capacity - 1)
  BY <1>1
<1>3. n % Capacity = (f + i - 1) % Capacity
  OBVIOUS
<1> HIDE DEF n
<1>4. /\ (f + i - 1) % Capacity = IF n < Capacity THEN n ELSE n - Capacity
      /\ (f + i - 1) % Capacity \in Indices
  BY <1>2, <1>3, ModuloWraps, Zenon
<1> QED
  BY <1>1, <1>4 DEF n

(* The places of the buffer, counted from the front, are different; the     *)
(* one behind the last is the front again.                                  *)
LEMMA PlaceFacts ==
    ASSUME front \in Indices
    PROVE  /\ \A i \in 1..(Capacity + 1) :
                 /\ Place(i) = IF front + i - 1 < Capacity THEN front + i - 1
                                                          ELSE front + i - 1 - Capacity
                 /\ Place(i) \in Indices
           /\ Place(1) = front
           /\ \A i, j \in 1..Capacity : i # j => Place(i) # Place(j)
<1>1. \A i \in 1..(Capacity + 1) :
         /\ Place(i) = IF front + i - 1 < Capacity THEN front + i - 1
                                                  ELSE front + i - 1 - Capacity
         /\ Place(i) \in Indices
  BY PlaceWraps, Zenon DEF Place
<1> QED
  BY <1>1, CapacityAssumption DEF Indices

(* What the buffer holds, when the places in use hold values.               *)
LEMMA ContentsFacts ==
    ASSUME count \in 0..Capacity, \A i \in 1..count : slots[Place(i)] \in Values
    PROVE  /\ Contents \in Seq(Values) /\ Len(Contents) = count
           /\ \A i \in 1..count : Contents[i] = slots[Place(i)]
BY CapacityAssumption DEF Contents

-----------------------------------------------------------------------------
(* The buffer *)

(* RingBufferMPMC::push puts its argument behind what the buffer holds.     *)
LEMMA PushPushes ==
    ASSUME RingInv, NEW t \in Threads, Push(t)
    PROVE  FIFO!Push /\ RingInv'
<1>1. /\ count \in 0..(Capacity - 1) /\ Capacity \in Nat /\ Capacity > 0
      /\ front \in Indices /\ rear = Place(count + 1) /\ rear \in Indices
      /\ slots \in [Indices -> Values \cup {Nothing}]
      /\ item[t] \in Values
      /\ \A i \in 1..count : slots[Place(i)] \in Values
  BY CapacityAssumption DEF RingInv, RingTypeOK, Push
<1>2. /\ slots' = [slots EXCEPT ![rear] = item[t]]
      /\ rear' = (rear + 1) % Capacity /\ front' = front /\ count' = count + 1
      /\ sent' = Append(sent, item[t]) /\ received' = received /\ item' = item
      /\ ringpc' = [ringpc EXCEPT ![t] = "pushed"]
  BY DEF Push
<1>3. \A i : Place(i)' = Place(i)
  BY <1>2 DEF Place
<1>4. /\ \A i \in 1..count : slots'[Place(i)] = slots[Place(i)]
      /\ slots'[Place(count + 1)] = item[t]
  BY <1>1, <1>2, PlaceFacts
<1>5. \A i \in 1..count' : slots'[Place(i)'] \in Values
  BY <1>1, <1>2, <1>3, <1>4
<1>6. rear' = Place(count + 1)'
  <2>1. rear = IF front + count < Capacity THEN front + count ELSE front + count - Capacity
    BY <1>1, PlaceFacts
  <2>2. /\ rear' = IF rear + 1 < Capacity THEN rear + 1 ELSE rear + 1 - Capacity
        /\ rear' \in Indices
    <3> DEFINE n == rear + 1
    <3>1. n \in 0..(2 * Capacity - 1)
      BY <1>1 DEF Indices
    <3>2. rear' = n % Capacity
      BY <1>2
    <3> HIDE DEF n
    <3>3. /\ rear' = IF n < Capacity THEN n ELSE n - Capacity
          /\ rear' \in Indices
      BY <3>1, <3>2, ModuloWraps, Zenon
    <3> QED
      BY <1>1, <3>3 DEF n, Indices
  <2>3. Place(count + 2) = IF front + count + 1 < Capacity THEN front + count + 1
                                                          ELSE front + count + 1 - Capacity
    <3>1. count + 2 \in 1..(Capacity + 1) /\ count \in Nat /\ front \in Nat
      BY <1>1 DEF Indices
    <3>2. Place(count + 2) = IF front + (count + 2) - 1 < Capacity
                             THEN front + (count + 2) - 1
                             ELSE front + (count + 2) - 1 - Capacity
      BY <1>1, <3>1, PlaceFacts
    <3> QED
      BY <1>1, <3>1, <3>2
  <2>4. Place(count + 1)' = Place(count + 2)
    <3>1. front' + (count' + 1) - 1 = front + (count + 2) - 1
      BY <1>1, <1>2 DEF Indices
    <3> QED
      BY <3>1, Zenon DEF Place
  <2>5. rear \in Nat /\ front \in Nat /\ front < Capacity
    BY <1>1 DEF Indices
  <2>6. rear' = Place(count + 2)
    BY <1>1, <2>1, <2>2, <2>3, <2>5
  <2> QED
    BY <2>4, <2>6
<1>7. RingTypeOK'
  <2>1. rear' \in Indices
    BY <1>1, <1>2, <1>3, <1>6, PlaceFacts
  <2> QED
    BY <1>1, <1>2, <2>1 DEF RingInv, RingTypeOK
<1>8. Contents' = Append(Contents, item[t])
  <2>1. /\ Contents \in Seq(Values) /\ Len(Contents) = count
        /\ \A i \in 1..count : Contents[i] = slots[Place(i)]
    BY <1>1, ContentsFacts
  <2>2. /\ Append(Contents, item[t]) \in Seq(Values)
        /\ Len(Append(Contents, item[t])) = count + 1
        /\ \A i \in 1..count : Append(Contents, item[t])[i] = Contents[i]
        /\ Append(Contents, item[t])[count + 1] = item[t]
    BY <1>1, <2>1, AppendProperties
  <2>3. Contents' = [i \in 1..(count + 1) |-> slots'[Place(i)]]
    BY <1>2, <1>3 DEF Contents
  <2>4. /\ Contents' \in Seq(Values) /\ Len(Contents') = count + 1
        /\ \A i \in 1..(count + 1) : Contents'[i] = slots'[Place(i)]
    BY <1>1, <1>2, <1>3, <1>5, <2>3
  <2>5. \A i \in 1..(count + 1) : Contents'[i] = Append(Contents, item[t])[i]
    BY <1>1, <1>4, <2>1, <2>2, <2>4
  <2> QED
    BY <2>2, <2>4, <2>5, SeqEqual
<1>9. sent' = received' \o Contents'
  <2>1. sent = received \o Contents /\ received \in Seq(Values) /\ Contents \in Seq(Values)
    BY <1>1, ContentsFacts DEF RingInv, RingTypeOK
  <2>2. /\ Append(received \o Contents, item[t]) = (received \o Contents) \o <<item[t]>>
        /\ Append(Contents, item[t]) = Contents \o <<item[t]>>
    BY <1>1, <2>1, AppendIsConcat, ConcatProperties
  <2>3. (received \o Contents) \o <<item[t]>> = received \o (Contents \o <<item[t]>>)
    BY <1>1, <2>1, ConcatAssociative
  <2> QED
    BY <1>2, <1>8, <2>1, <2>2, <2>3
<1>10. \A u \in Threads : ringpc'[u] \in {"push", "notFull"} => item'[u] \in Values
  BY <1>2 DEF RingInv, RingTypeOK
<1>11. Len(Contents) + 1 \in 0..Capacity
  BY <1>1, ContentsFacts
<1> QED
  BY <1>1, <1>2, <1>5, <1>6, <1>7, <1>8, <1>9, <1>10, <1>11 DEF RingInv, FIFO!Push

(* RingBufferMPMC::pop takes the oldest value, and it is one that was       *)
(* pushed.                                                                  *)
LEMMA PopPops ==
    ASSUME RingInv, NEW t \in Threads, Pop(t)
    PROVE  /\ FIFO!Pop /\ RingInv'
           /\ item'[t] \in Values /\ received' = Append(received, item'[t])
<1>1. /\ count \in 1..Capacity /\ Capacity \in Nat /\ Capacity > 0
      /\ front \in Indices /\ rear = Place(count + 1) /\ rear \in Indices
      /\ received \in Seq(Values) /\ item \in [Threads -> Values \cup {Nothing}]
      /\ \A i \in 1..count : slots[Place(i)] \in Values
  BY CapacityAssumption DEF RingInv, RingTypeOK, Pop
<1>2. /\ item' = [item EXCEPT ![t] = slots[front]]
      /\ front' = (front + 1) % Capacity /\ rear' = rear /\ count' = count - 1
      /\ received' = Append(received, slots[front]) /\ sent' = sent /\ slots' = slots
      /\ ringpc' = [ringpc EXCEPT ![t] = "popped"]
  BY DEF Pop
<1>3. slots[front] \in Values /\ front = Place(1)
  BY <1>1, PlaceFacts
<1>4. /\ front' = IF front + 1 < Capacity THEN front + 1 ELSE front + 1 - Capacity
      /\ front' \in Indices
  <2> DEFINE n == front + 1
  <2>1. n \in 0..(2 * Capacity - 1) /\ front' = n % Capacity
    BY <1>1, <1>2 DEF Indices
  <2> HIDE DEF n
  <2>2. /\ front' = IF n < Capacity THEN n ELSE n - Capacity
        /\ front' \in Indices
    BY <2>1, ModuloWraps, Zenon
  <2> QED
    BY <1>1, <2>2 DEF n, Indices
<1>5. \A i \in 1..Capacity : (front' + i - 1) % Capacity = Place(i + 1)
  <2> SUFFICES ASSUME NEW i \in 1..Capacity
               PROVE  (front' + i - 1) % Capacity = Place(i + 1)
    OBVIOUS
  <2>1. i \in 1..(Capacity + 1) /\ i + 1 \in 1..(Capacity + 1)
    BY <1>1
  <2>2. (front' + i - 1) % Capacity = IF front' + i - 1 < Capacity THEN front' + i - 1
                                                                  ELSE front' + i - 1 - Capacity
    BY <1>4, <2>1, PlaceWraps, Zenon
  <2>3. Place(i + 1) = IF front + (i + 1) - 1 < Capacity THEN front + (i + 1) - 1
                                                        ELSE front + (i + 1) - 1 - Capacity
    BY <1>1, <2>1, PlaceFacts
  <2> QED
    BY <1>1, <1>4, <2>2, <2>3 DEF Indices
<1>6. \A i \in 1..(count - 1) : i + 1 \in 1..count /\ i \in 1..Capacity
  BY <1>1
<1>7. \A i \in 1..count' : Place(i)' = Place(i + 1) /\ slots'[Place(i)'] \in Values
  BY <1>1, <1>2, <1>5, <1>6 DEF Place
<1>8. rear' = Place(count + 1)'
  <2>1. count' + 1 = count /\ count \in 1..Capacity
    BY <1>1, <1>2
  <2>2. Place(count + 1)' = (front' + count - 1) % Capacity
    BY <2>1, Zenon DEF Place
  <2> QED
    BY <1>1, <1>2, <1>5, <2>1, <2>2, Zenon
<1>9. RingTypeOK'
  <2>1. /\ count' \in 0..Capacity /\ received' \in Seq(Values)
        /\ item' \in [Threads -> Values \cup {Nothing}]
    BY <1>1, <1>2, <1>3
  <2> QED
    BY <1>2, <1>4, <2>1 DEF RingInv, RingTypeOK
<1>10. /\ Contents \in Seq(Values) /\ Len(Contents) = count
       /\ \A i \in 1..count : Contents[i] = slots[Place(i)]
  BY <1>1, ContentsFacts
<1>11. /\ Contents # <<>> /\ Head(Contents) = slots[front]
       /\ Tail(Contents) \in Seq(Values) /\ Len(Tail(Contents)) = count - 1
       /\ \A i \in 1..(count - 1) : Tail(Contents)[i] = Contents[i + 1]
  <2>1. Contents # <<>> /\ Contents[1] = slots[front]
    BY <1>1, <1>3, <1>10
  <2> QED
    BY <1>10, <2>1, HeadTailProperties
<1>12. Contents' = Tail(Contents)
  <2>1. Contents' = [i \in 1..(count - 1) |-> slots[Place(i + 1)]]
    BY <1>2, <1>7 DEF Contents
  <2>2. /\ Contents' \in Seq(Values) /\ Len(Contents') = count - 1
        /\ \A i \in 1..(count - 1) : Contents'[i] = slots[Place(i + 1)]
    BY <1>1, <1>6, <2>1
  <2>3. \A i \in 1..(count - 1) : Contents'[i] = Tail(Contents)[i]
    BY <1>6, <1>10, <1>11, <2>2
  <2> QED
    BY <1>11, <2>2, <2>3, SeqEqual
<1>13. sent' = received' \o Contents'
  <2> DEFINE v == slots[front]
  <2>1. Contents = <<v>> \o Tail(Contents)
    <3>1. Contents = <<Head(Contents)>> \o Tail(Contents)
      <4>1. Len(Contents) \in Nat /\ 1 \in 1..Len(Contents) /\ Len(Contents) \in 1..Len(Contents)
        BY <1>1, <1>10
      <4>2. SubSeq(Contents, 1, Len(Contents)) = Contents
        BY <1>10, SubSeqFull
      <4>3. SubSeq(Contents, 1, Len(Contents))
              = <<Contents[1]>> \o SubSeq(Contents, 1 + 1, Len(Contents))
        BY <1>10, <4>1, SubSeqRecursiveFirst
      <4>4. Tail(Contents) = SubSeq(Contents, 2, Len(Contents))
        BY <1>10, <1>11, TailIsSubSeq
      <4>5. Contents[1] = Head(Contents)
        BY <1>10, <1>11
      <4> QED
        BY <4>2, <4>3, <4>4, <4>5
    <3> QED
      BY <3>1, <1>11
  <2>2. received' = received \o <<v>> /\ <<v>> \in Seq(Values)
    BY <1>1, <1>2, <1>3, AppendIsConcat
  <2> HIDE DEF v
  <2>3. (received \o <<v>>) \o Tail(Contents) = received \o (<<v>> \o Tail(Contents))
    BY <1>1, <1>11, <2>2, ConcatAssociative
  <2>4. sent = received \o Contents
    BY DEF RingInv
  <2> QED
    BY <1>2, <1>12, <2>1, <2>2, <2>3, <2>4
<1>14. \A u \in Threads : ringpc'[u] \in {"push", "notFull"} => item'[u] \in Values
  BY <1>2, <1>3 DEF RingInv, RingTypeOK
<1>15. item'[t] = slots[front]
  BY <1>1, <1>2
<1> QED
  BY <1>2, <1>3, <1>7, <1>8, <1>9, <1>11, <1>12, <1>13, <1>14, <1>15 DEF RingInv, FIFO!Pop

(* No other step of the buffer is seen by its users: calls, waits,          *)
(* wake-ups and notifications keep what it holds.                           *)
LEMMA BufferUnchanged ==
    ASSUME RingInv, UNCHANGED bufferVars,
           ringpc' \in [Threads -> {"outside", "push", "notFull", "pushed",
                                    "pop", "notEmpty", "popped"}],
           item' \in [Threads -> Values \cup {Nothing}],
           \A t \in Threads : ringpc'[t] \in {"push", "notFull"} => item'[t] \in Values
    PROVE  RingInv' /\ UNCHANGED <<Contents, sent, received>>
<1>1. /\ slots' = slots /\ front' = front /\ rear' = rear /\ count' = count
      /\ sent' = sent /\ received' = received
  BY DEF bufferVars
<1>2. Place(count + 1)' = Place(count + 1) /\ \A i : Place(i)' = Place(i)
  BY <1>1, Zenon DEF Place
<1>3. Contents' = Contents
  BY <1>1, <1>2 DEF Contents
<1> QED
  BY <1>1, <1>2, <1>3 DEF RingInv, RingTypeOK

-----------------------------------------------------------------------------
(* What is written *)

(* The file grows by the entries that are not for the console only. *)
LEMMA FileGrows ==
    ASSUME NEW output \in Seq(Values), NEW entries \in Seq(Values), NEW e \in Values,
           IsFileOf(output, entries)
    PROVE  IsFileOf(IF e \notin ConsoleOnly THEN Append(output, e) ELSE output,
                    Append(entries, e))
<1> DEFINE m == Len(output)
           n == Len(entries)
           longer == Append(output, e)
           more == Append(entries, e)
<1>1. /\ m \in Nat /\ n \in Nat
      /\ DOMAIN output = 1..m /\ DOMAIN entries = 1..n
  OBVIOUS
<1>2. /\ DOMAIN more = 1..(n + 1) /\ more[n + 1] = e
      /\ \A k \in 1..n : more[k] = entries[k]
  BY AppendProperties
<1>3. /\ DOMAIN longer = 1..(m + 1) /\ longer[m + 1] = e
      /\ \A i \in 1..m : longer[i] = output[i]
  BY AppendProperties
<1> HIDE DEF m, n, longer, more
<1>4. PICK at \in [1..m -> 1..n] :
        /\ \A i, j \in 1..m : i < j => at[i] < at[j]
        /\ \A k \in 1..n : entries[k] \notin ConsoleOnly <=> \E i \in 1..m : at[i] = k
        /\ \A i \in 1..m : output[i] = entries[at[i]]
  BY <1>1, Zenon DEF IsFileOf
<1>5. \A i \in 1..m : at[i] \in 1..n /\ at[i] # n + 1 /\ at[i] \in 1..(n + 1) /\ i # m + 1
  BY <1>1, <1>4
<1>6. \A k \in 1..(n + 1) : k \in 1..n \/ k = n + 1
  BY <1>1
<1>7. CASE e \in ConsoleOnly
  <2>1. at \in [1..m -> 1..(n + 1)]
    BY <1>1, <1>4
  <2>2. \A k \in 1..(n + 1) : more[k] \notin ConsoleOnly <=> \E i \in 1..m : at[i] = k
    BY <1>2, <1>4, <1>5, <1>6, <1>7, Zenon
  <2>3. \A i \in 1..m : output[i] = more[at[i]]
    BY <1>2, <1>4, <1>5
  <2>4. IsFileOf(output, more)
    <3>1. /\ at \in [DOMAIN output -> DOMAIN more]
          /\ \A i, j \in DOMAIN output : i < j => at[i] < at[j]
      BY <1>1, <1>2, <1>4, <2>1
    <3>2. \A k \in DOMAIN more :
            more[k] \notin ConsoleOnly <=> \E i \in DOMAIN output : at[i] = k
      BY <1>1, <1>2, <2>2
    <3>3. \A i \in DOMAIN output : output[i] = more[at[i]]
      BY <1>1, <1>2, <2>3
    <3> QED
      BY <3>1, <3>2, <3>3, Zenon DEF IsFileOf
  <2> QED
    BY <1>7, <2>4 DEF more
<1>8. CASE e \notin ConsoleOnly
  <2> DEFINE at2 == [i \in 1..(m + 1) |-> IF i = m + 1 THEN n + 1 ELSE at[i]]
  <2>1. m + 1 \in 1..(m + 1) /\ n + 1 \in 1..(n + 1) /\ \A i \in 1..m : i \in 1..(m + 1)
    BY <1>1
  <2>2. \A i \in 1..(m + 1) : i \in 1..m \/ i = m + 1
    BY <1>1
  <2>3. at2[m + 1] = n + 1 /\ \A i \in 1..m : at2[i] = at[i]
    BY <1>5, <2>1
  <2>4. at2 \in [1..(m + 1) -> 1..(n + 1)]
    BY <1>5, <2>1, <2>2
  <2> HIDE DEF at2
  <2>5. ASSUME NEW i \in 1..(m + 1), NEW j \in 1..(m + 1), i < j
        PROVE  at2[i] < at2[j]
    <3>1. i \in 1..m
      BY <1>1, <2>5
    <3>2. CASE j \in 1..m
      BY <1>4, <2>3, <2>5, <3>1, <3>2
    <3>3. CASE j = m + 1
      <4>1. at2[i] = at[i] /\ at[i] \in 1..n /\ at2[j] = n + 1
        BY <1>5, <2>3, <3>1, <3>3
      <4> QED
        BY <1>1, <4>1
    <3> QED
      BY <2>2, <3>2, <3>3
  <2>6. \A k \in 1..(n + 1) :
          more[k] \notin ConsoleOnly <=> \E i \in 1..(m + 1) : at2[i] = k
    <3>1. ASSUME NEW k \in 1..n
          PROVE  (\E i \in 1..(m + 1) : at2[i] = k) <=> \E i \in 1..m : at[i] = k
      <4>1. k # n + 1
        BY <1>1
      <4> QED
        BY <2>1, <2>2, <2>3, <4>1, Zenon
    <3>2. more[n + 1] \notin ConsoleOnly /\ \E i \in 1..(m + 1) : at2[i] = n + 1
      BY <1>2, <1>8, <2>1, <2>3
    <3> QED
      BY <1>2, <1>4, <1>6, <3>1, <3>2, Zenon
  <2>7. \A i \in 1..(m + 1) : longer[i] = more[at2[i]]
    <3>1. ASSUME NEW i \in 1..m PROVE longer[i] = more[at2[i]]
      BY <1>2, <1>3, <1>4, <1>5, <2>3
    <3>2. longer[m + 1] = more[at2[m + 1]]
      BY <1>2, <1>3, <2>3
    <3> QED
      BY <2>2, <3>1, <3>2, Zenon
  <2>8. IsFileOf(longer, more)
    <3>1. /\ at2 \in [DOMAIN longer -> DOMAIN more]
          /\ \A i, j \in DOMAIN longer : i < j => at2[i] < at2[j]
      BY <1>2, <1>3, <2>4, <2>5
    <3>2. \A k \in DOMAIN more :
            more[k] \notin ConsoleOnly <=> \E i \in DOMAIN longer : at2[i] = k
      BY <1>2, <1>3, <2>6
    <3>3. \A i \in DOMAIN longer : longer[i] = more[at2[i]]
      BY <1>2, <1>3, <2>7
    <3> QED
      BY <3>1, <3>2, <3>3, Zenon DEF IsFileOf
  <2> QED
    BY <1>8, <2>8 DEF longer, more
<1> QED
  BY <1>7, <1>8

(* Steps that neither pop nor write keep the outputs true to what was       *)
(* popped.                                                                  *)
LEMMA WrittenUnchanged ==
    ASSUME WrittenInv, UNCHANGED <<received, console, file, item[LoggerThread], InHand>>
    PROVE  WrittenInv'
<1>1. Written' = Written
  BY DEF Written
<1>2. IsFileOf(file, Written) => IsFileOf(file, Written)'
  BY <1>1 DEF IsFileOf
<1> QED
  BY <1>1, <1>2 DEF WrittenInv

(* The buffer starts empty and nothing is written. *)
LEMMA LoggerInitInv == ASSUME Init PROVE LoggerInv
<1>1. LoggerThread \in Threads /\ Main \in Threads /\ Clients \subseteq Threads
  BY ThreadsAssumption
<1>2. TypeOK
  BY CapacityAssumption DEF Init, RingInit, TypeOK, RingTypeOK, Indices
<1>3. RingInv
  <2>1. Contents = <<>>
    BY DEF Init, RingInit, Contents
  <2>2. received \o Contents = sent
    BY <2>1 DEF Init, RingInit
  <2>3. 0 \in Indices /\ count = 0 /\ front = 0 /\ rear = 0
    BY CapacityAssumption DEF Init, RingInit, Indices
  <2>4. Place(count + 1) = 0
    <3>1. Place(1) = front
      BY <2>3, PlaceFacts
    <3> QED
      BY <2>3, <3>1
  <2> QED
    BY <1>2, <2>2, <2>3, <2>4 DEF Init, RingInit, RingInv, TypeOK
<1>4. WrittenInv
  <2>1. ~InHand /\ received = <<>> /\ console = <<>> /\ file = <<>>
    BY DEF Init, RingInit, InHand
  <2>2. Written = <<>>
    BY <2>1 DEF Written
  <2>3. IsFileOf(<<>>, <<>>)
    <3>1. DOMAIN <<>> = 1..0 /\ \A i \in 1..0 : FALSE
      OBVIOUS
    <3>2. [i \in 1..0 |-> i] \in [1..0 -> 1..0]
      OBVIOUS
    <3> QED
      BY <3>1, <3>2 DEF IsFileOf
  <2> QED
    BY <2>1, <2>2, <2>3 DEF WrittenInv
<1>5. CallersInv /\ FinishInv
  BY <1>1 DEF Init, RingInit, CallersInv, FinishInv
<1> QED
  BY <1>2, <1>3, <1>4, <1>5 DEF LoggerInv

-----------------------------------------------------------------------------
(* Steps of the threads that log *)

(* Waiting, waking up and notifying move threads between these points.      *)
Moves == {<<"push", "notFull">>, <<"notFull", "push">>, <<"pushed", "outside">>,
          <<"pop", "notEmpty">>, <<"notEmpty", "pop">>, <<"popped", "outside">>}

(* Falling asleep, waking up and returning leave the buffer as it is.       *)
LEMMA MovesInv ==
    ASSUME LoggerInv, UNCHANGED <<bufferVars, item, loggerVars, mainpc>>,
           ringpc' = [t \in Threads |-> ringpc'[t]],
           \A t \in Threads : ringpc'[t] = ringpc[t] \/ <<ringpc[t], ringpc'[t]>> \in Moves
    PROVE  LoggerInv' /\ UNCHANGED <<Contents, sent, received>>
<1>1. /\ ringpc \in [Threads -> {"outside", "push", "notFull", "pushed",
                                  "pop", "notEmpty", "popped"}]
      /\ item' = item /\ item \in [Threads -> Values \cup {Nothing}]
      /\ LoggerThread \in Threads /\ Main \in Threads /\ Clients \subseteq Threads
  BY ThreadsAssumption DEF LoggerInv, TypeOK, RingTypeOK
<1>2. \A t \in Threads :
        /\ ringpc'[t] \in {"outside", "push", "notFull", "pushed", "pop", "notEmpty", "popped"}
        /\ ringpc[t] = "outside" => ringpc'[t] = "outside"
        /\ ringpc'[t] \in {"push", "notFull"} => ringpc[t] \in {"push", "notFull"}
        /\ ringpc[t] \in {"outside", "push", "notFull", "pushed"}
              => ringpc'[t] \in {"outside", "push", "notFull", "pushed"}
        /\ ringpc[t] \in {"outside", "pop", "notEmpty", "popped"}
              => /\ ringpc'[t] \in {"outside", "pop", "notEmpty", "popped"}
                 /\ ringpc'[t] \in {"outside", "popped"} <=> ringpc[t] \in {"outside", "popped"}
  BY <1>1 DEF Moves
<1>3. /\ ringpc' \in [Threads -> {"outside", "push", "notFull", "pushed",
                                   "pop", "notEmpty", "popped"}]
      /\ item' \in [Threads -> Values \cup {Nothing}]
      /\ \A t \in Threads : ringpc'[t] \in {"push", "notFull"} => item'[t] \in Values
  BY <1>1, <1>2 DEF LoggerInv, RingInv
<1>4. RingInv' /\ UNCHANGED <<Contents, sent, received>>
  BY <1>3, BufferUnchanged DEF LoggerInv
<1>5. TypeOK'
  BY <1>4 DEF LoggerInv, TypeOK, RingInv, loggerVars
<1>6. CallersInv'
  BY <1>1, <1>2 DEF LoggerInv, CallersInv, loggerVars
<1>7. WrittenInv'
  <2>1. UNCHANGED <<received, console, file, item[LoggerThread], loggerpc>>
    BY <1>1 DEF bufferVars, loggerVars
  <2>2. InHand' <=> InHand
    BY <1>1, <1>2, <2>1 DEF LoggerInv, CallersInv, InHand
  <2> QED
    BY <2>1, <2>2, WrittenUnchanged DEF LoggerInv
<1>8. FinishInv'
  BY <1>1, <1>2 DEF LoggerInv, FinishInv, bufferVars, loggerVars
<1> QED
  BY <1>4, <1>5, <1>6, <1>7, <1>8 DEF LoggerInv

(* A push: by a client, or by main.                                         *)
LEMMA PushInv ==
    ASSUME LoggerInv, NEW t \in Threads, Push(t), UNCHANGED <<loggerVars, mainpc>>
    PROVE  LoggerInv' /\ FIFO!Push
<1>1. /\ ringpc \in [Threads -> {"outside", "push", "notFull", "pushed",
                                  "pop", "notEmpty", "popped"}]
      /\ LoggerThread \in Threads /\ Main \in Threads /\ Clients \subseteq Threads
  BY ThreadsAssumption DEF LoggerInv, TypeOK, RingTypeOK
<1>2. /\ ringpc[t] = "push" /\ ringpc' = [ringpc EXCEPT ![t] = "pushed"]
      /\ item' = item /\ received' = received
  BY DEF Push
<1>3. t # LoggerThread
  BY <1>2 DEF LoggerInv, CallersInv
<1>4. RingInv' /\ FIFO!Push
  BY PushPushes DEF LoggerInv
<1>5. TypeOK'
  BY <1>4 DEF LoggerInv, TypeOK, RingInv, loggerVars
<1>6. ringpc'[LoggerThread] = ringpc[LoggerThread]
  BY <1>1, <1>2, <1>3
<1>7. CallersInv'
  BY <1>1, <1>2, <1>6 DEF LoggerInv, CallersInv, loggerVars
<1>8. WrittenInv'
  <2>1. UNCHANGED <<received, console, file, item[LoggerThread]>> /\ (InHand' <=> InHand)
    BY <1>2, <1>6 DEF loggerVars, InHand
  <2> QED
    BY <2>1, WrittenUnchanged DEF LoggerInv
<1>9. FinishInv'
  <2>1. mainpc \notin {"joining", "exited"} /\ loggerpc # "ended"
    <3>1. t \in Clients \cup {Main}
      BY <1>3, ThreadsAssumption
    <3>2. mainpc \notin {"joining", "exited"}
      BY <1>2, <3>1 DEF LoggerInv, FinishInv
    <3> QED
      BY <3>2 DEF LoggerInv, FinishInv
  <2>2. \A u \in Clients : ringpc[u] = "outside" => ringpc'[u] = "outside"
    BY <1>1, <1>2
  <2> QED
    BY <2>1, <2>2 DEF LoggerInv, FinishInv, loggerVars
<1> QED
  BY <1>4, <1>5, <1>7, <1>8, <1>9 DEF LoggerInv

(* A pop: only by the logger, which then has an entry in its hands.         *)
LEMMA PopInv ==
    ASSUME LoggerInv, NEW t \in Threads, Pop(t), UNCHANGED <<loggerVars, mainpc>>
    PROVE  LoggerInv' /\ FIFO!Pop
<1>1. /\ ringpc \in [Threads -> {"outside", "push", "notFull", "pushed",
                                  "pop", "notEmpty", "popped"}]
      /\ LoggerThread \in Threads /\ Main \in Threads /\ Clients \subseteq Threads
      /\ received \in Seq(Values)
  BY ThreadsAssumption DEF LoggerInv, TypeOK, RingTypeOK
<1>2. ringpc[t] = "pop" /\ ringpc' = [ringpc EXCEPT ![t] = "popped"]
  BY DEF Pop
<1>3. t = LoggerThread
  BY <1>2, ThreadsAssumption DEF LoggerInv, CallersInv
<1>4. /\ RingInv' /\ FIFO!Pop
      /\ item'[t] \in Values /\ received' = Append(received, item'[t])
  BY PopPops DEF LoggerInv
<1>5. TypeOK'
  BY <1>4 DEF LoggerInv, TypeOK, RingInv, loggerVars
<1>6. CallersInv'
  BY <1>1, <1>2, <1>3, ThreadsAssumption DEF LoggerInv, CallersInv, loggerVars
<1>7. ~InHand /\ loggerpc = "pop" /\ InHand'
  BY <1>1, <1>2, <1>3 DEF LoggerInv, CallersInv, InHand, loggerVars
<1>8. WrittenInv'
  <2>1. Written = received
    BY <1>7 DEF Written
  <2>2. Written' = received
    <3>1. Written' = SubSeq(received', 1, Len(received') - 1)
      BY <1>7 DEF Written
    <3>2. Len(received') - 1 = Len(received) /\ Len(received) \in Nat
      BY <1>1, <1>4, AppendProperties
    <3>3. SubSeq(Append(received, item'[t]), 1, Len(received)) = received
      <4> DEFINE v == item'[t]
      <4>1. v \in Values
        BY <1>4
      <4> HIDE DEF v
      <4>2. /\ Append(received, v) \in Seq(Values)
            /\ Len(Append(received, v)) = Len(received) + 1
            /\ \A i \in 1..Len(received) : Append(received, v)[i] = received[i]
        BY <1>1, <4>1, AppendProperties
      <4>3. /\ SubSeq(Append(received, v), 1, Len(received)) \in Seq(Values)
            /\ Len(SubSeq(Append(received, v), 1, Len(received))) = Len(received)
            /\ \A i \in 1..Len(received) :
                  SubSeq(Append(received, v), 1, Len(received))[i] = Append(received, v)[i]
        BY <1>1, <4>2
      <4>4. SubSeq(Append(received, v), 1, Len(received)) = received
        BY <1>1, <4>2, <4>3, SeqEqual
      <4> QED
        BY <4>4 DEF v
    <3> QED
      BY <1>4, <3>1, <3>2, <3>3
  <2>3. received' = Append(Written', item'[LoggerThread]) /\ item'[LoggerThread] \in Values
    BY <1>3, <1>4, <2>2
  <2>4. console' = console /\ file' = file
    BY DEF loggerVars
  <2>5. IsFileOf(file, Written) => IsFileOf(file, Written)'
    BY <2>1, <2>2, <2>4 DEF IsFileOf
  <2> QED
    BY <2>1, <2>2, <2>3, <2>4, <2>5 DEF LoggerInv, WrittenInv
<1>9. FinishInv'
  <2>1. \A u \in Clients \cup {Main} : ringpc'[u] = ringpc[u]
    BY <1>1, <1>2, <1>3, ThreadsAssumption
  <2>2. loggerpc # "ended"
    BY <1>7
  <2> QED
    BY <2>1, <2>2 DEF LoggerInv, FinishInv, loggerVars
<1> QED
  BY <1>4, <1>5, <1>6, <1>8, <1>9 DEF LoggerInv

(* Steps inside push and pop of the buffer keep it. *)
LEMMA ThreadInv ==
    ASSUME LoggerInv, NEW t \in Threads, RingStep(t) \/ SpuriousWakeup(t),
           UNCHANGED <<loggerVars, mainpc>>
    PROVE  LoggerInv' /\ ([FIFO!Next]_(FIFO!fifoVars))
<1>1. UNCHANGED <<loggerVars, mainpc>>
  OBVIOUS
<1>2. CASE Push(t)
  BY <1>1, <1>2, PushInv DEF FIFO!Next
<1>3. CASE Pop(t)
  BY <1>1, <1>3, PopInv DEF FIFO!Next
<1>4. CASE \/ Wait(t) \/ SpuriousWakeup(t)
           \/ Notify(t, "pushed", "pop") \/ Notify(t, "popped", "push")
  <2>1. UNCHANGED <<bufferVars, item>>
    BY <1>4 DEF Wait, SpuriousWakeup, Notify
  <2>2. ringpc \in [Threads -> {"outside", "push", "notFull", "pushed",
                                "pop", "notEmpty", "popped"}]
    BY DEF LoggerInv, TypeOK, RingTypeOK
  <2> DEFINE both == {"push", "pop"}
  <2>4. /\ DOMAIN MustWait = both /\ DOMAIN Condition = both
        /\ Condition["push"] = "notFull" /\ Condition["pop"] = "notEmpty"
    BY DEF MustWait, Condition
  <2>3. /\ ringpc' = [u \in Threads |-> ringpc'[u]]
        /\ \A u \in Threads : ringpc'[u] = ringpc[u] \/ <<ringpc[u], ringpc'[u]>> \in Moves
    <3>1. CASE Wait(t)
      <4>1. \/ ringpc[t] = "push" /\ ringpc' = [ringpc EXCEPT ![t] = "notFull"]
            \/ ringpc[t] = "pop" /\ ringpc' = [ringpc EXCEPT ![t] = "notEmpty"]
        BY <2>4, <3>1 DEF Wait
      <4> QED
        BY <2>2, <4>1 DEF Moves
    <3>2. CASE SpuriousWakeup(t)
      <4>1. \/ ringpc[t] = "notFull" /\ ringpc' = [ringpc EXCEPT ![t] = "push"]
            \/ ringpc[t] = "notEmpty" /\ ringpc' = [ringpc EXCEPT ![t] = "pop"]
        BY <2>4, <3>2 DEF SpuriousWakeup
      <4> QED
        BY <2>2, <4>1 DEF Moves
    <3>3. CASE Notify(t, "pushed", "pop")
      <4>1. /\ ringpc[t] = "pushed"
            /\ \/ ringpc' = [ringpc EXCEPT ![t] = "outside"]
               \/ \E w \in Threads : /\ ringpc[w] = "notEmpty"
                                     /\ ringpc' = [ringpc EXCEPT ![t] = "outside", ![w] = "pop"]
        BY <3>3 DEF Notify, Condition
      <4> QED
        BY <2>2, <4>1 DEF Moves
    <3>4. CASE Notify(t, "popped", "push")
      <4>1. /\ ringpc[t] = "popped"
            /\ \/ ringpc' = [ringpc EXCEPT ![t] = "outside"]
               \/ \E w \in Threads : /\ ringpc[w] = "notFull"
                                     /\ ringpc' = [ringpc EXCEPT ![t] = "outside", ![w] = "push"]
        BY <3>4 DEF Notify, Condition
      <4> QED
        BY <2>2, <4>1 DEF Moves
    <3> QED
      BY <1>4, <3>1, <3>2, <3>3, <3>4
  <2> QED
    BY <1>1, <2>1, <2>3, MovesInv DEF FIFO!fifoVars
<1> QED
  BY <1>1, <1>2, <1>3, <1>4 DEF RingStep

(* The call of push, by a thread that may still log.                        *)
LEMMA CallPushInv ==
    ASSUME LoggerInv, NEW t \in Clients \cup {Main}, NEW v \in Values, CallPush(t, v),
           UNCHANGED loggerVars,
           \/ /\ mainpc' = mainpc
              /\ mainpc = "serving" \/ (mainpc = "quitting" /\ t # Main)
           \/ /\ mainpc = "quitting" /\ mainpc' = "ending" /\ t = Main
              /\ \A u \in Clients : ringpc[u] = "outside"
    PROVE  LoggerInv' /\ UNCHANGED <<Contents, sent, received>>
<1>1. /\ ringpc \in [Threads -> {"outside", "push", "notFull", "pushed",
                                  "pop", "notEmpty", "popped"}]
      /\ item \in [Threads -> Values \cup {Nothing}]
      /\ LoggerThread \in Threads /\ Main \in Threads /\ Clients \subseteq Threads
      /\ t \in Threads /\ t # LoggerThread /\ Main \notin Clients
  BY ThreadsAssumption DEF LoggerInv, TypeOK, RingTypeOK
<1>2. /\ ringpc' = [ringpc EXCEPT ![t] = "push"] /\ item' = [item EXCEPT ![t] = v]
      /\ UNCHANGED bufferVars
  BY DEF CallPush
<1>3. RingInv' /\ UNCHANGED <<Contents, sent, received>>
  <2>1. /\ ringpc' \in [Threads -> {"outside", "push", "notFull", "pushed",
                                     "pop", "notEmpty", "popped"}]
        /\ item' \in [Threads -> Values \cup {Nothing}]
        /\ \A u \in Threads : ringpc'[u] \in {"push", "notFull"} => item'[u] \in Values
    BY <1>1, <1>2 DEF LoggerInv, RingInv
  <2> QED
    BY <1>2, <2>1, BufferUnchanged DEF LoggerInv
<1>4. TypeOK'
  BY <1>3 DEF LoggerInv, TypeOK, RingInv, loggerVars
<1>5. ringpc'[LoggerThread] = ringpc[LoggerThread] /\ item'[LoggerThread] = item[LoggerThread]
  BY <1>1, <1>2
<1>6. CallersInv'
  BY <1>1, <1>2, <1>5 DEF LoggerInv, CallersInv, loggerVars
<1>7. WrittenInv'
  <2>1. UNCHANGED <<received, console, file, item[LoggerThread]>> /\ (InHand' <=> InHand)
    BY <1>2, <1>5 DEF bufferVars, loggerVars, InHand
  <2> QED
    BY <2>1, WrittenUnchanged DEF LoggerInv
<1>8. FinishInv'
  BY <1>1, <1>2 DEF LoggerInv, FinishInv, bufferVars, loggerVars
<1> QED
  BY <1>3, <1>4, <1>6, <1>7, <1>8 DEF LoggerInv

(* Steps of main and of the logger that leave the buffer and the positions  *)
(* of the threads in it alone.                                              *)
LEMMA OutsideInv ==
    ASSUME LoggerInv, Quit \/ SendFinishSignal \/ Join \/ Top \/ CountZero \/ CheckFinishing
    PROVE  LoggerInv' /\ UNCHANGED <<Contents, sent, received>>
<1>1. UNCHANGED <<ringVars, console, file>>
  BY DEF Quit, SendFinishSignal, Join, Top, CountZero, CheckFinishing, loggerVars
<1>2. /\ ringpc' = ringpc /\ item' = item /\ count' = count /\ UNCHANGED bufferVars
      /\ console' = console /\ file' = file /\ received' = received
  BY <1>1 DEF ringVars, bufferVars
<1>3. RingInv' /\ UNCHANGED <<Contents, sent, received>>
  BY <1>2, BufferUnchanged DEF LoggerInv, RingInv, RingTypeOK
<1>4. TypeOK'
  BY <1>2, <1>3 DEF LoggerInv, TypeOK, RingInv, loggerVars,
                    Quit, SendFinishSignal, Join, Top, CountZero, CheckFinishing
<1>5. (loggerpc # "pop" /\ loggerpc' # "pop") \/ loggerpc' = loggerpc
  BY DEF loggerVars, Quit, SendFinishSignal, Join, Top, CountZero, CheckFinishing
<1>6. CallersInv'
  BY <1>2, <1>5 DEF LoggerInv, CallersInv
<1>7. WrittenInv'
  <2>1. InHand' <=> InHand
    BY <1>2, <1>5 DEF InHand
  <2> QED
    BY <1>2, <2>1, WrittenUnchanged DEF LoggerInv
<1>8. FinishInv'
  BY <1>2 DEF LoggerInv, TypeOK, FinishInv, loggerVars,
              Quit, SendFinishSignal, Join, Top, CountZero, CheckFinishing
<1> QED
  BY <1>3, <1>4, <1>6, <1>7, <1>8 DEF LoggerInv

(* The logger calls pop. *)
LEMMA CountPositiveInv ==
    ASSUME LoggerInv, CountPositive
    PROVE  LoggerInv' /\ UNCHANGED <<Contents, sent, received>>
<1>1. /\ ringpc \in [Threads -> {"outside", "push", "notFull", "pushed",
                                  "pop", "notEmpty", "popped"}]
      /\ item \in [Threads -> Values \cup {Nothing}]
      /\ LoggerThread \in Threads /\ Main \in Threads /\ Clients \subseteq Threads
      /\ LoggerThread \notin Clients \cup {Main}
  BY ThreadsAssumption DEF LoggerInv, TypeOK, RingTypeOK
<1>2. /\ ringpc' = [ringpc EXCEPT ![LoggerThread] = "pop"] /\ item' = item
      /\ UNCHANGED bufferVars /\ loggerpc = "count" /\ loggerpc' = "pop"
      /\ UNCHANGED <<isFinishing, last, console, file, mainpc>>
  BY DEF CountPositive, CallPop
<1>3. RingInv' /\ UNCHANGED <<Contents, sent, received>>
  <2>1. /\ ringpc' \in [Threads -> {"outside", "push", "notFull", "pushed",
                                     "pop", "notEmpty", "popped"}]
        /\ item' \in [Threads -> Values \cup {Nothing}]
        /\ \A u \in Threads : ringpc'[u] \in {"push", "notFull"} => item'[u] \in Values
    BY <1>1, <1>2 DEF LoggerInv, RingInv
  <2> QED
    BY <1>2, <2>1, BufferUnchanged DEF LoggerInv
<1>4. TypeOK'
  BY <1>2, <1>3 DEF LoggerInv, TypeOK, RingInv
<1>5. CallersInv'
  BY <1>1, <1>2 DEF LoggerInv, CallersInv
<1>6. WrittenInv'
  <2>1. UNCHANGED <<received, console, file, item[LoggerThread]>> /\ (InHand' <=> InHand)
    BY <1>1, <1>2 DEF bufferVars, InHand
  <2> QED
    BY <2>1, WrittenUnchanged DEF LoggerInv
<1>7. FinishInv'
  BY <1>1, <1>2 DEF LoggerInv, FinishInv, bufferVars
<1> QED
  BY <1>3, <1>4, <1>5, <1>6, <1>7 DEF LoggerInv

(* The entry in the logger's hands goes to the outputs. *)
LEMMA WriteInv ==
    ASSUME LoggerInv, Write
    PROVE  LoggerInv' /\ UNCHANGED <<Contents, sent, received>>
<1> DEFINE entry == item[LoggerThread]
<1>1. /\ ringpc[LoggerThread] = "outside" /\ loggerpc = "pop" /\ loggerpc' = "count"
      /\ console' = IF ConsoleOutput THEN Append(console, entry) ELSE console
      /\ file' = IF FileLogging /\ entry \notin ConsoleOnly THEN Append(file, entry) ELSE file
      /\ UNCHANGED <<ringVars, isFinishing, last, mainpc>>
  BY DEF Write
<1>2. /\ ringpc' = ringpc /\ item' = item /\ count' = count /\ UNCHANGED bufferVars
      /\ received' = received
  BY <1>1 DEF ringVars, bufferVars
<1>3. RingInv' /\ UNCHANGED <<Contents, sent, received>>
  BY <1>2, BufferUnchanged DEF LoggerInv, RingInv, RingTypeOK
<1>4. InHand /\ ~InHand'
  BY <1>1 DEF InHand
<1>5. /\ entry \in Values /\ received = Append(Written, entry) /\ Written' = received
      /\ received \in Seq(Values) /\ console \in Seq(Values) /\ file \in Seq(Values)
  BY <1>2, <1>4 DEF LoggerInv, WrittenInv, Written, TypeOK, RingTypeOK
<1>6. TypeOK'
  BY <1>1, <1>3, <1>5, SettingsAssumption DEF LoggerInv, TypeOK, RingInv
<1>7. CallersInv'
  BY <1>1, <1>2 DEF LoggerInv, CallersInv
<1>8. WrittenInv'
  <2>1. ConsoleOutput => console' = received
    BY <1>1, <1>5 DEF LoggerInv, WrittenInv
  <2>2. FileLogging => IsFileOf(file', received)
    <3>1. Written \in Seq(Values)
      <4>1. \A i \in 1..(Len(received) - 1) : received[i] \in Values
        BY <1>5
      <4>2. Len(received) \in Nat
        BY <1>5
      <4>3. SubSeq(received, 1, Len(received) - 1) \in Seq(Values)
        BY <4>1, <4>2, SubSeqProperties
      <4> QED
        BY <1>4, <4>3 DEF Written
    <3>2. FileLogging => IsFileOf(file, Written)
      BY DEF LoggerInv, WrittenInv
    <3> HIDE DEF entry
    <3>3. FileLogging => IsFileOf(IF entry \notin ConsoleOnly THEN Append(file, entry) ELSE file,
                                 Append(Written, entry))
      BY <1>5, <3>1, <3>2, FileGrows
    <3> QED
      BY <1>1, <1>5, <3>3
  <2>3. IsFileOf(file', received) => IsFileOf(file, Written)'
    <3> SUFFICES ASSUME IsFileOf(file', received) PROVE IsFileOf(file, Written)'
      OBVIOUS
    <3>1. Written' = received
      BY <1>5
    <3>2. PICK at \in [DOMAIN file' -> DOMAIN received] :
            /\ \A i, j \in DOMAIN file' : i < j => at[i] < at[j]
            /\ \A k \in DOMAIN received :
                  received[k] \notin ConsoleOnly <=> \E i \in DOMAIN file' : at[i] = k
            /\ \A i \in DOMAIN file' : file'[i] = received[at[i]]
      BY Zenon DEF IsFileOf
    <3> HIDE DEF entry
    <3>3. /\ at \in [DOMAIN file' -> DOMAIN Written']
          /\ \A k \in DOMAIN Written' :
                Written'[k] \notin ConsoleOnly <=> \E i \in DOMAIN file' : at[i] = k
          /\ \A i \in DOMAIN file' : file'[i] = Written'[at[i]]
      BY <3>1, <3>2
    <3> QED
      BY <3>2, <3>3, Zenon DEF IsFileOf
  <2>4. Written' = received /\ ~InHand'
    BY <1>4, <1>5
  <2> HIDE DEF entry
  <2> QED
    BY <2>1, <2>2, <2>3, <2>4 DEF WrittenInv
<1>9. FinishInv'
  BY <1>1, <1>2 DEF LoggerInv, FinishInv
<1> QED
  BY <1>3, <1>6, <1>7, <1>8, <1>9 DEF LoggerInv

-----------------------------------------------------------------------------
(* The theorems *)

(* Every step of the logger and its clients keeps it. *)
LEMMA LoggerStepInv ==
    LoggerInv /\ [Next]_vars => LoggerInv' /\ ([FIFO!Next]_(FIFO!fifoVars))
<1> SUFFICES ASSUME LoggerInv, [Next]_vars
             PROVE  LoggerInv' /\ ([FIFO!Next]_(FIFO!fifoVars))
  OBVIOUS
<1>1. CASE UNCHANGED vars
  <2>1. /\ UNCHANGED <<bufferVars, item, loggerVars, mainpc>> /\ ringpc' = ringpc
        /\ ringpc = [t \in Threads |-> ringpc[t]]
    BY <1>1 DEF vars, ringVars, LoggerInv, TypeOK, RingTypeOK
  <2> QED
    BY <2>1, MovesInv DEF FIFO!fifoVars
<1>2. CASE \E t \in Clients \cup {Main} : \E v \in Values : Log(t, v)
  <2>1. PICK t \in Clients \cup {Main}, v \in Values : Log(t, v)
    BY <1>2
  <2>2. /\ CallPush(t, v) /\ UNCHANGED loggerVars /\ mainpc' = mainpc
        /\ mainpc = "serving" \/ (mainpc = "quitting" /\ t # Main)
    BY <2>1 DEF Log
  <2> QED
    BY <2>2, CallPushInv DEF FIFO!fifoVars
<1>3. CASE \E t \in Threads : ThreadStep(t)
  <2>1. PICK t \in Threads : ThreadStep(t)
    BY <1>3
  <2>2. RingStep(t) /\ UNCHANGED <<loggerVars, mainpc>>
    BY <2>1 DEF ThreadStep
  <2> QED
    BY <2>2, ThreadInv
<1>4. CASE \E t \in Threads : SpuriousWakeup(t) /\ UNCHANGED <<loggerVars, mainpc>>
  <2>1. PICK t \in Threads : SpuriousWakeup(t) /\ UNCHANGED <<loggerVars, mainpc>>
    BY <1>4
  <2> QED
    BY <2>1, ThreadInv
<1>5. CASE Quit
  BY <1>5, OutsideInv DEF FIFO!fifoVars
<1>6. CASE MainStep
  <2>1. CASE ServerDestroyed
    <3>1. /\ mainpc = "quitting" /\ mainpc' = "ending" /\ CallPush(Main, Ending)
          /\ UNCHANGED loggerVars /\ \A u \in Clients : ringpc[u] = "outside"
          /\ Ending \in Values /\ Main \in Clients \cup {Main}
      BY <2>1, EntriesAssumption DEF ServerDestroyed
    <3> QED
      BY <3>1, CallPushInv DEF FIFO!fifoVars
  <2>2. CASE SendFinishSignal \/ Join
    BY <2>2, OutsideInv DEF FIFO!fifoVars
  <2> QED
    BY <1>6, <2>1, <2>2 DEF MainStep
<1>7. CASE LoggerStep
  BY <1>7, OutsideInv, CountPositiveInv, WriteInv DEF LoggerStep, FIFO!fifoVars
<1> QED
  BY <1>1, <1>2, <1>3, <1>4, <1>5, <1>6, <1>7 DEF Next

(* Callers, outputs and the finish signal fit together: only the logger     *)
(* pops, what it popped is written but for the entry it holds, and after    *)
(* the signal nobody else is inside the buffer.                             *)
THEOREM LoggerInvariant == Spec => []LoggerInv
<1>1. LoggerInv /\ [Next]_vars => LoggerInv'
  BY LoggerStepInv
<1> QED
  BY <1>1, LoggerInitInv, PTL DEF Spec

(* All variables keep their types, the count of the buffer its capacity. *)
THEOREM LoggerTypes == Spec => []TypeOK
<1>1. LoggerInv => TypeOK
  BY DEF LoggerInv
<1> QED
  BY <1>1, LoggerInvariant, PTL

(* RingBufferMPMC, with threads that wait, are woken late, spuriously or in *)
(* any order, is a FIFO of Capacity places.                                 *)
THEOREM BufferImplementsFIFO == Spec => ImplementsFIFO
<1>1. Init => FIFO!Init
  <2> SUFFICES ASSUME Init PROVE FIFO!Init
    OBVIOUS
  <2>1. Contents = <<>>
    BY DEF Init, RingInit, Contents
  <2> QED
    BY <2>1 DEF Init, RingInit, FIFO!Init
<1>2. LoggerInv /\ [Next]_vars => [FIFO!Next]_(FIFO!fifoVars)
  BY LoggerStepInv
<1> QED
  BY <1>1, <1>2, LoggerInvariant, PTL DEF Spec, ImplementsFIFO, FIFO!Spec

(* Logger::run and shutdown: once main has joined the logger, everything    *)
(* anybody logged is written, in order.  The last processLogs runs after    *)
(* the signal, and the signal comes when no other thread logs any more.     *)
THEOREM NothingLoggedIsLost == Spec => []EverythingWrittenAtExit
<1>1. LoggerInv => EverythingWrittenAtExit
  <2> SUFFICES ASSUME LoggerInv, mainpc = "exited" PROVE EverythingWrittenAtExit
    BY DEF EverythingWrittenAtExit
  <2>1. loggerpc = "ended" /\ count = 0
    BY DEF LoggerInv, FinishInv
  <2>2. Contents = <<>> /\ sent = received \o Contents /\ received \in Seq(Values)
    BY <2>1 DEF Contents, LoggerInv, RingInv, RingTypeOK
  <2>3. sent = received
    BY <2>2, ConcatEmptySeq
  <2>4. Written = received
    BY <2>1 DEF Written, InHand
  <2> QED
    BY <2>3, <2>4 DEF LoggerInv, WrittenInv, EverythingWrittenAtExit
<1> QED
  BY <1>1, LoggerInvariant, PTL
=============================================================================
