--------------------------- MODULE RingBufferMPMC ---------------------------
(***************************************************************************)
(* RingBufferMPMC (concurrent/ring_buffer_mpmc.hpp): the bounded buffer of *)
(* log entries.  One mutex, held from the lock to the unlock or to a wait, *)
(* makes each critical section one step; what is between them, waking up   *)
(* included, is not protected.  Waits may end without a notification.      *)
(***************************************************************************)
EXTENDS Integers, Sequences

CONSTANTS Threads, Values,
          Capacity,     \* m_capacity, asserted to be positive
          Nothing       \* no value

ASSUME CapacityAssumption == Capacity \in Nat \ {0}
ASSUME NothingAssumption == Nothing \notin Values

VARIABLES
    slots, front, rear, count,   \* m_buffer, m_front, m_rear, m_count
    ringpc,                      \* where each thread is in push or pop
    item,                        \* its argument of push, its result of pop
    sent, received               \* history: values in the order of push and pop

bufferVars == <<slots, front, rear, count, sent, received>>
ringVars == <<bufferVars, ringpc, item>>

Indices == 0..(Capacity - 1)

RingTypeOK ==
    /\ slots \in [Indices -> Values \cup {Nothing}]
    /\ front \in Indices
    /\ rear \in Indices
    /\ count \in 0..Capacity
    /\ ringpc \in [Threads -> {"outside", "push", "notFull", "pushed",
                               "pop", "notEmpty", "popped"}]
    /\ item \in [Threads -> Values \cup {Nothing}]
    /\ sent \in Seq(Values)
    /\ received \in Seq(Values)

RingInit ==
    /\ slots = [i \in Indices |-> Nothing]
    /\ front = 0
    /\ rear = 0
    /\ count = 0
    /\ ringpc = [t \in Threads |-> "outside"]
    /\ item = [t \in Threads |-> Nothing]
    /\ sent = <<>>
    /\ received = <<>>

(* The call of push with its argument, and of pop. *)
CallPush(t, v) ==
    /\ ringpc[t] = "outside"
    /\ ringpc' = [ringpc EXCEPT ![t] = "push"]
    /\ item' = [item EXCEPT ![t] = v]
    /\ UNCHANGED bufferVars

CallPop(t) ==
    /\ ringpc[t] = "outside"
    /\ ringpc' = [ringpc EXCEPT ![t] = "pop"]
    /\ UNCHANGED <<item, bufferVars>>

(* The predicate of the wait is false: sleep on m_notFull or m_notEmpty.    *)
Condition == [push |-> "notFull", pop |-> "notEmpty"]
MustWait == [push |-> count = Capacity, pop |-> count = 0]

Wait(t) ==
    /\ ringpc[t] \in DOMAIN MustWait
    /\ MustWait[ringpc[t]]
    /\ ringpc' = [ringpc EXCEPT ![t] = Condition[ringpc[t]]]
    /\ UNCHANGED <<item, bufferVars>>

SpuriousWakeup(t) ==
    /\ \E call \in DOMAIN Condition :
        /\ ringpc[t] = Condition[call]
        /\ ringpc' = [ringpc EXCEPT ![t] = call]
    /\ UNCHANGED <<item, bufferVars>>

PushNoWrap(t) ==      \* for mutation
    /\ ringpc[t] = "push"
    /\ count # Capacity
    /\ slots' = [slots EXCEPT ![rear] = item[t]]
    /\ rear' = rear + 1
    /\ count' = count + 1
    /\ sent' = Append(sent, item[t])
    /\ ringpc' = [ringpc EXCEPT ![t] = "pushed"]
    /\ UNCHANGED <<front, item, received>>

PushAnyway(t) ==      \* for mutation: the wait is left without a second look
    /\ ringpc[t] = "push"
    /\ slots' = [slots EXCEPT ![rear] = item[t]]
    /\ rear' = (rear + 1) % Capacity
    /\ count' = count + 1
    /\ sent' = Append(sent, item[t])
    /\ ringpc' = [ringpc EXCEPT ![t] = "pushed"]
    /\ UNCHANGED <<front, item, received>>

Push(t) ==
    /\ ringpc[t] = "push"
    /\ count # Capacity
    /\ slots' = [slots EXCEPT ![rear] = item[t]]
    /\ rear' = (rear + 1) % Capacity
    /\ count' = count + 1
    /\ sent' = Append(sent, item[t])
    /\ ringpc' = [ringpc EXCEPT ![t] = "pushed"]
    /\ UNCHANGED <<front, item, received>>

Pop(t) ==
    /\ ringpc[t] = "pop"
    /\ count # 0
    /\ item' = [item EXCEPT ![t] = slots[front]]
    /\ front' = (front + 1) % Capacity
    /\ count' = count - 1
    /\ received' = Append(received, slots[front])
    /\ ringpc' = [ringpc EXCEPT ![t] = "popped"]
    /\ UNCHANGED <<slots, rear, sent>>

NotifyForgotten(t, done, woken) ==      \* for mutation
    /\ ringpc[t] = done
    /\ ringpc' = [ringpc EXCEPT ![t] = "outside"]
    /\ UNCHANGED <<item, bufferVars>>

(* notify_one, after the unlock: a thread asleep on the condition of the    *)
(* other call, if there is one, goes back to its predicate.                 *)
Notify(t, done, woken) ==
    /\ ringpc[t] = done
    /\ LET asleep == {w \in Threads : ringpc[w] = Condition[woken]}
       IN  IF asleep = {}
           THEN ringpc' = [ringpc EXCEPT ![t] = "outside"]
           ELSE \E w \in asleep :
                   ringpc' = [ringpc EXCEPT ![t] = "outside", ![w] = woken]
    /\ UNCHANGED <<item, bufferVars>>

RingStep(t) ==
    \/ Wait(t)
    \/ Push(t)
    \/ Pop(t)
    \/ Notify(t, "pushed", "pop")
    \/ Notify(t, "popped", "push")

-----------------------------------------------------------------------------
(* The buffer is a FIFO of Capacity places: the counter, not the indices,   *)
(* tells full from empty.  Pushes that wait, pushes that find room and pops *)
(* wrap around it in any order.                                             *)
Place(i) == (front + i - 1) % Capacity
Contents == [i \in 1..count |-> slots[Place(i)]]
FIFO == INSTANCE BoundedFIFO WITH queue <- Contents, Sizes <- 0..Capacity
ImplementsFIFO == FIFO!Spec

(* The inductive invariant of the proofs: the places in use hold values,    *)
(* and the next push goes to the one behind them.                           *)
RingInv ==
    /\ RingTypeOK
    /\ rear = Place(count + 1)
    /\ \A i \in 1..count : slots[Place(i)] \in Values
    /\ \A t \in Threads : ringpc[t] \in {"push", "notFull"} => item[t] \in Values
    /\ sent = received \o Contents
=============================================================================
