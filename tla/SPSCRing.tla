------------------------------ MODULE SPSCRing ------------------------------
(***************************************************************************)
(* RingBufferSPSCLockFree (concurrent/ring_buffer_spsc_lockfree.hpp): the  *)
(* queue in front of every worker of the thread pool.                      *)
(*                                                                         *)
(* tryPush and tryPop are split at their accesses to shared memory: the    *)
(* two indices (atomics) and the slots (plain memory).  The acquire and    *)
(* release orderings make a slot's content visible with the index that     *)
(* publishes it, so interleaving the accesses one at a time loses nothing  *)
(* as long as no two threads touch one slot at once; NoSlotRace says so.   *)
(*                                                                         *)
(* The class is written for one producer.  Producers is a set so that      *)
(* ThreadPool can show what its callers do with it.                        *)
(***************************************************************************)
EXTENDS Integers, Sequences

CONSTANTS Producers,   \* the threads that call push
          Values,      \* what is queued
          Capacity,    \* m_capacity, the number of slots
          MaxPushes,   \* bound: completed pushes after which none is begun
          Nothing      \* a slot, or a local, nothing was put in yet

ASSUME CapacityAssumption == Capacity \in Nat \ {0}
ASSUME MaxPushesAssumption == MaxPushes \in Nat
ASSUME NothingAssumption == Nothing \notin Values

VARIABLES
    write, read,   \* m_write, m_read
    slots,         \* m_buffer
    ppc,           \* where each producer is in push
    tail,          \* its current_tail
    val,           \* its argument
    cpc,           \* where the consumer is in tryPop
    head,          \* its currentHead
    element,       \* *element, what tryPop hands to its caller
    sent,          \* history: arguments of the pushes, as they complete
    received       \* history: results of the pops, as they complete

producerVars == <<write, ppc, tail, val, sent>>
consumerVars == <<read, cpc, head, element, received>>
vars == <<write, read, slots, ppc, tail, val, cpc, head, element, sent, received>>

Indices == 0..(Capacity - 1)

TypeOK ==
    /\ write \in Indices
    /\ read \in Indices
    /\ slots \in [Indices -> Values \cup {Nothing}]
    /\ ppc \in [Producers -> {"idle", "load", "check", "write", "store"}]
    /\ tail \in [Producers -> Indices]
    /\ val \in [Producers -> Values \cup {Nothing}]
    /\ cpc \in {"idle", "check", "read", "store"}
    /\ head \in Indices
    /\ element \in Values \cup {Nothing}
    /\ \A p \in Producers : ppc[p] # "idle" => val[p] \in Values
    /\ sent \in Seq(Values)
    /\ received \in Seq(Values \cup {Nothing})    \* whatever the slots held

Init ==
    /\ write = 0
    /\ read = 0
    /\ slots = [i \in Indices |-> Nothing]
    /\ ppc = [p \in Producers |-> "idle"]
    /\ tail = [p \in Producers |-> 0]
    /\ val = [p \in Producers |-> Nothing]
    /\ cpc = "idle"
    /\ head = 0
    /\ element = Nothing
    /\ sent = <<>>
    /\ received = <<>>

incrementNoWrap(n) == n + 1    \* for mutation
increment(n) == (n + 1) % Capacity

-----------------------------------------------------------------------------
(* push: tryPush until it succeeds *)

StartPush(p, v) ==
    /\ ppc[p] = "idle"
    /\ Len(sent) < MaxPushes
    /\ val' = [val EXCEPT ![p] = v]
    /\ ppc' = [ppc EXCEPT ![p] = "load"]
    /\ UNCHANGED <<write, slots, tail, sent, consumerVars>>

LoadWrite(p) ==
    /\ ppc[p] = "load"
    /\ tail' = [tail EXCEPT ![p] = write]
    /\ ppc' = [ppc EXCEPT ![p] = "check"]
    /\ UNCHANGED <<write, slots, val, sent, consumerVars>>

(* Variants for mutation: never full; full when it is empty. *)
CheckReadNeverFull(p) ==
    /\ ppc[p] = "check"
    /\ ppc' = [ppc EXCEPT ![p] = "write"]
    /\ UNCHANGED <<write, slots, tail, val, sent, consumerVars>>

CheckReadEmpty(p) ==
    /\ ppc[p] = "check"
    /\ ppc' = [ppc EXCEPT ![p] = IF tail[p] # read THEN "write" ELSE "load"]
    /\ UNCHANGED <<write, slots, tail, val, sent, consumerVars>>

(* Full: tryPush returns false and push calls it again. *)
CheckRead(p) ==
    /\ ppc[p] = "check"
    /\ ppc' = [ppc EXCEPT ![p] = IF increment(tail[p]) # read THEN "write" ELSE "load"]
    /\ UNCHANGED <<write, slots, tail, val, sent, consumerVars>>

WriteSlotNext(p) ==                \* for mutation: the slot after current_tail
    /\ ppc[p] = "write"
    /\ slots' = [slots EXCEPT ![increment(tail[p])] = val[p]]
    /\ ppc' = [ppc EXCEPT ![p] = "store"]
    /\ UNCHANGED <<write, tail, val, sent, consumerVars>>

WriteSlot(p) ==
    /\ ppc[p] = "write"
    /\ slots' = [slots EXCEPT ![tail[p]] = val[p]]
    /\ ppc' = [ppc EXCEPT ![p] = "store"]
    /\ UNCHANGED <<write, tail, val, sent, consumerVars>>

StoreWrite(p) ==
    /\ ppc[p] = "store"
    /\ write' = increment(tail[p])
    /\ sent' = Append(sent, val[p])
    /\ ppc' = [ppc EXCEPT ![p] = "idle"]
    /\ UNCHANGED <<slots, tail, val, consumerVars>>

PushStep(p) == LoadWrite(p) \/ CheckRead(p) \/ WriteSlot(p) \/ StoreWrite(p)

-----------------------------------------------------------------------------
(* tryPop *)

LoadRead ==
    /\ cpc = "idle"
    /\ head' = read
    /\ cpc' = "check"
    /\ UNCHANGED <<slots, read, element, received, producerVars>>

CheckWriteOffByOne ==              \* for mutation: the last element stays
    /\ cpc = "check"
    /\ cpc' = IF head = write \/ increment(head) = write THEN "idle" ELSE "read"
    /\ UNCHANGED <<slots, read, head, element, received, producerVars>>

(* Empty: tryPop returns false. *)
CheckWrite ==
    /\ cpc = "check"
    /\ cpc' = IF head = write THEN "idle" ELSE "read"
    /\ UNCHANGED <<slots, read, head, element, received, producerVars>>

ReadSlot ==
    /\ cpc = "read"
    /\ element' = slots[head]
    /\ cpc' = "store"
    /\ UNCHANGED <<slots, read, head, received, producerVars>>

StoreReadForgotten ==              \* for mutation: m_read stays
    /\ cpc = "store"
    /\ received' = Append(received, element)
    /\ cpc' = "idle"
    /\ UNCHANGED <<slots, read, head, element, producerVars>>

StoreRead ==
    /\ cpc = "store"
    /\ read' = increment(head)
    /\ received' = Append(received, element)
    /\ cpc' = "idle"
    /\ UNCHANGED <<slots, head, element, producerVars>>

PopStep == LoadRead \/ CheckWrite \/ ReadSlot \/ StoreRead

Next ==
    \/ \E p \in Producers : (\E v \in Values : StartPush(p, v)) \/ PushStep(p)
    \/ PopStep

Spec == Init /\ [][Next]_vars

(* Both threads run: the producer inside push, the consumer in its loop.    *)
FairSpec ==
    /\ Spec
    /\ \A p \in Producers : WF_vars(PushStep(p))
    /\ WF_vars(PopStep)

-----------------------------------------------------------------------------
(* Properties *)

(* No slot is written while it is read or written by another thread: the    *)
(* slots are plain memory, only the indices keep the threads apart.         *)
NoSlotRace ==
    \A p \in Producers :
        ppc[p] = "write" =>
            /\ ~(cpc = "read" /\ head = tail[p])
            /\ \A q \in Producers \ {p} : ~(ppc[q] = "write" /\ tail[q] = tail[p])

(* The published slots, oldest first: from read up to write, wrapping.      *)
Used == IF write >= read THEN write - read ELSE write - read + Capacity
SlotOf(i) == IF read + i - 1 < Capacity THEN read + i - 1 ELSE read + i - 1 - Capacity
Contents == [i \in 1..Used |-> slots[SlotOf(i)]]

(* The ring implements a FIFO of Capacity - 1 places: one slot stays free   *)
(* to tell full from empty.  A push takes effect when it stores m_write, a  *)
(* pop when it stores m_read.                                               *)
FIFO == INSTANCE BoundedFIFO WITH queue <- Contents, Sizes <- 0..(Capacity - 1)
ImplementsFIFO == FIFO!Spec

(* The class's condition, no wider than it has to be: once a push has found *)
(* room, no other push has loaded m_write.  Pushes that only spin on a full *)
(* ring do not disturb each other.                                          *)
OneProducer ==
    \A p, q \in Producers :
        p # q /\ ppc[p] \in {"write", "store"} => ppc[q] \in {"idle", "load"}

(* The inductive invariant of the proofs, while that is so: what a producer *)
(* and the consumer have read of the indices still holds when they act on   *)
(* it.                                                                      *)
Settled(p) ==
    /\ ppc[p] \in {"check", "write", "store"} => tail[p] = write
    /\ ppc[p] \in {"write", "store"} => increment(write) # read
    /\ ppc[p] = "store" => slots[write] = val[p]
    /\ cpc # "idle" => head = read
    /\ cpc \in {"read", "store"} => read # write
    /\ cpc = "store" => element = slots[read]
    /\ \A i \in 1..Used : slots[SlotOf(i)] \in Values

RingInv == TypeOK /\ \A p \in Producers : Settled(p)

(* A push that finds the ring full spins until the consumer frees a slot;   *)
(* with one producer it always gets through, and its value comes out.       *)
PushCompletes == \A p \in Producers : ppc[p] = "load" ~> ppc[p] = "idle"
EverythingIsReceived == []<>(received = sent)
=============================================================================
