---------------------------- MODULE WorkerRings ----------------------------
(***************************************************************************)
(* The rings of the thread pool as the matcher uses them: every worker has *)
(* a RingBufferSPSCLockFree of its own and takes tasks from it; submitTask *)
(* pushes on it, called by the dispatcher and by the worker itself, which  *)
(* submits a cancel again.  That makes two producers of a ring written for *)
(* one.                                                                    *)
(*                                                                         *)
(* A push is three steps, so that two of them can overlap: tryPush has     *)
(* found room; the slot is filled; m_write is stored.  A tryPush that      *)
(* finds the ring full is tried again: it is no step.  Loading m_write and *)
(* looking at m_read is one step, for between the two there can only be    *)
(* more room.  A pop is one step, for a pop only frees the slot that it    *)
(* has copied.  SPSCRing has each access as a step of its own, and         *)
(* ThreadPool all that its two producers can do to each other.             *)
(***************************************************************************)
EXTENDS Integers, Sequences

CONSTANTS Workers,     \* each has a ring
          Pushers,     \* the threads that call submitTask
          RingSize,    \* m_workQueueSizePerThread: the slots; one stays free
          NoTask       \* in a slot to which no task was ever written

VARIABLES
    rings,        \* m_threadQueues
    push,         \* where each thread is in push
    overlapped    \* history: two threads have been inside push of one ring

ringVars == <<rings, push, overlapped>>

Indices == 0..(RingSize - 1)

incrementNoWrap(n) == n + 1      \* for mutation

increment(n) == (n + 1) % RingSize

Outside == [step |-> "outside"]
Pushing == [step : {"fill", "store"}, ring : Workers, tail : Indices]

RingTypes(Tasks) ==
    /\ rings \in [Workers -> [slots : [Indices -> Tasks \cup {NoTask}],
                              write : Indices, read : Indices]]
    /\ push \in [Pushers -> Pushing \cup {Outside}]
    /\ overlapped \in BOOLEAN

RingsInit ==
    /\ rings = [w \in Workers |->
                   [slots |-> [i \in Indices |-> NoTask], write |-> 0, read |-> 0]]
    /\ push = [p \in Pushers |-> Outside]
    /\ overlapped = FALSE

IsFull(w) == increment(rings[w].write) = rings[w].read
IsEmpty(w) == rings[w].write = rings[w].read
Front(w) == rings[w].slots[rings[w].read]

IsPushing(p, w) == push[p] # Outside /\ push[p].ring = w

FindRoom(p, w) ==
    /\ push[p] = Outside
    /\ ~IsFull(w)
    /\ push' = [push EXCEPT ![p] = [step |-> "fill", ring |-> w, tail |-> rings[w].write]]
    /\ overlapped' = (overlapped \/ \E q \in Pushers : IsPushing(q, w))
    /\ UNCHANGED rings

FillSlot(p, task) ==
    /\ push[p].step = "fill"
    /\ rings' = [rings EXCEPT ![push[p].ring].slots[push[p].tail] = task]
    /\ push' = [push EXCEPT ![p].step = "store"]
    /\ UNCHANGED overlapped

StoreWrite(p) ==
    /\ push[p].step = "store"
    /\ rings' = [rings EXCEPT ![push[p].ring].write = increment(push[p].tail)]
    /\ push' = [push EXCEPT ![p] = Outside]
    /\ UNCHANGED overlapped

(* tryPop that finds a task, Front(w).                                      *)
PopFront(w) ==
    /\ ~IsEmpty(w)
    /\ rings' = [rings EXCEPT ![w].read = increment(@)]
    /\ UNCHANGED <<push, overlapped>>

(* What is in a ring, as a queue: SPSCRing says so of pushes that do not    *)
(* overlap.                                                                 *)
Used(w) ==
    IF rings[w].write >= rings[w].read THEN rings[w].write - rings[w].read
                                       ELSE rings[w].write - rings[w].read + RingSize
SlotOf(w, i) ==
    IF rings[w].read + i - 1 < RingSize THEN rings[w].read + i - 1
                                        ELSE rings[w].read + i - 1 - RingSize
Contents(w) == [i \in 1..Used(w) |-> rings[w].slots[SlotOf(w, i)]]

(* The rings while no two pushes have overlapped: at most one thread is     *)
(* inside push of a ring, m_write is what it loaded, it has found room, and *)
(* every slot in use holds a task.                                          *)
RingsInv(Tasks) ==
    /\ \A p, q \in Pushers : \A w \in Workers : IsPushing(p, w) /\ IsPushing(q, w) => p = q
    /\ \A p \in Pushers : \A w \in Workers :
          IsPushing(p, w) => push[p].tail = rings[w].write /\ ~IsFull(w)
    /\ \A w \in Workers : \A i \in 1..Used(w) : rings[w].slots[SlotOf(w, i)] \in Tasks
=============================================================================
