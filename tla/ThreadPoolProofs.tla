-------------------------- MODULE ThreadPoolProofs --------------------------
(***************************************************************************)
(* Proofs about ThreadPool, for every script of tasks, with rescheduled    *)
(* cancels anywhere in it, and every capacity.  Types and the order of the *)
(* shutdown hold whatever happens in the ring; what the ring keeps, it     *)
(* keeps until two pushes have overlapped.                                 *)
(***************************************************************************)
EXTENDS ThreadPool, SequenceTheorems, TLAPS

RingFacts == INSTANCE SPSCRingProofs WITH Producers <- Threads, Values <- Tasks

(* The instance that has the proofs is the instance that the pool uses.     *)
LEMMA SameRing ==
    /\ (Ring!Init <=> RingFacts!Init) /\ (Ring!TypeOK <=> RingFacts!TypeOK)
    /\ (Ring!RingInv <=> RingFacts!RingInv) /\ (Ring!RingInv' <=> RingFacts!RingInv')
    /\ (Ring!OneProducer <=> RingFacts!OneProducer)
    /\ Ring!Contents = RingFacts!Contents /\ Ring!Contents' = RingFacts!Contents'
    /\ \A p \in Threads, v \in Tasks : Ring!StartPush(p, v) <=> RingFacts!StartPush(p, v)
    /\ \A p \in Threads : /\ Ring!PushStep(p) <=> RingFacts!PushStep(p)
                          /\ Ring!LoadWrite(p) <=> RingFacts!LoadWrite(p)
                          /\ Ring!CheckRead(p) <=> RingFacts!CheckRead(p)
                          /\ Ring!WriteSlot(p) <=> RingFacts!WriteSlot(p)
                          /\ Ring!StoreWrite(p) <=> RingFacts!StoreWrite(p)
    /\ (Ring!PopStep <=> RingFacts!PopStep) /\ (Ring!LoadRead <=> RingFacts!LoadRead)
    /\ (Ring!CheckWrite <=> RingFacts!CheckWrite) /\ (Ring!ReadSlot <=> RingFacts!ReadSlot)
    /\ (Ring!StoreRead <=> RingFacts!StoreRead)
BY DEF Ring!Init, RingFacts!Init, Ring!TypeOK, RingFacts!TypeOK, Ring!RingInv, RingFacts!RingInv,
       Ring!OneProducer, RingFacts!OneProducer, Ring!Settled, RingFacts!Settled, Ring!Indices, RingFacts!Indices,
       Ring!increment, RingFacts!increment, Ring!Used, RingFacts!Used,
       Ring!SlotOf, RingFacts!SlotOf, Ring!Contents, RingFacts!Contents,
       Ring!StartPush, RingFacts!StartPush, Ring!PushStep, RingFacts!PushStep,
       Ring!LoadWrite, RingFacts!LoadWrite, Ring!CheckRead, RingFacts!CheckRead,
       Ring!WriteSlot, RingFacts!WriteSlot, Ring!StoreWrite, RingFacts!StoreWrite,
       Ring!PopStep, RingFacts!PopStep, Ring!LoadRead, RingFacts!LoadRead,
       Ring!CheckWrite, RingFacts!CheckWrite, Ring!ReadSlot, RingFacts!ReadSlot,
       Ring!StoreRead, RingFacts!StoreRead,
       Ring!producerVars, RingFacts!producerVars, Ring!consumerVars, RingFacts!consumerVars

-----------------------------------------------------------------------------
(* What the proofs about the ring say of the pool's ring *)

(* An empty ring satisfies the ring's invariant. *)
LEMMA RingStarts == Ring!Init => Ring!RingInv
BY SameRing, RingFacts!InitInv, CapacityAssumption, MaxPushesAssumption, NothingAssumption

(* No step of push or tryPop puts anything but tasks into the ring. *)
LEMMA RingKeepsTypes ==
    ASSUME Ring!TypeOK,
           \/ \E p \in Threads : (\E v \in Tasks : Ring!StartPush(p, v)) \/ Ring!PushStep(p)
           \/ Ring!PopStep
    PROVE  Ring!TypeOK'
<1>1. RingFacts!TypeOK /\ RingFacts!Next
  BY SameRing DEF RingFacts!Next
<1>2. RingFacts!TypeOK'
  BY <1>1, RingFacts!TypeStep, CapacityAssumption, MaxPushesAssumption, NothingAssumption
<1>3. Ring!TypeOK' <=> RingFacts!TypeOK'
  BY DEF Ring!TypeOK, RingFacts!TypeOK, Ring!Indices, RingFacts!Indices
<1> QED
  BY <1>2, <1>3

(* A step of push keeps the invariant while no two pushes overlap. *)
LEMMA PushKeepsRing ==
    ASSUME Ring!RingInv, Ring!OneProducer, NEW p \in Threads,
           (\E v \in Tasks : Ring!StartPush(p, v)) \/ Ring!PushStep(p)
    PROVE  Ring!RingInv'
BY SameRing, RingFacts!ProducerInv, CapacityAssumption, MaxPushesAssumption, NothingAssumption

(* A step of tryPop keeps it. *)
LEMMA PopKeepsRing == ASSUME Ring!RingInv, Ring!PopStep PROVE Ring!RingInv'
<1>1. "worker" \in Threads
  BY DEF Threads
<1> QED
  BY <1>1, SameRing, RingFacts!ConsumerInv,
     CapacityAssumption, MaxPushesAssumption, NothingAssumption

(* A push that completes puts its task behind what the ring holds. *)
LEMMA PushAppends ==
    ASSUME Ring!RingInv, Ring!RingInv', NEW p \in Threads, Ring!StoreWrite(p)
    PROVE  \E v \in Tasks : Ring!Contents' = Append(Ring!Contents, v) /\ sent' = Append(sent, v)
<1>1. RingFacts!FIFO!Push
  BY SameRing, RingFacts!StoreWritePushes,
     CapacityAssumption, MaxPushesAssumption, NothingAssumption
<1> QED
  BY <1>1, SameRing DEF RingFacts!FIFO!Push

(* A pop that completes takes the oldest task. *)
LEMMA PopTakes ==
    ASSUME Ring!RingInv, Ring!StoreRead
    PROVE  /\ Ring!Contents # <<>> /\ Ring!Contents' = Tail(Ring!Contents)
           /\ received' = Append(received, Head(Ring!Contents)) /\ sent' = sent
<1>1. "worker" \in Threads
  BY DEF Threads
<1>2. RingFacts!FIFO!Pop
  BY <1>1, SameRing, RingFacts!StoreReadPops,
     CapacityAssumption, MaxPushesAssumption, NothingAssumption
<1> QED
  BY <1>2, SameRing DEF RingFacts!FIFO!Pop

(* Every other access to the ring leaves what it holds. *)
LEMMA OthersKeep ==
    ASSUME Ring!RingInv, NEW p \in Threads,
           \/ \E v \in Tasks : Ring!StartPush(p, v)
           \/ Ring!LoadWrite(p) \/ Ring!CheckRead(p) \/ Ring!WriteSlot(p)
           \/ Ring!LoadRead \/ Ring!CheckWrite \/ Ring!ReadSlot
    PROVE  UNCHANGED <<Ring!Contents, sent, received>>
<1>1. UNCHANGED <<RingFacts!Contents, sent, received>>
  BY SameRing, RingFacts!OtherStepsStutter,
     CapacityAssumption, MaxPushesAssumption, NothingAssumption
<1> QED
  BY <1>1, SameRing

(* The ring holds tasks. *)
LEMMA RingHolds ==
    ASSUME Ring!RingInv
    PROVE  /\ Ring!Contents \in Seq(Tasks) /\ DOMAIN Ring!Contents = 1..Len(Ring!Contents)
           /\ Len(Ring!Contents) \in Nat
<1>1. "worker" \in Threads
  BY DEF Threads
<1>2. Ring!Contents \in Seq(Tasks)
  BY <1>1, SameRing, RingFacts!ContentsFacts,
     CapacityAssumption, MaxPushesAssumption, NothingAssumption
<1> QED
  BY <1>2, LenProperties

-----------------------------------------------------------------------------
(* Control *)

(* workerThreadFunction and shutdown: every step leaves the worker and      *)
(* the main thread where their code allows them to be.                      *)
LEMMA ControlStep == ControlInv /\ [Next]_vars => ControlInv'
<1> SUFFICES ASSUME ControlInv, [Next]_vars PROVE ControlInv'
  OBVIOUS
<1>1. /\ "worker" \in Threads /\ "dispatcher" \in Threads
      /\ ppc \in [Threads -> {"idle", "load", "check", "write", "store"}]
      /\ val \in [Threads -> Tasks \cup {Nothing}]
  BY DEF Threads, ControlInv, TypeOK, Ring!TypeOK
<1>2. CASE UNCHANGED vars
  <2>1. Ring!TypeOK'
    BY <1>2 DEF vars, ringVars, ControlInv, TypeOK, Ring!TypeOK, Ring!Indices
  <2> QED
    BY <1>2, <2>1 DEF vars, ringVars, poolVars, ControlInv, TypeOK
<1>3. CASE Next
  <2>1. overlapped' \in BOOLEAN
    BY <1>3 DEF Next, ControlInv, TypeOK
  <2>2. CASE Submit
    <3>1. Script[submitted + 1] \in Tasks /\ submitted + 1 \in 0..Len(Script)
      BY <2>2, ScriptAssumption DEF Submit, Tasks, ControlInv, TypeOK
    <3>2. Ring!TypeOK'
      BY <1>1, <2>2, <3>1, RingKeepsTypes DEF Submit, ControlInv, TypeOK
    <3> QED
      BY <1>1, <2>1, <2>2, <3>1, <3>2 DEF Submit, Ring!StartPush, Ring!consumerVars,
                                          ControlInv, TypeOK
  <2>3. CASE DispatcherStep
    <3>1. Ring!TypeOK'
      BY <1>1, <2>3, RingKeepsTypes DEF DispatcherStep, ControlInv, TypeOK
    <3>2. /\ ppc["dispatcher"] # "idle" /\ ppc'["worker"] = ppc["worker"]
          /\ val' = val /\ UNCHANGED Ring!consumerVars
      BY <1>1, <2>3 DEF DispatcherStep, Ring!PushStep, Ring!LoadWrite, Ring!CheckRead,
                        Ring!WriteSlot, Ring!StoreWrite
    <3> QED
      BY <2>1, <2>3, <3>1, <3>2 DEF DispatcherStep, poolVars, Ring!consumerVars,
                                    ControlInv, TypeOK
  <2>4. CASE WorkerPop
    <3>1. Ring!TypeOK'
      BY <2>4, RingKeepsTypes DEF WorkerPop, ControlInv, TypeOK
    <3>2. UNCHANGED Ring!producerVars
      BY <2>4 DEF WorkerPop, Ring!PopStep, Ring!LoadRead, Ring!CheckWrite, Ring!ReadSlot,
                  Ring!StoreRead
    <3> QED
      BY <2>1, <2>4, <3>1, <3>2 DEF WorkerPop, Ring!producerVars, ControlInv, TypeOK
  <2>5. CASE WorkerReschedule
    <3>1. element \in Tasks
      BY <2>5, ScriptAssumption DEF WorkerReschedule
    <3>2. Ring!TypeOK'
      BY <1>1, <2>5, <3>1, RingKeepsTypes DEF WorkerReschedule, ControlInv, TypeOK
    <3> QED
      BY <1>1, <2>1, <2>5, <3>2 DEF WorkerReschedule, Ring!StartPush, Ring!consumerVars,
                                    ControlInv, TypeOK
  <2>6. CASE WorkerResubmit
    <3>1. Ring!TypeOK'
      BY <1>1, <2>6, RingKeepsTypes DEF WorkerResubmit, ControlInv, TypeOK
    <3>2. /\ ppc'["dispatcher"] = ppc["dispatcher"]
          /\ val' = val /\ UNCHANGED Ring!consumerVars
      BY <1>1, <2>6 DEF WorkerResubmit, Ring!PushStep, Ring!LoadWrite, Ring!CheckRead,
                        Ring!WriteSlot, Ring!StoreWrite
    <3> QED
      BY <2>1, <2>6, <3>1, <3>2 DEF WorkerResubmit, Ring!consumerVars, ControlInv, TypeOK
  <2>7. CASE WorkerTop \/ WorkerAbort \/ WorkerExecute \/ JoinDispatcher \/ Shutdown \/ Join
    <3>1. UNCHANGED ringVars
      BY <2>7 DEF WorkerTop, WorkerAbort, WorkerExecute, JoinDispatcher, Shutdown, Join
    <3>2. Ring!TypeOK'
      BY <3>1 DEF ringVars, ControlInv, TypeOK, Ring!TypeOK, Ring!Indices
    <3>3. executed' \in Seq(Tasks)
      BY <2>7 DEF WorkerTop, WorkerAbort, WorkerExecute, JoinDispatcher, Shutdown, Join,
                  ControlInv, TypeOK
    <3>4. /\ ppc' = ppc /\ cpc' = cpc /\ val' = val /\ element' = element
          /\ submitted' = submitted
      BY <2>7, <3>1 DEF WorkerTop, WorkerAbort, WorkerExecute, JoinDispatcher, Shutdown, Join,
                        ringVars
    <3>5. CASE WorkerTop
      BY <2>1, <3>2, <3>3, <3>4, <3>5 DEF WorkerTop, ControlInv, TypeOK
    <3>6. CASE WorkerAbort \/ WorkerExecute
      BY <2>1, <3>2, <3>3, <3>4, <3>6 DEF WorkerAbort, WorkerExecute, ControlInv, TypeOK
    <3>7. CASE JoinDispatcher
      BY <2>1, <3>2, <3>3, <3>4, <3>7 DEF JoinDispatcher, ControlInv, TypeOK
    <3>8. CASE Shutdown
      BY <2>1, <3>2, <3>3, <3>4, <3>8 DEF Shutdown, ControlInv, TypeOK
    <3>9. CASE Join
      BY <2>1, <3>2, <3>3, <3>4, <3>9 DEF Join, ControlInv, TypeOK
    <3> QED
      BY <2>7, <3>5, <3>6, <3>7, <3>8, <3>9
  <2> QED
    BY <1>3, <2>2, <2>3, <2>4, <2>5, <2>6, <2>7 DEF Next, CodeStep, WorkerStep
<1> QED
  BY <1>2, <1>3

(* ThreadPool::initialise leaves empty rings and idle workers. *)
LEMMA ControlInit == Init => ControlInv
<1> SUFFICES ASSUME Init PROVE ControlInv
  OBVIOUS
<1>1. Ring!TypeOK
  BY RingStarts DEF Init, Ring!RingInv
<1>2. executed \in Seq(Tasks) /\ submitted \in 0..Len(Script)
  BY ScriptAssumption DEF Init
<1> QED
  BY <1>1, <1>2 DEF Init, Ring!Init, TypeOK, ControlInv, Threads

(* This needs nothing of the tasks, nor that pushes do not overlap. *)
LEMMA ControlInvariant == Spec => []ControlInv
BY ControlInit, ControlStep, PTL DEF Spec

(* Whatever pushes overlap: indices stay in the buffer, and only tasks that *)
(* were submitted are ever executed.                                        *)
THEOREM PoolTypes == Spec => []TypeOK
<1>1. ControlInv => TypeOK
  BY DEF ControlInv
<1> QED
  BY <1>1, ControlInvariant, PTL

(* ThreadPool::shutdown: once it has returned the worker is out of its      *)
(* ring, and so is the dispatcher, whatever pushes overlapped before.       *)
THEOREM NobodyInside == Spec => []NobodyInsideAfterJoin
<1>1. ControlInv => NobodyInsideAfterJoin
  BY DEF ControlInv, NobodyInsideAfterJoin, Threads
<1> QED
  BY <1>1, ControlInvariant, PTL

-----------------------------------------------------------------------------
(* Sequences of tasks *)

(* Appending to a sequence adds one element. *)
LEMMA ElementsAppend ==
    ASSUME NEW S, NEW seq \in Seq(S), NEW e \in S
    PROVE  Elements(Append(seq, e)) = Elements(seq) \cup {e}
<1>1. /\ DOMAIN Append(seq, e) = 1..(Len(seq) + 1) /\ DOMAIN seq = 1..Len(seq)
      /\ Append(seq, e)[Len(seq) + 1] = e
      /\ \A i \in 1..Len(seq) : Append(seq, e)[i] = seq[i]
      /\ Len(seq) \in Nat
  BY AppendProperties
<1>2. \A i \in 1..(Len(seq) + 1) : i \in 1..Len(seq) \/ i = Len(seq) + 1
  BY <1>1
<1>3. Len(seq) + 1 \in 1..(Len(seq) + 1) /\ 1..Len(seq) \subseteq 1..(Len(seq) + 1)
  BY <1>1
<1> QED
  BY <1>1, <1>2, <1>3, Zenon DEF Elements

(* Taking the head away takes at most one element. *)
LEMMA ElementsHeadTail ==
    ASSUME NEW S, NEW seq \in Seq(S), seq # <<>>
    PROVE  Elements(seq) = {Head(seq)} \cup Elements(Tail(seq))
<1>1. /\ DOMAIN seq = 1..Len(seq) /\ DOMAIN Tail(seq) = 1..(Len(seq) - 1)
      /\ Len(seq) \in Nat \ {0} /\ Head(seq) = seq[1]
      /\ \A i \in 1..(Len(seq) - 1) : Tail(seq)[i] = seq[i + 1]
  BY HeadTailProperties
<1>2. ASSUME NEW x \in Elements(seq) PROVE x = Head(seq) \/ x \in Elements(Tail(seq))
  <2>1. PICK i \in 1..Len(seq) : x = seq[i]
    BY <1>1 DEF Elements
  <2>2. CASE i = 1
    BY <1>1, <2>1, <2>2
  <2>3. CASE i # 1
    <3>1. i - 1 \in 1..(Len(seq) - 1) /\ (i - 1) + 1 = i
      BY <1>1, <2>3
    <3>2. Tail(seq)[i - 1] = x
      BY <1>1, <2>1, <3>1
    <3> QED
      BY <1>1, <3>1, <3>2 DEF Elements
  <2> QED
    BY <2>2, <2>3
<1>3. ASSUME NEW i \in 1..(Len(seq) - 1) PROVE Tail(seq)[i] \in Elements(seq)
  <2>1. i + 1 \in 1..Len(seq) /\ Tail(seq)[i] = seq[i + 1]
    BY <1>1
  <2> QED
    BY <1>1, <2>1 DEF Elements
<1>4. Head(seq) \in Elements(seq)
  BY <1>1 DEF Elements
<1>5. Elements(Tail(seq)) \subseteq Elements(seq)
  BY <1>1, <1>3, Zenon DEF Elements
<1> QED
  BY <1>2, <1>4, <1>5

(* Who is ahead of whom, after an append and after taking the head.         *)
LEMMA AheadAppend ==
    ASSUME NEW S, NEW seq \in Seq(S), NEW e \in S
    PROVE  /\ DOMAIN Append(seq, e) = 1..(Len(seq) + 1) /\ Len(seq) \in Nat
           /\ \A i \in 1..Len(seq) : /\ Append(seq, e)[i] = seq[i]
                                     /\ Ahead(Append(seq, e), i) = Ahead(seq, i)
           /\ Append(seq, e)[Len(seq) + 1] = e
           /\ Ahead(Append(seq, e), Len(seq) + 1) = Elements(seq)
<1> DEFINE longer == Append(seq, e)
<1>1. /\ DOMAIN longer = 1..(Len(seq) + 1) /\ DOMAIN seq = 1..Len(seq)
      /\ longer[Len(seq) + 1] = e
      /\ \A i \in 1..Len(seq) : longer[i] = seq[i]
      /\ Len(seq) \in Nat
  BY AppendProperties
<1> HIDE DEF longer
<1>2. ASSUME NEW i \in 1..(Len(seq) + 1)
      PROVE  Ahead(longer, i) = {seq[h] : h \in 1..(i - 1)}
  <2>1. \A h \in 1..(i - 1) : longer[h] = seq[h]
    BY <1>1
  <2> QED
    BY <2>1 DEF Ahead
<1>3. Len(seq) + 1 \in 1..(Len(seq) + 1) /\ (Len(seq) + 1) - 1 = Len(seq)
      /\ \A i \in 1..Len(seq) : i \in 1..(Len(seq) + 1)
  BY <1>1
<1>4. Ahead(longer, Len(seq) + 1) = Elements(seq)
  BY <1>1, <1>2, <1>3 DEF Elements
<1>5. \A i \in 1..Len(seq) : Ahead(longer, i) = Ahead(seq, i)
  BY <1>2, <1>3 DEF Ahead
<1> QED
  BY <1>1, <1>4, <1>5 DEF longer

LEMMA AheadTail ==
    ASSUME NEW S, NEW seq \in Seq(S), seq # <<>>
    PROVE  /\ 1 \in DOMAIN seq /\ seq[1] = Head(seq) /\ Ahead(seq, 1) = {}
           /\ \A i \in DOMAIN Tail(seq) :
                /\ i + 1 \in DOMAIN seq /\ Tail(seq)[i] = seq[i + 1]
                /\ Ahead(seq, i + 1) = {Head(seq)} \cup Ahead(Tail(seq), i)
<1>1. /\ DOMAIN seq = 1..Len(seq) /\ DOMAIN Tail(seq) = 1..(Len(seq) - 1)
      /\ Len(seq) \in Nat \ {0} /\ Head(seq) = seq[1]
      /\ \A i \in 1..(Len(seq) - 1) : Tail(seq)[i] = seq[i + 1]
  BY HeadTailProperties
<1>2. 1 \in 1..Len(seq) /\ 1..(1 - 1) = {}
  BY <1>1
<1>3. Ahead(seq, 1) = {}
  BY <1>2 DEF Ahead
<1>4. ASSUME NEW i \in 1..(Len(seq) - 1)
      PROVE  i + 1 \in 1..Len(seq) /\ Ahead(seq, i + 1) = {Head(seq)} \cup Ahead(Tail(seq), i)
  <2>1. i + 1 \in 1..Len(seq) /\ i \in Nat /\ (i + 1) - 1 = i
    BY <1>1
  <2>2. \A h \in 1..i : h = 1 \/ (h - 1 \in 1..(i - 1) /\ Tail(seq)[h - 1] = seq[h])
    BY <1>1, <2>1
  <2>3. \A h \in 1..(i - 1) : h + 1 \in 1..i /\ Tail(seq)[h] = seq[h + 1]
    BY <1>1, <2>1
  <2>4. 1 \in 1..i
    BY <2>1, <1>4
  <2>5. Ahead(seq, i + 1) = {seq[h] : h \in 1..i}
    BY <2>1 DEF Ahead
  <2>6. Ahead(Tail(seq), i) = {Tail(seq)[h] : h \in 1..(i - 1)}
    BY DEF Ahead
  <2>7. Ahead(seq, i + 1) \subseteq {Head(seq)} \cup Ahead(Tail(seq), i)
    <3> SUFFICES ASSUME NEW h \in 1..i
                 PROVE  seq[h] \in {Head(seq)} \cup Ahead(Tail(seq), i)
      BY <2>5
    <3> QED
      BY <1>1, <2>2, <2>6
  <2>8. {Head(seq)} \cup Ahead(Tail(seq), i) \subseteq Ahead(seq, i + 1)
    BY <1>1, <2>3, <2>4, <2>5, <2>6
  <2> QED
    BY <2>1, <2>7, <2>8
<1> QED
  BY <1>1, <1>2, <1>3, <1>4

-----------------------------------------------------------------------------
(* The invariant: where the tasks are, and in which order *)

(* No order is before itself, nor is a rescheduled cancel before anything.  *)
LEMMA OrdersBeforeFacts ==
    /\ \A task : OrdersBefore(task) \cap Reschedulable = {}
    /\ \A n \in DOMAIN Script : OrdersBefore(Script[n]) \subseteq {Script[k] : k \in 1..(n - 1)}
<1>1. \A task : OrdersBefore(task) \cap Reschedulable = {}
  BY DEF OrdersBefore
<1>2. ASSUME NEW n \in DOMAIN Script, NEW o \in OrdersBefore(Script[n])
      PROVE  o \in {Script[k] : k \in 1..(n - 1)}
  <2>1. PICK j \in DOMAIN Script, k \in DOMAIN Script :
          o = Script[j] /\ j < k /\ Script[k] = Script[n]
    BY <1>2 DEF OrdersBefore
  <2>2. k = n /\ DOMAIN Script = 1..Len(Script) /\ Len(Script) \in Nat
    BY <2>1, ScriptAssumption
  <2>3. j \in 1..(n - 1)
    BY <2>1, <2>2
  <2> QED
    BY <2>1, <2>3
<1> QED
  BY <1>1, <1>2

(* ThreadPool::initialise leaves nothing to run. *)
LEMMA PoolInit == Init => PoolInv
<1> SUFFICES ASSUME Init PROVE PoolInv
  OBVIOUS
<1>1. Ring!RingInv /\ Ring!OneProducer
  BY RingStarts DEF Init, Ring!Init, Ring!OneProducer
<1>2. /\ sent = <<>> /\ executed = <<>> /\ submitted = 0 /\ wpc = "top"
      /\ ppc["dispatcher"] = "idle" /\ read = 0 /\ write = 0
  BY DEF Init, Ring!Init, Threads
<1>3. Pushing = 0 /\ Held = {}
  BY <1>2 DEF Pushing, Held
<1>4. Ring!Contents = <<>>
  <2>1. Ring!Contents = [i \in 1..0 |-> slots[Ring!SlotOf(i)]]
    BY <1>2 DEF Ring!Contents, Ring!Used
  <2> QED
    BY <2>1
<1>5. DOMAIN <<>> = {}
  BY EmptySeq
<1>6. Elements(sent) = {} /\ Elements(executed) = {} /\ Elements(Ring!Contents) = {}
  BY <1>2, <1>4, <1>5 DEF Elements
<1>7. 1..(0 - 0) = {}
  OBVIOUS
<1>8. Arrived = {}
  BY <1>2, <1>3, <1>7 DEF Arrived
<1> QED
  BY <1>1, <1>2, <1>3, <1>4, <1>5, <1>6, <1>8 DEF PoolInv

(* Steps that move no task from one place to another. *)
LEMMA TasksUntouched ==
    ASSUME PoolInv, Ring!RingInv', Ring!OneProducer',
           Ring!Contents' = Ring!Contents, sent' = sent, executed' = executed,
           Held' = Held, Arrived' = Arrived,
           Pushing' = 1 =>
              submitted' \in DOMAIN Script /\ val'["dispatcher"] = Script[submitted']
    PROVE  PoolInv'
BY DEF PoolInv, Elements, Ahead

(* A step in which only the ring's own words are read or the worker moves.  *)
LEMMA RingUntouched ==
    ASSUME Ring!RingInv, UNCHANGED ringVars
    PROVE  /\ Ring!RingInv' /\ Ring!Contents' = Ring!Contents
BY DEF ringVars, Ring!RingInv, Ring!TypeOK, Ring!Settled, Ring!Indices,
       Ring!increment, Ring!Used, Ring!SlotOf, Ring!Contents

(* A push that completes appends its argument. *)
LEMMA PushAppendsVal ==
    ASSUME Ring!RingInv, Ring!RingInv', NEW p \in Threads, Ring!StoreWrite(p)
    PROVE  /\ val[p] \in Tasks
           /\ Ring!Contents' = Append(Ring!Contents, val[p])
           /\ sent' = Append(sent, val[p])
<1>1. PICK v \in Tasks : Ring!Contents' = Append(Ring!Contents, v) /\ sent' = Append(sent, v)
  BY PushAppends
<1>2. /\ sent' = Append(sent, val[p]) /\ sent \in Seq(Tasks) /\ val[p] \in Tasks
  BY DEF Ring!StoreWrite, Ring!RingInv, Ring!TypeOK
<1>3. Append(sent, v)[Len(sent) + 1] = v /\ Append(sent, val[p])[Len(sent) + 1] = val[p]
  BY <1>2, AppendProperties
<1> QED
  BY <1>1, <1>2, <1>3

(* What a completed push leaves: its task is new to the ring, comes from    *)
(* the dispatcher or from the worker's hands, and has its orders ahead.     *)
LEMMA PushArrives ==
    ASSUME PoolInv, Ring!RingInv', Ring!OneProducer', NEW task \in Tasks,
           Ring!Contents' = Append(Ring!Contents, task), sent' = Append(sent, task),
           sent \in Seq(Tasks), executed' = executed,
           Pushing' = 1 =>
              submitted' \in DOMAIN Script /\ val'["dispatcher"] = Script[submitted'],
           task \notin Elements(executed) \cup Elements(Ring!Contents) \cup Held',
           Arrived' = Arrived \cup {task},
           Held \subseteq Held' \cup {task}, Held' \subseteq Held,
           Held # Held' => task \in Reschedulable,
           OrdersBefore(task) \subseteq Elements(executed) \cup Held' \cup Elements(Ring!Contents)
    PROVE  PoolInv'
<1> DEFINE queue == Ring!Contents
           n == Len(queue)
<1>1. /\ queue \in Seq(Tasks) /\ DOMAIN queue = 1..n /\ n \in Nat
  BY RingHolds DEF PoolInv
<1>2. /\ Elements(Append(queue, task)) = Elements(queue) \cup {task}
      /\ Elements(Append(sent, task)) = Elements(sent) \cup {task}
  BY <1>1, ElementsAppend
<1>3. /\ DOMAIN Append(queue, task) = 1..(n + 1)
      /\ \A i \in 1..n : /\ Append(queue, task)[i] = queue[i]
                         /\ Ahead(Append(queue, task), i) = Ahead(queue, i)
      /\ Append(queue, task)[n + 1] = task
      /\ Ahead(Append(queue, task), n + 1) = Elements(queue)
  BY <1>1, AheadAppend
<1>4. queue' = Append(queue, task)
  OBVIOUS
<1>5. /\ Elements(queue)' = Elements(queue) \cup {task}
      /\ Elements(sent)' = Elements(sent) \cup {task}
      /\ Elements(executed)' = Elements(executed)
      /\ \A i : Ahead(executed, i)' = Ahead(executed, i)
      /\ \A i : Ahead(queue, i)' = Ahead(Append(queue, task), i)
  BY <1>2, <1>4 DEF Elements, Ahead
<1>6. /\ Elements(sent) \subseteq Arrived
      /\ Arrived = Elements(executed) \cup Held \cup Elements(queue)
      /\ Held \cap (Elements(executed) \cup Elements(queue)) = {}
      /\ Elements(executed) \cap Elements(queue) = {}
      /\ \A i \in DOMAIN executed :
          /\ executed[i] \notin Ahead(executed, i)
          /\ OrdersBefore(executed[i]) \subseteq Ahead(executed, i)
      /\ \A t \in Held : OrdersBefore(t) \subseteq Elements(executed)
      /\ \A i \in DOMAIN queue :
          /\ queue[i] \notin Ahead(queue, i)
          /\ OrdersBefore(queue[i]) \subseteq Elements(executed) \cup Held \cup Ahead(queue, i)
  BY DEF PoolInv
<1> HIDE DEF queue
<1>7. ASSUME NEW i \in DOMAIN queue'
      PROVE  /\ queue'[i] \notin Ahead(queue, i)'
             /\ OrdersBefore(queue'[i]) \subseteq
                    Elements(executed) \cup Held' \cup Ahead(queue, i)'
  <2>1. i \in 1..n \/ i = n + 1
    BY <1>1, <1>3, <1>4
  <2>2. CASE i \in 1..n
    <3>1. /\ queue'[i] = queue[i] /\ Ahead(queue, i)' = Ahead(queue, i)
      BY <1>3, <1>4, <1>5, <2>2
    <3>2. Held # Held' => task \notin OrdersBefore(queue[i])
      BY OrdersBeforeFacts
    <3> QED
      BY <1>1, <1>6, <2>2, <3>1, <3>2
  <2>3. CASE i = n + 1
    <3>1. queue'[i] = task /\ Ahead(queue, i)' = Elements(queue)
      BY <1>3, <1>4, <1>5, <2>3
    <3> QED
      BY <3>1 DEF queue
  <2> QED
    BY <2>1, <2>2, <2>3
<1>8. \A t \in Held' : OrdersBefore(t) \subseteq Elements(executed)'
  BY <1>5, <1>6
<1>9. /\ Elements(sent)' \subseteq Arrived'
      /\ Arrived' = Elements(executed)' \cup Held' \cup Elements(queue)'
      /\ Held' \cap (Elements(executed)' \cup Elements(queue)') = {}
      /\ Elements(executed)' \cap Elements(queue)' = {}
  BY <1>5, <1>6 DEF queue
<1>10. \A i \in DOMAIN executed' :
          /\ executed'[i] \notin Ahead(executed, i)'
          /\ OrdersBefore(executed'[i]) \subseteq Ahead(executed, i)'
  BY <1>5, <1>6
<1> QED
  BY <1>5, <1>7, <1>8, <1>9, <1>10 DEF PoolInv, queue

(* The task under way from the dispatcher is not one that has arrived. *)
LEMMA ArrivedFacts ==
    ASSUME ControlInv, Pushing = 1, submitted \in DOMAIN Script
    PROVE  /\ Script[submitted] \in Tasks \ Arrived
           /\ OrdersBefore(Script[submitted]) \subseteq Arrived
           /\ {Script[k] : k \in 1..submitted} = Arrived \cup {Script[submitted]}
<1>1. /\ submitted \in Nat \ {0} /\ submitted <= Len(Script) /\ Len(Script) \in Nat
      /\ DOMAIN Script = 1..Len(Script)
  BY ScriptAssumption
<1>2. /\ Script[submitted] \in Tasks /\ submitted \in 1..submitted
      /\ Arrived = {Script[k] : k \in 1..(submitted - 1)}
  BY <1>1 DEF Tasks, Arrived
<1>3. \A k \in 1..(submitted - 1) : k \in DOMAIN Script /\ k # submitted /\ k \in 1..submitted
  BY <1>1
<1>4. Script[submitted] \notin Arrived
  BY <1>2, <1>3, ScriptAssumption
<1>5. \A k \in 1..submitted : k \in 1..(submitted - 1) \/ k = submitted
  BY <1>1
<1> QED
  BY <1>1, <1>2, <1>3, <1>4, <1>5, OrdersBeforeFacts

(* submitTask: the dispatcher takes the next task of the script. *)
LEMMA SubmitStep ==
    ASSUME ControlInv, PoolInv, Submit, Ring!OneProducer'
    PROVE  PoolInv'
<1>1. "worker" \in Threads /\ "dispatcher" \in Threads
  BY DEF Threads
<1>2. /\ DOMAIN Script = 1..Len(Script) /\ Len(Script) \in Nat
      /\ submitted \in 0..Len(Script) /\ submitted < Len(Script)
  BY ScriptAssumption DEF Submit, ControlInv, TypeOK
<1>3. submitted + 1 \in DOMAIN Script /\ Script[submitted + 1] \in Tasks
  BY <1>2 DEF Tasks
<1>4. \E v \in Tasks : Ring!StartPush("dispatcher", v)
  BY <1>3 DEF Submit
<1>5. Ring!RingInv'
  BY <1>1, <1>4, PushKeepsRing DEF PoolInv
<1>6. Ring!Contents' = Ring!Contents /\ sent' = sent
  BY <1>1, <1>4, OthersKeep DEF PoolInv
<1>7. /\ ppc["dispatcher"] = "idle" /\ ppc'["dispatcher"] = "load"
      /\ val'["dispatcher"] = Script[submitted'] /\ submitted' = submitted + 1
      /\ wpc' = wpc /\ element' = element /\ executed' = executed
  BY <1>1 DEF Submit, Ring!StartPush, Ring!consumerVars, ControlInv, TypeOK, Ring!TypeOK
<1>8. Held' = Held
  BY <1>7 DEF Held
<1>9. Arrived' = Arrived
  <2>1. Pushing = 0 /\ Pushing' = 1
    BY <1>7 DEF Pushing
  <2>2. submitted' - Pushing' = submitted - Pushing
    BY <1>2, <1>7, <2>1
  <2> QED
    BY <2>2 DEF Arrived
<1> QED
  BY <1>3, <1>5, <1>6, <1>7, <1>8, <1>9, TasksUntouched

(* The steps of push inside submitTask. *)
LEMMA DispatcherPushes ==
    ASSUME ControlInv, PoolInv, DispatcherStep, Ring!OneProducer'
    PROVE  PoolInv'
<1>1. "worker" \in Threads /\ "dispatcher" \in Threads /\ "worker" # "dispatcher"
  BY DEF Threads
<1>2. /\ Ring!PushStep("dispatcher")
      /\ submitted' = submitted /\ wpc' = wpc /\ executed' = executed
  BY DEF DispatcherStep, poolVars
<1>3. Ring!RingInv'
  BY <1>1, <1>2, PushKeepsRing DEF PoolInv
<1>4. /\ element' = element /\ val' = val /\ ppc["dispatcher"] # "idle"
  BY <1>2 DEF Ring!PushStep, Ring!LoadWrite, Ring!CheckRead, Ring!WriteSlot,
              Ring!StoreWrite, Ring!consumerVars
<1>5. Held' = Held
  BY <1>2, <1>4 DEF Held
<1>6. /\ Pushing = 1 /\ submitted \in DOMAIN Script
      /\ val["dispatcher"] = Script[submitted]
  BY <1>4 DEF Pushing, PoolInv
<1>7. CASE Ring!StoreWrite("dispatcher")
  <2>1. ppc'["dispatcher"] = "idle"
    BY <1>1, <1>7 DEF Ring!StoreWrite, ControlInv, TypeOK, Ring!TypeOK
  <2>2. Pushing' = 0
    BY <2>1 DEF Pushing
  <2> DEFINE task == Script[submitted]
  <2>3. /\ task \in Tasks \ Arrived /\ OrdersBefore(task) \subseteq Arrived
        /\ {Script[k] : k \in 1..submitted} = Arrived \cup {task}
    BY <1>6, ArrivedFacts
  <2>4. Arrived' = Arrived \cup {task}
    <3>1. submitted' - Pushing' = submitted
      BY <1>2, <2>2 DEF ControlInv, TypeOK
    <3> QED
      BY <2>3, <3>1 DEF Arrived
  <2>5. /\ Ring!Contents' = Append(Ring!Contents, task) /\ sent' = Append(sent, task)
    BY <1>1, <1>3, <1>6, <1>7, PushAppendsVal DEF PoolInv
  <2>6. sent \in Seq(Tasks)
    BY DEF ControlInv, TypeOK, Ring!TypeOK
  <2>7. Arrived = Elements(executed) \cup Held \cup Elements(Ring!Contents)
    BY DEF PoolInv
  <2> HIDE DEF task
  <2> QED
    BY <1>2, <1>3, <1>5, <2>2, <2>3, <2>4, <2>5, <2>6, <2>7, PushArrives
<1>8. CASE ~Ring!StoreWrite("dispatcher")
  <2>1. \/ Ring!LoadWrite("dispatcher") \/ Ring!CheckRead("dispatcher")
        \/ Ring!WriteSlot("dispatcher")
    BY <1>2, <1>8 DEF Ring!PushStep
  <2>2. Ring!Contents' = Ring!Contents /\ sent' = sent
    BY <1>1, <2>1, OthersKeep DEF PoolInv
  <2>3. ppc'["dispatcher"] # "idle"
    BY <1>1, <2>1 DEF Ring!LoadWrite, Ring!CheckRead, Ring!WriteSlot, ControlInv,
                      TypeOK, Ring!TypeOK
  <2>4. Arrived' = Arrived
    BY <1>2, <1>4, <2>3 DEF Arrived, Pushing
  <2> QED
    BY <1>2, <1>3, <1>4, <1>5, <1>6, <2>2, <2>4, TasksUntouched
<1> QED
  BY <1>7, <1>8

(* The worker's push of the cancel it reschedules. *)
LEMMA WorkerPushes ==
    ASSUME ControlInv, PoolInv, WorkerResubmit, Ring!OneProducer'
    PROVE  PoolInv'
<1>1. "worker" \in Threads /\ "dispatcher" \in Threads /\ "worker" # "dispatcher"
  BY DEF Threads
<1>2. /\ Ring!PushStep("worker") /\ wpc = "resubmitting"
      /\ wpc' = IF ppc'["worker"] = "idle" THEN "top" ELSE "resubmitting"
      /\ submitted' = submitted /\ executed' = executed
  BY DEF WorkerResubmit
<1>3. Ring!RingInv'
  BY <1>1, <1>2, PushKeepsRing DEF PoolInv
<1>4. /\ element' = element /\ val' = val /\ ppc'["dispatcher"] = ppc["dispatcher"]
  BY <1>1, <1>2 DEF Ring!PushStep, Ring!LoadWrite, Ring!CheckRead, Ring!WriteSlot,
                    Ring!StoreWrite, Ring!consumerVars, ControlInv, TypeOK, Ring!TypeOK
<1>5. Pushing' = Pushing /\ Arrived' = Arrived
  BY <1>2, <1>4 DEF Pushing, Arrived
<1>6. /\ Held = {element} /\ element \in Reschedulable /\ val["worker"] = element
  BY <1>2 DEF Held, ControlInv
<1>7. CASE Ring!StoreWrite("worker")
  <2>1. ppc'["worker"] = "idle"
    BY <1>1, <1>7 DEF Ring!StoreWrite, ControlInv, TypeOK, Ring!TypeOK
  <2>2. Held' = {}
    BY <1>2, <2>1 DEF Held
  <2>4. /\ Ring!Contents' = Append(Ring!Contents, element) /\ sent' = Append(sent, element)
        /\ element \in Tasks
    BY <1>1, <1>3, <1>6, <1>7, PushAppendsVal DEF PoolInv
  <2>5. sent \in Seq(Tasks)
    BY DEF ControlInv, TypeOK, Ring!TypeOK
  <2>6. /\ element \notin Elements(executed) \cup Elements(Ring!Contents)
        /\ OrdersBefore(element) \subseteq Elements(executed)
        /\ Arrived' = Arrived \cup {element}
    BY <1>5, <1>6 DEF PoolInv
  <2> QED
    BY <1>2, <1>3, <1>4, <1>5, <1>6, <2>2, <2>4, <2>5, <2>6, PushArrives DEF PoolInv
<1>8. CASE ~Ring!StoreWrite("worker")
  <2>1. Ring!LoadWrite("worker") \/ Ring!CheckRead("worker") \/ Ring!WriteSlot("worker")
    BY <1>2, <1>8 DEF Ring!PushStep
  <2>2. Ring!Contents' = Ring!Contents /\ sent' = sent
    BY <1>1, <2>1, OthersKeep DEF PoolInv
  <2>3. ppc'["worker"] # "idle"
    BY <1>1, <2>1 DEF Ring!LoadWrite, Ring!CheckRead, Ring!WriteSlot, ControlInv,
                      TypeOK, Ring!TypeOK
  <2>4. Held' = Held
    BY <1>2, <1>4, <2>3 DEF Held
  <2>5. Pushing = 1 => submitted \in DOMAIN Script /\ val["dispatcher"] = Script[submitted]
    BY DEF PoolInv
  <2> QED
    BY <1>2, <1>3, <1>4, <1>5, <2>2, <2>4, <2>5, TasksUntouched
<1> QED
  BY <1>7, <1>8

(* tryPop moves the oldest task from the ring into the worker's hands.      *)
LEMMA WorkerTakes ==
    ASSUME ControlInv, PoolInv, WorkerPop, Ring!OneProducer'
    PROVE  PoolInv'
<1>1. "worker" \in Threads /\ wpc = "popping" /\ Ring!PopStep
  BY DEF Threads, WorkerPop
<1>2. Ring!RingInv'
  BY <1>1, PopKeepsRing DEF PoolInv
<1>3. UNCHANGED <<ppc, val, submitted, executed>>
  BY <1>1 DEF WorkerPop, Ring!PopStep, Ring!LoadRead, Ring!CheckWrite, Ring!ReadSlot,
              Ring!StoreRead, Ring!producerVars
<1>4. Pushing' = Pushing /\ Arrived' = Arrived /\ Held = {}
  BY <1>1, <1>3 DEF Pushing, Arrived, Held
<1>5. Pushing = 1 => submitted \in DOMAIN Script /\ val["dispatcher"] = Script[submitted]
  BY DEF PoolInv
<1>6. CASE Ring!StoreRead
  <2> DEFINE queue == Ring!Contents
             taken == Head(queue)
  <2>1. /\ queue # <<>> /\ queue' = Tail(queue) /\ sent' = sent
        /\ received' = Append(received, taken) /\ received' = Append(received, element)
        /\ received \in Seq(Tasks \cup {Nothing}) /\ element \in Tasks \cup {Nothing}
        /\ queue \in Seq(Tasks)
    BY <1>6, PopTakes, RingHolds DEF Ring!StoreRead, PoolInv, Ring!RingInv, Ring!TypeOK
  <2>2. taken \in Tasks
    BY <2>1
  <2>3. element = taken
    <3>1. /\ Append(received, taken)[Len(received) + 1] = taken
          /\ Append(received, element)[Len(received) + 1] = element
      BY <2>1, <2>2, AppendProperties
    <3> QED
      BY <2>1, <3>1
  <2>4. Held' = {taken}
    <3>1. wpc' = "executing" /\ element' = element
      BY <1>6 DEF WorkerPop, Ring!StoreRead
    <3> QED
      BY <2>3, <3>1 DEF Held
  <2>5. Elements(queue) = {taken} \cup Elements(Tail(queue))
    BY <2>1, ElementsHeadTail
  <2>6. /\ 1 \in DOMAIN queue /\ queue[1] = taken /\ Ahead(queue, 1) = {}
        /\ \A i \in DOMAIN Tail(queue) :
              /\ i + 1 \in DOMAIN queue /\ Tail(queue)[i] = queue[i + 1]
              /\ Ahead(queue, i + 1) = {taken} \cup Ahead(Tail(queue), i)
    BY <2>1, AheadTail
  <2>7. /\ Elements(queue)' = Elements(Tail(queue)) /\ Elements(sent)' = Elements(sent)
        /\ Elements(executed)' = Elements(executed)
        /\ \A i : Ahead(executed, i)' = Ahead(executed, i)
        /\ \A i : Ahead(queue, i)' = Ahead(Tail(queue), i)
    BY <1>3, <2>1 DEF Elements, Ahead
  <2>8. /\ Elements(sent) \subseteq Arrived
        /\ Arrived = Elements(executed) \cup Elements(queue)
        /\ Elements(executed) \cap Elements(queue) = {}
        /\ \A i \in DOMAIN executed :
            /\ executed[i] \notin Ahead(executed, i)
            /\ OrdersBefore(executed[i]) \subseteq Ahead(executed, i)
        /\ \A i \in DOMAIN queue :
            /\ queue[i] \notin Ahead(queue, i)
            /\ OrdersBefore(queue[i]) \subseteq Elements(executed) \cup Ahead(queue, i)
    BY <1>4 DEF PoolInv
  <2> HIDE DEF queue, taken
  <2>9. taken \notin Elements(Tail(queue))
    <3> SUFFICES ASSUME NEW i \in DOMAIN Tail(queue), Tail(queue)[i] = taken PROVE FALSE
      BY DEF Elements
    <3> QED
      BY <2>6, <2>8
  <2>10. /\ Elements(sent)' \subseteq Arrived'
         /\ Arrived' = Elements(executed)' \cup Held' \cup Elements(queue)'
         /\ Held' \cap (Elements(executed)' \cup Elements(queue)') = {}
         /\ Elements(executed)' \cap Elements(queue)' = {}
    BY <1>4, <2>4, <2>5, <2>7, <2>8, <2>9
  <2>11. \A task \in Held' : OrdersBefore(task) \subseteq Elements(executed)'
    BY <2>4, <2>6, <2>7, <2>8
  <2>12. ASSUME NEW i \in DOMAIN queue'
         PROVE  /\ queue'[i] \notin Ahead(queue, i)'
                /\ OrdersBefore(queue'[i]) \subseteq
                      Elements(executed)' \cup Held' \cup Ahead(queue, i)'
    <3>1. /\ i + 1 \in DOMAIN queue /\ queue'[i] = queue[i + 1]
          /\ Ahead(queue, i + 1) = {taken} \cup Ahead(queue, i)'
      BY <2>1, <2>6, <2>7
    <3> QED
      BY <2>4, <2>7, <2>8, <3>1
  <2>13. \A i \in DOMAIN executed' :
            /\ executed'[i] \notin Ahead(executed, i)'
            /\ OrdersBefore(executed'[i]) \subseteq Ahead(executed, i)'
    BY <1>3, <2>7, <2>8
  <2> QED
    BY <1>2, <1>3, <1>4, <1>5, <2>10, <2>11, <2>12, <2>13 DEF PoolInv, queue
<1>7. CASE ~Ring!StoreRead
  <2>1. Ring!LoadRead \/ Ring!CheckWrite \/ Ring!ReadSlot
    BY <1>1, <1>7 DEF Ring!PopStep
  <2>2. Ring!Contents' = Ring!Contents /\ sent' = sent
    BY <1>1, <2>1, OthersKeep DEF PoolInv
  <2>3. wpc' \notin {"executing", "resubmitting"}
    BY <2>1 DEF WorkerPop, Ring!LoadRead, Ring!CheckWrite, Ring!ReadSlot
  <2>4. Held' = Held
    BY <1>4, <2>3 DEF Held
  <2> QED
    BY <1>2, <1>3, <1>4, <1>5, <2>2, <2>4, TasksUntouched
<1> QED
  BY <1>6, <1>7

(* The task in the worker's hands is run. *)
LEMMA WorkerRuns ==
    ASSUME ControlInv, PoolInv, WorkerExecute, Ring!OneProducer'
    PROVE  PoolInv'
<1>1. /\ UNCHANGED <<ringVars, submitted>> /\ wpc = "executing" /\ wpc' = "top"
      /\ element \in Tasks /\ executed' = Append(executed, element)
      /\ executed \in Seq(Tasks)
  BY DEF WorkerExecute, ControlInv, TypeOK
<1>2. /\ Ring!RingInv' /\ Ring!Contents' = Ring!Contents
  BY <1>1, RingUntouched DEF PoolInv
<1>3. /\ Pushing' = Pushing /\ Arrived' = Arrived /\ Held = {element} /\ Held' = {}
      /\ sent' = sent /\ val' = val /\ submitted' = submitted
  BY <1>1 DEF Pushing, Arrived, Held, ringVars
<1> DEFINE queue == Ring!Contents
           n == Len(executed)
<1>4. Elements(Append(executed, element)) = Elements(executed) \cup {element}
  BY <1>1, ElementsAppend
<1>5. /\ DOMAIN Append(executed, element) = 1..(n + 1) /\ n \in Nat
      /\ \A i \in 1..n : /\ Append(executed, element)[i] = executed[i]
                         /\ Ahead(Append(executed, element), i) = Ahead(executed, i)
      /\ Append(executed, element)[n + 1] = element
      /\ Ahead(Append(executed, element), n + 1) = Elements(executed)
      /\ DOMAIN executed = 1..n
  BY <1>1, AheadAppend, LenProperties
<1>6. /\ Elements(executed)' = Elements(executed) \cup {element}
      /\ Elements(queue)' = Elements(queue) /\ Elements(sent)' = Elements(sent)
      /\ \A i : Ahead(queue, i)' = Ahead(queue, i)
      /\ \A i : Ahead(executed, i)' = Ahead(Append(executed, element), i)
  BY <1>1, <1>2, <1>3, <1>4 DEF Elements, Ahead
<1>7. /\ Elements(sent) \subseteq Arrived
      /\ Arrived = Elements(executed) \cup Held \cup Elements(queue)
      /\ Held \cap (Elements(executed) \cup Elements(queue)) = {}
      /\ Elements(executed) \cap Elements(queue) = {}
      /\ \A i \in DOMAIN executed :
          /\ executed[i] \notin Ahead(executed, i)
          /\ OrdersBefore(executed[i]) \subseteq Ahead(executed, i)
      /\ \A t \in Held : OrdersBefore(t) \subseteq Elements(executed)
      /\ \A i \in DOMAIN queue :
          /\ queue[i] \notin Ahead(queue, i)
          /\ OrdersBefore(queue[i]) \subseteq Elements(executed) \cup Held \cup Ahead(queue, i)
      /\ Pushing = 1 => submitted \in DOMAIN Script /\ val["dispatcher"] = Script[submitted]
  BY DEF PoolInv
<1>8. queue' = queue
  BY <1>2
<1> HIDE DEF queue, n
<1>9. /\ Elements(sent)' \subseteq Arrived'
      /\ Arrived' = Elements(executed)' \cup Held' \cup Elements(queue)'
      /\ Held' \cap (Elements(executed)' \cup Elements(queue)') = {}
      /\ Elements(executed)' \cap Elements(queue)' = {}
  BY <1>3, <1>6, <1>7
<1>10. ASSUME NEW i \in DOMAIN executed'
       PROVE  /\ executed'[i] \notin Ahead(executed, i)'
              /\ OrdersBefore(executed'[i]) \subseteq Ahead(executed, i)'
  <2>1. i \in 1..n \/ i = n + 1
    BY <1>1, <1>5
  <2>2. CASE i \in 1..n
    <3>1. executed'[i] = executed[i] /\ Ahead(executed, i)' = Ahead(executed, i)
      BY <1>1, <1>5, <1>6, <2>2
    <3> QED
      BY <1>5, <1>7, <2>2, <3>1
  <2>3. CASE i = n + 1
    <3>1. executed'[i] = element /\ Ahead(executed, i)' = Elements(executed)
      BY <1>1, <1>5, <1>6, <2>3
    <3> QED
      BY <1>3, <1>7, <3>1
  <2> QED
    BY <2>1, <2>2, <2>3
<1>11. \A i \in DOMAIN queue' :
          /\ queue'[i] \notin Ahead(queue, i)'
          /\ OrdersBefore(queue'[i]) \subseteq
                Elements(executed)' \cup Held' \cup Ahead(queue, i)'
  BY <1>3, <1>6, <1>7, <1>8
<1>12. \A t \in Held' : OrdersBefore(t) \subseteq Elements(executed)'
  BY <1>3
<1> QED
  BY <1>2, <1>3, <1>7, <1>9, <1>10, <1>11, <1>12 DEF PoolInv, queue

(* taskCancelOrder submits itself again: the task stays in its hands.       *)
LEMMA RescheduleStep ==
    ASSUME ControlInv, PoolInv, WorkerReschedule, Ring!OneProducer'
    PROVE  PoolInv'
<1>1. "worker" \in Threads /\ "dispatcher" \in Threads /\ "worker" # "dispatcher"
  BY DEF Threads
<1>2. /\ Ring!StartPush("worker", element) /\ element \in Tasks
      /\ wpc = "executing" /\ wpc' = "resubmitting"
      /\ submitted' = submitted /\ executed' = executed
  BY ScriptAssumption DEF WorkerReschedule
<1>3. Ring!RingInv' /\ Ring!Contents' = Ring!Contents /\ sent' = sent
  <2>1. \E v \in Tasks : Ring!StartPush("worker", v)
    BY <1>2
  <2> QED
    BY <1>1, <2>1, PushKeepsRing, OthersKeep DEF PoolInv
<1>4. /\ element' = element /\ ppc'["dispatcher"] = ppc["dispatcher"]
      /\ val'["dispatcher"] = val["dispatcher"]
  BY <1>1, <1>2 DEF Ring!StartPush, Ring!consumerVars, ControlInv, TypeOK, Ring!TypeOK
<1>5. Held' = Held /\ Pushing' = Pushing /\ Arrived' = Arrived
  BY <1>2, <1>4 DEF Held, Pushing, Arrived
<1>6. Pushing = 1 => submitted \in DOMAIN Script /\ val["dispatcher"] = Script[submitted]
  BY DEF PoolInv
<1> QED
  BY <1>2, <1>3, <1>4, <1>5, <1>6, TasksUntouched

(* Every step keeps the invariant or is the first overlap. *)
LEMMA PoolStep ==
    ControlInv /\ (overlapped \/ PoolInv) /\ [Next]_vars => (overlapped \/ PoolInv)'
<1> SUFFICES ASSUME ControlInv, overlapped \/ PoolInv, [Next]_vars, ~overlapped'
             PROVE  PoolInv'
  OBVIOUS
<1>1. PoolInv
  BY DEF Next, vars
<1>2. CASE UNCHANGED vars
  <2>1. UNCHANGED <<ringVars, submitted, executed, wpc>>
    BY <1>2 DEF vars, poolVars
  <2>2. Ring!RingInv' /\ Ring!Contents' = Ring!Contents /\ Ring!OneProducer'
    BY <1>1, <2>1, RingUntouched DEF PoolInv, Ring!OneProducer, ringVars
  <2>3. /\ Held' = Held /\ Pushing' = Pushing /\ Arrived' = Arrived /\ sent' = sent
        /\ val' = val
    BY <2>1 DEF Held, Pushing, Arrived, ringVars
  <2>4. Pushing = 1 => submitted \in DOMAIN Script /\ val["dispatcher"] = Script[submitted]
    BY <1>1 DEF PoolInv
  <2> QED
    BY <1>1, <2>1, <2>2, <2>3, <2>4, TasksUntouched
<1>3. CASE Next
  <2>1. Ring!OneProducer'
    BY <1>3 DEF Next
  <2>2. CASE WorkerTop \/ WorkerAbort \/ JoinDispatcher \/ Shutdown \/ Join
    <3>1. /\ UNCHANGED <<ringVars, submitted, executed>>
          /\ \/ wpc' = wpc
             \/ wpc = "top" /\ wpc' \in {"exited", "popping"}
             \/ wpc = "executing" /\ element = Nothing
      BY <2>2 DEF WorkerTop, WorkerAbort, JoinDispatcher, Shutdown, Join
    <3>2. ~(wpc = "executing" /\ element = Nothing)
      <4>1. Held \subseteq Elements(executed) \cup Held \cup Elements(Ring!Contents)
        OBVIOUS
      <4>2. Held \subseteq Arrived
        BY <1>1, <4>1 DEF PoolInv
      <4>3. Arrived \subseteq Tasks
        <5>1. /\ submitted \in 0..Len(Script) /\ Len(Script) \in Nat
              /\ DOMAIN Script = 1..Len(Script)
          BY ScriptAssumption DEF ControlInv, TypeOK
        <5>2. \A k \in 1..(submitted - Pushing) : k \in DOMAIN Script
          BY <5>1 DEF Pushing
        <5> QED
          BY <5>2 DEF Arrived, Tasks
      <4> QED
        BY <4>2, <4>3, NothingAssumption DEF Held
    <3>3. Ring!RingInv' /\ Ring!Contents' = Ring!Contents
      BY <1>1, <3>1, RingUntouched DEF PoolInv
    <3>4. /\ Held' = Held /\ Pushing' = Pushing /\ Arrived' = Arrived /\ sent' = sent
          /\ val' = val
      BY <3>1, <3>2 DEF Held, Pushing, Arrived, ringVars
    <3>5. Pushing = 1 => submitted \in DOMAIN Script /\ val["dispatcher"] = Script[submitted]
      BY <1>1 DEF PoolInv
    <3> QED
      BY <1>1, <2>1, <3>1, <3>3, <3>4, <3>5, TasksUntouched
  <2> QED
    BY <1>1, <1>3, <2>1, <2>2, SubmitStep, DispatcherPushes, WorkerTakes, WorkerRuns,
       RescheduleStep, WorkerPushes DEF Next, CodeStep, WorkerStep
<1> QED
  BY <1>2, <1>3

(* For every script and every capacity, until two pushes have overlapped:   *)
(* nothing that was submitted is lost, nothing is in two places, nothing    *)
(* overtakes an order (and so no slot that nobody wrote is ever executed).  *)
THEOREM PoolInvariant == Spec => [](overlapped \/ PoolInv)
<1>1. Init => PoolInv
  BY PoolInit
<1> QED
  BY <1>1, PoolStep, ControlInvariant, PTL DEF Spec

(* ThreadPool::submitTask: an overlap of two pushes is behind every loss    *)
(* that the run with two producers shows.                                   *)
THEOREM TasksKept == Spec => []SubmittedTasksKept
<1>1. overlapped \/ PoolInv => SubmittedTasksKept
  BY DEF PoolInv, SubmittedTasksKept, Kept
<1> QED
  BY <1>1, PoolInvariant, PTL

(* ThreadPool::workerThreadFunction: whatever cancels are rescheduled       *)
(* between them, orders run in their turn, every task once, and no cancel   *)
(* before the orders submitted before it.                                   *)
THEOREM TasksRunInOrder == Spec => []ExecutedInSubmissionOrder
<1>1. overlapped \/ PoolInv => ExecutedInSubmissionOrder
  BY DEF PoolInv, ExecutedInSubmissionOrder
<1> QED
  BY <1>1, PoolInvariant, PTL

(* taskCancelOrder is the only way to a second producer: if every cancel    *)
(* finds its order, no pushes overlap, and no task is ever lost.            *)
THEOREM KeptWithoutRescheduling ==
    ASSUME Reschedulable = {}
    PROVE  Spec => [](~overlapped /\ AcceptedOrdersKept)
<1>1. Init => ~overlapped
  BY DEF Init
<1>2. ControlInv /\ ControlInv' /\ ~overlapped /\ [Next]_vars => ~overlapped'
  <2> SUFFICES ASSUME ControlInv', ~overlapped, [Next]_vars PROVE ~overlapped'
    OBVIOUS
  <2>1. ppc'["worker"] = "idle"
    BY DEF ControlInv
  <2>2. Ring!OneProducer'
    BY <2>1 DEF Ring!OneProducer, Threads
  <2> QED
    BY <2>2 DEF Next, vars
<1>3. ~overlapped /\ SubmittedTasksKept => AcceptedOrdersKept
  BY DEF SubmittedTasksKept, AcceptedOrdersKept
<1> QED
  BY <1>1, <1>2, <1>3, ControlInvariant, TasksKept, PTL DEF Spec
=============================================================================
