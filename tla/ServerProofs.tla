---------------------------- MODULE ServerProofs ----------------------------
(***************************************************************************)
(* Theorems about Server, for any numbers of sessions, workers, messages   *)
(* and nodes, and rings of any size: types, what is still alive when a     *)
(* thread uses it, and what a dispatcher that was told to finish leaves.   *)
(***************************************************************************)
EXTENDS Server, MPSCQueueProofs

(* What the proofs need of the sequence in which the server is destroyed.   *)
LEMMA TeardownFacts ==
    /\ Len(Teardown) = 13 /\ DOMAIN Teardown = 1..13
    /\ Teardown[2] = <<"join", "processor">>
    /\ Teardown[4] = <<"join", "dispatcher">>
    /\ Teardown[12] = <<"join", "pool">>
    /\ Teardown[13] = <<"destroy", "book">>
    /\ \A i \in 1..13 : /\ Teardown[i][1] = "signal" =>
                              Teardown[i][2] \in {"dispatcher", "processor", "pool"}
                        /\ Teardown[i] = <<Teardown[i][1], Teardown[i][2]>>
    /\ \A i \in 1..4 : Teardown[i][1] # "destroy" /\ Teardown[i] # <<"join", "pool">>
    /\ \A i \in 1..12 : Teardown[i] # <<"destroy", "book">>
    /\ \A i \in 1..13 : Teardown[i] = <<"destroy", "queue">> => i = 5
    /\ DestroyMembers = 5
<1>1. Len(Teardown) = 13 /\ DOMAIN Teardown = 1..13
  BY DEF Teardown
<1>2. /\ Teardown[1] = <<"signal", "processor">>
      /\ Teardown[2] = <<"join", "processor">>
      /\ Teardown[3] = <<"signal", "dispatcher">>
      /\ Teardown[4] = <<"join", "dispatcher">>
      /\ Teardown[5] = <<"destroy", "queue">>
      /\ Teardown[6] = <<"signal", "dispatcher">>
      /\ Teardown[7] = <<"join", "dispatcher">>
      /\ Teardown[8] = <<"signal", "processor">>
      /\ Teardown[9] = <<"join", "processor">>
      /\ Teardown[10] = <<"destroy", "observer">>
      /\ Teardown[11] = <<"signal", "pool">>
      /\ Teardown[12] = <<"join", "pool">>
      /\ Teardown[13] = <<"destroy", "book">>
  BY DEF Teardown
<1>3. \A i \in 1..13 : \/ i = 1 \/ i = 2 \/ i = 3 \/ i = 4 \/ i = 5 \/ i = 6 \/ i = 7
                       \/ i = 8 \/ i = 9 \/ i = 10 \/ i = 11 \/ i = 12 \/ i = 13
  OBVIOUS
<1>4. \A i \in 1..13 : Teardown[i] = <<"destroy", "queue">> => i = 5
  BY <1>2, <1>3
<1>5. DestroyMembers = 5
  BY <1>1, <1>2, <1>4 DEF DestroyMembers
<1>6. \A i \in 1..13 : /\ Teardown[i][1] = "signal" =>
                              Teardown[i][2] \in {"dispatcher", "processor", "pool"}
                       /\ Teardown[i] = <<Teardown[i][1], Teardown[i][2]>>
  BY <1>2, <1>3
<1>7. \A i \in 1..4 : Teardown[i][1] # "destroy" /\ Teardown[i] # <<"join", "pool">>
  <2>1. \A i \in 1..4 : i = 1 \/ i = 2 \/ i = 3 \/ i = 4
    OBVIOUS
  <2> QED
    BY <1>2, <2>1
<1>8. \A i \in 1..12 : Teardown[i] # <<"destroy", "book">>
  <2>1. \A i \in 1..12 : i \in 1..13 /\ i # 13
    OBVIOUS
  <2> QED
    BY <1>2, <1>3, <2>1
<1> QED
  BY <1>1, <1>2, <1>4, <1>5, <1>6, <1>7, <1>8

-----------------------------------------------------------------------------
(* What a step that leaves a part of the state alone keeps *)

(* The walk of the batch needs only a part of the queue's invariant. *)
LEMMA QueueWalks == (QueueInv => WalkInv) /\ (QueueInv' => WalkInv')
  BY DEF QueueInv, ListInv, WalkInv

QueueLives == WalkInv /\ IF "queue" \in alive THEN QueueInv ELSE head = Null

(* Steps that leave the incoming queue alone keep what is known of it. *)
LEMMA QueueUnchanged ==
    ASSUME QueueLives, UNCHANGED queueVars, "queue" \in alive' <=> "queue" \in alive
    PROVE  QueueLives'
<1>1. WalkInv' /\ head' = head
  BY DEF QueueLives, WalkInv, QueueTypeOK, Chain, ConsumerInv, queueVars, producerVars,
         consumerVars
<1>2. QueueInv => QueueInv'
  BY StepInv
<1> QED
  BY <1>1, <1>2 DEF QueueLives

(* A thread that ends does not disturb what main has done so far. *)
LEMMA MainUnchanged ==
    ASSUME MainInv, UNCHANGED mainVars, ended \subseteq ended'
    PROVE  MainInv'
  BY DEF MainInv, mainVars, Done, Joined, NormalStart

(* Steps that are not about the sessions keep what is known of them. *)
LEMMA SessionsUnchanged ==
    ASSUME SessionsInv, UNCHANGED <<pushpc, alive, main>>
    PROVE  SessionsInv'
  BY DEF SessionsInv

(* The same for the dispatcher. *)
LEMMA DispatcherUnchanged ==
    ASSUME DispatcherInv, UNCHANGED <<flushpc, value, received, dispatcherVars>>,
           Running("dispatcher")' <=> Running("dispatcher")
    PROVE  DispatcherInv'
  BY DEF DispatcherInv, dispatcherVars

(* And for the rings. *)
LEMMA PoolUnchanged == ASSUME ServerInv, pool' = pool PROVE Pool!RingTypes(Messages)'
  BY DEF ServerInv, TypeOK, pool, Pool!RingTypes, Messages

(* Each step of a push, and a pop, keeps the types of the rings, also when  *)
(* another thread is in the middle of a push on the same ring.              *)
LEMMA PushesKeepTypes ==
    ASSUME ServerInv, NEW p \in Workers \cup {"dispatcher"}, NEW w \in Workers,
           NEW m \in Messages,
           Pool!FindRoom(p, w) \/ Pool!FillSlot(p, m) \/ Pool!StoreWrite(p) \/ Pool!PopFront(w)
    PROVE  Pool!RingTypes(Messages)'
<1> DEFINE Slots == [Pool!Indices -> Values \cup {Null}]
           Rings == [Workers -> [slots : Slots, write : Pool!Indices, read : Pool!Indices]]
           Pushes == [Workers \cup {"dispatcher"} -> Pool!Pushing \cup {Pool!Outside}]
<1>1. rings \in Rings /\ push \in Pushes /\ overlapped \in BOOLEAN
  BY DEF ServerInv, TypeOK, Pool!RingTypes, Messages
<1>2. SUFFICES rings' \in Rings /\ push' \in Pushes /\ overlapped' \in BOOLEAN
  BY DEF Pool!RingTypes, Messages
<1>3. \A n \in Pool!Indices : Pool!increment(n) \in Pool!Indices
  BY RingSizeAssumption DEF Pool!Indices, Pool!increment
<1>4. Pool!Outside.step = "outside"
  BY DEF Pool!Outside
<1>5. push[p] # Pool!Outside =>
         /\ push[p] \in Pool!Pushing /\ push[p].ring \in Workers
         /\ push[p].tail \in Pool!Indices
  BY <1>1 DEF Pool!Pushing
<1>6. CASE Pool!FindRoom(p, w)
  <2>1. /\ rings' = rings
        /\ push' = [push EXCEPT ![p] = [step |-> "fill", ring |-> w, tail |-> rings[w].write]]
        /\ overlapped' \in BOOLEAN
    BY <1>1, <1>6 DEF Pool!FindRoom
  <2>2. [step |-> "fill", ring |-> w, tail |-> rings[w].write] \in Pool!Pushing
    BY <1>1 DEF Pool!Pushing
  <2> QED
    BY <1>1, <2>1, <2>2
<1>7. CASE Pool!FillSlot(p, m)
  <2>1. /\ push[p].step = "fill" /\ push' = [push EXCEPT ![p].step = "store"]
        /\ rings' = [rings EXCEPT ![push[p].ring].slots[push[p].tail] = m]
        /\ overlapped' = overlapped
    BY <1>7 DEF Pool!FillSlot
  <2>2. push[p] # Pool!Outside
    BY <1>4, <2>1
  <2>3. [push[p] EXCEPT !.step = "store"] \in Pool!Pushing
    BY <1>5, <2>2 DEF Pool!Pushing
  <2>4. push' \in Pushes
    BY <1>1, <2>1, <2>3
  <2>5. rings' \in Rings
    BY <1>1, <1>5, <2>1, <2>2 DEF Messages
  <2> QED
    BY <1>1, <2>1, <2>4, <2>5
<1>8. CASE Pool!StoreWrite(p)
  <2>1. /\ push[p].step = "store" /\ push' = [push EXCEPT ![p] = Pool!Outside]
        /\ rings' = [rings EXCEPT ![push[p].ring].write = Pool!increment(push[p].tail)]
        /\ overlapped' = overlapped
    BY <1>8 DEF Pool!StoreWrite
  <2>2. push[p].ring \in Workers /\ Pool!increment(push[p].tail) \in Pool!Indices
    BY <1>3, <1>4, <1>5, <2>1
  <2> QED
    BY <1>1, <2>1, <2>2
<1>9. CASE Pool!PopFront(w)
  <2>1. /\ rings' = [rings EXCEPT ![w].read = Pool!increment(@)]
        /\ push' = push /\ overlapped' = overlapped
    BY <1>9 DEF Pool!PopFront
  <2> QED
    BY <1>1, <1>3, <2>1
<1> QED
  BY <1>6, <1>7, <1>8, <1>9

(* A step of a push that leaves the pushing thread where it is.             *)
LEMMA PushOnly ==
    ASSUME ServerInv, Pool!RingTypes(Messages)',
           UNCHANGED <<queueVars, mainVars, ended, arrived, dispatcherVars, workerVars>>
    PROVE  ServerInv'
<1>1. QueueLives'
  BY QueueUnchanged DEF ServerInv, QueueLives, mainVars
<1>2. TypeOK'
  BY <1>1 DEF ServerInv, TypeOK, QueueLives, WalkInv, mainVars, dispatcherVars, workerVars
<1>3. MainInv'
  BY MainUnchanged DEF ServerInv
<1>4. SessionsInv'
  BY SessionsUnchanged DEF ServerInv, mainVars, queueVars, producerVars
<1>5. DispatcherInv'
  BY DispatcherUnchanged DEF ServerInv, Running, mainVars, queueVars, consumerVars
<1>6. WorkersInv'
  BY DEF ServerInv, WorkersInv, workerVars
<1> QED
  BY <1>1, <1>2, <1>3, <1>4, <1>5, <1>6 DEF ServerInv, QueueLives

(* The program can be aborted at any time before its end.                   *)
LEMMA AbortInv ==
    ASSUME ServerInv, ProgramRuns, main' = "aborted",
           UNCHANGED <<queueVars, step, alive, started, finishing, ended, arrived,
                       dispatcherVars, pool, workerVars>>
    PROVE  ServerInv'
<1>1. MainInv'
  BY DEF ServerInv, MainInv, ProgramRuns, Done, Joined, NormalStart, Up, Constructing
<1>2. QueueLives'
  BY QueueUnchanged DEF ServerInv, QueueLives
<1>3. TypeOK'
  BY <1>2, PoolUnchanged
  DEF ServerInv, TypeOK, QueueLives, WalkInv, dispatcherVars, workerVars
<1>4. SessionsInv'
  BY DEF ServerInv, SessionsInv, queueVars, producerVars
<1>5. DispatcherInv'
  BY DispatcherUnchanged DEF ServerInv, Running, queueVars, consumerVars
<1>6. WorkersInv'
  BY DEF ServerInv, WorkersInv, workerVars
<1> QED
  BY <1>1, <1>2, <1>3, <1>4, <1>5, <1>6 DEF ServerInv, QueueLives

-----------------------------------------------------------------------------
(* Sessions *)

(* Server::onMessage pushes, or rejects, or its exception ends the program. *)
LEMMA OnMessageInv ==
    ASSUME ServerInv, NEW s \in Producers, NEW m \in Messages, OnMessage(s, m)
    PROVE  ServerInv'
<1>1. /\ main \in {"serving", "stopAcceptor"} /\ step = 1 /\ alive = Members
      /\ main' \in {main, "aborted"} /\ arrived' = arrived \cup {m}
      /\ UNCHANGED <<step, alive, started, finishing, ended, dispatcherVars, pool, workerVars>>
  BY DEF OnMessage, ServerInv, MainInv, Up
<1>2. QueueInv /\ "queue" \in alive'
  BY <1>1 DEF ServerInv, Members
<1>3. \/ UNCHANGED queueVars
      \/ MakeNode(s, m) /\ main' = main
  BY DEF OnMessage
<1>4. QueueInv' /\ WalkInv'
  BY <1>2, <1>3, MakeNodeInv, StepInv, QueueWalks DEF Messages
<1>5. TypeOK'
  BY <1>1, <1>4, PoolUnchanged DEF ServerInv, TypeOK, WalkInv, dispatcherVars, workerVars
<1>6. MainInv'
  BY <1>1 DEF ServerInv, MainInv, Done, Joined, NormalStart, Up, Constructing
<1>7. SessionsInv'
  BY <1>1, <1>2, <1>3 DEF SessionsInv
<1>8. UNCHANGED <<flushpc, value, received>>
  BY <1>3 DEF MakeNode, queueVars, consumerVars
<1>9. DispatcherInv'
  BY <1>1, <1>8, DispatcherUnchanged DEF ServerInv, Running
<1>10. WorkersInv'
  BY <1>1 DEF ServerInv, WorkersInv, workerVars
<1> QED
  BY <1>2, <1>4, <1>5, <1>6, <1>7, <1>9, <1>10 DEF ServerInv

(* A session inside of push finds the queue alive.                          *)
LEMMA PushMessageInv ==
    ASSUME ServerInv, NEW s \in Producers, PushMessage(s)
    PROVE  ServerInv'
<1>1. /\ Push(s) /\ pushpc[s] = "push"
      /\ UNCHANGED <<mainVars, ended, arrived, dispatcherVars, pool, workerVars>>
      /\ UNCHANGED <<flushpc, value, received>>
      /\ pushpc' = [pushpc EXCEPT ![s] = "outside"]
  BY DEF PushMessage, Push, consumerVars
<1>2. QueueInv /\ "queue" \in alive
  BY <1>1 DEF ServerInv, SessionsInv
<1>3. QueueInv' /\ WalkInv'
  BY <1>1, <1>2, PushInv, QueueWalks
<1>4. TypeOK'
  BY <1>1, <1>3, PoolUnchanged
  DEF ServerInv, TypeOK, WalkInv, mainVars, dispatcherVars, workerVars
<1>5. MainInv'
  BY <1>1, MainUnchanged DEF ServerInv
<1>6. SessionsInv'
  BY <1>1 DEF ServerInv, SessionsInv, mainVars, WalkInv, QueueTypeOK
<1>7. DispatcherInv'
  BY <1>1, DispatcherUnchanged DEF ServerInv, Running, mainVars
<1>8. WorkersInv'
  BY <1>1 DEF ServerInv, WorkersInv, workerVars
<1> QED
  BY <1>1, <1>2, <1>3, <1>4, <1>5, <1>6, <1>7, <1>8 DEF ServerInv, mainVars

-----------------------------------------------------------------------------
(* The dispatcher *)

(* IncomingMessageDispatcher::run returns with its batch handed over. *)
LEMMA DispatcherEndsInv == ASSUME ServerInv, DispatcherEnds PROVE ServerInv'
<1>1. /\ "dispatcher" \in started /\ ended' = ended \cup {"dispatcher"}
      /\ flushpc = "outside"
      /\ UNCHANGED <<queueVars, mainVars, arrived, dispatcherVars, pool, workerVars>>
  BY DEF DispatcherEnds, Running, End
<1>2. QueueLives'
  BY <1>1, QueueUnchanged DEF ServerInv, QueueLives, mainVars
<1>3. TypeOK'
  BY <1>1, <1>2, PoolUnchanged
  DEF ServerInv, TypeOK, QueueLives, WalkInv, mainVars, dispatcherVars, workerVars
<1>4. MainInv'
  BY <1>1, MainUnchanged DEF ServerInv
<1>5. SessionsInv'
  BY <1>1, SessionsUnchanged DEF ServerInv, mainVars, queueVars, producerVars
<1>6. DispatcherInv'
  BY <1>1 DEF ServerInv, TypeOK, DispatcherInv, Running, queueVars, consumerVars,
              dispatcherVars
<1>7. WorkersInv'
  BY <1>1 DEF ServerInv, WorkersInv, workerVars
<1> QED
  BY <1>2, <1>3, <1>4, <1>5, <1>6, <1>7 DEF ServerInv, QueueLives

(* On a destroyed queue only the walk through the batch is possible.        *)
LEMMA DispatcherReadsInv == ASSUME ServerInv, DispatcherReads PROVE ServerInv'
<1>1. /\ Running("dispatcher")
      /\ CallFlush \/ IsEmpty \/ Flush \/ ReadMessage
      /\ dispatcher' = IF flushpc = "walk" THEN "submit" ELSE dispatcher
      /\ UNCHANGED <<mainVars, ended, arrived, submitted, pool, workerVars>>
  BY DEF DispatcherReads
<1>2. UNCHANGED pushpc
  BY <1>1 DEF CallFlush, IsEmpty, Flush, ReadMessage, producerVars
<1>3. QueueLives'
  <2>1. CASE "queue" \in alive
    <3>1. QueueInv'
      BY <1>1, <2>1, CallFlushInv, IsEmptyInv, FlushInv, ReadMessageInv DEF ServerInv
    <3> QED
      BY <1>1, <2>1, <3>1, QueueWalks DEF QueueLives, mainVars
  <2>2. CASE "queue" \notin alive
    <3>1. head = Null /\ WalkInv
      BY <2>2 DEF ServerInv
    <3>2. CallFlush \/ ReadMessage
      BY <1>1, <3>1 DEF IsEmpty, Flush
    <3>3. head' = Null
      BY <3>1, <3>2 DEF CallFlush, ReadMessage
    <3>4. WalkInv'
      BY <3>1, <3>2, CallFlushWalk, ReadMessageWalk
    <3> QED
      BY <1>1, <2>2, <3>3, <3>4 DEF QueueLives, mainVars
  <2> QED
    BY <2>1, <2>2
<1>4. TypeOK'
  BY <1>1, <1>3, PoolUnchanged DEF ServerInv, TypeOK, QueueLives, WalkInv, mainVars, workerVars
<1>5. MainInv'
  BY <1>1, MainUnchanged DEF ServerInv
<1>6. SessionsInv'
  BY <1>1, <1>2, SessionsUnchanged DEF ServerInv, mainVars
<1>7. DispatcherInv'
  <2>1. Running("dispatcher")'
    BY <1>1 DEF Running, mainVars
  <2>2. CASE ReadMessage
    <3>1. /\ flushpc = "walk" /\ flushpc' = "free" /\ value' = data[node]
          /\ received' = Append(received, data[node])
      BY <2>2 DEF ReadMessage
    <3>2. value' \in Values
      BY <2>2, ReadMessageWalk DEF ServerInv
    <3>3. dispatcher = "run" /\ received = submitted
      BY <3>1 DEF ServerInv, DispatcherInv
    <3> QED
      BY <1>1, <2>1, <3>1, <3>2, <3>3 DEF DispatcherInv, Messages
  <2>3. CASE CallFlush \/ IsEmpty \/ Flush
    <3>1. /\ flushpc # "walk" /\ flushpc # "free" /\ flushpc' # "free"
          /\ UNCHANGED <<value, received>>
      BY <2>3 DEF CallFlush, IsEmpty, Flush
    <3> QED
      BY <1>1, <2>1, <3>1 DEF ServerInv, DispatcherInv
  <2> QED
    BY <1>1, <2>2, <2>3
<1>8. WorkersInv'
  BY <1>1 DEF ServerInv, WorkersInv, workerVars
<1> QED
  BY <1>3, <1>4, <1>5, <1>6, <1>7, <1>8 DEF ServerInv, QueueLives

(* The dispatcher submits the message that it has copied out of its node:  *)
(* room, slot, index.                                                       *)
LEMMA SubmittingInv == ASSUME ServerInv, SubmitFindsRoom \/ SubmitFills PROVE ServerInv'
<1>1. /\ dispatcher = "submit"
      /\ Pool!FindRoom("dispatcher", WorkerOf[value]) \/ Pool!FillSlot("dispatcher", value)
      /\ UNCHANGED <<queueVars, mainVars, ended, arrived, dispatcherVars, workerVars>>
  BY DEF SubmitFindsRoom, SubmitFills
<1>2. value \in Messages /\ WorkerOf[value] \in Workers
  BY <1>1, MessagesAssumption DEF ServerInv, DispatcherInv
<1>3. Pool!RingTypes(Messages)'
  BY <1>1, <1>2, PushesKeepTypes
<1> QED
  BY <1>1, <1>3, PushOnly

LEMMA SubmitTaskInv == ASSUME ServerInv, SubmitTask PROVE ServerInv'
<1>1. /\ dispatcher = "submit" /\ dispatcher' = "free"
      /\ Pool!StoreWrite("dispatcher")
      /\ submitted' = Append(submitted, value)
      /\ UNCHANGED <<queueVars, mainVars, ended, arrived, workerVars>>
  BY DEF SubmitTask
<1>2. /\ value \in Messages /\ received = Append(submitted, value)
      /\ WorkerOf[value] \in Workers /\ submitted \in Seq(Messages)
  BY <1>1, MessagesAssumption DEF ServerInv, DispatcherInv, TypeOK
<1>3. QueueLives'
  BY <1>1, QueueUnchanged DEF ServerInv, QueueLives, mainVars
<1>4. TypeOK'
  <2>1. submitted' \in Seq(Messages)
    BY <1>1, <1>2, AppendFacts
  <2>2. Pool!RingTypes(Messages)'
    BY <1>1, <1>2, PushesKeepTypes
  <2> QED
    BY <1>1, <1>3, <2>1, <2>2
    DEF ServerInv, TypeOK, QueueLives, WalkInv, mainVars, workerVars
<1>5. MainInv'
  BY <1>1, MainUnchanged DEF ServerInv
<1>6. SessionsInv'
  BY <1>1, SessionsUnchanged DEF ServerInv, mainVars, queueVars, producerVars
<1>7. DispatcherInv'
  BY <1>1, <1>2 DEF ServerInv, DispatcherInv, Running, mainVars, queueVars, consumerVars
<1>8. WorkersInv'
  BY <1>1 DEF ServerInv, WorkersInv, workerVars
<1> QED
  BY <1>3, <1>4, <1>5, <1>6, <1>7, <1>8 DEF ServerInv, QueueLives

(* The node of a message that was submitted is freed.                       *)
LEMMA NextMessageInv == ASSUME ServerInv, NextMessage PROVE ServerInv'
<1>1. /\ dispatcher = "free" /\ dispatcher' = "run" /\ FreeNode
      /\ UNCHANGED <<mainVars, ended, arrived, submitted, pool, workerVars>>
      /\ UNCHANGED <<head, pushpc, received>> /\ flushpc' # "free"
  BY DEF NextMessage, FreeNode, producerVars
<1>2. QueueLives'
  <2>1. WalkInv'
    BY <1>1, FreeNodeWalk DEF ServerInv
  <2>2. "queue" \in alive => QueueInv'
    BY <1>1, FreeNodeInv DEF ServerInv
  <2> QED
    BY <1>1, <2>1, <2>2 DEF ServerInv, QueueLives, mainVars
<1>3. TypeOK'
  BY <1>1, <1>2, PoolUnchanged DEF ServerInv, TypeOK, QueueLives, WalkInv, mainVars, workerVars
<1>4. MainInv'
  BY <1>1, MainUnchanged DEF ServerInv
<1>5. SessionsInv'
  BY <1>1, SessionsUnchanged DEF ServerInv, mainVars
<1>6. DispatcherInv'
  BY <1>1 DEF ServerInv, DispatcherInv, Running, mainVars
<1>7. WorkersInv'
  BY <1>1 DEF ServerInv, WorkersInv, workerVars
<1> QED
  BY <1>2, <1>3, <1>4, <1>5, <1>6, <1>7 DEF ServerInv, QueueLives

-----------------------------------------------------------------------------
(* The processor and the workers *)

(* The processor's and the workers' run functions return. *)
LEMMA ThreadEndsInv ==
    ASSUME ServerInv, NEW t \in Workers \cup {"processor"},
           t \in started, ended' = ended \cup {t},
           UNCHANGED <<queueVars, mainVars, arrived, dispatcherVars, pool, workerVars>>
    PROVE  ServerInv'
<1>1. /\ t \in started /\ ended' = ended \cup {t}
      /\ UNCHANGED <<queueVars, mainVars, arrived, dispatcherVars, pool, workerVars>>
  OBVIOUS
<1>2. t # "dispatcher"
  BY WorkersAssumption
<1>3. QueueLives'
  BY <1>1, QueueUnchanged DEF ServerInv, QueueLives, mainVars
<1>4. TypeOK'
  BY <1>1, <1>3, PoolUnchanged
  DEF ServerInv, TypeOK, QueueLives, WalkInv, mainVars, dispatcherVars, workerVars
<1>5. MainInv'
  BY <1>1, MainUnchanged DEF ServerInv
<1>6. SessionsInv'
  BY <1>1, SessionsUnchanged DEF ServerInv, mainVars, queueVars, producerVars
<1>7. Running("dispatcher")' <=> Running("dispatcher")
  BY <1>1, <1>2 DEF Running, mainVars
<1>8. DispatcherInv'
  BY <1>1, <1>7, DispatcherUnchanged DEF ServerInv, queueVars, consumerVars
<1>9. WorkersInv'
  BY <1>1 DEF ServerInv, WorkersInv, workerVars
<1> QED
  BY <1>3, <1>4, <1>5, <1>6, <1>8, <1>9 DEF ServerInv, QueueLives

(* A worker changes its ring and what it holds, nothing else, unless it     *)
(* crashes.                                                                 *)
LEMMA WorkerRunsInv ==
    ASSUME ServerInv, NEW w \in Workers,
           WorkerTop(w) \/ WorkerPop(w) \/ Execute(w) \/ Reschedule(w), main' = main
    PROVE  ServerInv'
<1>1. UNCHANGED <<queueVars, mainVars, ended, arrived, dispatcherVars>>
  BY DEF WorkerTop, WorkerPop, Execute, Reschedule, mainVars
<1>2. QueueLives'
  BY <1>1, QueueUnchanged DEF ServerInv, QueueLives, mainVars
<1>3. /\ \A i \in Pool!Indices : rings[w].slots[i] \in Messages \cup {Null}
      /\ rings[w].read \in Pool!Indices
      /\ workerpc \in [Workers -> {"top", "pop", "execute", "reschedule"}]
      /\ task \in [Workers -> Messages \cup {Null}]
      /\ workerpc[w] \in {"execute", "reschedule"} => task[w] \in Messages
  BY DEF ServerInv, TypeOK, WorkersInv, Pool!RingTypes
<1>4. /\ Pool!RingTypes(Messages)'
      /\ workerpc' \in [Workers -> {"top", "pop", "execute", "reschedule"}]
      /\ task' \in [Workers -> Messages \cup {Null}]
      /\ WorkersInv'
  <2>1. CASE WorkerTop(w)
    BY <1>3, <2>1, PoolUnchanged DEF WorkerTop, ServerInv, WorkersInv
  <2>2. CASE WorkerPop(w)
    <3>1. CASE /\ workerpc' = [workerpc EXCEPT ![w] = "execute"]
               /\ task' = [task EXCEPT ![w] = Pool!Front(w)]
               /\ Pool!PopFront(w) /\ Pool!Front(w) # Null
      <4>1. Pool!Front(w) \in Messages
        BY <1>3, <3>1 DEF Pool!Front
      <4>2. Pool!RingTypes(Messages)'
        BY <3>1, <4>1, PushesKeepTypes
      <4> QED
        BY <1>3, <3>1, <4>1, <4>2 DEF ServerInv, WorkersInv
    <3>2. CASE workerpc' = [workerpc EXCEPT ![w] = "top"] /\ UNCHANGED <<pool, task>>
      BY <1>3, <3>2, PoolUnchanged DEF ServerInv, WorkersInv
    <3>3. CASE UNCHANGED <<pool, workerVars>>
      BY <1>3, <3>3, PoolUnchanged DEF ServerInv, WorkersInv, workerVars
    <3> QED
      BY <2>2, <3>1, <3>2, <3>3 DEF WorkerPop
  <2>3. CASE Execute(w)
    BY <1>3, <2>3, PoolUnchanged DEF Execute, ServerInv, WorkersInv
  <2>4. CASE Reschedule(w)
    <3>1. /\ workerpc[w] = "reschedule" /\ Pool!StoreWrite(w)
          /\ workerpc' = [workerpc EXCEPT ![w] = "top"]
          /\ task' = [task EXCEPT ![w] = Null]
      BY <2>4 DEF Reschedule
    <3>2. Pool!RingTypes(Messages)'
      BY <1>3, <3>1, PushesKeepTypes
    <3> QED
      BY <1>3, <3>1, <3>2 DEF ServerInv, WorkersInv
  <2> QED
    BY <2>1, <2>2, <2>3, <2>4
<1>5. TypeOK'
  BY <1>1, <1>2, <1>4 DEF ServerInv, TypeOK, QueueLives, WalkInv, mainVars, dispatcherVars
<1>6. MainInv'
  BY <1>1, MainUnchanged DEF ServerInv
<1>7. SessionsInv'
  BY <1>1, SessionsUnchanged DEF ServerInv, mainVars, queueVars, producerVars
<1>8. DispatcherInv'
  BY <1>1, DispatcherUnchanged DEF ServerInv, Running, mainVars, queueVars, consumerVars
<1> QED
  BY <1>2, <1>4, <1>5, <1>6, <1>7, <1>8 DEF ServerInv, QueueLives

(* A cancel that is submitted again by its worker.                          *)
LEMMA ReschedulingInv ==
    ASSUME ServerInv, NEW w \in Workers, RescheduleFindsRoom(w) \/ RescheduleFills(w)
    PROVE  ServerInv'
<1>1. /\ workerpc[w] = "reschedule"
      /\ Pool!FindRoom(w, WorkerOf[task[w]]) \/ Pool!FillSlot(w, task[w])
      /\ UNCHANGED <<queueVars, mainVars, ended, arrived, dispatcherVars, workerVars>>
  BY DEF RescheduleFindsRoom, RescheduleFills
<1>2. task[w] \in Messages /\ WorkerOf[task[w]] \in Workers
  BY <1>1, MessagesAssumption DEF ServerInv, WorkersInv
<1>3. Pool!RingTypes(Messages)'
  BY <1>1, <1>2, PushesKeepTypes
<1> QED
  BY <1>1, <1>3, PushOnly

-----------------------------------------------------------------------------
(* The main thread *)

(* A thread is created while everything is alive and no join was made.      *)
LEMMA CreateInv ==
    ASSUME ServerInv, NEW at \in Constructing, NEW t \in Threads,
           NEW then \in Up, Create(at, t, then),
           t = "processor" => then = "startAcceptor"
    PROVE  ServerInv'
<1>1. /\ main = at /\ started' = started \cup {t} /\ main' = then
      /\ UNCHANGED <<queueVars, step, alive, finishing, ended, arrived, dispatcherVars,
                     pool, workerVars>>
      /\ step = 1 /\ alive = Members /\ "processor" \notin started
  BY DEF Create, ServerInv, MainInv, Up
<1>2. QueueLives'
  BY <1>1, QueueUnchanged DEF ServerInv, QueueLives
<1>3. TypeOK'
  BY <1>1, <1>2, PoolUnchanged
  DEF ServerInv, TypeOK, QueueLives, WalkInv, dispatcherVars, workerVars, Up
<1>4. MainInv'
  BY <1>1 DEF ServerInv, MainInv, Done, Up, Constructing
<1>5. SessionsInv'
  BY <1>1 DEF ServerInv, SessionsInv, queueVars, producerVars, Constructing
<1>6. DispatcherInv'
  BY <1>1 DEF ServerInv, DispatcherInv, Running, queueVars, consumerVars, dispatcherVars
<1>7. WorkersInv'
  BY <1>1 DEF ServerInv, WorkersInv, workerVars
<1> QED
  BY <1>2, <1>3, <1>4, <1>5, <1>6, <1>7 DEF ServerInv, QueueLives

(* Main moves on; only StartFails skips a part of the teardown, the joins   *)
(* of a dispatcher and a processor that a normal start has created.         *)
LEMMA MoveMainInv ==
    ASSUME ServerInv, StartFails \/ StartAcceptor \/ AcceptorFails \/ Quit \/ StopAcceptor
    PROVE  ServerInv'
<1>1. /\ UNCHANGED <<queueVars, alive, started, finishing, ended, arrived, dispatcherVars,
                     pool, workerVars>>
      /\ main \in Up /\ main' \in Up \cup {"teardown"}
      /\ main' \notin Constructing
  BY DEF StartFails, StartAcceptor, AcceptorFails, Quit, StopAcceptor, MoveMain, Up, Constructing
<1>2. step = 1 /\ alive = Members
  BY <1>1 DEF ServerInv, MainInv
<1>3. \/ main \in Constructing /\ main' = "teardown" /\ step' = 5
      \/ step' = 1
  BY <1>2, TeardownFacts DEF StartFails, StartAcceptor, AcceptorFails, Quit, StopAcceptor, MoveMain
<1>4. QueueLives'
  BY <1>1, QueueUnchanged DEF ServerInv, QueueLives
<1>5. TypeOK'
  BY <1>1, <1>3, <1>4, TeardownFacts, PoolUnchanged
  DEF ServerInv, TypeOK, QueueLives, WalkInv, dispatcherVars, workerVars
<1>6. MainInv'
  <2>1. CASE step' = 1
    <3>1. main' \in Up => step' = 1 /\ alive' = Members
      BY <1>1, <1>2, <2>1
    <3>2. \A operation, object : ~Done(operation, object)'
      BY <2>1 DEF Done
    <3>3. main' # "exited"
      BY <1>1 DEF Up, Constructing
    <3> QED
      BY <1>1, <1>2, <3>1, <3>2, <3>3 DEF MainInv, Members
  <2>2. CASE main \in Constructing /\ main' = "teardown" /\ step' = 5
    <3>1. "processor" \notin started
      BY <2>2 DEF ServerInv, MainInv
    <3>2. ~Done("join", "pool")'
      BY <2>2, TeardownFacts DEF Done
    <3>3. NormalStart' => Joined("processor")' = {} /\ Joined("dispatcher")' = {}
      BY <1>1, <3>1 DEF NormalStart, Joined
    <3>4. main' \notin Up
      BY <2>2 DEF Up, Constructing
    <3> QED
      BY <1>1, <1>2, <2>2, <3>2, <3>3, <3>4 DEF MainInv, Members
  <2> QED
    BY <1>3, <2>1, <2>2
<1>7. SessionsInv'
  <2>1. CASE StartFails \/ StartAcceptor \/ AcceptorFails
    BY <1>1, <2>1 DEF StartFails, StartAcceptor, AcceptorFails, MoveMain, ServerInv, SessionsInv,
                      queueVars, producerVars, Constructing
  <2>2. CASE Quit
    BY <1>1, <2>2 DEF Quit, MoveMain, ServerInv, SessionsInv, queueVars, producerVars
  <2>3. CASE StopAcceptor
    BY <1>1, <2>3 DEF StopAcceptor, ServerInv, SessionsInv, queueVars, producerVars
  <2> QED
    BY <2>1, <2>2, <2>3
<1>8. DispatcherInv'
  BY <1>1, DispatcherUnchanged DEF ServerInv, Running, queueVars, consumerVars
<1>9. WorkersInv'
  BY <1>1 DEF ServerInv, WorkersInv, workerVars
<1> QED
  BY <1>4, <1>5, <1>6, <1>7, <1>8, <1>9 DEF ServerInv, QueueLives

(* The destructor of the queue leaves the nodes of the batch alone.         *)
LEMMA DestroyWalks ==
    ASSUME QueueInv, Destroy
    PROVE  WalkInv' /\ head' = Null
<1>1. /\ head' = Null
      /\ allocated' = allocated \ ({head} \cup Elements(linked))
      /\ UNCHANGED <<next, data, tail, linked, pushpc, newNode, sent, flushpc, node, value,
                     batch, received>>
  BY DEF Destroy, producerVars, consumerVars, Elements
<1>2. ASSUME NEW i \in 1..Len(batch) PROVE batch[i] \in allocated'
  <2>1. batch[i] \in allocated
    BY DEF QueueInv, ListInv, Chain
  <2>2. batch[i] \in Elements(batch)
    BY DEF Elements
  <2> QED
    BY <1>1, <2>1, <2>2 DEF QueueInv, ListInv
<1>3. Chain(batch)'
  BY <1>1, <1>2 DEF QueueInv, ListInv, Chain
<1>4. QueueTypeOK' /\ ConsumerInv'
  BY <1>1 DEF QueueInv, QueueTypeOK, ConsumerInv
<1> QED
  BY <1>1, <1>3, <1>4 DEF WalkInv

(* Each step of the destruction finds the threads joined that it relies on. *)
LEMMA TeardownStepInv == ASSUME ServerInv, TeardownStep PROVE ServerInv'
<1> DEFINE operation == Teardown[step][1]
           object == Teardown[step][2]
<1>1. /\ main = "teardown"
      /\ operation = "join" => Joined(object) \subseteq ended
      /\ finishing' = IF operation = "signal" THEN finishing \cup {object} ELSE finishing
      /\ alive' = IF operation = "destroy" THEN alive \ {object} ELSE alive
      /\ IF <<operation, object>> = <<"destroy", "queue">> THEN Destroy ELSE UNCHANGED queueVars
      /\ IF step = 13 THEN main' = "exited" /\ step' = step
                      ELSE step' = step + 1 /\ main' = main
      /\ UNCHANGED <<started, ended, arrived, dispatcherVars, pool, workerVars>>
  BY TeardownFacts DEF TeardownStep
<1>2. step \in 1..13 /\ Teardown[step] = <<operation, object>>
  BY TeardownFacts DEF ServerInv, TypeOK
<1>3. step' \in 1..13
  BY <1>1, <1>2
<1>4. UNCHANGED <<flushpc, value, received, pushpc>>
  BY <1>1 DEF Destroy, queueVars, producerVars, consumerVars
<1>5. \A i \in 1..(step' - 1) : i \in 1..(step - 1) \/ i = step
  BY <1>1, <1>2
<1>6. \A i \in 1..(step - 1) : i \in 1..(step' - 1)
  BY <1>1, <1>2
<1>7. MainInv'
  <2>1. main' \notin Up
    BY <1>1 DEF Up, Constructing
  <2>2. main' = "exited" => step' = 13
    BY <1>1
  <2>3. ASSUME main' # "exited", NEW o \in Members
        PROVE  Done("destroy", o)' \/ o \in alive'
    <3>1. step \in 1..(step' - 1)
      BY <1>1, <1>2, <2>3
    <3>2. Done("destroy", o) \/ o \in alive
      BY <1>1 DEF ServerInv, MainInv
    <3>3. CASE Done("destroy", o)
      BY <1>6, <3>3 DEF Done
    <3>4. CASE o \in alive /\ operation = "destroy" /\ o = object
      BY <1>2, <3>1, <3>4 DEF Done
    <3>5. CASE o \in alive /\ ~(operation = "destroy" /\ o = object)
      BY <1>1, <3>5
    <3> QED
      BY <3>2, <3>3, <3>4, <3>5
  <2>4. ASSUME NormalStart', NEW o \in {"processor", "dispatcher", "pool"}, Done("join", o)'
        PROVE  Joined(o)' \subseteq ended'
    <3>1. NormalStart /\ Joined(o)' = Joined(o) /\ ended' = ended
      BY <1>1, <2>4 DEF NormalStart, Joined
    <3>2. PICK i \in 1..(step' - 1) : Teardown[i] = <<"join", o>>
      BY <2>4 DEF Done
    <3>3. CASE i \in 1..(step - 1)
      BY <3>1, <3>2, <3>3 DEF ServerInv, MainInv, Done
    <3>4. CASE i = step
      BY <1>1, <3>1, <3>2, <3>4
    <3> QED
      BY <1>5, <3>3, <3>4
  <2> QED
    BY <2>1, <2>2, <2>3, <2>4, TeardownFacts DEF MainInv, Up
<1>8. QueueLives'
  <2>1. CASE <<operation, object>> = <<"destroy", "queue">>
    <3>1. Destroy /\ "queue" \notin alive'
      BY <1>1, <2>1
    <3>2. "queue" \in alive
      <4>1. ~Done("destroy", "queue")
        BY <1>2, TeardownFacts, <2>1 DEF Done
      <4> QED
        BY <1>1, <4>1 DEF ServerInv, MainInv, Members
    <3> QED
      BY <3>1, <3>2, DestroyWalks DEF ServerInv, QueueLives
  <2>2. CASE <<operation, object>> # <<"destroy", "queue">>
    <3>1. "queue" \in alive' <=> "queue" \in alive
      BY <1>1, <2>2
    <3> QED
      BY <1>1, <2>2, <3>1, QueueUnchanged DEF ServerInv, QueueLives
  <2> QED
    BY <2>1, <2>2
<1>9. TypeOK'
  <2>1. finishing' \subseteq {"dispatcher", "processor", "pool"}
    BY <1>1, <1>2, TeardownFacts DEF ServerInv, TypeOK
  <2>2. main' \in Up \cup {"teardown", "exited", "aborted"}
    BY <1>1
  <2> QED
    BY <1>1, <1>3, <1>8, <2>1, <2>2, TeardownFacts, PoolUnchanged
    DEF ServerInv, TypeOK, QueueLives, WalkInv, dispatcherVars, workerVars
<1>10. SessionsInv'
  BY <1>1, <1>4 DEF ServerInv, SessionsInv
<1>11. DispatcherInv'
  BY <1>1, <1>4, DispatcherUnchanged DEF ServerInv, Running
<1>12. WorkersInv'
  BY <1>1 DEF ServerInv, WorkersInv, workerVars
<1> QED
  BY <1>7, <1>8, <1>9, <1>10, <1>11, <1>12 DEF ServerInv, QueueLives

-----------------------------------------------------------------------------
(* The theorems *)

(* Before the constructor nothing exists and nothing runs. *)
LEMMA ServerInitInv == Init => ServerInv
<1> SUFFICES ASSUME Init PROVE ServerInv
  OBVIOUS
<1>1. QueueInv /\ WalkInv
  BY InitInv, QueueWalks DEF Init
<1>2. TypeOK
  <2>1. Pool!RingTypes(Messages)
    <3>1. 0 \in Pool!Indices
      BY RingSizeAssumption DEF Pool!Indices
    <3> QED
      BY <3>1 DEF Init, Pool!RingTypes, Pool!RingsInit
  <2> QED
    BY <1>1, <2>1, TeardownFacts DEF Init, TypeOK, WalkInv, Up, Constructing
<1>3. MainInv
  BY DEF Init, MainInv, Done, Members, Up, Constructing
<1>4. SessionsInv /\ DispatcherInv /\ WorkersInv
  BY DEF Init, QueueInit, SessionsInv, DispatcherInv, WorkersInv, Running
<1> QED
  BY <1>1, <1>2, <1>3, <1>4 DEF Init, ServerInv, Members

(* Every step of every thread keeps the invariant. *)
LEMMA ServerStepInv == ServerInv /\ [Next]_vars => ServerInv'
<1> SUFFICES ASSUME ServerInv, [Next]_vars PROVE ServerInv'
  OBVIOUS
<1>1. CASE UNCHANGED vars
  <2>1. /\ UNCHANGED <<queueVars, mainVars, ended, arrived, dispatcherVars, pool, workerVars>>
        /\ UNCHANGED <<main, step, alive, started, finishing>>
    BY <1>1 DEF vars, mainVars
  <2>2. QueueLives'
    BY <2>1, QueueUnchanged DEF ServerInv, QueueLives
  <2>3. TypeOK' /\ WorkersInv'
    BY <2>1, <2>2, PoolUnchanged
    DEF ServerInv, TypeOK, QueueLives, WalkInv, WorkersInv, dispatcherVars, workerVars
  <2>4. MainInv'
    BY <2>1, MainUnchanged DEF ServerInv
  <2>5. SessionsInv'
    BY <2>1, SessionsUnchanged DEF ServerInv, queueVars, producerVars
  <2>6. DispatcherInv'
    BY <2>1, DispatcherUnchanged DEF ServerInv, Running, queueVars, consumerVars
  <2> QED
    BY <2>2, <2>3, <2>4, <2>5, <2>6 DEF ServerInv, QueueLives
<1>2. CASE \E s \in Producers : (\E m \in Messages : OnMessage(s, m)) \/ PushMessage(s)
  BY <1>2, OnMessageInv, PushMessageInv
<1>3. CASE ProgramRuns /\ DispatcherStep
  <2>1. CASE DispatcherCrashes
    BY <1>3, <2>1, AbortInv DEF DispatcherCrashes
  <2> QED
    BY <1>3, <2>1, DispatcherEndsInv, DispatcherReadsInv, SubmittingInv, SubmitTaskInv,
       NextMessageInv DEF DispatcherStep
<1>4. CASE ProcessorEnds
  <2>1. /\ "processor" \in started /\ ended' = ended \cup {"processor"}
        /\ UNCHANGED <<queueVars, mainVars, arrived, dispatcherVars, pool, workerVars>>
    BY <1>4 DEF ProcessorEnds, Running, End
  <2>2. "processor" \in Workers \cup {"processor"}
    OBVIOUS
  <2> QED
    BY <2>1, <2>2, ThreadEndsInv
<1>5. CASE ProgramRuns /\ \E w \in Workers : WorkerStep(w)
  <2>1. PICK w \in Workers : WorkerStep(w)
    BY <1>5
  <2>2. CASE WorkerEnds(w)
    <3>1. /\ w \in started /\ ended' = ended \cup {w}
          /\ UNCHANGED <<queueVars, mainVars, arrived, dispatcherVars, pool, workerVars>>
      BY <2>2 DEF WorkerEnds, Running, End
    <3> QED
      BY <3>1, ThreadEndsInv
  <2>3. CASE WorkerPop(w) /\ main' # main
    <3>1. /\ main' = "aborted"
          /\ UNCHANGED <<queueVars, step, alive, started, finishing, ended, arrived,
                         dispatcherVars, pool, workerVars>>
      BY <2>3 DEF WorkerPop
    <3> QED
      BY <1>5, <3>1, AbortInv
  <2>4. CASE (WorkerTop(w) \/ WorkerPop(w) \/ Execute(w) \/ Reschedule(w)) /\ main' = main
    BY <2>4, WorkerRunsInv
  <2>5. WorkerTop(w) \/ Execute(w) \/ Reschedule(w) => main' = main
    BY DEF WorkerTop, Execute, Reschedule, mainVars
  <2> QED
    BY <2>1, <2>2, <2>3, <2>4, <2>5, ReschedulingInv DEF WorkerStep
<1>6. CASE \E w \in Workers : StartWorker(w)
  <2>1. PICK w \in Workers : StartWorker(w)
    BY <1>6
  <2>2. w # "processor" /\ w \in Threads
    BY WorkersAssumption DEF Threads
  <2>3. \E then \in Up : Create("initialise", w, then)
    BY <2>1 DEF StartWorker, Up, Constructing
  <2>4. "initialise" \in Constructing
    BY DEF Constructing
  <2> QED
    BY <2>2, <2>3, <2>4, CreateInv
<1>7. CASE StartActors
  <2>1. /\ {"startDispatcher", "startProcessor"} \subseteq Constructing
        /\ {"startProcessor", "startAcceptor"} \subseteq Up
        /\ {"dispatcher", "processor"} \subseteq Threads
    BY DEF Constructing, Up, Threads
  <2>2. \/ Create("startDispatcher", "dispatcher", "startProcessor")
        \/ Create("startProcessor", "processor", "startAcceptor")
    BY <1>7 DEF StartActors
  <2> QED
    BY <2>1, <2>2, CreateInv
<1>8. CASE StartFails \/ StartAcceptor \/ AcceptorFails \/ Quit \/ StopAcceptor
  BY <1>8, MoveMainInv
<1>9. CASE TeardownStep
  BY <1>9, TeardownStepInv
<1> QED
  BY <1>1, <1>2, <1>3, <1>4, <1>5, <1>6, <1>7, <1>8, <1>9 DEF Next, MainStep

(* Main's progress tells what is alive; the queue, while it is, keeps its   *)
(* invariant; and the dispatcher has submitted what it copied, but for the  *)
(* message in its hands.                                                    *)
THEOREM ServerInvariant == Spec => []ServerInv
  BY ServerInitInv, ServerStepInv, PTL DEF Spec

(* All variables have their types: the indices of a ring stay inside of it   *)
(* and a thread in push is at a slot of one, although two may be at the same. *)
THEOREM ServerTypes == Spec => []TypeOK
<1>1. ServerInv => TypeOK
  BY DEF ServerInv
<1> QED
  BY <1>1, ServerInvariant, PTL

(* Server's destructor and members: every thread is joined before anything  *)
(* that it uses is destroyed, and the nodes of the incoming queue are used  *)
(* only while they are allocated, unless the processor could not be started. *)
THEOREM NothingUsedAfterDestruction == Spec => []NoUseAfterDestroy
<1>1. ServerInv => NoUseAfterDestroy
  <2> SUFFICES ASSUME ServerInv, NormalStart PROVE NoUseAfterDestroy
    BY DEF NoUseAfterDestroy
  <2>1. step \in 1..13 /\ alive \subseteq Members
    BY TeardownFacts DEF ServerInv, TypeOK
  <2>2. ASSUME Running("dispatcher") PROVE step <= 4
    <3>1. "dispatcher" \in started /\ "dispatcher" \notin ended
      BY <2>2 DEF Running
    <3>2. ~Done("join", "dispatcher")
      BY <3>1 DEF ServerInv, MainInv, Joined
    <3>3. step > 4 => 4 \in 1..(step - 1)
      BY <2>1
    <3> QED
      BY <2>1, <3>2, <3>3, TeardownFacts DEF Done
  <2>3. ASSUME step <= 4 PROVE alive = Members
    <3>1. \A i \in 1..(step - 1) : i \in 1..4
      BY <2>1, <2>3
    <3>2. main # "exited"
      BY <2>1, <2>3, TeardownFacts DEF ServerInv, MainInv
    <3>3. \A o : ~Done("destroy", o)
      BY <3>1, TeardownFacts DEF Done
    <3> QED
      BY <2>1, <3>2, <3>3 DEF ServerInv, MainInv
  <2>4. ASSUME NEW t \in Workers \cup {"processor"}, Running(t) PROVE "book" \in alive
    <3>1. t \in started /\ t \notin ended
      BY <2>4 DEF Running
    <3>2. ~Done("join", IF t \in Workers THEN "pool" ELSE "processor")
      BY <2>4, <3>1 DEF ServerInv, MainInv, Joined
    <3>3. step = 13 => 2 \in 1..(step - 1) /\ 12 \in 1..(step - 1)
      BY <2>1
    <3>4. step # 13
      BY <3>2, <3>3, TeardownFacts DEF Done
    <3>5. main # "exited" /\ \A i \in 1..(step - 1) : i \in 1..12
      BY <2>1, <3>4, TeardownFacts DEF ServerInv, MainInv
    <3> QED
      BY <3>5, TeardownFacts DEF ServerInv, MainInv, Done, Members
  <2>5. NoUseAfterFree
    <3>1. CASE "queue" \in alive
      BY <3>1, NoUseOfFreedNodes DEF ServerInv
    <3>2. CASE "queue" \notin alive
      <4>1. ~Running("dispatcher")
        BY <2>2, <2>3, <3>2 DEF Members
      <4> QED
        BY <3>2, <4>1 DEF ServerInv, SessionsInv, DispatcherInv, NoUseAfterFree
    <3> QED
      BY <3>1, <3>2
  <2> QED
    BY <2>2, <2>3, <2>4, <2>5 DEF ServerInv, SessionsInv, NoUseAfterDestroy
<1> QED
  BY <1>1, ServerInvariant, PTL

(* IncomingMessageDispatcher::run ends only between two batches: whatever   *)
(* it took from the queue it has submitted, in every case of the shutdown.  *)
THEOREM BatchHandedOver == Spec => []HandedOver
<1>1. ServerInv => HandedOver
  BY DEF ServerInv, HandedOver, Running, DispatcherInv, WalkInv, ConsumerInv
<1> QED
  BY <1>1, ServerInvariant, PTL

-----------------------------------------------------------------------------
(* The incoming queue with its destructor *)

(* What a step of the server is for its incoming queue: a step of the queue *)
(* as long as it exists; the destruction; and then nothing but a walk       *)
(* through a batch that was taken before.                                   *)
LEMMA StepsOfQueue ==
    ASSUME ServerInv, [Next]_vars
    PROVE  \/ QueueInv /\ [QueueNext]_queueVars
           \/ QueueInv /\ Destroy
           \/ CallFlush \/ ReadMessage \/ FreeNode \/ UNCHANGED queueVars
<1>1. CASE \E s \in Producers : (\E m \in Messages : OnMessage(s, m)) \/ PushMessage(s)
  <2>1. PICK s \in Producers : (\E m \in Messages : OnMessage(s, m)) \/ PushMessage(s)
    BY <1>1
  <2>2. ASSUME NEW m \in Messages, OnMessage(s, m)
        PROVE  (QueueInv /\ MakeNode(s, m)) \/ UNCHANGED queueVars
    <3>1. "queue" \in alive
      BY <2>2 DEF OnMessage, ServerInv, MainInv, Up, Members
    <3> QED
      BY <2>2, <3>1 DEF OnMessage, ServerInv
  <2>3. ASSUME PushMessage(s) PROVE QueueInv /\ Push(s)
    BY <2>3 DEF PushMessage, Push, ServerInv, SessionsInv
  <2> QED
    BY <2>1, <2>2, <2>3 DEF QueueNext, Messages
<1>2. CASE DispatcherStep
  <2>1. ASSUME IsEmpty \/ Flush PROVE QueueInv
    BY <2>1 DEF IsEmpty, Flush, ServerInv
  <2> QED
    BY <1>2, <2>1
    DEF DispatcherStep, DispatcherEnds, DispatcherReads, SubmitFindsRoom, SubmitFills,
        SubmitTask, NextMessage, DispatcherCrashes, QueueNext, ConsumerStep
<1>3. CASE ProcessorEnds \/ \E w \in Workers : WorkerStep(w)
  BY <1>3 DEF ProcessorEnds, WorkerStep, WorkerEnds, WorkerTop, WorkerPop, Execute,
              RescheduleFindsRoom, RescheduleFills, Reschedule
<1>4. CASE (\E w \in Workers : StartWorker(w)) \/ StartActors
  BY <1>4 DEF StartWorker, StartActors, Create
<1>5. CASE StartFails \/ StartAcceptor \/ AcceptorFails \/ Quit \/ StopAcceptor
  BY <1>5 DEF StartFails, StartAcceptor, AcceptorFails, Quit, StopAcceptor, MoveMain
<1>6. CASE TeardownStep
  <2>1. step \in 1..13
    BY TeardownFacts DEF ServerInv, TypeOK
  <2>2. CASE Teardown[step] = <<"destroy", "queue">>
    <3>1. step = 5 /\ main = "teardown"
      BY <1>6, <2>1, <2>2, TeardownFacts DEF TeardownStep
    <3>2. \A i \in 1..(step - 1) : i \in 1..4
      BY <3>1
    <3>3. ~Done("destroy", "queue")
      BY <3>2, TeardownFacts DEF Done
    <3>4. "queue" \in alive
      BY <3>1, <3>3 DEF ServerInv, MainInv, Members
    <3> QED
      BY <1>6, <2>2, <3>4 DEF TeardownStep, ServerInv
  <2>3. CASE Teardown[step] # <<"destroy", "queue">>
    <3>1. <<Teardown[step][1], Teardown[step][2]>> # <<"destroy", "queue">>
      BY <2>1, <2>3, TeardownFacts
    <3> QED
      BY <1>6, <3>1 DEF TeardownStep
  <2> QED
    BY <2>2, <2>3
<1>7. CASE UNCHANGED vars
  BY <1>7 DEF vars
<1> QED
  BY <1>1, <1>2, <1>3, <1>4, <1>5, <1>6, <1>7 DEF Next, MainStep

(* Destroying the queue frees the nodes and leaves its contents on paper.   *)
LEMMA DestroyStutters ==
    ASSUME QueueInv, Destroy
    PROVE  ContentsInv' /\ UNCHANGED <<Contents, sent, received>>
<1>1. UNCHANGED <<data, linked, batch, flushpc, sent, received>>
  BY DEF Destroy, producerVars, consumerVars
<1>2. WalkInv' /\ ContentsInv
  BY DestroyWalks, QueueHasContents
<1> QED
  BY <1>1, <1>2 DEF ContentsInv, Elements, Contents, Unread

(* Also behind the destructor: what is read is the next of what was linked. *)
LEMMA WalkStepIsFIFO ==
    ASSUME ContentsInv, CallFlush \/ ReadMessage \/ FreeNode \/ UNCHANGED queueVars
    PROVE  ContentsInv' /\ [FIFO!Next]_(FIFO!fifoVars)
<1>1. CASE CallFlush
  <2>1. WalkInv'
    BY <1>1, CallFlushWalk DEF ContentsInv
  <2>2. UNCHANGED <<data, linked, batch, sent, received>> /\ Unread' = Unread
    BY <1>1 DEF CallFlush, producerVars, Unread
  <2> QED
    BY <2>1, <2>2 DEF ContentsInv, Elements, Contents, FIFO!fifoVars
<1>2. CASE ReadMessage
  <2>1. WalkInv' /\ FIFO!Pop
    BY <1>2, ReadMessageWalk, ReadMessagePops DEF ContentsInv
  <2>2. UNCHANGED <<data, linked, batch>>
    BY <1>2 DEF ReadMessage
  <2> QED
    BY <2>1, <2>2 DEF ContentsInv, Elements, FIFO!Next
<1>3. CASE FreeNode
  BY <1>3, FreeNodeStutters DEF FIFO!fifoVars
<1>4. CASE UNCHANGED queueVars
  <2>1. UNCHANGED <<allocated, next, data, head, tail, linked, pushpc, newNode, flushpc, node,
                    value, batch, sent, received>>
    BY <1>4 DEF queueVars, producerVars, consumerVars
  <2>2. WalkInv'
    BY <2>1 DEF ContentsInv, WalkInv, QueueTypeOK, Chain, ConsumerInv
  <2> QED
    BY <2>1, <2>2 DEF ContentsInv, Elements, Contents, Unread, FIFO!fifoVars
<1> QED
  BY <1>1, <1>2, <1>3, <1>4

(* One step of the server is a push, a pop or nothing for the queue.        *)
LEMMA ServerStepIsFIFO ==
    ServerInv /\ ContentsInv /\ [Next]_vars => ContentsInv' /\ [FIFO!Next]_(FIFO!fifoVars)
<1> SUFFICES ASSUME ServerInv, ContentsInv, [Next]_vars
             PROVE  ContentsInv' /\ [FIFO!Next]_(FIFO!fifoVars)
  OBVIOUS
<1>1. CASE QueueInv /\ [QueueNext]_queueVars
  BY <1>1, StepInv, QueueStepIsFIFO, QueueHasContents
<1>2. CASE QueueInv /\ Destroy
  BY <1>2, DestroyStutters DEF FIFO!fifoVars
<1>3. CASE CallFlush \/ ReadMessage \/ FreeNode \/ UNCHANGED queueVars
  BY <1>3, WalkStepIsFIFO
<1> QED
  BY <1>1, <1>2, <1>3, StepsOfQueue

(* Inside the server, with sessions that come and go and a destructor that  *)
(* may run under a dispatcher nobody joined, the incoming queue remains a   *)
(* FIFO: the dispatcher reads what sessions pushed, in that order, once.    *)
THEOREM ServerQueueIsFIFO == Spec => ImplementsFIFO
<1>1. Init => FIFO!Init /\ ContentsInv
  <2>1. QueueInit => FIFO!Init
    BY DEF QueueInit, FIFO!Init, Contents, Unread
  <2> QED
    BY <2>1, InitInv, QueueHasContents DEF Init
<1> QED
  BY <1>1, ServerStepIsFIFO, ServerInvariant, PTL DEF Spec, ImplementsFIFO, FIFO!Spec
=============================================================================
