----------------------- MODULE CentralOrderBookProofs -----------------------
(***************************************************************************)
(* Proofs about CentralOrderBook, for every set of messages, any number of *)
(* symbols and workers, and rings of every size.                           *)
(***************************************************************************)
EXTENDS CentralOrderBook, SequenceTheorems, FiniteSetTheorems, TLAPS

(* What the parts of a message are, and the order that is made of it.       *)
LEMMA MessageFacts ==
    ASSUME NEW m \in Messages
    PROVE  /\ m.symbol \in Symbols /\ m.type \in {"NEW", "CANCEL"} /\ m # NoTask
           /\ m.owner \in Owners /\ m.clientID \in ClientIDs /\ m.side \in Sides
           /\ m.type = "NEW" =>
                 /\ m \in NewMessages
                 /\ m.price \in Prices /\ m.quantity \in Quantities
                 /\ \A n \in Nat : OrderOf(m, n) \in Order
<1>1. m.symbol \in Symbols
  BY DEF Symbols
<1>2. m \in NewMessages \/ m \in CancelMessages
  BY MessagesAssumption
<1>3. CASE m \in NewMessages
  <2>1. m \in [type : {"NEW"}, symbol : Symbols, owner : Owners, clientID : ClientIDs,
               side : Sides, price : Prices, quantity : Quantities]
    BY <1>3, MessagesAssumption
  <2>2. /\ m.owner \in Owners /\ m.clientID \in ClientIDs /\ m.side \in Sides
        /\ m.price \in Prices /\ m.quantity \in Quantities /\ m.type = "NEW"
    BY <2>1
  <2>3. ASSUME NEW n \in Nat PROVE OrderOf(m, n) \in Order
    BY <2>2, PricesAssumption, QuantitiesAssumption DEF OrderOf, NewOrder, Order
  <2> QED
    BY <1>1, <1>3, <2>2, <2>3 DEF NoTask
<1>4. CASE m \in CancelMessages
  <2>1. m \in [type : {"CANCEL"}, symbol : Symbols, owner : Owners, clientID : ClientIDs,
               side : Sides]
    BY <1>4, MessagesAssumption
  <2> QED
    BY <1>1, <2>1 DEF NoTask
<1> QED
  BY <1>2, <1>3, <1>4

(* operator[]: no entry changes, and a missing one is the default.          *)
LEMMA WithEntryFacts ==
    ASSUME NEW map, NEW key, NEW default
    PROVE  /\ DOMAIN WithEntry(map, key, default) = DOMAIN map \cup {key}
           /\ \A k \in DOMAIN map : WithEntry(map, key, default)[k] = map[k]
           /\ key \notin DOMAIN map => WithEntry(map, key, default)[key] = default
BY DEF WithEntry

(* The number of the ring of a configured symbol is a worker's.             *)
LEMMA ConfiguredFacts ==
    /\ Len(Configured) \in Nat \ {0} /\ 0 \in Workers
    /\ ToSet(Configured) \subseteq Symbols
    /\ \A s \in ToSet(Configured) :
          (CHOOSE i \in DOMAIN Configured : Configured[i] = s) - 1 \in Workers
<1>1. Len(Configured) \in Nat \ {0} /\ DOMAIN Configured = 1..Len(Configured)
  BY ConfiguredAssumption, LenProperties
<1>2. ASSUME NEW s \in ToSet(Configured)
      PROVE  (CHOOSE i \in DOMAIN Configured : Configured[i] = s) - 1 \in Workers
  <2>1. \E i \in DOMAIN Configured : Configured[i] = s
    BY DEF ToSet
  <2>2. (CHOOSE i \in DOMAIN Configured : Configured[i] = s) \in DOMAIN Configured
    BY <2>1
  <2> QED
    BY <1>1, <2>2 DEF Workers
<1>3. 0 \in Workers
  BY <1>1 DEF Workers
<1> QED
  BY <1>1, <1>2, <1>3 DEF Symbols

-----------------------------------------------------------------------------
(* Types, and the one worker of a symbol *)

(* Nobody has done anything with the rings.                                 *)
LEMMA PoolKept ==
    ASSUME MatcherInv, pool' = pool
    PROVE  /\ Pool!RingTypes(Messages)'
           /\ rings' = rings /\ push' = push /\ overlapped' = overlapped
BY DEF pool, MatcherInv, TypeOK, Pool!RingTypes

LEMMA IndicesFacts ==
    /\ RingSize \in Nat \ {0} /\ Pool!Indices = 0..(RingSize - 1) /\ 0 \in Pool!Indices
    /\ \A n \in Pool!Indices : Pool!increment(n) \in Pool!Indices
BY RingSizeAssumption DEF Pool!Indices, Pool!increment

(* Where the types put a ring, and a thread inside push.                    *)
LEMMA RingFacts ==
    ASSUME MatcherInv, NEW w \in Workers
    PROVE  /\ rings[w].write \in Pool!Indices /\ rings[w].read \in Pool!Indices
           /\ \A i \in Pool!Indices : rings[w].slots[i] \in Messages \cup {NoTask}
           /\ rings[w] = [slots |-> rings[w].slots, write |-> rings[w].write,
                          read |-> rings[w].read]
           /\ rings[w].slots \in [Pool!Indices -> Messages \cup {NoTask}]
BY DEF MatcherInv, TypeOK, Pool!RingTypes

LEMMA PushingFacts ==
    ASSUME MatcherInv, NEW p \in Workers \cup {Dispatcher}, push[p] # Pool!Outside
    PROVE  /\ push[p].ring \in Workers /\ push[p].tail \in Pool!Indices
           /\ push[p].step \in {"fill", "store"}
           /\ push[p] = [step |-> push[p].step, ring |-> push[p].ring, tail |-> push[p].tail]
BY DEF MatcherInv, TypeOK, Pool!RingTypes, Pool!Pushing

LEMMA OutsideStep == Pool!Outside.step = "outside"
BY DEF Pool!Outside

LEMMA DispatcherIsNoWorker == Dispatcher \notin Workers
BY ConfiguredFacts DEF Dispatcher, Workers

(* The three steps of a push, and a pop, keep the types; a fill is the only *)
(* one that puts anything into a slot, and that is the thread's own task.   *)
LEMMA FindRoomFacts ==
    ASSUME MatcherInv, NEW p \in Workers \cup {Dispatcher}, NEW w \in Workers,
           Pool!FindRoom(p, w)
    PROVE  /\ push[p] = Pool!Outside /\ rings' = rings
           /\ push'[p] # Pool!Outside /\ push'[p].ring = w /\ push'[p].step = "fill"
           /\ push'[p].tail = rings[w].write
           /\ \A q \in (Workers \cup {Dispatcher}) \ {p} : push'[q] = push[q]
           /\ Pool!RingTypes(Messages)'
<1>1. push \in [Workers \cup {Dispatcher} -> Pool!Pushing \cup {Pool!Outside}]
  BY DEF MatcherInv, TypeOK, Pool!RingTypes
<1>2. /\ push[p] = Pool!Outside /\ rings' = rings
      /\ push' = [push EXCEPT ![p] = [step |-> "fill", ring |-> w, tail |-> rings[w].write]]
      /\ overlapped' \in BOOLEAN
  BY DEF Pool!FindRoom, MatcherInv, TypeOK, Pool!RingTypes
<1>3. [step |-> "fill", ring |-> w, tail |-> rings[w].write] \in Pool!Pushing
  BY RingFacts DEF Pool!Pushing
<1>4. push' \in [Workers \cup {Dispatcher} -> Pool!Pushing \cup {Pool!Outside}]
  BY <1>1, <1>2, <1>3
<1>5. push'[p] = [step |-> "fill", ring |-> w, tail |-> rings[w].write]
  BY <1>1, <1>2
<1>6. Pool!RingTypes(Messages)'
  BY <1>2, <1>4 DEF MatcherInv, TypeOK, Pool!RingTypes
<1>7. /\ push'[p].ring = w /\ push'[p].step = "fill" /\ push'[p].tail = rings[w].write
      /\ push'[p] # Pool!Outside
  BY <1>5, OutsideStep
<1> QED
  BY <1>1, <1>2, <1>6, <1>7

LEMMA FillFacts ==
    ASSUME MatcherInv, NEW p \in Workers \cup {Dispatcher}, NEW m \in Messages,
           Pool!FillSlot(p, m)
    PROVE  /\ push[p] # Pool!Outside /\ push[p].step = "fill" /\ push[p].ring \in Workers
           /\ push[p].tail \in Pool!Indices
           /\ push'[p] # Pool!Outside /\ push'[p].ring = push[p].ring
           /\ push'[p].tail = push[p].tail /\ push'[p].step = "store"
           /\ \A q \in (Workers \cup {Dispatcher}) \ {p} : push'[q] = push[q]
           /\ \A v \in Workers :
                 /\ rings'[v].write = rings[v].write /\ rings'[v].read = rings[v].read
                 /\ \A i \in Pool!Indices :
                       rings'[v].slots[i] = IF v = push[p].ring /\ i = push[p].tail
                                            THEN m ELSE rings[v].slots[i]
           /\ overlapped' = overlapped
           /\ Pool!RingTypes(Messages)'
<1>1. /\ push \in [Workers \cup {Dispatcher} -> Pool!Pushing \cup {Pool!Outside}]
      /\ rings \in [Workers -> [slots : [Pool!Indices -> Messages \cup {NoTask}],
                                write : Pool!Indices, read : Pool!Indices]]
  BY DEF MatcherInv, TypeOK, Pool!RingTypes
<1>2. /\ push[p].step = "fill" /\ push' = [push EXCEPT ![p].step = "store"]
      /\ rings' = [rings EXCEPT ![push[p].ring].slots[push[p].tail] = m]
      /\ overlapped' = overlapped
  BY DEF Pool!FillSlot
<1>3. push[p] # Pool!Outside
  BY <1>2, OutsideStep
<1>4. /\ push[p].ring \in Workers /\ push[p].tail \in Pool!Indices /\ push[p] \in Pool!Pushing
  BY <1>1, <1>3, PushingFacts
<1>5. /\ push'[p] \in Pool!Pushing /\ push'[p].ring = push[p].ring
      /\ push'[p].tail = push[p].tail /\ push'[p].step = "store"
  BY <1>1, <1>2, <1>4 DEF Pool!Pushing
<1>6. /\ push' \in [Workers \cup {Dispatcher} -> Pool!Pushing \cup {Pool!Outside}]
      /\ \A q \in (Workers \cup {Dispatcher}) \ {p} : push'[q] = push[q]
  BY <1>1, <1>2, <1>5
<1>7. rings' \in [Workers -> [slots : [Pool!Indices -> Messages \cup {NoTask}],
                              write : Pool!Indices, read : Pool!Indices]]
  BY <1>1, <1>2, <1>4
<1>8. \A v \in Workers :
         /\ rings'[v].write = rings[v].write /\ rings'[v].read = rings[v].read
         /\ \A i \in Pool!Indices :
               rings'[v].slots[i] = IF v = push[p].ring /\ i = push[p].tail
                                    THEN m ELSE rings[v].slots[i]
  BY <1>1, <1>2, <1>4
<1>9. Pool!RingTypes(Messages)'
  BY <1>2, <1>6, <1>7 DEF MatcherInv, TypeOK, Pool!RingTypes
<1>10. push'[p] # Pool!Outside
  BY <1>5, OutsideStep
<1> QED
  BY <1>2, <1>3, <1>4, <1>5, <1>6, <1>8, <1>9, <1>10

LEMMA StoreFacts ==
    ASSUME MatcherInv, NEW p \in Workers \cup {Dispatcher}, Pool!StoreWrite(p)
    PROVE  /\ push[p] # Pool!Outside /\ push[p].step = "store" /\ push[p].ring \in Workers
           /\ push[p].tail \in Pool!Indices
           /\ push'[p] = Pool!Outside
           /\ \A q \in (Workers \cup {Dispatcher}) \ {p} : push'[q] = push[q]
           /\ \A v \in Workers :
                 /\ rings'[v].slots = rings[v].slots /\ rings'[v].read = rings[v].read
                 /\ rings'[v].write = IF v = push[p].ring THEN Pool!increment(push[p].tail)
                                                          ELSE rings[v].write
           /\ overlapped' = overlapped
           /\ Pool!RingTypes(Messages)'
<1>1. /\ push \in [Workers \cup {Dispatcher} -> Pool!Pushing \cup {Pool!Outside}]
      /\ rings \in [Workers -> [slots : [Pool!Indices -> Messages \cup {NoTask}],
                                write : Pool!Indices, read : Pool!Indices]]
  BY DEF MatcherInv, TypeOK, Pool!RingTypes
<1>2. /\ push[p].step = "store" /\ push' = [push EXCEPT ![p] = Pool!Outside]
      /\ rings' = [rings EXCEPT ![push[p].ring].write = Pool!increment(push[p].tail)]
      /\ overlapped' = overlapped
  BY DEF Pool!StoreWrite
<1>3. push[p] # Pool!Outside
  BY <1>2, OutsideStep
<1>4. push[p].ring \in Workers /\ push[p].tail \in Pool!Indices
  BY <1>3, PushingFacts
<1>5. Pool!increment(push[p].tail) \in Pool!Indices
  BY <1>4, IndicesFacts
<1>6. /\ push' \in [Workers \cup {Dispatcher} -> Pool!Pushing \cup {Pool!Outside}]
      /\ push'[p] = Pool!Outside
      /\ \A q \in (Workers \cup {Dispatcher}) \ {p} : push'[q] = push[q]
  BY <1>1, <1>2
<1>7. /\ rings' \in [Workers -> [slots : [Pool!Indices -> Messages \cup {NoTask}],
                                 write : Pool!Indices, read : Pool!Indices]]
      /\ \A v \in Workers :
            /\ rings'[v].slots = rings[v].slots /\ rings'[v].read = rings[v].read
            /\ rings'[v].write = IF v = push[p].ring THEN Pool!increment(push[p].tail)
                                                     ELSE rings[v].write
  BY <1>1, <1>2, <1>4, <1>5
<1>8. Pool!RingTypes(Messages)'
  BY <1>2, <1>6, <1>7 DEF MatcherInv, TypeOK, Pool!RingTypes
<1> QED
  BY <1>2, <1>3, <1>4, <1>6, <1>7, <1>8

LEMMA PopFrontFacts ==
    ASSUME MatcherInv, NEW w \in Workers, Pool!PopFront(w)
    PROVE  /\ ~Pool!IsEmpty(w) /\ push' = push /\ overlapped' = overlapped
           /\ \A v \in Workers :
                 /\ rings'[v].slots = rings[v].slots /\ rings'[v].write = rings[v].write
                 /\ rings'[v].read = IF v = w THEN Pool!increment(rings[v].read)
                                              ELSE rings[v].read
           /\ Pool!RingTypes(Messages)'
<1>1. rings \in [Workers -> [slots : [Pool!Indices -> Messages \cup {NoTask}],
                             write : Pool!Indices, read : Pool!Indices]]
  BY DEF MatcherInv, TypeOK, Pool!RingTypes
<1>2. /\ ~Pool!IsEmpty(w) /\ push' = push /\ overlapped' = overlapped
      /\ rings' = [rings EXCEPT ![w].read = Pool!increment(@)]
  BY DEF Pool!PopFront
<1>3. Pool!increment(rings[w].read) \in Pool!Indices
  BY <1>1, IndicesFacts
<1>4. /\ rings' \in [Workers -> [slots : [Pool!Indices -> Messages \cup {NoTask}],
                                 write : Pool!Indices, read : Pool!Indices]]
      /\ \A v \in Workers :
            /\ rings'[v].slots = rings[v].slots /\ rings'[v].write = rings[v].write
            /\ rings'[v].read = IF v = w THEN Pool!increment(rings[v].read)
                                         ELSE rings[v].read
  BY <1>1, <1>2, <1>3
<1>5. Pool!RingTypes(Messages)'
  BY <1>2, <1>4 DEF MatcherInv, TypeOK, Pool!RingTypes
<1> QED
  BY <1>2, <1>4, <1>5

(* The matcher starts with empty rings and idle workers.                    *)
LEMMA MatcherInit == Init => MatcherInv
<1> SUFFICES ASSUME Init PROVE MatcherInv
  OBVIOUS
<1>1. /\ \A s \in DOMAIN books : books[s] = {}
      /\ DOMAIN books = ToSet(Configured) /\ DOMAIN queueID = ToSet(Configured)
      /\ \A s \in DOMAIN queueID : queueID[s] \in Workers
  BY ConfiguredFacts DEF Init
<1>2. \A S : <<>> \in Seq(S)
  BY EmptySeq
<1>3. processed \in [Workers -> Seq(Order)]
  BY <1>2 DEF Init
<1>4. /\ Pool!RingTypes(Messages)
      /\ \A p \in Workers \cup {Dispatcher} : push[p] = Pool!Outside
      /\ \A w \in Workers : \A i \in Pool!Indices : rings[w].slots[i] = NoTask
  BY IndicesFacts DEF Init, Pool!RingsInit, Pool!RingTypes
<1>5. TypeOK
  BY <1>1, <1>2, <1>3, <1>4, ConfiguredFacts DEF Init, TypeOK
<1>6. \A w \in Workers : WorkerInv(w)
  BY <1>4 DEF Init, WorkerInv
<1> QED
  BY <1>4, <1>5, <1>6 DEF MatcherInv, Init

(* A worker's part of the invariant only asks for entries, never for their  *)
(* absence: dictionaries that grow keep it.                                 *)
LEMMA EntriesKept ==
    ASSUME NEW w \in Workers, WorkerInv(w),
           \A s \in DOMAIN queueID : s \in DOMAIN queueID' /\ queueID'[s] = queueID[s],
           DOMAIN books \subseteq DOMAIN books',
           rings'[w].slots = rings[w].slots, push'[w] = push[w],
           wpc'[w] = wpc[w], wtask'[w] = wtask[w]
    PROVE  WorkerInv(w)'
BY DEF WorkerInv, AtItsWorker, RingOf

(* getQueueID makes a missing entry worker 0's and changes no other.        *)
LEMMA QueueOf ==
    ASSUME MatcherInv, NEW s \in Symbols, queueID' = WithEntry(queueID, s, 0)
    PROVE  /\ DOMAIN queueID' \subseteq Symbols /\ s \in DOMAIN queueID'
           /\ \A z \in DOMAIN queueID' : queueID'[z] \in Workers
           /\ \A z \in DOMAIN queueID : z \in DOMAIN queueID' /\ queueID'[z] = queueID[z]
<1> DEFINE new == WithEntry(queueID, s, 0)
<1>1. /\ DOMAIN new = DOMAIN queueID \cup {s}
      /\ \A z \in DOMAIN queueID : new[z] = queueID[z]
      /\ s \notin DOMAIN queueID => new[s] = 0
  BY WithEntryFacts
<1>2. queueID' = new
  OBVIOUS
<1>3. DOMAIN queueID \subseteq Symbols /\ \A z \in DOMAIN queueID : queueID[z] \in Workers
  BY DEF MatcherInv, TypeOK
<1> HIDE DEF new
<1> QED
  BY <1>1, <1>2, <1>3, ConfiguredFacts

(* The book that a lookup finds or makes.                                   *)
LEMMA BookFacts ==
    ASSUME MatcherInv, NEW s \in Symbols
    PROVE  /\ DOMAIN WithEntry(books, s, {}) = DOMAIN books \cup {s}
           /\ \A z \in DOMAIN books : WithEntry(books, s, {})[z] = books[z]
           /\ BookOf(books, s) \subseteq Order
           /\ s \in DOMAIN books => BookOf(books, s) = books[s]
           /\ s \notin DOMAIN books => BookOf(books, s) = {}
<1> DEFINE new == WithEntry(books, s, {})
<1>1. /\ DOMAIN new = DOMAIN books \cup {s}
      /\ \A z \in DOMAIN books : new[z] = books[z]
      /\ s \notin DOMAIN books => new[s] = {}
  BY WithEntryFacts
<1>2. BookOf(books, s) = new[s]
  BY DEF BookOf
<1> HIDE DEF new
<1>3. /\ s \in DOMAIN books => new[s] = books[s] /\ books[s] \subseteq Order
      /\ s \notin DOMAIN books => new[s] = {}
  BY <1>1 DEF MatcherInv, TypeOK
<1> QED
  BY <1>1, <1>2, <1>3 DEF new

(* What the dispatcher takes.                                               *)
LEMMA HeadOfIncoming ==
    ASSUME MatcherInv, incoming # <<>>
    PROVE  /\ Head(incoming) \in Messages /\ Tail(incoming) \in Seq(Messages)
           /\ Head(incoming).symbol \in Symbols
BY HeadTailProperties, MessageFacts DEF MatcherInv, TypeOK

(* Steps that put nothing into a slot and start or end no push: dictionaries *)
(* that grow keep the invariant of the workers that do nothing.              *)
Grows ==
    /\ \A s \in DOMAIN queueID : s \in DOMAIN queueID' /\ queueID'[s] = queueID[s]
    /\ DOMAIN books \subseteq DOMAIN books'
SlotsKept == \A w \in Workers : rings'[w].slots = rings[w].slots
DispatcherKept ==
    \/ dtask' = dtask
    \/ dtask = NoTask /\ (dtask' # NoTask => dtask'.symbol \in DOMAIN queueID')

LEMMA MatcherKept ==
    ASSUME MatcherInv, TypeOK', Grows, SlotsKept, push' = push, DispatcherKept,
           \A w \in Workers : (wpc'[w] = wpc[w] /\ wtask'[w] = wtask[w]) \/ WorkerInv(w)'
    PROVE  MatcherInv'
<1>1. \A w \in Workers : WorkerInv(w)'
  BY EntriesKept DEF MatcherInv, Grows, SlotsKept
<1>2. CASE dtask' = dtask
  <2>1. /\ dtask # NoTask =>
              dtask.symbol \in DOMAIN queueID' /\ RingOf(dtask)' = RingOf(dtask)
        /\ push[Dispatcher] # Pool!Outside =>
              dtask # NoTask /\ push[Dispatcher].ring = RingOf(dtask)
    BY <1>2 DEF MatcherInv, Grows, RingOf
  <2> QED
    BY <1>1, <1>2, <2>1 DEF MatcherInv
<1>3. CASE dtask = NoTask /\ (dtask' # NoTask => dtask'.symbol \in DOMAIN queueID')
  <2>1. push[Dispatcher] = Pool!Outside
    BY <1>3 DEF MatcherInv
  <2> QED
    BY <1>1, <1>3, <2>1 DEF MatcherInv
<1> QED
  BY <1>2, <1>3 DEF DispatcherKept

(* The steps of the sessions, the dispatcher and the processor.             *)
LEMMA DispatchKeepsMatcher ==
    ASSUME MatcherInv,
           (\E m \in Messages : Receive(m)) \/ RejectOrder \/ AcceptOrder \/ CancelOrder \/ Send
    PROVE  MatcherInv'
<1>1. /\ arrived \in Seq(Messages) /\ incoming \in Seq(Messages)
      /\ outgoing \in Seq(Report) /\ delivered \in Seq(Report)
  BY DEF MatcherInv, TypeOK
<1>2. pool' = pool /\ books' = books /\ wpc' = wpc /\ wtask' = wtask
  BY DEF Receive, RejectOrder, AcceptOrder, CancelOrder, Send, dictionaries, workers
<1>3. Pool!RingTypes(Messages)' /\ SlotsKept /\ push' = push
  BY <1>2, PoolKept DEF SlotsKept
<1>4. CASE \E m \in Messages : Receive(m)
  <2>1. PICK m \in Messages : Receive(m)
    BY <1>4
  <2>2. arrived' \in Seq(Messages) /\ incoming' \in Seq(Messages)
    BY <1>1, <2>1, AppendProperties DEF Receive
  <2>3. TypeOK' /\ Grows /\ DispatcherKept
    BY <1>3, <2>1, <2>2 DEF Receive, dictionaries, workers, reports, MatcherInv, TypeOK,
                            Grows, DispatcherKept
  <2> QED
    BY <1>2, <1>3, <2>3, MatcherKept
<1>5. CASE RejectOrder
  <2> DEFINE m == Head(incoming)
  <2>1. m \in Messages /\ m.type = "NEW" /\ incoming' \in Seq(Messages)
    BY <1>5, HeadOfIncoming DEF RejectOrder, NextMessage
  <2>2. MakeReport("REJECTED", m.symbol, OrderOf(m, 0)) \in Report
    BY <2>1, MessageFacts DEF MakeReport, Report
  <2>3. outgoing' \in Seq(Report)
    BY <1>1, <1>5, <2>2, AppendProperties DEF RejectOrder
  <2>4. TypeOK' /\ Grows /\ DispatcherKept
    BY <1>3, <1>5, <2>1, <2>3 DEF RejectOrder, dictionaries, workers, MatcherInv, TypeOK,
                                  Grows, DispatcherKept
  <2> QED
    BY <1>2, <1>3, <2>4, MatcherKept
<1>6. CASE AcceptOrder
  <2> DEFINE m == Head(incoming)
  <2>1. m \in Messages /\ m.type = "NEW" /\ m.symbol \in Symbols /\ incoming' \in Seq(Messages)
    BY <1>6, HeadOfIncoming DEF AcceptOrder, NextMessage
  <2>2. MakeReport("ACCEPTED", m.symbol, OrderOf(m, 0)) \in Report
    BY <2>1, MessageFacts DEF MakeReport, Report
  <2>3. outgoing' \in Seq(Report)
    BY <1>1, <1>6, <2>2, AppendProperties DEF AcceptOrder
  <2>4. /\ DOMAIN queueID' \subseteq Symbols /\ m.symbol \in DOMAIN queueID'
        /\ \A z \in DOMAIN queueID' : queueID'[z] \in Workers
        /\ \A z \in DOMAIN queueID : z \in DOMAIN queueID' /\ queueID'[z] = queueID[z]
    <3>1. queueID' = WithEntry(queueID, m.symbol, 0)
      BY <1>6 DEF AcceptOrder
    <3> QED
      BY <2>1, <3>1, QueueOf
  <2>5. dtask' = m /\ dtask = NoTask
    BY <1>6 DEF AcceptOrder, NextMessage
  <2>6. TypeOK'
    BY <1>3, <1>6, <2>1, <2>3, <2>4, <2>5 DEF AcceptOrder, workers, MatcherInv, TypeOK
  <2>7. Grows /\ DispatcherKept
    BY <1>2, <2>4, <2>5 DEF Grows, DispatcherKept
  <2> QED
    BY <1>2, <1>3, <2>6, <2>7, MatcherKept
<1>7. CASE CancelOrder
  <2> DEFINE m == Head(incoming)
  <2>1. m \in Messages /\ m.symbol \in Symbols /\ incoming' \in Seq(Messages)
    BY <1>7, HeadOfIncoming DEF CancelOrder, NextMessage
  <2>2. /\ DOMAIN queueID' \subseteq Symbols /\ m.symbol \in DOMAIN queueID'
        /\ \A z \in DOMAIN queueID' : queueID'[z] \in Workers
        /\ \A z \in DOMAIN queueID : z \in DOMAIN queueID' /\ queueID'[z] = queueID[z]
    <3>1. queueID' = WithEntry(queueID, m.symbol, 0)
      BY <1>7 DEF CancelOrder
    <3> QED
      BY <2>1, <3>1, QueueOf
  <2>3. dtask' = m /\ dtask = NoTask
    BY <1>7 DEF CancelOrder, NextMessage
  <2>4. TypeOK'
    BY <1>3, <1>7, <2>1, <2>2, <2>3 DEF CancelOrder, workers, reports, MatcherInv, TypeOK
  <2>5. Grows /\ DispatcherKept
    BY <1>2, <2>2, <2>3 DEF Grows, DispatcherKept
  <2> QED
    BY <1>2, <1>3, <2>4, <2>5, MatcherKept
<1>8. CASE Send
  <2>1. outgoing' \in Seq(Report) /\ Head(outgoing) \in Report
    BY <1>1, <1>8, HeadTailProperties DEF Send
  <2>2. delivered' \in Seq(Report)
    BY <1>1, <1>8, <2>1, AppendProperties DEF Send
  <2>3. TypeOK' /\ Grows /\ DispatcherKept
    BY <1>3, <1>8, <2>1, <2>2 DEF Send, sessions, dictionaries, workers, MatcherInv, TypeOK,
                                  Grows, DispatcherKept
  <2> QED
    BY <1>2, <1>3, <2>3, MatcherKept
<1> QED
  BY <1>4, <1>5, <1>6, <1>7, <1>8

(* The dispatcher inside push: it puts its task into a ring of the task's   *)
(* worker.                                                                  *)
LEMMA SubmitKeepsMatcher ==
    ASSUME MatcherInv, SubmitFindsRoom \/ SubmitFills \/ SubmitTask
    PROVE  MatcherInv'
<1>1. /\ queueID' = queueID /\ books' = books /\ wpc' = wpc /\ wtask' = wtask
      /\ \A w \in Workers : WorkerInv(w)
  BY DEF SubmitFindsRoom, SubmitFills, SubmitTask, dictionaries, workers, MatcherInv
<1>2. /\ Dispatcher \in Workers \cup {Dispatcher}
      /\ Workers \subseteq (Workers \cup {Dispatcher}) \ {Dispatcher}
  BY DispatcherIsNoWorker
<1>3. push[Dispatcher] # Pool!Outside =>
         /\ dtask \in Messages /\ AtItsWorker(dtask, push[Dispatcher].ring)
  BY DEF MatcherInv, TypeOK, AtItsWorker
<1>4. CASE SubmitFindsRoom
  <2>1. dtask # NoTask /\ dtask \in Messages /\ dtask.symbol \in DOMAIN queueID
    BY <1>4 DEF SubmitFindsRoom, MatcherInv, TypeOK
  <2>2. RingOf(dtask) \in Workers /\ Pool!FindRoom(Dispatcher, RingOf(dtask))
    BY <1>4, <2>1 DEF SubmitFindsRoom, MatcherInv, TypeOK, RingOf
  <2>3. /\ rings' = rings /\ push'[Dispatcher].ring = RingOf(dtask)
        /\ \A q \in (Workers \cup {Dispatcher}) \ {Dispatcher} : push'[q] = push[q]
        /\ Pool!RingTypes(Messages)'
    BY <1>2, <2>2, FindRoomFacts
  <2>4. TypeOK' /\ dtask' = dtask
    BY <1>4, <2>3
    DEF SubmitFindsRoom, sessions, dictionaries, workers, reports, MatcherInv, TypeOK
  <2>5. \A w \in Workers : WorkerInv(w)'
    BY <1>1, <1>2, <2>3, EntriesKept
  <2> QED
    BY <1>1, <2>1, <2>3, <2>4, <2>5 DEF MatcherInv, RingOf
<1>5. CASE SubmitFills
  <2>1. Pool!FillSlot(Dispatcher, dtask)
    BY <1>5 DEF SubmitFills
  <2>2. push[Dispatcher] # Pool!Outside
    BY <2>1, OutsideStep DEF Pool!FillSlot
  <2>3. dtask \in Messages /\ AtItsWorker(dtask, push[Dispatcher].ring)
    BY <1>3, <2>2
  <2>4. /\ push'[Dispatcher].ring = push[Dispatcher].ring
        /\ \A q \in (Workers \cup {Dispatcher}) \ {Dispatcher} : push'[q] = push[q]
        /\ \A v \in Workers : \A i \in Pool!Indices :
              rings'[v].slots[i] = IF v = push[Dispatcher].ring /\ i = push[Dispatcher].tail
                                   THEN dtask ELSE rings[v].slots[i]
        /\ Pool!RingTypes(Messages)'
    BY <1>2, <2>1, <2>3, FillFacts
  <2>5. TypeOK' /\ dtask' = dtask
    BY <1>5, <2>4
    DEF SubmitFills, sessions, dictionaries, workers, reports, MatcherInv, TypeOK
  <2>6. ASSUME NEW w \in Workers PROVE WorkerInv(w)'
    <3>1. push'[w] = push[w]
      BY <1>2, <2>4
    <3>2. \A i \in Pool!Indices :
             rings'[w].slots[i] # NoTask => AtItsWorker(rings'[w].slots[i], w)
      BY <1>1, <2>3, <2>4 DEF WorkerInv
    <3> QED
      BY <1>1, <3>1, <3>2 DEF WorkerInv, AtItsWorker, RingOf
  <2> QED
    BY <1>1, <2>2, <2>4, <2>5, <2>6 DEF MatcherInv, RingOf
<1>6. CASE SubmitTask
  <2>1. Pool!StoreWrite(Dispatcher) /\ dtask' = NoTask
    BY <1>6 DEF SubmitTask
  <2>2. /\ push'[Dispatcher] = Pool!Outside
        /\ \A q \in (Workers \cup {Dispatcher}) \ {Dispatcher} : push'[q] = push[q]
        /\ \A v \in Workers : rings'[v].slots = rings[v].slots
        /\ Pool!RingTypes(Messages)'
    BY <1>2, <2>1, StoreFacts
  <2>3. TypeOK'
    BY <1>6, <2>1, <2>2
    DEF SubmitTask, sessions, dictionaries, workers, reports, MatcherInv, TypeOK
  <2>4. \A w \in Workers : WorkerInv(w)'
    BY <1>1, <1>2, <2>2, EntriesKept
  <2> QED
    BY <2>1, <2>2, <2>3, <2>4 DEF MatcherInv
<1> QED
  BY <1>4, <1>5, <1>6

(* A worker inside push, with a cancel of its own.                          *)
LEMMA RescheduleKeepsMatcher ==
    ASSUME MatcherInv, NEW w \in Workers,
           RescheduleFindsRoom(w) \/ RescheduleFills(w) \/ Reschedule(w)
    PROVE  MatcherInv'
<1>1. /\ queueID' = queueID /\ books' = books /\ dtask' = dtask
      /\ \A v \in Workers : WorkerInv(v)
  BY DEF RescheduleFindsRoom, RescheduleFills, Reschedule, dictionaries, MatcherInv
<1>2. /\ w \in Workers \cup {Dispatcher} /\ Dispatcher # w
      /\ Dispatcher \in (Workers \cup {Dispatcher}) \ {w}
      /\ \A v \in Workers \ {w} : v \in (Workers \cup {Dispatcher}) \ {w}
  BY DispatcherIsNoWorker
<1>3. /\ wpc[w] # "idle" => wtask[w] \in Messages /\ AtItsWorker(wtask[w], w)
      /\ push[w] # Pool!Outside => wpc[w] = "resubmitting" /\ push[w].ring = w
  BY DEF MatcherInv, WorkerInv
<1>4. CASE RescheduleFindsRoom(w)
  <2>1. /\ wpc[w] = "resubmitting" /\ AtItsWorker(wtask[w], w)
        /\ Pool!FindRoom(w, w)
    BY <1>3, <1>4 DEF RescheduleFindsRoom, AtItsWorker
  <2>2. /\ rings' = rings /\ push'[w].ring = w
        /\ \A q \in (Workers \cup {Dispatcher}) \ {w} : push'[q] = push[q]
        /\ Pool!RingTypes(Messages)'
    BY <1>2, <2>1, FindRoomFacts
  <2>3. TypeOK' /\ wpc' = wpc /\ wtask' = wtask
    BY <1>4, <2>2
    DEF RescheduleFindsRoom, sessions, dictionaries, workers, reports, MatcherInv, TypeOK
  <2>4. \A v \in Workers \ {w} : WorkerInv(v)'
    BY <1>1, <1>2, <2>2, <2>3, EntriesKept
  <2>5. WorkerInv(w)'
    BY <1>1, <2>1, <2>2, <2>3 DEF WorkerInv, AtItsWorker, RingOf
  <2> QED
    BY <1>1, <1>2, <2>2, <2>3, <2>4, <2>5 DEF MatcherInv, RingOf
<1>5. CASE RescheduleFills(w)
  <2>1. Pool!FillSlot(w, wtask[w])
    BY <1>5 DEF RescheduleFills
  <2>2. push[w] # Pool!Outside
    BY <2>1, OutsideStep DEF Pool!FillSlot
  <2>3. /\ wpc[w] = "resubmitting" /\ wtask[w] \in Messages /\ AtItsWorker(wtask[w], w)
        /\ push[w].ring = w
    BY <1>3, <2>2
  <2>4. /\ push'[w].ring = w
        /\ \A q \in (Workers \cup {Dispatcher}) \ {w} : push'[q] = push[q]
        /\ \A v \in Workers : \A i \in Pool!Indices :
              rings'[v].slots[i] = IF v = w /\ i = push[w].tail
                                   THEN wtask[w] ELSE rings[v].slots[i]
        /\ Pool!RingTypes(Messages)'
    BY <1>2, <2>1, <2>3, FillFacts
  <2>5. TypeOK' /\ wpc' = wpc /\ wtask' = wtask
    BY <1>5, <2>4
    DEF RescheduleFills, sessions, dictionaries, workers, reports, MatcherInv, TypeOK
  <2>6. ASSUME NEW v \in Workers PROVE WorkerInv(v)'
    <3>1. \A i \in Pool!Indices :
             rings'[v].slots[i] # NoTask => AtItsWorker(rings'[v].slots[i], v)
      BY <1>1, <2>3, <2>4 DEF WorkerInv
    <3>2. push'[v] # Pool!Outside => wpc[v] = "resubmitting" /\ push'[v].ring = v
      BY <1>1, <1>2, <2>3, <2>4 DEF WorkerInv
    <3> QED
      BY <1>1, <2>5, <3>1, <3>2 DEF WorkerInv, AtItsWorker, RingOf
  <2> QED
    BY <1>1, <1>2, <2>4, <2>5, <2>6 DEF MatcherInv, RingOf
<1>6. CASE Reschedule(w)
  <2>1. /\ Pool!StoreWrite(w) /\ wpc' = [wpc EXCEPT ![w] = "idle"]
        /\ wtask' = [wtask EXCEPT ![w] = NoTask]
    BY <1>6 DEF Reschedule
  <2>2. /\ push'[w] = Pool!Outside
        /\ \A q \in (Workers \cup {Dispatcher}) \ {w} : push'[q] = push[q]
        /\ \A v \in Workers : rings'[v].slots = rings[v].slots
        /\ Pool!RingTypes(Messages)'
    BY <1>2, <2>1, StoreFacts
  <2>3. /\ TypeOK' /\ wpc'[w] = "idle"
        /\ \A v \in Workers \ {w} : wpc'[v] = wpc[v] /\ wtask'[v] = wtask[v]
    BY <1>6, <2>1, <2>2
    DEF Reschedule, sessions, dictionaries, reports, MatcherInv, TypeOK
  <2>4. \A v \in Workers \ {w} : WorkerInv(v)'
    BY <1>1, <1>2, <2>2, <2>3, EntriesKept
  <2>5. WorkerInv(w)'
    BY <1>1, <2>2, <2>3 DEF WorkerInv, AtItsWorker, RingOf
  <2> QED
    BY <1>1, <1>2, <2>2, <2>3, <2>4, <2>5 DEF MatcherInv, RingOf
<1> QED
  BY <1>4, <1>5, <1>6

(* Taking a task: it is a message for this worker.                          *)
LEMMA PopFacts ==
    ASSUME MatcherInv, NEW w \in Workers, NEW type \in {"NEW", "CANCEL"}, Pop(w, type)
    PROVE  /\ wpc[w] = "idle" /\ Pool!PopFront(w)
           /\ Pool!Front(w) \in Messages /\ Pool!Front(w).type = type
           /\ Pool!Front(w).symbol \in Symbols
           /\ AtItsWorker(Pool!Front(w), w)
           /\ SlotsKept /\ push' = push /\ push[w] = Pool!Outside
           /\ overlapped' = overlapped /\ Pool!RingTypes(Messages)'
<1>1. wpc[w] = "idle" /\ Pool!Front(w).type = type /\ Pool!PopFront(w)
  BY DEF Pop
<1>2. /\ Pool!Front(w) = rings[w].slots[rings[w].read] /\ rings[w].read \in Pool!Indices
      /\ Pool!Front(w) \in Messages \cup {NoTask}
  BY RingFacts DEF Pool!Front
<1>3. NoTask.type = "none"
  BY DEF NoTask
<1>4. Pool!Front(w) # NoTask
  BY <1>1, <1>3
<1>5. AtItsWorker(Pool!Front(w), w)
  BY <1>2, <1>4 DEF MatcherInv, WorkerInv
<1>6. push[w] = Pool!Outside
  BY <1>1 DEF MatcherInv, WorkerInv
<1>7. /\ push' = push /\ overlapped' = overlapped
      /\ \A v \in Workers : rings'[v].slots = rings[v].slots
      /\ Pool!RingTypes(Messages)'
  BY <1>1, PopFrontFacts
<1>8. Pool!Front(w).symbol \in Symbols
  BY <1>2, <1>4, MessageFacts
<1> QED
  BY <1>1, <1>2, <1>4, <1>5, <1>6, <1>7, <1>8 DEF SlotsKept

(* Order::execute and Order::cancel keep the name and the stamp.            *)
LEMMA OrderFacts ==
    ASSUME NEW o \in Order
    PROVE  /\ \A price, quantity \in Int :
                 LET e == Execute(o, price, quantity) IN
                 /\ e \in Order /\ e.stamp = o.stamp /\ e.owner = o.owner
                 /\ e.clientID = o.clientID
           /\ Cancel(o) \in Order
           /\ o.price \in Int /\ o.open \in Int /\ o.stamp \in Nat
<1>1. ASSUME NEW price \in Int, NEW quantity \in Int
      PROVE  LET e == Execute(o, price, quantity) IN
             /\ e \in Order /\ e.stamp = o.stamp /\ e.owner = o.owner
             /\ e.clientID = o.clientID
  <2> DEFINE pq == price * quantity
             undefined == o.nan \/ quantity + o.executed = 0
             value == IF undefined THEN 0 ELSE o.value + pq
             e == [o EXCEPT !.value = value, !.nan = undefined,
                            !.open = @ - quantity, !.executed = @ + quantity,
                            !.lastPx = price, !.lastQty = quantity]
  <2>1. pq \in Int /\ undefined \in BOOLEAN
    OBVIOUS
  <2>2. Execute(o, price, quantity) = e
    BY DEF Execute
  <2> HIDE DEF pq, undefined
  <2>3. o.open - quantity \in Int /\ o.executed + quantity \in Int /\ value \in Int
    BY <2>1 DEF Order
  <2> HIDE DEF value
  <2>4. e \in Order
    BY <2>1, <2>3 DEF Order
  <2>5. e.stamp = o.stamp /\ e.owner = o.owner /\ e.clientID = o.clientID
    BY DEF Order
  <2> HIDE DEF e
  <2> QED
    BY <2>2, <2>4, <2>5
<1>2. Cancel(o) \in Order
  BY DEF Cancel, Order
<1>3. o.price \in Int /\ o.open \in Int /\ o.stamp \in Nat
  BY PricesAssumption DEF Order
<1> QED
  BY <1>1, <1>2, <1>3

(* An order that is in a book after a pass of the matching loop was in it   *)
(* before, as it is or not yet executed.                                    *)
LEMMA AfterMatchFacts ==
    ASSUME NEW book \in SUBSET Order, NEW bid \in book, NEW ask \in book
    PROVE  /\ MatchedBid(bid, ask) \in Order /\ MatchedAsk(bid, ask) \in Order
           /\ AfterMatch(book, bid, ask) \subseteq Order
           /\ \A x \in AfterMatch(book, bid, ask) : \E y \in book :
                 x.stamp = y.stamp /\ x.owner = y.owner /\ x.clientID = y.clientID
<1> DEFINE b == MatchedBid(bid, ask)
           a == MatchedAsk(bid, ask)
<1>1. MatchQuantity(bid, ask) \in Int /\ ask.price \in Int
  BY OrderFacts DEF MatchQuantity
<1>2. b \in Order /\ b.stamp = bid.stamp /\ b.owner = bid.owner /\ b.clientID = bid.clientID
  BY <1>1, OrderFacts DEF MatchedBid
<1>3. a \in Order /\ a.stamp = ask.stamp /\ a.owner = ask.owner /\ a.clientID = ask.clientID
  BY <1>1, OrderFacts DEF MatchedAsk
<1> HIDE DEF a, b
<1>4. \A x \in AfterMatch(book, bid, ask) : x \in book \/ x = a \/ x = b
  BY DEF AfterMatch, Unfilled, a, b
<1> QED
  BY <1>2, <1>3, <1>4 DEF a, b

(* Likewise for a cancel: marked, then erased by name.                      *)
LEMMA CancelledFacts ==
    ASSUME NEW book \in SUBSET Order, NEW found \in book
    PROVE  /\ Cancel(found) \in Order
           /\ Erase((book \ {found}) \cup {Cancel(found)}, Cancel(found)) \subseteq Order
           /\ \A x \in Erase((book \ {found}) \cup {Cancel(found)}, Cancel(found)) :
                 \E y \in book :
                    x.stamp = y.stamp /\ x.owner = y.owner /\ x.clientID = y.clientID
<1> DEFINE c == Cancel(found)
           rest == Erase((book \ {found}) \cup {c}, c)
<1>1. c \in Order
  BY OrderFacts
<1>2. c.stamp = found.stamp /\ c.owner = found.owner /\ c.clientID = found.clientID
  BY DEF Cancel, Order
<1>3. \A x \in rest : x \in book \/ x = c
  BY DEF Erase
<1> HIDE DEF c, rest
<1>4. rest \subseteq Order
  BY <1>1, <1>3
<1>5. \A x \in rest : \E y \in book :
         x.stamp = y.stamp /\ x.owner = y.owner /\ x.clientID = y.clientID
  BY <1>2, <1>3
<1> QED
  BY <1>1, <1>4, <1>5 DEF c, rest

(* taskNewOrder up to the matching loop.                                    *)
LEMMA NewOrderKeepsMatcher ==
    ASSUME MatcherInv, NEW w \in Workers, TaskNewOrder(w)
    PROVE  MatcherInv'
<1> DEFINE m == Pool!Front(w)
           s == m.symbol
<1>1. /\ Pop(w, "NEW") /\ wpc' = [wpc EXCEPT ![w] = "matching"]
      /\ wtask' = [wtask EXCEPT ![w] = m] /\ processed' = [processed EXCEPT ![w] = <<>>]
      /\ inserted' = [inserted EXCEPT ![s] = @ + 1]
      /\ books' = [WithEntry(books, s, {}) EXCEPT ![s] = @ \cup {OrderOf(m, inserted[s])}]
      /\ queueID' = queueID /\ dtask' = dtask
      /\ arrived' = arrived /\ incoming' = incoming
      /\ outgoing' = outgoing /\ delivered' = delivered
  BY DEF TaskNewOrder, sessions, reports
<1>2. /\ m \in Messages /\ m.type = "NEW" /\ s \in Symbols /\ AtItsWorker(m, w)
      /\ SlotsKept /\ push' = push /\ push[w] = Pool!Outside
      /\ Pool!RingTypes(Messages)'
  BY <1>1, PopFacts
<1>3. inserted \in [Symbols -> Nat] /\ processed \in [Workers -> Seq(Order)]
  BY DEF MatcherInv, TypeOK
<1>4. OrderOf(m, inserted[s]) \in Order
  BY <1>2, <1>3, MessageFacts
<1>5. /\ DOMAIN books' = DOMAIN books \cup {s}
      /\ \A z \in DOMAIN books' : books'[z] \subseteq Order
  <2>1. /\ DOMAIN WithEntry(books, s, {}) = DOMAIN books \cup {s}
        /\ \A z \in DOMAIN books : WithEntry(books, s, {})[z] = books[z]
        /\ WithEntry(books, s, {})[s] \subseteq Order
    BY <1>2, BookFacts DEF BookOf
  <2> HIDE DEF m
  <2> QED
    BY <1>1, <1>4, <2>1 DEF MatcherInv, TypeOK
<1>6. /\ inserted' \in [Symbols -> Nat]
      /\ wpc' \in [Workers -> {"idle", "matching", "reporting", "resubmitting"}]
      /\ wtask' \in [Workers -> Messages \cup {NoTask}]
      /\ processed' \in [Workers -> Seq(Order)]
  <2>1. <<>> \in Seq(Order)
    BY EmptySeq
  <2> HIDE DEF m
  <2> QED
    BY <1>1, <1>2, <1>3, <2>1 DEF MatcherInv, TypeOK
<1> HIDE DEF m
<1>7. TypeOK'
  BY <1>1, <1>2, <1>5, <1>6 DEF MatcherInv, TypeOK
<1>8. WorkerInv(w)'
  <2>1. WorkerInv(w) /\ wpc'[w] = "matching" /\ wtask'[w] = m
    BY <1>1 DEF MatcherInv, TypeOK
  <2>2. m.symbol \in DOMAIN queueID /\ queueID[m.symbol] = w /\ m.symbol \in DOMAIN books'
    BY <1>2, <1>5 DEF AtItsWorker, RingOf
  <2> QED
    BY <1>1, <1>2, <2>1, <2>2 DEF WorkerInv, AtItsWorker, RingOf, SlotsKept
<1>9. \A v \in Workers \ {w} : wpc'[v] = wpc[v] /\ wtask'[v] = wtask[v]
  BY <1>1 DEF MatcherInv, TypeOK
<1>10. Grows /\ DispatcherKept
  BY <1>1, <1>5 DEF Grows, DispatcherKept
<1> QED
  BY <1>2, <1>7, <1>8, <1>9, <1>10, MatcherKept

(* One pass of the matching loop, and the end of the loop.                  *)
LEMMA MatchingKeepsMatcher ==
    ASSUME MatcherInv, NEW w \in Workers, MatchTwoOrders(w) \/ MatchingDone(w)
    PROVE  MatcherInv'
<1> DEFINE s == wtask[w].symbol
<1>1. /\ wpc[w] = "matching" /\ wtask[w] \in Messages /\ AtItsWorker(wtask[w], w)
      /\ s \in DOMAIN books /\ books[s] \in SUBSET Order /\ wtask[w] \in Messages
      /\ \A z \in DOMAIN books : books[z] \subseteq Order
  BY DEF MatchTwoOrders, MatchingDone, MatcherInv, WorkerInv, TypeOK
<1>4. pool' = pool /\ dtask' = dtask
  BY DEF MatchTwoOrders, MatchingDone
<1>5. /\ Pool!RingTypes(Messages)' /\ SlotsKept /\ push' = push /\ DispatcherKept
  BY <1>4, PoolKept DEF SlotsKept, DispatcherKept
<1>2. CASE MatchTwoOrders(w)
  <2>1. PICK bid \in books[s], ask \in books[s] :
           /\ books' = [books EXCEPT ![s] = AfterMatch(books[s], bid, ask)]
           /\ processed' = [processed EXCEPT
                  ![w] = processed[w] \o <<MatchedBid(bid, ask), MatchedAsk(bid, ask)>>]
    BY <1>2 DEF MatchTwoOrders
  <2>2. /\ MatchedBid(bid, ask) \in Order /\ MatchedAsk(bid, ask) \in Order
        /\ AfterMatch(books[s], bid, ask) \subseteq Order
    BY <1>1, AfterMatchFacts
  <2>3. /\ processed[w] \in Seq(Order) /\ processed \in [Workers -> Seq(Order)]
        /\ <<MatchedBid(bid, ask), MatchedAsk(bid, ask)>> \in Seq(Order)
    BY <2>2 DEF MatcherInv, TypeOK
  <2>4. processed[w] \o <<MatchedBid(bid, ask), MatchedAsk(bid, ask)>> \in Seq(Order)
    BY <2>3, ConcatProperties
  <2>5. processed' \in [Workers -> Seq(Order)]
    BY <2>1, <2>3, <2>4
  <2> HIDE DEF s
  <2>6. DOMAIN books' = DOMAIN books /\ \A z \in DOMAIN books' : books'[z] \subseteq Order
    BY <1>1, <2>1, <2>2
  <2>7. TypeOK'
    BY <1>2, <1>5, <2>5, <2>6 DEF MatchTwoOrders, sessions, reports, MatcherInv, TypeOK
  <2>8. Grows /\ wpc' = wpc /\ wtask' = wtask
    BY <1>2, <2>6 DEF MatchTwoOrders, Grows
  <2> QED
    BY <1>5, <2>7, <2>8, MatcherKept
<1>3. CASE MatchingDone(w)
  <2>1. /\ wpc'[w] = "reporting" /\ wtask' = wtask /\ queueID' = queueID /\ books' = books
        /\ \A v \in Workers \ {w} : wpc'[v] = wpc[v]
    BY <1>3 DEF MatchingDone, dictionaries, MatcherInv, TypeOK
  <2>2. TypeOK' /\ Grows
    BY <1>3, <1>5 DEF MatchingDone, sessions, dictionaries, reports, MatcherInv, TypeOK, Grows
  <2>3. WorkerInv(w)'
    BY <1>1, <1>5, <2>1 DEF MatchingDone, MatcherInv, WorkerInv, AtItsWorker, RingOf, SlotsKept
  <2> QED
    BY <1>5, <2>1, <2>2, <2>3, MatcherKept
<1> QED
  BY <1>2, <1>3

(* taskNewOrder makes its reports and ends.                                 *)
LEMMA ReportingKeepsMatcher ==
    ASSUME MatcherInv, NEW w \in Workers, ReportProcessed(w) \/ TaskNewOrderDone(w)
    PROVE  MatcherInv'
<1>3. pool' = pool /\ dtask' = dtask /\ queueID' = queueID /\ books' = books
  BY DEF ReportProcessed, TaskNewOrderDone, dictionaries
<1>4. /\ Pool!RingTypes(Messages)' /\ SlotsKept /\ push' = push /\ DispatcherKept /\ Grows
  BY <1>3, PoolKept DEF SlotsKept, DispatcherKept, Grows
<1>1. CASE ReportProcessed(w)
  <2>1. /\ wtask[w] \in Messages /\ processed \in [Workers -> Seq(Order)]
        /\ processed[w] \in Seq(Order) /\ processed[w] # <<>> /\ outgoing \in Seq(Report)
    BY <1>1 DEF ReportProcessed, MatcherInv, WorkerInv, TypeOK
  <2>2. Head(processed[w]) \in Order /\ Tail(processed[w]) \in Seq(Order)
    BY <2>1, HeadTailProperties
  <2>3. PICK type \in {"FILLED", "PARTIALLY_FILLED"} :
           outgoing' = Append(outgoing, MakeReport(type, wtask[w].symbol, Head(processed[w])))
    BY <1>1 DEF ReportProcessed
  <2>4. MakeReport(type, wtask[w].symbol, Head(processed[w])) \in Report
    BY <2>1, <2>2, MessageFacts DEF MakeReport, Report
  <2>5. outgoing' \in Seq(Report)
    BY <2>1, <2>3, <2>4, AppendProperties
  <2>6. processed' \in [Workers -> Seq(Order)]
    BY <1>1, <2>1, <2>2 DEF ReportProcessed
  <2>7. TypeOK'
    BY <1>1, <1>4, <2>5, <2>6 DEF ReportProcessed, sessions, dictionaries, MatcherInv, TypeOK
  <2>8. wpc' = wpc /\ wtask' = wtask
    BY <1>1 DEF ReportProcessed
  <2> QED
    BY <1>4, <2>7, <2>8, MatcherKept
<1>2. CASE TaskNewOrderDone(w)
  <2>1. TypeOK'
    BY <1>2, <1>4 DEF TaskNewOrderDone, sessions, dictionaries, reports, MatcherInv, TypeOK
  <2>2. /\ wpc[w] = "reporting" /\ wpc'[w] = "idle"
        /\ \A v \in Workers \ {w} : wpc'[v] = wpc[v] /\ wtask'[v] = wtask[v]
    BY <1>2 DEF TaskNewOrderDone, MatcherInv, TypeOK
  <2>3. WorkerInv(w)'
    BY <1>3, <1>4, <2>2 DEF MatcherInv, WorkerInv, AtItsWorker, RingOf, SlotsKept
  <2> QED
    BY <1>4, <2>1, <2>2, <2>3, MatcherKept
<1> QED
  BY <1>1, <1>2

(* taskCancelOrder, when the order is there.                                *)
LEMMA CancelKeepsMatcher ==
    ASSUME MatcherInv, NEW w \in Workers, TaskCancelOrder(w)
    PROVE  MatcherInv'
<1> DEFINE m == Pool!Front(w)
           s == m.symbol
           book == BookOf(books, s)
<1>1. Pop(w, "CANCEL")
  BY DEF TaskCancelOrder
<1>2. /\ m \in Messages /\ s \in Symbols
      /\ SlotsKept /\ push' = push /\ Pool!RingTypes(Messages)'
  BY <1>1, PopFacts
<1>3. PICK found \in Find(book, m.owner, m.clientID, m.side) :
         /\ outgoing' = Append(outgoing, MakeReport("CANCELED", s, Cancel(found)))
         /\ books' = [books EXCEPT ![s] = Erase((@ \ {found}) \cup {Cancel(found)}, Cancel(found))]
  BY DEF TaskCancelOrder
<1>4. found \in book /\ book \subseteq Order
  BY <1>2, <1>3, BookFacts DEF Find, First, Named, OnSide
<1>5. s \in DOMAIN books /\ book = books[s]
  BY <1>2, <1>4, BookFacts
<1>6. /\ Cancel(found) \in Order
      /\ Erase((books[s] \ {found}) \cup {Cancel(found)}, Cancel(found)) \subseteq Order
  BY <1>4, <1>5, CancelledFacts
<1>7. MakeReport("CANCELED", s, Cancel(found)) \in Report
  BY <1>2, <1>6 DEF MakeReport, Report
<1>8. outgoing' \in Seq(Report)
  BY <1>3, <1>7, AppendProperties DEF MatcherInv, TypeOK
<1> HIDE DEF m, s, book
<1>9. DOMAIN books' = DOMAIN books /\ \A z \in DOMAIN books' : books'[z] \subseteq Order
  BY <1>3, <1>5, <1>6 DEF MatcherInv, TypeOK
<1>10. TypeOK'
  BY <1>2, <1>8, <1>9 DEF TaskCancelOrder, sessions, workers, MatcherInv, TypeOK
<1>11. Grows /\ DispatcherKept /\ wpc' = wpc /\ wtask' = wtask
  BY <1>9 DEF TaskCancelOrder, workers, Grows, DispatcherKept
<1> QED
  BY <1>2, <1>10, <1>11, MatcherKept

(* taskCancelOrder, when it is not.                                         *)
LEMMA NotFoundKeepsMatcher ==
    ASSUME MatcherInv, NEW w \in Workers, TaskCancelOrderNotFound(w)
    PROVE  MatcherInv'
<1> DEFINE m == Pool!Front(w)
           s == m.symbol
<1>1. /\ Pop(w, "CANCEL") /\ wpc' = [wpc EXCEPT ![w] = "resubmitting"]
      /\ wtask' = [wtask EXCEPT ![w] = m]
      /\ books' = WithEntry(books, s, {}) /\ queueID' = WithEntry(queueID, s, 0)
      /\ dtask' = dtask
  BY DEF TaskCancelOrderNotFound
<1>2. /\ m \in Messages /\ m.type = "CANCEL" /\ s \in Symbols /\ AtItsWorker(m, w)
      /\ SlotsKept /\ push' = push /\ push[w] = Pool!Outside
      /\ Pool!RingTypes(Messages)'
  BY <1>1, PopFacts
<1>3. /\ DOMAIN queueID' \subseteq Symbols
      /\ \A z \in DOMAIN queueID' : queueID'[z] \in Workers
      /\ \A z \in DOMAIN queueID : z \in DOMAIN queueID' /\ queueID'[z] = queueID[z]
  BY <1>1, <1>2, QueueOf
<1>4. /\ DOMAIN WithEntry(books, s, {}) = DOMAIN books \cup {s}
      /\ \A z \in DOMAIN books : WithEntry(books, s, {})[z] = books[z]
      /\ WithEntry(books, s, {})[s] \subseteq Order
  BY <1>2, BookFacts DEF BookOf
<1> HIDE DEF m
<1>5. /\ DOMAIN books \subseteq DOMAIN books' /\ DOMAIN books' \subseteq Symbols
      /\ \A z \in DOMAIN books' : books'[z] \subseteq Order
  BY <1>1, <1>2, <1>4 DEF MatcherInv, TypeOK
<1>6. /\ wpc' \in [Workers -> {"idle", "matching", "reporting", "resubmitting"}]
      /\ wtask' \in [Workers -> Messages \cup {NoTask}]
      /\ wpc'[w] = "resubmitting" /\ wtask'[w] = m
      /\ \A v \in Workers \ {w} : wpc'[v] = wpc[v] /\ wtask'[v] = wtask[v]
  BY <1>1, <1>2 DEF MatcherInv, TypeOK
<1>7. TypeOK'
  BY <1>1, <1>2, <1>3, <1>5, <1>6
  DEF TaskCancelOrderNotFound, sessions, reports, MatcherInv, TypeOK
<1>8. WorkerInv(w)'
  <2>1. WorkerInv(w)
    BY DEF MatcherInv
  <2>2. m.symbol \in DOMAIN queueID' /\ queueID'[m.symbol] = w
    BY <1>2, <1>3 DEF AtItsWorker, RingOf
  <2>3. \A i \in Pool!Indices : rings'[w].slots[i] # NoTask =>
           /\ rings'[w].slots[i].symbol \in DOMAIN queueID'
           /\ queueID'[rings'[w].slots[i].symbol] = w
    BY <1>2, <1>3, <2>1 DEF WorkerInv, AtItsWorker, RingOf, SlotsKept
  <2> QED
    BY <1>2, <1>6, <2>2, <2>3 DEF WorkerInv, AtItsWorker, RingOf
<1>9. Grows /\ DispatcherKept
  BY <1>1, <1>3, <1>5 DEF Grows, DispatcherKept
<1> QED
  BY <1>2, <1>6, <1>7, <1>8, <1>9, MatcherKept

(* Every step keeps the types and every symbol's one worker.                *)
LEMMA MatcherStep == MatcherInv /\ [Next]_vars => MatcherInv'
<1> SUFFICES ASSUME MatcherInv, [Next]_vars PROVE MatcherInv'
  OBVIOUS
<1>1. CASE (\E m \in Messages : Receive(m)) \/ RejectOrder \/ AcceptOrder \/ CancelOrder \/ Send
  BY <1>1, DispatchKeepsMatcher
<1>2. CASE SubmitFindsRoom \/ SubmitFills \/ SubmitTask
  BY <1>2, SubmitKeepsMatcher
<1>3. ASSUME NEW w \in Workers, Work(w)
      PROVE  MatcherInv'
  BY <1>3, NewOrderKeepsMatcher, MatchingKeepsMatcher, ReportingKeepsMatcher,
     CancelKeepsMatcher, NotFoundKeepsMatcher, RescheduleKeepsMatcher DEF Work
<1>4. CASE UNCHANGED vars
  <2>1. pool' = pool
    BY <1>4 DEF vars
  <2>2. Pool!RingTypes(Messages)' /\ SlotsKept /\ push' = push
    BY <2>1, PoolKept DEF SlotsKept
  <2>3. TypeOK' /\ Grows /\ DispatcherKept /\ wpc' = wpc /\ wtask' = wtask
    BY <1>4, <2>2 DEF vars, sessions, dictionaries, workers, reports, MatcherInv, TypeOK,
                      Grows, DispatcherKept
  <2> QED
    BY <2>2, <2>3, MatcherKept
<1> QED
  BY <1>1, <1>2, <1>3, <1>4 DEF Next, Dispatch

(* A symbol never changes its worker: the dictionary of queue IDs only gets *)
(* more entries, so every task of a book is run by the same thread.         *)
THEOREM MatcherInvariant == Spec => []MatcherInv
BY MatcherInit, MatcherStep, PTL DEF Spec

(* The types, indices of the rings included.                                *)
THEOREM TypeCorrect == Spec => []TypeOK
<1>1. MatcherInv => TypeOK
  BY DEF MatcherInv
<1> QED
  BY <1>1, MatcherInvariant, PTL

-----------------------------------------------------------------------------
(* The rings as queues, until two pushes overlap *)

Pushers == Workers \cup {Dispatcher}
TaskOf(p) == IF p = Dispatcher THEN dtask ELSE wtask[p]

(* The next index. *)
LEMMA IncrementWraps ==
    ASSUME NEW n \in Pool!Indices
    PROVE  Pool!increment(n) = IF n + 1 = RingSize THEN 0 ELSE n + 1
<1>1. RingSize \in Nat /\ RingSize > 0 /\ n \in Nat /\ n + 1 <= RingSize
  BY IndicesFacts
<1>2. CASE n + 1 = RingSize
  <2>1. RingSize % RingSize = 0
    BY <1>1, SMT
  <2> QED
    BY <1>1, <1>2, <2>1 DEF Pool!increment
<1>3. CASE n + 1 < RingSize
  <2>1. (n + 1) % RingSize = n + 1
    BY <1>1, <1>3, SMT
  <2> QED
    BY <1>1, <1>3, <2>1 DEF Pool!increment
<1> QED
  BY <1>1, <1>2, <1>3

(* How many slots are in use, and which: the one at m_write is not.         *)
LEMMA UsedFacts ==
    ASSUME MatcherInv, NEW w \in Workers
    PROVE  /\ Pool!Used(w) \in 0..(RingSize - 1)
           /\ Pool!Used(w) = 0 <=> Pool!IsEmpty(w)
           /\ \A i \in 1..Pool!Used(w) : /\ Pool!SlotOf(w, i) \in Pool!Indices
                                         /\ Pool!SlotOf(w, i) # rings[w].write
           /\ Pool!SlotOf(w, Pool!Used(w) + 1) = rings[w].write
           /\ Pool!SlotOf(w, 1) = rings[w].read
           /\ ~Pool!IsFull(w) => Pool!Used(w) < RingSize - 1
<1> DEFINE write == rings[w].write
           read == rings[w].read
<1>1. /\ write \in 0..(RingSize - 1) /\ read \in 0..(RingSize - 1)
      /\ RingSize \in Nat \ {0}
      /\ Pool!increment(write) = IF write + 1 = RingSize THEN 0 ELSE write + 1
  BY RingFacts, IndicesFacts, IncrementWraps
<1>2. /\ Pool!Used(w) = IF write >= read THEN write - read ELSE write - read + RingSize
      /\ \A i : Pool!SlotOf(w, i) = IF read + i - 1 < RingSize THEN read + i - 1
                                                              ELSE read + i - 1 - RingSize
      /\ Pool!IsEmpty(w) <=> write = read
      /\ Pool!IsFull(w) <=> Pool!increment(write) = read
  BY DEF Pool!Used, Pool!SlotOf, Pool!IsEmpty, Pool!IsFull
<1> HIDE DEF write, read
<1>3. Pool!Used(w) \in 0..(RingSize - 1)
  BY <1>1, <1>2
<1>4. \A i \in 1..Pool!Used(w) : Pool!SlotOf(w, i) \in 0..(RingSize - 1) /\ Pool!SlotOf(w, i) # write
  BY <1>1, <1>2
<1>5. Pool!SlotOf(w, Pool!Used(w) + 1) = write /\ Pool!SlotOf(w, 1) = read
  BY <1>1, <1>2
<1>6. Pool!Used(w) = 0 <=> Pool!IsEmpty(w)
  BY <1>1, <1>2
<1>7. ~Pool!IsFull(w) => Pool!Used(w) < RingSize - 1
  BY <1>1, <1>2
<1> QED
  BY <1>3, <1>4, <1>5, <1>6, <1>7, IndicesFacts DEF write, read

(* The queue that a ring stands for.                                        *)
LEMMA TasksFacts ==
    ASSUME MatcherInv, FIFOsInv
    PROVE  /\ tasks \in [Workers -> Seq(Messages)]
           /\ \A w \in Workers :
                 /\ Len(tasks[w]) = Pool!Used(w) /\ DOMAIN tasks[w] = 1..Pool!Used(w)
                 /\ \A i \in DOMAIN tasks[w] :
                       /\ tasks[w][i] = rings[w].slots[Pool!SlotOf(w, i)]
                       /\ AtItsWorker(tasks[w][i], w)
<1>1. ASSUME NEW w \in Workers
      PROVE  /\ tasks[w] \in Seq(Messages) /\ Len(tasks[w]) = Pool!Used(w)
             /\ DOMAIN tasks[w] = 1..Pool!Used(w)
             /\ \A i \in DOMAIN tasks[w] :
                   /\ tasks[w][i] = rings[w].slots[Pool!SlotOf(w, i)]
                   /\ AtItsWorker(tasks[w][i], w)
  <2>1. /\ Pool!Used(w) \in Nat
        /\ \A i \in 1..Pool!Used(w) : Pool!SlotOf(w, i) \in Pool!Indices
    BY UsedFacts
  <2>2. \A i \in 1..Pool!Used(w) : rings[w].slots[Pool!SlotOf(w, i)] \in Messages
    BY DEF FIFOsInv, Pool!RingsInv
  <2>3. tasks[w] = [i \in 1..Pool!Used(w) |-> rings[w].slots[Pool!SlotOf(w, i)]]
    BY DEF tasks, Pool!Contents
  <2>4. \A i \in 1..Pool!Used(w) : AtItsWorker(rings[w].slots[Pool!SlotOf(w, i)], w)
    BY <2>1, <2>2, MessageFacts DEF MatcherInv, WorkerInv
  <2>5. tasks[w] \in Seq(Messages) /\ Len(tasks[w]) = Pool!Used(w)
    BY <2>1, <2>2, <2>3
  <2> QED
    BY <2>3, <2>4, <2>5
<1> QED
  BY <1>1 DEF tasks

LEMMA SameRingsSameTasks ==
    ASSUME rings' = rings
    PROVE  tasks' = tasks
BY DEF tasks, Pool!Contents, Pool!Used, Pool!SlotOf

(* Filling a slot does not touch the queue.                                 *)
LEMMA FillKeepsTasks ==
    ASSUME MatcherInv, FIFOsInv, NEW p \in Pushers, NEW m \in Messages, Pool!FillSlot(p, m)
    PROVE  tasks' = tasks
<1>1. /\ push[p] # Pool!Outside /\ push[p].ring \in Workers
      /\ \A v \in Workers :
            /\ rings'[v].write = rings[v].write /\ rings'[v].read = rings[v].read
            /\ \A i \in Pool!Indices :
                  rings'[v].slots[i] = IF v = push[p].ring /\ i = push[p].tail
                                       THEN m ELSE rings[v].slots[i]
  BY FillFacts DEF Pushers
<1>2. push[p].tail = rings[push[p].ring].write
  BY <1>1 DEF FIFOsInv, Pool!RingsInv, Pool!IsPushing, Pushers
<1>3. ASSUME NEW w \in Workers PROVE Pool!Contents(w)' = Pool!Contents(w)
  <2>1. Pool!Used(w)' = Pool!Used(w) /\ \A i : Pool!SlotOf(w, i)' = Pool!SlotOf(w, i)
    BY <1>1 DEF Pool!Used, Pool!SlotOf
  <2>2. \A i \in 1..Pool!Used(w) : /\ Pool!SlotOf(w, i) \in Pool!Indices
                                   /\ Pool!SlotOf(w, i) # rings[w].write
    BY UsedFacts
  <2>3. \A i \in 1..Pool!Used(w) :
           rings'[w].slots[Pool!SlotOf(w, i)] = rings[w].slots[Pool!SlotOf(w, i)]
    BY <1>1, <1>2, <2>2
  <2> QED
    BY <2>1, <2>3 DEF Pool!Contents
<1> QED
  BY <1>3 DEF tasks

(* Storing m_write appends the task in the slot to the queue.               *)
LEMMA StoreAppends ==
    ASSUME MatcherInv, FIFOsInv, NEW p \in Pushers, NEW m \in Messages,
           Pool!StoreWrite(p), Filled(p, m)
    PROVE  /\ push[p].ring \in Workers
           /\ tasks'[push[p].ring] = Append(tasks[push[p].ring], m)
           /\ \A v \in Workers \ {push[p].ring} : tasks'[v] = tasks[v]
<1>0. PICK w \in Workers : w = push[p].ring
  BY StoreFacts DEF Pushers
<1> DEFINE write == rings[w].write
           read == rings[w].read
<1>1. /\ push[p] # Pool!Outside /\ push[p].step = "store"
      /\ \A v \in Workers :
            /\ rings'[v].slots = rings[v].slots /\ rings'[v].read = rings[v].read
            /\ rings'[v].write = IF v = w THEN Pool!increment(push[p].tail)
                                          ELSE rings[v].write
  BY <1>0, StoreFacts DEF Pushers
<1>2. push[p].tail = write /\ ~Pool!IsFull(w)
  BY <1>0, <1>1 DEF FIFOsInv, Pool!RingsInv, Pool!IsPushing, Pushers
<1>3. rings[w].slots[write] = m
  BY <1>0, <1>1, <1>2 DEF Filled
<1>4. \A v \in Workers \ {w} : tasks'[v] = tasks[v]
  BY <1>1 DEF tasks, Pool!Contents, Pool!Used, Pool!SlotOf
<1>5. /\ write \in 0..(RingSize - 1) /\ read \in 0..(RingSize - 1) /\ RingSize \in Nat \ {0}
      /\ Pool!increment(write) = IF write + 1 = RingSize THEN 0 ELSE write + 1
      /\ Pool!increment(write) # read
  BY <1>1, <1>2, RingFacts, IndicesFacts, IncrementWraps DEF Pool!IsFull
<1>6. /\ rings'[w].write = Pool!increment(write) /\ rings'[w].read = read
      /\ rings'[w].slots = rings[w].slots
  BY <1>1, <1>2
<1>7. /\ Pool!Used(w) = IF write >= read THEN write - read ELSE write - read + RingSize
      /\ Pool!Used(w)' = IF Pool!increment(write) >= read
                         THEN Pool!increment(write) - read
                         ELSE Pool!increment(write) - read + RingSize
      /\ \A i : Pool!SlotOf(w, i)' = Pool!SlotOf(w, i)
  BY <1>6 DEF Pool!Used, Pool!SlotOf
<1>8. Pool!SlotOf(w, Pool!Used(w) + 1) = write
  BY <1>1, UsedFacts
<1>9. /\ tasks[w] \in Seq(Messages) /\ Len(tasks[w]) = Pool!Used(w)
      /\ tasks[w] = [i \in 1..Pool!Used(w) |-> rings[w].slots[Pool!SlotOf(w, i)]]
  BY <1>1, TasksFacts DEF tasks, Pool!Contents
<1>10. tasks'[w] = [i \in 1..Pool!Used(w)' |-> rings'[w].slots[Pool!SlotOf(w, i)']]
  BY <1>1 DEF tasks, Pool!Contents
<1> HIDE DEF write, read
<1>11. Pool!Used(w)' = Pool!Used(w) + 1 /\ Pool!Used(w) \in Nat
  BY <1>5, <1>7
<1>12. tasks'[w] = [i \in 1..(Pool!Used(w) + 1) |-> rings[w].slots[Pool!SlotOf(w, i)]]
  BY <1>6, <1>7, <1>10, <1>11
<1>13. tasks'[w] = Append(tasks[w], m)
  BY <1>3, <1>8, <1>9, <1>11, <1>12
<1> QED
  BY <1>0, <1>4, <1>13

(* A pop takes the head.                                                    *)
LEMMA PopTakesHead ==
    ASSUME MatcherInv, FIFOsInv, NEW w \in Workers, Pool!PopFront(w)
    PROVE  /\ tasks[w] # <<>> /\ Pool!Front(w) = Head(tasks[w])
           /\ tasks'[w] = Tail(tasks[w])
           /\ \A v \in Workers \ {w} : tasks'[v] = tasks[v]
<1> DEFINE write == rings[w].write
           read == rings[w].read
           n == Pool!Used(w)
<1>1. /\ ~Pool!IsEmpty(w)
      /\ \A v \in Workers :
            /\ rings'[v].slots = rings[v].slots /\ rings'[v].write = rings[v].write
            /\ rings'[v].read = IF v = w THEN Pool!increment(rings[v].read) ELSE rings[v].read
  BY PopFrontFacts
<1>2. \A v \in Workers \ {w} : tasks'[v] = tasks[v]
  BY <1>1 DEF tasks, Pool!Contents, Pool!Used, Pool!SlotOf
<1>3. /\ write \in 0..(RingSize - 1) /\ read \in 0..(RingSize - 1) /\ RingSize \in Nat \ {0}
      /\ Pool!increment(read) = IF read + 1 = RingSize THEN 0 ELSE read + 1
      /\ write # read
  BY <1>1, RingFacts, IndicesFacts, IncrementWraps DEF Pool!IsEmpty
<1>4. /\ rings'[w].write = write /\ rings'[w].read = Pool!increment(read)
      /\ rings'[w].slots = rings[w].slots
  BY <1>1
<1>5. /\ n = IF write >= read THEN write - read ELSE write - read + RingSize
      /\ Pool!Used(w)' = IF write >= Pool!increment(read)
                         THEN write - Pool!increment(read)
                         ELSE write - Pool!increment(read) + RingSize
      /\ \A i : Pool!SlotOf(w, i) = IF read + i - 1 < RingSize THEN read + i - 1
                                                              ELSE read + i - 1 - RingSize
      /\ \A i : Pool!SlotOf(w, i)' =
                   IF Pool!increment(read) + i - 1 < RingSize
                   THEN Pool!increment(read) + i - 1
                   ELSE Pool!increment(read) + i - 1 - RingSize
  BY <1>4 DEF Pool!Used, Pool!SlotOf
<1>6. Pool!SlotOf(w, 1) = read /\ n \in 0..(RingSize - 1) /\ n # 0
  BY <1>1, UsedFacts
<1>7. /\ tasks[w] \in Seq(Messages) /\ Len(tasks[w]) = n
      /\ \A i \in 1..n : tasks[w][i] = rings[w].slots[Pool!SlotOf(w, i)]
  BY TasksFacts
<1>8. tasks'[w] = [i \in 1..Pool!Used(w)' |-> rings'[w].slots[Pool!SlotOf(w, i)']]
  BY DEF tasks, Pool!Contents
<1>9. Pool!Front(w) = rings[w].slots[read]
  BY DEF Pool!Front
<1> HIDE DEF write, read, n
<1>10. Pool!Used(w)' = n - 1
  BY <1>3, <1>5
<1>11. \A i \in 1..(n - 1) : Pool!SlotOf(w, i)' = Pool!SlotOf(w, i + 1)
  BY <1>3, <1>5, <1>6
<1>12. tasks'[w] = [i \in 1..(n - 1) |-> rings[w].slots[Pool!SlotOf(w, i + 1)]]
  BY <1>4, <1>8, <1>10, <1>11
<1>13. tasks[w] # <<>> /\ Pool!Front(w) = Head(tasks[w])
  BY <1>6, <1>7, <1>9
<1>14. /\ Tail(tasks[w]) \in Seq(Messages) /\ Len(Tail(tasks[w])) = n - 1
       /\ \A i \in 1..(n - 1) : Tail(tasks[w])[i] = tasks[w][i + 1]
  BY <1>7, <1>13, HeadTailProperties
<1>15. \A i \in 1..(n - 1) : i + 1 \in 1..n
  BY <1>6
<1>16. Tail(tasks[w]) = [i \in 1..(n - 1) |-> rings[w].slots[Pool!SlotOf(w, i + 1)]]
  <2> DEFINE rest == [i \in 1..(n - 1) |-> rings[w].slots[Pool!SlotOf(w, i + 1)]]
  <2>1. \A i \in 1..(n - 1) :
           tasks[w][i + 1] \in Messages /\ tasks[w][i + 1] = rings[w].slots[Pool!SlotOf(w, i + 1)]
    BY <1>7, <1>15, ElementOfSeq
  <2>2. rest \in Seq(Messages) /\ Len(rest) = n - 1
    BY <1>6, <2>1
  <2>3. \A i \in 1..(n - 1) : Tail(tasks[w])[i] = rest[i]
    BY <1>14, <2>1
  <2> QED
    BY <1>14, <2>2, <2>3, SeqEqual
<1> QED
  BY <1>2, <1>12, <1>13, <1>16

(* The rings start empty.                                                   *)
LEMMA FIFOsInit == Init => FIFOsInv
<1> SUFFICES ASSUME Init PROVE FIFOsInv
  OBVIOUS
<1>1. /\ \A p \in Pushers : push[p] = Pool!Outside
      /\ \A w \in Workers : rings[w].write = 0 /\ rings[w].read = 0
  BY DEF Init, Pool!RingsInit, Pushers
<1>2. \A w \in Workers : 1..Pool!Used(w) = {}
  BY <1>1, IndicesFacts DEF Pool!Used
<1>3. Pool!RingsInv(Messages)
  BY <1>1, <1>2 DEF Pool!RingsInv, Pool!IsPushing, Pushers
<1>4. \A p \in Pushers : \A m : Filled(p, m)
  BY <1>1, OutsideStep DEF Filled
<1> QED
  BY <1>3, <1>4 DEF FIFOsInv, Pushers

(* The invariant in the form the steps use: p stands for either producer.   *)
LEMMA FIFOsParts ==
    ASSUME MatcherInv
    PROVE  FIFOsInv <=>
             /\ \A p, q \in Pushers : \A w \in Workers :
                   Pool!IsPushing(p, w) /\ Pool!IsPushing(q, w) => p = q
             /\ \A p \in Pushers : push[p] # Pool!Outside =>
                   push[p].tail = rings[push[p].ring].write /\ ~Pool!IsFull(push[p].ring)
             /\ \A w \in Workers : \A i \in 1..Pool!Used(w) :
                   rings[w].slots[Pool!SlotOf(w, i)] \in Messages
             /\ \A p \in Pushers : Filled(p, TaskOf(p))
<1>1. \A p \in Pushers : push[p] # Pool!Outside => push[p].ring \in Workers
  BY PushingFacts DEF Pushers
<1>2. (\A p \in Pushers : Filled(p, TaskOf(p)))
        <=> Filled(Dispatcher, dtask) /\ \A w \in Workers : Filled(w, wtask[w])
  BY DispatcherIsNoWorker DEF Pushers, TaskOf
<1>3. (\A p \in Pushers : \A w \in Workers :
          Pool!IsPushing(p, w) => push[p].tail = rings[w].write /\ ~Pool!IsFull(w))
        <=> \A p \in Pushers : push[p] # Pool!Outside =>
               push[p].tail = rings[push[p].ring].write /\ ~Pool!IsFull(push[p].ring)
  BY <1>1 DEF Pool!IsPushing
<1> QED
  BY <1>2, <1>3 DEF FIFOsInv, Pool!RingsInv, Pushers


(* Steps that do nothing to the rings, of threads that are not filling one. *)
LEMMA StillKeepsFIFOs ==
    ASSUME MatcherInv, MatcherInv', FIFOsInv, rings' = rings, push' = push,
           \A p \in Pushers : push[p] = Pool!Outside \/ TaskOf(p)' = TaskOf(p)
    PROVE  FIFOsInv'
<1>1. \A p \in Pushers : Filled(p, TaskOf(p))'
  <2> SUFFICES ASSUME NEW p \in Pushers PROVE Filled(p, TaskOf(p))'
    OBVIOUS
  <2>1. Filled(p, TaskOf(p))
    BY FIFOsParts
  <2>2. push[p] = Pool!Outside => push[p].step # "store"
    BY OutsideStep
  <2> QED
    BY <2>1, <2>2 DEF Filled
<1>2. Filled(Dispatcher, dtask)' /\ \A w \in Workers : Filled(w, wtask[w])'
  BY <1>1, DispatcherIsNoWorker DEF Pushers, TaskOf
<1>3. Pool!RingsInv(Messages)'
  BY DEF FIFOsInv, Pool!RingsInv, Pool!IsPushing, Pool!IsFull, Pool!Used, Pool!SlotOf
<1> QED
  BY <1>2, <1>3 DEF FIFOsInv

(* A thread finds room, and is the only one inside push of that ring.       *)
LEMMA FindRoomKeepsFIFOs ==
    ASSUME MatcherInv, MatcherInv', FIFOsInv, NEW p \in Pushers, NEW w \in Workers,
           Pool!FindRoom(p, w), ~overlapped', dtask' = dtask, wtask' = wtask
    PROVE  FIFOsInv'
<1>1. /\ rings' = rings /\ push'[p].ring = w /\ push'[p].step = "fill"
      /\ push'[p].tail = rings[w].write /\ push'[p] # Pool!Outside
      /\ \A q \in Pushers \ {p} : push'[q] = push[q]
  BY FindRoomFacts DEF Pushers
<1>2. ~Pool!IsFull(w) /\ \A q \in Pushers : ~Pool!IsPushing(q, w)
  BY DEF Pool!FindRoom, Pushers
<1>3. /\ \A q, r \in Pushers : \A v \in Workers :
            Pool!IsPushing(q, v) /\ Pool!IsPushing(r, v) => q = r
      /\ \A q \in Pushers : \A v \in Workers :
            Pool!IsPushing(q, v) => push[q].tail = rings[v].write /\ ~Pool!IsFull(v)
      /\ \A v \in Workers : \A i \in 1..Pool!Used(v) :
            rings[v].slots[Pool!SlotOf(v, i)] \in Messages
  BY DEF FIFOsInv, Pool!RingsInv, Pushers
<1>4. \A q \in Pushers : \A v \in Workers :
         Pool!IsPushing(q, v)' <=> IF q = p THEN v = w ELSE Pool!IsPushing(q, v)
  BY <1>1 DEF Pool!IsPushing
<1>5. /\ \A v \in Workers : Pool!IsFull(v)' = Pool!IsFull(v)
      /\ \A v \in Workers : Pool!Used(v)' = Pool!Used(v)
      /\ \A v \in Workers : \A i : Pool!SlotOf(v, i)' = Pool!SlotOf(v, i)
  BY <1>1 DEF Pool!IsFull, Pool!Used, Pool!SlotOf
<1>6. \A q, r \in Pushers : \A v \in Workers :
         Pool!IsPushing(q, v)' /\ Pool!IsPushing(r, v)' => q = r
  BY <1>2, <1>3, <1>4
<1>7. \A q \in Pushers : \A v \in Workers :
         Pool!IsPushing(q, v)' => push'[q].tail = rings'[v].write /\ ~Pool!IsFull(v)'
  BY <1>1, <1>2, <1>3, <1>4, <1>5
<1>8. Pool!RingsInv(Messages)'
  BY <1>1, <1>3, <1>5, <1>6, <1>7 DEF Pool!RingsInv, Pushers
<1>9. \A q \in Pushers : Filled(q, TaskOf(q))'
  <2> SUFFICES ASSUME NEW q \in Pushers PROVE Filled(q, TaskOf(q))'
    OBVIOUS
  <2>1. Filled(q, TaskOf(q)) /\ TaskOf(q)' = TaskOf(q)
    BY FIFOsParts DEF TaskOf
  <2> QED
    BY <1>1, <2>1 DEF Filled
<1>10. Filled(Dispatcher, dtask)' /\ \A v \in Workers : Filled(v, wtask[v])'
  BY <1>9, DispatcherIsNoWorker DEF Pushers, TaskOf
<1> QED
  BY <1>8, <1>10 DEF FIFOsInv

(* It fills the slot after the last one.                                    *)
LEMMA FillKeepsFIFOs ==
    ASSUME MatcherInv, MatcherInv', FIFOsInv, NEW p \in Pushers, NEW m \in Messages,
           Pool!FillSlot(p, m), m = TaskOf(p), dtask' = dtask, wtask' = wtask
    PROVE  FIFOsInv'
<1>1. /\ push[p] # Pool!Outside /\ push[p].ring \in Workers /\ push[p].tail \in Pool!Indices
      /\ push'[p] # Pool!Outside /\ push'[p].ring = push[p].ring
      /\ push'[p].tail = push[p].tail
      /\ \A q \in Pushers \ {p} : push'[q] = push[q]
      /\ \A v \in Workers :
            /\ rings'[v].write = rings[v].write /\ rings'[v].read = rings[v].read
            /\ \A i \in Pool!Indices :
                  rings'[v].slots[i] = IF v = push[p].ring /\ i = push[p].tail
                                       THEN m ELSE rings[v].slots[i]
  BY FillFacts DEF Pushers
<1>2. /\ \A q, r \in Pushers : \A v \in Workers :
            Pool!IsPushing(q, v) /\ Pool!IsPushing(r, v) => q = r
      /\ \A q \in Pushers : \A v \in Workers :
            Pool!IsPushing(q, v) => push[q].tail = rings[v].write /\ ~Pool!IsFull(v)
      /\ \A v \in Workers : \A i \in 1..Pool!Used(v) :
            rings[v].slots[Pool!SlotOf(v, i)] \in Messages
  BY DEF FIFOsInv, Pool!RingsInv, Pushers
<1>3. \A q \in Pushers : \A v \in Workers : Pool!IsPushing(q, v)' <=> Pool!IsPushing(q, v)
  BY <1>1 DEF Pool!IsPushing
<1>4. \A v \in Workers :
         /\ Pool!IsFull(v)' = Pool!IsFull(v) /\ Pool!Used(v)' = Pool!Used(v)
         /\ \A i : Pool!SlotOf(v, i)' = Pool!SlotOf(v, i)
  BY <1>1 DEF Pool!IsFull, Pool!Used, Pool!SlotOf
<1>5. \A v \in Workers : \A i \in 1..Pool!Used(v) :
         rings'[v].slots[Pool!SlotOf(v, i)] \in Messages
  BY <1>1, <1>2, UsedFacts
<1>6. \A q \in Pushers : \A v \in Workers :
         Pool!IsPushing(q, v) => push'[q].tail = rings'[v].write
  BY <1>1, <1>2
<1>7. Pool!RingsInv(Messages)'
  BY <1>2, <1>3, <1>4, <1>5, <1>6 DEF Pool!RingsInv, Pushers
<1>8. \A q \in Pushers : Filled(q, TaskOf(q))'
  <2> SUFFICES ASSUME NEW q \in Pushers PROVE Filled(q, TaskOf(q))'
    OBVIOUS
  <2>1. Filled(q, TaskOf(q)) /\ TaskOf(q)' = TaskOf(q)
    BY FIFOsParts DEF TaskOf
  <2>2. CASE q = p
    BY <1>1, <2>1, <2>2 DEF Filled
  <2>3. CASE q # p
    <3>1. push'[q] = push[q]
      BY <1>1, <2>3
    <3>2. push[q].step = "store" =>
             /\ push[q].ring \in Workers /\ push[q].tail \in Pool!Indices
             /\ push[q].ring # push[p].ring
      BY <1>1, <1>2, <2>3, PushingFacts, OutsideStep DEF Pool!IsPushing, Pushers
    <3> QED
      BY <1>1, <2>1, <3>1, <3>2 DEF Filled
  <2> QED
    BY <2>2, <2>3
<1>9. Filled(Dispatcher, dtask)' /\ \A v \in Workers : Filled(v, wtask[v])'
  BY <1>8, DispatcherIsNoWorker DEF Pushers, TaskOf
<1> QED
  BY <1>7, <1>9 DEF FIFOsInv

(* It publishes that slot and is outside again.                             *)
LEMMA StoreKeepsFIFOs ==
    ASSUME MatcherInv, MatcherInv', FIFOsInv, NEW p \in Pushers, Pool!StoreWrite(p),
           TaskOf(p) \in Messages, \A q \in Pushers \ {p} : TaskOf(q)' = TaskOf(q)
    PROVE  FIFOsInv'
<1>0. PICK w \in Workers : w = push[p].ring
  BY StoreFacts DEF Pushers
<1>1. /\ push[p] # Pool!Outside /\ push[p].step = "store"
      /\ push'[p] = Pool!Outside
      /\ \A q \in Pushers \ {p} : push'[q] = push[q]
      /\ \A v \in Workers :
            /\ rings'[v].slots = rings[v].slots /\ rings'[v].read = rings[v].read
            /\ rings'[v].write = IF v = w THEN Pool!increment(push[p].tail)
                                          ELSE rings[v].write
  BY <1>0, StoreFacts DEF Pushers
<1>2. /\ \A q, r \in Pushers : \A v \in Workers :
            Pool!IsPushing(q, v) /\ Pool!IsPushing(r, v) => q = r
      /\ \A q \in Pushers : \A v \in Workers :
            Pool!IsPushing(q, v) => push[q].tail = rings[v].write /\ ~Pool!IsFull(v)
      /\ \A v \in Workers : \A i \in 1..Pool!Used(v) :
            rings[v].slots[Pool!SlotOf(v, i)] \in Messages
  BY DEF FIFOsInv, Pool!RingsInv, Pushers
<1>3. \A q \in Pushers : \A v \in Workers :
         Pool!IsPushing(q, v)' <=> q # p /\ v # w /\ Pool!IsPushing(q, v)
  BY <1>0, <1>1, <1>2 DEF Pool!IsPushing
<1>4. \A v \in Workers \ {w} :
         /\ Pool!IsFull(v)' = Pool!IsFull(v) /\ Pool!Used(v)' = Pool!Used(v)
         /\ \A i : Pool!SlotOf(v, i)' = Pool!SlotOf(v, i)
  BY <1>1 DEF Pool!IsFull, Pool!Used, Pool!SlotOf
<1>5. Filled(p, TaskOf(p))
  BY FIFOsParts
<1>6. \A v \in Workers : \A i \in 1..Pool!Used(v)' :
         rings'[v].slots[Pool!SlotOf(v, i)'] \in Messages
  <2>1. /\ tasks'[w] = Append(tasks[w], TaskOf(p)) /\ tasks[w] \in Seq(Messages)
        /\ \A v \in Workers \ {w} : tasks'[v] = tasks[v] /\ tasks[v] \in Seq(Messages)
    BY <1>0, <1>5, StoreAppends, TasksFacts
  <2>2. \A v \in Workers : tasks'[v] \in Seq(Messages)
    <3>1. Append(tasks[w], TaskOf(p)) \in Seq(Messages)
      BY <2>1, AppendProperties
    <3>2. tasks'[w] \in Seq(Messages)
      BY <2>1, <3>1
    <3> QED
      BY <2>1, <3>2
  <2>3. \A v \in Workers :
           tasks'[v] = [i \in 1..Pool!Used(v)' |-> rings'[v].slots[Pool!SlotOf(v, i)']]
    BY DEF tasks, Pool!Contents
  <2> SUFFICES ASSUME NEW v \in Workers, NEW i \in 1..Pool!Used(v)'
               PROVE  rings'[v].slots[Pool!SlotOf(v, i)'] \in Messages
    OBVIOUS
  <2>4. i \in DOMAIN tasks'[v] /\ tasks'[v][i] = rings'[v].slots[Pool!SlotOf(v, i)']
    BY <2>3
  <2>5. tasks'[v] \in Seq(Messages)
    BY <2>2
  <2>6. DOMAIN tasks'[v] = 1..Len(tasks'[v])
    BY <2>5, LenProperties
  <2> QED
    BY <2>4, <2>5, <2>6, ElementOfSeq
<1>7. \A q \in Pushers : \A v \in Workers :
         Pool!IsPushing(q, v)' => push'[q].tail = rings'[v].write /\ ~Pool!IsFull(v)'
  BY <1>1, <1>2, <1>3, <1>4
<1>8. Pool!RingsInv(Messages)'
  BY <1>2, <1>3, <1>6, <1>7 DEF Pool!RingsInv, Pushers
<1>9. \A q \in Pushers : Filled(q, TaskOf(q))'
  <2> SUFFICES ASSUME NEW q \in Pushers PROVE Filled(q, TaskOf(q))'
    OBVIOUS
  <2>1. Filled(q, TaskOf(q))
    BY FIFOsParts
  <2>2. CASE q = p
    BY <1>1, <2>2, OutsideStep DEF Filled
  <2>3. CASE q # p
    <3>1. push'[q] = push[q] /\ TaskOf(q)' = TaskOf(q)
      BY <1>1, <2>3
    <3>2. push[q].step = "store" => push[q].ring \in Workers
      BY PushingFacts, OutsideStep DEF Pushers
    <3> QED
      BY <1>1, <2>1, <3>1, <3>2 DEF Filled
  <2> QED
    BY <2>2, <2>3
<1>10. Filled(Dispatcher, dtask)' /\ \A v \in Workers : Filled(v, wtask[v])'
  BY <1>9, DispatcherIsNoWorker DEF Pushers, TaskOf
<1> QED
  BY <1>8, <1>10 DEF FIFOsInv

(* A worker takes a task; it is outside push.                               *)
LEMMA PopKeepsFIFOs ==
    ASSUME MatcherInv, MatcherInv', FIFOsInv, NEW w \in Workers, Pool!PopFront(w),
           push[w] = Pool!Outside, \A p \in Pushers \ {w} : TaskOf(p)' = TaskOf(p)
    PROVE  FIFOsInv'
<1>1. /\ ~Pool!IsEmpty(w) /\ push' = push
      /\ \A v \in Workers :
            /\ rings'[v].slots = rings[v].slots /\ rings'[v].write = rings[v].write
            /\ rings'[v].read = IF v = w THEN Pool!increment(rings[v].read)
                                         ELSE rings[v].read
  BY PopFrontFacts
<1>2. /\ \A q, r \in Pushers : \A v \in Workers :
            Pool!IsPushing(q, v) /\ Pool!IsPushing(r, v) => q = r
      /\ \A q \in Pushers : \A v \in Workers :
            Pool!IsPushing(q, v) => push[q].tail = rings[v].write /\ ~Pool!IsFull(v)
  BY DEF FIFOsInv, Pool!RingsInv, Pushers
<1>3. \A v \in Workers : ~Pool!IsFull(v) => ~Pool!IsFull(v)'
  <2> SUFFICES ASSUME NEW v \in Workers, ~Pool!IsFull(v) PROVE ~Pool!IsFull(v)'
    OBVIOUS
  <2>1. CASE v # w
    BY <1>1, <2>1 DEF Pool!IsFull
  <2>2. CASE v = w
    <3>1. /\ rings[w].write \in 0..(RingSize - 1) /\ rings[w].read \in 0..(RingSize - 1)
          /\ RingSize \in Nat \ {0} /\ rings[w].write # rings[w].read
      BY <1>1, RingFacts, IndicesFacts DEF Pool!IsEmpty
    <3>2. /\ Pool!increment(rings[w].write) =
                IF rings[w].write + 1 = RingSize THEN 0 ELSE rings[w].write + 1
          /\ Pool!increment(rings[w].read) =
                IF rings[w].read + 1 = RingSize THEN 0 ELSE rings[w].read + 1
      BY RingFacts, IncrementWraps
    <3>3. Pool!increment(rings[w].write) # Pool!increment(rings[w].read)
      BY <3>1, <3>2
    <3> QED
      BY <1>1, <2>2, <3>3 DEF Pool!IsFull
  <2> QED
    BY <2>1, <2>2
<1>4. \A v \in Workers : \A i \in 1..Pool!Used(v)' :
         rings'[v].slots[Pool!SlotOf(v, i)'] \in Messages
  <2>1. /\ tasks[w] # <<>> /\ tasks'[w] = Tail(tasks[w]) /\ tasks[w] \in Seq(Messages)
        /\ \A v \in Workers \ {w} : tasks'[v] = tasks[v] /\ tasks[v] \in Seq(Messages)
    BY PopTakesHead, TasksFacts
  <2>2. \A v \in Workers : tasks'[v] \in Seq(Messages)
    <3>1. Tail(tasks[w]) \in Seq(Messages)
      BY <2>1, HeadTailProperties
    <3>2. tasks'[w] \in Seq(Messages)
      BY <2>1, <3>1
    <3> QED
      BY <2>1, <3>2
  <2>3. \A v \in Workers :
           tasks'[v] = [i \in 1..Pool!Used(v)' |-> rings'[v].slots[Pool!SlotOf(v, i)']]
    BY DEF tasks, Pool!Contents
  <2> SUFFICES ASSUME NEW v \in Workers, NEW i \in 1..Pool!Used(v)'
               PROVE  rings'[v].slots[Pool!SlotOf(v, i)'] \in Messages
    OBVIOUS
  <2>4. i \in DOMAIN tasks'[v] /\ tasks'[v][i] = rings'[v].slots[Pool!SlotOf(v, i)']
    BY <2>3
  <2>5. tasks'[v] \in Seq(Messages)
    BY <2>2
  <2>6. DOMAIN tasks'[v] = 1..Len(tasks'[v])
    BY <2>5, LenProperties
  <2> QED
    BY <2>4, <2>5, <2>6, ElementOfSeq
<1>5. \A q \in Pushers : \A v \in Workers :
         Pool!IsPushing(q, v)' => push'[q].tail = rings'[v].write /\ ~Pool!IsFull(v)'
  BY <1>1, <1>2, <1>3 DEF Pool!IsPushing
<1>6. \A q, r \in Pushers : \A v \in Workers :
         Pool!IsPushing(q, v)' /\ Pool!IsPushing(r, v)' => q = r
  BY <1>1, <1>2 DEF Pool!IsPushing
<1>7. Pool!RingsInv(Messages)'
  BY <1>4, <1>5, <1>6 DEF Pool!RingsInv, Pushers
<1>8. \A q \in Pushers : Filled(q, TaskOf(q))'
  <2> SUFFICES ASSUME NEW q \in Pushers PROVE Filled(q, TaskOf(q))'
    OBVIOUS
  <2>1. Filled(q, TaskOf(q))
    BY FIFOsParts
  <2>2. CASE q = w
    BY <1>1, <2>2, OutsideStep DEF Filled
  <2>3. CASE q # w
    <3>1. TaskOf(q)' = TaskOf(q)
      BY <2>3
    <3>2. push[q].step = "store" => push[q].ring \in Workers
      BY PushingFacts, OutsideStep DEF Pushers
    <3> QED
      BY <1>1, <2>1, <3>1, <3>2 DEF Filled
  <2> QED
    BY <2>2, <2>3
<1>9. Filled(Dispatcher, dtask)' /\ \A v \in Workers : Filled(v, wtask[v])'
  BY <1>8, DispatcherIsNoWorker DEF Pushers, TaskOf
<1> QED
  BY <1>7, <1>9 DEF FIFOsInv

(* Every step keeps the rings queues, but for the one by which two threads  *)
(* come to be inside push of one ring.                                      *)
LEMMA FIFOsStep ==
    ASSUME MatcherInv, FIFOsInv, [Next]_vars, ~overlapped'
    PROVE  FIFOsInv'
<1>1. MatcherInv'
  BY MatcherStep
<1>2. Dispatcher \in Pushers /\ (\A w \in Workers : w \in Pushers /\ w # Dispatcher)
  BY DispatcherIsNoWorker DEF Pushers
<1>3. CASE (\E m \in Messages : Receive(m)) \/ RejectOrder \/ AcceptOrder \/ CancelOrder \/ Send
  <2>1. /\ rings' = rings /\ push' = push /\ wtask' = wtask
        /\ dtask' = dtask \/ dtask = NoTask
    BY <1>3, PoolKept
    DEF Receive, RejectOrder, AcceptOrder, CancelOrder, Send, NextMessage, workers
  <2>2. dtask = NoTask => push[Dispatcher] = Pool!Outside
    BY DEF MatcherInv
  <2> QED
    BY <1>1, <2>1, <2>2, StillKeepsFIFOs DEF TaskOf
<1>4. CASE SubmitFindsRoom
  <2>1. RingOf(dtask) \in Workers
    BY <1>4 DEF SubmitFindsRoom, MatcherInv, TypeOK, RingOf
  <2>2. Pool!FindRoom(Dispatcher, RingOf(dtask)) /\ dtask' = dtask /\ wtask' = wtask
    BY <1>4 DEF SubmitFindsRoom, workers
  <2> QED
    BY <1>1, <1>2, <2>1, <2>2, FindRoomKeepsFIFOs
<1>5. CASE SubmitFills
  <2>1. Pool!FillSlot(Dispatcher, dtask) /\ dtask' = dtask /\ wtask' = wtask
    BY <1>5 DEF SubmitFills, workers
  <2>2. dtask \in Messages
    BY <2>1, OutsideStep DEF Pool!FillSlot, MatcherInv, TypeOK
  <2> QED
    BY <1>1, <1>2, <2>1, <2>2, FillKeepsFIFOs DEF TaskOf
<1>6. CASE SubmitTask
  <2>1. Pool!StoreWrite(Dispatcher) /\ wtask' = wtask
    BY <1>6 DEF SubmitTask, workers
  <2>2. dtask \in Messages
    BY <2>1, OutsideStep DEF Pool!StoreWrite, MatcherInv, TypeOK
  <2> QED
    BY <1>1, <1>2, <2>1, <2>2, StoreKeepsFIFOs DEF TaskOf
<1>7. ASSUME NEW w \in Workers, TaskNewOrder(w) \/ TaskCancelOrder(w) \/ TaskCancelOrderNotFound(w)
      PROVE  FIFOsInv'
  <2>1. /\ (Pop(w, "NEW") \/ Pop(w, "CANCEL")) /\ dtask' = dtask
        /\ \A v \in Workers \ {w} : wtask'[v] = wtask[v]
    BY <1>7 DEF TaskNewOrder, TaskCancelOrder, TaskCancelOrderNotFound, workers, MatcherInv, TypeOK
  <2>2. Pool!PopFront(w) /\ push[w] = Pool!Outside
    BY <2>1, PopFacts
  <2>3. \A p \in Pushers \ {w} : TaskOf(p)' = TaskOf(p)
    BY <2>1, <1>7 DEF TaskOf, Pushers, TaskNewOrder, TaskCancelOrder, TaskCancelOrderNotFound
  <2> QED
    BY <1>1, <2>2, <2>3, PopKeepsFIFOs
<1>8. ASSUME NEW w \in Workers,
             MatchTwoOrders(w) \/ MatchingDone(w) \/ ReportProcessed(w) \/ TaskNewOrderDone(w)
      PROVE  FIFOsInv'
  <2>1. /\ pool' = pool /\ dtask' = dtask /\ wpc[w] \in {"matching", "reporting"}
        /\ \A v \in Workers \ {w} : wtask'[v] = wtask[v]
    BY <1>8 DEF MatchTwoOrders, MatchingDone, ReportProcessed, TaskNewOrderDone, MatcherInv, TypeOK
  <2>2. push[w] = Pool!Outside
    BY <2>1 DEF MatcherInv, WorkerInv
  <2>3. \A p \in Pushers : push[p] = Pool!Outside \/ TaskOf(p)' = TaskOf(p)
    BY <2>1, <2>2 DEF TaskOf, Pushers
  <2> QED
    BY <1>1, <2>1, <2>3, PoolKept, StillKeepsFIFOs
<1>9. ASSUME NEW w \in Workers,
             RescheduleFindsRoom(w) \/ RescheduleFills(w) \/ Reschedule(w)
      PROVE  FIFOsInv'
  <2>1. dtask' = dtask /\ w \in Pushers /\ TaskOf(w) = wtask[w]
    BY <1>2, <1>9 DEF RescheduleFindsRoom, RescheduleFills, Reschedule, TaskOf
  <2>2. CASE RescheduleFindsRoom(w)
    <3>1. RingOf(wtask[w]) = w /\ wtask' = wtask
      BY <2>2 DEF RescheduleFindsRoom, workers, MatcherInv, WorkerInv, AtItsWorker
    <3>2. Pool!FindRoom(w, w)
      BY <2>2, <3>1 DEF RescheduleFindsRoom
    <3> QED
      BY <1>1, <2>1, <3>1, <3>2, FindRoomKeepsFIFOs
  <2>3. CASE RescheduleFills(w)
    <3>1. Pool!FillSlot(w, wtask[w]) /\ wtask' = wtask
      BY <2>3 DEF RescheduleFills, workers
    <3>2. wtask[w] \in Messages
      BY <3>1, OutsideStep DEF Pool!FillSlot, MatcherInv, WorkerInv
    <3> QED
      BY <1>1, <2>1, <3>1, <3>2, FillKeepsFIFOs
  <2>4. CASE Reschedule(w)
    <3>1. Pool!StoreWrite(w) /\ \A v \in Workers \ {w} : wtask'[v] = wtask[v]
      BY <2>4 DEF Reschedule, MatcherInv, TypeOK
    <3>2. wtask[w] \in Messages
      BY <3>1, OutsideStep DEF Pool!StoreWrite, MatcherInv, WorkerInv
    <3>3. \A p \in Pushers \ {w} : TaskOf(p)' = TaskOf(p)
      BY <2>1, <3>1 DEF TaskOf, Pushers
    <3> QED
      BY <1>1, <2>1, <3>1, <3>2, <3>3, StoreKeepsFIFOs
  <2> QED
    BY <1>9, <2>2, <2>3, <2>4
<1>10. CASE UNCHANGED vars
  <2>1. rings' = rings /\ push' = push /\ dtask' = dtask /\ wtask' = wtask
    BY <1>10 DEF vars, pool, workers
  <2> QED
    BY <1>1, <2>1, StillKeepsFIFOs DEF TaskOf
<1> QED
  BY <1>3, <1>4, <1>5, <1>6, <1>7, <1>8, <1>9, <1>10 DEF Next, Dispatch, Work

(* The flag stays up.                                                       *)
LEMMA OverlapIsForGood ==
    ASSUME MatcherInv, [Next]_vars, overlapped
    PROVE  overlapped'
BY DEF Next, Dispatch, Work, Receive, RejectOrder, AcceptOrder, CancelOrder, Send,
   SubmitFindsRoom, SubmitFills, SubmitTask, TaskNewOrder, TaskCancelOrder,
   TaskCancelOrderNotFound, Pop, MatchTwoOrders, MatchingDone, ReportProcessed,
   TaskNewOrderDone, RescheduleFindsRoom, RescheduleFills, Reschedule, vars, pool,
   Pool!FindRoom, Pool!FillSlot, Pool!StoreWrite, Pool!PopFront

(* Until the dispatcher and a worker are inside push of one ring together,  *)
(* a ring is the queue of tasks it is meant to be, although the worker that *)
(* reschedules a cancel is a second producer: at most one of them is inside *)
(* push, it publishes the slot it has filled, and no slot in use is         *)
(* overwritten.                                                             *)
THEOREM RingsAreQueues == Spec => [](overlapped \/ FIFOsInv)
<1>1. Init => MatcherInv /\ (overlapped \/ FIFOsInv)
  BY MatcherInit, FIFOsInit
<1>2. MatcherInv /\ (overlapped \/ FIFOsInv) /\ [Next]_vars
        => (MatcherInv /\ (overlapped \/ FIFOsInv))'
  BY MatcherStep, FIFOsStep, OverlapIsForGood
<1> QED
  BY <1>1, <1>2, PTL DEF Spec

-----------------------------------------------------------------------------
(* The order of arrival *)

(* All reports are a sequence of reports.                                   *)
LEMMA ReportsFacts ==
    ASSUME MatcherInv
    PROVE  Reports \in Seq(Report) /\ Len(Reports) \in Nat /\ DOMAIN Reports = 1..Len(Reports)
<1>1. outgoing \in Seq(Report) /\ delivered \in Seq(Report)
  BY DEF MatcherInv, TypeOK
<1>2. Reports \in Seq(Report)
  BY <1>1, ConcatProperties DEF Reports
<1> QED
  BY <1>2, LenProperties

(* Enqueueing a report adds it at the end.                                  *)
LEMMA ReportAdded ==
    ASSUME MatcherInv, NEW r \in Report,
           outgoing' = Append(outgoing, r), delivered' = delivered
    PROVE  /\ DOMAIN Reports' = 1..(Len(Reports) + 1)
           /\ \A i \in DOMAIN Reports : Reports'[i] = Reports[i]
           /\ Reports'[Len(Reports) + 1] = r
<1> DEFINE all == Reports
<1>1. /\ outgoing \in Seq(Report) /\ delivered \in Seq(Report)
      /\ all = delivered \o outgoing /\ Reports' = delivered \o Append(outgoing, r)
  BY DEF MatcherInv, TypeOK, Reports
<1> HIDE DEF all
<1>2. all \in Seq(Report) /\ <<r>> \in Seq(Report)
  BY <1>1, ConcatProperties
<1>3. Append(all, r) = all \o <<r>> /\ Append(outgoing, r) = outgoing \o <<r>>
  BY <1>1, <1>2, AppendIsConcat
<1>4. (delivered \o outgoing) \o <<r>> = delivered \o (outgoing \o <<r>>)
  BY <1>1, <1>2, ConcatAssociative
<1>5. Reports' = Append(all, r)
  BY <1>1, <1>3, <1>4
<1>6. /\ Append(all, r) \in Seq(Report) /\ Len(Append(all, r)) = Len(all) + 1
      /\ \A i \in 1..Len(all) : Append(all, r)[i] = all[i]
      /\ Append(all, r)[Len(all) + 1] = r
  BY <1>2, AppendProperties
<1>7. DOMAIN Append(all, r) = 1..(Len(all) + 1) /\ DOMAIN all = 1..Len(all)
  BY <1>2, <1>6, LenProperties
<1> QED
  BY <1>5, <1>6, <1>7 DEF all

(* Sending one moves it from one queue to the other.                        *)
LEMMA ReportSent ==
    ASSUME MatcherInv, Send
    PROVE  Reports' = Reports
<1>1. /\ outgoing \in Seq(Report) /\ delivered \in Seq(Report) /\ outgoing # <<>>
      /\ Reports = delivered \o outgoing
      /\ Reports' = Append(delivered, Head(outgoing)) \o Tail(outgoing)
  BY DEF MatcherInv, TypeOK, Reports, Send
<1>2. /\ Head(outgoing) \in Report /\ Tail(outgoing) \in Seq(Report)
      /\ outgoing = <<Head(outgoing)>> \o Tail(outgoing)
  BY <1>1, HeadTailProperties
<1>3. <<Head(outgoing)>> \in Seq(Report)
  BY <1>2
<1>4. Append(delivered, Head(outgoing)) = delivered \o <<Head(outgoing)>>
  BY <1>1, <1>2, AppendIsConcat
<1>5. (delivered \o <<Head(outgoing)>>) \o Tail(outgoing)
        = delivered \o (<<Head(outgoing)>> \o Tail(outgoing))
  BY <1>1, <1>2, <1>3, ConcatAssociative
<1> QED
  BY <1>1, <1>2, <1>4, <1>5

(* A message arrives at most once, and a client uses a ClOrdID for at most  *)
(* one order.                                                               *)
LEMMA OneArrival ==
    ASSUME MatcherInv, IncomingInv
    PROVE  /\ \A m : \A k, n \in IndicesOf(arrived, m) : k = n
           /\ \A o : \A k, n \in Arrivals(arrived, o) : k = n
           /\ Len(arrived) \in Nat /\ DOMAIN arrived = 1..Len(arrived)
           /\ \A k \in DOMAIN arrived : arrived[k] \in Messages
           /\ Len(incoming) \in Nat /\ DOMAIN incoming = 1..Len(incoming)
           /\ Taken \in Nat /\ Taken <= Len(arrived)
           /\ Settled \in Nat /\ Settled <= Taken
<1>1. arrived \in Seq(Messages) /\ incoming \in Seq(Messages)
  BY DEF MatcherInv, TypeOK
<1>2. /\ Len(arrived) \in Nat /\ DOMAIN arrived = 1..Len(arrived)
      /\ Len(incoming) \in Nat /\ DOMAIN incoming = 1..Len(incoming)
      /\ \A k \in DOMAIN arrived : arrived[k] \in Messages
  BY <1>1, LenProperties, ElementOfSeq
<1>3. \A m : \A k, n \in IndicesOf(arrived, m) : k = n
  BY DEF IndicesOf, IncomingInv
<1>4. ASSUME NEW o, NEW k \in Arrivals(arrived, o), NEW n \in Arrivals(arrived, o)
      PROVE  k = n
  <2>1. /\ k \in DOMAIN arrived /\ n \in DOMAIN arrived
        /\ arrived[k].type = "NEW" /\ arrived[n].type = "NEW"
        /\ arrived[k].owner = arrived[n].owner /\ arrived[k].clientID = arrived[n].clientID
    BY DEF Arrivals
  <2>2. arrived[k] \in NewMessages /\ arrived[n] \in NewMessages
    BY <1>2, <2>1, MessageFacts
  <2>3. arrived[k] = arrived[n]
    BY <2>1, <2>2, MessagesAssumption
  <2> QED
    BY <2>1, <2>3 DEF IncomingInv
<1>5. Taken \in Nat /\ Taken <= Len(arrived)
  BY <1>2 DEF IncomingInv, Taken
<1>6. Settled \in Nat /\ Settled <= Taken
  BY <1>5 DEF Settled, IncomingInv
<1> QED
  BY <1>2, <1>3, <1>4, <1>5, <1>6

(* An order is found where its message is.                                  *)
LEMMA ArrivalOfMessage ==
    ASSUME MatcherInv, IncomingInv, NEW m \in Messages, m.type = "NEW", NEW n \in Nat
    PROVE  Arrivals(arrived, OrderOf(m, n)) = IndicesOf(arrived, m)
<1>1. OrderOf(m, n).owner = m.owner /\ OrderOf(m, n).clientID = m.clientID
  BY DEF OrderOf, NewOrder
<1>2. m \in NewMessages
  BY MessageFacts
<1>3. ASSUME NEW k \in DOMAIN arrived, arrived[k].type = "NEW",
             arrived[k].owner = m.owner, arrived[k].clientID = m.clientID
      PROVE  arrived[k] = m
  <2>1. arrived[k] \in NewMessages
    BY <1>3, OneArrival, MessageFacts
  <2> QED
    BY <1>2, <1>3, <2>1, MessagesAssumption
<1> HIDE DEF OrderOf
<1> QED
  BY <1>1, <1>3 DEF Arrivals, IndicesOf

(* What most steps do to the books and to a ring: no order enters a book,   *)
(* and the ring at most loses its head.                                     *)
SameName(x, y) == x.stamp = y.stamp /\ x.owner = y.owner /\ x.clientID = y.clientID
NoneEnters ==
    \A s \in DOMAIN books' : \A x \in books'[s] :
        s \in DOMAIN books /\ \E y \in books[s] : SameName(x, y)
AtMostHeadGone(w) ==
    /\ \A i \in DOMAIN tasks'[w] : i \in Nat
    /\ \E c \in {0, 1} : \A i \in DOMAIN tasks'[w] :
          i + c \in DOMAIN tasks[w] /\ tasks'[w][i] = tasks[w][i + c]

(* Such steps keep what is said of the ring.                                *)
LEMMA RingKept ==
    ASSUME NEW w \in Workers, RingInv(w), AtMostHeadGone(w), NoneEnters,
           arrived' = arrived, Settled \in Nat, Settled' \in Nat, Settled <= Settled'
    PROVE  RingInv(w)'
<1>1. PICK c \in {0, 1} : \A i \in DOMAIN tasks'[w] :
         i + c \in DOMAIN tasks[w] /\ tasks'[w][i] = tasks[w][i + c]
  BY DEF AtMostHeadGone
<1>2. ASSUME NEW i \in DOMAIN tasks'[w], tasks'[w][i].type = "NEW"
      PROVE  /\ IndicesOf(arrived, tasks'[w][i]) \cap (1..Settled') # {}
             /\ \A j \in DOMAIN tasks'[w] : i < j /\ tasks'[w][j].type = "NEW" =>
                   AllBefore(IndicesOf(arrived, tasks'[w][i]), IndicesOf(arrived, tasks'[w][j]))
             /\ \A s \in DOMAIN books' : s = tasks'[w][i].symbol => \A x \in books'[s] :
                   AllBefore(Arrivals(arrived, x), IndicesOf(arrived, tasks'[w][i]))
  <2> DEFINE m == tasks'[w][i]
  <2>1. i + c \in DOMAIN tasks[w] /\ tasks[w][i + c] = m /\ m.type = "NEW" /\ i \in Nat
    BY <1>1, <1>2 DEF AtMostHeadGone
  <2>2. /\ IndicesOf(arrived, m) \cap (1..Settled) # {}
        /\ \A j \in DOMAIN tasks[w] : i + c < j /\ tasks[w][j].type = "NEW" =>
              AllBefore(IndicesOf(arrived, m), IndicesOf(arrived, tasks[w][j]))
        /\ \A s \in DOMAIN books : s = m.symbol => \A x \in books[s] :
              AllBefore(Arrivals(arrived, x), IndicesOf(arrived, m))
    BY <2>1 DEF RingInv
  <2> HIDE DEF m
  <2>3. IndicesOf(arrived, m) \cap (1..Settled') # {}
    BY <2>2
  <2>4. ASSUME NEW j \in DOMAIN tasks'[w], i < j, tasks'[w][j].type = "NEW"
        PROVE  AllBefore(IndicesOf(arrived, m), IndicesOf(arrived, tasks'[w][j]))
    <3>1. j + c \in DOMAIN tasks[w] /\ tasks[w][j + c] = tasks'[w][j] /\ j \in Nat
      BY <1>1 DEF AtMostHeadGone
    <3>2. i + c < j + c
      BY <2>1, <2>4, <3>1
    <3> QED
      BY <2>2, <2>4, <3>1, <3>2
  <2>5. ASSUME NEW s \in DOMAIN books', s = m.symbol, NEW x \in books'[s]
        PROVE  AllBefore(Arrivals(arrived, x), IndicesOf(arrived, m))
    <3>1. s \in DOMAIN books
      BY <2>5 DEF NoneEnters
    <3>2. PICK y \in books[s] : SameName(x, y)
      BY <2>5 DEF NoneEnters
    <3>3. Arrivals(arrived, x) = Arrivals(arrived, y)
      BY <3>2 DEF SameName, Arrivals
    <3> QED
      BY <2>2, <2>5, <3>1, <3>3
  <2> QED
    BY <2>3, <2>4, <2>5 DEF m
<1> QED
  BY <1>2 DEF RingInv

(* And what is said of the books.                                           *)
LEMMA RestingKept ==
    ASSUME \A s \in DOMAIN books : RestingInv(s), NoneEnters,
           arrived' = arrived, inserted' = inserted,
           Settled \in Nat, Settled' \in Nat, Settled <= Settled'
    PROVE  \A s \in DOMAIN books' : RestingInv(s)'
<1> SUFFICES ASSUME NEW s \in DOMAIN books' PROVE RestingInv(s)'
  OBVIOUS
<1>1. ASSUME NEW x \in books'[s]
      PROVE  /\ s \in DOMAIN books
             /\ \E y \in books[s] : x.stamp = y.stamp /\ Arrivals(arrived, x) = Arrivals(arrived, y)
  BY DEF NoneEnters, SameName, Arrivals
<1>2. ASSUME NEW x \in books'[s]
      PROVE  x.stamp < inserted[s] /\ Arrivals(arrived, x) \cap (1..Settled') # {}
  <2>1. x.stamp < inserted[s] /\ Arrivals(arrived, x) \cap (1..Settled) # {}
    BY <1>1 DEF RestingInv
  <2> QED
    BY <2>1
<1>3. ASSUME NEW x \in books'[s], NEW y \in books'[s], x.stamp < y.stamp
      PROVE  Earlier(arrived, x, y)
  <2>1. PICK a \in books[s] : x.stamp = a.stamp /\ Arrivals(arrived, x) = Arrivals(arrived, a)
    BY <1>1
  <2>2. PICK b \in books[s] : y.stamp = b.stamp /\ Arrivals(arrived, y) = Arrivals(arrived, b)
    BY <1>1
  <2>3. s \in DOMAIN books
    BY <1>1
  <2>4. Earlier(arrived, a, b)
    BY <1>3, <2>1, <2>2, <2>3 DEF RestingInv
  <2> QED
    BY <2>1, <2>2, <2>4 DEF Earlier
<1> QED
  BY <1>2, <1>3 DEF RestingInv

(* Steps that enqueue nothing, or a report that is no answer.               *)
LEMMA AnswersKept ==
    ASSUME AnswerInv, Answers' = Answers, \A i \in Answers : Reports'[i] = Reports[i],
           arrived' = arrived, incoming' = incoming
    PROVE  AnswerInv'
<1>1. Taken' = Taken
  BY DEF Taken
<1> QED
  BY <1>1 DEF AnswerInv

(* Only the sessions and the dispatcher change these.                       *)
LEMMA IncomingKept ==
    ASSUME IncomingInv, arrived' = arrived, incoming' = incoming, dtask' = dtask
    PROVE  IncomingInv' /\ Taken' = Taken /\ Settled' = Settled
BY DEF IncomingInv, Taken, Settled

(* A report of a trade or a cancel is no answer.                            *)
LEMMA NoAnswerAdded ==
    ASSUME MatcherInv, NEW r \in Report, ~Acknowledged(r),
           outgoing' = Append(outgoing, r), delivered' = delivered
    PROVE  Answers' = Answers /\ \A i \in Answers : Reports'[i] = Reports[i]
<1>1. /\ DOMAIN Reports' = 1..(Len(Reports) + 1) /\ DOMAIN Reports = 1..Len(Reports)
      /\ Len(Reports) \in Nat
      /\ \A i \in DOMAIN Reports : Reports'[i] = Reports[i]
      /\ Reports'[Len(Reports) + 1] = r
  BY ReportAdded, ReportsFacts
<1>2. Answers \subseteq DOMAIN Reports
  BY DEF Answers
<1>3. ASSUME NEW i PROVE i \in Answers' <=> i \in Answers
  <2>1. CASE i \in DOMAIN Reports
    BY <1>1, <2>1 DEF Answers, Acknowledged
  <2>2. CASE i = Len(Reports) + 1
    BY <1>1, <2>2 DEF Answers, Acknowledged
  <2>3. CASE i \notin DOMAIN Reports /\ i # Len(Reports) + 1
    BY <1>1, <2>3 DEF Answers, Acknowledged
  <2> QED
    BY <2>1, <2>2, <2>3
<1> QED
  BY <1>1, <1>2, <1>3

(* A message that arrives is behind all others, and no order's place        *)
(* changes.                                                                 *)
LEMMA ArrivalsGrow ==
    ASSUME MatcherInv, IncomingInv, NEW m \in Messages, Receive(m)
    PROVE  /\ IncomingInv' /\ Taken' = Taken /\ Settled' = Settled
           /\ \A k \in 1..Taken : k \in DOMAIN arrived /\ arrived'[k] = arrived[k]
           /\ \A o : Arrivals(arrived, o) # {} => Arrivals(arrived', o) = Arrivals(arrived, o)
           /\ \A q : IndicesOf(arrived, q) # {} => IndicesOf(arrived', q) = IndicesOf(arrived, q)
<1>1. /\ arrived' = Append(arrived, m) /\ incoming' = Append(incoming, m) /\ dtask' = dtask
      /\ arrived \in Seq(Messages) /\ incoming \in Seq(Messages)
      /\ \A k \in DOMAIN arrived : arrived[k] # m
  BY DEF Receive, ToSet, MatcherInv, TypeOK
<1>2. /\ arrived' \in Seq(Messages) /\ Len(arrived') = Len(arrived) + 1
      /\ \A k \in 1..Len(arrived) : arrived'[k] = arrived[k]
      /\ arrived'[Len(arrived) + 1] = m
  BY <1>1, AppendProperties
<1>3. /\ incoming' \in Seq(Messages) /\ Len(incoming') = Len(incoming) + 1
      /\ \A k \in 1..Len(incoming) : incoming'[k] = incoming[k]
      /\ incoming'[Len(incoming) + 1] = m
  BY <1>1, AppendProperties
<1>4. /\ Len(arrived) \in Nat /\ DOMAIN arrived = 1..Len(arrived)
      /\ Len(incoming) \in Nat /\ DOMAIN incoming = 1..Len(incoming)
      /\ Taken \in Nat /\ Taken <= Len(arrived)
      /\ DOMAIN arrived' = 1..(Len(arrived) + 1) /\ DOMAIN incoming' = 1..(Len(incoming) + 1)
  BY <1>2, <1>3, OneArrival, LenProperties
<1>5. Taken' = Taken /\ Settled' = Settled
  BY <1>1, <1>2, <1>3, <1>4 DEF Taken, Settled
<1>6. IncomingInv'
  <2>1. Len(incoming') <= Len(arrived')
    BY <1>2, <1>3, <1>4 DEF IncomingInv
  <2>2. ASSUME NEW i \in DOMAIN incoming' PROVE incoming'[i] = arrived'[Taken + i]
    <3>1. CASE i = Len(incoming) + 1
      BY <1>2, <1>3, <1>4, <3>1 DEF Taken
    <3>2. CASE i \in 1..Len(incoming)
      <4>1. Taken + i \in 1..Len(arrived)
        BY <1>4, <3>2 DEF Taken
      <4> QED
        BY <1>2, <1>3, <1>4, <3>2, <4>1 DEF IncomingInv
    <3> QED
      BY <1>4, <3>1, <3>2
  <2>3. ASSUME NEW i \in DOMAIN arrived', NEW j \in DOMAIN arrived', arrived'[i] = arrived'[j]
        PROVE  i = j
    <3>1. /\ i \in DOMAIN arrived => arrived'[i] # m /\ arrived'[i] = arrived[i]
          /\ j \in DOMAIN arrived => arrived'[j] # m /\ arrived'[j] = arrived[j]
      BY <1>1, <1>2, <1>4
    <3>2. i \in DOMAIN arrived \/ i = Len(arrived) + 1
      BY <1>4
    <3>3. j \in DOMAIN arrived \/ j = Len(arrived) + 1
      BY <1>4
    <3> QED
      BY <1>2, <2>3, <3>1, <3>2, <3>3 DEF IncomingInv
  <2>4. dtask # NoTask => Taken >= 1 /\ arrived'[Taken] = dtask
    BY <1>2, <1>4 DEF IncomingInv
  <2> QED
    BY <1>1, <1>5, <2>1, <2>2, <2>3, <2>4 DEF IncomingInv
<1>7. ASSUME NEW o, Arrivals(arrived, o) # {}
      PROVE  Arrivals(arrived', o) = Arrivals(arrived, o)
  <2>1. ~(m.type = "NEW" /\ m.owner = o.owner /\ m.clientID = o.clientID)
    <3>1. PICK k \in DOMAIN arrived : /\ arrived[k].type = "NEW" /\ arrived[k].owner = o.owner
                                      /\ arrived[k].clientID = o.clientID
      BY <1>7 DEF Arrivals
    <3>2. arrived[k] \in NewMessages /\ arrived[k] # m
      BY <1>1, <3>1, OneArrival, MessageFacts
    <3> QED
      BY <3>1, <3>2, MessageFacts, MessagesAssumption
  <2>2. \A k \in DOMAIN arrived' : k \in DOMAIN arrived \/ arrived'[k] = m
    BY <1>2, <1>4
  <2>3. \A k \in DOMAIN arrived : k \in DOMAIN arrived' /\ arrived'[k] = arrived[k]
    BY <1>2, <1>4
  <2> QED
    BY <2>1, <2>2, <2>3 DEF Arrivals
<1>8. ASSUME NEW q, IndicesOf(arrived, q) # {}
      PROVE  IndicesOf(arrived', q) = IndicesOf(arrived, q)
  <2>1. q # m
    BY <1>1, <1>8 DEF IndicesOf
  <2>2. \A k \in DOMAIN arrived' : k \in DOMAIN arrived \/ arrived'[k] = m
    BY <1>2, <1>4
  <2>3. \A k \in DOMAIN arrived : k \in DOMAIN arrived' /\ arrived'[k] = arrived[k]
    BY <1>2, <1>4
  <2> QED
    BY <2>1, <2>2, <2>3 DEF IndicesOf
<1> QED
  BY <1>2, <1>4, <1>5, <1>6, <1>7, <1>8

(* A step of the proof has two parts: what has arrived and been answered,   *)
(* whatever the rings do, and where the orders are that went into the       *)
(* rings, for rings that are queues.                                        *)
AnsweredInv == IncomingInv /\ AnswerInv
PipelineInv ==
    /\ \A w \in Workers : RingInv(w)
    /\ \A s \in DOMAIN books : RestingInv(s)

(* onMessage keeps the order of arrival.                                    *)
LEMMA ReceiveKeepsArrival ==
    ASSUME MatcherInv, AnsweredInv, NEW m \in Messages, Receive(m)
    PROVE  /\ AnsweredInv' /\ Settled' = Settled
           /\ PipelineInv => PipelineInv'
<1>1. /\ IncomingInv' /\ Taken' = Taken /\ Settled' = Settled
      /\ \A k \in 1..Taken : k \in DOMAIN arrived /\ arrived'[k] = arrived[k]
      /\ \A o : Arrivals(arrived, o) # {} => Arrivals(arrived', o) = Arrivals(arrived, o)
      /\ \A q : IndicesOf(arrived, q) # {} => IndicesOf(arrived', q) = IndicesOf(arrived, q)
  BY ArrivalsGrow DEF AnsweredInv
<1>2. /\ books' = books /\ tasks' = tasks /\ inserted' = inserted
      /\ Reports' = Reports /\ Answers' = Answers
  BY PoolKept, SameRingsSameTasks DEF Receive, dictionaries, workers, reports, Reports, Answers
<1>3. AnswerInv'
  <2>1. \A i \in Answers : Arrivals(arrived', Reports[i].order) = Arrivals(arrived, Reports[i].order)
    BY <1>1 DEF AnsweredInv, AnswerInv
  <2>2. \A i \in Answers : Arrivals(arrived', Reports[i].order) \cap (1..Taken) # {}
    BY <2>1 DEF AnsweredInv, AnswerInv
  <2>3. \A i, j \in Answers : i < j => Earlier(arrived', Reports[i].order, Reports[j].order)
    BY <2>1 DEF AnsweredInv, AnswerInv, Earlier
  <2>4. \A n \in 1..Taken : arrived'[n].type = "NEW" =>
           \E j \in Answers : n \in Arrivals(arrived', Reports[j].order)
    BY <1>1, <2>1 DEF AnsweredInv, AnswerInv
  <2> QED
    BY <1>1, <1>2, <2>2, <2>3, <2>4 DEF AnswerInv
<1>4. ASSUME PipelineInv PROVE PipelineInv'
  <2>1. \A s \in DOMAIN books : \A x \in books[s] : Arrivals(arrived', x) = Arrivals(arrived, x)
    BY <1>1, <1>4 DEF PipelineInv, RestingInv
  <2>2. ASSUME NEW s \in DOMAIN books PROVE RestingInv(s)'
    <3>1. RestingInv(s)
      BY <1>4 DEF PipelineInv
    <3>2. \A x \in books[s] : x.stamp < inserted[s] /\ Arrivals(arrived', x) \cap (1..Settled) # {}
      BY <2>1, <3>1 DEF RestingInv
    <3>3. \A x, y \in books[s] : x.stamp < y.stamp => Earlier(arrived', x, y)
      BY <2>1, <3>1 DEF RestingInv, Earlier
    <3> QED
      BY <1>1, <1>2, <3>2, <3>3 DEF RestingInv
  <2>3. ASSUME NEW w \in Workers PROVE RingInv(w)'
    <3>1. \A i \in DOMAIN tasks[w] : tasks[w][i].type = "NEW" =>
             IndicesOf(arrived', tasks[w][i]) = IndicesOf(arrived, tasks[w][i])
      BY <1>1, <1>4 DEF PipelineInv, RingInv
    <3>2. RingInv(w)
      BY <1>4 DEF PipelineInv
    <3>3. ASSUME NEW i \in DOMAIN tasks[w], tasks[w][i].type = "NEW"
          PROVE  /\ IndicesOf(arrived', tasks[w][i]) \cap (1..Settled) # {}
                 /\ \A j \in DOMAIN tasks[w] : i < j /\ tasks[w][j].type = "NEW" =>
                       AllBefore(IndicesOf(arrived', tasks[w][i]), IndicesOf(arrived', tasks[w][j]))
                 /\ \A s \in DOMAIN books : s = tasks[w][i].symbol => \A x \in books[s] :
                       AllBefore(Arrivals(arrived', x), IndicesOf(arrived', tasks[w][i]))
      BY <2>1, <3>1, <3>2, <3>3 DEF RingInv
    <3> QED
      BY <1>1, <1>2, <3>3 DEF RingInv
  <2> QED
    BY <1>2, <2>2, <2>3 DEF PipelineInv
<1> QED
  BY <1>1, <1>3, <1>4 DEF AnsweredInv

(* The dispatcher takes the message that arrived after those it has taken.  *)
LEMMA TakeFacts ==
    ASSUME MatcherInv, IncomingInv, NEW type, NextMessage(type), arrived' = arrived
    PROVE  LET m == Head(incoming) IN
           /\ dtask = NoTask /\ m \in Messages /\ m.type = type /\ m # NoTask
           /\ Taken \in Nat /\ Taken' = Taken + 1 /\ Settled = Taken
           /\ Taken + 1 \in DOMAIN arrived /\ arrived[Taken + 1] = m
           /\ dtask' \in {NoTask, m} => IncomingInv'
<1>1. /\ dtask = NoTask /\ incoming # <<>> /\ Head(incoming).type = type
      /\ incoming' = Tail(incoming) /\ incoming \in Seq(Messages)
  BY DEF NextMessage, MatcherInv, TypeOK
<1>2. /\ Head(incoming) \in Messages /\ Tail(incoming) \in Seq(Messages)
      /\ Len(incoming') = Len(incoming) - 1
      /\ \A i \in 1..Len(incoming') : incoming'[i] = incoming[i + 1]
  BY <1>1, HeadTailProperties
<1>3. /\ Len(arrived) \in Nat /\ DOMAIN arrived = 1..Len(arrived)
      /\ Len(incoming) \in Nat \ {0} /\ DOMAIN incoming = 1..Len(incoming)
      /\ Taken \in Nat /\ DOMAIN incoming' = 1..Len(incoming')
  BY <1>1, <1>2, OneArrival, LenProperties, EmptySeq
<1>4. Taken' = Taken + 1 /\ Settled = Taken /\ Taken + 1 \in DOMAIN arrived
  BY <1>1, <1>2, <1>3 DEF Taken, Settled, IncomingInv
<1>5. Head(incoming) = incoming[1]
  BY <1>1, <1>3
<1>6. arrived[Taken + 1] = Head(incoming)
  BY <1>3, <1>5 DEF IncomingInv
<1>7. ASSUME dtask' \in {NoTask, Head(incoming)} PROVE IncomingInv'
  <2>1. Len(incoming') <= Len(arrived)
    BY <1>2, <1>3 DEF IncomingInv
  <2>2. ASSUME NEW i \in DOMAIN incoming' PROVE incoming'[i] = arrived[Taken + 1 + i]
    <3>1. i + 1 \in DOMAIN incoming /\ incoming'[i] = incoming[i + 1]
      BY <1>2, <1>3
    <3>2. incoming[i + 1] = arrived[Taken + (i + 1)] /\ i \in Nat
      BY <1>3, <3>1 DEF IncomingInv
    <3>3. Taken + (i + 1) = Taken + 1 + i
      BY <1>3, <3>2
    <3> QED
      BY <3>1, <3>2, <3>3
  <2>3. Taken + 1 >= 1
    BY <1>3
  <2> QED
    BY <1>4, <1>6, <1>7, <2>1, <2>2, <2>3 DEF IncomingInv
<1>8. Head(incoming) # NoTask
  BY <1>2, MessageFacts
<1> QED
  BY <1>1, <1>2, <1>3, <1>4, <1>6, <1>7, <1>8

(* The answer to the message just taken comes behind all others.            *)
LEMMA AnswerAdded ==
    ASSUME MatcherInv, IncomingInv, AnswerInv,
           NEW m \in Messages, m.type = "NEW", NEW r \in Report, Acknowledged(r),
           r.order = OrderOf(m, 0), outgoing' = Append(outgoing, r), delivered' = delivered,
           Taken + 1 \in DOMAIN arrived, arrived[Taken + 1] = m,
           arrived' = arrived, Taken' = Taken + 1
    PROVE  AnswerInv'
<1> DEFINE last == Len(Reports) + 1
<1>1. /\ DOMAIN Reports' = 1..last /\ DOMAIN Reports = 1..Len(Reports)
      /\ Len(Reports) \in Nat
      /\ \A i \in DOMAIN Reports : Reports'[i] = Reports[i]
      /\ Reports'[last] = r
  BY ReportAdded, ReportsFacts
<1>2. /\ Taken \in Nat /\ \A o : \A k, n \in Arrivals(arrived, o) : k = n
      /\ \A k, n \in IndicesOf(arrived, m) : k = n
  BY OneArrival
<1>3. Arrivals(arrived, r.order) = {Taken + 1}
  <2>1. Arrivals(arrived, r.order) = IndicesOf(arrived, m)
    BY ArrivalOfMessage
  <2>2. Taken + 1 \in IndicesOf(arrived, m)
    BY DEF IndicesOf
  <2> QED
    BY <1>2, <2>1, <2>2
<1>4. \A i \in Answers : i \in DOMAIN Reports /\ i < last /\ i # last
  BY <1>1 DEF Answers
<1>5. \A i \in Answers' : i = last \/ i \in Answers
  BY <1>1 DEF Answers, Acknowledged
<1>6. last \in Answers' /\ Answers \subseteq Answers'
  BY <1>1 DEF Answers, Acknowledged
<1> HIDE DEF last
<1>7. ASSUME NEW i \in Answers
      PROVE  /\ Reports'[i] = Reports[i]
             /\ Arrivals(arrived, Reports[i].order) \cap (1..Taken) # {}
             /\ Arrivals(arrived, Reports[i].order) \subseteq 1..Taken
  <2>1. Reports'[i] = Reports[i] /\ Arrivals(arrived, Reports[i].order) \cap (1..Taken) # {}
    BY <1>1, <1>4 DEF AnswerInv
  <2> QED
    BY <1>2, <2>1
<1>8. ASSUME NEW i \in Answers'
      PROVE  Arrivals(arrived, Reports'[i].order) \cap (1..(Taken + 1)) # {}
  <2>1. CASE i = last
    <3>1. Reports'[i] = r
      BY <1>1, <2>1
    <3>2. Taken + 1 \in 1..(Taken + 1)
      BY <1>2
    <3> QED
      BY <1>3, <3>1, <3>2
  <2>2. CASE i \in Answers
    BY <1>2, <1>7, <2>2
  <2> QED
    BY <1>5, <2>1, <2>2
<1>9. ASSUME NEW i \in Answers', NEW j \in Answers', i < j
      PROVE  Earlier(arrived, Reports'[i].order, Reports'[j].order)
  <2>1. i \in Answers /\ (j = last \/ j \in Answers)
    BY <1>1, <1>4, <1>5, <1>9 DEF last
  <2>2. CASE j \in Answers
    BY <1>7, <1>9, <2>1, <2>2 DEF AnswerInv
  <2>3. CASE j = last
    <3>1. \A k \in Arrivals(arrived, Reports'[i].order) : k < Taken + 1
      BY <1>2, <1>7, <2>1
    <3> QED
      BY <1>1, <1>3, <2>3, <3>1 DEF Earlier, AllBefore
  <2> QED
    BY <2>1, <2>2, <2>3
<1>10. ASSUME NEW n \in 1..(Taken + 1), arrived[n].type = "NEW"
       PROVE  \E j \in Answers' : n \in Arrivals(arrived, Reports'[j].order)
  <2>1. CASE n = Taken + 1
    BY <1>1, <1>3, <1>6, <2>1
  <2>2. CASE n \in 1..Taken
    <3>1. PICK j \in Answers : n \in Arrivals(arrived, Reports[j].order)
      BY <1>10, <2>2 DEF AnswerInv
    <3> QED
      BY <1>6, <1>7, <3>1
  <2> QED
    BY <1>2, <2>1, <2>2
<1> QED
  BY <1>8, <1>9, <1>10 DEF AnswerInv

(* What follows for rings and books when a step changes neither.            *)
LEMMA PipelineKept ==
    ASSUME MatcherInv, FIFOsInv, PipelineInv, tasks' = tasks, books' = books, inserted' = inserted,
           arrived' = arrived, Settled \in Nat, Settled' \in Nat, Settled <= Settled'
    PROVE  PipelineInv'
<1>1. NoneEnters
  BY DEF NoneEnters, SameName
<1>2. ASSUME NEW w \in Workers PROVE AtMostHeadGone(w)
  <2>1. DOMAIN tasks[w] \subseteq Nat
    BY TasksFacts, UsedFacts
  <2>2. \A i \in DOMAIN tasks'[w] : i + 0 \in DOMAIN tasks[w] /\ tasks'[w][i] = tasks[w][i + 0]
    BY <2>1
  <2> QED
    BY <2>1, <2>2 DEF AtMostHeadGone
<1>3. \A w \in Workers : RingInv(w)'
  BY <1>1, <1>2, RingKept DEF PipelineInv
<1>4. \A s \in DOMAIN books' : RestingInv(s)'
  BY <1>1, RestingKept DEF PipelineInv
<1> QED
  BY <1>3, <1>4 DEF PipelineInv

(* addOrder and cancelOrder in the dispatcher.                              *)
LEMMA DispatchKeepsArrival ==
    ASSUME MatcherInv, AnsweredInv, RejectOrder \/ AcceptOrder \/ CancelOrder
    PROVE  AnsweredInv' /\ (FIFOsInv /\ PipelineInv => PipelineInv')
<1> DEFINE m == Head(incoming)
<1>1. /\ arrived' = arrived /\ tasks' = tasks /\ books' = books /\ inserted' = inserted
      /\ delivered' = delivered
  BY PoolKept, SameRingsSameTasks
  DEF RejectOrder, AcceptOrder, CancelOrder, dictionaries, workers, reports
<1>2. PICK type \in {"NEW", "CANCEL"} :
         /\ NextMessage(type)
         /\ type = "NEW" => /\ dtask' \in {NoTask, m}
                            /\ \E answer \in {"ACCEPTED", "REJECTED"} :
                                  outgoing' = Append(outgoing, MakeReport(answer, m.symbol, OrderOf(m, 0)))
         /\ type = "CANCEL" => dtask' = m /\ outgoing' = outgoing
  <2>1. CASE RejectOrder
    BY <2>1 DEF RejectOrder, NextMessage
  <2>2. CASE AcceptOrder
    BY <2>2 DEF AcceptOrder
  <2>3. CASE CancelOrder
    BY <2>3 DEF CancelOrder, reports
  <2> QED
    BY <2>1, <2>2, <2>3
<1>3. /\ dtask = NoTask /\ m \in Messages /\ m.type = type /\ m # NoTask
      /\ Taken \in Nat /\ Taken' = Taken + 1 /\ Settled = Taken
      /\ Taken + 1 \in DOMAIN arrived /\ arrived[Taken + 1] = m
      /\ IncomingInv'
  BY <1>1, <1>2, TakeFacts DEF AnsweredInv
<1>4. Settled \in Nat /\ Settled' \in Nat /\ Settled <= Settled'
  BY <1>2, <1>3 DEF Settled
<1>5. FIFOsInv /\ PipelineInv => PipelineInv'
  BY <1>1, <1>4, PipelineKept
<1>6. AnswerInv'
  <2>1. CASE type = "NEW"
    <3>1. PICK answer \in {"ACCEPTED", "REJECTED"} :
             outgoing' = Append(outgoing, MakeReport(answer, m.symbol, OrderOf(m, 0)))
      BY <1>2, <2>1
    <3> DEFINE r == MakeReport(answer, m.symbol, OrderOf(m, 0))
    <3>2. r \in Report /\ Acknowledged(r) /\ r.order = OrderOf(m, 0)
      BY <1>3, <2>1, MessageFacts DEF MakeReport, Report, Acknowledged
    <3> HIDE DEF r, m
    <3>3. outgoing' = Append(outgoing, r)
      BY <3>1 DEF r
    <3> QED
      BY <1>1, <1>3, <2>1, <3>2, <3>3, AnswerAdded DEF AnsweredInv
  <2>2. CASE type = "CANCEL"
    <3>1. Reports' = Reports /\ Answers' = Answers
      BY <1>1, <1>2, <2>2 DEF Reports, Answers
    <3>2. \A n \in 1..(Taken + 1) : arrived[n].type = "NEW" => n \in 1..Taken
      BY <1>3, <2>2
    <3>3. \A S : S \cap (1..Taken) # {} => S \cap (1..(Taken + 1)) # {}
      BY <1>3
    <3> QED
      BY <1>1, <1>3, <3>1, <3>2, <3>3 DEF AnsweredInv, AnswerInv
  <2> QED
    BY <2>1, <2>2
<1> QED
  BY <1>3, <1>5, <1>6 DEF AnsweredInv

(* The three steps of submitTask by the dispatcher change no answer; by the *)
(* last one the message it has taken is settled.                            *)
LEMMA SubmitKeepsAnswers ==
    ASSUME MatcherInv, AnsweredInv, SubmitFindsRoom \/ SubmitFills \/ SubmitTask
    PROVE  AnsweredInv'
<1>1. /\ arrived' = arrived /\ incoming' = incoming /\ dtask' \in {dtask, NoTask}
      /\ delivered' = delivered /\ outgoing' = outgoing
  BY DEF SubmitFindsRoom, SubmitFills, SubmitTask, sessions, reports
<1>2. Answers' = Answers /\ \A i \in Answers : Reports'[i] = Reports[i]
  BY <1>1 DEF Answers, Reports
<1>3. AnswerInv'
  BY <1>1, <1>2, AnswersKept DEF AnsweredInv
<1>4. IncomingInv'
  BY <1>1 DEF AnsweredInv, IncomingInv, Taken
<1> QED
  BY <1>3, <1>4 DEF AnsweredInv

(* What is in a ring after a store: what was in it, and the task at the end. *)
LEMMA TaskAdded ==
    ASSUME MatcherInv, FIFOsInv, NEW p \in Pushers, NEW m \in Messages,
           Pool!StoreWrite(p), Filled(p, m)
    PROVE  \A w \in Workers :
              /\ DOMAIN tasks[w] \subseteq Nat /\ DOMAIN tasks'[w] \subseteq Nat
              /\ \A i \in DOMAIN tasks'[w] :
                    \/ i \in DOMAIN tasks[w] /\ tasks'[w][i] = tasks[w][i]
                    \/ /\ i \notin DOMAIN tasks[w] /\ tasks'[w][i] = m
                       /\ \A j \in DOMAIN tasks'[w] : j <= i
<1> SUFFICES ASSUME NEW w \in Workers
             PROVE  /\ DOMAIN tasks[w] \subseteq Nat /\ DOMAIN tasks'[w] \subseteq Nat
                    /\ \A i \in DOMAIN tasks'[w] :
                          \/ i \in DOMAIN tasks[w] /\ tasks'[w][i] = tasks[w][i]
                          \/ /\ i \notin DOMAIN tasks[w] /\ tasks'[w][i] = m
                             /\ \A j \in DOMAIN tasks'[w] : j <= i
  OBVIOUS
<1>1. tasks[w] \in Seq(Messages) /\ tasks'[w] \in {tasks[w], Append(tasks[w], m)}
  BY StoreAppends, TasksFacts
<1>2. DOMAIN tasks[w] = 1..Len(tasks[w]) /\ Len(tasks[w]) \in Nat
  BY <1>1, LenProperties
<1>3. CASE tasks'[w] = Append(tasks[w], m)
  <2>1. /\ Append(tasks[w], m) \in Seq(Messages)
        /\ Len(Append(tasks[w], m)) = Len(tasks[w]) + 1
        /\ \A i \in 1..Len(tasks[w]) : Append(tasks[w], m)[i] = tasks[w][i]
        /\ Append(tasks[w], m)[Len(tasks[w]) + 1] = m
    BY <1>1, AppendProperties
  <2>2. DOMAIN Append(tasks[w], m) = 1..(Len(tasks[w]) + 1)
    BY <2>1, LenProperties
  <2> QED
    BY <1>2, <1>3, <2>1, <2>2
<1>4. CASE tasks'[w] = tasks[w]
  BY <1>2, <1>4
<1> QED
  BY <1>1, <1>3, <1>4

(* The dispatcher's task is behind all before it.                           *)
LEMMA SubmitKeepsPipeline ==
    ASSUME MatcherInv, FIFOsInv, AnsweredInv, PipelineInv, SubmitTask
    PROVE  PipelineInv'
<1>1. /\ dtask # NoTask /\ dtask' = NoTask /\ dtask \in Messages
      /\ Dispatcher \in Pushers /\ Pool!StoreWrite(Dispatcher) /\ Filled(Dispatcher, dtask)
      /\ arrived' = arrived /\ incoming' = incoming /\ books' = books /\ inserted' = inserted
  BY StoreFacts DEF SubmitTask, sessions, dictionaries, workers, MatcherInv, TypeOK, FIFOsInv, Pushers
<1>2. /\ Taken \in Nat /\ Taken >= 1 /\ arrived[Taken] = dtask /\ Taken <= Len(arrived)
      /\ DOMAIN arrived = 1..Len(arrived) /\ Len(arrived) \in Nat
      /\ Settled = Taken - 1 /\ Settled' = Taken /\ Taken' = Taken
      /\ \A m : \A k, n \in IndicesOf(arrived, m) : k = n
      /\ \A o : \A k, n \in Arrivals(arrived, o) : k = n
  BY <1>1, OneArrival DEF AnsweredInv, IncomingInv, Settled, Taken
<1>3. IndicesOf(arrived, dtask) = {Taken}
  <2>1. Taken \in IndicesOf(arrived, dtask)
    BY <1>2 DEF IndicesOf
  <2>2. \A k, n \in IndicesOf(arrived, dtask) : k = n
    BY <1>2
  <2> QED
    BY <2>1, <2>2
<1>4. \A s \in DOMAIN books' : RestingInv(s)'
  <2>1. NoneEnters
    BY <1>1 DEF NoneEnters, SameName
  <2>2. Settled \in Nat /\ Settled' \in Nat /\ Settled <= Settled'
    BY <1>2
  <2> QED
    BY <1>1, <2>1, <2>2, RestingKept DEF PipelineInv
<1>5. \A w \in Workers : DOMAIN tasks[w] \subseteq Nat /\ DOMAIN tasks'[w] \subseteq Nat
  BY <1>1, TaskAdded
<1>6. \A w \in Workers : \A i \in DOMAIN tasks'[w] :
         \/ i \in DOMAIN tasks[w] /\ tasks'[w][i] = tasks[w][i]
         \/ /\ i \notin DOMAIN tasks[w] /\ tasks'[w][i] = dtask
            /\ \A j \in DOMAIN tasks'[w] : j <= i
  BY <1>1, TaskAdded
<1>7. ASSUME NEW w \in Workers PROVE RingInv(w)'
  <2> DEFINE at(i) == IndicesOf(arrived, tasks'[w][i])
  <2>1. RingInv(w) /\ DOMAIN tasks[w] \subseteq Nat /\ DOMAIN tasks'[w] \subseteq Nat
    BY <1>5 DEF PipelineInv
  <2>2. ASSUME NEW i \in DOMAIN tasks'[w], tasks'[w][i].type = "NEW"
        PROVE  /\ at(i) \cap (1..Taken) # {}
               /\ \A j \in DOMAIN tasks'[w] : i < j /\ tasks'[w][j].type = "NEW" =>
                     AllBefore(at(i), at(j))
               /\ \A s \in DOMAIN books : s = tasks'[w][i].symbol => \A x \in books[s] :
                     AllBefore(Arrivals(arrived, x), at(i))
    <3>1. CASE i \in DOMAIN tasks[w] /\ tasks'[w][i] = tasks[w][i]
      <4>1. /\ at(i) \cap (1..(Taken - 1)) # {}
            /\ \A s \in DOMAIN books : s = tasks'[w][i].symbol => \A x \in books[s] :
                  AllBefore(Arrivals(arrived, x), at(i))
        BY <1>2, <2>1, <2>2, <3>1 DEF RingInv
      <4>2. at(i) \cap (1..Taken) # {} /\ \A k \in at(i) : k < Taken
        BY <1>2, <4>1
      <4>3. ASSUME NEW j \in DOMAIN tasks'[w], i < j, tasks'[w][j].type = "NEW"
            PROVE  AllBefore(at(i), at(j))
        <5>1. CASE j \in DOMAIN tasks[w] /\ tasks'[w][j] = tasks[w][j]
          BY <2>1, <2>2, <3>1, <4>3, <5>1 DEF RingInv
        <5>2. CASE tasks'[w][j] = dtask
          BY <1>3, <4>2, <5>2 DEF AllBefore
        <5> QED
          BY <1>6, <5>1, <5>2
      <4> QED
        BY <4>1, <4>2, <4>3
    <3>2. CASE tasks'[w][i] = dtask /\ \A j \in DOMAIN tasks'[w] : j <= i
      <4>1. at(i) = {Taken}
        BY <1>3, <3>2
      <4>2. ASSUME NEW j \in DOMAIN tasks'[w], i < j PROVE FALSE
        <5>1. i \in Nat /\ j \in Nat /\ j <= i
          BY <2>1, <3>2
        <5> QED
          BY <4>2, <5>1
      <4>3. ASSUME NEW s \in DOMAIN books, NEW x \in books[s]
            PROVE  AllBefore(Arrivals(arrived, x), at(i))
        <5>1. Arrivals(arrived, x) \cap (1..(Taken - 1)) # {}
          BY <1>2 DEF PipelineInv, RestingInv
        <5>2. \A k \in Arrivals(arrived, x) : k < Taken
          BY <1>2, <5>1
        <5> QED
          BY <4>1, <5>2 DEF AllBefore
      <4>4. at(i) \cap (1..Taken) # {}
        BY <1>2, <4>1
      <4> QED
        BY <4>2, <4>3, <4>4
    <3> QED
      BY <1>6, <3>1, <3>2
  <2> QED
    BY <1>1, <1>2, <2>2 DEF RingInv
<1> QED
  BY <1>4, <1>7 DEF PipelineInv

(* The head of a ring and the rest of it.                                   *)
LEMMA HeadOfRing ==
    ASSUME MatcherInv, FIFOsInv, NEW w \in Workers, tasks[w] # <<>>
    PROVE  /\ Tail(tasks[w]) \in Seq(Messages)
           /\ 1 \in DOMAIN tasks[w] /\ Head(tasks[w]) = tasks[w][1]
           /\ \A i \in DOMAIN Tail(tasks[w]) :
                 /\ i \in Nat \ {0} /\ i + 1 \in DOMAIN tasks[w]
                 /\ Tail(tasks[w])[i] = tasks[w][i + 1]
<1>1. tasks[w] \in Seq(Messages)
  BY TasksFacts
<1>2. /\ Tail(tasks[w]) \in Seq(Messages)
      /\ Len(Tail(tasks[w])) = Len(tasks[w]) - 1
      /\ \A i \in 1..Len(Tail(tasks[w])) : Tail(tasks[w])[i] = tasks[w][i + 1]
  BY <1>1, HeadTailProperties
<1>3. /\ Len(tasks[w]) \in Nat \ {0} /\ DOMAIN tasks[w] = 1..Len(tasks[w])
      /\ DOMAIN Tail(tasks[w]) = 1..Len(Tail(tasks[w]))
  BY <1>1, <1>2, LenProperties, EmptySeq
<1>4. Head(tasks[w]) = tasks[w][1]
  BY <1>1, <1>3
<1> QED
  BY <1>2, <1>3, <1>4

(* A ring that is not touched, and one whose head is popped.                *)
LEMMA RingShifts ==
    ASSUME MatcherInv, FIFOsInv, NEW w \in Workers,
           tasks'[w] = tasks[w] \/ (tasks[w] # <<>> /\ tasks'[w] = Tail(tasks[w]))
    PROVE  AtMostHeadGone(w)
<1>1. DOMAIN tasks[w] \subseteq Nat
  BY TasksFacts, UsedFacts
<1>2. CASE tasks'[w] = tasks[w]
  <2>1. \A i \in DOMAIN tasks'[w] : i + 0 \in DOMAIN tasks[w] /\ tasks'[w][i] = tasks[w][i + 0]
    BY <1>1, <1>2
  <2> QED
    BY <1>1, <1>2, <2>1 DEF AtMostHeadGone
<1>3. CASE tasks[w] # <<>> /\ tasks'[w] = Tail(tasks[w])
  <2>1. \A i \in DOMAIN tasks'[w] :
           i \in Nat /\ i + 1 \in DOMAIN tasks[w] /\ tasks'[w][i] = tasks[w][i + 1]
    BY <1>3, HeadOfRing
  <2> QED
    BY <2>1 DEF AtMostHeadGone
<1> QED
  BY <1>2, <1>3

(* A worker's steps answer nothing.                                         *)
LEMMA NothingAnswered ==
    ASSUME MatcherInv, AnsweredInv,
           arrived' = arrived, incoming' = incoming, dtask' = dtask,
           Answers' = Answers, \A i \in Answers : Reports'[i] = Reports[i]
    PROVE  AnsweredInv' /\ Settled' = Settled /\ Settled \in Nat
<1>1. IncomingInv' /\ Taken' = Taken /\ Settled' = Settled
  BY IncomingKept DEF AnsweredInv
<1>2. AnswerInv' /\ Settled \in Nat
  BY AnswersKept, OneArrival DEF AnsweredInv
<1> QED
  BY <1>1, <1>2 DEF AnsweredInv

(* And most of them let no order into a book.                               *)
LEMMA WorkKeepsArrival ==
    ASSUME MatcherInv, AnsweredInv, NoneEnters,
           FIFOsInv => \A w \in Workers : AtMostHeadGone(w),
           arrived' = arrived, incoming' = incoming, dtask' = dtask, inserted' = inserted,
           Answers' = Answers, \A i \in Answers : Reports'[i] = Reports[i]
    PROVE  AnsweredInv' /\ (FIFOsInv /\ PipelineInv => PipelineInv')
<1>1. AnsweredInv' /\ Settled' = Settled /\ Settled \in Nat
  BY NothingAnswered
<1>2. Settled' \in Nat /\ Settled <= Settled'
  BY <1>1
<1>3. ASSUME FIFOsInv, PipelineInv PROVE PipelineInv'
  <2>1. \A w \in Workers : RingInv(w)'
    BY <1>1, <1>2, <1>3, RingKept DEF PipelineInv
  <2>2. \A s \in DOMAIN books' : RestingInv(s)'
    BY <1>1, <1>2, <1>3, RestingKept DEF PipelineInv
  <2> QED
    BY <2>1, <2>2 DEF PipelineInv
<1> QED
  BY <1>1, <1>3

(* The steps of taskNewOrder after the insertion.                           *)
LEMMA MatchingKeepsArrival ==
    ASSUME MatcherInv, AnsweredInv, NEW w \in Workers,
           MatchTwoOrders(w) \/ MatchingDone(w) \/ ReportProcessed(w) \/ TaskNewOrderDone(w)
    PROVE  AnsweredInv' /\ (FIFOsInv /\ PipelineInv => PipelineInv')
<1>1. /\ arrived' = arrived /\ incoming' = incoming /\ dtask' = dtask /\ inserted' = inserted
      /\ tasks' = tasks /\ delivered' = delivered
  BY PoolKept, SameRingsSameTasks
  DEF MatchTwoOrders, MatchingDone, ReportProcessed, TaskNewOrderDone, sessions, reports
<1>2. FIFOsInv => \A v \in Workers : AtMostHeadGone(v)
  BY <1>1, RingShifts
<1>3. NoneEnters
  <2>1. CASE books' = books
    BY <2>1 DEF NoneEnters, SameName
  <2>2. CASE MatchTwoOrders(w)
    <3> DEFINE s == wtask[w].symbol
    <3>1. s \in DOMAIN books /\ books[s] \in SUBSET Order
      BY <2>2 DEF MatchTwoOrders, MatcherInv, WorkerInv, TypeOK
    <3>2. PICK bid \in books[s], ask \in books[s] :
             books' = [books EXCEPT ![s] = AfterMatch(books[s], bid, ask)]
      BY <2>2 DEF MatchTwoOrders
    <3>3. \A x \in AfterMatch(books[s], bid, ask) : \E y \in books[s] : SameName(x, y)
      BY <3>1, AfterMatchFacts DEF SameName
    <3> HIDE DEF s
    <3>4. ASSUME NEW z \in DOMAIN books', NEW x \in books'[z]
          PROVE  z \in DOMAIN books /\ \E y \in books[z] : SameName(x, y)
      <4>1. CASE z = s
        BY <3>1, <3>2, <3>3, <4>1
      <4>2. CASE z # s
        <5>1. z \in DOMAIN books /\ x \in books[z]
          BY <3>2, <4>2
        <5> QED
          BY <5>1 DEF SameName
      <4> QED
        BY <4>1, <4>2
    <3> QED
      BY <3>4 DEF NoneEnters
  <2> QED
    BY <2>1, <2>2 DEF MatchingDone, ReportProcessed, TaskNewOrderDone, dictionaries
<1>4. Answers' = Answers /\ \A i \in Answers : Reports'[i] = Reports[i]
  <2>1. CASE outgoing' = outgoing
    BY <1>1, <2>1 DEF Answers, Reports
  <2>2. CASE ReportProcessed(w)
    <3>1. /\ wtask[w] \in Messages /\ processed[w] \in Seq(Order) /\ processed[w] # <<>>
      BY <2>2 DEF ReportProcessed, MatcherInv, WorkerInv, TypeOK
    <3>2. Head(processed[w]) \in Order
      BY <3>1, HeadTailProperties
    <3>3. PICK type \in {"FILLED", "PARTIALLY_FILLED"} :
             outgoing' = Append(outgoing, MakeReport(type, wtask[w].symbol, Head(processed[w])))
      BY <2>2 DEF ReportProcessed
    <3> DEFINE r == MakeReport(type, wtask[w].symbol, Head(processed[w]))
    <3>4. r \in Report /\ ~Acknowledged(r) /\ outgoing' = Append(outgoing, r)
      BY <3>1, <3>2, <3>3, MessageFacts DEF MakeReport, Report, Acknowledged
    <3> HIDE DEF r
    <3> QED
      BY <1>1, <3>4, NoAnswerAdded
  <2> QED
    BY <2>1, <2>2 DEF MatchTwoOrders, MatchingDone, TaskNewOrderDone, reports
<1> QED
  BY <1>1, <1>2, <1>3, <1>4, WorkKeepsArrival

(* taskCancelOrder, found or not.                                           *)
LEMMA CancelKeepsArrival ==
    ASSUME MatcherInv, AnsweredInv, NEW w \in Workers,
           TaskCancelOrder(w) \/ TaskCancelOrderNotFound(w)
    PROVE  AnsweredInv' /\ (FIFOsInv /\ PipelineInv => PipelineInv')
<1> DEFINE m == Pool!Front(w)
           s == m.symbol
           book == BookOf(books, s)
<1>1. /\ arrived' = arrived /\ incoming' = incoming /\ dtask' = dtask /\ inserted' = inserted
      /\ delivered' = delivered /\ Pop(w, "CANCEL")
  BY DEF TaskCancelOrder, TaskCancelOrderNotFound, sessions, reports, workers
<1>2. m \in Messages /\ s \in Symbols /\ Pool!PopFront(w)
  BY <1>1, PopFacts
<1>3. FIFOsInv => \A v \in Workers : AtMostHeadGone(v)
  BY <1>2, PopTakesHead, RingShifts
<1>4. CASE TaskCancelOrder(w)
  <2>1. PICK found \in Find(book, m.owner, m.clientID, m.side) :
           /\ outgoing' = Append(outgoing, MakeReport("CANCELED", s, Cancel(found)))
           /\ books' = [books EXCEPT ![s] =
                            Erase((@ \ {found}) \cup {Cancel(found)}, Cancel(found))]
    BY <1>4 DEF TaskCancelOrder
  <2>2. found \in book /\ book \subseteq Order
    BY <1>2, <2>1, BookFacts DEF Find, First, Named, OnSide
  <2>3. s \in DOMAIN books /\ book = books[s]
    BY <1>2, <2>2, BookFacts
  <2> DEFINE rest == Erase((books[s] \ {found}) \cup {Cancel(found)}, Cancel(found))
             r == MakeReport("CANCELED", s, Cancel(found))
  <2>4. Cancel(found) \in Order /\ \A x \in rest : \E y \in books[s] : SameName(x, y)
    <3>1. found \in books[s] /\ books[s] \in SUBSET Order
      BY <2>2, <2>3
    <3> HIDE DEF m, s, book
    <3> QED
      BY <3>1, CancelledFacts DEF SameName
  <2>5. r \in Report /\ ~Acknowledged(r) /\ outgoing' = Append(outgoing, r)
    BY <1>2, <2>1, <2>4 DEF MakeReport, Report, Acknowledged
  <2>6. books' = [books EXCEPT ![s] = rest]
    BY <2>1, <2>3
  <2> HIDE DEF m, s, book, rest, r
  <2>7. Answers' = Answers /\ \A i \in Answers : Reports'[i] = Reports[i]
    BY <1>1, <2>5, NoAnswerAdded
  <2>8. ASSUME NEW z \in DOMAIN books', NEW x \in books'[z]
        PROVE  z \in DOMAIN books /\ \E y \in books[z] : SameName(x, y)
    <3>1. CASE z = s
      BY <2>3, <2>4, <2>6, <3>1
    <3>2. CASE z # s
      <4>1. z \in DOMAIN books /\ x \in books[z]
        BY <2>6, <3>2
      <4> QED
        BY <4>1 DEF SameName
    <3> QED
      BY <3>1, <3>2
  <2>9. NoneEnters
    BY <2>8 DEF NoneEnters
  <2> QED
    BY <1>1, <1>3, <2>7, <2>9, WorkKeepsArrival
<1>5. CASE TaskCancelOrderNotFound(w)
  <2>1. books' = WithEntry(books, s, {}) /\ outgoing' = outgoing
    BY <1>5 DEF TaskCancelOrderNotFound, reports
  <2>2. /\ DOMAIN books' = DOMAIN books \cup {s}
        /\ \A z \in DOMAIN books : books'[z] = books[z]
        /\ s \notin DOMAIN books => books'[s] = {}
    BY <1>2, <2>1, BookFacts DEF BookOf
  <2>3. NoneEnters
    BY <2>2 DEF NoneEnters, SameName
  <2>4. Answers' = Answers /\ \A i \in Answers : Reports'[i] = Reports[i]
    BY <1>1, <2>1 DEF Answers, Reports
  <2> QED
    BY <1>1, <1>3, <2>3, <2>4, WorkKeepsArrival
<1> QED
  BY <1>4, <1>5

(* cancelOrder called by the worker: the push of a cancel, in steps.        *)
LEMMA RescheduleKeepsArrival ==
    ASSUME MatcherInv, AnsweredInv, NEW w \in Workers,
           RescheduleFindsRoom(w) \/ RescheduleFills(w) \/ Reschedule(w)
    PROVE  AnsweredInv' /\ (FIFOsInv /\ PipelineInv => PipelineInv')
<1>1. /\ arrived' = arrived /\ incoming' = incoming /\ dtask' = dtask /\ inserted' = inserted
      /\ books' = books /\ Reports' = Reports /\ Answers' = Answers
  BY DEF RescheduleFindsRoom, RescheduleFills, Reschedule, sessions, dictionaries, workers,
         reports, Reports, Answers
<1>2. AnsweredInv' /\ Settled' = Settled /\ Settled \in Nat
  BY <1>1, NothingAnswered
<1>3. push[w] # Pool!Outside => wtask[w] \in Messages /\ wtask[w].type = "CANCEL"
  BY DEF MatcherInv, WorkerInv
<1>4. ASSUME FIFOsInv, PipelineInv, tasks' = tasks PROVE PipelineInv'
  BY <1>1, <1>2, <1>4, PipelineKept
<1>5. ASSUME FIFOsInv, PipelineInv, Reschedule(w) PROVE PipelineInv'
  <2>1. /\ w \in Pushers /\ Pool!StoreWrite(w) /\ push[w] # Pool!Outside
        /\ Filled(w, wtask[w])
    BY <1>5, StoreFacts DEF Reschedule, Pushers, FIFOsInv
  <2>2. \A v \in Workers : \A i \in DOMAIN tasks'[v] :
           \/ i \in DOMAIN tasks[v] /\ tasks'[v][i] = tasks[v][i]
           \/ tasks'[v][i] = wtask[w]
    BY <1>3, <1>5, <2>1, TaskAdded
  <2>3. \A v \in Workers : \A i \in DOMAIN tasks'[v] : tasks'[v][i].type = "NEW" =>
           i \in DOMAIN tasks[v] /\ tasks'[v][i] = tasks[v][i]
    BY <1>3, <2>1, <2>2
  <2>4. ASSUME NEW v \in Workers PROVE RingInv(v)'
    <3>1. RingInv(v)
      BY <1>5 DEF PipelineInv
    <3>2. ASSUME NEW i \in DOMAIN tasks'[v], tasks'[v][i].type = "NEW"
          PROVE  /\ IndicesOf(arrived, tasks'[v][i]) \cap (1..Settled) # {}
                 /\ \A j \in DOMAIN tasks'[v] : i < j /\ tasks'[v][j].type = "NEW" =>
                       AllBefore(IndicesOf(arrived, tasks'[v][i]), IndicesOf(arrived, tasks'[v][j]))
                 /\ \A s \in DOMAIN books : s = tasks'[v][i].symbol => \A x \in books[s] :
                       AllBefore(Arrivals(arrived, x), IndicesOf(arrived, tasks'[v][i]))
      BY <2>3, <3>1, <3>2 DEF RingInv
    <3> QED
      BY <1>1, <1>2, <3>2 DEF RingInv
  <2>5. \A s \in DOMAIN books' : RestingInv(s)'
    BY <1>1, <1>2, <1>5 DEF PipelineInv, RestingInv
  <2> QED
    BY <2>4, <2>5 DEF PipelineInv
<1>6. CASE RescheduleFindsRoom(w)
  <2>1. tasks' = tasks
    BY <1>6, SameRingsSameTasks DEF RescheduleFindsRoom, Pool!FindRoom
  <2> QED
    BY <1>2, <1>4, <2>1
<1>7. CASE RescheduleFills(w)
  <2>1. w \in Pushers /\ Pool!FillSlot(w, wtask[w]) /\ wtask[w] \in Messages
    BY <1>3, <1>7, OutsideStep DEF RescheduleFills, Pool!FillSlot, Pushers
  <2>2. FIFOsInv => tasks' = tasks
    BY <2>1, FillKeepsTasks
  <2> QED
    BY <1>2, <1>4, <2>2
<1> QED
  BY <1>2, <1>5, <1>6, <1>7

(* taskNewOrder inserts the order of the head of the ring, which arrived    *)
(* after all that rest in the book and before all that wait behind it.      *)
LEMMA NewOrderKeepsPipeline ==
    ASSUME MatcherInv, FIFOsInv, AnsweredInv, PipelineInv, NEW w \in Workers,
           TaskNewOrder(w)
    PROVE  PipelineInv'
<1> DEFINE m == Pool!Front(w)
           s == m.symbol
           o == OrderOf(m, inserted[s])
<1>1. /\ Pop(w, "NEW") /\ inserted' = [inserted EXCEPT ![s] = @ + 1]
      /\ books' = [WithEntry(books, s, {}) EXCEPT ![s] = @ \cup {o}]
      /\ arrived' = arrived /\ incoming' = incoming /\ dtask' = dtask
  BY DEF TaskNewOrder, sessions
<1>2. /\ m \in Messages /\ m.type = "NEW" /\ s \in Symbols /\ AtItsWorker(m, w)
      /\ tasks[w] # <<>> /\ m = Head(tasks[w]) /\ tasks'[w] = Tail(tasks[w])
      /\ \A v \in Workers \ {w} : tasks'[v] = tasks[v]
  BY <1>1, PopFacts, PopTakesHead
<1>3. Taken' = Taken /\ Settled' = Settled /\ Settled \in Nat
  BY <1>1, IncomingKept, OneArrival DEF AnsweredInv
<1>4. inserted[s] \in Nat /\ inserted \in [Symbols -> Nat]
  BY <1>2 DEF MatcherInv, TypeOK
<1>5. o.stamp = inserted[s] /\ Arrivals(arrived, o) = IndicesOf(arrived, m)
  <2>1. o.stamp = inserted[s]
    BY DEF OrderOf, NewOrder
  <2> QED
    BY <1>2, <1>4, <2>1, ArrivalOfMessage DEF AnsweredInv
<1>6. /\ DOMAIN books' = DOMAIN books \cup {s}
      /\ \A z \in DOMAIN books : z # s => books'[z] = books[z]
      /\ \A x \in books'[s] : x = o \/ (s \in DOMAIN books /\ x \in books[s])
  <2>1. /\ DOMAIN WithEntry(books, s, {}) = DOMAIN books \cup {s}
        /\ \A z \in DOMAIN books : WithEntry(books, s, {})[z] = books[z]
        /\ s \notin DOMAIN books => WithEntry(books, s, {})[s] = {}
    BY <1>2, BookFacts DEF BookOf
  <2> HIDE DEF m, s, o
  <2> QED
    BY <1>1, <2>1
<1>7. 1 \in DOMAIN tasks[w] /\ tasks[w][1] = m
  BY <1>2, HeadOfRing
<1> HIDE DEF m, s, o
<1>8. /\ IndicesOf(arrived, m) \cap (1..Settled) # {}
      /\ \A j \in DOMAIN tasks[w] : 1 < j /\ tasks[w][j].type = "NEW" =>
            AllBefore(IndicesOf(arrived, m), IndicesOf(arrived, tasks[w][j]))
      /\ s \in DOMAIN books => \A x \in books[s] :
            AllBefore(Arrivals(arrived, x), IndicesOf(arrived, m))
  BY <1>2, <1>7 DEF PipelineInv, RingInv, s
<1>9. ASSUME NEW z \in DOMAIN books', z = s PROVE RestingInv(z)'
  <2>1. s \in DOMAIN books => RestingInv(s)
    BY DEF PipelineInv
  <2>2. inserted'[s] = inserted[s] + 1
    BY <1>1, <1>2, <1>4
  <2>3. ASSUME NEW x \in books'[s]
        PROVE  x.stamp < inserted'[s] /\ Arrivals(arrived, x) \cap (1..Settled) # {}
    <3>1. CASE x = o
      BY <1>4, <1>5, <1>8, <2>2, <3>1
    <3>2. CASE s \in DOMAIN books /\ x \in books[s]
      <4>1. x.stamp < inserted[s] /\ Arrivals(arrived, x) \cap (1..Settled) # {}
        BY <2>1, <3>2 DEF RestingInv
      <4>2. x.stamp \in Nat
        BY <3>2, OrderFacts DEF MatcherInv, TypeOK
      <4> QED
        BY <1>4, <2>2, <4>1, <4>2
    <3> QED
      BY <1>6, <3>1, <3>2
  <2>4. ASSUME NEW x \in books'[s], NEW y \in books'[s], x.stamp < y.stamp
        PROVE  Earlier(arrived, x, y)
    <3>1. CASE s \in DOMAIN books /\ x \in books[s] /\ y \in books[s]
      BY <2>1, <2>4, <3>1 DEF RestingInv
    <3>2. CASE s \in DOMAIN books /\ x \in books[s] /\ y = o
      BY <1>5, <1>8, <3>2 DEF Earlier
    <3>3. CASE x = o /\ s \in DOMAIN books /\ y \in books[s]
      <4>1. y.stamp < inserted[s] /\ y.stamp \in Nat
        BY <2>1, <3>3, OrderFacts DEF RestingInv, MatcherInv, TypeOK
      <4> QED
        BY <1>4, <1>5, <2>4, <3>3, <4>1
    <3>4. CASE x = o /\ y = o
      BY <1>4, <1>5, <2>4, <3>4
    <3> QED
      BY <1>6, <3>1, <3>2, <3>3, <3>4
  <2> QED
    BY <1>1, <1>3, <1>9, <2>3, <2>4 DEF RestingInv
<1>10. ASSUME NEW z \in DOMAIN books', z # s PROVE RestingInv(z)'
  <2>1. z \in DOMAIN books /\ books'[z] = books[z] /\ inserted'[z] = inserted[z]
    BY <1>1, <1>4, <1>6, <1>10 DEF MatcherInv, TypeOK
  <2>2. RestingInv(z)
    BY <2>1 DEF PipelineInv
  <2> QED
    BY <1>1, <1>3, <2>1, <2>2 DEF RestingInv
<1>11. ASSUME NEW v \in Workers PROVE RingInv(v)'
  <2>1. AtMostHeadGone(v) /\ RingInv(v)
    BY <1>2, RingShifts DEF PipelineInv
  <2>2. PICK c \in {0, 1} : \A i \in DOMAIN tasks'[v] :
           i + c \in DOMAIN tasks[v] /\ tasks'[v][i] = tasks[v][i + c]
    BY <2>1 DEF AtMostHeadGone
  <2>3. ASSUME NEW i \in DOMAIN tasks'[v], tasks'[v][i].type = "NEW"
        PROVE  /\ IndicesOf(arrived, tasks'[v][i]) \cap (1..Settled) # {}
               /\ \A j \in DOMAIN tasks'[v] : i < j /\ tasks'[v][j].type = "NEW" =>
                     AllBefore(IndicesOf(arrived, tasks'[v][i]), IndicesOf(arrived, tasks'[v][j]))
               /\ \A z \in DOMAIN books : z = tasks'[v][i].symbol => \A x \in books[z] :
                     AllBefore(Arrivals(arrived, x), IndicesOf(arrived, tasks'[v][i]))
    <3>1. /\ i + c \in DOMAIN tasks[v] /\ tasks[v][i + c] = tasks'[v][i] /\ i \in Nat
      BY <2>1, <2>2 DEF AtMostHeadGone
    <3>2. ASSUME NEW j \in DOMAIN tasks'[v], i < j
          PROVE  j + c \in DOMAIN tasks[v] /\ tasks[v][j + c] = tasks'[v][j] /\ i + c < j + c
      <4>1. j \in Nat
        BY <2>1 DEF AtMostHeadGone
      <4> QED
        BY <2>2, <3>1, <3>2, <4>1
    <3> QED
      BY <2>1, <2>3, <3>1, <3>2 DEF RingInv
  <2>4. ASSUME NEW i \in DOMAIN tasks'[v], tasks'[v][i].type = "NEW",
               NEW z \in DOMAIN books', z = tasks'[v][i].symbol, NEW x \in books'[z]
        PROVE  AllBefore(Arrivals(arrived, x), IndicesOf(arrived, tasks'[v][i]))
    <3>1. CASE z \in DOMAIN books /\ x \in books[z]
      BY <2>3, <2>4, <3>1
    <3>2. CASE z = s /\ x = o
      <4>1. tasks'[v][i].symbol = s
        BY <2>4, <3>2
      <4>2. v = w
        <5>1. i + c \in DOMAIN tasks[v] /\ tasks[v][i + c] = tasks'[v][i]
          BY <2>2
        <5>2. AtItsWorker(tasks'[v][i], v)
          BY <5>1, TasksFacts
        <5> QED
          BY <1>2, <4>1, <5>2 DEF AtItsWorker, RingOf, s
      <4>3. i \in Nat \ {0} /\ i + 1 \in DOMAIN tasks[w] /\ tasks[w][i + 1] = tasks'[w][i]
        BY <1>2, <4>2, HeadOfRing
      <4>4. 1 < i + 1
        BY <4>3
      <4> QED
        BY <1>5, <1>8, <2>4, <3>2, <4>2, <4>3, <4>4
    <3> QED
      BY <1>6, <2>4, <3>1, <3>2
  <2> QED
    BY <1>1, <1>3, <2>3, <2>4 DEF RingInv
<1>12. \A z \in DOMAIN books' : RestingInv(z)'
  BY <1>9, <1>10
<1> QED
  BY <1>11, <1>12 DEF PipelineInv

(* The same, of what is answered too.                                       *)
LEMMA NewOrderKeepsArrival ==
    ASSUME MatcherInv, AnsweredInv, NEW w \in Workers, TaskNewOrder(w)
    PROVE  AnsweredInv' /\ (FIFOsInv /\ PipelineInv => PipelineInv')
<1>1. /\ Pop(w, "NEW") /\ arrived' = arrived /\ incoming' = incoming /\ dtask' = dtask
      /\ Reports' = Reports /\ Answers' = Answers
  BY DEF TaskNewOrder, sessions, reports, Reports, Answers
<1>2. AnsweredInv' /\ Settled' = Settled /\ Settled \in Nat
  BY <1>1, NothingAnswered
<1>3. ASSUME FIFOsInv, PipelineInv PROVE PipelineInv'
  BY <1>3, NewOrderKeepsPipeline
<1> QED
  BY <1>2, <1>3

(* The inductive invariant of the order of arrival: the answers, whatever   *)
(* the rings do, and the orders in rings that are queues.                   *)
LEMMA ArrivalStep ==
    ASSUME MatcherInv, AnsweredInv, [Next]_vars
    PROVE  AnsweredInv' /\ (FIFOsInv /\ PipelineInv => PipelineInv')
<1>1. CASE \E m \in Messages : Receive(m)
  BY <1>1, ReceiveKeepsArrival
<1>2. CASE RejectOrder \/ AcceptOrder \/ CancelOrder
  BY <1>2, DispatchKeepsArrival
<1>3. CASE SubmitFindsRoom \/ SubmitFills \/ SubmitTask
  <2>1. AnsweredInv'
    BY <1>3, SubmitKeepsAnswers
  <2>2. ASSUME FIFOsInv, PipelineInv PROVE PipelineInv'
    <3>1. CASE SubmitTask
      BY <2>2, <3>1, SubmitKeepsPipeline
    <3>2. CASE SubmitFindsRoom \/ SubmitFills
      <4>1. tasks' = tasks
        <5>1. CASE SubmitFindsRoom
          BY <5>1, SameRingsSameTasks DEF SubmitFindsRoom, Pool!FindRoom
        <5>2. CASE SubmitFills
          <6>1. Pool!FillSlot(Dispatcher, dtask) /\ dtask \in Messages
            BY <5>2, OutsideStep DEF SubmitFills, Pool!FillSlot, MatcherInv, TypeOK
          <6> QED
            BY <2>2, <6>1, FillKeepsTasks DEF Pushers
        <5> QED
          BY <3>2, <5>1, <5>2
      <4>2. /\ books' = books /\ inserted' = inserted /\ arrived' = arrived
            /\ incoming' = incoming /\ dtask' = dtask
        BY <3>2 DEF SubmitFindsRoom, SubmitFills, sessions, dictionaries, workers
      <4>3. Settled' = Settled /\ Settled \in Nat
        BY <4>2, IncomingKept, OneArrival DEF AnsweredInv
      <4> QED
        BY <2>2, <4>1, <4>2, <4>3, PipelineKept
    <3> QED
      BY <1>3, <3>1, <3>2
  <2> QED
    BY <2>1, <2>2
<1>4. ASSUME NEW w \in Workers, Work(w)
      PROVE  AnsweredInv' /\ (FIFOsInv /\ PipelineInv => PipelineInv')
  BY <1>4, NewOrderKeepsArrival, MatchingKeepsArrival, CancelKeepsArrival,
     RescheduleKeepsArrival DEF Work
<1>5. CASE Send \/ UNCHANGED vars
  <2>1. Reports' = Reports
    BY <1>5, ReportSent DEF vars, reports, Reports
  <2>2. /\ arrived' = arrived /\ incoming' = incoming /\ dtask' = dtask /\ books' = books
        /\ rings' = rings /\ inserted' = inserted /\ Answers' = Answers
    BY <1>5, <2>1 DEF vars, Send, sessions, dictionaries, workers, pool, Answers
  <2>3. NoneEnters
    BY <2>2 DEF NoneEnters, SameName
  <2>4. FIFOsInv => \A w \in Workers : AtMostHeadGone(w)
    BY <2>2, SameRingsSameTasks, RingShifts
  <2> QED
    BY <2>1, <2>2, <2>3, <2>4, WorkKeepsArrival
<1> QED
  BY <1>1, <1>2, <1>3, <1>4, <1>5 DEF Next, Dispatch

(* From the sessions to the books: what arrived first is answered first,    *)
(* and, until two pushes overlap in a ring, gets the lower stamp, in every  *)
(* ring and every book.                                                     *)
THEOREM ArrivalInvariant == Spec => []ArrivalInv
<1> DEFINE Pipeline == overlapped \/ (FIFOsInv /\ PipelineInv)
<1>1. Init => MatcherInv /\ AnsweredInv /\ Pipeline
  <2> SUFFICES ASSUME Init PROVE MatcherInv /\ AnsweredInv /\ Pipeline
    OBVIOUS
  <2>1. Len(<<>>) = 0 /\ DOMAIN <<>> = {} /\ <<>> \in Seq(Report)
    BY EmptySeq
  <2>2. Reports = <<>>
    BY <2>1, ConcatSimplifications DEF Init, Reports
  <2>3. IncomingInv
    BY <2>1 DEF Init, IncomingInv
  <2>4. Answers = {} /\ Taken = 0
    BY <2>1, <2>2 DEF Init, Answers, Taken
  <2>5. AnswerInv
    BY <2>4 DEF AnswerInv
  <2>6. MatcherInv /\ FIFOsInv
    BY MatcherInit, FIFOsInit
  <2>7. ASSUME NEW w \in Workers PROVE RingInv(w)
    <3>1. DOMAIN tasks[w] = {}
      <4>1. Pool!Used(w) = 0
        BY <2>6, UsedFacts DEF Init, Pool!RingsInit, Pool!IsEmpty
      <4> QED
        BY <2>6, <4>1, TasksFacts
    <3> QED
      BY <3>1 DEF RingInv
  <2>8. \A s \in DOMAIN books : RestingInv(s)
    BY DEF Init, RestingInv
  <2> QED
    BY <2>3, <2>5, <2>6, <2>7, <2>8 DEF AnsweredInv, PipelineInv
<1>2. MatcherInv /\ AnsweredInv /\ Pipeline /\ [Next]_vars
        => (MatcherInv /\ AnsweredInv /\ Pipeline)'
  BY MatcherStep, FIFOsStep, ArrivalStep, OverlapIsForGood
<1>3. MatcherInv /\ AnsweredInv /\ Pipeline => ArrivalInv
  BY DEF AnsweredInv, PipelineInv, ArrivalInv
<1> QED
  BY <1>1, <1>2, <1>3, PTL DEF Spec

(* Orders are answered in the order of their arrival, with no gap, and time *)
(* priority in every book is the order of arrival until a rescheduled       *)
(* cancel meets the dispatcher inside push of one ring.                     *)
THEOREM OrderOfArrivalKept == Spec => []ArrivalOrderKept
<1>1. MatcherInv /\ ArrivalInv => ArrivalOrderKept
  <2> SUFFICES ASSUME MatcherInv, ArrivalInv PROVE ArrivalOrderKept
    OBVIOUS
  <2>1. overlapped \/ BooksInOrder
    BY DEF ArrivalInv, RestingInv, BooksInOrder
  <2>2. ASSUME NEW i \in Answers, NEW k \in Arrivals(arrived, Reports[i].order),
               NEW n \in 1..k, arrived[n].type = "NEW"
        PROVE  \E j \in Answers : j <= i /\ n \in Arrivals(arrived, Reports[j].order)
    <3>1. k \in 1..Taken /\ Taken \in Nat
      BY OneArrival DEF ArrivalInv, AnswerInv
    <3>2. n \in 1..Taken
      BY <3>1
    <3>3. PICK j \in Answers : n \in Arrivals(arrived, Reports[j].order)
      BY <2>2, <3>2 DEF ArrivalInv, AnswerInv
    <3>4. i \in Nat /\ j \in Nat
      BY ReportsFacts DEF Answers
    <3>5. CASE i < j
      <4>1. k < n
        BY <3>3, <3>5 DEF ArrivalInv, AnswerInv, Earlier, AllBefore
      <4> QED
        BY <3>1, <3>2, <4>1
    <3> QED
      BY <3>3, <3>4, <3>5
  <2>3. AnswersInOrder
    BY <2>2 DEF ArrivalInv, AnswerInv, AnswersInOrder
  <2> QED
    BY <2>1, <2>3 DEF ArrivalOrderKept
<1> QED
  BY <1>1, MatcherInvariant, ArrivalInvariant, PTL

-----------------------------------------------------------------------------
(* Every book implements OrderBook *)

(* Induction over a set of numbers: the order of Nat is well founded.       *)
LEMMA SetInduction ==
    ASSUME NEW S, 0 \in S, \A n \in Nat : n \in S => n + 1 \in S
    PROVE  Nat \subseteq S
<1> DEFINE R == OpToRel(<, Nat)
<1>1. IsWellFoundedOn(R, Nat)
  BY NatLessThanWellFounded
<1>2. \A x, y \in Nat : <<x, y>> \in R <=> x < y
  BY DEF OpToRel
<1> HIDE DEF R
<1>3. SUFFICES ASSUME Nat \ S # {} PROVE FALSE
  OBVIOUS
<1>4. Nat \ S \subseteq Nat
  OBVIOUS
<1>5. PICK m \in Nat \ S : \A y \in Nat \ S : ~(<<y, m>> \in R)
  BY <1>1, <1>3, <1>4, WFMin
<1>6. m # 0 /\ m - 1 \in Nat /\ (m - 1) + 1 = m /\ m - 1 < m
  OBVIOUS
<1>7. m - 1 \in S
  BY <1>2, <1>5, <1>6
<1> QED
  BY <1>5, <1>6, <1>7

(* The number of an index in a set of indices is how many there are up to   *)
(* it.                                                                      *)
UpTo(indices, i) == {j \in indices : j <= i}

(* Sets of indices are finite.                                              *)
LEMMA IndicesFinite ==
    ASSUME NEW n \in Nat, NEW I \in SUBSET (1..n)
    PROVE  IsFiniteSet(I) /\ Cardinality(I) \in Nat
<1>1. IsFiniteSet(1..n)
  BY FS_Interval
<1>2. IsFiniteSet(I)
  BY <1>1, FS_Subset
<1> QED
  BY <1>2, FS_CardinalityType

(* An index behind all others is the last: its number is their count.       *)
LEMMA LastCounted ==
    ASSUME NEW n \in Nat, NEW I \in SUBSET (1..n), NEW last \in Nat, last > n,
           NEW J, J = I \cup {last}
    PROVE  Cardinality(J) = Cardinality(I) + 1 /\ UpTo(J, last) = J
<1>1. \A i \in I : i \in Nat /\ i < last
  OBVIOUS
<1>2. last \notin I
  BY <1>1
<1>3. Cardinality(J) = Cardinality(I) + 1
  BY <1>2, IndicesFinite, FS_AddElement
<1>4. \A i \in J : i <= last
  BY <1>1
<1> QED
  BY <1>3, <1>4 DEF UpTo

(* It gives none of them a new number.                                      *)
LEMMA OthersKeepNumber ==
    ASSUME NEW n \in Nat, NEW I \in SUBSET (1..n), NEW last \in Nat, last > n,
           NEW J, J = I \cup {last}, NEW i \in I
    PROVE  UpTo(J, i) = UpTo(I, i)
<1>1. i \in Nat /\ i < last
  OBVIOUS
<1> QED
  BY <1>1 DEF UpTo

(* Numbers go up to the count.                                              *)
LEMMA NumbersInRange ==
    ASSUME NEW n \in Nat, NEW I \in SUBSET (1..n), NEW i \in I
    PROVE  Cardinality(UpTo(I, i)) \in Nat /\ Cardinality(UpTo(I, i)) <= Cardinality(I)
<1>1. UpTo(I, i) \subseteq I
  BY DEF UpTo
<1>2. IsFiniteSet(I)
  BY IndicesFinite
<1>3. IsFiniteSet(UpTo(I, i)) /\ Cardinality(UpTo(I, i)) <= Cardinality(I)
  BY <1>1, <1>2, FS_Subset
<1> QED
  BY <1>3, FS_CardinalityType

(* A finite set of indices has a k-th one.                                  *)
LEMMA NthExists ==
    ASSUME NEW n \in Nat, NEW I \in SUBSET (1..n), NEW k \in 1..Cardinality(I)
    PROVE  \E i \in I : Cardinality(UpTo(I, i)) = k
<1> DEFINE Counted(J) == \A c \in 1..Cardinality(J) : \E i \in J : Cardinality(UpTo(J, i)) = c
           S == {q \in Nat : \A J \in SUBSET (1..q) : Counted(J)}
<1>1. 0 \in S
  <2>1. \A J \in SUBSET (1..0) : J = {}
    OBVIOUS
  <2>2. Cardinality({}) = 0
    BY FS_EmptySet
  <2>3. Counted({})
    BY <2>2
  <2> HIDE DEF Counted
  <2> QED
    BY <2>1, <2>3
<1>2. ASSUME NEW q \in Nat, q \in S
      PROVE  q + 1 \in S
  <2>1. ASSUME NEW J \in SUBSET (1..(q + 1)) PROVE Counted(J)
    <3>1. CASE J \in SUBSET (1..q)
      BY <1>2, <3>1
    <3>2. CASE q + 1 \in J
      <4>1. PICK K \in SUBSET (1..q), last \in Nat : last = q + 1 /\ J = K \cup {last}
        <5>1. J \ {q + 1} \in SUBSET (1..q) /\ J = (J \ {q + 1}) \cup {q + 1}
          BY <3>2
        <5> DEFINE K == J \ {q + 1}
               last == q + 1
        <5>2. K \in SUBSET (1..q) /\ last \in Nat /\ last = q + 1 /\ J = K \cup {last}
          BY <5>1
        <5> HIDE DEF K, last
        <5> QED
          BY <5>2
      <4>2. /\ Cardinality(K) \in Nat /\ Cardinality(J) = Cardinality(K) + 1
            /\ \A i \in K : UpTo(J, i) = UpTo(K, i)
            /\ UpTo(J, q + 1) = J
        <5>1. last > q
          BY <4>1
        <5>2. Cardinality(J) = Cardinality(K) + 1
          BY <4>1, <5>1, LastCounted
        <5>4. UpTo(J, last) = J
          BY <4>1, <5>1, LastCounted
        <5>3. \A i \in K : UpTo(J, i) = UpTo(K, i)
          BY <4>1, <5>1, OthersKeepNumber
        <5> QED
          BY <4>1, <5>2, <5>3, <5>4, IndicesFinite
      <4>3. Counted(K)
        BY <1>2, <4>1
      <4>4. ASSUME NEW c \in 1..Cardinality(J)
            PROVE  \E i \in J : Cardinality(UpTo(J, i)) = c
        <5>1. CASE c = Cardinality(J)
          BY <3>2, <4>2, <5>1
        <5>2. CASE c \in 1..Cardinality(K)
          <6>1. PICK i \in K : Cardinality(UpTo(K, i)) = c
            BY <4>3, <5>2
          <6> QED
            BY <4>1, <4>2, <6>1
        <5> QED
          BY <4>2, <5>1, <5>2
      <4> QED
        BY <4>4
    <3> QED
      BY <3>1, <3>2
  <2> HIDE DEF Counted
  <2> QED
    BY <2>1
<1>3. n \in S
  <2> HIDE DEF S
  <2> QED
    BY <1>1, <1>2, SetInduction
<1>4. Counted(I)
  BY <1>3
<1> QED
  BY <1>4

(* The k-th index is one of them,                                           *)
LEMMA NthIn ==
    ASSUME NEW n \in Nat, NEW I \in SUBSET (1..n), NEW k \in 1..Cardinality(I)
    PROVE  Nth(I, k) \in I
<1>1. \E i \in I : Cardinality(UpTo(I, i)) = k
  BY NthExists
<1>2. Nth(I, k) = CHOOSE i \in I : Cardinality(UpTo(I, i)) = k
  BY DEF Nth, UpTo
<1> QED
  BY <1>1, <1>2

(* ... which an index behind the others does not change,                    *)
LEMMA NthKept ==
    ASSUME NEW n \in Nat, NEW I \in SUBSET (1..n), NEW last \in Nat, last > n,
           NEW J, J = I \cup {last}, NEW k \in 1..Cardinality(I)
    PROVE  Nth(J, k) = Nth(I, k)
<1>1. Cardinality(I) \in Nat /\ k \in Nat /\ k <= Cardinality(I)
  BY IndicesFinite
<1>2. Cardinality(UpTo(J, last)) # k
  BY <1>1, LastCounted
<1>3. \A i \in I : UpTo(J, i) = UpTo(I, i)
  BY OthersKeepNumber
<1>4. \A i : (i \in J /\ Cardinality(UpTo(J, i)) = k) <=> (i \in I /\ Cardinality(UpTo(I, i)) = k)
  BY <1>2, <1>3
<1>5. (CHOOSE i \in J : Cardinality(UpTo(J, i)) = k)
        = (CHOOSE i \in I : Cardinality(UpTo(I, i)) = k)
  BY <1>4
<1> QED
  BY <1>5 DEF Nth, UpTo

(* ... and that one is the last.                                            *)
LEMMA NthLast ==
    ASSUME NEW n \in Nat, NEW I \in SUBSET (1..n), NEW last \in Nat, last > n,
           NEW J, J = I \cup {last}
    PROVE  Nth(J, Cardinality(I) + 1) = last
<1> DEFINE c == Cardinality(I) + 1
<1>1. Cardinality(UpTo(J, last)) = c
  BY LastCounted
<1>2. ASSUME NEW i \in I PROVE Cardinality(UpTo(J, i)) # c
  <2>1. UpTo(J, i) = UpTo(I, i)
    BY OthersKeepNumber
  <2>2. Cardinality(I) \in Nat
    BY IndicesFinite
  <2>3. Cardinality(UpTo(I, i)) \in Nat /\ Cardinality(UpTo(I, i)) <= Cardinality(I)
    BY NumbersInRange
  <2> QED
    BY <2>1, <2>2, <2>3
<1> HIDE DEF c
<1>3. \A i : (i \in J /\ Cardinality(UpTo(J, i)) = c) <=> i = last
  BY <1>1, <1>2
<1>4. (CHOOSE i \in J : Cardinality(UpTo(J, i)) = c) = last
  BY <1>3
<1>5. Nth(J, c) = last
  BY <1>4 DEF Nth, UpTo
<1> QED
  BY <1>5 DEF c

(* A report of another book, or an answer, is not a report of this book.    *)
LEMMA OthersReportsKept ==
    ASSUME NEW all, NEW n \in Nat, DOMAIN all = 1..n,
           NEW new, DOMAIN new = 1..(n + 1), \A i \in 1..n : new[i] = all[i],
           NEW s, new[n + 1].symbol # s \/ Acknowledged(new[n + 1])
    PROVE  BookReports(new, s) = BookReports(all, s)
<1> DEFINE I == OfBook(all, s)
<1>1. OfBook(new, s) = I /\ I \in SUBSET (1..n)
  <2>1. \A i \in 1..(n + 1) : i \in 1..n \/ i = n + 1
    OBVIOUS
  <2>2. \A i \in 1..n : i \in 1..(n + 1)
    OBVIOUS
  <2> QED
    BY <2>1, <2>2 DEF OfBook
<1> DEFINE c == Cardinality(I)
<1>2. \A k \in 1..c : Nth(I, k) \in I
  <2>1. n + 1 \in Nat /\ n + 1 > n
    OBVIOUS
  <2> QED
    BY <1>1, <2>1, NthIn
<1>3. /\ BookReports(all, s) = [k \in 1..c |-> BookReport(all[Nth(I, k)])]
      /\ BookReports(new, s) = [k \in 1..c |-> BookReport(new[Nth(I, k)])]
  BY <1>1 DEF BookReports
<1> HIDE DEF I, c
<1>4. \A k \in 1..c : new[Nth(I, k)] = all[Nth(I, k)]
  BY <1>1, <1>2
<1>5. [k \in 1..c |-> BookReport(new[Nth(I, k)])] = [k \in 1..c |-> BookReport(all[Nth(I, k)])]
  BY <1>4
<1> QED
  BY <1>3, <1>5

(* Of its own book it is the last.                                          *)
LEMMA OwnReportAdded ==
    ASSUME NEW all, NEW n \in Nat, DOMAIN all = 1..n,
           NEW new, DOMAIN new = 1..(n + 1), \A i \in 1..n : new[i] = all[i],
           NEW s, new[n + 1].symbol = s, ~Acknowledged(new[n + 1])
    PROVE  BookReports(new, s) = Append(BookReports(all, s), BookReport(new[n + 1]))
<1> DEFINE I == OfBook(all, s)
           last == n + 1
<1>1. OfBook(new, s) = I \cup {last} /\ I \in SUBSET (1..n)
  <2>1. \A i \in 1..(n + 1) : i \in 1..n \/ i = n + 1
    OBVIOUS
  <2>2. \A i \in 1..n : i \in 1..(n + 1)
    OBVIOUS
  <2> QED
    BY <2>1, <2>2 DEF OfBook
<1> DEFINE c == Cardinality(I)
           J == I \cup {last}
<1>2. last \in Nat /\ last > n /\ last \in 1..(n + 1)
  OBVIOUS
<1>3. c \in Nat
  BY <1>1, IndicesFinite
<1>4. Cardinality(J) = c + 1
  BY <1>1, <1>2, LastCounted
<1>5. \A k \in 1..c : Nth(I, k) \in I
  BY <1>1, <1>2, NthIn
<1>6. \A k \in 1..c : Nth(J, k) = Nth(I, k)
  BY <1>1, <1>2, NthKept
<1>7. Nth(J, c + 1) = last
  BY <1>1, <1>2, NthLast
<1> DEFINE e(k) == BookReport(all[Nth(I, k)])
           f(k) == BookReport(new[Nth(J, k)])
           rs == [k \in 1..c |-> e(k)]
           r == BookReport(new[last])
<1>8. BookReports(all, s) = rs /\ BookReports(new, s) = [k \in 1..(c + 1) |-> f(k)]
  BY <1>1, <1>4 DEF BookReports
<1>9. \A k \in 1..c : f(k) = e(k)
  <2> HIDE DEF c, J
  <2> QED
    BY <1>1, <1>5, <1>6
<1>10. f(c + 1) = r
  BY <1>7
<1> HIDE DEF I, J, c, last, e, f, r
<1>11. Append(rs, r) = [k \in 1..(c + 1) |-> f(k)]
  <2> DEFINE T == {e(k) : k \in 1..c} \cup {r}
             t == [k \in 1..(c + 1) |-> f(k)]
  <2>1. \A k \in 1..(c + 1) : k \in 1..c \/ k = c + 1
    BY <1>3
  <2>2. \A k \in 1..c : k \in 1..(c + 1)
    BY <1>3
  <2>3. \A k \in 1..c : e(k) \in T
    OBVIOUS
  <2>4. \A k \in 1..(c + 1) : f(k) \in T
    BY <1>9, <1>10, <2>1, <2>3
  <2>5. r \in T
    OBVIOUS
  <2> HIDE DEF T
  <2>6. rs \in Seq(T) /\ Len(rs) = c
    BY <1>3, <2>3
  <2>7. t \in Seq(T) /\ Len(t) = c + 1
    BY <1>3, <2>4
  <2> HIDE DEF rs, t
  <2>8. /\ Append(rs, r) \in Seq(T) /\ Len(Append(rs, r)) = c + 1
        /\ \A k \in 1..c : Append(rs, r)[k] = rs[k]
        /\ Append(rs, r)[c + 1] = r
    BY <2>5, <2>6, AppendProperties
  <2> USE DEF rs, t
  <2>9. \A k \in 1..(c + 1) : Append(rs, r)[k] = t[k]
    BY <1>9, <1>10, <2>1, <2>2, <2>8
  <2> HIDE DEF rs, t
  <2>10. Append(rs, r) = t
    BY <2>7, <2>8, <2>9, SeqEqual
  <2> QED
    BY <2>10 DEF t
<1> QED
  BY <1>8, <1>11 DEF r, last

(* The two lemmas, for the report that a step enqueues.                     *)
LEMMA ReportOfBook ==
    ASSUME MatcherInv, NEW r \in Report,
           outgoing' = Append(outgoing, r), delivered' = delivered, NEW s
    PROVE  /\ r.symbol # s \/ Acknowledged(r) =>
                 BookReports(Reports', s) = BookReports(Reports, s)
           /\ r.symbol = s /\ ~Acknowledged(r) =>
                 BookReports(Reports', s) = Append(BookReports(Reports, s), BookReport(r))
<1>1. /\ Len(Reports) \in Nat /\ DOMAIN Reports = 1..Len(Reports)
      /\ DOMAIN Reports' = 1..(Len(Reports) + 1)
      /\ \A i \in DOMAIN Reports : Reports'[i] = Reports[i]
      /\ Reports'[Len(Reports) + 1] = r
  BY ReportsFacts, ReportAdded
<1>2. \A i \in 1..Len(Reports) : Reports'[i] = Reports[i]
  BY <1>1
<1>3. ASSUME r.symbol # s \/ Acknowledged(r)
      PROVE  BookReports(Reports', s) = BookReports(Reports, s)
  BY <1>1, <1>2, <1>3, OthersReportsKept
<1>4. ASSUME r.symbol = s, ~Acknowledged(r)
      PROVE  BookReports(Reports', s) = Append(BookReports(Reports, s), BookReport(r))
  BY <1>1, <1>2, <1>4, OwnReportAdded
<1> QED
  BY <1>3, <1>4

(* A book has one worker inside, or none.                                   *)
LEMMA OneInside ==
    ASSUME MatcherInv, NEW w \in Workers, wpc[w] \in {"matching", "reporting"},
           NEW s, wtask[w].symbol = s
    PROVE  InBook(s) = {w} /\ PcOf(s) = wpc[w] /\ ProcessedOf(s) = processed[w]
<1>1. AtItsWorker(wtask[w], w)
  BY DEF MatcherInv, WorkerInv
<1>2. ASSUME NEW v \in InBook(s) PROVE v = w
  <2>1. v \in Workers /\ wpc[v] # "idle" /\ wtask[v].symbol = s
    BY DEF InBook
  <2>2. AtItsWorker(wtask[v], v)
    BY <2>1 DEF MatcherInv, WorkerInv
  <2> QED
    BY <1>1, <2>1, <2>2 DEF AtItsWorker, RingOf
<1>3. w \in InBook(s)
  BY DEF InBook
<1>4. InBook(s) = {w}
  BY <1>2, <1>3
<1> QED
  BY <1>4 DEF PcOf, ProcessedOf, WorkerOf

(* While an idle worker has a task of a book, nobody is inside.             *)
LEMMA NobodyInside ==
    ASSUME MatcherInv, NEW w \in Workers, wpc[w] = "idle",
           NEW m \in Messages, AtItsWorker(m, w)
    PROVE  InBook(m.symbol) = {} /\ PcOf(m.symbol) = "idle" /\ ProcessedOf(m.symbol) = <<>>
<1>1. ASSUME NEW v \in InBook(m.symbol) PROVE FALSE
  <2>1. v \in Workers /\ wpc[v] # "idle" /\ wtask[v].symbol = m.symbol
    BY DEF InBook
  <2>2. AtItsWorker(wtask[v], v)
    BY <2>1 DEF MatcherInv, WorkerInv
  <2> QED
    BY <2>1, <2>2 DEF AtItsWorker, RingOf
<1>2. InBook(m.symbol) = {}
  BY <1>1
<1> QED
  BY <1>2 DEF PcOf, ProcessedOf

(* A step of threads that are not inside a book, and none gets in.          *)
LEMMA BookStutters ==
    ASSUME NEW s \in Symbols, InBook(s)' = InBook(s),
           \A w \in InBook(s) : wpc'[w] = wpc[w] /\ processed'[w] = processed[w],
           BookOf(books', s) = BookOf(books, s), inserted'[s] = inserted[s],
           BookReports(Reports', s) = BookReports(Reports, s)
    PROVE  UNCHANGED Book(s)!vars
<1>1. PcOf(s)' = PcOf(s) /\ ProcessedOf(s)' = ProcessedOf(s)
  <2>1. CASE InBook(s) = {}
    BY <2>1 DEF PcOf, ProcessedOf
  <2>2. CASE InBook(s) # {}
    <3>1. WorkerOf(s) \in InBook(s) /\ WorkerOf(s)' = WorkerOf(s)
      BY <2>2 DEF WorkerOf
    <3> QED
      BY <2>2, <3>1 DEF PcOf, ProcessedOf
  <2> QED
    BY <2>1, <2>2
<1> QED
  BY <1>1 DEF Book!vars

(* The sessions, the dispatcher and the processor only see books from       *)
(* outside; answers are not reports of a book.                              *)
LEMMA OutsideStutters ==
    ASSUME MatcherInv, (\E m \in Messages : Receive(m)) \/ Dispatch \/ Send,
           NEW s \in Symbols
    PROVE  UNCHANGED Book(s)!vars
<1>1. UNCHANGED <<books, workers>>
  BY DEF Dispatch, Receive, RejectOrder, AcceptOrder, CancelOrder, SubmitFindsRoom,
         SubmitFills, SubmitTask, Send, dictionaries
<1>2. /\ InBook(s)' = InBook(s) /\ inserted'[s] = inserted[s]
      /\ \A w \in InBook(s) : wpc'[w] = wpc[w] /\ processed'[w] = processed[w]
      /\ BookOf(books', s) = BookOf(books, s)
  BY <1>1 DEF workers, InBook
<1>3. BookReports(Reports', s) = BookReports(Reports, s)
  <2>1. CASE \/ (\E m \in Messages : Receive(m)) \/ CancelOrder
             \/ SubmitFindsRoom \/ SubmitFills \/ SubmitTask
    <3>1. Reports' = Reports
      BY <2>1
      DEF Receive, CancelOrder, SubmitFindsRoom, SubmitFills, SubmitTask, reports, Reports
    <3> QED
      BY <3>1
  <2>2. CASE RejectOrder \/ AcceptOrder
    <3>1. PICK type \in {"REJECTED", "ACCEPTED"} :
             /\ NextMessage("NEW") /\ incoming # <<>>
             /\ outgoing' = Append(outgoing,
                    MakeReport(type, Head(incoming).symbol, OrderOf(Head(incoming), 0)))
             /\ delivered' = delivered
      BY <2>2 DEF RejectOrder, AcceptOrder, NextMessage
    <3> DEFINE r == MakeReport(type, Head(incoming).symbol, OrderOf(Head(incoming), 0))
    <3>2. Head(incoming) \in Messages /\ Head(incoming).type = "NEW"
      BY <3>1, HeadOfIncoming DEF NextMessage
    <3>3. r \in Report /\ Acknowledged(r)
      BY <3>1, <3>2, MessageFacts DEF MakeReport, Report, Acknowledged
    <3> HIDE DEF r
    <3>4. outgoing' = Append(outgoing, r) /\ delivered' = delivered
      BY <3>1 DEF r
    <3> QED
      BY <3>3, <3>4, ReportOfBook
  <2>3. CASE Send
    BY <2>3, ReportSent
  <2> QED
    BY <2>1, <2>2, <2>3 DEF Dispatch
<1> QED
  BY <1>2, <1>3, BookStutters

(* The instance brings the operators of OrderBookOps along under its name.  *)
LEMMA SameOperators ==
    ASSUME NEW s
    PROVE  /\ \A o : Book(s)!ExecutionReport(o) =
                 [type |-> IF IsFilled(o) THEN "FILLED" ELSE "PARTIALLY_FILLED", order |-> o]
           /\ \A book, bid, ask : Book(s)!Crossing(book, bid, ask) <=> Crossing(book, bid, ask)
           /\ \A book, bid, ask : Book(s)!AfterMatch(book, bid, ask) = AfterMatch(book, bid, ask)
           /\ \A bid, ask : Book(s)!MatchedBid(bid, ask) = MatchedBid(bid, ask)
           /\ \A bid, ask : Book(s)!MatchedAsk(bid, ask) = MatchedAsk(bid, ask)
           /\ \A book : Book(s)!MatchingOver(book) <=> MatchingOver(book)
           /\ \A book, m, n, side : Book(s)!Find(book, m, n, side) = Find(book, m, n, side)
           /\ \A book, o : Book(s)!Erase(book, o) = Erase(book, o)
           /\ \A o : Book(s)!Cancel(o) = Cancel(o)
           /\ \A owner, id, side, price, quantity, stamp :
                 Book(s)!NewOrder(owner, id, side, price, quantity, stamp)
                    = NewOrder(owner, id, side, price, quantity, stamp)
<1>1. \A book : Book(s)!Bids(book) = Bids(book) /\ Book(s)!Asks(book) = Asks(book)
  BY DEF Book!Bids, Book!Asks, Book!OnSide, Bids, Asks, OnSide
<1>2. \A orders : Book(s)!First(orders) = First(orders)
  BY DEF Book!First, Book!Before, First, Before
<1>3. \A book, m, n, side : Book(s)!Named(book, m, n, side) = Named(book, m, n, side)
  BY DEF Book!Named, Book!OnSide, Named, OnSide
<1>4. \A o : Book(s)!IsFilled(o) <=> IsFilled(o)
  BY DEF Book!IsFilled, IsFilled
<1>5. \A o, price, quantity : Book(s)!Execute(o, price, quantity) = Execute(o, price, quantity)
  BY DEF Book!Execute, Execute
<1>6. \A bid, ask : Book(s)!MatchQuantity(bid, ask) = MatchQuantity(bid, ask)
  BY DEF Book!MatchQuantity, MatchQuantity
<1>7. \A book, bid, ask : Book(s)!Crossing(book, bid, ask) <=> Crossing(book, bid, ask)
  BY <1>1, <1>2 DEF Book!Crossing, Crossing
<1>8. \A bid, ask : Book(s)!MatchedBid(bid, ask) = MatchedBid(bid, ask)
  BY <1>5, <1>6 DEF Book!MatchedBid, MatchedBid
<1>9. \A bid, ask : Book(s)!MatchedAsk(bid, ask) = MatchedAsk(bid, ask)
  BY <1>5, <1>6 DEF Book!MatchedAsk, MatchedAsk
<1>10. \A orders : Book(s)!Unfilled(orders) = Unfilled(orders)
  BY <1>4 DEF Book!Unfilled, Unfilled
<1>11. \A book, bid, ask : Book(s)!AfterMatch(book, bid, ask) = AfterMatch(book, bid, ask)
  BY <1>8, <1>9, <1>10 DEF Book!AfterMatch, AfterMatch
<1>12. \A book : Book(s)!MatchingOver(book) <=> MatchingOver(book)
  BY <1>1, <1>2 DEF Book!MatchingOver, MatchingOver
<1>13. \A book, m, n, side : Book(s)!Find(book, m, n, side) = Find(book, m, n, side)
  BY <1>2, <1>3 DEF Book!Find, Find
<1>14. \A book, o : Book(s)!Erase(book, o) = Erase(book, o)
  BY <1>13 DEF Book!Erase, Erase
<1>15. \A o : Book(s)!Cancel(o) = Cancel(o)
  BY DEF Book!Cancel, Cancel
<1>16. \A owner, id, side, price, quantity, stamp :
          Book(s)!NewOrder(owner, id, side, price, quantity, stamp)
             = NewOrder(owner, id, side, price, quantity, stamp)
  BY DEF Book!NewOrder, NewOrder
<1>17. \A o : Book(s)!ExecutionReport(o) =
          [type |-> IF IsFilled(o) THEN "FILLED" ELSE "PARTIALLY_FILLED", order |-> o]
  BY <1>4 DEF Book!ExecutionReport
<1> QED
  BY <1>7, <1>8, <1>9, <1>11, <1>12, <1>13, <1>14, <1>15, <1>16, <1>17

(* The report that taskNewOrder makes next.                                 *)
LEMMA NextReport ==
    ASSUME MatcherInv, NEW w \in Workers, ReportProcessed(w)
    PROVE  /\ Head(processed[w]) \in Order /\ wtask[w].symbol \in Symbols
           /\ \E r \in Report :
                 /\ r.symbol = wtask[w].symbol /\ ~Acknowledged(r)
                 /\ outgoing' = Append(outgoing, r) /\ delivered' = delivered
                 /\ BookReport(r) = Book(wtask[w].symbol)!ExecutionReport(Head(processed[w]))
<1>1. /\ wtask[w] \in Messages /\ processed \in [Workers -> Seq(Order)]
      /\ processed[w] \in Seq(Order) /\ processed[w] # <<>>
  BY DEF ReportProcessed, MatcherInv, WorkerInv, TypeOK
<1>2. Head(processed[w]) \in Order /\ wtask[w].symbol \in Symbols
  BY <1>1, HeadTailProperties, MessageFacts
<1> DEFINE o == Head(processed[w])
           type == IF IsFilled(o) THEN "FILLED" ELSE "PARTIALLY_FILLED"
           r == MakeReport(type, wtask[w].symbol, o)
<1>3. r \in Report /\ r.symbol = wtask[w].symbol /\ ~Acknowledged(r)
  BY <1>2 DEF MakeReport, Report, Acknowledged
<1>4. BookReport(r) = Book(wtask[w].symbol)!ExecutionReport(o)
  BY SameOperators DEF BookReport, MakeReport
<1>5. outgoing' = Append(outgoing, r) /\ delivered' = delivered
  BY DEF ReportProcessed
<1> QED
  BY <1>2, <1>3, <1>4, <1>5

(* taskNewOrder touches no other book.                                      *)
LEMMA OtherBooksStutter ==
    ASSUME MatcherInv, NEW w \in Workers,
           MatchTwoOrders(w) \/ MatchingDone(w) \/ ReportProcessed(w) \/ TaskNewOrderDone(w),
           NEW z \in Symbols, z # wtask[w].symbol
    PROVE  UNCHANGED Book(z)!vars
<1>1. ASSUME NEW v \in Workers \ {w}
      PROVE  wpc'[v] = wpc[v] /\ wtask'[v] = wtask[v] /\ processed'[v] = processed[v]
  BY DEF MatchTwoOrders, MatchingDone, ReportProcessed, TaskNewOrderDone, MatcherInv, TypeOK
<1>2. w \notin InBook(z)
  BY DEF InBook
<1>3. wtask' = wtask \/ wpc'[w] = "idle"
  BY DEF MatchTwoOrders, MatchingDone, ReportProcessed, TaskNewOrderDone, MatcherInv, TypeOK
<1>4. InBook(z)' = InBook(z)
  <2>1. w \notin InBook(z)'
    BY <1>3 DEF InBook
  <2>2. \A v \in Workers \ {w} : v \in InBook(z)' <=> v \in InBook(z)
    BY <1>1 DEF InBook
  <2>3. InBook(z) \subseteq Workers /\ InBook(z)' \subseteq Workers
    BY DEF InBook
  <2> QED
    BY <1>2, <2>1, <2>2, <2>3
<1>5. \A v \in InBook(z) : wpc'[v] = wpc[v] /\ processed'[v] = processed[v]
  BY <1>1, <1>2 DEF InBook
<1>6. inserted' = inserted
  BY DEF MatchTwoOrders, MatchingDone, ReportProcessed, TaskNewOrderDone
<1>7. BookOf(books', z) = BookOf(books, z)
  <2>1. CASE books' = books
    BY <2>1
  <2>2. CASE MatchTwoOrders(w)
    <3>1. DOMAIN books' = DOMAIN books /\ (z \in DOMAIN books => books'[z] = books[z])
      BY <2>2 DEF MatchTwoOrders
    <3>2. z \notin DOMAIN books => BookOf(books', z) = {} /\ BookOf(books, z) = {}
      BY <3>1 DEF BookOf, WithEntry
    <3> QED
      BY <3>1, <3>2 DEF BookOf, WithEntry
  <2> QED
    BY <2>1, <2>2 DEF MatchingDone, ReportProcessed, TaskNewOrderDone, dictionaries
<1>8. BookReports(Reports', z) = BookReports(Reports, z)
  <2>1. CASE ReportProcessed(w)
    <3>1. PICK r \in Report : /\ r.symbol = wtask[w].symbol
                              /\ outgoing' = Append(outgoing, r) /\ delivered' = delivered
      BY <2>1, NextReport
    <3> QED
      BY <3>1, ReportOfBook
  <2>2. CASE UNCHANGED reports
    <3>1. Reports' = Reports
      BY <2>2 DEF reports, Reports
    <3> QED
      BY <3>1
  <2> QED
    BY <2>1, <2>2 DEF MatchTwoOrders, MatchingDone, TaskNewOrderDone, reports
<1> QED
  BY <1>4, <1>5, <1>6, <1>7, <1>8, BookStutters

(* In its own book it does what OrderBook says.                             *)
LEMMA MatchingOfBook ==
    ASSUME MatcherInv, NEW w \in Workers, MatchTwoOrders(w) \/ MatchingDone(w),
           NEW s, s = wtask[w].symbol
    PROVE  Book(s)!MatchTwoOrders \/ Book(s)!MatchingDone
<1>1. /\ wpc[w] = "matching" /\ s \in DOMAIN books /\ s \in Symbols
      /\ wpc \in [Workers -> {"idle", "matching", "reporting", "resubmitting"}]
      /\ processed \in [Workers -> Seq(Order)] /\ wtask[w] \in Messages
  BY MessageFacts DEF MatchTwoOrders, MatchingDone, MatcherInv, WorkerInv, TypeOK
<1>2. InBook(s) = {w} /\ PcOf(s) = wpc[w] /\ ProcessedOf(s) = processed[w]
  BY <1>1, OneInside
<1>3. BookOf(books, s) = books[s]
  BY <1>1, BookFacts
<1>4. UNCHANGED <<wtask, inserted, reports>>
  BY DEF MatchTwoOrders, MatchingDone
<1>5. BookReports(Reports', s) = BookReports(Reports, s)
  BY <1>4 DEF reports, Reports
<1>6. CASE MatchTwoOrders(w)
  <2>1. InBook(s)' = {w} /\ wpc' = wpc
    BY <1>2, <1>4, <1>6 DEF MatchTwoOrders, InBook
  <2>2. PcOf(s)' = wpc[w] /\ ProcessedOf(s)' = processed'[w]
    BY <2>1 DEF PcOf, ProcessedOf, WorkerOf
  <2>3. PICK bid \in books[s], ask \in books[s] :
           /\ Crossing(books[s], bid, ask)
           /\ books' = [books EXCEPT ![s] = AfterMatch(books[s], bid, ask)]
           /\ processed' = [processed EXCEPT
                  ![w] = processed[w] \o <<MatchedBid(bid, ask), MatchedAsk(bid, ask)>>]
    BY <1>6 DEF MatchTwoOrders
  <2>4. processed'[w] = processed[w] \o <<MatchedBid(bid, ask), MatchedAsk(bid, ask)>>
    BY <1>1, <2>3
  <2>5. BookOf(books', s) = AfterMatch(books[s], bid, ask)
    <3>1. s \in DOMAIN books' /\ books'[s] = AfterMatch(books[s], bid, ask)
      BY <1>1, <2>3
    <3> QED
      BY <3>1 DEF BookOf, WithEntry
  <2>6. PcOf(s) = "matching" /\ UNCHANGED <<inserted[s], PcOf(s), BookReports(Reports, s)>>
    BY <1>1, <1>2, <1>4, <1>5, <2>2
  <2>7. Book(s)!Crossing(BookOf(books, s), bid, ask)
    BY <1>3, <2>3, SameOperators
  <2>8. BookOf(books, s)' = Book(s)!AfterMatch(BookOf(books, s), bid, ask)
    BY <1>3, <2>5, SameOperators
  <2>9. ProcessedOf(s)'
          = ProcessedOf(s) \o <<Book(s)!MatchedBid(bid, ask), Book(s)!MatchedAsk(bid, ask)>>
    BY <1>2, <2>2, <2>4, SameOperators
  <2> QED
    BY <1>3, <2>6, <2>7, <2>8, <2>9 DEF Book!MatchTwoOrders
<1>7. CASE MatchingDone(w)
  <2>1. wpc' = [wpc EXCEPT ![w] = "reporting"] /\ books' = books /\ processed' = processed
    BY <1>7 DEF MatchingDone, dictionaries
  <2>2. InBook(s)' = {w}
    <3>1. wpc'[w] = "reporting" /\ \A v \in Workers \ {w} : wpc'[v] = wpc[v]
      BY <1>1, <2>1
    <3> QED
      BY <1>2, <1>4, <3>1 DEF InBook
  <2>3. PcOf(s)' = "reporting" /\ ProcessedOf(s)' = processed[w]
    BY <1>1, <2>1, <2>2 DEF PcOf, ProcessedOf, WorkerOf
  <2>4. MatchingOver(books[s])
    BY <1>7 DEF MatchingDone
  <2>5. Book(s)!MatchingDone
    BY <1>1, <1>2, <1>3, <1>4, <1>5, <2>1, <2>3, <2>4, SameOperators
    DEF Book!MatchingDone
  <2> QED
    BY <2>5
<1> QED
  BY <1>6, <1>7

(* So do its reports.                                                       *)
LEMMA ReportingOfBook ==
    ASSUME MatcherInv, NEW w \in Workers, ReportProcessed(w) \/ TaskNewOrderDone(w),
           NEW s, s = wtask[w].symbol
    PROVE  Book(s)!ReportProcessed \/ Book(s)!TaskNewOrderDone
<1>1. /\ wpc[w] = "reporting" /\ processed \in [Workers -> Seq(Order)]
      /\ wpc \in [Workers -> {"idle", "matching", "reporting", "resubmitting"}]
      /\ wtask \in [Workers -> Messages \cup {NoTask}]
  BY DEF ReportProcessed, TaskNewOrderDone, MatcherInv, TypeOK
<1>2. InBook(s) = {w} /\ PcOf(s) = "reporting" /\ ProcessedOf(s) = processed[w]
  BY <1>1, OneInside
<1>3. BookOf(books, s)' = BookOf(books, s) /\ inserted' = inserted
  <2>1. books' = books /\ inserted' = inserted
    BY DEF ReportProcessed, TaskNewOrderDone, dictionaries
  <2> QED
    BY <2>1
<1>4. CASE ReportProcessed(w)
  <2>1. wpc' = wpc /\ wtask' = wtask /\ processed' = [processed EXCEPT ![w] = Tail(processed[w])]
    BY <1>4 DEF ReportProcessed
  <2>2. InBook(s)' = {w}
    BY <1>2, <2>1 DEF InBook
  <2>3. PcOf(s)' = "reporting" /\ ProcessedOf(s)' = Tail(processed[w])
    BY <1>1, <2>1, <2>2 DEF PcOf, ProcessedOf, WorkerOf
  <2>4. BookReports(Reports, s)'
          = Append(BookReports(Reports, s), Book(s)!ExecutionReport(Head(processed[w])))
    <3>1. PICK r \in Report :
             /\ r.symbol = s /\ ~Acknowledged(r)
             /\ outgoing' = Append(outgoing, r) /\ delivered' = delivered
             /\ BookReport(r) = Book(s)!ExecutionReport(Head(processed[w]))
      BY <1>4, NextReport
    <3>2. BookReports(Reports', s) = Append(BookReports(Reports, s), BookReport(r))
      BY <3>1, ReportOfBook
    <3> QED
      BY <3>1, <3>2
  <2>5. processed[w] # <<>>
    BY <1>4 DEF ReportProcessed
  <2>6. Book(s)!ReportProcessed
    BY <1>2, <1>3, <2>3, <2>4, <2>5 DEF Book!ReportProcessed
  <2> QED
    BY <2>6
<1>5. CASE TaskNewOrderDone(w)
  <2>1. /\ wpc' = [wpc EXCEPT ![w] = "idle"] /\ wtask' = [wtask EXCEPT ![w] = NoTask]
        /\ processed[w] = <<>>
    BY <1>5 DEF TaskNewOrderDone
  <2>2. InBook(s)' = {}
    <3>1. /\ wpc'[w] = "idle"
          /\ \A v \in Workers \ {w} : wpc'[v] = wpc[v] /\ wtask'[v] = wtask[v]
      BY <1>1, <2>1
    <3> QED
      BY <1>2, <3>1 DEF InBook
  <2>3. PcOf(s)' = "idle" /\ ProcessedOf(s)' = <<>>
    BY <2>2 DEF PcOf, ProcessedOf
  <2>4. BookReports(Reports, s)' = BookReports(Reports, s)
    <3>1. Reports' = Reports
      BY <1>5 DEF TaskNewOrderDone, reports, Reports
    <3> QED
      BY <3>1
  <2>5. Book(s)!TaskNewOrderDone
    BY <1>2, <1>3, <2>1, <2>3, <2>4 DEF Book!TaskNewOrderDone
  <2> QED
    BY <2>5
<1> QED
  BY <1>4, <1>5

(* A new order goes into the book of its symbol, where nobody else is.      *)
LEMMA NewOrderOfBook ==
    ASSUME MatcherInv, NEW w \in Workers, TaskNewOrder(w), NEW z \in Symbols
    PROVE  Book(z)!TaskNewOrder \/ UNCHANGED Book(z)!vars
<1> DEFINE m == Pool!Front(w)
           s == m.symbol
<1>1. Pop(w, "NEW")
  BY DEF TaskNewOrder
<1>2. /\ wpc[w] = "idle" /\ m \in Messages /\ m.type = "NEW" /\ s \in Symbols
      /\ AtItsWorker(m, w)
  BY <1>1, PopFacts
<1>3. /\ books' = [WithEntry(books, s, {}) EXCEPT
                      ![s] = WithEntry(books, s, {})[s] \cup {OrderOf(m, inserted[s])}]
      /\ inserted' = [inserted EXCEPT ![s] = inserted[s] + 1]
      /\ processed' = [processed EXCEPT ![w] = <<>>]
      /\ wpc' = [wpc EXCEPT ![w] = "matching"]
      /\ wtask' = [wtask EXCEPT ![w] = m]
      /\ UNCHANGED reports
  BY DEF TaskNewOrder
<1>4. InBook(s) = {} /\ PcOf(s) = "idle" /\ ProcessedOf(s) = <<>>
  BY <1>2, NobodyInside
<1>5. /\ m.owner \in Owners /\ m.clientID \in ClientIDs /\ m.side \in Sides
      /\ m.price \in Prices /\ m.quantity \in Quantities
  BY <1>2, MessageFacts
<1>6. OrderOf(m, inserted[s])
        = NewOrder(m.owner, m.clientID, m.side, m.price, m.quantity, inserted[s])
  BY DEF OrderOf
<1> HIDE DEF m
<1>7. /\ wpc'[w] = "matching" /\ wtask'[w] = m /\ processed'[w] = <<>>
      /\ \A v \in Workers \ {w} :
            wpc'[v] = wpc[v] /\ wtask'[v] = wtask[v] /\ processed'[v] = processed[v]
  BY <1>3 DEF MatcherInv, TypeOK
<1>8. BookReports(Reports, z)' = BookReports(Reports, z)
  <2>1. Reports' = Reports
    BY <1>3 DEF reports, Reports
  <2> QED
    BY <2>1
<1>9. inserted[s] \in Nat /\ inserted'[s] = inserted[s] + 1
      /\ \A y \in Symbols \ {s} : inserted'[y] = inserted[y]
  BY <1>2, <1>3 DEF MatcherInv, TypeOK
<1>10. /\ DOMAIN WithEntry(books, s, {}) = DOMAIN books \cup {s}
       /\ \A y \in DOMAIN books : WithEntry(books, s, {})[y] = books[y]
  BY <1>2, BookFacts
<1>11. CASE z = s
  <2>1. InBook(z)' = {w}
    <3>1. \A v \in Workers \ {w} : v \notin InBook(z)'
      BY <1>4, <1>7, <1>11 DEF InBook
    <3>2. w \in InBook(z)' /\ InBook(z)' \subseteq Workers
      BY <1>7, <1>11 DEF InBook
    <3> QED
      BY <3>1, <3>2
  <2>2. PcOf(z)' = "matching" /\ ProcessedOf(z)' = <<>>
    BY <1>7, <2>1 DEF PcOf, ProcessedOf, WorkerOf
  <2>3. BookOf(books, z)' = BookOf(books, z) \cup {OrderOf(m, inserted[s])}
    <3> DEFINE new == WithEntry(books, s, {})
    <3>1. s \in DOMAIN new /\ BookOf(books, z) = new[s]
      BY <1>10, <1>11 DEF BookOf
    <3>2. books' = [new EXCEPT ![s] = new[s] \cup {OrderOf(m, inserted[s])}]
      BY <1>3
    <3> HIDE DEF new
    <3>3. s \in DOMAIN books' /\ books'[s] = new[s] \cup {OrderOf(m, inserted[s])}
      BY <3>1, <3>2
    <3> HIDE DEF s
    <3>4. BookOf(books', z) = new[s] \cup {OrderOf(m, inserted[s])}
      BY <1>11, <3>3 DEF BookOf, WithEntry
    <3> QED
      BY <3>1, <3>4
  <2>4. Book(z)!Insert(Book(z)!NewOrder(m.owner, m.clientID, m.side, m.price, m.quantity,
                                        inserted[z]))
    <3>1. BookOf(books, z)' = BookOf(books, z) \cup
             {Book(z)!NewOrder(m.owner, m.clientID, m.side, m.price, m.quantity, inserted[s])}
      BY <1>6, <2>3, SameOperators
    <3> QED
      BY <1>4, <1>8, <1>9, <1>11, <2>2, <3>1 DEF Book!Insert
  <2>5. \E owner \in Owners, id \in ClientIDs, side \in Sides, price \in Prices,
           quantity \in Quantities :
           Book(z)!Insert(Book(z)!NewOrder(owner, id, side, price, quantity, inserted[z]))
    BY <1>5, <2>4
  <2>6. Book(z)!TaskNewOrder
    BY <2>5 DEF Book!TaskNewOrder, Book!Sides, Sides
  <2> QED
    BY <1>11, <2>6
<1>12. CASE z # s
  <2>1. w \notin InBook(z) /\ w \notin InBook(z)'
    BY <1>2, <1>7, <1>12 DEF InBook
  <2>2. \A v \in Workers \ {w} : v \in InBook(z)' <=> v \in InBook(z)
    BY <1>7 DEF InBook
  <2>3. InBook(z) \subseteq Workers /\ InBook(z)' \subseteq Workers
    BY DEF InBook
  <2>4. InBook(z)' = InBook(z)
    BY <2>1, <2>2, <2>3
  <2>5. \A v \in InBook(z) : wpc'[v] = wpc[v] /\ processed'[v] = processed[v]
    BY <1>7, <2>1, <2>3
  <2>6. BookOf(books', z) = BookOf(books, z)
    <3> DEFINE new == WithEntry(books, s, {})
    <3>1. DOMAIN books' = DOMAIN new /\ (z \in DOMAIN new => books'[z] = new[z])
      BY <1>3, <1>12
    <3> HIDE DEF s
    <3>2. z \in DOMAIN books' <=> z \in DOMAIN books
      BY <1>10, <1>12, <3>1
    <3>3. z \in DOMAIN books => books'[z] = books[z]
      BY <1>10, <3>1
    <3> QED
      BY <3>2, <3>3 DEF BookOf, WithEntry
  <2>7. inserted'[z] = inserted[z]
    BY <1>9, <1>12
  <2>8. UNCHANGED Book(z)!vars
    BY <1>8, <2>4, <2>5, <2>6, <2>7, BookStutters
  <2> QED
    BY <2>8
<1> QED
  BY <1>11, <1>12

(* A cancel takes the order out of the book of its symbol, where nobody is. *)
LEMMA CancelOfBook ==
    ASSUME MatcherInv, NEW w \in Workers, TaskCancelOrder(w), NEW z \in Symbols
    PROVE  Book(z)!TaskCancelOrder \/ UNCHANGED Book(z)!vars
<1> DEFINE m == Pool!Front(w)
           s == m.symbol
<1>1. Pop(w, "CANCEL")
  BY DEF TaskCancelOrder
<1>2. /\ wpc[w] = "idle" /\ m \in Messages /\ s \in Symbols /\ AtItsWorker(m, w)
      /\ m.owner \in Owners /\ m.clientID \in ClientIDs /\ m.side \in Sides
  BY <1>1, PopFacts, MessageFacts
<1>3. PICK found \in Find(BookOf(books, s), m.owner, m.clientID, m.side) :
         /\ outgoing' = Append(outgoing, MakeReport("CANCELED", s, Cancel(found)))
         /\ books' = [books EXCEPT
                ![s] = Erase((books[s] \ {found}) \cup {Cancel(found)}, Cancel(found))]
         /\ UNCHANGED <<workers, delivered>>
  BY DEF TaskCancelOrder
<1> HIDE DEF m
<1>4. s \in DOMAIN books /\ BookOf(books, s) = books[s] /\ found \in books[s]
  <2>1. found \in BookOf(books, s)
    BY <1>3 DEF Find, First, Named, OnSide
  <2> QED
    BY <1>2, <2>1, BookFacts
<1>5. /\ Cancel(found) \in Order
      /\ outgoing' = Append(outgoing, MakeReport("CANCELED", s, Cancel(found)))
  <2>1. books[s] \subseteq Order
    BY <1>4 DEF MatcherInv, TypeOK
  <2> QED
    BY <1>3, <1>4, <2>1, CancelledFacts
<1> DEFINE r == MakeReport("CANCELED", s, Cancel(found))
<1>6. /\ r \in Report /\ r.symbol = s /\ ~Acknowledged(r)
      /\ BookReport(r) = [type |-> "CANCELED", order |-> Cancel(found)]
  BY <1>2, <1>5 DEF MakeReport, Report, Acknowledged, BookReport
<1>7. outgoing' = Append(outgoing, r) /\ delivered' = delivered
  BY <1>3, <1>5
<1> HIDE DEF r
<1>8. /\ InBook(z)' = InBook(z) /\ PcOf(z)' = PcOf(z) /\ ProcessedOf(z)' = ProcessedOf(z)
      /\ inserted' = inserted
  BY <1>3 DEF workers, InBook, PcOf, ProcessedOf, WorkerOf
<1>9. CASE z = s
  <2>1. PcOf(z) = "idle"
    BY <1>2, <1>9, NobodyInside
  <2>2. BookOf(books, z)'
          = Book(z)!Erase((BookOf(books, z) \ {found}) \cup {Book(z)!Cancel(found)},
                          Book(z)!Cancel(found))
    <3> DEFINE left == Erase((books[s] \ {found}) \cup {Cancel(found)}, Cancel(found))
    <3>1. s \in DOMAIN books' /\ books'[s] = left
      BY <1>3, <1>4
    <3>2. BookOf(books', z) = left
      BY <1>9, <3>1 DEF BookOf, WithEntry
    <3> QED
      BY <1>4, <1>9, <3>2, SameOperators
  <2>3. BookReports(Reports, z)'
          = Append(BookReports(Reports, z), [type |-> "CANCELED", order |-> Book(z)!Cancel(found)])
    <3>1. BookReports(Reports', z) = Append(BookReports(Reports, z), BookReport(r))
      BY <1>6, <1>7, <1>9, ReportOfBook
    <3> QED
      BY <1>6, <3>1, SameOperators
  <2>4. found \in Book(z)!Find(BookOf(books, z), m.owner, m.clientID, m.side)
    BY <1>3, <1>9, SameOperators
  <2>5. Book(z)!CancelFound(m.owner, m.clientID, m.side)
    BY <2>2, <2>3, <2>4 DEF Book!CancelFound
  <2>6. UNCHANGED <<inserted[z], PcOf(z), ProcessedOf(z)>>
    BY <1>8, <1>9
  <2>7. Book(z)!TaskCancelOrder
    BY <1>2, <2>1, <2>5, <2>6 DEF Book!TaskCancelOrder, Book!Sides, Sides
  <2> QED
    BY <1>9, <2>7
<1>10. CASE z # s
  <2>1. BookOf(books', z) = BookOf(books, z)
    <3>1. DOMAIN books' = DOMAIN books /\ (z \in DOMAIN books => books'[z] = books[z])
      BY <1>3, <1>10
    <3> QED
      BY <3>1 DEF BookOf, WithEntry
  <2>2. BookReports(Reports', z) = BookReports(Reports, z)
    BY <1>6, <1>7, <1>10, ReportOfBook
  <2>3. UNCHANGED Book(z)!vars
    BY <1>8, <2>1, <2>2 DEF Book!vars
  <2> QED
    BY <2>3
<1> QED
  BY <1>9, <1>10

(* A cancel that finds nothing leaves every book as it was: the book it may *)
(* A cancel that finds no order, and is pushed again, in steps.             *)
Resubmits(w) ==
    \/ TaskCancelOrderNotFound(w)
    \/ RescheduleFindsRoom(w) \/ RescheduleFills(w) \/ Reschedule(w)

LEMMA ResubmitFacts ==
    ASSUME MatcherInv, NEW w \in Workers, Resubmits(w)
    PROVE  /\ wpc[w] \in {"idle", "resubmitting"} /\ wpc'[w] \in {"idle", "resubmitting"}
           /\ \A v \in Workers \ {w} : wpc'[v] = wpc[v] /\ wtask'[v] = wtask[v]
           /\ UNCHANGED <<inserted, processed, outgoing, delivered, dtask>>
           /\ books' = books \/ \E s \in Symbols : books' = WithEntry(books, s, {})
<1>1. /\ wpc \in [Workers -> {"idle", "matching", "reporting", "resubmitting"}]
      /\ wtask \in [Workers -> Messages \cup {NoTask}]
      /\ push[w] # Pool!Outside => wpc[w] = "resubmitting"
  BY DEF MatcherInv, TypeOK, WorkerInv
<1>2. CASE TaskCancelOrderNotFound(w)
  <2>1. Pool!Front(w).symbol \in Symbols /\ wpc[w] = "idle"
    BY <1>2, PopFacts DEF TaskCancelOrderNotFound
  <2> QED
    BY <1>1, <1>2, <2>1 DEF TaskCancelOrderNotFound, reports
<1>3. CASE RescheduleFindsRoom(w) \/ RescheduleFills(w)
  <2>1. wpc[w] = "resubmitting"
    BY <1>1, <1>3, OutsideStep DEF RescheduleFindsRoom, RescheduleFills, Pool!FillSlot
  <2> QED
    BY <1>3, <2>1 DEF RescheduleFindsRoom, RescheduleFills, dictionaries, workers, reports
<1>4. CASE Reschedule(w)
  <2>1. wpc[w] = "resubmitting"
    BY <1>1, <1>4, OutsideStep DEF Reschedule, Pool!StoreWrite
  <2> QED
    BY <1>1, <1>4, <2>1 DEF Reschedule, dictionaries, reports
<1> QED
  BY <1>2, <1>3, <1>4 DEF Resubmits

(* make is the empty one of a symbol that had none.                         *)
LEMMA NotFoundStutters ==
    ASSUME MatcherInv, NEW w \in Workers, Resubmits(w), NEW z \in Symbols
    PROVE  UNCHANGED Book(z)!vars
<1>1. /\ wpc[w] \in {"idle", "resubmitting"} /\ wpc'[w] \in {"idle", "resubmitting"}
      /\ \A v \in Workers \ {w} : wpc'[v] = wpc[v] /\ wtask'[v] = wtask[v]
      /\ UNCHANGED <<inserted, processed, outgoing, delivered>>
      /\ books' = books \/ \E s : books' = WithEntry(books, s, {})
  BY ResubmitFacts
<1>2. InBook(z)' = InBook(z)
  <2>1. w \notin InBook(z) /\ w \notin InBook(z)'
    BY <1>1 DEF InBook
  <2>2. \A v \in Workers \ {w} : v \in InBook(z)' <=> v \in InBook(z)
    BY <1>1 DEF InBook
  <2>3. InBook(z) \subseteq Workers /\ InBook(z)' \subseteq Workers
    BY DEF InBook
  <2> QED
    BY <2>1, <2>2, <2>3
<1>3. \A v \in InBook(z) : wpc'[v] = wpc[v] /\ processed'[v] = processed[v]
  BY <1>1 DEF InBook
<1>4. BookOf(books', z) = BookOf(books, z)
  BY <1>1 DEF BookOf, WithEntry
<1>5. BookReports(Reports', z) = BookReports(Reports, z)
  <2>1. Reports' = Reports
    BY <1>1 DEF Reports
  <2> QED
    BY <2>1
<1> QED
  BY <1>1, <1>2, <1>3, <1>4, <1>5, BookStutters

(* No book has an order, a worker inside or a report at first.              *)
LEMMA BookInit ==
    ASSUME Init, NEW s \in Symbols
    PROVE  Book(s)!Init
<1>1. BookOf(books, s) = {}
  BY DEF Init, BookOf, WithEntry
<1>2. inserted[s] = 0 /\ InBook(s) = {}
  BY DEF Init, InBook
<1>3. PcOf(s) = "idle" /\ ProcessedOf(s) = <<>>
  BY <1>2 DEF PcOf, ProcessedOf
<1>4. BookReports(Reports, s) = <<>>
  <2>1. Reports = <<>> /\ DOMAIN <<>> = {}
    BY DEF Init, Reports
  <2>2. OfBook(Reports, s) = {}
    BY <2>1 DEF OfBook
  <2>3. 1..Cardinality({}) = {}
    BY FS_EmptySet
  <2> QED
    BY <2>2, <2>3 DEF BookReports
<1> QED
  BY <1>1, <1>2, <1>3, <1>4 DEF Book!Init

(* Every step of the matcher is one of the book or leaves it alone.         *)
LEMMA BookStep ==
    ASSUME MatcherInv, Next, NEW s \in Symbols
    PROVE  Book(s)!Next \/ UNCHANGED Book(s)!vars
<1>1. CASE (\E m \in Messages : Receive(m)) \/ Dispatch \/ Send
  BY <1>1, OutsideStutters
<1>2. ASSUME NEW w \in Workers, Work(w)
      PROVE  Book(s)!Next \/ UNCHANGED Book(s)!vars
  <2>1. CASE TaskNewOrder(w)
    BY <2>1, NewOrderOfBook DEF Book!Next
  <2>2. CASE MatchTwoOrders(w) \/ MatchingDone(w)
    <3>1. CASE s = wtask[w].symbol
      BY <2>2, <3>1, MatchingOfBook DEF Book!Next, Book!Work
    <3>2. CASE s # wtask[w].symbol
      BY <2>2, <3>2, OtherBooksStutter
    <3> QED
      BY <3>1, <3>2
  <2>3. CASE ReportProcessed(w) \/ TaskNewOrderDone(w)
    <3>1. CASE s = wtask[w].symbol
      BY <2>3, <3>1, ReportingOfBook DEF Book!Next, Book!Work
    <3>2. CASE s # wtask[w].symbol
      BY <2>3, <3>2, OtherBooksStutter
    <3> QED
      BY <3>1, <3>2
  <2>4. CASE TaskCancelOrder(w)
    BY <2>4, CancelOfBook DEF Book!Next
  <2>5. CASE Resubmits(w)
    BY <2>5, NotFoundStutters
  <2> QED
    BY <1>2, <2>1, <2>2, <2>3, <2>4, <2>5 DEF Work, Resubmits
<1> QED
  BY <1>1, <1>2 DEF Next

(* Every symbol's book behaves as OrderBook says, although three kinds of   *)
(* thread are involved: each step of the matcher is a step of a book or     *)
(* leaves it alone.                                                         *)
THEOREM BooksAreOrderBooks == Spec => BooksImplementOrderBook
<1>1. Init => \A s \in Symbols : Book(s)!Init
  BY BookInit
<1>2. MatcherInv /\ [Next]_vars => [\A s \in Symbols : Book(s)!Next \/ UNCHANGED Book(s)!vars]_vars
  BY BookStep
<1> QED
  BY <1>1, <1>2, MatcherInvariant, PTL DEF Spec, BooksImplementOrderBook

(* The same of one symbol's book, as the implementation of a specification: *)
(* whatever holds of OrderBook!Spec holds of the book of every symbol.      *)
THEOREM EveryBookIsOrderBook ==
    ASSUME NEW s \in Symbols
    PROVE  Spec => Book(s)!Spec
<1>1. Init => Book(s)!Init
  BY BookInit
<1>2. ASSUME MatcherInv, UNCHANGED vars PROVE UNCHANGED Book(s)!vars
  <2>1. UNCHANGED <<books, inserted, wpc, wtask, processed, outgoing, delivered>>
    BY <1>2 DEF vars, workers, dictionaries, reports
  <2>2. Reports' = Reports /\ InBook(s)' = InBook(s)
    BY <2>1 DEF Reports, InBook
  <2> QED
    BY <2>1, <2>2, BookStutters
<1>3. MatcherInv /\ [Next]_vars => [Book(s)!Next]_(Book(s)!vars)
  BY <1>2, BookStep
<1> QED
  BY <1>1, <1>3, MatcherInvariant, PTL DEF Spec, Book!Spec

-----------------------------------------------------------------------------
(* The life of an order *)

(* A ClOrdID is one order's.                                                *)
LEMMA OneMessage ==
    ASSUME NEW x, NEW m \in NewMessages, NEW n \in NewMessages, SameOrder(x, m), SameOrder(x, n)
    PROVE  m = n
BY MessagesAssumption DEF SameOrder

(* What a report that is added means for the orders it is not about, ...    *)
LEMMA OthersTold ==
    ASSUME NEW all, NEW n \in Nat, DOMAIN all = 1..n,
           NEW new, DOMAIN new = 1..(n + 1), \A i \in 1..n : new[i] = all[i],
           NEW o, ~SameOrder(new[n + 1].order, o)
    PROVE  /\ About(new, o) = About(all, o)
           /\ StillOpen(all, o) => StillOpen(new, o)
<1>1. \A i \in 1..(n + 1) : i \in 1..n \/ i = n + 1
  OBVIOUS
<1>2. \A i \in 1..n : i \in 1..(n + 1)
  OBVIOUS
<1>3. About(new, o) = About(all, o) /\ About(all, o) \subseteq 1..n
  BY <1>1, <1>2 DEF About, IsAbout
<1> QED
  BY <1>3 DEF StillOpen

(* ... and for the one it is about.                                         *)
LEMMA NextTold ==
    ASSUME NEW all, NEW n \in Nat, DOMAIN all = 1..n,
           NEW new, DOMAIN new = 1..(n + 1), \A i \in 1..n : new[i] = all[i],
           NEW o, SameOrder(new[n + 1].order, o)
    PROVE  About(new, o) = About(all, o) \cup {n + 1} /\ About(all, o) \subseteq 1..n
<1>1. \A i \in 1..(n + 1) : i \in 1..n \/ i = n + 1
  OBVIOUS
<1>2. \A i \in 1..n : i \in 1..(n + 1)
  OBVIOUS
<1> QED
  BY <1>1, <1>2 DEF About, IsAbout

(* The story goes on if the new report continues it.                        *)
LEMMA ToldOn ==
    ASSUME NEW all, NEW n \in Nat, DOMAIN all = 1..n,
           NEW new, DOMAIN new = 1..(n + 1), \A i \in 1..n : new[i] = all[i],
           ToldInv(all), NEW s \in Symbols, IsOrderOf(new[n + 1].order, s),
           Continues(all, About(all, new[n + 1].order), new[n + 1])
    PROVE  ToldInv(new)
<1>1. \A i \in 1..(n + 1) : i \in 1..n \/ i = n + 1
  OBVIOUS
<1>2. \A i \in 1..n : i \in 1..(n + 1) /\ i < n + 1 /\ \A j \in 1..(n + 1) : j < i => j \in 1..n
  OBVIOUS
<1> DEFINE Prior(some, j) == {i \in About(some, some[j].order) : i < j}
<1>3. ASSUME NEW j \in 1..n PROVE Prior(new, j) = Prior(all, j) /\ Prior(all, j) \subseteq 1..n
  BY <1>2 DEF About, IsAbout
<1>4. Prior(new, n + 1) = About(all, new[n + 1].order) /\ Prior(new, n + 1) \subseteq 1..n
  <2>1. ~(n + 1 < n + 1)
    OBVIOUS
  <2> QED
    BY <1>1, <1>2, <2>1 DEF About, IsAbout
<1>5. ASSUME NEW told \in SUBSET (1..n), NEW r
      PROVE  Continues(new, told, r) <=> Continues(all, told, r)
  BY DEF Continues, Executed
<1> HIDE DEF Prior
<1>6. ASSUME NEW j \in 1..(n + 1)
      PROVE  Continues(new, Prior(new, j), new[j]) /\ \E z \in Symbols : IsOrderOf(new[j].order, z)
  <2>1. CASE j = n + 1
    BY <1>4, <1>5, <2>1
  <2>2. CASE j \in 1..n
    <3>1. Continues(all, Prior(all, j), all[j]) /\ \E z \in Symbols : IsOrderOf(all[j].order, z)
      BY <2>2 DEF ToldInv, Prior
    <3>2. Continues(new, Prior(all, j), all[j])
      BY <1>3, <1>5, <2>2, <3>1
    <3> QED
      BY <1>3, <2>2, <3>1, <3>2
  <2> QED
    BY <1>1, <2>1, <2>2
<1> QED
  BY <1>6 DEF ToldInv, Prior

(* The copies are the members of the queues of processed orders.            *)
LEMMA CopiesFacts ==
    ASSUME NEW queues, NEW o, NEW c
    PROVE  c \in CopiesOf(queues, o)
              <=> SameOrder(c, o) /\ \E w \in Workers : \E i \in DOMAIN queues[w] : c = queues[w][i]
BY DEF CopiesOf, ToSet

(* The first report of an order is its answer.                              *)
LEMMA AnsweredFirst ==
    ASSUME MatcherInv, LifeInv, NEW o, About(Reports, o) # {}
    PROVE  \E i \in Answers : SameOrder(Reports[i].order, o)
<1>1. PICK j \in DOMAIN Reports : SameOrder(Reports[j].order, o)
  BY DEF About, IsAbout
<1> DEFINE told == {i \in About(Reports, Reports[j].order) : i < j}
<1>2. Continues(Reports, told, Reports[j])
  BY <1>1 DEF LifeInv, ToldInv
<1>3. CASE Acknowledged(Reports[j])
  BY <1>1, <1>3 DEF Answers
<1>4. CASE ~Acknowledged(Reports[j])
  <2>1. PICK i \in told : Acknowledged(Reports[i])
    BY <1>2, <1>4 DEF Continues
  <2>2. i \in DOMAIN Reports /\ SameOrder(Reports[i].order, Reports[j].order)
    BY DEF About, IsAbout
  <2> QED
    BY <1>1, <2>1, <2>2 DEF Answers, SameOrder
<1> QED
  BY <1>3, <1>4

(* So an order that the dispatcher has not taken has no reports.            *)
LEMMA NothingToldYet ==
    ASSUME MatcherInv, AnsweredInv, LifeInv, NEW m \in NewMessages,
           NEW k \in DOMAIN arrived, arrived[k] = m, k > Taken
    PROVE  About(Reports, m) = {}
<1>1. SUFFICES ASSUME About(Reports, m) # {} PROVE FALSE
  OBVIOUS
<1>2. PICK i \in Answers : SameOrder(Reports[i].order, m)
  BY <1>1, AnsweredFirst
<1>3. PICK n \in Arrivals(arrived, Reports[i].order) : n \in 1..Taken
  BY DEF AnsweredInv, AnswerInv
<1>4. n \in DOMAIN arrived /\ arrived[n] \in Messages /\ arrived[n].type = "NEW"
      /\ SameOrder(arrived[n], m)
  BY <1>2, OneArrival DEF Arrivals, AnsweredInv, SameOrder
<1>5. arrived[n] = m
  BY <1>4, MessageFacts, OneMessage DEF SameOrder
<1>6. n = k
  BY <1>4, <1>5, OneArrival DEF IndicesOf, AnsweredInv
<1> QED
  BY <1>3, <1>6, OneArrival DEF AnsweredInv

(* Steps that make no report and no copy, and bring no order into a book.   *)
LEMMA LifeKept ==
    ASSUME LifeInv, Reports' = Reports, processed' = processed,
           \A w \in Workers : wpc'[w] \in {"idle", "resubmitting"} => processed[w] = <<>>,
           \A w \in Workers : processed[w] # <<>> => wtask'[w] = wtask[w],
           \A s \in DOMAIN books' :
              books'[s] = {} \/ (s \in DOMAIN books /\ books'[s] = books[s]),
           \A m \in NewMessages :
              dtask' = m \/ (\E w \in Workers : m \in ToSet(tasks'[w]))
                 => dtask = m \/ (\E w \in Workers : m \in ToSet(tasks[w]))
    PROVE  LifeInv'
<1>1. ToldInv(Reports')
  BY DEF LifeInv
<1>2. ASSUME NEW m \in NewMessages PROVE WaitingInv(m)'
  BY DEF LifeInv, WaitingInv
<1>3. ASSUME NEW w \in Workers, NEW i \in DOMAIN processed'[w] PROVE CopyInv(w, i)'
  <2>1. processed[w] # <<>>
    BY <1>3
  <2> QED
    BY <1>3, <2>1 DEF LifeInv, CopyInv
<1>4. ASSUME NEW s \in DOMAIN books', NEW x \in books'[s] PROVE RestsOpen(s, x)'
  <2>1. s \in DOMAIN books /\ books'[s] = books[s]
    BY <1>4
  <2>2. RestsOpen(s, x)
    BY <1>4, <2>1 DEF LifeInv
  <2> QED
    BY <2>1, <2>2 DEF RestsOpen
<1>5. \A w \in Workers : wpc'[w] \in {"idle", "resubmitting"} => processed'[w] = <<>>
  OBVIOUS
<1> QED
  BY <1>1, <1>2, <1>3, <1>4, <1>5 DEF LifeInv

(* The initial state.                                                       *)
LEMMA LifeInit == Init => LifeInv
<1> SUFFICES ASSUME Init PROVE LifeInv
  OBVIOUS
<1>1. Reports = <<>> /\ DOMAIN Reports = {}
  BY DEF Init, Reports
<1>2. \A w \in Workers : processed[w] = <<>> /\ tasks[w] = <<>>
  <2>1. MatcherInv /\ FIFOsInv
    BY MatcherInit, FIFOsInit
  <2>2. ASSUME NEW w \in Workers PROVE tasks[w] = <<>>
    <3>1. rings[w].write = 0 /\ rings[w].read = 0
      BY DEF Init, Pool!RingsInit
    <3>2. Len(tasks[w]) = 0 /\ tasks[w] \in Seq(Messages)
      BY <2>1, <3>1, UsedFacts, TasksFacts DEF Pool!IsEmpty
    <3> QED
      BY <3>2, EmptySeq
  <2> QED
    BY <2>2 DEF Init
<1>3. \A m \in NewMessages : ~(dtask = m \/ (\E w \in Workers : m \in ToSet(tasks[w])))
  <2>1. \A m \in NewMessages : m # NoTask
    BY MessageFacts DEF NewMessages
  <2> QED
    BY <1>2, <2>1 DEF Init, ToSet
<1>4. \A s \in DOMAIN books : books[s] = {}
  BY DEF Init
<1> QED
  BY <1>1, <1>2, <1>3, <1>4 DEF LifeInv, ToldInv, WaitingInv

(* What waits, after a push and after a pop.                                *)
LEMMA WaitingAfterPush ==
    ASSUME MatcherInv, FIFOsInv, NEW p \in Pushers, NEW q \in Messages,
           Pool!StoreWrite(p), Filled(p, q),
           NEW m, NEW w \in Workers, m \in ToSet(tasks'[w])
    PROVE  m = q \/ m \in ToSet(tasks[w])
<1>1. PICK i \in DOMAIN tasks'[w] : m = tasks'[w][i]
  BY DEF ToSet
<1>2. \/ i \in DOMAIN tasks[w] /\ tasks'[w][i] = tasks[w][i]
      \/ tasks'[w][i] = q
  BY TaskAdded
<1> QED
  BY <1>1, <1>2 DEF ToSet

(* A pop only takes away.                                                   *)
LEMMA WaitingAfterPop ==
    ASSUME MatcherInv, FIFOsInv, NEW v \in Workers, Pool!PopFront(v),
           NEW m, NEW w \in Workers, m \in ToSet(tasks'[w])
    PROVE  m \in ToSet(tasks[w])
<1>1. PICK i \in DOMAIN tasks'[w] : m = tasks'[w][i]
  BY DEF ToSet
<1>2. CASE w = v
  <2>1. tasks[v] # <<>> /\ tasks'[v] = Tail(tasks[v])
    BY PopTakesHead
  <2>2. i + 1 \in DOMAIN tasks[v] /\ m = tasks[v][i + 1]
    BY <1>1, <1>2, <2>1, HeadOfRing
  <2> QED
    BY <1>2, <2>2 DEF ToSet
<1>3. CASE w # v
  <2>1. tasks'[w] = tasks[w]
    BY <1>3, PopTakesHead
  <2> QED
    BY <2>1
<1> QED
  BY <1>2, <1>3

(* The dispatcher's steps into and inside push leave what is in the rings.  *)
LEMMA BeforeTheStore ==
    ASSUME MatcherInv, FIFOsInv,
           SubmitFindsRoom \/ SubmitFills
           \/ \E w \in Workers : RescheduleFindsRoom(w) \/ RescheduleFills(w)
    PROVE  tasks' = tasks
<1>1. CASE SubmitFindsRoom \/ \E w \in Workers : RescheduleFindsRoom(w)
  <2>1. rings' = rings
    BY <1>1 DEF SubmitFindsRoom, RescheduleFindsRoom, Pool!FindRoom
  <2> QED
    BY <2>1, SameRingsSameTasks
<1>2. CASE SubmitFills
  <2>1. push[Dispatcher] # Pool!Outside
    BY <1>2, OutsideStep DEF SubmitFills, Pool!FillSlot
  <2>2. dtask \in Messages
    BY <2>1 DEF MatcherInv, TypeOK
  <2> QED
    BY <1>2, <2>2, FillKeepsTasks DEF SubmitFills, Pushers
<1>3. ASSUME NEW w \in Workers, RescheduleFills(w) PROVE tasks' = tasks
  <2>1. push[w] # Pool!Outside
    BY <1>3, OutsideStep DEF RescheduleFills, Pool!FillSlot
  <2>2. wtask[w] \in Messages
    BY <2>1 DEF MatcherInv, WorkerInv
  <2> QED
    BY <1>3, <2>2, FillKeepsTasks DEF RescheduleFills, Pushers
<1> QED
  BY <1>1, <1>2, <1>3

(* The steps that make no report and no copy.                               *)
LEMMA OutsideKeepsLife ==
    ASSUME MatcherInv, FIFOsInv, LifeInv,
           \/ \E m \in Messages : Receive(m)
           \/ CancelOrder \/ SubmitFindsRoom \/ SubmitFills \/ SubmitTask
           \/ Send
    PROVE  LifeInv'
<1>1. Reports' = Reports
  <2>1. CASE Send
    BY <2>1, ReportSent
  <2> QED
    BY <2>1 DEF Receive, CancelOrder, SubmitFindsRoom, SubmitFills, SubmitTask,
                reports, Reports
<1>2. processed' = processed /\ wpc' = wpc /\ wtask' = wtask /\ books' = books
  BY DEF Receive, CancelOrder, SubmitFindsRoom, SubmitFills, SubmitTask, Send,
         dictionaries, workers
<1>3. ASSUME NEW m \in NewMessages,
             dtask' = m \/ (\E w \in Workers : m \in ToSet(tasks'[w]))
      PROVE  dtask = m \/ (\E w \in Workers : m \in ToSet(tasks[w]))
  <2>1. m \in Messages /\ m.type = "NEW" /\ m # NoTask
    BY MessageFacts DEF NewMessages
  <2>2. CASE CancelOrder
    <3>1. dtask' # m /\ pool' = pool
      BY <2>1, <2>2 DEF CancelOrder, NextMessage
    <3>2. tasks' = tasks
      BY <3>1, PoolKept, SameRingsSameTasks
    <3> QED
      BY <1>3, <3>1, <3>2
  <2>3. CASE SubmitTask
    <3>0. Pool!StoreWrite(Dispatcher) /\ dtask' = NoTask
      BY <2>3 DEF SubmitTask
    <3>1. dtask \in Messages /\ Filled(Dispatcher, dtask) /\ Dispatcher \in Pushers
      <4>1. push[Dispatcher] # Pool!Outside
        BY <3>0, OutsideStep DEF Pool!StoreWrite
      <4> QED
        BY <4>1 DEF MatcherInv, TypeOK, FIFOsInv, Pushers
    <3>2. PICK w \in Workers : m \in ToSet(tasks'[w])
      BY <1>3, <2>1, <3>0
    <3> QED
      BY <3>0, <3>1, <3>2, WaitingAfterPush
  <2>4. CASE UNCHANGED <<dtask, tasks>>
    BY <1>3, <2>4
  <2>5. CASE SubmitFindsRoom \/ SubmitFills
    <3>1. tasks' = tasks /\ dtask' = dtask
      BY <2>5, BeforeTheStore DEF SubmitFindsRoom, SubmitFills
    <3> QED
      BY <2>4, <3>1
  <2>6. CASE (\E q \in Messages : Receive(q)) \/ Send
    <3>1. pool' = pool /\ dtask' = dtask
      BY <2>6 DEF Receive, Send
    <3>2. tasks' = tasks
      BY <3>1, PoolKept, SameRingsSameTasks
    <3> QED
      BY <2>4, <3>1, <3>2
  <2> QED
    BY <2>2, <2>3, <2>5, <2>6
<1>4. \A w \in Workers : wpc[w] \in {"idle", "resubmitting"} => processed[w] = <<>>
  BY DEF LifeInv
<1> QED
  BY <1>1, <1>2, <1>3, <1>4, LifeKept

(* A cancel that finds nothing, and its push back on the ring.              *)
LEMMA NotFoundKeepsLife ==
    ASSUME MatcherInv, FIFOsInv, LifeInv, NEW w \in Workers, Resubmits(w)
    PROVE  LifeInv'
<1>1. /\ wpc[w] \in {"idle", "resubmitting"}
      /\ \A v \in Workers \ {w} : wpc'[v] = wpc[v] /\ wtask'[v] = wtask[v]
      /\ UNCHANGED <<processed, outgoing, delivered, dtask>>
      /\ books' = books \/ \E s \in Symbols : books' = WithEntry(books, s, {})
  BY ResubmitFacts
<1>2. Reports' = Reports
  BY <1>1 DEF Reports
<1>3. processed[w] = <<>> /\ \A v \in Workers : wpc[v] \in {"idle", "resubmitting"} => processed[v] = <<>>
  BY <1>1 DEF LifeInv
<1>4. ASSUME NEW s \in DOMAIN books'
      PROVE  books'[s] = {} \/ (s \in DOMAIN books /\ books'[s] = books[s])
  BY <1>1, <1>4 DEF WithEntry
<1>5. ASSUME NEW m \in NewMessages, NEW v \in Workers, m \in ToSet(tasks'[v])
      PROVE  m \in ToSet(tasks[v])
  <2>1. CASE TaskCancelOrderNotFound(w)
    <3>1. Pool!PopFront(w)
      BY <2>1 DEF TaskCancelOrderNotFound, Pop
    <3> QED
      BY <1>5, <3>1, WaitingAfterPop
  <2>2. CASE RescheduleFindsRoom(w) \/ RescheduleFills(w)
    <3>1. tasks' = tasks
      BY <2>2, BeforeTheStore
    <3> QED
      BY <1>5, <3>1
  <2>3. CASE Reschedule(w)
    <3>1. Pool!StoreWrite(w) /\ w \in Pushers
      BY <2>3 DEF Reschedule, Pushers
    <3>2. push[w] # Pool!Outside
      BY <3>1, OutsideStep DEF Pool!StoreWrite
    <3>3. /\ wtask[w] \in Messages /\ wtask[w].type = "CANCEL"
          /\ Filled(w, wtask[w])
      BY <3>2 DEF MatcherInv, WorkerInv, FIFOsInv
    <3>4. m # wtask[w]
      BY <3>3 DEF NewMessages
    <3> QED
      BY <1>5, <3>1, <3>3, <3>4, WaitingAfterPush
  <2> QED
    BY <2>1, <2>2, <2>3 DEF Resubmits
<1>6. \A v \in Workers : wpc'[v] \in {"idle", "resubmitting"} => processed[v] = <<>>
  BY <1>1, <1>3
<1>7. \A v \in Workers : processed[v] # <<>> => wtask'[v] = wtask[v]
  BY <1>1, <1>3
<1> QED
  BY <1>1, <1>2, <1>4, <1>5, <1>6, <1>7, LifeKept

(* The ends of the matching loop and of taskNewOrder.                       *)
LEMMA DoneKeepsLife ==
    ASSUME MatcherInv, LifeInv, NEW w \in Workers, MatchingDone(w) \/ TaskNewOrderDone(w)
    PROVE  LifeInv'
<1>1. /\ wpc \in [Workers -> {"idle", "matching", "reporting", "resubmitting"}]
      /\ wtask \in [Workers -> Messages \cup {NoTask}]
  BY DEF MatcherInv, TypeOK
<1>2. /\ \A v \in Workers \ {w} : wpc'[v] = wpc[v] /\ wtask'[v] = wtask[v]
      /\ UNCHANGED <<processed, reports, dtask, books>> /\ pool' = pool
      /\ (wpc'[w] = "reporting" /\ wtask' = wtask) \/ processed[w] = <<>>
  BY <1>1 DEF MatchingDone, TaskNewOrderDone, dictionaries
<1>3. Reports' = Reports /\ tasks' = tasks
  BY <1>2, PoolKept, SameRingsSameTasks DEF reports, Reports
<1>4. \A v \in Workers : wpc[v] \in {"idle", "resubmitting"} => processed[v] = <<>>
  BY DEF LifeInv
<1>5. \A v \in Workers : wpc'[v] \in {"idle", "resubmitting"} => processed[v] = <<>>
  BY <1>2, <1>4
<1>6. \A v \in Workers : processed[v] # <<>> => wtask'[v] = wtask[v]
  BY <1>2
<1> QED
  BY <1>2, <1>3, <1>5, <1>6, LifeKept

(* A report that continues the story of its order, and the other orders.    *)
LEMMA ReportContinues ==
    ASSUME MatcherInv, LifeInv, NEW r \in Report,
           outgoing' = Append(outgoing, r), delivered' = delivered,
           NEW z \in Symbols, IsOrderOf(r.order, z),
           Continues(Reports, About(Reports, r.order), r)
    PROVE  /\ ToldInv(Reports')
           /\ \A o : ~SameOrder(r.order, o) =>
                 /\ About(Reports', o) = About(Reports, o)
                 /\ StillOpen(Reports, o) => StillOpen(Reports', o)
           /\ \A o : SameOrder(r.order, o) =>
                 About(Reports', o) = About(Reports, o) \cup {Len(Reports) + 1}
           /\ \A o : \A i \in About(Reports, o) : Reports'[i] = Reports[i]
           /\ Reports'[Len(Reports) + 1] = r
<1> DEFINE n == Len(Reports)
<1>1. /\ n \in Nat /\ DOMAIN Reports = 1..n /\ DOMAIN Reports' = 1..(n + 1)
      /\ \A i \in 1..n : Reports'[i] = Reports[i]
      /\ Reports'[n + 1] = r
  BY ReportsFacts, ReportAdded
<1>2. ToldInv(Reports)
  BY DEF LifeInv
<1>3. ToldInv(Reports')
  BY <1>1, <1>2, ToldOn
<1>4. ASSUME NEW o, ~SameOrder(r.order, o)
      PROVE  About(Reports', o) = About(Reports, o)
  BY <1>1, <1>4, OthersTold
<1>5. ASSUME NEW o, ~SameOrder(r.order, o), StillOpen(Reports, o)
      PROVE  StillOpen(Reports', o)
  BY <1>1, <1>5, OthersTold
<1>6. ASSUME NEW o, SameOrder(r.order, o)
      PROVE  About(Reports', o) = About(Reports, o) \cup {n + 1}
  BY <1>1, <1>6, NextTold
<1>7. \A o : \A i \in About(Reports, o) : Reports'[i] = Reports[i]
  BY <1>1 DEF About
<1> HIDE DEF n
<1> QED
  BY <1>1, <1>3, <1>4, <1>5, <1>6, <1>7 DEF n

(* What a report leaves alone: the copies of other orders, ...              *)
LEMMA OtherCopyKept ==
    ASSUME NEW v \in Workers, NEW i \in DOMAIN processed[v], CopyInv(v, i),
           wtask'[v] = wtask[v], processed'[v] = processed[v],
           About(Reports', processed[v][i]) = About(Reports, processed[v][i]),
           \A j \in About(Reports, processed[v][i]) : Reports'[j] = Reports[j],
           StillOpen(Reports, processed[v][i]) => StillOpen(Reports', processed[v][i])
    PROVE  CopyInv(v, i)'
BY DEF CopyInv, Executed

(* ... and the other orders that rest.                                      *)
LEMMA OtherRestKept ==
    ASSUME NEW s, NEW x, RestsOpen(s, x), books'[s] \subseteq books[s],
           CopiesOf(processed', x) = CopiesOf(processed, x),
           About(Reports', x) = About(Reports, x),
           \A i \in About(Reports, x) : Reports'[i] = Reports[i],
           StillOpen(Reports, x) => StillOpen(Reports', x)
    PROVE  RestsOpen(s, x)'
BY DEF RestsOpen, Executed

(* A story that is open has begun.                                          *)
LEMMA OpenHasBegun ==
    ASSUME LifeInv, NEW o, About(Reports, o) = {}
    PROVE  /\ \A w \in Workers : \A i \in DOMAIN processed[w] : ~SameOrder(o, processed[w][i])
           /\ \A s \in DOMAIN books : \A x \in books[s] : ~SameOrder(o, x)
           /\ \A m \in NewMessages : SameOrder(o, m) =>
                 ~(dtask = m \/ (\E w \in Workers : m \in ToSet(tasks[w])))
<1>1. \A x : SameOrder(o, x) => About(Reports, x) = {}
  BY DEF About, IsAbout, SameOrder
<1> QED
  BY <1>1 DEF LifeInv, WaitingInv, CopyInv, RestsOpen, StillOpen

(* An answer begins the story of an order.                                  *)
LEMMA AnswerKeepsLife ==
    ASSUME MatcherInv, AnsweredInv, LifeInv, RejectOrder \/ AcceptOrder
    PROVE  LifeInv'
<1> DEFINE m == Head(incoming)
<1>1. PICK type \in {"REJECTED", "ACCEPTED"} :
         /\ NextMessage("NEW") /\ arrived' = arrived /\ incoming # <<>>
         /\ outgoing' = Append(outgoing, MakeReport(type, m.symbol, OrderOf(m, 0)))
         /\ UNCHANGED <<books, workers, delivered>> /\ pool' = pool
         /\ dtask' = dtask \/ (dtask' = m /\ type = "ACCEPTED")
  BY DEF RejectOrder, AcceptOrder, NextMessage, dictionaries
<1>2. /\ m \in Messages /\ m.type = "NEW" /\ m \in NewMessages /\ m.symbol \in Symbols
      /\ OrderOf(m, 0) \in Order
  <2>1. m \in Messages /\ m.type = "NEW"
    BY <1>1, HeadOfIncoming DEF NextMessage
  <2> QED
    BY <2>1, MessageFacts
<1>3. Taken + 1 \in DOMAIN arrived /\ arrived[Taken + 1] = m /\ Taken \in Nat
  BY <1>1, TakeFacts DEF AnsweredInv
<1>4. About(Reports, m) = {}
  BY <1>2, <1>3, NothingToldYet
<1> DEFINE r == MakeReport(type, m.symbol, OrderOf(m, 0))
<1>5. /\ r \in Report /\ SameOrder(r.order, m) /\ r.type = type /\ Acknowledged(r)
      /\ r.order.executed = 0 /\ IsOrderOf(r.order, m.symbol)
  BY <1>2 DEF MakeReport, Report, OrderOf, NewOrder, SameOrder, IsOrderOf, Acknowledged
<1>6. About(Reports, r.order) = {}
  BY <1>4, <1>5 DEF About, IsAbout, SameOrder
<1>7. Continues(Reports, About(Reports, r.order), r)
  BY <1>5, <1>6 DEF Continues, Acknowledged
<1>8. outgoing' = Append(outgoing, r) /\ delivered' = delivered
  BY <1>1
<1> HIDE DEF m, r
<1>9. /\ ToldInv(Reports')
      /\ \A o : ~SameOrder(r.order, o) =>
            /\ About(Reports', o) = About(Reports, o)
            /\ StillOpen(Reports, o) => StillOpen(Reports', o)
      /\ \A o : SameOrder(r.order, o) =>
            About(Reports', o) = About(Reports, o) \cup {Len(Reports) + 1}
      /\ \A o : \A i \in About(Reports, o) : Reports'[i] = Reports[i]
      /\ Reports'[Len(Reports) + 1] = r
  BY <1>2, <1>5, <1>7, <1>8, ReportContinues
<1>10. /\ \A w \in Workers : \A i \in DOMAIN processed[w] : ~SameOrder(r.order, processed[w][i])
       /\ \A s \in DOMAIN books : \A x \in books[s] : ~SameOrder(r.order, x)
       /\ \A n \in NewMessages : SameOrder(r.order, n) =>
             ~(dtask = n \/ (\E w \in Workers : n \in ToSet(tasks[w])))
  BY <1>6, OpenHasBegun
<1>11. processed' = processed /\ wpc' = wpc /\ wtask' = wtask /\ books' = books /\ tasks' = tasks
  BY <1>1, PoolKept, SameRingsSameTasks DEF workers
<1>12. ASSUME NEW n \in NewMessages,
              dtask' = n \/ (\E w \in Workers : n \in ToSet(tasks'[w]))
       PROVE  /\ About(Reports', n) # {} /\ CopiesOf(processed', n) = {}
              /\ \A i \in About(Reports', n) : Reports'[i].type = "ACCEPTED"
  <2>1. CASE SameOrder(r.order, n)
    <3>1. type = "ACCEPTED"
      BY <1>1, <1>10, <1>11, <1>12, <2>1
    <3>2. About(Reports, n) = {}
      BY <1>6, <2>1 DEF About, IsAbout, SameOrder
    <3>3. About(Reports', n) = {Len(Reports) + 1}
      BY <1>9, <2>1, <3>2
    <3>4. ASSUME NEW c \in CopiesOf(processed, n) PROVE FALSE
      BY <1>10, <2>1, CopiesFacts DEF SameOrder
    <3> QED
      BY <1>5, <1>9, <1>11, <3>1, <3>3, <3>4
  <2>2. CASE ~SameOrder(r.order, n)
    <3>1. dtask = n \/ (\E w \in Workers : n \in ToSet(tasks[w]))
      <4>1. n # m
        BY <1>5, <2>2
      <4> QED
        BY <1>1, <1>11, <1>12, <4>1
    <3>2. /\ About(Reports, n) # {} /\ CopiesOf(processed, n) = {}
          /\ \A i \in About(Reports, n) : Reports[i].type = "ACCEPTED"
      BY <3>1 DEF LifeInv, WaitingInv
    <3> QED
      BY <1>9, <1>11, <2>2, <3>2
  <2> QED
    BY <2>1, <2>2
<1>13. ASSUME NEW n \in NewMessages PROVE WaitingInv(n)'
  BY <1>12 DEF WaitingInv
<1>14. ASSUME NEW w \in Workers, NEW i \in DOMAIN processed'[w] PROVE CopyInv(w, i)'
  <2>1. CopyInv(w, i) /\ i \in DOMAIN processed[w]
    BY <1>11, <1>14 DEF LifeInv
  <2> QED
    BY <1>9, <1>10, <1>11, <2>1, OtherCopyKept
<1>15. ASSUME NEW s \in DOMAIN books', NEW x \in books'[s] PROVE RestsOpen(s, x)'
  <2>1. RestsOpen(s, x) /\ ~SameOrder(r.order, x)
    BY <1>10, <1>11, <1>15 DEF LifeInv
  <2> QED
    BY <1>9, <1>11, <2>1, OtherRestKept
<1>16. \A w \in Workers : wpc'[w] \in {"idle", "resubmitting"} => processed'[w] = <<>>
  BY <1>11 DEF LifeInv
<1> QED
  BY <1>9, <1>13, <1>14, <1>15, <1>16 DEF LifeInv

(* An order that waits for its task rests in no book.                       *)
LEMMA WaitingNotResting ==
    ASSUME MatcherInv, AnsweredInv, PipelineInv, LifeInv, NEW m \in NewMessages,
           dtask = m \/ (\E w \in Workers : m \in ToSet(tasks[w])),
           NEW s \in DOMAIN books, NEW x \in books[s]
    PROVE  ~SameOrder(x, m)
<1>1. SUFFICES ASSUME SameOrder(x, m) PROVE FALSE
  OBVIOUS
<1>2. RestsOpen(s, x) /\ RestingInv(s)
  BY DEF LifeInv, PipelineInv
<1>3. m.symbol = s
  BY <1>1, <1>2, OneMessage DEF RestsOpen, IsOrderOf
<1>4. PICK k \in Arrivals(arrived, x) : k \in 1..Settled
  BY <1>2 DEF RestingInv
<1>5. k \in DOMAIN arrived /\ arrived[k] = m
  <2>1. /\ k \in DOMAIN arrived /\ arrived[k] \in Messages /\ arrived[k].type = "NEW"
        /\ SameOrder(arrived[k], x)
    BY <1>4, OneArrival DEF Arrivals, AnsweredInv, SameOrder
  <2>2. arrived[k] \in NewMessages /\ SameOrder(arrived[k], m) /\ SameOrder(m, m)
    BY <1>1, <2>1, MessageFacts DEF SameOrder
  <2>3. SameOrder(m, arrived[k])
    BY <2>2 DEF SameOrder
  <2> QED
    BY <2>1, <2>2, <2>3, OneMessage
<1>6. k \in IndicesOf(arrived, m)
  BY <1>5 DEF IndicesOf
<1>7. CASE dtask = m
  <2>1. m # NoTask
    BY MessageFacts DEF NewMessages
  <2>2. Taken >= 1 /\ arrived[Taken] = m /\ Settled = Taken - 1
    BY <1>7, <2>1 DEF AnsweredInv, IncomingInv, Settled
  <2>3. Taken \in Nat /\ Taken \in DOMAIN arrived
    BY <2>2, OneArrival DEF AnsweredInv
  <2>4. Taken = k
    BY <1>6, <2>2, <2>3, OneArrival DEF IndicesOf, AnsweredInv
  <2> QED
    BY <1>4, <2>2, <2>3, <2>4
<1>8. CASE \E w \in Workers : m \in ToSet(tasks[w])
  <2>0. PICK w \in Workers : m \in ToSet(tasks[w])
    BY <1>8
  <2>1. PICK i \in DOMAIN tasks[w] : tasks[w][i] = m
    BY <2>0 DEF ToSet
  <2>2. AllBefore(Arrivals(arrived, x), IndicesOf(arrived, m))
    BY <1>3, <2>1 DEF PipelineInv, RingInv, NewMessages
  <2>3. k < k /\ k \in Nat
    BY <1>4, <1>6, <2>2, OneArrival DEF AllBefore, AnsweredInv
  <2> QED
    BY <2>3
<1> QED
  BY <1>7, <1>8

(* taskNewOrder puts an order that has only been accepted into its book.    *)
LEMMA NewOrderKeepsLife ==
    ASSUME Quantities \subseteq Nat,
           MatcherInv, FIFOsInv, AnsweredInv, PipelineInv, LifeInv,
           NEW w \in Workers, TaskNewOrder(w)
    PROVE  LifeInv'
<1> DEFINE m == Pool!Front(w)
           s == m.symbol
           x == OrderOf(m, inserted[s])
           old == WithEntry(books, s, {})
<1>1. Pop(w, "NEW")
  BY DEF TaskNewOrder
<1>2. /\ wpc[w] = "idle" /\ m \in Messages /\ m.type = "NEW" /\ s \in Symbols
      /\ Pool!PopFront(w)
  BY <1>1, PopFacts
<1>3. m \in NewMessages /\ m \in ToSet(tasks[w]) /\ m.quantity \in Quantities
  <2>1. tasks[w] # <<>> /\ m = Head(tasks[w])
    BY <1>2, PopTakesHead
  <2>2. 1 \in DOMAIN tasks[w] /\ m = tasks[w][1]
    BY <2>1, HeadOfRing
  <2> QED
    BY <1>2, <2>2, MessageFacts DEF ToSet
<1>4. /\ books' = [old EXCEPT ![s] = old[s] \cup {x}]
      /\ processed' = [processed EXCEPT ![w] = <<>>]
      /\ wpc' = [wpc EXCEPT ![w] = "matching"]
      /\ wtask' = [wtask EXCEPT ![w] = m]
      /\ UNCHANGED <<dtask, reports>>
  BY DEF TaskNewOrder
<1>5. /\ SameOrder(x, m) /\ x.quantity = m.quantity /\ x.open = m.quantity /\ x.executed = 0
  BY DEF OrderOf, NewOrder, SameOrder
<1>6. DOMAIN old = DOMAIN books \cup {s} /\ \A z \in DOMAIN books : old[z] = books[z]
  BY <1>2, BookFacts
<1>7. s \notin DOMAIN books => old[s] = {}
  BY WithEntryFacts
<1> HIDE DEF m, x, old
<1>8. DOMAIN books' = DOMAIN books \cup {s}
  BY <1>4, <1>6
<1>9. books'[s] = old[s] \cup {x} /\ \A z \in DOMAIN books' \ {s} : books'[z] = books[z]
  BY <1>4, <1>6
<1> HIDE DEF s
<1>10. processed[w] = <<>> /\ processed' = processed
  <2>1. processed[w] = <<>>
    BY <1>2 DEF LifeInv
  <2> QED
    BY <1>4, <2>1 DEF MatcherInv, TypeOK
<1>11. /\ wpc'[w] = "matching"
       /\ \A v \in Workers \ {w} : wpc'[v] = wpc[v] /\ wtask'[v] = wtask[v]
  BY <1>4 DEF MatcherInv, TypeOK
<1>12. Reports' = Reports /\ dtask' = dtask
  BY <1>4 DEF reports, Reports
<1>13. /\ About(Reports, m) # {} /\ CopiesOf(processed, m) = {}
       /\ \A i \in About(Reports, m) : Reports[i].type = "ACCEPTED"
  BY <1>3 DEF LifeInv, WaitingInv
<1>14. \A z \in DOMAIN books : \A y \in books[z] : ~SameOrder(y, m)
  BY <1>3, WaitingNotResting
<1>15. ASSUME NEW n \in NewMessages PROVE WaitingInv(n)'
  <2>1. ASSUME dtask' = n \/ (\E v \in Workers : n \in ToSet(tasks'[v]))
        PROVE  dtask = n \/ (\E v \in Workers : n \in ToSet(tasks[v]))
    BY <1>2, <1>12, <2>1, WaitingAfterPop
  <2> QED
    BY <1>10, <1>12, <2>1 DEF LifeInv, WaitingInv
<1>16. ASSUME NEW v \in Workers, NEW i \in DOMAIN processed'[v] PROVE CopyInv(v, i)'
  <2>1. v # w /\ i \in DOMAIN processed[v]
    BY <1>10, <1>16
  <2>2. wtask'[v] = wtask[v] /\ CopyInv(v, i)
    BY <1>11, <2>1 DEF LifeInv
  <2> QED
    BY <1>10, <1>12, <2>1, <2>2 DEF CopyInv
<1>17. ASSUME NEW z, z = s, NEW y, y = x PROVE RestsOpen(z, y)'
  <2>1. /\ IsOrderOf(x, s) /\ x.open >= 0 /\ (x.open = 0 => SomeEmpty)
        /\ x.executed + x.open = x.quantity
    <3>1. m.quantity \in Nat
      BY <1>3
    <3> QED
      BY <1>3, <1>5, <3>1 DEF IsOrderOf, SomeEmpty, s
  <2>2. ASSUME NEW u \in books'[s], SameOrder(x, u) PROVE x = u
    <3>1. CASE u \in old[s]
      <4>1. s \in DOMAIN books /\ u \in books[s]
        BY <1>6, <1>7, <3>1
      <4>2. ~SameOrder(u, m)
        BY <1>14, <4>1
      <4> QED
        BY <1>5, <2>2, <4>2 DEF SameOrder
    <3> QED
      BY <1>9, <2>2, <3>1
  <2>3. About(Reports, x) = About(Reports, m) /\ CopiesOf(processed, x) = CopiesOf(processed, m)
    BY <1>5 DEF About, IsAbout, CopiesOf, SameOrder
  <2>4. ASSUME NEW i \in About(Reports, m)
        PROVE  Reports[i].type \in OpenTypes /\ Executed(Reports, i) = 0
    <3>1. i \in DOMAIN Reports /\ Acknowledged(Reports[i])
      BY <1>13 DEF About, Acknowledged
    <3> QED
      BY <1>13, <3>1 DEF LifeInv, ToldInv, Continues, Executed, OpenTypes
  <2>5. StillOpen(Reports, x) /\ \A i \in About(Reports, x) : Executed(Reports, i) <= x.executed
    BY <1>5, <1>13, <2>3, <2>4 DEF StillOpen
  <2>6. \E i \in About(Reports, x) : Executed(Reports, i) = x.executed
    BY <1>5, <1>13, <2>3, <2>4
  <2>7. CopiesOf(processed, x) = {}
    BY <1>13, <2>3
  <2>8. /\ IsOrderOf(y, z) /\ y.open >= 0 /\ (y.open = 0 => SomeEmpty)
        /\ y.executed + y.open = y.quantity
    BY <1>17, <2>1
  <2>9. \A u \in books'[z] : SameOrder(y, u) => y = u
    BY <1>17, <2>2
  <2>10. /\ StillOpen(Reports', y)
         /\ \A i \in About(Reports', y) : Executed(Reports', i) <= y.executed
         /\ \E i \in About(Reports', y) : Executed(Reports', i) = y.executed
         /\ CopiesOf(processed', y) = {}
    BY <1>10, <1>12, <1>17, <2>5, <2>6, <2>7
  <2> QED
    BY <2>8, <2>9, <2>10 DEF RestsOpen
<1>18. ASSUME NEW z \in DOMAIN books', NEW y \in books'[z] PROVE RestsOpen(z, y)'
  <2>1. CASE z = s /\ y = x
    BY <1>17, <2>1
  <2>2. CASE z # s \/ y # x
    <3>1. z \in DOMAIN books /\ y \in books[z]
      BY <1>6, <1>7, <1>8, <1>9, <1>18, <2>2
    <3>2. RestsOpen(z, y) /\ ~SameOrder(y, m)
      BY <1>14, <3>1 DEF LifeInv
    <3>3. ASSUME NEW u \in books'[z], SameOrder(y, u) PROVE y = u
      <4>1. ~SameOrder(y, x)
        BY <1>5, <3>2 DEF SameOrder
      <4>2. u \in books[z]
        BY <1>6, <1>7, <1>8, <1>9, <3>1, <3>3, <4>1
      <4> QED
        BY <3>2, <3>3, <4>2 DEF RestsOpen
    <3> QED
      BY <1>10, <1>12, <3>2, <3>3 DEF RestsOpen
  <2> QED
    BY <2>1, <2>2
<1>19. \A v \in Workers : wpc'[v] \in {"idle", "resubmitting"} => processed'[v] = <<>>
  BY <1>10, <1>11 DEF LifeInv
<1>20. ToldInv(Reports')
  BY <1>12 DEF LifeInv
<1> QED
  BY <1>15, <1>16, <1>18, <1>19, <1>20 DEF LifeInv

(* Two values of one order are of one symbol and quantity.                  *)
LEMMA NamesakesAgree ==
    ASSUME NEW x, NEW s, IsOrderOf(x, s), NEW y, NEW z, IsOrderOf(y, z), SameOrder(x, y)
    PROVE  s = z /\ x.quantity = y.quantity
<1>1. PICK m \in NewMessages : SameOrder(x, m) /\ x.quantity = m.quantity /\ m.symbol = s
  BY DEF IsOrderOf
<1>2. PICK n \in NewMessages : SameOrder(y, n) /\ y.quantity = n.quantity /\ n.symbol = z
  BY DEF IsOrderOf
<1>3. SameOrder(x, n)
  BY <1>2 DEF SameOrder
<1> QED
  BY <1>1, <1>2, <1>3, OneMessage

(* A copy waits with the worker of the order's symbol.                      *)
LEMMA CopyAtItsWorker ==
    ASSUME MatcherInv, LifeInv, NEW o, NEW s, IsOrderOf(o, s),
           NEW v \in Workers, NEW i \in DOMAIN processed[v], SameOrder(processed[v][i], o)
    PROVE  /\ wpc[v] \in {"matching", "reporting"} /\ wtask[v].symbol = s
           /\ AtItsWorker(wtask[v], v)
<1>1. wpc[v] \in {"matching", "reporting"}
  BY DEF LifeInv, MatcherInv, TypeOK
<1>2. AtItsWorker(wtask[v], v) /\ IsOrderOf(processed[v][i], wtask[v].symbol)
  BY <1>1 DEF LifeInv, CopyInv, MatcherInv, WorkerInv
<1> QED
  BY <1>1, <1>2, NamesakesAgree

(* What Order::execute does to the quantities.                              *)
LEMMA ExecuteFacts ==
    ASSUME NEW o \in Order, NEW price \in Int, NEW quantity \in Int,
           NEW e, e = Execute(o, price, quantity)
    PROVE  /\ e \in Order /\ SameOrder(e, o) /\ e.quantity = o.quantity
           /\ e.executed = o.executed + quantity /\ e.open = o.open - quantity
<1>1. e \in Order
  BY OrderFacts
<1>2. e.executed = o.executed + quantity
  BY DEF Execute, Order
<1>3. e.open = o.open - quantity
  BY DEF Execute, Order
<1>4. e.quantity = o.quantity /\ e.owner = o.owner /\ e.clientID = o.clientID
  BY DEF Execute, Order
<1> QED
  BY <1>1, <1>2, <1>3, <1>4 DEF SameOrder

(* A pass of the matching loop executes both orders, neither beyond what is *)
(* open.                                                                    *)
LEMMA MatchedFacts ==
    ASSUME NEW bid \in Order, NEW ask \in Order, bid.open >= 0, ask.open >= 0,
           bid.open = 0 \/ ask.open = 0 => SomeEmpty,
           NEW b, b = MatchedBid(bid, ask), NEW a, a = MatchedAsk(bid, ask)
    PROVE  /\ b \in Order /\ SameOrder(b, bid) /\ b.quantity = bid.quantity
           /\ b.executed + b.open = bid.executed + bid.open
           /\ Advances(bid.executed, b.executed) /\ b.open >= 0
           /\ a \in Order /\ SameOrder(a, ask) /\ a.quantity = ask.quantity
           /\ a.executed + a.open = ask.executed + ask.open
           /\ Advances(ask.executed, a.executed) /\ a.open >= 0
<1> DEFINE q == MatchQuantity(bid, ask)
<1>1. /\ bid.open \in Int /\ ask.open \in Int /\ ask.price \in Int
      /\ bid.executed \in Int /\ ask.executed \in Int
  BY PricesAssumption DEF Order
<1>2. q \in Int /\ q >= 0 /\ q <= bid.open /\ q <= ask.open /\ (q = 0 => SomeEmpty)
  BY <1>1 DEF MatchQuantity
<1>3. b = Execute(bid, ask.price, q) /\ a = Execute(ask, ask.price, q)
  BY DEF MatchedBid, MatchedAsk
<1> HIDE DEF q
<1>4. /\ b \in Order /\ SameOrder(b, bid) /\ b.quantity = bid.quantity
      /\ b.executed = bid.executed + q /\ b.open = bid.open - q
  BY <1>1, <1>2, <1>3, ExecuteFacts
<1>5. /\ a \in Order /\ SameOrder(a, ask) /\ a.quantity = ask.quantity
      /\ a.executed = ask.executed + q /\ a.open = ask.open - q
  BY <1>1, <1>2, <1>3, ExecuteFacts
<1>6. b.executed + b.open = bid.executed + bid.open /\ Advances(bid.executed, b.executed) /\ b.open >= 0
  <2>1. bid.executed <= b.executed /\ (bid.executed = b.executed => q = 0)
    BY <1>1, <1>2, <1>4
  <2> QED
    BY <1>1, <1>2, <1>4, <2>1 DEF Advances
<1>7. a.executed + a.open = ask.executed + ask.open /\ Advances(ask.executed, a.executed) /\ a.open >= 0
  <2>1. ask.executed <= a.executed /\ (ask.executed = a.executed => q = 0)
    BY <1>1, <1>2, <1>5
  <2> QED
    BY <1>1, <1>2, <1>5, <2>1 DEF Advances
<1> QED
  BY <1>4, <1>5, <1>6, <1>7

(* The story of a resting order that has been executed further.             *)
LEMMA ExecutedStory ==
    ASSUME MatcherInv, NEW s, NEW x \in Order, RestsOpen(s, x),
           NEW e \in Order, SameOrder(e, x), e.quantity = x.quantity,
           e.executed + e.open = x.executed + x.open, Advances(x.executed, e.executed),
           e.open >= 0
    PROVE  /\ IsOrderOf(e, s) /\ e.executed <= e.quantity /\ e.executed + e.open = e.quantity
           /\ About(Reports, e) = About(Reports, x) /\ About(Reports, x) # {}
           /\ \A i \in About(Reports, x) : /\ Reports[i].type \in OpenTypes
                                           /\ Executed(Reports, i) \in Int
                                           /\ Executed(Reports, i) <= x.executed
                                           /\ Advances(Executed(Reports, i), e.executed)
<1>1. x.executed \in Int /\ x.open \in Int /\ e.executed \in Int /\ e.open \in Int
  BY DEF Order
<1>2. IsOrderOf(e, s)
  BY DEF RestsOpen, IsOrderOf, SameOrder
<1>3. e.executed <= e.quantity /\ e.executed + e.open = e.quantity
  BY <1>1 DEF RestsOpen
<1>4. About(Reports, e) = About(Reports, x)
  BY DEF About, IsAbout, SameOrder
<1>5. \A i \in About(Reports, x) : Executed(Reports, i) \in Int
  <2>1. \A i \in DOMAIN Reports : Reports[i] \in Report
    BY ReportsFacts, ElementOfSeq
  <2> QED
    BY <2>1 DEF About, Executed, Report, Order
<1>6. ASSUME NEW i \in About(Reports, x) PROVE Advances(Executed(Reports, i), e.executed)
  <2>1. Executed(Reports, i) \in Int /\ Executed(Reports, i) <= x.executed
    BY <1>5 DEF RestsOpen
  <2> QED
    BY <1>1, <2>1 DEF Advances
<1> QED
  BY <1>2, <1>3, <1>4, <1>5, <1>6 DEF RestsOpen, StillOpen

(* Two orders at the end of a queue.                                        *)
LEMMA TwoAppended ==
    ASSUME NEW queue \in Seq(Order), NEW L, L = Len(queue),
           NEW b \in Order, NEW a \in Order, NEW longer, longer = queue \o <<b, a>>
    PROVE  /\ L \in Nat /\ DOMAIN queue = 1..L /\ DOMAIN longer = 1..(L + 2)
           /\ \A i \in 1..L : longer[i] = queue[i]
           /\ longer[L + 1] = b /\ longer[L + 2] = a
<1>1. PICK both \in Seq(Order) : both = <<b, a>> /\ Len(both) = 2 /\ both[1] = b /\ both[2] = a
  <2>1. <<b, a>> \in Seq(Order)
    OBVIOUS
  <2>2. Len(<<b, a>>) = 2 /\ <<b, a>>[1] = b /\ <<b, a>>[2] = a
    OBVIOUS
  <2> QED
    BY <2>1, <2>2
<1>2. L \in Nat /\ DOMAIN queue = 1..L
  BY LenProperties
<1>3. /\ longer \in Seq(Order) /\ Len(longer) = L + Len(both)
      /\ \A i \in 1..(L + Len(both)) :
            longer[i] = IF i <= L THEN queue[i] ELSE both[i - L]
  <2>1. longer = queue \o both
    BY <1>1
  <2> QED
    BY <1>1, <2>1, ConcatProperties
<1>4. Len(longer) = L + 2 /\ \A i \in 1..(L + 2) :
            longer[i] = IF i <= L THEN queue[i] ELSE both[i - L]
  BY <1>1, <1>3
<1>5. DOMAIN longer = 1..(L + 2)
  BY <1>3, <1>4, LenProperties
<1>6. \A i \in 1..L : longer[i] = queue[i]
  BY <1>2, <1>4
<1>7. longer[L + 1] = both[1] /\ longer[L + 2] = both[2]
  BY <1>2, <1>4
<1> QED
  BY <1>1, <1>2, <1>5, <1>6, <1>7

(* The copies after a pass of the loop: two more for the worker.            *)
LEMMA CopiesAdded ==
    ASSUME NEW w \in Workers, NEW L \in Nat, NEW b, NEW a,
           DOMAIN processed[w] = 1..L, DOMAIN processed'[w] = 1..(L + 2),
           \A i \in 1..L : processed'[w][i] = processed[w][i],
           processed'[w][L + 1] = b, processed'[w][L + 2] = a,
           \A v \in Workers \ {w} : processed'[v] = processed[v],
           NEW o, NEW c
    PROVE  c \in CopiesOf(processed', o)
              <=> c \in CopiesOf(processed, o) \/ (c \in {b, a} /\ SameOrder(c, o))
<1>1. PICK after : after = processed'
  OBVIOUS
<1>2. /\ c \in CopiesOf(after, o)
            <=> SameOrder(c, o) /\ \E v \in Workers : \E i \in DOMAIN after[v] : c = after[v][i]
      /\ c \in CopiesOf(processed, o)
            <=> SameOrder(c, o)
                /\ \E v \in Workers : \E i \in DOMAIN processed[v] : c = processed[v][i]
  BY CopiesFacts
<1>3. ASSUME NEW v \in Workers, NEW i \in DOMAIN processed'[v], c = processed'[v][i]
      PROVE  c \in {b, a} \/ \E j \in DOMAIN processed[v] : c = processed[v][j]
  <2>1. CASE v = w
    <3>1. i \in 1..L \/ i = L + 1 \/ i = L + 2
      BY <1>3, <2>1
    <3> QED
      BY <1>3, <2>1, <3>1
  <2>2. CASE v # w
    BY <1>3, <2>2
  <2> QED
    BY <2>1, <2>2
<1>4. ASSUME NEW v \in Workers, NEW i \in DOMAIN processed[v], c = processed[v][i]
      PROVE  \E j \in DOMAIN processed'[v] : c = processed'[v][j]
  <2>1. CASE v = w
    <3>1. i \in 1..L /\ i \in 1..(L + 2)
      BY <1>4, <2>1
    <3> QED
      BY <1>4, <2>1, <3>1
  <2>2. CASE v # w
    BY <1>4, <2>2
  <2> QED
    BY <2>1, <2>2
<1>5. \E i, j \in DOMAIN processed'[w] : processed'[w][i] = b /\ processed'[w][j] = a
  <2>1. L + 1 \in 1..(L + 2) /\ L + 2 \in 1..(L + 2)
    OBVIOUS
  <2> QED
    BY <2>1
<1>6. c \in CopiesOf(after, o) => c \in CopiesOf(processed, o) \/ (c \in {b, a} /\ SameOrder(c, o))
  BY <1>1, <1>2, <1>3
<1>7. c \in CopiesOf(processed, o) => c \in CopiesOf(after, o)
  BY <1>1, <1>2, <1>4
<1>8. c \in {b, a} /\ SameOrder(c, o) => c \in CopiesOf(after, o)
  BY <1>1, <1>2, <1>5
<1> QED
  BY <1>1, <1>6, <1>7, <1>8

(* The part of an executed order that stays in the book.                    *)
LEMMA RestOfMatched ==
    ASSUME MatcherInv, NEW s, NEW x \in Order, RestsOpen(s, x),
           NEW e \in Order, SameOrder(e, x), e.quantity = x.quantity,
           e.executed + e.open = x.executed + x.open, Advances(x.executed, e.executed),
           e.open >= 0, ~IsFilled(e), Reports' = Reports,
           \A c : c \in CopiesOf(processed', x) <=> c \in CopiesOf(processed, x) \/ c = e,
           \A y \in books'[s] : SameOrder(e, y) => e = y
    PROVE  RestsOpen(s, e)'
<1>1. /\ IsOrderOf(e, s) /\ e.executed <= e.quantity /\ e.executed + e.open = e.quantity
      /\ About(Reports, e) = About(Reports, x) /\ About(Reports, x) # {}
      /\ \A i \in About(Reports, x) : /\ Reports[i].type \in OpenTypes
                                      /\ Executed(Reports, i) \in Int
                                      /\ Executed(Reports, i) <= x.executed
  BY ExecutedStory
<1>2. /\ x.executed \in Int /\ e.executed \in Int /\ e.open \in Int /\ e.quantity \in Int
      /\ x.executed <= e.executed
  BY QuantitiesAssumption DEF Order, Advances
<1>3. e.open > 0
  BY <1>1, <1>2 DEF IsFilled
<1>4. StillOpen(Reports, e) /\ \A i \in About(Reports, e) : Executed(Reports, i) <= e.executed
  BY <1>1, <1>2 DEF StillOpen
<1>5. \A c : c \in CopiesOf(processed', e) <=> c \in CopiesOf(processed, x) \/ c = e
  <2>1. CopiesOf(processed', e) = CopiesOf(processed', x)
    BY DEF CopiesOf, SameOrder
  <2> QED
    BY <2>1
<1>6. \A c \in CopiesOf(processed, x) : c.executed \in Int /\ c.executed <= x.executed /\ ~IsFilled(c)
  <2>1. \A w \in Workers : \A i \in DOMAIN processed[w] : processed[w][i] \in Order
    BY ElementOfSeq DEF MatcherInv, TypeOK
  <2>2. \A c \in CopiesOf(processed, x) : c \in Order
    BY <2>1, CopiesFacts
  <2> QED
    BY <2>2 DEF RestsOpen, Order
<1>7. \A c \in CopiesOf(processed', e) : c.executed <= e.executed /\ ~IsFilled(c)
  BY <1>2, <1>5, <1>6
<1>8. \E c \in CopiesOf(processed', e) : c.executed = e.executed
  BY <1>5
<1> QED
  BY <1>1, <1>2, <1>3, <1>4, <1>7, <1>8 DEF RestsOpen

(* The copy that is reported later has the later executed quantity.         *)
LEMMA MatchKeepsLife ==
    ASSUME MatcherInv, AnsweredInv, PipelineInv, LifeInv, NEW w \in Workers, MatchTwoOrders(w)
    PROVE  LifeInv'
<1>1. PICK s : s = wtask[w].symbol
  OBVIOUS
<1>2. /\ wpc[w] = "matching" /\ s \in DOMAIN books /\ books[s] \subseteq Order
      /\ \A z \in DOMAIN books : books[z] \subseteq Order
  BY <1>1 DEF MatchTwoOrders, MatcherInv, WorkerInv, TypeOK
<1>3. PICK bid \in books[s], ask \in books[s] :
         /\ Crossing(books[s], bid, ask)
         /\ books' = [books EXCEPT ![s] = AfterMatch(books[s], bid, ask)]
         /\ processed' = [processed EXCEPT
                ![w] = processed[w] \o <<MatchedBid(bid, ask), MatchedAsk(bid, ask)>>]
  BY <1>1 DEF MatchTwoOrders
<1>4. PICK b, a : b = MatchedBid(bid, ask) /\ a = MatchedAsk(bid, ask)
  OBVIOUS
<1>5. UNCHANGED <<dtask, wpc, wtask, reports>> /\ tasks' = tasks
  BY PoolKept, SameRingsSameTasks DEF MatchTwoOrders
<1>6. Reports' = Reports
  BY <1>5 DEF reports, Reports
<1>7. RestsOpen(s, bid) /\ RestsOpen(s, ask) /\ bid \in Order /\ ask \in Order
  BY <1>2 DEF LifeInv
<1>8. ~SameOrder(bid, ask) /\ ~SameOrder(ask, bid)
  <2>1. bid.side = "BUY" /\ ask.side = "SELL"
    BY <1>3 DEF Crossing, First, Bids, Asks, OnSide
  <2> QED
    BY <1>7, <2>1 DEF RestsOpen
<1>9. bid.open >= 0 /\ ask.open >= 0 /\ (bid.open = 0 \/ ask.open = 0 => SomeEmpty)
  BY <1>7 DEF RestsOpen
<1>10. /\ b \in Order /\ SameOrder(b, bid) /\ b.quantity = bid.quantity
       /\ b.executed + b.open = bid.executed + bid.open
       /\ Advances(bid.executed, b.executed) /\ b.open >= 0
       /\ a \in Order /\ SameOrder(a, ask) /\ a.quantity = ask.quantity
       /\ a.executed + a.open = ask.executed + ask.open
       /\ Advances(ask.executed, a.executed) /\ a.open >= 0
  BY <1>4, <1>7, <1>9, MatchedFacts
<1>11. /\ processed'[w] = processed[w] \o <<b, a>>
       /\ \A v \in Workers \ {w} : processed'[v] = processed[v]
  BY <1>3, <1>4 DEF MatcherInv, TypeOK
<1>12. PICK L : L = Len(processed[w])
  OBVIOUS
<1>13. /\ L \in Nat /\ DOMAIN processed[w] = 1..L /\ DOMAIN processed'[w] = 1..(L + 2)
       /\ \A i \in 1..L : processed'[w][i] = processed[w][i]
       /\ processed'[w][L + 1] = b /\ processed'[w][L + 2] = a
       /\ \A o, c : c \in CopiesOf(processed', o)
             <=> c \in CopiesOf(processed, o) \/ (c \in {b, a} /\ SameOrder(c, o))
  <2>1. PICK longer : longer = processed'[w]
    OBVIOUS
  <2>2. processed[w] \in Seq(Order) /\ longer = processed[w] \o <<b, a>> /\ b \in Order /\ a \in Order
    BY <1>10, <1>11, <2>1 DEF MatcherInv, TypeOK
  <2>3. /\ L \in Nat /\ DOMAIN processed[w] = 1..L /\ DOMAIN longer = 1..(L + 2)
        /\ \A i \in 1..L : longer[i] = processed[w][i]
        /\ longer[L + 1] = b /\ longer[L + 2] = a
    BY <1>12, <2>2, TwoAppended
  <2>4. /\ DOMAIN processed'[w] = 1..(L + 2)
        /\ \A i \in 1..L : processed'[w][i] = processed[w][i]
        /\ processed'[w][L + 1] = b /\ processed'[w][L + 2] = a
    BY <2>1, <2>3
  <2>5. \A v \in Workers \ {w} : processed'[v] = processed[v]
    BY <1>11
  <2>6. ASSUME NEW o, NEW c
        PROVE  c \in CopiesOf(processed', o)
                  <=> c \in CopiesOf(processed, o) \/ (c \in {b, a} /\ SameOrder(c, o))
    BY <2>3, <2>4, <2>5, CopiesAdded
  <2> QED
    BY <2>3, <2>4, <2>6
<1>14. ASSUME NEW o, ~SameOrder(o, bid), ~SameOrder(o, ask)
       PROVE  CopiesOf(processed', o) = CopiesOf(processed, o)
  <2>1. ~SameOrder(b, o) /\ ~SameOrder(a, o)
    BY <1>10, <1>14 DEF SameOrder
  <2>2. \A c : c \in CopiesOf(processed', o) <=> c \in CopiesOf(processed, o)
    BY <1>13, <2>1
  <2> QED
    BY <2>2
<1>15. ASSUME NEW n \in NewMessages PROVE WaitingInv(n)'
  <2>1. SUFFICES ASSUME dtask' = n \/ (\E v \in Workers : n \in ToSet(tasks'[v]))
                 PROVE  /\ About(Reports', n) # {} /\ CopiesOf(processed', n) = {}
                        /\ \A i \in About(Reports', n) : Reports'[i].type = "ACCEPTED"
    BY DEF WaitingInv
  <2>2. dtask = n \/ (\E v \in Workers : n \in ToSet(tasks[v]))
    BY <1>5, <2>1
  <2>3. ~SameOrder(bid, n) /\ ~SameOrder(ask, n)
    BY <1>2, <2>2, WaitingNotResting
  <2>4. CopiesOf(processed', n) = CopiesOf(processed, n)
    BY <1>14, <2>3 DEF SameOrder
  <2> QED
    BY <1>6, <2>2, <2>4 DEF LifeInv, WaitingInv
<1>16. ASSUME NEW v \in Workers, NEW i \in DOMAIN processed'[v] PROVE CopyInv(v, i)'
  <2>1. CASE v # w
    <3>1. CopyInv(v, i) /\ i \in DOMAIN processed[v]
      BY <1>11, <1>16, <2>1 DEF LifeInv
    <3> QED
      BY <1>5, <1>6, <1>11, <2>1, <3>1, OtherCopyKept
  <2>2. CASE v = w /\ i \in 1..L
    <3>1. PICK c : c = processed[w][i]
      OBVIOUS
    <3>2. CopyInv(w, i) /\ i \in DOMAIN processed[w]
      BY <1>13, <2>2 DEF LifeInv
    <3>3. c \in Order
      BY <3>1, <3>2, ElementOfSeq DEF MatcherInv, TypeOK
    <3>4. ASSUME NEW j \in DOMAIN processed'[w], i < j, SameOrder(processed'[w][j], c)
          PROVE  Advances(c.executed, processed'[w][j].executed) /\ ~IsFilled(c)
      <4>1. j \in 1..L \/ j = L + 1 \/ j = L + 2
        BY <1>13
      <4>2. CASE j \in 1..L
        BY <1>13, <3>1, <3>2, <3>4, <4>2 DEF CopyInv
      <4>3. CASE j = L + 1
        <5>1. c \in CopiesOf(processed, bid)
          BY <1>10, <1>13, <3>1, <3>2, <3>4, <4>3, CopiesFacts DEF SameOrder
        <5>2. c.executed <= bid.executed /\ ~IsFilled(c)
          BY <1>7, <5>1 DEF RestsOpen
        <5>3. c.executed \in Int /\ bid.executed \in Int /\ b.executed \in Int
          BY <1>7, <1>10, <3>3 DEF Order
        <5>4. Advances(c.executed, b.executed)
          BY <1>10, <5>2, <5>3 DEF Advances
        <5> QED
          BY <1>13, <4>3, <5>2, <5>4
      <4>4. CASE j = L + 2
        <5>1. c \in CopiesOf(processed, ask)
          BY <1>10, <1>13, <3>1, <3>2, <3>4, <4>4, CopiesFacts DEF SameOrder
        <5>2. c.executed <= ask.executed /\ ~IsFilled(c)
          BY <1>7, <5>1 DEF RestsOpen
        <5>3. c.executed \in Int /\ ask.executed \in Int /\ a.executed \in Int
          BY <1>7, <1>10, <3>3 DEF Order
        <5>4. Advances(c.executed, a.executed)
          BY <1>10, <5>2, <5>3 DEF Advances
        <5> QED
          BY <1>13, <4>4, <5>2, <5>4
      <4> QED
        BY <4>1, <4>2, <4>3, <4>4
    <3>5. processed'[w][i] = c
      BY <1>13, <2>2, <3>1
    <3> QED
      BY <1>5, <1>6, <2>2, <3>1, <3>2, <3>4, <3>5 DEF CopyInv
  <2>3. ASSUME NEW x \in Order, RestsOpen(s, x), NEW e \in Order, SameOrder(e, x),
               e.quantity = x.quantity, e.executed + e.open = x.executed + x.open,
               Advances(x.executed, e.executed), e.open >= 0
        PROVE  /\ IsOrderOf(e, s) /\ e.executed <= e.quantity /\ StillOpen(Reports, e)
               /\ \A k \in About(Reports, e) : Advances(Executed(Reports, k), e.executed)
    <3>1. /\ IsOrderOf(e, s) /\ e.executed <= e.quantity
          /\ About(Reports, e) = About(Reports, x) /\ About(Reports, x) # {}
          /\ \A k \in About(Reports, x) : /\ Reports[k].type \in OpenTypes
                                          /\ Executed(Reports, k) \in Int
                                          /\ Advances(Executed(Reports, k), e.executed)
      BY <2>3, ExecutedStory
    <3> QED
      BY <3>1 DEF StillOpen
  <2>4. CASE v = w /\ i = L + 1
    <3>1. /\ IsOrderOf(b, s) /\ b.executed <= b.quantity /\ StillOpen(Reports, b)
          /\ \A k \in About(Reports, b) : Advances(Executed(Reports, k), b.executed)
      BY <1>7, <1>10, <2>3
    <3>2. ASSUME NEW j \in DOMAIN processed'[w], i < j, SameOrder(processed'[w][j], b)
          PROVE  FALSE
      <4>1. j = L + 2
        BY <1>13, <2>4, <3>2
      <4> QED
        BY <1>8, <1>10, <1>13, <3>2, <4>1 DEF SameOrder
    <3>3. processed'[w][i] = b /\ wtask'[w].symbol = s
      BY <1>1, <1>5, <1>13, <2>4
    <3> QED
      BY <1>6, <2>4, <3>1, <3>2, <3>3 DEF CopyInv
  <2>5. CASE v = w /\ i = L + 2
    <3>1. /\ IsOrderOf(a, s) /\ a.executed <= a.quantity /\ StillOpen(Reports, a)
          /\ \A k \in About(Reports, a) : Advances(Executed(Reports, k), a.executed)
      BY <1>7, <1>10, <2>3
    <3>2. \A j \in DOMAIN processed'[w] : ~(i < j)
      BY <1>13, <2>5
    <3>3. processed'[w][i] = a /\ wtask'[w].symbol = s
      BY <1>1, <1>5, <1>13, <2>5
    <3> QED
      BY <1>6, <2>5, <3>1, <3>2, <3>3 DEF CopyInv
  <2> QED
    BY <1>13, <1>16, <2>1, <2>2, <2>4, <2>5
<1>17. DOMAIN books' = DOMAIN books /\ \A z \in DOMAIN books \ {s} : books'[z] = books[z]
  BY <1>3
<1>18. books'[s] = AfterMatch(books[s], bid, ask)
  BY <1>2, <1>3
<1>19. \A y \in books'[s] : \/ y \in books[s] \ {bid, ask}
                            \/ y = b /\ ~IsFilled(b)
                            \/ y = a /\ ~IsFilled(a)
  BY <1>4, <1>18 DEF AfterMatch, Unfilled
<1>20. \A y \in books[s] \ {bid, ask} :
          /\ ~SameOrder(y, bid) /\ ~SameOrder(y, ask) /\ ~SameOrder(y, b) /\ ~SameOrder(y, a)
          /\ ~SameOrder(b, y) /\ ~SameOrder(a, y)
  BY <1>2, <1>3, <1>7, <1>10 DEF LifeInv, RestsOpen, SameOrder
<1>21. ~SameOrder(b, a) /\ ~SameOrder(a, b)
  BY <1>8, <1>10 DEF SameOrder
<1>22. RestsOpen(s, b)' \/ IsFilled(b)
  <2>1. SUFFICES ASSUME ~IsFilled(b) PROVE RestsOpen(s, b)'
    OBVIOUS
  <2>2. \A y \in books'[s] : SameOrder(b, y) => b = y
    BY <1>19, <1>20, <1>21
  <2>3. \A c : c \in CopiesOf(processed', bid) <=> c \in CopiesOf(processed, bid) \/ c = b
    BY <1>8, <1>10, <1>13 DEF SameOrder
  <2> QED
    BY <1>6, <1>7, <1>10, <2>1, <2>2, <2>3, RestOfMatched
<1>23. RestsOpen(s, a)' \/ IsFilled(a)
  <2>1. SUFFICES ASSUME ~IsFilled(a) PROVE RestsOpen(s, a)'
    OBVIOUS
  <2>2. \A y \in books'[s] : SameOrder(a, y) => a = y
    BY <1>19, <1>20, <1>21
  <2>3. \A c : c \in CopiesOf(processed', ask) <=> c \in CopiesOf(processed, ask) \/ c = a
    BY <1>8, <1>10, <1>13 DEF SameOrder
  <2> QED
    BY <1>6, <1>7, <1>10, <2>1, <2>2, <2>3, RestOfMatched
<1>24. ASSUME NEW z \in DOMAIN books', NEW y \in books'[z] PROVE RestsOpen(z, y)'
  <2>1. ASSUME z \in DOMAIN books, y \in books[z], ~SameOrder(y, bid), ~SameOrder(y, ask),
               \A u \in books'[z] : SameOrder(y, u) => y = u
        PROVE  RestsOpen(z, y)'
    <3>1. RestsOpen(z, y)
      BY <2>1 DEF LifeInv
    <3>2. CopiesOf(processed', y) = CopiesOf(processed, y)
      BY <1>14, <2>1
    <3> QED
      BY <1>6, <2>1, <3>1, <3>2 DEF RestsOpen
  <2>2. CASE z # s
    <3>1. z \in DOMAIN books /\ y \in books[z] /\ books'[z] = books[z]
      BY <1>17, <1>24, <2>2
    <3>2. RestsOpen(z, y)
      BY <3>1 DEF LifeInv
    <3>3. ~SameOrder(y, bid) /\ ~SameOrder(y, ask)
      BY <1>7, <2>2, <3>2, NamesakesAgree DEF RestsOpen
    <3> QED
      BY <2>1, <3>1, <3>2, <3>3 DEF RestsOpen
  <2>3. CASE z = s /\ y \in books[s] \ {bid, ask}
    <3>1. RestsOpen(s, y)
      BY <1>2, <2>3 DEF LifeInv
    <3>2. \A u \in books'[s] : SameOrder(y, u) => y = u
      BY <1>19, <1>20, <2>3, <3>1 DEF RestsOpen
    <3> QED
      BY <1>2, <1>20, <2>1, <2>3, <3>2
  <2>4. CASE z = s /\ y = b /\ ~IsFilled(b)
    BY <1>22, <2>4
  <2>5. CASE z = s /\ y = a /\ ~IsFilled(a)
    BY <1>23, <2>5
  <2> QED
    BY <1>19, <1>24, <2>2, <2>3, <2>4, <2>5
<1>25. \A v \in Workers : wpc'[v] \in {"idle", "resubmitting"} => processed'[v] = <<>>
  BY <1>2, <1>5, <1>11 DEF LifeInv
<1>26. ToldInv(Reports')
  BY <1>6 DEF LifeInv
<1> QED
  BY <1>15, <1>16, <1>24, <1>25, <1>26 DEF LifeInv

(* The copies after the first of a worker's has been reported.              *)
LEMMA CopyTaken ==
    ASSUME MatcherInv, NEW w \in Workers, processed[w] # <<>>,
           processed' = [processed EXCEPT ![w] = Tail(@)],
           NEW c, c = Head(processed[w])
    PROVE  /\ c \in Order /\ 1 \in DOMAIN processed[w] /\ processed[w][1] = c
           /\ \A v \in Workers \ {w} : processed'[v] = processed[v]
           /\ \A i \in DOMAIN processed'[w] : /\ i \in Nat \ {0} /\ i + 1 \in DOMAIN processed[w]
                                              /\ processed'[w][i] = processed[w][i + 1]
           /\ \A i \in DOMAIN processed[w] : i = 1 \/ i - 1 \in DOMAIN processed'[w]
           /\ \A i \in DOMAIN processed[w] : i \in Nat /\ i >= 1
<1>1. PICK queue \in Seq(Order) : queue = processed[w]
  BY DEF MatcherInv, TypeOK
<1>2. /\ queue # <<>> /\ c = Head(queue) /\ processed'[w] = Tail(queue)
      /\ \A v \in Workers \ {w} : processed'[v] = processed[v]
  BY <1>1 DEF MatcherInv, TypeOK
<1>3. PICK rest : rest = Tail(queue)
  OBVIOUS
<1>4. /\ rest \in Seq(Order) /\ Len(rest) = Len(queue) - 1
       /\ \A i \in 1..Len(rest) : rest[i] = queue[i + 1]
  BY <1>2, <1>3, HeadTailProperties
<1>5. /\ Len(queue) \in Nat \ {0} /\ DOMAIN queue = 1..Len(queue) /\ DOMAIN rest = 1..Len(rest)
  BY <1>2, <1>4, LenProperties, EmptySeq
<1>6. c \in Order /\ queue[1] = c /\ 1 \in DOMAIN queue
  BY <1>2, <1>5, HeadTailProperties
<1>7. \A i \in DOMAIN rest : i \in Nat \ {0} /\ i + 1 \in DOMAIN queue /\ rest[i] = queue[i + 1]
  BY <1>4, <1>5
<1>8. \A i \in DOMAIN queue : i = 1 \/ i - 1 \in DOMAIN rest
  BY <1>4, <1>5
<1>9. \A i \in DOMAIN queue : i \in Nat /\ i >= 1
  BY <1>5
<1>10. processed'[w] = rest
  BY <1>2, <1>3
<1> QED
  BY <1>1, <1>2, <1>6, <1>7, <1>8, <1>9, <1>10

(* An order has lost a copy only if it is the one that is reported.          *)
LEMMA CopiesLeft ==
    ASSUME NEW w \in Workers, NEW c,
           1 \in DOMAIN processed[w] /\ processed[w][1] = c,
           \A v \in Workers \ {w} : processed'[v] = processed[v],
           \A i \in DOMAIN processed'[w] : /\ i \in Nat \ {0} /\ i + 1 \in DOMAIN processed[w]
                                           /\ processed'[w][i] = processed[w][i + 1],
           \A i \in DOMAIN processed[w] : i = 1 \/ i - 1 \in DOMAIN processed'[w],
           \A i \in DOMAIN processed[w] : i \in Nat /\ i >= 1,
           NEW o
    PROVE  /\ CopiesOf(processed', o) \subseteq CopiesOf(processed, o)
           /\ \A d \in CopiesOf(processed, o) : d = c \/ d \in CopiesOf(processed', o)
           /\ ~SameOrder(c, o) => CopiesOf(processed', o) = CopiesOf(processed, o)
<1>1. PICK after : after = processed'
  OBVIOUS
<1>2. ASSUME NEW d
      PROVE  /\ d \in CopiesOf(after, o)
                   <=> SameOrder(d, o) /\ \E v \in Workers : \E i \in DOMAIN after[v] : d = after[v][i]
             /\ d \in CopiesOf(processed, o)
                   <=> SameOrder(d, o)
                       /\ \E v \in Workers : \E i \in DOMAIN processed[v] : d = processed[v][i]
  BY CopiesFacts
<1>3. ASSUME NEW d \in CopiesOf(after, o) PROVE d \in CopiesOf(processed, o)
  <2>1. PICK v \in Workers : \E i \in DOMAIN after[v] : d = after[v][i]
    BY <1>2
  <2>2. \E i \in DOMAIN processed[v] : d = processed[v][i]
    BY <1>1, <2>1
  <2> QED
    BY <1>2, <2>2
<1>4. ASSUME NEW d \in CopiesOf(processed, o), d # c PROVE d \in CopiesOf(after, o)
  <2>1. PICK v \in Workers : \E i \in DOMAIN processed[v] : d = processed[v][i]
    BY <1>2
  <2>2. PICK i \in DOMAIN processed[v] : d = processed[v][i]
    BY <2>1
  <2>3. \E j \in DOMAIN after[v] : d = after[v][j]
    <3>1. CASE v = w
      <4>1. i # 1 /\ i \in Nat
        BY <1>4, <2>2, <3>1
      <4>2. i - 1 \in DOMAIN after[v] /\ after[v][i - 1] = processed[v][(i - 1) + 1] /\ (i - 1) + 1 = i
        BY <1>1, <2>2, <3>1, <4>1
      <4> QED
        BY <2>2, <4>2
    <3>2. CASE v # w
      BY <1>1, <2>2, <3>2
    <3> QED
      BY <3>1, <3>2
  <2> QED
    BY <1>2, <2>3
<1>5. ~SameOrder(c, o) => c \notin CopiesOf(processed, o)
  BY <1>2
<1>6. CopiesOf(after, o) \subseteq CopiesOf(processed, o)
  BY <1>3
<1>7. \A d \in CopiesOf(processed, o) : d = c \/ d \in CopiesOf(after, o)
  BY <1>4
<1>8. ~SameOrder(c, o) => CopiesOf(after, o) = CopiesOf(processed, o)
  BY <1>5, <1>6, <1>7
<1> QED
  BY <1>1, <1>6, <1>7, <1>8

(* The executed quantity of a report is an integer, and not negative.       *)
LEMMA ExecutedTold ==
    ASSUME MatcherInv, LifeInv, NEW i \in DOMAIN Reports
    PROVE  Executed(Reports, i) \in Nat /\ Reports[i].order \in Order
<1>1. Reports[i] \in Report
  BY ReportsFacts, ElementOfSeq
<1>2. Reports[i].order.executed >= 0
  BY DEF LifeInv, ToldInv, Continues
<1> QED
  BY <1>1, <1>2 DEF Executed, Report, Order

(* A report of an execution continues the story of its order.               *)
LEMMA ReportKeepsLife ==
    ASSUME MatcherInv, LifeInv, NEW w \in Workers, ReportProcessed(w)
    PROVE  LifeInv'
<1>1. PICK s, c : s = wtask[w].symbol /\ c = Head(processed[w])
  OBVIOUS
<1>2. PICK type : type = IF IsFilled(c) THEN "FILLED" ELSE "PARTIALLY_FILLED"
  OBVIOUS
<1>3. PICK r : r = MakeReport(type, s, c)
  OBVIOUS
<1>4. /\ wpc[w] = "reporting" /\ processed[w] # <<>>
      /\ outgoing' = Append(outgoing, r) /\ processed' = [processed EXCEPT ![w] = Tail(@)]
      /\ UNCHANGED <<dtask, books, wpc, wtask, delivered>> /\ tasks' = tasks
  BY <1>1, <1>2, <1>3, PoolKept, SameRingsSameTasks DEF ReportProcessed, dictionaries
<1>5. /\ c \in Order /\ 1 \in DOMAIN processed[w] /\ processed[w][1] = c
      /\ \A v \in Workers \ {w} : processed'[v] = processed[v]
      /\ \A i \in DOMAIN processed'[w] : /\ i \in Nat \ {0} /\ i + 1 \in DOMAIN processed[w]
                                         /\ processed'[w][i] = processed[w][i + 1]
      /\ \A i \in DOMAIN processed[w] : i = 1 \/ i - 1 \in DOMAIN processed'[w]
      /\ \A i \in DOMAIN processed[w] : i \in Nat /\ i >= 1
  BY <1>1, <1>4, CopyTaken
<1>6. \A o : /\ CopiesOf(processed', o) \subseteq CopiesOf(processed, o)
             /\ \A d \in CopiesOf(processed, o) : d = c \/ d \in CopiesOf(processed', o)
             /\ ~SameOrder(c, o) => CopiesOf(processed', o) = CopiesOf(processed, o)
  BY <1>5, CopiesLeft
<1>7. wtask[w] \in Messages /\ AtItsWorker(wtask[w], w) /\ s \in Symbols
  BY <1>1, <1>4, MessageFacts DEF MatcherInv, WorkerInv
<1>8. /\ r \in Report /\ r.order = c /\ r.type = type /\ ~Acknowledged(r)
      /\ r.type \in {"FILLED", "PARTIALLY_FILLED"} /\ (r.type = "FILLED" <=> IsFilled(c))
  BY <1>2, <1>3, <1>5, <1>7 DEF MakeReport, Report, Acknowledged
<1>9. /\ IsOrderOf(c, s) /\ c.executed <= c.quantity /\ StillOpen(Reports, c)
      /\ \A i \in About(Reports, c) : Advances(Executed(Reports, i), c.executed)
      /\ \A j \in DOMAIN processed[w] : 1 < j /\ SameOrder(processed[w][j], c) =>
            Advances(c.executed, processed[w][j].executed) /\ ~IsFilled(c)
  BY <1>1, <1>5 DEF LifeInv, CopyInv
<1>10. c.executed \in Int /\ c.quantity \in Int
  BY <1>5, QuantitiesAssumption DEF Order
<1>11. Continues(Reports, About(Reports, r.order), r)
  <2>1. \A i \in About(Reports, c) :
           /\ Reports[i].type \in OpenTypes
           /\ Executed(Reports, i) \in Nat /\ Advances(Executed(Reports, i), c.executed)
    BY <1>9, ExecutedTold DEF StillOpen, About
  <2>2. About(Reports, c) # {}
    BY <1>9 DEF StillOpen
  <2>3. c.executed >= 0
    BY <1>10, <2>1, <2>2 DEF Advances
  <2>4. \E i \in About(Reports, c) : Acknowledged(Reports[i])
    <3>1. PICK i \in Answers : SameOrder(Reports[i].order, c)
      BY <2>2, AnsweredFirst
    <3> QED
      BY <3>1 DEF Answers, About, IsAbout
  <2> QED
    BY <1>8, <1>9, <2>1, <2>3, <2>4 DEF Continues
<1>12. PICK N : N = Len(Reports)
  OBVIOUS
<1>13. /\ ToldInv(Reports')
       /\ \A o : ~SameOrder(c, o) =>
             /\ About(Reports', o) = About(Reports, o)
             /\ StillOpen(Reports, o) => StillOpen(Reports', o)
       /\ \A o : SameOrder(c, o) => About(Reports', o) = About(Reports, o) \cup {N + 1}
       /\ \A o : \A i \in About(Reports, o) : Reports'[i] = Reports[i]
       /\ Reports'[N + 1] = r
  BY <1>4, <1>7, <1>8, <1>9, <1>11, <1>12, ReportContinues
<1>14. ASSUME NEW n \in NewMessages PROVE WaitingInv(n)'
  <2>1. SUFFICES ASSUME dtask' = n \/ (\E v \in Workers : n \in ToSet(tasks'[v]))
                 PROVE  /\ About(Reports', n) # {} /\ CopiesOf(processed', n) = {}
                        /\ \A i \in About(Reports', n) : Reports'[i].type = "ACCEPTED"
    BY DEF WaitingInv
  <2>2. /\ About(Reports, n) # {} /\ CopiesOf(processed, n) = {}
        /\ \A i \in About(Reports, n) : Reports[i].type = "ACCEPTED"
    BY <1>4, <2>1 DEF LifeInv, WaitingInv
  <2>3. ~SameOrder(c, n)
    <3>1. \E v \in Workers : \E i \in DOMAIN processed[v] : c = processed[v][i]
      BY <1>5
    <3>2. SameOrder(c, n) => c \in CopiesOf(processed, n)
      BY <3>1, CopiesFacts
    <3> QED
      BY <2>2, <3>2
  <2> QED
    BY <1>6, <1>13, <2>2, <2>3
<1>15. ASSUME NEW o, SameOrder(c, o), ~IsFilled(c), StillOpen(Reports, o)
       PROVE  StillOpen(Reports', o)
  <2>1. About(Reports', o) = About(Reports, o) \cup {N + 1}
    BY <1>13, <1>15
  <2>2. Reports'[N + 1].type \in OpenTypes 
    BY <1>8, <1>13, <1>15 DEF OpenTypes
  <2>3. \A i \in About(Reports, o) : Reports'[i].type \in OpenTypes 
    BY <1>13, <1>15 DEF StillOpen
  <2> QED
    BY <2>1, <2>2, <2>3 DEF StillOpen
<1>16. ASSUME NEW v \in Workers, NEW i \in DOMAIN processed'[v] PROVE CopyInv(v, i)'
  <2>1. CASE v # w
    <3>1. CopyInv(v, i) /\ i \in DOMAIN processed[v] /\ processed'[v] = processed[v]
      BY <1>5, <1>16, <2>1 DEF LifeInv
    <3>2. ~SameOrder(processed[v][i], c)
      <4>1. SUFFICES ASSUME SameOrder(processed[v][i], c) PROVE FALSE
        OBVIOUS
      <4>2. wtask[v].symbol = s /\ AtItsWorker(wtask[v], v)
        BY <1>9, <3>1, <4>1, CopyAtItsWorker
      <4> QED
        BY <1>1, <1>7, <2>1, <4>2 DEF AtItsWorker, RingOf
    <3>3. ~SameOrder(c, processed[v][i])
      BY <3>2 DEF SameOrder
    <3> QED
      BY <1>4, <1>13, <3>1, <3>3, OtherCopyKept
  <2>2. CASE v = w
    <3>1. PICK d : d = processed[w][i + 1]
      OBVIOUS
    <3>2. i \in Nat /\ i + 1 \in DOMAIN processed[w] /\ processed'[w][i] = d /\ d \in Order
      <4>1. i \in Nat /\ i + 1 \in DOMAIN processed[w] /\ processed'[w][i] = d
        BY <1>5, <1>16, <2>2, <3>1
      <4> QED
        BY <3>1, <4>1, ElementOfSeq DEF MatcherInv, TypeOK
    <3>3. /\ IsOrderOf(d, s) /\ d.executed <= d.quantity /\ StillOpen(Reports, d)
          /\ \A j \in About(Reports, d) : Advances(Executed(Reports, j), d.executed)
          /\ \A j \in DOMAIN processed[w] : i + 1 < j /\ SameOrder(processed[w][j], d) =>
                Advances(d.executed, processed[w][j].executed) /\ ~IsFilled(d)
      BY <1>1, <3>1, <3>2 DEF LifeInv, CopyInv
    <3>4. /\ StillOpen(Reports', d)
          /\ \A j \in About(Reports', d) : Advances(Executed(Reports', j), d.executed)
      <4>1. CASE ~SameOrder(c, d)
        BY <1>13, <3>3, <4>1 DEF Executed
      <4>2. CASE SameOrder(c, d)
        <5>1. Advances(c.executed, d.executed) /\ ~IsFilled(c)
          <6>1. SameOrder(d, c)
            BY <4>2 DEF SameOrder
          <6>2. 1 < i + 1
            BY <1>5, <1>16, <2>2, <3>2
          <6> QED
            BY <1>9, <3>1, <3>2, <6>1, <6>2
        <5>2. StillOpen(Reports', d)
          BY <1>15, <3>3, <4>2, <5>1
        <5>3. About(Reports', d) = About(Reports, d) \cup {N + 1}
          BY <1>13, <4>2
        <5>4. Executed(Reports', N + 1) = c.executed
          BY <1>8, <1>13 DEF Executed
        <5>5. \A j \in About(Reports, d) : Executed(Reports', j) = Executed(Reports, j)
          BY <1>13 DEF Executed
        <5> QED
          BY <3>3, <5>1, <5>2, <5>3, <5>4, <5>5
      <4> QED
        BY <4>1, <4>2
    <3>5. ASSUME NEW j \in DOMAIN processed'[w], i < j, SameOrder(processed'[w][j], d)
          PROVE  Advances(d.executed, processed'[w][j].executed) /\ ~IsFilled(d)
      <4>1. j \in Nat /\ j + 1 \in DOMAIN processed[w] /\ processed'[w][j] = processed[w][j + 1]
        BY <1>5
      <4> QED
        BY <3>2, <3>3, <3>5, <4>1
    <3> QED
      BY <1>1, <1>4, <2>2, <3>2, <3>3, <3>4, <3>5 DEF CopyInv
  <2> QED
    BY <2>1, <2>2
<1>17. ASSUME NEW z \in DOMAIN books', NEW x \in books'[z] PROVE RestsOpen(z, x)'
  <2>1. RestsOpen(z, x) /\ books' = books /\ x \in Order
    BY <1>4, <1>17 DEF LifeInv, MatcherInv, TypeOK
  <2>2. CASE ~SameOrder(c, x)
    <3>1. CopiesOf(processed', x) = CopiesOf(processed, x)
      BY <1>6, <2>2
    <3> QED
      BY <1>13, <2>1, <2>2, <3>1, OtherRestKept
  <2>3. CASE SameOrder(c, x)
    <3>1. c \in CopiesOf(processed, x)
      BY <1>5, <2>3, CopiesFacts
    <3>2. c.executed <= x.executed /\ ~IsFilled(c)
      BY <2>1, <3>1 DEF RestsOpen
    <3>3. StillOpen(Reports', x)
      BY <1>15, <2>1, <2>3, <3>2 DEF RestsOpen
    <3>4. ASSUME NEW i \in About(Reports', x) PROVE Executed(Reports', i) <= x.executed
      <4>1. i \in About(Reports, x) \/ i = N + 1
        BY <1>13, <2>3
      <4>2. CASE i \in About(Reports, x)
        BY <1>13, <2>1, <4>2 DEF RestsOpen, Executed
      <4>3. CASE i = N + 1
        BY <1>8, <1>13, <3>2, <4>3 DEF Executed
      <4> QED
        BY <4>1, <4>2, <4>3
    <3>6. \A d \in CopiesOf(processed', x) : d.executed <= x.executed /\ ~IsFilled(d)
      BY <1>6, <2>1 DEF RestsOpen
    <3>7. \/ \E i \in About(Reports', x) : Executed(Reports', i) = x.executed
          \/ \E d \in CopiesOf(processed', x) : d.executed = x.executed
      <4>1. About(Reports', x) = About(Reports, x) \cup {N + 1}
        BY <1>13, <2>3
      <4>2. CASE \E i \in About(Reports, x) : Executed(Reports, i) = x.executed
        BY <1>13, <4>1, <4>2 DEF Executed
      <4>3. CASE \E d \in CopiesOf(processed, x) : d.executed = x.executed
        <5>1. PICK d \in CopiesOf(processed, x) : d.executed = x.executed
          BY <4>3
        <5>2. CASE d = c
          <6>1. Executed(Reports', N + 1) = x.executed
            BY <1>8, <1>13, <5>1, <5>2 DEF Executed
          <6> QED
            BY <4>1, <6>1
        <5>3. CASE d \in CopiesOf(processed', x)
          BY <5>1, <5>3
        <5> QED
          BY <1>6, <5>2, <5>3
      <4> QED
        BY <2>1, <4>2, <4>3 DEF RestsOpen
    <3> QED
      BY <2>1, <3>3, <3>4, <3>6, <3>7 DEF RestsOpen
  <2> QED
    BY <2>2, <2>3
<1>18. \A v \in Workers : wpc'[v] \in {"idle", "resubmitting"} => processed'[v] = <<>>
  BY <1>4, <1>5 DEF LifeInv
<1> QED
  BY <1>13, <1>14, <1>16, <1>17, <1>18 DEF LifeInv

(* taskCancelOrder erases the order it has found, and no other.             *)
LEMMA ErasesFound ==
    ASSUME NEW book \in SUBSET Order, NEW x \in book, NEW y, y = Cancel(x),
           \A z \in book : SameOrder(x, z) => x = z
    PROVE  Erase((book \ {x}) \cup {y}, y) = book \ {x}
<1>1. y.owner = x.owner /\ y.clientID = x.clientID
  BY DEF Cancel, Order
<1>2. \A z \in book \ {x} : ~(z.owner = y.owner /\ z.clientID = y.clientID) /\ z # y
  BY <1>1 DEF SameOrder
<1> DEFINE marked == (book \ {x}) \cup {y}
<1>3. Named(marked, y.owner, y.clientID, y.side) = {y}
  BY <1>2 DEF Named, OnSide
<1>4. Find(marked, y.owner, y.clientID, y.side) = {y}
  BY <1>3 DEF Find, First
<1> QED
  BY <1>2, <1>4 DEF Erase

(* taskCancelOrder ends the story of an order, at what it has executed.     *)
LEMMA CancelKeepsLife ==
    ASSUME MatcherInv, FIFOsInv, AnsweredInv, PipelineInv, LifeInv,
           NEW w \in Workers, TaskCancelOrder(w)
    PROVE  LifeInv'
<1>1. PICK m, s : m = Pool!Front(w) /\ s = m.symbol
  OBVIOUS
<1>2. Pop(w, "CANCEL")
  BY DEF TaskCancelOrder
<1>3. wpc[w] = "idle" /\ AtItsWorker(m, w) /\ s \in Symbols /\ Pool!PopFront(w)
  BY <1>1, <1>2, PopFacts
<1>4. PICK x \in Find(BookOf(books, s), m.owner, m.clientID, m.side) :
         /\ outgoing' = Append(outgoing, MakeReport("CANCELED", s, Cancel(x)))
         /\ books' = [books EXCEPT ![s] = Erase((books[s] \ {x}) \cup {Cancel(x)}, Cancel(x))]
  BY <1>1 DEF TaskCancelOrder
<1>5. UNCHANGED <<dtask, wpc, wtask, processed, delivered>>
  BY DEF TaskCancelOrder, workers
<1>6. s \in DOMAIN books /\ x \in books[s]
  <2>1. x \in BookOf(books, s)
    BY <1>4 DEF Find, First, Named, OnSide
  <2> QED
    BY <1>3, <2>1, BookFacts
<1>7. books[s] \subseteq Order /\ x \in Order /\ RestsOpen(s, x)
  BY <1>6 DEF MatcherInv, TypeOK, LifeInv
<1>8. PICK y : y = Cancel(x)
  OBVIOUS
<1>9. PICK r : r = MakeReport("CANCELED", s, y)
  OBVIOUS
<1>10. /\ y \in Order /\ SameOrder(y, x) /\ SameOrder(x, y)
       /\ y.executed = x.executed /\ y.quantity = x.quantity
  BY <1>7, <1>8, OrderFacts DEF Cancel, Order, SameOrder
<1>11. r \in Report /\ r.type = "CANCELED" /\ r.order = y /\ ~Acknowledged(r)
  BY <1>3, <1>9, <1>10 DEF MakeReport, Report, Acknowledged
<1>12. outgoing' = Append(outgoing, r) /\ delivered' = delivered
  BY <1>4, <1>5, <1>8, <1>9
<1>13. /\ DOMAIN books' = DOMAIN books /\ books'[s] = books[s] \ {x}
       /\ \A z \in DOMAIN books \ {s} : books'[z] = books[z]
  <2>1. Erase((books[s] \ {x}) \cup {y}, y) = books[s] \ {x}
    BY <1>6, <1>7, <1>8, ErasesFound DEF RestsOpen
  <2> QED
    BY <1>4, <1>6, <1>8, <2>1
<1>14. \A v \in Workers : \A i \in DOMAIN processed[v] : ~SameOrder(processed[v][i], x)
  <2>1. SUFFICES ASSUME NEW v \in Workers, NEW i \in DOMAIN processed[v],
                        SameOrder(processed[v][i], x)
                 PROVE  FALSE
    OBVIOUS
  <2>2. IsOrderOf(x, s)
    BY <1>7 DEF RestsOpen
  <2>3. wpc[v] # "idle" /\ wtask[v].symbol = s /\ AtItsWorker(wtask[v], v)
    BY <2>1, <2>2, CopyAtItsWorker
  <2> QED
    BY <1>1, <1>3, <2>3 DEF AtItsWorker, RingOf
<1>15. CopiesOf(processed, x) = {}
  BY <1>14, CopiesFacts
<1>16. /\ About(Reports, y) = About(Reports, x) /\ About(Reports, x) # {}
       /\ \A i \in About(Reports, x) :
             Reports[i].type \in OpenTypes /\ Executed(Reports, i) <= x.executed
       /\ \E i \in About(Reports, x) : Executed(Reports, i) = x.executed
  <2>1. About(Reports, y) = About(Reports, x)
    BY <1>10 DEF About, IsAbout, SameOrder
  <2> QED
    BY <1>7, <1>15, <2>1 DEF RestsOpen, StillOpen
<1>17. IsOrderOf(y, s)
  BY <1>7, <1>10 DEF RestsOpen, IsOrderOf, SameOrder
<1>18. Continues(Reports, About(Reports, r.order), r)
  <2>1. x.executed >= 0
    BY <1>16, ExecutedTold DEF About
  <2>2. \E i \in About(Reports, x) : Acknowledged(Reports[i])
    <3>1. PICK i \in Answers : SameOrder(Reports[i].order, x)
      BY <1>16, AnsweredFirst
    <3> QED
      BY <3>1 DEF Answers, About, IsAbout
  <2> QED
    BY <1>10, <1>11, <1>16, <2>1, <2>2 DEF Continues
<1>19. /\ ToldInv(Reports')
       /\ \A o : ~SameOrder(y, o) =>
             /\ About(Reports', o) = About(Reports, o)
             /\ StillOpen(Reports, o) => StillOpen(Reports', o)
       /\ \A o : \A i \in About(Reports, o) : Reports'[i] = Reports[i]
  BY <1>3, <1>11, <1>12, <1>17, <1>18, ReportContinues
<1>20. \A o : ~SameOrder(x, o) \/ ~SameOrder(o, x) => ~SameOrder(y, o)
  BY <1>10 DEF SameOrder
<1>21. ASSUME NEW n \in NewMessages PROVE WaitingInv(n)'
  <2>1. SUFFICES ASSUME dtask' = n \/ (\E v \in Workers : n \in ToSet(tasks'[v]))
                 PROVE  /\ About(Reports', n) # {} /\ CopiesOf(processed', n) = {}
                        /\ \A i \in About(Reports', n) : Reports'[i].type = "ACCEPTED"
    BY DEF WaitingInv
  <2>2. dtask = n \/ (\E v \in Workers : n \in ToSet(tasks[v]))
    BY <1>3, <1>5, <2>1, WaitingAfterPop
  <2>3. ~SameOrder(x, n)
    BY <1>6, <2>2, WaitingNotResting
  <2>4. /\ About(Reports, n) # {} /\ CopiesOf(processed, n) = {}
        /\ \A i \in About(Reports, n) : Reports[i].type = "ACCEPTED"
    BY <2>2 DEF LifeInv, WaitingInv
  <2> QED
    BY <1>5, <1>19, <1>20, <2>3, <2>4
<1>22. ASSUME NEW v \in Workers, NEW i \in DOMAIN processed'[v] PROVE CopyInv(v, i)'
  <2>1. CopyInv(v, i) /\ i \in DOMAIN processed[v] /\ ~SameOrder(y, processed[v][i])
    BY <1>5, <1>14, <1>20, <1>22 DEF LifeInv
  <2> QED
    BY <1>5, <1>19, <2>1, OtherCopyKept
<1>23. ASSUME NEW z \in DOMAIN books', NEW u \in books'[z] PROVE RestsOpen(z, u)'
  <2>1. z \in DOMAIN books /\ u \in books[z] /\ books'[z] \subseteq books[z] /\ (z = s => u # x)
    BY <1>13, <1>23
  <2>2. RestsOpen(z, u)
    BY <2>1 DEF LifeInv
  <2>3. ~SameOrder(x, u)
    BY <1>7, <2>1, <2>2, NamesakesAgree DEF RestsOpen
  <2> QED
    BY <1>5, <1>19, <1>20, <2>1, <2>2, <2>3, OtherRestKept
<1>24. \A v \in Workers : wpc'[v] \in {"idle", "resubmitting"} => processed'[v] = <<>>
  BY <1>5 DEF LifeInv
<1> QED
  BY <1>19, <1>21, <1>22, <1>23, <1>24 DEF LifeInv

(* Every step of every thread keeps the stories of the orders.              *)
LEMMA LifeStep ==
    ASSUME Quantities \subseteq Nat,
           MatcherInv, FIFOsInv, AnsweredInv, PipelineInv, LifeInv, [Next]_vars
    PROVE  LifeInv'
<1>1. CASE Next
  <2>1. CASE \/ \E m \in Messages : Receive(m)
             \/ CancelOrder \/ SubmitFindsRoom \/ SubmitFills \/ SubmitTask
             \/ Send
    BY <2>1, OutsideKeepsLife
  <2>2. CASE RejectOrder \/ AcceptOrder
    BY <2>2, AnswerKeepsLife
  <2>3. CASE \E w \in Workers : Work(w)
    <3>1. PICK w \in Workers : Work(w)
      BY <2>3
    <3>2. CASE TaskNewOrder(w)
      BY <3>2, NewOrderKeepsLife
    <3>3. CASE MatchTwoOrders(w)
      BY <3>3, MatchKeepsLife
    <3>4. CASE MatchingDone(w) \/ TaskNewOrderDone(w)
      BY <3>4, DoneKeepsLife
    <3>5. CASE ReportProcessed(w)
      BY <3>5, ReportKeepsLife
    <3>6. CASE TaskCancelOrder(w)
      BY <3>6, CancelKeepsLife
    <3>7. CASE Resubmits(w)
      BY <3>7, NotFoundKeepsLife
    <3> QED
      BY <3>1, <3>2, <3>3, <3>4, <3>5, <3>6, <3>7 DEF Work, Resubmits
  <2> QED
    BY <1>1, <2>1, <2>2, <2>3 DEF Next, Dispatch
<1>2. CASE UNCHANGED vars
  <2>1. /\ Reports' = Reports /\ processed' = processed /\ wpc' = wpc /\ wtask' = wtask
        /\ books' = books /\ dtask' = dtask /\ tasks' = tasks
    BY <1>2, PoolKept, SameRingsSameTasks DEF vars, reports, workers, dictionaries, Reports
  <2>2. \A w \in Workers : wpc[w] \in {"idle", "resubmitting"} => processed[w] = <<>>
    BY DEF LifeInv
  <2> QED
    BY <2>1, <2>2, LifeKept
<1> QED
  BY <1>1, <1>2

(* Until a rescheduled cancel meets the dispatcher inside push of one ring, *)
(* whatever is told of an order continues its story, and all that is still  *)
(* in hand agrees with it.  An order may be for nothing, not for less.      *)
THEOREM LifeInvariant ==
    ASSUME Quantities \subseteq Nat
    PROVE  Spec => [](overlapped \/ LifeInv)
<1>1. MatcherInv /\ ArrivalInv /\ (overlapped \/ FIFOsInv) /\ (overlapped \/ LifeInv)
        /\ [Next]_vars => (overlapped \/ LifeInv)'
  <2> SUFFICES ASSUME MatcherInv, ArrivalInv, overlapped \/ FIFOsInv,
                      overlapped \/ LifeInv, [Next]_vars
               PROVE  (overlapped \/ LifeInv)'
    OBVIOUS
  <2>1. CASE overlapped
    BY <2>1, OverlapIsForGood
  <2>2. CASE ~overlapped
    <3>1. AnsweredInv /\ PipelineInv
      BY <2>2 DEF ArrivalInv, AnsweredInv, PipelineInv
    <3> QED
      BY <2>2, <3>1, LifeStep
  <2> QED
    BY <2>1, <2>2
<1> QED
  BY <1>1, LifeInit, MatcherInvariant, ArrivalInvariant, RingsAreQueues, PTL DEF Spec

-----------------------------------------------------------------------------
(* The reports a client gets implement OrderLifecycle *)

(* A set of indices has a last one, ...                                     *)
LEMMA LastIn ==
    ASSUME NEW n \in Nat, NEW I \in SUBSET (1..n), I # {}
    PROVE  LastOf(I) \in I /\ \A j \in I : j <= LastOf(I)
<1>1. IsFiniteSet(I) /\ Cardinality(I) \in Nat
  BY IndicesFinite
<1>2. Cardinality(I) # 0
  BY <1>1, FS_EmptySet
<1>3. Cardinality(I) \in 1..Cardinality(I)
  BY <1>1, <1>2
<1>4. PICK i \in I : Cardinality(UpTo(I, i)) = Cardinality(I)
  BY <1>3, NthExists
<1>5. UpTo(I, i) = I
  <2>1. UpTo(I, i) \subseteq I
    BY DEF UpTo
  <2> QED
    BY <1>1, <1>4, <2>1, FS_Subset
<1>6. \A j \in I : j <= i
  BY <1>5 DEF UpTo
<1> QED
  BY <1>6 DEF LastOf

(* ... which is the one that comes behind all others.                       *)
LEMMA LastAdded ==
    ASSUME NEW n \in Nat, NEW I \in SUBSET (1..n), NEW last \in Nat, last > n
    PROVE  LastOf(I \cup {last}) = last
<1>1. \A i \in I : i \in Nat /\ i < last
  OBVIOUS
<1>2. ASSUME NEW i \in I \cup {last}, \A j \in I \cup {last} : j <= i PROVE i = last
  BY <1>1, <1>2
<1>3. \A j \in I \cup {last} : j <= last
  BY <1>1
<1> QED
  BY <1>2, <1>3 DEF LastOf

(* What a client has been told is a beginning of all that is reported.      *)
LEMMA DeliveredFacts ==
    ASSUME MatcherInv
    PROVE  /\ Len(delivered) \in Nat /\ DOMAIN delivered = 1..Len(delivered)
           /\ \A i \in DOMAIN delivered : i \in DOMAIN Reports /\ Reports[i] = delivered[i]
           /\ outgoing # <<>> => /\ Len(delivered) + 1 \in DOMAIN Reports
                                 /\ Reports[Len(delivered) + 1] = Head(outgoing)
<1>1. PICK told \in Seq(Report), rest \in Seq(Report) : told = delivered /\ rest = outgoing
  BY DEF MatcherInv, TypeOK
<1>2. /\ Len(told) \in Nat /\ DOMAIN told = 1..Len(told)
      /\ Len(rest) \in Nat /\ DOMAIN rest = 1..Len(rest)
  BY LenProperties
<1>3. /\ Reports = told \o rest /\ Len(told \o rest) = Len(told) + Len(rest)
      /\ \A i \in 1..(Len(told) + Len(rest)) :
            (told \o rest)[i] = IF i <= Len(told) THEN told[i] ELSE rest[i - Len(told)]
  BY <1>1, ConcatProperties DEF Reports
<1>4. DOMAIN Reports = 1..(Len(told) + Len(rest))
  BY <1>3, ReportsFacts
<1>5. PICK all : all = Reports
  OBVIOUS
<1>6. \A i \in 1..(Len(told) + Len(rest)) :
            all[i] = IF i <= Len(told) THEN told[i] ELSE rest[i - Len(told)]
  BY <1>3, <1>5
<1>7. \A i \in 1..Len(told) : i \in 1..(Len(told) + Len(rest)) /\ all[i] = told[i]
  BY <1>2, <1>6
<1>8. ASSUME rest # <<>>
      PROVE  /\ Len(told) + 1 \in 1..(Len(told) + Len(rest))
             /\ all[Len(told) + 1] = Head(rest)
  <2>1. Len(rest) >= 1 /\ Head(rest) = rest[1]
    BY <1>2, <1>8, HeadTailProperties, EmptySeq
  <2>2. Len(told) + 1 \in 1..(Len(told) + Len(rest))
    BY <1>2, <2>1
  <2>3. all[Len(told) + 1] = rest[1]
    BY <1>2, <1>6, <2>1, <2>2
  <2> QED
    BY <2>1, <2>2, <2>3
<1> QED
  BY <1>1, <1>2, <1>4, <1>5, <1>7, <1>8

(* The report that is sent next, seen from what the clients know.           *)
LEMMA NextSent ==
    ASSUME MatcherInv, LifeInv, Send
    PROVE  \E r \in Report : \E n \in NewMessages :
             LET k == Len(delivered) + 1
                 told == About(delivered, n) IN
             /\ SameOrder(r.order, n) /\ r.order.quantity = n.quantity
             /\ Continues(delivered, told, r)
             /\ DOMAIN delivered' = 1..k /\ delivered'[k] = r
             /\ \A i \in DOMAIN delivered : delivered'[i] = delivered[i]
             /\ \A j \in told : Continues(delivered, {i \in told : i < j}, delivered[j])
             /\ \A i \in told : Executed(delivered, i) \in Nat
<1>1. PICK r, k : r = Head(outgoing) /\ k = Len(delivered) + 1
  OBVIOUS
<1>2. outgoing # <<>> /\ delivered' = Append(delivered, r)
  BY <1>1 DEF Send
<1>3. /\ k \in Nat \ {0} /\ DOMAIN delivered = 1..(k - 1)
      /\ \A i \in DOMAIN delivered : i \in DOMAIN Reports /\ Reports[i] = delivered[i]
      /\ k \in DOMAIN Reports /\ Reports[k] = r
  BY <1>1, <1>2, DeliveredFacts
<1>4. r \in Report
  BY <1>3, ReportsFacts, ElementOfSeq
<1>5. /\ DOMAIN delivered' = 1..k /\ delivered'[k] = r
      /\ \A i \in DOMAIN delivered : delivered'[i] = delivered[i]
  <2>1. delivered \in Seq(Report)
    BY DEF MatcherInv, TypeOK
  <2>2. PICK longer : longer = delivered'
    OBVIOUS
  <2>3. /\ longer \in Seq(Report) /\ Len(longer) = k /\ longer[k] = r
        /\ \A i \in 1..(k - 1) : longer[i] = delivered[i]
    BY <1>1, <1>2, <1>3, <1>4, <2>1, <2>2, AppendProperties
  <2> QED
    BY <1>3, <2>2, <2>3, LenProperties
<1>6. PICK n \in NewMessages : SameOrder(r.order, n) /\ r.order.quantity = n.quantity
  BY <1>3 DEF LifeInv, ToldInv, IsOrderOf
<1>7. PICK told : told = About(delivered, n)
  OBVIOUS
<1>8. told \subseteq DOMAIN delivered /\ told = {i \in About(Reports, r.order) : i < k}
  <2>1. told \subseteq DOMAIN delivered
    BY <1>7 DEF About
  <2>2. \A i \in DOMAIN Reports : i < k => i \in DOMAIN delivered
    BY <1>3, ReportsFacts
  <2>3. \A i \in DOMAIN delivered : i < k
    BY <1>3
  <2>4. \A i : i \in told <=> i \in About(Reports, r.order) /\ i < k
    BY <1>3, <1>6, <1>7, <2>2, <2>3 DEF About, IsAbout, SameOrder
  <2> QED
    BY <2>1, <2>4
<1>9. ASSUME NEW some \in SUBSET DOMAIN delivered, NEW q
      PROVE  Continues(Reports, some, q) <=> Continues(delivered, some, q)
  BY <1>3 DEF Continues, Executed
<1>10. Continues(delivered, told, r)
  BY <1>3, <1>8, <1>9 DEF LifeInv, ToldInv
<1>11. ASSUME NEW j \in told
       PROVE  /\ Continues(delivered, {i \in told : i < j}, delivered[j])
              /\ Executed(delivered, j) \in Nat
  <2>1. j \in DOMAIN delivered /\ j \in DOMAIN Reports /\ Reports[j] = delivered[j]
    BY <1>3, <1>8
  <2>2. SameOrder(Reports[j].order, r.order)
    BY <1>8 DEF About, IsAbout
  <2>3. {i \in About(Reports, Reports[j].order) : i < j} = {i \in told : i < j}
    <3>1. About(Reports, Reports[j].order) = About(Reports, r.order)
      BY <2>2 DEF About, IsAbout, SameOrder
    <3>2. \A i \in About(Reports, r.order) : i < j => i < k
      BY <1>3, <2>1, ReportsFacts DEF About
    <3> QED
      BY <1>8, <3>1, <3>2
  <2>4. Continues(Reports, {i \in told : i < j}, Reports[j])
    BY <2>1, <2>3 DEF LifeInv, ToldInv
  <2>5. Executed(delivered, j) \in Nat
    BY <2>1, ExecutedTold DEF Executed
  <2>6. {i \in told : i < j} \subseteq DOMAIN delivered
    BY <1>8
  <2> QED
    BY <1>9, <2>1, <2>4, <2>5, <2>6
<1> QED
  BY <1>1, <1>4, <1>5, <1>6, <1>7, <1>10, <1>11

(* A report that is sent takes its order one step further.                  *)
LEMMA SendOfLifecycle ==
    ASSUME MatcherInv, LifeInv, Send
    PROVE  Lifecycle!Next
<1>1. PICK r \in Report, n \in NewMessages :
        LET k == Len(delivered) + 1
            told == About(delivered, n) IN
        /\ SameOrder(r.order, n) /\ r.order.quantity = n.quantity
        /\ Continues(delivered, told, r)
        /\ DOMAIN delivered' = 1..k /\ delivered'[k] = r
        /\ \A i \in DOMAIN delivered : delivered'[i] = delivered[i]
        /\ \A j \in told : Continues(delivered, {i \in told : i < j}, delivered[j])
        /\ \A i \in told : Executed(delivered, i) \in Nat
  BY NextSent
<1>2. PICK k, told : k = Len(delivered) + 1 /\ told = About(delivered, n)
  OBVIOUS
<1>3. /\ SameOrder(r.order, n) /\ r.order.quantity = n.quantity
      /\ Continues(delivered, told, r)
      /\ DOMAIN delivered' = 1..k /\ delivered'[k] = r
      /\ \A i \in DOMAIN delivered : delivered'[i] = delivered[i]
      /\ \A j \in told : Continues(delivered, {i \in told : i < j}, delivered[j])
      /\ \A i \in told : Executed(delivered, i) \in Nat
  BY <1>1, <1>2
<1>4. k \in Nat \ {0} /\ k - 1 \in Nat /\ DOMAIN delivered = 1..(k - 1)
  BY <1>2, DeliveredFacts
<1>5. \A m \in NewMessages : About(delivered, m) \subseteq 1..(k - 1)
  BY <1>4 DEF About
<1>6. ASSUME NEW m \in NewMessages, m # n
      PROVE  About(delivered', m) = About(delivered, m)
  <2>1. ~SameOrder(r.order, m)
    BY <1>3, <1>6, OneMessage
  <2>2. \A i \in 1..k : i \in 1..(k - 1) \/ i = k
    BY <1>4
  <2>3. \A i \in 1..(k - 1) : i \in 1..k /\ delivered'[i] = delivered[i]
    BY <1>3, <1>4
  <2> QED
    BY <1>3, <1>4, <2>1, <2>2, <2>3 DEF About, IsAbout
<1>7. About(delivered', n) = told \cup {k}
  <2>1. \A i \in 1..k : i \in 1..(k - 1) \/ i = k
    BY <1>4
  <2>2. \A i \in 1..(k - 1) : i \in 1..k /\ delivered'[i] = delivered[i]
    BY <1>3, <1>4
  <2>3. k \in 1..k
    BY <1>4
  <2> QED
    BY <1>2, <1>3, <1>4, <2>1, <2>2, <2>3 DEF About, IsAbout
<1>8. ASSUME NEW m \in NewMessages, m # n
      PROVE  StatusOf(m)' = StatusOf(m) /\ FilledOf(m)' = FilledOf(m)
  <2>1. CASE About(delivered, m) = {}
    BY <1>6, <1>8, <2>1 DEF StatusOf, FilledOf
  <2>2. CASE About(delivered, m) # {}
    <3>1. LastOf(About(delivered, m)) \in DOMAIN delivered
      BY <1>4, <1>5, <2>2, LastIn
    <3>2. ToldLast(m)' = ToldLast(m)
      BY <1>3, <1>6, <1>8, <3>1 DEF ToldLast
    <3> QED
      BY <1>6, <1>8, <3>2 DEF StatusOf, FilledOf
  <2> QED
    BY <2>1, <2>2
<1>9. StatusOf(n)' = r.type /\ FilledOf(n)' = r.order.executed
  <2>1. LastOf(told \cup {k}) = k
    <3>1. told \in SUBSET (1..(k - 1)) /\ k > k - 1
      BY <1>2, <1>4, <1>5
    <3> QED
      BY <1>4, <3>1, LastAdded
  <2>2. ToldLast(n)' = r
    BY <1>3, <1>7, <2>1 DEF ToldLast
  <2> QED
    BY <1>7, <2>2 DEF StatusOf, FilledOf
<1> DEFINE status == [m \in NewMessages |-> StatusOf(m)]
           filledQty == [m \in NewMessages |-> FilledOf(m)]
<1>10. status' = [status EXCEPT ![n] = r.type] /\ filledQty' = [filledQty EXCEPT ![n] = r.order.executed]
  BY <1>8, <1>9
<1>11. CASE Acknowledged(r)
  <2>1. told = {} /\ r.order.executed = 0 /\ r.type \in {"ACCEPTED", "REJECTED"}
    BY <1>3, <1>11 DEF Continues, Acknowledged
  <2>2. StatusOf(n) = "unknown" /\ FilledOf(n) = 0
    BY <1>2, <2>1 DEF StatusOf, FilledOf
  <2>3. filledQty' = filledQty
    BY <1>10, <2>1, <2>2
  <2>4. Lifecycle!Acknowledge(n, r.type)
    BY <1>10, <2>1, <2>2, <2>3 DEF Lifecycle!Acknowledge
  <2> QED
    BY <2>1, <2>4 DEF Lifecycle!Next
<1>12. CASE ~Acknowledged(r)
  <2>1. told # {} /\ \A i \in told : delivered[i].type \in OpenTypes
    BY <1>3, <1>12 DEF Continues
  <2>2. PICK last \in told : /\ \A j \in told : j <= last
                             /\ StatusOf(n) = delivered[last].type
                             /\ FilledOf(n) = Executed(delivered, last)
    <3>1. LastOf(told) \in told /\ \A j \in told : j <= LastOf(told)
      BY <1>2, <1>4, <1>5, <2>1, LastIn
    <3> QED
      BY <1>2, <2>1, <3>1 DEF StatusOf, FilledOf, ToldLast, Executed
  <2>3. Lifecycle!IsLive(n) /\ FilledOf(n) \in Nat
    BY <1>3, <2>1, <2>2 DEF Lifecycle!IsLive, OpenTypes
  <2>4. r.order.executed \in Int /\ n.quantity \in Int /\ r.order \in Order
    BY <1>3, QuantitiesAssumption DEF Report, Order
  <2>5. CASE r.type \in {"PARTIALLY_FILLED", "FILLED"}
    <3>1. /\ Advances(FilledOf(n), r.order.executed) /\ r.order.executed <= n.quantity
          /\ r.type = (IF r.order.executed = n.quantity THEN "FILLED" ELSE "PARTIALLY_FILLED")
      BY <1>3, <2>2, <2>5 DEF Continues, IsFilled
    <3>2. PICK q \in 0..n.quantity :
              FilledOf(n) + q = r.order.executed /\ (q = 0 => SomeEmpty)
      <4>1. FilledOf(n) <= r.order.executed /\ (FilledOf(n) = r.order.executed => SomeEmpty)
        BY <3>1 DEF Advances
      <4>2. r.order.executed - FilledOf(n) \in 0..n.quantity
        BY <2>3, <2>4, <3>1, <4>1
      <4>3. /\ FilledOf(n) + (r.order.executed - FilledOf(n)) = r.order.executed
            /\ r.order.executed - FilledOf(n) = 0 => FilledOf(n) = r.order.executed
        BY <2>3, <2>4
      <4> QED
        BY <4>1, <4>2, <4>3
    <3>3. filledQty[n] = FilledOf(n)
      OBVIOUS
    <3>4. Lifecycle!Tradable(q)
      <4>1. q > 0 \/ q = 0
        BY <2>4, <3>2
      <4> QED
        BY <3>2, <4>1 DEF Lifecycle!Tradable, SomeEmpty, RequestedOf
    <3>5. Lifecycle!Trade(n, q)
      BY <1>10, <2>3, <3>1, <3>2, <3>3, <3>4 DEF Lifecycle!Trade, RequestedOf
    <3> QED
      BY <3>2, <3>5 DEF Lifecycle!Next, RequestedOf
  <2>6. CASE r.type = "CANCELED"
    <3>1. /\ \A i \in told : Executed(delivered, i) <= r.order.executed
          /\ \E i \in told : Executed(delivered, i) = r.order.executed
      BY <1>3, <2>6 DEF Continues
    <3>2. FilledOf(n) = r.order.executed
      <4>1. PICK i \in told : Executed(delivered, i) = r.order.executed
        BY <3>1
      <4>2. i <= last /\ i \in Nat /\ last \in Nat
        BY <1>2, <1>4, <1>5, <2>2
      <4>3. CASE i = last
        BY <2>2, <4>1, <4>3
      <4>4. CASE i < last      \* then the last one is a trade, and not of less
        <5>1. PICK before : before = {j \in told : j < last}
          OBVIOUS
        <5>2. i \in before /\ Continues(delivered, before, delivered[last])
          BY <1>3, <4>4, <5>1
        <5>3. CASE delivered[last].type = "ACCEPTED"
          BY <5>2, <5>3 DEF Continues, Acknowledged
        <5>4. CASE delivered[last].type = "PARTIALLY_FILLED"
          <6>1. Executed(delivered, i) <= Executed(delivered, last)
            BY <5>2, <5>4 DEF Continues, Executed, Advances
          <6>2. Executed(delivered, last) <= r.order.executed /\ Executed(delivered, last) \in Nat
            BY <1>3, <3>1
          <6> QED
            BY <2>2, <2>4, <4>1, <6>1, <6>2
        <5> QED
          BY <2>1, <5>3, <5>4 DEF OpenTypes
      <4> QED
        BY <4>2, <4>3, <4>4
    <3>3. filledQty' = filledQty
      BY <1>10, <3>2
    <3>4. Lifecycle!Cancel(n)
      BY <1>10, <2>3, <2>6, <3>3 DEF Lifecycle!Cancel
    <3> QED
      BY <3>4 DEF Lifecycle!Next
  <2> QED
    BY <1>12, <2>5, <2>6 DEF Report, Acknowledged
<1> QED
  BY <1>11, <1>12

(* The reports that the server sends a client are an order's life as        *)
(* README.md promises it: answered once, before anything else; trades that  *)
(* add up; nothing after FILLED or CANCELED; until a rescheduled cancel      *)
(* meets the dispatcher inside push of one ring.                            *)
THEOREM OrdersLiveAsPromised ==
    ASSUME Quantities \subseteq Nat
    PROVE  Spec => ImplementsLifecycle
<1>1. Init => Lifecycle!Init
  <2> SUFFICES ASSUME Init PROVE Lifecycle!Init
    OBVIOUS
  <2>1. \A m \in NewMessages : About(delivered, m) = {}
    BY DEF Init, About
  <2> QED
    BY <2>1 DEF Lifecycle!Init, StatusOf, FilledOf
<1>2. MatcherInv /\ (overlapped \/ LifeInv) /\ [Next]_vars
        => [overlapped' \/ Lifecycle!Next]_lifecycleVars
  <2> SUFFICES ASSUME MatcherInv, overlapped \/ LifeInv, [Next]_vars
               PROVE  overlapped' \/ Lifecycle!Next \/ UNCHANGED lifecycleVars
    OBVIOUS
  <2>0. CASE overlapped
    BY <2>0, OverlapIsForGood
  <2>1. CASE Send /\ LifeInv
    BY <2>1, SendOfLifecycle
  <2>2. CASE delivered' = delivered
    BY <2>2 DEF lifecycleVars, Lifecycle!lifecycleVars, StatusOf, FilledOf, ToldLast
  <2>3. Send \/ delivered' = delivered
    BY DEF Next, Dispatch, Work, Receive, RejectOrder, AcceptOrder, CancelOrder,
           SubmitFindsRoom, SubmitFills, SubmitTask, TaskNewOrder, MatchTwoOrders, MatchingDone, ReportProcessed, TaskNewOrderDone,
           TaskCancelOrder, TaskCancelOrderNotFound, RescheduleFindsRoom, RescheduleFills,
           Reschedule, reports, vars
  <2> QED
    BY <2>0, <2>1, <2>2, <2>3
<1> QED
  BY <1>1, <1>2, MatcherInvariant, LifeInvariant, PTL DEF Spec, ImplementsLifecycle
=============================================================================
