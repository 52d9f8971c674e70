---------------------------- MODULE MailboxProofs ----------------------------
(***************************************************************************)
(* Proofs about Mailbox for every capacity, strategy and set of processes: *)
(* the queue keeps its order and its bound, no waiting operation is        *)
(* forgotten, and every accepted message leaves the queue once.            *)
(***************************************************************************)
EXTENDS Mailbox, MailboxQueueProofs

(* The inductive invariant.  The properties alone are not inductive: that  *)
(* a new message is younger than every other one needs Younger, and that   *)
(* an attempt can leave nobody parked in vain needs the bound on the queue,*)
(* and that a woken sender sends a message needs HoldsOffer.               *)
Younger == \A m \in InBox \cup delivered \cup evicted : m.stamp <= accepted

DeliveredOlder == \A m \in delivered, n \in InBox : SameClass(m, n) => m.stamp < n.stamp

HoldsOffer == \A s \in Senders : wait[s] # "no" => held[s] \in Offer

IInv ==
    /\ TypeOK
    /\ HoldsOffer
    /\ CapacityBound
    /\ Ordered(queue)
    /\ Younger
    /\ DeliveredOlder
    /\ EvictsOldestFirst
    /\ NoLostWakeup
    /\ AccountedFor

(* A new mailbox satisfies the invariant.                                  *)
LEMMA InitIInv == Init => IInv
<1> SUFFICES ASSUME Init PROVE IInv
  OBVIOUS
<1>1. queue = << >> /\ Len(queue) = 0 /\ queue \in Seq(Message)
  BY DEF Init
<1>2. InBox = {}
  BY <1>1 DEF InBox
<1>3. TypeOK
  <2>1. wait \in [Procs -> {"no", "parked", "woken"}]
    BY DEF Init
  <2>2. held \in [Senders -> Offer \cup {None}]
    BY DEF Init
  <2>3. metrics \in [received : Nat, dropsFullOld : Nat]
    BY DEF Init
  <2>4. strategy \in Strategies /\ closed \in BOOLEAN /\ accepted \in 0..MaxSends
    <3>1. strategy \in Strategies /\ closed = FALSE /\ accepted = 0
      BY DEF Init
    <3>2. 0 \in 0..MaxSends
      BY MaxSendsAssumption
    <3>3. QED
      BY <3>1, <3>2
  <2>5. delivered \subseteq Message /\ evicted \subseteq Message
    BY DEF Init
  <2>6. QED
    BY <1>1, <2>1, <2>2, <2>3, <2>4, <2>5 DEF TypeOK
<1>4. CapacityBound /\ Ordered(queue)
  BY <1>1, CapacityAssumption DEF CapacityBound, Ordered
<1>5. Younger /\ DeliveredOlder /\ EvictsOldestFirst
  BY <1>2 DEF Init, Younger, DeliveredOlder, EvictsOldestFirst
<1>6. NoLostWakeup /\ AccountedFor /\ HoldsOffer
  BY <1>1 DEF Init, NoLostWakeup, AccountedFor, HoldsOffer, Procs
<1>7. QED
  BY <1>3, <1>4, <1>5, <1>6 DEF IInv

(* What an accepted message does to the queue and the history, with or     *)
(* without an eviction.                                                    *)
LEMMA StampedMessage ==
    ASSUME IInv, NEW o \in Offer, accepted < MaxSends
    PROVE  /\ Stamped(o) \in Message
           /\ Stamped(o).stamp = accepted + 1
           /\ \A i \in 1..Len(queue) : queue[i].stamp < Stamped(o).stamp
<1>1. accepted \in Nat /\ accepted + 1 \in 1..MaxSends
  BY MaxSendsAssumption DEF IInv, TypeOK
<1>2. Stamped(o) \in Message /\ Stamped(o).stamp = accepted + 1
  BY <1>1 DEF Stamped, Offer, Message
<1>3. ASSUME NEW i \in 1..Len(queue) PROVE queue[i].stamp < accepted + 1
  <2>1. queue[i] \in InBox
    BY DEF InBox
  <2>2. queue[i] \in Message
    BY ElementOfSeq DEF IInv, TypeOK
  <2>3. queue[i].stamp \in Nat
    BY <2>2, MessageFields
  <2>4. QED
    BY <1>1, <2>1, <2>3 DEF IInv, Younger
<1>4. QED
  BY <1>2, <1>3

(* tryInsert below the capacity.                                           *)
LEMMA AcceptedWithRoom ==
    ASSUME IInv, NEW o \in Offer, accepted < MaxSends, InsertWithRoom(Stamped(o))
    PROVE  /\ queue' \in Seq(Message)
           /\ Len(queue') = Len(queue) + 1 /\ Len(queue') <= Capacity
           /\ Ordered(queue')
           /\ InBox' = InBox \cup {Stamped(o)}
           /\ UNCHANGED <<metrics, evicted>>
<1>1. /\ Inserted(queue, Stamped(o), queue') /\ UNCHANGED <<metrics, evicted>>
      /\ Len(queue) < Capacity
  BY DEF InsertWithRoom, HasRoom
<1>2. queue \in Seq(Message) /\ Ordered(queue)
  BY DEF IInv, TypeOK
<1>3. /\ queue' \in Seq(Message)
      /\ Len(queue') = Len(queue) + 1
      /\ Elements(queue') = Elements(queue) \cup {Stamped(o)}
      /\ Ordered(queue')
  BY <1>1, <1>2, StampedMessage, InsertedKeepsOrder
<1>4. Len(queue') <= Capacity
  <2>1. Len(queue) \in Nat
    BY <1>2, LenProperties
  <2>2. QED
    BY <1>1, <1>3, <2>1, CapacityAssumption
<1>5. InBox' = InBox \cup {Stamped(o)}
  BY <1>3 DEF InBox, Elements
<1>6. QED
  BY <1>1, <1>3, <1>4, <1>5

(* tryInsert on a full queue, when it evicts.                              *)
LEMMA AcceptedEvicting ==
    ASSUME IInv, NEW o \in Offer, accepted < MaxSends, InsertEvicting(Stamped(o))
    PROVE  \E v \in InBox :
              /\ queue' \in Seq(Message)
              /\ Len(queue') = Len(queue)
              /\ Ordered(queue')
              /\ InBox' = (InBox \ {v}) \cup {Stamped(o)}
              /\ evicted' = evicted \cup {v}
              /\ metrics' = [metrics EXCEPT !.dropsFullOld = @ + 1]
              /\ \A n \in InBox \ {v} : v.imp = n.imp => v.stamp < n.stamp
<1>1. PICK d \in 1..Len(queue) :
          /\ IsVictim(queue, d)
          /\ Inserted(RemoveAt(queue, d), Stamped(o), queue')
          /\ evicted' = evicted \cup {queue[d]}
          /\ metrics' = [metrics EXCEPT !.dropsFullOld = @ + 1]
  BY DEF InsertEvicting
<1>2. queue \in Seq(Message) /\ Ordered(queue) /\ Len(queue) \in Nat
  BY LenProperties DEF IInv, TypeOK
<1> DEFINE rest == RemoveAt(queue, d)
<1>12. rest = RemoveAt(queue, d)
  OBVIOUS
<1> HIDE DEF rest
<1>3. /\ rest \in Seq(Message)
      /\ Len(rest) = Len(queue) - 1
      /\ \A i \in 1..Len(rest) : rest[i] = IF i < d THEN queue[i] ELSE queue[i + 1]
  BY <1>2, <1>12, RemoveAtProperties
<1>4. Ordered(rest) /\ Elements(rest) = Elements(queue) \ {queue[d]}
  BY <1>2, <1>3, RemovedKeepsOrder
<1>5. \A i \in 1..Len(rest) : rest[i].stamp < Stamped(o).stamp
  BY <1>2, <1>3, StampedMessage
<1>6. /\ queue' \in Seq(Message)
      /\ Len(queue') = Len(rest) + 1
      /\ Elements(queue') = Elements(rest) \cup {Stamped(o)}
      /\ Ordered(queue')
  <2>1. Inserted(rest, Stamped(o), queue')
    BY <1>1, <1>12
  <2>2. QED
    BY <2>1, <1>3, <1>4, <1>5, StampedMessage, InsertedKeepsOrder
<1>7. ASSUME NEW n \in InBox \ {queue[d]}, queue[d].imp = n.imp
      PROVE  queue[d].stamp < n.stamp
  <2>1. PICK i \in 1..Len(queue) : n = queue[i] /\ i # d
    BY DEF InBox
  <2>2. n \in Message /\ queue[d] \in Message
    BY <1>2, <2>1, ElementOfSeq
  <2>3. ~(i < d)
    BY <1>1, <1>7, <2>1, <2>2, MessageFields DEF IsVictim
  <2>4. SameClass(queue[d], queue[i])
    BY <1>7, <2>1 DEF SameClass, IsSystem
  <2>5. QED
    BY <1>2, <2>1, <2>3, <2>4 DEF Ordered
<1>8. queue[d] \in InBox
  BY DEF InBox
<1>9. InBox' = (InBox \ {queue[d]}) \cup {Stamped(o)}
  BY <1>4, <1>6 DEF InBox, Elements
<1>10. Len(queue') = Len(queue)
  BY <1>2, <1>3, <1>6
<1>11. QED
  BY <1>1, <1>6, <1>7, <1>8, <1>9, <1>10

(* A message that enters a box of messages older than it, from which at    *)
(* most one was evicted, keeps the history in order.                       *)
LEMMA AcceptPreserves ==
    ASSUME IInv, NEW s \in Senders, NEW o \in Offer, ~closed, Accept(s, o)
    PROVE  IInv'
<1> DEFINE m == Stamped(o)
<1>1. /\ accepted < MaxSends
      /\ InsertWithRoom(m) \/ InsertEvicting(m)
      /\ accepted' = accepted + 1
      /\ BroadcastAndReturn(s)
      /\ held' = [held EXCEPT ![s] = None]
      /\ strategy' = strategy /\ closed' = closed /\ delivered' = delivered
  BY DEF Accept
<1>2. /\ m \in Message /\ m.stamp = accepted + 1
      /\ \A i \in 1..Len(queue) : queue[i].stamp < m.stamp
  BY <1>1, StampedMessage
<1>3. /\ accepted \in Nat /\ accepted + 1 \in 0..MaxSends
      /\ queue \in Seq(Message) /\ Len(queue) \in Nat
      /\ InBox \subseteq Message /\ delivered \subseteq Message /\ evicted \subseteq Message
  BY <1>1, MaxSendsAssumption, LenProperties, ElementOfSeq DEF IInv, TypeOK, InBox
<1> HIDE DEF m
<1>4. ASSUME NEW n \in InBox \cup delivered \cup evicted
      PROVE  n \in Message /\ n.stamp \in Nat /\ n.stamp < m.stamp
  <2>1. n \in Message /\ n.stamp \in Nat /\ n.stamp <= accepted
    BY <1>3, MessageFields DEF IInv, Younger
  <2>2. QED
    BY <2>1, <1>2, <1>3
<1>5. /\ wait' \in [Procs -> {"no", "parked", "woken"}]
      /\ \A p \in Procs : wait'[p] # "parked"
  BY <1>1 DEF BroadcastAndReturn, IInv, TypeOK
<1>6. held' \in [Senders -> Offer \cup {None}]
  BY <1>1 DEF IInv, TypeOK
<1>7. metrics.received \in Nat /\ metrics.dropsFullOld \in Nat
  BY DEF IInv, TypeOK
<1>8. NoLostWakeup' /\ HoldsOffer'
  <2>1. NoLostWakeup'
    BY <1>5 DEF NoLostWakeup, Procs
  <2>2. ASSUME NEW t \in Senders, wait'[t] # "no" PROVE held'[t] \in Offer
    BY <1>1, <2>2 DEF BroadcastAndReturn, IInv, TypeOK, HoldsOffer, Procs
  <2>3. QED
    BY <2>1, <2>2 DEF HoldsOffer
<1>9. CASE InsertWithRoom(m)
  <2>1. /\ queue' \in Seq(Message)
        /\ Len(queue') = Len(queue) + 1 /\ Len(queue') <= Capacity
        /\ Ordered(queue')
        /\ InBox' = InBox \cup {m}
        /\ UNCHANGED <<metrics, evicted>>
    BY <1>1, <1>9, AcceptedWithRoom DEF m
  <2>2. TypeOK'
    BY <1>1, <1>3, <1>5, <1>6, <2>1 DEF IInv, TypeOK
  <2>3. Younger'
    BY <1>1, <1>2, <1>3, <1>4, <2>1 DEF Younger
  <2>4. DeliveredOlder' /\ EvictsOldestFirst'
    BY <1>1, <1>4, <2>1 DEF IInv, DeliveredOlder, EvictsOldestFirst, SameClass
  <2>5. AccountedFor'
    <3>1. accepted = Len(queue) + metrics.received + metrics.dropsFullOld
      BY DEF IInv, AccountedFor
    <3>2. /\ accepted' = accepted + 1 /\ Len(queue') = Len(queue) + 1
          /\ metrics'.received = metrics.received
          /\ metrics'.dropsFullOld = metrics.dropsFullOld
      BY <1>1, <2>1
    <3>3. accepted' = Len(queue') + metrics'.received + metrics'.dropsFullOld
      BY <3>1, <3>2, <1>3, <1>7
    <3>4. QED
      BY <3>3 DEF AccountedFor
  <2>6. QED
    BY <1>8, <2>1, <2>2, <2>3, <2>4, <2>5 DEF IInv, CapacityBound, Ordered, SameClass
<1>10. CASE InsertEvicting(m)
  <2>1. PICK v \in InBox :
              /\ queue' \in Seq(Message)
              /\ Len(queue') = Len(queue)
              /\ Ordered(queue')
              /\ InBox' = (InBox \ {v}) \cup {m}
              /\ evicted' = evicted \cup {v}
              /\ metrics' = [metrics EXCEPT !.dropsFullOld = @ + 1]
              /\ \A n \in InBox \ {v} : v.imp = n.imp => v.stamp < n.stamp
    BY <1>1, <1>10, AcceptedEvicting DEF m
  <2>2. metrics' \in [received : Nat, dropsFullOld : Nat]
    BY <2>1 DEF IInv, TypeOK
  <2>3. TypeOK'
    BY <1>1, <1>3, <1>5, <1>6, <2>1, <2>2 DEF IInv, TypeOK
  <2>4. Younger'
    BY <1>1, <1>2, <1>3, <1>4, <2>1 DEF Younger
  <2>5. DeliveredOlder' /\ EvictsOldestFirst'
    BY <1>1, <1>4, <2>1 DEF IInv, DeliveredOlder, EvictsOldestFirst, SameClass
  <2>6. metrics'.received = metrics.received /\ metrics'.dropsFullOld = metrics.dropsFullOld + 1
    BY <2>1 DEF IInv, TypeOK
  <2>7. AccountedFor'
    <3>1. accepted = Len(queue) + metrics.received + metrics.dropsFullOld
      BY DEF IInv, AccountedFor
    <3>2. /\ accepted' = accepted + 1 /\ Len(queue') = Len(queue)
          /\ metrics'.received = metrics.received
          /\ metrics'.dropsFullOld = metrics.dropsFullOld + 1
      BY <1>1, <2>1, <2>6
    <3>3. accepted' = Len(queue') + metrics'.received + metrics'.dropsFullOld
      BY <3>1, <3>2, <1>3, <1>7
    <3>4. QED
      BY <3>3 DEF AccountedFor
  <2>8. QED
    BY <1>8, <2>1, <2>3, <2>4, <2>5, <2>7 DEF IInv, CapacityBound, Ordered, SameClass
<1>11. QED
  BY <1>1, <1>9, <1>10

(* An operation that leaves the queue and the history alone, and parks     *)
(* nobody but a process for which there is nothing to do.                  *)
LEMMA QuietPreserves ==
    ASSUME IInv, UNCHANGED <<strategy, queue, metrics, history>>,
           closed' \in BOOLEAN,
           wait' \in [Procs -> {"no", "parked", "woken"}],
           held' \in [Senders -> Offer \cup {None}],
           NoLostWakeup', HoldsOffer'
    PROVE  IInv'
<1>1. /\ strategy' = strategy /\ queue' = queue /\ metrics' = metrics
      /\ accepted' = accepted /\ delivered' = delivered /\ evicted' = evicted
  BY DEF history
<1>2. InBox' = InBox
  BY <1>1 DEF InBox
<1>3. TypeOK'
  BY <1>1 DEF IInv, TypeOK
<1>4. CapacityBound' /\ Ordered(queue)' /\ AccountedFor'
  BY <1>1 DEF IInv, CapacityBound, Ordered, SameClass, AccountedFor
<1>5. Younger' /\ DeliveredOlder' /\ EvictsOldestFirst'
  BY <1>1, <1>2 DEF IInv, Younger, DeliveredOlder, EvictsOldestFirst, SameClass
<1>6. QED
  BY <1>3, <1>4, <1>5 DEF IInv

(* An operation of a sender that ends without effect.                      *)
LEMMA FailPreserves ==
    ASSUME IInv, NEW s \in Senders, Fail(s)
    PROVE  IInv'
<1>1. wait' = [wait EXCEPT ![s] = "no"] /\ closed' = closed /\ queue' = queue
  BY DEF Fail, Return
<1>2. wait' \in [Procs -> {"no", "parked", "woken"}]
  BY <1>1 DEF IInv, TypeOK
<1>3. held' \in [Senders -> Offer \cup {None}]
  BY DEF Fail, IInv, TypeOK
<1>4. NoLostWakeup' /\ HoldsOffer'
  <2>1. NoLostWakeup'
    BY <1>1 DEF IInv, TypeOK, NoLostWakeup, Procs
  <2>2. ASSUME NEW t \in Senders, wait'[t] # "no" PROVE held'[t] \in Offer
    BY <1>1, <2>2 DEF Fail, IInv, TypeOK, HoldsOffer, Procs
  <2>3. QED
    BY <2>1, <2>2 DEF HoldsOffer
<1>5. UNCHANGED <<strategy, queue, metrics, history>> /\ closed' \in BOOLEAN
  BY DEF Fail, IInv, TypeOK
<1>6. QED
  BY <1>2, <1>3, <1>4, <1>5, QuietPreserves

(* The head is older than what stays of its class.                         *)
LEMMA TakenHead ==
    ASSUME IInv, NEW r \in Receivers, TakeHead(r)
    PROVE  /\ Head(queue) \in InBox
           /\ queue' \in Seq(Message)
           /\ Len(queue') = Len(queue) - 1
           /\ Ordered(queue')
           /\ InBox' = InBox \ {Head(queue)}
           /\ \A n \in InBox' : SameClass(Head(queue), n) => Head(queue).stamp < n.stamp
<1>1. queue \in Seq(Message) /\ Ordered(queue) /\ Len(queue) \in Nat /\ queue # << >>
  BY LenProperties DEF IInv, TypeOK, TakeHead
<1>2. 1 \in 1..Len(queue) /\ Head(queue) = queue[1]
  BY <1>1, EmptySeq
<1>3. /\ queue' \in Seq(Message)
      /\ Len(queue') = Len(queue) - 1
      /\ \A i \in 1..Len(queue') : queue'[i] = queue[i + 1]
  BY <1>1, HeadTailProperties DEF TakeHead
<1>4. \A i \in 1..Len(queue') : queue'[i] = IF i < 1 THEN queue[i] ELSE queue[i + 1]
  BY <1>3
<1>5. Ordered(queue') /\ Elements(queue') = Elements(queue) \ {queue[1]}
  BY <1>1, <1>2, <1>3, <1>4, RemovedKeepsOrder
<1>6. ASSUME NEW n \in InBox', SameClass(Head(queue), n)
      PROVE  Head(queue).stamp < n.stamp
  <2>1. PICK i \in 1..Len(queue') : n = queue'[i]
    BY DEF InBox
  <2>2. i + 1 \in 1..Len(queue) /\ 1 < i + 1 /\ n = queue[i + 1]
    BY <1>1, <1>3, <2>1
  <2>3. QED
    BY <1>1, <1>2, <1>6, <2>2 DEF Ordered
<1>7. QED
  BY <1>2, <1>3, <1>5, <1>6 DEF InBox, Elements

(* A receive preserves the invariant.                                      *)
LEMMA TakeHeadPreserves ==
    ASSUME IInv, NEW r \in Receivers, TakeHead(r)
    PROVE  IInv'
<1> DEFINE h == Head(queue)
<1>1. /\ delivered' = delivered \cup {h}
      /\ metrics' = [metrics EXCEPT !.received = @ + 1]
      /\ BroadcastAndReturn(r)
      /\ UNCHANGED <<strategy, closed, held, accepted, evicted>>
  BY DEF TakeHead
<1>2. /\ h \in InBox
      /\ queue' \in Seq(Message)
      /\ Len(queue') = Len(queue) - 1
      /\ Ordered(queue')
      /\ InBox' = InBox \ {h}
      /\ \A n \in InBox' : SameClass(h, n) => h.stamp < n.stamp
  BY TakenHead
<1> HIDE DEF h
<1>3. Len(queue) \in Nat /\ Len(queue) <= Capacity /\ h \in Message
  BY <1>2, LenProperties, ElementOfSeq DEF IInv, TypeOK, CapacityBound, InBox
<1>4. /\ wait' \in [Procs -> {"no", "parked", "woken"}]
      /\ \A p \in Procs : wait'[p] # "parked"
  BY <1>1 DEF BroadcastAndReturn, IInv, TypeOK
<1>5. NoLostWakeup' /\ HoldsOffer'
  <2>1. NoLostWakeup'
    BY <1>4 DEF NoLostWakeup, Procs
  <2>2. ASSUME NEW t \in Senders, wait'[t] # "no" PROVE held'[t] \in Offer
    BY <1>1, <2>2 DEF BroadcastAndReturn, IInv, TypeOK, HoldsOffer, Procs
  <2>3. QED
    BY <2>1, <2>2 DEF HoldsOffer
<1>6. /\ metrics' \in [received : Nat, dropsFullOld : Nat]
      /\ metrics.received \in Nat /\ metrics.dropsFullOld \in Nat
      /\ metrics'.received = metrics.received + 1
      /\ metrics'.dropsFullOld = metrics.dropsFullOld
  BY <1>1 DEF IInv, TypeOK
<1>7. TypeOK'
  BY <1>1, <1>2, <1>3, <1>4, <1>6 DEF IInv, TypeOK
<1>8. Younger'
  BY <1>1, <1>2 DEF IInv, Younger
<1>9. DeliveredOlder' /\ EvictsOldestFirst'
  BY <1>1, <1>2 DEF IInv, DeliveredOlder, EvictsOldestFirst, SameClass
<1>10. AccountedFor'
  <2>1. accepted = Len(queue) + metrics.received + metrics.dropsFullOld
    BY DEF IInv, AccountedFor
  <2>2. accepted' = Len(queue') + metrics'.received + metrics'.dropsFullOld
    BY <2>1, <1>1, <1>2, <1>3, <1>6
  <2>3. QED
    BY <2>2 DEF AccountedFor
<1>11. CapacityBound'
  BY <1>2, <1>3, CapacityAssumption DEF CapacityBound
<1>12. QED
  BY <1>2, <1>5, <1>7, <1>8, <1>9, <1>10, <1>11 DEF IInv, Ordered, SameClass

----------------------------------------------------------------------------

(* Every step of the mailbox preserves the invariant.                      *)
LEMMA NextIInv == IInv /\ [Next]_vars => IInv'
<1> SUFFICES ASSUME IInv, [Next]_vars PROVE IInv'
  OBVIOUS
<1>0. /\ wait \in [Procs -> {"no", "parked", "woken"}]
      /\ held \in [Senders -> Offer \cup {None}]
      /\ closed \in BOOLEAN
      /\ NoLostWakeup /\ HoldsOffer
  BY DEF IInv, TypeOK
<1>1. ASSUME NEW s \in Senders, Send(s) PROVE IInv'
  <2>1. PICK o \in Offer : (~closed /\ Accept(s, o)) \/ Fail(s)
    BY <1>1 DEF Send
  <2>2. QED
    BY <2>1, AcceptPreserves, FailPreserves
<1>2. ASSUME NEW s \in Senders, SendWait(s) PROVE IInv'
  <2>1. PICK o \in Offers(s) :
            \/ Fail(s)
            \/ ~closed /\ ~Blocks /\ Accept(s, o)
            \/ /\ ~closed /\ Blocks
               /\ Park(s)
               /\ held' = [held EXCEPT ![s] = o]
               /\ UNCHANGED <<strategy, queue, closed, metrics, history>>
    BY <1>2 DEF SendWait
  <2>2. o \in Offer
    BY <1>0, <2>1 DEF Offers, HoldsOffer
  <2>3. CASE Fail(s)
    BY <2>3, FailPreserves
  <2>4. CASE ~closed /\ Accept(s, o)
    BY <2>2, <2>4, AcceptPreserves
  <2>5. CASE /\ ~closed /\ Blocks
             /\ Park(s)
             /\ held' = [held EXCEPT ![s] = o]
             /\ UNCHANGED <<strategy, queue, closed, metrics, history>>
    <3>1. wait' = [wait EXCEPT ![s] = "parked"] /\ queue' = queue /\ closed' = closed
      BY <2>5 DEF Park
    <3>2. wait' \in [Procs -> {"no", "parked", "woken"}]
      BY <1>0, <3>1
    <3>3. held' \in [Senders -> Offer \cup {None}]
      BY <1>0, <2>2, <2>5
    <3>4. NoLostWakeup'
      <4>1. ASSUME NEW r \in Receivers, wait'[r] = "parked" PROVE queue = << >> /\ ~closed
        BY <1>0, <3>1, <4>1, ProcAssumption DEF NoLostWakeup, Procs
      <4>2. ASSUME NEW t \in Senders, wait'[t] = "parked" PROVE ~HasRoom(queue) /\ ~closed
        BY <1>0, <3>1, <4>2, <2>5 DEF NoLostWakeup, Procs, Blocks
      <4>3. QED
        BY <3>1, <4>1, <4>2 DEF NoLostWakeup, HasRoom
    <3>5. HoldsOffer'
      BY <1>0, <2>2, <2>5, <3>1 DEF HoldsOffer, Procs
    <3>6. QED
      BY <1>0, <2>5, <3>1, <3>2, <3>3, <3>4, <3>5, QuietPreserves
  <2>6. QED
    BY <2>1, <2>3, <2>4, <2>5
<1>3. ASSUME NEW s \in Senders, GiveUpSend(s) PROVE IInv'
  BY <1>3, FailPreserves DEF GiveUpSend
<1>4. ASSUME NEW r \in Receivers, Receive(r) PROVE IInv'
  BY <1>4, TakeHeadPreserves DEF Receive
<1>5. ASSUME NEW r \in Receivers, wait' = [wait EXCEPT ![r] = "no"],
             UNCHANGED <<strategy, queue, closed, held, metrics, history>>
      PROVE  IInv'
  <2>1. queue' = queue /\ closed' = closed /\ held' = held
    BY <1>5
  <2>2. wait' \in [Procs -> {"no", "parked", "woken"}]
    BY <1>0, <1>5
  <2>3. NoLostWakeup' /\ HoldsOffer'
    BY <1>0, <1>5, <2>1 DEF NoLostWakeup, HoldsOffer, HasRoom, Procs
  <2>4. QED
    BY <1>0, <1>5, <2>1, <2>2, <2>3, QuietPreserves
<1>6. ASSUME NEW r \in Receivers, ReceiveWait(r) PROVE IInv'
  <2>1. CASE TakeHead(r)
    BY <2>1, TakeHeadPreserves
  <2>2. CASE /\ Return(r)
             /\ UNCHANGED <<strategy, queue, closed, held, metrics, history>>
    BY <2>2, <1>5 DEF Return
  <2>3. CASE /\ queue = << >> /\ ~closed
             /\ Park(r)
             /\ UNCHANGED <<strategy, queue, closed, held, metrics, history>>
    <3>1. /\ wait' = [wait EXCEPT ![r] = "parked"]
          /\ queue' = queue /\ closed' = closed /\ held' = held
      BY <2>3 DEF Park
    <3>2. wait' \in [Procs -> {"no", "parked", "woken"}]
      BY <1>0, <3>1
    <3>3. NoLostWakeup'
      <4>1. ASSUME NEW q \in Receivers, wait'[q] = "parked" PROVE queue = << >> /\ ~closed
        BY <2>3
      <4>2. ASSUME NEW t \in Senders, wait'[t] = "parked" PROVE ~HasRoom(queue) /\ ~closed
        BY <1>0, <3>1, <4>2, ProcAssumption DEF NoLostWakeup, Procs
      <4>3. QED
        BY <3>1, <4>1, <4>2 DEF NoLostWakeup, HasRoom
    <3>4. HoldsOffer'
      BY <1>0, <3>1, ProcAssumption DEF HoldsOffer, Procs
    <3>5. QED
      BY <1>0, <2>3, <3>1, <3>2, <3>3, <3>4, QuietPreserves
  <2>4. QED
    BY <1>6, <2>1, <2>2, <2>3 DEF ReceiveWait
<1>7. ASSUME NEW r \in Receivers, GiveUpReceive(r) PROVE IInv'
  BY <1>7, <1>5 DEF GiveUpReceive, Return
<1>8. ASSUME Close PROVE IInv'
  <2>1. /\ \A p \in Procs : wait'[p] # "parked" /\ (wait'[p] # "no" => wait[p] # "no")
        /\ wait' \in [Procs -> {"no", "parked", "woken"}]
        /\ held' = held /\ closed' \in BOOLEAN
    BY <1>0, <1>8 DEF Close
  <2>2. NoLostWakeup' /\ HoldsOffer'
    BY <1>0, <2>1 DEF NoLostWakeup, HoldsOffer, Procs
  <2>3. UNCHANGED <<strategy, queue, metrics, history>>
    BY <1>8 DEF Close
  <2>4. QED
    BY <1>0, <2>1, <2>2, <2>3, QuietPreserves
<1>9. CASE UNCHANGED vars
  <2>1. /\ UNCHANGED <<strategy, queue, metrics, history>>
        /\ wait' = wait /\ held' = held /\ closed' = closed /\ queue' = queue
    BY <1>9 DEF vars
  <2>2. NoLostWakeup' /\ HoldsOffer'
    BY <1>0, <2>1 DEF NoLostWakeup, HoldsOffer, HasRoom
  <2>3. QED
    BY <1>0, <2>1, <2>2, QuietPreserves
<1>10. QED
  BY <1>1, <1>2, <1>3, <1>4, <1>6, <1>7, <1>8, <1>9 DEF Next

(* The conjunction above is an invariant of the mailbox.                   *)
THEOREM Invariance == Spec => []IInv
  BY InitIInv, NextIInv, PTL DEF Spec

(* The fields of Mailbox keep their types.                                 *)
THEOREM TypeCorrect == Spec => []TypeOK
<1>1. IInv => TypeOK
  BY DEF IInv
<1>2. QED
  BY <1>1, Invariance, PTL

(* len(mb.queue) <= config.Capacity, whatever the strategy.                *)
THEOREM CapacityRespected == Spec => []CapacityBound
<1>1. IInv => CapacityBound
  BY DEF IInv
<1>2. QED
  BY <1>1, Invariance, PTL

(* No System message is ever behind another message.                       *)
THEOREM SystemLeads == Spec => []SystemFirst
<1>1. IInv => SystemFirst
  BY DEF IInv, Ordered, SystemFirst
<1>2. QED
  BY <1>1, Invariance, PTL

(* Messages of a class are delivered in the order they were accepted.      *)
THEOREM InOrder == Spec => []DeliversInOrder
<1>1. IInv => DeliversInOrder
  BY DEF IInv, Ordered, DeliveredOlder, DeliversInOrder
<1>2. QED
  BY <1>1, Invariance, PTL

(* A full mailbox never gives up a message while it keeps an older one of  *)
(* the same importance.                                                    *)
THEOREM OldestEvicted == Spec => []EvictsOldestFirst
<1>1. IInv => EvictsOldestFirst
  BY DEF IInv
<1>2. QED
  BY <1>1, Invariance, PTL

(* The published counters account for every accepted message.              *)
THEOREM CountersExact == Spec => []AccountedFor
<1>1. IInv => AccountedFor
  BY DEF IInv
<1>2. QED
  BY <1>1, Invariance, PTL

(* Nobody waits for what is already there: broadcast() reaches everyone    *)
(* that a change of the queue concerns.                                    *)
THEOREM WakeupsKept == Spec => []NoLostWakeup
<1>1. IInv => NoLostWakeup
  BY DEF IInv
<1>2. QED
  BY <1>1, Invariance, PTL

----------------------------------------------------------------------------

(* Accepting a message, with or without an eviction, is a step of the      *)
(* abstract mailbox.                                                       *)
LEMMA AcceptIsPromised ==
    ASSUME IInv, NEW s \in Senders, NEW o \in Offer, ~closed, Accept(s, o)
    PROVE  Promise!Next
<1> DEFINE m == Stamped(o)
<1>1. /\ accepted < MaxSends
      /\ InsertWithRoom(m) \/ InsertEvicting(m)
      /\ closed' = closed /\ delivered' = delivered
  BY DEF Accept
<1>2. m \in Message /\ m.stamp = accepted + 1 /\ accepted \in Nat
  BY <1>1, StampedMessage DEF IInv, TypeOK
<1>3. Promise!New(m)
  BY <1>2 DEF Promise!New, IInv, Younger
<1>4. CASE InsertWithRoom(m)
  <2>1. InBox' = InBox \cup {m} /\ evicted' = evicted
    BY <1>1, <1>4, AcceptedWithRoom
  <2>2. Promise!Accept(m)
    BY <1>1, <1>3, <2>1 DEF Promise!Accept
  <2>3. QED
    BY <1>2, <2>2 DEF Promise!Next
<1>5. CASE InsertEvicting(m)
  <2>1. PICK v \in InBox : InBox' = (InBox \ {v}) \cup {m} /\ evicted' = evicted \cup {v}
    BY <1>1, <1>5, AcceptedEvicting
  <2>2. v \in Message
    BY ElementOfSeq DEF IInv, TypeOK, InBox
  <2>3. Promise!Replace(m, v)
    BY <1>1, <1>3, <2>1 DEF Promise!Replace
  <2>4. QED
    BY <1>2, <2>2, <2>3 DEF Promise!Next
<1>6. QED
  BY <1>1, <1>4, <1>5

(* A receive is the delivery of one message of the box.                    *)
LEMMA TakeHeadIsPromised ==
    ASSUME IInv, NEW r \in Receivers, TakeHead(r)
    PROVE  Promise!Next
<1>1. Head(queue) \in InBox /\ InBox' = InBox \ {Head(queue)}
  BY TakenHead
<1>2. Head(queue) \in Message
  BY <1>1, ElementOfSeq DEF IInv, TypeOK, InBox
<1>3. Promise!Deliver(Head(queue))
  BY <1>1 DEF TakeHead, Promise!Deliver
<1>4. QED
  BY <1>2, <1>3 DEF Promise!Next

(* Every step of the mailbox is a step of the abstract one, or stutters.   *)
LEMMA NextIsPromised == IInv /\ [Next]_vars => [Promise!Next]_(Promise!vars)
<1> SUFFICES ASSUME IInv, [Next]_vars PROVE [Promise!Next]_(Promise!vars)
  OBVIOUS
<1>1. ASSUME UNCHANGED <<queue, closed, history>> PROVE UNCHANGED Promise!vars
  BY <1>1 DEF history, InBox, Promise!vars
<1>2. ASSUME NEW s \in Senders, Fail(s) PROVE UNCHANGED Promise!vars
  BY <1>1, <1>2 DEF Fail
<1>3. ASSUME NEW s \in Senders, Send(s) \/ SendWait(s) \/ GiveUpSend(s)
      PROVE  [Promise!Next]_(Promise!vars)
  <2>1. CASE Send(s)
    <3>1. PICK o \in Offer : (~closed /\ Accept(s, o)) \/ Fail(s)
      BY <2>1 DEF Send
    <3>2. QED
      BY <3>1, <1>2, AcceptIsPromised
  <2>2. CASE SendWait(s)
    <3>1. PICK o \in Offers(s) :
              \/ Fail(s)
              \/ ~closed /\ Accept(s, o)
              \/ UNCHANGED <<queue, closed, history>>
      BY <2>2 DEF SendWait
    <3>2. wait[s] # "no" => held[s] \in Offer
      BY DEF IInv, HoldsOffer
    <3>3. o \in Offer
      BY <3>1, <3>2 DEF Offers
    <3>4. QED
      BY <3>1, <3>3, <1>1, <1>2, AcceptIsPromised
  <2>3. CASE GiveUpSend(s)
    BY <2>3, <1>2 DEF GiveUpSend
  <2>4. QED
    BY <1>3, <2>1, <2>2, <2>3
<1>4. ASSUME NEW r \in Receivers, Receive(r) \/ ReceiveWait(r) \/ GiveUpReceive(r)
      PROVE  [Promise!Next]_(Promise!vars)
  <2>1. TakeHead(r) \/ UNCHANGED <<queue, closed, history>>
    BY <1>4 DEF Receive, ReceiveWait, GiveUpReceive
  <2>2. QED
    BY <2>1, <1>1, TakeHeadIsPromised
<1>5. CASE Close
  <2>1. Promise!Close
    BY <1>5 DEF Close, history, InBox, Promise!Close
  <2>2. QED
    BY <2>1 DEF Promise!Next
<1>6. CASE UNCHANGED vars
  BY <1>1, <1>6 DEF vars
<1>7. QED
  BY <1>3, <1>4, <1>5, <1>6 DEF Next

(* The mailbox implements MailboxPromise: every accepted message is in the *)
(* queue until it is delivered once or evicted, and a closed mailbox takes *)
(* no message in but still delivers what it holds.                         *)
THEOREM Refinement == Spec => KeepsPromise
<1>1. Init => Promise!Init
  BY DEF Init, Promise!Init, InBox
<1>2. IInv /\ [Next]_vars => [Promise!Next]_(Promise!vars)
  BY NextIsPromised
<1>3. QED
  BY <1>1, <1>2, Invariance, PTL DEF Spec, KeepsPromise, Promise!Spec
=============================================================================
