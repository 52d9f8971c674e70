----------------------- MODULE SelectiveReceiveProofs -----------------------
(***************************************************************************)
(* Proofs about SelectiveReceive for every capacity, strategy and set of   *)
(* receivers: predicate receives are exact as long as nothing overtakes a  *)
(* scan, and even a scan that was overtaken keeps the order of the queue   *)
(* and the sum of the counters.                                            *)
(***************************************************************************)
EXTENDS SelectiveReceive, MailboxQueueProofs, FiniteSetTheorems

(* What an array may hold, and what is known of a receive in progress.     *)
Cell == Message \cup {None}

Scans == [st : {"reading", "parked", "woken"}, block : BOOLEAN, want : Kinds,
          arr : Nat, off : Nat, len : Nat, i : Nat, msg : Cell]

TypeOK ==
    /\ arrays \in Seq(Seq(Cell)) /\ arrays # << >>
    /\ off \in Nat /\ len \in Nat
    /\ off + len <= Len(cells)
    /\ queue \in Seq(Message)
    /\ scan \in [Receivers -> Scans \cup {None}]
    /\ received \in Nat
    /\ accepted \in 0..MaxSends
    /\ evicted \subseteq Message /\ IsFiniteSet(evicted)

(* Stamps tell messages apart: nothing the mailbox holds or gave up has    *)
(* the stamp of the next message, and what it gave up is not in the queue. *)
Younger == \A m \in Elements(queue) \cup evicted : m.stamp <= accepted
Apart == evicted \cap Elements(queue) = {}

(* The slice header of a scan stays within its array, which a later append *)
(* to the queue neither shrinks nor frees.                                 *)
HeaderKept(sc) ==
    /\ sc.arr \in 1..Len(arrays)
    /\ sc.off + sc.len <= Len(arrays[sc.arr])

(* A scan nothing has overtaken sees the front of the queue of now: either *)
(* through the array of the queue, whose front no send overwrites, or      *)
(* through an older array nobody writes any more.                          *)
SeesFront(sc) ==
    /\ sc.len <= len
    /\ sc.arr = Len(arrays) => sc.off = off
    /\ \A k \in 1..sc.len : arrays[sc.arr][sc.off + k] = queue[k]

Reading(r) == scan[r] # None /\ scan[r].st = "reading"

ScanHolds(sc) ==
    /\ HeaderKept(sc)
    /\ sc.i < sc.len
    /\ ~disturbed => SeesFront(sc) /\ sc.msg = queue[sc.i + 1]

ScansHold == \A r \in Receivers : Reading(r) => ScanHolds(scan[r])

(* What was delivered, as long as no scan was overtaken.                   *)
Exact ==
    ~disturbed =>
        /\ \A m \in DOMAIN delivered :
              m \in Message /\ m.stamp <= accepted /\ delivered[m] = 1 /\ m \notin Elements(queue)
        /\ \A s \in 1..accepted :
              \E m \in Elements(queue) \cup DOMAIN delivered \cup evicted : m.stamp = s

(* The inductive invariant.  ExactUndisturbed is not inductive: that the   *)
(* message a predicate accepted is the one at its position needs ScansHold,*)
(* and that a new message is none of the old ones needs Younger.           *)
IInv ==
    /\ TypeOK
    /\ Ordered(queue)
    /\ Younger
    /\ Apart
    /\ ScansHold
    /\ Exact
    /\ AccountedFor

----------------------------------------------------------------------------

(* The length of a sequence is known from its domain.                      *)
LEMMA SameRange ==
    ASSUME NEW a \in Nat, NEW b \in Nat, 1..a = 1..b
    PROVE  a = b
<1>1. a # 0 => a \in 1..b
  OBVIOUS
<1>2. b # 0 => b \in 1..a
  OBVIOUS
<1>3. QED
  BY <1>1, <1>2

(* A slice of an array.                                                    *)
LEMMA SliceOf ==
    ASSUME NEW c \in Seq(Cell), NEW o \in Nat, NEW n \in Nat, o + n <= Len(c),
           NEW q, q = SubSeq(c, o + 1, o + n)
    PROVE  /\ q \in Seq(Cell)
           /\ Len(q) = n
           /\ \A k \in 1..n : q[k] = c[o + k]
<1>1. o + 1 \in Nat \ {0} /\ o + n \in Nat
  OBVIOUS
<1>2. /\ q \in Seq(Cell)
      /\ Len(q) = IF o + 1 <= o + n THEN (o + n) - (o + 1) + 1 ELSE 0
      /\ \A k \in 1..Len(q) : q[k] = c[(o + 1) + k - 1]
  BY <1>1, SubSeqOfSeq
<1>3. Len(q) = n
  BY <1>2
<1>4. ASSUME NEW k \in 1..n PROVE q[k] = c[o + k]
  <2>1. (o + 1) + k - 1 = o + k
    OBVIOUS
  <2>2. QED
    BY <1>2, <1>3, <2>1
<1>5. QED
  BY <1>2, <1>3, <1>4

(* The queue is the slice off..off+len of the last array.                  *)
LEMMA QueueIs ==
    ASSUME TypeOK
    PROVE  /\ Len(arrays) \in Nat \ {0}
           /\ cells \in Seq(Cell)
           /\ Len(cells) \in Nat /\ DOMAIN cells = 1..Len(cells)
           /\ Len(queue) = len
           /\ \A k \in 1..len : queue[k] = cells[off + k]
           /\ \A k \in 1..len : queue[k] \in Message
           /\ InBox = Elements(queue)
<1>1. Len(arrays) \in Nat \ {0}
  BY EmptySeq DEF TypeOK
<1>2. cells \in Seq(Cell)
  <2>1. Len(arrays) \in 1..Len(arrays)
    BY <1>1
  <2>2. QED
    BY <2>1, ElementOfSeq DEF TypeOK, cells
<1>3. Len(cells) \in Nat /\ DOMAIN cells = 1..Len(cells)
  BY <1>2, LenProperties
<1>4. /\ Len(queue) = len
      /\ \A k \in 1..len : queue[k] = cells[off + k]
  BY <1>2, SliceOf DEF TypeOK, queue
<1>5. \A k \in 1..len : queue[k] \in Message
  BY <1>4, ElementOfSeq DEF TypeOK
<1>6. InBox = Elements(queue)
  BY <1>4 DEF InBox, Elements
<1>7. QED
  BY <1>1, <1>2, <1>3, <1>4, <1>5, <1>6

(* A queue written over its array: the array keeps its length and what is  *)
(* outside of the slice.                                                   *)
LEMMA OverwrittenIs ==
    ASSUME TypeOK, NEW nq \in Seq(Message), Len(nq) <= Len(cells) - off
    PROVE  /\ Overwritten(off, nq) \in Seq(Cell)
           /\ Len(Overwritten(off, nq)) = Len(cells)
           /\ \A k \in 1..Len(nq) : Overwritten(off, nq)[off + k] = nq[k]
<1> DEFINE w == Overwritten(off, nq)
<1>1. /\ cells \in Seq(Cell) /\ Len(cells) \in Nat /\ DOMAIN cells = 1..Len(cells)
      /\ off \in Nat /\ Len(nq) \in Nat
  BY QueueIs, LenProperties DEF TypeOK
<1>2. \A k \in 1..Len(nq) : nq[k] \in Cell
  BY ElementOfSeq DEF Cell
<1>3. \A k \in 1..Len(cells) : cells[k] \in Cell
  BY <1>1, ElementOfSeq
<1>4. w \in [1..Len(cells) -> Cell]
  BY <1>1, <1>2, <1>3 DEF Overwritten
<1>5. w \in Seq(Cell)
  BY <1>1, <1>4, SeqDef
<1>6. Len(w) = Len(cells)
  <2>1. DOMAIN w = 1..Len(w) /\ Len(w) \in Nat
    BY <1>5, LenProperties
  <2>2. DOMAIN w = 1..Len(cells)
    BY <1>4
  <2>3. QED
    BY <1>1, <2>1, <2>2, SameRange
<1>7. ASSUME NEW k \in 1..Len(nq) PROVE w[off + k] = nq[k]
  <2>1. off + k \in 1..Len(cells) /\ off + k \in off + 1..off + Len(nq) /\ (off + k) - off = k
    BY <1>1
  <2>2. QED
    BY <1>1, <2>1 DEF Overwritten
<1>8. QED
  BY <1>5, <1>6, <1>7

(* A new array starts with the queue.                                      *)
LEMMA GrownIs ==
    ASSUME TypeOK, NEW nq \in Seq(Message)
    PROVE  /\ Grown(nq) \in Seq(Cell)
           /\ Len(nq) <= Len(Grown(nq))
           /\ \A k \in 1..Len(nq) : Grown(nq)[k] = nq[k]
<1> DEFINE old  == Len(cells) - off
           room == IF Len(nq) > 2 * old THEN Len(nq) ELSE 2 * old
           g == Grown(nq)
<1>1. Len(nq) \in Nat /\ old \in Nat
  BY QueueIs, LenProperties DEF TypeOK
<1>2. room \in Nat /\ Len(nq) <= room
  BY <1>1
<1>3. g = [k \in 1..room |-> IF k <= Len(nq) THEN nq[k] ELSE None]
  BY DEF Grown
<1> HIDE DEF old, room, g
<1>4. \A k \in 1..Len(nq) : nq[k] \in Cell
  BY ElementOfSeq DEF Cell
<1>5. g \in [1..room -> Cell]
  BY <1>1, <1>2, <1>3, <1>4 DEF Cell
<1>6. g \in Seq(Cell)
  BY <1>2, <1>5, SeqDef
<1>7. Len(g) = room
  <2>1. DOMAIN g = 1..Len(g) /\ Len(g) \in Nat /\ DOMAIN g = 1..room
    BY <1>5, <1>6, LenProperties
  <2>2. QED
    BY <1>2, <2>1, SameRange
<1>8. \A k \in 1..Len(nq) : g[k] = nq[k]
  BY <1>1, <1>2, <1>3
<1>9. QED
  BY <1>2, <1>6, <1>7, <1>8 DEF g

(* What append does to the arrays: the queue becomes nq, in place or at    *)
(* the start of a new array, and no other array changes.                   *)
LEMMA StoreStep ==
    ASSUME TypeOK, NEW nq \in Seq(Message), Store(nq)
    PROVE  /\ arrays' \in Seq(Seq(Cell)) /\ arrays' # << >>
           /\ off' \in Nat /\ len' \in Nat /\ off' + len' <= Len(cells')
           /\ queue' = nq /\ len' = Len(nq)
           /\ \A k \in 1..len' : cells'[off' + k] = queue'[k]
           /\ Len(arrays) <= Len(arrays')
           /\ Len(arrays') = Len(arrays) => off' = off
           /\ \A a \in 1..Len(arrays) :
                 /\ Len(arrays'[a]) = Len(arrays[a])
                 /\ a # Len(arrays') => arrays'[a] = arrays[a]
<1>1. /\ Len(arrays) \in Nat \ {0} /\ Len(cells) \in Nat
      /\ off \in Nat /\ Len(nq) \in Nat /\ len' = Len(nq)
      /\ arrays \in Seq(Seq(Cell))
  BY QueueIs, LenProperties DEF TypeOK, Store
<1>2. ASSUME Len(nq) <= Len(cells) - off
      PROVE  /\ arrays' \in Seq(Seq(Cell)) /\ Len(arrays') = Len(arrays)
             /\ off' = off
             /\ cells' = Overwritten(off, nq)
             /\ \A a \in 1..Len(arrays) : a # Len(arrays) => arrays'[a] = arrays[a]
  <2>1. arrays' = [arrays EXCEPT ![Len(arrays)] = Overwritten(off, nq)] /\ off' = off
    BY <1>2 DEF Store
  <2>2. Overwritten(off, nq) \in Seq(Cell) /\ Len(arrays) \in 1..Len(arrays)
    BY <1>1, <1>2, OverwrittenIs
  <2>3. /\ arrays' \in Seq(Seq(Cell)) /\ Len(arrays') = Len(arrays)
        /\ \A a \in 1..Len(arrays) :
              arrays'[a] = IF a = Len(arrays) THEN Overwritten(off, nq) ELSE arrays[a]
    BY <1>1, <2>1, <2>2, ExceptSeq
  <2>4. QED
    BY <2>1, <2>2, <2>3 DEF cells
<1>3. ASSUME ~(Len(nq) <= Len(cells) - off)
      PROVE  /\ arrays' \in Seq(Seq(Cell)) /\ Len(arrays') = Len(arrays) + 1
             /\ off' = 0
             /\ cells' = Grown(nq)
             /\ \A a \in 1..Len(arrays) : arrays'[a] = arrays[a]
  <2>1. arrays' = Append(arrays, Grown(nq)) /\ off' = 0
    BY <1>3 DEF Store
  <2>2. Grown(nq) \in Seq(Cell)
    BY GrownIs
  <2>3. /\ arrays' \in Seq(Seq(Cell)) /\ Len(arrays') = Len(arrays) + 1
        /\ \A a \in 1..Len(arrays) : arrays'[a] = arrays[a]
        /\ arrays'[Len(arrays) + 1] = Grown(nq)
    BY <1>1, <2>1, <2>2, AppendProperties
  <2>4. QED
    BY <2>1, <2>3 DEF cells
<1>4. /\ cells' \in Seq(Cell) /\ off' \in Nat /\ off' + Len(nq) <= Len(cells')
      /\ \A k \in 1..Len(nq) : cells'[off' + k] = nq[k]
  <2>1. CASE Len(nq) <= Len(cells) - off
    BY <1>1, <1>2, <2>1, OverwrittenIs
  <2>2. CASE ~(Len(nq) <= Len(cells) - off)
    <3>1. \A k \in 1..Len(nq) : 0 + k = k
      BY <1>1
    <3>2. QED
      BY <1>1, <1>3, <2>2, <3>1, GrownIs
  <2>3. QED
    BY <2>1, <2>2
<1>5. /\ queue' \in Seq(Cell) /\ Len(queue') = Len(nq)
      /\ \A k \in 1..Len(nq) : queue'[k] = cells'[off' + k]
  <2>1. queue' = SubSeq(cells', off' + 1, off' + Len(nq))
    BY <1>1 DEF queue
  <2>2. ASSUME NEW c \in Seq(Cell), NEW o \in Nat, o + Len(nq) <= Len(c),
               NEW q, q = SubSeq(c, o + 1, o + Len(nq))
        PROVE  /\ q \in Seq(Cell) /\ Len(q) = Len(nq)
               /\ \A k \in 1..Len(nq) : q[k] = c[o + k]
    BY <1>1, <2>2, SliceOf
  <2>3. cells' \in Seq(Cell) /\ off' \in Nat /\ off' + Len(nq) <= Len(cells')
    BY <1>4
  <2>4. QED
    BY ONLY <2>1, <2>2, <2>3
<1>6. queue' = nq
  <2>1. nq \in Seq(Cell)
    BY SeqMonotonic DEF Cell
  <2>2. QED
    BY <1>4, <1>5, <2>1, SeqEqual
<1>7. ASSUME NEW a \in 1..Len(arrays)
      PROVE  /\ Len(arrays'[a]) = Len(arrays[a])
             /\ a # Len(arrays') => arrays'[a] = arrays[a]
  <2>1. CASE Len(nq) <= Len(cells) - off /\ a = Len(arrays)
    <3>1. arrays'[a] = Overwritten(off, nq) /\ arrays[a] = cells /\ a = Len(arrays')
      BY <1>2, <2>1 DEF cells
    <3>2. QED
      BY <2>1, <3>1, OverwrittenIs
  <2>2. CASE ~(Len(nq) <= Len(cells) - off /\ a = Len(arrays))
    BY <1>2, <1>3, <2>2
  <2>3. QED
    BY <2>1, <2>2
<1>8. arrays' # << >>
  <2>1. Len(arrays') \in Nat \ {0}
    BY <1>1, <1>2, <1>3
  <2>2. QED
    BY <2>1, EmptySeq
<1>9. Len(arrays) <= Len(arrays') /\ (Len(arrays') = Len(arrays) => off' = off)
  BY <1>1, <1>2, <1>3
<1>10. QED
  BY <1>1, <1>2, <1>3, <1>4, <1>6, <1>7, <1>8, <1>9

(* A broadcast wakes who is parked and leaves a scan alone.                *)
LEMMA WakingIs ==
    ASSUME NEW sc \in Scans \cup {None}
    PROVE  /\ Waking(sc) \in Scans \cup {None}
           /\ Waking(sc) # None /\ Waking(sc).st = "reading" => Waking(sc) = sc
  BY DEF Waking, Scans

----------------------------------------------------------------------------

(* Send puts a message that is younger than all others into the queue, in  *)
(* the place of a victim if there is no room.                              *)
LEMMA SendStep ==
    ASSUME IInv, Send
    PROVE  \E m \in Message, X \in SUBSET Elements(queue), nq \in Seq(Message) :
              /\ m.stamp = accepted + 1
              /\ Store(nq) /\ Ordered(nq)
              /\ Elements(nq) = (Elements(queue) \ X) \cup {m}
              /\ evicted' = evicted \cup X
              /\ IsFiniteSet(evicted')
              /\ Len(nq) + Cardinality(evicted') = len + Cardinality(evicted) + 1
              /\ Len(nq) <= Capacity
<1>1. PICK n \in Levels, k \in Kinds :
          LET m == [stamp |-> accepted + 1, imp |-> n, kind |-> k]
              Put(q) == \E p \in 0..Len(q) :
                            LET nq == InsertAfter(q, p, m)
                            IN Inserted(q, m, nq) /\ Store(nq)
          IN \/ HasRoom(queue) /\ Put(queue) /\ UNCHANGED evicted
             \/ /\ ~HasRoom(queue)
                /\ \E d \in 1..len :
                      /\ IsVictim(queue, d)
                      /\ MayEvict(Strategy, queue[d].imp, n)
                      /\ Put(RemoveAt(queue, d))
                      /\ evicted' = evicted \cup {queue[d]}
  BY DEF Send
<1> DEFINE m == [stamp |-> accepted + 1, imp |-> n, kind |-> k]
           Put(q) == \E p \in 0..Len(q) :
                         LET nq == InsertAfter(q, p, m)
                         IN Inserted(q, m, nq) /\ Store(nq)
<1>2. m \in Message /\ m.stamp = accepted + 1
  <2>1. accepted + 1 \in 1..MaxSends
    BY MaxSendsAssumption DEF Send, IInv, TypeOK
  <2>2. QED
    BY <2>1 DEF Message
<1>3. /\ Len(queue) = len /\ len \in Nat /\ queue \in Seq(Message) /\ Ordered(queue)
      /\ \A i \in 1..len : queue[i] \in Message
      /\ accepted \in Nat /\ len <= Capacity /\ Capacity \in Nat
      /\ evicted \subseteq Message /\ IsFiniteSet(evicted)
  <2>1. TypeOK /\ Ordered(queue) /\ len <= Capacity
    BY DEF IInv, AccountedFor
  <2>2. /\ len \in Nat /\ queue \in Seq(Message) /\ accepted \in Nat
        /\ evicted \subseteq Message /\ IsFiniteSet(evicted)
    BY <2>1, MaxSendsAssumption DEF TypeOK
  <2>3. QED
    BY <2>1, <2>2, QueueIs, CapacityAssumption
<1>4. ASSUME NEW x \in Elements(queue) PROVE x.stamp < m.stamp
  <2>1. x \in Message /\ x.stamp <= accepted
    BY <1>3 DEF Elements, IInv, Younger
  <2>2. QED
    BY <1>2, <1>3, <2>1, MessageFields
<1>5. Cardinality(evicted) \in Nat
  BY <1>3, FS_CardinalityType
<1> HIDE DEF m
<1>6. ASSUME NEW q \in Seq(Message), Put(q), Ordered(q), Elements(q) \subseteq Elements(queue)
      PROVE  \E nq \in Seq(Message) :
                /\ Store(nq) /\ Ordered(nq) /\ Len(nq) = Len(q) + 1
                /\ Elements(nq) = Elements(q) \cup {m}
  <2>1. PICK p \in 0..Len(q) : Inserted(q, m, InsertAfter(q, p, m)) /\ Store(InsertAfter(q, p, m))
    BY <1>6
  <2>2. \A i \in 1..Len(q) : q[i].stamp < m.stamp
    BY <1>4, <1>6 DEF Elements
  <2>3. QED
    BY <1>2, <1>6, <2>1, <2>2, InsertedKeepsOrder
<1>7. CASE HasRoom(queue) /\ Put(queue) /\ UNCHANGED evicted
  <2>1. PICK nq \in Seq(Message) :
            /\ Store(nq) /\ Ordered(nq) /\ Len(nq) = len + 1
            /\ Elements(nq) = Elements(queue) \cup {m}
    BY <1>3, <1>6, <1>7
  <2>2. /\ evicted' = evicted \cup {} /\ {} \in SUBSET Elements(queue)
        /\ Elements(nq) = (Elements(queue) \ {}) \cup {m}
        /\ IsFiniteSet(evicted')
    BY <1>3, <1>7, <2>1
  <2>3. Len(nq) <= Capacity
    BY <1>3, <1>7, <2>1 DEF HasRoom
  <2>4. Len(nq) + Cardinality(evicted') = len + Cardinality(evicted) + 1
    BY <1>3, <1>5, <1>7, <2>1
  <2>5. QED
    BY <1>2, <2>1, <2>2, <2>3, <2>4
<1>8. CASE \E d \in 1..len :
              /\ Put(RemoveAt(queue, d))
              /\ evicted' = evicted \cup {queue[d]}
  <2>1. PICK d \in 1..len : Put(RemoveAt(queue, d)) /\ evicted' = evicted \cup {queue[d]}
    BY <1>8
  <2> DEFINE q == RemoveAt(queue, d)
  <2>2. /\ q \in Seq(Message) /\ Len(q) = len - 1
        /\ \A i \in 1..Len(q) : q[i] = IF i < d THEN queue[i] ELSE queue[i + 1]
    BY <1>3, RemoveAtProperties
  <2>3. Ordered(q) /\ Elements(q) = Elements(queue) \ {queue[d]}
    BY <1>3, <2>2, RemovedKeepsOrder
  <2>4. PICK nq \in Seq(Message) :
            /\ Store(nq) /\ Ordered(nq) /\ Len(nq) = Len(q) + 1
            /\ Elements(nq) = Elements(q) \cup {m}
    BY <1>6, <2>1, <2>2, <2>3
  <2>5. queue[d] \in Elements(queue) /\ queue[d] \notin evicted
    BY <1>3 DEF Elements, IInv, Apart
  <2>6. IsFiniteSet(evicted') /\ Cardinality(evicted') = Cardinality(evicted) + 1
    BY <1>3, <2>1, <2>5, FS_AddElement
  <2>7. Len(nq) = len
    BY <1>3, <2>2, <2>4
  <2>8. Len(nq) + Cardinality(evicted') = len + Cardinality(evicted) + 1
    BY <1>3, <1>5, <2>6, <2>7
  <2>9. /\ {queue[d]} \in SUBSET Elements(queue)
        /\ Elements(nq) = (Elements(queue) \ {queue[d]}) \cup {m}
    BY <2>3, <2>4, <2>5
  <2>10. QED
    BY <1>2, <1>3, <2>1, <2>4, <2>6, <2>7, <2>8, <2>9
<1>9. QED
  BY <1>1, <1>7, <1>8 DEF m

----------------------------------------------------------------------------

(* A send preserves the invariant.                                         *)
LEMMA SendPreserves ==
    ASSUME IInv, Send
    PROVE  IInv'
<1>1. PICK m \in Message, X \in SUBSET Elements(queue), nq \in Seq(Message) :
          /\ m.stamp = accepted + 1
          /\ Store(nq) /\ Ordered(nq)
          /\ Elements(nq) = (Elements(queue) \ X) \cup {m}
          /\ evicted' = evicted \cup X
          /\ IsFiniteSet(evicted')
          /\ Len(nq) + Cardinality(evicted') = len + Cardinality(evicted) + 1
          /\ Len(nq) <= Capacity
  BY SendStep
<1>2. /\ TypeOK /\ Ordered(queue) /\ Younger /\ Apart /\ ScansHold /\ Exact /\ AccountedFor
  BY DEF IInv
<1>3. /\ accepted' = accepted + 1 /\ accepted < MaxSends
      /\ scan' = [q \in Receivers |-> Waking(scan[q])]
      /\ received' = received /\ delivered' = delivered
      /\ disturbed' = (disturbed \/ Overtakes)
  BY DEF Send, Broadcast, NoteOvertaking
<1>4. /\ arrays' \in Seq(Seq(Cell)) /\ arrays' # << >>
      /\ off' \in Nat /\ len' \in Nat /\ off' + len' <= Len(cells')
      /\ queue' = nq /\ len' = Len(nq)
      /\ \A k \in 1..len' : cells'[off' + k] = queue'[k]
      /\ Len(arrays) <= Len(arrays')
      /\ Len(arrays') = Len(arrays) => off' = off
      /\ \A a \in 1..Len(arrays) :
            /\ Len(arrays'[a]) = Len(arrays[a])
            /\ a # Len(arrays') => arrays'[a] = arrays[a]
  BY <1>1, <1>2, StoreStep
<1>5. /\ Len(queue) = len /\ len \in Nat /\ queue \in Seq(Message)
      /\ \A i \in 1..len : queue[i] \in Message
      /\ Len(arrays) \in Nat \ {0} /\ Len(arrays') \in Nat
      /\ accepted \in Nat /\ received \in Nat
      /\ scan \in [Receivers -> Scans \cup {None}]
      /\ evicted \subseteq Message
  <2>1. /\ len \in Nat /\ queue \in Seq(Message) /\ accepted \in Nat /\ received \in Nat
        /\ scan \in [Receivers -> Scans \cup {None}] /\ evicted \subseteq Message
    BY <1>2, MaxSendsAssumption DEF TypeOK
  <2>2. Len(arrays') \in Nat
    BY <1>4, LenProperties
  <2>3. QED
    BY <1>2, <2>1, <2>2, QueueIs
<1>6. Elements(queue) \subseteq Message
  BY <1>5 DEF Elements
<1>7. TypeOK'
  <2>1. scan' \in [Receivers -> Scans \cup {None}]
    BY <1>3, <1>5, WakingIs
  <2>2. accepted' \in 0..MaxSends
    BY <1>3, <1>5, MaxSendsAssumption
  <2>3. evicted' \subseteq Message /\ IsFiniteSet(evicted')
    BY <1>1, <1>5, <1>6
  <2>4. received' \in Nat /\ queue' \in Seq(Message)
    BY <1>3, <1>4, <1>5
  <2>5. QED
    BY <1>4, <2>1, <2>2, <2>3, <2>4 DEF TypeOK
<1>8. Elements(queue)' = (Elements(queue) \ X) \cup {m}
  BY <1>1, <1>4 DEF Elements
<1>9. ASSUME NEW x \in Elements(queue) \cup evicted PROVE x.stamp < accepted + 1 /\ x # m
  <2>1. x.stamp \in Nat /\ x.stamp <= accepted
    BY <1>2, <1>5, <1>6, MessageFields DEF Younger
  <2>2. QED
    BY <1>1, <1>5, <2>1
<1>10. Ordered(queue)'
  BY <1>1, <1>4 DEF Ordered, SameClass
<1>11. Younger'
  <2>1. ASSUME NEW x \in Elements(queue)' \cup evicted' PROVE x.stamp <= accepted'
    <3>1. x = m \/ x \in Elements(queue) \cup evicted
      BY <1>1, <1>8, <2>1
    <3>2. CASE x = m
      BY <1>1, <1>3, <1>5, <3>2
    <3>3. CASE x \in Elements(queue) \cup evicted
      <4>1. x.stamp \in Nat
        BY <1>5, <1>6, <3>3, MessageFields
      <4>2. QED
        BY <1>3, <1>5, <1>9, <3>3, <4>1
    <3>4. QED
      BY <3>1, <3>2, <3>3
  <2>2. QED
    BY <2>1 DEF Younger
<1>12. Apart'
  BY <1>1, <1>2, <1>8, <1>9 DEF Apart
<1>13. ASSUME NEW r \in Receivers, Reading(r)' PROVE ScanHolds(scan[r])'
  <2> DEFINE sc == scan[r]
  <2>1. scan'[r] = sc /\ sc # None /\ sc.st = "reading" /\ sc \in Scans
    <3>1. scan'[r] = Waking(sc) /\ scan'[r] # None /\ scan'[r].st = "reading" /\ sc \in Scans \cup {None}
      BY <1>3, <1>5, <1>13 DEF Reading
    <3>2. QED
      BY <3>1, WakingIs
  <2>2. HeaderKept(sc) /\ sc.i < sc.len /\ (~disturbed => SeesFront(sc) /\ sc.msg = queue[sc.i + 1])
    BY <1>2, <2>1 DEF ScansHold, Reading, ScanHolds
  <2>3. sc.arr \in Nat /\ sc.off \in Nat /\ sc.len \in Nat /\ sc.i \in Nat
    BY <2>1 DEF Scans
  <2> HIDE DEF sc
  <2>4. HeaderKept(scan[r])'
    <3>1. sc.arr \in 1..Len(arrays) /\ sc.off + sc.len <= Len(arrays[sc.arr])
      BY <2>2 DEF HeaderKept
    <3>2. sc.arr \in 1..Len(arrays') /\ sc.off + sc.len <= Len(arrays'[sc.arr])
      <4>1. Len(arrays'[sc.arr]) = Len(arrays[sc.arr])
        BY <1>4, <3>1
      <4>2. sc.arr \in 1..Len(arrays')
        BY <1>4, <1>5, <2>3, <3>1
      <4>3. QED
        BY <3>1, <4>1, <4>2
    <3>3. QED
      BY <2>1, <3>2 DEF HeaderKept
  <2>5. ASSUME ~disturbed' PROVE (SeesFront(scan[r]) /\ scan[r].msg = queue[scan[r].i + 1])'
    <3>1. ~disturbed /\ ~Overtakes
      BY <1>3, <2>5
    <3>2. Seqs!IsPrefix(queue, queue')
      BY <2>1, <3>1 DEF Overtakes, sc
    <3>3. len <= len' /\ \A k \in 1..len : queue'[k] = queue[k]
      <4>1. len <= len' /\ SubSeq(queue, 1, len) = SubSeq(queue', 1, len)
        BY <1>4, <1>5, <3>2 DEF Seqs!IsPrefix
      <4>2. ASSUME NEW k \in 1..len PROVE queue'[k] = queue[k]
        <5>1. Len(SubSeq(queue, 1, len)) = len /\ Len(SubSeq(queue', 1, len)) = len
          BY <1>4, <1>5, <4>1, SubSeqOfSeq
        <5>2. SubSeq(queue, 1, len)[k] = queue[1 + k - 1] /\ SubSeq(queue', 1, len)[k] = queue'[1 + k - 1]
          BY <1>4, <1>5, <4>1, <5>1, SubSeqOfSeq
        <5>3. 1 + k - 1 = k
          BY <1>5
        <5>4. QED
          BY <4>1, <5>2, <5>3
      <4>3. QED
        BY <4>1, <4>2
    <3>4. /\ sc.len <= len
          /\ sc.arr = Len(arrays) => sc.off = off
          /\ \A k \in 1..sc.len : arrays[sc.arr][sc.off + k] = queue[k]
          /\ sc.msg = queue[sc.i + 1]
      BY <2>2, <3>1 DEF SeesFront
    <3>5. sc.len <= len'
      BY <1>4, <1>5, <2>3, <3>3, <3>4
    <3>6. sc.arr = Len(arrays') => sc.arr = Len(arrays) /\ sc.off = off'
      BY <1>4, <1>5, <2>2, <3>4 DEF HeaderKept
    <3>7. ASSUME NEW k \in 1..sc.len PROVE arrays'[sc.arr][sc.off + k] = queue'[k]
      <4>1. k \in 1..len /\ k \in 1..len'
        BY <1>4, <1>5, <2>3, <3>4, <3>5
      <4>2. CASE sc.arr = Len(arrays')
        BY <1>4, <3>6, <4>1, <4>2 DEF cells
      <4>3. CASE sc.arr # Len(arrays')
        BY <1>4, <2>2, <3>3, <3>4, <4>1, <4>3 DEF HeaderKept
      <4>4. QED
        BY <4>2, <4>3
    <3>8. sc.msg = queue'[sc.i + 1]
      <4>1. sc.i + 1 \in 1..len
        BY <1>5, <2>2, <2>3, <3>4
      <4>2. QED
        BY <3>3, <3>4, <4>1
    <3>9. QED
      BY <2>1, <3>5, <3>6, <3>7, <3>8 DEF SeesFront
  <2>6. QED
    BY <2>1, <2>2, <2>4, <2>5 DEF ScanHolds
<1>14. Exact'
  <2>1. SUFFICES ASSUME ~disturbed'
                 PROVE  /\ \A x \in DOMAIN delivered : x \in Message /\ x.stamp <= accepted'
                               /\ delivered[x] = 1 /\ x \notin Elements(queue)'
                        /\ \A s \in 1..accepted' :
                              \E x \in Elements(queue)' \cup DOMAIN delivered \cup evicted' : x.stamp = s
    BY <1>3 DEF Exact
  <2>2. /\ \A x \in DOMAIN delivered :
              x \in Message /\ x.stamp <= accepted /\ delivered[x] = 1 /\ x \notin Elements(queue)
        /\ \A s \in 1..accepted :
              \E x \in Elements(queue) \cup DOMAIN delivered \cup evicted : x.stamp = s
    BY <1>2, <1>3, <2>1 DEF Exact
  <2>3. ASSUME NEW x \in DOMAIN delivered
        PROVE  x \in Message /\ x.stamp <= accepted' /\ delivered[x] = 1 /\ x \notin Elements(queue)'
    <3>1. x \in Message /\ x.stamp \in Nat /\ x.stamp <= accepted
      BY <2>2, MessageFields
    <3>2. x # m /\ x.stamp <= accepted'
      BY <1>1, <1>3, <1>5, <3>1
    <3>3. QED
      BY <1>8, <2>2, <3>1, <3>2
  <2>4. ASSUME NEW s \in 1..accepted'
        PROVE  \E x \in Elements(queue)' \cup DOMAIN delivered \cup evicted' : x.stamp = s
    <3>1. CASE s = accepted + 1
      BY <1>1, <1>8, <3>1
    <3>2. CASE s # accepted + 1
      <4>1. s \in 1..accepted
        BY <1>3, <1>5, <3>2
      <4>2. PICK x \in Elements(queue) \cup DOMAIN delivered \cup evicted : x.stamp = s
        BY <2>2, <4>1
      <4>3. x \in Elements(queue)' \cup DOMAIN delivered \cup evicted'
        BY <1>1, <1>8, <4>2
      <4>4. QED
        BY <4>2, <4>3
    <3>3. QED
      BY <3>1, <3>2
  <2>5. QED
    BY <2>3, <2>4
<1>15. AccountedFor'
  <2>1. evicted \subseteq Message /\ IsFiniteSet(evicted)
    BY <1>2 DEF TypeOK
  <2>2. Cardinality(evicted) \in Nat /\ Cardinality(evicted') \in Nat
    BY <1>1, <2>1, FS_CardinalityType
  <2>3. accepted = len + received + Cardinality(evicted)
    BY <1>2 DEF AccountedFor
  <2>4. len' + Cardinality(evicted') = len + Cardinality(evicted) + 1 /\ len' <= Capacity
    BY <1>1, <1>4
  <2>5. accepted' = accepted + 1 /\ received' = received /\ len' \in Nat /\ len \in Nat
        /\ received \in Nat
    BY <1>3, <1>4, <1>5
  <2>6. PICK l \in Nat, n \in Nat, k \in Nat, c \in Nat, d \in Nat :
            l = len' /\ n = len /\ k = received /\ c = Cardinality(evicted) /\ d = Cardinality(evicted')
    BY <2>2, <2>5
  <2>7. l + d = n + c + 1 /\ accepted = n + k + c
    BY <2>3, <2>4, <2>6
  <2>8. accepted + 1 = l + k + d
    BY ONLY <2>7
  <2>9. QED
    BY <2>4, <2>5, <2>6, <2>8 DEF AccountedFor
<1>16. ScansHold'
  BY <1>13 DEF ScansHold
<1>17. QED
  BY <1>7, <1>10, <1>11, <1>12, <1>14, <1>15, <1>16 DEF IInv

----------------------------------------------------------------------------

(* What is left of an ordered queue when a message is cut out of it.       *)
LEMMA RemovedIs ==
    ASSUME NEW q \in Seq(Message), Ordered(q), NEW d \in 1..Len(q)
    PROVE  /\ RemoveAt(q, d) \in Seq(Message)
           /\ Len(RemoveAt(q, d)) = Len(q) - 1
           /\ \A i \in 1..Len(q) - 1 :
                 RemoveAt(q, d)[i] = IF i < d THEN q[i] ELSE q[i + 1]
           /\ Ordered(RemoveAt(q, d))
           /\ Elements(RemoveAt(q, d)) = Elements(q) \ {q[d]}
<1> DEFINE r == RemoveAt(q, d)
<1>1. /\ r \in Seq(Message) /\ Len(r) = Len(q) - 1
      /\ \A i \in 1..Len(r) : r[i] = IF i < d THEN q[i] ELSE q[i + 1]
  BY RemoveAtProperties
<1>2. Ordered(r) /\ Elements(r) = Elements(q) \ {q[d]}
  BY <1>1, RemovedKeepsOrder
<1>3. QED
  BY <1>1, <1>2

(* A step that removes one message and delivers one preserves the          *)
(* invariant, whatever it delivers when a scan was overtaken before; it    *)
(* overtakes every other scan.                                             *)
LEMMA TakePreserves ==
    ASSUME IInv, NEW r \in Receivers, NEW d \in 1..len, NEW m,
           ~disturbed => m = queue[d],
           DeliverTo(r, m),
           UNCHANGED <<accepted, evicted>>,
           NoteOvertaking,
           arrays' \in Seq(Seq(Cell)), arrays' # << >>,
           Len(arrays) <= Len(arrays'),
           \A a \in 1..Len(arrays) : Len(arrays'[a]) = Len(arrays[a]),
           off' \in Nat, off' + len' <= Len(cells'),
           len' = len - 1, queue' = RemoveAt(queue, d)
    PROVE  IInv'
<1>1. /\ TypeOK /\ Ordered(queue) /\ Younger /\ Apart /\ ScansHold /\ Exact /\ AccountedFor
  BY DEF IInv
<1>2. /\ Len(queue) = len /\ len \in Nat /\ queue \in Seq(Message)
      /\ \A i \in 1..len : queue[i] \in Message
      /\ Len(arrays) \in Nat \ {0} /\ Len(arrays') \in Nat
      /\ accepted \in Nat /\ received \in Nat
      /\ scan \in [Receivers -> Scans \cup {None}]
      /\ evicted \subseteq Message /\ IsFiniteSet(evicted)
  <2>1. /\ len \in Nat /\ queue \in Seq(Message) /\ accepted \in Nat /\ received \in Nat
        /\ scan \in [Receivers -> Scans \cup {None}]
        /\ evicted \subseteq Message /\ IsFiniteSet(evicted)
    BY <1>1, MaxSendsAssumption DEF TypeOK
  <2>2. Len(arrays') \in Nat
    BY LenProperties
  <2>3. QED
    BY <1>1, <2>1, <2>2, QueueIs
<1>3. /\ accepted' = accepted /\ evicted' = evicted
      /\ received' = received + 1
      /\ delivered' = [x \in DOMAIN delivered \cup {m} |->
                          IF x = m THEN Count(m) + 1 ELSE delivered[x]]
      /\ scan' = [q \in Receivers |-> IF q = r THEN None ELSE Waking(scan[q])]
      /\ disturbed' = (disturbed \/ Overtakes)
  BY DEF DeliverTo, BroadcastAndReturn, NoteOvertaking
<1>4. queue' \in Seq(Message) /\ Len(queue') = len - 1
  BY <1>1, <1>2, RemovedIs
<1>5. Ordered(queue') /\ Elements(queue') = Elements(queue) \ {queue[d]}
  BY <1>1, <1>2, RemovedIs
<1>6. Ordered(queue)' /\ Elements(queue)' = Elements(queue) \ {queue[d]}
  BY <1>5 DEF Ordered, SameClass, Elements
<1>7. queue[d] \in Elements(queue) /\ queue[d] \in Message
  BY <1>2 DEF Elements
<1>8. TypeOK'
  <2>1. scan' \in [Receivers -> Scans \cup {None}]
    BY <1>2, <1>3, WakingIs
  <2>2. /\ len' \in Nat /\ received' \in Nat /\ accepted' \in 0..MaxSends
        /\ evicted' \subseteq Message /\ IsFiniteSet(evicted')
    BY <1>1, <1>2, <1>3 DEF TypeOK
  <2>3. QED
    BY <1>4, <2>1, <2>2 DEF TypeOK
<1>9. Younger' /\ Apart'
  BY <1>1, <1>3, <1>6 DEF Younger, Apart
<1>10. ASSUME NEW q \in Receivers, Reading(q)' PROVE ScanHolds(scan[q])'
  <2> DEFINE sc == scan[q]
  <2>1. scan'[q] = sc /\ sc # None /\ sc.st = "reading" /\ sc \in Scans
    <3>1. q # r /\ scan'[q] = Waking(sc) /\ scan'[q] # None /\ scan'[q].st = "reading"
          /\ sc \in Scans \cup {None}
      BY <1>2, <1>3, <1>10 DEF Reading
    <3>2. QED
      BY <3>1, WakingIs
  <2>2. HeaderKept(sc) /\ sc.i < sc.len
    BY <1>1, <2>1 DEF ScansHold, Reading, ScanHolds
  <2>3. ~Seqs!IsPrefix(queue, queue')
    BY <1>2, <1>4 DEF Seqs!IsPrefix
  <2>4. disturbed'
    BY <1>3, <2>1, <2>3 DEF Overtakes
  <2> HIDE DEF sc
  <2>5. sc.arr \in 1..Len(arrays) /\ sc.off + sc.len <= Len(arrays[sc.arr])
    BY <2>2 DEF HeaderKept
  <2>6. sc.arr \in 1..Len(arrays') /\ Len(arrays'[sc.arr]) = Len(arrays[sc.arr])
    BY <1>2, <2>5
  <2>7. HeaderKept(scan[q])'
    BY <2>1, <2>5, <2>6 DEF HeaderKept
  <2>8. QED
    BY <2>1, <2>2, <2>4, <2>7 DEF ScanHolds
<1>11. Exact'
  <2>1. SUFFICES ASSUME ~disturbed'
                 PROVE  /\ \A x \in DOMAIN delivered' : x \in Message /\ x.stamp <= accepted
                               /\ delivered'[x] = 1 /\ x \notin Elements(queue)'
                        /\ \A s \in 1..accepted :
                              \E x \in Elements(queue)' \cup DOMAIN delivered' \cup evicted : x.stamp = s
    BY <1>3 DEF Exact
  <2>2. m = queue[d]
    BY <1>3, <2>1
  <2>3. /\ \A x \in DOMAIN delivered :
              x \in Message /\ x.stamp <= accepted /\ delivered[x] = 1 /\ x \notin Elements(queue)
        /\ \A s \in 1..accepted :
              \E x \in Elements(queue) \cup DOMAIN delivered \cup evicted : x.stamp = s
    BY <1>1, <1>3, <2>1 DEF Exact
  <2>4. m \notin DOMAIN delivered /\ Count(m) = 0
    BY <1>7, <2>2, <2>3 DEF Count
  <2>5. DOMAIN delivered' = DOMAIN delivered \cup {m}
    BY <1>3
  <2>6. ASSUME NEW x \in DOMAIN delivered'
        PROVE  x \in Message /\ x.stamp <= accepted /\ delivered'[x] = 1 /\ x \notin Elements(queue)'
    <3>1. CASE x = m
      BY <1>1, <1>3, <1>6, <1>7, <2>2, <2>4, <3>1 DEF Younger
    <3>2. CASE x # m
      BY <1>3, <1>6, <2>3, <2>5, <3>2
    <3>3. QED
      BY <3>1, <3>2
  <2>7. ASSUME NEW s \in 1..accepted
        PROVE  \E x \in Elements(queue)' \cup DOMAIN delivered' \cup evicted : x.stamp = s
    <3>1. PICK x \in Elements(queue) \cup DOMAIN delivered \cup evicted : x.stamp = s
      BY <2>3
    <3>2. x \in Elements(queue)' \cup DOMAIN delivered' \cup evicted
      BY <1>6, <2>2, <2>5, <3>1
    <3>3. QED
      BY <3>1, <3>2
  <2>8. QED
    BY <2>6, <2>7
<1>12. AccountedFor'
  <2>1. Cardinality(evicted) \in Nat /\ len \in Nat \ {0} /\ received \in Nat
    BY <1>2, FS_CardinalityType
  <2>2. accepted = len + received + Cardinality(evicted) /\ len <= Capacity
    BY <1>1 DEF AccountedFor
  <2>3. len + received + Cardinality(evicted) = len - 1 + (received + 1) + Cardinality(evicted)
    BY <2>1
  <2>4. len - 1 <= Capacity
    BY <2>1, <2>2, CapacityAssumption
  <2>5. QED
    BY <1>3, <2>2, <2>3, <2>4 DEF AccountedFor
<1>13. ScansHold'
  BY <1>10 DEF ScansHold
<1>14. QED
  BY <1>6, <1>8, <1>9, <1>11, <1>12, <1>13 DEF IInv

(* The slice that starts one cell later is the queue without its head.     *)
LEMMA BehindHead ==
    ASSUME NEW c \in Seq(Cell), NEW o \in Nat, NEW n \in Nat, n > 0, o + n <= Len(c)
    PROVE  SubSeq(c, o + 2, o + n) = RemoveAt(SubSeq(c, o + 1, o + n), 1)
<1> DEFINE q == SubSeq(c, o + 1, o + n)
           s == SubSeq(c, o + 2, o + n)
<1>1. q \in Seq(Cell) /\ Len(q) = n /\ \A k \in 1..n : q[k] = c[o + k]
  BY SliceOf
<1>2. s \in Seq(Cell) /\ Len(s) = n - 1 /\ \A k \in 1..n - 1 : s[k] = c[(o + 1) + k]
  <2>1. o + 1 \in Nat /\ n - 1 \in Nat /\ (o + 1) + (n - 1) = o + n /\ (o + 1) + 1 = o + 2
    OBVIOUS
  <2>2. s = SubSeq(c, (o + 1) + 1, (o + 1) + (n - 1)) /\ (o + 1) + (n - 1) <= Len(c)
    BY <2>1
  <2>3. QED
    BY <2>1, <2>2, SliceOf
<1> HIDE DEF q, s
<1>3. /\ RemoveAt(q, 1) \in Seq(Cell)
      /\ Len(RemoveAt(q, 1)) = n - 1
      /\ \A i \in 1..n - 1 : RemoveAt(q, 1)[i] = IF i < 1 THEN q[i] ELSE q[i + 1]
  <2>1. 1 \in 1..Len(q)
    BY <1>1
  <2>2. q \in Seq(Cell)
    BY <1>1
  <2>3. /\ RemoveAt(q, 1) \in Seq(Cell)
        /\ Len(RemoveAt(q, 1)) = Len(q) - 1
        /\ \A i \in 1..Len(RemoveAt(q, 1)) :
              RemoveAt(q, 1)[i] = IF i < 1 THEN q[i] ELSE q[i + 1]
    BY ONLY <2>1, <2>2, RemoveAtProperties
  <2>4. Len(q) = n
    BY <1>1
  <2>5. QED
    BY ONLY <2>3, <2>4
<1>4. ASSUME NEW i \in 1..n - 1 PROVE s[i] = RemoveAt(q, 1)[i]
  <2>1. i + 1 \in 1..n /\ ~(i < 1) /\ (o + 1) + i = o + (i + 1)
    OBVIOUS
  <2>2. QED
    BY <1>1, <1>2, <1>3, <2>1
<1>5. s = RemoveAt(q, 1)
  BY <1>2, <1>3, <1>4, SeqEqual
<1>6. QED
  BY <1>5 DEF q, s

(* Receive moves the start of the slice behind its head.                   *)
LEMMA ReceivePreserves ==
    ASSUME IInv, NEW r \in Receivers, Receive(r)
    PROVE  IInv'
<1>1. TypeOK
  BY DEF IInv
<1>2. /\ Len(queue) = len /\ len \in Nat /\ queue \in Seq(Message) /\ off \in Nat
      /\ cells \in Seq(Cell) /\ Len(cells) \in Nat /\ off + len <= Len(cells)
      /\ \A k \in 1..len : queue[k] = cells[off + k]
      /\ arrays \in Seq(Seq(Cell)) /\ arrays # << >>
      /\ Len(arrays) \in Nat
  <2>1. /\ len \in Nat /\ queue \in Seq(Message) /\ off \in Nat /\ off + len <= Len(cells)
        /\ arrays \in Seq(Seq(Cell)) /\ arrays # << >>
    BY <1>1 DEF TypeOK
  <2>2. QED
    BY <1>1, <2>1, QueueIs
<1>3. /\ len > 0 /\ off' = off + 1 /\ len' = len - 1 /\ arrays' = arrays
      /\ cells' = cells
      /\ DeliverTo(r, Head(queue)) /\ UNCHANGED <<accepted, evicted>> /\ NoteOvertaking
  BY DEF Receive, cells
<1>4. 1 \in 1..len /\ off' \in Nat /\ len' \in Nat /\ off' + len' = off + len
  BY <1>2, <1>3
<1>5. Head(queue) = queue[1]
  BY <1>2, <1>3
<1>6. queue' = RemoveAt(queue, 1)
  <2>1. queue' = SubSeq(cells, (off + 1) + 1, (off + 1) + (len - 1))
    BY <1>3 DEF queue
  <2>2. (off + 1) + 1 = off + 2 /\ (off + 1) + (len - 1) = off + len
    BY <1>2
  <2>3. SubSeq(cells, off + 2, off + len) = RemoveAt(queue, 1)
    BY <1>2, <1>3, BehindHead DEF queue
  <2>4. QED
    BY <2>1, <2>2, <2>3
<1>7. QED
  BY <1>2, <1>3, <1>4, <1>5, <1>6, TakePreserves

(* A match removes what is at the position of the scan.                    *)
LEMMA MatchPreserves ==
    ASSUME IInv, NEW r \in Receivers, Match(r)
    PROVE  IInv'
<1> DEFINE d == scan[r].i + 1
           nq == RemoveAt(queue, d)
<1>1. /\ Reading(r) /\ scan[r].i < len
      /\ Store(nq)
      /\ DeliverTo(r, scan[r].msg) /\ UNCHANGED <<accepted, evicted>> /\ NoteOvertaking
  BY DEF Match, Scanning, Reading
<1>2. TypeOK /\ ScansHold
  BY DEF IInv
<1>3. Len(queue) = len /\ len \in Nat /\ queue \in Seq(Message)
  BY <1>2, QueueIs DEF TypeOK
<1>4. d \in 1..len
  <2>1. scan[r] \in Scans
    BY <1>1, <1>2 DEF TypeOK, Reading
  <2>2. scan[r].i \in Nat
    BY <2>1 DEF Scans
  <2>3. QED
    BY <1>1, <1>3, <2>2
<1>5. ~disturbed => scan[r].msg = queue[d]
  BY <1>1, <1>2 DEF ScansHold, ScanHolds
<1> HIDE DEF d
<1>6. nq \in Seq(Message) /\ Len(nq) = len - 1
  BY <1>3, <1>4, RemoveAtProperties
<1>7. /\ arrays' \in Seq(Seq(Cell)) /\ arrays' # << >>
      /\ off' \in Nat /\ off' + len' <= Len(cells')
      /\ queue' = nq /\ len' = len - 1
      /\ Len(arrays) <= Len(arrays')
      /\ \A a \in 1..Len(arrays) : Len(arrays'[a]) = Len(arrays[a])
  BY <1>1, <1>2, <1>6, StoreStep
<1>8. QED
  BY <1>1, <1>4, <1>5, <1>7, TakePreserves

----------------------------------------------------------------------------

(* A step that changes nothing but the receives in progress.               *)
LEMMA ScansPreserve ==
    ASSUME IInv,
           UNCHANGED <<arrays, off, len, received, accepted, delivered, evicted, disturbed>>,
           scan' \in [Receivers -> Scans \cup {None}],
           \A r \in Receivers :
              scan'[r] # None /\ scan'[r].st = "reading" => ScanHolds(scan'[r])
    PROVE  IInv'
<1>1. /\ TypeOK /\ Ordered(queue) /\ Younger /\ Apart /\ ScansHold /\ Exact /\ AccountedFor
  BY DEF IInv
<1>2. cells' = cells /\ queue' = queue
  BY DEF cells, queue
<1>3. TypeOK'
  BY <1>1, <1>2 DEF TypeOK
<1>4. Ordered(queue)' /\ Elements(queue)' = Elements(queue)
  BY <1>1, <1>2 DEF Ordered, SameClass, Elements
<1>5. Younger' /\ Apart' /\ Exact' /\ AccountedFor'
  BY <1>1, <1>4 DEF Younger, Apart, Exact, AccountedFor
<1>6. ASSUME NEW r \in Receivers, Reading(r)' PROVE ScanHolds(scan[r])'
  <2>1. ScanHolds(scan'[r])
    BY <1>6 DEF Reading
  <2>2. QED
    BY <1>2, <2>1 DEF ScanHolds, HeaderKept, SeesFront
<1>7. QED
  BY <1>3, <1>4, <1>5, <1>6 DEF IInv, ScansHold

(* As above, when one receiver's receive ends and others wake up at most.  *)
LEMMA QuietPreserves ==
    ASSUME IInv,
           UNCHANGED <<arrays, off, len, received, accepted, delivered, evicted, disturbed>>,
           scan' \in [Receivers -> Scans \cup {None}],
           \A r \in Receivers :
              scan'[r] # None /\ scan'[r].st = "reading" => scan'[r] = scan[r]
    PROVE  IInv'
<1>1. ASSUME NEW r \in Receivers, scan'[r] # None, scan'[r].st = "reading"
      PROVE  ScanHolds(scan'[r])
  BY <1>1 DEF IInv, ScansHold, Reading
<1>2. QED
  BY <1>1, ScansPreserve

(* A scan goes on to position i of its header, or ends.                    *)
LEMMA ProceedPreserves ==
    ASSUME IInv, NEW r \in Receivers, NEW sc \in Scans, NEW i \in Nat,
           HeaderKept(sc), ~disturbed => SeesFront(sc), Proceed(r, sc, i)
    PROVE  IInv'
<1> DEFINE new == [sc EXCEPT !.st = "reading", !.i = i, !.msg = arrays[sc.arr][sc.off + i + 1]]
           parked == [sc EXCEPT !.st = "parked", !.arr = 0, !.off = 0, !.len = 0,
                                !.i = 0, !.msg = None]
<1>1. /\ scan' = [scan EXCEPT ![r] = IF i < sc.len THEN new
                                      ELSE IF closed \/ ~sc.block THEN None ELSE parked]
      /\ UNCHANGED <<arrays, off, len, received, accepted, delivered, evicted, disturbed>>
  BY DEF Proceed
<1>2. /\ scan \in [Receivers -> Scans \cup {None}] /\ arrays \in Seq(Seq(Cell))
      /\ TypeOK /\ ScansHold
  BY DEF IInv, TypeOK
<1>3. /\ sc.arr \in Nat /\ sc.off \in Nat /\ sc.len \in Nat
  BY DEF Scans
<1>4. ASSUME i < sc.len
      PROVE  new \in Scans /\ ScanHolds(new)
  <2>1. /\ sc.arr \in 1..Len(arrays) /\ sc.off + sc.len <= Len(arrays[sc.arr])
    BY DEF HeaderKept
  <2>2. arrays[sc.arr] \in Seq(Cell)
    BY <1>2, <2>1, ElementOfSeq
  <2>3. sc.off + i + 1 \in 1..Len(arrays[sc.arr])
    <3>1. Len(arrays[sc.arr]) \in Nat
      BY <2>2, LenProperties
    <3>2. QED
      BY <1>3, <1>4, <2>1, <3>1
  <2>4. arrays[sc.arr][sc.off + i + 1] \in Cell
    BY <2>2, <2>3, ElementOfSeq
  <2>5. /\ new \in Scans
        /\ new.arr = sc.arr /\ new.off = sc.off /\ new.len = sc.len /\ new.i = i
        /\ new.msg = arrays[sc.arr][sc.off + i + 1]
    BY <2>4 DEF Scans
  <2> HIDE DEF new
  <2>6. HeaderKept(new) /\ new.i < new.len
    BY <1>4, <2>1, <2>5 DEF HeaderKept
  <2>7. ASSUME ~disturbed PROVE SeesFront(new) /\ new.msg = queue[new.i + 1]
    <3>1. SeesFront(sc)
      BY <2>7
    <3>2. SeesFront(new)
      BY <2>5, <3>1 DEF SeesFront
    <3>3. i + 1 \in 1..sc.len /\ sc.off + (i + 1) = sc.off + i + 1
      BY <1>3, <1>4
    <3>4. QED
      BY <2>5, <3>1, <3>2, <3>3 DEF SeesFront
  <2>8. QED
    BY <2>5, <2>6, <2>7 DEF ScanHolds
<1>5. parked \in Scans /\ parked.st = "parked"
  BY DEF Scans, Cell
<1> HIDE DEF new, parked
<1>6. scan' \in [Receivers -> Scans \cup {None}]
  BY <1>1, <1>2, <1>4, <1>5
<1>7. ASSUME NEW q \in Receivers, scan'[q] # None, scan'[q].st = "reading"
      PROVE  ScanHolds(scan'[q])
  <2>1. CASE q # r
    BY <1>1, <1>2, <1>7, <2>1 DEF ScansHold, Reading
  <2>2. CASE q = r
    BY <1>1, <1>2, <1>4, <1>5, <1>7, <2>2
  <2>3. QED
    BY <2>1, <2>2
<1>8. QED
  BY <1>1, <1>6, <1>7, ScansPreserve

(* The header that a receive copies is the queue itself.                   *)
LEMMA BeginPreserves ==
    ASSUME IInv, NEW r \in Receivers, NEW block \in BOOLEAN, NEW want \in Kinds,
           Begin(r, block, want)
    PROVE  IInv'
<1> DEFINE sc == [st |-> "reading", block |-> block, want |-> want, arr |-> Len(arrays),
                  off |-> off, len |-> len, i |-> 0, msg |-> None]
<1>1. TypeOK
  BY DEF IInv
<1>2. /\ Len(arrays) \in Nat \ {0} /\ off \in Nat /\ len \in Nat /\ off + len <= Len(cells)
      /\ \A k \in 1..len : queue[k] = cells[off + k]
  <2>1. off \in Nat /\ len \in Nat /\ off + len <= Len(cells)
    BY <1>1 DEF TypeOK
  <2>2. QED
    BY <1>1, <2>1, QueueIs
<1>3. sc \in Scans
  BY <1>2 DEF Scans, Cell
<1>4. HeaderKept(sc)
  BY <1>2 DEF HeaderKept, cells
<1>5. SeesFront(sc)
  BY <1>2 DEF SeesFront, cells
<1>6. Proceed(r, sc, 0)
  BY DEF Begin
<1> HIDE DEF sc
<1>7. QED
  BY <1>3, <1>4, <1>5, <1>6, ProceedPreserves

----------------------------------------------------------------------------

(* A new mailbox satisfies the invariant.                                  *)
LEMMA InitIInv == Init => IInv
<1> SUFFICES ASSUME Init PROVE IInv
  OBVIOUS
<1> DEFINE a == [i \in 1..Capacity |-> None]
<1>1. /\ arrays = <<a>> /\ off = 0 /\ len = 0 /\ scan = [r \in Receivers |-> None]
      /\ received = 0 /\ accepted = 0 /\ delivered = << >> /\ evicted = {}
      /\ disturbed = FALSE
  BY DEF Init
<1>2. a \in Seq(Cell)
  <2>1. a \in [1..Capacity -> Cell] /\ Capacity \in Nat
    BY CapacityAssumption DEF Cell
  <2>2. QED
    BY <2>1, SeqDef
<1> HIDE DEF a
<1>3. Len(a) \in Nat
  BY <1>2, LenProperties
<1>4. cells = a /\ arrays \in Seq(Seq(Cell)) /\ arrays # << >>
  BY <1>1, <1>2 DEF cells
<1>5. queue = << >>
  <2>1. queue = SubSeq(a, 1, 0)
    BY <1>1, <1>4 DEF queue
  <2>2. QED
    BY <2>1, SubSeqEmpty
<1>6. queue \in Seq(Message) /\ Len(queue) = 0 /\ Elements(queue) = {}
  BY <1>5 DEF Elements
<1>7. IsFiniteSet(evicted) /\ Cardinality(evicted) = 0
  BY <1>1, FS_EmptySet
<1>8. TypeOK
  <2>1. accepted \in 0..MaxSends
    BY <1>1, MaxSendsAssumption
  <2>2. scan \in [Receivers -> Scans \cup {None}]
    BY <1>1
  <2>3. off + len <= Len(cells)
    BY <1>1, <1>3, <1>4
  <2>4. QED
    BY <1>1, <1>4, <1>6, <1>7, <2>1, <2>2, <2>3 DEF TypeOK
<1>9. Ordered(queue) /\ Younger /\ Apart
  BY <1>1, <1>6 DEF Ordered, Younger, Apart
<1>10. ScansHold
  BY <1>1 DEF ScansHold, Reading
<1>11. Exact
  <2>1. DOMAIN delivered = {}
    BY <1>1
  <2>2. 1..accepted = {}
    BY <1>1
  <2>3. QED
    BY <2>1, <2>2 DEF Exact
<1>12. AccountedFor
  BY <1>1, <1>7, CapacityAssumption DEF AccountedFor
<1>13. QED
  BY <1>8, <1>9, <1>10, <1>11, <1>12 DEF IInv

(* Every step of the mailbox preserves the invariant.                      *)
LEMMA NextIInv == IInv /\ [Next]_vars => IInv'
<1> SUFFICES ASSUME IInv, [Next]_vars PROVE IInv'
  OBVIOUS
<1>0. scan \in [Receivers -> Scans \cup {None}] /\ ScansHold
  BY DEF IInv, TypeOK
<1>1. ASSUME NEW r \in Receivers, Mismatch(r) PROVE IInv'
  <2>1. Reading(r) /\ Proceed(r, scan[r], scan[r].i + 1)
    BY <1>1 DEF Mismatch, Scanning, Reading
  <2>2. scan[r] \in Scans /\ scan[r].i + 1 \in Nat
    BY <1>0, <2>1 DEF Reading, Scans
  <2>3. HeaderKept(scan[r]) /\ (~disturbed => SeesFront(scan[r]))
    BY <1>0, <2>1 DEF ScansHold, ScanHolds
  <2>4. QED
    BY <2>1, <2>2, <2>3, ProceedPreserves
<1>2. ASSUME NEW r \in Receivers, Panic(r) \/ GiveUp(r) PROVE IInv'
  <2>1. /\ scan' = [scan EXCEPT ![r] = None]
        /\ UNCHANGED <<arrays, off, len, received, accepted, delivered, evicted, disturbed>>
    BY <1>2 DEF Panic, GiveUp
  <2>2. scan' \in [Receivers -> Scans \cup {None}]
    BY <1>0, <2>1
  <2>3. \A q \in Receivers :
           scan'[q] # None /\ scan'[q].st = "reading" => scan'[q] = scan[q]
    BY <1>0, <2>1
  <2>4. QED
    BY <2>1, <2>2, <2>3, QuietPreserves
<1>3. ASSUME NEW r \in Receivers, NEW k \in Kinds, ReceiveBy(r, k) \/ ReceiveByWait(r, k)
      PROVE  IInv'
  <2>1. \E b \in BOOLEAN : Begin(r, b, k)
    BY <1>3 DEF ReceiveBy, ReceiveByWait
  <2>2. QED
    BY <2>1, BeginPreserves
<1>4. CASE Close
  <2>1. /\ scan' = [q \in Receivers |-> Waking(scan[q])]
        /\ UNCHANGED <<arrays, off, len, received, accepted, delivered, evicted, disturbed>>
    BY <1>4 DEF Close, Broadcast
  <2>2. scan' \in [Receivers -> Scans \cup {None}]
    BY <1>0, <2>1, WakingIs
  <2>3. \A q \in Receivers :
           scan'[q] # None /\ scan'[q].st = "reading" => scan'[q] = scan[q]
    BY <1>0, <2>1, WakingIs
  <2>4. QED
    BY <2>1, <2>2, <2>3, QuietPreserves
<1>5. CASE UNCHANGED vars
  <2>1. /\ scan' = scan
        /\ UNCHANGED <<arrays, off, len, received, accepted, delivered, evicted, disturbed>>
    BY <1>5 DEF vars
  <2>2. QED
    BY <1>0, <2>1, QuietPreserves
<1>6. QED
  BY <1>1, <1>2, <1>3, <1>4, <1>5, SendPreserves, ReceivePreserves, MatchPreserves DEF Next

(* The conjunction above is an invariant of the predicate receives.        *)
THEOREM Invariance == Spec => []IInv
  BY InitIInv, NextIInv, PTL DEF Spec

(* The slice of the queue stays within its array and holds messages only.  *)
THEOREM TypeCorrect == Spec => []TypeOK
<1>1. IInv => TypeOK
  BY DEF IInv
<1>2. QED
  BY <1>1, Invariance, PTL

(* A scan in progress never reads beyond the array its header points into, *)
(* however often the queue was moved meanwhile.                            *)
THEOREM HeadersStayValid == Spec => [](\A r \in Receivers : Reading(r) => HeaderKept(scan[r]))
<1>1. IInv => \A r \in Receivers : Reading(r) => HeaderKept(scan[r])
  BY DEF IInv, ScansHold, ScanHolds
<1>2. QED
  BY <1>1, Invariance, PTL

(* As long as no scan is overtaken, ReceiveBy extracts what its predicate  *)
(* accepted, and no message is delivered twice or vanishes.                *)
THEOREM ExactReceives == Spec => []ExactUndisturbed
<1>1. IInv => ExactUndisturbed
  <2> SUFFICES ASSUME IInv, ~disturbed PROVE ExactlyOnce /\ NothingLost
    BY DEF ExactUndisturbed
  <2>1. InBox = Elements(queue)
    BY QueueIs DEF IInv
  <2>2. QED
    BY <2>1 DEF IInv, Exact, ExactlyOnce, NothingLost, DeliveredSet
<1>2. QED
  BY <1>1, Invariance, PTL

(* No removal at a stale position reorders the queue: System messages stay *)
(* ahead, each class stays in the order of acceptance.                     *)
THEOREM OrderSurvivesRaces == Spec => []KeepsOrder
<1>1. IInv => KeepsOrder
  BY DEF IInv, KeepsOrder
<1>2. QED
  BY <1>1, Invariance, PTL

(* Every receive takes exactly one message out, even the wrong one, and    *)
(* the queue never exceeds its capacity.                                   *)
THEOREM CountersSurviveRaces == Spec => []AccountedFor
<1>1. IInv => AccountedFor
  BY DEF IInv
<1>2. QED
  BY <1>1, Invariance, PTL
=============================================================================
