--------------------------- MODULE EventRingProofs ---------------------------
(***************************************************************************)
(* Proofs about EventRing for every capacity and set of consumers: the     *)
(* ring holds the newest events without a hole, no event is unaccounted    *)
(* for, the gaps a consumer is told of are exact, and no consumer sleeps   *)
(* beside an event.  And about Supervisor, for any workers, calls and      *)
(* bounds: beside a supervisor the ring keeps what EventRing promises, and *)
(* a supervisor returns or gives up only with a cause.                     *)
(***************************************************************************)
EXTENDS Supervisor, SequenceTheorems, FiniteSetTheorems, TLAPS

(* The arithmetic of the ring without its modulus.                         *)
LEMMA Wrapped ==
    ASSUME NEW x \in 0..2 * Capacity - 1
    PROVE  x % Capacity = IF x < Capacity THEN x ELSE x - Capacity
  BY CapacityAssumption

(* Where the i-th slot from the head is.                                   *)
LEMMA SlotPlace ==
    ASSUME head \in Slots, NEW i \in 0..Capacity
    PROVE  /\ Slot(i) = IF head + i < Capacity THEN head + i ELSE head + i - Capacity
           /\ Slot(i) \in Slots
  BY Wrapped, CapacityAssumption DEF Slot, Slots

(* Different distances from the head are different slots.                  *)
LEMMA SlotInjective ==
    ASSUME head \in Slots, NEW i \in 0..Capacity - 1, NEW j \in 0..Capacity - 1,
           Slot(i) = Slot(j)
    PROVE  i = j
  BY SlotPlace, CapacityAssumption DEF Slots

(* Moving the head by one moves every slot by one, and what was the head   *)
(* becomes the last slot.                                                  *)
LEMMA SlotShifted ==
    ASSUME head \in Slots, head' = Slot(1)
    PROVE  /\ head' \in Slots
           /\ \A i \in 0..Capacity - 2 : Slot(i)' = Slot(i + 1)
           /\ Slot(Capacity - 1)' = head
           /\ Slot(0) = head
<1>1. head' \in Slots
  BY SlotPlace, CapacityAssumption
<1>2. ASSUME NEW i \in 0..Capacity - 1
      PROVE  Slot(i)' = IF head' + i < Capacity THEN head' + i ELSE head' + i - Capacity
  BY <1>1, Wrapped, CapacityAssumption DEF Slot, Slots
<1>3. head' = IF head + 1 < Capacity THEN head + 1 ELSE head + 1 - Capacity
  BY SlotPlace, CapacityAssumption
<1>4. ASSUME NEW i \in 0..Capacity - 2 PROVE Slot(i)' = Slot(i + 1)
  <2>1. i \in 0..Capacity - 1 /\ i + 1 \in 0..Capacity
    BY CapacityAssumption
  <2>2. Slot(i + 1) = IF head + (i + 1) < Capacity THEN head + (i + 1)
                      ELSE head + (i + 1) - Capacity
    BY <2>1, SlotPlace
  <2>3. QED
    BY <1>2, <1>3, <2>1, <2>2, CapacityAssumption DEF Slots
<1>5. Slot(Capacity - 1)' = head
  BY <1>2, <1>3, CapacityAssumption DEF Slots
<1>6. Slot(0) = head
  BY SlotPlace, CapacityAssumption DEF Slots
<1>7. QED
  BY <1>1, <1>4, <1>5, <1>6

----------------------------------------------------------------------------

(* A consumer's watermark is behind everything that is still queued.       *)
Behind == \A r \in Receivers : lastSeq[r] <= seq - size

IInv ==
    /\ TypeOK
    /\ Contiguous
    /\ AccountedFor
    /\ Behind
    /\ GapsAreDrops
    /\ NoLostWakeup

(* A new hypervisor satisfies the invariant.                               *)
LEMMA InitIInv == Init => IInv
<1> SUFFICES ASSUME Init PROVE IInv
  OBVIOUS
<1>1. TypeOK
  BY CapacityAssumption DEF Init, TypeOK, Slots
<1>2. \A i \in 0..Capacity - 1 : Slot(i) \in Slots
  BY <1>1, SlotPlace, CapacityAssumption DEF TypeOK
<1>3. Contiguous
  BY <1>2, CapacityAssumption DEF Init, Contiguous
<1>4. AccountedFor /\ Behind /\ GapsAreDrops /\ NoLostWakeup
  BY DEF Init, AccountedFor, Behind, GapsAreDrops, NoLostWakeup
<1>5. QED
  BY <1>1, <1>3, <1>4 DEF IInv

(* Publishing an event keeps the ring contiguous: it fills the first free  *)
(* slot, or takes the place of the oldest.                                 *)
LEMMA PushContiguous == IInv /\ Push => TypeOK' /\ Contiguous'
<1> SUFFICES ASSUME IInv, Push PROVE TypeOK' /\ Contiguous'
  OBVIOUS
<1> USE CapacityAssumption
<1>1. /\ TypeOK /\ Contiguous
      /\ head \in Slots /\ size \in 0..Capacity /\ seq \in Nat
      /\ seq' = seq + 1
  BY DEF IInv, TypeOK, Push
<1>2. ring' \in [Slots -> Nat \cup {None}] /\ seq' \in Nat /\ dropped' \in Nat
  BY <1>1 DEF TypeOK, Push, PushWithRoom, PushOverOldest
<1>3. wait' \in [Receivers -> {"no", "parked", "woken"}] /\ UNCHANGED <<timed, lastSeq, missed, popped, heard>>
  BY <1>1 DEF TypeOK, Push, signalEvent, gaps
<1>4. CASE PushWithRoom
  <2>1. /\ size < Capacity /\ size' = size + 1 /\ head' = head
        /\ ring' = [ring EXCEPT ![Slot(size)] = seq + 1]
    BY <1>4 DEF PushWithRoom
  <2>2. \A i : Slot(i)' = Slot(i)
    BY <2>1 DEF Slot
  <2>3. \A i \in 0..Capacity - 1 :
           ring'[Slot(i)] = IF i = size THEN seq + 1 ELSE ring[Slot(i)]
    BY <1>1, <2>1, SlotPlace, SlotInjective DEF TypeOK
  <2>4. Contiguous'
    BY <1>1, <2>1, <2>2, <2>3 DEF Contiguous
  <2>5. QED
    BY <1>1, <1>2, <1>3, <2>1, <2>4 DEF TypeOK
<1>5. CASE PushOverOldest
  <2>1. /\ size = Capacity /\ size' = size /\ head' = Slot(1)
        /\ ring' = [ring EXCEPT ![head] = seq + 1]
    BY <1>5 DEF PushOverOldest
  <2>2. /\ head' \in Slots /\ Slot(0) = head
        /\ \A i \in 0..Capacity - 2 : Slot(i)' = Slot(i + 1)
        /\ Slot(Capacity - 1)' = head
    BY <1>1, <2>1, SlotShifted
  <2>3. \A i \in 0..Capacity - 2 : ring'[Slot(i)'] = seq' - size' + 1 + i
    <3>1. SUFFICES ASSUME NEW i \in 0..Capacity - 2
                   PROVE  ring'[Slot(i)'] = seq' - size' + 1 + i
      OBVIOUS
    <3>2. i + 1 \in 0..Capacity - 1 /\ 0 \in 0..Capacity - 1 /\ i + 1 # 0
      OBVIOUS
    <3>3. Slot(i + 1) # head /\ Slot(i + 1) \in Slots
      BY <1>1, <2>2, <3>2, SlotInjective, SlotPlace
    <3>4. ring'[Slot(i + 1)] = ring[Slot(i + 1)]
      BY <1>1, <2>1, <3>3 DEF TypeOK
    <3>5. ring[Slot(i + 1)] = seq - size + 1 + (i + 1)
      BY <1>1, <2>1, <3>2 DEF Contiguous
    <3>6. QED
      BY <1>1, <2>1, <2>2, <3>4, <3>5
  <2>4. ring'[Slot(Capacity - 1)'] = seq' - size' + 1 + (Capacity - 1)
    BY <1>1, <2>1, <2>2 DEF TypeOK
  <2>5. Contiguous'
    BY <1>1, <2>1, <2>3, <2>4 DEF Contiguous
  <2>6. QED
    BY <1>1, <1>2, <1>3, <2>1, <2>2, <2>5 DEF TypeOK
<1>6. QED
  BY <1>4, <1>5 DEF Push

(* Taking the oldest event keeps the ring contiguous, and hands out the    *)
(* number that follows everything handed out or dropped before.            *)
LEMMA PopContiguous ==
    ASSUME IInv, NEW r \in Receivers, Pop(r), timed' \in [Receivers -> BOOLEAN]
    PROVE  /\ TypeOK' /\ Contiguous'
           /\ ring[head] = seq - size + 1
<1> USE CapacityAssumption
<1>1. /\ TypeOK /\ Contiguous /\ Behind
      /\ head \in Slots /\ size \in 1..Capacity /\ seq \in Nat
      /\ seq' = seq /\ dropped' = dropped /\ size' = size - 1 /\ head' = Slot(1)
      /\ popped' = popped + 1
      /\ ring' = [ring EXCEPT ![head] = None]
      /\ wait' = [wait EXCEPT ![r] = "no"]
      /\ ConsumeWithGap(r, ring[head]) \/ UNCHANGED <<lastSeq, missed, heard>>
  BY DEF IInv, TypeOK, Pop, gaps
<1>2. /\ head' \in Slots /\ Slot(0) = head
      /\ \A i \in 0..Capacity - 2 : Slot(i)' = Slot(i + 1)
      /\ Slot(Capacity - 1)' = head
  BY <1>1, SlotShifted
<1>3. ring[head] = seq - size + 1
  BY <1>1, <1>2 DEF Contiguous
<1>4. seq - size + 1 \in Nat
  BY <1>1 DEF IInv, AccountedFor, TypeOK
<1>5. gapCount(r, ring[head]) \in Nat
  BY <1>1, <1>3, <1>4 DEF gapCount, TypeOK
<1>6. /\ lastSeq' \in [Receivers -> Nat] /\ missed' \in [Receivers -> Nat]
      /\ heard' \in [Receivers -> Nat]
  BY <1>1, <1>3, <1>4, <1>5 DEF ConsumeWithGap, TypeOK
<1>7. TypeOK'
  <2>1. ring' \in [Slots -> Nat \cup {None}]
    BY <1>1 DEF TypeOK
  <2>2. wait' \in [Receivers -> {"no", "parked", "woken"}]
    BY <1>1 DEF TypeOK
  <2>3. QED
    BY <1>1, <1>2, <1>6, <2>1, <2>2 DEF TypeOK
<1>8. \A i \in 0..Capacity - 2 : ring'[Slot(i)'] = ring[Slot(i + 1)]
  <2>1. SUFFICES ASSUME NEW i \in 0..Capacity - 2 PROVE ring'[Slot(i)'] = ring[Slot(i + 1)]
    OBVIOUS
  <2>2. i + 1 \in 0..Capacity - 1 /\ 0 \in 0..Capacity - 1 /\ i + 1 # 0
    OBVIOUS
  <2>3. Slot(i + 1) # head /\ Slot(i + 1) \in Slots
    BY <1>1, <1>2, <2>2, SlotInjective, SlotPlace
  <2>4. QED
    BY <1>1, <1>2, <2>3 DEF TypeOK
<1>9. ring'[Slot(Capacity - 1)'] = None
  BY <1>1, <1>2 DEF TypeOK
<1>10. Contiguous'
  <2>1. ASSUME NEW i \in 0..size' - 1 PROVE ring'[Slot(i)'] = seq' - size' + 1 + i
    <3>1. i \in 0..Capacity - 2 /\ i + 1 \in 0..size - 1
      BY <1>1
    <3>2. ring[Slot(i + 1)] = seq - size + 1 + (i + 1)
      BY <1>1, <3>1 DEF Contiguous
    <3>3. QED
      BY <1>1, <1>8, <3>1, <3>2
  <2>2. ASSUME NEW i \in size'..Capacity - 1 PROVE ring'[Slot(i)'] = None
    <3>1. CASE i = Capacity - 1
      BY <1>9, <3>1
    <3>2. CASE i # Capacity - 1
      <4>1. i \in 0..Capacity - 2 /\ i + 1 \in size..Capacity - 1
        BY <1>1, <3>2
      <4>2. QED
        BY <1>1, <1>8, <4>1 DEF Contiguous
    <3>3. QED
      BY <3>1, <3>2
  <2>3. QED
    BY <2>1, <2>2 DEF Contiguous
<1>11. QED
  BY <1>3, <1>7, <1>10

(* Every step of the ring keeps the invariant.                             *)
LEMMA NextIInv == IInv /\ [Next]_vars => IInv'
<1> SUFFICES ASSUME IInv, [Next]_vars PROVE IInv'
  OBVIOUS
<1> USE CapacityAssumption
<1>1. CASE Push
  <2>1. TypeOK' /\ Contiguous'
    BY <1>1, PushContiguous
  <2>2. /\ seq' = seq + 1 /\ UNCHANGED <<lastSeq, missed, popped, heard>>
        /\ seq \in Nat /\ size \in Nat /\ dropped \in Nat /\ popped \in Nat
        /\ lastSeq \in [Receivers -> Nat] /\ missed \in [Receivers -> Nat]
        /\ heard \in [Receivers -> Nat]
    BY <1>1 DEF Push, gaps, IInv, TypeOK
  <2>3. \/ size' = size + 1 /\ dropped' = dropped
        \/ size' = size /\ dropped' = dropped + 1
    BY <1>1 DEF Push, PushWithRoom, PushOverOldest
  <2>4. AccountedFor' /\ Behind' /\ GapsAreDrops'
    <3>1. AccountedFor'
      BY <2>2, <2>3 DEF IInv, AccountedFor
    <3>2. Behind'
      BY <2>2, <2>3 DEF IInv, Behind
    <3>3. GapsAreDrops'
      BY <2>2, <2>3 DEF IInv, GapsAreDrops
    <3>4. QED
      BY <3>1, <3>2, <3>3
  <2>5. NoLostWakeup'
    BY <1>1 DEF Push, signalEvent, NoLostWakeup
  <2>6. QED
    BY <2>1, <2>4, <2>5 DEF IInv
<1>2. ASSUME NEW r \in Receivers, Pop(r), timed' \in [Receivers -> BOOLEAN]
      PROVE  IInv'
  <2>1. TypeOK' /\ Contiguous' /\ ring[head] = seq - size + 1
    BY <1>2, PopContiguous
  <2>2. /\ seq' = seq /\ dropped' = dropped /\ size' = size - 1 /\ popped' = popped + 1
        /\ wait' = [wait EXCEPT ![r] = "no"]
        /\ ConsumeWithGap(r, ring[head]) \/ UNCHANGED <<lastSeq, missed, heard>>
        /\ size > 0
    BY <1>2 DEF Pop, gaps
  <2>3. /\ seq \in Nat /\ size \in Nat /\ dropped \in Nat /\ popped \in Nat
        /\ lastSeq \in [Receivers -> Nat] /\ missed \in [Receivers -> Nat]
        /\ heard \in [Receivers -> Nat]
        /\ wait \in [Receivers -> {"no", "parked", "woken"}]
    BY DEF IInv, TypeOK
  <2>4. AccountedFor'
    BY <2>2, <2>3 DEF IInv, AccountedFor
  <2>5. \/ /\ lastSeq' = [lastSeq EXCEPT ![r] = seq - size + 1]
           /\ missed' = [missed EXCEPT ![r] = @ + (seq - size - lastSeq[r])]
           /\ heard' = [heard EXCEPT ![r] = @ + 1]
        \/ UNCHANGED <<lastSeq, missed, heard>>
    <3>1. lastSeq[r] <= seq - size
      BY DEF IInv, Behind
    <3>2. gapCount(r, ring[head]) = seq - size - lastSeq[r]
      BY <2>1, <2>3, <3>1 DEF gapCount
    <3>3. QED
      BY <2>1, <2>2, <3>2 DEF ConsumeWithGap
  <2>6. Behind'
    BY <2>2, <2>3, <2>5 DEF IInv, Behind
  <2>7. GapsAreDrops'
    <3>1. SUFFICES ASSUME NEW q \in Receivers
                   PROVE  missed'[q] + (seq' - size' - lastSeq'[q]) = dropped' + (popped' - heard'[q])
      BY DEF GapsAreDrops
    <3>2. missed[q] + (seq - size - lastSeq[q]) = dropped + (popped - heard[q])
      BY DEF IInv, GapsAreDrops
    <3>3. CASE q = r /\ ~UNCHANGED <<lastSeq, missed, heard>>
      <4>1. /\ lastSeq'[q] = seq - size + 1 /\ heard'[q] = heard[q] + 1
            /\ missed'[q] = missed[q] + (seq - size - lastSeq[q])
        BY <2>3, <2>5, <3>3
      <4> QED
        BY <2>2, <2>3, <3>2, <4>1
    <3>4. CASE ~(q = r /\ ~UNCHANGED <<lastSeq, missed, heard>>)
      <4>1. lastSeq'[q] = lastSeq[q] /\ heard'[q] = heard[q] /\ missed'[q] = missed[q]
        BY <2>3, <2>5, <3>4
      <4> QED
        BY <2>2, <2>3, <3>2, <4>1
    <3> QED
      BY <3>3, <3>4
  <2>8. NoLostWakeup'
    BY <2>2, <2>3 DEF IInv, NoLostWakeup
  <2>9. QED
    BY <2>1, <2>4, <2>6, <2>7, <2>8 DEF IInv
<1>3. ASSUME UNCHANGED <<queue, gaps, popped>>,
             wait' \in [Receivers -> {"no", "parked", "woken"}],
             timed' \in [Receivers -> BOOLEAN],
             \A r \in Receivers : wait'[r] = "parked" => wait[r] = "parked" \/ size = 0
      PROVE  IInv'
  <2>1. UNCHANGED <<ring, head, size, seq, dropped, lastSeq, missed, popped, heard>>
    BY <1>3 DEF queue, gaps
  <2>2. TypeOK'
    BY <1>3, <2>1 DEF IInv, TypeOK
  <2>3. \A i : Slot(i)' = Slot(i)
    BY <2>1 DEF Slot
  <2>4. Contiguous'
    BY <2>1, <2>3 DEF IInv, Contiguous
  <2>5. AccountedFor' /\ Behind' /\ GapsAreDrops'
    BY <2>1 DEF IInv, AccountedFor, Behind, GapsAreDrops
  <2>6. NoLostWakeup'
    BY <1>3, <2>1 DEF IInv, NoLostWakeup
  <2>7. QED
    BY <2>2, <2>4, <2>5, <2>6 DEF IInv
<1>4. ASSUME NEW r \in Receivers, Park(r), timed' \in [Receivers -> BOOLEAN]
      PROVE  IInv'
  <2>1. /\ UNCHANGED <<queue, gaps, popped>> /\ size = 0
        /\ wait' = [wait EXCEPT ![r] = "parked"]
    BY <1>4 DEF Park
  <2>2. wait \in [Receivers -> {"no", "parked", "woken"}]
    BY DEF IInv, TypeOK
  <2>3. QED
    BY <1>3, <1>4, <2>1, <2>2
<1>5. ASSUME NEW r \in Receivers,
             ReceiveEvent(r) \/ ReceiveEventTimeout(r) \/ Retry(r) \/ Expire(r)
      PROVE  IInv'
  <2>1. timed \in [Receivers -> BOOLEAN] /\ wait \in [Receivers -> {"no", "parked", "woken"}]
    BY DEF IInv, TypeOK
  <2>2. CASE ReceiveEvent(r) \/ ReceiveEventTimeout(r) \/ Retry(r)
    <3>1. (Pop(r) \/ Park(r)) /\ timed' \in [Receivers -> BOOLEAN]
      BY <2>1, <2>2 DEF ReceiveEvent, ReceiveEventTimeout, Retry
    <3>2. QED
      BY <3>1, <1>2, <1>4
  <2>3. CASE Expire(r)
    <3>1. /\ UNCHANGED <<queue, gaps, popped>> /\ wait' = [wait EXCEPT ![r] = "no"]
          /\ timed' \in [Receivers -> BOOLEAN]
      BY <2>1, <2>3 DEF Expire
    <3>2. QED
      BY <1>3, <2>1, <3>1
  <2>4. QED
    BY <1>5, <2>2, <2>3
<1>6. CASE UNCHANGED vars
  <2>1. timed \in [Receivers -> BOOLEAN] /\ wait \in [Receivers -> {"no", "parked", "woken"}]
    BY DEF IInv, TypeOK
  <2>2. UNCHANGED <<queue, gaps, popped, wait, timed>>
    BY <1>6 DEF vars
  <2>3. QED
    BY <1>3, <2>1, <2>2
<1>7. QED
  BY <1>1, <1>5, <1>6 DEF Next

(* The inductive invariant holds of every reachable state.                 *)
THEOREM Invariance == Spec => []IInv
  BY InitIInv, NextIInv, PTL DEF Spec

(* Every variable keeps its type: in particular the head stays a slot and  *)
(* the size within the capacity.                                           *)
THEOREM TypeCorrect == Spec => []TypeOK
<1>1. IInv => TypeOK
  BY DEF IInv
<1>2. QED
  BY <1>1, Invariance, PTL

(* pushEventLocked and popEventLocked keep the newest events in the ring,  *)
(* in order and without a hole, across every wrap-around.                  *)
THEOREM RingContiguous == Spec => []Contiguous
<1>1. IInv => Contiguous
  BY DEF IInv
<1>2. QED
  BY <1>1, Invariance, PTL

(* No event is unaccounted for.                                            *)
THEOREM EventsAccountedFor == Spec => []AccountedFor
<1>1. IInv => AccountedFor
  BY DEF IInv
<1>2. QED
  BY <1>1, Invariance, PTL

(* The gap detection of kit/vmm misses no loss and invents none: what a    *)
(* consumer is told of are the drops and what was taken past its watermark.*)
THEOREM GapsExact == Spec => []GapsAreDrops
<1>1. IInv => GapsAreDrops
  BY DEF IInv
<1>2. QED
  BY <1>1, Invariance, PTL

(* No consumer sleeps while an event is queued.                            *)
THEOREM WakeupsKept == Spec => []NoLostWakeup
<1>1. IInv => NoLostWakeup
  BY DEF IInv
<1>2. QED
  BY <1>1, Invariance, PTL

----------------------------------------------------------------------------

(* What the abstract stream sees of a contiguous ring: a run of numbers.   *)
PendingIsRun ==
    /\ Pending \in Seq(Nat)
    /\ Len(Pending) = size
    /\ \A i \in 1..size : Pending[i] = seq - size + i

LEMMA PendingRun == IInv => PendingIsRun
<1> SUFFICES ASSUME IInv PROVE PendingIsRun
  OBVIOUS
<1> USE CapacityAssumption
<1>1. /\ size \in 0..Capacity /\ seq \in Nat /\ seq - size \in Nat
      /\ Contiguous
  BY DEF IInv, TypeOK, AccountedFor
<1>2. \A i \in 1..size : Pending[i] = seq - size + i
  <2>1. SUFFICES ASSUME NEW i \in 1..size PROVE Pending[i] = seq - size + i
    OBVIOUS
  <2>2. i - 1 \in 0..size - 1
    BY <1>1
  <2>3. ring[Slot(i - 1)] = seq - size + 1 + (i - 1)
    BY <1>1, <2>2 DEF Contiguous
  <2>4. QED
    BY <1>1, <2>3 DEF Pending
<1>3. \A i \in 1..size : Pending[i] \in Nat
  BY <1>1, <1>2
<1>4. Pending = [i \in 1..size |-> Pending[i]]
  BY DEF Pending
<1>5. Pending \in Seq(Nat) /\ Len(Pending) = size
  BY <1>1, <1>3, <1>4, IsASeq
<1>6. QED
  BY <1>2, <1>5 DEF PendingIsRun

(* A push appends the next number, losing the oldest if the ring is full.  *)
LEMMA PushIsPublished == IInv /\ IInv' /\ Push => Stream!Next
<1> SUFFICES ASSUME IInv, IInv', Push PROVE Stream!Next
  OBVIOUS
<1> USE CapacityAssumption
<1> DEFINE p == Pending
           q == Pending'
<1>1. /\ p \in Seq(Nat) /\ Len(p) = size
      /\ \A i \in 1..size : p[i] = seq - size + i
  BY PendingRun DEF PendingIsRun
<1>2. /\ q \in Seq(Nat) /\ Len(q) = size'
      /\ \A i \in 1..size' : q[i] = seq' - size' + i
  <2>1. PendingIsRun'
    BY PendingRun, PTL
  <2>2. QED
    BY <2>1 DEF PendingIsRun
<1> HIDE DEF p, q
<1>3. size \in 0..Capacity /\ seq \in Nat /\ seq + 1 \in Nat /\ seq' = seq + 1 /\ popped' = popped
  BY DEF IInv, TypeOK, Push
<1>4. CASE PushWithRoom
  <2>1. size < Capacity /\ size' = size + 1 /\ dropped' = dropped
    BY <1>4 DEF PushWithRoom
  <2>2. /\ Append(p, seq + 1) \in Seq(Nat) /\ Len(Append(p, seq + 1)) = size + 1
        /\ \A i \in 1..size : Append(p, seq + 1)[i] = p[i]
        /\ Append(p, seq + 1)[size + 1] = seq + 1
    BY <1>1, <1>3, AppendProperties
  <2>3. \A i \in 1..size + 1 : q[i] = Append(p, seq + 1)[i]
    BY <1>1, <1>2, <1>3, <2>1, <2>2
  <2>4. q = Append(p, seq + 1)
    BY <1>2, <2>1, <2>2, <2>3, SeqEqual
  <2>5. Stream!Publish
    BY <1>1, <1>3, <2>1, <2>4 DEF Stream!Publish, p, q
  <2>6. QED
    BY <2>5 DEF Stream!Next
<1>5. CASE PushOverOldest
  <2>1. size = Capacity /\ size' = size /\ dropped' = dropped + 1
    BY <1>5 DEF PushOverOldest
  <2>2. /\ Tail(p) \in Seq(Nat) /\ Len(Tail(p)) = size - 1
        /\ \A i \in 1..size - 1 : Tail(p)[i] = p[i + 1]
    BY <1>1, <2>1, HeadTailProperties, EmptySeq
  <2>3. /\ Append(Tail(p), seq + 1) \in Seq(Nat) /\ Len(Append(Tail(p), seq + 1)) = size
        /\ \A i \in 1..size - 1 : Append(Tail(p), seq + 1)[i] = Tail(p)[i]
        /\ Append(Tail(p), seq + 1)[size] = seq + 1
    BY <1>3, <2>1, <2>2, AppendProperties
  <2>4. \A i \in 1..size : q[i] = Append(Tail(p), seq + 1)[i]
    BY <1>1, <1>2, <1>3, <2>1, <2>2, <2>3
  <2>5. q = Append(Tail(p), seq + 1)
    BY <1>2, <2>1, <2>3, <2>4, SeqEqual
  <2>6. Stream!PublishOverOldest
    BY <1>1, <1>3, <2>1, <2>5 DEF Stream!PublishOverOldest, p, q
  <2>7. QED
    BY <2>6 DEF Stream!Next
<1>6. QED
  BY <1>4, <1>5 DEF Push

(* A pop takes the oldest number.                                          *)
LEMMA PopIsTaken == ASSUME IInv, IInv', NEW r \in Receivers, Pop(r) PROVE Stream!Next
<1> USE CapacityAssumption
<1> DEFINE p == Pending
           q == Pending'
<1>1. /\ p \in Seq(Nat) /\ Len(p) = size
      /\ \A i \in 1..size : p[i] = seq - size + i
  BY PendingRun DEF PendingIsRun
<1>2. /\ q \in Seq(Nat) /\ Len(q) = size'
      /\ \A i \in 1..size' : q[i] = seq' - size' + i
  <2>1. PendingIsRun'
    BY PendingRun, PTL
  <2>2. QED
    BY <2>1 DEF PendingIsRun
<1> HIDE DEF p, q
<1>3. /\ size \in 1..Capacity /\ size' = size - 1 /\ popped' = popped + 1
      /\ seq \in Nat /\ UNCHANGED <<seq, dropped>>
  BY DEF IInv, TypeOK, Pop
<1>4. /\ p # <<>> /\ Tail(p) \in Seq(Nat) /\ Len(Tail(p)) = size - 1
      /\ \A i \in 1..size - 1 : Tail(p)[i] = p[i + 1]
  BY <1>1, <1>3, HeadTailProperties, EmptySeq
<1>5. \A i \in 1..size - 1 : q[i] = Tail(p)[i]
  BY <1>1, <1>2, <1>3, <1>4
<1>6. q = Tail(p)
  BY <1>2, <1>3, <1>4, <1>5, SeqEqual
<1>7. Stream!Take
  BY <1>3, <1>4, <1>6 DEF Stream!Take, p, q
<1>8. QED
  BY <1>7 DEF Stream!Next

(* Every step of the ring is a step of the stream, or stutters.            *)
LEMMA NextIsStreamed == IInv /\ IInv' /\ [Next]_vars => [Stream!Next]_(Stream!vars)
<1> SUFFICES ASSUME IInv, IInv', [Next]_vars PROVE [Stream!Next]_(Stream!vars)
  OBVIOUS
<1>1. ASSUME UNCHANGED <<queue, popped>> PROVE UNCHANGED Stream!vars
  <2>1. UNCHANGED <<ring, head, size, seq, dropped, popped>>
    BY <1>1 DEF queue
  <2>2. Pending' = Pending
    BY <2>1 DEF Pending, Slot
  <2>3. QED
    BY <2>1, <2>2 DEF Stream!vars
<1>2. CASE Push
  BY <1>2, PushIsPublished
<1>3. ASSUME NEW r \in Receivers,
             ReceiveEvent(r) \/ ReceiveEventTimeout(r) \/ Retry(r) \/ Expire(r)
      PROVE  [Stream!Next]_(Stream!vars)
  <2>1. Pop(r) \/ UNCHANGED <<queue, popped>>
    BY <1>3 DEF ReceiveEvent, ReceiveEventTimeout, Retry, Expire, Park
  <2>2. QED
    BY <2>1, <1>1, PopIsTaken
<1>4. CASE UNCHANGED vars
  BY <1>1, <1>4 DEF vars
<1>5. QED
  BY <1>2, <1>3, <1>4 DEF Next

(* The ring implements the numbered stream that loses only its oldest      *)
(* events, and only when it is full.                                       *)
THEOREM Refinement == Spec => KeepsStream
<1>1. Init => Stream!Init
  <2>1. ASSUME Init PROVE Pending = <<>>
    BY <2>1 DEF Init, Pending
  <2>2. QED
    BY <2>1 DEF Init, Stream!Init
<1>2. IInv /\ IInv' /\ [Next]_vars => [Stream!Next]_(Stream!vars)
  BY NextIsStreamed
<1>3. QED
  BY <1>1, <1>2, Invariance, PTL DEF Spec, KeepsStream, Stream!Spec

-----------------------------------------------------------------------------

(* What the supervisor remembers.  An event tells of the end of a worker,  *)
(* or of another VM.  One that tells of a worker's end as a clean exit     *)
(* follows a call that stops it, or two calls.                             *)
Kinds == {"none", "kill", "stop"}
Statuses == {"none", "running", "stopping", "stopped", "crashed"}
Types == {"none", "exit", "crash", "vm_exit"}
Asked(w) == Told(w, {"stop"}) \/ Twice(w)
Truthful(evt) ==
    /\ evt.tells \in {"clean", "crash", "other"}
    /\ evt.of # None /\ Clean(evt) => Asked(evt.of)
Queued == \A i \in Slots : ring[i] # None => ring[i] <= seq /\ Truthful(about[i])

(* So does its status.                                                     *)
Prepared == \A w \in Workers : status[w] = "stopped" => Asked(w)

(* The events that may still be charged as restarts, and all that a        *)
(* restart may be charged to.                                              *)
Chargeable(evt) == ~Clean(evt) /\ (reconciles => evt.of # None)
Charged == {i \in Slots : ring[i] # None /\ Chargeable(about[i])}
Charges == failures + (IF reconciles THEN 0 ELSE strays)

SupTypeOK ==
    /\ registered \in Workers \cup {None}
    /\ call \in [Calls -> [of : Workers \cup {None}, kind : Kinds, over : BOOLEAN]]
    /\ life \in [Workers -> {"unborn", "running", "ending", "ended", "gone"}]
    /\ status \in [Workers -> Statuses]
    /\ ending \in [Workers -> Types]
    /\ at \in {"spawn"} \cup Waiting \cup Over
    /\ reconciles \in BOOLEAN
    /\ recent \in Nat
    /\ failures \in Nat
    /\ strays \in Nat

Ends ==
    /\ at = "panicked" => recent > MaxRestarts
    /\ at = "returned" => IF IsForWorker(cause) THEN Asked(cause.of) ELSE ~reconciles

(* No restart is charged twice: what is remembered and what is queued do   *)
(* not exceed what has happened.                                           *)
SupInv ==
    /\ SupTypeOK
    /\ Queued
    /\ Prepared
    /\ recent + Cardinality(Charged) <= Charges
    /\ Ends
-----------------------------------------------------------------------------
(* What a supervisor, its workers and their calls do to the ring is what   *)
(* EventRing allows.                                                       *)
LEMMA SupNextIsNext == [SupNext]_allVars => [Next]_vars
<1> SUFFICES ASSUME [SupNext]_allVars PROVE [Next]_vars
  OBVIOUS
<1>1. CASE Foreign
  BY <1>1 DEF Foreign, Publish, Next
<1>2. CASE Elsewhere
  BY <1>2 DEF Elsewhere, Next
<1>3. CASE Live
  BY <1>3 DEF Live, Ending, Stop, Tell, Free, Ask, Return, Publish, Next
<1>4. CASE Supervise
  <2>1. CASE (\E w \in Workers : Spawn(w)) \/ SpawnFails
    BY <2>1 DEF Spawn, SpawnFails
  <2>2. CASE Listen
    BY <2>2, SupervisorAssumption DEF Listen, Next
  <2>3. CASE Deadline
    BY <2>3, SupervisorAssumption DEF Deadline, Next
  <2> QED
    BY <1>4, <2>1, <2>2, <2>3 DEF Supervise
<1>5. CASE UNCHANGED allVars
  BY <1>5 DEF allVars
<1> QED
  BY <1>1, <1>2, <1>3, <1>4, <1>5 DEF SupNext

(* The hypervisor's ring is the same with a supervisor among its consumers, *)
(* so that all that is proved of it holds there.                           *)
THEOREM SupervisorKeepsRing == SupSpec => Spec
<1>1. SupInit => Init
  BY DEF SupInit
<1> QED
  BY <1>1, SupNextIsNext, PTL DEF SupSpec, Spec

(* What the invariant of the ring says of a push and of a pop.             *)
LEMMA Pushed ==
    ASSUME IInv, Push, Queued
    PROVE  \E k \in Slots : /\ ring' = [ring EXCEPT ![k] = seq + 1] /\ seq' = seq + 1
                            /\ ring[k] # seq + 1 /\ seq + 1 # None /\ seq \in Nat
<1>1. head \in Slots /\ size \in 0..Capacity /\ seq \in Nat
  BY DEF IInv, TypeOK
<1>2. Slot(size) \in Slots
  BY <1>1, SlotPlace
<1>3. PICK k \in Slots : ring' = [ring EXCEPT ![k] = seq + 1] /\ seq' = seq + 1
  BY <1>1, <1>2 DEF Push, PushWithRoom, PushOverOldest
<1>4. seq + 1 # None
  BY <1>1, NoneAssumption
<1>5. ring[k] # seq + 1
  <2>1. ring[k] # None => ring[k] <= seq /\ ring[k] \in Nat
    BY DEF IInv, TypeOK, Queued
  <2> QED
    BY <1>1, <1>4, <2>1
<1> QED
  BY <1>1, <1>3, <1>4, <1>5

LEMMA Popped ==
    ASSUME IInv, NEW r \in Receivers, Pop(r)
    PROVE  /\ head \in Slots /\ ring[head] # None /\ ring' = [ring EXCEPT ![head] = None]
           /\ seq' = seq /\ popped' # popped
<1>1. head \in Slots /\ size \in 0..Capacity /\ seq \in Nat /\ dropped \in Nat /\ popped \in Nat
      /\ seq = popped + dropped + size /\ size > 0
  BY DEF IInv, TypeOK, AccountedFor, Pop
<1>2. ring[Slot(0)] = seq - size + 1
  BY <1>1 DEF IInv, Contiguous
<1>3. Slot(0) = head
  BY <1>1, SlotPlace, CapacityAssumption DEF Slots
<1>4. ring[head] \in Nat
  BY <1>1, <1>2, <1>3
<1> QED
  BY <1>1, <1>4, NoneAssumption DEF Pop

LEMMA SlotSets ==
    ASSUME NEW S \in SUBSET Slots
    PROVE  IsFiniteSet(S) /\ Cardinality(S) \in Nat
<1>1. IsFiniteSet(Slots)
  BY CapacityAssumption, FS_Interval DEF Slots
<1> QED
  BY <1>1, FS_Subset, FS_CardinalityType

(* What a worker was told is not forgotten.                                *)
LEMMA ToldStays ==
    ASSUME SupTypeOK, [SupNext]_allVars, NEW w, w # None, NEW kinds, Told(w, kinds)
    PROVE  Told(w, kinds)'
<1>1. PICK c \in Calls : call[c].of = w /\ call[c].kind \in kinds
  BY DEF Told
<1>2. call' = call \/ (\E d \in Calls : Ask(d) \/ Return(d))
  BY DEF SupNext, Foreign, Elsewhere, Live, Ending, Supervise, Stop, Tell, Free, Spawn, SpawnFails, Listen, Deadline,
         workers, allVars
<1>3. call'[c].of = w /\ call'[c].kind = call[c].kind
  <2>1. ASSUME NEW d \in Calls, Ask(d) PROVE call'[c] = call[c]
    BY <1>1, <2>1 DEF Ask, SupTypeOK
  <2>2. ASSUME NEW d \in Calls, Return(d) PROVE call'[c].of = w /\ call'[c].kind = call[c].kind
    BY <1>1, <2>2 DEF Return, SupTypeOK
  <2> QED
    BY <1>1, <1>2, <2>1, <2>2
<1> QED
  BY <1>1, <1>3 DEF Told

LEMMA AskedStays ==
    ASSUME SupTypeOK, [SupNext]_allVars, NEW w, w # None, Asked(w)
    PROVE  Asked(w)'
<1>1. CASE Told(w, {"stop"})
  BY <1>1, ToldStays DEF Asked
<1>2. CASE Twice(w)
  <2>1. PICK c, d \in Calls : c # d /\ call[c].of = w /\ call[d].of = w
    BY <1>2 DEF Twice
  <2>2. ASSUME NEW e \in Calls, call[e].of = w PROVE call'[e].of = w
    <3>1. ASSUME NEW f \in Calls, Ask(f) PROVE call'[e].of = w
      BY <2>2, <3>1 DEF Ask, SupTypeOK
    <3>2. ASSUME NEW f \in Calls, Return(f) PROVE call'[e].of = w
      BY <2>2, <3>2 DEF Return, SupTypeOK
    <3> QED
      BY <2>2, <3>1, <3>2 DEF SupNext, Foreign, Elsewhere, Live, Ending, Supervise, Stop, Tell, Free, Spawn, SpawnFails,
                              Listen, Deadline, workers, allVars
  <2> QED
    BY <2>1, <2>2 DEF Asked, Twice
<1> QED
  BY <1>1, <1>2 DEF Asked

LEMMA SupTypeStep == SupTypeOK /\ IInv /\ [SupNext]_allVars => SupTypeOK'
<1> SUFFICES ASSUME SupTypeOK, IInv, [SupNext]_allVars PROVE SupTypeOK'
  OBVIOUS
<1>1. CASE Elsewhere \/ UNCHANGED allVars
  BY <1>1 DEF SupTypeOK, Elsewhere, workers, supervisor, tally, allVars
<1>2. CASE Foreign
  BY <1>2 DEF SupTypeOK, Foreign, workers, supervisor
<1>3. ASSUME NEW w \in Workers, NEW how \in Statuses, Store(w, how)
      PROVE  status' \in [Workers -> Statuses]
  BY <1>3 DEF Store, SupTypeOK
<1>4. ASSUME NEW w \in Workers, Stop(w) PROVE SupTypeOK'
  <2>1. PICK how \in {"crashed", "stopped"}, type \in {"exit", "crash", "vm_exit"} :
           Store(w, how) /\ ending' = [ending EXCEPT ![w] = type]
    BY <1>4 DEF Stop
  <2>2. status' \in [Workers -> Statuses]
    BY <1>3, <2>1 DEF Statuses
  <2> QED
    BY <1>4, <2>1, <2>2 DEF SupTypeOK, Stop, supervisor, tally, Types
<1>5. ASSUME NEW w \in Workers, Tell(w) PROVE SupTypeOK'
  BY <1>5 DEF SupTypeOK, Tell, supervisor, Statuses, Types
<1>6. ASSUME NEW w \in Workers, Free(w) PROVE SupTypeOK'
  BY <1>6 DEF SupTypeOK, Free, supervisor, tally
<1>7. ASSUME NEW c \in Calls, Ask(c) PROVE SupTypeOK'
  <2>1. PICK kind \in {"kill", "stop"} : call' = [call EXCEPT ![c] = [of |-> registered, kind |-> kind, over |-> FALSE]]
    BY <1>7 DEF Ask
  <2>2. [of |-> registered, kind |-> kind, over |-> FALSE] \in [of : Workers \cup {None}, kind : Kinds, over : BOOLEAN]
    BY DEF SupTypeOK, Kinds
  <2>3. status' \in [Workers -> Statuses]
    BY <1>3, <1>7 DEF Ask, SupTypeOK, Statuses
  <2> QED
    BY <1>7, <2>1, <2>2, <2>3 DEF SupTypeOK, Ask, supervisor, tally
<1>8. ASSUME NEW c \in Calls, Return(c) PROVE SupTypeOK'
  <2>1. [call[c] EXCEPT !.over = TRUE] \in [of : Workers \cup {None}, kind : Kinds, over : BOOLEAN]
    BY DEF SupTypeOK
  <2>2. call' = [call EXCEPT ![c] = [call[c] EXCEPT !.over = TRUE]]
    BY <1>8 DEF Return
  <2>3. call[c].of \in Workers
    BY <1>8 DEF Return, SupTypeOK
  <2>4. PICK how \in {"crashed", "stopped", status[call[c].of]} : Store(call[c].of, how)
    BY <1>8 DEF Return
  <2>5. status[call[c].of] \in Statuses
    BY <2>3 DEF SupTypeOK
  <2>6. how \in Statuses
    BY <2>4, <2>5 DEF Statuses
  <2>7. status' \in [Workers -> Statuses]
    BY <1>3, <2>3, <2>4, <2>6
  <2> QED
    BY <1>8, <2>1, <2>2, <2>7 DEF SupTypeOK, Return, supervisor, tally
<1>9. ASSUME Restart PROVE at' \in {"panicked", "spawn"} /\ recent' \in Nat
  BY <1>9 DEF Restart, SupTypeOK
<1>10. ASSUME NEW w \in Workers, Spawn(w) PROVE SupTypeOK'
  BY <1>10 DEF SupTypeOK, Spawn, Begins, Waiting, tally, Statuses
<1>11. CASE SpawnFails
  BY <1>9, <1>11 DEF SpawnFails, SupTypeOK, Over, workers
<1>12. ASSUME NEW evt, Hear(evt), at \in Waiting
       PROVE  at' \in {"spawn"} \cup Waiting \cup Over /\ recent' \in Nat
  <2>1. CASE Probing
    BY <1>12, <2>1 DEF Hear, Probed, Begins, SupTypeOK, Waiting
  <2>2. CASE ~Probing
    BY <1>9, <1>12, <2>2 DEF Hear, Step, SupTypeOK, Over
  <2> QED
    BY <2>1, <2>2
<1>13. CASE Listen
  <2>1. at' \in {"spawn"} \cup Waiting \cup Over /\ recent' \in Nat
    BY <1>12, <1>13 DEF Listen, Skip, Waiting, SupTypeOK
  <2> QED
    BY <1>13, <2>1 DEF Listen, SupTypeOK, workers, tally
<1>14. CASE Deadline
  BY <1>12, <1>14 DEF Deadline, SupTypeOK, workers, tally
<1> QED
  BY <1>1, <1>2, <1>4, <1>5, <1>6, <1>7, <1>8, <1>10, <1>11, <1>13, <1>14 DEF SupNext, Live, Ending, Supervise

(* A new event is charged once at most, and not at all if it need not be.  *)
LEMMA PublishCharges ==
    ASSUME IInv, SupInv, NEW evt, Truthful(evt), Publish(evt), call' = call, reconciles' = reconciles
    PROVE  /\ Queued'
           /\ Cardinality(Charged') <= Cardinality(Charged) + 1
           /\ ~Chargeable(evt) => Cardinality(Charged') <= Cardinality(Charged)
<1>1. PICK k \in Slots : /\ ring' = [ring EXCEPT ![k] = seq + 1] /\ seq' = seq + 1
                         /\ ring[k] # seq + 1 /\ seq + 1 # None /\ seq \in Nat
  BY Pushed DEF SupInv, Publish
<1>2. ring \in [Slots -> Nat \cup {None}]
  BY DEF IInv, TypeOK
<1>3. /\ ring'[k] = seq + 1 /\ about'[k] = evt
      /\ \A i \in Slots : i # k => ring'[i] = ring[i] /\ about'[i] = about[i]
  BY <1>1, <1>2 DEF Publish
<1>4. \A e : Truthful(e)' = Truthful(e)
  <2>1. \A w : Asked(w)' = Asked(w)
    BY DEF Told, Asked, Twice
  <2> QED
    BY <2>1 DEF Truthful, Clean
<1>5. Queued'
  <2>1. ASSUME NEW i \in Slots, NEW e, e = about'[i], ring'[i] # None PROVE ring'[i] <= seq' /\ Truthful(e)'
    <3>1. CASE i = k
      BY <1>1, <1>3, <1>4, <2>1, <3>1
    <3>2. CASE i # k
      <4>1. ring[i] \in Nat /\ ring[i] <= seq /\ Truthful(e)
        BY <1>2, <1>3, <2>1, <3>2 DEF SupInv, Queued
      <4> QED
        BY <1>1, <1>3, <1>4, <3>2, <4>1
    <3> QED
      BY <3>1, <3>2
  <2> QED
    BY <2>1 DEF Queued
<1>6. Charged' \subseteq Charged \cup {k} /\ (~Chargeable(evt) => Charged' \subseteq Charged)
  BY <1>3 DEF Charged, Chargeable, Slots, Clean
<1>7. Charged \in SUBSET Slots /\ Charged' \in SUBSET Slots /\ Charged \cup {k} \in SUBSET Slots
  BY <1>1, <1>6 DEF Charged
<1>8. /\ Cardinality(Charged \cup {k}) <= Cardinality(Charged) + 1
      /\ Cardinality(Charged) \in Nat /\ Cardinality(Charged') \in Nat
      /\ IsFiniteSet(Charged) /\ IsFiniteSet(Charged \cup {k})
  BY <1>7, SlotSets, FS_AddElement
<1>9. Cardinality(Charged') <= Cardinality(Charged \cup {k})
  BY <1>6, <1>8, FS_Subset
<1>10. Charged' \subseteq Charged => Cardinality(Charged') <= Cardinality(Charged)
  BY <1>8, FS_Subset
<1>11. Cardinality(Charged \cup {k}) \in Nat
  BY <1>8, FS_CardinalityType
<1> QED
  BY <1>5, <1>6, <1>8, <1>9, <1>10, <1>11

(* An event that the supervisor takes is charged no more.                  *)
LEMMA PopDischarges ==
    ASSUME IInv, SupInv, NEW r \in Receivers, Pop(r), Cleared, call' = call, reconciles' = reconciles
    PROVE  /\ Queued' /\ Truthful(about[head])
           /\ Cardinality(Charged') <= Cardinality(Charged)
           /\ Chargeable(about[head]) => Cardinality(Charged') + 1 <= Cardinality(Charged)
<1>1. /\ head \in Slots /\ ring[head] # None /\ ring' = [ring EXCEPT ![head] = None] /\ seq' = seq
  BY Popped
<1>2. ring \in [Slots -> Nat \cup {None}]
  BY DEF IInv, TypeOK
<1>3. /\ ring'[head] = None
      /\ \A i \in Slots : i # head => ring'[i] = ring[i]
      /\ \A i \in Slots : ring'[i] # None => about'[i] = about[i]
  BY <1>1, <1>2 DEF Cleared
<1>4. \A e : Truthful(e)' = Truthful(e)
  <2>1. \A w : Asked(w)' = Asked(w)
    BY DEF Told, Asked, Twice
  <2> QED
    BY <2>1 DEF Truthful, Clean
<1>5. Queued'
  <2>1. ASSUME NEW i \in Slots, NEW e, e = about'[i], ring'[i] # None PROVE ring'[i] <= seq' /\ Truthful(e)'
    <3>1. ring'[i] = ring[i] /\ ring[i] # None /\ about'[i] = about[i]
      BY <1>3, <2>1
    <3> QED
      BY <1>1, <1>4, <2>1, <3>1 DEF SupInv, Queued
  <2> QED
    BY <2>1 DEF Queued
<1>6. Charged' = Charged \ {head} /\ (Chargeable(about[head]) => head \in Charged)
  BY <1>1, <1>3 DEF Charged, Chargeable, Slots, Clean
<1>7. Charged \in SUBSET Slots /\ Charged' \in SUBSET Slots
  BY <1>6 DEF Charged
<1>8. /\ Cardinality(Charged) \in Nat /\ Cardinality(Charged') \in Nat
      /\ Cardinality(Charged \ {head}) = IF head \in Charged THEN Cardinality(Charged) - 1 ELSE Cardinality(Charged)
  BY <1>7, SlotSets, FS_RemoveElement
<1>9. Truthful(about[head])
  BY <1>1 DEF SupInv, Queued
<1> QED
  BY <1>5, <1>6, <1>8, <1>9

(* Who stores "stopped" has been asked to, or races with another call.     *)
LEMMA PreparedStep == SupInv /\ IInv /\ [SupNext]_allVars => Prepared'
<1> SUFFICES ASSUME SupInv, IInv, [SupNext]_allVars, NEW w \in Workers, status'[w] = "stopped"
             PROVE  Asked(w)'
  BY DEF Prepared, Asked, Told, Twice
<1>1. SupTypeOK /\ w # None
  BY SupervisorAssumption DEF SupInv
<1>2. CASE status[w] = "stopped"
  BY <1>1, <1>2, AskedStays DEF SupInv, Prepared
<1>3. CASE status[w] # "stopped"
  <2>1. ASSUME NEW v \in Workers, Stop(v) PROVE Asked(w)'
    <3>1. PICK how \in {"crashed", "stopped"} : Store(v, how) /\ (how = "stopped" => Told(v, {"stop"}))
      BY <2>1 DEF Stop
    <3>2. v = w /\ how = "stopped"
      BY <1>1, <1>3, <3>1 DEF Store, SupTypeOK
    <3> QED
      BY <1>1, <3>1, <3>2, ToldStays DEF Asked
  <2>2. ASSUME NEW c \in Calls, Return(c) PROVE Asked(w)'
    <3>1. call[c].of \in Workers
      BY <1>1, <2>2 DEF Return, SupTypeOK
    <3>2. PICK how : /\ how \in {"crashed", status[call[c].of]} \cup (IF Twice(call[c].of) THEN {"stopped"} ELSE {})
                     /\ Store(call[c].of, how)
      BY <2>2 DEF Return
    <3>3. call[c].of = w /\ how = "stopped"
      BY <1>1, <1>3, <3>1, <3>2 DEF Store, SupTypeOK
    <3>4. Twice(w)
      BY <1>3, <3>2, <3>3
    <3> QED
      BY <1>1, <3>4, AskedStays DEF Asked
  <2>3. ASSUME NEW v \in Workers, Tell(v) \/ Free(v) \/ Spawn(v) PROVE FALSE
    BY <1>1, <1>3, <2>3 DEF Tell, Free, Spawn, SupTypeOK
  <2>4. ASSUME NEW c \in Calls, Ask(c) PROVE FALSE
    BY <1>1, <1>3, <2>4 DEF Ask, Store, SupTypeOK
  <2> QED
    BY <1>3, <2>1, <2>2, <2>3, <2>4 DEF SupNext, Foreign, Elsewhere, Live, Ending, Supervise, SpawnFails, Listen,
                                      Deadline, workers, allVars
<1> QED
  BY <1>2, <1>3

LEMMA ChargedSteps ==
    ASSUME IInv, SupInv, [SupNext]_allVars
    PROVE  Queued' /\ (recent + Cardinality(Charged) <= Charges)' /\ Ends'
<1> USE DEF Waiting, Over
<1>1. /\ SupTypeOK /\ Queued /\ Prepared /\ Ends /\ recent + Cardinality(Charged) <= Charges
      /\ recent \in Nat /\ failures \in Nat /\ strays \in Nat /\ reconciles \in BOOLEAN /\ MaxRestarts \in Nat
      /\ Cardinality(Charged) \in Nat /\ Cardinality(Charged') \in Nat
  <2>1. Charged \in SUBSET Slots /\ Charged' \in SUBSET Slots
    BY DEF Charged, Slots
  <2> QED
    BY <2>1, SlotSets, SupervisorAssumption DEF SupInv, SupTypeOK
<1>2. reconciles' = reconciles
  BY DEF SupNext, Foreign, Elsewhere, Live, Ending, Supervise, Stop, Tell, Free, Ask, Return, Spawn, SpawnFails,
         Listen, Deadline, supervisor, allVars
(* Where neither an event nor the supervisor is concerned.                 *)
<1>3. ASSUME ring' = ring, seq' = seq, \A i \in Slots : ring[i] # None => about'[i] = about[i]
      PROVE  Queued' /\ Charged' = Charged
  <2>1. ASSUME NEW e, Truthful(e) PROVE Truthful(e)'
    BY <1>1, <2>1, AskedStays DEF Truthful, Clean
  <2>2. ASSUME NEW i \in Slots, NEW e, e = about'[i], ring'[i] # None PROVE ring'[i] <= seq' /\ Truthful(e)'
    BY <1>1, <1>3, <2>1, <2>2 DEF Queued
  <2>3. Queued'
    BY <2>2 DEF Queued
  <2> QED
    BY <1>2, <1>3, <2>3 DEF Charged, Chargeable, Slots, Clean
<1>4. ASSUME at' = at, cause' = cause PROVE at' = "returned" => (IF IsForWorker(cause') THEN Asked(cause.of)' ELSE ~reconciles')
  <2>1. PICK c : c = cause
    OBVIOUS
  <2>2. ASSUME at = "returned", IsForWorker(c) PROVE Asked(c.of)'
    BY <1>1, <2>1, <2>2, AskedStays DEF Ends, IsForWorker
  <2> QED
    BY <1>1, <1>2, <1>4, <2>1, <2>2 DEF Ends, IsForWorker
<1>5. ASSUME at' = at, cause' = cause, recent' = recent PROVE Ends'
  BY <1>1, <1>4, <1>5 DEF Ends, IsForWorker
<1>6. ASSUME at' \notin Over PROVE Ends'
  BY <1>6 DEF Ends
<1>7. CASE Foreign
  <2>1. PICK evt \in {End(None, "exit", "stopped"), End(None, "crash", "crashed")} :
           Publish(evt) /\ strays' = strays + (IF Clean(evt) THEN 0 ELSE 1)
    BY <1>7 DEF Foreign
  <2>2. call' = call /\ UNCHANGED <<at, cause, recent, failures>>
    BY <1>7 DEF Foreign, workers, supervisor
  <2>3. Truthful(evt) /\ evt.of = None
    BY DEF Truthful, End
  <2>4. /\ Queued' /\ Cardinality(Charged') <= Cardinality(Charged) + 1
        /\ ~Chargeable(evt) => Cardinality(Charged') <= Cardinality(Charged)
    BY <1>2, <2>1, <2>2, <2>3, PublishCharges
  <2>5. (Clean(evt) \/ reconciles) => ~Chargeable(evt)
    BY <2>3 DEF Chargeable
  <2> QED
    BY <1>1, <1>2, <1>5, <2>1, <2>2, <2>4, <2>5 DEF Charges
<1>8. ASSUME NEW w \in Workers, Tell(w)
      PROVE  Queued' /\ (recent + Cardinality(Charged) <= Charges)' /\ Ends'
  <2>1. PICK evt : /\ evt = End(w, ending[w], status[w]) /\ Publish(evt)
                   /\ failures' = failures + (IF Clean(evt) THEN 0 ELSE 1)
    BY <1>8 DEF Tell
  <2>2. call' = call /\ UNCHANGED <<at, cause, recent, strays>>
    BY <1>8 DEF Tell, supervisor
  <2>3. Truthful(evt)
    <3>1. evt.of = w /\ evt.tells \in {"clean", "crash", "other"} /\ (Clean(evt) => status[w] = "stopped")
      BY <2>1 DEF End, Clean
    <3>2. Clean(evt) => Asked(w)
      BY <1>1, <3>1 DEF Prepared
    <3> QED
      BY <3>1, <3>2 DEF Truthful
  <2>4. /\ Queued' /\ Cardinality(Charged') <= Cardinality(Charged) + 1
        /\ ~Chargeable(evt) => Cardinality(Charged') <= Cardinality(Charged)
    BY <1>2, <2>1, <2>2, <2>3, PublishCharges
  <2>5. Clean(evt) => ~Chargeable(evt)
    BY DEF Chargeable
  <2> QED
    BY <1>1, <1>2, <1>5, <2>1, <2>2, <2>4, <2>5 DEF Charges
<1>9. CASE UNCHANGED allVars \/ (\E w \in Workers : Stop(w) \/ Free(w)) \/ (\E c \in Calls : Ask(c) \/ Return(c))
  <2>1. UNCHANGED <<ring, seq, about, at, cause, recent, failures, strays>>
    BY <1>9 DEF Stop, Free, Ask, Return, supervisor, tally, allVars, vars, queue
  <2> QED
    BY <1>1, <1>2, <1>3, <1>5, <2>1 DEF Charges
(* A restart is remembered, or it is the last one.                         *)
<1>10. ASSUME Restart PROVE recent' <= recent + 1 /\ recent' \in Nat /\ Ends'
  BY <1>1, <1>10 DEF Restart, Ends
<1>11. ASSUME NEW r \in Receivers \ {Supervisor}, UNCHANGED gaps, Cleared, UNCHANGED <<workers, supervisor, tally>>,
              ReceiveEvent(r) \/ Retry(r)
       PROVE  Queued' /\ (recent + Cardinality(Charged) <= Charges)' /\ Ends'
  <2>1. UNCHANGED <<call, at, cause, recent, failures, strays>>
    BY <1>11 DEF workers, supervisor, tally
  <2>2. CASE Pop(r)
    <3>1. Queued' /\ Cardinality(Charged') <= Cardinality(Charged)
      BY <1>2, <1>11, <2>1, <2>2, PopDischarges
    <3> QED
      BY <1>1, <1>2, <1>5, <2>1, <3>1 DEF Charges
  <2>3. CASE UNCHANGED queue
    <3>1. UNCHANGED <<ring, seq>> /\ \A i \in Slots : ring[i] # None => about'[i] = about[i]
      BY <1>11, <2>3 DEF queue, Cleared
    <3> QED
      BY <1>1, <1>2, <1>3, <1>5, <2>1, <3>1 DEF Charges
  <2> QED
    BY <1>11, <2>2, <2>3 DEF ReceiveEvent, Retry, Park
<1>12. ASSUME NEW w \in Workers, Spawn(w)
       PROVE  Queued' /\ (recent + Cardinality(Charged) <= Charges)' /\ Ends'
  <2>1. UNCHANGED <<ring, seq, about, recent, failures, strays>> /\ at' \notin Over
    BY <1>12 DEF Spawn, Begins, vars, queue, tally
  <2> QED
    BY <1>1, <1>2, <1>3, <1>6, <2>1 DEF Charges
<1>13. CASE SpawnFails
  <2>1. UNCHANGED <<ring, seq, about, strays>> /\ failures' = failures + 1 /\ Restart
    BY <1>13 DEF SpawnFails, vars, queue
  <2> QED
    BY <1>1, <1>2, <1>3, <1>10, <2>1 DEF Charges
<1>14. CASE Deadline
  <2>1. UNCHANGED <<ring, seq, about, failures, strays>> /\ Hear(TimedOut)
    BY <1>14 DEF Deadline, Expire, queue, tally
  <2>2. recent' = recent /\ at' \notin Over
    BY <2>1 DEF Hear, Probed, Begins, Step, Clean, TimedOut
  <2> QED
    BY <1>1, <1>2, <1>3, <1>6, <2>1, <2>2 DEF Charges
<1>15. CASE Listen
  <2>0. call' = call /\ failures' = failures /\ strays' = strays /\ at \in Waiting /\ Cleared
    BY <1>15 DEF Listen, workers, tally
  <2>1. CASE Park(Supervisor)
    <3>1. UNCHANGED <<ring, seq, at, cause, recent>> /\ \A i \in Slots : ring[i] # None => about'[i] = about[i]
      BY <1>15, <2>0, <2>1 DEF Listen, Park, queue, Cleared
    <3> QED
      BY <1>1, <1>2, <1>3, <1>5, <2>0, <3>1 DEF Charges
  <2>2. CASE Pop(Supervisor)
    <3>1. PICK evt : evt = about[head]
      OBVIOUS
    <3>2. /\ Queued' /\ Truthful(evt)
          /\ Cardinality(Charged') <= Cardinality(Charged)
          /\ Chargeable(evt) => Cardinality(Charged') + 1 <= Cardinality(Charged)
      BY <1>2, <2>0, <2>2, <3>1, SupervisorAssumption, PopDischarges
    <3>3. (Accepts(evt) /\ Hear(evt)) \/ Skip
      BY <1>15, <2>2, <3>1, SupervisorAssumption, Popped DEF Listen
    <3>4. CASE Skip
      <4>1. recent' = recent /\ at' \notin Over
        BY <2>0, <3>4 DEF Skip, Probing
      <4> QED
        BY <1>1, <1>2, <1>6, <2>0, <3>2, <4>1 DEF Charges
    <3>5. CASE Hear(evt) /\ Probing
      <4>1. recent' = recent /\ at' \notin Over
        BY <3>5 DEF Hear, Probed, Begins
      <4> QED
        BY <1>1, <1>2, <1>6, <2>0, <3>2, <4>1 DEF Charges
    <3>6. CASE Accepts(evt) /\ Hear(evt) /\ ~Probing
      <4>1. /\ cause' = IF at' = "returned" THEN evt ELSE cause
            /\ Step(evt) /\ evt.tells # "timeout" /\ (evt.of # None \/ ~reconciles)
        BY <3>2, <3>6 DEF Hear, Accepts, IsForWorker, Probing, Truthful
      <4>2. CASE Clean(evt)
        <5>1. recent' = recent /\ at' = "returned" /\ cause' = evt
          BY <4>1, <4>2 DEF Step
        <5>2. evt.of # None => Asked(evt.of)'
          BY <1>1, <3>2, <4>2, AskedStays DEF Truthful
        <5>3. Ends'
          BY <1>2, <4>1, <5>1, <5>2 DEF Ends, IsForWorker
        <5> QED
          BY <1>1, <1>2, <2>0, <3>2, <5>1, <5>3 DEF Charges
      <4>3. CASE ~Clean(evt)
        <5>1. Restart
          BY <4>1, <4>3 DEF Step
        <5>2. Chargeable(evt)
          BY <4>1, <4>3 DEF Chargeable
        <5> QED
          BY <1>1, <1>2, <1>10, <2>0, <3>2, <5>1, <5>2 DEF Charges
      <4> QED
        BY <4>2, <4>3
    <3> QED
      BY <3>3, <3>4, <3>5, <3>6
  <2> QED
    BY <1>15, <2>1, <2>2 DEF Listen, ReceiveEventTimeout, Retry
<1> QED
  BY <1>7, <1>8, <1>9, <1>11, <1>12, <1>13, <1>14, <1>15 DEF SupNext, Elsewhere, Live, Ending, Supervise

LEMMA SupInvStep == IInv /\ SupInv /\ [SupNext]_allVars => SupInv'
  BY SupTypeStep, PreparedStep, ChargedSteps DEF SupInv

LEMMA SupInvInit == SupInit => SupInv
<1> SUFFICES ASSUME SupInit PROVE SupInv
  OBVIOUS
<1>1. SupTypeOK
  BY DEF SupInit, SupTypeOK, Statuses, Types, Kinds
<1>2. \A i \in Slots : ring[i] = None
  BY DEF SupInit, Init
<1>3. Charged = {} /\ Queued /\ Prepared
  BY <1>2 DEF Charged, Queued, Prepared, SupInit
<1>4. recent + Cardinality(Charged) <= Charges /\ Ends
  BY <1>3, FS_EmptySet DEF SupInit, Charges, Ends
<1> QED
  BY <1>1, <1>3, <1>4 DEF SupInv

(* A supervisor ends with a cause: it returns on the end of a worker that  *)
(* it was asked to end, or, if it is supervise, on a foreign event at its  *)
(* deadline; and it gives up only after more refusals and ends not told as *)
(* clean than it may restart, none of them counted twice.                  *)
THEOREM SupervisorEndsWithCause == SupSpec => []EndsWithCause
<1>1. IInv /\ SupInv => EndsWithCause
  <2> SUFFICES ASSUME IInv, SupInv PROVE EndsWithCause
    OBVIOUS
  <2>1. Cardinality(Charged) \in Nat
    <3>1. Charged \in SUBSET Slots
      BY DEF Charged
    <3> QED
      BY <3>1, SlotSets
  <2> QED
    BY <2>1, SupervisorAssumption DEF SupInv, SupTypeOK, Ends, Charges, EndsWithCause, Asked
<1>2. SupSpec => []IInv
  BY SupervisorKeepsRing, Invariance
<1>3. SupInit => SupInv
  BY SupInvInit
<1> QED
  BY <1>1, <1>2, <1>3, SupInvStep, PTL DEF SupSpec
=============================================================================
