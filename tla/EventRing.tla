------------------------------ MODULE EventRing ------------------------------
(***************************************************************************)
(* The event queue of a hypervisor (src/pkg/embed/hypervisor.go): a ring   *)
(* that overwrites its oldest event when full, consumers that block on a   *)
(* notify channel with or without a deadline, and the gap detection that   *)
(* src/kit/vmm/vmm.lang builds on the sequence numbers.                    *)
(*                                                                         *)
(* An event is represented by its "seq".  Every operation runs under       *)
(* Hypervisor.mu, so an attempt of ReceiveEvent is one action; a consumer  *)
(* in the select is "parked", and signalEventLocked makes it "woken".      *)
(***************************************************************************)
EXTENDS Integers, Sequences, FiniteSets

CONSTANTS Capacity,   \* eventCap
          Receivers,
          MaxEvents,  \* bound on the number of events
          None

ASSUME CapacityAssumption == Capacity \in Nat \ {0}
ASSUME MaxEventsAssumption == MaxEvents \in Nat
ASSUME NoneAssumption == None \notin Nat

VARIABLES ring,     \* eventRing
          head,     \* eventHead
          size,     \* eventSize
          seq,      \* eventSeq
          dropped,  \* droppedEvents
          wait,     \* where each consumer is: "no", "parked" or "woken"
          timed,    \* does a consumer that waits have a deadline?
          lastSeq,  \* the watermark of each consumer (vmm.lang)
          missed,   \* the sum of the gapCounts it was told
          popped,   \* history: how many events were handed out
          heard     \* history: how many of them each consumer took with
                    \*          its watermark

queue == <<ring, head, size, seq, dropped>>
gaps == <<lastSeq, missed, heard>>
vars == <<queue, wait, timed, gaps, popped>>

Slots == 0..Capacity - 1

Slot(i) == (head + i) % Capacity

Init ==
    /\ ring = [i \in Slots |-> None]
    /\ head = 0
    /\ size = 0
    /\ seq = 0
    /\ dropped = 0
    /\ wait = [r \in Receivers |-> "no"]
    /\ timed = [r \in Receivers |-> FALSE]
    /\ lastSeq = [r \in Receivers |-> 0]
    /\ missed = [r \in Receivers |-> 0]
    /\ popped = 0
    /\ heard = [r \in Receivers |-> 0]

----------------------------------------------------------------------------

signalEvent ==
    wait' = [r \in Receivers |-> IF wait[r] = "parked" THEN "woken" ELSE wait[r]]

PushWithRoom ==
    /\ size < Capacity
    /\ ring' = [ring EXCEPT ![Slot(size)] = seq + 1]
    /\ size' = size + 1
    /\ UNCHANGED <<head, dropped>>

(* Mutants: the overwritten event stays at the head; it is not counted.    *)
PushKeepingHead ==
    /\ size = Capacity
    /\ ring' = [ring EXCEPT ![head] = seq + 1]
    /\ dropped' = dropped + 1
    /\ UNCHANGED <<head, size>>
PushUncounted ==
    /\ size = Capacity
    /\ ring' = [ring EXCEPT ![head] = seq + 1]
    /\ head' = Slot(1)
    /\ UNCHANGED <<size, dropped>>

PushOverOldest ==
    /\ size = Capacity
    /\ ring' = [ring EXCEPT ![head] = seq + 1]
    /\ head' = Slot(1)
    /\ dropped' = dropped + 1
    /\ UNCHANGED size

(* Mutants: nobody is told; an overwriting push takes two numbers.         *)
PushSilently ==
    /\ seq < MaxEvents
    /\ PushWithRoom \/ PushOverOldest
    /\ seq' = seq + 1
    /\ UNCHANGED <<wait, timed, gaps, popped>>
PushNumberingDropsTwice ==
    /\ seq < MaxEvents
    /\ PushWithRoom \/ PushOverOldest
    /\ seq' = IF size = Capacity THEN seq + 2 ELSE seq + 1
    /\ signalEvent
    /\ UNCHANGED <<timed, gaps, popped>>

(* pushEventLocked: a lifecycle event, or one of BroadcastEvent.           *)
Push ==
    /\ seq < MaxEvents
    /\ PushWithRoom \/ PushOverOldest
    /\ seq' = seq + 1
    /\ signalEvent
    /\ UNCHANGED <<timed, gaps, popped>>

----------------------------------------------------------------------------

(* consumeEventWithGap, on the event it was handed.                        *)
gapCount(r, evt) == IF evt > lastSeq[r] + 1 THEN evt - lastSeq[r] - 1 ELSE 0

ConsumeWithGap(r, evt) ==
    /\ missed' = [missed EXCEPT ![r] = @ + gapCount(r, evt)]
    /\ lastSeq' = [lastSeq EXCEPT ![r] = evt]
    /\ heard' = [heard EXCEPT ![r] = @ + 1]

(* popEventLocked finds an event, and the call returns it.  A consumer may *)
(* be one that keeps a watermark, or call receiveEventWait past it.        *)
Pop(r) ==
    /\ size > 0
    /\ ring' = [ring EXCEPT ![head] = None]
    /\ head' = Slot(1)
    /\ size' = size - 1
    /\ popped' = popped + 1
    /\ wait' = [wait EXCEPT ![r] = "no"]
    /\ ConsumeWithGap(r, ring[head]) \/ UNCHANGED gaps
    /\ UNCHANGED <<seq, dropped>>

(* It finds none: the call takes the notify channel and blocks on it.      *)
Park(r) ==
    /\ size = 0
    /\ wait' = [wait EXCEPT ![r] = "parked"]
    /\ UNCHANGED <<queue, gaps, popped>>

(* A call of ReceiveEvent, or of ReceiveEventTimeout without (timeoutMs    *)
(* <= 0) or with a deadline.                                               *)
ReceiveEvent(r) ==
    /\ wait[r] = "no"
    /\ Pop(r) \/ Park(r)
    /\ timed' = [timed EXCEPT ![r] = FALSE]

ReceiveEventTimeout(r) ==
    /\ wait[r] = "no"
    /\ Pop(r) \/ Park(r)
    /\ timed' = [timed EXCEPT ![r] = wait'[r] = "parked"]

(* The notify channel was closed: once more around the loop.               *)
Retry(r) ==
    /\ wait[r] = "woken"
    /\ Pop(r) \/ Park(r)
    /\ timed' = [timed EXCEPT ![r] = @ /\ wait'[r] = "parked"]

(* The timer fires, or a woken call finds nothing after its deadline.      *)
Expire(r) ==
    /\ wait[r] \in {"parked", "woken"}
    /\ timed[r]
    /\ wait' = [wait EXCEPT ![r] = "no"]
    /\ timed' = [timed EXCEPT ![r] = FALSE]
    /\ UNCHANGED <<queue, gaps, popped>>

Next ==
    \/ Push
    \/ \E r \in Receivers :
          ReceiveEvent(r) \/ ReceiveEventTimeout(r) \/ Retry(r) \/ Expire(r)

Spec == Init /\ [][Next]_vars

(* A consumer whose channel is closed is runnable: the Go scheduler runs   *)
(* it, and sync.RWMutex does not starve a writer.  Nothing makes a VM      *)
(* publish an event or ask for one.                                        *)
Fairness == \A r \in Receivers : WF_vars(Retry(r))

FairSpec == Spec /\ Fairness

----------------------------------------------------------------------------

(* The queued events, oldest first.                                        *)
Pending == [i \in 1..size |-> ring[Slot(i - 1)]]

TypeOK ==
    /\ ring \in [Slots -> Nat \cup {None}]
    /\ head \in Slots
    /\ size \in 0..Capacity
    /\ seq \in Nat
    /\ dropped \in Nat
    /\ wait \in [Receivers -> {"no", "parked", "woken"}]
    /\ timed \in [Receivers -> BOOLEAN]
    /\ lastSeq \in [Receivers -> Nat]
    /\ missed \in [Receivers -> Nat]
    /\ popped \in Nat
    /\ heard \in [Receivers -> Nat]

(* The ring holds the newest events and nothing else: its live slots, from *)
(* the head on, are the last "size" numbers, and the rest are empty.       *)
Contiguous ==
    /\ \A i \in 0..size - 1 : ring[Slot(i)] = seq - size + 1 + i
    /\ \A i \in size..Capacity - 1 : ring[Slot(i)] = None

(* EventDroppedTotal and EventQueueSize account for every event that was   *)
(* published: it was handed out, overwritten and counted, or is queued.    *)
AccountedFor == seq = popped + dropped + size

(* What the watermark is for: the gaps that a consumer was told of, and    *)
(* the one it will see with the next event, are the drops and the events   *)
(* that were taken past its watermark, by others or by itself, all of them *)
(* and no others.  ("If evt.seq > lastSeq + 1, events were dropped in      *)
(* between" is true only of one consumer that always keeps its watermark.) *)
GapsAreDrops ==
    \A r \in Receivers :
        missed[r] + (seq - size - lastSeq[r]) = dropped + (popped - heard[r])

(* Nobody blocks while there is an event to take: a consumer that decided  *)
(* to wait under the lock holds a channel that the next push closes.       *)
NoLostWakeup == \A r \in Receivers : wait[r] = "parked" => size = 0

(* An event in the ring is taken, by this consumer or by others before it. *)
ConsumerServed ==
    \A r \in Receivers :
        (wait[r] # "no" /\ size > 0) ~> (wait[r] = "no" \/ size = 0)

(* The ring implements a numbered stream that loses only its oldest.       *)
Stream == INSTANCE EventStream
            WITH published <- seq, pending <- Pending, taken <- popped, lost <- dropped

KeepsStream == Stream!Spec
=============================================================================
