-------------------------- MODULE SelectiveReceive --------------------------
(***************************************************************************)
(* The predicate receives of a mailbox: ReceiveBy and ReceiveByWait of     *)
(* src/pkg/embed/mailbox.go, which requestWait is built on.                *)
(*                                                                         *)
(* The predicate is a function of the program, so evalPredicate unlocks    *)
(* Mailbox.mu while it runs.  The scan goes on over the slice header that  *)
(* `range mb.queue` copied when it started, while senders and other        *)
(* receivers change the queue: in place, in the array both share, or by    *)
(* moving it to a new array.  The module therefore models the Go slice:    *)
(*   - arrays: the backing arrays so far; the queue lives in the last one, *)
(*     the earlier ones are what a scan in progress may still read;        *)
(*   - off, len: the header of Mailbox.queue in it (a Go capacity is what  *)
(*     the array has from off on).                                         *)
(***************************************************************************)
EXTENDS MailboxQueue, FiniteSets

CONSTANTS Strategy,  \* MailboxConfig.Strategy
          Receivers, None

ASSUME StrategyAssumption == Strategy \in AllStrategies
ASSUME NoneAssumption == None \notin [stamp : 1..MaxSends, imp : Levels, kind : Kinds]

VARIABLES arrays, off, len,  \* Mailbox.queue
          closed,            \* Mailbox.closed
          wedged,            \* mu was left locked by a panic
          scan,              \* the receive in progress of each receiver
          received,          \* MailboxMetrics.MessagesReceived
          accepted,          \* history, as in Mailbox
          delivered,         \* history: how often each message was delivered
          evicted,           \* history
          disturbed          \* history: a scan was overtaken, see Overtakes

vars == <<arrays, off, len, closed, wedged, scan, received, accepted, delivered, evicted, disturbed>>

cells == arrays[Len(arrays)]
queue == SubSeq(cells, off + 1, off + len)
InBox == {queue[i] : i \in 1..len}

Init ==
    /\ arrays = << [i \in 1..Capacity |-> None] >>
    /\ off = 0
    /\ len = 0
    /\ closed = FALSE
    /\ wedged = FALSE
    /\ scan = [r \in Receivers |-> None]
    /\ received = 0
    /\ accepted = 0
    /\ delivered = << >>
    /\ evicted = {}
    /\ disturbed = FALSE

----------------------------------------------------------------------------

(* append writing nq over the array of the queue, from position o + 1 on;  *)
(* the cells behind nq keep what they held.                                *)
Overwritten(o, nq) ==
    [k \in DOMAIN cells |-> IF k \in o + 1..o + Len(nq) THEN nq[k - o] ELSE cells[k]]

(* append when the array is too short: a new array of twice the capacity   *)
(* (or of what is needed, if more) that starts with nq.                    *)
Grown(nq) ==
    LET old  == Len(cells) - off
        room == IF Len(nq) > 2 * old THEN Len(nq) ELSE 2 * old
    IN [k \in 1..room |-> IF k <= Len(nq) THEN nq[k] ELSE None]

Store(nq) ==
    /\ len' = Len(nq)
    /\ IF Len(nq) <= Len(cells) - off
       THEN /\ arrays' = [arrays EXCEPT ![Len(arrays)] = Overwritten(off, nq)]
            /\ UNCHANGED off
       ELSE /\ arrays' = Append(arrays, Grown(nq))
            /\ off' = 0

Waking(sc) == IF sc # None /\ sc.st = "parked" THEN [sc EXCEPT !.st = "woken"] ELSE sc

(* broadcast() by a sender or a closer, and by receiver r as it returns.   *)
Broadcast == scan' = [q \in Receivers |-> Waking(scan[q])]
BroadcastAndReturn(r) == scan' = [q \in Receivers |-> IF q = r THEN None ELSE Waking(scan[q])]

Count(m) == IF m \in DOMAIN delivered THEN delivered[m] ELSE 0
DeliverTo(r, m) ==
    /\ delivered' = [x \in DOMAIN delivered \cup {m} |-> IF x = m THEN Count(m) + 1 ELSE delivered[x]]
    /\ received' = received + 1
    /\ BroadcastAndReturn(r)

Seqs == INSTANCE SequencesExt

(* While a predicate runs, the queue is changed in another way than by     *)
(* messages added at its tail: a System message was put ahead, one was     *)
(* evicted, or another receiver took one.                                  *)
Overtakes ==
    /\ \E r \in Receivers : scan[r] # None /\ scan[r].st = "reading" /\ scan'[r] = scan[r]
    /\ ~Seqs!IsPrefix(queue, queue')

NoteOvertaking == disturbed' = (disturbed \/ Overtakes)

----------------------------------------------------------------------------

(* Send: as Mailbox!Send.  A refusal changes nothing here.                 *)
Send ==
    /\ ~wedged /\ ~closed
    /\ accepted < MaxSends
    /\ \E n \in Levels, k \in Kinds :
          LET m == [stamp |-> accepted + 1, imp |-> n, kind |-> k]
              Put(q) == \E p \in 0..Len(q) :
                            LET nq == InsertAfter(q, p, m)
                            IN Inserted(q, m, nq) /\ Store(nq)
          IN \/ HasRoom(queue) /\ Put(queue) /\ UNCHANGED evicted
             \/ /\ ~HasRoom(queue)
                /\ \E d \in 1..len :
                      /\ IsVictim(queue, d)
                      /\ MayEvict(Strategy, queue[d].imp, n)
                      /\ Put(RemoveAt(queue, d))
                      /\ evicted' = evicted \cup {queue[d]}
    /\ accepted' = accepted + 1
    /\ Broadcast
    /\ UNCHANGED <<closed, wedged, received, delivered>>
    /\ NoteOvertaking

(* Receive: the head leaves, the slice starts one cell later.              *)
Receive(r) ==
    /\ ~wedged
    /\ scan[r] = None
    /\ len > 0
    /\ off' = off + 1
    /\ len' = len - 1
    /\ DeliverTo(r, Head(queue))
    /\ UNCHANGED <<arrays, closed, wedged, accepted, evicted>>
    /\ NoteOvertaking

(* The rest of the scan sc of r from position i on, mu held.  It unlocks   *)
(* to run the predicate on the next message, or reaches the end of its     *)
(* header: an error, or the select of ReceiveByWait on the channel that is *)
(* the current one by then.                                                *)
Proceed(r, sc, i) ==
    /\ scan' = [scan EXCEPT ![r] =
          IF i < sc.len
          THEN [sc EXCEPT !.st = "reading", !.i = i, !.msg = arrays[sc.arr][sc.off + i + 1]]
          ELSE IF closed \/ ~sc.block THEN None
          ELSE [sc EXCEPT !.st = "parked", !.arr = 0, !.off = 0, !.len = 0, !.i = 0, !.msg = None]]
    /\ UNCHANGED <<arrays, off, len, closed, wedged, received, accepted, delivered, evicted, disturbed>>

Begin(r, block, want) ==
    Proceed(r, [st |-> "reading", block |-> block, want |-> want, arr |-> Len(arrays),
                off |-> off, len |-> len, i |-> 0, msg |-> None], 0)

(* A call of ReceiveBy or ReceiveByWait, and the next round of the latter. *)
ReceiveBy(r, want) == ~wedged /\ scan[r] = None /\ Begin(r, FALSE, want)

ReceiveByWait(r, want) ==
    /\ ~wedged
    /\ \/ scan[r] = None
       \/ scan[r] # None /\ scan[r].st = "woken" /\ scan[r].block /\ scan[r].want = want
    /\ Begin(r, TRUE, want)

Scanning(r) == ~wedged /\ scan[r] # None /\ scan[r].st = "reading"

(* The predicate has returned and mu is locked again.                      *)
Mismatch(r) ==
    /\ Scanning(r)
    /\ scan[r].msg.kind # scan[r].want
    /\ Proceed(r, scan[r], scan[r].i + 1)

(* Mutant: the scan leaves the message it returns in the queue.            *)
MatchCopy(r) ==
    /\ Scanning(r)
    /\ scan[r].msg.kind = scan[r].want
    /\ scan[r].i < len
    /\ DeliverTo(r, scan[r].msg)
    /\ UNCHANGED <<arrays, off, len, closed, wedged, accepted, evicted>>
    /\ NoteOvertaking

(* Mutant: the scan removes the message after the one that matched.        *)
MatchNext(r) ==
    /\ Scanning(r)
    /\ scan[r].msg.kind = scan[r].want
    /\ scan[r].i < len
    /\ Store(RemoveNext(queue, scan[r].i + 1))
    /\ DeliverTo(r, scan[r].msg)
    /\ UNCHANGED <<closed, wedged, accepted, evicted>>
    /\ NoteOvertaking

Match(r) ==
    /\ Scanning(r)
    /\ scan[r].msg.kind = scan[r].want
    /\ scan[r].i < len
    /\ Store(RemoveAt(queue, scan[r].i + 1))
    /\ DeliverTo(r, scan[r].msg)
    /\ UNCHANGED <<closed, wedged, accepted, evicted>>
    /\ NoteOvertaking

(* mb.queue[i+1:] is out of range.  ReceiveBy unlocks by a defer as the    *)
(* panic unwinds; ReceiveByWait does not, and mu stays locked.             *)
Panic(r) ==
    /\ Scanning(r)
    /\ scan[r].msg.kind = scan[r].want
    /\ scan[r].i >= len
    /\ wedged' = scan[r].block
    /\ scan' = [scan EXCEPT ![r] = None]
    /\ UNCHANGED <<arrays, off, len, closed, received, accepted, delivered, evicted, disturbed>>

(* The select takes its timer or ctx.Done().                               *)
GiveUp(r) ==
    /\ scan[r] # None /\ scan[r].st # "reading"
    /\ scan' = [scan EXCEPT ![r] = None]
    /\ UNCHANGED <<arrays, off, len, closed, wedged, received, accepted, delivered, evicted, disturbed>>

Close ==
    /\ ~wedged
    /\ closed' = TRUE
    /\ Broadcast
    /\ UNCHANGED <<arrays, off, len, wedged, received, accepted, delivered, evicted, disturbed>>

Next ==
    \/ Send
    \/ \E r \in Receivers :
          \/ Receive(r) \/ Mismatch(r) \/ Match(r) \/ Panic(r) \/ GiveUp(r)
          \/ \E k \in Kinds : ReceiveBy(r, k) \/ ReceiveByWait(r, k)
    \/ Close

Spec == Init /\ [][Next]_vars
----------------------------------------------------------------------------

DeliveredSet == DOMAIN delivered

(* No message is delivered twice, and a delivered message is not still     *)
(* queued: "ReceiveBy extracts the first message satisfying the predicate".*)
ExactlyOnce ==
    /\ \A m \in DeliveredSet : delivered[m] = 1 /\ m \notin InBox

(* No accepted message vanishes: it is queued, delivered or evicted.       *)
NothingLost ==
    \A s \in 1..accepted : \E m \in InBox \cup DeliveredSet \cup evicted : m.stamp = s

(* As long as nothing overtook a scan, predicate receives are exact: the   *)
(* copied slice header and the position stay valid while senders append,   *)
(* in place or into a new array, whatever was received before.             *)
ExactUndisturbed == ~disturbed => ExactlyOnce /\ NothingLost

(* The stale removals cannot reorder the queue of the slices: System       *)
(* messages stay ahead, and each class stays in the order of acceptance.   *)
KeepsOrder == Ordered(queue)

(* Even when a scan removes the wrong message the counters add up: each    *)
(* receive takes exactly one message out of a queue that never exceeds its *)
(* capacity.                                                               *)
AccountedFor ==
    /\ accepted = len + received + Cardinality(evicted)
    /\ len <= Capacity

=============================================================================
