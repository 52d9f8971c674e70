------------------------------- MODULE Mailbox -------------------------------
(***************************************************************************)
(* The mailbox of a VM (src/pkg/embed/mailbox.go), without its predicate   *)
(* receives (SelectiveReceive has those).  Every operation runs under      *)
(* Mailbox.mu, so an attempt of an operation is one action.                *)
(*                                                                         *)
(* SendWait and ReceiveWait are loops: attempt, take the current notify    *)
(* channel, unlock, select on that channel, a timer and the context.  A    *)
(* process in the select is "parked"; broadcast() closes the channel and   *)
(* makes a new one, so it turns everyone who is parked into "woken", and a *)
(* woken process attempts again.                                           *)
(***************************************************************************)
EXTENDS MailboxQueue

CONSTANTS Strategies,  \* those of the mailboxes to be checked
          Senders, Receivers, None

ASSUME StrategiesAssumption == Strategies \subseteq AllStrategies
ASSUME ProcAssumption == Senders \cap Receivers = {}
ASSUME NoneAssumption == None \notin [imp : Levels, kind : Kinds]

VARIABLES strategy,   \* MailboxConfig.Strategy
          queue,      \* Mailbox.queue
          closed,     \* Mailbox.closed
          wait,       \* where each process is: "no", "parked" or "woken"
          held,       \* what a waiting sender is trying to send
          metrics,    \* MessagesReceived and DropsFullOld
          accepted,   \* history: how many messages were accepted
          delivered,  \* history: the messages handed to receivers
          evicted     \* history: the messages given up to make room

history == <<accepted, delivered, evicted>>
vars == <<strategy, queue, closed, wait, held, metrics, history>>

Procs == Senders \cup Receivers
Offer == [imp : Levels, kind : Kinds]
InBox == {queue[i] : i \in 1..Len(queue)}

Init ==
    /\ strategy \in Strategies
    /\ queue = <<>>
    /\ closed = FALSE
    /\ wait = [p \in Procs |-> "no"]
    /\ held = [s \in Senders |-> None]
    /\ metrics = [received |-> 0, dropsFullOld |-> 0]
    /\ accepted = 0
    /\ delivered = {}
    /\ evicted = {}

----------------------------------------------------------------------------

(* broadcast() by p, which itself returns from its operation.              *)
BroadcastAndReturn(p) ==
    wait' = [q \in Procs |-> IF q = p THEN "no"
                             ELSE IF wait[q] = "parked" THEN "woken"
                             ELSE wait[q]]

Park(p) == wait' = [wait EXCEPT ![p] = "parked"]

Return(p) == wait' = [wait EXCEPT ![p] = "no"]

Attempting(p) == wait[p] \in {"no", "woken"}

(* A fresh call may offer anything; a woken one offers what it holds.      *)
Offers(s) == IF wait[s] = "no" THEN Offer ELSE {held[s]}

Stamped(o) == [stamp |-> accepted + 1, imp |-> o.imp, kind |-> o.kind]

(* tryInsert succeeds on message m.                                        *)
InsertWithRoom(m) ==
    /\ HasRoom(queue)
    /\ Inserted(queue, m, queue')
    /\ UNCHANGED <<metrics, evicted>>

(* Mutant: the eviction is not counted.                                    *)
InsertEvictingUncounted(m) ==
    /\ ~HasRoom(queue)
    /\ \E d \in 1..Len(queue) :
          /\ IsVictim(queue, d)
          /\ MayEvict(strategy, queue[d].imp, m.imp)
          /\ Inserted(RemoveAt(queue, d), m, queue')
          /\ evicted' = evicted \cup {queue[d]}
    /\ UNCHANGED metrics

InsertEvicting(m) ==
    /\ ~HasRoom(queue)
    /\ \E d \in 1..Len(queue) :
          /\ IsVictim(queue, d)
          /\ MayEvict(strategy, queue[d].imp, m.imp)
          /\ Inserted(RemoveAt(queue, d), m, queue')
          /\ evicted' = evicted \cup {queue[d]}
          /\ metrics' = [metrics EXCEPT !.dropsFullOld = @ + 1]

(* Mutant: the message is in, and nobody is told.                          *)
AcceptSilently(s, o) ==
    /\ accepted < MaxSends
    /\ InsertWithRoom(Stamped(o)) \/ InsertEvicting(Stamped(o))
    /\ accepted' = accepted + 1
    /\ Return(s)
    /\ held' = [held EXCEPT ![s] = None]
    /\ UNCHANGED <<strategy, closed, delivered>>

Accept(s, o) ==
    /\ accepted < MaxSends
    /\ InsertWithRoom(Stamped(o)) \/ InsertEvicting(Stamped(o))
    /\ accepted' = accepted + 1
    /\ BroadcastAndReturn(s)
    /\ held' = [held EXCEPT ![s] = None]
    /\ UNCHANGED <<strategy, closed, delivered>>

(* The operation of s ends without its message having been accepted.       *)
Fail(s) ==
    /\ Return(s)
    /\ held' = [held EXCEPT ![s] = None]
    /\ UNCHANGED <<strategy, queue, closed, metrics, history>>

Blocks == strategy = "blockOrError" /\ ~HasRoom(queue)

Send(s) ==
    /\ wait[s] = "no"
    /\ \E o \in Offer :
          \/ ~closed /\ Accept(s, o)
          \/ ~closed /\ Refuses(strategy, queue, Stamped(o)) /\ Fail(s)
          \/ closed /\ Fail(s)

SendWait(s) ==
    /\ Attempting(s)
    /\ \E o \in Offers(s) :
          \/ closed /\ Fail(s)
          \/ ~closed /\ ~Blocks /\ Accept(s, o)
          \/ ~closed /\ ~Blocks /\ Refuses(strategy, queue, Stamped(o)) /\ Fail(s)
          \/ /\ ~closed /\ Blocks
             /\ Park(s)
             /\ held' = [held EXCEPT ![s] = o]
             /\ UNCHANGED <<strategy, queue, closed, metrics, history>>

(* Mutant: a receive that makes room without a broadcast.                  *)
TakeHeadSilently(r) ==
    /\ queue # <<>>
    /\ queue' = Tail(queue)
    /\ delivered' = delivered \cup {Head(queue)}
    /\ metrics' = [metrics EXCEPT !.received = @ + 1]
    /\ Return(r)
    /\ UNCHANGED <<strategy, closed, held, accepted, evicted>>

TakeHead(r) ==
    /\ queue # <<>>
    /\ queue' = Tail(queue)
    /\ delivered' = delivered \cup {Head(queue)}
    /\ metrics' = [metrics EXCEPT !.received = @ + 1]
    /\ BroadcastAndReturn(r)
    /\ UNCHANGED <<strategy, closed, held, accepted, evicted>>

(* Receive on an empty queue returns an error and changes nothing.         *)
Receive(r) == wait[r] = "no" /\ TakeHead(r)

ReceiveWait(r) ==
    /\ Attempting(r)
    /\ \/ TakeHead(r)
       \/ /\ queue = <<>>
          /\ IF closed THEN Return(r) ELSE Park(r)
          /\ UNCHANGED <<strategy, queue, closed, held, metrics, history>>

(* The select of a waiting operation takes its timer or ctx.Done().        *)
GiveUpSend(s) == wait[s] # "no" /\ Fail(s)

GiveUpReceive(r) ==
    /\ wait[r] # "no"
    /\ Return(r)
    /\ UNCHANGED <<strategy, queue, closed, held, metrics, history>>

(* Mutant: the flag is set, the waiting operations are not told.           *)
CloseSilently == closed' = TRUE /\ UNCHANGED <<strategy, wait, queue, held, metrics, history>>

Close ==
    /\ closed' = TRUE
    /\ wait' = [p \in Procs |-> IF wait[p] = "parked" THEN "woken" ELSE wait[p]]
    /\ UNCHANGED <<strategy, queue, held, metrics, history>>

Next ==
    \/ \E s \in Senders : Send(s) \/ SendWait(s) \/ GiveUpSend(s)
    \/ \E r \in Receivers : Receive(r) \/ ReceiveWait(r) \/ GiveUpReceive(r)
    \/ Close

Spec == Init /\ [][Next]_vars

(* A goroutine whose channel is closed leaves its select and attempts      *)
(* again: the Go scheduler lets every runnable goroutine run.  Nothing     *)
(* obliges a caller to call, a timer to exist or a mailbox to be closed.   *)
Fairness ==
    /\ \A s \in Senders : WF_vars(wait[s] = "woken" /\ SendWait(s))
    /\ \A r \in Receivers : WF_vars(wait[r] = "woken" /\ ReceiveWait(r))

FairSpec == Spec /\ Fairness
----------------------------------------------------------------------------

(* The state has the shape the fields of Mailbox have.                     *)
TypeOK ==
    /\ strategy \in Strategies
    /\ queue \in Seq(Message)
    /\ closed \in BOOLEAN
    /\ wait \in [Procs -> {"no", "parked", "woken"}]
    /\ held \in [Senders -> Offer \cup {None}]
    /\ metrics \in [received : Nat, dropsFullOld : Nat]
    /\ accepted \in 0..MaxSends
    /\ delivered \subseteq Message
    /\ evicted \subseteq Message

(* A mailbox never holds more than MailboxConfig.Capacity messages, also   *)
(* when tryInsert evicts one and inserts another.                          *)
CapacityBound == Len(queue) <= Capacity

(* Every System message is ahead of every other one, whatever receives and *)
(* evictions did to the queue since it was inserted.                       *)
SystemFirst ==
    \A i, j \in 1..Len(queue) :
        i < j /\ IsSystem(queue[j]) => IsSystem(queue[i])

(* Within the System messages, and within the others, the queue is in the  *)
(* order of acceptance and nothing that is still queued was accepted       *)
(* before something already delivered.                                     *)
DeliversInOrder ==
    /\ \A i, j \in 1..Len(queue) :
          i < j /\ SameClass(queue[i], queue[j])
              => queue[i].stamp < queue[j].stamp
    /\ \A m \in delivered, n \in InBox :
          SameClass(m, n) => m.stamp < n.stamp

(* A full mailbox gives up the oldest message of an importance first: what *)
(* was evicted is older than whatever of its importance is still queued.   *)
EvictsOldestFirst ==
    \A v \in evicted, n \in InBox : v.imp = n.imp => v.stamp < n.stamp

(* The counters GetMetrics publishes add up: every accepted message is     *)
(* queued, counted as received or counted as dropped.                      *)
AccountedFor ==
    accepted = Len(queue) + metrics.received + metrics.dropsFullOld

(* No lost wakeup: a receiver stays in its select only while there is      *)
(* nothing to receive, a sender only while there is no room, and neither   *)
(* once the mailbox is closed.                                             *)
NoLostWakeup ==
    /\ \A r \in Receivers : wait[r] = "parked" => queue = <<>> /\ ~closed
    /\ \A s \in Senders : wait[s] = "parked" => ~HasRoom(queue) /\ ~closed

(* Close makes every waiting operation return, whoever else is active.     *)
CloseReleasesAll == closed ~> \A p \in Procs : wait[p] = "no"

(* While messages are there, a waiting receiver is served unless the       *)
(* others empty the queue first; likewise a waiting sender, while there is *)
(* room (and the bound MaxSends lets it be served).                        *)
WaitersServed ==
    /\ \A r \in Receivers :
          wait[r] # "no" /\ queue # <<>> ~> wait[r] = "no" \/ queue = <<>>
    /\ \A s \in Senders :
          wait[s] # "no" /\ HasRoom(queue) /\ accepted < MaxSends
              ~> wait[s] = "no" \/ ~HasRoom(queue) \/ accepted = MaxSends

Promise == INSTANCE MailboxPromise WITH box <- InBox

(* The mailbox keeps the promise of MailboxPromise: an accepted message    *)
(* leaves the queue once, delivered or evicted, and nothing else does.     *)
KeepsPromise == Promise!Spec
=============================================================================
