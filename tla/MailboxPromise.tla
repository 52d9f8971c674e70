--------------------------- MODULE MailboxPromise ---------------------------
(***************************************************************************)
(* What a mailbox promises about the messages it has accepted, whatever    *)
(* the order of its queue: a message is in the box from the moment it is   *)
(* accepted until it is delivered, once and to one receiver, or evicted to *)
(* make room for another; a closed box accepts nothing but still delivers. *)
(***************************************************************************)
EXTENDS Naturals

CONSTANT Message

VARIABLES box,        \* accepted and still in the mailbox
          delivered,  \* handed to a receiver
          evicted,    \* given up to make room
          closed

vars == <<box, delivered, evicted, closed>>

TypeOK ==
    /\ box \subseteq Message
    /\ delivered \subseteq Message
    /\ evicted \subseteq Message
    /\ closed \in BOOLEAN

Init ==
    /\ box = {}
    /\ delivered = {}
    /\ evicted = {}
    /\ closed = FALSE

New(m) == m \notin box \cup delivered \cup evicted

Accept(m) ==
    /\ ~closed
    /\ New(m)
    /\ box' = box \cup {m}
    /\ UNCHANGED <<delivered, evicted, closed>>

Replace(m, v) ==
    /\ ~closed
    /\ New(m)
    /\ v \in box
    /\ box' = (box \ {v}) \cup {m}
    /\ evicted' = evicted \cup {v}
    /\ UNCHANGED <<delivered, closed>>

Deliver(m) ==
    /\ m \in box
    /\ box' = box \ {m}
    /\ delivered' = delivered \cup {m}
    /\ UNCHANGED <<evicted, closed>>

Close ==
    /\ closed' = TRUE
    /\ UNCHANGED <<box, delivered, evicted>>

Next ==
    \/ \E m \in Message : Accept(m) \/ Deliver(m)
    \/ \E m, v \in Message : Replace(m, v)
    \/ Close

Spec == Init /\ [][Next]_vars
=============================================================================
