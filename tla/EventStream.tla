---------------------------- MODULE EventStream ----------------------------
(***************************************************************************)
(* What the event stream of a hypervisor promises to its consumers: events *)
(* are numbered without holes and taken in that order, each at most once;  *)
(* one is lost only when Capacity newer ones are waiting, and is counted.  *)
(***************************************************************************)
EXTENDS Naturals, Sequences

CONSTANT Capacity

VARIABLES published,  \* the number of the newest event
          pending,    \* the events that wait for a consumer, oldest first
          taken,      \* how many were handed to a consumer
          lost        \* how many were given up

vars == <<published, pending, taken, lost>>

Init ==
    /\ published = 0
    /\ pending = <<>>
    /\ taken = 0
    /\ lost = 0

Publish ==
    /\ Len(pending) < Capacity
    /\ published' = published + 1
    /\ pending' = Append(pending, published + 1)
    /\ UNCHANGED <<taken, lost>>

PublishOverOldest ==
    /\ Len(pending) = Capacity
    /\ published' = published + 1
    /\ pending' = Append(Tail(pending), published + 1)
    /\ lost' = lost + 1
    /\ UNCHANGED taken

Take ==
    /\ pending # <<>>
    /\ pending' = Tail(pending)
    /\ taken' = taken + 1
    /\ UNCHANGED <<published, lost>>

Next == Publish \/ PublishOverOldest \/ Take

Spec == Init /\ [][Next]_vars
=============================================================================
