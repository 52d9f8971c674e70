---------------------------- MODULE MailboxQueue ----------------------------
(***************************************************************************)
(* The pure part of src/pkg/embed/mailbox.go: where a message enters a     *)
(* mailbox queue and which message leaves it when the queue is full.       *)
(*                                                                         *)
(* A queue is a sequence of messages, the head first.  A message is a      *)
(* record [stamp, imp, kind]: its importance, what a receiver's predicate  *)
(* can tell of it, and a stamp that says when the mailbox accepted it (the *)
(* stamp is history, the code has none).                                   *)
(***************************************************************************)
EXTENDS Naturals, Sequences

CONSTANTS
    Capacity,     \* MailboxConfig.Capacity
    DropOnFull,   \* MailboxConfig.DropOnFull
    Levels,       \* the importances that senders use
    Kinds,        \* what predicates distinguish
    MaxSends      \* bound: how many messages a mailbox accepts in its life

\* What MailboxConfig.Strategy may be.
AllStrategies == {"dropOld", "dropNew", "blockOrError"}

SystemLevel == 5  \* Low = 1, Info = 2, Warn = 3, Crit = 4, System = 5

(* Importances outside Low..System reach the eviction scan with no victim; *)
(* the hazards of the README say what happens then.                        *)
ASSUME CapacityAssumption == Capacity \in Nat \ {0}
ASSUME LevelsAssumption == Levels \subseteq 1..SystemLevel
ASSUME DropOnFullAssumption == DropOnFull \in 1..SystemLevel
ASSUME MaxSendsAssumption == MaxSends \in Nat

Message == [stamp : 1..MaxSends, imp : Levels, kind : Kinds]

IsSystem(m) == m.imp >= SystemLevel

----------------------------------------------------------------------------

(* Positions k such that the messages before position k + 1 are all System *)
(* and the next one, if any, is not.                                       *)
EndsSystemRun(q, k) ==
    /\ \A i \in 1..k : IsSystem(q[i])
    /\ k < Len(q) => ~IsSystem(q[k + 1])

InsertAfter(q, k, m) == SubSeq(q, 1, k) \o <<m>> \o SubSeq(q, k + 1, Len(q))

(* Mutant: append(q[:d+1], q[d+2:]...), the wrong element goes.            *)
RemoveNext(q, d) == SubSeq(q, 1, d) \o SubSeq(q, d + 2, Len(q))

RemoveAt(q, d) == SubSeq(q, 1, d - 1) \o SubSeq(q, d + 1, Len(q))

(* Mutants: no priority for System messages; the latest of them first.     *)
InsertedAtTail(q, m, r) == r = Append(q, m)
InsertedAtHead(q, m, r) == IF IsSystem(m) THEN r = <<m>> \o q ELSE r = Append(q, m)

(* r is q after insertMessage(m): a System message goes behind the System  *)
(* messages that lead the queue, any other goes to the tail.               *)
Inserted(q, m, r) ==
    IF IsSystem(m)
    THEN \E k \in 0..Len(q) : EndsSystemRun(q, k) /\ r = InsertAfter(q, k, m)
    ELSE r = Append(q, m)

(* Mutant: `lvl <= minLvl` makes the scan end on the newest.               *)
IsNewestVictim(q, d) ==
    /\ d \in 1..Len(q)
    /\ \A i \in 1..Len(q) : /\ q[d].imp <= q[i].imp
                            /\ i > d => q[d].imp < q[i].imp

(* The eviction scan: the oldest message of the least importance.          *)
IsVictim(q, d) ==
    /\ d \in 1..Len(q)
    /\ \A i \in 1..Len(q) : /\ q[d].imp <= q[i].imp
                            /\ i < d => q[d].imp < q[i].imp

HasRoom(q) == Len(q) < Capacity

(* Whether a message of importance n may take the place of a victim of     *)
(* importance v when the queue is full.                                    *)
MayEvict(strat, v, n) ==
    \/ strat = "dropOld" /\ v <= DropOnFull
    \/ strat = "dropNew" /\ n > DropOnFull /\ v < n

(* tryInsert refuses m: the queue is full and no victim gives way to it.   *)
Refuses(strat, q, m) ==
    /\ ~HasRoom(q)
    /\ \A d \in 1..Len(q) : ~(IsVictim(q, d) /\ MayEvict(strat, q[d].imp, m.imp))

----------------------------------------------------------------------------

(* System messages are one class, all others the other.                    *)
SameClass(m, n) == IsSystem(m) = IsSystem(n)

(* What insertMessage keeps of a queue: the System messages lead, and each *)
(* class is in the order of acceptance.                                    *)
Ordered(q) ==
    \A i, j \in 1..Len(q) : i < j =>
        /\ IsSystem(q[j]) => IsSystem(q[i])
        /\ SameClass(q[i], q[j]) => q[i].stamp < q[j].stamp

=============================================================================
