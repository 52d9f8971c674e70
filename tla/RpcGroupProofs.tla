--------------------------- MODULE RpcGroupProofs ---------------------------
(***************************************************************************)
(* Proofs about RpcGroup, for any VMs, any number of calls and any         *)
(* interleaving of them: its types, that the rounds over a group are fair  *)
(* (RoundRobin), and that a failing call has tried every healthy member    *)
(* (HealthyTried).                                                         *)
(***************************************************************************)
EXTENDS RpcGroup, FiniteSetTheorems, SequenceTheorems, TLAPS

(* A VM is in its group once, from Join to Leave.                          *)
GroupKept ==
    /\ \A i, j \in 1..Len(group) : group[i] = group[j] => i = j
    /\ \A v \in VMs : life[v] \in {"joined", "up", "unregistered"} <=>
                         \E i \in 1..Len(group) : group[i] = v
    /\ index = 0 \/ index < Len(group)

(* How many picks come before that of the p-th member.                     *)
Ahead(p) == IF p > index THEN p - 1 - index ELSE p - 1 - index + Len(group)

(* The members at the end of the queue, so ordered, are one pick ahead.    *)
RoundsEven ==
    \E round, done \in Nat :
        /\ done < Len(group) \/ done = 0
        /\ \A p \in 1..Len(group) :
              picks[group[p]] =
                  IF Ahead(p) >= Len(group) - done THEN round + 1 ELSE round

(* A call executes on the member it has picked.                            *)
TurnsKept ==
    \A c \in Callers :
        /\ call[c].phase \in {"ask", "look", "run"} =>
              call[c].target \in VMs /\ call[c].left > 0
        /\ call[c].phase \in {"look", "run"} => call[c].target \in tried[c]

(* The picks that a call has left.                                         *)
Left(c) == IF call[c].phase = "pick" THEN call[c].left ELSE call[c].left - 1

(* A call that is alone has yet to try the members it still picks, and has *)
(* tried the others that are healthy, but the one it is just asking.       *)
Covers(c) ==
    call[c].phase \in Active =>
        /\ \A v \in steady[c] : Closed(v)
        /\ alone[c] =>
              /\ group # <<>>
              /\ \A p \in 1..Len(group) :
                    (Ahead(p) >= Left(c) /\ group[p] \in steady[c]) =>
                        \/ group[p] \in tried[c]
                        \/ call[c].phase = "ask" /\ call[c].target = group[p]

(* HealthyTried, of one call.                                              *)
Told(c) ==
    (alone[c] /\ call[c].phase \in {"failed", "CircuitOpen", "noVMs"}) =>
        steady[c] \subseteq tried[c]

CallsCover == \A c \in Callers : Covers(c) /\ Told(c)

IInv ==
    /\ TypeOK
    /\ GroupKept
    /\ RoundsEven
    /\ TurnsKept
    /\ CallsCover

CallType == [phase : Active \cup Results, left : Nat,
             target : VMs \cup {None}, lastErr : Results]

----------------------------------------------------------------------------
(* Types.                                                                  *)

LEMMA UpdateOK ==
    ASSUME NEW S, NEW T, NEW f \in [S -> T], NEW x, NEW v \in T
    PROVE  [f EXCEPT ![x] = v] \in [S -> T]
OBVIOUS

(* Pruning leaves a sequence of times.                                     *)
LEMMA PrunedOK ==
    ASSUME NEW fs \in Seq(Nat), NEW now \in Nat, NEW kept \in Pruned(fs, now)
    PROVE  kept \in Seq(Nat)
<1>1. PICK idx \in 0..Len(fs) : kept = SubSeq(fs, idx + 1, Len(fs))
  BY DEF Pruned, Leading
<1>2. Len(fs) \in Nat /\ \A i \in idx + 1 .. Len(fs) : fs[i] \in Nat
  BY LenProperties, ElementOfSeq
<1>3. QED
  BY <1>1, <1>2, SubSeqProperties

(* What beforeRPCCall and afterRPCCall do to a circuit makes a circuit; a  *)
(* refusal leaves it in its state.                                         *)
LEMMA CircuitsOK ==
    ASSUME NEW c \in Circuit, NEW now \in Nat
    PROVE  /\ Fresh \in Circuit
           /\ Refused(c) \in Circuit /\ Refused(c).state = c.state
           /\ Admitted(c) \in Circuit
           /\ Succeeded(c) \in Circuit
           /\ \A kept \in Pruned(c.failures, now) : Failed(c, kept, now) \in Circuit
<1>1. /\ c.failures \in Seq(Nat) /\ c.fastFails \in Nat /\ c.toOpen \in Nat
      /\ c.toHalf \in Nat /\ c.toClosed \in Nat
  BY DEF Circuit
<1>2. Fresh \in Circuit
  BY DEF Circuit, Fresh
<1>3. Refused(c) \in Circuit /\ Refused(c).state = c.state
  BY <1>1 DEF Circuit, Refused
<1>4. Admitted(c) \in Circuit
  <2>1. CASE c.state = "closed"
    BY <2>1 DEF Admitted
  <2>2. CASE c.state # "closed"
    <3> DEFINE n == IF c.state = "open" THEN c.toHalf + 1 ELSE c.toHalf
    <3>1. n \in Nat
      BY <1>1
    <3>2. Admitted(c) = [c EXCEPT !.state = "half_open", !.toHalf = n, !.inFlight = TRUE]
      BY <2>2 DEF Admitted
    <3> HIDE DEF n
    <3>3. [c EXCEPT !.state = "half_open", !.toHalf = n, !.inFlight = TRUE] \in Circuit
      BY <3>1 DEF Circuit
    <3>4. QED
      BY <3>2, <3>3
  <2>3. QED
    BY <2>1, <2>2
<1>5. Succeeded(c) \in Circuit
  <2>1. PICK fs \in Seq(Nat) : fs = <<>>
    BY EmptySeq, Zenon
  <2>2. PICK n \in Nat : n = c.toClosed + 1
    BY <1>1
  <2>3. [c EXCEPT !.failures = fs] \in Circuit
    BY DEF Circuit
  <2>4. [c EXCEPT !.failures = fs, !.inFlight = FALSE, !.state = "closed",
                  !.toClosed = n] \in Circuit
    BY DEF Circuit
  <2>5. QED
    BY <2>1, <2>2, <2>3, <2>4 DEF Succeeded
<1>6. ASSUME NEW kept \in Pruned(c.failures, now) PROVE Failed(c, kept, now) \in Circuit
  <2>1. PICK fs \in Seq(Nat) : fs = Append(kept, now)
    BY <1>1, PrunedOK, AppendProperties
  <2>2. Opened(c, fs, now) \in Circuit
    <3> DEFINE n == IF c.state = "open" THEN c.toOpen ELSE c.toOpen + 1
               opened == [c EXCEPT !.failures = fs, !.state = "open", !.openedAt = now,
                                   !.inFlight = FALSE, !.toOpen = n]
    <3>1. n \in Nat
      BY <1>1
    <3>2. Opened(c, fs, now) = opened
      BY DEF Opened
    <3> HIDE DEF n
    <3>3. opened \in Circuit
      BY <3>1 DEF Circuit
    <3>4. QED
      BY <3>2, <3>3
  <2>3. [c EXCEPT !.failures = fs] \in Circuit
    BY DEF Circuit
  <2>4. QED
    BY <2>1, <2>2, <2>3 DEF Failed
<1>7. QED
  BY <1>2, <1>3, <1>4, <1>5, <1>6

(* The records that a call goes through.                                   *)
LEMMA CallUpdates ==
    ASSUME NEW r \in CallType
    PROVE  /\ \A e \in Results : Idle(e) \in CallType
           /\ \A phase \in Active : [r EXCEPT !.phase = phase] \in CallType
           /\ \A v \in VMs : [r EXCEPT !.phase = "ask", !.target = v] \in CallType
           /\ \A e \in Results : r.left > 0 =>
                 [r EXCEPT !.phase = "pick", !.left = @ - 1, !.lastErr = e] \in CallType
<1>1. \A e \in Results : Idle(e) \in CallType
  BY DEF CallType, Idle, Results
<1>2. \A phase \in Active : [r EXCEPT !.phase = phase] \in CallType
  BY DEF CallType
<1>3. \A v \in VMs : [r EXCEPT !.phase = "ask", !.target = v] \in CallType
  BY DEF CallType, Active
<1>4. ASSUME NEW e \in Results, r.left > 0
      PROVE  [r EXCEPT !.phase = "pick", !.left = @ - 1, !.lastErr = e] \in CallType
  <2>1. PICK n \in Nat : n = r.left - 1
    BY <1>4 DEF CallType
  <2>2. [r EXCEPT !.phase = "pick", !.left = n, !.lastErr = e] \in CallType
    BY <1>4 DEF CallType, Active
  <2>3. QED
    BY <2>1, <2>2
<1>5. QED
  BY <1>1, <1>2, <1>3, <1>4

(* The group without its i-th member.                                      *)
LEMMA RemoveAtProperties ==
    ASSUME NEW S, NEW q \in Seq(S), NEW d \in 1..Len(q),
           NEW r, r = RemoveAt(q, d)
    PROVE  /\ r \in Seq(S)
           /\ Len(r) = Len(q) - 1
           /\ \A i \in 1..Len(r) : r[i] = IF i < d THEN q[i] ELSE q[i + 1]
<1> DEFINE front == SubSeq(q, 1, d - 1)
           back == SubSeq(q, d + 1, Len(q))
<1>0. Len(q) \in Nat /\ d \in Nat \ {0} /\ d <= Len(q)
  BY LenProperties
<1>1. /\ front \in Seq(S) /\ Len(front) = d - 1
      /\ \A i \in 1..d - 1 : front[i] = q[i]
  <2>1. \A i \in 1..d - 1 : q[i] \in S
    BY <1>0, ElementOfSeq
  <2>2. QED
    BY <1>0, <2>1, SubSeqProperties
<1>2. /\ back \in Seq(S) /\ Len(back) = Len(q) - d
      /\ \A i \in 1..Len(q) - d : back[i] = q[d + i]
  <2>1. \A i \in d + 1 .. Len(q) : q[i] \in S
    BY <1>0, ElementOfSeq
  <2>2. QED
    BY <1>0, <2>1, SubSeqProperties
<1> HIDE DEF front, back
<1>3. r = front \o back
  BY DEF RemoveAt, front, back
<1>4. /\ r \in Seq(S)
      /\ Len(r) = Len(q) - 1
      /\ \A i \in 1..Len(q) - 1 :
            r[i] = IF i <= d - 1 THEN front[i] ELSE back[i - (d - 1)]
  <2>1. Len(front) + Len(back) = Len(q) - 1
    BY <1>0, <1>1, <1>2
  <2>2. front \in Seq(S) /\ back \in Seq(S)
    BY <1>1, <1>2
  <2>3. /\ front \o back \in Seq(S)
        /\ Len(front \o back) = Len(front) + Len(back)
        /\ \A i \in 1..Len(front) + Len(back) :
              (front \o back)[i] = IF i <= Len(front) THEN front[i] ELSE back[i - Len(front)]
    BY <2>2, ConcatProperties
  <2>4. QED
    BY <2>1, <2>3, <1>1, <1>3
<1>5. QED
  BY <1>0, <1>1, <1>2, <1>4

(* The history stays one of sets and of Booleans.                          *)
LEMMA HistoryOK ==
    ASSUME TypeOK, NEW starts, KeepHistory(starts)
    PROVE  /\ steady' \in [Callers -> SUBSET VMs]
           /\ alone' \in [Callers -> BOOLEAN]
<1>1. \A c \in Callers : StillSteady(c, starts) \in SUBSET VMs
  BY DEF StillSteady, TypeOK
<1>2. \A c \in Callers : (c \in starts \/ StillAlone(c)) \in BOOLEAN
  BY DEF StillAlone, TypeOK
<1>3. QED
  BY <1>1, <1>2 DEF KeepHistory

(* A turn of a call, which ends in the next one.                           *)
LEMMA NextTurnOK ==
    ASSUME TypeOK, TurnsKept, NEW c \in Callers, call[c].phase \in {"ask", "look", "run"},
           NEW err \in Results
    PROVE  /\ NextTurn(c, err) \in CallType
           /\ NextTurn(c, err).phase = "pick"
           /\ NextTurn(c, err).left = call[c].left - 1
<1>1. call[c] \in CallType /\ call[c].left > 0
  BY DEF TypeOK, CallType, TurnsKept
<1>2. NextTurn(c, err) \in CallType
  BY <1>1, CallUpdates DEF NextTurn
<1>3. QED
  BY <1>1, <1>2 DEF NextTurn, CallType

LEMMA TypeStep == TypeOK /\ GroupKept /\ TurnsKept /\ [Next]_vars => TypeOK'
<1> SUFFICES ASSUME TypeOK, GroupKept, TurnsKept, [Next]_vars PROVE TypeOK'
  OBVIOUS
<1> USE DEF calls
<1>0. /\ group \in Seq(VMs) /\ index \in Nat /\ clock \in Nat /\ begun \in Nat
      /\ circuits \in [VMs -> Circuit] /\ call \in [Callers -> CallType]
      /\ tried \in [Callers -> SUBSET VMs] /\ picks \in [VMs -> Nat]
      /\ Len(group) \in Nat
  BY LenProperties DEF TypeOK, CallType
<1>1. ASSUME call' \in [Callers -> CallType]
      PROVE  call' \in [Callers -> [phase : Active \cup Results, left : Nat,
                                    target : VMs \cup {None}, lastErr : Results]]
  BY <1>1 DEF CallType
<1>2. ASSUME NEW c \in Callers, Start(c) PROVE TypeOK'
  <2>1. call' \in [Callers -> CallType]
    <3> DEFINE r == IF group = <<>> THEN Idle("noVMs")
                    ELSE [phase |-> "pick", left |-> Len(group),
                          target |-> None, lastErr |-> "none"]
    <3>1. r \in CallType
      BY <1>0, CallUpdates DEF CallType, Active, Results, Idle
    <3>2. call' = [call EXCEPT ![c] = r]
      BY <1>2 DEF Start
    <3> HIDE DEF r
    <3>3. QED
      BY <1>0, <3>1, <3>2, UpdateOK
  <2>2. tried' \in [Callers -> SUBSET VMs] /\ begun' \in Nat
    BY <1>0, <1>2 DEF Start
  <2>3. QED
    BY <1>1, <1>2, <2>1, <2>2, HistoryOK DEF Start, TypeOK
<1>3. ASSUME NEW c \in Callers, GiveUp(c) PROVE TypeOK'
  <2>1. call' \in [Callers -> CallType]
    <3>1. PICK r \in CallType : r = Idle(call[c].lastErr)
      BY <1>0, CallUpdates DEF CallType
    <3>2. QED
      BY <1>0, <1>3, <3>1, UpdateOK DEF GiveUp
  <2>2. QED
    BY <1>1, <1>3, <2>1, HistoryOK DEF GiveUp, TypeOK
<1>4. ASSUME NEW c \in Callers, Pick(c) PROVE TypeOK'
  <2>1. CASE group = <<>>
    <3>1. PICK r \in CallType : r = Idle("noVMs")
      BY <1>0, CallUpdates DEF Results
    <3>2. call' \in [Callers -> CallType]
      BY <1>0, <1>4, <2>1, <3>1, UpdateOK DEF Pick
    <3>3. QED
      BY <1>1, <1>4, <2>1, <3>2, HistoryOK DEF Pick, TypeOK
  <2>2. CASE group # <<>>
    <3>1. Len(group) > 0
      BY <1>0, <2>2, EmptySeq
    <3>2. Current \in 0..Len(group) - 1
      BY <1>0, <3>1 DEF Current
    <3>3. PICK v \in VMs : v = group[Current + 1]
      BY <1>0, <3>1, <3>2, ElementOfSeq
    <3>4. index' \in Nat
      BY <1>0, <1>4, <2>2, <3>1, <3>2 DEF Pick
    <3>5. picks' \in [VMs -> Nat]
      <4>1. picks' = [picks EXCEPT ![v] = picks[v] + 1]
        BY <1>4, <2>2, <3>3 DEF Pick
      <4>2. picks[v] + 1 \in Nat
        BY <1>0
      <4>3. QED
        BY <1>0, <4>1, <4>2, UpdateOK
    <3>6. call' \in [Callers -> CallType]
      <4>1. [call[c] EXCEPT !.phase = "ask", !.target = v] \in CallType
        BY <1>0, CallUpdates
      <4>2. call' = [call EXCEPT ![c] = [call[c] EXCEPT !.phase = "ask", !.target = v]]
        BY <1>0, <1>4, <2>2, <3>3 DEF Pick
      <4>3. QED
        BY <1>0, <4>1, <4>2, UpdateOK
    <3>7. QED
      BY <1>1, <1>4, <3>4, <3>5, <3>6, HistoryOK DEF Pick, TypeOK
  <2>3. QED
    BY <2>1, <2>2
<1>5. ASSUME NEW c \in Callers, Skip(c) PROVE TypeOK'
  <2>1. PICK v \in VMs : v = call[c].target
    BY <1>5 DEF Skip, TurnsKept
  <2>2. circuits' \in [VMs -> Circuit]
    BY <1>0, <1>5, <2>1, CircuitsOK, UpdateOK DEF Skip
  <2>3. call' \in [Callers -> CallType]
    BY <1>0, <1>5, NextTurnOK, UpdateOK DEF Skip, Results
  <2>4. QED
    BY <1>1, <1>5, <2>2, <2>3, HistoryOK DEF Skip, TypeOK
<1>6. ASSUME NEW c \in Callers, Admit(c) PROVE TypeOK'
  <2>1. PICK v \in VMs : v = call[c].target
    BY <1>6 DEF Admit, TurnsKept
  <2>2. circuits' \in [VMs -> Circuit]
    BY <1>0, <1>6, <2>1, CircuitsOK, UpdateOK DEF Admit
  <2>3. call' \in [Callers -> CallType]
    <3>1. [call[c] EXCEPT !.phase = "look"] \in CallType
      BY <1>0, CallUpdates DEF Active
    <3>2. QED
      BY <1>0, <1>6, <3>1, UpdateOK DEF Admit
  <2>4. tried' \in [Callers -> SUBSET VMs]
    BY <1>0, <1>6, <2>1 DEF Admit
  <2>5. QED
    BY <1>1, <1>6, <2>2, <2>3, <2>4, HistoryOK DEF Admit, TypeOK
<1>7. ASSUME NEW c \in Callers, Find(c) PROVE TypeOK'
  <2>1. call' \in [Callers -> CallType]
    <3>1. [call[c] EXCEPT !.phase = "run"] \in CallType
      BY <1>0, CallUpdates DEF Active
    <3>2. QED
      BY <1>0, <1>7, <3>1, UpdateOK DEF Find
  <2>2. QED
    BY <1>1, <1>7, <2>1, HistoryOK DEF Find, TypeOK
<1>8. ASSUME NEW c \in Callers, Succeed(c) PROVE TypeOK'
  <2>1. PICK v \in VMs : v = call[c].target
    BY <1>8 DEF Succeed, TurnsKept
  <2>2. circuits' \in [VMs -> Circuit]
    BY <1>0, <1>8, <2>1, CircuitsOK, UpdateOK DEF Succeed
  <2>3. PICK r \in CallType : r = Idle("ok")
    BY <1>0, CallUpdates DEF Results
  <2>4. call' \in [Callers -> CallType]
    BY <1>0, <1>8, <2>3, UpdateOK DEF Succeed
  <2>5. QED
    BY <1>1, <1>8, <2>2, <2>4, HistoryOK DEF Succeed, TypeOK
<1>9. ASSUME NEW c \in Callers, Fail(c) PROVE TypeOK'
  <2>0. call[c].phase \in {"look", "run"}
    BY <1>9 DEF Fail
  <2>1. PICK v \in VMs : v = call[c].target
    BY <2>0 DEF TurnsKept
  <2>2. PICK kept \in Pruned(circuits[v].failures, clock) :
           circuits' = [circuits EXCEPT ![v] = Failed(circuits[v], kept, clock)]
    BY <1>9, <2>1 DEF Fail
  <2>3. Failed(circuits[v], kept, clock) \in Circuit
    BY <1>0, <2>2, CircuitsOK
  <2>4. circuits' \in [VMs -> Circuit]
    BY <1>0, <2>2, <2>3, UpdateOK
  <2>5. call' \in [Callers -> CallType]
    BY <1>0, <1>9, <2>0, NextTurnOK, UpdateOK DEF Fail, Results
  <2>6. QED
    BY <1>1, <1>9, <2>4, <2>5, HistoryOK DEF Fail, TypeOK
<1>10. ASSUME NEW v \in Volatile, Join(v) PROVE TypeOK'
  <2>1. v \in VMs
    BY MembersAssumption
  <2>2. group' \in Seq(VMs)
    BY <1>0, <1>10, <2>1, AppendProperties DEF Join
  <2>3. QED
    BY <1>10, <2>2, HistoryOK DEF Join, Became, TypeOK
<1>11. ASSUME NEW v \in Volatile, Register(v) PROVE TypeOK'
  BY <1>11, HistoryOK DEF Register, Became, TypeOK
<1>12. ASSUME NEW v \in Volatile, Unregister(v) PROVE TypeOK'
  BY <1>12, HistoryOK DEF Unregister, Became, TypeOK
<1>13. ASSUME NEW v \in Volatile, Leave(v) PROVE TypeOK'
  <2>1. group' \in Seq(VMs)
    BY <1>0, <1>13, RemoveAtProperties DEF Leave
  <2>2. index' \in Nat
    BY <1>0, <1>13 DEF Leave
  <2>3. QED
    BY <1>13, <2>1, <2>2, HistoryOK DEF Leave, Became, TypeOK
<1>14. ASSUME NEW v \in Volatile, Forget(v) PROVE TypeOK'
  <2>1. v \in VMs
    BY MembersAssumption
  <2>2. circuits' \in [VMs -> Circuit]
    BY <1>0, <1>14, <2>1, CircuitsOK, UpdateOK DEF Forget
  <2>3. QED
    BY <1>14, <2>2, HistoryOK DEF Forget, Became, TypeOK
<1>15. CASE Tick
  BY <1>15, HistoryOK DEF Tick, TypeOK
<1>16. CASE UNCHANGED vars
  BY <1>16 DEF vars, TypeOK
<1>17. QED
  BY <1>2, <1>3, <1>4, <1>5, <1>6, <1>7, <1>8, <1>9, <1>10, <1>11, <1>12,
     <1>13, <1>14, <1>15, <1>16 DEF Next, Step
----------------------------------------------------------------------------
(* The group and its rounds.                                               *)

LEMMA SmallMod ==
    ASSUME NEW a \in Nat, NEW n \in Nat, a < n PROVE a % n = a
OBVIOUS

(* A pick takes the one whose turn it is, and makes it the last.           *)
LEMMA PickTurns ==
    ASSUME TypeOK, GroupKept, NEW c \in Callers, Pick(c), group # <<>>
    PROVE  /\ Len(group) \in Nat \ {0}
           /\ Current = index /\ index \in 0..Len(group) - 1
           /\ index' \in 0..Len(group) - 1
           /\ group[index + 1] \in VMs
           /\ call' = [call EXCEPT ![c].phase = "ask", ![c].target = group[index + 1]]
           /\ picks' = [picks EXCEPT ![group[index + 1]] = @ + 1]
           /\ group' = group
           /\ \A p \in 1..Len(group) :
                 /\ Ahead(p) \in 0..Len(group) - 1
                 /\ p = index + 1 => Ahead(p) = 0 /\ Ahead(p)' = Len(group) - 1
                 /\ p # index + 1 => Ahead(p) > 0 /\ Ahead(p)' = Ahead(p) - 1
<1>1. group \in Seq(VMs) /\ index \in Nat /\ Len(group) \in Nat \ {0}
  BY EmptySeq DEF TypeOK
<1>2. index \in 0..Len(group) - 1 /\ Current = index
  BY <1>1 DEF GroupKept, Current
<1>3. group[index + 1] \in VMs
  BY <1>1, <1>2, ElementOfSeq
<1>4. /\ index' = (index + 1) % Len(group)
      /\ call' = [call EXCEPT ![c].phase = "ask", ![c].target = group[index + 1]]
      /\ picks' = [picks EXCEPT ![group[index + 1]] = @ + 1]
      /\ group' = group
  BY <1>2 DEF Pick
<1>5. index' = IF index + 1 = Len(group) THEN 0 ELSE index + 1
  <2>1. CASE index + 1 = Len(group)
    BY <1>1, <1>4, <2>1
  <2>2. CASE index + 1 < Len(group)
    <3>1. (index + 1) % Len(group) = index + 1
      BY <1>1, <2>2, SmallMod
    <3>2. QED
      BY <1>4, <2>2, <3>1
  <2>3. QED
    BY <1>1, <1>2, <2>1, <2>2
<1>6. index' \in 0..Len(group) - 1
  BY <1>1, <1>2, <1>5
<1>7. ASSUME NEW p \in 1..Len(group)
      PROVE  /\ Ahead(p) \in 0..Len(group) - 1
             /\ p = index + 1 => Ahead(p) = 0 /\ Ahead(p)' = Len(group) - 1
             /\ p # index + 1 => Ahead(p) > 0 /\ Ahead(p)' = Ahead(p) - 1
  <2>1. PICK n \in Nat \ {0}, i \in Nat : n = Len(group) /\ i = index
    BY <1>1
  <2>2. p \in 1..n /\ i \in 0..n - 1
    BY <1>2, <2>1
  <2>3. Ahead(p) = IF p > i THEN p - 1 - i ELSE p - 1 - i + n
    BY <2>1 DEF Ahead
  <2>4. PICK j \in 0..n - 1 : j = index' /\ j = IF i + 1 = n THEN 0 ELSE i + 1
    BY <1>5, <1>6, <2>1
  <2>5. Ahead(p)' = IF p > j THEN p - 1 - j ELSE p - 1 - j + n
    BY <1>4, <2>1, <2>4 DEF Ahead
  <2>6. p = i + 1 => Ahead(p) = 0 /\ Ahead(p)' = n - 1
    BY <2>2, <2>3, <2>4, <2>5
  <2>7. p # i + 1 => Ahead(p) > 0 /\ Ahead(p)' = Ahead(p) - 1
    BY <2>2, <2>3, <2>4, <2>5
  <2>8. Ahead(p) \in 0..n - 1
    BY <2>2, <2>3
  <2>9. QED
    BY <2>1, <2>6, <2>7, <2>8
<1>8. QED
  BY <1>1, <1>2, <1>3, <1>4, <1>6, <1>7

(* The steps that leave the group and its index alone.                     *)
Elsewhere(c) == Start(c) \/ GiveUp(c) \/ Skip(c) \/ Admit(c) \/ Find(c) \/ Succeed(c) \/ Fail(c)

LEMMA ElsewhereKeeps ==
    ASSUME NEW c \in Callers, Elsewhere(c)
    PROVE  group' = group /\ index' = index /\ life' = life /\ picks' = picks
BY DEF Elsewhere, Start, GiveUp, Skip, Admit, Find, Succeed, Fail, calls

(* A pick changes neither the group nor who is in it.                      *)
LEMMA PickKeeps ==
    ASSUME TypeOK, GroupKept, NEW c \in Callers, Pick(c)
    PROVE  group' = group /\ life' = life /\ (index' = 0 \/ index' < Len(group'))
<1>1. CASE group = <<>>
  BY <1>1 DEF Pick, GroupKept
<1>2. CASE group # <<>>
  <2>1. Len(group) \in Nat /\ index' \in 0..Len(group) - 1 /\ group' = group
    BY <1>2, PickTurns
  <2>2. QED
    BY <2>1 DEF Pick
<1>3. QED
  BY <1>1, <1>2

LEMMA GroupStep == TypeOK /\ GroupKept /\ [Next]_vars => GroupKept'
<1> SUFFICES ASSUME TypeOK, GroupKept, [Next]_vars PROVE GroupKept'
  OBVIOUS
<1>0. /\ group \in Seq(VMs) /\ index \in Nat /\ Len(group) \in Nat
      /\ DOMAIN life = VMs
      /\ \A i \in 1..Len(group) : group[i] \in VMs
  BY LenProperties, ElementOfSeq DEF TypeOK
<1>1. ASSUME NEW c \in Callers, Elsewhere(c) PROVE GroupKept'
  BY <1>1, ElsewhereKeeps DEF GroupKept
<1>2. ASSUME NEW c \in Callers, Pick(c) PROVE GroupKept'
  BY <1>2, PickKeeps DEF GroupKept
<1>3. ASSUME NEW v \in Volatile, Join(v) PROVE GroupKept'
  <2>1. v \in VMs
    BY MembersAssumption
  <2>2. group' = Append(group, v) /\ life[v] = "absent" /\ index' = index
        /\ life' = [life EXCEPT ![v] = "joined"]
    BY <1>3 DEF Join, Became
  <2>3. /\ Len(group') = Len(group) + 1
        /\ \A i \in 1..Len(group) : group'[i] = group[i]
        /\ group'[Len(group) + 1] = v
    BY <1>0, <2>1, <2>2, AppendProperties
  <2>4. \A i \in 1..Len(group) : group[i] # v
    BY <2>1, <2>2 DEF GroupKept
  <2>5. \A i, j \in 1..Len(group') : group'[i] = group'[j] => i = j
    <3>1. SUFFICES ASSUME NEW i \in 1..Len(group'), NEW j \in 1..Len(group'),
                          group'[i] = group'[j]
                   PROVE  i = j
      OBVIOUS
    <3>2. i \in 1..Len(group) \/ i = Len(group) + 1
      BY <1>0, <2>3
    <3>3. j \in 1..Len(group) \/ j = Len(group) + 1
      BY <1>0, <2>3
    <3>4. QED
      BY <2>3, <2>4, <3>1, <3>2, <3>3 DEF GroupKept
  <2>6. ASSUME NEW u \in VMs
        PROVE  life'[u] \in {"joined", "up", "unregistered"} <=>
                  \E i \in 1..Len(group') : group'[i] = u
    <3>1. (\E i \in 1..Len(group') : group'[i] = u) <=>
             (\E i \in 1..Len(group) : group[i] = u) \/ u = v
      <4>1. 1..Len(group') = 1..Len(group) \cup {Len(group) + 1}
        BY <1>0, <2>3
      <4>2. QED
        BY <2>3, <4>1
    <3>2. u # v => life'[u] = life[u]
      BY <1>0, <2>2
    <3>3. life'[v] = "joined"
      BY <1>0, <2>1, <2>2
    <3>4. QED
      BY <3>1, <3>2, <3>3 DEF GroupKept
  <2>7. index' = 0 \/ index' < Len(group')
    BY <1>0, <2>2, <2>3 DEF GroupKept
  <2>8. QED
    BY <2>5, <2>6, <2>7 DEF GroupKept
<1>4. ASSUME NEW v \in Volatile, Leave(v) PROVE GroupKept'
  <2>1. v \in VMs
    BY MembersAssumption
  <2>2. PICK d \in 1..Len(group) : group[d] = v /\ group' = RemoveAt(group, d)
    BY <1>4 DEF Leave
  <2>3. life' = [life EXCEPT ![v] = "left"]
        /\ index' = IF index >= Len(group') THEN 0 ELSE index
    BY <1>4 DEF Leave, Became
  <2>4. /\ Len(group') = Len(group) - 1
        /\ \A i \in 1..Len(group') : group'[i] = IF i < d THEN group[i] ELSE group[i + 1]
    BY <1>0, <2>2, RemoveAtProperties
  <2>5. \A i, j \in 1..Len(group') : group'[i] = group'[j] => i = j
    <3>1. SUFFICES ASSUME NEW i \in 1..Len(group'), NEW j \in 1..Len(group'),
                          group'[i] = group'[j]
                   PROVE  i = j
      OBVIOUS
    <3>2. PICK k \in 1..Len(group) : group'[i] = group[k] /\ k = IF i < d THEN i ELSE i + 1
      BY <1>0, <2>4
    <3>3. PICK m \in 1..Len(group) : group'[j] = group[m] /\ m = IF j < d THEN j ELSE j + 1
      BY <1>0, <2>4
    <3>4. k = m
      BY <3>1, <3>2, <3>3 DEF GroupKept
    <3>5. QED
      BY <1>0, <3>2, <3>3, <3>4
  <2>6. ASSUME NEW u \in VMs
        PROVE  life'[u] \in {"joined", "up", "unregistered"} <=>
                  \E i \in 1..Len(group') : group'[i] = u
    <3>1. CASE u = v
      <4>1. life'[u] = "left"
        BY <1>0, <2>3, <3>1
      <4>2. ASSUME NEW i \in 1..Len(group'), group'[i] = u PROVE FALSE
        <5>1. PICK k \in 1..Len(group) : group'[i] = group[k] /\ k # d
          <6>1. CASE i < d
            BY <1>0, <2>4, <6>1
          <6>2. CASE i >= d
            <7>1. i + 1 \in 1..Len(group) /\ group'[i] = group[i + 1] /\ i + 1 # d
              BY <1>0, <2>4, <6>2
            <7>2. QED
              BY <7>1
          <6>3. QED
            BY <6>1, <6>2
        <5>2. QED
          BY <2>2, <3>1, <4>2, <5>1 DEF GroupKept
      <4>3. QED
        BY <4>1, <4>2
    <3>2. CASE u # v
      <4>1. life'[u] = life[u]
        BY <1>0, <2>3, <3>2
      <4>2. ASSUME NEW i \in 1..Len(group'), group'[i] = u
            PROVE  \E k \in 1..Len(group) : group[k] = u
        BY <1>0, <2>4, <4>2
      <4>3. ASSUME NEW k \in 1..Len(group), group[k] = u
            PROVE  \E i \in 1..Len(group') : group'[i] = u
        <5>1. k # d
          BY <2>2, <3>2, <4>3
        <5>2. CASE k < d
          <6>1. k \in 1..Len(group') /\ group'[k] = u
            BY <1>0, <2>4, <4>3, <5>2
          <6>2. QED
            BY <6>1
        <5>3. CASE k > d
          <6>1. k - 1 \in 1..Len(group') /\ group'[k - 1] = group[k - 1 + 1]
            BY <1>0, <2>4, <5>3
          <6>2. k - 1 + 1 = k
            OBVIOUS
          <6>3. QED
            BY <4>3, <6>1, <6>2
        <5>4. QED
          BY <5>1, <5>2, <5>3
      <4>4. QED
        BY <4>1, <4>2, <4>3 DEF GroupKept
    <3>3. QED
      BY <3>1, <3>2
  <2>7. index' = 0 \/ index' < Len(group')
    BY <1>0, <2>3, <2>4
  <2>8. QED
    BY <2>5, <2>6, <2>7 DEF GroupKept
<1>5. ASSUME NEW v \in Volatile, Register(v) \/ Unregister(v) \/ Forget(v) PROVE GroupKept'
  <2>1. v \in VMs
    BY MembersAssumption
  <2>2. group' = group /\ index' = index
        /\ \/ life[v] = "joined" /\ life' = [life EXCEPT ![v] = "up"]
           \/ life[v] = "up" /\ life' = [life EXCEPT ![v] = "unregistered"]
           \/ life[v] = "left" /\ life' = [life EXCEPT ![v] = "absent"]
    BY <1>5 DEF Register, Unregister, Forget, Became
  <2>3. \A u \in VMs : life'[u] \in {"joined", "up", "unregistered"} <=>
                          life[u] \in {"joined", "up", "unregistered"}
    BY <1>0, <2>1, <2>2
  <2>4. QED
    BY <2>2, <2>3 DEF GroupKept
<1>6. CASE Tick \/ UNCHANGED vars
  BY <1>6 DEF Tick, vars, GroupKept
<1>7. QED
  BY <1>1, <1>2, <1>3, <1>4, <1>5, <1>6 DEF Next, Step, Elsewhere

(* Everybody's turn comes within a round.                                  *)
LEMMA AheadRange ==
    ASSUME NEW n \in Nat, NEW i \in Nat, i = 0 \/ i < n, NEW p \in 1..n
    PROVE  (IF p > i THEN p - 1 - i ELSE p - 1 - i + n) \in 0..n - 1
OBVIOUS

LEMMA RoundsStep ==
    TypeOK /\ GroupKept /\ RoundsEven /\ [Next]_vars /\ TypeOK' /\ GroupKept' => RoundsEven'
<1> SUFFICES ASSUME TypeOK, GroupKept, RoundsEven, [Next]_vars, TypeOK', GroupKept'
             PROVE  RoundsEven'
  OBVIOUS
<1>1. ASSUME group' = group, index' = index, picks' = picks PROVE RoundsEven'
  BY <1>1 DEF RoundsEven, Ahead
<1>2. ASSUME NEW c \in Callers, Elsewhere(c) PROVE RoundsEven'
  BY <1>1, <1>2, ElsewhereKeeps
<1>3. ASSUME NEW c \in Callers, Pick(c) PROVE RoundsEven'
  <2>1. CASE group = <<>>
    BY <1>1, <1>3, <2>1 DEF Pick
  <2>2. CASE group # <<>>
    <3>1. PICK n \in Nat \ {0} : n = Len(group)
      BY <1>3, <2>2, PickTurns
    <3>2. PICK v \in VMs : v = group[index + 1]
      BY <1>3, <2>2, PickTurns
    <3>3. PICK round \in Nat, done \in Nat :
             /\ done < n
             /\ \A p \in 1..n : picks[group[p]] =
                                   IF Ahead(p) >= n - done THEN round + 1 ELSE round
      <4>1. PICK round \in Nat, done \in Nat :
               /\ done < Len(group) \/ done = 0
               /\ \A p \in 1..Len(group) :
                     picks[group[p]] =
                        IF Ahead(p) >= Len(group) - done THEN round + 1 ELSE round
        BY Zenon DEF RoundsEven
      <4>2. done < n
        BY <3>1, <4>1
      <4>3. QED
        BY <3>1, <4>1, <4>2
    <3>4. /\ group' = group /\ picks' = [picks EXCEPT ![v] = @ + 1]
          /\ index \in 0..n - 1
          /\ \A p \in 1..n :
                /\ Ahead(p) \in 0..n - 1
                /\ p = index + 1 => Ahead(p) = 0 /\ Ahead(p)' = n - 1
                /\ p # index + 1 => Ahead(p) > 0 /\ Ahead(p)' = Ahead(p) - 1
      BY <1>3, <2>2, <3>1, <3>2, PickTurns
    <3>5. ASSUME NEW p \in 1..n
          PROVE  picks'[group'[p]] =
                    IF Ahead(p)' >= n - (done + 1) THEN round + 1 ELSE round
      <4>1. group[p] \in VMs /\ picks \in [VMs -> Nat] /\ Ahead(p) \in Int
        BY <3>1, <3>4, ElementOfSeq DEF TypeOK
      <4>2. CASE p = index + 1
        <5>1. picks[v] = round
          BY <3>1, <3>2, <3>3, <3>4, <4>2
        <5>2. picks'[group'[p]] = round + 1
          BY <3>2, <3>4, <4>1, <4>2, <5>1
        <5>3. Ahead(p)' = n - 1
          BY <3>4, <4>2
        <5>4. QED
          BY <5>2, <5>3
      <4>3. CASE p # index + 1
        <5>1. index + 1 \in 1..n
          BY <3>4
        <5>2. group[p] # v
          BY <3>1, <3>2, <4>3, <5>1 DEF GroupKept
        <5>3. picks'[group'[p]] = picks[group[p]]
          BY <3>4, <4>1, <5>2
        <5>4. PICK a \in Int : a = Ahead(p)
          BY <4>1
        <5>5. Ahead(p)' = a - 1
          BY <3>4, <4>3, <5>4
        <5>6. a - 1 >= n - (done + 1) <=> a >= n - done
          OBVIOUS
        <5>7. QED
          BY <3>3, <5>3, <5>4, <5>5, <5>6
      <4>4. QED
        BY <4>2, <4>3
    <3>6. CASE done + 1 < n
      <4>1. done + 1 \in Nat /\ Len(group') = n
        BY <3>1, <3>4
      <4>2. QED
        BY <3>5, <3>6, <4>1 DEF RoundsEven
    <3>7. CASE done + 1 = n
      <4>1. ASSUME NEW p \in 1..n PROVE Ahead(p)' \in 0..n - 1
        <5>1. PICK a \in 0..n - 1 : a = Ahead(p)
          BY <3>4
        <5>2. QED
          BY <3>4, <5>1
      <4>2. ASSUME NEW p \in 1..n
            PROVE  picks'[group'[p]] = IF Ahead(p)' >= n - 0 THEN round + 1 + 1 ELSE round + 1
        <5>1. PICK a \in 0..n - 1 : a = Ahead(p)'
          BY <4>1
        <5>2. a >= n - (done + 1) /\ ~(a >= n - 0)
          BY <3>7
        <5>3. QED
          BY <3>5, <5>1, <5>2
      <4>3. round + 1 \in Nat /\ Len(group') = n
        BY <3>1, <3>4
      <4>4. QED
        BY <4>2, <4>3 DEF RoundsEven
    <3>8. QED
      BY <3>3, <3>6, <3>7
  <2>3. QED
    BY <2>1, <2>2
<1>4. ASSUME NEW v \in Volatile, Join(v) \/ Leave(v) PROVE RoundsEven'
  <2>1. picks' = [u \in VMs |-> 0]
    BY <1>4 DEF Join, Leave
  <2>2. /\ group' \in Seq(VMs) /\ index' \in Nat /\ Len(group') \in Nat
        /\ index' = 0 \/ index' < Len(group')
    BY LenProperties DEF TypeOK, GroupKept
  <2>3. PICK n \in Nat, i \in Nat : n = Len(group') /\ i = index'
    BY <2>2
  <2>4. ASSUME NEW p \in 1..n
        PROVE  picks'[group'[p]] = IF Ahead(p)' >= n - 0 THEN 0 + 1 ELSE 0
    <3>1. picks'[group'[p]] = 0
      BY <2>1, <2>2, <2>3, ElementOfSeq
    <3>2. PICK a \in 0..n - 1 : a = IF p > i THEN p - 1 - i ELSE p - 1 - i + n
      BY <2>2, <2>3, AheadRange
    <3>3. Ahead(p)' = a
      BY <2>3, <3>2 DEF Ahead
    <3>4. QED
      BY <3>1, <3>3
  <2>5. QED
    BY <2>3, <2>4 DEF RoundsEven
<1>5. ASSUME NEW v \in Volatile, Register(v) \/ Unregister(v) \/ Forget(v) PROVE RoundsEven'
  BY <1>1, <1>5 DEF Register, Unregister, Forget
<1>6. CASE Tick \/ UNCHANGED vars
  BY <1>1, <1>6 DEF Tick, vars
<1>7. QED
  BY <1>2, <1>3, <1>4, <1>5, <1>6 DEF Next, Step, Elsewhere
----------------------------------------------------------------------------
(* The calls.                                                              *)

(* The step of a call changes that call, and what it has tried.            *)
LEMMA OnlyMine ==
    ASSUME TypeOK, NEW c \in Callers, Elsewhere(c) \/ Pick(c), NEW d \in Callers, d # c
    PROVE  call'[d] = call[d] /\ tried'[d] = tried[d]
BY DEF Elsewhere, Start, GiveUp, Pick, Skip, Admit, Find, Succeed, Fail, TypeOK

LEMMA TurnsStep == TypeOK /\ GroupKept /\ TurnsKept /\ [Next]_vars => TurnsKept'
<1> SUFFICES ASSUME TypeOK, GroupKept, TurnsKept, [Next]_vars PROVE TurnsKept'
  OBVIOUS
<1> DEFINE Mine(d) ==
      /\ call[d].phase \in {"ask", "look", "run"} => call[d].target \in VMs /\ call[d].left > 0
      /\ call[d].phase \in {"look", "run"} => call[d].target \in tried[d]
<1>0. /\ \A d \in Callers : Mine(d)
      /\ call \in [Callers -> CallType] /\ tried \in [Callers -> SUBSET VMs]
  BY DEF TurnsKept, TypeOK, CallType
<1>1. ASSUME NEW c \in Callers, Elsewhere(c) \/ Pick(c), Mine(c)' PROVE TurnsKept'
  <2>1. ASSUME NEW d \in Callers, d # c PROVE Mine(d)'
    BY <1>0, <1>1, <2>1, OnlyMine
  <2>2. QED
    BY <1>1, <2>1 DEF TurnsKept
<1>2. ASSUME NEW c \in Callers, Start(c) PROVE Mine(c)'
  BY <1>0, <1>2 DEF Start, Idle
<1>3. ASSUME NEW c \in Callers, GiveUp(c) PROVE Mine(c)'
  BY <1>0, <1>3 DEF GiveUp, Idle, CallType, Results
<1>4. ASSUME NEW c \in Callers, Pick(c) PROVE Mine(c)'
  <2>1. CASE group = <<>>
    BY <1>0, <1>4, <2>1 DEF Pick, Idle
  <2>2. CASE group # <<>>
    <3>1. PICK v \in VMs : v = group[index + 1]
      BY <1>4, <2>2, PickTurns
    <3>2. call' = [call EXCEPT ![c].phase = "ask", ![c].target = v]
      BY <1>4, <2>2, <3>1, PickTurns
    <3>3. /\ call'[c].phase = "ask" /\ call'[c].target = v
          /\ call'[c].left = call[c].left
      BY <1>0, <3>2 DEF CallType
    <3>4. call[c].left > 0
      BY <1>4 DEF Pick
    <3>5. QED
      BY <3>3, <3>4
  <2>3. QED
    BY <2>1, <2>2
<1>5. ASSUME NEW c \in Callers, Skip(c) \/ Fail(c) PROVE Mine(c)'
  <2>1. PICK err \in Results : call' = [call EXCEPT ![c] = NextTurn(c, err)]
    BY <1>5 DEF Skip, Fail, Results
  <2>2. call[c].phase \in {"ask", "look", "run"}
    BY <1>5 DEF Skip, Fail
  <2>3. call'[c].phase = "pick"
    BY <1>0, <2>1, <2>2, NextTurnOK
  <2>4. QED
    BY <2>3
<1>6. ASSUME NEW c \in Callers, Admit(c) PROVE Mine(c)'
  BY <1>0, <1>6 DEF Admit, CallType
<1>7. ASSUME NEW c \in Callers, Find(c) PROVE Mine(c)'
  BY <1>0, <1>7 DEF Find, CallType
<1>8. ASSUME NEW c \in Callers, Succeed(c) PROVE Mine(c)'
  BY <1>0, <1>8 DEF Succeed, Idle
<1>9. ASSUME call' = call, tried' = tried PROVE TurnsKept'
  BY <1>9 DEF TurnsKept
<1>10. ASSUME NEW v \in Volatile, Join(v) \/ Register(v) \/ Unregister(v) \/ Leave(v) \/ Forget(v)
       PROVE  TurnsKept'
  BY <1>9, <1>10 DEF Join, Register, Unregister, Leave, Forget, calls
<1>11. CASE Tick \/ UNCHANGED vars
  BY <1>9, <1>11 DEF Tick, vars, calls
<1>12. QED
  BY <1>1, <1>2, <1>3, <1>4, <1>5, <1>6, <1>7, <1>8, <1>10, <1>11 DEF Next, Step, Elsewhere

(* What a step leaves of the history of a call.                            *)
LEMMA HistoryStep ==
    ASSUME TypeOK, NEW c \in Callers, NEW starts, c \notin starts, KeepHistory(starts)
    PROVE  /\ call[c].phase \in Active =>
                 /\ \A v \in steady'[c] : v \in steady[c] /\ v \in VMs
                 /\ \A v \in steady'[c] : Closed(v)'
           /\ call[c].phase \notin Active => steady'[c] = steady[c]
           /\ alone'[c] => /\ alone[c]
                           /\ group' = group
                           /\ picks' # picks => call'[c] # call[c]
<1>1. steady'[c] = StillSteady(c, starts) /\ (alone'[c] <=> StillAlone(c))
  BY DEF KeepHistory, TypeOK, StillAlone
<1>2. steady[c] \in SUBSET VMs
  BY DEF TypeOK
<1>3. QED
  BY <1>1, <1>2 DEF StillSteady, StillAlone

(* What others do does no harm: who shares the index is not alone.         *)
LEMMA Undisturbed ==
    ASSUME TypeOK, NEW c \in Callers, Covers(c), Told(c),
           NEW starts, c \notin starts, KeepHistory(starts),
           call'[c] = call[c], tried'[c] = tried[c],
           group' = group /\ picks' = picks => index' = index
    PROVE  Covers(c)' /\ Told(c)'
<1>1. alone'[c] => alone[c] /\ group' = group /\ index' = index
  BY HistoryStep
<1>2. Left(c)' = Left(c)
  BY DEF Left
<1>3. CASE call[c].phase \in Active
  <2>1. \A v \in steady'[c] : v \in steady[c] /\ Closed(v)'
    BY <1>3, HistoryStep
  <2>2. ASSUME alone'[c]
        PROVE  /\ group' # <<>>
               /\ \A p \in 1..Len(group') :
                     (Ahead(p)' >= Left(c)' /\ group'[p] \in steady'[c]) =>
                         \/ group'[p] \in tried'[c]
                         \/ call'[c].phase = "ask" /\ call'[c].target = group'[p]
    <3>1. group' = group /\ index' = index /\ group # <<>>
      BY <1>1, <1>3, <2>2 DEF Covers
    <3>2. \A p : Ahead(p)' = Ahead(p)
      BY <3>1 DEF Ahead
    <3>3. QED
      BY <1>1, <1>2, <1>3, <2>1, <2>2, <3>1, <3>2 DEF Covers
  <2>3. Covers(c)'
    BY <2>1, <2>2 DEF Covers
  <2>4. Told(c)'
    BY <1>3 DEF Told, Active
  <2>5. QED
    BY <2>3, <2>4
<1>4. CASE call[c].phase \notin Active
  BY <1>1, <1>4, HistoryStep DEF Covers, Told
<1>5. QED
  BY <1>3, <1>4

(* A member that is up and closed is in the group.                         *)
LEMMA ClosedIsMember ==
    ASSUME GroupKept, NEW v \in VMs, Closed(v)
    PROVE  \E p \in 1..Len(group) : group[p] = v
BY DEF GroupKept, Closed

LEMMA MyStep ==
    ASSUME TypeOK, GroupKept, TurnsKept, TypeOK', GroupKept',
           NEW c \in Callers, Covers(c), Told(c), Elsewhere(c) \/ Pick(c)
    PROVE  Covers(c)' /\ Told(c)'
<1>0. /\ call \in [Callers -> CallType] /\ circuits \in [VMs -> Circuit]
      /\ tried \in [Callers -> SUBSET VMs]
      /\ clock \in Nat /\ group \in Seq(VMs)
  BY DEF TypeOK, CallType
<1>1. CASE Start(c)
  <2>1. /\ steady'[c] = {v \in VMs : Closed(v)'} /\ tried'[c] = {}
        /\ group' = group
    BY <1>0, <1>1 DEF Start, KeepHistory, StillSteady
  <2>2. CASE group = <<>>
    <3>1. call'[c] = Idle("noVMs")
      BY <1>0, <1>1, <2>2 DEF Start
    <3>2. ASSUME NEW v \in VMs, Closed(v)' PROVE FALSE
      <4>1. \E p \in 1..Len(group') : group'[p] = v
        BY <3>2 DEF GroupKept, Closed
      <4>2. QED
        BY <2>1, <2>2, <4>1
    <3>3. QED
      BY <2>1, <3>1, <3>2 DEF Covers, Told, Idle, Active
  <2>3. CASE group # <<>>
    <3>1. call'[c].phase = "pick" /\ call'[c].left = Len(group)
      BY <1>0, <1>1, <2>3 DEF Start
    <3>2. PICK n \in Nat, i \in Nat : n = Len(group') /\ i = index' /\ (i = 0 \/ i < n)
      BY LenProperties DEF TypeOK, GroupKept
    <3>3. ASSUME NEW p \in 1..n PROVE ~(Ahead(p)' >= n)
      <4>1. PICK a \in 0..n - 1 : a = IF p > i THEN p - 1 - i ELSE p - 1 - i + n
        BY <3>2, AheadRange
      <4>2. Ahead(p)' = a
        BY <3>2, <4>1 DEF Ahead
      <4>3. QED
        BY <4>2
    <3>4. Left(c)' = n
      BY <2>1, <3>1, <3>2 DEF Left
    <3>5. \A v \in steady'[c] : Closed(v)'
      BY <2>1
    <3>6. Covers(c)'
      BY <2>1, <2>3, <3>2, <3>3, <3>4, <3>5 DEF Covers
    <3>7. QED
      BY <3>1, <3>6 DEF Told
  <2>4. QED
    BY <2>2, <2>3
<1>2. CASE GiveUp(c)
  <2>1. /\ call[c].phase = "pick" /\ call[c].left = 0 /\ tried'[c] = tried[c]
        /\ call'[c].phase = call[c].lastErr /\ call[c].lastErr \in Results
    BY <1>0, <1>2 DEF GiveUp, Idle, CallType
  <2>2. /\ \A v \in steady'[c] : v \in steady[c] /\ v \in VMs
        /\ alone'[c] => alone[c]
    BY <1>2, <2>1, HistoryStep DEF GiveUp, Active
  <2>3. ASSUME alone'[c], NEW v \in steady'[c] PROVE v \in tried[c]
    <3>1. Closed(v) /\ v \in steady[c] /\ v \in VMs /\ alone[c]
      BY <2>1, <2>2, <2>3 DEF Covers, Active
    <3>2. PICK p \in 1..Len(group) : group[p] = v
      BY <3>1, ClosedIsMember
    <3>3. Ahead(p) >= 0
      <4>1. PICK n \in Nat, i \in Nat : n = Len(group) /\ i = index /\ (i = 0 \/ i < n)
        BY LenProperties DEF TypeOK, GroupKept
      <4>2. (IF p > i THEN p - 1 - i ELSE p - 1 - i + n) \in 0..n - 1
        BY <4>1, AheadRange
      <4>3. QED
        BY <4>1, <4>2 DEF Ahead
    <3>4. Left(c) = 0
      BY <2>1 DEF Left
    <3>5. QED
      BY <2>1, <3>1, <3>2, <3>3, <3>4 DEF Covers, Active
  <2>4. QED
    BY <2>1, <2>3 DEF Covers, Told, Active, Results
<1>3. CASE Pick(c)
  <2>1. call[c].phase = "pick" /\ tried' = tried
    BY <1>3 DEF Pick
  <2>2. /\ \A v \in steady'[c] : v \in steady[c] /\ Closed(v)'
        /\ alone'[c] => alone[c]
    BY <1>3, <2>1, HistoryStep DEF Pick, Active
  <2>3. CASE group = <<>>
    <3>1. call'[c].phase = "noVMs"
      BY <1>0, <1>3, <2>3 DEF Pick, Idle
    <3>2. ~alone'[c]
      BY <2>1, <2>2, <2>3 DEF Covers, Active
    <3>3. QED
      BY <3>1, <3>2 DEF Covers, Told, Active
  <2>4. CASE group # <<>>
    <3>1. PICK v \in VMs : v = group[index + 1]
      BY <1>3, <2>4, PickTurns
    <3>2. call' = [call EXCEPT ![c].phase = "ask", ![c].target = v]
      BY <1>3, <2>4, <3>1, PickTurns
    <3>3. /\ call'[c].phase = "ask" /\ call'[c].target = v
          /\ call'[c].left = call[c].left /\ call[c].left \in Nat
      BY <1>0, <3>2 DEF CallType
    <3>4. Left(c)' = Left(c) - 1 /\ Left(c) \in Nat
      BY <2>1, <3>3 DEF Left
    <3>5. ASSUME alone'[c], NEW p \in 1..Len(group'),
                 Ahead(p)' >= Left(c)', group'[p] \in steady'[c]
          PROVE  group'[p] \in tried'[c] \/ call'[c].target = group'[p]
      <4>1. /\ group' = group
            /\ Ahead(p) \in 0..Len(group) - 1
            /\ p # index + 1 => Ahead(p)' = Ahead(p) - 1
        BY <1>3, <2>4, <3>5, PickTurns
      <4>2. CASE p = index + 1
        BY <3>1, <3>3, <4>1, <4>2
      <4>3. CASE p # index + 1
        <5>1. Ahead(p) >= Left(c)
          <6>1. PICK a \in Int, l \in Int : a = Ahead(p) /\ l = Left(c)
            BY <3>4, <4>1
          <6>2. a - 1 >= l - 1
            BY <3>4, <3>5, <4>1, <4>3, <6>1
          <6>3. a >= l
            BY <6>2
          <6>4. QED
            BY <6>1, <6>3
        <5>2. QED
          BY <2>1, <2>2, <3>5, <4>1, <5>1 DEF Covers, Active
      <4>4. QED
        BY <4>2, <4>3
    <3>6. group' = group
      BY <1>3 DEF Pick
    <3>7. Covers(c)'
      BY <2>2, <2>4, <3>3, <3>5, <3>6 DEF Covers
    <3>8. QED
      BY <3>3, <3>7 DEF Told
  <2>5. QED
    BY <2>3, <2>4
<1>4. ASSUME call[c].phase \in {"ask", "look", "run"}, call'[c].phase \in Active,
             Left(c)' = Left(c), group' = group, index' = index,
             KeepHistory({}), tried[c] \subseteq tried'[c],
             call[c].phase = "ask" => /\ call'[c].phase # "ask"
                                      /\ \/ call[c].target \in tried'[c]
                                         \/ call[c].target \notin steady'[c]
      PROVE  Covers(c)' /\ Told(c)'
  <2>1. /\ \A v \in steady'[c] : v \in steady[c] /\ Closed(v)'
        /\ alone'[c] => alone[c]
    BY <1>4, HistoryStep DEF Active
  <2>2. \A p : Ahead(p)' = Ahead(p)
    BY <1>4 DEF Ahead
  <2>3. call[c].phase \in Active
    BY <1>4 DEF Active
  <2>4. ASSUME alone'[c], NEW p \in 1..Len(group'),
               Ahead(p)' >= Left(c)', group'[p] \in steady'[c]
        PROVE  \/ group'[p] \in tried'[c]
               \/ call'[c].phase = "ask" /\ call'[c].target = group'[p]
    <3>1. Ahead(p) >= Left(c) /\ group[p] \in steady'[c]
      BY <1>4, <2>2, <2>4
    <3>2. group[p] \in tried[c] \/ (call[c].phase = "ask" /\ call[c].target = group[p])
      BY <1>4, <2>1, <2>3, <2>4, <3>1 DEF Covers
    <3>3. group[p] \in tried'[c]
      <4>1. CASE group[p] \in tried[c]
        BY <1>4, <4>1
      <4>2. CASE call[c].phase = "ask" /\ call[c].target = group[p]
        BY <1>4, <3>1, <4>2
      <4>3. QED
        BY <3>2, <4>1, <4>2
    <3>4. QED
      BY <1>4, <3>3
  <2>5. alone'[c] => group' # <<>>
    BY <1>4, <2>1, <2>3 DEF Covers
  <2>6. Covers(c)'
    BY <2>1, <2>4, <2>5 DEF Covers
  <2>7. Told(c)'
    BY <1>4 DEF Told, Active
  <2>8. QED
    BY <2>6, <2>7
<1>5. CASE Skip(c)
  <2>1. PICK v \in VMs : v = call[c].target
    BY <1>5 DEF Skip, TurnsKept
  <2>2. /\ call[c].phase = "ask" /\ tried' = tried
        /\ call'[c].phase = "pick" /\ call'[c].left = call[c].left - 1
    <3>1. call[c].phase = "ask" /\ call'[c] = NextTurn(c, "CircuitOpen") /\ tried' = tried
      BY <1>0, <1>5 DEF Skip, calls
    <3>2. QED
      BY <3>1, NextTurnOK DEF Results
  <2>3. Left(c)' = Left(c)
    BY <2>2 DEF Left
  <2>4. circuits'[v].state # "closed"
    <3>1. circuits'[v] = Refused(circuits[v]) /\ Refuses(circuits[v], clock)
      BY <1>0, <1>5, <2>1 DEF Skip
    <3>2. QED
      BY <1>0, <3>1, CircuitsOK DEF Refuses
  <2>5. v \notin steady'[c]
    BY <1>5, <2>2, <2>4, HistoryStep DEF Skip, Active, Closed
  <2>6. group' = group /\ index' = index /\ KeepHistory({})
    BY <1>5 DEF Skip
  <2>7. QED
    BY <1>4, <2>1, <2>2, <2>3, <2>5, <2>6 DEF Active
<1>6. CASE Admit(c)
  <2>1. /\ call[c].phase = "ask" /\ tried'[c] = tried[c] \cup {call[c].target}
        /\ call'[c].phase = "look" /\ call'[c].left = call[c].left
        /\ group' = group /\ index' = index /\ KeepHistory({})
    BY <1>0, <1>6 DEF Admit, CallType
  <2>2. Left(c)' = Left(c)
    BY <2>1 DEF Left
  <2>3. QED
    BY <1>4, <2>1, <2>2 DEF Active
<1>7. CASE Find(c)
  <2>1. /\ call[c].phase = "look" /\ tried'[c] = tried[c]
        /\ call'[c].phase = "run" /\ call'[c].left = call[c].left
        /\ group' = group /\ index' = index /\ KeepHistory({})
    BY <1>0, <1>7 DEF Find, CallType
  <2>2. Left(c)' = Left(c)
    BY <2>1 DEF Left
  <2>3. QED
    BY <1>4, <2>1, <2>2 DEF Active
<1>8. CASE Succeed(c)
  <2>1. call'[c].phase = "ok"
    BY <1>0, <1>8 DEF Succeed, Idle
  <2>2. QED
    BY <2>1 DEF Covers, Told, Active
<1>9. CASE Fail(c)
  <2>1. /\ call[c].phase \in {"look", "run"} /\ tried' = tried
        /\ call'[c].phase = "pick" /\ call'[c].left = call[c].left - 1
    <3>1. /\ call[c].phase \in {"look", "run"} /\ tried' = tried
          /\ call'[c] = NextTurn(c, "failed")
      BY <1>0, <1>9 DEF Fail, calls
    <3>2. QED
      BY <3>1, NextTurnOK DEF Results
  <2>2. Left(c)' = Left(c)
    BY <2>1 DEF Left
  <2>3. group' = group /\ index' = index /\ KeepHistory({})
    BY <1>9 DEF Fail
  <2>4. QED
    BY <1>4, <2>1, <2>2, <2>3 DEF Active
<1>10. QED
  BY <1>1, <1>2, <1>3, <1>5, <1>6, <1>7, <1>8, <1>9 DEF Elsewhere

LEMMA CallsStep ==
    ASSUME TypeOK, GroupKept, TurnsKept, CallsCover, [Next]_vars, TypeOK', GroupKept'
    PROVE  CallsCover'
<1>0. \A d \in Callers : Covers(d) /\ Told(d)
  BY DEF CallsCover
<1>1. ASSUME NEW c \in Callers, Elsewhere(c) \/ Pick(c) PROVE CallsCover'
  <2>1. Covers(c)' /\ Told(c)'
    BY <1>0, <1>1, MyStep
  <2>2. PICK starts \in {{c}, {}} : KeepHistory(starts)
    BY <1>1 DEF Elsewhere, Start, GiveUp, Pick, Skip, Admit, Find, Succeed, Fail
  <2>3. group' = group /\ picks' = picks => index' = index
    <3>1. CASE Elsewhere(c)
      BY <3>1, ElsewhereKeeps
    <3>2. CASE Pick(c) /\ group = <<>>
      BY <3>2 DEF Pick
    <3>3. CASE Pick(c) /\ group # <<>>
      <4>1. PICK v \in VMs : picks' = [picks EXCEPT ![v] = @ + 1]
        BY <3>3, PickTurns
      <4>2. picks'[v] = picks[v] + 1 /\ picks[v] \in Nat
        BY <4>1 DEF TypeOK
      <4>3. QED
        BY <4>2
    <3>4. QED
      BY <1>1, <3>1, <3>2, <3>3
  <2>4. ASSUME NEW d \in Callers, d # c PROVE Covers(d)' /\ Told(d)'
    <3>1. call'[d] = call[d] /\ tried'[d] = tried[d]
      BY <1>1, <2>4, OnlyMine
    <3>2. d \notin starts
      BY <2>2, <2>4
    <3>3. QED
      BY <1>0, <2>2, <2>3, <3>1, <3>2, Undisturbed
  <2>5. QED
    BY <2>1, <2>4 DEF CallsCover
<1>2. ASSUME KeepHistory({}), call' = call, tried' = tried,
             group' = group /\ picks' = picks => index' = index
      PROVE  CallsCover'
  <2>1. ASSUME NEW d \in Callers PROVE Covers(d)' /\ Told(d)'
    BY <1>0, <1>2, Undisturbed
  <2>2. QED
    BY <2>1 DEF CallsCover
<1>3. ASSUME NEW v \in Volatile, Leave(v) PROVE CallsCover'
  <2>1. PICK d \in 1..Len(group) : group' = RemoveAt(group, d)
    BY <1>3 DEF Leave
  <2>2. group \in Seq(VMs) /\ Len(group) \in Nat
    BY LenProperties DEF TypeOK
  <2>3. Len(group') = Len(group) - 1
    BY <2>1, <2>2, RemoveAtProperties
  <2>4. group' # group
    BY <2>2, <2>3
  <2>5. QED
    BY <1>2, <1>3, <2>4 DEF Leave, calls
<1>4. ASSUME NEW v \in Volatile, Join(v) \/ Register(v) \/ Unregister(v) \/ Forget(v)
      PROVE  CallsCover'
  BY <1>2, <1>4 DEF Join, Register, Unregister, Forget, calls
<1>5. CASE Tick
  BY <1>2, <1>5 DEF Tick, calls
<1>6. CASE UNCHANGED vars
  <2>1. \A d \in Callers : Covers(d)' /\ Told(d)'
    BY <1>0, <1>6 DEF vars, calls, Covers, Told, Left, Ahead, Closed
  <2>2. QED
    BY <2>1 DEF CallsCover
<1>7. QED
  BY <1>1, <1>3, <1>4, <1>5, <1>6 DEF Next, Step, Elsewhere
----------------------------------------------------------------------------
LEMMA InitIInv == Init => IInv
<1> SUFFICES ASSUME Init PROVE IInv
  OBVIOUS
<1>1. PICK up \in SUBSET Members :
         /\ group \in SetToSeqs(up)
         /\ life = [v \in VMs |-> IF v \in up THEN "up" ELSE "absent"]
  BY DEF Init
<1>2. up \subseteq VMs /\ IsFiniteSet(up) /\ Cardinality(up) \in Nat
  BY MembersAssumption, FS_Subset, FS_CardinalityType
<1>3. PICK n \in Nat : n = Cardinality(up)
  BY <1>2
<1>4. /\ group \in [1..n -> up]
      /\ \A i, j \in 1..n : i # j => group[i] # group[j]
  BY <1>1, <1>3 DEF SetToSeqs
<1>5. group \in Seq(VMs) /\ Len(group) = n
  <2>1. group \in [1..n -> VMs]
    BY <1>2, <1>4
  <2>2. group \in Seq(VMs)
    BY <2>1
  <2>3. QED
    BY <1>4, <2>2, LenProperties
<1>6. \A v \in up : \E i \in 1..n : group[i] = v
  <2>1. group \in Injection(1..n, up)
    BY <1>4 DEF Injection, IsInjective
  <2>2. Cardinality(1..n) = Cardinality(up)
    BY <1>3, FS_Interval
  <2>3. group \in Surjection(1..n, up)
    BY <1>2, <2>1, <2>2, FS_Injection
  <2>4. QED
    BY <2>3 DEF Surjection
<1>7. TypeOK
  <2>1. life \in [VMs -> {"absent", "joined", "up", "unregistered", "left"}]
    BY <1>1
  <2>2. call \in [Callers -> CallType]
    BY DEF Init, CallType, Idle, Results
  <2>3. circuits \in [VMs -> Circuit]
    <3>1. Fresh \in Circuit
      BY EmptySeq DEF Fresh, Circuit
    <3>2. QED
      BY <3>1 DEF Init
  <2>4. /\ index \in Nat /\ clock \in Nat /\ begun \in Nat
        /\ tried \in [Callers -> SUBSET VMs] /\ steady \in [Callers -> SUBSET VMs]
        /\ alone \in [Callers -> BOOLEAN] /\ picks \in [VMs -> Nat]
    BY DEF Init
  <2>5. QED
    BY <1>5, <2>1, <2>2, <2>3, <2>4 DEF TypeOK, CallType
<1>8. GroupKept
  <2>1. index = 0
    BY DEF Init
  <2>2. ASSUME NEW v \in VMs
        PROVE  life[v] \in {"joined", "up", "unregistered"} <=> \E i \in 1..n : group[i] = v
    <3>1. life[v] = IF v \in up THEN "up" ELSE "absent"
      BY <1>1
    <3>2. QED
      BY <1>4, <1>6, <3>1
  <2>3. QED
    BY <1>4, <1>5, <2>1, <2>2 DEF GroupKept
<1>9. RoundsEven
  <2>1. index = 0 /\ picks = [v \in VMs |-> 0]
    BY DEF Init
  <2>2. ASSUME NEW p \in 1..n
        PROVE  picks[group[p]] = IF Ahead(p) >= n - 0 THEN 0 + 1 ELSE 0
    <3>1. picks[group[p]] = 0
      BY <1>2, <1>4, <2>1
    <3>2. Ahead(p) = p - 1
      BY <2>1 DEF Ahead
    <3>3. QED
      BY <3>1, <3>2
  <2>3. QED
    BY <1>5, <2>2 DEF RoundsEven
<1>10. TurnsKept /\ CallsCover
  BY DEF Init, TurnsKept, CallsCover, Covers, Told, Idle, Active
<1>11. QED
  BY <1>7, <1>8, <1>9, <1>10 DEF IInv

LEMMA NextIInv == IInv /\ [Next]_vars => IInv'
BY TypeStep, GroupStep, RoundsStep, TurnsStep, CallsStep DEF IInv

LEMMA IInvAlways == Spec => []IInv
BY InitIInv, NextIInv, PTL DEF Spec

(* The group, the calls and the circuits of any number of VMs stay what    *)
(* the code declares them to be.                                           *)
THEOREM TypeCorrect == Spec => []TypeOK
<1>1. IInv => TypeOK
  BY DEF IInv
<1>2. QED
  BY IInvAlways, <1>1, PTL

(* getNextVMInGroup: between two changes of a group no member is picked    *)
(* twice as often as another, whoever calls, and the index stays inside.   *)
THEOREM RoundsAreFair == Spec => []RoundRobin
<1>1. IInv => RoundRobin
  <2>1. SUFFICES ASSUME IInv, NEW u \in ToSet(group), NEW v \in ToSet(group)
                 PROVE  picks[u] <= picks[v] + 1
    BY DEF RoundRobin, IInv, GroupKept
  <2>2. group \in Seq(VMs)
    BY <2>1 DEF IInv, TypeOK
  <2>3. PICK p \in 1..Len(group), q \in 1..Len(group) : group[p] = u /\ group[q] = v
    BY <2>1, <2>2, LenProperties DEF ToSet
  <2>4. PICK round \in Nat :
           \A i \in 1..Len(group) : picks[group[i]] \in {round, round + 1}
    BY <2>1 DEF IInv, RoundsEven
  <2>5. picks[u] \in {round, round + 1} /\ picks[v] \in {round, round + 1}
    BY <2>3, <2>4
  <2>6. QED
    BY <2>5
<1>2. QED
  BY IInvAlways, <1>1, PTL

(* RPCCallGroupFrom: a call that had the group for itself and fails has    *)
(* been executed on every member that stayed up with a closed circuit.     *)
THEOREM HealthyAreTried == Spec => []HealthyTried
<1>1. IInv => HealthyTried
  BY DEF IInv, CallsCover, Told, HealthyTried
<1>2. QED
  BY IInvAlways, <1>1, PTL
=============================================================================
