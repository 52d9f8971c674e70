-------------------------- MODULE RpcCircuitProofs --------------------------
(***************************************************************************)
(* Proofs about RpcCircuit for every threshold, window, timeout and set of *)
(* callers: late outcomes of older calls cannot strand a half-open         *)
(* circuit, each half-open period risks one call, and a circuit opens when *)
(* and only when enough calls in a row have failed within the window.      *)
(***************************************************************************)
EXTENDS RpcCircuit, SequenceTheorems, TLAPS

(* What pruning keeps: all but some leading failures, which are older than *)
(* the window; the first that is kept is within it.                        *)
LEMMA PrunedProperties ==
    ASSUME NEW fs \in Seq(Nat), NEW now \in Nat, NEW kept \in Pruned(fs, now)
    PROVE  \E idx \in 0..Len(fs) :
              /\ kept \in Seq(Nat)
              /\ Len(kept) = Len(fs) - idx
              /\ \A i \in 1..Len(kept) : kept[i] = fs[idx + i]
              /\ \A i \in 1..idx : fs[i] < now - Window
              /\ Len(kept) > 0 => kept[1] >= now - Window
<1>1. PICK idx \in Leading(fs, now) : kept = SubSeq(fs, idx + 1, Len(fs))
  BY DEF Pruned
<1>2. /\ idx \in 0..Len(fs) /\ Len(fs) \in Nat
      /\ \A i \in 1..idx : fs[i] < now - Window
      /\ idx < Len(fs) => fs[idx + 1] >= now - Window
  BY <1>1, LenProperties DEF Leading
<1>3. \A i \in idx + 1..Len(fs) : fs[i] \in Nat
  BY <1>2, ElementOfSeq
<1>4. /\ kept \in Seq(Nat)
      /\ Len(kept) = IF idx + 1 <= Len(fs) THEN Len(fs) - (idx + 1) + 1 ELSE 0
      /\ \A i \in 1..Len(fs) - (idx + 1) + 1 : kept[i] = fs[idx + 1 + i - 1]
  BY <1>1, <1>2, <1>3, SubSeqProperties
<1>5. Len(kept) = Len(fs) - idx
  BY <1>2, <1>4
<1>6. ASSUME NEW i \in 1..Len(kept) PROVE kept[i] = fs[idx + i]
  <2>1. i \in 1..Len(fs) - (idx + 1) + 1
    BY <1>2, <1>5
  <2>2. idx + 1 + i - 1 = idx + i
    BY <1>2
  <2>3. QED
    BY <1>4, <2>1, <2>2
<1>7. Len(kept) > 0 => kept[1] >= now - Window
  BY <1>2, <1>5, <1>6
<1>8. QED
  BY <1>2, <1>4, <1>5, <1>6, <1>7

(* A failure is appended to what was kept.                                 *)
LEMMA AppendedFailure ==
    ASSUME NEW fs \in Seq(Nat), NEW t \in Nat
    PROVE  /\ Append(fs, t) \in Seq(Nat)
           /\ Len(fs) \in Nat
           /\ Len(Append(fs, t)) = Len(fs) + 1
           /\ \A i \in 1..Len(fs) : Append(fs, t)[i] = fs[i]
           /\ Append(fs, t)[Len(fs) + 1] = t
  BY AppendProperties, LenProperties

(* The fields of a circuit after each operation.                           *)
LEMMA RefusedFields ==
    ASSUME NEW c \in Circuit
    PROVE  /\ Refused(c) \in Circuit
           /\ Refused(c).state = c.state
           /\ Refused(c).failures = c.failures
           /\ Refused(c).inFlight = c.inFlight
           /\ Refused(c).toOpen = c.toOpen
           /\ Refused(c).toHalf = c.toHalf
           /\ Refused(c).toClosed = c.toClosed
  BY DEF Circuit, Refused

LEMMA AdmittedFields ==
    ASSUME NEW c \in Circuit
    PROVE  /\ Admitted(c) \in Circuit
           /\ Admitted(c).state = IF c.state = "closed" THEN "closed" ELSE "half_open"
           /\ Admitted(c).failures = c.failures
           /\ Admitted(c).inFlight = IF c.state = "closed" THEN c.inFlight ELSE TRUE
           /\ Admitted(c).fastFails = c.fastFails
           /\ Admitted(c).toOpen = c.toOpen
           /\ Admitted(c).toHalf = IF c.state = "open" THEN c.toHalf + 1 ELSE c.toHalf
           /\ Admitted(c).toClosed = c.toClosed
<1>1. CASE c.state = "closed"
  BY <1>1 DEF Circuit, Admitted
<1>2. CASE c.state = "open"
  <2>1. Admitted(c) = [c EXCEPT !.state = "half_open", !.toHalf = c.toHalf + 1, !.inFlight = TRUE]
    BY <1>2 DEF Circuit, Admitted
  <2>2. PICK n \in Nat : n = c.toHalf + 1
    BY DEF Circuit
  <2>3. Admitted(c) = [c EXCEPT !.state = "half_open", !.toHalf = n, !.inFlight = TRUE]
    BY <2>1, <2>2
  <2>4. QED
    BY <1>2, <2>2, <2>3 DEF Circuit
<1>3. CASE c.state = "half_open"
  <2>1. Admitted(c) = [c EXCEPT !.state = "half_open", !.toHalf = c.toHalf, !.inFlight = TRUE]
    BY <1>3 DEF Circuit, Admitted
  <2>2. QED
    BY <1>3, <2>1 DEF Circuit
<1>4. QED
  BY <1>1, <1>2, <1>3 DEF Circuit

LEMMA SucceededFields ==
    ASSUME NEW c \in Circuit
    PROVE  /\ Succeeded(c) \in Circuit
           /\ Succeeded(c).state = IF c.state = "half_open" THEN "closed" ELSE c.state
           /\ Succeeded(c).failures = <<>>
           /\ Succeeded(c).inFlight = IF c.state = "half_open" THEN FALSE ELSE c.inFlight
           /\ Succeeded(c).fastFails = c.fastFails
           /\ Succeeded(c).toOpen = c.toOpen
           /\ Succeeded(c).toHalf = c.toHalf
           /\ Succeeded(c).toClosed =
                 IF c.state = "half_open" THEN c.toClosed + 1 ELSE c.toClosed
<1>0. <<>> \in Seq(Nat)
  OBVIOUS
<1>1. CASE c.state = "half_open"
  <2>1. Succeeded(c) = [c EXCEPT !.failures = <<>>, !.inFlight = FALSE,
                                 !.state = "closed", !.toClosed = c.toClosed + 1]
    BY <1>1 DEF Succeeded
  <2>2. PICK n \in Nat : n = c.toClosed + 1
    BY DEF Circuit
  <2>3. Succeeded(c) = [c EXCEPT !.failures = <<>>, !.inFlight = FALSE,
                                 !.state = "closed", !.toClosed = n]
    BY <2>1, <2>2
  <2>4. QED
    BY <1>0, <1>1, <2>2, <2>3 DEF Circuit
<1>2. CASE c.state # "half_open"
  <2>1. Succeeded(c) = [c EXCEPT !.failures = <<>>]
    BY <1>2 DEF Succeeded
  <2>2. QED
    BY <1>0, <1>2, <2>1 DEF Circuit
<1>3. QED
  BY <1>1, <1>2

Opens(c, kept) == c.state = "half_open" \/ Len(kept) + 1 >= Threshold

LEMMA FailedFields ==
    ASSUME NEW c \in Circuit, NEW kept \in Seq(Nat), NEW now \in Nat
    PROVE  /\ Failed(c, kept, now) \in Circuit
           /\ Failed(c, kept, now).state = IF Opens(c, kept) THEN "open" ELSE c.state
           /\ Failed(c, kept, now).failures = Append(kept, now)
           /\ Failed(c, kept, now).inFlight = IF Opens(c, kept) THEN FALSE ELSE c.inFlight
           /\ Failed(c, kept, now).fastFails = c.fastFails
           /\ Failed(c, kept, now).toOpen =
                 IF Opens(c, kept) /\ c.state # "open" THEN c.toOpen + 1 ELSE c.toOpen
           /\ Failed(c, kept, now).toHalf = c.toHalf
           /\ Failed(c, kept, now).toClosed = c.toClosed
<1>1. Append(kept, now) \in Seq(Nat) /\ Len(Append(kept, now)) = Len(kept) + 1
  BY AppendedFailure
<1>2. CASE Opens(c, kept)
  <2>1. Failed(c, kept, now) = Opened(c, Append(kept, now), now)
    BY <1>1, <1>2 DEF Failed, Opens
  <2>2. CASE c.state = "open"
    <3>1. Failed(c, kept, now) =
             [c EXCEPT !.failures = Append(kept, now), !.state = "open", !.openedAt = now,
                       !.inFlight = FALSE, !.toOpen = c.toOpen]
      BY <2>1, <2>2 DEF Opened
    <3>2. QED
      BY <1>1, <1>2, <2>2, <3>1 DEF Circuit
  <2>3. CASE c.state # "open"
    <3>1. Failed(c, kept, now) =
             [c EXCEPT !.failures = Append(kept, now), !.state = "open", !.openedAt = now,
                       !.inFlight = FALSE, !.toOpen = c.toOpen + 1]
      BY <2>1, <2>3 DEF Opened
    <3>2. PICK n \in Nat : n = c.toOpen + 1
      BY DEF Circuit
    <3>3. Failed(c, kept, now) =
             [c EXCEPT !.failures = Append(kept, now), !.state = "open", !.openedAt = now,
                       !.inFlight = FALSE, !.toOpen = n]
      BY <3>1, <3>2
    <3>4. QED
      BY <1>1, <1>2, <2>3, <3>2, <3>3 DEF Circuit
  <2>4. QED
    BY <2>2, <2>3
<1>3. CASE ~Opens(c, kept)
  <2>1. Failed(c, kept, now) = [c EXCEPT !.failures = Append(kept, now)]
    BY <1>1, <1>3 DEF Failed, Opens
  <2>2. QED
    BY <1>1, <1>3, <2>1 DEF Circuit
<1>4. QED
  BY <1>2, <1>3

----------------------------------------------------------------------------

(* No running call belongs to a half-open period that is still to come.    *)
EpisodesPast == \A c \in Callers : call[c] # None => call[c].episode <= episode

(* A closed circuit remembers fewer than Threshold failures.               *)
BelowThreshold == circuit.state = "closed" => Len(circuit.failures) < Threshold

(* The failures a circuit remembers are the latest since the last success; *)
(* those that it forgot are older than the window.                         *)
RemembersLatest ==
    \E k \in 0..Len(streak) :
        /\ Len(circuit.failures) = Len(streak) - k
        /\ \A i \in 1..Len(circuit.failures) : circuit.failures[i] = streak[k + i]
        /\ \A i \in 1..k : streak[i] < clock - Window

IInv ==
    /\ TypeOK
    /\ HalfOpenHasProbe
    /\ SingleProbe
    /\ EpisodesPast
    /\ StatsConsistent
    /\ BelowThreshold
    /\ RemembersLatest

(* A target that was never called satisfies the invariant.                 *)
LEMMA InitIInv == Init => IInv
<1> SUFFICES ASSUME Init PROVE IInv
  OBVIOUS
<1>1. TypeOK
  BY DEF Init, TypeOK, Fresh, Circuit
<1>2. HalfOpenHasProbe /\ SingleProbe /\ EpisodesPast /\ StatsConsistent
  BY DEF Init, Fresh, HalfOpenHasProbe, SingleProbe, EpisodesPast, StatsConsistent
<1>3. BelowThreshold /\ RemembersLatest
  BY ConfigAssumption DEF Init, Fresh, BelowThreshold, RemembersLatest
<1>4. QED
  BY <1>1, <1>2, <1>3 DEF IInv

(* Pruning, whoever does it, forgets nothing that is within the window.    *)
LEMMA PruningRemembers ==
    ASSUME IInv, NEW kept \in Pruned(circuit.failures, clock)
    PROVE  /\ kept \in Seq(Nat) /\ Len(kept) \in Nat
           /\ Len(kept) <= Len(circuit.failures)
           /\ Len(kept) > 0 => kept[1] >= clock - Window
           /\ \E k \in 0..Len(streak) :
                 /\ Len(kept) = Len(streak) - k
                 /\ \A i \in 1..Len(kept) : kept[i] = streak[k + i]
                 /\ \A i \in 1..k : streak[i] < clock - Window
<1> DEFINE fs == circuit.failures
<1>1. fs \in Seq(Nat) /\ clock \in Nat /\ Len(fs) \in Nat /\ streak \in Seq(Nat) /\ Len(streak) \in Nat
  BY LenProperties DEF IInv, TypeOK, Circuit
<1>2. PICK idx \in 0..Len(fs) :
          /\ kept \in Seq(Nat)
          /\ Len(kept) = Len(fs) - idx
          /\ \A i \in 1..Len(kept) : kept[i] = fs[idx + i]
          /\ \A i \in 1..idx : fs[i] < clock - Window
          /\ Len(kept) > 0 => kept[1] >= clock - Window
  BY <1>1, PrunedProperties
<1>3. PICK j \in 0..Len(streak) :
          /\ Len(fs) = Len(streak) - j
          /\ \A i \in 1..Len(fs) : fs[i] = streak[j + i]
          /\ \A i \in 1..j : streak[i] < clock - Window
  BY DEF IInv, RemembersLatest
<1>4. j + idx \in 0..Len(streak) /\ Len(kept) = Len(streak) - (j + idx)
  BY <1>1, <1>2, <1>3
<1>5. \A i \in 1..Len(kept) : kept[i] = streak[(j + idx) + i]
  <2>1. SUFFICES ASSUME NEW i \in 1..Len(kept) PROVE kept[i] = streak[(j + idx) + i]
    OBVIOUS
  <2>2. idx + i \in 1..Len(fs) /\ j + (idx + i) = (j + idx) + i
    BY <1>1, <1>2
  <2>3. QED
    BY <1>2, <1>3, <2>2
<1>6. \A i \in 1..j + idx : streak[i] < clock - Window
  <2>1. SUFFICES ASSUME NEW i \in 1..j + idx PROVE streak[i] < clock - Window
    OBVIOUS
  <2>2. CASE i <= j
    BY <1>3, <2>2
  <2>3. CASE i > j
    <3>1. i - j \in 1..idx /\ i - j \in 1..Len(fs) /\ j + (i - j) = i
      BY <1>1, <1>2, <1>3, <2>3
    <3>2. QED
      BY <1>2, <1>3, <3>1
  <2>4. QED
    BY <1>3, <2>2, <2>3
<1>7. \E k \in 0..Len(streak) :
          /\ Len(kept) = Len(streak) - k
          /\ \A i \in 1..Len(kept) : kept[i] = streak[k + i]
          /\ \A i \in 1..k : streak[i] < clock - Window
  BY <1>4, <1>5, <1>6
<1>8. Len(kept) \in Nat /\ Len(kept) <= Len(circuit.failures)
  BY <1>1, <1>2
<1>9. QED
  BY <1>2, <1>7, <1>8

(* A failing call: what the circuit remembers, and when it opens.          *)
LEMMA FailKeepsStreak ==
    ASSUME IInv, NEW c \in Callers, Fail(c)
    PROVE  /\ circuit' \in Circuit /\ streak' \in Seq(Nat)
           /\ BelowThreshold' /\ RemembersLatest'
           /\ circuit.state = "half_open" => circuit'.state = "open"
           /\ (circuit.state = "closed" /\ circuit'.state = "open") =>
                 /\ Len(streak') >= Threshold
                 /\ streak'[Len(streak') - Threshold + 1] >= clock - Window
<1> USE ConfigAssumption
<1>1. PICK kept \in Pruned(circuit.failures, clock) : circuit' = Failed(circuit, kept, clock)
  BY DEF Fail
<1>2. /\ kept \in Seq(Nat) /\ Len(kept) \in Nat
      /\ Len(kept) <= Len(circuit.failures)
      /\ Len(kept) > 0 => kept[1] >= clock - Window
  BY <1>1, PruningRemembers
<1>3. PICK k \in 0..Len(streak) :
          /\ Len(kept) = Len(streak) - k
          /\ \A i \in 1..Len(kept) : kept[i] = streak[k + i]
          /\ \A i \in 1..k : streak[i] < clock - Window
  BY <1>1, PruningRemembers
<1>4. /\ circuit \in Circuit /\ clock \in Nat /\ streak \in Seq(Nat)
      /\ circuit.failures \in Seq(Nat) /\ Len(circuit.failures) \in Nat
      /\ Len(streak) \in Nat
      /\ clock' = clock /\ streak' = Append(streak, clock)
  BY LenProperties DEF IInv, TypeOK, Circuit, Fail
<1>5. /\ streak' \in Seq(Nat) /\ Len(streak') = Len(streak) + 1
      /\ \A i \in 1..Len(streak) : streak'[i] = streak[i]
      /\ streak'[Len(streak) + 1] = clock
  BY <1>4, AppendedFailure
<1>6. /\ Append(kept, clock) \in Seq(Nat) /\ Len(Append(kept, clock)) = Len(kept) + 1
      /\ \A i \in 1..Len(kept) : Append(kept, clock)[i] = kept[i]
      /\ Append(kept, clock)[Len(kept) + 1] = clock
  BY <1>2, <1>4, AppendedFailure
<1>7. /\ circuit' \in Circuit
      /\ circuit'.state = IF Opens(circuit, kept) THEN "open" ELSE circuit.state
      /\ circuit'.failures = Append(kept, clock)
  BY <1>1, <1>2, <1>4, FailedFields
<1>8. BelowThreshold'
  <2>1. circuit'.state = "closed" => Len(kept) + 1 < Threshold
    BY <1>2, <1>7 DEF Opens
  <2>2. QED
    BY <1>6, <1>7, <2>1 DEF BelowThreshold
<1>9. RemembersLatest'
  <2>1. k \in 0..Len(streak') /\ Len(circuit'.failures) = Len(streak') - k
    BY <1>3, <1>4, <1>5, <1>6, <1>7
  <2>2. \A i \in 1..Len(circuit'.failures) : circuit'.failures[i] = streak'[k + i]
    <3>1. SUFFICES ASSUME NEW i \in 1..Len(kept) + 1
                   PROVE  Append(kept, clock)[i] = streak'[k + i]
      BY <1>6, <1>7
    <3>2. CASE i <= Len(kept)
      <4>1. i \in 1..Len(kept) /\ k + i \in 1..Len(streak)
        BY <1>2, <1>3, <1>4, <3>2
      <4>2. QED
        BY <1>3, <1>5, <1>6, <4>1
    <3>3. CASE i = Len(kept) + 1
      <4>1. k + i = Len(streak) + 1
        BY <1>2, <1>3, <1>4, <3>3
      <4>2. QED
        BY <1>5, <1>6, <3>3, <4>1
    <3>4. QED
      BY <1>2, <3>2, <3>3
  <2>3. \A i \in 1..k : streak'[i] < clock' - Window
    BY <1>3, <1>4, <1>5
  <2>4. QED
    BY <2>1, <2>2, <2>3 DEF RemembersLatest
<1>10. circuit.state = "half_open" => circuit'.state = "open"
  BY <1>7 DEF Opens
<1>11. ASSUME circuit.state = "closed", circuit'.state = "open"
       PROVE  /\ Len(streak') >= Threshold
              /\ streak'[Len(streak') - Threshold + 1] >= clock - Window
  <2>1. Len(kept) + 1 >= Threshold /\ Len(kept) < Threshold
    BY <1>2, <1>4, <1>7, <1>11 DEF Opens, IInv, BelowThreshold
  <2>2. Len(kept) = Threshold - 1
    BY <1>2, <2>1
  <2>3. Len(streak') - Threshold + 1 = k + 1
    BY <1>3, <1>4, <1>5, <2>2
  <2>4. CASE Len(kept) = 0
    <3>1. k = Len(streak) /\ Threshold = 1
      BY <1>3, <1>4, <2>2, <2>4
    <3>2. Len(streak') - Threshold + 1 = Len(streak) + 1
      BY <2>3, <3>1
    <3>3. streak'[Len(streak') - Threshold + 1] = clock
      BY <1>5, <3>2
    <3>4. clock >= clock - Window /\ Len(streak') >= Threshold
      BY <1>4, <1>5, <3>1
    <3>5. QED
      BY <3>3, <3>4
  <2>5. CASE Len(kept) > 0
    <3>1. 1 \in 1..Len(kept) /\ k + 1 \in 1..Len(streak)
      BY <1>2, <1>3, <1>4, <2>5
    <3>2. streak'[k + 1] = kept[1]
      BY <1>3, <1>5, <3>1
    <3>3. kept[1] >= clock - Window
      BY <1>2, <2>5
    <3>4. Len(streak') >= Threshold
      BY <1>3, <1>4, <1>5, <2>2
    <3>5. QED
      BY <2>3, <3>2, <3>3, <3>4
  <2>6. Len(kept) = 0 \/ Len(kept) > 0
    BY <1>2
  <2>7. QED
    BY <2>4, <2>5, <2>6
<1>12. QED
  BY <1>5, <1>7, <1>8, <1>9, <1>10, <1>11

(* Every step keeps the invariant.                                         *)
LEMMA NextIInv == IInv /\ [Next]_vars => IInv'
<1> SUFFICES ASSUME IInv, [Next]_vars PROVE IInv'
  OBVIOUS
<1> USE ConfigAssumption, NoneAssumption
<1>0. /\ circuit \in Circuit /\ clock \in Nat /\ begun \in Nat /\ episode \in Nat
      /\ call \in [Callers -> Running \cup {None}]
      /\ streak \in Seq(Nat) /\ Len(streak) \in Nat
      /\ circuit.failures \in Seq(Nat) /\ Len(circuit.failures) \in Nat
      /\ circuit.state \in {"closed", "open", "half_open"} /\ circuit.inFlight \in BOOLEAN
      /\ circuit.fastFails \in Nat
      /\ circuit.toOpen \in Nat /\ circuit.toHalf \in Nat /\ circuit.toClosed \in Nat
  BY LenProperties DEF IInv, TypeOK, Circuit
<1>1. CASE Tick
  <2>1. clock' = clock + 1 /\ UNCHANGED <<circuit, call, begun, episode, streak>>
    BY <1>1 DEF Tick
  <2>2. TypeOK' /\ HalfOpenHasProbe' /\ SingleProbe' /\ EpisodesPast' /\ StatsConsistent'
    <3>1. TypeOK'
      BY <1>0, <2>1 DEF TypeOK
    <3>2. HalfOpenHasProbe' /\ SingleProbe'
      BY <2>1 DEF IInv, HalfOpenHasProbe, SingleProbe
    <3>3. EpisodesPast' /\ StatsConsistent'
      BY <2>1 DEF IInv, EpisodesPast, StatsConsistent
    <3>4. QED
      BY <3>1, <3>2, <3>3
  <2>3. BelowThreshold'
    BY <2>1 DEF IInv, BelowThreshold
  <2>4. RemembersLatest'
    <3>1. PICK k \in 0..Len(streak) :
              /\ Len(circuit.failures) = Len(streak) - k
              /\ \A i \in 1..Len(circuit.failures) : circuit.failures[i] = streak[k + i]
              /\ \A i \in 1..k : streak[i] < clock - Window
      BY DEF IInv, RemembersLatest
    <3>2. \A i \in 1..k : streak[i] < (clock + 1) - Window
      <4>1. \A i \in 1..k : streak[i] \in Nat
        BY <1>0, <3>1, ElementOfSeq
      <4>2. QED
        BY <1>0, <3>1, <4>1
    <3>3. QED
      BY <2>1, <3>1, <3>2 DEF RemembersLatest
  <2>5. QED
    BY <2>2, <2>3, <2>4 DEF IInv
<1>2. ASSUME NEW c \in Callers, FastFail(c) PROVE IInv'
  <2>1. /\ circuit' = Refused(circuit) /\ Refuses(circuit, clock)
        /\ begun' = begun + 1 /\ UNCHANGED <<clock, call, episode, streak>>
    BY <1>2 DEF FastFail
  <2>2. /\ circuit' \in Circuit
        /\ circuit'.state = circuit.state /\ circuit'.failures = circuit.failures
        /\ circuit'.inFlight = circuit.inFlight
        /\ circuit'.toOpen = circuit.toOpen /\ circuit'.toHalf = circuit.toHalf
        /\ circuit'.toClosed = circuit.toClosed
    BY <1>0, <2>1, RefusedFields
  <2>3. TypeOK' /\ HalfOpenHasProbe' /\ SingleProbe' /\ EpisodesPast'
    <3>1. TypeOK'
      BY <1>0, <2>1, <2>2 DEF TypeOK
    <3>2. HalfOpenHasProbe'
      BY <2>1, <2>2 DEF IInv, HalfOpenHasProbe
    <3>3. SingleProbe' /\ EpisodesPast'
      BY <2>1 DEF IInv, SingleProbe, EpisodesPast
    <3>4. QED
      BY <3>1, <3>2, <3>3
  <2>4. circuit.toOpen # 0
    BY <1>0, <2>1 DEF Refuses, IInv, StatsConsistent
  <2>5. StatsConsistent'
    BY <2>2, <2>4 DEF IInv, StatsConsistent
  <2>6. BelowThreshold' /\ RemembersLatest'
    BY <2>1, <2>2 DEF IInv, BelowThreshold, RemembersLatest
  <2>7. QED
    BY <2>3, <2>5, <2>6 DEF IInv
<1>3. ASSUME NEW c \in Callers, Begin(c) PROVE IInv'
  <2>1. /\ circuit' = Admitted(circuit) /\ ~Refuses(circuit, clock)
        /\ begun' = begun + 1 /\ UNCHANGED <<clock, streak>>
        /\ episode' = IF circuit.state = "open" THEN episode + 1 ELSE episode
        /\ call' = [call EXCEPT ![c] = [kind |-> Kind, episode |-> episode']]
    BY <1>3 DEF Begin
  <2>2. /\ circuit' \in Circuit
        /\ circuit'.state = IF circuit.state = "closed" THEN "closed" ELSE "half_open"
        /\ circuit'.failures = circuit.failures
        /\ circuit'.inFlight = IF circuit.state = "closed" THEN circuit.inFlight ELSE TRUE
        /\ circuit'.fastFails = circuit.fastFails
        /\ circuit'.toOpen = circuit.toOpen
        /\ circuit'.toHalf = IF circuit.state = "open" THEN circuit.toHalf + 1 ELSE circuit.toHalf
        /\ circuit'.toClosed = circuit.toClosed
    BY <1>0, <2>1, AdmittedFields
  <2>3. circuit.state \in {"closed", "open"}
    BY <1>0, <2>1 DEF Refuses, IInv, HalfOpenHasProbe
  <2>4. episode' \in Nat /\ episode' >= episode
    BY <1>0, <2>1
  <2>5. [kind |-> Kind, episode |-> episode'] \in Running
    BY <2>4 DEF Running, Kind
  <2>6. call'[c] = [kind |-> Kind, episode |-> episode']
    BY <1>0, <2>1
  <2>7. \A d \in Callers : d # c => call'[d] = call[d]
    BY <1>0, <2>1
  <2>8. TypeOK'
    BY <1>0, <2>1, <2>2, <2>4, <2>5 DEF TypeOK
  <2>9. EpisodesPast'
    <3>1. SUFFICES ASSUME NEW d \in Callers, call'[d] # None
                   PROVE  call'[d].episode <= episode'
      BY DEF EpisodesPast
    <3>2. CASE d = c
      BY <2>4, <2>6, <3>2
    <3>3. CASE d # c
      <4>1. call[d] \in Running /\ call[d].episode <= episode
        BY <1>0, <2>7, <3>1, <3>3 DEF IInv, EpisodesPast
      <4>2. QED
        BY <1>0, <2>4, <2>7, <3>3, <4>1 DEF Running
    <3>4. QED
      BY <3>2, <3>3
  <2>10. CASE circuit.state = "closed"
    <3>1. HalfOpenHasProbe'
      BY <2>2, <2>10 DEF IInv, HalfOpenHasProbe
    <3>2. call'[c].kind # "probe"
      BY <2>6, <2>10 DEF Kind
    <3>3. SingleProbe'
      <4>1. SUFFICES ASSUME NEW a \in Callers, NEW b \in Callers,
                            call'[a] # None, call'[a].kind = "probe", call'[b] = call'[a]
                     PROVE  a = b
        BY DEF SingleProbe
      <4>2. a # c /\ b # c
        BY <3>2, <4>1
      <4>3. QED
        BY <2>7, <4>1, <4>2 DEF IInv, SingleProbe
    <3>4. StatsConsistent'
      BY <2>2, <2>10 DEF IInv, StatsConsistent
    <3>5. BelowThreshold' /\ RemembersLatest'
      BY <2>1, <2>2, <2>10 DEF IInv, BelowThreshold, RemembersLatest
    <3>6. QED
      BY <2>8, <2>9, <3>1, <3>3, <3>4, <3>5 DEF IInv
  <2>11. CASE circuit.state = "open"
    <3>1. HalfOpenHasProbe'
      BY <2>2, <2>6, <2>11 DEF HalfOpenHasProbe, Kind
    <3>2. \A d \in Callers : d # c /\ call'[d] # None => call'[d] # call'[c]
      <4>1. SUFFICES ASSUME NEW d \in Callers, d # c, call'[d] # None
                     PROVE  call'[d].episode # call'[c].episode
        OBVIOUS
      <4>2. call[d] \in Running /\ call[d].episode <= episode
        BY <1>0, <2>7, <4>1 DEF IInv, EpisodesPast
      <4>3. QED
        BY <1>0, <2>1, <2>6, <2>7, <2>11, <4>1, <4>2 DEF Running
    <3>3. SingleProbe'
      <4>1. SUFFICES ASSUME NEW a \in Callers, NEW b \in Callers,
                            call'[a] # None, call'[a].kind = "probe", call'[b] = call'[a]
                     PROVE  a = b
        BY DEF SingleProbe
      <4>2. CASE a # c /\ b # c
        BY <2>7, <4>1, <4>2 DEF IInv, SingleProbe
      <4>3. CASE a = c \/ b = c
        BY <3>2, <4>1, <4>3
      <4>4. QED
        BY <4>2, <4>3
    <3>4. StatsConsistent'
      BY <1>0, <2>2, <2>11 DEF IInv, StatsConsistent
    <3>5. BelowThreshold' /\ RemembersLatest'
      BY <2>1, <2>2, <2>11 DEF IInv, BelowThreshold, RemembersLatest
    <3>6. QED
      BY <2>8, <2>9, <3>1, <3>3, <3>4, <3>5 DEF IInv
  <2>12. QED
    BY <2>3, <2>10, <2>11
<1>4. ASSUME NEW c \in Callers, call' = [call EXCEPT ![c] = None],
             UNCHANGED <<clock, begun, episode>>,
             circuit' \in Circuit, streak' \in Seq(Nat),
             circuit'.state # "half_open", ~circuit'.inFlight
      PROVE  TypeOK' /\ HalfOpenHasProbe' /\ SingleProbe' /\ EpisodesPast'
  <2>1. TypeOK' /\ HalfOpenHasProbe'
    BY <1>0, <1>4 DEF TypeOK, HalfOpenHasProbe
  <2>2. \A d \in Callers : call'[d] # None => d # c /\ call'[d] = call[d]
    BY <1>0, <1>4
  <2>3. SingleProbe'
    BY <2>2 DEF IInv, SingleProbe
  <2>4. EpisodesPast'
    BY <1>4, <2>2 DEF IInv, EpisodesPast
  <2>5. QED
    BY <2>1, <2>3, <2>4
<1>5. ASSUME NEW c \in Callers, Succeed(c) PROVE IInv'
  <2>1. /\ circuit' = Succeeded(circuit) /\ streak' = <<>>
        /\ call' = [call EXCEPT ![c] = None] /\ UNCHANGED <<clock, begun, episode>>
    BY <1>5 DEF Succeed
  <2>2. /\ circuit' \in Circuit
        /\ circuit'.state = IF circuit.state = "half_open" THEN "closed" ELSE circuit.state
        /\ circuit'.failures = <<>>
        /\ circuit'.inFlight = IF circuit.state = "half_open" THEN FALSE ELSE circuit.inFlight
        /\ circuit'.fastFails = circuit.fastFails
        /\ circuit'.toOpen = circuit.toOpen
        /\ circuit'.toHalf = circuit.toHalf
        /\ circuit'.toClosed =
              IF circuit.state = "half_open" THEN circuit.toClosed + 1 ELSE circuit.toClosed
    BY <1>0, <2>1, SucceededFields
  <2>3. circuit'.state # "half_open" /\ ~circuit'.inFlight
    BY <1>0, <2>2 DEF IInv, HalfOpenHasProbe
  <2>4. streak' \in Seq(Nat) /\ Len(streak') = 0 /\ Len(circuit'.failures) = 0
    BY <2>1, <2>2
  <2>5. TypeOK' /\ HalfOpenHasProbe' /\ SingleProbe' /\ EpisodesPast'
    BY <1>4, <2>1, <2>2, <2>3, <2>4
  <2>6. StatsConsistent'
    BY <1>0, <2>2 DEF IInv, StatsConsistent
  <2>7. BelowThreshold' /\ RemembersLatest'
    <3>1. BelowThreshold'
      BY <2>4 DEF BelowThreshold
    <3>2. /\ 0 \in 0..Len(streak')
          /\ Len(circuit'.failures) = Len(streak') - 0
          /\ \A i \in 1..Len(circuit'.failures) : circuit'.failures[i] = streak'[0 + i]
          /\ \A i \in 1..0 : streak'[i] < clock' - Window
      BY <2>4
    <3>3. QED
      BY <3>1, <3>2 DEF RemembersLatest
  <2>8. QED
    BY <2>5, <2>6, <2>7 DEF IInv
<1>6. ASSUME NEW c \in Callers, Fail(c) PROVE IInv'
  <2>1. PICK kept \in Pruned(circuit.failures, clock) : circuit' = Failed(circuit, kept, clock)
    BY <1>6 DEF Fail
  <2>2. kept \in Seq(Nat)
    BY <2>1, PruningRemembers
  <2>3. /\ circuit' \in Circuit
        /\ circuit'.state = IF Opens(circuit, kept) THEN "open" ELSE circuit.state
        /\ circuit'.inFlight = IF Opens(circuit, kept) THEN FALSE ELSE circuit.inFlight
        /\ circuit'.fastFails = circuit.fastFails
        /\ circuit'.toOpen = IF Opens(circuit, kept) /\ circuit.state # "open"
                             THEN circuit.toOpen + 1 ELSE circuit.toOpen
        /\ circuit'.toHalf = circuit.toHalf
        /\ circuit'.toClosed = circuit.toClosed
    <3>1. circuit \in Circuit /\ clock \in Nat
      BY <1>0
    <3>2. QED
      BY <2>1, <2>2, <3>1, FailedFields
  <2>4. circuit.state = "half_open" => Opens(circuit, kept)
    BY DEF Opens
  <2>5. circuit'.state # "half_open" /\ ~circuit'.inFlight
    BY <1>0, <2>3, <2>4 DEF IInv, HalfOpenHasProbe
  <2>6. streak' \in Seq(Nat) /\ BelowThreshold' /\ RemembersLatest'
    BY <1>6, FailKeepsStreak
  <2>7. call' = [call EXCEPT ![c] = None] /\ UNCHANGED <<clock, begun, episode>>
    BY <1>6 DEF Fail
  <2>8. TypeOK' /\ HalfOpenHasProbe' /\ SingleProbe' /\ EpisodesPast'
    BY <1>4, <2>3, <2>5, <2>6, <2>7
  <2>9. StatsConsistent'
    BY <1>0, <2>3, <2>4 DEF IInv, StatsConsistent
  <2>10. QED
    BY <2>6, <2>8, <2>9 DEF IInv
<1>7. CASE Observe
  <2>1. PICK kept \in Pruned(circuit.failures, clock) :
            circuit' = [circuit EXCEPT !.failures = kept]
    BY <1>7 DEF Observe
  <2>2. UNCHANGED <<clock, call, begun, episode, streak>>
    BY <1>7 DEF Observe
  <2>3. /\ kept \in Seq(Nat) /\ Len(kept) \in Nat /\ Len(kept) <= Len(circuit.failures)
        /\ \E k \in 0..Len(streak) :
              /\ Len(kept) = Len(streak) - k
              /\ \A i \in 1..Len(kept) : kept[i] = streak[k + i]
              /\ \A i \in 1..k : streak[i] < clock - Window
    BY <2>1, PruningRemembers
  <2>4. /\ circuit' \in Circuit /\ circuit'.failures = kept
        /\ circuit'.state = circuit.state /\ circuit'.inFlight = circuit.inFlight
        /\ circuit'.fastFails = circuit.fastFails /\ circuit'.toOpen = circuit.toOpen
        /\ circuit'.toHalf = circuit.toHalf /\ circuit'.toClosed = circuit.toClosed
    BY <1>0, <2>1, <2>3 DEF Circuit
  <2>5. TypeOK' /\ HalfOpenHasProbe' /\ SingleProbe' /\ EpisodesPast' /\ StatsConsistent'
    BY <1>0, <2>2, <2>4
       DEF IInv, TypeOK, HalfOpenHasProbe, SingleProbe, EpisodesPast, StatsConsistent
  <2>6. BelowThreshold'
    BY <1>0, <2>3, <2>4 DEF IInv, BelowThreshold
  <2>7. RemembersLatest'
    BY <2>2, <2>3, <2>4 DEF RemembersLatest
  <2>8. QED
    BY <2>5, <2>6, <2>7 DEF IInv
<1>8. CASE Remove
  <2>1. circuit' = Fresh /\ streak' = <<>> /\ UNCHANGED <<clock, call, begun, episode>>
    BY <1>8 DEF Remove
  <2>2. TypeOK'
    BY <1>0, <2>1 DEF TypeOK, Fresh, Circuit
  <2>3. HalfOpenHasProbe' /\ SingleProbe' /\ EpisodesPast' /\ StatsConsistent'
    BY <2>1 DEF IInv, Fresh, HalfOpenHasProbe, SingleProbe, EpisodesPast, StatsConsistent
  <2>4. BelowThreshold' /\ RemembersLatest'
    BY <2>1 DEF Fresh, BelowThreshold, RemembersLatest
  <2>5. QED
    BY <2>2, <2>3, <2>4 DEF IInv
<1>9. CASE UNCHANGED vars
  BY <1>9 DEF vars, IInv, TypeOK, HalfOpenHasProbe, SingleProbe, EpisodesPast,
              StatsConsistent, BelowThreshold, RemembersLatest
<1>10. QED
  BY <1>1, <1>2, <1>3, <1>5, <1>6, <1>7, <1>8, <1>9 DEF Next

(* The inductive invariant holds of every reachable state.                 *)
THEOREM Invariance == Spec => []IInv
  BY InitIInv, NextIInv, PTL DEF Spec

(* Every variable keeps its type.                                          *)
THEOREM TypeCorrect == Spec => []TypeOK
<1>1. IInv => TypeOK
  BY DEF IInv
<1>2. QED
  BY <1>1, Invariance, PTL

(* A half-open circuit always has its probe running.                       *)
THEOREM ProbeRuns == Spec => []HalfOpenHasProbe
<1>1. IInv => HalfOpenHasProbe
  BY DEF IInv
<1>2. QED
  BY <1>1, Invariance, PTL

(* beforeRPCCall risks one call per half-open period, and never none.      *)
THEOREM OneProbe == Spec => []OneProbeRuns
<1>1. IInv => OneProbeRuns
  BY DEF IInv, OneProbeRuns
<1>2. QED
  BY <1>1, Invariance, PTL

(* The published counters describe legal walks of the state machine.       *)
THEOREM CountersConsistent == Spec => []StatsConsistent
<1>1. IInv => StatsConsistent
  BY DEF IInv
<1>2. QED
  BY <1>1, Invariance, PTL

(* afterRPCCall opens the circuit in time.                                 *)
THEOREM OpensInTime == Spec => []TripsInTime
<1>1. IInv => TripsInTime
  <2>1. SUFFICES ASSUME IInv, circuit.state = "closed", Len(streak) >= Threshold
                 PROVE  streak[Len(streak) - Threshold + 1] < clock - Window
    BY DEF TripsInTime
  <2>2. PICK k \in 0..Len(streak) :
            /\ Len(circuit.failures) = Len(streak) - k
            /\ \A i \in 1..k : streak[i] < clock - Window
    BY <2>1 DEF IInv, RemembersLatest
  <2>3. Len(circuit.failures) < Threshold
    BY <2>1 DEF IInv, BelowThreshold
  <2>4. Len(streak) \in Nat
    BY <2>1, LenProperties DEF IInv, TypeOK
  <2>5. Len(streak) - Threshold + 1 \in 1..k
    BY <2>1, <2>2, <2>3, <2>4, ConfigAssumption
  <2>6. QED
    BY <2>2, <2>5
<1>2. QED
  BY <1>1, Invariance, PTL

(* ... and never without Threshold failures in a row within the window.    *)
THEOREM OpensWithCause == Spec => OpensForCause
<1> DEFINE ForCause ==
      (circuit.state = "closed" /\ circuit'.state = "open") =>
          /\ Len(streak') >= Threshold
          /\ streak'[Len(streak') - Threshold + 1] >= clock - Window
<1>1. IInv /\ [Next]_vars => [ForCause]_vars
  <2>1. SUFFICES ASSUME IInv, [Next]_vars, circuit.state = "closed", circuit'.state = "open"
                 PROVE  /\ Len(streak') >= Threshold
                        /\ streak'[Len(streak') - Threshold + 1] >= clock - Window
    OBVIOUS
  <2>2. circuit \in Circuit
    BY <2>1 DEF IInv, TypeOK
  <2>3. ASSUME NEW c \in Callers, FastFail(c) \/ Begin(c) \/ Succeed(c) PROVE FALSE
    <3>1. circuit' \in {Refused(circuit), Admitted(circuit), Succeeded(circuit)}
      BY <2>3 DEF FastFail, Begin, Succeed
    <3>2. circuit'.state = "closed"
      <4>1. CASE circuit' = Refused(circuit)
        BY <2>1, <2>2, <4>1, RefusedFields
      <4>2. CASE circuit' = Admitted(circuit)
        BY <2>1, <2>2, <4>2, AdmittedFields
      <4>3. CASE circuit' = Succeeded(circuit)
        BY <2>1, <2>2, <4>3, SucceededFields
      <4>4. QED
        BY <3>1, <4>1, <4>2, <4>3
    <3>3. QED
      BY <2>1, <3>2
  <2>4. ~Observe
    BY <2>1, <2>2 DEF Observe, Circuit
  <2>5. ~Remove /\ ~Tick /\ ~UNCHANGED vars
    BY <2>1 DEF Remove, Fresh, Tick, vars
  <2>6. PICK c \in Callers : Fail(c)
    BY <2>1, <2>3, <2>4, <2>5 DEF Next
  <2>7. QED
    BY <2>1, <2>6, FailKeepsStreak
<1>2. QED
  BY <1>1, Invariance, PTL DEF Spec, OpensForCause
=============================================================================
