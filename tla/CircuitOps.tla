----------------------------- MODULE CircuitOps -----------------------------
(***************************************************************************)
(* The circuit breaker in front of one RPC target                          *)
(* (src/pkg/embed/hypervisor.go, rpcCircuit): what beforeRPCCall and       *)
(* afterRPCCall do to it, as functions from a circuit to a circuit.  Both  *)
(* run under Hypervisor.mu.  Times are ticks of a clock.                   *)
(***************************************************************************)
EXTENDS Integers, Sequences

CONSTANTS Threshold,   \* FailureThreshold
          Window,      \* FailureWindowMs
          OpenTimeout  \* OpenTimeoutMs

(* normalizeRPCCircuitConfig replaces what is not positive by a default.   *)
ASSUME ConfigAssumption ==
    /\ Threshold \in Nat \ {0}
    /\ Window \in Nat \ {0}
    /\ OpenTimeout \in Nat \ {0}

Circuit == [state : {"closed", "open", "half_open"},
            failures : Seq(Nat), openedAt : Nat, inFlight : BOOLEAN,
            fastFails : Nat, toOpen : Nat, toHalf : Nat, toClosed : Nat]

(* getOrCreateRPCCircuitLocked makes one for a target it does not know, so *)
(* a deleted circuit is a fresh one.                                       *)
Fresh == [state |-> "closed", failures |-> <<>>, openedAt |-> 0, inFlight |-> FALSE,
          fastFails |-> 0, toOpen |-> 0, toHalf |-> 0, toClosed |-> 0]

(* beforeRPCCall: an open circuit lets nothing through before OpenTimeout, *)
(* a half-open one a single call.                                           *)
Refuses(c, now) ==
    \/ c.state = "open" /\ now - c.openedAt < OpenTimeout
    \/ c.state = "half_open" /\ c.inFlight

Refused(c) == [c EXCEPT !.fastFails = @ + 1]

Admitted(c) ==
    IF c.state = "closed" THEN c
    ELSE [c EXCEPT !.state = "half_open",
                   !.toHalf = IF c.state = "open" THEN @ + 1 ELSE @,
                   !.inFlight = TRUE]

(* pruneCircuitFailures: the number of leading failures its loop skips.    *)
Leading(fs, now) ==
    {idx \in 0..Len(fs) :
        /\ \A i \in 1..idx : fs[i] < now - Window
        /\ idx < Len(fs) => fs[idx + 1] >= now - Window}

(* Mutant: nothing is skipped.                                             *)
NotPruned(fs, now) == {fs}

(* The failures that remain (a set of one).                                *)
Pruned(fs, now) == {SubSeq(fs, idx + 1, Len(fs)) : idx \in Leading(fs, now)}

(* afterRPCCall without an error.  Mutant: the flag of the probe stays.    *)
SucceededKeepingFlag(c) ==
    IF c.state = "half_open"
    THEN [c EXCEPT !.failures = <<>>, !.state = "closed", !.toClosed = @ + 1]
    ELSE [c EXCEPT !.failures = <<>>]

Succeeded(c) ==
    IF c.state = "half_open"
    THEN [c EXCEPT !.failures = <<>>, !.inFlight = FALSE,
                   !.state = "closed", !.toClosed = @ + 1]
    ELSE [c EXCEPT !.failures = <<>>]

Opened(c, fs, now) ==
    [c EXCEPT !.failures = fs, !.state = "open", !.openedAt = now, !.inFlight = FALSE,
              !.toOpen = IF c.state = "open" THEN @ ELSE @ + 1]

(* Mutants of Failed: the probe's failure does not open the circuit; one   *)
(* failure too many.                                                       *)
FailedAsUsual(c, kept, now) ==
    LET fs == Append(kept, now) IN
    IF Len(fs) >= Threshold THEN Opened(c, fs, now) ELSE [c EXCEPT !.failures = fs]
FailedOverThreshold(c, kept, now) ==
    LET fs == Append(kept, now) IN
    IF c.state = "half_open" \/ Len(fs) > Threshold
    THEN Opened(c, fs, now)
    ELSE [c EXCEPT !.failures = fs]

(* afterRPCCall with an error; "kept" are the pruned failures.             *)
Failed(c, kept, now) ==
    LET fs == Append(kept, now) IN
    IF c.state = "half_open" \/ Len(fs) >= Threshold
    THEN Opened(c, fs, now)
    ELSE [c EXCEPT !.failures = fs]
=============================================================================
