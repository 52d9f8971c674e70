----------------------------- MODULE RpcCircuit -----------------------------
(***************************************************************************)
(* The circuit breaker of one target VM under concurrent RPC calls         *)
(* (src/pkg/embed/hypervisor.go).  RPCCallFrom, RPCCallFastFrom and        *)
(* RPCCallFastUnsafeFrom are the same three steps: beforeRPCCall, the call *)
(* itself without any lock, afterRPCCall with its outcome.  So an outcome  *)
(* may reach a circuit that has changed since the call was admitted, or    *)
(* that belongs to another VM spawned under the same id.                   *)
(***************************************************************************)
EXTENDS CircuitOps

CONSTANTS Callers,
          MaxClock,  \* bound on the clock
          MaxCalls,  \* bound on the number of calls
          None

ASSUME NoneAssumption == None \notin [kind : {"plain", "probe"}, episode : Nat]

VARIABLES circuit,  \* rpcCircuits[target]
          clock,    \* time.Now()
          call,     \* the call each caller is executing
          begun,    \* history: how many calls were made
          episode,  \* history: how many times the circuit became half-open
          streak    \* history: when the calls since the last success failed

vars == <<circuit, clock, call, begun, episode, streak>>

Running == [kind : {"plain", "probe"}, episode : Nat]

Init ==
    /\ circuit = Fresh
    /\ clock = 0
    /\ call = [c \in Callers |-> None]
    /\ begun = 0
    /\ episode = 0
    /\ streak = <<>>

Tick ==
    /\ clock < MaxClock
    /\ clock' = clock + 1
    /\ UNCHANGED <<circuit, call, begun, episode, streak>>

(* beforeRPCCall returns ErrRPCCircuitOpen, and so does the call.          *)
FastFail(c) ==
    /\ call[c] = None
    /\ begun < MaxCalls
    /\ Refuses(circuit, clock)
    /\ circuit' = Refused(circuit)
    /\ begun' = begun + 1
    /\ UNCHANGED <<clock, call, episode, streak>>

(* What an admitted call is to the circuit.                                *)
Kind == IF circuit.state = "closed" THEN "plain" ELSE "probe"

(* beforeRPCCall returns nil: the call is executed, as the probe of a      *)
(* half-open circuit or as any other.                                      *)
Begin(c) ==
    /\ call[c] = None
    /\ begun < MaxCalls
    /\ ~Refuses(circuit, clock)
    /\ circuit' = Admitted(circuit)
    /\ begun' = begun + 1
    /\ episode' = IF circuit.state = "open" THEN episode + 1 ELSE episode
    /\ call' = [call EXCEPT ![c] = [kind |-> Kind, episode |-> episode']]
    /\ UNCHANGED <<clock, streak>>

(* The call returned a result; afterRPCCall.                               *)
Succeed(c) ==
    /\ call[c] # None
    /\ circuit' = Succeeded(circuit)
    /\ streak' = <<>>
    /\ call' = [call EXCEPT ![c] = None]
    /\ UNCHANGED <<clock, begun, episode>>

(* It failed, timed out, or found no VM; afterRPCCall.                     *)
Fail(c) ==
    /\ call[c] # None
    /\ \E kept \in Pruned(circuit.failures, clock) : circuit' = Failed(circuit, kept, clock)
    /\ streak' = Append(streak, clock)
    /\ call' = [call EXCEPT ![c] = None]
    /\ UNCHANGED <<clock, begun, episode>>

(* GetRPCCircuitStats prunes the failures before it counts them.           *)
Observe ==
    /\ \E kept \in Pruned(circuit.failures, clock) :
          circuit' = [circuit EXCEPT !.failures = kept]
    /\ UNCHANGED <<clock, call, begun, episode, streak>>

(* removeVMResources deletes the circuit, whatever calls are running.      *)
Remove ==
    /\ circuit' = Fresh
    /\ streak' = <<>>
    /\ UNCHANGED <<clock, call, begun, episode>>

Next ==
    \/ Tick
    \/ \E c \in Callers : FastFail(c) \/ Begin(c) \/ Succeed(c) \/ Fail(c)
    \/ Observe
    \/ Remove

Spec == Init /\ [][Next]_vars

(* rpcCallFastRaw returns: its timer ends a call that has a timeoutMs.     *)
(* (One with timeoutMs <= 0 may block for as long as its method does: the  *)
(* default is 5000, and such calls are excluded here.)                     *)
Fairness == \A c \in Callers : WF_vars(Succeed(c) \/ Fail(c))

FairSpec == Spec /\ Fairness

----------------------------------------------------------------------------

TypeOK ==
    /\ circuit \in Circuit
    /\ clock \in Nat
    /\ call \in [Callers -> Running \cup {None}]
    /\ begun \in Nat
    /\ episode \in Nat
    /\ streak \in Seq(Nat)

(* A half-open circuit, which refuses every call, waits for a call that    *)
(* is still running and will resolve it: an outcome of an older call that  *)
(* arrives first never leaves it half-open without its probe.              *)
HalfOpenHasProbe ==
    /\ circuit.inFlight <=> circuit.state = "half_open"
    /\ circuit.state = "half_open" =>
          \E c \in Callers : call[c] = [kind |-> "probe", episode |-> episode]

(* Each time it is half-open the circuit risks one call.                   *)
SingleProbe ==
    \A c, d \in Callers :
        (call[c] # None /\ call[c].kind = "probe" /\ call[d] = call[c]) => c = d

(* A half-open circuit waits for one probe: none would block it for ever,  *)
(* two would charge the target twice (beforeRPCCall, afterRPCCall).        *)
OneProbeRuns == HalfOpenHasProbe /\ SingleProbe

(* The counters that rpcCircuitStats publishes describe walks through      *)
(* Closed -> Open -> HalfOpen -> Closed/Open, and only a circuit that has  *)
(* opened fails fast.                                                      *)
StatsConsistent ==
    /\ circuit.toOpen = circuit.toHalf + (IF circuit.state = "open" THEN 1 ELSE 0)
    /\ circuit.toClosed + (IF circuit.state = "half_open" THEN 1 ELSE 0) <= circuit.toHalf
    /\ circuit.toOpen = 0 => circuit.fastFails = 0

(* A closed circuit never misses its cue: of the failures since the last   *)
(* success, fewer than Threshold lie within Window of now, although it     *)
(* forgets the old ones and others are pruned by readers.                  *)
TripsInTime ==
    (circuit.state = "closed" /\ Len(streak) >= Threshold) =>
        streak[Len(streak) - Threshold + 1] < clock - Window

(* Nor does it open without cause: Threshold calls in a row have failed    *)
(* within Window.                                                          *)
OpensForCause ==
    [][(circuit.state = "closed" /\ circuit'.state = "open") =>
          /\ Len(streak') >= Threshold
          /\ streak'[Len(streak') - Threshold + 1] >= clock - Window]_vars

(* A circuit does not stay half-open.                                      *)
ProbeResolved == circuit.state = "half_open" ~> circuit.state # "half_open"
=============================================================================
