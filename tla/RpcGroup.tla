------------------------------ MODULE RpcGroup ------------------------------
(***************************************************************************)
(* Group RPC (src/pkg/embed/hypervisor.go): RPCCallGroupFrom and its two   *)
(* fast variants walk a group by round robin, skip the members whose       *)
(* circuit is open and return the first success, while other calls advance *)
(* the same index and VMs join and leave the group.                        *)
(*                                                                         *)
(* getNextVMInGroup, beforeRPCCall and afterRPCCall each take              *)
(* Hypervisor.mu for themselves, so they are separate steps of a call.     *)
(***************************************************************************)
EXTENDS CircuitOps, SequencesExt

CONSTANTS VMs,
          Members,   \* those that may be up in the beginning
          Volatile,  \* those that may be spawned and removed
          Callers,
          MaxClock,  \* bound on the clock
          MaxCalls,  \* bound on the number of group calls
          None

ASSUME MembersAssumption ==
    /\ Members \subseteq VMs /\ IsFiniteSet(Members)
    /\ Volatile \subseteq VMs

VARIABLES group,     \* groups[g]
          index,     \* groupIndices[g]
          life,      \* how far each VM's spawn or removal is
          circuits,  \* rpcCircuits
          clock,     \* time.Now()
          call,      \* the group call each caller is executing
          begun,     \* history: how many group calls were made
          tried,     \* history: the members a call was executed on
          steady,    \* history: those that were up and closed all along
          alone,     \* history: whether a call has had the group for itself
          picks      \* history: picks of each member since the group changed

calls == <<call, begun, tried>>
vars == <<group, index, life, circuits, clock, calls, steady, alone, picks>>

Idle(result) == [phase |-> result, left |-> 0, target |-> None, lastErr |-> "none"]
Results == {"none", "ok", "failed", "CircuitOpen", "noVMs"}
Active == {"pick", "ask", "look", "run"}

Closed(v) == life[v] = "up" /\ circuits[v].state = "closed"

Init ==
    /\ \E up \in SUBSET Members :
          /\ group \in SetToSeqs(up)
          /\ life = [v \in VMs |-> IF v \in up THEN "up" ELSE "absent"]
    /\ index = 0
    /\ circuits = [v \in VMs |-> Fresh]
    /\ clock = 0
    /\ call = [c \in Callers |-> Idle("none")]
    /\ begun = 0
    /\ tried = [c \in Callers |-> {}]
    /\ steady = [c \in Callers |-> {}]
    /\ alone = [c \in Callers |-> FALSE]
    /\ picks = [v \in VMs |-> 0]

(* A running call keeps the members that stay up and closed.               *)
StillSteady(c, starts) ==
    IF c \in starts THEN {v \in VMs : Closed(v)'}
    ELSE IF call[c].phase \in Active THEN {v \in steady[c] : Closed(v)'}
    ELSE steady[c]

(* It is alone as long as the group stays and no other call picks from it. *)
StillAlone(c) ==
    alone[c] /\ group' = group /\ (picks' # picks => call'[c] # call[c])

KeepHistory(starts) ==
    /\ steady' = [c \in Callers |-> StillSteady(c, starts)]
    /\ alone' = [c \in Callers |-> c \in starts \/ StillAlone(c)]

----------------------------------------------------------------------------

(* Mutant: the loop makes one turn less than there are members.            *)
StartOneShort(c) ==
    /\ call[c].phase \in Results
    /\ begun < MaxCalls
    /\ begun' = begun + 1
    /\ call' = [call EXCEPT ![c] = IF group = <<>> THEN Idle("noVMs")
                                   ELSE [phase |-> "pick", left |-> Len(group) - 1,
                                         target |-> None, lastErr |-> "CircuitOpen"]]
    /\ tried' = [tried EXCEPT ![c] = {}]
    /\ UNCHANGED <<group, index, life, circuits, clock, picks>>
    /\ KeepHistory({c})

(* A group call takes the size of the group, once.                         *)
Start(c) ==
    /\ call[c].phase \in Results
    /\ begun < MaxCalls
    /\ begun' = begun + 1
    /\ call' = [call EXCEPT ![c] = IF group = <<>> THEN Idle("noVMs")
                                   ELSE [phase |-> "pick", left |-> Len(group),
                                         target |-> None, lastErr |-> "none"]]
    /\ tried' = [tried EXCEPT ![c] = {}]
    /\ UNCHANGED <<group, index, life, circuits, clock, picks>>
    /\ KeepHistory({c})

(* The loop is over: the last error is returned.                           *)
GiveUp(c) ==
    /\ call[c].phase = "pick"
    /\ call[c].left = 0
    /\ call' = [call EXCEPT ![c] = Idle(call[c].lastErr)]
    /\ UNCHANGED <<group, index, life, circuits, clock, begun, tried, picks>>
    /\ KeepHistory({})

(* getNextVMInGroup.  Mutant: the index is left where it is.               *)
Current == IF index >= Len(group) THEN 0 ELSE index

PickInPlace(c) ==
    /\ call[c].phase = "pick"
    /\ call[c].left > 0
    /\ IF group = <<>>
       THEN /\ call' = [call EXCEPT ![c] = Idle("noVMs")]
            /\ UNCHANGED picks
       ELSE /\ call' = [call EXCEPT ![c].phase = "ask", ![c].target = group[Current + 1]]
            /\ picks' = [picks EXCEPT ![group[Current + 1]] = @ + 1]
    /\ UNCHANGED <<group, index, life, circuits, clock, begun, tried>>
    /\ KeepHistory({})

Pick(c) ==
    /\ call[c].phase = "pick"
    /\ call[c].left > 0
    /\ IF group = <<>>
       THEN /\ call' = [call EXCEPT ![c] = Idle("noVMs")]
            /\ UNCHANGED <<index, picks>>
       ELSE /\ index' = (Current + 1) % Len(group)
            /\ call' = [call EXCEPT ![c].phase = "ask", ![c].target = group[Current + 1]]
            /\ picks' = [picks EXCEPT ![group[Current + 1]] = @ + 1]
    /\ UNCHANGED <<group, life, circuits, clock, begun, tried>>
    /\ KeepHistory({})

(* One turn of the loop is over.                                           *)
NextTurn(c, err) == [call[c] EXCEPT !.phase = "pick", !.left = @ - 1, !.lastErr = err]

(* beforeRPCCall on the member that was picked.                            *)
Skip(c) ==
    LET v == call[c].target IN
    /\ call[c].phase = "ask"
    /\ Refuses(circuits[v], clock)
    /\ circuits' = [circuits EXCEPT ![v] = Refused(@)]
    /\ call' = [call EXCEPT ![c] = NextTurn(c, "CircuitOpen")]
    /\ UNCHANGED <<group, index, life, clock, begun, tried, picks>>
    /\ KeepHistory({})

Admit(c) ==
    LET v == call[c].target IN
    /\ call[c].phase = "ask"
    /\ ~Refuses(circuits[v], clock)
    /\ circuits' = [circuits EXCEPT ![v] = Admitted(@)]
    /\ call' = [call EXCEPT ![c].phase = "look"]
    /\ tried' = [tried EXCEPT ![c] = @ \cup {v}]
    /\ UNCHANGED <<group, index, life, clock, begun, picks>>
    /\ KeepHistory({})

(* rpcCallRaw finds the VM in the registry.                                *)
Find(c) ==
    /\ call[c].phase = "look"
    /\ life[call[c].target] = "up"
    /\ call' = [call EXCEPT ![c].phase = "run"]
    /\ UNCHANGED <<group, index, life, circuits, clock, begun, tried, picks>>
    /\ KeepHistory({})

(* The call returns a result, and so does the group call.                  *)
Succeed(c) ==
    LET v == call[c].target IN
    /\ call[c].phase = "run"
    /\ circuits' = [circuits EXCEPT ![v] = Succeeded(@)]
    /\ call' = [call EXCEPT ![c] = Idle("ok")]
    /\ UNCHANGED <<group, index, life, clock, begun, tried, picks>>
    /\ KeepHistory({})

(* Mutant: nobody notices that there is no such VM.                        *)
FailRunning(c) ==
    LET v == call[c].target IN
    /\ call[c].phase = "run"
    /\ \E kept \in Pruned(circuits[v].failures, clock) :
          circuits' = [circuits EXCEPT ![v] = Failed(@, kept, clock)]
    /\ call' = [call EXCEPT ![c] = NextTurn(c, "failed")]
    /\ UNCHANGED <<group, index, life, clock, begun, tried, picks>>
    /\ KeepHistory({})

(* There is no such VM, or the call fails or times out: on to the next.    *)
Fail(c) ==
    LET v == call[c].target IN
    /\ \/ call[c].phase = "look" /\ life[v] # "up"
       \/ call[c].phase = "run"
    /\ \E kept \in Pruned(circuits[v].failures, clock) :
          circuits' = [circuits EXCEPT ![v] = Failed(@, kept, clock)]
    /\ call' = [call EXCEPT ![c] = NextTurn(c, "failed")]
    /\ UNCHANGED <<group, index, life, clock, begun, tried, picks>>
    /\ KeepHistory({})

----------------------------------------------------------------------------

Became(v, from, to) == life[v] = from /\ life' = [life EXCEPT ![v] = to]

(* SpawnVM appends to the group, then registers the VM.                    *)
Join(v) ==
    /\ Became(v, "absent", "joined")
    /\ group' = Append(group, v)
    /\ picks' = [u \in VMs |-> 0]
    /\ UNCHANGED <<index, circuits, clock, calls>>
    /\ KeepHistory({})

Register(v) ==
    /\ Became(v, "joined", "up")
    /\ UNCHANGED <<group, index, circuits, clock, calls, picks>>
    /\ KeepHistory({})

(* removeVMResources: the registry, the group, then the circuit.  Its loop *)
(* keeps all that is not this VM, which is in the group once: SpawnVM      *)
(* refuses an id that is taken.                                            *)
Unregister(v) ==
    /\ Became(v, "up", "unregistered")
    /\ UNCHANGED <<group, index, circuits, clock, calls, picks>>
    /\ KeepHistory({})

(* Mutant: the index is not brought back into the group.                   *)
LeaveKeepingIndex(v) ==
    /\ Became(v, "unregistered", "left")
    /\ \E i \in 1..Len(group) : group[i] = v /\ group' = RemoveAt(group, i)
    /\ picks' = [u \in VMs |-> 0]
    /\ UNCHANGED <<index, circuits, clock, calls>>
    /\ KeepHistory({})

Leave(v) ==
    /\ Became(v, "unregistered", "left")
    /\ \E i \in 1..Len(group) : group[i] = v /\ group' = RemoveAt(group, i)
    /\ index' = IF index >= Len(group') THEN 0 ELSE index
    /\ picks' = [u \in VMs |-> 0]
    /\ UNCHANGED <<circuits, clock, calls>>
    /\ KeepHistory({})

Forget(v) ==
    /\ Became(v, "left", "absent")
    /\ circuits' = [circuits EXCEPT ![v] = Fresh]
    /\ UNCHANGED <<group, index, clock, calls, picks>>
    /\ KeepHistory({})

Tick ==
    /\ clock < MaxClock
    /\ clock' = clock + 1
    /\ UNCHANGED <<group, index, life, circuits, calls, picks>>
    /\ KeepHistory({})

Step(c) == GiveUp(c) \/ Pick(c) \/ Skip(c) \/ Admit(c) \/ Find(c) \/ Succeed(c) \/ Fail(c)

Next ==
    \/ \E c \in Callers : Start(c) \/ Step(c)
    \/ \E v \in Volatile : Join(v) \/ Register(v) \/ Unregister(v) \/ Leave(v) \/ Forget(v)
    \/ Tick

Spec == Init /\ [][Next]_vars

(* A caller's goroutine runs, and the calls it makes return: they have a   *)
(* timeout.  Nothing makes VMs come or go.                                 *)
Fairness == \A c \in Callers : WF_vars(Step(c))

FairSpec == Spec /\ Fairness

----------------------------------------------------------------------------

TypeOK ==
    /\ group \in Seq(VMs)
    /\ index \in Nat
    /\ life \in [VMs -> {"absent", "joined", "up", "unregistered", "left"}]
    /\ circuits \in [VMs -> Circuit]
    /\ clock \in Nat
    /\ call \in [Callers -> [phase : Active \cup Results, left : Nat,
                             target : VMs \cup {None}, lastErr : Results]]
    /\ begun \in Nat
    /\ tried \in [Callers -> SUBSET VMs]
    /\ steady \in [Callers -> SUBSET VMs]
    /\ alone \in [Callers -> BOOLEAN]
    /\ picks \in [VMs -> Nat]

(* "Group routing is round-robin": however the calls interleave, while the *)
(* group stays as it is no member is picked twice as often as another, and *)
(* a member that leaves brings the shared index back into the group.       *)
RoundRobin ==
    /\ \A u, v \in ToSet(group) : picks[u] <= picks[v] + 1
    /\ index = 0 \/ index < Len(group)

(* A group call that fails, and did not share the index with another call, *)
(* has been executed on every member that was there, with a closed         *)
(* circuit, from its beginning to its end.                                 *)
HealthyTried ==
    \A c \in Callers :
        (alone[c] /\ call[c].phase \in {"failed", "CircuitOpen", "noVMs"}) =>
            steady[c] \subseteq tried[c]

(* A group call ends, whatever the circuits and the group do.              *)
GroupCallReturns == \A c \in Callers : call[c].phase \in Active ~> call[c].phase \in Results
=============================================================================
