----------------------------- MODULE Supervisor -----------------------------
(***************************************************************************)
(* supervise and superviseWithReconcile (src/kit/vmm/vmm.lang) as one of   *)
(* the consumers of the event queue.  The configuration names the worker,  *)
(* as in the example of src/kit/vmm/README.md: every worker that is        *)
(* spawned has the same id, and the registry holds at most one.            *)
(*                                                                         *)
(* Of the life of a worker there is what a supervisor can tell: it runs,   *)
(* stores how it ended, publishes what is stored by then, and its id is    *)
(* freed, by itself or by the calls of killVM and stopVM, which store a    *)
(* status of their own (Lifecycle has all the steps).  An event is its     *)
(* number in the ring; what it says is in "about", slot by slot.           *)
(*                                                                         *)
(* Of the clock there is that a wait ends, and that any of the remembered  *)
(* restarts may have left the window by now.                               *)
(***************************************************************************)
EXTENDS EventRing

CONSTANTS Supervisor,   \* the consumer that is the supervisor
          Workers,      \* the VMs it may spawn
          Calls,        \* the calls of killVM and stopVM
          MaxRestarts,  \* policy.maxRestarts
          MaxRefusals,  \* bound: spawns that fail
          MaxForeign    \* bound: the last number of an event of another VM

ASSUME SupervisorAssumption == Supervisor \in Receivers /\ MaxRestarts \in Nat /\ None \notin Workers

VARIABLES registered,  \* the VM registered under the id
          life,        \* of each worker
          status,      \* entry.Status of each worker, until its event is out
          ending,      \* the type of the event that its goroutine prepares
          call,        \* target, kind and state of each call
          about,       \* of each queued event: whose end it is, and what it says
          at,          \* where the supervisor is
          worker,      \* the VM it has spawned last
          handoff,     \* stateOpt is Some(_)
          reconciles,  \* it is superviseWithReconcile
          recent,      \* length of restartTimestamps
          failures,    \* history: refused spawns, and ends not told as clean
          strays,      \* history: foreign ends not told as clean
          cause        \* history: the event on which the supervisor returned

workers == <<registered, life, status, ending, call>>
supervisor == <<at, worker, handoff, reconciles, recent, cause>>
tally == <<failures, strays>>
allVars == <<vars, workers, about, supervisor, tally>>

Waiting == {"probe", "lateProbe", "wait", "lateWait"}
Over == {"returned", "panicked"}

(* What an event tells of an end by its type and status: that it was as    *)
(* intended, a crash (for which a probe looks), or neither; and what a     *)
(* wait makes up when its time is over.                                    *)
End(of, type, how) ==
    [of |-> of, tells |-> CASE type = "exit" /\ how = "stopped" -> "clean"
                            [] type = "crash" \/ how = "crashed" -> "crash"
                            [] OTHER -> "other"]
Clean(evt) == evt.tells = "clean"
TimedOut == [of |-> None, tells |-> "timeout"]

SupInit ==
    /\ Init
    /\ registered = None
    /\ life = [w \in Workers |-> "unborn"]
    /\ status = [w \in Workers |-> "none"]
    /\ ending = [w \in Workers |-> "none"]
    /\ call = [c \in Calls |-> [of |-> None, kind |-> "none", over |-> FALSE]]
    /\ about = [i \in Slots |-> None]
    /\ at = "spawn"
    /\ worker = None
    /\ handoff \in BOOLEAN
    /\ reconciles \in BOOLEAN
    /\ recent = 0
    /\ failures = 0
    /\ strays = 0
    /\ cause = None
----------------------------------------------------------------------------
(* Events of other VMs, and their consumers.                               *)

Publish(evt) ==
    /\ Push
    /\ about' = [i \in Slots |-> IF ring'[i] = ring[i] THEN about[i] ELSE evt]

Foreign ==
    /\ seq < MaxForeign
    /\ \E evt \in {End(None, "exit", "stopped"), End(None, "crash", "crashed")} :
          Publish(evt) /\ strays' = strays + (IF Clean(evt) THEN 0 ELSE 1)
    /\ UNCHANGED <<workers, supervisor, failures>>

(* With an event its slot is empty.                                        *)
Cleared == about' = [i \in Slots |-> IF ring'[i] = None THEN None ELSE about[i]]

(* Another consumer takes what comes, at any time.  Whether it keeps a     *)
(* watermark and how long it would wait is nothing to the supervisor: here *)
(* it keeps none, and waits until it has an event.                         *)
Elsewhere ==
    /\ \E r \in Receivers \ {Supervisor} : ReceiveEvent(r) \/ Retry(r)
    /\ UNCHANGED gaps
    /\ Cleared
    /\ UNCHANGED <<workers, supervisor, tally>>
----------------------------------------------------------------------------
(* The workers.                                                            *)

(* A status is of interest until it is told.                               *)
Store(w, how) ==
    status' = IF life[w] \in {"running", "ending"} THEN [status EXCEPT ![w] = how] ELSE status

Told(w, kinds) == \E c \in Calls : call[c].of = w /\ call[c].kind \in kinds

Twice(w) == \E c, d \in Calls : c # d /\ call[c].of = w /\ call[d].of = w

(* terminateVM looks the id up and cancels the VM.  It stops it if it is   *)
(* told so or saves the state.                                             *)
Ask(c) ==
    /\ registered # None /\ call[c].of = None
    /\ \E kind \in {"kill", "stop"} :
          call' = [call EXCEPT ![c] = [of |-> registered, kind |-> kind, over |-> FALSE]]
    /\ Store(registered, "stopping")
    /\ UNCHANGED <<vars, registered, life, ending, about, supervisor, tally>>

(* The VM fails, or it is told to end, and stores how it ended.            *)
Stop(w) ==
    /\ life[w] = "running"
    /\ \E how \in {"crashed", "stopped"}, type \in {"exit", "crash", "vm_exit"} :
          /\ \/ how = "crashed" /\ type # "exit"
             \/ how = "crashed" /\ type # "vm_exit" /\ Told(w, {"kill"})
             \/ how = "stopped" /\ type = "exit" /\ Told(w, {"stop"})
          /\ Store(w, how)
          /\ ending' = [ending EXCEPT ![w] = type]
    /\ life' = [life EXCEPT ![w] = "ending"]
    /\ UNCHANGED <<vars, registered, call, about, supervisor, tally>>

(* The event is published with what the entry says by now.  (It is read    *)
(* some time before; a call that stores another status in between might    *)
(* have done so later, or have left it, as Return may.)                    *)
Tell(w) ==
    /\ life[w] = "ending"
    /\ life' = [life EXCEPT ![w] = "ended"]
    /\ LET evt == End(w, ending[w], status[w])
       IN  Publish(evt) /\ failures' = failures + (IF Clean(evt) THEN 0 ELSE 1)
    /\ status' = [status EXCEPT ![w] = "none"]
    /\ ending' = [ending EXCEPT ![w] = "none"]
    /\ UNCHANGED <<registered, call, supervisor, strays>>

(* Not after stopVM, which frees the id itself.  It goes by the id.        *)
Free(w) ==
    /\ life[w] = "ended"
    /\ life' = [life EXCEPT ![w] = "gone"]
    /\ registered' \in (IF Told(w, {"stop"}) THEN {registered} ELSE {})
                       \cup (IF Told(w, {"stop"}) /\ ~Told(w, {"kill"}) THEN {} ELSE {None})
    /\ UNCHANGED <<vars, status, ending, call, about, supervisor, tally>>

(* The VM has ended, or the time of the call is up: then it stores that    *)
(* the VM crashed, unless a second call stores while it looks.             *)
Return(c) ==
    /\ call[c].of # None /\ ~call[c].over
    /\ call' = [call EXCEPT ![c].over = TRUE]
    /\ \E how \in {"crashed", status[call[c].of]} \cup (IF Twice(call[c].of) THEN {"stopped"} ELSE {}) :
          Store(call[c].of, how)
    /\ registered' = None
    /\ UNCHANGED <<vars, life, ending, about, supervisor, tally>>
----------------------------------------------------------------------------
(* The supervisor.                                                         *)

(* recordRestartAt forgets what has left the window; with too many         *)
(* restarts left the supervisor gives up, or else it backs off and goes on.*)
Restart ==
    /\ \E n \in 1..recent + 1 :
          /\ recent' = n
          /\ at' = IF n > MaxRestarts THEN "panicked" ELSE "spawn"
    /\ handoff' = FALSE

(* A wait, or a probe.  Its time may be up when it looks for the first     *)
(* time (a policy may give it none).                                       *)
Begins(probe) == IF probe THEN {"probe", "lateProbe"} ELSE {"wait", "lateWait"}

(* A worker that is handed a state is watched first.                       *)
Spawn(w) ==
    /\ at = "spawn" /\ registered = None /\ life[w] = "unborn"
    /\ registered' = w
    /\ life' = [life EXCEPT ![w] = "running"]
    /\ worker' = w
    /\ at' \in Begins(handoff)
    /\ status' = [status EXCEPT ![w] = "running"]
    /\ UNCHANGED <<vars, ending, call, about, handoff, reconciles, recent, cause, tally>>

(* The id is in use, or the program does not compile.                      *)
SpawnFails ==
    /\ at = "spawn" /\ failures < MaxRefusals
    /\ failures' = failures + 1
    /\ Restart
    /\ UNCHANGED <<vars, workers, about, worker, reconciles, strays, cause>>

Probing == at \in {"probe", "lateProbe"}

IsForWorker(evt) == evt.of # None

(* waitLifecycleEventForVm skips the events of other VMs, except for one   *)
(* that it reads at its deadline; the wait that reconciles skips them all. *)
Accepts(evt) == IsForWorker(evt) \/ at = "lateProbe" \/ (at = "lateWait" /\ ~reconciles)

(* A crash at once is blamed on the state: another spawn, without it.      *)
Probed(evt) ==
    /\ at' \in IF evt.tells = "crash" THEN {"spawn"} ELSE Begins(FALSE)
    /\ handoff' = FALSE
    /\ UNCHANGED recent

(* Mutant: a wait that timed out counts as a restart.                      *)
StepCountingTimeouts(evt) ==
    \/ ~Clean(evt) /\ Restart
    \/ Clean(evt) /\ at' = "returned" /\ UNCHANGED <<handoff, recent>>

(* A worker of which nothing is heard in time is taken for lost.           *)
Step(evt) ==
    \/ evt.tells = "timeout" /\ at' = "spawn" /\ handoff' = FALSE /\ UNCHANGED recent
    \/ Clean(evt) /\ at' = "returned" /\ UNCHANGED <<handoff, recent>>
    \/ evt.tells # "timeout" /\ ~Clean(evt) /\ Restart

Hear(evt) ==
    /\ IF Probing THEN Probed(evt) ELSE Step(evt)
    /\ cause' = IF at' = "returned" THEN evt ELSE cause

(* The next wait is for what remains of the time, if anything does.        *)
Skip ==
    /\ at' \in {at, IF Probing THEN "lateProbe" ELSE "lateWait"}
    /\ UNCHANGED <<handoff, recent, cause>>

(* Only the wait of superviseWithReconcile minds the watermark: its probe  *)
(* does not.                                                               *)
Listen ==
    /\ at \in Waiting
    /\ ReceiveEventTimeout(Supervisor) \/ Retry(Supervisor)
    /\ heard' # heard <=> popped' # popped /\ reconciles /\ ~Probing
    /\ IF popped' = popped THEN UNCHANGED <<at, handoff, recent, cause>>
       ELSE LET evt == about[head] IN
            \/ Accepts(evt) /\ Hear(evt)
            \/ ~Accepts(evt) /\ Skip
    /\ Cleared
    /\ UNCHANGED <<workers, worker, reconciles, tally>>

(* Mutant: the wait has no deadline.                                       *)
NoDeadline == FALSE /\ UNCHANGED allVars

Deadline ==
    /\ at \in Waiting
    /\ Expire(Supervisor)
    /\ Hear(TimedOut)
    /\ UNCHANGED <<workers, about, worker, reconciles, tally>>

Supervise == (\E w \in Workers : Spawn(w)) \/ SpawnFails \/ Listen \/ Deadline
----------------------------------------------------------------------------

Ending(w) == Tell(w) \/ Free(w)

Live == (\E w \in Workers : Stop(w) \/ Ending(w)) \/ (\E c \in Calls : Ask(c) \/ Return(c))

SupNext == Foreign \/ Elsewhere \/ Live \/ Supervise

SupSpec == SupInit /\ [][SupNext]_allVars

(* The supervisor and the other consumers are goroutines that the Go       *)
(* scheduler runs, and time passes; so do calls and ends that have begun.  *)
SupFairSpec ==
    /\ SupSpec
    /\ WF_allVars(Supervise)
    /\ \A r \in Receivers \ {Supervisor} : WF_allVars(Elsewhere /\ Retry(r))
    /\ WF_allVars(\E w \in Workers : Ending(w))
    /\ WF_allVars(\E c \in Calls : Return(c))
----------------------------------------------------------------------------

(* What ends a supervisor.  It returns only on the end of a worker that    *)
(* was told to stop, and not killed (at least not by one call alone), or,  *)
(* if it is supervise, on a foreign event that it read at its deadline.    *)
(* It gives up only after more than maxRestarts refusals and ends that     *)
(* were not told as clean, none of which it has counted twice, though      *)
(* probes, other consumers and the ring take some of them and the same     *)
(* id is waited for again and again.                                       *)
EndsWithCause ==
    /\ at = "returned" =>
         IF IsForWorker(cause) THEN Told(cause.of, {"stop"}) \/ Twice(cause.of) ELSE ~reconciles
    /\ at = "panicked" => failures + (IF reconciles THEN 0 ELSE strays) > MaxRestarts

(* A supervisor does not rest while nobody works, even if the event of its *)
(* worker was overwritten or taken by another consumer: another worker is  *)
(* spawned, or the supervisor has ended.                                   *)
Gone == \E w \in Workers : worker = w /\ life[w] = "gone"
WorkerReplaced ==
    Gone ~> at \in Over \/ ~Gone \/ \A w \in Workers : life[w] # "unborn"

(* "The CAS loop at the end handles that case definitively": two VMs with  *)
(* one id do not run at the same time.                                     *)
OneWorker ==
    \A v, w \in Workers :
        life[v] = "running" /\ life[w] = "running" /\ ~Told(v, {"kill", "stop"})
            /\ ~Told(w, {"kill", "stop"}) => v = w
=============================================================================
