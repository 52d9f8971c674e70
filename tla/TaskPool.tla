------------------------------ MODULE TaskPool ------------------------------
(***************************************************************************)
(* Tasks, the pool that bounds them, and those who wait for them           *)
(* (src/internal/evaluator/builtins_task.go, asyncHandler of               *)
(* src/internal/vm/vm.go).                                                 *)
(*                                                                         *)
(* A task is a goroutine.  Its shape is fixed: what kind it is, and which  *)
(* other tasks it needs.  What its function comes to is any outcome.       *)
(* Values are all alike: "value", or None for Go's nil.                    *)
(***************************************************************************)
EXTENDS Integers, Sequences, FiniteSets

CONSTANTS Tasks,
          Programs,  \* what the program does: [shape, wait, limits, cancels]
          None

Kinds == {"async", "resolved", "rejected", "map", "catch", "flatMap", "fn"}

(* What the function of a task comes to: an error whose message may be     *)
(* empty, a value, or a panic of the interpreter.                          *)
Ends == {"value", "error", "empty", "panic"}

(* source is what a combinator waits for, fn the task that runs its        *)
(* function on the VM; next is the task that the body of an async awaits,  *)
(* or that the function of a taskFlatMap returns.                          *)
TaskShape == [kind : Kinds, source : Tasks \cup {None}, fn : Tasks \cup {None},
              next : Tasks \cup {None}, ends : SUBSET Ends]

(* Each call of async or of a combinator makes a new Task: nobody else runs *)
(* the function of a combinator, which only the combinator spawns, and     *)
(* nobody else spawns the task that a function spawns.                     *)
ShapeOK(s) ==
    /\ \A t \in Tasks : s[t].kind \in {"map", "catch", "flatMap"} =>
          s[t].source # None /\ s[t].fn # None
    /\ \A t \in Tasks : s[t].kind = "flatMap" => s[t].next # None
    /\ \A t \in Tasks : s[t].fn # None =>
          s[t].kind \in {"map", "catch", "flatMap"} /\ s[s[t].fn].kind = "fn"
    /\ \A t \in Tasks : s[t].next # None =>
          s[t].kind \in {"async", "flatMap"} /\ s[s[t].next].kind \notin {"resolved", "rejected", "fn"}
    /\ \A t, u \in Tasks : s[t].fn = s[u].fn /\ s[t].fn # None => t = u
    /\ \A t, u \in Tasks : s[t].next = s[u].next /\ s[t].next # None => t = u
    /\ \A t \in Tasks : s[t].kind = "fn" => \E u \in Tasks : s[u].fn = t

(* A program has a shape, one call of await..., the limits that it sets,   *)
(* the first of them at the start, and the tasks that it may cancel.       *)
ASSUME ProgramsAssumption ==
    /\ None \notin Tasks \cup {"value", "ok", "fail", "timeout"}
    /\ \A p \in Programs :
          /\ p.shape \in [Tasks -> TaskShape]
          /\ ShapeOK(p.shape)
          /\ p.wait.mode \in {"all", "any", "first"}
          /\ p.wait.tasks \in Seq(Tasks) \ {<<>>}
          /\ p.wait.timed \in BOOLEAN
          /\ p.limits \in Seq(Nat \ {0}) \ {<<>>}
          /\ p.cancels \subseteq Tasks

VARIABLES onVM,       \* which back end runs the program
          program,
          set,        \* how many limits it has set
          limit,      \* poolLimit
          current,    \* poolCurrent
          holder,     \* who holds poolCond.L
          waiting,    \* the notify list of poolCond
          pc,
          cancelled,  \* Task.cancelled
          err,        \* Task.err
          result,     \* Task.result
          done,       \* whether the channel Task.done is closed
          channel,    \* resultCh of the call of await...
          at,         \* how far it has come
          answer,     \* what it returned
          did,        \* history: what came of each task
          highest,    \* history: the highest limit so far
          disturbed   \* history: the limit was changed, or a signal was given
                      \* between the test and the wait of a task

pool == <<set, limit, current, holder, waiting>>
outcome == <<err, result, done, did>>
client == <<channel, at, answer>>
history == <<highest, disturbed>>
fixed == <<onVM, program>>
vars == <<fixed, pool, pc, cancelled, outcome, client, history>>

shape == program.shape
wait == program.wait

Kind(t) == shape[t].kind
Pooled(t) == Kind(t) \in {"async", "fn"}
Combinator(t) == Kind(t) \in {"map", "catch", "flatMap"}

Init ==
    /\ onVM \in BOOLEAN
    /\ program \in Programs
    /\ set = 1
    /\ limit = program.limits[1]
    /\ current = 0
    /\ holder = None
    /\ waiting = <<>>
    /\ pc = [t \in Tasks |-> IF Kind(t) \in {"resolved", "rejected"} THEN "over" ELSE "unborn"]
    /\ cancelled = [t \in Tasks |-> FALSE]
    /\ err = [t \in Tasks |-> IF Kind(t) = "rejected" THEN "error" ELSE ""]
    /\ result = [t \in Tasks |-> IF Kind(t) = "resolved" THEN "value" ELSE None]
    /\ done = [t \in Tasks |-> Kind(t) \in {"resolved", "rejected"}]
    /\ channel = <<>>
    /\ at = 0
    /\ answer = None
    /\ did = [t \in Tasks |-> CASE Kind(t) = "resolved" -> "value"
                                [] Kind(t) = "rejected" -> "error"
                                [] OTHER -> "nothing"]
    /\ highest = limit
    /\ disturbed = FALSE

Go(t, from, to) == pc[t] = from /\ pc' = [pc EXCEPT ![t] = to]

----------------------------------------------------------------------------
(* What the program does with tasks and with the pool.                     *)

(* Its own functions spawn the tasks that others need.                     *)
Spawned == {shape[t].fn : t \in Tasks} \cup {shape[t].next : t \in Tasks}

(* async and the combinators.                                              *)
Spawn(t) ==
    /\ t \notin Spawned
    /\ shape[t].source # None => pc[shape[t].source] # "unborn"
    /\ Go(t, "unborn", "spawned")
    /\ UNCHANGED <<fixed, pool, cancelled, outcome, client, history>>

(* The body of t spawns the task that it awaits.                           *)
SpawnInner(t) ==
    /\ Kind(t) = "async" /\ pc[t] = "running" /\ shape[t].next # None
    /\ Go(shape[t].next, "unborn", "spawned")
    /\ UNCHANGED <<fixed, pool, cancelled, outcome, client, history>>

(* taskCancel.                                                             *)
Cancel(t) ==
    /\ t \in program.cancels /\ pc[t] # "unborn" /\ ~cancelled[t]
    /\ cancelled' = [cancelled EXCEPT ![t] = TRUE]
    /\ UNCHANGED <<fixed, pool, pc, outcome, client, history>>

(* taskSetGlobalPool stores the limit and wakes nobody.                    *)
SetLimit ==
    /\ set < Len(program.limits)
    /\ set' = set + 1
    /\ limit' = program.limits[set + 1]
    /\ highest' = IF limit' > highest THEN limit' ELSE highest
    /\ disturbed' = TRUE
    /\ UNCHANGED <<fixed, current, holder, waiting, pc, cancelled, outcome, client>>

----------------------------------------------------------------------------
(* AcquirePoolSlot.                                                        *)

Lock(t) ==
    /\ Pooled(t) /\ holder = None
    /\ \/ Go(t, "spawned", "testing")
       \/ Go(t, "woken", "testing")
    /\ holder' = t
    /\ UNCHANGED <<fixed, set, limit, current, waiting, cancelled, outcome, client, history>>

(* Mutant: the limit itself is let through.                                *)
IsFullLate == current > limit

IsFull == current >= limit

Test(t) ==
    /\ Go(t, "testing", IF IsFull THEN "full" ELSE "free")
    /\ UNCHANGED <<fixed, pool, cancelled, outcome, client, history>>

(* poolCond.Wait joins the notify list, then unlocks.                      *)
Wait(t) ==
    /\ Go(t, "full", "asleep")
    /\ waiting' = Append(waiting, t)
    /\ holder' = None
    /\ UNCHANGED <<fixed, set, limit, current, cancelled, outcome, client, history>>

Take(t) ==
    /\ Go(t, "free", "started")
    /\ current' = current + 1
    /\ holder' = None
    /\ UNCHANGED <<fixed, set, limit, waiting, cancelled, outcome, client, history>>

Acquire(t) == Lock(t) \/ Test(t) \/ Wait(t) \/ Take(t)

(* ReleasePoolSlot, which takes no lock.                                   *)
Release(t) ==
    /\ Go(t, "releasing", "signalling")
    /\ current' = current - 1
    /\ UNCHANGED <<fixed, set, limit, holder, waiting, cancelled, outcome, client, history>>

(* Mutant: a slot is handed back and nobody is told.                       *)
SignalNobody(t) ==
    /\ Go(t, "signalling", IF did[t] = "panic" THEN "recovering" ELSE "over")
    /\ UNCHANGED <<fixed, pool, cancelled, outcome, client, history>>

(* The one that has waited longest is woken.  A panic is recovered last.   *)
Signal(t) ==
    LET next == IF did[t] = "panic" THEN "recovering" ELSE "over" IN
    /\ IF waiting = <<>>
       THEN Go(t, "signalling", next) /\ UNCHANGED waiting
       ELSE /\ pc[t] = "signalling"
            /\ pc' = [pc EXCEPT ![t] = next, ![Head(waiting)] = "woken"]
            /\ waiting' = Tail(waiting)
    /\ disturbed' = (disturbed \/ \E u \in Tasks : pc[u] = "full")
    /\ UNCHANGED <<fixed, set, limit, current, holder, cancelled, outcome, client, highest>>

----------------------------------------------------------------------------
(* The goroutine of async, once it has a slot.                             *)

ErrOf(end) == IF end = "error" THEN "error" ELSE ""
ResultOf(end) == IF end = "value" THEN "value" ELSE None

(* The result or the error is stored; a task that was cancelled has none.  *)
Store(t, end) ==
    LET what == IF cancelled[t] /\ Pooled(t) THEN "cancelled" ELSE end IN
    /\ err' = [err EXCEPT ![t] = IF what = "cancelled" THEN what ELSE ErrOf(end)]
    /\ result' = [result EXCEPT ![t] = IF what = "cancelled" THEN @ ELSE ResultOf(end)]
    /\ did' = [did EXCEPT ![t] = what]

(* Only the tree walker looks whether the task was cancelled meanwhile.    *)
Start(t) ==
    /\ Go(t, "started", IF cancelled[t] /\ ~onVM THEN "closing" ELSE "running")
    /\ IF cancelled[t] /\ ~onVM
       THEN Store(t, "value") /\ UNCHANGED done
       ELSE UNCHANGED outcome
    /\ UNCHANGED <<fixed, pool, cancelled, client, history>>

(* The function of a taskFlatMap spawns the task that it returns.          *)
ReturnedBy(t) ==
    IF Kind(t) = "flatMap" THEN shape[t].next
    ELSE LET mappers == {u \in Tasks : shape[u].fn = t /\ Kind(u) = "flatMap"}
         IN IF mappers = {} THEN None ELSE shape[CHOOSE u \in mappers : TRUE].next

EndAt(t, end, place) ==
    pc' = [u \in Tasks |-> IF u = t THEN place
                           ELSE IF end = "value" /\ u = ReturnedBy(t) THEN "spawned" ELSE pc[u]]

(* The VM adds where it was to the error of a closure, but leaves that of  *)
(* a builtin alone, which the function of a combinator may be.             *)
Worded(t, end) == IF onVM /\ Kind(t) = "async" /\ end = "empty" THEN "error" ELSE end

(* In the tree walker the deferred calls close the channel, release the    *)
(* slot and then note a panic; on the VM Complete stores and closes under  *)
(* the mutex, before the release, or after it in case of a panic.          *)
Finish(t, end) ==
    /\ pc[t] = "running"
    /\ Kind(t) = "async" /\ shape[t].next # None => done[shape[t].next]
    /\ EndAt(t, end, IF onVM THEN "releasing" ELSE "closing")
    /\ IF end = "panic"
       THEN did' = [did EXCEPT ![t] = end] /\ UNCHANGED <<err, result, done>>
       ELSE /\ Store(t, Worded(t, end))
            /\ done' = [done EXCEPT ![t] = onVM]
    /\ UNCHANGED <<fixed, pool, cancelled, client, history>>

Close(t) ==
    /\ Go(t, "closing", IF Pooled(t) THEN "releasing"
                        ELSE IF did[t] = "panic" THEN "recovering" ELSE "over")
    /\ done' = [done EXCEPT ![t] = TRUE]
    /\ UNCHANGED <<fixed, pool, cancelled, err, result, did, client, history>>

Recover(t) ==
    /\ Go(t, "recovering", "over")
    /\ IF onVM
       THEN Store(t, "error") /\ done' = [done EXCEPT ![t] = TRUE]
       ELSE err' = [err EXCEPT ![t] = "error"] /\ UNCHANGED <<result, done, did>>
    /\ UNCHANGED <<fixed, pool, cancelled, client, history>>

Run(t) == Start(t) \/ (\E end \in shape[t].ends : Finish(t, end)) \/ Close(t) \/ Recover(t)
----------------------------------------------------------------------------
(* taskMap, taskFlatMap and taskCatch: a goroutine that waits for other    *)
(* tasks without a slot, and that no taskCancel concerns.                  *)

(* A panic is passed on as the error it has left, or none yet.             *)
Left(t) == CASE did[t] # "panic"                  -> did[t]
             [] did[t] = "panic" /\ err[t] = ""   -> "empty"
             [] did[t] = "panic" /\ err[t] # ""   -> "error"

Copy(d, t) ==
    /\ err' = [err EXCEPT ![d] = err[t]]
    /\ result' = [result EXCEPT ![d] = IF err[t] = "" THEN result[t] ELSE @]
    /\ did' = [did EXCEPT ![d] = Left(t)]
    /\ UNCHANGED done

(* Mutant: taskCatch also handles what is no error.                        *)
PassesNone(d) == Kind(d) # "catch" /\ err[shape[d].source] # ""

(* What the combinator is not for is passed on.                            *)
Passes(d) == (Kind(d) = "catch") <=> (err[shape[d].source] = "")

Observe(d) ==
    /\ Combinator(d) /\ pc[d] = "spawned" /\ done[shape[d].source]
    /\ IF Passes(d)
       THEN Go(d, "spawned", "closing") /\ Copy(d, shape[d].source)
       ELSE /\ pc' = IF onVM THEN [pc EXCEPT ![d] = "applying", ![shape[d].fn] = "spawned"]
                     ELSE [pc EXCEPT ![d] = "applying"]
            /\ UNCHANGED outcome
    /\ UNCHANGED <<fixed, pool, cancelled, client, history>>

(* The tree walker applies the function right there.                       *)
Apply(d, end) ==
    /\ ~onVM /\ pc[d] = "applying"
    /\ LET follows == Kind(d) = "flatMap" /\ end = "value" IN
       /\ EndAt(d, end, IF follows THEN "following" ELSE "closing")
       /\ IF follows THEN UNCHANGED outcome
          ELSE IF end = "panic" THEN did' = [did EXCEPT ![d] = end] /\ UNCHANGED <<err, result, done>>
          ELSE Store(d, end) /\ UNCHANGED done
    /\ UNCHANGED <<fixed, pool, cancelled, client, history>>

(* The VM has it run as another task; what is no task cannot be followed.  *)
Collect(d) ==
    LET fn == shape[d].fn IN
    /\ onVM /\ pc[d] = "applying" /\ done[fn]
    /\ IF Kind(d) = "flatMap" /\ result[fn] # None
       THEN Go(d, "applying", "following") /\ UNCHANGED outcome
       ELSE /\ Go(d, "applying", "closing")
            /\ IF Kind(d) = "flatMap" /\ err[fn] = ""
               THEN Store(d, "error") /\ UNCHANGED done
               ELSE Copy(d, fn)
    /\ UNCHANGED <<fixed, pool, cancelled, client, history>>

Follow(d) ==
    /\ Go(d, "following", "closing")
    /\ done[shape[d].next]
    /\ Copy(d, shape[d].next)
    /\ UNCHANGED <<fixed, pool, cancelled, client, history>>

Combine(d) == Observe(d) \/ (\E end \in shape[d].ends : Apply(d, end)) \/ Collect(d) \/ Follow(d)
----------------------------------------------------------------------------
(* await, awaitAll, awaitAny, awaitFirst and their timed variants.         *)

Outcome(t) == IF err[t] # "" THEN [kind |-> "fail", value |-> None]
              ELSE [kind |-> "ok", value |-> result[t]]

InTurn == wait.mode = "all"
Awaiting == at > 0 /\ answer = None
N == Len(wait.tasks)

Answer(a) == answer' = a /\ UNCHANGED <<fixed, pool, pc, cancelled, outcome, history>>

Call ==
    /\ at = 0
    /\ \A i \in 1..N : pc[wait.tasks[i]] # "unborn"
    /\ at' = 1
    /\ UNCHANGED <<fixed, pool, pc, cancelled, outcome, channel, answer, history>>

(* awaitAll, and await as its special case: in the order of the list.      *)
AwaitNext ==
    /\ Awaiting /\ InTurn
    /\ done[wait.tasks[at]]
    /\ IF Outcome(wait.tasks[at]).kind = "fail"
       THEN Answer("fail") /\ UNCHANGED at
       ELSE /\ at' = at + 1
            /\ Answer(IF at = N THEN "ok" ELSE None)
    /\ UNCHANGED channel

(* awaitAny and awaitFirst: a goroutine per task passes its outcome on.    *)
Forward(i) ==
    /\ Awaiting /\ ~InTurn
    /\ done[wait.tasks[i]]
    /\ \A k \in 1..Len(channel) : channel[k].i # i
    /\ channel' = Append(channel, [i |-> i, outcome |-> Outcome(wait.tasks[i])])
    /\ UNCHANGED <<fixed, pool, pc, cancelled, outcome, at, answer, history>>

(* Mutant: awaitAny returns what comes first.                              *)
TakeAnyFirst ==
    /\ Awaiting /\ wait.mode = "any" /\ channel # <<>>
    /\ Answer(channel[1].outcome.kind)
    /\ UNCHANGED <<at, channel>>

(* awaitAny takes the first value and counts everything else.              *)
TakeAny ==
    /\ Awaiting /\ wait.mode = "any" /\ at <= Len(channel)
    /\ IF channel[at].outcome.value # None
       THEN Answer("ok") /\ UNCHANGED at
       ELSE /\ at' = at + 1
            /\ Answer(IF at = N THEN "fail" ELSE None)
    /\ UNCHANGED channel

TakeFirst ==
    /\ Awaiting /\ wait.mode = "first" /\ channel # <<>>
    /\ Answer(channel[1].outcome.kind)
    /\ UNCHANGED <<at, channel>>

TimeOut ==
    /\ Awaiting /\ wait.timed
    /\ Answer("timeout")
    /\ UNCHANGED <<at, channel>>

Await == AwaitNext \/ (\E i \in 1..N : Forward(i)) \/ TakeAny \/ TakeFirst
----------------------------------------------------------------------------

Step(t) == Acquire(t) \/ Release(t) \/ Signal(t) \/ Run(t) \/ Combine(t) \/ SpawnInner(t)

Next ==
    \/ \E t \in Tasks : Spawn(t) \/ Cancel(t) \/ Step(t)
    \/ SetLimit
    \/ Call \/ Await \/ TimeOut

Spec == Init /\ [][Next]_vars

(* Goroutines run; a lock that is free again and again is got (mutexes of  *)
(* Go are fair to whoever waits for long); functions return.               *)
FairSpec == Spec /\ (\A t \in Tasks : SF_vars(Lock(t)) /\ WF_vars(Step(t)))
                 /\ WF_vars(Await)
----------------------------------------------------------------------------

(* "Maximum 2 parallel tasks": as many run as slots are taken, and never   *)
(* more than the highest limit there has been, whatever panics, is         *)
(* cancelled or is woken while others start.                               *)
Holding == {t \in Tasks : Pooled(t) /\ pc[t] \in {"started", "running", "closing", "releasing"}}

PoolBound == current = Cardinality(Holding) /\ current <= highest

(* Unless the limit changes or a signal falls between the test and the     *)
(* wait of a task, those who wait while slots are free are being woken:    *)
(* for every free slot somebody is on the way.                             *)
OnTheWay == {t \in Tasks : pc[t] \in {"signalling", "woken", "testing", "free"}}

WakeupsKept == (waiting # <<>> /\ ~disturbed) => limit - current <= Cardinality(OnTheWay)

(* What passes for a value, because err is empty when it is looked at: an  *)
(* error that has no message, and a panic of the tree walker, which closes *)
(* the channel before it notes it.                                         *)
Mistaken == {"empty"} \cup (IF onVM THEN {} ELSE {"panic"})

TakenForValue(t) == did[t] \in {"value"} \cup Mistaken
Awaited == {wait.tasks[i] : i \in 1..N}

(* awaitAny succeeds only with a value that a task has ("Returns first     *)
(* successful result, ignores failures until all fail").  awaitAll and     *)
(* awaitFirst take no error that has a message, no cancellation and on the *)
(* VM no panic for a success; what is Mistaken they do, though the         *)
(* tutorial has it that a panic "will be Fail in Result".  And none of     *)
(* them fails without a task that did: awaitAny, without all.              *)
AnswersTrue ==
    /\ answer = "ok" /\ wait.mode = "all" => \A t \in Awaited : TakenForValue(t)
    /\ answer = "ok" /\ wait.mode = "any" => \E t \in Awaited : did[t] = "value"
    /\ answer = "ok" /\ wait.mode = "first" => \E t \in Awaited : TakenForValue(t)
    /\ answer = "fail" => IF wait.mode = "any" THEN \A t \in Awaited : did[t] # "value"
                          ELSE \E t \in Awaited : did[t] # "value"

(* map and flatMap hide no error of the source that has a message, no      *)
(* cancellation and on the VM no panic; to what is Mistaken they apply     *)
(* their function, as if it were a value.  And catch never touches a       *)
(* value.                                                                  *)
CombinesTrue ==
    \A d \in Tasks : Combinator(d) /\ done[d] =>
        LET source == shape[d].source IN
        /\ Kind(d) # "catch" /\ err[d] = "" => TakenForValue(source)
        /\ Kind(d) = "catch" /\ did[source] = "value" => did[d] = "value"

Nested == Cardinality({t \in Tasks : Kind(t) = "async" /\ shape[t].next # None})

(* If no wakeup is lost and more slots exist than tasks that await others  *)
(* inside of them, every await returns.                                    *)
AwaitReturns == Awaiting ~> (answer # None \/ disturbed \/ limit <= Nested)
=============================================================================
