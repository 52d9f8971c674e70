# Funxy in TLA+

Models, model-checking runs and proofs about [funxy](../src/README.md): the two
back ends that run the language, which are meant to agree, the persistent values
they share, and the concurrent runtime under it: the tasks of one VM, the hypervisor
(VMM) that runs many VMs in one process and lets them exchange mailbox messages,
events and RPC calls, and the supervisor that restarts them. Paths below are
relative to the repository (`src/`).

## 1. Inventory

Funxy is a statically typed language. A program goes through a chain of passes
(lexer, parser, analyzer, compiler) and is run by one of two back ends, a
bytecode VM (the default) or a tree walker (a flag). Concurrency lives in the
library under it: tasks (`internal/evaluator/builtins_task.go`) and the
supervisor/worker runtime (`pkg/embed`).

| Part | State | Operations | What makes it hard | What makes it correct |
|---|---|---|---|---|
| **Compiler** (`internal/vm/compiler*.go`) | per function: locals with slots, upvalues, scope depth, slot count, loop contexts, tail position | one case per kind of node, patterns, destructuring, paths | the slot count is a guess about a stack it does not see; a jump leaves code half way | the guess is the machine's stack, on every path |
| **Virtual machine** (`internal/vm/vm*.go`) | value stack, frames, open upvalues, globals | one case per opcode, calls with defaults and spread arguments, captured variables | variables that outlive their slots, tail calls that reuse frames, returns from inside loops and defaults | every program means the same on both back ends |
| **Analyzer** (`internal/analyzer`, `internal/typesystem`) | substitutions, type variables, symbol tables | one `infer...` per kind of node, unification, `isExhaustive` | what a pattern says about a type, whether arms cover every value | what is accepted has its type when it runs |
| **Tree walker** (`internal/evaluator`) | chain of environments | one `eval...` per kind of node, signals for return, break, continue | signals that pass through every construct; scopes made at run time | the same |
| **Persistent collections** (`internal/evaluator/persistent_*.go`, `object_collections.go`, `builtins_list.go`, `builtins_map.go`) | trees of shared arrays and nodes | append, update, slice, concatenate; put, remove, merge; `lib/list`, `lib/map` | sharing: an update copies a path and keeps the rest; root overflow, hash collisions, two forms of one list | a value never changes, the functions are those of sequences and functions |
| **Tasks** (`internal/evaluator/builtins_task.go`) | `Task`, pool counter and condition | `async`, `await*`, `taskCancel`, `taskMap`..., pool limit | signal without the lock, limit changes, nested awaits | bounded, every task runs, one outcome |
| **Mailbox** (`pkg/embed/mailbox.go`) | bounded queue, `closed`, notify channel, counters | `Send`, `SendWait`, `Receive`, `ReceiveWait`, `ReceiveBy`, `ReceiveByWait`, `Peek*`, `Close` | priorities, eviction, blocking with timers, a predicate that runs without the lock | order per class, bounded, exactly once or evicted, no lost wakeup, exact counters |
| **Event ring** (`pkg/embed/hypervisor.go`, `kit/vmm/vmm.lang`) | ring with head/size/seq, drop counter, notify channel; a watermark per consumer | push, pop, `ReceiveEvent`, `ReceiveEventTimeout`, `consumeEventWithGap` | wrap-around, overflow, several consumers, timers racing events | numbered stream that loses only its oldest, gaps equal losses, no lost wakeup |
| **RPC circuit breaker** | one `rpcCircuit` per target | `beforeRPCCall`, `afterRPCCall`, statistics, removal | calls that overlap changes of the circuit | one probe per half-open period and always one, opens on time and with cause |
| **Group RPC** | `groups`, `groupIndices`, the circuits | `callWaitGroup` (three variants) | shared round-robin index, members that come and go, retries | balanced, returns, does not miss a healthy member |
| **VM lifecycle** | `vms`, `mailboxes`, `groups`, circuit configurations, a `VMEntry` per VM, its goroutine | `SpawnVM`, `killVM`, `stopVM`, the end of a VM, `removeVMResources` | registries updated one by one, cleanup by two goroutines, timeouts, reuse of ids | events say why, cleanup once and complete, no VM lost |
| **RPC call and state handoff** | `StateHandler` shared by a VM and its RPC handlers | `rpcCallFastRaw`, `getState`, `setState`, `onTerminate` | handlers still running while the state is captured | a state that was acknowledged is handed over |
| **RPC trace** | subscribers, trace ring, filters | emit, subscribe, unsubscribe | sends after the unlock, close of a channel | a subscriber cannot break a call |
| **Supervisor library** (`kit/vmm/vmm.lang`) | restarts in the window, watermark, state to hand over | `supervise`, `spawnWithStateValidation` | timeouts taken for ends, events consumed by a probe | restarts bounded, a clean exit ends it |

How they interact. The parser hands the same tree to the analyzer, and then to the
compiler or to the tree walker; both back ends share values, builtins and the runtime
below. A program calls the hypervisor through builtins
(`internal/evaluator/builtins_supervisor.go`, `builtins_mailbox.go`,
`builtins_rpc.go`), which convert values. `async` forks the interpreter and runs a
closure on a goroutine of its own. `SpawnVM` puts a VM into the registries and
starts its goroutine; the end of a VM, a crash or a stop, is published in the event
ring, and a supervisor written in Funxy (`kit/vmm`) reads it there, possibly by
spawning the same id again. VMs send each other messages by id, through the mailbox
registry, and call each other by id or group, through the circuit breaker of the
target. Removing a VM closes its mailbox, takes it out of its group and deletes its
circuit, while calls to it may be running.

The remaining parts are listed, each with its reason, in `PROJECT.json`. The
hazards, each at the line where it bites and with the properties that watch it, are
there too.

## 2. Plan

Done, in this order: mailbox (and its selective receives), event ring, circuit
breaker, group routing, lifecycle, task pool, the two back ends of the language,
the persistent collections, the supervisor on top of the event ring, and the
analysis of matches.

Next, in this order:

1. `StateHandoff`: RPC handlers, `onTerminate` and the state that is passed on.
2. `RpcTrace`: subscribe, unsubscribe and emit.
3. Pure algorithms: the parser and the printer as inverses.
4. Proofs for these. Those of the mailbox and its selective receives, the ring, the
   supervisor, the circuit, the lifecycle, the groups, the tasks and the vectors are
   done (section 5); the tries of maps come next.

## 3. Modules

Modules named `MC...` declare symmetries for TLC, and the programs and values of
the runs `tasks`, `backends` and `collections`. Bodies marked "Mutant"
next to a definition are plausible mistakes in the code; each property is
shown to notice one of them. "History" variables record what happened and never
influence a step.

### Mailbox: `MailboxQueue`, `Mailbox`, `MailboxPromise`, `MailboxQueueProofs`, `MailboxProofs`

`MailboxQueue` has the pure part of `insertMessage` and `tryInsert`: where a
message goes, whether there is room, which message is the victim and when it gives
way. They are relations between queues (`Inserted(q, m, r)`, `IsVictim(q, d)`)
rather than loops. `Mailbox` has the operations that block. All of them run under
`mb.mu` except for the select, so an attempt is one action and a caller is
"no" (not waiting), "parked" in its select, or "woken" by a closed notify channel;
`broadcast` turns every "parked" into "woken". `GiveUpSend` and `GiveUpReceive` are
the timer or the context. A message is a record of a stamp (history: the order of
acceptance), an importance and a kind (what a predicate can tell of it).

`MailboxPromise` is the abstract specification: a message is accepted, then
delivered once or evicted, and a closed box accepts nothing. `Mailbox` refines it
with `box` mapped to the set of queued messages.

Left out: the counters of refusals, the block duration and the scan depth (only
reported), and importances outside 1..5 (see the hazard at `mailbox.go:262`).

### Selective receives: `SelectiveReceive`, `SelectiveReceiveProofs`

`ReceiveBy` and `ReceiveByWait` release the mutex while the predicate runs on a
message and go on with an index and with the slice header they copied before. The
model keeps what Go keeps: `arrays` (backing arrays), `off` and `len` (the current
header), and for each scan its own header and position. Insertions overwrite the
array in place when its capacity suffices (`Overwritten`) and move to a new one
otherwise (`Grown`); a receive moves `off`. A scan that matches removes by its
position in the current queue, whatever that is by now, and panics when it is out
of range: `ReceiveByWait` then leaves the mutex locked (`wedged`), and since a panic
in a VM is recovered (`internal/vm/vm.go`), everyone else blocks. Senders that block
are not modelled here; a blocked sender is one that sends later.

### Event ring: `EventRing`, `EventStream`, `EventRingProofs`

`Push` is `pushEventLocked` with the two cases of room and overwriting, `Pop` is
`popEventLocked`, and the two receive calls park and retry as the mailbox does. An
event is its `seq`. Each consumer applies `consumeEventWithGap` to what it is
handed (`lastSeq`, `missed`), or reads past its watermark as a probe does: then the gap
it sees later is what was dropped and what it took. `EventStream` is what the ring promises: events are
numbered without holes, taken in order and at most once, and the oldest is lost
(and counted) only when `Capacity` newer ones wait. The refinement maps the live
slots of the ring, from the head on, to the pending sequence.

Left out: the fallback to a default when `eventCap <= 0`, and the other fields of an
event.

### Supervisor: `Supervisor`, with its proofs in `EventRingProofs`

`supervise` and `superviseWithReconcile` are a consumer of the event ring, so the
module extends `EventRing`, whose actions it composes: `Listen` is a receive
together with what the supervisor makes of the event, `Deadline` the end of a wait,
`Spawn` and `SpawnFails` a call of `spawnVM`, with or without the state to hand over,
and `at` says in which of its waits it is (the probe after a handoff, the wait for the
end of the worker, and either of them when its time is up but for one last look).
Only the wait of `superviseWithReconcile` moves the watermark (`consumeEventWithGap`);
the probe, and all of `supervise`, read the queue without it.

Of a worker there is what a supervisor can tell: it runs; `Stop` ends it and stores
how; `Tell` publishes its event, with the status that the entry has by then; `Free`
takes it out of the registry. `Ask` and `Return` are calls of `stopVM` and `killVM`,
which store a status of their own in between (`stopping`, `crashed`, `stopped`) and
whose cleanup goes by the id (`Lifecycle` has the steps one by one). What an event says
is kept beside its slot (`about`). Events of other VMs (`Foreign`) and other consumers
that take events away (`Elsewhere`) are steps of their own, and happen at any time,
whatever the supervisor does; what those consumers make of an event is nothing to it, so
that they keep no watermark here. An event says no more than `supervise` asks it: that its
VM was stopped, that it crashed, or neither (`tells`), which is also what the event that
is made up for a wait without one says (`TimedOut`). A wait may find its time up when it
looks for the first time (`Begins`).

Left out: the arithmetic of the backoff and of the restart window (any of the
restarts that are remembered may have left it), `waitVmExit` and `waitVmCrash`, which
are the same loop with another filter.

### Circuit breaker: `CircuitOps`, `RpcCircuit`, `RpcCircuitProofs`

`CircuitOps` has what `beforeRPCCall` and `afterRPCCall` do to a circuit, as
functions. `RpcCircuit` has several callers: an admitted call is recorded with the
half-open period it was admitted in, and its outcome arrives at any later time, in
any order, perhaps after the target was removed and its circuit was made anew
(`Remove`). `Observe` is the pruning by readers of the statistics. Time is a counter
that ticks at any moment.

Left out: arguments, results and their serialization; the configuration's parsing.
The circuit of an unknown id is created and never removed; that is a leak, no state
of interest.

### Group routing: `RpcGroup`, `RpcGroupProofs`

The three variants of `callWaitGroup` are one loop: take the size of the group,
then for so many turns pick (`getNextVMInGroup`), ask the circuit
(`beforeRPCCall`), look the VM up, run and report (`afterRPCCall`). Each of them
takes the lock for itself, so each is an action, and members join and leave in
between: the group may become empty; `Join` and `Register` are the two updates of `SpawnVM`, `Unregister`,
`Leave` and `Forget` those of `removeVMResources`. A failed member is followed by
the next, whatever the error. The members that are up at the start have joined in any
order. A VM is in its group once, so that `Leave` takes out the one place that it has
(the loop of the code would take out them all). The types of a group need finitely
many members, which `MembersAssumption` says.

### Lifecycle: `Lifecycle`, `LifecycleProofs`

Several VMs (`Entries`) that are spawned under one id, and several calls of
`killVM`/`stopVM`. The id's entries in the registries are variables, updated one per
action in the order of the code. `Check`, `Join`, `Register`/`Refuse`, `PutMailbox`,
`Launch` are `SpawnVM`; `Return`, `NoteError`, `Judge`, `Doubt`, `StoreVerdict`,
`Announce`, `Decide` the end of the goroutine; `Find`, `Request`, `RunHook`, `Await`/`TimeOut` are `terminateVM`; and
`DropMailbox`, `DropVM`, `DropGroup`, `DropConfig` are `removeVMResources`, which
both run, for an id rather than for a VM. The stores of `terminateVM` into the entry it
shares with the goroutine (`StopRequested`, `GracefulStop`, the status) and the
cancellation are one action each, in the order of the code (`Request`), and so are the
goroutine's two looks at the flags (`Judge`, `Doubt`), its store of the status and its load
of it for the event (`StoreVerdict`, `Announce`). The history variable `overlap` notes
whether the id was reused before everything about its last VM had returned.

Every VM has a mailbox here, and one that joins no group is in a group of its own.
Left out: compiling and sandboxing; the programs of the hooks (each one step, of
any result); and what a call stores as status after the VM has ended (`Await`), since its event
is out by then.

### Tasks: `TaskPool`, `EvaluatorProofs`

`Lock`, `Test`, `Wait`, `Take` are `AcquirePoolSlot` under `poolCond.L`; `Release`
and `Signal` are `ReleasePoolSlot`, which takes no lock, so the signal may fall
between the test and the wait of another task. `SetLimit` is `taskSetGlobalPool`,
which wakes nobody. The goroutine of `async` (`Begin`, `Finish`, `Store`, the deferred
release and the recovery of a panic) differs between the back ends, and `onVM` says
which it is. `awaitAll`, `awaitAny` and `awaitFirst` are one client that reads a
result channel; `taskMap`, `taskFlatMap` and `taskCatch` are goroutines that wait for
their source and run their function as another pooled task. What a task's function
comes to (a value, an error, one with an empty message, a panic) is any of what the
program allows; on the VM the error of a closure is never empty, as it is given its
position (`Worded`). `disturbed` notes that a signal was given between a test and a
wait, or that the limit was changed: without either, no wakeup is lost. A program is a
`shape` of its tasks (who waits for whom, who runs whose function), and `ShapeOK` says
which shapes calls can make: each call makes a `Task` of its own. What a combinator
passes on is what it has read of its source, which for a panic of the tree walker is
the error it has left or, as the channel is closed first, none yet (`Left`). These two,
the empty message and that panic, are what the code takes for values (`Mistaken`):
`AnswersTrue` and `CombinesTrue` say what is told apart nevertheless, and section 6
where the tutorial promises more.

Left out: the queries `taskIsDone` and `taskIsCancelled`, which change nothing.

### Persistent collections: `PersistentVector`, `PersistentMap`, `Collections`, `ImmutableValues`, `EvaluatorProofs`

The heap is a sequence of objects (the arrays of a vector, the nodes of a trie, the
cells of a list), allocated and never freed; an operator of the first two modules
takes a heap and returns a heap and a reference, so that what two values share is
explicit and a write in place would show in both. `PersistentVector` is the
bit-partitioned tree with its tail: `Append` with root overflow, `Update`, `Slice`,
`Concat`, `Prepend`. The code finds its way down by shifting an index by a multiple
of `bits` and masking it; the model's level counts these multiples, and since shifting by
`bits` is dividing by `width`, `Digit(i, level)` is the digit of `i` in base `width`.
Functions of the code that call themselves one level down (`newPath`, `pushTail`,
`doAssoc`) are given by the array they allocate on each level: `Trail(h, v, i)[l]` is
the array of level `l` on the way to index `i`, nil where the tree has none, and the
arrays allocated for levels 0, 1, ... lie one after the other on the heap. Without
`RECURSIVE` operators, the module can be reasoned about (section 5). `PersistentMap` is the hash trie: `put`, `remove` and `get` by the
digits of a hash, buckets where the hash is used up, nodes pulled up when one child is
left. `Collections` adds the hybrid lists (a vector, or cells in front of one), the
functions of `lib/list` and `lib/map`, and the machine: a value is made from those that
exist and joins them. `ImmutableValues` is the promise: values are sequences and
functions, and none ever changes; `Collections` implements it with every value mapped
to what its reference reads in the current heap.

Left out: declared element types, `forEach` and `mapFold` (the folds stand for
them), and `internal/vm/globals_map.go`, the same trie with string keys.

### The language: `Syntax`, `Compiler`, `StackMachine`, `TreeWalk`, `Backends`

`Syntax` has the nodes that the parser hands on and the values both back ends
share: integers, Booleans, lists, tuples, maps, records, data (`Some`, `Ok`...),
ranges and functions. `Compiler` turns a program into chunks of instructions: its
record `c` is the Go struct of one function's compiler (`locals`, `upvalues`,
`depth`, `slots`, `loops`, `tail`), passed from statement to statement, and there is one
operator for each `compile...` method. Code that changes the count of slots changes
`c.slots` here, also where the Go code gets it wrong. A jump is an offset, patched as in the
code. Each instruction notes the slot count it was compiled at (history), which the
machine's stack must meet.

`StackMachine` has one action per instruction, on a stack, a list of frames with
their closures, and the heap of upvalues, open (a slot) or closed (a value). A
default that is missing runs on the machine as `executeDefaultChunk` does. A program
which the compiler refuses (an assignment to a global in a function, `break` outside a
loop, a pattern it does not know after the dots of a tuple) never starts: its result
is `Refused`, no value of the language. `OnlyOneRefuses`, an assumption of `MCBackends`
that TLC evaluates, is such a program, which the tree walker runs (section 6).
`TreeWalk` evaluates the same tree by structural recursion with an environment
store; what an `eval...` function returns is a value or a signal (return, break,
continue, error), which every construct passes on or takes, as the code does.
`Backends` puts the two beside each other.

What is modelled of both: literals, arithmetic and comparison, `&&`, `||`, `??`,
`|>` with `_`, `|>>`, `$`, `,,`, `?`, `::`, `++`, blocks, `if`, `match` with guards
and all patterns but strings, `while`, `for`, `break` and `continue` with values,
early `return`, closures, functions with defaults and variadic parameters, spread
arguments, records, maps, paths and their updates, optional members, destructuring,
constants, ranges and comprehensions, of lists and maps. Left out: traits,
dictionaries and type contexts (`OP_SET_TYPE_CONTEXT`, witnesses), `do` notation,
string patterns and interpolation, the other number types, modules, the debugger's
hooks, and the tree walker's trampoline (`TailCall` objects): it evaluates the call
where the trampoline would resume it.

### The analyzer: `Types`, `MatchTyping`

`Types` has the types as records, substitutions as functions, `Apply` (which follows a
substitution through what it puts in place, but never a variable twice), `Compose` and
`Unify`, with the code's rules for unions: members are told apart and sorted by
their spelling, and a type unifies with the first member that it can.
`MatchTyping` has `inferPattern`, what a match, the literals and the constructors in it
are inferred to be, and `isExhaustive` with its cases for lists, variants, tuples,
records and unions. The programs of `backends` that are a match, alone or as the body of
a function, are those which the model accepts (the constant `InferredTypes`, which
the configurations set to `ProgramTypes`, has the type of each, computed once);
`WellTyped` compares what they end with
to the type they were given, and `SameOutcome` shows that an arm was found.

Left out: kinds, aliases, strict mode, row variables, functions and polytypes, and
the typing of everything else. The run also leaves out the matches for which the check of the
arms is known not to be enough (`Separable`, `SameFields` and `SpreadsTuple` in
`MCBackends`; section 6 lists them).

## 4. Runs

| Run | Instance | What it shows |
|---|---|---|
| `mailbox` | each strategy, capacity 3, `DropOnFull` 3, 2 senders, 2 receivers, 4 messages of 3 importances | order, eviction of the oldest of the least important, counters, refinement of `MailboxPromise`, no lost wakeup, `Close` releases everyone, blocked callers are served |
| `selective_race` | `dropNew`, capacity 2, 2 receivers, 3 messages of 2 kinds, System messages | stale scans cannot break the order of the queue or the counters; scans that nothing overtook are exact |
| `selective_wrong_message` | 1 receiver, a System message | violation: the wrong message is removed (`mailbox.go:458`) |
| `event_ring` | capacity 2, a supervisor of 2 workers and another consumer, 3 events of which up to 1 is foreign, 1 call, 1 restart, 2 refused spawns | accounting, gaps, no lost wakeup, refinement of `EventStream`, the other consumer is served; the supervisor ends with cause, and replaces a worker that is gone or gives up |
| `supervisor_doubled` | 3 workers, 1 call, another consumer | violation: two workers run under one id (`hypervisor.go:1311`, `vmm.lang:184`) |
| `rpc_circuit` | threshold 2, window 2, 2 callers, 7 calls, 5 ticks | a half-open circuit has its one probe, counters, opening in time and with cause, resolution |
| `rpc_group` | 2 members of which one leaves and rejoins, 2 callers, 2 calls | balance, index in range, undisturbed calls miss no healthy member, calls return |
| `lifecycle` | 2 VMs, 2 calls of `killVM`/`stopVM` | cleanup is complete and somebody's job, `onError` is called once, ids that are reused late keep their registrations; the verdict on why a VM ended is right, and its event carries it, unless a call too many or a late one stores its status in between |
| `tasks` | 12 programs of up to 4 tasks, both back ends, every outcome | slots are counted right, wakeups are kept as far as the code can keep them, awaits and combinators tell the truth but for what is `Mistaken`, every await returns |
| `backends` | 4442 programs: 38 contexts inside each other, in a function and in a script, and 1554 accepted matches of one to three arms on lists, options, results, Booleans, tuples, records and unions | both back ends print and return the same, the compiler's slot count is the machine's, captured variables are sound, tail calls leave nothing undone, a match ends with a value of its inferred type |
| `collections` | arrays of 2 cells, 1 bit per level in tries, hashes of 3 bits, lists of 0, 1, 2, 4 and 6 elements, 6 maps with colliding keys, 2 calls | values never change while their parts are shared (refinement of `ImmutableValues`), `lib/list` and `lib/map` agree with sequences and functions, the trie is as deep as its keys need |
| `backends_differ` | one script | violation: ten ways in which the back ends disagree with the documentation and each other |

Bounds, and why they are enough to be of use. The mailbox and ring capacities are
the least at which insertion in the middle, eviction in the middle and
an overwrite with both indices wrapping around (3 events in 2 slots) occur; the importances
include one below, one at and one above `DropOnFull`, and System. Two senders and two
receivers suffice for a wakeup to go to the wrong one. The threshold of 2 and
window of 2 let failures fall in and out of the window; 7 calls and 5 ticks let the
circuit open, probe, close and open again, with a late outcome from each earlier
period. Two VMs under one id are what all the races of reuse need: a third repeats
the roles of the first two; a doubled worker needs three, one to crash, one to be
removed in its place and one to double. One restart and two refusals are enough for
the supervisor to give up either way. Of two calls one sets the flags which the verdict
is about, and the other stores its status between the verdict and the event. The proofs remove these bounds from every safety
property of the mailbox, the ring, the supervisor, the circuit, the groups, the lifecycle
and the tasks. Four tasks are a source, a function, the
task it returns and one that competes with them for a slot. The contexts of
`backends` are one for each construct, with a hole where an expression may stand:
two levels of nesting put each construct into each other one, in the positions
(operand, condition, guard, argument, loop body, last expression) that decide about
slots and tail calls. `MaxFrames` 8 is more than any of the programs needs.
Arrays of two cells make trees of three levels out of seven elements: with the 32 cells
of the code the same cases (tail full, root overflow, an index in the tail, in a
middle level) need a thousand and more. The theorems about vectors hold for any width,
height and length. Two calls suffice for a value to be branched
from twice, or to be changed after it was shared.

`CHECK_DEADLOCK FALSE` is set where the system may rest: consumers block for good when
no event comes, bounded calls and spawns are used up, and a wedged mutex stops
everyone (`selective_race`); a task whose signal was lost sleeps on (`tasks`); the calls
of `collections` are used up. The view
of `backends` leaves out the code, which the number of the program determines; that of
`lifecycle` keeps the status only from the store of the verdict to the load for the event, and
what the event says only when it has just been told: before, the status is overwritten, no
guard depends on either, and `EventTellsWhy` cannot become false later, as requests and
timeouts are not undone.

Fairness. Weak fairness of the retry of a woken goroutine (mailbox, ring): it is
runnable, and the Go scheduler runs it. Weak fairness of the outcome of a call
(circuit, groups): `rpcCallFastRaw` waits in a select with a timer. A call with
`timeoutMs <= 0` has no timer and is excluded; the default is 5000. In `tasks`, a
goroutine that can run does (weak fairness of its steps), the lock of `poolCond` is
a Go mutex, which does not starve a waiter (strong fairness of `Lock`), and the functions of
tasks return. A supervisor is a goroutine whose waits have deadlines, so weak
fairness of its steps (`Supervise`); so is another consumer, and weak fairness of its
retry once it was woken is all that `ConsumerServed` needs; the goroutine of a VM that has
ended tells so and frees the id (`Ending`), as nothing in it waits; and a call of `stopVM`
or `killVM` returns (`Return`), by its timer. Nothing obliges anybody to send,
call, stop or publish.

## 5. Proofs

Checked by TLAPS for all values of the constants that satisfy the assumptions of
the modules: positive capacities, importances within 1..5, positive circuit
parameters (which `normalizeRPCCircuitConfig` ensures), `None` outside the data, arrays
of two cells or more (the code has 32).

- `MailboxProofs` proves the safety properties of `Mailbox`, `NoLostWakeup` and the
  refinement of `MailboxPromise`. The inductive invariant `IInv` adds to the
  properties that every stamp in the queue, delivered or evicted is at most
  `accepted` (so a new message is the youngest), that System messages lead and each
  class is in order (so the end of the System run is where the order is kept), and
  that a delivered message is older than the queued ones of its class. The lemmas
  about `InsertAfter` and `RemoveAt`, in `MailboxQueueProofs`, say where each element of
  a queue is afterwards and that its order is kept. An eviction that takes the oldest of the least importance keeps
  `EvictsOldestFirst` because the victim is the first of its importance.
- `SelectiveReceiveProofs` proves the three properties of the run `selective_race`, for
  any capacity, strategy and number of receivers. `KeepsOrder` and `AccountedFor` hold
  because a stale removal still cuts exactly one element out of an ordered queue.
  `ExactUndisturbed` is about the Go slices: `HeaderKept` says that the header a scan
  copied stays within its array, since arrays are overwritten and never shrink, and
  `SeesFront` that a scan which nothing overtook still sees the front of the queue,
  either through the array the queue lives in, whose front a send does not change, or
  through an older one that nobody writes any more. Hence what the predicate
  accepted is at that position of the queue of now (`ScansHold`). A receive by another
  makes the queue shorter, which overtakes every scan.
- `EventRingProofs` proves the accounting, the gaps, `NoLostWakeup` and the
  refinement of `EventStream`. The heart is `Contiguous`: live slots, from the head
  on, hold the last `size` numbers. It needs the arithmetic of `(head + i) %
  Capacity`, proved once as lemmas (distinct offsets are distinct slots, moving the
  head shifts offsets).
- `RpcCircuitProofs` proves the safety properties and `OpensForCause`. The invariant
  adds that a half-open circuit's probe is the only call of the current period, that
  the remembered failures are a suffix of the failures since the last success and
  that the forgotten ones are older than the window, from which both directions
  of "opens exactly when" follow.
- `LifecycleProofs` proves all four invariants of the run, for any number of VMs and
  calls. `EventTellsWhy` and `EndedIsCleanedUp` are about what other goroutines did
  before, so the invariant `IInv` explains the present by the past: every flag of a
  VM by a request of the kind that sets it (`FlagsExplained`), every error by a
  cancellation (`ErrorsExplained`), and the id in the registry by a VM that has not
  been removed yet, by itself or by a call (`RegisteredOnce`). `RequestedStays` says
  that requests are never undone. What the verdict is follows from the flags alone;
  what the event says may differ from it, and then there is a call that stored it
  (`Meddled`): one that overlaps another (`stopping`), or one that has timed out
  (`crashed`, `stopped`). `RegistriesFollow` and `OnErrorOnceInTime` hold
  only while ids are not reused early, which makes the VMs take turns: somebody is
  `Busy` with at most one (`OneAtATime`), and only a new VM, which waits for all to
  be `Finished`, makes another one busy. The second invariant, `Orderly`, says that each
  registration belongs to a VM which it has not been removed for, and which somebody
  is going to remove it for (`HoldersKnown`: `Holds` is one pattern for three
  registries, with the places before a registration and after its removal); that
  a call in time removes only after the VM has ended (`CallsInTime`); that until then
  the VM has what it has registered (`Registered`), because nobody else does anything
  (`Alone`, `Quiet`); and that its error is noted in its own entry, whereupon no hook
  calls `onError` (`ErrorsNoted`).
- `RpcGroupProofs` proves `RoundRobin` and `HealthyTried`, for any number of members and
  of calls that share the index. `Ahead(p)` is the number of picks before the p-th
  member's turn: a pick moves everyone one place ahead, and the picked one to the end.
  `RoundsEven` says that everybody's picks are those of a round, and one more for those
  who have had their turn in it; a departure or an arrival starts the count anew.
  `Covers` says of a call that has the group for itself that every healthy member
  whose turn does not come within the picks it has left was tried; at the start it has
  as many picks left as there are members, so that nobody is left out, and at its end it
  has none.
- The first part of `EvaluatorProofs` proves `PoolBound`, `WakeupsKept`, `AnswersTrue` and
  `CombinesTrue`, for any programs that calls can make (`ShapeOK`), any number of
  tasks, limits and cancellations, on both back ends. `SlotsCounted` has the task that has
  found a free slot under the lock and not taken it yet, which others can only make
  truer: they release. `SomebodyComes` extends the promise of `WakeupsKept` to
  a task that has found no slot and is about to wait. `OutcomesTold` says that a closed
  channel is one after which nothing changes that an await can read, but for a panic
  of the tree walker, `SourcesKept` what that means for a combinator, and `ChannelTrue`,
  `SeenSoFar` and `AnswerFinal` what a client has been told so far. It needs that nobody is
  spawned twice (`SpawnedOnce`). `AnswersTrue` and `CombinesTrue` say of every outcome
  that it is told for what it was, except of an error without a message and of a panic
  of the tree walker (`Mistaken`), which the code does take for values (section 6). What is
  proved of these two is that `awaitAny` does not succeed by them.
- The second part proves the persistent vector correct, for arrays of any width, trees
  of any height and vectors of any length. `Represents(h, v, s)` says that on heap `h`
  the vector `v` stands for the sequence `s`: its tail holds the last elements, and there
  is a layout of its tree, `node[l][q]`, the array of level `l` for the indices `i` with
  `i \div width^(l + 1) = q`, which refers to the arrays below it (`Branches`), has the
  elements of `s` on the lowest level (`Leaves`) and has arrays for those elements and no
  others (`Covers`). Each function is shown to make a vector that stands for what the
  function is on sequences: `VectorGetCorrect`, `VectorAppendCorrect`,
  `VectorUpdateCorrect`, `VectorFromCorrect`, `VectorConcatCorrect`,
  `VectorPrependCorrect`, `VectorSliceCorrect`; and to write to no array that was there
  (`Extends`), from which `Persistence` follows: no vector is ever disturbed by what is made
  of it. The argument for `Append` and `Update` is one lemma, `GrownLayout`: replacing
  the arrays on the way to one index leaves the places of all others alone
  (`SameChild`). `Overflow` shows that the test for a new root is exact, and `ZeroDigit`
  that a path of new arrays may use cell 0 throughout, as `newPath` does.
  The height and the length are data, so this is induction over data. It is done without
  the library's induction theorems, whose operator parameter the provers cannot
  instantiate: a set of natural numbers that has 0 and with `n` has `n + 1` is `Nat`
  (`InductionOnNat`, from the well-foundedness of `<`), and a recursive function (`Power`,
  `AppendAll`) exists because its finite beginnings do and agree (`PowerSteps`,
  `RunExists`, `AppendAllRuns`). One definition had to be corrected on the way:
  `VectorGet` and `VectorUpdate` were a `CASE` whose guards overlapped for an index
  beyond the end, where the code returns before it looks at the tail.
- Of `Supervisor`, `EventRingProofs` proves that supervisors do to the ring only what `EventRing`
  allows (`SupervisorKeepsRing`: `SupSpec` implies its `Spec`), so that all theorems
  about the ring hold with supervisors, and `EndsWithCause`, for any number of workers,
  calls, restarts and other consumers. The argument that nothing is counted twice is
  one inequality of `SupInv`: the restarts that are remembered (`recent`) and the queued events that may yet
  be charged (`Charged`) are together at most what has happened (`Charges`: refused spawns and
  ends not told as clean, those of other VMs only for `supervise`, which reads them at its
  deadline). A push adds at most one to both sides, a receive moves at most one from the queue
  to the memory, and a wait that times out adds to neither. That
  a return is caused by a stop is `Queued` and `Prepared`: an event, and a status that is
  about to become one, says `stopped` only of a worker that somebody asked to end.

`TypeOK`, `CapacityBound`, `CountersConsistent` and the like are proved and not run as
properties of their own: the runs check what depends on them. Every inductive
invariant was checked by TLC on the instance of its run before it was proved.

Only model-checked: all liveness (`CloseReleasesAll`, `WaitersServed`,
`ConsumerServed`, `WorkerReplaced`, `ProbeResolved`, `GroupCallReturns`, `AwaitReturns`), since
fairness is out of the prover's reach; the language
and the analyzer (`FramesSound`, `SameOutcome`, `WellTyped`), whose compiler, evaluator and
types are recursive operators over syntax trees, which the prover does not take; and
the collections as programs use them (`ListAnswers`, `TrieShape`, `ImplementsValues`),
which are as much about maps and cells as about vectors: the trie, the cells and the
functions of `lib/list` are recursive operators too.

## 6. What the code does otherwise

Shown by runs, and listed as findings:

1. `ReceiveBy` removes by a stale index: a message is lost and another is delivered
   twice (`selective_wrong_message`).
2. The cleanup after a VM removes the VM that got its id next, and a supervisor that
   hears nothing of its worker spawns another next to it (`supervisor_doubled`).
3. The back ends of the language disagree (`backends_differ`): `continue` in a `while`
   counts a slot that is gone; a call as a guard, and the calls in the body of a loop,
   in tail position replace the function; a default that calls a function ends at that
   function's return, and one that names a captured variable reads another; a typed
   name inside a pattern has the wrong slot; a destructured global is not registered;
   the machine ignores what a list pattern asks of the rest of the list unless it is a name
   (`compiler_patterns.go:707`);
   in the tree walker destructuring in a block does not assign; and a match that the
   analyzer accepts has no arm for its value, as it looks at the positions of a tuple
   one by one (`exhaustiveness.go:208`).
Seen in the model, against what the repository says. The properties of section 4 that hold
name these as the exceptions, so that the runs and the theorems say when they occur, and that
nothing else of the kind does.

- At its deadline `supervise` takes the event of any VM for that of its worker
  (`vmm.lang:140`), and returns on a foreign stop while the worker runs
  (`kit/vmm/README.md:55`: "Runs until worker exits cleanly"). `EndsWithCause` has it as the
  one way to return without a stop of the worker, only for `supervise` and only at
  the deadline.
- A gap that is told to `reconcileFn` need not be a drop: the supervisor's own probe and other
  consumers read events past its watermark (`vmm.lang:157`; the tutorial,
  `47_vmm.md:725`, says that events were dropped). `GapsAreDrops` counts what was told:
  the drops and what was taken past the watermark, no more and no less.
- The event of an intentional stop says `stopping` where a second `stopVM` overlaps the
  first, and `crashed` or `stopped` where a call has timed out: the status is stored at
  `hypervisor.go:1150` and read back at 1155, and the calls store theirs in between
  (`47_vmm.md:742` says `stopped`). A supervisor does not take such a worker for one that
  ended cleanly. `EventTellsWhy` says that it takes one of these calls (`Meddled`).
- An error with an empty message is awaited as `Ok` (`builtins_task.go:259`), and a panic of
  the tree walker is noted only after the task is done (`builtins_task.go:183,189`), so that
  it can be taken for a value, by a combinator too; `37_task.md:342` says that a panic will be
  `Fail`. In `AnswersTrue` and `CombinesTrue` these are `Mistaken`.
- The compiler refuses a tuple pattern whose rest is `_` (`compiler_patterns.go:606`), which
  the analyzer accepts, the tree walker matches and `15_pattern_matching.md:58,121` does not
  except from what the rest of a tuple and nested patterns may be. `OnlyOneRefuses`
  shows it; the programs of `backends` avoid it.

Read in the code while modelling; the programs of the runs avoid them.

- `ReceiveByWait` takes its notify channel after the scan, so that a message that comes
  between the two is slept on (`mailbox.go:498`). With two consumers of the event
  ring a gap in `seq` is not a drop either, and concurrent group calls can miss a healthy
  member: the tutorial promises otherwise.
- Supervisor: a named worker that is well makes `supervise` panic, by default after some
  8 seconds: the wait times out, and each further spawn is refused as the id is taken and
  counts as a restart. A "stopped" event of an earlier worker
  ends the supervision of the next, and the probe after a handoff consumes the event
  of a clean exit that the wait after it is for. The wait of `waitVmExit` has the same
  deadline as that of `supervise`, although its test says that it filters.
- Lists: the code, `19_builtins.md:286-298,425` and the model agree that `head`, `last`, `nth`,
  `tail` and `init` return the element or the list itself and that `concat` takes two lists.
  Other pages of the tutorial have it otherwise: `06_lists.md:99,101,105` (`Some(10)` and so
  on for `head`, `last`, `nth`), `06_lists.md:116-117` (`Some([2, 3, 4, 5])` for `tail`, `init`),
  `06_lists.md:220` (`concat` of a list of lists), `17_error_handling.md:424` and
  `05_strings.md:107` (`Some` for `head` and `last`).
- Collections: equal maps whose keys collide list their entries in the order of
  insertion. `PersistentVector.Update` and `Prepend` are not reached from the language.
- Compiler: `k = g(k)` as the last statement of a function becomes a tail call and never
  assigns, and so do `f $ g(x)` and the iterable or output of a comprehension at the end
  of a function; a tail call that leaves out a default argument leaves its slot unset;
  `?` before `|>`, and a filter before any generator of a comprehension, upset the count
  of slots; generator variables are popped, not closed; a statement function counts its
  variadic parameter as required; the fields of a record are evaluated in the order of
  a Go map (`compiler.go:505`); a range with step 0 never ends (in the tree it is empty).
- Tree walker: `?` in the condition of `if`, the scrutinee of `match`, the iterable of `for` or
  the value of a path update does not return early, and `(a, b) = e?` with `None` is an error; the type
  names `Map`, `Tuple` and `Record` never match a pattern; a path through a map is an
  error (on the VM it works); a match without a matching arm is an error (on the VM nil);
  a top-level `return` does not stop the program; partial application appends to a
  slice it shares with its other uses.
- Analyzer: an arm with a guard counts as one without, so that a match may end without an
  arm; list arms with a spread count as "at least one element", whatever they ask of
  the elements; variants with several refined arguments are judged column by column
  too. A record pattern that names a field which an open record's type does not have is taken; a
  tuple pattern with a spread says nothing about a value of unknown type. A type
  unifies with the first member of a union that it can, so a name may be bound at a
  type narrower than its value (`match u { q: Bool -> q, q -> q }` is typed `Bool`, `unify.go:178`).
- Printer (`code_printer.go`) against parser: `??` has precedence 2 in one and 3 in the
  other, so that `(a |> f) ?? b` loses its parentheses; parameters without a type are printed
  `x: `, defaults are dropped, `{ x }` for a record is read back as a block, and `?.` is
  printed as `.`.
