----------------------------- MODULE MCTaskPool -----------------------------
(* Model checking of TaskPool on small programs.                           *)
EXTENDS TaskPool, TLC

CONSTANTS a, b, c, d

Task(kind, source, fn, next, ends) ==
    [kind |-> kind, source |-> source, fn |-> fn, next |-> next, ends |-> ends]
Async(ends) == Task("async", None, None, None, ends)
Fn(ends) == Task("fn", None, None, None, ends)
Resolved == Task("resolved", None, None, None, {})
Rejected == Task("rejected", None, None, None, {})

Program(tree, mode, tasks, timed, limits, cancels) ==
    [shape |-> tree, wait |-> [mode |-> mode, tasks |-> tasks, timed |-> timed],
     limits |-> limits, cancels |-> cancels]

Of(w, x, y, z) == (a :> w @@ b :> x @@ c :> y @@ d :> z)

Value == {"value"}
Fails == {"value", "error"}

(* Three tasks that compete for one slot, or while the limit changes.      *)
Competing == Of(Async(Fails), Async(Value), Async({"panic"}), Rejected)

(* A task that awaits another one in its body.                             *)
Nesting == Of(Task("async", None, None, b, Value), Async(Fails), Async(Value), Resolved)

Combining(kind, ends) == Of(Task(kind, b, c, None, ends), Async(ends), Fn(ends), Resolved)
FlatMapping(ends) == Of(Task("flatMap", b, c, d, ends), Rejected, Fn(ends), Async(ends))
Chaining == Of(Task("flatMap", b, c, d, Fails), Resolved, Fn(Fails), Async(Fails))

MCPrograms ==
    {Program(Competing, "any", <<a, b, c>>, FALSE, <<1>>, {}),
     Program(Competing, "all", <<d, a>>, FALSE, <<2, 1, 2>>, {b}),
     Program(Nesting, "all", <<a, c>>, FALSE, <<2>>, {b})}
    \cup {Program(Combining(kind, Ends), mode, <<a, b>>, mode = "all", <<1>>, {a, b}) :
             kind \in {"map", "catch"}, mode \in {"all", "any", "first"}}
    \cup {Program(tree, "first", <<a>>, FALSE, <<1>>, {d}) : tree \in {FlatMapping(Ends), Chaining}}
=============================================================================
