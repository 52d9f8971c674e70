---------------------------- MODULE MCLifecycle ----------------------------
(* Model checking of Lifecycle on small instances.                         *)
EXTENDS Lifecycle, TLC

(* The VMs are interchangeable, and so are the calls.                      *)
Symmetry == Permutations(Entries) \cup Permutations(Calls)

(* The status of a VM matters from the store of the verdict to the load for *)
(* the event, and what the event says when it says so: before, the status  *)
(* is overwritten, and nothing reads either of them later.  (EventTellsWhy *)
(* cannot become false later: requests and timeouts are not undone.)       *)
StatusRead ==
    [e \in Entries |-> CASE pc[e] = "stored" -> status[e]
                         [] pc[e] = "announced" -> told[e]
                         [] OTHER -> "none"]
Live == <<registries, pc, entry, StatusRead, exit, call, hook, onErrors, overlap>>
=============================================================================
