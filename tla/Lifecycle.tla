----------------------------- MODULE Lifecycle -----------------------------
(***************************************************************************)
(* The life of the VMs that are spawned, one after the other or in a race, *)
(* under one id (src/pkg/embed/hypervisor.go): SpawnVM, the goroutine that *)
(* runs a VM, terminateVM (behind killVM and stopVM) and                   *)
(* removeVMResources, which all of them end in.                            *)
(*                                                                         *)
(* The registries are maps from ids.  Only one id is modelled, so each is  *)
(* what it holds for that id.  They are updated one by one, by a compare   *)
(* and swap or under Hypervisor.mu, and every update is a step of its own. *)
(* The same goes for the fields of VMEntry that calls and the goroutine    *)
(* share.  Left out are what onTerminate returns and the status that a     *)
(* call stores when its VM has ended: by then it only reports.             *)
(***************************************************************************)
EXTENDS Integers

CONSTANTS Entries,  \* the VMs (VMEntry), in whatever order they are spawned
          Calls,    \* the calls of killVM and stopVM
          Groups,   \* group names; a VM in no group has one that nobody uses
          None

ASSUME DistinctAssumption == Entries \cap Calls = {} /\ None \notin Entries

VARIABLES vms,        \* Hypervisor.vms: the VM registered under the id
          mailboxes,  \* Hypervisor.mailboxes: the VM whose mailbox it is
          groups,     \* Hypervisor.groups: how often the id is in each group
          configs,    \* Hypervisor.rpcCircuitConfigByVM: the VM it came with
          pc,         \* where each goroutine is
          entry,      \* VMEntry
          status,     \* VMEntry.Status
          exit,       \* how each VM ended, and whether that counts as an error
          told,       \* the status that the event of its end carries
          call,       \* target and kind of each call, and whether it timed out
          hook,       \* the goroutine that terminateVM starts
          onErrors,   \* history: how often onError was called
          overlap     \* history: the id was reused before everything about its
                      \* last VM had returned, or a VM was told to stop before
                      \* SpawnVM had returned it

registries == <<vms, mailboxes, groups, configs>>
locals == <<entry, status, exit, told, call, hook, onErrors>>
vars == <<registries, pc, locals, overlap>>

Modes == {"kill", "stop", "save"}
Removing == {"dropMailbox", "dropVM", "dropGroup", "dropConfig"}
Spawning == {"checked", "joined", "registered", "mailed"}
Ending == {"returned", "noted", "doubted", "judged", "stored", "announced"}
Asking == {"found", "flagged", "marked", "stopping"}
EntryPc == {"unborn", "refused", "running", "done"} \cup Spawning \cup Ending \cup Removing
CallPc == {"idle", "requested", "returned"} \cup Asking \cup Removing
Statuses == {"running", "stopping", "stopped", "crashed"}

Init ==
    /\ vms = None
    /\ mailboxes = None
    /\ groups = [g \in Groups |-> 0]
    /\ configs = None
    /\ pc = [p \in Entries \cup Calls |-> IF p \in Entries THEN "unborn" ELSE "idle"]
    /\ entry \in [Entries -> [group : Groups, stop : {FALSE}, graceful : {FALSE},
                              cancelled : {FALSE}, exitError : {FALSE}]]
    /\ status = [e \in Entries |-> "running"]
    /\ exit = [e \in Entries |-> [err |-> "none", isError |-> FALSE]]
    /\ told = [e \in Entries |-> "running"]
    /\ call = [s \in Calls |-> [target |-> None, mode |-> "kill", late |-> FALSE]]
    /\ hook = [s \in Calls |-> "none"]
    /\ onErrors = [e \in Entries |-> 0]
    /\ overlap = FALSE

Go(p, from, to) == pc[p] = from /\ pc' = [pc EXCEPT ![p] = to]

Finished == /\ \A e \in Entries : pc[e] \in {"unborn", "refused", "done"}
            /\ \A s \in Calls : pc[s] \in {"idle", "returned"}

----------------------------------------------------------------------------
(* SpawnVM.                                                                *)

(* The id is looked up, long before it is taken.                           *)
Check(e) ==
    /\ vms = None
    /\ Go(e, "unborn", "checked")
    /\ overlap' = (overlap \/ ~Finished)
    /\ UNCHANGED <<registries, locals>>

Join(e) ==
    /\ Go(e, "checked", "joined")
    /\ groups' = [groups EXCEPT ![entry[e].group] = @ + 1]
    /\ UNCHANGED <<vms, mailboxes, configs, locals, overlap>>

Register(e) ==
    /\ vms = None
    /\ Go(e, "joined", "registered")
    /\ vms' = e
    /\ UNCHANGED <<mailboxes, groups, configs, locals, overlap>>

(* Another SpawnVM was faster; what Join did stays.                        *)
Refuse(e) ==
    /\ vms # None
    /\ Go(e, "joined", "refused")
    /\ UNCHANGED <<registries, locals, overlap>>

PutMailbox(e) ==
    /\ Go(e, "registered", "mailed")
    /\ mailboxes' = e
    /\ UNCHANGED <<vms, groups, configs, locals, overlap>>

(* The last registry, and the goroutine of the VM is started.              *)
Launch(e) ==
    /\ Go(e, "mailed", "running")
    /\ configs' = e
    /\ UNCHANGED <<vms, mailboxes, groups, locals, overlap>>

Spawn(e) == Check(e) \/ Join(e) \/ Register(e) \/ Refuse(e) \/ PutMailbox(e) \/ Launch(e)
----------------------------------------------------------------------------
(* The goroutine of a VM.                                                  *)

(* The main chunk or onInit fails, panics or exceeds a limit ("fail"), or  *)
(* the context was cancelled: as ctx.Err() or wrapped in another error.    *)
Return(e) ==
    /\ Go(e, "running", "returned")
    /\ \E err \in {"fail"} \cup (IF entry[e].cancelled THEN {"cancelled", "wrapped"} ELSE {}) :
          exit' = [exit EXCEPT ![e].err = err]
    /\ UNCHANGED <<registries, entry, status, told, call, hook, onErrors, overlap>>

(* ExitError is set in the entry that is registered now.                   *)
NoteError(e) ==
    /\ Go(e, "returned", "noted")
    /\ entry' = IF vms = None THEN entry ELSE [entry EXCEPT ![vms].exitError = TRUE]
    /\ UNCHANGED <<registries, status, exit, told, call, hook, onErrors, overlap>>

(* The error is that of an intentional stop.                               *)
StopEnded(e) == entry[e].stop /\ exit[e].err \in {"cancelled", "wrapped"}

(* The stop flag decides whether it was an error, and if it is not set for *)
(* a bare context.Canceled                                                 *)
Judge(e) ==
    /\ Go(e, "noted", IF ~entry[e].stop /\ exit[e].err = "cancelled"
                      THEN "doubted" ELSE "judged")
    /\ exit' = [exit EXCEPT ![e].isError = ~StopEnded(e)]
    /\ UNCHANGED <<registries, entry, status, told, call, hook, onErrors, overlap>>

(* GracefulStop does.                                                      *)
Doubt(e) ==
    /\ Go(e, "doubted", "judged")
    /\ exit' = [exit EXCEPT ![e].isError = ~entry[e].graceful]
    /\ UNCHANGED <<registries, entry, status, told, call, hook, onErrors, overlap>>

Verdict(e) == IF exit[e].isError THEN "crashed" ELSE "stopped"

StoreVerdict(e) ==
    /\ Go(e, "judged", "stored")
    /\ status' = [status EXCEPT ![e] = Verdict(e)]
    /\ UNCHANGED <<registries, entry, exit, told, call, hook, onErrors, overlap>>

(* The event takes the status back from the entry; then onError is called  *)
(* and the event is pushed.                                                *)
Announce(e) ==
    /\ Go(e, "stored", "announced")
    /\ told' = [told EXCEPT ![e] = status[e]]
    /\ onErrors' = [onErrors EXCEPT ![e] = @ + (IF exit[e].isError THEN 1 ELSE 0)]
    /\ UNCHANGED <<registries, entry, status, exit, call, hook, overlap>>

(* In a stop flow the cleanup is left to terminateVM.                      *)
Decide(e) ==
    /\ Go(e, "announced", IF entry[e].stop THEN "done" ELSE "dropMailbox")
    /\ UNCHANGED <<registries, locals, overlap>>

End(e) ==
    \/ Return(e) \/ NoteError(e) \/ Judge(e) \/ Doubt(e)
    \/ StoreVerdict(e) \/ Announce(e) \/ Decide(e)
----------------------------------------------------------------------------
(* removeVMResources, by the goroutine of a VM or by a call.  It is told   *)
(* which VM it is for, and goes by the id.                                 *)

Subject(p) == IF p \in Entries THEN p ELSE call[p].target

DropMailbox(p) ==
    /\ Go(p, "dropMailbox", "dropVM")
    /\ mailboxes' = None
    /\ UNCHANGED <<vms, groups, configs, locals, overlap>>

DropVM(p) ==
    /\ Go(p, "dropVM", "dropGroup")
    /\ vms' = None
    /\ UNCHANGED <<mailboxes, groups, configs, locals, overlap>>

(* Mutant: the group is forgotten.                                         *)
DropNoGroup(p) ==
    /\ Go(p, "dropGroup", "dropConfig")
    /\ UNCHANGED <<registries, locals, overlap>>

DropGroup(p) ==
    /\ Go(p, "dropGroup", "dropConfig")
    /\ groups' = [groups EXCEPT ![entry[Subject(p)].group] = 0]
    /\ UNCHANGED <<vms, mailboxes, configs, locals, overlap>>

(* With it removeVMResources returns, and so does its caller.              *)
DropConfig(p) ==
    /\ Go(p, "dropConfig", IF p \in Entries THEN "done" ELSE "returned")
    /\ configs' = None
    /\ UNCHANGED <<vms, mailboxes, groups, locals, overlap>>

Remove(p) == DropMailbox(p) \/ DropVM(p) \/ DropGroup(p) \/ DropConfig(p)
----------------------------------------------------------------------------
(* terminateVM.                                                            *)

Find(s, mode) ==
    /\ vms # None
    /\ Go(s, "idle", "found")
    /\ call' = [call EXCEPT ![s].target = vms, ![s].mode = mode]
    /\ overlap' = (overlap \/ pc[vms] \in Spawning)
    /\ UNCHANGED <<registries, entry, status, exit, told, hook, onErrors>>

(* KillVM passes saveState for stopRequested, StopVM passes true.          *)
Stops(mode) == mode # "kill"

AfterFirst(s) == IF call[s].mode = "save" THEN "flagged" ELSE "marked"

StoreStop(s, from, to) ==
    /\ Go(s, from, to)
    /\ entry' = [entry EXCEPT ![call[s].target].stop = Stops(call[s].mode)]
    /\ UNCHANGED <<registries, status, exit, told, call, hook, onErrors, overlap>>

StoreGraceful(s) ==
    /\ Go(s, "flagged", "marked")
    /\ entry' = [entry EXCEPT ![call[s].target].graceful = TRUE]
    /\ UNCHANGED <<registries, status, exit, told, call, hook, onErrors, overlap>>

StoreStopping(s) ==
    /\ Go(s, "marked", "stopping")
    /\ status' = [status EXCEPT ![call[s].target] = "stopping"]
    /\ UNCHANGED <<registries, entry, exit, told, call, hook, onErrors, overlap>>

(* The context is cancelled and the hook goroutine started.                *)
Cancel(s, from, to) ==
    /\ Go(s, from, to)
    /\ entry' = [entry EXCEPT ![call[s].target].cancelled = TRUE]
    /\ hook' = [hook EXCEPT ![s] = "waiting"]
    /\ UNCHANGED <<registries, status, exit, told, call, onErrors, overlap>>

(* Mutant: the context is cancelled before the flags are stored.           *)
RequestCancelFirst(s) ==
    \/ Cancel(s, "found", AfterFirst(s)) \/ StoreGraceful(s) \/ StoreStopping(s)
    \/ StoreStop(s, "stopping", "requested")

Request(s) ==
    \/ StoreStop(s, "found", AfterFirst(s)) \/ StoreGraceful(s) \/ StoreStopping(s)
    \/ Cancel(s, "stopping", "requested")

(* Mutant: the hook does not care whether the VM has crashed.              *)
RunHookAnyway(s) ==
    LET e == call[s].target IN
    /\ hook[s] = "waiting"
    /\ pc[e] = "done"
    /\ hook' = [hook EXCEPT ![s] = "ended"]
    /\ onErrors' = IF call[s].mode # "save"
                   THEN [onErrors EXCEPT ![e] = @ + 1] ELSE onErrors
    /\ UNCHANGED <<registries, pc, entry, status, exit, told, call, overlap>>

(* Once the goroutine of the VM has ended, the one of the call saves the   *)
(* state, by onTerminate if there is one, or calls onError.                *)
RunHook(s) ==
    LET e == call[s].target IN
    /\ hook[s] = "waiting"
    /\ pc[e] = "done"
    /\ hook' = [hook EXCEPT ![s] = "ended"]
    /\ onErrors' = IF call[s].mode # "save" /\ ~entry[e].exitError
                   THEN [onErrors EXCEPT ![e] = @ + 1] ELSE onErrors
    /\ UNCHANGED <<registries, pc, entry, status, exit, told, call, overlap>>

Asked(s, e) == call[s].target = e /\ pc[s] \notin {"idle", "found"}

(* Mutant: the call returns, and the cleanup is left to the VM.            *)
AwaitAndReturn(s) ==
    /\ hook[s] = "ended"
    /\ Go(s, "requested", "returned")
    /\ UNCHANGED <<registries, locals, overlap>>

Await(s) ==
    /\ hook[s] = "ended"
    /\ Go(s, "requested", "dropMailbox")
    /\ UNCHANGED <<registries, locals, overlap>>

(* timeoutMs have passed, while the hook goroutine goes on.  The call      *)
(* stores that the VM crashed; stopped only if it is called crashed        *)
(* already and another call changes that between two loads of the status.  *)
TimeOut(s) ==
    /\ Go(s, "requested", "dropMailbox")
    /\ call' = [call EXCEPT ![s].late = TRUE]
    /\ \E st \in {"crashed"} \cup
                  (IF \E t \in Calls \ {s} : Asked(t, call[s].target) THEN {"stopped"} ELSE {}) :
          status' = [status EXCEPT ![call[s].target] = st]
    /\ UNCHANGED <<registries, entry, exit, told, hook, onErrors, overlap>>

Terminate(s) ==
    \/ \E mode \in Modes : Find(s, mode)
    \/ Request(s) \/ RunHook(s) \/ Await(s) \/ TimeOut(s)
----------------------------------------------------------------------------

Next ==
    \/ \E e \in Entries : Spawn(e) \/ End(e) \/ Remove(e)
    \/ \E s \in Calls : Terminate(s) \/ Remove(s)

Spec == Init /\ [][Next]_vars
----------------------------------------------------------------------------

TypeOK ==
    /\ vms \in Entries \cup {None}
    /\ mailboxes \in Entries \cup {None}
    /\ configs \in Entries \cup {None}
    /\ groups \in [Groups -> Nat]
    /\ pc \in [Entries \cup Calls -> EntryPc \cup CallPc]
    /\ entry \in [Entries -> [group : Groups, stop : BOOLEAN, graceful : BOOLEAN,
                              cancelled : BOOLEAN, exitError : BOOLEAN]]
    /\ status \in [Entries -> Statuses]
    /\ exit \in [Entries -> [err : {"none", "fail", "cancelled", "wrapped"}, isError : BOOLEAN]]
    /\ told \in [Entries -> Statuses]
    /\ call \in [Calls -> [target : Entries \cup {None}, mode : Modes, late : BOOLEAN]]
    /\ hook \in [Calls -> {"none", "waiting", "ended"}]
    /\ onErrors \in [Entries -> Nat]
    /\ overlap \in BOOLEAN

Serving(e) == pc[e] = "running" /\ ~entry[e].cancelled

(* If ids are reused only after everything about the last VM has returned, *)
(* a running VM keeps all of its registrations.                            *)
ServingIsRegistered ==
    ~overlap => \A e \in Entries : Serving(e) =>
                   vms = e /\ mailboxes = e /\ configs = e /\ groups[entry[e].group] = 1

(* And when all have ended nothing of them is left in any registry,        *)
(* whatever crashed, timed out or was stopped at the same time.            *)
NothingLeft ==
    (~overlap /\ Finished) =>
        vms = None /\ mailboxes = None /\ configs = None /\ \A g \in Groups : groups[g] = 0

(* Both together: the registries follow the VMs.                           *)
RegistriesFollow == ServingIsRegistered /\ NothingLeft

TimedOut(e) == \E s \in Calls : call[s].target = e /\ call[s].late

Requested(e, modes) == \E s \in Calls : Asked(s, e) /\ call[s].mode \in modes

(* More calls than it takes to end the VM.                                 *)
Crowded(e) == \E s, t \in Calls : Asked(s, e) /\ Asked(t, e) /\ (s # t \/ exit[e].err = "fail")

(* A call had a reason to store this status beside the verdict.            *)
Meddled(e, st) == \/ st = "stopping" /\ Crowded(e)
                  \/ TimedOut(e) /\ (st = "crashed" \/ Crowded(e))

Announced == {"announced", "done"} \cup Removing

(* The event tells a supervisor why the VM ended, whatever flags the calls *)
(* set meanwhile: it is an error only after a failure or a killVM, and     *)
(* none only after a stopVM.  And its status is this verdict, unless one   *)
(* call more than it takes to end the VM, or one that has timed out,       *)
(* overwrites the status between the goroutine's store and load.           *)
EventTellsWhy ==
    \A e \in Entries :
        /\ pc[e] \in {"judged", "stored"} \cup Announced =>
              IF exit[e].isError THEN exit[e].err = "fail" \/ Requested(e, {"kill"})
              ELSE exit[e].err # "fail" /\ Requested(e, {"stop", "save"})
        /\ pc[e] \in Announced => told[e] = Verdict(e) \/ Meddled(e, told[e])

(* "If it didn't crash earlier, call onError": no VM gets two last words,  *)
(* as long as ids are not reused early and no call times out.              *)
OnErrorOnceInTime == ~overlap => \A e \in Entries : TimedOut(e) \/ onErrors[e] <= 1

(* A VM that has ended does not stay listed, even if ids are reused early: *)
(* it is not, or somebody is still going to clean up after it.             *)
EndedIsCleanedUp ==
    \A e \in Entries :
        (pc[e] = "done" /\ vms = e) =>
            \E s \in Calls : call[s].target = e /\ pc[s] \notin {"idle", "returned"}
=============================================================================
