-------------------------- MODULE LifecycleProofs --------------------------
(***************************************************************************)
(* Proofs about Lifecycle, for any number of VMs and of calls: its types,  *)
(* why a VM ended (EventTellsWhy), that somebody cleans up after it        *)
(* (EndedIsCleanedUp), that the registries follow the VMs                  *)
(* (RegistriesFollow), and that a VM has one last word (OnErrorOnceInTime).*)
(***************************************************************************)
EXTENDS Lifecycle, TLAPS

Early == {"unborn", "checked", "joined", "refused"}
Over == Ending \cup Removing \cup {"done"}

(* Goroutines of VMs and of calls keep to their own programs.              *)
PcOK == /\ \A e \in Entries : pc[e] \in EntryPc
        /\ \A s \in Calls : pc[s] \in CallPc

(* A call has a target once it has found one, which was registered then;   *)
(* its hook exists once it has cancelled the context.                      *)
CallsOK ==
    \A s \in Calls :
        /\ pc[s] \in {"idle"} \cup Asking => hook[s] = "none"
        /\ pc[s] = "idle" => ~call[s].late
        /\ pc[s] = "flagged" => call[s].mode = "save"
        /\ pc[s] # "idle" => call[s].target \in Entries /\ pc[call[s].target] \notin Early

Hooked(e) == \E s \in Calls : call[s].target = e /\ hook[s] # "none"

(* Every flag of a VM was set by a request of the kind that sets it, and a *)
(* stop flag that is not set although a call has stored it was stored by a *)
(* killVM last.                                                            *)
FlagsExplained ==
    \A e \in Entries :
        /\ entry[e].stop \/ entry[e].graceful => Requested(e, {"stop", "save"})
        /\ entry[e].cancelled => Hooked(e)
        /\ Requested(e, Modes) => entry[e].stop \/ Requested(e, {"kill"})

(* A VM that has returned has an error, of a cancellation only if there    *)
(* was one; it is in doubt about a cancellation by killVM only.            *)
ErrorsExplained ==
    \A e \in Entries :
        /\ pc[e] \in Over <=> exit[e].err # "none"
        /\ exit[e].err \in {"cancelled", "wrapped"} => entry[e].cancelled
        /\ pc[e] = "doubted" => exit[e].err = "cancelled" /\ Requested(e, {"kill"})

(* What the event is going to take for the status.                         *)
StatusExplained ==
    \A e \in Entries : pc[e] = "stored" => status[e] = Verdict(e) \/ Meddled(e, status[e])

(* The id is a VM's only between its registration and a removal for it,    *)
(* whoever does that; a VM that leaves its removal to others was told to.  *)
RegisteredOnce ==
    \A e \in Entries : vms = e =>
        /\ pc[e] \notin Early \cup {"dropGroup", "dropConfig"}
        /\ \A s \in Calls : call[s].target = e =>
              pc[s] \notin {"dropGroup", "dropConfig", "returned"}
        /\ pc[e] = "done" => Requested(e, Modes)

(* What the invariant says beside types.                                   *)
Explained ==
    /\ PcOK
    /\ CallsOK
    /\ FlagsExplained
    /\ ErrorsExplained
    /\ StatusExplained
    /\ RegisteredOnce
    /\ EventTellsWhy

IInv == TypeOK /\ Explained

EntryType == [group : Groups, stop : BOOLEAN, graceful : BOOLEAN,
              cancelled : BOOLEAN, exitError : BOOLEAN]
ExitType == [err : {"none", "fail", "cancelled", "wrapped"}, isError : BOOLEAN]
CallType == [target : Entries \cup {None}, mode : Modes, late : BOOLEAN]

(* An update of a function keeps its type.                                 *)
LEMMA UpdateOK ==
    ASSUME NEW S, NEW T, NEW f \in [S -> T], NEW x, NEW v, x \in S => v \in T
    PROVE  [f EXCEPT ![x] = v] \in [S -> T]
OBVIOUS

(* The updates of entries and of exits keep their types.                   *)
LEMMA EntryUpdates ==
    ASSUME NEW r \in EntryType, NEW b \in BOOLEAN
    PROVE  /\ [r EXCEPT !.exitError = TRUE] \in EntryType
           /\ [r EXCEPT !.stop = b] \in EntryType
           /\ [r EXCEPT !.graceful = TRUE] \in EntryType
           /\ [r EXCEPT !.cancelled = TRUE] \in EntryType
BY DEF EntryType

LEMMA ExitUpdates ==
    ASSUME NEW r \in ExitType, NEW b \in BOOLEAN,
           NEW err \in {"fail", "cancelled", "wrapped"}
    PROVE  [r EXCEPT !.err = err] \in ExitType /\ [r EXCEPT !.isError = b] \in ExitType
BY DEF ExitType

(* Who writes to what, beside the registries.                              *)
LEMMA Writers ==
    ASSUME [Next]_vars
    PROVE  /\ \/ UNCHANGED entry
              \/ \E e \in Entries : NoteError(e)
              \/ \E s \in Calls : \/ StoreStop(s, "found", AfterFirst(s)) \/ StoreGraceful(s)
                                 \/ Cancel(s, "stopping", "requested")
           /\ \/ UNCHANGED status
              \/ \E e \in Entries : StoreVerdict(e)
              \/ \E s \in Calls : StoreStopping(s) \/ TimeOut(s)
           /\ UNCHANGED exit \/ \E e \in Entries : Return(e) \/ Judge(e) \/ Doubt(e)
           /\ UNCHANGED told \/ \E e \in Entries : Announce(e)
           /\ \/ UNCHANGED call
              \/ \E s \in Calls, mode \in Modes : Find(s, mode)
              \/ \E s \in Calls : TimeOut(s)
           /\ \/ UNCHANGED hook
              \/ \E s \in Calls : Cancel(s, "stopping", "requested") \/ RunHook(s)
           /\ UNCHANGED onErrors \/ (\E e \in Entries : Announce(e)) \/ \E s \in Calls : RunHook(s)
           /\ \/ UNCHANGED pc
              \/ \E e \in Entries : Spawn(e) \/ End(e)
              \/ \E p \in Entries \cup Calls : Remove(p)
              \/ \E s \in Calls : \/ \E mode \in Modes : Find(s, mode)
                                 \/ Request(s) \/ Await(s) \/ TimeOut(s)
<1> USE DEF locals
<1>1. CASE \E e \in Entries : Spawn(e)
  BY <1>1 DEF Spawn, Check, Join, Register, Refuse, PutMailbox, Launch
<1>2. CASE \E p \in Entries \cup Calls : Remove(p)
  BY <1>2 DEF Remove, DropMailbox, DropVM, DropGroup, DropConfig
<1>3. CASE \E e \in Entries : End(e)
  <2>1. PICK e \in Entries : End(e)
    BY <1>3
  <2>2. CASE Return(e)
    BY <2>1, <2>2 DEF Return
  <2>3. CASE NoteError(e)
    BY <2>1, <2>3 DEF NoteError
  <2>4. CASE Judge(e)
    BY <2>1, <2>4 DEF Judge
  <2>5. CASE Doubt(e)
    BY <2>1, <2>5 DEF Doubt
  <2>6. CASE StoreVerdict(e)
    BY <2>1, <2>6 DEF StoreVerdict
  <2>7. CASE Announce(e)
    BY <2>1, <2>7 DEF Announce
  <2>8. CASE Decide(e)
    BY <2>1, <2>8 DEF Decide
  <2>9. QED
    BY <2>1, <2>2, <2>3, <2>4, <2>5, <2>6, <2>7, <2>8 DEF End
<1>4. CASE \E s \in Calls : Terminate(s)
  <2>1. PICK s \in Calls : Terminate(s)
    BY <1>4
  <2>2. CASE \E mode \in Modes : Find(s, mode)
    BY <2>2 DEF Find
  <2>3. CASE Request(s)
    <3>1. CASE StoreStop(s, "found", AfterFirst(s))
      BY <2>3, <3>1 DEF StoreStop
    <3>2. CASE StoreGraceful(s)
      BY <2>3, <3>2 DEF StoreGraceful
    <3>3. CASE StoreStopping(s)
      BY <2>3, <3>3 DEF StoreStopping
    <3>4. CASE Cancel(s, "stopping", "requested")
      BY <2>3, <3>4 DEF Cancel
    <3>5. QED
      BY <2>3, <3>1, <3>2, <3>3, <3>4 DEF Request
  <2>4. CASE RunHook(s)
    BY <2>4 DEF RunHook
  <2>5. CASE Await(s)
    BY <2>5 DEF Await
  <2>6. CASE TimeOut(s)
    BY <2>6 DEF TimeOut
  <2>7. QED
    BY <2>1, <2>2, <2>3, <2>4, <2>5, <2>6 DEF Terminate
<1>5. CASE UNCHANGED vars
  BY <1>5 DEF vars
<1>6. QED
  BY <1>1, <1>2, <1>3, <1>4, <1>5 DEF Next

(* And to the registries.                                                  *)
LEMMA Registrars ==
    ASSUME [Next]_vars
    PROVE  /\ UNCHANGED vms \/ (\E e \in Entries : Register(e)) \/ \E p \in Entries \cup Calls : DropVM(p)
           /\ UNCHANGED mailboxes \/ (\E e \in Entries : PutMailbox(e)) \/ \E p \in Entries \cup Calls : DropMailbox(p)
           /\ UNCHANGED groups \/ (\E e \in Entries : Join(e)) \/ \E p \in Entries \cup Calls : DropGroup(p)
           /\ UNCHANGED configs \/ (\E e \in Entries : Launch(e)) \/ \E p \in Entries \cup Calls : DropConfig(p)
           /\ \/ UNCHANGED overlap
              \/ \E e \in Entries : Check(e)
              \/ \E s \in Calls, mode \in Modes : Find(s, mode)
<1> USE DEF registries
<1>1. CASE \E e \in Entries : Spawn(e)
  BY <1>1 DEF Spawn, Check, Join, Register, Refuse, PutMailbox, Launch
<1>2. CASE \E e \in Entries : End(e)
  BY <1>2 DEF End, Return, NoteError, Judge, Doubt, StoreVerdict, Announce, Decide
<1>3. CASE \E s \in Calls : Terminate(s)
  BY <1>3 DEF Terminate, Find, Request, StoreStop, StoreGraceful, StoreStopping, Cancel,
              RunHook, Await, TimeOut
<1>4. CASE \E p \in Entries \cup Calls : Remove(p)
  BY <1>4 DEF Remove, DropMailbox, DropVM, DropGroup, DropConfig
<1>5. CASE UNCHANGED vars
  BY <1>5 DEF vars
<1>6. QED
  BY <1>1, <1>2, <1>3, <1>4, <1>5 DEF Next

(* A step of a goroutine changes its own place only.                       *)
LEMMA GoMoves ==
    ASSUME TypeOK, NEW p \in Entries \cup Calls, NEW from, NEW to, Go(p, from, to)
    PROVE  /\ pc[p] = from
           /\ pc'[p] = to
           /\ \A q \in (Entries \cup Calls) \ {p} : pc'[q] = pc[q]
BY DEF Go, TypeOK

(* Types, without the rest of the invariant.                               *)
LEMMA TypeStep == TypeOK /\ [Next]_vars => TypeOK'
<1> SUFFICES ASSUME TypeOK, [Next]_vars PROVE TypeOK'
  OBVIOUS
<1>0. entry \in [Entries -> EntryType] /\ exit \in [Entries -> ExitType]
  BY DEF TypeOK, EntryType, ExitType
<1>1. pc' \in [Entries \cup Calls -> EntryPc \cup CallPc]
  <2> USE DEF EntryPc, CallPc, Spawning, Ending, Asking, Removing
  <2>0. pc \in [Entries \cup Calls -> EntryPc \cup CallPc]
    BY DEF TypeOK
  <2>1. UNCHANGED pc \/ \E p \in Entries \cup Calls, from, to \in EntryPc \cup CallPc : Go(p, from, to)
    <3>1. CASE \E e \in Entries : Spawn(e)
      BY <3>1 DEF Spawn, Check, Join, Register, Refuse, PutMailbox, Launch
    <3>2. CASE \E e \in Entries : End(e)
      BY <3>2 DEF End, Return, NoteError, Judge, Doubt, StoreVerdict, Announce, Decide
    <3>3. CASE \E p \in Entries \cup Calls : Remove(p)
      BY <3>3 DEF Remove, DropMailbox, DropVM, DropGroup, DropConfig
    <3>4. CASE \E s \in Calls : \/ \E mode \in Modes : Find(s, mode)
                                \/ Request(s) \/ Await(s) \/ TimeOut(s)
      BY <3>4 DEF Find, Request, AfterFirst, StoreStop, StoreGraceful, StoreStopping, Cancel,
                  Await, TimeOut
    <3>5. QED
      BY <3>1, <3>2, <3>3, <3>4, Writers
  <2>2. QED
    BY <2>0, <2>1 DEF Go
<1>2. entry' \in [Entries -> EntryType]
  <2>1. ASSUME NEW e \in Entries, NoteError(e) PROVE entry' \in [Entries -> EntryType]
    <3>1. CASE vms = None
      BY <1>0, <2>1, <3>1 DEF NoteError
    <3>2. CASE vms \in Entries
      <4>1. entry' = [entry EXCEPT ![vms] = [entry[vms] EXCEPT !.exitError = TRUE]]
        BY <2>1, <3>2, DistinctAssumption DEF NoteError
      <4>2. [entry[vms] EXCEPT !.exitError = TRUE] \in EntryType
        BY <1>0, <3>2, EntryUpdates
      <4>3. QED
        BY <1>0, <4>1, <4>2, UpdateOK
    <3>3. QED
      BY <3>1, <3>2 DEF TypeOK
  <2>2. ASSUME NEW s \in Calls, NEW from, NEW to, StoreStop(s, from, to)
        PROVE  entry' \in [Entries -> EntryType]
    <3> DEFINE v == call[s].target
               r == [entry[v] EXCEPT !.stop = Stops(call[s].mode)]
    <3>1. entry' = [entry EXCEPT ![v] = r]
      BY <2>2 DEF StoreStop
    <3>2. v \in Entries => r \in EntryType
      BY <1>0, EntryUpdates DEF Stops
    <3> HIDE DEF v, r
    <3>3. QED
      BY <1>0, <3>1, <3>2, UpdateOK
  <2>3. ASSUME NEW s \in Calls, StoreGraceful(s) PROVE entry' \in [Entries -> EntryType]
    <3> DEFINE v == call[s].target
               r == [entry[v] EXCEPT !.graceful = TRUE]
    <3>1. entry' = [entry EXCEPT ![v] = r]
      BY <2>3 DEF StoreGraceful
    <3>2. v \in Entries => r \in EntryType
      BY <1>0, EntryUpdates
    <3> HIDE DEF v, r
    <3>3. QED
      BY <1>0, <3>1, <3>2, UpdateOK
  <2>4. ASSUME NEW s \in Calls, NEW from, NEW to, Cancel(s, from, to)
        PROVE  entry' \in [Entries -> EntryType]
    <3> DEFINE v == call[s].target
               r == [entry[v] EXCEPT !.cancelled = TRUE]
    <3>1. entry' = [entry EXCEPT ![v] = r]
      BY <2>4 DEF Cancel
    <3>2. v \in Entries => r \in EntryType
      BY <1>0, EntryUpdates
    <3> HIDE DEF v, r
    <3>3. QED
      BY <1>0, <3>1, <3>2, UpdateOK
  <2>5. QED
    BY <1>0, <2>1, <2>2, <2>3, <2>4, Writers
<1>3. exit' \in [Entries -> ExitType]
  <2>1. ASSUME NEW e \in Entries, Return(e) PROVE exit' \in [Entries -> ExitType]
    <3>1. PICK err \in {"fail", "cancelled", "wrapped"} : exit' = [exit EXCEPT ![e].err = err]
      BY <2>1 DEF Return
    <3>2. [exit[e] EXCEPT !.err = err] \in ExitType
      BY <1>0, ExitUpdates
    <3>3. QED
      BY <1>0, <3>1, <3>2, UpdateOK
  <2>2. ASSUME NEW e \in Entries, Judge(e) \/ Doubt(e) PROVE exit' \in [Entries -> ExitType]
    <3>1. PICK b \in BOOLEAN : exit' = [exit EXCEPT ![e].isError = b]
      BY <2>2, Zenon DEF Judge, Doubt
    <3>2. [exit[e] EXCEPT !.isError = b] \in ExitType
      BY <1>0, ExitUpdates
    <3>3. QED
      BY <1>0, <3>1, <3>2, UpdateOK
  <2>3. QED
    BY <1>0, <2>1, <2>2, Writers
<1>4. status' \in [Entries -> Statuses] /\ told' \in [Entries -> Statuses]
  <2>1. status' \in [Entries -> Statuses]
    BY Writers DEF TypeOK, Statuses, StoreVerdict, Verdict, StoreStopping, TimeOut
  <2>2. told' \in [Entries -> Statuses]
    BY Writers DEF TypeOK, Announce
  <2>3. QED
    BY <2>1, <2>2
<1>5. call' \in [Calls -> CallType]
  <2>1. ASSUME NEW s \in Calls, NEW mode \in Modes, Find(s, mode)
        PROVE  call' \in [Calls -> CallType]
    <3>1. call \in [Calls -> CallType] /\ vms \in Entries
      BY <2>1 DEF Find, CallType, TypeOK
    <3>2. [call[s] EXCEPT !.target = vms, !.mode = mode] \in CallType
      BY <3>1 DEF CallType
    <3>3. call' = [call EXCEPT ![s] = [call[s] EXCEPT !.target = vms, !.mode = mode]]
      BY <2>1, <3>1 DEF Find
    <3>4. QED
      BY <3>1, <3>2, <3>3, UpdateOK
  <2>2. ASSUME NEW s \in Calls, TimeOut(s) PROVE call' \in [Calls -> CallType]
    BY <2>2 DEF TimeOut, CallType, TypeOK
  <2>3. QED
    BY <2>1, <2>2, Writers DEF TypeOK, CallType
<1>6. hook' \in [Calls -> {"none", "waiting", "ended"}]
  <2>1. UNCHANGED hook \/ \E s \in Calls, h \in {"waiting", "ended"} : hook' = [hook EXCEPT ![s] = h]
    BY Writers DEF Cancel, RunHook
  <2>2. QED
    BY <2>1 DEF TypeOK
<1>7. onErrors' \in [Entries -> Nat]
  <2>1. ASSUME NEW e \in Entries, Announce(e) PROVE onErrors' \in [Entries -> Nat]
    BY <2>1 DEF Announce, TypeOK
  <2>2. ASSUME NEW s \in Calls, RunHook(s) PROVE onErrors' \in [Entries -> Nat]
    <3> DEFINE e == call[s].target
    <3>1. onErrors' = onErrors \/ onErrors' = [onErrors EXCEPT ![e] = @ + 1]
      BY <2>2 DEF RunHook
    <3>2. onErrors \in [Entries -> Nat] /\ (e \in Entries => onErrors[e] + 1 \in Nat)
      BY DEF TypeOK
    <3> HIDE DEF e
    <3>3. QED
      BY <3>1, <3>2, UpdateOK
  <2>3. QED
    BY <2>1, <2>2, Writers DEF TypeOK
<1>8. groups' \in [Groups -> Nat]
  BY Registrars DEF TypeOK, Join, DropGroup
<1>9. /\ vms' \in Entries \cup {None} /\ mailboxes' \in Entries \cup {None}
      /\ configs' \in Entries \cup {None} /\ overlap' \in BOOLEAN
  BY Registrars DEF TypeOK, Register, DropVM, PutMailbox, DropMailbox, Launch, DropConfig,
                    Check, Find
<1>10. QED
  BY <1>1, <1>2, <1>3, <1>4, <1>5, <1>6, <1>7, <1>8, <1>9
  DEF TypeOK, EntryType, ExitType, CallType
----------------------------------------------------------------------------
(* The places a VM goes through, and a call.                               *)
EntryPath(from, to) ==
    \/ from = "unborn" /\ to = "checked"
    \/ from = "checked" /\ to = "joined"
    \/ from = "joined" /\ to \in {"registered", "refused"}
    \/ from = "registered" /\ to = "mailed"
    \/ from = "mailed" /\ to = "running"
    \/ from = "running" /\ to = "returned"
    \/ from = "returned" /\ to = "noted"
    \/ from = "noted" /\ to \in {"doubted", "judged"}
    \/ from = "doubted" /\ to = "judged"
    \/ from = "judged" /\ to = "stored"
    \/ from = "stored" /\ to = "announced"
    \/ from = "announced" /\ to \in {"done", "dropMailbox"}
    \/ from = "dropMailbox" /\ to = "dropVM"
    \/ from = "dropVM" /\ to = "dropGroup"
    \/ from = "dropGroup" /\ to = "dropConfig"
    \/ from = "dropConfig" /\ to = "done"

CallPath(from, to) ==
    \/ from = "idle" /\ to = "found"
    \/ from = "found" /\ to \in {"flagged", "marked"}
    \/ from = "flagged" /\ to = "marked"
    \/ from = "marked" /\ to = "stopping"
    \/ from = "stopping" /\ to = "requested"
    \/ from = "requested" /\ to = "dropMailbox"
    \/ from = "dropMailbox" /\ to = "dropVM"
    \/ from = "dropVM" /\ to = "dropGroup"
    \/ from = "dropGroup" /\ to = "dropConfig"
    \/ from = "dropConfig" /\ to = "returned"

(* Nobody moves but by its own steps.                                      *)
LEMMA OwnSteps ==
    ASSUME TypeOK, [Next]_vars, NEW p \in Entries \cup Calls, pc'[p] # pc[p]
    PROVE  \/ p \in Entries /\ (Spawn(p) \/ End(p) \/ Remove(p))
           \/ /\ p \in Calls
              /\ \/ \E mode \in Modes : Find(p, mode)
                 \/ Request(p) \/ Await(p) \/ TimeOut(p) \/ Remove(p)
<1>0. pc \in [Entries \cup Calls -> EntryPc \cup CallPc]
  BY DEF TypeOK
<1>1. CASE \E e \in Entries : Spawn(e) \/ End(e)
  <2>1. PICK e \in Entries : Spawn(e) \/ End(e)
    BY <1>1
  <2>2. PICK from, to : Go(e, from, to)
    BY <2>1 DEF Spawn, End, Check, Join, Register, Refuse, PutMailbox, Launch, Return,
                NoteError, Judge, Doubt, StoreVerdict, Announce, Decide
  <2>3. p = e
    BY <1>0, <2>2, GoMoves
  <2>4. QED
    BY <2>1, <2>3
<1>2. CASE \E q \in Entries \cup Calls : Remove(q)
  <2>1. PICK q \in Entries \cup Calls : Remove(q)
    BY <1>2
  <2>2. PICK from, to : Go(q, from, to)
    BY <2>1 DEF Remove, DropMailbox, DropVM, DropGroup, DropConfig
  <2>3. p = q
    BY <1>0, <2>2, GoMoves
  <2>4. QED
    BY <2>1, <2>3
<1>3. CASE \E s \in Calls : \/ \E mode \in Modes : Find(s, mode)
                            \/ Request(s) \/ Await(s) \/ TimeOut(s)
  <2>1. PICK s \in Calls : \/ \E mode \in Modes : Find(s, mode)
                           \/ Request(s) \/ Await(s) \/ TimeOut(s)
    BY <1>3
  <2>2. PICK from, to : Go(s, from, to)
    BY <2>1 DEF Find, Request, StoreStop, StoreGraceful, StoreStopping, Cancel, Await, TimeOut
  <2>3. p = s
    BY <1>0, <2>2, GoMoves
  <2>4. QED
    BY <2>1, <2>3
<1>4. QED
  BY <1>1, <1>2, <1>3, Writers

LEMMA EntryPaths ==
    ASSUME TypeOK, [Next]_vars, NEW e \in Entries, pc'[e] # pc[e]
    PROVE  EntryPath(pc[e], pc'[e])
<1>0. pc \in [Entries \cup Calls -> EntryPc \cup CallPc]
  BY DEF TypeOK
<1>1. Spawn(e) \/ End(e) \/ Remove(e)
  BY OwnSteps, DistinctAssumption
<1>2. PICK from, to : Go(e, from, to) /\ EntryPath(from, to)
  <2>1. CASE Spawn(e)
    BY <2>1 DEF Spawn, Check, Join, Register, Refuse, PutMailbox, Launch, EntryPath
  <2>2. CASE End(e)
    BY <2>2 DEF End, Return, NoteError, Judge, Doubt, StoreVerdict, Announce, Decide, EntryPath
  <2>3. CASE Remove(e)
    BY <2>3 DEF Remove, DropMailbox, DropVM, DropGroup, DropConfig, EntryPath
  <2>4. QED
    BY <1>1, <2>1, <2>2, <2>3
<1>3. QED
  BY <1>0, <1>2, GoMoves

LEMMA CallPaths ==
    ASSUME TypeOK, [Next]_vars, NEW s \in Calls, pc'[s] # pc[s]
    PROVE  CallPath(pc[s], pc'[s])
<1>0. pc \in [Entries \cup Calls -> EntryPc \cup CallPc] /\ s \notin Entries
  BY DistinctAssumption DEF TypeOK
<1>1. PICK from, to : Go(s, from, to) /\ CallPath(from, to)
  <2>1. CASE Request(s)
    BY <2>1 DEF Request, AfterFirst, StoreStop, StoreGraceful, StoreStopping, Cancel, CallPath
  <2>2. CASE (\E mode \in Modes : Find(s, mode)) \/ Await(s) \/ TimeOut(s)
    BY <2>2 DEF Find, Await, TimeOut, CallPath
  <2>3. CASE Remove(s)
    BY <1>0, <2>3 DEF Remove, DropMailbox, DropVM, DropGroup, DropConfig, CallPath
  <2>4. QED
    BY <1>0, <2>1, <2>2, <2>3, OwnSteps
<1>2. QED
  BY <1>0, <1>1, GoMoves

(* Which step leaves a place.                                              *)
LEMMA EntrySteps ==
    ASSUME TypeOK, [Next]_vars, NEW e \in Entries, pc'[e] # pc[e]
    PROVE  /\ pc[e] = "unborn" => Check(e)
           /\ pc[e] = "checked" => Join(e)
           /\ pc[e] = "joined" => Register(e) \/ Refuse(e)
           /\ pc[e] = "registered" => PutMailbox(e)
           /\ pc[e] = "mailed" => Launch(e)
           /\ pc[e] = "running" => Return(e)
           /\ pc[e] = "returned" => NoteError(e)
           /\ pc[e] = "noted" => Judge(e)
           /\ pc[e] = "doubted" => Doubt(e)
           /\ pc[e] = "judged" => StoreVerdict(e)
           /\ pc[e] = "stored" => Announce(e)
           /\ pc[e] = "announced" => Decide(e)
<1>1. Spawn(e) \/ End(e) \/ Remove(e)
  BY OwnSteps, DistinctAssumption
<1>2. QED
  BY <1>1 DEF Spawn, End, Remove, Check, Join, Register, Refuse, PutMailbox, Launch, Return,
              NoteError, Judge, Doubt, StoreVerdict, Announce, Decide,
              DropMailbox, DropVM, DropGroup, DropConfig, Go

LEMMA CallSteps ==
    ASSUME TypeOK, [Next]_vars, NEW s \in Calls, pc'[s] # pc[s]
    PROVE  /\ pc[s] = "idle" => \E mode \in Modes : Find(s, mode)
           /\ pc[s] = "found" => StoreStop(s, "found", AfterFirst(s))
           /\ pc[s] = "stopping" => Cancel(s, "stopping", "requested")
           /\ pc[s] = "requested" => Await(s) \/ TimeOut(s)
<1>1. \/ \E mode \in Modes : Find(s, mode)
      \/ Request(s) \/ Await(s) \/ TimeOut(s) \/ Remove(s)
  BY OwnSteps, DistinctAssumption
<1>2. QED
  BY <1>1 DEF Find, Request, StoreStop, StoreGraceful, StoreStopping, Cancel, Await, TimeOut,
              Remove, DropMailbox, DropVM, DropGroup, DropConfig, Go

LEMMA DropsFirst ==
    ASSUME TypeOK, [Next]_vars, NEW p \in Entries \cup Calls, pc'[p] # pc[p]
    PROVE  /\ pc[p] = "dropMailbox" => DropMailbox(p)
           /\ pc[p] = "dropVM" => DropVM(p)
           /\ pc[p] = "dropGroup" => DropGroup(p)
           /\ pc[p] = "dropConfig" => DropConfig(p)
<1>1. SUFFICES ASSUME pc[p] \in Removing PROVE Remove(p)
  BY DEF Remove, DropMailbox, DropVM, DropGroup, DropConfig, Go, Removing
<1>2. p \in Entries => ~Spawn(p) /\ ~End(p)
  BY <1>1 DEF Spawn, End, Check, Join, Register, Refuse, PutMailbox, Launch, Return,
              NoteError, Judge, Doubt, StoreVerdict, Announce, Decide, Go, Removing
<1>3. ~(\E mode \in Modes : Find(p, mode)) /\ ~Request(p) /\ ~Await(p) /\ ~TimeOut(p)
  BY <1>1 DEF Find, Request, StoreStop, StoreGraceful, StoreStopping, Cancel, Await, TimeOut,
              Go, Removing
<1>4. QED
  BY <1>2, <1>3, OwnSteps

----------------------------------------------------------------------------
(* What an entry keeps.                                                    *)
LEMMA EntryKeeps ==
    ASSUME TypeOK, [Next]_vars, NEW e \in Entries
    PROVE  /\ entry'[e].group = entry[e].group
           /\ entry[e].cancelled => entry'[e].cancelled
           /\ entry[e].exitError => entry'[e].exitError
<1>0. entry \in [Entries -> EntryType]
  BY DEF TypeOK, EntryType
<1>1. \/ UNCHANGED entry
      \/ \E f \in Entries : entry' = [entry EXCEPT ![f].exitError = TRUE]
      \/ \E v, b : \/ entry' = [entry EXCEPT ![v].stop = b]
                   \/ entry' = [entry EXCEPT ![v].graceful = TRUE]
                   \/ entry' = [entry EXCEPT ![v].cancelled = TRUE]
  <2>1. ASSUME NEW f \in Entries, NoteError(f)
        PROVE  UNCHANGED entry \/ \E g \in Entries : entry' = [entry EXCEPT ![g].exitError = TRUE]
    BY <2>1 DEF NoteError, TypeOK
  <2>2. QED
    BY <2>1, Writers DEF StoreStop, StoreGraceful, Cancel
<1>2. QED
  BY <1>0, <1>1 DEF EntryType

(* How an entry comes to be stopped, graceful or cancelled.                *)
LEMMA FlagSteps ==
    ASSUME TypeOK, [Next]_vars, NEW e \in Entries
    PROVE  \/ /\ entry'[e].stop = entry[e].stop
              /\ entry'[e].graceful = entry[e].graceful
              /\ entry'[e].cancelled = entry[e].cancelled
              /\ \A s \in Calls : call[s].target = e => ~StoreStop(s, "found", AfterFirst(s))
           \/ \E s \in Calls :
                 /\ call[s].target = e
                 /\ \/ /\ StoreStop(s, "found", AfterFirst(s))
                       /\ entry'[e].stop = Stops(call[s].mode)
                       /\ entry'[e].graceful = entry[e].graceful
                       /\ entry'[e].cancelled = entry[e].cancelled
                    \/ /\ StoreGraceful(s)
                       /\ entry'[e].graceful
                       /\ entry'[e].stop = entry[e].stop
                       /\ entry'[e].cancelled = entry[e].cancelled
                    \/ /\ Cancel(s, "stopping", "requested")
                       /\ entry'[e].cancelled
                       /\ entry'[e].stop = entry[e].stop
                       /\ entry'[e].graceful = entry[e].graceful
<1>0. entry \in [Entries -> EntryType]
  BY DEF TypeOK, EntryType
<1>1. CASE \E s \in Calls : StoreStop(s, "found", AfterFirst(s))
  <2>1. PICK s \in Calls : StoreStop(s, "found", AfterFirst(s))
    BY <1>1
  <2>2. entry' = [entry EXCEPT ![call[s].target].stop = Stops(call[s].mode)]
    BY <2>1 DEF StoreStop
  <2>3. \A t \in Calls \ {s} : ~StoreStop(t, "found", AfterFirst(t))
    <3>1. SUFFICES ASSUME NEW t \in Calls \ {s}, StoreStop(t, "found", AfterFirst(t))
                   PROVE  FALSE
      OBVIOUS
    <3>2. Go(s, "found", AfterFirst(s)) /\ Go(t, "found", AfterFirst(t))
      BY <2>1, <3>1 DEF StoreStop
    <3>3. AfterFirst(t) # "found"
      BY DEF AfterFirst
    <3>4. pc'[t] = pc[t] /\ pc[t] = "found"
      BY <3>2, GoMoves
    <3>5. pc'[t] = AfterFirst(t)
      BY <3>2, GoMoves
    <3>6. QED
      BY <3>3, <3>4, <3>5
  <2>4. QED
    BY <1>0, <2>1, <2>2, <2>3 DEF EntryType
<1>2. CASE /\ UNCHANGED entry \/ \E f \in Entries : NoteError(f)
           /\ \A s \in Calls : ~StoreStop(s, "found", AfterFirst(s))
  BY <1>0, <1>2 DEF NoteError, EntryType
<1>3. CASE /\ \E s \in Calls : StoreGraceful(s)
           /\ \A s \in Calls : ~StoreStop(s, "found", AfterFirst(s))
  <2>1. PICK s \in Calls : StoreGraceful(s)
    BY <1>3
  <2>2. entry' = [entry EXCEPT ![call[s].target].graceful = TRUE]
    BY <2>1 DEF StoreGraceful
  <2>3. QED
    BY <1>0, <1>3, <2>1, <2>2 DEF EntryType
<1>4. CASE /\ \E s \in Calls : Cancel(s, "stopping", "requested")
           /\ \A s \in Calls : ~StoreStop(s, "found", AfterFirst(s))
  <2>1. PICK s \in Calls : Cancel(s, "stopping", "requested")
    BY <1>4
  <2>2. entry' = [entry EXCEPT ![call[s].target].cancelled = TRUE]
    BY <2>1 DEF Cancel
  <2>3. QED
    BY <1>0, <1>4, <2>1, <2>2 DEF EntryType
<1>5. QED
  BY <1>1, <1>2, <1>3, <1>4, Writers

(* What a call keeps.                                                      *)
LEMMA CallKeeps ==
    ASSUME TypeOK, [Next]_vars, NEW s \in Calls
    PROVE  /\ pc[s] # "idle" =>
                 call'[s].target = call[s].target /\ call'[s].mode = call[s].mode
           /\ pc[s] # "idle" => pc'[s] # "idle"
           /\ call[s].late => call'[s].late
           /\ hook[s] # "none" => hook'[s] # "none"
           /\ hook[s] = "ended" => hook'[s] = "ended" \/ pc[s] = "stopping"
<1>0. call \in [Calls -> CallType] /\ hook \in [Calls -> {"none", "waiting", "ended"}]
  BY DEF TypeOK, CallType
<1>1. pc[s] # "idle" => pc'[s] # "idle"
  BY CallPaths DEF CallPath
<1>2. /\ pc[s] # "idle" => call'[s].target = call[s].target /\ call'[s].mode = call[s].mode
      /\ call[s].late => call'[s].late
  <2>1. ASSUME NEW t \in Calls, NEW mode \in Modes, Find(t, mode)
        PROVE  /\ pc[s] # "idle" => call'[s] = call[s]
               /\ call'[s].late = call[s].late
    BY <1>0, <2>1 DEF Find, Go, CallType
  <2>2. ASSUME NEW t \in Calls, TimeOut(t)
        PROVE  /\ call'[s].target = call[s].target /\ call'[s].mode = call[s].mode
               /\ call[s].late => call'[s].late
    BY <1>0, <2>2 DEF TimeOut, CallType
  <2>3. QED
    BY <2>1, <2>2, Writers
<1>3. /\ hook[s] # "none" => hook'[s] # "none"
      /\ hook[s] = "ended" => hook'[s] = "ended" \/ pc[s] = "stopping"
  BY <1>0, Writers DEF Cancel, RunHook, Go
<1>4. QED
  BY <1>1, <1>2, <1>3

(* What was requested of a VM remains requested, and so on.                *)
LEMMA AskedStays ==
    ASSUME TypeOK, [Next]_vars, NEW e \in Entries, NEW s \in Calls, Asked(s, e)
    PROVE  Asked(s, e)' /\ call'[s].mode = call[s].mode
BY CallKeeps, CallPaths DEF Asked, CallPath

(* And it is requested by storing the stop flag.                           *)
LEMMA AskedFirst ==
    ASSUME TypeOK, CallsOK, [Next]_vars, NEW e \in Entries, NEW s \in Calls, Asked(s, e)'
    PROVE  Asked(s, e) \/ (call[s].target = e /\ StoreStop(s, "found", AfterFirst(s)))
<1>1. pc'[s] \notin {"idle", "found"} /\ call'[s].target = e
  BY DEF Asked
<1>2. pc[s] # "idle"
  BY <1>1, CallPaths DEF CallPath
<1>3. call[s].target = e
  BY <1>1, <1>2, CallKeeps
<1>4. pc[s] = "found" => StoreStop(s, "found", AfterFirst(s))
  BY <1>1, CallSteps
<1>5. QED
  BY <1>2, <1>3, <1>4 DEF Asked

LEMMA RequestedStays ==
    ASSUME TypeOK, [Next]_vars, NEW e \in Entries, NEW modes, Requested(e, modes)
    PROVE  Requested(e, modes)'
<1>1. PICK s \in Calls : Asked(s, e) /\ call[s].mode \in modes
  BY DEF Requested
<1>2. Asked(s, e)' /\ call'[s].mode \in modes
  BY <1>1, AskedStays
<1>3. QED
  BY <1>2 DEF Requested

LEMMA HookedStays ==
    ASSUME TypeOK, CallsOK, [Next]_vars, NEW e \in Entries, Hooked(e)
    PROVE  Hooked(e)'
<1>1. PICK s \in Calls : call[s].target = e /\ hook[s] # "none"
  BY DEF Hooked
<1>2. pc[s] # "idle"
  BY <1>1 DEF CallsOK
<1>3. QED
  BY <1>1, <1>2, CallKeeps DEF Hooked

LEMMA TimedOutStays ==
    ASSUME TypeOK, CallsOK, [Next]_vars, NEW e \in Entries, TimedOut(e)
    PROVE  TimedOut(e)'
<1>1. PICK s \in Calls : call[s].target = e /\ call[s].late
  BY DEF TimedOut
<1>2. pc[s] # "idle"
  BY <1>1 DEF CallsOK
<1>3. QED
  BY <1>1, <1>2, CallKeeps DEF TimedOut

(* A VM returns once.                                                      *)
LEMMA ErrStays ==
    ASSUME TypeOK, [Next]_vars, NEW e \in Entries, pc[e] # "running"
    PROVE  exit'[e].err = exit[e].err
<1>0. exit \in [Entries -> ExitType]
  BY DEF TypeOK, ExitType
<1>1. ASSUME NEW f \in Entries, Return(f) PROVE exit'[e] = exit[e]
  BY <1>0, <1>1 DEF Return, Go
<1>2. ASSUME NEW f \in Entries, Judge(f) \/ Doubt(f) PROVE exit'[e].err = exit[e].err
  BY <1>0, <1>2 DEF Judge, Doubt, ExitType
<1>3. QED
  BY <1>1, <1>2, Writers

(* And is judged before its verdict is stored.                             *)
LEMMA VerdictStays ==
    ASSUME TypeOK, [Next]_vars, NEW e \in Entries, pc[e] \notin {"noted", "doubted"}
    PROVE  exit'[e].isError = exit[e].isError
<1>0. exit \in [Entries -> ExitType]
  BY DEF TypeOK, ExitType
<1>1. ASSUME NEW f \in Entries, Return(f) PROVE exit'[e].isError = exit[e].isError
  BY <1>0, <1>1 DEF Return, ExitType
<1>2. ASSUME NEW f \in Entries, Judge(f) \/ Doubt(f) PROVE exit'[e] = exit[e]
  BY <1>0, <1>2 DEF Judge, Doubt, Go
<1>3. QED
  BY <1>1, <1>2, Writers

LEMMA CrowdedStays ==
    ASSUME TypeOK, [Next]_vars, NEW e \in Entries, pc[e] # "running", Crowded(e)
    PROVE  Crowded(e)'
<1>1. PICK s \in Calls, t \in Calls :
         Asked(s, e) /\ Asked(t, e) /\ (s # t \/ exit[e].err = "fail")
  BY DEF Crowded
<1>2. Asked(s, e)' /\ Asked(t, e)' /\ exit'[e].err = exit[e].err
  BY <1>1, AskedStays, ErrStays
<1>3. QED
  BY <1>1, <1>2 DEF Crowded

LEMMA PcStep == ASSUME TypeOK, PcOK, [Next]_vars PROVE PcOK'
<1>1. ASSUME NEW e \in Entries PROVE pc'[e] \in EntryPc
  BY EntryPaths DEF PcOK, EntryPath, EntryPc, Spawning, Ending, Removing
<1>2. ASSUME NEW s \in Calls PROVE pc'[s] \in CallPc
  BY CallPaths DEF PcOK, CallPath, CallPc, Asking, Removing
<1>3. QED
  BY <1>1, <1>2 DEF PcOK

LEMMA CallsStep == ASSUME TypeOK, PcOK, CallsOK, RegisteredOnce, [Next]_vars PROVE CallsOK'
<1> SUFFICES ASSUME NEW s \in Calls
             PROVE  /\ pc'[s] \in {"idle"} \cup Asking => hook'[s] = "none"
                    /\ pc'[s] = "idle" => ~call'[s].late
                    /\ pc'[s] = "flagged" => call'[s].mode = "save"
                    /\ pc'[s] # "idle" =>
                          call'[s].target \in Entries /\ pc'[call'[s].target] \notin Early
  BY DEF CallsOK
<1>0. /\ hook \in [Calls -> {"none", "waiting", "ended"}] /\ call \in [Calls -> CallType]
      /\ pc \in [Entries \cup Calls -> EntryPc \cup CallPc]
  BY DEF TypeOK, CallType
<1>1. ASSUME pc'[s] \in {"idle"} \cup Asking PROVE hook'[s] = "none"
  <2>1. pc[s] \in {"idle"} \cup Asking
    BY <1>1, CallPaths DEF CallPath, Asking
  <2>2. hook[s] = "none"
    BY <2>1 DEF CallsOK
  <2>3. ASSUME NEW t \in Calls, Cancel(t, "stopping", "requested") PROVE t # s
    BY <1>0, <1>1, <2>3, GoMoves DEF Cancel, Asking
  <2>4. ASSUME NEW t \in Calls, RunHook(t) PROVE t # s
    BY <2>2, <2>4 DEF RunHook
  <2>5. QED
    BY <1>0, <2>2, <2>3, <2>4, Writers DEF Cancel, RunHook
<1>2. ASSUME pc'[s] = "idle" PROVE ~call'[s].late
  <2>1. pc[s] = "idle" /\ ~call[s].late
    BY <1>2, CallPaths DEF CallPath, CallsOK
  <2>2. ASSUME NEW t \in Calls, NEW mode \in Modes, Find(t, mode) PROVE call'[s].late = call[s].late
    BY <1>0, <2>2 DEF Find, CallType
  <2>3. ASSUME NEW t \in Calls, TimeOut(t) PROVE call'[s] = call[s]
    BY <1>0, <2>1, <2>3 DEF TimeOut, Go
  <2>4. QED
    BY <2>1, <2>2, <2>3, Writers
<1>3. ASSUME pc'[s] # "idle"
      PROVE  call'[s].target \in Entries /\ pc'[call'[s].target] \notin Early
  <2>1. PICK e \in Entries : call'[s].target = e /\ pc[e] \notin Early
    <3>1. CASE pc[s] = "idle"
      <4>1. PICK mode \in Modes : Find(s, mode)
        BY <1>3, <3>1, CallSteps
      <4>2. call'[s].target = vms /\ vms \in Entries
        BY <1>0, <4>1 DEF Find, TypeOK
      <4>3. QED
        BY <4>2 DEF RegisteredOnce
    <3>2. CASE pc[s] # "idle"
      BY <3>2, CallKeeps DEF CallsOK
    <3>3. QED
      BY <3>1, <3>2
  <2>2. pc'[e] \notin Early
    BY <2>1, EntryPaths DEF EntryPath, Early, PcOK
  <2>3. QED
    BY <2>1, <2>2
<1>4. ASSUME pc'[s] = "flagged" PROVE call'[s].mode = "save"
  <2>1. pc[s] \in {"found", "flagged"}
    BY <1>4, CallPaths DEF CallPath
  <2>2. CASE pc[s] = "found"
    <3>1. pc'[s] = AfterFirst(s)
      BY <1>0, <1>4, <2>2, CallSteps, GoMoves DEF StoreStop
    <3>2. QED
      BY <1>4, <2>2, <3>1, CallKeeps DEF AfterFirst
  <2>3. CASE pc[s] = "flagged"
    BY <2>3, CallKeeps DEF CallsOK
  <2>4. QED
    BY <2>1, <2>2, <2>3
<1>5. QED
  BY <1>1, <1>2, <1>3, <1>4

LEMMA FlagsStep == ASSUME TypeOK, CallsOK, FlagsExplained, [Next]_vars PROVE FlagsExplained'
<1> SUFFICES ASSUME NEW e \in Entries
             PROVE  /\ entry'[e].stop \/ entry'[e].graceful => Requested(e, {"stop", "save"})'
                    /\ entry'[e].cancelled => Hooked(e)'
                    /\ Requested(e, Modes)' => entry'[e].stop \/ Requested(e, {"kill"})'
  BY DEF FlagsExplained
<1>0. /\ \A modes : Requested(e, modes) => Requested(e, modes)'
      /\ Hooked(e) => Hooked(e)'
      /\ \A s \in Calls : call[s].mode \in {"kill", "stop", "save"}
  BY RequestedStays, HookedStays DEF TypeOK, Modes
<1>1. ASSUME NEW s \in Calls, call[s].target = e, StoreStop(s, "found", AfterFirst(s)),
             NEW modes, call[s].mode \in modes
      PROVE  Requested(e, modes)'
  <2>1. pc'[s] \notin {"idle", "found"}
    BY <1>1, GoMoves DEF TypeOK, StoreStop, AfterFirst
  <2>2. call' = call
    BY <1>1 DEF StoreStop
  <2>3. QED
    BY <1>1, <2>1, <2>2 DEF Requested, Asked
<1>2. CASE /\ entry'[e].stop = entry[e].stop
           /\ entry'[e].graceful = entry[e].graceful
           /\ entry'[e].cancelled = entry[e].cancelled
           /\ \A s \in Calls : call[s].target = e => ~StoreStop(s, "found", AfterFirst(s))
  <2>1. Requested(e, Modes)' => Requested(e, Modes)
    <3>1. SUFFICES ASSUME NEW s \in Calls, Asked(s, e)' PROVE Requested(e, Modes)
      BY DEF Requested
    <3>2. Asked(s, e)
      BY <1>2, <3>1, AskedFirst
    <3>3. QED
      BY <3>2 DEF Requested, TypeOK
  <2>2. QED
    BY <1>0, <1>2, <2>1 DEF FlagsExplained
<1>3. ASSUME NEW s \in Calls, call[s].target = e, StoreStop(s, "found", AfterFirst(s)),
             entry'[e].stop = Stops(call[s].mode), entry'[e].graceful = entry[e].graceful,
             entry'[e].cancelled = entry[e].cancelled
      PROVE  /\ entry'[e].stop \/ entry'[e].graceful => Requested(e, {"stop", "save"})'
             /\ entry'[e].cancelled => Hooked(e)'
             /\ Requested(e, Modes)' => entry'[e].stop \/ Requested(e, {"kill"})'
  <2>1. CASE call[s].mode = "kill"
    <3>1. Requested(e, {"kill"})' /\ ~entry'[e].stop
      BY <1>1, <1>3, <2>1 DEF Stops
    <3>2. QED
      BY <1>0, <1>3, <3>1 DEF FlagsExplained
  <2>2. CASE call[s].mode \in {"stop", "save"}
    <3>1. Requested(e, {"stop", "save"})' /\ entry'[e].stop
      BY <1>1, <1>3, <2>2 DEF Stops
    <3>2. QED
      BY <1>0, <1>3, <3>1 DEF FlagsExplained
  <2>3. QED
    BY <1>0, <2>1, <2>2
<1>4. ASSUME NEW s \in Calls, call[s].target = e, pc[s] \in {"flagged", "stopping"}
      PROVE  Requested(e, Modes)
  BY <1>4 DEF Requested, Asked, TypeOK
<1>5. ASSUME NEW s \in Calls, call[s].target = e, StoreGraceful(s), entry'[e].graceful,
             entry'[e].stop = entry[e].stop, entry'[e].cancelled = entry[e].cancelled
      PROVE  /\ entry'[e].stop \/ entry'[e].graceful => Requested(e, {"stop", "save"})'
             /\ entry'[e].cancelled => Hooked(e)'
             /\ Requested(e, Modes)' => entry'[e].stop \/ Requested(e, {"kill"})'
  <2>1. pc[s] = "flagged" /\ call[s].mode = "save"
    BY <1>5 DEF StoreGraceful, Go, CallsOK
  <2>2. Requested(e, {"stop", "save"})
    BY <1>5, <2>1 DEF Requested, Asked
  <2>3. Requested(e, Modes)
    BY <1>4, <1>5, <2>1
  <2>4. QED
    BY <1>0, <1>5, <2>2, <2>3 DEF FlagsExplained
<1>6. ASSUME NEW s \in Calls, call[s].target = e, Cancel(s, "stopping", "requested"),
             entry'[e].cancelled, entry'[e].stop = entry[e].stop,
             entry'[e].graceful = entry[e].graceful
      PROVE  /\ entry'[e].stop \/ entry'[e].graceful => Requested(e, {"stop", "save"})'
             /\ entry'[e].cancelled => Hooked(e)'
             /\ Requested(e, Modes)' => entry'[e].stop \/ Requested(e, {"kill"})'
  <2>1. pc[s] = "stopping" /\ hook'[s] = "waiting" /\ call' = call
    BY <1>6 DEF Cancel, Go, TypeOK
  <2>2. Requested(e, Modes) /\ Hooked(e)'
    BY <1>4, <1>6, <2>1 DEF Hooked
  <2>3. QED
    BY <1>0, <1>6, <2>2 DEF FlagsExplained
<1>7. QED
  BY <1>2, <1>3, <1>5, <1>6, FlagSteps

(* A call whose hook exists has asked.                                     *)
LEMMA HookedAsked ==
    ASSUME CallsOK, NEW e \in Entries, Hooked(e)
    PROVE  /\ \E s \in Calls : Asked(s, e) /\ hook[s] # "none"
           /\ TypeOK => Requested(e, Modes)
BY DEF CallsOK, Hooked, Asked, Asking, Requested, TypeOK

(* Who leaves the cleanup to others was asked to.                          *)
LEMMA DoneAsked ==
    ASSUME TypeOK, FlagsExplained, [Next]_vars, NEW e \in Entries,
           pc'[e] = "done", pc[e] \notin {"done", "dropConfig"}
    PROVE  Requested(e, Modes)
<1>1. pc[e] = "announced" /\ Decide(e)
  BY EntryPaths, EntrySteps DEF EntryPath
<1>2. entry[e].stop
  BY <1>1, GoMoves DEF Decide, TypeOK
<1>3. QED
  BY <1>2 DEF FlagsExplained, Requested, Modes

LEMMA ErrorsStep ==
    ASSUME TypeOK, CallsOK, FlagsExplained, ErrorsExplained, [Next]_vars PROVE ErrorsExplained'
<1> SUFFICES ASSUME NEW e \in Entries
             PROVE  /\ pc'[e] \in Over <=> exit'[e].err # "none"
                    /\ exit'[e].err \in {"cancelled", "wrapped"} => entry'[e].cancelled
                    /\ pc'[e] = "doubted" =>
                          exit'[e].err = "cancelled" /\ Requested(e, {"kill"})'
  BY DEF ErrorsExplained
<1>0. exit \in [Entries -> ExitType] /\ pc \in [Entries \cup Calls -> EntryPc \cup CallPc]
  BY DEF TypeOK, ExitType
<1>1. CASE pc[e] = "running" /\ pc'[e] # pc[e]
  <2>1. pc'[e] = "returned" /\ Return(e)
    BY <1>0, <1>1, EntrySteps, GoMoves DEF Return
  <2>2. PICK err \in {"fail", "cancelled", "wrapped"} :
           /\ exit' = [exit EXCEPT ![e].err = err]
           /\ err # "fail" => entry[e].cancelled
    BY <2>1 DEF Return
  <2>3. exit'[e].err = err
    BY <1>0, <2>2 DEF ExitType
  <2>4. QED
    BY <2>1, <2>2, <2>3, EntryKeeps DEF Over, Ending
<1>2. CASE pc[e] # "running" \/ pc'[e] = pc[e]
  <2>1. exit'[e].err = exit[e].err
    <3>1. pc[e] = "running" => \A f \in Entries : Return(f) => f # e
      BY <1>0, <1>2, GoMoves DEF Return
    <3>2. ASSUME NEW f \in Entries, Return(f), f # e PROVE exit'[e] = exit[e]
      BY <1>0, <3>2 DEF Return
    <3>3. ASSUME NEW f \in Entries, Judge(f) \/ Doubt(f) PROVE exit'[e].err = exit[e].err
      BY <1>0, <3>3 DEF Judge, Doubt, ExitType
    <3>4. QED
      BY <1>2, <3>1, <3>2, <3>3, ErrStays, Writers
  <2>2. pc'[e] \in Over <=> pc[e] \in Over
    BY <1>2, EntryPaths DEF EntryPath, Over, Ending, Removing
  <2>3. ASSUME pc'[e] = "doubted"
        PROVE  exit[e].err = "cancelled" /\ Requested(e, {"kill"})
    <3>1. CASE pc[e] = "doubted"
      BY <3>1 DEF ErrorsExplained
    <3>2. CASE pc[e] # "doubted"
      <4>1. pc[e] = "noted"
        BY <2>3, <3>2, EntryPaths DEF EntryPath
      <4>2. pc'[e] = IF ~entry[e].stop /\ exit[e].err = "cancelled" THEN "doubted" ELSE "judged"
        BY <1>0, <2>3, <4>1, EntrySteps, GoMoves DEF Judge
      <4>3. ~entry[e].stop /\ exit[e].err = "cancelled"
        BY <2>3, <4>2
      <4>4. Hooked(e)
        BY <4>3 DEF ErrorsExplained, FlagsExplained
      <4>5. Requested(e, Modes)
        BY <4>4, HookedAsked
      <4>6. QED
        BY <4>3, <4>5 DEF FlagsExplained
    <3>3. QED
      BY <3>1, <3>2
  <2>4. QED
    BY <2>1, <2>2, <2>3, EntryKeeps, RequestedStays DEF ErrorsExplained
<1>3. QED
  BY <1>1, <1>2

LEMMA StatusStep ==
    ASSUME TypeOK, CallsOK, FlagsExplained, ErrorsExplained, StatusExplained, [Next]_vars
    PROVE  StatusExplained'
<1> SUFFICES ASSUME NEW e \in Entries, pc'[e] = "stored"
             PROVE  status'[e] = Verdict(e)' \/ Meddled(e, status[e])'
  BY DEF StatusExplained
<1>0. /\ status \in [Entries -> Statuses] /\ call \in [Calls -> CallType]
      /\ pc \in [Entries \cup Calls -> EntryPc \cup CallPc]
  BY DEF TypeOK, CallType
<1>1. pc[e] \in {"judged", "stored"}
  BY EntryPaths DEF EntryPath
<1>2. Verdict(e)' = Verdict(e)
  BY <1>1, VerdictStays DEF Verdict
<1>3. (Crowded(e) => Crowded(e)') /\ (TimedOut(e) => TimedOut(e)')
  BY <1>1, CrowdedStays, TimedOutStays
<1>4. CASE pc[e] = "judged"
  BY <1>0, <1>2, <1>4, EntrySteps DEF StoreVerdict
<1>5. CASE pc[e] = "stored"
  <2>1. status[e] = Verdict(e) \/ Meddled(e, status[e])
    BY <1>5 DEF StatusExplained
  <2>2. CASE status'[e] = status[e]
    BY <1>2, <1>3, <2>1, <2>2 DEF Meddled
  <2>3. ASSUME NEW s \in Calls, StoreStopping(s), call[s].target = e
        PROVE  Meddled(e, status[e])'
    <3>1. pc[s] = "marked" /\ pc'[s] = "stopping" /\ call' = call /\ exit' = exit
      BY <1>0, <2>3, GoMoves DEF StoreStopping
    <3>2. Asked(s, e)'
      BY <2>3, <3>1 DEF Asked
    <3>3. Crowded(e)'
      <4>1. CASE exit[e].err = "fail"
        BY <3>1, <3>2, <4>1 DEF Crowded
      <4>2. CASE exit[e].err # "fail"
        <5>1. exit[e].err \in {"cancelled", "wrapped"}
          BY <1>5, <4>2 DEF ErrorsExplained, Over, Ending, TypeOK
        <5>2. Hooked(e)
          BY <5>1 DEF ErrorsExplained, FlagsExplained
        <5>3. PICK t \in Calls : Asked(t, e) /\ hook[t] # "none"
          BY <5>2, HookedAsked
        <5>4. t # s
          BY <3>1, <5>3 DEF CallsOK, Asking
        <5>5. QED
          BY <3>2, <5>3, <5>4, AskedStays DEF Crowded
      <4>3. QED
        BY <4>1, <4>2
    <3>4. status'[e] = "stopping"
      BY <1>0, <2>3 DEF StoreStopping
    <3>5. QED
      BY <3>3, <3>4 DEF Meddled
  <2>4. ASSUME NEW s \in Calls, TimeOut(s), call[s].target = e
        PROVE  Meddled(e, status[e])'
    <3>1. /\ pc[s] = "requested" /\ pc'[s] = "dropMailbox"
          /\ call'[s].late /\ call'[s].target = e
      BY <1>0, <2>4, GoMoves DEF TimeOut, CallType
    <3>2. TimedOut(e)' /\ Asked(s, e)'
      BY <3>1 DEF TimedOut, Asked
    <3>3. status'[e] = "crashed" \/ \E t \in Calls \ {s} : Asked(t, e)
      BY <1>0, <2>4 DEF TimeOut
    <3>4. (\E t \in Calls \ {s} : Asked(t, e)) => Crowded(e)'
      BY <3>2, AskedStays DEF Crowded
    <3>5. QED
      BY <3>2, <3>3, <3>4 DEF Meddled
  <2>5. ASSUME status'[e] # status[e]
        PROVE  \E s \in Calls : call[s].target = e /\ (StoreStopping(s) \/ TimeOut(s))
    <3>1. ASSUME NEW f \in Entries, StoreVerdict(f) PROVE status'[e] = status[e]
      BY <1>0, <1>5, <3>1 DEF StoreVerdict, Go
    <3>2. ASSUME NEW s \in Calls, StoreStopping(s) \/ TimeOut(s), call[s].target # e
          PROVE  status'[e] = status[e]
      BY <1>0, <3>2 DEF StoreStopping, TimeOut
    <3>3. QED
      BY <2>5, <3>1, <3>2, Writers
  <2>6. QED
    BY <2>2, <2>3, <2>4, <2>5
<1>6. QED
  BY <1>1, <1>4, <1>5

LEMMA TellsStep ==
    ASSUME TypeOK, CallsOK, FlagsExplained, ErrorsExplained, StatusExplained, EventTellsWhy,
           [Next]_vars
    PROVE  EventTellsWhy'
<1> DEFINE Because(e) == IF exit[e].isError THEN exit[e].err = "fail" \/ Requested(e, {"kill"})
                         ELSE exit[e].err # "fail" /\ Requested(e, {"stop", "save"})
<1> SUFFICES ASSUME NEW e \in Entries
             PROVE  /\ pc'[e] \in {"judged", "stored"} \cup Announced => Because(e)'
                    /\ pc'[e] \in Announced => told'[e] = Verdict(e)' \/ Meddled(e, told[e])'
  BY DEF EventTellsWhy
<1>0. /\ exit \in [Entries -> ExitType] /\ told \in [Entries -> Statuses]
      /\ pc \in [Entries \cup Calls -> EntryPc \cup CallPc]
  BY DEF TypeOK, ExitType
<1>R. \A modes : Requested(e, modes) => Requested(e, modes)'
  BY RequestedStays
<1>1. ASSUME pc'[e] \in {"judged", "stored"} \cup Announced PROVE Because(e)'
  <2>1. CASE pc[e] \in {"judged", "stored"} \cup Announced
    <3>1. exit'[e].err = exit[e].err /\ exit'[e].isError = exit[e].isError
      BY <2>1, ErrStays, VerdictStays DEF Announced, Removing
    <3>2. Because(e)
      BY <2>1 DEF EventTellsWhy
    <3>3. QED
      BY <1>R, <3>1, <3>2
  <2>2. CASE pc[e] \notin {"judged", "stored"} \cup Announced
    <3>1. pc'[e] = "judged" /\ pc[e] \in {"noted", "doubted"}
      BY <1>1, <2>2, EntryPaths DEF EntryPath, Announced, Removing
    <3>2. exit[e].err \in {"fail", "cancelled", "wrapped"}
      BY <1>0, <3>1 DEF ErrorsExplained, Over, Ending, ExitType
    <3>3. exit'[e].err = exit[e].err
      BY <3>1, ErrStays
    <3>4. CASE Judge(e)
      <4>1. exit'[e].isError = ~StopEnded(e) /\ ~(~entry[e].stop /\ exit[e].err = "cancelled")
        BY <1>0, <3>1, <3>4, GoMoves DEF Judge, ExitType
      <4>2. CASE StopEnded(e)
        <5>1. Requested(e, {"stop", "save"})
          BY <4>2 DEF StopEnded, FlagsExplained
        <5>2. QED
          BY <1>R, <3>3, <4>1, <4>2, <5>1 DEF StopEnded
      <4>3. CASE ~StopEnded(e) /\ exit[e].err # "fail"
        <5>1. ~entry[e].stop /\ Hooked(e)
          BY <3>2, <4>3 DEF StopEnded, ErrorsExplained, FlagsExplained
        <5>2. Requested(e, {"kill"})
          BY <5>1, HookedAsked DEF FlagsExplained
        <5>3. QED
          BY <1>R, <4>1, <4>3, <5>2
      <4>4. CASE ~StopEnded(e) /\ exit[e].err = "fail"
        BY <3>3, <4>1, <4>4
      <4>5. QED
        BY <4>2, <4>3, <4>4
    <3>5. CASE Doubt(e)
      <4>1. pc[e] = "doubted" /\ exit'[e].isError = ~entry[e].graceful
        BY <1>0, <3>5, GoMoves DEF Doubt, ExitType
      <4>2. exit[e].err = "cancelled" /\ Requested(e, {"kill"})
        BY <4>1 DEF ErrorsExplained
      <4>3. entry[e].graceful => Requested(e, {"stop", "save"})
        BY DEF FlagsExplained
      <4>4. QED
        BY <1>R, <3>3, <4>1, <4>2, <4>3
    <3>6. QED
      BY <3>1, <3>4, <3>5, EntrySteps
  <2>3. QED
    BY <2>1, <2>2
<1>2. ASSUME pc'[e] \in Announced PROVE told'[e] = Verdict(e)' \/ Meddled(e, told[e])'
  <2>1. pc[e] \in {"stored"} \cup Announced
    BY <1>2, EntryPaths DEF EntryPath, Announced, Removing
  <2>2. /\ Verdict(e)' = Verdict(e)
        /\ (Crowded(e) => Crowded(e)') /\ (TimedOut(e) => TimedOut(e)')
    BY <2>1, VerdictStays, CrowdedStays, TimedOutStays DEF Verdict, Announced, Removing
  <2>3. CASE pc[e] = "stored"
    <3>1. told'[e] = status[e]
      BY <1>0, <1>2, <2>3, EntrySteps DEF Announce, Announced, Removing
    <3>2. QED
      BY <2>2, <2>3, <3>1 DEF StatusExplained, Meddled
  <2>4. CASE pc[e] \in Announced
    <3>1. told'[e] = told[e]
      BY <1>0, <2>4, Writers DEF Announce, Go, Announced, Removing
    <3>2. QED
      BY <2>2, <2>4, <3>1 DEF EventTellsWhy, Meddled
  <2>5. QED
    BY <2>1, <2>3, <2>4
<1>3. QED
  BY <1>1, <1>2

LEMMA ListedStep ==
    ASSUME TypeOK, PcOK, CallsOK, FlagsExplained, RegisteredOnce, [Next]_vars
    PROVE  RegisteredOnce'
<1> SUFFICES ASSUME NEW e \in Entries, vms' = e
             PROVE  /\ pc'[e] \notin Early \cup {"dropGroup", "dropConfig"}
                    /\ \A s \in Calls : call'[s].target = e =>
                          pc'[s] \notin {"dropGroup", "dropConfig", "returned"}
                    /\ pc'[e] = "done" => Requested(e, Modes)'
  BY DEF RegisteredOnce
<1>0. pc \in [Entries \cup Calls -> EntryPc \cup CallPc]
  BY DEF TypeOK
<1>1. CASE Register(e)
  <2>1. /\ pc[e] = "joined" /\ pc'[e] = "registered" /\ call' = call
        /\ \A s \in Calls : pc'[s] = pc[s]
    BY <1>0, <1>1, GoMoves, DistinctAssumption DEF Register, locals
  <2>2. \A s \in Calls : call[s].target = e => pc[s] = "idle"
    BY <2>1 DEF CallsOK, Early
  <2>3. QED
    BY <2>1, <2>2 DEF Early
<1>2. CASE ~Register(e)
  <2>1. vms = e /\ \A p \in Entries \cup Calls : ~DropVM(p)
    BY <1>2, Registrars, DistinctAssumption DEF Register, DropVM
  <2>2. \A p \in Entries \cup Calls : pc[p] = "dropVM" => pc'[p] = pc[p]
    BY <2>1, DropsFirst
  <2>3. pc'[e] \notin Early \cup {"dropGroup", "dropConfig"}
    BY <2>1, <2>2, EntryPaths DEF RegisteredOnce, EntryPath, Early
  <2>4. ASSUME NEW s \in Calls, call'[s].target = e
        PROVE  pc'[s] \notin {"dropGroup", "dropConfig", "returned"}
    <3>1. CASE pc[s] = "idle"
      BY <3>1, CallPaths DEF CallPath
    <3>2. CASE pc[s] # "idle"
      <4>1. call[s].target = e
        BY <2>4, <3>2, CallKeeps
      <4>2. QED
        BY <2>1, <2>2, <4>1, CallPaths DEF RegisteredOnce, CallPath
    <3>3. QED
      BY <3>1, <3>2
  <2>5. ASSUME pc'[e] = "done" PROVE Requested(e, Modes)
    <3>1. CASE pc[e] = "done"
      BY <2>1, <3>1 DEF RegisteredOnce
    <3>2. CASE pc[e] # "done"
      BY <2>1, <2>5, <3>2, DoneAsked DEF RegisteredOnce
    <3>3. QED
      BY <3>1, <3>2
  <2>6. QED
    BY <2>3, <2>4, <2>5, RequestedStays
<1>3. QED
  BY <1>1, <1>2
----------------------------------------------------------------------------
LEMMA InitIInv == Init => IInv
<1> SUFFICES ASSUME Init PROVE IInv
  OBVIOUS
<1> USE DistinctAssumption DEF Init
<1>1. TypeOK
  BY DEF TypeOK, EntryPc, CallPc, Modes, Statuses
<1>2. /\ \A e \in Entries : pc[e] = "unborn" /\ vms # e /\ exit[e].err = "none"
      /\ \A e \in Entries : ~entry[e].stop /\ ~entry[e].graceful /\ ~entry[e].cancelled
      /\ \A s \in Calls : pc[s] = "idle" /\ hook[s] = "none" /\ ~call[s].late
  OBVIOUS
<1>3. PcOK /\ CallsOK /\ RegisteredOnce
  BY <1>2 DEF PcOK, EntryPc, CallPc, CallsOK, RegisteredOnce
<1>4. FlagsExplained
  BY <1>2 DEF FlagsExplained, Requested, Asked
<1>5. ErrorsExplained /\ StatusExplained
  BY <1>2 DEF ErrorsExplained, StatusExplained, Over, Ending, Removing
<1>6. EventTellsWhy
  BY <1>2 DEF EventTellsWhy, Announced, Removing
<1>7. QED
  BY <1>1, <1>3, <1>4, <1>5, <1>6 DEF IInv, Explained

(* Every state is one that the steps so far explain.                       *)
THEOREM Inductive == Spec => []IInv
<1>1. IInv /\ [Next]_vars => IInv'
  BY TypeStep, PcStep, CallsStep, FlagsStep, ErrorsStep, StatusStep, ListedStep, TellsStep
  DEF IInv, Explained
<1>2. QED
  BY InitIInv, <1>1, PTL DEF Spec

(* The registries, flags and places of any number of VMs and calls stay    *)
(* what the code declares them to be.                                      *)
THEOREM TypeCorrect == Spec => []TypeOK
<1>1. IInv => TypeOK
  BY DEF IInv
<1>2. QED
  BY Inductive, <1>1, PTL

(* The classification at the end of the goroutine that SpawnVM starts,     *)
(* against every overlapping terminateVM: the event is an error only after *)
(* a failure or a killVM and none only after a stopVM, and its status, a   *)
(* field that is stored, shared and loaded again, says the same unless a   *)
(* call that the end of the VM did not need, or one that timed out, stores *)
(* another in between.                                                     *)
THEOREM EventsTellWhy == Spec => []EventTellsWhy
<1>1. IInv => EventTellsWhy
  BY DEF IInv, Explained
<1>2. QED
  BY Inductive, <1>1, PTL

(* A VM that has ended and is still listed has a terminateVM that has not  *)
(* finished removing it: nobody leaves the cleanup to nobody.              *)
THEOREM EndedCleanedUp == Spec => []EndedIsCleanedUp
<1>1. IInv => EndedIsCleanedUp
  <2>1. SUFFICES ASSUME IInv, NEW e \in Entries, pc[e] = "done", vms = e
                 PROVE  \E s \in Calls : call[s].target = e /\ pc[s] \notin {"idle", "returned"}
    BY DEF EndedIsCleanedUp
  <2>2. CallsOK /\ RegisteredOnce
    BY <2>1 DEF IInv, Explained
  <2>3. PICK s \in Calls : call[s].target = e /\ pc[s] # "idle"
    BY <2>1, <2>2 DEF RegisteredOnce, Requested, Asked
  <2>4. pc[s] # "returned"
    BY <2>1, <2>2, <2>3 DEF RegisteredOnce
  <2>5. QED
    BY <2>3, <2>4
<1>2. QED
  BY Inductive, <1>1, PTL
----------------------------------------------------------------------------
(* The registries, when ids are reused only after everything about the     *)
(* last VM has returned.                                                   *)

(* A VM that somebody is still busy with.                                  *)
Busy(e) ==
    \/ pc[e] \notin {"unborn", "refused", "done"}
    \/ \E s \in Calls : call[s].target = e /\ pc[s] \notin {"idle", "returned"}

(* A call that has not timed out removes what it has seen end.             *)
CallsInTime ==
    \A s \in Calls :
        /\ pc[s] \in {"idle", "requested"} \cup Asking => ~call[s].late
        /\ pc[s] \in Removing \cup {"returned"} => call[s].late \/ hook[s] = "ended"
        /\ hook[s] = "ended" => pc[call[s].target] = "done"
        /\ pc[s] \notin {"idle"} \cup Asking => entry[call[s].target].cancelled

OneAtATime ==
    ~overlap =>
        /\ \A e, f \in Entries : Busy(e) /\ Busy(f) => e = f
        /\ \A s \in Calls : pc[s] # "idle" => pc[call[s].target] \notin Spawning

(* A registration is made after the places in "before" and removed by      *)
(* whoever first reaches one in "after"; if the VM does not, a call will.  *)
Holds(e, before, after) ==
    /\ pc[e] \notin before \cup after
    /\ \A s \in Calls : call[s].target = e => pc[s] \notin after \cup {"returned"}
    /\ pc[e] = "done" => Requested(e, Modes)

HoldsMailbox(e) == Holds(e, Early \cup {"registered"}, {"dropVM", "dropGroup", "dropConfig"})
HoldsGroup(e) == Holds(e, {"unborn", "checked", "refused"}, {"dropConfig"})
HoldsConfig(e) == Holds(e, Early \cup {"registered", "mailed"}, {})

HoldersKnown ==
    ~overlap =>
        /\ \A e \in Entries : mailboxes = e => HoldsMailbox(e)
        /\ \A e \in Entries : configs = e => HoldsConfig(e)
        /\ \A g \in Groups : groups[g] # 0 =>
              \E e \in Entries : entry[e].group = g /\ HoldsGroup(e)

Alive == {"registered", "mailed", "running", "returned"}

Registered ==
    ~overlap => \A e \in Entries : TimedOut(e) \/
        /\ pc[e] \in Alive \cup {"joined"} => groups[entry[e].group] = 1
        /\ pc[e] \in Alive => vms = e
        /\ pc[e] \in {"mailed", "running", "returned"} => mailboxes = e
        /\ pc[e] \in {"running", "returned"} => configs = e

ErrorsNoted ==
    ~overlap => \A e \in Entries : TimedOut(e) \/
        /\ pc[e] \in Over \ {"returned"} => entry[e].exitError
        /\ onErrors[e] <= IF pc[e] \in Announced THEN 1 ELSE 0

Orderly == CallsInTime /\ OneAtATime /\ HoldersKnown /\ Registered /\ ErrorsNoted

LEMMA InTimeStep ==
    ASSUME TypeOK, Explained, CallsInTime, [Next]_vars
    PROVE  CallsInTime'
<1> SUFFICES ASSUME NEW s \in Calls
             PROVE  /\ pc'[s] \in {"idle", "requested"} \cup Asking => ~call'[s].late
                    /\ pc'[s] \in Removing \cup {"returned"} =>
                          call'[s].late \/ hook'[s] = "ended"
                    /\ hook'[s] = "ended" => pc'[call'[s].target] = "done"
                    /\ pc'[s] \notin {"idle"} \cup Asking => entry'[call'[s].target].cancelled
  BY DEF CallsInTime
<1>0. /\ call \in [Calls -> CallType]
      /\ hook \in [Calls -> {"none", "waiting", "ended"}]
      /\ pc \in [Entries \cup Calls -> EntryPc \cup CallPc]
      /\ pc[s] # "idle" => call[s].target \in Entries
      /\ pc[s] \in {"idle"} \cup Asking => hook[s] = "none"
  BY DEF Explained, CallsOK, TypeOK, CallType
<1>1. \A e \in Entries : pc[e] = "done" => pc'[e] = "done"
  BY EntryPaths DEF EntryPath
<1>2. ASSUME pc'[s] \in {"idle", "requested"} \cup Asking PROVE ~call'[s].late
  <2>1. pc[s] \in {"idle", "requested"} \cup Asking
    BY <1>2, CallPaths DEF CallPath, Asking
  <2>2. ~call[s].late
    BY <2>1 DEF CallsInTime
  <2>3. ASSUME NEW t \in Calls, NEW mode \in Modes, Find(t, mode)
        PROVE  call'[s].late = call[s].late
    BY <1>0, <2>3 DEF Find, CallType
  <2>4. ASSUME NEW t \in Calls, TimeOut(t) PROVE call'[s] = call[s]
    <3>1. t # s
      BY <1>0, <1>2, <2>4, GoMoves DEF TimeOut, Asking
    <3>2. QED
      BY <1>0, <2>4, <3>1 DEF TimeOut
  <2>5. QED
    BY <2>2, <2>3, <2>4, Writers
<1>3. hook[s] = "ended" => hook'[s] = "ended"
  BY <1>0, CallKeeps DEF Asking
<1>4. ASSUME pc'[s] \in Removing \cup {"returned"} PROVE call'[s].late \/ hook'[s] = "ended"
  <2>1. CASE pc[s] \in Removing \cup {"returned"}
    BY <1>3, <2>1, CallKeeps DEF CallsInTime
  <2>2. CASE pc[s] \notin Removing \cup {"returned"}
    <3>1. pc[s] = "requested"
      BY <1>4, <2>2, CallPaths DEF CallPath, Removing
    <3>2. CASE Await(s)
      BY <1>3, <3>2 DEF Await
    <3>3. CASE TimeOut(s)
      BY <1>0, <3>3 DEF TimeOut, CallType
    <3>4. QED
      BY <1>4, <2>2, <3>1, <3>2, <3>3, CallSteps
  <2>3. QED
    BY <2>1, <2>2
<1>5. ASSUME hook'[s] = "ended" PROVE pc'[call'[s].target] = "done"
  <2>1. pc[call[s].target] = "done" /\ hook[s] # "none"
    <3>1. CASE hook[s] = "ended"
      BY <3>1 DEF CallsInTime
    <3>2. CASE hook[s] # "ended"
      BY <1>0, <1>5, <3>2, Writers DEF Cancel, RunHook
    <3>3. QED
      BY <3>1, <3>2
  <2>2. call'[s].target = call[s].target /\ call[s].target \in Entries
    BY <1>0, <2>1, CallKeeps
  <2>3. QED
    BY <1>1, <2>1, <2>2
<1>6. ASSUME pc'[s] \notin {"idle"} \cup Asking PROVE entry'[call'[s].target].cancelled
  <2>1. pc[s] # "idle"
    BY <1>6, CallPaths DEF CallPath, Asking
  <2>2. call'[s].target = call[s].target /\ call[s].target \in Entries
    BY <1>0, <2>1, CallKeeps
  <2>3. CASE pc[s] \in Asking
    <3>1. pc[s] = "stopping"
      BY <1>6, <2>3, CallPaths DEF CallPath, Asking
    <3>2. entry' = [entry EXCEPT ![call[s].target].cancelled = TRUE]
      BY <1>6, <3>1, CallSteps DEF Cancel, Asking
    <3>3. QED
      BY <2>2, <3>2 DEF TypeOK
  <2>4. CASE pc[s] \notin Asking
    BY <2>1, <2>2, <2>4, EntryKeeps DEF CallsInTime
  <2>5. QED
    BY <2>3, <2>4
<1>7. QED
  BY <1>2, <1>4, <1>5, <1>6

(* A goroutine in the middle of its program is busy with its VM.           *)
LEMMA BusyNow ==
    ASSUME Explained, NEW p \in Entries \cup Calls,
           pc[p] \notin {"unborn", "refused", "done", "idle", "returned"}
    PROVE  Subject(p) \in Entries /\ Busy(Subject(p))
<1>1. CASE p \in Entries
  BY <1>1 DEF Subject, Busy
<1>2. CASE p \in Calls
  BY <1>2, DistinctAssumption DEF Subject, Busy, Explained, CallsOK
<1>3. QED
  BY <1>1, <1>2

(* A VM with a registration is one that somebody is busy with.             *)
LEMMA HolderBusy ==
    ASSUME Explained, NEW e \in Entries, NEW before, NEW after,
           "unborn" \in before, "refused" \in before, Holds(e, before, after)
    PROVE  Busy(e)
<1>1. CASE pc[e] = "done"
  <2>1. PICK s \in Calls : call[s].target = e /\ pc[s] # "idle"
    BY <1>1 DEF Holds, Requested, Asked
  <2>2. pc[s] \notin {"idle", "returned"}
    BY <2>1 DEF Holds
  <2>3. QED
    BY <2>1, <2>2 DEF Busy
<1>2. CASE pc[e] # "done"
  BY <1>2 DEF Holds, Busy
<1>3. QED
  BY <1>1, <1>2

LEMMA ListedBusy ==
    ASSUME Explained, NEW e \in Entries, vms = e
    PROVE  Busy(e)
<1>1. Holds(e, Early \cup {"dropGroup", "dropConfig"}, {"dropGroup", "dropConfig"})
  BY DEF Explained, RegisteredOnce, Holds
<1>2. QED
  BY <1>1, HolderBusy DEF Early

(* Only a new VM makes somebody busy with a VM that nobody was busy with.  *)
LEMMA BusyStep ==
    ASSUME TypeOK, Explained, [Next]_vars, NEW e \in Entries, Busy(e)'
    PROVE  Busy(e) \/ Check(e)
<1>1. CASE pc'[e] \notin {"unborn", "refused", "done"}
  <2>1. CASE pc[e] = "unborn"
    BY <1>1, <2>1, EntrySteps
  <2>2. CASE pc[e] # "unborn"
    BY <1>1, <2>2, EntryPaths DEF Busy, EntryPath
  <2>3. QED
    BY <2>1, <2>2
<1>2. CASE \E s \in Calls : call'[s].target = e /\ pc'[s] \notin {"idle", "returned"}
  <2>1. PICK s \in Calls : call'[s].target = e /\ pc'[s] \notin {"idle", "returned"}
    BY <1>2
  <2>2. CASE pc[s] = "idle"
    <3>1. PICK mode \in Modes : Find(s, mode)
      BY <2>1, <2>2, CallSteps
    <3>2. vms = e
      BY <2>1, <3>1 DEF Find, TypeOK
    <3>3. QED
      BY <3>2, ListedBusy
  <2>3. CASE pc[s] # "idle"
    <3>1. call[s].target = e
      BY <2>1, <2>3, CallKeeps
    <3>2. pc[s] # "returned"
      BY <2>1, CallPaths DEF CallPath
    <3>3. QED
      BY <2>3, <3>1, <3>2 DEF Busy
  <2>4. QED
    BY <2>2, <2>3
<1>3. QED
  BY <1>1, <1>2 DEF Busy

(* The history only ever says more.                                        *)
LEMMA OverlapStays ==
    ASSUME TypeOK, [Next]_vars, ~overlap'
    PROVE  /\ ~overlap
           /\ \A e \in Entries : Check(e) => Finished
           /\ \A s \in Calls, mode \in Modes : Find(s, mode) => pc[vms] \notin Spawning
<1>1. ~overlap
  BY Registrars DEF TypeOK, Check, Find
<1>2. \A e \in Entries : Check(e) => Finished
  BY DEF Check
<1>3. \A s \in Calls, mode \in Modes : Find(s, mode) => pc[vms] \notin Spawning
  BY DEF Find
<1>4. QED
  BY <1>1, <1>2, <1>3

LEMMA OneStep ==
    ASSUME TypeOK, Explained, OneAtATime, [Next]_vars
    PROVE  OneAtATime'
<1> SUFFICES ASSUME ~overlap'
             PROVE  /\ \A e, f \in Entries : Busy(e)' /\ Busy(f)' => e = f
                    /\ \A s \in Calls : pc'[s] # "idle" => pc'[call'[s].target] \notin Spawning
  BY DEF OneAtATime
<1>0. ~overlap /\ \A e, f \in Entries : Busy(e) /\ Busy(f) => e = f
  BY OverlapStays DEF OneAtATime
<1>1. ASSUME NEW e \in Entries, NEW f \in Entries, Busy(e)', Busy(f)' PROVE e = f
  <2>1. CASE Check(e) \/ Check(f)
    <3>1. ~Busy(e) /\ ~Busy(f)
      BY <2>1, OverlapStays DEF Finished, Busy
    <3>2. Check(e) /\ Check(f)
      BY <1>1, <3>1, BusyStep
    <3>3. pc'[e] # pc[e] /\ pc'[f] # pc[f]
      BY <3>2, GoMoves DEF Check
    <3>4. QED
      BY <3>2, <3>3, GoMoves DEF Check
  <2>2. CASE ~Check(e) /\ ~Check(f)
    BY <1>0, <1>1, <2>2, BusyStep
  <2>3. QED
    BY <2>1, <2>2
<1>2. ASSUME NEW s \in Calls, pc'[s] # "idle" PROVE pc'[call'[s].target] \notin Spawning
  <2>1. CASE pc[s] = "idle"
    <3>1. PICK mode \in Modes : Find(s, mode)
      BY <1>2, <2>1, CallSteps
    <3>2. call'[s].target = vms /\ vms \in Entries
      BY <3>1 DEF Find, TypeOK
    <3>3. pc'[vms] = pc[vms]
      BY <3>1, <3>2, GoMoves, DistinctAssumption DEF Find
    <3>4. pc[vms] \notin Spawning
      BY <3>1, OverlapStays
    <3>5. QED
      BY <3>2, <3>3, <3>4
  <2>2. CASE pc[s] # "idle"
    <3>1. PICK e \in Entries : e = call[s].target /\ call'[s].target = e
      BY <2>2, CallKeeps DEF Explained, CallsOK
    <3>2. pc[e] \notin Spawning /\ pc[e] \notin Early
      BY <1>0, <2>2, <3>1 DEF OneAtATime, Explained, CallsOK
    <3>3. pc'[e] \notin Spawning
      BY <3>2, EntryPaths DEF EntryPath, Spawning, Early
    <3>4. QED
      BY <3>1, <3>3
  <2>3. QED
    BY <2>1, <2>2
<1>3. QED
  BY <1>1, <1>2

(* A registration is held until somebody drops it.                         *)
LEMMA HoldsStep ==
    ASSUME TypeOK, Explained, [Next]_vars, NEW e \in Entries,
           NEW before, NEW after, NEW stage, Holds(e, before, after),
           after \subseteq Removing, "dropConfig" \in after \cup {stage},
           \A from, to : (EntryPath(from, to) \/ CallPath(from, to)) /\ to \in after =>
                            from \in after \cup {stage},
           pc'[e] \in before => pc[e] \in before,
           \A p \in Entries \cup Calls :
              Subject(p) = e /\ pc[p] = stage => pc'[p] = pc[p]
    PROVE  Holds(e, before, after)'
<1>1. pc'[e] \notin before \cup after
  BY EntryPaths DEF Holds, Subject
<1>2. ASSUME NEW s \in Calls, call'[s].target = e PROVE pc'[s] \notin after \cup {"returned"}
  <2>1. CASE pc[s] = "idle"
    BY <2>1, CallPaths DEF CallPath, Removing
  <2>2. CASE pc[s] # "idle"
    <3>1. Subject(s) = e /\ call[s].target = e
      BY <1>2, <2>2, CallKeeps, DistinctAssumption DEF Subject
    <3>2. pc[s] = stage => pc'[s] = pc[s]
      BY <3>1
    <3>3. pc[s] \notin after \cup {"returned"}
      BY <3>1 DEF Holds
    <3>4. CASE pc'[s] = pc[s]
      BY <3>3, <3>4
    <3>5. CASE pc'[s] # pc[s]
      <4>1. CallPath(pc[s], pc'[s]) /\ pc[s] # stage
        BY <3>2, <3>5, CallPaths
      <4>2. pc'[s] \notin after
        BY <3>3, <4>1
      <4>3. pc'[s] = "returned" => pc[s] = "dropConfig"
        BY <4>1 DEF CallPath
      <4>4. QED
        BY <3>3, <4>1, <4>2, <4>3
    <3>6. QED
      BY <3>4, <3>5
  <2>3. QED
    BY <2>1, <2>2
<1>3. ASSUME pc'[e] = "done" PROVE Requested(e, Modes)'
  <2>1. Requested(e, Modes)
    <3>1. CASE pc[e] = "done"
      BY <3>1 DEF Holds
    <3>2. CASE pc[e] # "done"
      <4>1. pc[e] # "dropConfig"
        <5>1. pc[e] \notin after
          BY DEF Holds
        <5>2. pc[e] = stage => pc'[e] = pc[e]
          BY DEF Subject
        <5>3. QED
          BY <1>3, <3>2, <5>1, <5>2
      <4>2. QED
        BY <1>3, <3>2, <4>1, DoneAsked DEF Explained
    <3>3. QED
      BY <3>1, <3>2
  <2>2. QED
    BY <2>1, RequestedStays DEF Explained
<1>4. QED
  BY <1>1, <1>2, <1>3 DEF Holds

(* SpawnVM does not find the id taken, as long as ids are not reused early *)
LEMMA NotRefused ==
    ASSUME Explained, OneAtATime, ~overlap, NEW e \in Entries, pc[e] = "joined"
    PROVE  \A f \in Entries : vms # f
<1>1. SUFFICES ASSUME NEW f \in Entries, vms = f PROVE FALSE
  OBVIOUS
<1>2. Busy(e) /\ Busy(f)
  BY <1>1, ListedBusy DEF Busy
<1>3. e = f
  BY <1>2 DEF OneAtATime
<1>4. QED
  BY <1>1, <1>3 DEF Explained, RegisteredOnce, Early

LEMMA GroupHeld ==
    ASSUME TypeOK, Explained, OneAtATime, [Next]_vars, ~overlap,
           NEW e \in Entries, HoldsGroup(e),
           \A p \in Entries \cup Calls :
              Subject(p) = e /\ pc[p] = "dropGroup" => pc'[p] = pc[p]
    PROVE  HoldsGroup(e)'
<1>1. pc'[e] \in {"unborn", "checked", "refused"} => pc[e] \in {"unborn", "checked", "refused"}
  <2>1. SUFFICES ASSUME pc'[e] = "refused", pc[e] = "joined" PROVE FALSE
    BY EntryPaths DEF EntryPath
  <2>3. Register(e) \/ Refuse(e)
    BY <2>1, EntrySteps
  <2>4. ~Register(e)
    BY <2>1, GoMoves DEF Register, TypeOK
  <2>5. vms \in Entries
    BY <2>3, <2>4 DEF Refuse, TypeOK
  <2>6. QED
    BY <2>1, <2>5, NotRefused
<1>2. \A from, to : (EntryPath(from, to) \/ CallPath(from, to)) /\ to \in {"dropConfig"} =>
                       from \in {"dropConfig", "dropGroup"}
  BY DEF EntryPath, CallPath
<1>3. QED
  BY <1>1, <1>2, HoldsStep DEF HoldsGroup, Removing

LEMMA HoldersStep ==
    ASSUME TypeOK, Explained, OneAtATime, HoldersKnown, [Next]_vars, TypeOK'
    PROVE  HoldersKnown'
<1> SUFFICES ASSUME ~overlap'
             PROVE  /\ \A e \in Entries : mailboxes' = e => HoldsMailbox(e)'
                    /\ \A e \in Entries : configs' = e => HoldsConfig(e)'
                    /\ \A g \in Groups : groups'[g] # 0 =>
                          \E e \in Entries : entry'[e].group = g /\ HoldsGroup(e)'
  BY DEF HoldersKnown
<1>0. /\ ~overlap
      /\ \A e \in Entries : mailboxes = e => HoldsMailbox(e)
      /\ \A e \in Entries : configs = e => HoldsConfig(e)
      /\ \A g \in Groups : groups[g] # 0 =>
            \E e \in Entries : entry[e].group = g /\ HoldsGroup(e)
  BY OverlapStays DEF HoldersKnown
(* A VM that is being spawned has no calls yet.                            *)
<1>1. ASSUME NEW e \in Entries, NEW s \in Calls, call[s].target = e,
             pc[e] \in Early \cup Spawning
      PROVE  pc[s] = "idle"
  BY <1>0, <1>1 DEF Explained, CallsOK, OneAtATime
<1>2. ASSUME NEW e \in Entries, mailboxes' = e PROVE HoldsMailbox(e)'
  <2>1. CASE PutMailbox(e)
    <3>1. /\ pc[e] = "registered" /\ pc'[e] = "mailed"
          /\ \A s \in Calls : pc'[s] = pc[s]
      BY <2>1, GoMoves, DistinctAssumption DEF PutMailbox
    <3>2. \A s \in Calls : call'[s].target = e => pc'[s] = "idle"
      <4>1. call' = call
        BY <2>1 DEF PutMailbox, locals
      <4>2. QED
        BY <1>1, <3>1, <4>1 DEF Spawning
    <3>3. QED
      BY <3>1, <3>2 DEF HoldsMailbox, Holds, Early
  <2>2. CASE ~PutMailbox(e)
    <3>1. mailboxes = e
      BY <1>2, <2>2, Registrars, DistinctAssumption DEF PutMailbox, DropMailbox
    <3>2. ASSUME NEW p \in Entries \cup Calls, pc[p] = "dropMailbox" PROVE pc'[p] = pc[p]
      BY <1>2, <3>2, DropsFirst, DistinctAssumption DEF DropMailbox
    <3>3. pc'[e] \in Early \cup {"registered"} => pc[e] \in Early \cup {"registered"}
      BY EntryPaths DEF EntryPath, Early
    <3>4. \A from, to : (EntryPath(from, to) \/ CallPath(from, to))
                           /\ to \in {"dropVM", "dropGroup", "dropConfig"} =>
             from \in {"dropVM", "dropGroup", "dropConfig", "dropMailbox"}
      BY DEF EntryPath, CallPath
    <3>5. Holds(e, Early \cup {"registered"}, {"dropVM", "dropGroup", "dropConfig"})
      BY <1>0, <3>1 DEF HoldsMailbox
    <3>6. QED
      BY <3>2, <3>3, <3>4, <3>5, HoldsStep DEF HoldsMailbox, Removing, Early
  <2>3. QED
    BY <2>1, <2>2
<1>3. ASSUME NEW e \in Entries, configs' = e PROVE HoldsConfig(e)'
  <2>1. CASE Launch(e)
    <3>1. /\ pc[e] = "mailed" /\ pc'[e] = "running"
          /\ \A s \in Calls : pc'[s] = pc[s]
      BY <2>1, GoMoves, DistinctAssumption DEF Launch
    <3>2. \A s \in Calls : call'[s].target = e => pc'[s] = "idle"
      <4>1. call' = call
        BY <2>1 DEF Launch, locals
      <4>2. QED
        BY <1>1, <3>1, <4>1 DEF Spawning
    <3>3. QED
      BY <3>1, <3>2 DEF HoldsConfig, Holds, Early
  <2>2. CASE ~Launch(e)
    <3>1. configs = e
      BY <1>3, <2>2, Registrars, DistinctAssumption DEF Launch, DropConfig
    <3>2. ASSUME NEW p \in Entries \cup Calls, pc[p] = "dropConfig" PROVE pc'[p] = pc[p]
      BY <1>3, <3>2, DropsFirst, DistinctAssumption DEF DropConfig
    <3>3. pc'[e] \in Early \cup {"registered", "mailed"} =>
             pc[e] \in Early \cup {"registered", "mailed"}
      BY EntryPaths DEF EntryPath, Early
    <3>4. Holds(e, Early \cup {"registered", "mailed"}, {})
      BY <1>0, <3>1 DEF HoldsConfig
    <3>5. QED
      BY <3>2, <3>3, <3>4, HoldsStep DEF HoldsConfig, Removing, Early
  <2>3. QED
    BY <2>1, <2>2
<1>4. ASSUME NEW g \in Groups, groups'[g] # 0
      PROVE  \E e \in Entries : entry'[e].group = g /\ HoldsGroup(e)'
  <2>1. CASE groups[g] # 0
    <3>1. PICK e \in Entries : entry[e].group = g /\ HoldsGroup(e)
      BY <1>0, <2>1
    <3>2. ASSUME NEW p \in Entries \cup Calls, Subject(p) = e, pc[p] = "dropGroup"
          PROVE  pc'[p] = pc[p]
      <4>1. DropGroup(p) => groups'[entry[e].group] = 0
        BY <1>4, <3>1, <3>2 DEF DropGroup, TypeOK
      <4>2. QED
        BY <1>4, <3>1, <3>2, <4>1, DropsFirst
    <3>3. HoldsGroup(e)'
      BY <1>0, <3>1, <3>2, GroupHeld
    <3>4. QED
      BY <3>1, <3>3, EntryKeeps
  <2>2. CASE groups[g] = 0
    <3>1. PICK e \in Entries : Join(e) /\ entry[e].group = g
      <4>1. ~UNCHANGED groups
        BY <1>4, <2>2
      <4>2. ASSUME NEW p \in Entries \cup Calls PROVE ~DropGroup(p)
        <5>1. SUFFICES ASSUME DropGroup(p) PROVE groups'[g] \in {groups[g], 0}
          BY <1>4, <2>2
        <5>2. QED
          BY <5>1 DEF DropGroup, TypeOK
      <4>3. PICK e \in Entries : Join(e)
        BY <4>1, <4>2, Registrars
      <4>4. entry[e].group = g
        BY <1>4, <2>2, <4>3 DEF Join, TypeOK
      <4>5. QED
        BY <4>3, <4>4
    <3>2. /\ pc[e] = "checked" /\ pc'[e] = "joined"
          /\ \A s \in Calls : pc'[s] = pc[s]
      BY <3>1, GoMoves, DistinctAssumption DEF Join
    <3>3. \A s \in Calls : call'[s].target = e => pc'[s] = "idle"
      <4>1. call' = call
        BY <3>1 DEF Join, locals
      <4>2. QED
        BY <1>1, <3>2, <4>1 DEF Spawning
    <3>4. HoldsGroup(e)'
      BY <3>2, <3>3 DEF HoldsGroup, Holds
    <3>5. QED
      BY <3>1, <3>4, EntryKeeps
  <2>3. QED
    BY <2>1, <2>2
<1>5. QED
  BY <1>2, <1>3, <1>4
----------------------------------------------------------------------------
(* A VM that no call has timed out on and that has not begun to end.       *)
Lively(e) == ~overlap /\ ~TimedOut(e) /\ pc[e] \in Alive \cup {"checked", "joined"}

(* Nobody else does anything then, and nobody removes anything.            *)
LEMMA Alone ==
    ASSUME Explained, CallsInTime, OneAtATime, NEW e \in Entries, Lively(e),
           NEW p \in Entries \cup Calls,
           pc[p] \notin {"unborn", "refused", "done", "idle", "returned"}
    PROVE  Subject(p) = e /\ pc[p] \notin Removing
<1>1. Subject(p) = e
  <2>1. Busy(e)
    BY DEF Lively, Alive, Busy
  <2>2. Subject(p) \in Entries /\ Busy(Subject(p))
    BY BusyNow
  <2>3. QED
    BY <2>1, <2>2 DEF Lively, OneAtATime
<1>2. ASSUME pc[p] \in Removing PROVE FALSE
  <2>1. CASE p \in Entries
    BY <1>1, <1>2, <2>1 DEF Subject, Lively, Alive, Removing
  <2>2. CASE p \in Calls
    <3>1. call[p].target = e
      BY <1>1, <2>2, DistinctAssumption DEF Subject
    <3>2. ~call[p].late
      BY <2>2, <3>1 DEF Lively, TimedOut
    <3>3. pc[e] = "done"
      BY <1>2, <2>2, <3>1, <3>2 DEF CallsInTime
    <3>4. QED
      BY <3>3 DEF Lively, Alive
  <2>3. QED
    BY <2>1, <2>2
<1>3. QED
  BY <1>1, <1>2

(* So its registrations change by its own spawning only.                   *)
LEMMA Quiet ==
    ASSUME Explained, CallsInTime, OneAtATime, [Next]_vars, NEW e \in Entries, Lively(e)
    PROVE  /\ groups' = groups \/ Join(e)
           /\ vms' = vms \/ Register(e)
           /\ mailboxes' = mailboxes \/ PutMailbox(e)
           /\ configs' = configs \/ Launch(e)
<1>1. \A p \in Entries \cup Calls : ~Remove(p)
  BY Alone DEF Remove, DropMailbox, DropVM, DropGroup, DropConfig, Go, Removing
<1>2. \A f \in Entries :
         Join(f) \/ Register(f) \/ PutMailbox(f) \/ Launch(f) => f = e
  <2>1. SUFFICES ASSUME NEW f \in Entries,
                        pc[f] \in {"checked", "joined", "registered", "mailed"}
                 PROVE  f = e
    BY DEF Join, Register, PutMailbox, Launch, Go
  <2>2. Subject(f) = e
    BY <2>1, Alone
  <2>3. QED
    BY <2>2 DEF Subject
<1>3. QED
  BY <1>1, <1>2, Registrars DEF Remove

(* The first place of a new VM in its group is the only one.               *)
LEMMA GroupEmpty ==
    ASSUME TypeOK, Explained, OneAtATime, HoldersKnown, ~overlap,
           NEW e \in Entries, pc[e] = "checked"
    PROVE  groups[entry[e].group] = 0
<1>1. SUFFICES ASSUME groups[entry[e].group] # 0 PROVE FALSE
  OBVIOUS
<1>2. entry[e].group \in Groups
  BY DEF TypeOK
<1>3. PICK f \in Entries : HoldsGroup(f)
  BY <1>1, <1>2 DEF HoldersKnown
<1>4. Busy(f) /\ Busy(e)
  BY <1>3, HolderBusy DEF HoldsGroup, Busy
<1>5. e = f
  BY <1>4 DEF OneAtATime
<1>6. QED
  BY <1>3, <1>5 DEF HoldsGroup, Holds

LEMMA RegisteredStep ==
    ASSUME TypeOK, Explained, Orderly, [Next]_vars
    PROVE  Registered'
<1> SUFFICES ASSUME ~overlap', NEW e \in Entries, ~TimedOut(e)'
             PROVE  /\ pc'[e] \in Alive \cup {"joined"} => groups'[entry'[e].group] = 1
                    /\ pc'[e] \in Alive => vms' = e
                    /\ pc'[e] \in {"mailed", "running", "returned"} => mailboxes' = e
                    /\ pc'[e] \in {"running", "returned"} => configs' = e
  BY DEF Registered
<1>1. CallsInTime /\ OneAtATime /\ HoldersKnown /\ Registered
  BY DEF Orderly
<1>2. ~overlap /\ ~TimedOut(e) /\ entry'[e].group = entry[e].group
  BY <1>1, OverlapStays, TimedOutStays, EntryKeeps DEF Explained
<1>3. /\ pc[e] \in Alive \cup {"joined"} => groups[entry[e].group] = 1
      /\ pc[e] \in Alive => vms = e
      /\ pc[e] \in {"mailed", "running", "returned"} => mailboxes = e
      /\ pc[e] \in {"running", "returned"} => configs = e
  BY <1>1, <1>2 DEF Registered
<1>4. CASE pc[e] \notin Alive \cup {"checked", "joined"}
  <2>1. pc'[e] \notin Alive \cup {"joined"}
    BY <1>4, EntryPaths DEF EntryPath, Alive
  <2>2. QED
    BY <2>1 DEF Alive
<1>5. CASE pc[e] \in Alive \cup {"checked", "joined"}
  <2>1. /\ groups' = groups \/ Join(e)
        /\ vms' = vms \/ Register(e)
        /\ mailboxes' = mailboxes \/ PutMailbox(e)
        /\ configs' = configs \/ Launch(e)
    BY <1>1, <1>2, <1>5, Quiet DEF Lively
  <2>2. CASE Join(e)
    <3>1. pc[e] = "checked" /\ pc'[e] = "joined"
      BY <2>2, GoMoves DEF Join
    <3>2. groups[entry[e].group] = 0
      BY <1>1, <1>2, <3>1, GroupEmpty
    <3>3. groups'[entry[e].group] = 1
      BY <2>2, <3>2 DEF Join, TypeOK
    <3>4. QED
      BY <1>2, <3>1, <3>3 DEF Alive
  <2>3. CASE Register(e)
    <3>1. pc[e] = "joined" /\ pc'[e] = "registered" /\ vms' = e /\ groups' = groups
      BY <2>3, GoMoves DEF Register
    <3>2. QED
      BY <1>2, <1>3, <3>1 DEF Alive
  <2>4. CASE PutMailbox(e)
    <3>1. /\ pc[e] = "registered" /\ pc'[e] = "mailed"
          /\ mailboxes' = e /\ vms' = vms /\ groups' = groups
      BY <2>4, GoMoves DEF PutMailbox
    <3>2. QED
      BY <1>2, <1>3, <3>1 DEF Alive
  <2>5. CASE Launch(e)
    <3>1. /\ pc[e] = "mailed" /\ pc'[e] = "running" /\ configs' = e
          /\ mailboxes' = mailboxes /\ vms' = vms /\ groups' = groups
      BY <2>5, GoMoves DEF Launch
    <3>2. QED
      BY <1>2, <1>3, <3>1 DEF Alive
  <2>6. CASE ~Join(e) /\ ~Register(e) /\ ~PutMailbox(e) /\ ~Launch(e)
    <3>1. UNCHANGED registries
      BY <2>1, <2>6 DEF registries
    <3>2. CASE pc'[e] = pc[e]
      BY <1>2, <1>3, <3>1, <3>2 DEF registries
    <3>3. CASE pc'[e] # pc[e]
      <4>1. pc[e] \in {"joined", "running", "returned"} /\ EntryPath(pc[e], pc'[e])
        BY <1>5, <2>6, <3>3, EntrySteps, EntryPaths DEF Alive
      <4>2. pc[e] = "joined" => pc'[e] = "refused"
        BY <2>6, <3>3, EntrySteps, GoMoves DEF Refuse
      <4>3. pc'[e] \in Alive \cup {"joined"} => pc[e] = "running" /\ pc'[e] = "returned"
        BY <4>1, <4>2 DEF EntryPath, Alive
      <4>4. QED
        BY <1>2, <1>3, <3>1, <4>3 DEF registries, Alive
    <3>4. QED
      BY <3>2, <3>3
  <2>7. QED
    BY <2>2, <2>3, <2>4, <2>5, <2>6
<1>6. QED
  BY <1>4, <1>5

LEMMA NotedStep ==
    ASSUME TypeOK, Explained, Orderly, [Next]_vars
    PROVE  ErrorsNoted'
<1> SUFFICES ASSUME ~overlap', NEW e \in Entries, ~TimedOut(e)'
             PROVE  /\ pc'[e] \in Over \ {"returned"} => entry'[e].exitError
                    /\ onErrors'[e] <= IF pc'[e] \in Announced THEN 1 ELSE 0
  BY DEF ErrorsNoted
<1>1. CallsInTime /\ OneAtATime /\ Registered /\ ErrorsNoted
  BY DEF Orderly
<1>2. ~overlap /\ ~TimedOut(e)
  BY <1>1, OverlapStays, TimedOutStays DEF Explained
<1>3. /\ pc[e] \in Over \ {"returned"} => entry[e].exitError
      /\ onErrors[e] <= IF pc[e] \in Announced THEN 1 ELSE 0
  BY <1>1, <1>2 DEF ErrorsNoted
<1>4. ASSUME pc'[e] \in Over \ {"returned"} PROVE entry'[e].exitError
  <2>1. CASE pc[e] \in Over \ {"returned"}
    BY <1>3, <2>1, EntryKeeps
  <2>2. CASE pc[e] \notin Over \ {"returned"}
    <3>1. pc[e] = "returned"
      BY <1>4, <2>2, EntryPaths DEF EntryPath, Over, Ending, Removing
    <3>2. NoteError(e)
      BY <1>4, <3>1, EntrySteps
    <3>3. vms = e
      BY <1>1, <1>2, <3>1 DEF Registered, Alive
    <3>4. entry' = [entry EXCEPT ![e].exitError = TRUE]
      BY <3>2, <3>3, DistinctAssumption DEF NoteError
    <3>5. QED
      BY <3>4 DEF TypeOK
  <2>3. QED
    BY <2>1, <2>2
<1>5. pc[e] \in Announced => pc'[e] \in Announced
  BY EntryPaths DEF EntryPath, Announced, Removing
<1>6. onErrors \in [Entries -> Nat]
  BY DEF TypeOK
<1>7. CASE onErrors'[e] = onErrors[e]
  BY <1>3, <1>4, <1>5, <1>6, <1>7
<1>8. CASE onErrors'[e] # onErrors[e]
  <2>1. Announce(e)
    <3>1. ASSUME NEW s \in Calls, RunHook(s) PROVE FALSE
      <4>1. call[s].target = e => entry[e].exitError
        BY <1>3, <3>1 DEF RunHook, Over
      <4>2. onErrors' = onErrors \/ onErrors' = [onErrors EXCEPT ![call[s].target] = @ + 1]
        BY <3>1 DEF RunHook
      <4>3. call[s].target = e
        BY <1>6, <1>8, <4>2
      <4>4. onErrors' = onErrors
        BY <3>1, <4>1, <4>3 DEF RunHook
      <4>5. QED
        BY <1>8, <4>4
    <3>2. PICK f \in Entries : Announce(f)
      BY <1>8, <3>1, Writers
    <3>3. f = e
      BY <1>6, <1>8, <3>2 DEF Announce
    <3>4. QED
      BY <3>2, <3>3
  <2>2. pc[e] = "stored" /\ pc'[e] = "announced"
    BY <2>1, GoMoves DEF Announce, TypeOK
  <2>3. onErrors'[e] \in {onErrors[e], onErrors[e] + 1}
    BY <1>6, <2>1 DEF Announce
  <2>4. onErrors[e] = 0
    BY <1>3, <1>6, <2>2 DEF Announced, Removing
  <2>5. QED
    BY <1>4, <2>2, <2>3, <2>4 DEF Announced
<1>9. QED
  BY <1>7, <1>8

LEMMA OrderlyInit == Init => Orderly
<1> SUFFICES ASSUME Init PROVE Orderly
  OBVIOUS
<1> USE DistinctAssumption
<1>1. /\ \A e \in Entries : pc[e] = "unborn" /\ onErrors[e] = 0
      /\ \A s \in Calls : pc[s] = "idle" /\ hook[s] = "none" /\ ~call[s].late
      /\ mailboxes = None /\ configs = None /\ \A g \in Groups : groups[g] = 0
  BY DEF Init
<1>2. \A e \in Entries : ~Busy(e)
  BY <1>1 DEF Busy
<1>3. CallsInTime /\ OneAtATime
  BY <1>1, <1>2 DEF CallsInTime, OneAtATime, Removing
<1>4. HoldersKnown
  BY <1>1 DEF HoldersKnown
<1>5. Registered /\ ErrorsNoted
  BY <1>1 DEF Registered, ErrorsNoted, Alive, Over, Ending, Removing
<1>6. QED
  BY <1>3, <1>4, <1>5 DEF Orderly

(* Whoever is busy with a VM keeps order, as long as ids are not reused    *)
(* early: one VM at a time, every registration with somebody to remove it. *)
THEOREM OrderIsKept == Spec => []Orderly
<1>1. IInv /\ IInv' /\ Orderly /\ [Next]_vars => Orderly'
  <2> SUFFICES ASSUME IInv, IInv', Orderly, [Next]_vars PROVE Orderly'
    OBVIOUS
  <2>1. TypeOK /\ Explained /\ TypeOK'
    BY DEF IInv
  <2>2. CallsInTime /\ OneAtATime /\ HoldersKnown
    BY DEF Orderly
  <2>3. CallsInTime' /\ OneAtATime' /\ HoldersKnown'
    BY <2>1, <2>2, InTimeStep, OneStep, HoldersStep
  <2>4. Registered' /\ ErrorsNoted'
    BY <2>1, RegisteredStep, NotedStep
  <2>5. QED
    BY <2>3, <2>4 DEF Orderly
<1>2. QED
  BY OrderlyInit, Inductive, <1>1, PTL DEF Spec

(* SpawnVM's four registrations, each a step of its own, and their removal *)
(* by removeVMResources: if ids are reused only after everything about the *)
(* last VM has returned, a running VM has all of them, and once all have   *)
(* ended nothing is left, whatever crashed, timed out or was stopped.      *)
THEOREM RegistriesFollowVMs == Spec => []RegistriesFollow
<1>1. IInv /\ Orderly => ServingIsRegistered
  <2>1. SUFFICES ASSUME IInv, Orderly, ~overlap, NEW e \in Entries, Serving(e)
                 PROVE  vms = e /\ mailboxes = e /\ configs = e
                           /\ groups[entry[e].group] = 1
    BY DEF ServingIsRegistered
  <2>2. ~TimedOut(e)
    <3>1. SUFFICES ASSUME NEW s \in Calls, call[s].target = e, call[s].late PROVE FALSE
      BY DEF TimedOut
    <3>2. entry[e].cancelled
      BY <2>1, <3>1 DEF Orderly, CallsInTime
    <3>3. QED
      BY <2>1, <3>2 DEF Serving
  <2>3. QED
    BY <2>1, <2>2 DEF Serving, Orderly, Registered, Alive
<1>2. IInv /\ Orderly => NothingLeft
  <2>1. SUFFICES ASSUME IInv, Orderly, ~overlap, Finished
                 PROVE  /\ vms = None /\ mailboxes = None /\ configs = None
                        /\ \A g \in Groups : groups[g] = 0
    BY DEF NothingLeft
  <2>2. \A e \in Entries : ~Busy(e)
    BY <2>1 DEF Finished, Busy
  <2>3. TypeOK /\ Explained /\ HoldersKnown
    BY <2>1 DEF IInv, Orderly
  <2>4. vms = None
    BY <2>2, <2>3, ListedBusy DEF TypeOK
  <2>5. \A e \in Entries : ~HoldsMailbox(e) /\ ~HoldsConfig(e) /\ ~HoldsGroup(e)
    <3>1. SUFFICES ASSUME NEW e \in Entries
                   PROVE  ~HoldsMailbox(e) /\ ~HoldsConfig(e) /\ ~HoldsGroup(e)
      OBVIOUS
    <3>2. ~HoldsMailbox(e)
      BY <2>2, <2>3, HolderBusy DEF HoldsMailbox, Early
    <3>3. ~HoldsConfig(e)
      BY <2>2, <2>3, HolderBusy DEF HoldsConfig, Early
    <3>4. ~HoldsGroup(e)
      BY <2>2, <2>3, HolderBusy DEF HoldsGroup
    <3>5. QED
      BY <3>2, <3>3, <3>4
  <2>6. QED
    BY <2>1, <2>3, <2>4, <2>5 DEF TypeOK, HoldersKnown
<1>3. QED
  BY Inductive, OrderIsKept, <1>1, <1>2, PTL DEF RegistriesFollow

(* onError is called by the goroutine of a VM that crashed, and by hooks   *)
(* of terminateVM unless its error was noted before: by at most one of all *)
(* of them, as long as ids are not reused early and no call times out.     *)
THEOREM OneLastWord == Spec => []OnErrorOnceInTime
<1>1. IInv /\ Orderly => OnErrorOnceInTime
  <2>1. SUFFICES ASSUME IInv, Orderly, ~overlap, NEW e \in Entries, ~TimedOut(e)
                 PROVE  onErrors[e] <= 1
    BY DEF OnErrorOnceInTime
  <2>2. onErrors[e] <= IF pc[e] \in Announced THEN 1 ELSE 0
    BY <2>1 DEF Orderly, ErrorsNoted
  <2>3. onErrors[e] \in Nat
    BY <2>1 DEF IInv, TypeOK
  <2>4. QED
    BY <2>2, <2>3
<1>2. QED
  BY Inductive, OrderIsKept, <1>1, PTL
=============================================================================
