-------------------------- MODULE EvaluatorProofs --------------------------
(***************************************************************************)
(* Proofs about two parts of the evaluator.  TaskPool, for any programs    *)
(* and any number of tasks: the bound of the pool (PoolBound), its wakeups *)
(* (WakeupsKept), what the combinators pass on (CombinesTrue) and what an  *)
(* await returns (AnswersTrue).  PersistentVector, for arrays of any width *)
(* and vectors of any length: each function computes what it computes on   *)
(* sequences, and no vector is ever disturbed by what is made of it.       *)
(***************************************************************************)
EXTENDS TaskPool, PersistentVector, FiniteSetTheorems, SequenceTheorems, WellFoundedInduction, TLAPS

-----------------------------------------------------------------------------
(* The task pool.                                                          *)

Locked    == {"testing", "full", "free"}
Acquiring == {"spawned", "testing", "full", "free", "asleep", "woken"}
Slotted   == {"started", "running", "closing", "releasing"}
Leaving   == {"signalling", "recovering", "over"}
Places    == {"unborn", "applying", "following"} \cup Acquiring \cup Slotted \cup Leaving
Errs      == {"", "error", "cancelled"}
Values    == {"value", None}
Outcomes  == [kind : {"ok", "fail"}, value : Values]

TypeOK ==
    /\ onVM \in BOOLEAN /\ program \in Programs
    /\ set \in 1..Len(program.limits)
    /\ limit \in Nat \ {0} /\ current \in Int /\ highest \in Nat
    /\ holder \in Tasks \cup {None}
    /\ waiting \in Seq(Tasks)
    /\ pc \in [Tasks -> Places]
    /\ cancelled \in [Tasks -> BOOLEAN]
    /\ err \in [Tasks -> Errs]
    /\ result \in [Tasks -> Values]
    /\ done \in [Tasks -> BOOLEAN]
    /\ did \in [Tasks -> Ends \cup {"nothing", "cancelled"}]
    /\ channel \in Seq([i : 1..N, outcome : Outcomes])
    /\ at \in Nat
    /\ answer \in {None, "ok", "fail", "timeout"}
    /\ disturbed \in BOOLEAN

(* A task keeps to the places of its kind.                                 *)
PlacesKept ==
    \A t \in Tasks :
        /\ Kind(t) \in {"resolved", "rejected"} => pc[t] = "over"
        /\ Pooled(t) => pc[t] \notin {"applying", "following"} /\ (onVM => pc[t] # "closing")
        /\ Combinator(t) => pc[t] \notin (Acquiring \ {"spawned"}) \cup {"started", "running", "releasing", "signalling"}
        /\ Combinator(t) /\ onVM => pc[t] # "recovering"
        /\ Kind(t) = "fn" /\ ~onVM => pc[t] = "unborn"
        /\ pc[t] = "following" => Kind(t) = "flatMap"

(* Nobody is spawned twice: who has not yet spawned another finds it       *)
(* unborn.                                                                 *)
HasNotReturned(d) ==
    IF onVM THEN pc[shape[d].fn] \in {"unborn", "started", "running"} \cup Acquiring
            ELSE pc[d] \in {"unborn", "spawned", "applying"}
SpawnedOnce ==
    /\ \A d \in Tasks : Combinator(d) /\ pc[d] \in {"unborn", "spawned"} => pc[shape[d].fn] = "unborn"
    /\ \A d \in Tasks : Kind(d) = "flatMap" /\ HasNotReturned(d) => pc[shape[d].next] = "unborn"

(* The lock is held by the one who tests, and the notify list has those    *)
(* who sleep, each once.                                                   *)
LockKept ==
    /\ \A t \in Tasks : holder = t <=> pc[t] \in Locked
    /\ \A i \in 1..Len(waiting) : pc[waiting[i]] = "asleep"
    /\ \A i, j \in 1..Len(waiting) : waiting[i] = waiting[j] => i = j

(* Who has found a free slot still finds it; slots are counted.            *)
SlotsCounted ==
    /\ IsFiniteSet(Holding) /\ current = Cardinality(Holding)
    /\ current <= highest /\ limit <= highest
    /\ \A t \in Tasks : pc[t] = "free" => current < highest

(* Somebody is on the way for every free slot, also while a task that has  *)
(* found none has yet to join those who wait.                              *)
SomebodyComes ==
    /\ IsFiniteSet(OnTheWay)
    /\ ~disturbed /\ (waiting # <<>> \/ \E u \in Tasks : pc[u] = "full")
         => limit - current <= Cardinality(OnTheWay)

(* What a task has stored, once it is about to say so, is what came of it; *)
(* a value is stored only by one that came to a value.                     *)
Told(t) ==
    /\ did[t] # "nothing"
    /\ did[t] = "value" => err[t] = "" /\ result[t] # None
    /\ err[t] = "" => TakenForValue(t)
    /\ onVM => did[t] # "panic"
OutcomesTold ==
    \A t \in Tasks :
        /\ done[t] => pc[t] \in {"releasing"} \cup Leaving
        /\ done[t] \/ pc[t] = "closing" => Told(t)
        /\ pc[t] = "recovering" => did[t] = "panic"
        /\ result[t] # None => did[t] = "value" /\ pc[t] \in {"closing", "releasing"} \cup Leaving

(* A combinator that applies its function has a source for which that is   *)
(* right, and keeps what it must keep afterwards.                          *)
Kept(d) ==
    LET source == shape[d].source IN
    /\ Kind(d) # "catch" /\ err[d] = "" => TakenForValue(source)
    /\ Kind(d) = "catch" /\ did[source] = "value" => did[d] = "value"
SourcesKept ==
    \A d \in Tasks : Combinator(d) =>
        LET source == shape[d].source IN
        /\ pc[d] \in {"applying", "following"} =>
              /\ done[source]
              /\ IF Kind(d) = "catch" THEN did[source] # "value" ELSE TakenForValue(source)
        /\ pc[d] \in {"closing"} \cup Leaving => done[source] /\ Kept(d)

(* What has been looked at so far, and what was answered from it, is final. *)
Good(t) == done[t] /\ TakenForValue(t)
Real(t) == done[t] /\ did[t] = "value"
Bad(t)  == done[t] /\ did[t] # "value"
Truly(i, o) ==
    /\ o.kind = "ok" => Good(wait.tasks[i])
    /\ o.kind = "fail" \/ o.value = None => Bad(wait.tasks[i])
    /\ o.value # None => o.kind = "ok" /\ Real(wait.tasks[i])
ChannelTrue ==
    /\ \A k \in 1..Len(channel) : Truly(channel[k].i, channel[k].outcome)
    /\ \A k, l \in 1..Len(channel) : channel[k].i = channel[l].i => k = l
SeenSoFar ==
    /\ at <= N + 1 /\ (answer = None => at <= N)
    /\ InTurn => \A i \in 1..at - 1 : Good(wait.tasks[i])
    /\ wait.mode = "any" /\ at > 0 =>
          /\ at - 1 <= Len(channel)
          /\ \A k \in 1..at - 1 : channel[k].outcome.value = None
AnswerFinal ==
    /\ answer = "ok" => IF InTurn THEN \A t \in Awaited : Good(t)
                        ELSE \E t \in Awaited : Good(t) /\ (wait.mode = "any" => Real(t))
    /\ answer = "fail" => IF wait.mode = "any" THEN \A t \in Awaited : Bad(t)
                          ELSE \E t \in Awaited : Bad(t)

IInv ==
    /\ TypeOK
    /\ PlacesKept /\ SpawnedOnce
    /\ LockKept /\ SlotsCounted /\ SomebodyComes
    /\ OutcomesTold /\ SourcesKept
    /\ ChannelTrue /\ SeenSoFar /\ AnswerFinal
-----------------------------------------------------------------------------
(* The shape of the program that runs.                                     *)
LEMMA Shapes ==
    ASSUME program \in Programs
    PROVE  /\ None \notin Tasks
           /\ \A t \in Tasks : /\ Kind(t) \in Kinds /\ shape[t].ends \subseteq Ends
                               /\ shape[t].source \in Tasks \cup {None}
                               /\ shape[t].fn \in Tasks \cup {None}
                               /\ shape[t].next \in Tasks \cup {None}
           /\ N \in Nat \ {0} /\ \A i \in 1..N : wait.tasks[i] \in Tasks
           /\ wait.mode \in {"all", "any", "first"}
           /\ program.limits \in Seq(Nat \ {0}) /\ Len(program.limits) \in Nat \ {0}
           /\ ShapeOK(shape)
<1>1. program.shape \in [Tasks -> TaskShape] /\ ShapeOK(program.shape) /\ None \notin Tasks
  BY ProgramsAssumption
<1>2. \A t \in Tasks : program.shape[t] \in TaskShape
  BY <1>1
<1>3. program.wait.tasks \in Seq(Tasks) /\ program.wait.tasks # <<>>
      /\ program.limits \in Seq(Nat \ {0}) /\ program.limits # <<>>
      /\ wait.mode \in {"all", "any", "first"}
  BY ProgramsAssumption DEF wait
<1> QED
  BY <1>1, <1>2, <1>3 DEF shape, wait, N, Kind, TaskShape

(* Who spawns whom: the fn of a combinator is a task of kind fn and its    *)
(* own, and so is the next of a task, which is of another kind.            *)
LEMMA Relations ==
    ASSUME program \in Programs
    PROVE  /\ \A d \in Tasks : Combinator(d) =>
                 shape[d].source \in Tasks /\ shape[d].fn \in Tasks /\ Kind(shape[d].fn) = "fn"
           /\ \A d \in Tasks : Kind(d) = "flatMap" => shape[d].next \in Tasks
           /\ \A t \in Tasks : shape[t].fn # None => Combinator(t) /\ Kind(shape[t].fn) = "fn"
           /\ \A t \in Tasks : shape[t].next # None =>
                 Kind(t) \in {"async", "flatMap"} /\ Kind(shape[t].next) \notin {"resolved", "rejected", "fn"}
           /\ \A t, u \in Tasks : shape[t].fn = shape[u].fn /\ shape[t].fn # None => t = u
           /\ \A t, u \in Tasks : shape[t].next = shape[u].next /\ shape[t].next # None => t = u
           /\ \A t \in Tasks : Kind(t) = "fn" => \E u \in Tasks : shape[u].fn = t
BY Shapes DEF ShapeOK, Combinator, Kind

(* Which kinds of tasks are where.                                         *)
LEMMA WhoIsWhere ==
    ASSUME TypeOK, PlacesKept, NEW t \in Tasks
    PROVE  /\ pc[t] \in {"applying", "following"} => Combinator(t)
           /\ pc[t] \in (Acquiring \ {"spawned"}) \cup {"started", "running", "releasing", "signalling"} => Pooled(t)
           /\ pc[t] # "over" => Pooled(t) \/ Combinator(t)
           /\ Combinator(t) => ~Pooled(t)
<1>1. Kind(t) \in Kinds
  BY Shapes DEF TypeOK
<1> QED
  BY <1>1 DEF PlacesKept, Kinds, Pooled, Combinator, Acquiring

(* What the function of t spawns when it returns: the next of the flatMap  *)
(* that t is, or that t runs the function of.                              *)
LEMMA Returns ==
    ASSUME program \in Programs, NEW t \in Tasks
    PROVE  /\ Kind(t) = "flatMap" => ReturnedBy(t) = shape[t].next
           /\ Kind(t) # "flatMap" /\ ReturnedBy(t) # None =>
                 Kind(t) = "fn" /\ \E u \in Tasks : /\ Kind(u) = "flatMap" /\ shape[u].fn = t
                                                    /\ ReturnedBy(t) = shape[u].next
<1> DEFINE mappers == {u \in Tasks : shape[u].fn = t /\ Kind(u) = "flatMap"}
<1>1. CASE Kind(t) = "flatMap"
  BY <1>1 DEF ReturnedBy
<1>2. CASE Kind(t) # "flatMap" /\ mappers = {}
  BY <1>2 DEF ReturnedBy
<1>3. CASE Kind(t) # "flatMap" /\ mappers # {}
  <2>1. PICK u \in mappers : u = CHOOSE x \in mappers : TRUE
    BY <1>3
  <2>2. ReturnedBy(t) = shape[u].next
    BY <1>3, <2>1 DEF ReturnedBy
  <2>3. shape[u].fn = t /\ Kind(u) = "flatMap" /\ u \in Tasks /\ t # None
    BY <2>1, Shapes
  <2> QED
    BY <1>3, <2>2, <2>3, Relations
<1> QED
  BY <1>1, <1>2, <1>3
-----------------------------------------------------------------------------
(* What a step does, with its types.                                       *)
LEMMA UpdateOK ==
    ASSUME NEW S, NEW T, NEW f \in [S -> T], NEW x, NEW v, x \in S => v \in T
    PROVE  [f EXCEPT ![x] = v] \in [S -> T]
OBVIOUS

LEMMA FirstOK ==
    ASSUME NEW S, NEW s \in Seq(S), s # <<>>
    PROVE  s[1] \in S /\ Len(s) \in Nat \ {0}
OBVIOUS

LEMMA EntryOK ==
    ASSUME NEW S, NEW s \in Seq(S)
    PROVE  \A i \in 1..Len(s) : s[i] \in S
OBVIOUS

LEMMA GoOK ==
    ASSUME TypeOK, NEW t \in Tasks, NEW from, NEW to \in Places, Go(t, from, to)
    PROVE  pc' \in [Tasks -> Places]
BY UpdateOK DEF TypeOK, Go

LEMMA StoreOK ==
    ASSUME TypeOK, NEW t \in Tasks, NEW end \in Ends, Store(t, end)
    PROVE  /\ err' \in [Tasks -> Errs] /\ result' \in [Tasks -> Values]
           /\ did' \in [Tasks -> Ends \cup {"nothing", "cancelled"}]
<1> DEFINE what == IF cancelled[t] /\ Pooled(t) THEN "cancelled" ELSE end
<1>1. /\ (IF what = "cancelled" THEN what ELSE ErrOf(end)) \in Errs
      /\ (IF what = "cancelled" THEN result[t] ELSE ResultOf(end)) \in Values
      /\ what \in Ends \cup {"nothing", "cancelled"}
  BY DEF TypeOK, ErrOf, ResultOf, Errs, Values, Ends
<1>2. /\ err' = [err EXCEPT ![t] = IF what = "cancelled" THEN what ELSE ErrOf(end)]
      /\ result' = [result EXCEPT ![t] = IF what = "cancelled" THEN result[t] ELSE ResultOf(end)]
      /\ did' = [did EXCEPT ![t] = what]
  BY DEF Store
<1> HIDE DEF what
<1> QED
  BY <1>1, <1>2, UpdateOK DEF TypeOK

LEMMA CopyOK ==
    ASSUME TypeOK, NEW d \in Tasks, NEW t \in Tasks, Copy(d, t)
    PROVE  /\ err' \in [Tasks -> Errs] /\ result' \in [Tasks -> Values]
           /\ did' \in [Tasks -> Ends \cup {"nothing", "cancelled"}] /\ done' = done
<1>1. Left(t) \in Ends \cup {"nothing", "cancelled"}
  BY DEF Left, TypeOK, Ends
<1>2. /\ err' = [err EXCEPT ![d] = err[t]]
      /\ result' = [result EXCEPT ![d] = IF err[t] = "" THEN result[t] ELSE result[d]]
      /\ did' = [did EXCEPT ![d] = Left(t)]
      /\ done' = done
  BY DEF Copy
<1> QED
  BY <1>1, <1>2, UpdateOK DEF TypeOK

LEMMA EndAtOK ==
    ASSUME TypeOK, NEW t, NEW end, NEW place \in Places, EndAt(t, end, place)
    PROVE  pc' \in [Tasks -> Places]
BY DEF TypeOK, EndAt, Places, Acquiring

LEMMA TypeStep == TypeOK /\ PlacesKept /\ [Next]_vars => TypeOK'
<1> SUFFICES ASSUME TypeOK, PlacesKept, [Next]_vars PROVE TypeOK'
  OBVIOUS
<1> USE DEF Places, Locked, Acquiring, Slotted, Leaving
<1>0. program \in Programs
  BY DEF TypeOK
<1>1. ASSUME NEW t \in Tasks, Spawn(t) PROVE TypeOK'
  <2>1. pc' \in [Tasks -> Places]
    BY <1>1, GoOK DEF Spawn
  <2> QED
    BY <1>1, <2>1 DEF TypeOK, Spawn, fixed, pool, outcome, client, history, N, wait
<1>2. ASSUME NEW t \in Tasks, Cancel(t) PROVE TypeOK'
  BY <1>2 DEF TypeOK, Cancel, fixed, pool, outcome, client, history, N, wait
<1>3. ASSUME NEW t \in Tasks, Lock(t) PROVE TypeOK'
  <2>1. pc' \in [Tasks -> Places]
    BY <1>3, GoOK DEF Lock
  <2> QED
    BY <1>3, <2>1 DEF TypeOK, Lock, fixed, outcome, client, history, N, wait
<1>4. ASSUME NEW t \in Tasks, Test(t) PROVE TypeOK'
  <2>1. pc' \in [Tasks -> Places]
    BY <1>4, GoOK DEF Test
  <2> QED
    BY <1>4, <2>1 DEF TypeOK, Test, fixed, pool, outcome, client, history, N, wait
<1>5. ASSUME NEW t \in Tasks, Wait(t) PROVE TypeOK'
  <2>1. pc' \in [Tasks -> Places]
    BY <1>5, GoOK DEF Wait
  <2> QED
    BY <1>5, <2>1 DEF TypeOK, Wait, fixed, outcome, client, history, N, wait
<1>6. ASSUME NEW t \in Tasks, Take(t) PROVE TypeOK'
  <2>1. pc' \in [Tasks -> Places]
    BY <1>6, GoOK DEF Take
  <2> QED
    BY <1>6, <2>1 DEF TypeOK, Take, fixed, outcome, client, history, N, wait
<1>7. ASSUME NEW t \in Tasks, Release(t) PROVE TypeOK'
  <2>1. pc' \in [Tasks -> Places]
    BY <1>7, GoOK DEF Release
  <2> QED
    BY <1>7, <2>1 DEF TypeOK, Release, fixed, outcome, client, history, N, wait
<1>8. ASSUME NEW t \in Tasks, Signal(t) PROVE TypeOK'
  <2> DEFINE next == IF did[t] = "panic" THEN "recovering" ELSE "over"
  <2>1. pc' \in [Tasks -> Places] /\ waiting' \in Seq(Tasks)
    <3>1. CASE waiting = <<>>
      BY <1>8, <3>1, GoOK DEF Signal, TypeOK
    <3>2. CASE waiting # <<>>
      <4>1. pc' = [[pc EXCEPT ![t] = next] EXCEPT ![Head(waiting)] = "woken"] /\ waiting' = Tail(waiting)
        BY <1>8, <3>2 DEF Signal
      <4>2. [pc EXCEPT ![t] = next] \in [Tasks -> Places]
        BY UpdateOK DEF TypeOK
      <4>3. Tail(waiting) \in Seq(Tasks)
        BY <3>2 DEF TypeOK
      <4> HIDE DEF next
      <4> QED
        BY <4>1, <4>2, <4>3, UpdateOK
    <3> QED
      BY <3>1, <3>2
  <2>2. disturbed' \in BOOLEAN
    BY <1>8 DEF Signal, TypeOK
  <2> QED
    BY <1>8, <2>1, <2>2 DEF TypeOK, Signal, fixed, outcome, client, N, wait
<1>9. ASSUME NEW t \in Tasks, Start(t) PROVE TypeOK'
  <2>1. pc' \in [Tasks -> Places]
    BY <1>9, GoOK DEF Start
  <2>2. /\ err' \in [Tasks -> Errs] /\ result' \in [Tasks -> Values] /\ done' \in [Tasks -> BOOLEAN]
        /\ did' \in [Tasks -> Ends \cup {"nothing", "cancelled"}]
    <3>1. CASE cancelled[t] /\ ~onVM
      <4>1. Store(t, "value") /\ done' = done
        BY <1>9, <3>1 DEF Start
      <4> QED
        BY <4>1, StoreOK DEF Ends, TypeOK
    <3>2. CASE ~(cancelled[t] /\ ~onVM)
      BY <1>9, <3>2 DEF Start, outcome, TypeOK
    <3> QED
      BY <3>1, <3>2
  <2> QED
    BY <1>9, <2>1, <2>2 DEF TypeOK, Start, fixed, pool, client, history, N, wait
<1>10. ASSUME NEW t \in Tasks, NEW end \in shape[t].ends, Finish(t, end) PROVE TypeOK'
  <2>0. end \in Ends
    BY <1>0, Shapes
  <2>1. pc' \in [Tasks -> Places]
    BY <1>10, EndAtOK DEF Finish
  <2>2. /\ err' \in [Tasks -> Errs] /\ result' \in [Tasks -> Values] /\ done' \in [Tasks -> BOOLEAN]
        /\ did' \in [Tasks -> Ends \cup {"nothing", "cancelled"}]
    <3>1. CASE end = "panic"
      <4>1. did' = [did EXCEPT ![t] = end] /\ UNCHANGED <<err, result, done>>
        BY <1>10, <3>1 DEF Finish
      <4> QED
        BY <4>1, <2>0, UpdateOK DEF TypeOK
    <3>2. CASE end # "panic"
      <4>1. /\ Store(t, Worded(t, end)) /\ Worded(t, end) \in Ends
            /\ done' = [done EXCEPT ![t] = onVM] /\ onVM \in BOOLEAN
        BY <1>10, <2>0, <3>2 DEF Finish, Worded, Ends, TypeOK
      <4> QED
        BY <4>1, <2>0, StoreOK, UpdateOK DEF TypeOK
    <3> QED
      BY <3>1, <3>2
  <2> QED
    BY <1>10, <2>1, <2>2 DEF TypeOK, Finish, fixed, pool, client, history, N, wait
<1>11. ASSUME NEW t \in Tasks, Close(t) PROVE TypeOK'
  <2>1. pc' \in [Tasks -> Places]
    BY <1>11, GoOK DEF Close
  <2> QED
    BY <1>11, <2>1, UpdateOK DEF TypeOK, Close, fixed, pool, client, history, N, wait
<1>12. ASSUME NEW t \in Tasks, Recover(t) PROVE TypeOK'
  <2>1. pc' \in [Tasks -> Places]
    BY <1>12, GoOK DEF Recover
  <2>2. /\ err' \in [Tasks -> Errs] /\ result' \in [Tasks -> Values] /\ done' \in [Tasks -> BOOLEAN]
        /\ did' \in [Tasks -> Ends \cup {"nothing", "cancelled"}]
    <3>1. CASE onVM
      BY <1>12, <3>1, StoreOK, UpdateOK DEF Recover, TypeOK, Ends
    <3>2. CASE ~onVM
      BY <1>12, <3>2, UpdateOK DEF Recover, TypeOK, Errs
    <3> QED
      BY <3>1, <3>2
  <2> QED
    BY <1>12, <2>1, <2>2 DEF TypeOK, Recover, fixed, pool, client, history, N, wait
<1>13. ASSUME NEW d \in Tasks, Observe(d) PROVE TypeOK'
  <2>0. Combinator(d) /\ shape[d].source \in Tasks
    BY <1>13, <1>0, Relations DEF Observe
  <2>1. /\ pc' \in [Tasks -> Places]
        /\ err' \in [Tasks -> Errs] /\ result' \in [Tasks -> Values] /\ done' \in [Tasks -> BOOLEAN]
        /\ did' \in [Tasks -> Ends \cup {"nothing", "cancelled"}]
    <3>1. CASE Passes(d)
      <4>1. Go(d, "spawned", "closing") /\ Copy(d, shape[d].source)
        BY <1>13, <3>1 DEF Observe
      <4> QED
        BY <4>1, <2>0, GoOK, CopyOK DEF TypeOK
    <3>2. CASE ~Passes(d)
      BY <1>13, <3>2, UpdateOK DEF Observe, TypeOK, outcome
    <3> QED
      BY <3>1, <3>2
  <2> QED
    BY <1>13, <2>1 DEF TypeOK, Observe, fixed, pool, client, history, N, wait
<1>14. ASSUME NEW d \in Tasks, NEW end \in shape[d].ends, Apply(d, end) PROVE TypeOK'
  <2> DEFINE follows == Kind(d) = "flatMap" /\ end = "value"
  <2>0. end \in Ends
    BY <1>0, Shapes
  <2>1. pc' \in [Tasks -> Places]
    BY <1>14, EndAtOK DEF Apply
  <2>2. /\ err' \in [Tasks -> Errs] /\ result' \in [Tasks -> Values] /\ done' \in [Tasks -> BOOLEAN]
        /\ did' \in [Tasks -> Ends \cup {"nothing", "cancelled"}]
    <3>1. CASE follows
      BY <1>14, <3>1 DEF Apply, TypeOK, outcome
    <3>2. CASE ~follows /\ end = "panic"
      <4>1. did' = [did EXCEPT ![d] = end] /\ UNCHANGED <<err, result, done>>
        BY <1>14, <3>2 DEF Apply
      <4> QED
        BY <4>1, <2>0, UpdateOK DEF TypeOK
    <3>3. CASE ~follows /\ end # "panic"
      <4>1. Store(d, end) /\ done' = done
        BY <1>14, <3>3 DEF Apply
      <4> QED
        BY <4>1, <2>0, StoreOK DEF TypeOK
    <3> QED
      BY <3>1, <3>2, <3>3
  <2> QED
    BY <1>14, <2>1, <2>2 DEF TypeOK, Apply, fixed, pool, client, history, N, wait
<1>15. ASSUME NEW d \in Tasks, Collect(d) PROVE TypeOK'
  <2>0. shape[d].fn \in Tasks
    BY <1>15, <1>0, WhoIsWhere, Relations DEF Collect
  <2>1. /\ pc' \in [Tasks -> Places]
        /\ err' \in [Tasks -> Errs] /\ result' \in [Tasks -> Values] /\ done' \in [Tasks -> BOOLEAN]
        /\ did' \in [Tasks -> Ends \cup {"nothing", "cancelled"}]
    <3>1. CASE Go(d, "applying", "following") /\ UNCHANGED outcome
      BY <3>1, GoOK DEF outcome, TypeOK
    <3>2. CASE Go(d, "applying", "closing") /\ Store(d, "error") /\ UNCHANGED done
      BY <3>2, GoOK, StoreOK DEF TypeOK, Ends
    <3>3. CASE Go(d, "applying", "closing") /\ Copy(d, shape[d].fn)
      BY <3>3, <2>0, GoOK, CopyOK DEF TypeOK
    <3> QED
      BY <1>15, <3>1, <3>2, <3>3 DEF Collect
  <2> QED
    BY <1>15, <2>1 DEF TypeOK, Collect, fixed, pool, client, history, N, wait
<1>16. ASSUME NEW d \in Tasks, Follow(d) PROVE TypeOK'
  <2>0. shape[d].next \in Tasks
    BY <1>16, <1>0, Relations DEF Follow, Go, PlacesKept
  <2>1. /\ pc' \in [Tasks -> Places]
        /\ err' \in [Tasks -> Errs] /\ result' \in [Tasks -> Values] /\ done' \in [Tasks -> BOOLEAN]
        /\ did' \in [Tasks -> Ends \cup {"nothing", "cancelled"}]
    BY <1>16, <2>0, GoOK, CopyOK DEF Follow, TypeOK
  <2> QED
    BY <1>16, <2>1 DEF TypeOK, Follow, fixed, pool, client, history, N, wait
<1>17. ASSUME NEW t \in Tasks, SpawnInner(t) PROVE TypeOK'
  <2>1. pc' \in [Tasks -> Places]
    BY <1>17, UpdateOK DEF SpawnInner, Go, TypeOK
  <2> QED
    BY <1>17, <2>1 DEF TypeOK, SpawnInner, fixed, pool, outcome, client, history, N, wait
<1>18. CASE SetLimit
  <2>1. set' \in 1..Len(program.limits) /\ limit' \in Nat \ {0} /\ highest' \in Nat
    <3>1. set + 1 \in 1..Len(program.limits) /\ program.limits \in Seq(Nat \ {0})
      BY <1>18, <1>0, Shapes DEF SetLimit, TypeOK
    <3>2. program.limits[set + 1] \in Nat \ {0}
      BY <3>1
    <3> QED
      BY <1>18, <3>1, <3>2 DEF SetLimit, TypeOK
  <2> QED
    BY <1>18, <2>1 DEF SetLimit, TypeOK, fixed, outcome, client, N, wait
<1>19. CASE Call
  BY <1>19, <1>0, Shapes DEF Call, TypeOK, fixed, pool, outcome, history, N, wait
<1>20. CASE AwaitNext
  <2>1. at' \in Nat /\ answer' \in {None, "ok", "fail", "timeout"}
    BY <1>20 DEF AwaitNext, TypeOK, Answer
  <2>2. UNCHANGED <<fixed, pool, pc, cancelled, outcome, history, channel>>
    BY <1>20 DEF AwaitNext, Answer
  <2> QED
    BY <2>1, <2>2 DEF TypeOK, fixed, pool, outcome, history, N, wait
<1>21. ASSUME NEW i \in 1..N, Forward(i) PROVE TypeOK'
  <2>1. Outcome(wait.tasks[i]) \in Outcomes
    <3>1. result[wait.tasks[i]] \in Values
      BY <1>0, Shapes DEF TypeOK
    <3> QED
      BY <3>1 DEF Outcome, Outcomes, Values
  <2>2. [i |-> i, outcome |-> Outcome(wait.tasks[i])] \in [i : 1..N, outcome : Outcomes]
    BY <2>1
  <2>3. channel' \in Seq([i : 1..N, outcome : Outcomes])
    BY <1>21, <2>2 DEF Forward, TypeOK
  <2> QED
    BY <1>21, <2>3 DEF Forward, TypeOK, fixed, pool, outcome, history, N, wait
<1>22. CASE TakeAny
  <2>1. at' \in Nat /\ answer' \in {None, "ok", "fail", "timeout"}
    BY <1>22 DEF TakeAny, TypeOK, Answer
  <2>2. UNCHANGED <<fixed, pool, pc, cancelled, outcome, history, channel>>
    BY <1>22 DEF TakeAny, Answer
  <2> QED
    BY <2>1, <2>2 DEF TypeOK, fixed, pool, outcome, history, N, wait
<1>23. CASE TakeFirst
  <2>1. answer' \in {None, "ok", "fail", "timeout"}
    <3>1. channel[1].outcome.kind \in {"ok", "fail"}
      <4>1. channel \in Seq([i : 1..N, outcome : Outcomes]) /\ channel # <<>>
        BY <1>23 DEF TakeFirst, TypeOK
      <4>2. channel[1] \in [i : 1..N, outcome : Outcomes]
        BY <4>1, FirstOK
      <4> QED
        BY <4>2 DEF Outcomes
    <3> QED
      BY <1>23, <3>1 DEF TakeFirst, Answer
  <2> QED
    BY <1>23, <2>1 DEF TakeFirst, Answer, TypeOK, fixed, pool, outcome, history, N, wait
<1>24. CASE TimeOut
  BY <1>24 DEF TimeOut, Answer, TypeOK, fixed, pool, outcome, history, N, wait
<1>25. CASE UNCHANGED vars
  BY <1>25 DEF vars, TypeOK, fixed, pool, outcome, client, history, N, wait
<1> QED
  BY <1>1, <1>2, <1>3, <1>4, <1>5, <1>6, <1>7, <1>8, <1>9, <1>10, <1>11, <1>12, <1>13, <1>14, <1>15, <1>16,
     <1>17, <1>18, <1>19, <1>20, <1>21, <1>22, <1>23, <1>24, <1>25
  DEF Next, Step, Acquire, Run, Combine, Await
-----------------------------------------------------------------------------
(* Every task goes its way: what a step may do to its place, and who       *)
(* spawns it.                                                              *)
PoolMoves ==
    {<<"spawned", "testing">>, <<"woken", "testing">>, <<"testing", "full">>, <<"testing", "free">>,
     <<"full", "asleep">>, <<"asleep", "woken">>, <<"free", "started">>, <<"started", "running">>,
     <<"releasing", "signalling">>, <<"signalling", "recovering">>, <<"signalling", "over">>,
     <<"recovering", "over">>}
    \cup (IF onVM THEN {<<"running", "releasing">>}
          ELSE {<<"started", "closing">>, <<"running", "closing">>, <<"closing", "releasing">>})
CombinatorMoves ==
    {<<"spawned", "applying">>, <<"spawned", "closing">>, <<"applying", "closing">>,
     <<"following", "closing">>, <<"closing", "over">>}
    \cup (IF onVM THEN {} ELSE {<<"closing", "recovering">>, <<"recovering", "over">>})
SpawnedBy(t) ==
    /\ Kind(t) = "fn" => onVM /\ \E d \in Tasks : /\ shape[d].fn = t
                                                  /\ pc[d] = "spawned" /\ pc'[d] = "applying"
    /\ \A d \in Tasks : Kind(d) = "flatMap" /\ shape[d].next = t =>
          IF onVM THEN pc[shape[d].fn] = "running" /\ pc'[shape[d].fn] = "releasing"
                  ELSE pc[d] = "applying" /\ pc'[d] = "following"
Moved(t) ==
    \/ pc'[t] = pc[t]
    \/ pc[t] = "unborn" /\ pc'[t] = "spawned" /\ SpawnedBy(t)
    \/ Pooled(t) /\ <<pc[t], pc'[t]>> \in PoolMoves
    \/ Combinator(t) /\ <<pc[t], pc'[t]>> \in CombinatorMoves
    \/ Kind(t) = "flatMap" /\ pc[t] = "applying" /\ pc'[t] = "following"

(* If t alone moves, or nobody does.                                       *)
LEMMA OneMoves ==
    ASSUME TypeOK, NEW t \in Tasks, NEW from, NEW to, Go(t, from, to), NEW u \in Tasks
    PROVE  /\ u # t => pc'[u] = pc[u]
           /\ pc[t] = from /\ pc'[t] = to
BY DEF Go, TypeOK

LEMMA AllMove ==
    ASSUME TypeOK, PlacesKept, SpawnedOnce, LockKept, OutcomesTold, [Next]_vars
    PROVE  /\ program' = program /\ onVM' = onVM
           /\ \A t \in Tasks : Moved(t)
<1>0. program \in Programs /\ onVM \in BOOLEAN /\ pc \in [Tasks -> Places]
  BY DEF TypeOK
<1>1. program' = program /\ onVM' = onVM
  BY DEF Next, Step, Acquire, Run, Combine, Await, Spawn, Cancel, Lock, Test, Wait, Take, Release, Signal, Start,
         Finish, Close, Recover, Observe, Apply, Collect, Follow, SpawnInner, SetLimit, Call, AwaitNext, Forward,
         TakeAny, TakeFirst, TimeOut, Answer, vars, fixed
<1>a. ASSUME NEW t \in Tasks, NEW from, NEW to, Go(t, from, to),
             \/ from = "unborn" /\ to = "spawned" /\ SpawnedBy(t)
             \/ Pooled(t) /\ <<from, to>> \in PoolMoves
             \/ Combinator(t) /\ <<from, to>> \in CombinatorMoves
             \/ Kind(t) = "flatMap" /\ from = "applying" /\ to = "following"
      PROVE  \A u \in Tasks : Moved(u)
  BY <1>a, OneMoves DEF Moved
<1>2. ASSUME NEW t \in Tasks, Spawn(t) PROVE \A u \in Tasks : Moved(u)
  <2>1. SpawnedBy(t)
    <3>1. t \notin Spawned
      BY <1>2 DEF Spawn
    <3>2. Kind(t) # "fn"
      BY <3>1, <1>0, Relations DEF Spawned
    <3>3. \A d \in Tasks : shape[d].next # t
      BY <3>1 DEF Spawned
    <3> QED
      BY <3>2, <3>3 DEF SpawnedBy
  <2> QED
    BY <1>2, <1>a, <2>1 DEF Spawn
<1>3. ASSUME NEW t \in Tasks, SpawnInner(t) PROVE \A u \in Tasks : Moved(u)
  <2> DEFINE next == shape[t].next
  <2>1. next # None /\ Kind(t) = "async" /\ next \in Tasks
    BY <1>3, <1>0, Shapes DEF SpawnInner
  <2>2. SpawnedBy(next)
    BY <2>1, <1>0, Relations DEF SpawnedBy
  <2> QED
    BY <1>3, <1>a, <2>1, <2>2 DEF SpawnInner
<1>4. ASSUME NEW t \in Tasks, Acquire(t) \/ Release(t) PROVE \A u \in Tasks : Moved(u)
  <2>1. CASE Lock(t)
    BY <2>1, <1>a DEF Lock, PoolMoves
  <2>2. CASE Test(t)
    <3>1. Pooled(t)
      BY <2>2, WhoIsWhere DEF Test, Go, Acquiring
    <3>2. CASE IsFull
      BY <2>2, <3>1, <3>2, <1>a DEF Test, PoolMoves
    <3>3. CASE ~IsFull
      BY <2>2, <3>1, <3>3, <1>a DEF Test, PoolMoves
    <3> QED
      BY <3>2, <3>3
  <2>3. CASE Wait(t)
    BY <2>3, <1>a, WhoIsWhere, OneMoves DEF Wait, PoolMoves, Acquiring
  <2>4. CASE Take(t)
    BY <2>4, <1>a, WhoIsWhere, OneMoves DEF Take, PoolMoves, Acquiring
  <2>5. CASE Release(t)
    BY <2>5, <1>a, WhoIsWhere, OneMoves DEF Release, PoolMoves
  <2> QED
    BY <1>4, <2>1, <2>2, <2>3, <2>4, <2>5 DEF Acquire
<1>5. ASSUME NEW t \in Tasks, Signal(t) PROVE \A u \in Tasks : Moved(u)
  <2> DEFINE next == IF did[t] = "panic" THEN "recovering" ELSE "over"
  <2>0. pc[t] = "signalling" /\ Pooled(t) /\ <<"signalling", next>> \in PoolMoves
    BY <1>5, WhoIsWhere DEF Signal, Go, PoolMoves
  <2>1. CASE waiting = <<>>
    BY <1>5, <2>0, <2>1, <1>a DEF Signal
  <2>2. CASE waiting # <<>>
    <3> DEFINE h == Head(waiting)
    <3>1. h \in Tasks /\ pc[h] = "asleep" /\ h = waiting[1] /\ Pooled(h)
      <4>1. waiting[1] \in Tasks /\ Len(waiting) \in Nat \ {0}
        BY <2>2, FirstOK DEF TypeOK
      <4> QED
        BY <2>2, <4>1, WhoIsWhere DEF LockKept, Acquiring
    <3>2. pc' = [[pc EXCEPT ![t] = next] EXCEPT ![h] = "woken"]
      BY <1>5, <2>2 DEF Signal
    <3>3. ASSUME NEW u \in Tasks PROVE pc'[u] = (IF u = h THEN "woken" ELSE IF u = t THEN next ELSE pc[u])
      BY <1>0, <3>1, <3>2
    <3> HIDE DEF next, h
    <3>4. <<"asleep", "woken">> \in PoolMoves
      BY DEF PoolMoves
    <3> QED
      BY <2>0, <3>1, <3>3, <3>4 DEF Moved
  <2> QED
    BY <2>1, <2>2
<1>6. ASSUME NEW t \in Tasks, Start(t) PROVE \A u \in Tasks : Moved(u)
  <2>1. Pooled(t)
    BY <1>6, WhoIsWhere DEF Start, Go
  <2>2. CASE cancelled[t] /\ ~onVM
    BY <1>6, <1>a, <2>1, <2>2 DEF Start, PoolMoves
  <2>3. CASE ~(cancelled[t] /\ ~onVM)
    BY <1>6, <1>a, <2>1, <2>3 DEF Start, PoolMoves
  <2> QED
    BY <2>2, <2>3
<1>7. ASSUME NEW t \in Tasks, NEW end, Finish(t, end) PROVE \A u \in Tasks : Moved(u)
  <2> DEFINE place == IF onVM THEN "releasing" ELSE "closing"
  <2>1. pc[t] = "running" /\ Pooled(t) /\ <<"running", place>> \in PoolMoves
    BY <1>7, WhoIsWhere DEF Finish, PoolMoves
  <2>2. ASSUME NEW u \in Tasks
        PROVE  pc'[u] = IF u = t THEN place
                        ELSE IF end = "value" /\ u = ReturnedBy(t) THEN "spawned" ELSE pc[u]
    BY <1>7 DEF Finish, EndAt
  <2>3. ASSUME NEW u \in Tasks, u # t, u = ReturnedBy(t) PROVE pc[u] = "unborn" /\ SpawnedBy(u)
    <3>1. Kind(t) # "flatMap" /\ u # None
      BY <2>1, <1>0, WhoIsWhere, Shapes DEF Combinator
    <3>2. PICK d \in Tasks : Kind(t) = "fn" /\ Kind(d) = "flatMap" /\ shape[d].fn = t /\ u = shape[d].next
      BY <2>3, <3>1, <1>0, Returns
    <3>3. onVM
      BY <2>1, <3>2 DEF PlacesKept
    <3>4. pc[u] = "unborn"
      BY <2>1, <3>2, <3>3 DEF SpawnedOnce, HasNotReturned
    <3>5. Kind(u) # "fn" /\ \A e \in Tasks : shape[e].next = u => e = d
      BY <3>1, <3>2, <1>0, Relations
    <3>6. pc'[t] = "releasing"
      BY <2>2, <3>3
    <3> QED
      BY <2>1, <3>2, <3>3, <3>4, <3>5, <3>6 DEF SpawnedBy
  <2> HIDE DEF place
  <2> QED
    BY <2>1, <2>2, <2>3 DEF Moved
<1>8. ASSUME NEW t \in Tasks, Close(t) PROVE \A u \in Tasks : Moved(u)
  <2>1. pc[t] = "closing" /\ (Pooled(t) \/ Combinator(t))
    BY <1>8, WhoIsWhere DEF Close, Go
  <2>2. CASE Pooled(t)
    <3>1. ~onVM
      BY <2>1, <2>2 DEF PlacesKept
    <3> QED
      BY <1>8, <1>a, <2>2, <3>1 DEF Close, PoolMoves
  <2>3. CASE Combinator(t)
    <3>1. ~Pooled(t) /\ (onVM => did[t] # "panic")
      BY <2>1, <2>3, WhoIsWhere DEF OutcomesTold, Told
    <3>2. CASE did[t] = "panic"
      BY <1>8, <1>a, <2>3, <3>1, <3>2 DEF Close, CombinatorMoves
    <3>3. CASE did[t] # "panic"
      BY <1>8, <1>a, <2>3, <3>1, <3>3 DEF Close, CombinatorMoves
    <3> QED
      BY <3>2, <3>3
  <2> QED
    BY <2>1, <2>2, <2>3
<1>9. ASSUME NEW t \in Tasks, Recover(t) PROVE \A u \in Tasks : Moved(u)
  <2>1. pc[t] = "recovering" /\ (Pooled(t) \/ Combinator(t)) /\ Go(t, "recovering", "over")
    BY <1>9, WhoIsWhere DEF Recover, Go
  <2>2. CASE Pooled(t)
    BY <1>a, <2>1, <2>2 DEF PoolMoves
  <2>3. CASE Combinator(t)
    <3>1. ~onVM
      BY <2>1, <2>3 DEF PlacesKept
    <3> QED
      BY <1>a, <2>1, <2>3, <3>1 DEF CombinatorMoves
  <2> QED
    BY <2>1, <2>2, <2>3
<1>10. ASSUME NEW d \in Tasks, Observe(d) PROVE \A u \in Tasks : Moved(u)
  <2> DEFINE fn == shape[d].fn
  <2>1. Combinator(d) /\ pc[d] = "spawned" /\ fn \in Tasks /\ Kind(fn) = "fn" /\ fn # d
    BY <1>10, <1>0, Relations DEF Observe, Combinator
  <2>2. CASE Go(d, "spawned", "closing") \/ Go(d, "spawned", "applying")
    BY <1>a, <2>1, <2>2 DEF CombinatorMoves
  <2>3. CASE onVM /\ pc' = [pc EXCEPT ![d] = "applying", ![fn] = "spawned"]
    <3>1. ASSUME NEW u \in Tasks
          PROVE  pc'[u] = IF u = fn THEN "spawned" ELSE IF u = d THEN "applying" ELSE pc[u]
      BY <1>0, <2>1, <2>3
    <3>2. pc[fn] = "unborn"
      BY <2>1 DEF SpawnedOnce
    <3>3. SpawnedBy(fn)
      <4>1. \A e \in Tasks : shape[e].next # fn
        BY <2>1, <1>0, Relations, Shapes
      <4>2. pc'[d] = "applying"
        BY <2>1, <3>1
      <4> QED
        BY <4>1, <4>2, <2>1, <2>3 DEF SpawnedBy
    <3>4. <<"spawned", "applying">> \in CombinatorMoves
      BY DEF CombinatorMoves
    <3> HIDE DEF fn
    <3> QED
      BY <2>1, <3>1, <3>2, <3>3, <3>4 DEF Moved
  <2> QED
    BY <1>10, <2>1, <2>2, <2>3 DEF Observe, Go
<1>11. ASSUME NEW d \in Tasks, NEW end, Apply(d, end) PROVE \A u \in Tasks : Moved(u)
  <2> DEFINE place == IF Kind(d) = "flatMap" /\ end = "value" THEN "following" ELSE "closing"
  <2>1. ~onVM /\ pc[d] = "applying" /\ Combinator(d)
    BY <1>11, WhoIsWhere DEF Apply
  <2>2. ASSUME NEW u \in Tasks
        PROVE  pc'[u] = IF u = d THEN place
                        ELSE IF end = "value" /\ u = ReturnedBy(d) THEN "spawned" ELSE pc[u]
    BY <1>11 DEF Apply, EndAt
  <2>3. Moved(d)
    BY <2>1, <2>2 DEF Moved, CombinatorMoves
  <2>4. ASSUME NEW u \in Tasks, u # d, u = ReturnedBy(d), end = "value" PROVE pc[u] = "unborn" /\ SpawnedBy(u)
    <3>1. Kind(d) # "fn" /\ u # None
      BY <2>1, <1>0, Shapes DEF Combinator
    <3>2. Kind(d) = "flatMap" /\ u = shape[d].next
      BY <3>1, <2>4, <1>0, Returns
    <3>3. pc[u] = "unborn"
      BY <2>1, <3>2 DEF SpawnedOnce, HasNotReturned
    <3>4. Kind(u) # "fn" /\ \A e \in Tasks : shape[e].next = u => e = d
      BY <3>1, <3>2, <1>0, Relations
    <3>5. pc'[d] = "following"
      BY <2>2, <2>4, <3>2
    <3> QED
      BY <2>1, <3>3, <3>4, <3>5 DEF SpawnedBy
  <2> HIDE DEF place
  <2> QED
    BY <2>2, <2>3, <2>4 DEF Moved
<1>12. ASSUME NEW d \in Tasks, Collect(d) \/ Follow(d) PROVE \A u \in Tasks : Moved(u)
  <2>1. CASE Go(d, "applying", "closing") \/ Go(d, "following", "closing")
    <3>1. Combinator(d)
      BY <2>1, WhoIsWhere DEF Go
    <3> QED
      BY <1>a, <2>1, <3>1 DEF CombinatorMoves
  <2>2. CASE Kind(d) = "flatMap" /\ Go(d, "applying", "following")
    BY <1>a, <2>2
  <2> QED
    BY <1>12, <2>1, <2>2 DEF Collect, Follow
<1>13. ASSUME pc' = pc PROVE \A u \in Tasks : Moved(u)
  BY <1>13 DEF Moved
<1>14. CASE \/ \E t \in Tasks : Cancel(t)
            \/ SetLimit \/ Call \/ Await \/ TimeOut \/ UNCHANGED vars
  <2>1. pc' = pc
    BY <1>14 DEF Cancel, SetLimit, Call, Await, AwaitNext, Forward, TakeAny, TakeFirst, TimeOut, Answer, vars
  <2> QED
    BY <2>1, <1>1, <1>13
<1>15. ASSUME NEW t \in Tasks, Spawn(t) \/ Step(t) PROVE \A u \in Tasks : Moved(u)
  <2>1. CASE Run(t)
    BY <2>1, <1>6, <1>7, <1>8, <1>9 DEF Run
  <2>2. CASE Combine(t)
    BY <2>2, <1>10, <1>11, <1>12 DEF Combine
  <2> QED
    BY <1>15, <2>1, <2>2, <1>2, <1>3, <1>4, <1>5 DEF Step
<1> QED
  BY <1>1, <1>14, <1>15 DEF Next

LEMMA PlacesStep ==
    ASSUME TypeOK, PlacesKept, SpawnedOnce, LockKept, OutcomesTold, [Next]_vars
    PROVE  PlacesKept' /\ SpawnedOnce'
<1>0. program \in Programs /\ program' = program /\ onVM' = onVM /\ \A t \in Tasks : Moved(t)
  BY AllMove DEF TypeOK
<1>1. ASSUME NEW t \in Tasks
      PROVE  shape'[t] = shape[t] /\ Kind(t)' = Kind(t) /\ Pooled(t)' = Pooled(t) /\ Combinator(t)' = Combinator(t)
  BY <1>0 DEF shape, Kind, Pooled, Combinator
<1>2. PlacesKept'
  <2> SUFFICES ASSUME NEW t \in Tasks
      PROVE  /\ Kind(t) \in {"resolved", "rejected"} => pc'[t] = "over"
             /\ Pooled(t) => pc'[t] \notin {"applying", "following"} /\ (onVM => pc'[t] # "closing")
             /\ Combinator(t) => pc'[t] \notin (Acquiring \ {"spawned"}) \cup {"started", "running", "releasing", "signalling"}
             /\ Combinator(t) /\ onVM => pc'[t] # "recovering"
             /\ Kind(t) = "fn" /\ ~onVM => pc'[t] = "unborn"
             /\ pc'[t] = "following" => Kind(t) = "flatMap"
    BY <1>0, <1>1 DEF PlacesKept
  <2>1. CASE pc'[t] = pc[t]
    BY <2>1 DEF PlacesKept
  <2>2. CASE pc[t] = "unborn" /\ pc'[t] = "spawned" /\ SpawnedBy(t)
    BY <2>2 DEF PlacesKept, SpawnedBy
  <2>3. CASE Pooled(t) /\ <<pc[t], pc'[t]>> \in PoolMoves
    BY <2>3 DEF PlacesKept, PoolMoves, Pooled, Combinator
  <2>4. CASE Combinator(t) /\ <<pc[t], pc'[t]>> \in CombinatorMoves
    <3>1. ~Pooled(t) /\ Kind(t) \notin {"resolved", "rejected", "fn"}
      BY <2>4 DEF Combinator, Pooled
    <3> QED
      BY <2>4, <3>1 DEF PlacesKept, CombinatorMoves, Acquiring
  <2>5. CASE Kind(t) = "flatMap" /\ pc[t] = "applying" /\ pc'[t] = "following"
    BY <2>5 DEF Pooled, Acquiring
  <2> QED
    BY <1>0, <2>1, <2>2, <2>3, <2>4, <2>5 DEF Moved
<1>3. ASSUME NEW d \in Tasks, Combinator(d), pc'[d] \in {"unborn", "spawned"} PROVE pc'[shape[d].fn] = "unborn"
  <2>1. pc[d] \in {"unborn", "spawned"}
    BY <1>0, <1>3 DEF Moved, PoolMoves, CombinatorMoves
  <2>2. shape[d].fn \in Tasks /\ Kind(shape[d].fn) = "fn" /\ pc[shape[d].fn] = "unborn" /\ shape[d].fn # None
    BY <1>0, <1>3, <2>1, Relations, Shapes DEF SpawnedOnce
  <2>3. ~SpawnedBy(shape[d].fn)
    BY <1>0, <1>3, <2>2, Relations DEF SpawnedBy
  <2> QED
    BY <1>0, <2>2, <2>3 DEF Moved, PoolMoves, CombinatorMoves
<1>4. ASSUME NEW d \in Tasks, Kind(d) = "flatMap", HasNotReturned(d)' PROVE pc'[shape[d].next] = "unborn"
  <2> DEFINE next == shape[d].next
             fn == shape[d].fn
  <2>1. next \in Tasks /\ fn \in Tasks /\ Kind(fn) = "fn"
    BY <1>0, <1>4, Relations DEF Combinator
  <2>2. HasNotReturned(d) /\ ~SpawnedBy(next)
    <3>1. CASE onVM
      <4>1. pc'[fn] \in {"unborn", "started", "running"} \cup Acquiring
        BY <1>0, <1>1, <1>4, <3>1 DEF HasNotReturned
      <4>2. pc[fn] \in {"unborn", "started", "running"} \cup Acquiring
        BY <1>0, <2>1, <4>1 DEF Moved, PoolMoves, CombinatorMoves, Combinator, Acquiring
      <4> QED
        BY <1>4, <3>1, <4>1, <4>2 DEF HasNotReturned, SpawnedBy, Acquiring
    <3>2. CASE ~onVM
      <4>1. pc'[d] \in {"unborn", "spawned", "applying"}
        BY <1>0, <1>4, <3>2 DEF HasNotReturned
      <4>2. pc[d] \in {"unborn", "spawned", "applying"}
        BY <1>0, <1>4, <4>1 DEF Moved, PoolMoves, CombinatorMoves, Pooled
      <4> QED
        BY <1>4, <3>2, <4>1, <4>2 DEF HasNotReturned, SpawnedBy
    <3> QED
      BY <3>1, <3>2
  <2>3. pc[next] = "unborn"
    BY <1>4, <2>2 DEF SpawnedOnce
  <2> QED
    BY <1>0, <2>1, <2>2, <2>3 DEF Moved, PoolMoves, CombinatorMoves
<1>5. SpawnedOnce'
  BY <1>0, <1>1, <1>3, <1>4 DEF SpawnedOnce
<1> QED
  BY <1>2, <1>5
-----------------------------------------------------------------------------
(* The pool.  All but Acquire, Release, Signal and SetLimit leave it alone, *)
(* and nobody who has to do with it moves.                                 *)
Seeking == {"testing", "full", "free", "asleep", "woken", "signalling"}
Quiet(t) ==
    /\ pc'[t] # pc[t] => pc[t] \notin Seeking /\ pc'[t] \notin Seeking
    /\ Pooled(t) => (pc'[t] \in Slotted <=> pc[t] \in Slotted)
AllQuiet == /\ UNCHANGED <<limit, current, holder, waiting, highest, disturbed>>
            /\ \A t \in Tasks : Quiet(t)

LEMMA Elsewhere ==
    ASSUME TypeOK, PlacesKept, SpawnedOnce, LockKept, OutcomesTold, [Next]_vars
    PROVE  AllQuiet \/ SetLimit \/ \E t \in Tasks : Acquire(t) \/ Release(t) \/ Signal(t)
<1>0. \A t \in Tasks : Moved(t) /\ (Combinator(t) => ~Pooled(t))
  BY AllMove, WhoIsWhere
<1>1. ASSUME NEW t \in Tasks, pc[t] # "signalling", pc'[t] \notin Seeking \cup {"started"} PROVE Quiet(t)
  BY <1>0, <1>1 DEF Moved, PoolMoves, CombinatorMoves, Quiet, Seeking, Slotted, Combinator, Pooled
<1>2. ASSUME NEW t \in Tasks, pc'[t] = pc[t] PROVE Quiet(t)
  BY <1>2 DEF Quiet
<1>3. ASSUME NEW t \in Tasks, NEW from, NEW to, Go(t, from, to), from # "signalling",
             to \notin Seeking \cup {"started"}
      PROVE  \A u \in Tasks : Quiet(u)
  BY <1>1, <1>2, <1>3, OneMoves
<1>4. ASSUME NEW t \in Tasks, NEW end, NEW place, EndAt(t, end, place), pc[t] # "signalling",
             place \notin Seeking \cup {"started"}
      PROVE  \A u \in Tasks : Quiet(u)
  <2>1. ASSUME NEW u \in Tasks, u # t, pc'[u] = "spawned" PROVE Quiet(u)
    BY <1>0, <2>1 DEF Moved, PoolMoves, CombinatorMoves, Quiet, Seeking, Slotted
  <2>2. ASSUME NEW u \in Tasks PROVE IF u = t THEN pc'[u] = place ELSE pc'[u] \in {pc[u], "spawned"}
    BY <1>4 DEF EndAt
  <2> QED
    BY <1>1, <1>2, <1>4, <2>1, <2>2
<1>5. ASSUME NEW t \in Tasks, Spawn(t) PROVE AllQuiet
  BY <1>5, <1>3 DEF Spawn, AllQuiet, Seeking, pool, history
<1>6. ASSUME NEW t \in Tasks, SpawnInner(t) PROVE AllQuiet
  <2>1. shape[t].next \in Tasks
    BY <1>6, Relations, Shapes DEF SpawnInner, TypeOK
  <2> QED
    BY <1>6, <2>1, <1>3 DEF SpawnInner, AllQuiet, Seeking, pool, history
<1>7. ASSUME NEW t \in Tasks, Start(t) PROVE AllQuiet
  <2>1. Quiet(t)
    BY <1>7, OneMoves, <1>0 DEF Start, Quiet, Seeking, Slotted, Go, TypeOK
  <2> QED
    BY <1>7, <2>1, <1>2, OneMoves DEF Start, AllQuiet, pool, history
<1>8. ASSUME NEW t \in Tasks, NEW end, Finish(t, end) PROVE AllQuiet
  BY <1>8, <1>4 DEF Finish, AllQuiet, Seeking, pool, history
<1>9. ASSUME NEW t \in Tasks, Close(t) PROVE AllQuiet
  BY <1>9, <1>3 DEF Close, AllQuiet, Seeking, pool, history
<1>10. ASSUME NEW t \in Tasks, Recover(t) PROVE AllQuiet
  BY <1>10, <1>3 DEF Recover, AllQuiet, Seeking, pool, history
<1>11. ASSUME NEW d \in Tasks, Observe(d) PROVE AllQuiet
  <2>1. ASSUME NEW u \in Tasks, pc'[u] # pc[u] PROVE pc[u] # "signalling" /\ pc'[u] \notin Seeking \cup {"started"}
    BY <1>11, <2>1, <1>0 DEF Observe, Go, Moved, PoolMoves, CombinatorMoves, Seeking, TypeOK
  <2>2. \A u \in Tasks : Quiet(u)
    BY <2>1, <1>1, <1>2
  <2> QED
    BY <1>11, <2>2 DEF Observe, AllQuiet, pool, history
<1>12. ASSUME NEW d \in Tasks, NEW end, Apply(d, end) PROVE AllQuiet
  <2>1. pc[d] = "applying" /\ (EndAt(d, end, "following") \/ EndAt(d, end, "closing"))
    BY <1>12 DEF Apply
  <2>3. "following" \notin Seeking \cup {"started"} /\ "closing" \notin Seeking \cup {"started"} /\ pc[d] # "signalling"
    BY <2>1 DEF Seeking
  <2>2. \A u \in Tasks : Quiet(u)
    <3>1. CASE EndAt(d, end, "following")
      BY <2>3, <3>1, <1>4
    <3>2. CASE EndAt(d, end, "closing")
      BY <2>3, <3>2, <1>4
    <3> QED
      BY <2>1, <3>1, <3>2
  <2> QED
    BY <1>12, <2>2 DEF Apply, AllQuiet, pool, history
<1>13. ASSUME NEW d \in Tasks, Collect(d) \/ Follow(d) PROVE AllQuiet
  <2>1. Go(d, "applying", "following") \/ Go(d, "applying", "closing") \/ Go(d, "following", "closing")
    BY <1>13 DEF Collect, Follow
  <2>2. \A u \in Tasks : Quiet(u)
    BY <2>1, <1>3 DEF Seeking
  <2> QED
    BY <1>13, <2>2 DEF Collect, Follow, AllQuiet, pool, history
<1>14. ASSUME \/ \E t \in Tasks : Cancel(t)
              \/ Call \/ Await \/ TimeOut \/ UNCHANGED vars
       PROVE  AllQuiet
  <2>1. UNCHANGED <<pool, pc, history>>
    BY <1>14 DEF Cancel, Call, Await, AwaitNext, Forward, TakeAny, TakeFirst, TimeOut, Answer, vars
  <2> QED
    BY <2>1, <1>2 DEF AllQuiet, pool, history
<1>15. ASSUME NEW t \in Tasks, Spawn(t) \/ Step(t)
       PROVE  AllQuiet \/ Acquire(t) \/ Release(t) \/ Signal(t)
  <2>1. CASE Run(t)
    BY <2>1, <1>7, <1>8, <1>9, <1>10 DEF Run
  <2>2. CASE Combine(t)
    BY <2>2, <1>11, <1>12, <1>13 DEF Combine
  <2> QED
    BY <1>15, <2>1, <2>2, <1>5, <1>6 DEF Step
<1> QED
  BY <1>14, <1>15 DEF Next

LEMMA LockStep ==
    ASSUME TypeOK, PlacesKept, SpawnedOnce, LockKept, OutcomesTold, [Next]_vars
    PROVE  LockKept'
<1>0. /\ pc \in [Tasks -> Places] /\ waiting \in Seq(Tasks) /\ None \notin Tasks
      /\ \A i \in 1..Len(waiting) : waiting[i] \in Tasks
  BY Shapes DEF TypeOK
<1>1. CASE UNCHANGED <<holder, waiting>> /\ \A t \in Tasks : Quiet(t)
  <2>1. \A t \in Tasks : (pc'[t] \in Locked <=> pc[t] \in Locked) /\ (pc[t] = "asleep" => pc'[t] = "asleep")
    BY <1>1 DEF Quiet, Seeking, Locked
  <2> QED
    BY <1>0, <1>1, <2>1 DEF LockKept
<1>2. ASSUME NEW t \in Tasks, Lock(t) PROVE LockKept'
  <2>1. pc[t] # "asleep" /\ pc'[t] = "testing" /\ holder = None /\ holder' = t /\ waiting' = waiting
        /\ \A u \in Tasks : u # t => pc'[u] = pc[u]
    BY <1>2, <1>0 DEF Lock, Go
  <2> QED
    BY <1>0, <2>1 DEF LockKept, Locked
<1>3. ASSUME NEW t \in Tasks, Test(t) PROVE LockKept'
  <2>1. pc[t] = "testing" /\ pc'[t] \in {"full", "free"} /\ holder' = holder /\ waiting' = waiting
        /\ \A u \in Tasks : u # t => pc'[u] = pc[u]
    BY <1>3, <1>0 DEF Test, Go, pool
  <2> QED
    BY <1>0, <2>1 DEF LockKept, Locked
<1>4. ASSUME NEW t \in Tasks, Wait(t) PROVE LockKept'
  <2>1. pc[t] = "full" /\ pc'[t] = "asleep" /\ holder' = None /\ \A u \in Tasks : u # t => pc'[u] = pc[u]
    BY <1>4, <1>0 DEF Wait, Go
  <2>2. Len(waiting') = Len(waiting) + 1 /\ waiting'[Len(waiting) + 1] = t
        /\ \A i \in 1..Len(waiting) : waiting'[i] = waiting[i] /\ waiting[i] # t
    BY <1>4, <1>0, <2>1 DEF Wait, LockKept
  <2>3. \A i \in 1..Len(waiting') : i = Len(waiting) + 1 \/ i \in 1..Len(waiting)
    BY <1>0, <2>2
  <2>4. holder = t /\ \A u \in Tasks : u # t => pc[u] \notin Locked
    BY <2>1 DEF LockKept, Locked
  <2>5. \A u \in Tasks : holder' = u <=> pc'[u] \in Locked
    BY <1>0, <2>1, <2>4 DEF Locked
  <2>6. \A i \in 1..Len(waiting') : pc'[waiting'[i]] = "asleep"
    BY <1>0, <2>1, <2>2, <2>3 DEF LockKept
  <2>7. \A i, j \in 1..Len(waiting') : waiting'[i] = waiting'[j] => i = j
    BY <2>2, <2>3 DEF LockKept
  <2> QED
    BY <2>5, <2>6, <2>7 DEF LockKept
<1>5. ASSUME NEW t \in Tasks, Take(t) PROVE LockKept'
  <2>1. pc[t] = "free" /\ pc'[t] = "started" /\ holder' = None /\ waiting' = waiting
        /\ \A u \in Tasks : u # t => pc'[u] = pc[u]
    BY <1>5, <1>0 DEF Take, Go
  <2> QED
    BY <1>0, <2>1 DEF LockKept, Locked
<1>6. ASSUME NEW t \in Tasks, Release(t) PROVE LockKept'
  <2>1. pc[t] = "releasing" /\ pc'[t] = "signalling" /\ holder' = holder /\ waiting' = waiting
        /\ \A u \in Tasks : u # t => pc'[u] = pc[u]
    BY <1>6, <1>0 DEF Release, Go
  <2> QED
    BY <1>0, <2>1 DEF LockKept, Locked
<1>7. ASSUME NEW t \in Tasks, Signal(t) PROVE LockKept'
  <2> DEFINE next == IF did[t] = "panic" THEN "recovering" ELSE "over"
  <2>1. CASE waiting = <<>>
    <3>1. pc[t] = "signalling" /\ pc'[t] = next /\ holder' = holder /\ waiting' = waiting
          /\ \A u \in Tasks : u # t => pc'[u] = pc[u]
      BY <1>7, <1>0, <2>1 DEF Signal, Go
    <3> QED
      BY <1>0, <3>1 DEF LockKept, Locked
  <2>2. CASE waiting # <<>>
    <3>1. /\ Len(waiting) \in Nat \ {0} /\ waiting[1] \in Tasks /\ Len(waiting') = Len(waiting) - 1
          /\ \A i \in 1..Len(waiting') : waiting'[i] = waiting[i + 1] /\ i + 1 \in 1..Len(waiting)
      BY <1>7, <1>0, <2>2 DEF Signal
    <3>2. /\ pc[t] = "signalling" /\ holder' = holder
          /\ \A u \in Tasks : pc'[u] = IF u = waiting[1] THEN "woken" ELSE IF u = t THEN next ELSE pc[u]
      <4>1. pc' = [[pc EXCEPT ![t] = next] EXCEPT ![waiting[1]] = "woken"] /\ pc[t] = "signalling" /\ holder' = holder
        BY <1>7, <2>2 DEF Signal
      <4> HIDE DEF next
      <4> QED
        BY <1>0, <4>1
    <3>3. pc[waiting[1]] = "asleep"
      BY <3>1 DEF LockKept
    <3>4. \A u \in Tasks : (pc'[u] \in Locked <=> pc[u] \in Locked)
      BY <3>2, <3>3 DEF Locked
    <3>5. \A i \in 1..Len(waiting') : waiting'[i] # waiting[1] /\ waiting'[i] # t /\ waiting'[i] \in Tasks
                                      /\ pc[waiting'[i]] = "asleep"
      <4> SUFFICES ASSUME NEW i \in 1..Len(waiting')
          PROVE waiting'[i] # waiting[1] /\ waiting'[i] # t /\ waiting'[i] \in Tasks /\ pc[waiting'[i]] = "asleep"
        OBVIOUS
      <4>1. waiting'[i] = waiting[i + 1] /\ i + 1 \in 1..Len(waiting) /\ 1 \in 1..Len(waiting) /\ i + 1 # 1
        BY <3>1
      <4>2. waiting[i + 1] # waiting[1] /\ waiting[i + 1] \in Tasks /\ pc[waiting[i + 1]] = "asleep"
        BY <1>0, <4>1 DEF LockKept
      <4> QED
        BY <3>2, <4>1, <4>2
    <3>6. \A i, j \in 1..Len(waiting') : waiting'[i] = waiting'[j] => i = j
      BY <3>1 DEF LockKept
    <3> QED
      BY <3>2, <3>4, <3>5, <3>6 DEF LockKept
  <2> QED
    BY <2>1, <2>2
<1>8. CASE SetLimit
  <2>1. UNCHANGED <<holder, waiting, pc>>
    BY <1>8 DEF SetLimit
  <2> QED
    BY <2>1 DEF LockKept
<1> QED
  BY <1>1, <1>2, <1>3, <1>4, <1>5, <1>6, <1>7, <1>8, Elsewhere DEF AllQuiet, Acquire

Coming == {"signalling", "woken", "testing", "free"}

LEMMA CountStep ==
    ASSUME TypeOK, PlacesKept, SpawnedOnce, LockKept, OutcomesTold, SlotsCounted, SomebodyComes, [Next]_vars
    PROVE  SlotsCounted' /\ SomebodyComes'
<1>0. /\ pc \in [Tasks -> Places] /\ waiting \in Seq(Tasks) /\ None \notin Tasks
      /\ current \in Int /\ limit \in Nat /\ highest \in Nat /\ disturbed \in BOOLEAN
      /\ Cardinality(Holding) \in Nat /\ Cardinality(OnTheWay) \in Nat
  BY Shapes, FS_CardinalityType DEF TypeOK, SlotsCounted, SomebodyComes
<1>9. \A t \in Tasks : Pooled(t)' = Pooled(t)
  BY AllMove DEF Pooled, Kind, shape
<1>10. Holding = {t \in Tasks : Pooled(t) /\ pc[t] \in Slotted} /\ Holding' = {t \in Tasks : Pooled(t) /\ pc'[t] \in Slotted}
  BY <1>9 DEF Holding, Slotted
(* What becomes of the two sets when t alone moves.                        *)
<1>11. ASSUME NEW t \in Tasks, NEW from, NEW to, Go(t, from, to)
      PROVE  /\ (to \in Slotted <=> from \in Slotted) => Holding' = Holding
             /\ Pooled(t) /\ to \in Slotted /\ from \notin Slotted => Holding' = Holding \cup {t} /\ t \notin Holding
             /\ Pooled(t) /\ to \notin Slotted /\ from \in Slotted => Holding' = Holding \ {t} /\ t \in Holding
             /\ (to \in Coming <=> from \in Coming) => OnTheWay' = OnTheWay
             /\ to \in Coming /\ from \notin Coming => OnTheWay' = OnTheWay \cup {t} /\ t \notin OnTheWay
             /\ to \notin Coming /\ from \in Coming => OnTheWay' = OnTheWay \ {t} /\ t \in OnTheWay
             /\ pc[t] = from /\ pc'[t] = to /\ \A u \in Tasks : u # t => pc'[u] = pc[u]
  <2>1. pc[t] = from /\ pc'[t] = to /\ \A u \in Tasks : u # t => pc'[u] = pc[u]
    BY <1>11, <1>0 DEF Go
  <2>2. OnTheWay = {u \in Tasks : pc[u] \in Coming} /\ OnTheWay' = {u \in Tasks : pc'[u] \in Coming}
    BY DEF OnTheWay, Coming
  <2> QED
    BY <1>10, <2>1, <2>2
<1>1. CASE AllQuiet
  <2>1. Holding' = Holding
    BY <1>1, <1>10 DEF AllQuiet, Quiet
  <2>2. OnTheWay' = OnTheWay
    BY <1>1 DEF AllQuiet, Quiet, OnTheWay, Seeking
  <2>3. \A t \in Tasks : (pc'[t] = "free" => pc[t] = "free") /\ (pc'[t] = "full" => pc[t] = "full")
    BY <1>1 DEF AllQuiet, Quiet, Seeking
  <2> QED
    BY <1>1, <2>1, <2>2, <2>3 DEF AllQuiet, SlotsCounted, SomebodyComes
<1>2. ASSUME NEW t \in Tasks, Lock(t) PROVE SlotsCounted' /\ SomebodyComes'
  <2>1. PICK from \in {"spawned", "woken"} : Go(t, from, "testing")
    BY <1>2 DEF Lock
  <2>2. Holding' = Holding /\ OnTheWay' \in {OnTheWay, OnTheWay \cup {t}} /\ pc'[t] = "testing"
        /\ \A u \in Tasks : u # t => pc'[u] = pc[u]
    BY <2>1, <1>11 DEF Slotted, Coming
  <2>3. IsFiniteSet(OnTheWay') /\ Cardinality(OnTheWay') >= Cardinality(OnTheWay)
    <3>1. /\ IsFiniteSet(OnTheWay \cup {t})
          /\ Cardinality(OnTheWay \cup {t}) \in {Cardinality(OnTheWay), Cardinality(OnTheWay) + 1}
      BY FS_AddElement DEF SomebodyComes
    <3>2. CASE OnTheWay' = OnTheWay
      BY <1>0, <3>2 DEF SomebodyComes
    <3>3. CASE OnTheWay' = OnTheWay \cup {t}
      BY <1>0, <3>1, <3>3
    <3> QED
      BY <2>2, <3>2, <3>3
  <2>4. UNCHANGED <<limit, current, waiting, highest, disturbed>> /\ Cardinality(OnTheWay') \in Nat
    BY <1>2, <2>3, FS_CardinalityType DEF Lock, history
  <2> QED
    BY <1>0, <2>2, <2>3, <2>4 DEF SlotsCounted, SomebodyComes
<1>3. ASSUME NEW t \in Tasks, Test(t) PROVE SlotsCounted' /\ SomebodyComes'
  <2>0. UNCHANGED <<limit, current, waiting, highest, disturbed>>
    BY <1>3 DEF Test, pool, history
  <2>1. CASE current >= limit
    <3>1. Go(t, "testing", "full")
      BY <1>3, <2>1 DEF Test, IsFull
    <3>2. Holding' = Holding /\ OnTheWay' = OnTheWay \ {t} /\ pc'[t] = "full"
          /\ \A u \in Tasks : u # t => pc'[u] = pc[u]
      BY <3>1, <1>11 DEF Slotted, Coming
    <3>3. IsFiniteSet(OnTheWay') /\ Cardinality(OnTheWay') \in Nat
      BY <3>2, FS_RemoveElement, FS_CardinalityType DEF SomebodyComes
    <3> QED
      BY <1>0, <2>0, <2>1, <3>2, <3>3 DEF SlotsCounted, SomebodyComes
  <2>2. CASE ~(current >= limit)
    <3>1. Go(t, "testing", "free")
      BY <1>3, <2>2 DEF Test, IsFull
    <3>2. Holding' = Holding /\ OnTheWay' = OnTheWay /\ pc'[t] = "free"
          /\ \A u \in Tasks : u # t => pc'[u] = pc[u]
      BY <3>1, <1>11 DEF Slotted, Coming
    <3> QED
      BY <1>0, <2>0, <2>2, <3>2 DEF SlotsCounted, SomebodyComes
  <2> QED
    BY <2>1, <2>2
<1>4. ASSUME NEW t \in Tasks, Wait(t) PROVE SlotsCounted' /\ SomebodyComes'
  <2>1. Go(t, "full", "asleep") /\ UNCHANGED <<limit, current, highest, disturbed>>
    BY <1>4 DEF Wait, history
  <2>2. Holding' = Holding /\ OnTheWay' = OnTheWay /\ pc'[t] = "asleep" /\ pc[t] = "full"
        /\ \A u \in Tasks : u # t => pc'[u] = pc[u]
    BY <2>1, <1>11 DEF Slotted, Coming
  <2> QED
    BY <1>0, <2>1, <2>2 DEF SlotsCounted, SomebodyComes
<1>5. ASSUME NEW t \in Tasks, Take(t) PROVE SlotsCounted' /\ SomebodyComes'
  <2>1. Go(t, "free", "started") /\ current' = current + 1 /\ UNCHANGED <<limit, waiting, highest, disturbed>>
    BY <1>5 DEF Take, history
  <2>2. Pooled(t)
    BY <2>1, WhoIsWhere DEF Go, Acquiring
  <2>3. /\ Holding' = Holding \cup {t} /\ t \notin Holding /\ OnTheWay' = OnTheWay \ {t} /\ t \in OnTheWay
        /\ pc[t] = "free" /\ pc'[t] = "started" /\ \A u \in Tasks : u # t => pc'[u] = pc[u]
    BY <2>1, <2>2, <1>11 DEF Slotted, Coming
  <2>4. /\ IsFiniteSet(Holding') /\ Cardinality(Holding') = Cardinality(Holding) + 1
        /\ IsFiniteSet(OnTheWay') /\ Cardinality(OnTheWay') = Cardinality(OnTheWay) - 1
    BY <2>3, FS_AddElement, FS_RemoveElement DEF SlotsCounted, SomebodyComes
  <2>5. current < highest
    BY <2>3 DEF SlotsCounted
  <2>6. \A u \in Tasks : pc'[u] # "free"
    BY <2>3 DEF LockKept, Locked
  <2>7. SlotsCounted'
    BY <1>0, <2>1, <2>4, <2>5, <2>6 DEF SlotsCounted
  <2> QED
    BY <1>0, <2>1, <2>3, <2>4, <2>7 DEF SomebodyComes
<1>6. ASSUME NEW t \in Tasks, Release(t) PROVE SlotsCounted' /\ SomebodyComes'
  <2>1. Go(t, "releasing", "signalling") /\ current' = current - 1 /\ UNCHANGED <<limit, waiting, highest, disturbed>>
    BY <1>6 DEF Release, history
  <2>2. Pooled(t)
    BY <2>1, WhoIsWhere DEF Go
  <2>3. /\ Holding' = Holding \ {t} /\ t \in Holding /\ OnTheWay' = OnTheWay \cup {t} /\ t \notin OnTheWay
        /\ pc'[t] = "signalling" /\ \A u \in Tasks : u # t => pc'[u] = pc[u]
    BY <2>1, <2>2, <1>11 DEF Slotted, Coming
  <2>4. /\ IsFiniteSet(Holding') /\ Cardinality(Holding') = Cardinality(Holding) - 1
        /\ IsFiniteSet(OnTheWay') /\ Cardinality(OnTheWay') = Cardinality(OnTheWay) + 1
    BY <2>3, FS_AddElement, FS_RemoveElement DEF SlotsCounted, SomebodyComes
  <2>5. \A u \in Tasks : (pc'[u] = "free" => pc[u] = "free") /\ (pc'[u] = "full" => pc[u] = "full")
    BY <2>3
  <2>6. SlotsCounted'
    BY <1>0, <2>1, <2>4, <2>5 DEF SlotsCounted
  <2> QED
    BY <1>0, <2>1, <2>4, <2>5, <2>6 DEF SomebodyComes
<1>7. ASSUME NEW t \in Tasks, Signal(t) PROVE SlotsCounted' /\ SomebodyComes'
  <2> DEFINE next == IF did[t] = "panic" THEN "recovering" ELSE "over"
             h == waiting[1]
  <2>0. /\ UNCHANGED <<limit, current, highest>> /\ pc[t] = "signalling" /\ next \in {"recovering", "over"}
        /\ disturbed' = (disturbed \/ \E u \in Tasks : pc[u] = "full")
    BY <1>7 DEF Signal, Go
  <2>1. CASE waiting = <<>>
    <3>1. Go(t, "signalling", next) /\ waiting' = <<>>
      BY <1>7, <2>1 DEF Signal
    <3>2. Holding' = Holding /\ OnTheWay' = OnTheWay \ {t} /\ pc'[t] = next
          /\ \A u \in Tasks : u # t => pc'[u] = pc[u]
      <4> HIDE DEF next
      <4>1. next \notin Slotted /\ next \notin Coming /\ "signalling" \notin Slotted /\ "signalling" \in Coming
        BY <2>0 DEF Slotted, Coming
      <4> QED
        BY <3>1, <4>1, <1>11
    <3>3. IsFiniteSet(OnTheWay')
      BY <3>2, FS_RemoveElement DEF SomebodyComes
    <3>4. \A u \in Tasks : (pc'[u] = "free" => pc[u] = "free") /\ (pc'[u] = "full" => pc[u] = "full")
      BY <2>0, <3>2
    <3> QED
      BY <2>0, <3>1, <3>2, <3>3, <3>4 DEF SlotsCounted, SomebodyComes
  <2>2. CASE waiting # <<>>
    <3>1. h \in Tasks /\ pc[h] = "asleep" /\ h # t
      <4>1. h \in Tasks /\ 1 \in 1..Len(waiting)
        BY <1>0, <2>2, FirstOK
      <4> QED
        BY <2>0, <4>1 DEF LockKept
    <3>2. \A u \in Tasks : pc'[u] = IF u = h THEN "woken" ELSE IF u = t THEN next ELSE pc[u]
      <4>1. pc' = [[pc EXCEPT ![t] = next] EXCEPT ![h] = "woken"]
        BY <1>7, <2>2 DEF Signal
      <4> HIDE DEF next, h
      <4> QED
        BY <1>0, <4>1
    <3> HIDE DEF next, h
    <3>3. Holding' = Holding
      BY <1>10, <2>0, <3>1, <3>2 DEF Slotted
    <3>4. /\ OnTheWay' = (OnTheWay \ {t}) \cup {h} /\ t \in OnTheWay /\ h \notin OnTheWay \ {t}
      BY <2>0, <3>1, <3>2 DEF OnTheWay
    <3>5. IsFiniteSet(OnTheWay \ {t}) /\ Cardinality(OnTheWay \ {t}) = Cardinality(OnTheWay) - 1
      BY <3>4, FS_RemoveElement DEF SomebodyComes
    <3>6. IsFiniteSet(OnTheWay') /\ Cardinality(OnTheWay') = Cardinality(OnTheWay)
      <4>1. /\ IsFiniteSet((OnTheWay \ {t}) \cup {h})
            /\ Cardinality((OnTheWay \ {t}) \cup {h}) = Cardinality(OnTheWay \ {t}) + 1
        BY <3>4, <3>5, FS_AddElement
      <4> QED
        BY <1>0, <3>4, <3>5, <4>1
    <3>7. \A u \in Tasks : pc'[u] = "free" => pc[u] = "free"
      BY <2>0, <3>2
    <3> QED
      BY <1>0, <2>0, <2>2, <3>3, <3>6, <3>7 DEF SlotsCounted, SomebodyComes
  <2> QED
    BY <2>1, <2>2
<1>8. CASE SetLimit
  <2>1. pc' = pc /\ current' = current /\ disturbed' /\ highest' >= highest /\ limit' <= highest' /\ highest' \in Nat /\ limit' \in Nat
    <3>1. TypeOK'
      BY TypeStep
    <3> QED
      BY <1>8, <1>0, <3>1 DEF SetLimit, TypeOK
  <2>2. Holding' = Holding /\ OnTheWay' = OnTheWay
    BY <2>1, <1>10 DEF OnTheWay
  <2> QED
    BY <1>0, <2>1, <2>2 DEF SlotsCounted, SomebodyComes
<1> QED
  BY <1>1, <1>2, <1>3, <1>4, <1>5, <1>6, <1>7, <1>8, Elsewhere DEF Acquire
-----------------------------------------------------------------------------
(* The outcomes.  What Store and Copy leave is what they say it is.        *)
Valued(t) == result[t] # None => did[t] = "value"

LEMMA StoreTold ==
    ASSUME TypeOK, onVM' = onVM, NEW t \in Tasks, NEW end \in Ends \ {"panic"}, Store(t, end),
           result[t] = None
    PROVE  /\ Told(t)' /\ Valued(t)'
           /\ \A u \in Tasks : u # t => err'[u] = err[u] /\ result'[u] = result[u] /\ did'[u] = did[u]
<1> DEFINE what == IF cancelled[t] /\ Pooled(t) THEN "cancelled" ELSE end
<1>1. /\ err' = [err EXCEPT ![t] = IF what = "cancelled" THEN what ELSE ErrOf(end)]
      /\ result' = [result EXCEPT ![t] = IF what = "cancelled" THEN result[t] ELSE ResultOf(end)]
      /\ did' = [did EXCEPT ![t] = what]
  BY DEF Store
<1>2. what \in {end, "cancelled"}
  OBVIOUS
<1> HIDE DEF what
<1>3. /\ err'[t] = IF what = "cancelled" THEN what ELSE ErrOf(end)
      /\ result'[t] = IF what = "cancelled" THEN result[t] ELSE ResultOf(end)
      /\ did'[t] = what
      /\ \A u \in Tasks : u # t => err'[u] = err[u] /\ result'[u] = result[u] /\ did'[u] = did[u]
  BY <1>1 DEF TypeOK
<1>4. "value" # None
  BY ProgramsAssumption
<1>5. CASE what = "cancelled"
  BY <1>3, <1>5 DEF Told, TakenForValue, Mistaken, Valued
<1>6. CASE what = end /\ what # "cancelled"
  BY <1>3, <1>4, <1>6 DEF Told, TakenForValue, Mistaken, ErrOf, ResultOf, Ends, Valued
<1> QED
  BY <1>2, <1>3, <1>5, <1>6

LEMMA CopyTold ==
    ASSUME TypeOK, onVM' = onVM, NEW d \in Tasks, NEW t \in Tasks, Copy(d, t), Told(t),
           Valued(t), result[d] = None
    PROVE  /\ Told(d)' /\ Valued(d)' /\ done' = done
           /\ err'[d] = err[t] /\ (did[t] = "value" => did'[d] = "value")
           /\ \A u \in Tasks : u # d => err'[u] = err[u] /\ result'[u] = result[u] /\ did'[u] = did[u]
<1>1. /\ err'[d] = err[t] /\ result'[d] = (IF err[t] = "" THEN result[t] ELSE result[d])
      /\ did'[d] = Left(t) /\ done' = done
      /\ \A u \in Tasks : u # d => err'[u] = err[u] /\ result'[u] = result[u] /\ did'[u] = did[u]
  BY DEF Copy, TypeOK
<1>2. /\ did[t] # "panic" => Left(t) = did[t]
      /\ did[t] = "panic" => Left(t) = IF err[t] = "" THEN "empty" ELSE "error"
  BY DEF Left
<1>3. CASE did[t] # "panic"
  BY <1>1, <1>2, <1>3 DEF Told, TakenForValue, Mistaken, Valued
<1>4. CASE did[t] = "panic"
  BY <1>1, <1>2, <1>4 DEF Told, TakenForValue, Mistaken, Valued
<1> QED
  BY <1>1, <1>3, <1>4

(* What a step does to the outcome of a task, and when.                    *)
Same(t) == err'[t] = err[t] /\ result'[t] = result[t] /\ done'[t] = done[t] /\ did'[t] = did[t]

Closed(t) ==
    /\ pc[t] = "closing" /\ pc'[t] \in {"releasing", "over", "recovering"}
    /\ pc'[t] = "recovering" => did[t] = "panic"
    /\ done'[t] /\ err'[t] = err[t] /\ result'[t] = result[t] /\ did'[t] = did[t]
Recovered(t) ==
    /\ pc[t] = "recovering" /\ pc'[t] = "over"
    /\ IF onVM THEN Pooled(t) /\ done'[t] /\ Told(t)'
       ELSE err'[t] = "error" /\ done'[t] = done[t] /\ did'[t] = did[t]
    /\ Valued(t)'
Ended(t) ==
    /\ Pooled(t) /\ pc[t] \in {"started", "running"}
    /\ IF onVM THEN pc'[t] = "releasing" /\ (done'[t] => Told(t)')
       ELSE pc'[t] = "closing" /\ ~done'[t] /\ Told(t)'
    /\ Valued(t)'
Combined(d) ==
    /\ Combinator(d) /\ pc'[d] = "closing" /\ ~done'[d] /\ Told(d)' /\ Valued(d)'
    /\ \/ pc[d] \in {"applying", "following"}
       \/ /\ pc[d] = "spawned" /\ done[shape[d].source] /\ Passes(d)
          /\ err'[d] = err[shape[d].source]
          /\ did[shape[d].source] = "value" => did'[d] = "value"
Settled(t) ==
    \/ Same(t) /\ (pc'[t] = pc[t] \/ pc'[t] \notin {"closing", "recovering", "applying"})
    \/ Same(t) /\ pc'[t] = "recovering" /\ did[t] = "panic"
    \/ Same(t) /\ pc'[t] = "applying" /\ Combinator(t) /\ done[shape[t].source] /\ ~Passes(t)
    \/ Closed(t) \/ Recovered(t) \/ Ended(t) \/ Combined(t)

LEMMA AllSettle ==
    ASSUME TypeOK, PlacesKept, SpawnedOnce, LockKept, OutcomesTold, [Next]_vars
    PROVE  \A t \in Tasks : Settled(t)
<1>0. /\ program \in Programs /\ pc \in [Tasks -> Places] /\ done \in [Tasks -> BOOLEAN]
      /\ onVM \in BOOLEAN /\ onVM' = onVM /\ \A t \in Tasks : Moved(t)
  BY AllMove DEF TypeOK
<1>1. ASSUME NEW t \in Tasks, done[t] PROVE pc[t] \in {"releasing"} \cup Leaving /\ Told(t)
  BY <1>1 DEF OutcomesTold
<1>2. ASSUME NEW t \in Tasks, pc[t] \in {"spawned", "applying", "following", "started", "running", "closing"}
      PROVE  ~done[t]
  BY <1>1, <1>2 DEF Leaving
<1>20. ASSUME NEW t \in Tasks
       PROVE  /\ Valued(t)
              /\ pc[t] \in {"spawned", "applying", "following", "started", "running", "recovering"} => result[t] = None
  BY <1>20 DEF OutcomesTold, Leaving, Valued
<1>3. ASSUME NEW t \in Tasks, UNCHANGED outcome, pc'[t] = pc[t] \/ pc'[t] \notin {"closing", "recovering", "applying"}
      PROVE  Settled(t)
  BY <1>3 DEF Settled, Same, outcome
<1>4. ASSUME NEW t \in Tasks, NEW from, NEW to, Go(t, from, to), to \notin {"closing", "recovering", "applying"},
             UNCHANGED outcome
      PROVE  \A u \in Tasks : Settled(u)
  BY <1>3, <1>4, OneMoves
<1>5. ASSUME NEW t \in Tasks, Spawn(t) PROVE \A u \in Tasks : Settled(u)
  BY <1>5, <1>4 DEF Spawn
<1>6. ASSUME NEW t \in Tasks, SpawnInner(t) PROVE \A u \in Tasks : Settled(u)
  <2>1. shape[t].next \in Tasks
    BY <1>0, <1>6, Shapes DEF SpawnInner
  <2> QED
    BY <1>6, <2>1, <1>4 DEF SpawnInner
<1>7. ASSUME NEW t \in Tasks, Acquire(t) \/ Release(t) PROVE \A u \in Tasks : Settled(u)
  <2>1. CASE Lock(t)
    BY <2>1, <1>4 DEF Lock
  <2>2. CASE Test(t)
    <3>1. PICK to \in {"full", "free"} : Go(t, "testing", to) /\ UNCHANGED outcome
      BY <2>2 DEF Test
    <3> QED
      BY <3>1, <1>4
  <2>3. CASE Wait(t) \/ Take(t) \/ Release(t)
    BY <2>3, <1>4 DEF Wait, Take, Release
  <2> QED
    BY <1>7, <2>1, <2>2, <2>3 DEF Acquire
<1>8. ASSUME NEW t \in Tasks, Signal(t) PROVE \A u \in Tasks : Settled(u)
  <2> DEFINE next == IF did[t] = "panic" THEN "recovering" ELSE "over"
  <2>1. UNCHANGED outcome /\ \A u \in Tasks : u # t => pc'[u] \in {pc[u], "woken"}
    BY <1>0, <1>8 DEF Signal, Go
  <2>2. pc'[t] \in {next, "woken"}
    BY <1>0, <1>8 DEF Signal, Go
  <2>3. Settled(t)
    BY <2>1, <2>2 DEF Settled, Same, outcome
  <2> QED
    BY <2>1, <2>3, <1>3
<1>9. ASSUME NEW t \in Tasks, Start(t) PROVE \A u \in Tasks : Settled(u)
  <2>1. CASE cancelled[t] /\ ~onVM
    <3>1. Go(t, "started", "closing") /\ Store(t, "value") /\ done' = done
      BY <1>9, <2>1 DEF Start
    <3>2. Pooled(t) /\ ~done[t] /\ pc[t] = "started" /\ pc'[t] = "closing"
      BY <1>2, <3>1, OneMoves, WhoIsWhere
    <3>3. Told(t)' /\ Valued(t)' /\ \A u \in Tasks : u # t => Same(u)
      BY <1>0, <1>20, <3>1, <3>2, StoreTold DEF Same, Ends
    <3> QED
      BY <2>1, <3>1, <3>2, <3>3, OneMoves DEF Settled, Ended
  <2>2. CASE ~(cancelled[t] /\ ~onVM)
    BY <1>9, <2>2, <1>4 DEF Start
  <2> QED
    BY <2>1, <2>2
<1>10. ASSUME NEW t \in Tasks, NEW end \in Ends, Finish(t, end) PROVE \A u \in Tasks : Settled(u)
  <2>1. /\ pc[t] = "running" /\ Pooled(t) /\ ~done[t] /\ pc'[t] = IF onVM THEN "releasing" ELSE "closing"
        /\ \A u \in Tasks : u # t => pc'[u] \in {pc[u], "spawned"}
    BY <1>2, <1>10, WhoIsWhere DEF Finish, EndAt
  <2>2. /\ done'[t] => onVM /\ Told(t)'
        /\ ~onVM => Told(t)'
        /\ Valued(t)'
        /\ \A u \in Tasks : u # t => Same(u)
    <3>1. CASE end = "panic"
      <4>1. /\ did'[t] = "panic" /\ ~done'[t] /\ result' = result
            /\ \A u \in Tasks : u # t => Same(u)
        BY <1>10, <2>1, <3>1 DEF Finish, TypeOK, Same
      <4> QED
        BY <1>0, <1>20, <2>1, <4>1 DEF Told, TakenForValue, Mistaken, Valued
    <3>2. CASE end # "panic"
      <4>1. /\ Store(t, Worded(t, end)) /\ Worded(t, end) \in Ends \ {"panic"}
            /\ done' = [done EXCEPT ![t] = onVM]
        BY <1>10, <3>2 DEF Finish, Worded, Ends
      <4> QED
        BY <1>0, <1>20, <2>1, <4>1, StoreTold DEF Same
    <3> QED
      BY <3>1, <3>2
  <2>3. Settled(t)
    BY <1>0, <2>1, <2>2 DEF Settled, Ended
  <2> QED
    BY <2>1, <2>2, <2>3 DEF Settled
<1>11. ASSUME NEW t \in Tasks, Close(t) PROVE \A u \in Tasks : Settled(u)
  <2>1. \A u \in Tasks : u # t => Same(u) /\ pc'[u] = pc[u]
    BY <1>0, <1>11 DEF Close, Go, Same
  <2>2. Closed(t)
    BY <1>0, <1>11 DEF Close, Go, Closed
  <2> QED
    BY <2>1, <2>2 DEF Settled
<1>12. ASSUME NEW t \in Tasks, Recover(t) PROVE \A u \in Tasks : Settled(u)
  <2>1. pc[t] = "recovering" /\ pc'[t] = "over" /\ \A u \in Tasks : u # t => pc'[u] = pc[u]
    BY <1>0, <1>12 DEF Recover, Go
  <2>2. CASE onVM
    <3>1. Store(t, "error") /\ done' = [done EXCEPT ![t] = TRUE]
      BY <1>12, <2>2 DEF Recover
    <3>2. Told(t)' /\ Valued(t)' /\ done'[t] /\ \A u \in Tasks : u # t => Same(u)
      BY <1>0, <1>20, <2>1, <3>1, StoreTold DEF Ends, Same
    <3>3. Pooled(t)
      BY <2>1, <2>2, WhoIsWhere DEF PlacesKept
    <3> QED
      BY <2>1, <2>2, <3>2, <3>3 DEF Settled, Recovered
  <2>3. CASE ~onVM
    <3>1. err' = [err EXCEPT ![t] = "error"] /\ UNCHANGED <<result, done, did>>
      BY <1>12, <2>3 DEF Recover
    <3>2. err'[t] = "error" /\ Valued(t)' /\ \A u \in Tasks : u # t => Same(u)
      BY <1>20, <3>1 DEF TypeOK, Same, Valued
    <3> QED
      BY <2>1, <2>3, <3>1, <3>2 DEF Settled, Recovered
  <2> QED
    BY <2>2, <2>3
(* A combinator that is about to close.                                    *)
<1>13. ASSUME NEW d \in Tasks, Combinator(d), pc[d] \in {"applying", "following"}, pc'[d] = "closing",
              Told(d)', Valued(d)', done' = done, \A u \in Tasks : u # d => Same(u) /\ pc'[u] = pc[u]
       PROVE  \A u \in Tasks : Settled(u)
  <2>1. Combined(d)
    BY <1>2, <1>13 DEF Combined
  <2> QED
    BY <1>13, <2>1 DEF Settled
<1>14. ASSUME NEW d \in Tasks, Observe(d) PROVE \A u \in Tasks : Settled(u)
  <2>1. Combinator(d) /\ pc[d] = "spawned" /\ done[shape[d].source] /\ shape[d].source \in Tasks
        /\ shape[d].fn \in Tasks /\ Kind(shape[d].fn) = "fn" /\ shape[d].fn # d
    BY <1>0, <1>14, Relations DEF Observe, Combinator
  <2>2. CASE Passes(d)
    <3>1. Go(d, "spawned", "closing") /\ Copy(d, shape[d].source)
      BY <1>14, <2>2 DEF Observe
    <3>2. /\ Told(d)' /\ Valued(d)' /\ done' = done /\ err'[d] = err[shape[d].source]
          /\ did[shape[d].source] = "value" => did'[d] = "value"
          /\ \A u \in Tasks : u # d => Same(u)
      BY <1>0, <1>1, <1>20, <2>1, <3>1, CopyTold DEF Same
    <3>3. Combined(d)
      BY <1>2, <2>1, <2>2, <3>1, <3>2, OneMoves DEF Combined
    <3> QED
      BY <3>1, <3>2, <3>3, OneMoves DEF Settled
  <2>3. CASE ~Passes(d)
    <3>1. UNCHANGED outcome /\ \A u \in Tasks : u # d => pc'[u] \in {pc[u], "spawned"}
      BY <1>0, <1>14, <2>3 DEF Observe
    <3>2. pc'[d] = "applying"
      BY <1>0, <1>14, <2>1, <2>3 DEF Observe
    <3>3. Settled(d)
      BY <2>1, <2>3, <3>1, <3>2 DEF Settled, Same, outcome
    <3> QED
      BY <1>3, <3>1, <3>3
  <2> QED
    BY <2>2, <2>3
<1>15. ASSUME NEW d \in Tasks, NEW end \in Ends, Apply(d, end) PROVE \A u \in Tasks : Settled(u)
  <2> DEFINE follows == Kind(d) = "flatMap" /\ end = "value"
  <2>1. ~onVM /\ pc[d] = "applying" /\ Combinator(d) /\ ~done[d]
    BY <1>2, <1>15, WhoIsWhere DEF Apply
  <2>2. /\ pc'[d] = IF follows THEN "following" ELSE "closing"
        /\ \A u \in Tasks : u # d => pc'[u] \in {pc[u], "spawned"}
    BY <1>15 DEF Apply, EndAt
  <2>3. CASE follows
    <3>1. UNCHANGED outcome
      BY <1>15, <2>3 DEF Apply
    <3> QED
      BY <1>3, <2>2, <2>3, <3>1
  <2>4. CASE ~follows
    <3>1. done' = done /\ Told(d)' /\ Valued(d)' /\ \A u \in Tasks : u # d => Same(u)
      <4>1. CASE end = "panic"
        <5>1. /\ did'[d] = "panic" /\ done' = done /\ result' = result
              /\ \A u \in Tasks : u # d => Same(u)
          BY <1>15, <2>4, <4>1 DEF Apply, TypeOK, Same
        <5> QED
          BY <1>0, <1>20, <2>1, <5>1 DEF Told, TakenForValue, Mistaken, Valued
      <4>2. CASE end # "panic"
        <5>1. Store(d, end) /\ done' = done
          BY <1>15, <2>4, <4>2 DEF Apply
        <5> QED
          BY <1>0, <1>20, <2>1, <4>2, <5>1, StoreTold DEF Same
      <4> QED
        BY <4>1, <4>2
    <3>2. Combined(d)
      BY <2>1, <2>2, <2>4, <3>1 DEF Combined
    <3> QED
      BY <2>2, <3>1, <3>2 DEF Settled
  <2> QED
    BY <2>3, <2>4
<1>16. ASSUME NEW d \in Tasks, Collect(d) PROVE \A u \in Tasks : Settled(u)
  <2>1. pc[d] = "applying" /\ Combinator(d) /\ done[shape[d].fn] /\ shape[d].fn \in Tasks
    BY <1>0, <1>16, WhoIsWhere, Relations DEF Collect
  <2>2. CASE Go(d, "applying", "following") /\ UNCHANGED outcome
    BY <2>2, <1>4
  <2>3. CASE Go(d, "applying", "closing") /\ Store(d, "error") /\ UNCHANGED done
    <3>1. Told(d)' /\ Valued(d)' /\ done' = done /\ \A u \in Tasks : u # d => Same(u)
      BY <1>0, <1>20, <2>1, <2>3, StoreTold DEF Ends, Same
    <3> QED
      BY <1>13, <2>1, <2>3, <3>1, OneMoves
  <2>4. CASE Go(d, "applying", "closing") /\ Copy(d, shape[d].fn)
    <3>1. Told(d)' /\ Valued(d)' /\ done' = done /\ \A u \in Tasks : u # d => Same(u)
      BY <1>0, <1>1, <1>20, <2>1, <2>4, CopyTold DEF Same
    <3> QED
      BY <1>13, <2>1, <2>4, <3>1, OneMoves
  <2> QED
    BY <1>16, <2>2, <2>3, <2>4 DEF Collect
<1>17. ASSUME NEW d \in Tasks, Follow(d) PROVE \A u \in Tasks : Settled(u)
  <2>1. Go(d, "following", "closing") /\ done[shape[d].next] /\ Copy(d, shape[d].next)
    BY <1>17 DEF Follow
  <2>2. pc[d] = "following" /\ pc'[d] = "closing" /\ \A u \in Tasks : u # d => pc'[u] = pc[u]
    BY <2>1, OneMoves
  <2>3. Combinator(d) /\ shape[d].next \in Tasks
    BY <1>0, <2>2, Relations DEF PlacesKept, Combinator
  <2>4. Told(d)' /\ Valued(d)' /\ done' = done /\ \A u \in Tasks : u # d => Same(u)
    BY <1>0, <1>1, <1>20, <2>1, <2>2, <2>3, CopyTold DEF Same
  <2> QED
    BY <1>13, <2>2, <2>3, <2>4
<1>18. ASSUME \/ \E t \in Tasks : Cancel(t)
              \/ SetLimit \/ Call \/ Await \/ TimeOut \/ UNCHANGED vars
       PROVE  \A u \in Tasks : Settled(u)
  <2>1. UNCHANGED <<outcome, pc>>
    BY <1>18 DEF Cancel, SetLimit, Call, Await, AwaitNext, Forward, TakeAny, TakeFirst, TimeOut, Answer, vars
  <2> QED
    BY <2>1, <1>3
<1>19. ASSUME NEW t \in Tasks, Spawn(t) \/ Step(t) PROVE \A u \in Tasks : Settled(u)
  <2>1. shape[t].ends \subseteq Ends
    BY <1>0, Shapes
  <2>2. CASE Run(t)
    BY <2>1, <2>2, <1>9, <1>10, <1>11, <1>12 DEF Run
  <2>3. CASE Combine(t)
    BY <2>1, <2>3, <1>14, <1>15, <1>16, <1>17 DEF Combine
  <2> QED
    BY <1>19, <2>2, <2>3, <1>5, <1>6, <1>7, <1>8 DEF Step
<1> QED
  BY <1>18, <1>19 DEF Next

(* What a task has come to stays: only the tree walker notes a panic later. *)
LEMMA OutcomesStay ==
    ASSUME TypeOK, PlacesKept, SpawnedOnce, LockKept, OutcomesTold, [Next]_vars, NEW t \in Tasks, done[t]
    PROVE  /\ done'[t] /\ did'[t] = did[t]
           /\ TakenForValue(t)' = TakenForValue(t)
           /\ Good(t)' = Good(t) /\ Bad(t)' = Bad(t) /\ Real(t)' = Real(t)
<1>1. Settled(t) /\ onVM' = onVM
  BY AllSettle, AllMove
<1>2. pc[t] \in {"releasing"} \cup Leaving /\ (onVM => did[t] # "panic") /\ (pc[t] = "recovering" => did[t] = "panic")
  BY DEF OutcomesTold, Told
<1>3. done'[t] /\ did'[t] = did[t]
  BY <1>1, <1>2 DEF Settled, Same, Closed, Recovered, Ended, Combined, Leaving
<1> QED
  BY <1>1, <1>3 DEF TakenForValue, Mistaken, Good, Bad, Real

LEMMA OutcomesStep ==
    ASSUME TypeOK, PlacesKept, SpawnedOnce, LockKept, OutcomesTold, SourcesKept, [Next]_vars
    PROVE  OutcomesTold' /\ SourcesKept'
<1>0. /\ program \in Programs /\ program' = program /\ onVM' = onVM
      /\ done \in [Tasks -> BOOLEAN] /\ \A t \in Tasks : Moved(t) /\ Settled(t)
  BY AllMove, AllSettle DEF TypeOK
<1>1. ASSUME NEW t \in Tasks
      PROVE  /\ done'[t] => pc'[t] \in {"releasing"} \cup Leaving
             /\ done'[t] \/ pc'[t] = "closing" => Told(t)'
             /\ pc'[t] = "recovering" => did'[t] = "panic"
             /\ result'[t] # None => did'[t] = "value" /\ pc'[t] \in {"closing", "releasing"} \cup Leaving
  <2>1. /\ done[t] => pc[t] \in {"releasing"} \cup Leaving
        /\ done[t] \/ pc[t] = "closing" => Told(t)
        /\ pc[t] = "recovering" => did[t] = "panic"
        /\ result[t] # None => did[t] = "value" /\ pc[t] \in {"closing", "releasing"} \cup Leaving
        /\ Moved(t)
    BY <1>0 DEF OutcomesTold
  <2>2. Same(t) \/ (err'[t] = err[t] /\ result'[t] = result[t] /\ did'[t] = did[t]) => Told(t)' = Told(t)
    BY <1>0 DEF Told, TakenForValue, Mistaken, Same
  <2>3. CASE Same(t) /\ (pc'[t] = pc[t] \/ pc'[t] \notin {"closing", "recovering", "applying"})
    <3>1. /\ pc[t] \in {"releasing"} \cup Leaving => pc'[t] \in {"releasing"} \cup Leaving
          /\ pc[t] = "closing" => pc'[t] \in {"closing", "releasing"} \cup Leaving
      BY <2>1 DEF Moved, PoolMoves, CombinatorMoves, Leaving
    <3> QED
      BY <2>1, <2>2, <2>3, <3>1 DEF Same
  <2>4. CASE Same(t) /\ pc'[t] = "recovering" /\ did[t] = "panic"
    BY <2>1, <2>2, <2>4 DEF Same, Leaving
  <2>5. CASE Same(t) /\ pc'[t] = "applying" /\ Combinator(t)
    <3>1. pc[t] \notin {"closing", "releasing"} \cup Leaving
      BY <2>1, <2>5 DEF Moved, PoolMoves, CombinatorMoves, Leaving
    <3> QED
      BY <2>1, <2>5, <3>1 DEF Same
  <2>6. CASE Closed(t)
    BY <2>1, <2>2, <2>6 DEF Closed, Leaving
  <2>7. CASE Recovered(t)
    <3>1. CASE onVM
      BY <2>7, <3>1 DEF Recovered, Leaving, Valued
    <3>2. CASE ~onVM
      BY <2>1, <2>7, <3>2, <1>0 DEF Recovered, Leaving, Told, Valued
    <3> QED
      BY <3>1, <3>2
  <2>8. CASE Ended(t)
    BY <2>8 DEF Ended, Valued
  <2>9. CASE Combined(t)
    BY <2>9 DEF Combined, Valued
  <2> QED
    BY <1>0, <2>3, <2>4, <2>5, <2>6, <2>7, <2>8, <2>9 DEF Settled
<1>2. ASSUME NEW d \in Tasks, NEW s \in Tasks, Combinator(d), s = shape[d].source
      PROVE  /\ pc'[d] \in {"applying", "following"} =>
                   /\ done'[s]
                   /\ IF Kind(d) = "catch" THEN did'[s] # "value" ELSE TakenForValue(s)'
             /\ pc'[d] \in {"closing"} \cup Leaving =>
                   /\ done'[s]
                   /\ Kind(d) # "catch" /\ err'[d] = "" => TakenForValue(s)'
                   /\ Kind(d) = "catch" /\ did'[s] = "value" => did'[d] = "value"
  <2>1. Moved(d) /\ Settled(d) /\ ~Pooled(d)
    BY <1>0, <1>2 DEF Combinator, Pooled
  <2>2. /\ pc[d] \in {"applying", "following"} =>
              /\ done[s]
              /\ IF Kind(d) = "catch" THEN did[s] # "value" ELSE TakenForValue(s)
        /\ pc[d] \in {"closing"} \cup Leaving =>
              /\ done[s]
              /\ Kind(d) # "catch" /\ err[d] = "" => TakenForValue(s)
              /\ Kind(d) = "catch" /\ did[s] = "value" => did[d] = "value"
    BY <1>2 DEF SourcesKept, Kept
  <2>3. done[s] => done'[s] /\ did'[s] = did[s] /\ TakenForValue(s)' = TakenForValue(s) /\ Told(s)
    BY OutcomesStay DEF OutcomesTold
  <2>4. CASE pc'[d] = pc[d] /\ Same(d)
    BY <2>2, <2>3, <2>4 DEF Same
  <2>5. CASE pc'[d] \in {"unborn", "spawned"}
    BY <2>5 DEF Leaving
  <2>6. CASE pc'[d] = "applying" /\ Same(d) /\ done[s] /\ ~Passes(d)
    <3>1. (Kind(d) = "catch") <=> (err[s] # "")
      BY <1>2, <2>6 DEF Passes
    <3> QED
      BY <2>3, <2>6, <3>1 DEF Told, Leaving
  <2>7. CASE pc[d] = "applying" /\ pc'[d] = "following"
    BY <2>2, <2>3, <2>7 DEF Leaving
  <2>8. CASE pc[d] \in {"applying", "following"} /\ pc'[d] = "closing"
    BY <2>2, <2>3, <2>8 DEF Leaving
  <2>9. CASE pc'[d] = "closing" /\ done[s] /\ Passes(d) /\ err'[d] = err[s] /\ (did[s] = "value" => did'[d] = "value")
    <3>1. (Kind(d) = "catch") <=> (err[s] = "")
      BY <1>2, <2>9 DEF Passes
    <3> QED
      BY <2>3, <2>9, <3>1 DEF Leaving
  <2>10. CASE /\ pc[d] \in {"closing"} \cup Leaving /\ pc'[d] \in Leaving
              /\ did'[d] = did[d] /\ err'[d] \in {err[d], "error"}
    BY <2>2, <2>3, <2>10 DEF Leaving
  <2> QED
    BY <1>2, <2>1, <2>4, <2>5, <2>6, <2>7, <2>8, <2>9, <2>10
    DEF Moved, CombinatorMoves, Settled, Same, Closed, Recovered, Ended, Combined, Leaving
<1>3. OutcomesTold'
  BY <1>1 DEF OutcomesTold
<1>4. SourcesKept'
  <2>1. ASSUME NEW d \in Tasks, Combinator(d) PROVE shape[d].source \in Tasks
    BY <1>0, <2>1, Relations
  <2> QED
    BY <1>0, <1>2, <2>1 DEF SourcesKept, Kept, Kind, Combinator, shape
<1> QED
  BY <1>3, <1>4
-----------------------------------------------------------------------------
(* The one who awaits.  As many different answers as there are tasks come  *)
(* from all of them.                                                       *)
LEMMA Onto ==
    ASSUME NEW n \in Nat, NEW f \in [1..n -> 1..n], \A k, l \in 1..n : f[k] = f[l] => k = l
    PROVE  \A j \in 1..n : \E k \in 1..n : f[k] = j
<1>1. f \in Injection(1..n, 1..n)
  BY DEF Injection, IsInjective
<1>2. IsFiniteSet(1..n)
  BY FS_Interval
<1>3. f \in Surjection(1..n, 1..n)
  BY <1>1, <1>2, FS_Injection
<1> QED
  BY <1>3 DEF Surjection

(* What is passed on, or looked at, is true of a task that is done.        *)
LEMMA OutcomeTruly ==
    ASSUME TypeOK, OutcomesTold, NEW i \in 1..N, done[wait.tasks[i]]
    PROVE  Truly(i, Outcome(wait.tasks[i])) /\ Outcome(wait.tasks[i]) \in Outcomes
<1> DEFINE t == wait.tasks[i]
<1>1. /\ t \in Tasks /\ Told(t) /\ result[t] \in Values /\ done[t]
      /\ result[t] # None => did[t] = "value"
  BY Shapes DEF TypeOK, OutcomesTold
<1> HIDE DEF t
<1>2. Truly(i, Outcome(t)) /\ Outcome(t) \in Outcomes
  <2>1. CASE err[t] # ""
    BY <1>1, <2>1 DEF Truly, Outcome, Outcomes, Values, Good, Bad, Real, Told, t
  <2>2. CASE err[t] = ""
    BY <1>1, <2>2 DEF Truly, Outcome, Outcomes, Values, Good, Bad, Real, Told, t
  <2> QED
    BY <2>1, <2>2
<1> QED
  BY <1>2 DEF t

LEMMA AnswersStep ==
    ASSUME TypeOK, PlacesKept, SpawnedOnce, LockKept, OutcomesTold,
           ChannelTrue, SeenSoFar, AnswerFinal, [Next]_vars
    PROVE  ChannelTrue' /\ SeenSoFar' /\ AnswerFinal'
<1>0. /\ program \in Programs /\ N \in Nat \ {0} /\ N' = N /\ wait' = wait /\ InTurn' = InTurn
      /\ Awaited' = Awaited /\ at \in Nat /\ None \notin {"ok", "fail", "timeout"}
      /\ channel \in Seq([i : 1..N, outcome : Outcomes]) /\ channel' \in Seq([i : 1..N, outcome : Outcomes])
      /\ \A i \in 1..N : wait.tasks[i] \in Tasks
  <2>1. program \in Programs /\ program' = program /\ TypeOK'
    BY AllMove, TypeStep DEF TypeOK
  <2>2. wait' = wait /\ N' = N /\ Awaited' = Awaited /\ InTurn' = InTurn
    BY <2>1 DEF wait, N, Awaited, InTurn
  <2> QED
    BY <2>1, <2>2, Shapes, ProgramsAssumption DEF TypeOK
<1>1. ASSUME NEW t \in Tasks PROVE (Good(t) => Good(t)') /\ (Bad(t) => Bad(t)') /\ (Real(t) => Real(t)')
  BY OutcomesStay DEF Good, Bad, Real
<1>2. ASSUME NEW i \in 1..N, NEW o, Truly(i, o) PROVE Truly(i, o)'
  <2>1. wait.tasks[i] \in Tasks
    BY <1>0
  <2> QED
    BY <1>0, <1>1, <1>2, <2>1 DEF Truly
<1>3. \A k \in 1..Len(channel) : channel[k].i \in 1..N /\ channel[k].outcome \in Outcomes
  <2>1. \A k \in 1..Len(channel) : channel[k] \in [i : 1..N, outcome : Outcomes]
    BY <1>0, EntryOK
  <2> QED
    BY <2>1
<1>4. ASSUME channel' = channel PROVE ChannelTrue'
  BY <1>2, <1>3, <1>4 DEF ChannelTrue
<1>5. ASSUME answer' = answer PROVE AnswerFinal'
  <2>1. Awaited \subseteq Tasks
    BY <1>0 DEF Awaited
  <2>2. ASSUME answer = "ok" PROVE IF InTurn THEN \A t \in Awaited : Good(t)'
                               ELSE \E t \in Awaited : Good(t)' /\ (wait.mode = "any" => Real(t)')
    BY <1>1, <2>1, <2>2 DEF AnswerFinal
  <2>3. ASSUME answer = "fail" PROVE IF wait.mode = "any" THEN \A t \in Awaited : Bad(t)' ELSE \E t \in Awaited : Bad(t)'
    BY <1>1, <2>1, <2>3 DEF AnswerFinal
  <2> QED
    BY <1>0, <1>5, <2>2, <2>3 DEF AnswerFinal
<1>6. ASSUME InTurn, NEW i \in 1..at - 1 PROVE wait.tasks[i] \in Tasks /\ Good(wait.tasks[i])'
  <2>2. at <= N + 1 /\ Good(wait.tasks[i])
    BY <1>6 DEF SeenSoFar
  <2>1. wait.tasks[i] \in Tasks /\ Good(wait.tasks[i])
    <3>1. i \in 1..N
      BY <1>0, <1>6, <2>2
    <3> QED
      BY <1>0, <2>2, <3>1
  <2> QED
    BY <1>0, <1>1, <2>1
<1>7. ASSUME at' = at, answer' # None \/ answer' = answer, channel' = channel \/ \E x : channel' = Append(channel, x)
      PROVE  SeenSoFar'
  <2>1. /\ Len(channel') >= Len(channel) /\ Len(channel) \in Nat
        /\ \A k \in 1..Len(channel) : channel'[k] = channel[k]
    BY <1>0, <1>7
  <2>2. at' <= N + 1 /\ (answer' = None => at' <= N)
    BY <1>0, <1>7 DEF SeenSoFar
  <2>3. ASSUME wait.mode = "any", at > 0
        PROVE  at - 1 <= Len(channel') /\ \A k \in 1..at - 1 : channel'[k].outcome.value = None
    <3>1. at - 1 <= Len(channel) /\ \A k \in 1..at - 1 : channel[k].outcome.value = None
      BY <2>3 DEF SeenSoFar
    <3>2. at - 1 <= Len(channel') /\ \A k \in 1..at - 1 : k \in 1..Len(channel)
      BY <1>0, <2>1, <3>1
    <3> QED
      BY <2>1, <3>1, <3>2
  <2> QED
    BY <1>0, <1>6, <1>7, <2>2, <2>3 DEF SeenSoFar
<1>8. CASE UNCHANGED client
  BY <1>8, <1>4, <1>5, <1>7 DEF client
<1>9. CASE Call
  <2>1. at = 0 /\ at' = 1 /\ UNCHANGED <<channel, answer>>
    BY <1>9 DEF Call
  <2>2. SeenSoFar'
    BY <1>0, <2>1 DEF SeenSoFar
  <2> QED
    BY <1>4, <1>5, <2>1, <2>2
<1>10. CASE AwaitNext
  <2>0. PICK a \in Nat : a = at
    BY <1>0
  <2>1. /\ at > 0 /\ answer = None /\ a = at /\ a \in 1..N /\ InTurn /\ channel' = channel
        /\ done[wait.tasks[a]] /\ wait.tasks[a] \in Tasks /\ wait.tasks[a] \in Awaited
    BY <1>0, <1>10, <2>0 DEF AwaitNext, Awaiting, SeenSoFar, Awaited
  <2>2. Truly(a, Outcome(wait.tasks[a])) /\ Outcome(wait.tasks[a]).kind \in {"ok", "fail"}
    BY <2>0, <2>1, OutcomeTruly DEF Outcomes
  <2>3. CASE Outcome(wait.tasks[a]).kind = "fail"
    <3>1. at' = at /\ answer' = "fail"
      BY <1>10, <2>0, <2>3 DEF AwaitNext, Answer
    <3>2. Bad(wait.tasks[a])'
      BY <1>0, <1>1, <2>1, <2>2, <2>3 DEF Truly
    <3>3. AnswerFinal'
      BY <1>0, <2>1, <3>1, <3>2 DEF AnswerFinal, InTurn
    <3> QED
      BY <1>0, <1>4, <1>7, <2>1, <3>1, <3>3
  <2>4. CASE Outcome(wait.tasks[a]).kind = "ok"
    <3>1. at' = at + 1 /\ answer' = IF at = N THEN "ok" ELSE None
      BY <1>10, <2>0, <2>4 DEF AwaitNext, Answer
    <3>2. Good(wait.tasks[a])'
      BY <1>0, <1>1, <2>1, <2>2, <2>4 DEF Truly
    <3>3. \A i \in 1..at' - 1 : Good(wait.tasks[i])'
      BY <1>0, <1>6, <2>1, <3>1, <3>2
    <3>4. SeenSoFar'
      BY <1>0, <2>1, <3>1, <3>3 DEF SeenSoFar, InTurn
    <3>5. AnswerFinal'
      <4>1. CASE at = N
        <5>1. \A t \in Awaited' : Good(t)'
          BY <1>0, <2>1, <3>1, <3>3, <4>1 DEF Awaited
        <5> QED
          BY <1>0, <2>1, <3>1, <4>1, <5>1 DEF AnswerFinal
      <4>2. CASE at # N
        BY <1>0, <3>1, <4>2 DEF AnswerFinal
      <4> QED
        BY <4>1, <4>2
    <3> QED
      BY <1>4, <2>1, <3>4, <3>5
  <2> QED
    BY <2>2, <2>3, <2>4
<1>11. ASSUME NEW i \in 1..N, Forward(i) PROVE ChannelTrue' /\ SeenSoFar' /\ AnswerFinal'
  <2> DEFINE new == [i |-> i, outcome |-> Outcome(wait.tasks[i])]
  <2>1. /\ channel' = Append(channel, new) /\ UNCHANGED <<at, answer>> /\ done[wait.tasks[i]]
        /\ \A k \in 1..Len(channel) : channel[k].i # i
    BY <1>11 DEF Forward, client
  <2>2. Truly(i, new.outcome) /\ new \in [i : 1..N, outcome : Outcomes] /\ new.i = i
    BY <2>1, OutcomeTruly
  <2> HIDE DEF new
  <2>3. /\ Len(channel) \in Nat /\ Len(channel') = Len(channel) + 1 /\ channel'[Len(channel) + 1] = new
        /\ \A k \in 1..Len(channel) : channel'[k] = channel[k]
        /\ \A k \in 1..Len(channel') : k = Len(channel) + 1 \/ k \in 1..Len(channel)
    BY <1>0, <2>1, <2>2
  <2>4. ASSUME NEW k \in 1..Len(channel'), NEW j, NEW o, j = channel'[k].i, o = channel'[k].outcome PROVE Truly(j, o)'
    <3>1. j \in 1..N /\ Truly(j, o)
      BY <1>3, <2>2, <2>3, <2>4 DEF ChannelTrue
    <3> QED
      BY <1>2, <3>1
  <2>5. ASSUME NEW k \in 1..Len(channel'), NEW l \in 1..Len(channel'), channel'[k].i = channel'[l].i PROVE k = l
    BY <2>1, <2>2, <2>3, <2>5 DEF ChannelTrue
  <2>6. ChannelTrue'
    BY <2>4, <2>5 DEF ChannelTrue
  <2> QED
    BY <1>5, <1>7, <2>1, <2>6
<1>12. CASE TakeAny
  <2>0. PICK a \in Nat : a = at
    BY <1>0
  <2>5. PICK j : j = channel[a].i
    OBVIOUS
  <2>1. /\ at > 0 /\ answer = None /\ wait.mode = "any" /\ ~InTurn /\ channel' = channel
        /\ a = at /\ a \in 1..Len(channel) /\ at <= N
    BY <1>0, <1>12, <2>0 DEF TakeAny, Awaiting, SeenSoFar, InTurn
  <2>2. j \in 1..N /\ wait.tasks[j] \in Awaited /\ wait.tasks[j] \in Tasks
        /\ Truly(j, channel[a].outcome)
    BY <1>0, <1>3, <2>1, <2>5 DEF ChannelTrue, Awaited
  <2>3. CASE channel[a].outcome.value # None
    <3>1. at' = at /\ answer' = "ok"
      BY <1>12, <2>0, <2>3 DEF TakeAny, Answer
    <3>2. Good(wait.tasks[j])' /\ Real(wait.tasks[j])'
      <4>1. Good(wait.tasks[j]) /\ Real(wait.tasks[j])
        BY <2>2, <2>3 DEF Truly
      <4> QED
        BY <1>0, <1>1, <2>1, <2>2, <4>1
    <3>3. AnswerFinal'
      BY <1>0, <2>1, <2>2, <3>1, <3>2 DEF AnswerFinal
    <3> QED
      BY <1>0, <1>4, <1>7, <2>1, <3>1, <3>3
  <2>4. CASE channel[a].outcome.value = None
    <3>1. at' = at + 1 /\ answer' = IF at = N THEN "fail" ELSE None
      BY <1>12, <2>0, <2>4 DEF TakeAny, Answer
    <3>2. at <= Len(channel) /\ \A k \in 1..at : channel[k].outcome.value = None
      BY <1>0, <2>1, <2>4 DEF SeenSoFar
    <3>3. SeenSoFar'
      BY <1>0, <2>1, <3>1, <3>2 DEF SeenSoFar, InTurn
    <3>4. AnswerFinal'
      <4>1. CASE at = N
        <5>1. ASSUME NEW m \in 1..N PROVE Bad(wait.tasks[m])'
          <6> DEFINE from == [k \in 1..N |-> channel[k].i]
          <6>0. N \in Nat /\ \A k \in 1..N : k \in 1..Len(channel) /\ channel[k].i \in 1..N
            BY <1>0, <1>3, <3>2, <4>1
          <6>1. from \in [1..N -> 1..N]
            BY <6>0
          <6>5. \A k, l \in 1..N : from[k] = from[l] => k = l
            BY <6>0 DEF ChannelTrue
          <6> HIDE DEF from
          <6>2. \E k \in 1..N : from[k] = m
            <7> DEFINE n == N
            <7>1. n \in Nat /\ from \in [1..n -> 1..n] /\ \A k, l \in 1..n : from[k] = from[l] => k = l
              BY <6>0, <6>1, <6>5
            <7> HIDE DEF n
            <7>2. \A i \in 1..n : \E k \in 1..n : from[k] = i
              BY <7>1, Onto
            <7> QED
              BY <7>2 DEF n
          <6>3. PICK k \in 1..N : channel[k].i = m /\ k \in 1..Len(channel)
            BY <6>0, <6>2 DEF from
          <6>4. Bad(wait.tasks[m])
            BY <3>2, <4>1, <6>3 DEF ChannelTrue, Truly
          <6> QED
            BY <1>0, <1>1, <6>4
        <5>2. \A t \in Awaited' : Bad(t)'
          BY <1>0, <5>1 DEF Awaited
        <5> QED
          BY <1>0, <2>1, <3>1, <4>1, <5>2 DEF AnswerFinal
      <4>2. CASE at # N
        BY <1>0, <3>1, <4>2 DEF AnswerFinal
      <4> QED
        BY <4>1, <4>2
    <3> QED
      BY <1>4, <2>1, <3>3, <3>4
  <2> QED
    BY <2>3, <2>4
<1>13. CASE TakeFirst
  <2>1. /\ wait.mode = "first" /\ ~InTurn /\ channel' = channel /\ at' = at /\ channel # <<>>
        /\ answer' = channel[1].outcome.kind
    BY <1>13 DEF TakeFirst, InTurn, Answer
  <2>2. 1 \in 1..Len(channel)
    BY <1>0, <2>1, FirstOK
  <2>3. channel[1].i \in 1..N /\ wait.tasks[channel[1].i] \in Awaited /\ wait.tasks[channel[1].i] \in Tasks
        /\ Truly(channel[1].i, channel[1].outcome) /\ channel[1].outcome.kind \in {"ok", "fail"}
    BY <1>0, <1>3, <2>2 DEF ChannelTrue, Awaited, Outcomes
  <2>4. CASE answer' = "ok"
    <3>1. Good(wait.tasks[channel[1].i])
      BY <2>1, <2>3, <2>4 DEF Truly
    <3>2. Good(wait.tasks[channel[1].i])'
      BY <1>0, <1>1, <2>1, <2>3, <3>1
    <3>3. AnswerFinal'
      BY <1>0, <2>1, <2>3, <2>4, <3>2 DEF AnswerFinal
    <3> QED
      BY <1>0, <1>4, <1>7, <2>1, <2>4, <3>3
  <2>5. CASE answer' = "fail"
    <3>1. Bad(wait.tasks[channel[1].i])
      BY <2>1, <2>3, <2>5 DEF Truly
    <3>2. Bad(wait.tasks[channel[1].i])'
      BY <1>0, <1>1, <2>1, <2>3, <3>1
    <3>3. AnswerFinal'
      BY <1>0, <2>1, <2>3, <2>5, <3>2 DEF AnswerFinal
    <3> QED
      BY <1>0, <1>4, <1>7, <2>1, <2>5, <3>3
  <2> QED
    BY <2>1, <2>3, <2>4, <2>5
<1>14. CASE TimeOut
  <2>1. at' = at /\ channel' = channel /\ answer' = "timeout"
    BY <1>14 DEF TimeOut, Answer
  <2>2. AnswerFinal'
    BY <2>1 DEF AnswerFinal
  <2> QED
    BY <1>0, <1>4, <1>7, <2>1, <2>2
<1>15. CASE SetLimit \/ UNCHANGED vars \/ \E t \in Tasks : Spawn(t) \/ Cancel(t) \/ Step(t)
  <2>1. UNCHANGED client
    BY <1>15 DEF Step, Acquire, Run, Combine, Spawn, Cancel, Lock, Test, Wait, Take, Release, Signal, Start,
         Finish, Close, Recover, Observe, Apply, Collect, Follow, SpawnInner, SetLimit, vars
  <2> QED
    BY <1>8, <2>1
<1> QED
  BY <1>9, <1>10, <1>11, <1>12, <1>13, <1>14, <1>15 DEF Next, Await
-----------------------------------------------------------------------------
LEMMA InitIInv == Init => IInv
<1> SUFFICES ASSUME Init PROVE IInv
  OBVIOUS
<1>1. /\ program \in Programs /\ ShapeOK(shape) /\ N \in Nat \ {0} /\ "value" # None /\ None \notin Tasks
      /\ \A t \in Tasks : Kind(t) \in Kinds
      /\ program.limits \in Seq(Nat \ {0}) /\ Len(program.limits) \in Nat \ {0} /\ program.limits # <<>>
  BY Shapes, ProgramsAssumption DEF Init
<1>2. limit \in Nat \ {0}
  BY <1>1, FirstOK DEF Init
<1>3. ASSUME NEW t \in Tasks
      PROVE  /\ pc[t] = IF Kind(t) \in {"resolved", "rejected"} THEN "over" ELSE "unborn"
             /\ done[t] = (Kind(t) \in {"resolved", "rejected"})
             /\ err[t] = IF Kind(t) = "rejected" THEN "error" ELSE ""
             /\ result[t] = IF Kind(t) = "resolved" THEN "value" ELSE None
             /\ Kind(t) = "resolved" => did[t] = "value"
             /\ Kind(t) = "rejected" => did[t] = "error"
             /\ Kind(t) \notin {"resolved", "rejected"} => did[t] = "nothing"
  <2>1. did[t] = CASE Kind(t) = "resolved" -> "value"
                   [] Kind(t) = "rejected" -> "error"
                   [] OTHER -> "nothing"
    BY DEF Init
  <2>2. /\ Kind(t) = "resolved" => did[t] = "value"
        /\ Kind(t) = "rejected" => did[t] = "error"
        /\ Kind(t) \notin {"resolved", "rejected"} => did[t] = "nothing"
    BY <2>1
  <2> QED
    BY <2>2 DEF Init
<1>13. /\ onVM \in BOOLEAN /\ set = 1 /\ current = 0 /\ holder = None /\ waiting = <<>> /\ channel = <<>>
       /\ at = 0 /\ answer = None /\ highest = limit /\ disturbed = FALSE
       /\ cancelled = [t \in Tasks |-> FALSE]
  BY DEF Init
<1>14. /\ pc \in [Tasks -> Places] /\ err \in [Tasks -> Errs] /\ result \in [Tasks -> Values]
       /\ done \in [Tasks -> BOOLEAN]
  <2>1. pc \in [Tasks -> Places]
    BY DEF Init, Places, Leaving
  <2>2. err \in [Tasks -> Errs] /\ result \in [Tasks -> Values]
    BY DEF Init, Errs, Values
  <2>3. done \in [Tasks -> BOOLEAN]
    <3>1. done = [t \in Tasks |-> Kind(t) \in {"resolved", "rejected"}]
      BY DEF Init
    <3>2. \A t \in Tasks : (Kind(t) \in {"resolved", "rejected"}) \in BOOLEAN
      OBVIOUS
    <3> QED
      BY <3>1, <3>2
  <2> QED
    BY <2>1, <2>2, <2>3
<1>15. did \in [Tasks -> Ends \cup {"nothing", "cancelled"}]
  <2> DEFINE First(t) == CASE Kind(t) = "resolved" -> "value"
                           [] Kind(t) = "rejected" -> "error"
                           [] OTHER -> "nothing"
  <2>1. did = [t \in Tasks |-> First(t)]
    BY DEF Init
  <2>2. \A t : First(t) \in Ends \cup {"nothing", "cancelled"}
    BY DEF Ends
  <2> HIDE DEF First
  <2> QED
    BY <2>1, <2>2
<1>4. TypeOK
  <2>1. <<>> \in Seq([i : 1..N, outcome : Outcomes]) /\ <<>> \in Seq(Tasks)
    OBVIOUS
  <2>2. 1 \in 1..Len(program.limits)
    BY <1>1
  <2>3. set \in 1..Len(program.limits) /\ current \in Int /\ highest \in Nat /\ holder \in Tasks \cup {None}
        /\ waiting \in Seq(Tasks) /\ channel \in Seq([i : 1..N, outcome : Outcomes]) /\ at \in Nat
    BY <1>2, <1>13, <2>1, <2>2
  <2>4. cancelled \in [Tasks -> BOOLEAN] /\ disturbed \in BOOLEAN /\ answer \in {None, "ok", "fail", "timeout"}
    BY <1>13
  <2> QED
    BY <1>1, <1>2, <1>13, <1>14, <1>15, <2>3, <2>4 DEF TypeOK
<1>5. PlacesKept
  BY <1>1, <1>3 DEF PlacesKept, Kinds, Pooled, Combinator, Acquiring
<1>6. SpawnedOnce
  <2>1. \A d \in Tasks : Combinator(d) => pc[shape[d].fn] = "unborn"
    <3>1. ASSUME NEW d \in Tasks, Combinator(d) PROVE shape[d].fn \in Tasks /\ Kind(shape[d].fn) = "fn"
      BY <1>1, <3>1, Relations
    <3> QED
      BY <1>3, <3>1
  <2>2. \A d \in Tasks : Kind(d) = "flatMap" => pc[shape[d].next] = "unborn"
    <3>1. ASSUME NEW d \in Tasks, Kind(d) = "flatMap"
          PROVE  shape[d].next \in Tasks /\ Kind(shape[d].next) \notin {"resolved", "rejected"}
      BY <1>1, <3>1, Relations
    <3> QED
      BY <1>3, <3>1
  <2> QED
    BY <2>1, <2>2 DEF SpawnedOnce
<1>7. Holding = {} /\ OnTheWay = {} /\ \A t \in Tasks : pc[t] \notin Locked /\ pc[t] \notin {"free", "full"}
  BY <1>3 DEF Holding, OnTheWay, Pooled, Locked
<1>8. LockKept
  BY <1>1, <1>7, <1>13 DEF LockKept
<1>9. SlotsCounted /\ SomebodyComes
  BY <1>2, <1>7, <1>13, FS_EmptySet DEF SlotsCounted, SomebodyComes
<1>10. OutcomesTold
  <2> SUFFICES ASSUME NEW t \in Tasks
      PROVE /\ done[t] => pc[t] = "over" /\ Told(t)
            /\ pc[t] \notin {"closing", "recovering"}
            /\ result[t] # None => did[t] = "value" /\ pc[t] = "over"
    BY DEF OutcomesTold, Leaving
  <2> QED
    BY <1>1, <1>3 DEF Told, TakenForValue, Mistaken
<1>11. SourcesKept
  BY <1>3 DEF SourcesKept, Combinator, Leaving
<1>12. ChannelTrue /\ SeenSoFar /\ AnswerFinal
  <2>1. None \notin {"ok", "fail"}
    BY ProgramsAssumption
  <2> QED
    BY <1>1, <1>13, <2>1 DEF ChannelTrue, SeenSoFar, AnswerFinal
<1> QED
  BY <1>4, <1>5, <1>6, <1>8, <1>9, <1>10, <1>11, <1>12 DEF IInv

LEMMA NextIInv == IInv /\ [Next]_vars => IInv'
BY TypeStep, PlacesStep, LockStep, CountStep, OutcomesStep, AnswersStep DEF IInv

LEMMA IInvAlways == Spec => []IInv
BY InitIInv, NextIInv, PTL DEF Spec

(* The state is as declared in every reachable state.                      *)
THEOREM TypeCorrect == Spec => []TypeOK
<1>1. IInv => TypeOK
  BY DEF IInv
<1> QED
  BY <1>1, IInvAlways, PTL

(* "Maximum 2 parallel tasks": the slots that are taken are those of the   *)
(* tasks that hold one, and never more than the highest limit.             *)
THEOREM PoolBounded == Spec => []PoolBound
<1>1. IInv => PoolBound
  BY DEF IInv, SlotsCounted, PoolBound
<1> QED
  BY <1>1, IInvAlways, PTL

(* AcquirePoolSlot and ReleasePoolSlot lose no wakeup, but for a limit     *)
(* that changes and a signal between the test and the wait.                *)
THEOREM WakeupsAreKept == Spec => []WakeupsKept
<1>1. IInv => WakeupsKept
  BY DEF IInv, SomebodyComes, WakeupsKept
<1> QED
  BY <1>1, IInvAlways, PTL

(* In every program awaitAny answers with a value that a task has, no      *)
(* await fails without a task that did, and none takes anything but what   *)
(* is Mistaken for a success: no error that says something, no             *)
(* cancellation and, on the VM, no panic.                                  *)
THEOREM AnswersAreTrue == Spec => []AnswersTrue
<1>1. IInv => AnswersTrue
  <2> SUFFICES ASSUME IInv PROVE AnswersTrue
    OBVIOUS
  <2>1. AnswerFinal /\ \A t : Good(t) => TakenForValue(t)
    BY DEF IInv, Good
  <2>2. \A t : (Bad(t) => did[t] # "value") /\ (Real(t) => did[t] = "value")
    BY DEF Bad, Real
  <2> QED
    BY <2>1, <2>2 DEF AnswerFinal, AnswersTrue, InTurn
<1> QED
  BY <1>1, IInvAlways, PTL

(* taskMap and taskFlatMap hide nothing of their source but what is        *)
(* Mistaken (an error that says nothing and, in the tree walker, a panic), *)
(* and taskCatch touches no value.                                         *)
THEOREM CombinesAreTrue == Spec => []CombinesTrue
<1>1. IInv => CombinesTrue
  <2> SUFFICES ASSUME IInv, NEW d \in Tasks, Combinator(d), done[d] PROVE Kept(d)
    BY DEF CombinesTrue, Kept
  <2>1. pc[d] \in {"releasing"} \cup Leaving /\ pc[d] # "releasing"
    BY WhoIsWhere DEF IInv, OutcomesTold
  <2> QED
    BY <2>1 DEF IInv, SourcesKept
<1> QED
  BY <1>1, IInvAlways, PTL
-----------------------------------------------------------------------------
(* The persistent vector.                                                  *)

(* Induction over data without an operator as a parameter: a set of        *)
(* natural numbers has a least element, so one that has 0 and with n also  *)
(* n + 1 is Nat.                                                           *)
LEMMA LeastElement ==
    ASSUME NEW T, T \subseteq Nat, T # {}
    PROVE  \E x \in T : \A y \in T : x <= y
<1> DEFINE Less == OpToRel(<, Nat)
<1>1. PICK x \in T : \A y \in T : ~ (<<y, x>> \in Less)
  BY WFMin, NatLessThanWellFounded
<1>2. ASSUME NEW y \in T, y < x PROVE <<y, x>> \in Less
  <2>1. <<y, x>> \in Nat \X Nat /\ <<y, x>>[1] < <<y, x>>[2]
    BY <1>2
  <2> QED
    BY <2>1, Zenon DEF OpToRel
<1> HIDE DEF Less
<1>3. ASSUME NEW y \in T PROVE ~ (y < x)
  BY <1>1, <1>2, Zenon
<1>4. ASSUME NEW y \in T PROVE x <= y
  BY <1>3
<1> QED
  BY <1>4

LEMMA InductionOnNat ==
    ASSUME NEW P, P \subseteq Nat, 0 \in P, \A n \in Nat : n \in P => n + 1 \in P
    PROVE  P = Nat
<1>1. SUFFICES ASSUME Nat \ P # {} PROVE FALSE
  OBVIOUS
<1>2. PICK x \in Nat \ P : \A y \in Nat \ P : x <= y
  BY <1>1, LeastElement
<1>3. x # 0 /\ x - 1 \in Nat /\ x - 1 \in P
  BY <1>2
<1> QED
  BY <1>3, <1>2

(* What division with a remainder gives, and that only it does.            *)
LEMMA DivMod ==
    ASSUME NEW x \in Nat, NEW w \in Nat \ {0}
    PROVE  /\ x \div w \in Nat
           /\ x % w \in 0..(w - 1)
           /\ x = w * (x \div w) + (x % w)
OBVIOUS

LEMMA Unique ==
    ASSUME NEW w \in Nat \ {0}, NEW q \in Nat, NEW d \in 0..(w - 1),
           NEW p \in Nat, NEW c \in 0..(w - 1), w * q + d = w * p + c
    PROVE  q = p /\ d = c
OBVIOUS

(* The recursive function Power exists: it is the limit of its beginnings. *)
LEMMA PowerSteps ==
    /\ Power \in [Nat -> Nat \ {0}]
    /\ Power[0] = 1
    /\ \A l \in Nat : Power[l + 1] = width * Power[l]
<1> DEFINE IsPower(f, n) == /\ f \in [0..n -> Nat \ {0}]
                            /\ f[0] = 1
                            /\ \A l \in 0..(n - 1) : f[l + 1] = width * f[l]
           Defined == {n \in Nat : \E f : IsPower(f, n)}
<1>1. 0 \in Defined
  <2>1. IsPower([l \in 0..0 |-> 1], 0)
    OBVIOUS
  <2> QED
    BY <2>1
<1>2. ASSUME NEW n \in Nat, n \in Defined PROVE n + 1 \in Defined
  <2>1. PICK f : IsPower(f, n)
    BY <1>2
  <2> DEFINE g == [l \in 0..(n + 1) |-> IF l = n + 1 THEN width * f[n] ELSE f[l]]
  <2>2. n \in 0..n /\ f[n] \in Nat \ {0}
    BY <2>1
  <2>3. width * f[n] \in Nat \ {0}
    BY <2>2, WidthAssumption
  <2>4. IsPower(g, n + 1)
    BY <2>1, <2>2, <2>3
  <2> HIDE DEF IsPower, g
  <2> QED
    BY <2>4
<1>3. Defined = Nat
  BY <1>1, <1>2, InductionOnNat
<1>5. PICK approx : \A n \in Nat : IsPower(approx[n], n)
  <2> DEFINE a == [n \in Nat |-> CHOOSE f : IsPower(f, n)]
  <2>1. \A n \in Nat : IsPower(a[n], n)
    BY <1>3
  <2> QED
    BY <2>1
<1> DEFINE F == [n \in Nat |-> approx[n][n]]
<1>6. \A l, n \in Nat : l <= n => approx[n][l] = F[l]
  <2> DEFINE Alike == {l \in Nat : \A n \in Nat : l <= n => approx[n][l] = F[l]}
  <2>1. 0 \in Alike
    BY <1>5
  <2>2. ASSUME NEW l \in Nat, l \in Alike PROVE l + 1 \in Alike
    <3>1. ASSUME NEW n \in Nat, l + 1 <= n PROVE approx[n][l + 1] = width * F[l]
      <4>1. l \in 0..(n - 1) /\ l <= n
        BY <3>1
      <4>2. approx[n][l + 1] = width * approx[n][l]
        BY <1>5, <4>1
      <4>3. approx[n][l] = F[l]
        BY <2>2, <4>1
      <4> QED
        BY <4>2, <4>3
    <3>2. F[l + 1] = width * F[l]
      BY <3>1
    <3> HIDE DEF F
    <3> QED
      BY <3>1, <3>2
  <2>3. Alike = Nat
    BY <2>1, <2>2, InductionOnNat
  <2> QED
    BY <2>3
<1>7. F = [l \in Nat |-> IF l = 0 THEN 1 ELSE width * F[l - 1]]
  <2>1. ASSUME NEW l \in Nat, l # 0 PROVE F[l] = width * F[l - 1]
    <3>1. l - 1 \in Nat /\ l - 1 <= l /\ l - 1 \in 0..(l - 1) /\ (l - 1) + 1 = l
      BY <2>1
    <3>2. approx[l][l] = width * approx[l][l - 1]
      BY <1>5, <3>1
    <3> QED
      BY <3>1, <3>2, <1>6
  <2>2. F[0] = 1
    BY <1>5
  <2> QED
    BY <2>1, <2>2
<1>8. Power = [l \in Nat |-> IF l = 0 THEN 1 ELSE width * Power[l - 1]]
  <2> HIDE DEF F
  <2> QED BY <1>7 DEF Power
<1>9. Power[0] = 1 /\ \A l \in Nat : Power[l + 1] = width * Power[l]
  BY <1>8
<1>10. \A l \in Nat : Power[l] \in Nat \ {0}
  <2> DEFINE P == {l \in Nat : Power[l] \in Nat \ {0}}
  <2>1. 0 \in P /\ \A l \in Nat : l \in P => l + 1 \in P
    BY <1>9, WidthAssumption
  <2>2. P = Nat
    BY <2>1, InductionOnNat
  <2> QED
    BY <2>2
<1> QED
  BY <1>8, <1>9, <1>10

(* The division of a number that is given by its quotient and remainder.   *)
LEMMA Division ==
    ASSUME NEW w \in Nat \ {0}, NEW q \in Nat, NEW d \in 0..(w - 1)
    PROVE  w * q + d \in Nat /\ (w * q + d) \div w = q /\ (w * q + d) % w = d
<1>1. w * q \in Nat
  OBVIOUS
<1>2. PICK x \in Nat : x = w * q + d
  BY <1>1
<1>3. x \div w = q /\ x % w = d
  BY <1>2, DivMod, Unique
<1> QED
  BY <1>2, <1>3

(* What is left of index i above level l: the place of its array among     *)
(* those of level l - 1.                                                   *)
Quotient(i, l) == i \div Power[l]

(* One level up divides by width once more; the rest is the digit.         *)
LEMMA QuotientSteps ==
    ASSUME NEW i \in Nat, NEW l \in Nat
    PROVE  /\ Quotient(i, l) \in Nat
           /\ Digit(i, l) \in 0..(width - 1)
           /\ Quotient(i, l + 1) = Quotient(i, l) \div width
           /\ Quotient(i, l) = width * Quotient(i, l + 1) + Digit(i, l)
<1>1. PICK P \in Nat \ {0} : P = Power[l] /\ Power[l + 1] = width * P
  BY PowerSteps
<1>2. PICK q \in Nat, r \in 0..(P - 1) : q = i \div P /\ i = P * q + r
  BY DivMod
<1>3. PICK a \in Nat, d \in 0..(width - 1) : a = q \div width /\ d = q % width /\ q = width * a + d
  BY DivMod, WidthAssumption
<1>4. i = (width * P) * a + (P * d + r)
  <2>1. P * q = P * (width * a) + P * d
    BY <1>3, WidthAssumption
  <2>2. P * (width * a) = (width * P) * a
    BY WidthAssumption
  <2> QED
    BY <1>2, <2>1, <2>2, WidthAssumption
<1>5. P * d + r \in 0..(width * P - 1)
  <2>1. P * d <= P * (width - 1)
    BY WidthAssumption
  <2>2. P * (width - 1) = width * P - P
    BY WidthAssumption
  <2> QED
    BY <2>1, <2>2, WidthAssumption
<1>6. width * P \in Nat \ {0}
  BY WidthAssumption
<1>7. i \div (width * P) = a
  BY <1>4, <1>5, <1>6, Division
<1> QED
  BY <1>1, <1>2, <1>3, <1>7 DEF Quotient, Digit

(* Indices that share an array share those above it.                       *)
LEMMA QuotientAgree ==
    ASSUME NEW i \in Nat, NEW j \in Nat, NEW l \in Nat, NEW m \in Nat,
           l <= m, Quotient(i, l) = Quotient(j, l)
    PROVE  Quotient(i, m) = Quotient(j, m)
<1> DEFINE Agree == {k \in Nat : l <= k => Quotient(i, k) = Quotient(j, k)}
<1>1. 0 \in Agree
  <2>1. l <= 0 => l = 0
    OBVIOUS
  <2> QED
    BY <2>1
<1>2. ASSUME NEW k \in Nat, k \in Agree PROVE k + 1 \in Agree
  <2>1. CASE l <= k
    <3>1. Quotient(i, k) = Quotient(j, k)
      BY <1>2, <2>1
    <3>2. Quotient(i, k + 1) = Quotient(j, k + 1)
      BY <3>1, QuotientSteps
    <3> QED
      BY <3>2
  <2>2. CASE ~ (l <= k)
    <3>1. l <= k + 1 => l = k + 1
      BY <2>2
    <3> QED
      BY <3>1
  <2> QED
    BY <2>1, <2>2
<1>3. Agree = Nat
  <2> HIDE DEF Agree
  <2>1. Agree \subseteq Nat
    BY DEF Agree
  <2> QED
    BY <1>1, <1>2, <2>1, InductionOnNat
<1> QED
  BY <1>3

(* An index of the same subtree with a smaller digit.                      *)
LEMMA QuotientBelow ==
    ASSUME NEW n \in Nat, NEW l \in Nat, Digit(n, l) # 0
    PROVE  /\ n - Power[l] \in Nat
           /\ Quotient(n - Power[l], l + 1) = Quotient(n, l + 1)
<1>1. PICK P \in Nat \ {0} : P = Power[l]
  BY PowerSteps
<1>2. PICK q \in Nat, r \in 0..(P - 1) : q = Quotient(n, l) /\ n = P * q + r
  <2>1. Quotient(n, l) = n \div P
    BY <1>1 DEF Quotient
  <2>2. PICK q \in Nat, r \in 0..(P - 1) : q = n \div P /\ n = P * q + r
    BY DivMod
  <2> QED
    BY <2>1, <2>2
<1>3. PICK p \in Nat, d \in 0..(width - 1) :
         p = Quotient(n, l + 1) /\ d = Digit(n, l) /\ q = width * p + d
  <2>1. PICK p : p = Quotient(n, l + 1)
    OBVIOUS
  <2>2. PICK d : d = Digit(n, l)
    OBVIOUS
  <2>3. d \in 0..(width - 1) /\ q = width * p + d
    BY <1>2, <2>1, <2>2, QuotientSteps
  <2>4. p \in Nat
    BY <2>1, QuotientSteps
  <2> QED
    BY <2>1, <2>2, <2>3, <2>4
<1>4. d # 0 /\ q - 1 \in Nat /\ q - 1 = width * p + (d - 1) /\ d - 1 \in 0..(width - 1)
  <2>1. d # 0 /\ width * p \in Nat
    BY <1>3, WidthAssumption
  <2> QED
    BY <1>3, <2>1, WidthAssumption
<1>5. PICK k \in Nat : k = q - 1
  BY <1>4
<1>6. n - P = P * k + r /\ n - P \in Nat
  <2>1. P * q = P * k + P
    BY <1>5
  <2>2. P * k \in Nat
    OBVIOUS
  <2> QED
    BY <1>2, <2>1, <2>2
<1>7. PICK m \in Nat : m = n - P
  BY <1>6
<1>8. m \div P = k
  BY <1>6, <1>7, Division
<1>9. Quotient(m, l) = k
  BY <1>1, <1>8 DEF Quotient
<1>10. Quotient(m, l + 1) = k \div width
  BY <1>9, QuotientSteps
<1>11. k \div width = p
  BY <1>4, <1>5, Division, WidthAssumption
<1> QED
  BY <1>1, <1>3, <1>7, <1>10, <1>11

(* A sequence of anything.                                                 *)
IsSeq(s) == \E S : s \in Seq(S)

(* Every array of g is still in h, as it was. *)
Extends(g, h) ==
    /\ IsSeq(g) /\ IsSeq(h)
    /\ Len(g) <= Len(h)
    /\ \A a \in 1..Len(g) : h[a] = g[a]

(* Sequences as functions, and what Append and \o do to them.              *)
LEMMA SeqProperties ==
    ASSUME NEW s, IsSeq(s)
    PROVE  Len(s) \in Nat /\ DOMAIN s = 1..Len(s) /\ s = [i \in 1..Len(s) |-> s[i]]
BY DEF IsSeq

LEMMA SeqOfFunction ==
    ASSUME NEW n \in Nat, NEW f, DOMAIN f = 1..n, f = [i \in 1..n |-> f[i]]
    PROVE  IsSeq(f) /\ Len(f) = n
<1> DEFINE S == {f[i] : i \in 1..n}
<1>1. f \in [1..n -> S]
  OBVIOUS
<1>2. f \in Seq(S) /\ Len(f) = n
  BY <1>1
<1> QED
  BY <1>2 DEF IsSeq

LEMMA AppendToSeq ==
    ASSUME NEW s, IsSeq(s), NEW x
    PROVE  /\ IsSeq(Append(s, x))
           /\ Len(Append(s, x)) = Len(s) + 1
           /\ \A i \in 1..Len(s) : Append(s, x)[i] = s[i]
           /\ Append(s, x)[Len(s) + 1] = x
<1>1. PICK S : s \in Seq(S)
  BY DEF IsSeq
<1>2. s \in Seq(S \cup {x}) /\ x \in S \cup {x}
  BY <1>1
<1>3. Append(s, x) \in Seq(S \cup {x})
  BY <1>2
<1> QED
  BY <1>2, <1>3 DEF IsSeq

LEMMA ConcatOfSeqs ==
    ASSUME NEW s, IsSeq(s), NEW t, IsSeq(t)
    PROVE  /\ IsSeq(s \o t)
           /\ Len(s \o t) = Len(s) + Len(t)
           /\ \A i \in 1..Len(s) : (s \o t)[i] = s[i]
           /\ \A i \in 1..Len(t) : (s \o t)[Len(s) + i] = t[i]
<1>1. PICK S, T : s \in Seq(S) /\ t \in Seq(T)
  BY DEF IsSeq
<1>2. s \in Seq(S \cup T) /\ t \in Seq(S \cup T)
  BY <1>1
<1>3. s \o t \in Seq(S \cup T)
  BY <1>2
<1>4. Len(s) \in Nat /\ Len(t) \in Nat
  BY <1>2
<1>5. ASSUME NEW i \in 1..Len(t) PROVE (s \o t)[Len(s) + i] = t[i]
  BY <1>2, <1>4
<1> QED
  BY <1>2, <1>3, <1>5 DEF IsSeq

LEMMA SameSequence ==
    ASSUME NEW s, IsSeq(s), NEW t, IsSeq(t), Len(s) = Len(t),
           \A i \in 1..Len(s) : s[i] = t[i]
    PROVE  s = t
BY SeqProperties

(* Extends is transitive and reflexive.                                    *)
LEMMA ExtendsTrans ==
    ASSUME NEW f, NEW g, NEW h, Extends(f, g), Extends(g, h)
    PROVE  Extends(f, h)
<1>1. Len(f) \in Nat /\ Len(g) \in Nat /\ Len(h) \in Nat
  BY SeqProperties DEF Extends
<1>2. \A a \in 1..Len(f) : a \in 1..Len(g)
  BY <1>1 DEF Extends
<1> QED
  BY <1>1, <1>2 DEF Extends

LEMMA ExtendsSelf ==
    ASSUME NEW h, IsSeq(h) PROVE Extends(h, h)
BY SeqProperties DEF Extends

(* An allocation changes no array that is there.                           *)
LEMMA AllocProperties ==
    ASSUME NEW h, IsSeq(h), NEW x
    PROVE  /\ Extends(h, Alloc(h, x).heap)
           /\ Alloc(h, x).at = Len(h) + 1
           /\ Len(Alloc(h, x).heap) = Len(h) + 1
           /\ Alloc(h, x).heap[Len(h) + 1] = x
<1>1. Len(h) \in Nat
  BY SeqProperties
<1> QED
  BY <1>1, AppendToSeq DEF Alloc, Extends

(* f is a function of 1..n.                                                *)
IsFunction(f, n) == f = [l \in 1..n |-> f[l]]

(* e is h and after it the n arrays of f.                                  *)
OnTop(h, f, n, e) ==
    /\ Extends(h, e)
    /\ Len(e) = Len(h) + n
    /\ \A l \in 1..n : e[Len(h) + l] = f[l]

(* Several arrays put on the heap at once.                                 *)
LEMMA StackProperties ==
    ASSUME NEW h, IsSeq(h), NEW n \in Nat, NEW f, IsFunction(f, n)
    PROVE  OnTop(h, f, n, h \o f)
<1>1. IsSeq(f) /\ Len(f) = n
  BY SeqOfFunction DEF IsFunction
<1>2. Len(h) \in Nat
  BY SeqProperties
<1>3. /\ IsSeq(h \o f)
      /\ Len(h \o f) = Len(h) + Len(f)
      /\ \A i \in 1..Len(h) : (h \o f)[i] = h[i]
      /\ \A i \in 1..Len(f) : (h \o f)[Len(h) + i] = f[i]
  <2>1. \A t : IsSeq(t) =>
          /\ IsSeq(h \o t)
          /\ Len(h \o t) = Len(h) + Len(t)
          /\ \A i \in 1..Len(h) : (h \o t)[i] = h[i]
          /\ \A i \in 1..Len(t) : (h \o t)[Len(h) + i] = t[i]
    BY ConcatOfSeqs
  <2> QED
    BY <1>1, <2>1
<1> QED
  BY <1>1, <1>2, <1>3 DEF Extends, OnTop

(* The tail begins at a multiple of width, at most width before the end.   *)
LEMMA TailOffsetIs ==
    ASSUME NEW v, NEW K \in Nat, NEW n \in Nat, v.count = n,
           width * K < n, n <= width * K + width
    PROVE  TailOffset(v) = width * K
<1>1. width * K \in Nat
  BY WidthAssumption
<1>2. PICK d \in 0..(width - 1) : n - 1 = width * K + d
  <2>1. (n - 1) - width * K \in 0..(width - 1) /\ n - 1 = width * K + ((n - 1) - width * K)
    BY <1>1, WidthAssumption
  <2> QED
    BY <2>1
<1>3. (n - 1) \div width = K
  BY <1>2, Division, WidthAssumption
<1>4. n < width => K = 0
  <2>1. K >= 1 => width * K >= width
    BY WidthAssumption
  <2> QED
    BY <2>1, <1>1, WidthAssumption
<1>5. K * width = width * K
  BY WidthAssumption
<1>6. width * 0 = 0
  BY WidthAssumption
<1> QED
  BY <1>3, <1>4, <1>5, <1>6 DEF TailOffset

LEMMA TailOffsetProperties ==
    ASSUME NEW v, v.count \in Nat
    PROVE  \E K \in Nat : /\ TailOffset(v) = width * K
                          /\ width * K \in Nat
                          /\ width * K <= v.count
                          /\ v.count # 0 => width * K < v.count
                          /\ v.count <= width * K + width
<1>1. CASE v.count = 0
  <2>1. width * 0 = 0 /\ 0 < width /\ 0 \in Nat
    BY WidthAssumption
  <2>2. TailOffset(v) = 0
    BY <1>1, <2>1 DEF TailOffset
  <2> QED
    BY <1>1, <2>1, <2>2, WidthAssumption
<1>2. CASE v.count # 0
  <2>1. PICK n \in Nat : n = v.count /\ n - 1 \in Nat
    BY <1>2
  <2>2. PICK K \in Nat, d \in 0..(width - 1) : n - 1 = width * K + d
    <3>1. PICK m \in Nat : m = n - 1
      BY <2>1
    <3>2. m \div width \in Nat /\ m % width \in 0..(width - 1) /\ m = width * (m \div width) + (m % width)
      BY DivMod, WidthAssumption
    <3> QED
      BY <3>1, <3>2
  <2>3. width * K \in Nat
    BY WidthAssumption
  <2>4. width * K < n /\ n <= width * K + width
    BY <2>1, <2>2, <2>3, WidthAssumption
  <2>5. TailOffset(v) = width * K
    BY <2>1, <2>4, TailOffsetIs
  <2> QED
    BY <2>1, <2>3, <2>4, <2>5
<1> QED
  BY <1>1, <1>2

(* node[l][q] is the array of level l for the indices i with               *)
(* Quotient(i, l + 1) = q, nil if there is none.  It is within the heap.   *)
Placed(h, v, node) ==
    \A l \in 0..v.shift, q \in Nat : node[l][q] \in 0..Len(h)

(* An array is there just if the tree has an element below it.             *)
Covers(v, node) ==
    \A l \in 0..v.shift, q \in Nat :
       node[l][q] # nil <=> \E i \in 0..(TailOffset(v) - 1) : Quotient(i, l + 1) = q

(* An array above the lowest level refers to the arrays below it.          *)
Branches(h, v, node) ==
    \A l \in 1..v.shift, q \in Nat :
       node[l][q] # nil => h[node[l][q]] = [c \in 1..width |-> node[l - 1][width * q + (c - 1)]]

(* An array of the lowest level has elements of the sequence.              *)
Leaves(h, s, node) ==
    \A q \in Nat : node[0][q] # nil => h[node[0][q]] = [c \in 1..width |-> s[width * q + c]]

(* The tree of v on heap h, with the elements of s.                        *)
IsLayout(h, v, s, node) ==
    /\ v.root = node[v.shift][0]
    /\ Placed(h, v, node)
    /\ Covers(v, node)
    /\ Branches(h, v, node)
    /\ Leaves(h, s, node)

(* The record of the code, its references within the heap.                 *)
IsVector(h, v) ==
    v \in [count : Nat, shift : Nat \ {0}, root : 0..Len(h), tail : 1..Len(h)]

(* All but the tree: v has the length of s, its tail the last elements of  *)
(* s, and the tree is high enough for the others.                          *)
Shape(h, v, s) ==
    /\ IsSeq(h) /\ IsSeq(s)
    /\ IsVector(h, v)
    /\ v.count = Len(s)
    /\ h[v.tail] = [c \in 1..(v.count - TailOffset(v)) |-> s[TailOffset(v) + c]]
    /\ \A i \in 0..(TailOffset(v) - 1) : Quotient(i, v.shift + 1) = 0

(* On heap h vector v stands for the sequence s.                           *)
Represents(h, v, s) == Shape(h, v, s) /\ \E node : IsLayout(h, v, s, node)

(* What the other lemmas use of the shape.                                 *)
LEMMA ShapeProperties ==
    ASSUME NEW h, NEW v, NEW s, Shape(h, v, s)
    PROVE  /\ Len(h) \in Nat /\ v.count \in Nat /\ v.shift \in Nat \ {0} 
           /\ v.tail \in 1..Len(h) /\ v.root \in 0..Len(h)
           /\ TailOffset(v) \in Nat /\ TailOffset(v) <= v.count /\ v.count - TailOffset(v) \in Nat
           /\ v.count # 0 => TailOffset(v) < v.count
           /\ Len(h[v.tail]) = v.count - TailOffset(v) /\ IsSeq(h[v.tail])
           /\ v.count - TailOffset(v) <= width
<1>1. PICK K \in Nat : /\ TailOffset(v) = width * K
                       /\ width * K \in Nat
                       /\ width * K <= v.count
                       /\ v.count # 0 => width * K < v.count
                       /\ v.count <= width * K + width
  BY TailOffsetProperties DEF Shape, IsVector
<1>2. Len(h) \in Nat
  BY SeqProperties DEF Shape, IsVector
<1>3. v.count \in Nat /\ v.shift \in Nat \ {0} /\ v.tail \in 1..Len(h) /\ v.root \in 0..Len(h)
  BY DEF Shape, IsVector
<1>4. v.count - TailOffset(v) \in Nat /\ v.count - TailOffset(v) <= width
  BY <1>1, <1>3, WidthAssumption
<1>5. Len(h[v.tail]) = v.count - TailOffset(v) /\ IsSeq(h[v.tail])
  BY <1>4, SeqOfFunction DEF Shape, IsVector
<1> QED
  BY <1>1, <1>2, <1>3, <1>4, <1>5

(* The array on the way to an index that the tree has, or would have at    *)
(* its present height.                                                     *)
LEMMA TrailIs ==
    ASSUME NEW h, NEW v, NEW s, NEW node, Shape(h, v, s), IsLayout(h, v, s, node),
           NEW i \in Nat, Quotient(i, v.shift + 1) = 0
    PROVE  Trail(h, v, i) = [l \in 0..v.shift |-> node[l][Quotient(i, l + 1)]]
<1> DEFINE Unfold(t) == [l \in 0..v.shift |->
                         IF l = v.shift THEN v.root
                         ELSE IF t[l + 1] = nil THEN nil ELSE h[t[l + 1]][Digit(i, l + 1) + 1]]
           way == [l \in 0..v.shift |-> node[l][Quotient(i, l + 1)]]
<1>0. v.shift \in Nat
  BY ShapeProperties
<1>1. ASSUME NEW l \in 0..v.shift, l # v.shift
      PROVE  way[l] = IF way[l + 1] = nil THEN nil ELSE h[way[l + 1]][Digit(i, l + 1) + 1]
  <2>1. l \in Nat /\ l + 1 \in 1..v.shift /\ l + 1 \in Nat /\ l + 1 \in 0..v.shift /\ (l + 1) - 1 = l
    BY <1>0, <1>1
  <2>2. PICK q, p, d : q = Quotient(i, l + 1) /\ p = Quotient(i, (l + 1) + 1) /\ d = Digit(i, l + 1)
    OBVIOUS
  <2>3. q \in Nat /\ p \in Nat /\ d \in 0..(width - 1) /\ q = width * p + d
    BY <2>1, <2>2, QuotientSteps
  <2>4. way[l] = node[l][q] /\ way[l + 1] = node[l + 1][p]
    BY <2>1, <2>2
  <2>5. CASE node[l + 1][p] = nil
    <3>1. SUFFICES ASSUME node[l][q] # nil PROVE FALSE
      BY <2>4, <2>5
    <3>2. PICK j \in 0..(TailOffset(v) - 1) : Quotient(j, l + 1) = q
      BY <3>1, <2>3 DEF IsLayout, Covers, Branches, Leaves
    <3>3. j \in Nat
      BY ShapeProperties
    <3>4. Quotient(j, (l + 1) + 1) = p
      BY <2>1, <2>2, <3>2, <3>3, QuotientSteps
    <3>5. \E k \in 0..(TailOffset(v) - 1) : Quotient(k, (l + 1) + 1) = p
      BY <3>2, <3>4
    <3> QED
      BY <2>1, <2>3, <2>5, <3>5 DEF IsLayout, Covers, Branches, Leaves
  <2>6. CASE node[l + 1][p] # nil
    <3>0. PICK m \in 1..v.shift : m = l + 1 /\ m - 1 = l
      BY <2>1
    <3>1. h[node[l + 1][p]] = [c \in 1..width |-> node[l][width * p + (c - 1)]]
      <4>1. h[node[m][p]] = [c \in 1..width |-> node[m - 1][width * p + (c - 1)]]
        BY <3>0, <2>3, <2>6 DEF IsLayout, Covers, Branches, Leaves
      <4> QED
        BY <4>1, <3>0
    <3>2. d + 1 \in 1..width /\ (d + 1) - 1 = d
      BY <2>3, WidthAssumption
    <3>3. h[node[l + 1][p]][d + 1] = node[l][q]
      BY <3>1, <3>2, <2>3
    <3> QED
      BY <2>2, <2>4, <2>6, <3>3
  <2> QED
    BY <2>5, <2>6
<1>2. way[v.shift] = v.root
  <2>1. way[v.shift] = node[v.shift][Quotient(i, v.shift + 1)]
    BY <1>0
  <2>2. node[v.shift][0] = v.root
    BY DEF IsLayout, Covers, Branches, Leaves
  <2> QED
    BY <2>1, <2>2
<1>3. way = Unfold(way)
  <2> HIDE DEF way
  <2>1. way = [l \in 0..v.shift |-> way[l]]
    BY DEF way
  <2> QED
    BY <1>1, <1>2, <2>1
<1>4. ASSUME NEW t, t = Unfold(t) PROVE t = way
  <2> DEFINE Alike == {m \in Nat : m <= v.shift => t[v.shift - m] = way[v.shift - m]}
  <2> HIDE DEF way
  <2>1. 0 \in Alike
    BY <1>0, <1>2, <1>4
  <2>2. ASSUME NEW m \in Nat, m \in Alike PROVE m + 1 \in Alike
    <3>1. SUFFICES ASSUME m + 1 <= v.shift PROVE t[v.shift - (m + 1)] = way[v.shift - (m + 1)]
      OBVIOUS
    <3>2. PICK l \in 0..v.shift : l = v.shift - (m + 1) /\ l # v.shift /\ l + 1 = v.shift - m
      BY <3>1, <1>0
    <3>3. t[l + 1] = way[l + 1]
      BY <2>2, <3>1, <3>2, <1>0
    <3>4. t[l] = IF t[l + 1] = nil THEN nil ELSE h[t[l + 1]][Digit(i, l + 1) + 1]
      BY <1>4, <3>2
    <3>5. t[l] = way[l]
      BY <3>3, <3>4, <3>2, <1>1
    <3> QED
      BY <3>2, <3>5
  <2>3. Alike = Nat
    <3>1. Alike \subseteq Nat
      OBVIOUS
    <3> HIDE DEF Alike
    <3> QED
      BY <2>1, <2>2, <3>1, InductionOnNat
  <2>4. ASSUME NEW l \in 0..v.shift PROVE t[l] = way[l]
    <3>1. PICK m \in Nat : m <= v.shift /\ l = v.shift - m
      <4>1. v.shift - l \in Nat /\ v.shift - l <= v.shift /\ l = v.shift - (v.shift - l)
        BY <1>0
      <4> QED
        BY <4>1
    <3>2. m \in Alike
      BY <2>3
    <3> QED
      BY <3>1, <3>2
  <2>5. t = [l \in 0..v.shift |-> t[l]] /\ way = [l \in 0..v.shift |-> way[l]]
    BY <1>4, <1>3
  <2> QED
    BY <2>4, <2>5
<1>5. Trail(h, v, i) = CHOOSE t : t = Unfold(t)
  BY DEF Trail
<1>6. Trail(h, v, i) = way
  <2> HIDE DEF Unfold, way
  <2>1. (CHOOSE t : t = Unfold(t)) = Unfold(CHOOSE t : t = Unfold(t))
    BY <1>3
  <2> QED
    BY <1>4, <1>5, <2>1
<1> QED
  BY <1>6

(* The lowest level.                                                       *)
LEMMA QuotientLow ==
    ASSUME NEW i \in Nat
    PROVE  /\ Quotient(i, 0) = i
           /\ Quotient(i, 1) = i \div width
           /\ Digit(i, 0) = i % width
           /\ Quotient(i, 1) \in Nat
<1>1. i \div 1 = i
  <2>1. 1 * i + 0 = i
    OBVIOUS
  <2> QED
    BY <2>1, Division
<1>2. Quotient(i, 0) = i /\ Digit(i, 0) = i % width
  BY <1>1, PowerSteps DEF Quotient, Digit
<1>3. Quotient(i, 0 + 1) = Quotient(i, 0) \div width /\ Quotient(i, 0 + 1) \in Nat
  BY QuotientSteps
<1> QED
  BY <1>2, <1>3

(* The elements of an array of the lowest level are all in the tree.       *)
LEMMA LeafInside ==
    ASSUME NEW h, NEW v, NEW s, NEW node, Shape(h, v, s), IsLayout(h, v, s, node),
           NEW q \in Nat, node[0][q] # nil
    PROVE  width * q + width <= TailOffset(v)
<1>1. PICK K \in Nat : TailOffset(v) = width * K
  BY TailOffsetProperties DEF Shape
<1>2. PICK i \in 0..(TailOffset(v) - 1) : Quotient(i, 0 + 1) = q
  <2>1. 0 \in 0..v.shift
    BY ShapeProperties
  <2> QED
    BY <2>1 DEF IsLayout, Covers, Branches, Leaves
<1>3. i \in Nat /\ i < width * K
  BY <1>1, ShapeProperties
<1>4. i \div width = q
  BY <1>2, <1>3, QuotientLow
<1>5. i = width * q + (i % width) /\ i % width \in 0..(width - 1)
  BY <1>3, <1>4, DivMod, WidthAssumption
<1>6. width * q < width * K
  <2>1. width * q \in Nat /\ width * K \in Nat /\ width \in Nat
    BY WidthAssumption
  <2>2. i % width \in Nat
    BY <1>5, <2>1
  <2> QED
    BY <1>3, <1>5, <2>1, <2>2
<1>7. q + 1 <= K
  <2>1. K <= q => width * K <= width * q
    BY WidthAssumption
  <2> QED
    BY <2>1, <1>6, WidthAssumption
<1>8. width * (q + 1) <= width * K /\ width * (q + 1) = width * q + width
  BY <1>7, WidthAssumption
<1> QED
  BY <1>1, <1>8

(* VectorGet: Get returns the element of the sequence at its index, and    *)
(* nil for an index outside of it.                                         *)
THEOREM VectorGetCorrect ==
    ASSUME NEW h, NEW v, NEW s, Represents(h, v, s), NEW i \in Int
    PROVE  VectorGet(h, v, i) = IF i \in 0..(Len(s) - 1) THEN s[i + 1] ELSE nil
<1>1. Shape(h, v, s) /\ v.count = Len(s)
  BY DEF Represents, Shape
<1>2. PICK node : IsLayout(h, v, s, node)
  BY DEF Represents
<1>3. v.count \in Nat /\ TailOffset(v) \in Nat /\ TailOffset(v) <= v.count
  BY <1>1, ShapeProperties
<1>4. CASE i < 0 \/ i >= v.count
  <2>1. VectorGet(h, v, i) = nil
    BY <1>4 DEF VectorGet
  <2>2. i \notin 0..(Len(s) - 1)
    BY <1>1, <1>3, <1>4
  <2> QED
    BY <2>1, <2>2
<1>5. CASE i >= TailOffset(v) /\ i < v.count
  <2>1. PICK c : c \in 1..(v.count - TailOffset(v)) /\ c = i - TailOffset(v) + 1 /\ TailOffset(v) + c = i + 1
    BY <1>3, <1>5
  <2>2. h[v.tail][c] = s[TailOffset(v) + c]
    BY <1>1, <2>1 DEF Shape
  <2>3. VectorGet(h, v, i) = h[v.tail][c]
    BY <1>3, <1>5, <2>1 DEF VectorGet
  <2> QED
    BY <1>1, <1>3, <1>5, <2>1, <2>2, <2>3
<1>6. CASE i >= 0 /\ i < TailOffset(v)
  <2>1. i \in Nat /\ i \in 0..(TailOffset(v) - 1)
    BY <1>3, <1>6
  <2>2. Quotient(i, v.shift + 1) = 0
    BY <1>1, <2>1 DEF Shape
  <2>3. Trail(h, v, i) = [l \in 0..v.shift |-> node[l][Quotient(i, l + 1)]]
    BY <1>1, <1>2, <2>1, <2>2, TrailIs
  <2>4. 0 \in 0..v.shift
    BY <1>1, ShapeProperties
  <2>5. PICK q \in Nat : q = Quotient(i, 0 + 1) /\ q = i \div width
    BY <2>1, QuotientLow
  <2>6. Trail(h, v, i)[0] = node[0][q]
    BY <2>3, <2>4, <2>5
  <2>7. node[0][q] # nil
    BY <1>2, <2>1, <2>4, <2>5 DEF IsLayout, Covers, Branches, Leaves
  <2>8. PICK d \in 0..(width - 1) : d = Digit(i, 0) /\ i = width * q + d
    <3>1. i % width \in 0..(width - 1) /\ i = width * (i \div width) + (i % width)
      BY <2>1, DivMod, WidthAssumption
    <3> QED
      BY <2>1, <2>5, <3>1, QuotientLow
  <2>9. h[node[0][q]][d + 1] = s[width * q + (d + 1)]
    <3>1. d + 1 \in 1..width
      BY WidthAssumption
    <3> QED
      BY <1>2, <2>7, <3>1 DEF IsLayout, Covers, Branches, Leaves
  <2>10. width * q + (d + 1) = i + 1
    BY <2>8, WidthAssumption
  <2>11. VectorGet(h, v, i) = h[Trail(h, v, i)[0]][Digit(i, 0) + 1]
    BY <1>3, <1>6 DEF VectorGet
  <2> QED
    BY <1>1, <1>3, <1>6, <2>6, <2>8, <2>9, <2>10, <2>11
<1> QED
  BY <1>3, <1>4, <1>5, <1>6

(* VectorElements: ToSlice returns the sequence.                           *)
THEOREM VectorElementsCorrect ==
    ASSUME NEW h, NEW v, NEW s, Represents(h, v, s)
    PROVE  VectorElements(h, v) = s
<1>1. v.count = Len(s) /\ IsSeq(s) /\ Len(s) \in Nat
  BY SeqProperties DEF Represents, Shape
<1>2. ASSUME NEW i \in 1..Len(s) PROVE VectorGet(h, v, i - 1) = s[i]
  <2>1. PICK j \in Int : j = i - 1 /\ j \in 0..(Len(s) - 1) /\ j + 1 = i
    BY <1>1
  <2> QED
    BY <2>1, VectorGetCorrect
<1>3. s = [i \in 1..Len(s) |-> s[i]]
  BY <1>1, SeqProperties
<1> QED
  BY <1>1, <1>2, <1>3 DEF VectorElements

(* A vector is what it was whatever has been put on the heap.              *)
LEMMA LayoutKept ==
    ASSUME NEW g, NEW h, NEW v, NEW s, NEW node, Shape(g, v, s), IsLayout(g, v, s, node), Extends(g, h)
    PROVE  IsLayout(h, v, s, node)
<1>1. Len(g) \in Nat /\ Len(h) \in Nat /\ Len(g) <= Len(h) /\ v.shift \in Nat
  BY ShapeProperties, SeqProperties DEF Extends
<1>2. ASSUME NEW l \in 0..v.shift, NEW q \in Nat PROVE node[l][q] \in 0..Len(g)
  BY DEF IsLayout, Placed
<1>3. ASSUME NEW l \in 0..v.shift, NEW q \in Nat, node[l][q] # nil
      PROVE  h[node[l][q]] = g[node[l][q]]
  <2>1. node[l][q] \in 1..Len(g)
    BY <1>1, <1>2, <1>3 DEF nil
  <2> QED
    BY <2>1 DEF Extends
<1>4. Placed(h, v, node)
  BY <1>1, <1>2 DEF Placed
<1>5. Branches(h, v, node)
  <2>1. \A l \in 1..v.shift : l \in 0..v.shift
    BY <1>1
  <2> QED
    BY <1>3, <2>1 DEF IsLayout, Branches
<1>6. Leaves(h, s, node)
  <2>1. 0 \in 0..v.shift
    BY <1>1
  <2> QED
    BY <1>3, <2>1 DEF IsLayout, Leaves
<1> QED
  BY <1>4, <1>5, <1>6 DEF IsLayout

LEMMA ShapeKept ==
    ASSUME NEW g, NEW h, NEW v, NEW s, Shape(g, v, s), Extends(g, h)
    PROVE  Shape(h, v, s)
<1>1. Len(g) \in Nat /\ Len(h) \in Nat /\ Len(g) <= Len(h) /\ IsSeq(h)
  BY ShapeProperties, SeqProperties DEF Extends
<1>2. v.tail \in 1..Len(g) /\ v.root \in 0..Len(g)
  BY ShapeProperties
<1>3. h[v.tail] = g[v.tail]
  BY <1>2 DEF Extends
<1>4. IsVector(h, v)
  <2>1. 0..Len(g) \subseteq 0..Len(h) /\ 1..Len(g) \subseteq 1..Len(h)
    BY <1>1
  <2> QED
    BY <2>1 DEF Shape, IsVector
<1> QED
  BY <1>1, <1>3, <1>4 DEF Shape

(* Arrays are only ever added to the heap (Extends), so a vector stands    *)
(* for what it stood for whatever is made of it afterwards.                *)
THEOREM Persistence ==
    ASSUME NEW g, NEW h, NEW v, NEW s, Represents(g, v, s), Extends(g, h)
    PROVE  Represents(h, v, s)
<1>1. Shape(g, v, s) /\ Shape(h, v, s)
  BY ShapeKept DEF Represents
<1> QED
  BY <1>1, LayoutKept DEF Represents

(* EmptyVector stands for the empty sequence.                              *)
THEOREM EmptyVectorCorrect ==
    ASSUME NEW h, IsSeq(h)
    PROVE  /\ Represents(EmptyVector(h).heap, EmptyVector(h).vec, << >>)
           /\ Extends(h, EmptyVector(h).heap)
<1> DEFINE g == Alloc(h, << >>).heap
           v == [count |-> 0, shift |-> 1, root |-> nil, tail |-> Len(h) + 1]
           node == [l \in 0..1 |-> [q \in Nat |-> nil]]
<1>1. /\ Extends(h, g) /\ Len(g) = Len(h) + 1 /\ g[Len(h) + 1] = << >>
      /\ Alloc(h, << >>).at = Len(h) + 1
  BY AllocProperties
<1>2. EmptyVector(h).heap = g /\ EmptyVector(h).vec = v
  BY <1>1 DEF EmptyVector
<1>3. TailOffset(v) = 0
  BY WidthAssumption DEF TailOffset
<1>4. Len(h) \in Nat
  BY SeqProperties
<1> HIDE DEF g
<1>5. IsSeq(<< >>) /\ Len(<< >>) = 0
  <2>1. << >> \in Seq({})
    OBVIOUS
  <2> QED
    BY <2>1 DEF IsSeq
<1>6. Shape(g, v, << >>)
  <2>1. IsVector(g, v)
    BY <1>1, <1>4 DEF nil, IsVector
  <2>2. g[v.tail] = [c \in 1..(v.count - TailOffset(v)) |-> << >>[TailOffset(v) + c]]
    <3>1. 1..(v.count - TailOffset(v)) = {}
      BY <1>3
    <3>2. [c \in {} |-> << >>[TailOffset(v) + c]] = << >>
      BY <1>5, SeqProperties
    <3> QED
      BY <1>1, <3>1, <3>2
  <2>3. 0..(TailOffset(v) - 1) = {}
    BY <1>3
  <2>4. IsSeq(g)
    BY <1>1 DEF Extends
  <2> QED
    BY <1>5, <2>1, <2>2, <2>3, <2>4 DEF Shape
<1>7. IsLayout(g, v, << >>, node)
  <2>1. \A l \in 0..1, q \in Nat : node[l][q] = nil
    OBVIOUS
  <2>2. 0..(TailOffset(v) - 1) = {}
    BY <1>3
  <2>3. v.root = nil /\ v.shift = 1
    OBVIOUS
  <2>4. nil \in 0..Len(g)
    BY <1>1, <1>4 DEF nil
  <2>5. 1..1 \subseteq 0..1 /\ 0 \in 0..1
    OBVIOUS
  <2> HIDE DEF node, v
  <2>6. Placed(g, v, node)
    BY <2>1, <2>3, <2>4 DEF Placed
  <2>7. Covers(v, node)
    BY <2>1, <2>2, <2>3 DEF Covers
  <2>8. Branches(g, v, node)
    <3>1. \A l \in 1..v.shift : l \in 0..1
      BY <2>3
    <3> QED
      BY <2>1, <3>1 DEF Branches
  <2>9. Leaves(g, << >>, node)
    BY <2>1, <2>5 DEF Leaves
  <2>10. v.root = node[v.shift][0]
    BY <2>1, <2>3
  <2> QED
    BY <2>6, <2>7, <2>8, <2>9, <2>10 DEF IsLayout
<1> HIDE DEF node, v
<1> QED
  BY <1>1, <1>2, <1>6, <1>7 DEF Represents

(* What only changes the tail leaves the tree the layout it had.           *)
LEMMA LayoutOfTree ==
    ASSUME NEW g, NEW h, NEW v, NEW w, NEW s, NEW t, NEW node,
           Shape(g, v, s), IsLayout(g, v, s, node), Extends(g, h),
           w.root = v.root, w.shift = v.shift, TailOffset(w) = TailOffset(v),
           \A i \in 1..TailOffset(v) : t[i] = s[i]
    PROVE  IsLayout(h, w, t, node)
<1>1. IsLayout(h, v, s, node)
  BY LayoutKept
<1>2. Leaves(h, t, node)
  <2>1. ASSUME NEW q \in Nat, node[0][q] # nil
        PROVE  h[node[0][q]] = [c \in 1..width |-> t[width * q + c]]
    <3>1. width * q + width <= TailOffset(v)
      BY <2>1, LeafInside
    <3>2. TailOffset(v) \in Nat /\ width * q \in Nat /\ width \in Nat
      BY ShapeProperties, WidthAssumption
    <3>3. ASSUME NEW c \in 1..width PROVE t[width * q + c] = s[width * q + c]
      <4>1. PICK k : k = width * q + c
        OBVIOUS
      <4>2. k \in 1..TailOffset(v)
        BY <3>1, <3>2, <4>1
      <4> QED
        BY <4>1, <4>2
    <3>4. h[node[0][q]] = [c \in 1..width |-> s[width * q + c]]
      BY <1>1, <2>1 DEF IsLayout, Leaves
    <3> QED
      BY <3>3, <3>4
  <2> QED
    BY <2>1 DEF Leaves
<1>3. Placed(h, w, node) /\ Covers(w, node) /\ Branches(h, w, node)
  <2>1. Placed(h, v, node) /\ Covers(v, node) /\ Branches(h, v, node)
    BY <1>1 DEF IsLayout
  <2>2. Placed(h, w, node)
    BY <2>1 DEF Placed
  <2>3. Covers(w, node)
    BY <2>1 DEF Covers
  <2>4. Branches(h, w, node)
    BY <2>1 DEF Branches
  <2> QED
    BY <2>2, <2>3, <2>4
<1>4. w.root = node[w.shift][0]
  BY <1>1 DEF IsLayout
<1> QED
  BY <1>2, <1>3, <1>4 DEF IsLayout

(* VectorUpdate of an element in the tail.                                 *)
LEMMA UpdateTail ==
    ASSUME NEW h, NEW v, NEW s, Represents(h, v, s), NEW i \in Nat, NEW x,
           TailOffset(v) <= i, i < v.count
    PROVE  LET r == VectorUpdate(h, v, i, x)
           IN  Represents(r.heap, r.vec, [s EXCEPT ![i + 1] = x]) /\ Extends(h, r.heap)
<1>1. PICK node : Shape(h, v, s) /\ IsLayout(h, v, s, node)
  BY DEF Represents
<1> DEFINE T == TailOffset(v)
           array == [h[v.tail] EXCEPT ![i - T + 1] = x]
           g == Alloc(h, array).heap
           w == [v EXCEPT !.tail = Len(h) + 1]
           t == [s EXCEPT ![i + 1] = x]
<1>2. /\ Len(h) \in Nat /\ v.count \in Nat /\ T \in Nat /\ v.count - T \in Nat
      /\ IsSeq(h[v.tail]) /\ Len(h[v.tail]) = v.count - T
  BY <1>1, ShapeProperties
<1>3. /\ IsSeq(h) /\ IsSeq(s) /\ v.count = Len(s)
      /\ IsVector(h, v)
      /\ h[v.tail] = [c \in 1..(v.count - T) |-> s[T + c]]
      /\ \A j \in 0..(T - 1) : Quotient(j, v.shift + 1) = 0
  BY <1>1 DEF Shape
<1>4. /\ Extends(h, g) /\ Len(g) = Len(h) + 1 /\ g[Len(h) + 1] = array
      /\ Alloc(h, array).at = Len(h) + 1
  BY <1>3, AllocProperties
<1>5. VectorUpdate(h, v, i, x) = [heap |-> g, vec |-> w]
  <2>1. ~ (i < 0 \/ i >= v.count) /\ i >= TailOffset(v)
    BY <1>2
  <2> QED
    BY <1>4, <2>1 DEF VectorUpdate, CopyWith
<1>6. i + 1 \in 1..Len(s) /\ i - T + 1 \in 1..Len(h[v.tail])
  BY <1>2, <1>3
<1> HIDE DEF array, g
<1>7. IsSeq(t) /\ Len(t) = Len(s) /\ \A j \in 1..Len(s) : t[j] = IF j = i + 1 THEN x ELSE s[j]
  <2>1. PICK k \in 1..Len(s) : k = i + 1
    BY <1>6
  <2>2. t = [s EXCEPT ![k] = x]
    BY <2>1
  <2>3. Len(s) \in Nat /\ DOMAIN s = 1..Len(s)
    BY <1>3, SeqProperties
  <2> HIDE DEF t
  <2>4. DOMAIN t = 1..Len(s) /\ t = [j \in 1..Len(s) |-> t[j]]
    BY <2>2, <2>3
  <2>5. \A j \in 1..Len(s) : t[j] = IF j = k THEN x ELSE s[j]
    BY <2>2, <2>3
  <2>6. IsSeq(t) /\ Len(t) = Len(s)
    BY <2>3, <2>4, SeqOfFunction
  <2> QED
    BY <2>1, <2>5, <2>6
<1>8. /\ w.count = v.count /\ w.root = v.root /\ w.shift = v.shift /\ w.tail = Len(h) + 1
      /\ IsVector(g, w)
  <2>1. v.root \in 0..Len(g) /\ Len(h) + 1 \in 1..Len(g) /\ v.count + 1 \in Nat
    BY <1>2, <1>3, <1>4 DEF IsVector
  <2> HIDE DEF T, array, t
  <2> QED
    BY <1>3, <2>1 DEF IsVector
<1>9. TailOffset(w) = T
  BY <1>8 DEF TailOffset
<1>10. array = [c \in 1..(v.count - T) |-> t[T + c]]
  <2>1. IsSeq(array) /\ Len(array) = v.count - T
        /\ \A c \in 1..(v.count - T) : array[c] = IF c = i - T + 1 THEN x ELSE h[v.tail][c]
    <3>1. PICK j \in 1..Len(h[v.tail]) : j = i - T + 1
      BY <1>6
    <3>2. array = [h[v.tail] EXCEPT ![j] = x]
      BY <3>1 DEF array
    <3>3. PICK n, b : n \in Nat /\ n = v.count - T /\ b = h[v.tail] /\ DOMAIN b = 1..n
      BY <1>2, SeqProperties
    <3>4. DOMAIN array = 1..n /\ array = [c \in 1..n |-> array[c]]
      BY <3>2, <3>3
    <3>5. \A c \in 1..n : array[c] = IF c = j THEN x ELSE b[c]
      BY <3>2, <3>3
    <3>6. IsSeq(array) /\ Len(array) = n
      BY <3>3, <3>4, SeqOfFunction
    <3> QED
      BY <3>1, <3>3, <3>5, <3>6
  <2>2. ASSUME NEW c \in 1..(v.count - T) PROVE array[c] = t[T + c]
    <3>1. PICK k : k = T + c
      OBVIOUS
    <3>2. k \in 1..Len(s) /\ (c = i - T + 1 <=> k = i + 1)
      BY <1>2, <1>3, <3>1
    <3>3. h[v.tail][c] = s[k]
      BY <1>3, <3>1
    <3> QED
      BY <1>7, <2>1, <3>1, <3>2, <3>3
  <2>3. array = [c \in 1..(v.count - T) |-> array[c]]
    BY <2>1, SeqProperties
  <2> QED
    BY <2>2, <2>3
<1> HIDE DEF w, t, T
<1>11. Shape(g, w, t)
  BY <1>3, <1>4, <1>7, <1>8, <1>9, <1>10 DEF Shape, Extends
<1>12. IsLayout(g, w, t, node)
  <2>1. \A j \in 1..T : t[j] = s[j]
    <3>1. \A j \in 1..T : j \in 1..Len(s) /\ j # i + 1
      BY <1>2, <1>3 DEF T
    <3> QED
      BY <1>7, <3>1
  <2> QED
    BY <1>1, <1>4, <1>8, <1>9, <2>1, LayoutOfTree DEF T
<1>13. Represents(g, w, t) /\ Extends(h, g)
  BY <1>4, <1>11, <1>12 DEF Represents
<1> QED
  BY <1>5, <1>13 DEF t

(* VectorAppend to a tail that has room.                                   *)
LEMMA AppendToTail ==
    ASSUME NEW h, NEW v, NEW s, Represents(h, v, s), NEW x, Len(h[v.tail]) < width
    PROVE  LET r == VectorAppend(h, v, x)
           IN  Represents(r.heap, r.vec, Append(s, x)) /\ Extends(h, r.heap)
<1>1. PICK node : Shape(h, v, s) /\ IsLayout(h, v, s, node)
  BY DEF Represents
<1> DEFINE T == TailOffset(v)
           array == Append(h[v.tail], x)
           g == Alloc(h, array).heap
           w == [v EXCEPT !.count = @ + 1, !.tail = Len(h) + 1]
           t == Append(s, x)
<1>2. /\ Len(h) \in Nat /\ v.count \in Nat /\ T \in Nat /\ v.count - T \in Nat /\ T <= v.count
      /\ IsSeq(h[v.tail]) /\ Len(h[v.tail]) = v.count - T
  BY <1>1, ShapeProperties
<1>3. /\ IsSeq(h) /\ IsSeq(s) /\ v.count = Len(s)
      /\ IsVector(h, v)
      /\ h[v.tail] = [c \in 1..(v.count - T) |-> s[T + c]]
      /\ \A j \in 0..(T - 1) : Quotient(j, v.shift + 1) = 0
  BY <1>1 DEF Shape
<1>4. /\ Extends(h, g) /\ Len(g) = Len(h) + 1 /\ g[Len(h) + 1] = array
      /\ Alloc(h, array).at = Len(h) + 1
  BY <1>3, AllocProperties
<1>5. VectorAppend(h, v, x) = [heap |-> g, vec |-> w]
  BY <1>4 DEF VectorAppend
<1> HIDE DEF g
<1>7. /\ IsSeq(t) /\ Len(t) = Len(s) + 1
      /\ \A j \in 1..Len(s) : t[j] = s[j]
      /\ t[Len(s) + 1] = x
  BY <1>3, AppendToSeq
<1>8. /\ w.count = v.count + 1 /\ w.root = v.root /\ w.shift = v.shift /\ w.tail = Len(h) + 1
      /\ IsVector(g, w)
  <2>1. v.root \in 0..Len(g) /\ Len(h) + 1 \in 1..Len(g) /\ v.count + 1 \in Nat
    BY <1>2, <1>3, <1>4 DEF IsVector
  <2> HIDE DEF T, array, t
  <2> QED
    BY <1>3, <2>1 DEF IsVector
<1>9. TailOffset(w) = T
  <2>1. PICK K \in Nat : T = width * K
    BY <1>2, TailOffsetProperties
  <2>2. width * K < v.count + 1 /\ v.count + 1 <= width * K + width
    BY <1>2, <2>1, WidthAssumption
  <2>3. PICK n \in Nat : n = v.count + 1
    BY <1>2
  <2> QED
    BY <1>8, <2>1, <2>2, <2>3, TailOffsetIs
<1>10. array = [c \in 1..((v.count + 1) - T) |-> t[T + c]]
  <2>1. /\ IsSeq(array) /\ Len(array) = v.count - T + 1
        /\ \A c \in 1..(v.count - T) : array[c] = h[v.tail][c]
        /\ array[v.count - T + 1] = x
    BY <1>2, AppendToSeq DEF array
  <2>2. ASSUME NEW c \in 1..((v.count + 1) - T) PROVE array[c] = t[T + c]
    <3>1. PICK k : k = T + c
      OBVIOUS
    <3>2. CASE c = v.count - T + 1
      BY <1>2, <1>3, <1>7, <2>1, <3>1, <3>2
    <3>3. CASE c # v.count - T + 1
      <4>1. c \in 1..(v.count - T) /\ k \in 1..Len(s)
        BY <1>2, <1>3, <3>1, <3>3
      <4>2. h[v.tail][c] = s[k]
        BY <1>3, <3>1, <4>1
      <4> QED
        BY <1>7, <2>1, <3>1, <4>1, <4>2
    <3> QED
      BY <3>2, <3>3
  <2>3. array = [c \in 1..((v.count + 1) - T) |-> array[c]]
    <3>1. Len(array) = (v.count + 1) - T
      BY <1>2, <2>1
    <3> QED
      BY <2>1, <3>1, SeqProperties
  <2> QED
    BY <2>2, <2>3
<1> HIDE DEF w, t, T, array
<1>11. Shape(g, w, t)
  <2>1. g[w.tail] = [c \in 1..(w.count - TailOffset(w)) |-> t[TailOffset(w) + c]]
    <3>1. w.count - TailOffset(w) = (v.count + 1) - T
      <4>1. w.count = v.count + 1 /\ TailOffset(w) = T
        BY <1>8, <1>9
      <4> QED
        BY <4>1
    <3>2. g[w.tail] = array
      BY <1>4, <1>8
    <3> QED
      BY <1>9, <1>10, <3>1, <3>2
  <2>2. w.count = Len(t)
    BY <1>3, <1>7, <1>8
  <2> QED
    BY <1>3, <1>4, <1>7, <1>8, <1>9, <2>1, <2>2 DEF Shape, Extends
<1>12. IsLayout(g, w, t, node)
  <2>1. \A j \in 1..T : t[j] = s[j]
    <3>1. \A j \in 1..T : j \in 1..Len(s)
      BY <1>2, <1>3
    <3> QED
      BY <1>7, <3>1
  <2> QED
    BY <1>1, <1>4, <1>8, <1>9, <2>1, LayoutOfTree DEF T
<1>13. Represents(g, w, t) /\ Extends(h, g)
  BY <1>4, <1>11, <1>12 DEF Represents
<1> QED
  BY <1>5, <1>13 DEF t

(* The child of array q at c is the one on the way to n just if q is and c *)
(* is the digit of n.                                                      *)
LEMMA SameChild ==
    ASSUME NEW n \in Nat, NEW l \in Nat, NEW q \in Nat, NEW c \in 1..width
    PROVE  /\ width * q + (c - 1) \in Nat
           /\ width * q + (c - 1) = Quotient(n, l) <=> (q = Quotient(n, l + 1) /\ c = Digit(n, l) + 1)
<1>1. PICK a, b, d : a = Quotient(n, l) /\ b = Quotient(n, l + 1) /\ d = Digit(n, l)
  OBVIOUS
<1>2. a \in Nat /\ b \in Nat /\ d \in 0..(width - 1) /\ a = width * b + d
  BY <1>1, QuotientSteps
<1>3. PICK e \in 0..(width - 1) : e = c - 1
  BY WidthAssumption
<1>4. width * q \in Nat /\ width * b \in Nat
  BY <1>2, WidthAssumption
<1>5. width * q + e = a => q = b /\ e = d
  BY <1>2, Unique, WidthAssumption
<1>6. q = b /\ e = d => width * q + e = a
  BY <1>2
<1>7. e = d <=> c = d + 1
  BY <1>2, <1>3, WidthAssumption
<1>8. width * q + e \in Nat
  BY <1>4, WidthAssumption
<1> QED
  BY <1>1, <1>3, <1>5, <1>6, <1>7, <1>8

(* The indices of a full tail share the way down to the array they fill.   *)
LEMMA TailTogether ==
    ASSUME NEW K \in Nat, NEW n \in Nat, n = width * K + (width - 1),
           NEW i \in Nat, width * K <= i, i <= n, NEW l \in Nat
    PROVE  Quotient(i, l + 1) = Quotient(n, l + 1)
<1>1. width * K \in Nat /\ width - 1 \in 0..(width - 1)
  BY WidthAssumption
<1>2. PICK d \in 0..(width - 1) : i = width * K + d
  <2>1. i - width * K \in 0..(width - 1) /\ i = width * K + (i - width * K)
    BY <1>1, WidthAssumption
  <2> QED
    BY <2>1
<1>3. Quotient(i, 1) = K
  BY <1>2, QuotientLow, Division, WidthAssumption
<1>4. Quotient(n, 1) = K
  BY <1>1, QuotientLow, Division, WidthAssumption
<1>5. PICK m \in Nat : m = l + 1 /\ 1 <= m
  OBVIOUS
<1> QED
  BY <1>3, <1>4, <1>5, QuotientAgree

(* A level that gets a full tail has one array for it, which may be there  *)
(* already.                                                                *)
LEMMA Covering ==
    ASSUME NEW K \in Nat, NEW n \in Nat, n = width * K + (width - 1), NEW l \in Nat, NEW q
    PROVE  (\E i \in 0..n : Quotient(i, l + 1) = q) <=>
             \/ \E i \in 0..(width * K - 1) : Quotient(i, l + 1) = q
             \/ q = Quotient(n, l + 1)
<1>1. width * K \in Nat /\ n \in 0..n
  BY WidthAssumption
<1>2. ASSUME NEW i \in 0..n, i \notin 0..(width * K - 1) PROVE Quotient(i, l + 1) = Quotient(n, l + 1)
  <2>1. i \in Nat /\ width * K <= i /\ i <= n
    BY <1>1, <1>2
  <2> QED
    BY <2>1, TailTogether
<1>3. 0..(width * K - 1) \subseteq 0..n
  BY <1>1, WidthAssumption
<1> QED
  BY <1>1, <1>2, <1>3

(* A tail that finds no array of a level on its way is the first there.    *)
LEMMA ZeroDigit ==
    ASSUME NEW K \in Nat, NEW n \in Nat, n = width * K + (width - 1), NEW l \in Nat \ {0},
           ~ \E i \in 0..(width * K - 1) : Quotient(i, l + 1) = Quotient(n, l + 1)
    PROVE  Digit(n, l) = 0
<1>1. SUFFICES ASSUME Digit(n, l) # 0 PROVE FALSE
  OBVIOUS
<1>2. PICK m \in Nat : m = n - Power[l] /\ Quotient(m, l + 1) = Quotient(n, l + 1)
  BY <1>1, QuotientBelow
<1>3. Power[l] >= width
  <2>1. PICK k \in Nat : k + 1 = l
    <3>1. l - 1 \in Nat /\ (l - 1) + 1 = l
      OBVIOUS
    <3> QED
      BY <3>1
  <2>2. PICK P \in Nat \ {0} : P = Power[k] /\ Power[k + 1] = width * P
    BY PowerSteps
  <2>3. width * P >= width
    BY WidthAssumption
  <2> QED
    BY <2>1, <2>2, <2>3
<1>4. m \in 0..(width * K - 1)
  <2>1. PICK P \in Nat : P = Power[l]
    BY PowerSteps
  <2>2. width * K \in Nat
    BY WidthAssumption
  <2> QED
    BY <1>2, <1>3, <2>1, <2>2, WidthAssumption
<1> QED
  BY <1>2, <1>4

(* The layout of a tree in which the arrays up[0], up[1], ... are the way  *)
(* to index n.                                                             *)
Grown(node, n, up) ==
    [l \in Nat |-> [q \in Nat |-> IF q = Quotient(n, l + 1) THEN up[l] ELSE node[l][q]]]

(* An array of a node.                                                     *)
IsArray(a) == a = [c \in 1..width |-> a[c]]

(* The elements of s from index width * K on.                              *)
HoldsFrom(array, s, K) == IsArray(array) /\ \A c \in 1..width : array[c] = s[width * K + c]

(* The tail is full, from index width * K to n.                            *)
Full(v, K, n) ==
    TailOffset(v) = width * K /\ n = width * K + (width - 1) /\ v.count = n + 1

(* up is where g has the way to index n, copied or new, its lowest array   *)
(* with the elements of s from width * K on.                               *)
Grows(g, s, v, node, K, n, up) ==
    /\ \A l \in 0..v.shift : up[l] \in 1..Len(g) /\ IsArray(g[up[l]])
    /\ HoldsFrom(g[up[0]], s, K)
    /\ \A l \in 1..v.shift, c \in 1..width :
          g[up[l]][c] = IF c = Digit(n, l) + 1 THEN up[l - 1]
                        ELSE node[l - 1][width * Quotient(n, l + 1) + (c - 1)]

(* t begins with the elements of s.                                        *)
Continues(t, s) == \A i \in 1..Len(s) : t[i] = s[i]

(* The arrays that u has are those of v and those on the way to index n.   *)
CoversMore(u, v, n) ==
    \A l \in 0..v.shift, q \in Nat :
       (\E i \in 0..(TailOffset(u) - 1) : Quotient(i, l + 1) = q) <=>
         \/ \E i \in 0..(TailOffset(v) - 1) : Quotient(i, l + 1) = q
         \/ q = Quotient(n, l + 1)

(* The elements of the tree of v that are not in the same array as n.      *)
SameElsewhere(t, s, v, n) ==
    \A q \in Nat, c \in 1..width :
       q # Quotient(n, 1) /\ width * q + width <= TailOffset(v) => t[width * q + c] = s[width * q + c]

(* What both ways of changing a tree do to it: the arrays of the way to n  *)
(* replace those that were there, and the others keep their place.  Append *)
(* and Update only differ in what they put in the lowest one.              *)
LEMMA GrownLayout ==
    ASSUME NEW h, NEW v, NEW s, NEW node, Shape(h, v, s), IsLayout(h, v, s, node),
           NEW K \in Nat, NEW n \in Nat, K = Quotient(n, 1), NEW g, Extends(h, g),
           NEW t, NEW up, Grows(g, t, v, node, K, n, up), SameElsewhere(t, s, v, n),
           NEW u, u.shift = v.shift, CoversMore(u, v, n)
    PROVE  /\ Placed(g, u, Grown(node, n, up))
           /\ Covers(u, Grown(node, n, up))
           /\ Branches(g, u, Grown(node, n, up))
           /\ Leaves(g, t, Grown(node, n, up))
<1> DEFINE G == Grown(node, n, up)
<1>1. v.shift \in Nat /\ Len(h) \in Nat /\ Len(g) \in Nat /\ width \in Nat /\ width * K \in Nat
  BY ShapeProperties, SeqProperties, WidthAssumption DEF Extends
<1>2. \A l, q \in Nat : G[l][q] = IF q = Quotient(n, l + 1) THEN up[l] ELSE node[l][q]
  BY DEF Grown
<1>3. IsLayout(g, v, s, node)
  BY LayoutKept
<1> HIDE DEF G
<1>4. Placed(g, u, G)
  <2>1. ASSUME NEW l \in 0..v.shift, NEW q \in Nat PROVE G[l][q] \in 0..Len(g)
    <3>1. l \in Nat
      BY <1>1
    <3>2. up[l] \in 0..Len(g)
      BY DEF Grows
    <3>3. node[l][q] \in 0..Len(g)
      BY <1>3 DEF IsLayout, Placed
    <3> QED
      BY <3>1, <3>2, <3>3, <1>2
  <2> QED
    BY <2>1 DEF Placed
<1>5. Covers(u, G)
  <2>1. ASSUME NEW l \in 0..v.shift, NEW q \in Nat
        PROVE  G[l][q] # nil <=> \E i \in 0..(TailOffset(u) - 1) : Quotient(i, l + 1) = q
    <3>1. l \in Nat
      BY <1>1
    <3>2. up[l] # nil
      BY DEF Grows, nil
    <3>3. node[l][q] # nil <=> \E i \in 0..(TailOffset(v) - 1) : Quotient(i, l + 1) = q
      BY <1>3 DEF IsLayout, Covers
    <3>4. (\E i \in 0..(TailOffset(u) - 1) : Quotient(i, l + 1) = q) <=>
             \/ \E i \in 0..(TailOffset(v) - 1) : Quotient(i, l + 1) = q
             \/ q = Quotient(n, l + 1)
      BY DEF CoversMore
    <3> QED
      BY <3>1, <3>2, <3>3, <3>4, <1>2
  <2> QED
    BY <2>1 DEF Covers
<1>6. Branches(g, u, G)
  <2>1. ASSUME NEW l \in 1..v.shift, NEW q \in Nat, G[l][q] # nil
        PROVE  g[G[l][q]] = [c \in 1..width |-> G[l - 1][width * q + (c - 1)]]
    <3>1. PICK m \in Nat : m = l - 1 /\ m + 1 = l /\ l \in Nat
      BY <1>1
    <3>2. ASSUME NEW c \in 1..width
          PROVE  /\ width * q + (c - 1) \in Nat
                 /\ G[m][width * q + (c - 1)] =
                      IF q = Quotient(n, l + 1) /\ c = Digit(n, l) + 1 THEN up[m]
                      ELSE node[m][width * q + (c - 1)]
      <4>1. PICK p : p = width * q + (c - 1)
        OBVIOUS
      <4>2. p \in Nat /\ (p = Quotient(n, l) <=> (q = Quotient(n, l + 1) /\ c = Digit(n, l) + 1))
        <5>1. \A j \in Nat, k \in Nat : \A d \in 1..width :
                /\ width * k + (d - 1) \in Nat
                /\ width * k + (d - 1) = Quotient(n, j) <=> (k = Quotient(n, j + 1) /\ d = Digit(n, j) + 1)
          BY SameChild
        <5> QED
          BY <3>1, <4>1, <5>1
      <4>3. G[m][p] = IF p = Quotient(n, l) THEN up[m] ELSE node[m][p]
        BY <1>2, <3>1, <4>2
      <4> QED
        BY <4>1, <4>2, <4>3
    <3>3. CASE q = Quotient(n, l + 1)
      <4>1. G[l][q] = up[l]
        BY <1>2, <3>1, <3>3
      <4>2. IsArray(g[up[l]])
        <5>1. l \in 0..v.shift
          BY <1>1
        <5> QED
          BY <5>1 DEF Grows
      <4>3. ASSUME NEW c \in 1..width PROVE g[up[l]][c] = G[m][width * q + (c - 1)]
        <5>1. g[up[l]][c] = IF c = Digit(n, l) + 1 THEN up[m] ELSE node[m][width * q + (c - 1)]
          BY <3>1, <3>3 DEF Grows
        <5> QED
          BY <3>2, <3>3, <5>1
      <4> QED
        BY <3>1, <4>1, <4>2, <4>3 DEF IsArray
    <3>4. CASE q # Quotient(n, l + 1)
      <4>1. G[l][q] = node[l][q]
        BY <1>2, <3>1, <3>4
      <4>2. g[node[l][q]] = [c \in 1..width |-> node[l - 1][width * q + (c - 1)]]
        BY <1>3, <2>1, <4>1 DEF IsLayout, Branches
      <4>3. \A c \in 1..width : G[m][width * q + (c - 1)] = node[m][width * q + (c - 1)]
        BY <3>2, <3>4
      <4> QED
        BY <3>1, <4>1, <4>2, <4>3
    <3> QED
      BY <3>3, <3>4
  <2> QED
    BY <2>1 DEF Branches
<1>7. Leaves(g, t, G)
  <2>1. ASSUME NEW q \in Nat, G[0][q] # nil
        PROVE  g[G[0][q]] = [c \in 1..width |-> t[width * q + c]]
    <3>1. G[0][q] = IF q = K THEN up[0] ELSE node[0][q]
      <4>1. Quotient(n, 0 + 1) = K
        OBVIOUS
      <4> QED
        BY <1>2, <4>1
    <3>2. CASE q = K
      <4>1. 0 \in 0..v.shift
        BY <1>1
      <4>2. PICK a : a = g[up[0]] /\ a = g[G[0][q]]
        BY <3>1, <3>2
      <4>3. IsArray(a) /\ \A c \in 1..width : a[c] = t[width * q + c]
        BY <3>2, <4>1, <4>2 DEF Grows, HoldsFrom
      <4>4. a = [c \in 1..width |-> a[c]]
        BY <4>3 DEF IsArray
      <4> QED
        BY <4>2, <4>3, <4>4
    <3>3. CASE q # K
      <4>1. width * q + width <= TailOffset(v)
        BY <2>1, <3>1, <3>3, LeafInside
      <4>2. g[node[0][q]] = [c \in 1..width |-> s[width * q + c]]
        BY <1>3, <2>1, <3>1, <3>3 DEF IsLayout, Leaves
      <4>3. \A c \in 1..width : t[width * q + c] = s[width * q + c]
        BY <3>3, <4>1 DEF SameElsewhere
      <4> QED
        BY <3>1, <3>3, <4>2, <4>3
    <3> QED
      BY <3>2, <3>3
  <2> QED
    BY <2>1 DEF Leaves
<1> QED
  BY <1>4, <1>5, <1>6, <1>7 DEF G

(* The layout after a full tail has been put in the tree.                  *)
LEMMA PushedLayout ==
    ASSUME NEW h, NEW v, NEW s, NEW node, Shape(h, v, s), IsLayout(h, v, s, node),
           NEW K \in Nat, NEW n \in Nat, Full(v, K, n),
           NEW g, Extends(h, g), NEW up, Grows(g, s, v, node, K, n, up),
           NEW t, Continues(t, s), NEW u, u.shift = v.shift, TailOffset(u) = n + 1
    PROVE  /\ Placed(g, u, Grown(node, n, up))
           /\ Covers(u, Grown(node, n, up))
           /\ Branches(g, u, Grown(node, n, up))
           /\ Leaves(g, t, Grown(node, n, up))
<1>1. /\ TailOffset(v) = width * K /\ n = width * K + (width - 1) /\ v.count = n + 1
      /\ width \in Nat \ {0} /\ width * K \in Nat /\ v.shift \in Nat
  BY ShapeProperties, WidthAssumption DEF Full
<1>2. K = Quotient(n, 1)
  <2>1. width - 1 \in 0..(width - 1)
    BY <1>1
  <2>2. n \div width = K
    BY <1>1, <2>1, Division
  <2> QED
    BY <2>2, QuotientLow
<1>3. ASSUME NEW q \in Nat, NEW c \in 1..width, width * q + width <= n + 1
      PROVE  t[width * q + c] = s[width * q + c]
  <2>1. PICK k : k = width * q + c
    OBVIOUS
  <2>2. width * q \in Nat
    BY <1>1
  <2>3. v.count = Len(s)
    BY DEF Shape
  <2>4. k \in 1..v.count
    BY <1>1, <1>3, <2>1, <2>2
  <2> QED
    BY <2>1, <2>3, <2>4 DEF Continues
<1>4. CoversMore(u, v, n)
  <2>1. ASSUME NEW l \in 0..v.shift, NEW q \in Nat
        PROVE  (\E i \in 0..n : Quotient(i, l + 1) = q) <=>
                 \/ \E i \in 0..(width * K - 1) : Quotient(i, l + 1) = q
                 \/ q = Quotient(n, l + 1)
    <3>1. l \in Nat
      BY <1>1
    <3>2. \A k \in Nat : \A p : (\E i \in 0..n : Quotient(i, k + 1) = p) <=>
             \/ \E i \in 0..(width * K - 1) : Quotient(i, k + 1) = p
             \/ p = Quotient(n, k + 1)
      BY <1>1, Covering
    <3> QED
      BY <3>1, <3>2
  <2>2. 0..(TailOffset(u) - 1) = 0..n
    OBVIOUS
  <2> QED
    BY <1>1, <2>1, <2>2 DEF CoversMore
<1>5. SameElsewhere(t, s, v, n)
  <2>1. ASSUME NEW q \in Nat, NEW c \in 1..width, width * q + width <= TailOffset(v)
        PROVE  t[width * q + c] = s[width * q + c]
    <3>1. width * q + width <= n + 1
      <4>1. width * q \in Nat
        BY <1>1
      <4> QED
        BY <1>1, <2>1, <4>1
    <3> QED
      BY <1>3, <3>1
  <2> QED
    BY <2>1 DEF SameElsewhere
<1>6. Grows(g, t, v, node, K, n, up)
  <2>1. HoldsFrom(g[up[0]], t, K)
    <3>1. width * K + width <= n + 1
      BY <1>1
    <3> QED
      BY <1>3, <3>1 DEF Grows, HoldsFrom
  <2> QED
    BY <2>1 DEF Grows
<1> QED
  BY <1>2, <1>4, <1>5, <1>6, GrownLayout

(* A tail without room for another element is full.                        *)
LEMMA FullTail ==
    ASSUME NEW h, NEW v, NEW s, Shape(h, v, s), ~ (Len(h[v.tail]) < width)
    PROVE  \E K \in Nat, n \in Nat : Full(v, K, n) /\ HoldsFrom(h[v.tail], s, K)
<1>1. PICK K \in Nat : TailOffset(v) = width * K /\ width * K \in Nat
  BY TailOffsetProperties, ShapeProperties
<1>2. v.count \in Nat /\ v.count - TailOffset(v) = width
  BY ShapeProperties, WidthAssumption
<1>3. PICK n \in Nat : n = width * K + (width - 1)
  BY <1>1, WidthAssumption
<1>4. v.count = n + 1
  BY <1>1, <1>2, <1>3, WidthAssumption
<1>5. h[v.tail] = [c \in 1..width |-> s[width * K + c]]
  BY <1>1, <1>2 DEF Shape
<1>6. HoldsFrom(h[v.tail], s, K)
  BY <1>5 DEF HoldsFrom, IsArray
<1> QED
  BY <1>1, <1>3, <1>4, <1>6 DEF Full

(* The test of the code for a new root is exact: the tree has no place for *)
(* the tail.                                                               *)
LEMMA Overflow ==
    ASSUME NEW h, NEW v, NEW s, Shape(h, v, s), NEW K \in Nat, NEW n \in Nat, Full(v, K, n)
    PROVE  Quotient(n, v.shift + 1) = IF RootOverflow(v) THEN 1 ELSE 0
<1>0. TailOffset(v) = width * K /\ n = width * K + (width - 1) /\ v.count = n + 1
  BY DEF Full
<1>1. v.shift \in Nat
  BY ShapeProperties
<1>2. PICK P \in Nat \ {0}, R \in Nat \ {0} : P = Power[v.shift] /\ R = Power[v.shift + 1] /\ R = width * P
  <2>1. PICK k \in Nat, l \in Nat : k = v.shift /\ l = v.shift + 1 /\ l = k + 1
    BY <1>1
  <2>2. Power[k] \in Nat \ {0} /\ Power[l] \in Nat \ {0} /\ Power[l] = width * Power[k]
    BY <2>1, PowerSteps
  <2> QED
    BY <2>1, <2>2
<1>3. v.count \div width = K + 1
  <2>1. width * (K + 1) = width * K + width
    BY WidthAssumption
  <2>2. v.count = width * (K + 1) + 0 /\ 0 \in 0..(width - 1)
    BY <1>0, <2>1, WidthAssumption
  <2>3. PICK k \in Nat : k = K + 1
    OBVIOUS
  <2> QED
    BY <2>2, <2>3, Division, WidthAssumption
<1>4. RootOverflow(v) <=> K >= P
  BY <1>2, <1>3 DEF RootOverflow
<1>5. CASE K < P
  <2>1. width * (K + 1) <= width * P /\ width * (K + 1) = width * K + width
    BY <1>5, WidthAssumption
  <2>2. n \in 0..(R - 1) /\ n = R * 0 + n
    BY <1>0, <1>2, <2>1, WidthAssumption
  <2>3. n \div R = 0
    BY <2>2, Division
  <2> QED
    BY <1>2, <1>4, <1>5, <2>3 DEF Quotient
<1>6. CASE K >= P
  <2>1. width * K >= width * P /\ width * P \in Nat /\ width * K \in Nat
    BY <1>6, WidthAssumption
  <2>2. PICK m \in Nat : m = width * K - 1
    BY <1>2, <2>1
  <2>3. m \in 0..(TailOffset(v) - 1)
    BY <1>0, <2>1, <2>2
  <2>4. m \div R = 0
    BY <1>2, <2>3 DEF Shape, Quotient
  <2>5. m < R
    BY <2>4, DivMod
  <2>6. K = P
    <3>1. width * K <= width * P
      BY <1>2, <2>1, <2>2, <2>5
    <3>2. K > P => width * K >= width * (P + 1) /\ width * (P + 1) = width * P + width
      BY WidthAssumption
    <3> QED
      BY <1>6, <2>1, <3>1, <3>2, WidthAssumption
  <2>7. n = R * 1 + (width - 1) /\ width - 1 \in 0..(R - 1)
    BY <1>0, <1>2, <2>6, WidthAssumption
  <2>8. n \div R = 1
    BY <2>7, Division
  <2> QED
    BY <1>2, <1>4, <1>6, <2>8 DEF Quotient
<1> QED
  BY <1>2, <1>5, <1>6

(* Quotients and digits of the level above.                                *)
LEMMA QuotientUp ==
    ASSUME NEW i \in Nat, NEW l \in Nat
    PROVE  Quotient(i, l + 1) \in Nat /\ Digit(i, l) \in 0..(width - 1)
<1>1. PICK m \in Nat : m = l + 1
  OBVIOUS
<1>2. Quotient(i, m) \in Nat
  BY QuotientSteps
<1> QED
  BY <1>1, <1>2, QuotientSteps

(* What is not in the tree has nothing below it.                           *)
LEMMA NoChild ==
    ASSUME NEW h, NEW v, NEW s, NEW node, Shape(h, v, s), IsLayout(h, v, s, node),
           NEW l \in 1..v.shift, NEW q \in Nat, node[l][q] = nil, NEW c \in 1..width
    PROVE  node[l - 1][width * q + (c - 1)] = nil
<1>1. PICK m \in Nat : m = l - 1 /\ m + 1 = l /\ m \in 0..v.shift /\ l \in 0..v.shift /\ l \in Nat
  BY ShapeProperties
<1>2. PICK p \in Nat : p = width * q + (c - 1)
  BY SameChild
<1>3. SUFFICES ASSUME node[m][p] # nil PROVE FALSE
  BY <1>1, <1>2
<1>4. PICK i \in 0..(TailOffset(v) - 1) : Quotient(i, m + 1) = p
  BY <1>1, <1>3 DEF IsLayout, Covers
<1>5. i \in Nat
  BY ShapeProperties
<1>6. Quotient(i, l) = p
  BY <1>1, <1>4
<1>7. \A j \in Nat, k \in Nat : \A d \in 1..width :
        width * k + (d - 1) = Quotient(i, j) => k = Quotient(i, j + 1)
  BY <1>5, SameChild
<1>8. Quotient(i, l + 1) = q
  BY <1>1, <1>2, <1>6, <1>7
<1> QED
  BY <1>1, <1>4, <1>8 DEF IsLayout, Covers

(* The arrays of levels 1, 2, ... on a way to index n that is put on heap  *)
(* h above the array at a.                                                 *)
IsWay(f, h, a, v, node, n) ==
    /\ IsFunction(f, v.shift)
    /\ \A l \in 1..v.shift : IsArray(f[l])
    /\ \A l \in 1..v.shift, c \in 1..width :
          f[l][c] = IF c = Digit(n, l) + 1 THEN Stacked(h, a, l - 1)
                    ELSE node[l - 1][width * Quotient(n, l + 1) + (c - 1)]

(* A new node.                                                             *)
LEMMA BlankIs == IsArray(Blank) /\ \A c \in 1..width : Blank[c] = nil
BY DEF IsArray, Blank

(* None of the arrays on the way to index n is there.                      *)
Unused(node, n, S) == \A l \in 0..S : node[l][Quotient(n, l + 1)] = nil

(* What the two ways of putting a full tail in the tree put on the heap.   *)
PathFor(h, v, a) == NewPath(h, v.shift, a)

(* newPath makes a way of new arrays.                                      *)
LEMMA NewPathIs ==
    ASSUME NEW h, NEW v, NEW s, NEW node, Shape(h, v, s), IsLayout(h, v, s, node),
           NEW K \in Nat, NEW n \in Nat, Full(v, K, n),
           Unused(node, n, v.shift), NEW a
    PROVE  \E f : /\ IsWay(f, h, a, v, node, n)
                  /\ PathFor(h, v, a).heap = h \o f
                  /\ PathFor(h, v, a).at = Stacked(h, a, v.shift)
<1> DEFINE f == [l \in 1..v.shift |-> [Blank EXCEPT ![1] = Stacked(h, a, l - 1)]]
<1>0. TailOffset(v) = width * K /\ n = width * K + (width - 1) /\ v.count = n + 1
  BY DEF Full
<1>1. PathFor(h, v, a).heap = h \o f /\ PathFor(h, v, a).at = Stacked(h, a, v.shift)
  BY DEF PathFor, NewPath
<1>2. ASSUME NEW l \in 1..v.shift
      PROVE  /\ IsArray(f[l])
             /\ \A c \in 1..width :
                   f[l][c] = IF c = Digit(n, l) + 1 THEN Stacked(h, a, l - 1)
                             ELSE node[l - 1][width * Quotient(n, l + 1) + (c - 1)]
  <2>1. l \in Nat /\ l \in Nat \ {0} /\ l \in 0..v.shift
    BY ShapeProperties
  <2>2. Digit(n, l) = 0
    <3>1. node[l][Quotient(n, l + 1)] = nil
      BY <2>1 DEF Unused
    <3>2. Quotient(n, l + 1) \in Nat
      BY <2>1, QuotientUp
    <3>3. ~ \E i \in 0..(width * K - 1) : Quotient(i, l + 1) = Quotient(n, l + 1)
      BY <1>0, <2>1, <3>1, <3>2 DEF IsLayout, Covers
    <3> QED
      BY <1>0, <2>1, <3>3, ZeroDigit
  <2>3. PICK b, y : b = f[l] /\ y = Stacked(h, a, l - 1) /\ b = [Blank EXCEPT ![1] = y]
    OBVIOUS
  <2>4. IsArray(b) /\ \A c \in 1..width : b[c] = IF c = 1 THEN y ELSE nil
    BY <2>3, BlankIs DEF IsArray, Blank
  <2>5. \A c \in 1..width : node[l - 1][width * Quotient(n, l + 1) + (c - 1)] = nil
    <3>1. PICK q \in Nat : q = Quotient(n, l + 1)
      BY <2>1, QuotientUp
    <3>2. node[l][q] = nil
      BY <2>1, <3>1 DEF Unused
    <3>3. \A k \in Nat : node[l][k] = nil => \A c \in 1..width : node[l - 1][width * k + (c - 1)] = nil
      BY NoChild
    <3> QED
      BY <3>1, <3>2, <3>3
  <2> QED
    BY <2>2, <2>3, <2>4, <2>5
<1>3. IsFunction(f, v.shift)
  BY DEF IsFunction
<1> HIDE DEF f
<1>4. IsWay(f, h, a, v, node, n)
  BY <1>2, <1>3 DEF IsWay
<1> QED
  BY <1>1, <1>4

(* pushTail makes a way of copies of the arrays that are there and of new  *)
(* ones.                                                                   *)
LEMMA PushTailIs ==
    ASSUME NEW h, NEW v, NEW s, NEW node, Shape(h, v, s), IsLayout(h, v, s, node),
           NEW K \in Nat, NEW n \in Nat, Full(v, K, n),
           Quotient(n, v.shift + 1) = 0, NEW a
    PROVE  \E f : /\ IsWay(f, h, a, v, node, n)
                  /\ PushTail(h, v, a).heap = h \o f
                  /\ PushTail(h, v, a).at = Stacked(h, a, v.shift)
<1>00. TailOffset(v) = width * K /\ n = width * K + (width - 1) /\ v.count = n + 1
  BY DEF Full
<1>0. Trail(h, v, n) = [l \in 0..v.shift |-> node[l][Quotient(n, l + 1)]]
  <2>1. \A i \in Nat : Quotient(i, v.shift + 1) = 0 =>
          Trail(h, v, i) = [l \in 0..v.shift |-> node[l][Quotient(i, l + 1)]]
    BY TrailIs
  <2> QED
    BY <2>1
<1> DEFINE t == Trail(h, v, v.count - 1)
           Path(l) == LET sub   == Digit(v.count - 1, l) + 1
                          child == Stacked(h, a, l - 1)
                      IN CASE t[l] # nil                 -> [h[t[l]] EXCEPT ![sub] = child]
                           [] t[l] = nil /\ l = v.shift -> [Blank EXCEPT ![sub] = child]
                           [] OTHER                      -> [Blank EXCEPT ![1] = child]
           f == [l \in 1..v.shift |-> Path(l)]
<1>1. PushTail(h, v, a).heap = h \o f /\ PushTail(h, v, a).at = Stacked(h, a, v.shift)
  BY DEF PushTail
<1>2. v.count - 1 = n
  BY <1>00
<1>3. t = [l \in 0..v.shift |-> node[l][Quotient(n, l + 1)]]
  BY <1>0, <1>2
<1> HIDE DEF t
<1>4. ASSUME NEW l \in 1..v.shift
      PROVE  /\ IsArray(f[l])
             /\ \A c \in 1..width :
                   f[l][c] = IF c = Digit(n, l) + 1 THEN Stacked(h, a, l - 1)
                             ELSE node[l - 1][width * Quotient(n, l + 1) + (c - 1)]
  <2>1. l \in Nat /\ l \in Nat \ {0} /\ l \in 0..v.shift
    BY ShapeProperties
  <2>2. PICK q \in Nat, d \in 0..(width - 1) : q = Quotient(n, l + 1) /\ d = Digit(n, l)
    BY <2>1, QuotientUp
  <2>3. t[l] = node[l][q]
    BY <1>3, <2>1, <2>2
  <2>4. PICK b, y, k : b = f[l] /\ y = Stacked(h, a, l - 1) /\ k = d + 1 /\ b = Path(l)
    OBVIOUS
  <2>5. b = CASE t[l] # nil                 -> [h[t[l]] EXCEPT ![k] = y]
              [] t[l] = nil /\ l = v.shift -> [Blank EXCEPT ![k] = y]
              [] OTHER                      -> [Blank EXCEPT ![1] = y]
    BY <1>2, <2>2, <2>4
  <2> HIDE DEF f, Path
  <2>6. k \in 1..width
    BY <2>2, <2>4, WidthAssumption
  <2>7. IsArray(b) /\ \A c \in 1..width : b[c] = IF c = k THEN y ELSE node[l - 1][width * q + (c - 1)]
    <3>1. CASE t[l] # nil
      <4>1. h[t[l]] = [c \in 1..width |-> node[l - 1][width * q + (c - 1)]]
        <5>1. \A p \in Nat : node[l][p] # nil =>
                h[node[l][p]] = [c \in 1..width |-> node[l - 1][width * p + (c - 1)]]
          BY DEF IsLayout, Branches
        <5> QED
          BY <2>2, <2>3, <3>1, <5>1
      <4>2. b = [h[t[l]] EXCEPT ![k] = y]
        BY <2>5, <3>1
      <4> QED
        BY <2>6, <4>1, <4>2 DEF IsArray
    <3>2. CASE t[l] = nil
      <4>1. \A c \in 1..width : node[l - 1][width * q + (c - 1)] = nil
        <5>1. \A p \in Nat : node[l][p] = nil => \A c \in 1..width : node[l - 1][width * p + (c - 1)] = nil
          BY NoChild
        <5> QED
          BY <2>2, <2>3, <3>2, <5>1
      <4>2. d = 0
        <5>1. ~ \E i \in 0..(width * K - 1) : Quotient(i, l + 1) = q
          BY <1>00, <2>1, <2>3, <3>2 DEF IsLayout, Covers
        <5> QED
          BY <1>00, <2>1, <2>2, <5>1, ZeroDigit
      <4>3. b = [Blank EXCEPT ![k] = y]
        BY <2>4, <2>5, <3>2, <4>2
      <4>4. IsArray(b) /\ \A c \in 1..width : b[c] = IF c = k THEN y ELSE nil
        BY <2>6, <4>3 DEF IsArray, Blank
      <4> QED
        BY <4>1, <4>4
    <3> QED
      BY <3>1, <3>2
  <2> QED
    BY <2>2, <2>4, <2>7
<1>5. IsFunction(f, v.shift)
  BY DEF IsFunction
<1> HIDE DEF f
<1>6. IsWay(f, h, a, v, node, n)
  BY <1>4, <1>5 DEF IsWay
<1> QED
  BY <1>1, <1>6

(* The way to the full tail, from the array of the tail at a up.           *)
Way(b, a, n) == [l \in 0..n |-> Stacked(b, a, l)]

(* The way that was put on the heap is one by which the tree grows.        *)
LEMMA WayGrows ==
    ASSUME NEW h, NEW v, NEW s, NEW node, Shape(h, v, s), NEW K \in Nat, NEW n \in Nat,
           HoldsFrom(h[v.tail], s, K),
           NEW b, NEW a \in Nat \ {0}, Extends(h, b), Len(b) = a, b[a] = h[v.tail],
           NEW f, IsWay(f, b, a, v, node, n),
           NEW e, OnTop(b, f, v.shift, e), NEW g, Extends(e, g)
    PROVE  Grows(g, s, v, node, K, n, Way(b, a, v.shift)) /\ Extends(h, g)
<1> DEFINE up == Way(b, a, v.shift)
<1>0. /\ \A l \in 0..v.shift : up[l] = Stacked(b, a, l)
      /\ Extends(b, e) /\ Len(e) = a + v.shift /\ \A l \in 1..v.shift : e[a + l] = f[l]
  BY DEF Way, OnTop
<1> HIDE DEF up
<1>1. v.shift \in Nat
  BY ShapeProperties
<1>2. Len(e) \in Nat /\ Len(g) \in Nat /\ Len(e) <= Len(g) /\ \A k \in 1..Len(e) : g[k] = e[k]
  BY <1>0, SeqProperties DEF Extends
<1>3. up[0] = a /\ a \in 1..Len(g) /\ g[a] = h[v.tail]
  <2>1. up[0] = a
    BY <1>0, <1>1 DEF Stacked
  <2>2. a \in 1..Len(e) /\ a \in 1..Len(b) /\ a \in 1..Len(g)
    BY <1>0, <1>1, <1>2
  <2>3. e[a] = b[a]
    BY <1>0, <2>2 DEF Extends
  <2> QED
    BY <1>2, <2>1, <2>2, <2>3
<1>4. ASSUME NEW l \in 1..v.shift
      PROVE  up[l] \in 1..Len(g) /\ g[up[l]] = f[l] /\ up[l - 1] = Stacked(b, a, l - 1)
  <2>1. l \in 0..v.shift /\ l # 0 /\ l \in Nat /\ l - 1 \in 0..v.shift
    BY <1>1
  <2>2. up[l] = a + l
    BY <1>0, <2>1 DEF Stacked
  <2>3. up[l] \in 1..Len(e) /\ up[l] \in 1..Len(g)
    BY <1>0, <1>1, <1>2, <2>1, <2>2
  <2>4. e[up[l]] = f[l]
    BY <1>0, <2>2
  <2> QED
    BY <1>0, <1>2, <2>1, <2>3, <2>4
<1>5. \A l \in 0..v.shift : up[l] \in 1..Len(g) /\ IsArray(g[up[l]])
  <2>1. ASSUME NEW l \in 0..v.shift PROVE up[l] \in 1..Len(g) /\ IsArray(g[up[l]])
    <3>1. CASE l = 0
      BY <1>3, <3>1 DEF HoldsFrom
    <3>2. CASE l # 0
      <4>1. l \in 1..v.shift
        BY <3>2, <1>1
      <4>2. IsArray(f[l])
        BY <4>1 DEF IsWay
      <4> QED
        BY <1>4, <4>1, <4>2
    <3> QED
      BY <3>1, <3>2
  <2> QED
    BY <2>1
<1>6. HoldsFrom(g[up[0]], s, K)
  BY <1>3
<1>7. \A l \in 1..v.shift, c \in 1..width :
         g[up[l]][c] = IF c = Digit(n, l) + 1 THEN up[l - 1]
                       ELSE node[l - 1][width * Quotient(n, l + 1) + (c - 1)]
  <2>1. \A l \in 1..v.shift, c \in 1..width :
           f[l][c] = IF c = Digit(n, l) + 1 THEN Stacked(b, a, l - 1)
                     ELSE node[l - 1][width * Quotient(n, l + 1) + (c - 1)]
    BY DEF IsWay
  <2>2. ASSUME NEW l \in 1..v.shift, NEW c \in 1..width
        PROVE  g[up[l]][c] = IF c = Digit(n, l) + 1 THEN up[l - 1]
                             ELSE node[l - 1][width * Quotient(n, l + 1) + (c - 1)]
    <3>1. g[up[l]] = f[l] /\ up[l - 1] = Stacked(b, a, l - 1)
      BY <1>4
    <3> QED
      BY <2>1, <3>1
  <2> QED
    BY <2>2
<1>8. Extends(h, g)
  BY <1>0, ExtendsTrans
<1> QED
  BY <1>5, <1>6, <1>7, <1>8 DEF Grows, up

(* A tail of one element.                                                  *)
One(x) == <<x>>

(* A tree of this height has a place for all indices up to n.              *)
Reaches(v, n) == \A i \in 0..n : Quotient(i, v.shift + 1) = 0

(* The shape of the vector after a full tail has been put in the tree.     *)
LEMMA PushedShape ==
    ASSUME NEW h, NEW v, NEW s, Shape(h, v, s), NEW K \in Nat, NEW n \in Nat,
           Full(v, K, n), NEW g, IsSeq(g), NEW x,
           NEW w, IsVector(g, w),
           w.count = v.count + 1, g[w.tail] = One(x),
           Reaches(w, n)
    PROVE  /\ Shape(g, w, Append(s, x)) /\ TailOffset(w) = n + 1
           /\ Continues(Append(s, x), s)
<1>0. n = width * K + (width - 1) /\ v.count = n + 1
  BY DEF Full
<1> DEFINE t == Append(s, x)
<1>1. IsSeq(s) /\ Len(s) = v.count
  BY DEF Shape
<1>2. IsSeq(t) /\ Len(t) = v.count + 1 /\ (\A i \in 1..v.count : t[i] = s[i]) /\ t[v.count + 1] = x
  BY <1>1, AppendToSeq
<1> HIDE DEF t
<1>3. TailOffset(w) = n + 1
  <2>1. width * (K + 1) = n + 1 /\ K + 1 \in Nat
    BY <1>0, WidthAssumption
  <2>2. PICK k \in Nat, m \in Nat : k = K + 1 /\ m = w.count
    <3>1. w.count \in Nat
      BY DEF IsVector
    <3> QED
      BY <2>1, <3>1
  <2>3. width * k < m /\ m <= width * k + width
    BY <1>0, <2>1, <2>2, WidthAssumption
  <2>4. TailOffset(w) = width * k
    BY <2>2, <2>3, TailOffsetIs
  <2> QED
    BY <2>1, <2>2, <2>4
<1>4. g[w.tail] = [c \in 1..(w.count - TailOffset(w)) |-> t[TailOffset(w) + c]]
  <2>1. 1..(w.count - TailOffset(w)) = {1}
    BY <1>0, <1>3
  <2>2. t[TailOffset(w) + 1] = x
    BY <1>0, <1>2, <1>3
  <2>3. <<x>> = [c \in {1} |-> t[TailOffset(w) + c]]
    BY <2>2
  <2> QED
    BY <2>1, <2>3 DEF One
<1>5. 0..(TailOffset(w) - 1) = 0..n
  BY <1>3
<1>6. Shape(g, w, t)
  BY <1>0, <1>1, <1>2, <1>4, <1>5 DEF Shape, Reaches
<1> QED
  BY <1>1, <1>2, <1>3, <1>6 DEF t, Continues

(* The vector that Append returns.                                         *)
NewVector(count, root, tail, shift) == [count |-> count, root |-> root, tail |-> tail, shift |-> shift]

(* The test of Append.                                                     *)
FullTailOf(h, v) == ~ (Len(h[v.tail]) < width)

(* VectorAppend with a full tail and room in the tree, call by call.       *)
LEMMA AppendBelowRoot ==
    ASSUME NEW h, NEW v, NEW x, FullTailOf(h, v), ~ RootOverflow(v),
           NEW b, b = Alloc(h, h[v.tail]),
           NEW p, p = PushTail(b.heap, v, b.at), NEW q, q = Alloc(p.heap, One(x))
    PROVE  /\ VectorAppend(h, v, x).heap = q.heap
           /\ VectorAppend(h, v, x).vec = NewVector(v.count + 1, p.at, q.at, v.shift)
BY DEF VectorAppend, NewVector, One, FullTailOf

(* An allocation, by its result.                                           *)
LEMMA AllocOnTop ==
    ASSUME NEW e, IsSeq(e), NEW x, NEW r, r = Alloc(e, x)
    PROVE  /\ Extends(e, r.heap) /\ r.at = Len(e) + 1
           /\ Len(r.heap) = r.at /\ r.at \in 1..Len(r.heap) /\ r.heap[r.at] = x
<1>1. Len(e) \in Nat
  BY SeqProperties
<1> QED
  BY <1>1, AllocProperties

(* It appends: the tree grows by the tail, the new tail is x.              *)
LEMMA PushBelowRoot ==
    ASSUME NEW h, NEW v, NEW s, Represents(h, v, s), NEW x,
           ~ (Len(h[v.tail]) < width), ~ RootOverflow(v)
    PROVE  LET r == VectorAppend(h, v, x)
           IN  Represents(r.heap, r.vec, Append(s, x)) /\ Extends(h, r.heap)
<1>1. PICK node : Shape(h, v, s) /\ IsLayout(h, v, s, node)
  BY DEF Represents
<1>2. PICK K \in Nat, n \in Nat : Full(v, K, n) /\ HoldsFrom(h[v.tail], s, K)
  BY <1>1, FullTail
<1>3. Quotient(n, v.shift + 1) = 0
  BY <1>1, <1>2, Overflow
<1>4. Len(h) \in Nat /\ v.shift \in Nat /\ v.shift # 0 /\ IsSeq(h)
  BY <1>1, ShapeProperties DEF Shape
<1>5. PICK array, b, a : /\ array = Alloc(h, h[v.tail]) /\ b = array.heap /\ a = array.at
                         /\ Extends(h, b) /\ Len(b) = a /\ b[a] = h[v.tail] /\ a = Len(h) + 1
  BY <1>4, AllocOnTop
<1>6. a \in Nat \ {0} /\ IsSeq(b)
  BY <1>4, <1>5 DEF Extends
<1>7. Shape(b, v, s) /\ IsLayout(b, v, s, node)
  BY <1>1, <1>5, ShapeKept, LayoutKept
<1>8. PICK f, p : /\ IsWay(f, b, a, v, node, n) /\ p = PushTail(b, v, a)
                  /\ p.heap = b \o f /\ p.at = Stacked(b, a, v.shift)
  <2>1. PICK f : /\ IsWay(f, b, a, v, node, n)
                 /\ PushTail(b, v, a).heap = b \o f
                 /\ PushTail(b, v, a).at = Stacked(b, a, v.shift)
    <3>1. Shape(b, v, s) /\ IsLayout(b, v, s, node) /\ Full(v, K, n)
      BY <1>2, <1>7
    <3> QED
      BY <1>3, <3>1, PushTailIs
  <2> QED
    BY <2>1
<1>9. OnTop(b, f, v.shift, p.heap) /\ IsSeq(p.heap)
  <2>1. IsFunction(f, v.shift)
    BY <1>8 DEF IsWay
  <2>2. OnTop(b, f, v.shift, b \o f)
    BY <1>4, <1>6, <2>1, StackProperties
  <2> QED
    BY <1>8, <2>2 DEF OnTop, Extends
<1>10. PICK q : q = Alloc(p.heap, One(x))
  OBVIOUS
<1>11. /\ Extends(p.heap, q.heap) /\ q.at \in 1..Len(q.heap) /\ q.heap[q.at] = One(x)
  BY <1>9, <1>10, AllocOnTop
<1>12. PICK g, w : g = q.heap /\ w = NewVector(v.count + 1, p.at, q.at, v.shift)
  OBVIOUS
<1>13. VectorAppend(h, v, x).heap = g /\ VectorAppend(h, v, x).vec = w
  <2>1. FullTailOf(h, v)
    BY DEF FullTailOf
  <2>2. p = PushTail(array.heap, v, array.at)
    BY <1>5, <1>8
  <2> QED
    BY <1>5, <1>10, <1>12, <2>1, <2>2, AppendBelowRoot
<1>15. PICK up : up = Way(b, a, v.shift)
  OBVIOUS
<1>16. Grows(g, s, v, node, K, n, up) /\ Extends(h, g)
  BY <1>1, <1>2, <1>5, <1>6, <1>8, <1>9, <1>11, <1>12, <1>15, WayGrows
<1>17. /\ w.count = v.count + 1 /\ w.root = up[v.shift] /\ w.shift = v.shift /\ w.tail = q.at
       /\ IsVector(g, w)
  <2>1. v.count + 1 \in Nat
    BY <1>2 DEF Full
  <2>2. v.shift \in 0..v.shift
    BY <1>4
  <2>3. Stacked(b, a, v.shift) = up[v.shift]
    BY <1>15, <2>2 DEF Way
  <2>4. up[v.shift] \in 0..Len(g)
    BY <1>16, <2>2 DEF Grows
  <2> QED
    BY <1>4, <1>8, <1>11, <1>12, <2>1, <2>3, <2>4 DEF IsVector, NewVector
<1>18. Reaches(w, n)
  <2>0. TailOffset(v) = width * K /\ n = width * K + (width - 1) /\ width * K \in Nat
    BY <1>2, WidthAssumption DEF Full
  <2>1. ASSUME NEW i \in 0..n PROVE Quotient(i, v.shift + 1) = 0
    <3>1. CASE i < width * K
      <4>1. i \in 0..(TailOffset(v) - 1)
        BY <2>0, <3>1
      <4> QED
        BY <1>1, <4>1 DEF Shape
    <3>2. CASE i >= width * K
      <4>1. Quotient(i, v.shift + 1) = Quotient(n, v.shift + 1)
        BY <2>0, <1>4, <3>2, TailTogether
      <4> QED
        BY <1>3, <4>1
    <3> QED
      BY <2>0, <3>1, <3>2
  <2> QED
    BY <1>17, <2>1 DEF Reaches
<1>19. PICK t : t = Append(s, x)
  OBVIOUS
<1>20. Shape(g, w, t) /\ TailOffset(w) = n + 1 /\ Continues(t, s)
  <2>1. IsSeq(g) /\ g[w.tail] = One(x)
    BY <1>11, <1>12, <1>17 DEF Extends
  <2>2. /\ Shape(g, w, Append(s, x)) /\ TailOffset(w) = n + 1
        /\ Continues(Append(s, x), s)
    BY <1>1, <1>2, <1>17, <1>18, <2>1, PushedShape
  <2> QED
    BY <1>19, <2>2
<1>21. PICK G : G = Grown(node, n, up)
  OBVIOUS
<1>22. Placed(g, w, G) /\ Covers(w, G) /\ Branches(g, w, G) /\ Leaves(g, t, G)
  BY <1>1, <1>2, <1>16, <1>17, <1>20, <1>21, PushedLayout
<1>23. w.root = G[w.shift][0]
  BY <1>3, <1>4, <1>17, <1>21 DEF Grown
<1>24. Represents(g, w, t)
  BY <1>20, <1>22, <1>23 DEF IsLayout, Represents
<1> QED
  BY <1>13, <1>16, <1>19, <1>24

(* A root above the old one makes a tree of one more level.                *)
LEMMA RootRaised ==
    ASSUME NEW g, NEW u, NEW w, NEW t, NEW G, NEW S \in Nat, NEW M \in Nat \ {0},
           u.shift = S, w.shift = S + 1, TailOffset(u) = M, TailOffset(w) = M,
           Placed(g, u, G), Covers(u, G), Branches(g, u, G), Leaves(g, t, G),
           w.root \in 1..Len(g), IsArray(g[w.root]),
           \A c \in 1..width : g[w.root][c] = G[S][c - 1],
           \A i \in 0..(M - 1) : Quotient(i, (S + 1) + 1) = 0
    PROVE  \E node : IsLayout(g, w, t, node)
<1>1. PICK H \in Nat : H = S + 1
  OBVIOUS
<1> DEFINE R == [l \in Nat |-> [q \in Nat |-> IF l = H THEN (IF q = 0 THEN w.root ELSE nil) ELSE G[l][q]]]
<1>2. /\ \A q \in Nat : R[H][q] = IF q = 0 THEN w.root ELSE nil
      /\ \A l \in 0..S, q \in Nat : R[l][q] = G[l][q]
  <2>1. \A l \in 0..S : l \in Nat /\ l # H
    BY <1>1
  <2> QED
    BY <2>1
<1>3. \A l \in 0..w.shift : l \in 0..S \/ l = H
  BY <1>1
<1> HIDE DEF R
<1>4. w.root # nil /\ w.root \in 0..Len(g) /\ nil \in 0..Len(g)
  BY DEF nil
<1>5. Placed(g, w, R)
  <2>1. ASSUME NEW l \in 0..w.shift, NEW q \in Nat PROVE R[l][q] \in 0..Len(g)
    BY <1>2, <1>3, <1>4 DEF Placed
  <2> QED
    BY <2>1 DEF Placed
<1>6. Covers(w, R)
  <2>1. ASSUME NEW l \in 0..w.shift, NEW q \in Nat
        PROVE  R[l][q] # nil <=> \E i \in 0..(M - 1) : Quotient(i, l + 1) = q
    <3>1. CASE l \in 0..S
      <4>1. R[l][q] = G[l][q]
        BY <1>2, <3>1
      <4>2. G[l][q] # nil <=> \E i \in 0..(M - 1) : Quotient(i, l + 1) = q
        BY <3>1 DEF Covers
      <4> QED
        BY <4>1, <4>2
    <3>2. CASE l = H
      <4>1. \A i \in 0..(M - 1) : Quotient(i, l + 1) = 0
        BY <1>1, <3>2
      <4>2. 0 \in 0..(M - 1)
        OBVIOUS
      <4> QED
        BY <1>2, <1>4, <3>2, <4>1, <4>2
    <3> QED
      BY <1>3, <3>1, <3>2
  <2> QED
    BY <2>1 DEF Covers
<1>7. Branches(g, w, R)
  <2>1. ASSUME NEW l \in 1..w.shift, NEW q \in Nat, R[l][q] # nil
        PROVE  g[R[l][q]] = [c \in 1..width |-> R[l - 1][width * q + (c - 1)]]
    <3>1. \A c \in 1..width : width * q + (c - 1) \in Nat
      BY SameChild
    <3>2. PICK m \in 0..S : m = l - 1
      BY <1>1
    <3>3. CASE l \in 0..S
      <4>1. g[G[l][q]] = [c \in 1..width |-> G[l - 1][width * q + (c - 1)]]
        <5>1. l \in 1..u.shift /\ G[l][q] # nil
          BY <1>2, <2>1, <3>3
        <5> QED
          BY <5>1 DEF Branches
      <4>2. \A c \in 1..width : R[m][width * q + (c - 1)] = G[m][width * q + (c - 1)]
        BY <1>2, <3>1
      <4> QED
        BY <1>2, <3>2, <3>3, <4>1, <4>2
    <3>4. CASE l = H
      <4>1. q = 0 /\ R[l][q] = w.root
        BY <1>2, <2>1, <3>4
      <4>2. m = S
        BY <1>1, <3>2, <3>4
      <4>3. ASSUME NEW c \in 1..width PROVE R[m][width * q + (c - 1)] = g[w.root][c]
        <5>1. PICK d : d = c - 1
          OBVIOUS
        <5>2. width * q + (c - 1) = d /\ d \in Nat
          BY <4>1, <5>1, WidthAssumption
        <5>3. R[S][d] = G[S][d]
          BY <1>2, <5>2
        <5> QED
          BY <4>2, <5>1, <5>2, <5>3
      <4> QED
        BY <3>2, <4>1, <4>3 DEF IsArray
    <3> QED
      BY <1>3, <3>3, <3>4
  <2> QED
    BY <2>1 DEF Branches
<1>8. Leaves(g, t, R)
  <2>1. \A q \in Nat : R[0][q] = G[0][q]
    BY <1>2
  <2> QED
    BY <2>1 DEF Leaves
<1>9. w.root = R[w.shift][0]
  BY <1>1, <1>2
<1> QED
  BY <1>5, <1>6, <1>7, <1>8, <1>9 DEF IsLayout

(* The root above the old one.                                             *)
NewRoot(left, right) == [Blank EXCEPT ![1] = left, ![2] = right]

(* A new root above the old one and the way to the new array.              *)
RootAbove(h, v) ==
    LET b == Alloc(h, h[v.tail])
        p == PathFor(b.heap, v, b.at)
    IN  Alloc(p.heap, NewRoot(v.root, p.at))

(* VectorAppend with a full tail and no room in the tree, call by call.    *)
LEMMA AppendAboveRoot ==
    ASSUME NEW h, NEW v, NEW x, FullTailOf(h, v), RootOverflow(v),
           NEW r, r = RootAbove(h, v), NEW q, q = Alloc(r.heap, One(x))
    PROVE  /\ VectorAppend(h, v, x).heap = q.heap
           /\ VectorAppend(h, v, x).vec = NewVector(v.count + 1, r.at, q.at, v.shift + 1)
BY DEF VectorAppend, NewVector, One, FullTailOf, NewRoot, PathFor, RootAbove

(* The cells of the new root.                                              *)
LEMMA NewRootIs ==
    ASSUME NEW left, NEW right
    PROVE  /\ IsArray(NewRoot(left, right))
           /\ \A c \in 1..width :
                 NewRoot(left, right)[c] = IF c = 1 THEN left ELSE IF c = 2 THEN right ELSE nil
<1>1. 1 \in 1..width /\ 2 \in 1..width
  BY WidthAssumption
<1>2. PICK array : array = [Blank EXCEPT ![1] = left]
  OBVIOUS
<1>3. IsArray(array) /\ \A c \in 1..width : array[c] = IF c = 1 THEN left ELSE nil
  BY <1>1, <1>2 DEF IsArray, Blank
<1>4. PICK root : root = NewRoot(left, right) /\ root = [array EXCEPT ![2] = right]
  BY <1>2 DEF NewRoot
<1>5. DOMAIN array = 1..width
  BY <1>3 DEF IsArray
<1>6. IsArray(root)
  BY <1>4, <1>5 DEF IsArray
<1>7. \A c \in 1..width : root[c] = IF c = 1 THEN left ELSE IF c = 2 THEN right ELSE nil
  BY <1>3, <1>4, <1>5
<1> QED
  BY <1>4, <1>6, <1>7

(* When the tree is full, nothing is on the way of the next tail.          *)
LEMMA FullTree ==
    ASSUME NEW h, NEW v, NEW s, NEW node, Shape(h, v, s), IsLayout(h, v, s, node),
           NEW n \in Nat, Quotient(n, v.shift + 1) # 0
    PROVE  Unused(node, n, v.shift)
<1>0. v.shift \in Nat
  BY ShapeProperties
<1>1. SUFFICES ASSUME NEW l \in 0..v.shift, node[l][Quotient(n, l + 1)] # nil PROVE FALSE
  BY DEF Unused
<1>2. PICK m \in Nat, k \in Nat : m = l + 1 /\ k = v.shift + 1 /\ m <= k
  BY <1>0
<1>3. PICK q \in Nat : q = Quotient(n, m)
  BY <1>2, QuotientSteps
<1>4. PICK i \in 0..(TailOffset(v) - 1) : Quotient(i, m) = q
  BY <1>1, <1>2, <1>3 DEF IsLayout, Covers
<1>5. i \in Nat /\ Quotient(i, k) = 0
  BY <1>2, ShapeProperties DEF Shape
<1>6. Quotient(i, k) = Quotient(n, k)
  BY <1>2, <1>3, <1>4, <1>5, QuotientAgree
<1> QED
  BY <1>2, <1>5, <1>6

(* It appends: the old tree is the first child of the new root, the way to *)
(* the tail the second.                                                    *)
LEMMA PushAboveRoot ==
    ASSUME NEW h, NEW v, NEW s, Represents(h, v, s), NEW x,
           ~ (Len(h[v.tail]) < width), RootOverflow(v)
    PROVE  LET r == VectorAppend(h, v, x)
           IN  Represents(r.heap, r.vec, Append(s, x)) /\ Extends(h, r.heap)
<1>1. PICK node : Shape(h, v, s) /\ IsLayout(h, v, s, node)
  BY DEF Represents
<1>2. PICK K \in Nat, n \in Nat : Full(v, K, n) /\ HoldsFrom(h[v.tail], s, K)
  BY <1>1, FullTail
<1>3. PICK S \in Nat : S = v.shift
  BY <1>1, ShapeProperties
<1>4. Quotient(n, S + 1) = 1
  BY <1>1, <1>2, <1>3, Overflow
<1>5. Len(h) \in Nat /\ IsSeq(h) /\ v.root \in 0..Len(h)
  BY <1>1, ShapeProperties DEF Shape
<1>6. PICK array, b, a : /\ array = Alloc(h, h[v.tail]) /\ b = array.heap /\ a = array.at
                         /\ Extends(h, b) /\ Len(b) = a /\ b[a] = h[v.tail] /\ a = Len(h) + 1
  BY <1>5, AllocOnTop
<1>7. a \in Nat \ {0} /\ IsSeq(b)
  BY <1>5, <1>6 DEF Extends
<1>8. Shape(b, v, s) /\ IsLayout(b, v, s, node)
  BY <1>1, <1>6, ShapeKept, LayoutKept
<1>9. PICK f, p : /\ IsWay(f, b, a, v, node, n) /\ p = PathFor(b, v, a)
                  /\ p.heap = b \o f /\ p.at = Stacked(b, a, v.shift)
  <2>1. Unused(node, n, v.shift)
    BY <1>1, <1>3, <1>4, FullTree
  <2> QED
    BY <1>2, <1>8, <2>1, NewPathIs
<1>10. OnTop(b, f, v.shift, p.heap) /\ IsSeq(p.heap)
  <2>1. IsFunction(f, v.shift)
    BY <1>9 DEF IsWay
  <2>2. OnTop(b, f, v.shift, b \o f)
    BY <1>3, <1>7, <2>1, StackProperties
  <2> QED
    BY <1>9, <2>2 DEF OnTop, Extends
<1>11. PICK r, q : r = Alloc(p.heap, NewRoot(v.root, p.at)) /\ q = Alloc(r.heap, One(x))
  OBVIOUS
<1>12. /\ Extends(p.heap, r.heap) /\ r.at \in 1..Len(r.heap)
       /\ r.heap[r.at] = NewRoot(v.root, p.at)
  BY <1>10, <1>11, AllocOnTop
<1>13. /\ Extends(r.heap, q.heap) /\ q.at \in 1..Len(q.heap) /\ q.heap[q.at] = One(x)
  <2>1. IsSeq(r.heap)
    BY <1>12 DEF Extends
  <2> QED
    BY <1>11, <2>1, AllocOnTop
<1>14. PICK g, w : g = q.heap /\ w = NewVector(v.count + 1, r.at, q.at, v.shift + 1)
  OBVIOUS
<1>15. VectorAppend(h, v, x).heap = g /\ VectorAppend(h, v, x).vec = w
  <2>1. FullTailOf(h, v)
    BY DEF FullTailOf
  <2>2. r = RootAbove(h, v)
    BY <1>6, <1>9, <1>11 DEF RootAbove
  <2>3. /\ VectorAppend(h, v, x).heap = q.heap
        /\ VectorAppend(h, v, x).vec = NewVector(v.count + 1, r.at, q.at, v.shift + 1)
    BY <1>11, <2>1, <2>2, AppendAboveRoot
  <2> QED
    BY <1>14, <2>3
<1>16. PICK up : up = Way(b, a, v.shift)
  OBVIOUS
<1>17. Extends(p.heap, g)
  BY <1>12, <1>13, <1>14, ExtendsTrans
<1>18. Grows(g, s, v, node, K, n, up) /\ Extends(h, g)
  BY <1>1, <1>2, <1>6, <1>7, <1>9, <1>10, <1>16, <1>17, WayGrows
<1>19. r.at \in 1..Len(g) /\ g[r.at] = NewRoot(v.root, p.at)
  <2>1. Len(r.heap) \in Nat /\ Len(g) \in Nat /\ Len(r.heap) <= Len(g)
    BY <1>13, <1>14, SeqProperties DEF Extends
  <2> QED
    BY <1>12, <1>13, <1>14, <2>1 DEF Extends
<1>20. /\ w.count = v.count + 1 /\ w.root = r.at /\ w.shift = S + 1 /\ w.tail = q.at
       /\ IsVector(g, w)
  <2>1. v.count + 1 \in Nat /\ S + 1 \in Nat \ {0}
    BY <1>2 DEF Full
  <2>2. r.at \in 0..Len(g)
    BY <1>19
  <2> QED
    BY <1>3, <1>13, <1>14, <2>1, <2>2 DEF IsVector, NewVector
<1>21. \A i \in 0..n : i \in Nat /\ (Quotient(i, S + 1) = 0 \/ Quotient(i, S + 1) = 1)
  <2>0. TailOffset(v) = width * K /\ n = width * K + (width - 1) /\ width * K \in Nat
    BY <1>2, WidthAssumption DEF Full
  <2>1. ASSUME NEW i \in 0..n PROVE Quotient(i, S + 1) = 0 \/ Quotient(i, S + 1) = 1
    <3>1. CASE i < width * K
      <4>1. i \in 0..(TailOffset(v) - 1)
        BY <2>0, <3>1
      <4> QED
        BY <1>1, <1>3, <4>1 DEF Shape
    <3>2. CASE i >= width * K
      <4>1. Quotient(i, S + 1) = Quotient(n, S + 1)
        BY <2>0, <3>2, TailTogether
      <4> QED
        BY <1>4, <4>1
    <3> QED
      BY <2>0, <3>1, <3>2
  <2> QED
    BY <2>1
<1>22. PICK T \in Nat : T = S + 1
  OBVIOUS
<1>23. \A i \in 0..n : Quotient(i, T + 1) = 0
  <2>1. ASSUME NEW i \in 0..n PROVE Quotient(i, T + 1) = 0
    <3>1. i \in Nat /\ (Quotient(i, T) = 0 \/ Quotient(i, T) = 1)
      BY <1>21, <1>22
    <3>2. Quotient(i, T + 1) = Quotient(i, T) \div width
      BY <3>1, QuotientSteps
    <3>3. 0 \div width = 0 /\ 1 \div width = 0
      BY WidthAssumption
    <3> QED
      BY <3>1, <3>2, <3>3
  <2> QED
    BY <2>1
<1>24. PICK t : t = Append(s, x)
  OBVIOUS
<1>25. Shape(g, w, t) /\ TailOffset(w) = n + 1 /\ Continues(t, s)
  <2>1. IsSeq(g) /\ g[w.tail] = One(x)
    BY <1>13, <1>14, <1>20 DEF Extends
  <2>2. Reaches(w, n)
    BY <1>20, <1>22, <1>23 DEF Reaches
  <2>3. /\ Shape(g, w, Append(s, x)) /\ TailOffset(w) = n + 1
        /\ Continues(Append(s, x), s)
    BY <1>1, <1>2, <1>20, <2>1, <2>2, PushedShape
  <2> QED
    BY <1>24, <2>3
<1>26. PICK G : G = Grown(node, n, up)
  OBVIOUS
<1>27. PICK u : u.shift = S /\ TailOffset(u) = n + 1
  <2>1. PICK u : u.shift = S /\ u.count = w.count
    <3>1. [shift |-> S, count |-> w.count].shift = S /\ [shift |-> S, count |-> w.count].count = w.count
      OBVIOUS
    <3> QED
      BY <3>1
  <2>2. TailOffset(u) = TailOffset(w)
    BY <2>1 DEF TailOffset
  <2> QED
    BY <1>25, <2>1, <2>2
<1>28. Placed(g, u, G) /\ Covers(u, G) /\ Branches(g, u, G) /\ Leaves(g, t, G)
  BY <1>1, <1>2, <1>3, <1>18, <1>25, <1>26, <1>27, PushedLayout
<1>29. IsArray(g[w.root]) /\ \A c \in 1..width : g[w.root][c] = G[S][c - 1]
  <2>1. g[w.root] = NewRoot(v.root, p.at)
    BY <1>19, <1>20
  <2>2. S \in 0..v.shift /\ p.at = up[S] /\ v.root = node[S][0]
    BY <1>1, <1>3, <1>9, <1>16 DEF Way, IsLayout
  <2>3. ASSUME NEW c \in 1..width PROVE NewRoot(v.root, p.at)[c] = G[S][c - 1]
    <3>1. PICK k \in Nat : k = c - 1
      OBVIOUS
    <3>2. G[S][k] = IF k = 1 THEN up[S] ELSE node[S][k]
      BY <1>4, <1>26 DEF Grown
    <3>3. k # 0 => node[S][k] = nil
      <4>1. SUFFICES ASSUME k # 0, node[S][k] # nil PROVE FALSE
        OBVIOUS
      <4>2. PICK i \in 0..(TailOffset(v) - 1) : Quotient(i, S + 1) = k
        BY <1>1, <2>2, <4>1 DEF IsLayout, Covers
      <4>3. Quotient(i, S + 1) = 0
        BY <1>1, <1>3 DEF Shape
      <4> QED
        BY <4>1, <4>2, <4>3
    <3>4. NewRoot(v.root, p.at)[c] = IF c = 1 THEN v.root ELSE IF c = 2 THEN p.at ELSE nil
      BY NewRootIs
    <3>5. (c = 1 <=> k = 0) /\ (c = 2 <=> k = 1)
      BY <3>1
    <3> QED
      BY <2>2, <3>1, <3>2, <3>3, <3>4, <3>5
  <2> QED
    BY <2>1, <2>3, NewRootIs
<1>30. \E layout : IsLayout(g, w, t, layout)
  <2>1. PICK M \in Nat \ {0} : M = n + 1
    OBVIOUS
  <2>2. \A i \in 0..(M - 1) : Quotient(i, (S + 1) + 1) = 0
    BY <1>22, <1>23, <2>1
  <2>3. w.root \in 1..Len(g)
    BY <1>19, <1>20
  <2> QED
    BY <1>20, <1>25, <1>27, <1>28, <1>29, <2>1, <2>2, <2>3, RootRaised
<1>31. Represents(g, w, t)
  BY <1>25, <1>30 DEF Represents
<1> QED
  BY <1>15, <1>18, <1>24, <1>31

(* VectorAppend: Append adds its element to the sequence, in any vector,   *)
(* and writes to no array that was there.                                  *)
THEOREM VectorAppendCorrect ==
    ASSUME NEW h, NEW v, NEW s, Represents(h, v, s), NEW x
    PROVE  LET r == VectorAppend(h, v, x)
           IN  Represents(r.heap, r.vec, Append(s, x)) /\ Extends(h, r.heap)
BY AppendToTail, PushBelowRoot, PushAboveRoot

(* Where a change of an element puts the copies of the arrays on its way.  *)
Copies(h, S) == [l \in 0..S |-> Len(h) + (l + 1)]

(* VectorUpdate of an element in the tree: it grows by the copies on the   *)
(* way.                                                                    *)
LEMMA UpdateInTree ==
    ASSUME NEW h, NEW v, NEW s, Represents(h, v, s), NEW i \in Nat, NEW x, i < TailOffset(v)
    PROVE  LET r == VectorUpdate(h, v, i, x)
           IN  Represents(r.heap, r.vec, [s EXCEPT ![i + 1] = x]) /\ Extends(h, r.heap)
<1>1. PICK node : Shape(h, v, s) /\ IsLayout(h, v, s, node)
  BY DEF Represents
<1>2. PICK S \in Nat : S = v.shift
  BY <1>1, ShapeProperties
<1>3. /\ Len(h) \in Nat /\ v.count \in Nat /\ TailOffset(v) \in Nat /\ TailOffset(v) <= v.count
      /\ IsSeq(h) /\ IsSeq(s) /\ v.count = Len(s) /\ IsVector(h, v)
  BY <1>1, ShapeProperties DEF Shape
<1>4. i \in 0..(TailOffset(v) - 1) /\ Quotient(i, v.shift + 1) = 0
  <2>1. i \in 0..(TailOffset(v) - 1)
    BY <1>3
  <2> QED
    BY <1>1, <2>1 DEF Shape
<1>5. Trail(h, v, i) = [l \in 0..v.shift |-> node[l][Quotient(i, l + 1)]]
  <2>1. \A j \in Nat : Quotient(j, v.shift + 1) = 0 =>
          Trail(h, v, j) = [l \in 0..v.shift |-> node[l][Quotient(j, l + 1)]]
    BY <1>1, TrailIs
  <2> QED
    BY <1>4, <2>1
<1>6. PICK tr : tr = Trail(h, v, i)
  OBVIOUS
<1>7. PICK up : up = Copies(h, v.shift)
  OBVIOUS
<1> DEFINE Path(l) == [h[tr[l]] EXCEPT ![Digit(i, l) + 1] = IF l = 0 THEN x ELSE Len(h) + l]
           f == [l \in 1..(v.shift + 1) |-> Path(l - 1)]
           w == [v EXCEPT !.root = (Len(h) + v.shift) + 1]
<1>8. PICK g : g = h \o f
  OBVIOUS
<1>9. VectorUpdate(h, v, i, x).heap = g /\ VectorUpdate(h, v, i, x).vec = w
  <2>1. ~ (i < 0 \/ i >= v.count) /\ ~ (i >= TailOffset(v))
    BY <1>3
  <2> QED
    BY <1>6, <1>8, <2>1 DEF VectorUpdate, DoAssoc
<1>10. OnTop(h, f, S + 1, g)
  <2>1. IsFunction(f, S + 1)
    BY <1>2 DEF IsFunction
  <2>2. PICK k \in Nat : k = S + 1
    OBVIOUS
  <2> HIDE DEF f
  <2> QED
    BY <1>3, <1>8, <2>1, <2>2, StackProperties
<1>11. Extends(h, g) /\ Len(g) = Len(h) + (S + 1) /\ IsSeq(g)
  BY <1>10 DEF OnTop, Extends
<1>12. ASSUME NEW l \in 0..v.shift
       PROVE  /\ l \in Nat /\ up[l] = Len(h) + (l + 1) /\ up[l] \in 1..Len(g) /\ g[up[l]] = Path(l)
  <2>1. l \in Nat
    BY <1>2
  <2>2. up[l] = Len(h) + (l + 1)
    BY <1>7 DEF Copies
  <2>3. up[l] \in 1..Len(g)
    BY <1>2, <1>3, <1>11, <2>1, <2>2
  <2>4. PICK k : k = l + 1
    OBVIOUS
  <2>5. k \in 1..(S + 1) /\ k \in 1..(v.shift + 1) /\ k - 1 = l
    BY <1>2, <2>1, <2>4
  <2>6. f[k] = Path(l)
    BY <2>5
  <2> HIDE DEF f, Path
  <2>7. g[Len(h) + k] = f[k]
    BY <1>10, <2>5 DEF OnTop
  <2> QED
    BY <2>1, <2>2, <2>3, <2>4, <2>6, <2>7
<1>13. PICK K \in Nat, d \in 0..(width - 1) :
          K = Quotient(i, 1) /\ d = Digit(i, 0) /\ i = width * K + d
  <2>1. i \div width \in Nat /\ i % width \in 0..(width - 1) /\ i = width * (i \div width) + (i % width)
    BY DivMod, WidthAssumption
  <2> QED
    BY <2>1, QuotientLow
<1> DEFINE t == [s EXCEPT ![i + 1] = x]
<1>14. IsSeq(t) /\ Len(t) = Len(s) /\ \A j \in 1..Len(s) : t[j] = IF j = i + 1 THEN x ELSE s[j]
  <2>1. PICK k \in 1..Len(s) : k = i + 1
    BY <1>3
  <2>2. t = [s EXCEPT ![k] = x]
    BY <2>1
  <2>3. Len(s) \in Nat /\ DOMAIN s = 1..Len(s)
    BY <1>3, SeqProperties
  <2> HIDE DEF t, f, Path, w
  <2>4. DOMAIN t = 1..Len(s) /\ t = [j \in 1..Len(s) |-> t[j]]
    BY <2>2, <2>3
  <2>5. \A j \in 1..Len(s) : t[j] = IF j = k THEN x ELSE s[j]
    BY <2>2, <2>3
  <2>6. IsSeq(t) /\ Len(t) = Len(s)
    BY <2>3, <2>4, SeqOfFunction
  <2> QED
    BY <2>1, <2>5, <2>6
<1> HIDE DEF t, f
<1>15. ASSUME NEW q \in Nat, NEW c \in 1..width, width * q + width <= TailOffset(v)
       PROVE  t[width * q + c] = IF q = K /\ c = d + 1 THEN x ELSE s[width * q + c]
  <2>1. PICK k : k = width * q + c
    OBVIOUS
  <2>2. width \in Nat \ {0} /\ width * q \in Nat /\ width * K \in Nat
    BY WidthAssumption
  <2>3. k \in 1..Len(s)
    BY <1>3, <1>15, <2>1, <2>2
  <2>4. PICK e \in 0..(width - 1) : e = c - 1
    BY <2>2
  <2>5. (k = i + 1) <=> (width * q + e = width * K + d)
    BY <1>13, <2>1, <2>2, <2>4
  <2>6. (width * q + e = width * K + d) <=> (q = K /\ e = d)
    BY <2>2, Unique
  <2>7. e = d <=> c = d + 1
    BY <2>2, <2>4
  <2> QED
    BY <1>14, <2>1, <2>3, <2>5, <2>6, <2>7
<1>16. ASSUME NEW l \in 0..v.shift, NEW q \in Nat, q = Quotient(i, l + 1)
       PROVE  tr[l] = node[l][q] /\ node[l][q] # nil
  BY <1>1, <1>4, <1>5, <1>6, <1>16 DEF IsLayout, Covers
<1>17. Grows(g, t, v, node, K, i, up)
  <2>1. HoldsFrom(g[up[0]], t, K) /\ IsArray(g[up[0]])
    <3>1. 0 \in 0..v.shift
      BY <1>2
    <3>2. Quotient(i, 0 + 1) = K
      BY <1>13
    <3>3. tr[0] = node[0][K] /\ node[0][K] # nil
      BY <1>16, <3>1, <3>2
    <3>4. h[tr[0]] = [c \in 1..width |-> s[width * K + c]]
      BY <1>1, <3>3 DEF IsLayout, Leaves
    <3>5. PICK b, a : b = h[tr[0]] /\ a = g[up[0]] /\ a = [b EXCEPT ![d + 1] = x]
      BY <1>12, <1>13, <3>1
    <3>6. d + 1 \in 1..width
      BY WidthAssumption
    <3> HIDE DEF Path
    <3>7. DOMAIN b = 1..width /\ \A c \in 1..width : b[c] = s[width * K + c]
      BY <3>4, <3>5
    <3>8. IsArray(a) /\ \A c \in 1..width : a[c] = IF c = d + 1 THEN x ELSE s[width * K + c]
      BY <3>5, <3>6, <3>7 DEF IsArray
    <3>9. width * K + width <= TailOffset(v)
      BY <1>1, <3>3, LeafInside
    <3> QED
      BY <1>15, <3>5, <3>8, <3>9 DEF HoldsFrom
  <2>2. ASSUME NEW l \in 1..v.shift
        PROVE  /\ IsArray(g[up[l]])
               /\ \A c \in 1..width :
                     g[up[l]][c] = IF c = Digit(i, l) + 1 THEN up[l - 1]
                                   ELSE node[l - 1][width * Quotient(i, l + 1) + (c - 1)]
    <3>1. l \in Nat /\ l # 0 /\ l \in 0..v.shift /\ l - 1 \in 0..v.shift
      BY <1>2
    <3>2. PICK q \in Nat, e \in 0..(width - 1) : q = Quotient(i, l + 1) /\ e = Digit(i, l)
      BY <3>1, QuotientUp
    <3>3. tr[l] = node[l][q] /\ node[l][q] # nil
      BY <1>16, <3>1, <3>2
    <3>4. h[tr[l]] = [c \in 1..width |-> node[l - 1][width * q + (c - 1)]]
      <4>1. \A p \in Nat : node[l][p] # nil =>
              h[node[l][p]] = [c \in 1..width |-> node[l - 1][width * p + (c - 1)]]
        BY <1>1 DEF IsLayout, Branches
      <4> QED
        BY <3>3, <4>1
    <3>5. PICK b, a, y : b = h[tr[l]] /\ a = g[up[l]] /\ y = Len(h) + l /\ a = [b EXCEPT ![e + 1] = y]
      BY <1>12, <3>1, <3>2
    <3>6. y = up[l - 1]
      <4>1. PICK m \in 0..v.shift : m = l - 1
        BY <3>1
      <4> HIDE DEF Path, w
      <4>2. up[m] = Len(h) + (m + 1)
        BY <1>7 DEF Copies
      <4>3. m + 1 = l
        BY <3>1, <4>1
      <4> QED
        BY <3>5, <4>1, <4>2, <4>3
    <3>7. e + 1 \in 1..width
      BY WidthAssumption
    <3> HIDE DEF Path
    <3>8. DOMAIN b = 1..width /\ \A c \in 1..width : b[c] = node[l - 1][width * q + (c - 1)]
      BY <3>4, <3>5
    <3>9. IsArray(a) /\ \A c \in 1..width : a[c] = IF c = e + 1 THEN y ELSE node[l - 1][width * q + (c - 1)]
      BY <3>5, <3>7, <3>8 DEF IsArray
    <3> QED
      BY <3>2, <3>5, <3>6, <3>9
  <2>3. ASSUME NEW l \in 0..v.shift PROVE up[l] \in 1..Len(g) /\ IsArray(g[up[l]])
    <3>1. CASE l = 0
      BY <1>12, <2>1, <3>1
    <3>2. CASE l # 0
      <4>1. l \in 1..v.shift
        BY <1>2, <3>2
      <4> QED
        BY <1>12, <2>2, <4>1
    <3> QED
      BY <3>1, <3>2
  <2> HIDE DEF Path
  <2> QED
    BY <2>1, <2>2, <2>3 DEF Grows
<1> HIDE DEF Path
<1>18. SameElsewhere(t, s, v, i)
  BY <1>13, <1>15 DEF SameElsewhere
<1>19. /\ w.count = v.count /\ w.shift = v.shift /\ w.tail = v.tail /\ w.root = up[v.shift]
       /\ IsVector(g, w)
  <2>1. v.shift \in 0..v.shift
    BY <1>2
  <2>2. up[v.shift] = Len(h) + (v.shift + 1) /\ up[v.shift] \in 1..Len(g)
    BY <1>12, <2>1
  <2>3. (Len(h) + v.shift) + 1 = up[v.shift] /\ up[v.shift] \in 0..Len(g)
    BY <1>2, <1>3, <2>2
  <2>4. 1..Len(h) \subseteq 1..Len(g)
    BY <1>3, <1>11
  <2> QED
    BY <1>3, <2>3, <2>4 DEF IsVector
<1> HIDE DEF w
<1>20. TailOffset(w) = TailOffset(v)
  BY <1>19 DEF TailOffset
<1>21. CoversMore(w, v, i)
  <2>1. ASSUME NEW l \in 0..v.shift, NEW q \in Nat, q = Quotient(i, l + 1)
        PROVE  \E j \in 0..(TailOffset(v) - 1) : Quotient(j, l + 1) = q
    BY <1>4, <2>1
  <2> QED
    BY <1>20, <2>1 DEF CoversMore
<1>22. Shape(g, w, t)
  <2>1. ASSUME NEW c \in 1..(v.count - TailOffset(v))
        PROVE  t[TailOffset(v) + c] = s[TailOffset(v) + c]
    <3>1. PICK k : k = TailOffset(v) + c
      OBVIOUS
    <3>2. k \in 1..Len(s) /\ k # i + 1
      BY <1>3, <3>1
    <3> QED
      BY <1>14, <3>1, <3>2
  <2>2. g[w.tail] = h[v.tail]
    <3>1. v.tail \in 1..Len(h)
      BY <1>3 DEF IsVector
    <3> QED
      BY <1>11, <1>19, <3>1 DEF Extends
  <2>3. h[v.tail] = [c \in 1..(v.count - TailOffset(v)) |-> s[TailOffset(v) + c]]
    BY <1>1 DEF Shape
  <2>4. g[w.tail] = [c \in 1..(w.count - TailOffset(w)) |-> t[TailOffset(w) + c]]
    BY <1>19, <1>20, <2>1, <2>2, <2>3
  <2>5. \A j \in 0..(TailOffset(w) - 1) : Quotient(j, w.shift + 1) = 0
    BY <1>1, <1>19, <1>20 DEF Shape
  <2> QED
    BY <1>3, <1>11, <1>14, <1>19, <2>4, <2>5 DEF Shape
<1>23. PICK G : G = Grown(node, i, up)
  OBVIOUS
<1>24. Placed(g, w, G) /\ Covers(w, G) /\ Branches(g, w, G) /\ Leaves(g, t, G)
  BY <1>1, <1>11, <1>13, <1>17, <1>18, <1>19, <1>21, <1>23, GrownLayout
<1>25. w.root = G[w.shift][0]
  BY <1>2, <1>4, <1>19, <1>23 DEF Grown
<1>26. Represents(g, w, t)
  BY <1>22, <1>24, <1>25 DEF IsLayout, Represents
<1> QED
  BY <1>9, <1>11, <1>26 DEF t

(* VectorUpdate: Update replaces the element at its index and leaves the   *)
(* vector alone for an index outside of it; it writes to no array that was *)
(* there.                                                                  *)
THEOREM VectorUpdateCorrect ==
    ASSUME NEW h, NEW v, NEW s, Represents(h, v, s), NEW i \in Int, NEW x
    PROVE  LET r == VectorUpdate(h, v, i, x)
           IN  /\ Represents(r.heap, r.vec, IF i \in 0..(Len(s) - 1) THEN [s EXCEPT ![i + 1] = x] ELSE s)
               /\ Extends(h, r.heap)
<1>1. Shape(h, v, s)
  BY DEF Represents
<1>2. v.count \in Nat /\ TailOffset(v) \in Nat /\ v.count = Len(s) /\ IsSeq(h)
  BY <1>1, ShapeProperties DEF Shape
<1>3. CASE i < 0 \/ i >= v.count
  <2>1. VectorUpdate(h, v, i, x).heap = h /\ VectorUpdate(h, v, i, x).vec = v
    BY <1>3 DEF VectorUpdate
  <2>2. i \notin 0..(Len(s) - 1)
    BY <1>2, <1>3
  <2> QED
    BY <1>2, <2>1, <2>2, ExtendsSelf
<1>4. CASE i >= 0 /\ i < v.count
  <2>1. i \in 0..(Len(s) - 1) /\ i \in Nat
    BY <1>2, <1>4
  <2>2. CASE TailOffset(v) <= i
    BY <1>4, <2>1, <2>2, UpdateTail
  <2>3. CASE i < TailOffset(v)
    BY <2>1, <2>3, UpdateInTree
  <2> QED
    BY <1>2, <2>1, <2>2, <2>3
<1> QED
  BY <1>2, <1>3, <1>4

(* s and the first n elements of t after it.                               *)
Joined(s, t, n) == [i \in 1..(Len(s) + n) |-> IF i <= Len(s) THEN s[i] ELSE t[i - Len(s)]]

(* p with x appended is r.                                                 *)
Appended(p, x, r) == r = Append(p, x)

(* Appending one by one.                                                   *)
LEMMA JoinedSteps ==
    ASSUME NEW s, IsSeq(s), NEW t, IsSeq(t)
    PROVE  /\ Joined(s, t, 0) = s
           /\ \A n \in Nat, m \in 1..Len(t) : m = n + 1 => Appended(Joined(s, t, n), t[m], Joined(s, t, m))
           /\ Joined(s, t, Len(t)) = s \o t
<1>1. Len(s) \in Nat /\ Len(t) \in Nat
  BY SeqProperties
<1>2. ASSUME NEW n \in Nat
      PROVE  /\ IsSeq(Joined(s, t, n)) /\ Len(Joined(s, t, n)) = Len(s) + n
             /\ \A i \in 1..(Len(s) + n) : Joined(s, t, n)[i] = IF i <= Len(s) THEN s[i] ELSE t[i - Len(s)]
  <2>1. PICK k \in Nat : k = Len(s) + n
    BY <1>1
  <2>2. PICK f : f = Joined(s, t, n)
    OBVIOUS
  <2>3. DOMAIN f = 1..k /\ f = [i \in 1..k |-> f[i]]
    BY <2>1, <2>2 DEF Joined
  <2>4. IsSeq(f) /\ Len(f) = k
    BY <2>3, SeqOfFunction
  <2>5. \A i \in 1..(Len(s) + n) : f[i] = IF i <= Len(s) THEN s[i] ELSE t[i - Len(s)]
    BY <2>2 DEF Joined
  <2> QED
    BY <2>1, <2>2, <2>4, <2>5
<1>3. Joined(s, t, 0) = s
  <2>1. PICK z, f : z \in Nat /\ z = 0 /\ f = Joined(s, t, z)
    OBVIOUS
  <2>2. IsSeq(f) /\ Len(f) = Len(s) /\ \A i \in 1..Len(s) : f[i] = s[i]
    <3>1. IsSeq(f) /\ Len(f) = Len(s) + z
      BY <1>2, <2>1
    <3>2. \A i \in 1..(Len(s) + z) : f[i] = IF i <= Len(s) THEN s[i] ELSE t[i - Len(s)]
      BY <1>2, <2>1
    <3>3. Len(s) + z = Len(s) /\ \A i \in 1..Len(s) : i <= Len(s)
      BY <1>1, <2>1
    <3> QED
      BY <3>1, <3>2, <3>3
  <2> QED
    BY <2>1, <2>2, SameSequence
<1>4. ASSUME NEW n \in Nat, NEW m \in 1..Len(t), m = n + 1
      PROVE  Appended(Joined(s, t, n), t[m], Joined(s, t, m))
  <2>1. m \in Nat /\ m = n + 1
    BY <1>1, <1>4
  <2>2. PICK f, g, x : f = Joined(s, t, n) /\ g = Joined(s, t, m) /\ x = t[m]
    OBVIOUS
  <2>3. n \in Nat /\ IsSeq(f) /\ Len(f) = Len(s) + n /\ IsSeq(g) /\ Len(g) = Len(f) + 1
    <3>1. n \in Nat
      BY <1>1
    <3>2. IsSeq(f) /\ Len(f) = Len(s) + n
      BY <1>2, <2>2, <3>1
    <3>3. IsSeq(g) /\ Len(g) = Len(s) + m
      BY <1>2, <2>2
    <3> QED
      BY <1>1, <2>1, <3>1, <3>2, <3>3
  <2>4. PICK k \in Nat : k = Len(f)
    BY <1>1, <2>3
  <2>5. /\ IsSeq(Append(f, x)) /\ Len(Append(f, x)) = k + 1
        /\ \A i \in 1..k : Append(f, x)[i] = f[i]
        /\ Append(f, x)[k + 1] = x
    BY <2>3, <2>4, AppendToSeq
  <2>6. ASSUME NEW i \in 1..(k + 1) PROVE g[i] = Append(f, x)[i]
    <3>1. g[i] = IF i <= Len(s) THEN s[i] ELSE t[i - Len(s)]
      BY <1>1, <1>2, <2>1, <2>2, <2>3, <2>4
    <3>2. CASE i = k + 1
      <4>1. ~ (i <= Len(s)) /\ i - Len(s) = m
        BY <1>1, <2>1, <2>3, <2>4, <3>2
      <4> QED
        BY <2>2, <2>5, <3>1, <3>2, <4>1
    <3>3. CASE i # k + 1
      <4>1. i \in 1..k
        BY <3>3
      <4>2. f[i] = IF i <= Len(s) THEN s[i] ELSE t[i - Len(s)]
        BY <1>2, <2>2, <2>3, <2>4, <4>1
      <4> QED
        BY <2>5, <3>1, <4>1, <4>2
    <3> QED
      BY <3>2, <3>3
  <2>7. g = Append(f, x)
    BY <2>3, <2>4, <2>5, <2>6, SameSequence
  <2> QED
    BY <2>2, <2>7 DEF Appended
<1>5. Joined(s, t, Len(t)) = s \o t
  <2>1. PICK f, c : f = Joined(s, t, Len(t)) /\ c = s \o t
    OBVIOUS
  <2>2. IsSeq(f) /\ Len(f) = Len(s) + Len(t)
    BY <1>1, <1>2, <2>1
  <2>3. /\ IsSeq(c) /\ Len(c) = Len(s) + Len(t)
        /\ \A i \in 1..Len(s) : c[i] = s[i]
        /\ \A i \in 1..Len(t) : c[Len(s) + i] = t[i]
    <3>1. /\ IsSeq(s \o t) /\ Len(s \o t) = Len(s) + Len(t)
          /\ \A i \in 1..Len(s) : (s \o t)[i] = s[i]
          /\ \A i \in 1..Len(t) : (s \o t)[Len(s) + i] = t[i]
      BY ConcatOfSeqs
    <3> QED
      BY <2>1, <3>1
  <2>4. ASSUME NEW i \in 1..Len(f) PROVE f[i] = c[i]
    <3>1. f[i] = IF i <= Len(s) THEN s[i] ELSE t[i - Len(s)]
      BY <1>1, <1>2, <2>1, <2>2
    <3>2. CASE i <= Len(s)
      BY <1>1, <2>2, <2>3, <3>1, <3>2
    <3>3. CASE ~ (i <= Len(s))
      <4>1. PICK j \in 1..Len(t) : j = i - Len(s) /\ i = Len(s) + j
        <5>1. i - Len(s) \in 1..Len(t) /\ i = Len(s) + (i - Len(s))
          BY <1>1, <2>2, <3>3
        <5> QED
          BY <5>1
      <4> QED
        BY <2>3, <3>1, <3>3, <4>1
    <3> QED
      BY <3>2, <3>3
  <2>5. f = c
    BY <2>2, <2>3, <2>4, SameSequence
  <2> QED
    BY <2>1, <2>5
<1> QED
  BY <1>3, <1>4, <1>5

(* r[n] is the heap and the vector after n elements of t.                  *)
IsRun(r, h, v, t, n) ==
    /\ DOMAIN r = 0..n
    /\ r = [k \in 0..n |-> r[k]]
    /\ r[0] = [heap |-> h, vec |-> v]
    /\ \A k \in 1..n : r[k] = VectorAppend(r[k - 1].heap, r[k - 1].vec, t[k])

(* The recursive function of AppendAll exists, and AppendAll is its last   *)
(* value.                                                                  *)
LEMMA RunExists ==
    ASSUME NEW h, NEW v, NEW t
    PROVE  \A n \in Nat : \E r : IsRun(r, h, v, t, n)
<1> DEFINE D == {n \in Nat : \E r : IsRun(r, h, v, t, n)}
<1>1. 0 \in D
  <2> DEFINE r == [k \in 0..0 |-> [heap |-> h, vec |-> v]]
  <2>1. IsRun(r, h, v, t, 0)
    BY DEF IsRun
  <2> HIDE DEF r
  <2> QED
    BY <2>1
<1>2. ASSUME NEW n \in Nat, n \in D PROVE n + 1 \in D
  <2>1. PICK r : IsRun(r, h, v, t, n)
    BY <1>2
  <2>2. PICK m, x : m \in Nat /\ m = n + 1 /\ x = VectorAppend(r[n].heap, r[n].vec, t[m])
    OBVIOUS
  <2> DEFINE e == [k \in 0..m |-> IF k = m THEN x ELSE r[k]]
  <2>3. DOMAIN e = 0..m /\ e = [k \in 0..m |-> e[k]]
    OBVIOUS
  <2>4. e[m] = x /\ \A k \in 0..n : e[k] = r[k]
    BY <2>2
  <2> HIDE DEF e
  <2>5. ASSUME NEW k \in 1..m PROVE e[k] = VectorAppend(e[k - 1].heap, e[k - 1].vec, t[k])
    <3>1. PICK j \in 0..n : j = k - 1
      BY <2>2
    <3>2. CASE k = m
      <4>1. j = n
        BY <2>2, <3>1, <3>2
      <4> QED
        BY <2>2, <2>4, <3>1, <3>2, <4>1
    <3>3. CASE k # m
      <4>1. k \in 1..n /\ k \in 0..n
        BY <2>2, <3>3
      <4>2. r[k] = VectorAppend(r[k - 1].heap, r[k - 1].vec, t[k])
        BY <2>1, <4>1 DEF IsRun
      <4> QED
        BY <2>4, <3>1, <4>1, <4>2
    <3> QED
      BY <3>2, <3>3
  <2>6. e[0] = [heap |-> h, vec |-> v]
    BY <2>1, <2>4 DEF IsRun
  <2>7. IsRun(e, h, v, t, m)
    BY <2>3, <2>5, <2>6 DEF IsRun
  <2> QED
    BY <2>2, <2>7
<1>3. D = Nat
  <2>1. D \subseteq Nat
    OBVIOUS
  <2> HIDE DEF D
  <2> QED
    BY <1>1, <1>2, <2>1, InductionOnNat
<1> QED
  BY <1>3

LEMMA AppendAllRuns ==
    ASSUME NEW h, NEW v, NEW t, IsSeq(t)
    PROVE  \E r : IsRun(r, h, v, t, Len(t)) /\ AppendAll(h, v, t) = r[Len(t)]
<1>1. PICK n \in Nat : n = Len(t)
  BY SeqProperties
<1> DEFINE Unfold(r) == [k \in 0..n |-> IF k = 0 THEN [heap |-> h, vec |-> v]
                                      ELSE VectorAppend(r[k - 1].heap, r[k - 1].vec, t[k])]
<1>2. AppendAll(h, v, t) = (CHOOSE r : r = Unfold(r))[n]
  BY <1>1 DEF AppendAll
<1>3. PICK r : IsRun(r, h, v, t, n)
  BY RunExists
<1>4. r = Unfold(r)
  <2>1. \A k \in 0..n : k = 0 \/ k \in 1..n
    OBVIOUS
  <2>2. \A k \in 0..n : r[k] = IF k = 0 THEN [heap |-> h, vec |-> v]
                               ELSE VectorAppend(r[k - 1].heap, r[k - 1].vec, t[k])
    BY <1>3, <2>1 DEF IsRun
  <2>3. r = [k \in 0..n |-> r[k]]
    BY <1>3 DEF IsRun
  <2> QED
    BY <2>2, <2>3
<1>5. PICK c : c = (CHOOSE q : q = Unfold(q)) /\ c = Unfold(c)
  <2> HIDE DEF Unfold
  <2>1. (CHOOSE q : q = Unfold(q)) = Unfold(CHOOSE q : q = Unfold(q))
    BY <1>4
  <2> QED
    BY <2>1
<1>6. IsRun(c, h, v, t, n)
  <2>0. c = [k \in 0..n |-> IF k = 0 THEN [heap |-> h, vec |-> v]
                            ELSE VectorAppend(c[k - 1].heap, c[k - 1].vec, t[k])]
    BY <1>5
  <2> HIDE DEF Unfold
  <2>1. DOMAIN c = 0..n /\ c = [k \in 0..n |-> c[k]]
    BY <2>0
  <2>2. c[0] = [heap |-> h, vec |-> v]
    <3>1. 0 \in 0..n
      OBVIOUS
    <3> QED
      BY <2>0, <3>1
  <2>3. ASSUME NEW k \in 1..n PROVE c[k] = VectorAppend(c[k - 1].heap, c[k - 1].vec, t[k])
    <3>1. k \in 0..n /\ k # 0
      OBVIOUS
    <3> QED
      BY <2>0, <3>1
  <2> QED
    BY <2>1, <2>2, <2>3 DEF IsRun
<1> QED
  BY <1>1, <1>2, <1>5, <1>6

(* Each vector on the way stands for what has been appended so far.        *)
LEMMA RunRepresents ==
    ASSUME NEW h, NEW v, NEW s, Represents(h, v, s), NEW t, IsSeq(t),
           NEW r, IsRun(r, h, v, t, Len(t))
    PROVE  \A n \in 0..Len(t) : /\ Represents(r[n].heap, r[n].vec, Joined(s, t, n))
                                /\ Extends(h, r[n].heap)
<1>1. Len(t) \in Nat /\ IsSeq(s) /\ IsSeq(h)
  BY SeqProperties DEF Represents, Shape
<1> DEFINE Stands(n) == Represents(r[n].heap, r[n].vec, Joined(s, t, n)) /\ Extends(h, r[n].heap)
           D == {n \in Nat : n <= Len(t) => Stands(n)}
<1>2. 0 \in D
  <2>1. r[0].heap = h /\ r[0].vec = v
    BY DEF IsRun
  <2>2. Joined(s, t, 0) = s
    BY <1>1, JoinedSteps
  <2> QED
    BY <1>1, <2>1, <2>2, ExtendsSelf
<1>3. ASSUME NEW n \in Nat, n \in D PROVE n + 1 \in D
  <2>1. SUFFICES ASSUME n + 1 <= Len(t) PROVE Stands(n + 1)
    OBVIOUS
  <2>2. PICK m \in Nat : m = n + 1 /\ m \in 1..Len(t) /\ m - 1 = n
    BY <1>1, <2>1
  <2>3. PICK g, w, p : g = r[n].heap /\ w = r[n].vec /\ p = Joined(s, t, n)
    OBVIOUS
  <2>4. Represents(g, w, p) /\ Extends(h, g)
    BY <1>1, <1>3, <2>1, <2>3
  <2>5. r[m] = VectorAppend(g, w, t[m])
    BY <2>2, <2>3 DEF IsRun
  <2>6. Joined(s, t, m) = Append(p, t[m])
    <3>1. Appended(Joined(s, t, n), t[m], Joined(s, t, m))
      BY <1>1, <2>2, JoinedSteps
    <3> QED
      BY <2>3, <3>1 DEF Appended
  <2>7. Represents(r[m].heap, r[m].vec, Joined(s, t, m)) /\ Extends(g, r[m].heap)
    BY <2>4, <2>5, <2>6, VectorAppendCorrect
  <2>8. Extends(h, r[m].heap)
    BY <2>4, <2>7, ExtendsTrans
  <2> QED
    BY <2>2, <2>7, <2>8
<1>4. D = Nat
  <2>1. D \subseteq Nat
    OBVIOUS
  <2> HIDE DEF D
  <2> QED
    BY <1>2, <1>3, <2>1, InductionOnNat
<1> QED
  BY <1>1, <1>4

(* AppendAll appends the elements of a sequence in their order.            *)
THEOREM AppendAllCorrect ==
    ASSUME NEW h, NEW v, NEW s, Represents(h, v, s), NEW t, IsSeq(t)
    PROVE  LET r == AppendAll(h, v, t)
           IN  Represents(r.heap, r.vec, s \o t) /\ Extends(h, r.heap)
<1>1. Len(t) \in Nat /\ Len(t) \in 0..Len(t) /\ IsSeq(s)
  BY SeqProperties DEF Represents, Shape
<1>2. PICK r : IsRun(r, h, v, t, Len(t)) /\ AppendAll(h, v, t) = r[Len(t)]
  BY AppendAllRuns
<1>3. PICK n \in 0..Len(t) : n = Len(t)
  BY <1>1
<1>4. Represents(r[n].heap, r[n].vec, Joined(s, t, n)) /\ Extends(h, r[n].heap)
  BY <1>2, RunRepresents
<1>5. Joined(s, t, n) = s \o t
  BY <1>1, <1>3, JoinedSteps
<1> QED
  BY <1>2, <1>3, <1>4, <1>5

(* VectorFrom makes a vector of the elements of a sequence.                *)
THEOREM VectorFromCorrect ==
    ASSUME NEW h, IsSeq(h), NEW t, IsSeq(t)
    PROVE  LET r == VectorFrom(h, t)
           IN  Represents(r.heap, r.vec, t) /\ Extends(h, r.heap)
<1>1. PICK e : e = EmptyVector(h)
  OBVIOUS
<1>2. Represents(e.heap, e.vec, << >>) /\ Extends(h, e.heap)
  BY <1>1, EmptyVectorCorrect
<1>3. PICK r : r = AppendAll(e.heap, e.vec, t) /\ r = VectorFrom(h, t)
  BY <1>1 DEF VectorFrom
<1>4. Represents(r.heap, r.vec, << >> \o t) /\ Extends(e.heap, r.heap)
  BY <1>2, <1>3, AppendAllCorrect
<1>5. << >> \o t = t
  BY DEF IsSeq
<1>6. Extends(h, r.heap)
  BY <1>2, <1>4, ExtendsTrans
<1> QED
  BY <1>3, <1>4, <1>5, <1>6

(* VectorConcat: Concat stands for the two sequences one after the other.  *)
THEOREM VectorConcatCorrect ==
    ASSUME NEW h, NEW v, NEW s, Represents(h, v, s), NEW w, NEW t, Represents(h, w, t)
    PROVE  LET r == VectorConcat(h, v, w)
           IN  Represents(r.heap, r.vec, s \o t) /\ Extends(h, r.heap)
<1>1. VectorElements(h, w) = t /\ IsSeq(t)
  BY VectorElementsCorrect DEF Represents, Shape
<1> QED
  BY <1>1, AppendAllCorrect DEF VectorConcat

(* VectorPrepend: Prepend puts its element before the sequence.            *)
THEOREM VectorPrependCorrect ==
    ASSUME NEW h, NEW v, NEW s, Represents(h, v, s), NEW x
    PROVE  LET r == VectorPrepend(h, v, x)
           IN  Represents(r.heap, r.vec, <<x>> \o s) /\ Extends(h, r.heap)
<1>1. VectorElements(h, v) = s /\ IsSeq(s) /\ IsSeq(h)
  BY VectorElementsCorrect DEF Represents, Shape
<1>2. IsSeq(<<x>>)
  <2>1. <<x>> \in Seq({x})
    OBVIOUS
  <2> QED
    BY <2>1 DEF IsSeq
<1>3. IsSeq(<<x>> \o s)
  BY <1>1, <1>2, ConcatOfSeqs
<1> QED
  BY <1>1, <1>3, VectorFromCorrect DEF VectorPrepend

(* VectorSlice: Slice takes the elements from one index to before another. *)
THEOREM VectorSliceCorrect ==
    ASSUME NEW h, NEW v, NEW s, Represents(h, v, s), NEW from \in Nat, NEW to \in 0..Len(s)
    PROVE  LET r == VectorSlice(h, v, from, to)
           IN  Represents(r.heap, r.vec, SubSeq(s, from + 1, to)) /\ Extends(h, r.heap)
<1>1. VectorElements(h, v) = s /\ IsSeq(s) /\ IsSeq(h)
  BY VectorElementsCorrect DEF Represents, Shape
<1>2. IsSeq(SubSeq(s, from + 1, to))
  <2>1. PICK S : s \in Seq(S)
    BY <1>1 DEF IsSeq
  <2>2. SubSeq(s, from + 1, to) \in Seq(S)
    BY <2>1
  <2> QED
    BY <2>2 DEF IsSeq
<1> QED
  BY <1>1, <1>2, VectorFromCorrect DEF VectorSlice
=============================================================================
