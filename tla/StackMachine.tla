---------------------------- MODULE StackMachine ----------------------------
(***************************************************************************)
(* The virtual machine that runs what the compiler emits: a value stack    *)
(* shared by all calls, a stack of call frames, and the captured variables *)
(* (upvalues), which live in a stack slot until the slot goes away and in  *)
(* the heap from then on.  One action is one instruction.  A runtime error *)
(* has no action: a program that fails gets stuck.  A program that the      *)
(* compiler refuses never starts.                                          *)
(*                                                                         *)
(* Slots are numbered from 0, as in the code; slot i is stack[i + 1].      *)
(***************************************************************************)
EXTENDS Compiler

CONSTANTS
  Programs,    \* the programs to run, a sequence
  MaxFrames    \* the recursion limit, MaxFrameCount

ASSUME MaxFramesAssumption == MaxFrames \in Nat \ {0}

VARIABLES
  prog,      \* the program that runs
  chunks,    \* its code: that of the script and of the functions in it
  stack,     \* the values below sp
  frames,    \* the calls in progress, innermost last
  upvalues,  \* every captured variable: its slot while open, its value then
  open,      \* the open ones, highest slot first (openUpvalues)
  globals,   \* the global names
  output,    \* what the program has printed
  result     \* <<>> while it runs, then <<its value>>

vars == <<prog, chunks, stack, frames, upvalues, open, globals, output, result>>
fixed == <<prog, chunks>>
data == <<upvalues, open, globals, output, result>>

Init ==
  /\ prog \in DOMAIN Programs /\ chunks = Compile(Programs[prog])
  /\ stack = <<>>
  /\ frames = <<[fn |-> 0, ip |-> 1, base |-> 0, ups |-> <<>>, then |-> <<>>]>>
  /\ upvalues = <<>> /\ open = <<>>
  /\ globals = Prelude
  /\ output = <<>> /\ result = IF chunks.refused THEN <<Refused>> ELSE <<>>

sp        == Len(stack)
Frame     == frames[Len(frames)]
Body(fn)  == IF fn = 0 THEN chunks.main ELSE chunks.funs[fn].code
Fn(f)     == chunks.funs[f.fn]
Instr     == Body(Frame.fn)[Frame.ip]
Is(name)  == result = <<>> /\ Instr.op = name

Push(s, v)       == Append(s, v)
Drop(s, n)       == SubSeq(s, 1, Len(s) - n)
Peek(distance)   == stack[sp - distance]
Local(slot)      == stack[Frame.base + slot + 1]
Args(n)          == SubSeq(stack, sp - n + 1, sp)
JumpTo(ip)       == [frames EXCEPT ![Len(frames)].ip = ip]
NextIp           == JumpTo(Frame.ip + 1)
ReplaceTop(n, v) == Push(Drop(stack, n), v)

\* An instruction that only turns the stack into s.
Stacks(name, s) ==
  /\ Is(name)
  /\ stack' = s
  /\ frames' = NextIp
  /\ UNCHANGED <<fixed, data>>

Const    == Stacks("CONST", Push(stack, Instr.v))
Pop      == sp > 0 /\ Stacks("POP", Drop(stack, 1))
PopBelow == Is("POP_BELOW") /\ sp > Instr.n /\ Stacks("POP_BELOW", RemoveAt(stack, sp - Instr.n))
Dup      == Stacks("DUP", Push(stack, Peek(0)))
Not      == Stacks("NOT", ReplaceTop(1, Negate("!", Peek(0))))
Neg      == Stacks("NEG", ReplaceTop(1, Negate("-", Peek(0))))
Binary   == Stacks("BINARY", ReplaceTop(2, Arith(Instr.n, Peek(1), Peek(0))))
MakeSeq  == Stacks("MAKE_SEQ", ReplaceTop(Instr.n, SeqVal(Instr.t, Args(Instr.n))))
Swap     == Stacks("SWAP", ReplaceTop(2, Peek(0)) \o <<Peek(1)>>)
Compose  == Stacks("COMPOSE", ReplaceTop(2, Composed(Peek(1), Peek(0))))
RangeOp  == Stacks("RANGE", ReplaceTop(3, RangeVal(Peek(2), Peek(1), Peek(0))))
CheckTag == Stacks("CHECK_TAG", Push(stack, BoolVal(Peek(0).t = "data" /\ Peek(0).c = Instr.n)))
CheckType == Stacks("CHECK_TYPE", Push(stack, BoolVal(TypeName(Peek(0)) = Instr.n)))
GetElem  == Is("GET_ELEM") /\ Instr.n \in DOMAIN Peek(0).v
            /\ Stacks("GET_ELEM", ReplaceTop(1, Peek(0).v[Instr.n]))
GetRest  == Stacks("GET_REST", ReplaceTop(1, RestOf(Peek(0), Instr.n)))

\* A tuple pattern takes lists too.
CheckLen ==
  Stacks("CHECK_LEN",
    Push(stack, BoolVal(/\ SeqMatches(Instr.t, Peek(0))
                        /\ \/ Len(Peek(0).v) = Instr.n
                           \/ Instr.more /\ Len(Peek(0).v) > Instr.n)))

\* Pushes whether the value counts, and takes it out of its wrapper if so.
Coalesce ==
  Stacks("COALESCE",
    CASE IsEmpty(Peek(0)) -> Push(stack, BoolVal(FALSE))
      [] Unwraps(Peek(0)) -> Push(ReplaceTop(1, Peek(0).v[1]), BoolVal(TRUE))
      [] OTHER            -> Push(stack, BoolVal(TRUE)))

InStack  == Frame.base + Instr.n < sp
GetLocal == Is("GET_LOCAL") /\ InStack /\ Stacks("GET_LOCAL", Push(stack, Local(Instr.n)))
SetLocal ==
  /\ Is("SET_LOCAL") /\ InStack
  /\ Stacks("SET_LOCAL", [stack EXCEPT ![Frame.base + Instr.n + 1] = Peek(0)])

\* A range becomes an iterator, which has no length.
MakeIter ==
  Stacks("MAKE_ITER",
    IF Peek(0).t = "range"
    THEN Push(ReplaceTop(1, [t |-> "iter", v |-> Peek(0).v[1].v, by |-> RangeStep(Peek(0)),
                             to |-> Peek(0).v[3].v]), IntVal(-1))
    ELSE Push(stack, IntVal(Len(Peek(0).v))))

(* Of the three slots from Instr.n on: a sequence, its length, the next    *)
(* index.  An iterator counts by itself; nothing else refers to it.        *)
IterNext ==
  Stacks("ITER_NEXT",
    LET at   == Frame.base + Instr.n + 1
        i    == Local(Instr.n + 2).v
        it   == Local(Instr.n)
        More(slot, v, item) == [stack EXCEPT ![slot] = v] \o <<item, BoolVal(TRUE)>>
        Over == stack \o <<NilVal, BoolVal(FALSE)>>
    IN  CASE it.t = "iter" ->
               IF (it.by > 0 /\ it.v > it.to) \/ (it.by < 0 /\ it.v < it.to) THEN Over
               ELSE More(at, [it EXCEPT !.v = @ + it.by], IntVal(it.v))
          [] it.t # "iter" ->
               IF i < Local(Instr.n + 1).v THEN More(at + 2, IntVal(i + 1), it.v[i + 1]) ELSE Over)

(* A builder is changed in place, whoever refers to it: it is known by the *)
(* slot it was made in, where it stays as long as it is used.              *)
Build  == Stacks("BUILD", Push(stack, [t |-> "builder", at |-> sp + 1,
                                       v |-> IF Instr.n = "list" THEN SeqVal("list", <<>>) ELSE MapVal(<<>>)]))
BuilderAdd ==
  Stacks("BUILDER_ADD",
    LET Grown(v) == IF v.t = "list" THEN SeqVal("list", Append(v.v, Peek(0))) ELSE Put(v, Peek(1), Peek(0))
    IN  Drop([stack EXCEPT ![Peek(Instr.n).at].v = Grown(@)], Instr.n + 1))
Freeze == Stacks("FREEZE", ReplaceTop(1, Peek(0).v))

\* Keys and values alternate; a later one wins.
PairsFrom(v, s) ==
  FoldLeft(LAMBDA m, i : Put(m, s[2 * i - 1], s[2 * i]), v, [i \in 1 .. Len(s) \div 2 |-> i])
MakeRecord ==
  Stacks("MAKE_RECORD",
    LET n == 2 * Instr.n
    IN  IF Instr.extend THEN ReplaceTop(n + 1, PairsFrom(Peek(n), Args(n)))
                        ELSE ReplaceTop(n, PairsFrom(Record(<<>>), Args(n))))
MakeMap  == Stacks("MAKE_MAP", ReplaceTop(Instr.n, PairsFrom(MapVal(<<>>), Args(Instr.n))))
GetIndex == Is("GET_INDEX") /\ ElementAt(Peek(1), Peek(0)) # <<>>
            /\ Stacks("GET_INDEX", ReplaceTop(2, ElementAt(Peek(1), Peek(0))[1]))
GetField == Is("GET_FIELD") /\ HasField(Peek(0), Instr.n)
            /\ Stacks("GET_FIELD", ReplaceTop(1, Peek(0).v[Instr.n]))
\* e?.x looks into Some and Ok, and leaves None, Fail and nil as they are.
OptionalField ==
  /\ Is("OPTIONAL_FIELD")
  /\ \/ IsEmpty(Peek(0)) \/ HasField(Peek(0), Instr.n)
     \/ Unwraps(Peek(0)) /\ HasField(Peek(0).v[1], Instr.n)
  /\ Stacks("OPTIONAL_FIELD",
       CASE IsEmpty(Peek(0)) -> stack
         [] Unwraps(Peek(0)) -> ReplaceTop(1, [Peek(0) EXCEPT !.v[1] = @.v[Instr.n]])
         [] OTHER            -> ReplaceTop(1, Peek(0).v[Instr.n]))

\* <<obj>> with the value at the end of the path replaced, <<>> if that is an error.
RECURSIVE Updated(_, _, _)
Updated(obj, path, v) ==
  LET key   == Head(path)
      child == CASE HasField(obj, key.v)                       -> obj.v[key.v]
                 [] obj.t = "map" /\ key \in DOMAIN obj.v     -> obj.v[key]
                 [] obj.t = "list" /\ key.v + 1 \in DOMAIN obj.v -> obj.v[key.v + 1]
                 [] OTHER                                      -> NilVal
      new   == Updated(child, Tail(path), v)
  IN  CASE path = <<>>                     -> <<v>>
        [] path # <<>> /\ CanPut(obj, key) -> IF new = <<>> THEN <<>> ELSE <<Put(obj, key, new[1])>>
        [] OTHER                           -> <<>>
UpdatePath ==
  /\ Is("UPDATE_PATH")
  /\ LET new == Updated(Peek(Instr.n + 1), Drop(Args(Instr.n + 1), 1), Peek(0))
     IN  new # <<>> /\ Stacks("UPDATE_PATH", ReplaceTop(Instr.n + 2, new[1]))

GoTo        == Is("JUMP") /\ frames' = JumpTo(Instr.to) /\ UNCHANGED <<fixed, stack, data>>
JumpIfFalse ==
  /\ Is("JUMP_IF_FALSE")
  /\ frames' = IF Truthy(Peek(0)) THEN NextIp ELSE JumpTo(Instr.to)
  /\ UNCHANGED <<fixed, stack, data>>

GetGlobal ==
  /\ Is("GET_GLOBAL") /\ Instr.n \in DOMAIN globals
  /\ Stacks("GET_GLOBAL", Push(stack, globals[Instr.n]))
SetGlobal ==
  /\ Is("SET_GLOBAL")
  /\ globals' = (Instr.n :> Peek(0)) @@ globals
  /\ frames' = NextIp
  /\ UNCHANGED <<fixed, stack, upvalues, open, output, result>>

-----------------------------------------------------------------------------
(* Captured variables *)

\* The open upvalues at or above a slot, which the walk down the list meets.
OpenAbove(list, cells, slot) ==
  SubSeq(list, 1, Max({0} \cup {n \in DOMAIN list :
                                  \A i \in 1 .. n : cells[list[i]].loc >= slot}))

\* Closes the upvalues at or above a slot: each keeps the value of its slot.
CloseUpvalues(slot) ==
  LET gone == OpenAbove(open, upvalues, slot)
  IN  /\ upvalues' = [u \in DOMAIN upvalues |->
                        IF u \in Range(gone) THEN [loc |-> -1, val |-> stack[upvalues[u].loc + 1]]
                                             ELSE upvalues[u]]
      /\ open' = SubSeq(open, Len(gone) + 1, Len(open))

\* Adds the upvalue of a slot to m, reusing the open one if there is one.
CaptureUpvalue(m, slot) ==
  LET above == OpenAbove(m.open, m.cells, slot + 1)
      n     == Len(above)
      here  == Len(m.open) > n /\ m.cells[m.open[n + 1]].loc = slot
      new   == Len(m.cells) + 1
  IN  IF here THEN [m EXCEPT !.ids = Append(@, m.open[n + 1])]
      ELSE [cells |-> Append(m.cells, [loc |-> slot, val |-> NilVal]),
            open  |-> InsertAt(m.open, n + 1, new), ids |-> Append(m.ids, new)]

\* A slot may be the one the closure itself is about to take.
Closure ==
  LET Add(m, u) == IF u.isLocal THEN CaptureUpvalue(m, Frame.base + u.index)
                                ELSE [m EXCEPT !.ids = Append(@, Frame.ups[u.index])]
      m == FoldLeft(Add, [cells |-> upvalues, open |-> open, ids |-> <<>>], Instr.ups)
  IN  /\ Is("CLOSURE")
      /\ \A u \in Range(Instr.ups) : u.isLocal => Frame.base + u.index <= sp
      /\ upvalues' = m.cells /\ open' = m.open
      /\ stack' = Push(stack, [t |-> "fun", fn |-> Instr.fn, ups |-> m.ids])
      /\ frames' = NextIp
      /\ UNCHANGED <<fixed, globals, output, result>>

Cell == upvalues[Frame.ups[Instr.n]]
GetUpvalue ==
  Stacks("GET_UPVALUE", Push(stack, IF Cell.loc >= 0 THEN stack[Cell.loc + 1] ELSE Cell.val))
SetUpvalue ==
  /\ Is("SET_UPVALUE")
  /\ IF Cell.loc >= 0
     THEN stack' = [stack EXCEPT ![Cell.loc + 1] = Peek(0)] /\ UNCHANGED upvalues
     ELSE upvalues' = [upvalues EXCEPT ![Frame.ups[Instr.n]].val = Peek(0)] /\ UNCHANGED stack
  /\ frames' = NextIp
  /\ UNCHANGED <<fixed, open, globals, output, result>>

\* A scope that ends without looking for captured locals.
CloseScopeOnlyPops ==
  /\ Is("CLOSE_SCOPE") /\ sp > Instr.n
  /\ stack' = ReplaceTop(Instr.n + 1, Peek(0))
  /\ frames' = NextIp
  /\ UNCHANGED <<fixed, upvalues, open, globals, output, result>>
\* Takes n locals away from under the result of their scope.
CloseScope ==
  /\ Is("CLOSE_SCOPE") /\ sp > Instr.n
  /\ CloseUpvalues(sp - 1 - Instr.n)
  /\ stack' = ReplaceTop(Instr.n + 1, Peek(0))
  /\ frames' = NextIp
  /\ UNCHANGED <<fixed, globals, output, result>>
CloseUpvalue ==
  /\ Is("CLOSE_UPVALUE")
  /\ CloseUpvalues(sp - 1)
  /\ stack' = Drop(stack, 1)
  /\ frames' = NextIp
  /\ UNCHANGED <<fixed, globals, output, result>>

-----------------------------------------------------------------------------
(* Calls.  The callee lies under its n arguments.  Native code that calls  *)
(* and waits for the value keeps what it will do then in the frame it      *)
(* entered: apply the rest of a composition to the value, or take it as    *)
(* the default of the next parameter.                                      *)

ThenApply(f)            == [k |-> "apply", f |-> f, args |-> <<>>]
ThenPass(f, args)       == [k |-> "default", f |-> f, args |-> args]
FrameOf(fn, ups, base, then) == [fn |-> fn, ip |-> 1, base |-> base, ups |-> ups, then |-> then]

\* The parameters of a function from its arguments: a variadic one takes a list.
Variadics(f)         == Fn(f).variadic
Packed(f, args)      ==
  IF Variadics(f) THEN Append(SubSeq(args, 1, Fn(f).arity),
                              SeqVal("list", SubSeq(args, Fn(f).arity + 1, Len(args))))
                  ELSE args
RequiredArity(f)     == IF Variadics(f) THEN 0 ELSE Fn(f).arity - Len(Fn(f).defs)
\* Defaults taken from the first one on, whatever has been given.
DefaultOfFirst(f, n) == Fn(f).defs[1]
\* The default that comes after the first n arguments.
DefaultOf(f, n)      == Fn(f).defs[n - RequiredArity(f) + 1]
Enters(f, args)      == IF Variadics(f) THEN Len(args) >= Fn(f).arity ELSE Len(args) = Fn(f).arity
TakesDefault(f, n)   == ~Variadics(f) /\ n \in RequiredArity(f) .. Fn(f).arity - 1
MakesPartial(f, n)   == ~Variadics(f) /\ n \in 1 .. RequiredArity(f) - 1

(* The machine m (its stack without the callee and its arguments, the      *)
(* frames, the output) after f has been called with args; Wrong, if that   *)
(* is an error.  Resume goes on with the value of a call.                  *)
Wrong == [ok |-> FALSE]
RECURSIVE Apply(_, _, _, _), Resume(_, _, _)
Apply(m, f, args, then) ==
  CASE f.t = "partial"                     -> Apply(m, f.f, f.args \o args, then)
    [] f.t = "composed" /\ Len(args) = 1   -> Apply(m, f.g, args, <<ThenApply(f.f)>> \o then)
    [] f.t = "ctor"                        -> Resume(m, Data(f.c, args), then)
    [] f.t = "builtin"                     ->
         Resume([m EXCEPT !.output = Append(@, [i \in DOMAIN args |-> Shown(args[i])])], NilVal, then)
    [] f.t = "fun" /\ Enters(f, args) /\ Len(m.frames) < MaxFrames ->
         [m EXCEPT !.stack = @ \o Packed(f, args),
                   !.frames = Append(@, FrameOf(f.fn, f.ups, Len(m.stack), then))]
    [] f.t = "fun" /\ TakesDefault(f, Len(args)) ->
         LET d == DefaultOf(f, Len(args))
         IN  IF d.fn = 0 THEN Apply(m, f, Append(args, d.v), then)
             ELSE [m EXCEPT !.frames = Append(@, FrameOf(d.fn, f.ups, Len(m.stack),
                                                         <<ThenPass(f, args)>> \o then))]
    [] f.t = "fun" /\ MakesPartial(f, Len(args)) ->
         Resume(m, [t |-> "partial", f |-> f, args |-> args], then)
    [] OTHER -> Wrong
Resume(m, v, then) ==
  IF then = <<>> THEN [m EXCEPT !.stack = Append(@, v)]
  ELSE Apply(m, Head(then).f, Append(Head(then).args, v), Tail(then))

\* The machine with the stack and the frames cut back.
Machine(s, fs) == [ok |-> TRUE, stack |-> s, frames |-> fs, output |-> output]
GoesOn(m) == m.ok /\ stack' = m.stack /\ frames' = m.frames /\ output' = m.output

\* Too few arguments, but some, make a partial application.
CallFunction ==
  /\ Is("CALL")
  /\ GoesOn(Apply(Machine(Drop(stack, Instr.n + 1), NextIp), Peek(Instr.n), Args(Instr.n), <<>>))
  /\ UNCHANGED <<fixed, upvalues, open, globals, result>>

SpreadArg == Stacks("SPREAD_ARG", ReplaceTop(1, [t |-> "spread", v |-> Peek(0)]))
Unspread(args) ==
  FlattenSeq([i \in DOMAIN args |-> IF args[i].t = "spread" THEN args[i].v.v ELSE <<args[i]>>])
CallSpread ==
  /\ Is("CALL_SPREAD")
  /\ GoesOn(Apply(Machine(Drop(stack, Instr.n + 1), NextIp), Peek(Instr.n),
                  Unspread(Args(Instr.n)), <<>>))
  /\ UNCHANGED <<fixed, upvalues, open, globals, result>>

(* A tail call of a closure takes over the frame; any other is a plain     *)
(* call.  The defaults of missing arguments are not filled in.             *)
ReplacesFrame(f, n) ==
  f.t = "fun" /\ n >= RequiredArity(f) /\ (Variadics(f) => n >= Fn(f).arity)
TailCall ==
  /\ Is("TAIL_CALL")
  /\ IF ReplacesFrame(Peek(Instr.n), Instr.n)
     THEN LET f == Peek(Instr.n)
          IN  /\ Variadics(f) \/ Instr.n <= Fn(f).arity
              /\ CloseUpvalues(Frame.base)
              /\ stack' = SubSeq(stack, 1, Frame.base) \o Packed(f, Args(Instr.n))
              /\ frames' = Append(Front(frames), FrameOf(f.fn, f.ups, Frame.base, Frame.then))
              /\ UNCHANGED output
     ELSE /\ GoesOn(Apply(Machine(Drop(stack, Instr.n + 1), NextIp), Peek(Instr.n),
                          Args(Instr.n), <<>>))
          /\ UNCHANGED <<upvalues, open>>
  /\ UNCHANGED <<fixed, globals, result>>

(* Leaves the innermost frame with value v, for the frames fs below and    *)
(* what native code does then.  Leaving the script ends the program.       *)
Leave(v, base, fs, then) ==
  /\ CloseUpvalues(base)
  /\ IF fs = <<>>
     THEN stack' = <<>> /\ result' = <<v>> /\ frames' = <<>> /\ UNCHANGED output
     ELSE GoesOn(Resume(Machine(SubSeq(stack, 1, base), fs), v, then)) /\ UNCHANGED result
  /\ UNCHANGED <<fixed, globals>>

(* The code of a default has run when any frame returns: the loop that     *)
(* runs it stops at the first OP_RETURN and drops the frames above.        *)
Waiting      == {i \in DOMAIN frames : frames[i].then # <<>>}
IsDefault(i) == i \in Waiting /\ Head(frames[i].then).k = "default"
LeaveFunction ==
  /\ Is("RETURN")
  /\ LET n == IF Waiting # {} /\ IsDefault(Max(Waiting)) THEN Max(Waiting) ELSE Len(frames)
     IN  Leave(Peek(0), frames[n].base, SubSeq(frames, 1, n - 1), frames[n].then)

(* e? yields what Some or Ok wraps, and returns None and Fail to the        *)
(* caller.  That is an error to native code, which gives up: what it had    *)
(* left to do is lost, and if it was running a default, its caller returns  *)
(* in its place, with what lies on top of the stack.                        *)
UnwrapOrReturn ==
  \/ Is("UNWRAP_OR_RETURN") /\ Unwraps(Peek(0))
     /\ Stacks("UNWRAP_OR_RETURN", ReplaceTop(1, Peek(0).v[1]))
  \/ /\ Is("UNWRAP_OR_RETURN") /\ IsEmpty(Peek(0)) /\ Peek(0).t = "data"
     /\ LET bad  == {i \in DOMAIN frames : IsDefault(i)}
            call == Head(frames[Min(bad)].then)
            n    == IF bad = {} THEN Len(frames) ELSE Min(bad) - 1
            v    == IF bad = {} THEN Peek(0) ELSE Last(<<call.f>> \o call.args)
        IN  Leave(v, frames[n].base, [i \in 1 .. n - 1 |-> [frames[i] EXCEPT !.then = <<>>]], <<>>)

\* x |>> f takes the value out of Some or Ok; None and Fail are errors.
UnwrapOrPanic ==
  /\ Is("UNWRAP_OR_PANIC") /\ (IsEmpty(Peek(0)) => Peek(0).t = "nil")
  /\ Stacks("UNWRAP_OR_PANIC", IF Unwraps(Peek(0)) THEN ReplaceTop(1, Peek(0).v[1]) ELSE stack)

Halt ==
  /\ Is("HALT")
  /\ frames' = <<>>
  /\ result' = <<IF stack = <<>> THEN NilVal ELSE Peek(0)>>
  /\ stack' = IF stack = <<>> THEN <<>> ELSE Drop(stack, 1)
  /\ UNCHANGED <<fixed, upvalues, open, globals, output>>

Done == result # <<>> /\ UNCHANGED vars

Next ==
  \/ Const \/ Pop \/ PopBelow \/ Dup \/ Swap \/ Not \/ Neg \/ Binary \/ MakeSeq
  \/ RangeOp \/ MakeIter \/ Build \/ BuilderAdd \/ Freeze \/ Compose
  \/ MakeRecord \/ MakeMap \/ GetIndex \/ GetField \/ OptionalField \/ UpdatePath
  \/ CheckTag \/ CheckType \/ CheckLen \/ GetElem \/ GetRest \/ Coalesce
  \/ GetLocal \/ SetLocal \/ IterNext \/ GoTo \/ JumpIfFalse \/ GetGlobal \/ SetGlobal
  \/ Closure \/ GetUpvalue \/ SetUpvalue \/ CloseScope \/ CloseUpvalue
  \/ CallFunction \/ SpreadArg \/ CallSpread \/ TailCall \/ LeaveFunction
  \/ UnwrapOrReturn \/ UnwrapOrPanic \/ Halt \/ Done

Spec == Init /\ [][Next]_vars

-----------------------------------------------------------------------------
(* The compiler counts the slots its code will occupy and addresses every   *)
(* variable by that count (slotCount); the machine only knows the stack it  *)
(* has.  Whatever path led to an instruction that addresses slots, through  *)
(* branches, loops, failed patterns and closed scopes, the two agree; and   *)
(* nothing but its value is left of a program.                              *)
Addressing == {"GET_LOCAL", "SET_LOCAL", "CLOSE_SCOPE", "ITER_NEXT", "CLOSURE", "HALT"}
SlotsAgree == (result = <<>> /\ Instr.op \in Addressing) => sp - Frame.base = Instr.at

(* openUpvalues is walked from the top of the stack and stopped at the      *)
(* first slot below: it must be sorted, name a slot once, and no open       *)
(* variable may outlive its slot, or closing and sharing go wrong.          *)
UpvaluesOpen ==
  /\ \A i, j \in DOMAIN open : i < j => upvalues[open[i]].loc > upvalues[open[j]].loc
  /\ \A u \in DOMAIN upvalues :
       IF u \in Range(open) THEN upvalues[u].loc \in 0 .. sp - 1 ELSE upvalues[u].loc = -1

(* A call compiled as a tail call gives up its frame, so nothing may be     *)
(* left to do after it but to go to the end of the function.                *)
RECURSIVE OnlyReturns(_, _)
OnlyReturns(code, ip) ==
  CASE code[ip].op = "RETURN"      -> TRUE
    [] code[ip].op = "JUMP"        -> OnlyReturns(code, code[ip].to)
    [] code[ip].op = "CLOSE_SCOPE" -> OnlyReturns(code, ip + 1)
    [] OTHER                       -> FALSE
TailCallsReturn ==
  (result = <<>> /\ Instr.op = "TAIL_CALL") => OnlyReturns(Body(Frame.fn), Frame.ip + 1)

(* All three: a frame is what the compiler took it for, for as long as the  *)
(* code of its function needs it.                                           *)
FramesSound == SlotsAgree /\ UpvaluesOpen /\ TailCallsReturn
=============================================================================
