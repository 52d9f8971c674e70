------------------------------ MODULE Compiler ------------------------------
(***************************************************************************)
(* The bytecode compiler of the core language.                             *)
(*                                                                         *)
(* A compiler state c is the chain of function compilers, innermost last.  *)
(* Each one keeps the code it has emitted, the named locals with the stack *)
(* slot they live in, its own count of the slots in use (slotCount), the   *)
(* captured variables, the loops being compiled and whether the expression *)
(* it compiles is in tail position.  Jump operands are absolute here;      *)
(* constants and names sit in the instructions instead of a constant pool. *)
(* Every instruction also records slotCount at the time it was emitted, a  *)
(* ghost the machine never reads.                                          *)
(***************************************************************************)
EXTENDS Syntax, SequencesExt

NewFunctionCompiler(params, script) ==
  [code |-> <<>>, script |-> script, tail |-> FALSE,
   depth |-> IF script THEN 0 ELSE 1,
   locals |-> [i \in DOMAIN params |->
                 [x |-> params[i], depth |-> 1, slot |-> i - 1, captured |-> FALSE]],
   slot |-> Len(params), ups |-> <<>>, loops |-> <<>>, globals |-> {}, funs |-> <<>>,
   refused |-> FALSE]

Cur(c)         == c[Len(c)]
Slots(c)       == Cur(c).slot
Here(c)        == Len(Cur(c).code)
SetSlots(c, n) == [c EXCEPT ![Len(c)].slot = n]
SetTail(c, b)  == [c EXCEPT ![Len(c)].tail = b]
Begin(c)       == [c EXCEPT ![Len(c)].depth = @ + 1]
\* An error of the compiler: there will be no code at all.
Refuse(c)      == [c EXCEPT ![1].refused = TRUE]

\* Emits instruction i, after which the stack is n slots higher.
Emit(c, i, n) ==
  [c EXCEPT ![Len(c)].code = Append(@, i @@ [at |-> Slots(c)]),
            ![Len(c)].slot = @ + n]
Op(c, name, n)       == Emit(c, [op |-> name], n)
OpN(c, name, arg, n) == Emit(c, [op |-> name, n |-> arg], n)
Constant(c, v)       == Emit(c, [op |-> "CONST", v |-> v], 1)
Pops(c, n)           == FoldLeft(LAMBDA d, i : Op(d, "POP", -1), c, [i \in 1 .. n |-> i])

\* A jump is emitted first and given its target when that is reached.
Jump(c, name)        == Emit(c, [op |-> name, to |-> 0], 0)
JumpBack(c, to)      == Emit(c, [op |-> "JUMP", to |-> to], 0)
Patch(c, at)         == [c EXCEPT ![Len(c)].code[at].to = Here(c) + 1]
PatchAll(c, S)       == [c EXCEPT ![Len(c)].code =
                           [i \in DOMAIN @ |-> IF i \in S THEN [@[i] EXCEPT !.to = Here(c) + 1]
                                                          ELSE @[i]]]

-----------------------------------------------------------------------------
(* Scopes and variables *)

AddLocal(c, x, slot) ==
  [c EXCEPT ![Len(c)].locals =
     Append(@, [x |-> x, depth |-> Cur(c).depth, slot |-> slot, captured |-> FALSE])]

EndScopeNoEmit(c) ==
  LET d == Cur(c).depth - 1
  IN  [c EXCEPT ![Len(c)].depth = d,
                ![Len(c)].locals = SelectSeq(@, LAMBDA l : l.depth <= d)]

\* A removal that moves the locals and forgets the count of the slots.
RemoveSlotUncounted(c, slot) ==
  [c EXCEPT ![Len(c)].locals = [i \in DOMAIN @ |->
              IF @[i].slot > slot THEN [@[i] EXCEPT !.slot = @ - 1] ELSE @[i]]]
\* The slot under removed bindings goes: locals above it move down.
RemoveSlot(c, slot) ==
  [c EXCEPT ![Len(c)].slot = @ - 1,
            ![Len(c)].locals = [i \in DOMAIN @ |->
               IF @[i].slot > slot THEN [@[i] EXCEPT !.slot = @ - 1] ELSE @[i]]]

\* Index of the innermost local named x of function compiler k, 0 if none.
LocalIndex(c, k, x) ==
  LET S == {i \in DOMAIN c[k].locals : c[k].locals[i].x = x}
  IN  IF S = {} THEN 0 ELSE Max(S)
IsLocal(c, x)   == LocalIndex(c, Len(c), x) # 0
LocalSlot(c, x) == Cur(c).locals[LocalIndex(c, Len(c), x)].slot

\* Adds upvalue u to function compiler k unless it has it, and returns both.
AddUpvalue(c, k, u) ==
  LET S == {i \in DOMAIN c[k].ups : c[k].ups[i] = u}
  IN  IF S # {} THEN [c |-> c, i |-> Min(S)]
      ELSE [c |-> [c EXCEPT ![k].ups = Append(@, u)], i |-> Len(c[k].ups) + 1]

(* The upvalue of function compiler k for variable x, 0 if no enclosing    *)
(* function has such a local.  The local is marked as captured, and every  *)
(* function between gets an upvalue of its own.                            *)
RECURSIVE ResolveUpvalue(_, _, _)
ResolveUpvalue(c, k, x) ==
  IF k = 1 THEN [c |-> c, i |-> 0]
  ELSE LET l == LocalIndex(c, k - 1, x)
       IN  IF l # 0
           THEN AddUpvalue([c EXCEPT ![k - 1].locals[l].captured = TRUE], k,
                           [isLocal |-> TRUE, index |-> c[k - 1].locals[l].slot])
           ELSE LET outer == ResolveUpvalue(c, k - 1, x)
                IN  IF outer.i = 0 THEN outer
                    ELSE AddUpvalue(outer.c, k, [isLocal |-> FALSE, index |-> outer.i])

CompileIdentifier(c, x) ==
  IF IsLocal(c, x) THEN OpN(c, "GET_LOCAL", LocalSlot(c, x), 1)
  ELSE Let(ResolveUpvalue(c, Len(c), x), LAMBDA r :
         IF r.i # 0 THEN OpN(r.c, "GET_UPVALUE", r.i, 1) ELSE OpN(c, "GET_GLOBAL", x, 1))

-----------------------------------------------------------------------------
RECURSIVE CompileExpression(_, _), CompileStatement(_, _), CompilePattern(_, _)

CompileAll(c, es) == FoldLeft(LAMBDA d, e : Let(d, LAMBDA x : CompileExpression(x, e)), c, es)

\* An operand that stays in the tail position of its expression.
OperandInTail(c, e) == CompileExpression(c, e)
\* An operand: its value is used, so a call in it is no tail call.
Operand(c, e) == SetTail(CompileExpression(SetTail(c, FALSE), e), Cur(c).tail)

Operands(c, es) == SetTail(CompileAll(SetTail(c, FALSE), es), Cur(c).tail)

CompilePrefix(c, e) == Op(Operand(c, e.e), IF e.op = "!" THEN "NOT" ELSE "NEG", 0)

CompileInfix(c, e) ==
  Emit(Operands(c, <<e.l, e.r>>), [op |-> "BINARY", n |-> e.op], -1)

(* && and || leave the left operand as the result when it decides; the     *)
(* right one is the result otherwise and keeps the tail position.          *)
CompileLogicalOp(c, e) ==
  Let(Jump(Operand(c, e.l), "JUMP_IF_FALSE"), LAMBDA test :
  Let(IF e.op = "&&" THEN test ELSE Patch(Jump(test, "JUMP"), Here(test)), LAMBDA over :
    SetTail(Patch(CompileExpression(Op(over, "POP", -1), e.r), Here(over)), Cur(c).tail)))

CompileCoalesce(c, e) ==
  Let(Jump(Op(Operand(c, e.l), "COALESCE", 2), "JUMP_IF_FALSE"), LAMBDA test :
  Let(Jump(Op(test, "POP", -1), "JUMP"), LAMBDA skip :
    SetTail(Patch(CompileExpression(Pops(Patch(skip, Here(test)), 2), e.r), Here(skip)),
            Cur(c).tail)))

CompilePostfix(c, e) == Op(Operand(c, e.e), "UNWRAP_OR_RETURN", 0)

CompileSeqLit(c, e) ==
  Emit(Operands(c, e.es), [op |-> "MAKE_SEQ", t |-> e.t, n |-> Len(e.es)], 1 - Len(e.es))

\* Names and values alternate.  The order of the fields is that of a Go map: any.
CompileRecord(c, e) ==
  LET pairs == FlattenSeq([i \in DOMAIN e.order |->
                             <<Lit(FieldName(e.fs[e.order[i]].x)), e.fs[e.order[i]].e>>])
  IN  Emit(Operands(c, e.base \o pairs),
           [op |-> "MAKE_RECORD", n |-> Len(e.fs), extend |-> e.base # <<>>],
           IF e.base # <<>> THEN -Len(pairs) ELSE 1 - Len(pairs))
CompileMap(c, e)    == OpN(Operands(c, e.es), "MAKE_MAP", Len(e.es), 1 - Len(e.es))
CompileMember(c, e) ==
  OpN(Operand(c, e.e), IF e.optional THEN "OPTIONAL_FIELD" ELSE "GET_FIELD", e.x, 0)
CompileIndex(c, e)  == Op(Operands(c, <<e.e, e.i>>), "GET_INDEX", -1)

\* The parts keep the tail position of the assignment.
CompilePathUpdate(c, e) ==
  OpN(CompileAll(c, <<e.e>> \o e.path \o <<e.v>>), "UPDATE_PATH", Len(e.path), -Len(e.path) - 1)

CompileRange(c, e) == Op(Operands(c, <<e.a, e.next, e.b>>), "RANGE", -2)

\* A call with a spread argument is never a tail call.
CallIn(c, d, n) ==
  OpN(d, IF Cur(c).tail /\ ~Cur(c).script THEN "TAIL_CALL" ELSE "CALL", n, -n)
CompileCall(c, e) ==
  Let(Operands(Operand(c, e.f), e.es), LAMBDA args :
    IF \E i \in DOMAIN e.es : e.es[i].k = "spreadarg"
    THEN OpN(args, "CALL_SPREAD", Len(e.es), -Len(e.es)) ELSE CallIn(c, args, Len(e.es)))

(* x |> f: x is evaluated first.  Piped into a call, x waits in a hidden    *)
(* local under the callee.                                                  *)
CompilePipe(c, e) ==
  Let(CompileExpression(SetTail(c, FALSE), e.l), LAMBDA x :
    SetTail(
      IF e.r.k # "call"
      THEN CallIn(c, Op(CompileExpression(x, e.r), "SWAP", 0), 1)
      ELSE Let(PipeArgs(e.r.es, Id(" pipe")), LAMBDA es :
           Let(AddLocal(Begin(x), " pipe", Slots(x) - 1), LAMBDA piped :
           Let(CompileAll(CompileExpression(piped, e.r.f), es), LAMBDA args :
             EndScopeNoEmit(OpN(OpN(args, "CALL", Len(es), -Len(es)), "POP_BELOW", 1, -1))))),
      Cur(c).tail))
CompilePipeUnwrap(c, e) ==
  Op(SetTail(CompilePipe(SetTail(c, FALSE), e), Cur(c).tail), "UNWRAP_OR_PANIC", 0)

\* f $ x leaves the tail position to its operands.
CompileApply(c, e)   == OpN(CompileAll(c, <<e.l, e.r>>), "CALL", 1, -1)
CompileCompose(c, e) == Op(CompileAll(c, <<e.l, e.r>>), "COMPOSE", -1)

(* Updates the innermost variable of that name, and declares a new one in  *)
(* the current scope if there is none: the value stays on the stack as the *)
(* local, and a copy of it is the result.  A function may not assign to a  *)
(* global.                                                                 *)
CompileAssign(c, e) ==
  Let(CompileExpression(c, e.e), LAMBDA v :
  Let(ResolveUpvalue(v, Len(v), e.x), LAMBDA r :
    CASE IsLocal(v, e.x) -> OpN(v, "SET_LOCAL", LocalSlot(v, e.x), 0)
      [] ~IsLocal(v, e.x) /\ r.i # 0 -> OpN(r.c, "SET_UPVALUE", r.i, 0)
      [] ~IsLocal(v, e.x) /\ r.i = 0 ->
           IF e.x \in v[1].globals /\ ~Cur(v).script THEN Refuse(v)
           ELSE IF e.x \notin v[1].globals /\ (Cur(v).depth > 0 \/ ~Cur(v).script)
                THEN AddLocal(Op(v, "DUP", 1), e.x, Slots(v) - 1)
           ELSE OpN([v EXCEPT ![1].globals = @ \cup {e.x}], "SET_GLOBAL", e.x, 0)))

-----------------------------------------------------------------------------
(* Destructuring.  The value lies on the stack while its parts are fetched  *)
(* from it, and goes away from under the names it has given.                *)

\* Part i of the value in a slot, for pattern p.
GetPart(c, p, slot, i) ==
  IF p.k = "prec" THEN OpN(OpN(c, "GET_LOCAL", slot, 1), "GET_FIELD", p.xs[i], 0)
                  ELSE OpN(OpN(c, "GET_LOCAL", slot, 1), "GET_ELEM", i, 0)

\* A matched part that is no name goes, from under the names it bound if any.
DropPart(before, c, p) ==
  LET keep == Slots(c) - Slots(before)
  IN  CASE p.k \in {"pid", "spread"} -> c
        [] p.k \notin {"pid", "spread"} /\ keep = 0 -> Op(c, "POP", -1)
        [] OTHER -> RemoveSlot(OpN(c, "POP_BELOW", keep, 0), Slots(before) - 1)

\* Gives every part of pattern p to NameOf, and drops the value.
BindParts(c, p, NameOf(_, _)) ==
  DropPart(c, FoldLeftDomain(LAMBDA d, i : NameOf(GetPart(d, p, Slots(c) - 1, i), p.ps[i]), c, p.ps), p)

\* const: every name is new.  A global is not registered as one.
Nested(c) == Cur(c).depth > 0 \/ ~Cur(c).script
RECURSIVE DeclarePattern(_, _), AssignPattern(_, _)
DeclarePattern(c, p) ==
  CASE p.k = "pid" /\ Nested(c)  -> AddLocal(c, p.x, Slots(c) - 1)
    [] p.k = "pid" /\ ~Nested(c) -> Op(OpN(c, "SET_GLOBAL", p.x, 0), "POP", -1)
    [] p.k = "wild"              -> Op(c, "POP", -1)
    [] OTHER                     -> BindParts(c, p, DeclarePattern)
CompileConstant(c, e) ==
  Let(CompileExpression(c, e.e), LAMBDA v :
    CASE e.p.k # "pid"                -> DeclarePattern(v, e.p)
      [] e.p.k = "pid" /\ Nested(v)  -> AddLocal(Op(v, "DUP", 1), e.p.x, Slots(v) - 1)
      [] e.p.k = "pid" /\ ~Nested(v) -> OpN(v, "SET_GLOBAL", e.p.x, 0))

\* Assignment: every name is looked up, and declared in a scope that has none.
AssignPattern(c, p) ==
  CASE p.k = "wild" -> Op(c, "POP", -1)
    [] p.k = "pid"  ->
         Let(ResolveUpvalue(c, Len(c), p.x), LAMBDA r :
           CASE IsLocal(c, p.x) -> Op(OpN(c, "SET_LOCAL", LocalSlot(c, p.x), 0), "POP", -1)
             [] ~IsLocal(c, p.x) /\ r.i # 0 -> Op(OpN(r.c, "SET_UPVALUE", r.i, 0), "POP", -1)
             [] ~IsLocal(c, p.x) /\ r.i = 0 ->
                  IF Cur(c).depth > 0 THEN AddLocal(c, p.x, Slots(c) - 1)
                                      ELSE Op(OpN(c, "SET_GLOBAL", p.x, 0), "POP", -1))
    [] OTHER -> BindParts(c, p, AssignPattern)
CompilePatternAssign(c, e) == Constant(AssignPattern(CompileExpression(c, e.e), e.p), NilVal)

-----------------------------------------------------------------------------
(* Blocks and conditionals *)

\* Values that the code from before to c left on the stack and no local names.
Results(before, c) == (Slots(c) - Slots(before)) - (Len(Cur(c).locals) - Len(Cur(before).locals))

KeepOneResult(before, c) ==
  CASE Results(before, c) = 0 -> Constant(c, NilVal)
    [] Results(before, c) > 1 -> Pops(c, Results(before, c) - 1)
    [] OTHER                  -> c

\* Only the last statement yields a value, and it alone may be a tail call.
CompileStatements(c, ss, tail) ==
  LET Step(d, i) ==
        Let(SetTail(d, tail /\ i = Len(ss)), LAMBDA before :
        Let(CompileStatement(before, ss[i]), LAMBDA after :
          IF i < Len(ss) THEN Pops(after, Results(before, after))
                         ELSE KeepOneResult(before, after)))
  IN  IF ss = <<>> THEN Constant(c, NilVal)
      ELSE SetTail(FoldLeftDomain(Step, c, ss), Cur(c).tail)

CompileBlockExpression(c, b) ==
  Let(CompileStatements(Begin(c), b.ss, Cur(c).tail), LAMBDA body :
  Let(Len(Cur(body).locals) - Len(Cur(c).locals), LAMBDA n :
    [IF n > 0 THEN OpN(body, "CLOSE_SCOPE", n, -n) ELSE body
       EXCEPT ![Len(c)].depth = Cur(c).depth,
              ![Len(c)].locals = SubSeq(@, 1, Len(Cur(c).locals))]))

CompileIf(c, e) ==
  Let(Operand(c, e.c), LAMBDA cond :
  Let(Jump(cond, "JUMP_IF_FALSE"), LAMBDA test :
  Let(Jump(CompileExpression(Op(test, "POP", -1), e.th), "JUMP"), LAMBDA over :
  Let(Op(SetSlots(Patch(over, Here(test)), Slots(cond)), "POP", -1), LAMBDA else :
  Let(IF e.el = <<>> THEN Constant(else, NilVal) ELSE CompileExpression(else, e.el[1]),
      LAMBDA alt : SetSlots(Patch(alt, Here(over)), Slots(cond)))))))

(* The subject stays on the stack under the bindings of an arm until the   *)
(* arm's value replaces them all.  A failed pattern has undone its own     *)
(* bindings; a failed guard pops its value and the bindings of the         *)
(* pattern.  No arm matched: the value is nil.                             *)
CompileMatch(c, e) ==
  LET Guard(d, g) == IF g = <<>> THEN d ELSE Jump(CompileExpression(d, g[1]), "JUMP_IF_FALSE")
      Undo(d, guard, n) ==
        Let(Jump(Pops(Patch(d, Here(guard)), n), "JUMP"), LAMBDA undo : Patch(undo, Here(undo)))
      Arms(m, arm, top) ==
        Let(CompilePattern(Begin(m.c), arm.p), LAMBDA p :
        Let(Guard(p.c, arm.guard), LAMBDA guard :
        Let(CompileExpression(IF arm.guard = <<>> THEN guard ELSE Op(guard, "POP", -1), arm.e),
            LAMBDA body :
        Let(Jump(SetSlots(OpN(EndScopeNoEmit(body), "CLOSE_SCOPE", Max({0, Slots(body) - top}), 0),
                          top), "JUMP"), LAMBDA end :
        Let(IF arm.guard = <<>> THEN end ELSE Undo(end, guard, 1 + Slots(p.c) - top),
            LAMBDA next :
          [c |-> SetSlots(PatchAll(next, {p.fail}), top), ends |-> m.ends \cup {Here(end)}])))))
  IN  Let(Operand(c, e.e), LAMBDA subject :
      Let(FoldLeft(LAMBDA m, arm : Arms(m, arm, Slots(subject)),
                   [c |-> subject, ends |-> {}], e.arms), LAMBDA all :
        PatchAll(Constant(Op(all.c, "POP", -1), NilVal), all.ends)))

-----------------------------------------------------------------------------
(* Loops *)

BeginLoop(c, slot) ==
  [c EXCEPT ![Len(c)].loops =
     Append(@, [start |-> Here(c) + 1, slot |-> slot, startSlot |-> Slots(c),
                locals |-> Len(Cur(c).locals), breaks |-> {}])]
EndLoop(c) == [PatchAll(c, Last(Cur(c).loops).breaks) EXCEPT ![Len(c)].loops = Front(@)]

CompileWhile(c, e) ==
  Let(BeginLoop(Constant(c, NilVal), Slots(c)), LAMBDA loop :
  Let(Jump(CompileExpression(loop, e.c), "JUMP_IF_FALSE"), LAMBDA exit :
  Let(JumpBack(CompileExpression(Pops(exit, 2), e.body), Here(loop) + 1), LAMBDA back :
  Let(EndLoop(Op(Patch(back, Here(exit)), "POP", -1)), LAMBDA done :
    SetSlots(done, Slots(done) + 1)))))

\* Three slots from s on: the sequence or iterator, its length and the index.
BeginIter(seq, s) ==
  Let(Constant(Op(seq, "MAKE_ITER", 1), IntVal(0)), LAMBDA d :
    AddLocal(AddLocal(AddLocal(d, "$iterable", s), "$len", s + 1), "$index", s + 2))
\* Two more under the body: the result so far, which no local names, and the item.
BeginForIn(seq, x, s) ==
  AddLocal(Constant(Constant(BeginIter(seq, s), NilVal), NilVal), x, s + 4)

CompileForIn(c, e) ==
  Let(CompileExpression(Begin(c), e.e), LAMBDA seq :
  Let(Slots(seq) - 1, LAMBDA s :
  Let(BeginLoop(BeginForIn(seq, e.x, s), Slots(c)), LAMBDA loop :
  Let(OpN(loop, "ITER_NEXT", s, 2), LAMBDA next :
  Let(Jump(next, "JUMP_IF_FALSE"), LAMBDA exit :
  Let(CompileExpression(Pops(OpN(Op(exit, "POP", -1), "SET_LOCAL", s + 4, 0), 1), e.body),
      LAMBDA body :
  Let(JumpBack(Pops(OpN(body, "SET_LOCAL", s + 3, 0), 1), Here(loop) + 1), LAMBDA back :
  Let(Pops(SetSlots(Patch(back, Here(exit)), Slots(next)), 2), LAMBDA out :
    EndLoop(EndScopeNoEmit(OpN(OpN(out, "GET_LOCAL", s + 3, 1), "CLOSE_SCOPE", 5, -5)))))))))))

CompileBreak(c, s) ==
  IF Cur(c).loops = <<>> THEN Refuse(c)
  ELSE Let(Last(Cur(c).loops).slot, LAMBDA slot :
       Let(CompileExpression(c, s.e), LAMBDA v :
       Let(IF Slots(v) - slot > 1 THEN OpN(v, "CLOSE_SCOPE", Slots(v) - slot - 1, 0) ELSE v,
           LAMBDA d :
         [SetSlots(Jump(d, "JUMP"), slot + 1)
            EXCEPT ![Len(c)].loops[Len(Cur(c).loops)].breaks = @ \cup {Here(d) + 1}])))

(* Takes the stack of the compiler state down to the height the loop       *)
(* starts from, closing the captured locals on the way.                    *)
RECURSIVE Unwind(_, _)
Unwind(c, loop) ==
  LET ls    == Cur(c).locals
      named == Len(ls) > loop.locals /\ Last(ls).slot = Slots(c) - 1
  IN  IF Slots(c) = loop.startSlot THEN c
      ELSE IF Slots(c) < loop.startSlot THEN Unwind(Constant(c, NilVal), loop)
      ELSE IF named
           THEN Unwind([Op(c, IF Last(ls).captured THEN "CLOSE_UPVALUE" ELSE "POP", -1)
                          EXCEPT ![Len(c)].locals = Front(@)], loop)
      ELSE Unwind(Op(c, "POP", -1), loop)

CompileContinue(c) ==
  IF Cur(c).loops = <<>> THEN Refuse(c)
  ELSE LET loop == Last(Cur(c).loops)
       IN  [JumpBack(Unwind(c, loop), loop.start) EXCEPT ![Len(c)].slot = Slots(c),
                                                         ![Len(c)].locals = Cur(c).locals]

-----------------------------------------------------------------------------
(* List and map comprehensions: nested loops that add to a builder. *)

RECURSIVE PatternNames(_), ExtractPattern(_, _, _), CompileClauses(_, _, _, _)

PatternNames(p) ==
  CASE p.k = "pid"  -> <<p.x>>
    [] p.k \in {"pseq", "prec"} -> FlattenSeq([i \in DOMAIN p.ps |-> PatternNames(p.ps[i])])
    [] OTHER        -> <<>>

(* Stores the parts of the value in a slot under the names of pattern p.   *)
(* Nothing is checked, not even the number of the parts.                   *)
ExtractPattern(c, p, slot) ==
  LET Part(d, i) ==
        Let(GetPart(d, p, slot, i), LAMBDA part :
          Op(IF p.ps[i].k = "pid" THEN OpN(part, "SET_LOCAL", LocalSlot(part, p.ps[i].x), 0)
                                  ELSE ExtractPattern(part, p.ps[i], Slots(part) - 1), "POP", -1))
  IN  IF p.k \in {"pseq", "prec"} THEN FoldLeftDomain(Part, c, p.ps) ELSE c

\* The slots of a generator are popped, and none of them is closed.
CompileGenerator(c, e, i, builder) ==
  LET p == e.cls[i].p
      Named(d, x) == AddLocal(Constant(d, NilVal), x, Slots(d))
      Bind(d, s)  == IF p.k = "pid" THEN AddLocal(d, p.x, s) ELSE ExtractPattern(d, p, s)
  IN  Let(CompileExpression(Begin(c), e.cls[i].e), LAMBDA seq :
      Let(Slots(seq) - 1, LAMBDA s :
      Let(IF p.k = "pid" THEN <<>> ELSE PatternNames(p), LAMBDA names :
      Let(FoldLeft(Named, Constant(BeginIter(seq, s), NilVal), names), LAMBDA loop :
      Let(OpN(loop, "ITER_NEXT", s, 2), LAMBDA next :
      Let(Jump(next, "JUMP_IF_FALSE"), LAMBDA exit :
      Let(Pops(OpN(Op(exit, "POP", -1), "SET_LOCAL", s + 3, 0), 1), LAMBDA item :
      Let(JumpBack(CompileClauses(Bind(item, s + 3), e, i + 1, builder), Here(loop) + 1),
          LAMBDA back :
        EndScopeNoEmit(Pops(SetSlots(Patch(back, Here(exit)), Slots(next)),
                            6 + Len(names))))))))))) 

\* Both ways count the pop of the condition.
CompileFilter(c, e, i, builder) ==
  Let(Jump(CompileExpression(c, e.cls[i].e), "JUMP_IF_FALSE"), LAMBDA test :
  Let(Jump(CompileClauses(Op(test, "POP", -1), e, i + 1, builder), "JUMP"), LAMBDA skip :
    Patch(Op(Patch(skip, Here(test)), "POP", -1), Here(skip))))

CompileClauses(c, e, i, builder) ==
  CASE i > Len(e.cls) ->
         OpN(CompileAll(OpN(c, "GET_LOCAL", builder, 1), e.es), "BUILDER_ADD", Len(e.es), -1 - Len(e.es))
    [] i <= Len(e.cls) /\ e.cls[i].k = "gen" -> CompileGenerator(c, e, i, builder)
    [] OTHER -> CompileFilter(c, e, i, builder)

CompileComprehension(c, e) ==
  Let(AddLocal(Begin(OpN(c, "BUILD", e.t, 1)), "$comp_result", Slots(c)), LAMBDA empty :
  Let(OpN(CompileClauses(empty, e, 1, Slots(c)), "GET_LOCAL", Slots(c), 1), LAMBDA full :
    EndScopeNoEmit(OpN(Op(full, "FREEZE", 0), "CLOSE_SCOPE", 1, -1))))

-----------------------------------------------------------------------------
(* Functions *)

\* Local functions of a body get their slots first, so that they can be mutual.
Predeclare(c, ss) ==
  FoldLeft(LAMBDA d, s : IF s.k # "def" \/ IsLocal(d, s.f) THEN d
                         ELSE AddLocal(Constant(d, NilVal), s.f, Slots(d)), c, ss)

\* Ends function compiler c: its code, with what more is known of the function.
EndFunction(c, about) ==
  [Front(c) EXCEPT ![1].funs = Append(@, about @@ [code |-> Cur(c).code])]
Functions(c) == Len(c[1].funs)

(* A default that is a literal is a constant; any other gets code of its    *)
(* own, which the machine runs with the captured variables of the function. *)
CompileDefault(m, d) ==
  IF d.k = "lit" THEN [m EXCEPT !.defs = Append(@, [fn |-> 0, v |-> d.v])]
  ELSE Let(EndFunction(Op(CompileExpression(Append(m.c, NewFunctionCompiler(<<>>, FALSE)), d),
                          "RETURN", 0), [arity |-> 0]), LAMBDA outer :
         [c |-> outer, defs |-> Append(m.defs, [fn |-> Functions(outer), v |-> NilVal])])

CompileFunction(c, f) ==
  Let(FoldLeft(CompileDefault, [c |-> c, defs |-> <<>>], f.defs), LAMBDA m :
  Let(Predeclare(Append(m.c, NewFunctionCompiler(f.ps \o f.rest, FALSE)), f.ss), LAMBDA inner :
  Let(Op(CompileStatements(inner, f.ss, TRUE), "RETURN", 0), LAMBDA done :
  Let(EndFunction(done, [arity |-> Len(f.ps), variadic |-> f.rest # <<>>, defs |-> m.defs]),
      LAMBDA outer :
    Emit(outer, [op |-> "CLOSURE", fn |-> Functions(outer), ups |-> Cur(done).ups], 1)))))

\* A local function is declared before its body, so that it can be recursive.
CompileFunctionStatement(c, s) ==
  IF Cur(c).depth = 0 /\ Cur(c).script
  THEN OpN([CompileFunction(c, s) EXCEPT ![1].globals = @ \cup {s.f}],
           "SET_GLOBAL", s.f, 0)
  ELSE Let(IF IsLocal(c, s.f) THEN c ELSE AddLocal(c, s.f, Slots(c)), LAMBDA named :
         OpN(CompileFunction(named, s), "SET_LOCAL", LocalSlot(named, s.f), 0))

CompileReturn(c, s) ==
  Let(Op(CompileExpression(c, s.e), "RETURN", 0), LAMBDA v : SetSlots(v, Len(Cur(v).locals)))

-----------------------------------------------------------------------------
(* Patterns.  The value to match is on top of the stack, and stays there.  *)
(* A pattern yields the compiler state of its success and the jump its     *)
(* failure ends in, 0 if it cannot fail: the stack is then as it was.      *)

PatternResult(c, fail) == [c |-> c, fail |-> fail]

\* A literal and a pinned variable are compared with a copy of the value.
CompileEqualPattern(c, wanted) ==
  Let(Jump(Emit(CompileExpression(Op(c, "DUP", 1), wanted),
                [op |-> "BINARY", n |-> "=="], -1), "JUMP_IF_FALSE"), LAMBDA test :
  Let(Jump(Op(test, "POP", -1), "JUMP"), LAMBDA good :
  Let(Jump(Op(Patch(good, Here(test)), "POP", 0), "JUMP"), LAMBDA bad :
    PatternResult(Patch(bad, Here(good)), Here(bad)))))

\* A value of the wanted type keeps its slot and takes the name.
CompileTypePattern(c, p) ==
  Let(Jump(OpN(Op(c, "DUP", 1), "CHECK_TYPE", p.t, 1), "JUMP_IF_FALSE"), LAMBDA test :
  Let(Pops(test, 2), LAMBDA typed :
  Let(Jump(IF p.x = "_" THEN typed ELSE AddLocal(typed, p.x, Slots(c) - 1), "JUMP"), LAMBDA good :
  Let(Jump(Op(Op(Patch(good, Here(test)), "POP", 0), "POP", 0), "JUMP"), LAMBDA bad :
    PatternResult(Patch(bad, Here(good)), Here(bad))))))

CompileConstructorPattern(c, p) ==
  LET entry == Slots(c) - 1
      Undo(d, r, n) == Jump(SetSlots(Pops(Patch(d, r.fail), n), Slots(r.c)), "JUMP")
      Field(m, i) ==
        Let(OpN(OpN(m.c, "GET_LOCAL", entry + 1, 1), "GET_ELEM", i, 0), LAMBDA part :
        Let(CompilePattern(part, p.ps[i]), LAMBDA r :
          IF r.fail = 0 THEN [m EXCEPT !.c = DropPart(part, r.c, p.ps[i])]
          ELSE Let(Jump(r.c, "JUMP"), LAMBDA good :
               Let(Undo(good, r, Slots(m.c) - entry), LAMBDA bad :
                 [c     |-> DropPart(part, Patch(bad, Here(good)), p.ps[i]),
                  fails |-> m.fails \cup {Here(bad)}]))))
      Clean(d) ==
        LET names == Slots(d) - (entry + 2)
        IN  CASE p.ps = <<>> -> d                          \* the copy stays
              [] p.ps # <<>> /\ names > 0 ->
                   RemoveSlot(OpN(d, "POP_BELOW", names, 0), entry + 1)
              [] OTHER       -> Op(d, "POP", -1)
  IN  Let(Jump(OpN(Op(c, "DUP", 1), "CHECK_TAG", p.c, 1), "JUMP_IF_FALSE"), LAMBDA test :
      Let(FoldLeftDomain(Field, [c |-> Op(test, "POP", -1), fails |-> {}], p.ps), LAMBDA all :
      Let(Jump(Clean(all.c), "JUMP"), LAMBDA good :
      Let(Jump(Op(Op(Patch(good, Here(test)), "POP", 0), "POP", 0), "JUMP"), LAMBDA other :
      Let(Jump(PatchAll(other, all.fails \cup {Here(other)}), "JUMP"), LAMBDA bad :
        PatternResult(Patch(bad, Here(good)), Here(bad)))))))

(* A tuple, a list or a record.  Part i is fetched through the slot of the *)
(* value, and its failure undoes the names bound by the parts before it.   *)
FixedParts(p) == IF HasSpread(p.ps) THEN Len(p.ps) - 1 ELSE Len(p.ps)

\* The rest of a tuple goes to a name or to a tuple pattern, that of a list to
\* a name: any other pattern is an error after a tuple, and left out after a list.
CompileRest(c, t, p) ==
  CASE p.k = "pid" \/ (t = "tuple" /\ p.k = "pseq" /\ p.t = "tuple") -> CompilePattern(c, p)
    [] p.k # "pid" /\ t = "list" -> PatternResult(c, 0)
    [] OTHER -> PatternResult(Refuse(c), 0)

MatchParts(c, p, slot) ==
  LET Fixed(i) == p.k = "prec" \/ i <= FixedParts(p)
      Part(m, i) ==
        Let(IF Fixed(i) THEN GetPart(m.c, p, slot, i)
            ELSE OpN(OpN(m.c, "GET_LOCAL", slot, 1), "GET_REST", i, 0), LAMBDA part :
        Let(IF Fixed(i) THEN CompilePattern(part, p.ps[i]) ELSE CompileRest(part, p.t, p.ps[i].p), LAMBDA r :
          [c     |-> DropPart(part, r.c, p.ps[i]),
           fails |-> IF r.fail = 0 THEN m.fails
                     ELSE Append(m.fails, [at |-> r.fail, pops |-> Slots(part) - slot - 1])]))
  IN  FoldLeftDomain(Part, [c |-> c, fails |-> <<>>], p.ps)

\* All parts matched up to a jump; the failures end in one, ends among them.
FailParts(c, all, good, ends) ==
  LET Undo(m, f) ==
        Let(Jump(Pops(Patch(m.c, f.at), f.pops), "JUMP"), LAMBDA j :
          [c |-> j, ends |-> m.ends \cup {Here(j)}])
  IN  Let(FoldLeft(Undo, [c |-> c, ends |-> ends], all.fails), LAMBDA undone :
      Let(Jump(PatchAll(undone.c, undone.ends), "JUMP"), LAMBDA bad :
        PatternResult(SetSlots(Patch(bad, good), Slots(all.c)), Here(bad))))

CompileSeqPattern(c, p) ==
  Let(Jump(Emit(Op(c, "DUP", 1), [op |-> "CHECK_LEN", t |-> p.t, n |-> FixedParts(p),
                                  more |-> HasSpread(p.ps)], 1), "JUMP_IF_FALSE"), LAMBDA test :
  Let(MatchParts(Pops(test, 2), p, Slots(c) - 1), LAMBDA all :
  Let(Jump(all.c, "JUMP"), LAMBDA good :
  Let(Jump(Op(Op(Patch(good, Here(test)), "POP", 0), "POP", 0), "JUMP"), LAMBDA other :
    FailParts(other, all, Here(good), {Here(other)})))))

\* That the value is a record, and has the fields, is not checked.
CompileRecordPattern(c, p) ==
  Let(MatchParts(c, p, Slots(c) - 1), LAMBDA all :
  Let(Jump(all.c, "JUMP"), LAMBDA good : FailParts(good, all, Here(good), {})))

CompilePattern(c, p) ==
  CASE p.k = "wild"   -> PatternResult(c, 0)
    [] p.k = "pid"    -> PatternResult(AddLocal(c, p.x, Slots(c) - 1), 0)
    [] p.k = "plit"   -> CompileEqualPattern(c, Lit(p.v))
    [] p.k = "pin"    -> CompileEqualPattern(c, Id(p.x))
    [] p.k = "pctor"  -> CompileConstructorPattern(c, p)
    [] p.k = "pseq"   -> CompileSeqPattern(c, p)
    [] p.k = "prec"   -> CompileRecordPattern(c, p)
    [] p.k = "ptype"  -> CompileTypePattern(c, p)

-----------------------------------------------------------------------------
CompileExpression(c, e) ==
  CASE e.k = "lit"     -> Constant(c, e.v)
    [] e.k = "id"      -> CompileIdentifier(c, e.x)
    [] e.k = "prefix"  -> CompilePrefix(c, e)
    [] e.k = "infix"   -> (CASE e.op \in {"&&", "||"} -> CompileLogicalOp(c, e)
                             [] e.op = "??"           -> CompileCoalesce(c, e)
                             [] e.op = "|>"           -> CompilePipe(c, e)
                             [] e.op = "|>>"          -> CompilePipeUnwrap(c, e)
                             [] e.op = "$"            -> CompileApply(c, e)
                             [] e.op = ",,"           -> CompileCompose(c, e)
                             [] OTHER                 -> CompileInfix(c, e))
    [] e.k = "postfix" -> CompilePostfix(c, e)
    [] e.k = "if"      -> CompileIf(c, e)
    [] e.k = "match"   -> CompileMatch(c, e)
    [] e.k = "block"   -> CompileBlockExpression(c, e)
    [] e.k = "assign"  -> CompileAssign(c, e)
    [] e.k = "call"    -> CompileCall(c, e)
    [] e.k = "fun"     -> CompileFunction(c, e)
    [] e.k = "spreadarg" -> Op(CompileExpression(c, e.e), "SPREAD_ARG", 0)
    [] e.k = "seq"     -> CompileSeqLit(c, e)
    [] e.k = "range"   -> CompileRange(c, e)
    [] e.k = "comp"    -> CompileComprehension(c, e)
    [] e.k = "record"  -> CompileRecord(c, e)
    [] e.k = "map"     -> CompileMap(c, e)
    [] e.k = "member"  -> CompileMember(c, e)
    [] e.k = "index"   -> CompileIndex(c, e)
    [] e.k = "pathassign" -> CompilePathUpdate(c, e)
    [] e.k = "patassign"  -> CompilePatternAssign(c, e)
    [] e.k = "while"   -> CompileWhile(c, e)
    [] e.k = "forin"   -> CompileForIn(c, e)

CompileStatement(c, s) ==
  CASE s.k = "def"      -> CompileFunctionStatement(c, s)
    [] s.k = "const"    -> CompileConstant(c, s)
    [] s.k = "return"   -> CompileReturn(c, s)
    [] s.k = "break"    -> CompileBreak(c, s)
    [] s.k = "continue" -> CompileContinue(c)
    [] OTHER            -> CompileExpression(c, s)

(* A program: the value of a statement but the last is popped when the     *)
(* statement left one.  The result is the code of the script and of every  *)
(* function in it, with its arity; a program the compiler refuses has none. *)
Compile(program) ==
  LET Step(c, i) ==
        Let(c, LAMBDA before :
        Let(CompileStatement(before, program[i]), LAMBDA after :
          IF i < Len(program) /\ Slots(after) > Slots(before) THEN Pops(after, 1) ELSE after))
  IN  Let(FoldLeftDomain(Step, <<NewFunctionCompiler(<<>>, TRUE)>>, program), LAMBDA c :
        [main |-> Cur(Op(c, "HALT", 0)).code, funs |-> c[1].funs, refused |-> c[1].refused])
=============================================================================
