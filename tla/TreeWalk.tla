------------------------------ MODULE TreeWalk ------------------------------
(***************************************************************************)
(* The tree-walk evaluator of the core language.                           *)
(*                                                                         *)
(* It threads a store through the program: the environments made so far,   *)
(* each a map of its names and the number of the one around it, and what   *)
(* has been printed.  Evaluation yields a value and a store.  A ReturnValue, *)
(* a BreakSignal, a ContinueSignal and an Error are values too, of kinds   *)
(* of their own, and it is up to every construct to look out for them.     *)
(***************************************************************************)
EXTENDS Syntax, SequencesExt

Signal(kind, v)    == [t |-> kind, v |-> v]     \* "return", "break", "continue"
Error              == Signal("error", NilVal)
IsError(v)         == v.t = "error"
IsControlSignal(v) == v.t \in {"error", "return"}
EndsBlock(v)       == v.t \in {"error", "return", "break", "continue"}

Result(v, st) == [v |-> v, st |-> st]

\* Environment 1 holds the builtins, environment 2 the globals.
Start == [envs |-> <<[vars |-> Prelude, outer |-> 0], [vars |-> <<>>, outer |-> 1]>>,
          out |-> <<>>]

NewEnv(st, outer)  == [st EXCEPT !.envs = Append(@, [vars |-> <<>>, outer |-> outer])]
Newest(st)         == Len(st.envs)
Set(st, env, x, v) == [st EXCEPT !.envs[env].vars = (x :> v) @@ @]

\* The innermost environment from env outwards that has the name, or 0.
RECURSIVE Holder(_, _, _)
Holder(st, env, x) ==
  IF env = 0 \/ x \in DOMAIN st.envs[env].vars THEN env ELSE Holder(st, st.envs[env].outer, x)

Update(st, env, x, v) ==
  LET h == Holder(st, env, x) IN Set(st, IF h = 0 THEN env ELSE h, x, v)

\* A function value remembers the environment it was made in.
Function(fn, env) == [t |-> "fun", fn |-> fn, env |-> env]

-----------------------------------------------------------------------------
(* Patterns: the names a pattern binds, or that it does not match. *)

NoMatch      == [ok |-> FALSE, names |-> <<>>]
Matched(bs)  == [ok |-> TRUE, names |-> bs]
When(b)      == IF b THEN Matched(<<>>) ELSE NoMatch

\* What x: t asks of a value.  Tuples, records and maps have no type name here.
HasType(v, t) == \/ t \in {"Int", "Bool", "Nil", "List", "Option", "Result"} /\ TypeName(v) = t
                 \/ t = "Option" /\ v.t = "nil"

RECURSIVE MatchPattern(_, _, _, _)
MatchPattern(p, v, st, env) ==
  LET All(ps, vs) ==
        LET Both(m, i) ==
              LET r == MatchPattern(ps[i], vs[i], st, env)
              IN  IF m.ok /\ r.ok THEN Matched(r.names @@ m.names) ELSE NoMatch
        IN  FoldLeftDomain(Both, Matched(<<>>), ps)
      n == Len(p.ps) - 1
  IN  CASE p.k = "wild"   -> Matched(<<>>)
        [] p.k = "pid"    -> Matched(p.x :> v)
        [] p.k = "plit"   -> When(Same(p.v, v))
        [] p.k = "pin"    ->
             LET h == Holder(st, env, p.x) IN When(h # 0 /\ Same(st.envs[h].vars[p.x], v))
        [] p.k = "ptype"  -> IF HasType(v, p.t) THEN Matched(p.x :> v) ELSE NoMatch
        [] p.k = "prec"   ->
             IF \A i \in DOMAIN p.xs : HasField(v, p.xs[i])
             THEN All(p.ps, [i \in DOMAIN p.xs |-> v.v[p.xs[i]]]) ELSE NoMatch
        [] p.k = "spread" -> MatchPattern(p.p, v, st, env)
        [] p.k = "pctor"  ->
             IF v.t = "data" /\ v.c = p.c /\ Len(v.v) = Len(p.ps) THEN All(p.ps, v.v) ELSE NoMatch
        [] p.k = "pseq" /\ ~HasSpread(p.ps) ->
             IF SeqMatches(p.t, v) /\ Len(v.v) = Len(p.ps) THEN All(p.ps, v.v) ELSE NoMatch
        [] OTHER ->
             IF SeqMatches(p.t, v) /\ Len(v.v) >= n
             THEN All(p.ps, Append(SubSeq(v.v, 1, n), RestOf(v, n + 1))) ELSE NoMatch

\* A pattern of a generator: an element that does not match is passed over.
RECURSIVE BindPattern(_, _)
BindPattern(p, v) ==
  CASE p.k = "wild" -> Matched(<<>>)
    [] p.k = "pid"  -> Matched(p.x :> v)
    [] p.k = "plit" -> When(Same(p.v, v))
    [] p.k = "pseq" /\ v.t = p.t /\ Len(v.v) = Len(p.ps) ->
         FoldLeftDomain(LAMBDA m, i : LET r == BindPattern(p.ps[i], v.v[i])
                                      IN  IF m.ok /\ r.ok THEN Matched(r.names @@ m.names) ELSE NoMatch,
                        Matched(<<>>), p.ps)
    [] OTHER        -> NoMatch

-----------------------------------------------------------------------------
(* Always true.  TLC evaluates an argument when it is first looked at:      *)
(* looking at the store on entry keeps its evaluation shallow.              *)
Ready(st) == st.envs # <<>>

RECURSIVE Eval(_, _, _), ApplyFunction(_, _, _), RunLoop(_, _, _, _, _)

\* Adds what Step makes of item x to m, unless m has met a signal.
Gather(m, r, Stops(_), Add(_, _)) ==
  IF Stops(r.v) THEN [m EXCEPT !.sig = <<r.v>>, !.st = r.st]
                ELSE [m EXCEPT !.vs = Add(@, r.v), !.st = r.st]
\* The values of operands from left to right, up to the first that stops it.
EvalUntil(es, env, st, Stops(_)) ==
  LET Next(m, e) ==
        IF m.sig # <<>> THEN m
        ELSE IF e.k # "spreadarg" THEN Gather(m, Eval(e, env, m.st), Stops, Append)
        ELSE Gather(m, Eval(e.e, env, m.st), Stops, LAMBDA vs, v : vs \o v.v)
  IN  FoldLeft(Next, [vs |-> <<>>, sig |-> <<>>, st |-> st], es)
EvalExpressions(es, env, st) == EvalUntil(es, env, st, IsControlSignal)
\* What F makes of the values of operands, or what stopped them.
Finish(m, F(_)) == Result(IF m.sig # <<>> THEN m.sig[1] ELSE F(m.vs), m.st)

EvalOperator(e, env, st) ==
  Finish(EvalExpressions(<<e.l, e.r>>, env, st), LAMBDA vs : Arith(e.op, vs[1], vs[2]))

EvalPrefix(e, env, st) ==
  LET r == Eval(e.e, env, st)
  IN  IF IsControlSignal(r.v) THEN r ELSE Result(Negate(e.op, r.v), r.st)

EvalLogical(e, env, st) ==
  LET l == Eval(e.l, env, st)
  IN  IF IsControlSignal(l.v) \/ Truthy(l.v) = (e.op = "||") THEN l ELSE Eval(e.r, env, l.st)

EvalCoalesce(e, env, st) ==
  LET l == Eval(e.l, env, st)
  IN  CASE IsControlSignal(l.v) -> l
        [] IsEmpty(l.v)         -> Eval(e.r, env, l.st)
        [] Unwraps(l.v)         -> Result(l.v.v[1], l.st)
        [] OTHER                -> l

\* x |>> f takes the value out of Some or Ok, and fails for None and Fail.
Unwrapped(op, r) ==
  CASE op = "|>>" /\ Unwraps(r.v)                   -> Result(r.v.v[1], r.st)
    [] op = "|>>" /\ IsEmpty(r.v) /\ r.v.t = "data" -> Result(Error, r.st)
    [] OTHER                                        -> r

(* Pipes, $ and ,, look out for errors only: the value of a return in one   *)
(* of their operands is an operand like any other.                          *)
Applied(op, m) ==
  CASE m.sig # <<>> -> Result(m.sig[1], m.st)
    [] op = ",,"    -> Result(Composed(m.vs[1], m.vs[2]), m.st)
    [] OTHER        -> Unwrapped(op, ApplyFunction(m.vs[1], Tail(m.vs), m.st))
EvalApplied(e, env, st) ==
  LET l    == Eval(e.l, env, st)
      args == IF e.r.k = "call" THEN PipeArgs(e.r.es, Lit(l.v)) ELSE <<Lit(l.v)>>
      f    == IF e.r.k = "call" THEN e.r.f ELSE e.r
  IN  CASE e.op \in {"$", ",,"} -> Applied(e.op, EvalUntil(<<e.l, e.r>>, env, st, IsError))
        [] IsError(l.v)         -> l
        [] OTHER                -> Applied(e.op, EvalUntil(<<f>> \o args, env, l.st, IsError))

EvalPostfix(e, env, st) ==
  LET l == Eval(e.e, env, st)
  IN  CASE IsControlSignal(l.v)              -> l
        [] Unwraps(l.v)                      -> Result(l.v.v[1], l.st)
        [] IsEmpty(l.v) /\ l.v.t = "data"    -> Result(Signal("return", l.v), l.st)
        [] OTHER                             -> Result(Error, l.st)

EvalSeqLit(e, env, st) ==
  Finish(EvalExpressions(e.es, env, st), LAMBDA vs : SeqVal(e.t, vs))

\* Fields are evaluated in the order of their names.
Extended(base, fs, vs) ==
  IF base.t # "record" THEN Error
  ELSE FoldLeftDomain(LAMBDA r, i : Put(r, FieldName(fs[i].x), vs[i]), base, fs)
EvalRecord(e, env, st) ==
  Finish(EvalExpressions(e.base \o [i \in DOMAIN e.fs |-> e.fs[i].e], env, st),
         LAMBDA vs : IF e.base = <<>> THEN Extended(Record(<<>>), e.fs, vs)
                                      ELSE Extended(Head(vs), e.fs, Tail(vs)))
EvalMap(e, env, st) ==
  Finish(EvalExpressions(e.es, env, st),
         LAMBDA vs : FoldLeft(LAMBDA r, i : Put(r, vs[2 * i - 1], vs[2 * i]), MapVal(<<>>),
                              [i \in 1 .. Len(vs) \div 2 |-> i]))

EvalMember(e, env, st) ==
  LET r == Eval(e.e, env, st)
  IN  CASE IsControlSignal(r.v)              -> r
        [] HasField(r.v, e.x)                -> Result(r.v.v[e.x], r.st)
        [] e.optional /\ IsEmpty(r.v)        -> r
        [] e.optional /\ Unwraps(r.v) /\ HasField(r.v.v[1], e.x) ->
             Result([r.v EXCEPT !.v[1] = @.v[e.x]], r.st)
        [] OTHER                             -> Result(Error, r.st)

EvalIndex(e, env, st) ==
  Finish(EvalExpressions(<<e.e, e.i>>, env, st),
         LAMBDA vs : Last(<<Error>> \o ElementAt(vs[1], vs[2])))

(* The new value goes into a copy of the container around it, that into a   *)
(* copy of the one around it, and so on: each is evaluated for it again.    *)
RECURSIVE DeepUpdate(_, _, _, _, _)
DeepUpdate(e, path, v, env, st) ==
  LET last  == Last(path)
      coll  == Eval(Reach(e, Front(path)), env, st)
      key   == Eval(last, env, coll.st)
  IN  CASE IsError(coll.v)           -> coll
        [] ~IsError(coll.v) /\ IsError(key.v) -> key
        [] ~CanPut(coll.v, key.v)    -> Result(Error, key.st)
        [] Len(path) = 1             -> Result(Put(coll.v, key.v, v), key.st)
        [] OTHER                     -> DeepUpdate(e, Front(path), Put(coll.v, key.v, v), env, key.st)
EvalPathAssign(e, env, st) ==
  LET r == Eval(e.v, env, st)
  IN  IF IsError(r.v) THEN r ELSE DeepUpdate(e.e, e.path, r.v, env, r.st)

(* Destructuring sets every name in the environment at hand, whether one     *)
(* further out has it or not.                                               *)
RECURSIVE BindValue(_, _, _, _)
BindValue(p, v, env, st) ==
  LET Part(i) == IF p.k = "prec" THEN v.v[p.xs[i]] ELSE v.v[i]
      Fits    == CASE p.k = "prec" -> \A i \in DOMAIN p.xs : HasField(v, p.xs[i])
                   [] p.k = "pseq" -> v.t = p.t /\ (IF p.t = "tuple" THEN Len(v.v) = Len(p.ps)
                                                                    ELSE Len(v.v) >= Len(p.ps))
                   [] OTHER        -> FALSE
      Next(r, i) == IF IsError(r.v) THEN r ELSE BindValue(p.ps[i], Part(i), env, r.st)
  IN  CASE p.k = "wild" -> Result(NilVal, st)
        [] p.k = "pid"  -> Result(NilVal, Set(st, env, p.x, v))
        [] OTHER        -> IF Fits THEN FoldLeftDomain(Next, Result(NilVal, st), p.ps)
                                   ELSE Result(Error, st)

EvalPatAssign(e, env, st) ==
  LET r == Eval(e.e, env, st) IN IF IsError(r.v) THEN r ELSE BindValue(e.p, r.v, env, r.st)
EvalConst(e, env, st) ==
  LET r == Eval(e.e, env, st)
  IN  CASE IsError(r.v)                     -> r
        [] ~IsError(r.v) /\ e.p.k = "pid"   -> Result(r.v, Set(r.st, env, e.p.x, r.v))
        [] OTHER                            -> BindValue(e.p, r.v, env, r.st)

EvalRange(e, env, st) ==
  Finish(EvalExpressions(<<e.a, e.next, e.b>>, env, st),
         LAMBDA vs : RangeVal(vs[1], vs[2], vs[3]))

\* What a loop or a generator goes through.
RangeItems(r) ==
  LET by == RangeStep(r)
      d  == IF by > 0 THEN r.v[3].v - r.v[1].v ELSE r.v[1].v - r.v[3].v
  IN  [i \in 1 .. (IF d < 0 THEN 0 ELSE d \div (IF by > 0 THEN by ELSE -by) + 1) |->
         IntVal(r.v[1].v + (i - 1) * by)]
Iterable(v) == v.t \in {"tuple", "list", "range"}
Items(v)    == IF v.t = "range" THEN RangeItems(v) ELSE v.v

(* A comprehension goes clause by clause, each one over all environments   *)
(* that the clauses before have left.                                      *)
EvalComprehension(e, env, st) ==
  LET new == NewEnv(st, env)
      Stage(m, Each(_, _)) ==
        FoldLeft(LAMBDA n, x : IF n.sig # <<>> THEN n ELSE Each(n, x), [m EXCEPT !.vs = <<>>], m.vs)
      Bound(env1, p, n, x) ==
        LET b == BindPattern(p, x)
            in == NewEnv(n.st, env1)
        IN  IF ~b.ok THEN n
            ELSE [n EXCEPT !.st = [in EXCEPT !.envs[Newest(in)].vars = b.names],
                           !.vs = Append(@, Newest(in))]
      Clause(m, cl) ==
        Stage(m, LAMBDA n, env1 :
          LET r == Eval(cl.e, env1, n.st)
          IN  CASE IsError(r.v) \/ (cl.k = "gen" /\ ~Iterable(r.v)) -> [n EXCEPT !.sig = <<Error>>]
                [] cl.k = "gen" /\ Iterable(r.v) ->
                     FoldLeft(LAMBDA n2, x : Bound(env1, cl.p, n2, x), [n EXCEPT !.st = r.st],
                              Items(r.v))
                [] OTHER -> [n EXCEPT !.st = r.st, !.vs = IF Truthy(r.v) THEN Append(@, env1) ELSE @])
      all  == FoldLeft(Clause, [vs |-> <<Newest(new)>>, sig |-> <<>>, st |-> new], e.cls)
      Made(n, env1) ==
        LET m == EvalUntil(e.es, env1, n.st, IsError)
        IN  [n EXCEPT !.sig = m.sig, !.st = m.st, !.vs = IF m.sig = <<>> THEN Append(@, m.vs) ELSE @]
      done == Stage(all, Made)
      Got  == IF e.t = "list" THEN SeqVal("list", FlattenSeq(done.vs))
              ELSE FoldLeft(LAMBDA r, p : Put(r, p[1], p[2]), MapVal(<<>>), done.vs)
  IN  Result(IF done.sig # <<>> THEN done.sig[1] ELSE Got, done.st)

\* A condition is looked at for errors only, and so is the value of a match.
EvalIf(e, env, st) ==
  LET c == Eval(e.c, env, st)
  IN  CASE IsError(c.v)   -> c
        [] Truthy(c.v)    -> Eval(e.th, env, c.st)
        [] e.el # <<>>    -> Eval(e.el[1], env, c.st)
        [] OTHER          -> Result(NilVal, c.st)

EvalMatch(e, env, st) ==
  LET subject == Eval(e.e, env, st)
      Try(m, arm) ==
        LET p   == MatchPattern(arm.p, subject.v, m.st, env)
            in  == NewEnv(m.st, env)
            st2 == [in EXCEPT !.envs[Newest(in)].vars = p.names]
            g   == IF arm.guard = <<>> THEN Result(BoolVal(TRUE), st2)
                                       ELSE Eval(arm.guard[1], Newest(in), st2)
        IN  CASE m.done \/ ~p.ok -> m
              [] IsError(g.v)    -> [done |-> TRUE, v |-> g.v, st |-> g.st]
              [] ~Truthy(g.v)    -> [m EXCEPT !.st = g.st]
              [] OTHER           -> [done |-> TRUE] @@ Eval(arm.e, Newest(in), g.st)
  IN  IF IsError(subject.v) THEN subject
      ELSE LET m == FoldLeft(Try, [done |-> FALSE, v |-> Error, st |-> subject.st], e.arms)
           IN  Result(m.v, m.st)

EvalAssign(e, env, st) ==
  LET r == Eval(e.e, env, st)
  IN  IF IsError(r.v) THEN r ELSE Result(r.v, Update(r.st, env, e.x, r.v))

\* Functions of a block are known from its start.
EvalBlock(b, env, st) ==
  LET new   == NewEnv(st, env)
      inner == Newest(new)
      Declare(s2, s) == IF s.k = "def" THEN Set(s2, inner, s.f, Function(s, inner)) ELSE s2
      Step(r, s) == IF EndsBlock(r.v) THEN r ELSE Eval(s, inner, r.st)
  IN  FoldLeft(Step, Result(NilVal, FoldLeft(Declare, new, b.ss)), b.ss)

EvalDef(s, env, st) == Result(NilVal, Set(st, env, s.f, Function(s, env)))

-----------------------------------------------------------------------------
(* Loops.  All rounds share one environment around that of the body. *)

\* One round in loop environment env; whether it ends the loop, and its value.
RunBody(body, env, st, last) ==
  LET r == Eval(body, env, st)
  IN  CASE r.v.t \in {"error", "return"} -> [ends |-> TRUE] @@ r
        [] r.v.t = "break"    -> [ends |-> TRUE, v |-> r.v.v, st |-> r.st]
        [] r.v.t = "continue" -> [ends |-> FALSE, v |-> last, st |-> r.st]
        [] OTHER              -> [ends |-> FALSE] @@ r

\* The rounds of e that remain: items are those a for-in has not seen yet.
RunLoop(e, items, env, st, last) ==
  IF e.k = "while"
  THEN LET c == Eval(e.c, env, st)
           r == RunBody(e.body, env, c.st, last)
       IN  CASE IsError(c.v)     -> c
             [] ~Truthy(c.v)     -> Result(last, c.st)
             [] r.ends           -> Result(r.v, r.st)
             [] OTHER            -> RunLoop(e, items, env, r.st, r.v)
  ELSE IF items = <<>> THEN Result(last, st)
  ELSE LET r == RunBody(e.body, env, Set(st, env, e.x, Head(items)), last)
       IN  IF r.ends THEN Result(r.v, r.st) ELSE RunLoop(e, Tail(items), env, r.st, r.v)

EvalWhile(e, env, st) ==
  LET new == NewEnv(st, env) IN RunLoop(e, <<>>, Newest(new), new, NilVal)

EvalForIn(e, env, st) ==
  LET new   == NewEnv(st, env)
      items == Eval(e.e, env, new)
  IN  CASE IsError(items.v)                     -> items
        [] ~Iterable(items.v)                   -> Result(Error, items.st)
        [] OTHER -> RunLoop(e, Items(items.v), Newest(new), items.st, NilVal)

-----------------------------------------------------------------------------
(* Calls *)

UnwrapReturnValue(r) == IF r.v.t = "return" THEN Result(r.v.v, r.st) ELSE r

(* Binds the parameters of f in the newest environment: a missing argument  *)
(* takes its default, in the environment of the function, and a variadic    *)
(* parameter what arguments are left.                                       *)
Required(f) == Len(f.fn.ps) - Len(f.fn.defs)
Bind(f, args, st) ==
  LET env == Newest(st)
      n   == Len(f.fn.ps)
      One(r, i) ==
        IF IsError(r.v) THEN r
        ELSE LET v == IF i <= Len(args) THEN Result(args[i], r.st)
                      ELSE Eval(f.fn.defs[i - Required(f)], f.env, r.st)
             IN  IF IsError(v.v) THEN v ELSE Result(NilVal, Set(v.st, env, f.fn.ps[i], v.v))
      r   == FoldLeftDomain(One, Result(NilVal, st), f.fn.ps)
  IN  IF f.fn.rest = <<>> \/ IsError(r.v) THEN r
      ELSE Result(NilVal, Set(r.st, env, f.fn.rest[1], SeqVal("list", SubSeq(args, n + 1, Len(args)))))

\* Too few arguments, but some, make a partial application.
ApplyFunction(f, args, st) ==
  CASE f.t = "partial" -> ApplyFunction(f.f, f.args \o args, st)
    [] f.t = "ctor"    -> Result(Data(f.c, args), st)
    [] f.t = "builtin" ->
         Result(NilVal, [st EXCEPT !.out = Append(@, [i \in DOMAIN args |-> Shown(args[i])])])
    [] f.t = "composed" /\ Len(args) = 1 ->
         LET g == ApplyFunction(f.g, args, st)
         IN  IF IsError(g.v) THEN g ELSE ApplyFunction(f.f, <<g.v>>, g.st)
    [] f.t = "fun" /\ Len(args) >= Required(f) /\ (f.fn.rest # <<>> \/ Len(args) <= Len(f.fn.ps)) ->
         LET new == NewEnv(st, f.env)
             r   == Bind(f, args, new)
         IN  IF IsError(r.v) THEN r ELSE UnwrapReturnValue(Eval(Block(f.fn.ss), Newest(new), r.st))
    [] f.t = "fun" /\ Len(args) \in 1 .. Required(f) - 1 ->
         Result([t |-> "partial", f |-> f, args |-> args], st)
    [] OTHER -> Result(Error, st)

EvalCall(e, env, st) ==
  LET f == Eval(e.f, env, st)
      m == EvalExpressions(e.es, env, f.st)
  IN  CASE IsError(f.v)   -> f
        [] m.sig # <<>>   -> Result(m.sig[1], m.st)
        [] OTHER          -> ApplyFunction(f.v, m.vs, m.st)

EvalIdentifier(x, env, st) ==
  LET h == Holder(st, env, x) IN Result(IF h = 0 THEN Error ELSE st.envs[h].vars[x], st)

EvalSignal(kind, e, env, st) ==
  LET r == Eval(e, env, st) IN IF IsError(r.v) THEN r ELSE Result(Signal(kind, r.v), r.st)

Eval(e, env, st) ==
  CASE ~Ready(st)       -> Result(Error, st)
    [] e.k = "lit"      -> Result(e.v, st)
    [] e.k = "id"       -> EvalIdentifier(e.x, env, st)
    [] e.k = "prefix"   -> EvalPrefix(e, env, st)
    [] e.k = "infix"    -> (CASE e.op \in {"&&", "||"} -> EvalLogical(e, env, st)
                              [] e.op = "??"           -> EvalCoalesce(e, env, st)
                              [] e.op \in {"|>", "|>>", "$", ",,"} -> EvalApplied(e, env, st)
                              [] OTHER                 -> EvalOperator(e, env, st))
    [] e.k = "postfix"  -> EvalPostfix(e, env, st)
    [] e.k = "if"       -> EvalIf(e, env, st)
    [] e.k = "match"    -> EvalMatch(e, env, st)
    [] e.k = "block"    -> EvalBlock(e, env, st)
    [] e.k = "assign"   -> EvalAssign(e, env, st)
    [] e.k = "call"     -> EvalCall(e, env, st)
    [] e.k = "fun"      -> Result(Function(e, env), st)
    [] e.k = "seq"      -> EvalSeqLit(e, env, st)
    [] e.k = "range"    -> EvalRange(e, env, st)
    [] e.k = "comp"     -> EvalComprehension(e, env, st)
    [] e.k = "record"   -> EvalRecord(e, env, st)
    [] e.k = "map"      -> EvalMap(e, env, st)
    [] e.k = "member"   -> EvalMember(e, env, st)
    [] e.k = "index"    -> EvalIndex(e, env, st)
    [] e.k = "pathassign" -> EvalPathAssign(e, env, st)
    [] e.k = "patassign"  -> EvalPatAssign(e, env, st)
    [] e.k = "const"    -> EvalConst(e, env, st)
    [] e.k = "while"    -> EvalWhile(e, env, st)
    [] e.k = "forin"    -> EvalForIn(e, env, st)
    [] e.k = "def"      -> EvalDef(e, env, st)
    [] e.k = "return"   -> EvalSignal("return", e.e, env, st)
    [] e.k = "break"    -> EvalSignal("break", e.e, env, st)
    [] e.k = "continue" -> Result(Signal("continue", NilVal), st)

\* A program stops at an error.
EvalProgram(program) ==
  LET Step(r, s) == IF IsError(r.v) THEN r ELSE Eval(s, 2, r.st)
  IN  FoldLeft(Step, Result(NilVal, Start), program)
=============================================================================
