----------------------------- MODULE MCBackends -----------------------------
(***************************************************************************)
(* Programs for the back ends: every context of the language around every  *)
(* other, around an expression, in the body of a function or in the script. *)
(***************************************************************************)
EXTENDS Backends

A == Id("a")
One == Num(1)
Plus(x, y)  == Infix(x, "+", y)
Minus(x, y) == Infix(x, "-", y)
Times(x, y) == Infix(x, "*", y)
Less(x, y)  == Infix(x, "<", y)
Lst(es)     == SeqLit("list", es)
Tup(es)     == SeqLit("tuple", es)
PNum(n)     == PLit(IntVal(n))
PLst(ps)    == PSeq("list", ps)
PTup(ps)    == PSeq("tuple", ps)
Call1(f, e) == Call(Id(f), <<e>>)

\* An Integer expression around h, whose place in it is what matters.
Contexts == 37
Context(i, d, h) ==
  LET n == "n" \o ToString(d)
      p == "p" \o ToString(d)
      q == "q" \o ToString(d)
  IN CASE i = 0  -> h
       [] i = 1  -> Plus(A, h)
       [] i = 2  -> Minus(Prefix("-", h), A)
       [] i = 3  -> If(Less(A, Num(2)), <<h>>, <<Assign("y", A), Plus(Id("y"), One)>>)
       [] i = 4  -> If(Prefix("!", Infix(h, "==", One)), <<Num(5)>>, <<A>>)
       [] i = 5  -> Block(<<Assign("y", h), Plus(Id("y"), A)>>)
       [] i = 6  -> Match(h, <<Arm(PNum(1), Num(10)), Arm(PId("z"), Plus(Id("z"), One))>>)
       [] i = 7  -> Match(Tup(<<A, h, Num(2)>>), <<
                      Arm(PTup(<<PNum(1), PId("b"), PWild>>), Plus(Id("b"), A)),
                      ArmIf(PTup(<<PId("b"), PSpread(PId("rb"))>>), Less(Plus(Id("b"), h), Num(4)), Id("b")),
                      Arm(PTup(<<PId("b"), PSpread(PTup(<<PNum(3), PId("rc")>>))>>), Plus(Id("b"), Id("rc"))),
                      Arm(PWild, Num(0))>>)
       [] i = 8  -> Match(Lst(<<Num(4), A, h>>), <<
                      Arm(PLst(<<PWild, PNum(9)>>), One),
                      Arm(PLst(<<PId("b"), PNum(3), PSpread(PWild)>>), Id("b")),
                      Arm(PTup(<<PId("b"), PSpread(PId("r"))>>),
                          ForIn("i", Id("r"), <<Assign("b", Plus(Id("b"), Id("i")))>>))>>)
       [] i = 9  -> Match(Call1("Some", h), <<
                      Arm(PCtor("None", <<>>), Num(0)),
                      Arm(PCtor("Some", <<PPin("a")>>), Num(8)),
                      ArmIf(PCtor("Some", <<PId("s")>>), Less(Id("s"), Num(3)), Plus(Id("s"), A)),
                      Arm(PId("w"), Num(6))>>)
       [] i = 10 -> Call1("g", h)
       [] i = 11 -> Infix(Call1("Some", h), "??", Num(7))
       [] i = 12 -> Infix(Id("None"), "??", h)
       [] i = 13 -> Block(<<Assign("t", Num(0)),
                            ForIn("i", Lst(<<h, A>>), <<Assign("t", Plus(Id("t"), Id("i")))>>),
                            Id("t")>>)
       [] i = 14 -> Block(<<Assign(n, Num(0)),
                            While(Less(Id(n), Num(2)),
                              <<Assign("e", A), Assign(n, Plus(Id(n), One)), Assign("w", Id(n)),
                                Assign("c", Fun(<<"u">>, <<Plus(Id("u"), Id("w"))>>)),
                                IfOnly(Infix(Id(n), "==", One), <<Assign("v", A), Continue>>),
                                Plus(Call1("c", h), One)>>)>>)
       [] i = 15 -> ForIn("i", Lst(<<One, Num(2)>>),
                      <<Assign("q", h), Assign("c", Fun(<<"u">>, <<Plus(Id("q"), Id("i"))>>)),
                        IfOnly(Less(Id("i"), A), <<Assign("v", Id("i")), Break(Plus(Call1("c", A), Id("v")))>>),
                        Plus(Id("q"), Num(0))>>)
       [] i = 16 -> Call(Fun(<<"p">>, <<Plus(Id("p"), h)>>), <<A>>)
       [] i = 17 -> Block(<<Assign("k", A),
                            Assign("inc", Fun(<<"d">>, <<Assign("k", Plus(Id("k"), Id("d"))), Id("k")>>)),
                            Call1("inc", h),
                            Plus(Id("k"), Call1("inc", One))>>)
       [] i = 18 -> Block(<<Def("loc", <<"m">>,
                                <<If(Less(Id("m"), One), <<h>>, <<Call1("loc", Minus(Id("m"), One))>>)>>),
                            Call1("loc", Num(9))>>)
       [] i = 19 -> If(Infix(Infix(Less(A, Num(2)), "||", Less(h, A)), "&&", Less(h, Num(6))),
                       <<One>>, <<Num(2)>>)
       [] i = 20 -> Call(Call(Id("add"), <<h>>), <<A>>)
       [] i = 21 -> Block(<<Def("try", <<"m">>,
                                <<Call1("Some", Plus(Id("m"), Postfix(Call1("half", h))))>>),
                            Infix(Call1("try", A), "??", Num(9))>>)
       [] i = 22 -> Block(<<Def("all", <<"m">>,
                                <<Assign("u", Id("m")),
                                  Assign("c", Fun(<<"x">>, <<Plus(Id("u"), Id("x"))>>)),
                                  ForIn("i", Lst(<<h, A>>),
                                    <<Assign("u", Postfix(Call1("half", Id("i")))),
                                      IfOnly(Infix(Id("u"), "==", Num(2)), <<Return(Call1("Ok", Call1("c", Num(4))))>>)>>),
                                  Call1("Ok", Id("u"))>>),
                            Infix(Call1("all", Num(5)), "??", Num(9))>>)
       [] i = 23 -> Infix(Infix(h, "|>", Call(Id("add"), <<Hole, One>>)), "|>", Call1("add", A))
       [] i = 24 -> Infix(h, "|>", Infix(Id("g"), ",,", Fun(<<"p">>, <<Plus(Id("p"), A)>>)))
       [] i = 25 -> Infix(Infix(h, "|>>", Id("Some")), "|>>", Id("g"))
       [] i = 26 -> Plus(Infix(Id("g"), "$", h), Infix(Infix(Id("g"), ",,", Call1("add", A)), "$", h))
       [] i = 27 -> Plus(Call1("opt", h), Call(Id("opt"), <<A, h, One>>))
       [] i = 28 -> Plus(Call(Id("sum"), <<A, Spread(Tup(<<h, One>>))>>), Call(Id("sum"), <<h>>))
       [] i = 29 -> Call(Id("sum"), <<One, Spread(
                      Comp(Plus(Id("cx"), h), <<From(PTup(<<PId("cx"), PTup(<<PWild, PId("cy")>>)>>),
                                                    Lst(<<Tup(<<A, Tup(<<One, h>>)>>), Tup(<<Num(2), Tup(<<A, A>>)>>)>>)),
                                               Where(Less(Id("cx"), Num(3))),
                                               From(PId("cz"), Lst(<<One, Num(2)>>)),
                                               Where(Less(Id("cz"), Id("cy")))>>))>>)
       [] i = 30 -> Block(<<Assign("t", h), Assign("s", Num(0)),
                            ForIn("i", Range3(Minus(Id("t"), One), Lit(NilVal), Id("t")),
                              <<Assign("s", Plus(Id("s"), Id("i")))>>),
                            Plus(Id("s"), Call(Id("sum"), <<One, Spread(
                              Comp(Id("x"), <<From(PId("x"), Range3(Id("t"), Minus(Id("t"), Num(2)),
                                                                    Minus(Id("t"), Num(3))))>>))>>))>>)
       [] i = 31 -> Block(<<ConstDef(PTup(<<PId(p), PLst(<<PWild, PId(q)>>)>>), Tup(<<A, Lst(<<One, h>>)>>)),
                            ConstDef(PId("kd"), Times(Id(p), Num(2))),
                            ConstDef(PRec(<<"x", "y">>, <<PId("kx"), PTup(<<PWild, PId("ky")>>)>>),
                                  Rec(<<>>, <<FieldIs("x", Id(q)), FieldIs("y", Tup(<<A, Id("kd")>>))>>)),
                            Plus(Plus(Id("kx"), Id("ky")), Minus(Id("k1"), Id(p)))>>)
       [] i = 32 -> Block(<<PatAssign(PTup(<<PId(p), PWild>>), Tup(<<h, A>>)),
                            Assign("c", Fun(<<"u">>, <<PatAssign(PLst(<<PId(p), PId(q)>>), Lst(<<Id("u"), Id(p)>>)),
                                                       Id(q)>>)),
                            PatAssign(PTup(<<PTup(<<PId(q), PId(p)>>), PRec(<<"z">>, <<PId("qz")>>)>>),
                                      Tup(<<Tup(<<Id(p), Num(3)>>), Rec(<<>>, <<FieldIs("z", A)>>)>>)),
                            Plus(Minus(Id(q), Id(p)), Id("qz"))>>)
       [] i = 33 -> Block(<<Assign("ra", Taken(Rec(<<>>, <<FieldIs("x", h), FieldIs("y", A)>>), <<2, 1>>)),
                            Assign("rb", Rec(<<Id("ra")>>, <<FieldIs("y", Num(6)), FieldIs("z", Member(Id("ra"), "x"))>>)),
                            Match(Id("rb"), <<
                              Arm(PRec(<<"x", "y">>, <<PNum(9), PId("b")>>), Id("b")),
                              Arm(PRec(<<"x", "y">>, <<PId("b"), PTup(<<PWild, PWild>>)>>), Num(0)),
                              ArmIf(PRec(<<"x", "z">>, <<PId("b"), PId("w")>>), Less(Id("b"), Num(3)),
                                    Plus(Id("b"), Id("w"))),
                              Arm(PWild, Plus(Member(Id("rb"), "z"), Member(Id("ra"), "y")))>>)>>)
       [] i = 34 -> Block(<<Assign("r", Rec(<<>>, <<FieldIs("x", Lst(<<A, Num(5)>>)), FieldIs("y", One)>>)),
                            Assign("r2", PathAssign(Id("r"), <<Lit(FieldName("x")), Minus(Num(2), One)>>, h)),
                            Assign("l", PathAssign(Member(Id("r2"), "x"), <<Num(-2)>>, Num(9))),
                            Plus(Index(Member(Id("r2"), "x"), Num(-1)),
                                 Minus(Index(Member(Id("r"), "x"), One), Index(Id("l"), Num(0))))>>)
       [] i = 35 -> Block(<<Assign("mp", MapLit(<<A, h, Num(2), A, A, Plus(h, One)>>)),
                            Assign("mq", PathAssign(Id("mp"), <<Num(2)>>, Num(7))),
                            Plus(Infix(Index(Id("mp"), Num(2)), "??", One),
                                 Plus(Infix(Index(Id("mq"), Num(2)), "??", Num(0)),
                                      Infix(Index(MapComp(Id("cx"), Plus(Id("cx"), h),
                                                    <<From(PId("cx"), Lst(<<One, A, Num(3)>>)),
                                                      Where(Infix(Id("cx"), "!=", One))>>), A), "??", Num(5))))>>)
       [] i = 36 -> Match(Infix(Lst(<<A>>), "++", Infix(h, "::", Lst(<<One>>))), <<
                      Arm(PType("b", "Int"), Num(0)),
                      ArmIf(PType("l", "List"), Infix(Index(Id("l"), One), "<=", Num(2)), Index(Id("l"), Num(0))),
                      Arm(PLst(<<PSpread(PId("l"))>>), Call(Id("sum"), <<One, Spread(Id("l"))>>))>>)
       [] i = 37 -> Block(<<Assign("o", Infix(OptMember(Call1("Some", Rec(<<>>, <<FieldIs("x", h)>>)), "x"), "??", Num(4))),
                            Assign("s", Num(0)),
                            ForIn(n, Lst(<<Tup(<<One, A>>), Tup(<<Id("o"), Num(2)>>)>>),
                              <<PatAssign(PTup(<<PId("fa"), PId("fb")>>), Id(n)),
                                Assign("s", Plus(Id("s"), Minus(Id("fb"), Id("fa"))))>>),
                            Plus(Id("s"), Infix(OptMember(Id("None"), "x"), "??", Id("o")))>>)

Leaf(l) == IF l = 0 THEN A ELSE Call1("g", A)

Globals == <<
  Def("g", <<"x">>, <<Plus(Id("x"), One)>>),
  Def("add", <<"x", "y">>, <<Plus(Plus(Id("x"), Id("y")), Id("y"))>>),
  Def("half", <<"x">>, <<If(Less(Id("x"), Num(3)), <<Call1("Some", Id("x"))>>, <<Id("None")>>)>>),
  ConstDef(PTup(<<PId("lim"), PTup(<<PId("k1"), PWild>>)>>), Tup(<<Num(4), Tup(<<Num(2), One>>)>>)),
  Defaults(Def("opt", <<"x", "y", "z">>, <<Minus(Minus(Id("x"), Id("y")), Id("z"))>>),
           <<Num(5), Plus(Id("lim"), Num(2))>>),
  Variadic(Def("sum", <<"x">>, <<Assign("s", Id("x")),
                                 ForIn("i", Id("xs"), <<Assign("s", Plus(Id("s"), Id("i")))>>),
                                 Id("s")>>), "xs")>>

InFunction(e) ==
  Globals \o <<Def("f", <<"a">>, <<e>>), Call1("print", Call1("f", One)), Call1("f", Num(3))>>
InScript(e) == Globals \o <<Assign("a", Num(2)), Call1("print", e), e>>

\* Program n + 1: the digits of n choose the contexts and the place.
Ways == Contexts + 1
ContextPrograms ==
  [m \in 1 .. 2 * Ways * Ways |->
     LET n == m - 1
         Around(l) == Context(n % Ways, 1, Context((n \div Ways) % Ways, 2, Leaf(l)))
     IN  IF n < Ways * Ways THEN InFunction(Around(1)) ELSE InScript(Around(0))]

-----------------------------------------------------------------------------
(* Matches for the analyzer: values of a type, and one to three patterns of *)
(* those given with it, in any order.                                       *)
True       == Lit(BoolVal(TRUE))
False      == Lit(BoolVal(FALSE))
PTrue      == PLit(BoolVal(TRUE))
PFalse     == PLit(BoolVal(FALSE))
Q          == PId("q")
Rest       == PSpread(PId("r"))
OneOf(c)   == Match(c, <<Arm(PTrue, One), Arm(PFalse, True)>>)          \* Bool | Int
XY(x, y)   == Rec(<<>>, <<FieldIs("x", x), FieldIs("y", y)>>)

Matched == <<
  [of |-> <<Lst(<<>>), Lst(<<One>>), Lst(<<Num(2), One>>)>>,
   by |-> <<PLst(<<>>), PLst(<<Q, Rest>>), PLst(<<PNum(1), Rest>>), PLst(<<Rest>>), PTup(<<Q, PId("w")>>),
           PTup(<<Q, PId("w"), Rest>>), PWild>>],
  [of |-> <<Id("None"), Call1("Some", Tup(<<One, False>>)), Call1("Some", Tup(<<Num(2), True>>))>>,
   by |-> <<PCtor("None", <<>>), PCtor("Some", <<Q>>), PCtor("Some", <<PTup(<<Q, PTrue>>)>>),
           PCtor("Some", <<PTup(<<PId("w"), PFalse>>)>>), PCtor("Some", <<PTup(<<PNum(1), Rest>>)>>), PId("z")>>],
  [of |-> <<Call1("Ok", Lst(<<>>)), Call1("Ok", Lst(<<True>>)), Call1("Fail", One)>>,
   by |-> <<PCtor("Ok", <<PLst(<<>>)>>), PCtor("Ok", <<PLst(<<Q, Rest>>)>>), PCtor("Fail", <<Q>>),
           PCtor("Fail", <<PNum(2)>>), PCtor("Ok", <<PWild>>), PId("z")>>],
  [of |-> <<True, False>>, by |-> <<PTrue, PFalse, Q, PWild>>],
  [of |-> <<Tup(<<True, One>>), Tup(<<False, Num(2)>>)>>,
   by |-> <<PTup(<<PTrue, Q>>), PTup(<<PFalse, Q>>), PTup(<<Q, PNum(1)>>), PTup(<<Q, Rest>>),
           PTup(<<PFalse, Rest>>), PWild>>],
  [of |-> <<XY(One, Call1("Some", True)), XY(Num(2), Id("None"))>>,
   by |-> <<PRec(<<"x", "y">>, <<PNum(1), Q>>), PRec(<<"x", "y">>, <<Q, PCtor("Some", <<PId("w")>>)>>),
           PRec(<<"y", "x">>, <<Q, PId("w")>>), PRec(<<"y", "x">>, <<PTrue, Q>>), PId("z")>>],
  [of |-> <<OneOf(True), OneOf(False)>>,
   by |-> <<PType("q", "Int"), PType("q", "Bool"), PType("w", "Nil"), PWild, PTrue, PNum(1)>>]>>

IsCatchAll(p) == p.k \in {"wild", "pid", "spread"}
\* What an arm gives: the first name it binds, or all of them and its number.
RECURSIVE Names(_)
Names(p) == CASE p.k \in {"pid", "ptype"} -> <<p.x>>
              [] p.k = "spread"           -> Names(p.p)
              [] p.k \in {"wild", "plit"} -> <<>>
              [] OTHER                    -> FlattenSeq([i \in DOMAIN p.ps |-> Names(p.ps[i])])
Gives(way, p, i) ==
  LET xs == Names(p)
  IN CASE way = "first" -> IF xs = <<>> THEN Num(i) ELSE Id(xs[1])
       [] way = "all"   -> Tup([j \in DOMAIN xs |-> Id(xs[j])] \o <<IF i = 2 THEN True ELSE Num(i)>>)

(* The analyzer looks at the columns of a tuple one by one, and at a list   *)
(* only for spreads; it lets the patterns of an open record differ in their *)
(* fields, and learns nothing from a tuple with a spread.  Matches for      *)
(* which that is not enough are left out here (see Uncovered below).        *)
RECURSIVE Separable(_)
Separable(ps) ==
  \/ \E p \in ps : IsCatchAll(p)
  \/ LET Of(k)   == {p \in ps : p.k = k}
         Heads   == {p.c : p \in Of("pctor")}
         Refined(rows) == UNION {{i \in DOMAIN p.ps : ~IsCatchAll(p.ps[i])} : p \in rows}
         Columns(rows) == /\ Cardinality(Refined(rows)) <= 1
                          /\ \A i \in Refined(rows) : Separable({p.ps[i] : p \in {r \in rows : i \in DOMAIN r.ps}})
     IN /\ \A c \in Heads : Columns({p \in Of("pctor") : p.c = c})
        /\ Columns({p \in Of("pseq") : p.t = "tuple"})
        /\ (\E p \in Of("pseq") : p.t = "list" \/ p.ps = <<>>) =>
             \/ \E p \in ps : p = PLst(<<Rest>>) \/ p = PLst(<<Q, Rest>>)
             \/ \A p \in ps : ~HasSpread(p.ps)
SameFields(ps) == \A p, q \in {r \in ps : r.k = "prec"} : ToSet(p.xs) = ToSet(q.xs)
RECURSIVE SpreadsTuple(_)
SpreadsTuple(p) == \/ p.k = "pseq" /\ p.t = "tuple" /\ HasSpread(p.ps)
                   \/ p.k \in {"pseq", "pctor", "prec"} /\ \E i \in DOMAIN p.ps : SpreadsTuple(p.ps[i])

\* One to three patterns of by, each once, by number; only the last takes everything.
Selections(by) ==
  LET n == Len(by)
      Digits(c) == <<(c % n) + 1, (c \div n) % (n + 1), c \div (n * (n + 1))>>
      Places(c) == SelectSeq(Digits(c), LAMBDA d : d > 0)
      Good(c)   == /\ Digits(c)[2] = 0 => Digits(c)[3] = 0
                   /\ IsInjective(Places(c)) /\ ~\E d \in ToSet(Front(Places(c))) : IsCatchAll(by[d])
      numbers   == SelectSeq([c \in 1 .. n * (n + 1) * (n + 1) |-> c - 1], Good)
  IN [i \in DOMAIN numbers |-> LET d == Places(numbers[i]) IN [j \in DOMAIN d |-> by[d[j]]]]

OnValue(v, arms)     == <<Match(v, arms)>>
OnParameter(v, arms) == <<Def("f", <<"a">>, <<Match(A, arms)>>), Call1("f", v)>>
MatchPrograms ==
  LET Each(cs, Program(_)) == [i \in DOMAIN cs |-> Program(cs[i])]
      Arms(ps, way) == [i \in DOMAIN ps |-> Arm(ps[i], Gives(way, ps[i], i))]
      Known(m)   == SelectSeq(Selections(m.by), LAMBDA ps : Separable(ToSet(ps)))
      Unknown(m) == SelectSeq(Selections(SelectSeq(m.by, LAMBDA p : ~SpreadsTuple(p))),
                              LAMBDA ps : Separable(ToSet(ps)) /\ SameFields(ToSet(ps)))
      Of(m, v)   == Each(Known(m), LAMBDA ps : OnValue(v, Arms(ps, "first")))
                    \o Each(Unknown(m), LAMBDA ps : OnParameter(v, Arms(ps, "all")))
      All(m)     == FlattenSeq([i \in DOMAIN m.of |-> Of(m, m.of[i])])
  IN SelectSeq(FlattenSeq([i \in DOMAIN Matched |-> All(Matched[i])]),
               LAMBDA p : Typing!ProgramType(p).ok)

MCPrograms == ContextPrograms \o MatchPrograms

(* A match none of whose arms takes its value, and which is accepted all    *)
(* the same: each of its columns, by itself, is covered.                    *)
Uncovered == Match(Tup(<<False, False>>), <<Arm(PTup(<<PTrue, PWild>>), One), Arm(PTup(<<PWild, PTrue>>), Num(2))>>)
ASSUME UncoveredIsAccepted == Typing!ProgramType(<<Uncovered>>).ok

(* A script on which the back ends differ in all that they print but the    *)
(* first value, and in the value they end with: a variable that a closure   *)
(* made in a round that ends in continue has captured, the value of a loop  *)
(* whose last round ends in continue, a loop of calls at the end of a       *)
(* function, a default that makes a call, a default that refers to a        *)
(* captured variable, a name with a type inside a pattern, a pattern for    *)
(* the rest of a list, a destructured global assigned in a block,           *)
(* destructuring in a block of a function, a match at the end of a function *)
(* whose guard is a call, and a match that is accepted and has no arm for   *)
(* its value.                                                               *)
DifferingPrograms == <<
  <<Def("g", <<"x">>, <<Plus(Id("x"), One)>>),
    Def("big", <<"x">>, <<Less(Num(5), Id("x"))>>),
    Def("f", <<"n">>, <<Match(Id("n"), <<ArmIf(PId("x"), Call1("big", Id("x")), Num(10)),
                                         Arm(PWild, Num(20))>>)>>),
    Def("each", <<"ys">>, <<ForIn("i", Id("ys"), <<Call1("g", Id("i"))>>)>>),
    Defaults(Def("plus", <<"x", "y">>, <<Plus(Id("x"), Id("y"))>>), <<Plus(Call1("g", Num(2)), One)>>),
    Def("outer", <<"n", "k">>,
      <<Defaults(Def("in", <<"x", "y">>, <<Plus(Id("k"), Plus(Id("x"), Id("y")))>>), <<Id("n")>>),
        Call1("in", One)>>),
    Def("swap", <<"p">>,
      <<IfOnly(Less(Id("p"), Num(9)), <<PatAssign(PTup(<<PId("p"), PId("q")>>), Tup(<<Num(7), Id("p")>>))>>),
        Id("p")>>),
    Assign("n", Num(0)), Assign("keep", Fun(<<"u">>, <<Id("u")>>)),
    Call1("print", While(Less(Id("n"), Num(2)),
      <<Assign("w", Plus(Id("n"), Num(7))),
        Assign("c", Fun(<<"u">>, <<Plus(Id("u"), Id("w"))>>)),
        Assign("n", Plus(Id("n"), One)),
        IfOnly(Infix(Id("n"), "==", One), <<Assign("keep", Id("c")), Continue>>), One>>)),
    Call1("print", Call1("keep", Num(0))),
    Assign("n", Num(0)),
    Call1("print", While(Less(Id("n"), Num(2)),
      <<Assign("v", Num(9)), Assign("n", Plus(Id("n"), One)),
        IfOnly(Infix(Id("n"), "==", Num(2)), <<Continue>>), One>>)),
    PatAssign(PTup(<<PId("s"), PWild>>), Tup(<<One, Num(2)>>)),
    ForIn("i", Lst(<<One, Num(2)>>), <<Assign("s", Plus(Id("s"), Id("i")))>>),
    Call(Id("print"), <<
      Call1("each", Lst(<<One, Num(2), Num(3)>>)), Call1("plus", One), Call(Id("outer"), <<Num(5), Num(100)>>),
      Match(Tup(<<One, Num(2)>>), <<Arm(PTup(<<PType("t", "Int"), PWild>>), Plus(Num(50), Id("t")))>>),
      Match(Lst(<<One, Num(2)>>), <<Arm(PLst(<<PWild, PSpread(PLst(<<>>))>>), Num(60)), Arm(PWild, Num(61))>>),
      Id("s"), Call1("swap", Num(3)), Call1("f", One)>>),
    Uncovered>> >>

(* A match whose arm leaves the rest of a tuple to a wildcard: the analyzer *)
(* accepts it and the tree walker takes the arm, the compiler refuses it.   *)
RefusedProgram == <<Match(Tup(<<One, Num(2), Num(3)>>), <<Arm(PTup(<<Q, PSpread(PWild)>>), Id("q"))>>)>>
ASSUME OnlyOneRefuses ==
  /\ Typing!ProgramType(RefusedProgram).ok
  /\ Tree!EvalProgram(RefusedProgram).v = IntVal(1)
  /\ Compile(RefusedProgram).refused
=============================================================================
