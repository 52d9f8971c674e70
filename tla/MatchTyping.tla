----------------------------- MODULE MatchTyping -----------------------------
(***************************************************************************)
(* What the analyzer infers for a match over literals: the types of its    *)
(* patterns, the type of its value, and whether its arms cover every value *)
(* of what is matched.                                                     *)
(*                                                                         *)
(* Left out: guards (which the check of the arms ignores), pins, strings,  *)
(* type patterns inside others, aliases, and the expected types that only  *)
(* annotations give rise to.  n counts the type variables made so far: no  *)
(* two are alike, but their numbers need not be those of the code.         *)
(***************************************************************************)
EXTENDS Syntax, Types

FreshVar(n)  == TVar("t" \o ToString(n + 1))
Fresh(n, m)  == [i \in 1 .. m |-> FreshVar(n + i - 1)]
PlaceOf(xs, x) == CHOOSE i \in DOMAIN xs : xs[i] = x

\* The constructors: the type of the argument, if any, and of what is made.
Constructors ==
  "Some" :> [arg |-> <<TVar("t")>>, of |-> TApp("Option", <<TVar("t")>>)] @@
  "None" :> [arg |-> <<>>,          of |-> TApp("Option", <<TVar("t")>>)] @@
  "Ok"   :> [arg |-> <<TVar("t")>>, of |-> TApp("Result", <<TVar("e"), TVar("t")>>)] @@
  "Fail" :> [arg |-> <<TVar("e")>>, of |-> TApp("Result", <<TVar("e"), TVar("t")>>)]
Variants(c) == CASE c = "Option" -> <<"Some", "None">> [] c = "Result" -> <<"Ok", "Fail">>
                 [] OTHER -> <<>>

\* With fresh variables in place of its own: the argument's first.
Instantiate(c, n) ==
  LET ctor == Constructors[c]
      xs   == IF ctor.arg = <<>> THEN <<"t">> ELSE <<ctor.arg[1].x>>
              \o SelectSeq(<<"e", "t">>, LAMBDA x : x # ctor.arg[1].x /\ TVar(x) \in ToSet(ctor.of.ts))
      s    == [x \in ToSet(xs) |-> FreshVar(n + PlaceOf(xs, x) - 1)]
  IN [arg |-> [i \in DOMAIN ctor.arg |-> Apply(ctor.arg[i], s)], of |-> Apply(ctor.of, s),
      n |-> n + Len(xs)]

LiteralType(v) == CASE v.t = "int" -> TCon("Int") [] v.t = "bool" -> TCon("Bool")
                    [] v.t = "nil" -> TCon("Nil")

-----------------------------------------------------------------------------
(* A pattern against a type: [ok, s, n, names], what it says about type    *)
(* variables and the types of the names it binds.                          *)
NoNames       == [x \in {} |-> x]
Typed(s, n)   == [ok |-> TRUE, s |-> s, n |-> n, names |-> NoNames]
Untyped       == [ok |-> FALSE]
FromUnify(u, n) == IF u = Failed THEN Untyped ELSE Typed(u[1], n)

\* What a pattern says so far, and the parts of it with their types.
Parts(u, ps, ts) == [u |-> u, ps |-> ps, ts |-> ts]
Whole(u)         == Parts(u, <<>>, <<>>)

Fixed(ps)  == IF HasSpread(ps) THEN Front(ps) ELSE ps
SpreadOf(ps) == IF HasSpread(ps) THEN <<Last(ps).p>> ELSE <<>>
Repeated(t, ps) == [i \in DOMAIN ps |-> t]

\* Mutant: a spread is typed like the elements.
ElementsAlike(u, ps, elem) == LET all == Fixed(ps) \o SpreadOf(ps) IN Parts(u, all, Repeated(elem, all))
\* Patterns of elements of type elem; a spread takes the rest, a list again.
Elements(u, ps, elem) ==
  Parts(u, Fixed(ps) \o SpreadOf(ps), Repeated(elem, Fixed(ps)) \o Repeated(ListOf(elem), SpreadOf(ps)))

InferListPattern(p, t, n) ==
  Let(FromUnify(Unify(t, ListOf(FreshVar(n)), FALSE), n + 1),
      LAMBDA u : IF u.ok THEN Elements(u, p.ps, Apply(FreshVar(n), u.s)) ELSE Whole(u))

(* A tuple pattern takes lists, tuples of the right length, and what is    *)
(* not known yet: which becomes a tuple, unless there is a spread.         *)
InferTuplePattern(p, t, n) ==
  LET all   == Fixed(p.ps) \o SpreadOf(p.ps)
      fixed == Len(Fixed(p.ps))
  IN CASE t.k = "app" /\ t.c = "List" -> Elements(Typed(EmptySubst, n), p.ps, t.ts[1])
       [] t.k = "tuple" /\ (fixed = Len(t.ts) \/ (fixed < Len(t.ts) /\ HasSpread(p.ps))) ->
            Parts(Typed(EmptySubst, n), all,
                  SubSeq(t.ts, 1, fixed) \o Repeated(TTuple(SubSeq(t.ts, fixed + 1, Len(t.ts))), SpreadOf(p.ps)))
       [] t.k = "var" /\ HasSpread(p.ps) ->
            Parts(Typed(EmptySubst, n + 2 * fixed + 1), all, Fresh(n + fixed, fixed + 1))
       [] t.k = "var" /\ ~HasSpread(p.ps) ->
            Parts(FromUnify(Unify(t, TTuple(Fresh(n, fixed)), FALSE), n + fixed), all, Fresh(n, fixed))
       [] OTHER -> Whole(Untyped)

(* A record pattern takes records that have its fields, and what is not    *)
(* known yet: which becomes an open record of them (Opened).  The fields   *)
(* come in the order of their names, as in Tokens.                         *)
FieldsOf(p) == SelectSeq(Tokens, LAMBDA x : x \in ToSet(p.xs))
InferRecordPattern(p, t, n) ==
  LET TypeOf(xs, i) == IF t.k = "record" /\ xs[i] \in DOMAIN t.fs THEN t.fs[xs[i]] ELSE FreshVar(n + i - 1)
      Against(xs)   == Parts(Typed(EmptySubst, n + Len(xs)),
                             [i \in DOMAIN xs |-> p.ps[PlaceOf(p.xs, xs[i])]],
                             [i \in DOMAIN xs |-> TypeOf(xs, i)])
  IN IF t.k = "var" \/ (t.k = "record" /\ (t.open \/ ToSet(p.xs) \subseteq DOMAIN t.fs))
     THEN Let(FieldsOf(p), Against) ELSE Whole(Untyped)
Opened(p, t, n, q) ==
  LET Open(xs) == TRecord([x \in ToSet(xs) |-> Apply(FreshVar(n + PlaceOf(xs, x) - 1), q.s)], TRUE)
  IN Let(Unify(Apply(t, q.s), Open(FieldsOf(p)), FALSE),
         LAMBDA u : IF u = Failed THEN Untyped ELSE [q EXCEPT !.s = Compose(u[1], @)])

InferConstructorPattern(p, t, n) ==
  Let(Instantiate(p.c, n),
      LAMBDA c : IF Len(p.ps) = Len(c.arg) THEN Parts(FromUnify(Unify(t, c.of, FALSE), c.n), p.ps, c.arg)
                                           ELSE Whole(Untyped))

\* A pattern with a type takes a member of a union, and binds the name at that type.
InferTypePattern(p, t, n) ==
  IF \E m \in (IF t.k = "union" THEN ToSet(t.ts) ELSE {t}) : Unify(m, TCon(p.t), FALSE) # Failed
  THEN [Typed(EmptySubst, n) EXCEPT !.names = p.x :> TCon(p.t)] ELSE Untyped

PartsOf(p, t, n) ==
  CASE p.k = "wild"  -> Whole(Typed(EmptySubst, n))
    [] p.k = "pid"   -> Whole([Typed(EmptySubst, n) EXCEPT !.names = p.x :> t])
    [] p.k = "plit"  -> Whole(FromUnify(Unify(t, LiteralType(p.v), FALSE), n))
    [] p.k = "ptype" -> Whole(InferTypePattern(p, t, n))
    [] p.k = "pctor" -> InferConstructorPattern(p, t, n)
    [] p.k = "prec"  -> InferRecordPattern(p, t, n)
    [] p.k = "pseq" /\ p.t = "list"  -> InferListPattern(p, t, n)
    [] p.k = "pseq" /\ p.t = "tuple" -> InferTuplePattern(p, t, n)

RECURSIVE InferPattern(_, _, _)
\* Patterns ps against types ts, each under what those before it have said.
InferParts(u, ps, ts) ==
  FoldLeft(LAMBDA q, i : IF ~q.ok THEN q
                         ELSE Let(InferPattern(ps[i], Apply(ts[i], q.s), q.n),
                                  LAMBDA p : IF ~p.ok THEN p
                                             ELSE [p EXCEPT !.s = Compose(@, q.s), !.names = @ @@ q.names]),
           u, [i \in DOMAIN ps |-> i])

InferPattern(p, t, n) ==
  LET Checked(q) == IF q.ok /\ p.k = "prec" /\ t.k = "var" THEN Opened(p, t, n, q) ELSE q
  IN Let(PartsOf(p, t, n), LAMBDA q : Let(InferParts(q.u, q.ps, q.ts), Checked))

-----------------------------------------------------------------------------
\* Do patterns ps take every value of type t?
IsCatchAll(p) == p.k \in {"wild", "pid", "spread"}
Column(rows, i) == [j \in DOMAIN rows |-> rows[j].ps[i]]
IsRow(p)        == \A i \in DOMAIN p.ps : IsCatchAll(p.ps[i])

\* The type of what is matched, when only the patterns tell: <<it>> or <<>>.
RECURSIVE DeduceType(_)
DeduceType(ps) ==
  LET Of(p) == CASE p.k = "plit" /\ p.v.t = "bool"  -> <<TCon("Bool")>>
                 [] p.k = "pseq" /\ p.t = "list"    -> <<TCon("List")>>
                 [] p.k = "pctor"                   -> <<Constructors[p.c].of>>
                 [] p.k = "pseq" /\ p.t = "tuple"   ->
                      <<TTuple([i \in DOMAIN p.ps |->
                                  LET d == DeduceType(<<p.ps[i]>>) IN IF d = <<>> THEN TVar("unknown") ELSE d[1]])>>
                 [] p.k = "prec"                    -> <<TRecord([x \in ToSet(p.xs) |-> TVar("unknown")], FALSE)>>
                 [] OTHER                           -> <<>>
  IN FoldLeft(LAMBDA r, p : IF r = <<>> THEN Of(p) ELSE r, <<>>, ps)

(* A list is covered by a spread alone, or by [] and a pattern of elements *)
(* and a spread: what the elements must be is not looked at.               *)
CoversList(ps) ==
  LET Seqs == {p \in ToSet(ps) : p.k = "pseq"}
  IN \/ \E p \in Seqs : HasSpread(p.ps) /\ Len(p.ps) = 1
     \/ /\ \E p \in Seqs : p.ps = <<>>
        /\ \E p \in Seqs : HasSpread(p.ps) /\ Len(p.ps) >= 2

RECURSIVE IsExhaustive(_, _)
\* Mutant: a variant is covered by any pattern for it.
CoversVariantsByName(t, ps) ==
  \A c \in ToSet(Variants(t.c)) : \E p \in ToSet(ps) : p.k = "pctor" /\ p.c = c

\* Each variant is covered: by a row of catch-alls, or column by column.
CoversVariants(t, ps) ==
  \A c \in ToSet(Variants(t.c)) :
    LET rows == SelectSeq(ps, LAMBDA p : p.k = "pctor" /\ p.c = c)
        ctor == Constructors[c]
        s    == [x \in {v.x : v \in ToSet(ctor.of.ts)} |-> t.ts[PlaceOf(ctor.of.ts, TVar(x))]]
    IN /\ rows # <<>>
       /\ \/ \E p \in ToSet(rows) : IsRow(p)
          \/ \A i \in DOMAIN ctor.arg : IsExhaustive(Apply(ctor.arg[i], s), Column(rows, i))

\* A tuple is covered by a row of catch-alls, or column by column.
CoversTuple(t, ps) ==
  LET rows == SelectSeq(ps, LAMBDA p : /\ p.k = "pseq" /\ p.t = "tuple"
                                       /\ IF HasSpread(p.ps) THEN Len(p.ps) - 1 <= Len(t.ts)
                                                             ELSE Len(p.ps) = Len(t.ts))
      Reaching(i) == SelectSeq(rows, LAMBDA p : i \in DOMAIN p.ps)
  IN /\ rows # <<>>
     /\ \/ \E p \in ToSet(rows) : IsRow(p)
        \/ \A i \in DOMAIN t.ts : IsExhaustive(t.ts[i], Column(Reaching(i), i))

CoversUnion(t, ps) ==
  \A m \in ToSet(t.ts) : \E p \in ToSet(ps) : p.k = "ptype" /\ TCon(p.t) = m

IsExhaustive(t, ps) ==
  LET deduced == DeduceType(ps)
      real    == IF t.k = "var" /\ deduced # <<>> THEN deduced[1] ELSE t
      HasLiteral(b) == \E p \in ToSet(ps) : p.k = "plit" /\ p.v.t = "bool" /\ p.v.v = b
  IN \/ \E p \in ToSet(ps) : IsCatchAll(p)
     \/ CASE real.k = "app" /\ real.c = "List" -> CoversList(ps)
          [] real.k = "app" /\ real.c = "Bool" -> HasLiteral(TRUE) /\ HasLiteral(FALSE)
          [] real.k = "app" /\ Variants(real.c) # <<>> -> CoversVariants(real, ps)
          [] real.k = "tuple"  -> CoversTuple(real, ps)
          [] real.k = "record" -> \E p \in ToSet(ps) : p.k = "prec" /\ IsRow(p)
          [] real.k = "union"  -> CoversUnion(real, ps)
          [] OTHER -> FALSE

-----------------------------------------------------------------------------
(* An expression in an environment of names: [ok, t, s, n], its type and   *)
(* what it says about type variables.                                      *)
Inferred(t, s, n) == [ok |-> TRUE, t |-> t, s |-> s, n |-> n]

(* What is looked at first: elements, fields in the order of their names,  *)
(* the argument of a constructor, what is matched.  A constructor is       *)
(* instantiated before that.                                               *)
FieldNames(e) == SelectSeq(Tokens, LAMBDA x : \E i \in DOMAIN e.fs : e.fs[i].x = x)
FieldCalled(e, x) == e.fs[CHOOSE i \in DOMAIN e.fs : e.fs[i].x = x].e
Operands(e) ==
  CASE e.k \in {"seq", "call"} -> e.es
    [] e.k = "record" -> LET xs == FieldNames(e) IN [i \in DOMAIN xs |-> FieldCalled(e, xs[i])]
    [] e.k = "match"  -> <<e.e>>
    [] OTHER          -> <<>>
AfterConstructor(e, n) ==
  CASE e.k = "call" -> Instantiate(e.f.x, n).n [] e.k = "id" /\ e.x = "None" -> Instantiate("None", n).n [] OTHER -> n

(* Given r, their types ts.  The elements of a list have one type: that of *)
(* the first.                                                              *)
InferList(r) ==
  LET Alike(s, t) == Let(Unify(Apply(r.ts[1], s), Apply(t, s), FALSE),
                         LAMBDA u : IF u = Failed THEN u ELSE <<Compose(u[1], s)>>)
  IN IF r.ts = <<>> THEN Inferred(ListOf(FreshVar(r.n)), EmptySubst, r.n + 1)
     ELSE Let(FoldLeft(LAMBDA s, t : IF s = Failed THEN s ELSE Alike(s[1], t), <<r.s>>, Tail(r.ts)),
              LAMBDA s : IF s = Failed THEN Untyped ELSE Inferred(ListOf(Apply(r.ts[1], s[1])), s[1], r.n))

InferTuple(r)     == Inferred(TTuple([i \in DOMAIN r.ts |-> Apply(r.ts[i], r.s)]), r.s, r.n)
InferRecord(e, r) ==
  LET RecordOf(xs) == TRecord([x \in ToSet(xs) |-> Apply(r.ts[PlaceOf(xs, x)], r.s)], xs = <<>>)
  IN Inferred(Let(FieldNames(e), RecordOf), r.s, r.n)

\* A call of the constructor c.
InferCall(c, r) ==
  LET Under(s) == Inferred(Apply(c.of, s), s, r.n)
  IN Let(Unify(Apply(c.arg[1], r.s), Apply(r.ts[1], r.s), TRUE),
         LAMBDA u : IF u = Failed THEN Untyped ELSE Under(Compose(u[1], r.s)))

(* A match, arm by arm: [ok, s, n, res], res the type of the arms so far,   *)
(* if any.  What a pattern says about the type of the whole holds for the  *)
(* arms after it.  The type of the value is what the arms' types have in   *)
(* common, or else their union.                                            *)
Joined(was, t, s, n) ==
  Let(Unify(was, t, FALSE),
      LAMBDA u : [ok |-> TRUE, n |-> n, s   |-> IF u = Failed THEN s ELSE Compose(u[1], s),
                                        res |-> <<IF u = Failed THEN NormalizeUnion(<<was, t>>) ELSE was>>])
JoinArm(r, t, s, n) ==
  IF r.res = <<>> THEN [ok |-> TRUE, s |-> s, n |-> n, res |-> <<t>>]
                  ELSE Joined(Apply(r.res[1], s), t, s, n)

RECURSIVE Infer(_, _, _)
InferBody(r, e, p, env) ==
  Let(Infer(e, p.names @@ env, p.n),
      LAMBDA a : IF a.ok THEN Let(Compose(a.s, Compose(p.s, r.s)), LAMBDA s : JoinArm(r, Apply(a.t, s), s, a.n))
                 ELSE a)
InferArm(r, arm, scrutinee, env) ==
  IF ~r.ok THEN r
  ELSE Let(InferPattern(arm.p, Apply(scrutinee, r.s), r.n),
           LAMBDA p : IF p.ok THEN InferBody(r, arm.e, p, env) ELSE p)
InferMatch(arms, env, m) ==
  LET Covered(t) == IsExhaustive(t, [i \in DOMAIN arms |-> arms[i].p])
  IN Let(FoldLeft(LAMBDA r, arm : InferArm(r, arm, m.ts[1], env),
                  [ok |-> TRUE, s |-> m.s, n |-> m.n, res |-> <<>>], arms),
         LAMBDA r : IF r.ok /\ Covered(Apply(m.ts[1], r.s)) THEN Inferred(Apply(r.res[1], r.s), r.s, r.n)
                    ELSE Untyped)

\* Expressions one after another: [ok, ts, s, n].
InferAll(es, env, n) ==
  FoldLeft(LAMBDA r, e : IF ~r.ok THEN r
                         ELSE Let(Infer(e, env, r.n),
                                  LAMBDA i : IF ~i.ok THEN Untyped
                                             ELSE [r EXCEPT !.ts = Append(@, i.t), !.s = Compose(i.s, @), !.n = i.n]),
           [ok |-> TRUE, ts |-> <<>>, s |-> EmptySubst, n |-> n], es)

InferGiven(e, env, n, r) ==
  CASE e.k = "lit"    -> Inferred(LiteralType(e.v), r.s, r.n)
    [] e.k = "id"     -> Inferred(IF e.x = "None" THEN Instantiate("None", n).of ELSE env[e.x], r.s, r.n)
    [] e.k = "seq" /\ e.t = "list"  -> InferList(r)
    [] e.k = "seq" /\ e.t = "tuple" -> InferTuple(r)
    [] e.k = "record" -> InferRecord(e, r)
    [] e.k = "call"   -> InferCall(Instantiate(e.f.x, n), r)
    [] e.k = "match"  -> InferMatch(e.arms, env, r)
Infer(e, env, n) ==
  Let(InferAll(Operands(e), env, AfterConstructor(e, n)),
      LAMBDA r : IF r.ok THEN InferGiven(e, env, n, r) ELSE Untyped)

(* A script that is a match, or a function of a parameter that is one and  *)
(* its call: the type of the match.  Any other script is not judged here.  *)
Judged(ss) == IF Len(ss) = 1 THEN ss ELSE <<ss[1].ss[1], ss[2].es[1]>>
NamesOf(ss) == IF Len(ss) = 1 THEN NoNames ELSE ss[1].ps[1] :> FreshVar(0)
TypeOfCall(r) ==
  Let(IF Len(r.ts) = 1 THEN <<EmptySubst>> ELSE Unify(Apply(FreshVar(0), r.s), Apply(r.ts[2], r.s), TRUE),
      LAMBDA u : IF u = Failed THEN Untyped ELSE Inferred(Apply(r.ts[1], Compose(r.s, u[1])), u[1], r.n))
ProgramType(ss) ==
  IF Len(ss) > 2 THEN Untyped
  ELSE Let(InferAll(Judged(ss), NamesOf(ss), 1), LAMBDA r : IF r.ok THEN TypeOfCall(r) ELSE Untyped)
=============================================================================
