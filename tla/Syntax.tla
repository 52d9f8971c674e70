------------------------------- MODULE Syntax -------------------------------
(***************************************************************************)
(* Abstract syntax and values of the core of the language, as the parser   *)
(* hands it to both back ends.  A node is a record whose field k names its *)
(* kind; positions, type annotations and tokens are left out.  A value is  *)
(* a record whose field t names its representation.                        *)
(***************************************************************************)
EXTENDS Integers, Sequences, SequencesExt, TLC

\* F(v).  TLC evaluates v, once and before F, because x is a bound variable.
Let(v, F(_)) == CHOOSE r \in {F(x) : x \in {v}} : TRUE

(* Values.  A list and a tuple are the same kind of record: the operations *)
(* modelled here treat them alike, and only their tag tells them apart.    *)
IntVal(n)     == [t |-> "int", v |-> n]
BoolVal(b)    == [t |-> "bool", v |-> b]
NilVal        == [t |-> "nil", v |-> 0]
\* No value: what is left of a program that was refused before it could run.
Refused       == [t |-> "refused", v |-> 0]
SeqVal(t, es) == [t |-> t, v |-> es]                      \* t: "tuple", "list"
Data(c, es)   == [t |-> "data", c |-> c, v |-> es]        \* DataInstance
Ctor(c)       == [t |-> "ctor", c |-> c]                  \* arity 1
Builtin(f)    == [t |-> "builtin", c |-> f]
Composed(f, g) == [t |-> "composed", f |-> f, g |-> g]    \* f ,, g
RangeVal(a, next, b) == [t |-> "range", v |-> <<a, next, b>>]
Record(fs)    == [t |-> "record", v |-> fs]               \* a function of the field names
MapVal(m)     == [t |-> "map", v |-> m]                   \* a function of the keys
FieldName(x)  == [t |-> "name", v |-> x]                  \* a field name in the code

\* The names every program starts with.
Prelude == ("print" :> Builtin("print")) @@ ("Some" :> Ctor("Some"))
           @@ ("None" :> Data("None", <<>>)) @@ ("Ok" :> Ctor("Ok"))
           @@ ("Fail" :> Ctor("Fail"))

Truthy(v)   == v.t = "bool" /\ v.v
Unwraps(v)  == v.t = "data" /\ v.c \in {"Some", "Ok"}
IsEmpty(v)  == v.t = "nil" \/ (v.t = "data" /\ v.c \in {"None", "Fail"})

\* What is left of a sequence from part i on, and what a pattern of kind t takes.
RestOf(v, i)     == SeqVal(v.t, SubSeq(v.v, i, Len(v.v)))
SeqMatches(t, v) == v.t \in {t, "list"}

\* What a value looks like from outside, as a tuple: functions print alike.
RECURSIVE Shown(_)
Shown(v) ==
  CASE v.t \in {"int", "bool", "nil", "refused"} -> <<v.t, v.v>>
    [] v.t \in {"tuple", "list"}       -> <<v.t>> \o [i \in DOMAIN v.v |-> Shown(v.v[i])]
    [] v.t \in {"record", "map"}       -> <<v.t, [x \in DOMAIN v.v |-> Shown(v.v[x])]>>
    [] v.t = "data"                    -> <<v.t, v.c>> \o [i \in DOMAIN v.v |-> Shown(v.v[i])]
    [] OTHER                           -> <<"function">>

(* Two values are equal when they have the same representation and equal   *)
(* contents.                                                               *)
Same(a, b) == a.t = b.t /\ Shown(a) = Shown(b)

\* What step a range takes: 1, or from its first item to the second one given.
RangeStep(r) == IF r.v[2].t = "int" THEN r.v[2].v - r.v[1].v ELSE 1

Arith(op, a, b) ==
  CASE op = "+"  -> IntVal(a.v + b.v)
    [] op = "-"  -> IntVal(a.v - b.v)
    [] op = "*"  -> IntVal(a.v * b.v)
    [] op = "<"  -> BoolVal(a.v < b.v)
    [] op = "<=" -> BoolVal(a.v <= b.v)
    [] op = "==" -> BoolVal(Same(a, b))
    [] op = "!=" -> BoolVal(~Same(a, b))
    [] op = "++" -> SeqVal("list", a.v \o b.v)
    [] op = "::" -> SeqVal("list", <<a>> \o b.v)

Negate(op, a) == IF op = "!" THEN BoolVal(~a.v) ELSE IntVal(-a.v)

\* The element of a container under a key, as <<it>>, or <<>>: -1 is the last.
HasField(v, x)    == v.t = "record" /\ x \in DOMAIN v.v
Position(s, i)    == IF i < 0 THEN Len(s) + i + 1 ELSE i + 1
ElementAt(v, key) ==
  CASE v.t \in {"list", "tuple"} ->
         LET i == Position(v.v, key.v) IN IF i \in DOMAIN v.v THEN <<v.v[i]>> ELSE <<>>
    [] v.t = "map" ->
         <<IF key \in DOMAIN v.v THEN Data("Some", <<v.v[key]>>) ELSE Data("None", <<>>)>>
    [] OTHER -> <<>>

(* A copy of a record, map or list with value e under a key.  A list has   *)
(* no new positions: it stays as it is.                                    *)
CanPut(v, key) == \/ v.t = "record" /\ key.t = "name"
                  \/ v.t = "map" /\ key.t # "name"
                  \/ v.t = "list" /\ key.t = "int"
Put(v, key, e) ==
  CASE v.t = "record" -> Record((key.v :> e) @@ v.v)
    [] v.t = "map"    -> MapVal((key :> e) @@ v.v)
    [] v.t = "list" /\ Position(v.v, key.v) \in DOMAIN v.v ->
         [v EXCEPT !.v[Position(v.v, key.v)] = e]
    [] OTHER -> v

\* The name of the type of a value.
TypeName(v) ==
  CASE v.t = "int"    -> "Int"
    [] v.t = "bool"   -> "Bool"
    [] v.t = "nil"    -> "Nil"
    [] v.t = "list"   -> "List"
    [] v.t = "tuple"  -> "Tuple"
    [] v.t = "record" -> "Record"
    [] v.t = "map"    -> "Map"
    [] v.t = "data"   -> IF v.c \in {"Some", "None"} THEN "Option" ELSE "Result"
    [] v.t = "refused" -> "none"
    [] OTHER          -> "Function"

-----------------------------------------------------------------------------
Block(ss)         == [k |-> "block", ss |-> ss]
Lit(v)            == [k |-> "lit", v |-> v]
Num(n)            == Lit(IntVal(n))
Id(x)             == [k |-> "id", x |-> x]
Prefix(op, e)     == [k |-> "prefix", op |-> op, e |-> e]
Infix(l, op, r)   == [k |-> "infix", op |-> op, l |-> l, r |-> r]
Postfix(e)        == [k |-> "postfix", e |-> e]                       \* e?
If(c, th, el)     == [k |-> "if", c |-> c, th |-> Block(th), el |-> <<Block(el)>>]
IfOnly(c, th)     == [k |-> "if", c |-> c, th |-> Block(th), el |-> <<>>]
Match(e, arms)    == [k |-> "match", e |-> e, arms |-> arms]
Arm(p, e)         == [p |-> p, guard |-> <<>>, e |-> e]
ArmIf(p, g, e)    == [p |-> p, guard |-> <<g>>, e |-> e]
Assign(x, e)      == [k |-> "assign", x |-> x, e |-> e]
Call(f, es)       == [k |-> "call", f |-> f, es |-> es]
Spread(e)         == [k |-> "spreadarg", e |-> e]                     \* e... in a call
Fun(ps, ss)       == [k |-> "fun", ps |-> ps, defs |-> <<>>, rest |-> <<>>, ss |-> ss]
Range3(a, n, b)   == [k |-> "range", a |-> a, next |-> n, b |-> b]    \* a, n .. b
Comp(e, cls)      == [k |-> "comp", t |-> "list", es |-> <<e>>, cls |-> cls]   \* [e | cls]
MapComp(x, e, cls) == [k |-> "comp", t |-> "map", es |-> <<x, e>>, cls |-> cls] \* %{x => e | cls}
From(p, e)        == [k |-> "gen", p |-> p, e |-> e]                  \* p <- e
Where(e)          == [k |-> "filter", e |-> e]
SeqLit(t, es)     == [k |-> "seq", t |-> t, es |-> es]
MapLit(es)        == [k |-> "map", es |-> es]                         \* key, value, key, ...
\* {base, fs}: the fields by name, and the order the compiler takes them in.
FieldIs(x, e)       == [x |-> x, e |-> e]
Rec(base, fs)     == [k |-> "record", base |-> base, fs |-> fs, order |-> [i \in DOMAIN fs |-> i]]
Taken(n, order)   == [n EXCEPT !.order = order]
Member(e, x)      == [k |-> "member", e |-> e, x |-> x, optional |-> FALSE]
OptMember(e, x)   == [Member(e, x) EXCEPT !.optional = TRUE]          \* e?.x
Index(e, i)       == [k |-> "index", e |-> e, i |-> i]
\* e.x[i] = v, a copy of e: the path is made of names and index expressions.
PathAssign(e, path, v) == [k |-> "pathassign", e |-> e, path |-> path, v |-> v]
PatAssign(p, e)   == [k |-> "patassign", p |-> p, e |-> e]            \* (x, y) = e
ConstDef(p, e)       == [k |-> "const", p |-> p, e |-> e]                \* const p = e
While(c, ss)      == [k |-> "while", c |-> c, body |-> Block(ss)]
ForIn(x, e, ss)   == [k |-> "forin", x |-> x, e |-> e, body |-> Block(ss)]
Def(f, ps, ss)    == [Fun(ps, ss) EXCEPT !.k = "def"] @@ [f |-> f]    \* statement
\* The last parameters of function n take their values from ds; n takes more arguments as xs.
Defaults(n, ds)   == [n EXCEPT !.defs = ds]
Variadic(n, xs)   == [n EXCEPT !.rest = <<xs>>]
Return(e)         == [k |-> "return", e |-> e]
Break(e)          == [k |-> "break", e |-> e]
Continue          == [k |-> "continue"]

PWild             == [k |-> "wild"]
PId(x)            == [k |-> "pid", x |-> x]
PLit(v)           == [k |-> "plit", v |-> v]
PPin(x)           == [k |-> "pin", x |-> x]
PCtor(c, ps)      == [k |-> "pctor", c |-> c, ps |-> ps]
PSpread(p)        == [k |-> "spread", p |-> p]
\* The last of ps may be a spread.
PSeq(t, ps)       == [k |-> "pseq", t |-> t, ps |-> ps]
\* Fields by name, and what each must match.
PRec(xs, ps)      == [k |-> "prec", xs |-> xs, ps |-> ps]
PType(x, t)       == [k |-> "ptype", x |-> x, t |-> t]                \* x: t
\* The path as a node of its own: the value of e.x[i].
Reach(e, path)    == FoldLeft(LAMBDA n, s : IF s.k = "lit" /\ s.v.t = "name"
                                            THEN Member(n, s.v.v) ELSE Index(n, s), e, path)

\* x |> f(es): the piped value x takes the place of _, or comes last.
Hole              == Id("_")
PipeArgs(es, x)   == IF \E i \in DOMAIN es : es[i] = Hole
                     THEN [i \in DOMAIN es |-> IF es[i] = Hole THEN x ELSE es[i]]
                     ELSE Append(es, x)

HasSpread(ps)     == ps # <<>> /\ ps[Len(ps)].k = "spread"
=============================================================================
