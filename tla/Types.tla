-------------------------------- MODULE Types --------------------------------
(***************************************************************************)
(* The types of the language, substitutions and unification.  A type is a  *)
(* record whose field k names its kind; a substitution is a function from  *)
(* names of type variables to types.  Left out: kinds, aliases, strict     *)
(* mode, row variables, functions and polytypes.                           *)
(***************************************************************************)
EXTENDS Syntax

TVar(x)         == [k |-> "var", x |-> x]
TApp(c, ts)     == [k |-> "app", c |-> c, ts |-> ts]
TCon(c)         == TApp(c, <<>>)
TTuple(ts)      == [k |-> "tuple", ts |-> ts]
TRecord(fs, open) == [k |-> "record", fs |-> fs, open |-> open]
TUnion(ts)      == [k |-> "union", ts |-> ts]             \* two members or more
ListOf(t)       == TApp("List", <<t>>)

(* How a type is spelled: what the members of a union are told apart and   *)
(* sorted by.  A token stands by its place in the order of characters.     *)
Tokens == <<" ", " | ", " }", "(", ")", ", ", "...", "Bool", "Int", "List", "Nil", "Option", "Result",
            "t1", "t10", "t11", "t12", "t13", "t14", "t15", "t16", "t17", "t18", "t19",
            "t2", "t3", "t4", "t5", "t6", "t7", "t8", "t9", "x", "y", "{ ">>
Token(x) == CHOOSE i \in DOMAIN Tokens : Tokens[i] = x
Before(a, b) == \E i \in DOMAIN b : /\ i - 1 <= Len(a) /\ \A j \in 1 .. i - 1 : a[j] = b[j]
                                    /\ i <= Len(a) => a[i] < b[i]

\* What stands before, between and after the parts of a type, and the parts.
Brackets(t) ==
  CASE t.k = "app"    -> [open |-> <<"(", t.c, " ">>, sep |-> " ", close |-> <<")">>]
    [] t.k = "tuple"  -> [open |-> <<"(">>, sep |-> ", ", close |-> <<")">>]
    [] t.k = "union"  -> [open |-> <<>>, sep |-> " | ", close |-> <<>>]
    [] t.k = "record" -> [open |-> <<"{ ">>, sep |-> ", ",
                          close |-> IF t.open THEN <<", ", "...", " }">> ELSE <<" }">>]
Labelled(t) ==
  IF t.k = "record"
  THEN Let(SelectSeq(Tokens, LAMBDA x : x \in DOMAIN t.fs),
           LAMBDA xs : [i \in DOMAIN xs |-> [label |-> <<Token(xs[i])>>, t |-> t.fs[xs[i]]]])
  ELSE [i \in DOMAIN t.ts |-> [label |-> <<>>, t |-> t.ts[i]]]

RECURSIVE Spelled(_)
Spelled(t) ==
  LET Spell(xs)   == [i \in DOMAIN xs |-> Token(xs[i])]
      Part(i, sep, p) == (IF i = 1 THEN <<>> ELSE <<Token(sep)>>) \o p.label \o Spelled(p.t)
      Joined(sep, ps) == FlattenSeq([i \in DOMAIN ps |-> Part(i, sep, ps[i])])
  IN CASE t.k = "var" -> Spell(<<t.x>>)
       [] t.k = "app" /\ t.ts = <<>> -> Spell(<<t.c>>)
       [] OTHER -> Spell(Brackets(t).open) \o Joined(Brackets(t).sep, Labelled(t)) \o Spell(Brackets(t).close)

\* A union of types: flat, each member once, in the order of their spelling.
NormalizeUnion(ts) ==
  LET flat    == UNION {IF t.k = "union" THEN ToSet(t.ts) ELSE {t} : t \in ToSet(ts)}
      spelled == {[t |-> t, as |-> Spelled(t)] : t \in flat}
  IN Let(SetToSortSeq(spelled, LAMBDA a, b : Before(a.as, b.as)),
         LAMBDA members : IF Len(members) = 1 THEN members[1].t ELSE TUnion([i \in DOMAIN members |-> members[i].t]))

-----------------------------------------------------------------------------
(* A substitution is applied to what it puts in place too, except for the  *)
(* variables on the way there.                                             *)
RECURSIVE ApplyUnseen(_, _, _)
ApplyUnseen(t, s, visited) ==
  LET All(ts) == [i \in DOMAIN ts |-> ApplyUnseen(ts[i], s, visited)]
  IN CASE t.k = "var" ->
            IF t.x \in DOMAIN s \ visited THEN ApplyUnseen(s[t.x], s, visited \cup {t.x}) ELSE t
       [] t.k = "union"  -> NormalizeUnion(All(t.ts))
       [] t.k = "record" -> TRecord([x \in DOMAIN t.fs |-> ApplyUnseen(t.fs[x], s, visited)], t.open)
       [] OTHER          -> [t EXCEPT !.ts = All(@)]
Apply(t, s)    == ApplyUnseen(t, s, {})
EmptySubst     == [v \in {} |-> TVar(v)]
Compose(s1, s2) == [v \in DOMAIN s1 |-> Apply(s1[v], s2)] @@ s2

RECURSIVE FreeTypeVariables(_)
FreeTypeVariables(t) ==
  CASE t.k = "var"    -> {t.x}
    [] t.k = "record" -> UNION {FreeTypeVariables(t.fs[x]) : x \in DOMAIN t.fs}
    [] OTHER          -> UNION {FreeTypeVariables(t.ts[i]) : i \in DOMAIN t.ts}

(* The substitution that makes two types equal, as <<it>>, or <<>>: there   *)
(* is none.                                                                *)
Failed  == <<>>
Bind(x, t) == IF x \in FreeTypeVariables(t) THEN Failed ELSE <<x :> t>>

RECURSIVE Unify(_, _, _)
\* Part by part, each under what the parts before it gave.
UnifyParts(as, bs, extra) ==
  FoldLeft(LAMBDA r, i : IF r = Failed THEN Failed
                         ELSE Let(Unify(Apply(as[i], r[1]), Apply(bs[i], r[1]), extra),
                                  LAMBDA u : IF u = Failed THEN Failed ELSE <<Compose(r[1], u[1])>>),
           <<EmptySubst>>, [i \in DOMAIN as |-> i])

(* The fields both records have are unified; the first, expected record    *)
(* must find all of its fields, and the second may have more of them if    *)
(* extra says so or the first is open.                                     *)
UnifyRecords(a, b, extra) ==
  LET Under(xs, fs) == [i \in DOMAIN xs |-> fs[xs[i]]]
  IN IF DOMAIN a.fs \subseteq DOMAIN b.fs /\ (DOMAIN b.fs \subseteq DOMAIN a.fs \/ extra \/ a.open)
     THEN Let(SetToSeq(DOMAIN a.fs \cap DOMAIN b.fs),
              LAMBDA common : UnifyParts(Under(common, a.fs), Under(common, b.fs), FALSE))
     ELSE Failed

\* What the first of the members that unifies gives.
FirstMember(ts, Unified(_)) ==
  FoldLeft(LAMBDA r, t : IF r # Failed THEN r ELSE Unified(t), Failed, ts)

Unify(a, b, extra) ==
  IF a = b THEN <<EmptySubst>>
  ELSE CASE b.k = "union" /\ a.k # "union" -> FirstMember(b.ts, LAMBDA t : Unify(a, t, extra))
         [] a.k = "var" /\ b.k # "union"   -> Bind(a.x, b)
         [] b.k = "var" /\ a.k # "var"     -> Bind(b.x, a)
         [] a.k = "union" /\ b.k \notin {"union", "var"} ->
              FirstMember(a.ts, LAMBDA t : Unify(t, b, extra))
         [] a.k = b.k /\ a.k = "record"    -> UnifyRecords(a, b, extra)
         [] a.k = b.k /\ a.k \in {"app", "tuple", "union"} ->
              IF Len(a.ts) = Len(b.ts) /\ (a.k = "app" => a.c = b.c)
              THEN UnifyParts(a.ts, b.ts, extra /\ a.k # "app") ELSE Failed
         [] OTHER -> Failed
=============================================================================
