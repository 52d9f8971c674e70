------------------------------ MODULE Backends ------------------------------
(***************************************************************************)
(* The two back ends of the language side by side: every program is        *)
(* compiled and run on the virtual machine step by step, and its outcome   *)
(* held against that of the tree walker and the type that the analyzer     *)
(* inferred for it.                                                        *)
(***************************************************************************)
EXTENDS StackMachine

CONSTANT InferredTypes    \* what the analyzer infers: ProgramTypes

Tree   == INSTANCE TreeWalk
Typing == INSTANCE MatchTyping

\* The types are inferred before a program runs: TLC is given them once.
ProgramTypes == Typing!Let(Programs, LAMBDA ps : [p \in DOMAIN ps |-> Typing!ProgramType(ps[p])])

\* What a program has shown when it ends, after the tree walker here.
Observed(r) == [out |-> r.st.out, v |-> Shown(r.v)]

\* The code never changes: prog stands for it.
Running == <<prog, stack, frames, data>>

(* A program prints the same and has the same value on both back ends.      *)
(* (config.go lets the user choose one by a flag; docs and tests speak of   *)
(* one language.)                                                           *)
SameOutcome ==
  result # <<>> =>
    [out |-> output, v |-> Shown(result[1])] = Observed(Tree!EvalProgram(Programs[prog]))

-----------------------------------------------------------------------------
\* What the values of a type are: a type variable stands for any type.
RECURSIVE HasType(_, _)
HasType(v, t) ==
  CASE t.k = "var"    -> TRUE
    [] t.k = "union"  -> \E i \in DOMAIN t.ts : HasType(v, t.ts[i])
    [] t.k = "tuple"  -> /\ v.t = "tuple" /\ Len(v.v) = Len(t.ts)
                         /\ \A i \in DOMAIN t.ts : HasType(v.v[i], t.ts[i])
    [] t.k = "record" -> /\ v.t = "record" /\ DOMAIN t.fs \subseteq DOMAIN v.v
                         /\ \A x \in DOMAIN t.fs : HasType(v.v[x], t.fs[x])
    [] t.k = "app"    ->
         /\ TypeName(v) = t.c
         /\ t.c = "List" => \A i \in DOMAIN v.v : HasType(v.v[i], t.ts[1])
         /\ v.t = "data" /\ v.v # <<>> =>
              LET c == Typing!Constructors[v.c]
              IN HasType(v.v[1], t.ts[Typing!PlaceOf(c.of.ts, c.arg[1])])

(* A script that the analyzer accepts ends with a value of the type that   *)
(* was inferred for it: every match finds an arm, and the names its arm    *)
(* binds hold what their types say.  (docs/tutorial/38_type_system.md: the *)
(* analyzer ensures that pattern matching is exhaustive.)                  *)
WellTyped ==
  result # <<>> => Typing!Let(InferredTypes[prog], LAMBDA r : r.ok => HasType(result[1], r.t))
=============================================================================
