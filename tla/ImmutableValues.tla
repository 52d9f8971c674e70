--------------------------- MODULE ImmutableValues ---------------------------
(***************************************************************************)
(* What the collections of the language promise: a value is a sequence or  *)
(* a function for ever, a call makes at most one more value, and what it   *)
(* makes depends on the values it was given and on nothing else.           *)
(***************************************************************************)
EXTENDS Integers, SequencesExt, FiniteSetsExt

VARIABLES contents,   \* the values the program holds, in the order it got them
          call        \* the last call: the function, the values and what it was given

\* Negative positions count from the end.
At(n, i) == IF i < 0 THEN i + n ELSE i
Within(lo, i, hi) == lo <= i /\ i <= hi
Clamp(i, n) == IF i < 0 THEN 0 ELSE IF i > n THEN n ELSE i

FirstNot(s, P) == LET F == {i \in 1..Len(s) : s[i] \notin P} IN IF F = {} THEN Len(s) + 1 ELSE Min(F)
Stable(s, Key(_)) ==
  SortSeq([i \in 1..Len(s) |-> <<Key(s[i]), i, s[i]>>],
          LAMBDA a, b : a[1] < b[1] \/ (a[1] = b[1] /\ a[2] < b[2]))

\* The calls that fail: the position is outside of the list.
Fails(c, s) ==
  LET n == Len(s)
  IN CASE c.op \in {"tail", "init"} -> n = 0
       [] c.op = "insert" -> ~Within(0, At(n, c.i), n)
       [] c.op = "update" -> ~Within(0, At(n, c.i), n - 1)
       [] c.op = "slice"  -> ~(Within(0, At(n, c.i), At(n, c.j)) /\ At(n, c.j) <= n)
       [] OTHER -> FALSE

\* The sequence a call makes of the sequence s and, if it takes two, t.
OfList(c, s, t) ==
  LET n == Len(s)
  IN CASE c.op = "tail"    -> SubSeq(s, 2, n)
       [] c.op = "init"    -> SubSeq(s, 1, n - 1)
       [] c.op = "take"    -> SubSeq(s, 1, Clamp(c.i, n))
       [] c.op = "drop"    -> SubSeq(s, Clamp(c.i, n) + 1, n)
       [] c.op = "slice"   -> SubSeq(s, At(n, c.i) + 1, At(n, c.j))
       [] c.op = "insert"  -> InsertAt(s, At(n, c.i) + 1, c.x)
       [] c.op = "update"  -> [s EXCEPT ![At(n, c.i) + 1] = c.x]
       [] c.op = "set"     -> IF Within(0, At(n, c.i), n - 1) THEN [s EXCEPT ![At(n, c.i) + 1] = c.x] ELSE s
       [] c.op = "append"  -> Append(s, c.x)
       [] c.op = "v.Update" -> IF Within(0, c.i, n - 1) THEN [s EXCEPT ![c.i + 1] = c.x] ELSE s
       [] c.op \in {"::", "v.Prepend"} -> <<c.x>> \o s
       [] c.op \in {"++", "concat", "flatten"} -> s \o t
       [] c.op = "reverse" -> Reverse(s)
       [] c.op = "filter"  -> SelectSeq(s, LAMBDA x : x \in c.P)
       [] c.op = "partition"  -> SelectSeq(s, LAMBDA x : x \notin c.P)
       [] c.op = "takeWhile" -> SubSeq(s, 1, FirstNot(s, c.P) - 1)
       [] c.op = "dropWhile" -> SubSeq(s, FirstNot(s, c.P), n)
       [] c.op = "map"     -> [i \in 1..n |-> c.x + s[i]]
       [] c.op = "unique"  -> LET F == {i \in 1..n : \A j \in 1..(i - 1) : s[j] # s[i]}
                              IN [k \in 1..Cardinality(F) |-> s[SetToSortSeq(F, <)[k]]]
       [] c.op = "sort"    -> [i \in 1..n |-> Stable(s, LAMBDA x : x)[i][3]]
       [] c.op = "sortBy"  -> [i \in 1..n |-> Stable(s, LAMBDA x : x % c.x)[i][3]]
       [] c.op = "transfer" -> s

\* The function a call makes of the function f and, if it takes two, g.
OfMap(c, f, g) ==
  CASE c.op = "mapPut"    -> [k \in DOMAIN f \cup {c.k} |-> IF k = c.k THEN c.x ELSE f[k]]
    [] c.op = "mapRemove" -> [k \in DOMAIN f \ {c.k} |-> f[k]]
    [] c.op = "mapMerge"  -> g @@ f
    [] c.op = "mapFilter" -> [k \in {l \in DOMAIN f : f[l] \in c.P} |-> f[k]]
    [] c.op = "mapMap"    -> [k \in DOMAIN f |-> f[k] + c.x]
    [] c.op = "transfer"  -> f

\* The values after the call c.
After(values, c) ==
  LET v == values[c.of]
      w == values[c.with]
  IN IF v.kind = "map" THEN Append(values, [kind |-> "map", is |-> OfMap(c, v.is, w.is)])
     ELSE IF Fails(c, v.is) THEN values
     ELSE Append(values, [kind |-> "list", is |-> OfList(c, v.is, w.is)])

Init == call = [op |-> "none", with |-> 1, fails |-> FALSE] /\ Len(contents) > 0
Next == /\ ~call.fails
        /\ call'.fails = (contents[call'.of].kind = "list" /\ Fails(call', contents[call'.of].is))
        /\ contents' = After(contents, call')
Spec == Init /\ [][Next]_<<contents, call>>
=============================================================================
