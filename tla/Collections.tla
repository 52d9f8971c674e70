----------------------------- MODULE Collections -----------------------------
(***************************************************************************)
(* Lists and maps as a program of the language uses them: the hybrid of    *)
(* vector and cons cells of object_collections.go, the functions of the    *)
(* virtual packages lib/list and lib/map, and a program that calls them on *)
(* the values it holds.  No value is dropped: what a call does to an older *)
(* value shows.                                                            *)
(***************************************************************************)
EXTENDS PersistentVector, PersistentMap

CONSTANTS
  Samples,       \* the lists and maps the program starts with
  Sets,          \* what the predicates it passes accept
  Positions,     \* a function: the positions it passes for a list of a length
  MaxCalls       \* how many calls it makes

VARIABLES heap,    \* arrays, nodes and cells, none of them ever freed
          values,  \* the collections the program holds
          call     \* its last call

vars == <<heap, values, call>>

-----------------------------------------------------------------------------
(* A list is a cell of the heap: a vector, or an element before a list.    *)

FromVector(r)  == Alloc(r.heap, [vec |-> r.vec])
NewList(h, s)  == FromVector(VectorFrom(h, s))
IsVector(h, l) == "vec" \in DOMAIN h[l]
ListLen(h, l)  == IF IsVector(h, l) THEN h[l].vec.count ELSE h[l].length

RECURSIVE ToSlice(_, _)
ToSlice(h, l) == IF IsVector(h, l) THEN VectorElements(h, h[l].vec)
                 ELSE <<h[l].head>> \o ToSlice(h, h[l].next)

RECURSIVE CellGet(_, _, _)
CellGet(h, l, i) == CASE IsVector(h, l) -> VectorGet(h, h[l].vec, i)
                      [] ~IsVector(h, l) /\ i = 0 -> h[l].head
                      [] ~IsVector(h, l) /\ i # 0 -> CellGet(h, h[l].next, i - 1)
ListGet(h, l, i) == IF i < 0 \/ i >= ListLen(h, l) THEN nil ELSE CellGet(h, l, i)

Prepend(h, l, x) == Alloc(h, [head |-> x, next |-> l, length |-> ListLen(h, l) + 1])

RECURSIVE Dropped(_, _, _)
\* The cell i cells on, nil when the cells end before.
Dropped(h, l, i) == CASE l = nil -> nil
                      [] l # nil /\ i = 0 -> l
                      [] l # nil /\ i > 0 -> Dropped(h, IF IsVector(h, l) THEN nil ELSE h[l].next, i - 1)

ListSlice(h, l, from, to) ==
  LET shared == IF to = ListLen(h, l) THEN Dropped(h, l, from) ELSE nil
  IN CASE IsVector(h, l) -> FromVector(VectorSlice(h, h[l].vec, from, to))
       [] ~IsVector(h, l) /\ shared # nil -> [heap |-> h, at |-> shared]
       [] ~IsVector(h, l) /\ shared = nil -> NewList(h, SubSeq(ToSlice(h, l), from + 1, to))

ListConcat(h, l, m) ==
  IF IsVector(h, l) /\ IsVector(h, m)
  THEN FromVector(VectorConcat(h, h[l].vec, h[m].vec))
  ELSE NewList(h, ToSlice(h, l) \o ToSlice(h, m))

\* Positions: the code adds the length to a negative one.
FromEnd(n, i) == IF i < 0 THEN i + n ELSE i
Bounded(i, n) == CASE i < 0 -> 0 [] i > n -> n [] OTHER -> i

ListSet(h, l, i, x) ==
  LET s == ToSlice(h, l)
      j == FromEnd(Len(s), i)
  IN IF j < 0 \/ j >= Len(s) THEN [heap |-> h, at |-> l] ELSE NewList(h, [s EXCEPT ![j + 1] = x])

-----------------------------------------------------------------------------
(* lib/list: the functions that make a list.  A predicate is the set it    *)
(* accepts, a function to map adds a number; an error makes no list.  Of   *)
(* the two lists partition makes the first is that of filter.              *)

failed == [heap |-> << >>, at |-> nil]

BuiltinTail(h, l) == IF ListLen(h, l) = 0 THEN failed ELSE ListSlice(h, l, 1, ListLen(h, l))
BuiltinInit(h, l) == IF ListLen(h, l) = 0 THEN failed ELSE ListSlice(h, l, 0, ListLen(h, l) - 1)
BuiltinTake(h, l, i) == ListSlice(h, l, 0, Bounded(i, ListLen(h, l)))
BuiltinDrop(h, l, i) == ListSlice(h, l, Bounded(i, ListLen(h, l)), ListLen(h, l))
BuiltinSlice(h, l, i, j) ==
  LET n    == ListLen(h, l)
      from == FromEnd(n, i)
      to   == FromEnd(n, j)
  IN IF from < 0 \/ to > n \/ from > to THEN failed ELSE ListSlice(h, l, from, to)

BuiltinFilter(h, l, P)  == NewList(h, SelectSeq(ToSlice(h, l), LAMBDA x : x \in P))
BuiltinPartition(h, l, P) == NewList(h, SelectSeq(ToSlice(h, l), LAMBDA x : x \notin P))
BuiltinMap(h, l, x)     == LET s == ToSlice(h, l) IN NewList(h, [i \in 1..Len(s) |-> x + s[i]])
BuiltinReverse(h, l)    == NewList(h, Reverse(ToSlice(h, l)))
BuiltinConcat(h, l, m)  == NewList(h, ToSlice(h, l) \o ToSlice(h, m))
BuiltinFlatten(h, ls)   == LET s == ToSlice(h, ls) IN NewList(h, FlattenSeq([i \in 1..Len(s) |-> ToSlice(h, s[i])]))
BuiltinUnique(h, l) ==
  NewList(h, FoldLeft(LAMBDA r, x : IF Contains(r, x) THEN r ELSE Append(r, x), << >>, ToSlice(h, l)))

\* What SliceStable makes of s: an element goes before the first one it is less than.
Stably(s, Less(_, _)) ==
  FoldLeft(LAMBDA r, x : LET G == {i \in 1..Len(r) : Less(x, r[i])}
                         IN InsertAt(r, IF G = {} THEN Len(r) + 1 ELSE Min(G), x), << >>, s)
BuiltinSort(h, l)      == NewList(h, Stably(ToSlice(h, l), <))
BuiltinSortBy(h, l, x) == NewList(h, Stably(ToSlice(h, l), LAMBDA a, b : (a % x) - (b % x) < 0))

BuiltinTakeWhile(h, l, P) ==
  NewList(h, FoldLeft(LAMBDA r, x : IF r.on /\ x \in P THEN [r EXCEPT !.s = Append(@, x)] ELSE [r EXCEPT !.on = FALSE],
                      [on |-> TRUE, s |-> << >>], ToSlice(h, l)).s)
BuiltinDropWhile(h, l, P) ==
  LET i == SelectInSeq(ToSlice(h, l), LAMBDA x : x \notin P)
  IN ListSlice(h, l, IF i = 0 THEN ListLen(h, l) ELSE i - 1, ListLen(h, l))

BuiltinAppend(h, l, x) == NewList(h, Append(ToSlice(h, l), x))
BuiltinInsert(h, l, i, x) ==
  LET s == ToSlice(h, l)
      j == FromEnd(Len(s), i)
  IN IF j < 0 \/ j > Len(s) THEN failed ELSE NewList(h, InsertAt(s, j + 1, x))
BuiltinUpdate(h, l, i, x) ==
  LET s == ToSlice(h, l)
      j == FromEnd(Len(s), i)
  IN IF j < 0 \/ j >= Len(s) THEN failed ELSE NewList(h, [s EXCEPT ![j + 1] = x])

\* A list that goes through gob: its elements and nothing of its structure.
ListTransfer(h, l) == NewList(h, ToSlice(h, l))

OnList(h, c, l, m) ==
  CASE c.op = "tail"      -> BuiltinTail(h, l)
    [] c.op = "init"      -> BuiltinInit(h, l)
    [] c.op = "take"      -> BuiltinTake(h, l, c.i)
    [] c.op = "drop"      -> BuiltinDrop(h, l, c.i)
    [] c.op = "slice"     -> BuiltinSlice(h, l, c.i, c.j)
    [] c.op = "insert"    -> BuiltinInsert(h, l, c.i, c.x)
    [] c.op = "update"    -> BuiltinUpdate(h, l, c.i, c.x)
    [] c.op = "set"       -> ListSet(h, l, c.i, c.x)
    [] c.op = "append"    -> BuiltinAppend(h, l, c.x)
    [] c.op = "::"        -> Prepend(h, l, c.x)
    [] c.op = "++"        -> ListConcat(h, l, m)
    [] c.op = "concat"    -> BuiltinConcat(h, l, m)
    [] c.op = "flatten"   -> LET ls == NewList(h, <<l, m>>) IN BuiltinFlatten(ls.heap, ls.at)
    [] c.op = "reverse"   -> BuiltinReverse(h, l)
    [] c.op = "filter"    -> BuiltinFilter(h, l, c.P)
    [] c.op = "partition"    -> BuiltinPartition(h, l, c.P)
    [] c.op = "takeWhile" -> BuiltinTakeWhile(h, l, c.P)
    [] c.op = "dropWhile" -> BuiltinDropWhile(h, l, c.P)
    [] c.op = "map"       -> BuiltinMap(h, l, c.x)
    [] c.op = "unique"    -> BuiltinUnique(h, l)
    [] c.op = "sort"      -> BuiltinSort(h, l)
    [] c.op = "sortBy"    -> BuiltinSortBy(h, l, c.x)
    [] c.op = "transfer"  -> ListTransfer(h, l)
    [] c.op = "v.Update"  -> FromVector(VectorUpdate(h, h[l].vec, c.i, c.x))
    [] c.op = "v.Prepend" -> FromVector(VectorPrepend(h, h[l].vec, c.x))

-----------------------------------------------------------------------------
(* lib/map.                                                                *)

BuiltinMapFilter(h, m, P) == PutAll(h, EmptyMap, SelectSeq(MapItems(h, m), LAMBDA e : e.value \in P))
BuiltinMapMap(h, m, x) ==
  LET it == MapItems(h, m)
  IN PutAll(h, EmptyMap, [i \in 1..Len(it) |-> Entry(it[i].key, it[i].value + x)])
MapTransfer(h, m) == PutAll(h, EmptyMap, MapItems(h, m))

OnMap(h, c, m, o) ==
  CASE c.op = "mapPut"    -> MapPut(h, m, c.k, c.x)
    [] c.op = "mapRemove" -> MapRemove(h, m, c.k)
    [] c.op = "mapMerge"  -> MapMerge(h, m, o)
    [] c.op = "mapFilter" -> BuiltinMapFilter(h, m, c.P)
    [] c.op = "mapMap"    -> BuiltinMapMap(h, m, c.x)
    [] c.op = "transfer"  -> MapTransfer(h, m)

BuiltinMapKeys(h, m)   == LET it == MapItems(h, m) IN NewList(h, [i \in 1..Len(it) |-> it[i].key])
BuiltinMapValues(h, m) == LET it == MapItems(h, m) IN NewList(h, [i \in 1..Len(it) |-> it[i].value])

\* Map.equals: as long, and every entry of the one is in the other.
MapEquals(h, m, o) ==
  /\ m.count = o.count
  /\ \A e \in ToSet(MapItems(h, m)) : MapGet(h, o, e.key) = e.value

BuiltinMapGetOr(h, m, k, x) == IF MapGet(h, m, k) = none THEN x ELSE MapGet(h, m, k)

-----------------------------------------------------------------------------
(* The functions that make no list or map.                                 *)

BuiltinNthNoEnd(h, l, i) == IF i < 0 \/ i >= ListLen(h, l) THEN nil ELSE ListGet(h, l, i)
BuiltinNth(h, l, i) ==
  LET j == FromEnd(ListLen(h, l), i)
  IN IF j < 0 \/ j >= ListLen(h, l) THEN nil ELSE ListGet(h, l, j)
BuiltinHead(h, l)        == IF ListLen(h, l) = 0 THEN nil ELSE ListGet(h, l, 0)
BuiltinLast(h, l)        == IF ListLen(h, l) = 0 THEN nil ELSE ListGet(h, l, ListLen(h, l) - 1)
BuiltinIndexOf(h, l, x)  == SelectInSeq(ToSlice(h, l), LAMBDA y : y = x) - 1
BuiltinContains(h, l, x) == BuiltinIndexOf(h, l, x) >= 0
BuiltinFindIndex(h, l, P) == SelectInSeq(ToSlice(h, l), LAMBDA y : y \in P) - 1
BuiltinFind(h, l, P)     == IF BuiltinFindIndex(h, l, P) < 0 THEN nil ELSE ToSlice(h, l)[BuiltinFindIndex(h, l, P) + 1]
BuiltinAny(h, l, P)      == BuiltinFindIndex(h, l, P) >= 0
BuiltinAll(h, l, P)      == SelectInSeq(ToSlice(h, l), LAMBDA y : y \notin P) = 0
\* Folds of the function that appends to a sequence of numbers, from the left and the right.
BuiltinFoldl(h, l)       == FoldLeft(LAMBDA acc, x : Append(acc, x), << >>, ToSlice(h, l))
BuiltinFoldr(h, l)       == FoldLeft(LAMBDA acc, i : Append(acc, ListGet(h, l, ListLen(h, l) - i)),
                                     << >>, [i \in 1..ListLen(h, l) |-> i])
BuiltinZip(h, l, m) ==
  LET n == IF ListLen(h, m) < ListLen(h, l) THEN ListLen(h, m) ELSE ListLen(h, l)
  IN NewList(h, [i \in 1..n |-> <<ListGet(h, l, i - 1), ListGet(h, m, i - 1)>>])
BuiltinUnzip(h, l) ==
  LET s == ToSlice(h, l)
      a == NewList(h, [i \in 1..Len(s) |-> s[i][1]])
      b == NewList(a.heap, [i \in 1..Len(s) |-> s[i][2]])
  IN [heap |-> b.heap, fst |-> a.at, snd |-> b.at]

-----------------------------------------------------------------------------

List(at) == [kind |-> "list", at |-> at]
Map(m)   == [kind |-> "map", map |-> m]

Init ==
  /\ \E s \in Samples :
       IF s.kind = "list" THEN LET l == NewList(<< >>, s.is) IN heap = l.heap /\ values = <<List(l.at)>>
       ELSE LET m == PutAll(<< >>, EmptyMap, s.is) IN heap = m.heap /\ values = <<Map(m.map)>>
  /\ call = [op |-> "none", with |-> 1, fails |-> FALSE]

\* An element the program has not used before.
Fresh == 20 + Len(values)

Plain(i, ops)   == {[op |-> o, of |-> i, with |-> i] : o \in ops}
ListCalls(i) ==
  LET n == ListLen(heap, values[i].at)
      L == {j \in DOMAIN values : values[j].kind = "list"}
      At(ops) == {[op |-> o, of |-> i, with |-> i, i |-> p, x |-> Fresh] : o \in ops, p \in Positions[n]}
  IN Plain(i, {"tail", "init", "reverse", "unique", "sort", "transfer"})
     \cup At({"take", "drop", "insert", "update", "set"})
     \cup {[op |-> "slice", of |-> i, with |-> i, i |-> p, j |-> q] : p \in Positions[n], q \in Positions[n]}
     \cup {[op |-> o, of |-> i, with |-> i, x |-> Fresh] :
              o \in {"append", "::"} \cup (IF IsVector(heap, values[i].at) THEN {"v.Prepend"} ELSE {})}
     \cup (IF IsVector(heap, values[i].at) THEN At({"v.Update"}) ELSE {})
     \cup {[op |-> o, of |-> i, with |-> i, x |-> 3] : o \in {"map", "sortBy"}}
     \cup {[op |-> o, of |-> i, with |-> j] : o \in {"++", "concat", "flatten"}, j \in L}
     \cup {[op |-> o, of |-> i, with |-> i, P |-> P] : o \in {"filter", "partition", "takeWhile", "dropWhile"}, P \in Sets}

MapCalls(i) ==
  Plain(i, {"transfer"})
  \cup {[op |-> "mapPut", of |-> i, with |-> i, k |-> k, x |-> Fresh] : k \in Keys}
  \cup {[op |-> "mapRemove", of |-> i, with |-> i, k |-> k] : k \in Keys}
  \cup {[op |-> "mapMerge", of |-> i, with |-> j] : j \in DOMAIN values}
  \cup {[op |-> "mapFilter", of |-> i, with |-> i, P |-> P] : P \in Sets}
  \cup {[op |-> "mapMap", of |-> i, with |-> i, x |-> 3]}

CallList(c) ==
  LET r == OnList(heap, c, values[c.of].at, values[c.with].at)
  IN \/ /\ r.at # nil
        /\ heap' = r.heap
        /\ values' = Append(values, List(r.at))
        /\ call' = c @@ [fails |-> FALSE]
     \/ /\ r.at = nil      \* the error ends the program
        /\ call' = c @@ [fails |-> TRUE]
        /\ UNCHANGED <<heap, values>>

CallMap(c) ==
  LET r == OnMap(heap, c, values[c.of].map, values[c.with].map)
  IN /\ heap' = r.heap
     /\ values' = Append(values, Map(r.map))
     /\ call' = c @@ [fails |-> FALSE]

Next ==
  /\ Len(values) <= MaxCalls /\ ~call.fails
  /\ \E i \in DOMAIN values :
       \/ values[i].kind = "list" /\ \E c \in ListCalls(i) : CallList(c)
       \/ values[i].kind = "map" /\ \E c \in MapCalls(i) : CallMap(c)

Spec == Init /\ [][Next]_vars

-----------------------------------------------------------------------------
(* Properties.                                                             *)

MapMeaning(m) == [k \in {l \in Keys : MapGet(heap, m, l) # none} |-> MapGet(heap, m, k)]

Elements(vs, kind) == {v \in ToSet(vs) : v.kind = kind}

\* What a program can see of a value.
Meaning(v) == IF v.kind = "list" THEN [kind |-> "list", is |-> ToSlice(heap, v.at)]
              ELSE [kind |-> "map", is |-> MapMeaning(v.map)]

Abstract == INSTANCE ImmutableValues WITH contents <- [i \in DOMAIN values |-> Meaning(values[i])]

\* Structure sharing never shows: each call makes the value its arguments say and every
\* value made before stays what it was, although they share arrays, nodes and cells
\* (persistent_vector.go, persistent_map.go, object_collections.go).
ImplementsValues == Abstract!Spec

\* A list answers by its elements, whatever it is made of: a position counted from the
\* end, the first element a predicate accepts, the shorter of two lists zipped
\* (builtins_list.go; docs/tutorial/19_builtins.md:286-298: head, last and nth give the
\* element and tail and init the list, without an Option, and fail where there is none).
ListAnswers ==
  LET v == Last(values) IN v.kind = "list" =>
    LET s == ToSlice(heap, v.at)
        n == Len(s)
        l == v.at
    IN /\ ListLen(heap, l) = n
       /\ \A i \in Positions[n] :
            BuiltinNth(heap, l, i) = (CASE i \in 0..(n - 1) -> s[i + 1] [] i \in (-n)..(-1) -> s[n + i + 1] [] OTHER -> nil)
       /\ n > 0 => BuiltinHead(heap, l) = s[1] /\ BuiltinLast(heap, l) = s[n]
       /\ \A P \in Sets :
            LET i == BuiltinFindIndex(heap, l, P)
            IN /\ BuiltinAny(heap, l, P) <=> \E j \in 1..n : s[j] \in P
               /\ BuiltinAll(heap, l, P) <=> \A j \in 1..n : s[j] \in P
               /\ BuiltinAny(heap, l, P) => BuiltinFind(heap, l, P) = s[i + 1] /\ \A j \in 1..i : s[j] \notin P
       /\ \A x \in 0..6 : BuiltinContains(heap, l, x) <=> \E j \in 1..n : s[j] = x
       /\ BuiltinFoldl(heap, l) = s /\ BuiltinFoldr(heap, l) = Reverse(s)
       /\ LET w == values[call.with]
            IN call.op \in {"++", "::"} =>
            LET z == BuiltinZip(heap, l, w.at)
                u == BuiltinUnzip(z.heap, z.at)
                k == ListLen(z.heap, z.at)
            IN /\ k = Min({n, ListLen(heap, w.at)})
               /\ ToSlice(u.heap, u.fst) = SubSeq(s, 1, k)
               /\ ToSlice(u.heap, u.snd) = SubSeq(ToSlice(heap, w.at), 1, k)

RECURSIVE NodesBelow(_)
NodesBelow(a) ==
  UNION {{heap[a].slots[i].node} \cup NodesBelow(heap[a].slots[i].node) :
           i \in {j \in DOMAIN heap[a].slots : ~IsEntry(heap[a].slots[j])}}

\* The trie of a map lists each key once, counts them, and is no deeper than it must be:
\* a node below the root holds two keys or more, so a lookup never goes deeper than the
\* first bits two keys differ in.  Two maps that are equal then list their entries in one
\* order, unless keys collide (persistent_map.go put, remove).
TrieShape ==
  LET v == Last(values) IN v.kind = "map" =>
    LET m  == v.map
        it == MapItems(heap, m)
        ks == BuiltinMapKeys(heap, m)
        Collide == \E k, l \in DOMAIN MapMeaning(m) : k # l /\ Hash[k] = Hash[l]
    IN /\ m.count = Len(it) /\ m.count = Cardinality(DOMAIN MapMeaning(m))
       /\ ToSet(ToSlice(ks.heap, ks.at)) = DOMAIN MapMeaning(m)
       /\ m.root # 0 => \A a \in NodesBelow(m.root) : Len(NodeItems(heap, a)) >= 2
       /\ \A w \in Elements(values, "map") :
            MapEquals(heap, m, w.map) => /\ MapMeaning(m) = MapMeaning(w.map)
                                         /\ Collide \/ it = MapItems(heap, w.map)
=============================================================================
