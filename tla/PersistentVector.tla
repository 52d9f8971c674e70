-------------------------- MODULE PersistentVector --------------------------
(***************************************************************************)
(* The persistent vector behind a list of the language (evaluator/         *)
(* persistent_vector.go): a tree of arrays of width cells and a tail that  *)
(* is not yet in the tree.  A heap is the sequence of the arrays that were  *)
(* allocated, an array is referred to by its place in the heap, and what a  *)
(* function of the code writes in an array it allocated or in one it was    *)
(* given is here the difference between a longer heap and a changed one.    *)
(*                                                                         *)
(* The code shifts an index by a multiple of the bits of width - 1 to find  *)
(* the way down the tree; a level counts these multiples, so that what is   *)
(* shifted by a level is divided by a power of width.  The functions that   *)
(* call themselves level by level are given by what they do on each one.    *)
(***************************************************************************)
EXTENDS Integers, Sequences

CONSTANT width     \* cells of an array, 32 in the code

ASSUME WidthAssumption == width \in Nat \ {0, 1}

nil == 0

\* An array allocated after all the others, and where it is.
Alloc(h, array) == [heap |-> Append(h, array), at |-> Len(h) + 1]

CopyInPlace(h, a, i, x) == [heap |-> [h EXCEPT ![a] = [@ EXCEPT ![i + 1] = x]], at |-> a]

\* A copy of the array at a with cell i (from 0) set, the array kept.
CopyWith(h, a, i, x) == Alloc(h, [h[a] EXCEPT ![i + 1] = x])

\* 1 << level
Power[level \in Nat] == IF level = 0 THEN 1 ELSE width * Power[level - 1]

\* (i >> level) & mask
Digit(i, level) == (i \div Power[level]) % width

Blank == [i \in 1..width |-> nil]

EmptyVector(h) ==
  LET t == Alloc(h, << >>)
  IN [heap |-> t.heap, vec |-> [count |-> 0, shift |-> 1, root |-> nil, tail |-> t.at]]

TailOffset(v) == IF v.count < width THEN 0 ELSE ((v.count - 1) \div width) * width

\* The array of each level on the way to index i, nil below the first that is missing.
Trail(h, v, i) ==
  LET t[l \in 0..v.shift] ==
        IF l = v.shift THEN v.root
        ELSE LET a == t[l + 1] IN IF a = nil THEN nil ELSE h[a][Digit(i, l + 1) + 1]
  IN t

VectorGet(h, v, i) ==
  IF i < 0 \/ i >= v.count THEN nil
  ELSE IF i >= TailOffset(v) THEN h[v.tail][i - TailOffset(v) + 1]
  ELSE h[Trail(h, v, i)[0]][Digit(i, 0) + 1]

\* Where the array of a level goes if those above a are put on the heap from below.
Stacked(h, a, level) == IF level = 0 THEN a ELSE Len(h) + level

NewPath(h, level, a) ==
  [heap |-> h \o [l \in 1..level |-> [Blank EXCEPT ![1] = Stacked(h, a, l - 1)]],
   at   |-> Stacked(h, a, level)]

\* Copies of the arrays on the way to the tail; from the first that is missing a new path.
PushTail(h, v, tailNode) ==
  LET t       == Trail(h, v, v.count - 1)
      Path(l) == LET sub   == Digit(v.count - 1, l) + 1
                     child == Stacked(h, tailNode, l - 1)
                 IN CASE t[l] # nil                 -> [h[t[l]] EXCEPT ![sub] = child]
                      [] t[l] = nil /\ l = v.shift -> [Blank EXCEPT ![sub] = child]
                      [] OTHER                      -> [Blank EXCEPT ![1] = child]
  IN [heap |-> h \o [l \in 1..v.shift |-> Path(l)], at |-> Stacked(h, tailNode, v.shift)]

\* The tree has no room for another tail at its present height.
RootOverflow(v) == v.count \div width > Power[v.shift]

VectorAppend(h, v, x) ==
  IF Len(h[v.tail]) < width
  THEN LET t == Alloc(h, Append(h[v.tail], x))
       IN [heap |-> t.heap, vec |-> [v EXCEPT !.count = @ + 1, !.tail = t.at]]
  ELSE LET node == Alloc(h, h[v.tail])
           path == NewPath(node.heap, v.shift, node.at)
           root == IF RootOverflow(v)
                   THEN Alloc(path.heap, [Blank EXCEPT ![1] = v.root, ![2] = path.at])
                   ELSE PushTail(node.heap, v, node.at)
           t    == Alloc(root.heap, <<x>>)
       IN [heap |-> t.heap,
           vec  |-> [count |-> v.count + 1, root |-> root.at, tail |-> t.at,
                     shift |-> IF RootOverflow(v) THEN v.shift + 1 ELSE v.shift]]

\* Copies of the arrays on the way to index i, of which the lowest gets x.
DoAssoc(h, v, i, x) ==
  LET t       == Trail(h, v, i)
      Path(l) == [h[t[l]] EXCEPT ![Digit(i, l) + 1] = IF l = 0 THEN x ELSE Len(h) + l]
  IN [heap |-> h \o [l \in 1..v.shift + 1 |-> Path(l - 1)], at |-> Len(h) + v.shift + 1]

VectorUpdate(h, v, i, x) ==
  IF i < 0 \/ i >= v.count THEN [heap |-> h, vec |-> v]
  ELSE IF i >= TailOffset(v)
  THEN LET t == CopyWith(h, v.tail, i - TailOffset(v), x)
       IN [heap |-> t.heap, vec |-> [v EXCEPT !.tail = t.at]]
  ELSE LET r == DoAssoc(h, v, i, x)
       IN [heap |-> r.heap, vec |-> [v EXCEPT !.root = r.at]]

\* v with the elements of s appended one by one.
AppendAll(h, v, s) ==
  LET r[n \in 0..Len(s)] == IF n = 0 THEN [heap |-> h, vec |-> v]
                            ELSE LET q == r[n - 1] IN VectorAppend(q.heap, q.vec, s[n])
  IN r[Len(s)]

VectorFrom(h, s) == LET e == EmptyVector(h) IN AppendAll(e.heap, e.vec, s)

VectorElements(h, v) == [i \in 1..v.count |-> VectorGet(h, v, i - 1)]

VectorSlice(h, v, from, to) == VectorFrom(h, SubSeq(VectorElements(h, v), from + 1, to))

VectorPrepend(h, v, x) == VectorFrom(h, <<x>> \o VectorElements(h, v))

VectorConcat(h, v, w) == AppendAll(h, v, VectorElements(h, w))
=============================================================================
