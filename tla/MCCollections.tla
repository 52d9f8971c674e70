--------------------------- MODULE MCCollections ---------------------------
(***************************************************************************)
(* Lists long enough to raise the tree twice, and maps of keys that share  *)
(* some bits of their hash, all of them, or none.                          *)
(***************************************************************************)
EXTENDS Collections

Sequence(n) == [i \in 1..n |-> 1 + ((i * 5) % 7)]

ListSample(n)  == [kind |-> "list", is |-> Sequence(n)]
MapSample(ks)  == [kind |-> "map", is |-> [i \in 1..Len(ks) |-> Entry(ks[i], i)]]

MCSamples == {ListSample(n) : n \in {0, 1, 2, 4, 6}}
             \cup {MapSample(ks) : ks \in {<< >>, <<1, 2>>, <<2, 3>>, <<3, 2>>, <<4, 2, 1, 3>>, <<1, 4, 5>>}}
MCSets == {{}, {2, 4, 5, 6, 20}, 0..4}
MCPositions == [n \in 0..24 |-> {0, 1, -1, n, n + 1, -n - 1}]
\* 1, 2 and 3 go one way for two levels, 2 and 3 for ever.
MCHash == [k \in 1..5 |-> <<0, 4, 4, 1, 2>>[k]]
=============================================================================
