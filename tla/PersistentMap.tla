---------------------------- MODULE PersistentMap ----------------------------
(***************************************************************************)
(* The persistent map behind a map of the language (evaluator/             *)
(* persistent_map.go): a hash array mapped trie whose nodes hold only the  *)
(* slots in use, the children that hold them told by a bitmap, and buckets *)
(* below the last bits of the hash for keys that collide.  A node is an    *)
(* element of a heap, and a function of the code that writes in a node     *)
(* writes in a copy it allocated.                                          *)
(***************************************************************************)
EXTENDS Integers, SequencesExt, FiniteSetsExt

CONSTANTS
  Keys,          \* keys that Inspect tells apart
  Hash,          \* the hash of each key
  hamtBits,      \* the bits of the hash that choose a slot on one level (5)
  HashWidth      \* the bits of a hash (32)

ASSUME MapAssumption ==
  /\ hamtBits \in Nat \ {0}
  /\ HashWidth \in Nat \ {0}
  /\ Hash \in [Keys -> 0..(2^HashWidth - 1)]

\* No value: nil in the code.
none == 0

Entry(k, x)  == [key |-> k, value |-> x]
IsEntry(s)   == "key" \in DOMAIN s
Child(a)     == [node |-> a]
EmptyNode    == [bitmap |-> {}, slots |-> << >>]

NewNode(h, n) == [heap |-> Append(h, n), at |-> Len(h) + 1]

\* Slot of a key on the level of shift, and the place of a slot among those in use.
Index(k, shift)    == (Hash[k] \div 2^shift) % 2^hamtBits
Place(bitmap, idx) == Cardinality({i \in bitmap : i < idx}) + 1

\* Where a bucket holds the key: 0 if it does not.
InBucket(n, k) == SelectInSeq(n.slots, LAMBDA s : IsEntry(s) /\ s.key = k)

\* An entry of a node above the buckets holds the key: the hash and the key agree.
Holds(s, k) == Hash[s.key] = Hash[k] /\ s.key = k

RECURSIVE NodeGet(_, _, _, _)
NodeGet(h, a, k, shift) ==
  LET n   == h[a]
      idx == Index(k, shift)
      s   == n.slots[Place(n.bitmap, idx)]
  IN CASE shift >= HashWidth  -> IF InBucket(n, k) = 0 THEN none ELSE n.slots[InBucket(n, k)].value
       [] shift < HashWidth /\ idx \notin n.bitmap -> none
       [] shift < HashWidth /\ idx \in n.bitmap ->
            IF IsEntry(s) THEN IF Holds(s, k) THEN s.value ELSE none
            ELSE NodeGet(h, s.node, k, shift + hamtBits)

RECURSIVE NodePut(_, _, _, _, _)
\* The node with the entry put in it, and whether the key is new.
NodePut(h, a, k, x, shift) ==
  LET n   == h[a]
      idx == Index(k, shift)
      pos == Place(n.bitmap, idx)
      s   == n.slots[pos]
      Copy(g, node, new) == NewNode(g, node) @@ [added |-> new]
      Set(g, slot, new)  == Copy(g, [n EXCEPT !.slots[pos] = slot], new)
  IN IF shift >= HashWidth THEN
       LET i == InBucket(n, k)
       IN IF i # 0 THEN Copy(h, [n EXCEPT !.slots[i] = Entry(k, x)], FALSE)
          ELSE Copy(h, [n EXCEPT !.slots = Append(@, Entry(k, x))], TRUE)
     ELSE IF idx \notin n.bitmap THEN
       Copy(h, [bitmap |-> n.bitmap \cup {idx}, slots |-> InsertAt(n.slots, pos, Entry(k, x))], TRUE)
     ELSE IF ~IsEntry(s) THEN
       LET c == NodePut(h, s.node, k, x, shift + hamtBits) IN Set(c.heap, Child(c.at), c.added)
     ELSE IF Holds(s, k) THEN Set(h, Entry(k, x), FALSE)
     ELSE LET e  == NewNode(h, EmptyNode)
              c1 == NodePut(e.heap, e.at, s.key, s.value, shift + hamtBits)
              c2 == NodePut(c1.heap, c1.at, k, x, shift + hamtBits)
          IN Set(c2.heap, Child(c2.at), c1.added \/ c2.added)

NotPulledUp(slots, a) == Child(a)

\* The slot for a child: the entry itself if it is all the child still holds.
PulledUp(slots, a) == IF Len(slots) = 1 /\ IsEntry(slots[1]) THEN slots[1] ELSE Child(a)

RECURSIVE NodeRemove(_, _, _, _)
\* The node without the key, and whether it held it.
NodeRemove(h, a, k, shift) ==
  LET n       == h[a]
      idx     == Index(k, shift)
      pos     == Place(n.bitmap, idx)
      s       == n.slots[pos]
      Kept    == [heap |-> h, at |-> a, removed |-> FALSE]
      Copy(g, node) == NewNode(g, node) @@ [removed |-> TRUE]
      Without(g)    == Copy(g, [bitmap |-> n.bitmap \ {idx}, slots |-> RemoveAt(n.slots, pos)])
  IN IF shift >= HashWidth THEN
       IF InBucket(n, k) = 0 THEN Kept ELSE Copy(h, [n EXCEPT !.slots = RemoveAt(@, InBucket(n, k))])
     ELSE IF idx \notin n.bitmap THEN Kept
     ELSE IF IsEntry(s) THEN IF Holds(s, k) THEN Without(h) ELSE Kept
     ELSE LET c    == NodeRemove(h, s.node, k, shift + hamtBits)
              rest == c.heap[c.at].slots
          IN IF ~c.removed THEN Kept
             ELSE IF rest = << >> THEN Without(c.heap)
             ELSE Copy(c.heap, [n EXCEPT !.slots[pos] = PulledUp(rest, c.at)])

RECURSIVE NodeItems(_, _)
NodeItems(h, a) ==
  FlattenSeq([i \in 1..Len(h[a].slots) |->
    IF IsEntry(h[a].slots[i]) THEN <<h[a].slots[i]>> ELSE NodeItems(h, h[a].slots[i].node)])

\* A map is its root, 0 when it never had one, and its count.
EmptyMap == [root |-> 0, count |-> 0]

MapGet(h, m, k) == IF m.root = 0 THEN none ELSE NodeGet(h, m.root, k, 0)

MapPut(h, m, k, x) ==
  LET e == IF m.root = 0 THEN NewNode(h, EmptyNode) ELSE [heap |-> h, at |-> m.root]
      r == NodePut(e.heap, e.at, k, x, 0)
  IN [heap |-> r.heap, map |-> [root |-> r.at, count |-> m.count + (IF r.added THEN 1 ELSE 0)]]

MapRemove(h, m, k) ==
  LET r == NodeRemove(h, m.root, k, 0)
  IN IF m.root = 0 \/ ~r.removed THEN [heap |-> h, map |-> m]
     ELSE [heap |-> r.heap, map |-> [root |-> r.at, count |-> m.count - 1]]

MapItems(h, m) == IF m.root = 0 THEN << >> ELSE NodeItems(h, m.root)

MapContains(h, m, k) == MapGet(h, m, k) # none

\* m with the entries put in it one by one.
PutAll(h, m, entries) ==
  FoldLeft(LAMBDA r, e : MapPut(r.heap, r.map, e.key, e.value), [heap |-> h, map |-> m], entries)

MapMerge(h, m, other) == PutAll(h, m, MapItems(h, other))
=============================================================================
