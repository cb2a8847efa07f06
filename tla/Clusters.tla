------------------------------ MODULE Clusters ------------------------------
(***************************************************************************)
(* Grouping duplicates by disjoint sets                                    *)
(* (crates/alaya-core/src/deduplication.rs: UnionFind, group_duplicates).  *)
(*                                                                         *)
(* Items are numbers, in the order of the scan.  `pairs` is the sequence   *)
(* that find_duplicate_pairs returns: similar items, most similar first.   *)
(***************************************************************************)
EXTENDS Integers, Sequences, FiniteSets

\* A forest of disjoint sets: a root is its own parent.
NewForest(items) == [parent |-> [x \in items |-> x], rank |-> [x \in items |-> 0]]

\* From x up its parents, in as many steps as there are items.
Climb(forest, x) ==
  LET up[k \in 0 .. Cardinality(DOMAIN forest.parent)] ==
        IF k = 0 THEN x ELSE forest.parent[up[k - 1]]
  IN  up

\* The items between x and its root, both included.
PathOf(forest, x) == LET up == Climb(forest, x) IN {up[k] : k \in DOMAIN up}

Root(forest, x) == CHOOSE r \in PathOf(forest, x) : forest.parent[r] = r

\* UnionFind::find hangs the path it walked below the root.
Compressed(forest, x) ==
  [forest EXCEPT !.parent = [y \in DOMAIN @ |->
     IF y \in PathOf(forest, x) THEN Root(forest, x) ELSE @[y]]]

\* Slip: the item is hung below the other root, not the item's own root.
JoinItems(forest, x, y) ==
  LET f == Compressed(Compressed(forest, x), y)
  IN  [f EXCEPT !.parent[x] = Root(f, y)]

\* UnionFind::union, by rank.
Join(forest, x, y) ==
  LET f == Compressed(Compressed(forest, x), y)
      rx == Root(f, x)
      ry == Root(f, y)
  IN  CASE rx = ry -> f
        [] rx # ry /\ f.rank[rx] < f.rank[ry] -> [f EXCEPT !.parent[rx] = ry]
        [] rx # ry /\ f.rank[rx] > f.rank[ry] -> [f EXCEPT !.parent[ry] = rx]
        [] rx # ry /\ f.rank[rx] = f.rank[ry] ->
             [f EXCEPT !.parent[ry] = rx, !.rank[rx] = @ + 1]

\* A pair is joined if both are among the items.
Among(items, pair) == pair[1] \in items /\ pair[2] \in items
JoinPair(forest, pair) ==
  IF Among(DOMAIN forest.parent, pair) THEN Join(forest, pair[1], pair[2]) ELSE forest

\* The forest after the first k pairs.
Forests(items, pairs) ==
  LET forest[k \in 0 .. Len(pairs)] ==
        IF k = 0 THEN NewForest(items) ELSE JoinPair(forest[k - 1], pairs[k])
  IN  forest

\* group_duplicates: the sets with two members or more.
Groups(items, pairs) ==
  LET joined == Forests(items, pairs)[Len(pairs)]
      SetOf(x) == {y \in items : Root(joined, y) = Root(joined, x)}
  IN  {g \in {SetOf(x) : x \in items} : Cardinality(g) >= 2}

-----------------------------------------------------------------------------

\* No pair of items leaves s.
Closed(s, items, pairs) ==
  \A k \in DOMAIN pairs : Among(items, pairs[k]) => (pairs[k][1] \in s <=> pairs[k][2] \in s)

\* What a group is meant to be ("groups them transitively"): two items or more
\* that no pair leaves and that no part of them could do without.
Components(items, pairs) ==
  {g \in SUBSET items :
     /\ Cardinality(g) >= 2 /\ Closed(g, items, pairs)
     /\ \A h \in SUBSET g : Closed(h, items, pairs) => h \in {{}, g}}

=============================================================================
